---------------------------- MODULE TopologyProofs ----------------------------
(***************************************************************************)
(* What the topology tracker computes from its records is true of the      *)
(* network as far as its records are, for any speakers, groups, addresses  *)
(* and memberships, and the sensors show it.                               *)
(***************************************************************************)
EXTENDS Topology, FiniteSetTheorems, SequenceTheorems, WellFoundedInduction, TLAPS

-----------------------------------------------------------------------------
(* Naturals are well-ordered: the last record with a property exists.              *)

LEMMA LeastNatural ==
  ASSUME NEW T, T \subseteq Nat, T # {}
  PROVE  \E m \in T : \A n \in T : m <= n
<1> DEFINE R == OpToRel(<, Nat)
<1>1. IsWellFoundedOn(R, Nat)
  BY NatLessThanWellFounded
<1>a. \A x \in Nat \X Nat : x[1] < x[2] => x \in R
  BY Zenon DEF OpToRel
<1> HIDE DEF R
<1>2. PICK m \in T : \A n \in T : <<n, m>> \notin R
  BY <1>1, WFMin
<1>3. ASSUME NEW n \in T
      PROVE  m <= n
  <2>1. <<n, m>> \in Nat \X Nat /\ <<n, m>>[1] = n /\ <<n, m>>[2] = m
    OBVIOUS
  <2>2. ~(n < m)
    <3> DEFINE p == <<n, m>>
    <3>1. p \in Nat \X Nat /\ p[1] = n /\ p[2] = m /\ p \notin R
      BY <2>1, <1>2
    <3> HIDE DEF p
    <3>2. QED  BY <3>1, <1>a
  <2>3. QED  BY <2>2
<1>4. QED  BY <1>3

LEMMA GreatestNatural ==
  ASSUME NEW T, NEW b \in Nat, T \subseteq 0..b, T # {}
  PROVE  \E m \in T : \A n \in T : n <= m
<1> DEFINE U == {k \in Nat : \A n \in T : n <= k}
<1>1. b \in U
  OBVIOUS
<1>2. PICK m \in U : \A k \in U : m <= k
  BY <1>1, LeastNatural
<1>3. m \in T
  <2> SUFFICES ASSUME m \notin T
               PROVE FALSE
    OBVIOUS
  <2>1. PICK n \in T : TRUE
    OBVIOUS
  <2>2. m # 0 /\ n \in Nat
    BY <2>1
  <2>3. m-1 \in Nat /\ \A k \in T : k <= m-1
    BY <2>2
  <2>4. QED  BY <2>3, <1>2
<1>4. QED  BY <1>2, <1>3

-----------------------------------------------------------------------------
(* What the tracker's dictionaries hold: a record per device, and the last one of  *)
(* a speaker at an address.                                                        *)

LEMMA InfosAreRecords ==
  ASSUME TopologyTypeOK
  PROVE  /\ DOMAIN infos = 1..Len(infos) /\ Len(infos) \in Nat
         /\ \A i \in DOMAIN infos :
               infos[i] \in Info /\ infos[i].uuid \in Devices /\ infos[i].host \in Hosts
<1>1. infos \in Seq(Info)
  BY DEF TopologyTypeOK
<1>2. DOMAIN infos = 1..Len(infos) /\ Len(infos) \in Nat
  BY <1>1
<1>3. \A i \in DOMAIN infos : infos[i] \in Info
  BY <1>1
<1>4. QED  BY <1>2, <1>3 DEF Info

LEMMA HostIsRecorded ==
  ASSUME TopologyTypeOK, NEW d, Recorded(d) # {}
  PROVE  /\ HostOf(d) \in Hosts
         /\ \E i \in Recorded(d) : HostOf(d) = infos[i].host
<1>1. PICK i \in Recorded(d) : i = CHOOSE j \in Recorded(d) : TRUE
  OBVIOUS
<1>2. HostOf(d) = infos[i].host
  BY <1>1 DEF HostOf
<1>3. infos[i].host \in Hosts
  BY <1>1, InfosAreRecords DEF Recorded
<1>4. QED  BY <1>2, <1>3

LEMMA LeaderIsSpeakerThere ==
  ASSUME TopologyTypeOK, NEW h, SpeakersAt(h) # {}
  PROVE  \E i \in SpeakersAt(h) : LeaderAt(h) = infos[i].uuid
<1>1. SpeakersAt(h) \subseteq 0..Len(infos)
  BY InfosAreRecords DEF SpeakersAt
<1>2. \E i \in SpeakersAt(h) : \A j \in SpeakersAt(h) : j <= i
  BY <1>1, GreatestNatural, InfosAreRecords
<1>3. QED  BY <1>2 DEF LeaderAt

LEMMA LeaderType ==
  ASSUME TopologyTypeOK, NEW h
  PROVE  LeaderAt(h) \in Speakers \cup {None}
<1>1. CASE SpeakersAt(h) = {}
  BY <1>1 DEF LeaderAt
<1>2. CASE SpeakersAt(h) # {}
  BY <1>2, LeaderIsSpeakerThere DEF SpeakersAt
<1>3. QED  BY <1>1, <1>2

-----------------------------------------------------------------------------
(* The span of a group: two subnets are known of it.                               *)

LEMMA SpanMeansBoth ==
  ASSUME NEW g
  PROVE  /\ Span(g) \in BOOLEAN \cup {None}
         /\ KnownSubnets(g) # {} => (Span(g) = TRUE <=> {"near", "far"} \subseteq KnownSubnets(g))
<1> DEFINE K == KnownSubnets(g)
<1>1. K \subseteq {"near", "far"}
  BY DEF KnownSubnets, Subnet
<1>2. /\ Cardinality({"near"}) = 1 /\ Cardinality({"far"}) = 1
      /\ Cardinality({"near", "far"}) = 2
  <2>1. Cardinality({"near"}) = 1 /\ Cardinality({"far"}) = 1 /\ IsFiniteSet({"near"})
    BY FS_Singleton
  <2>2. Cardinality({"near"} \cup {"far"}) = Cardinality({"near"}) + 1
    BY <2>1, FS_AddElement
  <2>3. {"near"} \cup {"far"} = {"near", "far"}
    OBVIOUS
  <2>4. QED  BY <2>1, <2>2, <2>3
<1>3. K \in {{}, {"near"}, {"far"}, {"near", "far"}}
  BY <1>1
<1>4. Span(g) = IF K = {} THEN None ELSE Cardinality(K) > 1
  BY DEF Span
<1> HIDE DEF K
<1>5. K # {} => (Cardinality(K) > 1 <=> {"near", "far"} \subseteq K)
  BY <1>2, <1>3
<1>6. CASE K = {}
  BY <1>4, <1>6 DEF K
<1>7. CASE K # {}
  <2>1. Span(g) = (Cardinality(K) > 1)
    BY <1>4, <1>7
  <2>2. Span(g) \in BOOLEAN
    BY <2>1
  <2>3. Span(g) = TRUE <=> {"near", "far"} \subseteq K
    BY <2>1, <1>5, <1>7
  <2>4. QED  BY <2>2, <2>3 DEF K
<1>8. QED  BY <1>6, <1>7

-----------------------------------------------------------------------------
(* Types.                                                                          *)

NetworkTypeOK ==
    /\ address \in [Speakers -> Hosts \cup {None}]
    /\ leads \in [Groups -> Speakers \cup {None}]
    /\ members \in [Speakers -> SUBSET Groups]
    /\ home \in {"near", "far", None}

TrackerTypeOK ==
    /\ groups \in [Groups -> GroupTopology \cup {None}]
    /\ mismatch \in [Devices -> BOOLEAN \cup {None}]
    /\ shown \in [groups : [Groups -> GroupTopology \cup {None}],
                  mismatch : [Devices -> BOOLEAN \cup {None}]]
    /\ issues \subseteq Groups

LEMMA TypeParts == TopologyTypeOK <=> NetworkTypeOK /\ infos \in Seq(Info) /\ TrackerTypeOK
BY DEF TopologyTypeOK, NetworkTypeOK, TrackerTypeOK

LEMMA ComputedType ==
  ASSUME TopologyTypeOK, NEW g
  PROVE  Computed(g) \in GroupTopology \cup {None}
<1>1. CASE Recorded(g) = {}
  BY <1>1 DEF Computed
<1>2. CASE Recorded(g) # {}
  <2>1. HostOf(g) \in Hosts /\ LeaderAt(HostOf(g)) \in Speakers \cup {None}
    BY <1>2, HostIsRecorded, LeaderType
  <2>2. MembersOf(g) \in SUBSET Speakers
    BY DEF MembersOf
  <2>3. Span(g) \in BOOLEAN \cup {None}
    BY SpanMeansBoth
  <2>4. QED  BY <1>2, <2>1, <2>2, <2>3 DEF Computed, GroupTopology
<1>3. QED  BY <1>1, <1>2

LEMMA MisplacedType ==
  ASSUME TopologyTypeOK, NEW d \in Devices
  PROVE  Misplaced(d) \in BOOLEAN \cup {None}
<1>1. mismatch[d] \in BOOLEAN \cup {None}
  BY DEF TopologyTypeOK
<1>2. (Subnet(HostOf(d)) # home) \in BOOLEAN
  OBVIOUS
<1>3. QED  BY <1>1, <1>2 DEF Misplaced

\* A refresh computes, and changes neither the network nor a record.
LEMMA RefreshKeepsType ==
  ASSUME TopologyTypeOK, Refresh
  PROVE  /\ groups' \in [Groups -> GroupTopology \cup {None}]
         /\ mismatch' \in [Devices -> BOOLEAN \cup {None}]
         /\ shown' \in [groups : [Groups -> GroupTopology \cup {None}],
                        mismatch : [Devices -> BOOLEAN \cup {None}]]
<1>1. groups' \in [Groups -> GroupTopology \cup {None}]
  BY ComputedType DEF Refresh
<1>2. mismatch' \in [Devices -> BOOLEAN \cup {None}]
  BY MisplacedType DEF Refresh
<1>3. /\ shown.groups \in [Groups -> GroupTopology \cup {None}]
      /\ shown.mismatch \in [Devices -> BOOLEAN \cup {None}]
  BY DEF TopologyTypeOK
<1> DEFINE shownGroups == [g \in Groups |-> IF groups'[g] = None THEN shown.groups[g] ELSE groups'[g]]
           shownMismatch == [d \in Devices |-> IF Signalled(d) THEN mismatch'[d] ELSE shown.mismatch[d]]
<1>4. shownGroups \in [Groups -> GroupTopology \cup {None}]
  BY <1>1, <1>3
<1>5. shownMismatch \in [Devices -> BOOLEAN \cup {None}]
  BY <1>2, <1>3
<1>6. shown' = [groups |-> shownGroups, mismatch |-> shownMismatch]
  BY DEF Refresh
<1> HIDE DEF shownGroups, shownMismatch
<1>7. QED  BY <1>1, <1>2, <1>4, <1>5, <1>6

LEMMA NetworkKeepsType ==
  ASSUME TopologyTypeOK, NetworkStep
  PROVE  NetworkTypeOK' /\ UNCHANGED trackerVars
<1> USE DEF NetworkTypeOK, Devices
<1>0. NetworkTypeOK
  BY TypeParts
<1>1. ASSUME NEW s \in Speakers, SwitchOff(s)
      PROVE  NetworkTypeOK' /\ UNCHANGED trackerVars
  BY <1>0, <1>1 DEF SwitchOff
<1>2. ASSUME NEW s \in Speakers, NEW h \in Hosts, Move(s, h)
      PROVE  NetworkTypeOK' /\ UNCHANGED trackerVars
  BY <1>0, <1>2 DEF Move
<1>3. ASSUME NEW s \in Speakers, NEW g \in Groups, Elect(g, s)
      PROVE  NetworkTypeOK' /\ UNCHANGED trackerVars
  BY <1>0, <1>3 DEF Elect
<1>4. ASSUME NEW s \in Speakers, NEW gs \in Memberships, ChangeMembership(s, gs)
      PROVE  NetworkTypeOK' /\ UNCHANGED trackerVars
  BY <1>0, <1>4, TopologyAssumption DEF ChangeMembership
<1>5. ASSUME NEW net \in Placements, ChangeInternalUrl(net)
      PROVE  NetworkTypeOK' /\ UNCHANGED trackerVars
  BY <1>0, <1>5, TopologyAssumption DEF ChangeInternalUrl
<1>6. QED  BY <1>1, <1>2, <1>3, <1>4, <1>5 DEF NetworkStep

LEMMA AddressType ==
  ASSUME TopologyTypeOK, NEW d \in Devices, At(d) # None
  PROVE  At(d) \in Hosts
BY DEF At, Devices, TopologyTypeOK

LEMMA RecordKeepsType ==
  ASSUME TopologyTypeOK, NEW d \in Devices, RecordDiscovery(d)
  PROVE  infos' \in Seq(Info)
<1> DEFINE r == [uuid |-> d, host |-> At(d)]
<1>1. r \in Info
  BY AddressType DEF RecordDiscovery, Info
<1>2. infos \in Seq(Info)
  BY DEF TopologyTypeOK
<1>3. CASE Recorded(d) = {}
  BY <1>1, <1>2, <1>3 DEF RecordDiscovery
<1>4. CASE Recorded(d) # {}
  <2> DEFINE moved == [i \in DOMAIN infos |-> IF i \in Recorded(d) THEN r ELSE infos[i]]
  <2>1. infos' = moved
    BY <1>4 DEF RecordDiscovery
  <2> HIDE DEF r
  <2>2. Len(infos) \in Nat /\ DOMAIN infos = 1..Len(infos)
    BY InfosAreRecords
  <2>3. \A i \in 1..Len(infos) : infos[i] \in Info
    BY <2>2, InfosAreRecords
  <2>4. moved \in [1..Len(infos) -> Info]
    BY <1>1, <2>2, <2>3
  <2>5. QED  BY <2>1, <2>2, <2>4
<1>5. QED  BY <1>3, <1>4

LEMMA StepKeepsTopologyType ==
  ASSUME TopologyTypeOK, [TopologyNext]_topologyVars
  PROVE  TopologyTypeOK'
<1>1. CASE NetworkStep
  BY <1>1, NetworkKeepsType DEF NetworkTypeOK, TopologyTypeOK, trackerVars
<1>2. ASSUME NEW d \in Devices, RecordDiscovery(d)
      PROVE  TopologyTypeOK'
  BY <1>2, RecordKeepsType DEF RecordDiscovery, TopologyTypeOK, networkVars
<1>3. CASE Diagnostics
  BY <1>3, RefreshKeepsType DEF Diagnostics, Refresh, TopologyTypeOK, networkVars
<1>4. CASE Cycle
  <2>1. issues' \subseteq Groups
    BY <1>4 DEF Cycle
  <2>2. UNCHANGED <<networkVars, infos>>
    BY <1>4 DEF Cycle, Refresh
  <2>3. QED  BY <1>4, <2>1, <2>2, RefreshKeepsType DEF Cycle, TopologyTypeOK, networkVars
<1>5. CASE Reload
  <2>1. infos' \in Seq(Info)
    BY <1>5 DEF Reload
  <2>2. QED  BY <1>5, <2>1 DEF Reload, TopologyTypeOK, networkVars
<1>6. CASE UNCHANGED topologyVars
  BY <1>6 DEF topologyVars, networkVars, trackerVars, TopologyTypeOK
<1>7. QED  BY <1>1, <1>2, <1>3, <1>4, <1>5, <1>6 DEF TopologyNext

\* The tracker's records, the computed groups with their leaders, the ledger's mismatch
\* and what the sensors show keep their types; a leader is a speaker, never a group,
\* though both are recorded at its address (topology.py, hosts_to_uuid).
THEOREM TopologyTypeCorrect == TopologySpec => []TopologyTypeOK
<1>1. TopologyInit => TopologyTypeOK
  <2> SUFFICES ASSUME TopologyInit
               PROVE  TopologyTypeOK
    OBVIOUS
  <2>1. members \in [Speakers -> SUBSET Groups] /\ home \in {"near", "far", None}
    BY TopologyAssumption DEF TopologyInit
  <2>2. infos \in Seq(Info)
    BY DEF TopologyInit
  <2>3. QED  BY <2>1, <2>2 DEF TopologyInit, TopologyTypeOK
<1>2. TopologyTypeOK /\ [TopologyNext]_topologyVars => TopologyTypeOK'
  BY StepKeepsTopologyType
<1>3. QED  BY <1>1, <1>2, PTL DEF TopologySpec

-----------------------------------------------------------------------------
(* What the properties rest on: a device has one record, which a new one replaces, *)
(* and speakers have addresses of their own.                                       *)

OneRecordEach ==
    \A i, j \in DOMAIN infos : infos[i].uuid = infos[j].uuid => i = j

OwnAddresses ==
    \A s, t \in Speakers : address[s] # None /\ address[s] = address[t] => s = t

TopologyInv == OneRecordEach /\ OwnAddresses

LEMMA RecordReplaces ==
  ASSUME TopologyTypeOK, OneRecordEach, NEW d \in Devices, RecordDiscovery(d)
  PROVE  OneRecordEach'
<1> DEFINE r == [uuid |-> d, host |-> At(d)]
<1>1. infos \in Seq(Info) /\ r \in Info
  BY AddressType DEF TopologyTypeOK, RecordDiscovery, Info
<1>2. r.uuid = d
  OBVIOUS
<1>3. CASE Recorded(d) = {}
  <2>1. infos' = Append(infos, r)
    BY <1>3 DEF RecordDiscovery
  <2> HIDE DEF r
  <2>2. DOMAIN infos' = 1..(Len(infos) + 1) /\ Len(infos) \in Nat /\ DOMAIN infos = 1..Len(infos)
    BY <1>1, <2>1
  <2>3. \A i \in DOMAIN infos : infos'[i] = infos[i] /\ infos[i].uuid # d
    BY <1>1, <2>1, <1>3 DEF Recorded
  <2>4. infos'[Len(infos) + 1] = r
    BY <1>1, <2>1
  <2>5. QED  BY <1>2, <2>2, <2>3, <2>4 DEF OneRecordEach
<1>4. CASE Recorded(d) # {}
  <2>1. infos' = [i \in DOMAIN infos |-> IF i \in Recorded(d) THEN r ELSE infos[i]]
    BY <1>4 DEF RecordDiscovery
  <2>2. DOMAIN infos' = DOMAIN infos
    BY <2>1
  <2>3. \A i \in DOMAIN infos : infos'[i].uuid = infos[i].uuid
    BY <2>1 DEF Recorded
  <2>4. QED  BY <2>2, <2>3 DEF OneRecordEach
<1>5. QED  BY <1>3, <1>4

LEMMA NetworkKeepsAddresses ==
  ASSUME TopologyTypeOK, OwnAddresses, NetworkStep
  PROVE  OwnAddresses'
<1> USE DEF OwnAddresses, TopologyTypeOK
<1>1. ASSUME NEW s \in Speakers, SwitchOff(s)
      PROVE  OwnAddresses'
  BY <1>1 DEF SwitchOff
<1>2. ASSUME NEW s \in Speakers, NEW h \in Hosts, Move(s, h)
      PROVE  OwnAddresses'
  BY <1>2 DEF Move
<1>3. ASSUME UNCHANGED address
      PROVE  OwnAddresses'
  BY <1>3
<1>4. QED
  BY <1>1, <1>2, <1>3 DEF NetworkStep, Elect, ChangeMembership, ChangeInternalUrl

LEMMA TopologyInvHolds == TopologySpec => []TopologyInv
<1>1. TopologyInit => TopologyInv
  BY DEF TopologyInit, TopologyInv, OneRecordEach, OwnAddresses
<1>2. TopologyTypeOK /\ TopologyInv /\ [TopologyNext]_topologyVars => TopologyInv'
  <2> SUFFICES ASSUME TopologyTypeOK, TopologyInv, [TopologyNext]_topologyVars
               PROVE  TopologyInv'
    OBVIOUS
  <2>1. CASE NetworkStep
    <3>1. UNCHANGED infos
      BY <2>1 DEF NetworkStep, SwitchOff, Move, Elect, ChangeMembership, ChangeInternalUrl,
         trackerVars
    <3>2. QED  BY <2>1, <3>1, NetworkKeepsAddresses DEF TopologyInv, OneRecordEach
  <2>2. ASSUME NEW d \in Devices, RecordDiscovery(d)
        PROVE  TopologyInv'
    BY <2>2, RecordReplaces DEF RecordDiscovery, networkVars, TopologyInv, OwnAddresses
  <2>3. CASE Diagnostics \/ Cycle \/ UNCHANGED topologyVars
    BY <2>3 DEF Diagnostics, Cycle, Refresh, topologyVars, networkVars, trackerVars,
       TopologyInv, OneRecordEach, OwnAddresses
  <2>4. CASE Reload
    BY <2>4 DEF Reload, networkVars, TopologyInv, OneRecordEach, OwnAddresses
  <2>5. QED  BY <2>1, <2>2, <2>3, <2>4 DEF TopologyNext
<1>3. QED  BY <1>1, <1>2, TopologyTypeCorrect, PTL DEF TopologySpec

\* With one record each, any record of a device says what its host is.
LEMMA HostOfRecord ==
  ASSUME TopologyTypeOK, OneRecordEach, NEW i \in DOMAIN infos
  PROVE  HostOf(infos[i].uuid) = infos[i].host
<1>1. i \in Recorded(infos[i].uuid)
  BY DEF Recorded
<1>2. PICK j \in Recorded(infos[i].uuid) : HostOf(infos[i].uuid) = infos[j].host
  BY <1>1, HostIsRecorded
<1>3. i = j
  BY <1>2 DEF Recorded, OneRecordEach
<1>4. QED  BY <1>2, <1>3

-----------------------------------------------------------------------------
(* The properties.                                                                 *)

\* What refreshes signal is enough: a sensor never shows another topology or mismatch
\* than the tracker and the ledger hold (async_refresh, _apply_subnet_mismatch).
THEOREM TopologyIsShown == TopologySpec => []SensorsShowTopology
<1>1. TopologyInit => SensorsShowTopology
  BY DEF TopologyInit, SensorsShowTopology
<1>2. TopologyTypeOK /\ SensorsShowTopology /\ [TopologyNext]_topologyVars => SensorsShowTopology'
  <2> SUFFICES ASSUME TopologyTypeOK, SensorsShowTopology, [TopologyNext]_topologyVars
               PROVE  SensorsShowTopology'
    OBVIOUS
  <2>1. CASE Refresh
    <3>1. shown'.mismatch = mismatch'
      <4>1. shown'.mismatch = [d \in Devices |-> IF Signalled(d) THEN mismatch'[d]
                                                ELSE shown.mismatch[d]]
        BY <2>1 DEF Refresh
      <4>2. \A d \in Devices : shown'.mismatch[d] = mismatch'[d]
        BY <4>1 DEF SensorsShowTopology, Signalled
      <4>3. mismatch' = [d \in Devices |-> Misplaced(d)]
        BY <2>1 DEF Refresh
      <4>4. QED  BY <4>1, <4>2, <4>3
    <3>2. \A g \in Groups : groups'[g] # None => shown'.groups[g] = groups'[g]
      BY <2>1 DEF Refresh
    <3>3. QED  BY <3>1, <3>2 DEF SensorsShowTopology
  <2>2. CASE Reload
    BY <2>2 DEF Reload, SensorsShowTopology
  <2>3. CASE UNCHANGED <<groups, mismatch, shown>>
    BY <2>3 DEF SensorsShowTopology
  <2>4. CASE NetworkStep
    BY <2>3, <2>4, NetworkKeepsType DEF trackerVars
  <2>5. QED
    BY <2>1, <2>2, <2>3, <2>4
    DEF TopologyNext, Diagnostics, Cycle, RecordDiscovery, topologyVars, trackerVars
<1>3. QED  BY <1>1, <1>2, TopologyTypeCorrect, PTL DEF TopologySpec

\* Only a refresh computes groups.
LEMMA GroupsAreComputed ==
  ASSUME TopologyTypeOK, [TopologyNext]_topologyVars,
         NEW g \in Groups, groups' # groups, groups'[g] # None
  PROVE  /\ Refresh
         /\ groups'[g] = Computed(g) /\ Recorded(g) # {}
<1>1. CASE Refresh
  BY <1>1 DEF Refresh, Computed
<1>2. CASE NetworkStep
  BY <1>2, NetworkKeepsType DEF trackerVars
<1>3. QED
  BY <1>1, <1>2 DEF TopologyNext, Diagnostics, Cycle, RecordDiscovery, Reload, topologyVars,
     trackerVars

\* The speakers recorded at a group's address are its leader, if no record is stale.
LEMMA LeaderIsThere ==
  ASSUME TopologyTypeOK, TopologyInv, NEW g \in Groups, At(g) # None, NoStaleRecordAt(At(g))
  PROVE  LeaderAt(At(g)) = IF Recorded(leads[g]) # {} /\ HostOf(leads[g]) = At(g)
                           THEN leads[g] ELSE None
<1> DEFINE h == At(g)
<1>1. leads[g] \in Speakers /\ address[leads[g]] = h
  BY TopologyAssumption DEF At, TopologyTypeOK
<1>2. \A i \in SpeakersAt(h) : infos[i].uuid = leads[g]
  <2>1. ASSUME NEW i \in SpeakersAt(h)
        PROVE  infos[i].uuid = leads[g]
    <3>1. infos[i].uuid \in Speakers /\ address[infos[i].uuid] = h
      BY DEF SpeakersAt, NoStaleRecordAt
    <3>2. QED  BY <3>1, <1>1 DEF TopologyInv, OwnAddresses
  <2>2. QED  BY <2>1
<1>3. CASE SpeakersAt(h) = {}
  <2>1. ~(Recorded(leads[g]) # {} /\ HostOf(leads[g]) = h)
    <3> SUFFICES ASSUME Recorded(leads[g]) # {}, HostOf(leads[g]) = h
                 PROVE  SpeakersAt(h) # {}
      BY <1>3
    <3>1. PICK i \in Recorded(leads[g]) : infos[i].host = h
      BY HostIsRecorded
    <3>2. i \in SpeakersAt(h)
      BY <3>1, <1>1 DEF SpeakersAt, Recorded
    <3>3. QED  BY <3>2
  <2>2. QED  BY <1>3, <2>1 DEF LeaderAt
<1>4. CASE SpeakersAt(h) # {}
  <2>1. PICK i \in SpeakersAt(h) : LeaderAt(h) = infos[i].uuid
    BY <1>4, LeaderIsSpeakerThere
  <2>2. infos[i].uuid = leads[g] /\ i \in DOMAIN infos /\ infos[i].host = h
    BY <2>1, <1>2 DEF SpeakersAt
  <2>3. i \in Recorded(leads[g])
    BY <2>2 DEF Recorded
  <2>4. HostOf(leads[g]) = h
    BY <2>2, HostOfRecord DEF TopologyInv
  <2>5. QED  BY <2>1, <2>2, <2>3, <2>4
<1>5. QED  BY <1>3, <1>4

\* The computed leader of a group is the speaker that leads it, or nobody, unless a
\* record that outlived its device has the group's address (hosts_to_uuid).
THEOREM LeadersAreTrue == TopologySpec => LeaderIsTrue
<1>1. TopologyTypeOK /\ TopologyInv /\ [TopologyNext]_topologyVars
        => [\A g \in Groups :
              LET h == At(g) IN
              (groups' # groups /\ groups'[g] # None /\ h # None
                 /\ HostOf(g) = h /\ NoStaleRecordAt(h))
              => groups'[g].leader_uuid = IF Recorded(leads[g]) # {} /\ HostOf(leads[g]) = h
                                          THEN leads[g] ELSE None]_topologyVars
  <2> SUFFICES ASSUME TopologyTypeOK, TopologyInv, [TopologyNext]_topologyVars,
                      NEW g \in Groups, groups' # groups, groups'[g] # None, At(g) # None,
                      HostOf(g) = At(g), NoStaleRecordAt(At(g))
               PROVE  groups'[g].leader_uuid =
                         IF Recorded(leads[g]) # {} /\ HostOf(leads[g]) = At(g)
                         THEN leads[g] ELSE None
    OBVIOUS
  <2>1. groups'[g] = Computed(g) /\ Recorded(g) # {}
    BY GroupsAreComputed
  <2>2. groups'[g].leader_uuid = LeaderAt(At(g))
    BY <2>1 DEF Computed
  <2>3. QED  BY <2>2, LeaderIsThere
<1>2. QED  BY <1>1, TopologyTypeCorrect, TopologyInvHolds, PTL DEF TopologySpec, LeaderIsTrue

\* A probe cycle raises the issue of a group iff a recorded device of it is in each of
\* the two subnets (members_span_subnets, async_check_topology).
THEOREM SpanIssuesAreTrue == TopologySpec => SpanIssueIsTrue
<1> DEFINE Of(g) == {g} \cup {s \in Speakers : g \in members[s]}
           Apart(g) == \E d, e \in Of(g) :
                          /\ Recorded(d) # {} /\ Recorded(e) # {}
                          /\ HostOf(d) \in Near /\ HostOf(e) \in Far
<1>1. ASSUME TopologyTypeOK, NEW g \in Groups, Cycle, groups'[g] # None
      PROVE  g \in issues' <=> Apart(g)
  <2>1. groups'[g] = Computed(g) /\ Recorded(g) # {}
    BY <1>1 DEF Cycle, Refresh, Computed
  <2>2. g \in issues' <=> Span(g) = TRUE
    BY <1>1, <2>1 DEF Cycle, Computed
  <2>3. {d \in Of(g) : Recorded(d) # {}} = {g} \cup MembersOf(g)
    BY <2>1 DEF MembersOf
  <2>4. "near" \in KnownSubnets(g) <=> \E d \in {g} \cup MembersOf(g) : HostOf(d) \in Near
    BY TopologyAssumption DEF KnownSubnets, Subnet
  <2>5. "far" \in KnownSubnets(g) <=> \E d \in {g} \cup MembersOf(g) : HostOf(d) \in Far
    BY TopologyAssumption DEF KnownSubnets, Subnet
  <2>6. Span(g) = TRUE <=> {"near", "far"} \subseteq KnownSubnets(g)
    <3>1. CASE KnownSubnets(g) = {}
      BY <3>1, TopologyAssumption DEF Span
    <3>2. CASE KnownSubnets(g) # {}
      BY <3>2, SpanMeansBoth
    <3>3. QED  BY <3>1, <3>2
  <2>7. QED  BY <2>2, <2>3, <2>4, <2>5, <2>6
<1>2. TopologyTypeOK /\ [TopologyNext]_topologyVars
        => [\A g \in Groups :
              Cycle /\ groups'[g] # None => (g \in issues' <=> Apart(g))]_topologyVars
  BY <1>1
<1>3. QED  BY <1>2, TopologyTypeCorrect, PTL DEF TopologySpec, SpanIssueIsTrue
=============================================================================
