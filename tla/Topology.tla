------------------------------- MODULE Topology -------------------------------
(***************************************************************************)
(* The topology tracker (topology.py): which speaker leads a group, whose  *)
(* members span subnets, and which devices are off the subnet of Home      *)
(* Assistant, computed from discovery records that may be late or outlive  *)
(* their device. With it what it is computed for: the mismatch in the      *)
(* ledger, the sensors and the repair issue of a group.                    *)
(*                                                                         *)
(* Networks and memberships are external: speakers take and give up        *)
(* addresses, groups elect leaders, and the MultizoneManager of            *)
(* pychromecast knows the members.                                         *)
(***************************************************************************)
EXTENDS Naturals, Sequences, FiniteSets

CONSTANTS
    Speakers, Groups,
    Near, Far,      \* the addresses of two subnets
    Names,          \* hosts that are no IPv4 address
    Placements,     \* bound: the subnets of internal_url that occur, None for a host name
    Memberships,    \* bound: the sets of groups that a speaker may be a member of
    None

Devices == Speakers \cup Groups
Hosts == Near \cup Far \cup Names

ASSUME TopologyAssumption ==
    /\ Speakers \cap Groups = {}
    /\ Near \cap Far = {} /\ Names \cap (Near \cup Far) = {}
    /\ None \notin Devices \cup Hosts /\ None \notin BOOLEAN /\ None \notin {"near", "far"}
    /\ Placements \subseteq {"near", "far", None}
    /\ Memberships \subseteq SUBSET Groups

VARIABLES
    address,        \* where each speaker is, None when it is off
    leads,          \* the speaker that leads each group, None without one
    members,        \* the groups each speaker is a member of
    home,           \* the subnet of internal_url
    infos,          \* TopologyTracker.infos, a dict in the order of first discovery
    groups,         \* TopologyTracker.groups
    mismatch,       \* DeviceHealth.subnet_mismatch, None for unknown
    shown,          \* what the sensors last wrote: groups and mismatch
    issues          \* groups with an issue cast_group_spans_subnets

networkVars == <<address, leads, members, home>>
trackerVars == <<infos, groups, mismatch, shown, issues>>
topologyVars == <<networkVars, trackerVars>>

Info == [uuid : Devices, host : Hosts]

GroupTopology ==
    [leader_ip : Hosts, leader_uuid : Speakers \cup {None}, member_uuids : SUBSET Speakers,
     members_span_subnets : BOOLEAN \cup {None}]

-----------------------------------------------------------------------------
(* The network. *)

\* Two speakers are never at one address, one after the other may be.
Move(s, h) ==
    /\ \A other \in Speakers : address[other] # h
    /\ address' = [address EXCEPT ![s] = h]
    /\ UNCHANGED <<leads, members, home, trackerVars>>

SwitchOff(s) ==
    /\ address[s] # None
    /\ address' = [address EXCEPT ![s] = None]
    /\ leads' = [g \in Groups |-> IF leads[g] = s THEN None ELSE leads[g]]
    /\ UNCHANGED <<members, home, trackerVars>>

\* A leader is a member that is on.
Elect(g, s) ==
    /\ leads[g] # s /\ address[s] # None /\ g \in members[s]
    /\ leads' = [leads EXCEPT ![g] = s]
    /\ UNCHANGED <<address, members, home, trackerVars>>

ChangeMembership(s, gs) ==
    /\ \A g \in Groups : leads[g] = s => g \in gs
    /\ members' = [members EXCEPT ![s] = gs]
    /\ UNCHANGED <<address, leads, home, trackerVars>>

ChangeInternalUrl(net) ==
    /\ home' = net
    /\ UNCHANGED <<address, leads, members, trackerVars>>

-----------------------------------------------------------------------------
(* Records. *)

At(d) ==
    IF d \in Speakers THEN address[d]
    ELSE IF leads[d] = None THEN None ELSE address[leads[d]]

Recorded(d) == {i \in DOMAIN infos : infos[i].uuid = d}

\* async_record_discovery: a known device keeps its place.
RecordDiscovery(d) ==
    /\ At(d) # None
    /\ infos' = IF Recorded(d) = {} THEN Append(infos, [uuid |-> d, host |-> At(d)])
                ELSE [i \in DOMAIN infos |->
                        IF i \in Recorded(d) THEN [uuid |-> d, host |-> At(d)] ELSE infos[i]]
    /\ UNCHANGED <<networkVars, groups, mismatch, shown, issues>>

-----------------------------------------------------------------------------
(* The refresh: one step after it has the adapters. *)

\* None for what is no address.
Subnet(h) ==
    IF h \in Near THEN "near" ELSE IF h \in Far THEN "far" ELSE None

HostOf(d) == infos[CHOOSE i \in Recorded(d) : TRUE].host

\* Slip: the records of groups count as well.
AnyAt(h) == {i \in DOMAIN infos : infos[i].host = h}
SpeakersAt(h) == {i \in DOMAIN infos : infos[i].host = h /\ infos[i].uuid \in Speakers}

\* hosts_to_uuid: of several records with one address the last in the dict counts.
LeaderAt(h) ==
    IF SpeakersAt(h) = {} THEN None
    ELSE infos[CHOOSE i \in SpeakersAt(h) : \A j \in SpeakersAt(h) : j <= i].uuid

MembersOf(g) == {s \in Speakers : Recorded(s) # {} /\ g \in members[s]}

\* Slip: the leader's subnet is left out.
MemberSubnets(g) == {Subnet(HostOf(d)) : d \in MembersOf(g)} \ {None}
KnownSubnets(g) == {Subnet(HostOf(d)) : d \in {g} \cup MembersOf(g)} \ {None}

Span(g) == IF KnownSubnets(g) = {} THEN None ELSE Cardinality(KnownSubnets(g)) > 1

Computed(g) ==
    IF Recorded(g) = {} THEN None
    ELSE [leader_ip |-> HostOf(g), leader_uuid |-> LeaderAt(HostOf(g)),
          member_uuids |-> MembersOf(g), members_span_subnets |-> Span(g)]

\* A device that was never recorded keeps what the ledger has.
Misplaced(d) ==
    IF Recorded(d) = {} THEN mismatch[d]
    ELSE IF home = None \/ Subnet(HostOf(d)) = None THEN None
    ELSE Subnet(HostOf(d)) # home

\* Every group is signalled, a device only when its mismatch changes. Slip: a device
\* whose placement becomes unknown is not.
SignalledUnlessUnknown(d) == mismatch'[d] \notin {mismatch[d], None}
Signalled(d) == mismatch'[d] # mismatch[d]

Refresh ==
    /\ groups' = [g \in Groups |-> Computed(g)]
    /\ mismatch' = [d \in Devices |-> Misplaced(d)]
    /\ shown' = [groups |-> [g \in Groups |-> IF groups'[g] = None THEN shown.groups[g] ELSE groups'[g]],
                 mismatch |-> [d \in Devices |-> IF Signalled(d) THEN mismatch'[d]
                                                 ELSE shown.mismatch[d]]]
    /\ UNCHANGED <<networkVars, infos>>

\* A diagnostics download refreshes too, but checks nothing.
Diagnostics == Refresh /\ UNCHANGED issues

\* A probe cycle: async_refresh, then async_check_topology.
Cycle ==
    /\ Refresh
    /\ issues' = {g \in Groups : IF groups'[g] = None THEN g \in issues
                                 ELSE groups'[g].members_span_subnets = TRUE}

\* A new set-up has a new tracker and a new ledger; the issues stay.
Reload ==
    /\ infos' = <<>>
    /\ groups' = [g \in Groups |-> None]
    /\ mismatch' = [d \in Devices |-> None]
    /\ shown' = [groups |-> groups', mismatch |-> mismatch']
    /\ UNCHANGED <<networkVars, issues>>

TopologyInit ==
    /\ address = [s \in Speakers |-> None]
    /\ leads = [g \in Groups |-> None]
    /\ members \in [Speakers -> Memberships]
    /\ home \in Placements
    /\ infos = <<>>
    /\ groups = [g \in Groups |-> None]
    /\ mismatch = [d \in Devices |-> None]
    /\ shown = [groups |-> groups, mismatch |-> mismatch]
    /\ issues = {}

NetworkStep ==
    \/ \E s \in Speakers :
          \/ SwitchOff(s)
          \/ \E h \in Hosts : Move(s, h)
          \/ \E g \in Groups : Elect(g, s)
          \/ \E gs \in Memberships : ChangeMembership(s, gs)
    \/ \E net \in Placements : ChangeInternalUrl(net)

TopologyNext ==
    \/ NetworkStep
    \/ \E d \in Devices : RecordDiscovery(d)
    \/ Diagnostics \/ Cycle \/ Reload

TopologySpec == TopologyInit /\ [][TopologyNext]_topologyVars

-----------------------------------------------------------------------------
(* Properties. *)

TopologyTypeOK ==
    /\ address \in [Speakers -> Hosts \cup {None}]
    /\ leads \in [Groups -> Speakers \cup {None}]
    /\ members \in [Speakers -> SUBSET Groups]
    /\ home \in {"near", "far", None}
    /\ infos \in Seq(Info)
    /\ groups \in [Groups -> GroupTopology \cup {None}]
    /\ mismatch \in [Devices -> BOOLEAN \cup {None}]
    /\ shown \in [groups : [Groups -> GroupTopology \cup {None}],
                  mismatch : [Devices -> BOOLEAN \cup {None}]]
    /\ issues \subseteq Groups

\* No record of a speaker that is elsewhere, or off, has the address.
NoStaleRecordAt(h) ==
    \A i \in DOMAIN infos :
       infos[i].uuid \in Speakers /\ infos[i].host = h => address[infos[i].uuid] = h

\* The leader of a group is the speaker that leads it, as soon as both are recorded at
\* the address they share and nobody else is: a record that outlived its device is the
\* only thing that can mislead (hosts_to_uuid, which never forgets one).
LeaderIsTrue ==
    [][\A g \in Groups :
          LET h == At(g) IN
          (groups' # groups /\ groups'[g] # None /\ h # None
             /\ HostOf(g) = h /\ NoStaleRecordAt(h))
          => groups'[g].leader_uuid = IF Recorded(leads[g]) # {} /\ HostOf(leads[g]) = h
                                      THEN leads[g] ELSE None]_topologyVars

\* The sensors show what the tracker and the ledger hold, though only what changed is
\* signalled (async_refresh, _apply_subnet_mismatch).
SensorsShowTopology ==
    /\ \A g \in Groups : groups[g] # None => shown.groups[g] = groups[g]
    /\ shown.mismatch = mismatch

\* A group has the issue after a probe cycle iff two of its recorded devices have
\* addresses on two subnets (members_span_subnets, async_check_topology).
SpanIssueIsTrue ==
    [][\A g \in Groups :
          Cycle /\ groups'[g] # None =>
             (g \in issues' <=>
                \E d, e \in {g} \cup {s \in Speakers : g \in members[s]} :
                   /\ Recorded(d) # {} /\ Recorded(e) # {}
                   /\ HostOf(d) \in Near /\ HostOf(e) \in Far)]_topologyVars
=============================================================================
