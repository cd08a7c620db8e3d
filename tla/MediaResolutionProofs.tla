------------------------- MODULE MediaResolutionProofs -------------------------
(***************************************************************************)
(* Proofs about the options flow, for any number of flows, devices and     *)
(* base URLs, and about async_play_media beside it. The invariant of the   *)
(* flow speaks of the copies: one that nothing has overtaken at a device   *)
(* holds there what the users meant. An edit that was not raced therefore  *)
(* reaches the next URL that is sent, and decides how a stream is sent.    *)
(* Then about the playlist parsers: for files of any length they return,   *)
(* or raise, what the lines mean, so the first item of a playlist is what  *)
(* is played.                                                              *)
(***************************************************************************)
EXTENDS MediaResolution, WellFoundedInduction, TLAPS

-----------------------------------------------------------------------------
(* The options flow. *)

\* What a flow that is open would write back for a device it has not edited.
CopiesAreMeant ==
    \A f \in Flows : flow[f] # None =>
       \A d \in Devices \ raced :
          d \notin flow[f].edited \cup flow[f].unseen => flow[f].options[d] = intended[d]

OptionsInv == OptionsTypeOK /\ OnlyRacesLoseEdits /\ CopiesAreMeant

-----------------------------------------------------------------------------

\* The options flow starts from options that nobody has edited.
LEMMA OptionsInitInv == OptionsInit => OptionsInv
BY DEF OptionsInit, OptionsInv, OptionsTypeOK, OnlyRacesLoseEdits, CopiesAreMeant, Overrides

\* What an open flow is.
LEMMA OpenFlow ==
    ASSUME OptionsTypeOK, NEW f \in Flows, flow[f] # None
    PROVE  flow[f] \in Flow
BY DEF OptionsTypeOK

\* Taking the copy.
LEMMA BeginInv ==
    ASSUME OptionsInv, NEW f \in Flows, Begin(f)
    PROVE  OptionsInv'
<1> DEFINE new == [options |-> overrides, edited |-> {}, unseen |-> {}]
<1>1. new \in Flow
  BY DEF OptionsInv, OptionsTypeOK, Flow
<1>2. flow' = [flow EXCEPT ![f] = new]
  BY DEF Begin, FromEntry
<1>3. OptionsTypeOK'
  BY <1>1, <1>2 DEF OptionsInv, OptionsTypeOK, Begin
<1>4. OnlyRacesLoseEdits'
  BY DEF OptionsInv, OnlyRacesLoseEdits, Begin
<1>5. CopiesAreMeant'
  <2> SUFFICES ASSUME NEW g \in Flows, flow'[g] # None, NEW d \in Devices \ raced,
                      d \notin flow'[g].edited \cup flow'[g].unseen
               PROVE  flow'[g].options[d] = intended[d]
    BY DEF CopiesAreMeant, Begin
  <2>1. CASE g = f
    BY <2>1, <1>2 DEF OptionsInv, OptionsTypeOK, OnlyRacesLoseEdits
  <2>2. CASE g # f
    BY <2>2, <1>2 DEF OptionsInv, OptionsTypeOK, CopiesAreMeant
  <2> QED BY <2>1, <2>2
<1> QED BY <1>3, <1>4, <1>5 DEF OptionsInv

\* One more device edited in the copy.
LEMMA AddAnotherInv ==
    ASSUME OptionsInv, NEW f \in Flows, NEW d \in Devices, NEW base \in Bases \cup {None},
           AddAnother(f, d, base)
    PROVE  OptionsInv'
<1> DEFINE copy == [flow[f].options EXCEPT ![d] = base]
           new == [options |-> copy, edited |-> flow[f].edited \cup {d},
                   unseen |-> flow[f].unseen]
<1>1. flow[f] \in Flow
  BY OpenFlow DEF OptionsInv, AddAnother
<1>2. new \in Flow
  BY <1>1 DEF Flow, Overrides
<1>3. flow' = [flow EXCEPT ![f] = new]
  BY DEF AddAnother, Submitted, OptionsInv, OptionsTypeOK
<1>4. OptionsTypeOK'
  BY <1>2, <1>3 DEF OptionsInv, OptionsTypeOK, AddAnother
<1>5. OnlyRacesLoseEdits'
  BY DEF OptionsInv, OnlyRacesLoseEdits, AddAnother
<1>6. CopiesAreMeant'
  <2> SUFFICES ASSUME NEW g \in Flows, flow'[g] # None, NEW e \in Devices \ raced,
                      e \notin flow'[g].edited \cup flow'[g].unseen
               PROVE  flow'[g].options[e] = intended[e]
    BY DEF CopiesAreMeant, AddAnother
  <2>1. CASE g = f
    <3>1. e # d /\ e \notin flow[f].edited \cup flow[f].unseen
      BY <2>1, <1>3 DEF OptionsInv, OptionsTypeOK
    <3>2. flow'[g].options[e] = flow[f].options[e]
      BY <2>1, <3>1, <1>1, <1>3 DEF OptionsInv, OptionsTypeOK, Flow, Overrides
    <3> QED BY <3>1, <3>2 DEF OptionsInv, CopiesAreMeant, AddAnother
  <2>2. CASE g # f
    BY <2>2, <1>3 DEF OptionsInv, OptionsTypeOK, CopiesAreMeant
  <2> QED BY <2>1, <2>2
<1> QED BY <1>4, <1>5, <1>6 DEF OptionsInv

\* Writing the copy back whole.
LEMMA FinishInv ==
    ASSUME OptionsInv, NEW f \in Flows, NEW d \in Devices, NEW base \in Bases \cup {None},
           Finish(f, d, base)
    PROVE  OptionsInv'
<1> DEFINE copy == [flow[f].options EXCEPT ![d] = base]
           edits == flow[f].edited \cup {d}
<1>1. flow[f] \in Flow
  BY OpenFlow DEF OptionsInv, Finish
<1>2. copy \in Overrides /\ edits \subseteq Devices
  BY <1>1 DEF Flow, Overrides
<1>3. /\ overrides' = copy
      /\ intended' = [e \in Devices |-> IF e \in edits THEN copy[e] ELSE intended[e]]
      /\ raced' = (raced \cup flow[f].unseen) \ edits
      /\ flow' = [g \in Flows |->
            CASE g = f          -> None
              [] flow[g] = None -> None
              [] OTHER          -> [flow[g] EXCEPT !.unseen = @ \cup edits]]
  BY DEF Finish, FinishWith, Submitted
<1>4. OptionsTypeOK'
  <2>1. overrides' \in Overrides /\ intended' \in Overrides
    BY <1>2, <1>3 DEF OptionsInv, OptionsTypeOK, Overrides
  <2>2. raced' \subseteq Devices
    BY <1>1, <1>3 DEF OptionsInv, OptionsTypeOK, Flow
  <2>3. ASSUME NEW g \in Flows, flow[g] # None
        PROVE  [flow[g] EXCEPT !.unseen = @ \cup edits] \in Flow
    <3>1. flow[g] \in Flow
      BY <2>3, OpenFlow DEF OptionsInv
    <3> QED BY <3>1, <1>2 DEF Flow
  <2>4. flow' \in [Flows -> Flow \cup {None}]
    BY <2>3, <1>3
  <2> QED BY <2>1, <2>2, <2>4 DEF OptionsTypeOK
<1>5. ASSUME NEW e \in Devices, e \notin edits, e \notin raced, e \notin flow[f].unseen
      PROVE  copy[e] = intended[e]
  <2>1. copy[e] = flow[f].options[e]
    BY <1>5, <1>1 DEF Flow, Overrides
  <2> QED BY <2>1, <1>5 DEF OptionsInv, CopiesAreMeant, Finish
<1>6. OnlyRacesLoseEdits'
  BY <1>3, <1>5 DEF OnlyRacesLoseEdits
<1>7. CopiesAreMeant'
  <2> SUFFICES ASSUME NEW g \in Flows, flow'[g] # None, NEW e \in Devices \ raced',
                      e \notin flow'[g].edited \cup flow'[g].unseen
               PROVE  flow'[g].options[e] = intended'[e]
    BY DEF CopiesAreMeant
  <2>1. g # f /\ flow[g] # None
    BY <1>3
  <2>2. flow[g] \in Flow
    BY <2>1, OpenFlow DEF OptionsInv
  <2>3. flow'[g] = [flow[g] EXCEPT !.unseen = @ \cup edits]
    BY <2>1, <1>3
  <2>4. /\ flow'[g].options = flow[g].options
        /\ e \notin edits
        /\ e \notin flow[g].edited \cup flow[g].unseen
    BY <2>2, <2>3 DEF Flow
  <2>5. e \notin raced /\ intended'[e] = intended[e]
    BY <2>4, <1>3
  <2> QED BY <2>1, <2>4, <2>5 DEF OptionsInv, CopiesAreMeant
<1> QED BY <1>4, <1>6, <1>7 DEF OptionsInv

\* Closing the dialog.
LEMMA AbandonInv ==
    ASSUME OptionsInv, NEW f \in Flows, Abandon(f)
    PROVE  OptionsInv'
<1>1. OptionsTypeOK'
  BY DEF OptionsInv, OptionsTypeOK, Abandon
<1>2. OnlyRacesLoseEdits'
  BY DEF OptionsInv, OnlyRacesLoseEdits, Abandon
<1>3. CopiesAreMeant'
  BY DEF OptionsInv, OptionsTypeOK, CopiesAreMeant, Abandon
<1> QED BY <1>1, <1>2, <1>3 DEF OptionsInv

\* Every step of the flows keeps the invariant.
LEMMA OptionsStep == OptionsInv /\ [OptionsNext]_optionsVars => OptionsInv'
<1> SUFFICES ASSUME OptionsInv, [OptionsNext]_optionsVars PROVE OptionsInv'
  OBVIOUS
<1>1. CASE UNCHANGED optionsVars
  BY <1>1 DEF OptionsInv, OptionsTypeOK, OnlyRacesLoseEdits, CopiesAreMeant, optionsVars
<1>2. CASE OptionsNext
  <2>1. PICK f \in Flows :
           \/ Begin(f) \/ SubmitOnly(f) \/ Abandon(f)
           \/ \E d \in Devices, base \in Bases \cup {None} :
                 AddAnother(f, d, base) \/ Finish(f, d, base)
    BY <1>2 DEF OptionsNext
  <2>2. CASE Begin(f)
    BY <2>2, BeginInv
  <2>3. CASE SubmitOnly(f)
    BY <2>3 DEF SubmitOnly, FromEntry, OptionsInv, OptionsTypeOK, OnlyRacesLoseEdits,
                CopiesAreMeant
  <2>4. CASE Abandon(f)
    BY <2>4, AbandonInv
  <2>5. CASE \E d \in Devices, base \in Bases \cup {None} : AddAnother(f, d, base)
    BY <2>5, AddAnotherInv
  <2>6. CASE \E d \in Devices, base \in Bases \cup {None} : Finish(f, d, base)
    BY <2>6, FinishInv
  <2> QED BY <2>1, <2>2, <2>3, <2>4, <2>5, <2>6
<1> QED BY <1>1, <1>2

\* Only a flow that is overtaken loses an edit, whoever has flows open.
THEOREM EditsSurviveWithoutRaces == OptionsSpec => []OnlyRacesLoseEdits
<1>1. OptionsInv => OnlyRacesLoseEdits
  BY DEF OptionsInv
<1> QED BY <1>1, OptionsInitInv, OptionsStep, PTL DEF OptionsSpec

-----------------------------------------------------------------------------
(* Playback beside it. *)

Fields == {"stage", "device", "asked", "caller", "url", "title", "live", "lines"}

\* What every stage of a call keeps.
CallKept ==
    play # None =>
       /\ DOMAIN play = Fields
       /\ play.device \in Devices
       /\ play.asked \in MediaUrl

ResolutionInv == OptionsInv /\ CallKept

-----------------------------------------------------------------------------

\* The options flows go on as if nobody played.
LEMMA FlowsAreAlone == [ResolutionNext]_resolutionVars => [OptionsNext]_optionsVars
BY DEF ResolutionNext, Proceed, PlaylistRead, resolutionVars, PlayMedia, Elsewhere, Resolve,
       NotFetched, Taken, Fetched

\* A call keeps its device and its URL from step to step.
LEMMA CallStep ==
    ASSUME CallKept, [ResolutionNext]_resolutionVars
    PROVE  CallKept'
<1>1. CASE UNCHANGED play
  BY <1>1 DEF CallKept
<1>2. ASSUME NEW d \in Devices, NEW asked \in MediaUrl, NEW caller \in Titles \cup {None},
             PlayMedia(d, asked, caller)
      PROVE  CallKept'
  BY <1>2 DEF PlayMedia, CallKept, Fields
<1>3. CASE Elsewhere \/ Taken
  BY <1>3 DEF Elsewhere, Taken, CallKept
<1>4. CASE Resolve
  BY <1>4 DEF Resolve, At, CallKept, Fields
<1>5. ASSUME NEW parsed, NEW lines, play # None, play' = PlayItem(parsed, lines)
      PROVE  CallKept'
  <2>1. CASE parsed.outcome = "raised"
    BY <1>5, <2>1 DEF PlayItem, CallKept
  <2>2. CASE parsed.outcome \notin {"raised", "items"}
    <3>1. play' = [play EXCEPT !.stage = "handed", !.lines = lines]
      BY <1>5, <2>2 DEF PlayItem
    <3>2. QED  BY <1>5, <3>1 DEF CallKept, Fields
  <2>3. CASE parsed.outcome = "items"
    <3>1. PICK url, title :
             play' = [play EXCEPT !.stage = "handed", !.lines = lines, !.url = url, !.title = title]
      BY <1>5, <2>3 DEF PlayItem
    <3>2. QED  BY <1>5, <3>1 DEF CallKept, Fields
  <2>4. QED  BY <2>1, <2>2, <2>3
<1>6. CASE NotFetched
  BY <1>5, <1>6 DEF NotFetched, At
<1>7. ASSUME NEW lines, Fetched(lines)
      PROVE  CallKept'
  BY <1>5, <1>7 DEF Fetched, At
<1> QED
  BY <1>1, <1>2, <1>3, <1>4, <1>6, <1>7
     DEF ResolutionNext, Proceed, PlaylistRead, resolutionVars

LEMMA ResolutionInitInv == ResolutionInit => ResolutionInv
BY OptionsInitInv DEF ResolutionInit, ResolutionInv, CallKept

LEMMA ResolutionStep == ResolutionInv /\ [ResolutionNext]_resolutionVars => ResolutionInv'
BY FlowsAreAlone, OptionsStep, CallStep DEF ResolutionInv

\* Playing beside the flows, only a flow that is overtaken loses an edit.
THEOREM EditsSurvive == ResolutionSpec => []OnlyRacesLoseEdits
<1>1. ResolutionInv => OnlyRacesLoseEdits
  BY DEF ResolutionInv, OptionsInv
<1> QED BY <1>1, ResolutionInitInv, ResolutionStep, PTL DEF ResolutionSpec

\* The one step that turns what was asked for into what is sent reads the override.
LEMMA ResolvedByOverride ==
    ASSUME Lookalikes = {}, CallKept, ResolutionNext, Resolved
    PROVE  play'.url.host =
              IF overrides[play.device] # None /\ play.asked.host \in Mine
              THEN overrides[play.device] ELSE play.asked.host
<1>1. Resolve
  BY DEF Resolved, ResolutionNext, Proceed, PlaylistRead, PlayMedia, Elsewhere, NotFetched,
         Taken, Fetched, At
<1>2. play'.url = ApplyUrlOverride(play.device, play.asked)
  BY <1>1 DEF Resolve, At, CallKept, Fields
<1>3. play.asked \in MediaUrl
  BY <1>1 DEF Resolve, At, CallKept
<1>4. IsOwnUrl(play.asked) <=> play.asked.host \in Mine
  BY DEF IsOwnUrl, Mine
<1> QED BY <1>2, <1>3, <1>4 DEF ApplyUrlOverride, RewriteHassUrl, MediaUrl

\* What is sent is rebased onto the user's last word, and nothing of third parties is,
\* as long as no third party's address begins with this instance's.
THEOREM EditsReachPlayback ==
    ASSUME Lookalikes = {}
    PROVE  ResolutionSpec => RebasedAsEdited
<1>1. ASSUME ResolutionInv, [ResolutionNext]_resolutionVars, Resolved, play.device \notin raced
      PROVE  LET base == intended[play.device]
                 host == play.asked.host
             IN  play'.url.host = IF base # None /\ host \in Mine THEN base ELSE host
  <2>1. ResolutionNext
    BY <1>1 DEF Resolved, At, resolutionVars
  <2>2. play.device \in Devices
    BY <1>1 DEF Resolved, At, ResolutionInv, CallKept
  <2>3. overrides[play.device] = intended[play.device]
    BY <1>1, <2>2 DEF ResolutionInv, OptionsInv, OnlyRacesLoseEdits
  <2> QED BY <1>1, <2>1, <2>3, ResolvedByOverride DEF ResolutionInv
<1> QED BY <1>1, ResolutionInitInv, ResolutionStep, PTL DEF ResolutionSpec, RebasedAsEdited

\* How a stream of this instance reaches the device follows the users' last word on it,
\* wherever they rebased it: at once and as live, or through the playlist parser.
THEOREM StreamsGoAsEdited ==
    ASSUME Lookalikes = {}
    PROVE  ResolutionSpec => LiveAsEdited
<1>1. ASSUME ResolutionInv, [ResolutionNext]_resolutionVars, Resolved,
             play.asked.path = "hls", play.device \notin raced
      PROVE  LET base == intended[play.device]
                 own == play.asked.host \in Mine
                 host == IF own /\ base # None THEN base ELSE play.asked.host
             IN  /\ play'.live <=> host \in Pinned
                 /\ play'.stage = IF host \in Pinned THEN "handed" ELSE "fetching"
  <2>1. ResolutionNext
    BY <1>1 DEF Resolved, At, resolutionVars
  <2>2. Resolve
    BY <1>1, <2>1 DEF Resolved, ResolutionNext, Proceed, PlaylistRead, PlayMedia, Elsewhere,
           NotFetched, Taken, Fetched, At
  <2>3. DOMAIN play = Fields /\ play.asked \in MediaUrl /\ play.device \in Devices
    BY <1>1 DEF Resolved, At, ResolutionInv, CallKept
  <2>4. overrides[play.device] = intended[play.device]
    BY <1>1, <2>3 DEF ResolutionInv, OptionsInv, OnlyRacesLoseEdits
  <2>5. play'.url.host =
           IF intended[play.device] # None /\ play.asked.host \in Mine
           THEN intended[play.device] ELSE play.asked.host
    BY <1>1, <2>1, <2>4, ResolvedByOverride DEF ResolutionInv
  <2> DEFINE url == ApplyUrlOverride(play.device, play.asked)
  <2>6. /\ play'.url = url /\ play'.live = IsStream(url)
        /\ play'.stage = IF IsPlaylist(url) THEN "fetching" ELSE "handed"
    BY <2>2, <2>3 DEF Resolve, Fields
  <2>7. url.path = "hls"
    BY <1>1, <2>3 DEF ApplyUrlOverride, RewriteHassUrl, MediaUrl
  <2>8. /\ play'.live <=> play'.url.host \in Pinned
        /\ play'.stage = IF play'.url.host \in Pinned THEN "handed" ELSE "fetching"
    BY <2>6, <2>7 DEF IsPlaylist, IsStream, IsHassUrl
  <2>9. QED  BY <2>5, <2>8
<1> QED BY <1>1, ResolutionInitInv, ResolutionStep, PTL DEF ResolutionSpec, LiveAsEdited

-----------------------------------------------------------------------------
(* Folds over the lines of a file. *)

LEMMA LeastNatural ==
  ASSUME NEW T, T \subseteq Nat, T # {}
  PROVE  \E m \in T : \A n \in T : m <= n
<1> DEFINE R == OpToRel(<, Nat)
<1>1. IsWellFoundedOn(R, Nat)
  BY NatLessThanWellFounded
<1>a. \A x \in Nat \X Nat : x[1] < x[2] => x \in R
  BY Zenon DEF OpToRel
<1> HIDE DEF R
<1>2. PICK m \in T : \A n \in T : <<n, m>> \notin R
  BY <1>1, WFMin
<1>3. ASSUME NEW n \in T
      PROVE  m <= n
  <2>1. <<n, m>> \in Nat \X Nat /\ <<n, m>>[1] = n /\ <<n, m>>[2] = m
    OBVIOUS
  <2>2. ~(n < m)
    <3> DEFINE p == <<n, m>>
    <3>1. p \in Nat \X Nat /\ p[1] = n /\ p[2] = m /\ p \notin R
      BY <2>1, <1>2
    <3> HIDE DEF p
    <3>2. QED  BY <3>1, <1>a
  <2>3. QED  BY <2>2
<1>4. QED  BY <1>3

LEMMA GreatestNatural ==
  ASSUME NEW T, NEW b \in Nat, T \subseteq 0..b, T # {}
  PROVE  \E m \in T : \A n \in T : n <= m
<1> DEFINE U == {k \in Nat : \A n \in T : n <= k}
<1>1. b \in U
  OBVIOUS
<1>2. PICK m \in U : \A k \in U : m <= k
  BY <1>1, LeastNatural
<1>3. m \in T
  <2> SUFFICES ASSUME m \notin T
               PROVE FALSE
    OBVIOUS
  <2>1. PICK n \in T : TRUE
    OBVIOUS
  <2>2. m # 0 /\ n \in Nat
    BY <2>1
  <2>3. m-1 \in Nat /\ \A k \in T : k <= m-1
    BY <2>2
  <2>4. QED  BY <2>3, <1>2
<1>4. QED  BY <1>2, <1>3

\* Induction over the lines of a file, with a set in the place of the predicate.
LEMMA LineByLine ==
  ASSUME NEW n \in Nat, NEW P, 0 \in P, \A m \in 0 .. n : m < n /\ m \in P => m + 1 \in P
  PROVE  \A m \in 0 .. n : m \in P
<1> DEFINE T == {m \in 0 .. n : m \notin P}
<1>1. SUFFICES ASSUME T # {} PROVE FALSE
  OBVIOUS
<1>2. T \subseteq Nat
  OBVIOUS
<1> HIDE DEF T
<1>3. PICK m \in T : \A k \in T : m <= k
  BY <1>1, <1>2, LeastNatural
<1>4. m \in 0 .. n /\ m \notin P /\ m # 0
  BY <1>3 DEF T
<1>5. m - 1 \in 0 .. n /\ m - 1 < n /\ m - 1 < m /\ m - 1 + 1 = m
  BY <1>4
<1>6. m - 1 \notin T
  BY <1>2, <1>3, <1>5
<1>7. m - 1 \in P
  BY <1>5, <1>6 DEF T
<1>8. QED  BY <1>4, <1>5, <1>7

\* The largest and the smallest line number of a set, as Max and Min choose them.
LEMMA MaxLine ==
  ASSUME NEW n \in Nat, NEW T \in SUBSET (1 .. n), T # {}
  PROVE  Max(T) \in T /\ \A i \in T : i <= Max(T)
<1>1. T \subseteq 0 .. n /\ T \subseteq Nat
  OBVIOUS
<1>2. PICK m \in T : \A i \in T : i <= m
  BY <1>1, GreatestNatural
<1>3. \A i \in T : m >= i
  BY <1>1, <1>2
<1>4. Max(T) \in T /\ \A i \in T : Max(T) >= i
  BY <1>3 DEF Max
<1>5. QED  BY <1>1, <1>4

LEMMA MinLine ==
  ASSUME NEW n \in Nat, NEW T \in SUBSET (1 .. n), T # {}
  PROVE  Min(T) \in T /\ \A i \in T : Min(T) <= i
<1>1. T \subseteq Nat
  OBVIOUS
<1>2. PICK m \in T : \A i \in T : m <= i
  BY <1>1, LeastNatural
<1>3. QED  BY <1>2 DEF Min

LEMMA MaxIs ==
  ASSUME NEW n \in Nat, NEW T \in SUBSET (1 .. n), NEW m \in T, \A i \in T : i <= m
  PROVE  Max(T) = m
<1>1. T # {} /\ T \subseteq Nat
  OBVIOUS
<1>2. PICK x \in T : x = Max(T) /\ m <= x
  BY <1>1, MaxLine
<1>3. x <= m /\ m <= x /\ m \in Nat /\ x \in Nat
  BY <1>1, <1>2
<1>4. QED  BY <1>2, <1>3

LEMMA MinIs ==
  ASSUME NEW n \in Nat, NEW T \in SUBSET (1 .. n), NEW m \in T, \A i \in T : m <= i
  PROVE  Min(T) = m
<1>1. T # {} /\ T \subseteq Nat
  OBVIOUS
<1>2. PICK x \in T : x = Min(T) /\ x <= m
  BY <1>1, MinLine
<1>3. x <= m /\ m <= x /\ m \in Nat /\ x \in Nat
  BY <1>1, <1>2
<1>4. QED  BY <1>2, <1>3

\* F[i] is what line i does to a state. A fold by the largest element is a function of the
\* set of lines it has read, for any number of lines.
Folds(g, n, base, F) ==
    /\ g[{}] = base
    /\ \A s \in SUBSET (1 .. n) : s # {} => g[s] = F[Max(s)][g[s \ {Max(s)}]]

LEMMA FoldExists ==
  ASSUME NEW State, NEW base \in State, NEW n \in Nat, NEW F \in [1 .. n -> [State -> State]]
  PROVE  \E g \in [SUBSET (1 .. n) -> State] : Folds(g, n, base, F)
<1> DEFINE Has(m) == \E g \in [SUBSET (1 .. m) -> State] : Folds(g, m, base, F)
<1>1. Has(0)
  <2>1. SUBSET (1 .. 0) = {{}}
    OBVIOUS
  <2> DEFINE g == [s \in SUBSET (1 .. 0) |-> base]
  <2>2. g \in [SUBSET (1 .. 0) -> State] /\ Folds(g, 0, base, F)
    BY <2>1 DEF Folds
  <2>3. QED  BY <2>2
<1>2. ASSUME NEW m \in 0 .. n, m < n, Has(m) PROVE Has(m + 1)
  <2>1. PICK g \in [SUBSET (1 .. m) -> State] : Folds(g, m, base, F)
    BY <1>2
  <2> DEFINE new == m + 1
             h == [s \in SUBSET (1 .. new) |->
                     IF new \in s THEN F[new][g[s \ {new}]] ELSE g[s]]
  <2>2. /\ new \in 1 .. n /\ F[new] \in [State -> State]
        /\ \A s \in SUBSET (1 .. new) : s \ {new} \in SUBSET (1 .. m)
        /\ \A s \in SUBSET (1 .. new) : new \notin s => s \in SUBSET (1 .. m)
    BY <1>2
  <2>3. h \in [SUBSET (1 .. new) -> State]
    BY <2>1, <2>2
  <2>4. h[{}] = base
    BY <2>1 DEF Folds
  <2>5. ASSUME NEW s \in SUBSET (1 .. new), s # {}
        PROVE  h[s] = F[Max(s)][h[s \ {Max(s)}]]
    <3>1. CASE new \in s
      <4>1. new \in Nat /\ \A i \in s : i <= new
        BY <1>2
      <4>2. Max(s) = new
        BY <3>1, <4>1, MaxIs
      <4>3. h[s] = F[new][g[s \ {new}]] /\ h[s \ {new}] = g[s \ {new}]
        BY <2>2, <3>1
      <4>4. QED  BY <4>2, <4>3
    <3>2. CASE new \notin s
      <4>1. s \in SUBSET (1 .. m)
        BY <2>2, <3>2
      <4>2. h[s] = g[s] /\ h[s \ {Max(s)}] = g[s \ {Max(s)}]
        BY <3>2
      <4>3. QED  BY <2>1, <2>5, <4>1, <4>2 DEF Folds
    <3>3. QED  BY <3>1, <3>2
  <2>6. Folds(h, new, base, F)
    BY <2>4, <2>5 DEF Folds
  <2>7. QED  BY <2>3, <2>6
<1> DEFINE P == {m \in 0 .. n : Has(m)}
<1> HIDE DEF Has
<1>3. 0 \in P /\ \A m \in 0 .. n : m < n /\ m \in P => m + 1 \in P
  BY <1>1, <1>2
<1> HIDE DEF P
<1>4. \A m \in 0 .. n : m \in P
  BY <1>3, LineByLine
<1>5. n \in P
  BY <1>4
<1>6. QED  BY <1>5 DEF P, Has

\* What FoldLeft returns is a function of that kind, if there is one.
LEMMA FoldLeftM3u ==
  ASSUME NEW lines,
         NEW g, g = [s \in SUBSET DOMAIN lines |->
                      IF s = {} THEN Reading ELSE ReadLine(g[s \ {Max(s)}], lines[Max(s)])]
  PROVE  \E h : /\ h = [s \in SUBSET DOMAIN lines |->
                      IF s = {} THEN Reading ELSE ReadLine(h[s \ {Max(s)}], lines[Max(s)])]
                /\ FoldLeft(ReadLine, Reading, lines) = h[DOMAIN lines]
BY DEF FoldLeft, MapThenFoldSet

LEMMA FoldLeftPls ==
  ASSUME NEW lines,
         NEW g, g = [s \in SUBSET DOMAIN lines |->
                      IF s = {} THEN Reading ELSE ReadEntry(g[s \ {Max(s)}], lines[Max(s)])]
  PROVE  \E h : /\ h = [s \in SUBSET DOMAIN lines |->
                      IF s = {} THEN Reading ELSE ReadEntry(h[s \ {Max(s)}], lines[Max(s)])]
                /\ FoldLeft(ReadEntry, Reading, lines) = h[DOMAIN lines]
BY DEF FoldLeft, MapThenFoldSet

ItemSet == [title : Titles \cup {None}, url : ItemUrls]

\* What a parser keeps while it reads.
ReadingState ==
    [outcome : {"items", "supported", "error", "raised"}, items : Seq(ItemSet),
     title : Titles \cup {None}]

LEMMA ReadTypes ==
  /\ Reading \in ReadingState
  /\ \A state \in ReadingState, line \in M3uLine : ReadLine(state, line) \in ReadingState
  /\ \A state \in ReadingState, entry \in PlsEntry : ReadEntry(state, entry) \in ReadingState
<1>1. Reading \in ReadingState
  BY DEF Reading, ReadingState
<1>2. ASSUME NEW state \in ReadingState, NEW line \in M3uLine
      PROVE  ReadLine(state, line) \in ReadingState
  <2>1. /\ line.title \in Titles \cup {None}
        /\ line.kind = "url" => line.url \in ItemUrls
    BY DEF M3uLine, Url, Bare
  <2>2. line.kind = "url" => Item(state.title, line.url) \in ItemSet
    BY <2>1 DEF ReadingState, Item, ItemSet
  <2>3. line.kind = "url" => Append(state.items, Item(state.title, line.url)) \in Seq(ItemSet)
    BY <2>2 DEF ReadingState
  <2>4. QED  BY <2>1, <2>3 DEF ReadLine, ReadingState
<1>3. ASSUME NEW state \in ReadingState, NEW entry \in PlsEntry
      PROVE  ReadEntry(state, entry) \in ReadingState
  <2>1. entry.kind = "url" => entry.title \in Titles \cup {None} /\ entry.url \in ItemUrls
    BY DEF PlsEntry, Url, Bare
  <2>2. entry.kind = "url" => Append(state.items, Item(entry.title, entry.url)) \in Seq(ItemSet)
    BY <2>1 DEF ReadingState, Item, ItemSet
  <2>3. QED  BY <2>2 DEF ReadEntry, ReadingState
<1>4. QED  BY <1>1, <1>2, <1>3

LEMMA PrefixMax ==
  ASSUME NEW n \in Nat, NEW k \in 1 .. n
  PROVE  1 .. k # {} /\ Max(1 .. k) = k /\ (1 .. k) \ {k} = 1 .. k - 1
<1>1. k \in 1 .. k /\ k \in Nat /\ 1 .. k \in SUBSET (1 .. k) /\ \A i \in 1 .. k : i <= k
  OBVIOUS
<1>2. Max(1 .. k) = k
  BY <1>1, MaxIs
<1>3. QED  BY <1>1, <1>2

\* The states of parse_m3u after each line, one from the other.
LEMMA M3uStates ==
  ASSUME NEW n \in Nat, NEW lines \in [1 .. n -> M3uLine]
  PROVE  \E st \in [0 .. n -> ReadingState] :
            /\ st[0] = Reading
            /\ \A k \in 1 .. n : st[k] = ReadLine(st[k - 1], lines[k])
            /\ FoldLeft(ReadLine, Reading, lines) = st[n]
<1> DEFINE F == [i \in 1 .. n |-> [x \in ReadingState |-> ReadLine(x, lines[i])]]
<1>1. F \in [1 .. n -> [ReadingState -> ReadingState]]
  BY ReadTypes
<1> HIDE DEF F
<1>2. PICK g \in [SUBSET (1 .. n) -> ReadingState] : Folds(g, n, Reading, F)
  BY <1>1, FoldExists, ReadTypes
<1>3. ASSUME NEW s \in SUBSET (1 .. n), s # {}
      PROVE  g[s] = ReadLine(g[s \ {Max(s)}], lines[Max(s)])
  <2>1. Max(s) \in 1 .. n
    BY <1>3, MaxLine
  <2>2. g[s \ {Max(s)}] \in ReadingState
    OBVIOUS
  <2>3. QED  BY <1>2, <1>3, <2>1, <2>2 DEF Folds, F
<1>4. g = [s \in SUBSET DOMAIN lines |->
             IF s = {} THEN Reading ELSE ReadLine(g[s \ {Max(s)}], lines[Max(s)])]
  BY <1>2, <1>3 DEF Folds
<1>5. PICK h : /\ h = [s \in SUBSET DOMAIN lines |->
                     IF s = {} THEN Reading ELSE ReadLine(h[s \ {Max(s)}], lines[Max(s)])]
               /\ FoldLeft(ReadLine, Reading, lines) = h[DOMAIN lines]
  BY <1>4, FoldLeftM3u
<1> DEFINE st == [k \in 0 .. n |-> h[1 .. k]]
<1>6. st[0] = Reading
  BY <1>5
<1>7. ASSUME NEW k \in 1 .. n PROVE st[k] = ReadLine(st[k - 1], lines[k])
  <2>1. 1 .. k \in SUBSET DOMAIN lines /\ k \in 0 .. n /\ k - 1 \in 0 .. n
    OBVIOUS
  <2>2. h[1 .. k] = ReadLine(h[1 .. k - 1], lines[k])
    BY <1>5, <2>1, PrefixMax
  <2>3. QED  BY <2>1, <2>2
<1>8. FoldLeft(ReadLine, Reading, lines) = st[n]
  <2>1. DOMAIN lines = 1 .. n /\ n \in 0 .. n
    OBVIOUS
  <2>2. st[n] = h[1 .. n]
    BY <2>1
  <2>3. QED  BY <1>5, <2>1, <2>2
<1> DEFINE P == {k \in 0 .. n : st[k] \in ReadingState}
<1>9. 0 \in P
  BY <1>6, ReadTypes
<1> HIDE DEF st
<1>10. ASSUME NEW m \in 0 .. n, m < n /\ m \in P PROVE m + 1 \in P
  <2>1. m + 1 \in 1 .. n /\ m + 1 - 1 = m /\ m + 1 \in 0 .. n
    BY <1>10
  <2>2. st[m + 1] = ReadLine(st[m], lines[m + 1])
    BY <1>7, <2>1
  <2>3. QED  BY <1>10, <2>1, <2>2, ReadTypes
<1>11. \A k \in 0 .. n : st[k] \in ReadingState
  <2> HIDE DEF P
  <2>1. \A k \in 0 .. n : k \in P
    BY <1>9, <1>10, LineByLine
  <2>2. QED  BY <2>1 DEF P
<1>12. st \in [0 .. n -> ReadingState]
  BY <1>11 DEF st
<1>13. QED  BY <1>6, <1>7, <1>8, <1>12

\* The states of parse_pls after each entry.
LEMMA PlsStates ==
  ASSUME NEW n \in Nat, NEW lines \in [1 .. n -> PlsEntry]
  PROVE  \E st \in [0 .. n -> ReadingState] :
            /\ st[0] = Reading
            /\ \A k \in 1 .. n : st[k] = ReadEntry(st[k - 1], lines[k])
            /\ FoldLeft(ReadEntry, Reading, lines) = st[n]
<1> DEFINE F == [i \in 1 .. n |-> [x \in ReadingState |-> ReadEntry(x, lines[i])]]
<1>1. F \in [1 .. n -> [ReadingState -> ReadingState]]
  BY ReadTypes
<1> HIDE DEF F
<1>2. PICK g \in [SUBSET (1 .. n) -> ReadingState] : Folds(g, n, Reading, F)
  BY <1>1, FoldExists, ReadTypes
<1>3. ASSUME NEW s \in SUBSET (1 .. n), s # {}
      PROVE  g[s] = ReadEntry(g[s \ {Max(s)}], lines[Max(s)])
  <2>1. Max(s) \in 1 .. n
    BY <1>3, MaxLine
  <2>2. g[s \ {Max(s)}] \in ReadingState
    OBVIOUS
  <2>3. QED  BY <1>2, <1>3, <2>1, <2>2 DEF Folds, F
<1>4. g = [s \in SUBSET DOMAIN lines |->
             IF s = {} THEN Reading ELSE ReadEntry(g[s \ {Max(s)}], lines[Max(s)])]
  BY <1>2, <1>3 DEF Folds
<1>5. PICK h : /\ h = [s \in SUBSET DOMAIN lines |->
                     IF s = {} THEN Reading ELSE ReadEntry(h[s \ {Max(s)}], lines[Max(s)])]
               /\ FoldLeft(ReadEntry, Reading, lines) = h[DOMAIN lines]
  BY <1>4, FoldLeftPls
<1> DEFINE st == [k \in 0 .. n |-> h[1 .. k]]
<1>6. st[0] = Reading
  BY <1>5
<1>7. ASSUME NEW k \in 1 .. n PROVE st[k] = ReadEntry(st[k - 1], lines[k])
  <2>1. 1 .. k \in SUBSET DOMAIN lines /\ k \in 0 .. n /\ k - 1 \in 0 .. n
    OBVIOUS
  <2>2. h[1 .. k] = ReadEntry(h[1 .. k - 1], lines[k])
    BY <1>5, <2>1, PrefixMax
  <2>3. QED  BY <2>1, <2>2
<1>8. FoldLeft(ReadEntry, Reading, lines) = st[n]
  <2>1. DOMAIN lines = 1 .. n /\ n \in 0 .. n
    OBVIOUS
  <2>2. st[n] = h[1 .. n]
    BY <2>1
  <2>3. QED  BY <1>5, <2>1, <2>2
<1> DEFINE P == {k \in 0 .. n : st[k] \in ReadingState}
<1>9. 0 \in P
  BY <1>6, ReadTypes
<1> HIDE DEF st
<1>10. ASSUME NEW m \in 0 .. n, m < n /\ m \in P PROVE m + 1 \in P
  <2>1. m + 1 \in 1 .. n /\ m + 1 - 1 = m /\ m + 1 \in 0 .. n
    BY <1>10
  <2>2. st[m + 1] = ReadEntry(st[m], lines[m + 1])
    BY <1>7, <2>1
  <2>3. QED  BY <1>10, <2>1, <2>2, ReadTypes
<1>11. \A k \in 0 .. n : st[k] \in ReadingState
  <2> HIDE DEF P
  <2>1. \A k \in 0 .. n : k \in P
    BY <1>9, <1>10, LineByLine
  <2>2. QED  BY <2>1 DEF P
<1>12. st \in [0 .. n -> ReadingState]
  BY <1>11 DEF st
<1>13. QED  BY <1>6, <1>7, <1>8, <1>12

-----------------------------------------------------------------------------
(* What a playlist means. *)

\* Nothing is listed exactly if there is nothing to list.
LEMMA NothingListed ==
  ASSUME NEW list \in Seq(ItemSet), NEW items, InOrder(list, items)
  PROVE  list = <<>> <=> DOMAIN items = {}
<1>1. PICK line \in [DOMAIN list -> DOMAIN items] :
         \A i \in DOMAIN items : \E n \in DOMAIN list : line[n] = i
  BY DEF InOrder
<1>2. ASSUME list = <<>> PROVE DOMAIN items = {}
  <2>1. DOMAIN list = {}
    BY <1>2
  <2>2. QED  BY <1>1, <2>1
<1>3. ASSUME DOMAIN items = {} PROVE list = <<>>
  <2>1. DOMAIN list = {}
    BY <1>1, <1>3
  <2>2. QED  BY <2>1
<1>4. QED  BY <1>2, <1>3

\* Before the first line nothing is listed.
LEMMA NothingInOrder ==
  ASSUME NEW items, DOMAIN items = {}
  PROVE  InOrder(<<>>, items)
<1> DEFINE line == [n \in {} |-> n]
<1>1. DOMAIN <<>> = {} /\ line \in [DOMAIN <<>> -> DOMAIN items]
  OBVIOUS
<1>2. QED  BY <1>1 DEF InOrder

\* One more line with an item.
OneMore(items, k, longer) ==
    /\ DOMAIN items \subseteq 1 .. k - 1
    /\ DOMAIN longer = DOMAIN items \cup {k}
    /\ \A i \in DOMAIN items : longer[i] = items[i]
    /\ longer[k] \in ItemSet

LEMMA OneMoreListed ==
  ASSUME NEW list \in Seq(ItemSet), NEW items, NEW longer, NEW k \in Nat,
         InOrder(list, items), OneMore(items, k, longer)
  PROVE  InOrder(Append(list, longer[k]), longer)
<1> DEFINE more == Append(list, longer[k])
           m == Len(list) + 1
<1>0. /\ DOMAIN items \subseteq 1 .. k - 1
      /\ DOMAIN longer = DOMAIN items \cup {k}
      /\ \A i \in DOMAIN items : longer[i] = items[i]
      /\ longer[k] \in ItemSet
  BY DEF OneMore
<1>1. PICK line \in [DOMAIN list -> DOMAIN items] :
         /\ \A i \in DOMAIN items : \E n \in DOMAIN list : line[n] = i
         /\ \A a, b \in DOMAIN list : a < b => line[a] < line[b]
         /\ \A n \in DOMAIN list : list[n] = items[line[n]]
  BY DEF InOrder
<1>2. /\ DOMAIN more = DOMAIN list \cup {m} /\ m \notin DOMAIN list
      /\ \A n \in DOMAIN list : more[n] = list[n] /\ n < m /\ n \in Nat
      /\ more[m] = longer[k] /\ m \in Nat
  OBVIOUS
<1> HIDE DEF more, m
<1> DEFINE at == [n \in DOMAIN more |-> IF n = m THEN k ELSE line[n]]
<1>3. at \in [DOMAIN more -> DOMAIN longer]
  BY <1>0, <1>1, <1>2
<1>4. at[m] = k /\ \A n \in DOMAIN list : at[n] = line[n] /\ at[n] \in DOMAIN items
  BY <1>0, <1>1, <1>2
<1> HIDE DEF at
<1>5. \A i \in DOMAIN longer : \E n \in DOMAIN more : at[n] = i
  BY <1>0, <1>1, <1>2, <1>4
<1>6. ASSUME NEW a \in DOMAIN more, NEW b \in DOMAIN more, a < b PROVE at[a] < at[b]
  <2>1. CASE b = m
    <3>1. a \in DOMAIN list
      BY <1>2, <1>6, <2>1
    <3>2. at[a] \in 1 .. k - 1
      BY <1>0, <1>4, <3>1
    <3>3. QED  BY <1>4, <2>1, <3>2
  <2>2. CASE b # m
    <3>1. a \in DOMAIN list /\ b \in DOMAIN list
      BY <1>2, <1>6, <2>2
    <3>2. QED  BY <1>1, <1>4, <1>6, <3>1
  <2>3. QED  BY <2>1, <2>2
<1>7. \A n \in DOMAIN more : more[n] = longer[at[n]]
  BY <1>0, <1>1, <1>2, <1>4
<1>8. InOrder(more, longer)
  BY <1>3, <1>5, <1>6, <1>7 DEF InOrder
<1>9. QED  BY <1>8 DEF more

\* The turns of parse_m3u's loop.
LEMMA ReadLineCases ==
  ASSUME NEW state \in ReadingState, NEW line \in M3uLine
  PROVE  /\ line.kind \in {"extinf", "url", "hls", "not_url", "raises", "ignored"}
         /\ state.outcome # "items" => ReadLine(state, line) = state
         /\ state.outcome = "items" /\ line.kind = "extinf"
              => ReadLine(state, line) = [state EXCEPT !.title = line.title]
         /\ state.outcome = "items" /\ line.kind \in {"hls", "not_url", "raises"}
              => ReadLine(state, line) = [state EXCEPT !.outcome = StoppedBy(line)]
         /\ state.outcome = "items" /\ line.kind = "url"
              => ReadLine(state, line) =
                   [state EXCEPT !.items = Append(@, Item(state.title, line.url)), !.title = None]
         /\ state.outcome = "items" /\ line.kind = "ignored" => ReadLine(state, line) = state
<1>1. line.kind \in {"extinf", "url", "hls", "not_url", "raises", "ignored"}
  BY DEF M3uLine, Url, Bare
<1>2. state.outcome # "items" => ReadLine(state, line) = state
  BY DEF ReadLine
<1>3. ASSUME state.outcome = "items", line.kind = "extinf"
      PROVE  ReadLine(state, line) = [state EXCEPT !.title = line.title]
  BY <1>3 DEF ReadLine
<1>4. ASSUME state.outcome = "items", line.kind = "hls"
      PROVE  ReadLine(state, line) = [state EXCEPT !.outcome = StoppedBy(line)]
  BY <1>4 DEF ReadLine, StoppedBy
<1>5. ASSUME state.outcome = "items", line.kind = "not_url"
      PROVE  ReadLine(state, line) = [state EXCEPT !.outcome = StoppedBy(line)]
  BY <1>5 DEF ReadLine, StoppedBy
<1>6. ASSUME state.outcome = "items", line.kind = "raises"
      PROVE  ReadLine(state, line) = [state EXCEPT !.outcome = StoppedBy(line)]
  BY <1>6 DEF ReadLine, StoppedBy
<1>7. ASSUME state.outcome = "items", line.kind = "url"
      PROVE  ReadLine(state, line) =
               [state EXCEPT !.items = Append(@, Item(state.title, line.url)), !.title = None]
  BY <1>7 DEF ReadLine
<1>8. ASSUME state.outcome = "items", line.kind = "ignored"
      PROVE  ReadLine(state, line) = state
  BY <1>8 DEF ReadLine
<1>9. QED  BY <1>1, <1>2, <1>3, <1>4, <1>5, <1>6, <1>7, <1>8

LEMMA ReadEntryCases ==
  ASSUME NEW state \in ReadingState, NEW entry \in PlsEntry
  PROVE  /\ entry.kind \in {"url", "not_url", "raises", "missing"}
         /\ state.outcome # "items" => ReadEntry(state, entry) = state
         /\ state.outcome = "items" /\ entry.kind \in {"not_url", "raises"}
              => ReadEntry(state, entry) = [state EXCEPT !.outcome = StoppedBy(entry)]
         /\ state.outcome = "items" /\ entry.kind = "url"
              => ReadEntry(state, entry) =
                   [state EXCEPT !.items = Append(@, Item(entry.title, entry.url))]
         /\ state.outcome = "items" /\ entry.kind = "missing" => ReadEntry(state, entry) = state
<1>1. entry.kind \in {"url", "not_url", "raises", "missing"}
  BY DEF PlsEntry, Url, Bare
<1>2. state.outcome # "items" => ReadEntry(state, entry) = state
  BY DEF ReadEntry
<1>3. ASSUME state.outcome = "items", entry.kind \in {"not_url", "raises"}
      PROVE  ReadEntry(state, entry) = [state EXCEPT !.outcome = StoppedBy(entry)]
  <2>1. CASE entry.kind = "not_url"
    BY <1>3, <2>1 DEF ReadEntry, StoppedBy
  <2>2. CASE entry.kind = "raises"
    BY <1>3, <2>2 DEF ReadEntry, StoppedBy
  <2>3. QED  BY <1>3, <2>1, <2>2
<1>4. ASSUME state.outcome = "items", entry.kind = "url"
      PROVE  ReadEntry(state, entry) =
               [state EXCEPT !.items = Append(@, Item(entry.title, entry.url))]
  BY <1>4 DEF ReadEntry
<1>5. ASSUME state.outcome = "items", entry.kind = "missing"
      PROVE  ReadEntry(state, entry) = state
  BY <1>5 DEF ReadEntry
<1>6. QED  BY <1>1, <1>2, <1>3, <1>4, <1>5

\* The titles that wait for a URL, line by line.
TitleOf(lines, T) == IF T = {} THEN None ELSE lines[Max(T)].title

LEMMA TitledByNext ==
  ASSUME NEW n \in Nat, NEW lines \in [1 .. n -> M3uLine], NEW k \in 1 .. n
  PROVE  TitledBy(lines, k + 1) =
           IF IsUrl(lines[k]) THEN {}
           ELSE IF lines[k].kind = "extinf" THEN TitledBy(lines, k) \cup {k}
           ELSE TitledBy(lines, k)
<1>1. ASSUME NEW j \in 1 .. k - 1
      PROVE  (\A i \in j .. k : ~IsUrl(lines[i]))
               <=> (\A i \in j .. k - 1 : ~IsUrl(lines[i])) /\ ~IsUrl(lines[k])
  <2>1. j .. k = (j .. k - 1) \cup {k}
    BY <1>1
  <2>2. QED  BY <2>1
<1>2. k .. k = {k} /\ 1 .. k = (1 .. k - 1) \cup {k} /\ k + 1 - 1 = k /\ k \notin 1 .. k - 1
  OBVIOUS
<1>3. TitledBy(lines, k + 1) =
        {j \in 1 .. k : lines[j].kind = "extinf" /\ \A i \in j .. k : ~IsUrl(lines[i])}
  BY <1>2 DEF TitledBy
<1>4. CASE IsUrl(lines[k])
  <2>1. \A j \in 1 .. k : k \in j .. k
    OBVIOUS
  <2>2. QED  BY <1>3, <1>4, <2>1
<1>5. CASE ~IsUrl(lines[k])
  BY <1>1, <1>2, <1>3, <1>5 DEF TitledBy
<1>6. QED  BY <1>4, <1>5

M3uTo(lines, k) == [i \in {i \in UrlLines(lines) : i <= k} |-> M3uItem(lines, i)]
PlsTo(entries, k) ==
    [i \in {i \in UrlLines(entries) : i <= k} |-> Item(entries[i].title, entries[i].url)]

\* The first line that stops the reading.
LEMMA FirstStop ==
  ASSUME NEW n \in Nat, NEW lines, DOMAIN lines = 1 .. n, NEW k \in 1 .. n,
         k \in Stops(lines), ~\E i \in Stops(lines) : i <= k - 1
  PROVE  Min(Stops(lines)) = k
<1>1. Stops(lines) \in SUBSET (1 .. n)
  BY DEF Stops
<1>2. \A i \in Stops(lines) : k <= i
  BY <1>1
<1>3. QED  BY <1>1, <1>2, MinIs

\* What parse_m3u knows after k lines: the first stop, or the items so far and the title
\* that waits.
M3uKnown(lines, k, state) ==
    IF \E i \in Stops(lines) : i <= k
    THEN state.outcome = StoppedBy(lines[Min(Stops(lines))])
    ELSE /\ state.outcome = "items"
         /\ InOrder(state.items, M3uTo(lines, k))
         /\ state.title = TitleOf(lines, TitledBy(lines, k + 1))

LEMMA M3uKnownNext ==
  ASSUME NEW n \in Nat, NEW lines \in [1 .. n -> M3uLine], NEW k \in 1 .. n,
         NEW state \in ReadingState, M3uKnown(lines, k - 1, state)
  PROVE  M3uKnown(lines, k, ReadLine(state, lines[k]))
<1> DEFINE line == lines[k]
           next == ReadLine(state, line)
<1>1. /\ line \in M3uLine /\ DOMAIN lines = 1 .. n
      /\ Stops(lines) \subseteq 1 .. n /\ UrlLines(lines) \subseteq 1 .. n
      /\ k - 1 \in Nat /\ k - 1 + 1 = k
  BY DEF Stops, UrlLines
<1>2. \A i \in 1 .. n : i <= k <=> i <= k - 1 \/ i = k
  OBVIOUS
<1>3. CASE \E i \in Stops(lines) : i <= k - 1
  <2>1. \E i \in Stops(lines) : i <= k
    BY <1>1, <1>2, <1>3
  <2>2. state.outcome = StoppedBy(lines[Min(Stops(lines))])
    BY <1>3 DEF M3uKnown
  <2>3. next = state
    BY <1>1, <2>2, ReadLineCases DEF StoppedBy
  <2>4. QED  BY <2>1, <2>2, <2>3 DEF M3uKnown
<1>4. CASE ~\E i \in Stops(lines) : i <= k - 1
  <2>1. /\ state.outcome = "items"
        /\ InOrder(state.items, M3uTo(lines, k - 1))
        /\ state.title = TitleOf(lines, TitledBy(lines, k))
    BY <1>1, <1>4 DEF M3uKnown
  <2>2. (\E i \in Stops(lines) : i <= k) <=> k \in Stops(lines)
    BY <1>1, <1>2, <1>4
  <2>3. k \in Stops(lines) <=> line.kind \in {"hls", "not_url", "raises"}
    BY <1>1 DEF Stops
  <2>4. k \in UrlLines(lines) <=> line.kind = "url"
    BY <1>1 DEF UrlLines, IsUrl
  <2>5. CASE line.kind \in {"hls", "not_url", "raises"}
    <3>1. Min(Stops(lines)) = k
      BY <1>1, <1>4, <2>3, <2>5, FirstStop
    <3>2. next.outcome = StoppedBy(line)
      BY <1>1, <2>1, <2>5, ReadLineCases DEF ReadingState
    <3>3. QED  BY <2>2, <2>3, <2>5, <3>1, <3>2 DEF M3uKnown
  <2>6. CASE line.kind \in {"extinf", "ignored"}
    <3>1. M3uTo(lines, k) = M3uTo(lines, k - 1)
      BY <1>1, <1>2, <2>4, <2>6 DEF M3uTo
    <3>2. next.outcome = "items" /\ next.items = state.items
      BY <1>1, <2>1, <2>6, ReadLineCases DEF ReadingState
    <3>3. next.title = TitleOf(lines, TitledBy(lines, k + 1))
      <4>1. CASE line.kind = "ignored"
        BY <1>1, <2>1, <4>1, ReadLineCases, TitledByNext DEF IsUrl
      <4>2. CASE line.kind = "extinf"
        <5> DEFINE T == TitledBy(lines, k + 1)
        <5>1. T = TitledBy(lines, k) \cup {k}
          BY <4>2, TitledByNext DEF IsUrl
        <5>2. T \in SUBSET (1 .. n) /\ k \in T /\ \A j \in T : j <= k
          BY <5>1 DEF TitledBy
        <5>3. Max(T) = k /\ T # {}
          BY <5>2, MaxIs
        <5>4. next.title = line.title
          BY <1>1, <2>1, <4>2, ReadLineCases DEF ReadingState
        <5>5. QED  BY <5>3, <5>4 DEF TitleOf
      <4>3. QED  BY <2>6, <4>1, <4>2
    <3>4. QED  BY <2>1, <2>2, <2>3, <2>6, <3>1, <3>2, <3>3 DEF M3uKnown
  <2>7. CASE line.kind = "url"
    <3> DEFINE shorter == M3uTo(lines, k - 1)
               longer == M3uTo(lines, k)
    <3>1. /\ DOMAIN longer = DOMAIN shorter \cup {k}
          /\ DOMAIN shorter \subseteq 1 .. k - 1
          /\ \A i \in DOMAIN shorter : longer[i] = shorter[i]
          /\ longer[k] = M3uItem(lines, k)
      BY <1>1, <1>2, <2>4, <2>7 DEF M3uTo
    <3>2. M3uItem(lines, k) = Item(state.title, line.url)
      BY <2>1 DEF M3uItem, TitleOf
    <3>3. line.url \in ItemUrls
      BY <1>1, <2>7 DEF M3uLine, Url, Bare
    <3>4. OneMore(shorter, k, longer)
      <4>1. longer[k] \in ItemSet
        BY <3>1, <3>2, <3>3 DEF Item, ItemSet, ReadingState
      <4> HIDE DEF shorter, longer
      <4>2. QED  BY <3>1, <4>1 DEF OneMore
    <3>5. /\ next.outcome = "items" /\ next.title = None
          /\ next.items = Append(state.items, longer[k])
      <4>1. next = [state EXCEPT !.items = Append(@, Item(state.title, line.url)), !.title = None]
        BY <1>1, <2>1, <2>7, ReadLineCases
      <4>2. /\ next.outcome = state.outcome /\ next.title = None
            /\ next.items = Append(state.items, Item(state.title, line.url))
        BY <4>1 DEF ReadingState
      <4>3. QED  BY <2>1, <3>1, <3>2, <4>2
    <3>6. TitledBy(lines, k + 1) = {}
      BY <2>7, TitledByNext DEF IsUrl
    <3> HIDE DEF shorter, longer
    <3>7. InOrder(next.items, longer)
      <4>1. state.items \in Seq(ItemSet) /\ k \in Nat
        BY DEF ReadingState
      <4>2. InOrder(state.items, shorter)
        BY <2>1 DEF shorter
      <4>3. InOrder(Append(state.items, longer[k]), longer)
        BY <3>4, <4>1, <4>2, OneMoreListed
      <4>4. QED  BY <3>5, <4>3
    <3>8. QED  BY <2>2, <2>3, <2>7, <3>5, <3>6, <3>7 DEF M3uKnown, TitleOf, longer
  <2>8. QED  BY <1>1, <2>5, <2>6, <2>7, ReadLineCases
<1>5. QED  BY <1>3, <1>4

\* And so after the last line of any file.
LEMMA M3uKnownAll ==
  ASSUME NEW n \in Nat, NEW lines \in [1 .. n -> M3uLine]
  PROVE  \E state \in ReadingState :
            /\ FoldLeft(ReadLine, Reading, lines) = state
            /\ M3uKnown(lines, n, state)
<1>1. PICK st \in [0 .. n -> ReadingState] :
         /\ st[0] = Reading
         /\ \A k \in 1 .. n : st[k] = ReadLine(st[k - 1], lines[k])
         /\ FoldLeft(ReadLine, Reading, lines) = st[n]
  BY M3uStates
<1> DEFINE P == {k \in 0 .. n : M3uKnown(lines, k, st[k])}
<1>2. M3uKnown(lines, 0, st[0])
  <2>1. Stops(lines) \subseteq 1 .. n /\ UrlLines(lines) \subseteq 1 .. n
    BY DEF Stops, UrlLines
  <2>2. ~\E i \in Stops(lines) : i <= 0
    BY <2>1
  <2>3. DOMAIN M3uTo(lines, 0) = {}
    BY <2>1 DEF M3uTo
  <2>4. InOrder(<<>>, M3uTo(lines, 0))
    BY <2>3, NothingInOrder
  <2>5. TitledBy(lines, 0 + 1) = {}
    BY DEF TitledBy
  <2>6. QED  BY <1>1, <2>2, <2>4, <2>5 DEF M3uKnown, Reading, TitleOf
<1>3. 0 \in P
  BY <1>2
<1>4. ASSUME NEW k \in 0 .. n, k < n /\ k \in P PROVE k + 1 \in P
  <2>1. k + 1 \in 1 .. n /\ k + 1 - 1 = k /\ k + 1 \in 0 .. n
    BY <1>4
  <2>2. st[k] \in ReadingState /\ M3uKnown(lines, k, st[k])
    BY <1>4
  <2>3. M3uKnown(lines, k + 1, ReadLine(st[k], lines[k + 1]))
    BY <2>1, <2>2, M3uKnownNext
  <2>4. st[k + 1] = ReadLine(st[k], lines[k + 1])
    BY <1>1, <2>1
  <2>5. QED  BY <2>1, <2>3, <2>4
<1> HIDE DEF P
<1>5. \A k \in 0 .. n : k \in P
  BY <1>3, <1>4, LineByLine
<1>6. M3uKnown(lines, n, st[n]) /\ st[n] \in ReadingState
  BY <1>5 DEF P
<1>7. QED  BY <1>1, <1>6

\* parse_playlist says what its parser knows after the last line.
LEMMA FinishedMeans ==
  ASSUME NEW n \in Nat, NEW lines, DOMAIN lines = 1 .. n, NEW items,
         DOMAIN items = UrlLines(lines), NEW state \in ReadingState,
         IF Stops(lines) # {} THEN state.outcome = StoppedBy(lines[Min(Stops(lines))])
         ELSE state.outcome = "items" /\ InOrder(state.items, items)
  PROVE  Means(Finished(state), lines, items) /\ Finished(state).items \in Seq(ItemSet)
<1>0. Finished(state).items \in Seq(ItemSet)
  BY DEF Finished, Raised, Playlist, ReadingState
<1> SUFFICES Means(Finished(state), lines, items)
  BY <1>0
<1>1. CASE Stops(lines) # {}
  <2>1. state.outcome # "items"
    BY <1>1 DEF StoppedBy
  <2>2. QED  BY <1>1, <2>1 DEF Finished, Means
<1>2. CASE Stops(lines) = {}
  <2>1. state.items = <<>> <=> UrlLines(lines) = {}
    BY <1>2, NothingListed DEF ReadingState
  <2>2. QED  BY <1>2, <2>1 DEF Finished, Means, Playlist
<1>3. QED  BY <1>1, <1>2

\* parse_m3u means what the file says, for any number of lines: each URL is an item of the
\* list, once and in order, under the title of the last #EXTINF between it and the URL
\* before it, or the first line that is neither ends the reading.
THEOREM M3uMeansItsLines ==
  ASSUME NEW n \in Nat, NEW lines \in [1 .. n -> M3uLine]
  PROVE  /\ Means(ParseM3u(lines), lines, M3uItems(lines))
         /\ ParseM3u(lines).items \in Seq(ItemSet)
<1>1. PICK state \in ReadingState :
         FoldLeft(ReadLine, Reading, lines) = state /\ M3uKnown(lines, n, state)
  BY M3uKnownAll
<1>2. /\ Stops(lines) \subseteq 1 .. n /\ UrlLines(lines) \subseteq 1 .. n
      /\ DOMAIN M3uItems(lines) = UrlLines(lines)
  BY DEF Stops, UrlLines, M3uItems
<1>3. M3uTo(lines, n) = M3uItems(lines)
  <2>1. {i \in UrlLines(lines) : i <= n} = UrlLines(lines)
    BY <1>2
  <2>2. QED  BY <2>1 DEF M3uTo, M3uItems
<1>4. (\E i \in Stops(lines) : i <= n) <=> Stops(lines) # {}
  BY <1>2
<1>5. IF Stops(lines) # {} THEN state.outcome = StoppedBy(lines[Min(Stops(lines))])
      ELSE state.outcome = "items" /\ InOrder(state.items, M3uItems(lines))
  BY <1>1, <1>3, <1>4 DEF M3uKnown
<1>6. DOMAIN lines = 1 .. n
  OBVIOUS
<1>7. QED  BY <1>1, <1>2, <1>5, <1>6, FinishedMeans DEF ParseM3u

\* What parse_pls knows after k entries.
PlsKnown(entries, k, state) ==
    IF \E i \in Stops(entries) : i <= k
    THEN state.outcome = StoppedBy(entries[Min(Stops(entries))])
    ELSE state.outcome = "items" /\ InOrder(state.items, PlsTo(entries, k))

LEMMA PlsKnownNext ==
  ASSUME NEW n \in Nat, NEW entries \in [1 .. n -> PlsEntry], NEW k \in 1 .. n,
         NEW state \in ReadingState, PlsKnown(entries, k - 1, state)
  PROVE  PlsKnown(entries, k, ReadEntry(state, entries[k]))
<1> DEFINE entry == entries[k]
           next == ReadEntry(state, entry)
<1>1. /\ entry \in PlsEntry /\ DOMAIN entries = 1 .. n
      /\ Stops(entries) \subseteq 1 .. n /\ UrlLines(entries) \subseteq 1 .. n
      /\ k - 1 \in Nat
  BY DEF Stops, UrlLines
<1>2. \A i \in 1 .. n : i <= k <=> i <= k - 1 \/ i = k
  OBVIOUS
<1>3. CASE \E i \in Stops(entries) : i <= k - 1
  <2>1. \E i \in Stops(entries) : i <= k
    BY <1>1, <1>2, <1>3
  <2>2. state.outcome = StoppedBy(entries[Min(Stops(entries))])
    BY <1>3 DEF PlsKnown
  <2>3. next = state
    BY <1>1, <2>2, ReadEntryCases DEF StoppedBy
  <2>4. QED  BY <2>1, <2>2, <2>3 DEF PlsKnown
<1>4. CASE ~\E i \in Stops(entries) : i <= k - 1
  <2>1. state.outcome = "items" /\ InOrder(state.items, PlsTo(entries, k - 1))
    BY <1>4 DEF PlsKnown
  <2>2. (\E i \in Stops(entries) : i <= k) <=> k \in Stops(entries)
    BY <1>1, <1>2, <1>4
  <2>3. entry.kind \in {"url", "not_url", "raises", "missing"}
    BY <1>1, ReadEntryCases
  <2>4. /\ k \in Stops(entries) <=> entry.kind \in {"not_url", "raises"}
        /\ k \in UrlLines(entries) <=> entry.kind = "url"
    BY <1>1, <2>3 DEF Stops, UrlLines, IsUrl
  <2>5. CASE entry.kind \in {"not_url", "raises"}
    <3>1. Min(Stops(entries)) = k
      BY <1>1, <1>4, <2>4, <2>5, FirstStop
    <3>2. next.outcome = StoppedBy(entry)
      BY <1>1, <2>1, <2>5, ReadEntryCases DEF ReadingState
    <3>3. QED  BY <2>2, <2>4, <2>5, <3>1, <3>2 DEF PlsKnown
  <2>6. CASE entry.kind = "missing"
    <3>1. PlsTo(entries, k) = PlsTo(entries, k - 1)
      BY <1>1, <1>2, <2>4, <2>6 DEF PlsTo
    <3>2. next = state
      BY <1>1, <2>1, <2>6, ReadEntryCases
    <3>3. QED  BY <2>1, <2>2, <2>4, <2>6, <3>1, <3>2 DEF PlsKnown
  <2>7. CASE entry.kind = "url"
    <3> DEFINE shorter == PlsTo(entries, k - 1)
               longer == PlsTo(entries, k)
    <3>1. /\ DOMAIN longer = DOMAIN shorter \cup {k}
          /\ DOMAIN shorter \subseteq 1 .. k - 1
          /\ \A i \in DOMAIN shorter : longer[i] = shorter[i]
          /\ longer[k] = Item(entry.title, entry.url)
      BY <1>1, <1>2, <2>4, <2>7 DEF PlsTo
    <3>2. entry.url \in ItemUrls /\ entry.title \in Titles \cup {None}
      BY <1>1, <2>7 DEF PlsEntry, Url, Bare
    <3>3. OneMore(shorter, k, longer)
      <4>1. longer[k] \in ItemSet
        BY <3>1, <3>2 DEF Item, ItemSet
      <4> HIDE DEF shorter, longer
      <4>2. QED  BY <3>1, <4>1 DEF OneMore
    <3>4. next.outcome = "items" /\ next.items = Append(state.items, longer[k])
      <4>1. next = [state EXCEPT !.items = Append(@, Item(entry.title, entry.url))]
        BY <1>1, <2>1, <2>7, ReadEntryCases
      <4>2. /\ next.outcome = state.outcome
            /\ next.items = Append(state.items, Item(entry.title, entry.url))
        BY <4>1 DEF ReadingState
      <4>3. QED  BY <2>1, <3>1, <4>2
    <3> HIDE DEF shorter, longer
    <3>5. InOrder(next.items, longer)
      <4>1. state.items \in Seq(ItemSet) /\ k \in Nat
        BY DEF ReadingState
      <4>2. InOrder(state.items, shorter)
        BY <2>1 DEF shorter
      <4>3. InOrder(Append(state.items, longer[k]), longer)
        BY <3>3, <4>1, <4>2, OneMoreListed
      <4>4. QED  BY <3>4, <4>3
    <3>6. QED  BY <2>2, <2>4, <2>7, <3>4, <3>5 DEF PlsKnown, longer
  <2>8. QED  BY <2>3, <2>5, <2>6, <2>7
<1>5. QED  BY <1>3, <1>4

LEMMA PlsKnownAll ==
  ASSUME NEW n \in Nat, NEW entries \in [1 .. n -> PlsEntry]
  PROVE  \E state \in ReadingState :
            /\ FoldLeft(ReadEntry, Reading, entries) = state
            /\ PlsKnown(entries, n, state)
<1>1. PICK st \in [0 .. n -> ReadingState] :
         /\ st[0] = Reading
         /\ \A k \in 1 .. n : st[k] = ReadEntry(st[k - 1], entries[k])
         /\ FoldLeft(ReadEntry, Reading, entries) = st[n]
  BY PlsStates
<1> DEFINE P == {k \in 0 .. n : PlsKnown(entries, k, st[k])}
<1>2. PlsKnown(entries, 0, st[0])
  <2>1. Stops(entries) \subseteq 1 .. n /\ UrlLines(entries) \subseteq 1 .. n
    BY DEF Stops, UrlLines
  <2>2. ~\E i \in Stops(entries) : i <= 0
    BY <2>1
  <2>3. DOMAIN PlsTo(entries, 0) = {}
    BY <2>1 DEF PlsTo
  <2>4. InOrder(<<>>, PlsTo(entries, 0))
    BY <2>3, NothingInOrder
  <2>5. QED  BY <1>1, <2>2, <2>4 DEF PlsKnown, Reading
<1>3. 0 \in P
  BY <1>2
<1>4. ASSUME NEW k \in 0 .. n, k < n /\ k \in P PROVE k + 1 \in P
  <2>1. k + 1 \in 1 .. n /\ k + 1 - 1 = k /\ k + 1 \in 0 .. n
    BY <1>4
  <2>2. st[k] \in ReadingState /\ PlsKnown(entries, k, st[k])
    BY <1>4
  <2>3. PlsKnown(entries, k + 1, ReadEntry(st[k], entries[k + 1]))
    BY <2>1, <2>2, PlsKnownNext
  <2>4. st[k + 1] = ReadEntry(st[k], entries[k + 1])
    BY <1>1, <2>1
  <2>5. QED  BY <2>1, <2>3, <2>4
<1> HIDE DEF P
<1>5. \A k \in 0 .. n : k \in P
  BY <1>3, <1>4, LineByLine
<1>6. PlsKnown(entries, n, st[n]) /\ st[n] \in ReadingState
  BY <1>5 DEF P
<1>7. QED  BY <1>1, <1>6

\* parse_pls means what the file says, for any number of entries: each File that is a URL
\* is an item of the list, once and in order, and the first entry that is not, or that
\* ConfigParser does not give out, ends the reading, each in its own way.
THEOREM PlsMeansItsEntries ==
  ASSUME NEW n \in Nat, NEW entries \in [1 .. n -> PlsEntry]
  PROVE  /\ Means(ParsePls(entries), entries, PlsItems(entries))
         /\ ParsePls(entries).items \in Seq(ItemSet)
<1>1. PICK state \in ReadingState :
         FoldLeft(ReadEntry, Reading, entries) = state /\ PlsKnown(entries, n, state)
  BY PlsKnownAll
<1>2. /\ Stops(entries) \subseteq 1 .. n /\ UrlLines(entries) \subseteq 1 .. n
      /\ DOMAIN PlsItems(entries) = UrlLines(entries)
  BY DEF Stops, UrlLines, PlsItems
<1>3. PlsTo(entries, n) = PlsItems(entries)
  <2>1. {i \in UrlLines(entries) : i <= n} = UrlLines(entries)
    BY <1>2
  <2>2. QED  BY <2>1 DEF PlsTo, PlsItems
<1>4. (\E i \in Stops(entries) : i <= n) <=> Stops(entries) # {}
  BY <1>2
<1>5. IF Stops(entries) # {} THEN state.outcome = StoppedBy(entries[Min(Stops(entries))])
      ELSE state.outcome = "items" /\ InOrder(state.items, PlsItems(entries))
  BY <1>1, <1>3, <1>4 DEF PlsKnown
<1>6. DOMAIN entries = 1 .. n
  OBVIOUS
<1>7. QED  BY <1>1, <1>2, <1>5, <1>6, FinishedMeans DEF ParsePls

-----------------------------------------------------------------------------
(* What is played of a playlist. *)

\* The first item of a list stands in the first line that has one.
LEMMA FirstListed ==
  ASSUME NEW n \in Nat, NEW items, DOMAIN items \in SUBSET (1 .. n), DOMAIN items # {},
         NEW list \in Seq(ItemSet), InOrder(list, items)
  PROVE  list # <<>> /\ Head(list) = items[Min(DOMAIN items)]
<1>1. list # <<>>
  BY NothingListed
<1>2. 1 \in DOMAIN list /\ Head(list) = list[1] /\ \A m \in DOMAIN list : m = 1 \/ 1 < m
  BY <1>1
<1>3. PICK line \in [DOMAIN list -> DOMAIN items] :
         /\ \A i \in DOMAIN items : \E m \in DOMAIN list : line[m] = i
         /\ \A a, b \in DOMAIN list : a < b => line[a] < line[b]
         /\ \A m \in DOMAIN list : list[m] = items[line[m]]
  BY DEF InOrder
<1> DEFINE first == line[1]
<1>4. first \in DOMAIN items /\ \A i \in DOMAIN items : first = i \/ first < i
  BY <1>2, <1>3
<1> HIDE DEF first
<1>5. first \in Nat /\ \A i \in DOMAIN items : first <= i
  BY <1>4
<1>6. Min(DOMAIN items) = first
  BY <1>4, <1>5, MinIs
<1>7. QED  BY <1>1, <1>2, <1>3, <1>6 DEF first

\* The call follows the parser, whichever it is.
LEMMA FirstIsPlayed ==
  ASSUME NEW n \in Nat, NEW lines, DOMAIN lines = 1 .. n,
         NEW items, DOMAIN items = UrlLines(lines),
         NEW parsed, Means(parsed, lines, items), parsed.items \in Seq(ItemSet),
         DOMAIN play = Fields, play.url.path = play.asked.path, play.title = play.caller,
         play' = PlayItem(parsed, lines)
  PROVE  IF Escapes(lines) THEN play' = None ELSE
         /\ play'.asked = play.asked /\ play'.lines = lines /\ play'.stage = "handed"
         /\ IF Barren(lines)
            THEN play'.url.path = play'.asked.path /\ play'.title = play'.caller
            ELSE LET first == items[Min(DOMAIN items)]
                 IN  /\ play'.url = first.url
                     /\ play'.title = IF first.title = None THEN play'.caller ELSE first.title
<1>1. CASE Barren(lines)
  <2>1. parsed.outcome = IF Escapes(lines) THEN "raised" ELSE parsed.outcome
    BY DEF Escapes, Means, StoppedBy, Raised
  <2>2. ~Escapes(lines) => parsed.outcome \notin {"items", "raised"}
    BY <1>1 DEF Barren, Escapes, Means, StoppedBy, Raised
  <2>3. CASE Escapes(lines)
    BY <2>1, <2>3 DEF PlayItem
  <2>4. CASE ~Escapes(lines)
    <3>1. play' = [play EXCEPT !.stage = "handed", !.lines = lines]
      BY <2>2, <2>4 DEF PlayItem
    <3>2. QED  BY <1>1, <2>4, <3>1 DEF Fields
  <2>5. QED  BY <2>3, <2>4
<1>2. CASE ~Barren(lines)
  <2> DEFINE first == items[Min(DOMAIN items)]
  <2>1. parsed.outcome = "items" /\ InOrder(parsed.items, items) /\ DOMAIN items # {}
    BY <1>2 DEF Barren, Means
  <2>2. DOMAIN items \in SUBSET (1 .. n)
    BY DEF UrlLines
  <2>3. Head(parsed.items) = first
    BY <2>1, <2>2, FirstListed
  <2> HIDE DEF first
  <2>4. play' = [play EXCEPT !.stage = "handed", !.lines = lines, !.url = first.url,
                             !.title = IF first.title = None THEN @ ELSE first.title]
    BY <2>1, <2>3 DEF PlayItem
  <2>5. /\ play'.asked = play.asked /\ play'.lines = lines /\ play'.stage = "handed"
        /\ play'.url = first.url /\ play'.caller = play.caller
        /\ play'.title = IF first.title = None THEN play.title ELSE first.title
    BY <2>4 DEF Fields
  <2>6. ~Escapes(lines)
    BY <1>2 DEF Barren, Escapes
  <2>7. QED  BY <1>2, <2>5, <2>6 DEF first
<1>3. QED  BY <1>1, <1>2

\* Until the playlist is there the call has the title of its caller, and the path it was
\* asked for.
CallUnplayed ==
    play # None =>
       /\ play.stage \in {"platforms", "fetching", "handed"}
       /\ play.stage # "handed" => play.lines = None /\ play.title = play.caller
       /\ play.stage = "fetching" => play.url.path = play.asked.path

PlayingInv == CallKept /\ CallUnplayed /\ PlaysFirstItem

LEMMA PlayingInit == ResolutionInit => PlayingInv
BY DEF ResolutionInit, PlayingInv, CallKept, CallUnplayed, PlaysFirstItem, At

LEMMA PlayingStep == PlayingInv /\ [ResolutionNext]_resolutionVars => PlayingInv'
<1> SUFFICES ASSUME PlayingInv, [ResolutionNext]_resolutionVars
             PROVE  CallUnplayed' /\ PlaysFirstItem'
  BY CallStep DEF PlayingInv
<1>1. CASE UNCHANGED play
  BY <1>1 DEF PlayingInv, CallUnplayed, PlaysFirstItem, At
<1>2. ASSUME NEW d \in Devices, NEW asked \in MediaUrl, NEW caller \in Titles \cup {None},
             PlayMedia(d, asked, caller)
      PROVE  CallUnplayed' /\ PlaysFirstItem'
  BY <1>2 DEF PlayMedia, CallUnplayed, PlaysFirstItem, At
<1>3. CASE Elsewhere \/ Taken
  BY <1>3 DEF Elsewhere, Taken, CallUnplayed, PlaysFirstItem, At
<1>4. CASE Resolve
  <2>1. /\ DOMAIN play = Fields /\ play.asked \in MediaUrl
        /\ play.stage = "platforms" /\ play.lines = None /\ play.title = play.caller
    BY <1>4 DEF Resolve, At, PlayingInv, CallKept, CallUnplayed
  <2> DEFINE url == ApplyUrlOverride(play.device, play.asked)
  <2>2. /\ play'.url = url /\ play'.asked = play.asked /\ play'.lines = None
        /\ play'.title = play'.caller /\ play'.stage \in {"fetching", "handed"}
    BY <1>4, <2>1 DEF Resolve, Fields
  <2>3. url.path = play.asked.path
    BY <2>1 DEF ApplyUrlOverride, RewriteHassUrl, MediaUrl
  <2>4. QED  BY <2>2, <2>3 DEF CallUnplayed, PlaysFirstItem, At
<1>5. CASE NotFetched
  <2>1. /\ DOMAIN play = Fields /\ play.stage = "fetching" /\ play.lines = None
    BY <1>5 DEF NotFetched, At, PlayingInv, CallKept, CallUnplayed
  <2>2. play' = None \/ play' = [play EXCEPT !.stage = "handed", !.lines = None]
    BY <1>5 DEF NotFetched, PlayItem, Raised
  <2>3. play' = None \/ (play'.stage = "handed" /\ play'.lines = None)
    BY <2>1, <2>2 DEF Fields
  <2>4. QED  BY <2>3 DEF CallUnplayed, PlaysFirstItem, At
<1>6. ASSUME NEW lines, Fetched(lines)
      PROVE  CallUnplayed' /\ PlaysFirstItem'
  <2>1. /\ DOMAIN play = Fields /\ play.url.path = play.asked.path /\ play.title = play.caller
    BY <1>6 DEF Fetched, At, PlayingInv, CallKept, CallUnplayed
  <2> DEFINE m3u == IsM3u(play.asked)
             parsed == IF m3u THEN ParseM3u(lines) ELSE ParsePls(lines)
             items == IF m3u THEN M3uItems(lines) ELSE PlsItems(lines)
             read == IF m3u THEN M3uLine ELSE PlsEntry
  <2>2. IsM3u(play.url) <=> m3u
    BY <2>1 DEF IsM3u
  <2>3. lines \in Lists(read) /\ play' = PlayItem(parsed, lines)
    BY <1>6, <2>2 DEF Fetched
  <2>4. PICK n \in Nat : lines \in [1 .. n -> read]
    BY <2>3, HostsAssumption DEF Lists
  <2>5. Means(parsed, lines, items) /\ parsed.items \in Seq(ItemSet)
    BY <2>4, M3uMeansItsLines, PlsMeansItsEntries
  <2>6. DOMAIN lines = 1 .. n /\ DOMAIN items = UrlLines(lines)
    BY <2>4 DEF M3uItems, PlsItems
  <2> HIDE DEF parsed, items
  <2>7. CASE Escapes(lines)
    <3>1. play' = None
      BY <2>1, <2>3, <2>5, <2>6, <2>7, FirstIsPlayed
    <3>2. QED  BY <3>1 DEF CallUnplayed, PlaysFirstItem, At
  <2>8. CASE ~Escapes(lines)
    <3>1. /\ play'.asked = play.asked /\ play'.lines = lines /\ play'.stage = "handed"
          /\ IF Barren(lines)
             THEN play'.url.path = play'.asked.path /\ play'.title = play'.caller
             ELSE LET first == items[Min(DOMAIN items)]
                  IN  /\ play'.url = first.url
                      /\ play'.title = IF first.title = None THEN play'.caller ELSE first.title
      BY <2>1, <2>3, <2>5, <2>6, <2>8, FirstIsPlayed
    <3>2. QED  BY <2>5, <2>8, <3>1 DEF CallUnplayed, PlaysFirstItem, parsed, items
  <2>9. QED  BY <2>7, <2>8
<1> QED
  BY <1>1, <1>2, <1>3, <1>4, <1>5, <1>6
     DEF ResolutionNext, Proceed, PlaylistRead, resolutionVars

\* The first item of any playlist, however long, is what is played, under its own title or
\* else the caller's; one that holds no list goes out as it is, and nothing goes out of
\* one whose reading ends in an exception that the fallback does not catch.
THEOREM PlaysTheFirstItem == ResolutionSpec => []PlaysFirstItem
<1>1. PlayingInv => PlaysFirstItem
  BY DEF PlayingInv
<1> QED BY <1>1, PlayingInit, PlayingStep, PTL DEF ResolutionSpec
=============================================================================
