-------------------------- MODULE InboxBridgeProofs --------------------------
(***************************************************************************)
(* The bridge's pass implements what its senders were promised: the        *)
(* refinement of InboxReplicas by InboxBridge, for every set of peers and  *)
(* entries and every bound.                                                *)
(*                                                                         *)
(* A pass works on an old copy and may die anywhere, so what it does holds *)
(* good only because of what it keeps (IInv): nobody is told of a floor    *)
(* the store does not have, so the floor a copy shows is never news; what  *)
(* was read stays remembered until the floor in force has passed it; and   *)
(* the heights a pass sends batches of are above that floor, so each batch *)
(* names all that was ever read there.                                     *)
(*                                                                         *)
(* What the network does to a state is proved here as it is for the        *)
(* promise (InboxReplicasProofs): the two have the network in common, and  *)
(* no constant or variable more.                                           *)
(***************************************************************************)
EXTENDS InboxBridge, TLAPS

-----------------------------------------------------------------------------
(* What applying a delta does *)

LEMMA NormalizeType ==
  ASSUME NEW s \in State
  PROVE  Normalize(s) \in State
<1>. DEFINE R == DropCovered(Standing(s.removals, s.floor))
            W == {e \in s.entries : AtOrAbove(e.height, s.floor) /\ ~IsRemoved(R, e)}
<1>1. R \subseteq s.removals
  BY DEF DropCovered, Standing
<1>2. Kept(W) \subseteq W
  BY DEF Kept, KeptInAll, KeptPerGhostKey
<1>3. W \subseteq s.entries
  OBVIOUS
<1>4. CASE s.floor = NoFloor
  BY <1>4 DEF Normalize, EmptyState, State, Floor
<1>5. CASE s.floor # NoFloor
  <2>1. Normalize(s) = [floor |-> s.floor, entries |-> Kept(W), removals |-> R]
    BY <1>5 DEF Normalize
  <2>. HIDE DEF R, W
  <2>2. Kept(W) \in SUBSET Entry /\ R \in SUBSET BatchShape /\ s.floor \in Floor
    BY <1>1, <1>2, <1>3 DEF State
  <2>. QED
    BY <2>1, <2>2 DEF State
<1>. QED
  BY <1>4, <1>5

\* The pieces of AfterDelta, named.
ToRemovals(s, d) ==
  LET floor == AdoptedFloor(s.floor, d.floor)
      held  == Standing(s.removals, floor)
  IN  DropCovered(held \cup {b \in d.removals : ~BatchPassedOver(b, held, floor)})

ToEntries(s, d) ==
  s.entries \cup
    {e \in d.entries :
       ~EntryPassedOver(e, s.entries, ToRemovals(s, d), AdoptedFloor(s.floor, d.floor))}

LEMMA DeltaOutcome ==
  ASSUME NEW s, NEW d
  PROVE  \/ ApplyDelta(s, d) = s
         \/ ApplyDelta(s, d) =
              Normalize([floor    |-> AdoptedFloor(s.floor, d.floor),
                         entries  |-> ToEntries(s, d),
                         removals |-> ToRemovals(s, d)])
  BY DEF ApplyDelta, AfterDelta, ToEntries, ToRemovals

LEMMA FloorType ==
  ASSUME NEW f \in Floor, NEW g \in Floor
  PROVE  AdoptedFloor(f, g) \in Floor
  BY DEF AdoptedFloor

LEMMA ApplyDeltaType ==
  ASSUME NEW s \in State, NEW d \in State
  PROVE  ApplyDelta(s, d) \in State
<1>. DEFINE t == [floor    |-> AdoptedFloor(s.floor, d.floor),
                  entries  |-> ToEntries(s, d),
                  removals |-> ToRemovals(s, d)]
<1>1. AdoptedFloor(s.floor, d.floor) \in Floor
  BY FloorType DEF State
<1>2. ToRemovals(s, d) \subseteq s.removals \cup d.removals
  BY DEF ToRemovals, DropCovered, Standing
<1>3. ToEntries(s, d) \subseteq s.entries \cup d.entries
  BY DEF ToEntries
<1>4. t \in State
  BY <1>1, <1>2, <1>3 DEF State
<1>. QED
  BY <1>4, NormalizeType, DeltaOutcome

-----------------------------------------------------------------------------
(* A settled state stays settled *)

\* In a state nobody has opened there is nothing, and nothing gone waits.
Settled(s) ==
  /\ s.floor = NoFloor => s.entries = {} /\ s.removals = {}
  /\ \A e \in s.entries : ~Gone(s, e)

LEMMA NormalizeSettles ==
  ASSUME NEW s \in State
  PROVE  Settled(Normalize(s))
<1>. DEFINE R == DropCovered(Standing(s.removals, s.floor))
            W == {e \in s.entries : AtOrAbove(e.height, s.floor) /\ ~IsRemoved(R, e)}
<1>1. CASE s.floor = NoFloor
  BY <1>1 DEF Normalize, EmptyState, Settled
<1>2. CASE s.floor # NoFloor
  <2>1. Normalize(s) = [floor |-> s.floor, entries |-> Kept(W), removals |-> R]
    BY <1>2 DEF Normalize
  <2>2. Kept(W) \subseteq W
    BY DEF Kept, KeptInAll, KeptPerGhostKey
  <2>3. \A e \in W : ~IsRemoved(R, e) /\ ~(e.height < s.floor)
    BY <1>2, EntryAssumption DEF AtOrAbove, State, Floor, EntryShape
  <2>. HIDE DEF R, W
  <2>. QED
    BY <1>2, <2>1, <2>2, <2>3 DEF Settled, Gone
<1>. QED
  BY <1>1, <1>2

LEMMA DeltaSettles ==
  ASSUME NEW s \in State, NEW d \in State, Settled(s)
  PROVE  Settled(ApplyDelta(s, d))
<1>. DEFINE t == [floor    |-> AdoptedFloor(s.floor, d.floor),
                  entries  |-> ToEntries(s, d),
                  removals |-> ToRemovals(s, d)]
<1>1. AdoptedFloor(s.floor, d.floor) \in Floor
  BY FloorType DEF State
<1>2. ToRemovals(s, d) \subseteq s.removals \cup d.removals
  BY DEF ToRemovals, DropCovered, Standing
<1>3. ToEntries(s, d) \subseteq s.entries \cup d.entries
  BY DEF ToEntries
<1>4. t \in State
  BY <1>1, <1>2, <1>3 DEF State
<1>. QED
  BY <1>4, NormalizeSettles, DeltaOutcome

-----------------------------------------------------------------------------
(* A step of the network *)

LEMMA DeltaType ==
  ASSUME NEW s \in State, NEW old \in State
  PROVE  Delta(s, old) \in State
<1>. DEFINE E == {e \in s.entries : DigestOf(s.entries, e) # DigestOf(old.entries, e)}
            B == {b \in s.removals : DigestOf(s.removals, b) # DigestOf(old.removals, b)}
            told == FloorToTell(s.floor, old.floor) \/ E # {} \/ B # {}
            f == IF told THEN s.floor ELSE NoFloor
<1>1. Delta(s, old) = [floor |-> f, entries |-> E, removals |-> B]
  BY DEF Delta
<1>2. E \in SUBSET Entry /\ B \in SUBSET BatchShape /\ s.floor \in Floor
  BY DEF State
<1>. HIDE DEF E, B, told
<1>3. f \in Floor
  BY <1>2 DEF Floor
<1>. QED
  BY <1>1, <1>2, <1>3 DEF State

LEMMA SubmissionType ==
  ASSUME NEW s \in State, NEW e \in Entry
  PROVE  Submission(s.floor, e) \in State
  BY DEF Submission, State

LEMMA AnswerType ==
  ASSUME NetworkTypeOK, NEW p \in Peer, NEW q \in Peer
  PROVE  Answer(p, q) \in State
  BY DeltaType DEF NetworkTypeOK, Answer, Summarize

LEMMA ReceiveType ==
  ASSUME NetworkTypeOK, NEW p \in Peer, NEW d \in State, Receive(p, d)
  PROVE  NetworkTypeOK'
  BY ApplyDeltaType DEF NetworkTypeOK, Receive

LEMMA PostType ==
  ASSUME NetworkTypeOK, NEW p \in Peer, NEW d \in State, Post(p, d)
  PROVE  NetworkTypeOK'
  BY DEF NetworkTypeOK, Post, Message

\* A step of the network is the arrival of one delta, the posting of one that
\* some peer's state answers with, or the loss of one.
LEMMA NetworkSteps ==
  ASSUME NetworkTypeOK, NetworkNext
  PROVE  \/ \E p, q \in Peer, e \in Entry :
              /\ Submission(inbox[q].floor, e) \in State
              /\ Receive(p, Submission(inbox[q].floor, e))
         \/ \E p, q \in Peer : Answer(p, q) \in State /\ Receive(p, Answer(p, q))
         \/ \E p, q \in Peer : Answer(p, q) \in State /\ Post(p, Answer(p, q))
         \/ \E m \in net : m.to \in Peer /\ m.delta \in State /\ Receive(m.to, m.delta)
         \/ net' \subseteq net /\ UNCHANGED inbox
<1>1. \A m \in net : m.to \in Peer /\ m.delta \in State
  BY DEF NetworkTypeOK, Message
<1>2. \A q \in Peer, e \in Entry : Submission(inbox[q].floor, e) \in State
  BY SubmissionType DEF NetworkTypeOK
<1>. QED
  BY <1>1, <1>2, AnswerType DEF NetworkNext, Submit, Sync, Send, Arrive, Lose

LEMMA NetworkStepType ==
  ASSUME NetworkTypeOK, NetworkNext
  PROVE  NetworkTypeOK'
<1>1. CASE net' \subseteq net /\ UNCHANGED inbox
  BY <1>1 DEF NetworkTypeOK
<1>. QED
  BY <1>1, NetworkSteps, ReceiveType, PostType

\* What a step did to one peer's state: nothing, or it applied one delta.
Applied(p) == \E d \in State : inbox'[p] \in {inbox[p], ApplyDelta(inbox[p], d)}

LEMMA ReceiveApplies ==
  ASSUME NetworkTypeOK, NEW q \in Peer, NEW d \in State, Receive(q, d), NEW p \in Peer
  PROVE  Applied(p)
  BY DEF Receive, NetworkTypeOK, Applied

LEMMA StaysApplies ==
  ASSUME NetworkTypeOK, UNCHANGED inbox, NEW p \in Peer
  PROVE  Applied(p)
  BY DEF Applied, NetworkTypeOK

LEMMA NetworkApplies ==
  ASSUME NetworkTypeOK, NetworkNext, NEW p \in Peer
  PROVE  Applied(p)
  BY NetworkSteps, ReceiveApplies, StaysApplies DEF Post

AllSettled == \A p \in Peer : Settled(inbox[p])

LEMMA InitSettled ==
  ASSUME NetworkInit
  PROVE  AllSettled
  BY DEF NetworkInit, AllSettled, Settled, EmptyState, Gone, IsRemoved

LEMMA AppliedSettles ==
  ASSUME NetworkTypeOK, AllSettled, \A p \in Peer : Applied(p)
  PROVE  AllSettled'
<1>. SUFFICES ASSUME NEW p \in Peer
              PROVE  Settled(inbox'[p])
  BY DEF AllSettled
<1>1. inbox[p] \in State /\ Settled(inbox[p])
  BY DEF NetworkTypeOK, AllSettled
<1>2. PICK d \in State : inbox'[p] \in {inbox[p], ApplyDelta(inbox[p], d)}
  BY DEF Applied
<1>. QED
  BY <1>1, <1>2, DeltaSettles

-----------------------------------------------------------------------------
(* The promise's network is this network *)

LEMMA SameCardinality == \A S : Abstract!Cardinality(S) = Cardinality(S)
  BY DEF Abstract!Cardinality, Cardinality

LEMMA SameWindow ==
  /\ \A h, f : Abstract!AtOrAbove(h, f) = AtOrAbove(h, f)
  /\ \A h, f : Abstract!InWindow(h, f) = InWindow(h, f)
  BY DEF Abstract!AtOrAbove, AtOrAbove, Abstract!InWindow, InWindow

LEMMA SameBatches ==
  /\ \A B, e : Abstract!IsRemoved(B, e) = IsRemoved(B, e)
  /\ \A B, f : Abstract!Standing(B, f) = Standing(B, f)
  /\ \A b, c : Abstract!SameBatchKey(b, c) = SameBatchKey(b, c)
  /\ \A b, c : Abstract!CoveredBy(b, c) = CoveredBy(b, c)
  /\ \A B : Abstract!DropCovered(B) = DropCovered(B)
  /\ \A B : Abstract!RemovedCount(B) = RemovedCount(B)
<1>1. \A B, e : Abstract!IsRemoved(B, e) = IsRemoved(B, e)
  BY DEF Abstract!IsRemoved, IsRemoved
<1>2. \A B, f : Abstract!Standing(B, f) = Standing(B, f)
  BY SameWindow DEF Abstract!Standing, Standing
<1>3. \A b, c : Abstract!SameBatchKey(b, c) = SameBatchKey(b, c)
  BY DEF Abstract!SameBatchKey, SameBatchKey
<1>4. \A b, c : Abstract!CoveredBy(b, c) = CoveredBy(b, c)
  BY DEF Abstract!CoveredBy, CoveredBy
<1>5. \A B : Abstract!DropCovered(B) = DropCovered(B)
  BY <1>3, <1>4 DEF Abstract!DropCovered, DropCovered
<1>6. \A B : Abstract!RemovedCount(B) = RemovedCount(B)
  BY SameCardinality DEF Abstract!RemovedCount, RemovedCount
<1>. QED
  BY <1>1, <1>2, <1>3, <1>4, <1>5, <1>6

LEMMA SameKept == \A E : Abstract!Kept(E) = Kept(E)
<1>1. \A E, e : Abstract!MayStay(E, e) = MayStay(E, e)
  BY DEF Abstract!MayStay, MayStay, Abstract!BestDelegated, BestDelegated, Abstract!Delegated,
         Delegated, Abstract!Outranks, Outranks, Abstract!RanksAbove, RanksAbove
<1>2. \A e, f : Abstract!RanksAbove(e, f) = RanksAbove(e, f)
  BY DEF Abstract!RanksAbove, RanksAbove
<1>3. \A E : Abstract!KeptInAll(E) = KeptInAll(E)
  BY <1>2, SameCardinality DEF Abstract!KeptInAll, KeptInAll
<1>4. \A E : Abstract!KeptPerGhostKey(E) = KeptPerGhostKey(E)
  BY <1>2, SameCardinality DEF Abstract!KeptPerGhostKey, KeptPerGhostKey
<1>. QED
  BY <1>1, <1>3, <1>4 DEF Abstract!Kept, Kept

LEMMA SameFloors ==
  /\ \A f, g : Abstract!FloorAhead(f, g) = FloorAhead(f, g)
  /\ \A f, g : Abstract!AdoptedFloor(f, g) = AdoptedFloor(f, g)
  BY DEF Abstract!FloorAhead, FloorAhead, Abstract!AdoptedFloor, AdoptedFloor

LEMMA SameNormalize == \A s : Abstract!Normalize(s) = Normalize(s)
  BY SameWindow, SameBatches, SameKept DEF Abstract!Normalize, Normalize, Abstract!EmptyState, EmptyState

LEMMA SameApply == \A s, d : Abstract!ApplyDelta(s, d) = ApplyDelta(s, d)
<1>1. \A d : Abstract!TooLarge(d) = TooLarge(d)
  BY SameCardinality, SameBatches DEF Abstract!TooLarge, TooLarge
<1>2. \A b, B, f : Abstract!BatchPassedOver(b, B, f) = BatchPassedOver(b, B, f)
  BY SameWindow, SameBatches DEF Abstract!BatchPassedOver, BatchPassedOver
<1>3. \A e, E, B, f : Abstract!EntryPassedOver(e, E, B, f) = EntryPassedOver(e, E, B, f)
  BY SameWindow, SameBatches DEF Abstract!EntryPassedOver, EntryPassedOver
<1>4. ASSUME NEW s, NEW d
      PROVE  Abstract!AfterDelta(s, d) = AfterDelta(s, d)
  <2>. DEFINE floor    == AdoptedFloor(s.floor, d.floor)
              held     == Standing(s.removals, floor)
              batches  == {b \in d.removals : ~BatchPassedOver(b, held, floor)}
              removals == DropCovered(held \cup batches)
              entries  == {e \in d.entries : ~EntryPassedOver(e, s.entries, removals, floor)}
              next     == Normalize([floor    |-> floor,
                                     entries  |-> s.entries \cup entries,
                                     removals |-> removals])
              aFloor    == Abstract!AdoptedFloor(s.floor, d.floor)
              aHeld     == Abstract!Standing(s.removals, aFloor)
              aBatches  == {b \in d.removals : ~Abstract!BatchPassedOver(b, aHeld, aFloor)}
              aRemovals == Abstract!DropCovered(aHeld \cup aBatches)
              aEntries  == {e \in d.entries :
                              ~Abstract!EntryPassedOver(e, s.entries, aRemovals, aFloor)}
              aNext     == Abstract!Normalize([floor    |-> aFloor,
                                               entries  |-> s.entries \cup aEntries,
                                               removals |-> aRemovals])
              Refused(f, B, E, n) ==
                \/ f = NoFloor /\ (d.entries # {} \/ d.removals # {})
                \/ \E b \in d.removals : b.removed = {}
                \/ \E r \in B \cup E : ~r.valid
                \/ Cardinality(n.removals) > MaxBatches
                \/ RemovedCount(n.removals) > MaxRemoved
              aRefused ==
                \/ aFloor = NoFloor /\ (d.entries # {} \/ d.removals # {})
                \/ \E b \in d.removals : b.removed = {}
                \/ \E r \in aBatches \cup aEntries : ~r.valid
                \/ Abstract!Cardinality(aNext.removals) > MaxBatches
                \/ Abstract!RemovedCount(aNext.removals) > MaxRemoved
  <2>1. AfterDelta(s, d) = IF Refused(floor, batches, entries, next) THEN s ELSE next
    BY DEF AfterDelta
  <2>2. Abstract!AfterDelta(s, d) = IF aRefused THEN s ELSE aNext
    BY DEF Abstract!AfterDelta
  <2>3. aFloor = floor
    BY SameFloors
  <2>4. aHeld = held
    BY <2>3, SameBatches
  <2>5. aBatches = batches
    BY <2>3, <2>4, <1>2
  <2>6. aRemovals = removals
    BY <2>4, <2>5, SameBatches
  <2>7. aEntries = entries
    BY <2>3, <2>6, <1>3
  <2>8. aNext = next
    BY <2>3, <2>6, <2>7, SameNormalize
  <2>. HIDE DEF floor, held, batches, removals, entries, next,
                aFloor, aHeld, aBatches, aRemovals, aEntries, aNext
  <2>9. Abstract!Cardinality(aNext.removals) = Cardinality(next.removals)
    BY <2>8, SameCardinality
  <2>10. Abstract!RemovedCount(aNext.removals) = RemovedCount(next.removals)
    BY <2>8, SameBatches
  <2>11. aRefused <=> Refused(floor, batches, entries, next)
    BY <2>3, <2>5, <2>7, <2>9, <2>10
  <2>. QED
    BY <2>1, <2>2, <2>8, <2>11
<1>. QED
  BY <1>1, <1>4 DEF Abstract!ApplyDelta, ApplyDelta

LEMMA SameDelta == \A s, t : Abstract!Delta(s, t) = Delta(s, t)
<1>1. \A S, x : Abstract!DigestOf(S, x) = DigestOf(S, x)
  BY DEF Abstract!DigestOf, DigestOf
<1>. QED
  BY <1>1, SameFloors DEF Abstract!Delta, Delta, Abstract!FloorToTell, FloorToTell

LEMMA SameReceive ==
  /\ \A p, d : Abstract!Receive(p, d) <=> Receive(p, d)
  /\ \A p, d : Abstract!Post(p, d) <=> Post(p, d)
<1>1. \A p, d : Abstract!Receive(p, d) <=> Receive(p, d)
  BY SameApply DEF Abstract!Receive, Receive
<1>2. \A p, d : Abstract!Post(p, d) <=> Post(p, d)
  BY SameCardinality DEF Abstract!Post, Post
<1>. QED
  BY <1>1, <1>2

LEMMA SameNetwork == NetworkNext => Abstract!NetworkNext
<1>1. \A p, q : Abstract!Answer(p, q) = Answer(p, q)
  BY SameDelta DEF Abstract!Answer, Answer, Abstract!Summarize, Summarize
<1>2. \A p, q, e : Submit(p, q, e) => Abstract!Submit(p, q, e)
  BY SameReceive DEF Abstract!Submit, Submit, Abstract!Submission, Submission
<1>3. \A p, q : Sync(p, q) => Abstract!Sync(p, q)
  BY <1>1, SameReceive DEF Abstract!Sync, Sync
<1>4. \A p, q : Send(p, q) => Abstract!Send(p, q)
  BY <1>1, SameReceive DEF Abstract!Send, Send, Abstract!IsEmptyDelta, IsEmptyDelta
<1>5. \A m : Arrive(m) => Abstract!Arrive(m)
  BY SameReceive DEF Abstract!Arrive, Arrive
<1>6. \A m : Lose(m) => Abstract!Lose(m)
  BY DEF Abstract!Lose, Lose
<1>. QED
  BY <1>2, <1>3, <1>4, <1>5, <1>6 DEF Abstract!NetworkNext, NetworkNext

-----------------------------------------------------------------------------
(* What is always true of a pass *)

PassShape ==
  [step : {"copied", "reading", "sending"}, copy : State, known : Floor,
   todo : SUBSET Entry, heights : SUBSET Nat, delta : State]

Types ==
  /\ NetworkTypeOK
  /\ signed \in Floor
  /\ handled \subseteq Entry
  /\ reads \in [Entry -> Nat]
  /\ pass # NoPass => pass \in PassShape

Behind(f, s) == f = NoFloor \/ (s # NoFloor /\ f <= s)

\* Nobody holds, or is sent, a floor the bridge has not recorded.
FloorsSigned ==
  /\ \A p \in Peer : Behind(inbox[p].floor, signed)
  /\ \A m \in net : Behind(m.delta.floor, signed)
  /\ pass # NoPass => Behind(pass.copy.floor, signed)

CopiesSettled == AllSettled /\ (pass # NoPass => Settled(pass.copy))

\* The bridge remembers what it has read until its floor has passed it.
OpenedRemembered ==
  \A e \in Entry :
    /\ e \in handled => reads[e] > 0
    /\ reads[e] > 0 => e \in handled \/ (signed # NoFloor /\ e.height < signed)

\* A pass reads under the floor in force, comes to nothing in an inbox it has
\* not opened, and names the heights of entries read that the floor has not
\* passed; what it then has to send is what the promise allows.
PassInForce ==
  /\ At("copied") => pass.heights = {}
  /\ At("reading") =>
       /\ pass.known = signed
       /\ \A e \in pass.todo : e.valid /\ signed # NoFloor
       /\ \A h \in pass.heights :
            /\ signed # NoFloor /\ signed <= h
            /\ h \in {e.height : e \in Abstract!Opened}
  /\ At("sending") =>
       /\ pass.delta \in Abstract!BridgeDeltas
       /\ ~IsEmptyDelta(pass.delta) => signed # NoFloor

IInv == Types /\ FloorsSigned /\ CopiesSettled /\ OpenedRemembered /\ PassInForce

LEMMA EntryTypes == \A e \in Entry : e.height \in Nat /\ e.prefix \in Prefix
  BY EntryAssumption DEF EntryShape

LEMMA LagType == \A tip \in Tips : LagBehind(tip) \in 0..MaxTip
<1>. SUFFICES ASSUME NEW tip \in Tips
              PROVE  LagBehind(tip) \in 0..MaxTip
  OBVIOUS
<1>1. tip \in Nat /\ tip <= MaxTip /\ Lag \in Nat /\ MaxTip \in Nat
  BY BridgeAssumption
<1>. QED
  BY <1>1 DEF LagBehind

LEMMA BatchTypes == 
  ASSUME handled \subseteq Entry
  PROVE  \A h \in Nat : BatchAt(h) \in BatchShape
  BY EntryTypes DEF BatchAt, HandledAt, BatchShape

\* The floor a pass sends, if it sends one, is the one then in force.
LEMMA FloorSent ==
  ASSUME Types, FloorsSigned, PassInForce, At("reading"),
         NEW told \in BOOLEAN, NEW tip \in Tips
  PROVE  LET floor == FloorToSend(TargetFloor(told, tip))
         IN  /\ floor \in Floor
             /\ floor \in {NoFloor, AdoptedFloor(signed, floor)}
             /\ \/ AdoptedFloor(signed, floor) = signed
                \/ /\ AdoptedFloor(signed, floor) = LagBehind(tip)
                   /\ signed # NoFloor => LagBehind(tip) > signed
<1>. DEFINE low    == LagBehind(tip)
            target == TargetFloor(told, tip)
            floor  == FloorToSend(target)
<1>1. low \in Nat /\ low # NoFloor
  BY LagType, BoundAssumption, BridgeAssumption
<1>2. pass.known = signed
  BY DEF PassInForce
<1>3. target = signed \/ (target = low /\ FloorAhead(low, signed))
  BY <1>2 DEF TargetFloor, AdoptedFloor
<1>4. floor = NoFloor \/ floor = target
  BY DEF FloorToSend
<1>. HIDE DEF low, target, floor
<1>5. AdoptedFloor(signed, NoFloor) = signed
  BY DEF AdoptedFloor, FloorAhead
<1>6. AdoptedFloor(signed, signed) = signed
  BY DEF AdoptedFloor
<1>7. FloorAhead(low, signed) => AdoptedFloor(signed, low) = low
  BY DEF AdoptedFloor
<1>8. floor \in Floor
  BY <1>1, <1>3, <1>4, BoundAssumption DEF Floor, Types
<1>9. floor \in {NoFloor, AdoptedFloor(signed, floor)}
  BY <1>3, <1>4, <1>6, <1>7
<1>10. \/ AdoptedFloor(signed, floor) = signed
       \/ AdoptedFloor(signed, floor) = low /\ FloorAhead(low, signed)
  BY <1>3, <1>4, <1>5, <1>6, <1>7
<1>11. FloorAhead(low, signed) => (signed # NoFloor => low > signed)
  BY DEF FloorAhead
<1>12. /\ floor \in Floor
       /\ floor \in {NoFloor, AdoptedFloor(signed, floor)}
       /\ \/ AdoptedFloor(signed, floor) = signed
          \/ /\ AdoptedFloor(signed, floor) = low
             /\ signed # NoFloor => low > signed
  BY <1>8, <1>9, <1>10, <1>11
<1>. QED
  BY <1>12 DEF low, target, floor

-----------------------------------------------------------------------------
(* It begins true *)

LEMMA InitInv == Init => IInv
<1>. SUFFICES ASSUME Init
              PROVE  IInv
  OBVIOUS
<1>1. Types
  BY DEF Init, NetworkInit, Types, NetworkTypeOK, EmptyState, State, Floor
<1>2. FloorsSigned
  BY DEF Init, NetworkInit, FloorsSigned, Behind, EmptyState
<1>3. CopiesSettled
  BY InitSettled DEF Init, CopiesSettled
<1>4. OpenedRemembered
  BY DEF Init, OpenedRemembered
<1>5. PassInForce
  BY DEF Init, PassInForce, At
<1>. QED
  BY <1>1, <1>2, <1>3, <1>4, <1>5 DEF IInv

-----------------------------------------------------------------------------
(* The network's steps *)

LEMMA DeltaFloor ==
  ASSUME NEW s, NEW d
  PROVE  ApplyDelta(s, d).floor \in {s.floor, d.floor}
<1>. DEFINE t == [floor    |-> AdoptedFloor(s.floor, d.floor),
                  entries  |-> ToEntries(s, d),
                  removals |-> ToRemovals(s, d)]
<1>1. t.floor \in {s.floor, d.floor}
  BY DEF AdoptedFloor
<1>. HIDE DEF t
<1>2. Normalize(t).floor = t.floor
  BY DEF Normalize, EmptyState
<1>. QED
  BY <1>1, <1>2, DeltaOutcome DEF t

LEMMA ReceiveFloors ==
  ASSUME NetworkTypeOK, FloorsSigned, UNCHANGED <<signed, net>>,
         NEW q \in Peer, NEW d, Behind(d.floor, signed),
         inbox' = [inbox EXCEPT ![q] = ApplyDelta(inbox[q], d)]
  PROVE  /\ \A p \in Peer : Behind(inbox'[p].floor, signed')
         /\ \A m \in net' : Behind(m.delta.floor, signed')
<1>1. ASSUME NEW p \in Peer
      PROVE  Behind(inbox'[p].floor, signed)
  <2>1. inbox'[p] = inbox[p] \/ inbox'[p] = ApplyDelta(inbox[p], d)
    BY DEF NetworkTypeOK
  <2>2. inbox'[p].floor \in {inbox[p].floor, d.floor}
    BY <2>1, DeltaFloor
  <2>. QED
    BY <2>2 DEF FloorsSigned
<1>. QED
  BY <1>1 DEF FloorsSigned

LEMMA PostFloors ==
  ASSUME FloorsSigned, UNCHANGED signed, NEW q, NEW d, Behind(d.floor, signed), Post(q, d)
  PROVE  /\ \A p \in Peer : Behind(inbox'[p].floor, signed')
         /\ \A m \in net' : Behind(m.delta.floor, signed')
  BY DEF FloorsSigned, Post

LEMMA NetworkFloors ==
  ASSUME NetworkTypeOK, FloorsSigned, NetworkNext, UNCHANGED signed
  PROVE  /\ \A p \in Peer : Behind(inbox'[p].floor, signed')
         /\ \A m \in net' : Behind(m.delta.floor, signed')
<1>1. \A p, q \in Peer : Behind(Answer(p, q).floor, signed)
  BY DEF Answer, Delta, FloorsSigned, Behind
<1>2. \A q \in Peer, e \in Entry : Behind(Submission(inbox[q].floor, e).floor, signed)
  BY DEF Submission, FloorsSigned
<1>3. \A m \in net : Behind(m.delta.floor, signed)
  BY DEF FloorsSigned
<1>4. CASE net' \subseteq net /\ UNCHANGED inbox
  BY <1>4 DEF FloorsSigned
<1>. QED
  BY <1>1, <1>2, <1>3, <1>4, NetworkSteps, ReceiveFloors, PostFloors DEF Receive

LEMMA UnchangedForce ==
  ASSUME PassInForce, UNCHANGED <<signed, handled, reads, pass>>
  PROVE  PassInForce'
<1>1. Abstract!Opened' = Abstract!Opened
  BY DEF Abstract!Opened
<1>2. Abstract!BridgeDeltas' = Abstract!BridgeDeltas
  BY <1>1 DEF Abstract!BridgeDeltas, Abstract!BridgeDelta, Abstract!Receipt
<1>. QED
  BY <1>1, <1>2 DEF PassInForce, At

-----------------------------------------------------------------------------
(* The pass's steps *)

\* Each step is one of these.
LEMMA Steps ==
  ASSUME [Next]_vars
  PROVE  \/ NetworkNext /\ UNCHANGED bridgeVars
         \/ \E p \in Peer : GetCopy(p)
         \/ OpenPass
         \/ \E e \in Entry : SkipEntry(e) \/ DeferEntry(e)
         \/ \E e \in Entry : FindAlreadyRead(e)
         \/ \E e \in Entry : ReadEntry(e)
         \/ \E told \in BOOLEAN, tip \in Tips : SignDelta(told, tip)
         \/ SendDelta
         \/ SendLate
         \/ pass' = NoPass /\ UNCHANGED <<networkVars, store, reads>>
         \/ UNCHANGED vars
  BY DEF Next, PassStep, NothingToSend, Crash

LEMMA NetworkStepInv ==
  ASSUME IInv, NetworkNext, UNCHANGED bridgeVars
  PROVE  IInv'
<1>. USE DEF bridgeVars, store, IInv
<1>1. Types'
  BY NetworkStepType DEF Types
<1>2. FloorsSigned'
  BY NetworkFloors DEF Types, FloorsSigned
<1>3. CopiesSettled'
  BY NetworkApplies, AppliedSettles DEF Types, CopiesSettled
<1>4. OpenedRemembered'
  BY DEF OpenedRemembered
<1>5. PassInForce'
  BY UnchangedForce
<1>. QED
  BY <1>1, <1>2, <1>3, <1>4, <1>5

LEMMA GetCopyInv ==
  ASSUME IInv, NEW p \in Peer, GetCopy(p)
  PROVE  IInv'
<1>. USE DEF GetCopy, store, networkVars, IInv
<1>1. Types'
  <2>1. inbox[p] \in State
    BY DEF Types, NetworkTypeOK
  <2>2. EmptyState \in State /\ NoFloor \in Floor
    BY DEF EmptyState, State, Floor
  <2>3. pass' \in PassShape
    BY <2>1, <2>2 DEF PassShape
  <2>. QED
    BY <2>3 DEF Types, NetworkTypeOK
<1>2. FloorsSigned'
  BY DEF FloorsSigned
<1>3. CopiesSettled'
  BY DEF CopiesSettled, AllSettled
<1>4. OpenedRemembered'
  BY DEF OpenedRemembered
<1>5. PassInForce'
  BY DEF PassInForce, At
<1>. QED
  BY <1>1, <1>2, <1>3, <1>4, <1>5

LEMMA KnownIsSigned ==
  ASSUME IInv, At("copied")
  PROVE  AdoptedFloor(signed, pass.copy.floor) = signed
<1>1. Behind(pass.copy.floor, signed) /\ pass.copy.floor \in Floor /\ signed \in Floor
  BY DEF IInv, FloorsSigned, Types, PassShape, At, State
<1>. QED
  BY <1>1, BoundAssumption DEF Behind, AdoptedFloor, FloorAhead, Floor

LEMMA OpenPassInv ==
  ASSUME IInv, OpenPass
  PROVE  IInv'
<1>. USE DEF store, networkVars, IInv
<1>1. /\ At("copied") /\ pass \in PassShape
      /\ signed' = signed
      /\ handled' = Remembered(handled, signed)
      /\ pass' = [pass EXCEPT !.step = "reading", !.known = signed,
                              !.todo = VerifiedEntries(pass.copy)]
      /\ UNCHANGED <<inbox, net, refused, reads>>
  BY KnownIsSigned DEF OpenPass, At, Types
<1>2. /\ pass'.step = "reading" /\ pass'.known = signed /\ pass'.copy = pass.copy
      /\ pass'.todo = VerifiedEntries(pass.copy) /\ pass'.heights = pass.heights
      /\ pass'.delta = pass.delta
  BY <1>1 DEF PassShape
<1>3. Types'
  <2>1. VerifiedEntries(pass.copy) \subseteq Entry
    BY <1>1 DEF VerifiedEntries, PassShape, State
  <2>2. pass' \in PassShape
    BY <1>1, <2>1 DEF PassShape, Types
  <2>. QED
    BY <1>1, <2>2 DEF Types, NetworkTypeOK, Remembered
<1>4. FloorsSigned'
  BY <1>1, <1>2 DEF FloorsSigned, At
<1>5. CopiesSettled'
  BY <1>1, <1>2 DEF CopiesSettled, AllSettled, At
<1>6. OpenedRemembered'
  <2>1. \A e \in Entry : e.height \in Nat
    BY EntryTypes
  <2>2. signed \in Floor
    BY DEF Types
  <2>. QED
    BY <1>1, <2>1, <2>2 DEF OpenedRemembered, Remembered, Floor
<1>7. ASSUME NEW e \in VerifiedEntries(pass.copy)
      PROVE  e.valid /\ signed # NoFloor
  <2>1. e.valid /\ e \in pass.copy.entries
    BY DEF VerifiedEntries
  <2>2. Settled(pass.copy) /\ Behind(pass.copy.floor, signed)
    BY <1>1 DEF CopiesSettled, FloorsSigned, At
  <2>. QED
    BY <2>1, <2>2 DEF Settled, Behind
<1>8. PassInForce'
  <2>1. pass.heights = {}
    BY <1>1 DEF PassInForce
  <2>. QED
    BY <1>1, <1>2, <1>7, <2>1 DEF PassInForce, At
<1>. QED
  BY <1>3, <1>4, <1>5, <1>6, <1>8

\* An entry is passed by, waits, or was read before.
LEMMA PassedInv ==
  ASSUME IInv, NEW e \in Entry, SkipEntry(e) \/ DeferEntry(e)
  PROVE  IInv'
<1>. USE DEF store, networkVars, IInv
<1>1. /\ At("reading") /\ pass \in PassShape
      /\ pass' = [pass EXCEPT !.todo = @ \ {e}]
      /\ UNCHANGED <<inbox, net, signed, handled, refused, reads>>
  BY DEF SkipEntry, DeferEntry, ComesTo, At, Types
<1>2. /\ pass'.step = "reading" /\ pass'.known = pass.known /\ pass'.copy = pass.copy
      /\ pass'.todo = pass.todo \ {e} /\ pass'.heights = pass.heights
      /\ pass'.delta = pass.delta
  BY <1>1 DEF PassShape, At
<1>3. Types'
  BY <1>1 DEF Types, NetworkTypeOK, PassShape
<1>4. FloorsSigned'
  BY <1>1, <1>2 DEF FloorsSigned, At
<1>5. CopiesSettled'
  BY <1>1, <1>2 DEF CopiesSettled, AllSettled, At
<1>6. OpenedRemembered'
  BY <1>1 DEF OpenedRemembered
<1>7. Abstract!Opened' = Abstract!Opened
  BY <1>1 DEF Abstract!Opened
<1>8. PassInForce'
  BY <1>1, <1>2, <1>7 DEF PassInForce, At
<1>. QED
  BY <1>3, <1>4, <1>5, <1>6, <1>8

\* What is not passed by lies in the window of the floor in force.
LEMMA ComesToInWindow ==
  ASSUME IInv, NEW e \in Entry, ComesTo(e), ~PassedBy(e)
  PROVE  e.valid /\ signed # NoFloor /\ InWindow(e.height, signed)
  BY DEF IInv, PassInForce, ComesTo, PassedBy, OutsideWindow

LEMMA FindAlreadyReadInv ==
  ASSUME IInv, NEW e \in Entry, FindAlreadyRead(e)
  PROVE  IInv'
<1>. USE DEF store, networkVars, IInv
<1>1. /\ At("reading") /\ pass \in PassShape /\ e \in handled
      /\ pass' = [pass EXCEPT !.todo = @ \ {e}, !.heights = @ \cup {e.height}]
      /\ UNCHANGED <<inbox, net, signed, handled, refused, reads>>
  BY DEF FindAlreadyRead, ComesTo, At, Types
<1>2. /\ pass'.step = "reading" /\ pass'.known = pass.known /\ pass'.copy = pass.copy
      /\ pass'.todo = pass.todo \ {e} /\ pass'.heights = pass.heights \cup {e.height}
      /\ pass'.delta = pass.delta
  BY <1>1 DEF PassShape, At
<1>3. Types'
  BY <1>1, EntryTypes DEF Types, NetworkTypeOK, PassShape
<1>4. FloorsSigned'
  BY <1>1, <1>2 DEF FloorsSigned, At
<1>5. CopiesSettled'
  BY <1>1, <1>2 DEF CopiesSettled, AllSettled, At
<1>6. OpenedRemembered'
  BY <1>1 DEF OpenedRemembered
<1>7. Abstract!Opened' = Abstract!Opened
  BY <1>1 DEF Abstract!Opened
<1>8. signed # NoFloor /\ signed <= e.height /\ e \in Abstract!Opened
  BY <1>1, ComesToInWindow
  DEF FindAlreadyRead, InWindow, AtOrAbove, OpenedRemembered, Abstract!Opened
<1>9. PassInForce'
  BY <1>1, <1>2, <1>7, <1>8 DEF PassInForce, At
<1>. QED
  BY <1>3, <1>4, <1>5, <1>6, <1>9

LEMMA ReadEntryInv ==
  ASSUME IInv, NEW e \in Entry, ReadEntry(e)
  PROVE  IInv'
<1>. USE DEF store, networkVars, IInv
<1>1. /\ At("reading") /\ pass \in PassShape
      /\ handled' = handled \cup {e}
      /\ reads' = [reads EXCEPT ![e] = @ + 1]
      /\ pass' = [pass EXCEPT !.todo = @ \ {e}, !.heights = @ \cup {e.height}]
      /\ UNCHANGED <<inbox, net, signed>>
  BY DEF ReadEntry, ComesTo, At, Types
<1>2. /\ pass'.step = "reading" /\ pass'.known = pass.known /\ pass'.copy = pass.copy
      /\ pass'.todo = pass.todo \ {e} /\ pass'.heights = pass.heights \cup {e.height}
      /\ pass'.delta = pass.delta
  BY <1>1 DEF PassShape, At
<1>3. reads \in [Entry -> Nat]
  BY DEF Types
<1>4. \A f \in Entry : reads'[f] = IF f = e THEN reads[f] + 1 ELSE reads[f]
  BY <1>1, <1>3
<1>5. \A f \in Entry : reads'[f] > 0 <=> f = e \/ reads[f] > 0
  BY <1>3, <1>4
<1>6. Types'
  <2>1. reads' \in [Entry -> Nat]
    BY <1>1, <1>3
  <2>2. pass' \in PassShape
    BY <1>1, EntryTypes DEF PassShape
  <2>. QED
    BY <1>1, <2>1, <2>2 DEF Types, NetworkTypeOK
<1>7. FloorsSigned'
  BY <1>1, <1>2 DEF FloorsSigned, At
<1>8. CopiesSettled'
  BY <1>1, <1>2 DEF CopiesSettled, AllSettled, At
<1>9. OpenedRemembered'
  BY <1>1, <1>5 DEF OpenedRemembered
<1>10. Abstract!Opened' = Abstract!Opened \cup {e}
  BY <1>5 DEF Abstract!Opened
<1>11. signed # NoFloor /\ signed <= e.height
  BY ComesToInWindow DEF ReadEntry, InWindow, AtOrAbove
<1>12. PassInForce'
  BY <1>1, <1>2, <1>10, <1>11 DEF PassInForce, At
<1>. QED
  BY <1>6, <1>7, <1>8, <1>9, <1>12

\* The batches of a pass name what was ever read at their heights.
LEMMA BatchIsReceipt ==
  ASSUME IInv, At("reading"), NEW h \in pass.heights
  PROVE  BatchAt(h) = Abstract!Receipt(h)
<1>1. signed # NoFloor /\ signed <= h /\ h \in Nat /\ signed \in Nat
  BY DEF IInv, PassInForce, Types, PassShape, At, Floor
<1>2. HandledAt(h) = {f \in Abstract!Opened : f.height = h}
  BY <1>1, EntryTypes DEF HandledAt, Abstract!Opened, IInv, OpenedRemembered, Types
<1>. QED
  BY <1>2 DEF BatchAt, Abstract!Receipt

LEMMA SignDeltaInv ==
  ASSUME IInv, NEW told \in BOOLEAN, NEW tip \in Tips, SignDelta(told, tip)
  PROVE  IInv'
<1>. USE DEF store, networkVars, IInv
<1>. DEFINE floor == FloorToSend(TargetFloor(told, tip))
            B     == {BatchAt(h) : h \in pass.heights}
            d     == [floor |-> floor, entries |-> {}, removals |-> B]
<1>1. /\ At("reading") /\ pass \in PassShape
      /\ signed' = AdoptedFloor(signed, floor)
      /\ pass' = [pass EXCEPT !.step = "sending", !.delta = d]
      /\ UNCHANGED <<inbox, net, handled, refused, reads>>
  BY DEF SignDelta, At, Types
<1>2. /\ floor \in Floor
      /\ floor \in {NoFloor, signed'}
      /\ signed' = signed \/ (signed' \in Nat /\ (signed # NoFloor => signed' > signed))
  BY <1>1, FloorSent, LagType
<1>3. B \in SUBSET BatchShape
  BY <1>1, BatchTypes DEF Types, PassShape
<1>4. d \in State
  BY <1>2, <1>3 DEF State
<1>5. B = {Abstract!Receipt(h) : h \in pass.heights}
  BY <1>1, BatchIsReceipt
<1>6. pass.heights \in SUBSET {e.height : e \in Abstract!Opened}
  BY <1>1 DEF PassInForce
<1>7. signed \in Floor
  BY DEF Types
<1>8. B # {} => signed # NoFloor
  BY <1>1 DEF PassInForce
<1>. HIDE DEF floor, B
<1>9. /\ pass'.step = "sending" /\ pass'.copy = pass.copy /\ pass'.delta = d
  BY <1>1 DEF PassShape, At
<1>10. signed # NoFloor => signed' # NoFloor
  BY <1>2, BoundAssumption
<1>11. \A f : Behind(f, signed) /\ f \in Floor => Behind(f, signed')
  BY <1>2, <1>7, <1>10, BoundAssumption DEF Behind, Floor
<1>12. Types'
  <2>1. pass' \in PassShape
    BY <1>1, <1>4 DEF PassShape
  <2>. QED
    BY <1>1, <1>2, <1>7, <2>1 DEF Types, NetworkTypeOK, Floor
<1>13. FloorsSigned'
  <2>1. /\ \A p \in Peer : inbox[p].floor \in Floor
        /\ \A m \in net : m.delta.floor \in Floor
        /\ pass.copy.floor \in Floor
    BY <1>1 DEF Types, NetworkTypeOK, Message, State, PassShape
  <2>. QED
    BY <1>1, <1>9, <1>11, <2>1 DEF FloorsSigned, At
<1>14. CopiesSettled'
  BY <1>1, <1>9 DEF CopiesSettled, AllSettled, At
<1>15. OpenedRemembered'
  BY <1>1, <1>2, <1>7, <1>10, EntryTypes, BoundAssumption DEF OpenedRemembered, Floor
<1>16. PassInForce'
  <2>1. Abstract!Opened' = Abstract!Opened
    BY <1>1 DEF Abstract!Opened
  <2>. DEFINE Op == Abstract!Opened
              D(f, H) == [floor |-> f, entries |-> {}, removals |-> {Abstract!Receipt(h) : h \in H}]
  <2>2. Abstract!BridgeDeltas' = {D(f, H) : f \in {NoFloor, signed'}, H \in SUBSET {e.height : e \in Op}}
    BY <2>1 DEF Abstract!BridgeDeltas, Abstract!BridgeDelta, Abstract!Receipt
  <2>3. d = D(floor, pass.heights)
    BY <1>5
  <2>. HIDE DEF D
  <2>4. d \in Abstract!BridgeDeltas'
    BY <1>2, <1>6, <2>2, <2>3
  <2>5. ~IsEmptyDelta(d) => signed' # NoFloor
    BY <1>2, <1>8, <1>10 DEF IsEmptyDelta
  <2>. QED
    BY <1>9, <2>4, <2>5 DEF PassInForce, At
<1>. QED
  BY <1>12, <1>13, <1>14, <1>15, <1>16

\* The delta leaves as it was signed, and the pass ends.
LEMMA SendInv ==
  ASSUME IInv, SendDelta \/ SendLate
  PROVE  IInv'
<1>. USE DEF store, networkVars, IInv
<1>1. /\ At("sending") /\ pass \in PassShape /\ pass' = NoPass
      /\ UNCHANGED <<signed, handled, refused, reads>>
      /\ Receive(Home, pass.delta) \/ Post(Home, pass.delta)
      /\ Home \in Peer
  BY BridgeAssumption DEF SendDelta, SendLate, At, Types
<1>2. pass.delta \in State
  BY <1>1 DEF PassShape
<1>3. NetworkTypeOK /\ NetworkTypeOK'
  BY <1>1, <1>2, ReceiveType, PostType DEF Types
<1>4. Types'
  BY <1>1, <1>3 DEF Types
<1>5. Behind(pass.delta.floor, signed)
  <2>1. pass.delta.floor \in {NoFloor, signed}
    BY <1>1 DEF PassInForce, Abstract!BridgeDeltas, Abstract!BridgeDelta
  <2>2. signed = NoFloor \/ signed \in Nat
    BY DEF Types, Floor
  <2>. QED
    BY <2>1, <2>2 DEF Behind
<1>6. FloorsSigned'
  BY <1>1, <1>3, <1>5, ReceiveFloors, PostFloors DEF FloorsSigned, Receive
<1>7. CopiesSettled'
  <2>1. ASSUME NEW p \in Peer
        PROVE  Applied(p)
    BY <1>1, <1>2, <1>3, ReceiveApplies, StaysApplies DEF Post
  <2>. QED
    BY <1>1, <1>3, <2>1, AppliedSettles DEF CopiesSettled
<1>8. OpenedRemembered'
  BY <1>1 DEF OpenedRemembered
<1>9. PassInForce'
  BY <1>1 DEF PassInForce, At
<1>. QED
  BY <1>4, <1>6, <1>7, <1>8, <1>9

LEMMA PassEndsInv ==
  ASSUME IInv, pass' = NoPass, UNCHANGED <<networkVars, store, reads>>
  PROVE  IInv'
  BY DEF IInv, networkVars, store, Types, NetworkTypeOK, FloorsSigned, CopiesSettled, AllSettled,
         OpenedRemembered, PassInForce, At

LEMMA StepInv ==
  ASSUME IInv, [Next]_vars
  PROVE  IInv'
<1>1. CASE UNCHANGED vars
  <2>1. UNCHANGED <<inbox, net, signed, handled, reads, pass>>
    BY <1>1 DEF vars, networkVars, bridgeVars, store
  <2>2. PassInForce'
    BY <2>1, UnchangedForce DEF IInv
  <2>. QED
    BY <2>1, <2>2 DEF IInv, Types, NetworkTypeOK, FloorsSigned, CopiesSettled, AllSettled,
                      OpenedRemembered
<1>. QED
  BY <1>1, Steps, NetworkStepInv, GetCopyInv, OpenPassInv, PassedInv, FindAlreadyReadInv,
     ReadEntryInv, SignDeltaInv, SendInv, PassEndsInv

-----------------------------------------------------------------------------
(* The promise kept *)

THEOREM InvariantHolds == Spec => []IInv
  BY InitInv, StepInv, PTL DEF Spec

\* What the promise takes for handled.
StillHandled == IF signed = NoFloor THEN handled ELSE Remembered(handled, signed)

LEMMA InitKept == Init => Abstract!Init
  BY DEF Init, NetworkInit, EmptyState, Abstract!Init, Abstract!NetworkInit,
         Abstract!EmptyState, Remembered

LEMMA PublishKept ==
  ASSUME IInv, SendDelta \/ SendLate
  PROVE  Abstract!Next
<1>1. /\ pass.delta \in Abstract!BridgeDeltas /\ signed # NoFloor
      /\ UNCHANGED <<signed, handled, refused, reads>>
      /\ Receive(Home, pass.delta) \/ Post(Home, pass.delta)
  BY DEF SendDelta, SendLate, store, IInv, PassInForce
<1>2. UNCHANGED StillHandled
  BY <1>1 DEF StillHandled, Remembered
<1>3. Abstract!Publish(pass.delta) \/ Abstract!PublishLate(pass.delta)
  BY <1>1, <1>2, SameReceive
  DEF Abstract!Publish, Abstract!PublishLate, Abstract!bridgeVars, StillHandled
<1>. QED
  BY <1>1, <1>3 DEF Abstract!Next

LEMMA ReadKept ==
  ASSUME IInv, NEW e \in Entry, ReadEntry(e)
  PROVE  Abstract!Next
<1>1. /\ handled' = handled \cup {e} /\ e \notin handled
      /\ reads' = [reads EXCEPT ![e] = @ + 1]
      /\ UNCHANGED <<inbox, net, signed>>
  BY DEF ReadEntry, networkVars
<1>2. e.valid /\ signed # NoFloor /\ InWindow(e.height, signed)
  BY ComesToInWindow DEF ReadEntry
<1>3. /\ StillHandled = Remembered(handled, signed)
      /\ StillHandled' = Remembered(handled \cup {e}, signed)
  BY <1>1, <1>2 DEF StillHandled, Remembered
<1>4. e \notin StillHandled /\ StillHandled' = StillHandled \cup {e}
  BY <1>1, <1>2, <1>3 DEF Remembered, InWindow, AtOrAbove
<1>5. Abstract!Read(e)
  BY <1>1, <1>2, <1>4, SameWindow
  DEF Abstract!Read, Abstract!Readable, Abstract!networkVars, StillHandled
<1>. QED
  BY <1>5 DEF Abstract!Next

LEMMA SignKept ==
  ASSUME IInv, NEW told \in BOOLEAN, NEW tip \in Tips, SignDelta(told, tip)
  PROVE  Abstract!Next \/ UNCHANGED Abstract!vars
<1>. DEFINE floor == FloorToSend(TargetFloor(told, tip))
            low   == LagBehind(tip)
<1>1. /\ At("reading") /\ signed' = AdoptedFloor(signed, floor)
      /\ UNCHANGED <<inbox, net, handled, refused, reads>>
  BY DEF SignDelta, networkVars
<1>2. low \in 0..MaxTip
  BY LagType
<1>3. signed' = signed \/ (signed' = low /\ (signed # NoFloor => low > signed))
  BY <1>1, FloorSent DEF IInv
<1>. HIDE DEF floor, low
<1>4. CASE signed' = signed
  BY <1>1, <1>4 DEF Abstract!vars, Remembered
<1>5. CASE signed' = low /\ (signed # NoFloor => low > signed)
  <2>1. signed \in Floor /\ handled \subseteq Entry /\ low \in Nat /\ low # NoFloor
    BY <1>2, BridgeAssumption, BoundAssumption DEF IInv, Types
  <2>2. StillHandled' = Remembered(handled, low)
    BY <1>1, <1>5, <2>1 DEF StillHandled, Remembered
  <2>3. \A e \in handled : e.height \in Nat
    BY <2>1, EntryTypes
  <2>4. Remembered(handled, low) = {e \in StillHandled : low <= e.height}
    BY <1>5, <2>1, <2>3 DEF StillHandled, Remembered, Floor
  <2>5. Abstract!SignFloor(low)
    BY <1>1, <1>5, <2>2, <2>4
    DEF Abstract!SignFloor, Abstract!Remembered, Abstract!networkVars, StillHandled
  <2>. QED
    BY <1>2, <2>5 DEF Abstract!Next
<1>. QED
  BY <1>3, <1>4, <1>5

\* Pruning by the floor in force forgets nothing the promise still needs.
LEMMA OpenKept ==
  ASSUME IInv, OpenPass
  PROVE  UNCHANGED Abstract!vars
<1>1. /\ signed' = signed /\ handled' = Remembered(handled, signed)
      /\ UNCHANGED <<inbox, net, reads>>
  BY KnownIsSigned DEF OpenPass, networkVars
<1>2. UNCHANGED StillHandled
  BY <1>1 DEF StillHandled, Remembered
<1>. QED
  BY <1>1, <1>2 DEF Abstract!vars, StillHandled

LEMMA StepKept ==
  ASSUME IInv, [Next]_vars
  PROVE  Abstract!Next \/ UNCHANGED Abstract!vars
<1>1. CASE NetworkNext /\ UNCHANGED bridgeVars
  BY <1>1, SameNetwork DEF bridgeVars, store, Abstract!Next, Abstract!bridgeVars, Remembered
<1>2. CASE UNCHANGED <<inbox, net, signed, handled, reads>>
  BY <1>2 DEF Abstract!vars, Remembered
<1>3. \/ NetworkNext /\ UNCHANGED bridgeVars
      \/ OpenPass
      \/ \E e \in Entry : ReadEntry(e)
      \/ \E told \in BOOLEAN, tip \in Tips : SignDelta(told, tip)
      \/ SendDelta \/ SendLate
      \/ UNCHANGED <<inbox, net, signed, handled, reads>>
  BY Steps DEF GetCopy, SkipEntry, DeferEntry, FindAlreadyRead, vars, bridgeVars, networkVars, store
<1>. QED
  BY <1>1, <1>2, <1>3, OpenKept, ReadKept, SignKept, PublishKept

\* Whatever copies its passes work on and wherever they die, the bridge's pass
\* does with an inbox only what its senders were promised (InboxReplicas).
THEOREM PassKeepsPromise == Spec => ImplementsReplicas
<1>1. IInv /\ [Next]_vars => [Abstract!Next]_Abstract!vars
  BY StepKept
<1>. QED
  BY <1>1, InitKept, InvariantHolds, PTL DEF Spec, ImplementsReplicas, Abstract!Spec
=============================================================================
