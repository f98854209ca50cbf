----------------------------- MODULE InboxBridge -----------------------------
(***************************************************************************)
(* The bridge's pass over its inbox: Processor::pass of                    *)
(* bridge/src/inbox.rs, against the store of bridge/src/store.rs.  A pass  *)
(* works on a copy its node answered with, which the inbox has moved on    *)
(* from by the time the pass ends; it reads entries one transaction each,  *)
(* and may die between any two steps, when what it wrote to the store      *)
(* stays and all else is forgotten.                                        *)
(*                                                                         *)
(* Abstracted: what a request asks (act) but for its effect here, that the *)
(* bridge may come to refuse delegations; and the end of watches           *)
(* (expire_watches).  Interests models both.                               *)
(***************************************************************************)
EXTENDS InboxNetwork

CONSTANTS
  Home,          \* the peer the bridge's node is
  Budget,        \* REMOVAL_BUDGET
  Share,         \* REMOVAL_SHARE_PER_GHOSTKEY
  OwnerReserve,  \* OWNER_RESERVE
  Lag,           \* FLOOR_LAG_BLOCKS
  NoPass,        \* no pass is under way
  Tips,          \* bound: the tips there are
  MaxTip         \* bound: the highest tip

ASSUME BridgeAssumption ==
  /\ Home \in Peer
  /\ Link \subseteq Peer \X Peer
  /\ MaxTip \in Nat /\ Tips \subseteq 0..MaxTip
  /\ {Budget, Share, OwnerReserve, Lag, MaxInFlight} \subseteq Nat
  /\ OwnerReserve <= Share

VARIABLES
  signed,    \* store: the highest floor this bridge has signed
  handled,   \* store: the entries read, until the floor passes them
  refused,   \* store: the entries whose delegation the bridge refuses by now
  pass,      \* the pass under way
  reads      \* history: how often each entry has been read

store == <<signed, handled, refused>>
bridgeVars == <<store, pass, reads>>
vars == <<networkVars, bridgeVars>>

\* A pass under way has a step, "copied", "reading" or "sending", the copy it
\* works on, the floor known to be in force, the entries not come to yet, the
\* heights with entries read, and, once signed, the delta to send.
Init ==
  /\ NetworkInit
  /\ signed = NoFloor
  /\ handled = {}
  /\ refused = {}
  /\ pass = NoPass
  /\ reads = [e \in Entry |-> 0]

-----------------------------------------------------------------------------
(* One pass *)

At(step) == pass # NoPass /\ pass.step = step

\* What prune_handled_below leaves.
Remembered(E, floor) == {e \in E : floor = NoFloor \/ floor <= e.height}

\* verified_entries
VerifiedEntries(s) == {e \in s.entries : e.valid /\ ~IsRemoved(s.removals, e)}

\* The node answers a read with the copy it holds.  A node that stopped
\* following the inbox answers with one that any other peer may hold by now.
GetCopy(p) ==
  /\ pass = NoPass
  /\ pass' = [step |-> "copied", copy |-> inbox[p], known |-> NoFloor, todo |-> {},
              heights |-> {}, delta |-> EmptyState]
  /\ UNCHANGED <<networkVars, store, reads>>

\* The copy's own floor is recorded before anything is pruned by it.
OpenPass ==
  /\ At("copied")
  /\ LET known == AdoptedFloor(signed, pass.copy.floor)
     IN  /\ signed' = known
         /\ handled' = Remembered(handled, known)
         /\ pass' = [pass EXCEPT !.step = "reading", !.known = known,
                                 !.todo = VerifiedEntries(pass.copy)]
  /\ UNCHANGED <<networkVars, refused, reads>>

\* Entries are come to in the order of their heights, then of their keys.
Before(e, f) == e.height < f.height \/ (e.height = f.height /\ e.key < f.key)

ComesTo(e) ==
  /\ At("reading")
  /\ e \in pass.todo
  /\ \A f \in pass.todo \ {e} : Before(e, f)

Bug_OutsideWindow(e) == pass.known # NoFloor /\ e.height > pass.known + Window

\* A copy behind the signed floor may hold an entry that floor has passed.
OutsideWindow(e) == pass.known # NoFloor /\ ~InWindow(e.height, pass.known)

\* Refused unread: neither read nor removed.
RefusedUnread(e) == Delegated(e) /\ e \in refused

PassedBy(e) == OutsideWindow(e) \/ RefusedUnread(e)

ShareOf(e) == IF Delegated(e) THEN Share - OwnerReserve ELSE Share

HandledFor(g) == {e \in handled : e.ghostkey = g}

\* Past the budget, or its Ghost Key's share of it, a request waits for the floor.
BudgetSpent(e) ==
  \/ Cardinality(handled) >= Budget
  \/ Cardinality(HandledFor(e.ghostkey)) >= ShareOf(e)

SkipEntry(e) ==
  /\ ComesTo(e)
  /\ PassedBy(e)
  /\ pass' = [pass EXCEPT !.todo = @ \ {e}]
  /\ UNCHANGED <<networkVars, store, reads>>

DeferEntry(e) ==
  /\ ComesTo(e)
  /\ ~PassedBy(e) /\ e \notin handled /\ BudgetSpent(e)
  /\ pass' = [pass EXCEPT !.todo = @ \ {e}]
  /\ UNCHANGED <<networkVars, store, reads>>

Bug_FindAlreadyRead(e) ==
  /\ ComesTo(e)
  /\ ~PassedBy(e) /\ e \in handled
  /\ pass' = [pass EXCEPT !.todo = @ \ {e}]
  /\ UNCHANGED <<networkVars, store, reads>>

\* Its removal goes out again with the batch of its height, in case the last
\* one did not land.
FindAlreadyRead(e) ==
  /\ ComesTo(e)
  /\ ~PassedBy(e) /\ e \in handled
  /\ pass' = [pass EXCEPT !.todo = @ \ {e}, !.heights = @ \cup {e.height}]
  /\ UNCHANGED <<networkVars, store, reads>>

\* act and mark_handled, one transaction.  A request may make the bridge refuse
\* delegations of its Ghost Key from now on.
ReadEntry(e) ==
  /\ ComesTo(e)
  /\ ~PassedBy(e) /\ e \notin handled /\ ~BudgetSpent(e)
  /\ handled' = handled \cup {e}
  /\ reads' = [reads EXCEPT ![e] = @ + 1]
  /\ \E R \in SUBSET {f \in Entry : Delegated(f) /\ f.ghostkey = e.ghostkey} :
       refused' = refused \cup R
  /\ pass' = [pass EXCEPT !.todo = @ \ {e}, !.heights = @ \cup {e.height}]
  /\ UNCHANGED <<networkVars, signed>>

HandledAt(h) == {e \in handled : e.height = h}

\* One batch per height, naming every entry ever read at it.
BatchAt(h) ==
  [height |-> h, removed |-> {e.prefix : e \in HandledAt(h)}, valid |-> TRUE]

LagBehind(tip) == IF tip < Lag THEN 0 ELSE tip - Lag

\* The floor follows the tip down its lag, unless the tip could not be read or
\* the floor is held (told is FALSE then), and never falls.
TargetFloor(told, tip) ==
  IF told THEN AdoptedFloor(pass.known, LagBehind(tip)) ELSE pass.known

Bug_FloorToSend(target) == IF FloorAhead(target, signed) THEN target ELSE NoFloor

\* Sent while the copy's is behind it, however long ago it was signed.
FloorToSend(target) == IF FloorAhead(target, pass.copy.floor) THEN target ELSE NoFloor

\* What there is to send, and the floor recorded before it is sent.
SignDelta(told, tip) ==
  LET floor == FloorToSend(TargetFloor(told, tip))
  IN  /\ At("reading") /\ pass.todo = {}
      /\ signed' = AdoptedFloor(signed, floor)
      /\ pass' = [pass EXCEPT !.step = "sending",
                    !.delta = [floor |-> floor, entries |-> {},
                               removals |-> {BatchAt(h) : h \in pass.heights}]]
      /\ UNCHANGED <<networkVars, handled, refused, reads>>

\* The node applies the delta at once, or later, or the delta is lost.
SendDelta ==
  /\ At("sending") /\ ~IsEmptyDelta(pass.delta)
  /\ Receive(Home, pass.delta)
  /\ pass' = NoPass
  /\ UNCHANGED <<store, reads>>

SendLate ==
  /\ At("sending") /\ ~IsEmptyDelta(pass.delta)
  /\ Post(Home, pass.delta)
  /\ pass' = NoPass
  /\ UNCHANGED <<store, reads>>

NothingToSend ==
  /\ At("sending") /\ IsEmptyDelta(pass.delta)
  /\ pass' = NoPass
  /\ UNCHANGED <<networkVars, store, reads>>

\* The pass fails, or the process dies: each write it made stays.
Crash ==
  /\ pass # NoPass
  /\ pass' = NoPass
  /\ UNCHANGED <<networkVars, store, reads>>

-----------------------------------------------------------------------------

PassStep ==
  \/ OpenPass
  \/ \E e \in Entry : SkipEntry(e)
  \/ \E e \in Entry : DeferEntry(e)
  \/ \E e \in Entry : FindAlreadyRead(e)
  \/ \E e \in Entry : ReadEntry(e)
  \/ \E told \in BOOLEAN, tip \in Tips : SignDelta(told, tip)
  \/ SendDelta
  \/ NothingToSend

Next ==
  \/ NetworkNext /\ UNCHANGED bridgeVars
  \/ \E p \in Peer : GetCopy(p)
  \/ PassStep
  \/ SendLate
  \/ Crash

Spec == Init /\ [][Next]_vars

\* A pass that ends early, or whose delta is late or lost though it had
\* something to tell.  (A delta that changes nothing may as well be lost.)
Fault ==
  \/ (At("sending") => ApplyDelta(inbox[Home], pass.delta) # inbox[Home]) /\ Crash
  \/ SendLate
  \/ \E p \in Peer \ {Home} : GetCopy(p) /\ inbox[p] # inbox[Home]

\* The worker polls its node again and again and carries each pass to its end.
\* Passes fail, and copies are old, now and then: not for ever.
Fairness ==
  /\ WF_vars(GetCopy(Home))
  /\ WF_vars(PassStep)
  /\ <>[][~Fault]_vars

FairSpec == Spec /\ Fairness

-----------------------------------------------------------------------------
(* Properties *)

\* What the inbox promises its senders holds of the pass: read once, removed
\* only once read, a floor that only rises, whatever copy a pass works on and
\* wherever it dies.  Between signing a floor and pruning by it the bridge
\* still remembers entries the promise no longer needs.
Abstract == INSTANCE InboxReplicas
  WITH handled <- IF signed = NoFloor THEN handled ELSE Remembered(handled, signed),
       MaxFloor <- MaxTip

ImplementsReplicas == Abstract!Spec

\* A floor once signed reaches the inbox, though the delta that first carried
\* it was lost or the pass died: every later pass sends it until the copy shows
\* it (bridge/src/inbox.rs:657-668).
FloorsLand ==
  \A h \in {LagBehind(t) : t \in Tips} :
    signed = h ~> inbox[Home].floor # NoFloor /\ h <= inbox[Home].floor

\* A request waiting at home does not wait there for ever while the budget has
\* room for it and its delegation is not refused: whichever deltas are lost, it
\* is read and removed, displaced, or passed by the floor.
RequestsAnswered ==
  \A e \in Entry :
    e \in inbox[Home].entries
      ~> e \notin inbox[Home].entries \/ RefusedUnread(e) \/ (e \notin handled /\ BudgetSpent(e))
=============================================================================
