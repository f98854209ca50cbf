---------------------------- MODULE InboxReplicas ----------------------------
(***************************************************************************)
(* An inbox, and the bridge as its senders see it: what the bridge may do  *)
(* with an inbox, not how bridge/src/inbox.rs goes about it (InboxBridge   *)
(* does, and implements this).  The bridge opens requests, names those it  *)
(* has opened in removals, and raises a floor; it forgets what it has      *)
(* opened once the floor it has signed passes it.                          *)
(***************************************************************************)
EXTENDS InboxNetwork

CONSTANTS
  Home,          \* the peer the bridge's node is
  MaxFloor       \* bound: the highest floor the bridge signs

ASSUME PeerAssumption ==
  /\ Home \in Peer
  /\ Link \subseteq Peer \X Peer
  /\ MaxFloor \in Nat /\ MaxInFlight \in Nat

VARIABLES
  signed,    \* the highest floor the bridge has signed
  handled,   \* entries the bridge has opened, and not yet forgotten
  reads      \* history: how often the bridge has opened each entry

bridgeVars == <<signed, handled, reads>>
vars == <<inbox, net, signed, handled, reads>>

Init ==
  /\ NetworkInit
  /\ signed = NoFloor
  /\ handled = {}
  /\ reads = [e \in Entry |-> 0]

-----------------------------------------------------------------------------
(* The bridge *)

Bug_Remembered(E, floor) == {e \in E : floor < e.height}

\* What prune_handled_below leaves.
Remembered(E, floor) == {e \in E : floor <= e.height}

\* The bridge signs a floor and records it before anyone is told of it.
SignFloor(h) ==
  /\ (signed # NoFloor => h > signed)
  /\ signed' = h
  /\ handled' = Remembered(handled, h)
  /\ UNCHANGED <<networkVars, reads>>

\* It opens no entry the floor it signed has passed, nor one above the window.
\* The copy it reads may be old: the entry need not be waiting any more.
Readable(e) ==
  /\ e.valid
  /\ e \notin handled
  /\ InWindow(e.height, signed)

\* Acting on a request and recording that it was read are one transaction.
Read(e) ==
  /\ Readable(e)
  /\ handled' = handled \cup {e}
  /\ reads' = [reads EXCEPT ![e] = @ + 1]
  /\ UNCHANGED <<networkVars, signed>>

Opened == {e \in Entry : reads[e] > 0}

Bug_Receipt(h) == [height |-> h, removed |-> {e.prefix : e \in Opened}, valid |-> TRUE]

\* One batch per height, naming every entry of that height ever opened.
Receipt(h) ==
  [height |-> h, removed |-> {e.prefix : e \in {f \in Opened : f.height = h}},
   valid |-> TRUE]

BridgeDelta(f, H) == [floor |-> f, entries |-> {}, removals |-> {Receipt(h) : h \in H}]

BridgeDeltas ==
  {BridgeDelta(f, H) : f \in {NoFloor, signed}, H \in SUBSET {e.height : e \in Opened}}

\* The bridge writes to its node, which applies the delta at once or later.
Publish(d) == signed # NoFloor /\ Receive(Home, d) /\ UNCHANGED bridgeVars

PublishLate(d) == signed # NoFloor /\ Post(Home, d) /\ UNCHANGED bridgeVars

-----------------------------------------------------------------------------

Next ==
  \/ NetworkNext /\ UNCHANGED bridgeVars
  \/ \E h \in 0..MaxFloor : SignFloor(h)
  \/ \E e \in Entry : Read(e)
  \/ \E d \in BridgeDeltas : Publish(d)
  \/ \E d \in BridgeDeltas : PublishLate(d)

Spec == Init /\ [][Next]_vars

-----------------------------------------------------------------------------
(* Properties *)

TypeOK ==
  /\ NetworkTypeOK
  /\ signed \in Floor
  /\ handled \subseteq Entry
  /\ reads \in [Entry -> Nat]

\* The bridge opens no request twice, though it forgets what it has read once
\* its floor passes, and copies of the request are still travelling.
ReadAtMostOnce == \A e \in Entry : reads[e] <= 1

\* A removal tells a sender its request was read, so no peer ever shows one
\* for a request the bridge has not opened.
OnlyReadIsRemoved ==
  \A p \in Peer, e \in Entry : IsRemoved(inbox[p].removals, e) => reads[e] > 0
=============================================================================
