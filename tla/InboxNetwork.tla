---------------------------- MODULE InboxNetwork ----------------------------
(***************************************************************************)
(* The replicas of one inbox on the peers of the network, and the senders  *)
(* that submit requests.  Every peer runs the inbox contract (InboxState). *)
(* Peers tell neighbours what they are missing by summary and delta; a     *)
(* delta travels, so it may arrive late, twice or never.                   *)
(***************************************************************************)
EXTENDS InboxState

CONSTANTS
  Peer,          \* the peers that host the inbox
  Link,          \* <<p, q>>: p hears from q
  MaxInFlight    \* bound: deltas travelling at once

VARIABLES
  inbox,     \* inbox[p]: the state peer p holds
  net        \* deltas travelling, each to one peer

networkVars == <<inbox, net>>

Message == [to : Peer, delta : State]

NetworkInit ==
  /\ inbox = [p \in Peer |-> EmptyState]
  /\ net = {}

Receive(p, d) == inbox' = [inbox EXCEPT ![p] = ApplyDelta(inbox[p], d)] /\ UNCHANGED net

Post(p, d) ==
  /\ Cardinality(net) < MaxInFlight
  /\ net' = net \cup {[to |-> p, delta |-> d]}
  /\ UNCHANGED inbox

\* A sender hands a peer its entry, with a floor it read from some peer's copy.
Submit(p, q, e) == Receive(p, Submission(inbox[q].floor, e))

\* What p's neighbour q answers to p's summary.
Answer(p, q) == Delta(inbox[q], Summarize(inbox[p]))

\* p hears from its neighbour q at once.
Sync(p, q) == <<p, q>> \in Link /\ Receive(p, Answer(p, q))

\* Or q's answer is put on the wire.  A peer with nothing to say says nothing.
Send(p, q) ==
  /\ <<p, q>> \in Link
  /\ ~IsEmptyDelta(Answer(p, q))
  /\ Post(p, Answer(p, q))

\* A delta arrives, and may arrive again.
Arrive(m) == m \in net /\ Receive(m.to, m.delta)

Lose(m) ==
  /\ m \in net
  /\ net' = net \ {m}
  /\ UNCHANGED inbox

NetworkNext ==
  \/ \E p, q \in Peer, e \in Entry : Submit(p, q, e)
  \/ \E p, q \in Peer : Sync(p, q)
  \/ \E p, q \in Peer : Send(p, q)
  \/ \E m \in net : Arrive(m)
  \/ \E m \in net : Lose(m)

-----------------------------------------------------------------------------
(* Properties *)

NetworkTypeOK ==
  /\ inbox \in [Peer -> State]
  /\ net \subseteq Message

\* Whatever deltas a peer is sent, in whatever order, late or twice, the state
\* it ends with is one the contract's own verify accepts (state.rs:239-375),
\* though apply_delta never calls verify.
EveryStateVerifies == \A p \in Peer : Verify(inbox[p])

\* Two peers that hand each other the states they hold hold one state
\* afterwards, above the caps too (lib.rs:94-98).
MergeCommutes(p, q) == Merge(inbox[p], inbox[q]) = Merge(inbox[q], inbox[p])

\* If two peers differ, the summary of one makes the other send it something.
NoSilentDifference(p, q) ==
  inbox[p] # inbox[q] => ~IsEmptyDelta(Answer(p, q)) \/ ~IsEmptyDelta(Answer(q, p))

\* Peers can always come to agree, whatever each heard first and whatever the
\* caps made it drop: they never differ in silence, and what they tell each
\* other leaves both with one state (state.rs:377-500, 724-778).
PeersAgree == \A p, q \in Peer : MergeCommutes(p, q) /\ NoSilentDifference(p, q)

\* One message after the other: p hears what q holds, then q hears what p holds
\* now, and both hold the same (lib.rs:94-98).
ExchangeAgrees ==
  \A p, q \in Peer :
    LET heard == Merge(inbox[p], inbox[q])
    IN  Merge(inbox[q], heard) = heard

\* An entry a peer has seen removed, or passed by the floor.
Gone(s, e) ==
  \/ IsRemoved(s.removals, e)
  \/ s.floor # NoFloor /\ e.height < s.floor

\* What a peer has once seen removed or passed never waits there again,
\* whatever arrives: the removal lasts until the floor takes its place.
NothingReturns ==
  [][\A p \in Peer, e \in Entry :
       Gone(inbox[p], e) => Gone(inbox'[p], e) /\ e \notin inbox'[p].entries]_inbox
=============================================================================
