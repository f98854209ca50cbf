------------------------------ MODULE TipPeers ------------------------------
(***************************************************************************)
(* The replicas of one tip contract on the peers of the network.  Bridges  *)
(* publish the blocks each round scanned; an entry may reach a peer late,  *)
(* again, or never.                                                        *)
(***************************************************************************)
EXTENDS TipState

CONSTANTS
  Peer,          \* the peers that host the contract
  Entry,         \* the entries bridges sign, of EntryShape
  MaxPublished   \* bound: entries published at once

VARIABLES
  held,    \* held[p]: the state peer p holds
  heard    \* heard[p]: every entry peer p was ever sent and did not refuse

vars == <<held, heard>>

\* What an instance is to satisfy; it is instantiated beside ClaimPeers.
EntryAssumption ==
  /\ TipAssumption
  /\ Entry \subseteq EntryShape
  /\ \A e, f \in Entry : e.digest = f.digest => e = f

Init ==
  /\ held = [p \in Peer |-> {}]
  /\ heard = [p \in Peer |-> {}]

Receive(p, D) ==
  /\ held' = [held EXCEPT ![p] = ApplyDelta(held[p], D)]
  /\ heard' = [heard EXCEPT ![p] = IF \A e \in D : e.valid THEN @ \cup D ELSE @]

\* publish_tip: an entry for every block the round scanned.
Publish(p, D) == IsFiniteSet(D) /\ Cardinality(D) <= MaxPublished /\ Receive(p, D)

Answer(p, q) == Delta(held[q], Summarize(held[p]))

Sync(p, q) == Receive(p, Answer(p, q))

Next ==
  \/ \E p \in Peer, D \in SUBSET Entry : Publish(p, D)
  \/ \E p, q \in Peer : Sync(p, q)

Spec == Init /\ [][Next]_vars

\* Peers keep talking.  Bridges need not.
PeersTalk == \A p, q \in Peer : WF_vars(Sync(p, q))

-----------------------------------------------------------------------------
(* Properties *)

\* What a peer holds depends on what it heard, not on the order, on repetition,
\* or on what it pruned meanwhile: a block pruned once does not come back, and
\* two peers that heard the same hold the same (tip_state.rs:192-211).  The
\* contract's verify accepts it, although apply_delta never calls it.
HeldIsWhatWasHeard ==
  \A p \in Peer : held[p] = Prune(BestPerHeight(heard[p])) /\ Verify(held[p])

\* Two peers that answer each other's summaries at one moment hold one state
\* afterwards, though a full one is not offered blocks below its lowest
\* (tip_state.rs:145-181): so none differ while their answers change nothing.
AnswersAgree ==
  \A p, q \in Peer :
    ApplyDelta(held[p], Answer(p, q)) = ApplyDelta(held[q], Answer(q, p))

\* Peers that keep talking come to hold one state, whatever bridges repeat,
\* although a full peer is not offered blocks below its lowest and a summary
\* names no heights (tip_state.rs:145-181).
PeersSettle == <>[](\A p, q \in Peer : held[p] = held[q])
=============================================================================
