----------------------------- MODULE ClaimPeers -----------------------------
(***************************************************************************)
(* The replicas of one address contract on the peers of the network.       *)
(* Bridges publish claims and watermarks to some peer; peers tell each     *)
(* other what they are missing.  Anything a bridge ever signed may reach a *)
(* peer at any time, again, or never: publishing stands for late and       *)
(* repeated deliveries too.                                                *)
(***************************************************************************)
EXTENDS ClaimSet

CONSTANTS
  Peer,          \* the peers that host the contract
  Claim,         \* the claims bridges sign, of ClaimShape
  Mark,          \* the watermarks they sign: pairs of a bridge and an anchor
  MaxPublished   \* bound: claims published at once

VARIABLE held    \* held[p]: the state peer p holds

\* A digest is a claim's key, and bytes have a length.
ASSUME ClaimAssumption ==
  /\ Claim \subseteq ClaimShape
  /\ Mark \subseteq Bridge \X Anchor
  /\ \A c \in Claim : KeyOf(c) \in Nat /\ CostOf(c) \in Nat
  /\ \A c, d \in Claim : KeyOf(c) = KeyOf(d) => c = d

Init == held = [p \in Peer |-> EmptyState]

Receive(p, d) == held' = [held EXCEPT ![p] = ApplyDelta(held[p], d)]

\* A bridge's update: what one round found for the script, with a watermark.
Batch(C, M) ==
  [claims  |-> C,
   scanned |-> [b \in Bridge |-> IF \E m \in M : m[1] = b
                                 THEN (CHOOSE m \in M : m[1] = b)[2] ELSE NoWatermark]]

Publish(p, C, M) == Receive(p, Batch(C, M))

\* p hears what q thinks it is missing.
Answer(p, q) == Delta(held[q], Summarize(held[p]))

Sync(p, q) == Receive(p, Answer(p, q))

Batches == {C \in SUBSET Claim : IsFiniteSet(C) /\ Cardinality(C) <= MaxPublished}

Next ==
  \/ \E p \in Peer, C \in Batches, M \in SUBSET Mark :
       Cardinality(M) <= 1 /\ Publish(p, C, M)
  \/ \E p, q \in Peer : Sync(p, q)

Spec == Init /\ [][Next]_held

\* Peers keep talking, and in the end bridges have nothing new to say: while
\* they repeat a claim that does not fit, it may displace others for ever.
PeersTalk ==
  /\ \A p, q \in Peer : WF_held(Sync(p, q))
  /\ <>[][\E p, q \in Peer : Sync(p, q)]_held

-----------------------------------------------------------------------------
(* Properties *)

\* Whatever a peer is sent, it holds a state the contract's verify accepts,
\* although apply_delta never calls it (address_state.rs:300-339).
EveryStateVerifies == \A p \in Peer : Verify(held[p])

\* The claim an output folds to stays or gives way to one that outranks it, or
\* to another of its height when the caps dropped it.
ReadsNoOlder(p, o) ==
  LET before == About(held[p].claims, o)
      after  == About(held'[p].claims, o)
  IN  before # {} /\ after # {} =>
        \/ ~Outranks(Winner(before), Winner(after))
        \/ /\ Winner(before) \notin after
           /\ Winner(before).as_of.height = Winner(after).as_of.height

\* What a reader is told about an output never goes back to an older claim
\* than one the peer has held, though claims arrive in any order and the caps
\* drop some, unless the output is forgotten altogether: of claims of one height
\* the caps drop any, and of older ones before newer (address_state.rs:157-191).
NeverStepsBack == [][\A p \in Peer, o \in Outpoint : ReadsNoOlder(p, o)]_held

\* A payment is read as confirmed only if every retraction of it the peer holds
\* is of an earlier chain position (lib.rs:724-738).
NoPaymentOverRetraction ==
  \A p \in Peer : \A c \in held[p].claims :
    LET winner == Winner(About(held[p].claims, c.outpoint))
    IN  c.kind = "Retracted" /\ winner.kind = "Confirmed"
        => c.as_of.height < winner.as_of.height

\* Two states that tell a reader the same: of a watermark it takes the height
\* (scanned_to, address_state.rs:202).
TellSame(s, t) ==
  /\ s.claims = t.claims
  /\ \A b \in Bridge : s.scanned[b].height = t.scanned[b].height

\* Two peers that answer each other's summaries at one moment tell their readers
\* the same afterwards, whatever each heard first and whatever the caps made it
\* drop (address_state.rs:157-165, delta): so none differ while their answers
\* change nothing.
AnswersAgree ==
  \A p, q \in Peer :
    TellSame(ApplyDelta(held[p], Answer(p, q)), ApplyDelta(held[q], Answer(q, p)))

\* Once bridges have nothing new to say, peers that keep talking come to tell
\* their readers the same, though the caps made them drop different claims
\* before (address_state.rs:157-165), and though they may have kept different
\* watermarks of one height, which no summary tells apart
\* (address_state.rs:113-128).
PeersSettle == <>[](\A p, q \in Peer : TellSame(held[p], held[q]))
=============================================================================
