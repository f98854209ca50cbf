------------------------------- MODULE Claims -------------------------------
(***************************************************************************)
(* What bridges assert about the payments to one script, and what a reader *)
(* concludes from a set of assertions: the claims and the fold of          *)
(* common/src/lib.rs.  No variables.                                       *)
(*                                                                         *)
(* Abstracted: the script and the network a claim names (a contract holds  *)
(* one script's claims), signatures, and the SPV proof, of which "proof"   *)
(* keeps only that two proofs of one payment can differ.                   *)
(*                                                                         *)
(* A definition named Bug_... is no part of the model: it is a mistake     *)
(* that one property must catch if the definition after it makes it.       *)
(***************************************************************************)
EXTENDS Integers, FiniteSets

CONSTANTS
  Bridge,     \* the bridges that sign
  Outpoint    \* the outputs that pay the script

\* BlockAnchor: a place on a chain.  A hash is a number: hashes are compared.
Anchor == [height : Nat, hash : Nat]

NoAnchor == [height |-> 0, hash |-> 0]

\* A signed ClaimBody about one outpoint.  Only a confirmation has an anchor
\* and a proof, and a retraction has no amount.
ClaimShape ==
  [bridge : Bridge, kind : {"Retracted", "Mempool", "Confirmed"}, outpoint : Outpoint,
   sats : Nat, anchor : Anchor, as_of : Anchor, proof : Nat]

RetractedClaim(b, o, as_of) ==
  [bridge |-> b, kind |-> "Retracted", outpoint |-> o, sats |-> 0,
   anchor |-> NoAnchor, as_of |-> as_of, proof |-> 0]

MempoolClaim(b, o, sats, as_of) ==
  [bridge |-> b, kind |-> "Mempool", outpoint |-> o, sats |-> sats,
   anchor |-> NoAnchor, as_of |-> as_of, proof |-> 0]

ConfirmedClaim(b, o, sats, anchor, as_of, proof) ==
  [bridge |-> b, kind |-> "Confirmed", outpoint |-> o, sats |-> sats,
   anchor |-> anchor, as_of |-> as_of, proof |-> proof]

About(C, o) == {c \in C : c.outpoint = o}

-----------------------------------------------------------------------------
(* The fold *)

Bug_ConcessionRank(c) ==
  CASE c.kind = "Confirmed" -> 3 [] c.kind = "Mempool" -> 2 [] c.kind = "Retracted" -> 1

\* How little a claim grants a payee: the most conservative ranks highest.
ConcessionRank(c) ==
  CASE c.kind = "Retracted" -> 3 [] c.kind = "Mempool" -> 2 [] c.kind = "Confirmed" -> 1

(***************************************************************************)
(* claim_precedence.  The later chain position wins, then the more         *)
(* conservative kind, then the smaller amount, then the shallower block.   *)
(* What is left is decided by the encoded bytes, where as_of's hash comes  *)
(* first, then the anchor's, then the proof.                               *)
(***************************************************************************)
Precedence(c) ==
  <<c.as_of.height, ConcessionRank(c), 0 - c.sats, c.anchor.height,
    c.as_of.hash, c.anchor.hash, c.proof>>

Outranks(c, d) ==
  LET p == Precedence(c)
      q == Precedence(d)
  IN  \E i \in 1..7 : p[i] > q[i] /\ \A j \in 1..(i - 1) : p[j] = q[j]

\* The claim a non-empty set of claims about one outpoint folds to.
Winner(C) == CHOOSE c \in C : \A d \in C : ~Outranks(d, c)

Unknown == [kind |-> "Unknown"]

\* attested_depth: how deep the bridge itself said the block was.
AttestedDepth(c) ==
  IF c.as_of.height < c.anchor.height THEN 0 ELSE c.as_of.height - c.anchor.height + 1

\* fold_outpoint_status, OutpointStatus: what C says of an outpoint now.
Status(C, o) ==
  IF About(C, o) = {} THEN Unknown
  ELSE LET c == Winner(About(C, o))
       IN  CASE c.kind = "Retracted" -> [kind |-> "Retracted"]
             [] c.kind = "Mempool"   -> [kind |-> "Unconfirmed", sats |-> c.sats]
             [] c.kind = "Confirmed" -> [kind |-> "Confirmed", sats |-> c.sats,
                                         anchor |-> c.anchor, attested |-> AttestedDepth(c)]

Confirmations(anchor, tip) == IF tip < anchor.height THEN 0 ELSE tip - anchor.height + 1

\* Confirmations a verifier may act on, against a tip it holds.
ConfirmationsAt(status, tip) ==
  IF status.kind = "Confirmed"
  THEN LET seen == Confirmations(status.anchor, tip)
       IN  IF seen < status.attested THEN seen ELSE status.attested
  ELSE 0
=============================================================================
