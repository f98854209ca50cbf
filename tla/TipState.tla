------------------------------ MODULE TipState ------------------------------
(***************************************************************************)
(* The state of a tip contract and how it merges: common/src/tip_state.rs. *)
(* No variables.  One signed summary for each of the latest blocks; what   *)
(* is in a summary besides its place on the chain is abstracted into       *)
(* "digest", which tells two summaries of one block apart.                 *)
(*                                                                         *)
(* A definition named Bug_... is no part of the model: it is a mistake     *)
(* that one property must catch if the definition after it makes it.       *)
(***************************************************************************)
EXTENDS Naturals, FiniteSets

CONSTANTS
  TipRetain,    \* TIP_RETAIN
  BucketOf(_)   \* the summary bucket of an entry's digest

TipAssumption == TipRetain \in Nat \ {0}

\* TipEntryBody, signed.  Hashes and digests are numbers: both are compared.
EntryShape == [height : Nat, hash : Nat, digest : Nat, valid : BOOLEAN]

\* BlockSummariesV1 is a map from heights: no two entries share one.
OnePerHeight(S) == \A e, f \in S : e.height = f.height => e = f

State == {S \in SUBSET EntryShape : OnePerHeight(S)}

-----------------------------------------------------------------------------
\* Of two entries for one height, every replica keeps the same one.
Replaces(e, f) == e.hash > f.hash \/ (e.hash = f.hash /\ e.digest > f.digest)

BestPerHeight(S) == {e \in S : \A f \in S : f.height = e.height => ~Replaces(f, e)}

\* The highest TipRetain heights stay.
Prune(S) == {e \in S : Cardinality({f \in S : f.height > e.height}) < TipRetain}

Bug_ApplyDelta(S, D) ==
  IF \E e \in D : ~e.valid THEN S
  ELSE Prune(S \cup {e \in BestPerHeight(D) : \A f \in S : f.height # e.height})

\* apply_delta, whole or not at all.  A delta is a set of entries.
ApplyDelta(S, D) ==
  IF \E e \in D : ~e.valid THEN S ELSE Prune(BestPerHeight(S \cup D))

DigestOf(S, e) == {f \in S : BucketOf(f) = BucketOf(e)}

\* A summary has a digest of the entries, how many there are, and the lowest.
Summarize(S) == S

Bug_BelowHorizon(e, old) == \A f \in old : e.height < f.height

\* A peer that is full has pruned what is below its lowest block.
BelowHorizon(e, old) == Cardinality(old) >= TipRetain /\ \A f \in old : e.height < f.height

\* What a peer with summary old is missing, whole buckets at a time.
Delta(S, old) ==
  {e \in S : DigestOf(S, e) # DigestOf(old, e) /\ ~BelowHorizon(e, old)}

\* What every state a peer accepts satisfies.
Verify(S) == Cardinality(S) <= TipRetain /\ \A e \in S : e.valid
=============================================================================
