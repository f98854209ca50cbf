------------------------------ MODULE ClaimSet ------------------------------
(***************************************************************************)
(* The state of one address contract and how it merges:                    *)
(* common/src/address_state.rs.  No variables.  A set of claims, which     *)
(* only grows until it reaches its caps, and one watermark per bridge.     *)
(***************************************************************************)
EXTENDS Claims

CONSTANTS
  Trusted,      \* the bridges the contract's parameters name
  NotScanned,   \* no watermark
  MaxClaims,    \* MAX_CLAIMS
  MaxBytes,     \* MAX_CLAIM_BYTES
  KeyOf(_),     \* a claim's digest, its key in the set
  CostOf(_),    \* its encoded size
  BucketOf(_)   \* the summary bucket of its digest

ASSUME ClaimSetAssumption ==
  /\ IsFiniteSet(Bridge) /\ Trusted \subseteq Bridge
  /\ NotScanned \notin Nat
  /\ MaxClaims \in Nat /\ MaxBytes \in Nat

(***************************************************************************)
(* ClaimSetV1.  scanned[b] is how far bridge b says it has scanned: a      *)
(* height and the hash there, or NotScanned at both.                       *)
(***************************************************************************)
Watermark == Anchor \cup {[height |-> NotScanned, hash |-> NotScanned]}

NoWatermark == [height |-> NotScanned, hash |-> NotScanned]

\* What bridges B say, as a state or as a delta: a ClaimSetDelta has the same
\* fields, and no honest one names a bridge twice in scanned.
SaidBy(B) ==
  [claims  : SUBSET {c \in ClaimShape : c.bridge \in B},
   scanned : {f \in [Bridge -> Watermark] : \A b \in Bridge \ B : f[b] = NoWatermark}]

State == SaidBy(Trusted)

EmptyState == [claims |-> {}, scanned |-> [b \in Bridge |-> NoWatermark]]

IsEmptyDelta(d) == d = EmptyState

-----------------------------------------------------------------------------
(* The caps *)

Bug_RanksAbove(c, d) ==
  \/ c.as_of.height < d.as_of.height
  \/ c.as_of.height = d.as_of.height /\ KeyOf(c) > KeyOf(d)

\* Claims are dropped from the end of this order.
RanksAbove(c, d) ==
  \/ c.as_of.height > d.as_of.height
  \/ c.as_of.height = d.as_of.height /\ KeyOf(c) > KeyOf(d)

Bytes(C) == Cardinality(UNION {{c} \X (1..CostOf(c)) : c \in C})

WithinCaps(C) == Cardinality(C) <= MaxClaims /\ Bytes(C) <= MaxBytes

Bug_EnforceCap(C) ==
  {c \in C : Cardinality({d \in C : RanksAbove(d, c)}) < MaxClaims}

\* The lowest claims go until the rest fit: the claims down to c fit, or c goes.
EnforceCap(C) == {c \in C : WithinCaps({d \in C : ~RanksAbove(c, d)})}

-----------------------------------------------------------------------------
(* Merging *)

\* A watermark replaces one that is lower: at the same height the held one stays.
Ahead(w, held) ==
  w.height # NotScanned /\ (held.height = NotScanned \/ w.height > held.height)

KeptWatermark(held, w) == IF Ahead(w, held) THEN w ELSE held

\* verify refuses a claim or a watermark of a bridge the contract does not trust.
Refused(d) ==
  \/ \E c \in d.claims : c.bridge \notin Trusted
  \/ \E b \in Bridge \ Trusted : d.scanned[b].height # NotScanned

\* apply_delta, whole or not at all.
ApplyDelta(s, d) ==
  IF Refused(d) THEN s
  ELSE [claims  |-> EnforceCap(s.claims \cup d.claims),
        scanned |-> [b \in Bridge |-> KeptWatermark(s.scanned[b], d.scanned[b])]]

-----------------------------------------------------------------------------
(* Synchronization by summary and delta *)

Bug_DigestOf(C, c) == Cardinality({d \in C : BucketOf(d) = BucketOf(c)})

\* A bucket's digest stands for the claims in it: no digests collide.
DigestOf(C, c) == {d \in C : BucketOf(d) = BucketOf(c)}

\* A summary has the digests, and of each watermark the height alone.
Summarize(s) ==
  [claims |-> s.claims, scanned |-> [b \in Bridge |-> s.scanned[b].height]]

\* What a peer with summary old is missing: whole buckets, and the watermarks
\* that are higher than its own.
Delta(s, old) ==
  [claims  |-> {c \in s.claims : DigestOf(s.claims, c) # DigestOf(old.claims, c)},
   scanned |-> [b \in Bridge |->
                  IF Ahead(s.scanned[b], [height |-> old.scanned[b]])
                  THEN s.scanned[b] ELSE NoWatermark]]

\* The scaffold's merge of a whole state: the delta against one's own summary.
Merge(s, t) == ApplyDelta(s, Delta(t, Summarize(s)))

-----------------------------------------------------------------------------
\* verify: what every state a peer accepts satisfies.
Verify(s) == WithinCaps(s.claims) /\ ~Refused(s)
=============================================================================
