---------------------------- MODULE PeersProofs ----------------------------
(***************************************************************************)
(* What the caps and the fold of an address contract promise a reader,     *)
(* what a peer of a tip contract holds, and what becomes of the evidence a *)
(* bridge signs, for any claims, entries and blocks, any caps and any      *)
(* order of delivery.                                                      *)
(*                                                                         *)
(* Caps and fold are orders on claims: the caps drop from the end of       *)
(* RanksAbove, which keeps everything above a claim that stays             *)
(* (KeptAbove), and the fold takes the first of Outranks.  They agree on   *)
(* the height and on nothing else, which is why a reader can be taken      *)
(* back, by the caps alone, from a claim to another of the same height and *)
(* no further.                                                             *)
(*                                                                         *)
(* The tip is one fact about sets, PruneEarly: what was pruned before an   *)
(* entry came makes no difference after.  Where a block was pruned there   *)
(* were TipRetain higher ones, and they or better ones of their heights    *)
(* are still there, so what it could have decided is pruned as well.       *)
(*                                                                         *)
(* Evidence is two arguments.  The branch of a leaf folds to the root      *)
(* because the bridge's loop and the verifier's stand, after d rounds, at  *)
(* the node over the leaf on level d (BranchLeadsToRoot).  And headers     *)
(* read one by one while the chain changes are linked only if all are of   *)
(* the last one's chain, since each names the one below (Descent).         *)
(***************************************************************************)
EXTENDS Peers, Evidence, FiniteSetTheorems, SequenceTheorems, TLAPS

(* Minimal sets *)

\* Of finite sets, not none, one is minimal.
LEMMA Minimal ==
  ASSUME NEW U, IsFiniteSet(U), NEW Family \in SUBSET SUBSET U, Family # {}
  PROVE  \E T \in Family : \A S \in Family : S \subseteq T => S = T
<1> DEFINE R == StrictSubsetOrdering(U)
<1>1. Family \subseteq FiniteSubsetsOf(U)
  BY FS_Subset DEF FiniteSubsetsOf
<1>2. PICK T \in Family : \A S \in Family : ~ (<<S, T>> \in R)
  <2>1. IsWellFoundedOn(R, FiniteSubsetsOf(U))
    BY FS_StrictSubsetOrderingWellFounded
  <2> HIDE DEF R
  <2> QED BY <1>1, <2>1, WFMin
<1>3. ASSUME NEW S \in Family, S \subseteq T, S # T PROVE FALSE
  <2>1. <<S, T>> \in (SUBSET U) \X (SUBSET U)
    OBVIOUS
  <2>2. <<S, T>> \in R
    BY <1>3, <2>1 DEF StrictSubsetOrdering
  <2> QED BY <1>2, <2>2
<1> QED BY <1>2, <1>3

-----------------------------------------------------------------------------

\* Finite sets of the claims bridges sign.
ClaimSets == {C \in SUBSET Claim : IsFiniteSet(C)}

\* What a peer may hold or be sent.
Message == [claims : ClaimSets, scanned : [Bridge -> Watermark]]

\* A claim's fields.
LEMMA Shape ==
  ASSUME NEW c \in Claim
  PROVE  /\ c.as_of.height \in Nat /\ c.as_of.hash \in Nat
         /\ c.anchor.height \in Nat /\ c.anchor.hash \in Nat
         /\ c.sats \in Nat /\ c.proof \in Nat
         /\ c.kind \in {"Retracted", "Mempool", "Confirmed"}
         /\ c.bridge \in Bridge /\ KeyOf(c) \in Nat /\ CostOf(c) \in Nat
BY ClaimAssumption DEF ClaimShape, Anchor

-----------------------------------------------------------------------------
(* The fold *)

\* Three kinds, three ranks.
LEMMA RankIsInt == ASSUME NEW c \in Claim PROVE ConcessionRank(c) \in 1..3
BY Shape DEF ConcessionRank

\* Outranks, place by place.
LEMMA Places ==
  ASSUME NEW c \in Claim, NEW d \in Claim
  PROVE  Outranks(c, d) <=>
           \/ c.as_of.height > d.as_of.height
           \/ /\ c.as_of.height = d.as_of.height
              /\ \/ ConcessionRank(c) > ConcessionRank(d)
                 \/ /\ ConcessionRank(c) = ConcessionRank(d)
                    /\ \/ 0 - c.sats > 0 - d.sats
                       \/ /\ 0 - c.sats = 0 - d.sats
                          /\ \/ c.anchor.height > d.anchor.height
                             \/ /\ c.anchor.height = d.anchor.height
                                /\ \/ c.as_of.hash > d.as_of.hash
                                   \/ /\ c.as_of.hash = d.as_of.hash
                                      /\ \/ c.anchor.hash > d.anchor.hash
                                         \/ /\ c.anchor.hash = d.anchor.hash
                                            /\ c.proof > d.proof
<1> DEFINE p == Precedence(c)
           q == Precedence(d)
           Here(i) == p[i] > q[i] /\ \A j \in 1..(i - 1) : p[j] = q[j]
<1>1. Outranks(c, d) <=> \E i \in 1..7 : Here(i)
  BY DEF Outranks
<1>2. (\E i \in 1..7 : Here(i)) <=>
        Here(1) \/ Here(2) \/ Here(3) \/ Here(4) \/ Here(5) \/ Here(6) \/ Here(7)
  <2>1. 1..7 = {1, 2, 3, 4, 5, 6, 7}
    OBVIOUS
  <2> HIDE DEF Here
  <2> QED BY <2>1
<1>3. /\ 1..(1-1) = {} /\ 1..(2-1) = {1} /\ 1..(3-1) = {1, 2} /\ 1..(4-1) = {1, 2, 3}
      /\ 1..(5-1) = {1, 2, 3, 4} /\ 1..(6-1) = {1, 2, 3, 4, 5}
      /\ 1..(7-1) = {1, 2, 3, 4, 5, 6}
  OBVIOUS
<1>4. /\ Here(1) <=> p[1] > q[1]
      /\ Here(2) <=> p[2] > q[2] /\ p[1] = q[1]
      /\ Here(3) <=> p[3] > q[3] /\ p[1] = q[1] /\ p[2] = q[2]
      /\ Here(4) <=> p[4] > q[4] /\ p[1] = q[1] /\ p[2] = q[2] /\ p[3] = q[3]
  <2> HIDE DEF p, q
  <2> QED BY <1>3
<1>5. /\ Here(5) <=> p[5] > q[5] /\ p[1] = q[1] /\ p[2] = q[2] /\ p[3] = q[3] /\ p[4] = q[4]
      /\ Here(6) <=> /\ p[6] > q[6] /\ p[1] = q[1] /\ p[2] = q[2] /\ p[3] = q[3]
                     /\ p[4] = q[4] /\ p[5] = q[5]
      /\ Here(7) <=> /\ p[7] > q[7] /\ p[1] = q[1] /\ p[2] = q[2] /\ p[3] = q[3]
                     /\ p[4] = q[4] /\ p[5] = q[5] /\ p[6] = q[6]
  <2> HIDE DEF p, q
  <2> QED BY <1>3
<1>6. /\ p[1] = c.as_of.height /\ p[2] = ConcessionRank(c) /\ p[3] = 0 - c.sats
      /\ p[4] = c.anchor.height /\ p[5] = c.as_of.hash /\ p[6] = c.anchor.hash
      /\ p[7] = c.proof
      /\ q[1] = d.as_of.height /\ q[2] = ConcessionRank(d) /\ q[3] = 0 - d.sats
      /\ q[4] = d.anchor.height /\ q[5] = d.as_of.hash /\ q[6] = d.anchor.hash
      /\ q[7] = d.proof
  BY DEF Precedence
<1> HIDE DEF p, q, Here
<1> QED BY <1>1, <1>2, <1>4, <1>5, <1>6

\* So Outranks is a strict order.
LEMMA Order ==
  ASSUME NEW c \in Claim, NEW d \in Claim, NEW e \in Claim
  PROVE  /\ ~Outranks(c, c)
         /\ Outranks(c, d) /\ Outranks(d, e) => Outranks(c, e)
<1>1. /\ c.as_of.height \in Int /\ d.as_of.height \in Int /\ e.as_of.height \in Int
      /\ c.as_of.hash \in Int /\ d.as_of.hash \in Int /\ e.as_of.hash \in Int
      /\ c.anchor.height \in Int /\ d.anchor.height \in Int /\ e.anchor.height \in Int
      /\ c.anchor.hash \in Int /\ d.anchor.hash \in Int /\ e.anchor.hash \in Int
      /\ 0 - c.sats \in Int /\ 0 - d.sats \in Int /\ 0 - e.sats \in Int
      /\ c.proof \in Int /\ d.proof \in Int /\ e.proof \in Int
      /\ ConcessionRank(c) \in Int /\ ConcessionRank(d) \in Int /\ ConcessionRank(e) \in Int
  BY Shape, RankIsInt
<1>2. ~Outranks(c, c)
  BY <1>1, Places
<1>3. Outranks(c, d) /\ Outranks(d, e) => Outranks(c, e)
  BY <1>1, Places
<1> QED BY <1>2, <1>3

\* A set of claims has one that none outranks.
LEMMA HasWinner ==
  ASSUME NEW C \in ClaimSets, C # {}
  PROVE  Winner(C) \in C /\ \A d \in C : ~Outranks(d, Winner(C))
<1> DEFINE Over(c) == {d \in C : Outranks(d, c)}
           Family == {Over(c) : c \in C}
<1>1. PICK T \in Family : \A S \in Family : S \subseteq T => S = T
  <2>1. Family \in SUBSET SUBSET C /\ Family # {}
    OBVIOUS
  <2> HIDE DEF Family
  <2> QED BY <2>1, Minimal DEF ClaimSets
<1>2. PICK c \in C : T = Over(c)
  OBVIOUS
<1>3. ASSUME NEW d \in Over(c) PROVE FALSE
  <2>1. d \in C /\ Outranks(d, c) /\ C \subseteq Claim
    BY DEF ClaimSets
  <2>2. Over(d) \subseteq Over(c) /\ d \notin Over(d)
    BY <2>1, Order
  <2> QED BY <1>1, <1>2, <1>3, <2>1, <2>2
<1>4. \E x \in C : \A d \in C : ~Outranks(d, x)
  BY <1>3
<1> QED BY <1>4 DEF Winner

-----------------------------------------------------------------------------
(* The caps *)

\* Fewer claims cost no more.
LEMMA FewerFit ==
  ASSUME NEW C \in ClaimSets, NEW D, D \subseteq C, WithinCaps(C)
  PROVE  WithinCaps(D)
<1> DEFINE Cells(c) == {c} \X (1..CostOf(c))
           f == [c \in C |-> Cells(c)]
           All(S) == UNION {Cells(c) : c \in S}
<1>1. /\ IsFiniteSet(C) /\ IsFiniteSet(D) /\ Cardinality(D) <= Cardinality(C)
      /\ Cardinality(C) \in Nat /\ Cardinality(D) \in Nat
  BY FS_Subset, FS_CardinalityType DEF ClaimSets
<1>2. ASSUME NEW c \in C PROVE IsFiniteSet(Cells(c))
  <2>1. CostOf(c) \in Int
    BY Shape DEF ClaimSets
  <2>2. IsFiniteSet(1..CostOf(c))
    BY <2>1, FS_Interval
  <2>3. IsFiniteSet({c})
    BY FS_Singleton
  <2> QED BY <2>2, <2>3, FS_Product
<1>3. IsFiniteSet({Cells(c) : c \in C})
  <2>1. f \in Surjection(C, {Cells(c) : c \in C})
    BY DEF Surjection
  <2> QED BY <1>1, <2>1, FS_Surjection
<1>4. IsFiniteSet(All(C))
  BY <1>2, <1>3, FS_UNION
<1>5. All(D) \subseteq All(C)
  OBVIOUS
<1>6. Bytes(C) = Cardinality(All(C)) /\ Bytes(D) = Cardinality(All(D))
  BY DEF Bytes
<1> HIDE DEF All, f, Cells
<1>7. /\ Cardinality(All(D)) <= Cardinality(All(C))
      /\ Cardinality(All(C)) \in Nat /\ Cardinality(All(D)) \in Nat
  BY <1>4, <1>5, FS_Subset, FS_CardinalityType
<1> QED BY <1>1, <1>6, <1>7, ClaimSetAssumption DEF WithinCaps

\* RanksAbove is a strict order.
LEMMA CapOrder ==
  ASSUME NEW c \in Claim, NEW d \in Claim, NEW e \in Claim
  PROVE  /\ ~RanksAbove(c, c)
         /\ RanksAbove(c, d) /\ RanksAbove(d, e) => RanksAbove(c, e)
         /\ RanksAbove(c, d) => ~RanksAbove(d, c)
BY Shape DEF RanksAbove

\* What ranks above a claim that stays, stays.
LEMMA KeptAbove ==
  ASSUME NEW C \in ClaimSets, NEW c \in EnforceCap(C), NEW d \in C, RanksAbove(d, c)
  PROVE  d \in EnforceCap(C)
<1>1. C \subseteq Claim /\ c \in C /\ IsFiniteSet(C)
  BY DEF ClaimSets, EnforceCap
<1>2. {e \in C : ~RanksAbove(d, e)} \subseteq {e \in C : ~RanksAbove(c, e)}
  BY <1>1, CapOrder
<1>3. {e \in C : ~RanksAbove(c, e)} \in ClaimSets
  BY <1>1, FS_Subset DEF ClaimSets
<1>4. WithinCaps({e \in C : ~RanksAbove(c, e)})
  BY DEF EnforceCap
<1>5. WithinCaps({e \in C : ~RanksAbove(d, e)})
  BY <1>2, <1>3, <1>4, FewerFit
<1> QED BY <1>5 DEF EnforceCap

\* What stays is within the caps.
LEMMA KeptFits ==
  ASSUME NEW C \in ClaimSets
  PROVE  EnforceCap(C) \in ClaimSets /\ EnforceCap(C) \subseteq C /\ WithinCaps(EnforceCap(C))
<1> DEFINE K == EnforceCap(C)
           Under(c) == {d \in K : RanksAbove(c, d)}
           Family == {Under(c) : c \in K}
<1>1. K \subseteq C /\ K \in ClaimSets /\ IsFiniteSet(K) /\ K \subseteq Claim
  BY FS_Subset DEF EnforceCap, ClaimSets
<1>2. CASE K = {}
  <2>1. Cardinality(K) = 0
    BY <1>2, FS_EmptySet
  <2>2. UNION {{c} \X (1..CostOf(c)) : c \in K} = {}
    BY <1>2
  <2>3. Bytes(K) = 0
    BY <2>2, FS_EmptySet DEF Bytes
  <2> HIDE DEF K
  <2>4. WithinCaps(K)
    BY <2>1, <2>3, ClaimSetAssumption DEF WithinCaps
  <2> QED BY <1>1, <2>4 DEF K
<1>3. CASE K # {}
  <2>1. PICK T \in Family : \A S \in Family : S \subseteq T => S = T
    <3>1. Family \in SUBSET SUBSET K /\ Family # {}
      BY <1>3
    <3> HIDE DEF Family, K
    <3> QED BY <1>1, <3>1, Minimal
  <2>2. PICK c \in K : T = Under(c)
    OBVIOUS
  <2>3. ASSUME NEW d \in K, RanksAbove(c, d) PROVE FALSE
    <3>1. Under(d) \subseteq Under(c) /\ d \in Under(c) /\ d \notin Under(d)
      BY <1>1, <2>3, CapOrder
    <3> QED BY <2>1, <2>2, <3>1
  <2>4. K \subseteq {d \in C : ~RanksAbove(c, d)}
    BY <1>1, <2>3
  <2>5. WithinCaps({d \in C : ~RanksAbove(c, d)})
    BY DEF EnforceCap
  <2>6. {d \in C : ~RanksAbove(c, d)} \in ClaimSets
    BY FS_Subset DEF ClaimSets
  <2>7. WithinCaps(K)
    BY <2>4, <2>5, <2>6, FewerFit
  <2> QED BY <1>1, <2>7
<1> QED BY <1>2, <1>3

-----------------------------------------------------------------------------
(* The invariant *)

\* Every peer holds a state that a peer accepts, of claims that were signed.
IInv ==
  /\ held \in [Peer -> Message]
  /\ EveryStateVerifies

\* The state a peer begins with.
LEMMA EmptyVerifies ==
  EmptyState \in Message /\ Verify(EmptyState)
<1>1. {} \in ClaimSets /\ Cardinality({}) = 0
  BY FS_EmptySet DEF ClaimSets
<1>2. Bytes({}) = 0
  <2>1. UNION {{c} \X (1..CostOf(c)) : c \in {}} = {}
    OBVIOUS
  <2> QED BY <1>1, <2>1 DEF Bytes
<1>3. WithinCaps({})
  BY <1>1, <1>2, ClaimSetAssumption DEF WithinCaps
<1>4. NoWatermark \in Watermark /\ NoWatermark.height = NotScanned
  BY DEF NoWatermark, Watermark
<1>5. ~Refused(EmptyState)
  BY <1>4 DEF Refused, EmptyState
<1> QED BY <1>1, <1>3, <1>4, <1>5 DEF EmptyState, Verify, Message

\* apply_delta, of anything that may be sent.
LEMMA ApplyVerifies ==
  ASSUME NEW s \in Message, Verify(s),
         NEW d \in Message
  PROVE  /\ ApplyDelta(s, d) \in Message
         /\ Verify(ApplyDelta(s, d))
<1>1. CASE Refused(d)
  BY <1>1 DEF ApplyDelta
<1>2. CASE ~Refused(d)
  <2> DEFINE C == s.claims \cup d.claims
             W == [b \in Bridge |-> KeptWatermark(s.scanned[b], d.scanned[b])]
  <2>1. ApplyDelta(s, d) = [claims |-> EnforceCap(C), scanned |-> W]
    BY <1>2 DEF ApplyDelta
  <2>2. C \in ClaimSets
    BY FS_Union DEF Message, ClaimSets
  <2>3. W \in [Bridge -> Watermark]
    BY DEF KeptWatermark, Message
  <2>4. \A c \in C : c.bridge \in Trusted
    BY <1>2 DEF Refused, Verify
  <2>5. \A b \in Bridge \ Trusted : W[b].height = NotScanned
    BY <1>2 DEF Refused, Verify, KeptWatermark
  <2> HIDE DEF C, W
  <2>6. EnforceCap(C) \in ClaimSets /\ EnforceCap(C) \subseteq C /\ WithinCaps(EnforceCap(C))
    BY <2>2, KeptFits
  <2> QED BY <2>1, <2>3, <2>4, <2>5, <2>6 DEF Verify, Refused, Message
<1> QED BY <1>1, <1>2

\* Each step is a peer's receiving something.
LEMMA StepReceives ==
  ASSUME IInv, Next
  PROVE  \E p \in Peer, d \in Message : Receive(p, d)
<1>1. ASSUME NEW p \in Peer, NEW C \in Batches, NEW M \in SUBSET Mark, Publish(p, C, M)
      PROVE  \E q \in Peer, d \in Message : Receive(q, d)
  <2>1. C \in ClaimSets
    BY DEF Batches, ClaimSets
  <2>2. \A b \in Bridge : Batch(C, M).scanned[b] \in Watermark
    <3> SUFFICES ASSUME NEW b \in Bridge PROVE Batch(C, M).scanned[b] \in Watermark
      OBVIOUS
    <3>1. CASE \E m \in M : m[1] = b
      <4>1. PICK m \in M : m = CHOOSE n \in M : n[1] = b
        BY <3>1
      <4>2. m[2] \in Anchor
        BY ClaimAssumption
      <4> QED BY <3>1, <4>1, <4>2 DEF Batch, Watermark
    <3>2. CASE ~\E m \in M : m[1] = b
      BY <3>2 DEF Batch, NoWatermark, Watermark
    <3> QED BY <3>1, <3>2
  <2>3. Batch(C, M) \in Message
    BY <2>1, <2>2 DEF Batch, Message
  <2> QED BY <1>1, <2>3 DEF Publish
<1>2. ASSUME NEW p \in Peer, NEW q \in Peer, Sync(p, q)
      PROVE  \E r \in Peer, d \in Message : Receive(r, d)
  <2>1. held[q].claims \in ClaimSets /\ held[q].scanned \in [Bridge -> Watermark]
    BY DEF IInv, Message
  <2>2. Answer(p, q).claims \subseteq held[q].claims
    BY DEF Answer, Delta
  <2>3. Answer(p, q).claims \in ClaimSets
    BY <2>1, <2>2, FS_Subset DEF ClaimSets
  <2>4. Answer(p, q).scanned \in [Bridge -> Watermark]
    BY <2>1 DEF Answer, Delta, NoWatermark, Watermark
  <2>5. Answer(p, q) = [claims |-> Answer(p, q).claims, scanned |-> Answer(p, q).scanned]
    BY DEF Answer, Delta
  <2> QED BY <1>2, <2>3, <2>4, <2>5 DEF Sync, Message
<1> QED BY <1>1, <1>2 DEF Next

\* The invariant holds at first.
LEMMA InitVerifies == Init => IInv
BY EmptyVerifies DEF Init, IInv, EveryStateVerifies

\* Every step keeps it.
LEMMA NextVerifies == IInv /\ [Next]_held => IInv'
<1> SUFFICES ASSUME IInv, [Next]_held PROVE IInv'
  OBVIOUS
<1>1. CASE Next
  <2>1. PICK p \in Peer, d \in Message : Receive(p, d)
    BY <1>1, StepReceives
  <2>2. held[p] \in Message /\ Verify(held[p])
    BY DEF IInv, EveryStateVerifies
  <2>3. /\ ApplyDelta(held[p], d) \in Message
        /\ Verify(ApplyDelta(held[p], d))
    BY <2>2, ApplyVerifies
  <2> QED BY <2>1, <2>3 DEF Receive, IInv, EveryStateVerifies
<1>2. CASE UNCHANGED held
  BY <1>2 DEF IInv, EveryStateVerifies
<1> QED BY <1>1, <1>2

-----------------------------------------------------------------------------
(* What a reader concludes *)

\* A retraction at the winner's height or above it wins over a confirmation.
LEMMA Concedes ==
  ASSUME NEW C \in ClaimSets, NEW c \in C, c.kind = "Retracted",
         Winner(About(C, c.outpoint)).kind = "Confirmed"
  PROVE  c.as_of.height < Winner(About(C, c.outpoint)).as_of.height
<1> DEFINE w == Winner(About(C, c.outpoint))
<1>1. About(C, c.outpoint) \in ClaimSets /\ c \in About(C, c.outpoint)
  BY FS_Subset DEF About, ClaimSets
<1>2. w \in About(C, c.outpoint) /\ ~Outranks(c, w)
  BY <1>1, HasWinner
<1>3. w \in Claim /\ c \in Claim
  BY <1>2 DEF About, ClaimSets
<1> HIDE DEF w
<1>4. ConcessionRank(c) = 3
  BY DEF ConcessionRank
<1>5. ConcessionRank(w) = 1
  BY DEF ConcessionRank, w
<1>6. c.as_of.height \in Nat /\ w.as_of.height \in Nat
  BY <1>3, Shape
<1>7. c.as_of.height < w.as_of.height
  BY <1>2, <1>3, <1>4, <1>5, <1>6, Places
<1> QED BY <1>7 DEF w

\* What the caps leave of an output's claims.
LEMMA CapsStepBack ==
  ASSUME NEW C \in ClaimSets, NEW o, NEW H \in ClaimSets, H \subseteq C,
         About(H, o) # {}, About(EnforceCap(C), o) # {}
  PROVE  LET before == Winner(About(H, o))
             after  == Winner(About(EnforceCap(C), o))
         IN  \/ ~Outranks(before, after)
             \/ /\ before \notin About(EnforceCap(C), o)
                /\ before.as_of.height = after.as_of.height
<1> DEFINE K == EnforceCap(C)
           w == Winner(About(H, o))
           v == Winner(About(K, o))
<1>1. K \in ClaimSets /\ K \subseteq C
  BY KeptFits
<1>2. About(H, o) \in ClaimSets /\ About(K, o) \in ClaimSets
  BY <1>1, FS_Subset DEF About, ClaimSets
<1> HIDE DEF K
<1>3. /\ w \in About(H, o) /\ v \in About(K, o)
      /\ \A d \in About(K, o) : ~Outranks(d, v)
  BY <1>2, HasWinner DEF K
<1>4. w \in Claim /\ v \in Claim /\ w \in C /\ w.outpoint = o /\ v \in K
  BY <1>1, <1>3 DEF About, ClaimSets
<1>5. w.as_of.height \in Nat /\ v.as_of.height \in Nat
  BY <1>4, Shape
<1> HIDE DEF w, v
<1>6. CASE w \in About(K, o)
  BY <1>3, <1>6 DEF w, v, K
<1>7. CASE w \notin About(K, o)
  <2>1. w \notin K
    BY <1>4, <1>7 DEF About
  <2>2. ~RanksAbove(w, v)
    BY <1>4, <2>1, KeptAbove DEF K
  <2>3. w.as_of.height <= v.as_of.height
    BY <1>5, <2>2 DEF RanksAbove
  <2>4. CASE w.as_of.height = v.as_of.height
    BY <1>7, <2>4 DEF w, v, K
  <2>5. CASE w.as_of.height < v.as_of.height
    <3>1. ~Outranks(w, v)
      BY <1>4, <1>5, <2>5, Places
    <3> QED BY <3>1 DEF w, v, K
  <2> QED BY <1>5, <2>3, <2>4, <2>5
<1> QED BY <1>6, <1>7

\* So no step takes a reader back by more than the caps.
LEMMA NextReadsNoOlder ==
  IInv /\ Next => \A p \in Peer, o \in Outpoint : ReadsNoOlder(p, o)
<1> SUFFICES ASSUME IInv, Next, NEW q \in Peer, NEW o \in Outpoint,
                    About(held[q].claims, o) # {}, About(held'[q].claims, o) # {}
             PROVE  ReadsNoOlder(q, o)
  BY DEF ReadsNoOlder
<1>1. PICK p \in Peer, d \in Message : Receive(p, d)
  BY StepReceives
<1>2. held[q] \in Message
  BY DEF IInv
<1>3. held[q].claims \in ClaimSets
  BY <1>2 DEF Message
<1>4. CASE held'[q] = held[q]
  <2>1. About(held[q].claims, o) \in ClaimSets
    BY <1>3, FS_Subset DEF About, ClaimSets
  <2>2. ~Outranks(Winner(About(held[q].claims, o)), Winner(About(held[q].claims, o)))
    BY <2>1, HasWinner
  <2> QED BY <1>4, <2>2 DEF ReadsNoOlder
<1>5. CASE held'[q] # held[q]
  <2>1. p = q /\ held'[q] = ApplyDelta(held[q], d) /\ ~Refused(d)
    BY <1>1, <1>5 DEF Receive, ApplyDelta, IInv
  <2> DEFINE C == held[q].claims \cup d.claims
  <2>2. held'[q].claims = EnforceCap(C)
    BY <2>1 DEF ApplyDelta
  <2>3. C \in ClaimSets
    BY <1>3, FS_Union DEF Message, ClaimSets
  <2>4. held[q].claims \subseteq C
    OBVIOUS
  <2> HIDE DEF C
  <2> QED BY <1>3, <2>2, <2>3, <2>4, CapsStepBack DEF ReadsNoOlder
<1> QED BY <1>4, <1>5

\* So at every peer.
LEMMA InvConcedes == IInv => NoPaymentOverRetraction
<1> SUFFICES ASSUME IInv, NEW p \in Peer, NEW c \in held[p].claims,
                    c.kind = "Retracted",
                    Winner(About(held[p].claims, c.outpoint)).kind = "Confirmed"
             PROVE  c.as_of.height < Winner(About(held[p].claims, c.outpoint)).as_of.height
  BY DEF NoPaymentOverRetraction
<1>1. held[p].claims \in ClaimSets
  BY DEF IInv, Message
<1> QED BY <1>1, Concedes

\* The invariant is one.
LEMMA Invariant == Spec => []IInv
BY InitVerifies, NextVerifies, PTL DEF Spec

\* Whatever a peer is sent, by bridges trusted or not and by other peers, it
\* holds a state within the caps and of trusted bridges only: one that verify
\* accepts, although apply_delta never calls it (address_state.rs).
THEOREM EveryStateStaysValid == Spec => []EveryStateVerifies
<1>1. IInv => EveryStateVerifies
  BY DEF IInv
<1> QED BY <1>1, Invariant, PTL

\* No reader takes for confirmed what a claim the peer holds retracts at the
\* same height or a later one (claim_precedence, fold_outpoint_status).
THEOREM RetractionsPrevail == Spec => []NoPaymentOverRetraction
BY InvConcedes, Invariant, PTL

\* No step of a peer takes a reader back to an older claim about an output;
\* the caps alone can take one back, to a claim of the same height
\* (enforce_cap, claim_precedence).
THEOREM ReadersNeverStepBack == Spec => NeverStepsBack
<1>1. IInv /\ [Next]_held => [\A p \in Peer, o \in Outpoint : ReadsNoOlder(p, o)]_held
  BY NextReadsNoOlder
<1> QED BY <1>1, Invariant, PTL DEF Spec, NeverStepsBack

-----------------------------------------------------------------------------
(* What peers that answer each other come to *)

\* Whole buckets that differ are all that a peer is missing.
LEMMA WholeBuckets ==
  ASSUME NEW C, NEW D
  PROVE  C \cup {d \in D : DigestOf(D, d) # DigestOf(C, d)} = C \cup D
<1>1. ASSUME NEW d \in D, DigestOf(D, d) = DigestOf(C, d)
      PROVE  d \in C
  <2>1. d \in DigestOf(D, d)
    BY DEF DigestOf
  <2>2. d \in DigestOf(C, d)
    BY <1>1, <2>1
  <2> QED BY <2>2 DEF DigestOf
<1> QED BY <1>1

\* Of two watermarks each peer ends with the higher.
LEMMA HigherMark ==
  ASSUME NEW v \in Watermark, NEW w \in Watermark
  PROVE  KeptWatermark(v, IF Ahead(w, [height |-> v.height]) THEN w ELSE NoWatermark).height
           = KeptWatermark(w, IF Ahead(v, [height |-> w.height]) THEN v ELSE NoWatermark).height
<1>1. /\ v.height \in Nat \cup {NotScanned} /\ w.height \in Nat \cup {NotScanned}
      /\ NotScanned \notin Nat
  BY ClaimSetAssumption DEF Watermark, Anchor
<1>2. NoWatermark.height = NotScanned
  BY DEF NoWatermark
<1>3. /\ [height |-> v.height].height = v.height
      /\ [height |-> w.height].height = w.height
  OBVIOUS
<1>4. CASE v.height = NotScanned \/ w.height = NotScanned
  BY <1>1, <1>2, <1>3, <1>4 DEF KeptWatermark, Ahead
<1>5. CASE v.height \in Nat /\ w.height \in Nat
  <2>1. v.height # NotScanned /\ w.height # NotScanned
    BY <1>1, <1>5
  <2>2. v.height > w.height \/ w.height > v.height \/ v.height = w.height
    BY <1>5
  <2>3. ~(v.height > w.height /\ w.height > v.height)
    BY <1>5
  <2>4. v.height = w.height => ~(v.height > w.height) /\ ~(w.height > v.height)
    BY <1>5
  <2> QED BY <1>2, <1>3, <2>1, <2>2, <2>3, <2>4 DEF KeptWatermark, Ahead
<1> QED BY <1>1, <1>4, <1>5

\* What a peer holds after another's answer.
LEMMA Answered ==
  ASSUME IInv, NEW p \in Peer, NEW q \in Peer
  PROVE  /\ ApplyDelta(held[p], Answer(p, q)).claims
              = EnforceCap(held[p].claims \cup held[q].claims)
         /\ \A b \in Bridge :
              ApplyDelta(held[p], Answer(p, q)).scanned[b]
                = KeptWatermark(held[p].scanned[b],
                                IF Ahead(held[q].scanned[b],
                                         [height |-> held[p].scanned[b].height])
                                THEN held[q].scanned[b] ELSE NoWatermark)
<1> DEFINE d == Answer(p, q)
           C == held[p].claims
           D == held[q].claims
<1>1. /\ d.claims = {c \in D : DigestOf(D, c) # DigestOf(C, c)}
      /\ \A b \in Bridge :
           d.scanned[b] = IF Ahead(held[q].scanned[b], [height |-> held[p].scanned[b].height])
                          THEN held[q].scanned[b] ELSE NoWatermark
  BY DEF Answer, Delta, Summarize
<1>2. ~Refused(held[q]) /\ NoWatermark.height = NotScanned
  BY DEF IInv, EveryStateVerifies, Verify, NoWatermark
<1> HIDE DEF d
<1>3. ~Refused(d)
  BY <1>1, <1>2 DEF Refused
<1>4. ApplyDelta(held[p], d) =
        [claims  |-> EnforceCap(C \cup d.claims),
         scanned |-> [b \in Bridge |-> KeptWatermark(held[p].scanned[b], d.scanned[b])]]
  BY <1>3 DEF ApplyDelta
<1>5. C \cup d.claims = C \cup D
  BY <1>1, WholeBuckets
<1> QED BY <1>1, <1>4, <1>5 DEF d

\* Peers that answer each other's summaries tell their readers the same, whatever
\* each heard first and dropped (apply_delta, enforce_cap, delta).
THEOREM ClaimAnswersAgree == Spec => []AnswersAgree
<1>1. ASSUME IInv, NEW p \in Peer, NEW q \in Peer
      PROVE  TellSame(ApplyDelta(held[p], Answer(p, q)), ApplyDelta(held[q], Answer(q, p)))
  <2>1. held[p].claims \cup held[q].claims = held[q].claims \cup held[p].claims
    OBVIOUS
  <2>2. \A b \in Bridge : held[p].scanned[b] \in Watermark /\ held[q].scanned[b] \in Watermark
    BY <1>1 DEF IInv, Message
  <2> DEFINE S == ApplyDelta(held[p], Answer(p, q))
             T == ApplyDelta(held[q], Answer(q, p))
  <2>3. /\ S.claims = EnforceCap(held[p].claims \cup held[q].claims)
        /\ T.claims = EnforceCap(held[q].claims \cup held[p].claims)
    BY <1>1, Answered
  <2>4. ASSUME NEW b \in Bridge PROVE S.scanned[b].height = T.scanned[b].height
    <3> DEFINE v == held[p].scanned[b]
               w == held[q].scanned[b]
    <3>1. S.scanned[b] =
            KeptWatermark(v, IF Ahead(w, [height |-> v.height]) THEN w ELSE NoWatermark)
      BY <1>1, Answered
    <3>2. T.scanned[b] =
            KeptWatermark(w, IF Ahead(v, [height |-> w.height]) THEN v ELSE NoWatermark)
      BY <1>1, Answered
    <3>3. v \in Watermark /\ w \in Watermark
      BY <2>2
    <3> HIDE DEF S, T, v, w
    <3> QED BY <3>1, <3>2, <3>3, HigherMark
  <2> HIDE DEF S, T
  <2>5. S.claims = T.claims
    BY <2>1, <2>3
  <2>6. TellSame(S, T)
    BY <2>4, <2>5 DEF TellSame
  <2> QED BY <2>6 DEF S, T
<1>2. IInv => AnswersAgree
  BY <1>1 DEF AnswersAgree
<1> QED BY <1>2, Invariant, PTL

\* A delta that comes again takes nothing of what it left, and the third time
\* changes nothing (address_state.rs:92 has the second time change nothing; but
\* what made the caps drop a claim may itself be gone by then).
THEOREM ClaimRepeatsSettle ==
  ASSUME NEW s \in Message, NEW d \in Message
  PROVE  LET once  == ApplyDelta(s, d)
             twice == ApplyDelta(once, d)
         IN  once.claims \subseteq twice.claims /\ ApplyDelta(twice, d) = twice
<1>1. CASE Refused(d)
  BY <1>1 DEF ApplyDelta
<1>2. CASE ~Refused(d)
  <2>1. PICK C, D, K, L : /\ C = s.claims /\ D = d.claims
                          /\ K = EnforceCap(C \cup D) /\ L = EnforceCap(K \cup D)
    OBVIOUS
  <2>2. PICK w, x, y : /\ w = d.scanned
                       /\ x = [b \in Bridge |-> KeptWatermark(s.scanned[b], w[b])]
                       /\ y = [b \in Bridge |-> KeptWatermark(x[b], w[b])]
    OBVIOUS
  <2>3. C \cup D \in ClaimSets /\ K \in ClaimSets /\ K \subseteq C \cup D
    <3>1. C \cup D \in ClaimSets
      BY <2>1, FS_Union DEF Message, ClaimSets
    <3> QED BY <2>1, <3>1, KeptFits
  <2>4. K \subseteq L
    <3> SUFFICES ASSUME NEW c \in K PROVE c \in L
      OBVIOUS
    <3>1. PICK S : S = {e \in C \cup D : ~RanksAbove(c, e)}
      OBVIOUS
    <3>2. PICK T : T = {e \in K \cup D : ~RanksAbove(c, e)}
      OBVIOUS
    <3>3. WithinCaps(S)
      BY <2>1, <3>1 DEF EnforceCap
    <3>4. S \in ClaimSets /\ T \subseteq S
      BY <2>3, <3>1, <3>2, FS_Subset DEF ClaimSets
    <3>5. WithinCaps(T)
      BY <3>3, <3>4, FewerFit
    <3> QED BY <2>1, <3>2, <3>5 DEF EnforceCap
  <2>5. L \cup D = K \cup D
    BY <2>1, <2>4 DEF EnforceCap
  <2>6. y = x /\ \A b \in Bridge : KeptWatermark(x[b], w[b]) = x[b]
    <3>1. ASSUME NEW b \in Bridge PROVE KeptWatermark(x[b], w[b]) = x[b]
      <4>1. ~Ahead(w[b], w[b])
        <5>1. w[b] \in Watermark
          BY <2>2 DEF Message
        <5>2. w[b].height \in Nat \/ w[b].height = NotScanned
          BY <5>1 DEF Watermark, Anchor
        <5>3. PICK h : h = w[b].height
          OBVIOUS
        <5>4. CASE h \in Nat
          BY <5>3, <5>4, ClaimSetAssumption DEF Ahead
        <5>5. CASE h = NotScanned
          BY <5>3, <5>5 DEF Ahead
        <5> QED BY <5>2, <5>3, <5>4, <5>5
      <4> QED BY <2>2, <4>1 DEF KeptWatermark
    <3> QED BY <2>2, <3>1
  <2>7. ApplyDelta(s, d) = [claims |-> K, scanned |-> x]
    BY <1>2, <2>1, <2>2 DEF ApplyDelta
  <2>8. ApplyDelta([claims |-> K, scanned |-> x], d) = [claims |-> L, scanned |-> x]
    BY <1>2, <2>1, <2>2, <2>6 DEF ApplyDelta
  <2>9. ApplyDelta([claims |-> L, scanned |-> x], d) = [claims |-> L, scanned |-> x]
    BY <1>2, <2>1, <2>2, <2>5, <2>6 DEF ApplyDelta
  <2> QED BY <2>4, <2>7, <2>8, <2>9
<1> QED BY <1>1, <1>2

-----------------------------------------------------------------------------
(* The tip *)

\* What a peer that heard H is to hold.
Kept(H) == Tip!Prune(Tip!BestPerHeight(H))

\* The entries of S above an entry.
Above(S, e) == {f \in S : f.height > e.height}

\* Finite sets of the entries bridges sign.
Entries == {S \in SUBSET Summary : IsFiniteSet(S)}

-----------------------------------------------------------------------------
(* Finite sets *)

\* The tip counts as everyone does.
LEMMA SameCount ==
  ASSUME NEW S
  PROVE  Tip!Cardinality(S) = Cardinality(S) /\ (Tip!IsFiniteSet(S) <=> IsFiniteSet(S))
BY DEF Tip!Cardinality, Cardinality, Tip!IsFiniteSet, IsFiniteSet

\* As many heights, as many entries.
LEMMA FewerHeights ==
  ASSUME NEW X, NEW Y, IsFiniteSet(Y), Tip!OnePerHeight(X),
         \A x \in X : \E y \in Y : y.height = x.height
  PROVE  /\ IsFiniteSet(X) /\ Cardinality(X) \in Nat /\ Cardinality(Y) \in Nat
         /\ Cardinality(X) <= Cardinality(Y)
<1> DEFINE f == [x \in X |-> CHOOSE y \in Y : y.height = x.height]
<1>1. \A x \in X : f[x] \in Y /\ f[x].height = x.height
  OBVIOUS
<1>2. f \in [X -> Y]
  BY <1>1
<1> HIDE DEF f
<1>3. \A a, b \in X : f[a] = f[b] => a = b
  BY <1>1 DEF Tip!OnePerHeight
<1>4. f \in Injection(X, Y)
  BY <1>2, <1>3 DEF Injection, IsInjective
<1> QED BY <1>4, FS_Injection, FS_CardinalityType

-----------------------------------------------------------------------------
(* The best entry of a height *)

\* An entry's fields.
LEMMA EntryShape ==
  ASSUME Tip!EntryAssumption, NEW e \in Summary
  PROVE  e.height \in Nat /\ e.hash \in Nat /\ e.digest \in Nat
BY DEF Tip!EntryAssumption, Tip!EntryShape

\* Tip!Replaces orders the entries of a height.
LEMMA EntryOrder ==
  ASSUME Tip!EntryAssumption, NEW e \in Summary, NEW f \in Summary, NEW g \in Summary
  PROVE  /\ ~Tip!Replaces(e, e)
         /\ Tip!Replaces(e, f) /\ Tip!Replaces(f, g) => Tip!Replaces(e, g)
         /\ e = f \/ Tip!Replaces(e, f) \/ Tip!Replaces(f, e)
BY EntryShape DEF Tip!Replaces, Tip!EntryAssumption

\* No height has two best entries.
LEMMA BestIsOne ==
  ASSUME Tip!EntryAssumption, NEW S \in SUBSET Summary
  PROVE  Tip!OnePerHeight(Tip!BestPerHeight(S))
BY EntryOrder DEF Tip!OnePerHeight, Tip!BestPerHeight

\* Every height has a best entry.
LEMMA HasBest ==
  ASSUME Tip!EntryAssumption, NEW H \in Entries, NEW e \in H
  PROVE  \E b \in Tip!BestPerHeight(H) : b.height = e.height /\ (b = e \/ Tip!Replaces(b, e))
<1> DEFINE Better(f) == {g \in H : g.height = f.height /\ Tip!Replaces(g, f)}
           Family == {Better(f) : f \in {e} \cup Better(e)}
<1>1. PICK T \in Family : \A S \in Family : S \subseteq T => S = T
  <2>1. Family \in SUBSET SUBSET H /\ Family # {}
    OBVIOUS
  <2> HIDE DEF Family
  <2> QED BY <2>1, Minimal DEF Entries
<1>2. PICK b \in {e} \cup Better(e) : T = Better(b)
  OBVIOUS
<1>3. b \in H /\ b.height = e.height /\ (b = e \/ Tip!Replaces(b, e))
  OBVIOUS
<1>4. ASSUME NEW g \in Better(b) PROVE FALSE
  <2>1. /\ g \in H /\ g.height = e.height /\ Tip!Replaces(g, b)
        /\ b \in Summary /\ g \in Summary /\ e \in Summary
    BY <1>3 DEF Entries
  <2>2. g \in Better(e)
    BY <1>3, <2>1, EntryOrder
  <2>3. Better(g) \subseteq Better(b)
    BY <1>3, <2>1, EntryOrder DEF Entries
  <2>4. g \notin Better(g)
    BY <2>1, EntryOrder
  <2> QED BY <1>1, <1>2, <1>4, <2>2, <2>3, <2>4
<1> QED BY <1>3, <1>4 DEF Tip!BestPerHeight

-----------------------------------------------------------------------------
(* Pruning *)

\* What is kept is of what was heard, and within the retention.
LEMMA EntriesFit ==
  ASSUME Tip!EntryAssumption, NEW H \in Entries
  PROVE  /\ Kept(H) \subseteq H /\ Kept(H) \in Entries
         /\ Cardinality(Kept(H)) <= TipRetain
<1> DEFINE B == Tip!BestPerHeight(H)
           P == Kept(H)
           Below(p) == {f \in P : f.height < p.height}
           Family == {Below(p) : p \in P}
<1>1. P \subseteq B /\ B \subseteq H
  BY DEF Kept, Tip!Prune, Tip!BestPerHeight
<1>2. IsFiniteSet(B) /\ IsFiniteSet(P) /\ P \in Entries
  BY <1>1, FS_Subset DEF Entries
<1>3. TipRetain \in Nat \ {0}
  BY DEF Tip!EntryAssumption, Tip!TipAssumption
<1>4. CASE P = {}
  BY <1>1, <1>2, <1>3, <1>4, FS_EmptySet
<1>5. CASE P # {}
  <2>1. PICK T \in Family : \A S \in Family : S \subseteq T => S = T
    <3>1. Family \in SUBSET SUBSET P /\ Family # {}
      BY <1>5
    <3> HIDE DEF Family, P
    <3> QED BY <1>2, <3>1, Minimal
  <2>2. PICK p \in P : T = Below(p)
    OBVIOUS
  <2>3. \A q \in P : q.height \in Nat
    BY <1>1, EntryShape DEF Entries
  <2>4. ASSUME NEW q \in P PROVE q.height >= p.height
    <3> SUFFICES ASSUME q.height < p.height PROVE FALSE
      BY <2>3
    <3>1. Below(q) \subseteq Below(p) /\ q \in Below(p) /\ q \notin Below(q)
      BY <2>3
    <3> QED BY <2>1, <2>2, <3>1
  <2>5. P \subseteq Above(B, p) \cup {p}
    <3> SUFFICES ASSUME NEW q \in P, q # p PROVE q.height > p.height
      BY <1>1 DEF Above
    <3>1. q.height # p.height
      BY <1>1, BestIsOne DEF Entries, Tip!OnePerHeight
    <3> QED BY <2>3, <2>4, <3>1
  <2>6. Cardinality(Above(B, p)) < TipRetain
    BY SameCount DEF Kept, Tip!Prune, Above
  <2> DEFINE A == Above(B, p)
  <2>7. IsFiniteSet(A)
    BY <1>2, FS_Subset DEF Above
  <2> HIDE DEF P, B, A
  <2>8. /\ IsFiniteSet(A \cup {p}) /\ Cardinality(A) \in Nat
        /\ Cardinality(A \cup {p}) <= Cardinality(A) + 1
    <3>1. Cardinality(A) \in Nat
      BY <2>7, FS_CardinalityType
    <3>2. /\ IsFiniteSet(A \cup {p})
          /\ Cardinality(A \cup {p}) = IF p \in A THEN Cardinality(A)
                                                   ELSE Cardinality(A) + 1
      BY <2>7, FS_AddElement
    <3> QED BY <3>1, <3>2
  <2>9. Cardinality(P) <= Cardinality(A \cup {p}) /\ Cardinality(P) \in Nat
    BY <1>2, <2>5, <2>8, FS_Subset, FS_CardinalityType DEF A
  <2>10. Cardinality(A \cup {p}) \in Nat
    BY <2>8, FS_CardinalityType
  <2>11. Cardinality(P) <= TipRetain
    BY <1>3, <2>6, <2>8, <2>9, <2>10 DEF A
  <2>12. P \subseteq H
    BY <1>1
  <2> QED BY <1>2, <2>11, <2>12 DEF P
<1> QED BY <1>4, <1>5

\* Where nothing was pruned, the best entries are what they were.
LEMMA SameBest ==
  ASSUME Tip!EntryAssumption, NEW H \in Entries, NEW D \in Entries, NEW k \in Nat,
         \A b \in Tip!BestPerHeight(H) : b.height >= k => b \in Kept(H)
  PROVE  \A x \in Summary : x.height >= k =>
           (x \in Tip!BestPerHeight(Kept(H) \cup D) <=> x \in Tip!BestPerHeight(H \cup D))
<1> SUFFICES ASSUME NEW x \in Summary, x.height >= k
             PROVE  x \in Tip!BestPerHeight(Kept(H) \cup D) <=> x \in Tip!BestPerHeight(H \cup D)
  OBVIOUS
<1>1. Kept(H) \subseteq H
  BY DEF Kept, Tip!Prune, Tip!BestPerHeight
<1>2. ASSUME x \in Tip!BestPerHeight(H \cup D) PROVE x \in Tip!BestPerHeight(Kept(H) \cup D)
  <2>1. x \in H => x \in Tip!BestPerHeight(H)
    BY <1>2 DEF Tip!BestPerHeight
  <2> QED BY <1>1, <1>2, <2>1 DEF Tip!BestPerHeight
<1>3. ASSUME x \in Tip!BestPerHeight(Kept(H) \cup D) PROVE x \in Tip!BestPerHeight(H \cup D)
  <2>1. x \in H \cup D
    BY <1>1, <1>3 DEF Tip!BestPerHeight
  <2>2. ASSUME NEW f \in H, f.height = x.height PROVE ~Tip!Replaces(f, x)
    <3>1. PICK b \in Tip!BestPerHeight(H) : b.height = f.height /\ (b = f \/ Tip!Replaces(b, f))
      BY HasBest
    <3>2. b \in Kept(H)
      BY <2>2, <3>1
    <3>3. ~Tip!Replaces(b, x)
      BY <1>3, <2>2, <3>1, <3>2 DEF Tip!BestPerHeight
    <3>4. b \in Summary /\ f \in Summary
      BY DEF Tip!BestPerHeight, Entries
    <3> QED BY <3>1, <3>3, <3>4, EntryOrder
  <2>3. \A f \in D : f.height = x.height => ~Tip!Replaces(f, x)
    BY <1>3 DEF Tip!BestPerHeight
  <2> QED BY <2>1, <2>2, <2>3 DEF Tip!BestPerHeight
<1> QED BY <1>2, <1>3

\* The same best entries from a height up: the same of them are kept.
LEMMA SameKept ==
  ASSUME Tip!EntryAssumption, NEW H \in Entries, NEW D \in Entries, NEW e \in Summary,
         \A b \in Tip!BestPerHeight(H) : b.height >= e.height => b \in Kept(H)
  PROVE  e \in Kept(Kept(H) \cup D) <=> e \in Kept(H \cup D)
<1> DEFINE T == Tip!BestPerHeight(Kept(H) \cup D)
           C == Tip!BestPerHeight(H \cup D)
<1>1. e.height \in Nat /\ \A x \in Summary : x.height \in Nat
  BY EntryShape
<1>2. \A x \in Summary : x.height >= e.height => (x \in T <=> x \in C)
  BY <1>1, SameBest
<1>3. T \subseteq Summary /\ C \subseteq Summary
  BY DEF Kept, Tip!Prune, Tip!BestPerHeight, Entries
<1> HIDE DEF T, C
<1>4. e \in T <=> e \in C
  BY <1>1, <1>2
<1>5. {f \in T : f.height > e.height} = {f \in C : f.height > e.height}
  BY <1>1, <1>2, <1>3
<1>6. e \in Tip!Prune(T) <=> e \in Tip!Prune(C)
  BY <1>4, <1>5 DEF Tip!Prune
<1> QED BY <1>6 DEF Kept, T, C

\* What was pruned before D came makes no difference after.
LEMMA PruneEarly ==
  ASSUME Tip!EntryAssumption, NEW H \in Entries, NEW D \in Entries
  PROVE  Kept(Kept(H) \cup D) = Kept(H \cup D)
<1> DEFINE B == Tip!BestPerHeight(H)
           P == Kept(H)
           T == Tip!BestPerHeight(P \cup D)
           C == Tip!BestPerHeight(H \cup D)
<1>1. P = {b \in B : Cardinality(Above(B, b)) < TipRetain}
  BY SameCount DEF Kept, Tip!Prune, Above
<1>2. P \subseteq B /\ B \subseteq H /\ T \subseteq P \cup D /\ C \subseteq H \cup D
  BY <1>1 DEF Tip!BestPerHeight
<1>3. P \in Entries /\ P \cup D \in Entries /\ H \cup D \in Entries
  BY EntriesFit, FS_Union DEF Entries
<1>4. IsFiniteSet(B) /\ IsFiniteSet(T) /\ IsFiniteSet(C)
  BY <1>2, <1>3, FS_Subset DEF Entries
<1>5. \A x \in Summary : x.height \in Nat
  BY EntryShape
<1>6. H \subseteq Summary /\ D \subseteq Summary /\ P \subseteq Summary /\ B \subseteq Summary
  BY <1>2 DEF Entries
<1>7. Tip!OnePerHeight(B)
  BY BestIsOne, <1>6
<1>8. TipRetain \in Nat
  BY DEF Tip!EntryAssumption, Tip!TipAssumption
<1>9. /\ Kept(P \cup D) = {e \in T : Cardinality(Above(T, e)) < TipRetain}
      /\ Kept(H \cup D) = {e \in C : Cardinality(Above(C, e)) < TipRetain}
  BY SameCount DEF Kept, Tip!Prune, Above
<1>10. \A x \in H \cup D : \E y \in C : y.height = x.height
  BY <1>3, HasBest
<1>11. \A x \in P \cup D : \E y \in T : y.height = x.height
  BY <1>3, HasBest
<1> HIDE DEF B, P, T, C
\* An entry with few above it: none of its height or higher was pruned.
<1>12. ASSUME NEW e \in Kept(H \cup D), NEW b \in B, b.height >= e.height
       PROVE  b \in P
  <2>1. e \in C /\ Cardinality(Above(C, e)) < TipRetain /\ e \in Summary
    BY <1>2, <1>6, <1>9
  <2>2. b.height \in Nat /\ e.height \in Nat
    BY <1>5, <1>6, <2>1
  <2>3. \A x \in Above(B, b) : \E y \in Above(C, e) : y.height = x.height
    <3> SUFFICES ASSUME NEW x \in Above(B, b)
                 PROVE  \E y \in Above(C, e) : y.height = x.height
      OBVIOUS
    <3>1. x \in H /\ x.height > b.height /\ x.height \in Nat
      BY <1>2, <1>5, <1>6 DEF Above
    <3>2. PICK y \in C : y.height = x.height
      BY <1>10, <3>1
    <3>3. y.height > e.height
      BY <1>12, <2>2, <3>1, <3>2
    <3> QED BY <3>2, <3>3 DEF Above
  <2>4. Tip!OnePerHeight(Above(B, b)) /\ IsFiniteSet(Above(C, e))
    BY <1>4, <1>7, FS_Subset DEF Tip!OnePerHeight, Above
  <2>5. /\ Cardinality(Above(B, b)) <= Cardinality(Above(C, e))
        /\ Cardinality(Above(B, b)) \in Nat /\ Cardinality(Above(C, e)) \in Nat
    BY <2>3, <2>4, FewerHeights
  <2>6. Cardinality(Above(B, b)) < TipRetain
    BY <1>8, <2>1, <2>5
  <2> QED BY <1>1, <2>6
\* The other way: had one been pruned, the highest such has enough above it.
<1>13. ASSUME NEW e \in Kept(P \cup D), NEW b \in B, b.height >= e.height
       PROVE  b \in P
  <2> SUFFICES ASSUME b \notin P PROVE FALSE
    OBVIOUS
  <2>1. e \in T /\ Cardinality(Above(T, e)) < TipRetain /\ e \in Summary /\ e.height \in Nat
    BY <1>2, <1>5, <1>6, <1>9
  <2> DEFINE Gone == {c \in B : c \notin P /\ c.height >= e.height}
             Family == {Above(B, c) : c \in Gone}
  <2>2. PICK c \in Gone : \A d \in Gone : Above(B, d) \subseteq Above(B, c)
                                            => Above(B, d) = Above(B, c)
    <3>1. Family \in SUBSET SUBSET B /\ Family # {}
      BY <1>13 DEF Above
    <3> HIDE DEF Family
    <3>2. PICK U \in Family : \A S \in Family : S \subseteq U => S = U
      BY <1>4, <3>1, Minimal
    <3> QED BY <3>2 DEF Family
  <2>3. c \in B /\ c \notin P /\ c.height >= e.height /\ c.height \in Nat
    BY <1>5, <1>6
  <2> HIDE DEF Family
  <2>4. ASSUME NEW x \in Above(B, c) PROVE x \in P
    <3> SUFFICES ASSUME x \notin P PROVE FALSE
      OBVIOUS
    <3>1. x \in B /\ x.height > c.height /\ x.height \in Nat
      BY <1>5, <1>6 DEF Above
    <3>2. x \in Gone
      BY <2>1, <2>3, <3>1
    <3>3. Above(B, x) \subseteq Above(B, c) /\ x \notin Above(B, x)
      BY <1>5, <1>6, <2>3, <3>1 DEF Above
    <3> QED BY <2>2, <2>4, <3>2, <3>3
  <2>5. \A x \in Above(B, c) : \E y \in Above(T, e) : y.height = x.height
    <3> SUFFICES ASSUME NEW x \in Above(B, c)
                 PROVE  \E y \in Above(T, e) : y.height = x.height
      OBVIOUS
    <3>1. x \in P /\ x.height > c.height /\ x.height \in Nat
      BY <1>5, <1>6, <2>4 DEF Above
    <3>2. PICK y \in T : y.height = x.height
      BY <1>11, <3>1
    <3>3. y.height > e.height
      BY <2>1, <2>3, <3>1, <3>2
    <3> QED BY <3>2, <3>3 DEF Above
  <2>6. Tip!OnePerHeight(Above(B, c)) /\ IsFiniteSet(Above(T, e))
    BY <1>4, <1>7, FS_Subset DEF Tip!OnePerHeight, Above
  <2>7. /\ Cardinality(Above(B, c)) <= Cardinality(Above(T, e))
        /\ Cardinality(Above(B, c)) \in Nat /\ Cardinality(Above(T, e)) \in Nat
    BY <2>5, <2>6, FewerHeights
  <2>8. Cardinality(Above(B, c)) < TipRetain
    BY <1>8, <2>1, <2>7
  <2> QED BY <1>1, <2>3, <2>8
<1>14. Kept(P \cup D) \subseteq Summary /\ Kept(H \cup D) \subseteq Summary
  BY <1>2, <1>6, <1>9
<1>15. \A e \in Summary : e \in Kept(P \cup D) <=> e \in Kept(H \cup D)
  <2> SUFFICES ASSUME NEW e \in Summary,
                      e \in Kept(P \cup D) \/ e \in Kept(H \cup D)
               PROVE  e \in Kept(P \cup D) <=> e \in Kept(H \cup D)
    OBVIOUS
  <2>1. \A b \in B : b.height >= e.height => b \in P
    BY <1>12, <1>13
  <2> QED BY <2>1, SameKept DEF B, P
<1> QED BY <1>14, <1>15 DEF P

-----------------------------------------------------------------------------
(* The invariant *)

\* What every peer has heard was signed, and what it holds is what is kept.
TipInv ==
  /\ blocks \in [Peer -> Entries] /\ heard \in [Peer -> Entries]
  /\ \A p \in Peer : blocks[p] = Kept(heard[p]) /\ \A e \in heard[p] : e.valid

\* A peer that receives any entries.
LEMMA ReceiveKeeps ==
  ASSUME Tip!EntryAssumption, TipInv, NEW p \in Peer, NEW D \in Entries, Tip!Receive(p, D)
  PROVE  TipInv'
<1>1. CASE \E e \in D : ~e.valid
  <2>1. blocks' = blocks /\ heard' = heard
    BY <1>1 DEF Tip!Receive, Tip!ApplyDelta, TipInv
  <2> QED BY <2>1 DEF TipInv
<1>2. CASE \A e \in D : e.valid
  <2>1. /\ blocks' = [blocks EXCEPT ![p] = Kept(blocks[p] \cup D)]
        /\ heard' = [heard EXCEPT ![p] = heard[p] \cup D]
    BY <1>2 DEF Tip!Receive, Tip!ApplyDelta, Kept
  <2>2. heard[p] \in Entries /\ blocks[p] = Kept(heard[p])
    BY DEF TipInv
  <2>3. heard[p] \cup D \in Entries
    BY <2>2, FS_Union DEF Entries
  <2>4. Kept(blocks[p] \cup D) = Kept(heard[p] \cup D)
    BY <2>2, PruneEarly
  <2>5. Kept(heard[p] \cup D) \in Entries
    BY <2>3, EntriesFit
  <2>6. blocks' \in [Peer -> Entries] /\ heard' \in [Peer -> Entries]
    BY <2>1, <2>3, <2>4, <2>5 DEF TipInv
  <2>7. \A q \in Peer : blocks'[q] = Kept(heard'[q]) /\ \A e \in heard'[q] : e.valid
    BY <1>2, <2>1, <2>4 DEF TipInv
  <2> QED BY <2>6, <2>7 DEF TipInv, Kept, Tip!Prune, Tip!BestPerHeight
<1> QED BY <1>1, <1>2

\* Every step keeps the invariant.
LEMMA NextKeeps == Tip!EntryAssumption /\ TipInv /\ [Tip!Next]_(Tip!vars) => TipInv'
<1> SUFFICES ASSUME Tip!EntryAssumption, TipInv, [Tip!Next]_(Tip!vars) PROVE TipInv'
  OBVIOUS
<1>1. ASSUME NEW p \in Peer, NEW D \in SUBSET Summary, Tip!Publish(p, D) PROVE TipInv'
  BY <1>1, SameCount, ReceiveKeeps DEF Tip!Publish, Entries
<1>2. ASSUME NEW p \in Peer, NEW q \in Peer, Tip!Sync(p, q) PROVE TipInv'
  <2>1. Tip!Answer(p, q) \subseteq blocks[q] /\ blocks[q] \in Entries
    BY DEF Tip!Answer, Tip!Delta, TipInv
  <2>2. Tip!Answer(p, q) \in Entries
    BY <2>1, FS_Subset DEF Entries
  <2> QED BY <1>2, <2>2, ReceiveKeeps DEF Tip!Sync
<1>3. CASE UNCHANGED Tip!vars
  BY <1>3 DEF Tip!vars, TipInv
<1> QED BY <1>1, <1>2, <1>3 DEF Tip!Next

\* It holds at first.
LEMMA InitKeeps == Tip!EntryAssumption /\ Tip!Init => TipInv
<1>1. {} \in Entries
  BY FS_EmptySet DEF Entries
<1>2. Kept({}) = {}
  BY DEF Kept, Tip!Prune, Tip!BestPerHeight
<1> QED BY <1>1, <1>2 DEF Tip!Init, TipInv

\* What a peer of the tip contract holds is the best entry of each of the
\* TipRetain highest heights it heard of, whatever the order in which entries
\* came, how often, and what was pruned meanwhile (tip_state.rs, apply_delta and
\* prune), and the contract's verify accepts it.
THEOREM HeldStaysWhatWasHeard == Tip!Spec => []HeldIsWhatWasHeard
<1>1. TipInv => HeldIsWhatWasHeard
  BY TipInstance, SameCount, EntriesFit
     DEF TipInv, HeldIsWhatWasHeard, Tip!HeldIsWhatWasHeard, Tip!Verify, Kept
<1>2. Tip!Init => TipInv
  BY TipInstance, InitKeeps
<1>3. TipInv /\ [Tip!Next]_(Tip!vars) => TipInv'
  BY TipInstance, NextKeeps
<1> QED BY <1>1, <1>2, <1>3, PTL DEF Tip!Spec
-----------------------------------------------------------------------------
(* What peers that answer each other come to *)

\* Below a full state nothing is kept.
LEMMA NothingBelow ==
  ASSUME Tip!EntryAssumption, NEW A \in Entries, Tip!OnePerHeight(A),
         Cardinality(A) >= TipRetain,
         NEW X \in Entries, A \subseteq X,
         NEW e \in Summary, \A a \in A : e.height < a.height
  PROVE  e \notin Kept(X)
<1> DEFINE B == Tip!BestPerHeight(X)
<1>1. \A a \in A : \E b \in Above(B, e) : b.height = a.height
  <2> SUFFICES ASSUME NEW a \in A PROVE \E b \in Above(B, e) : b.height = a.height
    OBVIOUS
  <2>1. PICK b \in B : b.height = a.height
    BY HasBest
  <2>2. e.height \in Nat /\ a.height \in Nat /\ b.height > e.height
    BY <2>1, EntryShape DEF Entries
  <2> QED BY <2>1, <2>2 DEF Above
<1>2. IsFiniteSet(Above(B, e))
  BY FS_Subset DEF Entries, Above, Tip!BestPerHeight
<1> HIDE DEF B
<1>3. /\ Cardinality(A) <= Cardinality(Above(B, e))
      /\ Cardinality(A) \in Nat /\ Cardinality(Above(B, e)) \in Nat
  BY <1>1, <1>2, FewerHeights
<1>4. TipRetain \in Nat
  BY DEF Tip!EntryAssumption, Tip!TipAssumption
<1>5. ~(Cardinality(Above(B, e)) < TipRetain)
  BY <1>3, <1>4
<1> QED BY <1>5, SameCount DEF Kept, Tip!Prune, Above, B

\* What a full peer is not offered makes no difference to it.
LEMMA NothingMissed ==
  ASSUME Tip!EntryAssumption, NEW A \in Entries, NEW B \in Entries, Tip!OnePerHeight(A)
  PROVE  Kept(A \cup Tip!Delta(B, A)) = Kept(A \cup B)
<1> DEFINE X == A \cup Tip!Delta(B, A)
           Y == A \cup B
<1>1. X \subseteq Y /\ X \in Entries /\ Y \in Entries
  BY FS_Union, FS_Subset DEF Tip!Delta, Entries
<1>2. ASSUME NEW g \in Y, g \notin X
      PROVE  Cardinality(A) >= TipRetain /\ \A a \in A : g.height < a.height
  <2>1. g \in B /\ g \in Tip!DigestOf(B, g)
    BY <1>2 DEF Tip!DigestOf
  <2>2. Tip!DigestOf(B, g) # Tip!DigestOf(A, g)
    BY <1>2, <2>1 DEF Tip!DigestOf
  <2>3. Tip!BelowHorizon(g, A)
    BY <1>2, <2>1, <2>2 DEF Tip!Delta
  <2> QED BY <2>3, SameCount DEF Tip!BelowHorizon
<1>3. \A x \in Summary : x.height \in Nat
  BY EntryShape
<1> HIDE DEF X, Y
<1>4. ASSUME NEW e \in Summary PROVE e \in Kept(X) <=> e \in Kept(Y)
  <2>1. CASE X = Y
    BY <2>1
  <2>2. CASE X # Y /\ \A a \in A : e.height < a.height
    <3>1. PICK g \in Y : g \notin X
      BY <1>1, <2>2
    <3>2. A \subseteq X /\ A \subseteq Y
      BY DEF X, Y
    <3> QED BY <1>1, <1>2, <2>2, <3>1, <3>2, NothingBelow
  <2>3. ASSUME NEW a \in A, ~(e.height < a.height) PROVE e \in Kept(X) <=> e \in Kept(Y)
    <3> DEFINE S == Tip!BestPerHeight(X)
               T == Tip!BestPerHeight(Y)
    <3>1. a.height \in Nat /\ e.height \in Nat
      BY <1>3 DEF Entries
    <3>2. \A x \in Y : x.height >= e.height => x \in X
      <4> SUFFICES ASSUME NEW x \in Y, x.height >= e.height, x \notin X PROVE FALSE
        OBVIOUS
      <4>1. x.height < a.height /\ x.height \in Nat
        BY <1>1, <1>2, <1>3 DEF Entries
      <4> QED BY <2>3, <3>1, <4>1
    <3>3. \A x \in Summary : x.height >= e.height => (x \in S <=> x \in T)
      BY <1>1, <3>2 DEF Tip!BestPerHeight
    <3>4. S \subseteq Summary /\ T \subseteq Summary
      BY <1>1 DEF Tip!BestPerHeight, Entries
    <3> HIDE DEF S, T
    <3>5. e \in S <=> e \in T
      BY <3>1, <3>3
    <3>6. {f \in S : f.height > e.height} = {f \in T : f.height > e.height}
      BY <1>3, <3>1, <3>3, <3>4
    <3>7. e \in Tip!Prune(S) <=> e \in Tip!Prune(T)
      BY <3>5, <3>6 DEF Tip!Prune
    <3> QED BY <3>7 DEF Kept, S, T
  <2> QED BY <2>1, <2>2, <2>3
<1>5. Kept(X) \subseteq Summary /\ Kept(Y) \subseteq Summary
  BY <1>1, EntriesFit DEF Entries
<1>6. Kept(X) = Kept(Y)
  BY <1>4, <1>5
<1> QED BY <1>6 DEF X, Y

\* Peers that answer each other's summaries hold one tip, though a full one is
\* not offered blocks below its lowest (delta, apply_delta, prune).
THEOREM TipAnswersAgree == Tip!Spec => []Tip!AnswersAgree
<1>1. ASSUME TipInv, NEW p \in Peer, NEW q \in Peer
      PROVE  Tip!ApplyDelta(blocks[p], Tip!Answer(p, q)) = Kept(blocks[p] \cup blocks[q])
  <2>1. /\ blocks[p] \in Entries /\ blocks[q] \in Entries
        /\ heard[p] \in Entries /\ heard[q] \in Entries
        /\ blocks[p] = Kept(heard[p]) /\ blocks[q] = Kept(heard[q])
    BY <1>1 DEF TipInv
  <2>2. \A e \in blocks[q] : e.valid
    <3>1. blocks[q] \subseteq heard[q]
      BY <2>1, TipInstance, EntriesFit
    <3> QED BY <1>1, <3>1 DEF TipInv
  <2>3. \A e \in Tip!Answer(p, q) : e.valid
    BY <2>2 DEF Tip!Answer, Tip!Delta
  <2>4. Tip!ApplyDelta(blocks[p], Tip!Answer(p, q)) = Kept(blocks[p] \cup Tip!Answer(p, q))
    BY <2>3 DEF Tip!ApplyDelta, Kept
  <2>5. Tip!OnePerHeight(blocks[p])
    <3>1. Tip!OnePerHeight(Tip!BestPerHeight(heard[p]))
      BY <2>1, TipInstance, BestIsOne DEF Entries
    <3>2. blocks[p] \subseteq Tip!BestPerHeight(heard[p])
      BY <2>1 DEF Kept, Tip!Prune
    <3> QED BY <3>1, <3>2 DEF Tip!OnePerHeight
  <2>6. Tip!Answer(p, q) = Tip!Delta(blocks[q], blocks[p])
    BY DEF Tip!Answer, Tip!Summarize
  <2> QED BY <2>1, <2>4, <2>5, <2>6, TipInstance, NothingMissed
<1>2. TipInv => Tip!AnswersAgree
  <2> SUFFICES ASSUME TipInv, NEW p \in Peer, NEW q \in Peer
               PROVE  Tip!ApplyDelta(blocks[p], Tip!Answer(p, q))
                        = Tip!ApplyDelta(blocks[q], Tip!Answer(q, p))
    BY DEF Tip!AnswersAgree
  <2>1. blocks[p] \cup blocks[q] = blocks[q] \cup blocks[p]
    OBVIOUS
  <2> QED BY <1>1, <2>1
<1>3. Tip!Init => TipInv
  BY TipInstance, InitKeeps
<1>4. TipInv /\ [Tip!Next]_(Tip!vars) => TipInv'
  BY TipInstance, NextKeeps
<1> QED BY <1>2, <1>3, <1>4, PTL DEF Tip!Spec

\* A tip state merges like a set: a delta that comes again changes nothing, two
\* come to the same in either order, and so does one that holds what another peer
\* made of two (tip_state.rs:307-325), though each merge prunes.
THEOREM TipMergesLikeASet ==
  ASSUME Tip!EntryAssumption, NEW H \in Entries, NEW D \in Entries, NEW E \in Entries,
         \A e \in H \cup D \cup E : e.valid
  PROVE  LET S == Kept(H)
         IN  /\ Tip!ApplyDelta(Tip!ApplyDelta(S, D), D) = Tip!ApplyDelta(S, D)
             /\ Tip!ApplyDelta(Tip!ApplyDelta(S, D), E) = Tip!ApplyDelta(Tip!ApplyDelta(S, E), D)
             /\ Tip!ApplyDelta(Tip!ApplyDelta(S, D), E)
                  = Tip!ApplyDelta(S, Tip!ApplyDelta(Kept(D), E))
<1> DEFINE Valid(X) == X \in Entries /\ \A e \in X : e.valid
<1>1. ASSUME NEW X, NEW Y, Valid(X), Valid(Y)
      PROVE  /\ Valid(X \cup Y) /\ Valid(Kept(X)) /\ X \cup Y = Y \cup X
             /\ Tip!ApplyDelta(Kept(X), Y) = Kept(X \cup Y)
  <2>1. X \cup Y \in Entries /\ Kept(X) \in Entries
    BY <1>1, EntriesFit, FS_Union DEF Entries
  <2>2. Kept(X) \subseteq X
    BY DEF Kept, Tip!Prune, Tip!BestPerHeight
  <2>3. Tip!ApplyDelta(Kept(X), Y) = Kept(Kept(X) \cup Y)
    BY <1>1 DEF Tip!ApplyDelta, Kept
  <2>4. Kept(Kept(X) \cup Y) = Kept(X \cup Y)
    BY <1>1, PruneEarly
  <2> QED BY <1>1, <2>1, <2>2, <2>3, <2>4
<1>2. Valid(H) /\ Valid(D) /\ Valid(E)
  OBVIOUS
<1> HIDE DEF Valid
<1>3. Valid(H \cup D) /\ Valid(H \cup E) /\ Valid(D \cup E) /\ Valid(Kept(D \cup E))
  BY <1>1, <1>2
<1>4. /\ Tip!ApplyDelta(Kept(H), D) = Kept(H \cup D)
      /\ Tip!ApplyDelta(Kept(H), E) = Kept(H \cup E)
      /\ Tip!ApplyDelta(Kept(D), E) = Kept(D \cup E)
  BY <1>1, <1>2
<1>5. /\ Tip!ApplyDelta(Kept(H \cup D), D) = Kept((H \cup D) \cup D)
      /\ Tip!ApplyDelta(Kept(H \cup D), E) = Kept((H \cup D) \cup E)
      /\ Tip!ApplyDelta(Kept(H \cup E), D) = Kept((H \cup E) \cup D)
      /\ Tip!ApplyDelta(Kept(H), Kept(D \cup E)) = Kept(H \cup Kept(D \cup E))
  BY <1>1, <1>2, <1>3
<1>6. Kept(H \cup Kept(D \cup E)) = Kept((D \cup E) \cup H)
  <2>1. H \in Entries /\ D \cup E \in Entries
    BY <1>3 DEF Valid
  <2>2. Kept(Kept(D \cup E) \cup H) = Kept((D \cup E) \cup H)
    BY <2>1, PruneEarly
  <2>3. H \cup Kept(D \cup E) = Kept(D \cup E) \cup H
    OBVIOUS
  <2> QED BY <2>2, <2>3
<1>7. /\ (H \cup D) \cup D = H \cup D /\ (H \cup E) \cup D = (H \cup D) \cup E
      /\ (D \cup E) \cup H = (H \cup D) \cup E
  OBVIOUS
<1> QED BY <1>4, <1>5, <1>6, <1>7

-----------------------------------------------------------------------------
(* Merkle trees *)

\* Of numbers, not none, one is least.
LEMMA Least ==
  ASSUME NEW S \in SUBSET Nat, S # {}
  PROVE  \E n \in S : \A m \in S : n <= m
<1>1. PICK n \in S : \A m \in S : ~ (<<m, n>> \in OpToRel(<, Nat))
  BY NatLessThanWellFounded, WFMin
<1>2. \A m \in S : ~ (m < n)
  BY <1>1 DEF OpToRel
<1> QED BY <1>2

\* A sequence, of whatever.
IsSeq(s) == Len(s) \in Nat /\ s = [i \in 1..Len(s) |-> s[i]]

LEMMA Seqs ==
  /\ \A X : \A s \in Seq(X) : IsSeq(s)
  /\ \A s : IsSeq(s) => s \in Seq({s[i] : i \in 1..Len(s)})
<1>1. ASSUME NEW X, NEW s \in Seq(X) PROVE IsSeq(s)
  BY DEF IsSeq
<1>2. ASSUME NEW s, IsSeq(s) PROVE s \in Seq({s[i] : i \in 1..Len(s)})
  <2>1. s \in [1..Len(s) -> {s[i] : i \in 1..Len(s)}]
    BY <1>2 DEF IsSeq
  <2>2. Len(s) \in Nat
    BY <1>2 DEF IsSeq
  <2> QED BY <2>1, <2>2
<1> QED BY <1>1, <1>2

\* A function on 1..n is a sequence of n.
LEMMA LengthIs ==
  ASSUME NEW s, NEW n \in Nat, s = [i \in 1..n |-> s[i]]
  PROVE  Len(s) = n /\ IsSeq(s)
<1>1. s \in [1..n -> {s[i] : i \in 1..n}]
  OBVIOUS
<1>2. s \in Seq({s[i] : i \in 1..n})
  BY <1>1
<1>3. Len(s) \in Nat /\ DOMAIN s = 1..Len(s) /\ DOMAIN s = 1..n
  BY <1>1, <1>2
<1>4. Len(s) = n
  BY <1>3
<1> QED BY <1>4 DEF IsSeq

-----------------------------------------------------------------------------
(* A level and the one above *)

LEMMA PaddedIs ==
  ASSUME NEW level, IsSeq(level), Len(level) >= 1
  PROVE  /\ IsSeq(Padded(level)) /\ Len(Padded(level)) = 2 * ((Len(level) + 1) \div 2)
         /\ \A i \in 1..Len(level) : Padded(level)[i] = level[i]
<1> DEFINE X == {level[i] : i \in 1..Len(level)}
           last == level[Len(level)]
<1>1. level \in Seq(X) /\ Len(level) \in Nat
  BY Seqs DEF IsSeq
<1>2. last \in X
  BY <1>1
<1> HIDE DEF X, last
<1>3. /\ Append(level, last) \in Seq(X) /\ Len(Append(level, last)) = Len(level) + 1
      /\ \A i \in 1..Len(level) : Append(level, last)[i] = level[i]
  BY <1>1, <1>2, AppendProperties
<1>4. IsSeq(Append(level, last))
  BY <1>3, Seqs
<1>5. CASE Len(level) % 2 = 1
  BY <1>1, <1>3, <1>4, <1>5 DEF Padded, last
<1>6. CASE Len(level) % 2 # 1
  BY <1>1, <1>6 DEF Padded
<1> QED BY <1>5, <1>6

\* What is over a node of a level is what a branch makes of it.
LEMMA LevelAbove ==
  ASSUME NEW level, IsSeq(level), Len(level) >= 1
  PROVE  /\ IsSeq(NextLevel(level)) /\ Len(NextLevel(level)) = (Len(level) + 1) \div 2
         /\ \A i \in 0..(Len(level) - 1) :
              /\ i \div 2 \in 0..(Len(NextLevel(level)) - 1)
              /\ NextLevel(level)[i \div 2 + 1] =
                   IF i % 2 = 0 THEN Node(level[i + 1], Padded(level)[Sibling(i) + 1])
                   ELSE Node(Padded(level)[Sibling(i) + 1], level[i + 1])
<1> DEFINE n == (Len(level) + 1) \div 2
           padded == Padded(level)
           above == NextLevel(level)
<1>1. Len(level) \in Nat /\ n \in Nat /\ Len(padded) = 2 * n
  BY PaddedIs DEF IsSeq
<1>2. \A i \in 1..Len(level) : padded[i] = level[i]
  BY PaddedIs
<1>3. Len(padded) \div 2 = n
  BY <1>1
<1>4. above = [i \in 1..n |-> Node(padded[2*i - 1], padded[2*i])]
  BY <1>3 DEF NextLevel
<1> HIDE DEF padded, above
<1>5. Len(above) = n /\ IsSeq(above)
  <2>1. above = [i \in 1..n |-> above[i]]
    BY <1>4
  <2> QED BY <1>1, <2>1, LengthIs
<1>6. ASSUME NEW i \in 0..(Len(level) - 1)
      PROVE  /\ i \div 2 \in 0..(n - 1)
             /\ above[i \div 2 + 1] = IF i % 2 = 0 THEN Node(level[i + 1], padded[Sibling(i) + 1])
                                      ELSE Node(padded[Sibling(i) + 1], level[i + 1])
  <2>1. i \div 2 \in 0..(n - 1) /\ i \div 2 + 1 \in 1..n
    BY <1>1
  <2>2. above[i \div 2 + 1] = Node(padded[2 * (i \div 2 + 1) - 1], padded[2 * (i \div 2 + 1)])
    BY <1>4, <2>1
  <2>3. CASE i % 2 = 0
    <3>1. 2 * (i \div 2 + 1) - 1 = i + 1 /\ 2 * (i \div 2 + 1) = i + 2 /\ Sibling(i) + 1 = i + 2
      BY <2>3 DEF Sibling
    <3> QED BY <1>1, <1>2, <2>1, <2>2, <2>3, <3>1
  <2>4. CASE i % 2 # 0
    <3>1. 2 * (i \div 2 + 1) - 1 = i /\ 2 * (i \div 2 + 1) = i + 1 /\ Sibling(i) + 1 = i
      BY <2>4 DEF Sibling
    <3>2. above[i \div 2 + 1] = Node(padded[Sibling(i) + 1], padded[i + 1])
      BY <2>2, <3>1
    <3>3. padded[i + 1] = level[i + 1]
      BY <1>1, <1>2
    <3> QED BY <2>1, <2>4, <3>2, <3>3
  <2> QED BY <2>1, <2>3, <2>4
<1> QED BY <1>5, <1>6 DEF padded, above

-----------------------------------------------------------------------------
(* The loops *)

\* A function that recurs as the climb does.
Climbs(at, leaves, index) ==
  at = [d \in Nat |-> IF d = 0 THEN [level |-> leaves, index |-> index]
                      ELSE [level |-> NextLevel(at[d - 1].level),
                            index |-> at[d - 1].index \div 2]]

\* There is one.
LEMMA ClimbExists ==
  ASSUME NEW leaves, NEW index
  PROVE  \E at : Climbs(at, leaves, index)
<1> DEFINE first == [level |-> leaves, index |-> index]
           Up(below) == [level |-> NextLevel(below.level), index |-> below.index \div 2]
           To(g, n) == g = [d \in 0..n |-> IF d = 0 THEN first ELSE Up(g[d - 1])]
<1> SUFFICES \E at : at = [d \in Nat |-> IF d = 0 THEN first ELSE Up(at[d - 1])]
  BY DEF Climbs
<1> HIDE DEF first, Up
<1>a. \E g : To(g, 0)
  <2>1. To([d \in 0..0 |-> first], 0)
    OBVIOUS
  <2> QED BY <2>1
<1>b. ASSUME NEW n \in Nat, NEW g, To(g, n)
      PROVE  \E h : To(h, n + 1)
  <2>1. PICK h : h = [d \in 0..(n + 1) |-> IF d = 0 THEN first ELSE Up(g[d - 1])]
    OBVIOUS
  <2>2. \A d \in 0..n : h[d] = g[d]
    BY <1>b, <2>1
  <2>3. ASSUME NEW d \in 0..(n + 1)
        PROVE  h[d] = IF d = 0 THEN first ELSE Up(h[d - 1])
    <3>1. CASE d = 0
      BY <2>1, <3>1
    <3>2. CASE d # 0
      <4>1. d - 1 \in 0..n
        BY <3>2
      <4> QED BY <2>1, <2>2, <3>2, <4>1
    <3> QED BY <3>1, <3>2
  <2>4. To(h, n + 1)
    BY <2>1, <2>3
  <2> QED BY <2>4
<1>1. \A n \in Nat : \E g : To(g, n)
  <2> HIDE DEF To
  <2> DEFINE Bad == {n \in Nat : ~ \E g : To(g, n)}
  <2> SUFFICES ASSUME Bad # {} PROVE FALSE
    OBVIOUS
  <2>1. PICK n \in Bad : \A m \in Bad : n <= m
    BY Least
  <2>2. n # 0
    BY <1>a
  <2>3. n - 1 \in Nat /\ n - 1 \notin Bad
    BY <2>1, <2>2
  <2> QED BY <1>b, <2>3
<1>2. ASSUME NEW n \in Nat, NEW g, NEW h, To(g, n), To(h, n + 1)
      PROVE  g[n] = h[n]
  <2> DEFINE Bad == {d \in 0..n : g[d] # h[d]}
  <2> SUFFICES ASSUME Bad # {} PROVE FALSE
    OBVIOUS
  <2>0. Bad \in SUBSET Nat
    OBVIOUS
  <2>1. PICK d \in Bad : \A m \in Bad : d <= m
    <3> HIDE DEF Bad
    <3> QED BY <2>0, Least
  <2>2. d # 0
    BY <1>2
  <2>3. d - 1 \in 0..n /\ g[d - 1] = h[d - 1]
    BY <2>1, <2>2
  <2> QED BY <1>2, <2>2, <2>3
<1> HIDE DEF To
<1>3. PICK F : F = [n \in Nat |-> CHOOSE g : To(g, n)]
  OBVIOUS
<1>4. \A n \in Nat : To(F[n], n)
  BY <1>1, <1>3
<1>5. PICK at : at = [d \in Nat |-> F[d][d]]
  OBVIOUS
<1>6. ASSUME NEW d \in Nat
      PROVE  at[d] = IF d = 0 THEN first ELSE Up(at[d - 1])
  <2>0. F[d] = [e \in 0..d |-> IF e = 0 THEN first ELSE Up(F[d][e - 1])]
    BY <1>4 DEF To
  <2>1. F[d][d] = IF d = 0 THEN first ELSE Up(F[d][d - 1])
    BY <2>0
  <2>2. CASE d = 0
    BY <1>5, <2>1, <2>2
  <2>3. CASE d # 0
    <3>1. d - 1 \in Nat /\ F[d - 1][d - 1] = F[d][d - 1]
      BY <1>2, <1>4, <2>3
    <3> QED BY <1>5, <2>1, <2>3, <3>1
  <2> QED BY <2>2, <2>3
<1>7. at = [d \in Nat |-> IF d = 0 THEN first ELSE Up(at[d - 1])]
  BY <1>5, <1>6
<1> QED BY <1>7

\* One more round of the climb.
LEMMA ClimbIs ==
  ASSUME NEW leaves, NEW index
  PROVE  /\ Climb(leaves, index)[0] = [level |-> leaves, index |-> index]
         /\ \A d \in Nat :
              Climb(leaves, index)[d + 1] =
                [level |-> NextLevel(Climb(leaves, index)[d].level),
                 index |-> Climb(leaves, index)[d].index \div 2]
<1>1. Climb(leaves, index) = CHOOSE at : Climbs(at, leaves, index)
  BY DEF Climb, Climbs
<1>2. Climbs(Climb(leaves, index), leaves, index)
  BY <1>1, ClimbExists
<1> QED BY <1>2 DEF Climbs
\* A function that recurs as the fold does.
Folds(at, txid, branch, index) ==
  at = [d \in Nat |-> IF d = 0 THEN [hash |-> txid, index |-> index]
                      ELSE [hash  |-> IF at[d - 1].index % 2 = 0
                                      THEN Node(at[d - 1].hash, branch[d])
                                      ELSE Node(branch[d], at[d - 1].hash),
                            index |-> at[d - 1].index \div 2]]

\* There is one.
LEMMA FoldExists ==
  ASSUME NEW txid, NEW branch, NEW index
  PROVE  \E at : Folds(at, txid, branch, index)
<1> DEFINE first == [hash |-> txid, index |-> index]
           Up(below, d) == [hash  |-> IF below.index % 2 = 0 THEN Node(below.hash, branch[d])
                                   ELSE Node(branch[d], below.hash),
                         index |-> below.index \div 2]
           To(g, n) == g = [d \in 0..n |-> IF d = 0 THEN first ELSE Up(g[d - 1], d)]
<1> SUFFICES \E at : at = [d \in Nat |-> IF d = 0 THEN first ELSE Up(at[d - 1], d)]
  BY DEF Folds
<1> HIDE DEF first, Up
<1>a. \E g : To(g, 0)
  <2>1. To([d \in 0..0 |-> first], 0)
    OBVIOUS
  <2> QED BY <2>1
<1>b. ASSUME NEW n \in Nat, NEW g, To(g, n)
      PROVE  \E h : To(h, n + 1)
  <2>1. PICK h : h = [d \in 0..(n + 1) |-> IF d = 0 THEN first ELSE Up(g[d - 1], d)]
    OBVIOUS
  <2>2. \A d \in 0..n : h[d] = g[d]
    BY <1>b, <2>1
  <2>3. ASSUME NEW d \in 0..(n + 1)
        PROVE  h[d] = IF d = 0 THEN first ELSE Up(h[d - 1], d)
    <3>1. CASE d = 0
      BY <2>1, <3>1
    <3>2. CASE d # 0
      <4>1. d - 1 \in 0..n
        BY <3>2
      <4> QED BY <2>1, <2>2, <3>2, <4>1
    <3> QED BY <3>1, <3>2
  <2>4. To(h, n + 1)
    BY <2>1, <2>3
  <2> QED BY <2>4
<1>1. \A n \in Nat : \E g : To(g, n)
  <2> HIDE DEF To
  <2> DEFINE Bad == {n \in Nat : ~ \E g : To(g, n)}
  <2> SUFFICES ASSUME Bad # {} PROVE FALSE
    OBVIOUS
  <2>1. PICK n \in Bad : \A m \in Bad : n <= m
    BY Least
  <2>2. n # 0
    BY <1>a
  <2>3. n - 1 \in Nat /\ n - 1 \notin Bad
    BY <2>1, <2>2
  <2> QED BY <1>b, <2>3
<1>2. ASSUME NEW n \in Nat, NEW g, NEW h, To(g, n), To(h, n + 1)
      PROVE  g[n] = h[n]
  <2> DEFINE Bad == {d \in 0..n : g[d] # h[d]}
  <2> SUFFICES ASSUME Bad # {} PROVE FALSE
    OBVIOUS
  <2>0. Bad \in SUBSET Nat
    OBVIOUS
  <2>1. PICK d \in Bad : \A m \in Bad : d <= m
    <3> HIDE DEF Bad
    <3> QED BY <2>0, Least
  <2>2. d # 0
    BY <1>2
  <2>3. d - 1 \in 0..n /\ g[d - 1] = h[d - 1]
    BY <2>1, <2>2
  <2> QED BY <1>2, <2>2, <2>3
<1> HIDE DEF To
<1>3. PICK F : F = [n \in Nat |-> CHOOSE g : To(g, n)]
  OBVIOUS
<1>4. \A n \in Nat : To(F[n], n)
  BY <1>1, <1>3
<1>5. PICK at : at = [d \in Nat |-> F[d][d]]
  OBVIOUS
<1>6. ASSUME NEW d \in Nat
      PROVE  at[d] = IF d = 0 THEN first ELSE Up(at[d - 1], d)
  <2>0. F[d] = [e \in 0..d |-> IF e = 0 THEN first ELSE Up(F[d][e - 1], e)]
    BY <1>4 DEF To
  <2>1. F[d][d] = IF d = 0 THEN first ELSE Up(F[d][d - 1], d)
    BY <2>0
  <2>2. CASE d = 0
    BY <1>5, <2>1, <2>2
  <2>3. CASE d # 0
    <3>1. d - 1 \in Nat /\ F[d - 1][d - 1] = F[d][d - 1]
      BY <1>2, <1>4, <2>3
    <3> QED BY <1>5, <2>1, <2>3, <3>1
  <2> QED BY <2>2, <2>3
<1>7. at = [d \in Nat |-> IF d = 0 THEN first ELSE Up(at[d - 1], d)]
  BY <1>5, <1>6
<1> QED BY <1>7

\* One more round of the fold.
LEMMA FoldIs ==
  ASSUME NEW txid, NEW branch, NEW index
  PROVE  /\ Folded(txid, branch, index)[0] = [hash |-> txid, index |-> index]
         /\ \A d \in Nat :
              LET below == Folded(txid, branch, index)[d]
              IN  Folded(txid, branch, index)[d + 1] =
                    [hash  |-> IF below.index % 2 = 0 THEN Node(below.hash, branch[d + 1])
                               ELSE Node(branch[d + 1], below.hash),
                     index |-> below.index \div 2]
<1>1. Folded(txid, branch, index) = CHOOSE at : Folds(at, txid, branch, index)
  BY DEF Folded, Folds
<1>2. Folds(Folded(txid, branch, index), txid, branch, index)
  BY <1>1, FoldExists
<1> QED BY <1>2 DEF Folds
-----------------------------------------------------------------------------
(* A branch leads to the root *)

\* Levels get shorter until they are one node, and the place stays on them.
LEMMA Levels ==
  ASSUME NEW leaves, IsSeq(leaves), NEW index \in 0..(Len(leaves) - 1), NEW d \in Nat
  PROVE  /\ IsSeq(Climb(leaves, index)[d].level)
         /\ Climb(leaves, index)[d].index \in 0..(Len(Climb(leaves, index)[d].level) - 1)
         /\ \/ Len(Climb(leaves, index)[d].level) = 1
            \/ Len(Climb(leaves, index)[d].level) <= Len(leaves) - d
         /\ Climb(leaves, 0)[d].level = Climb(leaves, index)[d].level
<1> DEFINE at == Climb(leaves, index)
           at0 == Climb(leaves, 0)
           Good(n) == /\ IsSeq(at[n].level)
                      /\ at[n].index \in 0..(Len(at[n].level) - 1)
                      /\ Len(at[n].level) = 1 \/ Len(at[n].level) <= Len(leaves) - n
                      /\ at0[n].level = at[n].level
<1>1. Len(leaves) \in Nat /\ Len(leaves) >= 1
  BY DEF IsSeq
<1>2. /\ at[0] = [level |-> leaves, index |-> index]
      /\ at0[0] = [level |-> leaves, index |-> 0]
      /\ \A n \in Nat : /\ at[n + 1] = [level |-> NextLevel(at[n].level),
                                       index |-> at[n].index \div 2]
                        /\ at0[n + 1] = [level |-> NextLevel(at0[n].level),
                                        index |-> at0[n].index \div 2]
  BY ClimbIs
<1> HIDE DEF at, at0
<1>3. Good(0)
  BY <1>1, <1>2
<1>4. ASSUME NEW n \in Nat, Good(n)
      PROVE  Good(n + 1)
  <2>1. PICK level : level = at[n].level
    OBVIOUS
  <2>2. PICK i : i = at[n].index
    OBVIOUS
  <2>3. /\ IsSeq(level) /\ i \in 0..(Len(level) - 1) /\ at0[n].level = level
        /\ Len(level) = 1 \/ Len(level) <= Len(leaves) - n
    BY <1>4, <2>1, <2>2
  <2>4. Len(level) \in Nat /\ Len(level) >= 1
    BY <2>3 DEF IsSeq
  <2>5. /\ IsSeq(NextLevel(level)) /\ Len(NextLevel(level)) = (Len(level) + 1) \div 2
        /\ i \div 2 \in 0..(Len(NextLevel(level)) - 1)
    BY <2>3, <2>4, LevelAbove
  <2>6. \/ Len(NextLevel(level)) = 1
        \/ Len(NextLevel(level)) <= Len(leaves) - (n + 1)
    <3>1. CASE Len(level) = 1
      BY <2>5, <3>1
    <3>2. CASE Len(level) # 1
      <4>1. (Len(level) + 1) \div 2 <= Len(level) - 1
        <5>1. \A k \in Nat : k >= 2 => (k + 1) \div 2 <= k - 1
          OBVIOUS
        <5>2. Len(level) \in Nat /\ Len(level) >= 2
          BY <2>4, <3>2
        <5> QED BY <5>1, <5>2
      <4>2. Len(level) <= Len(leaves) - n
        BY <2>3, <3>2
      <4>3. Len(NextLevel(level)) \in Nat
        BY <2>4, <2>5
      <4> QED BY <1>1, <2>4, <2>5, <4>1, <4>2, <4>3
    <3> QED BY <3>1, <3>2
  <2>7. /\ at[n + 1].level = NextLevel(level) /\ at[n + 1].index = i \div 2
        /\ at0[n + 1].level = NextLevel(level)
    <3>1. at[n + 1] = [level |-> NextLevel(level), index |-> i \div 2]
      BY <1>2, <2>1, <2>2
    <3>2. at0[n + 1] = [level |-> NextLevel(level), index |-> at0[n].index \div 2]
      BY <1>2, <2>3
    <3> QED BY <3>1, <3>2
  <2> QED BY <2>5, <2>6, <2>7
<1>5. Good(d)
  <2> HIDE DEF Good
  <2> DEFINE Bad == {n \in Nat : ~ Good(n)}
  <2> SUFFICES ASSUME Bad # {} PROVE FALSE
    OBVIOUS
  <2>1. PICK n \in Bad : \A m \in Bad : n <= m
    BY Least
  <2>2. n # 0
    BY <1>3
  <2>3. n - 1 \in Nat /\ n - 1 \notin Bad
    BY <2>1, <2>2
  <2> QED BY <1>4, <2>3
<1> QED BY <1>5 DEF at, at0

\* The loop ends.
LEMMA DepthIs ==
  ASSUME NEW leaves, IsSeq(leaves), Len(leaves) >= 1
  PROVE  Depth(leaves) \in Nat /\ Len(Climb(leaves, 0)[Depth(leaves)].level) = 1
<1> DEFINE Ends == {d \in 0..Len(leaves) : Len(Climb(leaves, 0)[d].level) = 1}
<1>1. Len(leaves) \in Nat
  BY DEF IsSeq
<1>2. Len(Climb(leaves, 0)[Len(leaves)].level) = 1
  <2>1. 0 \in 0..(Len(leaves) - 1)
    BY <1>1
  <2>2. PICK n : n = Len(Climb(leaves, 0)[Len(leaves)].level)
    OBVIOUS
  <2>3. /\ IsSeq(Climb(leaves, 0)[Len(leaves)].level)
        /\ Climb(leaves, 0)[Len(leaves)].index \in 0..(n - 1)
        /\ n = 1 \/ n <= Len(leaves) - Len(leaves)
    BY <1>1, <2>1, <2>2, Levels
  <2>4. n \in Nat
    BY <2>2, <2>3 DEF IsSeq
  <2> QED BY <1>1, <2>2, <2>3, <2>4
<1>3. Len(leaves) \in Ends /\ Ends \in SUBSET Nat
  BY <1>1, <1>2
<1>4. \E d \in Ends : \A e \in Ends : d <= e
  <2> HIDE DEF Ends
  <2> QED BY <1>3, Least
<1>5. Depth(leaves) = Min(Ends)
  BY DEF Depth
<1>6. Min(Ends) \in Ends
  <2> HIDE DEF Ends
  <2> QED BY <1>4 DEF Min
<1> QED BY <1>3, <1>5, <1>6

\* merkle_branch and merkle_root_from_branch agree, whatever the number of
\* transactions and the place of one among them.
THEOREM BranchLeadsToRoot ==
  ASSUME NEW leaves, IsSeq(leaves), NEW index \in 0..(Len(leaves) - 1)
  PROVE  /\ MerkleRootFromBranch(leaves[index + 1], MerkleBranch(leaves, index), index)
              = MerkleRoot(leaves)
         /\ Len(MerkleBranch(leaves, index)) = Depth(leaves)
<1> DEFINE at == Climb(leaves, index)
           branch == MerkleBranch(leaves, index)
           up == Folded(leaves[index + 1], branch, index)
           depth == Depth(leaves)
           Over(d) == up[d] = [hash |-> at[d].level[at[d].index + 1], index |-> at[d].index]
<1>1. Len(leaves) \in Nat /\ Len(leaves) >= 1
  BY DEF IsSeq
<1>2. depth \in Nat /\ Len(at[depth].level) = 1 /\ MerkleRoot(leaves) = at[depth].level[1]
  BY <1>1, DepthIs, Levels DEF MerkleRoot
<1>3. /\ Len(branch) = depth
      /\ \A d \in 1..depth :
           branch[d] = Padded(at[d - 1].level)[Sibling(at[d - 1].index) + 1]
  <2>1. branch = [d \in 1..depth |-> Padded(at[d - 1].level)[Sibling(at[d - 1].index) + 1]]
    BY DEF MerkleBranch
  <2> HIDE DEF branch, at, depth
  <2>2. branch = [d \in 1..depth |-> branch[d]]
    BY <2>1
  <2> QED BY <1>2, <2>1, <2>2, LengthIs
<1>4. /\ at[0] = [level |-> leaves, index |-> index]
      /\ \A d \in Nat : at[d + 1] = [level |-> NextLevel(at[d].level),
                                    index |-> at[d].index \div 2]
  BY ClimbIs
<1>6. \A d \in Nat : /\ IsSeq(at[d].level) /\ at[d].index \in 0..(Len(at[d].level) - 1)
  BY Levels
<1> HIDE DEF at, branch, depth
<1>5. /\ up[0] = [hash |-> leaves[index + 1], index |-> index]
      /\ \A d \in Nat :
           up[d + 1] = [hash  |-> IF up[d].index % 2 = 0 THEN Node(up[d].hash, branch[d + 1])
                                  ELSE Node(branch[d + 1], up[d].hash),
                        index |-> up[d].index \div 2]
  BY FoldIs
<1> HIDE DEF up
<1>7. Over(0)
  BY <1>4, <1>5
<1>8. ASSUME NEW d \in Nat, d < depth, Over(d)
      PROVE  Over(d + 1)
  <2>1. PICK level : level = at[d].level
    OBVIOUS
  <2>2. PICK i : i = at[d].index
    OBVIOUS
  <2>3. IsSeq(level) /\ Len(level) \in Nat /\ i \in 0..(Len(level) - 1) /\ Len(level) >= 1
    BY <1>6, <2>1, <2>2 DEF IsSeq
  <2>4. branch[d + 1] = Padded(level)[Sibling(i) + 1]
    <3>1. d + 1 \in 1..depth /\ (d + 1) - 1 = d
      BY <1>2, <1>8
    <3> QED BY <1>3, <2>1, <2>2, <3>1
  <2>5. NextLevel(level)[i \div 2 + 1] =
          IF i % 2 = 0 THEN Node(level[i + 1], Padded(level)[Sibling(i) + 1])
          ELSE Node(Padded(level)[Sibling(i) + 1], level[i + 1])
    BY <2>3, LevelAbove
  <2>6. up[d].hash = level[i + 1] /\ up[d].index = i
    BY <1>8, <2>1, <2>2
  <2>7. up[d + 1] = [hash |-> NextLevel(level)[i \div 2 + 1], index |-> i \div 2]
    BY <1>5, <2>4, <2>5, <2>6
  <2>8. at[d + 1] = [level |-> NextLevel(level), index |-> i \div 2]
    BY <1>4, <2>1, <2>2
  <2> QED BY <2>7, <2>8
<1>9. Over(depth)
  <2> HIDE DEF Over
  <2> DEFINE Bad == {n \in 0..depth : ~ Over(n)}
  <2> SUFFICES ASSUME Bad # {} PROVE FALSE
    BY <1>2
  <2>1. Bad \in SUBSET Nat
    BY <1>2
  <2>2. PICK n \in Bad : \A m \in Bad : n <= m
    <3> HIDE DEF Bad
    <3> QED BY <2>1, Least
  <2>3. n # 0
    BY <1>7
  <2>4. n - 1 \in Nat /\ n - 1 < depth /\ n - 1 \notin Bad /\ (n - 1) + 1 = n
    BY <1>2, <2>2, <2>3
  <2>5. Over(n - 1)
    BY <1>2, <2>4
  <2> QED BY <1>8, <2>4, <2>5
<1>10. up[depth].hash = at[depth].level[1]
  <2>1. at[depth].index = 0
    <3>1. at[depth].index \in 0..(Len(at[depth].level) - 1)
      BY <1>2, <1>6
    <3>2. at[depth].index \in 0..(1 - 1)
      BY <1>2, <3>1
    <3> QED BY <3>2
  <2> QED BY <1>9, <2>1
<1> QED BY <1>2, <1>3, <1>10 DEF MerkleRootFromBranch, up, branch, depth

-----------------------------------------------------------------------------
(* What verifies *)

\* What scan_block takes out of a block is paid by it and proved by its branch.
LEMMA FoundIs ==
  ASSUME NEW block \in Block, NEW found \in FoundOutputs(block, Params.script)
  PROVE  /\ ~found.raw.witness /\ found.vout < Len(found.raw.outputs)
         /\ found.raw.outputs[found.vout + 1] = [script |-> Params.script, sats |-> found.sats]
         /\ Len(found.branch) <= MaxMerkleDepth
         /\ MerkleRootFromBranch(Hash(found.raw), found.branch, found.index)
              = block.header.root
<1> DEFINE ids == Txids(block)
<1>1. /\ block.txs \in Seq(Transaction) /\ block.txs # <<>>
      /\ block.header.root = MerkleRoot(ids) /\ Depth(ids) <= MaxMerkleDepth
  BY BlockAssumption
<1>2. PICK i \in DOMAIN block.txs : \E v \in DOMAIN block.txs[i].outputs :
        /\ block.txs[i].outputs[v].script = Params.script
        /\ found = [raw |-> Stripped(block.txs[i]), vout |-> v - 1,
                    sats |-> block.txs[i].outputs[v].sats,
                    branch |-> MerkleBranch(ids, i - 1), index |-> i - 1]
  BY DEF FoundOutputs
<1> PICK v \in DOMAIN block.txs[i].outputs :
        /\ block.txs[i].outputs[v].script = Params.script
        /\ found = [raw |-> Stripped(block.txs[i]), vout |-> v - 1,
                    sats |-> block.txs[i].outputs[v].sats,
                    branch |-> MerkleBranch(ids, i - 1), index |-> i - 1]
  BY <1>2
<1>3. PICK tx : tx = block.txs[i]
  OBVIOUS
<1>4. tx \in Transaction /\ i \in 1..Len(block.txs) /\ Len(block.txs) \in Nat
  BY <1>1, <1>2, <1>3
<1>5. /\ Stripped(tx).witness = FALSE /\ Stripped(tx).outputs = tx.outputs
  BY <1>4 DEF Stripped, Transaction
<1>6. /\ v \in 1..Len(tx.outputs) /\ Len(tx.outputs) \in Nat
      /\ tx.outputs[v] = [script |-> Params.script, sats |-> tx.outputs[v].sats]
  <2>1. tx.outputs \in Seq(Output)
    BY <1>4 DEF Transaction
  <2>2. v \in 1..Len(tx.outputs) /\ Len(tx.outputs) \in Nat /\ tx.outputs[v] \in Output
    BY <1>2, <1>3, <2>1
  <2> QED BY <1>2, <1>3, <2>2 DEF Output
<1>7. IsSeq(ids) /\ Len(ids) = Len(block.txs) /\ ids[i] = Hash(Stripped(tx))
  <2>1. ids = [j \in 1..Len(block.txs) |-> Txid(block.txs[j])]
    BY <1>1 DEF Txids
  <2> HIDE DEF ids
  <2>2. ids = [j \in 1..Len(block.txs) |-> ids[j]]
    BY <2>1
  <2>3. ids[i] = Hash(Stripped(tx))
    BY <1>3, <1>4, <2>1 DEF Txid
  <2> QED BY <1>4, <2>2, <2>3, LengthIs
<1> HIDE DEF ids
<1>8. /\ MerkleRootFromBranch(ids[i], MerkleBranch(ids, i - 1), i - 1) = MerkleRoot(ids)
      /\ Len(MerkleBranch(ids, i - 1)) = Depth(ids)
  <2>1. i - 1 \in 0..(Len(ids) - 1) /\ (i - 1) + 1 = i
    BY <1>4, <1>7
  <2>2. /\ MerkleRootFromBranch(ids[(i - 1) + 1], MerkleBranch(ids, i - 1), i - 1) = MerkleRoot(ids)
        /\ Len(MerkleBranch(ids, i - 1)) = Depth(ids)
    BY <1>7, <2>1, BranchLeadsToRoot
  <2> QED BY <2>1, <2>2
<1>9. (v - 1) + 1 = v /\ v - 1 < Len(tx.outputs)
  BY <1>6
<1> QED BY <1>1, <1>2, <1>3, <1>5, <1>6, <1>7, <1>8, <1>9

\* A run of headers, each over the one before.
Linked(run) == \A i \in 1..(Len(run) - 1) : run[i + 1].prev = HashOf(run[i])

\* Of evidence for what was found in a block, what is left to check.
LEMMA SpvIs ==
  ASSUME NEW block \in Block, NEW found \in FoundOutputs(block, Params.script), NEW bridge,
         NEW header, NEW following
  PROVE  LET claim == Signed(Params, bridge, found, block, Proof(found, header, following))
             run   == <<header>> \o following
         IN  SpvHolds(claim.proof, claim.says, Params.script) <=>
               /\ found.raw.size <= MaxRawTx
               /\ Len(following) <= MaxFollowingHeaders
               /\ header = block.header
               /\ \A i \in DOMAIN run : HeaderHolds(run[i])
               /\ Linked(run)
<1>1. HashOf(header) = HashOf(block.header) <=> header = block.header
  BY DEF HashOf
<1> QED
  BY <1>1, FoundIs DEF SpvHolds, Signed, Proof, Parses, Linked

\* The claim holds if its evidence does, and proves the run's length.
LEMMA ClaimIs ==
  ASSUME NEW bridge \in Params.bridges, NEW found, NEW block, NEW proof
  PROVE  LET claim == Signed(Params, bridge, found, block, proof)
         IN  /\ ClaimHolds(claim, Params) <=> SpvHolds(claim.proof, claim.says, Params.script)
             /\ claim.proof = proof /\ claim.script = Params.script
BY DEF ClaimHolds, Signed

\* Headers that are linked are those below the last.
LEMMA Descent ==
  ASSUME NEW chain \in Chain, NEW run, Linked(run),
         NEW top \in 1..Len(chain), Len(run) \in 1..top, chain[top].header = run[Len(run)]
  PROVE  \A k \in 0..(Len(run) - 1) :
           top - k \in 1..Len(chain) /\ chain[top - k].header = run[Len(run) - k]
<1> PICK n \in Nat \ {0} : n = Len(run) /\ n <= top
  OBVIOUS
<1> DEFINE Bad == {k \in 0..(n - 1) : chain[top - k].header # run[n - k]}
<1>1. /\ Len(chain) \in Nat /\ top \in Nat
      /\ \A j \in 2..Len(chain) : chain[j].header.prev = HashOf(chain[j - 1].header)
  BY ChainAssumption
<1>2. Bad = {}
  <2> SUFFICES ASSUME Bad # {} PROVE FALSE
    OBVIOUS
  <2>1. Bad \in SUBSET Nat
    OBVIOUS
  <2>2. PICK k \in Bad : \A m \in Bad : k <= m
    <3> HIDE DEF Bad
    <3> QED BY <2>1, Least
  <2>3. k \in 0..(n - 1) /\ chain[top - k].header # run[n - k]
    OBVIOUS
  <2>4. k # 0
    <3> SUFFICES ASSUME k = 0 PROVE FALSE
      OBVIOUS
    <3> HIDE DEF Bad
    <3>1. n - k = n /\ top - k = top
      BY <1>1
    <3>2. chain[top].header # run[n]
      BY <2>3, <3>1
    <3> QED BY <3>2
  <2>5. PICK m \in 0..(n - 1) : m = k - 1
    <3> HIDE DEF Bad
    <3>1. k - 1 \in 0..(n - 1)
      BY <2>3, <2>4
    <3> QED BY <3>1
  <2>6. m \notin Bad
    <3>1. k \in Nat /\ ~ (k <= m)
      BY <2>3, <2>5
    <3> HIDE DEF Bad
    <3> QED BY <2>2, <3>1
  <2>7. chain[top - m].header = run[n - m]
    BY <2>6
  <2>8. PICK i \in 1..(n - 1) : i = n - k /\ i + 1 = n - m
    <3> HIDE DEF Bad
    <3>1. n - k \in 1..(n - 1) /\ (n - k) + 1 = n - m
      BY <2>3, <2>4, <2>5
    <3> QED BY <3>1
  <2>9. PICK j \in 2..Len(chain) : j = top - m /\ j - 1 = top - k
    <3> HIDE DEF Bad
    <3>1. top - m \in 2..Len(chain) /\ (top - m) - 1 = top - k
      BY <1>1, <2>3, <2>4, <2>5
    <3> QED BY <3>1
  <2>10. HashOf(chain[j - 1].header) = HashOf(run[i])
    <3>1. run[i + 1].prev = HashOf(run[i])
      BY <2>8 DEF Linked
    <3> QED BY <1>1, <2>7, <2>8, <2>9, <3>1
  <2>11. chain[j - 1].header = run[i]
    BY <2>10 DEF HashOf
  <2> QED BY <2>3, <2>8, <2>9, <2>11
<1>3. ASSUME NEW k \in 0..(n - 1)
      PROVE  top - k \in 1..Len(chain) /\ chain[top - k].header = run[n - k]
  <2>1. k \notin Bad
    BY <1>2
  <2>2. chain[top - k].header = run[n - k]
    BY <2>1
  <2>3. top - k \in 1..Len(chain)
    BY <1>1
  <2> QED BY <2>2, <2>3
<1> QED BY <1>3

\* Headers of a chain the node had, the first that of the block, are linked; and
\* linked ones, however they were read, are of a chain that has the block.
Read(H, h, run) ==
  \A i \in 1..Len(run) :
    \E chain \in H : h + i - 1 \in DOMAIN chain /\ chain[h + i - 1].header = run[i]

Along(chain, h, block, run) ==
  /\ h \in DOMAIN chain /\ chain[h] = block
  /\ \A i \in DOMAIN run : h + i - 1 \in DOMAIN chain /\ chain[h + i - 1].header = run[i]

LEMMA OneChain ==
  ASSUME NEW H \in SUBSET Chain, NEW block \in Block, NEW h \in Nat \ {0},
         NEW run, IsSeq(run), Len(run) # 0, Read(H, h, run)
  PROVE  run[1] = block.header /\ Linked(run)
           <=> \E chain \in H : Along(chain, h, block, run)
<1>1. Len(run) \in Nat \ {0} /\ DOMAIN run = 1..Len(run)
  BY DEF IsSeq
<1>2. ASSUME NEW chain \in H
      PROVE  /\ Len(chain) \in Nat /\ DOMAIN chain = 1..Len(chain)
             /\ \A j \in 1..Len(chain) : chain[j] \in Block
             /\ \A j \in 2..Len(chain) : chain[j].header.prev = HashOf(chain[j - 1].header)
  BY ChainAssumption
<1>3. ASSUME run[1] = block.header, Linked(run)
      PROVE  \E chain \in H : Along(chain, h, block, run)
  <2>1. PICK n \in Nat \ {0} : n = Len(run)
    BY <1>1
  <2>2. PICK chain \in H : h + n - 1 \in DOMAIN chain /\ chain[h + n - 1].header = run[n]
    BY <2>1 DEF Read
  <2>3. \A i \in 1..n : h + i - 1 \in 1..Len(chain) /\ chain[h + i - 1].header = run[i]
    <3>1. chain \in Chain
      OBVIOUS
    <3>2. PICK top \in 1..Len(chain) : top = h + n - 1
      BY <1>2, <2>2
    <3>3. Linked(run) /\ Len(run) \in 1..top /\ chain[top].header = run[Len(run)]
      BY <1>3, <2>1, <2>2, <3>2
    <3>4. \A k \in 0..(Len(run) - 1) :
            top - k \in 1..Len(chain) /\ chain[top - k].header = run[Len(run) - k]
      BY <3>1, <3>3, Descent
    <3> TAKE i \in 1..n
    <3>5. PICK k \in 0..(Len(run) - 1) : top - k = h + i - 1 /\ Len(run) - k = i
      <4>1. n - i \in 0..(Len(run) - 1) /\ top - (n - i) = h + i - 1 /\ Len(run) - (n - i) = i
        BY <2>1, <3>2
      <4> QED BY <4>1
    <3> QED BY <3>4, <3>5
  <2>4. h \in 1..Len(chain) /\ chain[h].header = block.header
    <3>1. h + 1 - 1 \in 1..Len(chain) /\ chain[h + 1 - 1].header = run[1]
      BY <2>3
    <3>2. h + 1 - 1 = h
      OBVIOUS
    <3> QED BY <1>3, <3>1, <3>2
  <2>5. chain[h] = block
    BY <1>2, <2>4, BlockAssumption
  <2>6. Along(chain, h, block, run)
    BY <1>1, <1>2, <2>1, <2>3, <2>4, <2>5 DEF Along
  <2> QED BY <2>6
<1>4. ASSUME NEW chain \in H, Along(chain, h, block, run)
      PROVE  run[1] = block.header /\ Linked(run)
  <2>1. run[1] = block.header
    <3>1. 1 \in DOMAIN run
      BY <1>1
    <3>2. chain[h + 1 - 1].header = run[1] /\ chain[h] = block
      BY <1>4, <3>1 DEF Along
    <3>3. h + 1 - 1 = h
      OBVIOUS
    <3> QED BY <3>2, <3>3
  <2>2. ASSUME NEW i \in 1..(Len(run) - 1) PROVE run[i + 1].prev = HashOf(run[i])
    <3>1. i \in DOMAIN run /\ i + 1 \in DOMAIN run
      BY <1>1
    <3>2. PICK j \in Nat : j = h + (i + 1) - 1
      BY <1>1
    <3>3. j \in 2..Len(chain) /\ j - 1 = h + i - 1
      <4>1. j \in 1..Len(chain)
        BY <1>2, <1>4, <3>1, <3>2 DEF Along
      <4>2. i \in Nat \ {0}
        BY <1>1
      <4> QED BY <3>2, <4>1, <4>2
    <3>4. chain[j].header = run[i + 1] /\ chain[j - 1].header = run[i]
      BY <1>4, <3>1, <3>2, <3>3 DEF Along
    <3> QED BY <1>2, <3>3, <3>4
  <2> QED BY <2>1, <2>2 DEF Linked
<1> QED BY <1>3, <1>4

-----------------------------------------------------------------------------
(* Every behaviour *)

\* Each header read is of some chain the node has had, at its height, and so is
\* the block the output was found in.
Gathered ==
  /\ assembly = [step |-> "headers", tip |-> assembly.tip, height |-> assembly.height,
                 block |-> assembly.block, found |-> assembly.found,
                 depth |-> assembly.depth, rung |-> assembly.rung, run |-> assembly.run]
  /\ assembly.height \in Nat \ {0} /\ assembly.rung \in 2..MaxRung
  /\ assembly.depth = HeaderDepth(assembly.rung)
  /\ assembly.block \in Block
  /\ assembly.found \in FoundOutputs(assembly.block, Params.script)
  /\ IsSeq(assembly.run) /\ Len(assembly.run) <= assembly.depth
  /\ Read(had, assembly.height, assembly.run)

EvidenceInv ==
  /\ had \subseteq Chain /\ node \in had
  /\ assembly.step = "headers" => Gathered

\* A rung carries a header at least, and no more than a verifier takes.
LEMMA DepthOfRung ==
  ASSUME NEW rung \in 2..MaxRung
  PROVE  /\ HeaderDepth(rung) \in 1..(MaxFollowingHeaders + 1)
         /\ HeaderDepth(rung) = Min({rung, MaxFollowingHeaders + 1})
<1>1. MaxFollowingHeaders \in Nat /\ rung \in Nat \ {0}
  BY EvidenceAssumption
<1>2. PICK m \in {rung, MaxFollowingHeaders + 1} :
        \A x \in {rung, MaxFollowingHeaders + 1} : m <= x
  BY <1>1
<1>3. /\ Min({rung, MaxFollowingHeaders + 1}) \in {rung, MaxFollowingHeaders + 1}
      /\ \A x \in {rung, MaxFollowingHeaders + 1} :
           Min({rung, MaxFollowingHeaders + 1}) <= x
  BY <1>2 DEF Min
<1> QED BY <1>1, <1>3 DEF HeaderDepth

LEMMA EvidenceBegins == EvidenceInit => EvidenceInv
BY DEF EvidenceInit, EvidenceInv, Idle

LEMMA EvidenceStep == EvidenceInv /\ [EvidenceNext]_evidenceVars => EvidenceInv'
<1> SUFFICES ASSUME EvidenceInv, [EvidenceNext]_evidenceVars PROVE EvidenceInv'
  OBVIOUS
<1>1. had \subseteq Chain /\ node \in had /\ (assembly.step = "headers" => Gathered)
  BY DEF EvidenceInv
<1>2. ASSUME NEW chain \in Chain, Move(chain) PROVE EvidenceInv'
  <2>1. had' = had \cup {chain} /\ node' = chain /\ assembly' = assembly
    BY <1>2 DEF Move
  <2>2. Gathered => Gathered'
    BY <2>1 DEF Gathered, Read
  <2> QED BY <1>1, <2>1, <2>2 DEF EvidenceInv
<1>3. ASSUME ReadTip PROVE EvidenceInv'
  BY <1>1, <1>3 DEF ReadTip, EvidenceInv
<1>4. ASSUME NEW height \in 1..Len(node), NEW rung \in 2..MaxRung, ReadBlock(height, rung)
      PROVE  EvidenceInv'
  <2>1. PICK found \in FoundOutputs(node[height], Params.script) :
          assembly' = [step |-> "headers", tip |-> assembly.tip, height |-> height,
                       block |-> node[height], found |-> found,
                       depth |-> HeaderDepth(rung), rung |-> rung, run |-> <<>>]
    BY <1>4 DEF ReadBlock
  <2>2. had' = had /\ node' = node /\ node \in Seq(Block)
    <3>1. node \in Seq(Block)
      BY <1>1, ChainAssumption
    <3> QED BY <1>4, <3>1 DEF ReadBlock
  <2>3. node[height] \in Block /\ height \in Nat \ {0}
    BY <2>2
  <2>4. IsSeq(<<>>) /\ Len(<<>>) = 0 /\ 0 <= HeaderDepth(rung)
    <3>1. IsSeq(<<>>)
      <4>1. <<>> \in Seq(Block)
        OBVIOUS
      <4> QED BY <4>1, Seqs
    <3>2. HeaderDepth(rung) \in 1..(MaxFollowingHeaders + 1)
      BY DepthOfRung
    <3>3. MaxFollowingHeaders \in Nat
      BY EvidenceAssumption
    <3>4. 0 <= HeaderDepth(rung)
      BY <3>2, <3>3
    <3> QED BY <3>1, <3>4
  <2>5. Gathered'
    BY <2>1, <2>3, <2>4 DEF Gathered, Read
  <2> QED BY <1>1, <2>2, <2>5 DEF EvidenceInv
<1>5. ASSUME ReadHeader PROVE EvidenceInv'
  <2>1. PICK h : h = assembly.height + Len(assembly.run)
    OBVIOUS
  <2>2. /\ assembly.step = "headers" /\ Len(assembly.run) < assembly.depth
        /\ assembly' = IF h \in DOMAIN node
                       THEN [assembly EXCEPT !.run = Append(@, node[h].header)] ELSE Idle
        /\ had' = had /\ node' = node
    BY <1>5, <2>1 DEF ReadHeader
  <2>3. Gathered
    BY <1>1, <2>2
  <2>4. CASE h \notin DOMAIN node
    BY <1>1, <2>2, <2>4 DEF EvidenceInv, Idle
  <2>5. CASE h \in DOMAIN node
    <3>1. PICK run : run = Append(assembly.run, node[h].header)
      OBVIOUS
    <3>2. assembly' = [assembly EXCEPT !.run = run]
      BY <2>2, <2>5, <3>1
    <3>3. /\ assembly' = [step |-> "headers", tip |-> assembly.tip,
                          height |-> assembly.height, block |-> assembly.block,
                          found |-> assembly.found, depth |-> assembly.depth,
                          rung |-> assembly.rung, run |-> run]
      <4>1. assembly = [step |-> "headers", tip |-> assembly.tip, height |-> assembly.height,
                        block |-> assembly.block, found |-> assembly.found,
                        depth |-> assembly.depth, rung |-> assembly.rung,
                        run |-> assembly.run]
        BY <2>3 DEF Gathered
      <4> QED BY <3>2, <4>1
    <3>4. /\ IsSeq(run) /\ Len(run) = Len(assembly.run) + 1 /\ Len(assembly.run) \in Nat
          /\ \A i \in 1..Len(assembly.run) : run[i] = assembly.run[i]
          /\ run[Len(run)] = node[h].header
      <4>1. assembly.run \in Seq({assembly.run[i] : i \in 1..Len(assembly.run)})
        BY <2>3, Seqs DEF Gathered
      <4>2. PICK X : X = {assembly.run[i] : i \in 1..Len(assembly.run)} \cup {node[h].header}
        OBVIOUS
      <4>3. assembly.run \in Seq(X) /\ node[h].header \in X
        BY <4>1, <4>2
      <4>4. run \in Seq(X)
        BY <3>1, <4>3
      <4>5. IsSeq(run)
        BY <4>4, Seqs
      <4> QED BY <3>1, <4>3, <4>5
    <3>5. h = assembly.height + Len(run) - 1
      BY <2>1, <2>3, <3>4 DEF Gathered
    <3>6. ASSUME NEW i \in 1..Len(run)
          PROVE  \E chain \in had : /\ assembly.height + i - 1 \in DOMAIN chain
                                    /\ chain[assembly.height + i - 1].header = run[i]
      <4>1. CASE i = Len(run)
        BY <1>1, <2>5, <3>4, <3>5, <4>1
      <4>2. CASE i # Len(run)
        <5>1. i \in 1..Len(assembly.run)
          BY <3>4, <4>2
        <5> QED BY <2>3, <3>4, <5>1 DEF Gathered, Read
      <4> QED BY <4>1, <4>2
    <3>7. Len(run) <= assembly.depth
      <4>1. assembly.depth \in Nat
        <5>1. assembly.rung \in 2..MaxRung /\ assembly.depth = HeaderDepth(assembly.rung)
          BY <2>3 DEF Gathered
        <5>2. assembly.depth \in 1..(MaxFollowingHeaders + 1) /\ MaxFollowingHeaders \in Nat
          BY <5>1, DepthOfRung, EvidenceAssumption
        <5> QED BY <5>2
      <4> QED BY <2>2, <3>4, <4>1
    <3>8. Gathered'
      <4>1. /\ assembly' = [step |-> "headers", tip |-> assembly'.tip,
                            height |-> assembly'.height, block |-> assembly'.block,
                            found |-> assembly'.found, depth |-> assembly'.depth,
                            rung |-> assembly'.rung, run |-> assembly'.run]
            /\ assembly'.height = assembly.height /\ assembly'.block = assembly.block
            /\ assembly'.found = assembly.found /\ assembly'.depth = assembly.depth
            /\ assembly'.rung = assembly.rung /\ assembly'.run = run
        BY <3>3
      <4>2. Read(had, assembly.height, run)
        BY <3>6 DEF Read
      <4> QED BY <2>2, <2>3, <3>4, <3>7, <4>1, <4>2 DEF Gathered
    <3> QED BY <1>1, <2>2, <3>8 DEF EvidenceInv
  <2> QED BY <2>4, <2>5
<1>6. ASSUME SignDeep PROVE EvidenceInv'
  BY <1>1, <1>6 DEF SignDeep, EvidenceInv, Idle
<1>7. ASSUME UNCHANGED evidenceVars PROVE EvidenceInv'
  BY <1>1, <1>7 DEF evidenceVars, EvidenceInv, Gathered
<1> QED BY <1>2, <1>3, <1>4, <1>5, <1>6, <1>7 DEF EvidenceNext

\* A sequence not empty is its head and its tail.
LEMMA HeadAndTail ==
  ASSUME NEW s, IsSeq(s), Len(s) # 0
  PROVE  /\ <<Head(s)>> \o Tail(s) = s /\ Head(s) = s[1]
         /\ Len(Tail(s)) = Len(s) - 1 /\ Len(s) \in Nat
<1>1. PICK X : s \in Seq(X)
  BY Seqs
<1>2. s # <<>> /\ Len(s) \in Nat
  BY <1>1
<1>3. Len(Tail(s)) = Len(s) - 1 /\ Head(s) = s[1] /\ Tail(s) \in Seq(X)
  BY <1>1, <1>2
<1>4. PICK t : t = <<Head(s)>> \o Tail(s)
  OBVIOUS
<1>5. t \in Seq(X) /\ Len(t) = Len(s)
  <2>1. Head(s) \in X
    BY <1>1, <1>2
  <2>2. <<Head(s)>> \in Seq(X) /\ Len(<<Head(s)>>) = 1
    BY <2>1
  <2> QED BY <1>2, <1>3, <1>4, <2>2
<1>6. ASSUME NEW i \in 1..Len(s) PROVE t[i] = s[i]
  BY <1>1, <1>2, <1>3, <1>4
<1>7. t = s
  BY <1>1, <1>5, <1>6
<1> QED BY <1>2, <1>3, <1>4, <1>7

LEMMA InvJudges == EvidenceInv => EvidenceIsJudged
<1> SUFFICES ASSUME EvidenceInv, NEW bridge \in Params.bridges, assembly.step = "headers"
             PROVE  /\ ClaimHolds(FirstClaim(bridge, assembly.found, assembly.block), Params)
                         <=> Fits
                    /\ Whole =>
                         /\ ClaimHolds(DeepClaim(bridge), Params) <=> Fits /\ OfOneChain
                         /\ ProvenDepth(DeepClaim(bridge), Params) =
                              IF Fits /\ OfOneChain
                              THEN Min({assembly.rung, MaxFollowingHeaders + 1}) ELSE 0
  BY DEF EvidenceIsJudged, Whole
<1>1. Gathered /\ had \in SUBSET Chain
  BY DEF EvidenceInv
<1>2. PICK block \in Block : block = assembly.block
  BY <1>1 DEF Gathered
<1>3. PICK found \in FoundOutputs(block, Params.script) : found = assembly.found
  BY <1>1, <1>2 DEF Gathered
<1>4. HeaderHolds(block.header) /\ MaxFollowingHeaders \in Nat
  BY BlockAssumption, EvidenceAssumption
<1>5. ClaimHolds(FirstClaim(bridge, assembly.found, assembly.block), Params) <=> Fits
  <2>1. PICK claim : claim = Signed(Params, bridge, found, block, Proof(found, block.header, <<>>))
    OBVIOUS
  <2>2. <<block.header>> \o <<>> = <<block.header>>
    OBVIOUS
  <2>3. /\ Len(<<>>) = 0 /\ Linked(<<block.header>>)
        /\ \A i \in DOMAIN <<block.header>> : HeaderHolds(<<block.header>>[i])
    BY <1>4 DEF Linked
  <2>4. SpvHolds(claim.proof, claim.says, Params.script) <=>
          /\ found.raw.size <= MaxRawTx /\ Len(<<>>) <= MaxFollowingHeaders
          /\ block.header = block.header
          /\ \A i \in DOMAIN (<<block.header>> \o <<>>) :
               HeaderHolds((<<block.header>> \o <<>>)[i])
          /\ Linked(<<block.header>> \o <<>>)
    BY <2>1, SpvIs
  <2>5. SpvHolds(claim.proof, claim.says, Params.script) <=> Fits
    BY <1>3, <1>4, <2>2, <2>3, <2>4 DEF Fits
  <2> QED BY <1>2, <1>3, <2>1, <2>5, ClaimIs DEF FirstClaim
<1>6. ASSUME Whole
      PROVE  /\ ClaimHolds(DeepClaim(bridge), Params) <=> Fits /\ OfOneChain
             /\ ProvenDepth(DeepClaim(bridge), Params) =
                  IF Fits /\ OfOneChain
                  THEN Min({assembly.rung, MaxFollowingHeaders + 1}) ELSE 0
  <2>1. PICK run : run = assembly.run
    OBVIOUS
  <2>2. /\ IsSeq(run) /\ Len(run) \in 1..(MaxFollowingHeaders + 1)
        /\ Len(run) = Min({assembly.rung, MaxFollowingHeaders + 1})
    <3>1. /\ assembly.rung \in 2..MaxRung /\ assembly.depth = HeaderDepth(assembly.rung)
          /\ IsSeq(run) /\ Len(run) = assembly.depth
      BY <1>1, <1>6, <2>1 DEF Gathered, Whole
    <3>2. /\ HeaderDepth(assembly.rung) \in 1..(MaxFollowingHeaders + 1)
          /\ HeaderDepth(assembly.rung) = Min({assembly.rung, MaxFollowingHeaders + 1})
      BY <3>1, DepthOfRung
    <3> QED BY <3>1, <3>2
  <2>3. /\ <<Head(run)>> \o Tail(run) = run /\ Head(run) = run[1]
        /\ Len(Tail(run)) = Len(run) - 1 /\ Len(Tail(run)) <= MaxFollowingHeaders
    <3>1. Len(run) # 0 /\ Len(run) <= MaxFollowingHeaders + 1
      BY <1>4, <2>2
    <3>2. /\ <<Head(run)>> \o Tail(run) = run /\ Head(run) = run[1]
          /\ Len(Tail(run)) = Len(run) - 1 /\ Len(run) \in Nat
      BY <2>2, <3>1, HeadAndTail
    <3> QED BY <1>4, <3>1, <3>2
  <2>4. \A i \in DOMAIN run : HeaderHolds(run[i])
    <3> TAKE i \in DOMAIN run
    <3>1. i \in 1..Len(run)
      BY <2>2 DEF IsSeq
    <3>2. PICK chain \in had : \E h \in DOMAIN chain : chain[h].header = run[i]
      BY <1>1, <2>1, <3>1 DEF Gathered, Read
    <3>3. \E read \in Block : read.header = run[i]
      BY <1>1, <3>2, ChainAssumption
    <3> QED BY <3>3, BlockAssumption
  <2>5. run[1] = block.header /\ Linked(run) <=> OfOneChain
    <3>1. PICK h \in Nat \ {0} : h = assembly.height
      BY <1>1 DEF Gathered
    <3>2. Read(had, h, run)
      BY <1>1, <2>1, <3>1 DEF Gathered
    <3>3. Len(run) # 0
      BY <2>2
    <3>4. run[1] = block.header /\ Linked(run)
            <=> \E chain \in had : Along(chain, h, block, run)
      BY <1>1, <2>2, <3>2, <3>3, OneChain
    <3> QED BY <1>2, <2>1, <3>1, <3>4 DEF OfOneChain, Along
  <2>6. PICK claim : claim = Signed(Params, bridge, found, block,
                                    Proof(found, Head(run), Tail(run)))
    OBVIOUS
  <2>7. claim = DeepClaim(bridge)
    BY <1>2, <1>3, <2>1, <2>6 DEF DeepClaim
  <2>8. SpvHolds(claim.proof, claim.says, Params.script) <=> Fits /\ OfOneChain
    <3>1. SpvHolds(claim.proof, claim.says, Params.script) <=>
            /\ found.raw.size <= MaxRawTx /\ Len(Tail(run)) <= MaxFollowingHeaders
            /\ Head(run) = block.header
            /\ \A i \in DOMAIN (<<Head(run)>> \o Tail(run)) :
                 HeaderHolds((<<Head(run)>> \o Tail(run))[i])
            /\ Linked(<<Head(run)>> \o Tail(run))
      BY <2>6, SpvIs
    <3>2. SpvHolds(claim.proof, claim.says, Params.script) <=>
            Fits /\ run[1] = block.header /\ Linked(run)
      BY <1>3, <2>3, <2>4, <3>1 DEF Fits
    <3> QED BY <2>5, <3>2
  <2>9. /\ ClaimHolds(claim, Params) <=> SpvHolds(claim.proof, claim.says, Params.script)
        /\ claim.proof = Proof(found, Head(run), Tail(run)) /\ claim.script = Params.script
    BY <2>6, ClaimIs
  <2>10. 1 + Len(claim.proof.following) = Min({assembly.rung, MaxFollowingHeaders + 1})
    BY <2>2, <2>3, <2>9 DEF Proof
  <2> QED BY <2>7, <2>8, <2>9, <2>10 DEF ProvenDepth
<1> QED BY <1>5, <1>6

\* The evidence a bridge signs is accepted, at the depth of its rung, exactly when
\* its headers are of one chain and its transaction is not too large, whatever
\* the blocks and wherever the node's chain changed (EvidenceIsJudged).
THEOREM EvidenceJudged == EvidenceSpec => []EvidenceIsJudged
<1> QED
  BY EvidenceBegins, EvidenceStep, InvJudges, PTL DEF EvidenceSpec
=============================================================================
