------------------------ MODULE InboxReplicasProofs ------------------------
(***************************************************************************)
(* Theorems about an inbox and its bridge (InboxReplicas), for every set   *)
(* of peers and entries and every bound: first what the contract's merge   *)
(* does to one peer's state, and what a step of the network does to all of *)
(* them, then what comes of it with a bridge that reads and removes.       *)
(***************************************************************************)
EXTENDS InboxReplicas, FiniteSetTheorems, WellFoundedInduction, TLAPS

-----------------------------------------------------------------------------
(* What applying a delta does *)

LEMMA NormalizeType ==
  ASSUME NEW s \in State
  PROVE  Normalize(s) \in State
<1>. DEFINE R == DropCovered(Standing(s.removals, s.floor))
            W == {e \in s.entries : AtOrAbove(e.height, s.floor) /\ ~IsRemoved(R, e)}
<1>1. R \subseteq s.removals
  BY DEF DropCovered, Standing
<1>2. Kept(W) \subseteq W
  BY DEF Kept, KeptInAll, KeptPerGhostKey
<1>3. W \subseteq s.entries
  OBVIOUS
<1>4. CASE s.floor = NoFloor
  BY <1>4 DEF Normalize, EmptyState, State, Floor
<1>5. CASE s.floor # NoFloor
  <2>1. Normalize(s) = [floor |-> s.floor, entries |-> Kept(W), removals |-> R]
    BY <1>5 DEF Normalize
  <2>. HIDE DEF R, W
  <2>2. Kept(W) \in SUBSET Entry /\ R \in SUBSET BatchShape /\ s.floor \in Floor
    BY <1>1, <1>2, <1>3 DEF State
  <2>. QED
    BY <2>1, <2>2 DEF State
<1>. QED
  BY <1>4, <1>5

\* The pieces of AfterDelta, named.
ToRemovals(s, d) ==
  LET floor == AdoptedFloor(s.floor, d.floor)
      held  == Standing(s.removals, floor)
  IN  DropCovered(held \cup {b \in d.removals : ~BatchPassedOver(b, held, floor)})

ToEntries(s, d) ==
  s.entries \cup
    {e \in d.entries :
       ~EntryPassedOver(e, s.entries, ToRemovals(s, d), AdoptedFloor(s.floor, d.floor))}

LEMMA DeltaOutcome ==
  ASSUME NEW s, NEW d
  PROVE  \/ ApplyDelta(s, d) = s
         \/ ApplyDelta(s, d) =
              Normalize([floor    |-> AdoptedFloor(s.floor, d.floor),
                         entries  |-> ToEntries(s, d),
                         removals |-> ToRemovals(s, d)])
  BY DEF ApplyDelta, AfterDelta, ToEntries, ToRemovals

LEMMA FloorType ==
  ASSUME NEW f \in Floor, NEW g \in Floor
  PROVE  AdoptedFloor(f, g) \in Floor
  BY DEF AdoptedFloor

LEMMA ApplyDeltaType ==
  ASSUME NEW s \in State, NEW d \in State
  PROVE  ApplyDelta(s, d) \in State
<1>. DEFINE t == [floor    |-> AdoptedFloor(s.floor, d.floor),
                  entries  |-> ToEntries(s, d),
                  removals |-> ToRemovals(s, d)]
<1>1. AdoptedFloor(s.floor, d.floor) \in Floor
  BY FloorType DEF State
<1>2. ToRemovals(s, d) \subseteq s.removals \cup d.removals
  BY DEF ToRemovals, DropCovered, Standing
<1>3. ToEntries(s, d) \subseteq s.entries \cup d.entries
  BY DEF ToEntries
<1>4. t \in State
  BY <1>1, <1>2, <1>3 DEF State
<1>. QED
  BY <1>4, NormalizeType, DeltaOutcome

-----------------------------------------------------------------------------
(* What has gone stays gone *)

LEMMA FloorNeverFalls ==
  ASSUME NEW f \in Floor, NEW g \in Floor, f # NoFloor
  PROVE  /\ AdoptedFloor(f, g) \in Nat
         /\ AdoptedFloor(f, g) # NoFloor
         /\ f <= AdoptedFloor(f, g)
  BY BoundAssumption DEF AdoptedFloor, FloorAhead, Floor

\* Of finitely many prefixes, some batch that covers b is covered by no other.
LEMMA CoveredIsKept ==
  ASSUME NEW B \in SUBSET BatchShape, NEW b \in B
  PROVE  \E c \in DropCovered(B) : CoveredBy(b, c)
<1>. DEFINE Cover   == {c \in B : CoveredBy(b, c)}
            Left(c) == Cardinality(Prefix \ c.removed)
            Lefts   == {Left(c) : c \in Cover}
<1>1. b \in Cover
  BY DEF CoveredBy
<1>2. \A c \in B : IsFiniteSet(Prefix \ c.removed) /\ Left(c) \in Nat
  BY PrefixAssumption, FS_Difference, FS_CardinalityType
<1>3. Lefts \subseteq Nat /\ Lefts # {}
  BY <1>1, <1>2
<1>4. PICK n \in Lefts : \A m \in Lefts : ~(<<m, n>> \in OpToRel(<, Nat))
  BY <1>3, WFMin, NatLessThanWellFounded
<1>5. PICK c \in Cover : n = Left(c)
  BY <1>4
<1>6. \A m \in Lefts : ~(m < n)
  BY <1>3, <1>4 DEF OpToRel
<1>7. ASSUME NEW a \in B, ~SameBatchKey(c, a), CoveredBy(c, a)
      PROVE  FALSE
  <2>1. a \in Cover
    BY <1>5, <1>7 DEF CoveredBy
  <2>2. Prefix \ a.removed \subseteq Prefix \ c.removed
    BY <1>7 DEF CoveredBy
  <2>3. Prefix \ a.removed # Prefix \ c.removed
    BY <1>7, <1>5 DEF CoveredBy, SameBatchKey, BatchShape
  <2>4. Left(a) < Left(c)
    <3>1. /\ Cardinality(Prefix \ a.removed) <= Cardinality(Prefix \ c.removed)
          /\ Cardinality(Prefix \ c.removed) = Cardinality(Prefix \ a.removed)
               => Prefix \ c.removed = Prefix \ a.removed
      BY <1>2, <1>5, <2>2, FS_Subset
    <3>. QED
      BY <3>1, <2>3, <1>2, <1>5
  <2>. QED
    BY <2>1, <2>4, <1>5, <1>6
<1>. QED
  BY <1>5, <1>7 DEF DropCovered

\* Dropping covered batches unremoves nothing.
LEMMA DropKeepsRemoved ==
  ASSUME NEW B \in SUBSET BatchShape, NEW e, IsRemoved(B, e)
  PROVE  IsRemoved(DropCovered(B), e)
<1>1. PICK b \in B : b.height = e.height /\ e.prefix \in b.removed
  BY DEF IsRemoved
<1>2. PICK c \in DropCovered(B) : CoveredBy(b, c)
  BY CoveredIsKept
<1>. QED
  BY <1>1, <1>2 DEF CoveredBy, IsRemoved

\* In a state nobody has opened there is nothing, and nothing gone waits.
Settled(s) ==
  /\ s.floor = NoFloor => s.entries = {} /\ s.removals = {}
  /\ \A e \in s.entries : ~Gone(s, e)

LEMMA NormalizeSettles ==
  ASSUME NEW s \in State
  PROVE  Settled(Normalize(s))
<1>. DEFINE R == DropCovered(Standing(s.removals, s.floor))
            W == {e \in s.entries : AtOrAbove(e.height, s.floor) /\ ~IsRemoved(R, e)}
<1>1. CASE s.floor = NoFloor
  BY <1>1 DEF Normalize, EmptyState, Settled
<1>2. CASE s.floor # NoFloor
  <2>1. Normalize(s) = [floor |-> s.floor, entries |-> Kept(W), removals |-> R]
    BY <1>2 DEF Normalize
  <2>2. Kept(W) \subseteq W
    BY DEF Kept, KeptInAll, KeptPerGhostKey
  <2>3. \A e \in W : ~IsRemoved(R, e) /\ ~(e.height < s.floor)
    BY <1>2, EntryAssumption DEF AtOrAbove, State, Floor, EntryShape
  <2>. HIDE DEF R, W
  <2>. QED
    BY <1>2, <2>1, <2>2, <2>3 DEF Settled, Gone
<1>. QED
  BY <1>1, <1>2

\* The floor may pass a batch; short of that, normal form keeps what it removes.
LEMMA NormalizeKeepsGone ==
  ASSUME NEW s \in State, NEW e \in Entry, s.floor # NoFloor, Gone(s, e)
  PROVE  Gone(Normalize(s), e)
<1>. DEFINE R == DropCovered(Standing(s.removals, s.floor))
<1>1. Normalize(s).floor = s.floor /\ Normalize(s).removals = R
  BY DEF Normalize
<1>2. CASE e.height < s.floor
  BY <1>1, <1>2 DEF Gone
<1>3. CASE ~(e.height < s.floor)
  <2>1. IsRemoved(s.removals, e)
    BY <1>3 DEF Gone
  <2>2. IsRemoved(Standing(s.removals, s.floor), e)
    BY <1>3, <2>1, EntryAssumption
    DEF IsRemoved, Standing, AtOrAbove, State, Floor, EntryShape
  <2>3. Standing(s.removals, s.floor) \in SUBSET BatchShape
    BY DEF Standing, State
  <2>. QED
    BY <1>1, <2>2, <2>3, DropKeepsRemoved DEF Gone
<1>. QED
  BY <1>2, <1>3

\* Whatever a delta says, what a peer has seen removed or passed is gone.
LEMMA DeltaKeepsGone ==
  ASSUME NEW s \in State, NEW d \in State, Settled(s), NEW e \in Entry, Gone(s, e)
  PROVE  Gone(ApplyDelta(s, d), e)
<1>. DEFINE floor == AdoptedFloor(s.floor, d.floor)
            held  == Standing(s.removals, floor)
            B     == held \cup {b \in d.removals : ~BatchPassedOver(b, held, floor)}
            t     == [floor |-> floor, entries |-> ToEntries(s, d),
                      removals |-> ToRemovals(s, d)]
<1>1. s.floor # NoFloor
  BY DEF Settled, Gone, IsRemoved
<1>2. floor \in Nat /\ floor # NoFloor /\ s.floor <= floor /\ s.floor \in Nat
  BY <1>1, FloorNeverFalls DEF State, Floor
<1>3. ToRemovals(s, d) = DropCovered(B) /\ B \in SUBSET BatchShape
  BY DEF ToRemovals, Standing, State
<1>4. t \in State
  <2>1. ToRemovals(s, d) \in SUBSET BatchShape
    BY <1>3 DEF DropCovered
  <2>2. ToEntries(s, d) \in SUBSET Entry
    BY DEF ToEntries, State
  <2>. QED
    BY <1>2, <2>1, <2>2 DEF State, Floor
<1>5. e.height \in Nat
  BY EntryAssumption DEF EntryShape
<1>6. Gone(t, e)
  <2>1. CASE e.height < floor
    BY <1>2, <2>1 DEF Gone
  <2>2. CASE ~(e.height < floor)
    <3>1. IsRemoved(s.removals, e)
      BY <1>1, <1>2, <1>5, <2>2 DEF Gone
    <3>2. IsRemoved(held, e)
      BY <1>2, <1>5, <2>2, <3>1 DEF IsRemoved, Standing, AtOrAbove
    <3>3. IsRemoved(B, e)
      BY <3>2 DEF IsRemoved
    <3>. QED
      BY <1>3, <3>3, DropKeepsRemoved DEF Gone
  <2>. QED
    BY <2>1, <2>2
<1>7. Gone(Normalize(t), e)
  BY <1>2, <1>4, <1>6, NormalizeKeepsGone
<1>. QED
  BY <1>7, DeltaOutcome

LEMMA DeltaSettles ==
  ASSUME NEW s \in State, NEW d \in State, Settled(s)
  PROVE  Settled(ApplyDelta(s, d))
<1>. DEFINE t == [floor    |-> AdoptedFloor(s.floor, d.floor),
                  entries  |-> ToEntries(s, d),
                  removals |-> ToRemovals(s, d)]
<1>1. AdoptedFloor(s.floor, d.floor) \in Floor
  BY FloorType DEF State
<1>2. ToRemovals(s, d) \subseteq s.removals \cup d.removals
  BY DEF ToRemovals, DropCovered, Standing
<1>3. ToEntries(s, d) \subseteq s.entries \cup d.entries
  BY DEF ToEntries
<1>4. t \in State
  BY <1>1, <1>2, <1>3 DEF State
<1>. QED
  BY <1>4, NormalizeSettles, DeltaOutcome

LEMMA NoNewRemovals ==
  ASSUME NEW s, NEW d, NEW b \in ApplyDelta(s, d).removals
  PROVE  b \in s.removals \cup d.removals
<1>. DEFINE t == [floor    |-> AdoptedFloor(s.floor, d.floor),
                  entries  |-> ToEntries(s, d),
                  removals |-> ToRemovals(s, d)]
<1>1. Normalize(t).removals \subseteq ToRemovals(s, d)
  <2>. HIDE DEF t
  <2>1. Normalize(t).removals \subseteq t.removals
    BY DEF Normalize, EmptyState, DropCovered, Standing
  <2>. QED
    BY <2>1 DEF t
<1>2. ToRemovals(s, d) \subseteq s.removals \cup d.removals
  BY DEF ToRemovals, DropCovered, Standing
<1>. QED
  BY <1>1, <1>2, DeltaOutcome

-----------------------------------------------------------------------------
(* A Ghost Key's places *)

\* The entries of E that its Ghost Keys signed themselves, or that are the best
\* of those their watch keys signed.
Staying(E) == {e \in E : MayStay(E, e)}

\* Of a Ghost Key's delegated entries one may stay.
LEMMA OneDelegatedStays ==
  ASSUME NEW E \in SUBSET Entry, NEW e \in Staying(E), NEW f \in Staying(E),
         e.ghostkey = f.ghostkey, Delegated(e), Delegated(f)
  PROVE  e = f
<1>1. /\ e.serial \in Nat /\ f.serial \in Nat /\ e.height \in Nat /\ f.height \in Nat
      /\ e.key \in Nat /\ f.key \in Nat
  BY EntryAssumption DEF EntryShape, Staying, Delegated
<1>2. e # f => Outranks(e, f) /\ Outranks(f, e)
  BY DEF Staying, MayStay, BestDelegated
<1>. QED
  BY <1>1, <1>2 DEF Outranks, RanksAbove

\* Whatever its watch keys sign, the newest request a Ghost Key signed itself has
\* one of the key's places: it gives way only to MaxEntries entries that rank
\* above it, each of them in a place of its own Ghost Key (normalize,
\* state.rs:437-442).
THEOREM OwnRequestKeepsItsPlace ==
  ASSUME 1 < MaxPerGhostKey,
         NEW E \in SUBSET Entry, NEW e \in E, ~Delegated(e),
         \A f \in E : f.ghostkey = e.ghostkey /\ ~Delegated(f) => ~RanksAbove(f, e)
  PROVE  /\ e \in KeptPerGhostKey(Staying(E))
         /\ \/ e \in Kept(E)
            \/ ~(Cardinality({f \in KeptPerGhostKey(Staying(E)) : RanksAbove(f, e)})
                   < MaxEntries)
<1>. DEFINE S == {f \in Staying(E) : f.ghostkey = e.ghostkey /\ RanksAbove(f, e)}
<1>1. e \in Staying(E)
  BY DEF Staying, MayStay
<1>2. \A f \in S : Delegated(f) /\ f \in Staying(E) /\ f.ghostkey = e.ghostkey
  BY DEF Staying
<1>3. \A f, g \in S : f = g
  BY <1>2, OneDelegatedStays
<1>. HIDE DEF S
<1>4. Cardinality(S) < MaxPerGhostKey
  <2>1. CASE S = {}
    BY <2>1, FS_EmptySet, BoundAssumption
  <2>2. CASE S # {}
    <3>1. PICK f \in S : S = {f}
      BY <1>3, <2>2
    <3>2. Cardinality(S) = 1
      BY <3>1, FS_Singleton
    <3>. QED
      BY <3>2, BoundAssumption
  <2>. QED
    BY <2>1, <2>2
<1>5. e \in KeptPerGhostKey(Staying(E))
  BY <1>1, <1>4 DEF KeptPerGhostKey, S
<1>6. Kept(E) = KeptInAll(KeptPerGhostKey(Staying(E)))
  BY DEF Kept, Staying
<1>. QED
  BY <1>5, <1>6 DEF KeptInAll

-----------------------------------------------------------------------------
(* The caps *)

\* Ranked entries each with fewer than n above it are no more than n.
LEMMA RankedCount ==
  ASSUME NEW n \in Nat, NEW S \in SUBSET Entry, IsFiniteSet(S),
         \A e \in S : Cardinality({f \in S : RanksAbove(f, e)}) < n
  PROVE  Cardinality(S) <= n
<1>. DEFINE Under(e) == {f \in S : RanksAbove(e, f)}
            Left(e)  == Cardinality(Under(e))
            Lefts    == {Left(e) : e \in S}
<1>1. CASE S = {}
  BY <1>1, FS_EmptySet
<1>2. CASE S # {}
  <2>1. \A e \in S : IsFiniteSet(Under(e)) /\ Left(e) \in Nat
    BY FS_Subset, FS_CardinalityType
  <2>2. Lefts \subseteq Nat /\ Lefts # {}
    BY <1>2, <2>1
  <2>3. PICK m \in Lefts : \A l \in Lefts : ~(<<l, m>> \in OpToRel(<, Nat))
    BY <2>2, WFMin, NatLessThanWellFounded
  <2>4. PICK e \in S : m = Left(e)
    BY <2>3
  <2>5. \A l \in Lefts : ~(l < m)
    BY <2>2, <2>3 DEF OpToRel
  <2>6. \A f \in S : f.height \in Nat /\ f.key \in Nat
    BY EntryAssumption DEF EntryShape
  <2>7. ASSUME NEW f \in S, f # e
        PROVE  RanksAbove(f, e)
    <3>1. SUFFICES ASSUME RanksAbove(e, f)
                   PROVE  FALSE
      BY <2>6, <2>7, EntryAssumption DEF RanksAbove
    <3>2. Under(f) \subseteq Under(e)
      BY <2>6, <3>1 DEF RanksAbove
    <3>3. f \in Under(e) /\ f \notin Under(f)
      BY <2>6, <3>1 DEF RanksAbove
    <3>. HIDE DEF Under
    <3>4. Left(f) < Left(e)
      <4>1. Left(f) <= Left(e) /\ (Left(e) = Left(f) => Under(e) = Under(f))
        BY <2>1, <3>2, FS_Subset
      <4>. QED
        BY <2>1, <3>3, <4>1
    <3>. QED
      BY <2>4, <2>5, <3>4
  <2>8. {f \in S : RanksAbove(f, e)} = S \ {e}
    BY <2>6, <2>7 DEF RanksAbove
  <2>9. Cardinality(S \ {e}) = Cardinality(S) - 1 /\ Cardinality(S) \in Nat
    BY FS_RemoveElement, FS_CardinalityType
  <2>. QED
    BY <2>8, <2>9
<1>. QED
  BY <1>1, <1>2

\* A Ghost Key has no more than its places.
LEMMA PlacesOfGhostKey ==
  ASSUME NEW E \in SUBSET Entry, IsFiniteSet(E), NEW g
  PROVE  Cardinality({f \in KeptPerGhostKey(E) : f.ghostkey = g}) <= MaxPerGhostKey
<1>. DEFINE S == {f \in KeptPerGhostKey(E) : f.ghostkey = g}
<1>1. S \subseteq E /\ IsFiniteSet(S)
  BY FS_Subset DEF KeptPerGhostKey
<1>2. ASSUME NEW e \in S
      PROVE  Cardinality({f \in S : RanksAbove(f, e)}) < MaxPerGhostKey
  <2>. DEFINE A == {f \in S : RanksAbove(f, e)}
              T == {f \in E : f.ghostkey = e.ghostkey /\ RanksAbove(f, e)}
  <2>1. A \subseteq T /\ Cardinality(T) < MaxPerGhostKey
    BY DEF KeptPerGhostKey
  <2>2. IsFiniteSet(T) /\ IsFiniteSet(A)
    BY <1>1, FS_Subset
  <2>. HIDE DEF A, T
  <2>3. Cardinality(A) <= Cardinality(T) /\ Cardinality(A) \in Nat /\ Cardinality(T) \in Nat
    BY <2>1, <2>2, FS_Subset, FS_CardinalityType
  <2>4. Cardinality(A) < MaxPerGhostKey
    BY <2>1, <2>3, BoundAssumption
  <2>. QED
    BY <2>4 DEF A
<1>. QED
  BY <1>1, <1>2, RankedCount, BoundAssumption

\* What the caps leave keeps them.
LEMMA KeptWithinCaps ==
  ASSUME NEW E \in SUBSET Entry, IsFiniteSet(E)
  PROVE  /\ Kept(E) \subseteq E
         /\ IsFiniteSet(Kept(E))
         /\ Cardinality(Kept(E)) <= MaxEntries
         /\ \A e \in Kept(E) :
              LET own == {f \in Kept(E) : f.ghostkey = e.ghostkey}
              IN  /\ Cardinality(own) <= MaxPerGhostKey
                  /\ Cardinality({f \in own : Delegated(f)}) <= 1
<1>. DEFINE K == KeptPerGhostKey(Staying(E))
<1>1. Kept(E) = KeptInAll(K)
  BY DEF Kept, Staying
<1>2. K \subseteq Staying(E) /\ Staying(E) \subseteq E /\ Kept(E) \subseteq K
  BY <1>1 DEF KeptPerGhostKey, Staying, KeptInAll
<1>3. IsFiniteSet(K) /\ IsFiniteSet(Staying(E)) /\ IsFiniteSet(Kept(E))
  BY <1>2, FS_Subset
<1>4. ASSUME NEW e \in Kept(E)
      PROVE  Cardinality({f \in Kept(E) : RanksAbove(f, e)}) < MaxEntries
  <2>. DEFINE A == {f \in Kept(E) : RanksAbove(f, e)}
              T == {f \in K : RanksAbove(f, e)}
  <2>1. A \subseteq T /\ Cardinality(T) < MaxEntries
    BY <1>1, <1>2 DEF KeptInAll
  <2>2. IsFiniteSet(T) /\ IsFiniteSet(A)
    BY <1>3, FS_Subset
  <2>. HIDE DEF A, T
  <2>3. Cardinality(A) <= Cardinality(T) /\ Cardinality(A) \in Nat /\ Cardinality(T) \in Nat
    BY <2>1, <2>2, FS_Subset, FS_CardinalityType
  <2>4. Cardinality(A) < MaxEntries
    BY <2>1, <2>3, BoundAssumption
  <2>. QED
    BY <2>4 DEF A
<1>5. Cardinality(Kept(E)) <= MaxEntries
  BY <1>2, <1>3, <1>4, RankedCount, BoundAssumption
<1>6. ASSUME NEW g
      PROVE  Cardinality({f \in Kept(E) : f.ghostkey = g}) <= MaxPerGhostKey
  <2>. DEFINE A == {f \in Kept(E) : f.ghostkey = g}
              T == {f \in K : f.ghostkey = g}
  <2>1. A \subseteq T /\ IsFiniteSet(T)
    BY <1>2, <1>3, FS_Subset
  <2>2. Cardinality(T) <= MaxPerGhostKey
    BY <1>2, <1>3, PlacesOfGhostKey
  <2>. HIDE DEF A, T
  <2>3. Cardinality(A) <= Cardinality(T) /\ Cardinality(A) \in Nat /\ Cardinality(T) \in Nat
    BY <2>1, FS_Subset, FS_CardinalityType
  <2>4. Cardinality(A) <= MaxPerGhostKey
    BY <2>2, <2>3, BoundAssumption
  <2>. QED
    BY <2>4 DEF A
<1>7. ASSUME NEW g
      PROVE  Cardinality({f \in {h \in Kept(E) : h.ghostkey = g} : Delegated(f)}) <= 1
  <2>. DEFINE D == {f \in {h \in Kept(E) : h.ghostkey = g} : Delegated(f)}
  <2>1. \A e, f \in D : e = f
    BY <1>2, OneDelegatedStays
  <2>2. D = {} \/ \E f : D = {f}
    <3>. HIDE DEF D
    <3>. QED
      BY <2>1
  <2>. HIDE DEF D
  <2>3. Cardinality(D) \in {0, 1}
    BY <2>2, FS_EmptySet, FS_Singleton
  <2>4. Cardinality(D) <= 1
    BY <2>3
  <2>. QED
    BY <2>4 DEF D
<1>. QED
  BY <1>2, <1>3, <1>5, <1>6, <1>7

-----------------------------------------------------------------------------
(* What apply_delta leaves, verify accepts *)

FiniteState(s) == IsFiniteSet(s.entries) /\ IsFiniteSet(s.removals)

LEMMA FiniteRemovedCount ==
  ASSUME NEW B \in SUBSET BatchShape, IsFiniteSet(B)
  PROVE  RemovedCount(B) \in Nat
<1>. DEFINE U == UNION {{<<b, p>> : p \in b.removed} : b \in B}
<1>1. U \subseteq B \X Prefix
  BY DEF BatchShape
<1>2. IsFiniteSet(U)
  BY <1>1, PrefixAssumption, FS_Product, FS_Subset
<1>. QED
  BY <1>2, FS_CardinalityType DEF RemovedCount

\* What a delta that changes something passed on its way.
LEMMA DeltaAccepted ==
  ASSUME NEW s, NEW d, ApplyDelta(s, d) # s
  PROVE  LET floor == AdoptedFloor(s.floor, d.floor)
             held  == Standing(s.removals, floor)
             next  == Normalize([floor |-> floor, entries |-> ToEntries(s, d),
                                 removals |-> ToRemovals(s, d)])
         IN  /\ ApplyDelta(s, d) = next
             /\ \A b \in d.removals : b.removed # {}
             /\ \A b \in d.removals : ~BatchPassedOver(b, held, floor) => b.valid
             /\ \A e \in d.entries :
                  ~EntryPassedOver(e, s.entries, ToRemovals(s, d), floor) => e.valid
             /\ ~(Cardinality(next.removals) > MaxBatches)
             /\ ~(RemovedCount(next.removals) > MaxRemoved)
  BY DEF ApplyDelta, AfterDelta, ToEntries, ToRemovals

LEMMA EmptyVerifies == Verify(EmptyState) /\ FiniteState(EmptyState)
<1>1. RemovedCount({}) = 0
  <2>1. UNION {{<<b, p>> : p \in b.removed} : b \in {}} = {}
    OBVIOUS
  <2>. QED
    BY <2>1, FS_EmptySet DEF RemovedCount
<1>2. DropCovered({}) = {}
  BY DEF DropCovered
<1>3. Verify(EmptyState)
  BY <1>1, <1>2, FS_EmptySet, BoundAssumption
  DEF Verify, EmptyState, RecordsInWindow, NothingRemovedWaits, EachBatchNames,
      NothingCovered, WithinCaps
<1>. QED
  BY <1>3, FS_EmptySet DEF EmptyState, FiniteState

\* Normal form of records that are valid and in the window verifies, if no
\* more removals than are allowed stay in it.
LEMMA NormalVerifies ==
  ASSUME NEW t \in State, FiniteState(t), t.floor # NoFloor,
         \A r \in t.entries \cup t.removals : r.valid /\ r.height <= t.floor + Window,
         EachBatchNames(t),
         ~(Cardinality(Normalize(t).removals) > MaxBatches),
         ~(RemovedCount(Normalize(t).removals) > MaxRemoved)
  PROVE  Verify(Normalize(t)) /\ FiniteState(Normalize(t))
<1>. DEFINE R == DropCovered(Standing(t.removals, t.floor))
            W == {e \in t.entries : AtOrAbove(e.height, t.floor) /\ ~IsRemoved(R, e)}
            n == Normalize(t)
<1>1. n = [floor |-> t.floor, entries |-> Kept(W), removals |-> R]
  BY DEF Normalize
<1>2. /\ W \in SUBSET Entry /\ IsFiniteSet(W)
      /\ R \in SUBSET BatchShape /\ IsFiniteSet(R) /\ R \subseteq t.removals
  BY FS_Subset DEF FiniteState, State, DropCovered, Standing
<1>3. \A r \in W \cup R : r.valid /\ InWindow(r.height, t.floor)
  BY DEF InWindow, DropCovered, Standing
<1>4. \A e \in W : ~IsRemoved(R, e)
  OBVIOUS
<1>5. DropCovered(R) = R
  BY DEF DropCovered
<1>6. Cardinality(R) \in Nat /\ RemovedCount(R) \in Nat
  BY <1>2, FS_CardinalityType, FiniteRemovedCount
<1>. HIDE DEF R, W, n
<1>7. n.floor = t.floor /\ n.entries = Kept(W) /\ n.removals = R
  BY <1>1
<1>8. Cardinality(R) <= MaxBatches /\ RemovedCount(R) <= MaxRemoved
  BY <1>6, <1>7, BoundAssumption DEF n
<1>9. Kept(W) \subseteq W /\ IsFiniteSet(Kept(W))
  BY <1>2, KeptWithinCaps
<1>10. /\ RecordsInWindow(n) /\ NothingRemovedWaits(n)
       /\ EachBatchNames(n) /\ NothingCovered(n)
  BY <1>2, <1>3, <1>4, <1>5, <1>7, <1>9
  DEF RecordsInWindow, NothingRemovedWaits, EachBatchNames, NothingCovered
<1>11. WithinCaps(n)
  <2>1. \A e \in Kept(W) :
          /\ Cardinality({f \in Kept(W) : f.ghostkey = e.ghostkey}) <= MaxPerGhostKey
          /\ Cardinality({f \in {h \in Kept(W) : h.ghostkey = e.ghostkey} : Delegated(f)}) <= 1
    BY <1>2, KeptWithinCaps
  <2>2. Cardinality(Kept(W)) <= MaxEntries
    BY <1>2, KeptWithinCaps
  <2>. QED
    BY <1>7, <1>8, <2>1, <2>2 DEF WithinCaps
<1>. QED
  BY <1>2, <1>7, <1>9, <1>10, <1>11 DEF Verify, FiniteState, n

\* apply_delta takes a state that verifies to one that verifies, whatever delta
\* it is given, though it never calls verify.
LEMMA DeltaVerifies ==
  ASSUME NEW s \in State, NEW d \in State, FiniteState(s), FiniteState(d), Verify(s)
  PROVE  Verify(ApplyDelta(s, d)) /\ FiniteState(ApplyDelta(s, d))
<1>. DEFINE floor == AdoptedFloor(s.floor, d.floor)
            held  == Standing(s.removals, floor)
            t     == [floor |-> floor, entries |-> ToEntries(s, d),
                      removals |-> ToRemovals(s, d)]
<1>1. CASE ApplyDelta(s, d) = s
  BY <1>1
<1>2. CASE ApplyDelta(s, d) # s
  <2>1. /\ ApplyDelta(s, d) = Normalize(t)
        /\ \A b \in d.removals : b.removed # {}
        /\ \A b \in d.removals : ~BatchPassedOver(b, held, floor) => b.valid
        /\ \A e \in d.entries :
             ~EntryPassedOver(e, s.entries, ToRemovals(s, d), floor) => e.valid
        /\ ~(Cardinality(Normalize(t).removals) > MaxBatches)
        /\ ~(RemovedCount(Normalize(t).removals) > MaxRemoved)
    BY <1>2, DeltaAccepted
  <2>2. /\ ToRemovals(s, d) \subseteq s.removals \cup d.removals
        /\ ToEntries(s, d) \subseteq s.entries \cup d.entries
    BY DEF ToRemovals, DropCovered, Standing, ToEntries
  <2>3. floor \in Floor
    BY FloorType DEF State
  <2>4. t \in State /\ FiniteState(t)
    <3>1. IsFiniteSet(s.removals \cup d.removals) /\ IsFiniteSet(s.entries \cup d.entries)
      BY FS_Union DEF FiniteState
    <3>2. IsFiniteSet(ToRemovals(s, d)) /\ IsFiniteSet(ToEntries(s, d))
      BY <2>2, <3>1, FS_Subset
    <3>. QED
      BY <2>2, <2>3, <3>2 DEF State, FiniteState
  <2>5. CASE floor = NoFloor
    <3>1. Normalize(t) = EmptyState
      BY <2>5 DEF Normalize
    <3>2. ApplyDelta(s, d) = EmptyState
      BY <2>1, <3>1
    <3>. QED
      BY <3>2, EmptyVerifies
  <2>6. CASE floor # NoFloor
    <3>1. ASSUME NEW r \in s.entries \cup s.removals
          PROVE  r.valid /\ r.height <= floor + Window
      <4>1. r.valid /\ s.floor # NoFloor /\ r.height <= s.floor + Window /\ r.height \in Nat
        BY EntryAssumption
        DEF Verify, RecordsInWindow, InWindow, AtOrAbove, State, EntryShape, BatchShape
      <4>2. s.floor \in Nat /\ floor \in Nat /\ s.floor <= floor
        BY <4>1, FloorNeverFalls DEF State, Floor
      <4>. HIDE DEF floor
      <4>. QED
        BY <4>1, <4>2, BoundAssumption
    <3>2. \A b \in ToRemovals(s, d) : b.valid /\ b.height <= floor + Window
      BY <2>1, <3>1
      DEF ToRemovals, DropCovered, Standing, BatchPassedOver, InWindow
    <3>3. \A e \in ToEntries(s, d) : e.valid /\ e.height <= floor + Window
      BY <2>1, <3>1 DEF ToEntries, EntryPassedOver, InWindow
    <3>4. \A r \in t.entries \cup t.removals : r.valid /\ r.height <= t.floor + Window
      BY <3>2, <3>3
    <3>. EachBatchNames(t)
      BY <2>1, <2>2 DEF Verify, EachBatchNames
    <3>. HIDE DEF t
    <3>5. t.floor # NoFloor
      BY <2>6 DEF t
    <3>. QED
      BY <2>1, <2>4, <3>4, <3>5, NormalVerifies
  <2>. QED
    BY <2>5, <2>6
<1>. QED
  BY <1>1, <1>2

-----------------------------------------------------------------------------
(* Merging two states *)

\* All that either of two states has.
Joined(s, t) ==
  [floor    |-> AdoptedFloor(s.floor, t.floor),
   entries  |-> s.entries \cup t.entries,
   removals |-> s.removals \cup t.removals]

LEMMA JoinedType ==
  ASSUME NEW s \in State, NEW t \in State
  PROVE  Joined(s, t) \in State /\ Joined(s, t) = Joined(t, s)
<1>1. AdoptedFloor(s.floor, t.floor) \in Floor
  BY FloorType DEF State
<1>2. AdoptedFloor(s.floor, t.floor) = AdoptedFloor(t.floor, s.floor)
  BY BoundAssumption DEF State, Floor, AdoptedFloor, FloorAhead
<1>3. /\ s.entries \cup t.entries \in SUBSET Entry
      /\ s.removals \cup t.removals \in SUBSET BatchShape
  BY DEF State
<1>4. Joined(s, t) \in State
  BY <1>1, <1>3 DEF Joined, State
<1>5. /\ s.entries \cup t.entries = t.entries \cup s.entries
      /\ s.removals \cup t.removals = t.removals \cup s.removals
  OBVIOUS
<1>. QED
  BY <1>2, <1>4, <1>5 DEF Joined

\* Covering by another key is transitive: without batches that some other batch
\* covers, the same ones are dropped.
LEMMA DropUncovered ==
  ASSUME NEW B \in SUBSET BatchShape, NEW A \in SUBSET B,
         \A x \in B \ A : \E c \in A : ~SameBatchKey(x, c) /\ CoveredBy(x, c)
  PROVE  DropCovered(A) = DropCovered(B)
<1>1. ASSUME NEW b \in DropCovered(B)
      PROVE  b \in DropCovered(A)
  BY <1>1 DEF DropCovered
<1>2. ASSUME NEW b \in DropCovered(A)
      PROVE  b \in DropCovered(B)
  <2>1. b \in A /\ b \in B
    BY DEF DropCovered
  <2>2. ASSUME NEW x \in B, ~SameBatchKey(b, x), CoveredBy(b, x)
        PROVE  FALSE
    <3>1. x \notin A
      BY <2>1, <2>2 DEF DropCovered
    <3>2. PICK c \in A : ~SameBatchKey(x, c) /\ CoveredBy(x, c)
      BY <3>1
    <3>3. ~SameBatchKey(b, c) /\ CoveredBy(b, c)
      BY <2>2, <3>2 DEF SameBatchKey, CoveredBy
    <3>. QED
      BY <2>1, <3>2, <3>3 DEF DropCovered
  <2>. QED
    BY <2>1, <2>2 DEF DropCovered
<1>. QED
  BY <1>1, <1>2

\* The removals of a merge: comparing with what is held first, as apply_delta
\* does, loses nothing.
LEMMA MergedRemovals ==
  ASSUME NEW s \in State, NEW t \in State, RecordsInWindow(t)
  PROVE  ToRemovals(s, t) =
           DropCovered(Standing(s.removals \cup t.removals, AdoptedFloor(s.floor, t.floor)))
<1>. DEFINE f    == AdoptedFloor(s.floor, t.floor)
            held == Standing(s.removals, f)
            A    == held \cup {b \in t.removals : ~BatchPassedOver(b, held, f)}
            B    == Standing(s.removals \cup t.removals, f)
<1>1. B \in SUBSET BatchShape
  BY DEF Standing, State
<1>2. A \subseteq B
  BY DEF Standing, BatchPassedOver, InWindow
<1>3. ASSUME NEW x \in B \ A
      PROVE  \E c \in A : ~SameBatchKey(x, c) /\ CoveredBy(x, c)
  <2>1. x \in t.removals /\ AtOrAbove(x.height, f) /\ x \notin held
        /\ BatchPassedOver(x, held, f)
    BY DEF Standing
  <2>2. t.floor # NoFloor /\ x.height <= t.floor + Window /\ x.height \in Nat
    BY <2>1 DEF RecordsInWindow, InWindow, AtOrAbove, State, BatchShape
  <2>3. t.floor \in Nat /\ f \in Nat /\ t.floor <= f
    BY <2>2, BoundAssumption DEF State, Floor, AdoptedFloor, FloorAhead
  <2>. HIDE DEF f
  <2>4. InWindow(x.height, f)
    BY <2>1, <2>2, <2>3, BoundAssumption DEF InWindow
  <2>. QED
    BY <2>1, <2>4 DEF BatchPassedOver
<1>4. DropCovered(A) = DropCovered(B)
  <2>. HIDE DEF A, B
  <2>. QED
    BY <1>1, <1>2, <1>3, DropUncovered
<1>. QED
  BY <1>4 DEF ToRemovals

\* What a merge comes to, before the caps on removals: the normal form of all that
\* either state has.
LEMMA MergedNormal ==
  ASSUME NEW s \in State, NEW t \in State, RecordsInWindow(t),
         AdoptedFloor(s.floor, t.floor) # NoFloor
  PROVE  Normalize([floor    |-> AdoptedFloor(s.floor, t.floor),
                    entries  |-> ToEntries(s, t),
                    removals |-> ToRemovals(s, t)]) = Normalize(Joined(s, t))
<1>. DEFINE f == AdoptedFloor(s.floor, t.floor)
            R == ToRemovals(s, t)
            n == [floor |-> f, entries |-> ToEntries(s, t), removals |-> R]
            j == Joined(s, t)
            W == {e \in s.entries \cup t.entries : AtOrAbove(e.height, f) /\ ~IsRemoved(R, e)}
            V == {e \in ToEntries(s, t) : AtOrAbove(e.height, f) /\ ~IsRemoved(R, e)}
<1>1. R = DropCovered(Standing(s.removals \cup t.removals, f))
  BY MergedRemovals
<1>2. DropCovered(Standing(R, f)) = R
  <2>1. Standing(R, f) = R
    BY <1>1 DEF DropCovered, Standing
  <2>2. DropCovered(R) = R
    BY <1>1 DEF DropCovered
  <2>. QED
    BY <2>1, <2>2
<1>3. V = W
  <2>1. ToEntries(s, t) \subseteq s.entries \cup t.entries
    BY DEF ToEntries
  <2>2. ASSUME NEW e \in W
        PROVE  e \in ToEntries(s, t)
    <3>1. CASE e \in s.entries
      BY <3>1 DEF ToEntries
    <3>2. CASE e \in t.entries /\ e \notin s.entries
      <4>1. t.floor # NoFloor /\ e.height <= t.floor + Window /\ e.height \in Nat
        BY <3>2, EntryAssumption
        DEF RecordsInWindow, InWindow, AtOrAbove, State, EntryShape
      <4>2. t.floor \in Nat /\ f \in Nat /\ t.floor <= f
        BY <4>1, BoundAssumption DEF State, Floor, AdoptedFloor, FloorAhead
      <4>3. AtOrAbove(e.height, f) /\ ~IsRemoved(R, e)
        OBVIOUS
      <4>. HIDE DEF f, R
      <4>4. InWindow(e.height, f)
        BY <4>1, <4>2, <4>3, BoundAssumption DEF InWindow
      <4>. QED
        BY <3>2, <4>3, <4>4 DEF ToEntries, EntryPassedOver, f, R
    <3>. QED
      BY <3>1, <3>2
  <2>. QED
    BY <2>1, <2>2
<1>4. Normalize(n) = [floor |-> f, entries |-> Kept(V), removals |-> R]
  <2>1. n.floor = f /\ n.entries = ToEntries(s, t) /\ n.removals = R
    OBVIOUS
  <2>. HIDE DEF f, R, n
  <2>2. Normalize(n) =
          [floor |-> f, removals |-> DropCovered(Standing(R, f)),
           entries |-> Kept({e \in ToEntries(s, t) :
             AtOrAbove(e.height, f) /\ ~IsRemoved(DropCovered(Standing(R, f)), e)})]
    BY <2>1 DEF Normalize, f
  <2>. QED
    BY <1>2, <2>2
<1>5. Normalize(j) = [floor |-> f, entries |-> Kept(W), removals |-> R]
  <2>1. /\ j.floor = f /\ j.entries = s.entries \cup t.entries
        /\ j.removals = s.removals \cup t.removals
    BY DEF Joined
  <2>2. DropCovered(Standing(j.removals, j.floor)) = R
    BY <1>1, <2>1
  <2>. HIDE DEF f, R, j
  <2>3. Normalize(j) =
          [floor |-> f, removals |-> R,
           entries |-> Kept({e \in j.entries : AtOrAbove(e.height, f) /\ ~IsRemoved(R, e)})]
    BY <2>1, <2>2 DEF Normalize, f
  <2>. QED
    BY <2>1, <2>3
<1>. QED
  BY <1>3, <1>4, <1>5

\* A state that verifies is never too large a delta.
LEMMA StateNotTooLarge ==
  ASSUME NEW t \in State, FiniteState(t), WithinCaps(t)
  PROVE  ~TooLarge(t)
<1>1. Cardinality(t.entries) \in Nat /\ Cardinality(t.removals) \in Nat
  BY FS_CardinalityType DEF FiniteState
<1>2. RemovedCount(t.removals) \in Nat
  BY FiniteRemovedCount DEF FiniteState, State
<1>3. ASSUME NEW e \in t.entries
      PROVE  Cardinality({f \in t.entries : f.ghostkey = e.ghostkey}) \in Nat
  BY FS_Subset, FS_CardinalityType DEF FiniteState
<1>4. \A e \in t.entries :
        Cardinality({f \in t.entries : f.ghostkey = e.ghostkey}) <= MaxPerGhostKey
  BY DEF WithinCaps
<1>5. \A e \in t.entries :
        ~(Cardinality({f \in t.entries : f.ghostkey = e.ghostkey}) > MaxPerGhostKey)
  BY <1>3, <1>4, BoundAssumption
<1>6. /\ Cardinality(t.entries) <= MaxEntries
      /\ Cardinality(t.removals) <= MaxBatches
      /\ RemovedCount(t.removals) <= MaxRemoved
  BY DEF WithinCaps
<1>7. /\ ~(Cardinality(t.entries) > MaxEntries)
      /\ ~(Cardinality(t.removals) > MaxBatches)
      /\ ~(RemovedCount(t.removals) > MaxRemoved)
  BY <1>1, <1>2, <1>6, BoundAssumption
<1>. QED
  BY <1>5, <1>7 DEF TooLarge

\* What two states' removals come to together fits in one.
RemovalsFit(s, t) ==
  LET r == Normalize(Joined(s, t)).removals
  IN  Cardinality(r) <= MaxBatches /\ RemovedCount(r) <= MaxRemoved

\* While their removals fit together, a merge is the normal form of all that either
\* state has: nothing of it is refused, and nothing that stays is lost on the way.
LEMMA MergeIsNormal ==
  ASSUME NEW s \in State, NEW t \in State, FiniteState(s), FiniteState(t), Verify(t),
         AdoptedFloor(s.floor, t.floor) # NoFloor, RemovalsFit(s, t)
  PROVE  Merge(s, t) = Normalize(Joined(s, t))
<1>. DEFINE f    == AdoptedFloor(s.floor, t.floor)
            next == Normalize([floor |-> f, entries |-> ToEntries(s, t),
                               removals |-> ToRemovals(s, t)])
            j    == Normalize(Joined(s, t))
<1>1. next = j
  BY MergedNormal DEF Verify
<1>2. ~TooLarge(t)
  BY StateNotTooLarge DEF Verify
<1>3. \A r \in t.removals \cup t.entries : r.valid
  BY DEF Verify, RecordsInWindow
<1>. \A b \in t.removals : b.removed # {}
  BY DEF Verify, EachBatchNames
<1>4. ~(Cardinality(j.removals) > MaxBatches) /\ ~(RemovedCount(j.removals) > MaxRemoved)
  <2>1. j \in State /\ Joined(s, t) \in State
    BY JoinedType, NormalizeType
  <2>2. j.removals \subseteq s.removals \cup t.removals
    <3>. DEFINE u == Joined(s, t)
    <3>1. u.removals = s.removals \cup t.removals
      BY DEF Joined
    <3>. HIDE DEF u
    <3>2. Normalize(u).removals \subseteq u.removals
      BY DEF Normalize, EmptyState, DropCovered, Standing
    <3>. QED
      BY <3>1, <3>2 DEF u
  <2>3. IsFiniteSet(j.removals)
    BY <2>2, FS_Union, FS_Subset DEF FiniteState
  <2>4. Cardinality(j.removals) \in Nat /\ RemovedCount(j.removals) \in Nat
    BY <2>1, <2>3, FS_CardinalityType, FiniteRemovedCount DEF State
  <2>. QED
    BY <2>4, BoundAssumption DEF RemovalsFit
<1>5. Merge(s, t) = next
  <2>. HIDE DEF j
  <2>1. ~(Cardinality(next.removals) > MaxBatches) /\ ~(RemovedCount(next.removals) > MaxRemoved)
    BY <1>1, <1>4
  <2>. QED
    BY <1>2, <1>3, <2>1 DEF Merge, ApplyDelta, AfterDelta, ToEntries, ToRemovals
<1>. QED
  BY <1>1, <1>5

\* Before the inbox is opened there is nothing to merge.
LEMMA UnopenedMerge ==
  ASSUME NEW s \in State, NEW t \in State, Verify(s), Verify(t),
         AdoptedFloor(s.floor, t.floor) = NoFloor
  PROVE  Merge(s, t) = Merge(t, s)
<1>1. s.floor = NoFloor /\ t.floor = NoFloor
  BY BoundAssumption DEF AdoptedFloor, FloorAhead, State, Floor
<1>2. s.entries = {} /\ s.removals = {} /\ t.entries = {} /\ t.removals = {}
  BY <1>1 DEF Verify, RecordsInWindow, InWindow, AtOrAbove
<1>3. \A u \in State : u = [floor |-> u.floor, entries |-> u.entries, removals |-> u.removals]
  BY DEF State
<1>4. s = EmptyState /\ t = EmptyState
  BY <1>1, <1>2, <1>3 DEF EmptyState
<1>. QED
  BY <1>4

\* After that it is one state, whichever of two is merged into the other.
LEMMA MergesAgree ==
  ASSUME NEW s \in State, NEW t \in State, FiniteState(s), FiniteState(t),
         Verify(s), Verify(t), AdoptedFloor(s.floor, t.floor) # NoFloor, RemovalsFit(s, t)
  PROVE  Merge(s, t) = Merge(t, s)
<1>1. Joined(s, t) = Joined(t, s)
  BY JoinedType
<1>2. AdoptedFloor(t.floor, s.floor) # NoFloor
  BY <1>1 DEF Joined
<1>3. RemovalsFit(t, s)
  BY <1>1 DEF RemovalsFit
<1>. QED
  BY <1>1, <1>2, <1>3, MergeIsNormal

\* The removals and the entries a state comes to, before the caps on entries.
StandingBatches(s) == DropCovered(Standing(s.removals, s.floor))
WaitingEntries(s) ==
  {e \in s.entries : AtOrAbove(e.height, s.floor) /\ ~IsRemoved(StandingBatches(s), e)}

LEMMA NormalForm ==
  ASSUME NEW s \in State
  PROVE  Normalize(s) =
           [floor |-> s.floor, entries |-> Kept(WaitingEntries(s)), removals |-> StandingBatches(s)]
<1>1. CASE s.floor = NoFloor
  <2>1. WaitingEntries(s) = {} /\ StandingBatches(s) = {}
    BY <1>1 DEF WaitingEntries, StandingBatches, DropCovered, Standing, AtOrAbove
  <2>2. Kept({}) = {}
    BY DEF Kept, KeptInAll, KeptPerGhostKey
  <2>. QED
    BY <1>1, <2>1, <2>2 DEF Normalize, EmptyState
<1>2. CASE s.floor # NoFloor
  BY <1>2 DEF Normalize, WaitingEntries, StandingBatches
<1>. QED
  BY <1>1, <1>2

\* One of at most n ranks below fewer than n of them.
LEMMA FewerAbove ==
  ASSUME NEW n \in Nat, NEW S \in SUBSET Entry, IsFiniteSet(S), Cardinality(S) <= n,
         NEW e \in S
  PROVE  Cardinality({f \in S : RanksAbove(f, e)}) < n
<1>. DEFINE A == {f \in S : RanksAbove(f, e)}
<1>1. e.height \in Nat /\ e.key \in Nat
  BY EntryAssumption DEF EntryShape
<1>2. A \subseteq S \ {e}
  BY <1>1 DEF RanksAbove
<1>3. IsFiniteSet(S \ {e}) /\ Cardinality(S \ {e}) = Cardinality(S) - 1
  BY FS_RemoveElement
<1>. HIDE DEF A
<1>4. IsFiniteSet(A) /\ Cardinality(A) <= Cardinality(S \ {e})
  BY <1>2, <1>3, FS_Subset
<1>5. Cardinality(A) \in Nat /\ Cardinality(S) \in Nat
  BY <1>4, FS_CardinalityType
<1>6. Cardinality(A) < n
  BY <1>3, <1>4, <1>5
<1>. QED
  BY <1>6 DEF A

\* The caps leave alone what is within them.
LEMMA CapsLeaveBe ==
  ASSUME NEW E \in SUBSET Entry, IsFiniteSet(E), Cardinality(E) <= MaxEntries,
         \A e \in E :
           LET own == {f \in E : f.ghostkey = e.ghostkey}
           IN  Cardinality(own) <= MaxPerGhostKey /\ Cardinality({f \in own : Delegated(f)}) <= 1
  PROVE  Kept(E) = E
<1>1. ASSUME NEW e \in E
      PROVE  MayStay(E, e)
  <2>1. SUFFICES ASSUME Delegated(e), NEW f \in E,
                        f.ghostkey = e.ghostkey, Delegated(f), f # e
                 PROVE  FALSE
    BY DEF MayStay, BestDelegated
  <2>2. PICK D : D = {h \in {g \in E : g.ghostkey = e.ghostkey} : Delegated(h)}
    OBVIOUS
  <2>3. Cardinality(D) <= 1 /\ IsFiniteSet(D) /\ {e, f} \subseteq D
    BY <2>1, <2>2, FS_Subset
  <2>4. Cardinality({e, f}) = 2
    <3>1. IsFiniteSet({e}) /\ Cardinality({e}) = 1
      BY FS_Singleton
    <3>2. Cardinality({e} \cup {f}) = Cardinality({e}) + 1
      BY <2>1, <3>1, FS_AddElement
    <3>3. {e, f} = {e} \cup {f}
      OBVIOUS
    <3>. QED
      BY <3>1, <3>2, <3>3
  <2>5. Cardinality({e, f}) <= Cardinality(D) /\ Cardinality(D) \in Nat
    BY <2>3, FS_Subset, FS_CardinalityType
  <2>. QED
    BY <2>3, <2>4, <2>5
<1>2. ASSUME NEW e \in E
      PROVE  Cardinality({f \in E : f.ghostkey = e.ghostkey /\ RanksAbove(f, e)})
               < MaxPerGhostKey
  <2>1. PICK S : S = {f \in E : f.ghostkey = e.ghostkey}
    OBVIOUS
  <2>2. S \in SUBSET Entry /\ IsFiniteSet(S) /\ Cardinality(S) <= MaxPerGhostKey /\ e \in S
    BY <2>1, FS_Subset
  <2>3. Cardinality({f \in S : RanksAbove(f, e)}) < MaxPerGhostKey
    BY <2>2, FewerAbove, BoundAssumption
  <2>4. {f \in S : RanksAbove(f, e)} = {f \in E : f.ghostkey = e.ghostkey /\ RanksAbove(f, e)}
    BY <2>1
  <2>. QED
    BY <2>3, <2>4
<1>3. {e \in E : MayStay(E, e)} = E
  BY <1>1
<1>4. KeptPerGhostKey(E) = E
  BY <1>2 DEF KeptPerGhostKey
<1>5. KeptInAll(E) = E
  BY FewerAbove, BoundAssumption DEF KeptInAll
<1>. QED
  BY <1>3, <1>4, <1>5 DEF Kept

\* What verify accepts is in normal form.
LEMMA AcceptedIsNormal ==
  ASSUME NEW s \in State, FiniteState(s), Verify(s)
  PROVE  Normalize(s) = s
<1>1. \A r \in s.entries \cup s.removals : AtOrAbove(r.height, s.floor)
  BY DEF Verify, RecordsInWindow, InWindow
<1>2. StandingBatches(s) = s.removals
  <2>1. Standing(s.removals, s.floor) = s.removals
    BY <1>1 DEF Standing
  <2>. QED
    BY <2>1 DEF StandingBatches, Verify, NothingCovered
<1>3. WaitingEntries(s) = s.entries
  BY <1>1, <1>2 DEF WaitingEntries, Verify, NothingRemovedWaits
<1>4. Kept(s.entries) = s.entries
  <2>1. s.entries \in SUBSET Entry /\ IsFiniteSet(s.entries)
    BY DEF State, FiniteState
  <2>. QED
    BY <2>1, CapsLeaveBe DEF Verify, WithinCaps
<1>. QED
  BY <1>2, <1>3, <1>4, NormalForm DEF State

\* A state that some peer holds.
Accepted(s) == s \in State /\ FiniteState(s) /\ Verify(s)

LEMMA MergeIsAccepted ==
  ASSUME NEW s, NEW t, Accepted(s), Accepted(t)
  PROVE  Accepted(Merge(s, t))
  BY ApplyDeltaType, DeltaVerifies DEF Accepted, Merge

\* A merge is the normal form of all that either state has, opened or not.
LEMMA MergeIs ==
  ASSUME NEW s, NEW t, Accepted(s), Accepted(t), RemovalsFit(s, t)
  PROVE  Merge(s, t) = Normalize(Joined(s, t))
<1>. DEFINE f == AdoptedFloor(s.floor, t.floor)
<1>1. CASE f # NoFloor
  BY <1>1, MergeIsNormal DEF Accepted
<1>2. CASE f = NoFloor
  <2>1. s.floor = NoFloor
    BY <1>2, BoundAssumption DEF Accepted, AdoptedFloor, FloorAhead, State, Floor
  <2>2. s.entries = {} /\ s.removals = {}
    BY <2>1 DEF Accepted, Verify, RecordsInWindow, InWindow, AtOrAbove
  <2>3. s = EmptyState
    BY <2>1, <2>2 DEF Accepted, EmptyState, State
  <2>4. Merge(s, t) = EmptyState
    <3>1. \A x : x.floor = NoFloor => Normalize(x) = EmptyState
      BY DEF Normalize
    <3>. QED
      BY <1>2, <2>3, <3>1, DeltaOutcome DEF Merge
  <2>. QED
    BY <1>2, <2>4 DEF Joined, Normalize
<1>. QED
  BY <1>1, <1>2

\* Normal form forgets what can change no later normal form, if it is not the caps
\* that made it forget.
LEMMA NormalizeEarly ==
  ASSUME NEW j \in State, NEW u \in State,
         j.floor = NoFloor => j.entries = {} /\ j.removals = {},
         Kept(WaitingEntries(j)) = WaitingEntries(j)
  PROVE  Normalize(Joined(Normalize(j), u)) = Normalize(Joined(j, u))
<1>. DEFINE g == AdoptedFloor(j.floor, u.floor)
            n == Normalize(j)
            a == Joined(n, u)
            b == Joined(j, u)
            A == Standing(n.removals \cup u.removals, g)
            B == Standing(j.removals \cup u.removals, g)
<1>1. /\ n.floor = j.floor /\ n.entries = WaitingEntries(j)
      /\ n.removals = StandingBatches(j) /\ n \in State
  BY NormalForm, NormalizeType
<1>2. /\ a.floor = g /\ a.entries = WaitingEntries(j) \cup u.entries
      /\ a.removals = n.removals \cup u.removals
  BY <1>1 DEF Joined
<1>3. /\ b.floor = g /\ b.entries = j.entries \cup u.entries
      /\ b.removals = j.removals \cup u.removals
  BY DEF Joined
<1>4. j.floor \in Floor /\ g \in Floor /\ (g # NoFloor /\ j.floor # NoFloor => j.floor <= g)
  BY FloorType, BoundAssumption DEF State, Floor, AdoptedFloor, FloorAhead
<1>5. a \in State /\ b \in State
  BY <1>1, JoinedType
<1>. HIDE DEF n, a, b, g
<1>6. ASSUME NEW h \in Nat, AtOrAbove(h, g), j.floor # NoFloor
      PROVE  AtOrAbove(h, j.floor)
  BY <1>4, <1>6, BoundAssumption DEF AtOrAbove, Floor
<1>7. A \subseteq B /\ B \in SUBSET BatchShape /\ StandingBatches(j) \subseteq j.removals
  BY <1>1 DEF Standing, StandingBatches, DropCovered, State
<1>8. StandingBatches(a) = StandingBatches(b)
  <2>1. ASSUME NEW x \in B \ A
        PROVE  \E c \in A : ~SameBatchKey(x, c) /\ CoveredBy(x, c)
    <3>1. /\ x \in j.removals /\ x \notin StandingBatches(j) /\ x \in BatchShape
          /\ x.height \in Nat /\ AtOrAbove(x.height, g)
      BY <1>1, <1>7 DEF Standing, BatchShape
    <3>2. x \in Standing(j.removals, j.floor)
      BY <1>6, <3>1 DEF Standing
    <3>3. PICK y \in Standing(j.removals, j.floor) : ~SameBatchKey(x, y) /\ CoveredBy(x, y)
      BY <3>1, <3>2 DEF StandingBatches, DropCovered
    <3>4. Standing(j.removals, j.floor) \in SUBSET BatchShape
      BY DEF Standing, State
    <3>5. PICK c \in StandingBatches(j) : CoveredBy(y, c)
      BY <3>4, CoveredIsKept DEF StandingBatches
    <3>6. ~SameBatchKey(x, c) /\ CoveredBy(x, c)
      BY <3>3, <3>5 DEF SameBatchKey, CoveredBy
    <3>7. c \in A
      BY <1>1, <3>1, <3>5, <3>6 DEF Standing, CoveredBy
    <3>. QED
      BY <3>6, <3>7
  <2>2. DropCovered(A) = DropCovered(B)
    <3>. HIDE DEF A, B
    <3>. QED
      BY <1>7, <2>1, DropUncovered
  <2>. QED
    BY <1>2, <1>3, <2>2 DEF StandingBatches
<1>9. WaitingEntries(a) = WaitingEntries(b)
  <2>1. WaitingEntries(a) \subseteq WaitingEntries(b)
    BY <1>2, <1>3, <1>8 DEF WaitingEntries
  <2>2. ASSUME NEW e \in WaitingEntries(b)
        PROVE  e \in WaitingEntries(a)
    <3>1. /\ e \in j.entries \cup u.entries /\ AtOrAbove(e.height, g)
          /\ ~IsRemoved(StandingBatches(b), e) /\ e.height \in Nat
      BY <1>3, EntryAssumption DEF WaitingEntries, State, EntryShape
    <3>2. CASE e \in j.entries
      <4>1. AtOrAbove(e.height, j.floor)
        BY <1>6, <3>1, <3>2
      <4>2. ~IsRemoved(StandingBatches(j), e)
        <5>1. SUFFICES ASSUME NEW c \in StandingBatches(j), c.height = e.height, e.prefix \in c.removed
                       PROVE  FALSE
          BY DEF IsRemoved
        <5>2. c \in A
          BY <1>1, <3>1, <5>1 DEF Standing
        <5>3. A \in SUBSET BatchShape /\ IsRemoved(A, e)
          BY <1>7, <5>1, <5>2 DEF IsRemoved
        <5>4. IsRemoved(DropCovered(A), e)
          <6>. HIDE DEF A
          <6>. QED
            BY <5>3, DropKeepsRemoved
        <5>5. DropCovered(A) = StandingBatches(a)
          BY <1>2 DEF StandingBatches
        <5>. QED
          BY <1>8, <3>1, <5>4, <5>5
      <4>. QED
        BY <1>2, <1>8, <3>1, <3>2, <4>1, <4>2 DEF WaitingEntries
    <3>3. CASE e \in u.entries
      BY <1>2, <1>8, <3>1, <3>3 DEF WaitingEntries
    <3>. QED
      BY <3>1, <3>2, <3>3
  <2>. QED
    BY <2>1, <2>2
<1>10. Normalize(a) = Normalize(b)
  BY <1>2, <1>3, <1>5, <1>8, <1>9, NormalForm
<1>. QED
  BY <1>10 DEF a, b, n

LEMMA JoinedAssociates ==
  ASSUME NEW s \in State, NEW t \in State, NEW u \in State
  PROVE  Joined(Joined(s, t), u) = Joined(s, Joined(t, u))
<1>1. AdoptedFloor(AdoptedFloor(s.floor, t.floor), u.floor)
        = AdoptedFloor(s.floor, AdoptedFloor(t.floor, u.floor))
  BY BoundAssumption DEF State, Floor, AdoptedFloor, FloorAhead
<1>2. /\ (s.entries \cup t.entries) \cup u.entries = s.entries \cup (t.entries \cup u.entries)
      /\ (s.removals \cup t.removals) \cup u.removals
           = s.removals \cup (t.removals \cup u.removals)
  OBVIOUS
<1>. QED
  BY <1>1, <1>2 DEF Joined

\* When s and t are merged, no cap discards an entry, nor refuses anything.
AllKept(s, t) ==
  LET waiting == WaitingEntries(Joined(s, t)) IN Kept(waiting) = waiting

NothingLost(s, t) == RemovalsFit(s, t) /\ AllKept(s, t)

\* What is merged of three states, the first two of them first.
LEMMA MergeOfThree ==
  ASSUME NEW s, NEW t, NEW u, Accepted(s), Accepted(t), Accepted(u), NothingLost(s, t)
  PROVE  Normalize(Joined(Merge(s, t), u)) = Normalize(Joined(Joined(s, t), u))
<1>1. s \in State /\ t \in State /\ u \in State /\ Joined(s, t) \in State
  BY JoinedType DEF Accepted
<1>2. Merge(s, t) = Normalize(Joined(s, t))
  BY MergeIs DEF NothingLost
<1>3. Joined(s, t).floor = NoFloor => Joined(s, t).entries = {} /\ Joined(s, t).removals = {}
  <2>1. SUFFICES ASSUME AdoptedFloor(s.floor, t.floor) = NoFloor
                 PROVE  /\ s.entries = {} /\ t.entries = {}
                        /\ s.removals = {} /\ t.removals = {}
    BY DEF Joined
  <2>2. s.floor = NoFloor /\ t.floor = NoFloor
    BY <1>1, <2>1, BoundAssumption DEF AdoptedFloor, FloorAhead, State, Floor
  <2>. QED
    BY <2>2 DEF Accepted, Verify, RecordsInWindow, InWindow, AtOrAbove
<1>. QED
  BY <1>1, <1>2, <1>3, NormalizeEarly DEF NothingLost, AllKept

\* The laws of the merge.  Merging what is held changes nothing, whatever the caps;
\* it does not matter which of two states is merged into the other, while their
\* removals fit; nor how three are grouped, while no cap refuses or discards anything
\* (inbox/src/lib.rs:90-93, state.rs:391-397; above the caps the grouping may matter).
THEOREM MergeLaws ==
  ASSUME NEW s, NEW t, NEW u, Accepted(s), Accepted(t), Accepted(u)
  PROVE  /\ Merge(s, s) = s
         /\ RemovalsFit(s, t) => Merge(s, t) = Merge(t, s)
         /\ NothingLost(s, t) /\ NothingLost(t, u) /\ RemovalsFit(Merge(s, t), u)
              => Merge(Merge(s, t), u) = Merge(s, Merge(t, u))
<1>1. s \in State /\ t \in State /\ u \in State
  BY DEF Accepted
<1>2. Merge(s, s) = s
  <2>1. Joined(s, s) = s
    <3>1. AdoptedFloor(s.floor, s.floor) = s.floor
      BY DEF AdoptedFloor
    <3>2. s = [floor |-> s.floor, entries |-> s.entries, removals |-> s.removals]
      BY <1>1 DEF State
    <3>. QED
      BY <3>1, <3>2 DEF Joined
  <2>2. Normalize(s) = s
    BY AcceptedIsNormal DEF Accepted
  <2>3. RemovalsFit(s, s)
    BY <2>1, <2>2 DEF RemovalsFit, Accepted, Verify, WithinCaps
  <2>. QED
    BY <2>1, <2>2, <2>3, MergeIs
<1>3. ASSUME NEW x, NEW y, Accepted(x), Accepted(y), RemovalsFit(x, y)
      PROVE  RemovalsFit(y, x) /\ Merge(x, y) = Merge(y, x)
  <2>1. Joined(x, y) = Joined(y, x)
    BY <1>3, JoinedType DEF Accepted
  <2>2. RemovalsFit(y, x)
    BY <1>3, <2>1 DEF RemovalsFit
  <2>. QED
    BY <1>3, <2>1, <2>2, MergeIs
<1>4. ASSUME NothingLost(s, t), NothingLost(t, u), RemovalsFit(Merge(s, t), u)
      PROVE  Merge(Merge(s, t), u) = Merge(s, Merge(t, u))
  <2>1. PICK m, n : m = Merge(s, t) /\ n = Merge(t, u)
    OBVIOUS
  <2>2. Accepted(m) /\ Accepted(n) /\ n \in State
    BY <2>1, MergeIsAccepted DEF Accepted
  <2>3. Normalize(Joined(m, u)) = Normalize(Joined(Joined(s, t), u))
    BY <1>4, <2>1, MergeOfThree
  <2>4. Normalize(Joined(n, s)) = Normalize(Joined(Joined(t, u), s))
    BY <1>4, <2>1, MergeOfThree
  <2>5. Joined(Joined(s, t), u) = Joined(Joined(t, u), s)
    BY <1>1, JoinedType, JoinedAssociates
  <2>6. Normalize(Joined(m, u)) = Normalize(Joined(n, s))
    BY <2>3, <2>4, <2>5
  <2>7. RemovalsFit(m, u) /\ RemovalsFit(n, s)
    BY <1>4, <2>1, <2>6 DEF RemovalsFit
  <2>8. Merge(m, u) = Merge(n, s)
    BY <2>2, <2>6, <2>7, MergeIs
  <2>. QED
    BY <1>3, <2>1, <2>2, <2>7, <2>8
<1>. QED
  BY <1>2, <1>3, <1>4

-----------------------------------------------------------------------------
(* Types *)

LEMMA DeltaType ==
  ASSUME NEW s \in State, NEW old \in State
  PROVE  Delta(s, old) \in State
<1>. DEFINE E == {e \in s.entries : DigestOf(s.entries, e) # DigestOf(old.entries, e)}
            B == {b \in s.removals : DigestOf(s.removals, b) # DigestOf(old.removals, b)}
            told == FloorToTell(s.floor, old.floor) \/ E # {} \/ B # {}
            f == IF told THEN s.floor ELSE NoFloor
<1>1. Delta(s, old) = [floor |-> f, entries |-> E, removals |-> B]
  BY DEF Delta
<1>2. E \in SUBSET Entry /\ B \in SUBSET BatchShape /\ s.floor \in Floor
  BY DEF State
<1>. HIDE DEF E, B, told
<1>3. f \in Floor
  BY <1>2 DEF Floor
<1>. QED
  BY <1>1, <1>2, <1>3 DEF State

LEMMA SubmissionType ==
  ASSUME NEW s \in State, NEW e \in Entry
  PROVE  Submission(s.floor, e) \in State
  BY DEF Submission, State

LEMMA AnswerType ==
  ASSUME NetworkTypeOK, NEW p \in Peer, NEW q \in Peer
  PROVE  Answer(p, q) \in State
  BY DeltaType DEF NetworkTypeOK, Answer, Summarize

LEMMA ReceiveType ==
  ASSUME NetworkTypeOK, NEW p \in Peer, NEW d \in State, Receive(p, d)
  PROVE  NetworkTypeOK'
  BY ApplyDeltaType DEF NetworkTypeOK, Receive

LEMMA PostType ==
  ASSUME NetworkTypeOK, NEW p \in Peer, NEW d \in State, Post(p, d)
  PROVE  NetworkTypeOK'
  BY DEF NetworkTypeOK, Post, Message

-----------------------------------------------------------------------------
(* Steps *)

\* A step of the network is the arrival of one delta, the posting of one that
\* some peer's state answers with, or the loss of one.
LEMMA NetworkSteps ==
  ASSUME NetworkTypeOK, NetworkNext
  PROVE  \/ \E p, q \in Peer, e \in Entry :
              /\ Submission(inbox[q].floor, e) \in State
              /\ Receive(p, Submission(inbox[q].floor, e))
         \/ \E p, q \in Peer : Answer(p, q) \in State /\ Receive(p, Answer(p, q))
         \/ \E p, q \in Peer : Answer(p, q) \in State /\ Post(p, Answer(p, q))
         \/ \E m \in net : m.to \in Peer /\ m.delta \in State /\ Receive(m.to, m.delta)
         \/ net' \subseteq net /\ UNCHANGED inbox
<1>1. \A m \in net : m.to \in Peer /\ m.delta \in State
  BY DEF NetworkTypeOK, Message
<1>2. \A q \in Peer, e \in Entry : Submission(inbox[q].floor, e) \in State
  BY SubmissionType DEF NetworkTypeOK
<1>. QED
  BY <1>1, <1>2, AnswerType DEF NetworkNext, Submit, Sync, Send, Arrive, Lose

LEMMA NetworkStepType ==
  ASSUME NetworkTypeOK, NetworkNext
  PROVE  NetworkTypeOK'
<1>1. CASE net' \subseteq net /\ UNCHANGED inbox
  BY <1>1 DEF NetworkTypeOK
<1>. QED
  BY <1>1, NetworkSteps, ReceiveType, PostType

\* What a step did to one peer's state: nothing, or it applied one delta.
Applied(p) == \E d \in State : inbox'[p] \in {inbox[p], ApplyDelta(inbox[p], d)}

LEMMA ReceiveApplies ==
  ASSUME NetworkTypeOK, NEW q \in Peer, NEW d \in State, Receive(q, d), NEW p \in Peer
  PROVE  Applied(p)
  BY DEF Receive, NetworkTypeOK, Applied

LEMMA StaysApplies ==
  ASSUME NetworkTypeOK, UNCHANGED inbox, NEW p \in Peer
  PROVE  Applied(p)
  BY DEF Applied, NetworkTypeOK

LEMMA NetworkApplies ==
  ASSUME NetworkTypeOK, NetworkNext, NEW p \in Peer
  PROVE  Applied(p)
  BY NetworkSteps, ReceiveApplies, StaysApplies DEF Post

AllSettled == \A p \in Peer : Settled(inbox[p])

LEMMA InitSettled ==
  ASSUME NetworkInit
  PROVE  AllSettled
  BY DEF NetworkInit, AllSettled, Settled, EmptyState, Gone, IsRemoved

LEMMA AppliedSettles ==
  ASSUME NetworkTypeOK, AllSettled, \A p \in Peer : Applied(p)
  PROVE  AllSettled'
<1>. SUFFICES ASSUME NEW p \in Peer
              PROVE  Settled(inbox'[p])
  BY DEF AllSettled
<1>1. inbox[p] \in State /\ Settled(inbox[p])
  BY DEF NetworkTypeOK, AllSettled
<1>2. PICK d \in State : inbox'[p] \in {inbox[p], ApplyDelta(inbox[p], d)}
  BY DEF Applied
<1>. QED
  BY <1>1, <1>2, DeltaSettles

LEMMA AppliedReturnsNothing ==
  ASSUME NetworkTypeOK, AllSettled, NEW p \in Peer, NEW e \in Entry,
         Applied(p), Gone(inbox[p], e)
  PROVE  Gone(inbox'[p], e) /\ e \notin inbox'[p].entries
<1>1. inbox[p] \in State /\ Settled(inbox[p])
  BY DEF NetworkTypeOK, AllSettled
<1>2. PICK d \in State : inbox'[p] \in {inbox[p], ApplyDelta(inbox[p], d)}
  BY DEF Applied
<1>3. Gone(inbox'[p], e)
  BY <1>1, <1>2, DeltaKeepsGone
<1>4. Settled(inbox'[p])
  BY <1>1, <1>2, DeltaSettles
<1>. QED
  BY <1>3, <1>4 DEF Settled

-----------------------------------------------------------------------------
(* The bridge and its peers *)

LEMMA EntryTypes == \A e \in Entry : e.height \in Nat /\ e.prefix \in Prefix
  BY EntryAssumption DEF EntryShape

LEMMA BridgeDeltaTypes ==
  ASSUME TypeOK
  PROVE  BridgeDeltas \subseteq State
<1>1. \A h \in Nat : Receipt(h) \in BatchShape
  BY EntryTypes DEF Receipt, Opened, BatchShape
<1>2. ASSUME NEW f \in {NoFloor, signed}, NEW H \in SUBSET {e.height : e \in Opened}
      PROVE  BridgeDelta(f, H) \in State
  <2>1. H \subseteq Nat
    BY EntryTypes DEF Opened
  <2>2. {Receipt(h) : h \in H} \in SUBSET BatchShape
    BY <1>1, <2>1
  <2>3. f \in Floor
    BY DEF TypeOK, Floor
  <2>. QED
    BY <2>2, <2>3 DEF BridgeDelta, State
<1>. QED
  BY <1>2 DEF BridgeDeltas

\* Each step is one of these.
LEMMA Steps ==
  ASSUME [Next]_vars
  PROVE  \/ NetworkNext /\ UNCHANGED bridgeVars
         \/ \E h \in 0..MaxFloor : SignFloor(h)
         \/ \E e \in Entry : Read(e)
         \/ \E d \in BridgeDeltas : Receive(Home, d) /\ UNCHANGED bridgeVars
         \/ \E d \in BridgeDeltas : Post(Home, d) /\ UNCHANGED bridgeVars
         \/ UNCHANGED vars
  BY DEF Next, Publish, PublishLate

-----------------------------------------------------------------------------
(* Types *)

LEMMA InitType == Init => TypeOK
  BY DEF Init, NetworkInit, TypeOK, NetworkTypeOK, EmptyState, State, Floor

LEMMA StepType ==
  ASSUME TypeOK, [Next]_vars
  PROVE  TypeOK'
<1>. USE DEF bridgeVars
<1>1. CASE NetworkNext /\ UNCHANGED bridgeVars
  BY <1>1, NetworkStepType DEF TypeOK
<1>2. ASSUME NEW h \in 0..MaxFloor, SignFloor(h)
      PROVE  TypeOK'
  BY <1>2, PeerAssumption
  DEF SignFloor, TypeOK, NetworkTypeOK, networkVars, Floor, Remembered
<1>3. ASSUME NEW e \in Entry, Read(e)
      PROVE  TypeOK'
  BY <1>3 DEF Read, TypeOK, NetworkTypeOK, networkVars
<1>4. ASSUME NEW d \in BridgeDeltas, UNCHANGED bridgeVars, Receive(Home, d) \/ Post(Home, d)
      PROVE  TypeOK'
  BY <1>4, BridgeDeltaTypes, ReceiveType, PostType, PeerAssumption DEF TypeOK
<1>5. CASE UNCHANGED vars
  BY <1>5 DEF vars, TypeOK, NetworkTypeOK
<1>. QED
  BY <1>1, <1>2, <1>3, <1>4, <1>5, Steps

\* Every state of the replicas and the bridge is of its type, whatever deltas
\* travel: the contract's merge never leaves the shape of a state.
THEOREM TypeCorrect == Spec => []TypeOK
  BY InitType, StepType, PTL DEF Spec

-----------------------------------------------------------------------------
(* Removal and the floor are for good *)

LEMMA StepApplies ==
  ASSUME TypeOK, [Next]_vars, NEW p \in Peer
  PROVE  Applied(p)
<1>1. NetworkTypeOK /\ Home \in Peer
  BY PeerAssumption DEF TypeOK
<1>2. CASE NetworkNext
  BY <1>1, <1>2, NetworkApplies
<1>3. CASE \E d \in BridgeDeltas : Receive(Home, d)
  BY <1>1, <1>3, BridgeDeltaTypes, ReceiveApplies
<1>4. CASE UNCHANGED inbox
  BY <1>1, <1>4, StaysApplies
<1>. QED
  BY <1>2, <1>3, <1>4, Steps DEF SignFloor, Read, Post, networkVars, vars

LEMMA StepSettled ==
  ASSUME TypeOK, AllSettled, [Next]_vars
  PROVE  AllSettled'
  BY StepApplies, AppliedSettles DEF TypeOK

LEMMA StepNothingReturns ==
  ASSUME TypeOK, AllSettled, [Next]_vars, NEW p \in Peer, NEW e \in Entry,
         Gone(inbox[p], e)
  PROVE  Gone(inbox'[p], e) /\ e \notin inbox'[p].entries
  BY StepApplies, AppliedReturnsNothing DEF TypeOK

\* Whatever arrives, in whatever order, late or twice: an entry a peer has seen
\* removed, or passed by the floor, never waits there again.
THEOREM NothingEverReturns == Spec => NothingReturns
<1>1. TypeOK /\ AllSettled /\ [Next]_vars
        => [\A p \in Peer, e \in Entry :
              Gone(inbox[p], e) => Gone(inbox'[p], e) /\ e \notin inbox'[p].entries]_inbox
  BY StepNothingReturns
<1>2. Init => AllSettled
  BY InitSettled DEF Init
<1>3. Spec => []AllSettled
  BY <1>2, StepSettled, TypeCorrect, PTL DEF Spec
<1>. QED
  BY <1>1, <1>3, TypeCorrect, PTL DEF Spec, NothingReturns

-----------------------------------------------------------------------------
(* A request is opened once *)

\* The bridge remembers what it has read until its floor has passed it.
ReadsRemembered ==
  \A e \in Entry :
    /\ reads[e] <= 1
    /\ e \in handled => reads[e] = 1
    /\ reads[e] = 1 => e \in handled \/ (signed # NoFloor /\ e.height < signed)

LEMMA InitRemembered == Init => ReadsRemembered
  BY DEF Init, ReadsRemembered

LEMMA StepRemembered ==
  ASSUME TypeOK, ReadsRemembered, [Next]_vars
  PROVE  ReadsRemembered'
<1>1. \A e \in Entry : e.height \in Nat
  BY EntryTypes
<1>2. CASE UNCHANGED <<signed, handled, reads>>
  BY <1>2 DEF ReadsRemembered
<1>3. ASSUME NEW h \in 0..MaxFloor, SignFloor(h)
      PROVE  ReadsRemembered'
  <2>. SUFFICES ASSUME NEW e \in Entry
                PROVE  /\ reads[e] <= 1
                       /\ e \in handled' => reads[e] = 1
                       /\ reads[e] = 1 => e \in handled' \/ e.height < h
    BY <1>3, PeerAssumption, BoundAssumption DEF SignFloor, ReadsRemembered
  <2>1. signed # NoFloor => signed \in Nat /\ signed < h
    BY <1>3 DEF SignFloor, TypeOK, Floor
  <2>2. e \in handled' <=> e \in handled /\ h <= e.height
    BY <1>3 DEF SignFloor, Remembered
  <2>. QED
    BY <1>1, <2>1, <2>2 DEF ReadsRemembered
<1>4. ASSUME NEW e \in Entry, Read(e)
      PROVE  ReadsRemembered'
  <2>1. e \notin handled /\ ~(signed # NoFloor /\ e.height < signed)
    BY <1>1, <1>4 DEF Read, Readable, InWindow, AtOrAbove, TypeOK, Floor
  <2>2. reads[e] = 0
    BY <2>1 DEF ReadsRemembered, TypeOK
  <2>3. \A f \in Entry : reads'[f] = IF f = e THEN 1 ELSE reads[f]
    BY <1>4, <2>2 DEF Read, TypeOK
  <2>. QED
    BY <1>4, <2>3 DEF Read, ReadsRemembered
<1>5. \/ UNCHANGED <<signed, handled, reads>>
      \/ \E h \in 0..MaxFloor : SignFloor(h)
      \/ \E e \in Entry : Read(e)
  BY Steps DEF vars, bridgeVars
<1>. QED
  BY <1>2, <1>3, <1>4, <1>5

\* No request is opened twice, though the bridge forgets what it has read once
\* the floor it signed has passed it, and copies are still travelling.
THEOREM NeverReadTwice == Spec => []ReadAtMostOnce
<1>1. ReadsRemembered => ReadAtMostOnce
  BY DEF ReadsRemembered, ReadAtMostOnce
<1>. QED
  BY <1>1, InitRemembered, StepRemembered, TypeCorrect, PTL DEF Spec

-----------------------------------------------------------------------------
(* A removal names what has been read *)

\* Of read counts R.
Honest(B, R) ==
  \A b \in B : \A x \in b.removed :
    \E e \in Entry : e.height = b.height /\ e.prefix = x /\ R[e] > 0

RemovalsHonest ==
  /\ \A p \in Peer : Honest(inbox[p].removals, reads)
  /\ \A m \in net : Honest(m.delta.removals, reads)

LEMMA ReceiveHonest ==
  ASSUME TypeOK, RemovalsHonest, UNCHANGED reads,
         NEW p \in Peer, NEW d \in State, Honest(d.removals, reads), Receive(p, d)
  PROVE  RemovalsHonest'
<1>1. ASSUME NEW q \in Peer
      PROVE  Honest(inbox'[q].removals, reads)
  <2>1. inbox'[q] = inbox[q] \/ inbox'[q] = ApplyDelta(inbox[q], d)
    BY DEF Receive, TypeOK, NetworkTypeOK
  <2>2. inbox'[q].removals \subseteq inbox[q].removals \cup d.removals
    BY <2>1, NoNewRemovals
  <2>. QED
    BY <2>2 DEF RemovalsHonest, Honest
<1>. QED
  BY <1>1 DEF RemovalsHonest, Receive

LEMMA PostHonest ==
  ASSUME RemovalsHonest, UNCHANGED reads,
         NEW p \in Peer, NEW d \in State, Honest(d.removals, reads), Post(p, d)
  PROVE  RemovalsHonest'
  BY DEF RemovalsHonest, Post

LEMMA InitHonest == Init => RemovalsHonest
  BY DEF Init, NetworkInit, RemovalsHonest, Honest, EmptyState

LEMMA NetworkHonest ==
  ASSUME TypeOK, RemovalsHonest, NetworkNext, UNCHANGED reads
  PROVE  RemovalsHonest'
<1>1. \A p, q \in Peer : Honest(Answer(p, q).removals, reads)
  BY DEF Answer, Delta, RemovalsHonest, Honest
<1>2. \A q \in Peer, e \in Entry : Honest(Submission(inbox[q].floor, e).removals, reads)
  BY DEF Submission, Honest
<1>3. \A m \in net : Honest(m.delta.removals, reads)
  BY DEF RemovalsHonest
<1>4. CASE net' \subseteq net /\ UNCHANGED inbox
  BY <1>4 DEF RemovalsHonest
<1>. QED
  BY <1>1, <1>2, <1>3, <1>4, NetworkSteps, ReceiveHonest, PostHonest DEF TypeOK

LEMMA StepHonest ==
  ASSUME TypeOK, RemovalsHonest, [Next]_vars
  PROVE  RemovalsHonest'
<1>1. CASE NetworkNext /\ UNCHANGED bridgeVars
  BY <1>1, NetworkHonest DEF bridgeVars
<1>2. ASSUME NEW h \in 0..MaxFloor, SignFloor(h)
      PROVE  RemovalsHonest'
  BY <1>2 DEF SignFloor, RemovalsHonest, networkVars
<1>3. ASSUME NEW e \in Entry, Read(e)
      PROVE  RemovalsHonest'
  <2>1. \A f \in Entry : reads[f] > 0 => reads'[f] > 0
    BY <1>3 DEF Read, TypeOK
  <2>2. ASSUME NEW B, Honest(B, reads)
        PROVE  Honest(B, reads')
    BY <2>1, <2>2 DEF Honest
  <2>. QED
    BY <1>3, <2>2 DEF Read, RemovalsHonest, networkVars
<1>4. ASSUME NEW d \in BridgeDeltas, UNCHANGED bridgeVars, Receive(Home, d) \/ Post(Home, d)
      PROVE  RemovalsHonest'
  <2>1. Honest(d.removals, reads)
    BY DEF BridgeDeltas, BridgeDelta, Receipt, Opened, Honest
  <2>. QED
    BY <1>4, <2>1, BridgeDeltaTypes, ReceiveHonest, PostHonest, PeerAssumption
    DEF bridgeVars
<1>5. CASE UNCHANGED vars
  BY <1>5 DEF vars, RemovalsHonest
<1>. QED
  BY <1>1, <1>2, <1>3, <1>4, <1>5, Steps

\* A removal is a receipt: no peer ever shows one for a request the bridge has
\* not opened, whatever deltas reach it.
THEOREM RemovalsAreReceipts == Spec => []OnlyReadIsRemoved
<1>1. TypeOK /\ RemovalsHonest => OnlyReadIsRemoved
  BY PrefixAssumption DEF RemovalsHonest, Honest, OnlyReadIsRemoved, IsRemoved
<1>. QED
  BY <1>1, InitHonest, StepHonest, TypeCorrect, PTL DEF Spec

-----------------------------------------------------------------------------
(* Every state verifies *)

\* A step adds no more than finitely many records at once.
AllFinite ==
  /\ \A p \in Peer : FiniteState(inbox[p])
  /\ \A m \in net : FiniteState(m.delta)
  /\ IsFiniteSet(Opened)

Verified == EveryStateVerifies /\ AllFinite

LEMMA InitVerified == Init => Verified
<1>. SUFFICES ASSUME Init
              PROVE  Verified
  OBVIOUS
<1>1. net = {} /\ \A p \in Peer : inbox[p] = EmptyState
  BY DEF Init, NetworkInit
<1>2. Opened = {}
  BY DEF Init, Opened
<1>3. \A p \in Peer : Verify(inbox[p]) /\ FiniteState(inbox[p])
  BY <1>1, EmptyVerifies
<1>. QED
  BY <1>1, <1>2, <1>3, FS_EmptySet DEF Verified, EveryStateVerifies, AllFinite

LEMMA ReceiveVerified ==
  ASSUME TypeOK, Verified, UNCHANGED reads,
         NEW p \in Peer, NEW d \in State, FiniteState(d), Receive(p, d)
  PROVE  Verified'
<1>1. ASSUME NEW q \in Peer
      PROVE  Verify(inbox'[q]) /\ FiniteState(inbox'[q])
  <2>1. inbox[q] \in State /\ Verify(inbox[q]) /\ FiniteState(inbox[q])
    BY DEF TypeOK, NetworkTypeOK, Verified, EveryStateVerifies, AllFinite
  <2>2. inbox'[q] = inbox[q] \/ inbox'[q] = ApplyDelta(inbox[q], d)
    BY DEF Receive, TypeOK, NetworkTypeOK
  <2>. QED
    BY <2>1, <2>2, DeltaVerifies
<1>2. net' = net /\ Opened' = Opened
  BY DEF Receive, Opened
<1>. QED
  BY <1>1, <1>2 DEF Verified, EveryStateVerifies, AllFinite

LEMMA PostVerified ==
  ASSUME Verified, UNCHANGED reads,
         NEW p \in Peer, NEW d \in State, FiniteState(d), Post(p, d)
  PROVE  Verified'
<1>1. Opened' = Opened
  BY DEF Opened
<1>. QED
  BY <1>1 DEF Verified, EveryStateVerifies, AllFinite, Post

LEMMA NetworkVerified ==
  ASSUME TypeOK, Verified, NetworkNext, UNCHANGED reads
  PROVE  Verified'
<1>1. ASSUME NEW p \in Peer, NEW q \in Peer
      PROVE  FiniteState(Answer(p, q))
  <2>1. Answer(p, q).entries \subseteq inbox[q].entries
        /\ Answer(p, q).removals \subseteq inbox[q].removals
    BY DEF Answer, Delta
  <2>. QED
    BY <2>1, FS_Subset DEF Verified, AllFinite, FiniteState
<1>2. \A q \in Peer, e \in Entry : FiniteState(Submission(inbox[q].floor, e))
  BY FS_EmptySet, FS_Singleton DEF Submission, FiniteState
<1>3. \A m \in net : FiniteState(m.delta)
  BY DEF Verified, AllFinite
<1>4. Opened' = Opened
  BY DEF Opened
<1>5. CASE net' \subseteq net /\ UNCHANGED inbox
  BY <1>4, <1>5 DEF Verified, EveryStateVerifies, AllFinite
<1>. QED
  BY <1>1, <1>2, <1>3, <1>5, NetworkSteps, ReceiveVerified, PostVerified DEF TypeOK

LEMMA BridgeDeltasFinite ==
  ASSUME IsFiniteSet(Opened), NEW d \in BridgeDeltas
  PROVE  FiniteState(d)
<1>1. PICK f \in {NoFloor, signed}, H \in SUBSET {e.height : e \in Opened} :
        d = BridgeDelta(f, H)
  BY DEF BridgeDeltas
<1>. DEFINE Heights == {e.height : e \in Opened}
            heightOf == [e \in Opened |-> e.height]
            receipt  == [h \in H |-> Receipt(h)]
            Batches  == {Receipt(h) : h \in H}
<1>2. heightOf \in Surjection(Opened, Heights)
  BY DEF Surjection
<1>3. IsFiniteSet(Heights)
  BY <1>2, FS_Surjection
<1>4. IsFiniteSet(H)
  BY <1>3, FS_Subset
<1>5. receipt \in Surjection(H, Batches)
  BY DEF Surjection
<1>6. IsFiniteSet(Batches)
  BY <1>4, <1>5, FS_Surjection
<1>7. d.entries = {} /\ d.removals = Batches
  BY <1>1 DEF BridgeDelta
<1>. QED
  BY <1>6, <1>7, FS_EmptySet DEF FiniteState

LEMMA StepVerified ==
  ASSUME TypeOK, Verified, [Next]_vars
  PROVE  Verified'
<1>1. CASE NetworkNext /\ UNCHANGED bridgeVars
  BY <1>1, NetworkVerified DEF bridgeVars
<1>2. CASE UNCHANGED <<inbox, net, reads>>
  <2>1. Opened' = Opened
    BY <1>2 DEF Opened
  <2>. QED
    BY <1>2, <2>1 DEF Verified, EveryStateVerifies, AllFinite
<1>3. ASSUME NEW e \in Entry, Read(e)
      PROVE  Verified'
  <2>1. Opened' \subseteq Opened \cup {e}
    BY <1>3 DEF Read, Opened, TypeOK
  <2>2. IsFiniteSet(Opened')
    BY <2>1, FS_AddElement, FS_Subset DEF Verified, AllFinite
  <2>. QED
    BY <1>3, <2>2 DEF Read, Verified, EveryStateVerifies, AllFinite, networkVars
<1>4. ASSUME NEW d \in BridgeDeltas, UNCHANGED bridgeVars, Receive(Home, d) \/ Post(Home, d)
      PROVE  Verified'
  <2>1. FiniteState(d) /\ d \in State /\ Home \in Peer
    BY BridgeDeltaTypes, BridgeDeltasFinite, PeerAssumption DEF Verified, AllFinite
  <2>. QED
    BY <1>4, <2>1, ReceiveVerified, PostVerified DEF bridgeVars
<1>5. \/ NetworkNext /\ UNCHANGED bridgeVars
      \/ UNCHANGED <<inbox, net, reads>>
      \/ \E e \in Entry : Read(e)
      \/ \E d \in BridgeDeltas : UNCHANGED bridgeVars /\ (Receive(Home, d) \/ Post(Home, d))
  BY Steps DEF SignFloor, networkVars, vars
<1>. QED
  BY <1>1, <1>2, <1>3, <1>4, <1>5

\* Whatever deltas a peer is sent, late, twice or in any order, the state it
\* ends with is one the contract's verify accepts, though apply_delta never
\* calls it.
THEOREM StatesVerify == Spec => []EveryStateVerifies
<1>1. Verified => EveryStateVerifies
  BY DEF Verified
<1>. QED
  BY <1>1, InitVerified, StepVerified, TypeCorrect, PTL DEF Spec

\* If two peers differ, the summary of one makes the other send it something:
\* whole buckets at a time, and no difference falls between them.
THEOREM DifferencesAreTold ==
  Spec => [](\A p, q \in Peer : NoSilentDifference(p, q))
<1>1. ASSUME NEW s \in State, NEW t \in State, IsEmptyDelta(Delta(s, t))
      PROVE  /\ s.entries \subseteq t.entries /\ s.removals \subseteq t.removals
             /\ ~FloorAhead(s.floor, t.floor)
  <2>. DEFINE d == Delta(s, t)
              E == {e \in s.entries : DigestOf(s.entries, e) # DigestOf(t.entries, e)}
              B == {b \in s.removals : DigestOf(s.removals, b) # DigestOf(t.removals, b)}
  <2>1. d.entries = E /\ d.removals = B
    BY DEF Delta
  <2>2. E = {} /\ B = {} /\ d.floor = NoFloor
    BY <1>1, <2>1 DEF IsEmptyDelta
  <2>3. \A e \in s.entries : e \in DigestOf(s.entries, e)
    BY DEF DigestOf
  <2>4. \A b \in s.removals : b \in DigestOf(s.removals, b)
    BY DEF DigestOf
  <2>5. s.entries \subseteq t.entries /\ s.removals \subseteq t.removals
    BY <2>2, <2>3, <2>4 DEF DigestOf
  <2>6. FloorAhead(s.floor, t.floor) => d.floor = s.floor /\ s.floor # NoFloor
    BY DEF Delta, FloorToTell, FloorAhead
  <2>. QED
    BY <2>2, <2>5, <2>6
<1>2. ASSUME TypeOK, NEW p \in Peer, NEW q \in Peer
      PROVE  NoSilentDifference(p, q)
  <2>. SUFFICES ASSUME IsEmptyDelta(Answer(p, q)), IsEmptyDelta(Answer(q, p))
                PROVE  inbox[p] = inbox[q]
    BY DEF NoSilentDifference
  <2>1. inbox[p] \in State /\ inbox[q] \in State
    BY <1>2 DEF TypeOK, NetworkTypeOK
  <2>2. /\ IsEmptyDelta(Delta(inbox[q], inbox[p]))
        /\ IsEmptyDelta(Delta(inbox[p], inbox[q]))
    BY DEF Answer, Summarize
  <2>3. /\ inbox[q].entries \subseteq inbox[p].entries
        /\ inbox[q].removals \subseteq inbox[p].removals
        /\ ~FloorAhead(inbox[q].floor, inbox[p].floor)
    BY <1>1, <2>1, <2>2
  <2>4. /\ inbox[p].entries \subseteq inbox[q].entries
        /\ inbox[p].removals \subseteq inbox[q].removals
        /\ ~FloorAhead(inbox[p].floor, inbox[q].floor)
    BY <1>1, <2>1, <2>2
  <2>5. inbox[p].floor = inbox[q].floor
    BY <2>1, <2>3, <2>4, BoundAssumption DEF FloorAhead, State, Floor
  <2>. DEFINE Made(s) == [floor |-> s.floor, entries |-> s.entries, removals |-> s.removals]
  <2>6. \A s \in State : s = Made(s)
    BY DEF State
  <2>7. Made(inbox[p]) = Made(inbox[q])
    BY <2>3, <2>4, <2>5
  <2>8. inbox[p] = Made(inbox[p]) /\ inbox[q] = Made(inbox[q])
    BY <2>1, <2>6
  <2>. HIDE DEF Made
  <2>. QED
    BY <2>7, <2>8
<1>3. TypeOK => \A p, q \in Peer : NoSilentDifference(p, q)
  BY <1>2
<1>. QED
  BY <1>3, TypeCorrect, PTL

-----------------------------------------------------------------------------
(* Peers agree *)

\* All batches there are, held or travelling.
AllBatches ==
  {b \in BatchShape : \/ \E p \in Peer : b \in inbox[p].removals
                      \/ \E m \in net : b \in m.delta.removals}

\* The batches of one height grow with what the bridge has read there: of any two
\* the later names all that the earlier does, and no batch is empty.
InLine(B) ==
  /\ \A b \in B : b.removed # {} /\ b.removed \subseteq Receipt(b.height).removed
  /\ \A b, c \in B :
       b.height = c.height => CoveredBy(b, c) \/ CoveredBy(c, b)

NewReceipts == {Receipt(h) : h \in {e.height : e \in Opened}}

LEMMA WhoseBatch ==
  ASSUME TypeOK
  PROVE  /\ \A p \in Peer : inbox[p].removals \subseteq AllBatches
         /\ \A m \in net : m.delta.removals \subseteq AllBatches
  BY DEF TypeOK, NetworkTypeOK, Message, State, AllBatches

LEMMA ReceiveBatches ==
  ASSUME TypeOK, NEW p \in Peer, NEW d \in State, Receive(p, d)
  PROVE  AllBatches' \subseteq AllBatches \cup d.removals
<1>1. ASSUME NEW q \in Peer
      PROVE  inbox'[q].removals \subseteq inbox[q].removals \cup d.removals
  <2>1. inbox'[q] = inbox[q] \/ inbox'[q] = ApplyDelta(inbox[q], d)
    BY DEF Receive, TypeOK, NetworkTypeOK
  <2>. QED
    BY <2>1, NoNewRemovals
<1>. QED
  BY <1>1 DEF Receive, AllBatches

LEMMA PostBatches ==
  ASSUME NEW p \in Peer, NEW d \in State, Post(p, d)
  PROVE  AllBatches' \subseteq AllBatches \cup d.removals
<1>1. inbox' = inbox /\ \A m \in net' : m \in net \/ m.delta = d
  BY DEF Post
<1>2. ASSUME NEW b \in AllBatches'
      PROVE  b \in AllBatches \cup d.removals
  <2>1. (\E q \in Peer : b \in inbox'[q].removals) \/ (\E m \in net' : b \in m.delta.removals)
    BY <1>2 DEF AllBatches
  <2>. QED
    BY <1>1, <1>2, <2>1 DEF AllBatches
<1>. QED
  BY <1>2

\* A step brings no batches but the bridge's receipts for what it has opened.
LEMMA StepBatches ==
  ASSUME TypeOK, [Next]_vars
  PROVE  /\ AllBatches' \subseteq AllBatches
            \/ (AllBatches' \subseteq AllBatches \cup NewReceipts /\ UNCHANGED reads)
         /\ Opened \subseteq Opened'
<1>1. CASE NetworkNext /\ UNCHANGED bridgeVars
  <2>1. Opened' = Opened
    BY <1>1 DEF bridgeVars, Opened
  <2>2. \A p, q \in Peer : Answer(p, q).removals \subseteq AllBatches
    BY WhoseBatch DEF Answer, Delta, TypeOK, NetworkTypeOK
  <2>3. \A q \in Peer, e \in Entry : Submission(inbox[q].floor, e).removals = {}
    BY DEF Submission
  <2>4. \A m \in net : m.delta.removals \subseteq AllBatches
    BY WhoseBatch
  <2>5. ASSUME net' \subseteq net, UNCHANGED inbox
        PROVE  AllBatches' \subseteq AllBatches
    <3>1. ASSUME NEW b \in AllBatches'
          PROVE  b \in AllBatches
      <4>1. \/ \E p \in Peer : b \in inbox'[p].removals
            \/ \E m \in net' : b \in m.delta.removals
        BY <3>1 DEF AllBatches
      <4>. QED
        BY <2>5, <3>1, <4>1 DEF AllBatches
    <3>. QED
      BY <3>1
  <2>6. ASSUME NEW p \in Peer, NEW d \in State, d.removals \subseteq AllBatches,
               Receive(p, d) \/ Post(p, d)
        PROVE  AllBatches' \subseteq AllBatches
    <3>1. CASE Receive(p, d)
      <4>1. AllBatches' \subseteq AllBatches \cup d.removals
        BY <3>1, ReceiveBatches
      <4>. QED
        BY <2>6, <4>1
    <3>2. CASE Post(p, d)
      <4>1. AllBatches' \subseteq AllBatches \cup d.removals
        BY <3>2, PostBatches
      <4>. QED
        BY <2>6, <4>1
    <3>. QED
      BY <2>6, <3>1, <3>2
  <2>7. AllBatches' \subseteq AllBatches
    <3>1. ASSUME NEW p \in Peer, NEW q \in Peer, NEW e \in Entry,
                 Submission(inbox[q].floor, e) \in State,
                 Receive(p, Submission(inbox[q].floor, e))
          PROVE  AllBatches' \subseteq AllBatches
      BY <2>3, <2>6, <3>1
    <3>2. ASSUME NEW p \in Peer, NEW q \in Peer, Answer(p, q) \in State,
                 Receive(p, Answer(p, q)) \/ Post(p, Answer(p, q))
          PROVE  AllBatches' \subseteq AllBatches
      BY <2>2, <2>6, <3>2
    <3>3. ASSUME NEW m \in net, m.to \in Peer, m.delta \in State, Receive(m.to, m.delta)
          PROVE  AllBatches' \subseteq AllBatches
      BY <2>4, <2>6, <3>3
    <3>4. \/ \E p, q \in Peer, e \in Entry :
                /\ Submission(inbox[q].floor, e) \in State
                /\ Receive(p, Submission(inbox[q].floor, e))
          \/ \E p, q \in Peer : /\ Answer(p, q) \in State
                                /\ Receive(p, Answer(p, q)) \/ Post(p, Answer(p, q))
          \/ \E m \in net : m.to \in Peer /\ m.delta \in State /\ Receive(m.to, m.delta)
          \/ net' \subseteq net /\ UNCHANGED inbox
      BY <1>1, NetworkSteps DEF TypeOK
    <3>5. CASE \E p, q \in Peer, e \in Entry :
                 /\ Submission(inbox[q].floor, e) \in State
                 /\ Receive(p, Submission(inbox[q].floor, e))
      BY <3>1, <3>5
    <3>6. CASE \E p, q \in Peer : /\ Answer(p, q) \in State
                                  /\ Receive(p, Answer(p, q)) \/ Post(p, Answer(p, q))
      BY <3>2, <3>6
    <3>. QED
      BY <2>5, <3>3, <3>4, <3>5, <3>6
  <2>. QED
    BY <2>1, <2>7
<1>2. CASE UNCHANGED <<inbox, net>> /\ Opened \subseteq Opened'
  BY <1>2 DEF AllBatches
<1>3. ASSUME NEW d \in BridgeDeltas, UNCHANGED bridgeVars, Receive(Home, d) \/ Post(Home, d)
      PROVE  AllBatches' \subseteq AllBatches \cup NewReceipts /\ UNCHANGED reads /\ Opened' = Opened
  <2>1. d.removals \subseteq NewReceipts
    BY DEF BridgeDeltas, BridgeDelta, NewReceipts
  <2>. QED
    BY <1>3, <2>1, BridgeDeltaTypes, ReceiveBatches, PostBatches, PeerAssumption
    DEF bridgeVars, Opened
<1>4. ASSUME NEW e \in Entry, Read(e)
      PROVE  UNCHANGED <<inbox, net>> /\ Opened \subseteq Opened'
  BY <1>4 DEF Read, networkVars, Opened, TypeOK
<1>5. CASE (\E h \in 0..MaxFloor : SignFloor(h)) \/ UNCHANGED vars
  BY <1>2, <1>5 DEF SignFloor, networkVars, vars, Opened
<1>. QED
  BY <1>1, <1>2, <1>3, <1>4, <1>5, Steps

LEMMA BatchesInLine == TypeOK /\ InLine(AllBatches) /\ [Next]_vars => InLine(AllBatches)'
<1>. SUFFICES ASSUME TypeOK, InLine(AllBatches), [Next]_vars
              PROVE  InLine(AllBatches)'
  OBVIOUS
<1>1. Opened \subseteq Opened'
  BY StepBatches
<1>2. \A h : Receipt(h).removed \subseteq Receipt(h)'.removed
  BY <1>1 DEF Receipt
<1>3. ASSUME NEW B, InLine(B)
      PROVE  InLine(B)'
  BY <1>2, <1>3 DEF InLine
<1>4. CASE AllBatches' \subseteq AllBatches
  BY <1>2, <1>4 DEF InLine
<1>5. CASE AllBatches' \subseteq AllBatches \cup NewReceipts /\ UNCHANGED reads
  <2>1. \A b \in NewReceipts : b = Receipt(b.height) /\ b.removed # {}
    BY DEF NewReceipts, Receipt
  <2>2. \A h : Receipt(h)' = Receipt(h)
    BY <1>5 DEF Receipt, Opened
  <2>3. \A b \in AllBatches' :
          /\ b.removed # {}
          /\ b.removed \subseteq Receipt(b.height).removed
          /\ b \in AllBatches \/ b = Receipt(b.height)
    BY <1>5, <2>1 DEF InLine
  <2>4. ASSUME NEW b \in AllBatches', NEW c \in AllBatches', b.height = c.height
        PROVE  CoveredBy(b, c) \/ CoveredBy(c, b)
    <3>1. CASE b \in AllBatches /\ c \in AllBatches
      BY <2>4, <3>1 DEF InLine
    <3>2. CASE b = Receipt(b.height) \/ c = Receipt(c.height)
      BY <2>3, <2>4, <3>2 DEF CoveredBy
    <3>. QED
      BY <2>3, <3>1, <3>2
  <2>. QED
    BY <2>2, <2>3, <2>4 DEF InLine
<1>. QED
  BY <1>4, <1>5, StepBatches

\* Of two floors the second is not below the first.
NotAbove(f, g) == f = NoFloor \/ (g # NoFloor /\ f <= g)

\* What a state that was later the bridge's node's makes of an earlier one's batches:
\* its floor has passed them or it covers them.
Under(s, t) ==
  /\ NotAbove(s.floor, t.floor)
  /\ \A b \in s.removals :
       \/ t.floor # NoFloor /\ b.height < t.floor
       \/ \E c \in t.removals : CoveredBy(b, c)

\* Every batch of d was in s, as it is or in a larger one, and s's floor came with them.
Within(d, s) ==
  /\ NotAbove(s.floor, d.floor)
  /\ \A b \in d.removals : \E c \in s.removals : CoveredBy(b, c)

\* The states the bridge's node has held, each later one over the earlier ones.  The
\* bridge writes to its node only: what is held or travels elsewhere is from them.
HeldAtHome(C) ==
  /\ \A s \in C : s \in State /\ Verify(s) /\ FiniteState(s)
  /\ \A s, t \in C : Under(s, t) \/ Under(t, s)
  /\ inbox[Home] \in C /\ \A s \in C : Under(s, inbox[Home])
  /\ \A p \in Peer : \E s \in C : Within(inbox[p], s)
  /\ \A m \in net :
       m.to # Home /\ m.delta.removals # {} => \E s \in C : Within(m.delta, s)

FromHome == \E C : HeldAtHome(C)

LEMMA FloorsOrdered ==
  ASSUME NEW f \in Floor, NEW g \in Floor
  PROVE  /\ NotAbove(f, AdoptedFloor(f, g)) /\ NotAbove(g, AdoptedFloor(f, g))
         /\ \A h \in Floor : NotAbove(g, h) /\ NotAbove(f, g) => NotAbove(f, h)
         /\ NotAbove(f, f)
  BY BoundAssumption DEF NotAbove, AdoptedFloor, FloorAhead, Floor

LEMMA CoverTrans ==
  \A b, c, d : CoveredBy(b, c) /\ CoveredBy(c, d) => CoveredBy(b, d)
  BY DEF CoveredBy

LEMMA UnderTrans ==
  ASSUME NEW r \in State, NEW s \in State, NEW t \in State, Under(r, s), Under(s, t)
  PROVE  Under(r, t)
<1>1. r.floor \in Floor /\ s.floor \in Floor /\ t.floor \in Floor
  BY DEF State
<1>2. NotAbove(r.floor, t.floor)
  BY <1>1, FloorsOrdered DEF Under
<1>3. ASSUME NEW b \in r.removals
      PROVE  \/ t.floor # NoFloor /\ b.height < t.floor
             \/ \E d \in t.removals : CoveredBy(b, d)
  <2>1. b.height \in Nat
    BY DEF State, BatchShape
  <2>2. CASE s.floor # NoFloor /\ b.height < s.floor
    BY <1>1, <2>1, <2>2, BoundAssumption DEF Under, NotAbove, Floor
  <2>3. ASSUME NEW c \in s.removals, CoveredBy(b, c)
        PROVE  \/ t.floor # NoFloor /\ b.height < t.floor
               \/ \E d \in t.removals : CoveredBy(b, d)
    <3>1. c.height = b.height
      BY <2>3 DEF CoveredBy
    <3>2. \/ t.floor # NoFloor /\ c.height < t.floor
          \/ \E d \in t.removals : CoveredBy(c, d)
      BY DEF Under
    <3>. QED
      BY <2>3, <3>1, <3>2, CoverTrans
  <2>. QED
    BY <2>2, <2>3 DEF Under
<1>. QED
  BY <1>2, <1>3 DEF Under

LEMMA UnderSelf ==
  ASSUME NEW s \in State
  PROVE  Under(s, s)
<1>1. s.floor \in Floor
  BY DEF State
<1>. QED
  BY <1>1, FloorsOrdered DEF Under, CoveredBy

LEMMA WithinSelf ==
  ASSUME NEW s \in State
  PROVE  Within(s, s)
<1>1. s.floor \in Floor
  BY DEF State
<1>. QED
  BY <1>1, FloorsOrdered DEF Within, CoveredBy

\* Applying a delta takes a state to one over it.
LEMMA DeltaIsOver ==
  ASSUME NEW s \in State, NEW d \in State, Verify(s)
  PROVE  Under(s, ApplyDelta(s, d))
<1>. DEFINE f    == AdoptedFloor(s.floor, d.floor)
            held == Standing(s.removals, f)
            B    == held \cup {b \in d.removals : ~BatchPassedOver(b, held, f)}
            n    == [floor |-> f, entries |-> ToEntries(s, d), removals |-> ToRemovals(s, d)]
<1>1. s.floor \in Floor /\ f \in Floor /\ NotAbove(s.floor, f)
  BY FloorType, FloorsOrdered DEF State
<1>2. Under(s, s)
  BY UnderSelf
<1>3. ASSUME ApplyDelta(s, d) = Normalize(n), f # NoFloor
      PROVE  Under(s, ApplyDelta(s, d))
  <2>1. B \in SUBSET BatchShape /\ n.removals = DropCovered(B) /\ n.floor = f
    BY DEF ToRemovals, Standing, State
  <2>. HIDE DEF n
  <2>2. Normalize(n).floor = f /\ Normalize(n).removals = DropCovered(Standing(n.removals, f))
    BY <1>3, <2>1 DEF Normalize
  <2>3. DropCovered(Standing(n.removals, f)) = DropCovered(B)
    <3>1. Standing(n.removals, f) = n.removals
      BY <2>1 DEF Standing, DropCovered, BatchPassedOver, InWindow
    <3>2. DropCovered(DropCovered(B)) = DropCovered(B)
      BY DEF DropCovered
    <3>. QED
      BY <2>1, <3>1, <3>2
  <2>4. ASSUME NEW b \in s.removals
        PROVE  (f # NoFloor /\ b.height < f) \/ \E c \in DropCovered(B) : CoveredBy(b, c)
    <3>1. b.height \in Nat /\ f \in Nat
      BY <1>1, <1>3 DEF State, BatchShape, Floor
    <3>2. CASE f <= b.height
      <4>1. b \in B
        BY <1>3, <3>2 DEF Standing, AtOrAbove
      <4>. HIDE DEF B
      <4>. QED
        BY <2>1, <4>1, CoveredIsKept
    <3>3. CASE ~(f <= b.height)
      <4>. HIDE DEF f
      <4>. QED
        BY <1>3, <3>1, <3>3
    <3>. QED
      BY <3>2, <3>3
  <2>. QED
    BY <1>1, <1>3, <2>2, <2>3, <2>4 DEF Under
<1>4. CASE f = NoFloor
  <2>1. s.floor = NoFloor
    BY <1>1, <1>4, BoundAssumption DEF NotAbove
  <2>2. s.removals = {}
    BY <2>1 DEF Verify, RecordsInWindow, InWindow, AtOrAbove
  <2>. QED
    BY <2>1, <2>2 DEF Under, NotAbove
<1>. QED
  BY <1>2, <1>3, <1>4, DeltaOutcome

LEMMA DeltaFloor ==
  ASSUME NEW s \in State, NEW d \in State, ApplyDelta(s, d) # s
  PROVE  ApplyDelta(s, d).floor = AdoptedFloor(s.floor, d.floor)
<1>. DEFINE n == [floor    |-> AdoptedFloor(s.floor, d.floor),
                  entries  |-> ToEntries(s, d), removals |-> ToRemovals(s, d)]
<1>1. ApplyDelta(s, d) = Normalize(n) /\ n.floor = AdoptedFloor(s.floor, d.floor)
  BY DeltaOutcome
<1>. HIDE DEF n
<1>2. Normalize(n).floor = n.floor
  BY DEF Normalize, EmptyState
<1>. QED
  BY <1>1, <1>2

\* What a state that is within an earlier one takes from a delta within another is
\* within the later of the two.
LEMMA DeltaStaysWithin ==
  ASSUME NEW x \in State, NEW d \in State, NEW s \in State, NEW t \in State,
         Verify(x), FiniteState(x), FiniteState(d),
         Within(x, s), Within(d, t), Under(s, t) \/ Under(t, s)
  PROVE  Within(ApplyDelta(x, d), s) \/ Within(ApplyDelta(x, d), t)
<1>. DEFINE y == ApplyDelta(x, d)
<1>1. CASE y = x
  BY <1>1
<1>2. CASE y # x
  <2>1. /\ y \in State /\ Verify(y)
        /\ y.removals \subseteq x.removals \cup d.removals
        /\ y.floor = AdoptedFloor(x.floor, d.floor)
    BY <1>2, ApplyDeltaType, DeltaVerifies, NoNewRemovals, DeltaFloor
  <2>. HIDE DEF y
  <2>2. s.floor \in Floor /\ t.floor \in Floor /\ x.floor \in Floor /\ d.floor \in Floor
        /\ y.floor \in Floor
    BY <2>1 DEF State
  <2>3. NotAbove(s.floor, y.floor) /\ NotAbove(t.floor, y.floor)
    BY <2>1, <2>2, FloorsOrdered DEF Within
  <2>4. ASSUME NEW b \in y.removals
        PROVE  /\ b.height \in Nat /\ AtOrAbove(b.height, y.floor)
               /\ \E c \in s.removals \cup t.removals : CoveredBy(b, c)
    BY <2>1 DEF State, BatchShape, Verify, RecordsInWindow, InWindow, Within
  <2>5. ASSUME NEW u \in {s, t}, NEW v \in {s, t}, Under(u, v), {s, t} = {u, v}
        PROVE  Within(y, v)
    <3>1. NotAbove(v.floor, y.floor) /\ v.floor \in Floor
      BY <2>2, <2>3
    <3>2. ASSUME NEW b \in y.removals
          PROVE  \E c \in v.removals : CoveredBy(b, c)
      <4>1. PICK c \in s.removals \cup t.removals : CoveredBy(b, c)
        BY <2>4
      <4>2. c \in u.removals \/ c \in v.removals
        BY <2>5
      <4>3. CASE c \in u.removals
        <5>1. \/ v.floor # NoFloor /\ c.height < v.floor
              \/ \E e \in v.removals : CoveredBy(c, e)
          BY <2>5, <4>3 DEF Under
        <5>2. c.height = b.height
          BY <4>1 DEF CoveredBy
        <5>3. ~(v.floor # NoFloor /\ c.height < v.floor)
          BY <2>2, <2>4, <3>1, <5>2, BoundAssumption DEF NotAbove, AtOrAbove, Floor
        <5>. QED
          BY <4>1, <5>1, <5>3, CoverTrans
      <4>. QED
        BY <4>1, <4>2, <4>3
    <3>. QED
      BY <3>1, <3>2 DEF Within
  <2>6. CASE Under(s, t)
    BY <2>5, <2>6 DEF y
  <2>7. CASE Under(t, s)
    BY <2>5, <2>7 DEF y
  <2>. QED
    BY <2>6, <2>7
<1>. QED
  BY <1>1, <1>2

\* An answer is within what its sender is within, if it names removals.
LEMMA AnswerWithin ==
  ASSUME NEW x \in State, NEW old, NEW s, Within(x, s), Delta(x, old).removals # {}
  PROVE  Within(Delta(x, old), s)
  BY DEF Within, Delta

\* A delta without removals brings none.
LEMMA BareDeltaStaysWithin ==
  ASSUME NEW x \in State, NEW d \in State, NEW s \in State, Within(x, s), d.removals = {}
  PROVE  Within(ApplyDelta(x, d), s)
<1>. DEFINE y == ApplyDelta(x, d)
<1>1. CASE y = x
  BY <1>1
<1>2. CASE y # x
  <2>1. y.removals \subseteq x.removals /\ y.floor = AdoptedFloor(x.floor, d.floor)
    BY <1>2, NoNewRemovals, DeltaFloor
  <2>. HIDE DEF y
  <2>2. s.floor \in Floor /\ x.floor \in Floor /\ d.floor \in Floor /\ y.floor \in Floor
    BY <2>1, FloorType DEF State
  <2>3. NotAbove(s.floor, y.floor)
    BY <2>1, <2>2, FloorsOrdered DEF Within
  <2>. QED
    BY <2>1, <2>3 DEF Within, y
<1>. QED
  BY <1>1, <1>2

-----------------------------------------------------------------------------

\* What a peer may be sent: for the bridge's node anything, for others what is from
\* one of the states in C.
FitFor(p, d, C) ==
  p = Home \/ d.removals = {} \/ \E s \in C : Within(d, s)

LEMMA ReceiveFromHome ==
  ASSUME TypeOK, Verified, NEW C, HeldAtHome(C), NEW p \in Peer, NEW d \in State,
         FiniteState(d), FitFor(p, d, C), Receive(p, d),
         NEW D, D = C \cup {inbox'[Home]}
  PROVE  HeldAtHome(D)'
<1>1. \A q \in Peer : inbox[q] \in State /\ Verify(inbox[q]) /\ FiniteState(inbox[q])
  BY DEF TypeOK, NetworkTypeOK, Verified, EveryStateVerifies, AllFinite
<1>2. /\ inbox'[p] = ApplyDelta(inbox[p], d) /\ \A q \in Peer \ {p} : inbox'[q] = inbox[q]
      /\ net' = net
  BY DEF Receive, TypeOK, NetworkTypeOK
<1>3. Home \in Peer /\ \A s \in C : s \in State
  BY PeerAssumption DEF HeldAtHome
<1>4. inbox'[Home] \in State /\ Verify(inbox'[Home]) /\ FiniteState(inbox'[Home])
  BY <1>1, <1>2, <1>3, ApplyDeltaType, DeltaVerifies
<1>5. Under(inbox[Home], inbox'[Home]) /\ Under(inbox'[Home], inbox'[Home])
  BY <1>1, <1>2, <1>3, <1>4, DeltaIsOver, UnderSelf
<1>6. \A s \in D : Under(s, inbox'[Home])
  BY <1>1, <1>3, <1>4, <1>5, UnderTrans DEF HeldAtHome
<1>7. ASSUME NEW q \in Peer
      PROVE  \E s \in D : Within(inbox'[q], s)
  <2>1. PICK s \in C : Within(inbox[q], s)
    BY DEF HeldAtHome
  <2>2. CASE q # p
    BY <1>2, <2>1, <2>2
  <2>3. CASE q = Home
    BY <1>4, <2>3, WithinSelf
  <2>4. CASE q = p /\ d.removals = {}
    BY <1>1, <1>2, <1>3, <2>1, <2>4, BareDeltaStaysWithin
  <2>5. ASSUME q = p, NEW t \in C, Within(d, t)
        PROVE  \E u \in D : Within(inbox'[q], u)
    <3>1. Under(s, t) \/ Under(t, s)
      BY DEF HeldAtHome
    <3>2. Within(ApplyDelta(inbox[p], d), s) \/ Within(ApplyDelta(inbox[p], d), t)
      BY <1>1, <1>3, <2>1, <2>5, <3>1, DeltaStaysWithin
    <3>. QED
      BY <1>2, <2>5, <3>2
  <2>. QED
    BY <2>2, <2>3, <2>4, <2>5 DEF FitFor
<1>8. \A m \in net : m.to # Home /\ m.delta.removals # {} => \E s \in D : Within(m.delta, s)
  BY DEF HeldAtHome
<1>9. \A s, t \in D : Under(s, t) \/ Under(t, s)
  BY <1>6 DEF HeldAtHome
<1>10. \A s \in D : s \in State /\ Verify(s) /\ FiniteState(s)
  BY <1>4 DEF HeldAtHome
<1>. QED
  BY <1>2, <1>6, <1>7, <1>8, <1>9, <1>10 DEF HeldAtHome

LEMMA PostFromHome ==
  ASSUME NEW C, HeldAtHome(C), NEW p \in Peer, NEW d \in State, FitFor(p, d, C), Post(p, d)
  PROVE  HeldAtHome(C)'
<1>1. inbox' = inbox /\ \A m \in net' : m \in net \/ m = [to |-> p, delta |-> d]
  BY DEF Post
<1>2. \A m \in net' :
        m.to # Home /\ m.delta.removals # {} => \E s \in C : Within(m.delta, s)
  BY <1>1 DEF HeldAtHome, FitFor
<1>. QED
  BY <1>1, <1>2 DEF HeldAtHome

LEMMA InitFromHome == Init => FromHome
<1>. SUFFICES ASSUME Init
              PROVE  HeldAtHome({EmptyState})
  BY DEF FromHome
<1>1. net = {} /\ (\A p \in Peer : inbox[p] = EmptyState) /\ Home \in Peer
  BY PeerAssumption DEF Init, NetworkInit
<1>2. EmptyState \in State
  BY DEF EmptyState, State, Floor
<1>. QED
  BY <1>1, <1>2, EmptyVerifies, UnderSelf, WithinSelf DEF HeldAtHome

LEMMA StepFromHome ==
  ASSUME TypeOK, Verified, FromHome, [Next]_vars
  PROVE  FromHome'
<1>1. PICK C : HeldAtHome(C)
  BY DEF FromHome
<1>2. ASSUME NEW p \in Peer, NEW d \in State, FiniteState(d), FitFor(p, d, C),
             Receive(p, d) \/ Post(p, d)
      PROVE  FromHome'
  <2>1. CASE Receive(p, d)
    <3>1. PICK D : D = C \cup {inbox'[Home]}
      OBVIOUS
    <3>2. HeldAtHome(D)'
      BY <1>1, <1>2, <2>1, <3>1, ReceiveFromHome
    <3>. QED
      BY <3>2 DEF FromHome
  <2>2. CASE Post(p, d)
    BY <1>1, <1>2, <2>2, PostFromHome DEF FromHome
  <2>. QED
    BY <1>2, <2>1, <2>2
<1>3. CASE NetworkNext /\ UNCHANGED bridgeVars
  <2>1. ASSUME NEW p \in Peer, NEW q \in Peer
        PROVE  FiniteState(Answer(p, q)) /\ FitFor(p, Answer(p, q), C)
    <3>1. Answer(p, q).entries \subseteq inbox[q].entries
          /\ Answer(p, q).removals \subseteq inbox[q].removals
      BY DEF Answer, Delta
    <3>2. FiniteState(Answer(p, q))
      BY <3>1, FS_Subset DEF Verified, AllFinite, FiniteState
    <3>3. inbox[q] \in State /\ \E s \in C : Within(inbox[q], s)
      BY <1>1 DEF TypeOK, NetworkTypeOK, HeldAtHome
    <3>. QED
      BY <3>2, <3>3, AnswerWithin DEF FitFor, Answer, Summarize
  <2>2. \A p, q \in Peer, e \in Entry :
          /\ FiniteState(Submission(inbox[q].floor, e))
          /\ FitFor(p, Submission(inbox[q].floor, e), C)
    BY FS_EmptySet, FS_Singleton DEF Submission, FiniteState, FitFor
  <2>3. \A m \in net : FiniteState(m.delta) /\ FitFor(m.to, m.delta, C)
    BY <1>1 DEF Verified, AllFinite, HeldAtHome, FitFor
  <2>4. ASSUME net' \subseteq net, UNCHANGED inbox
        PROVE  FromHome'
    BY <1>1, <2>4 DEF HeldAtHome, FromHome
  <2>. QED
    BY <1>2, <1>3, <2>1, <2>2, <2>3, <2>4, NetworkSteps DEF TypeOK
<1>4. ASSUME NEW d \in BridgeDeltas, Receive(Home, d) \/ Post(Home, d)
      PROVE  FromHome'
  <2>1. FiniteState(d) /\ d \in State /\ Home \in Peer
    BY BridgeDeltaTypes, BridgeDeltasFinite, PeerAssumption DEF Verified, AllFinite
  <2>. QED
    BY <1>2, <1>4, <2>1 DEF FitFor
<1>5. ASSUME UNCHANGED <<inbox, net>>
      PROVE  FromHome'
  BY <1>1, <1>5 DEF HeldAtHome, FromHome
<1>6. (\E h \in 0..MaxFloor : SignFloor(h)) \/ (\E e \in Entry : Read(e)) \/ UNCHANGED vars
        => UNCHANGED <<inbox, net>>
  BY DEF SignFloor, Read, networkVars, vars
<1>. QED
  BY <1>3, <1>4, <1>5, <1>6, Steps

\* Two peers' removals fit in one state: of each height one batch stays, and the later
\* of the two states of the bridge's node they are from covers it, and fits.
LEMMA ReceiptsFit ==
  ASSUME TypeOK, Verified, InLine(AllBatches), FromHome,
         NEW p \in Peer, NEW q \in Peer,
         AdoptedFloor(inbox[p].floor, inbox[q].floor) # NoFloor
  PROVE  RemovalsFit(inbox[p], inbox[q])
<1>. DEFINE f == AdoptedFloor(inbox[p].floor, inbox[q].floor)
            j == Joined(inbox[p], inbox[q])
            U == inbox[p].removals \cup inbox[q].removals
            R == DropCovered(Standing(U, f))
            P == UNION {{<<b, x>> : x \in b.removed} : b \in R}
<1>1. /\ inbox[p] \in State /\ Verify(inbox[p]) /\ FiniteState(inbox[p])
      /\ inbox[q] \in State /\ Verify(inbox[q]) /\ FiniteState(inbox[q])
  BY DEF TypeOK, NetworkTypeOK, Verified, EveryStateVerifies, AllFinite
<1>2. /\ inbox[p].floor \in Floor /\ inbox[q].floor \in Floor /\ f \in Nat /\ f \in Floor
      /\ NotAbove(inbox[p].floor, f) /\ NotAbove(inbox[q].floor, f)
  <2>1. inbox[p].floor \in Floor /\ inbox[q].floor \in Floor
    BY <1>1 DEF State
  <2>2. f \in Floor /\ NotAbove(inbox[p].floor, f) /\ NotAbove(inbox[q].floor, f)
    BY <2>1, FloorType, FloorsOrdered
  <2>3. f \in Nat
    <3>1. f # NoFloor
      OBVIOUS
    <3>. HIDE DEF f
    <3>. QED
      BY <2>2, <3>1 DEF Floor
  <2>. QED
    BY <2>1, <2>2, <2>3
<1>3. Normalize(j).removals = R
  <2>1. j.floor = f /\ j.removals = U
    BY DEF Joined
  <2>. HIDE DEF j, U
  <2>. QED
    BY <2>1 DEF Normalize, f
<1>4. R \subseteq U /\ U \subseteq AllBatches /\ U \in SUBSET BatchShape
  BY <1>1, WhoseBatch DEF DropCovered, Standing, State
<1>5. ASSUME NEW b \in R
      PROVE  b.valid = TRUE /\ b.height \in Nat /\ f <= b.height
  <2>1. b.height \in Nat /\ AtOrAbove(b.height, f) /\ b.valid \in BOOLEAN
    BY <1>4 DEF DropCovered, Standing, BatchShape
  <2>2. b.valid
    BY <1>1, <1>4 DEF Verify, RecordsInWindow
  <2>. QED
    BY <2>1, <2>2 DEF AtOrAbove
<1>6. ASSUME NEW b \in R, NEW c \in R, b.height = c.height
      PROVE  b = c
  <2>1. CoveredBy(b, c) \/ CoveredBy(c, b)
    BY <1>4, <1>6 DEF InLine
  <2>2. SameBatchKey(b, c)
    BY <2>1 DEF DropCovered, SameBatchKey
  <2>3. b.valid = c.valid
    BY <1>5
  <2>4. /\ b = [height |-> b.height, removed |-> b.removed, valid |-> b.valid]
        /\ c = [height |-> c.height, removed |-> c.removed, valid |-> c.valid]
    BY <1>4 DEF BatchShape
  <2>. QED
    BY <2>2, <2>3, <2>4 DEF SameBatchKey
<1>. HIDE DEF f, R
<1>7. PICK t \in State :
        /\ Verify(t) /\ FiniteState(t)
        /\ \A b \in R : \E c \in t.removals : CoveredBy(b, c)
  <2>1. PICK C : HeldAtHome(C)
    BY DEF FromHome
  <2>2. PICK s \in C : Within(inbox[p], s)
    BY <2>1 DEF HeldAtHome
  <2>3. PICK r \in C : Within(inbox[q], r)
    BY <2>1 DEF HeldAtHome
  <2>4. /\ s \in State /\ Verify(s) /\ FiniteState(s)
        /\ r \in State /\ Verify(r) /\ FiniteState(r)
        /\ Under(s, r) \/ Under(r, s)
    BY <2>1 DEF HeldAtHome
  <2>5. /\ s.floor \in Floor /\ r.floor \in Floor
        /\ NotAbove(s.floor, f) /\ NotAbove(r.floor, f)
    <3>1. s.floor \in Floor /\ r.floor \in Floor
      BY <2>4 DEF State
    <3>2. NotAbove(s.floor, inbox[p].floor) /\ NotAbove(r.floor, inbox[q].floor)
      BY <2>2, <2>3 DEF Within
    <3>3. NotAbove(s.floor, f)
      BY <1>2, <3>1, <3>2, BoundAssumption DEF NotAbove, Floor
    <3>4. NotAbove(r.floor, f)
      BY <1>2, <3>1, <3>2, BoundAssumption DEF NotAbove, Floor
    <3>. QED
      BY <3>1, <3>3, <3>4
  <2>6. \A b \in R : \E c \in s.removals \cup r.removals : CoveredBy(b, c)
    BY <1>4, <2>2, <2>3 DEF Within
  <2>7. ASSUME NEW u, NEW t, u \in State, t \in State, Under(u, t), {s, r} = {u, t}
        PROVE  \A b \in R : \E c \in t.removals : CoveredBy(b, c)
    <3>1. t.floor \in Floor /\ NotAbove(t.floor, f)
      BY <2>5, <2>7
    <3>. SUFFICES ASSUME NEW b \in R
                  PROVE  \E c \in t.removals : CoveredBy(b, c)
      OBVIOUS
    <3>2. PICK c \in s.removals \cup r.removals : CoveredBy(b, c)
      BY <2>6
    <3>3. c \in u.removals \/ c \in t.removals
      BY <2>7
    <3>4. CASE c \in u.removals
      <4>1. \/ t.floor # NoFloor /\ c.height < t.floor
            \/ \E e \in t.removals : CoveredBy(c, e)
        BY <2>7, <3>4 DEF Under
      <4>2. c.height = b.height
        BY <3>2 DEF CoveredBy
      <4>3. ~(t.floor # NoFloor /\ c.height < t.floor)
        <5>1. b.height \in Nat /\ f \in Nat /\ f <= b.height
          BY <1>2, <1>5
        <5>. QED
          BY <3>1, <4>2, <5>1, BoundAssumption DEF NotAbove, Floor
      <4>. QED
        BY <3>2, <4>1, <4>3, CoverTrans
    <3>. QED
      BY <3>2, <3>3, <3>4
  <2>8. CASE Under(s, r)
    BY <2>4, <2>7, <2>8
  <2>9. CASE Under(r, s)
    BY <2>4, <2>7, <2>9
  <2>. QED
    BY <2>4, <2>8, <2>9
<1>. DEFINE over == [b \in R |-> CHOOSE c \in t.removals : CoveredBy(b, c)]
<1>8. \A b \in R : over[b] \in t.removals /\ CoveredBy(b, over[b])
  BY <1>7
<1>9. \A b \in R : over[b].height = b.height /\ b.removed \subseteq over[b].removed
  BY <1>8 DEF CoveredBy
<1>. HIDE DEF over
<1>10. ASSUME NEW b \in R, NEW c \in R, over[b] = over[c]
       PROVE  b = c
  BY <1>6, <1>9, <1>10
<1>11. over \in Injection(R, t.removals)
  BY <1>8, <1>10 DEF Injection, IsInjective, over
<1>12. IsFiniteSet(t.removals) /\ Cardinality(t.removals) \in Nat
  BY <1>7, FS_CardinalityType DEF FiniteState
<1>13. Cardinality(t.removals) <= MaxBatches /\ RemovedCount(t.removals) <= MaxRemoved
  BY <1>7 DEF Verify, WithinCaps
<1>14. Cardinality(R) <= MaxBatches
  <2>1. IsFiniteSet(R) /\ Cardinality(R) <= Cardinality(t.removals)
    BY <1>11, <1>12, FS_Injection
  <2>. QED
    BY <1>12, <1>13, <2>1, FS_CardinalityType, BoundAssumption
<1>15. RemovedCount(R) <= MaxRemoved
  <2>. DEFINE Q == UNION {{<<c, x>> : x \in c.removed} : c \in t.removals}
              named == [y \in P |-> <<over[y[1]], y[2]>>]
  <2>1. \A y \in P : y[1] \in R /\ y[2] \in y[1].removed /\ y = <<y[1], y[2]>>
    OBVIOUS
  <2>2. \A b \in R : \A x \in b.removed : <<over[b], x>> \in Q
    BY <1>8, <1>9
  <2>. HIDE DEF P, Q
  <2>3. \A y \in P : named[y] \in Q
    BY <2>1, <2>2
  <2>4. ASSUME NEW y \in P, NEW z \in P, named[y] = named[z]
        PROVE  y = z
    <3>1. over[y[1]] = over[z[1]] /\ y[2] = z[2]
      BY <2>4
    <3>. QED
      BY <1>10, <2>1, <3>1
  <2>5. named \in Injection(P, Q)
    BY <2>3, <2>4 DEF Injection, IsInjective
  <2>6. IsFiniteSet(Q) /\ Cardinality(Q) <= MaxRemoved
    <3>1. IsFiniteSet(Q)
      <4>1. t.removals \subseteq BatchShape
        BY <1>7 DEF State
      <4>2. Q \subseteq t.removals \X Prefix
        BY <4>1 DEF Q, BatchShape
      <4>. QED
        BY <1>12, <4>2, PrefixAssumption, FS_Product, FS_Subset
    <3>. QED
      BY <1>13, <3>1 DEF RemovedCount, Q
  <2>7. IsFiniteSet(P) /\ Cardinality(P) <= Cardinality(Q)
    BY <2>5, <2>6, FS_Injection
  <2>8. Cardinality(P) <= MaxRemoved
    BY <2>6, <2>7, FS_CardinalityType, BoundAssumption
  <2>. QED
    BY <2>8 DEF RemovedCount, P
<1>. QED
  BY <1>3, <1>14, <1>15 DEF RemovalsFit

\* Whatever each peer heard first, and whatever the caps made it drop: two peers never
\* differ in silence, and merging the state of either into that of the other leaves
\* one state (apply_delta, normalize).
THEOREM PeersComeToAgree == Spec => []PeersAgree
<1>1. ASSUME TypeOK, Verified, InLine(AllBatches), FromHome, NEW p \in Peer, NEW q \in Peer
      PROVE  MergeCommutes(p, q)
  <2>1. /\ inbox[p] \in State /\ Verify(inbox[p]) /\ FiniteState(inbox[p])
        /\ inbox[q] \in State /\ Verify(inbox[q]) /\ FiniteState(inbox[q])
    BY <1>1 DEF TypeOK, NetworkTypeOK, Verified, EveryStateVerifies, AllFinite
  <2>2. CASE AdoptedFloor(inbox[p].floor, inbox[q].floor) # NoFloor
    BY <1>1, <2>1, <2>2, ReceiptsFit, MergesAgree DEF MergeCommutes
  <2>3. CASE AdoptedFloor(inbox[p].floor, inbox[q].floor) = NoFloor
    BY <2>1, <2>3, UnopenedMerge DEF MergeCommutes
  <2>. QED
    BY <2>2, <2>3
<1>2. Init => InLine(AllBatches)
  BY DEF Init, NetworkInit, EmptyState, InLine, AllBatches
<1>3. TypeOK /\ Verified /\ InLine(AllBatches) /\ FromHome =>
        \A p, q \in Peer : MergeCommutes(p, q)
  BY <1>1
<1>4. (\A p, q \in Peer : MergeCommutes(p, q)) /\ (\A p, q \in Peer : NoSilentDifference(p, q))
        => PeersAgree
  BY DEF PeersAgree
<1>5. TypeOK /\ Verified /\ FromHome /\ [Next]_vars => FromHome'
  BY StepFromHome
<1>. QED
  BY <1>2, <1>3, <1>4, <1>5, InitFromHome, InitVerified, StepVerified, TypeCorrect,
     BatchesInLine, DifferencesAreTold, PTL DEF Spec

\* One message after the other, p hearing what q holds and then q what p holds now:
\* both hold one state, unless the caps discarded an entry when p heard
\* (inbox/src/lib.rs:94-98 has no such exception; see ExchangeAgrees).
THEOREM ExchangeAgreesWithinCaps ==
  Spec => [](\A p, q \in Peer :
               AllKept(inbox[p], inbox[q]) =>
                 LET heard == Merge(inbox[p], inbox[q])
                 IN  Merge(inbox[q], heard) = heard)
<1>. DEFINE Exchanged(p, q) ==
              AllKept(inbox[p], inbox[q]) =>
                LET heard == Merge(inbox[p], inbox[q])
                IN  Merge(inbox[q], heard) = heard
<1>1. ASSUME TypeOK, Verified, InLine(AllBatches), FromHome, NEW p \in Peer, NEW q \in Peer,
             AllKept(inbox[p], inbox[q])
      PROVE  LET heard == Merge(inbox[p], inbox[q])
             IN  Merge(inbox[q], heard) = heard
  <2>1. PICK s, t, m : s = inbox[p] /\ t = inbox[q] /\ m = Merge(s, t)
    OBVIOUS
  <2>2. Accepted(s) /\ Accepted(t) /\ Accepted(m)
    <3>1. Accepted(s) /\ Accepted(t)
      BY <1>1, <2>1
      DEF TypeOK, NetworkTypeOK, Verified, EveryStateVerifies, AllFinite, Accepted
    <3>. QED
      BY <2>1, <3>1, MergeIsAccepted
  <2>3. RemovalsFit(s, t)
    <3>1. CASE AdoptedFloor(s.floor, t.floor) # NoFloor
      BY <1>1, <2>1, <3>1, ReceiptsFit
    <3>2. CASE AdoptedFloor(s.floor, t.floor) = NoFloor
      <4>1. Normalize(Joined(s, t)) = EmptyState
        BY <3>2 DEF Joined, Normalize
      <4>. QED
        BY <4>1, EmptyVerifies DEF RemovalsFit, Verify, WithinCaps
    <3>. QED
      BY <3>1, <3>2
  <2>4. Normalize(Joined(m, t)) = Normalize(Joined(Joined(s, t), t))
    BY <1>1, <2>1, <2>2, <2>3, MergeOfThree DEF NothingLost
  <2>5. Joined(Joined(s, t), t) = Joined(s, t) /\ Joined(m, t) = Joined(t, m)
    <3>1. s \in State /\ t \in State /\ m \in State
      BY <2>2 DEF Accepted
    <3>2. Joined(t, t) = t
      <4>1. t = [floor |-> t.floor, entries |-> t.entries, removals |-> t.removals]
        BY <3>1 DEF State
      <4>. QED
        BY <4>1 DEF Joined, AdoptedFloor
    <3>. QED
      BY <3>1, <3>2, JoinedType, JoinedAssociates
  <2>6. m = Normalize(Joined(s, t))
    BY <2>1, <2>2, <2>3, MergeIs
  <2>7. RemovalsFit(t, m)
    <3>1. Normalize(Joined(t, m)) = m
      BY <2>4, <2>5, <2>6
    <3>. QED
      BY <2>2, <3>1 DEF RemovalsFit, Accepted, Verify, WithinCaps
  <2>8. Merge(t, m) = m
    BY <2>2, <2>4, <2>5, <2>6, <2>7, MergeIs
  <2>. QED
    BY <2>1, <2>8
<1>2. Init => InLine(AllBatches)
  BY DEF Init, NetworkInit, EmptyState, InLine, AllBatches
<1>3. TypeOK /\ Verified /\ InLine(AllBatches) /\ FromHome => \A p, q \in Peer : Exchanged(p, q)
  BY <1>1
<1>4. TypeOK /\ Verified /\ FromHome /\ [Next]_vars => FromHome'
  BY StepFromHome
<1>. QED
  BY <1>2, <1>3, <1>4, InitFromHome, InitVerified, StepVerified, TypeCorrect,
     BatchesInLine, PTL DEF Spec
=============================================================================
