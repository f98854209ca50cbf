--------------------------- MODULE ObserverProofs ---------------------------
(***************************************************************************)
(* What the observer signs is true when it signs it, whatever the node's   *)
(* chain does during a round and whatever fails (IInv).  While the chain   *)
(* keeps still during a round, what the bridge has recorded of it follows  *)
(* it (FInv); so no payment is passed over (CInv), no claim contradicts    *)
(* another (NInv), and, when nothing fails, a reader finds each payment as *)
(* the chain has it (RInv, SInv).                                          *)
(*                                                                         *)
(* A round reads blocks by height from a chain that may have changed since *)
(* it began, so it must never read past its end, nor claim a depth that    *)
(* block does not have.  Both follow from one fact: a chain only ever      *)
(* gives way to a longer one, so the tip a round began with (TipBelow) is  *)
(* never above the chain.                                                  *)
(***************************************************************************)
EXTENDS Observer, FiniteSetTheorems, TLAPS

(* Sets of numbers *)

\* Of finite sets, not none, one is minimal.
LEMMA Minimal ==
  ASSUME NEW U, IsFiniteSet(U), NEW Family \in SUBSET SUBSET U, Family # {}
  PROVE  \E T \in Family : \A S \in Family : S \subseteq T => S = T
<1> DEFINE R == StrictSubsetOrdering(U)
<1>1. Family \subseteq FiniteSubsetsOf(U)
  BY FS_Subset DEF FiniteSubsetsOf
<1>2. PICK T \in Family : \A S \in Family : ~ (<<S, T>> \in R)
  <2>1. IsWellFoundedOn(R, FiniteSubsetsOf(U))
    BY FS_StrictSubsetOrderingWellFounded
  <2> HIDE DEF R
  <2> QED BY <1>1, <2>1, WFMin
<1>3. ASSUME NEW S \in Family, S \subseteq T, S # T PROVE FALSE
  <2>1. <<S, T>> \in (SUBSET U) \X (SUBSET U)
    OBVIOUS
  <2>2. <<S, T>> \in R
    BY <1>3, <2>1 DEF StrictSubsetOrdering
  <2> QED BY <1>2, <2>2
<1> QED BY <1>2, <1>3

\* A finite set of numbers has a greatest one.
LEMMA HasMax ==
  ASSUME NEW S, S \subseteq Int, IsFiniteSet(S), S # {}
  PROVE  Max(S) \in S /\ \A y \in S : Max(S) >= y
<1> DEFINE Over(x) == {y \in S : y > x}
           Family == {Over(x) : x \in S}
<1>1. PICK T \in Family : \A V \in Family : V \subseteq T => V = T
  <2>1. Family \in SUBSET SUBSET S
    OBVIOUS
  <2>2. Family # {}
    OBVIOUS
  <2> HIDE DEF Family
  <2> QED BY ONLY IsFiniteSet(S), <2>1, <2>2, Minimal
<1>2. PICK x \in S : T = Over(x)
  OBVIOUS
<1>3. ASSUME NEW y \in S, y > x PROVE FALSE
  <2>1. x \in Int /\ y \in Int
    OBVIOUS
  <2>2. Over(y) \subseteq Over(x)
    <3> SUFFICES ASSUME NEW z \in Over(y) PROVE z \in Over(x)
      OBVIOUS
    <3>1. z \in Int
      OBVIOUS
    <3> QED BY <1>3, <2>1, <3>1
  <2>3. y \in Over(x) /\ y \notin Over(y)
    BY <1>3, <2>1
  <2> QED BY <1>1, <1>2, <2>2, <2>3
<1>4. \E z \in S : \A y \in S : z >= y
  BY <1>3
<1> QED BY <1>4 DEF Max

\* And a least one.
LEMMA HasMin ==
  ASSUME NEW S, S \subseteq Int, IsFiniteSet(S), S # {}
  PROVE  Min(S) \in S /\ \A y \in S : Min(S) <= y
<1> DEFINE Under(x) == {y \in S : y < x}
           Family == {Under(x) : x \in S}
<1>1. PICK T \in Family : \A V \in Family : V \subseteq T => V = T
  <2>1. Family \in SUBSET SUBSET S
    OBVIOUS
  <2>2. Family # {}
    OBVIOUS
  <2> HIDE DEF Family
  <2> QED BY ONLY IsFiniteSet(S), <2>1, <2>2, Minimal
<1>2. PICK x \in S : T = Under(x)
  OBVIOUS
<1>3. ASSUME NEW y \in S, y < x PROVE FALSE
  <2>1. x \in Int /\ y \in Int
    OBVIOUS
  <2>2. Under(y) \subseteq Under(x)
    <3> SUFFICES ASSUME NEW z \in Under(y) PROVE z \in Under(x)
      OBVIOUS
    <3>1. z \in Int
      OBVIOUS
    <3> QED BY <1>3, <2>1, <3>1
  <2>3. y \in Under(x) /\ y \notin Under(y)
    BY <1>3, <2>1
  <2> QED BY <1>1, <1>2, <2>2, <2>3
<1>4. \E z \in S : \A y \in S : z <= y
  BY <1>3
<1> QED BY <1>4 DEF Min

\* Of two numbers one is the greatest and one the least.
LEMMA OfTwo ==
  ASSUME NEW a \in Int, NEW b \in Int
  PROVE  /\ Max({a, b}) \in {a, b} /\ Max({a, b}) >= a /\ Max({a, b}) >= b
         /\ Min({a, b}) \in {a, b} /\ Min({a, b}) <= a /\ Min({a, b}) <= b
<1>1. \E x \in {a, b} : \A y \in {a, b} : x >= y
  OBVIOUS
<1>2. \E x \in {a, b} : \A y \in {a, b} : x <= y
  OBVIOUS
<1> QED BY <1>1, <1>2 DEF Max, Min

-----------------------------------------------------------------------------

\* The node's chain: blocks of outpoints paid, and how often it forked.
BlockShape == [hash : Nat, pays : SUBSET Outpoint]

ChainShape == chain \in Seq(BlockShape) /\ Len(chain) > 0 /\ forks \in Nat

\* What outlives a round: a checkpoint at a height, blocks recorded at heights,
\* and rows of payments in blocks.
StoreShape ==
  /\ checkpoint = NoBlock \/ checkpoint.height \in Nat
  /\ IsFiniteSet(DOMAIN seen) /\ DOMAIN seen \subseteq Nat
  /\ \A o \in Outpoint :
       /\ outputs[o] \in [state : {"unseen", "in_block", "in_doubt"},
                          block : {outputs[o].block}, deep : {outputs[o].deep}]
       /\ outputs[o].state = "in_block" => outputs[o].block.height \in Nat \ {0}

\* The tip the round began with is no higher than the chain is now.
TipBelow == round.tip.height \in 1..Len(chain)

\* The block whose claims are not out yet, if any, is at a height.
Deferral == round.deferred = NoBlock \/ round.deferred.height \in Nat

\* A round in each phase: what the later ones need of it.
Beginning ==
  /\ round.phase = "reorg"
  /\ TipBelow

Scanning ==
  /\ round \in [phase : {"scan"}, tip : {round.tip}, watched : {round.watched},
                scan : {round.scan}, orphans : {round.orphans}, next : Nat \ {0},
                ceiling : Int, claims : {round.claims}, deferred : {round.deferred},
                scanned : {round.scanned}]
  /\ TipBelow /\ Deferral
  /\ round.ceiling <= round.tip.height

Publishing ==
  /\ round \in [phase : {"publish"}, claims : {round.claims}, watched : {round.watched},
                mark : {round.mark}, deferred : {round.deferred},
                scanned : {round.scanned}, unreachable : {round.unreachable},
                todo : {round.todo}]
  /\ Deferral

RoundShape == round = NoRound \/ Beginning \/ Scanning \/ Publishing

\* The inductive invariant.
IInv == ChainShape /\ StoreShape /\ RoundShape

-----------------------------------------------------------------------------
(* Heights *)

\* Bounds are numbers.
LEMMA Constants ==
  /\ MaxReorgDepth \in Nat /\ RoundBlocks \in Nat /\ Recorded \in Nat
BY ObserverAssumption

\* Saturating subtraction stays one.
LEMMA MinusIsNat == ASSUME NEW a \in Nat, NEW b \in Nat PROVE Minus(a, b) \in Nat
BY DEF Minus

\* find_fork_point ends at a height.
LEMMA ForkIsNat ==
  ASSUME NEW from \in Nat
  PROVE  FindForkPoint(from) \in Nat
<1> DEFINE floor == Minus(from, MaxReorgDepth)
           stops == {h \in floor..from :
                       h \notin DOMAIN seen \/ OnChain([height |-> h, hash |-> seen[h]])}
<1>1. floor \in Nat
  BY Constants, MinusIsNat
<1>2. FindForkPoint(from) = Max(stops \cup {floor})
  BY DEF FindForkPoint
<1>3. IsFiniteSet(floor..from)
  BY <1>1, FS_Interval
<1>4. stops \subseteq floor..from
  OBVIOUS
<1> HIDE DEF floor, stops
<1>5. IsFiniteSet(stops \cup {floor})
  BY <1>3, <1>4, FS_Subset, FS_AddElement
<1>6. stops \cup {floor} \subseteq Int /\ stops \cup {floor} # {}
  BY <1>1, <1>4
<1>7. Max(stops \cup {floor}) \in stops \cup {floor}
  BY <1>5, <1>6, HasMax
<1>8. \A h \in floor..from : h \in Nat
  BY <1>1
<1> QED BY <1>1, <1>2, <1>4, <1>7, <1>8

\* So does rewind_checkpoint_to.
LEMMA RewoundIsNat ==
  ASSUME NEW fork \in Nat, NEW records, IsFiniteSet(DOMAIN records),
         DOMAIN records \subseteq Nat, checkpoint.height \in Nat
  PROVE  Rewound(fork, records).height \in Nat
<1> DEFINE below == {h \in DOMAIN records : h <= fork}
           rest  == DOMAIN records \ below
           stop  == IF below # {} THEN Max(below)
                    ELSE IF rest # {} THEN Min(rest) ELSE checkpoint.height
<1>1. below \subseteq DOMAIN records /\ rest \subseteq DOMAIN records
  OBVIOUS
<1>2. below # {} => Max(below) \in below
  <2> HIDE DEF below
  <2>1. IsFiniteSet(below) /\ below \subseteq Int
    BY <1>1, FS_Subset
  <2> QED BY <2>1, HasMax
<1>3. rest # {} => Min(rest) \in rest
  <2> HIDE DEF rest
  <2>1. IsFiniteSet(rest) /\ rest \subseteq Int
    BY <1>1, FS_Subset
  <2> QED BY <2>1, HasMin
<1>4. stop \in Nat
  BY <1>1, <1>2, <1>3
<1>5. Rewound(fork, records) = checkpoint
      \/ Rewound(fork, records).height = Min({stop, checkpoint.height})
  BY DEF Rewound
<1> HIDE DEF stop
<1>6. Min({stop, checkpoint.height}) \in Nat
  <2> DEFINE held_at == checkpoint.height
  <2>1. held_at \in Nat /\ held_at \in Int
    OBVIOUS
  <2>2. stop \in Int
    BY <1>4
  <2> HIDE DEF held_at
  <2>3. Min({stop, held_at}) \in {stop, held_at}
    BY <2>1, <2>2, OfTwo
  <2> QED BY <1>4, <2>1, <2>3 DEF held_at
<1> QED BY <1>5, <1>6

\* What a round goes on to scan from.
LEMMA ScanFromScans ==
  ASSUME ChainShape, Beginning, NEW resume \in Nat \ {0}, NEW orphans,
         round' = ScanFrom(resume, orphans), UNCHANGED chain
  PROVE  Scanning' /\ round'.claims = {} /\ round'.phase = "scan"
<1>1. round.tip.height \in Int /\ ScanWindow(orphans # {}) \in Nat
  BY Constants DEF Beginning, TipBelow, ChainShape, ScanWindow
<1>2. ScanCeiling(resume, orphans) \in Int /\ ScanCeiling(resume, orphans) <= round.tip.height
  <2> DEFINE a == round.tip.height
             b == resume + ScanWindow(orphans # {})
  <2>1. a \in Int /\ b \in Int
    BY <1>1
  <2>2. ScanCeiling(resume, orphans) = Min({a, b})
    BY DEF ScanCeiling
  <2> HIDE DEF a, b
  <2>3. Min({a, b}) \in {a, b} /\ Min({a, b}) <= a
    BY <2>1, OfTwo
  <2> QED BY <2>1, <2>2, <2>3 DEF a
<1> QED BY <1>2 DEF ScanFrom, Scanning, Deferral, Beginning, TipBelow

-----------------------------------------------------------------------------
(* Each step *)

\* Claims a step adds are true of the chain.
SignsWhatIsThere ==
  \A c \in ClaimsIn(round') \ ClaimsIn(round) :
    c.kind = "Confirmed" =>
      /\ OnChain(c.anchor)
      /\ c.outpoint \in chain[c.anchor.height].pays
      /\ AttestedDepth(c) <= Confirmations(c.anchor, Len(chain))

\* A confirmation at a block of the chain, as of a tip no higher than it.
LEMMA ConfirmationHolds ==
  ASSUME ChainShape, NEW h \in 1..Len(chain), NEW o \in chain[h].pays,
         round.tip.height \in 1..Len(chain)
  PROVE  LET c == Confirmation(o, AnchorAt(h))
         IN  /\ OnChain(c.anchor)
             /\ c.outpoint \in chain[c.anchor.height].pays
             /\ AttestedDepth(c) <= Confirmations(c.anchor, Len(chain))
<1> DEFINE c == Confirmation(o, AnchorAt(h))
<1>1. /\ c.anchor.height = h /\ c.anchor.hash = chain[h].hash
      /\ c.outpoint = o /\ c.as_of.height = round.tip.height
  BY DEF Confirmation, ConfirmedClaim, AnchorAt
<1>2. DOMAIN chain = 1..Len(chain) /\ Len(chain) \in Nat
  BY DEF ChainShape
<1>3. OnChain(c.anchor)
  BY <1>1, <1>2 DEF OnChain
<1> HIDE DEF c
<1>4. AttestedDepth(c) <= Confirmations(c.anchor, Len(chain))
  BY <1>1, <1>2 DEF AttestedDepth, Confirmations
<1> QED BY <1>1, <1>3, <1>4 DEF c

\* A first round reads one block, within the chain.
LEMMA FirstRoundShapes == ASSUME IInv, FirstRound PROVE IInv' /\ SignsWhatIsThere
<1>1. Beginning /\ round.tip.height \in Nat \ {0}
  BY DEF IInv, RoundShape, FirstRound, NoRound, Beginning, Scanning, Publishing, TipBelow,
         ChainShape
<1>2. Scanning' /\ round'.claims = {} /\ round'.phase = "scan"
  BY <1>1, ScanFromScans DEF FirstRound, IInv
<1>3. IInv'
  BY <1>2 DEF FirstRound, store, IInv, ChainShape, StoreShape, RoundShape
<1> QED BY <1>2, <1>3 DEF SignsWhatIsThere, ClaimsIn

\* A round that found no reorganization scans on from the checkpoint.
LEMMA NoReorgShapes == ASSUME IInv, NoReorg PROVE IInv' /\ SignsWhatIsThere
<1>1. Beginning /\ checkpoint.height + 1 \in Nat \ {0}
  <2>1. checkpoint.height \in Nat
    BY DEF IInv, StoreShape, NoReorg
  <2>2. Beginning
    BY DEF IInv, RoundShape, NoReorg, NoRound, Beginning, Scanning, Publishing
  <2> QED BY <2>1, <2>2
<1>2. Scanning' /\ round'.claims = {} /\ round'.phase = "scan"
  BY <1>1, ScanFromScans DEF NoReorg, IInv
<1>3. IInv'
  BY <1>2 DEF NoReorg, store, IInv, ChainShape, StoreShape, RoundShape
<1> QED BY <1>2, <1>3 DEF SignsWhatIsThere, ClaimsIn

\* Payments put in doubt keep their rows.
LEMMA UnconfirmShapes ==
  ASSUME StoreShape, NEW fork
  PROVE  \A o \in Outpoint :
           /\ UnconfirmAbove(fork)[o] \in [state : {"unseen", "in_block", "in_doubt"},
                                        block : {UnconfirmAbove(fork)[o].block},
                                        deep : {UnconfirmAbove(fork)[o].deep}]
           /\ UnconfirmAbove(fork)[o].state = "in_block"
                => UnconfirmAbove(fork)[o].block.height \in Nat \ {0}
<1> SUFFICES ASSUME NEW o \in Outpoint
             PROVE  /\ UnconfirmAbove(fork)[o] \in [state : {"unseen", "in_block", "in_doubt"},
                           block : {UnconfirmAbove(fork)[o].block},
                           deep : {UnconfirmAbove(fork)[o].deep}]
                    /\ UnconfirmAbove(fork)[o].state = "in_block"
                         => UnconfirmAbove(fork)[o].block.height \in Nat \ {0}
  OBVIOUS
<1>1. UnconfirmAbove(fork)[o] = IF Above(o, fork)
                                THEN [outputs[o] EXCEPT !.state = "in_doubt", !.deep = 0]
                                ELSE outputs[o]
  BY DEF UnconfirmAbove
<1>2. CASE Above(o, fork)
  BY <1>1, <1>2 DEF StoreShape
<1>3. CASE ~Above(o, fork)
  BY <1>1, <1>3 DEF StoreShape
<1> QED BY <1>2, <1>3

\* A round that found one goes back to the fork.
LEMMA HandleReorgShapes == ASSUME IInv, HandleReorg PROVE IInv' /\ SignsWhatIsThere
<1> DEFINE fork == FindForkPoint(checkpoint.height)
<1>1. Beginning
  BY DEF IInv, RoundShape, HandleReorg, NoRound, Beginning, Scanning, Publishing
<1>2. checkpoint.height \in Nat
  BY DEF IInv, StoreShape, HandleReorg
<1>3. fork \in Nat
  BY <1>2, ForkIsNat DEF IInv
<1>4. /\ round' = ScanFrom(fork + 1, {o \in Outpoint : Above(o, fork)})
      /\ outputs' = UnconfirmAbove(fork) /\ seen' = ForgetAbove(fork)
      /\ checkpoint' = Rewound(fork, ForgetAbove(fork)) /\ UNCHANGED <<chain, forks>>
  BY DEF HandleReorg
<1> HIDE DEF fork
<1>5. Scanning' /\ round'.claims = {} /\ round'.phase = "scan"
  <2>1. fork + 1 \in Nat \ {0}
    BY <1>3
  <2> QED BY <1>1, <1>4, <2>1, ScanFromScans DEF IInv
<1>6. IsFiniteSet(DOMAIN seen') /\ DOMAIN seen' \subseteq Nat
  <2>1. DOMAIN seen' \subseteq DOMAIN seen
    BY <1>4 DEF ForgetAbove
  <2> QED BY <2>1, FS_Subset DEF IInv, StoreShape
<1>7. checkpoint'.height \in Nat
  BY <1>2, <1>3, <1>4, <1>6, RewoundIsNat
<1>8. IInv'
  BY <1>4, <1>5, <1>6, <1>7, UnconfirmShapes DEF IInv, ChainShape, StoreShape, RoundShape
<1> QED BY <1>5, <1>8 DEF SignsWhatIsThere, ClaimsIn

\* A scanned block is on the chain: claims of it are true.
LEMMA ScanBlockShapes == ASSUME IInv, ScanBlock PROVE IInv' /\ SignsWhatIsThere
<1> DEFINE h      == round.next
           anchor == AnchorAt(h)
           claims == round.claims \cup {Confirmation(o, anchor) : o \in FoundAt(h)}
<1>1. Scanning
  BY DEF IInv, RoundShape, ScanBlock, NoRound, Beginning, Scanning, Publishing
<1>2. h \in 1..Len(chain) /\ h \in Nat \ {0} /\ anchor.height = h
  BY <1>1 DEF IInv, ChainShape, ScanBlock, Scanning, TipBelow, AnchorAt
<1>3. /\ round' = [round EXCEPT !.next = h + 1, !.claims = claims, !.scanned = TRUE,
                                !.deferred = IF claims = {} THEN NoBlock ELSE anchor]
      /\ checkpoint' = checkpoint \/ checkpoint' = anchor
      /\ DOMAIN seen' = DOMAIN seen \cup {h}
      /\ UNCHANGED <<chain, forks>>
      /\ outputs' = [o \in Outpoint |->
                       IF o \in FoundAt(h) THEN RecordOutput(o, anchor) ELSE outputs[o]]
  BY DEF ScanBlock, CheckpointAfter
<1> HIDE DEF h, anchor
<1>4. \A o \in FoundAt(h) : o \in chain[h].pays
  BY DEF FoundAt
<1>5. ASSUME NEW o \in Outpoint
      PROVE  /\ outputs'[o] \in [state : {"unseen", "in_block", "in_doubt"},
                  block : {outputs'[o].block}, deep : {outputs'[o].deep}]
             /\ outputs'[o].state = "in_block" => outputs'[o].block.height \in Nat \ {0}
  <2>1. CASE o \in FoundAt(h)
    <3>1. outputs'[o] = [outputs[o] EXCEPT !.state = "in_block", !.block = anchor]
      BY <1>3, <2>1 DEF RecordOutput
    <3> QED BY <1>2, <3>1 DEF IInv, StoreShape
  <2>2. CASE o \notin FoundAt(h)
    BY <1>3, <2>2 DEF IInv, StoreShape
  <2> QED BY <2>1, <2>2
<1>6. IsFiniteSet(DOMAIN seen') /\ DOMAIN seen' \subseteq Nat
  BY <1>2, <1>3, FS_AddElement DEF IInv, StoreShape
<1>7. checkpoint' = NoBlock \/ checkpoint'.height \in Nat
  BY <1>2, <1>3 DEF IInv, StoreShape
<1>8. Scanning'
  <2>1. h + 1 \in Nat \ {0}
    BY <1>2
  <2> HIDE DEF claims
  <2> QED BY <1>1, <1>2, <1>3, <2>1 DEF Scanning, TipBelow, Deferral
<1>9. IInv'
  BY <1>3, <1>5, <1>6, <1>7, <1>8 DEF IInv, ChainShape, StoreShape, RoundShape
<1>10. round'.claims = claims /\ round'.phase = "scan" /\ round.phase = "scan"
  <2> HIDE DEF claims
  <2> QED BY <1>1, <1>3 DEF Scanning
<1>11. SignsWhatIsThere
  <2> SUFFICES ASSUME NEW c \in claims, c \notin round.claims
               PROVE  /\ OnChain(c.anchor)
                      /\ c.outpoint \in chain[c.anchor.height].pays
                      /\ AttestedDepth(c) <= Confirmations(c.anchor, Len(chain))
    BY <1>10 DEF SignsWhatIsThere, ClaimsIn
  <2>1. PICK o \in FoundAt(h) : c = Confirmation(o, anchor)
    OBVIOUS
  <2> QED BY <1>1, <1>2, <1>4, <2>1, ConfirmationHolds DEF anchor, IInv, Scanning, TipBelow
<1> QED BY <1>9, <1>11

\* What is marked as asserted deeper is in the block it was in.
RowsKept ==
  \A o \in Outpoint : outputs'[o].state = outputs[o].state /\ outputs'[o].block = outputs[o].block

LEMMA MarkAllKeeps ==
  ASSUME IInv, NEW D, outputs' = MarkAll(D)
  PROVE  /\ RowsKept
         /\ \A o \in Outpoint :
              /\ outputs'[o] \in [state : {"unseen", "in_block", "in_doubt"},
                                  block : {outputs'[o].block}, deep : {outputs'[o].deep}]
              /\ outputs'[o].state = "in_block" => outputs'[o].block.height \in Nat \ {0}
<1> SUFFICES ASSUME NEW o \in Outpoint
             PROVE  /\ outputs'[o].state = outputs[o].state /\ outputs'[o].block = outputs[o].block
                    /\ outputs'[o] \in [state : {"unseen", "in_block", "in_doubt"},
                                        block : {outputs'[o].block}, deep : {outputs'[o].deep}]
                    /\ outputs'[o].state = "in_block" => outputs'[o].block.height \in Nat \ {0}
  BY DEF RowsKept
<1>1. CASE o \in D
  <2>1. PICK rung : rung = Max({outputs[o].deep, RungFor(o)})
    OBVIOUS
  <2>2. outputs'[o] = [outputs[o] EXCEPT !.deep = rung]
    BY <1>1, <2>1 DEF MarkAll, MarkDeepPublished
  <2> QED BY <2>2 DEF IInv, StoreShape
<1>2. CASE o \notin D
  BY <1>2 DEF MarkAll, IInv, StoreShape
<1> QED BY <1>1, <1>2

\* What a round that signs passes on, having read the blocks of D.
Signing(D) ==
  LET claims == round.claims \cup Retractions \cup {DeepClaim(o) : o \in D}
  IN  /\ round' = [phase |-> "publish", claims |-> claims, watched |-> round.watched,
                   mark |-> ScannedAnchor, deferred |-> round.deferred,
                   scanned |-> round.scanned, unreachable |-> FALSE,
                   todo |-> round.watched \cup {ScriptOf(c.outpoint) : c \in claims}]
      /\ outputs' = MarkAll(D)
      /\ faults' = faults \/ (faults < MaxFaults /\ faults' = faults + 1)

LEMMA SignSigns ==
  ASSUME Sign
  PROVE  /\ \E D \in SUBSET Deeper : Signing(D)
         /\ round.phase = "scan" /\ round.next > round.ceiling /\ seen' = PruneBlocks(BlocksKept)
         /\ UNCHANGED <<chain, forks, watched, checkpoint, held, network, since, excused>>
BY DEF Sign, Scanned, Readable, Happens, Signing

\* A payment claimed deeper was found again in the block its row names.
LEMMA SignShapes == ASSUME IInv, Sign PROVE IInv' /\ SignsWhatIsThere
<1>0. PICK D \in SUBSET Deeper : Signing(D)
  BY SignSigns
<1> DEFINE deep   == {DeepClaim(o) : o \in D}
           claims == round.claims \cup Retractions \cup deep
<1>1. Scanning
  BY SignSigns DEF IInv, RoundShape, NoRound, Beginning, Scanning, Publishing
<1>2. /\ round' = [phase |-> "publish", claims |-> claims, watched |-> round.watched,
                   mark |-> ScannedAnchor, deferred |-> round.deferred,
                   scanned |-> round.scanned, unreachable |-> FALSE,
                   todo |-> round.watched \cup {ScriptOf(c.outpoint) : c \in claims}]
      /\ outputs' = MarkAll(D)
      /\ seen' = PruneBlocks(BlocksKept)
      /\ UNCHANGED <<chain, forks, checkpoint>>
  BY <1>0, SignSigns DEF Signing
<1>3. ASSUME NEW o \in Outpoint
      PROVE  /\ outputs'[o] \in [state : {"unseen", "in_block", "in_doubt"},
                  block : {outputs'[o].block}, deep : {outputs'[o].deep}]
             /\ outputs'[o].state = "in_block" => outputs'[o].block.height \in Nat \ {0}
  BY <1>2, MarkAllKeeps
<1>4. IsFiniteSet(DOMAIN seen') /\ DOMAIN seen' \subseteq Nat
  <2>1. DOMAIN seen' \subseteq DOMAIN seen
    BY <1>2 DEF PruneBlocks
  <2> QED BY <2>1, FS_Subset DEF IInv, StoreShape
<1> HIDE DEF claims
<1>5. Publishing'
  BY <1>1, <1>2 DEF Publishing, Scanning, Deferral
<1>6. IInv'
  BY <1>2, <1>3, <1>4, <1>5 DEF IInv, ChainShape, StoreShape, RoundShape
<1>7. round'.claims = claims /\ round'.phase = "publish" /\ round.phase = "scan"
  BY <1>1, <1>2 DEF Scanning
<1>8. ASSUME NEW o \in Deeper
      PROVE  /\ outputs[o].block.height \in 1..Len(chain)
             /\ o \in chain[outputs[o].block.height].pays
  <2>1. /\ outputs[o].state = "in_block" /\ o \in Outpoint
        /\ outputs[o].block.height <= Minus(round.tip.height, 1)
        /\ o \in chain[outputs[o].block.height].pays
    BY DEF Deeper
  <2>2. outputs[o].block.height \in Nat \ {0}
    BY <2>1 DEF IInv, StoreShape
  <2>3. round.tip.height \in 1..Len(chain) /\ Len(chain) \in Nat
    BY <1>1 DEF Scanning, TipBelow, IInv, ChainShape
  <2> QED BY <2>1, <2>2, <2>3 DEF Minus
<1>9. SignsWhatIsThere
  <2> SUFFICES ASSUME NEW c \in claims, c \notin round.claims, c.kind = "Confirmed"
               PROVE  /\ OnChain(c.anchor)
                      /\ c.outpoint \in chain[c.anchor.height].pays
                      /\ AttestedDepth(c) <= Confirmations(c.anchor, Len(chain))
    BY <1>7 DEF SignsWhatIsThere, ClaimsIn
  <2>1. c \notin Retractions
    <3>1. \A r \in Retractions : r.kind = "Retracted"
      BY DEF Retractions, RetractedClaim
    <3> QED BY <3>1
  <2>2. PICK o \in D : c = DeepClaim(o)
    BY <2>1 DEF claims
  <2>3. c = Confirmation(o, AnchorAt(outputs[o].block.height))
    BY <2>2 DEF DeepClaim
  <2> QED BY <1>1, <1>8, <2>3, ConfirmationHolds DEF IInv, Scanning, TipBelow
<1> QED BY <1>6, <1>9

\* A step that leaves the claims of the round alone, or drops them.
LEMMA PublishingShapes ==
  ASSUME IInv,
         \/ TipUnreachable
         \/ \E s \in Script : Publish(s) \/ PublishRefused(s) \/ PublishUnreachable(s)
  PROVE  IInv' /\ SignsWhatIsThere
<1>1. Publishing
  BY DEF IInv, RoundShape, Publish, PublishRefused, PublishUnreachable, TipUnreachable,
         NoRound, Beginning, Scanning, Publishing
<1>2. UNCHANGED <<chain, forks, checkpoint, seen, outputs>>
  BY DEF Publish, PublishRefused, PublishUnreachable, TipUnreachable, store
<1>3. \/ \E s \in Script : round' = [round EXCEPT !.todo = @ \ {s}]
      \/ round' = [round EXCEPT !.todo = {}, !.unreachable = TRUE]
      \/ round' = [round EXCEPT !.unreachable = TRUE]
  BY DEF Publish, PublishRefused, PublishUnreachable, TipUnreachable
<1>4. Publishing' /\ round'.claims = round.claims /\ round'.phase = round.phase
  BY <1>1, <1>3 DEF Publishing, Deferral
<1>5. IInv'
  BY <1>2, <1>4 DEF IInv, ChainShape, StoreShape, RoundShape
<1> QED BY <1>4, <1>5 DEF SignsWhatIsThere, ClaimsIn

\* A round begins at the chain's tip.
LEMMA StartRoundShapes == ASSUME IInv, StartRound PROVE IInv' /\ SignsWhatIsThere
<1>1. round'.phase = "reorg" /\ round'.tip.height = Len(chain)
  BY DEF StartRound, AnchorAt
<1>2. Beginning'
  BY <1>1 DEF StartRound, Beginning, TipBelow, IInv, ChainShape
<1>3. IInv'
  BY <1>2 DEF StartRound, store, IInv, ChainShape, StoreShape, RoundShape
<1> QED BY <1>1, <1>3 DEF SignsWhatIsThere, ClaimsIn

\* A round that ends, or is cut short.
LEMMA EndShapes ==
  ASSUME IInv, FinishRound \/ Crash \/ CrashInReorg \/ CrashInSign
  PROVE  IInv' /\ SignsWhatIsThere
<1>1. round' = NoRound /\ ClaimsIn(round') = {} /\ UNCHANGED <<chain, forks>>
  BY DEF FinishRound, Crash, CrashInReorg, CrashInSign, NoRound, ClaimsIn
<1>2. StoreShape'
  <2>1. CASE FinishRound
    <3>1. Publishing
      BY <2>1 DEF IInv, RoundShape, FinishRound, NoRound, Beginning, Scanning, Publishing
    <3>2. checkpoint' = NoBlock \/ checkpoint'.height \in Nat
      BY <2>1, <3>1 DEF FinishRound, Publishing, Deferral, IInv, StoreShape
    <3> QED BY <2>1, <3>2 DEF FinishRound, IInv, StoreShape
  <2>2. CASE Crash
    BY <2>2 DEF Crash, store, IInv, StoreShape
  <2>3. CASE CrashInReorg
    <3>1. PICK fork : outputs' = UnconfirmAbove(fork) /\ seen' \in {seen, ForgetAbove(fork)}
      BY <2>3 DEF CrashInReorg
    <3>2. DOMAIN seen' \subseteq DOMAIN seen
      BY <3>1 DEF ForgetAbove
    <3>3. IsFiniteSet(DOMAIN seen') /\ DOMAIN seen' \subseteq Nat
      BY <3>2, FS_Subset DEF IInv, StoreShape
    <3>4. checkpoint' = checkpoint
      BY <2>3 DEF CrashInReorg
    <3> QED BY <3>1, <3>3, <3>4, UnconfirmShapes DEF IInv, StoreShape
  <2>4. CASE CrashInSign
    <3>1. PICK D : outputs' = MarkAll(D)
      BY <2>4 DEF CrashInSign
    <3>2. UNCHANGED <<checkpoint, seen>>
      BY <2>4 DEF CrashInSign
    <3> QED BY <3>1, <3>2, MarkAllKeeps DEF IInv, StoreShape
  <2> QED BY <2>1, <2>2, <2>3, <2>4
<1> QED BY <1>1, <1>2 DEF IInv, ChainShape, RoundShape, SignsWhatIsThere

\* A step of the chain leaves it longer.
LEMMA ChainShapes == ASSUME IInv, Chain PROVE IInv' /\ SignsWhatIsThere
<1>1. UNCHANGED <<checkpoint, seen, outputs, round>>
  BY DEF Chain, Mine, Reorganize
<1>2. ChainShape' /\ Len(chain') >= Len(chain)
  <2>1. ASSUME NEW P \in SUBSET Outpoint, Mine(P)
        PROVE  ChainShape' /\ Len(chain') >= Len(chain)
    <3>1. [hash |-> forks, pays |-> P] \in BlockShape
      BY DEF BlockShape, IInv, ChainShape
    <3> QED BY <2>1, <3>1 DEF Mine, IInv, ChainShape
  <2>2. ASSUME NEW fork \in 1..MaxHeight, NEW place \in Placement, Reorganize(fork, place)
        PROVE  ChainShape' /\ Len(chain') >= Len(chain)
    <3> DEFINE kept   == SubSeq(chain, 1, fork)
               length == Len(chain) + 1 - fork
               branch == [i \in 1..length |->
                           [hash |-> forks + 1,
                            pays |-> {o \in Outpoint \ PaidIn(kept) : place[o] = fork + i}]]
    <3>1. chain' = kept \o branch /\ forks' = forks + 1 /\ Len(chain) - fork \in 1..MaxReorgDepth
      BY <2>2 DEF Reorganize
    <3>2. Len(chain) \in Nat /\ fork \in Nat \ {0} /\ fork < Len(chain) /\ length \in Nat
      <4>1. Len(chain) \in Nat
        BY DEF IInv, ChainShape
      <4>2. Len(chain) - fork > 0 /\ fork \in Int /\ fork >= 1
        BY <3>1
      <4> QED BY <4>1, <4>2
    <3>3. kept \in Seq(BlockShape) /\ Len(kept) = fork
      BY <3>2 DEF IInv, ChainShape
    <3>4. \A i \in 1..length :
            [hash |-> forks + 1,
             pays |-> {o \in Outpoint \ PaidIn(kept) : place[o] = fork + i}] \in BlockShape
      BY DEF BlockShape, IInv, ChainShape
    <3> HIDE DEF kept
    <3>5. branch \in [1..length -> BlockShape]
      BY <3>4
    <3> HIDE DEF branch, length
    <3>6. branch \in Seq(BlockShape) /\ Len(branch) = length
      BY <3>2, <3>5
    <3>7. chain' \in Seq(BlockShape) /\ Len(chain') = fork + length
      <4>1. /\ kept \o branch \in Seq(BlockShape)
            /\ Len(kept \o branch) = Len(kept) + Len(branch)
        BY <3>3, <3>6
      <4> QED BY ONLY <3>1, <3>3, <3>6, <4>1
    <3>8. Len(chain') > Len(chain)
      BY <3>2, <3>7 DEF length
    <3> QED BY <3>1, <3>2, <3>7, <3>8 DEF IInv, ChainShape
  <2> QED BY <2>1, <2>2 DEF Chain
<1>3. RoundShape'
  <2>1. Len(chain) \in Nat /\ Len(chain') \in Nat
    BY <1>2 DEF IInv, ChainShape
  <2>2. round.tip.height \in 1..Len(chain) => round.tip.height \in 1..Len(chain')
    BY <1>2, <2>1
  <2> QED BY <1>1, <2>2 DEF IInv, RoundShape, Beginning, Scanning, Publishing, TipBelow, Deferral
<1> QED BY <1>1, <1>2, <1>3 DEF IInv, StoreShape, SignsWhatIsThere

\* Watches come and go without touching any of it.
LEMMA WatchShapes ==
  ASSUME IInv, WatchList \/ UNCHANGED vars
  PROVE  IInv' /\ SignsWhatIsThere
<1>1. UNCHANGED <<chain, forks, checkpoint, seen, outputs, round>>
  BY DEF WatchList, Watch, Unwatch, store, vars
<1>2. IInv'
  BY <1>1 DEF IInv, ChainShape, StoreShape, RoundShape, Beginning, Scanning, Publishing,
              TipBelow, Deferral
<1> QED BY <1>1, <1>2 DEF SignsWhatIsThere

\* Every step keeps the invariant and signs what is there.
LEMMA NextShapes == IInv /\ [Next]_vars => IInv' /\ SignsWhatIsThere
<1> SUFFICES ASSUME IInv, [Next]_vars PROVE IInv' /\ SignsWhatIsThere
  OBVIOUS
<1>1. CASE StartRound
  BY <1>1, StartRoundShapes
<1>2. CASE FirstRound
  BY <1>2, FirstRoundShapes
<1>3. CASE NoReorg
  BY <1>3, NoReorgShapes
<1>4. CASE HandleReorg
  BY <1>4, HandleReorgShapes
<1>5. CASE ScanBlock
  BY <1>5, ScanBlockShapes
<1>6. CASE Sign
  BY <1>6, SignShapes
<1>7. CASE \/ TipUnreachable
           \/ \E s \in Script : Publish(s) \/ PublishRefused(s) \/ PublishUnreachable(s)
  BY <1>7, PublishingShapes
<1>8. CASE FinishRound \/ Crash \/ CrashInReorg \/ CrashInSign
  BY <1>8, EndShapes
<1>9. CASE Chain
  BY <1>9, ChainShapes
<1>10. CASE WatchList \/ UNCHANGED vars
  BY <1>10, WatchShapes
<1> QED BY <1>1, <1>2, <1>3, <1>4, <1>5, <1>6, <1>7, <1>8, <1>9, <1>10
        DEF Next, Step, Failure

\* It holds at first.
LEMMA InitShapes == Init => IInv
<1> SUFFICES ASSUME Init PROVE IInv
  OBVIOUS
<1> DEFINE n == Max({1, Recorded})
<1>1. n \in Nat /\ n >= 1
  BY Constants, OfTwo
<1>2. chain = [h \in 1..n |-> [hash |-> 0, pays |-> {}]]
  BY DEF Init
<1> HIDE DEF n
<1>3. chain \in [1..n -> BlockShape]
  BY <1>2 DEF BlockShape
<1>4. chain \in Seq(BlockShape) /\ Len(chain) = n
  BY <1>1, <1>3
<1>5. ChainShape
  <2>1. forks = 0
    BY DEF Init
  <2> QED BY <1>1, <1>4, <2>1 DEF ChainShape
<1>6. checkpoint = NoBlock \/ checkpoint.height \in Nat
  BY Constants DEF Init, AnchorAt
<1>7. IsFiniteSet(DOMAIN seen) /\ DOMAIN seen \subseteq Nat
  <2>1. DOMAIN seen = 1..Recorded
    BY DEF Init
  <2>2. IsFiniteSet(1..Recorded)
    BY Constants, FS_Interval
  <2> QED BY <2>1, <2>2
<1>8. StoreShape
  BY <1>6, <1>7 DEF Init, StoreShape
<1> QED BY <1>5, <1>8 DEF Init, IInv, RoundShape

\* What a round signs as confirmed is in the block it names, on the node's chain
\* at that moment, and as deep as it says, whatever the chain did since the
\* round began and whatever failed (claims_from_block, deep_claims).
THEOREM SignedIsSeen == Spec => SignedAsSeen
<1>1. IInv /\ [Next]_vars => [SignsWhatIsThere]_vars
  BY NextShapes
<1>2. Spec => [][SignsWhatIsThere]_vars
  BY <1>1, InitShapes, NextShapes, PTL DEF Spec
<1> QED BY <1>2 DEF SignedAsSeen, SignsWhatIsThere
-----------------------------------------------------------------------------
(***************************************************************************)
(* What the bridge makes of the chain.  From here on the chain keeps still *)
(* during a round, the bridge has followed it to some block before, and no *)
(* crash comes between the three writes of handle_reorg: without any of    *)
(* these TLC finds a payment passed over.                                  *)
(***************************************************************************)

Steady == ~MidRound /\ Recorded # 0 /\ "crash_in_reorg" \notin Fault

\* The record and the node name the same block at h.
Agreed(h) == h \in DOMAIN seen /\ h \in 1..Len(chain) /\ chain[h].hash = seen[h]

\* All above the checkpoint, as far as top, is recorded as it is.
AgreedTo(top) == \A h \in (checkpoint.height + 1)..top : Agreed(h)

HashesKnown == \A h \in 1..Len(chain) : chain[h].hash <= forks

RecordsKnown == \A h \in DOMAIN seen : h \in 1..Len(chain) /\ seen[h] \in 0..forks

CheckpointKnown ==
  /\ checkpoint # NoBlock /\ checkpoint.height \in DOMAIN seen
  /\ checkpoint = [height |-> checkpoint.height, hash |-> seen[checkpoint.height]]

\* Wherever the chain may still fork, below the checkpoint, there is a record.
RecordsReach ==
  \A h \in 1..checkpoint.height : h + MaxReorgDepth >= Len(chain) => h \in DOMAIN seen

\* A record that agrees with the node speaks for those below it.
RecordsChain ==
  \A g, h \in DOMAIN seen : h <= g /\ g <= checkpoint.height /\ Agreed(g) => Agreed(h)

\* Where the record last agrees is within reach, with no gap above it.
InReach ==
  \E a \in 1..checkpoint.height :
    /\ a + MaxReorgDepth >= checkpoint.height /\ Agreed(a)
    /\ a..checkpoint.height \subseteq DOMAIN seen

RecordHolds ==
  HashesKnown /\ RecordsKnown /\ CheckpointKnown /\ RecordsReach /\ RecordsChain /\ InReach

\* A round scans up from a checkpoint on the chain, and holds back from the first
\* block it found something in.
ScanFollows ==
  round.phase = "scan" =>
    /\ Agreed(checkpoint.height)
    /\ round.next \in (checkpoint.height + 1)..(Len(chain) + 1)
    /\ AgreedTo(round.next - 1)
    /\ round.deferred = NoBlock => round.claims = {} /\ checkpoint.height = round.next - 1
    /\ round.deferred # NoBlock =>
         round.deferred = AnchorAt(round.next - 1) /\ round.next - 1 > checkpoint.height
    /\ round.watched \subseteq round.scan

PublishFollows ==
  round.phase = "publish" =>
    /\ Agreed(checkpoint.height)
    /\ round.deferred # NoBlock =>
         /\ round.deferred.height \in (checkpoint.height + 1)..Len(chain)
         /\ round.deferred = AnchorAt(round.deferred.height)
    /\ round.mark = IF round.deferred # NoBlock THEN round.deferred ELSE checkpoint
    /\ AgreedTo(round.mark.height)

\* The bridge's record of the chain is good for what it uses it for.
FInv == IInv /\ RecordHolds /\ ScanFollows /\ PublishFollows

\* The height above which its record is wrong is found, and becomes the checkpoint:
\* it is the checkpoint's own when its block was only not read.
LEMMA ForkFound ==
  ASSUME FInv
  PROVE  LET fork == FindForkPoint(checkpoint.height)
         IN  /\ fork \in 1..checkpoint.height /\ Agreed(fork)
             /\ fork = checkpoint.height <=> StillCurrent
             /\ fork + MaxReorgDepth >= checkpoint.height
             /\ \A h \in DOMAIN seen : h > fork /\ h <= checkpoint.height => ~Agreed(h)
             /\ Rewound(fork, ForgetAbove(fork)) = [height |-> fork, hash |-> seen[fork]]
<1> DEFINE c == checkpoint.height
           fork == FindForkPoint(c)
           floor == Minus(c, MaxReorgDepth)
           stops == {h \in floor..c :
                       h \notin DOMAIN seen \/ OnChain([height |-> h, hash |-> seen[h]])}
<1>1. /\ c \in DOMAIN seen /\ c \in Nat /\ MaxReorgDepth \in Nat /\ Len(chain) \in Nat
      /\ DOMAIN chain = 1..Len(chain) /\ DOMAIN seen \subseteq Nat /\ floor \in Nat
  BY Constants, MinusIsNat DEF FInv, IInv, StoreShape, ChainShape, RecordHolds, CheckpointKnown
<1>2. PICK a \in 1..c : a + MaxReorgDepth >= c /\ Agreed(a) /\ a..c \subseteq DOMAIN seen
  BY DEF FInv, RecordHolds, InReach
<1>3. \A h \in DOMAIN seen : OnChain([height |-> h, hash |-> seen[h]]) <=> Agreed(h)
  BY <1>1 DEF OnChain, Agreed
<1>4. Agreed(c) <=> StillCurrent
  BY <1>1, <1>3 DEF StillCurrent
<1>5. floor <= a
  BY <1>1, <1>2 DEF Minus
<1>6. fork = Max(stops \cup {floor})
  BY DEF FindForkPoint
<1>7. a \in stops
  BY <1>1, <1>2, <1>3, <1>5 DEF Agreed
<1>8. fork \in stops \cup {floor} /\ \A h \in stops \cup {floor} : fork >= h
  <2>1. IsFiniteSet(floor..c)
    BY <1>1, FS_Interval
  <2>2. stops \subseteq floor..c
    OBVIOUS
  <2>4. \A h \in floor..c : h \in Int
    OBVIOUS
  <2> HIDE DEF floor, stops, c
  <2>3. IsFiniteSet(stops \cup {floor}) /\ stops \cup {floor} \subseteq Int
    <3>1. floor \in Int
      BY <1>1
    <3>2. IsFiniteSet(stops)
      BY <2>1, <2>2, FS_Subset
    <3> QED BY <2>2, <2>4, <3>1, <3>2, FS_AddElement
  <2> HIDE DEF fork
  <2> QED BY <1>6, <2>3, HasMax
<1>9. fork \in stops /\ fork >= a /\ fork \in a..c
  <2>1. fork >= a /\ fork \in floor..c
    BY <1>1, <1>5, <1>7, <1>8
  <2>2. fork = floor => fork = a
    BY <1>1, <1>5, <2>1
  <2> HIDE DEF fork, stops
  <2> QED BY <1>1, <1>7, <1>8, <2>1, <2>2
<1>10. fork \in DOMAIN seen /\ Agreed(fork)
  <2>1. fork \in DOMAIN seen
    BY <1>2, <1>9
  <2> QED BY <1>3, <1>9, <2>1
<1>11. fork \in 1..c /\ fork + MaxReorgDepth >= c
  <2> HIDE DEF fork, c
  <2> QED BY <1>1, <1>2, <1>9, <1>10
<1>12. ASSUME NEW h \in DOMAIN seen, h > fork, h <= c PROVE ~Agreed(h)
  <2>1. Agreed(h) => h \in stops
    BY <1>1, <1>3, <1>9, <1>5, <1>12
  <2> HIDE DEF fork, stops
  <2> QED BY <1>1, <1>8, <1>9, <1>12, <2>1
<1>14. fork = c <=> StillCurrent
  <2>1. StillCurrent => c \in stops
    BY <1>1, <1>3, <1>4, <1>5, <1>2
  <2> HIDE DEF fork, stops, c
  <2> QED BY <1>1, <1>4, <1>8, <1>9, <1>10, <1>11, <2>1
<1>15. CASE fork = c
  <2>1. checkpoint = [height |-> fork, hash |-> seen[fork]]
    BY <1>15 DEF FInv, RecordHolds, CheckpointKnown
  <2>2. c <= fork
    BY <1>1, <1>15
  <2>3. Rewound(fork, ForgetAbove(fork)) = checkpoint
    <3> HIDE DEF fork
    <3> QED BY <2>2 DEF Rewound
  <2> QED BY <1>10, <1>11, <1>12, <1>14, <2>1, <2>3
<1>16. CASE fork # c
  <2> HIDE DEF fork
  <2> DEFINE records == ForgetAbove(fork)
             below == {h \in DOMAIN records : h <= fork}
  <2>0. fork < c
    <3> HIDE DEF c
    <3> QED BY <1>1, <1>11, <1>16
  <2>1. /\ DOMAIN records = {g \in DOMAIN seen : g <= fork}
        /\ fork \in DOMAIN records /\ records[fork] = seen[fork]
    BY <1>1, <1>10, <1>11 DEF ForgetAbove
  <2> HIDE DEF records
  <2>2. Max(below) = fork
    <3>1. IsFiniteSet(below) /\ below \subseteq Int /\ fork \in below /\ fork \in Int
      <4>1. below \subseteq DOMAIN seen /\ IsFiniteSet(DOMAIN seen)
        BY <2>1 DEF FInv, IInv, StoreShape
      <4> QED BY <1>1, <1>11, <2>1, <4>1, FS_Subset
    <3>2. \A h \in below : h <= fork
      OBVIOUS
    <3> HIDE DEF below
    <3>3. Max(below) \in below /\ Max(below) >= fork
      BY <3>1, HasMax
    <3>4. Max(below) \in Int /\ Max(below) <= fork
      BY <3>1, <3>2, <3>3
    <3> QED BY <3>1, <3>3, <3>4
  <2>3. Min({fork, c}) = fork
    <3>1. fork \in Int /\ c \in Int /\ fork < c
      BY <1>1, <1>11, <2>0
    <3> HIDE DEF c
    <3>2. Min({fork, c}) \in {fork, c} /\ Min({fork, c}) <= fork
      BY <3>1, OfTwo
    <3> QED BY <3>1, <3>2
  <2>4. below # {} /\ ~(c <= fork)
    BY <1>1, <1>11, <2>0, <2>1
  <2>5. Rewound(fork, ForgetAbove(fork)) = [height |-> fork, hash |-> seen[fork]]
    BY <2>1, <2>2, <2>3, <2>4 DEF Rewound, records
  <2> QED BY <1>10, <1>11, <1>12, <1>14, <2>5 DEF fork
<1> QED BY <1>15, <1>16

\* The chain as it was up to f, and above f blocks that nobody has recorded.
GivesWay(f) ==
  /\ f \in 1..Len(chain) /\ f + MaxReorgDepth >= Len(chain)
  /\ Len(chain) \in Nat /\ Len(chain') \in Nat /\ Len(chain') > Len(chain)
  /\ forks' >= forks
  /\ \A h \in 1..f : chain'[h] = chain[h]
  /\ \A h \in 1..Len(chain') : h > f => chain'[h].hash <= forks'
  /\ \A h \in 1..Len(chain) : h > f => chain'[h].hash > forks

\* That is all the chain ever does, and between rounds.
LEMMA ChainGivesWay ==
  ASSUME Steady, IInv, Chain
  PROVE  /\ \E f \in Nat : GivesWay(f)
         /\ round = NoRound
         /\ UNCHANGED <<watched, checkpoint, seen, outputs, held, round, published, marked,
                        since, refused, late, faults>>
<1>1. Len(chain) \in Nat \ {0} /\ forks \in Nat /\ MaxReorgDepth \in Nat
  BY Constants DEF IInv, ChainShape
<1>2. ASSUME NEW P \in SUBSET Outpoint, Mine(P) PROVE GivesWay(Len(chain))
  <2> DEFINE block == [hash |-> forks, pays |-> P]
  <2>1. chain' = Append(chain, block) /\ forks' = forks
    BY <1>2 DEF Mine
  <2>2. /\ Len(chain') = Len(chain) + 1 /\ chain'[Len(chain) + 1] = block
        /\ \A h \in 1..Len(chain) : chain'[h] = chain[h]
    BY <1>1, <2>1 DEF IInv, ChainShape
  <2>3. block.hash = forks
    OBVIOUS
  <2> HIDE DEF block
  <2> QED BY <1>1, <2>1, <2>2, <2>3 DEF GivesWay
<1>3. ASSUME NEW fork \in 1..MaxHeight, NEW place \in Placement, Reorganize(fork, place)
      PROVE  GivesWay(fork)
  <2> DEFINE kept   == SubSeq(chain, 1, fork)
             length == Len(chain) + 1 - fork
             branch == [i \in 1..length |->
                         [hash |-> forks + 1,
                          pays |-> {o \in Outpoint \ PaidIn(kept) : place[o] = fork + i}]]
  <2>1. chain' = kept \o branch /\ forks' = forks + 1 /\ Len(chain) - fork \in 1..MaxReorgDepth
    BY <1>3 DEF Reorganize
  <2>2. /\ fork \in 1..Len(chain) /\ fork + MaxReorgDepth >= Len(chain)
        /\ length \in Nat /\ fork \in Nat /\ fork + length = Len(chain) + 1
    <3>1. fork \in Int /\ fork >= 1
      OBVIOUS
    <3> QED BY <1>1, <2>1, <3>1
  <2>3. kept \in Seq(BlockShape) /\ Len(kept) = fork /\ \A h \in 1..fork : kept[h] = chain[h]
    BY <1>1, <2>2 DEF IInv, ChainShape
  <2>4. \A i \in 1..length : branch[i].hash = forks + 1
    OBVIOUS
  <2>5. branch \in [1..length -> BlockShape]
    BY <1>1 DEF BlockShape
  <2> HIDE DEF kept, branch, length
  <2>6. branch \in Seq(BlockShape) /\ Len(branch) = length
    BY <2>2, <2>5
  <2>7. /\ Len(chain') = fork + length
        /\ \A h \in 1..fork : chain'[h] = kept[h]
        /\ \A h \in (fork + 1)..(fork + length) : chain'[h] = branch[h - fork]
    <3>1. /\ Len(kept \o branch) = Len(kept) + Len(branch)
          /\ \A h \in 1..Len(kept) : (kept \o branch)[h] = kept[h]
          /\ \A h \in (Len(kept) + 1)..(Len(kept) + Len(branch)) :
               (kept \o branch)[h] = branch[h - Len(kept)]
      BY ONLY <2>3, <2>6
    <3> QED BY ONLY <2>1, <2>3, <2>6, <3>1
  <2>8. \A h \in (fork + 1)..(fork + length) : chain'[h].hash = forks + 1
    <3> SUFFICES ASSUME NEW h \in (fork + 1)..(fork + length) PROVE chain'[h].hash = forks + 1
      OBVIOUS
    <3>1. h - fork \in 1..length
      BY <2>2
    <3> QED BY <2>4, <2>7, <3>1
  <2>9. ASSUME NEW h \in 1..Len(chain'), h > fork PROVE chain'[h].hash = forks + 1
    <3>1. h \in (fork + 1)..(fork + length)
      BY <2>2, <2>7, <2>9
    <3> QED BY <2>8, <3>1
  <2>10. /\ Len(chain') = Len(chain) + 1 /\ forks' = forks + 1
         /\ \A h \in 1..fork : chain'[h] = chain[h]
    BY <2>1, <2>2, <2>3, <2>7
  <2>11. \A h \in 1..Len(chain) : h \in 1..Len(chain')
    BY <1>1, <2>10
  <2> QED BY <1>1, <2>2, <2>9, <2>10, <2>11 DEF GivesWay
<1>4. round = NoRound
  BY DEF Steady, Chain, Mine, Reorganize, ChainMayChange
<1>5. UNCHANGED <<watched, checkpoint, seen, outputs, held, round, published, marked,
                  since, refused, late, faults>>
  BY DEF Chain, Mine, Reorganize, excused
<1>6. \E f \in Nat : GivesWay(f)
  BY <1>1, <1>2, <1>3 DEF Chain
<1> QED BY <1>4, <1>5, <1>6

\* A record agrees afterwards if it did and is not above f.
LEMMA AgreedAfter ==
  ASSUME IInv, RecordsKnown, NEW f \in Nat, GivesWay(f), UNCHANGED seen, NEW h
  PROVE  Agreed(h)' <=> Agreed(h) /\ h <= f
<1>1. h \in DOMAIN seen => h \in 1..Len(chain) /\ h \in Nat /\ seen[h] \in Nat /\ seen[h] <= forks
  BY DEF RecordsKnown, IInv, ChainShape
<1>2. CASE h \in DOMAIN seen /\ h <= f
  <2>1. chain'[h] = chain[h] /\ h \in 1..Len(chain) /\ h \in 1..Len(chain')
    BY <1>1, <1>2 DEF GivesWay
  <2> QED BY <1>2, <2>1 DEF Agreed
<1>3. CASE h \in DOMAIN seen /\ ~(h <= f)
  <2>1. h > f
    BY <1>1, <1>3
  <2>2. chain'[h].hash > forks
    BY <1>1, <1>3, <2>1 DEF GivesWay
  <2>3. chain'[h].hash # seen[h]
    BY <1>1, <1>3, <2>2 DEF IInv, ChainShape
  <2> QED BY <1>3, <2>3 DEF Agreed
<1>4. CASE h \notin DOMAIN seen
  BY <1>4 DEF Agreed
<1> QED BY <1>2, <1>3, <1>4

\* The record serves after the chain has given way as before.
LEMMA ChainFollows ==
  ASSUME Steady, FInv, Chain, IInv'
  PROVE  FInv'
<1>1. PICK f \in Nat : GivesWay(f)
  BY ChainGivesWay DEF FInv
<1>2. round = NoRound /\ round' = NoRound /\ UNCHANGED <<checkpoint, seen>>
  BY ChainGivesWay DEF FInv
<1>3. \A h : Agreed(h)' <=> Agreed(h) /\ h <= f
  BY <1>1, <1>2, AgreedAfter DEF FInv, RecordHolds
<1>4. /\ checkpoint.height \in Nat /\ checkpoint.height <= Len(chain)
      /\ Len(chain) \in Nat /\ Len(chain') \in Nat /\ DOMAIN seen \subseteq Nat
      /\ MaxReorgDepth \in Nat /\ Len(chain') >= Len(chain)
  BY <1>1, Constants DEF FInv, IInv, StoreShape, RecordHolds, CheckpointKnown, RecordsKnown, GivesWay
<1>5. HashesKnown'
  <2> SUFFICES ASSUME NEW h \in 1..Len(chain') PROVE chain'[h].hash <= forks'
    BY DEF HashesKnown
  <2>1. CASE h <= f
    <3>1. h \in 1..f /\ h \in 1..Len(chain)
      BY <1>1, <2>1 DEF GivesWay
    <3>2. chain'[h] = chain[h] /\ chain[h].hash <= forks /\ forks <= forks' /\ chain[h] \in BlockShape
      BY <1>1, <3>1 DEF GivesWay, FInv, RecordHolds, HashesKnown, IInv, ChainShape
    <3> QED BY <3>2 DEF BlockShape, FInv, IInv, ChainShape
  <2>2. CASE h > f
    BY <1>1, <2>2 DEF GivesWay
  <2> QED BY <2>1, <2>2
<1>6. RecordsKnown'
  <2> SUFFICES ASSUME NEW h \in DOMAIN seen PROVE h \in 1..Len(chain') /\ seen[h] \in 0..forks'
    BY <1>2 DEF RecordsKnown
  <2>1. h \in 1..Len(chain) /\ seen[h] \in 0..forks
    BY DEF FInv, RecordHolds, RecordsKnown
  <2> QED BY <1>1, <1>4, <2>1 DEF GivesWay, FInv, IInv, ChainShape
<1>7. CheckpointKnown'
  BY <1>2 DEF FInv, RecordHolds, CheckpointKnown
<1>8. RecordsReach'
  BY <1>2, <1>4 DEF FInv, RecordHolds, RecordsReach
<1>9. RecordsChain'
  <2> SUFFICES ASSUME NEW g \in DOMAIN seen, NEW h \in DOMAIN seen,
                      h <= g, g <= checkpoint.height, Agreed(g), g <= f
               PROVE  Agreed(h) /\ h <= f
    BY <1>2, <1>3 DEF RecordsChain
  <2>1. Agreed(h)
    BY DEF FInv, RecordHolds, RecordsChain
  <2> QED BY <1>4, <2>1
<1>10. InReach'
  <2>1. PICK a \in 1..checkpoint.height :
               /\ a + MaxReorgDepth >= checkpoint.height /\ Agreed(a)
               /\ a..checkpoint.height \subseteq DOMAIN seen
    BY DEF FInv, RecordHolds, InReach
  <2>2. CASE a <= f
    BY <1>2, <1>3, <2>1, <2>2 DEF InReach
  <2>3. CASE a > f
    <3>1. f \in 1..checkpoint.height /\ f + MaxReorgDepth >= Len(chain) /\ f <= a
      BY <1>1, <1>4, <2>3 DEF GivesWay
    <3>2. ASSUME NEW h \in f..checkpoint.height PROVE h \in DOMAIN seen
      <4>1. h \in 1..checkpoint.height /\ h + MaxReorgDepth >= Len(chain)
        BY <1>4, <3>1
      <4> QED BY <4>1 DEF FInv, RecordHolds, RecordsReach
    <3>3. f \in DOMAIN seen /\ a \in DOMAIN seen /\ a <= checkpoint.height
      BY <1>4, <2>1, <3>1, <3>2
    <3>4. Agreed(f)
      BY <2>1, <3>1, <3>3 DEF FInv, RecordHolds, RecordsChain
    <3>5. f + MaxReorgDepth >= checkpoint.height
      BY <1>4, <3>1
    <3> QED BY <1>2, <1>3, <3>1, <3>2, <3>4, <3>5 DEF InReach
  <2> QED BY <1>4, <2>2, <2>3
<1> QED BY <1>2, <1>5, <1>6, <1>7, <1>8, <1>9, <1>10
        DEF FInv, RecordHolds, ScanFollows, PublishFollows, NoRound

\* Nothing about the record depends on anything but the record and the chain.
LEMMA RecordSame ==
  ASSUME RecordHolds, UNCHANGED <<chain, forks, seen, checkpoint>>
  PROVE  RecordHolds' /\ \A h : Agreed(h)' <=> Agreed(h)
BY DEF RecordHolds, HashesKnown, RecordsKnown, CheckpointKnown, RecordsReach, RecordsChain,
       InReach, Agreed

\* Heights are numbers, the checkpoint's a recorded one.
LEMMA RecordHeights ==
  ASSUME FInv
  PROVE  /\ checkpoint.height \in Nat \ {0} /\ checkpoint.height <= Len(chain)
         /\ Len(chain) \in Nat \ {0} /\ DOMAIN seen \subseteq Nat \ {0}
         /\ MaxReorgDepth \in Nat /\ BlocksKept \in Nat /\ MaxReorgDepth <= BlocksKept
         /\ checkpoint.height \in DOMAIN seen /\ checkpoint # NoBlock
         /\ \A h \in DOMAIN seen : h <= Len(chain)
<1>1. Len(chain) \in Nat \ {0} /\ DOMAIN seen \subseteq Nat
  BY DEF FInv, IInv, StoreShape, ChainShape
<1>2. \A h \in DOMAIN seen : h \in 1..Len(chain)
  BY DEF FInv, RecordHolds, RecordsKnown
<1>3. checkpoint.height \in DOMAIN seen /\ checkpoint # NoBlock
  BY DEF FInv, RecordHolds, CheckpointKnown
<1> QED BY <1>1, <1>2, <1>3, Constants, ObserverAssumption

\* An anchor of the chain is a place on it, and so is not none.
LEMMA AnchorIsBlock ==
  ASSUME IInv, NEW h \in 1..Len(chain)
  PROVE  AnchorAt(h) # NoBlock /\ AnchorAt(h).height = h /\ AnchorAt(h).hash = chain[h].hash
<1>1. chain[h] \in BlockShape /\ h \in Nat
  BY DEF IInv, ChainShape
<1>2. AnchorAt(h) \in Anchor
  BY <1>1 DEF AnchorAt, Anchor, BlockShape
<1> QED BY <1>2, ObserverAssumption DEF AnchorAt

\* What is current agrees, and all recorded below it.
LEMMA CurrentAgrees ==
  ASSUME FInv, StillCurrent
  PROVE  Agreed(checkpoint.height)
BY DEF StillCurrent, OnChain, Agreed, FInv, IInv, ChainShape

\* The checkpoint moves up over recorded blocks that agree.
LEMMA CheckpointMoves ==
  ASSUME FInv, IInv', Agreed(checkpoint.height), NEW top \in Nat, top >= checkpoint.height,
         top <= Len(chain),
         UNCHANGED <<chain, forks>>,
         checkpoint' = IF top = checkpoint.height THEN checkpoint ELSE AnchorAt(top),
         \A h \in DOMAIN seen' : h \in DOMAIN seen \/ h \in (checkpoint.height + 1)..Len(chain),
         \A h \in DOMAIN seen : h \in DOMAIN seen' \/ h + BlocksKept < checkpoint.height,
         \A h \in DOMAIN seen' : seen'[h] = chain[h].hash \/ (h \in DOMAIN seen /\ seen'[h] = seen[h]),
         \A h \in (checkpoint.height + 1)..top : Agreed(h)'
  PROVE  RecordHolds' /\ Agreed(checkpoint.height)' /\ checkpoint'.height = top
<1> DEFINE c == checkpoint.height
<1>1. /\ c \in Nat \ {0} /\ c <= Len(chain) /\ Len(chain) \in Nat /\ MaxReorgDepth \in Nat
      /\ BlocksKept \in Nat /\ MaxReorgDepth <= BlocksKept /\ c \in DOMAIN seen
      /\ DOMAIN seen \subseteq Nat \ {0} /\ checkpoint # NoBlock
  BY RecordHeights
<1>2. checkpoint'.height = top /\ checkpoint' # NoBlock
  <2>1. CASE top = c
    BY <1>1, <2>1
  <2>2. CASE top # c
    <3>1. top \in 1..Len(chain)
      BY <1>1
    <3> QED BY <2>2, <3>1, AnchorIsBlock DEF FInv
  <2> QED BY <2>1, <2>2
<1>3. ASSUME NEW h \in DOMAIN seen', h \in DOMAIN seen, Agreed(h) PROVE Agreed(h)'
  <2>1. h \in 1..Len(chain) /\ chain[h].hash = seen[h]
    BY <1>3 DEF Agreed
  <2>2. seen'[h] = chain[h].hash
    BY <1>3, <2>1
  <2> QED BY <2>1, <2>2 DEF Agreed
<1>4. c \in DOMAIN seen'
  BY <1>1
<1>5. ASSUME NEW h \in DOMAIN seen', h <= top PROVE Agreed(h)'
  <2>1. CASE h <= c
    <3>1. h \in DOMAIN seen
      BY <1>1, <2>1
    <3>2. Agreed(h)
      BY <1>1, <2>1, <3>1 DEF FInv, RecordHolds, RecordsChain
    <3> QED BY <1>3, <3>1, <3>2
  <2>2. CASE ~(h <= c)
    <3>1. h \in Nat
      BY <1>1
    <3>2. h \in (c + 1)..top
      BY <1>1, <1>5, <2>2, <3>1
    <3> QED BY <3>2
  <2> QED BY <2>1, <2>2
<1>6. Agreed(top)' /\ top \in DOMAIN seen' /\ seen'[top] = chain[top].hash
  <2>1. top = c \/ top \in (c + 1)..top
    BY <1>1
  <2>2. top \in DOMAIN seen'
    BY <1>4, <2>1 DEF Agreed
  <2> QED BY <1>5, <2>2 DEF Agreed
<1>7. HashesKnown'
  BY DEF FInv, RecordHolds, HashesKnown
<1>8. RecordsKnown'
  <2> SUFFICES ASSUME NEW h \in DOMAIN seen'
               PROVE  h \in 1..Len(chain) /\ seen'[h] \in 0..forks
    BY DEF RecordsKnown
  <2>1. h \in DOMAIN seen => h \in 1..Len(chain) /\ seen[h] \in 0..forks
    BY DEF FInv, RecordHolds, RecordsKnown
  <2>2. h \in 1..Len(chain)
    BY <1>1, <2>1
  <2>3. chain[h].hash \in 0..forks
    <3>1. chain[h] \in BlockShape /\ chain[h].hash <= forks /\ forks \in Nat
      BY <2>2 DEF FInv, IInv, ChainShape, RecordHolds, HashesKnown
    <3> QED BY <3>1 DEF BlockShape
  <2> QED BY <2>1, <2>2, <2>3
<1>9. CheckpointKnown'
  <2>1. checkpoint' = [height |-> top, hash |-> seen'[top]]
    <3>1. CASE top = c
      <4>1. checkpoint = [height |-> c, hash |-> seen[c]] /\ chain[c].hash = seen[c]
        BY DEF FInv, RecordHolds, CheckpointKnown, Agreed
      <4> QED BY <1>6, <3>1, <4>1
    <3>2. CASE top # c
      BY <1>6, <3>2 DEF AnchorAt
    <3> QED BY <3>1, <3>2
  <2> QED BY <1>2, <1>6, <2>1 DEF CheckpointKnown
<1>10. RecordsReach'
  <2> SUFFICES ASSUME NEW h \in 1..top, h + MaxReorgDepth >= Len(chain)
               PROVE  h \in DOMAIN seen'
    BY <1>2 DEF RecordsReach
  <2>1. CASE h <= c
    <3>1. h \in DOMAIN seen
      BY <1>1, <2>1 DEF FInv, RecordHolds, RecordsReach
    <3> QED BY <1>1, <3>1
  <2>2. CASE h > c
    <3>1. h \in (c + 1)..top
      BY <1>1, <2>2
    <3> QED BY <3>1 DEF Agreed
  <2> QED BY <1>1, <2>1, <2>2
<1>11. RecordsChain'
  BY <1>2, <1>5, <1>8 DEF RecordsChain, RecordsKnown
<1>12. InReach'
  <2>1. top \in 1..top /\ top + MaxReorgDepth >= top /\ top..top = {top}
    BY <1>1
  <2> QED BY <1>2, <1>6, <2>1 DEF InReach
<1> QED BY <1>2, <1>6, <1>7, <1>8, <1>9, <1>10, <1>11, <1>12 DEF RecordHolds

\* Scanning starts above a checkpoint on the chain.
LEMMA ScanFromFollows ==
  ASSUME IInv', NEW resume, NEW orphans, round' = ScanFrom(resume, orphans),
         Agreed(checkpoint.height)', checkpoint'.height \in Nat,
         checkpoint'.height <= Len(chain'), resume = checkpoint'.height + 1
  PROVE  ScanFollows' /\ PublishFollows'
<1>1. /\ round'.phase = "scan" /\ round'.next = resume /\ round'.deferred = NoBlock
      /\ round'.claims = {} /\ round'.watched \subseteq round'.scan
  BY DEF ScanFrom, ScanSet
<1>2. Len(chain') \in Nat
  BY DEF IInv, ChainShape
<1>3. AgreedTo(round.next - 1)'
  BY <1>1 DEF AgreedTo
<1>4. ScanFollows'
  <2>1. (round.next \in (checkpoint.height + 1)..(Len(chain) + 1))'
    BY <1>1, <1>2
  <2>2. (checkpoint.height = round.next - 1)'
    BY <1>1
  <2> QED BY <1>1, <1>3, <2>1, <2>2 DEF ScanFollows
<1> QED BY <1>1, <1>4 DEF PublishFollows

\* So it does where nothing was reorganized,
LEMMA NoReorgFollows == ASSUME FInv, IInv', NoReorg PROVE FInv'
<1>1. UNCHANGED <<chain, forks, seen, checkpoint>> /\ Agreed(checkpoint.height)
  BY CurrentAgrees DEF NoReorg, store
<1>2. RecordHolds' /\ Agreed(checkpoint.height)'
  BY <1>1, RecordSame DEF FInv
<1>3. ScanFollows' /\ PublishFollows'
  BY <1>1, <1>2, RecordHeights, ScanFromFollows DEF NoReorg
<1> QED BY <1>2, <1>3 DEF FInv

\* What a round that found a reorganization leaves of the record.
LEMMA ForkKept ==
  ASSUME FInv, HandleReorg
  PROVE  LET fork == FindForkPoint(checkpoint.height)
         IN  /\ fork \in 1..checkpoint.height /\ Agreed(fork)
             /\ fork = checkpoint.height <=> StillCurrent
             /\ fork + MaxReorgDepth >= checkpoint.height
             /\ \A h \in DOMAIN seen : h > fork /\ h <= checkpoint.height => ~Agreed(h)
             /\ checkpoint' = [height |-> fork, hash |-> seen[fork]]
             /\ seen' = ForgetAbove(fork)
             /\ \A h : Agreed(h)' <=> Agreed(h) /\ h <= fork
<1> DEFINE fork == FindForkPoint(checkpoint.height)
<1>1. /\ fork \in 1..checkpoint.height /\ Agreed(fork)
      /\ fork = checkpoint.height <=> StillCurrent
      /\ fork + MaxReorgDepth >= checkpoint.height
      /\ \A h \in DOMAIN seen : h > fork /\ h <= checkpoint.height => ~Agreed(h)
      /\ Rewound(fork, ForgetAbove(fork)) = [height |-> fork, hash |-> seen[fork]]
  BY ForkFound
<1>2. seen' = ForgetAbove(fork) /\ checkpoint' = Rewound(fork, ForgetAbove(fork)) /\ chain' = chain
  BY DEF HandleReorg
<1> HIDE DEF fork
<1>3. \A h : Agreed(h)' <=> Agreed(h) /\ h <= fork
  BY <1>2 DEF Agreed, ForgetAbove
<1> QED BY <1>1, <1>2, <1>3 DEF fork

\* and where something was.
LEMMA HandleReorgFollows == ASSUME FInv, IInv', HandleReorg PROVE FInv'
<1>0. PICK fork : fork = FindForkPoint(checkpoint.height)
  OBVIOUS
<1>1. /\ fork \in 1..checkpoint.height /\ Agreed(fork)
      /\ checkpoint' = [height |-> fork, hash |-> seen[fork]]
      /\ seen' = ForgetAbove(fork)
      /\ \A h : Agreed(h)' <=> Agreed(h) /\ h <= fork
  BY <1>0, ForkKept
<1>2. /\ round' = ScanFrom(fork + 1, {o \in Outpoint : Above(o, fork)})
      /\ UNCHANGED <<chain, forks>>
  BY <1>0 DEF HandleReorg
<1>3. /\ checkpoint.height \in Nat /\ checkpoint.height <= Len(chain) /\ Len(chain) \in Nat
      /\ DOMAIN seen \subseteq Nat /\ MaxReorgDepth \in Nat
      /\ fork \in Nat \ {0} /\ fork <= Len(chain) /\ fork \in DOMAIN seen
  BY <1>1, RecordHeights DEF Agreed
<1>4. DOMAIN seen' = {g \in DOMAIN seen : g <= fork} /\ \A h \in DOMAIN seen' : seen'[h] = seen[h]
  BY <1>1 DEF ForgetAbove
<1>5. checkpoint'.height = fork /\ checkpoint' # NoBlock
  <2>1. chain[fork].hash = seen[fork] /\ fork \in 1..Len(chain)
    BY <1>1 DEF Agreed
  <2>2. checkpoint' = AnchorAt(fork)
    BY <1>1, <2>1 DEF AnchorAt
  <2> QED BY <2>1, <2>2, AnchorIsBlock DEF FInv
<1>6. HashesKnown' /\ RecordsKnown'
  BY <1>2, <1>4 DEF FInv, RecordHolds, HashesKnown, RecordsKnown
<1>7. CheckpointKnown'
  BY <1>1, <1>3, <1>4, <1>5 DEF CheckpointKnown
<1>8. RecordsReach'
  <2> SUFFICES ASSUME NEW h \in 1..fork, h + MaxReorgDepth >= Len(chain)
               PROVE  h \in DOMAIN seen'
    BY <1>2, <1>5 DEF RecordsReach
  <2>1. h \in 1..checkpoint.height /\ h <= fork
    BY <1>1, <1>3
  <2> QED BY <1>4, <2>1 DEF FInv, RecordHolds, RecordsReach
<1>9. RecordsChain'
  <2> SUFFICES ASSUME NEW g \in DOMAIN seen', NEW h \in DOMAIN seen', h <= g, g <= fork, Agreed(g)
               PROVE  Agreed(h) /\ h <= fork
    BY <1>1, <1>5 DEF RecordsChain
  <2>1. g \in DOMAIN seen /\ h \in DOMAIN seen /\ g <= checkpoint.height /\ h <= fork
    BY <1>1, <1>3, <1>4
  <2> QED BY <2>1 DEF FInv, RecordHolds, RecordsChain
<1>10. Agreed(fork)' /\ fork \in DOMAIN seen'
  BY <1>1, <1>3, <1>4
<1>11. InReach'
  <2>1. fork \in 1..fork /\ fork + MaxReorgDepth >= fork /\ fork..fork = {fork}
    BY <1>3
  <2> QED BY <1>5, <1>10, <2>1 DEF InReach
<1>12. ScanFollows' /\ PublishFollows'
  BY <1>2, <1>3, <1>5, <1>10, ScanFromFollows
<1> QED BY <1>6, <1>7, <1>8, <1>9, <1>11, <1>12 DEF FInv, RecordHolds

\* A block scanned is recorded as it is, and the checkpoint follows until there is
\* something to publish.
LEMMA ScanBlockFollows == ASSUME FInv, IInv', ScanBlock PROVE FInv'
<1>0. PICK h : h = round.next
  OBVIOUS
<1>1. PICK claims : claims = round.claims \cup {Confirmation(o, AnchorAt(h)) : o \in FoundAt(h)}
  OBVIOUS
<1>2. /\ seen' = [g \in DOMAIN seen \cup {h} |-> IF g = h THEN AnchorAt(h).hash ELSE seen[g]]
      /\ checkpoint' = IF claims = {} THEN AnchorAt(h) ELSE checkpoint
      /\ round' = [round EXCEPT !.next = h + 1, !.claims = claims, !.scanned = TRUE,
                                !.deferred = IF claims = {} THEN NoBlock ELSE AnchorAt(h)]
      /\ UNCHANGED <<chain, forks>>
  BY <1>0, <1>1 DEF ScanBlock, CheckpointAfter
<1>3. Scanning /\ round.phase = "scan" /\ h \in Nat \ {0} /\ h <= round.ceiling
  BY <1>0 DEF FInv, IInv, RoundShape, ScanBlock, NoRound, Beginning, Scanning, Publishing
<1>4. /\ Agreed(checkpoint.height) /\ h > checkpoint.height /\ AgreedTo(h - 1)
      /\ round.watched \subseteq round.scan
  BY <1>0, <1>3, RecordHeights DEF FInv, ScanFollows
<1>5. /\ checkpoint.height \in Nat \ {0} /\ Len(chain) \in Nat /\ BlocksKept \in Nat
      /\ h \in 1..Len(chain) /\ h <= Len(chain)
  BY <1>3, RecordHeights DEF Scanning, TipBelow
<1>6. AnchorAt(h) # NoBlock /\ AnchorAt(h).height = h /\ AnchorAt(h).hash = chain[h].hash
  BY <1>5, AnchorIsBlock DEF FInv
<1>7. ASSUME NEW g \in (checkpoint.height + 1)..h PROVE Agreed(g)'
  <2>1. CASE g = h
    BY <1>2, <1>5, <1>6, <2>1 DEF Agreed
  <2>2. CASE g # h
    <3>1. g \in (checkpoint.height + 1)..(h - 1)
      BY <1>5, <2>2
    <3> QED BY <1>2, <1>4, <2>2, <3>1 DEF AgreedTo, Agreed
  <2> QED BY <2>1, <2>2
<1>8. PICK top : top = IF claims = {} THEN h ELSE checkpoint.height
  OBVIOUS
<1>9. RecordHolds' /\ Agreed(checkpoint.height)' /\ checkpoint'.height = top
  <2>1. /\ top \in Nat /\ top >= checkpoint.height /\ top <= Len(chain)
        /\ checkpoint' = IF top = checkpoint.height THEN checkpoint ELSE AnchorAt(top)
    BY <1>2, <1>4, <1>5, <1>8, RecordHeights
  <2>2. \A g \in DOMAIN seen' : g \in DOMAIN seen \/ g \in (checkpoint.height + 1)..Len(chain)
    BY <1>2, <1>4, <1>5
  <2>3. \A g \in DOMAIN seen' : seen'[g] = chain[g].hash \/ (g \in DOMAIN seen /\ seen'[g] = seen[g])
    BY <1>2, <1>6
  <2>4. \A g \in DOMAIN seen : g \in DOMAIN seen' \/ g + BlocksKept < checkpoint.height
    BY <1>2
  <2>5. \A g \in (checkpoint.height + 1)..top : Agreed(g)'
    BY <1>5, <1>7, <1>8
  <2> QED BY <1>2, <1>4, <2>1, <2>2, <2>3, <2>4, <2>5, CheckpointMoves
<1>10. /\ round'.phase = "scan" /\ round'.next = h + 1 /\ round'.claims = claims
       /\ round'.deferred = (IF claims = {} THEN NoBlock ELSE AnchorAt(h))
       /\ round'.watched = round.watched /\ round'.scan = round.scan
  <2> HIDE DEF AnchorAt
  <2> QED BY <1>2, <1>3 DEF Scanning
<1>11. ScanFollows'
  <2>1. AgreedTo(round.next - 1)'
    <3> SUFFICES ASSUME NEW g \in (checkpoint'.height + 1)..h PROVE Agreed(g)'
      BY <1>5, <1>10 DEF AgreedTo
    <3> QED BY <1>4, <1>5, <1>7, <1>8, <1>9
  <2>2. (round.next \in (checkpoint.height + 1)..(Len(chain) + 1))'
    BY <1>2, <1>4, <1>5, <1>8, <1>9, <1>10
  <2>3. (round.deferred = NoBlock => round.claims = {} /\ checkpoint.height = round.next - 1)'
    BY <1>5, <1>6, <1>8, <1>9, <1>10
  <2>4. (round.deferred # NoBlock =>
          round.deferred = AnchorAt(round.next - 1) /\ round.next - 1 > checkpoint.height)'
    BY <1>2, <1>4, <1>5, <1>8, <1>9, <1>10 DEF AnchorAt
  <2> QED BY <1>4, <1>9, <1>10, <2>1, <2>2, <2>3, <2>4 DEF ScanFollows
<1> QED BY <1>9, <1>10, <1>11 DEF FInv, PublishFollows

\* Signing forgets only records that are too far below.
LEMMA SignFollows ==
  ASSUME FInv, IInv', Sign
  PROVE  /\ FInv'
         /\ round'.mark = IF round.deferred # NoBlock THEN round.deferred ELSE checkpoint
         /\ round'.mark.height = round.next - 1
<1> DEFINE c == checkpoint.height
<1>1. Scanning /\ round.phase = "scan"
  BY SignSigns DEF FInv, IInv, RoundShape, NoRound, Beginning, Scanning, Publishing
<1>2. /\ round'.phase = "publish" /\ round'.deferred = round.deferred
      /\ round'.mark = IF round.deferred # NoBlock THEN round.deferred ELSE checkpoint
      /\ seen' = PruneBlocks(BlocksKept)
      /\ UNCHANGED <<chain, forks, checkpoint>>
  BY SignSigns, RecordHeights DEF Signing, ScannedAnchor
<1>3. /\ c \in Nat \ {0} /\ c <= Len(chain) /\ Len(chain) \in Nat /\ BlocksKept \in Nat
      /\ DOMAIN seen \subseteq Nat
  BY RecordHeights
<1>4. /\ Agreed(c) /\ round.next \in (c + 1)..(Len(chain) + 1) /\ AgreedTo(round.next - 1)
      /\ round.deferred = NoBlock => c = round.next - 1
      /\ round.deferred # NoBlock =>
           round.deferred = AnchorAt(round.next - 1) /\ round.next - 1 > c
  BY <1>1 DEF FInv, ScanFollows
<1>5. /\ DOMAIN seen' = {g \in DOMAIN seen : g + BlocksKept >= c}
      /\ \A h \in DOMAIN seen' : seen'[h] = seen[h]
  BY <1>2, RecordHeights DEF PruneBlocks
<1>6. ASSUME NEW h \in Nat, h >= c, Agreed(h) PROVE Agreed(h)'
  BY <1>2, <1>3, <1>5, <1>6 DEF Agreed
<1>7. RecordHolds' /\ Agreed(checkpoint.height)'
  <2>1. \A h \in DOMAIN seen : h \in DOMAIN seen' \/ h + BlocksKept < c
    BY <1>3, <1>5
  <2> HIDE DEF c
  <2>2. \A h \in (c + 1)..c : Agreed(h)'
    BY <1>3
  <2> USE DEF c
  <2> QED BY <1>2, <1>3, <1>4, <1>5, <2>1, <2>2, CheckpointMoves
<1>8. round'.mark.height = round.next - 1
  BY <1>2, <1>3, <1>4 DEF AnchorAt
<1>9. AgreedTo(round.mark.height)'
  <2> SUFFICES ASSUME NEW h \in (c + 1)..(round.next - 1) PROVE Agreed(h)'
    BY <1>2, <1>8 DEF AgreedTo
  <2> QED BY <1>3, <1>4, <1>6 DEF AgreedTo
<1>10. PublishFollows'
  <2>1. round.deferred # NoBlock =>
          /\ round.deferred.height \in (c + 1)..Len(chain)
          /\ round.deferred = AnchorAt(round.deferred.height)
    BY <1>3, <1>4 DEF AnchorAt
  <2>2. (round.deferred # NoBlock =>
           /\ round.deferred.height \in (checkpoint.height + 1)..Len(chain)
           /\ round.deferred = AnchorAt(round.deferred.height))'
    BY <1>2, <2>1 DEF AnchorAt
  <2> QED BY <1>2, <1>7, <1>9, <2>2 DEF PublishFollows
<1> QED BY <1>2, <1>7, <1>8, <1>10 DEF FInv, ScanFollows

\* Publishing changes none of it.
LEMMA PublishingFollows ==
  ASSUME FInv, IInv',
         \/ TipUnreachable
         \/ \E s \in Script : Publish(s) \/ PublishRefused(s) \/ PublishUnreachable(s)
  PROVE  /\ FInv'
         /\ UNCHANGED <<chain, forks, checkpoint, seen, outputs, since, watched>>
         /\ round.phase = "publish" /\ round'.phase = "publish"
         /\ round'.mark = round.mark /\ round'.claims = round.claims
         /\ round'.watched = round.watched /\ round'.deferred = round.deferred
<1>1. Publishing /\ round.phase = "publish"
  BY DEF FInv, IInv, RoundShape, Publish, PublishRefused, PublishUnreachable, TipUnreachable,
         NoRound, Beginning, Scanning, Publishing
<1>2. UNCHANGED <<chain, forks, checkpoint, seen, outputs, since, watched>>
  BY DEF Publish, PublishRefused, PublishUnreachable, TipUnreachable, store
<1>3. \/ \E s \in Script : round' = [round EXCEPT !.todo = @ \ {s}]
      \/ round' = [round EXCEPT !.todo = {}, !.unreachable = TRUE]
      \/ round' = [round EXCEPT !.unreachable = TRUE]
  BY DEF Publish, PublishRefused, PublishUnreachable, TipUnreachable
<1>4. /\ round'.phase = "publish" /\ round'.mark = round.mark /\ round'.claims = round.claims
      /\ round'.watched = round.watched /\ round'.deferred = round.deferred
  BY <1>1, <1>3 DEF Publishing
<1>5. RecordHolds' /\ \A h : Agreed(h)' <=> Agreed(h)
  BY <1>2, RecordSame DEF FInv
<1>6. PublishFollows'
  BY <1>1, <1>2, <1>4, <1>5 DEF FInv, PublishFollows, AgreedTo, AnchorAt
<1> QED BY <1>1, <1>2, <1>4, <1>5, <1>6 DEF FInv, ScanFollows

\* The round's end moves the checkpoint over blocks recorded as they are.
LEMMA FinishFollows ==
  ASSUME FInv, IInv', FinishRound
  PROVE  /\ FInv'
         /\ Agreed(checkpoint.height) /\ Agreed(checkpoint.height)'
         /\ checkpoint'.height = IF round.deferred = NoBlock \/ HoldsBack THEN checkpoint.height
                                 ELSE round.mark.height
<1>1. /\ round' = NoRound /\ UNCHANGED <<chain, forks, seen>> /\ round.phase = "publish"
      /\ checkpoint' = IF round.deferred = NoBlock \/ HoldsBack THEN checkpoint
                       ELSE round.deferred
  BY DEF FinishRound
<1>2. /\ Agreed(checkpoint.height)
      /\ round.deferred # NoBlock =>
           /\ round.deferred.height \in (checkpoint.height + 1)..Len(chain)
           /\ round.deferred = AnchorAt(round.deferred.height)
      /\ round.mark = IF round.deferred # NoBlock THEN round.deferred ELSE checkpoint
      /\ AgreedTo(round.mark.height)
  BY <1>1 DEF FInv, PublishFollows
<1>3. checkpoint.height \in Nat /\ Len(chain) \in Nat /\ checkpoint.height <= Len(chain)
  BY RecordHeights
<1>4. \A h : Agreed(h)' <=> Agreed(h)
  BY <1>1 DEF Agreed
<1>5. PICK top : top = IF round.deferred = NoBlock \/ HoldsBack THEN checkpoint.height
                       ELSE round.mark.height
  OBVIOUS
<1>6. /\ top \in Nat /\ top >= checkpoint.height /\ top <= Len(chain)
      /\ checkpoint' = IF top = checkpoint.height THEN checkpoint ELSE AnchorAt(top)
  BY <1>1, <1>2, <1>3, <1>5
<1>7. \A h \in (checkpoint.height + 1)..top : Agreed(h)'
  BY <1>2, <1>3, <1>4, <1>5 DEF AgreedTo
<1>8. RecordHolds' /\ Agreed(checkpoint.height)' /\ checkpoint'.height = top
  BY <1>1, <1>2, <1>6, <1>7, CheckpointMoves
<1> QED BY <1>1, <1>2, <1>5, <1>8 DEF FInv, ScanFollows, PublishFollows, NoRound

\* Nothing else touches the record, and a round that begins or is cut short has
\* scanned nothing.
LEMMA OthersFollow ==
  ASSUME FInv, IInv', StartRound \/ Crash \/ CrashInSign \/ WatchList \/ UNCHANGED vars
  PROVE  FInv' /\ UNCHANGED <<chain, forks, seen, checkpoint, published, marked, refused>>
<1>1. UNCHANGED <<chain, forks, seen, checkpoint, published, marked, refused>>
  BY DEF StartRound, Crash, CrashInSign, WatchList, Watch, Unwatch, vars, store, network, excused
<1>2. RecordHolds' /\ \A h : Agreed(h)' <=> Agreed(h)
  BY <1>1, RecordSame DEF FInv
<1>3. ScanFollows' /\ PublishFollows'
  <2>1. CASE StartRound \/ Crash \/ CrashInSign
    BY <2>1 DEF StartRound, Crash, CrashInSign, NoRound, ScanFollows, PublishFollows
  <2>2. CASE WatchList \/ UNCHANGED vars
    <3>1. round' = round
      BY <2>2 DEF WatchList, Watch, Unwatch, vars
    <3> QED BY <1>1, <1>2, <3>1 DEF FInv, ScanFollows, PublishFollows, AgreedTo, AnchorAt
  <2> QED BY <2>1, <2>2
<1> QED BY <1>1, <1>2, <1>3 DEF FInv

\* There is always a checkpoint, and no crash within handle_reorg.
LEMMA Unreached ==
  ASSUME Steady, FInv
  PROVE  ~FirstRound /\ ~CrashInReorg
BY RecordHeights DEF Steady, FirstRound, CrashInReorg, Happens

\* Every step keeps the record good.
LEMMA NextFollows == Steady /\ FInv /\ [Next]_vars => FInv'
<1> SUFFICES ASSUME Steady, FInv, [Next]_vars PROVE FInv'
  OBVIOUS
<1>1. IInv'
  BY NextShapes DEF FInv
<1>2. CASE Chain
  BY <1>1, <1>2, ChainFollows
<1>3. CASE NoReorg
  BY <1>1, <1>3, NoReorgFollows
<1>4. CASE HandleReorg
  BY <1>1, <1>4, HandleReorgFollows
<1>5. CASE ScanBlock
  BY <1>1, <1>5, ScanBlockFollows
<1>6. CASE Sign
  BY <1>1, <1>6, SignFollows
<1>7. CASE \/ TipUnreachable
           \/ \E s \in Script : Publish(s) \/ PublishRefused(s) \/ PublishUnreachable(s)
  BY <1>1, <1>7, PublishingFollows
<1>8. CASE FinishRound
  BY <1>1, <1>8, FinishFollows
<1>9. CASE StartRound \/ Crash \/ CrashInSign \/ WatchList \/ UNCHANGED vars
  BY <1>1, <1>9, OthersFollow
<1>10. ~FirstRound /\ ~CrashInReorg
  BY Unreached
<1> QED BY <1>2, <1>3, <1>4, <1>5, <1>6, <1>7, <1>8, <1>9, <1>10 DEF Next, Step, Failure

\* It is good at first.
LEMMA InitFollows == Steady /\ Init => FInv
<1> SUFFICES ASSUME Steady, Init PROVE FInv
  OBVIOUS
<1>1. IInv /\ Recorded \in Nat \ {0}
  BY InitShapes, Constants DEF Steady
<1>2. Max({1, Recorded}) = Recorded
  <2>1. Max({1, Recorded}) \in {1, Recorded} /\ Max({1, Recorded}) >= Recorded
    BY <1>1, OfTwo
  <2> QED BY <1>1, <2>1
<1>3. chain = [h \in 1..Recorded |-> [hash |-> 0, pays |-> {}]]
  BY <1>2 DEF Init
<1>4. /\ DOMAIN chain = 1..Recorded /\ Len(chain) = Recorded
      /\ \A h \in 1..Recorded : chain[h].hash = 0
  BY <1>1, <1>3
<1>5. /\ seen = [h \in 1..Recorded |-> 0] /\ forks = 0 /\ round = NoRound
      /\ checkpoint = AnchorAt(Recorded)
  BY <1>1 DEF Init
<1>6. /\ Recorded \in 1..Recorded /\ Recorded..Recorded = {Recorded} /\ MaxReorgDepth \in Nat
      /\ \A h \in 1..Recorded : h <= Recorded /\ h \in Nat
  BY <1>1, Constants
<1>7. /\ checkpoint # NoBlock /\ checkpoint.height = Recorded
      /\ checkpoint = [height |-> Recorded, hash |-> seen[Recorded]]
  BY <1>1, <1>4, <1>5, <1>6, AnchorIsBlock DEF AnchorAt
<1>8. \A h \in 1..Recorded : Agreed(h)
  BY <1>4, <1>5 DEF Agreed
<1>9. HashesKnown /\ RecordsKnown /\ CheckpointKnown
  BY <1>4, <1>5, <1>6, <1>7 DEF HashesKnown, RecordsKnown, CheckpointKnown
<1>10. RecordsReach /\ RecordsChain
  BY <1>5, <1>7, <1>8 DEF RecordsReach, RecordsChain
<1>11. InReach
  BY <1>5, <1>6, <1>7, <1>8 DEF InReach
<1> QED BY <1>1, <1>5, <1>9, <1>10, <1>11
        DEF FInv, RecordHolds, ScanFollows, PublishFollows, NoRound

-----------------------------------------------------------------------------
(* Nothing passed over *)

ConfirmsAt(c, o, h) == c.kind = "Confirmed" /\ c.outpoint = o /\ c.anchor = AnchorAt(h)

\* The bridge is to speak of a payment to s in block h.
ScannedFor(s, h) == since[s] # NoBlock /\ since[s] <= h

\* Every such payment, as far as top, is confirmed in its block or was refused.
CoveredTo(top) ==
  \A h \in 1..top : \A o \in chain[h].pays :
    ScannedFor(ScriptOf(o), h) /\ o \notin refused => ConfirmedAt(o, AnchorAt(h))

\* A record that agrees with the node vouches for all below it.
Covered ==
  \A g \in DOMAIN seen : g <= checkpoint.height /\ Agreed(g) => CoveredTo(g)

SinceKnown ==
  /\ since \in [Script -> Nat \cup {NoBlock}]
  /\ \A s \in Script :
       since[s] # NoBlock => s \in watched /\ (round # NoRound => s \in round.watched)

MarksKnown ==
  /\ marked \in [Script -> Anchor \cup {NoBlock}]
  /\ \A s \in Script :
       marked[s] # NoBlock => marked[s].height \in 1..Len(chain) /\ marked[s].hash <= forks

\* A watermark on the chain has no record below it that disagrees, and vouches for
\* all below it: above the checkpoint for payments it was not even scanned for yet,
\* since a watch that begins may come upon a watermark from before it ended.
MarkCovers(s) ==
  marked[s] # NoBlock /\ OnChain(marked[s]) =>
    /\ \A g \in DOMAIN seen : g <= checkpoint.height /\ g <= marked[s].height => Agreed(g)
    /\ \A h \in 1..marked[s].height : \A o \in chain[h].pays :
         /\ ScriptOf(o) = s /\ o \notin refused
         /\ h > checkpoint.height \/ ScannedFor(s, h)
         => ConfirmedAt(o, AnchorAt(h))

MarksCovered == \A s \in Script : MarkCovers(s)

\* The round has a claim for every payment it came upon, up to top.
ClaimsCover(top) ==
  \A h \in (checkpoint.height + 1)..top : \A o \in chain[h].pays :
    ScriptOf(o) \in round.watched => \E c \in round.claims : ConfirmsAt(c, o, h)

ScanCovers == round.phase = "scan" => ClaimsCover(round.next - 1)

\* And each is still to publish, or published, or refused, or the round gave up.
PublishCovers ==
  round.phase = "publish" =>
    /\ ClaimsCover(round.mark.height)
    /\ \A c \in round.claims :
         \/ ScriptOf(c.outpoint) \in round.todo \/ round.unreachable
         \/ c.outpoint \in refused \/ c \in published

\* The inductive invariant.
CInv ==
  /\ FInv /\ SinceKnown /\ MarksKnown
  /\ Covered /\ MarksCovered /\ ScanCovers /\ PublishCovers

\* A payment is to one of the scripts.
LEMMA PaysScripts ==
  ASSUME IInv, NEW h \in 1..Len(chain)
  PROVE  \A o \in chain[h].pays : o \in Outpoint /\ ScriptOf(o) \in Script
<1>1. chain[h] \in BlockShape
  BY DEF IInv, ChainShape
<1> QED BY <1>1, ObserverAssumption DEF BlockShape

\* More claims, more refusals and later watches take nothing away.
LEMMA CoverStays ==
  ASSUME IInv, NEW top \in Nat, top <= Len(chain), CoveredTo(top), chain' = chain,
         published \subseteq published', refused \subseteq refused',
         \A s \in Script : \A h \in 1..top : ScannedFor(s, h)' => ScannedFor(s, h)
  PROVE  CoveredTo(top)'
<1> SUFFICES ASSUME NEW h \in 1..top, NEW o \in chain[h].pays,
                    ScannedFor(ScriptOf(o), h)', o \notin refused'
             PROVE  ConfirmedAt(o, AnchorAt(h))'
  BY DEF CoveredTo
<1>1. h \in 1..Len(chain)
  BY DEF IInv, ChainShape
<1>2. ScriptOf(o) \in Script
  BY <1>1, PaysScripts
<1>3. ConfirmedAt(o, AnchorAt(h))
  BY <1>2 DEF CoveredTo
<1> QED BY <1>3 DEF ConfirmedAt, AnchorAt

\* Nor do they take anything from a watermark, while the checkpoint moves up.
LEMMA MarkStays ==
  ASSUME CInv, FInv', chain' = chain, NEW s \in Script, marked'[s] = marked[s],
         published \subseteq published', refused \subseteq refused',
         checkpoint'.height >= checkpoint.height,
         Agreed(checkpoint.height)' \/ UNCHANGED <<seen, checkpoint>>,
         \A h \in Nat : ScannedFor(s, h)' => ScannedFor(s, h) \/ h > checkpoint.height
  PROVE  MarkCovers(s)'
<1> SUFFICES ASSUME marked[s] # NoBlock, OnChain(marked[s])
             PROVE  /\ \A g \in DOMAIN seen' :
                         g <= checkpoint'.height /\ g <= marked[s].height => Agreed(g)'
                    /\ \A h \in 1..marked[s].height : \A o \in chain[h].pays :
                         /\ ScriptOf(o) = s /\ o \notin refused'
                         /\ h > checkpoint'.height \/ ScannedFor(s, h)'
                         => ConfirmedAt(o, AnchorAt(h))'
  BY DEF MarkCovers, OnChain
<1>1. MarkCovers(s) /\ marked[s].height \in 1..Len(chain) /\ Len(chain) \in Nat
  BY DEF CInv, MarksCovered, MarksKnown, FInv, IInv, ChainShape
<1>2. checkpoint.height \in Nat /\ checkpoint'.height \in Nat
  <2>1. checkpoint'.height \in DOMAIN seen' /\ DOMAIN seen' \subseteq Nat
    BY DEF FInv, IInv, StoreShape, RecordHolds, CheckpointKnown
  <2> QED BY <2>1, RecordHeights DEF CInv
<1>3. ASSUME NEW g \in DOMAIN seen', g <= checkpoint'.height, g <= marked[s].height
      PROVE  Agreed(g)'
  <2>1. CASE Agreed(checkpoint.height)'
    BY <1>2, <1>3, <2>1 DEF FInv, RecordHolds, RecordsChain, CheckpointKnown
  <2>2. CASE UNCHANGED <<seen, checkpoint>>
    BY <1>1, <1>3, <2>2 DEF MarkCovers, Agreed
  <2> QED BY <2>1, <2>2
<1>4. ASSUME NEW h \in 1..marked[s].height, NEW o \in chain[h].pays,
             ScriptOf(o) = s, o \notin refused', h > checkpoint'.height \/ ScannedFor(s, h)'
      PROVE  ConfirmedAt(o, AnchorAt(h))'
  <2>1. h > checkpoint.height \/ ScannedFor(s, h)
    BY <1>1, <1>2, <1>4
  <2>2. ConfirmedAt(o, AnchorAt(h))
    BY <1>1, <1>4, <2>1 DEF MarkCovers
  <2> QED BY <2>2 DEF ConfirmedAt, AnchorAt
<1> QED BY <1>3, <1>4

\* The chain gives way, and with a block all it says of what is below.
LEMMA ChainCovers ==
  ASSUME Steady, CInv, FInv', Chain
  PROVE  CInv'
<1>1. PICK f \in Nat : GivesWay(f)
  BY ChainGivesWay DEF CInv, FInv
<1>2. /\ round = NoRound
      /\ UNCHANGED <<watched, checkpoint, seen, round, published, marked, since, refused>>
  BY ChainGivesWay DEF CInv, FInv
<1>3. \A h : Agreed(h)' <=> Agreed(h) /\ h <= f
  BY <1>1, <1>2, AgreedAfter DEF CInv, FInv, RecordHolds
<1>4. /\ Len(chain) \in Nat /\ Len(chain') \in Nat /\ Len(chain') >= Len(chain) /\ f <= Len(chain)
      /\ \A h \in 1..f : chain'[h] = chain[h] /\ AnchorAt(h)' = AnchorAt(h)
      /\ forks \in Nat /\ forks' \in Nat /\ forks <= forks'
      /\ DOMAIN chain = 1..Len(chain) /\ DOMAIN chain' = 1..Len(chain')
  BY <1>1 DEF GivesWay, AnchorAt, CInv, FInv, IInv, ChainShape
<1>5. SinceKnown' /\ ScanCovers' /\ PublishCovers'
  BY <1>2 DEF CInv, SinceKnown, ScanCovers, PublishCovers, NoRound
<1>6. MarksKnown'
  <2> SUFFICES ASSUME NEW s \in Script, marked[s] # NoBlock
               PROVE  marked[s].height \in 1..Len(chain') /\ marked[s].hash <= forks'
    BY <1>2 DEF CInv, MarksKnown
  <2>1. marked[s].height \in 1..Len(chain) /\ marked[s].hash <= forks /\ marked[s] \in Anchor
    BY DEF CInv, MarksKnown
  <2> QED BY <1>4, <2>1 DEF Anchor
<1>7. Covered'
  <2> SUFFICES ASSUME NEW g \in DOMAIN seen, g <= checkpoint.height, Agreed(g), g <= f
               PROVE  CoveredTo(g)'
    BY <1>2, <1>3 DEF Covered
  <2>1. CoveredTo(g) /\ g \in Nat
    BY RecordHeights DEF CInv, Covered
  <2>2. \A h \in 1..g : h \in 1..f
    BY <2>1
  <2> QED BY <1>2, <1>4, <2>1, <2>2 DEF CoveredTo, ScannedFor, ConfirmedAt
<1>8. MarksCovered'
  <2> SUFFICES ASSUME NEW s \in Script, marked[s] # NoBlock, OnChain(marked[s])'
               PROVE  MarkCovers(s)'
    BY <1>2 DEF MarksCovered, MarkCovers, OnChain
  <2> DEFINE m == marked[s].height
  <2>1. m \in 1..Len(chain) /\ marked[s].hash <= forks /\ marked[s] \in Anchor
    BY DEF CInv, MarksKnown
  <2>2. chain'[m].hash = marked[s].hash
    BY <1>2 DEF OnChain
  <2>3. m <= f
    <3>1. m > f => chain'[m].hash > forks
      BY <1>1, <2>1 DEF GivesWay
    <3>2. marked[s].hash \in Nat /\ m \in Nat
      BY <2>1 DEF Anchor
    <3> QED BY <1>4, <2>1, <2>2, <3>1, <3>2
  <2>4. OnChain(marked[s]) /\ MarkCovers(s)
    BY <1>4, <2>1, <2>2, <2>3 DEF OnChain, CInv, MarksCovered
  <2>5. \A h \in 1..m : h \in 1..f
    BY <1>4, <2>1, <2>3
  <2>6. \A g \in DOMAIN seen : g <= m => g <= f
    BY <2>1, <2>3, RecordHeights, <1>4 DEF CInv
  <2> QED BY <1>2, <1>3, <1>4, <2>4, <2>5, <2>6 DEF MarkCovers, ScannedFor, ConfirmedAt
<1> QED BY <1>5, <1>6, <1>7, <1>8 DEF CInv

\* A step of a round that publishes nothing and moves the checkpoint, if at all, up
\* to a block it covers, or scans further, keeps what was covered.
LEMMA CoverMoves ==
  ASSUME CInv, FInv', UNCHANGED <<chain, forks, marked>>,
         published \subseteq published', refused \subseteq refused',
         checkpoint'.height >= checkpoint.height,
         Agreed(checkpoint.height)', CoveredTo(checkpoint.height)',
         \A s \in Script : \A h \in Nat :
           ScannedFor(s, h)' => ScannedFor(s, h) \/ h > checkpoint.height
  PROVE  MarksKnown' /\ Covered' /\ MarksCovered'
<1>1. /\ checkpoint'.height \in Nat /\ DOMAIN seen' \subseteq Nat
      /\ checkpoint'.height <= Len(chain) /\ IInv'
  <2>1. checkpoint'.height \in DOMAIN seen' /\ DOMAIN seen' \subseteq Nat
        /\ checkpoint'.height \in 1..Len(chain')
    BY DEF FInv, IInv, StoreShape, RecordHolds, CheckpointKnown, RecordsKnown
  <2>2. Len(chain) \in Nat
    BY DEF CInv, FInv, IInv, ChainShape
  <2> QED BY <2>1, <2>2 DEF FInv
<1>2. Covered'
  <2> SUFFICES ASSUME NEW g \in DOMAIN seen', g <= checkpoint'.height PROVE CoveredTo(g)'
    BY DEF Covered
  <2>1. \A h \in 1..g : h \in 1..checkpoint'.height
    BY <1>1
  <2> QED BY <2>1 DEF CoveredTo
<1>3. MarksKnown'
  BY DEF CInv, MarksKnown
<1>4. MarksCovered'
  <2> SUFFICES ASSUME NEW s \in Script PROVE MarkCovers(s)'
    BY DEF MarksCovered
  <2> QED BY MarkStays
<1> QED BY <1>2, <1>3, <1>4

\* A record that agrees at the checkpoint covers it.
LEMMA CheckpointCovers ==
  ASSUME CInv, Agreed(checkpoint.height)
  PROVE  CoveredTo(checkpoint.height)
BY RecordHeights DEF CInv, Covered

\* A round begins to scan.
LEMMA NoReorgCovers == ASSUME CInv, FInv', NoReorg PROVE CInv'
<1>1. /\ UNCHANGED <<chain, forks, seen, checkpoint, watched, published, marked, since, refused>>
      /\ round # NoRound /\ Agreed(checkpoint.height)
      /\ round' = ScanFrom(checkpoint.height + 1, {})
  BY CurrentAgrees DEF CInv, NoReorg, store, network, excused, NoRound
<1>2. /\ round'.phase = "scan" /\ round'.next = checkpoint.height + 1
      /\ round'.watched = round.watched /\ round' # NoRound
  BY <1>1 DEF ScanFrom, NoRound
<1>3. MarksKnown' /\ Covered' /\ MarksCovered'
  <2>1. Agreed(checkpoint.height)' /\ CoveredTo(checkpoint.height)'
    BY <1>1, CheckpointCovers DEF Agreed, CoveredTo, ScannedFor, ConfirmedAt, AnchorAt
  <2>2. checkpoint.height \in Nat
    BY RecordHeights DEF CInv
  <2> QED BY <1>1, <2>1, <2>2, CoverMoves DEF ScannedFor
<1>4. SinceKnown'
  BY <1>1, <1>2 DEF CInv, SinceKnown
<1>5. ScanCovers' /\ PublishCovers'
  <2>1. checkpoint.height \in Nat
    BY RecordHeights DEF CInv
  <2> QED BY <1>1, <1>2, <2>1 DEF ScanCovers, PublishCovers, ClaimsCover
<1> QED BY <1>3, <1>4, <1>5 DEF CInv

\* Also where something was reorganized: no watermark on the chain is above the fork,
\* unless that is the checkpoint, which then stays.
LEMMA HandleReorgCovers == ASSUME CInv, FInv', HandleReorg PROVE CInv'
<1>0. PICK fork : fork = FindForkPoint(checkpoint.height)
  OBVIOUS
<1>1. /\ fork \in 1..checkpoint.height /\ Agreed(fork)
      /\ \A h \in DOMAIN seen : h > fork /\ h <= checkpoint.height => ~Agreed(h)
      /\ checkpoint'.height = fork
      /\ seen' = ForgetAbove(fork)
      /\ \A h : Agreed(h)' <=> Agreed(h) /\ h <= fork
  BY <1>0, ForkKept DEF CInv
<1>2. /\ UNCHANGED <<chain, forks, watched, published, marked, since, refused>>
      /\ round # NoRound /\ \E orphans : round' = ScanFrom(fork + 1, orphans)
  <2>1. round' = ScanFrom(fork + 1, {o \in Outpoint : Above(o, fork)}) /\ round.phase = "reorg"
    BY <1>0 DEF HandleReorg
  <2>2. UNCHANGED <<chain, forks, watched, published, marked, since, refused>>
    BY DEF HandleReorg, network
  <2> QED BY <2>1, <2>2 DEF NoRound
<1>3. /\ checkpoint.height \in Nat /\ checkpoint.height <= Len(chain) /\ Len(chain) \in Nat
      /\ DOMAIN seen \subseteq Nat /\ fork \in Nat \ {0} /\ fork \in DOMAIN seen
      /\ checkpoint.height \in DOMAIN seen
  BY <1>1, RecordHeights DEF CInv, Agreed
<1>4. DOMAIN seen' = {g \in DOMAIN seen : g <= fork}
  BY <1>1 DEF ForgetAbove
<1>5. /\ round'.phase = "scan" /\ round'.next = fork + 1
      /\ round'.watched = round.watched /\ round' # NoRound
  BY <1>2 DEF ScanFrom, NoRound
<1>6. SinceKnown' /\ MarksKnown'
  BY <1>2, <1>5 DEF CInv, SinceKnown, MarksKnown
<1>7. Covered'
  <2> SUFFICES ASSUME NEW g \in DOMAIN seen', Agreed(g)' PROVE CoveredTo(g)'
    BY DEF Covered
  <2>1. g \in DOMAIN seen /\ g <= checkpoint.height /\ Agreed(g)
    BY <1>1, <1>3, <1>4
  <2>2. CoveredTo(g)
    BY <2>1 DEF CInv, Covered
  <2> QED BY <1>2, <2>2 DEF CoveredTo, ScannedFor, ConfirmedAt, AnchorAt
<1>8. MarksCovered'
  <2> SUFFICES ASSUME NEW s \in Script, marked[s] # NoBlock, OnChain(marked[s])
               PROVE  MarkCovers(s)'
    BY <1>2 DEF MarksCovered, MarkCovers, OnChain
  <2> DEFINE m == marked[s].height
  <2>1. /\ m \in 1..Len(chain) /\ MarkCovers(s)
    BY DEF CInv, MarksKnown, MarksCovered
  <2>2. fork = checkpoint.height \/ m <= fork
    <3> SUFFICES ASSUME fork # checkpoint.height, m > fork PROVE FALSE
      BY <1>3, <2>1
    <3>1. PICK g \in DOMAIN seen : g = fork + 1 /\ g <= checkpoint.height
      <4>1. PICK a \in 1..checkpoint.height :
                   Agreed(a) /\ a..checkpoint.height \subseteq DOMAIN seen
        BY DEF CInv, FInv, RecordHolds, InReach
      <4>2. a <= fork
        <5>1. a \in DOMAIN seen
          BY <4>1 DEF Agreed
        <5> QED BY <1>1, <1>3, <4>1, <5>1
      <4>3. fork + 1 \in a..checkpoint.height
        BY <1>1, <1>3, <4>1, <4>2
      <4> QED BY <1>3, <4>1, <4>3
    <3>2. Agreed(g)
      BY <1>3, <2>1, <3>1 DEF MarkCovers
    <3> QED BY <1>1, <1>3, <3>1, <3>2
  <2>3. ASSUME NEW g \in DOMAIN seen', g <= m PROVE Agreed(g)'
    <3>1. g \in DOMAIN seen /\ g <= fork /\ g <= checkpoint.height
      BY <1>1, <1>3, <1>4
    <3> QED BY <1>1, <2>1, <2>3, <3>1 DEF MarkCovers
  <2>4. ASSUME NEW h \in 1..m, NEW o \in chain[h].pays, ScriptOf(o) = s, o \notin refused,
               h > fork \/ ScannedFor(s, h)
        PROVE  ConfirmedAt(o, AnchorAt(h))
    <3>1. h > checkpoint.height \/ ScannedFor(s, h)
      BY <1>3, <2>1, <2>2, <2>4
    <3> QED BY <2>1, <2>4, <3>1 DEF MarkCovers
  <2> QED BY <1>1, <1>2, <2>3, <2>4 DEF MarkCovers, ScannedFor, ConfirmedAt, AnchorAt
<1>9. ScanCovers' /\ PublishCovers'
  BY <1>1, <1>3, <1>5 DEF ScanCovers, PublishCovers, ClaimsCover
<1> QED BY <1>6, <1>7, <1>8, <1>9 DEF CInv

\* A block scanned: what it pays to a watched script is claimed, or there is none and
\* the checkpoint moves over it.
LEMMA ScanBlockCovers == ASSUME CInv, FInv', ScanBlock PROVE CInv'
<1>0. PICK h : h = round.next
  OBVIOUS
<1>1. PICK claims : claims = round.claims \cup {Confirmation(o, AnchorAt(h)) : o \in FoundAt(h)}
  OBVIOUS
<1>2. /\ checkpoint' = IF claims = {} THEN AnchorAt(h) ELSE checkpoint
      /\ round' = [round EXCEPT !.next = h + 1, !.claims = claims, !.scanned = TRUE,
                                !.deferred = IF claims = {} THEN NoBlock ELSE AnchorAt(h)]
      /\ since' = [s \in Script |->
                     IF since[s] = NoBlock /\ s \in watched \cap round.watched
                     THEN h ELSE since[s]]
      /\ UNCHANGED <<chain, forks, watched, published, marked, refused>>
  BY <1>0, <1>1 DEF ScanBlock, CheckpointAfter, network, excused
<1>3. Scanning /\ round.phase = "scan" /\ h \in Nat \ {0} /\ h <= round.ceiling
  BY <1>0 DEF CInv, FInv, IInv, RoundShape, ScanBlock, NoRound, Beginning, Scanning, Publishing
<1>4. /\ Agreed(checkpoint.height) /\ h > checkpoint.height
      /\ round.watched \subseteq round.scan /\ ClaimsCover(h - 1)
  <2>1. h \in (checkpoint.height + 1)..(Len(chain) + 1)
    BY <1>0, <1>3 DEF CInv, FInv, ScanFollows
  <2> QED BY <1>0, <1>3, <2>1, RecordHeights DEF CInv, FInv, ScanFollows, ScanCovers
<1>5. /\ checkpoint.height \in Nat \ {0} /\ Len(chain) \in Nat
      /\ h \in 1..Len(chain) /\ h <= Len(chain)
  BY <1>3, RecordHeights DEF CInv, Scanning, TipBelow
<1>6. /\ round'.phase = "scan" /\ round'.next = h + 1 /\ round'.claims = claims
      /\ round'.watched = round.watched /\ round' # NoRound /\ round # NoRound
  <2>1. /\ round'.phase = "scan" /\ round'.next = h + 1 /\ round'.claims = claims
        /\ round'.watched = round.watched
    BY <1>2, <1>3 DEF Scanning
  <2> QED BY <1>3, <2>1 DEF NoRound
<1>7. ASSUME NEW o \in chain[h].pays, ScriptOf(o) \in round.watched
      PROVE  \E c \in claims : ConfirmsAt(c, o, h)
  <2>1. o \in FoundAt(h)
    BY <1>4, <1>7 DEF FoundAt, Reported
  <2>2. Confirmation(o, AnchorAt(h)) \in claims
    BY <1>1, <2>1
  <2> QED BY <2>2 DEF ConfirmsAt, Confirmation, ConfirmedClaim
<1>8. ASSUME NEW k \in (checkpoint.height + 1)..h, NEW o \in chain[k].pays,
             ScriptOf(o) \in round.watched
      PROVE  \E c \in claims : ConfirmsAt(c, o, k)
  <2>1. CASE k = h
    BY <1>7, <1>8, <2>1
  <2>2. CASE k # h
    <3>1. k \in (checkpoint.height + 1)..(h - 1)
      BY <1>5, <2>2
    <3> QED BY <1>1, <1>4, <1>8, <3>1 DEF ClaimsCover
  <2> QED BY <2>1, <2>2
<1>9. /\ checkpoint'.height = IF claims = {} THEN h ELSE checkpoint.height
      /\ checkpoint'.height \in Nat /\ checkpoint'.height >= checkpoint.height
  BY <1>2, <1>4, <1>5 DEF AnchorAt
<1>10. SinceKnown'
  BY <1>2, <1>5, <1>6 DEF CInv, SinceKnown
<1>11. ASSUME NEW s \in Script, NEW k \in Nat, ScannedFor(s, k)'
       PROVE  ScannedFor(s, k) \/ (k >= h /\ s \in round.watched)
  <2>1. CASE since[s] = NoBlock /\ s \in watched \cap round.watched
    BY <1>2, <1>11, <2>1 DEF ScannedFor
  <2>2. CASE ~(since[s] = NoBlock /\ s \in watched \cap round.watched)
    BY <1>2, <1>11, <2>2 DEF ScannedFor
  <2> QED BY <2>1, <2>2
<1>12. CoveredTo(checkpoint.height)'
  <2> SUFFICES ASSUME NEW k \in 1..checkpoint'.height, NEW o \in chain[k].pays,
                      ScannedFor(ScriptOf(o), k)', o \notin refused
               PROVE  ConfirmedAt(o, AnchorAt(k))
    BY <1>2 DEF CoveredTo, ConfirmedAt, AnchorAt
  <2>1. k \in Nat /\ k \in 1..Len(chain) /\ k <= h
    BY <1>4, <1>5, <1>9
  <2>2. ScriptOf(o) \in Script
    BY <2>1, PaysScripts DEF CInv, FInv
  <2>3. CASE k <= checkpoint.height
    <3>1. ScannedFor(ScriptOf(o), k)
      BY <1>4, <1>5, <1>11, <2>1, <2>2, <2>3
    <3>2. CoveredTo(checkpoint.height) /\ k \in 1..checkpoint.height
      BY <1>4, <1>5, <2>1, <2>3, CheckpointCovers
    <3> QED BY <3>1, <3>2 DEF CoveredTo
  <2>4. CASE k > checkpoint.height
    <3>1. claims = {} /\ k \in (checkpoint.height + 1)..h
      BY <1>5, <1>9, <2>1, <2>4
    <3>2. ScriptOf(o) \in round.watched
      <4>1. ScannedFor(ScriptOf(o), k) => ScriptOf(o) \in round.watched
        BY <1>6, <2>2 DEF ScannedFor, CInv, SinceKnown
      <4> QED BY <1>11, <2>1, <2>2, <4>1
    <3> QED BY <1>8, <3>1, <3>2
  <2> QED BY <1>5, <2>1, <2>3, <2>4
<1>13. MarksKnown' /\ Covered' /\ MarksCovered'
  <2>1. Agreed(checkpoint.height)'
    BY <1>6 DEF FInv, ScanFollows
  <2>2. \A s \in Script : \A k \in Nat :
          ScannedFor(s, k)' => ScannedFor(s, k) \/ k > checkpoint.height
    BY <1>4, <1>5, <1>11
  <2> QED BY <1>2, <1>9, <1>12, <2>1, <2>2, CoverMoves
<1>14. ScanCovers'
  <2> SUFFICES ASSUME NEW k \in (checkpoint'.height + 1)..h, NEW o \in chain[k].pays,
                      ScriptOf(o) \in round.watched
               PROVE  \E c \in claims : ConfirmsAt(c, o, k)
    BY <1>2, <1>5, <1>6 DEF ScanCovers, ClaimsCover, ConfirmsAt, AnchorAt
  <2>1. k \in (checkpoint.height + 1)..h
    BY <1>5, <1>9
  <2> QED BY <1>8, <2>1
<1> QED BY <1>6, <1>10, <1>13, <1>14 DEF CInv, PublishCovers

\* Signing passes all claims on.
LEMMA SignCovers == ASSUME CInv, FInv', Sign PROVE CInv'
<1>1. Scanning /\ round.phase = "scan"
  BY SignSigns DEF CInv, FInv, IInv, RoundShape, NoRound, Beginning, Scanning, Publishing
<1>2. /\ UNCHANGED <<chain, forks, checkpoint, watched, published, marked, since, refused>>
      /\ round'.phase = "publish" /\ round.claims \subseteq round'.claims
      /\ round'.watched = round.watched /\ round # NoRound /\ round' # NoRound
      /\ \A c \in round'.claims : ScriptOf(c.outpoint) \in round'.todo
  BY SignSigns DEF Signing, network, excused, NoRound
<1>3. round'.mark.height = round.next - 1 /\ Agreed(checkpoint.height)
  BY <1>1, SignFollows DEF CInv, FInv, ScanFollows
<1>4. checkpoint.height \in Nat
  BY RecordHeights DEF CInv
<1>5. MarksKnown' /\ Covered' /\ MarksCovered'
  <2>1. Agreed(checkpoint.height)'
    BY <1>2 DEF FInv, PublishFollows
  <2>2. CoveredTo(checkpoint.height)'
    BY <1>2, <1>3, CheckpointCovers DEF CoveredTo, ScannedFor, ConfirmedAt, AnchorAt
  <2> QED BY <1>2, <1>4, <2>1, <2>2, CoverMoves DEF ScannedFor
<1>6. ScanCovers' /\ PublishCovers'
  BY <1>1, <1>2, <1>3 DEF CInv, ScanCovers, PublishCovers, ClaimsCover, ConfirmsAt, AnchorAt
<1> QED BY <1>2, <1>5, <1>6 DEF CInv, SinceKnown

\* Publishing: a watermark goes out with all the claims below it.
LEMMA PublishingCovers ==
  ASSUME CInv, FInv',
         \/ TipUnreachable
         \/ \E s \in Script : Publish(s) \/ PublishRefused(s) \/ PublishUnreachable(s)
  PROVE  CInv'
<1>1. /\ UNCHANGED <<chain, forks, checkpoint, seen, since, watched>>
      /\ round.phase = "publish" /\ round'.phase = "publish"
      /\ round'.mark = round.mark /\ round'.claims = round.claims
      /\ round'.watched = round.watched /\ round # NoRound /\ round' # NoRound
  BY PublishingFollows DEF CInv, FInv, NoRound
<1>2. /\ Publishing /\ Agreed(checkpoint.height)
      /\ round.mark = IF round.deferred # NoBlock THEN round.deferred ELSE checkpoint
      /\ round.deferred # NoBlock =>
           /\ round.deferred.height \in (checkpoint.height + 1)..Len(chain)
           /\ round.deferred = AnchorAt(round.deferred.height)
      /\ ClaimsCover(round.mark.height)
  BY <1>1 DEF CInv, FInv, IInv, RoundShape, Publishing, Beginning, Scanning, NoRound,
              PublishFollows, PublishCovers
<1>3. /\ checkpoint.height \in Nat \ {0} /\ checkpoint.height <= Len(chain) /\ Len(chain) \in Nat
      /\ IInv /\ ScanCovers /\ PublishCovers
  BY RecordHeights DEF CInv, FInv
<1>4. CoveredTo(checkpoint.height)
  BY <1>2, CheckpointCovers
<1>5. published \subseteq published' /\ refused \subseteq refused'
  BY DEF Publish, PublishRefused, PublishUnreachable, TipUnreachable, Arrives, network, excused,
         MarkPublished
<1>6. \A s \in Script :
        \/ marked'[s] = marked[s]
        \/ /\ s \in round.watched /\ marked'[s] = round.mark
           /\ \A c \in round.claims : ScriptOf(c.outpoint) = s => c \in published'
  <2>1. ASSUME NEW s \in Script, Arrives(s), NEW t \in Script
        PROVE  \/ marked'[t] = marked[t]
               \/ /\ t \in round.watched /\ marked'[t] = round.mark
                  /\ \A c \in round.claims : ScriptOf(c.outpoint) = t => c \in published'
    <3>1. /\ marked' = [marked EXCEPT ![s] = MarkKept(marked[s], MarkOf(s))]
          /\ published' = published \cup Unpublished(s)
      BY <2>1 DEF Arrives, MarkPublished
    <3>2. CASE t # s
      BY <3>1, <3>2 DEF CInv, MarksKnown
    <3>3. CASE t = s
      <4>1. marked'[s] = MarkKept(marked[s], MarkOf(s))
        BY <3>1, <3>3 DEF CInv, MarksKnown
      <4>2. marked'[s] = marked[s] \/ (marked'[s] = round.mark /\ s \in round.watched)
        BY <4>1 DEF MarkKept, MarkOf
      <4>3. \A c \in round.claims : ScriptOf(c.outpoint) = s => c \in published'
        BY <3>1 DEF Unpublished, ClaimsOf
      <4> QED BY <3>3, <4>2, <4>3
    <3> QED BY <3>2, <3>3
  <2>2. marked' = marked \/ \E s \in Script : Arrives(s)
    BY DEF Publish, PublishRefused, PublishUnreachable, TipUnreachable, network
  <2> QED BY <2>1, <2>2
<1>7. /\ marked' \in [Script -> Anchor \cup {NoBlock}]
      /\ round.mark.height \in 1..Len(chain) /\ round.mark.height >= checkpoint.height
      /\ round.mark \in Anchor /\ round.mark.hash <= forks
  <2>1. checkpoint = AnchorAt(checkpoint.height)
    BY <1>2 DEF CInv, FInv, RecordHolds, CheckpointKnown, Agreed, AnchorAt
  <2>2. PICK h \in 1..Len(chain) : round.mark = AnchorAt(h) /\ h >= checkpoint.height
    BY <1>2, <1>3, <2>1
  <2>3. chain[h] \in BlockShape /\ chain[h].hash <= forks
    BY DEF CInv, FInv, IInv, ChainShape, RecordHolds, HashesKnown
  <2>4. /\ round.mark \in Anchor /\ round.mark.hash <= forks
        /\ round.mark.height \in 1..Len(chain) /\ round.mark.height >= checkpoint.height
    BY <2>2, <2>3 DEF AnchorAt, BlockShape, Anchor
  <2>5. marked' \in [Script -> Anchor \cup {NoBlock}]
    <3>1. marked' = marked \/ \E s \in Script : marked' = [marked EXCEPT ![s] = MarkKept(@, MarkOf(s))]
      BY DEF Publish, PublishRefused, PublishUnreachable, TipUnreachable, Arrives, network
    <3>2. \A s \in Script : MarkKept(marked[s], MarkOf(s)) \in Anchor \cup {NoBlock}
      BY <2>4 DEF MarkKept, MarkOf, CInv, MarksKnown
    <3> QED BY <3>1, <3>2 DEF CInv, MarksKnown
  <2> QED BY <2>4, <2>5
<1>8. MarksKnown'
  BY <1>1, <1>6, <1>7 DEF CInv, MarksKnown
<1>9. Covered'
  <2> SUFFICES ASSUME NEW g \in DOMAIN seen, g <= checkpoint.height, Agreed(g)
               PROVE  CoveredTo(g)'
    BY <1>1 DEF Covered, Agreed
  <2>1. CoveredTo(g) /\ g \in Nat /\ g <= Len(chain)
    BY <1>3, RecordHeights DEF CInv, Covered
  <2> QED BY <1>1, <1>3, <1>5, <2>1, CoverStays DEF ScannedFor
<1>10. MarksCovered'
  <2> SUFFICES ASSUME NEW s \in Script PROVE MarkCovers(s)'
    BY DEF MarksCovered
  <2>1. CASE marked'[s] = marked[s]
    BY <1>1, <1>3, <1>5, <2>1, MarkStays DEF ScannedFor
  <2>2. CASE /\ s \in round.watched /\ marked'[s] = round.mark
             /\ \A c \in round.claims : ScriptOf(c.outpoint) = s => c \in published'
    <3> DEFINE m == round.mark.height
    <3>1. ASSUME NEW g \in DOMAIN seen, g <= checkpoint.height PROVE Agreed(g)'
      <4>1. Agreed(g)
        BY <1>2, <3>1, RecordHeights DEF CInv, FInv, RecordHolds, RecordsChain
      <4> QED BY <1>1, <4>1 DEF Agreed
    <3>2. ASSUME NEW h \in 1..m, NEW o \in chain[h].pays, ScriptOf(o) = s, o \notin refused',
                 h > checkpoint.height \/ ScannedFor(s, h)
          PROVE  ConfirmedAt(o, AnchorAt(h))'
      <4>1. CASE h > checkpoint.height
        <5>1. h \in (checkpoint.height + 1)..m
          BY <1>3, <1>7, <4>1
        <5>2. PICK c \in round.claims : ConfirmsAt(c, o, h)
          BY <1>2, <2>2, <3>2, <5>1 DEF ClaimsCover
        <5>3. c \in published'
          BY <2>2, <3>2, <5>2 DEF ConfirmsAt
        <5> QED BY <1>1, <5>2, <5>3 DEF ConfirmsAt, ConfirmedAt, AnchorAt
      <4>2. CASE ~(h > checkpoint.height)
        <5>1. h \in 1..checkpoint.height
          BY <1>3, <1>7, <4>2
        <5>2. ConfirmedAt(o, AnchorAt(h))
          BY <1>4, <1>5, <3>2, <4>2, <5>1 DEF CoveredTo
        <5> QED BY <1>1, <1>5, <5>2 DEF ConfirmedAt, AnchorAt
      <4> QED BY <4>1, <4>2
    <3> HIDE DEF m
    <3> QED BY <1>1, <2>2, <3>1, <3>2 DEF MarkCovers, m, ScannedFor
  <2> QED BY <1>6, <2>1, <2>2
<1>11. PublishCovers'
  <2>1. ClaimsCover(round.mark.height)'
    BY <1>1, <1>2 DEF ClaimsCover, ConfirmsAt, AnchorAt
  <2>2. ASSUME NEW c \in round.claims
        PROVE  \/ ScriptOf(c.outpoint) \in round'.todo \/ round'.unreachable
               \/ c.outpoint \in refused' \/ c \in published'
    <3>1. \/ ScriptOf(c.outpoint) \in round.todo \/ round.unreachable
          \/ c.outpoint \in refused \/ c \in published
      BY <1>1, <1>3 DEF PublishCovers
    <3>2. ASSUME NEW s \in Script, Publish(s) \/ PublishRefused(s)
          PROVE  /\ round'.todo = round.todo \ {s} /\ round'.unreachable = round.unreachable
                 /\ ScriptOf(c.outpoint) = s => c.outpoint \in refused' \/ c \in published'
      <4>1. round' = [round EXCEPT !.todo = @ \ {s}]
        BY <3>2 DEF Publish, PublishRefused
      <4>2. round'.todo = round.todo \ {s} /\ round'.unreachable = round.unreachable
        BY <1>2, <4>1 DEF Publishing
      <4>3. CASE Publish(s)
        BY <4>2, <4>3 DEF Publish, Arrives, MarkPublished, Unpublished, ClaimsOf
      <4>4. CASE PublishRefused(s)
        BY <4>2, <4>4 DEF PublishRefused, Unpublished, ClaimsOf, network
      <4> QED BY <3>2, <4>3, <4>4
    <3>3. ASSUME TipUnreachable \/ \E s \in Script : PublishUnreachable(s)
          PROVE  round'.unreachable = TRUE
      <4>1. \/ round' = [round EXCEPT !.todo = {}, !.unreachable = TRUE]
            \/ round' = [round EXCEPT !.unreachable = TRUE]
        BY <3>3 DEF TipUnreachable, PublishUnreachable
      <4> QED BY <1>2, <4>1 DEF Publishing
    <3> QED BY <1>5, <3>1, <3>2, <3>3
  <2> QED BY <1>1, <2>1, <2>2 DEF PublishCovers
<1>12. SinceKnown' /\ ScanCovers'
  BY <1>1 DEF CInv, SinceKnown, ScanCovers
<1> QED BY <1>8, <1>9, <1>10, <1>11, <1>12 DEF CInv

\* A round that ends leaves claims behind: given up for want of a node, when rounds
\* before it were held back for the same reason as often as is allowed.
LeavesBehind ==
  round.phase = "publish" /\ round.deferred # NoBlock /\ round.unreachable /\ ~HoldsBack

\* A round that leaves nothing behind has published what its checkpoint moves over.
LEMMA FinishCovers ==
  ASSUME CInv, FInv', FinishRound, ~LeavesBehind
  PROVE  CInv'
<1>1. /\ round' = NoRound /\ round.phase = "publish" /\ round.todo = {}
      /\ UNCHANGED <<chain, forks, seen, watched, published, marked, since, refused>>
  BY DEF FinishRound, network, excused
<1>2. /\ Agreed(checkpoint.height)
      /\ checkpoint'.height = IF round.deferred = NoBlock \/ HoldsBack THEN checkpoint.height
                              ELSE round.mark.height
  BY FinishFollows DEF CInv, FInv
<1>3. /\ checkpoint.height \in Nat /\ checkpoint'.height \in Nat /\ Len(chain) \in Nat
      /\ checkpoint'.height <= Len(chain)
      /\ IInv /\ SinceKnown /\ ClaimsCover(round.mark.height)
      /\ round.deferred # NoBlock =>
           /\ round.deferred.height \in (checkpoint.height + 1)..Len(chain)
           /\ round.mark = round.deferred
      /\ \A c \in round.claims : round.unreachable \/ c.outpoint \in refused \/ c \in published
  BY <1>1, <1>2, RecordHeights DEF CInv, FInv, PublishFollows, PublishCovers
<1>4. /\ checkpoint'.height >= checkpoint.height
      /\ checkpoint'.height > checkpoint.height =>
           ~round.unreachable /\ checkpoint'.height = round.mark.height
  <2>1. CASE round.deferred = NoBlock \/ HoldsBack
    BY <1>2, <1>3, <2>1
  <2>2. CASE round.deferred # NoBlock /\ ~HoldsBack
    <3>1. ~round.unreachable
      BY <1>1, <2>2 DEF LeavesBehind
    <3> QED BY <1>2, <1>3, <2>2, <3>1
  <2> QED BY <2>1, <2>2
<1>5. CoveredTo(checkpoint.height)'
  <2> SUFFICES ASSUME NEW h \in 1..checkpoint'.height, NEW o \in chain[h].pays,
                      ScannedFor(ScriptOf(o), h), o \notin refused
               PROVE  ConfirmedAt(o, AnchorAt(h))
    BY <1>1 DEF CoveredTo, ConfirmedAt, AnchorAt, ScannedFor
  <2>1. CASE h <= checkpoint.height
    <3>1. h \in 1..checkpoint.height /\ CoveredTo(checkpoint.height)
      BY <1>2, <1>3, <2>1, CheckpointCovers
    <3> QED BY <3>1 DEF CoveredTo
  <2>2. CASE h > checkpoint.height
    <3>1. /\ h \in (checkpoint.height + 1)..round.mark.height /\ ~round.unreachable
          /\ h \in 1..Len(chain)
      BY <1>3, <1>4, <2>2
    <3>2. ScriptOf(o) \in Script
      BY <1>3, <3>1, PaysScripts
    <3>3. ScriptOf(o) \in round.watched
      BY <1>1, <1>3, <3>2 DEF SinceKnown, ScannedFor, NoRound
    <3>4. PICK c \in round.claims : ConfirmsAt(c, o, h)
      BY <1>3, <3>1, <3>3 DEF ClaimsCover
    <3> QED BY <1>3, <3>1, <3>4 DEF ConfirmsAt, ConfirmedAt
  <2> QED BY <1>3, <2>1, <2>2
<1>6. Agreed(checkpoint.height)'
  <2>1. CASE checkpoint'.height = checkpoint.height
    BY <1>1, <1>2, <2>1 DEF Agreed
  <2>2. CASE checkpoint'.height # checkpoint.height
    <3>1. checkpoint'.height \in (checkpoint.height + 1)..round.mark.height
      BY <1>3, <1>4, <2>2
    <3>2. AgreedTo(round.mark.height)
      BY <1>1 DEF CInv, FInv, PublishFollows
    <3> QED BY <1>1, <3>1, <3>2 DEF AgreedTo, Agreed
  <2> QED BY <2>1, <2>2
<1>7. MarksKnown' /\ Covered' /\ MarksCovered'
  BY <1>1, <1>4, <1>5, <1>6, CoverMoves DEF ScannedFor
<1> QED BY <1>1, <1>3, <1>7 DEF CInv, SinceKnown, ScanCovers, PublishCovers, NoRound

\* Nothing else touches it, but that watches come and go.
LEMMA OthersCover ==
  ASSUME CInv, FInv', StartRound \/ Crash \/ CrashInSign \/ WatchList \/ UNCHANGED vars
  PROVE  CInv'
<1>1. UNCHANGED <<chain, forks, seen, checkpoint, published, marked, refused>>
  BY OthersFollow DEF CInv, FInv
<1>2. \A s \in Script : since'[s] = since[s] \/ since'[s] = NoBlock
  BY DEF StartRound, Crash, CrashInSign, WatchList, Watch, Unwatch, vars, CInv, SinceKnown
<1>3. \A s \in Script : \A h \in Nat : ScannedFor(s, h)' => ScannedFor(s, h)
  BY <1>2 DEF ScannedFor
<1>4. SinceKnown'
  <2>1. CASE StartRound \/ Crash \/ CrashInSign \/ UNCHANGED vars
    BY <2>1 DEF StartRound, Crash, CrashInSign, vars, CInv, SinceKnown
  <2>2. CASE WatchList
    <3>1. PICK s \in Script : Watch(s) \/ Unwatch(s)
      BY <2>2 DEF WatchList
    <3> QED BY <3>1 DEF Watch, Unwatch, CInv, SinceKnown
  <2> QED BY <2>1, <2>2
<1>5. MarksKnown'
  BY <1>1 DEF CInv, MarksKnown
<1>6. Covered'
  <2> SUFFICES ASSUME NEW g \in DOMAIN seen, g <= checkpoint.height, Agreed(g)
               PROVE  CoveredTo(g)'
    BY <1>1 DEF Covered, Agreed
  <2>1. CoveredTo(g) /\ g \in Nat /\ g <= Len(chain) /\ IInv
    BY RecordHeights DEF CInv, FInv, Covered
  <2> QED BY <1>1, <1>3, <2>1, CoverStays
<1>7. MarksCovered'
  <2> SUFFICES ASSUME NEW s \in Script PROVE MarkCovers(s)'
    BY DEF MarksCovered
  <2>1. checkpoint.height \in Nat
    BY RecordHeights DEF CInv
  <2> QED BY <1>1, <1>3, <2>1, MarkStays
<1>8. ScanCovers' /\ PublishCovers'
  <2>1. CASE StartRound \/ Crash \/ CrashInSign
    BY <2>1 DEF StartRound, Crash, CrashInSign, NoRound, ScanCovers, PublishCovers
  <2>2. CASE WatchList \/ UNCHANGED vars
    <3>1. round' = round
      BY <2>2 DEF WatchList, Watch, Unwatch, vars
    <3> QED BY <1>1, <3>1
            DEF CInv, ScanCovers, PublishCovers, ClaimsCover, ConfirmsAt, AnchorAt
  <2> QED BY <2>1, <2>2
<1> QED BY <1>4, <1>5, <1>6, <1>7, <1>8 DEF CInv

\* Every step that leaves nothing behind keeps all covered.
LEMMA NextCovers == Steady /\ ~LeavesBehind /\ CInv /\ [Next]_vars => CInv'
<1> SUFFICES ASSUME Steady, ~LeavesBehind, CInv, [Next]_vars PROVE CInv'
  OBVIOUS
<1>1. FInv'
  BY NextFollows DEF CInv
<1>2. CASE Chain
  BY <1>1, <1>2, ChainCovers
<1>3. CASE NoReorg
  BY <1>1, <1>3, NoReorgCovers
<1>4. CASE HandleReorg
  BY <1>1, <1>4, HandleReorgCovers
<1>5. CASE ScanBlock
  BY <1>1, <1>5, ScanBlockCovers
<1>6. CASE Sign
  BY <1>1, <1>6, SignCovers
<1>7. CASE \/ TipUnreachable
           \/ \E s \in Script : Publish(s) \/ PublishRefused(s) \/ PublishUnreachable(s)
  BY <1>1, <1>7, PublishingCovers
<1>8. CASE FinishRound
  BY <1>1, <1>8, FinishCovers
<1>9. CASE StartRound \/ Crash \/ CrashInSign \/ WatchList \/ UNCHANGED vars
  BY <1>1, <1>9, OthersCover
<1>10. ~FirstRound /\ ~CrashInReorg
  BY Unreached DEF CInv
<1> QED BY <1>2, <1>3, <1>4, <1>5, <1>6, <1>7, <1>8, <1>9, <1>10 DEF Next, Step, Failure

\* At first no block pays anything.
LEMMA InitCovers == Steady /\ Init => CInv
<1> SUFFICES ASSUME Steady, Init PROVE CInv
  OBVIOUS
<1>1. FInv
  BY InitFollows
<1>2. \A h \in DOMAIN chain : chain[h].pays = {}
  BY DEF Init
<1>3. Covered
  <2>1. ASSUME NEW g \in DOMAIN seen, Agreed(g) PROVE CoveredTo(g)
    <3>1. \A h \in 1..g : h \in DOMAIN chain
      BY <1>1, <2>1, RecordHeights DEF Agreed, FInv, IInv, ChainShape
    <3> QED BY <1>2, <3>1 DEF CoveredTo
  <2> QED BY <2>1 DEF Covered
<1> QED BY <1>1, <1>3
        DEF Init, CInv, SinceKnown, MarksKnown, MarksCovered, MarkCovers, ScanCovers,
            PublishCovers, NoRound

\* A payment on the chain is where HeightOf says.
LEMMA HeightIsWhere ==
  ASSUME IInv, NEW o, HeightOf(o) # 0
  PROVE  HeightOf(o) \in 1..Len(chain) /\ o \in chain[HeightOf(o)].pays
<1> DEFINE at == {h \in DOMAIN chain : o \in chain[h].pays}
<1>1. at # {} /\ HeightOf(o) = Max(at)
  BY DEF HeightOf
<1>2. IsFiniteSet(at) /\ at \subseteq Int
  <2>1. DOMAIN chain = 1..Len(chain) /\ IsFiniteSet(1..Len(chain)) /\ at \subseteq DOMAIN chain
    BY FS_Interval DEF IInv, ChainShape
  <2> QED BY <2>1, FS_Subset
<1>3. Max(at) \in at
  <2> HIDE DEF at
  <2> QED BY <1>1, <1>2, HasMax
<1> QED BY <1>1, <1>3 DEF IInv, ChainShape

\* The invariant gives both properties.
LEMMA CoversAll == CInv => NothingSkipped /\ WatermarkCovers
<1> SUFFICES ASSUME CInv PROVE NothingSkipped /\ WatermarkCovers
  OBVIOUS
<1>1. IInv /\ FInv
  BY DEF CInv, FInv
<1>2. ASSUME NEW o \in Outpoint, Due(o)
      PROVE  /\ HeightOf(o) \in 1..Len(chain) /\ o \in chain[HeightOf(o)].pays
             /\ ScriptOf(o) \in Script /\ ScannedFor(ScriptOf(o), HeightOf(o)) /\ o \notin refused
  BY <1>1, <1>2, HeightIsWhere, ObserverAssumption DEF Due, ScannedFor
<1>3. NothingSkipped
  <2> SUFFICES ASSUME OnChain(checkpoint), NEW o \in Outpoint, Due(o),
                      HeightOf(o) <= checkpoint.height
               PROVE  ConfirmedAt(o, AnchorAt(HeightOf(o)))
    BY DEF NothingSkipped
  <2>1. Agreed(checkpoint.height)
    BY <1>1 DEF OnChain, Agreed, FInv, IInv, ChainShape, RecordHolds, CheckpointKnown
  <2>2. CoveredTo(checkpoint.height) /\ checkpoint.height \in Nat
    BY <1>1, <2>1, CheckpointCovers, RecordHeights
  <2> DEFINE h == HeightOf(o)
  <2>3. /\ h \in 1..Len(chain) /\ o \in chain[h].pays /\ ScannedFor(ScriptOf(o), h)
        /\ o \notin refused
    BY <1>2
  <2> HIDE DEF h
  <2>4. h \in 1..checkpoint.height
    BY <2>2, <2>3 DEF h
  <2> QED BY <2>2, <2>3, <2>4 DEF CoveredTo, h
<1>4. WatermarkCovers
  <2> SUFFICES ASSUME NEW o \in Outpoint, Due(o), marked[ScriptOf(o)] # NoBlock,
                      OnChain(marked[ScriptOf(o)]), HeightOf(o) <= marked[ScriptOf(o)].height
               PROVE  ConfirmedAt(o, AnchorAt(HeightOf(o)))
    BY DEF WatermarkCovers
  <2> DEFINE h == HeightOf(o)
             s == ScriptOf(o)
  <2>1. /\ h \in 1..Len(chain) /\ o \in chain[h].pays /\ ScannedFor(s, h)
        /\ o \notin refused /\ s \in Script
    BY <1>2
  <2>2. MarkCovers(s) /\ marked[s].height \in Nat
    BY <2>1 DEF CInv, MarksCovered, MarksKnown
  <2> HIDE DEF h
  <2>3. h \in 1..marked[s].height
    BY <2>1, <2>2 DEF h
  <2> QED BY <2>1, <2>2, <2>3 DEF MarkCovers, h
<1> QED BY <1>3, <1>4

\* As long as no round leaves claims behind, no payment below the checkpoint goes
\* unattested, through reorganizations, crashes and failed publishes (observe_once).
THEOREM NothingIsSkipped == Steady => (Spec /\ []~LeavesBehind => []NothingSkipped)
<1> SUFFICES ASSUME Steady PROVE Spec /\ []~LeavesBehind => []NothingSkipped
  OBVIOUS
<1>1. Init => CInv
  BY InitCovers
<1>2. CInv /\ [Next]_vars /\ ~LeavesBehind => CInv'
  BY NextCovers
<1>3. CInv => NothingSkipped
  BY CoversAll
<1> QED BY <1>1, <1>2, <1>3, PTL DEF Spec

\* And no watermark says more than was published (ScannedAnchor, publish_updates).
THEOREM WatermarksCover == Steady => (Spec /\ []~LeavesBehind => []WatermarkCovers)
<1> SUFFICES ASSUME Steady PROVE Spec /\ []~LeavesBehind => []WatermarkCovers
  OBVIOUS
<1>1. Init => CInv
  BY InitCovers
<1>2. CInv /\ [Next]_vars /\ ~LeavesBehind => CInv'
  BY NextCovers
<1>3. CInv => WatermarkCovers
  BY CoversAll
<1> QED BY <1>1, <1>2, <1>3, PTL DEF Spec

\* Each round held back had a failure of its own, and so has one that is about to be.
HeldCounts ==
  /\ held \in Nat /\ faults \in Nat /\ held <= faults /\ faults <= MaxFaults
  /\ round.phase = "publish" /\ round.unreachable => held < faults

\* With no more failures than rounds may be held back for, nothing is left behind.
LEMMA NextHeld == IInv /\ HeldCounts /\ [Next]_vars => HeldCounts'
<1> SUFFICES ASSUME IInv, HeldCounts, [Next]_vars PROVE HeldCounts'
  OBVIOUS
<1>1. held \in Nat /\ faults \in Nat /\ MaxFaults \in Nat /\ held <= faults /\ faults <= MaxFaults
  BY ObserverAssumption DEF HeldCounts
<1>2. CASE UNCHANGED <<held, faults>> /\ (round' = round \/ round'.phase # "publish")
  BY <1>2 DEF HeldCounts
<1>3. CASE Sign
  BY <1>1, <1>3, SignSigns DEF Signing, HeldCounts
<1>4. ASSUME NEW s \in Script, Publish(s) \/ PublishRefused(s) PROVE HeldCounts'
  <2>1. Publishing /\ round' = [round EXCEPT !.todo = @ \ {s}] /\ held' = held
    BY <1>4 DEF IInv, RoundShape, Publish, PublishRefused, NoRound, Beginning, Scanning, Publishing
  <2>2. round'.phase = round.phase /\ round'.unreachable = round.unreachable
    BY <2>1 DEF Publishing
  <2>3. faults' = faults \/ (faults < MaxFaults /\ faults' = faults + 1)
    BY <1>4 DEF Publish, PublishRefused, Happens
  <2> QED BY <1>1, <2>1, <2>2, <2>3 DEF HeldCounts
<1>5. ASSUME TipUnreachable \/ \E s \in Script : PublishUnreachable(s) PROVE HeldCounts'
  BY <1>1, <1>5 DEF TipUnreachable, PublishUnreachable, Happens, HeldCounts
<1>6. CASE FinishRound
  <2>1. held' = 0 \/ (held' = held + 1 /\ round.unreachable /\ round.phase = "publish")
    BY <1>6 DEF FinishRound, HoldsBack
  <2> QED BY <1>1, <1>6, <2>1 DEF FinishRound, HeldCounts, NoRound
<1>7. CASE Crash \/ CrashInReorg \/ CrashInSign
  BY <1>1, <1>7 DEF Crash, CrashInReorg, CrashInSign, Happens, HeldCounts, NoRound
<1>8. CASE WatchList
  BY <1>1, <1>8 DEF WatchList, Watch, Unwatch, Happens, HeldCounts
<1>9. CASE ScanBlock
  <2>1. Scanning
    BY <1>9 DEF IInv, RoundShape, ScanBlock, NoRound, Beginning, Scanning, Publishing
  <2>2. round'.phase # "publish"
    BY <1>9, <2>1 DEF ScanBlock, Scanning
  <2> QED BY <1>2, <1>9, <2>2 DEF ScanBlock
<1>10. CASE Chain \/ StartRound \/ FirstRound \/ NoReorg \/ UNCHANGED vars
  <2>1. UNCHANGED <<held, faults>>
    BY <1>10 DEF Chain, Mine, Reorganize, StartRound, FirstRound, NoReorg, vars
  <2>2. CASE Chain \/ UNCHANGED vars
    BY <1>2, <2>1, <2>2 DEF Chain, Mine, Reorganize, vars
  <2>3. CASE StartRound
    BY <1>2, <2>1, <2>3 DEF StartRound
  <2>4. CASE FirstRound \/ NoReorg
    <3>1. \E resume, orphans : round' = ScanFrom(resume, orphans)
      BY <2>4 DEF FirstRound, NoReorg
    <3> QED BY <1>2, <2>1, <3>1 DEF ScanFrom
  <2> QED BY <1>10, <2>2, <2>3, <2>4
<1>11. CASE HandleReorg
  <2>1. /\ held' = held /\ round.phase = "reorg"
        /\ faults' = faults \/ (faults < MaxFaults /\ faults' = faults + 1)
        /\ \E resume, orphans : round' = ScanFrom(resume, orphans)
    BY <1>11 DEF HandleReorg, SeemsGone, Happens
  <2>2. round'.phase = "scan"
    BY <2>1 DEF ScanFrom
  <2> QED BY <1>1, <2>1, <2>2 DEF HeldCounts
<1> QED BY <1>3, <1>4, <1>5, <1>6, <1>7, <1>8, <1>9, <1>10, <1>11 DEF Next, Step, Failure

\* With no more failures than rounds that may be held back, none leaves claims behind:
\* nothing is passed over.
THEOREM NothingIsSkippedWithin ==
  Steady /\ MaxFaults <= MaxHeld => (Spec => [](NothingSkipped /\ WatermarkCovers))
<1> SUFFICES ASSUME Steady, MaxFaults <= MaxHeld
             PROVE  Spec => [](NothingSkipped /\ WatermarkCovers)
  OBVIOUS
<1>1. Init => CInv /\ HeldCounts
  BY InitCovers, ObserverAssumption DEF Init, HeldCounts, NoRound
<1>2. CInv /\ HeldCounts => ~LeavesBehind
  <2> SUFFICES ASSUME HeldCounts, LeavesBehind PROVE FALSE
    OBVIOUS
  <2>1. MaxFaults \in Nat /\ MaxHeld \in Nat
    BY ObserverAssumption
  <2> QED BY <2>1 DEF HeldCounts, LeavesBehind, HoldsBack
<1>3. CInv /\ HeldCounts /\ [Next]_vars => (CInv /\ HeldCounts)'
  BY <1>2, NextCovers, NextHeld DEF CInv, FInv
<1>4. CInv => NothingSkipped /\ WatermarkCovers
  BY CoversAll
<1> QED BY <1>1, <1>3, <1>4, PTL DEF Spec

-----------------------------------------------------------------------------
(* No contradiction *)

\* The claims that are out, and those a round is to send.
Spoken == published \cup ClaimsIn(round)

SpokenHeights ==
  \A c \in Spoken : c.outpoint \in Outpoint /\ c.as_of.height \in 1..Len(chain)

\* A round speaks of the chain as it is.
RoundHeights ==
  /\ \A c \in ClaimsIn(round) : c.as_of.height = Len(chain)
  /\ round.phase \in {"reorg", "scan"} => round.tip.height = Len(chain)

\* Whoever has spoken of the chain as it is follows it: no reorganization is to find.
SpokenFollows ==
  (\E c \in published : c.as_of.height = Len(chain)) => Agreed(checkpoint.height)

\* What was confirmed of the chain as it is has its row right.
ConfirmedThere ==
  \A c \in Spoken :
    c.kind = "Confirmed" /\ c.as_of.height = Len(chain)
    /\ outputs[c.outpoint].state = "in_block"
    => LET h == outputs[c.outpoint].block.height
       IN  h <= Len(chain) /\ c.outpoint \in chain[h].pays

\* What was retracted of the chain as it is will not be found on it.
RetractedGone ==
  \A d \in Spoken :
    d.kind = "Retracted" /\ d.as_of.height = Len(chain) /\ d.outpoint \notin late =>
      /\ outputs[d.outpoint].state # "in_block"
      /\ \A h \in (checkpoint.height + 1)..Len(chain) : d.outpoint \notin chain[h].pays

Consistent ==
  \A c, d \in Spoken :
    c.kind = "Confirmed" /\ d.kind = "Retracted" /\ c.outpoint = d.outpoint
    /\ c.outpoint \notin late
    => c.as_of.height # d.as_of.height

\* The round has found it, or will.
Sighted(o) ==
  \/ \E c \in round.claims : c.outpoint = o
  \/ \E h \in (checkpoint.height + 1)..Len(chain) : o \in chain[h].pays

\* A round looks for its orphans in all that is new: there it finds again those it
\* has already confirmed of the chain as it is.
OrphansSought ==
  round.phase = "scan" =>
    /\ \A c \in round.claims : c.kind = "Confirmed"
    /\ \A o \in round.orphans :
         /\ \A c \in published :
              c.kind = "Confirmed" /\ c.outpoint = o /\ c.as_of.height = Len(chain)
              => Sighted(o)
         /\ o \in Outpoint /\ ScriptOf(o) \in round.scan
         /\ o \notin late => round.ceiling = Len(chain)
         /\ outputs[o].state = "in_doubt" \/ \E c \in round.claims : c.outpoint = o
         /\ \A h \in (checkpoint.height + 1)..(round.next - 1) :
              o \in chain[h].pays => \E c \in round.claims : c.outpoint = o

\* The inductive invariant.
NInv ==
  /\ FInv /\ SpokenHeights /\ RoundHeights /\ SpokenFollows
  /\ ConfirmedThere /\ RetractedGone /\ Consistent /\ OrphansSought

\* A longer chain has not been spoken of.
LEMMA ChainSpeaks == ASSUME Steady, NInv, FInv', Chain PROVE NInv'
<1>1. PICK f \in Nat : GivesWay(f)
  BY ChainGivesWay DEF NInv, FInv
<1>2. /\ round = NoRound /\ UNCHANGED <<checkpoint, seen, outputs, round, published, late>>
  BY ChainGivesWay DEF NInv, FInv
<1>3. Spoken = published /\ Spoken' = published /\ ClaimsIn(round') = {}
  BY <1>2 DEF Spoken, ClaimsIn, NoRound
<1>4. \A c \in published : c.outpoint \in Outpoint /\ c.as_of.height \in 1..Len(chain')
                           /\ c.as_of.height # Len(chain')
  <2> SUFFICES ASSUME NEW c \in published
               PROVE  c.outpoint \in Outpoint /\ c.as_of.height \in 1..Len(chain')
                      /\ c.as_of.height # Len(chain')
    OBVIOUS
  <2>1. c.outpoint \in Outpoint /\ c.as_of.height \in 1..Len(chain)
    BY <1>3 DEF NInv, SpokenHeights
  <2> QED BY <1>1, <2>1 DEF GivesWay
<1>5. Consistent'
  BY <1>2, <1>3 DEF NInv, Consistent
<1> QED BY <1>2, <1>3, <1>4, <1>5
        DEF NInv, SpokenHeights, RoundHeights, SpokenFollows, ConfirmedThere, RetractedGone,
            OrphansSought, NoRound

\* A step that only drops claims, or only publishes some of the round's.
LEMMA FewerSpeak ==
  ASSUME NInv, FInv', chain' = chain, RowsKept, late \subseteq late',
         Spoken' \subseteq Spoken, checkpoint'.height >= checkpoint.height,
         \A c \in published' : c \in published \/ c \in ClaimsIn(round),
         Agreed(checkpoint.height) => Agreed(checkpoint.height)',
         round.phase = "publish" \/ published' \subseteq published,
         ClaimsIn(round') \subseteq ClaimsIn(round),
         round'.phase \notin {"reorg", "scan"} \/ (round'.phase = "reorg" /\ round'.tip = AnchorAt(Len(chain)))
  PROVE  NInv'
<1>1. SpokenHeights'
  BY DEF NInv, SpokenHeights
<1>2. RoundHeights'
  BY DEF NInv, RoundHeights, AnchorAt
<1>3. SpokenFollows'
  BY DEF NInv, SpokenFollows, FInv, PublishFollows
<1>4. RetractedGone'
  <2>1. checkpoint.height \in Nat /\ checkpoint'.height \in Nat /\ Len(chain) \in Nat
    <3>1. checkpoint'.height \in DOMAIN seen' /\ DOMAIN seen' \subseteq Nat
      BY DEF FInv, IInv, StoreShape, RecordHolds, CheckpointKnown
    <3> QED BY <3>1, RecordHeights DEF NInv
  <2>2. \A h \in (checkpoint'.height + 1)..Len(chain) : h \in (checkpoint.height + 1)..Len(chain)
    BY <2>1
  <2> QED BY <2>2 DEF NInv, RetractedGone, SpokenHeights, RowsKept
<1>5. Consistent'
  BY DEF NInv, Consistent
<1>6. OrphansSought'
  BY DEF OrphansSought
<1>7. ConfirmedThere'
  BY DEF NInv, ConfirmedThere, SpokenHeights, RowsKept
<1> QED BY <1>1, <1>2, <1>3, <1>4, <1>5, <1>6, <1>7 DEF NInv

\* The steps that add no claims and start no scan.
LEMMA PublishingSpeaks ==
  ASSUME NInv, FInv',
         \/ TipUnreachable
         \/ \E s \in Script : Publish(s) \/ PublishRefused(s) \/ PublishUnreachable(s)
  PROVE  NInv'
<1>1. /\ UNCHANGED <<chain, forks, checkpoint, seen, outputs>>
      /\ round.phase = "publish" /\ round'.phase = "publish" /\ round'.claims = round.claims
  BY PublishingFollows DEF NInv, FInv
<1>2. /\ late' = late
      /\ published' = published \/ \E s \in Script : published' = published \cup Unpublished(s)
  BY DEF Publish, PublishRefused, PublishUnreachable, TipUnreachable, Arrives, network, excused,
         MarkPublished
<1>3. ClaimsIn(round') = ClaimsIn(round) /\ ClaimsIn(round) = round.claims
  BY <1>1 DEF ClaimsIn
<1>4. \A c \in published' : c \in published \/ c \in round.claims
  BY <1>2 DEF Unpublished, ClaimsOf
<1>5. Spoken' \subseteq Spoken
  BY <1>3, <1>4 DEF Spoken
<1>6. checkpoint'.height >= checkpoint.height
  BY <1>1, RecordHeights DEF NInv
<1>7. Agreed(checkpoint.height)' <=> Agreed(checkpoint.height)
  BY <1>1 DEF Agreed
<1>8. RowsKept
  BY <1>1 DEF RowsKept
<1> QED BY <1>1, <1>2, <1>3, <1>4, <1>5, <1>6, <1>7, <1>8, FewerSpeak

\* A round ends or is cut short, or begins.
LEMMA EndSpeaks ==
  ASSUME NInv, FInv', FinishRound \/ Crash \/ CrashInSign \/ StartRound
  PROVE  NInv'
<1>1. /\ UNCHANGED <<chain, published, late>> /\ ClaimsIn(round') = {}
      /\ round'.phase = "idle" \/ (round'.phase = "reorg" /\ round'.tip = AnchorAt(Len(chain)))
  BY DEF FinishRound, Crash, CrashInSign, StartRound, store, network, excused, NoRound, ClaimsIn
<1>2. checkpoint.height \in Nat
  BY RecordHeights DEF NInv
<1>3. /\ checkpoint'.height >= checkpoint.height
      /\ Agreed(checkpoint.height) => Agreed(checkpoint.height)'
  <2>1. CASE FinishRound
    <3>1. /\ Agreed(checkpoint.height)'
          /\ checkpoint'.height = IF round.deferred = NoBlock \/ HoldsBack THEN checkpoint.height
                                  ELSE round.mark.height
      BY <2>1, FinishFollows DEF NInv, FInv
    <3>2. round.deferred # NoBlock => round.mark.height >= checkpoint.height
      <4>1. round.deferred # NoBlock =>
              round.deferred.height \in (checkpoint.height + 1)..Len(chain)
              /\ round.mark = round.deferred
        BY <2>1 DEF NInv, FInv, PublishFollows, FinishRound
      <4>2. Len(chain) \in Nat
        BY RecordHeights DEF NInv
      <4> QED BY <1>2, <4>1, <4>2
    <3> QED BY <1>2, <3>1, <3>2
  <2>2. CASE Crash \/ CrashInSign \/ StartRound
    <3>1. UNCHANGED <<checkpoint, seen, chain>>
      BY <2>2 DEF Crash, CrashInSign, StartRound, store
    <3> QED BY <1>2, <3>1 DEF Agreed
  <2> QED BY <2>1, <2>2
<1>4. Spoken' \subseteq Spoken
  BY <1>1 DEF Spoken
<1>5. RowsKept
  <2>1. CASE FinishRound \/ Crash \/ StartRound
    BY <2>1 DEF FinishRound, Crash, StartRound, store, RowsKept
  <2>2. CASE CrashInSign
    <3>1. PICK D : outputs' = MarkAll(D)
      BY <2>2 DEF CrashInSign
    <3> QED BY <3>1, MarkAllKeeps DEF NInv, FInv
  <2> QED BY <2>1, <2>2
<1> QED BY <1>1, <1>3, <1>4, <1>5, FewerSpeak

\* A watch comes or goes, or nothing happens.
LEMMA WatchSpeaks == ASSUME NInv, FInv', WatchList \/ UNCHANGED vars PROVE NInv'
<1>1. UNCHANGED <<chain, forks, seen, checkpoint, outputs, published, late, round>>
  BY DEF WatchList, Watch, Unwatch, store, network, excused, vars
<1> QED BY <1>1
        DEF NInv, Spoken, ClaimsIn, SpokenHeights, RoundHeights, SpokenFollows, ConfirmedThere,
            RetractedGone, Consistent, OrphansSought, Sighted, Agreed

\* A round goes on to scan with no orphans,
LEMMA NoReorgSpeaks == ASSUME NInv, FInv', NoReorg PROVE NInv'
<1>1. /\ UNCHANGED <<chain, seen, checkpoint, outputs, published, late>>
      /\ round' = ScanFrom(checkpoint.height + 1, {}) /\ round.phase = "reorg"
  BY DEF NoReorg, store, network, excused
<1>2. /\ round'.phase = "scan" /\ round'.claims = {} /\ round'.orphans = {}
      /\ round'.tip = round.tip
  BY <1>1 DEF ScanFrom
<1>3. Spoken = published /\ Spoken' = published /\ ClaimsIn(round') = {}
  BY <1>1, <1>2 DEF Spoken, ClaimsIn
<1> QED BY <1>1, <1>2, <1>3
        DEF NInv, SpokenHeights, RoundHeights, SpokenFollows, ConfirmedThere, RetractedGone,
            Consistent, OrphansSought, Agreed

\* or with those of a reorganization, of which nobody has spoken yet, or that it will
\* find again where they are.
LEMMA HandleReorgSpeaks == ASSUME NInv, FInv', HandleReorg PROVE NInv'
<1>0. PICK fork : fork = FindForkPoint(checkpoint.height)
  OBVIOUS
<1>1. /\ fork \in 1..checkpoint.height /\ (fork = checkpoint.height <=> StillCurrent)
      /\ fork + MaxReorgDepth >= checkpoint.height /\ checkpoint'.height = fork
  BY <1>0, ForkKept DEF NInv
<1>2. PICK orphans : orphans = {o \in Outpoint : Above(o, fork)}
  OBVIOUS
<1>3. /\ round' = ScanFrom(fork + 1, orphans) /\ round.phase = "reorg"
      /\ outputs' = UnconfirmAbove(fork)
      /\ late' = IF NoticedLate THEN late \cup orphans ELSE late
      /\ UNCHANGED <<chain, published>>
  BY <1>0, <1>2 DEF HandleReorg, network
<1>4. /\ round'.phase = "scan" /\ round'.claims = {} /\ round'.orphans = orphans
      /\ round'.tip = round.tip /\ round'.next = fork + 1 /\ round'.scan = ScanSet(orphans)
      /\ round'.ceiling = ScanCeiling(fork + 1, orphans)
      /\ \A o \in orphans : ScriptOf(o) \in ScanSet(orphans)
  BY <1>3 DEF ScanFrom, ScanSet
<1>5. Spoken = published /\ Spoken' = published /\ ClaimsIn(round') = {}
  BY <1>3, <1>4 DEF Spoken, ClaimsIn
<1>6. fork = checkpoint.height \/ \A c \in published : c.as_of.height # Len(chain)
  <2> SUFFICES ASSUME ~StillCurrent PROVE \A c \in published : c.as_of.height # Len(chain)
    BY <1>1
  <2>1. ~Agreed(checkpoint.height)
    BY DEF StillCurrent, OnChain, Agreed, NInv, FInv, IInv, ChainShape, RecordHolds,
           CheckpointKnown
  <2> QED BY <2>1 DEF NInv, SpokenFollows
<1>7. ASSUME NEW o \in orphans
      PROVE  /\ o \in Outpoint /\ outputs'[o].state = "in_doubt"
             /\ o \notin late' => round'.ceiling = Len(chain)
             /\ \A c \in published :
                  c.kind = "Confirmed" /\ c.outpoint = o /\ c.as_of.height = Len(chain)
                  => \E h \in (fork + 1)..Len(chain) : o \in chain[h].pays
  <2>1. o \in Outpoint /\ Above(o, fork)
    BY <1>2
  <2>2. outputs'[o].state = "in_doubt"
    <3>1. outputs'[o] = [outputs[o] EXCEPT !.state = "in_doubt", !.deep = 0]
      BY <1>3, <2>1 DEF UnconfirmAbove
    <3> QED BY <2>1, <3>1 DEF NInv, FInv, IInv, StoreShape
  <2>3. ASSUME o \notin late' PROVE round'.ceiling = Len(chain)
    <3> DEFINE a == round.tip.height
               b == fork + 1 + (RoundBlocks + MaxReorgDepth)
    <3>1. ~(a > checkpoint.height + RoundBlocks)
      BY <1>3, <2>3 DEF NoticedLate
    <3>2. a = Len(chain) /\ Len(chain) \in Nat /\ checkpoint.height \in Nat
      BY <1>3, RecordHeights DEF NInv, RoundHeights
    <3>3. b \in Int /\ a \in Int /\ a <= b
      BY <1>1, <3>1, <3>2, Constants
    <3>4. round'.ceiling = Min({a, b})
      BY <1>4, <1>7 DEF ScanCeiling, ScanWindow
    <3> HIDE DEF a, b
    <3>5. Min({a, b}) \in {a, b} /\ Min({a, b}) <= a /\ Min({a, b}) <= b
      BY <3>3, OfTwo
    <3> QED BY <3>2, <3>3, <3>4, <3>5
  <2>4. ASSUME NEW c \in published, c.kind = "Confirmed", c.outpoint = o,
               c.as_of.height = Len(chain)
        PROVE  \E h \in (fork + 1)..Len(chain) : o \in chain[h].pays
    <3>1. PICK h : h = outputs[o].block.height
      OBVIOUS
    <3>2. h \in Nat /\ h > fork /\ outputs[o].state = "in_block"
      BY <2>1, <3>1 DEF Above, NInv, FInv, IInv, StoreShape
    <3>3. h <= Len(chain) /\ o \in chain[h].pays
      BY <1>5, <2>4, <3>1, <3>2 DEF NInv, ConfirmedThere
    <3>4. h \in (fork + 1)..Len(chain)
      BY <1>1, <3>2, <3>3, RecordHeights DEF NInv
    <3> QED BY <3>3, <3>4
  <2> QED BY <2>1, <2>2, <2>3, <2>4
<1>8. OrphansSought'
  <2>1. fork \in Nat
    BY <1>1, RecordHeights DEF NInv
  <2> QED BY <1>1, <1>3, <1>4, <1>7, <2>1 DEF OrphansSought, Sighted
<1>9. Consistent'
  BY <1>3, <1>5 DEF NInv, Consistent
<1>10. \A o \in Outpoint : outputs'[o].state = "in_block" => outputs'[o] = outputs[o]
  <2> SUFFICES ASSUME NEW o \in Outpoint, outputs'[o].state = "in_block"
               PROVE  outputs'[o] = outputs[o]
    OBVIOUS
  <2>1. o \notin orphans
    BY <1>7
  <2> QED BY <1>2, <1>3, <2>1 DEF UnconfirmAbove
<1>11. SpokenFollows'
  BY <1>4 DEF SpokenFollows, FInv, ScanFollows
<1>12. ConfirmedThere'
  BY <1>3, <1>5, <1>10 DEF NInv, SpokenHeights, ConfirmedThere
<1>13. RetractedGone'
  <2>1. late \subseteq late'
    BY <1>3
  <2> QED BY <1>1, <1>3, <1>5, <1>6, <1>10, <2>1 DEF NInv, SpokenHeights, RetractedGone
<1> QED BY <1>3, <1>4, <1>5, <1>8, <1>9, <1>11, <1>12, <1>13
        DEF NInv, SpokenHeights, RoundHeights

\* A payment found in a block scanned was not retracted before on this chain.
LEMMA ScanBlockSpeaks == ASSUME NInv, FInv', ScanBlock PROVE NInv'
<1>0. PICK h : h = round.next
  OBVIOUS
<1>1. PICK new : new = {Confirmation(o, AnchorAt(h)) : o \in FoundAt(h)}
  OBVIOUS
<1>2. PICK claims : claims = round.claims \cup new
  OBVIOUS
<1>3. /\ checkpoint' = IF claims = {} THEN AnchorAt(h) ELSE checkpoint
      /\ round' = [round EXCEPT !.next = h + 1, !.claims = claims, !.scanned = TRUE,
                                !.deferred = IF claims = {} THEN NoBlock ELSE AnchorAt(h)]
      /\ outputs' = [o \in Outpoint |->
                       IF o \in FoundAt(h) THEN RecordOutput(o, AnchorAt(h)) ELSE outputs[o]]
      /\ UNCHANGED <<chain, published, late>>
  BY <1>0, <1>1, <1>2 DEF ScanBlock, CheckpointAfter, network, excused
<1>4. Scanning /\ round.phase = "scan" /\ h \in Nat \ {0} /\ h <= round.ceiling
  BY <1>0 DEF NInv, FInv, IInv, RoundShape, ScanBlock, NoRound, Beginning, Scanning, Publishing
<1>5. /\ h > checkpoint.height /\ checkpoint.height \in Nat \ {0} /\ Len(chain) \in Nat
      /\ h \in 1..Len(chain) /\ h <= Len(chain) /\ h \in (checkpoint.height + 1)..Len(chain)
  <2>1. h \in (checkpoint.height + 1)..(Len(chain) + 1)
    BY <1>0, <1>4 DEF NInv, FInv, ScanFollows
  <2>2. checkpoint.height \in Nat \ {0} /\ Len(chain) \in Nat
    BY RecordHeights DEF NInv
  <2> QED BY <1>4, <2>1, <2>2 DEF Scanning, TipBelow
<1>6. /\ round'.phase = "scan" /\ round'.next = h + 1 /\ round'.claims = claims
      /\ round'.tip = round.tip /\ round'.orphans = round.orphans /\ round'.scan = round.scan
      /\ round'.ceiling = round.ceiling
  <2> HIDE DEF AnchorAt
  <2> QED BY <1>3, <1>4 DEF Scanning
<1>7. /\ checkpoint'.height \in Nat /\ checkpoint'.height >= checkpoint.height
      /\ Agreed(checkpoint.height)'
  BY <1>3, <1>5, <1>6 DEF AnchorAt, FInv, ScanFollows
<1>8. \A o \in FoundAt(h) : o \in Outpoint /\ o \in chain[h].pays
  BY <1>5, PaysScripts DEF FoundAt, NInv, FInv
<1>9. ASSUME NEW c \in new
      PROVE  /\ c.kind = "Confirmed" /\ c.outpoint \in FoundAt(h)
             /\ c.as_of.height = Len(chain) /\ c.outpoint \in Outpoint
  <2>1. PICK o \in FoundAt(h) : c = Confirmation(o, AnchorAt(h))
    BY <1>1
  <2>2. round.tip.height = Len(chain)
    BY <1>4 DEF NInv, RoundHeights
  <2> QED BY <1>8, <2>1, <2>2 DEF Confirmation, ConfirmedClaim
<1>10. ASSUME NEW o \in FoundAt(h) PROVE \E c \in new : c.outpoint = o
  <2>1. Confirmation(o, AnchorAt(h)) \in new
    BY <1>1
  <2>2. Confirmation(o, AnchorAt(h)).outpoint = o
    BY DEF Confirmation, ConfirmedClaim
  <2> QED BY <2>1, <2>2
<1>11. /\ Spoken = published \cup round.claims /\ Spoken' = Spoken \cup new
       /\ ClaimsIn(round) = round.claims /\ ClaimsIn(round') = round.claims \cup new
  <2>1. ClaimsIn(round) = round.claims
    BY <1>4 DEF ClaimsIn
  <2>2. ClaimsIn(round') = round.claims \cup new
    BY <1>2, <1>6 DEF ClaimsIn
  <2>3. published' = published
    BY <1>3
  <2>4. Spoken' = published' \cup ClaimsIn(round')
    BY DEF Spoken, ClaimsIn
  <2>5. Spoken = published \cup ClaimsIn(round)
    BY DEF Spoken
  <2> QED BY ONLY <2>1, <2>2, <2>3, <2>4, <2>5
<1>12. SpokenHeights'
  <2> SUFFICES ASSUME NEW c \in Spoken'
               PROVE  c.outpoint \in Outpoint /\ c.as_of.height \in 1..Len(chain')
    BY DEF SpokenHeights
  <2>1. CASE c \in Spoken
    BY <1>3, <2>1 DEF NInv, SpokenHeights
  <2>2. CASE c \in new
    BY <1>3, <1>5, <1>9, <2>2
  <2> QED BY <1>11, <2>1, <2>2
<1>13. RoundHeights'
  BY <1>3, <1>4, <1>6, <1>9, <1>11 DEF NInv, RoundHeights
<1>14. SpokenFollows'
  BY <1>7 DEF SpokenFollows
<1>15. \A d \in Spoken' : d.kind = "Retracted" => d \in Spoken
  BY <1>9, <1>11
<1>16. RetractedGone'
  <2> SUFFICES ASSUME NEW d \in Spoken, d.kind = "Retracted", d.as_of.height = Len(chain),
                      d.outpoint \notin late
               PROVE  /\ outputs'[d.outpoint].state # "in_block"
                      /\ \A k \in (checkpoint'.height + 1)..Len(chain) :
                           d.outpoint \notin chain[k].pays
    BY <1>3, <1>15 DEF RetractedGone
  <2>1. /\ outputs[d.outpoint].state # "in_block" /\ d.outpoint \in Outpoint
        /\ \A k \in (checkpoint.height + 1)..Len(chain) : d.outpoint \notin chain[k].pays
    BY DEF NInv, RetractedGone, SpokenHeights
  <2>2. d.outpoint \notin FoundAt(h)
    BY <1>5, <1>8, <2>1
  <2>3. outputs'[d.outpoint] = outputs[d.outpoint]
    BY <1>3, <2>1, <2>2
  <2>4. \A k \in (checkpoint'.height + 1)..Len(chain) : k \in (checkpoint.height + 1)..Len(chain)
    BY <1>5, <1>7
  <2> QED BY <2>1, <2>3, <2>4
<1>17. Consistent'
  <2> SUFFICES ASSUME NEW c \in Spoken', NEW d \in Spoken, c.kind = "Confirmed",
                      d.kind = "Retracted", c.outpoint = d.outpoint, c.outpoint \notin late
               PROVE  c.as_of.height # d.as_of.height
    BY <1>3, <1>15 DEF Consistent
  <2>1. CASE c \in Spoken
    BY <2>1 DEF NInv, Consistent
  <2>2. CASE c \in new
    BY <1>5, <1>8, <1>9, <2>2 DEF NInv, RetractedGone
  <2> QED BY <1>11, <2>1, <2>2
<1>18. OrphansSought'
  <2>1. \A c \in round.claims : c.kind = "Confirmed"
    BY <1>4 DEF NInv, OrphansSought
  <2>2. ASSUME NEW o \in round.orphans
        PROVE  /\ o \in Outpoint /\ ScriptOf(o) \in round.scan
               /\ o \notin late => round.ceiling = Len(chain)
               /\ outputs'[o].state = "in_doubt" \/ \E c \in claims : c.outpoint = o
               /\ \A k \in (checkpoint'.height + 1)..h :
                    o \in chain[k].pays => \E c \in claims : c.outpoint = o
               /\ \A c \in published :
                    c.kind = "Confirmed" /\ c.outpoint = o /\ c.as_of.height = Len(chain)
                    => \/ \E d \in claims : d.outpoint = o
                       \/ \E k \in (checkpoint'.height + 1)..Len(chain) : o \in chain[k].pays
    <3>1. /\ o \in Outpoint /\ ScriptOf(o) \in round.scan
          /\ o \notin late => round.ceiling = Len(chain)
          /\ outputs[o].state = "in_doubt" \/ \E c \in round.claims : c.outpoint = o
          /\ \A k \in (checkpoint.height + 1)..(h - 1) :
               o \in chain[k].pays => \E c \in round.claims : c.outpoint = o
          /\ \A c \in published :
               c.kind = "Confirmed" /\ c.outpoint = o /\ c.as_of.height = Len(chain)
               => Sighted(o)
      BY <1>0, <1>4 DEF NInv, OrphansSought
    <3>2. CASE \E c \in claims : c.outpoint = o
      BY <3>1, <3>2
    <3>3. CASE ~ \E c \in claims : c.outpoint = o
      <4>1. o \notin FoundAt(h) /\ outputs'[o] = outputs[o] /\ outputs[o].state = "in_doubt"
        BY <1>2, <1>3, <1>10, <3>1, <3>3
      <4>2. o \notin chain[h].pays
        BY <3>1, <4>1 DEF FoundAt, Reported, InDoubt
      <4>3. ASSUME NEW k \in (checkpoint'.height + 1)..h PROVE o \notin chain[k].pays
        <5>1. k = h \/ k \in (checkpoint.height + 1)..(h - 1)
          BY <1>5, <1>7
        <5> QED BY <1>2, <3>1, <3>3, <4>2, <5>1
      <4>4. ASSUME Sighted(o)
            PROVE  \E k \in (checkpoint'.height + 1)..Len(chain) : o \in chain[k].pays
        <5>1. PICK k \in (checkpoint.height + 1)..Len(chain) : o \in chain[k].pays
          <6>1. ~ \E c \in round.claims : c.outpoint = o
            BY <1>2, <3>3
          <6> QED BY <4>4, <6>1 DEF Sighted
        <5>2. k \notin (checkpoint.height + 1)..(h - 1)
          <6>1. ~ \E c \in round.claims : c.outpoint = o
            BY <1>2, <3>3
          <6>2. \A j \in (checkpoint.height + 1)..(h - 1) : o \notin chain[j].pays
            BY <3>1, <6>1
          <6> QED BY <5>1, <6>2
        <5>3. k > h
          <6>1. k # h
            BY <4>2, <5>1
          <6> QED BY <1>5, <5>2, <6>1
        <5>4. checkpoint'.height <= h
          BY <1>3, <1>5 DEF AnchorAt
        <5> QED BY <1>5, <1>7, <5>1, <5>3, <5>4
      <4> QED BY <3>1, <4>1, <4>3, <4>4
    <3> QED BY <3>2, <3>3
  <2>3. round'.next - 1 = h
    BY <1>5, <1>6
  <2>4. ASSUME NEW o
        PROVE  Sighted(o)' <=> \/ \E d \in claims : d.outpoint = o
                               \/ \E k \in (checkpoint'.height + 1)..Len(chain) : o \in chain[k].pays
    BY <1>3, <1>6 DEF Sighted
  <2>5. \A c \in claims : c.kind = "Confirmed"
    BY <1>2, <1>9, <2>1
  <2>6. UNCHANGED <<chain, published, late>>
    BY <1>3
  <2> SUFFICES ASSUME NEW o \in round.orphans
               PROVE  /\ o \in Outpoint /\ ScriptOf(o) \in round.scan
                      /\ o \notin late' => round.ceiling = Len(chain')
                      /\ outputs'[o].state = "in_doubt" \/ \E c \in claims : c.outpoint = o
                      /\ \A k \in (checkpoint'.height + 1)..h :
                           o \in chain'[k].pays => \E c \in claims : c.outpoint = o
                      /\ \A c \in published' :
                           c.kind = "Confirmed" /\ c.outpoint = o /\ c.as_of.height = Len(chain')
                           => Sighted(o)'
    BY <1>6, <2>3, <2>5 DEF OrphansSought
  <2> QED BY <2>2, <2>4, <2>6
<1>19. ConfirmedThere'
  <2> SUFFICES ASSUME NEW c \in Spoken', c.kind = "Confirmed", c.as_of.height = Len(chain),
                      outputs'[c.outpoint].state = "in_block"
               PROVE  LET k == outputs'[c.outpoint].block.height
                      IN  k <= Len(chain) /\ c.outpoint \in chain[k].pays
    BY <1>3 DEF ConfirmedThere
  <2>1. c.outpoint \in Outpoint
    BY <1>12 DEF SpokenHeights
  <2>2. CASE c.outpoint \in FoundAt(h)
    <3>0. outputs'[c.outpoint] = RecordOutput(c.outpoint, AnchorAt(h))
      BY <1>3, <2>1, <2>2
    <3>1. outputs'[c.outpoint].block = AnchorAt(h)
      <4> HIDE DEF AnchorAt
      <4> QED BY <2>1, <3>0 DEF RecordOutput, NInv, FInv, IInv, StoreShape
    <3> QED BY <1>5, <1>8, <2>2, <3>1 DEF AnchorAt
  <2>3. CASE c.outpoint \notin FoundAt(h)
    <3>1. c \in Spoken /\ outputs'[c.outpoint] = outputs[c.outpoint]
      BY <1>3, <1>9, <1>11, <2>1, <2>3
    <3> QED BY <3>1 DEF NInv, ConfirmedThere
  <2> QED BY <2>2, <2>3
<1> QED BY <1>12, <1>13, <1>14, <1>16, <1>17, <1>18, <1>19 DEF NInv

\* A payment retracted is nowhere on the chain that is new, and in no row.
LEMMA SignSpeaks == ASSUME NInv, FInv', Sign PROVE NInv'
<1>1. PICK retracted : retracted = Retractions
  OBVIOUS
<1>0. PICK D \in SUBSET Deeper : Signing(D)
  BY SignSigns
<1>2. PICK deep : deep = {DeepClaim(o) : o \in D}
  OBVIOUS
<1>3. Scanning /\ round.phase = "scan" /\ round.next > round.ceiling
  BY SignSigns DEF NInv, FInv, IInv, RoundShape, NoRound, Beginning, Scanning, Publishing
<1>4. /\ round'.phase = "publish" /\ round'.claims = round.claims \cup retracted \cup deep
      /\ outputs' = MarkAll(D)
      /\ UNCHANGED <<chain, checkpoint, published, late>>
  BY <1>0, <1>1, <1>2, SignSigns DEF Signing, network, excused
<1>5. /\ round.tip.height = Len(chain) /\ checkpoint.height \in Nat /\ Len(chain) \in Nat
      /\ \A c \in round.claims : c.kind = "Confirmed" /\ c.as_of.height = Len(chain)
      /\ \A o \in round.orphans : o \in Outpoint
      /\ ClaimsIn(round) = round.claims
  BY <1>3, RecordHeights DEF NInv, RoundHeights, OrphansSought, ClaimsIn
<1>6. /\ ClaimsIn(round') = round.claims \cup retracted \cup deep
      /\ Spoken' = Spoken \cup retracted \cup deep
  BY <1>4, <1>5 DEF ClaimsIn, Spoken
<1>7. \A o \in Outpoint :
        outputs'[o].state = outputs[o].state /\ outputs'[o].block = outputs[o].block
  BY <1>4, MarkAllKeeps DEF RowsKept, NInv, FInv
<1>8. ASSUME NEW d \in retracted
      PROVE  /\ d.kind = "Retracted" /\ d.as_of.height = Len(chain) /\ d.outpoint \in Outpoint
             /\ d.outpoint \in round.orphans /\ ~ \E c \in round.claims : c.outpoint = d.outpoint
             /\ outputs[d.outpoint].state = "in_doubt"
  <2>1. PICK o \in round.orphans : /\ d = RetractedClaim(Self, o, round.tip)
                                   /\ ~ \E c \in round.claims : c.outpoint = o
    BY <1>1, <1>8 DEF Retractions
  <2>2. outputs[o].state = "in_doubt"
    BY <1>3, <2>1 DEF NInv, OrphansSought
  <2> QED BY <1>5, <2>1, <2>2 DEF RetractedClaim
<1>9. ASSUME NEW c \in deep
      PROVE  /\ c.kind = "Confirmed" /\ c.as_of.height = Len(chain) /\ c.outpoint \in Outpoint
             /\ outputs[c.outpoint].state = "in_block"
             /\ outputs[c.outpoint].block.height <= Len(chain)
             /\ c.outpoint \in chain[outputs[c.outpoint].block.height].pays
  <2>1. PICK o \in D : c = DeepClaim(o)
    BY <1>2, <1>9
  <2>2. /\ o \in Outpoint /\ outputs[o].state = "in_block"
        /\ o \in chain[outputs[o].block.height].pays
        /\ outputs[o].block.height <= Minus(round.tip.height, 1)
    BY DEF Deeper
  <2>3. outputs[o].block.height \in Nat
    BY <2>2 DEF NInv, FInv, IInv, StoreShape
  <2>4. outputs[o].block.height <= Len(chain)
    BY <1>5, <2>2, <2>3 DEF Minus
  <2> QED BY <1>5, <2>1, <2>2, <2>4 DEF DeepClaim, Confirmation, ConfirmedClaim
<1>10. SpokenHeights' /\ RoundHeights'
  <2>1. Len(chain) \in 1..Len(chain)
    BY RecordHeights DEF NInv
  <2>2. SpokenHeights'
    BY <1>4, <1>6, <1>8, <1>9, <2>1 DEF NInv, SpokenHeights
  <2> QED BY <1>4, <1>5, <1>6, <1>8, <1>9, <2>2 DEF RoundHeights
<1>11. SpokenFollows'
  BY <1>4 DEF SpokenFollows, FInv, PublishFollows
<1>12. ASSUME NEW d \in retracted, d.outpoint \notin late,
              NEW h \in (checkpoint.height + 1)..Len(chain)
       PROVE  d.outpoint \notin chain[h].pays
  <2>1. d.outpoint \in round.orphans /\ ~ \E c \in round.claims : c.outpoint = d.outpoint
    BY <1>8
  <2>2. /\ round.ceiling = Len(chain)
        /\ \A k \in (checkpoint.height + 1)..(round.next - 1) : d.outpoint \notin chain[k].pays
    BY <1>3, <1>12, <2>1 DEF NInv, OrphansSought
  <2>3. h \in (checkpoint.height + 1)..(round.next - 1)
    BY <1>3, <1>5, <2>2 DEF Scanning
  <2> QED BY <2>2, <2>3
<1>13. RetractedGone'
  <2> SUFFICES ASSUME NEW d \in Spoken \cup retracted, d.kind = "Retracted",
                      d.as_of.height = Len(chain), d.outpoint \notin late
               PROVE  /\ outputs'[d.outpoint].state # "in_block"
                      /\ \A h \in (checkpoint.height + 1)..Len(chain) :
                           d.outpoint \notin chain[h].pays
    BY <1>4, <1>6, <1>9 DEF RetractedGone
  <2>1. CASE d \in Spoken
    BY <1>7, <2>1 DEF NInv, RetractedGone, SpokenHeights
  <2>2. CASE d \in retracted
    BY <1>7, <1>8, <1>12, <2>2
  <2> QED BY <2>1, <2>2
<1>14. Consistent'
  <2> SUFFICES ASSUME NEW c \in Spoken \cup deep, NEW d \in Spoken \cup retracted,
                      c.kind = "Confirmed", d.kind = "Retracted", c.outpoint = d.outpoint,
                      c.outpoint \notin late
               PROVE  c.as_of.height # d.as_of.height
    BY <1>4, <1>6, <1>8, <1>9 DEF Consistent
  <2>1. CASE c \in Spoken /\ d \in Spoken
    BY <2>1 DEF NInv, Consistent
  <2>2. CASE c \in deep /\ d \in Spoken
    BY <1>9, <2>2 DEF NInv, RetractedGone
  <2>3. CASE c \in deep /\ d \in retracted
    BY <1>8, <1>9, <2>3
  <2>4. CASE c \in Spoken /\ d \in retracted
    <3>1. c \notin round.claims /\ d.outpoint \in round.orphans
      BY <1>8, <2>4
    <3>2. c \in published
      BY <1>5, <2>4, <3>1 DEF Spoken
    <3>3. ~Sighted(d.outpoint)
      BY <1>8, <1>12, <2>4 DEF Sighted
    <3>4. c.as_of.height # Len(chain)
      BY <1>3, <3>1, <3>2, <3>3 DEF NInv, OrphansSought
    <3> QED BY <1>8, <2>4, <3>4
  <2> QED BY <2>1, <2>2, <2>3, <2>4
<1>15. OrphansSought'
  BY <1>4 DEF OrphansSought
<1>16. ConfirmedThere'
  <2> SUFFICES ASSUME NEW c \in Spoken \cup deep, c.kind = "Confirmed",
                      c.as_of.height = Len(chain), outputs[c.outpoint].state = "in_block"
               PROVE  LET k == outputs[c.outpoint].block.height
                      IN  k <= Len(chain) /\ c.outpoint \in chain[k].pays
    BY <1>4, <1>6, <1>7, <1>8, <1>10 DEF ConfirmedThere, SpokenHeights
  <2>1. CASE c \in Spoken
    BY <2>1 DEF NInv, ConfirmedThere
  <2>2. CASE c \in deep
    BY <1>9, <2>2
  <2> QED BY <2>1, <2>2
<1> QED BY <1>10, <1>11, <1>13, <1>14, <1>15, <1>16 DEF NInv

\* No step contradicts what was said of the chain as it is.
LEMMA NextSpeaks == Steady /\ NInv /\ [Next]_vars => NInv'
<1> SUFFICES ASSUME Steady, NInv, [Next]_vars PROVE NInv'
  OBVIOUS
<1>1. FInv'
  BY NextFollows DEF NInv
<1>2. CASE Chain
  BY <1>1, <1>2, ChainSpeaks
<1>3. CASE NoReorg
  BY <1>1, <1>3, NoReorgSpeaks
<1>4. CASE HandleReorg
  BY <1>1, <1>4, HandleReorgSpeaks
<1>5. CASE ScanBlock
  BY <1>1, <1>5, ScanBlockSpeaks
<1>6. CASE Sign
  BY <1>1, <1>6, SignSpeaks
<1>7. CASE \/ TipUnreachable
           \/ \E s \in Script : Publish(s) \/ PublishRefused(s) \/ PublishUnreachable(s)
  BY <1>1, <1>7, PublishingSpeaks
<1>8. CASE FinishRound \/ Crash \/ CrashInSign \/ StartRound
  BY <1>1, <1>8, EndSpeaks
<1>9. CASE WatchList \/ UNCHANGED vars
  BY <1>1, <1>9, WatchSpeaks
<1>10. ~FirstRound /\ ~CrashInReorg
  BY Unreached DEF NInv
<1> QED BY <1>2, <1>3, <1>4, <1>5, <1>6, <1>7, <1>8, <1>9, <1>10 DEF Next, Step, Failure

\* At first nothing is said.
LEMMA InitSpeaks == Steady /\ Init => NInv
<1> SUFFICES ASSUME Steady, Init PROVE NInv
  OBVIOUS
<1>1. FInv
  BY InitFollows
<1>2. published = {} /\ round = NoRound
  BY DEF Init
<1>3. Spoken = {} /\ ClaimsIn(round) = {}
  BY <1>2 DEF Spoken, ClaimsIn, NoRound
<1> QED BY <1>1, <1>2, <1>3
        DEF NInv, SpokenHeights, RoundHeights, SpokenFollows, ConfirmedThere, RetractedGone,
            Consistent, OrphansSought, NoRound

\* The bridge never confirms and retracts one payment at one chain position, whatever
\* fails and however rounds are cut short: not in one round, where what was found
\* again is not retracted, nor in two, where one that speaks of a chain position at
\* all has followed the chain up to it (retraction_claims, scan_ceiling).
THEOREM NeverContradicts == Steady => (Spec => []NoContradiction)
<1> SUFFICES ASSUME Steady PROVE Spec => []NoContradiction
  OBVIOUS
<1>1. Init => NInv
  BY InitSpeaks
<1>2. NInv /\ [Next]_vars => NInv'
  BY NextSpeaks
<1>3. NInv => NoContradiction
  BY DEF NInv, Consistent, Spoken, NoContradiction
<1> QED BY <1>1, <1>2, <1>3, PTL DEF Spec

-----------------------------------------------------------------------------
(***************************************************************************)
(* What a reader finds.  When nothing fails, a row and the last claim      *)
(* about its payment say the same, and the row is right about the chain    *)
(* as far as the record agrees with it.  A failure breaks this for good:   *)
(* a round cut short after it noticed a reorganization has forgotten what  *)
(* it was to retract.                                                      *)
(***************************************************************************)

Smooth == Steady /\ Fault \subseteq {"unwatch"}

InBlock(o) == outputs[o].state = "in_block"

\* A payment is mined once.
PaidOnce ==
  \A g, h \in 1..Len(chain) : \A o \in chain[g].pays : o \in chain[h].pays => g = h

\* As far as g, a row's payment is in the row's block and nowhere else.
RowRight(o, g) ==
  /\ \A k \in 1..g : o \in chain[k].pays => k = outputs[o].block.height
  /\ outputs[o].block.height <= g =>
       /\ outputs[o].block = AnchorAt(outputs[o].block.height)
       /\ o \in chain[outputs[o].block.height].pays

RowsRight == \A o \in Outpoint, g \in Nat : InBlock(o) /\ Agreed(g) => RowRight(o, g)

DoubtsGone ==
  \A o \in Outpoint, g \in Nat : InDoubt(o) /\ Agreed(g) => \A k \in 1..g : o \notin chain[k].pays

\* How far the round has scanned, or the one before.
ScannedTo ==
  CASE round.phase = "scan"    -> round.next - 1
    [] round.phase = "publish" -> round.mark.height
    [] OTHER                   -> checkpoint.height

RowsBelow == \A o \in Outpoint : InBlock(o) => outputs[o].block.height <= ScannedTo

\* A round looks for what is in doubt, and has rows for what it found.
DoubtsSought ==
  /\ round.phase = "reorg" => \A o \in Outpoint : InDoubt(o) => ScriptOf(o) \in round.doubt
  /\ round.phase = "scan" =>
       /\ \A o \in Outpoint : InDoubt(o) => ScriptOf(o) \in round.scan
       /\ \A c \in round.claims : InBlock(c.outpoint)

\* A round's tip is the chain's.
TipNow == AnchorAt(Len(chain))

TipHeld == round.phase \in {"reorg", "scan"} => round.tip = TipNow

\* All of a round's claims are out, or still to be sent.
AllSent ==
  round.phase = "publish" =>
    ~round.unreachable /\ \A c \in round.claims : c \in published \/ ScriptOf(c.outpoint) \in round.todo

\* The rows and the chain.
RInv ==
  /\ NInv /\ PaidOnce /\ RowsRight /\ DoubtsGone /\ RowsBelow
  /\ DoubtsSought /\ TipHeld /\ AllSent

\* Nothing that happens is a failure.
LEMMA NothingFails == ASSUME Smooth PROVE ~Failure
BY DEF Smooth, Failure, Crash, CrashInReorg, CrashInSign, PublishRefused, PublishUnreachable, TipUnreachable,
       Happens

\* What is mined is not on the chain yet, and what a branch mines again not below it.
LEMMA ChainPaysOnce == ASSUME IInv, PaidOnce, Chain PROVE PaidOnce'
<1>1. Len(chain) \in Nat \ {0} /\ DOMAIN chain = 1..Len(chain) /\ forks \in Nat
  BY DEF IInv, ChainShape
<1>2. ASSUME NEW P \in SUBSET Outpoint, Mine(P) PROVE PaidOnce'
  <2> DEFINE block == [hash |-> forks, pays |-> P]
  <2>1. chain' = Append(chain, block) /\ P \cap PaidIn(chain) = {}
    BY <1>2 DEF Mine
  <2>2. /\ Len(chain') = Len(chain) + 1 /\ chain'[Len(chain) + 1] = block
        /\ \A h \in 1..Len(chain) : chain'[h] = chain[h]
    BY <1>1, <2>1 DEF IInv, ChainShape
  <2>3. block.pays = P
    OBVIOUS
  <2> HIDE DEF block
  <2>4. \A h \in 1..Len(chain) : \A o \in chain[h].pays : o \notin P
    BY <1>1, <2>1 DEF PaidIn
  <2>5. \A h \in 1..Len(chain') : h \in 1..Len(chain) \/ h = Len(chain) + 1
    BY <1>1, <2>2
  <2> QED BY <2>2, <2>3, <2>4, <2>5 DEF PaidOnce
<1>3. ASSUME NEW fork \in 1..MaxHeight, NEW place \in Placement, Reorganize(fork, place)
      PROVE  PaidOnce'
  <2> DEFINE kept   == SubSeq(chain, 1, fork)
             length == Len(chain) + 1 - fork
             branch == [i \in 1..length |->
                         [hash |-> forks + 1,
                          pays |-> {o \in Outpoint \ PaidIn(kept) : place[o] = fork + i}]]
  <2>1. chain' = kept \o branch /\ Len(chain) - fork \in 1..MaxReorgDepth
    BY <1>3 DEF Reorganize
  <2>2. /\ fork \in 1..Len(chain) /\ length \in Nat /\ fork \in Nat
        /\ fork + length = Len(chain) + 1
    <3>1. fork \in Int /\ fork >= 1
      OBVIOUS
    <3> QED BY <1>1, <2>1, <3>1, Constants
  <2>3. /\ kept \in Seq(BlockShape) /\ Len(kept) = fork /\ DOMAIN kept = 1..fork
        /\ \A h \in 1..fork : kept[h] = chain[h]
    BY <1>1, <2>2 DEF IInv, ChainShape
  <2>4. \A i \in 1..length : \A o \in branch[i].pays : o \notin PaidIn(kept) /\ place[o] = fork + i
    OBVIOUS
  <2>5. branch \in [1..length -> BlockShape]
    BY <1>1 DEF BlockShape
  <2>6. \A h \in 1..fork : \A o \in kept[h].pays : o \in PaidIn(kept)
    BY <2>3 DEF PaidIn
  <2> HIDE DEF kept, branch, length
  <2>7. branch \in Seq(BlockShape) /\ Len(branch) = length
    BY <2>2, <2>5
  <2>8. /\ Len(chain') = fork + length
        /\ \A h \in 1..fork : chain'[h] = chain[h] /\ chain'[h] = kept[h]
        /\ \A h \in (fork + 1)..(fork + length) : chain'[h] = branch[h - fork]
    <3>1. /\ Len(kept \o branch) = Len(kept) + Len(branch)
          /\ \A h \in 1..Len(kept) : (kept \o branch)[h] = kept[h]
          /\ \A h \in (Len(kept) + 1)..(Len(kept) + Len(branch)) :
               (kept \o branch)[h] = branch[h - Len(kept)]
      BY <2>3, <2>7
    <3> QED BY <2>1, <2>3, <2>7, <3>1
  <2>9. \A h \in (fork + 1)..(fork + length) : \A o \in chain'[h].pays :
          o \notin PaidIn(kept) /\ place[o] = h
    <3> SUFFICES ASSUME NEW h \in (fork + 1)..(fork + length), NEW o \in chain'[h].pays
                 PROVE  o \notin PaidIn(kept) /\ place[o] = h
      OBVIOUS
    <3>1. h - fork \in 1..length /\ fork + (h - fork) = h
      BY <2>2
    <3> QED BY <2>4, <2>8, <3>1
  <2>10. \A h \in 1..Len(chain') : h \in 1..fork \/ h \in (fork + 1)..(fork + length)
    BY <2>2, <2>8
  <2>11. 1..fork \subseteq 1..Len(chain)
    BY <1>1, <2>2
  <2> SUFFICES ASSUME NEW g \in 1..Len(chain'), NEW h \in 1..Len(chain'),
                      NEW o \in chain'[g].pays, o \in chain'[h].pays
               PROVE  g = h
    BY DEF PaidOnce
  <2>12. \A k \in 1..fork : o \in chain'[k].pays => o \in PaidIn(kept) /\ o \in chain[k].pays
    BY <2>6, <2>8
  <2>13. CASE g \in 1..fork /\ h \in 1..fork
    BY <2>11, <2>12, <2>13 DEF PaidOnce
  <2>14. CASE g \in (fork + 1)..(fork + length) /\ h \in (fork + 1)..(fork + length)
    BY <2>9, <2>14
  <2>15. ~(g \in 1..fork /\ h \in (fork + 1)..(fork + length))
         /\ ~(h \in 1..fork /\ g \in (fork + 1)..(fork + length))
    BY <2>9, <2>12
  <2> QED BY <2>10, <2>13, <2>14, <2>15
<1> QED BY <1>2, <1>3 DEF Chain

\* Rows are as right as they were while the chain keeps still and no more of it is
\* recorded.
LEMMA RowsStay ==
  ASSUME RInv, UNCHANGED chain, \A g \in Nat : Agreed(g)' => Agreed(g),
         \A o \in Outpoint : /\ outputs'[o].state = outputs[o].state
                             /\ outputs'[o].block = outputs[o].block
  PROVE  PaidOnce' /\ RowsRight' /\ DoubtsGone'
<1>1. PaidOnce'
  BY DEF RInv, PaidOnce
<1>2. RowsRight'
  BY DEF RInv, RowsRight, RowRight, InBlock, AnchorAt
<1>3. DoubtsGone'
  BY DEF RInv, DoubtsGone, InDoubt
<1> QED BY <1>1, <1>2, <1>3

\* They are right after the chain gave way, as far as the record still agrees.
LEMMA ChainKeepsRows == ASSUME Smooth, RInv, NInv', Chain PROVE RInv'
<1>1. PICK f \in Nat : GivesWay(f)
  BY ChainGivesWay DEF RInv, NInv, FInv, Smooth
<1>2. /\ round = NoRound /\ round' = NoRound
      /\ UNCHANGED <<checkpoint, seen, outputs, round, published, late>>
  BY ChainGivesWay DEF RInv, NInv, FInv, Smooth
<1>3. \A h : Agreed(h)' <=> Agreed(h) /\ h <= f
  BY <1>1, <1>2, AgreedAfter DEF RInv, NInv, FInv, RecordHolds
<1>4. PaidOnce'
  BY ChainPaysOnce DEF RInv, NInv, FInv
<1>5. ASSUME NEW g \in Nat, g <= f PROVE \A k \in 1..g : chain'[k] = chain[k]
  BY <1>1, <1>5 DEF GivesWay
<1>6. RowsRight'
  <2> SUFFICES ASSUME NEW o \in Outpoint, NEW g \in Nat, InBlock(o)', Agreed(g)'
               PROVE  RowRight(o, g)'
    BY DEF RowsRight
  <2>1. InBlock(o) /\ outputs'[o] = outputs[o] /\ Agreed(g) /\ g <= f
    BY <1>2, <1>3 DEF InBlock
  <2>2. RowRight(o, g) /\ \A k \in 1..g : chain'[k] = chain[k]
    BY <1>5, <2>1 DEF RInv, RowsRight
  <2>3. outputs[o].block.height \in Nat \ {0}
    BY <2>1 DEF InBlock, RInv, NInv, FInv, IInv, StoreShape
  <2>4. PICK b : b = outputs[o].block
    OBVIOUS
  <2>5. \A k \in 1..g : o \in chain'[k].pays => k = b.height
    BY <2>2, <2>4 DEF RowRight
  <2>6. ASSUME b.height <= g
        PROVE  b = [height |-> b.height, hash |-> chain'[b.height].hash] /\ o \in chain'[b.height].pays
    <3>1. b.height \in 1..g
      BY <2>3, <2>4, <2>6
    <3>2. chain'[b.height] = chain[b.height]
      BY <2>2, <3>1
    <3> QED BY <2>2, <2>4, <2>6, <3>2 DEF RowRight, AnchorAt
  <2> QED BY <2>1, <2>4, <2>5, <2>6 DEF RowRight, AnchorAt
<1>7. DoubtsGone'
  <2> SUFFICES ASSUME NEW o \in Outpoint, NEW g \in Nat, InDoubt(o)', Agreed(g)',
                      NEW k \in 1..g
               PROVE  o \notin chain'[k].pays
    BY DEF DoubtsGone
  <2>1. InDoubt(o) /\ Agreed(g) /\ g <= f
    BY <1>2, <1>3 DEF InDoubt
  <2> QED BY <1>5, <2>1 DEF RInv, DoubtsGone
<1>8. RowsBelow'
  BY <1>2 DEF RInv, RowsBelow, ScannedTo, InBlock, NoRound
<1> QED BY <1>2, <1>4, <1>6, <1>7, <1>8 DEF RInv, DoubtsSought, TipHeld, AllSent, NoRound

\* A round begins with what is in doubt in hand,
LEMMA StartKeepsRows == ASSUME RInv, NInv', StartRound PROVE RInv'
<1>1. /\ UNCHANGED <<chain, seen, checkpoint, outputs, published>> /\ round = NoRound
      /\ round'.phase = "reorg" /\ round'.tip = TipNow /\ round'.doubt = ScriptsInDoubt
  BY DEF StartRound, store, network, TipNow
<1>2. PaidOnce' /\ RowsRight' /\ DoubtsGone'
  BY <1>1, RowsStay DEF Agreed
<1>3. RowsBelow'
  BY <1>1 DEF RInv, RowsBelow, ScannedTo, InBlock, NoRound
<1>4. \A o \in Outpoint : InDoubt(o) => ScriptOf(o) \in ScriptsInDoubt
  BY DEF ScriptsInDoubt
<1> QED BY <1>1, <1>2, <1>3, <1>4 DEF RInv, DoubtsSought, TipHeld, AllSent, InDoubt, TipNow, AnchorAt

\* and looks for it, whether it finds no reorganization
LEMMA NoReorgKeepsRows == ASSUME RInv, NInv', NoReorg PROVE RInv'
<1>1. /\ UNCHANGED <<chain, seen, checkpoint, outputs, published>> /\ round.phase = "reorg"
      /\ round' = ScanFrom(checkpoint.height + 1, {})
  BY DEF NoReorg, store, network
<1>2. /\ round'.phase = "scan" /\ round'.next = checkpoint.height + 1 /\ round'.claims = {}
      /\ round'.tip = round.tip /\ round.doubt \subseteq round'.scan
  BY <1>1 DEF ScanFrom, ScanSet
<1>3. PaidOnce' /\ RowsRight' /\ DoubtsGone'
  BY <1>1, RowsStay DEF Agreed
<1>4. RowsBelow'
  <2>1. checkpoint.height \in Nat
    BY RecordHeights DEF RInv, NInv
  <2>2. ScannedTo = checkpoint.height
    BY <1>1 DEF ScannedTo
  <2>3. ScannedTo' = round'.next - 1
    BY <1>2 DEF ScannedTo
  <2>4. ScannedTo' = checkpoint.height
    BY <1>2, <2>1, <2>3
  <2> QED BY <1>1, <2>2, <2>4 DEF RInv, RowsBelow, InBlock
<1> QED BY <1>1, <1>2, <1>3, <1>4 DEF RInv, DoubtsSought, TipHeld, AllSent, InDoubt, TipNow, AnchorAt

\* or one: what it doubts anew is nowhere below the fork.
LEMMA HandleReorgKeepsRows == ASSUME RInv, NInv', HandleReorg PROVE RInv'
<1>0. PICK fork : fork = FindForkPoint(checkpoint.height)
  OBVIOUS
<1>1. /\ fork \in Nat /\ checkpoint'.height = fork /\ \A g \in Nat : Agreed(g)' <=> Agreed(g) /\ g <= fork
  BY <1>0, ForkKept, RecordHeights DEF RInv, NInv
<1>2. PICK orphans : orphans = {o \in Outpoint : Above(o, fork)}
  OBVIOUS
<1>3. /\ round' = ScanFrom(fork + 1, orphans) /\ round.phase = "reorg"
      /\ outputs' = UnconfirmAbove(fork) /\ UNCHANGED <<chain, published>>
  BY <1>0, <1>2 DEF HandleReorg, network
<1>4. /\ round'.phase = "scan" /\ round'.claims = {} /\ round'.tip = round.tip
      /\ round'.next = fork + 1 /\ round.doubt \subseteq round'.scan
      /\ \A o \in orphans : ScriptOf(o) \in round'.scan
  BY <1>3 DEF ScanFrom, ScanSet
<1>5. ASSUME NEW o \in Outpoint
      PROVE  IF o \in orphans
             THEN InBlock(o) /\ outputs[o].block.height > fork /\ outputs'[o].state = "in_doubt"
             ELSE outputs'[o] = outputs[o] /\ (InBlock(o) => outputs[o].block.height <= fork)
  <2>1. outputs'[o] = IF Above(o, fork) THEN [outputs[o] EXCEPT !.state = "in_doubt", !.deep = 0]
                                        ELSE outputs[o]
    BY <1>3 DEF UnconfirmAbove
  <2>2. outputs[o] \in [state : {"unseen", "in_block", "in_doubt"},
                        block : {outputs[o].block}, deep : {outputs[o].deep}]
    BY DEF RInv, NInv, FInv, IInv, StoreShape
  <2>3. InBlock(o) => outputs[o].block.height \in Nat
    BY DEF RInv, NInv, FInv, IInv, StoreShape, InBlock
  <2>4. CASE o \in orphans
    <3>1. Above(o, fork)
      BY <1>2, <2>4
    <3> QED BY <2>1, <2>2, <2>4, <3>1 DEF Above, InBlock
  <2>5. CASE o \notin orphans
    <3>1. ~Above(o, fork)
      BY <1>2, <2>5
    <3> QED BY <1>1, <2>1, <2>3, <2>5, <3>1 DEF Above, InBlock
  <2> QED BY <2>4, <2>5
<1>6. PaidOnce'
  BY <1>3 DEF RInv, PaidOnce
<1>7. RowsRight'
  <2> SUFFICES ASSUME NEW o \in Outpoint, NEW g \in Nat, InBlock(o)', Agreed(g)'
               PROVE  RowRight(o, g)'
    BY DEF RowsRight
  <2>1. InBlock(o) /\ outputs'[o] = outputs[o] /\ Agreed(g)
    BY <1>1, <1>5 DEF InBlock
  <2> QED BY <1>3, <2>1 DEF RInv, RowsRight, RowRight, AnchorAt
<1>8. DoubtsGone'
  <2> SUFFICES ASSUME NEW o \in Outpoint, NEW g \in Nat, InDoubt(o)', Agreed(g)',
                      NEW k \in 1..g
               PROVE  o \notin chain[k].pays
    BY <1>3 DEF DoubtsGone
  <2>1. Agreed(g) /\ g <= fork
    BY <1>1
  <2>2. CASE o \in orphans
    <3>1. InBlock(o) /\ outputs[o].block.height > fork /\ outputs[o].block.height \in Nat
      BY <1>5, <2>2 DEF InBlock, RInv, NInv, FInv, IInv, StoreShape
    <3>2. RowRight(o, g)
      BY <2>1, <3>1 DEF RInv, RowsRight
    <3>3. k < outputs[o].block.height
      BY <1>1, <2>1, <3>1
    <3> QED BY <3>1, <3>2, <3>3 DEF RowRight
  <2>3. CASE o \notin orphans
    BY <1>5, <2>1, <2>3 DEF InDoubt, RInv, DoubtsGone
  <2> QED BY <2>2, <2>3
<1>9. RowsBelow'
  <2>1. ScannedTo' = fork
    BY <1>1, <1>4 DEF ScannedTo
  <2> SUFFICES ASSUME NEW o \in Outpoint, InBlock(o)' PROVE outputs'[o].block.height <= fork
    BY <2>1 DEF RowsBelow
  <2> QED BY <1>5 DEF InBlock
<1>10. DoubtsSought'
  <2> SUFFICES ASSUME NEW o \in Outpoint, InDoubt(o)' PROVE ScriptOf(o) \in round'.scan
    BY <1>4 DEF DoubtsSought
  <2>1. CASE o \in orphans
    BY <1>4, <2>1
  <2>2. CASE o \notin orphans
    BY <1>3, <1>4, <1>5, <2>2 DEF InDoubt, RInv, DoubtsSought
  <2> QED BY <2>1, <2>2
<1>11. TipHeld' /\ AllSent'
  BY <1>3, <1>4 DEF RInv, TipHeld, AllSent, TipNow, AnchorAt
<1> QED BY <1>6, <1>7, <1>8, <1>9, <1>10, <1>11 DEF RInv

\* A block scanned moves the rows of what it pays, and clears what it does not.
LEMMA ScanBlockKeepsRows == ASSUME RInv, NInv', ScanBlock PROVE RInv'
<1>0. PICK h : h = round.next
  OBVIOUS
<1>1. PICK claims : claims = round.claims \cup {Confirmation(o, AnchorAt(h)) : o \in FoundAt(h)}
  OBVIOUS
<1>2. /\ seen' = [g \in DOMAIN seen \cup {h} |-> IF g = h THEN chain[h].hash ELSE seen[g]]
      /\ round' = [round EXCEPT !.next = h + 1, !.claims = claims, !.scanned = TRUE,
                                !.deferred = IF claims = {} THEN NoBlock ELSE AnchorAt(h)]
      /\ outputs' = [o \in Outpoint |->
                       IF o \in FoundAt(h) THEN RecordOutput(o, AnchorAt(h)) ELSE outputs[o]]
      /\ UNCHANGED <<chain, published, late>>
  BY <1>0, <1>1 DEF ScanBlock, network, excused, AnchorAt
<1>3. Scanning /\ round.phase = "scan" /\ h \in Nat \ {0} /\ h <= round.ceiling
  BY <1>0 DEF RInv, NInv, FInv, IInv, RoundShape, ScanBlock, NoRound, Beginning, Scanning,
              Publishing
<1>4. /\ h \in 1..Len(chain) /\ Len(chain) \in Nat /\ h - 1 \in Nat
      /\ Agreed(h - 1)
  <2>1. /\ h \in (checkpoint.height + 1)..(Len(chain) + 1) /\ Agreed(checkpoint.height)
        /\ AgreedTo(h - 1)
    BY <1>0, <1>3 DEF RInv, NInv, FInv, ScanFollows
  <2>2. checkpoint.height \in Nat /\ Len(chain) \in Nat
    BY RecordHeights DEF RInv, NInv
  <2>3. h - 1 = checkpoint.height \/ h - 1 \in (checkpoint.height + 1)..(h - 1)
    BY <2>1, <2>2
  <2>4. Agreed(h - 1)
    BY <2>1, <2>3 DEF AgreedTo
  <2> QED BY <1>3, <2>1, <2>2, <2>4 DEF Scanning, TipBelow
<1>5. /\ round'.phase = "scan" /\ round'.next = h + 1 /\ round'.claims = claims
      /\ round'.tip = round.tip /\ round'.scan = round.scan
  <2> HIDE DEF AnchorAt
  <2> QED BY <1>2, <1>3 DEF Scanning
<1>6. \A g \in Nat : Agreed(g)' <=> g = h \/ Agreed(g)
  BY <1>2, <1>4 DEF Agreed
<1>7. ASSUME NEW o \in Outpoint
      PROVE  IF o \in FoundAt(h)
             THEN InBlock(o)' /\ outputs'[o].block = AnchorAt(h) /\ o \in chain[h].pays
             ELSE outputs'[o] = outputs[o]
  <2>1. outputs[o] \in [state : {"unseen", "in_block", "in_doubt"},
                        block : {outputs[o].block}, deep : {outputs[o].deep}]
    BY DEF RInv, NInv, FInv, IInv, StoreShape
  <2>2. CASE o \in FoundAt(h)
    <3>1. outputs'[o] = [outputs[o] EXCEPT !.state = "in_block", !.block = AnchorAt(h)]
      BY <1>2, <2>2 DEF RecordOutput
    <3> QED BY <2>1, <2>2, <3>1 DEF InBlock, FoundAt
  <2>3. CASE o \notin FoundAt(h)
    BY <1>2, <2>3
  <2> QED BY <2>2, <2>3
<1>8. PaidOnce'
  BY <1>2 DEF RInv, PaidOnce
<1>9. \A g \in Nat : Agreed(g)' => g \in 1..Len(chain)
  BY <1>2 DEF Agreed
<1>10. \A o \in Outpoint : InBlock(o) => outputs[o].block.height \in Nat \ {0}
                                         /\ outputs[o].block.height <= h - 1
  BY <1>0, <1>3 DEF RInv, RowsBelow, ScannedTo, InBlock, NInv, FInv, IInv, StoreShape
<1>11. RowsRight'
  <2> SUFFICES ASSUME NEW o \in Outpoint, NEW g \in Nat, InBlock(o)', Agreed(g)'
               PROVE  /\ \A k \in 1..g : o \in chain[k].pays => k = outputs'[o].block.height
                      /\ outputs'[o].block.height <= g =>
                           /\ outputs'[o].block = AnchorAt(outputs'[o].block.height)
                           /\ o \in chain[outputs'[o].block.height].pays
    BY <1>2 DEF RowsRight, RowRight, AnchorAt
  <2>1. \A k \in 1..g : k \in 1..Len(chain)
    BY <1>4, <1>9
  <2>2. CASE o \in FoundAt(h)
    <3>1. outputs'[o].block = AnchorAt(h) /\ o \in chain[h].pays /\ AnchorAt(h).height = h
      BY <1>7, <2>2 DEF AnchorAt
    <3>2. \A k \in 1..g : o \in chain[k].pays => k = h
      BY <1>4, <2>1, <3>1 DEF RInv, PaidOnce
    <3> QED BY <3>1, <3>2
  <2>3. CASE o \notin FoundAt(h)
    <3>1. outputs'[o] = outputs[o] /\ InBlock(o)
      BY <1>7, <2>3 DEF InBlock
    <3>2. CASE Agreed(g)
      BY <3>1, <3>2 DEF RInv, RowsRight, RowRight
    <3>3. CASE g = h
      <4>1. RowRight(o, h - 1) /\ outputs[o].block.height <= h - 1
            /\ outputs[o].block.height \in Nat \ {0}
        BY <1>4, <1>10, <3>1 DEF RInv, RowsRight
      <4>2. /\ outputs[o].block = AnchorAt(outputs[o].block.height)
            /\ o \in chain[outputs[o].block.height].pays
        BY <4>1 DEF RowRight
      <4>3. outputs[o].block.height \in 1..Len(chain)
        BY <1>4, <4>1
      <4>4. \A k \in 1..g : o \in chain[k].pays => k = outputs[o].block.height
        BY <2>1, <4>2, <4>3 DEF RInv, PaidOnce
      <4> QED BY <3>1, <4>2, <4>4
    <3> QED BY <1>6, <3>2, <3>3
  <2> QED BY <2>2, <2>3
<1>12. DoubtsGone'
  <2> SUFFICES ASSUME NEW o \in Outpoint, NEW g \in Nat, InDoubt(o)', Agreed(g)',
                      NEW k \in 1..g
               PROVE  o \notin chain[k].pays
    BY <1>2 DEF DoubtsGone
  <2>1. o \notin FoundAt(h) /\ InDoubt(o)
    BY <1>7 DEF InDoubt, InBlock
  <2>2. CASE Agreed(g)
    BY <2>1, <2>2 DEF RInv, DoubtsGone
  <2>3. CASE g = h
    <3>1. o \notin chain[h].pays
      BY <1>3, <2>1 DEF FoundAt, Reported, RInv, DoubtsSought
    <3>2. k = h \/ k \in 1..(h - 1)
      BY <1>3, <2>3
    <3> QED BY <1>4, <2>1, <3>1, <3>2 DEF RInv, DoubtsGone
  <2> QED BY <1>6, <2>2, <2>3
<1>13. RowsBelow'
  <2> SUFFICES ASSUME NEW o \in Outpoint, InBlock(o)' PROVE outputs'[o].block.height <= h
    BY <1>3, <1>5 DEF RowsBelow, ScannedTo
  <2>1. CASE o \in FoundAt(h)
    BY <1>3, <1>7, <2>1 DEF AnchorAt
  <2>2. CASE o \notin FoundAt(h)
    <3>1. outputs'[o] = outputs[o] /\ InBlock(o)
      BY <1>7, <2>2 DEF InBlock
    <3> QED BY <1>3, <1>10, <3>1
  <2> QED BY <2>1, <2>2
<1>14. DoubtsSought'
  <2>1. \A o \in Outpoint : InDoubt(o)' => ScriptOf(o) \in round.scan
    BY <1>3, <1>7 DEF RInv, DoubtsSought, InDoubt, InBlock
  <2>2. ASSUME NEW c \in claims PROVE InBlock(c.outpoint)'
    <3>1. CASE c \in round.claims
      <4>1. InBlock(c.outpoint) /\ c.outpoint \in Outpoint
        <5>1. c \in Spoken
          BY <1>3, <3>1 DEF Spoken, ClaimsIn
        <5> QED BY <1>3, <3>1, <5>1 DEF RInv, DoubtsSought, NInv, SpokenHeights
      <4> QED BY <1>7, <4>1 DEF InBlock
    <3>2. CASE \E o \in FoundAt(h) : c = Confirmation(o, AnchorAt(h))
      <4>1. c.outpoint \in FoundAt(h)
        BY <3>2 DEF Confirmation, ConfirmedClaim
      <4>2. c.outpoint \in Outpoint
        BY <1>4, <4>1, PaysScripts DEF FoundAt, RInv, NInv, FInv
      <4> QED BY <1>7, <4>1, <4>2
    <3> QED BY <1>1, <3>1, <3>2
  <2> QED BY <1>5, <2>1, <2>2 DEF DoubtsSought
<1>15. TipHeld' /\ AllSent'
  BY <1>2, <1>3, <1>5 DEF RInv, TipHeld, AllSent, TipNow, AnchorAt
<1> QED BY <1>8, <1>11, <1>12, <1>13, <1>14, <1>15 DEF RInv

\* A round signs when it has scanned all it is to,
LEMMA SignKeepsRows == ASSUME RInv, NInv', Sign PROVE RInv'
<1>0. PICK D \in SUBSET Deeper : Signing(D)
  BY SignSigns
<1>1. PICK claims : claims = round.claims \cup Retractions \cup {DeepClaim(o) : o \in D}
  OBVIOUS
<1>2. /\ round' = [phase |-> "publish", claims |-> claims, watched |-> round.watched,
                   mark |-> ScannedAnchor, deferred |-> round.deferred,
                   scanned |-> round.scanned, unreachable |-> FALSE,
                   todo |-> round.watched \cup {ScriptOf(c.outpoint) : c \in claims}]
      /\ round.phase = "scan" /\ round.next > round.ceiling
      /\ outputs' = MarkAll(D)
      /\ seen' = PruneBlocks(BlocksKept)
      /\ UNCHANGED <<chain, checkpoint>>
  BY <1>0, <1>1, SignSigns DEF Signing
<1>3. \A o \in Outpoint :
        outputs'[o].state = outputs[o].state /\ outputs'[o].block = outputs[o].block
  BY <1>2, MarkAllKeeps DEF RowsKept, RInv, NInv, FInv
<1>4. \A g \in Nat : Agreed(g)' => Agreed(g)
  BY <1>2 DEF PruneBlocks, Agreed
<1>5. PaidOnce' /\ RowsRight' /\ DoubtsGone'
  BY <1>2, <1>3, <1>4, RowsStay
<1>6. RowsBelow'
  <2>1. /\ round.deferred = NoBlock => checkpoint.height = round.next - 1
        /\ round.deferred # NoBlock => round.deferred.height = round.next - 1
        /\ checkpoint # NoBlock
    BY <1>2, RecordHeights DEF RInv, NInv, FInv, ScanFollows, AnchorAt
  <2>2. ScannedAnchor.height = round.next - 1
    BY <2>1 DEF ScannedAnchor
  <2>3. ScannedTo = round.next - 1
    BY <1>2 DEF ScannedTo
  <2>4. ScannedTo' = round'.mark.height
    BY <1>2 DEF ScannedTo
  <2>5. ScannedTo' = ScannedTo
    BY <1>2, <2>2, <2>3, <2>4
  <2> QED BY <1>3, <2>5 DEF RInv, RowsBelow, InBlock
<1>7. AllSent'
  BY <1>2 DEF AllSent
<1> QED BY <1>2, <1>5, <1>6, <1>7 DEF RInv, DoubtsSought, TipHeld

\* sends every claim, script by script,
LEMMA PublishKeepsRows == ASSUME RInv, NInv', NEW s \in Script, Publish(s) PROVE RInv'
<1>1. /\ UNCHANGED <<chain, forks, checkpoint, seen, outputs>>
      /\ round.phase = "publish" /\ round'.phase = "publish" /\ round'.claims = round.claims
  BY PublishingFollows DEF RInv, NInv, FInv
<1>2. /\ round' = [round EXCEPT !.todo = @ \ {s}]
      /\ published' = published \cup Unpublished(s)
  BY DEF Publish, Arrives, MarkPublished
<1>3. Publishing
  BY <1>1 DEF RInv, NInv, FInv, IInv, RoundShape, NoRound, Beginning, Scanning, Publishing
<1>4. /\ round'.mark = round.mark /\ round'.unreachable = round.unreachable
      /\ round'.todo = round.todo \ {s}
  BY <1>2, <1>3 DEF Publishing
<1>5. PaidOnce' /\ RowsRight' /\ DoubtsGone'
  BY <1>1, RowsStay DEF Agreed
<1>6. RowsBelow'
  BY <1>1, <1>4 DEF RInv, RowsBelow, ScannedTo, InBlock
<1>7. AllSent'
  <2> SUFFICES ASSUME NEW c \in round.claims
               PROVE  c \in published' \/ ScriptOf(c.outpoint) \in round'.todo
    BY <1>1, <1>4 DEF RInv, AllSent
  <2>1. c \in published \/ ScriptOf(c.outpoint) \in round.todo
    BY <1>1 DEF RInv, AllSent
  <2>2. CASE ScriptOf(c.outpoint) = s
    BY <1>2, <2>2 DEF Unpublished, ClaimsOf
  <2>3. CASE ScriptOf(c.outpoint) # s
    BY <1>2, <1>4, <2>1, <2>3
  <2> QED BY <2>2, <2>3
<1> QED BY <1>1, <1>5, <1>6, <1>7 DEF RInv, DoubtsSought, TipHeld

\* and ends where it has scanned to, with all its claims out.
LEMMA FinishKeepsRows == ASSUME RInv, NInv', FinishRound PROVE RInv' /\ Spoken' = Spoken
<1>1. /\ UNCHANGED <<chain, seen, outputs, published>> /\ round' = NoRound
      /\ round.phase = "publish" /\ round.todo = {}
  BY DEF FinishRound, network
<1>2. ~HoldsBack /\ \A c \in round.claims : c \in published
  BY <1>1 DEF RInv, AllSent, HoldsBack
<1>3. checkpoint'.height = round.mark.height
  <2>1. round.mark = IF round.deferred # NoBlock THEN round.deferred ELSE checkpoint
    BY <1>1 DEF RInv, NInv, FInv, PublishFollows
  <2>2. checkpoint' = IF round.deferred = NoBlock THEN checkpoint ELSE round.deferred
    BY <1>2 DEF FinishRound
  <2> QED BY <2>1, <2>2
<1>4. PaidOnce' /\ RowsRight' /\ DoubtsGone'
  BY <1>1, RowsStay DEF Agreed
<1>5. RowsBelow'
  <2>1. ScannedTo = round.mark.height /\ ScannedTo' = checkpoint'.height
    BY <1>1 DEF ScannedTo, NoRound
  <2> QED BY <1>1, <1>3, <2>1 DEF RInv, RowsBelow, InBlock
<1>6. Spoken' = Spoken
  BY <1>1, <1>2 DEF Spoken, ClaimsIn, NoRound
<1> QED BY <1>1, <1>4, <1>5, <1>6 DEF RInv, DoubtsSought, TipHeld, AllSent, NoRound

\* Nothing else touches rows or rounds.
LEMMA WatchKeepsRows == ASSUME RInv, NInv', WatchList \/ UNCHANGED vars PROVE RInv'
<1>1. UNCHANGED <<chain, seen, checkpoint, outputs, published, round>>
  BY DEF WatchList, Watch, Unwatch, vars, store, network
<1>2. PaidOnce' /\ RowsRight' /\ DoubtsGone'
  BY <1>1, RowsStay DEF Agreed
<1>3. RowsBelow'
  <2>1. ScannedTo' = ScannedTo
    BY <1>1 DEF ScannedTo
  <2> QED BY <1>1, <2>1 DEF RInv, RowsBelow, InBlock
<1> QED BY <1>1, <1>2, <1>3 DEF RInv, DoubtsSought, TipHeld, AllSent, InDoubt, InBlock, TipNow, AnchorAt

-----------------------------------------------------------------------------

\* A claim of this bridge that is true of the chain as it is.
TrueNow(c) ==
  \/ c = RetractedClaim(Self, c.outpoint, TipNow)
  \/ \E k \in 1..Len(chain) :
       /\ c.outpoint \in chain[k].pays
       /\ c = ConfirmedClaim(Self, c.outpoint, 1, AnchorAt(k), TipNow, 0)

SpokenTrue == \A c \in Spoken : c.as_of.height = Len(chain) => TrueNow(c)

\* At one chain position the bridge says one thing of a payment.
OneVoice ==
  \A c, d \in Spoken :
    c.outpoint = d.outpoint /\ c.outpoint \notin late /\ c.as_of.height = d.as_of.height => c = d

\* What it said last of a payment.
Latest(o) ==
  {c \in About(Spoken, o) : \A d \in About(Spoken, o) : d.as_of.height <= c.as_of.height}

ToRetract(o) == round.phase = "scan" /\ o \in round.orphans

\* A row says what the bridge said last.
RowSpeaks(o) ==
  /\ outputs[o].state = "unseen" => About(Spoken, o) = {}
  /\ InBlock(o) => \A c \in Latest(o) : c.kind = "Confirmed" /\ c.anchor = outputs[o].block
  /\ InDoubt(o) => ToRetract(o) \/ \A c \in Latest(o) : c.kind = "Retracted"

\* The inductive invariant.
SInv ==
  /\ RInv /\ Spoken \subseteq ClaimShape /\ SpokenTrue /\ OneVoice
  /\ \A o \in Outpoint \ late : RowSpeaks(o)

\* What is true has the shape of a claim.
LEMMA TrueHasShape ==
  ASSUME IInv, NEW c, TrueNow(c), c.outpoint \in Outpoint
  PROVE  c \in ClaimShape /\ c.as_of.height = Len(chain)
<1>1. \A k \in 1..Len(chain) : AnchorAt(k) \in Anchor
  <2> SUFFICES ASSUME NEW k \in 1..Len(chain) PROVE AnchorAt(k) \in Anchor
    OBVIOUS
  <2>1. chain[k] \in BlockShape /\ k \in Nat
    BY DEF IInv, ChainShape
  <2> QED BY <2>1 DEF AnchorAt, Anchor, BlockShape
<1>2. TipNow \in Anchor /\ TipNow.height = Len(chain)
  <2>1. Len(chain) \in 1..Len(chain)
    BY DEF IInv, ChainShape
  <2> QED BY <1>1, <2>1 DEF TipNow, AnchorAt
<1>3. Self \in Bridge /\ NoAnchor \in Anchor
  BY ObserverAssumption DEF NoAnchor, Anchor
<1>4. CASE c = RetractedClaim(Self, c.outpoint, TipNow)
  <2> DEFINE o == c.outpoint
  <2>1. c = [bridge |-> Self, kind |-> "Retracted", outpoint |-> o, sats |-> 0,
             anchor |-> NoAnchor, as_of |-> TipNow, proof |-> 0]
    BY <1>4 DEF RetractedClaim
  <2>2. o \in Outpoint
    OBVIOUS
  <2> HIDE DEF o
  <2> QED BY <1>2, <1>3, <2>1, <2>2 DEF ClaimShape
<1>5. CASE \E k \in 1..Len(chain) : c = ConfirmedClaim(Self, c.outpoint, 1, AnchorAt(k), TipNow, 0)
  <2> DEFINE o == c.outpoint
  <2>1. PICK a \in Anchor :
          c = [bridge |-> Self, kind |-> "Confirmed", outpoint |-> o, sats |-> 1,
               anchor |-> a, as_of |-> TipNow, proof |-> 0]
    BY <1>1, <1>5 DEF ConfirmedClaim
  <2>2. o \in Outpoint
    OBVIOUS
  <2> HIDE DEF o
  <2> QED BY <1>2, <1>3, <2>1, <2>2 DEF ClaimShape
<1> QED BY <1>4, <1>5 DEF TrueNow

\* New claims that are true keep the bridge to one voice.
LEMMA VoiceStays ==
  ASSUME SInv, RInv', UNCHANGED chain, late \subseteq late',
         \A c \in Spoken' : c \in Spoken \/ (TrueNow(c) /\ c.outpoint \in Outpoint)
  PROVE  (Spoken \subseteq ClaimShape)' /\ SpokenTrue' /\ OneVoice'
<1>1. IInv /\ \A c \in Spoken' : c \in Spoken \/ (TrueNow(c) /\ c.as_of.height = Len(chain) /\ c \in ClaimShape)
  BY TrueHasShape DEF SInv, RInv, NInv, FInv
<1>2. Spoken' \subseteq ClaimShape
  BY <1>1 DEF SInv
<1>3. \A c \in Spoken' : c.as_of.height = Len(chain) => TrueNow(c)
  BY <1>1 DEF SInv, SpokenTrue
<1>4. \A c : TrueNow(c)' <=> TrueNow(c)
  BY DEF TrueNow, TipNow, AnchorAt
<1>5. SpokenTrue'
  BY <1>3, <1>4 DEF SpokenTrue
<1>6. OneVoice'
  <2> SUFFICES ASSUME NEW c \in Spoken', NEW d \in Spoken', c.outpoint = d.outpoint,
                      c.outpoint \notin late', c.as_of.height = d.as_of.height
               PROVE  c = d
    BY DEF OneVoice
  <2>1. CASE c.as_of.height # Len(chain)
    BY <1>1, <2>1 DEF SInv, OneVoice
  <2>2. CASE c.as_of.height = Len(chain)
    <3>1. TrueNow(c) /\ TrueNow(d)
      BY <1>3, <2>2
    <3>2. /\ c.kind = "Confirmed" => d.kind # "Retracted"
          /\ d.kind = "Confirmed" => c.kind # "Retracted"
      BY DEF RInv, NInv, Consistent
    <3>3. \A e : e = RetractedClaim(Self, e.outpoint, TipNow) => e.kind = "Retracted"
      BY DEF RetractedClaim
    <3>4. \A e, a : e = ConfirmedClaim(Self, e.outpoint, 1, a, TipNow, 0) => e.kind = "Confirmed"
      BY DEF ConfirmedClaim
    <3>5. CASE c = RetractedClaim(Self, c.outpoint, TipNow)
      BY <3>1, <3>2, <3>3, <3>4, <3>5 DEF TrueNow
    <3>6. ASSUME NEW k \in 1..Len(chain), c.outpoint \in chain[k].pays,
                 c = ConfirmedClaim(Self, c.outpoint, 1, AnchorAt(k), TipNow, 0)
          PROVE  c = d
      <4>1. PICK l \in 1..Len(chain) :
              /\ d.outpoint \in chain[l].pays
              /\ d = ConfirmedClaim(Self, d.outpoint, 1, AnchorAt(l), TipNow, 0)
        BY <3>1, <3>2, <3>3, <3>4, <3>6 DEF TrueNow
      <4>2. k = l
        BY <3>6, <4>1 DEF SInv, RInv, PaidOnce
      <4> QED BY <3>6, <4>1, <4>2
    <3> QED BY <3>1, <3>5, <3>6 DEF TrueNow
  <2> QED BY <2>1, <2>2
<1> QED BY <1>2, <1>5, <1>6

\* A claim of now is the last about its payment,
LEMMA LatestNew ==
  ASSUME RInv', OneVoice', UNCHANGED chain, NEW o, o \notin late',
         NEW new \in Spoken', new.outpoint = o, new.as_of.height = Len(chain)
  PROVE  \A c \in Latest(o)' : c = new
<1> SUFFICES ASSUME NEW c \in Latest(o)' PROVE c = new
  OBVIOUS
<1>1. c \in Spoken' /\ c.outpoint = o /\ new.as_of.height <= c.as_of.height
  BY DEF Latest, About
<1>2. c.as_of.height \in 1..Len(chain) /\ Len(chain) \in Nat
  BY <1>1 DEF RInv, NInv, SpokenHeights, FInv, IInv, ChainShape
<1>3. c.as_of.height = new.as_of.height
  BY <1>1, <1>2
<1> QED BY <1>1, <1>3 DEF OneVoice

\* and where there is none the last stays what it was.
LEMMA LatestSame ==
  ASSUME Spoken \subseteq Spoken', NEW o, \A c \in Spoken' : c.outpoint = o => c \in Spoken
  PROVE  Latest(o)' = Latest(o) /\ About(Spoken, o)' = About(Spoken, o)
BY DEF Latest, About

\* Where nothing is said and no row changes, rows say what they said.
LEMMA SpeakersStay ==
  ASSUME SInv, RInv', UNCHANGED <<chain, outputs, late>>, Spoken' = Spoken,
         \A o : ToRetract(o) => ToRetract(o)'
  PROVE  SInv'
<1>1. (Spoken \subseteq ClaimShape)' /\ SpokenTrue' /\ OneVoice'
  BY VoiceStays
<1>2. \A o : Latest(o)' = Latest(o)
  BY DEF Latest
<1>3. ASSUME NEW o \in Outpoint \ late PROVE RowSpeaks(o)'
  BY <1>2 DEF SInv, RowSpeaks, InBlock, InDoubt
<1> QED BY <1>1, <1>3 DEF SInv

\* Longer chains make what was said old.
LEMMA ChainSays == ASSUME Smooth, SInv, RInv', Chain PROVE SInv'
<1>1. PICK f \in Nat : GivesWay(f)
  BY ChainGivesWay DEF SInv, RInv, NInv, FInv, Smooth
<1>2. round = NoRound /\ round' = NoRound /\ UNCHANGED <<outputs, published, late>>
  BY ChainGivesWay DEF SInv, RInv, NInv, FInv, Smooth
<1>3. Spoken' = Spoken
  BY <1>2 DEF Spoken, ClaimsIn
<1>4. \A c \in Spoken : c.as_of.height # Len(chain')
  <2> SUFFICES ASSUME NEW c \in Spoken PROVE c.as_of.height # Len(chain')
    OBVIOUS
  <2>1. c.as_of.height \in 1..Len(chain)
    BY DEF SInv, RInv, NInv, SpokenHeights
  <2> QED BY <1>1, <2>1 DEF GivesWay
<1>5. SpokenTrue' /\ OneVoice'
  BY <1>2, <1>3, <1>4 DEF SInv, SpokenTrue, OneVoice
<1>6. \A o : Latest(o)' = Latest(o)
  BY <1>3 DEF Latest
<1>7. ASSUME NEW o \in Outpoint \ late PROVE RowSpeaks(o)'
  BY <1>2, <1>3, <1>6 DEF SInv, RowSpeaks, InBlock, InDoubt, ToRetract, NoRound
<1> QED BY <1>2, <1>3, <1>5, <1>7 DEF SInv

\* A row in doubt is to be retracted.
LEMMA HandleReorgSays == ASSUME SInv, RInv', HandleReorg PROVE SInv'
<1>0. PICK fork : fork = FindForkPoint(checkpoint.height)
  OBVIOUS
<1>1. PICK orphans : orphans = {o \in Outpoint : Above(o, fork)}
  OBVIOUS
<1>2. /\ round' = ScanFrom(fork + 1, orphans) /\ round.phase = "reorg"
      /\ outputs' = UnconfirmAbove(fork) /\ UNCHANGED <<chain, published>> /\ late \subseteq late'
  BY <1>0, <1>1 DEF HandleReorg, network
<1>3. round'.phase = "scan" /\ round'.claims = {} /\ round'.orphans = orphans
  BY <1>2 DEF ScanFrom
<1>4. Spoken' = Spoken
  BY <1>2, <1>3 DEF Spoken, ClaimsIn
<1>5. (Spoken \subseteq ClaimShape)' /\ SpokenTrue' /\ OneVoice'
  BY <1>2, <1>4, VoiceStays
<1>6. \A o : Latest(o)' = Latest(o)
  BY <1>4 DEF Latest
<1>7. ASSUME NEW o \in Outpoint \ late' PROVE RowSpeaks(o)'
  <2>1. RowSpeaks(o) /\ ~ToRetract(o)
    BY <1>2 DEF SInv, ToRetract
  <2>2. CASE o \in orphans
    <3>1. Above(o, fork)
      BY <1>1, <2>2
    <3>2. outputs'[o] = [outputs[o] EXCEPT !.state = "in_doubt", !.deep = 0]
      BY <1>2, <3>1 DEF UnconfirmAbove
    <3>3. outputs'[o].state = "in_doubt"
      BY <3>2 DEF SInv, RInv, NInv, FInv, IInv, StoreShape
    <3>4. ToRetract(o)'
      BY <1>3, <2>2 DEF ToRetract
    <3> QED BY <3>3, <3>4 DEF RowSpeaks, InBlock
  <2>3. CASE o \notin orphans
    <3>1. outputs'[o] = outputs[o]
      BY <1>1, <1>2, <2>3 DEF UnconfirmAbove
    <3> QED BY <1>4, <1>6, <2>1, <3>1 DEF RowSpeaks, InBlock, InDoubt
  <2> QED BY <2>2, <2>3
<1> QED BY <1>5, <1>7 DEF SInv

\* What a block pays is confirmed in it, and its row moves there.
LEMMA ScanBlockSays == ASSUME SInv, RInv', ScanBlock PROVE SInv'
<1>0. PICK h : h = round.next
  OBVIOUS
<1>1. PICK new : new = {Confirmation(o, AnchorAt(h)) : o \in FoundAt(h)}
  OBVIOUS
<1>2. /\ round' = [round EXCEPT !.next = h + 1, !.claims = round.claims \cup new,
                                !.scanned = TRUE,
                                !.deferred = IF round.claims \cup new = {} THEN NoBlock
                                             ELSE AnchorAt(h)]
      /\ outputs' = [o \in Outpoint |->
                       IF o \in FoundAt(h) THEN RecordOutput(o, AnchorAt(h)) ELSE outputs[o]]
      /\ UNCHANGED <<chain, published, late>>
  BY <1>0, <1>1 DEF ScanBlock, network, excused
<1>3. Scanning /\ round.phase = "scan" /\ h \in Nat \ {0} /\ h <= round.ceiling
  BY <1>0 DEF SInv, RInv, NInv, FInv, IInv, RoundShape, ScanBlock, NoRound, Beginning, Scanning,
              Publishing
<1>4. h \in 1..Len(chain) /\ Len(chain) \in Nat
  BY <1>3 DEF Scanning, TipBelow, SInv, RInv, NInv, FInv, IInv, ChainShape
<1>5. /\ round'.phase = "scan" /\ round'.claims = round.claims \cup new
      /\ round'.orphans = round.orphans
  <2> HIDE DEF AnchorAt
  <2> QED BY <1>2, <1>3 DEF Scanning
<1>6. Spoken' = Spoken \cup new
  <2>1. Spoken = published \cup round.claims
    BY <1>3 DEF Spoken, ClaimsIn
  <2>2. Spoken' = published \cup round'.claims
    BY <1>2, <1>5 DEF Spoken, ClaimsIn
  <2> QED BY <1>5, <2>1, <2>2
<1>7. ASSUME NEW o \in FoundAt(h)
      PROVE  LET c == Confirmation(o, AnchorAt(h))
             IN  /\ c \in new /\ c.outpoint = o /\ o \in Outpoint /\ TrueNow(c)
                 /\ c.kind = "Confirmed" /\ c.anchor = AnchorAt(h) /\ c.as_of.height = Len(chain)
  <2> DEFINE c == Confirmation(o, AnchorAt(h))
  <2>1. /\ c.outpoint = o /\ c.kind = "Confirmed" /\ c.anchor = AnchorAt(h)
        /\ c = ConfirmedClaim(Self, o, 1, AnchorAt(h), round.tip, 0)
    BY DEF Confirmation, ConfirmedClaim
  <2>2. round.tip = TipNow
    BY <1>3 DEF SInv, RInv, TipHeld
  <2>3. o \in chain[h].pays /\ o \in Outpoint
    BY <1>4, PaysScripts DEF FoundAt, SInv, RInv, NInv, FInv
  <2>4. TrueNow(c)
    BY <1>4, <2>1, <2>2, <2>3 DEF TrueNow
  <2>5. c.as_of.height = Len(chain)
    BY <2>1, <2>3, <2>4, TrueHasShape DEF SInv, RInv, NInv, FInv
  <2> QED BY <1>1, <2>1, <2>3, <2>4, <2>5
<1>8. ASSUME NEW c \in new
      PROVE  c.outpoint \in FoundAt(h) /\ c.outpoint \in Outpoint /\ TrueNow(c)
  <2>1. PICK o \in FoundAt(h) : c = Confirmation(o, AnchorAt(h))
    BY <1>1
  <2> QED BY <1>7, <2>1
<1>9. (Spoken \subseteq ClaimShape)' /\ SpokenTrue' /\ OneVoice'
  BY <1>2, <1>6, <1>8, VoiceStays
<1>10. ASSUME NEW o \in Outpoint \ late' PROVE RowSpeaks(o)'
  <2>1. CASE o \in FoundAt(h)
    <3>1. PICK c : c = Confirmation(o, AnchorAt(h))
      OBVIOUS
    <3>2. /\ c \in Spoken' /\ c.outpoint = o /\ c.kind = "Confirmed"
          /\ c.anchor = AnchorAt(h) /\ c.as_of.height = Len(chain)
      BY <1>6, <1>7, <2>1, <3>1
    <3>3. \A d \in Latest(o)' : d = c
      BY <1>2, <1>9, <3>2, LatestNew
    <3>4. outputs'[o].state = "in_block" /\ outputs'[o].block = AnchorAt(h)
      <4>1. outputs'[o] = [outputs[o] EXCEPT !.state = "in_block", !.block = AnchorAt(h)]
        BY <1>2, <2>1 DEF RecordOutput
      <4>2. outputs[o] \in [state : {"unseen", "in_block", "in_doubt"},
                            block : {outputs[o].block}, deep : {outputs[o].deep}]
        BY DEF SInv, RInv, NInv, FInv, IInv, StoreShape
      <4> HIDE DEF AnchorAt
      <4> QED BY <4>1, <4>2
    <3> QED BY <3>2, <3>3, <3>4 DEF RowSpeaks, InDoubt
  <2>2. CASE o \notin FoundAt(h)
    <3>1. outputs'[o] = outputs[o]
      BY <1>2, <2>2
    <3>2. Latest(o)' = Latest(o) /\ About(Spoken, o)' = About(Spoken, o)
      BY <1>6, <1>8, <2>2, LatestSame
    <3>3. RowSpeaks(o) /\ (ToRetract(o)' <=> ToRetract(o))
      BY <1>2, <1>3, <1>5 DEF SInv, ToRetract
    <3> QED BY <3>1, <3>2, <3>3 DEF RowSpeaks, InBlock, InDoubt
  <2> QED BY <2>1, <2>2
<1> QED BY <1>9, <1>10 DEF SInv

\* A round that signs confirms again what is deeper, where the row says it is, and
\* retracts what it looked for and did not find.
LEMMA SignSays == ASSUME SInv, RInv', Sign PROVE SInv'
<1>1. PICK retracted : retracted = Retractions
  OBVIOUS
<1>0. PICK D \in SUBSET Deeper : Signing(D)
  BY SignSigns
<1>2. PICK deep : deep = {DeepClaim(o) : o \in D}
  OBVIOUS
<1>3. /\ round'.phase = "publish" /\ round'.claims = round.claims \cup retracted \cup deep
      /\ outputs' = MarkAll(D)
      /\ round.phase = "scan" /\ round.next > round.ceiling
      /\ UNCHANGED <<chain, published, late>>
  BY <1>0, <1>1, <1>2, SignSigns DEF Signing, network, excused
<1>4. Spoken' = Spoken \cup retracted \cup deep
  <2>1. Spoken = published \cup round.claims
    BY <1>3 DEF Spoken, ClaimsIn
  <2>2. Spoken' = published \cup round'.claims
    BY <1>3 DEF Spoken, ClaimsIn
  <2> QED BY <1>3, <2>1, <2>2
<1>5. round.tip = TipNow /\ Scanning
  BY <1>3 DEF SInv, RInv, TipHeld, NInv, FInv, IInv, RoundShape, NoRound, Beginning, Publishing,
              Scanning
<1>6. \A o \in Outpoint :
        outputs'[o].state = outputs[o].state /\ outputs'[o].block = outputs[o].block
  BY <1>3, MarkAllKeeps DEF RowsKept, SInv, RInv, NInv, FInv
<1>7. ASSUME NEW o \in D
      PROVE  LET c == DeepClaim(o)
             IN  /\ c \in deep /\ c.outpoint = o /\ o \in Outpoint /\ TrueNow(c)
                 /\ c.kind = "Confirmed" /\ c.anchor = outputs[o].block
                 /\ c.as_of.height = Len(chain) /\ InBlock(o)
  <2> DEFINE c == DeepClaim(o)
  <2>1. PICK h : h = outputs[o].block.height
    OBVIOUS
  <2>2. o \in Outpoint /\ InBlock(o) /\ o \in chain[h].pays
    BY <2>1 DEF Deeper, InBlock
  <2>3. /\ c.outpoint = o /\ c.kind = "Confirmed" /\ c.anchor = AnchorAt(h)
        /\ c = ConfirmedClaim(Self, o, 1, AnchorAt(h), TipNow, 0)
    BY <1>5, <2>1 DEF DeepClaim, Confirmation, ConfirmedClaim
  <2>4. PICK g \in Nat : Agreed(g) /\ h <= g /\ g <= Len(chain) /\ h \in Nat \ {0}
    <3>1. /\ Agreed(checkpoint.height) /\ AgreedTo(round.next - 1)
          /\ round.next \in (checkpoint.height + 1)..(Len(chain) + 1)
      BY <1>3 DEF SInv, RInv, NInv, FInv, ScanFollows
    <3>2. checkpoint.height \in Nat /\ Len(chain) \in Nat
      BY RecordHeights DEF SInv, RInv, NInv
    <3>3. round.next - 1 \in Nat /\ round.next - 1 <= Len(chain)
          /\ (round.next - 1 = checkpoint.height
              \/ round.next - 1 \in (checkpoint.height + 1)..(round.next - 1))
      BY <3>1, <3>2
    <3>4. Agreed(round.next - 1)
      BY <3>1, <3>3 DEF AgreedTo
    <3>5. h <= round.next - 1 /\ h \in Nat \ {0}
      BY <1>3, <2>1, <2>2 DEF SInv, RInv, RowsBelow, ScannedTo, InBlock, NInv, FInv, IInv, StoreShape
    <3> QED BY <3>3, <3>4, <3>5
  <2>5. RowRight(o, g)
    BY <2>2, <2>4 DEF SInv, RInv, RowsRight
  <2>6. outputs[o].block = AnchorAt(h)
    BY <2>1, <2>4, <2>5 DEF RowRight
  <2>7. h \in 1..Len(chain)
    BY <2>4 DEF SInv, RInv, NInv, FInv, IInv, ChainShape
  <2>8. TrueNow(c)
    BY <2>2, <2>3, <2>7 DEF TrueNow
  <2>9. c.as_of.height = Len(chain)
    BY <2>2, <2>3, <2>8, TrueHasShape DEF SInv, RInv, NInv, FInv
  <2> QED BY <1>2, <2>2, <2>3, <2>6, <2>8, <2>9
<1>8. ASSUME NEW o \in round.orphans, \A c \in round.claims : c.outpoint # o
      PROVE  LET c == RetractedClaim(Self, o, round.tip)
             IN  /\ c \in retracted /\ c.outpoint = o /\ o \in Outpoint /\ TrueNow(c)
                 /\ c.kind = "Retracted" /\ c.as_of.height = Len(chain) /\ InDoubt(o)
  <2> DEFINE c == RetractedClaim(Self, o, round.tip)
  <2>1. o \in Outpoint /\ InDoubt(o)
    BY <1>3, <1>8 DEF SInv, RInv, NInv, OrphansSought, InDoubt
  <2>2. c.outpoint = o /\ c.kind = "Retracted"
    BY DEF RetractedClaim
  <2>3. TrueNow(c)
    BY <1>5, <2>2 DEF TrueNow
  <2>4. c.as_of.height = Len(chain)
    BY <2>1, <2>2, <2>3, TrueHasShape DEF SInv, RInv, NInv, FInv
  <2>5. c \in retracted
    BY <1>1, <1>8 DEF Retractions
  <2> QED BY <2>1, <2>2, <2>3, <2>4, <2>5
<1>9. ASSUME NEW c \in retracted \cup deep
      PROVE  /\ TrueNow(c) /\ c.outpoint \in Outpoint
             /\ \/ c.outpoint \in D
                \/ c.outpoint \in round.orphans /\ \A d \in round.claims : d.outpoint # c.outpoint
  <2>1. CASE c \in deep
    BY <1>2, <1>7, <2>1
  <2>2. CASE c \in retracted
    <3>1. PICK o \in round.orphans : c = RetractedClaim(Self, o, round.tip)
                                     /\ \A d \in round.claims : d.outpoint # o
      BY <1>1, <2>2 DEF Retractions
    <3> QED BY <1>8, <3>1
  <2> QED BY <2>1, <2>2
<1>10. (Spoken \subseteq ClaimShape)' /\ SpokenTrue' /\ OneVoice'
  BY <1>3, <1>4, <1>9, VoiceStays
<1>11. ASSUME NEW o \in Outpoint \ late' PROVE RowSpeaks(o)'
  <2>1. CASE o \in D
    <3>1. PICK c : c = DeepClaim(o)
      OBVIOUS
    <3>2. /\ c \in Spoken' /\ c.outpoint = o /\ c.kind = "Confirmed" /\ InBlock(o)
          /\ c.anchor = outputs[o].block /\ c.as_of.height = Len(chain)
      BY <1>4, <1>7, <2>1, <3>1
    <3>3. \A d \in Latest(o)' : d = c
      BY <1>3, <1>10, <3>2, LatestNew
    <3> QED BY <1>6, <3>2, <3>3 DEF RowSpeaks, InBlock, InDoubt
  <2>2. CASE o \in round.orphans /\ \A c \in round.claims : c.outpoint # o
    <3>1. PICK c : c = RetractedClaim(Self, o, round.tip)
      OBVIOUS
    <3>2. /\ c \in Spoken' /\ c.outpoint = o /\ c.kind = "Retracted"
          /\ c.as_of.height = Len(chain) /\ InDoubt(o)
      BY <1>4, <1>8, <2>2, <3>1
    <3>3. \A d \in Latest(o)' : d = c
      BY <1>3, <1>10, <3>2, LatestNew
    <3> QED BY <1>6, <3>2, <3>3 DEF RowSpeaks, InBlock, InDoubt
  <2>3. CASE o \notin D /\ ~(o \in round.orphans /\ \A c \in round.claims : c.outpoint # o)
    <3>1. Latest(o)' = Latest(o) /\ About(Spoken, o)' = About(Spoken, o)
      BY <1>4, <1>9, <2>3, LatestSame
    <3>2. RowSpeaks(o)
      BY <1>3 DEF SInv
    <3>3. InDoubt(o) => ~ToRetract(o)
      BY <1>3, <2>3 DEF SInv, RInv, DoubtsSought, InBlock, InDoubt, ToRetract
    <3> QED BY <1>6, <3>1, <3>2, <3>3 DEF RowSpeaks, InBlock, InDoubt
  <2> QED BY <2>1, <2>2, <2>3
<1> QED BY <1>10, <1>11 DEF SInv

\* Publishing sends what the round has said.
LEMMA PublishSays == ASSUME SInv, RInv', NEW s \in Script, Publish(s) PROVE SInv'
<1>1. /\ UNCHANGED <<chain, outputs, late>>
      /\ round.phase = "publish" /\ round'.phase = "publish" /\ round'.claims = round.claims
  BY PublishingFollows DEF SInv, RInv, NInv, FInv, Publish, excused
<1>2. published' = published \cup Unpublished(s) /\ Unpublished(s) \subseteq round.claims
  BY DEF Publish, Arrives, MarkPublished, Unpublished, ClaimsOf
<1>3. Spoken' = Spoken
  BY <1>1, <1>2 DEF Spoken, ClaimsIn
<1> QED BY <1>1, <1>3, SpeakersStay DEF ToRetract

\* The other steps say nothing.
LEMMA OthersSay ==
  ASSUME SInv, RInv', StartRound \/ NoReorg \/ FinishRound \/ WatchList \/ UNCHANGED vars
  PROVE  SInv'
<1>1. UNCHANGED <<chain, outputs, late>>
  BY DEF StartRound, NoReorg, FinishRound, WatchList, Watch, Unwatch, vars, store, excused
<1>2. CASE StartRound
  <2>1. round = NoRound /\ round'.phase = "reorg" /\ published' = published
    BY <1>2 DEF StartRound, network
  <2> QED BY <1>1, <2>1, SpeakersStay DEF Spoken, ClaimsIn, ToRetract, NoRound
<1>3. CASE NoReorg
  <2>1. round.phase = "reorg" /\ round'.claims = {} /\ published' = published
    BY <1>3 DEF NoReorg, network, ScanFrom
  <2> QED BY <1>1, <2>1, SpeakersStay DEF Spoken, ClaimsIn, ToRetract
<1>4. CASE FinishRound
  <2>1. Spoken' = Spoken /\ round.phase = "publish"
    BY <1>4, FinishKeepsRows DEF SInv, RInv, FinishRound
  <2> QED BY <1>1, <2>1, SpeakersStay DEF ToRetract
<1>5. CASE WatchList \/ UNCHANGED vars
  <2>1. UNCHANGED <<round, published>>
    BY <1>5 DEF WatchList, Watch, Unwatch, vars, network
  <2> QED BY <1>1, <2>1, SpeakersStay DEF Spoken, ToRetract
<1> QED BY <1>2, <1>3, <1>4, <1>5

\* Every step keeps the invariant.
LEMMA NextSays == Smooth /\ SInv /\ [Next]_vars => SInv'
<1> SUFFICES ASSUME Smooth, SInv, [Next]_vars PROVE SInv'
  OBVIOUS
<1>1. NInv' /\ RInv /\ ~Failure /\ ~FirstRound
  BY NextSpeaks, NothingFails, Unreached DEF Smooth, SInv, RInv, NInv
<1>2. CASE Chain
  BY <1>1, <1>2, ChainKeepsRows, ChainSays
<1>3. CASE StartRound
  BY <1>1, <1>3, StartKeepsRows, OthersSay
<1>4. CASE NoReorg
  BY <1>1, <1>4, NoReorgKeepsRows, OthersSay
<1>5. CASE HandleReorg
  BY <1>1, <1>5, HandleReorgKeepsRows, HandleReorgSays
<1>6. CASE ScanBlock
  BY <1>1, <1>6, ScanBlockKeepsRows, ScanBlockSays
<1>7. CASE Sign
  BY <1>1, <1>7, SignKeepsRows, SignSays
<1>8. CASE \E s \in Script : Publish(s)
  BY <1>1, <1>8, PublishKeepsRows, PublishSays
<1>9. CASE FinishRound
  BY <1>1, <1>9, FinishKeepsRows, OthersSay
<1>10. CASE WatchList \/ UNCHANGED vars
  BY <1>1, <1>10, WatchKeepsRows, OthersSay
<1> QED BY <1>1, <1>2, <1>3, <1>4, <1>5, <1>6, <1>7, <1>8, <1>9, <1>10 DEF Next, Step

\* It holds at first.
LEMMA InitSays == Smooth /\ Init => SInv
<1> SUFFICES ASSUME Smooth, Init PROVE SInv
  OBVIOUS
<1>1. NInv
  BY InitSpeaks DEF Smooth
<1>2. published = {} /\ round = NoRound /\ \A o \in Outpoint : outputs[o].state = "unseen"
  BY DEF Init
<1>3. Spoken = {}
  BY <1>2 DEF Spoken, ClaimsIn, NoRound
<1>4. PaidOnce
  <2>1. PICK n : n = Max({1, Recorded})
    OBVIOUS
  <2>2. chain = [h \in 1..n |-> [hash |-> 0, pays |-> {}]]
    BY <2>1 DEF Init
  <2>3. \A h \in 1..Len(chain) : chain[h].pays = {}
    <3>1. DOMAIN chain = 1..n /\ \A h \in 1..n : chain[h].pays = {}
      BY <2>2
    <3>2. DOMAIN chain = 1..Len(chain)
      BY <1>1 DEF NInv, FInv, IInv, ChainShape
    <3> QED BY <3>1, <3>2
  <2> QED BY <2>3 DEF PaidOnce
<1>5. RInv
  BY <1>1, <1>2, <1>4
     DEF RInv, RowsRight, DoubtsGone, RowsBelow, DoubtsSought, TipHeld, AllSent, InBlock, InDoubt,
         NoRound
<1>6. \A o \in Outpoint : RowSpeaks(o)
  BY <1>2, <1>3 DEF RowSpeaks, InBlock, InDoubt, About
<1> QED BY <1>3, <1>5, <1>6 DEF SInv, SpokenTrue, OneVoice

\* What a reader takes a payment's claims for is what was said of it last.
LEMMA ReadersTakeLatest ==
  ASSUME SInv, NEW o \in Outpoint, o \notin late, About(Spoken, o) # {}
  PROVE  Winner(About(Spoken, o)) \in Latest(o)
<1>1. PICK C : C = About(Spoken, o)
  OBVIOUS
<1>2. /\ C # {} /\ Len(chain) \in Nat
      /\ \A c \in C : c \in Spoken /\ c.outpoint = o /\ c.as_of.height \in 1..Len(chain)
  BY <1>1 DEF About, SInv, RInv, NInv, SpokenHeights, FInv, IInv, ChainShape
<1>3. PICK heights : heights = {c.as_of.height : c \in C}
  OBVIOUS
<1>4. heights \subseteq Int /\ IsFiniteSet(heights) /\ heights # {}
  <2>1. heights \subseteq 1..Len(chain) /\ heights # {}
    BY <1>2, <1>3
  <2>2. IsFiniteSet(1..Len(chain)) /\ 1..Len(chain) \subseteq Int
    BY <1>2, FS_Interval
  <2>3. IsFiniteSet(heights)
    BY <2>1, <2>2, FS_Subset
  <2> QED BY <2>1, <2>2, <2>3
<1>5. PICK l \in C : \A c \in C : l.as_of.height >= c.as_of.height
  <2>1. Max(heights) \in heights /\ \A h \in heights : Max(heights) >= h
    BY <1>4, HasMax
  <2> QED BY <1>3, <2>1
<1>6. l \in ClaimShape
  BY <1>2, <1>5 DEF SInv
<1>7. ASSUME NEW c \in C, Outranks(c, l) PROVE FALSE
  <2>1. PICK i \in 1..7 : /\ Precedence(c)[i] > Precedence(l)[i]
                          /\ \A j \in 1..(i - 1) : Precedence(c)[j] = Precedence(l)[j]
    BY <1>7 DEF Outranks
  <2>2. /\ Precedence(c)[1] = c.as_of.height /\ Precedence(l)[1] = l.as_of.height
        /\ c.as_of.height \in Int /\ l.as_of.height \in Int /\ l.as_of.height >= c.as_of.height
    BY <1>2, <1>5 DEF Precedence
  <2>3. i # 1 /\ 1 \in 1..(i - 1)
    BY <2>1, <2>2
  <2>4. c.as_of.height = l.as_of.height
    BY <2>1, <2>2, <2>3
  <2>5. c = l
    BY <1>2, <1>5, <2>4 DEF SInv, OneVoice
  <2>6. Precedence(l)[i] \in Int
    BY <1>6 DEF Precedence, ClaimShape, Anchor, ConcessionRank
  <2> QED BY <2>1, <2>5, <2>6
<1>8. PICK w : w = Winner(C)
  OBVIOUS
<1>9. w \in C /\ ~Outranks(l, w)
  BY <1>5, <1>7, <1>8 DEF Winner
<1>10. w.as_of.height >= l.as_of.height
  <2>1. SUFFICES ASSUME ~(w.as_of.height >= l.as_of.height) PROVE FALSE
    OBVIOUS
  <2>2. Precedence(l)[1] = l.as_of.height /\ Precedence(w)[1] = w.as_of.height
    BY DEF Precedence
  <2>3. l.as_of.height > w.as_of.height
    BY <1>2, <1>5, <1>9, <2>1
  <2>4. 1 \in 1..7 /\ 1..(1 - 1) = {}
    OBVIOUS
  <2> QED BY <1>9, <2>2, <2>3, <2>4 DEF Outranks
<1>11. \A c \in C : c.as_of.height <= w.as_of.height
  BY <1>2, <1>5, <1>9, <1>10
<1> QED BY <1>1, <1>8, <1>9, <1>11 DEF Latest

\* The invariant gives what a reader finds.
LEMMA StatusFollows == SInv => StatusMatchesChain
<1> SUFFICES ASSUME SInv, CaughtUp, NEW o \in Outpoint \ late, About(published, o) # {}
             PROVE  \/ ReadsConfirmed(o)
                    \/ HeightOf(o) = 0 /\ Status(published, o).kind = "Retracted"
  BY DEF StatusMatchesChain
<1>1. IInv /\ FInv
  BY DEF SInv, RInv, NInv, FInv
<1>2. round = NoRound /\ checkpoint = AnchorAt(Len(chain)) /\ Spoken = published
  BY DEF CaughtUp, Spoken, ClaimsIn, NoRound
<1>3. /\ checkpoint.height = Len(chain) /\ Len(chain) \in Nat /\ DOMAIN chain = 1..Len(chain)
      /\ Agreed(Len(chain))
  <2>1. Len(chain) \in Nat \ {0} /\ DOMAIN chain = 1..Len(chain)
    BY <1>1 DEF IInv, ChainShape
  <2>2. checkpoint.height = Len(chain) /\ checkpoint.hash = chain[Len(chain)].hash
    BY <1>2 DEF AnchorAt
  <2>3. checkpoint.height \in DOMAIN seen /\ checkpoint.hash = seen[checkpoint.height]
    BY <1>1 DEF FInv, RecordHolds, CheckpointKnown
  <2> QED BY <2>1, <2>2, <2>3 DEF Agreed
<1>4. PICK w : w = Winner(About(published, o))
  OBVIOUS
<1>5. w \in Latest(o) /\ RowSpeaks(o) /\ ~ToRetract(o)
  BY <1>2, <1>4, ReadersTakeLatest DEF SInv, ToRetract, NoRound
<1>6. outputs[o].state \in {"in_block", "in_doubt"}
  BY <1>1, <1>2, <1>5 DEF RowSpeaks, IInv, StoreShape
<1>7. CASE InBlock(o)
  <2>1. PICK b : b = outputs[o].block
    OBVIOUS
  <2>2. w.kind = "Confirmed" /\ w.anchor = b
    BY <1>5, <1>7, <2>1 DEF RowSpeaks
  <2>3. b.height \in Nat \ {0} /\ b.height <= Len(chain)
    <3>1. b.height \in Nat \ {0}
      BY <1>1, <1>7, <2>1 DEF IInv, StoreShape, InBlock
    <3>2. b.height <= checkpoint.height
      BY <1>2, <1>7, <2>1 DEF SInv, RInv, RowsBelow, ScannedTo, NoRound
    <3> QED BY <1>3, <3>1, <3>2
  <2>4. b = AnchorAt(b.height) /\ o \in chain[b.height].pays
    BY <1>3, <1>7, <2>1, <2>3 DEF SInv, RInv, RowsRight, RowRight
  <2>5. HeightOf(o) = b.height
    <3>1. HeightOf(o) # 0 /\ HeightOf(o) \in 1..Len(chain) /\ o \in chain[HeightOf(o)].pays
      <4> DEFINE at == {h \in DOMAIN chain : o \in chain[h].pays}
      <4>1. at # {} /\ HeightOf(o) = Max(at)
        BY <1>3, <2>3, <2>4 DEF HeightOf
      <4>2. IsFiniteSet(at) /\ at \subseteq Int
        <5>1. IsFiniteSet(1..Len(chain)) /\ at \subseteq 1..Len(chain)
          BY <1>3, FS_Interval
        <5> QED BY <5>1, FS_Subset
      <4>3. Max(at) \in at
        <5> HIDE DEF at
        <5> QED BY <4>1, <4>2, HasMax
      <4> QED BY <1>3, <4>1, <4>3
    <3> QED BY <2>3, <2>4, <3>1, <1>3 DEF SInv, RInv, PaidOnce
  <2>6. Status(published, o).kind = "Confirmed" /\ Status(published, o).anchor = b
    BY <1>4, <2>2 DEF Status
  <2> QED BY <2>3, <2>4, <2>5, <2>6 DEF ReadsConfirmed
<1>8. CASE InDoubt(o)
  <2>1. w.kind = "Retracted"
    BY <1>5, <1>8 DEF RowSpeaks
  <2>2. Status(published, o).kind = "Retracted"
    BY <1>4, <2>1 DEF Status
  <2>3. \A h \in DOMAIN chain : o \notin chain[h].pays
    BY <1>3, <1>8 DEF SInv, RInv, DoubtsGone
  <2>4. HeightOf(o) = 0
    BY <2>3 DEF HeightOf
  <2> QED BY <2>2, <2>4
<1> QED BY <1>6, <1>7, <1>8 DEF InBlock, InDoubt

\* When nothing fails, whatever reorganizations there are and whenever watches begin
\* and end, a reader of a bridge that has caught up finds each payment it spoke of
\* confirmed in the block that has it, or retracted if none has (handle_reorg,
\* scan_set, retraction_claims).
THEOREM ReadersSeeTheChain == Smooth => (Spec => []StatusMatchesChain)
<1> SUFFICES ASSUME Smooth PROVE Spec => []StatusMatchesChain
  OBVIOUS
<1>1. Init => SInv
  BY InitSays
<1>2. SInv /\ [Next]_vars => SInv'
  BY NextSays
<1>3. SInv => StatusMatchesChain
  BY StatusFollows
<1> QED BY <1>1, <1>2, <1>3, PTL DEF Spec
=============================================================================
