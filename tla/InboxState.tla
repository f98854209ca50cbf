----------------------------- MODULE InboxState -----------------------------
(***************************************************************************)
(* One bridge's request inbox, as the inbox contract holds and merges it:  *)
(* inbox/src/state.rs and the records of inbox/src/lib.rs.  No variables:  *)
(* a state, a delta and a summary are values, and this module says what    *)
(* the contract computes from them.                                        *)
(*                                                                         *)
(* Abstracted: certificates (kept exactly while an entry uses them, so a   *)
(* function of the entries), the bytes of keys, signatures and digests     *)
(* (one field each), and the second of two signatures over one floor or    *)
(* one batch, which a bridge that signs deterministically never makes.     *)
(* Heights stay far below 2^32, so saturating_add is +.                    *)
(*                                                                         *)
(* A definition named Bug_... is no part of the model: it is a mistake     *)
(* that one property must catch if the definition after it makes it.       *)
(***************************************************************************)
EXTENDS Naturals, FiniteSets

CONSTANTS
  Entry,        \* the entries that exist, records of EntryShape
  Prefix,       \* what a removal keeps of an entry's key
  GhostKey,     \* the Ghost Keys entries come from
  NoFloor,      \* the floor of an inbox its bridge has not opened
  NoSerial,     \* the serial of an entry its Ghost Key signed itself
  Window,       \* WINDOW_BLOCKS
  MaxEntries,   \* MAX_ENTRIES
  MaxPerGhostKey, \* MAX_ENTRIES_PER_GHOSTKEY
  MaxRemoved,   \* MAX_REMOVED
  MaxBatches,   \* MAX_REMOVAL_BATCHES
  BucketOf(_)   \* the summary bucket of an entry's or a batch's key

(***************************************************************************)
(* An entry.  key orders entries of one height; prefix is what a removal   *)
(* names it by; serial is the height its delegation was issued at, when a  *)
(* watch key signed it; valid says its signatures and certificate check.   *)
(***************************************************************************)
EntryShape ==
  [key : Nat, prefix : Prefix, height : Nat, ghostkey : GhostKey,
   serial : Nat \cup {NoSerial}, valid : BOOLEAN]

\* A removal batch: the bridge has read these entries, all dated at height.
BatchShape == [height : Nat, removed : SUBSET Prefix, valid : BOOLEAN]

Floor == Nat \cup {NoFloor}

(***************************************************************************)
(* Two records with one key are one record: a key is a digest of all of    *)
(* it.  An entry under a delegation is dated no earlier than the           *)
(* delegation was issued (verify_entry_signature).                         *)
(***************************************************************************)
ASSUME EntryAssumption ==
  /\ Entry \subseteq EntryShape
  /\ \A e, f \in Entry : e.key = f.key => e = f
  /\ \A e \in Entry : e.serial = NoSerial \/ ~e.valid \/ e.serial <= e.height

\* A removal's prefix is long enough to tell the entries of one height apart.
ASSUME PrefixAssumption ==
  /\ IsFiniteSet(Prefix)
  /\ \A e, f \in Entry : e.height = f.height /\ e.prefix = f.prefix => e = f

ASSUME BoundAssumption ==
  /\ NoFloor \notin Nat /\ NoSerial \notin Nat
  /\ Window \in Nat
  /\ MaxEntries \in Nat /\ MaxPerGhostKey \in Nat
  /\ MaxRemoved \in Nat /\ MaxBatches \in Nat

\* InboxStateV1, and the state of an inbox nobody has written to.
State ==
  [floor : Floor, entries : SUBSET Entry, removals : SUBSET BatchShape]

EmptyState == [floor |-> NoFloor, entries |-> {}, removals |-> {}]

\* InboxDelta has the fields of a state.  An empty one says nothing.
IsEmptyDelta(d) == d.floor = NoFloor /\ d.entries = {} /\ d.removals = {}

Delegated(e) == e.serial # NoSerial

-----------------------------------------------------------------------------
(* The window and what has been removed *)

AtOrAbove(h, floor) == floor # NoFloor /\ floor <= h

InWindow(h, floor) == AtOrAbove(h, floor) /\ h <= floor + Window

\* Whether some batch names e.  A batch removes entries of its own height only.
IsRemoved(removals, e) ==
  \E b \in removals : b.height = e.height /\ e.prefix \in b.removed

Bug_Standing(B, floor) == {b \in B : floor # NoFloor /\ floor < b.height}

\* The batches a floor leaves.
Standing(B, floor) == {b \in B : AtOrAbove(b.height, floor)}

SameBatchKey(b, c) == b.height = c.height /\ b.removed = c.removed

\* c makes b redundant.  Callers compare keys: a batch covers itself.
CoveredBy(b, c) == b.height = c.height /\ b.removed \subseteq c.removed

DropCovered(B) ==
  {b \in B : ~\E c \in B : ~SameBatchKey(b, c) /\ CoveredBy(b, c)}

\* Prefixes named across batches, a prefix once per batch that names it.
RemovedCount(B) == Cardinality(UNION {{<<b, p>> : p \in b.removed} : b \in B})

-----------------------------------------------------------------------------
(* Normal form *)

\* The caps' order: newest first, then the lower key.
RanksAbove(e, f) == e.height > f.height \/ (e.height = f.height /\ e.key < f.key)

\* The order of one Ghost Key's delegated entries: the latest delegation first.
Outranks(e, f) == e.serial > f.serial \/ (e.serial = f.serial /\ RanksAbove(e, f))

\* Of the entries watch keys signed for one Ghost Key, the only one that may stay.
BestDelegated(E, e) ==
  \A f \in E : f.ghostkey = e.ghostkey /\ Delegated(f) /\ f # e => Outranks(e, f)

MayStay(E, e) == Delegated(e) => BestDelegated(E, e)

\* Each Ghost Key keeps its best MaxPerGhostKey.
KeptPerGhostKey(E) ==
  {e \in E : Cardinality({f \in E : f.ghostkey = e.ghostkey /\ RanksAbove(f, e)})
               < MaxPerGhostKey}

\* And of those the best MaxEntries stay.
KeptInAll(E) == {e \in E : Cardinality({f \in E : RanksAbove(f, e)}) < MaxEntries}

\* The entries the caps leave of E.
Kept(E) == KeptInAll(KeptPerGhostKey({e \in E : MayStay(E, e)}))

Normalize(s) ==
  LET removals == DropCovered(Standing(s.removals, s.floor))
      waiting  == {e \in s.entries : /\ AtOrAbove(e.height, s.floor)
                                     /\ ~IsRemoved(removals, e)}
  IN  IF s.floor = NoFloor
      THEN EmptyState
      ELSE [floor |-> s.floor, entries |-> Kept(waiting), removals |-> removals]

-----------------------------------------------------------------------------
(* Applying a delta *)

FloorAhead(f, g) == f # NoFloor /\ (g = NoFloor \/ f > g)

Bug_AdoptedFloor(mine, theirs) == IF theirs # NoFloor THEN theirs ELSE mine

AdoptedFloor(mine, theirs) == IF FloorAhead(theirs, mine) THEN theirs ELSE mine

\* Larger than any honest delta: refused before anything in it is checked.
TooLarge(d) ==
  \/ Cardinality(d.entries) > MaxEntries
  \/ Cardinality(d.removals) > MaxBatches
  \/ RemovedCount(d.removals) > MaxRemoved
  \/ \E e \in d.entries :
       Cardinality({f \in d.entries : f.ghostkey = e.ghostkey}) > MaxPerGhostKey

\* A batch that could change nothing: passed over unverified.
BatchPassedOver(b, held, floor) ==
  \/ b \in held
  \/ ~InWindow(b.height, floor)
  \/ \E c \in held : ~SameBatchKey(b, c) /\ CoveredBy(b, c)

Bug_EntryPassedOver(e, held, removals, floor) ==
  e \in held \/ IsRemoved(removals, e)

EntryPassedOver(e, held, removals, floor) ==
  \/ e \in held
  \/ IsRemoved(removals, e)
  \/ ~InWindow(e.height, floor)

(***************************************************************************)
(* apply_delta.  All or nothing: a delta that is refused leaves s as it    *)
(* was.  The batches of d are compared with the batches held, not with     *)
(* each other, before DropCovered compares them all: for valid batches     *)
(* that is the same in whatever order d lists them.                        *)
(***************************************************************************)
AfterDelta(s, d) ==
  LET floor    == AdoptedFloor(s.floor, d.floor)
      held     == Standing(s.removals, floor)
      batches  == {b \in d.removals : ~BatchPassedOver(b, held, floor)}
      removals == DropCovered(held \cup batches)
      entries  == {e \in d.entries : ~EntryPassedOver(e, s.entries, removals, floor)}
      next     == Normalize([floor    |-> floor,
                             entries  |-> s.entries \cup entries,
                             removals |-> removals])
      refused  == \/ floor = NoFloor /\ (d.entries # {} \/ d.removals # {})
                  \/ \E b \in d.removals : b.removed = {}
                  \/ \E r \in batches \cup entries : ~r.valid
                  \/ Cardinality(next.removals) > MaxBatches
                  \/ RemovedCount(next.removals) > MaxRemoved
  IN  IF refused THEN s ELSE next

ApplyDelta(s, d) == IF TooLarge(d) THEN s ELSE AfterDelta(s, d)

\* as_delta of a state is the state, read as a delta.
Merge(s, t) == ApplyDelta(s, t)

-----------------------------------------------------------------------------
(* Synchronization by summary and delta *)

\* A bucket's digest stands for the set of keys in it: no digests collide.
DigestOf(S, x) == {y \in S : BucketOf(y) = BucketOf(x)}

Summarize(s) == s

\* Whether the floor alone is worth telling.
FloorToTell(mine, old) == FloorAhead(mine, old)

\* What a peer with summary old is missing, whole buckets at a time.
Delta(s, old) ==
  LET entries  == {e \in s.entries : DigestOf(s.entries, e) # DigestOf(old.entries, e)}
      removals == {b \in s.removals : DigestOf(s.removals, b) # DigestOf(old.removals, b)}
      told     == FloorToTell(s.floor, old.floor) \/ entries # {} \/ removals # {}
  IN  [floor    |-> IF told THEN s.floor ELSE NoFloor,
       entries  |-> entries,
       removals |-> removals]

\* What a sender sends: its entry, with the floor it read from the inbox.
Submission(floor, e) == [floor |-> floor, entries |-> {e}, removals |-> {}]

-----------------------------------------------------------------------------
(* verify: what every state a peer accepts satisfies *)

RecordsInWindow(s) ==
  \A r \in s.entries \cup s.removals : r.valid /\ InWindow(r.height, s.floor)

NothingRemovedWaits(s) == \A e \in s.entries : ~IsRemoved(s.removals, e)

\* check_shape, of every batch held.
EachBatchNames(s) == \A b \in s.removals : b.removed # {}

NothingCovered(s) == DropCovered(s.removals) = s.removals

WithinCaps(s) ==
  /\ Cardinality(s.entries) <= MaxEntries
  /\ Cardinality(s.removals) <= MaxBatches
  /\ RemovedCount(s.removals) <= MaxRemoved
  /\ \A e \in s.entries :
       LET own == {f \in s.entries : f.ghostkey = e.ghostkey}
       IN  Cardinality(own) <= MaxPerGhostKey /\ Cardinality({f \in own : Delegated(f)}) <= 1

Verify(s) ==
  /\ RecordsInWindow(s)
  /\ NothingRemovedWaits(s)
  /\ EachBatchNames(s)
  /\ NothingCovered(s)
  /\ WithinCaps(s)
=============================================================================
