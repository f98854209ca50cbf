------------------------------ MODULE Pointers ------------------------------
(***************************************************************************)
(* How a bridge tells readers which generation of each contract it writes  *)
(* to: publish_one and read_published (bridge/src/generation.rs), the loop *)
(* in bridge/src/main.rs that publishes again and again, and the row       *)
(* bridge/src/store.rs keeps.  A pointer's contract (external) takes a     *)
(* record only if its version is above that of the one it holds.           *)
(*                                                                         *)
(* A generation stands for the code hash of every contract: they embed one *)
(* crate and re-key together.  What stands at a pointer is the sequence of *)
(* the generations it has named; the version is its length.                *)
(***************************************************************************)
EXTENDS Integers, Sequences

CONSTANTS
  None,        \* no record
  Artifact,    \* the contracts with a pointer
  Builds,      \* bound: the last generation
  MaxMishaps   \* bound: databases lost, requests and writes that fail

VARIABLES
  build,       \* the generation the bridge writes to
  stands,      \* per artifact, what its pointer has named
  recorded,    \* per artifact, pointer_versions: the record published last, or None
  tied,        \* history: artifacts of which two records of one version were published
  mishaps      \* bound

pointerVars == <<build, stands, recorded, tied, mishaps>>

ASSUME PointersAssumption ==
  /\ Builds \in Nat \ {0} /\ MaxMishaps \in Nat
  /\ None \notin [version : Nat, names : Nat]

Generation == 1..Builds

Record(version, names) == [version |-> version, names |-> names]

\* What readers are shown, when anything was published.
Standing(a) ==
  IF stands[a] = <<>> THEN None
  ELSE Record(Len(stands[a]), stands[a][Len(stands[a])])

PointersInit ==
  /\ build = 1
  /\ stands = [a \in Artifact |-> <<>>]
  /\ recorded = [a \in Artifact |-> None]
  /\ tied = {}
  /\ mishaps = MaxMishaps

Bug_Baseline(stored, published) == stored

\* The higher of what the bridge remembers and what it read; at a tie, its own.
Baseline(stored, published) ==
  IF stored = None THEN published
  ELSE IF published # None /\ published.version > stored.version THEN published
  ELSE stored

\* The record to publish: the standing one again, or one above it.
Superseding(baseline) ==
  IF baseline = None THEN Record(1, build)
  ELSE IF baseline.names = build THEN baseline
  ELSE Record(baseline.version + 1, build)

\* reads: the standing record was read.  reaches: the write comes to the
\* contract.  founds: a node that knows no copy stores the record as the first;
\* when it meets the standing one, the higher version stays, or at a tie the
\* standing one.  saves: the record is recorded before the bridge dies.
PublishOne(a, reads, reaches, founds, saves) ==
  LET record   == Superseding(Baseline(recorded[a], IF reads THEN Standing(a) ELSE None))
      higher   == Standing(a) = None \/ record.version > Standing(a).version
      accepted == reaches /\ (founds \/ higher \/ record = Standing(a))
  IN  /\ founds => ~reads
      /\ reads \/ Standing(a) # None
      /\ IF reads /\ reaches /\ saves THEN UNCHANGED mishaps
         ELSE mishaps > 0 /\ mishaps' = mishaps - 1
      /\ stands' = IF accepted /\ higher THEN [stands EXCEPT ![a] = Append(@, build)]
                                         ELSE stands
      /\ recorded' = IF accepted /\ saves THEN [recorded EXCEPT ![a] = record] ELSE recorded
      /\ tied' = IF accepted /\ ~higher /\ record.version = Standing(a).version
                             /\ record # Standing(a)
                 THEN tied \cup {a} ELSE tied
      /\ UNCHANGED build

PublishWell(a) == PublishOne(a, TRUE, TRUE, FALSE, TRUE)

\* The bridge is installed anew with contracts built anew.
Rebuild ==
  /\ build < Builds
  /\ build' = build + 1
  /\ UNCHANGED <<stands, recorded, tied, mishaps>>

\* The database is deleted: deployments call it disposable.
LoseDatabase ==
  /\ mishaps > 0 /\ recorded # [a \in Artifact |-> None]
  /\ recorded' = [a \in Artifact |-> None]
  /\ mishaps' = mishaps - 1
  /\ UNCHANGED <<build, stands, tied>>

PointersNext ==
  \/ \E a \in Artifact, reads, reaches, founds, saves \in BOOLEAN :
       PublishOne(a, reads, reaches, founds, saves)
  \/ Rebuild
  \/ LoseDatabase

-----------------------------------------------------------------------------
(* Properties *)

\* A pointer comes to name the generation the bridge writes to and stays so
\* (publish_one), though the database is lost, the pointer cannot be read, and
\* writes fail or are not recorded; unless two records of one version were
\* published, of which the bridge goes on asserting its own.
PointersFollow ==
  <>[](\A a \in Artifact : a \in tied \/ (Standing(a) # None /\ Standing(a).names = build))
=============================================================================
