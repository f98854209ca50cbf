------------------------------ MODULE Observer ------------------------------
(***************************************************************************)
(* The loop that follows one Bitcoin network and publishes what it sees:   *)
(* bridge/src/observer.rs, observe_once in bridge/src/main.rs, and what    *)
(* they keep in bridge/src/store.rs.  A round reads the node's tip, checks *)
(* whether its own record of the chain still holds, scans blocks, signs    *)
(* claims, publishes them script by script, and moves its checkpoint.      *)
(* Only the checkpoint, the recorded blocks and outputs and what was       *)
(* published outlive a crash: the rest of a round is in memory.            *)
(*                                                                         *)
(* Abstracted: amounts, proofs and the order of blocks' transactions; the  *)
(* record of published claims, which is what the network has accepted (a   *)
(* claim whose acceptance was not heard is not recorded and is sent again, *)
(* which changes nothing); the migration walk inside a round (it publishes *)
(* only what older contracts hold); the mempool, which the bridge never    *)
(* claims about; the initial block download, in which a round does         *)
(* nothing; and reads of the node whose failure ends the round, which are  *)
(* like Crash.                                                             *)
(***************************************************************************)
EXTENDS Claims, Sequences, FiniteSetsExt

CONSTANTS
  Self,               \* this bridge
  Script,             \* the scripts it may be asked to watch
  ScriptOf(_),        \* the script an outpoint pays
  NoBlock,            \* no block
  RoundBlocks,        \* ROUND_SCAN_BLOCKS
  MaxReorgDepth,      \* max_reorg_depth
  DeepConfirmations,  \* deep_confirmations
  BlocksKept,         \* BLOCKS_KEPT
  MaxHeld,            \* MAX_HELD_ROUNDS
  Recorded,           \* the blocks the bridge has already followed at the start
  MaxHeight,          \* bound: the chain's length
  MaxForks,           \* bound: reorganizations
  MidRound,           \* whether the node's chain may change during a round
  Fault,              \* what may go wrong, of FaultKind
  MaxFaults           \* bound: how often

\* "unread": the node cannot be read just now, and the round goes on all the same.
FaultKind ==
  {"crash", "crash_in_reorg", "unread", "unreachable", "refused", "tip", "unwatch"}

VARIABLES
  chain,       \* the node's best chain: chain[h] is the block at height h
  forks,       \* reorganizations so far
  watched,     \* the scripts on the watch list
  checkpoint,  \* chain_checkpoint: an anchor, or NoBlock
  seen,        \* seen_blocks: the hash recorded at each height
  outputs,     \* observed_outputs
  held,        \* held_rounds: rounds in a row the checkpoint was kept back
  round,       \* the round under way, in memory
  published,   \* the claims the network has accepted
  marked,      \* marked[s]: the watermark the network has for s, or NoBlock
  since,       \* history: the height s is scanned from, or NoBlock
  refused,     \* history: the outpoints of claims the contract refused
  late,        \* history: the outpoints of reorganizations noticed late
  faults       \* how much has gone wrong

store == <<checkpoint, seen, outputs>>
network == <<published, marked>>
excused == <<refused, late>>
vars == <<chain, forks, watched, checkpoint, seen, outputs, held, round,
          published, marked, since, refused, late, faults>>

ASSUME ObserverAssumption ==
  /\ Self \in Bridge
  /\ \A o \in Outpoint : ScriptOf(o) \in Script
  /\ {RoundBlocks, MaxReorgDepth, BlocksKept, MaxHeld, Recorded} \subseteq Nat
  /\ DeepConfirmations \in Nat \ {0} /\ {MaxHeight, MaxForks, MaxFaults} \subseteq Nat
  /\ NoBlock \notin Anchor
  /\ MaxReorgDepth <= BlocksKept
  /\ Fault \subseteq FaultKind /\ MidRound \in BOOLEAN

\* A block has a hash, which tells apart the blocks that were ever mined at its
\* height, and pays outpoints.  An output the bridge has a row for has a state,
\* "unseen", "in_block" or "in_doubt", its block, and the depth published.

AnchorAt(h) == [height |-> h, hash |-> chain[h].hash]

OnChain(a) == a.height \in DOMAIN chain /\ chain[a.height].hash = a.hash

NoRound == [phase |-> "idle"]

Happens(fault) == fault \in Fault /\ faults < MaxFaults /\ faults' = faults + 1

-----------------------------------------------------------------------------
(* The node's chain *)

PaidIn(blocks) == UNION {blocks[h].pays : h \in DOMAIN blocks}

ChainMayChange == MidRound \/ round = NoRound

Mine(P) ==
  /\ ChainMayChange /\ Len(chain) < MaxHeight
  /\ P \cap PaidIn(chain) = {}
  /\ chain' = Append(chain, [hash |-> forks, pays |-> P])
  /\ UNCHANGED <<forks, watched, checkpoint, seen, outputs, held, round,
                 published, marked, since, excused, faults>>

\* The blocks above fork give way to a longer branch.  A payment is mined
\* again in place[o], or not at all when that is 0.
Reorganize(fork, place) ==
  LET kept   == SubSeq(chain, 1, fork)
      branch == [i \in 1..(Len(chain) + 1 - fork) |->
                   [hash |-> forks + 1,
                    pays |-> {o \in Outpoint \ PaidIn(kept) : place[o] = fork + i}]]
  IN  /\ Len(chain) - fork \in 1..MaxReorgDepth
      /\ ChainMayChange /\ Len(chain) < MaxHeight /\ forks < MaxForks
      /\ \A o \in Outpoint : place[o] = 0 \/ place[o] \in (fork + 1)..(Len(chain) + 1)
      /\ chain' = kept \o branch
      /\ forks' = forks + 1
      /\ UNCHANGED <<watched, checkpoint, seen, outputs, held, round,
                     published, marked, since, excused, faults>>

-----------------------------------------------------------------------------
(* A round: reading *)

InDoubt(o) == outputs[o].state = "in_doubt"

ScriptsInDoubt == {ScriptOf(o) : o \in {p \in Outpoint : InDoubt(p)}}

StartRound ==
  /\ round = NoRound
  /\ round' = [phase |-> "reorg", tip |-> AnchorAt(Len(chain)), watched |-> watched,
               doubt |-> ScriptsInDoubt]
  /\ UNCHANGED <<chain, forks, watched, store, held, network, since, excused, faults>>

-----------------------------------------------------------------------------
(* A round: reorganizations *)

StillCurrent ==
  /\ checkpoint.height \in DOMAIN seen
  /\ OnChain([height |-> checkpoint.height, hash |-> seen[checkpoint.height]])

Minus(a, b) == IF a < b THEN 0 ELSE a - b

\* The highest height, no deeper than MaxReorgDepth, where the record agrees
\* with the node or where there is none.
FindForkPoint(from) ==
  LET floor == Minus(from, MaxReorgDepth)
      stops == {h \in floor..from :
                  h \notin DOMAIN seen \/ OnChain([height |-> h, hash |-> seen[h]])}
  IN  Max(stops \cup {floor})

Above(o, fork) == outputs[o].state = "in_block" /\ outputs[o].block.height > fork

UnconfirmAbove(fork) ==
  [o \in Outpoint |->
     IF Above(o, fork) THEN [outputs[o] EXCEPT !.state = "in_doubt", !.deep = 0]
                       ELSE outputs[o]]

ForgetAbove(fork) == [h \in {g \in DOMAIN seen : g <= fork} |-> seen[h]]

\* rewind_checkpoint_to, given the records that are left: to the highest one at
\* or below fork, or the lowest there is; with none it stays where it is.
Rewound(fork, records) ==
  LET below == {h \in DOMAIN records : h <= fork}
      rest  == DOMAIN records \ below
      stop  == IF below # {} THEN Max(below)
               ELSE IF rest # {} THEN Min(rest) ELSE checkpoint.height
      h     == Min({stop, checkpoint.height})
  IN  IF checkpoint.height <= fork THEN checkpoint
      ELSE [height |-> h,
            hash   |-> IF h \in DOMAIN records THEN records[h] ELSE checkpoint.hash]

Bug_ScanWindow(orphaned) == RoundBlocks

\* A round that will retract something reaches further.
ScanWindow(orphaned) == IF orphaned THEN RoundBlocks + MaxReorgDepth ELSE RoundBlocks

ScanCeiling(resume, orphans) == Min({round.tip.height, resume + ScanWindow(orphans # {})})

\* The scripts watched, and those with a payment in doubt.
ScanSet(orphans) == round.watched \cup round.doubt \cup {ScriptOf(o) : o \in orphans}

\* The round goes on to scan from resume.
ScanFrom(resume, orphans) ==
  [phase |-> "scan", tip |-> round.tip, watched |-> round.watched,
   scan |-> ScanSet(orphans), orphans |-> orphans, next |-> resume,
   ceiling |-> ScanCeiling(resume, orphans), claims |-> {}, deferred |-> NoBlock,
   scanned |-> FALSE]

\* Nothing recorded: start from the tip.
FirstRound ==
  /\ round.phase = "reorg" /\ checkpoint = NoBlock
  /\ round' = ScanFrom(round.tip.height, {})
  /\ UNCHANGED <<chain, forks, watched, store, held, network, since, excused, faults>>

NoReorg ==
  /\ round.phase = "reorg" /\ checkpoint # NoBlock
  /\ StillCurrent
  /\ round' = ScanFrom(checkpoint.height + 1, {})
  /\ UNCHANGED <<chain, forks, watched, store, held, network, since, excused, faults>>

\* The bridge is further behind than one ordinary round scans.
NoticedLate == round.tip.height > checkpoint.height + RoundBlocks

\* The checkpoint's block is gone, or could not be read, which counts as gone.
SeemsGone ==
  \/ ~StillCurrent /\ UNCHANGED faults
  \/ StillCurrent /\ Happens("unread")

HandleReorg ==
  /\ round.phase = "reorg" /\ checkpoint # NoBlock
  /\ SeemsGone
  /\ LET fork == FindForkPoint(checkpoint.height)
     IN  /\ round' = ScanFrom(fork + 1, {o \in Outpoint : Above(o, fork)})
         /\ outputs' = UnconfirmAbove(fork)
         /\ seen' = ForgetAbove(fork)
         /\ checkpoint' = Rewound(fork, ForgetAbove(fork))
         /\ late' = IF NoticedLate THEN late \cup {o \in Outpoint : Above(o, fork)} ELSE late
  /\ UNCHANGED <<chain, forks, watched, held, network, since, refused>>

-----------------------------------------------------------------------------
(* A round: scanning *)

Confirmation(o, anchor) == ConfirmedClaim(Self, o, 1, anchor, round.tip, 0)

Bug_Reported(o) == ScriptOf(o) \in round.watched

\* Of a script nobody watches, only the payment in doubt is any of its business.
Reported(o) == ScriptOf(o) \in round.watched \/ InDoubt(o)

\* The outputs of the block at h that claims_from_block records.
FoundAt(h) ==
  {o \in chain[h].pays : ScriptOf(o) \in round.scan /\ Reported(o)}

\* A row's block moves with its payment; the depth published stays.
RecordOutput(o, anchor) == [outputs[o] EXCEPT !.state = "in_block", !.block = anchor]

Bug_CheckpointAfter(claims, anchor) == anchor

\* The checkpoint moves with the scan until there is something to publish.
CheckpointAfter(claims, anchor) == IF claims = {} THEN anchor ELSE checkpoint

ScanBlock ==
  /\ round.phase = "scan" /\ round.next <= round.ceiling
  /\ LET h      == round.next
         anchor == AnchorAt(h)
         claims == round.claims \cup {Confirmation(o, anchor) : o \in FoundAt(h)}
     IN  /\ seen' = [g \in DOMAIN seen \cup {h} |-> IF g = h THEN anchor.hash ELSE seen[g]]
         /\ outputs' = [o \in Outpoint |->
                          IF o \in FoundAt(h) THEN RecordOutput(o, anchor)
                                              ELSE outputs[o]]
         /\ checkpoint' = CheckpointAfter(claims, anchor)
         /\ round' = [round EXCEPT !.next = h + 1, !.claims = claims, !.scanned = TRUE,
                                   !.deferred = IF claims = {} THEN NoBlock ELSE anchor]
         /\ since' = [s \in Script |->
                        IF since[s] = NoBlock /\ s \in watched \cap round.watched
                        THEN h ELSE since[s]]
  /\ UNCHANGED <<chain, forks, watched, held, network, excused, faults>>

-----------------------------------------------------------------------------
(* A round: signing *)

Bug_Retractions == {RetractedClaim(Self, o, round.tip) : o \in round.orphans}

\* Orphans the rescan did not find again.
Retractions ==
  {RetractedClaim(Self, o, round.tip) :
     o \in {p \in round.orphans : ~\E c \in round.claims : c.outpoint = p}}

\* The depths worth asserting: 2, 4, 8, ... and the last.
LadderRung(reached) ==
  LET capped == Min({reached, DeepConfirmations})
      powers == {n \in 1..capped : \E k \in 0..capped : n = 2^k}
  IN  IF capped >= DeepConfirmations \/ capped < 2 THEN capped ELSE Max(powers)

Bug_RungFor(o) == LadderRung(Minus(round.tip.height, outputs[o].block.height))

RungFor(o) == LadderRung(Minus(round.tip.height, outputs[o].block.height) + 1)

\* Outputs at least two blocks deep whose next rung the bridge has not asserted,
\* if the block now at their height still has them.
Deeper ==
  {o \in Outpoint :
     /\ outputs[o].state = "in_block"
     /\ outputs[o].block.height <= Minus(round.tip.height, 1)
     /\ outputs[o].deep < DeepConfirmations
     /\ RungFor(o) > Max({outputs[o].deep, 1})
     /\ o \in chain[outputs[o].block.height].pays}

Bug_DeepClaim(o) == Confirmation(o, outputs[o].block)

DeepClaim(o) == Confirmation(o, AnchorAt(outputs[o].block.height))

MarkDeepPublished(o, rung) == [outputs[o] EXCEPT !.deep = Max({@, rung})]

MarkAll(D) ==
  [o \in Outpoint |-> IF o \in D THEN MarkDeepPublished(o, RungFor(o)) ELSE outputs[o]]

\* A payment whose block cannot be read just now waits for another round.
Readable(D) ==
  \/ D = Deeper /\ UNCHANGED faults
  \/ D # Deeper /\ Happens("unread")

PruneBlocks(keep) ==
  [h \in {g \in DOMAIN seen :
            checkpoint = NoBlock \/ g + keep >= checkpoint.height} |-> seen[h]]

Bug_ScannedAnchor == round.tip

\* How far the round scanned: the anchor of its watermarks.
ScannedAnchor ==
  IF round.deferred # NoBlock THEN round.deferred
  ELSE IF checkpoint # NoBlock THEN checkpoint ELSE round.tip

Scanned == round.phase = "scan" /\ round.next > round.ceiling

Sign ==
  /\ Scanned
  /\ \E D \in SUBSET Deeper :
       LET claims == round.claims \cup Retractions \cup {DeepClaim(o) : o \in D}
       IN  /\ Readable(D)
           /\ round' = [phase |-> "publish", claims |-> claims, watched |-> round.watched,
                        mark |-> ScannedAnchor, deferred |-> round.deferred,
                        scanned |-> round.scanned, unreachable |-> FALSE,
                        todo |-> round.watched \cup {ScriptOf(c.outpoint) : c \in claims}]
           /\ outputs' = MarkAll(D)
  /\ seen' = PruneBlocks(BlocksKept)
  /\ UNCHANGED <<chain, forks, watched, checkpoint, held, network, since, excused>>

-----------------------------------------------------------------------------
(* A round: publishing *)

ClaimsOf(s) == {c \in round.claims : ScriptOf(c.outpoint) = s}

\* A watermark goes out only for a script on the watch list.
MarkOf(s) == IF s \in round.watched THEN round.mark ELSE NoBlock

\* What is_published does not find yet: nothing else is sent.
Unpublished(s) == ClaimsOf(s) \ published

Fresh(s) == Unpublished(s) # {} \/ (MarkOf(s) # NoBlock /\ MarkOf(s) # marked[s])

\* mark_published follows the publish that succeeded.
MarkPublished(claims) == published \cup claims

\* What the contract keeps of two watermarks.
MarkKept(old, new) ==
  IF new = NoBlock \/ (old # NoBlock /\ new.height <= old.height) THEN old ELSE new

\* The contract takes what is sent.
Arrives(s) ==
  /\ published' = MarkPublished(Unpublished(s))
  /\ marked' = [marked EXCEPT ![s] = MarkKept(@, MarkOf(s))]

Publish(s) ==
  /\ round.phase = "publish" /\ s \in round.todo
  /\ Arrives(s)
  /\ round' = [round EXCEPT !.todo = @ \ {s}]
  /\ UNCHANGED <<chain, forks, watched, store, held, since, excused, faults>>

\* The contract refuses the script's claims: the round goes on without them.
PublishRefused(s) ==
  /\ round.phase = "publish" /\ s \in round.todo /\ Fresh(s)
  /\ Happens("refused")
  /\ round' = [round EXCEPT !.todo = @ \ {s}]
  /\ refused' = refused \cup {c.outpoint : c \in Unpublished(s)}
  /\ UNCHANGED <<chain, forks, watched, store, held, network, since, late>>

\* The node cannot be reached, or its answer is lost: the rest of the scripts are
\* given up.
PublishUnreachable(s) ==
  /\ round.phase = "publish" /\ s \in round.todo /\ Fresh(s)
  /\ Happens("unreachable")
  /\ UNCHANGED network \/ Arrives(s)
  /\ round' = [round EXCEPT !.todo = {}, !.unreachable = TRUE]
  /\ UNCHANGED <<chain, forks, watched, store, held, since, excused>>

\* The tip entries are published last, and may fail alone.
TipUnreachable ==
  /\ round.phase = "publish" /\ round.todo = {} /\ round.scanned /\ ~round.unreachable
  /\ Happens("tip")
  /\ round' = [round EXCEPT !.unreachable = TRUE]
  /\ UNCHANGED <<chain, forks, watched, store, held, network, since, excused>>

HoldsBack == round.deferred # NoBlock /\ round.unreachable /\ held < MaxHeld

\* What was scanned is kept for the next round, or left behind.
FinishRound ==
  /\ round.phase = "publish" /\ round.todo = {}
  /\ round' = NoRound
  /\ held' = IF HoldsBack THEN held + 1 ELSE 0
  /\ checkpoint' =
       IF round.deferred = NoBlock \/ HoldsBack THEN checkpoint ELSE round.deferred
  /\ UNCHANGED <<chain, forks, watched, seen, outputs, network, since, excused, faults>>

-----------------------------------------------------------------------------
(* Faults, and what else happens meanwhile *)

\* The bridge stops, or a round fails with an error, which keeps held.
Crash ==
  /\ round # NoRound
  /\ Happens("crash")
  /\ round' = NoRound
  /\ held' \in {held, 0}
  /\ UNCHANGED <<chain, forks, watched, store, network, since, excused>>

\* It stops between two payments that deep_claims marks.
CrashInSign ==
  /\ Scanned
  /\ Happens("crash")
  /\ \E D \in SUBSET Deeper : D # {} /\ outputs' = MarkAll(D)
  /\ round' = NoRound
  /\ held' \in {held, 0}
  /\ UNCHANGED <<chain, forks, watched, checkpoint, seen, network, since, excused>>

\* It stops between the three writes of handle_reorg.
CrashInReorg ==
  /\ round.phase = "reorg" /\ checkpoint # NoBlock
  /\ ~StillCurrent \/ "unread" \in Fault
  /\ Happens("crash_in_reorg")
  /\ LET fork == FindForkPoint(checkpoint.height)
     IN  outputs' = UnconfirmAbove(fork) /\ seen' \in {seen, ForgetAbove(fork)}
  /\ round' = NoRound
  /\ held' \in {held, 0}
  /\ UNCHANGED <<chain, forks, watched, checkpoint, network, since, excused>>

\* A watch ends.
Unwatch(s) ==
  /\ s \in watched
  /\ Happens("unwatch")
  /\ watched' = watched \ {s}
  /\ since' = [since EXCEPT ![s] = NoBlock]
  /\ UNCHANGED <<chain, forks, store, held, round, network, excused>>

\* A watch begins.
Watch(s) ==
  /\ s \notin watched
  /\ watched' = watched \cup {s}
  /\ UNCHANGED <<chain, forks, store, held, round, network, since, excused, faults>>
-----------------------------------------------------------------------------
(* The specification *)

Init ==
  /\ chain = [h \in 1..Max({1, Recorded}) |-> [hash |-> 0, pays |-> {}]]
  /\ forks = 0
  /\ watched \in SUBSET Script
  /\ checkpoint = IF Recorded = 0 THEN NoBlock ELSE AnchorAt(Recorded)
  /\ seen = [h \in 1..Recorded |-> 0]
  /\ outputs = [o \in Outpoint |->
                  [state |-> "unseen", block |-> NoAnchor, deep |-> 0]]
  /\ held = 0
  /\ round = NoRound
  /\ published = {}
  /\ marked = [s \in Script |-> NoBlock]
  /\ since = [s \in Script |-> NoBlock]
  /\ refused = {}
  /\ late = {}
  /\ faults = 0

\* Where a reorganization may put the payments it moves; 0 is nowhere.
Placement == [Outpoint -> 0..MaxHeight]

Chain ==
  \/ \E P \in SUBSET Outpoint : Mine(P)
  \/ \E fork \in 1..MaxHeight, place \in Placement : Reorganize(fork, place)

Step ==
  \/ StartRound
  \/ FirstRound
  \/ NoReorg
  \/ HandleReorg
  \/ ScanBlock
  \/ Sign
  \/ \E s \in Script : Publish(s)
  \/ FinishRound

Failure ==
  \/ Crash
  \/ CrashInReorg
  \/ CrashInSign
  \/ \E s \in Script : PublishRefused(s) \/ PublishUnreachable(s)
  \/ TipUnreachable

WatchList == \E s \in Script : Watch(s) \/ Unwatch(s)

Next == Chain \/ Step \/ Failure \/ WatchList

Spec == Init /\ [][Next]_vars

\* The loop runs for ever, and every step of a round ends.
FairSpec == Spec /\ WF_vars(Step)

-----------------------------------------------------------------------------
(* Properties *)

\* The height a payment is mined at, 0 when it is not on the chain.
HeightOf(o) ==
  LET at == {h \in DOMAIN chain : o \in chain[h].pays} IN IF at = {} THEN 0 ELSE Max(at)

\* A payment on the chain that the bridge should speak of: its script is watched,
\* and was when the bridge first scanned the height it is at, and the contract
\* has refused no claim of it, which the bridge may not sign again
\* (main.rs:746-753).
Due(o) ==
  /\ HeightOf(o) # 0 /\ o \notin refused /\ since[ScriptOf(o)] # NoBlock
  /\ since[ScriptOf(o)] <= HeightOf(o)

ConfirmedAt(o, anchor) ==
  \E c \in published : c.kind = "Confirmed" /\ c.outpoint = o /\ c.anchor = anchor

CaughtUp == round = NoRound /\ checkpoint = AnchorAt(Len(chain))

ReadsConfirmed(o) ==
  LET status == Status(published, o)
  IN  HeightOf(o) # 0 /\ status.kind = "Confirmed" /\ status.anchor = AnchorAt(HeightOf(o))

\* Once the bridge has followed the chain to its tip, a reader of its claims
\* finds every payment it ever spoke of confirmed in the block that has it now,
\* and retracted when no block has.  A reorganization that moves a payment, or
\* drops it, leaves neither a stale confirmation nor a standing retraction,
\* watched or not, if the bridge noticed it no further behind than one round
\* (handle_reorg, scan_set, retraction_claims).
StatusMatchesChain ==
  CaughtUp =>
    \A o \in Outpoint \ late :
      \/ About(published, o) = {}
      \/ ReadsConfirmed(o)
      \/ HeightOf(o) = 0 /\ Status(published, o).kind = "Retracted"

\* The bridge never says at one chain position both that a payment is on its
\* chain and that it is not, in one round or in two (retraction_claims), while
\* it notices reorganizations no further behind than one round: beyond that
\* nothing is promised (scan_ceiling).
NoContradiction ==
  \A c, d \in published :
    /\ c.kind = "Confirmed" /\ d.kind = "Retracted" /\ c.outpoint = d.outpoint
    /\ c.outpoint \notin late
    => c.as_of.height # d.as_of.height

\* A payment in a block at or below the checkpoint was published as confirmed
\* in that block, if its script was watched when the block was first scanned
\* and ever since: no crash, no failed publish and no reorganization makes the
\* bridge pass over a block with a payment nobody attests, and claims that a
\* contract refuses cost no other script anything (observe_once).
NothingSkipped ==
  round = NoRound /\ checkpoint # NoBlock /\ OnChain(checkpoint) =>
    \A o \in Outpoint :
      Due(o) /\ HeightOf(o) <= checkpoint.height => ConfirmedAt(o, AnchorAt(HeightOf(o)))

\* A published watermark never says more than was published: each payment to
\* its script at or below it, from where the watch began, is confirmed there.
\* Else a reader takes "nobody has published it" for "nothing was received".
WatermarkCovers ==
  \A o \in Outpoint :
    LET mark == marked[ScriptOf(o)]
    IN  Due(o) /\ mark # NoBlock /\ OnChain(mark) /\ HeightOf(o) <= mark.height
        => ConfirmedAt(o, AnchorAt(HeightOf(o)))

ClaimsIn(r) == IF r.phase \in {"scan", "publish"} THEN r.claims ELSE {}

\* A confirmation is signed only for a payment that is in the block it names,
\* which the node has on its chain at that moment, and at no greater depth
\* than it has there (claims_from_block, deep_claims).
SignedAsSeen ==
  [][\A c \in ClaimsIn(round') \ ClaimsIn(round) :
       c.kind = "Confirmed" =>
         /\ OnChain(c.anchor)
         /\ c.outpoint \in chain[c.anchor.height].pays
         /\ AttestedDepth(c) <= Confirmations(c.anchor, Len(chain))]_vars

\* For good on the chain and due to be spoken of, and in no reorganization that
\* was noticed late.
Settles(o) == <>[](Due(o) /\ o \notin late)

\* A payment that stays on the chain, to a script that stays watched, is at
\* last read as confirmed in its block, and stays so.
PaymentsConfirmed ==
  \A o \in Outpoint : Settles(o) => <>[]ReadsConfirmed(o)

\* When nothing fails, a payment that stays is at last provable as deep as the
\* ladder goes: to the highest rung its depth on the chain has reached.
LadderCompletes ==
  \A o \in Outpoint :
    Settles(o) =>
    <>[](ConfirmationsAt(Status(published, o), Len(chain))
           >= LadderRung(Len(chain) + 1 - HeightOf(o)))

\* A payment the bridge published as confirmed, and the chain then dropped for
\* good, is at last retracted (what the documentation says of every reorg).
OrphansRetracted ==
  \A o \in Outpoint :
    <>[](HeightOf(o) = 0 /\ About(published, o) # {})
    => <>[](Status(published, o).kind = "Retracted")
=============================================================================
