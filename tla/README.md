# freenet-bitcoin, specified

A bridge watches the Bitcoin chain through a node of its own and publishes signed
claims about payments into contracts on Freenet, where peers hold, merge and
exchange them. People ask it to watch an address by leaving a request in its
*inbox*, a third contract. This directory specifies what those parts do in TLA+,
checks small instances of it with TLC, and proves some of it with TLAPS.

Paths below are relative to the repository.

## The system

| Part | State | Operations | Talks to |
|---|---|---|---|
| request inbox, contract (`inbox/src/state.rs`) | a signed floor, waiting entries, signed removal batches, certificates | `apply_delta`, `normalize`, `merge`, `summarize`, `delta`, `verify` | every peer that hosts it; senders; the bridge |
| request inbox, pass (`bridge/src/inbox.rs`: `Processor::pass`) | rows of the store: `signed_floor`, `inbox_handled`, delegations | read a copy, read entries one transaction each, sign removals and a floor | the inbox on its own node; interests |
| requests (`Processor::act`, `expire_watches`; `store.rs`: `set_interest`, delegations) | interests per script and Ghost Key, withdrawals, delegations | watch, unwatch, revoke, expire | the pass; the observer's watch list |
| inbox worker (`Driver`, `InboxWorker`, `FloorHold`, `QuietCache`) | connection, outstanding read, holds | tick, reply, open, reconnect | the Freenet node |
| observer (`bridge/src/main.rs`: `observe_once`; `observer.rs`) | rows of the store: checkpoint, recorded blocks, outputs, published claims; `held_rounds` | a round: detect a reorganization, scan, sign, publish, move the checkpoint | the Bitcoin node; the address and tip contracts |
| address contract (`common/src/address_state.rs`) | claims by digest, one watermark per bridge | insert, cap, summarize, delta, verify | every peer that hosts it; readers |
| what claims say (`common/src/lib.rs`) | none | precedence, fold, attested depth | readers, the observer's tests |
| tip contract (`common/src/tip_state.rs`) | one entry per height, the newest 64 | keep the best, prune, summarize, delta | every peer that hosts it |
| publisher (`bridge/src/freenet.rs`) | one connection with a back-off | update, or put then update | the Freenet node |
| migration (`bridge/src/migrate.rs`) | agreement of walks, a seal per address | walk predecessors, merge, count, seal | publisher, store |
| generation pointers (`bridge/src/generation.rs`, `generation/`) | a version per artifact | read back, publish, re-assert | publisher, store, web app |
| evidence (`bridge/src/chain.rs`; `common/src/spv.rs`, `signing.rs`) | none | read a block and headers, build a Merkle branch; parse, check headers, fold it | the Bitcoin node; contracts; readers |
| web page (`webapp/src`: `app.rs`, `state.rs`, `generation.rs`) | the generations it settled on, contracts asked for, lookups, what is shown | resolve pointers, look up, route answers, switch network | its Freenet node; pointers, tip and address contracts |

What is hard in it:

* contracts have no leader. Peers merge what they are sent, late, twice, in any
  order, under caps that throw records away, and decide that they agree by
  summaries that say less than the state;
* the bridge reads a copy of its inbox that is old by the time it answers, must
  act on each request once, and must forget what it read without ever reading it
  again;
* a round of the observer is a long sequence of writes, reads of a node whose
  chain may change, and publishes that may fail, and the bridge may die in
  between. What it signed cannot be taken back, only outranked;
* everything the bridge says twice at one chain position is settled against the
  payment;
* a Freenet node answers late, twice, or never, on one connection whose replies
  carry no request id, and cannot say whether nothing exists or nothing was found.
  Absence is nonetheless acted on: an inbox is opened, a floor raised, a migration
  declared finished, a pointer taken for one never published.

What makes each part correct is stated as the properties below.

## Modules

Each module's header says what it leaves out.

    InboxState                the inbox contract's functions
      InboxNetwork            its replicas: peers, senders, a network that loses,
                              repeats and delays
        InboxReplicas         + the bridge as senders see it (the abstract bridge)
          InboxReplicasProofs   theorems
        InboxBridge           + the pass as the code does it; implements InboxReplicas
          InboxBridgeProofs     theorem
    InboxSession              the worker that decides when a pass runs, on which copy,
                              and whether it may raise the floor
      InboxSessionProofs        theorems
    Interests                 who asked for what, and when a watch ends
      InterestsProofs           theorems
    Claims                    what claims say of a payment
      ClaimSet                the address contract's functions
        ClaimPeers            its replicas and what bridges publish to them
      Observer                the observer's rounds against chain, store and network
        ObserverProofs          theorems
    TipState                  the tip contract's functions
      TipPeers                its replicas
    Peers                     ClaimPeers and TipPeers side by side
    Evidence                  the proof a confirmation carries, built and checked
      PeersProofs               theorems about Peers and Evidence
    NodeLink                  the bridge's connection to its Freenet node
      Migration               walks over an address's predecessors, counted and sealed
        MigrationProofs         theorems
    Pointers                  which generation the bridge says it writes to
      Page                    the web page that reads pointers, tips and addresses
        PageProofs              theorems
    MC*                       small instances for TLC

**InboxState.** A record per state (`floor`, `entries`, `removals`), and the
operators `Normalize`, `ApplyDelta`, `Merge`, `Summarize`, `Delta`, `Verify`, named
after the functions of `inbox/src/state.rs`. An entry is a record with its key, the
prefix removals name it by, its height, its Ghost Key, the serial of the
delegation it was signed under, and whether its checks succeed. Buckets are a
function from records to numbers, so that collisions happen.

**InboxNetwork.** `inbox[p]` is what peer `p` holds; `net` are deltas on the wire.
`Submit` is a sender's update, `Sync` a neighbour's summary answered at once,
`Send`/`Arrive`/`Lose` the same with a delay. The Freenet node is modelled from how
it calls the contract.

**InboxReplicas.** What the bridge may do, whatever its pass looks like inside:
open a waiting request once (`Read`), sign a higher floor (`SignFloor`), tell its node
removals of what it opened and its floor (`Publish`, `PublishLate`).

**InboxBridge.** The pass, one action per step that may be interrupted: `GetCopy`
(the node's answer), `OpenPass` (record the copy's floor, prune), per entry one of
`SkipEntry`, `DeferEntry`, `FindAlreadyRead`, `ReadEntry`, then `SignDelta` and
`SendDelta`, `SendLate` or `NothingToSend`. `Crash` ends a pass anywhere and keeps the
store. `InboxReplicas` is
instantiated with the same variables: a pass's writes to the store are
`SignFloor` and `Read` steps, its delta a `Publish`, everything else stutters.

**InboxSession.** What decides which copy a pass works on. Variables: the inbox of the
other peers (`net`), the copy of the bridge's node (`copy`, and whether it is
`following` the others), the connection (`up`, unanswered `reads`, `replies` under way),
`driver` (the outstanding read's age, whether to read again, the time to the next
opening), the two halves of the hold (`rearm` is `FloorHold::armed_at`, `expiry` is
`expiry_until`), the `quiet` cache, and the store's `signed` floor, `handled` requests and
`watch`. `OnTick`, `OnChanged`, `OnFailed`, `OnAbsent`, `Process` are `Driver::on_tick`, the
cases of `Driver::on_reply` and `InboxWorker::on_state`; `Connect` and `Drop` the reconnect
loop; `Pass` is the pass in one step, over one watch. `Answer`, `FailRead`, `Follow`,
`LoseCopy` are the node; `Send`, `Mine` senders and the chain. History: `awaited` are
requests the other peers held when the bridge came back, `answered` what it read.

**Claims, ClaimSet, ClaimPeers.** A claim is a record of its bridge, kind, outpoint,
amount, anchor, position and proof; digests and sizes are constants, so that ties
and both caps happen. Peers are told batches of claims and a watermark by bridges,
trusted or not, and answer each other's summaries.

**TipState, TipPeers.** Entries with height, hash and digest; the rest as above.

**Evidence.** A hash is the term it is the hash of, so that two are equal only when what
was hashed is. `ReadTip`, `ReadBlock`, `ReadHeader` are separate calls of `deep_claims` and
`build_spv_proof`, between which `Move` gives the node another chain; `SignDeep` signs what
was put together. `MerkleRoot` and `MerkleBranch` are the bridge's, `MerkleRootFromBranch`,
`HeaderHolds`, `SpvHolds`, `ClaimHolds` and `ProvenDepth` the checks of contracts and readers.
The loops that climb a tree are functions of the number of rounds (`Climb`, `Folded`).
`BlockAssumption` and `ChainAssumption` are what a Bitcoin node answers with: blocks that
follow each other, each with the root of its transactions in a header with work, and a
header of one block only; the floor rejects no genuine block, as
`common/src/lib.rs:153-154` has it, and no tree is as deep as `MAX_MERKLE_DEPTH`. Of the sizes
of transactions nothing is assumed.
`MCPeers` puts ClaimPeers, TipPeers and Evidence side by side: no two share state, so
each is explored while the other two have not begun.

**NodeLink, Migration.** NodeLink is a record (connection `open`, `waiting` after a failed
dial, replies nobody has read) and `Request`, which gives the link after a request and
the reply its caller gets: the oldest on the connection. `GetSays`, `UpdateSays`,
`PutAnswered` are what the caller makes of it. One reply nobody asked for may wait on the
connection (`Unasked`): of another contract, or an older node's miss, which names none and
which a probe takes for its answer (`freenet.rs:675`). Migration adds the world (predecessors
that never answer, a spell in which the node finds none), the walk under way
(`StartWalk`, `Probe` per predecessor, `Update`, `Put`, `Count`), the process's clock
(`warm`, `next`: `WalkClock`), the wall clock as seen from the last stamp (`lag`), and the
rows `migration_agreement` (`count`, `lag`) and `migration_done`. `Count` takes in which of its
reads and writes fail.

**Pointers, Page.** `stands[a]` is what artifact `a`'s pointer has named, its length the
version; `recorded` is the bridge's row. `PublishOne` is `read_published`, `publish_one` and
`set_pointer_record` with what may fail in each. `Page` adds a visitor: `page` holds the
slots of `generation.rs`, pointers asked for (`flying`), contracts asked for (`asked`), the
lookups, what is `queued` until the generations are settled, and the tip and views on
display. Every answer the code handles is an action: a pointer's record, its absence, an
error that names it or none, a tip, an address; `TimeOut` and `PatienceEnds` are its
timers, `SwitchNetwork` and `Lookup` the visitor.

**Interests.** Variables: the tables `script_interests`, `watch_delegations` and
`watched_scripts`, what the observer has written (`blocks`, `scanned`, `payment`), the
bridge's clock and the `pass` under way. `ReadRequest` is `act` in its transaction:
a revocation first, then the checks, the delegation, `set_interest` (`AfterWatch`,
`AfterUnwatch`) and the watch list. `StartPass` forgets withdrawals, `StartExpiry`
reads the scan position and the watches that ran out, `EndWatch` ends one in a
transaction of its own. Between any two of them the observer scans (`ScanBlock`,
`Commit`), goes back in three writes (`GoBack`, `ForgetBlocksAboveFork`, `RewindToFork`),
or the process starts again (`Restart`). Two history variables, `heard` and
`withdrawn`, hold what each Ghost Key was promised and took back, which the rows no
longer tell: the invariants compare the two.

**Observer.** Variables: the node's `chain` and how often it forked; the watch list;
the store's `checkpoint`, recorded blocks (`seen`), `outputs`; `held` rounds; what the
network was told (`published`, `marked`); and the `round` under way. `Mine` and
`Reorganize` are the node. A round is `StartRound` (read tip, watch list and payments
in doubt), one of `FirstRound`, `NoReorg`, `HandleReorg`, then `ScanBlock` per block,
`Sign` (retractions, deep claims, watermarks), `Publish`, `PublishRefused` or
`PublishUnreachable` per script (the claims may have arrived all the same), perhaps
`TipUnreachable`, and `FinishRound` (the checkpoint). `Crash` ends it anywhere; `CrashInReorg`
between the separate writes of `handle_reorg`, `CrashInSign` between the payments that
`deep_claims` marks. `Watch` and `Unwatch` are other parts of the bridge. The constant
`Fault` says which failures an instance has, `MidRound` whether the node's chain may
change inside a round.

## What the runs show

| Run | Question | Answer |
|---|---|---|
| `inbox_replicas` | Do replicas stay valid, merge alike, speak of every difference, keep removed requests out; is a request read once, and removed only if read? | yes |
| `inbox_exchange` | Do two peers agree after each told the other its state, as the crate documentation says? | **no**, see below |
| `bridge_implements` | Does the pass, crashing anywhere, do only what the abstract bridge may; do floors reach the inbox; are requests answered? | yes |
| `inbox_session` | Over a connection that drops and a node that loses its copy: is a request other peers held ever dropped unread, does a watch end while its renewal waits, are requests read, does the floor follow? | never, never, yes, yes |
| `interests` | Does the newest request decide, whatever order requests are read in; is a script scanned exactly while wanted; are heights held; does a revoked key keep nothing; does a watch run out only when due? | yes |
| `peers` | Do claim sets stay valid, never take a reader back to an earlier height, prefer the retraction at a tie; is a held tip a function of what was heard; do peers settle on both; is the bridge's evidence accepted exactly when it is of one chain? | yes |
| `observer_chain` | Do the bridge's claims read as the chain is, through two reorganizations, an ended watch and a bridge left far behind; does one ever contradict another of its chain position; does the ladder finish? | yes, never, yes |
| `observer_faults` | With two of crash, unreachable node, lost reply, block that cannot be read, refused claims and failed tip publish: is a payment ever passed over but a refused one, a watermark ever too high; is a payment confirmed at last? | never, yes |
| `observer_races` | With the chain changing inside rounds and any one failure: is every confirmation true when signed? | yes |
| `observer_orphan` | Is an orphaned payment always retracted, as the documentation says? | **no**, see below |
| `migration` | Through a silent predecessor, a dark spell, stray and lost replies, failed writes, a restart and a clock set: is what is counted stored, are counted walks spaced, does a seal ever cover something left behind, is what answers carried, does it end? | yes, never, yes |
| `page` | Do pointers come to name what the bridge writes to; does the page take silence for absence, show together what does not belong together, or stay mute? | yes, never |

### Where code and documentation part

* **`inbox_exchange`.** `normalize` lets only a Ghost Key's best delegated entry stay,
  then applies the cap of two entries to a key; the best one may lose its place to
  two newer entries and still have kept the other delegated one out. One peer holds
  an own entry at height 2 and an older delegation's at 2; the other an own entry at
  1 and a newer delegation's at 1. After each told the other everything they differ
  (a further exchange brings them together). `inbox/src/lib.rs:94` says they agree.
* **`observer_orphan`.** A round that found a payment keeps its checkpoint below the
  payment's block until the whole round is out. If the tip publish alone finds no
  node, the confirmation is out and the checkpoint is not moved. When that block is
  now replaced by one without the payment, the next round's look for a
  reorganization compares only the block at the checkpoint, sees none, scans the
  replacement, and the payment reads as confirmed for ever.

### Other behaviour the models have

Two watermarks of one bridge at one height, which it signs when a reorganization
replaces the block it scanned to, leave two peers different for good in the bytes by
which `address_state.rs:20-24` has them decide that they agree, until the bridge scans
higher: `insert_verified` keeps whichever came first, and summaries show heights only. In
`peers` bridge 1 signs two such watermarks, so `PeersSettle` says that peers come to tell
their readers the same, who take the height alone; that they come to hold the same state is
violated there.

When a contract refuses a script's claims the round logs that it will try again
(`main.rs:752`), and moves its checkpoint past them, so that only a reorganization or a deeper
rung may ever say them again; the watermarks of later rounds cover the payment all the same.
`Due` leaves out the payments whose claims were refused (`refused`), and no other: the other
scripts of the round lose nothing, as the comment at `main.rs:748-751` says.

The caps of a claim set rank claims by height and, at one height, by digest
(`address_state.rs:166-178`), the fold by height and then against the payment
(`lib.rs:724-738`). So of a retraction and a confirmation of one height the caps may drop
the retraction, which readers went by, and keep the confirmation, although
`address_state.rs:163-165` has them keep the decision-relevant evidence. In `peers` a claim
about another output does this to bridge 1's retraction at height 4, and bridge 2's
confirmation reads as the status of the payment until something higher arrives.
`NeverStepsBack` allows this and nothing more.

Nor is applying a delta of claims idempotent where the caps bite, as `address_state.rs:90-93`
has it. Of the claims in `Story` of `MCPeers`, a set of bridge 1's confirmation at height 3 and bridge 2's at height 4
that is given bridge 1's retraction at height 4 and its claim at height 2 goes over the cap
on bytes at height 3 and keeps neither that nor the claim at height 2, for the caps drop
all that ranks below what they drop; given the same again, it has
room for the latter. So a repeated delta may add a claim; it takes none away, and no third
time changes anything (`ClaimRepeatsSettle`).

`handle_reorg` takes a node that cannot be asked for the checkpoint's block for one that no
longer has it (`observer.rs:292-300`), and `deep_claims` passes over a payment whose block it
cannot read (`:561-583`). Both are `"unread"` in `observer_faults` and `observer_races`: the
first costs a second scan of the blocks since, the second a round, and neither a payment.

`deep_claims` reads its node by height between the scan and the headers. When the chain
changes in between, the proof is torn between two chains; the bridge signs it
unchecked, marks the rung published (`observer.rs:623`), and the contract refuses it
with the rest of the script's batch of that round (`main.rs:746`). `EvidenceIsJudged` says
that the contract does refuse it, and that evidence of one chain is taken.

Nor does the bridge look at the size of the transaction it proves. A payment in one of more
than `MAX_RAW_TX` bytes without its witnesses (`spv.rs:78`) is scanned and signed, and every
contract refuses the claim, with the rest of the batch: the exception `Fits` in
`EvidenceIsJudged`. `MCPeers` has such a payment in each block of four transactions or more.

The pointers and the page have these, which are the named exceptions in their
properties:

* a bridge that lost its database, reads a pointer while the node answers nothing (or
  founds a second copy), publishes at version 1 what the standing record has at version
  1 too (`generation.rs:184-188` says that silence never restarts the counter, but with
  no row to fall back on it does); at that tie it goes on asserting its own (`tied`);
* an error that names no contract is taken for the one pointer outstanding, of which
  `webapp/src/app.rs:664` and `generation.rs:176` say there is exactly one; after a watchdog
  or a switch of network there may be two, and the wrong one is taken for never
  published;
* the page ignores the successful `NotFound` a current node sends: a pointer is then
  given up by the watchdog, and a lookup of an address stays pending;
* after a switch away and back, a late tip of the embedded generation fills the page
  while its generations are being resolved, and stays;
* when the address contract was withdrawn, lookups that were queued are dropped without
  a word.

`Interests` has a few corners that its properties leave room for:

* a height a watch key asked for on a watch its Ghost Key itself made, or renewed
  afterwards, outlives the key's revocation, since the row is then the Ghost Key's own
  (`store.rs:1187`, `:1384-1405`);
* a request that revokes, and watches again what the revoked key had dated ahead, has
  its Watch ignored: the row is dated as that request is, and the Watch is not newer
  (`store.rs:1176`, `:1401`);
* withdrawals are counted only where the script was never asked for
  (`store.rs:1218-1226`), so a Ghost Key that watches and unwatches script after script
  leaves more of them than its limit, for a day.

These instances of `MCObserver` violate a property, and are why the passing runs
leave the named fault out. Start from `MCObserver.cfg` with `RoundBlocks = 3`,
`MaxHeight = 5`, `MaxForks = 1` and the property as the invariant.

| Change | Property | What happens |
|---|---|---|
| `Fault = {"crash_in_reorg"}` | `NothingSkipped` | the bridge stops after `forget_blocks_above` and before `rewind_checkpoint_to`; the next round resumes above the replacement blocks (`observer.rs:334-343`) |
| `Recorded = 0`, `Outpoint = {o1, o2}`, `Fault = {"unreachable"}` | `NothingSkipped` | a first round that could not publish leaves no checkpoint; the next one starts at a newer tip (`main.rs:521-527`) |
| `MidRound = TRUE`, `Fault = {}` | `NothingSkipped` | the chain is reorganized during the scan, below the next height: no block is checked against the one before it (`main.rs:563-574`) |
| `MidRound = TRUE`, `Fault = {}` | `NoContradiction` | the chain is reorganized between the read of the tip and the look for a reorganization: a retraction at the position of the confirmation (`main.rs:498-519`) |
| `Fault = {"unreachable"}` | `StatusMatchesChain` | retractions and deep rungs of a round that could not publish are not signed again, which the code notes (`main.rs:772-776`) |

## Bounds

* Peers: two. Every property of the contracts is about one peer, or a pair; merges
  are pairwise. Home is one of the two.
* Inbox: three or four entries of one or two Ghost Keys, caps of two per key and two
  or four in all so that both discard, a window of one or two blocks, floors up to
  two, prefixes that collide across heights, buckets that collide. One message in
  flight is enough for a delta to arrive after the floor it predates, or twice.
* Bridge: tips 0 and 3, so that a floor passes the window and both entries; a budget of
  one, so that reading waits.
* Worker: one request, which renews the one watch, over a chain of three blocks, a lag of
  one and a window of two, so that the floor passes what was sent; a hold of one tick
  rearmed after two; a copy lost once, one read unanswered, one reply late; at tip 3 the
  budget is spent by others (`Crowded`).
* Claims: six claims of three bridges about two outpoints, caps of three claims and
  five units of size: each discards when the other would not, and they choose between
  two claims of one height. Three watermarks, two of them of one height. Bridges publish
  one claim or watermark at a time.
* Evidence: blocks of 1 to 9 transactions for the branch, the fourth too large, chains of up to five blocks
  that part at any of three heights, one change of chain between any two reads, rungs
  up to 4 and at most two following headers.
* Tip: a window of two and five heights, so that pruned heights come back.
* Interests: one Ghost Key and its watch key, four requests about two scripts of which
  one was registered by the operator, read in any order within one unit of time of
  being sent, a limit of one watch, times up to 3, three heights with blocks dated 1 or
  3, one reorganization or restart, payments to one of the scripts. So a withdrawal is
  forgotten, a request waits behind a newer one, blocks are dated before and after a
  watch's day, and the deciding block is replaced.
* Observer: a chain of up to six blocks (four with two scripts) of which two are
  scanned already, one or two reorganizations up to `MaxReorgDepth = 2` deep,
  windows of two or three blocks so that a round falls short of the tip, also one that
  follows a reorganization, a ladder to 3 or 4. `MaxHeight`, `MaxForks` and `MaxFaults` are the bounds; the others are the
  program's own constants made small. A reorganization is never deeper than
  `MaxReorgDepth`: the code promises nothing beyond it. Nor does it for a payment taken off
  the chain by a reorganization that the bridge notices from further behind than one round
  (`observer.rs:66-73`, `:371-388`): `late` remembers these, and without it `observer_chain` finds the
  retraction at the tip that the next round contradicts, and the payment read as retracted.

* Migration: two predecessors with a claim each, either or both silent, one spell of five
  intervals in which the node finds none, four counted walks at least two intervals
  apart, the wall clock set once by up to two, one restart, one failed request or write
  or stray reply. A dark spell is shorter than the time four spaced walks take, which is
  what `SEAL_AFTER_WALKS` and `SEAL_SPACING` are chosen for.
* Page: two artifacts, two generations, two networks, one address besides an example,
  two changes of network, two mishaps of the bridge (lost database, failed read, write
  or record), one new block.

Deadlock is checked where the system cannot stop. The inbox runs, `interests`,
`migration` and `page` switch it off: entries, time, restarts, walks or visits that are used
up end an instance, not the system.

## Fairness

* Replicas: `Sync` along each link happens again and again (peers exchange summaries
  on every heartbeat), stated in ClaimPeers and TipPeers as weak fairness of a `Sync` that
  changes something. `Submit`, `SignFloor` and the bridges' publishing are never forced.
* The bridge polls every `POLL_INTERVAL`, so `GetCopy` from its own node and the steps
  of a pass are fair; faults are not.
* The worker connects, ticks and takes in replies: weak fairness. The node answers and
  catches up, and ticks happen, strongly: a connection that drops interrupts each.
  Connections may drop for ever, but from some time on none before an answer has come
  within its last tick, and none stays away for more than a tick (`MAX_BACKOFF` is half
  the hold). The environment is assumed, by guards, to catch up before a hold ends when
  no older copy is in flight (`CaughtUp`; what it answered with before it lost its copy is
  older, too), and a request to reach the bridge's node within
  a block (`Prompt`); both are what `FLOOR_HOLD_MS` is sized for (`inbox.rs:139-165`). A copy
  lost within the re-arm interval, which the code names as its residual, and a stale
  copy whose floor is within the window, which nobody could tell from a live one, are
  outside.
* Migration: walks start and go on, time passes, a wait for a dial ends.
* Page: its watchdogs and `TIP_PATIENCE` fire; the bridge's half-hourly publish of each pointer
  succeeds at last, mishaps being bounded. No answer from the node is ever fair.
* The observer's loop runs every two seconds for ever and each step of a round ends:
  weak fairness of `Step`. The chain, faults and the watch list are not forced; faults
  are bounded, for with unbounded failure nothing is promised.

## What is proved

`InboxReplicasProofs`, for every set of peers, links, entries and prefixes, all caps and any
window, from `PeerAssumption` and the assumptions of `InboxState` (heights and bounds are naturals, caps are what they are, `NoFloor` is not a
number):

* `TypeCorrect`: `Spec => []TypeOK`.
* `NothingEverReturns`: `Spec => NothingReturns`. The lemma is about `ApplyDelta`: whatever
  the delta, an entry removed or passed stays removed or passed, because a batch is
  dropped only when another covers it or the floor passes it, and normal form has
  nothing waiting that is either. `Sync`, `Submit`, `Arrive`, `Publish` are all instances.
* `RemovalsAreReceipts`: `Spec => []OnlyReadIsRemoved`, from an invariant that also speaks
  of every delta on the wire: it names only what the bridge has opened. Removal
  prefixes of entries at one height are assumed not to collide (`PrefixAssumption`), as
  the code relies on; at different heights they may.
* `OwnRequestKeepsItsPlace`, about `Normalize` alone: whatever a Ghost Key's watch keys sign,
  the newest request it signed itself keeps one of its places, for any set of entries and a
  cap of at least two, because of the delegated entries only one stays
  (`OneDelegatedStays`).
* `MergeLaws`, about the contract alone, for all states that `verify` accepts: merging a state into
  itself changes nothing, whatever the caps; two states merge to the same in either order
  while their removals fit; and the grouping of three makes no difference while no cap
  refuses or discards anything (`NothingLost`), as `inbox/src/lib.rs:90-93` has it and
  `inbox/src/tests.rs:1252` tries on random states. It is enough that the two inner merges discard
  nothing; the outer ones may. What `verify` accepts is in normal form
  (`AcceptedIsNormal`), for the caps leave alone what is within them (`CapsLeaveBe`); and a batch
  that normal form drops for another can be dropped early, and an entry that a batch removes
  early is removed later too, or passed (`NormalizeEarly`).
* `NeverReadTwice`: `Spec => []ReadAtMostOnce`. Not inductive: what keeps the bridge from
  reading again what it forgot is that it forgets only below the floor it has
  signed, and reads nothing below it. The invariant adds: an entry read is in
  `handled` or below `signed`.
* `StatesVerify`: `Spec => []EveryStateVerifies`. `apply_delta` never calls `verify`, so what it
  leaves must be acceptable by construction (`DeltaVerifies`): it checks each record it takes
  in, refuses a delta that would leave too many removals, and normal form keeps the entries
  within their caps (`KeptWithinCaps`), because ranked entries each with fewer than `n` above
  it are at most `n` (`RankedCount`).
* `DifferencesAreTold`: `Spec => [](\A p, q : NoSilentDifference(p, q))`, the half of `PeersAgree`
  that is about summaries. An empty delta one way means containment, both ways equality, for
  any bucket function.
* `PeersComeToAgree`: `Spec => []PeersAgree`, the whole of it. A merge compares with what is
  held before it adds, but that loses nothing (`MergedRemovals`), so it is the normal form of all
  that either state has (`MergeIsNormal`), unless the removals it comes to are too many: then it
  is refused and each state stays, and the two would never agree. That this cannot happen
  (`ReceiptsFit`) takes two invariants. `InLine`: of two batches for one height the later names
  all that the earlier does, so one per height stays. `FromHome`: removals come into the network
  through one peer, the bridge's node; the states it has held are ordered, each later one above
  the floor of an earlier one or covering its batches (`DeltaIsOver`), and what any other peer
  holds, or is sent, is within one of them (`DeltaStaysWithin`). So the batches of two peers
  are covered, height by height, by those of the later of two such states, and that one
  verifies. `FromHome` is why the argument needs no bound on what the bridge reads: a bridge
  writing to two nodes would need one.
* `ExchangeAgreesWithinCaps`: one message after the other leaves both peers with one state
  whenever the first merge discards no entry. This is the bound on what `inbox_exchange` shows:
  `lib.rs:94-98` is wrong of exchanges in which the caps discard an entry, and of no others. It
  follows from `MergeOfThree`, on which `MergeLaws` rests, and `ReceiptsFit`.

`InboxBridgeProofs`, from the same assumptions and `BridgeAssumption`, for any entries, window
and bounds (the lemmas on the network that it needs are proved again here: it shares no
more than the network with InboxReplicas):

* `PassKeepsPromise`: `Spec => ImplementsReplicas`, the refinement. `SignDelta` is the promise's
  `SignFloor` or a stutter, `ReadEntry` its `Read`, the sends its `Publish` and `PublishLate`;
  opening a pass, pruning and all that a crash forgets stutter. What the promise calls
  handled is what the store has above the floor it signed. The invariant `IInv` has that
  nobody was told a floor that the store lacks (`FloorsSigned`), that copies under way are
  settled states (`CopiesSettled`), that what was opened is remembered until the floor
  in force passes it (`OpenedRemembered`), and that a pass under way works under the floor in
  force and has read nothing the floor has passed (`PassInForce`). The last makes a stale copy
  harmless, since a pass adopts the higher of the copy's floor and the store's, and it is why
  the pass's batch for a height is the receipt the promise sends.

`InboxSessionProofs`, for any requests, lag, window, holds, timers, budget and bounds, with
any number of reads under way, from `SessionAssumption` (constants are numbers, a request is
dated within the window, the watches' half of the hold lasts some time and no longer than
the interval at which the floor's half is armed again, and the values for what was not sent
and for no copy are neither a height nor a copy):

* `AwaitedIsComeTo`, `RenewalsComeFirst`: `Spec => []NothingAwaitedIsDropped`,
  `Spec => RenewalsAreHeeded`. Both are about the copy a pass happens to read, so neither is
  inductive. `SInv` has that copies hold no floor the bridge did not sign and remove nothing
  it did not read (`Copies`); that once the watches' half of the hold is over the node has
  caught up and no older copy is on its way (`Caught`, which is what the holds are sized
  for); and that, where requests are awaited, the floor's half is on for as long as the
  watches' half (`Timed`). So what was awaited, or renews a watch that is due, is in every copy
  that says it is fresh (`Waits`, `Renews`), and a pass over one comes to it (`ComesTo`) before
  it moves the floor or ends a watch.

`InterestsProofs`, for every set of Ghost Keys, scripts, watch keys and requests and every
bound of the inbox's clocks and heights, from `InterestAssumption` (the constants have
their types; the operator is nobody's Ghost Key) and, for the last three only,
`MemoryAssumption`:

* `TypeCorrect`: `Spec => []TypeOK`.
* `RevokedKeepNothing`: `Spec => []RevokedStayOut`. Inductive with the types: a revocation ends
  what its watch keys recorded and dates what they dated ahead back to its own date, so that
  the Ghost Key's next request counts; and a Watch is recorded only under a serial that no
  request read so far has revoked.
* `ScannedIffWanted`: `Spec => []WatchedIffWanted`. Not inductive: whether an end takes a script
  off the list depends on rows, not on who registered it. The invariant `TablesAgree` adds
  that the operator's row never leaves, and is there with any other on a registered script,
  so that such a script is never one that its last requester leaves.
* `NewestRequestDecides`, `NamedHeightsHeld`: `Spec => []NewestDecides`, `Spec => []HeightsHeld`.
  A forgotten row says nothing of what it held, so neither is inductive. The invariant `Told`
  has of each row that a running one is dated after the newest withdrawal and like the newest
  promise, and held through the heights of those in force (`Agrees`); that a row comes from a
  request sent before it was recorded; and that a withdrawal that is forgotten comes from one
  sent over `Memory` ago (`Traced`). What is read later was sent at most `Waits` before
  (`NewerThanWithdrawn`), and it is there that `MemoryAssumption` is needed: without it, a sender
  whose clock goes back further than its requests are apart can have an older-dated Watch
  counted after the day a withdrawal is remembered.
* `NoWatchEndsEarly`: `Spec => EndsOnlyWhenDue`. `Told` adds that a running row's day is that of
  the promise it stands for, and that every watch a pass is about to end still ran out by the
  block the pass read (`PassOfNow`), since nothing but the end of watches writes rows then.

`MigrationProofs`, for any number of predecessors, any bounds and any intervals with
`Interval <= Spacing`, from `MigrationAssumption`:

* `EvidenceStaysSpaced`: `Spec => EvidenceIsSpaced`. Not inductive: within a process
  `WalkClock::next` keeps walks apart, across a restart only the stamp by the wall clock
  does. The invariant `IInv` has the ranges of the clocks (`Clocks`), that a walk under way
  was due (`WalkIsDue`), that what was counted is stamped (`Stamped`), that without a restart
  the process's clock holds `next` up to the spacing still to pass (`ProcessKeeps`), and that
  without the wall clock set forward `lag` is at most the time elapsed (`WallKeeps`).
* `CountedStaysStored`: `Spec => []CountedIsStored`. On a connection without request ids a
  walk may be answered by the reply to another request. The invariant `Shapes` bounds what
  is left over to one reply, of another contract or of none: reading it answers no publish
  (`StrayIsNoAnswer`) and closes the connection, so that a publish is believed only when its
  own reply was read (`Believed`). `PublishedIsStored` adds that a walk about to be counted
  has its finds stored.
* `SealedIsCarried`: `Spec => []SealedOverNothing`, with `OutageAssumption` as well: the one spell
  in which the node finds nothing of any predecessor is no longer than the window of
  agreement, `(SealAfter - 1) * Spacing`. The code says that a longer one seals over nothing
  (`migrate.rs:266`). A walk told of a miss nobody asked about, by a node that names no contract,
  is excused, for with a spell just shorter than the window it makes up the agreement: the
  code cannot tell it from the answer. (In `migration` without the spell, `Dark = 0`, the
  property holds of these walks too.) The invariant `DInv` has that there is one spell (`OneSpell`), that a walk
  outside it found what it asked for (`AskedIsFound`), unless it is excused, and that counted walks that did not find
  everything were all in the spell, which has then lasted the spacings between them
  (`CountedInSpell`). So the last walk a seal needs was not.

`PeersProofs`, of the tip, for any peers, entries and retention, and any finite set of entries
published at once, from `TipInstance` (an entry's fields are numbers, and a digest is one
entry's):

* `HeldStaysWhatWasHeard`: `Tip!Spec => []HeldIsWhatWasHeard`. Inductive by one fact about sets,
  `PruneEarly`: pruning before more entries come makes no difference after. A pruned height
  had `TipRetain` higher ones, and they, or better entries of them, are still there.

and of the claims, for any bridges, trusted or not, any finite batches of claims, any
digests, sizes and caps, from `ClaimSetAssumption` and `ClaimAssumption` (claims have their
fields, a digest is one claim's):

* `EveryStateStaysValid`: `Spec => []EveryStateVerifies`. What the caps keep of any finite set is
  within them (`KeptFits`), from the last claim kept: all above it fit, and fewer claims cost
  no more (`FewerFit`).
* `RetractionsPrevail`: `Spec => []NoPaymentOverRetraction`. `Outranks`, place by place (`Places`),
  is a strict order, so that a finite set has a claim that none outranks (`HasWinner`), and
  a retraction comes before any confirmation of its height.
* `ReadersNeverStepBack`: `Spec => NeverStepsBack`. The caps keep whatever ranks above a claim
  they keep (`KeptAbove`). They and the fold agree on the height and on nothing else, which
  is where the exception in the property comes from.

Of both, `ClaimAnswersAgree` and `TipAnswersAgree`: `Spec => []AnswersAgree` and
`Tip!Spec => []Tip!AnswersAgree`. Two peers that answer each other's summaries at one moment
tell their readers the same afterwards, or hold one tip, whatever each heard first and
dropped. So peers that differ have something to tell each other, which is the half of
`PeersSettle` that is no matter of fairness. TLC confirms both on the instance of MCPeers, though
no run lists them. A summary names buckets and whole buckets are sent (`WholeBuckets`), so that
both answers come to what the caps keep of the union (`Answered`); a full tip is not offered
what is below its lowest block, and would keep none of it (`NothingMissed`). Answers given one
after the other need not agree at once for claims, since the caps do not associate.

`ClaimRepeatsSettle`: a claim delta that a contract is given again takes away nothing of what
it left, and the third time changes nothing. The caps rank a claim by the claims above it,
of which there are no more the second time (`FewerFit`). `TipMergesLikeASet`: the three laws that
`tip_state.rs:307-325` tests on one case each, for every retention and all valid entries, from
`PruneEarly`. Claims have no such law above the caps (see "Other behaviour the models
have").

and of the evidence, for any blocks and chains, any number of changes between two reads and
any limits, from `EvidenceAssumption`, `BlockAssumption` and `ChainAssumption`:

* `BranchLeadsToRoot`: the branch `merkle_branch` gives for a leaf has a node for each level of
  the tree, and folded over that leaf at that index by `merkle_root_from_branch` it gives what
  `merkle_root` gives, for any number of leaves, odd levels and all. Each loop is a function
  of the number of rounds, defined for every number (`ClimbIs`, `FoldIs`, from a least round
  for which it is not); a level has half the nodes of the one below, rounded up
  (`LevelAbove`), so that one has a single node (`DepthIs`); and after `d` rounds of both, the
  fold stands at the node that the climb says is over the leaf (`Levels`).
* `EvidenceJudged`: `EvidenceSpec => []EvidenceIsJudged`. What is found in a block passes every
  check but the size (`FoundIs`), so that what is left is the run of headers: that the first
  is the block's and each names the one before (`SpvIs`). Linked headers are of one chain,
  whichever chains they were read from, namely of that of the last, because each names the
  one below it by a hash (`Descent`, `OneChain`). `EvidenceInv` has that every header read, and
  the block, was at its height in a chain that the node had (`Gathered`).

`PageProofs`, for any networks, addresses and generations, any number of switches and
lookups, from `PageAssumption` and `PointersAssumption`:

* `WhatIsShownBelongs`: `Spec => []ShownBelongs`. Not inductive: a reply is shown if it names what
  is looked up, so what is looked up must itself be of the network and generations in force.
  The invariant `Belongs` has that, and that nothing is looked up before the generations are
  settled. They settle once a visit to a network (`DeliverIs`), and a change of network forgets what
  was looked up though requests go on (`FreshIs`).
* `SilenceIsNotAbsence`: `Spec => AbsenceIsAnswered`. Each step leaves what the page believes of
  a pointer, forgets it, or says why (`OnWord`); a watchdog only ever says "unconfirmed".

`ObserverProofs`, for every set of payments and scripts and all bounds, with the chain
changing inside rounds or not, and any failures, from `ObserverAssumption` (bounds are
numbers, and the value that stands for no block is not a block):

* `SignedIsSeen`: `Spec => SignedAsSeen`. Not inductive: a round reads blocks by height from a
  chain that may have changed since it began. The invariant adds that the tip it began with
  is never above the chain (`TipBelow`), since a chain gives way only to a longer one, that no
  block is scanned above that tip, and that rows of payments name heights. So every height
  read is one the chain has, and no depth claimed is more than the chain gives.

The other four suppose that the bridge has followed the chain to some block before, that the
chain keeps still during a round, and that no crash comes between the writes of
`handle_reorg` (`Steady`); crashes elsewhere, refused and unreachable publishes, and
reorganizations between rounds are all allowed. They are layers on one invariant, `FInv`:
what `seen_blocks` records is or was the node's chain; up to the checkpoint it agrees with
the chain below some height within `MaxReorgDepth` and disagrees above it (`RecordHolds`),
so that `find_fork_point` finds that height (`ForkFound`) and a round resumes right above
it; and a round has recorded as it is all that it has scanned (`ScanFollows`,
`PublishFollows`).

* `NothingIsSkipped`, `WatermarksCover`: `[]NothingSkipped` and `[]WatermarkCovers`, as long as no
  round leaves behind claims it could not publish (`LeavesBehind`). `CInv` adds that a record
  that agrees with the node vouches for the payments below it (`Covered`), a watermark on the
  chain for those of its script (`MarkCovers`), and that a round has a claim for what it came
  upon, each of them sent, to be sent, refused, or a reason to hold back (`ScanCovers`,
  `PublishCovers`).
* `NothingIsSkippedWithin`: both without that condition, when there are no more failures than
  rounds that may be held back (`MaxFaults <= MaxHeld`): each round held back had a failure
  of its own (`HeldCounts`).
* `NeverContradicts`: `Spec => []NoContradiction`. `NInv` adds to `FInv` that whoever has spoken of
  the chain as it is follows it, so that no reorganization is left to find (`SpokenFollows`),
  that what was confirmed of it is on it where its row says (`ConfirmedThere`), which a second
  look at the same blocks, after a read that failed, needs, and that what was retracted of it
  will not be found on it (`RetractedGone`). A chain that
  grows has a position that nothing was said at.
* `ReadersSeeTheChain`: `Spec => []StatusMatchesChain`, when all that happens is that watches begin
  and end and the chain is reorganized between rounds (`Smooth`). `RInv` adds that each row is
  right about the chain as far as the record is (`RowsRight`), and that what is in doubt is on
  it nowhere below and looked for above (`DoubtsGone`, `DoubtsSought`); `SInv`, that a row says
  what was said last (`RowSpeaks`), and that of the chain as it is only what is true was said
  (`SpokenTrue`).

Each condition is there for a counterexample TLC finds without it (the table at the end
of "Other behaviour the models have"; a first round skips payments too when it fails), with
one exception: for `NoContradiction` TLC finds none at `Recorded = 0` or with a crash inside `handle_reorg`,
where the proof does not apply because `FInv` fails.

Where one would use induction, the proofs use the lemma `Minimal`, that of finite sets one is
minimal, which PeersProofs and ObserverProofs each state, or `Least`, that of numbers one is
least.

Only model-checked: everything with fairness, which the prover cannot express
(`RequestsAnswered`, `RequestsRead`, `PeersSettle`, `TipPeersSettle`, `FloorsLand`, `FloorFollows`,
`MigrationEnds`, `ReachableIsCarried`, `PointersFollow`, `PageSpeaks`, `PaymentsConfirmed`,
`LadderCompletes`). Every other property of a passing run is a theorem.

## What could follow

* To model: InboxSession over InboxBridge's pass instead of one step; NodeLink under the
  publish steps of Observer; several addresses in one migration.

## What is not modelled

* Cryptography and encodings: signatures and certificates are the validity of a
  record, digests are numbers; transactions are parsed or not.
* A reply about the very contract that a later request is for, which the code says it cannot
  tell from the answer (`freenet.rs:75-79`).
* Reads of the database that fail, but for those of a migration's count; more than one
  network in the bridge.
* Initial block download, in which a round says nothing, and blocks a pruned node no
  longer has.
* In the worker: subscribing, tips that cannot be read, and an opening put off because the
  database is busy. In the page: the wallet and sending a request, rendering, and a change
  of network before there is a connection.
* Logs, reports and metrics; configuration; the command line; broadcasting.
