------------------------------ MODULE Interests ------------------------------
(***************************************************************************)
(* Who asked the bridge to watch what: the interests, delegations and      *)
(* watch list of bridge/src/store.rs, what a request read from the inbox   *)
(* does to them (act of bridge/src/inbox.rs), and the end of watches       *)
(* (expire_watches), which reads what the observer of the same network     *)
(* writes meanwhile.  A pass reads requests and ends watches, each in a    *)
(* transaction of its own; the observer writes between any two of them.    *)
(*                                                                         *)
(* Abstracted: one network besides mainnet, whose tip only dates           *)
(* delegations; a request about several scripts is several requests; how   *)
(* a request waits in the inbox (InboxBridge) but for how long it does;    *)
(* reads of the database that fail, which act takes for nothing recorded.  *)
(***************************************************************************)
EXTENDS Integers, FiniteSets

CONSTANTS
  GhostKey, Script,
  Operator,        \* OPERATOR_INTEREST
  WatchKey,        \* the keys delegated to
  Request,         \* the requests that may be sent
  AlwaysWatch,     \* scripts the operator may put on its always_watch list
  Registered,      \* scripts watched before the inbox was
  MaxWatches,      \* max_watches_per_ghostkey
  Deep,            \* deep_confirmations
  Lifetime,        \* WATCH_LIFETIME_MS
  RequestAhead,    \* REQUEST_AHEAD_MAX_MS
  DelegatedAhead,  \* DELEGATED_AHEAD_MS
  Memory,          \* WITHDRAWAL_MEMORY_MS
  Waits,           \* how long a request can be read, before the floor passes it
  AheadBlocks,     \* MAX_WATCH_AHEAD_BLOCKS
  Window,          \* WINDOW_BLOCKS
  NodeTips,        \* bound: what the network's node may say its tip is
  MainnetTips,     \* bound: what the mainnet node may say its tip is
  BlockTimes,      \* bound: what blocks are dated
  MaxTime,         \* bound: the clock
  MaxHeight,       \* bound: the chain
  MaxReorgs,       \* bound: reorganizations and restarts
  PaidTo           \* bound: the scripts that payments go to

\* No height, no time, no serial; below every one there is.
None == -1

Serial == Nat \cup {None}
Height == Nat \cup {None}

(***************************************************************************)
(* A request: whether it asks to watch or to stop, its sender's date, the  *)
(* height to watch through, the delegation a watch key made it under (the  *)
(* Ghost Key's own has no serial), the delegations it revokes, whether the *)
(* bridge observes its network, and when it reached the inbox.             *)
(***************************************************************************)
RequestShape ==
  [key : GhostKey, script : Script, watch : BOOLEAN, made_at : Nat, until : Height,
   serial : Serial, signer : WatchKey, expires : Height, revoke : Serial,
   observed : BOOLEAN, sent : Nat]

Delegated(r) == r.serial # None

ASSUME InterestAssumption ==
  /\ Operator \notin GhostKey
  /\ Request \subseteq RequestShape
  /\ AlwaysWatch \cup Registered \cup PaidTo \subseteq Script
  /\ NodeTips \cup MainnetTips \subseteq Height /\ BlockTimes \subseteq Nat
  /\ {MaxWatches, Deep, Lifetime, RequestAhead, DelegatedAhead, Memory, Waits,
      AheadBlocks, Window, MaxTime, MaxHeight, MaxReorgs} \subseteq Nat

LowerOf(a, b) == IF a <= b THEN a ELSE b
HigherOf(a, b) == IF a >= b THEN a ELSE b

\* What r counts as made at when it is read at now: a watch key's request is
\* never dated far past the bridge's clock.
DateAt(r, now) ==
  IF Delegated(r) THEN LowerOf(r.made_at, now + DelegatedAhead) ELSE r.made_at

\* A withdrawal is remembered for as long as an older request can wait; and the
\* requests of a Ghost Key for a script, sent so far apart that it may be
\* forgotten between them, are dated in the order they were sent.
ASSUME MemoryAssumption ==
  /\ Waits <= Memory
  /\ \A r, q \in Request :
       r.key = q.key /\ r.script = q.script /\ r.sent + Memory < q.sent + Waits =>
         DateAt(r, r.sent + Waits) < DateAt(q, q.sent)

VARIABLES
  interests,    \* script_interests: interests[g][s]
  delegations,  \* watch_delegations
  watched,      \* watched_scripts
  demo,         \* those of them that are public demo scripts
  read,         \* the requests read
  clock,        \* the bridge's clock
  pass,         \* the pass under way
  blocks,       \* seen_blocks: the time recorded at each height
  scanned,      \* chain_checkpoint: the height, or None
  payment,      \* observed_outputs: the height of the payment to each script
  fork,         \* the fork the observer is going back to, or None
  reorgs,       \* reorganizations and restarts so far
  heard,        \* history: what g was promised for s
  withdrawn     \* history: the date of g's newest withdrawal of s, or None

tables == <<interests, delegations, watched, demo>>
observer == <<blocks, scanned, payment, fork, reorgs>>
history == <<heard, withdrawn>>
vars == <<tables, read, clock, pass, observer, history>>

Requester == GhostKey \cup {Operator}

Row ==
  [watching : BOOLEAN, request_ms : Nat \cup {None}, recorded_ms : Nat \cup {None},
   until : Height, serial : Serial]

\* No row: older than any request, and running nothing.
NoRow ==
  [watching |-> FALSE, request_ms |-> None, recorded_ms |-> None, until |-> None,
   serial |-> None]

NoDelegation == [revoked |-> None, newest |-> None, key |-> None]

\* A payment has the height of its block, unless it was never seen or a
\* reorganization moved it out of its block.
Unseen == None
InDoubt == -2

Idle == [step |-> "idle"]

Init ==
  /\ interests = [g \in Requester |-> [s \in Script |-> NoRow]]
  /\ delegations = [g \in GhostKey |-> NoDelegation]
  /\ watched = Registered
  /\ demo = {}
  /\ read = {}
  /\ clock = 0
  /\ pass = Idle
  /\ blocks = [h \in {} |-> 0]
  /\ scanned = None
  /\ payment = [s \in Script |-> Unseen]
  /\ fork = None
  /\ reorgs = 0
  /\ heard = [g \in GhostKey |-> [s \in Script |-> {}]]
  /\ withdrawn = [g \in GhostKey |-> [s \in Script |-> None]]

-----------------------------------------------------------------------------
(* Rows *)

Running(row) == row.watching

Watchers(I, s) == {g \in Requester : Running(I[g][s])}

\* remove_watch, for each script that I had watchers for and J has not: the
\* public demo scripts stay.
Stopped(I, J) == {s \in Script \ demo : Watchers(I, s) # {} /\ Watchers(J, s) = {}}

\* A sender's requests count in the order it made them, whatever order they are
\* read in; of two made at once, the withdrawal.
Newer(row, ms, watch) ==
  ms > row.request_ms \/ (ms = row.request_ms /\ Running(row) /\ ~watch)

RunningOf(I, g) == {s \in Script : Running(I[g][s])}

WithdrawalsOf(I, g) == {s \in Script : I[g][s] # NoRow /\ ~Running(I[g][s])}

\* A Ghost Key's places are taken.
OverCap(I, g, s) ==
  ~Running(I[g][s]) /\ Cardinality(RunningOf(I, g)) >= MaxWatches

\* A withdrawal of what was never asked for, with no room to remember it.
Unrecorded(I, g, s) ==
  I[g][s] = NoRow /\ Cardinality(WithdrawalsOf(I, g)) >= MaxWatches

Bug_WithOperator(I, W, s, at) == I

\* A script watched before anyone asked for it has a requester that never leaves.
WithOperator(I, W, s, at) ==
  IF Watchers(I, s) = {} /\ s \in W /\ I[Operator][s] = NoRow
  THEN [I EXCEPT ![Operator][s] =
          [NoRow EXCEPT !.watching = TRUE, !.request_ms = 0, !.recorded_ms = at]]
  ELSE I

Bug_HeldThrough(row, until) == until

\* A renewal never lowers the height a running watch is held through.
HeldThrough(row, until) == IF Running(row) THEN HigherOf(row.until, until) ELSE until

(***************************************************************************)
(* set_interest for a Watch.  One that is not the newest changes nothing   *)
(* but the height a running watch is held through.                         *)
(***************************************************************************)
AfterWatch(I, W, g, s, row) ==
  IF ~Newer(I[g][s], row.request_ms, TRUE)
  THEN [I EXCEPT ![g][s].until = IF Running(I[g][s]) THEN HigherOf(@, row.until) ELSE @]
  ELSE IF OverCap(I, g, s)
  THEN I
  ELSE [(IF Running(I[g][s]) THEN I ELSE WithOperator(I, W, s, row.recorded_ms))
          EXCEPT ![g][s] = [row EXCEPT !.until = HeldThrough(I[g][s], row.until)]]

\* set_interest for an Unwatch: the withdrawal is kept, so that an older Watch
\* read after it does not count.
AfterUnwatch(I, g, s, row) ==
  IF Newer(I[g][s], row.request_ms, FALSE) /\ ~Unrecorded(I, g, s)
  THEN [I EXCEPT ![g][s] = row]
  ELSE I

\* The rows recorded under a delegation through reaches.
UnderRevoked(I, g, through) ==
  {s \in Script : I[g][s].serial # None /\ I[g][s].serial <= through}

Bug_Withdrawn(row, made_at, now) ==
  [row EXCEPT !.watching = FALSE, !.recorded_ms = IF row.watching THEN now ELSE @,
              !.until = IF row.watching THEN None ELSE @]

\* Withdrawn, and dated no later than the request that revokes.
Withdrawn(row, made_at, now) ==
  [row EXCEPT !.watching = FALSE, !.request_ms = LowerOf(@, made_at),
              !.recorded_ms = IF row.watching THEN now ELSE @,
              !.until = IF row.watching THEN None ELSE @]

\* revoke_delegations_through
AfterRevoking(I, g, through, made_at, now) ==
  [I EXCEPT ![g] =
     [s \in Script |-> IF s \in UnderRevoked(I, g, through)
                       THEN Withdrawn(I[g][s], made_at, now) ELSE I[g][s]]]

-----------------------------------------------------------------------------
(* Reading a request *)

\* What the observer has recorded last.
NewestBlock == IF DOMAIN blocks = {} THEN None
               ELSE CHOOSE h \in DOMAIN blocks : \A g \in DOMAIN blocks : g <= h

NewestTime == IF DOMAIN blocks = {} THEN None ELSE blocks[NewestBlock]

\* delegation_check
IsRevoked(r) == r.serial <= delegations[r.key].revoked
Superseded(r) == r.serial < delegations[r.key].newest
Conflicting(r) ==
  r.serial = delegations[r.key].newest /\ r.signer # delegations[r.key].key

\* What pass does not read: an entry under a delegation refused by now.
LeftUnread(r) == Delegated(r) /\ (IsRevoked(r) \/ Superseded(r))

\* act drops the rest of a request to another network, or under a delegation
\* that has expired or shares its height with another key's.
Honoured(r, mainnet) ==
  /\ r.observed
  /\ Delegated(r) =>
       /\ r.expires = None \/ mainnet = None \/ mainnet <= r.expires
       /\ ~Conflicting(r)

\* How far r revokes: None unless that is news, and not past the chain.
RevokesThrough(r, mainnet) ==
  IF /\ ~Delegated(r) /\ mainnet # None /\ r.revoke <= mainnet + Window
     /\ r.revoke > delegations[r.key].revoked
  THEN r.revoke ELSE None

RequestTime(r) == DateAt(r, pass.now)

\* When a Watch is read: never before the newest block recorded.
ReadTime == HigherOf(pass.now, NewestTime)

\* The height to watch through, held to AheadBlocks above what is known.
HeldTo(r, tip) ==
  LET reference == HigherOf(tip, HigherOf(scanned, NewestBlock))
  IN  IF r.until = None \/ reference = None THEN None
      ELSE LowerOf(r.until, reference + AheadBlocks)

RowOf(r, tip) ==
  [watching    |-> r.watch,
   request_ms  |-> RequestTime(r),
   recorded_ms |-> IF r.watch THEN ReadTime ELSE pass.now,
   until       |-> IF r.watch THEN HeldTo(r, tip) ELSE None,
   serial      |-> r.serial]

\* admit_delegation, and the revocation.
DelegationsAfter(r, mainnet) ==
  LET d     == delegations[r.key]
      admit == Delegated(r) /\ Honoured(r, mainnet) /\ r.serial > d.newest
  IN  [delegations EXCEPT ![r.key] =
         [revoked |-> HigherOf(d.revoked, RevokesThrough(r, mainnet)),
          newest  |-> IF admit THEN r.serial ELSE d.newest,
          key     |-> IF admit THEN r.signer ELSE d.key]]

\* The day of a watch counts from its sender's date, at most RequestAhead past
\* the time it was read, or from that time.
DayBegins(ms, at) == HigherOf(LowerOf(ms, at + RequestAhead), at)

\* act and mark_handled, one transaction.  What r is promised, or takes back,
\* is noted beside it.
ReadRequest(r, mainnet, tip) ==
  LET g       == r.key
      s       == r.script
      through == RevokesThrough(r, mainnet)
      I       == AfterRevoking(interests, g, through, r.made_at, pass.now)
      W       == watched \ Stopped(interests, I)
      row     == RowOf(r, tip)
      honours == Honoured(r, mainnet)
      watches == honours /\ r.watch
      ends    == honours /\ ~r.watch
      refused == Newer(I[g][s], row.request_ms, TRUE) /\ OverCap(I, g, s)
      J       == IF watches THEN AfterWatch(I, W, g, s, row)
                 ELSE IF ends THEN AfterUnwatch(I, g, s, row) ELSE I
      promise == [ms     |-> row.request_ms,
                  from   |-> DayBegins(row.request_ms, HigherOf(pass.now, NewestTime)),
                  until  |-> IF r.until = None \/ NewestBlock = None THEN None
                             ELSE LowerOf(r.until, NewestBlock + AheadBlocks)]
  IN  /\ pass.step = "reading"
      /\ r \notin read /\ ~LeftUnread(r)
      /\ r.sent <= clock /\ clock <= r.sent + Waits
      /\ read' = read \cup {r}
      /\ interests' = J
      /\ watched' =
           (W \ Stopped(I, J)) \cup
             {t \in {s} : watches /\ Newer(I[g][s], row.request_ms, TRUE) /\ ~refused}
      /\ delegations' = DelegationsAfter(r, mainnet)
      /\ heard' = [heard EXCEPT ![g] = [t \in Script |->
           (IF t \in UnderRevoked(interests, g, through) THEN {} ELSE @[t])
             \cup {p \in {promise} : t = s /\ watches /\ ~refused}]]
      /\ withdrawn' = [withdrawn EXCEPT ![g] = [t \in Script |->
           LET before == IF t \in UnderRevoked(interests, g, through)
                         THEN I[g][t].request_ms ELSE @[t]
           IN  IF t = s /\ ends /\ ~Unrecorded(I, g, s)
               THEN HigherOf(before, row.request_ms) ELSE before]]
      /\ UNCHANGED <<demo, clock, pass, observer>>

-----------------------------------------------------------------------------
(* A pass *)

Bug_Forgotten(row, now) == ~Running(row)

\* prune_withdrawals_before
Forgotten(row, now) == ~Running(row) /\ row.recorded_ms < now - Memory

StartPass ==
  /\ pass = Idle
  /\ pass' = [step |-> "reading", now |-> clock]
  /\ interests' = [g \in Requester |-> [s \in Script |->
       IF Forgotten(interests[g][s], clock) THEN NoRow ELSE interests[g][s]]]
  /\ UNCHANGED <<delegations, watched, demo, read, clock, observer, history>>

\* watches_run_out, for a block dated dated at height at.
RanOut(row, dated, at) ==
  /\ Running(row)
  /\ DayBegins(row.request_ms, row.recorded_ms) <= dated - Lifetime
  /\ row.until < at

\* The block that decides is Deep deep, if the observer has scanned so many.
Deciding == scanned - HigherOf(Deep - 1, 0)

\* The watches that ran out, but for the Ghost Keys with a request waiting.
StartExpiry(waiting) ==
  /\ pass.step = "reading"
  /\ scanned # None /\ Deciding \in DOMAIN blocks
  /\ pass' = [step |-> "ending", now |-> pass.now, scanned |-> scanned, at |-> Deciding,
              dated |-> blocks[Deciding],
              todo |-> {w \in (GhostKey \ waiting) \X Script :
                          RanOut(interests[w[1]][w[2]], blocks[Deciding], Deciding)}]
  /\ UNCHANGED <<tables, read, clock, observer, history>>

Bug_StillScanned == TRUE

\* The observer has not gone back since, nor replaced the block.
StillScanned ==
  /\ scanned >= pass.scanned
  /\ pass.at \in DOMAIN blocks /\ blocks[pass.at] = pass.dated

\* has_shallow_output: a payment seen, not buried yet, or moved by a reorganization.
HasShallowOutput(s) ==
  payment[s] = InDoubt \/ (payment[s] \in Nat /\ payment[s] > pass.scanned + 1 - Deep)

\* expire_interest: a withdrawal dated as the watch was.
EndWatch(g, s) ==
  /\ pass.step = "ending" /\ <<g, s>> \in pass.todo
  /\ StillScanned /\ ~HasShallowOutput(s)
  /\ interests' = [interests EXCEPT ![g][s].watching = FALSE, ![g][s].recorded_ms = pass.now]
  /\ watched' = watched \ Stopped(interests, interests')
  /\ pass' = [pass EXCEPT !.todo = @ \ {<<g, s>>}]
  /\ heard' = [heard EXCEPT ![g][s] = {}]
  /\ withdrawn' = [withdrawn EXCEPT ![g][s] = HigherOf(@, interests[g][s].request_ms)]
  /\ UNCHANGED <<delegations, demo, read, clock, observer>>

\* The pass ends, having done all of this or some of it.
EndPass ==
  /\ pass # Idle
  /\ pass' = Idle
  /\ UNCHANGED <<tables, read, clock, observer, history>>

Tick ==
  /\ pass = Idle /\ clock < MaxTime
  /\ clock' = clock + 1
  /\ UNCHANGED <<tables, read, pass, observer, history>>

-----------------------------------------------------------------------------
(* The observer, which writes the same database (Observer models it) *)

\* A block with the time it is dated and a payment to each script of P; one
\* scanned before, ahead of a checkpoint that went back, is dated as it was.
ScanBlock(h, time, P) ==
  /\ fork = None /\ h > scanned /\ h <= HigherOf(scanned, NewestBlock) + 1
  /\ h \in DOMAIN blocks => time = blocks[h] /\ P # {}
  /\ P \subseteq {s \in Script : payment[s] = InDoubt \/ (s \in watched /\ payment[s] = Unseen)}
  /\ blocks' = [g \in DOMAIN blocks \cup {h} |-> IF g = h THEN time ELSE blocks[g]]
  /\ payment' = [s \in Script |-> IF s \in P THEN h ELSE payment[s]]
  /\ UNCHANGED <<tables, read, clock, pass, scanned, fork, reorgs, history>>

\* What was scanned is published, and the checkpoint follows.
Commit(h) ==
  /\ fork = None /\ h > scanned
  /\ scanned' = h
  /\ UNCHANGED <<tables, read, clock, pass, blocks, payment, fork, reorgs, history>>

\* A round finds the chain reorganized above f: the payments above it are in
\* doubt, its blocks are forgotten, and the checkpoint goes back, in turn.
GoBack(f) ==
  /\ fork = None /\ reorgs < MaxReorgs
  /\ f \in DOMAIN blocks /\ f < scanned
  /\ fork' = f
  /\ reorgs' = reorgs + 1
  /\ payment' = [s \in Script |-> IF payment[s] > f THEN InDoubt ELSE payment[s]]
  /\ UNCHANGED <<tables, read, clock, pass, blocks, scanned, history>>

ForgetBlocksAboveFork ==
  /\ fork # None
  /\ NewestBlock > fork
  /\ blocks' = [h \in {g \in DOMAIN blocks : g <= fork} |-> blocks[h]]
  /\ UNCHANGED <<tables, read, clock, pass, scanned, payment, fork, reorgs, history>>

RewindToFork ==
  /\ fork # None /\ NewestBlock = fork
  /\ scanned' = fork /\ fork' = None
  /\ UNCHANGED <<tables, read, clock, pass, blocks, payment, reorgs, history>>

\* The process starts again, with the scripts of L for public demos, and scans
\* the last blocks once more.
Restart(from, L) ==
  /\ reorgs < MaxReorgs /\ reorgs' = reorgs + 1
  /\ from = scanned \/ (from \in DOMAIN blocks /\ from < scanned)
  /\ scanned' = from /\ fork' = None
  /\ demo' = demo \cup L /\ watched' = watched \cup L
  /\ pass' = Idle
  /\ UNCHANGED <<interests, delegations, read, clock, blocks, payment, history>>

-----------------------------------------------------------------------------

Next ==
  \/ StartPass
  \/ \E r \in Request, mainnet \in MainnetTips, tip \in NodeTips : ReadRequest(r, mainnet, tip)
  \/ \E waiting \in SUBSET GhostKey : StartExpiry(waiting)
  \/ \E g \in GhostKey, s \in Script : EndWatch(g, s)
  \/ EndPass
  \/ Tick
  \/ \E h \in 0..MaxHeight, time \in BlockTimes, P \in SUBSET PaidTo : ScanBlock(h, time, P)
  \/ \E h \in DOMAIN blocks : Commit(h)
  \/ \E f \in DOMAIN blocks : GoBack(f)
  \/ ForgetBlocksAboveFork
  \/ RewindToFork
  \/ \E from \in DOMAIN blocks \cup {scanned}, L \in SUBSET AlwaysWatch : Restart(from, L)

Spec == Init /\ [][Next]_vars

-----------------------------------------------------------------------------
(* Properties *)

Promise == [ms : Nat, from : Nat, until : Height]

PassShape ==
  {Idle}
    \cup [step : {"reading"}, now : Nat]
    \cup [step : {"ending"}, now : Nat, scanned : Nat, at : Nat, dated : Nat,
          todo : SUBSET (GhostKey \X Script)]

TypeOK ==
  /\ interests \in [Requester -> [Script -> Row]]
  /\ delegations \in [GhostKey -> [revoked : Serial, newest : Serial, key : WatchKey \cup {None}]]
  /\ demo \subseteq watched /\ watched \subseteq Script
  /\ read \subseteq Request
  /\ clock \in Nat
  /\ pass \in PassShape
  /\ DOMAIN blocks \subseteq 0..MaxHeight /\ \A h \in DOMAIN blocks : blocks[h] \in Nat
  /\ {scanned, fork} \subseteq Height
  /\ payment \in [Script -> Height \cup {InDoubt}]
  /\ reorgs \in Nat
  /\ heard \in [GhostKey -> [Script -> SUBSET Promise]]
  /\ withdrawn \in [GhostKey -> [Script -> Nat \cup {None}]]

\* A script is scanned exactly while someone wants it, whoever else has left and
\* whichever of the two tables a step wrote: the operator's always are.
WatchedIffWanted ==
  \A s \in Script :
    s \in watched <=> Watchers(interests, s) # {} \/ s \in demo \cup Registered

InForce(g, s) == {p \in heard[g][s] : p.ms > withdrawn[g][s]}

\* In whatever order requests are read, a watch runs exactly while a Watch read
\* for it is newer than each withdrawal: no older Watch read late starts it
\* again, though watches end and withdrawals are forgotten after a day
\* (store.rs:1142-1148, inbox.rs:80-82).
NewestDecides ==
  \A g \in GhostKey, s \in Script : Running(interests[g][s]) <=> InForce(g, s) # {}

\* A running watch is held through every height a Watch in force named, up to
\* AheadBlocks above the blocks scanned, though renewals name none or are read
\* in another order (inbox/src/lib.rs:1184-1203).
HeightsHeld ==
  \A g \in GhostKey, s \in Script :
    \A p \in InForce(g, s) : p.until <= interests[g][s].until

\* Above every height that a Watch in force named, and a day after the newest,
\* the observer has scanned a block, Deep deep, and no payment is left shallow.
Due(g, s) ==
  /\ \E h \in DOMAIN blocks :
       /\ h <= scanned + 1 - Deep
       /\ \A p \in InForce(g, s) : p.until < h
       /\ \E p \in InForce(g, s) :
            /\ \A q \in InForce(g, s) : q.ms <= p.ms
            /\ p.from + Lifetime <= blocks[h]
  /\ payment[s] # InDoubt /\ payment[s] <= scanned + 1 - Deep

\* A watch runs out only when that holds at the moment it ends, whatever the
\* observer has done since the pass read how far it was (inbox.rs:693-736).
EndsOnlyWhenDue ==
  [][\A g \in GhostKey, s \in Script :
       /\ pass.step = "ending"
       /\ Running(interests[g][s]) /\ ~Running(interests'[g][s])
       => Due(g, s)]_vars

\* What a revoked watch key recorded runs no more, and is dated no later than a
\* request that revoked it, so the Ghost Key's next request counts however far
\* ahead the key dated its own (store.rs:1354-1357).
RevokedStayOut ==
  \A g \in GhostKey :
    \A s \in UnderRevoked(interests, g, delegations[g].revoked) :
      /\ ~Running(interests[g][s])
      /\ \E q \in read :
           /\ q.key = g /\ ~Delegated(q)
           /\ interests[g][s].serial <= q.revoke
           /\ interests[g][s].request_ms <= q.made_at
=============================================================================
