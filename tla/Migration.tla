----------------------------- MODULE Migration ------------------------------
(***************************************************************************)
(* Carrying an address's observations forward when the contracts re-key:   *)
(* bridge/src/migrate.rs, the walk in observe_once (bridge/src/main.rs),   *)
(* migrate_address_forward and put_or_update (bridge/src/freenet.rs) and   *)
(* what bridge/src/store.rs keeps of it.  A walk asks the node for the     *)
(* contract of every predecessor generation, publishes what it recovered   *)
(* under the current key, and may count towards the decision, made once    *)
(* and for ever, that there is no more to carry.                           *)
(*                                                                         *)
(* One address.  Time goes in steps of WALK_INTERVAL and stands still      *)
(* during a walk, which takes minutes at most.  The wall clock is known by *)
(* what it says has passed since the stamp of the last walk counted.       *)
(*                                                                         *)
(* Abstracted: claims are values merged by union; a predecessor's contract *)
(* is not written to any more; the current contract, once stored, stays.   *)
(***************************************************************************)
EXTENDS NodeLink, FiniteSets

CONSTANTS
  None,          \* no value
  Generations,   \* how many predecessors: 1 is the newest
  Held(_),       \* what generation g's contract holds
  Interval,      \* WALK_INTERVAL
  Spacing,       \* SEAL_SPACING
  SealAfter,     \* SEAL_AFTER_WALKS
  Dark,          \* how long the node may find none of the predecessors
  MaxSkew,       \* bound: how far the wall clock is set back or forward
  MaxSets,       \* bound: how often
  MaxRestarts,   \* bound: restarts
  MaxFaults      \* bound: failed requests and writes, and replies unasked for

VARIABLES
  mute,      \* the predecessors no peer answers for
  dark,      \* how much longer the node finds none: NotFound for all
  spells,    \* how many dark spells there may still be
  current,   \* the claims under the current key, or None
  link,      \* the publisher's link
  walk,      \* the walk under way, or NoWalk
  warm,      \* until the process has run for WALK_INTERVAL
  next,      \* WalkClock.next: until the next walk is due
  memo,      \* WalkClock.published: what was last published forward, or None
  count,     \* migration_agreement: the walks counted
  lag,       \* the wall clock less last_counted_ms, or None
  done,      \* migration_done
  sets, restarts, faults,   \* bounds: how often yet
  elapsed,   \* history: the time since the last walk counted, up to Spacing
  rewound,   \* history: whether the process restarted since
  hastened,  \* history: whether the clock was set forward since
  doubted,   \* history: whether a walk was counted with both, or was told of a
             \* miss nobody asked about
  vouched    \* history: what the walks counted had recovered

clockwork == <<warm, next, lag, elapsed, rewound, hastened>>
kept == <<count, done, doubted, vouched>>
bounds == <<sets, restarts, faults>>
world == <<mute, dark, spells>>
vars == <<world, current, link, walk, memo, kept, clockwork, bounds>>

ASSUME MigrationAssumption ==
  /\ {Generations, Interval, Spacing, SealAfter, Dark, MaxSkew,
      MaxSets, MaxRestarts, MaxFaults} \subseteq Nat
  /\ Interval <= Spacing /\ 1 < SealAfter
  /\ Generations # 0
  /\ None \notin Int
  /\ \A S \in SUBSET UNION {Held(g) : g \in 1..Generations} : S # None

\* The node finds none of the predecessors for no longer than the window in
\* which the walks must agree: what is out of reach for all of it is given up.
ASSUME OutageAssumption == Dark <= (SealAfter - 1) * Spacing

Generation == 1..Generations
NoWalk == [phase |-> "none"]

\* Beyond it the lag makes no difference.
Far == Spacing + MaxSkew * MaxSets

\* Time left, counting down.
CountDown(n) == IF n = 0 THEN 0 ELSE n - 1

Lesser(a, b) == IF a < b THEN a ELSE b
AllHeld == UNION {Held(g) : g \in Generation}
Stored == IF current = None THEN {} ELSE current

Init ==
  /\ mute \in SUBSET Generation /\ dark = 0 /\ spells = 1
  /\ current = None /\ link = Closed
  /\ walk = NoWalk /\ warm = Interval /\ next = 0 /\ memo = None
  /\ count = 0 /\ lag = None /\ done = FALSE
  /\ sets = MaxSets /\ restarts = MaxRestarts /\ faults = MaxFaults
  /\ elapsed = Spacing /\ rewound = FALSE /\ hastened = FALSE
  /\ doubted = FALSE /\ vouched = {}

-----------------------------------------------------------------------------
(* What the node answers *)

\* What a node that serves says to a GET of generation g.
Honest(g) ==
  IF g \in mute THEN {Silence}
  ELSE (IF Held(g) = {} \/ dark > 0 THEN {Reply("missing", g), OldMissing} ELSE {})
       \cup (IF Held(g) # {} THEN {Reply("state", g)} ELSE {})

Failures == {DialFails, Unsent, Silence} \cup (Errors \ {OldMissing})

\* The answer is the node's own, or a failure that costs a fault; a link that
\* waits sends nothing.
Answered(answer, served) ==
  /\ Possible(link, answer)
  /\ \/ answer \in served /\ UNCHANGED faults
     \/ answer = NoReply /\ UNCHANGED faults
     \/ answer \in Failures \ served /\ faults > 0 /\ faults' = faults - 1

\* What may come unasked, or a second time: a reply about another contract, or
\* an older node's miss, which does not say of which.  A reply about the very
\* contract a later request is for the code says it cannot tell from the answer.
Unsought == {Reply(says, Other) : says \in {"updated", "put", "missing"}} \cup {OldMissing}

\* It waits on the connection.
Unasked(reply) ==
  /\ link.open /\ link.queue = <<>> /\ faults > 0
  /\ link' = [link EXCEPT !.queue = <<reply>>]
  /\ faults' = faults - 1
  /\ UNCHANGED <<world, current, walk, memo, kept, clockwork, sets, restarts>>

\* The wait before the next dial is over.
Redial ==
  /\ link.waiting
  /\ link' = Closed
  /\ UNCHANGED <<world, current, walk, memo, kept, clockwork, bounds>>

-----------------------------------------------------------------------------
(* A walk *)

Due == warm = 0 /\ next = 0

StartWalk ==
  /\ walk = NoWalk /\ ~done /\ Due
  /\ walk' = [phase |-> "probe", gen |-> 1, got |-> {}, complete |-> TRUE,
              published |-> FALSE]
  /\ UNCHANGED <<world, current, link, memo, kept, clockwork, bounds>>

Bug_ProbedWhole(w) ==
  IF w.got = {} \/ ~w.complete THEN [w EXCEPT !.phase = "count"]
  ELSE IF w.got = memo THEN [w EXCEPT !.phase = "count", !.published = TRUE]
  ELSE [w EXCEPT !.phase = "update"]

Bug_ProbedAgain(w) ==
  IF w.got \in {{}, memo} THEN [w EXCEPT !.phase = "count"]
  ELSE [w EXCEPT !.phase = "update"]

\* Every predecessor was asked: what was recovered is published, unless it is
\* what was published last.
Probed(w) ==
  IF w.got = {} THEN [w EXCEPT !.phase = "count"]
  ELSE IF w.got = memo THEN [w EXCEPT !.phase = "count", !.published = TRUE]
  ELSE [w EXCEPT !.phase = "update"]

Bug_Heard(w, said) ==
  LET g == w.gen
      v == [w EXCEPT !.got = IF said = "state" THEN @ \cup Held(g) ELSE @]
  IN  IF g = Generations THEN Probed(v) ELSE [v EXCEPT !.gen = g + 1]

\* The walk after the answer about generation w.gen: silence is not absence.
Heard(w, said) ==
  LET g == w.gen
      v == [w EXCEPT !.got = IF said = "state" THEN @ \cup Held(g) ELSE @,
                     !.complete = @ /\ said \in {"state", "missing"}]
  IN  IF g = Generations THEN Probed(v) ELSE [v EXCEPT !.gen = g + 1]

Probe(answer) ==
  /\ walk.phase = "probe"
  /\ Answered(answer, Honest(walk.gen))
  /\ LET r    == Request(link, answer)
         said == GetSays(walk.gen, r.reply)
     IN  /\ link' = AfterReply(r.link, said)
         /\ walk' = Heard(walk, said)
         /\ doubted' = (doubted \/ (said = "missing" /\ link.queue # <<>>))
  /\ UNCHANGED <<world, current, memo, count, done, vouched, clockwork, sets, restarts>>

\* The publish is over: accepted, it is remembered.
Published(accepted) ==
  /\ walk' = [walk EXCEPT !.phase = "count", !.published = accepted]
  /\ memo' = IF accepted THEN walk.got ELSE memo

\* The node merges what it is sent, whether or not its reply arrives.
Merged == Stored \cup walk.got

Update(answer, arrives) ==
  /\ walk.phase = "update"
  /\ LET served == IF current = None THEN {Reply("missing", Now), OldMissing}
                                     ELSE {Reply("updated", Now)}
         r    == Request(link, answer)
         said == UpdateSays(Now, r.reply)
     IN  /\ Answered(answer, served)
         /\ answer \in served => arrives
         /\ arrives => answer \in served \cup {Silence}
         /\ current' = IF arrives /\ current # None THEN Merged ELSE current
         /\ link' = AfterReply(r.link, said)
         /\ IF r.reply = NoReply THEN Published(FALSE)
            ELSE IF said = "updated" THEN Published(TRUE)
            ELSE walk' = [walk EXCEPT !.phase = "put"] /\ UNCHANGED memo
  /\ UNCHANGED <<world, kept, clockwork, sets, restarts>>

Put(answer, arrives) ==
  /\ walk.phase = "put"
  /\ LET served == Reply("put", Now)
         r      == Request(link, answer)
         stored == PutAnswered(Now, r.reply)
     IN  /\ Answered(answer, {served})
         /\ answer = served => arrives
         /\ arrives => answer \in {served, Silence}
         /\ current' = IF arrives THEN Merged ELSE current
         /\ link' = IF stored THEN r.link ELSE Discard(r.link)
         /\ Published(stored)
  /\ UNCHANGED <<world, kept, clockwork, sets, restarts>>

-----------------------------------------------------------------------------
(* Counting a walk *)

\* What a finished walk is worth: agreement.
Agrees(w) == w.complete /\ (w.got = {} \/ w.published)

Bug_Spaced(since) == since = None \/ since # 0

\* Whether a walk this long after the last one counted is evidence of its own.
Spaced(since) == since = None \/ since >= Spacing

\* A stamp in the future is brought back to now; the walk does not count.
Future(since) == since # None /\ since < 0

\* reads: the wall clock can be read.  found: the agreement so far can; what
\* cannot be read is taken for none.  saved, sealed: the writes succeed.
Count(reads, found, saved, sealed) ==
  LET before == IF found THEN count ELSE 0
      since  == IF found THEN lag ELSE None
      agrees == Agrees(walk)
      counts == agrees /\ reads /\ Spaced(since)
      stamps == agrees /\ reads /\ saved /\ (counts \/ Future(since))
      ends   == counts /\ before + 1 >= SealAfter /\ sealed
  IN  /\ walk.phase = "count"
      /\ IF reads /\ found /\ saved /\ sealed THEN UNCHANGED faults
         ELSE faults > 0 /\ faults' = faults - 1
      /\ walk' = NoWalk
      /\ next' = IF ends THEN 0 ELSE IF agrees THEN Spacing ELSE Interval
      /\ memo' = IF ends THEN None ELSE memo
      /\ count' = IF counts /\ saved THEN before + 1 ELSE count
      /\ lag' = IF stamps THEN 0 ELSE lag
      /\ done' = (done \/ ends)
      /\ elapsed' = IF counts /\ saved THEN 0 ELSE elapsed
      /\ rewound' = (rewound /\ ~(counts /\ saved))
      /\ hastened' = (hastened /\ ~(counts /\ saved))
      /\ doubted' = (doubted \/ (counts /\ count > 0 /\ rewound /\ hastened))
      /\ vouched' = IF counts THEN vouched \cup walk.got ELSE vouched
      /\ UNCHANGED <<world, current, link, warm, sets, restarts>>

-----------------------------------------------------------------------------
(* Time, clocks and restarts *)

Tick ==
  /\ walk = NoWalk
  /\ warm' = CountDown(warm) /\ next' = CountDown(next)
  /\ lag' = IF lag = None THEN lag ELSE Lesser(lag + 1, Far)
  /\ elapsed' = Lesser(elapsed + 1, Spacing)
  /\ dark' = CountDown(dark)
  /\ UNCHANGED <<mute, spells, current, link, walk, memo, kept, rewound, hastened, bounds>>

\* The wall clock is set, back or forward.
SetClock(by) ==
  /\ walk = NoWalk /\ ~done /\ lag # None /\ sets > 0
  /\ by \in (-MaxSkew..MaxSkew) \ {0}
  /\ lag' = Lesser(lag + by, Far)
  /\ hastened' = (hastened \/ by > 0)
  /\ sets' = sets - 1
  /\ UNCHANGED <<world, current, link, walk, memo, kept, warm, next, elapsed,
                 rewound, restarts, faults>>

\* WalkClock and the link are in memory.
Restart ==
  /\ ~done /\ restarts > 0
  /\ restarts' = restarts - 1
  /\ walk' = NoWalk /\ link' = Closed /\ memo' = None
  /\ warm' = Interval /\ next' = 0
  /\ rewound' = TRUE
  /\ UNCHANGED <<world, current, kept, lag, elapsed, hastened, sets, faults>>

\* The node loses the peers that hold the predecessors.
Darken ==
  /\ spells > 0 /\ dark = 0 /\ ~done
  /\ spells' = spells - 1 /\ dark' = Dark
  /\ UNCHANGED <<mute, current, link, walk, memo, kept, clockwork, bounds>>

Answer ==
  Failures
  \cup {NoReply, OldMissing}
  \cup {Reply(says, Now) : says \in {"updated", "missing", "put"}}
  \cup {Reply(says, g) : says \in {"state", "missing"}, g \in Generation}

WalkStep ==
  \/ \E answer \in Answer : Probe(answer)
  \/ \E answer \in Answer, arrives \in BOOLEAN :
       Update(answer, arrives) \/ Put(answer, arrives)
  \/ \E reads, found, saved, sealed \in BOOLEAN : Count(reads, found, saved, sealed)

Next ==
  \/ StartWalk
  \/ WalkStep
  \/ Redial
  \/ \E reply \in Unsought : Unasked(reply)
  \/ Tick
  \/ \E by \in -MaxSkew..MaxSkew : SetClock(by)
  \/ Restart
  \/ Darken

Spec == Init /\ [][Next]_vars

\* The observer's loop runs, time passes, and a wait ends.
FairSpec ==
  /\ Spec
  /\ WF_vars(StartWalk) /\ WF_vars(WalkStep) /\ WF_vars(Tick) /\ WF_vars(Redial)

-----------------------------------------------------------------------------
(* Properties *)

\* What a walk had recovered when it was counted (count_walk), and what the
\* memo says is published (WalkClock::published_forward), is stored under the
\* current key, though replies are lost, late and of other contracts.
CountedIsStored ==
  /\ vouched \subseteq Stored
  /\ memo = None \/ memo \subseteq Stored

\* Two walks counted (count_walk, WalkClock::due) are SEAL_SPACING apart in
\* real time, unless the process was restarted and its clock set forward
\* between them: setting the clock back buys nothing.
EvidenceIsSpaced ==
  [][(count' > count \/ done' # done) /\ count > 0
       => elapsed >= Spacing \/ (rewound /\ hastened)]_vars

\* A migration recorded as finished (set_migration_done) has carried all its
\* predecessors held, though one may be silent, and though the node may find
\* none for less than the window in which the walks must agree.  Doubted is a
\* walk that was told of a miss nobody asked about, which names no contract.
SealedOverNothing == done /\ ~doubted => AllHeld \subseteq Stored

\* What a predecessor that answers holds comes under the current key, even
\* when another never answers and no walk is ever complete.
ReachableIsCarried ==
  <>(\A g \in Generation : g \in mute \/ doubted \/ Held(g) \subseteq Stored)

\* With every predecessor answering the migration is recorded as finished,
\* and the address is probed no more.
MigrationEnds == <>(done \/ mute # {})
=============================================================================
