-------------------------- MODULE MigrationProofs --------------------------
(***************************************************************************)
(* What Migration keeps for every number of predecessors, every spacing    *)
(* and every number of failures: two walks that count as evidence are      *)
(* SEAL_SPACING apart in real time (WalkClock and count_walk together).    *)
(*                                                                         *)
(* Neither clock does it alone.  The process's own (next) is lost in a     *)
(* restart; the wall clock (lag) can be set forward.  ProcessKeeps says    *)
(* what the one still promises since the last restart, and WallKeeps what  *)
(* the other promises while nobody has set it forward; a walk counted has  *)
(* passed both.                                                            *)
(*                                                                         *)
(* And what they count on is stored, whatever is found and whatever        *)
(* replies are stray.  A publish is believed only when its reply is read   *)
(* from a connection with none left over (Believed): a stray reply is of   *)
(* another contract or names none, is no answer to a publish               *)
(* (StrayIsNoAnswer), and costs the connection (LinkAfter), so at most one *)
(* is ever waiting.                                                        *)
(***************************************************************************)
EXTENDS Migration, TLAPS

Clocks ==
  /\ count \in Nat /\ next \in Nat /\ elapsed \in Nat
  /\ lag = None \/ lag \in Int
  /\ done \in BOOLEAN /\ rewound \in BOOLEAN /\ hastened \in BOOLEAN

\* A walk runs when one is due, and never once the migration is finished.
WalkIsDue == walk # NoWalk => next = 0 /\ ~done

\* A walk counted has left its stamp.
Stamped == count > 0 => lag # None

ProcessKeeps == count > 0 /\ ~rewound /\ ~done => next + elapsed >= Spacing

WallKeeps == lag # None /\ ~hastened => lag <= elapsed \/ elapsed >= Spacing

IInv == Clocks /\ WalkIsDue /\ Stamped /\ ProcessKeeps /\ WallKeeps

-----------------------------------------------------------------------------

LEMMA ConstantTypes ==
  /\ Interval \in Nat /\ Spacing \in Nat /\ SealAfter \in Nat
  /\ MaxSkew \in Nat /\ MaxSets \in Nat
  /\ Interval <= Spacing /\ 1 < SealAfter /\ None \notin Int
BY MigrationAssumption

\* A walk has one phase at a time.
LEMMA Walking == ASSUME walk.phase # "none" PROVE walk # NoWalk
BY DEF NoWalk

\* The wall clock read is at most so far ahead.
LEMMA FarIsNat == Far \in Nat /\ Far >= Spacing
<1>1. MaxSkew \in Nat /\ MaxSets \in Nat /\ Spacing \in Nat
  BY ConstantTypes
<1>2. ASSUME NEW m \in Nat, NEW n \in Nat PROVE m * n \in Nat
  BY <1>2, SMT
<1> QED BY <1>1, <1>2 DEF Far

-----------------------------------------------------------------------------
(* The invariant *)

LEMMA InitInv == Init => IInv
<1> SUFFICES ASSUME Init PROVE IInv
  OBVIOUS
<1>1. Clocks
  BY ConstantTypes DEF Init, Clocks
<1>2. WalkIsDue /\ Stamped /\ ProcessKeeps
  BY DEF Init, WalkIsDue, Stamped, ProcessKeeps
<1>3. WallKeeps
  BY ConstantTypes DEF Init, WallKeeps
<1> QED BY <1>1, <1>2, <1>3 DEF IInv

\* What the steps of a walk before it is counted leave alone.
Aside == UNCHANGED <<warm, next, lag, elapsed, rewound, hastened, count, done>>

LEMMA ProbeSetsAside ==
  ASSUME NEW answer, Probe(answer) PROVE walk # NoWalk /\ Aside
BY Walking DEF Probe, Aside, kept, clockwork

LEMMA UpdateSetsAside ==
  ASSUME NEW answer, NEW arrives, Update(answer, arrives) PROVE walk # NoWalk /\ Aside
BY Walking DEF Update, Aside, kept, clockwork

LEMMA PutSetsAside ==
  ASSUME NEW answer, NEW arrives, Put(answer, arrives) PROVE walk # NoWalk /\ Aside
BY Walking DEF Put, Aside, kept, clockwork

LEMMA AsideKeeps == ASSUME IInv, walk # NoWalk \/ walk' = walk, Aside PROVE IInv'
BY DEF IInv, Aside, Clocks, WalkIsDue, Stamped, ProcessKeeps, WallKeeps

\* A walk that is counted: the stamp, the count and both clocks at once.
LEMMA CountKeeps ==
  ASSUME IInv,
         NEW reads \in BOOLEAN, NEW found \in BOOLEAN,
         NEW saved \in BOOLEAN, NEW sealed \in BOOLEAN,
         Count(reads, found, saved, sealed)
  PROVE  IInv'
<1> DEFINE before == IF found THEN count ELSE 0
           since  == IF found THEN lag ELSE None
           agrees == Agrees(walk)
           counts == agrees /\ reads /\ Spaced(since)
           stamps == agrees /\ reads /\ saved /\ (counts \/ Future(since))
           ends   == counts /\ before + 1 >= SealAfter /\ sealed
<1>1. /\ walk' = NoWalk
      /\ next' = IF ends THEN 0 ELSE IF agrees THEN Spacing ELSE Interval
      /\ count' = IF counts /\ saved THEN before + 1 ELSE count
      /\ lag' = IF stamps THEN 0 ELSE lag
      /\ done' = (done \/ ends)
      /\ elapsed' = IF counts /\ saved THEN 0 ELSE elapsed
      /\ rewound' = (rewound /\ ~(counts /\ saved))
      /\ hastened' = (hastened /\ ~(counts /\ saved))
  BY DEF Count
<1>2. walk # NoWalk
  BY Walking DEF Count
<1>3. next = 0 /\ ~done
  BY <1>2 DEF IInv, WalkIsDue
<1>4. before \in Nat /\ (since = None \/ since \in Int)
  BY DEF IInv, Clocks
<1>5. (counts /\ saved => stamps) /\ (counts => agrees)
  OBVIOUS
<1>6. agrees \in BOOLEAN /\ counts \in BOOLEAN /\ stamps \in BOOLEAN /\ ends \in BOOLEAN
  BY DEF Agrees
<1> HIDE DEF before, since, agrees, counts, stamps, ends
<1>7. Clocks'
  BY <1>1, <1>4, <1>6, ConstantTypes DEF IInv, Clocks
<1>8. WalkIsDue'
  BY <1>1 DEF WalkIsDue
<1>9. Stamped'
  BY <1>1, <1>5, <1>6, ConstantTypes DEF IInv, Stamped, Clocks
<1>10. ProcessKeeps'
  BY <1>1, <1>3, <1>4, <1>5, <1>6, ConstantTypes DEF IInv, ProcessKeeps, Clocks
<1>11. WallKeeps'
  <2>1. CASE stamps
    BY <1>1, <2>1, <1>6, ConstantTypes DEF IInv, WallKeeps, Clocks
  <2>2. CASE ~stamps
    <3>1. UNCHANGED <<lag, elapsed, hastened>>
      BY <1>1, <1>5, <2>2 DEF IInv, Clocks
    <3> QED BY <3>1 DEF IInv, WallKeeps
  <2> QED BY <2>1, <2>2
<1> QED BY <1>7, <1>8, <1>9, <1>10, <1>11 DEF IInv

LEMMA TickKeeps == ASSUME IInv, Tick PROVE IInv'
<1>1. /\ walk = NoWalk /\ walk' = walk
      /\ next' = CountDown(next)
      /\ lag' = IF lag = None THEN lag ELSE Lesser(lag + 1, Far)
      /\ elapsed' = Lesser(elapsed + 1, Spacing)
      /\ UNCHANGED <<count, done, rewound, hastened>>
  BY DEF Tick, kept
<1>2. Clocks'
  BY <1>1, ConstantTypes, FarIsNat DEF IInv, Clocks, CountDown, Lesser
<1>3. WalkIsDue' /\ Stamped'
  BY <1>1, ConstantTypes, FarIsNat DEF IInv, WalkIsDue, Stamped, Clocks, Lesser
<1>4. ProcessKeeps'
  BY <1>1, ConstantTypes DEF IInv, ProcessKeeps, Clocks, CountDown, Lesser
<1>5. WallKeeps'
  BY <1>1, ConstantTypes, FarIsNat DEF IInv, WallKeeps, Clocks, Lesser
<1> QED BY <1>2, <1>3, <1>4, <1>5 DEF IInv

LEMMA SetClockKeeps ==
  ASSUME IInv, NEW by \in Int, SetClock(by) PROVE IInv'
<1>1. /\ walk = NoWalk /\ walk' = walk /\ lag # None
      /\ lag' = Lesser(lag + by, Far)
      /\ hastened' = (hastened \/ by > 0)
      /\ UNCHANGED <<next, elapsed, rewound, count, done>>
  BY DEF SetClock, kept
<1>2. Clocks'
  BY <1>1, FarIsNat DEF IInv, Clocks, Lesser
<1>3. WalkIsDue' /\ Stamped' /\ ProcessKeeps'
  BY <1>1, ConstantTypes, FarIsNat
  DEF IInv, WalkIsDue, Stamped, ProcessKeeps, Clocks, Lesser
<1>4. WallKeeps'
  <2> SUFFICES ASSUME ~hastened' PROVE lag' <= elapsed' \/ elapsed' >= Spacing'
    BY DEF WallKeeps
  <2>1. ~hastened /\ by <= 0
    <3>1. ~hastened /\ ~(by > 0)
      BY <1>1, Zenon
    <3> QED BY <3>1
  <2>2. lag \in Int /\ elapsed \in Nat
    BY <1>1 DEF IInv, Clocks
  <2>3. lag' \in Int /\ lag' <= lag
    BY <1>1, <2>1, <2>2, FarIsNat DEF Lesser
  <2>4. lag <= elapsed \/ elapsed >= Spacing
    BY <1>1, <2>1 DEF IInv, WallKeeps
  <2> QED BY <1>1, <2>2, <2>3, <2>4, ConstantTypes
<1> QED BY <1>2, <1>3, <1>4 DEF IInv

LEMMA RestartKeeps == ASSUME IInv, Restart PROVE IInv'
BY DEF Restart, kept, IInv, Clocks, WalkIsDue, Stamped, ProcessKeeps, WallKeeps

LEMMA StartWalkKeeps == ASSUME IInv, StartWalk PROVE IInv'
BY DEF StartWalk, Due, kept, clockwork, IInv, Clocks, WalkIsDue, Stamped,
       ProcessKeeps, WallKeeps

LEMMA OthersKeep ==
  ASSUME IInv, \/ Redial \/ Darken \/ UNCHANGED vars
               \/ \E reply \in Unsought : Unasked(reply)
  PROVE  IInv'
<1>1. walk' = walk /\ Aside
  BY DEF Redial, Darken, Unasked, vars, kept, clockwork, Aside
<1> QED BY <1>1, AsideKeeps

LEMMA NextInv == IInv /\ [Next]_vars => IInv'
<1> SUFFICES ASSUME IInv, [Next]_vars PROVE IInv'
  OBVIOUS
<1>1. CASE StartWalk
  BY <1>1, StartWalkKeeps
<1>2. ASSUME NEW answer \in Answer, Probe(answer) PROVE IInv'
  BY <1>2, ProbeSetsAside, AsideKeeps
<1>3. ASSUME NEW answer \in Answer, NEW arrives \in BOOLEAN,
             Update(answer, arrives) \/ Put(answer, arrives)
      PROVE  IInv'
  BY <1>3, UpdateSetsAside, PutSetsAside, AsideKeeps
<1>4. ASSUME NEW reads \in BOOLEAN, NEW found \in BOOLEAN,
             NEW saved \in BOOLEAN, NEW sealed \in BOOLEAN,
             Count(reads, found, saved, sealed)
      PROVE  IInv'
  BY <1>4, CountKeeps
<1>5. CASE Tick
  BY <1>5, TickKeeps
<1>6. ASSUME NEW by \in -MaxSkew..MaxSkew, SetClock(by) PROVE IInv'
  BY <1>6, SetClockKeeps, ConstantTypes
<1>7. CASE Restart
  BY <1>7, RestartKeeps
<1>8. CASE \/ Redial \/ Darken \/ UNCHANGED vars
           \/ \E reply \in Unsought : Unasked(reply)
  BY <1>8, OthersKeep
<1> QED BY <1>1, <1>2, <1>3, <1>4, <1>5, <1>6, <1>7, <1>8 DEF Next, WalkStep

-----------------------------------------------------------------------------
(* The property *)

\* Only a walk counted raises the count or finishes the migration.
LEMMA OnlyCounted ==
  ASSUME [Next]_vars, count' # count \/ done' # done
  PROVE  \E reads, found, saved, sealed \in BOOLEAN : Count(reads, found, saved, sealed)
BY DEF Next, WalkStep, StartWalk, Probe, Update, Put, Redial, Unasked, Tick,
       SetClock, Restart, Darken, vars, kept

\* The step EvidenceIsSpaced asks of.
SpacedStep ==
  (count' > count \/ done' # done) /\ count > 0
       => elapsed >= Spacing \/ (rewound /\ hastened)

LEMMA StepIsSpaced == ASSUME IInv, [Next]_vars PROVE SpacedStep
<1> SUFFICES ASSUME count' > count \/ done' # done, count > 0
             PROVE  elapsed >= Spacing \/ (rewound /\ hastened)
  BY DEF SpacedStep
<1>0. count \in Nat /\ (lag = None \/ lag \in Int)
  BY DEF IInv, Clocks
<1>1. count' # count \/ done' # done
  BY <1>0
<1>2. PICK reads \in BOOLEAN, found \in BOOLEAN, saved \in BOOLEAN, sealed \in BOOLEAN :
        Count(reads, found, saved, sealed)
  BY <1>1, OnlyCounted
<1>3. walk # NoWalk
  BY <1>2, Walking DEF Count
<1>4. next = 0 /\ ~done
  BY <1>3 DEF IInv, WalkIsDue
<1>5. CASE found
  <2>1. Spaced(lag)
    <3>1. CASE count' # count
      BY <1>2, <1>5, <3>1 DEF Count
    <3>2. CASE done' # done
      BY <1>2, <1>5, <3>2, <1>4 DEF Count, IInv, Clocks
    <3> QED BY <1>1, <3>1, <3>2
  <2>2. lag \in Int /\ lag >= Spacing
    BY <2>1, <1>0 DEF Spaced, IInv, Stamped
  <2>3. hastened \/ elapsed >= Spacing
    BY <2>2, ConstantTypes DEF IInv, WallKeeps, Clocks
  <2>4. rewound \/ elapsed >= Spacing
    BY <1>4, ConstantTypes DEF IInv, ProcessKeeps, Clocks
  <2> QED BY <2>3, <2>4
<1>6. CASE ~found
  <2>1. count' = 1 \/ count' = count
    BY <1>2, <1>6 DEF Count
  <2>2. done' = done
    <3>1. ~(0 + 1 >= SealAfter)
      BY ConstantTypes
    <3> QED BY <1>2, <1>4, <1>6, <3>1 DEF Count, IInv, Clocks
  <2> QED BY <2>1, <2>2, <1>0
<1> QED BY <1>5, <1>6

\* For every number of predecessors, walks needed, failures, restarts and
\* settings of the clock: two walks counted are SEAL_SPACING apart in real
\* time, unless a restart and a clock set forward both came between.
THEOREM EvidenceStaysSpaced == Spec => EvidenceIsSpaced
<1>1. Spec => []IInv
  BY InitInv, NextInv, PTL DEF Spec
<1>2. IInv /\ [Next]_vars => [SpacedStep]_vars
  BY StepIsSpaced
<1>3. Spec => [][SpacedStep]_vars
  BY <1>1, <1>2, PTL DEF Spec
<1> QED BY <1>3 DEF EvidenceIsSpaced, SpacedStep

-----------------------------------------------------------------------------
(* What is counted is stored *)

\* What may be waiting on a connection: nothing, or one reply nobody asked for.
Strays == {<<>>} \cup {<<reply>> : reply \in Unsought}

\* A connection with at most one reply left over.
LinkShape == [open : BOOLEAN, waiting : BOOLEAN, queue : Strays]

\* A walk in progress.
WalkShape ==
  [phase : {"probe", "update", "put", "count"}, gen : Generation,
   got : SUBSET AllHeld, complete : BOOLEAN, published : BOOLEAN]

\* The types the argument about what is stored needs.
Shapes ==
  /\ link \in LinkShape
  /\ walk = NoWalk \/ walk \in WalkShape
  /\ current = None \/ current \in SUBSET AllHeld
  /\ memo = None \/ memo \in SUBSET AllHeld

\* A walk about to be counted, whose publish was accepted or not needed, has
\* its finds stored.
PublishedIsStored == walk.phase = "count" /\ walk.published => walk.got \subseteq Stored

\* The inductive invariant.
SInv == Shapes /\ PublishedIsStored /\ CountedIsStored

-----------------------------------------------------------------------------

\* No set of finds is mistaken for none.
LEMMA NoneIsNoSet == \A S \in SUBSET AllHeld : S # None
BY MigrationAssumption DEF AllHeld, Generation

\* The fields of a reply, named so that provers need not expand it.
LEMMA ReplyFields ==
  ASSUME NEW says, NEW about
  PROVE  Reply(says, about).says = says /\ Reply(says, about).about = about
BY DEF Reply

\* The reply to a request on a connection with none left over is the node's.
LEMMA Quiet ==
  ASSUME NEW l \in LinkShape, l.queue = <<>>, NEW answer
  PROVE  /\ Request(l, answer).link \in LinkShape
         /\ Request(l, answer).reply \in {NoReply, answer}
<1> DEFINE replies == Append(l.queue, answer)
<1>1. replies = <<answer>>
  BY DEF LinkShape
<1>2. Head(replies) = answer /\ Tail(replies) = <<>>
  BY <1>1
<1>3. Closed \in LinkShape /\ Backoff \in LinkShape
  BY DEF Closed, Backoff, LinkShape, Strays
<1>4. [open |-> TRUE, waiting |-> FALSE, queue |-> <<>>] \in LinkShape
  BY DEF LinkShape, Strays
<1>5. answer = Silence => Head(replies) = Silence
  BY <1>2
<1> HIDE DEF replies
<1> QED BY <1>2, <1>3, <1>4, <1>5 DEF Request, replies

\* One on a connection with a stray reply is that, or none.
LEMMA Stray ==
  ASSUME NEW l \in LinkShape, l.queue # <<>>, NEW answer
  PROVE  \/ Request(l, answer).reply = NoReply
         \/ Request(l, answer).reply \in Unsought
<1>1. PICK stray \in Unsought : l.queue = <<stray>>
  BY DEF LinkShape, Strays
<1>2. Head(Append(l.queue, answer)) = stray
  BY <1>1
<1> QED BY <1>2 DEF Request

\* An older node's miss, when it is handed over as the reply, costs the link.
LEMMA NamelessCloses ==
  ASSUME NEW l, NEW answer, Request(l, answer).reply = OldMissing
  PROVE  Request(l, answer).link = Closed
<1>1. OldMissing # NoReply /\ OldMissing.says # "error node"
  BY DEF OldMissing, NoReply, Reply
<1> QED BY <1>1 DEF Request, Errors

\* Closing after a request leaves an empty link.
LEMMA Discarded ==
  ASSUME NEW l \in LinkShape, NEW answer
  PROVE  Discard(Request(l, answer).link) \in LinkShape
<1>1. \/ Request(l, answer).link = l
      \/ Request(l, answer).link \in {Closed, Backoff}
      \/ \E q : Request(l, answer).link = [open |-> TRUE, waiting |-> FALSE, queue |-> q]
  BY DEF Request
<1>2. \A q : Discard([open |-> TRUE, waiting |-> FALSE, queue |-> q]) \in LinkShape
  BY DEF Discard, LinkShape, Strays
<1>3. Discard(l) \in LinkShape /\ Discard(Closed) \in LinkShape /\ Discard(Backoff) \in LinkShape
  BY DEF Discard, Closed, Backoff, LinkShape, Strays
<1> QED BY <1>1, <1>2, <1>3

\* A stray reply, or none, answers no request of the walk, but that a miss
\* without a name is taken for a miss of what a probe asks about.
LEMMA StrayIsNoAnswer ==
  ASSUME NEW reply, NEW g \in Nat, reply = NoReply \/ reply \in Unsought
  PROVE  /\ reply = OldMissing \/ GetSays(g, reply) = "unmatched"
         /\ UpdateSays(Now, reply) = "unmatched"
         /\ ~PutAnswered(Now, reply)
<1>1. CASE reply = OldMissing
  <2>1. OldMissing.about = Nobody /\ Nobody # Now
    BY DEF OldMissing, Reply, Nobody, Now
  <2>2. OldMissing # Reply("put", Now)
    BY <2>1, ReplyFields
  <2> QED BY <1>1, <2>1, <2>2 DEF UpdateSays, PutAnswered
<1>2. CASE reply # OldMissing
  <2>1. reply.about \in {Nobody, Other}
    <3>1. CASE reply = NoReply
      BY <3>1 DEF NoReply, Reply
    <3>2. ASSUME NEW says \in {"updated", "put", "missing"}, reply = Reply(says, Other)
          PROVE  reply.about \in {Nobody, Other}
      BY <3>2, ReplyFields
    <3> QED BY <1>2, <3>1, <3>2 DEF Unsought
  <2>2. reply.about # g /\ reply.about # Now
    <3>1. Nobody < 0 /\ Other < 0 /\ Now = 0
      BY DEF Nobody, Other, Now
    <3>2. Nobody # g /\ Other # g /\ Nobody # Now /\ Other # Now
      BY <3>1
    <3> QED BY <2>1, <3>2
  <2>3. reply # Reply("put", Now)
    BY <2>2, ReplyFields
  <2> QED BY <1>2, <2>2, <2>3 DEF GetSays, UpdateSays, PutAnswered
<1> QED BY <1>1, <1>2

\* The link after a request, whatever is made of the reply.
LEMMA LinkAfter ==
  ASSUME NEW l \in LinkShape, NEW answer, NEW g \in Nat
  PROVE  LET r == Request(l, answer)
         IN  /\ AfterReply(r.link, GetSays(g, r.reply)) \in LinkShape
             /\ AfterReply(r.link, UpdateSays(Now, r.reply)) \in LinkShape
             /\ PutAnswered(Now, r.reply) => r.link \in LinkShape
<1>1. CASE l.queue = <<>>
  BY <1>1, Quiet, Discarded DEF AfterReply
<1>2. CASE l.queue # <<>>
  <2>1. CASE Request(l, answer).reply = OldMissing
    <3>1. Request(l, answer).link = Closed /\ Closed \in LinkShape
      BY <2>1, NamelessCloses DEF Closed, LinkShape, Strays
    <3>2. Discard(Request(l, answer).link) \in LinkShape
      BY Discarded
    <3> QED BY <3>1, <3>2 DEF AfterReply
  <2>2. CASE Request(l, answer).reply # OldMissing
    BY <1>2, <2>2, Stray, StrayIsNoAnswer, Discarded DEF AfterReply
  <2> QED BY <2>1, <2>2
<1> QED BY <1>1, <1>2

\* A publish believed was served.
LEMMA Believed ==
  ASSUME NEW l \in LinkShape, NEW answer,
         \/ UpdateSays(Now, Request(l, answer).reply) = "updated"
         \/ PutAnswered(Now, Request(l, answer).reply)
  PROVE  /\ UpdateSays(Now, Request(l, answer).reply) = "updated"
              => answer.says = "updated"
         /\ PutAnswered(Now, Request(l, answer).reply) => answer = Reply("put", Now)
<1>1. l.queue = <<>>
  BY Stray, StrayIsNoAnswer
<1>2. Request(l, answer).reply = answer
  BY <1>1, Quiet, StrayIsNoAnswer
<1> QED BY <1>2 DEF UpdateSays, PutAnswered

\* A failure says neither that an update nor that a put was served.
LEMMA FailuresSay ==
  ASSUME NEW answer \in Failures \cup {NoReply, Reply("missing", Now), OldMissing}
  PROVE  answer.says \notin {"updated", "put"}
<1>1. answer \in {DialFails, Unsent, Silence, OldMissing, Reply("error", Nobody),
                   Reply("error node", Nobody), NoReply, Reply("missing", Now)}
  BY DEF Failures, Errors
<1>2. /\ DialFails.says = "dial fails" /\ Unsent.says = "unsent"
      /\ Silence.says = "silence" /\ NoReply.says = "none"
  BY DEF DialFails, Unsent, Silence, NoReply, Reply
<1>3. /\ OldMissing.says = "error missing" /\ Reply("error", Nobody).says = "error"
      /\ Reply("error node", Nobody).says = "error node"
      /\ Reply("missing", Now).says = "missing"
  BY DEF OldMissing, Reply
<1> QED BY <1>1, <1>2, <1>3

-----------------------------------------------------------------------------
(* The invariant *)

\* Before the first walk nothing is counted and nothing remembered.
LEMMA InitStored == Init => SInv
<1> SUFFICES ASSUME Init PROVE SInv
  OBVIOUS
<1>1. link \in LinkShape
  BY DEF Init, Closed, LinkShape, Strays
<1>2. Shapes
  BY <1>1 DEF Init, Shapes
<1>3. PublishedIsStored /\ CountedIsStored
  BY DEF Init, NoWalk, PublishedIsStored, CountedIsStored
<1> QED BY <1>2, <1>3 DEF SInv

\* What is stored stays, when no more than the walk's finds are merged in.
LEMMA MoreStored ==
  ASSUME Shapes, walk \in WalkShape, current' = current \/ current' = Merged
  PROVE  /\ current' = None \/ current' \in SUBSET AllHeld
         /\ Stored \subseteq Stored'
         /\ current' = Merged => walk.got \subseteq Stored'
<1>1. CASE current' = current /\ current' # Merged
  BY <1>1 DEF Shapes, Stored
<1>2. CASE current' = Merged
  BY <1>2, NoneIsNoSet DEF Shapes, Stored, Merged, WalkShape
<1> QED BY <1>1, <1>2

\* When the probes end, a walk counts as published only what the memo says is.
LEMMA ProbedStores ==
  ASSUME NEW w \in WalkShape, memo = None \/ memo \in SUBSET AllHeld,
         memo = None \/ memo \subseteq Stored
  PROVE  /\ Probed(w) \in WalkShape
         /\ Probed(w).phase = "count" /\ Probed(w).published => Probed(w).got \subseteq Stored
BY NoneIsNoSet DEF Probed, WalkShape

\* Each probe heard keeps that.
LEMMA HeardStores ==
  ASSUME Shapes, CountedIsStored, walk \in WalkShape, NEW said
  PROVE  /\ Heard(walk, said) \in WalkShape
         /\ Heard(walk, said).phase = "count" /\ Heard(walk, said).published
              => walk.phase = "count" \/ Heard(walk, said).got \subseteq Stored
<1> DEFINE v == [walk EXCEPT !.got = IF said = "state" THEN @ \cup Held(walk.gen) ELSE @,
                             !.complete = @ /\ said \in {"state", "missing"}]
<1>1. walk.gen \in Generation /\ Generations \in Nat
  BY MigrationAssumption DEF WalkShape
<1>2. Held(walk.gen) \in SUBSET AllHeld
  BY <1>1 DEF AllHeld
<1>3. v \in WalkShape /\ v.gen = walk.gen /\ v.phase = walk.phase
  BY <1>2 DEF WalkShape
<1>4. Heard(walk, said) = IF walk.gen = Generations THEN Probed(v)
                          ELSE [v EXCEPT !.gen = walk.gen + 1]
  BY DEF Heard
<1> HIDE DEF v
<1>5. CASE walk.gen = Generations
  BY <1>3, <1>4, <1>5, ProbedStores DEF Shapes, CountedIsStored
<1>6. CASE walk.gen # Generations
  <2>1. walk.gen + 1 \in Generation
    BY <1>1, <1>6 DEF Generation
  <2> QED BY <1>3, <1>4, <1>6, <2>1 DEF WalkShape
<1> QED BY <1>5, <1>6

\* The invariant through the probe of a predecessor.
LEMMA ProbeStores ==
  ASSUME SInv, NEW answer, Probe(answer) PROVE SInv'
<1>1. walk.phase = "probe" /\ walk \in WalkShape
  BY DEF Probe, SInv, Shapes, NoWalk
<1>2. /\ \E said : walk' = Heard(walk, said)
      /\ UNCHANGED <<current, memo, vouched>>
  BY DEF Probe
<1>3. link' \in LinkShape
  <2>1. walk.gen \in Nat
    BY <1>1, MigrationAssumption DEF WalkShape, Generation
  <2> QED BY <2>1, LinkAfter DEF Probe, SInv, Shapes
<1>4. /\ walk' \in WalkShape
      /\ walk'.phase = "count" /\ walk'.published => walk'.got \subseteq Stored
  BY <1>1, <1>2, HeardStores DEF SInv
<1> QED BY <1>2, <1>3, <1>4 DEF SInv, Shapes, PublishedIsStored, CountedIsStored, Stored

\* After a publish: accepted only when the node stored it.
LEMMA PublishedStores ==
  ASSUME SInv, walk \in WalkShape, NEW accepted \in BOOLEAN, Published(accepted),
         link' \in LinkShape, current' = current \/ current' = Merged,
         accepted => current' = Merged, vouched' = vouched
  PROVE  SInv'
<1>1. /\ current' = None \/ current' \in SUBSET AllHeld
      /\ Stored \subseteq Stored'
      /\ current' = Merged => walk.got \subseteq Stored'
  BY MoreStored DEF SInv
<1>2. walk' \in WalkShape /\ walk'.got = walk.got /\ walk'.published = accepted
  BY DEF Published, WalkShape
<1>3. memo' = walk.got \/ memo' = memo
  BY DEF Published
<1>4. memo' = walk.got => accepted \/ memo' = memo
  BY DEF Published
<1>5. Shapes'
  BY <1>1, <1>2, <1>3 DEF SInv, Shapes, WalkShape
<1>6. PublishedIsStored'
  BY <1>1, <1>2 DEF PublishedIsStored
<1>7. CountedIsStored'
  BY <1>1, <1>3, <1>4 DEF SInv, CountedIsStored
<1> QED BY <1>5, <1>6, <1>7 DEF SInv

\* The invariant through the update of the current key.
LEMMA UpdateStores ==
  ASSUME SInv, NEW answer, NEW arrives \in BOOLEAN, Update(answer, arrives) PROVE SInv'
<1> DEFINE r    == Request(link, answer)
           said == UpdateSays(Now, r.reply)
<1>1. walk.phase = "update" /\ walk \in WalkShape /\ link \in LinkShape
  BY DEF Update, SInv, Shapes, NoWalk
<1>2. link' \in LinkShape
  BY <1>1, LinkAfter DEF Update
<1>3. current' = current \/ current' = Merged
  BY DEF Update
<1>4. said = "updated" => current' = Merged
  <2> SUFFICES ASSUME said = "updated" PROVE current' = Merged
    OBVIOUS
  <2>1. answer.says = "updated"
    BY <1>1, Believed
  <2>2. answer \notin Failures \cup {NoReply, Reply("missing", Now), OldMissing}
    BY <2>1, FailuresSay
  <2>3. current # None /\ answer = Reply("updated", Now) /\ arrives
    BY <2>2 DEF Update, Answered
  <2> QED BY <2>3 DEF Update
<1>5. vouched' = vouched
  BY DEF Update, kept
<1>6. \/ Published(FALSE)
      \/ said = "updated" /\ Published(TRUE)
      \/ walk' = [walk EXCEPT !.phase = "put"] /\ UNCHANGED memo
  BY DEF Update
<1> HIDE DEF r, said
<1>7. CASE Published(FALSE)
  BY <1>1, <1>2, <1>3, <1>5, <1>7, PublishedStores
<1>8. CASE said = "updated" /\ Published(TRUE)
  BY <1>1, <1>2, <1>3, <1>4, <1>5, <1>8, PublishedStores
<1>9. CASE walk' = [walk EXCEPT !.phase = "put"] /\ UNCHANGED memo
  <2>1. walk' \in WalkShape /\ walk'.phase = "put"
    BY <1>1, <1>9 DEF WalkShape
  <2>2. /\ current' = None \/ current' \in SUBSET AllHeld
        /\ Stored \subseteq Stored'
    BY <1>1, <1>3, MoreStored DEF SInv
  <2> QED BY <1>2, <1>5, <1>9, <2>1, <2>2 DEF SInv, Shapes, PublishedIsStored, CountedIsStored
<1> QED BY <1>6, <1>7, <1>8, <1>9

\* The invariant through the put under the current key.
LEMMA PutStores ==
  ASSUME SInv, NEW answer, NEW arrives \in BOOLEAN, Put(answer, arrives) PROVE SInv'
<1> DEFINE r      == Request(link, answer)
           stored == PutAnswered(Now, r.reply)
<1>1. walk.phase = "put" /\ walk \in WalkShape /\ link \in LinkShape
  BY DEF Put, SInv, Shapes, NoWalk
<1>2. link' \in LinkShape
  BY <1>1, LinkAfter, Discarded DEF Put
<1>3. /\ current' = IF arrives THEN Merged ELSE current
      /\ Published(stored) /\ vouched' = vouched
      /\ answer = Reply("put", Now) => arrives
  BY DEF Put, kept
<1>4. stored \in BOOLEAN /\ (stored => current' = Merged)
  BY <1>1, <1>3, Believed DEF PutAnswered
<1> HIDE DEF r, stored
<1> QED BY <1>1, <1>2, <1>3, <1>4, PublishedStores

\* The invariant through the count of a finished walk.
LEMMA CountStores ==
  ASSUME SInv,
         NEW reads \in BOOLEAN, NEW found \in BOOLEAN,
         NEW saved \in BOOLEAN, NEW sealed \in BOOLEAN,
         Count(reads, found, saved, sealed)
  PROVE  SInv'
<1>1. walk.phase = "count" /\ walk \in WalkShape
  BY DEF Count, SInv, Shapes, NoWalk
<1>2. /\ walk' = NoWalk /\ UNCHANGED <<link, current>>
      /\ memo' \in {None, memo}
      /\ vouched' = vouched \/ (Agrees(walk) /\ vouched' = vouched \cup walk.got)
  BY DEF Count
<1>3. Agrees(walk) => walk.got \subseteq Stored
  BY <1>1 DEF Agrees, SInv, PublishedIsStored
<1>4. Shapes' /\ PublishedIsStored'
  BY <1>2 DEF SInv, Shapes, PublishedIsStored, NoWalk
<1>5. CountedIsStored'
  BY <1>2, <1>3 DEF SInv, CountedIsStored, Stored
<1> QED BY <1>4, <1>5 DEF SInv

\* The invariant through the start of a walk.
LEMMA StartWalkStores == ASSUME SInv, StartWalk PROVE SInv'
<1>1. walk' \in WalkShape /\ walk'.phase = "probe"
  BY MigrationAssumption DEF StartWalk, WalkShape, Generation
<1> QED BY <1>1 DEF StartWalk, kept, SInv, Shapes, PublishedIsStored, CountedIsStored, Stored

\* The invariant through every step that is not the walk's.
LEMMA OthersStore ==
  ASSUME SInv,
         \/ Redial \/ Tick \/ Restart \/ Darken \/ UNCHANGED vars
         \/ \E by \in -MaxSkew..MaxSkew : SetClock(by)
         \/ \E reply \in Unsought : Unasked(reply)
  PROVE  SInv'
<1>1. UNCHANGED <<current, vouched>>
  BY DEF Redial, Tick, Restart, Darken, SetClock, Unasked, vars, kept
<1>2. (walk' = walk \/ walk' = NoWalk) /\ (memo' = memo \/ memo' = None)
  BY DEF Redial, Tick, Restart, Darken, SetClock, Unasked, vars
<1>3. link' \in LinkShape
  <2>1. CASE \E reply \in Unsought : Unasked(reply)
    BY <2>1 DEF Unasked, SInv, Shapes, LinkShape, Strays
  <2>2. CASE ~\E reply \in Unsought : Unasked(reply)
    <3>1. link' \in {link, Closed}
      BY <2>2 DEF Redial, Tick, Restart, Darken, SetClock, vars
    <3>2. Closed \in LinkShape
      BY DEF Closed, LinkShape, Strays
    <3> QED BY <3>1, <3>2 DEF SInv, Shapes
  <2> QED BY <2>1, <2>2
<1>4. Shapes'
  BY <1>1, <1>2, <1>3 DEF SInv, Shapes
<1>5. PublishedIsStored' /\ CountedIsStored'
  BY <1>1, <1>2 DEF SInv, PublishedIsStored, CountedIsStored, Stored, NoWalk
<1> QED BY <1>4, <1>5 DEF SInv

\* The invariant through every step.
LEMMA NextStores == SInv /\ [Next]_vars => SInv'
<1> SUFFICES ASSUME SInv, [Next]_vars PROVE SInv'
  OBVIOUS
<1>1. CASE StartWalk
  BY <1>1, StartWalkStores
<1>2. ASSUME NEW answer \in Answer, Probe(answer) PROVE SInv'
  BY <1>2, ProbeStores
<1>3. ASSUME NEW answer \in Answer, NEW arrives \in BOOLEAN,
             Update(answer, arrives) \/ Put(answer, arrives)
      PROVE  SInv'
  BY <1>3, UpdateStores, PutStores
<1>4. ASSUME NEW reads \in BOOLEAN, NEW found \in BOOLEAN,
             NEW saved \in BOOLEAN, NEW sealed \in BOOLEAN,
             Count(reads, found, saved, sealed)
      PROVE  SInv'
  BY <1>4, CountStores
<1>5. CASE \/ Redial \/ Tick \/ Restart \/ Darken \/ UNCHANGED vars
           \/ \E by \in -MaxSkew..MaxSkew : SetClock(by)
           \/ \E reply \in Unsought : Unasked(reply)
  BY <1>5, OthersStore
<1> QED BY <1>1, <1>2, <1>3, <1>4, <1>5 DEF Next, WalkStep

\* What a walk had recovered when it was counted (count_walk), and what the
\* memo says is published (WalkClock::published_forward), is stored under the
\* current key in every state: no lost, late or foreign reply, failed write or
\* restart makes the bridge count findings it has not seen stored.
THEOREM CountedStaysStored == Spec => []CountedIsStored
<1>1. Spec => []SInv
  BY InitStored, NextStores, PTL DEF Spec
<1>2. SInv => CountedIsStored
  BY DEF SInv
<1> QED BY <1>1, <1>2, PTL

-----------------------------------------------------------------------------
(* What is finished is carried *)

\* What a walk has asked about it has found.
Found(w) == \A g \in Generation : Held(g) \subseteq w.got \/ (w.phase = "probe" /\ g >= w.gen)

\* A spell is on, or a walk that lacks no answer has found what it asked about,
\* or was told of a miss nobody asked about.
AskedIsFound == walk # NoWalk /\ walk.complete => dark > 0 \/ doubted \/ Found(walk)

\* There is one spell, and it ends.
OneSpell ==
  /\ dark \in 0..Dark /\ spells \in {0, 1}
  /\ dark > 0 => spells = 0
  /\ doubted \in BOOLEAN

\* The time between the first walk counted and the last, and since the last.
Window == (count - 1) * Spacing + elapsed

\* Walks counted without everything found were all taken in the spell, and the
\* spell has lasted at least as long as they are apart.
CountedInSpell ==
  count > 0 /\ ~doubted /\ ~(AllHeld \subseteq vouched)
    => spells = 0 /\ (dark > 0 => dark + Window <= Dark)

SealedIsVouched == done /\ ~doubted => AllHeld \subseteq vouched

DInv == OneSpell /\ AskedIsFound /\ CountedInSpell /\ SealedIsVouched

LEMMA SpellConstants ==
  /\ Dark \in Nat /\ Spacing \in Nat /\ SealAfter \in Nat /\ Generations \in Nat
  /\ Generations # 0 /\ 1 < SealAfter
  /\ Dark <= (SealAfter - 1) * Spacing
BY MigrationAssumption, OutageAssumption

\* One more walk is one more spacing; fewer walks are not more time.
LEMMA Times ==
  /\ \A n \in Nat : (n + 1 - 1) * Spacing = (n - 1) * Spacing + Spacing
  /\ \A m, n \in Nat : m <= n => m * Spacing <= n * Spacing
<1>1. Spacing \in Nat
  BY ConstantTypes
<1>2. \A n \in Nat : (n + 1 - 1) * Spacing = (n - 1) * Spacing + Spacing
  BY <1>1
<1>3. ASSUME NEW m \in Nat, NEW n \in Nat, m <= n
      PROVE  m * Spacing <= n * Spacing
  <2>1. PICK k \in Nat : n = m + k
    <3>1. n - m \in Nat /\ n = m + (n - m)
      BY <1>3
    <3> QED BY <3>1
  <2>2. n * Spacing = m * Spacing + k * Spacing /\ k * Spacing \in Nat /\ m * Spacing \in Nat
    BY <1>1, <2>1
  <2> QED BY <2>2
<1> QED BY <1>2, <1>3

\* When none is waiting, only a node in its spell says of a predecessor that
\* held something that it has none: no failure says so.
LEMMA MissingIsSpell ==
  ASSUME link \in LinkShape, NEW g \in Generation, NEW answer, link.queue = <<>>,
         Answered(answer, Honest(g)),
         GetSays(g, Request(link, answer).reply) = "missing"
  PROVE  Held(g) = {} \/ dark > 0
<1>1. g \in Nat
  BY SpellConstants DEF Generation
<1>3. Request(link, answer).reply = answer
  <2>1. NoReply # OldMissing
    BY DEF OldMissing, NoReply, Reply
  <2>2. GetSays(g, NoReply) = "unmatched"
    BY <1>1, <2>1, StrayIsNoAnswer
  <2> QED BY <2>2, Quiet
<1>4. GetSays(g, answer) = "missing"
  BY <1>3
<1>5. answer \notin Failures \cup {NoReply}
  <2>1. /\ Nobody # g
        /\ \A says : Reply(says, Nobody).about = Nobody /\ Reply(says, Nobody).says = says
    BY <1>1, ReplyFields DEF Nobody
  <2>2. \A r : GetSays(g, r) = "missing" /\ r.about = Nobody => r = OldMissing
    BY <2>1 DEF GetSays
  <2>3. NoReply # OldMissing
    BY <2>1 DEF NoReply, OldMissing
  <2>4. OldMissing \notin {DialFails, Unsent, Silence}
    <3>1. /\ OldMissing.says = "error missing" /\ DialFails.says = "dial fails"
          /\ Unsent.says = "unsent" /\ Silence.says = "silence"
      BY DEF OldMissing, DialFails, Unsent, Silence, Reply
    <3> QED BY <3>1
  <2>5. \A r \in Failures \cup {NoReply} : r.about = Nobody /\ r # OldMissing
    BY <2>1, <2>3, <2>4 DEF Failures, Errors, DialFails, Unsent, Silence, NoReply, OldMissing
  <2> QED BY <1>4, <2>2, <2>5
<1>6. answer \in Honest(g)
  BY <1>5 DEF Answered
<1>7. answer # Silence
  BY <1>5 DEF Failures
<1>8. answer # Reply("state", g)
  <2> SUFFICES ASSUME answer = Reply("state", g) PROVE FALSE
    OBVIOUS
  <2>1. answer.says = "state" /\ answer.about = g
    BY ReplyFields
  <2>2. OldMissing.says # "state"
    BY DEF OldMissing, Reply
  <2> QED BY <1>4, <2>1, <2>2 DEF GetSays
<1> QED BY <1>6, <1>7, <1>8 DEF Honest

LEMMA ProbeFinds ==
  ASSUME SInv, DInv, NEW answer, Probe(answer)
  PROVE  DInv'
<1> DEFINE said == GetSays(walk.gen, Request(link, answer).reply)
           g    == walk.gen
           v    == [walk EXCEPT !.got = IF said = "state" THEN @ \cup Held(g) ELSE @,
                                !.complete = @ /\ said \in {"state", "missing"}]
<1>1. /\ walk.phase = "probe" /\ walk \in WalkShape /\ g \in Generation
      /\ link \in LinkShape /\ walk # NoWalk
  BY Walking DEF Probe, SInv, Shapes, NoWalk, WalkShape
<1>2. /\ Answered(answer, Honest(g))
      /\ walk' = IF g = Generations THEN Probed(v) ELSE [v EXCEPT !.gen = g + 1]
      /\ doubted' = (doubted \/ (said = "missing" /\ link.queue # <<>>))
      /\ UNCHANGED <<dark, spells, count, done, vouched, elapsed>>
  BY DEF Probe, Heard, world, clockwork
<1>3. said = "missing" /\ ~doubted' => Held(g) = {} \/ dark > 0
  BY <1>1, <1>2, MissingIsSpell
<1>4. /\ v.phase = "probe" /\ v.gen = g
      /\ v.got = IF said = "state" THEN walk.got \cup Held(g) ELSE walk.got
      /\ v.complete = (walk.complete /\ said \in {"state", "missing"})
  BY <1>1 DEF WalkShape
<1>5. v \in [phase : {"probe"}, gen : Generation, got : SUBSET AllHeld,
            complete : BOOLEAN, published : BOOLEAN]
  <2>1. Held(g) \subseteq AllHeld
    BY <1>1 DEF AllHeld
  <2> QED BY <1>1, <2>1 DEF WalkShape
<1> HIDE DEF v, said
<1>6. v.complete /\ ~(dark > 0) /\ ~doubted' => \A h \in Generation : Held(h) \subseteq v.got \/ h > g
  <2> SUFFICES ASSUME v.complete, ~(dark > 0), ~doubted',
                      NEW h \in Generation, ~(h > g)
               PROVE  Held(h) \subseteq v.got
    OBVIOUS
  <2>1. walk.complete = TRUE /\ said \in {"state", "missing"}
    BY <1>1, <1>4 DEF WalkShape
  <2>2. CASE h = g
    BY <1>3, <1>4, <2>1, <2>2
  <2>3. CASE h # g
    <3>1. ~(h >= g)
      BY <1>1, <2>3, SpellConstants DEF Generation
    <3>2. Found(walk)
      BY <1>1, <1>2, <2>1 DEF DInv, AskedIsFound
    <3> QED BY <1>4, <3>1, <3>2 DEF Found
  <2> QED BY <2>2, <2>3
<1>7. AskedIsFound'
  <2> SUFFICES ASSUME walk'.complete, ~(dark > 0), ~doubted'
               PROVE  Found(walk')
    BY <1>2 DEF AskedIsFound, Found
  <2>1. CASE g = Generations
    <3>1. Probed(v).got = v.got /\ Probed(v).complete = v.complete
      BY <1>5 DEF Probed
    <3>2. \A h \in Generation : ~(h > g)
      BY <2>1, SpellConstants DEF Generation
    <3> QED BY <1>2, <1>6, <2>1, <3>1, <3>2 DEF Found
  <2>2. CASE g # Generations
    <3>1. /\ walk'.got = v.got /\ walk'.complete = v.complete
          /\ walk'.phase = "probe" /\ walk'.gen = g + 1
      BY <1>2, <1>4, <1>5, <2>2
    <3>2. \A h \in Generation : h > g => h >= g + 1
      BY <1>1, SpellConstants DEF Generation
    <3> QED BY <1>6, <3>1, <3>2 DEF Found
  <2> QED BY <2>1, <2>2
<1>8. doubted' \in BOOLEAN /\ (~doubted' => ~doubted)
  BY <1>2 DEF DInv, OneSpell
<1> QED BY <1>2, <1>7, <1>8 DEF DInv, OneSpell, CountedInSpell, SealedIsVouched, Window

LEMMA PublishFinds ==
  ASSUME SInv, DInv, NEW answer, NEW arrives \in BOOLEAN,
         Update(answer, arrives) \/ Put(answer, arrives)
  PROVE  DInv'
<1>1. /\ walk \in WalkShape /\ walk # NoWalk /\ walk.phase \in {"update", "put"}
      /\ UNCHANGED <<dark, spells, count, done, doubted, vouched, elapsed>>
  BY Walking DEF Update, Put, SInv, Shapes, NoWalk, world, kept, clockwork
<1>2. /\ walk'.got = walk.got /\ walk'.complete = walk.complete
      /\ walk'.phase # "probe"
  BY <1>1 DEF Update, Put, Published, WalkShape
<1>3. AskedIsFound'
  BY <1>1, <1>2 DEF DInv, AskedIsFound, Found
<1> QED BY <1>1, <1>3 DEF DInv, OneSpell, CountedInSpell, SealedIsVouched, Window

\* A walk counted either had found everything or was taken in the spell, which
\* by then has lasted another spacing.
LEMMA CountFinds ==
  ASSUME IInv, SInv, DInv,
         NEW reads \in BOOLEAN, NEW found \in BOOLEAN,
         NEW saved \in BOOLEAN, NEW sealed \in BOOLEAN,
         Count(reads, found, saved, sealed)
  PROVE  DInv'
<1> DEFINE before == IF found THEN count ELSE 0
           since  == IF found THEN lag ELSE None
           counts == Agrees(walk) /\ reads /\ Spaced(since)
           ends   == counts /\ before + 1 >= SealAfter /\ sealed
<1>1. /\ walk.phase = "count" /\ walk \in WalkShape /\ walk # NoWalk
      /\ walk' = NoWalk
      /\ count' = IF counts /\ saved THEN before + 1 ELSE count
      /\ done' = (done \/ ends)
      /\ elapsed' = IF counts /\ saved THEN 0 ELSE elapsed
      /\ doubted' = (doubted \/ (counts /\ count > 0 /\ rewound /\ hastened))
      /\ vouched' = IF counts THEN vouched \cup walk.got ELSE vouched
      /\ UNCHANGED <<dark, spells>>
  BY Walking DEF Count, SInv, Shapes, NoWalk, world
<1>2. /\ count \in Nat /\ elapsed \in Nat /\ (lag = None \/ lag \in Int)
      /\ next = 0 /\ ~done /\ (count > 0 => lag # None)
      /\ done \in BOOLEAN /\ doubted \in BOOLEAN
      /\ rewound \in BOOLEAN /\ hastened \in BOOLEAN
      /\ dark \in 0..Dark /\ dark \in Nat
  BY <1>1, SpellConstants DEF IInv, Clocks, WalkIsDue, Stamped, DInv, OneSpell
<1>3. counts /\ ~doubted => dark > 0 \/ AllHeld \subseteq vouched'
  <2> SUFFICES ASSUME counts, ~doubted, ~(dark > 0)
               PROVE  AllHeld \subseteq vouched'
    OBVIOUS
  <2>1. walk.complete
    BY DEF Agrees
  <2>2. Found(walk)
    BY <1>1, <2>1 DEF DInv, AskedIsFound
  <2>3. AllHeld \subseteq walk.got
    BY <1>1, <2>2 DEF Found, AllHeld
  <2> QED BY <1>1, <2>3
<1>4. counts /\ found /\ count > 0 => elapsed >= Spacing \/ (rewound /\ hastened)
  <2> SUFFICES ASSUME counts, found, count > 0
               PROVE  elapsed >= Spacing \/ (rewound /\ hastened)
    OBVIOUS
  <2>1. lag \in Int /\ lag >= Spacing
    BY <1>2 DEF Spaced
  <2>2. hastened \/ elapsed >= Spacing
    BY <1>2, <2>1, ConstantTypes DEF IInv, WallKeeps
  <2>3. rewound \/ elapsed >= Spacing
    BY <1>2, ConstantTypes DEF IInv, ProcessKeeps
  <2> QED BY <2>2, <2>3
<1>5. before \in Nat /\ counts \in BOOLEAN /\ ends \in BOOLEAN /\ (ends => counts)
      /\ (before > 0 => found /\ before = count)
  BY <1>2 DEF Agrees
<1> HIDE DEF before, since, counts, ends
\* In the spell, the walks counted so far and this one fit into it.
<1>6. counts /\ ~doubted' /\ ~(AllHeld \subseteq vouched')
        => dark > 0 /\ spells = 0 /\ dark + before * Spacing <= Dark
  <2> SUFFICES ASSUME counts, ~doubted', ~(AllHeld \subseteq vouched')
               PROVE  dark > 0 /\ spells = 0 /\ dark + before * Spacing <= Dark
    OBVIOUS
  <2>1. dark > 0 /\ spells = 0
    BY <1>1, <1>3 DEF DInv, OneSpell
  <2>2. CASE before = 0
    <3>1. before * Spacing = 0
      BY <2>2, ConstantTypes
    <3> QED BY <1>2, <2>1, <3>1, SpellConstants
  <2>3. CASE before # 0
    <3>1. found /\ count > 0 /\ before = count
      BY <1>5, <2>3
    <3>2. ~doubted /\ ~(rewound /\ hastened)
      BY <1>1, <1>2, <3>1
    <3>3. ~(AllHeld \subseteq vouched)
      BY <1>1
    <3>4. dark + ((count - 1) * Spacing + elapsed) <= Dark
      BY <2>1, <3>1, <3>2, <3>3 DEF DInv, CountedInSpell, Window
    <3>5. elapsed >= Spacing
      BY <1>4, <3>1, <3>2
    <3>6. count * Spacing = (count - 1) * Spacing + Spacing
      BY <1>2, ConstantTypes
    <3>7. (count - 1) * Spacing \in Int
      BY <1>2, ConstantTypes
    <3> QED BY <1>2, <2>1, <3>1, <3>4, <3>5, <3>6, <3>7, SpellConstants
  <2> QED BY <2>2, <2>3
<1>7. OneSpell'
  BY <1>1, <1>2, <1>5 DEF DInv, OneSpell
<1>8. AskedIsFound'
  BY <1>1 DEF AskedIsFound
<1>9. CountedInSpell'
  <2> SUFFICES ASSUME count' > 0, ~doubted', ~(AllHeld \subseteq vouched')
               PROVE  spells = 0 /\ (dark > 0 => dark + ((count' - 1) * Spacing + elapsed') <= Dark)
    BY <1>1 DEF CountedInSpell, Window
  <2>1. ~doubted /\ ~(AllHeld \subseteq vouched)
    BY <1>1, <1>5
  <2>2. CASE counts /\ saved
    <3>1. count' = before + 1 /\ elapsed' = 0
      BY <1>1, <2>2
    <3>2. (count' - 1) * Spacing + elapsed' = before * Spacing
      <4>1. count' - 1 = before /\ before * Spacing \in Nat
        BY <1>5, <3>1, ConstantTypes
      <4> QED BY <3>1, <4>1
    <3> QED BY <1>6, <2>2, <3>2
  <2>3. CASE ~(counts /\ saved)
    BY <1>1, <1>5, <2>1, <2>3 DEF DInv, CountedInSpell, Window
  <2> QED BY <2>2, <2>3
<1>10. SealedIsVouched'
  <2> SUFFICES ASSUME ends, ~doubted', ~(AllHeld \subseteq vouched')
               PROVE  FALSE
    BY <1>1, <1>2, <1>5 DEF SealedIsVouched
  <2>1. dark > 0 /\ dark + before * Spacing <= Dark
    BY <1>5, <1>6
  <2>2. before >= SealAfter - 1 /\ SealAfter - 1 \in Nat
    BY <1>5, SpellConstants DEF ends
  <2>3. (SealAfter - 1) * Spacing <= before * Spacing
    BY <1>5, <2>2, Times
  <2>4. (SealAfter - 1) * Spacing \in Nat /\ before * Spacing \in Nat
    BY <1>5, <2>2, ConstantTypes
  <2> QED BY <1>2, <2>1, <2>3, <2>4, SpellConstants
<1> QED BY <1>7, <1>8, <1>9, <1>10 DEF DInv

\* Time passes for the spell as it does for the walks.
LEMMA TickFinds ==
  ASSUME IInv, DInv, Tick
  PROVE  DInv'
<1>1. /\ walk = NoWalk /\ walk' = walk
      /\ elapsed' = Lesser(elapsed + 1, Spacing)
      /\ dark' = CountDown(dark)
      /\ UNCHANGED <<spells, count, done, doubted, vouched>>
  BY DEF Tick, kept
<1>2. dark \in 0..Dark /\ dark \in Nat /\ elapsed \in Nat /\ count \in Nat
  BY SpellConstants DEF DInv, OneSpell, IInv, Clocks
<1>3. OneSpell'
  BY <1>1, <1>2, SpellConstants DEF DInv, OneSpell, CountDown
<1>4. AskedIsFound' /\ SealedIsVouched'
  BY <1>1 DEF DInv, AskedIsFound, SealedIsVouched
<1>5. elapsed' <= elapsed + 1 /\ elapsed' \in Nat
  BY <1>1, <1>2, ConstantTypes DEF Lesser
<1>6. dark' > 0 => dark > 0 /\ dark' = dark - 1
  BY <1>1, <1>2 DEF CountDown
<1>7. CountedInSpell'
  <2> SUFFICES ASSUME count > 0, ~doubted, ~(AllHeld \subseteq vouched)
               PROVE  spells = 0 /\ (dark' > 0 => dark' + ((count - 1) * Spacing + elapsed') <= Dark)
    BY <1>1 DEF CountedInSpell, Window
  <2>1. spells = 0 /\ (dark > 0 => dark + ((count - 1) * Spacing + elapsed) <= Dark)
    BY DEF DInv, CountedInSpell, Window
  <2>2. (count - 1) * Spacing \in Int
    BY <1>2, ConstantTypes
  <2> QED BY <1>2, <1>5, <1>6, <2>1, <2>2, SpellConstants
<1> QED BY <1>3, <1>4, <1>7 DEF DInv

LEMMA DarkenFinds ==
  ASSUME DInv, Darken
  PROVE  DInv'
<1>1. /\ spells > 0 /\ spells = 1 /\ dark = 0
      /\ spells' = spells - 1 /\ dark' = Dark
      /\ UNCHANGED <<walk, count, done, doubted, vouched, elapsed>>
  BY DEF Darken, DInv, OneSpell, kept, clockwork
<1>2. OneSpell'
  BY <1>1, SpellConstants DEF DInv, OneSpell
<1>3. AskedIsFound' /\ SealedIsVouched'
  <2>1. CASE Dark > 0
    BY <1>1, <2>1 DEF DInv, AskedIsFound, SealedIsVouched
  <2>2. CASE ~(Dark > 0)
    BY <1>1, <2>2, SpellConstants DEF DInv, AskedIsFound, SealedIsVouched, Found
  <2> QED BY <2>1, <2>2
<1>4. CountedInSpell'
  BY <1>1 DEF DInv, CountedInSpell
<1> QED BY <1>2, <1>3, <1>4 DEF DInv

LEMMA StartWalkFinds ==
  ASSUME DInv, StartWalk
  PROVE  DInv'
<1>1. /\ walk'.phase = "probe" /\ walk'.gen = 1
      /\ UNCHANGED <<dark, spells, count, done, doubted, vouched, elapsed>>
  BY DEF StartWalk, world, kept, clockwork
<1>2. \A g \in Generation : g >= 1
  BY SpellConstants DEF Generation
<1>3. AskedIsFound'
  BY <1>1, <1>2 DEF AskedIsFound, Found
<1> QED BY <1>1, <1>3 DEF DInv, OneSpell, CountedInSpell, SealedIsVouched, Window

LEMMA OthersFind ==
  ASSUME DInv,
         \/ Redial \/ Restart \/ UNCHANGED vars
         \/ \E by \in -MaxSkew..MaxSkew : SetClock(by)
         \/ \E reply \in Unsought : Unasked(reply)
  PROVE  DInv'
<1>1. /\ walk' = walk \/ walk' = NoWalk
      /\ UNCHANGED <<dark, spells, count, done, doubted, vouched, elapsed>>
  BY DEF Redial, Restart, SetClock, Unasked, vars, world, kept, clockwork
<1> QED BY <1>1 DEF DInv, OneSpell, AskedIsFound, Found, CountedInSpell, SealedIsVouched, Window

LEMMA InitFinds == Init => DInv
<1> SUFFICES ASSUME Init PROVE DInv
  OBVIOUS
<1>1. OneSpell
  <2>1. dark = 0 /\ spells = 1 /\ doubted = FALSE
    BY DEF Init
  <2>2. 0 \in 0..Dark
    BY MigrationAssumption
  <2>3. dark \in 0..Dark /\ spells \in {0, 1} /\ doubted \in BOOLEAN
    BY <2>1, <2>2
  <2>4. ~(dark > 0)
    BY <2>1
  <2> QED BY <2>3, <2>4 DEF OneSpell
<1>2. walk = NoWalk /\ count = 0 /\ done = FALSE
  BY DEF Init
<1>3. AskedIsFound /\ CountedInSpell
  BY <1>2 DEF AskedIsFound, CountedInSpell
<1>4. SealedIsVouched
  BY <1>2 DEF SealedIsVouched
<1> QED BY <1>1, <1>2, <1>3, <1>4 DEF DInv

LEMMA NextFinds == IInv /\ SInv /\ DInv /\ [Next]_vars => DInv'
<1> SUFFICES ASSUME IInv, SInv, DInv, [Next]_vars PROVE DInv'
  OBVIOUS
<1>1. ASSUME NEW answer \in Answer, Probe(answer) PROVE DInv'
  BY <1>1, ProbeFinds
<1>2. ASSUME NEW answer \in Answer, NEW arrives \in BOOLEAN,
             Update(answer, arrives) \/ Put(answer, arrives)
      PROVE  DInv'
  BY <1>2, PublishFinds
<1>3. ASSUME NEW reads \in BOOLEAN, NEW found \in BOOLEAN,
             NEW saved \in BOOLEAN, NEW sealed \in BOOLEAN,
             Count(reads, found, saved, sealed)
      PROVE  DInv'
  BY <1>3, CountFinds
<1>4. CASE StartWalk \/ Tick \/ Darken
  BY <1>4, StartWalkFinds, TickFinds, DarkenFinds
<1>5. CASE \/ Redial \/ Restart \/ UNCHANGED vars
           \/ \E by \in -MaxSkew..MaxSkew : SetClock(by)
           \/ \E reply \in Unsought : Unasked(reply)
  BY <1>5, OthersFind
<1> QED BY <1>1, <1>2, <1>3, <1>4, <1>5 DEF Next, WalkStep

\* A migration recorded as finished (set_migration_done) has carried all its
\* predecessors held, however long one is silent, whatever fails, and though the
\* node finds none for a spell shorter than the window of agreement, unless a
\* restart and a clock set forward both came between two walks counted, or an
\* older node's miss that nobody asked about was taken for an answer.
THEOREM SealedIsCarried == Spec => []SealedOverNothing
<1>1. Spec => []IInv
  BY InitInv, NextInv, PTL DEF Spec
<1>2. Spec => []SInv
  BY InitStored, NextStores, PTL DEF Spec
<1>3. Spec => []DInv
  BY InitFinds, NextFinds, <1>1, <1>2, PTL DEF Spec
<1>4. SInv /\ DInv => SealedOverNothing
  BY DEF SInv, DInv, CountedIsStored, SealedIsVouched, SealedOverNothing
<1> QED BY <1>2, <1>3, <1>4, PTL
=============================================================================
