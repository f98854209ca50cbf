---------------------------- MODULE InboxSession ----------------------------
(***************************************************************************)
(* The worker that serves the inbox: InboxWorker, Driver, FloorHold and    *)
(* QuietCache of bridge/src/inbox.rs.  It connects to its node again and   *)
(* again, reads the inbox when a timer fires or a change is announced,     *)
(* opens an inbox its node has lost, holds the floor and the end of        *)
(* watches until the node has caught up, and leaves unread a copy that     *)
(* holds nothing new.  Answers come late, in any order, or not at all; the *)
(* node may lose its copy, the connection may drop, the process restart.   *)
(*                                                                         *)
(* Abstracted: a pass is one step here (InboxBridge takes it apart), over  *)
(* one watch and the requests of which one renews it (Interests has what   *)
(* requests do); subscribing, which only brings some changes sooner; tips  *)
(* that cannot be read; the other peers are one copy.                      *)
(***************************************************************************)
EXTENDS Integers, FiniteSets, Sequences

CONSTANTS
  Request,
  Renewal,      \* the request that renews the watch
  Lag,          \* FLOOR_LAG_BLOCKS
  Window,       \* WINDOW_BLOCKS
  Slack,        \* SENDER_SLACK_BLOCKS
  Budget,       \* REMOVAL_BUDGET
  Life,         \* WATCH_LIFETIME_MS, in blocks
  Hold,         \* FLOOR_HOLD_MS, in ticks of the clock
  Rearm,        \* FLOOR_HOLD_REARM_MS
  ReadTimeout,  \* READ_TIMEOUT
  Reopen,       \* REOPEN_INTERVAL
  NotSent, Absent, NoRead, Noisy,
  MaxTip,       \* bound: the chain
  Crowded,      \* bound: the tips at which others' requests have spent the budget
  MaxReads,     \* bound: reads the node has not answered, and what is on its way back
  MaxLosses,    \* bound: how often the node loses its copy
  MaxRestarts   \* bound: how often the bridge restarts

\* A copy of the inbox has a floor, the entries waiting and those removed.
Inbox == [floor : Nat, entries : SUBSET Request, removed : SUBSET Request]

ASSUME SessionAssumption ==
  /\ Renewal \in Request
  /\ {Lag, Window, Slack, Budget, Life, Hold, Rearm, ReadTimeout, Reopen,
      MaxTip, MaxReads, MaxLosses, MaxRestarts} \subseteq Nat
  /\ Slack <= Window /\ 0 < Hold /\ Hold <= Rearm
  /\ NotSent \notin Nat /\ Absent \notin Inbox

VARIABLES
  tip,         \* the mainnet tip, which the observer has scanned
  dated,       \* the height each request is dated with, once sent
  unreadable,  \* requests this build refuses though the contract admits them
  net,         \* the inbox as the other peers hold it
  copy,        \* the inbox as the bridge's node holds it, or Absent
  following,   \* the node has caught up with the other peers
  up,          \* there is a connection
  reads,       \* how many reads the node has not answered
  replies,     \* what is on its way from the node, in order
  driver,      \* Driver: the outstanding read's age, reread, time to the next open
  rearm,       \* armed_at: time until the floor's half may be armed again
  expiry,      \* expiry_until: time left of the other half
  quiet,       \* QuietCache
  signed,      \* store: the highest floor signed
  handled,     \* store: requests read, until the floor passes them
  watch,       \* store: whether the watch runs, and when it runs out
  lost,        \* how often the node has lost its copy, and the bridge restarted
  answered,    \* history: the requests ever read
  served,      \* history: an answer has come in this connection and tick
  awaited      \* history: requests other peers held, not yet come before the bridge,
               \* when the floor was last held for them

nodeVars == <<net, copy, following>>
linkVars == <<up, reads, replies>>
workVars == <<driver, rearm, expiry, quiet>>
storeVars == <<signed, handled, watch>>
history == <<answered, served, awaited>>
vars == <<tip, dated, unreadable, nodeVars, linkVars, workVars, storeVars, lost, history>>

\* The driver keeps how old the read under way is, whether to read again once it is
\* answered, and how long until the inbox may be opened again.
Fresh == [age |-> NoRead, reread |-> FALSE, reopen |-> 0]

Empty(floor) == [floor |-> floor, entries |-> {}, removed |-> {}]

Init ==
  /\ tip = Lag
  /\ dated = [r \in Request |-> NotSent]
  /\ unreadable \in SUBSET Request
  /\ net = Empty(0)
  /\ copy = Empty(0)
  /\ following = FALSE
  /\ up = FALSE /\ reads = 0 /\ replies = <<>>
  /\ driver = Fresh
  /\ rearm = 0 /\ expiry = 0
  /\ quiet = Noisy
  /\ signed = 0 /\ handled = {}
  /\ watch = [on |-> TRUE, due |-> Lag + Life]
  /\ lost = [copies |-> 0, process |-> 0]
  /\ answered = {} /\ served = FALSE /\ awaited = {}

-----------------------------------------------------------------------------
(* The inbox, and what a pass makes of a copy *)

Larger(a, b) == IF a < b THEN b ELSE a

\* Time left, counting down.
CountDown(t) == IF t = 0 THEN 0 ELSE t - 1

PassedBy(floor, r) == dated[r] # NotSent /\ dated[r] < floor
Standing(floor, E) == {r \in E : ~PassedBy(floor, r)}

\* InboxStateV1::merge, of what matters here.
Merge(a, b) ==
  LET floor == Larger(a.floor, b.floor)
      gone  == Standing(floor, a.removed \cup b.removed)
  IN  [floor |-> floor, entries |-> Standing(floor, (a.entries \cup b.entries) \ gone),
       removed |-> gone]

FloorHeld == rearm > Rearm - Hold
ExpiryHeld == expiry > 0

Readable(s, known) ==
  {r \in s.entries \ unreadable : dated[r] \in known..known + Window}

\* Requests of one height are come to in the order of their keys.
Before(order, r, q) ==
  dated[r] < dated[q] \/ (dated[r] = dated[q] /\ order[r] < order[q])

Order == CHOOSE f \in [Request -> 1..Cardinality(Request)] :
           \A r, q \in Request : f[r] = f[q] => r = q

\* Those read for the first time: as many as the budget has room for.
NewlyRead(unread, room) ==
  {r \in unread : Cardinality({q \in unread : Before(Order, q, r)}) < room}

\* A copy not to end a watch against: it holds what the signed floor has passed,
\* or what this build refuses, or its floor is far behind.
StaleView(s, known) ==
  \/ \E r \in s.entries \ unreadable : PassedBy(known, r)
  \/ s.entries \cap unreadable # {}
  \/ known - s.floor > Window

Bug_Target(known) == Larger(known, tip - Lag)

Target(known) == IF FloorHeld THEN known ELSE Larger(known, tip - Lag)

\* Processor::pass over one copy.
Pass(s) ==
  LET known    == Larger(signed, s.floor)
      kept     == Standing(known, handled)
      readable == Readable(s, known)
      room     == IF tip \in Crowded THEN 0 ELSE Budget - Cardinality(kept)
      new      == NewlyRead(readable \ kept, room)
      done     == kept \cup new
      floor    == Target(known)
  IN  [signed   |-> floor,
       handled  |-> done,
       new      |-> new,
       deferred |-> readable \ done,
       delta    |-> [floor |-> floor, entries |-> {},
                     removed |-> {r \in done : \E q \in readable \cap done : dated[q] = dated[r]}],
       tells    |-> floor > s.floor \/ readable \cap done # {},
       ends     |-> ~ExpiryHeld /\ ~StaleView(s, known),
       gated    |-> FloorHeld \/ ExpiryHeld \/ StaleView(s, known)]

Bug_WatchAfter(p) ==
  IF Renewal \in p.new THEN [on |-> TRUE, due |-> tip + Life]
  ELSE IF p.ends /\ tip >= watch.due THEN [watch EXCEPT !.on = FALSE]
  ELSE watch

\* set_interest, then expire_watches, which leaves alone the watches of a Ghost
\* Key with a request waiting on the budget.
WatchAfter(p) ==
  IF Renewal \in p.new THEN [on |-> TRUE, due |-> tip + Life]
  ELSE IF p.ends /\ tip >= watch.due /\ Renewal \notin p.deferred
       THEN [watch EXCEPT !.on = FALSE]
  ELSE watch

Fingerprint(s) == <<s, tip, FloorHeld>>

QuietAfter(s, p) == IF p.tells \/ p.gated THEN Noisy ELSE Fingerprint(s)

-----------------------------------------------------------------------------
(* The driver: what it does next, and the requests it makes *)

\* Driver::read with no read outstanding, or one outstanding too long.
MayRead(d) == d.age = NoRead \/ d.age = ReadTimeout

Bug_AfterRead(d) == IF d.age = NoRead THEN [d EXCEPT !.age = 0, !.reread = FALSE]
                                      ELSE [d EXCEPT !.reread = TRUE]

AfterRead(d) ==
  IF MayRead(d) THEN [d EXCEPT !.age = 0, !.reread = FALSE] ELSE [d EXCEPT !.reread = TRUE]

\* The node is asked only when AfterRead says so.
AsksRead(d) == ~AfterRead(d).reread

\* Reads the node has not answered are bounded: past the bound one was lost.
Asked(d) == IF AsksRead(d) /\ reads < MaxReads THEN reads + 1 ELSE reads

\* arm_floor_hold
Bug_ArmFloor == Rearm

ArmFloor == IF rearm = 0 THEN Rearm ELSE rearm

\* Requests the hold is for; none when the floor's half is not armed again.
Awaiting ==
  IF rearm = 0 THEN Standing(signed, net.entries) \ (answered \cup unreadable) ELSE {}

Arm ==
  /\ rearm' = ArmFloor
  /\ expiry' = Hold
  /\ awaited' = Awaiting

\* run: a session starts, with a hold and nothing remembered of the last one.
Connect ==
  /\ ~up
  /\ up' = TRUE /\ reads' = 0 /\ replies' = <<>>
  /\ driver' = Fresh /\ quiet' = Noisy
  /\ Arm /\ served' = FALSE
  /\ UNCHANGED <<tip, dated, unreadable, nodeVars, storeVars, lost, answered>>

\* The connection ends, or the process does, which forgets when the hold was armed.
Drop(restart) ==
  /\ up
  /\ restart => lost.process < MaxRestarts
  /\ up' = FALSE /\ reads' = 0 /\ replies' = <<>>
  /\ rearm' = IF restart THEN 0 ELSE rearm
  /\ lost' = IF restart THEN [lost EXCEPT !.process = @ + 1] ELSE lost
  /\ driver' = Fresh /\ quiet' = Noisy /\ expiry' = 0
  /\ following' = FALSE
  /\ UNCHANGED <<tip, dated, unreadable, net, copy, storeVars, history>>

\* What the node says: that it holds a copy, fresh from since it caught up or not, or
\* "absent", "changed" or "failed".
Shown(s, fresh) == [kind |-> "state", inbox |-> s, fresh |-> fresh]
Said(kind) == [kind |-> kind, inbox |-> Empty(0), fresh |-> FALSE]

\* A node that is to catch up again said this before it had.
Outdated(said) == [i \in DOMAIN said |-> [said[i] EXCEPT !.fresh = FALSE]]

\* The poll timer fires.
OnTick ==
  /\ up
  /\ driver' = AfterRead(driver)
  /\ reads' = Asked(driver)
  /\ UNCHANGED <<tip, dated, unreadable, nodeVars, up, replies, rearm, expiry, quiet, storeVars,
                 lost, history>>

Heard(kind) ==
  /\ up /\ replies # <<>>
  /\ Head(replies).kind = kind
  /\ UNCHANGED <<tip, dated, unreadable, net, up, lost>>

\* on_state: a copy passed over, or a pass, whose delta lands or is lost.
Process(lands) ==
  LET s == Head(replies).inbox
      p == Pass(s)
      d == [driver EXCEPT !.age = NoRead]
  IN  /\ Heard("state")
      /\ replies' = Tail(replies)
      /\ driver' = IF d.reread THEN AfterRead(d) ELSE d
      /\ reads' = IF d.reread THEN Asked(d) ELSE reads
      /\ served' = TRUE
      /\ IF quiet = Fingerprint(s)
         THEN UNCHANGED <<copy, storeVars, quiet, answered, awaited>>
         ELSE /\ signed' = p.signed /\ handled' = p.handled
              /\ watch' = WatchAfter(p)
              /\ quiet' = QuietAfter(s, p)
              /\ copy' = IF lands /\ p.tells /\ copy # Absent THEN Merge(copy, p.delta) ELSE copy
              /\ answered' = answered \cup p.new
              /\ awaited' = awaited \ (p.new \cup p.deferred)
      /\ UNCHANGED <<following, rearm, expiry>>

\* A change is announced, or the inbox has been put.
OnChanged ==
  /\ Heard("changed")
  /\ replies' = Tail(replies)
  /\ driver' = AfterRead(driver)
  /\ reads' = Asked(driver)
  /\ UNCHANGED <<copy, following, rearm, expiry, quiet, storeVars, history>>

\* A failure that is not the connection's is taken for the read's.
OnFailed ==
  /\ Heard("failed")
  /\ replies' = Tail(replies)
  /\ driver' = [driver EXCEPT !.age = NoRead]
  /\ UNCHANGED <<copy, following, reads, rearm, expiry, quiet, storeVars, history>>

\* The node has no such contract: it is put with the floor signed last, and the
\* holds are armed, unless it was put a moment ago.
OnAbsent ==
  /\ Heard("absent")
  /\ UNCHANGED <<reads, quiet, storeVars, answered, served>>
  /\ IF driver.reopen = 0
     THEN /\ driver' = [driver EXCEPT !.age = NoRead, !.reopen = Reopen]
          /\ Arm
          /\ copy' = IF copy = Absent THEN Empty(signed) ELSE Merge(copy, Empty(signed))
          /\ following' = FALSE
          /\ replies' = Append(Outdated(Tail(replies)), Said("changed"))
     ELSE /\ driver' = [driver EXCEPT !.age = NoRead]
          /\ replies' = Tail(replies)
          /\ UNCHANGED <<copy, following, rearm, expiry, awaited>>

-----------------------------------------------------------------------------
(* The node, the other peers and the chain *)

Room == Len(replies) < MaxReads

\* A read is answered with the copy held now, or fails, or is never answered.
Answer ==
  /\ up /\ reads > 0 /\ Room
  /\ reads' = reads - 1
  /\ replies' = Append(replies,
       IF copy = Absent THEN Said("absent") ELSE Shown(copy, following))
  /\ UNCHANGED <<tip, dated, unreadable, nodeVars, up, workVars, storeVars, lost, history>>

FailRead ==
  /\ up /\ reads > 0
  /\ reads' = reads - 1
  /\ \/ Room /\ replies' = Append(replies, Said("failed"))
     \/ UNCHANGED replies
  /\ UNCHANGED <<tip, dated, unreadable, nodeVars, up, workVars, storeVars, lost, history>>

\* The node and the other peers exchange what they hold; a subscriber is told.
Follow ==
  /\ up /\ copy # Absent
  /\ ~following \/ copy # net
  /\ copy' = Merge(copy, net) /\ net' = copy'
  /\ following' = TRUE
  /\ \/ Room /\ replies' = Append(replies, Said("changed"))
     \/ UNCHANGED replies
  /\ UNCHANGED <<tip, dated, unreadable, up, reads, workVars, storeVars, lost, history>>

LoseCopy ==
  /\ copy # Absent
  /\ lost.copies < MaxLosses
  /\ lost' = [lost EXCEPT !.copies = @ + 1]
  /\ copy' = Absent /\ following' = FALSE
  /\ UNCHANGED <<tip, dated, unreadable, net, linkVars, workVars, storeVars, history>>

\* sender_height: a sender dates its request by the floor it reads; the renewal
\* is sent while the watch runs.
Send(r) ==
  /\ dated[r] = NotSent
  /\ r = Renewal => watch.on /\ tip < watch.due
  /\ dated' = [dated EXCEPT ![r] = net.floor + Window - Slack]
  /\ net' = [net EXCEPT !.entries = @ \cup {r}]
  /\ UNCHANGED <<tip, unreadable, copy, following, linkVars, workVars, storeVars, lost, history>>

Prompt(s) == net.entries \subseteq s.entries \cup s.removed

\* A block takes longer than a request takes to reach the bridge, once its node
\* has caught up.
Mine ==
  /\ tip < MaxTip
  /\ following => Prompt(copy)
  /\ \A i \in DOMAIN replies :
       replies[i].kind = "state" /\ replies[i].fresh => Prompt(replies[i].inbox)
  /\ tip' = tip + 1
  /\ UNCHANGED <<dated, unreadable, nodeVars, linkVars, workVars, storeVars, lost, history>>

\* The node catches up with one small contract before the hold ends, and no copy
\* it answered with before it had is still on its way then.
CaughtUp ==
  /\ up /\ copy # Absent => following
  /\ \A i \in DOMAIN replies : replies[i].kind = "state" => replies[i].fresh

\* Time until the floor may be held again passes without a connection too.
Tick ==
  /\ rearm > 0 \/ expiry > 0 \/ driver.reopen > 0 \/ driver.age \notin {NoRead, ReadTimeout}
  /\ expiry = 1 => CaughtUp
  /\ rearm' = CountDown(rearm)
  /\ expiry' = CountDown(expiry)
  /\ driver' = [driver EXCEPT !.reopen = CountDown(@),
                              !.age = IF @ \in {NoRead, ReadTimeout} THEN @ ELSE @ + 1]
  /\ served' = FALSE
  /\ UNCHANGED <<tip, dated, unreadable, nodeVars, linkVars, quiet, storeVars, lost,
                 answered, awaited>>

-----------------------------------------------------------------------------

OnReply == (\E lands \in BOOLEAN : Process(lands)) \/ OnChanged \/ OnFailed \/ OnAbsent

Next ==
  \/ Connect \/ \E restart \in BOOLEAN : Drop(restart)
  \/ OnTick \/ OnReply
  \/ Answer \/ FailRead \/ Follow \/ LoseCopy
  \/ \E r \in Request : Send(r)
  \/ Mine \/ Tick

Spec == Init /\ [][Next]_vars

Cut == \E restart \in BOOLEAN : Drop(restart)

\* The worker polls and reconnects, and the node goes on answering and following.
\* Connections may drop for ever, but from some time on none does before an answer
\* has come in its last tick of the clock, and none is away for more than a tick:
\* the worker waits at most half the hold before it connects again (MAX_BACKOFF).
Fairness ==
  /\ WF_vars(Connect) /\ WF_vars(OnTick) /\ WF_vars(OnReply)
  /\ SF_vars(Answer) /\ SF_vars(Follow) /\ SF_vars(Tick)
  /\ <>[][(Cut => served) /\ (Tick => up \/ served)]_vars

FairSpec == Spec /\ Fairness

-----------------------------------------------------------------------------
(* Properties *)

\* A request other peers held when the bridge connected to its node, or opened an
\* inbox the node had lost, is not passed by the floor before the bridge has come
\* to it, though its node did not hold it at first and the chain has moved on
\* (bridge/src/inbox.rs:139-154, 1220-1226).
NothingAwaitedIsDropped == \A r \in awaited : ~PassedBy(signed, r)

\* A watch never ends while a request that renews it waits in the inbox to be
\* read, whichever copy the bridge happens to read: one its node has just been
\* given empty, one older than the floor, one with a request it cannot open, or
\* with no budget left to read (bridge/src/inbox.rs:480-497, 672-704).
RenewalsAreHeeded ==
  [][watch.on /\ ~watch'.on =>
       Renewal \in answered' \/ Renewal \notin net.entries \/ PassedBy(signed', Renewal)]_vars

\* Every request is read at last, or passed by the floor, though reads are lost,
\* time out, fail or answer late and connections drop, while the budget has room
\* (bridge/src/inbox.rs:1189-1256).
RequestsRead ==
  \A r \in Request :
    r \in net.entries \ unreadable
      ~> r \in answered \/ PassedBy(signed, r) \/ tip \in Crowded \/ Cardinality(handled) >= Budget

\* The floor follows the chain even when the node drops its connection again and
\* again: holding it back is rationed (bridge/src/inbox.rs:156-165).
FloorFollows == tip = MaxTip ~> signed = MaxTip - Lag
=============================================================================
