------------------------- MODULE InboxSessionProofs -------------------------
(***************************************************************************)
(* What the worker's holds promise: no request the other peers held is     *)
(* dropped for the node's sake, and no watch ends over one that renews it, *)
(* for any requests, lags, holds and timers, however many reads are under  *)
(* way and however often the connection, the copy or the process is lost.  *)
(*                                                                         *)
(* Both are one argument.  When the watches' half of the hold is over the  *)
(* node has caught up (Caught), and until then, if requests are awaited,   *)
(* the floor's half is on as well (Timed).  So the copies the worker acts  *)
(* on hold what was awaited when it armed the hold, and what was sent      *)
(* before the last block (Seen); a pass over one comes to the request      *)
(* before it moves the floor or ends a watch.                              *)
(***************************************************************************)
EXTENDS InboxSession, SequenceTheorems, TLAPS

(* What is on its way *)

\* A reply of the node's.
Reply == [kind : {"state", "absent", "changed", "failed"}, inbox : Inbox, fresh : BOOLEAN]

\* What is on its way to the bridge.
OnWay == {replies[i] : i \in DOMAIN replies}

\* What is assumed of the constants.
LEMMA ConstantTypes ==
  /\ Lag \in Nat /\ Window \in Nat /\ Slack \in Nat /\ Life \in Nat
  /\ Hold \in Nat /\ Rearm \in Nat /\ Reopen \in Nat /\ Budget \in Nat
  /\ Slack <= Window /\ 0 < Hold /\ Hold <= Rearm /\ Renewal \in Request
  /\ NotSent \notin Nat /\ Absent \notin Inbox
  BY SessionAssumption

\* What the node says is a reply.
LEMMA SaidTypes ==
  /\ \A floor \in Nat : Empty(floor) \in Inbox
  /\ \A kind \in {"absent", "changed", "failed"} : Said(kind) \in Reply
  /\ \A s \in Inbox, fresh \in BOOLEAN : Shown(s, fresh) \in Reply
  BY DEF Empty, Inbox, Said, Shown, Reply

\* The first of several replies, and the others.
LEMMA FirstOfSeq ==
  ASSUME NEW q \in Seq(Reply), q # <<>>
  PROVE  /\ Head(q) \in Reply /\ \E i \in DOMAIN q : Head(q) = q[i]
         /\ Tail(q) \in Seq(Reply)
         /\ \A i \in DOMAIN Tail(q) : \E j \in DOMAIN q : Tail(q)[i] = q[j]
<1>1. Len(q) \in Nat \ {0} /\ DOMAIN q = 1..Len(q)
  BY EmptySeq, LenProperties
<1>0. Head(q) = q[1]
  BY DEF Head
<1>2. Head(q) = q[1] /\ 1 \in DOMAIN q /\ q[1] \in Reply
  BY <1>0, <1>1, ElementOfSeq
<1>3. Tail(q) \in Seq(Reply) /\ Len(Tail(q)) = Len(q) - 1
      /\ \A i \in 1..Len(Tail(q)) : Tail(q)[i] = q[i + 1]
  BY HeadTailProperties
<1>4. DOMAIN Tail(q) = 1..(Len(q) - 1)
  BY <1>3, LenProperties
<1>5. ASSUME NEW i \in DOMAIN Tail(q)
      PROVE  i + 1 \in DOMAIN q /\ Tail(q)[i] = q[i + 1]
  BY <1>1, <1>3, <1>4
<1>. QED
  BY <1>2, <1>3, <1>5

\* A reply after others.
LEMMA LastOfSeq ==
  ASSUME NEW q \in Seq(Reply), NEW m \in Reply
  PROVE  /\ Append(q, m) \in Seq(Reply)
         /\ \A i \in DOMAIN Append(q, m) :
              Append(q, m)[i] = m \/ \E j \in DOMAIN q : Append(q, m)[i] = q[j]
<1>1. /\ Append(q, m) \in Seq(Reply) /\ Len(Append(q, m)) = Len(q) + 1
      /\ \A i \in 1..Len(q) : Append(q, m)[i] = q[i]
      /\ Append(q, m)[Len(q) + 1] = m
  BY AppendProperties
<1>2. Len(q) \in Nat /\ DOMAIN q = 1..Len(q) /\ DOMAIN Append(q, m) = 1..(Len(q) + 1)
  BY <1>1, LenProperties
<1>3. ASSUME NEW i \in 1..(Len(q) + 1)
      PROVE  i = Len(q) + 1 \/ i \in 1..Len(q)
  BY <1>2
<1>. QED
  BY <1>1, <1>2, <1>3

\* Replies no longer fresh hold the copies they held.
LEMMA OutdatedSeq ==
  ASSUME NEW q \in Seq(Reply)
  PROVE  /\ Outdated(q) \in Seq(Reply)
         /\ \A i \in DOMAIN Outdated(q) :
              Outdated(q)[i].fresh = FALSE /\ \E j \in DOMAIN q : Outdated(q)[i].inbox = q[j].inbox
<1>1. Len(q) \in Nat /\ DOMAIN q = 1..Len(q) /\ \A i \in DOMAIN q : q[i] \in Reply
  BY LenProperties, ElementOfSeq
<1>2. \A m \in Reply : [m EXCEPT !.fresh = FALSE] \in Reply
                       /\ [m EXCEPT !.fresh = FALSE].fresh = FALSE
                       /\ [m EXCEPT !.fresh = FALSE].inbox = m.inbox
  BY DEF Reply
<1>3. Outdated(q) \in [1..Len(q) -> Reply]
  BY <1>1, <1>2 DEF Outdated
<1>4. Outdated(q) \in Seq(Reply)
  BY <1>1, <1>3, SeqDef
<1>. QED
  BY <1>1, <1>2, <1>4 DEF Outdated

-----------------------------------------------------------------------------
(* The invariant *)

TypeOK ==
  /\ tip \in Nat /\ dated \in [Request -> Nat \cup {NotSent}] /\ unreadable \subseteq Request
  /\ net \in Inbox /\ (copy # Absent => copy \in Inbox) /\ following \in BOOLEAN
  /\ up \in BOOLEAN /\ replies \in Seq(Reply)
  /\ rearm \in Nat /\ expiry \in Nat
  /\ signed \in Nat /\ handled \subseteq Request /\ watch \in [on : BOOLEAN, due : Nat]
  /\ answered \subseteq Request /\ awaited \subseteq Request

\* A copy has no floor the bridge did not sign, and removes nothing it did not read.
From(s, floor, read) == s.floor <= floor /\ s.removed \subseteq read

Copies ==
  /\ From(net, signed, answered)
  /\ copy # Absent => From(copy, signed, answered) /\ copy.entries \subseteq net.entries
  /\ \A m \in OnWay : From(m.inbox, signed, answered)
  /\ \A r \in net.entries : dated[r] \in Nat /\ dated[r] <= signed + Window
  /\ handled \subseteq answered

\* The node has told the bridge of r, if it says that it has caught up.
Seen(r) ==
  /\ following => r \in copy.entries
  /\ \A m \in OnWay : m.kind = "state" /\ m.fresh => r \in m.inbox.entries

\* Once the watches' half of the hold is over the node has caught up.
Caught ==
  /\ following => up /\ copy # Absent
  /\ up /\ expiry = 0 =>
       /\ copy # Absent => following
       /\ \A m \in OnWay : m.kind = "state" => m.fresh

\* Until it is over, so is the floor's not, if the two were armed together.
Timed == up /\ awaited # {} /\ expiry > 0 => rearm + Hold >= Rearm + expiry

\* What is awaited waits, and the node has told of it.
Waits ==
  \A r \in awaited :
    /\ ~PassedBy(signed, r) /\ r \in net.entries /\ r \notin answered \cup unreadable
    /\ Seen(r)

\* A request that renews the watch was sent before it was due to end.
Renews ==
  /\ Renewal \in net.entries \ answered /\ ~PassedBy(signed, Renewal)
  /\ watch.on /\ tip >= watch.due
  => Seen(Renewal)

SInv == TypeOK /\ Copies /\ Caught /\ Timed /\ Waits /\ Renews

-----------------------------------------------------------------------------
(* What steps do *)

\* The node says something, or something it said is heard and nothing comes of it.
Hears ==
  /\ \A m \in OnWay' : \/ m \in OnWay
                       \/ \E kind \in {"absent", "changed", "failed"} : m = Said(kind)
                       \/ copy # Absent /\ m = Shown(copy, following)
  /\ UNCHANGED <<tip, dated, unreadable, nodeVars, up, rearm, expiry, storeVars, answered, awaited>>

\* A connection is made.
Joins ==
  /\ ~up /\ up' = TRUE /\ OnWay' = {} /\ Arm
  /\ UNCHANGED <<tip, dated, unreadable, nodeVars, storeVars, answered>>

\* A connection ends, or the process.
Leaves ==
  /\ up' = FALSE /\ OnWay' = {} /\ following' = FALSE
  /\ UNCHANGED <<tip, dated, unreadable, net, copy, storeVars, answered, awaited>>

\* A pass over copy s.
Passes(s) ==
  LET p == Pass(s)
  IN  /\ up /\ \E m \in OnWay : m.kind = "state" /\ m.inbox = s
      /\ OnWay' \subseteq OnWay
      /\ signed' = p.signed /\ handled' = p.handled /\ watch' = WatchAfter(p)
      /\ copy' = copy \/ (copy # Absent /\ copy' = Merge(copy, p.delta))
      /\ answered' = answered \cup p.new
      /\ awaited' = awaited \ (p.new \cup p.deferred)
      /\ UNCHANGED <<tip, dated, unreadable, net, following, up, rearm, expiry>>

\* The inbox is put, the node having lost it.
Opens ==
  /\ up /\ Arm
  /\ \A m \in OnWay' : m = Said("changed") \/ (m.fresh = FALSE /\ \E n \in OnWay : m.inbox = n.inbox)
  /\ following' = FALSE
  /\ copy' = Empty(signed) \/ (copy # Absent /\ copy' = Merge(copy, Empty(signed)))
  /\ UNCHANGED <<tip, dated, unreadable, net, up, storeVars, answered>>

\* The node catches up.
Follows ==
  /\ up /\ copy # Absent
  /\ copy' = Merge(copy, net) /\ net' = copy' /\ following' = TRUE
  /\ \A m \in OnWay' : m \in OnWay \/ m = Said("changed")
  /\ UNCHANGED <<tip, dated, unreadable, up, rearm, expiry, storeVars, answered, awaited>>

\* The node loses its copy.
Loses ==
  /\ copy' = Absent /\ following' = FALSE /\ OnWay' = OnWay
  /\ UNCHANGED <<tip, dated, unreadable, net, up, rearm, expiry, storeVars, answered, awaited>>

\* The reply that is heard was on its way.
LEMMA Heads ==
  ASSUME TypeOK, NEW kind, Heard(kind)
  PROVE  /\ up /\ Head(replies) \in OnWay /\ Head(replies).kind = kind
         /\ Head(replies) \in Reply /\ Tail(replies) \in Seq(Reply)
         /\ \A i \in DOMAIN Tail(replies) : Tail(replies)[i] \in OnWay
<1>1. replies \in Seq(Reply) /\ replies # <<>> /\ up /\ Head(replies).kind = kind
  BY DEF TypeOK, Heard
<1>. QED
  BY <1>1, FirstOfSeq DEF OnWay

\* One reply less is on its way.
LEMMA WayAfterTail ==
  ASSUME TypeOK, NEW kind, Heard(kind), replies' = Tail(replies)
  PROVE  OnWay' \subseteq OnWay
<1>1. \A i \in DOMAIN Tail(replies) : Tail(replies)[i] \in OnWay
  BY Heads
<1>. QED
  BY <1>1 DEF OnWay

\* One reply more is on its way.
LEMMA WayAfterAppend ==
  ASSUME TypeOK, NEW m \in Reply, replies' = Append(replies, m)
  PROVE  \A n \in OnWay' : n \in OnWay \/ n = m
<1>1. \A i \in DOMAIN Append(replies, m) :
        Append(replies, m)[i] = m \/ \E j \in DOMAIN replies : Append(replies, m)[i] = replies[j]
  BY LastOfSeq DEF TypeOK
<1>. QED
  BY <1>1 DEF OnWay

\* A connection that ends takes its replies with it.
LEMMA EmptyWay == replies' = <<>> => OnWay' = {}
  BY DEF OnWay

\* A reply heard of which nothing comes.
LEMMA NothingComes ==
  ASSUME OnWay' \subseteq OnWay,
         UNCHANGED <<tip, dated, unreadable, nodeVars, up, rearm, expiry, storeVars,
                     answered, awaited>>
  PROVE  Hears
  BY DEF Hears

\* What comes of a reply.
LEMMA RepliesHeard ==
  ASSUME TypeOK, OnReply
  PROVE  Hears \/ Opens \/ \E s \in Inbox : Passes(s)
<1>1. ASSUME NEW lands \in BOOLEAN, Process(lands)
      PROVE  Hears \/ \E s \in Inbox : Passes(s)
  <2>. DEFINE s == Head(replies).inbox
  <2>1. Heard("state") /\ replies' = Tail(replies)
    BY <1>1 DEF Process
  <2>2. /\ up /\ Head(replies) \in OnWay /\ Head(replies).kind = "state"
        /\ s \in Inbox /\ OnWay' \subseteq OnWay
    BY <2>1, Heads, WayAfterTail DEF Reply
  <2>3. UNCHANGED <<tip, dated, unreadable, net, up, following, rearm, expiry>>
    BY <1>1 DEF Process, Heard
  <2>4. CASE quiet = Fingerprint(s)
    <3>1. UNCHANGED <<copy, storeVars, answered, awaited>>
      BY <1>1, <2>4 DEF Process
    <3>. QED
      BY NothingComes, <2>2, <2>3, <3>1 DEF nodeVars
  <2>5. CASE quiet # Fingerprint(s)
    <3>1. /\ signed' = Pass(s).signed /\ handled' = Pass(s).handled
          /\ watch' = WatchAfter(Pass(s))
          /\ copy' = copy \/ (copy # Absent /\ copy' = Merge(copy, Pass(s).delta))
          /\ answered' = answered \cup Pass(s).new
          /\ awaited' = awaited \ (Pass(s).new \cup Pass(s).deferred)
      BY <1>1, <2>5 DEF Process
    <3>2. Passes(s)
      BY <2>2, <2>3, <3>1 DEF Passes
    <3>. QED
      BY <2>2, <3>2
  <2>. QED
    BY <2>4, <2>5
<1>2. ASSUME OnChanged \/ OnFailed
      PROVE  Hears
  <2>1. \E kind : Heard(kind) /\ replies' = Tail(replies)
    BY <1>2 DEF OnChanged, OnFailed
  <2>2. OnWay' \subseteq OnWay
    BY <2>1, WayAfterTail
  <2>. QED
    BY NothingComes, <1>2, <2>2 DEF OnChanged, OnFailed, Heard, nodeVars, history
<1>3. ASSUME OnAbsent
      PROVE  Hears \/ Opens
  <2>1. Heard("absent") /\ UNCHANGED <<tip, dated, unreadable, net, up, storeVars, answered>>
    BY <1>3 DEF OnAbsent, Heard
  <2>2. CASE driver.reopen # 0
    <3>1. replies' = Tail(replies) /\ UNCHANGED <<copy, following, rearm, expiry, awaited>>
      BY <1>3, <2>2 DEF OnAbsent
    <3>2. OnWay' \subseteq OnWay
      BY <2>1, <3>1, WayAfterTail
    <3>. QED
      BY NothingComes, <2>1, <3>1, <3>2 DEF nodeVars
  <2>3. CASE driver.reopen = 0
    <3>1. /\ Arm /\ following' = FALSE
          /\ copy' = Empty(signed) \/ (copy # Absent /\ copy' = Merge(copy, Empty(signed)))
          /\ replies' = Append(Outdated(Tail(replies)), Said("changed"))
      BY <1>3, <2>3 DEF OnAbsent
    <3>2. PICK q : q = Outdated(Tail(replies))
      OBVIOUS
    <3>3. q \in Seq(Reply) /\ \A i \in DOMAIN q :
            q[i].fresh = FALSE /\ \E n \in OnWay : q[i].inbox = n.inbox
      BY <2>1, <3>2, Heads, OutdatedSeq
    <3>4. \A i \in DOMAIN Append(q, Said("changed")) :
             \/ Append(q, Said("changed"))[i] = Said("changed")
             \/ \E j \in DOMAIN q : Append(q, Said("changed"))[i] = q[j]
      BY <3>3, SaidTypes, LastOfSeq
    <3>5. ASSUME NEW m \in OnWay'
          PROVE  \/ m = Said("changed")
                 \/ m.fresh = FALSE /\ \E n \in OnWay : m.inbox = n.inbox
      <4>1. m \in {Append(q, Said("changed"))[i] : i \in DOMAIN Append(q, Said("changed"))}
        BY <3>1, <3>2 DEF OnWay
      <4>. QED
        BY <3>3, <3>4, <4>1
    <3>. QED
      BY <2>1, <3>1, <3>5, Heads DEF Opens
  <2>. QED
    BY <2>2, <2>3
<1>. QED
  BY <1>1, <1>2, <1>3 DEF OnReply

\* Every step is one of these.
LEMMA Steps ==
  ASSUME TypeOK, [Next]_vars
  PROVE  \/ Hears \/ Joins \/ Leaves \/ Opens \/ Follows \/ Loses
         \/ \E s \in Inbox : Passes(s)
         \/ \E r \in Request : Send(r) /\ OnWay' = OnWay
         \/ Mine /\ OnWay' = OnWay
         \/ Tick /\ OnWay' = OnWay
<1>1. ASSUME Connect
      PROVE  Joins
  BY <1>1, EmptyWay DEF Connect, Joins
<1>2. ASSUME NEW restart \in BOOLEAN, Drop(restart)
      PROVE  Leaves
  BY <1>2, EmptyWay DEF Drop, Leaves, history
<1>3. ASSUME OnTick
      PROVE  Hears
  BY <1>3, NothingComes DEF OnTick, history, OnWay
<1>4. ASSUME Answer
      PROVE  Hears
  <2>1. PICK m : /\ replies' = Append(replies, m)
                 /\ m = IF copy = Absent THEN Said("absent") ELSE Shown(copy, following)
    BY <1>4 DEF Answer
  <2>2. m \in Reply
    BY <2>1, SaidTypes DEF TypeOK
  <2>3. \A n \in OnWay' : n \in OnWay \/ n = m
    BY <2>1, <2>2, WayAfterAppend
  <2>. QED
    BY <1>4, <2>1, <2>3 DEF Answer, Hears, workVars, history
<1>5. ASSUME FailRead
      PROVE  Hears
  <2>1. \A n \in OnWay' : n \in OnWay \/ n = Said("failed")
    <3>1. CASE replies' = Append(replies, Said("failed"))
      BY <3>1, SaidTypes, WayAfterAppend
    <3>2. CASE UNCHANGED replies
      BY <3>2 DEF OnWay
    <3>. QED
      BY <1>5, <3>1, <3>2 DEF FailRead
  <2>. QED
    BY <1>5, <2>1 DEF FailRead, Hears, workVars, history
<1>6. ASSUME Follow
       PROVE  Follows
  <2>1. \A n \in OnWay' : n \in OnWay \/ n = Said("changed")
    <3>1. CASE replies' = Append(replies, Said("changed"))
      BY <3>1, SaidTypes, WayAfterAppend
    <3>2. CASE UNCHANGED replies
      BY <3>2 DEF OnWay
    <3>. QED
      BY <1>6, <3>1, <3>2 DEF Follow
  <2>. QED
    BY <1>6, <2>1 DEF Follow, Follows, workVars, history
<1>7. UNCHANGED replies => OnWay' = OnWay
  BY DEF OnWay
<1>8. LoseCopy => Loses
  BY <1>7 DEF LoseCopy, Loses, linkVars, workVars, history
<1>9. (\E r \in Request : Send(r)) \/ Mine \/ Tick => UNCHANGED replies
  BY DEF Send, Mine, Tick, linkVars
<1>10. UNCHANGED vars => Hears
  BY <1>7 DEF vars, Hears, nodeVars, linkVars, workVars, storeVars, history
<1>. QED
  BY <1>1, <1>2, <1>3, <1>4, <1>5, <1>6, <1>7, <1>8, <1>9, <1>10, RepliesHeard DEF Next

-----------------------------------------------------------------------------
(* What a merge and a pass come to *)

\* A merge is of what the two copies hold, and drops only what one of them removed
\* or its floor passed.
LEMMA MergeIs ==
  ASSUME NEW a \in Inbox, NEW b \in Inbox
  PROVE  /\ Merge(a, b) \in Inbox
         /\ Merge(a, b).floor \in {a.floor, b.floor}
         /\ Merge(a, b).removed \subseteq a.removed \cup b.removed
         /\ Merge(a, b).entries \subseteq a.entries \cup b.entries
         /\ \A r \in a.entries \cup b.entries :
              ~PassedBy(Merge(a, b).floor, r) /\ r \notin a.removed \cup b.removed
              => r \in Merge(a, b).entries
<1>. DEFINE floor == Larger(a.floor, b.floor)
            gone  == Standing(floor, a.removed \cup b.removed)
<1>1. Merge(a, b) = [floor |-> floor, removed |-> gone,
                     entries |-> Standing(floor, (a.entries \cup b.entries) \ gone)]
  BY DEF Merge
<1>2. floor \in {a.floor, b.floor} /\ floor \in Nat
  BY DEF Larger, Inbox
<1>. HIDE DEF floor
<1>3. gone \subseteq a.removed \cup b.removed
      /\ Standing(floor, (a.entries \cup b.entries) \ gone) \subseteq a.entries \cup b.entries
  BY DEF Standing
<1>4. a.entries \cup b.entries \subseteq Request /\ a.removed \cup b.removed \subseteq Request
  BY DEF Inbox
<1>. QED
  BY <1>1, <1>2, <1>3, <1>4 DEF Inbox, Standing

\* A pass signs no lower floor, none at all while the hold is on, and reads only
\* what the copy holds.
LEMMA PassIs ==
  ASSUME TypeOK, NEW s \in Inbox
  PROVE  /\ Pass(s).signed \in Nat /\ signed <= Pass(s).signed /\ s.floor <= Pass(s).signed
         /\ FloorHeld /\ s.floor <= signed => Pass(s).signed = signed
         /\ Pass(s).new \subseteq Request /\ Pass(s).handled \subseteq handled \cup Pass(s).new
         /\ Pass(s).delta \in Inbox /\ Pass(s).delta.floor = Pass(s).signed
         /\ Pass(s).delta.entries = {}
         /\ Pass(s).delta.removed \subseteq handled \cup Pass(s).new
         /\ Readable(s, Larger(signed, s.floor)) \subseteq
              handled \cup Pass(s).new \cup Pass(s).deferred
         /\ Pass(s).ends => ~ExpiryHeld /\ ~StaleView(s, Larger(signed, s.floor))
<1>. DEFINE known    == Larger(signed, s.floor)
            kept     == Standing(known, handled)
            readable == Readable(s, known)
            new      == NewlyRead(readable \ kept,
                          IF tip \in Crowded THEN 0 ELSE Budget - Cardinality(kept))
            done     == kept \cup new
            removed  == {r \in done : \E q \in readable \cap done : dated[q] = dated[r]}
<1>1. /\ Pass(s).signed = Target(known) /\ Pass(s).handled = done /\ Pass(s).new = new
      /\ Pass(s).deferred = readable \ done
      /\ Pass(s).delta = [floor |-> Target(known), entries |-> {}, removed |-> removed]
      /\ Pass(s).ends = (~ExpiryHeld /\ ~StaleView(s, known))
  BY DEF Pass
<1>2. known \in Nat /\ signed <= known /\ s.floor <= known /\ (s.floor <= signed => known = signed)
  BY DEF Larger, TypeOK, Inbox
<1>3. Target(known) \in Nat /\ known <= Target(known) /\ (FloorHeld => Target(known) = known)
  BY <1>2, ConstantTypes DEF Target, Larger, TypeOK
<1>4. kept \subseteq handled /\ new \subseteq readable /\ readable \subseteq s.entries
  BY DEF Standing, NewlyRead, Readable
<1>5. handled \subseteq Request /\ s.entries \subseteq Request
  BY DEF TypeOK, Inbox
<1>6. removed \subseteq done /\ done \subseteq Request
  BY <1>4, <1>5
<1>. HIDE DEF known, kept, readable, new, removed
<1>7. Target(known) \in Nat /\ signed <= Target(known) /\ s.floor <= Target(known)
  BY <1>2, <1>3 DEF TypeOK, Inbox
<1>8. FloorHeld /\ s.floor <= signed => Target(known) = signed
  BY <1>2, <1>3
<1>9. Pass(s).delta \in Inbox
  BY <1>1, <1>6, <1>7 DEF Inbox
<1>10. done \subseteq handled \cup new /\ removed \subseteq handled \cup new
       /\ readable \subseteq handled \cup new \cup (readable \ done)
  BY <1>4, <1>6
<1>11. new \subseteq Request
  BY <1>4, <1>5
<1>12. Pass(s).ends => ~ExpiryHeld /\ ~StaleView(s, known)
  BY <1>1
<1>. HIDE DEF done
<1>13. /\ Pass(s).delta.floor = Target(known) /\ Pass(s).delta.entries = {}
       /\ Pass(s).delta.removed = removed
  BY <1>1
<1>. QED
  BY <1>1, <1>7, <1>8, <1>9, <1>10, <1>11, <1>12, <1>13 DEF known, readable

\* A request seen, of the window and new to the bridge, is come to.
LEMMA ComesTo ==
  ASSUME TypeOK, Copies, NEW m \in OnWay, m.inbox \in Inbox,
         NEW r \in m.inbox.entries, r \in net.entries, r \notin answered \cup unreadable,
         ~PassedBy(signed, r)
  PROVE  r \in Pass(m.inbox).new \cup Pass(m.inbox).deferred
<1>. DEFINE known == Larger(signed, m.inbox.floor)
<1>1. known = signed /\ signed \in Nat
  BY DEF Larger, Copies, From, TypeOK, Inbox
<1>2. dated[r] \in Nat /\ dated[r] <= signed + Window /\ dated[r] # NotSent
  BY ConstantTypes DEF Copies
<1>3. signed <= dated[r]
  BY <1>1, <1>2 DEF PassedBy
<1>4. dated[r] \in known..known + Window
  BY <1>1, <1>2, <1>3, ConstantTypes
<1>5. r \in Readable(m.inbox, known)
  BY <1>4 DEF Readable
<1>6. r \notin handled
  BY DEF Copies
<1>. QED
  BY <1>5, <1>6, PassIs

\* Replies on their way have their fields.
LEMMA WayTypes == TypeOK => \A m \in OnWay : m \in Reply /\ m.inbox \in Inbox /\ m.fresh \in BOOLEAN
<1>. SUFFICES ASSUME TypeOK
              PROVE  \A m \in OnWay : m \in Reply
  BY DEF Reply
<1>1. replies \in Seq(Reply)
  BY DEF TypeOK
<1>. QED
  BY <1>1, ElementOfSeq, LenProperties DEF OnWay

-----------------------------------------------------------------------------
(* Types *)

\* Arming the hold keeps the types.
LEMMA ArmTypes ==
  ASSUME TypeOK, Arm
  PROVE  rearm' \in Nat /\ expiry' \in Nat /\ awaited' \subseteq Request
  BY ConstantTypes DEF TypeOK, Arm, ArmFloor, Awaiting, Standing, Inbox

\* Every step keeps the types.
LEMMA StepTypes == TypeOK /\ [Next]_vars => TypeOK'
<1>. SUFFICES ASSUME TypeOK, [Next]_vars
              PROVE  TypeOK'
  OBVIOUS
<1>. USE SaidTypes
<1>1. ASSUME replies' \in Seq(Reply), Hears
      PROVE  TypeOK'
  BY <1>1 DEF Hears, TypeOK, nodeVars, storeVars
<1>2. ASSUME replies' \in Seq(Reply), Joins
      PROVE  TypeOK'
  BY <1>2, ArmTypes DEF Joins, TypeOK, nodeVars, storeVars
<1>3. CASE Connect
  <2>1. replies' \in Seq(Reply)
    BY <1>3 DEF Connect
  <2>. QED
    BY <1>2, <1>3, <2>1, EmptyWay DEF Connect, Joins
<1>4. ASSUME NEW restart \in BOOLEAN, Drop(restart)
      PROVE  TypeOK'
  <2>1. replies' \in Seq(Reply) /\ rearm' \in Nat /\ expiry' \in Nat
    BY <1>4 DEF Drop, TypeOK
  <2>. QED
    BY <1>4, <2>1 DEF Drop, TypeOK, storeVars, history
<1>5. CASE OnTick \/ FailRead \/ Answer \/ UNCHANGED vars
  <2>1. replies' \in Seq(Reply)
    <3>1. replies \in Seq(Reply) /\ (copy # Absent => Shown(copy, following) \in Reply)
      BY DEF TypeOK
    <3>2. \A m \in Reply : Append(replies, m) \in Seq(Reply)
      BY <3>1, LastOfSeq
    <3>. QED
      BY <1>5, <3>1, <3>2 DEF OnTick, FailRead, Answer, vars, linkVars
  <2>2. UNCHANGED <<tip, dated, unreadable, nodeVars, up, rearm, expiry, storeVars,
                    answered, awaited>>
    BY <1>5 DEF OnTick, FailRead, Answer, vars, linkVars, workVars, history
  <2>. QED
    BY <2>1, <2>2 DEF TypeOK, nodeVars, storeVars
<1>6. CASE OnReply
  <2>1. replies' \in Seq(Reply)
    <3>1. \E kind : Heard(kind)
      BY <1>6 DEF OnReply, Process, OnChanged, OnFailed, OnAbsent
    <3>2. Tail(replies) \in Seq(Reply)
      BY <3>1, Heads
    <3>3. Append(Outdated(Tail(replies)), Said("changed")) \in Seq(Reply)
      BY <3>2, OutdatedSeq, LastOfSeq
    <3>. QED
      BY <1>6, <3>2, <3>3 DEF OnReply, Process, OnChanged, OnFailed, OnAbsent
  <2>2. ASSUME NEW s \in Inbox, Passes(s)
        PROVE  TypeOK'
    <3>. DEFINE p == Pass(s)
    <3>1. /\ p.signed \in Nat /\ p.new \subseteq Request /\ p.handled \subseteq handled \cup p.new
          /\ p.delta \in Inbox
      BY PassIs
    <3>. HIDE DEF p
    <3>2. /\ signed' = p.signed /\ handled' = p.handled /\ watch' = WatchAfter(p)
          /\ copy' = copy \/ (copy # Absent /\ copy' = Merge(copy, p.delta))
          /\ answered' = answered \cup p.new
          /\ awaited' = awaited \ (p.new \cup p.deferred)
          /\ UNCHANGED <<tip, dated, unreadable, net, following, up, rearm, expiry>>
      BY <2>2 DEF Passes, p
    <3>3. watch' \in [on : BOOLEAN, due : Nat]
      <4>1. watch \in [on : BOOLEAN, due : Nat] /\ tip + Life \in Nat
        BY ConstantTypes DEF TypeOK
      <4>2. [watch EXCEPT !.on = FALSE] \in [on : BOOLEAN, due : Nat]
            /\ [on |-> TRUE, due |-> tip + Life] \in [on : BOOLEAN, due : Nat]
        BY <4>1
      <4>. QED
        BY <3>2, <4>1, <4>2 DEF WatchAfter
    <3>4. copy' # Absent => copy' \in Inbox
      BY <3>1, <3>2, MergeIs DEF TypeOK
    <3>. QED
      BY <2>1, <3>1, <3>2, <3>3, <3>4 DEF TypeOK
  <2>3. ASSUME Opens
        PROVE  TypeOK'
    <3>1. copy' # Absent => copy' \in Inbox
      BY <2>3, MergeIs DEF Opens, TypeOK
    <3>. QED
      BY <2>1, <2>3, <3>1, ArmTypes DEF Opens, TypeOK, storeVars
  <2>4. Hears \/ Opens \/ \E s \in Inbox : Passes(s)
    BY <1>6, RepliesHeard
  <2>. QED
    BY <1>1, <2>1, <2>2, <2>3, <2>4
<1>7. CASE Follow
  <2>1. replies' \in Seq(Reply)
    BY <1>7, LastOfSeq DEF Follow, TypeOK
  <2>2. copy' \in Inbox
    BY <1>7, MergeIs DEF Follow, TypeOK
  <2>. QED
    BY <1>7, <2>1, <2>2 DEF Follow, TypeOK, workVars, storeVars, history
<1>8. CASE LoseCopy
  BY <1>8 DEF LoseCopy, TypeOK, linkVars, workVars, storeVars, history
<1>9. ASSUME NEW r \in Request, Send(r)
      PROVE  TypeOK'
  <2>1. net.floor + Window - Slack \in Nat
    <3>1. net.floor \in Nat
      BY DEF TypeOK, Inbox
    <3>. QED
      BY <3>1, ConstantTypes
  <2>2. dated' \in [Request -> Nat \cup {NotSent}] /\ net' \in Inbox
    BY <1>9, <2>1 DEF Send, TypeOK, Inbox
  <2>. QED
    BY <1>9, <2>2 DEF Send, TypeOK, linkVars, workVars, storeVars, history
<1>10. CASE Mine
  BY <1>10 DEF Mine, TypeOK, nodeVars, linkVars, workVars, storeVars, history
<1>11. CASE Tick
  <2>1. rearm' \in Nat /\ expiry' \in Nat
    BY <1>11 DEF Tick, CountDown, TypeOK
  <2>. QED
    BY <1>11, <2>1 DEF Tick, TypeOK, nodeVars, linkVars, storeVars
<1>. QED
  BY <1>3, <1>4, <1>5, <1>6, <1>7, <1>8, <1>9, <1>10, <1>11 DEF Next

-----------------------------------------------------------------------------
(* What holds of every copy *)

\* What the bridge has signed and read grows, and a request keeps its date.
LEMMA Grows ==
  ASSUME TypeOK, [Next]_vars
  PROVE  /\ signed \in Nat /\ signed' \in Nat /\ signed <= signed' /\ answered \subseteq answered'
         /\ unreadable' = unreadable
         /\ \A r \in Request : dated[r] # NotSent => dated'[r] = dated[r]
         /\ \A r \in Request : PassedBy(signed, r) => PassedBy(signed, r)'
<1>1. signed \in Nat /\ signed' \in Nat
  BY StepTypes DEF TypeOK
<1>2. signed <= signed' /\ answered \subseteq answered' /\ unreadable' = unreadable
      /\ \A r \in Request : dated[r] # NotSent => dated'[r] = dated[r]
  <2>1. ASSUME NEW s \in Inbox, Passes(s)
        PROVE  signed <= signed' /\ answered \subseteq answered' /\ dated' = dated
               /\ unreadable' = unreadable
    BY <2>1, PassIs DEF Passes
  <2>2. ASSUME NEW r \in Request, Send(r)
        PROVE  \A q \in Request : dated[q] # NotSent => dated'[q] = dated[q]
    BY <2>2 DEF Send, TypeOK
  <2>3. (\E r \in Request : Send(r)) =>
           signed' = signed /\ answered' = answered /\ unreadable' = unreadable
    BY DEF Send, storeVars, history
  <2>4. Hears \/ Joins \/ Leaves \/ Opens \/ Follows \/ Loses \/ Mine \/ Tick =>
          signed' = signed /\ answered' = answered /\ dated' = dated /\ unreadable' = unreadable
    BY DEF Hears, Joins, Leaves, Opens, Follows, Loses, Mine, Tick, storeVars, history
  <2>. QED
    BY <1>1, <2>1, <2>2, <2>3, <2>4, Steps
<1>3. ASSUME NEW r \in Request, PassedBy(signed, r)
      PROVE  PassedBy(signed, r)'
  <2>1. dated[r] \in Nat /\ dated[r] < signed /\ dated'[r] = dated[r] /\ dated[r] # NotSent
    BY <1>2, <1>3 DEF PassedBy, TypeOK
  <2>. QED
    BY <1>1, <1>2, <2>1 DEF PassedBy
<1>. QED
  BY <1>1, <1>2, <1>3

\* Every step keeps what copies are.
LEMMA StepCopies ==
  ASSUME TypeOK, Copies, [Next]_vars
  PROVE  Copies'
<1>. DEFINE Kept(s) == From(s, signed', answered')
<1>1. ASSUME NEW s \in Inbox, From(s, signed, answered)
      PROVE  Kept(s)
  BY <1>1, Grows DEF From, Inbox
<1>2. ASSUME NEW a \in Inbox, NEW b \in Inbox, Kept(a), Kept(b)
      PROVE  Kept(Merge(a, b))
  BY <1>2, MergeIs DEF From
<1>3. net \in Inbox /\ Kept(net)
  BY <1>1 DEF TypeOK, Copies
<1>4. \A m \in OnWay : Kept(m.inbox)
  BY <1>1, WayTypes DEF Copies
<1>5. Kept(Empty(0)) /\ Kept(Empty(signed)) /\ Empty(signed) \in Inbox
  BY Grows, SaidTypes DEF From, Empty
<1>6. copy # Absent => copy \in Inbox /\ Kept(copy) /\ copy.entries \subseteq net.entries
  BY <1>1 DEF TypeOK, Copies
<1>7. \A kind : Said(kind).inbox = Empty(0)
  BY DEF Said
<1>8. \A r \in Request : dated[r] \in Nat /\ dated[r] <= signed + Window
         => dated'[r] \in Nat /\ dated'[r] <= signed' + Window
  BY Grows, ConstantTypes
<1>9. net.entries \subseteq Request
  BY DEF TypeOK, Inbox
<1>. HIDE DEF Kept
<1>10. Kept(net') /\ \A r \in net'.entries : dated'[r] \in Nat /\ dated'[r] <= signed' + Window
  <2>1. CASE net' = net
    BY <1>3, <1>8, <1>9, <2>1 DEF Copies
  <2>2. CASE Follows
    <3>1. copy \in Inbox /\ copy.entries \subseteq net.entries /\ Kept(copy)
      BY <1>6, <2>2 DEF Follows
    <3>2. net' = Merge(copy, net)
      BY <2>2 DEF Follows
    <3>3. net'.entries \subseteq net.entries
      BY <1>3, <3>1, <3>2, MergeIs
    <3>. QED
      BY <1>2, <1>3, <1>8, <1>9, <3>1, <3>2, <3>3 DEF Copies
  <2>3. ASSUME NEW r \in Request, Send(r)
        PROVE  Kept(net') /\ \A q \in net'.entries : dated'[q] \in Nat /\ dated'[q] <= signed' + Window
    <3>1. net'.floor = net.floor /\ net'.removed = net.removed /\ net'.entries = net.entries \cup {r}
      BY <2>3 DEF Send, TypeOK, Inbox
    <3>2. net.floor \in Nat /\ net.floor <= signed /\ signed \in Nat /\ signed' = signed
      BY <2>3 DEF TypeOK, Inbox, Copies, From, Send, storeVars
    <3>3. dated'[r] = net.floor + Window - Slack
      BY <2>3 DEF Send, TypeOK
    <3>4. dated'[r] \in Nat /\ dated'[r] <= signed' + Window
      BY <3>2, <3>3, ConstantTypes
    <3>5. Kept(net')
      BY <1>3, <3>1 DEF Kept, From
    <3>. QED
      BY <1>8, <1>9, <3>1, <3>4, <3>5 DEF Copies
  <2>4. Hears \/ Joins \/ Leaves \/ Opens \/ Loses \/ Mine \/ Tick \/ (\E s \in Inbox : Passes(s))
          => net' = net
    BY DEF Hears, Joins, Leaves, Opens, Loses, Mine, Tick, Passes, nodeVars
  <2>. QED
    BY <2>1, <2>2, <2>3, <2>4, Steps
<1>11. \A m \in OnWay' : Kept(m.inbox)
  <2>1. ASSUME Hears, NEW m \in OnWay', m \notin OnWay
        PROVE  Kept(m.inbox)
    <3>1. (\E kind : m = Said(kind)) \/ (copy # Absent /\ m = Shown(copy, following))
      BY <2>1 DEF Hears
    <3>. QED
      BY <1>5, <1>6, <1>7, <3>1 DEF Shown
  <2>2. ASSUME NEW m \in OnWay', Opens
        PROVE  Kept(m.inbox)
    BY <1>4, <1>5, <1>7, <2>2 DEF Opens
  <2>3. ASSUME NEW m \in OnWay', Follows
        PROVE  Kept(m.inbox)
    BY <1>4, <1>5, <1>7, <2>3 DEF Follows
  <2>4. Joins \/ Leaves \/ Loses \/ (\E s \in Inbox : Passes(s)) => OnWay' \subseteq OnWay
    BY DEF Joins, Leaves, Loses, Passes
  <2>. QED
    BY <1>4, <2>1, <2>2, <2>3, <2>4, Steps
<1>12. copy' # Absent => Kept(copy') /\ copy'.entries \subseteq net'.entries
  <2>1. CASE UNCHANGED <<copy, net>>
    BY <1>6, <2>1
  <2>2. ASSUME NEW s \in Inbox, Passes(s), copy' # Absent
        PROVE  Kept(copy') /\ copy'.entries \subseteq net'.entries
    <3>. DEFINE p == Pass(s)
    <3>1. /\ p.delta \in Inbox /\ p.delta.floor = p.signed /\ p.signed \in Nat
          /\ p.delta.entries = {} /\ p.delta.removed \subseteq handled \cup p.new
      BY PassIs
    <3>. HIDE DEF p
    <3>2. /\ copy' = copy \/ (copy # Absent /\ copy' = Merge(copy, p.delta))
          /\ net' = net
          /\ signed' = p.signed /\ answered' = answered \cup p.new
      BY <2>2 DEF Passes, p
    <3>3. Kept(p.delta)
      BY <3>1, <3>2 DEF Kept, From, Copies
    <3>4. CASE copy' = copy
      BY <1>6, <2>2, <3>2, <3>4
    <3>5. CASE copy # Absent /\ copy' = Merge(copy, p.delta)
      <4>1. copy \in Inbox /\ Kept(copy) /\ copy.entries \subseteq net.entries
        BY <1>6, <3>5
      <4>2. Kept(Merge(copy, p.delta))
        BY <1>2, <3>1, <3>3, <4>1
      <4>3. Merge(copy, p.delta).entries \subseteq copy.entries
        BY <3>1, <4>1, MergeIs
      <4>. QED
        BY <3>2, <3>5, <4>1, <4>2, <4>3
    <3>. QED
      BY <3>2, <3>4, <3>5
  <2>3. ASSUME Opens
        PROVE  Kept(copy') /\ copy'.entries \subseteq net'.entries
    <3>1. Empty(signed).entries = {}
      BY DEF Empty
    <3>2. net' = net /\ (copy' = Empty(signed) \/ (copy # Absent /\ copy' = Merge(copy, Empty(signed))))
      BY <2>3 DEF Opens
    <3>3. CASE copy' = Empty(signed)
      BY <1>5, <3>1, <3>2, <3>3
    <3>4. CASE copy # Absent /\ copy' = Merge(copy, Empty(signed))
      <4>1. copy \in Inbox /\ Kept(copy) /\ copy.entries \subseteq net.entries
        BY <1>6, <3>4
      <4>2. Kept(Merge(copy, Empty(signed)))
        BY <1>2, <1>5, <4>1
      <4>3. Merge(copy, Empty(signed)).entries \subseteq copy.entries
        BY <1>5, <3>1, <4>1, MergeIs
      <4>. QED
        BY <3>2, <3>4, <4>1, <4>2, <4>3
    <3>. QED
      BY <3>2, <3>3, <3>4
  <2>4. CASE Follows
    BY <1>10, <2>4 DEF Follows
  <2>5. ASSUME NEW r \in Request, Send(r), copy' # Absent
        PROVE  Kept(copy') /\ copy'.entries \subseteq net'.entries
    BY <1>6, <2>5 DEF Send, TypeOK, Inbox
  <2>6. Loses => copy' = Absent
    BY DEF Loses
  <2>7. Hears \/ Joins \/ Leaves \/ Mine \/ Tick => UNCHANGED <<copy, net>>
    BY DEF Hears, Joins, Leaves, Mine, Tick, nodeVars
  <2>. QED
    BY <2>1, <2>2, <2>3, <2>4, <2>5, <2>6, <2>7, Steps
<1>13. handled' \subseteq answered'
  <2>1. ASSUME NEW s \in Inbox, Passes(s)
        PROVE  handled' \subseteq answered'
    BY <2>1, PassIs DEF Passes, Copies
  <2>2. ASSUME ~ \E s \in Inbox : Passes(s)
        PROVE  handled' = handled
    BY <2>2, Steps
    DEF Hears, Joins, Leaves, Opens, Follows, Loses, Send, Mine, Tick, storeVars
  <2>. QED
    BY <2>1, <2>2, Grows DEF Copies
<1>. QED
  BY <1>10, <1>11, <1>12, <1>13 DEF Copies, Kept

-----------------------------------------------------------------------------
(* The hold *)

\* No timer runs out before the node has caught up.
LEMMA StepCaught ==
  ASSUME TypeOK, Caught, [Next]_vars
  PROVE  Caught'
<1>1. CASE Hears
  <2>1. \A m \in OnWay' : m \in OnWay \/ m.kind # "state" \/ (copy # Absent /\ m.fresh = following)
    BY <1>1 DEF Hears, Said, Shown
  <2>. QED
    BY <1>1, <2>1 DEF Caught, Hears, nodeVars
<1>2. CASE Joins
  BY <1>2, ConstantTypes DEF Caught, Joins, Arm, nodeVars
<1>3. CASE Leaves
  BY <1>3 DEF Caught, Leaves
<1>4. CASE Opens
  BY <1>4, ConstantTypes DEF Caught, Opens, Arm
<1>5. CASE Follows
  <2>1. \A m \in OnWay' : m \in OnWay \/ m.kind # "state"
    BY <1>5 DEF Follows, Said
  <2>2. copy' # Absent
    BY <1>5, MergeIs, ConstantTypes DEF Follows, TypeOK
  <2>. QED
    BY <1>5, <2>1, <2>2 DEF Caught, Follows
<1>6. CASE Loses
  BY <1>6 DEF Caught, Loses
<1>7. ASSUME NEW s \in Inbox, Passes(s)
      PROVE  Caught'
  <2>1. /\ up /\ up' = up /\ expiry' = expiry /\ following' = following /\ OnWay' \subseteq OnWay
        /\ copy' = copy \/ (copy # Absent /\ copy' = Merge(copy, Pass(s).delta))
    BY <1>7 DEF Passes
  <2>2. copy' # Absent <=> copy # Absent
    BY <2>1, PassIs, MergeIs, ConstantTypes DEF TypeOK
  <2>. QED
    BY <2>1, <2>2 DEF Caught
<1>8. ASSUME (\E r \in Request : Send(r)) \/ Mine, OnWay' = OnWay
      PROVE  Caught'
  BY <1>8 DEF Caught, Send, Mine, nodeVars, linkVars, workVars
<1>9. ASSUME Tick, OnWay' = OnWay
      PROVE  Caught'
  <2>1. UNCHANGED <<following, copy, up>>
    BY <1>9 DEF Tick, nodeVars, linkVars
  <2>2. CASE expiry = 1
    <3>1. CaughtUp
      BY <1>9, <2>2 DEF Tick
    <3>2. ASSUME NEW m \in OnWay, m.kind = "state"
          PROVE  m.fresh
      BY <3>1, <3>2 DEF CaughtUp, OnWay
    <3>. QED
      BY <1>9, <2>1, <3>1, <3>2 DEF Caught, CaughtUp
  <2>3. CASE expiry # 1
    <3>1. expiry' = 0 => expiry = 0
      BY <1>9, <2>3 DEF Tick, CountDown, TypeOK
    <3>. QED
      BY <1>9, <2>1, <3>1 DEF Caught
  <2>. QED
    BY <2>2, <2>3
<1>. QED
  BY <1>1, <1>2, <1>3, <1>4, <1>5, <1>6, <1>7, <1>8, <1>9, Steps

\* The two halves of the hold run down together.
LEMMA StepTimed ==
  ASSUME TypeOK, Timed, [Next]_vars
  PROVE  Timed'
<1>1. ASSUME Arm
      PROVE  Timed'
  <2>1. CASE rearm = 0
    BY <1>1, <2>1, ConstantTypes DEF Arm, ArmFloor, Timed
  <2>2. CASE rearm # 0
    BY <1>1, <2>2 DEF Arm, Awaiting, Timed
  <2>. QED
    BY <2>1, <2>2
<1>2. ASSUME UNCHANGED <<up, rearm, expiry>>, awaited' \subseteq awaited
      PROVE  Timed'
  BY <1>2 DEF Timed
<1>3. CASE Leaves
  BY <1>3 DEF Leaves, Timed
<1>4. CASE Tick
  <2>1. up' = up /\ awaited' = awaited
        /\ rearm' = CountDown(rearm) /\ expiry' = CountDown(expiry)
    BY <1>4 DEF Tick, linkVars
  <2>2. ASSUME up, awaited # {}, expiry' > 0
        PROVE  rearm' + Hold >= Rearm + expiry'
    <3>1. expiry > 0 /\ expiry' = expiry - 1
      BY <2>1, <2>2 DEF CountDown, TypeOK
    <3>2. rearm + Hold >= Rearm + expiry
      BY <2>2, <3>1 DEF Timed
    <3>3. rearm > 0
      BY <3>1, <3>2, ConstantTypes DEF TypeOK
    <3>4. rearm' = rearm - 1
      BY <2>1, <3>3 DEF CountDown
    <3>. QED
      BY <3>1, <3>2, <3>4, ConstantTypes DEF TypeOK
  <2>. QED
    BY <2>1, <2>2 DEF Timed
<1>5. Hears \/ Follows \/ Loses \/ Mine \/ (\E s \in Inbox : Passes(s)) \/ (\E r \in Request : Send(r))
        => UNCHANGED <<up, rearm, expiry>> /\ awaited' \subseteq awaited
  BY DEF Hears, Follows, Loses, Mine, Passes, Send, linkVars, workVars, history
<1>. QED
  BY <1>1, <1>2, <1>3, <1>4, <1>5, Steps DEF Joins, Opens

\* While requests are awaited, a copy acted on with the floor's half over is from since
\* the node caught up.
LEMMA FreshOnceReleased ==
  ASSUME TypeOK, Caught, Timed, awaited # {}, ~FloorHeld, up
  PROVE  \A m \in OnWay : m.kind = "state" => m.fresh
<1>1. ~(expiry > 0)
  BY ConstantTypes DEF Timed, FloorHeld, TypeOK
<1>2. expiry = 0
  BY <1>1 DEF TypeOK
<1>. QED
  BY <1>2 DEF Caught

-----------------------------------------------------------------------------
(* What is seen *)

\* What the bridge has not come to and the floor has not passed goes on being seen.
LEMMA StaysSeen ==
  ASSUME TypeOK, Copies, Caught, [Next]_vars, NEW r \in net.entries,
         r \notin answered', ~PassedBy(signed, r)', Seen(r)
  PROVE  r \in net'.entries /\ Seen(r)'
<1>1. /\ r \in Request /\ dated[r] \in Nat /\ dated[r] # NotSent /\ dated'[r] = dated[r]
      /\ ~(dated[r] < signed')
  <2>1. r \in Request /\ dated[r] \in Nat /\ dated[r] # NotSent
    BY ConstantTypes DEF TypeOK, Copies, Inbox
  <2>2. dated'[r] = dated[r]
    BY <2>1, Grows
  <2>. QED
    BY <2>1, <2>2 DEF PassedBy
<1>2. \A f \in Nat : f <= signed' => ~PassedBy(f, r)
  BY <1>1, Grows DEF PassedBy
<1>3. ASSUME NEW a \in Inbox, NEW b \in Inbox, From(a, signed', answered'),
             From(b, signed', answered'), r \in a.entries \cup b.entries
      PROVE  r \in Merge(a, b).entries
  <2>1. Merge(a, b).floor \in {a.floor, b.floor} /\ a.floor \in Nat /\ b.floor \in Nat
        /\ a.floor <= signed' /\ b.floor <= signed'
        /\ r \notin a.removed \cup b.removed
    BY <1>3, MergeIs DEF From, Inbox
  <2>2. ~PassedBy(Merge(a, b).floor, r)
    BY <1>2, <2>1
  <2>. QED
    BY <1>3, <2>1, <2>2, MergeIs
<1>4. /\ net \in Inbox /\ From(net, signed', answered')
      /\ copy # Absent => copy \in Inbox /\ From(copy, signed', answered')
  <2>1. \A s \in Inbox : From(s, signed, answered) => From(s, signed', answered')
    BY Grows DEF From, Inbox
  <2>. QED
    BY <2>1 DEF TypeOK, Copies
<1>5. CASE UNCHANGED <<net, copy, following>> /\ OnWay' \subseteq OnWay
  BY <1>5 DEF Seen
<1>6. CASE Hears
  <2>1. UNCHANGED <<net, copy, following>>
    BY <1>6 DEF Hears, nodeVars
  <2>2. ASSUME NEW m \in OnWay', m.kind = "state", m.fresh
        PROVE  r \in m.inbox.entries
    BY <1>6, <2>2 DEF Hears, Said, Shown, Seen
  <2>. QED
    BY <2>1, <2>2 DEF Seen
<1>7. CASE Leaves \/ Loses
  BY <1>7 DEF Leaves, Loses, Seen
<1>8. ASSUME NEW s \in Inbox, Passes(s)
      PROVE  r \in net'.entries /\ Seen(r)'
  <2>. DEFINE p == Pass(s)
  <2>1. /\ p.delta \in Inbox /\ p.delta.floor = p.signed /\ p.signed \in Nat
        /\ p.delta.removed \subseteq handled \cup p.new
    BY PassIs
  <2>. HIDE DEF p
  <2>2. /\ copy' = copy \/ (copy # Absent /\ copy' = Merge(copy, p.delta))
        /\ net' = net /\ following' = following /\ OnWay' \subseteq OnWay
        /\ signed' = p.signed /\ answered' = answered \cup p.new
    BY <1>8 DEF Passes, p
  <2>3. From(p.delta, signed', answered')
    BY <2>1, <2>2 DEF From, Copies
  <2>4. ASSUME r \in copy.entries, copy # Absent
        PROVE  r \in copy'.entries
    BY <1>3, <1>4, <2>1, <2>2, <2>3, <2>4
  <2>5. following => copy # Absent
    BY DEF Caught
  <2>. QED
    BY <2>2, <2>4, <2>5 DEF Seen
<1>9. CASE Opens
  BY <1>9 DEF Opens, Said, Seen
<1>10. CASE Follows
  <2>1. r \in copy'.entries
    BY <1>3, <1>4, <1>10 DEF Follows
  <2>2. ASSUME NEW m \in OnWay', m.kind = "state", m.fresh
        PROVE  r \in m.inbox.entries
    BY <1>10, <2>2 DEF Follows, Said, Seen
  <2>. QED
    BY <1>10, <2>1, <2>2 DEF Follows, Seen
<1>11. ASSUME NEW q \in Request, Send(q), OnWay' = OnWay
       PROVE  r \in net'.entries /\ Seen(r)'
  BY <1>11 DEF Send, Seen, TypeOK, Inbox
<1>12. Joins \/ ((Mine \/ Tick) /\ OnWay' = OnWay) =>
          UNCHANGED <<net, copy, following>> /\ OnWay' \subseteq OnWay
  BY DEF Joins, Mine, Tick, nodeVars
<1>. QED
  BY <1>5, <1>6, <1>7, <1>8, <1>9, <1>10, <1>11, <1>12, Steps

\* Every step keeps what is awaited waiting and seen.
LEMMA StepWaits ==
  ASSUME TypeOK, Copies, Caught, Timed, Waits, [Next]_vars
  PROVE  Waits'
<1>1. ASSUME NEW r \in awaited, r \notin answered', ~PassedBy(signed, r)'
      PROVE  /\ ~PassedBy(signed, r)' /\ r \in net'.entries
             /\ r \notin answered' \cup unreadable' /\ Seen(r)'
  BY <1>1, StaysSeen, Grows DEF Waits
<1>2. ASSUME NEW r \in Request, ~PassedBy(signed, r), dated[r] # NotSent, signed' = signed
      PROVE  ~PassedBy(signed, r)'
  BY <1>2, Grows DEF PassedBy
<1>3. \A r \in awaited : r \in Request /\ ~PassedBy(signed, r) /\ r \notin answered
                         /\ dated[r] # NotSent
  BY ConstantTypes DEF TypeOK, Waits, Copies
<1>4. ASSUME awaited' \subseteq awaited, answered' = answered, signed' = signed
      PROVE  Waits'
  BY <1>1, <1>2, <1>3, <1>4 DEF Waits
<1>5. ASSUME NEW s \in Inbox, Passes(s)
      PROVE  Waits'
  <2>. DEFINE p == Pass(s)
  <2>1. /\ up /\ signed' = p.signed /\ answered' = answered \cup p.new
        /\ awaited' = awaited \ (p.new \cup p.deferred) /\ dated' = dated
    BY <1>5 DEF Passes
  <2>2. PICK m \in OnWay : m.kind = "state" /\ m.inbox = s
    BY <1>5 DEF Passes
  <2>3. ASSUME NEW r \in awaited'
        PROVE  r \in awaited /\ r \notin answered' /\ ~PassedBy(signed, r)'
    <3>1. r \in awaited /\ r \notin p.new \cup p.deferred /\ r \notin answered'
      BY <1>3, <2>1
    <3>2. CASE FloorHeld
      <4>1. s.floor <= signed
        BY <2>2 DEF Copies, From
      <4>2. signed' = signed
        BY <2>1, <3>2, <4>1, PassIs
      <4>. QED
        BY <1>2, <1>3, <3>1, <4>2
    <3>3. CASE ~FloorHeld
      <4>1. m.fresh
        BY <2>1, <2>2, <3>1, <3>3, FreshOnceReleased
      <4>2. r \in m.inbox.entries /\ r \in net.entries /\ r \notin answered \cup unreadable
            /\ ~PassedBy(signed, r)
        BY <2>2, <3>1, <4>1 DEF Waits, Seen
      <4>3. r \in Pass(m.inbox).new \cup Pass(m.inbox).deferred
        BY <2>2, <4>2, ComesTo
      <4>. QED
        BY <2>2, <3>1, <4>3
    <3>. QED
      BY <3>1, <3>2, <3>3
  <2>. QED
    BY <1>1, <2>3 DEF Waits
<1>6. ASSUME Joins \/ Opens
      PROVE  Waits'
  <2>1. awaited' = Awaiting /\ signed' = signed /\ answered' = answered
        /\ UNCHANGED <<dated, unreadable, net>>
    BY <1>6 DEF Joins, Opens, Arm, nodeVars, storeVars
  <2>2. \A m \in OnWay' : m.kind # "state" \/ m.fresh = FALSE
    BY <1>6 DEF Joins, Opens, Said
  <2>3. following' = FALSE
    BY <1>6 DEF Joins, Opens, Caught, TypeOK, nodeVars
  <2>4. \A r : Seen(r)'
    BY <2>2, <2>3 DEF Seen
  <2>5. \A r \in Awaiting : ~PassedBy(signed, r) /\ r \in net.entries
                            /\ r \notin answered \cup unreadable
    BY DEF Awaiting, Standing
  <2>. QED
    BY <2>1, <2>4, <2>5 DEF Waits, PassedBy
<1>7. Hears \/ Leaves \/ Follows \/ Loses \/ Mine \/ Tick \/ (\E r \in Request : Send(r)) =>
        awaited' = awaited /\ answered' = answered /\ signed' = signed
  BY DEF Hears, Leaves, Follows, Loses, Mine, Tick, Send, storeVars, history
<1>. QED
  BY <1>4, <1>5, <1>6, <1>7, Steps

\* Every step keeps a renewal seen once its watch is due.
LEMMA StepRenews ==
  ASSUME TypeOK, Copies, Caught, Renews, [Next]_vars
  PROVE  Renews'
<1>. SUFFICES ASSUME Renewal \in net'.entries \ answered', ~PassedBy(signed, Renewal)',
                     watch'.on, tip' >= watch'.due
              PROVE  Seen(Renewal)'
  BY DEF Renews
<1>1. Renewal \in Request /\ Renewal \notin answered /\ ~PassedBy(signed, Renewal)
  BY ConstantTypes, Grows
<1>2. ASSUME Renewal \in net.entries, watch.on, tip >= watch.due
      PROVE  Seen(Renewal)'
  BY <1>1, <1>2, StaysSeen DEF Renews
<1>3. ASSUME NEW s \in Inbox, Passes(s)
      PROVE  Seen(Renewal)'
  <2>1. Renewal \notin Pass(s).new /\ net' = net /\ tip' = tip /\ watch' = WatchAfter(Pass(s))
    BY <1>3 DEF Passes
  <2>2. watch' = watch \/ watch' = [watch EXCEPT !.on = FALSE]
    BY <2>1 DEF WatchAfter
  <2>3. [watch EXCEPT !.on = FALSE].on = FALSE
    BY DEF TypeOK
  <2>. QED
    BY <1>2, <2>1, <2>2, <2>3
<1>4. ASSUME NEW r \in Request, Send(r)
      PROVE  Seen(Renewal)'
  <2>1. watch' = watch /\ tip' = tip /\ net'.entries = net.entries \cup {r}
    BY <1>4 DEF Send, TypeOK, Inbox, storeVars
  <2>2. r # Renewal
    BY <1>4, <2>1 DEF Send, TypeOK
  <2>. QED
    BY <1>2, <2>1, <2>2
<1>5. ASSUME Mine, OnWay' = OnWay
      PROVE  Seen(Renewal)'
  <2>1. UNCHANGED <<net, copy, following>> /\ Renewal \in net.entries
    BY <1>5 DEF Mine, nodeVars
  <2>2. \A s : Prompt(s) /\ s.removed \subseteq answered => Renewal \in s.entries
    BY <1>1, <2>1 DEF Prompt
  <2>3. following => Renewal \in copy.entries
    BY <1>5, <2>2 DEF Mine, Copies, Caught, From
  <2>4. ASSUME NEW m \in OnWay, m.kind = "state", m.fresh
        PROVE  Renewal \in m.inbox.entries
    <3>1. Prompt(m.inbox)
      BY <1>5, <2>4 DEF Mine, OnWay
    <3>. QED
      BY <2>2, <3>1 DEF Copies, From
  <2>. QED
    BY <1>5, <2>1, <2>3, <2>4 DEF Seen
<1>6. ASSUME Follows
      PROVE  Seen(Renewal)'
  <2>1. UNCHANGED <<watch, tip>> /\ net' = Merge(copy, net) /\ copy # Absent
    BY <1>6 DEF Follows, storeVars
  <2>2. Renewal \in net.entries
    BY <2>1, MergeIs DEF TypeOK, Copies
  <2>. QED
    BY <1>2, <2>1, <2>2
<1>7. Hears \/ Joins \/ Leaves \/ Opens \/ Loses \/ Tick => UNCHANGED <<watch, tip, net>>
  BY DEF Hears, Joins, Leaves, Opens, Loses, Tick, nodeVars, storeVars
<1>. QED
  BY <1>2, <1>3, <1>4, <1>5, <1>6, <1>7, Steps

-----------------------------------------------------------------------------
(* What the worker promises *)

\* Nothing is awaited or sent at first.
LEMMA InitSInv == Init => SInv
<1>. SUFFICES ASSUME Init
              PROVE  SInv
  OBVIOUS
<1>1. OnWay = {}
  BY DEF Init, OnWay
<1>2. TypeOK
  <2>1. /\ net \in Inbox /\ copy \in Inbox /\ replies \in Seq(Reply)
        /\ following = FALSE /\ up = FALSE
    BY SaidTypes, EmptySeq DEF Init
  <2>2. /\ tip \in Nat /\ dated \in [Request -> Nat \cup {NotSent}] /\ unreadable \subseteq Request
        /\ rearm \in Nat /\ expiry \in Nat /\ signed \in Nat /\ handled \subseteq Request
        /\ answered \subseteq Request /\ awaited \subseteq Request
    BY ConstantTypes DEF Init
  <2>3. watch = [on |-> TRUE, due |-> Lag + Life] /\ Lag + Life \in Nat
    BY ConstantTypes DEF Init
  <2>4. watch \in [on : BOOLEAN, due : Nat]
    BY <2>3
  <2>. QED
    BY <2>1, <2>2, <2>4 DEF TypeOK
<1>. QED
  BY <1>1, <1>2 DEF Init, SInv, Copies, From, Empty, Caught, Timed, Waits, Renews

\* Every step keeps the invariant.
LEMMA StepSInv == SInv /\ [Next]_vars => SInv'
  BY StepTypes, StepCopies, StepCaught, StepTimed, StepWaits, StepRenews DEF SInv

\* What other peers held when the bridge armed its hold, on connecting or on opening an
\* inbox its node had lost (arm_floor_hold), the floor passes only after the bridge has
\* come to it.
THEOREM AwaitedIsComeTo == Spec => []NothingAwaitedIsDropped
<1>1. SInv => NothingAwaitedIsDropped
  BY DEF SInv, Waits, NothingAwaitedIsDropped
<1>. QED
  BY <1>1, InitSInv, StepSInv, PTL DEF Spec

\* No pass ends a watch (expire_watches) while what renews it waits in the inbox, though
\* the copy it reads is another.
THEOREM RenewalsComeFirst == Spec => RenewalsAreHeeded
<1>1. ASSUME SInv, [Next]_vars, watch.on, ~watch'.on
      PROVE  Renewal \in answered' \/ Renewal \notin net.entries \/ PassedBy(signed', Renewal)
  <2>. SUFFICES ASSUME Renewal \notin answered', Renewal \in net.entries,
                       ~PassedBy(signed', Renewal)
                PROVE  FALSE
    OBVIOUS
  <2>1. PICK s \in Inbox : Passes(s)
    <3>1. Hears \/ Joins \/ Leaves \/ Opens \/ Follows \/ Loses \/ Mine \/ Tick
             \/ (\E r \in Request : Send(r)) => watch' = watch
      BY DEF Hears, Joins, Leaves, Opens, Follows, Loses, Mine, Tick, Send, storeVars
    <3>. QED
      BY <1>1, <3>1, Steps DEF SInv
  <2>. DEFINE p == Pass(s)
  <2>2. /\ up /\ watch' = WatchAfter(p) /\ Renewal \notin p.new /\ signed' = p.signed
        /\ answered' = answered \cup p.new
    BY <2>1 DEF Passes
  <2>3. PICK m \in OnWay : m.kind = "state" /\ m.inbox = s
    BY <2>1 DEF Passes
  <2>4. p.ends /\ tip >= watch.due /\ Renewal \notin p.deferred
    BY <1>1, <2>2 DEF WatchAfter
  <2>5. ~ExpiryHeld /\ ~StaleView(s, Larger(signed, s.floor))
    BY <1>1, <2>4, PassIs DEF SInv
  <2>6. m.fresh
    BY <1>1, <2>2, <2>3, <2>5 DEF SInv, Caught, TypeOK, ExpiryHeld
  <2>7. ~PassedBy(signed, Renewal)
    <3>1. dated[Renewal] \in Nat /\ signed <= p.signed /\ signed \in Nat /\ p.signed \in Nat
      BY <1>1, PassIs DEF SInv, Copies, TypeOK
    <3>. QED
      BY <2>2, <3>1 DEF PassedBy
  <2>8. Renewal \in s.entries
    BY <1>1, <2>2, <2>3, <2>4, <2>6, <2>7 DEF SInv, Renews, Seen
  <2>9. Renewal \notin unreadable
    BY <2>5, <2>8 DEF StaleView
  <2>10. Renewal \in p.new \cup p.deferred
    BY <1>1, <2>2, <2>3, <2>7, <2>8, <2>9, ComesTo DEF SInv
  <2>. QED
    BY <2>2, <2>4, <2>10
<1>2. SInv /\ [Next]_vars =>
        [watch.on /\ ~watch'.on =>
           Renewal \in answered' \/ Renewal \notin net.entries \/ PassedBy(signed', Renewal)]_vars
  BY <1>1
<1>. QED
  BY <1>2, InitSInv, StepSInv, PTL DEF Spec, RenewalsAreHeeded
=============================================================================
