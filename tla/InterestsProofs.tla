--------------------------- MODULE InterestsProofs ---------------------------
(***************************************************************************)
(* Theorems about watches and those who asked for them (Interests), for    *)
(* every set of Ghost Keys, scripts and requests, and every bound.         *)
(***************************************************************************)
EXTENDS Interests, WellFoundedInduction, TLAPS

LEMMA RequestTypes ==
  ASSUME NEW r \in Request
  PROVE  /\ r.key \in GhostKey /\ r.script \in Script /\ r.watch \in BOOLEAN
         /\ r.made_at \in Nat /\ r.until \in Height /\ r.serial \in Serial
         /\ r.signer \in WatchKey /\ r.expires \in Height /\ r.revoke \in Serial
         /\ r.observed \in BOOLEAN /\ r.sent \in Nat
  BY InterestAssumption DEF RequestShape

LEMMA OperatorApart == Operator \notin GhostKey
  BY InterestAssumption

LEMMA Numbers ==
  /\ {Deep, Lifetime, RequestAhead, DelegatedAhead, Memory, Waits, AheadBlocks,
      Window, MaxTime, MaxHeight} \subseteq Nat
  /\ BlockTimes \subseteq Nat /\ NodeTips \subseteq Height /\ MainnetTips \subseteq Height
  /\ AlwaysWatch \subseteq Script /\ Registered \subseteq Script
  BY InterestAssumption

\* The heights recorded have a highest.
LEMMA NewestExists ==
  ASSUME NEW S \in SUBSET (0..MaxHeight), S # {}
  PROVE  \E h \in S : \A g \in S : g <= h
<1>. DEFINE Below == {n \in Nat : \A g \in S : g <= n}
<1>1. MaxHeight \in Below
  BY Numbers
<1>2. PICK n \in Below : \A m \in Below : n <= m
  <2>1. PICK n \in Below : \A m \in Below : ~ (<<m, n>> \in OpToRel(<, Nat))
    BY <1>1, NatLessThanWellFounded, WFMin, Below \subseteq Nat
  <2>2. \A m \in Below : ~ (m < n)
    BY <2>1 DEF OpToRel
  <2>. QED
    BY <2>2
<1>. QED
  <2>1. CASE n \in S
    BY <2>1, <1>2
  <2>2. CASE n \notin S
    <3>1. PICK g \in S : TRUE
      OBVIOUS
    <3>2. g < n /\ g \in Nat /\ n \in Nat
      BY <2>2, <3>1, Numbers, <1>2
    <3>3. n - 1 \in Below
      BY <2>2, <3>2, <1>2, Numbers
    <3>. QED
      BY <3>3, <3>2, <1>2
  <2>. QED
    BY <2>1, <2>2

LEMMA NewestTypes ==
  ASSUME TypeOK
  PROVE  NewestBlock \in Height /\ NewestTime \in Nat \cup {None}
<1>1. CASE DOMAIN blocks = {}
  BY <1>1 DEF NewestBlock, NewestTime, Height
<1>2. CASE DOMAIN blocks # {}
  <2>1. NewestBlock \in DOMAIN blocks
    BY <1>2, NewestExists DEF TypeOK, NewestBlock
  <2>. QED
    BY <1>2, <2>1 DEF TypeOK, NewestTime, Height
<1>. QED
  BY <1>1, <1>2

-----------------------------------------------------------------------------
(* Types *)

Rows == [Requester -> [Script -> Row]]

LEMMA LowerType == ASSUME NEW a \in Nat, NEW b \in Nat PROVE LowerOf(a, b) \in Nat
  BY DEF LowerOf

LEMMA HigherType ==
  \A a, b \in Height : HigherOf(a, b) \in Height /\ a <= HigherOf(a, b) /\ b <= HigherOf(a, b)
  BY DEF HigherOf, Height, None

LEMMA NoRowType == NoRow \in Row
  BY DEF NoRow, Row, Height, Serial

LEMMA OperatorRowType ==
  ASSUME NEW I \in Rows, NEW W, NEW s \in Script, NEW at \in Nat
  PROVE  WithOperator(I, W, s, at) \in Rows
  BY NoRowType DEF WithOperator, Rows, Row, Requester, NoRow, Height, Serial, None

LEMMA WatchType ==
  ASSUME NEW I \in Rows, NEW W, NEW g \in GhostKey, NEW s \in Script, NEW row \in Row,
         row.recorded_ms \in Nat
  PROVE  AfterWatch(I, W, g, s, row) \in Rows
<1>. DEFINE J == IF Running(I[g][s]) THEN I ELSE WithOperator(I, W, s, row.recorded_ms)
<1>1. J \in Rows
  BY OperatorRowType
<1>2. I[g][s] \in Row /\ I[g][s].until \in Height /\ row.until \in Height
  BY DEF Rows, Row, Requester
<1>3. HigherOf(I[g][s].until, row.until) \in Height
  BY <1>2, HigherType
<1>4. [row EXCEPT !.until = HeldThrough(I[g][s], row.until)] \in Row
  BY <1>2, <1>3 DEF HeldThrough, Row
<1>5. [I EXCEPT ![g][s].until = IF Running(I[g][s]) THEN HigherOf(@, row.until) ELSE @] \in Rows
  BY <1>2, <1>3 DEF Rows, Row, Requester
<1>6. [J EXCEPT ![g][s] = [row EXCEPT !.until = HeldThrough(I[g][s], row.until)]] \in Rows
  BY <1>1, <1>4 DEF Rows, Requester
<1>. QED
  BY <1>5, <1>6 DEF AfterWatch

LEMMA UnwatchType ==
  ASSUME NEW I \in Rows, NEW g \in GhostKey, NEW s \in Script, NEW row \in Row
  PROVE  AfterUnwatch(I, g, s, row) \in Rows
  BY DEF AfterUnwatch, Rows, Requester

LEMMA RevokingType ==
  ASSUME NEW I \in Rows, NEW g \in GhostKey, NEW through \in Serial,
         NEW made_at \in Nat, NEW now \in Nat
  PROVE  AfterRevoking(I, g, through, made_at, now) \in Rows
<1>1. \A s \in Script : I[g][s] \in Row
  BY DEF Rows, Requester
<1>2. \A row \in Row : Withdrawn(row, made_at, now) \in Row
  BY DEF Withdrawn, Row, LowerOf, Height, None
<1>. QED
  BY <1>1, <1>2 DEF AfterRevoking, Rows, Requester

LEMMA InitType == Init => TypeOK
  BY NoRowType, Numbers
  DEF Init, TypeOK, NoDelegation, Idle, PassShape, Height, Serial, Unseen

\* The row a request writes.
LEMMA RequestRowType ==
  ASSUME TypeOK, NEW r \in Request, NEW tip \in NodeTips, pass.step = "reading"
  PROVE  /\ RowOf(r, tip) \in Row
         /\ RowOf(r, tip).recorded_ms \in Nat /\ RowOf(r, tip).request_ms \in Nat
         /\ ReadTime \in Nat
<1>1. pass.now \in Nat
  BY DEF TypeOK, PassShape, Idle
<1>2. RequestTime(r) \in Nat
  BY <1>1, RequestTypes, Numbers DEF RequestTime, DateAt, LowerOf
<1>3. ReadTime \in Nat
  BY <1>1, NewestTypes DEF ReadTime, HigherOf, None
<1>4. HeldTo(r, tip) \in Height
  <2>. DEFINE reference == HigherOf(tip, HigherOf(scanned, NewestBlock))
  <2>1. scanned \in Height /\ NewestBlock \in Height /\ tip \in Height
    BY NewestTypes, Numbers DEF TypeOK
  <2>2. reference \in Height
    BY <2>1, HigherType
  <2>3. r.until \in Height /\ AheadBlocks \in Nat
    BY RequestTypes, Numbers
  <2>. QED
    BY <2>2, <2>3 DEF HeldTo, LowerOf, Height, None
<1>. QED
  BY <1>1, <1>2, <1>3, <1>4, RequestTypes DEF RowOf, Row, Height

LEMMA RevokesType ==
  ASSUME NEW r \in Request, NEW mainnet \in MainnetTips
  PROVE  RevokesThrough(r, mainnet) \in Serial
  BY RequestTypes DEF RevokesThrough, Serial

LEMMA DelegationsType ==
  ASSUME TypeOK, NEW r \in Request, NEW mainnet \in MainnetTips
  PROVE  DelegationsAfter(r, mainnet)
           \in [GhostKey -> [revoked : Serial, newest : Serial, key : WatchKey \cup {None}]]
<1>1. delegations[r.key] \in [revoked : Serial, newest : Serial, key : WatchKey \cup {None}]
  BY RequestTypes DEF TypeOK
<1>2. HigherOf(delegations[r.key].revoked, RevokesThrough(r, mainnet)) \in Serial
  BY <1>1, RevokesType, HigherType DEF Serial, Height
<1>. QED
  BY <1>1, <1>2, RequestTypes DEF DelegationsAfter, TypeOK

LEMMA PromiseType ==
  ASSUME TypeOK, NEW r \in Request, NEW tip \in NodeTips, pass.step = "reading"
  PROVE  [ms    |-> RowOf(r, tip).request_ms,
          from  |-> DayBegins(RowOf(r, tip).request_ms, HigherOf(pass.now, NewestTime)),
          until |-> IF r.until = None \/ NewestBlock = None THEN None
                    ELSE LowerOf(r.until, NewestBlock + AheadBlocks)] \in Promise
<1>1. RowOf(r, tip).request_ms \in Nat /\ HigherOf(pass.now, NewestTime) \in Nat
  BY RequestRowType DEF ReadTime
<1>2. \A ms, at \in Nat : DayBegins(ms, at) \in Nat
  BY Numbers DEF DayBegins, LowerOf, HigherOf
<1>3. (IF r.until = None \/ NewestBlock = None THEN None
       ELSE LowerOf(r.until, NewestBlock + AheadBlocks)) \in Height
  BY RequestTypes, NewestTypes, Numbers DEF LowerOf, Height, None
<1>. QED
  BY <1>1, <1>2, <1>3 DEF Promise

LEMMA ReadRequestType ==
  ASSUME TypeOK, NEW r \in Request, NEW mainnet \in MainnetTips, NEW tip \in NodeTips,
         ReadRequest(r, mainnet, tip)
  PROVE  TypeOK'
<1>. DEFINE g       == r.key
            s       == r.script
            through == RevokesThrough(r, mainnet)
            I       == AfterRevoking(interests, g, through, r.made_at, pass.now)
            W       == watched \ Stopped(interests, I)
            row     == RowOf(r, tip)
            watches == Honoured(r, mainnet) /\ r.watch
            ends    == Honoured(r, mainnet) /\ ~r.watch
            refused == Newer(I[g][s], row.request_ms, TRUE) /\ OverCap(I, g, s)
            J       == IF watches THEN AfterWatch(I, W, g, s, row)
                       ELSE IF ends THEN AfterUnwatch(I, g, s, row) ELSE I
<1>1. g \in GhostKey /\ s \in Script /\ r.made_at \in Nat /\ through \in Serial
  BY RequestTypes, RevokesType
<1>2. pass.step = "reading" /\ pass.now \in Nat
  BY DEF ReadRequest, TypeOK, PassShape, Idle
<1>3. I \in Rows
  BY <1>1, <1>2, RevokingType DEF TypeOK, Rows
<1>4. row \in Row /\ row.recorded_ms \in Nat /\ row.request_ms \in Nat
  BY <1>2, RequestRowType
<1>5. J \in Rows
  BY <1>1, <1>3, <1>4, WatchType, UnwatchType
<1>6. interests' \in [Requester -> [Script -> Row]]
  BY <1>5 DEF ReadRequest, Rows
<1>7. demo' \subseteq watched' /\ watched' \subseteq Script
  <2>1. demo' = demo
    BY DEF ReadRequest, observer
  <2>2. watched' = (W \ Stopped(I, J)) \cup
          {t \in {s} : watches /\ Newer(I[g][s], row.request_ms, TRUE) /\ ~refused}
    BY DEF ReadRequest
  <2>. QED
    BY <1>1, <2>1, <2>2 DEF Stopped, TypeOK
<1>8. read' \subseteq Request
  BY DEF ReadRequest, TypeOK
<1>9. heard' \in [GhostKey -> [Script -> SUBSET Promise]]
  <2>. DEFINE promise ==
         [ms     |-> row.request_ms,
          from   |-> DayBegins(row.request_ms, HigherOf(pass.now, NewestTime)),
          until  |-> IF r.until = None \/ NewestBlock = None THEN None
                     ELSE LowerOf(r.until, NewestBlock + AheadBlocks)]
  <2>1. promise \in Promise
    BY <1>2, PromiseType
  <2>2. heard' = [heard EXCEPT ![g] = [t \in Script |->
           (IF t \in UnderRevoked(interests, g, through) THEN {} ELSE @[t])
             \cup {p \in {promise} : t = s /\ watches /\ ~refused}]]
    BY DEF ReadRequest
  <2>3. heard[g] \in [Script -> SUBSET Promise]
    BY <1>1 DEF TypeOK
  <2>. HIDE DEF promise, watches, refused
  <2>4. [t \in Script |->
           (IF t \in UnderRevoked(interests, g, through) THEN {} ELSE heard[g][t])
             \cup {p \in {promise} : t = s /\ watches /\ ~refused}] \in [Script -> SUBSET Promise]
    BY <2>1, <2>3
  <2>. QED
    BY <2>2, <2>4, <1>1 DEF TypeOK
<1>10. withdrawn' \in [GhostKey -> [Script -> Nat \cup {None}]]
  <2>. DEFINE before(t) == IF t \in UnderRevoked(interests, g, through)
                           THEN I[g][t].request_ms ELSE withdrawn[g][t]
              after(t) == IF t = s /\ ends /\ ~Unrecorded(I, g, s)
                          THEN HigherOf(before(t), row.request_ms) ELSE before(t)
  <2>1. ASSUME NEW t \in Script PROVE I[g][t].request_ms \in Nat \cup {None}
    BY <1>1, <1>3 DEF Rows, Row, Requester
  <2>2. ASSUME NEW t \in Script PROVE before(t) \in Nat \cup {None}
    BY <1>1, <2>1 DEF TypeOK
  <2>3. ASSUME NEW t \in Script PROVE after(t) \in Nat \cup {None}
    BY <1>4, <2>2, HigherType DEF Height
  <2>4. withdrawn' = [withdrawn EXCEPT ![g] = [t \in Script |-> after(t)]]
    BY <1>1 DEF ReadRequest, TypeOK
  <2>. HIDE DEF after
  <2>. QED
    BY <1>1, <2>3, <2>4 DEF TypeOK
<1>11. delegations' \in [GhostKey -> [revoked : Serial, newest : Serial, key : WatchKey \cup {None}]]
  BY DelegationsType DEF ReadRequest
<1>12. UNCHANGED <<demo, clock, pass, blocks, scanned, payment, fork, reorgs>>
  BY DEF ReadRequest, observer
<1>. QED
  BY <1>6, <1>7, <1>8, <1>9, <1>10, <1>11, <1>12 DEF TypeOK

LEMMA PassActionsType ==
  ASSUME TypeOK
  PROVE  /\ StartPass => TypeOK'
         /\ \A waiting \in SUBSET GhostKey : StartExpiry(waiting) => TypeOK'
         /\ \A g \in GhostKey, s \in Script : EndWatch(g, s) => TypeOK'
         /\ EndPass => TypeOK'
         /\ Tick => TypeOK'
<1>. USE DEF observer, tables, history, Idle
<1>1. ASSUME StartPass PROVE TypeOK'
  <2>1. interests' \in [Requester -> [Script -> Row]]
    <3>. DEFINE kept(g, s) == IF Forgotten(interests[g][s], clock) THEN NoRow
                              ELSE interests[g][s]
    <3>1. ASSUME NEW g \in Requester, NEW s \in Script PROVE kept(g, s) \in Row
      <4>1. interests[g][s] \in Row
        BY DEF TypeOK
      <4>. QED
        BY <4>1, NoRowType
    <3>2. interests' = [g \in Requester |-> [s \in Script |-> kept(g, s)]]
      BY <1>1 DEF StartPass
    <3>. HIDE DEF kept
    <3>. QED
      BY <3>1, <3>2
  <2>2. pass' \in PassShape
    BY <1>1 DEF StartPass, TypeOK, PassShape
  <2>. QED
    BY <1>1, <2>1, <2>2 DEF StartPass, TypeOK
<1>2. ASSUME NEW waiting \in SUBSET GhostKey, StartExpiry(waiting) PROVE TypeOK'
  <2>1. scanned \in Nat /\ Deciding \in Nat /\ blocks[Deciding] \in Nat /\ pass.now \in Nat
    BY <1>2, Numbers DEF StartExpiry, TypeOK, PassShape, Height, None
  <2>2. pass' \in PassShape
    BY <1>2, <2>1 DEF StartExpiry, PassShape
  <2>. QED
    BY <1>2, <2>2 DEF StartExpiry, TypeOK
<1>3. ASSUME NEW g \in GhostKey, NEW s \in Script, EndWatch(g, s) PROVE TypeOK'
  <2>1. pass.now \in Nat /\ pass' \in PassShape
    <3>1. pass \in [step : {"ending"}, now : Nat, scanned : Nat, at : Nat, dated : Nat,
                    todo : SUBSET (GhostKey \X Script)]
      BY <1>3 DEF EndWatch, TypeOK, PassShape
    <3>2. pass' = [pass EXCEPT !.todo = @ \ {<<g, s>>}]
      BY <1>3 DEF EndWatch
    <3>. HIDE DEF Idle
    <3>. QED
      BY <3>1, <3>2 DEF PassShape
  <2>2. interests' \in [Requester -> [Script -> Row]]
    <3>1. g \in Requester /\ interests[g] \in [Script -> Row] /\ interests[g][s] \in Row
      BY DEF TypeOK, Requester
    <3>2. [interests[g][s] EXCEPT !.watching = FALSE, !.recorded_ms = pass.now] \in Row
      BY <2>1, <3>1 DEF Row
    <3>3. interests' = [interests EXCEPT ![g] =
            [interests[g] EXCEPT ![s] =
               [interests[g][s] EXCEPT !.watching = FALSE, !.recorded_ms = pass.now]]]
      BY <1>3, <3>1 DEF EndWatch, TypeOK
    <3>. QED
      BY <3>1, <3>2, <3>3 DEF TypeOK
  <2>3. demo' \subseteq watched' /\ watched' \subseteq Script
    BY <1>3 DEF EndWatch, TypeOK, Stopped
  <2>4. heard' \in [GhostKey -> [Script -> SUBSET Promise]]
    BY <1>3 DEF EndWatch, TypeOK
  <2>5. withdrawn' \in [GhostKey -> [Script -> Nat \cup {None}]]
    <3>1. interests[g][s].request_ms \in Nat \cup {None} /\ withdrawn[g][s] \in Nat \cup {None}
      BY DEF TypeOK, Row, Requester
    <3>. QED
      BY <1>3, <3>1, HigherType DEF EndWatch, TypeOK, Height
  <2>. QED
    BY <1>3, <2>1, <2>2, <2>3, <2>4, <2>5 DEF EndWatch, TypeOK
<1>4. ASSUME EndPass PROVE TypeOK'
  BY <1>4 DEF EndPass, TypeOK, PassShape
<1>5. ASSUME Tick PROVE TypeOK'
  BY <1>5 DEF Tick, TypeOK
<1>. QED
  BY <1>1, <1>2, <1>3, <1>4, <1>5

LEMMA ObserverActionsType ==
  ASSUME TypeOK
  PROVE  /\ \A h \in 0..MaxHeight, time \in BlockTimes, P \in SUBSET PaidTo :
              ScanBlock(h, time, P) => TypeOK'
         /\ \A h \in DOMAIN blocks : Commit(h) => TypeOK'
         /\ \A f \in DOMAIN blocks : GoBack(f) => TypeOK'
         /\ ForgetBlocksAboveFork => TypeOK'
         /\ RewindToFork => TypeOK'
         /\ \A from \in DOMAIN blocks \cup {scanned}, L \in SUBSET AlwaysWatch :
              Restart(from, L) => TypeOK'
<1>. USE DEF observer, tables, history
<1>1. ASSUME NEW h \in 0..MaxHeight, NEW time \in BlockTimes, NEW P \in SUBSET PaidTo,
             ScanBlock(h, time, P)
      PROVE  TypeOK'
  <2>1. DOMAIN blocks' \subseteq 0..MaxHeight /\ \A x \in DOMAIN blocks' : blocks'[x] \in Nat
    BY <1>1, Numbers DEF ScanBlock, TypeOK
  <2>2. payment' \in [Script -> Height \cup {InDoubt}]
    BY <1>1, Numbers DEF ScanBlock, TypeOK, Height
  <2>. QED
    BY <1>1, <2>1, <2>2 DEF ScanBlock, TypeOK
<1>2. ASSUME NEW h \in DOMAIN blocks, Commit(h) PROVE TypeOK'
  BY <1>2, Numbers DEF Commit, TypeOK, Height
<1>3. ASSUME NEW f \in DOMAIN blocks, GoBack(f) PROVE TypeOK'
  BY <1>3, Numbers DEF GoBack, TypeOK, Height
<1>4. ASSUME ForgetBlocksAboveFork PROVE TypeOK'
  BY <1>4 DEF ForgetBlocksAboveFork, TypeOK
<1>5. ASSUME RewindToFork PROVE TypeOK'
  BY <1>5 DEF RewindToFork, TypeOK, Height
<1>6. ASSUME NEW from \in DOMAIN blocks \cup {scanned}, NEW L \in SUBSET AlwaysWatch,
             Restart(from, L)
      PROVE  TypeOK'
  BY <1>6, Numbers DEF Restart, TypeOK, Height, PassShape
<1>. QED
  BY <1>1, <1>2, <1>3, <1>4, <1>5, <1>6

LEMMA StepType ==
  ASSUME TypeOK, [Next]_vars
  PROVE  TypeOK'
<1>1. CASE Next
  BY <1>1, ReadRequestType, PassActionsType, ObserverActionsType DEF Next
<1>2. CASE UNCHANGED vars
  BY <1>2 DEF vars, tables, observer, history, TypeOK
<1>. QED
  BY <1>1, <1>2

\* Every row, promise and pass is of its type: no date, height or serial that a
\* request, a renewal or a revocation leaves behind is out of range.
THEOREM TypeCorrect == Spec => []TypeOK
  BY InitType, StepType, PTL DEF Spec

-----------------------------------------------------------------------------
(* What becomes of a row *)

\* Of a row, what a renewed height leaves alone.
SameRequest(a, b) ==
  a.watching = b.watching /\ a.request_ms = b.request_ms /\ a.serial = b.serial

\* A request writes the row of its own Ghost Key and script, and no other
\* Ghost Key's.
LEMMA WatchWrites ==
  ASSUME NEW I \in Rows, NEW W, NEW g \in GhostKey, NEW s \in Script, NEW row \in Row,
         row.recorded_ms \in Nat, NEW k \in GhostKey, NEW t \in Script
  PROVE  \/ SameRequest(AfterWatch(I, W, g, s, row)[k][t], I[k][t])
         \/ /\ k = g /\ t = s
            /\ SameRequest(AfterWatch(I, W, g, s, row)[k][t], row)
<1>. DEFINE J == IF Running(I[g][s]) THEN I ELSE WithOperator(I, W, s, row.recorded_ms)
            until == HeldThrough(I[g][s], row.until)
            raised == IF Running(I[g][s]) THEN HigherOf(I[g][s].until, row.until)
                      ELSE I[g][s].until
<1>1. J \in Rows /\ J[k] = I[k]
  BY OperatorRowType, OperatorApart DEF WithOperator, Rows, Requester
<1>2. I[k] \in [Script -> Row] /\ I[k][t] \in Row /\ I[g] \in [Script -> Row]
      /\ k \in Requester /\ g \in Requester
  BY DEF Rows, Requester
<1>3. SameRequest([I EXCEPT ![g][s].until = raised][k][t], I[k][t])
  <2>. HIDE DEF raised
  <2>1. CASE k = g /\ t = s
    <3>1. [I EXCEPT ![g][s].until = raised][k][t] = [I[k][t] EXCEPT !.until = raised]
      BY <1>2, <2>1 DEF Rows
    <3>. QED
      BY <1>2, <3>1 DEF SameRequest, Row
  <2>2. CASE ~(k = g /\ t = s)
    <3>1. [I EXCEPT ![g][s].until = raised][k][t] = I[k][t]
      BY <1>2, <2>2 DEF Rows
    <3>. QED
      BY <3>1 DEF SameRequest
  <2>. QED
    BY <2>1, <2>2
<1>4. \/ SameRequest([J EXCEPT ![g][s] = [row EXCEPT !.until = until]][k][t], I[k][t])
      \/ /\ k = g /\ t = s
         /\ SameRequest([J EXCEPT ![g][s] = [row EXCEPT !.until = until]][k][t], row)
  <2>. HIDE DEF J, until
  <2>1. CASE k = g /\ t = s
    <3>1. [J EXCEPT ![g][s] = [row EXCEPT !.until = until]][k][t] = [row EXCEPT !.until = until]
      BY <1>1, <1>2, <2>1 DEF Rows
    <3>. QED
      BY <2>1, <3>1 DEF SameRequest, Row
  <2>2. CASE ~(k = g /\ t = s)
    <3>1. [J EXCEPT ![g][s] = [row EXCEPT !.until = until]][k][t] = J[k][t]
      BY <1>1, <1>2, <2>2 DEF Rows
    <3>. QED
      BY <1>1, <3>1 DEF SameRequest
  <2>. QED
    BY <2>1, <2>2
<1>5. AfterWatch(I, W, g, s, row) \in
        {[I EXCEPT ![g][s].until = raised], I, [J EXCEPT ![g][s] = [row EXCEPT !.until = until]]}
  BY DEF AfterWatch
<1>6. SameRequest(I[k][t], I[k][t])
  BY DEF SameRequest
<1>. QED
  BY <1>3, <1>4, <1>5, <1>6

LEMMA UnwatchWrites ==
  ASSUME NEW I \in Rows, NEW g \in GhostKey, NEW s \in Script, NEW row \in Row,
         NEW k \in GhostKey, NEW t \in Script
  PROVE  \/ SameRequest(AfterUnwatch(I, g, s, row)[k][t], I[k][t])
         \/ /\ k = g /\ t = s
            /\ SameRequest(AfterUnwatch(I, g, s, row)[k][t], row)
<1>1. k \in Requester /\ I[k] \in [Script -> Row]
  BY DEF Rows, Requester
<1>2. [I EXCEPT ![g][s] = row][k][t] = IF k = g /\ t = s THEN row ELSE I[k][t]
  BY <1>1 DEF Rows
<1>. QED
  BY <1>2 DEF AfterUnwatch, SameRequest

LEMMA RevokingWrites ==
  ASSUME NEW I \in Rows, NEW g \in GhostKey, NEW through, NEW made_at, NEW now,
         NEW k \in GhostKey, NEW t \in Script
  PROVE  AfterRevoking(I, g, through, made_at, now)[k][t] =
           IF k = g /\ t \in UnderRevoked(I, g, through)
           THEN Withdrawn(I[k][t], made_at, now) ELSE I[k][t]
  BY DEF AfterRevoking, Rows, Requester

-----------------------------------------------------------------------------
(* What a revoked watch key recorded *)

\* A row written under a delegation revoked through a height has ended, and a
\* request of its Ghost Key that revoked it is dated as late.
EndedBy(g, row, requests) ==
  /\ ~Running(row)
  /\ \E q \in requests : /\ q.key = g /\ ~Delegated(q)
                         /\ row.serial <= q.revoke /\ row.request_ms <= q.made_at

LEMMA RevokedRows ==
  RevokedStayOut <=>
    \A g \in GhostKey, s \in Script :
      interests[g][s].serial # None /\ interests[g][s].serial <= delegations[g].revoked
        => EndedBy(g, interests[g][s], read)
  BY DEF RevokedStayOut, UnderRevoked, EndedBy

LEMMA SameRowEnded ==
  ASSUME NEW g, NEW a, NEW b, NEW R, NEW Q, SameRequest(a, b), R \subseteq Q, EndedBy(g, b, R)
  PROVE  EndedBy(g, a, Q)
  BY DEF SameRequest, EndedBy, Running

LEMMA ReadRequestRevokes ==
  ASSUME TypeOK, RevokedStayOut, NEW r \in Request, NEW mainnet \in MainnetTips,
         NEW tip \in NodeTips, ReadRequest(r, mainnet, tip)
  PROVE  RevokedStayOut'
<1>. DEFINE g       == r.key
            s       == r.script
            through == RevokesThrough(r, mainnet)
            I       == AfterRevoking(interests, g, through, r.made_at, pass.now)
            W       == watched \ Stopped(interests, I)
            row     == RowOf(r, tip)
            watches == Honoured(r, mainnet) /\ r.watch
            ends    == Honoured(r, mainnet) /\ ~r.watch
            J       == IF watches THEN AfterWatch(I, W, g, s, row)
                       ELSE IF ends THEN AfterUnwatch(I, g, s, row) ELSE I
<1>1. g \in GhostKey /\ s \in Script /\ r.made_at \in Nat /\ through \in Serial /\ r.serial \in Serial
  BY RequestTypes, RevokesType
<1>2. pass.step = "reading" /\ pass.now \in Nat
  BY DEF ReadRequest, TypeOK, PassShape, Idle
<1>3. I \in Rows /\ interests \in Rows
  BY <1>1, <1>2, RevokingType DEF TypeOK, Rows
<1>4. row \in Row /\ row.recorded_ms \in Nat /\ row.serial = r.serial
  BY <1>2, RequestRowType DEF RowOf
<1>5. interests' = J /\ read' = read \cup {r} /\ delegations' = DelegationsAfter(r, mainnet)
      /\ (r.serial # None => ~(r.serial <= delegations[g].revoked))
  BY DEF ReadRequest, LeftUnread, IsRevoked, Delegated
<1>6. through # None => ~Delegated(r) /\ r.revoke = through /\ through > delegations[g].revoked
  BY DEF RevokesThrough
<1>7. SUFFICES ASSUME NEW k \in GhostKey, NEW t \in Script,
                      interests'[k][t].serial # None,
                      interests'[k][t].serial <= delegations'[k].revoked
               PROVE  EndedBy(k, interests'[k][t], read')
  BY DEF RevokedStayOut, UnderRevoked, EndedBy
<1>8. delegations[k].revoked \in Serial /\ delegations[g].revoked \in Serial
  BY <1>1 DEF TypeOK
<1>9. delegations'[k].revoked = IF k = g THEN HigherOf(delegations[g].revoked, through)
                                ELSE delegations[k].revoked
  BY <1>1, <1>5 DEF DelegationsAfter, TypeOK
<1>10. interests[k][t] \in Row /\ I[k][t] \in Row
  BY <1>3 DEF Rows, Requester
\* A row of before, revoked or left alone.
<1>11. I[k][t].serial # None /\ I[k][t].serial <= delegations'[k].revoked
         => EndedBy(k, I[k][t], read')
  <2>. HAVE I[k][t].serial # None /\ I[k][t].serial <= delegations'[k].revoked
  <2>1. CASE k = g /\ t \in UnderRevoked(interests, g, through)
    <3>1. I[k][t] = Withdrawn(interests[k][t], r.made_at, pass.now)
      BY <1>1, <1>3, <2>1, RevokingWrites
    <3>2. interests[k][t].serial # None /\ interests[k][t].serial <= through
      BY <2>1 DEF UnderRevoked
    <3>3. through # None
      BY <1>1, <1>10, <3>2 DEF Row, Serial, None
    <3>4. I[k][t].serial = interests[k][t].serial /\ ~Running(I[k][t])
          /\ I[k][t].request_ms <= r.made_at
      BY <1>1, <1>10, <3>1 DEF Withdrawn, Row, Running, LowerOf, None
    <3>. QED
      BY <1>5, <1>6, <2>1, <3>2, <3>3, <3>4 DEF EndedBy
  <2>2. CASE ~(k = g /\ t \in UnderRevoked(interests, g, through))
    <3>1. I[k][t] = interests[k][t]
      BY <1>1, <1>3, <2>2, RevokingWrites
    <3>2. interests[k][t].serial <= delegations[k].revoked
      <4>1. CASE k # g
        BY <1>9, <3>1, <4>1
      <4>2. CASE k = g
        <5>1. ~(interests[k][t].serial <= through)
          BY <2>2, <3>1, <4>2 DEF UnderRevoked
        <5>. QED
          BY <1>8, <1>9, <3>1, <4>2, <5>1 DEF HigherOf
      <4>. QED
        BY <4>1, <4>2
    <3>3. EndedBy(k, interests[k][t], read)
      BY <3>1, <3>2, RevokedRows
    <3>. QED
      BY <1>5, <3>1, <3>3 DEF EndedBy
  <2>. QED
    BY <2>1, <2>2
<1>12. \/ SameRequest(J[k][t], I[k][t])
       \/ k = g /\ t = s /\ (watches \/ ends) /\ SameRequest(J[k][t], row)
  <2>1. CASE watches
    BY <1>1, <1>3, <1>4, <2>1, WatchWrites
  <2>2. CASE ends
    BY <1>1, <1>3, <1>4, <2>2, UnwatchWrites
  <2>3. CASE ~watches /\ ~ends
    BY <2>3 DEF SameRequest
  <2>. QED
    BY <2>1, <2>2, <2>3
<1>13. CASE SameRequest(J[k][t], I[k][t])
  BY <1>5, <1>7, <1>11, <1>13 DEF SameRequest, EndedBy, Running
<1>14. CASE k = g /\ SameRequest(J[k][t], row)
  \* A request under a delegation, which revokes nothing and is not revoked.
  <2>1. J[k][t].serial = r.serial /\ r.serial # None
    BY <1>4, <1>5, <1>7, <1>14 DEF SameRequest
  <2>2. through = None
    BY <1>6, <2>1 DEF Delegated
  <2>3. delegations'[k].revoked = delegations[g].revoked
    BY <1>8, <1>9, <1>14, <2>2 DEF HigherOf, Serial, None
  <2>. QED
    BY <1>5, <1>7, <2>1, <2>3
<1>. QED
  BY <1>12, <1>13, <1>14

LEMMA StepRevokes ==
  ASSUME TypeOK, RevokedStayOut, [Next]_vars
  PROVE  RevokedStayOut'
<1>. USE DEF tables, observer, history
<1>1. ASSUME StartPass PROVE RevokedStayOut'
  <2>1. ASSUME NEW g \in GhostKey, NEW s \in Script
        PROVE  interests'[g][s] = NoRow \/ interests'[g][s] = interests[g][s]
    BY <1>1 DEF StartPass, Requester
  <2>2. read' = read /\ delegations' = delegations
    BY <1>1 DEF StartPass
  <2>. QED
    BY <2>1, <2>2 DEF RevokedStayOut, UnderRevoked, NoRow
<1>2. ASSUME NEW k \in GhostKey, NEW t \in Script, EndWatch(k, t) PROVE RevokedStayOut'
  <2>1. ASSUME NEW g \in GhostKey, NEW s \in Script
        PROVE  /\ interests'[g][s].serial = interests[g][s].serial
               /\ interests'[g][s].request_ms = interests[g][s].request_ms
               /\ Running(interests'[g][s]) => Running(interests[g][s])
    <3>1. g \in Requester /\ interests[g] \in [Script -> Row] /\ interests[g][s] \in Row
          /\ k \in Requester
      BY DEF TypeOK, Requester
    <3>2. interests'[g][s] = IF g = k /\ s = t
            THEN [interests[g][s] EXCEPT !.watching = FALSE, !.recorded_ms = pass.now]
            ELSE interests[g][s]
      BY <1>2, <3>1 DEF EndWatch, TypeOK
    <3>. QED
      BY <3>1, <3>2 DEF Row, Running
  <2>2. read' = read /\ delegations' = delegations
    BY <1>2 DEF EndWatch
  <2>. QED
    BY <2>1, <2>2 DEF RevokedStayOut, UnderRevoked
<1>3. CASE UNCHANGED <<interests, delegations, read>>
  BY <1>3 DEF RevokedStayOut, UnderRevoked
<1>4. \/ \E r \in Request, mainnet \in MainnetTips, tip \in NodeTips : ReadRequest(r, mainnet, tip)
      \/ StartPass
      \/ \E g \in GhostKey, s \in Script : EndWatch(g, s)
      \/ UNCHANGED <<interests, delegations, read>>
  BY DEF Next, vars, StartExpiry, EndPass, Tick, ScanBlock, Commit, GoBack,
         ForgetBlocksAboveFork, RewindToFork, Restart
<1>. QED
  BY <1>1, <1>2, <1>3, <1>4, ReadRequestRevokes

\* Whatever the order in which requests are read, and however far ahead a watch
\* key dates its own: once its Ghost Key has revoked it, nothing it recorded
\* runs, and its Ghost Key's next request is newer.
THEOREM RevokedKeepNothing == Spec => []RevokedStayOut
<1>1. Init => RevokedStayOut
  BY DEF Init, RevokedStayOut, UnderRevoked, NoRow, Requester
<1>. QED
  BY <1>1, TypeCorrect, StepRevokes, PTL DEF Spec

-----------------------------------------------------------------------------
(* The two tables *)

\* W is the scripts that I has someone want, and those that always are.
Balanced(I, W) ==
  \A s \in Script : s \in W <=> Watchers(I, s) # {} \/ s \in demo \cup Registered

\* The operator's interest never leaves, and is there with any other in a
\* script watched before the inbox was.
OperatorStays(I) ==
  \A s \in Script :
    /\ I[Operator][s] = NoRow \/ Running(I[Operator][s])
    /\ s \in Registered /\ Watchers(I, s) # {} => Running(I[Operator][s])

\* Those who leave take a script off the list only when they were the last.
LEMMA LeavingBalanced ==
  ASSUME NEW I, NEW J, NEW W, Balanced(I, W), OperatorStays(I),
         \A s \in Script : Watchers(J, s) \subseteq Watchers(I, s),
         \A s \in Script : J[Operator][s] = I[Operator][s]
  PROVE  Balanced(J, W \ Stopped(I, J)) /\ OperatorStays(J)
<1>1. OperatorStays(J)
  BY DEF OperatorStays
<1>2. ASSUME NEW s \in Script, s \in Registered, Watchers(I, s) # {}
      PROVE  Watchers(J, s) # {}
  BY <1>2 DEF OperatorStays, Watchers, Requester
<1>3. ASSUME NEW s \in Script
      PROVE  s \in W \ Stopped(I, J) <=> Watchers(J, s) # {} \/ s \in demo \cup Registered
  BY <1>2 DEF Balanced, Stopped
<1>. QED
  BY <1>1, <1>3 DEF Balanced

LEMMA RevokingLeaves ==
  ASSUME NEW I \in Rows, NEW g \in GhostKey, NEW through, NEW made_at, NEW now
  PROVE  \A s \in Script :
           /\ Watchers(AfterRevoking(I, g, through, made_at, now), s) \subseteq Watchers(I, s)
           /\ AfterRevoking(I, g, through, made_at, now)[Operator][s] = I[Operator][s]
<1>. DEFINE J == AfterRevoking(I, g, through, made_at, now)
<1>1. ASSUME NEW s \in Script PROVE J[Operator][s] = I[Operator][s]
  BY OperatorApart DEF AfterRevoking, Rows, Requester
<1>2. ASSUME NEW k \in Requester, NEW s \in Script, Running(J[k][s]) PROVE Running(I[k][s])
  <2>1. CASE k \in GhostKey
    <3>1. J[k][s] = IF k = g /\ s \in UnderRevoked(I, g, through)
                    THEN Withdrawn(I[k][s], made_at, now) ELSE I[k][s]
      BY <2>1, RevokingWrites
    <3>2. I[k][s] \in Row
      BY DEF Rows
    <3>3. ~Running(Withdrawn(I[k][s], made_at, now))
      BY <3>2 DEF Withdrawn, Running, Row
    <3>. QED
      BY <1>2, <3>1, <3>3
  <2>2. CASE k = Operator
    BY <1>1, <1>2, <2>2
  <2>. QED
    BY <2>1, <2>2 DEF Requester
<1>. QED
  BY <1>1, <1>2 DEF Watchers

LEMMA UnwatchLeaves ==
  ASSUME NEW I \in Rows, NEW g \in GhostKey, NEW s \in Script, NEW row \in Row, ~row.watching
  PROVE  \A t \in Script :
           /\ Watchers(AfterUnwatch(I, g, s, row), t) \subseteq Watchers(I, t)
           /\ AfterUnwatch(I, g, s, row)[Operator][t] = I[Operator][t]
<1>. DEFINE J == AfterUnwatch(I, g, s, row)
<1>1. ASSUME NEW k \in Requester, NEW t \in Script
      PROVE  J[k][t] = I[k][t] \/ (k = g /\ J[k][t] = row)
  BY <1>1 DEF AfterUnwatch, Rows
<1>2. ~Running(row) /\ Operator # g /\ Operator \in Requester
  BY OperatorApart DEF Running, Requester
<1>. QED
  BY <1>1, <1>2 DEF Watchers

\* A Watch that counts for nothing but its height.
LEMMA StaleWatchLeaves ==
  ASSUME NEW I \in Rows, NEW W \in SUBSET Script, NEW g \in GhostKey, NEW s \in Script,
         NEW row \in Row, ~Newer(I[g][s], row.request_ms, TRUE) \/ OverCap(I, g, s)
  PROVE  \A t \in Script :
           /\ Watchers(AfterWatch(I, W, g, s, row), t) \subseteq Watchers(I, t)
           /\ AfterWatch(I, W, g, s, row)[Operator][t] = I[Operator][t]
<1>. DEFINE J == AfterWatch(I, W, g, s, row)
            raised == IF Running(I[g][s]) THEN HigherOf(I[g][s].until, row.until)
                      ELSE I[g][s].until
<1>1. J = I \/ J = [I EXCEPT ![g][s].until = raised]
  BY DEF AfterWatch
<1>. HIDE DEF J, raised
<1>2. ASSUME NEW k \in Requester, NEW t \in Script
      PROVE  J[k][t] = I[k][t] \/ (k = g /\ J[k][t] = [I[k][t] EXCEPT !.until = raised])
  BY <1>1, <1>2 DEF Rows
<1>3. ASSUME NEW k \in Requester, NEW t \in Script, Running(J[k][t]) PROVE Running(I[k][t])
  <2>1. I[k][t] \in Row
    BY DEF Rows
  <2>2. [I[k][t] EXCEPT !.until = raised].watching = I[k][t].watching
    BY <2>1 DEF Row
  <2>. QED
    BY <1>2, <1>3, <2>2 DEF Running
<1>4. Operator # g /\ Operator \in Requester
  BY OperatorApart DEF Requester
<1>5. ASSUME NEW t \in Script PROVE J[Operator][t] = I[Operator][t]
  BY <1>2, <1>4
<1>6. ASSUME NEW t \in Script PROVE Watchers(J, t) \subseteq Watchers(I, t)
  BY <1>3 DEF Watchers
<1>. QED
  BY <1>5, <1>6 DEF J

\* A Watch that counts: one more wants its script, and the operator with it
\* where it was watched and wanted by nobody.
LEMMA WatchJoins ==
  ASSUME NEW I \in Rows, NEW W, NEW g \in GhostKey, NEW s \in Script, NEW row \in Row,
         row.watching, row.recorded_ms \in Nat, Balanced(I, W), OperatorStays(I),
         Newer(I[g][s], row.request_ms, TRUE), ~OverCap(I, g, s)
  PROVE  LET J == AfterWatch(I, W, g, s, row)
         IN  Balanced(J, (W \ Stopped(I, J)) \cup {s}) /\ OperatorStays(J)
<1>. DEFINE K == IF Running(I[g][s]) THEN I ELSE WithOperator(I, W, s, row.recorded_ms)
            new == [row EXCEPT !.until = HeldThrough(I[g][s], row.until)]
            J == AfterWatch(I, W, g, s, row)
<1>1. J = [K EXCEPT ![g][s] = new]
  BY DEF AfterWatch
<1>2. K \in Rows
  BY OperatorRowType
<1>3. Running(new)
  BY DEF Running, Row
<1>4. g \in Requester /\ Operator \in Requester /\ Operator # g
  BY OperatorApart DEF Requester
<1>5. K = I \/ (/\ K = WithOperator(I, W, s, row.recorded_ms)
                /\ ~Running(I[g][s]))
  OBVIOUS
<1>6. ASSUME NEW k \in Requester, NEW t \in Script
      PROVE  \/ K[k][t] = I[k][t]
             \/ k = Operator /\ t = s /\ Running(K[k][t]) /\ I[k][t] = NoRow
  <2>1. CASE K = I
    BY <2>1
  <2>2. CASE K = WithOperator(I, W, s, row.recorded_ms)
    <3>. DEFINE op == [NoRow EXCEPT !.watching = TRUE, !.request_ms = 0,
                                    !.recorded_ms = row.recorded_ms]
    <3>1. Running(op)
      BY DEF Running, NoRow
    <3>2. K = I \/ (K = [I EXCEPT ![Operator][s] = op] /\ I[Operator][s] = NoRow)
      BY <2>2 DEF WithOperator
    <3>. HIDE DEF op, K
    <3>. QED
      BY <1>6, <3>1, <3>2 DEF Rows
  <2>. QED
    BY <1>5, <2>1, <2>2
<1>. HIDE DEF K, new, J
<1>7. ASSUME NEW k \in Requester, NEW t \in Script
      PROVE  J[k][t] = IF k = g /\ t = s THEN new ELSE K[k][t]
  BY <1>1, <1>2, <1>7 DEF Rows
<1>8. ASSUME NEW k \in Requester, NEW t \in Script, Running(I[k][t]) PROVE Running(J[k][t])
  BY <1>3, <1>6, <1>7, <1>8 DEF NoRow, Running
<1>9. ASSUME NEW t \in Script, t # s PROVE Watchers(J, t) = Watchers(I, t)
  BY <1>6, <1>7, <1>9 DEF Watchers
<1>10. Running(J[g][s])
  BY <1>3, <1>4, <1>7
<1>11. Watchers(J, s) # {}
  BY <1>4, <1>10 DEF Watchers
<1>12. Stopped(I, J) = {}
  BY <1>9, <1>11 DEF Stopped
<1>13. Balanced(J, (W \ Stopped(I, J)) \cup {s})
  BY <1>9, <1>11, <1>12 DEF Balanced
<1>14. OperatorStays(J)
  <2>1. ASSUME NEW t \in Script
        PROVE  J[Operator][t] = NoRow \/ Running(J[Operator][t])
    BY <1>4, <1>6, <1>7 DEF OperatorStays
  <2>2. ASSUME NEW t \in Script, t \in Registered, Watchers(I, t) # {}
        PROVE  Running(J[Operator][t])
    BY <1>4, <1>8, <2>2 DEF OperatorStays
  <2>3. ASSUME s \in Registered, Watchers(I, s) = {} PROVE Running(J[Operator][s])
    <3>1. s \in W /\ ~Running(I[g][s]) /\ I[Operator][s] = NoRow
      BY <1>4, <2>3 DEF Balanced, Watchers, OperatorStays
    <3>2. K = [I EXCEPT ![Operator][s] =
                 [NoRow EXCEPT !.watching = TRUE, !.request_ms = 0,
                               !.recorded_ms = row.recorded_ms]]
      BY <2>3, <3>1 DEF K, WithOperator
    <3>3. Running([NoRow EXCEPT !.watching = TRUE, !.request_ms = 0,
                                !.recorded_ms = row.recorded_ms])
      BY DEF Running, NoRow
    <3>. QED
      BY <1>4, <1>7, <3>2, <3>3 DEF Rows
  <2>4. ASSUME NEW t \in Script, t \in Registered, Watchers(J, t) # {}
        PROVE  Running(J[Operator][t])
    BY <1>9, <2>2, <2>3, <2>4
  <2>. QED
    BY <2>1, <2>4 DEF OperatorStays
<1>. QED
  BY <1>13, <1>14 DEF J

\* WatchedIffWanted, with what makes it inductive.
TablesAgree == Balanced(interests, watched) /\ OperatorStays(interests)

LEMMA ReadRequestAgrees ==
  ASSUME TypeOK, TablesAgree, NEW r \in Request, NEW mainnet \in MainnetTips,
         NEW tip \in NodeTips, ReadRequest(r, mainnet, tip)
  PROVE  TablesAgree'
<1>. DEFINE g       == r.key
            s       == r.script
            through == RevokesThrough(r, mainnet)
            I       == AfterRevoking(interests, g, through, r.made_at, pass.now)
            W       == watched \ Stopped(interests, I)
            row     == RowOf(r, tip)
            watches == Honoured(r, mainnet) /\ r.watch
            ends    == Honoured(r, mainnet) /\ ~r.watch
            refused == Newer(I[g][s], row.request_ms, TRUE) /\ OverCap(I, g, s)
            counts  == watches /\ Newer(I[g][s], row.request_ms, TRUE) /\ ~refused
            J       == IF watches THEN AfterWatch(I, W, g, s, row)
                       ELSE IF ends THEN AfterUnwatch(I, g, s, row) ELSE I
<1>1. g \in GhostKey /\ s \in Script /\ r.made_at \in Nat /\ through \in Serial
  BY RequestTypes, RevokesType
<1>2. pass.step = "reading" /\ pass.now \in Nat
  BY DEF ReadRequest, TypeOK, PassShape, Idle
<1>3. I \in Rows /\ interests \in Rows
  BY <1>1, <1>2, RevokingType DEF TypeOK, Rows
<1>4. row \in Row /\ row.recorded_ms \in Nat /\ row.watching = r.watch
  BY <1>2, RequestRowType DEF RowOf
<1>5. interests' = J /\ demo' = demo
  BY DEF ReadRequest, observer
<1>6. watched' = (W \ Stopped(I, J)) \cup {t \in {s} : counts}
  BY DEF ReadRequest
<1>7. Balanced(I, W) /\ OperatorStays(I)
  <2>1. \A t \in Script : /\ Watchers(I, t) \subseteq Watchers(interests, t)
                          /\ I[Operator][t] = interests[Operator][t]
    BY <1>1, <1>3, RevokingLeaves
  <2>. HIDE DEF I
  <2>. QED
    BY <2>1, LeavingBalanced DEF TablesAgree
<1>. HIDE DEF I, W, row
<1>8. CASE counts
  <2>1. J = AfterWatch(I, W, g, s, row)
    BY <1>8
  <2>2. Balanced(J, (W \ Stopped(I, J)) \cup {s}) /\ OperatorStays(J)
    BY <1>1, <1>3, <1>4, <1>7, <1>8, <2>1, WatchJoins
  <2>3. watched' = (W \ Stopped(I, J)) \cup {s}
    BY <1>6, <1>8
  <2>. QED
    BY <1>5, <2>2, <2>3 DEF TablesAgree, Balanced, OperatorStays, Watchers
<1>9. CASE ~counts
  <2>1. \A t \in Script : /\ Watchers(J, t) \subseteq Watchers(I, t)
                          /\ J[Operator][t] = I[Operator][t]
    <3>1. CASE watches
      <4>0. W \in SUBSET Script
        BY DEF TypeOK, W
      <4>1. J = AfterWatch(I, W, g, s, row)
        BY <3>1
      <4>2. ~Newer(I[g][s], row.request_ms, TRUE) \/ OverCap(I, g, s)
        BY <1>9, <3>1
      <4>. HIDE DEF J, g, s, watches, ends, through, refused, counts
      <4>3. \A t \in Script :
              /\ Watchers(AfterWatch(I, W, g, s, row), t) \subseteq Watchers(I, t)
              /\ AfterWatch(I, W, g, s, row)[Operator][t] = I[Operator][t]
        BY <1>1, <1>3, <1>4, <4>0, <4>2, StaleWatchLeaves
      <4>. QED
        BY <4>1, <4>3
    <3>2. CASE ends
      <4>1. J = AfterUnwatch(I, g, s, row) /\ ~row.watching
        BY <1>4, <3>2
      <4>. HIDE DEF J
      <4>. QED
        BY <1>1, <1>3, <1>4, <4>1, UnwatchLeaves
    <3>3. CASE ~watches /\ ~ends
      BY <3>3
    <3>. QED
      BY <3>1, <3>2, <3>3
  <2>. HIDE DEF J
  <2>2. Balanced(J, W \ Stopped(I, J)) /\ OperatorStays(J)
    BY <1>7, <2>1, LeavingBalanced
  <2>3. watched' = W \ Stopped(I, J)
    BY <1>6, <1>9
  <2>. QED
    BY <1>5, <2>2, <2>3 DEF TablesAgree, Balanced, OperatorStays, Watchers
<1>. QED
  BY <1>8, <1>9

LEMMA StepAgrees ==
  ASSUME TypeOK, TablesAgree, [Next]_vars
  PROVE  TablesAgree'
<1>. USE DEF tables, observer, history
<1>1. ASSUME StartPass PROVE TablesAgree'
  <2>1. watched' = watched /\ demo' = demo
    BY <1>1 DEF StartPass
  <2>2. ASSUME NEW g \in Requester, NEW s \in Script
        PROVE  interests'[g][s] = interests[g][s] \/
               (interests'[g][s] = NoRow /\ ~Running(interests[g][s]))
    BY <1>1 DEF StartPass, Forgotten
  <2>3. ASSUME NEW s \in Script PROVE Watchers(interests', s) = Watchers(interests, s)
    BY <2>2 DEF Watchers, Running, NoRow
  <2>4. ASSUME NEW s \in Script
        PROVE  /\ interests'[Operator][s] = NoRow \/ Running(interests'[Operator][s])
               /\ Running(interests[Operator][s]) => Running(interests'[Operator][s])
    BY <2>2 DEF TablesAgree, OperatorStays, Requester
  <2>. QED
    BY <2>1, <2>3, <2>4 DEF TablesAgree, Balanced, OperatorStays
<1>2. ASSUME NEW g \in GhostKey, NEW s \in Script, EndWatch(g, s) PROVE TablesAgree'
  <2>1. watched' = watched \ Stopped(interests, interests') /\ demo' = demo
    BY <1>2 DEF EndWatch
  <2>2. ASSUME NEW k \in Requester, NEW t \in Script
        PROVE  /\ Running(interests'[k][t]) => Running(interests[k][t])
               /\ k # g => interests'[k][t] = interests[k][t]
    <3>1. interests[k] \in [Script -> Row] /\ interests[k][t] \in Row /\ g \in Requester
      BY DEF TypeOK, Requester
    <3>2. interests'[k][t] = IF k = g /\ t = s
            THEN [interests[k][t] EXCEPT !.watching = FALSE, !.recorded_ms = pass.now]
            ELSE interests[k][t]
      BY <1>2, <3>1 DEF EndWatch, TypeOK
    <3>. QED
      BY <3>1, <3>2 DEF Row, Running
  <2>3. \A t \in Script : /\ Watchers(interests', t) \subseteq Watchers(interests, t)
                          /\ interests'[Operator][t] = interests[Operator][t]
    BY <2>2, OperatorApart DEF Watchers, Requester
  <2>4. Balanced(interests', watched \ Stopped(interests, interests'))
        /\ OperatorStays(interests')
    BY <2>3, LeavingBalanced DEF TablesAgree
  <2>. QED
    BY <2>1, <2>4 DEF TablesAgree, Balanced, OperatorStays, Watchers
<1>3. ASSUME NEW from, NEW L \in SUBSET AlwaysWatch, Restart(from, L) PROVE TablesAgree'
  BY <1>3 DEF Restart, TablesAgree, Balanced, OperatorStays, Watchers
<1>4. CASE UNCHANGED <<interests, watched, demo>>
  BY <1>4 DEF TablesAgree, Balanced, OperatorStays, Watchers
<1>5. \/ \E r \in Request, mainnet \in MainnetTips, tip \in NodeTips : ReadRequest(r, mainnet, tip)
      \/ StartPass
      \/ \E g \in GhostKey, s \in Script : EndWatch(g, s)
      \/ \E from \in DOMAIN blocks \cup {scanned}, L \in SUBSET AlwaysWatch : Restart(from, L)
      \/ UNCHANGED <<interests, watched, demo>>
  BY DEF Next, vars, StartExpiry, EndPass, Tick, ScanBlock, Commit, GoBack,
         ForgetBlocksAboveFork, RewindToFork
<1>. QED
  BY <1>1, <1>2, <1>3, <1>4, <1>5, ReadRequestAgrees

\* Whoever asks, stops asking, is revoked or runs out, in whatever order: a
\* script is scanned exactly while someone wants it or the operator registered
\* it, though who wants it and what is scanned are two tables.
THEOREM ScannedIffWanted == Spec => []WatchedIffWanted
<1>1. Init => TablesAgree
  BY Numbers DEF Init, TablesAgree, Balanced, OperatorStays, Watchers, Running, NoRow, Requester
<1>2. TablesAgree => WatchedIffWanted
  BY DEF TablesAgree, Balanced, WatchedIffWanted
<1>. QED
  BY <1>1, <1>2, TypeCorrect, StepAgrees, PTL DEF Spec
-----------------------------------------------------------------------------
(* What a row says of the requests read for it *)

\* A row, the promises told its Ghost Key and the newest withdrawal: a watch is
\* dated after the withdrawal, as the newest promise, with its day, and held through the
\* heights of those in force; a withdrawal that is remembered is the newest.
Agrees(row, told, gone) ==
  /\ Running(row) =>
       /\ gone < row.request_ms
       /\ \E p \in told : /\ p.ms = row.request_ms
                         /\ p.from = DayBegins(row.request_ms, row.recorded_ms)
       /\ \A p \in told : p.ms <= row.request_ms
       /\ \A p \in told : gone < p.ms => p.until <= row.until
  /\ ~Running(row) => \A p \in told : p.ms <= gone
  /\ ~Running(row) /\ row # NoRow => row.request_ms = gone

\* A request of g for s that counts as made at ms or later.
From(w, g, s, ms) == w.key = g /\ w.script = s /\ ms <= DateAt(w, w.sent + Waits)

\* A row comes from a request sent before it was recorded; a withdrawal that is
\* forgotten, from one sent so long ago that the older ones cannot be read.
Traced(row, gone, g, s, now) ==
  /\ row # NoRow => \E w \in Request :
       From(w, g, s, row.request_ms) /\ w.sent <= row.recorded_ms /\ w.sent <= now
  /\ row = NoRow /\ gone # None => \E w \in Request :
       From(w, g, s, gone) /\ w.sent + Memory < now

LEMMA DateTypes ==
  ASSUME NEW r \in Request, NEW a \in Nat, NEW b \in Nat, a <= b
  PROVE  DateAt(r, a) \in Nat /\ DateAt(r, a) <= DateAt(r, b)
  BY RequestTypes, Numbers DEF DateAt, LowerOf

\* A request that counts as newer than its row is newer than every withdrawal
\* before it, though the row may be forgotten.
LEMMA NewerThanWithdrawn ==
  ASSUME NEW r \in Request, NEW now \in Nat, r.sent <= now, now <= r.sent + Waits,
         NEW row \in Row, NEW told, NEW gone \in Nat \cup {None}, NEW watch \in BOOLEAN,
         Agrees(row, told, gone), Traced(row, gone, r.key, r.script, now),
         Newer(row, DateAt(r, now), watch)
  PROVE  gone < DateAt(r, now) /\ row.request_ms <= DateAt(r, now)
<1>. DEFINE ms == DateAt(r, now)
<1>1. ms \in Nat /\ row.request_ms \in Nat \cup {None} /\ r.sent \in Nat /\ Waits \in Nat
      /\ Memory \in Nat
  BY DateTypes, RequestTypes, Numbers DEF Row
<1>2. row.request_ms < ms \/ (row.request_ms = ms /\ Running(row))
  BY DEF Newer
<1>3. row.request_ms <= ms
  BY <1>1, <1>2 DEF None
<1>4. CASE row # NoRow
  <2>1. gone < row.request_ms \/ (~Running(row) /\ row.request_ms = gone)
    BY <1>4 DEF Agrees
  <2>. QED
    BY <1>1, <1>2, <1>3, <2>1 DEF None
<1>5. CASE row = NoRow /\ gone = None
  BY <1>1, <1>3, <1>5 DEF None
<1>6. CASE row = NoRow /\ gone # None
  <2>1. PICK w \in Request : From(w, r.key, r.script, gone) /\ w.sent + Memory < now
    BY <1>6 DEF Traced
  <2>2. w.sent \in Nat /\ w.sent + Memory < r.sent + Waits
    BY <1>1, <2>1, RequestTypes
  <2>3. DateAt(w, w.sent + Waits) < DateAt(r, r.sent)
    BY <2>1, <2>2, MemoryAssumption DEF From
  <2>4. DateAt(r, r.sent) <= ms /\ DateAt(r, r.sent) \in Nat
    BY <1>1, DateTypes
  <2>5. DateAt(w, w.sent + Waits) \in Nat
    BY <1>1, <2>2, DateTypes
  <2>6. gone <= DateAt(w, w.sent + Waits)
    BY <2>1 DEF From
  <2>. QED
    BY <1>1, <1>3, <2>3, <2>4, <2>5, <2>6
<1>. QED
  BY <1>4, <1>5, <1>6

\* A row of a script its Ghost Key's request revokes.
LEMMA WithdrawnAgrees ==
  ASSUME NEW row \in Row, row.serial # None, NEW made_at \in Nat, NEW now \in Nat,
         NEW gone, NEW g, NEW s, Traced(row, gone, g, s, now)
  PROVE  LET to == Withdrawn(row, made_at, now)
         IN  Agrees(to, {}, to.request_ms) /\ Traced(to, to.request_ms, g, s, now)
<1>. DEFINE to == Withdrawn(row, made_at, now)
<1>1. row # NoRow
  BY DEF NoRow
<1>2. PICK w \in Request :
        From(w, g, s, row.request_ms) /\ w.sent <= row.recorded_ms /\ w.sent <= now
  BY <1>1 DEF Traced
<1>3. /\ to.watching = FALSE /\ to.serial = row.serial
      /\ to.request_ms = LowerOf(row.request_ms, made_at)
      /\ to.recorded_ms = IF row.watching THEN now ELSE row.recorded_ms
  BY DEF Withdrawn, Row
<1>. HIDE DEF to
<1>4. to # NoRow /\ ~Running(to)
  BY <1>3 DEF NoRow, Running
<1>5. to.request_ms <= row.request_ms
  BY <1>3 DEF LowerOf, Row, None
<1>6. w.sent <= to.recorded_ms
  BY <1>2, <1>3
<1>7. From(w, g, s, to.request_ms)
  <2>1. w.sent \in Nat /\ w.sent + Waits \in Nat
    BY RequestTypes, Numbers
  <2>2. DateAt(w, w.sent + Waits) \in Nat
    BY <2>1, DateTypes
  <2>3. to.request_ms \in Nat \cup {None} /\ row.request_ms \in Nat \cup {None}
    BY <1>3 DEF LowerOf, Row
  <2>. QED
    BY <1>2, <1>5, <2>2, <2>3 DEF From, None
<1>8. Agrees(to, {}, to.request_ms)
  BY <1>4 DEF Agrees
<1>9. Traced(to, to.request_ms, g, s, now)
  BY <1>2, <1>4, <1>6, <1>7 DEF Traced
<1>. QED
  BY <1>8, <1>9 DEF to

\* A request leaves a row of its own date.
LEMMA FreshTraced ==
  ASSUME NEW r \in Request, NEW now \in Nat, r.sent <= now, now <= r.sent + Waits,
         NEW row \in Row, row.request_ms = DateAt(r, now), now <= row.recorded_ms,
         NEW gone
  PROVE  row # NoRow /\ Traced(row, gone, r.key, r.script, now)
<1>1. r.sent \in Nat /\ r.sent + Waits \in Nat
  BY RequestTypes, Numbers
<1>2. DateAt(r, now) <= DateAt(r, r.sent + Waits) /\ DateAt(r, now) \in Nat
  BY <1>1, DateTypes
<1>3. row # NoRow
  BY <1>2 DEF NoRow, None
<1>4. r.sent <= row.recorded_ms
  BY <1>1 DEF Row, None
<1>. QED
  BY <1>2, <1>3, <1>4 DEF Traced, From

\* A Watch that counts.
LEMMA WatchAgrees ==
  ASSUME NEW row \in Row, NEW new \in Row, NEW told \in SUBSET Promise, NEW p \in Promise,
         NEW gone \in Nat \cup {None},
         Agrees(row, told, gone), Running(new), p.ms = new.request_ms,
         p.from = DayBegins(new.request_ms, new.recorded_ms),
         row.request_ms < new.request_ms, gone < new.request_ms,
         p.until <= new.until, Running(row) => row.until <= new.until
  PROVE  Agrees(new, told \cup {p}, gone)
<1>1. \A q \in told : q.ms \in Nat /\ q.until \in Height
  BY DEF Promise
<1>2. row.request_ms \in Nat \cup {None} /\ new.request_ms \in Nat /\ p.ms \in Nat
      /\ row.until \in Height /\ new.until \in Height
  BY DEF Row, Promise
<1>3. ASSUME NEW q \in told PROVE q.ms <= new.request_ms /\ (gone < q.ms => q.until <= new.until)
  <2>1. CASE Running(row)
    <3>1. q.ms <= row.request_ms /\ (gone < q.ms => q.until <= row.until)
      BY <2>1 DEF Agrees
    <3>. QED
      BY <1>1, <1>2, <2>1, <3>1 DEF Height, None
  <2>2. CASE ~Running(row)
    <3>1. q.ms <= gone
      BY <2>2 DEF Agrees
    <3>. QED
      BY <1>1, <1>2, <3>1 DEF None
  <2>. QED
    BY <2>1, <2>2
<1>. QED
  BY <1>2, <1>3 DEF Agrees

\* One that counts for its height only.
LEMMA StaleWatchAgrees ==
  ASSUME NEW row \in Row, NEW new \in Row, NEW told \in SUBSET Promise, NEW p \in Promise,
         NEW gone \in Nat \cup {None}, row # NoRow,
         Agrees(row, told, gone), SameRequest(new, row), new.recorded_ms = row.recorded_ms,
         p.ms <= row.request_ms,
         Running(row) => p.until <= new.until /\ row.until <= new.until
  PROVE  Agrees(new, told \cup {p}, gone)
<1>1. \A q \in told \cup {p} : q.ms \in Nat /\ q.until \in Height
  BY DEF Promise
<1>2. row.until \in Height /\ new.until \in Height
  BY DEF Row
<1>3. Running(new) = Running(row) /\ new.request_ms = row.request_ms
  BY DEF SameRequest, Running
<1>4. CASE Running(row)
  <2>1. ASSUME NEW q \in told \cup {p}, gone < q.ms PROVE q.until <= new.until
    BY <1>1, <1>2, <1>4, <2>1 DEF Agrees, Height, None
  <2>. QED
    BY <1>3, <1>4, <2>1 DEF Agrees
<1>5. CASE ~Running(row)
  BY <1>3, <1>5 DEF Agrees
<1>. QED
  BY <1>4, <1>5

\* A withdrawal that counts, and one that does not.
LEMMA UnwatchAgrees ==
  ASSUME NEW row \in Row, NEW new \in Row, NEW told \in SUBSET Promise,
         NEW gone \in Nat \cup {None}, Agrees(row, told, gone), ~Running(new),
         new.request_ms \in Nat, row.request_ms <= new.request_ms, gone < new.request_ms
  PROVE  Agrees(new, told, HigherOf(gone, new.request_ms))
<1>1. HigherOf(gone, new.request_ms) = new.request_ms
  BY DEF HigherOf, None
<1>2. ASSUME NEW q \in told PROVE q.ms <= new.request_ms
  <2>1. q.ms \in Nat /\ row.request_ms \in Nat \cup {None}
    BY DEF Promise, Row
  <2>2. q.ms <= row.request_ms \/ q.ms <= gone
    BY DEF Agrees
  <2>. QED
    BY <2>1, <2>2 DEF None
<1>. QED
  BY <1>1, <1>2 DEF Agrees

LEMMA StaleUnwatchAgrees ==
  ASSUME NEW row \in Row, NEW told \in SUBSET Promise, NEW gone \in Nat \cup {None},
         NEW ms \in Nat, Agrees(row, told, gone), ~Newer(row, ms, FALSE)
  PROVE  Agrees(row, told, HigherOf(gone, ms)) /\ row # NoRow
<1>1. row.request_ms \in Nat \cup {None}
  BY DEF Row
<1>2. ms <= row.request_ms /\ (Running(row) => ms < row.request_ms)
  BY <1>1 DEF Newer, None
<1>3. row # NoRow
  BY <1>2 DEF NoRow, None
<1>4. CASE Running(row)
  <2>1. HigherOf(gone, ms) < row.request_ms /\ gone <= HigherOf(gone, ms)
        /\ HigherOf(gone, ms) \in Nat
    BY <1>1, <1>2, <1>4 DEF Agrees, HigherOf, None
  <2>2. ASSUME NEW q \in told, HigherOf(gone, ms) < q.ms PROVE gone < q.ms
    BY <2>1, <2>2 DEF Promise, None
  <2>. QED
    BY <1>3, <1>4, <2>1, <2>2 DEF Agrees
<1>5. CASE ~Running(row)
  <2>1. HigherOf(gone, ms) = gone
    BY <1>2, <1>3, <1>5 DEF Agrees, HigherOf
  <2>. QED
    BY <1>3, <2>1
<1>. QED
  BY <1>3, <1>4, <1>5

-----------------------------------------------------------------------------
(* The newest request decides, and heights are held *)

\* What a Watch leaves of the row it is about, full when its Ghost Key's places
\* are taken, and what an Unwatch does.
Rewatched(old, row, full) ==
  IF ~Newer(old, row.request_ms, TRUE)
  THEN [old EXCEPT !.until = IF Running(old) THEN HigherOf(old.until, row.until)
                             ELSE old.until]
  ELSE IF full THEN old
  ELSE [row EXCEPT !.until = HeldThrough(old, row.until)]

Unwatched(old, row, full) ==
  IF Newer(old, row.request_ms, FALSE) /\ ~full THEN row ELSE old

LEMMA WatchRow ==
  ASSUME NEW I \in Rows, NEW W, NEW g \in GhostKey, NEW s \in Script, NEW row \in Row,
         row.recorded_ms \in Nat
  PROVE  \A k \in GhostKey, t \in Script :
           AfterWatch(I, W, g, s, row)[k][t] =
             IF k = g /\ t = s THEN Rewatched(I[g][s], row, OverCap(I, g, s)) ELSE I[k][t]
<1>. DEFINE K      == IF Running(I[g][s]) THEN I ELSE WithOperator(I, W, s, row.recorded_ms)
            until  == HeldThrough(I[g][s], row.until)
            raised == IF Running(I[g][s]) THEN HigherOf(I[g][s].until, row.until)
                      ELSE I[g][s].until
            J      == AfterWatch(I, W, g, s, row)
<1>1. g \in Requester /\ GhostKey \subseteq Requester
  BY DEF Requester
<1>2. K \in Rows /\ \A k \in GhostKey : K[k] = I[k]
  BY OperatorRowType, OperatorApart DEF WithOperator, Rows, Requester
<1>3. J = IF ~Newer(I[g][s], row.request_ms, TRUE)
          THEN [I EXCEPT ![g][s].until = raised]
          ELSE IF OverCap(I, g, s) THEN I
          ELSE [K EXCEPT ![g][s] = [row EXCEPT !.until = until]]
  BY <1>1 DEF AfterWatch, Rows
<1>4. Rewatched(I[g][s], row, OverCap(I, g, s)) =
        IF ~Newer(I[g][s], row.request_ms, TRUE)
        THEN [I[g][s] EXCEPT !.until = raised]
        ELSE IF OverCap(I, g, s) THEN I[g][s] ELSE [row EXCEPT !.until = until]
  BY DEF Rewatched
<1>. HIDE DEF K, until, raised, J
<1>5. ASSUME NEW k \in GhostKey, NEW t \in Script
      PROVE  J[k][t] = IF k = g /\ t = s THEN Rewatched(I[g][s], row, OverCap(I, g, s))
                       ELSE I[k][t]
  <2>1. [I EXCEPT ![g][s].until = raised][k][t] =
          IF k = g /\ t = s THEN [I[g][s] EXCEPT !.until = raised] ELSE I[k][t]
    BY <1>1 DEF Rows
  <2>2. [K EXCEPT ![g][s] = [row EXCEPT !.until = until]][k][t] =
          IF k = g /\ t = s THEN [row EXCEPT !.until = until] ELSE K[k][t]
    BY <1>1, <1>2 DEF Rows
  <2>3. CASE ~Newer(I[g][s], row.request_ms, TRUE)
    BY <1>3, <1>4, <2>1, <2>3
  <2>4. CASE Newer(I[g][s], row.request_ms, TRUE) /\ OverCap(I, g, s)
    BY <1>3, <1>4, <2>4
  <2>5. CASE Newer(I[g][s], row.request_ms, TRUE) /\ ~OverCap(I, g, s)
    <3>1. J = [K EXCEPT ![g][s] = [row EXCEPT !.until = until]]
      BY <1>3, <2>5
    <3>2. Rewatched(I[g][s], row, OverCap(I, g, s)) = [row EXCEPT !.until = until]
      BY <1>4, <2>5
    <3>. QED
      BY <1>2, <2>2, <3>1, <3>2
  <2>. QED
    BY <2>3, <2>4, <2>5
<1>. QED
  BY <1>5 DEF J

LEMMA UnwatchRow ==
  ASSUME NEW I \in Rows, NEW g \in GhostKey, NEW s \in Script, NEW row \in Row
  PROVE  \A k \in GhostKey, t \in Script :
           AfterUnwatch(I, g, s, row)[k][t] =
             IF k = g /\ t = s THEN Unwatched(I[g][s], row, Unrecorded(I, g, s))
             ELSE I[k][t]
<1>1. g \in Requester /\ GhostKey \subseteq Requester
  BY DEF Requester
<1>2. ASSUME NEW k \in GhostKey, NEW t \in Script
      PROVE  [I EXCEPT ![g][s] = row][k][t] = IF k = g /\ t = s THEN row ELSE I[k][t]
  BY <1>1 DEF Rows
<1>3. CASE Newer(I[g][s], row.request_ms, FALSE) /\ ~Unrecorded(I, g, s)
  <2>1. AfterUnwatch(I, g, s, row) = [I EXCEPT ![g][s] = row]
    BY <1>3 DEF AfterUnwatch
  <2>2. Unwatched(I[g][s], row, Unrecorded(I, g, s)) = row
    BY <1>3 DEF Unwatched
  <2>. QED
    BY <1>2, <2>1, <2>2
<1>4. CASE ~(Newer(I[g][s], row.request_ms, FALSE) /\ ~Unrecorded(I, g, s))
  <2>1. AfterUnwatch(I, g, s, row) = I
    BY <1>4 DEF AfterUnwatch
  <2>2. Unwatched(I[g][s], row, Unrecorded(I, g, s)) = I[g][s]
    BY <1>4 DEF Unwatched
  <2>. QED
    BY <2>1, <2>2
<1>. QED
  BY <1>3, <1>4

\* A request is held through the height it was promised.
LEMMA PromisedHeight ==
  ASSUME TypeOK, NEW r \in Request, NEW tip \in NodeTips
  PROVE  (IF r.until = None \/ NewestBlock = None THEN None
          ELSE LowerOf(r.until, NewestBlock + AheadBlocks)) <= HeldTo(r, tip)
<1>. DEFINE known == HigherOf(scanned, NewestBlock)
<1>1. scanned \in Height /\ NewestBlock \in Height /\ tip \in Height /\ r.until \in Height
      /\ AheadBlocks \in Nat
  BY RequestTypes, NewestTypes, Numbers DEF TypeOK
<1>2. known \in Height /\ NewestBlock <= known
  BY <1>1, HigherType
<1>3. HigherOf(tip, known) \in Height /\ NewestBlock <= HigherOf(tip, known)
  <2>. HIDE DEF known
  <2>1. HigherOf(tip, known) \in Height /\ known <= HigherOf(tip, known)
    BY <1>1, <1>2, HigherType
  <2>. QED
    BY <1>1, <1>2, <2>1 DEF Height, None
<1>. HIDE DEF known
<1>4. HeldTo(r, tip) = IF r.until = None \/ HigherOf(tip, known) = None THEN None
                       ELSE LowerOf(r.until, HigherOf(tip, known) + AheadBlocks)
  BY DEF HeldTo, known
<1>. QED
  BY <1>1, <1>3, <1>4 DEF LowerOf, Height, None

PassOfNow ==
  /\ pass # Idle => pass.now = clock
  /\ pass.step = "ending" =>
       /\ pass.at = pass.scanned - HigherOf(Deep - 1, 0)
       /\ \A w \in pass.todo : RanOut(interests[w[1]][w[2]], pass.dated, pass.at)

\* NewestDecides and HeightsHeld, with what makes them inductive.
Told ==
  /\ \A g \in GhostKey, s \in Script :
       /\ Agrees(interests[g][s], heard[g][s], withdrawn[g][s])
       /\ Traced(interests[g][s], withdrawn[g][s], g, s, clock)
  /\ PassOfNow

LEMMA ReadRequestTold ==
  ASSUME TypeOK, Told, NEW r \in Request, NEW mainnet \in MainnetTips,
         NEW tip \in NodeTips, ReadRequest(r, mainnet, tip)
  PROVE  Told'
<1>. DEFINE g       == r.key
            s       == r.script
            through == RevokesThrough(r, mainnet)
            I       == AfterRevoking(interests, g, through, r.made_at, pass.now)
            W       == watched \ Stopped(interests, I)
            row     == RowOf(r, tip)
            watches == Honoured(r, mainnet) /\ r.watch
            ends    == Honoured(r, mainnet) /\ ~r.watch
            refused == Newer(I[g][s], row.request_ms, TRUE) /\ OverCap(I, g, s)
            J       == IF watches THEN AfterWatch(I, W, g, s, row)
                       ELSE IF ends THEN AfterUnwatch(I, g, s, row) ELSE I
            promise == [ms    |-> row.request_ms,
                        from  |-> DayBegins(row.request_ms, HigherOf(pass.now, NewestTime)),
                        until |-> IF r.until = None \/ NewestBlock = None THEN None
                                  ELSE LowerOf(r.until, NewestBlock + AheadBlocks)]
            told(t) == IF t \in UnderRevoked(interests, g, through) THEN {} ELSE heard[g][t]
            gone(t) == IF t \in UnderRevoked(interests, g, through) THEN I[g][t].request_ms
                       ELSE withdrawn[g][t]
<1>1. /\ g \in GhostKey /\ s \in Script /\ r.made_at \in Nat /\ through \in Serial
      /\ r.watch \in BOOLEAN
  BY RequestTypes, RevokesType
<1>2. pass.step = "reading" /\ pass.now \in Nat /\ pass.now = clock
  BY DEF ReadRequest, TypeOK, PassShape, Idle, Told, PassOfNow
<1>3. I \in Rows /\ interests \in Rows
  BY <1>1, <1>2, RevokingType DEF TypeOK, Rows
<1>4. /\ row \in Row /\ row.recorded_ms \in Nat /\ row.request_ms \in Nat
      /\ row.request_ms = DateAt(r, clock) /\ row.watching = r.watch
      /\ clock <= row.recorded_ms /\ row.until = IF r.watch THEN HeldTo(r, tip) ELSE None
  <2>1. row.request_ms = DateAt(r, clock) /\ row.watching = r.watch
        /\ row.recorded_ms = (IF r.watch THEN ReadTime ELSE pass.now)
        /\ row.until = IF r.watch THEN HeldTo(r, tip) ELSE None
    BY <1>2 DEF RowOf, RequestTime
  <2>2. clock <= ReadTime
    BY <1>2, NewestTypes DEF ReadTime, HigherOf, None
  <2>. QED
    BY <1>2, <2>1, <2>2, RequestRowType
<1>5. promise \in Promise /\ promise.ms = row.request_ms
      /\ (r.watch => /\ promise.until <= row.until
                     /\ promise.from = DayBegins(row.request_ms, row.recorded_ms))
  <2>1. promise \in Promise /\ promise.ms = row.request_ms
    BY <1>2, PromiseType
  <2>2. r.watch => promise.until <= row.until
    BY <1>4, PromisedHeight
  <2>3. r.watch => row.recorded_ms = HigherOf(pass.now, NewestTime)
    BY DEF RowOf, ReadTime
  <2>. QED
    BY <2>1, <2>2, <2>3
<1>6. r.sent <= clock /\ clock <= r.sent + Waits /\ clock \in Nat
  BY <1>2 DEF ReadRequest
<1>7. interests' = J /\ clock' = clock /\ pass' = pass
  BY DEF ReadRequest
<1>8. heard' = [heard EXCEPT ![g] = [t \in Script |->
         told(t) \cup {p \in {promise} : t = s /\ watches /\ ~refused}]]
  BY <1>1 DEF ReadRequest, TypeOK
<1>9. withdrawn' = [withdrawn EXCEPT ![g] = [t \in Script |->
         IF t = s /\ ends /\ ~Unrecorded(I, g, s) THEN HigherOf(gone(t), row.request_ms)
         ELSE gone(t)]]
  BY <1>1 DEF ReadRequest, TypeOK
<1>10. PassOfNow'
  BY <1>2, <1>7 DEF PassOfNow, Told, Idle
<1>11. \A t \in Script : told(t) \in SUBSET Promise /\ gone(t) \in Nat \cup {None}
  <2>1. ASSUME NEW t \in Script PROVE I[g][t].request_ms \in Nat \cup {None}
    BY <1>1, <1>3 DEF Rows, Row, Requester
  <2>. QED
    BY <1>1, <2>1 DEF TypeOK
\* What the revocation leaves.
<1>12. ASSUME NEW t \in Script
       PROVE  Agrees(I[g][t], told(t), gone(t)) /\ Traced(I[g][t], gone(t), g, t, clock)
  <2>0. interests[g][t] \in Row
    BY <1>1, <1>3 DEF Rows, Requester
  <2>1. CASE t \in UnderRevoked(interests, g, through)
    <3>1. I[g][t] = Withdrawn(interests[g][t], r.made_at, clock)
      BY <1>1, <1>2, <1>3, <2>1, RevokingWrites
    <3>2. interests[g][t].serial # None
      BY <2>1 DEF UnderRevoked
    <3>3. Traced(interests[g][t], withdrawn[g][t], g, t, clock)
      BY <1>1 DEF Told
    <3>. QED
      BY <1>1, <1>6, <2>0, <2>1, <3>1, <3>2, <3>3, WithdrawnAgrees
  <2>2. CASE t \notin UnderRevoked(interests, g, through)
    <3>1. I[g][t] = interests[g][t]
      BY <1>1, <1>3, <2>2, RevokingWrites
    <3>. QED
      BY <1>1, <2>2, <3>1 DEF Told
  <2>. QED
    BY <2>1, <2>2
<1>13. \A k \in GhostKey, t \in Script : k # g => I[k][t] = interests[k][t]
  BY <1>1, <1>3, RevokingWrites
<1>14. I[g][s] \in Row
  BY <1>1, <1>3 DEF Rows, Requester
<1>. HIDE DEF I, W, row, promise, told, gone
\* The other rows.
<1>15. \A k \in GhostKey, t \in Script :
         J[k][t] = IF k = g /\ t = s
                   THEN IF watches THEN Rewatched(I[g][s], row, OverCap(I, g, s))
                        ELSE IF ends THEN Unwatched(I[g][s], row, Unrecorded(I, g, s))
                        ELSE I[g][s]
                   ELSE I[k][t]
  <2>1. CASE watches
    <3>1. J = AfterWatch(I, W, g, s, row)
      BY <2>1
    <3>2. \A k \in GhostKey, t \in Script :
            AfterWatch(I, W, g, s, row)[k][t] =
              IF k = g /\ t = s THEN Rewatched(I[g][s], row, OverCap(I, g, s)) ELSE I[k][t]
      BY <1>1, <1>3, <1>4, WatchRow
    <3>. QED
      BY <2>1, <3>1, <3>2
  <2>2. CASE ends
    <3>1. J = AfterUnwatch(I, g, s, row)
      BY <2>2
    <3>2. \A k \in GhostKey, t \in Script :
            AfterUnwatch(I, g, s, row)[k][t] =
              IF k = g /\ t = s THEN Unwatched(I[g][s], row, Unrecorded(I, g, s)) ELSE I[k][t]
      BY <1>1, <1>3, <1>4, UnwatchRow
    <3>. QED
      BY <2>2, <3>1, <3>2
  <2>3. CASE ~watches /\ ~ends
    BY <2>3
  <2>. QED
    BY <2>1, <2>2, <2>3
<1>16. ASSUME NEW k \in GhostKey, NEW t \in Script, ~(k = g /\ t = s)
       PROVE  /\ Agrees(J[k][t], heard'[k][t], withdrawn'[k][t])
              /\ Traced(J[k][t], withdrawn'[k][t], k, t, clock)
  <2>1. J[k][t] = I[k][t]
    BY <1>15, <1>16
  <2>2. CASE k # g
    <3>1. heard'[k] = heard[k] /\ withdrawn'[k] = withdrawn[k]
      BY <1>8, <1>9, <2>2 DEF TypeOK
    <3>. QED
      BY <1>13, <2>1, <2>2, <3>1 DEF Told
  <2>3. CASE k = g
    <3>1. heard'[k][t] = told(t) /\ withdrawn'[k][t] = gone(t)
      BY <1>1, <1>8, <1>9, <1>16, <2>3 DEF TypeOK
    <3>. QED
      BY <1>12, <2>1, <2>3, <3>1
  <2>. QED
    BY <2>2, <2>3
\* The row the request is about.
<1>17. heard'[g][s] = told(s) \cup {p \in {promise} : watches /\ ~refused}
       /\ withdrawn'[g][s] = IF ends /\ ~Unrecorded(I, g, s)
                             THEN HigherOf(gone(s), row.request_ms) ELSE gone(s)
  BY <1>1, <1>8, <1>9 DEF TypeOK
<1>18. Agrees(I[g][s], told(s), gone(s)) /\ Traced(I[g][s], gone(s), g, s, clock)
       /\ told(s) \in SUBSET Promise /\ gone(s) \in Nat \cup {None}
  BY <1>1, <1>11, <1>12
<1>19. ASSUME NEW watch \in BOOLEAN, Newer(I[g][s], row.request_ms, watch)
       PROVE  gone(s) < row.request_ms /\ I[g][s].request_ms <= row.request_ms
  BY <1>4, <1>6, <1>14, <1>18, <1>19, NewerThanWithdrawn
<1>20. /\ Agrees(J[g][s], heard'[g][s], withdrawn'[g][s])
       /\ Traced(J[g][s], withdrawn'[g][s], g, s, clock)
  <2>0. row.request_ms # None /\ I[g][s].request_ms \in Nat \cup {None}
        /\ I[g][s].until \in Height /\ row.until \in Height
    BY <1>4, <1>14 DEF Row, None
  <2>1. CASE watches /\ ~Newer(I[g][s], row.request_ms, TRUE)
    <3>. DEFINE raised == IF Running(I[g][s]) THEN HigherOf(I[g][s].until, row.until)
                          ELSE I[g][s].until
                new    == [I[g][s] EXCEPT !.until = raised]
    <3>1. J[g][s] = new
      BY <1>1, <1>15, <2>1 DEF Rewatched
    <3>2. heard'[g][s] = told(s) \cup {promise} /\ withdrawn'[g][s] = gone(s)
      BY <1>17, <2>1
    <3>3. raised \in Height
          /\ (Running(I[g][s]) => row.until <= raised /\ I[g][s].until <= raised)
      BY <2>0, HigherType
    <3>. HIDE DEF raised
    <3>4. new \in Row /\ SameRequest(new, I[g][s]) /\ new.recorded_ms = I[g][s].recorded_ms
          /\ new.until = raised
      BY <1>14, <3>3 DEF Row, SameRequest
    <3>. HIDE DEF new
    <3>5. row.request_ms <= I[g][s].request_ms
      BY <1>4, <2>0, <2>1 DEF Newer, None
    <3>6. I[g][s].request_ms # None /\ new.request_ms = I[g][s].request_ms
      BY <1>4, <2>0, <3>4, <3>5 DEF SameRequest, None
    <3>7. I[g][s] # NoRow /\ new # NoRow
      BY <3>6 DEF NoRow
    <3>8. Running(I[g][s]) => promise.until <= new.until /\ I[g][s].until <= new.until
      <4>1. promise.until \in Height /\ promise.until <= row.until
        BY <1>5, <2>1 DEF Promise
      <4>. QED
        BY <2>0, <3>3, <3>4, <4>1 DEF Height, None
    <3>9. Agrees(new, told(s) \cup {promise}, gone(s))
      BY <1>5, <1>14, <1>18, <3>4, <3>5, <3>7, <3>8, StaleWatchAgrees
    <3>10. Traced(new, gone(s), g, s, clock)
      BY <1>18, <3>4, <3>6, <3>7 DEF Traced
    <3>. QED
      BY <3>1, <3>2, <3>9, <3>10
  <2>2. CASE watches /\ refused
    <3>1. J[g][s] = I[g][s]
      BY <1>1, <1>15, <2>2 DEF Rewatched
    <3>2. heard'[g][s] = told(s) /\ withdrawn'[g][s] = gone(s)
      BY <1>17, <2>2
    <3>. QED
      BY <1>18, <3>1, <3>2
  <2>3. CASE watches /\ Newer(I[g][s], row.request_ms, TRUE) /\ ~refused
    <3>. DEFINE until == HeldThrough(I[g][s], row.until)
                new   == [row EXCEPT !.until = until]
    <3>1. J[g][s] = new
      BY <1>1, <1>15, <2>3 DEF Rewatched
    <3>2. heard'[g][s] = told(s) \cup {promise} /\ withdrawn'[g][s] = gone(s)
      BY <1>17, <2>3
    <3>3. until \in Height /\ row.until <= until
          /\ (Running(I[g][s]) => I[g][s].until <= until)
      BY <2>0, HigherType DEF HeldThrough, Height, None
    <3>. HIDE DEF until
    <3>4. new \in Row /\ new.request_ms = row.request_ms /\ new.recorded_ms = row.recorded_ms
          /\ new.until = until /\ Running(new)
      BY <1>4, <2>3, <3>3 DEF Row, Running
    <3>. HIDE DEF new
    <3>5. I[g][s].request_ms < row.request_ms /\ gone(s) < row.request_ms
      BY <1>19, <2>3 DEF Newer
    <3>6. promise.until <= new.until
      <4>1. promise.until \in Height /\ promise.until <= row.until
        BY <1>5, <2>3 DEF Promise
      <4>. QED
        BY <2>0, <3>3, <3>4, <4>1 DEF Height, None
    <3>7. /\ promise.ms = new.request_ms
          /\ promise.from = DayBegins(new.request_ms, new.recorded_ms)
      BY <1>5, <2>3, <3>4
    <3>8. Agrees(new, told(s) \cup {promise}, gone(s))
      BY <1>5, <1>14, <1>18, <3>3, <3>4, <3>5, <3>6, <3>7, WatchAgrees
    <3>9. Traced(new, gone(s), g, s, clock)
      BY <1>4, <1>6, <3>4, FreshTraced
    <3>. QED
      BY <3>1, <3>2, <3>8, <3>9
  <2>4. CASE ends
    <3>1. J[g][s] = IF Newer(I[g][s], row.request_ms, FALSE) /\ ~Unrecorded(I, g, s)
                    THEN row ELSE I[g][s]
      BY <1>1, <1>15, <2>4 DEF Unwatched
    <3>2. heard'[g][s] = told(s)
      BY <1>17, <2>4
    <3>3. CASE Unrecorded(I, g, s)
      BY <1>17, <1>18, <3>1, <3>2, <3>3
    <3>4. CASE ~Unrecorded(I, g, s) /\ Newer(I[g][s], row.request_ms, FALSE)
      <4>1. J[g][s] = row /\ withdrawn'[g][s] = HigherOf(gone(s), row.request_ms)
        BY <1>17, <2>4, <3>1, <3>4
      <4>2. ~Running(row)
        BY <1>4, <2>4 DEF Running
      <4>3. Agrees(row, told(s), HigherOf(gone(s), row.request_ms))
        BY <1>4, <1>14, <1>18, <1>19, <3>4, <4>2, UnwatchAgrees
      <4>4. Traced(row, HigherOf(gone(s), row.request_ms), g, s, clock)
        BY <1>4, <1>6, FreshTraced
      <4>. QED
        BY <3>2, <4>1, <4>3, <4>4
    <3>5. CASE ~Unrecorded(I, g, s) /\ ~Newer(I[g][s], row.request_ms, FALSE)
      <4>1. J[g][s] = I[g][s] /\ withdrawn'[g][s] = HigherOf(gone(s), row.request_ms)
        BY <1>17, <2>4, <3>1, <3>5
      <4>2. Agrees(I[g][s], told(s), HigherOf(gone(s), row.request_ms)) /\ I[g][s] # NoRow
        BY <1>4, <1>14, <1>18, <3>5, StaleUnwatchAgrees
      <4>3. Traced(I[g][s], HigherOf(gone(s), row.request_ms), g, s, clock)
        BY <1>18, <4>2 DEF Traced
      <4>. QED
        BY <3>2, <4>1, <4>2, <4>3
    <3>. QED
      BY <3>3, <3>4, <3>5
  <2>5. CASE ~watches /\ ~ends
    <3>1. J[g][s] = I[g][s] /\ heard'[g][s] = told(s) /\ withdrawn'[g][s] = gone(s)
      BY <1>17, <2>5
    <3>. QED
      BY <1>18, <3>1
  <2>. QED
    BY <2>1, <2>2, <2>3, <2>4, <2>5
<1>. QED
  BY <1>7, <1>10, <1>16, <1>20 DEF Told

LEMMA StepTold ==
  ASSUME TypeOK, Told, [Next]_vars
  PROVE  Told'
<1>. USE DEF tables, observer, history
<1>1. ASSUME StartPass PROVE Told'
  <2>1. /\ heard' = heard /\ withdrawn' = withdrawn /\ clock' = clock /\ clock \in Nat
        /\ pass' = [step |-> "reading", now |-> clock]
    BY <1>1 DEF StartPass, TypeOK
  <2>2. ASSUME NEW g \in GhostKey, NEW s \in Script
        PROVE  /\ Agrees(interests'[g][s], heard[g][s], withdrawn[g][s])
               /\ Traced(interests'[g][s], withdrawn[g][s], g, s, clock)
    <3>1. interests'[g][s] = IF Forgotten(interests[g][s], clock) THEN NoRow
                             ELSE interests[g][s]
      BY <1>1 DEF StartPass, Requester
    <3>2. /\ Agrees(interests[g][s], heard[g][s], withdrawn[g][s])
          /\ Traced(interests[g][s], withdrawn[g][s], g, s, clock)
      BY DEF Told
    <3>3. CASE Forgotten(interests[g][s], clock) /\ interests[g][s] # NoRow
      <4>1. ~Running(interests[g][s]) /\ interests[g][s].recorded_ms < clock - Memory
        BY <3>3 DEF Forgotten
      <4>2. interests[g][s].request_ms = withdrawn[g][s]
        BY <3>2, <3>3, <4>1 DEF Agrees
      <4>3. PICK w \in Request : /\ From(w, g, s, interests[g][s].request_ms)
                                 /\ w.sent <= interests[g][s].recorded_ms
        BY <3>2, <3>3 DEF Traced
      <4>4. interests[g][s].recorded_ms \in Nat \cup {None} /\ Memory \in Nat /\ w.sent \in Nat
        BY RequestTypes, Numbers DEF TypeOK, Row, Requester
      <4>5. w.sent + Memory < clock
        BY <2>1, <4>1, <4>3, <4>4 DEF None
      <4>6. Traced(NoRow, withdrawn[g][s], g, s, clock)
        BY <4>2, <4>3, <4>5 DEF Traced
      <4>7. Agrees(NoRow, heard[g][s], withdrawn[g][s])
        BY <3>2, <4>1 DEF Agrees, Running, NoRow
      <4>. QED
        BY <3>1, <3>3, <4>6, <4>7
    <3>4. CASE ~Forgotten(interests[g][s], clock) \/ interests[g][s] = NoRow
      <4>1. interests'[g][s] = interests[g][s]
        BY <3>1, <3>4
      <4>. QED
        BY <3>2, <4>1
    <3>. QED
      BY <3>3, <3>4
  <2>3. PassOfNow'
    BY <2>1 DEF PassOfNow
  <2>. QED
    BY <2>1, <2>2, <2>3 DEF Told
<1>2. ASSUME NEW waiting \in SUBSET GhostKey, StartExpiry(waiting) PROVE Told'
  <2>1. PassOfNow'
    <3>1. pass.now = clock /\ clock' = clock /\ interests' = interests /\ pass'.now = pass.now
      BY <1>2 DEF StartExpiry, Told, PassOfNow, Idle
    <3>2. /\ pass'.at = pass'.scanned - HigherOf(Deep - 1, 0)
          /\ \A w \in pass'.todo : RanOut(interests[w[1]][w[2]], pass'.dated, pass'.at)
      BY <1>2 DEF StartExpiry, Deciding
    <3>. QED
      BY <3>1, <3>2 DEF PassOfNow
  <2>2. UNCHANGED <<interests, heard, withdrawn, clock>>
    BY <1>2 DEF StartExpiry
  <2>. QED
    BY <2>1, <2>2 DEF Told
<1>3. ASSUME NEW g \in GhostKey, NEW s \in Script, EndWatch(g, s) PROVE Told'
  <2>. DEFINE row == interests[g][s]
              new == [row EXCEPT !.watching = FALSE, !.recorded_ms = pass.now]
  <2>1. pass # Idle /\ pass.step = "ending" /\ <<g, s>> \in pass.todo /\ clock' = clock
    BY <1>3 DEF EndWatch, Idle
  <2>2. Running(row) /\ pass.now = clock /\ clock \in Nat
    BY <2>1 DEF Told, PassOfNow, TypeOK, RanOut
  <2>3. row \in Row /\ g \in Requester /\ withdrawn[g][s] \in Nat \cup {None}
    BY DEF TypeOK, Requester
  <2>4. ASSUME NEW k \in GhostKey, NEW t \in Script
        PROVE  /\ interests'[k][t] = IF k = g /\ t = s THEN new ELSE interests[k][t]
               /\ heard'[k][t] = IF k = g /\ t = s THEN {} ELSE heard[k][t]
               /\ withdrawn'[k][t] = IF k = g /\ t = s
                                     THEN HigherOf(withdrawn[g][s], row.request_ms)
                                     ELSE withdrawn[k][t]
    <3>1. k \in Requester
      BY DEF Requester
    <3>2. interests'[k][t] = IF k = g /\ t = s THEN new ELSE interests[k][t]
      BY <1>3, <2>3, <3>1 DEF EndWatch, TypeOK
    <3>3. heard'[k][t] = IF k = g /\ t = s THEN {} ELSE heard[k][t]
      BY <1>3 DEF EndWatch, TypeOK
    <3>4. withdrawn'[k][t] = IF k = g /\ t = s
                             THEN HigherOf(withdrawn[g][s], row.request_ms)
                             ELSE withdrawn[k][t]
      BY <1>3 DEF EndWatch, TypeOK
    <3>. QED
      BY <3>2, <3>3, <3>4
  <2>5. new.watching = FALSE /\ new.request_ms = row.request_ms /\ new.recorded_ms = clock
    BY <2>2, <2>3 DEF Row
  <2>6. Agrees(row, heard[g][s], withdrawn[g][s]) /\ Traced(row, withdrawn[g][s], g, s, clock)
    BY DEF Told
  <2>. HIDE DEF new, row
  <2>7. withdrawn[g][s] < row.request_ms /\ row # NoRow /\ row.request_ms \in Nat
    BY <2>2, <2>3, <2>6 DEF Agrees, Running, NoRow, Row, None
  <2>8. HigherOf(withdrawn[g][s], row.request_ms) = row.request_ms
    BY <2>3, <2>7 DEF HigherOf, None
  <2>9. new # NoRow /\ ~Running(new)
    BY <2>5, <2>7 DEF NoRow, Running, None
  <2>10. Agrees(new, {}, row.request_ms)
    BY <2>5, <2>9 DEF Agrees
  <2>11. Traced(new, row.request_ms, g, s, clock)
    BY <2>5, <2>6, <2>7, <2>9 DEF Traced
  <2>12. ASSUME NEW k \in GhostKey, NEW t \in Script
         PROVE  /\ Agrees(interests'[k][t], heard'[k][t], withdrawn'[k][t])
                /\ Traced(interests'[k][t], withdrawn'[k][t], k, t, clock)
    <3>1. CASE k = g /\ t = s
      BY <2>4, <2>8, <2>10, <2>11, <3>1
    <3>2. CASE ~(k = g /\ t = s)
      BY <2>4, <3>2 DEF Told
    <3>. QED
      BY <3>1, <3>2
  <2>13. PassOfNow'
    <3>1. pass \in [step : {"ending"}, now : Nat, scanned : Nat, at : Nat, dated : Nat,
                    todo : SUBSET (GhostKey \X Script)]
      BY <2>1 DEF TypeOK, PassShape, Idle
    <3>2. pass' = [pass EXCEPT !.todo = @ \ {<<g, s>>}]
      BY <1>3 DEF EndWatch
    <3>3. /\ pass'.now = pass.now /\ pass'.todo = pass.todo \ {<<g, s>>}
          /\ pass'.at = pass.at /\ pass'.dated = pass.dated /\ pass'.scanned = pass.scanned
      BY <3>1, <3>2
    <3>4. ASSUME NEW w \in pass'.todo
          PROVE  RanOut(interests'[w[1]][w[2]], pass.dated, pass.at)
      <4>1. w \in GhostKey \X Script /\ w # <<g, s>> /\ w \in pass.todo
        BY <3>1, <3>3
      <4>2. interests'[w[1]][w[2]] = interests[w[1]][w[2]]
        BY <2>4, <4>1
      <4>3. RanOut(interests[w[1]][w[2]], pass.dated, pass.at)
        BY <2>1, <4>1 DEF Told, PassOfNow
      <4>. QED
        BY <4>2, <4>3
    <3>5. pass.at = pass.scanned - HigherOf(Deep - 1, 0)
      BY <2>1 DEF Told, PassOfNow
    <3>. QED
      BY <2>1, <2>2, <3>3, <3>4, <3>5 DEF PassOfNow
  <2>. QED
    BY <2>1, <2>12, <2>13 DEF Told
<1>4. ASSUME Tick PROVE Told'
  <2>1. pass = Idle /\ pass' = pass /\ clock' = clock + 1 /\ clock \in Nat
        /\ UNCHANGED <<interests, heard, withdrawn>>
    BY <1>4 DEF Tick, TypeOK
  <2>2. ASSUME NEW g \in GhostKey, NEW s \in Script
        PROVE  Traced(interests[g][s], withdrawn[g][s], g, s, clock + 1)
    <3>1. \A w \in Request : w.sent \in Nat /\ Memory \in Nat
      BY RequestTypes, Numbers
    <3>2. Traced(interests[g][s], withdrawn[g][s], g, s, clock)
      BY DEF Told
    <3>3. \A w \in Request : /\ w.sent <= clock => w.sent <= clock + 1
                             /\ w.sent + Memory < clock => w.sent + Memory < clock + 1
      BY <2>1, <3>1
    <3>. QED
      BY <3>2, <3>3 DEF Traced
  <2>3. PassOfNow'
    BY <2>1 DEF PassOfNow, Idle
  <2>. QED
    BY <2>1, <2>2, <2>3 DEF Told
<1>5. CASE UNCHANGED <<interests, heard, withdrawn, clock>> /\ pass' \in {pass, Idle}
  <2>1. PassOfNow'
    BY <1>5 DEF Told, PassOfNow, Idle
  <2>. QED
    BY <1>5, <2>1 DEF Told
<1>6. \/ \E r \in Request, mainnet \in MainnetTips, tip \in NodeTips : ReadRequest(r, mainnet, tip)
      \/ StartPass
      \/ \E waiting \in SUBSET GhostKey : StartExpiry(waiting)
      \/ \E g \in GhostKey, s \in Script : EndWatch(g, s)
      \/ Tick
      \/ UNCHANGED <<interests, heard, withdrawn, clock>> /\ pass' \in {pass, Idle}
  BY DEF Next, vars, EndPass, ScanBlock, Commit, GoBack, ForgetBlocksAboveFork, RewindToFork,
         Restart
<1>. QED
  BY <1>1, <1>2, <1>3, <1>4, <1>5, <1>6, ReadRequestTold

LEMMA InitTold == Init => Told
  BY DEF Init, Told, Agrees, Traced, PassOfNow, Idle, Running, NoRow, Requester

LEMMA ToldDecides ==
  ASSUME TypeOK, Told
  PROVE  NewestDecides /\ HeightsHeld
<1>1. ASSUME NEW g \in GhostKey, NEW s \in Script
      PROVE  /\ Running(interests[g][s]) <=> InForce(g, s) # {}
             /\ \A p \in InForce(g, s) : p.until <= interests[g][s].until
  <2>1. Agrees(interests[g][s], heard[g][s], withdrawn[g][s])
    BY DEF Told
  <2>2. withdrawn[g][s] \in Nat \cup {None} /\ heard[g][s] \in SUBSET Promise
    BY DEF TypeOK
  <2>3. \A p \in heard[g][s] : p.ms \in Nat
    BY <2>2 DEF Promise
  <2>4. CASE Running(interests[g][s])
    <3>1. PICK p \in heard[g][s] : p.ms = interests[g][s].request_ms
      BY <2>1, <2>4 DEF Agrees
    <3>2. p.ms > withdrawn[g][s]
      BY <2>1, <2>2, <2>3, <2>4, <3>1 DEF Agrees, None
    <3>3. \A q \in InForce(g, s) : q \in heard[g][s] /\ withdrawn[g][s] < q.ms
      BY <2>2, <2>3 DEF InForce, None
    <3>. QED
      BY <2>1, <2>4, <3>1, <3>2, <3>3 DEF Agrees, InForce
  <2>5. CASE ~Running(interests[g][s])
    <3>1. InForce(g, s) = {}
      BY <2>1, <2>2, <2>3, <2>5 DEF Agrees, InForce, None
    <3>. QED
      BY <2>5, <3>1
  <2>. QED
    BY <2>4, <2>5
<1>. QED
  BY <1>1 DEF NewestDecides, HeightsHeld

\* Read in any order, late, after the row they would have met is forgotten: the
\* newest of a Ghost Key's requests for a script decides whether it is watched.
THEOREM NewestRequestDecides == Spec => []NewestDecides
<1>1. TypeOK /\ Told => NewestDecides
  BY ToldDecides
<1>. QED
  BY <1>1, TypeCorrect, InitTold, StepTold, PTL DEF Spec

\* And a watch is held through every height that those in force named.
THEOREM NamedHeightsHeld == Spec => []HeightsHeld
<1>1. TypeOK /\ Told => HeightsHeld
  BY ToldDecides
<1>. QED
  BY <1>1, TypeCorrect, InitTold, StepTold, PTL DEF Spec

LEMMA EndsDue ==
  ASSUME TypeOK, Told, NEW g \in GhostKey, NEW s \in Script, EndWatch(g, s)
  PROVE  Due(g, s)
<1>. DEFINE row == interests[g][s]
<1>1. pass.step = "ending" /\ <<g, s>> \in pass.todo /\ ~HasShallowOutput(s)
      /\ scanned >= pass.scanned /\ pass.at \in DOMAIN blocks /\ blocks[pass.at] = pass.dated
  BY DEF EndWatch, StillScanned
<1>2. RanOut(row, pass.dated, pass.at) /\ pass.at = pass.scanned - HigherOf(Deep - 1, 0)
  BY <1>1 DEF Told, PassOfNow
<1>3. Agrees(row, heard[g][s], withdrawn[g][s])
  BY DEF Told
<1>4. /\ pass.scanned \in Nat /\ pass.at \in Nat /\ pass.dated \in Nat
      /\ scanned \in Height /\ payment[s] \in Height \cup {InDoubt}
      /\ withdrawn[g][s] \in Nat \cup {None} /\ heard[g][s] \in SUBSET Promise
      /\ row \in Row /\ Deep \in Nat /\ Lifetime \in Nat /\ RequestAhead \in Nat
  BY <1>1, Numbers DEF TypeOK, PassShape, Idle, Requester
<1>5. Running(row) /\ row.until < pass.at
      /\ DayBegins(row.request_ms, row.recorded_ms) <= pass.dated - Lifetime
  BY <1>2 DEF RanOut
<1>. HIDE DEF row
<1>6. pass.at <= scanned + 1 - Deep
  BY <1>1, <1>2, <1>4 DEF HigherOf, Height, None
<1>7. PICK p \in heard[g][s] : /\ p.ms = row.request_ms
                               /\ p.from = DayBegins(row.request_ms, row.recorded_ms)
  BY <1>3, <1>5 DEF Agrees
<1>8. \A q \in heard[g][s] : q.ms \in Nat /\ q.from \in Nat /\ q.until \in Height
  BY <1>4 DEF Promise
<1>9. p \in InForce(g, s)
  BY <1>3, <1>4, <1>5, <1>7, <1>8 DEF Agrees, InForce, None
<1>10. \A q \in InForce(g, s) : q.ms <= p.ms
  BY <1>3, <1>5, <1>7 DEF Agrees, InForce
<1>11. ASSUME NEW q \in InForce(g, s) PROVE q.until < pass.at
  <2>1. q \in heard[g][s] /\ withdrawn[g][s] < q.ms
    BY <1>4, <1>8 DEF InForce, None
  <2>2. q.until <= row.until
    BY <1>3, <1>5, <2>1 DEF Agrees
  <2>. QED
    BY <1>4, <1>5, <1>8, <2>1, <2>2 DEF Row, Height, None
<1>12. p.from + Lifetime <= blocks[pass.at]
  BY <1>1, <1>4, <1>5, <1>7, <1>8
<1>13. payment[s] # InDoubt /\ payment[s] <= scanned + 1 - Deep
  <2>1. payment[s] # InDoubt /\ (payment[s] \in Nat => payment[s] <= pass.scanned + 1 - Deep)
    BY <1>1, <1>4 DEF HasShallowOutput
  <2>2. CASE payment[s] \in Nat
    BY <1>1, <1>4, <2>1, <2>2 DEF Height, None
  <2>3. CASE payment[s] = None
    BY <1>4, <1>6, <2>1, <2>3 DEF Height, None
  <2>. QED
    BY <1>4, <2>1, <2>2, <2>3 DEF Height
<1>. QED
  BY <1>1, <1>6, <1>9, <1>10, <1>11, <1>12, <1>13 DEF Due

\* Whatever the observer does between a pass's reading of how far it has scanned
\* and the end of a watch: no watch runs out before it is due.
THEOREM NoWatchEndsEarly == Spec => EndsOnlyWhenDue
<1>. DEFINE A == \A g \in GhostKey, s \in Script :
                   /\ pass.step = "ending"
                   /\ Running(interests[g][s]) /\ ~Running(interests'[g][s])
                   => Due(g, s)
<1>1. ASSUME TypeOK, Told, [Next]_vars PROVE [A]_vars
  <2>. SUFFICES ASSUME NEW g \in GhostKey, NEW s \in Script, pass.step = "ending",
                       Running(interests[g][s]), ~Running(interests'[g][s])
                PROVE  Due(g, s)
    OBVIOUS
  <2>1. CASE EndWatch(g, s)
    BY <1>1, <2>1, EndsDue
  <2>2. ASSUME NEW k \in GhostKey, NEW t \in Script, EndWatch(k, t), ~(k = g /\ t = s)
        PROVE  interests'[g][s] = interests[g][s]
    <3>1. g \in Requester /\ k \in Requester
      BY DEF Requester
    <3>. QED
      BY <1>1, <2>2, <3>1 DEF EndWatch, TypeOK
  <2>3. \/ \E k \in GhostKey, t \in Script : EndWatch(k, t)
        \/ interests' = interests
    <3>1. ~StartPass /\ ~(\E r \in Request, mainnet \in MainnetTips, tip \in NodeTips :
                             ReadRequest(r, mainnet, tip))
      BY DEF StartPass, ReadRequest, Idle
    <3>. QED
      BY <1>1, <3>1 DEF Next, vars, tables, StartExpiry, EndPass, Tick, ScanBlock, Commit,
         GoBack, ForgetBlocksAboveFork, RewindToFork, Restart
  <2>. QED
    BY <2>1, <2>2, <2>3
<1>. QED
  BY <1>1, TypeCorrect, InitTold, StepTold, PTL DEF Spec, EndsOnlyWhenDue
=============================================================================
