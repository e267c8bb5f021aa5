----------------------------- MODULE Feed_proofs -----------------------------
(* Theorems about Feed, for every watch list, consumer set, window and hold. *)
EXTENDS Feed, Extrema

-----------------------------------------------------------------------------
(* The inductive invariant.                                                 *)

\* The exit at `s` may be dropped: collected, or older than window and hold.
Droppable(s) ==
  \/ hist[s].at + MaxAge + Hold <= now
  \/ \E i \in RunIncidents(s) : incidents[i].acked

\* Between the steps of a pass, what the loop goroutine has read is still so,
\* because it is the only writer of the log.
LoopInv ==
  /\ loop.at = "opening" => loop.exited \in 1..Len(hist)
  /\ loop.at = "held" =>
       /\ loop.cutoff <= now - MaxAge
       /\ loop.latest = Len(hist)
       /\ loop.byAge = MinOrNone({s \in rows : hist[s].at >= loop.cutoff})
  /\ loop.at = "prune" =>
       /\ loop.from \in 1..(Len(hist) + 1)
       /\ \A s \in rows : s < loop.from /\ hist[s].exit => Droppable(s)

FeedInv ==
  /\ TypeOK
  /\ ContiguousHistory
  /\ UncollectedExitKept
  /\ LoopInv

-----------------------------------------------------------------------------
(* The queries. *)

\* MAX(seq) over a history without holes.
LEMMA MaxSeqContiguous ==
  ASSUME TypeOK, ContiguousHistory
  PROVE  MaxSeq = IF floor = Len(hist) THEN 0 ELSE Len(hist)
<1>1. Len(hist) \in Nat /\ floor \in 0..Len(hist)
  BY DEF TypeOK
<1>2. CASE floor = Len(hist)
  BY <1>1, <1>2 DEF ContiguousHistory, MaxSeq
<1>3. CASE floor < Len(hist)
  <2>1. rows \in SUBSET (0..Len(hist)) /\ Len(hist) \in rows
    BY <1>1, <1>3 DEF ContiguousHistory
  <2>2. Max(rows) \in rows /\ \A x \in rows : x <= Max(rows)
    BY <1>1, <2>1, MaxIsGreatest
  <2>3. Max(rows) \in 0..Len(hist) /\ Len(hist) <= Max(rows)
    BY <2>1, <2>2
  <2>4. Max(rows) = Len(hist)
    BY <1>1, <2>3
  <2>5. QED
    BY <1>1, <1>3, <2>1, <2>4 DEF MaxSeq
<1>4. QED
  BY <1>1, <1>2, <1>3

\* The newest cursor is the last sequence number ever given out, whatever floor
\* the first of its two queries read.
LEMMA LatestIsLength ==
  ASSUME TypeOK, ContiguousHistory
  PROVE  LatestCursor(floor) = Len(hist)
<1>1. Len(hist) \in Nat /\ floor \in 0..Len(hist)
  BY DEF TypeOK
<1>2. QED
  BY <1>1, MaxSeqContiguous DEF LatestCursor

\* What RetainFrom answers is a sequence number of the log or one past it, and
\* every exit below it may be dropped.
LEMMA RetainFromSafe ==
  ASSUME FeedInv, loop.at = "held"
  PROVE  LET from == RetainFrom(Held(loop.cutoff))
         IN  /\ from \in 1..(Len(hist) + 1)
             /\ \A s \in rows : s < from /\ hist[s].exit => Droppable(s)
<1> DEFINE cutoff == loop.cutoff
           window == {s \in rows : hist[s].at >= cutoff}
           byAge == IF loop.byAge = none THEN {} ELSE {loop.byAge}
           keep == Held(cutoff) \cup byAge
           from == RetainFrom(Held(cutoff))
<1>1. /\ Len(hist) \in Nat
      /\ rows \in SUBSET Nat /\ rows \subseteq 1..Len(hist)
      /\ \A s \in rows : hist[s] \in Event
      /\ cutoff \in Int /\ now \in Nat /\ cutoff <= now - MaxAge
      /\ MaxAge \in Nat /\ Hold \in Nat
  <2>1. hist \in Seq(Event) /\ rows \subseteq 1..Len(hist)
    BY DEF FeedInv, TypeOK, LoopState
  <2>2. \A s \in 1..Len(hist) : hist[s] \in Event
    BY <2>1
  <2>3. cutoff \in Int /\ now \in Nat
    BY DEF FeedInv, TypeOK, LoopState
  <2>4. QED
    BY <2>1, <2>2, <2>3, FeedAssumption DEF FeedInv, LoopInv
<1>2. loop.byAge = IF window = {} THEN none ELSE Min(window)
  BY DEF FeedInv, LoopInv, MinOrNone
<1>3. window # {} => Min(window) \in window /\ \A s \in window : Min(window) <= s
  BY <1>1, MinIsLeast
<1>4. keep \in SUBSET Nat /\ keep \subseteq 1..Len(hist)
  BY <1>1, <1>2, <1>3 DEF Held, none
<1>5. keep # {} => Min(keep) \in keep /\ \A s \in keep : Min(keep) <= s
  <2> HIDE DEF keep
  <2>1. QED
    BY <1>4, MinIsLeast
<1>6. from = IF keep = {} THEN Len(hist) + 1 ELSE Min(keep)
  BY DEF RetainFrom, FeedInv, LoopInv
<1>7. from \in 1..(Len(hist) + 1)
  <2> HIDE DEF keep, from
  <2>1. QED
    BY <1>1, <1>4, <1>5, <1>6
<1>8. ASSUME NEW s \in rows, s < from, hist[s].exit
      PROVE  Droppable(s)
  <2>1. hist[s].at \in Nat /\ s \in 1..Len(hist)
    BY <1>1 DEF Event
  <2>2. s \notin keep
    <3> HIDE DEF keep, from
    <3>1. QED
      BY <1>1, <1>4, <1>5, <1>6, <1>8, <2>1
  <2>3. hist[s].at < cutoff
    <3> SUFFICES ASSUME hist[s].at >= cutoff PROVE FALSE
      BY <1>1, <2>1
    <3>1. s \in window /\ loop.byAge = Min(window) /\ loop.byAge <= s
      BY <1>2, <1>3
    <3>2. loop.byAge \in keep
      BY <1>1, <1>2, <1>3, <3>1 DEF none
    <3>3. from <= loop.byAge
      <4> HIDE DEF keep, from
      <4>1. QED
        BY <1>5, <1>6, <3>2
    <3>4. QED
      <4> HIDE DEF keep, from, window
      <4>1. loop.byAge \in Nat
        BY <1>4, <3>2
      <4>2. s \in Nat
        BY <2>1, <1>1
      <4>3. from \in Nat
        BY <1>1, <1>7
      <4>4. QED
        BY <3>1, <3>3, <1>8, <4>1, <4>2, <4>3
  <2>4. CASE hist[s].at <= cutoff - Hold
    BY <1>1, <2>1, <2>4 DEF Droppable
  <2>5. CASE hist[s].at > cutoff - Hold
    <3>1. ~Uncollected(s)
      BY <1>8, <2>2, <2>3, <2>5 DEF Held
    <3>2. QED
      BY <3>1 DEF Uncollected, Droppable
  <2>6. QED
    BY <1>1, <2>1, <2>4, <2>5
<1>9. QED
  BY <1>7, <1>8

-----------------------------------------------------------------------------
(* Types.                                                                   *)

\* The newest cursor is a natural number, whatever floor it is given.
LEMMA LatestCursorNat ==
  ASSUME TypeOK, NEW f \in Nat
  PROVE  LatestCursor(f) \in Nat
<1>1. Len(hist) \in Nat /\ rows \in SUBSET (0..Len(hist)) /\ rows \subseteq Nat
  BY DEF TypeOK
<1>2. rows # {} => Max(rows) \in Nat
  BY <1>1, MaxIsGreatest
<1>3. MaxSeq \in Nat
  BY <1>2 DEF MaxSeq
<1>4. QED
  BY <1>3 DEF LatestCursor

\* A page ends at a stored event: the first event after the cursor always fits.
LEMMA PageEndStored ==
  ASSUME TypeOK, NEW c \in Nat, After(c) # {}
  PROVE  PageEnd(c) \in After(c)
<1> DEFINE page == {s \in After(c) : Cardinality({q \in After(c) : q <= s}) <= PageLimit}
<1>1. Len(hist) \in Nat /\ After(c) \in SUBSET (0..Len(hist)) /\ After(c) \in SUBSET Nat
  <2>1. Len(hist) \in Nat /\ rows \subseteq 1..Len(hist)
    BY DEF TypeOK
  <2>2. rows \subseteq 0..Len(hist) /\ rows \subseteq Nat
    BY <2>1
  <2>3. After(c) \subseteq rows
    BY DEF After
  <2>4. QED
    BY <2>1, <2>2, <2>3
<1>2. PICK m \in After(c) : \A x \in After(c) : m <= x
  <2> DEFINE S == After(c)
  <2>1. S \in SUBSET Nat /\ S # {}
    BY <1>1
  <2>2. Min(S) \in S /\ \A x \in S : Min(S) <= x
    <3> HIDE DEF S
    <3>1. QED
      BY <2>1, MinIsLeast
  <2>3. QED
    BY <2>2
<1>3. {q \in After(c) : q <= m} = {m}
  BY <1>1, <1>2
<1>4. m \in page
  <2>1. Cardinality({m}) = 1
    BY FS_Singleton
  <2>2. PageLimit \in Nat \ {0}
    BY FeedAssumption
  <2>3. QED
    BY <1>3, <2>1, <2>2
<1>5. page \in SUBSET (0..Len(hist)) /\ page # {}
  BY <1>1, <1>4
<1>6. Max(page) \in page
  <2> HIDE DEF page
  <2>1. QED
    BY <1>1, <1>5, MaxIsGreatest
<1>7. QED
  BY <1>6 DEF PageEnd

\* Moving one reader on keeps the readers' type.
LEMMA ReaderMoved ==
  ASSUME TypeOK, NEW r \in Readers, NEW x \in ReaderState
  PROVE  [reader EXCEPT ![r] = x] \in [Readers -> ReaderState]
BY DEF TypeOK

\* Moving a reader that has caught up to the newest cursor keeps the readers typed.
LEMMA RebaseTyped ==
  ASSUME TypeOK, NEW r \in Readers, NEW c \in Nat
  PROVE  Rebase(r, c) \in [Readers -> ReaderState]
<1> DEFINE x == [FreshReader EXCEPT !.at = "ready", !.pos = c]
<1>1. x \in ReaderState
  BY DEF FreshReader, ReaderState
<1>2. QED
  BY <1>1, ReaderMoved DEF Rebase

\* A consumer's request keeps the types.
LEMMA RequestTyped ==
  ASSUME TypeOK, NEW r \in Readers, Request(r)
  PROVE  TypeOK'
<1> DEFINE R == reader[r]
<1>1. reader \in [Readers -> ReaderState] /\ floor \in Nat
  BY DEF TypeOK
<1>2. R \in ReaderState
  BY <1>1
<1>3. UNCHANGED <<now, hist, rows, floor, state, incidents, loop>>
  BY DEF Request, StatusFloor, StatusCursor, StatusTarget, StatusReply,
         EventsFloor, EventsRows, FetchObserved, WaitEnds
<1>4. reader' \in [Readers -> ReaderState]
  <2>1. CASE StatusFloor(r)
    <3>1. [R EXCEPT !.at = "cursor", !.floor = floor] \in ReaderState
      BY <1>1, <1>2 DEF ReaderState
    <3>2. QED
      BY <2>1, <3>1, ReaderMoved DEF StatusFloor
  <2>2. CASE StatusCursor(r)
    <3>1. LatestCursor(R.floor) \in Nat
      BY <1>2, LatestCursorNat DEF ReaderState
    <3>2. [R EXCEPT !.at = "states", !.cursor = LatestCursor(R.floor), !.left = Targets]
            \in ReaderState
      BY <1>2, <3>1 DEF ReaderState
    <3>3. QED
      BY <2>2, <3>2, ReaderMoved DEF StatusCursor
  <2>3. ASSUME NEW t \in Targets, StatusTarget(r, t)
        PROVE  reader' \in [Readers -> ReaderState]
    <3>1. state[t] \in Nat /\ R.seen \in [Targets -> Nat]
      BY <1>2 DEF TypeOK, ReaderState
    <3>2. [R.seen EXCEPT ![t] = state[t]] \in [Targets -> Nat]
      BY <3>1
    <3>3. [R EXCEPT !.left = R.left \ {t}, !.seen = [R.seen EXCEPT ![t] = state[t]]]
            \in ReaderState
      BY <1>2, <3>2 DEF ReaderState
    <3>4. QED
      BY <2>3, <3>3, ReaderMoved DEF StatusTarget
  <2>4. CASE StatusReply(r)
    BY <1>2, <2>4, RebaseTyped DEF StatusReply, ReaderState
  <2>5. CASE EventsFloor(r)
    <3>1. [R EXCEPT !.at = "new"] \in ReaderState
      BY <1>2 DEF ReaderState
    <3>2. [R EXCEPT !.at = "rows", !.floor = floor] \in ReaderState
      BY <1>1, <1>2 DEF ReaderState
    <3>3. QED
      BY <2>5, <3>1, <3>2, ReaderMoved DEF EventsFloor
  <2>6. CASE EventsRows(r)
    <3>1. R.pos \in Nat
      BY <1>2 DEF ReaderState
    <3>2. After(R.pos) # {} => PageEnd(R.pos) \in Nat
      <4>1. After(R.pos) \subseteq rows
        BY DEF After
      <4>2. rows \subseteq Nat
        BY DEF TypeOK
      <4>3. QED
        BY <3>1, <4>1, <4>2, PageEndStored
    <3>3. [R EXCEPT !.at = "waiting"] \in ReaderState
      BY <1>2 DEF ReaderState
    <3>4. CASE After(R.pos) # {}
      BY <2>6, <3>2, <3>4, RebaseTyped DEF EventsRows
    <3>5. CASE After(R.pos) = {} /\ reader' = Rebase(r, R.pos)
      BY <3>1, <3>5, RebaseTyped
    <3>6. CASE reader' = [reader EXCEPT ![r] = [R EXCEPT !.at = "waiting"]]
      BY <3>3, <3>6, ReaderMoved
    <3>7. QED
      BY <2>6, <3>4, <3>5, <3>6 DEF EventsRows
  <2>7. CASE FetchObserved(r)
    <3>1. [R EXCEPT !.at = "selecting"] \in ReaderState
      BY <1>2 DEF ReaderState
    <3>2. QED
      BY <2>7, <3>1, ReaderMoved DEF FetchObserved
  <2>8. CASE WaitEnds(r)
    BY <1>2, <2>8, RebaseTyped DEF WaitEnds, ReaderState
  <2>9. QED
    BY <2>1, <2>2, <2>3, <2>4, <2>5, <2>6, <2>7, <2>8 DEF Request
<1>5. QED
  BY <1>3, <1>4 DEF TypeOK

\* The greater of two naturals.
LEMMA MaxOfTwo ==
  ASSUME NEW a \in Nat, NEW b \in Nat
  PROVE  Max({a, b}) = IF a < b THEN b ELSE a
<1> DEFINE n == IF a < b THEN b ELSE a
           S == {a, b}
<1>1. n \in Nat /\ S \in SUBSET (0..n) /\ S # {}
  OBVIOUS
<1>2. Max(S) \in S /\ \A x \in S : x <= Max(S)
  <2> HIDE DEF n, S
  <2>1. QED
    BY <1>1, MaxIsGreatest
<1>3. QED
  BY <1>2

\* What the first step of a retention pass reads has its type.
LEMMA ByAgeNat ==
  ASSUME TypeOK, NEW S \in SUBSET rows
  PROVE  MinOrNone(S) \in Nat
<1>1. S \in SUBSET Nat
  BY DEF TypeOK
<1>2. S # {} => Min(S) \in S
  BY <1>1, MinIsLeast
<1>3. QED
  BY <1>1, <1>2 DEF MinOrNone, none

\* A step of the loop goroutine keeps the types.
LEMMA LoopTyped ==
  ASSUME FeedInv, Pass \/ Retain
  PROVE  TypeOK'
<1>1. TypeOK /\ now \in 0..MaxTime /\ MaxTime \in Nat /\ Len(hist) \in Nat
      /\ loop \in LoopState /\ reader \in [Readers -> ReaderState]
  BY FeedAssumption DEF FeedInv, TypeOK
<1>2. IdleLoop \in LoopState
  BY DEF IdleLoop, LoopState, none
<1>3. CASE BeginPass
  <2>1. loop' \in LoopState
    BY <1>1, <1>3 DEF BeginPass, LoopState
  <2>2. QED
    BY <1>1, <1>3, <2>1 DEF BeginPass, TypeOK
<1>4. ASSUME NEW t \in Targets, NEW exit \in BOOLEAN, NEW replaced \in BOOLEAN,
             Record(t, exit, replaced)
      PROVE  TypeOK'
  <2> DEFINE gen == IF replaced THEN Generation(t) + 1 ELSE Generation(t)
             e == [target |-> t, gen |-> gen, exit |-> exit, at |-> now]
  <2>1. Generation(t) \in Nat \ {0}
    <3>1. state[t] \in 0..Len(hist) /\ hist \in Seq(Event)
      BY <1>1 DEF TypeOK
    <3>2. CASE state[t] = 0
      BY <3>2 DEF Generation
    <3>3. CASE state[t] # 0
      <4>1. state[t] \in 1..Len(hist)
        BY <1>1, <3>1, <3>3
      <4>2. hist[state[t]] \in Event
        BY <3>1, <4>1
      <4>3. QED
        BY <3>3, <4>2 DEF Generation, Event
    <3>4. QED
      BY <3>2, <3>3
  <2>2. e \in Event
    BY <1>1, <2>1 DEF Event
  <2>3. hist' = Append(hist, e) /\ rows' = rows \cup {Len(hist) + 1}
        /\ state' = [state EXCEPT ![t] = Len(hist) + 1] /\ Len(hist) < MaxEvents
        /\ UNCHANGED <<now, floor, incidents, reader>>
    BY <1>4 DEF Record
  <2>4. hist' \in Seq(Event) /\ Len(hist') = Len(hist) + 1
    <3> HIDE DEF e
    <3>1. QED
      BY <1>1, <2>2, <2>3 DEF TypeOK
  <2>5. loop' \in LoopState
    <3> DEFINE at == IF exit THEN "opening" ELSE "pass"
               exited == IF exit THEN Len(hist) + 1 ELSE none
    <3>1. at \in {"pass", "opening"} /\ exited \in Nat /\ loop.todo \ {t} \in SUBSET Targets
      BY <1>1 DEF none, LoopState
    <3>2. loop' = [loop EXCEPT !.todo = loop.todo \ {t}, !.at = at, !.exited = exited]
      BY <1>4 DEF Record
    <3>3. QED
      <4> HIDE DEF at, exited
      <4>1. QED
        BY <1>1, <3>1, <3>2 DEF LoopState
  <2>6. rows' \subseteq 1..Len(hist')
    <3>1. rows \subseteq 1..Len(hist)
      BY <1>1 DEF TypeOK
    <3>2. \A n \in Nat : rows \subseteq 1..n => rows \cup {n + 1} \subseteq 1..(n + 1)
      OBVIOUS
    <3>3. rows' \subseteq 1..(Len(hist) + 1)
      BY <1>1, <2>3, <3>1, <3>2
    <3>4. QED
      BY <2>4, <3>3
  <2>7. state' \in [Targets -> 0..Len(hist')]
    BY <1>1, <2>3, <2>4 DEF TypeOK
  <2>8. floor' \in 0..Len(hist') /\ Len(hist') <= MaxEvents
    BY <1>1, <2>3, <2>4, FeedAssumption DEF TypeOK
  <2>9. QED
    BY <2>3, <2>4, <2>5, <2>6, <2>7, <2>8, <1>1 DEF TypeOK
<1>5. ASSUME NEW t \in Targets, SuppressRepeat(t)
      PROVE  TypeOK'
  <2>1. loop' \in LoopState
    BY <1>1, <1>5 DEF SuppressRepeat, LoopState
  <2>2. QED
    BY <1>1, <1>5, <2>1 DEF SuppressRepeat, TypeOK
<1>6. ASSUME NEW opened \in BOOLEAN, OpenExitIncident(opened)
      PROVE  TypeOK'
  <2> DEFINE x == [target |-> hist[loop.exited].target, gen |-> hist[loop.exited].gen,
                   acked |-> FALSE]
  <2>1. x \in Incident
    <3>1. loop.exited \in 1..Len(hist) /\ hist \in Seq(Event)
      BY <1>6 DEF OpenExitIncident, FeedInv, LoopInv, TypeOK
    <3>2. hist[loop.exited] \in Event
      BY <1>1, <3>1
    <3>3. QED
      BY <3>2 DEF Event, Incident
  <2>2. incidents' \in Seq(Incident)
    <3>1. incidents' = IF opened THEN Append(incidents, x) ELSE incidents
      BY <1>6 DEF OpenExitIncident
    <3>2. QED
      <4> HIDE DEF x
      <4>1. QED
        BY <1>1, <2>1, <3>1 DEF TypeOK
  <2>3. loop' \in LoopState
    BY <1>1, <1>6 DEF OpenExitIncident, LoopState, none
  <2>4. QED
    BY <1>1, <1>6, <2>2, <2>3 DEF OpenExitIncident, TypeOK
<1>7. CASE EndPass
  <2>1. \A r \in Readers : [reader[r] EXCEPT !.woken = reader[r].at = "selecting"] \in ReaderState
    BY <1>1 DEF ReaderState
  <2>2. reader' \in [Readers -> ReaderState]
    BY <1>7, <2>1 DEF EndPass
  <2>3. QED
    BY <1>1, <1>2, <1>7, <2>2 DEF EndPass, TypeOK
<1>8. CASE RetainWindow
  <2> DEFINE c == now' - MaxAge
             byAge == MinOrNone({s \in rows : hist[s].at >= c})
  <2>1. loop' = [loop EXCEPT !.at = "held", !.cutoff = c,
                             !.latest = LatestCursor(floor), !.byAge = byAge]
    BY <1>8 DEF RetainWindow
  <2>2. LatestCursor(floor) \in Nat /\ byAge \in Nat
    <3>1. floor \in Nat
      BY <1>1 DEF TypeOK
    <3>2. LatestCursor(floor) \in Nat
      BY <1>1, <3>1, LatestCursorNat
    <3>3. {s \in rows : hist[s].at >= c} \in SUBSET rows
      OBVIOUS
    <3>4. byAge \in Nat
      BY <1>1, <3>3, ByAgeNat
    <3>5. QED
      BY <3>2, <3>4
  <2>3. c \in Int
    BY <1>1, <1>8, FeedAssumption DEF RetainWindow
  <2>4. loop' \in LoopState
    <3> HIDE DEF c, byAge
    <3>1. QED
      BY <1>1, <2>1, <2>2, <2>3 DEF LoopState
  <2>5. QED
    BY <1>1, <1>8, <2>4 DEF RetainWindow, TypeOK
<1>9. CASE RetainHeld
  <2> DEFINE from == RetainFrom(Held(loop.cutoff))
  <2>1. from \in Nat
    BY <1>1, <1>9, RetainFromSafe DEF RetainHeld
  <2>2. [IdleLoop EXCEPT !.at = "prune", !.from = from] \in LoopState
    <3> HIDE DEF from
    <3>1. QED
      BY <1>2, <2>1 DEF LoopState
  <2>3. loop' \in LoopState
    BY <1>2, <1>9, <2>2 DEF RetainHeld
  <2>4. QED
    BY <1>1, <1>9, <2>3 DEF RetainHeld, TypeOK
<1>10. CASE PruneBefore
  <2>1. loop.from \in 1..(Len(hist) + 1) /\ floor \in 0..Len(hist)
    BY <1>10 DEF PruneBefore, FeedInv, LoopInv, TypeOK
  <2>2. floor' = Max({floor, loop.from - 1})
    BY <1>10 DEF PruneBefore
  <2>3. floor' \in 0..Len(hist)
    BY <1>1, <2>1, <2>2, MaxOfTwo
  <2>4. QED
    BY <1>1, <1>2, <1>10, <2>3 DEF PruneBefore, TypeOK
<1>11. QED
  BY <1>3, <1>4, <1>5, <1>6, <1>7, <1>8, <1>9, <1>10 DEF Pass, Retain

\* Every step keeps the types.
LEMMA FeedTyped ==
  ASSUME FeedInv, [Next]_vars
  PROVE  TypeOK'
<1>1. CASE Pass \/ Retain
  BY <1>1, LoopTyped
<1>2. ASSUME NEW r \in Readers, Request(r)
      PROVE  TypeOK'
  BY <1>2, RequestTyped DEF FeedInv
<1>3. ASSUME NEW i \in 1..MaxEvents, Acknowledge(i)
      PROVE  TypeOK'
  <2>1. incidents \in Seq(Incident) /\ i \in DOMAIN incidents
    BY <1>3 DEF Acknowledge, FeedInv, TypeOK
  <2>2. [incidents[i] EXCEPT !.acked = TRUE] \in Incident
    <3>1. incidents[i] \in Incident
      BY <2>1
    <3>2. QED
      BY <3>1 DEF Incident
  <2>3. incidents' \in Seq(Incident)
    BY <1>3, <2>1, <2>2 DEF Acknowledge
  <2>4. QED
    BY <1>3, <2>3 DEF Acknowledge, FeedInv, TypeOK
<1>4. CASE Crash
  <2>1. IdleLoop \in LoopState
    BY DEF IdleLoop, LoopState, none
  <2>2. reader \in [Readers -> ReaderState]
    BY DEF FeedInv, TypeOK
  <2>3. \A r \in Readers :
          /\ [FreshReader EXCEPT !.pos = reader[r].pos] \in ReaderState
          /\ [FreshReader EXCEPT !.at = "ready", !.pos = reader[r].pos] \in ReaderState
    BY <2>2 DEF FreshReader, ReaderState
  <2>4. reader' \in [Readers -> ReaderState]
    BY <1>4, <2>3 DEF Crash
  <2>5. QED
    BY <1>4, <2>1, <2>4 DEF Crash, FeedInv, TypeOK
<1>5. CASE UNCHANGED vars
  BY <1>5 DEF vars, FeedInv, TypeOK
<1>6. QED
  BY <1>1, <1>2, <1>3, <1>4, <1>5 DEF Next

-----------------------------------------------------------------------------
(* Every step preserves the invariant.                                      *)

\* The clock never goes back, recorded events never change, and incidents are
\* neither withdrawn nor un-acknowledged.
LEMMA NothingForgotten ==
  ASSUME FeedInv, [Next]_vars
  PROVE  /\ now <= now'
         /\ Len(hist) <= Len(hist') /\ \A s \in 1..Len(hist) : hist'[s] = hist[s]
         /\ \A i \in DOMAIN incidents :
              /\ i \in DOMAIN incidents'
              /\ incidents'[i].target = incidents[i].target
              /\ incidents'[i].gen = incidents[i].gen
              /\ incidents[i].acked => incidents'[i].acked
<1>1. /\ now \in 0..MaxTime /\ MaxTime \in Nat
      /\ hist \in Seq(Event) /\ Len(hist) \in Nat
      /\ incidents \in Seq(Incident)
  BY FeedAssumption DEF FeedInv, TypeOK
<1>2. now <= now'
  <2>1. now' \in now..MaxTime \/ UNCHANGED now
    BY DEF Next, Pass, Retain, BeginPass, Record, SuppressRepeat, OpenExitIncident,
           EndPass, RetainWindow, RetainHeld, PruneBefore, Request, StatusFloor,
           StatusCursor, StatusTarget, StatusReply, EventsFloor, EventsRows,
           FetchObserved, WaitEnds, Acknowledge, Crash, vars
  <2>2. QED
    BY <1>1, <2>1
<1>3. (\E e : hist' = Append(hist, e)) \/ UNCHANGED hist
  BY DEF Next, Pass, Retain, BeginPass, Record, SuppressRepeat, OpenExitIncident,
         EndPass, RetainWindow, RetainHeld, PruneBefore, Request, StatusFloor,
         StatusCursor, StatusTarget, StatusReply, EventsFloor, EventsRows,
         FetchObserved, WaitEnds, Acknowledge, Crash, vars
<1>4. Len(hist) <= Len(hist') /\ \A s \in 1..Len(hist) : hist'[s] = hist[s]
  BY <1>1, <1>3
<1>5. \/ \E x : incidents' = Append(incidents, x)
      \/ \E i \in DOMAIN incidents : incidents' = [incidents EXCEPT ![i].acked = TRUE]
      \/ UNCHANGED incidents
  BY DEF Next, Pass, Retain, BeginPass, Record, SuppressRepeat, OpenExitIncident,
         EndPass, RetainWindow, RetainHeld, PruneBefore, Request, StatusFloor,
         StatusCursor, StatusTarget, StatusReply, EventsFloor, EventsRows,
         FetchObserved, WaitEnds, Acknowledge, Crash, vars
<1>6. ASSUME NEW i \in DOMAIN incidents
      PROVE  /\ i \in DOMAIN incidents'
             /\ incidents'[i].target = incidents[i].target
             /\ incidents'[i].gen = incidents[i].gen
             /\ incidents[i].acked => incidents'[i].acked
  <2>1. CASE \E x : incidents' = Append(incidents, x)
    BY <1>1, <2>1
  <2>2. CASE \E j \in DOMAIN incidents : incidents' = [incidents EXCEPT ![j].acked = TRUE]
    <3>1. incidents[i] \in Incident
      BY <1>1
    <3>2. QED
      BY <1>1, <2>2, <3>1 DEF Incident
  <2>3. CASE UNCHANGED incidents
    BY <2>3
  <2>4. QED
    BY <1>5, <2>1, <2>2, <2>3
<1>7. QED
  BY <1>2, <1>4, <1>6

\* An exit that may be dropped before a step may be dropped after it.
LEMMA DroppableStable ==
  ASSUME FeedInv, [Next]_vars, NEW s \in 1..Len(hist), Droppable(s)
  PROVE  Droppable(s)'
<1>1. hist'[s] = hist[s] /\ now <= now'
  BY NothingForgotten
<1>2. CASE hist[s].at + MaxAge + Hold <= now
  <2>1. hist[s].at \in Nat /\ now \in Nat /\ now' \in Nat /\ MaxAge \in Nat /\ Hold \in Nat
    <3>1. MaxTime \in Nat /\ MaxAge \in Nat /\ Hold \in Nat
      BY FeedAssumption
    <3>2. hist[s] \in Event
      BY DEF FeedInv, TypeOK
    <3>3. now \in 0..MaxTime /\ now' \in 0..MaxTime
      BY FeedTyped DEF FeedInv, TypeOK
    <3>4. QED
      BY <3>1, <3>2, <3>3 DEF Event
  <2>2. hist'[s].at + MaxAge + Hold <= now'
    BY <1>1, <1>2, <2>1
  <2>3. QED
    BY <2>2 DEF Droppable
<1>3. ASSUME NEW i \in RunIncidents(s), incidents[i].acked
      PROVE  Droppable(s)'
  <2>1. /\ i \in DOMAIN incidents' /\ incidents'[i].acked
        /\ incidents'[i].target = hist'[s].target /\ incidents'[i].gen = hist'[s].gen
    BY <1>1, <1>3, NothingForgotten DEF RunIncidents
  <2>2. QED
    BY <2>1 DEF Droppable, RunIncidents
<1>4. QED
  BY <1>2, <1>3 DEF Droppable

\* The actions that leave the log, its rows and its floor alone.
LEMMA LogUntouched ==
  ASSUME [Next]_vars,
         ~\E t \in Targets, exit, replaced \in BOOLEAN : Record(t, exit, replaced),
         ~PruneBefore
  PROVE  UNCHANGED <<hist, rows, floor>>
BY DEF Next, Pass, Retain, BeginPass, SuppressRepeat, OpenExitIncident, EndPass,
       RetainWindow, RetainHeld, Request, StatusFloor, StatusCursor, StatusTarget,
       StatusReply, EventsFloor, EventsRows, FetchObserved, WaitEnds, Acknowledge,
       Crash, vars

LEMMA ContiguousKept ==
  ASSUME FeedInv, [Next]_vars
  PROVE  ContiguousHistory'
<1>1. Len(hist) \in Nat /\ floor \in 0..Len(hist) /\ rows = (floor + 1)..Len(hist)
  BY DEF FeedInv, TypeOK, ContiguousHistory
<1>2. ASSUME NEW t \in Targets, NEW exit \in BOOLEAN, NEW replaced \in BOOLEAN,
             Record(t, exit, replaced)
      PROVE  ContiguousHistory'
  <2>1. /\ Len(hist') = Len(hist) + 1
        /\ rows' = rows \cup {Len(hist) + 1} /\ floor' = floor
    BY <1>2 DEF Record, FeedInv, TypeOK
  <2>2. QED
    BY <1>1, <2>1 DEF ContiguousHistory
<1>3. CASE PruneBefore
  <2>1. loop.from \in 1..(Len(hist) + 1)
    BY <1>3 DEF PruneBefore, FeedInv, LoopInv
  <2>2. floor' = IF floor < loop.from - 1 THEN loop.from - 1 ELSE floor
    BY <1>1, <1>3, <2>1, MaxOfTwo DEF PruneBefore
  <2>3. rows' = {s \in rows : s >= loop.from} /\ hist' = hist
    BY <1>3 DEF PruneBefore
  <2>4. rows' = (floor' + 1)..Len(hist)
    BY <1>1, <2>1, <2>2, <2>3
  <2>5. QED
    BY <2>3, <2>4 DEF ContiguousHistory
<1>4. CASE UNCHANGED <<hist, rows, floor>>
  BY <1>1, <1>4 DEF ContiguousHistory
<1>5. QED
  BY <1>2, <1>3, <1>4, LogUntouched

LEMMA ExitStaysKept ==
  ASSUME FeedInv, [Next]_vars
  PROVE  UncollectedExitKept'
<1>1. hist \in Seq(Event) /\ Len(hist) \in Nat
  BY DEF FeedInv, TypeOK
<1>2. SUFFICES ASSUME NEW s \in 1..Len(hist'), hist'[s].exit, s \notin rows'
               PROVE  Droppable(s)'
  BY DEF UncollectedExitKept, Droppable
<1> DEFINE Old == /\ s \in 1..Len(hist) /\ hist[s].exit
                  /\ s \in rows => PruneBefore
<1>3. Old
  <2>1. ASSUME NEW t \in Targets, NEW exit \in BOOLEAN, NEW replaced \in BOOLEAN,
               Record(t, exit, replaced)
        PROVE  Old
    <3>1. Len(hist') = Len(hist) + 1 /\ rows' = rows \cup {Len(hist) + 1}
      BY <1>1, <2>1 DEF Record
    <3>2. s \in 1..Len(hist) /\ s \notin rows
      BY <1>1, <1>2, <3>1
    <3>3. QED
      BY <1>2, <3>2, NothingForgotten
  <2>2. CASE PruneBefore
    BY <1>2, <2>2 DEF PruneBefore
  <2>3. CASE UNCHANGED <<hist, rows, floor>>
    BY <1>2, <2>3
  <2>4. QED
    BY <2>1, <2>2, <2>3, LogUntouched
<1>4. Droppable(s)
  <2>1. CASE s \notin rows
    BY <1>3, <2>1 DEF FeedInv, UncollectedExitKept, Droppable
  <2>2. CASE s \in rows
    <3>1. PruneBefore
      BY <1>3, <2>2
    <3>2. s < loop.from
      <4>1. loop.from \in Nat /\ s \in Nat
        BY <1>3, <1>1, <3>1 DEF FeedInv, TypeOK, LoopState
      <4>2. QED
        BY <1>2, <2>2, <3>1, <4>1 DEF PruneBefore
    <3>3. QED
      BY <1>3, <2>2, <3>1, <3>2 DEF PruneBefore, FeedInv, LoopInv
  <2>3. QED
    BY <2>1, <2>2
<1>5. QED
  BY <1>3, <1>4, DroppableStable

\* What a retention pass has read stays so until it prunes: nobody but the loop
\* goroutine writes the log, and what may be dropped may still be dropped.
LEMMA LoopKept ==
  ASSUME FeedInv, [Next]_vars
  PROVE  LoopInv'
<1>1. MaxTime \in Nat /\ MaxAge \in Nat /\ now \in 0..MaxTime /\ Len(hist) \in Nat
      /\ loop \in LoopState /\ rows \subseteq 1..Len(hist) /\ hist \in Seq(Event)
  BY FeedAssumption DEF FeedInv, TypeOK
<1>2. ASSUME UNCHANGED <<now, hist, rows, loop>>
      PROVE  LoopInv'
  <2>1. /\ loop.at = "opening" => loop.exited \in 1..Len(hist)
        /\ loop.at = "held" => /\ loop.cutoff <= now - MaxAge
                               /\ loop.latest = Len(hist)
                               /\ loop.byAge = MinOrNone({s \in rows : hist[s].at >= loop.cutoff})
        /\ loop.at = "prune" => loop.from \in 1..(Len(hist) + 1)
    BY DEF FeedInv, LoopInv
  <2>2. ASSUME loop.at = "prune", NEW s \in rows, s < loop.from, hist[s].exit
        PROVE  Droppable(s)'
    <3>1. Droppable(s) /\ s \in 1..Len(hist)
      BY <1>1, <2>2 DEF FeedInv, LoopInv
    <3>2. QED
      BY <3>1, DroppableStable
  <2>3. QED
    BY <1>2, <2>1, <2>2 DEF LoopInv
<1>3. ASSUME loop'.at \in {"idle", "pass"}
      PROVE  LoopInv'
  BY <1>3 DEF LoopInv
<1>4. CASE BeginPass \/ EndPass \/ PruneBefore \/ Crash
           \/ \E opened \in BOOLEAN : OpenExitIncident(opened)
  <2>1. \/ loop' = [loop EXCEPT !.at = "pass", !.todo = Targets]
        \/ loop' = [loop EXCEPT !.at = "pass", !.exited = none]
        \/ loop' = IdleLoop
    BY <1>4 DEF BeginPass, EndPass, PruneBefore, Crash, OpenExitIncident
  <2>2. loop'.at \in {"idle", "pass"}
    <3>1. CASE loop' = [loop EXCEPT !.at = "pass", !.todo = Targets]
      BY <1>1, <3>1 DEF LoopState
    <3>2. CASE loop' = [loop EXCEPT !.at = "pass", !.exited = none]
      BY <1>1, <3>2 DEF LoopState
    <3>3. CASE loop' = IdleLoop
      BY <3>3 DEF IdleLoop
    <3>4. QED
      BY <2>1, <3>1, <3>2, <3>3
  <2>3. QED
    BY <1>3, <2>2
<1>5. ASSUME NEW t \in Targets, SuppressRepeat(t)
      PROVE  LoopInv'
  <2>1. loop'.at = "pass"
    BY <1>1, <1>5 DEF SuppressRepeat, LoopState
  <2>2. QED
    BY <1>3, <2>1
<1>6. ASSUME NEW t \in Targets, NEW exit \in BOOLEAN, NEW replaced \in BOOLEAN,
             Record(t, exit, replaced)
      PROVE  LoopInv'
  <2>1. /\ loop'.at = IF exit THEN "opening" ELSE "pass"
        /\ loop'.exited = IF exit THEN Len(hist) + 1 ELSE none
        /\ Len(hist') = Len(hist) + 1
    BY <1>1, <1>6 DEF Record, LoopState
  <2>2. QED
    BY <1>1, <2>1 DEF LoopInv
<1>7. CASE RetainWindow
  <2>1. /\ loop'.at = "held" /\ loop'.cutoff = now' - MaxAge
        /\ loop'.latest = LatestCursor(floor)
        /\ loop'.byAge = MinOrNone({s \in rows : hist[s].at >= loop'.cutoff})
        /\ UNCHANGED <<hist, rows>> /\ now' \in now..MaxTime
    BY <1>1, <1>7 DEF RetainWindow, LoopState
  <2>2. loop'.latest = Len(hist')
    BY <2>1, LatestIsLength DEF FeedInv
  <2>3. loop'.cutoff <= now' - MaxAge
    <3>1. now' \in Nat
      BY <1>1, <2>1
    <3>2. now' - MaxAge \in Int
      BY <1>1, <3>1
    <3>3. QED
      BY <2>1, <3>2
  <2>4. QED
    BY <2>1, <2>2, <2>3 DEF LoopInv
<1>8. CASE RetainHeld
  <2> DEFINE from == RetainFrom(Held(loop.cutoff))
  <2>1. CASE from <= 1
    BY <1>3, <1>8, <2>1 DEF RetainHeld, IdleLoop
  <2>2. CASE ~(from <= 1)
    <3>1. loop'.at = "prune" /\ loop'.from = from /\ UNCHANGED <<now, hist, rows, incidents>>
      BY <1>8, <2>2 DEF RetainHeld, IdleLoop
    <3>2. /\ from \in 1..(Len(hist) + 1)
          /\ \A s \in rows : s < from /\ hist[s].exit => Droppable(s)
      BY <1>8, RetainFromSafe DEF RetainHeld
    <3>3. \A s \in rows : s < from /\ hist[s].exit => Droppable(s)'
      BY <1>1, <3>2, DroppableStable
    <3>4. QED
      <4> HIDE DEF from
      <4>1. QED
        BY <3>1, <3>2, <3>3 DEF LoopInv
  <2>3. QED
    BY <2>1, <2>2
<1>9. ASSUME NEW r \in Readers, Request(r)
      PROVE  LoopInv'
  BY <1>2, <1>9 DEF Request, StatusFloor, StatusCursor, StatusTarget, StatusReply,
                    EventsFloor, EventsRows, FetchObserved, WaitEnds
<1>10. ASSUME NEW i \in 1..MaxEvents, Acknowledge(i)
       PROVE  LoopInv'
  BY <1>2, <1>10 DEF Acknowledge
<1>11. CASE UNCHANGED vars
  BY <1>2, <1>11 DEF vars
<1>12. QED
  BY <1>4, <1>5, <1>6, <1>7, <1>8, <1>9, <1>10, <1>11 DEF Next, Pass, Retain

\* The invariant is inductive.
LEMMA FeedStep ==
  ASSUME FeedInv, [Next]_vars
  PROVE  FeedInv'
BY FeedTyped, ContiguousKept, ExitStaysKept, LoopKept DEF FeedInv

LEMMA FeedStart == Init => FeedInv
<1> SUFFICES ASSUME Init PROVE FeedInv
  OBVIOUS
<1>1. now = 0 /\ hist = <<>> /\ Len(hist) = 0 /\ rows = {} /\ floor = 0
      /\ incidents = <<>> /\ MaxTime \in Nat /\ MaxEvents \in Nat
  BY FeedAssumption DEF Init
<1>2. loop \in LoopState /\ loop.at = "idle"
  BY DEF Init, IdleLoop, LoopState, none
<1>3. reader \in [Readers -> ReaderState]
  <2>1. FreshReader \in ReaderState /\ [FreshReader EXCEPT !.at = "ready"] \in ReaderState
    BY DEF FreshReader, ReaderState
  <2>2. QED
    BY <2>1 DEF Init
<1>4. TypeOK
  BY <1>1, <1>2, <1>3 DEF Init, TypeOK
<1>5. QED
  BY <1>1, <1>2, <1>4 DEF FeedInv, ContiguousHistory, UncollectedExitKept, LoopInv

LEMMA FeedInvariant == Spec => []FeedInv
BY FeedStart, FeedStep, PTL DEF Spec

-----------------------------------------------------------------------------
(* Theorems.                                                                *)

\* Every variable keeps its type: in particular the retention floor and the
\* stored rows never leave the log that was written.
THEOREM FeedTypeCorrect == Spec => []TypeOK
BY FeedInvariant, PTL DEF FeedInv

\* What is stored is always exactly what follows the floor, so a cursor at or
\* above the floor can be replayed completely.
THEOREM HistoryIsContiguous == Spec => []ContiguousHistory
BY FeedInvariant, PTL DEF FeedInv

\* Retention never drops an exit nobody collected before its hold has elapsed,
\* for every window, hold, log length and number of consumers.
THEOREM UncollectedExitsAreKept == Spec => []UncollectedExitKept
BY FeedInvariant, PTL DEF FeedInv

-----------------------------------------------------------------------------
(* Consumers.                                                               *)

\* The last event of every target is the one its state reflects.
StatesReflect == \A s \in 1..Len(hist) : s <= state[hist[s].target]

\* What a consumer's request has read so far, and what that covers.
Informed(x) ==
  /\ x.pos <= Len(hist) /\ x.floor <= floor
  /\ x.at \in {"new", "cursor", "states"} => x.pos <= floor
  /\ x.at = "cursor" => x.pos <= x.floor
  /\ x.at = "states" =>
       /\ x.pos <= x.cursor /\ x.cursor <= Len(hist)
       /\ \A t \in Targets \ x.left : \A s \in 1..x.cursor :
            hist[s].target = t => s <= x.seen[t]

ReaderInv ==
  /\ StatesReflect
  /\ \A r \in Readers : Informed(reader[r])

\* The floor only rises.
LEMMA FloorRises ==
  ASSUME FeedInv, [Next]_vars
  PROVE  floor <= floor'
<1>1. floor \in Nat
  BY DEF FeedInv, TypeOK
<1>2. CASE PruneBefore
  <2>1. loop.from - 1 \in Nat
    BY <1>2 DEF PruneBefore, FeedInv, LoopInv, TypeOK
  <2>2. QED
    BY <1>1, <1>2, <2>1, MaxOfTwo DEF PruneBefore
<1>3. ASSUME NEW t \in Targets, NEW exit \in BOOLEAN, NEW replaced \in BOOLEAN,
             Record(t, exit, replaced)
      PROVE  floor <= floor'
  BY <1>1, <1>3 DEF Record
<1>4. QED
  BY <1>1, <1>2, <1>3, LogUntouched

\* What a request has read stays good while the log grows at its end and is
\* forgotten from its beginning.
LEMMA StillInformed ==
  ASSUME FeedInv, [Next]_vars, NEW x \in ReaderState, Informed(x)
  PROVE  Informed(x)'
<1>1. /\ Len(hist) \in Nat /\ Len(hist') \in Nat /\ floor \in Nat /\ floor' \in Nat
      /\ x.pos \in Nat /\ x.floor \in Nat /\ x.cursor \in Nat
  BY FeedTyped DEF FeedInv, TypeOK, ReaderState
<1>2. /\ floor <= floor' /\ Len(hist) <= Len(hist')
      /\ \A s \in 1..Len(hist) : hist'[s] = hist[s]
  BY FloorRises, NothingForgotten
<1>3. ASSUME x.at = "states", NEW t \in Targets \ x.left, NEW s \in 1..x.cursor,
             hist'[s].target = t
      PROVE  s <= x.seen[t]
  <2>1. s \in 1..Len(hist) /\ hist[s].target = t
    BY <1>1, <1>2, <1>3 DEF Informed
  <2>2. QED
    BY <1>3, <2>1 DEF Informed
<1>4. x.pos <= Len(hist') /\ x.floor <= floor'
      /\ (x.at \in {"new", "cursor", "states"} => x.pos <= floor')
      /\ (x.at = "cursor" => x.pos <= x.floor)
      /\ (x.at = "states" => x.pos <= x.cursor /\ x.cursor <= Len(hist'))
  BY <1>1, <1>2 DEF Informed
<1>5. QED
  BY <1>3, <1>4 DEF Informed

\* The state of a target follows its events.
LEMMA StatesStillReflect ==
  ASSUME FeedInv, StatesReflect, [Next]_vars
  PROVE  StatesReflect'
<1>1. hist \in Seq(Event) /\ Len(hist) \in Nat /\ state \in [Targets -> 0..Len(hist)]
      /\ \A s \in 1..Len(hist) : hist[s].target \in Targets
  <2>1. hist \in Seq(Event) /\ Len(hist) \in Nat /\ state \in [Targets -> 0..Len(hist)]
    BY DEF FeedInv, TypeOK
  <2>2. \A s \in 1..Len(hist) : hist[s] \in Event
    BY <2>1
  <2>3. QED
    BY <2>1, <2>2 DEF Event
<1>2. ASSUME NEW t \in Targets, NEW exit \in BOOLEAN, NEW replaced \in BOOLEAN,
             Record(t, exit, replaced)
      PROVE  StatesReflect'
  <2>1. /\ hist' \in Seq(Event) /\ Len(hist') = Len(hist) + 1
        /\ hist'[Len(hist) + 1].target = t
        /\ \A s \in 1..Len(hist) : hist'[s] = hist[s]
        /\ state' = [state EXCEPT ![t] = Len(hist) + 1]
    <3>1. state' = [state EXCEPT ![t] = Len(hist) + 1]
      BY <1>2 DEF Record
    <3>2. PICK e : hist' = Append(hist, e) /\ e.target = t
      BY <1>2 DEF Record
    <3>3. hist' \in Seq(Event)
      BY FeedTyped DEF TypeOK
    <3>4. QED
      BY <1>1, <3>1, <3>2, <3>3
  <2>2. ASSUME NEW s \in 1..Len(hist')
        PROVE  s <= state'[hist'[s].target]
    <3>1. CASE s = Len(hist) + 1
      BY <1>1, <2>1, <3>1
    <3>2. CASE s \in 1..Len(hist)
      <4>1. s <= state[hist[s].target] /\ hist[s].target \in Targets
        BY <1>1, <3>2 DEF StatesReflect
      <4>2. QED
        BY <1>1, <2>1, <3>2, <4>1
    <3>3. QED
      BY <1>1, <2>1, <3>1, <3>2
  <2>3. QED
    BY <2>2 DEF StatesReflect
<1>3. CASE UNCHANGED <<hist, state>>
  BY <1>3 DEF StatesReflect
<1>4. QED
  <2>1. CASE \E t \in Targets, exit, replaced \in BOOLEAN : Record(t, exit, replaced)
    BY <1>2, <2>1
  <2>2. CASE ~\E t \in Targets, exit, replaced \in BOOLEAN : Record(t, exit, replaced)
    <3>1. UNCHANGED <<hist, state>>
      BY <2>2 DEF Next, Pass, Retain, BeginPass, SuppressRepeat, OpenExitIncident, EndPass,
         RetainWindow, RetainHeld, PruneBefore, Request, StatusFloor, StatusCursor, StatusTarget,
         StatusReply, EventsFloor, EventsRows, FetchObserved, WaitEnds, Acknowledge, Crash, vars
    <3>2. QED
      BY <1>3, <3>1
  <2>3. QED
    BY <2>1, <2>2

\* The rows after a cursor, in a history without holes.
LEMMA AfterIs ==
  ASSUME FeedInv, NEW c \in Nat
  PROVE  After(c) = ((IF c < floor THEN floor ELSE c) + 1)..Len(hist)
<1>1. floor \in Nat /\ Len(hist) \in Nat
  BY DEF FeedInv, TypeOK
<1>2. QED
  BY <1>1 DEF After, FeedInv, ContiguousHistory

\* A page is the next events, as many as fit.
LEMMA PageEndIs ==
  ASSUME FeedInv, NEW c \in Nat, After(c) # {}
  PROVE  LET left == IF c < floor THEN floor ELSE c
             end == PageEnd(c)
         IN  /\ end \in (left + 1)..Len(hist)
             /\ end <= left + PageLimit
             /\ end = Len(hist) \/ end = left + PageLimit
<1> DEFINE left == IF c < floor THEN floor ELSE c
           n == Len(hist)
           page == {s \in After(c) : Cardinality({q \in After(c) : q <= s}) <= PageLimit}
           end == PageEnd(c)
<1>1. left \in Nat /\ n \in Nat /\ PageLimit \in Nat \ {0} /\ After(c) = (left + 1)..n
  <2>1. left \in Nat /\ n \in Nat /\ PageLimit \in Nat \ {0}
    BY FeedAssumption DEF FeedInv, TypeOK
  <2>2. After(c) = (left + 1)..n
    BY AfterIs
  <2>3. QED
    BY <2>1, <2>2
<1>2. ASSUME NEW s \in (left + 1)..n
      PROVE  Cardinality({q \in After(c) : q <= s}) = s - left
  <2> HIDE DEF left, n
  <2>1. {q \in After(c) : q <= s} = (left + 1)..s
    BY <1>1
  <2>2. Cardinality((left + 1)..s) = IF left + 1 > s THEN 0 ELSE s - (left + 1) + 1
    BY <1>1, FS_Interval
  <2>3. left + 1 <= s /\ s - (left + 1) + 1 = s - left
    BY <1>1
  <2>4. Cardinality((left + 1)..s) = s - left
    BY <1>1, <2>2, <2>3
  <2>5. QED
    BY <2>1, <2>4, Zenon
<1>3. page = {s \in (left + 1)..n : s - left <= PageLimit}
  <2> HIDE DEF left, n
  <2>1. QED
    BY <1>1, <1>2
<1>4. left + 1 \in page /\ page \in SUBSET (0..n)
  <2> HIDE DEF left, n, page
  <2>1. left + 1 <= n
    BY <1>1
  <2>2. QED
    BY <1>1, <1>3, <2>1
<1>5. end \in page /\ \A s \in page : s <= end
  <2>1. end = Max(page)
    BY DEF PageEnd
  <2> HIDE DEF left, n, page, end
  <2>2. QED
    BY <1>1, <1>4, <2>1, MaxIsGreatest
<1>6. /\ end \in (left + 1)..n /\ end <= left + PageLimit
      /\ end = n \/ end = left + PageLimit
  <2> HIDE DEF left, n, page, end
  <2>1. end \in (left + 1)..n /\ end - left <= PageLimit
    BY <1>3, <1>5
  <2>2. ASSUME end # n, end # left + PageLimit PROVE FALSE
    <3>1. end + 1 \in page
      BY <1>1, <1>3, <2>1, <2>2
    <3>2. QED
      BY <1>1, <1>5, <2>1, <3>1
  <2>3. QED
    BY <1>1, <2>1, <2>2
<1>7. QED
  BY <1>6

\* The newest cursor, given a floor read before, lies between that floor and the
\* end of the log.
LEMMA LatestBetween ==
  ASSUME FeedInv, NEW f \in Nat, f <= floor
  PROVE  LatestCursor(f) \in f..Len(hist)
<1>1. MaxSeq = (IF floor = Len(hist) THEN 0 ELSE Len(hist)) /\ floor \in 0..Len(hist)
      /\ Len(hist) \in Nat
  BY MaxSeqContiguous DEF FeedInv, TypeOK
<1>2. QED
  BY <1>1 DEF LatestCursor

\* A request leaves its consumer with what it has read.
LEMMA RequestInforms ==
  ASSUME FeedInv, ReaderInv, NEW r \in Readers, Request(r)
  PROVE  Informed(reader'[r]) /\ \A q \in Readers \ {r} : reader'[q] = reader[q]
<1> DEFINE x == reader[r]
           Moves(y) == reader' = [reader EXCEPT ![r] = y]
           Good == Informed(reader'[r]) /\ \A q \in Readers \ {r} : reader'[q] = reader[q]
<1>1. /\ reader \in [Readers -> ReaderState] /\ x \in ReaderState /\ Informed(x)
      /\ floor \in Nat /\ Len(hist) \in Nat /\ floor <= Len(hist)
      /\ state \in [Targets -> 0..Len(hist)]
  BY DEF FeedInv, TypeOK, ReaderInv
<1>2. x.pos \in Nat /\ x.floor \in Nat /\ x.cursor \in Nat
  BY <1>1 DEF ReaderState
<1>3. ASSUME NEW y, Moves(y), Informed(y) PROVE Good
  BY <1>1, <1>3
<1>4. ASSUME NEW c \in Nat, c <= Len(hist), reader' = Rebase(r, c) PROVE Good
  <2>1. Informed([FreshReader EXCEPT !.at = "ready", !.pos = c])
    BY <1>1, <1>4 DEF Informed, FreshReader
  <2>2. QED
    BY <1>3, <1>4, <2>1 DEF Rebase
<1>5. CASE StatusFloor(r)
  <2>1. Informed([x EXCEPT !.at = "cursor", !.floor = floor])
    BY <1>1, <1>2, <1>5 DEF Informed, StatusFloor, ReaderState
  <2>2. QED
    BY <1>3, <1>5, <2>1 DEF StatusFloor
<1>6. CASE StatusCursor(r)
  <2> DEFINE c == LatestCursor(x.floor)
             y == [x EXCEPT !.at = "states", !.cursor = c, !.left = Targets]
  <2>1. x.at = "cursor" /\ x.pos <= x.floor /\ x.floor <= floor
    BY <1>1, <1>6 DEF StatusCursor, Informed
  <2>2. c \in x.floor..Len(hist)
    BY <1>2, <2>1, LatestBetween
  <2> HIDE DEF c
  <2>3. Informed(y)
    BY <1>1, <1>2, <2>1, <2>2 DEF Informed, ReaderState
  <2>4. Moves(y)
    BY <1>6 DEF StatusCursor, c
  <2> HIDE DEF y
  <2>5. QED
    BY <1>3, <2>3, <2>4
<1>7. ASSUME NEW t \in Targets, StatusTarget(r, t) PROVE Good
  <2> DEFINE y == [x EXCEPT !.left = x.left \ {t}, !.seen = [x.seen EXCEPT ![t] = state[t]]]
  <2>1. x.at = "states" /\ t \in x.left /\ x.seen \in [Targets -> Nat]
    BY <1>1, <1>7 DEF StatusTarget, ReaderState
  <2>2. /\ y.at = "states" /\ y.pos = x.pos /\ y.floor = x.floor /\ y.cursor = x.cursor
        /\ y.left = x.left \ {t} /\ y.seen = [x.seen EXCEPT ![t] = state[t]]
    BY <1>1, <2>1 DEF ReaderState
  <2> HIDE DEF y
  <2>3. ASSUME NEW u \in Targets \ y.left, NEW s \in 1..y.cursor, hist[s].target = u
        PROVE  s <= y.seen[u]
    <3>1. s \in 1..Len(hist)
      BY <1>1, <1>2, <2>1, <2>2 DEF Informed
    <3>2. CASE u = t
      BY <2>1, <2>2, <2>3, <3>1, <3>2 DEF ReaderInv, StatesReflect
    <3>3. CASE u # t
      BY <1>1, <2>1, <2>2, <2>3, <3>3 DEF Informed
    <3>4. QED
      BY <3>2, <3>3
  <2>4. Informed(y)
    BY <1>1, <2>1, <2>2, <2>3 DEF Informed
  <2>5. Moves(y)
    BY <1>7 DEF StatusTarget, y
  <2>6. QED
    BY <1>3, <2>4, <2>5
<1>8. CASE StatusReply(r)
  BY <1>1, <1>2, <1>4, <1>8 DEF StatusReply, Informed
<1>9. CASE EventsFloor(r)
  <2>1. x.pos < floor => Informed([x EXCEPT !.at = "new"])
    BY <1>1, <1>2 DEF Informed, ReaderState
  <2>2. Informed([x EXCEPT !.at = "rows", !.floor = floor])
    BY <1>1, <1>2 DEF Informed, ReaderState
  <2>3. QED
    BY <1>3, <1>9, <2>1, <2>2 DEF EventsFloor
<1>10. ASSUME NEW at \in {"waiting", "selecting"}, Moves([x EXCEPT !.at = at]) PROVE Good
  <2>1. Informed([x EXCEPT !.at = at])
    BY <1>1, <1>2 DEF Informed, ReaderState
  <2>2. QED
    BY <1>3, <1>10, <2>1
<1>11. x.pos <= Len(hist)
  BY <1>1 DEF Informed
<1>12. CASE EventsRows(r)
  <2>1. CASE After(x.pos) # {}
    <3>1. PageEnd(x.pos) \in Nat /\ PageEnd(x.pos) <= Len(hist)
      BY <1>1, <1>2, <2>1, PageEndIs
    <3>2. QED
      BY <1>4, <1>12, <2>1, <3>1 DEF EventsRows
  <2>2. CASE After(x.pos) = {}
    BY <1>2, <1>4, <1>10, <1>11, <1>12, <2>2 DEF EventsRows
  <2>3. QED
    BY <2>1, <2>2
<1>13. CASE FetchObserved(r)
  BY <1>10, <1>13 DEF FetchObserved
<1>14. CASE WaitEnds(r)
  BY <1>2, <1>4, <1>11, <1>14 DEF WaitEnds
<1>15. QED
  BY <1>5, <1>6, <1>7, <1>8, <1>9, <1>12, <1>13, <1>14 DEF Request

\* The steps that are nobody's request.
LEMMA OthersInform ==
  ASSUME FeedInv, ReaderInv, [Next]_vars, ~\E r \in Readers : Request(r), NEW r \in Readers
  PROVE  Informed(reader'[r])
<1>1. reader \in [Readers -> ReaderState] /\ Informed(reader[r]) /\ reader[r] \in ReaderState
  BY DEF FeedInv, TypeOK, ReaderInv
<1>2. floor \in Nat /\ Len(hist) \in Nat
  BY DEF FeedInv, TypeOK
<1>3. CASE EndPass
  <2>1. reader'[r] = [reader[r] EXCEPT !.woken = reader[r].at = "selecting"]
    BY <1>3 DEF EndPass
  <2>2. QED
    BY <1>1, <2>1 DEF Informed, ReaderState
<1>4. CASE Crash
  <2>1. /\ reader'[r].pos = reader[r].pos /\ reader'[r].floor = 0
        /\ reader'[r].at = IF reader[r].at \in {"new", "cursor", "states"}
                           THEN "new" ELSE "ready"
    BY <1>4 DEF Crash, FreshReader
  <2>2. QED
    BY <1>1, <1>2, <2>1 DEF Informed
<1>5. CASE UNCHANGED reader
  BY <1>1, <1>5
<1>6. QED
  BY <1>3, <1>4, <1>5 DEF Next, Pass, Retain, BeginPass, Record, SuppressRepeat,
     OpenExitIncident, RetainWindow, RetainHeld, PruneBefore, Acknowledge, vars

\* The invariant of the consumers is inductive beside the one of the log.
LEMMA ReaderStep ==
  ASSUME FeedInv, ReaderInv, [Next]_vars
  PROVE  ReaderInv'
<1>1. FeedInv'
  BY FeedStep
<1>2. ASSUME NEW r \in Readers PROVE Informed(reader'[r]) /\ reader'[r] \in ReaderState
  <2>1. CASE \E q \in Readers : Request(q)
    BY <2>1, RequestInforms, <1>1 DEF ReaderInv, FeedInv, TypeOK
  <2>2. CASE ~\E q \in Readers : Request(q)
    BY <2>2, OthersInform, <1>1 DEF FeedInv, TypeOK
  <2>3. QED
    BY <2>1, <2>2
<1>3. \A r \in Readers : (Informed(reader[r]))'
  <2>1. ASSUME NEW r \in Readers, NEW x \in ReaderState, x = reader'[r]
        PROVE  (Informed(reader[r]))'
    <3>1. Informed(x)'
      BY <1>2, <2>1, StillInformed
    <3>2. QED
      BY <2>1, <3>1 DEF Informed
  <2>2. QED
    BY <1>2, <2>1
<1>4. QED
  BY <1>3, StatesStillReflect DEF ReaderInv

LEMMA ReaderStart == Init => ReaderInv
<1> SUFFICES ASSUME Init PROVE ReaderInv
  OBVIOUS
<1>1. hist = <<>> /\ Len(hist) = 0 /\ floor = 0
  BY DEF Init
<1>2. ASSUME NEW r \in Readers PROVE Informed(reader[r])
  <2>1. reader[r].at \in {"new", "ready"} /\ reader[r].pos = 0 /\ reader[r].floor = 0
    BY DEF Init, FreshReader
  <2>2. QED
    BY <1>1, <2>1 DEF Informed
<1>3. QED
  BY <1>1, <1>2 DEF ReaderInv, StatesReflect

LEMMA ReaderInvariant == Spec => []ReaderInv
BY ReaderStart, ReaderStep, FeedInvariant, PTL DEF Spec

\* A status answer misses nothing that lies before its cursor, for any number of
\* targets and consumers.
THEOREM StatusCovers == Spec => []StatusCoversCursor
<1>1. ReaderInv => StatusCoversCursor
  BY DEF ReaderInv, Informed, StatusCoversCursor
<1>2. QED
  BY <1>1, ReaderInvariant, PTL

-----------------------------------------------------------------------------
(* The feed implements RetainedLog.                                         *)

\* What one request changes of what RetainedLog sees.
LEMMA RequestSeen ==
  ASSUME FeedInv, NEW r \in Readers, NEW x, reader' = [reader EXCEPT ![r] = x]
  PROVE  /\ Positions' = [Positions EXCEPT ![r] = x.pos]
         /\ Modes' = [Modes EXCEPT ![r] = ModeOf(x.at)]
BY DEF FeedInv, TypeOK, Positions, Modes

\* A request whose answer is not given yet, or that only learned its cursor, is a
\* stutter; the others are steps of the retained log.
LEMMA RequestImplements ==
  ASSUME FeedInv, ReaderInv, NEW r \in Readers, Request(r)
  PROVE  [Log!Next]_(Log!vars)
<1> DEFINE x == reader[r]
           Moves(y) == reader' = [reader EXCEPT ![r] = y]
           Left == IF x.pos < floor THEN floor ELSE x.pos
<1>1. /\ x \in ReaderState /\ Informed(x) /\ x.pos \in Nat /\ x.cursor \in Nat
      /\ floor \in Nat /\ Len(hist) \in Nat /\ floor <= Len(hist) /\ x.pos <= Len(hist)
      /\ PageLimit \in Nat
  <2>1. x \in ReaderState /\ Informed(x) /\ floor \in 0..Len(hist)
    BY DEF FeedInv, TypeOK, ReaderInv
  <2>2. hist \in Seq(Event) /\ PageLimit \in Nat
    BY FeedAssumption DEF FeedInv, TypeOK
  <2>3. QED
    BY <2>1, <2>2 DEF ReaderState, Informed
<1>2. UNCHANGED <<hist, floor>>
  BY DEF Request, StatusFloor, StatusCursor, StatusTarget, StatusReply,
         EventsFloor, EventsRows, FetchObserved, WaitEnds
<1>3. Positions[r] = x.pos /\ Modes[r] = ModeOf(x.at)
  BY DEF Positions, Modes
<1>5. ASSUME NEW y, Moves(y), y.pos = x.pos
      PROVE  Positions' = Positions /\ Modes' = [Modes EXCEPT ![r] = ModeOf(y.at)]
  <2>1. Positions' = [Positions EXCEPT ![r] = Positions[r]]
    BY <1>3, <1>5, RequestSeen
  <2>2. [Positions EXCEPT ![r] = Positions[r]] = Positions
    BY DEF Positions
  <2>3. Modes' = [Modes EXCEPT ![r] = ModeOf(y.at)]
    BY <1>5, RequestSeen
  <2>4. QED
    BY <2>1, <2>2, <2>3, Zenon
<1>4. ASSUME NEW y, Moves(y), y.pos = x.pos, ModeOf(y.at) = ModeOf(x.at)
      PROVE  UNCHANGED Log!vars
  <2>1. [Modes EXCEPT ![r] = Modes[r]] = Modes
    BY DEF Modes
  <2>2. Positions' = Positions /\ Modes' = [Modes EXCEPT ![r] = Modes[r]]
    <3>1. Positions' = Positions /\ Modes' = [Modes EXCEPT ![r] = ModeOf(y.at)]
      BY <1>4, <1>5
    <3>2. ModeOf(y.at) = Modes[r]
      BY <1>3, <1>4, Zenon
    <3>3. QED
      BY <3>1, <3>2, Zenon
  <2>3. QED
    BY <1>2, <2>1, <2>2 DEF Log!vars
<1>6. ASSUME NEW c, reader' = Rebase(r, c)
      PROVE  /\ Positions' = [Positions EXCEPT ![r] = c]
             /\ Modes' = [Modes EXCEPT ![r] = "ready"]
  <2> DEFINE y == [FreshReader EXCEPT !.at = "ready", !.pos = c]
  <2>1. y.pos = c /\ y.at = "ready"
    BY DEF FreshReader
  <2>2. Moves(y)
    BY <1>6 DEF Rebase
  <2> HIDE DEF y
  <2>3. QED
    BY <2>1, <2>2, RequestSeen DEF ModeOf
<1>7. ASSUME NEW a, Moves([x EXCEPT !.at = a])
      PROVE  Positions' = Positions /\ Modes' = [Modes EXCEPT ![r] = ModeOf(a)]
  <2> DEFINE y == [x EXCEPT !.at = a]
  <2>1. y.pos = x.pos /\ y.at = a
    BY <1>1 DEF ReaderState
  <2> HIDE DEF y
  <2>2. QED
    BY <1>5, <1>7, <2>1 DEF y
<1>8. CASE StatusFloor(r)
  <2> DEFINE y == [x EXCEPT !.at = "cursor", !.floor = floor]
  <2>1. y.pos = x.pos /\ y.at = "cursor" /\ x.at = "new"
    BY <1>1, <1>8 DEF ReaderState, StatusFloor
  <2>2. Moves(y)
    BY <1>8 DEF StatusFloor
  <2> HIDE DEF y
  <2>3. ModeOf(y.at) = ModeOf(x.at)
    BY <2>1 DEF ModeOf
  <2>4. QED
    BY <1>4, <2>1, <2>2, <2>3
<1>9. CASE StatusCursor(r)
  <2> DEFINE y == [x EXCEPT !.at = "states", !.cursor = LatestCursor(x.floor), !.left = Targets]
  <2>1. y.pos = x.pos /\ y.at = "states" /\ x.at = "cursor"
    BY <1>1, <1>9 DEF ReaderState, StatusCursor
  <2>2. Moves(y)
    BY <1>9 DEF StatusCursor
  <2> HIDE DEF y
  <2>3. ModeOf(y.at) = ModeOf(x.at)
    BY <2>1 DEF ModeOf
  <2>4. QED
    BY <1>4, <2>1, <2>2, <2>3
<1>10. ASSUME NEW t \in Targets, StatusTarget(r, t) PROVE UNCHANGED Log!vars
  <2> DEFINE y == [x EXCEPT !.left = x.left \ {t}, !.seen = [x.seen EXCEPT ![t] = state[t]]]
  <2>1. y.pos = x.pos /\ y.at = x.at
    BY <1>1 DEF ReaderState
  <2>2. Moves(y)
    BY <1>10 DEF StatusTarget
  <2> HIDE DEF y
  <2>3. QED
    BY <1>4, <2>1, <2>2
<1>11. CASE StatusReply(r)
  <2>1. x.at = "states" /\ Modes[r] = "lost" /\ x.cursor \in x.pos..Len(hist)
    BY <1>1, <1>3, <1>11 DEF StatusReply, Informed, ModeOf
  <2>2. Log!Resume(r)
    BY <1>2, <1>3, <1>6, <1>11, <2>1 DEF StatusReply, Log!Resume
  <2>3. QED
    BY <2>2 DEF Log!Next
<1>12. CASE EventsFloor(r)
  <2>1. x.at = "ready" /\ Modes[r] = "ready"
    BY <1>3, <1>12 DEF EventsFloor, ModeOf
  <2>2. CASE x.pos < floor
    <3>1. Positions' = Positions /\ Modes' = [Modes EXCEPT ![r] = ModeOf("new")]
      <4>1. Moves([x EXCEPT !.at = "new"])
        BY <1>12, <2>2 DEF EventsFloor
      <4> HIDE DEF Moves
      <4>2. QED
        BY <1>7, <4>1
    <3>2. Log!FallBehind(r)
      BY <1>2, <1>3, <2>1, <2>2, <3>1 DEF ModeOf, Log!FallBehind
    <3>3. QED
      BY <3>2 DEF Log!Next
  <2>3. CASE ~(x.pos < floor)
    <3> DEFINE y == [x EXCEPT !.at = "rows", !.floor = floor]
    <3>1. y.pos = x.pos /\ y.at = "rows"
      BY <1>1 DEF ReaderState
    <3>2. Moves(y)
      BY <1>12, <2>3 DEF EventsFloor
    <3> HIDE DEF y
    <3>3. Positions' = Positions /\ Modes' = [Modes EXCEPT ![r] = "open"]
      BY <1>5, <3>1, <3>2 DEF ModeOf
    <3>4. Log!Ask(r)
      BY <1>1, <1>2, <1>3, <2>1, <2>3, <3>3 DEF Log!Ask
    <3>5. QED
      BY <3>4 DEF Log!Next
  <2>4. QED
    BY <2>2, <2>3
<1>13. CASE EventsRows(r)
  <2>1. x.at = "rows" /\ Modes[r] = "open" /\ Log!Left(r) = Left
    BY <1>3, <1>13 DEF EventsRows, ModeOf, Log!Left
  <2>2. CASE After(x.pos) # {}
    <3> DEFINE last == PageEnd(x.pos)
    <3>1. last \in (Left + 1)..Len(hist) /\ last <= Left + PageLimit
          /\ (last = Len(hist) \/ last = Left + PageLimit)
      BY <1>1, <2>2, PageEndIs
    <3>2. reader' = Rebase(r, last)
      BY <1>13, <2>2 DEF EventsRows
    <3> HIDE DEF last
    <3>3. Log!Answer(r)
      BY <1>2, <1>6, <2>1, <3>1, <3>2 DEF Log!Answer
    <3>4. QED
      BY <3>3 DEF Log!Next
  <2>3. CASE After(x.pos) = {}
    <3>1. Left = Len(hist)
      <4>1. After(x.pos) = (Left + 1)..Len(hist)
        BY <1>1, AfterIs
      <4>2. QED
        BY <1>1, <2>3, <4>1
    <3>2. UNCHANGED Positions /\ Modes' = [Modes EXCEPT ![r] = "ready"]
      <4>1. CASE reader' = Rebase(r, x.pos)
        BY <1>3, <1>6, <4>1 DEF Positions
      <4>2. CASE Moves([x EXCEPT !.at = "waiting"])
        <5> HIDE DEF Moves
        <5>1. Positions' = Positions /\ Modes' = [Modes EXCEPT ![r] = ModeOf("waiting")]
          BY <1>7, <4>2
        <5>2. QED
          BY <5>1 DEF ModeOf
      <4>3. reader' = Rebase(r, x.pos) \/ Moves([x EXCEPT !.at = "waiting"])
        BY <1>13, <2>3 DEF EventsRows
      <4> HIDE DEF Moves
      <4>4. QED
        BY <4>1, <4>2, <4>3
    <3>3. Log!AnswerNothing(r)
      BY <1>2, <2>1, <3>1, <3>2 DEF Log!AnswerNothing
    <3>4. QED
      BY <3>3 DEF Log!Next
  <2>4. QED
    BY <2>2, <2>3
<1>14. CASE FetchObserved(r)
  <2> DEFINE y == [x EXCEPT !.at = "selecting"]
  <2>1. y.pos = x.pos /\ y.at = "selecting" /\ x.at = "waiting"
    BY <1>1, <1>14 DEF ReaderState, FetchObserved
  <2>2. Moves(y)
    BY <1>14 DEF FetchObserved
  <2> HIDE DEF y
  <2>3. ModeOf(y.at) = ModeOf(x.at)
    BY <2>1 DEF ModeOf
  <2>4. QED
    BY <1>4, <2>1, <2>2, <2>3
<1>15. CASE WaitEnds(r)
  <2>1. x.at = "selecting" /\ reader' = Rebase(r, x.pos)
    BY <1>15 DEF WaitEnds
  <2>2. Positions' = [Positions EXCEPT ![r] = Positions[r]]
        /\ Modes' = [Modes EXCEPT ![r] = Modes[r]]
    BY <1>3, <1>6, <2>1 DEF ModeOf
  <2>4. [Positions EXCEPT ![r] = Positions[r]] = Positions
        /\ [Modes EXCEPT ![r] = Modes[r]] = Modes
    BY DEF Positions, Modes
  <2>3. QED
    BY <1>2, <2>2, <2>4 DEF Log!vars
<1>16. QED
  BY <1>8, <1>9, <1>10, <1>11, <1>12, <1>13, <1>14, <1>15 DEF Request

\* A pass appends, a prune forgets, a crash interrupts, and nothing else the loop
\* or an acknowledgement does is seen.
LEMMA OthersImplement ==
  ASSUME FeedInv, [Next]_vars, ~\E r \in Readers : Request(r)
  PROVE  [Log!Next]_(Log!vars)
<1>1. reader \in [Readers -> ReaderState] /\ Len(hist) \in Nat /\ floor \in Nat
  BY DEF FeedInv, TypeOK
<1>2. ASSUME UNCHANGED reader
      PROVE  UNCHANGED <<Positions, Modes>>
  BY <1>2 DEF Positions, Modes
<1>3. ASSUME NEW t \in Targets, NEW exit \in BOOLEAN, NEW replaced \in BOOLEAN,
             Record(t, exit, replaced)
      PROVE  Log!Record
  <2>1. PICK e : hist' = Append(hist, e)
    BY <1>3 DEF Record
  <2>2. hist \in Seq(Event) /\ hist' \in Seq(Event)
    BY FeedTyped DEF FeedInv, TypeOK
  <2>3. Len(hist') = Len(hist) + 1 /\ \A s \in 1..Len(hist) : hist'[s] = hist[s]
    BY <2>1, <2>2
  <2>4. SubSeq(hist', 1, Len(hist)) = hist
    BY <1>1, <2>2, <2>3
  <2>5. UNCHANGED <<floor, Positions, Modes>>
    BY <1>2, <1>3 DEF Record
  <2>6. QED
    BY <2>2, <2>3, <2>4, <2>5 DEF Log!Record
<1>4. CASE PruneBefore
  <2>1. floor' \in floor..Len(hist)
    BY <1>1, <1>4, FloorRises, FeedTyped DEF PruneBefore, TypeOK
  <2>2. Log!Forget
    BY <1>2, <1>4, <2>1 DEF PruneBefore, Log!Forget
  <2>3. QED
    BY <2>2 DEF Log!Next
<1>5. CASE EndPass
  <2>1. \A r \in Readers : reader'[r].pos = reader[r].pos /\ reader'[r].at = reader[r].at
    BY <1>1, <1>5 DEF EndPass, ReaderState
  <2>2. UNCHANGED <<Positions, Modes>>
    BY <2>1 DEF Positions, Modes
  <2>3. QED
    BY <1>5, <2>2 DEF EndPass, Log!vars
<1>6. CASE Crash
  <2>1. ASSUME NEW r \in Readers
        PROVE  /\ reader'[r].pos = reader[r].pos
               /\ ModeOf(reader'[r].at) = IF Modes[r] = "open" THEN "ready" ELSE Modes[r]
    <3>1. reader'[r] = IF reader[r].at \in {"new", "cursor", "states"}
                       THEN [FreshReader EXCEPT !.pos = reader[r].pos]
                       ELSE [FreshReader EXCEPT !.at = "ready", !.pos = reader[r].pos]
      BY <1>6 DEF Crash
    <3>2. Modes[r] = ModeOf(reader[r].at)
      BY DEF Modes
    <3>3. QED
      BY <3>1, <3>2 DEF FreshReader, ModeOf
  <2>2. UNCHANGED Positions
    BY <2>1 DEF Positions
  <2>3. Modes' = [r \in Readers |-> IF Modes[r] = "open" THEN "ready" ELSE Modes[r]]
    BY <2>1 DEF Modes
  <2>4. Log!Interrupt
    BY <1>6, <2>2, <2>3 DEF Crash, Log!Interrupt
  <2>5. QED
    BY <2>4 DEF Log!Next
<1>7. CASE UNCHANGED <<hist, floor, reader>>
  BY <1>2, <1>7 DEF Log!vars
<1>8. QED
  <2>1. CASE \E t \in Targets, exit, replaced \in BOOLEAN : Record(t, exit, replaced)
    BY <1>3, <2>1 DEF Log!Next
  <2>2. CASE ~\E t \in Targets, exit, replaced \in BOOLEAN : Record(t, exit, replaced)
    BY <1>4, <1>5, <1>6, <1>7, <2>2 DEF Next, Pass, Retain, BeginPass, SuppressRepeat,
       OpenExitIncident, RetainWindow, RetainHeld, Acknowledge, vars
  <2>3. QED
    BY <2>1, <2>2

\* The feed, with all its queries, prunes and crashes, is a retained log for any
\* number of consumers: pages are the next events in order, only a consumer that
\* missed something is told so, and none is taken back.
THEOREM FeedKeepsTheLog == Spec => KeepsTheLog
<1>1. Init => Log!Init
  <2> SUFFICES ASSUME Init PROVE Log!Init
    OBVIOUS
  <2>1. hist = <<>> /\ floor = 0
    BY DEF Init
  <2>2. \A r \in Readers : reader[r].pos = 0 /\ reader[r].at \in {"new", "ready"}
    BY DEF Init, FreshReader
  <2>3. Positions = [r \in Readers |-> 0]
    BY <2>2 DEF Positions
  <2>4. Modes \in [Readers -> {"lost", "ready"}]
    BY <2>2 DEF Modes, ModeOf
  <2>5. QED
    BY <2>1, <2>3, <2>4 DEF Log!Init
<1>2. FeedInv /\ ReaderInv /\ [Next]_vars => [Log!Next]_(Log!vars)
  BY RequestImplements, OthersImplement
<1>3. QED
  BY <1>1, <1>2, FeedInvariant, ReaderInvariant, PTL DEF Spec, KeepsTheLog, Log!Spec
=============================================================================
