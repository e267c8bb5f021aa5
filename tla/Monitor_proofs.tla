--------------------------- MODULE Monitor_proofs ---------------------------
(***************************************************************************)
(* Proofs about Monitor, for any targets and policies, any sightings the   *)
(* adapters can come back with, any transport and any bounds.              *)
(***************************************************************************)
EXTENDS Monitor, Extrema

-----------------------------------------------------------------------------
(* Lists of conditions.                                                     *)

LEMMA AppendedSet ==
  ASSUME NEW S, NEW s \in Seq(S), NEW x \in S
  PROVE  Append(s, x) \in Seq(S) /\ ToSet(Append(s, x)) = ToSet(s) \cup {x}
<1>1. /\ Append(s, x) \in Seq(S) /\ Len(Append(s, x)) = Len(s) + 1
      /\ Append(s, x)[Len(s) + 1] = x
      /\ \A i \in 1..Len(s) : Append(s, x)[i] = s[i]
  OBVIOUS
<1>2. DOMAIN Append(s, x) = 1..(Len(s) + 1) /\ DOMAIN s = 1..Len(s) /\ Len(s) \in Nat
  BY <1>1
<1> DEFINE r == Append(s, x)
<1> HIDE DEF r
<1>3. ASSUME NEW y \in ToSet(r) PROVE y \in ToSet(s) \cup {x}
  <2>1. PICK i \in 1..(Len(s) + 1) : y = r[i]
    BY <1>2 DEF ToSet, r
  <2>2. CASE i = Len(s) + 1
    BY <1>1, <2>1, <2>2 DEF r
  <2>3. CASE i \in 1..Len(s)
    BY <1>1, <1>2, <2>1, <2>3 DEF ToSet, r
  <2>4. QED
    BY <1>2, <2>2, <2>3
<1>4. ASSUME NEW y \in ToSet(s) \cup {x} PROVE y \in ToSet(r)
  <2>1. CASE y = x
    BY <1>1, <1>2, <2>1 DEF ToSet, r
  <2>2. CASE y \in ToSet(s)
    <3>1. PICK i \in 1..Len(s) : y = s[i]
      BY <1>2, <2>2 DEF ToSet
    <3>2. i \in 1..(Len(s) + 1) /\ y = r[i]
      BY <1>1, <1>2, <3>1 DEF r
    <3>3. QED
      BY <1>2, <3>2 DEF ToSet, r
  <2>3. QED
    BY <2>1, <2>2
<1>5. QED
  BY <1>1, <1>3, <1>4 DEF r

LEMMA HeadAndTail ==
  ASSUME NEW S, NEW s \in Seq(S), s # <<>>
  PROVE  /\ Head(s) \in S /\ Tail(s) \in Seq(S) /\ Head(s) \in ToSet(s)
         /\ ToSet(s) \subseteq ToSet(Tail(s)) \cup {Head(s)}
         /\ ToSet(Tail(s)) \subseteq ToSet(s)
<1>1. /\ Len(s) \in Nat \ {0} /\ DOMAIN s = 1..Len(s)
      /\ Tail(s) \in Seq(S) /\ Len(Tail(s)) = Len(s) - 1
      /\ \A i \in 1..(Len(s) - 1) : Tail(s)[i] = s[i + 1]
      /\ Head(s) = s[1]
  OBVIOUS
<1>2. DOMAIN Tail(s) = 1..(Len(s) - 1)
  BY <1>1
<1> DEFINE r == Tail(s)
<1> HIDE DEF r
<1>3. 1 \in DOMAIN s /\ Head(s) \in S
  BY <1>1
<1>4. ASSUME NEW y \in ToSet(s) PROVE y \in ToSet(r) \cup {Head(s)}
  <2>1. PICK i \in 1..Len(s) : y = s[i]
    BY <1>1 DEF ToSet
  <2>2. CASE i = 1
    BY <1>1, <2>1, <2>2
  <2>3. CASE i # 1
    <3>1. i - 1 \in 1..(Len(s) - 1) /\ (i - 1) + 1 = i
      BY <1>1, <2>3
    <3>2. y = r[i - 1]
      BY <1>1, <2>1, <3>1 DEF r
    <3>3. QED
      BY <1>2, <3>1, <3>2 DEF ToSet, r
  <2>4. QED
    BY <2>2, <2>3
<1>5. ASSUME NEW y \in ToSet(r) PROVE y \in ToSet(s)
  <2>1. PICK i \in 1..(Len(s) - 1) : y = r[i]
    BY <1>2 DEF ToSet, r
  <2>2. i + 1 \in 1..Len(s) /\ y = s[i + 1]
    BY <1>1, <2>1 DEF r
  <2>3. QED
    BY <1>1, <2>2 DEF ToSet
<1>6. QED
  BY <1>1, <1>3, <1>4, <1>5 DEF ToSet, r

LEMMA ConditionsAre ==
  /\ Conditions = {"exit", "observation_lost", "input_requested", "idle", "no_progress",
                   "quiet", "overdue"}
  /\ Len(ConditionOrder) = 7
  /\ \A c \in Conditions : \E n \in 1..7 : c = ConditionOrder[n]
  /\ \A n \in 1..7 : ConditionOrder[n] \in Conditions
<1>1. Len(ConditionOrder) = 7 /\ DOMAIN ConditionOrder = 1..7
  BY DEF ConditionOrder
<1>2. Conditions = {ConditionOrder[n] : n \in 1..7}
  BY <1>1 DEF Conditions, ToSet
<1>3. 1..7 = {1, 2, 3, 4, 5, 6, 7}
  OBVIOUS
<1>4. {ConditionOrder[n] : n \in {1, 2, 3, 4, 5, 6, 7}}
        = {"exit", "observation_lost", "input_requested", "idle", "no_progress",
           "quiet", "overdue"}
  BY DEF ConditionOrder
<1>5. QED
  BY <1>1, <1>2, <1>3, <1>4

\* What is opened is what is asked about and not closed: the two lists of a decision
\* between them are what the policy asks about.
IsOpened(obs, p, t, open, close) ==
  /\ open \in Seq(Conditions)
  /\ ToSet(open) = p.alertOn \ close
  /\ \A c \in ToSet(open) : Holds(c, obs, p, t)

LEMMA OpensIs ==
  ASSUME NEW obs, NEW p, p.alertOn \subseteq Conditions, NEW t
  PROVE  IsOpened(obs, p, t, Opens(obs, p, t), Closes(obs, p, t))
<1> DEFINE want(n) == ConditionOrder[n] \in p.alertOn /\ Holds(ConditionOrder[n], obs, p, t)
           add(s, n) == IF want(n) THEN Append(s, ConditionOrder[n]) ELSE s
           is(f) == f = [n \in 0..7 |-> IF n = 0 THEN <<>> ELSE add(f[n - 1], n)]
           f0 == CHOOSE f : is(f)
<1>1. Opens(obs, p, t) = f0[7]
  BY ConditionsAre DEF Opens
<1> HIDE DEF add
<1>2. \E f : is(f)
  <2> DEFINE s1 == add(<<>>, 1)
             s2 == add(s1, 2)
             s3 == add(s2, 3)
             s4 == add(s3, 4)
             s5 == add(s4, 5)
             s6 == add(s5, 6)
             s7 == add(s6, 7)
             list == <<s1, s2, s3, s4, s5, s6, s7>>
             g == [n \in 0..7 |-> IF n = 0 THEN <<>> ELSE list[n]]
  <2>1. /\ g[0] = <<>> /\ g[1] = s1 /\ g[2] = s2 /\ g[3] = s3 /\ g[4] = s4 /\ g[5] = s5
        /\ g[6] = s6 /\ g[7] = s7
    <3> HIDE DEF s1, s2, s3, s4, s5, s6, s7
    <3>1. QED
      OBVIOUS
  <2> HIDE DEF g
  <2>2. \A n \in 1..7 : g[n] = add(g[n - 1], n)
    <3>1. 1..7 = {1, 2, 3, 4, 5, 6, 7}
      OBVIOUS
    <3>2. QED
      BY <2>1, <3>1
  <2>3. g = [n \in 0..7 |-> g[n]]
    BY DEF g
  <2>4. is(g)
    BY <2>1, <2>2, <2>3
  <2>5. QED
    BY <2>4
<1>3. is(f0)
  BY <1>2, Zenon
<1> HIDE DEF f0
<1>4. f0[0] = <<>> /\ \A n \in 1..7 : f0[n] = add(f0[n - 1], n)
  BY <1>3
<1> DEFINE good(n) == /\ f0[n] \in Seq(Conditions)
                      /\ ToSet(f0[n]) = {ConditionOrder[k] : k \in {k \in 1..n : want(k)}}
<1> HIDE DEF want
<1>5. good(0)
  BY <1>4 DEF ToSet
<1>6. ASSUME NEW n \in 1..7, good(n - 1) PROVE good(n)
  <2>1. f0[n] = IF want(n) THEN Append(f0[n - 1], ConditionOrder[n]) ELSE f0[n - 1]
    BY <1>4 DEF add
  <2>2. 1..n = 1..(n - 1) \cup {n}
    OBVIOUS
  <2>3. CASE want(n)
    <3>1. /\ f0[n] \in Seq(Conditions)
          /\ ToSet(f0[n]) = ToSet(f0[n - 1]) \cup {ConditionOrder[n]}
      BY <1>6, <2>1, <2>3, AppendedSet, ConditionsAre, SMTT(30)
    <3>2. {k \in 1..n : want(k)} = {k \in 1..(n - 1) : want(k)} \cup {n}
      BY <2>2, <2>3
    <3>3. QED
      BY <1>6, <3>1, <3>2
  <2>4. CASE ~want(n)
    <3>1. {k \in 1..n : want(k)} = {k \in 1..(n - 1) : want(k)}
      BY <2>2, <2>4
    <3>2. QED
      BY <1>6, <2>1, <2>4, <3>1
  <2>5. QED
    BY <2>3, <2>4
<1> HIDE DEF good
<1>7. good(7)
  <2>1. good(1) /\ good(2)
    BY <1>5, <1>6
  <2>2. good(3) /\ good(4)
    BY <1>6, <2>1
  <2>3. good(5) /\ good(6)
    BY <1>6, <2>2
  <2>4. QED
    BY <1>6, <2>3
<1>8. ASSUME NEW c
      PROVE  c \in ToSet(f0[7]) <=> c \in p.alertOn /\ Holds(c, obs, p, t)
  <2>1. c \in ToSet(f0[7]) <=> \E k \in 1..7 : want(k) /\ c = ConditionOrder[k]
    BY <1>7 DEF good
  <2>2. QED
    BY <2>1, ConditionsAre DEF want
<1>9. QED
  BY <1>1, <1>7, <1>8 DEF good, Closes, IsOpened
-----------------------------------------------------------------------------
(* What an adapter can come back with, and what is decided of it.           *)

Sight == [live : BOOLEAN, status : Statuses, id : Sessions \cup {""}, since : Nat,
          activity : Nat, reason : BOOLEAN]

LEMMA SightingsAre ==
  ASSUME NEW time \in Nat
  PROVE  Sightings(time) \subseteq Sight
<1> DEFINE stamps == Stamps \cup {time}
           Sees(kind, live, statuses, ids, since, activity, reasons) ==
             IF kind \in Kinds
             THEN [live : {live}, status : statuses, id : ids, since : since,
                   activity : activity, reason : reasons]
             ELSE {}
           all == {Sees("unseen", FALSE, {""}, {""}, {0}, {0}, BOOLEAN),
                   Sees("record", FALSE, {""}, Sessions, {0}, {0}, {TRUE}),
                   Sees("unreadable", TRUE, {""}, Sessions, {0}, stamps, BOOLEAN),
                   Sees("readable", TRUE, Readings \ {"idle"}, Sessions, {0}, stamps, {FALSE}),
                   Sees("readable", TRUE, Readings \cap {"idle"}, Sessions, stamps, stamps, {FALSE}),
                   Sees("exited", FALSE, {"exited"}, Sessions, {0}, {0}, {FALSE})}
<1>1. stamps \subseteq Nat /\ Readings \subseteq Statuses
  BY MonitorAssumption DEF Statuses
<1>2. ASSUME NEW kind, NEW live \in BOOLEAN, NEW statuses \in SUBSET Statuses,
             NEW ids \in SUBSET (Sessions \cup {""}),
             NEW since \in SUBSET Nat, NEW activity \in SUBSET Nat,
             NEW reasons \in SUBSET BOOLEAN
      PROVE  Sees(kind, live, statuses, ids, since, activity, reasons) \subseteq Sight
  BY DEF Sight
<1>3. \A S \in all : S \subseteq Sight
  <2>1. {""} \subseteq Statuses /\ {"exited"} \subseteq Statuses
    BY DEF Statuses
  <2>2. Readings \ {"idle"} \subseteq Statuses /\ Readings \cap {"idle"} \subseteq Statuses
    BY <1>1
  <2>3. {0} \subseteq Nat /\ {TRUE} \subseteq BOOLEAN /\ {FALSE} \subseteq BOOLEAN
    OBVIOUS
  <2> HIDE DEF Sees, stamps
  <2>4. /\ Sees("unseen", FALSE, {""}, {""}, {0}, {0}, BOOLEAN) \subseteq Sight
        /\ Sees("record", FALSE, {""}, Sessions, {0}, {0}, {TRUE}) \subseteq Sight
        /\ Sees("unreadable", TRUE, {""}, Sessions, {0}, stamps, BOOLEAN) \subseteq Sight
    BY <1>1, <1>2, <2>1, <2>3
  <2>5. /\ Sees("readable", TRUE, Readings \ {"idle"}, Sessions, {0}, stamps, {FALSE}) \subseteq Sight
        /\ Sees("readable", TRUE, Readings \cap {"idle"}, Sessions, stamps, stamps, {FALSE}) \subseteq Sight
        /\ Sees("exited", FALSE, {"exited"}, Sessions, {0}, {0}, {FALSE}) \subseteq Sight
    BY <1>1, <1>2, <2>1, <2>2, <2>3
  <2>6. QED
    BY <2>4, <2>5
<1>4. Sightings(time) = UNION all
  BY DEF Sightings
<1> HIDE DEF all
<1>5. QED
  BY <1>3, <1>4

LEMMA PolicyIs ==
  ASSUME NEW t \in Targets
  PROVE  PolicyOf[t] \in Policies /\ PolicyOf[t].alertOn \subseteq Conditions
BY MonitorAssumption DEF Policies

\* A row that stands for a run says which.
Placed(row) == row \in Row /\ (row.row => row.gen # 0)

LEMMA RowIs ==
  ASSUME NEW row \in Row
  PROVE  /\ row.row \in BOOLEAN /\ row.session \in Sessions \cup {""} /\ row.gen \in Nat
         /\ row.status \in Statuses /\ row.at \in Nat /\ row.reason \in BOOLEAN
         /\ row.reasonAt \in Nat
         /\ DOMAIN row = {"row", "session", "gen", "status", "at", "reason", "reasonAt"}
BY DEF Row

LEMMA GenerationIs ==
  ASSUME NEW row, Placed(row), NEW id
  PROVE  /\ GenerationFor(row, id) \in Nat \ {0}
         /\ row.row => GenerationFor(row, id) >= row.gen
<1> DEFINE same == id = "" \/ row.session = "" \/ id = row.session
           g == GenerationFor(row, id)
<1>1. row.row \in BOOLEAN /\ row.gen \in Nat /\ (row.row => row.gen # 0)
  BY RowIs DEF Placed
<1>2. /\ ~row.row => g = 1
      /\ row.row /\ same => g = row.gen
      /\ row.row /\ ~same => g = row.gen + 1
  BY Zenon DEF GenerationFor
<1> HIDE DEF same, g
<1>3. g \in Nat \ {0} /\ (row.row => g >= row.gen)
  BY <1>1, <1>2
<1>4. QED
  BY <1>3 DEF g

\* What a sighting makes of a row that no later one has overtaken.
IsApplied(row, s, gen, time, r) ==
  /\ Placed(r)
  /\ row.row => r.row /\ r.gen >= row.gen
  /\ s.status # "" => r.row /\ r.gen = gen /\ r.status = s.status /\ r.at = time
  /\ s.status = "" => /\ row.row => r.gen = row.gen /\ r.status = row.status
                      /\ ~row.row => r.status = row.status \/ r.status = ""
                      /\ r.at \in {row.at, 0}

LEMMA AppliedIs ==
  ASSUME NEW row, Placed(row), NEW s \in Sight, NEW gen \in Nat \ {0},
         row.row => gen >= row.gen, now \in Nat, row.at < now
  PROVE  IsApplied(row, s, gen, now, Applied(row, s, gen))
<1>1. /\ s.status \in Statuses /\ s.id \in Sessions \cup {""} /\ s.reason \in BOOLEAN
      /\ "" \in Statuses
  BY DEF Sight, Statuses
<1>2. /\ row \in Row /\ row.row \in BOOLEAN /\ row.at \in Nat /\ row.gen \in Nat
      /\ row.reasonAt \in Nat /\ row.reason \in BOOLEAN /\ row.status \in Statuses
      /\ row.session \in Sessions \cup {""}
      /\ DOMAIN row = {"row", "session", "gen", "status", "at", "reason", "reasonAt"}
      /\ row.row => row.gen # 0
  BY RowIs DEF Placed
<1>7. row.at \in Nat /\ row.gen \in Nat /\ ~(now <= row.at) /\ (row.row => ~(gen < row.gen))
  <2>1. row.at \in Nat /\ row.gen \in Nat
    BY <1>2, Zenon
  <2>2. QED
    BY <2>1
<1> DEFINE r == Applied(row, s, gen)
<1>3. CASE s.status # ""
  <2> DEFINE newer == gen > row.gen \/ now > row.reasonAt
             why == IF newer THEN s.reason ELSE row.reason
             whyAt == IF newer THEN now ELSE row.reasonAt
             new == [row |-> TRUE, session |-> s.id, gen |-> gen, status |-> s.status,
                     at |-> now, reason |-> why, reasonAt |-> whyAt]
  <2>1. ~(row.row /\ (gen < row.gen \/ (gen = row.gen /\ now <= row.at)))
    BY <1>7, Zenon
  <2>2. r = new
    BY <1>3, <2>1, Zenon DEF Applied
  <2>3. why \in BOOLEAN /\ whyAt \in Nat
    BY <1>1, <1>2
  <2> HIDE DEF r, why, whyAt
  <2>4. /\ new \in Row /\ new.row = TRUE /\ new.gen = gen /\ new.status = s.status
        /\ new.at = now
    BY <1>1, <2>3 DEF Row
  <2> HIDE DEF new
  <2>5. IsApplied(row, s, gen, now, r)
    BY <1>2, <1>3, <2>2, <2>4 DEF IsApplied, Placed
  <2>6. QED
    BY <2>5 DEF r
<1>4. CASE s.status = ""
  <2> DEFINE fresh == [NoRow EXCEPT !.row = TRUE, !.gen = gen, !.reason = TRUE, !.reasonAt = now]
             held == [row EXCEPT !.reason = TRUE, !.reasonAt = now]
  <2>1. r = row \/ (~row.row /\ r = fresh) \/ (row.row /\ r = held)
    BY <1>4, Zenon DEF Applied
  <2>2. CASE r = row
    <3> HIDE DEF r
    <3>1. IsApplied(row, s, gen, now, r)
      <4>1. row.gen >= row.gen
        BY <1>7
      <4>2. Placed(r) /\ r.row = row.row /\ r.gen = row.gen /\ r.status = row.status
            /\ r.at = row.at
        BY <2>2, Zenon
      <4>3. QED
        BY <1>4, <4>1, <4>2 DEF IsApplied
    <3>2. QED
      BY <3>1 DEF r
  <2>3. CASE ~row.row /\ r = fresh
    <3>1. /\ fresh \in Row /\ fresh.row = TRUE /\ fresh.gen = gen /\ fresh.status = ""
          /\ fresh.at = 0
      BY <1>1 DEF NoRow, Row, Statuses
    <3> HIDE DEF r, fresh
    <3>2. Placed(r) /\ r.status = "" /\ r.at \in {row.at, 0}
      BY <2>3, <3>1 DEF Placed
    <3>3. IsApplied(row, s, gen, now, r)
      <4>1. ~row.row
        BY <2>3
      <4>2. ~(s.status # "")
        BY <1>4
      <4>3. QED
        BY <3>2, <4>1, <4>2 DEF IsApplied
    <3>4. QED
      BY <3>3 DEF r
  <2>4. CASE row.row /\ r = held
    <3>1. /\ held.row = row.row /\ held.session = row.session /\ held.gen = row.gen
          /\ held.status = row.status /\ held.at = row.at /\ held.reason = TRUE
          /\ held.reasonAt = now /\ DOMAIN held = DOMAIN row
      BY <1>2
    <3>2. held \in Row
      BY <1>2 DEF Row
    <3> HIDE DEF r, held
    <3>3. /\ Placed(r) /\ r.row /\ r.gen = row.gen /\ r.status = row.status
          /\ r.at \in {row.at, 0} /\ r.gen >= row.gen
      <4>1. r.row = row.row /\ r.gen = row.gen /\ r.status = row.status /\ r.at = row.at
        BY <2>4, <3>1, Zenon
      <4>2. r.row /\ r.gen # 0 /\ r \in Row /\ row.gen \in Nat
        BY <1>2, <2>4, <3>2, <4>1, Zenon
      <4>3. Placed(r)
        BY <4>2 DEF Placed
      <4>4. QED
        BY <4>1, <4>2, <4>3
    <3>4. IsApplied(row, s, gen, now, r)
      BY <1>4, <2>4, <3>3, Zenon DEF IsApplied
    <3>5. QED
      BY <3>4 DEF r
  <2>5. QED
    BY <2>1, <2>2, <2>3, <2>4
<1>5. QED
  BY <1>3, <1>4

\* An alert about silence comes a whole threshold after an override that lapsed.
LEMMA OverrideBinds ==
  ASSUME NEW obs, obs.since \in Nat, obs.activity \in Nat, obs.floor \in Nat,
         NEW p \in Policies, NEW t \in Nat, NEW c \in Silences, Holds(c, obs, p, t)
  PROVE  p.quietUntil = 0 \/ t >= p.quietUntil + Threshold(c, p)
<1> SUFFICES ASSUME p.quietUntil # 0 PROVE t >= p.quietUntil + Threshold(c, p)
  OBVIOUS
<1>1. /\ p.quietUntil \in Nat /\ p.idleGrace \in Nat /\ p.noProgressAfter \in Nat
      /\ p.quietAfter \in Nat
  BY DEF Policies
<1>2. ~SuppressedBy(p, t)
  BY DEF Holds, Silences
<1>3. OverrideFloor(p, t) = p.quietUntil
  BY <1>1, <1>2 DEF SuppressedBy, OverrideFloor
<1>4. \A time \in Nat : From(time, obs, p, t) \in Nat /\ From(time, obs, p, t) >= p.quietUntil
  BY <1>1, <1>3 DEF From, LaterOf
<1>5. \/ c = "idle" /\ Reached(From(obs.since, obs, p, t), p.idleGrace, t)
      \/ c = "no_progress" /\ Exceeded(From(obs.activity, obs, p, t), p.noProgressAfter, t)
      \/ c = "quiet" /\ Exceeded(From(obs.activity, obs, p, t), p.quietAfter, t)
  BY DEF Holds, Silences, Idle
<1>6. \/ Threshold(c, p) = p.idleGrace /\ c = "idle"
      \/ Threshold(c, p) = p.noProgressAfter + 1 /\ c = "no_progress"
      \/ Threshold(c, p) = p.quietAfter + 1 /\ c = "quiet"
  BY DEF Threshold, Silences
<1> DEFINE a == From(obs.since, obs, p, t)
           b == From(obs.activity, obs, p, t)
<1>7. a \in Nat /\ a >= p.quietUntil /\ b \in Nat /\ b >= p.quietUntil
  BY <1>4
<1> HIDE DEF a, b
<1>8. CASE c = "idle"
  BY <1>1, <1>5, <1>6, <1>7, <1>8 DEF Reached, a
<1>9. CASE c # "idle"
  BY <1>1, <1>5, <1>6, <1>7, <1>9 DEF Exceeded, b
<1>10. QED
  BY <1>8, <1>9
-----------------------------------------------------------------------------
(* The inductive invariant: what has its type, what an announcement under   *)
(* way rests on, what is known of each incident, what a look leaves open,   *)
(* what the log says of each run, and what an override still rules out.     *)

Loop ==
  [at : {"idle", "observe", "apply", "send", "sent", "mark"}, todo : SUBSET Targets,
   seen : {<<>>} \cup [Targets -> Sight], target : Targets \cup {""}, gen : Nat,
   open : Seq(Conditions), close : SUBSET Conditions, incident : Nat,
   outcome : {"", "delivered", "failed", "unknown"}]

Looks == [gen : Nat, open : SUBSET Conditions]

Busy == loop.at \in {"apply", "send", "sent", "mark"}

Announcing == loop.at \in {"send", "sent", "mark"}

\* The targets this pass has still to record.
Pending == IF Busy THEN loop.todo \ {loop.target} ELSE loop.todo

Types ==
  /\ TypeOK
  /\ loop \in Loop
  /\ loop.at # "idle" => loop.seen \in [Targets -> Sight]
  /\ looked \in [Targets -> Looks]
  /\ \A t \in Targets : Placed(state[t])
  /\ Busy => /\ loop.target \in Targets /\ loop.gen # 0
             /\ ToSet(loop.open) \subseteq PolicyOf[loop.target].alertOn

Announced ==
  Announcing =>
    /\ loop.open # <<>>
    /\ loop.incident \in OpenFor(loop.target, Head(loop.open), loop.gen)
    /\ loop.at # "mark" =>
         ShouldAttempt(loop.incident) /\ ~incidents[loop.incident].notified
    /\ loop.at = "sent" => loop.outcome \in Outcomes
    /\ loop.at = "mark" => incidents[loop.incident].outcome = "delivered"

\* An alert that has left and is not yet on record.
Due(i) == IF loop.at = "sent" /\ loop.incident = i THEN 1 ELSE 0

AlertIs(inc, due, lost) ==
  /\ inc.outcome = "" => inc.attempts = 0
  /\ inc.attempts <= MaxAttempts
  /\ inc.attempts + due <= inc.sent
  /\ inc.sent <= inc.attempts + lost + due

Alerts == \A i \in DOMAIN incidents : AlertIs(incidents[i], Due(i), faults)

Look ==
  /\ \A i \in DOMAIN incidents :
       incidents[i].condition \in PolicyOf[incidents[i].target].alertOn
  /\ Busy => /\ looked[loop.target] = Unlooked
             /\ \A c \in PolicyOf[loop.target].alertOn \ loop.close :
                  c \in ToSet(loop.open) \/ OpenFor(loop.target, c, loop.gen) # {}
  /\ IncidentsMatchLook

\* The events that say a status of run `gen` of target `t`, and that the last of
\* them says what P admits.
Known(h, t, gen) ==
  {j \in DOMAIN h : h[j].target = t /\ h[j].gen = gen /\ h[j].status # ""}

LastSays(h, t, gen, statuses) ==
  \A j \in Known(h, t, gen) :
    (\A k \in Known(h, t, gen) : k <= j) => h[j].status \in statuses

Runs ==
  /\ \A t \in Targets : state[t].at <= now
  /\ \A t \in Pending : state[t].at < now
  /\ \A j \in DOMAIN hist : hist[j].status # "" =>
       state[hist[j].target].row /\ hist[j].gen <= state[hist[j].target].gen
  /\ \A t \in Targets : LastSays(hist, t, state[t].gen, {state[t].status})
  /\ Busy /\ "overdue" \in ToSet(loop.open) =>
       LastSays(hist, loop.target, loop.gen, Statuses \ {"exited"})

Clear(c, p, time) == p.quietUntil = 0 \/ time >= p.quietUntil + Threshold(c, p)

Override ==
  Busy => \A c \in ToSet(loop.open) \cap Silences : Clear(c, PolicyOf[loop.target], now)

MInv == Types /\ Announced /\ Alerts /\ Look /\ Runs /\ Override
-----------------------------------------------------------------------------
(* Records and lists the actions rewrite.                                   *)

LEMMA LoopIs ==
  ASSUME NEW l \in Loop
  PROVE  /\ l.at \in {"idle", "observe", "apply", "send", "sent", "mark"}
         /\ l.todo \subseteq Targets /\ l.seen \in {<<>>} \cup [Targets -> Sight]
         /\ l.target \in Targets \cup {""} /\ l.gen \in Nat /\ l.open \in Seq(Conditions)
         /\ l.close \subseteq Conditions /\ l.incident \in Nat
         /\ l.outcome \in {"", "delivered", "failed", "unknown"}
         /\ DOMAIN l = {"at", "todo", "seen", "target", "gen", "open", "close", "incident",
                        "outcome"}
BY DEF Loop

LEMMA IdleIs ==
  /\ IdleLoop \in Loop /\ IdleLoop.at = "idle" /\ IdleLoop.todo = {}
<1>1. <<>> \in Seq(Conditions)
  OBVIOUS
<1>2. QED
  BY <1>1 DEF IdleLoop, Loop

LEMMA IncidentIs ==
  ASSUME NEW inc \in Incident
  PROVE  /\ inc.target \in Targets /\ inc.condition \in Conditions /\ inc.gen \in Nat \ {0}
         /\ inc.open \in BOOLEAN /\ inc.notified \in BOOLEAN /\ inc.attempts \in Nat
         /\ inc.sent \in Nat /\ inc.outcome \in {"", "delivered", "failed", "unknown"}
         /\ DOMAIN inc = {"target", "condition", "gen", "open", "notified", "attempts",
                          "sent", "outcome"}
BY DEF Incident

\* One element of a list replaced.
IsSetAt(S, s, k, v, r) ==
  /\ r \in Seq(S) /\ DOMAIN r = DOMAIN s /\ r[k] = v
  /\ \A i \in DOMAIN s : i # k => r[i] = s[i]

LEMMA SetAt ==
  ASSUME NEW S, NEW s \in Seq(S), NEW k \in DOMAIN s, NEW v \in S
  PROVE  IsSetAt(S, s, k, v, [s EXCEPT ![k] = v])
BY DEF IsSetAt

\* One element added to a list.
IsAppended(S, s, v, r) ==
  /\ r \in Seq(S) /\ DOMAIN r = DOMAIN s \cup {Len(s) + 1} /\ Len(s) + 1 \notin DOMAIN s
  /\ r[Len(s) + 1] = v /\ Len(s) \in Nat /\ DOMAIN s = 1..Len(s)
  /\ \A i \in DOMAIN s : r[i] = s[i]

LEMMA Appends ==
  ASSUME NEW S, NEW s \in Seq(S), NEW v \in S
  PROVE  IsAppended(S, s, v, Append(s, v))
<1> DEFINE r == Append(s, v)
<1>1. /\ r \in Seq(S) /\ Len(r) = Len(s) + 1 /\ r[Len(s) + 1] = v
      /\ \A i \in 1..Len(s) : r[i] = s[i]
      /\ Len(s) \in Nat /\ DOMAIN s = 1..Len(s)
  OBVIOUS
<1>2. DOMAIN r = 1..(Len(s) + 1)
  BY <1>1
<1> HIDE DEF r
<1>3. 1..(Len(s) + 1) = 1..Len(s) \cup {Len(s) + 1} /\ Len(s) + 1 \notin 1..Len(s)
  BY <1>1
<1>4. IsAppended(S, s, v, r)
  BY <1>1, <1>2, <1>3 DEF IsAppended
<1>5. QED
  BY <1>4 DEF r

\* The incidents keep what says which condition of which run they are of, and
\* whether they are open.
SameIncidents ==
  /\ DOMAIN incidents' = DOMAIN incidents
  /\ \A i \in DOMAIN incidents :
       /\ incidents'[i].target = incidents[i].target
       /\ incidents'[i].condition = incidents[i].condition
       /\ incidents'[i].gen = incidents[i].gen
       /\ incidents'[i].open = incidents[i].open

LEMMA OpenSame ==
  ASSUME SameIncidents
  PROVE  /\ \A t : OpenIncidents(t)' = OpenIncidents(t)
         /\ \A t, c, gen : OpenFor(t, c, gen)' = OpenFor(t, c, gen)
<1>1. ASSUME NEW t PROVE OpenIncidents(t)' = OpenIncidents(t)
  BY DEF SameIncidents, OpenIncidents
<1>2. ASSUME NEW t, NEW c, NEW gen PROVE OpenFor(t, c, gen)' = OpenFor(t, c, gen)
  <2>1. OpenFor(t, c, gen)' = {i \in OpenIncidents(t)' :
                                 incidents'[i].condition = c /\ incidents'[i].gen = gen}
    BY DEF OpenFor
  <2>2. \A i \in OpenIncidents(t) : i \in DOMAIN incidents
    BY DEF OpenIncidents
  <2>3. QED
    BY <1>1, <2>1, <2>2 DEF OpenFor, SameIncidents
<1>3. QED
  BY <1>1, <1>2

-----------------------------------------------------------------------------
(* A step that goes on with the pass under way, or ends it, records nothing *)
(* and never asks for more than was asked.                                  *)

GoesOn ==
  /\ loop' \in Loop
  /\ Pending' \subseteq Pending
  /\ Busy' => /\ Busy
              /\ loop'.target = loop.target /\ loop'.gen = loop.gen /\ loop'.close = loop.close
              /\ ToSet(loop'.open) \subseteq ToSet(loop.open)

LEMMA RunsGoOn ==
  ASSUME Runs, GoesOn, UNCHANGED <<hist, state, now>>
  PROVE  Runs'
<1>1. \A t, gen : Known(hist', t, gen) = Known(hist, t, gen)
  BY DEF Known
<1>2. \A t, gen, S : LastSays(hist, t, gen, S)' <=> LastSays(hist, t, gen, S)
  BY <1>1 DEF LastSays
<1>3. (\A t \in Targets : state[t].at <= now)'
  BY DEF Runs
<1>4. (\A t \in Pending : state[t].at < now)'
  BY DEF Runs, GoesOn
<1>5. (\A j \in DOMAIN hist : hist[j].status # "" =>
         state[hist[j].target].row /\ hist[j].gen <= state[hist[j].target].gen)'
  BY DEF Runs
<1>6. (\A t \in Targets : LastSays(hist, t, state[t].gen, {state[t].status}))'
  <2>1. ASSUME NEW t \in Targets PROVE LastSays(hist, t, state[t].gen, {state[t].status})'
    BY <1>1 DEF Runs, LastSays
  <2>2. QED
    BY <2>1
<1>7. (Busy /\ "overdue" \in ToSet(loop.open) =>
         LastSays(hist, loop.target, loop.gen, Statuses \ {"exited"}))'
  <2>1. SUFFICES ASSUME Busy', "overdue" \in ToSet(loop'.open)
                 PROVE  LastSays(hist, loop.target, loop.gen, Statuses \ {"exited"})'
    OBVIOUS
  <2>2. /\ LastSays(hist, loop.target, loop.gen, Statuses \ {"exited"})
        /\ loop'.target = loop.target /\ loop'.gen = loop.gen
    BY <2>1 DEF Runs, GoesOn
  <2>3. QED
    BY <1>1, <2>2 DEF LastSays
<1>8. QED
  BY <1>3, <1>4, <1>5, <1>6, <1>7 DEF Runs

LEMMA OverrideGoesOn ==
  ASSUME Override, GoesOn, now' = now
  PROVE  Override'
BY DEF Override, GoesOn

Memory == [baseline : BOOLEAN, floor : Nat, lost : SUBSET Targets,
           targetFloor : [Targets -> Nat], first : Nat]

LEMMA TypesGoOn ==
  ASSUME Types, GoesOn, UNCHANGED <<hist, state, now>>,
         mem' \in Memory, faults' \in 0..MaxFaults, looked' \in [Targets -> Looks],
         incidents' \in Seq(Incident),
         \A i \in DOMAIN incidents' :
           incidents'[i].notified => incidents'[i].outcome = "delivered",
         loop'.at # "idle" => loop'.seen \in [Targets -> Sight],
         Announcing' => loop'.incident \in DOMAIN incidents'
  PROVE  Types'
<1>1. TypeOK'
  BY LoopIs DEF Types, TypeOK, GoesOn, Memory, Announcing
<1>2. (Busy => /\ loop.target \in Targets /\ loop.gen # 0
               /\ ToSet(loop.open) \subseteq PolicyOf[loop.target].alertOn)'
  BY DEF Types, GoesOn
<1>3. QED
  BY <1>1, <1>2 DEF Types, GoesOn

LEMMA LookGoesOn ==
  ASSUME Types, Look, GoesOn, SameIncidents, looked' = looked,
         Busy' => \A c \in ToSet(loop.open) :
                    c \in ToSet(loop'.open) \/ OpenFor(loop.target, c, loop.gen) # {}
  PROVE  Look'
<1>1. (\A i \in DOMAIN incidents :
         incidents[i].condition \in PolicyOf[incidents[i].target].alertOn)'
  BY DEF Look, SameIncidents
<1>2. (Busy => /\ looked[loop.target] = Unlooked
               /\ \A c \in PolicyOf[loop.target].alertOn \ loop.close :
                    c \in ToSet(loop.open) \/ OpenFor(loop.target, c, loop.gen) # {})'
  <2>1. SUFFICES ASSUME Busy'
                 PROVE  (/\ looked[loop.target] = Unlooked
                         /\ \A c \in PolicyOf[loop.target].alertOn \ loop.close :
                              c \in ToSet(loop.open) \/ OpenFor(loop.target, c, loop.gen) # {})'
    OBVIOUS
  <2>2. /\ Busy /\ loop'.target = loop.target /\ loop'.gen = loop.gen
        /\ loop'.close = loop.close
    BY <2>1 DEF GoesOn
  <2>3. \A c : OpenFor(loop.target, c, loop.gen)' = OpenFor(loop.target, c, loop.gen)
    BY <2>2, OpenSame DEF OpenFor, OpenIncidents
  <2>4. QED
    BY <2>1, <2>2, <2>3 DEF Look
<1>3. IncidentsMatchLook'
  <2>1. SUFFICES ASSUME NEW t \in Targets, looked[t] # Unlooked
                 PROVE  /\ {incidents'[i].condition :
                              i \in {j \in OpenIncidents(t)' : incidents'[j].gen = looked[t].gen}}
                             = looked[t].open
                        /\ \A i \in OpenIncidents(t)' : incidents'[i].gen >= looked[t].gen
    BY DEF IncidentsMatchLook
  <2>2. /\ {incidents[i].condition :
              i \in {j \in OpenIncidents(t) : incidents[j].gen = looked[t].gen}}
             = looked[t].open
        /\ \A i \in OpenIncidents(t) : incidents[i].gen >= looked[t].gen
    BY <2>1 DEF Look, IncidentsMatchLook
  <2>3. OpenIncidents(t)' = OpenIncidents(t) /\ OpenIncidents(t) \subseteq DOMAIN incidents
    BY OpenSame DEF OpenIncidents
  <2>4. QED
    BY <2>2, <2>3 DEF SameIncidents
<1>4. QED
  BY <1>1, <1>2, <1>3 DEF Look
-----------------------------------------------------------------------------
(* The steps that preserve the invariant.                                   *)

LEMMA TypesAre ==
  ASSUME Types
  PROVE  /\ loop \in Loop /\ now \in Nat /\ faults \in Nat /\ mem \in Memory
         /\ incidents \in Seq(Incident) /\ looked \in [Targets -> Looks]
         /\ state \in [Targets -> Row]
         /\ \A i \in DOMAIN incidents :
              incidents[i] \in Incident
              /\ (incidents[i].notified => incidents[i].outcome = "delivered")
         /\ MaxFaults \in Nat /\ MaxAttempts \in Nat \ {0} /\ MaxTime \in Nat
<1>1. MaxFaults \in Nat /\ MaxTime \in Nat /\ MaxAttempts \in Nat \ {0}
  BY MonitorAssumption
<1>2. loop \in Loop /\ looked \in [Targets -> Looks]
  BY DEF Types
<1>3. mem \in Memory /\ incidents \in Seq(Incident) /\ state \in [Targets -> Row]
  BY DEF Types, TypeOK, Memory
<1>4. now \in 0..MaxTime /\ faults \in 0..MaxFaults
  BY DEF Types, TypeOK
<1>5. now \in Nat /\ faults \in Nat
  BY <1>1, <1>4
<1>6. \A i \in DOMAIN incidents : incidents[i] \in Incident
  BY <1>3
<1>7. QED
  BY <1>1, <1>2, <1>3, <1>5, <1>6 DEF Types, TypeOK

LEMMA MonitorInit == Init => MInv
<1> SUFFICES ASSUME Init PROVE MInv
  OBVIOUS
<1> USE DEF Init
<1>1. FreshMemory \in Memory
  BY DEF FreshMemory, Memory
<1>2. NoRow \in Row /\ NoRow.row = FALSE /\ NoRow.at = 0
  BY DEF NoRow, Row, Statuses
<1>3. hist \in Seq([target : Targets, session : Sessions \cup {""}, gen : Nat \ {0},
                    status : Statuses, learned : BOOLEAN, at : Nat])
      /\ incidents \in Seq(Incident) /\ DOMAIN hist = {} /\ DOMAIN incidents = {}
  OBVIOUS
<1>4. now \in 0..MaxTime /\ faults \in 0..MaxFaults
  <2>1. MaxTime \in Nat /\ MaxFaults \in Nat
    BY MonitorAssumption
  <2>2. QED
    BY <2>1
<1>5. Unlooked \in Looks
  BY DEF Unlooked, Looks
<1>6. ~Busy /\ ~Announcing /\ loop \in Loop /\ loop.at = "idle"
  BY IdleIs DEF Busy, Announcing
<1>7. Types
  <2>1. state \in [Targets -> Row] /\ \A t \in Targets : Placed(state[t])
    BY <1>2 DEF Placed
  <2>2. looked \in [Targets -> Looks]
    BY <1>5
  <2>3. TypeOK
    BY <1>1, <1>3, <1>4, <1>6, <2>1 DEF TypeOK, Memory
  <2>4. QED
    BY <1>6, <2>1, <2>2, <2>3 DEF Types
<1>8. Look
  <2>1. IncidentsMatchLook
    BY DEF IncidentsMatchLook
  <2>2. QED
    BY <1>3, <1>6, <2>1 DEF Look
<1>9. Runs
  <2>1. \A t, gen : Known(hist, t, gen) = {}
    BY <1>3 DEF Known
  <2>2. Pending = {}
    BY <1>6, IdleIs DEF Pending
  <2>3. \A t \in Targets : state[t].at <= now
    BY <1>2
  <2>4. QED
    BY <1>3, <1>6, <2>1, <2>2, <2>3 DEF Runs, LastSays
<1>10. QED
  BY <1>3, <1>6, <1>7, <1>8, <1>9 DEF MInv, Announced, Alerts, Override

LEMMA AlertSettles ==
  ASSUME NEW inc \in Incident, NEW due \in {0, 1}, NEW lost \in Nat, AlertIs(inc, due, lost)
  PROVE  AlertIs(inc, 0, lost + 1) /\ (due = 0 => AlertIs(inc, 0, lost))
<1>1. inc.attempts \in Nat /\ inc.sent \in Nat /\ MaxAttempts \in Nat
  <2>1. inc.attempts \in Nat /\ inc.sent \in Nat
    BY IncidentIs, Zenon
  <2>2. MaxAttempts \in Nat
    BY MonitorAssumption
  <2>3. QED
    BY <2>1, <2>2
<1> DEFINE a == inc.attempts
           n == inc.sent
<1> HIDE DEF a, n
<1>2. CASE due = 0
  <2>1. AlertIs(inc, 0, lost) /\ a \in Nat /\ n \in Nat
    BY <1>1, <1>2 DEF a, n
  <2>2. n <= a + lost + 0 => n <= a + (lost + 1) + 0
    BY <2>1
  <2>3. QED
    BY <2>1, <2>2 DEF AlertIs, a, n
<1>3. CASE due = 1
  <2>1. AlertIs(inc, 1, lost) /\ a \in Nat /\ n \in Nat
    BY <1>1, <1>3 DEF a, n
  <2>2. /\ n <= a + lost + 1 => n <= a + (lost + 1) + 0
        /\ a + 1 <= n => a + 0 <= n
    BY <2>1
  <2>3. QED
    BY <1>3, <2>1, <2>2 DEF AlertIs, a, n
<1>4. QED
  BY <1>2, <1>3

LEMMA SentIs ==
  ASSUME NEW inc \in Incident, NEW new, new = [inc EXCEPT !.sent = inc.sent + 1]
  PROVE  /\ new \in Incident /\ new.target = inc.target /\ new.condition = inc.condition
         /\ new.gen = inc.gen /\ new.open = inc.open /\ new.notified = inc.notified
         /\ new.attempts = inc.attempts /\ new.outcome = inc.outcome
         /\ new.sent = inc.sent + 1
         /\ \A lost \in Nat : AlertIs(inc, 0, lost) => AlertIs(new, 1, lost)
<1>1. inc.sent + 1 \in Nat
  <2>1. inc.sent \in Nat
    BY IncidentIs, Zenon
  <2>2. QED
    BY <2>1
<1>2. new \in Incident
  BY <1>1 DEF Incident
<1>3. /\ new.target = inc.target /\ new.condition = inc.condition
      /\ new.gen = inc.gen /\ new.open = inc.open /\ new.notified = inc.notified
      /\ new.attempts = inc.attempts /\ new.outcome = inc.outcome /\ new.sent = inc.sent + 1
  BY IncidentIs
<1>4. ASSUME NEW lost \in Nat, AlertIs(inc, 0, lost) PROVE AlertIs(new, 1, lost)
  <2> DEFINE a == inc.attempts
             n == inc.sent
  <2>1. a \in Nat /\ n \in Nat
    BY IncidentIs, Zenon
  <2>2. new.attempts = a /\ new.sent = n + 1
    BY <1>3
  <2> HIDE DEF a, n
  <2>3. a + 0 <= n => a + 1 <= n + 1
    BY <2>1
  <2>4. n <= a + lost + 0 => n + 1 <= a + lost + 1
    BY <2>1
  <2>5. a <= MaxAttempts /\ a + 0 <= n /\ n <= a + lost + 0
        /\ (inc.outcome = "" => a = 0)
    BY <1>4 DEF AlertIs, a, n
  <2>6. QED
    BY <1>3, <2>2, <2>3, <2>4, <2>5 DEF AlertIs
<1>5. QED
  BY <1>2, <1>3, <1>4

\* The pass is over, as its last step, by a failed transaction or with the process.
LEMMA PassEnds ==
  ASSUME MInv, loop' = IdleLoop, UNCHANGED <<now, hist, state, incidents, looked>>,
         mem' \in Memory, faults' \in 0..MaxFaults,
         faults' = faults + 1 \/ (faults' = faults /\ loop.at # "sent")
  PROVE  MInv'
<1>1. GoesOn /\ ~Busy' /\ ~Announcing' /\ loop'.at = "idle"
  BY IdleIs DEF GoesOn, Busy, Announcing, Pending
<1>2. SameIncidents
  BY DEF SameIncidents
<1>3. Types'
  BY <1>1, TypesAre, TypesGoOn DEF MInv
<1>4. Announced'
  BY <1>1 DEF Announced
<1>5. Look'
  BY <1>1, <1>2, LookGoesOn DEF MInv
<1>6. Runs' /\ Override'
  BY <1>1, RunsGoOn, OverrideGoesOn DEF MInv
<1>7. Alerts'
  <2>1. SUFFICES ASSUME NEW i \in DOMAIN incidents
                 PROVE  AlertIs(incidents[i], 0, faults')
    BY <1>1 DEF Alerts, Due
  <2>2. AlertIs(incidents[i], Due(i), faults) /\ incidents[i] \in Incident /\ faults \in Nat
    BY TypesAre DEF MInv, Alerts
  <2>3. Due(i) \in {0, 1} /\ (loop.at # "sent" => Due(i) = 0)
    BY DEF Due
  <2>4. QED
    BY <2>2, <2>3, AlertSettles
<1>8. QED
  BY <1>3, <1>4, <1>5, <1>6, <1>7 DEF MInv

\* An announcement under way, and the alert it is about.
LEMMA AnnouncedIs ==
  ASSUME MInv, Announcing
  PROVE  /\ loop.incident \in DOMAIN incidents /\ incidents[loop.incident] \in Incident
         /\ loop.open # <<>> /\ loop.open \in Seq(Conditions)
         /\ loop.incident \in OpenFor(loop.target, Head(loop.open), loop.gen)
         /\ AlertIs(incidents[loop.incident], Due(loop.incident), faults)
         /\ Busy /\ loop.at # "idle" /\ loop.seen \in [Targets -> Sight]
<1>1. loop.incident \in OpenFor(loop.target, Head(loop.open), loop.gen) /\ loop.open # <<>>
  BY DEF MInv, Announced
<1>2. loop.incident \in DOMAIN incidents
  BY <1>1 DEF OpenFor, OpenIncidents
<1>3. incidents[loop.incident] \in Incident /\ loop.open \in Seq(Conditions)
  BY <1>2, TypesAre, LoopIs DEF MInv
<1>4. loop.at # "idle" /\ Busy
  BY DEF Announcing, Busy
<1>5. QED
  BY <1>1, <1>2, <1>3, <1>4 DEF MInv, Alerts, Types

LEMMA DeliverStep ==
  ASSUME MInv, NEW outcome \in Outcomes, Deliver(outcome)
  PROVE  MInv'
<1> DEFINE k == loop.incident
           inc == incidents[k]
           new == [inc EXCEPT !.sent = inc.sent + 1]
<1>1. /\ loop.at = "send" /\ loop' = [loop EXCEPT !.at = "sent", !.outcome = outcome]
      /\ incidents' = [incidents EXCEPT ![k] = new]
      /\ UNCHANGED <<now, hist, state, mem, looked, faults>>
  BY DEF Deliver
<1>2. Announcing /\ loop \in Loop /\ outcome \in {"", "delivered", "failed", "unknown"}
  BY <1>1, TypesAre, MonitorAssumption DEF Announcing, MInv
<1>3. /\ k \in DOMAIN incidents /\ inc \in Incident /\ incidents \in Seq(Incident)
      /\ AlertIs(inc, Due(k), faults) /\ faults \in Nat
  BY <1>2, AnnouncedIs, TypesAre DEF MInv
<1>4. /\ new \in Incident /\ new.target = inc.target /\ new.condition = inc.condition
      /\ new.gen = inc.gen /\ new.open = inc.open /\ new.notified = inc.notified
      /\ new.attempts = inc.attempts /\ new.outcome = inc.outcome /\ new.sent = inc.sent + 1
      /\ AlertIs(inc, 0, faults) => AlertIs(new, 1, faults)
  BY <1>3, SentIs
<1>5. IsSetAt(Incident, incidents, k, new, incidents')
  BY <1>1, <1>3, <1>4, SetAt
<1>6. /\ loop'.at = "sent" /\ loop'.outcome = outcome /\ loop'.todo = loop.todo
      /\ loop'.seen = loop.seen /\ loop'.target = loop.target /\ loop'.gen = loop.gen
      /\ loop'.open = loop.open /\ loop'.close = loop.close /\ loop'.incident = loop.incident
      /\ loop' \in Loop
  <2>1. [loop EXCEPT !.at = "sent", !.outcome = outcome] \in Loop
    BY <1>2 DEF Loop
  <2>2. QED
    BY <1>1, <1>2, <2>1, LoopIs
<1> HIDE DEF new, k, inc
<1>7. Busy /\ Busy' /\ Announcing'
  BY <1>1, <1>6 DEF Busy, Announcing
<1>8. GoesOn
  BY <1>6, <1>7 DEF GoesOn, Pending
<1>9. SameIncidents
  BY <1>4, <1>5 DEF SameIncidents, IsSetAt, inc
<1>10. Types'
  <2>1. \A i \in DOMAIN incidents' :
           incidents'[i].notified => incidents'[i].outcome = "delivered"
    BY <1>4, <1>5, TypesAre DEF IsSetAt, inc, MInv
  <2>2. loop'.seen \in [Targets -> Sight]
    BY <1>2, <1>6, AnnouncedIs
  <2>3. QED
    BY <1>1, <1>3, <1>5, <1>6, <1>8, <2>1, <2>2, TypesAre, TypesGoOn DEF MInv, IsSetAt, k,
       Types, TypeOK
<1>11. Look'
  BY <1>1, <1>6, <1>8, <1>9, LookGoesOn DEF MInv
<1>12. Runs' /\ Override'
  BY <1>1, <1>8, RunsGoOn, OverrideGoesOn DEF MInv
<1>13. Announced'
  <2>1. /\ ShouldAttempt(k) /\ ~inc.notified /\ loop.open # <<>>
        /\ k \in OpenFor(loop.target, Head(loop.open), loop.gen)
    BY <1>1, <1>2 DEF MInv, Announced, k, inc
  <2>2. ShouldAttempt(k)'
    <3>1. incidents'[k].outcome = inc.outcome /\ incidents'[k].attempts = inc.attempts
      BY <1>4, <1>5 DEF IsSetAt
    <3>2. loop'.incident = k
      BY <1>6 DEF k
    <3>3. QED
      BY <2>1, <3>1, <3>2 DEF ShouldAttempt, inc, k
  <2>3. ~incidents'[k].notified
    BY <1>4, <1>5, <2>1 DEF IsSetAt
  <2>4. k \in OpenFor(loop.target, Head(loop.open), loop.gen)'
    BY <1>6, <1>9, <2>1, OpenSame
  <2>5. QED
    BY <1>6, <2>1, <2>2, <2>3, <2>4 DEF Announced, k
<1>14. Alerts'
  <2>1. ASSUME NEW i \in DOMAIN incidents PROVE AlertIs(incidents'[i], Due(i)', faults)
    <3>1. CASE i = k
      <4>1. Due(i) = 0 /\ Due(i)' = 1 /\ incidents'[i] = new
        BY <1>1, <1>5, <1>6, <3>1 DEF Due, IsSetAt, k
      <4>2. AlertIs(new, 1, faults)
        BY <1>3, <1>4, <3>1, <4>1
      <4>3. QED
        BY <4>1, <4>2
    <3>2. CASE i # k
      <4>1. Due(i) = 0 /\ Due(i)' = 0 /\ incidents'[i] = incidents[i]
        BY <1>1, <1>5, <1>6, <3>2 DEF Due, IsSetAt, k
      <4>2. AlertIs(incidents[i], Due(i), faults)
        BY DEF MInv, Alerts
      <4>3. QED
        BY <4>1, <4>2
    <3>3. QED
      BY <3>1, <3>2
  <2>2. QED
    BY <1>1, <1>5, <2>1 DEF Alerts, IsSetAt
<1>15. QED
  BY <1>10, <1>11, <1>12, <1>13, <1>14 DEF MInv
\* What the pass turns to once the first condition of its list is dealt with.
IsPopped(l, r) ==
  /\ r \in Loop /\ r.at = "apply" /\ r.open = Tail(l.open)
  /\ r.todo = l.todo /\ r.seen = l.seen /\ r.target = l.target /\ r.gen = l.gen
  /\ r.close = l.close /\ r.incident = l.incident /\ r.outcome = l.outcome
  /\ ToSet(r.open) \subseteq ToSet(l.open)
  /\ \A c \in ToSet(l.open) : c \in ToSet(r.open) \/ c = Head(l.open)

LEMMA Popped ==
  ASSUME NEW l \in Loop, l.open # <<>>, NEW r, r = [l EXCEPT !.at = "apply", !.open = Tail(l.open)]
  PROVE  IsPopped(l, r)
<1>1. l.open \in Seq(Conditions)
  BY LoopIs
<1>2. /\ Tail(l.open) \in Seq(Conditions) /\ ToSet(Tail(l.open)) \subseteq ToSet(l.open)
      /\ ToSet(l.open) \subseteq ToSet(Tail(l.open)) \cup {Head(l.open)}
  BY <1>1, HeadAndTail
<1>3. /\ r.at = "apply" /\ r.open = Tail(l.open)
      /\ r.todo = l.todo /\ r.seen = l.seen /\ r.target = l.target /\ r.gen = l.gen
      /\ r.close = l.close /\ r.incident = l.incident /\ r.outcome = l.outcome
  BY LoopIs
<1>4. r \in Loop
  <2> DEFINE v == Tail(l.open)
  <2>1. v \in Seq(Conditions) /\ r = [l EXCEPT !.at = "apply", !.open = v]
    BY <1>2
  <2> HIDE DEF v
  <2>2. QED
    BY <2>1 DEF Loop
<1>5. QED
  BY <1>2, <1>3, <1>4 DEF IsPopped

IsRecorded(inc, o, new) ==
  /\ new \in Incident /\ new.target = inc.target /\ new.condition = inc.condition
  /\ new.gen = inc.gen /\ new.open = inc.open /\ new.notified = inc.notified
  /\ new.outcome = o /\ new.sent = inc.sent
  /\ \A lost \in Nat :
       AlertIs(inc, 1, lost) /\ inc.attempts < MaxAttempts => AlertIs(new, 0, lost)

Settles == {"delivered", "failed", "unknown"}

LEMMA RecordedIs ==
  ASSUME NEW inc \in Incident, NEW o \in Settles
  PROVE  IsRecorded(inc, o, [inc EXCEPT !.outcome = o, !.attempts = inc.attempts + 1])
<1> DEFINE new == [inc EXCEPT !.outcome = o, !.attempts = inc.attempts + 1]
<1>1. inc.attempts + 1 \in Nat
  <2>1. inc.attempts \in Nat
    BY IncidentIs, Zenon
  <2>2. QED
    BY <2>1
<1>2. new \in Incident
  <2> DEFINE v == inc.attempts + 1
  <2>1. v \in Nat /\ new = [inc EXCEPT !.outcome = o, !.attempts = v]
    BY <1>1
  <2> HIDE DEF v
  <2>2. QED
    BY <2>1 DEF Incident, Settles
<1>3. /\ new.target = inc.target /\ new.condition = inc.condition
      /\ new.gen = inc.gen /\ new.open = inc.open /\ new.notified = inc.notified
      /\ new.sent = inc.sent /\ new.outcome = o /\ new.attempts = inc.attempts + 1
      /\ o # ""
  BY IncidentIs DEF Settles
<1>4. ASSUME NEW lost \in Nat, AlertIs(inc, 1, lost), inc.attempts < MaxAttempts
      PROVE  AlertIs(new, 0, lost)
  <2> DEFINE a == inc.attempts
             n == inc.sent
  <2>1. a \in Nat /\ n \in Nat
    BY IncidentIs, Zenon
  <2>2. MaxAttempts \in Nat
    BY MonitorAssumption
  <2>3. new.attempts = a + 1 /\ new.sent = n /\ new.outcome # ""
    BY <1>3
  <2>4. a < MaxAttempts /\ a + 1 <= n /\ n <= a + lost + 1
    BY <1>4 DEF AlertIs
  <2> HIDE DEF a, n, new
  <2>5. a + 1 <= MaxAttempts /\ a + 1 + 0 <= n /\ n <= a + 1 + lost + 0
    BY <2>1, <2>2, <2>4
  <2>6. QED
    BY <2>3, <2>5 DEF AlertIs
<1>5. QED
  BY <1>2, <1>3, <1>4 DEF IsRecorded

LEMMA RecordStep ==
  ASSUME MInv, RecordDelivery
  PROVE  MInv'
<1> DEFINE k == loop.incident
           inc == incidents[k]
           o == loop.outcome
           new == [inc EXCEPT !.outcome = o, !.attempts = inc.attempts + 1]
<1>1. /\ loop.at = "sent" /\ UNCHANGED <<now, hist, state, mem, looked, faults>>
      /\ incidents' = [incidents EXCEPT ![k] = new]
  BY DEF RecordDelivery
<1>2. Announcing /\ loop \in Loop /\ o \in {"delivered", "failed", "unknown"}
  BY <1>1, TypesAre, MonitorAssumption DEF Announcing, MInv, Announced
<1>3. /\ k \in DOMAIN incidents /\ inc \in Incident /\ incidents \in Seq(Incident)
      /\ AlertIs(inc, 1, faults) /\ faults \in Nat
      /\ k \in OpenFor(loop.target, Head(loop.open), loop.gen)
      /\ loop.open # <<>> /\ Busy
  <2>1. Due(k) = 1
    BY <1>1 DEF Due
  <2>2. QED
    BY <1>2, <2>1, AnnouncedIs, TypesAre DEF MInv
<1>4. /\ new \in Incident /\ new.target = inc.target /\ new.condition = inc.condition
      /\ new.gen = inc.gen /\ new.open = inc.open /\ new.notified = inc.notified
      /\ new.outcome = o
      /\ inc.attempts < MaxAttempts => AlertIs(new, 0, faults)
  <2>1. inc \in Incident /\ o \in Settles
    BY <1>2, <1>3 DEF Settles
  <2>2. IsRecorded(inc, o, new)
    BY <2>1, RecordedIs
  <2> HIDE DEF inc, k, o, new
  <2>3. QED
    BY <1>3, <2>2 DEF IsRecorded
<1>5. IsSetAt(Incident, incidents, k, new, incidents')
  BY <1>1, <1>3, <1>4, SetAt
<1>6. ShouldAttempt(k) /\ ~inc.notified
  BY <1>1, <1>2 DEF MInv, Announced
<1>7. /\ loop'.todo = loop.todo /\ loop'.seen = loop.seen /\ loop'.target = loop.target
      /\ loop'.gen = loop.gen /\ loop'.close = loop.close /\ loop'.incident = k
      /\ loop' \in Loop /\ ToSet(loop'.open) \subseteq ToSet(loop.open)
      /\ \/ loop'.at = "mark" /\ loop'.open = loop.open /\ o = "delivered"
         \/ loop'.at = "apply"
      /\ \A c \in ToSet(loop.open) : c \in ToSet(loop'.open) \/ c = Head(loop.open)
  <2>1. CASE o = "delivered"
    <3>1. loop' = [loop EXCEPT !.at = "mark"]
      BY <2>1 DEF RecordDelivery
    <3>2. loop' \in Loop
      BY <1>2, <3>1 DEF Loop
    <3>3. QED
      BY <1>2, <2>1, <3>1, <3>2, LoopIs
  <2>2. CASE o # "delivered"
    <3>1. loop' = [loop EXCEPT !.at = "apply", !.open = Tail(loop.open)]
      BY <2>2 DEF RecordDelivery
    <3>2. IsPopped(loop, loop')
      BY <1>2, <1>3, <3>1, Popped
    <3>3. QED
      BY <3>2 DEF IsPopped
  <2>3. QED
    BY <2>1, <2>2
<1> HIDE DEF new, k, inc, o
<1>8. GoesOn /\ Busy'
  BY <1>3, <1>7 DEF GoesOn, Pending, Busy
<1>9. SameIncidents
  BY <1>4, <1>5 DEF SameIncidents, IsSetAt, inc
<1>10. Types'
  <2>1. \A i \in DOMAIN incidents' :
           incidents'[i].notified => incidents'[i].outcome = "delivered"
    <3>1. ~incidents'[k].notified
      BY <1>4, <1>5, <1>6 DEF IsSetAt
    <3>2. QED
      BY <1>5, <3>1, TypesAre DEF IsSetAt, MInv
  <2>2. loop'.seen \in [Targets -> Sight]
    BY <1>2, <1>7, AnnouncedIs
  <2>3. loop'.incident \in DOMAIN incidents'
    BY <1>3, <1>5, <1>7 DEF IsSetAt
  <2>4. mem' \in Memory /\ faults' \in 0..MaxFaults /\ looked' \in [Targets -> Looks]
    BY <1>1 DEF MInv, Types, TypeOK, Memory
  <2>5. QED
    BY <1>1, <1>5, <1>8, <2>1, <2>2, <2>3, <2>4, TypesGoOn DEF MInv, IsSetAt
<1>11. Look'
  <2>1. \A c \in ToSet(loop.open) :
           c \in ToSet(loop'.open) \/ OpenFor(loop.target, c, loop.gen) # {}
    BY <1>3, <1>7
  <2>2. QED
    BY <1>1, <1>8, <1>9, <2>1, LookGoesOn DEF MInv
<1>12. Runs' /\ Override'
  BY <1>1, <1>8, RunsGoOn, OverrideGoesOn DEF MInv
<1>13. Announced'
  <2>1. SUFFICES ASSUME loop'.at = "mark" PROVE Announced'
    BY <1>7 DEF Announced, Announcing
  <2>2. loop'.open = loop.open /\ o = "delivered"
    BY <1>7, <2>1
  <2>3. loop'.incident \in OpenFor(loop.target, Head(loop.open), loop.gen)'
    BY <1>3, <1>7, <1>9, <2>2, OpenSame
  <2>4. incidents'[loop'.incident].outcome = "delivered"
    BY <1>4, <1>5, <1>7, <2>2 DEF IsSetAt
  <2>5. QED
    BY <1>3, <2>1, <2>2, <2>3, <2>4 DEF Announced
<1>14. Alerts'
  <2>1. inc.attempts < MaxAttempts
    <3>1. inc.outcome = "" \/ inc.attempts < MaxAttempts
      BY <1>6 DEF ShouldAttempt, inc, k
    <3>2. inc.outcome = "" => inc.attempts = 0
      BY <1>3 DEF AlertIs
    <3>3. 0 < MaxAttempts
      <4>1. MaxAttempts \in Nat \ {0}
        BY MonitorAssumption
      <4>2. QED
        BY <4>1
    <3>4. QED
      BY <3>1, <3>2, <3>3
  <2>2. ASSUME NEW i \in DOMAIN incidents PROVE AlertIs(incidents'[i], Due(i)', faults)
    <3>1. Due(i)' = 0
      BY <1>7 DEF Due
    <3>2. CASE i = k
      <4>1. incidents'[i] = new /\ AlertIs(new, 0, faults)
        BY <1>4, <1>5, <2>1, <3>2 DEF IsSetAt
      <4>2. QED
        BY <3>1, <4>1
    <3>3. CASE i # k
      <4>1. Due(i) = 0 /\ incidents'[i] = incidents[i]
        BY <1>5, <3>3 DEF Due, IsSetAt, k
      <4>2. AlertIs(incidents[i], Due(i), faults)
        BY DEF MInv, Alerts
      <4>3. QED
        BY <3>1, <4>1, <4>2
    <3>4. QED
      BY <3>2, <3>3
  <2>3. QED
    BY <1>1, <1>5, <2>2 DEF Alerts, IsSetAt
<1>15. QED
  BY <1>10, <1>11, <1>12, <1>13, <1>14 DEF MInv
LEMMA MarkStep ==
  ASSUME MInv, MarkNotified
  PROVE  MInv'
<1> DEFINE k == loop.incident
           inc == incidents[k]
           new == [inc EXCEPT !.notified = TRUE]
<1>1. /\ loop.at = "mark" /\ UNCHANGED <<now, hist, state, mem, looked, faults>>
      /\ incidents' = [incidents EXCEPT ![k] = new]
      /\ loop' = [loop EXCEPT !.at = "apply", !.open = Tail(loop.open)]
  BY DEF MarkNotified
<1>2. Announcing /\ loop \in Loop
  BY <1>1, TypesAre DEF Announcing, MInv
<1>3. /\ k \in DOMAIN incidents /\ inc \in Incident /\ incidents \in Seq(Incident)
      /\ k \in OpenFor(loop.target, Head(loop.open), loop.gen)
      /\ loop.open # <<>> /\ Busy /\ inc.outcome = "delivered"
  BY <1>1, <1>2, AnnouncedIs, TypesAre DEF MInv, Announced
<1>4. /\ new \in Incident /\ new.target = inc.target /\ new.condition = inc.condition
      /\ new.gen = inc.gen /\ new.open = inc.open /\ new.outcome = inc.outcome
      /\ new.attempts = inc.attempts /\ new.sent = inc.sent
  <2> HIDE DEF inc, k
  <2>1. new \in Incident
    BY <1>3 DEF Incident
  <2>2. QED
    BY <1>3, <2>1, IncidentIs
<1>5. IsSetAt(Incident, incidents, k, new, incidents')
  BY <1>1, <1>3, <1>4, SetAt
<1>6. IsPopped(loop, loop')
  BY <1>1, <1>2, <1>3, Popped
<1> HIDE DEF new, k, inc
<1>7. GoesOn /\ Busy' /\ ~Announcing'
  BY <1>3, <1>6 DEF GoesOn, Pending, Busy, IsPopped, Announcing
<1>8. SameIncidents
  BY <1>4, <1>5 DEF SameIncidents, IsSetAt, inc
<1>9. Types'
  <2>1. \A i \in DOMAIN incidents' :
           incidents'[i].notified => incidents'[i].outcome = "delivered"
    BY <1>3, <1>4, <1>5, TypesAre DEF IsSetAt, MInv
  <2>2. loop'.seen \in [Targets -> Sight]
    BY <1>2, <1>6, AnnouncedIs DEF IsPopped
  <2>3. mem' \in Memory /\ faults' \in 0..MaxFaults /\ looked' \in [Targets -> Looks]
    BY <1>1 DEF MInv, Types, TypeOK, Memory
  <2>4. QED
    BY <1>1, <1>5, <1>7, <2>1, <2>2, <2>3, TypesGoOn DEF MInv, IsSetAt
<1>10. Look'
  <2>1. \A c \in ToSet(loop.open) :
           c \in ToSet(loop'.open) \/ OpenFor(loop.target, c, loop.gen) # {}
    BY <1>3, <1>6 DEF IsPopped
  <2>2. QED
    BY <1>1, <1>7, <1>8, <2>1, LookGoesOn DEF MInv
<1>11. Runs' /\ Override'
  BY <1>1, <1>7, RunsGoOn, OverrideGoesOn DEF MInv
<1>12. Announced'
  BY <1>7 DEF Announced
<1>13. Alerts'
  <2>1. ASSUME NEW i \in DOMAIN incidents PROVE AlertIs(incidents'[i], Due(i)', faults)
    <3>1. Due(i)' = 0 /\ Due(i) = 0
      BY <1>1, <1>6 DEF Due, IsPopped
    <3>2. AlertIs(incidents[i], 0, faults)
      <4>1. AlertIs(incidents[i], Due(i), faults)
        BY DEF MInv, Alerts
      <4>2. QED
        BY <3>1, <4>1
    <3>3. /\ incidents'[i].outcome = incidents[i].outcome
          /\ incidents'[i].attempts = incidents[i].attempts
          /\ incidents'[i].sent = incidents[i].sent
      BY <1>4, <1>5 DEF IsSetAt, inc
    <3>4. AlertIs(incidents'[i], 0, faults)
      BY <3>2, <3>3 DEF AlertIs
    <3>5. QED
      BY <3>1, <3>4
  <2>2. QED
    BY <1>1, <1>5, <2>1 DEF Alerts, IsSetAt
<1>14. QED
  BY <1>9, <1>10, <1>11, <1>12, <1>13 DEF MInv

\* The condition at the head of the list has an open incident already.
LEMMA TouchStep ==
  ASSUME MInv, OpenOrTouch, OpenFor(loop.target, Head(loop.open), loop.gen) # {}
  PROVE  MInv'
<1> DEFINE present == OpenFor(loop.target, Head(loop.open), loop.gen)
           k == Max(present)
<1>1. /\ loop.at = "apply" /\ loop.open # <<>> /\ incidents' = incidents
      /\ UNCHANGED <<now, hist, state, mem, looked, faults>>
      /\ loop' = IF ~incidents[k].notified /\ ShouldAttempt(k)
                 THEN [loop EXCEPT !.at = "send", !.incident = k]
                 ELSE [loop EXCEPT !.open = Tail(loop.open)]
  BY DEF OpenOrTouch
<1>2. /\ loop \in Loop /\ incidents \in Seq(Incident) /\ Busy
      /\ loop.seen \in [Targets -> Sight]
  BY <1>1, TypesAre DEF MInv, Busy, Types
<1>3. k \in present /\ k \in DOMAIN incidents /\ k \in Nat
  <2>1. DOMAIN incidents = 1..Len(incidents) /\ Len(incidents) \in Nat
    BY <1>2
  <2>2. present \subseteq DOMAIN incidents
    BY DEF OpenFor, OpenIncidents
  <2>3. present \in SUBSET (0..Len(incidents)) /\ present # {}
    <3>1. 1..Len(incidents) \subseteq 0..Len(incidents)
      BY <2>1
    <3>2. QED
      BY <2>1, <2>2, <3>1
  <2> HIDE DEF present
  <2>4. k \in present
    BY <2>1, <2>3, MaxIsGreatest
  <2>5. QED
    BY <2>1, <2>2, <2>4
<1> HIDE DEF k
<1>4. /\ loop'.todo = loop.todo /\ loop'.seen = loop.seen /\ loop'.target = loop.target
      /\ loop'.gen = loop.gen /\ loop'.close = loop.close
      /\ loop' \in Loop /\ ToSet(loop'.open) \subseteq ToSet(loop.open)
      /\ \A c \in ToSet(loop.open) : c \in ToSet(loop'.open) \/ c = Head(loop.open)
      /\ \/ /\ loop'.at = "send" /\ loop'.incident = k /\ loop'.open = loop.open
            /\ ~incidents[k].notified /\ ShouldAttempt(k)
         \/ loop'.at = "apply"
  <2>1. CASE ~incidents[k].notified /\ ShouldAttempt(k)
    <3>1. loop' = [loop EXCEPT !.at = "send", !.incident = k]
      BY <1>1, <2>1
    <3>2. loop' \in Loop
      BY <1>2, <1>3, <3>1 DEF Loop
    <3>3. QED
      BY <1>2, <2>1, <3>1, <3>2, LoopIs
  <2>2. CASE ~(~incidents[k].notified /\ ShouldAttempt(k))
    <3>1. loop' = [loop EXCEPT !.at = "apply", !.open = Tail(loop.open)]
      <4>1. loop' = [loop EXCEPT !.open = Tail(loop.open)]
        BY <1>1, <2>2
      <4>2. loop = [loop EXCEPT !.at = "apply"]
        BY <1>1, <1>2 DEF Loop
      <4>3. QED
        BY <4>1, <4>2
    <3>2. IsPopped(loop, loop')
      BY <1>1, <1>2, <3>1, Popped
    <3>3. QED
      BY <3>2 DEF IsPopped
  <2>3. QED
    BY <2>1, <2>2
<1>5. GoesOn /\ Busy'
  BY <1>2, <1>4 DEF GoesOn, Pending, Busy
<1>6. SameIncidents
  BY <1>1 DEF SameIncidents
<1>7. Types'
  <2>1. \A i \in DOMAIN incidents' :
           incidents'[i].notified => incidents'[i].outcome = "delivered"
    BY <1>1, TypesAre DEF MInv
  <2>2. Announcing' => loop'.incident \in DOMAIN incidents'
    BY <1>1, <1>3, <1>4 DEF Announcing
  <2>3. mem' \in Memory /\ faults' \in 0..MaxFaults /\ looked' \in [Targets -> Looks]
    BY <1>1 DEF MInv, Types, TypeOK, Memory
  <2>4. QED
    BY <1>1, <1>2, <1>4, <1>5, <2>1, <2>2, <2>3, TypesGoOn DEF MInv
<1>8. Look'
  BY <1>1, <1>4, <1>5, <1>6, LookGoesOn DEF MInv
<1>9. Runs' /\ Override'
  BY <1>1, <1>5, RunsGoOn, OverrideGoesOn DEF MInv
<1>10. Announced'
  <2>1. SUFFICES ASSUME loop'.at = "send" PROVE Announced'
    BY <1>4 DEF Announced, Announcing
  <2>2. /\ loop'.incident = k /\ loop'.open = loop.open
        /\ ~incidents[k].notified /\ ShouldAttempt(k)
    BY <1>4, <2>1
  <2>3. loop'.incident \in OpenFor(loop.target, Head(loop.open), loop.gen)'
    BY <1>3, <1>4, <1>6, <2>2, OpenSame
  <2>4. ShouldAttempt(loop.incident)' /\ ~incidents'[loop'.incident].notified
    BY <1>1, <2>2 DEF ShouldAttempt
  <2>5. QED
    BY <1>1, <2>1, <2>2, <2>3, <2>4 DEF Announced
<1>11. Alerts'
  <2>1. \A i : Due(i)' = 0 /\ Due(i) = 0
    BY <1>1, <1>4 DEF Due
  <2>2. ASSUME NEW i \in DOMAIN incidents PROVE AlertIs(incidents'[i], Due(i)', faults)
    <3>1. AlertIs(incidents[i], Due(i), faults)
      BY DEF MInv, Alerts
    <3>2. QED
      BY <1>1, <2>1, <3>1
  <2>3. QED
    BY <1>1, <2>2 DEF Alerts
<1>12. QED
  BY <1>7, <1>8, <1>9, <1>10, <1>11 DEF MInv
\* The condition at the head of the list has none: an incident is opened for it.
LEMMA OpenStep ==
  ASSUME MInv, OpenOrTouch, OpenFor(loop.target, Head(loop.open), loop.gen) = {}
  PROVE  MInv'
<1> DEFINE c0 == Head(loop.open)
           k == Len(incidents) + 1
           new == [target |-> loop.target, condition |-> c0, gen |-> loop.gen,
                   open |-> TRUE, notified |-> FALSE, attempts |-> 0,
                   outcome |-> "", sent |-> 0]
<1>1. /\ loop.at = "apply" /\ loop.open # <<>> /\ incidents' = Append(incidents, new)
      /\ UNCHANGED <<now, hist, state, mem, looked, faults>>
      /\ loop' = [loop EXCEPT !.at = "send", !.incident = k]
  BY DEF OpenOrTouch
<1>2. /\ loop \in Loop /\ incidents \in Seq(Incident) /\ Busy
      /\ loop.seen \in [Targets -> Sight] /\ loop.target \in Targets /\ loop.gen \in Nat \ {0}
      /\ ToSet(loop.open) \subseteq PolicyOf[loop.target].alertOn
      /\ loop.open \in Seq(Conditions)
  <2>1. loop \in Loop /\ incidents \in Seq(Incident) /\ Busy
    BY <1>1, TypesAre DEF MInv, Busy
  <2>2. loop.gen \in Nat /\ loop.open \in Seq(Conditions)
    BY <2>1, LoopIs
  <2>3. QED
    BY <1>1, <2>1, <2>2 DEF MInv, Types
<1>3. c0 \in Conditions /\ c0 \in PolicyOf[loop.target].alertOn
  BY <1>1, <1>2, HeadAndTail
<1>4. new \in Incident /\ new.target = loop.target /\ new.condition = c0
      /\ new.gen = loop.gen /\ new.open = TRUE /\ new.notified = FALSE
      /\ new.attempts = 0 /\ new.sent = 0 /\ new.outcome = ""
  BY <1>2, <1>3 DEF Incident
<1> HIDE DEF new
<1>5. IsAppended(Incident, incidents, new, incidents')
  BY <1>1, <1>2, <1>4, Appends
<1> HIDE DEF c0
<1>6. k \in Nat /\ k \in DOMAIN incidents' /\ k \notin DOMAIN incidents /\ incidents'[k] = new
      /\ DOMAIN incidents' = DOMAIN incidents \cup {k}
      /\ \A i \in DOMAIN incidents : incidents'[i] = incidents[i]
  BY <1>5 DEF IsAppended
<1> HIDE DEF k
<1>7. /\ loop'.todo = loop.todo /\ loop'.seen = loop.seen /\ loop'.target = loop.target
      /\ loop'.gen = loop.gen /\ loop'.close = loop.close /\ loop'.open = loop.open
      /\ loop' \in Loop /\ loop'.at = "send" /\ loop'.incident = k
  <2>1. loop' \in Loop
    BY <1>1, <1>2, <1>6 DEF Loop
  <2>2. QED
    BY <1>1, <1>2, <2>1, LoopIs
<1>8. GoesOn /\ Busy'
  BY <1>2, <1>7 DEF GoesOn, Pending, Busy
<1>9. /\ \A t : t # loop.target => OpenIncidents(t)' = OpenIncidents(t)
      /\ \A t, c, g : OpenFor(t, c, g) \subseteq OpenFor(t, c, g)'
      /\ k \in OpenFor(loop.target, c0, loop.gen)'
  <2>1. ASSUME NEW t, t # loop.target PROVE OpenIncidents(t)' = OpenIncidents(t)
    BY <1>4, <1>6, <2>1 DEF OpenIncidents
  <2>2. ASSUME NEW t, NEW c, NEW g PROVE OpenFor(t, c, g) \subseteq OpenFor(t, c, g)'
    BY <1>6 DEF OpenFor, OpenIncidents
  <2>3. k \in {i \in OpenIncidents(loop.target)' :
                 incidents'[i].condition = c0 /\ incidents'[i].gen = loop.gen}
    BY <1>4, <1>6, <1>7 DEF OpenIncidents
  <2>4. k \in OpenFor(loop.target, Head(loop.open), loop.gen)'
    BY <1>7, <2>3 DEF OpenFor, c0
  <2>5. QED
    BY <1>7, <2>1, <2>2, <2>4 DEF c0
<1>10. Types'
  <2>1. \A i \in DOMAIN incidents' :
           incidents'[i].notified => incidents'[i].outcome = "delivered"
    BY <1>4, <1>6, TypesAre DEF MInv
  <2>2. mem' \in Memory /\ faults' \in 0..MaxFaults /\ looked' \in [Targets -> Looks]
    BY <1>1 DEF MInv, Types, TypeOK, Memory
  <2>3. QED
    BY <1>1, <1>2, <1>5, <1>6, <1>7, <1>8, <2>1, <2>2, TypesGoOn DEF MInv, IsAppended
<1>11. Look'
  <2>1. (\A i \in DOMAIN incidents :
           incidents[i].condition \in PolicyOf[incidents[i].target].alertOn)'
    BY <1>3, <1>4, <1>6 DEF MInv, Look
  <2>2. (Busy => /\ looked[loop.target] = Unlooked
                 /\ \A c \in PolicyOf[loop.target].alertOn \ loop.close :
                      c \in ToSet(loop.open) \/ OpenFor(loop.target, c, loop.gen) # {})'
    <3>1. looked'[loop'.target] = Unlooked
      BY <1>1, <1>2, <1>7 DEF MInv, Look
    <3>2. ASSUME NEW c \in PolicyOf[loop.target].alertOn \ loop.close
          PROVE  c \in ToSet(loop.open) \/ OpenFor(loop.target, c, loop.gen)' # {}
      <4>1. c \in ToSet(loop.open) \/ OpenFor(loop.target, c, loop.gen) # {}
        BY <1>2 DEF MInv, Look
      <4>2. OpenFor(loop.target, c, loop.gen)' = {i \in DOMAIN incidents' :
              /\ incidents'[i].target = loop.target /\ incidents'[i].open
              /\ incidents'[i].condition = c /\ incidents'[i].gen = loop.gen}
        BY <1>7 DEF OpenFor, OpenIncidents
      <4>3. OpenFor(loop.target, c, loop.gen) \subseteq OpenFor(loop.target, c, loop.gen)'
        BY <1>6, <4>2 DEF OpenFor, OpenIncidents
      <4>4. QED
        BY <4>1, <4>3
    <3>3. QED
      BY <1>7, <3>1, <3>2
  <2>3. IncidentsMatchLook'
    <3>1. SUFFICES ASSUME NEW t \in Targets, looked[t] # Unlooked
                   PROVE  /\ {incidents'[i].condition :
                                i \in {j \in OpenIncidents(t)' : incidents'[j].gen = looked[t].gen}}
                               = looked[t].open
                          /\ \A i \in OpenIncidents(t)' : incidents'[i].gen >= looked[t].gen
      BY <1>1 DEF IncidentsMatchLook
    <3>2. t # loop.target
      BY <1>2, <3>1 DEF MInv, Look
    <3>3. OpenIncidents(t)' = OpenIncidents(t) /\ OpenIncidents(t) \subseteq DOMAIN incidents
      BY <1>9, <3>2 DEF OpenIncidents
    <3>4. /\ {incidents[i].condition :
                i \in {j \in OpenIncidents(t) : incidents[j].gen = looked[t].gen}}
               = looked[t].open
          /\ \A i \in OpenIncidents(t) : incidents[i].gen >= looked[t].gen
      BY <3>1 DEF MInv, Look, IncidentsMatchLook
    <3>5. QED
      BY <1>6, <3>3, <3>4
  <2>4. QED
    BY <2>1, <2>2, <2>3 DEF Look
<1>12. Runs' /\ Override'
  BY <1>1, <1>8, RunsGoOn, OverrideGoesOn DEF MInv
<1>13. Announced'
  <2>1. loop'.incident \in OpenFor(loop.target, Head(loop.open), loop.gen)'
    BY <1>7, <1>9 DEF c0
  <2>2. ShouldAttempt(loop.incident)' /\ ~incidents'[loop'.incident].notified
    BY <1>4, <1>6, <1>7 DEF ShouldAttempt
  <2>3. QED
    BY <1>1, <1>7, <2>1, <2>2 DEF Announced
<1>14. Alerts'
  <2>1. \A i : Due(i)' = 0 /\ Due(i) = 0
    BY <1>1, <1>7 DEF Due
  <2>2. AlertIs(new, 0, faults)
    <3>1. faults \in Nat /\ MaxAttempts \in Nat
      BY TypesAre DEF MInv
    <3>2. 0 <= MaxAttempts /\ 0 + 0 <= 0 /\ 0 <= 0 + faults + 0
      BY <3>1
    <3>3. QED
      BY <1>4, <3>2 DEF AlertIs
  <2>3. ASSUME NEW i \in DOMAIN incidents PROVE AlertIs(incidents'[i], Due(i)', faults)
    <3>1. AlertIs(incidents[i], Due(i), faults)
      BY DEF MInv, Alerts
    <3>2. QED
      BY <1>6, <2>1, <3>1
  <2>4. QED
    BY <1>1, <1>6, <2>1, <2>2, <2>3 DEF Alerts
<1>15. QED
  BY <1>10, <1>11, <1>12, <1>13, <1>14 DEF MInv
LEMMA ResolveStep ==
  ASSUME MInv, Resolve
  PROVE  MInv'
<1> DEFINE over == Over(loop.target, loop.close, loop.gen)
           k == Min(over)
           inc == incidents[k]
           new == [inc EXCEPT !.open = FALSE]
<1>1. /\ loop.at = "apply" /\ loop.open = <<>> /\ over # {}
      /\ incidents' = [incidents EXCEPT ![k] = new]
      /\ UNCHANGED <<now, hist, state, mem, loop, looked, faults>>
  BY DEF Resolve
<1>2. /\ loop \in Loop /\ incidents \in Seq(Incident) /\ Busy
      /\ loop.seen \in [Targets -> Sight] /\ loop.target \in Targets
  BY <1>1, TypesAre DEF MInv, Busy, Types
<1>3. k \in over /\ k \in DOMAIN incidents
  <2>1. over \subseteq DOMAIN incidents
    BY DEF Over, OpenIncidents
  <2>2. over \in SUBSET Nat
    BY <1>2, <2>1
  <2> HIDE DEF over
  <2>3. k \in over
    BY <1>1, <2>2, MinIsLeast
  <2>4. QED
    BY <2>1, <2>3
<1>4. /\ inc.target = loop.target /\ inc.open
      /\ inc.gen < loop.gen \/ (inc.gen = loop.gen /\ inc.condition \in loop.close)
  BY <1>3 DEF Over, OpenIncidents
<1>5. inc \in Incident
  BY <1>2, <1>3
<1> HIDE DEF over, k
<1>6. /\ new \in Incident /\ new.target = inc.target /\ new.condition = inc.condition
      /\ new.gen = inc.gen /\ new.open = FALSE /\ new.outcome = inc.outcome
      /\ new.attempts = inc.attempts /\ new.sent = inc.sent /\ new.notified = inc.notified
  <2> HIDE DEF inc
  <2>1. new \in Incident
    BY <1>5 DEF Incident
  <2>2. QED
    BY <1>5, <2>1, IncidentIs
<1>7. IsSetAt(Incident, incidents, k, new, incidents')
  BY <1>1, <1>2, <1>3, <1>6, SetAt
<1> HIDE DEF new
<1>8. /\ DOMAIN incidents' = DOMAIN incidents /\ incidents' \in Seq(Incident)
      /\ incidents'[k] = new
      /\ \A i \in DOMAIN incidents : i # k => incidents'[i] = incidents[i]
  BY <1>7 DEF IsSetAt
<1>9. GoesOn /\ Busy' /\ ~Announcing'
  BY <1>1, <1>2 DEF GoesOn, Pending, Busy, Announcing
<1>10. Types'
  <2>1. \A i \in DOMAIN incidents' :
           incidents'[i].notified => incidents'[i].outcome = "delivered"
    BY <1>3, <1>6, <1>8, TypesAre DEF MInv, inc
  <2>2. mem' \in Memory /\ faults' \in 0..MaxFaults /\ looked' \in [Targets -> Looks]
    BY <1>1 DEF MInv, Types, TypeOK, Memory
  <2>3. QED
    BY <1>1, <1>2, <1>8, <1>9, <2>1, <2>2, TypesGoOn DEF MInv
<1>11. Look'
  <2>1. (\A i \in DOMAIN incidents :
           incidents[i].condition \in PolicyOf[incidents[i].target].alertOn)'
    <3>1. \A i \in DOMAIN incidents :
            /\ incidents'[i].condition = incidents[i].condition
            /\ incidents'[i].target = incidents[i].target
      BY <1>6, <1>8 DEF inc
    <3>2. QED
      BY <1>8, <3>1 DEF MInv, Look
  <2>2. (Busy => /\ looked[loop.target] = Unlooked
                 /\ \A c \in PolicyOf[loop.target].alertOn \ loop.close :
                      c \in ToSet(loop.open) \/ OpenFor(loop.target, c, loop.gen) # {})'
    <3>1. looked'[loop'.target] = Unlooked
      BY <1>1, <1>2 DEF MInv, Look
    <3>2. ASSUME NEW c \in PolicyOf[loop.target].alertOn \ loop.close
          PROVE  c \in ToSet(loop.open) \/ OpenFor(loop.target, c, loop.gen)' # {}
      <4>1. c \in ToSet(loop.open) \/ OpenFor(loop.target, c, loop.gen) # {}
        BY <1>2 DEF MInv, Look
      <4>2. OpenFor(loop.target, c, loop.gen)' = {i \in DOMAIN incidents' :
              /\ incidents'[i].target = loop.target /\ incidents'[i].open
              /\ incidents'[i].condition = c /\ incidents'[i].gen = loop.gen}
        BY <1>1 DEF OpenFor, OpenIncidents
      <4>3. k \notin OpenFor(loop.target, c, loop.gen)
        <5>1. SUFFICES ASSUME inc.condition = c, inc.gen = loop.gen PROVE FALSE
          BY DEF OpenFor, inc
        <5>2. loop.gen \in Nat /\ ~(inc.gen < loop.gen)
          <6>1. loop.gen \in Nat
            BY <1>2, LoopIs
          <6>2. QED
            BY <5>1, <6>1
        <5>3. QED
          BY <1>4, <5>1, <5>2
      <4>4. OpenFor(loop.target, c, loop.gen) \subseteq OpenFor(loop.target, c, loop.gen)'
        BY <1>8, <4>2, <4>3 DEF OpenFor, OpenIncidents
      <4>5. QED
        BY <4>1, <4>4
    <3>3. QED
      BY <1>1, <3>1, <3>2
  <2>3. IncidentsMatchLook'
    <3>1. SUFFICES ASSUME NEW t \in Targets, looked[t] # Unlooked
                   PROVE  /\ {incidents'[i].condition :
                                i \in {j \in OpenIncidents(t)' : incidents'[j].gen = looked[t].gen}}
                               = looked[t].open
                          /\ \A i \in OpenIncidents(t)' : incidents'[i].gen >= looked[t].gen
      BY <1>1 DEF IncidentsMatchLook
    <3>2. t # loop.target
      BY <1>2, <3>1 DEF MInv, Look
    <3>3. \A i \in DOMAIN incidents : incidents[i].target = t => i # k
      BY <1>4, <3>2 DEF inc
    <3>4. OpenIncidents(t)' = OpenIncidents(t)
      <4>1. incidents'[k].target # t
        BY <1>4, <1>6, <1>8, <3>2
      <4>2. QED
        BY <1>8, <3>3, <4>1 DEF OpenIncidents
    <3>5. \A i \in OpenIncidents(t) : incidents'[i] = incidents[i]
      BY <1>8, <3>3 DEF OpenIncidents
    <3>6. /\ {incidents[i].condition :
                i \in {j \in OpenIncidents(t) : incidents[j].gen = looked[t].gen}}
               = looked[t].open
          /\ \A i \in OpenIncidents(t) : incidents[i].gen >= looked[t].gen
      BY <3>1 DEF MInv, Look, IncidentsMatchLook
    <3>7. QED
      BY <3>4, <3>5, <3>6
  <2>4. QED
    BY <2>1, <2>2, <2>3 DEF Look
<1>12. Runs' /\ Override'
  BY <1>1, <1>9, RunsGoOn, OverrideGoesOn DEF MInv
<1>13. Announced'
  BY <1>9 DEF Announced
<1>14. Alerts'
  <2>1. ASSUME NEW i \in DOMAIN incidents PROVE AlertIs(incidents'[i], Due(i)', faults)
    <3>1. Due(i)' = Due(i)
      BY <1>1 DEF Due
    <3>2. AlertIs(incidents[i], Due(i), faults)
      BY DEF MInv, Alerts
    <3>3. /\ incidents'[i].outcome = incidents[i].outcome
          /\ incidents'[i].attempts = incidents[i].attempts
          /\ incidents'[i].sent = incidents[i].sent
      BY <1>6, <1>8 DEF inc
    <3>4. AlertIs(incidents'[i], Due(i), faults)
      BY <3>2, <3>3 DEF AlertIs
    <3>5. QED
      BY <3>1, <3>4
  <2>2. QED
    BY <1>1, <1>8, <2>1 DEF Alerts
<1>15. QED
  BY <1>10, <1>11, <1>12, <1>13, <1>14 DEF MInv

LEMMA FinishStep ==
  ASSUME MInv, Finish
  PROVE  MInv'
<1> DEFINE t0 == loop.target
           p == PolicyOf[t0]
           look == [gen |-> loop.gen, open |-> p.alertOn \ loop.close]
<1>1. /\ loop.at = "apply" /\ loop.open = <<>> /\ Over(t0, loop.close, loop.gen) = {}
      /\ looked' = [looked EXCEPT ![t0] = look]
      /\ loop' = [loop EXCEPT !.at = "observe", !.todo = loop.todo \ {t0}]
      /\ UNCHANGED <<now, hist, state, incidents, mem, faults>>
  BY DEF Finish
<1>2. /\ loop \in Loop /\ Busy /\ loop.seen \in [Targets -> Sight] /\ t0 \in Targets
      /\ looked \in [Targets -> Looks] /\ loop.gen \in Nat /\ p.alertOn \subseteq Conditions
  <2>1. loop \in Loop /\ Busy /\ t0 \in Targets /\ loop.seen \in [Targets -> Sight]
        /\ looked \in [Targets -> Looks]
    BY <1>1, TypesAre DEF MInv, Busy, Types
  <2>2. QED
    BY <2>1, LoopIs, PolicyIs
<1>3. look \in Looks /\ look.gen = loop.gen /\ look.open = p.alertOn \ loop.close
  BY <1>2 DEF Looks
<1>4. /\ loop'.todo = loop.todo \ {t0} /\ loop'.seen = loop.seen /\ loop'.at = "observe"
      /\ loop' \in Loop
  <2>1. loop' \in Loop
    <3> DEFINE v == loop.todo \ {t0}
    <3>1. v \in SUBSET Targets /\ loop' = [loop EXCEPT !.at = "observe", !.todo = v]
      BY <1>1, <1>2, LoopIs
    <3> HIDE DEF v
    <3>2. QED
      BY <1>2, <3>1 DEF Loop
  <2>2. QED
    BY <1>1, <1>2, <2>1, LoopIs
<1>5. ~Busy' /\ ~Announcing'
  BY <1>4 DEF Busy, Announcing
<1>6. GoesOn
  BY <1>2, <1>4, <1>5 DEF GoesOn, Pending
<1>7. Types'
  <2>1. \A i \in DOMAIN incidents' :
           incidents'[i].notified => incidents'[i].outcome = "delivered"
    BY <1>1, TypesAre DEF MInv
  <2>2. mem' \in Memory /\ faults' \in 0..MaxFaults /\ incidents' \in Seq(Incident)
    BY <1>1 DEF MInv, Types, TypeOK, Memory
  <2>3. looked' \in [Targets -> Looks]
    BY <1>1, <1>2, <1>3
  <2>4. QED
    BY <1>1, <1>2, <1>4, <1>5, <1>6, <2>1, <2>2, <2>3, TypesGoOn DEF MInv
<1>8. Look'
  <2>1. (\A i \in DOMAIN incidents :
           incidents[i].condition \in PolicyOf[incidents[i].target].alertOn)'
    BY <1>1 DEF MInv, Look
  <2>2. \A t : OpenIncidents(t)' = OpenIncidents(t)
    BY <1>1 DEF OpenIncidents
  <2>3. ASSUME NEW t \in Targets, looked'[t] # Unlooked
        PROVE  /\ {incidents[i].condition :
                     i \in {j \in OpenIncidents(t) : incidents[j].gen = looked'[t].gen}}
                    = looked'[t].open
               /\ \A i \in OpenIncidents(t) : incidents[i].gen >= looked'[t].gen
    <3>1. CASE t # t0
      <4>1. looked'[t] = looked[t]
        BY <1>1, <1>2, <3>1
      <4>2. QED
        BY <2>3, <4>1 DEF MInv, Look, IncidentsMatchLook
    <3>2. CASE t = t0
      <4>1. looked'[t].gen = loop.gen /\ looked'[t].open = p.alertOn \ loop.close
        BY <1>1, <1>2, <1>3, <3>2
      <4>2. ASSUME NEW i \in OpenIncidents(t)
            PROVE  /\ incidents[i].gen >= loop.gen
                   /\ incidents[i].gen = loop.gen =>
                        incidents[i].condition \in p.alertOn \ loop.close
        <5>1. i \in DOMAIN incidents /\ incidents[i].target = t
          BY DEF OpenIncidents
        <5>2. incidents[i].condition \in p.alertOn
          BY <3>2, <5>1 DEF MInv, Look
        <5>3. incidents[i].gen \in Nat
          <6>1. incidents[i] \in Incident
            BY <5>1, TypesAre DEF MInv
          <6>2. QED
            BY <6>1, IncidentIs
        <5>4. ~(incidents[i].gen < loop.gen)
              /\ ~(incidents[i].gen = loop.gen /\ incidents[i].condition \in loop.close)
          BY <1>1, <3>2 DEF Over
        <5>5. QED
          BY <1>2, <5>2, <5>3, <5>4
      <4>3. ASSUME NEW c \in p.alertOn \ loop.close
            PROVE  \E i \in OpenIncidents(t) :
                     incidents[i].gen = loop.gen /\ incidents[i].condition = c
        <5>1. ToSet(loop.open) = {}
          BY <1>1 DEF ToSet
        <5>2. OpenFor(t0, c, loop.gen) # {}
          BY <1>2, <5>1 DEF MInv, Look
        <5>3. QED
          BY <3>2, <5>2 DEF OpenFor
      <4>4. QED
        BY <4>1, <4>2, <4>3
    <3>3. QED
      BY <3>1, <3>2
  <2>4. IncidentsMatchLook'
    BY <1>1, <2>2, <2>3 DEF IncidentsMatchLook
  <2>5. QED
    BY <1>5, <2>1, <2>4 DEF Look
<1>9. Runs' /\ Override'
  BY <1>1, <1>6, RunsGoOn, OverrideGoesOn DEF MInv
<1>10. Announced'
  BY <1>5 DEF Announced
<1>11. Alerts'
  <2>1. \A i : Due(i)' = 0 /\ Due(i) = 0
    BY <1>1, <1>4 DEF Due
  <2>2. ASSUME NEW i \in DOMAIN incidents PROVE AlertIs(incidents'[i], Due(i)', faults)
    <3>1. AlertIs(incidents[i], Due(i), faults)
      BY DEF MInv, Alerts
    <3>2. QED
      BY <1>1, <2>1, <3>1
  <2>3. QED
    BY <1>1, <2>2 DEF Alerts
<1>12. QED
  BY <1>7, <1>8, <1>9, <1>10, <1>11 DEF MInv
\* Nothing about incidents or looks changes, and no target is being dealt with.
LEMMA LookIdles ==
  ASSUME Look, UNCHANGED <<incidents, looked>>, ~Busy'
  PROVE  Look'
<1>1. IncidentsMatchLook'
  <2>1. \A t : OpenIncidents(t)' = OpenIncidents(t)
    BY DEF OpenIncidents
  <2>2. QED
    BY <2>1 DEF Look, IncidentsMatchLook
<1>2. QED
  BY <1>1 DEF Look

LEMMA AlertsIdle ==
  ASSUME Alerts, UNCHANGED <<incidents, faults>>, loop.at # "sent", loop'.at # "sent"
  PROVE  Alerts'
<1>1. \A i : Due(i)' = 0 /\ Due(i) = 0
  BY DEF Due
<1>2. ASSUME NEW i \in DOMAIN incidents PROVE AlertIs(incidents'[i], Due(i)', faults)
  <2>1. AlertIs(incidents[i], Due(i), faults)
    BY DEF Alerts
  <2>2. QED
    BY <1>1, <2>1
<1>3. QED
  BY <1>2 DEF Alerts

LEMMA BeginStep ==
  ASSUME MInv, BeginPass
  PROVE  MInv'
<1> DEFINE blind(seen) == Cardinality(Targets) > 1 /\ \A t \in Targets : ~Learned(seen[t])
           Pass(time, jumped, seen) ==
             /\ now' = time
             /\ mem' = [mem EXCEPT !.baseline = TRUE,
                                   !.floor = IF jumped \/ blind(seen) THEN time ELSE mem.floor]
             /\ loop' = [IdleLoop EXCEPT !.at = "observe", !.todo = Targets, !.seen = seen]
<1>0. \E time \in now + 1..MaxTime, jumped \in BOOLEAN :
        \E seen \in [Targets -> Sightings(time)] : Pass(time, jumped, seen)
  BY DEF BeginPass
<1>1. PICK time \in now + 1..MaxTime, jumped \in BOOLEAN :
        \E seen \in [Targets -> Sightings(time)] : Pass(time, jumped, seen)
  BY <1>0
<1>2. PICK seen \in [Targets -> Sightings(time)] : Pass(time, jumped, seen)
  BY <1>1
<1>3. loop.at = "idle" /\ UNCHANGED <<hist, state, incidents, looked, faults>>
  BY DEF BeginPass
<1>4. now \in Nat /\ time \in Nat /\ time \in 0..MaxTime /\ now < time
  <2>1. now \in Nat /\ MaxTime \in Nat
    BY TypesAre DEF MInv
  <2>2. QED
    BY <2>1
<1>5. seen \in [Targets -> Sight]
  BY <1>4, SightingsAre
<1>6. /\ loop' \in Loop /\ loop'.at = "observe" /\ loop'.todo = Targets /\ loop'.seen = seen
  BY <1>2, <1>5, IdleIs DEF IdleLoop, Loop
<1>7. ~Busy' /\ ~Announcing' /\ Pending' = Targets
  BY <1>6 DEF Busy, Announcing, Pending
<1>8. mem' \in Memory
  <2> DEFINE v == IF jumped \/ blind(seen) THEN time ELSE mem.floor
  <2>1. mem \in Memory
    BY TypesAre DEF MInv
  <2>2. v \in Nat /\ mem' = [mem EXCEPT !.baseline = TRUE, !.floor = v]
    BY <1>2, <1>4, <2>1 DEF Memory
  <2> HIDE DEF v
  <2>3. QED
    BY <2>1, <2>2 DEF Memory
<1>9. Types'
  <2>1. TypeOK'
    BY <1>2, <1>3, <1>4, <1>6, <1>8 DEF MInv, Types, TypeOK, Memory
  <2>2. QED
    BY <1>3, <1>5, <1>6, <1>7, <2>1 DEF MInv, Types
<1>10. Announced' /\ Override'
  BY <1>7 DEF Announced, Override
<1>11. Look'
  BY <1>3, <1>7, LookIdles DEF MInv
<1>12. Alerts'
  BY <1>3, <1>6, AlertsIdle DEF MInv
<1>13. Runs'
  <2>1. \A t, gen : Known(hist', t, gen) = Known(hist, t, gen)
    BY <1>3 DEF Known
  <2>2. \A t \in Targets : state[t].at \in Nat /\ state[t].at < now'
    <3>1. ASSUME NEW t \in Targets PROVE state[t].at \in Nat /\ state[t].at < now'
      <4>1. state[t].at \in Nat
        BY TypesAre DEF MInv, Row
      <4>2. state[t].at <= now
        BY DEF MInv, Runs
      <4>3. QED
        BY <1>2, <1>4, <4>1, <4>2
    <3>2. QED
      BY <3>1
  <2>3. \A t \in Targets : state'[t].at <= now'
    <3>1. now' \in Nat
      BY <1>2, <1>4
    <3>2. ASSUME NEW t \in Targets PROVE state'[t].at <= now'
      BY <1>3, <2>2, <3>1
    <3>3. QED
      BY <3>2
  <2>4. (\A t \in Targets : LastSays(hist, t, state[t].gen, {state[t].status}))'
    <3>1. ASSUME NEW t \in Targets PROVE LastSays(hist, t, state[t].gen, {state[t].status})'
      BY <1>3, <2>1 DEF MInv, Runs, LastSays
    <3>2. QED
      BY <3>1
  <2>5. (\A j \in DOMAIN hist : hist[j].status # "" =>
           state[hist[j].target].row /\ hist[j].gen <= state[hist[j].target].gen)'
    BY <1>3 DEF MInv, Runs
  <2>6. QED
    BY <1>3, <1>7, <2>2, <2>3, <2>4, <2>5 DEF Runs
<1>14. QED
  BY <1>9, <1>10, <1>11, <1>12, <1>13 DEF MInv

\* What a sighting makes of the memory.
LEMMA RememberIs ==
  ASSUME mem \in Memory, now \in Nat, NEW t \in Targets, NEW s
  PROVE  RememberSight(t, s) \in Memory
<1> DEFINE kept == [mem.targetFloor EXCEPT ![t] = IF t \in mem.lost THEN now ELSE mem.targetFloor[t]]
           found == mem.lost \ {t}
           gone == mem.lost \cup {t}
<1>1. mem.targetFloor \in [Targets -> Nat] /\ mem.lost \in SUBSET Targets
  BY DEF Memory
<1>2. kept \in [Targets -> Nat] /\ found \in SUBSET Targets /\ gone \in SUBSET Targets
  BY <1>1
<1>3. \/ RememberSight(t, s) = [mem EXCEPT !.lost = found, !.targetFloor = kept]
      \/ RememberSight(t, s) = [mem EXCEPT !.lost = gone]
  BY DEF RememberSight, Memory
<1> HIDE DEF kept, found, gone
<1>4. /\ [mem EXCEPT !.lost = found, !.targetFloor = kept] \in Memory
      /\ [mem EXCEPT !.lost = gone] \in Memory
  BY <1>2 DEF Memory
<1>5. QED
  BY <1>3, <1>4
\* What is decided of one target.
IsDecision(t, s, gen, obs, open, close) ==
  /\ s \in Sight
  /\ Placed(state[t]) /\ state[t].at \in Nat /\ state[t].at < now
  /\ gen \in Nat \ {0} /\ (state[t].row => gen >= state[t].gen)
  /\ obs.status = s.status /\ obs.exitRecorded = ExitRecorded(state[t], gen)
  /\ open \in Seq(Conditions) /\ close \subseteq Conditions
  /\ ToSet(open) = PolicyOf[t].alertOn \ close
  /\ \A c \in ToSet(open) : Holds(c, obs, PolicyOf[t], now)
  /\ \A c \in close : ~Holds(c, obs, PolicyOf[t], now)
  /\ \A c \in ToSet(open) \cap Silences : Clear(c, PolicyOf[t], now)

LEMMA DecisionIs ==
  ASSUME MInv, NEW t \in loop.todo, loop.at = "observe",
         NEW s, s = loop.seen[t], NEW gen, gen = GenerationFor(state[t], s.id),
         NEW obs, obs = Observation(t, s, RememberSight(t, s), gen),
         NEW open, open = Opens(obs, PolicyOf[t], now),
         NEW close, close = Closes(obs, PolicyOf[t], now)
  PROVE  IsDecision(t, s, gen, obs, open, close) /\ RememberSight(t, s) \in Memory
<1>1. t \in Targets /\ now \in Nat /\ mem \in Memory
  BY TypesAre, LoopIs DEF MInv
<1>2. s \in Sight
  BY <1>1 DEF MInv, Types
<1>3. Placed(state[t]) /\ state[t] \in Row /\ state[t].at \in Nat
  <2>1. Placed(state[t])
    BY <1>1 DEF MInv, Types
  <2>2. QED
    BY <2>1, RowIs DEF Placed
<1>4. state[t].at < now
  <2>1. ~Busy /\ Pending = loop.todo
    BY DEF Busy, Pending
  <2>2. QED
    BY <2>1 DEF MInv, Runs
<1>5. gen \in Nat \ {0} /\ (state[t].row => gen >= state[t].gen)
  BY <1>3, GenerationIs
<1>6. RememberSight(t, s) \in Memory
  BY <1>1, RememberIs
<1>7. /\ obs.status = s.status /\ obs.exitRecorded = ExitRecorded(state[t], gen)
      /\ obs.since \in Nat /\ obs.activity \in Nat /\ obs.floor \in Nat
  <2> DEFINE m == RememberSight(t, s)
  <2>1. m.floor \in Nat /\ m.targetFloor[t] \in Nat
    BY <1>1, <1>6 DEF Memory
  <2>2. LaterOf(m.floor, m.targetFloor[t]) \in Nat
    BY <2>1 DEF LaterOf
  <2>3. s.since \in Nat /\ s.activity \in Nat
    BY <1>2 DEF Sight
  <2> HIDE DEF m
  <2>4. /\ obs.status = s.status /\ obs.exitRecorded = ExitRecorded(state[t], gen)
        /\ obs.since = s.since /\ obs.activity = s.activity
        /\ obs.floor = LaterOf(m.floor, m.targetFloor[t])
    BY DEF Observation, m
  <2>5. QED
    BY <2>2, <2>3, <2>4
<1>8. PolicyOf[t] \in Policies /\ PolicyOf[t].alertOn \subseteq Conditions
  BY <1>1, PolicyIs
<1>9. /\ open \in Seq(Conditions) /\ ToSet(open) = PolicyOf[t].alertOn \ close
      /\ \A c \in ToSet(open) : Holds(c, obs, PolicyOf[t], now)
  <2> DEFINE p == PolicyOf[t]
  <2>1. p.alertOn \subseteq Conditions
    BY <1>8
  <2> HIDE DEF p
  <2>2. IsOpened(obs, p, now, Opens(obs, p, now), Closes(obs, p, now))
    BY <2>1, OpensIs
  <2>3. open = Opens(obs, p, now) /\ close = Closes(obs, p, now)
    BY DEF p
  <2>4. IsOpened(obs, p, now, open, close)
    BY <2>2, <2>3
  <2>5. QED
    BY <2>4 DEF p, IsOpened
<1>10. close \subseteq Conditions /\ \A c \in close : ~Holds(c, obs, PolicyOf[t], now)
  BY <1>8 DEF Closes
<1>11. ASSUME NEW c \in ToSet(open) \cap Silences PROVE Clear(c, PolicyOf[t], now)
  BY <1>1, <1>7, <1>8, <1>9, OverrideBinds DEF Clear
<1>12. QED
  BY <1>2, <1>3, <1>4, <1>5, <1>6, <1>7, <1>9, <1>10, <1>11 DEF IsDecision

\* A repeated exit about which nothing is left to do.
LEMMA SkipStep ==
  ASSUME MInv, NEW t \in loop.todo, loop.at = "observe", NEW gen \in Nat \ {0},
         NEW open \in Seq(Conditions), NEW close,
         ToSet(open) = PolicyOf[t].alertOn \ close,
         Settled(t, open, close, gen), mem' \in Memory,
         loop' = [loop EXCEPT !.todo = loop.todo \ {t}],
         looked' = [looked EXCEPT ![t] = [gen |-> gen, open |-> ToSet(open)]],
         UNCHANGED <<now, hist, state, incidents, faults>>
  PROVE  MInv'
<1> DEFINE look == [gen |-> gen, open |-> ToSet(open)]
<1>1. /\ t \in Targets /\ loop \in Loop /\ looked \in [Targets -> Looks]
      /\ loop.seen \in [Targets -> Sight] /\ PolicyOf[t].alertOn \subseteq Conditions
  <2>1. t \in Targets
    BY TypesAre, LoopIs DEF MInv
  <2>2. QED
    BY <2>1, TypesAre, PolicyIs DEF MInv, Types
<1>2. look \in Looks /\ look.gen = gen /\ look.open = ToSet(open)
  BY <1>1 DEF Looks
<1>3. /\ loop'.todo = loop.todo \ {t} /\ loop'.seen = loop.seen /\ loop'.at = "observe"
      /\ loop' \in Loop
  <2>1. loop' \in Loop
    <3> DEFINE v == loop.todo \ {t}
    <3>1. v \in SUBSET Targets /\ loop' = [loop EXCEPT !.todo = v]
      BY <1>1, LoopIs
    <3> HIDE DEF v
    <3>2. QED
      BY <1>1, <3>1 DEF Loop
  <2>2. QED
    BY <1>1, <2>1, LoopIs
<1>4. ~Busy' /\ ~Announcing' /\ ~Busy
  BY <1>3 DEF Busy, Announcing
<1>5. GoesOn
  BY <1>3, <1>4 DEF GoesOn, Pending
<1>6. Types'
  <2>1. \A i \in DOMAIN incidents' :
           incidents'[i].notified => incidents'[i].outcome = "delivered"
    BY TypesAre DEF MInv
  <2>2. faults' \in 0..MaxFaults /\ incidents' \in Seq(Incident)
    BY DEF MInv, Types, TypeOK
  <2>3. looked' \in [Targets -> Looks]
    BY <1>1, <1>2
  <2>4. QED
    BY <1>1, <1>3, <1>4, <1>5, <2>1, <2>2, <2>3, TypesGoOn DEF MInv
<1>7. Look'
  <2>1. (\A i \in DOMAIN incidents :
           incidents[i].condition \in PolicyOf[incidents[i].target].alertOn)'
    BY DEF MInv, Look
  <2>2. \A u : OpenIncidents(u)' = OpenIncidents(u)
    BY DEF OpenIncidents
  <2>3. ASSUME NEW u \in Targets, looked'[u] # Unlooked
        PROVE  /\ {incidents[i].condition :
                     i \in {j \in OpenIncidents(u) : incidents[j].gen = looked'[u].gen}}
                    = looked'[u].open
               /\ \A i \in OpenIncidents(u) : incidents[i].gen >= looked'[u].gen
    <3>1. CASE u # t
      <4>1. looked'[u] = looked[u]
        BY <1>1, <3>1
      <4>2. QED
        BY <2>3, <4>1 DEF MInv, Look, IncidentsMatchLook
    <3>2. CASE u = t
      <4>1. looked'[u].gen = gen /\ looked'[u].open = ToSet(open)
        BY <1>1, <1>2, <3>2
      <4>2. ASSUME NEW i \in OpenIncidents(u)
            PROVE  /\ incidents[i].gen >= gen
                   /\ incidents[i].gen = gen => incidents[i].condition \in ToSet(open)
        <5>1. i \in DOMAIN incidents /\ incidents[i].target = u
          BY DEF OpenIncidents
        <5>2. incidents[i].condition \in PolicyOf[t].alertOn
          BY <3>2, <5>1 DEF MInv, Look
        <5>3. incidents[i].gen >= gen
          BY <3>2 DEF Settled
        <5>4. incidents[i].gen = gen => incidents[i].condition \notin close
          BY <3>2 DEF Settled, OpenFor
        <5>5. QED
          BY <5>2, <5>3, <5>4
      <4>3. ASSUME NEW c \in ToSet(open)
            PROVE  \E i \in OpenIncidents(u) :
                     incidents[i].gen = gen /\ incidents[i].condition = c
        BY <3>2 DEF Settled, OpenFor
      <4>4. QED
        BY <4>1, <4>2, <4>3
    <3>3. QED
      BY <3>1, <3>2
  <2>4. IncidentsMatchLook'
    BY <2>2, <2>3 DEF IncidentsMatchLook
  <2>5. QED
    BY <1>4, <2>1, <2>4 DEF Look
<1>8. Runs' /\ Override'
  BY <1>5, RunsGoOn, OverrideGoesOn DEF MInv
<1>9. Announced'
  BY <1>4 DEF Announced
<1>10. Alerts'
  BY <1>3, AlertsIdle DEF MInv
<1>11. QED
  BY <1>6, <1>7, <1>8, <1>9, <1>10 DEF MInv
Event == [target : Targets, session : Sessions \cup {""}, gen : Nat \ {0},
          status : Statuses, learned : BOOLEAN, at : Nat]

\* The sighting is recorded, and the target's conditions are to be applied.
LEMMA RecordedStep ==
  ASSUME MInv, NEW t \in loop.todo, loop.at = "observe", NEW s, NEW gen, NEW obs,
         NEW open, NEW close, IsDecision(t, s, gen, obs, open, close), mem' \in Memory,
         NEW event, event = [target |-> t, session |-> s.id, gen |-> gen,
                             status |-> s.status, learned |-> Learned(s), at |-> now],
         hist' = Append(hist, event),
         NEW r, r = Applied(state[t], s, gen), state' = [state EXCEPT ![t] = r],
         loop' = [loop EXCEPT !.at = "apply", !.target = t, !.gen = gen,
                              !.open = open, !.close = close],
         looked' = [looked EXCEPT ![t] = Unlooked],
         UNCHANGED <<now, incidents, faults>>
  PROVE  MInv'
<1> DEFINE row == state[t]
           k == Len(hist) + 1
<1>1. /\ t \in Targets /\ loop \in Loop /\ looked \in [Targets -> Looks]
      /\ loop.seen \in [Targets -> Sight] /\ now \in Nat /\ state \in [Targets -> Row]
      /\ hist \in Seq(Event)
  <2>1. t \in Targets
    BY TypesAre, LoopIs DEF MInv
  <2>2. hist \in Seq(Event)
    BY DEF MInv, Types, TypeOK, Event
  <2>3. QED
    BY <2>1, <2>2, TypesAre DEF MInv, Types
<1>2. /\ s \in Sight /\ s.status \in Statuses /\ s.id \in Sessions \cup {""} /\ s.live \in BOOLEAN
      /\ gen \in Nat \ {0} /\ open \in Seq(Conditions) /\ close \subseteq Conditions
      /\ ToSet(open) = PolicyOf[t].alertOn \ close
  BY DEF IsDecision, Sight
<1>3. IsApplied(row, s, gen, now, r)
  BY <1>1, AppliedIs DEF IsDecision
<1>4. event \in Event /\ event.target = t /\ event.gen = gen /\ event.status = s.status
  BY <1>1, <1>2 DEF Event, Learned
<1>5. IsAppended(Event, hist, event, hist')
  BY <1>1, <1>4, Appends
<1>6. /\ k \in Nat /\ DOMAIN hist' = DOMAIN hist \cup {k} /\ hist'[k] = event
      /\ \A j \in DOMAIN hist : hist'[j] = hist[j] /\ j \in Nat /\ j < k
      /\ hist' \in Seq(Event)
  BY <1>5 DEF IsAppended
<1> HIDE DEF k
<1>7. /\ loop'.at = "apply" /\ loop'.target = t /\ loop'.gen = gen /\ loop'.open = open
      /\ loop'.close = close /\ loop'.todo = loop.todo /\ loop'.seen = loop.seen
      /\ loop' \in Loop
  <2>1. loop' \in Loop
    BY <1>1, <1>2 DEF Loop
  <2>2. QED
    BY <1>1, <2>1, LoopIs, ZenonT(30)
<1>8. Busy' /\ ~Announcing' /\ ~Busy /\ Pending' = loop.todo \ {t} /\ Pending = loop.todo
  BY <1>7 DEF Busy, Announcing, Pending
<1>9. /\ state' \in [Targets -> Row] /\ state'[t] = r /\ Placed(r)
      /\ \A u \in Targets : u # t => state'[u] = state[u]
  BY <1>1, <1>3 DEF IsApplied, Placed
<1>10. Types'
  <2>1. TypeOK'
    <3>1. (incidents \in Seq(Incident) /\ faults \in 0..MaxFaults /\ now \in 0..MaxTime)'
      BY DEF MInv, Types, TypeOK
    <3>2. (\A i \in DOMAIN incidents :
             incidents[i].notified => incidents[i].outcome = "delivered")'
      BY DEF MInv, Types, TypeOK
    <3>3. QED
      BY <1>6, <1>7, <1>9, <3>1, <3>2 DEF TypeOK, Memory, Event
  <2>2. looked' \in [Targets -> Looks]
    <3>1. Unlooked \in Looks
      BY DEF Unlooked, Looks
    <3>2. QED
      BY <1>1, <3>1
  <2>3. (\A u \in Targets : Placed(state[u]))'
    BY <1>9 DEF MInv, Types, Placed
  <2>4. (Busy => /\ loop.target \in Targets /\ loop.gen # 0
                 /\ ToSet(loop.open) \subseteq PolicyOf[loop.target].alertOn)'
    BY <1>1, <1>2, <1>7
  <2>5. QED
    BY <1>1, <1>7, <2>1, <2>2, <2>3, <2>4 DEF Types
<1>11. Announced'
  BY <1>8 DEF Announced
<1>12. Alerts'
  BY <1>7, AlertsIdle DEF MInv
<1>13. Look'
  <2>1. (\A i \in DOMAIN incidents :
           incidents[i].condition \in PolicyOf[incidents[i].target].alertOn)'
    BY DEF MInv, Look
  <2>2. looked'[t] = Unlooked /\ \A u \in Targets : u # t => looked'[u] = looked[u]
    BY <1>1
  <2>3. IncidentsMatchLook'
    <3>1. \A u : OpenIncidents(u)' = OpenIncidents(u)
      BY DEF OpenIncidents
    <3>2. ASSUME NEW u \in Targets, looked'[u] # Unlooked
          PROVE  /\ {incidents[i].condition :
                       i \in {j \in OpenIncidents(u) : incidents[j].gen = looked'[u].gen}}
                      = looked'[u].open
                 /\ \A i \in OpenIncidents(u) : incidents[i].gen >= looked'[u].gen
      <4>1. looked'[u] = looked[u]
        BY <2>2, <3>2
      <4>2. QED
        BY <3>2, <4>1 DEF MInv, Look, IncidentsMatchLook
    <3>3. QED
      BY <3>1, <3>2 DEF IncidentsMatchLook
  <2>4. QED
    BY <1>2, <1>7, <2>1, <2>2, <2>3 DEF Look
<1>14. Override'
  BY <1>7 DEF Override, IsDecision
<1>15. Runs'
  <2>1. /\ s.status # "" => r.row /\ r.gen = gen /\ r.status = s.status /\ r.at = now
        /\ s.status = "" => /\ row.row => r.gen = row.gen /\ r.status = row.status
                            /\ r.at \in {row.at, 0}
        /\ row.row => r.row /\ r.gen >= row.gen
        /\ r \in Row /\ row \in Row
    BY <1>3 DEF IsApplied, Placed, IsDecision
  <2>2. /\ row.at \in Nat /\ row.at < now /\ (row.row => gen >= row.gen)
        /\ row.gen \in Nat /\ r.gen \in Nat
    <3>1. row.at \in Nat /\ row.at < now /\ (row.row => gen >= row.gen)
      BY DEF IsDecision
    <3>2. row.gen \in Nat /\ r.gen \in Nat
      BY <2>1, RowIs
    <3>3. QED
      BY <3>1, <3>2
  <2>3. ASSUME NEW j \in DOMAIN hist, hist[j].status # "", hist[j].target = t
        PROVE  row.row /\ hist[j].gen <= row.gen /\ hist[j].gen \in Nat
    <3>1. hist[j] \in Event
      BY <1>1
    <3>2. hist[j].gen \in Nat
      BY <3>1 DEF Event
    <3>3. QED
      BY <2>3, <3>2 DEF MInv, Runs
  <2>4. \A u, g : u # t => Known(hist', u, g) = Known(hist, u, g)
    <3>1. ASSUME NEW u, NEW g, u # t PROVE Known(hist', u, g) = Known(hist, u, g)
      BY <1>4, <1>6, <3>1 DEF Known
    <3>2. QED
      BY <3>1
  <2>5. s.status = "" => \A g : Known(hist', t, g) = Known(hist, t, g)
    <3>1. ASSUME NEW g, s.status = "" PROVE Known(hist', t, g) = Known(hist, t, g)
      BY <1>4, <1>6, <3>1 DEF Known
    <3>2. QED
      BY <3>1
  <2>6. s.status # "" => k \in Known(hist', t, gen)
    BY <1>4, <1>6 DEF Known
  <2>7. \A u, g : \A j \in Known(hist, u, g) : j \in DOMAIN hist /\ hist'[j] = hist[j] /\ j < k
    BY <1>6 DEF Known
  <2>8. \A g : \A j \in Known(hist', t, g) : j = k \/ j < k
    BY <1>6 DEF Known
  <2>9. (\A u \in Targets : state[u].at <= now)'
    <3>1. ASSUME NEW u \in Targets PROVE state'[u].at <= now
      <4>1. CASE u = t
        <5>1. r.at \in {now, row.at, 0}
          BY <2>1
        <5>2. r.at <= now
          BY <1>1, <2>2, <5>1
        <5>3. QED
          BY <1>9, <4>1, <5>2
      <4>2. CASE u # t
        BY <1>9, <4>2 DEF MInv, Runs
      <4>3. QED
        BY <4>1, <4>2
    <3>2. QED
      BY <3>1
  <2>10. (\A u \in Pending : state[u].at < now)'
    <3>1. ASSUME NEW u \in loop.todo, u # t PROVE state'[u].at < now
      <4>1. u \in Targets
        BY <1>1, LoopIs
      <4>2. QED
        BY <1>8, <1>9, <3>1, <4>1 DEF MInv, Runs
    <3>2. QED
      BY <1>8, <3>1
  <2>11. (\A j \in DOMAIN hist : hist[j].status # "" =>
            state[hist[j].target].row /\ hist[j].gen <= state[hist[j].target].gen)'
    <3>1. ASSUME NEW j \in DOMAIN hist', hist'[j].status # ""
          PROVE  state'[hist'[j].target].row /\ hist'[j].gen <= state'[hist'[j].target].gen
      <4>1. CASE j = k
        <5>1. s.status # "" /\ hist'[j].target = t /\ hist'[j].gen = gen
          BY <1>4, <1>6, <3>1, <4>1
        <5>2. r.row /\ gen <= r.gen
          <6>1. r.row /\ r.gen = gen
            BY <2>1, <5>1
          <6>2. QED
            BY <2>2, <6>1
        <5>3. QED
          BY <1>9, <5>1, <5>2
      <4>2. CASE j # k
        <5>1. j \in DOMAIN hist /\ hist'[j] = hist[j]
          BY <1>6, <4>2
        <5>2. CASE hist[j].target = t
          <6>1. row.row /\ hist[j].gen <= row.gen /\ hist[j].gen \in Nat
            BY <2>3, <3>1, <5>1, <5>2
          <6>2. r.row /\ r.gen >= row.gen
            BY <2>1, <6>1
          <6>3. hist[j].gen <= r.gen
            BY <2>2, <6>1, <6>2
          <6>4. QED
            BY <1>9, <5>1, <5>2, <6>2, <6>3
        <5>3. CASE hist[j].target # t
          <6>1. hist[j].target \in Targets
            <7>1. hist[j] \in Event
              BY <1>1, <5>1
            <7>2. QED
              BY <7>1 DEF Event
          <6>2. state'[hist[j].target] = state[hist[j].target]
            BY <1>9, <5>3, <6>1
          <6>3. QED
            BY <3>1, <5>1, <6>2 DEF MInv, Runs
        <5>4. QED
          BY <5>2, <5>3
      <4>3. QED
        BY <4>1, <4>2
    <3>2. QED
      BY <3>1
  <2>12. ASSUME NEW u \in Targets
         PROVE  LastSays(hist, u, state[u].gen, {state[u].status})'
    <3>1. SUFFICES ASSUME NEW j \in Known(hist', u, state'[u].gen),
                          \A i \in Known(hist', u, state'[u].gen) : i <= j
                   PROVE  hist'[j].status = state'[u].status
      BY DEF LastSays, Known
    <3>2. CASE u # t
      <4>1. j \in Known(hist, u, state[u].gen) /\ \A i \in Known(hist, u, state[u].gen) : i <= j
        BY <1>9, <2>4, <3>1, <3>2
      <4>2. hist[j].status = state[u].status
        BY <4>1 DEF MInv, Runs, LastSays
      <4>3. QED
        BY <1>9, <2>7, <3>2, <4>1, <4>2
    <3>3. CASE u = t /\ s.status # ""
      <4>1. state'[u].gen = gen /\ state'[u].status = s.status
        BY <1>9, <2>1, <3>3
      <4>2. k \in Known(hist', u, gen)
        BY <2>6, <3>3
      <4>3. j = k
        <5>1. k <= j /\ (j = k \/ j < k)
          BY <2>8, <3>1, <3>3, <4>1, <4>2
        <5>2. k \in Nat /\ j \in Nat
          BY <1>6, <3>1 DEF Known
        <5>3. QED
          BY <5>1, <5>2
      <4>4. QED
        BY <1>4, <1>6, <4>1, <4>3
    <3>4. CASE u = t /\ s.status = ""
      <4>1. j \in Known(hist, t, r.gen) /\ \A i \in Known(hist, t, r.gen) : i <= j
        BY <1>9, <2>5, <3>1, <3>4
      <4>2. row.row
        BY <2>3, <4>1 DEF Known
      <4>3. r.gen = row.gen /\ r.status = row.status
        BY <2>1, <3>4, <4>2
      <4>4. hist[j].status = row.status
        BY <1>1, <4>1, <4>3 DEF MInv, Runs, LastSays
      <4>5. hist'[j] = hist[j]
        BY <2>7, <4>1
      <4>6. state'[u].status = r.status
        BY <1>9, <3>4
      <4>7. QED
        BY <4>3, <4>4, <4>5, <4>6
    <3>5. QED
      BY <3>2, <3>3, <3>4
  <2>13. ASSUME "overdue" \in ToSet(open)
         PROVE  LastSays(hist, loop.target, loop.gen, Statuses \ {"exited"})'
    <3>1. s.status # "exited" /\ ~ExitRecorded(row, gen)
      <4>1. Holds("overdue", obs, PolicyOf[t], now)
        BY <2>13 DEF IsDecision
      <4>2. obs.status # "exited" /\ ~obs.exitRecorded
        BY <4>1 DEF Holds
      <4>3. QED
        BY <4>2 DEF IsDecision
    <3>2. SUFFICES ASSUME NEW j \in Known(hist', t, gen), \A i \in Known(hist', t, gen) : i <= j
                   PROVE  hist'[j].status \in Statuses \ {"exited"}
      BY <1>7 DEF LastSays
    <3>3. hist'[j].status \in Statuses
      <4>1. j \in DOMAIN hist' /\ hist' \in Seq(Event)
        BY <1>6, <3>2 DEF Known
      <4>2. hist'[j] \in Event
        BY <4>1
      <4>3. QED
        BY <4>2 DEF Event
    <3>4. CASE s.status # ""
      <4>1. k <= j /\ (j = k \/ j < k) /\ k \in Nat /\ j \in Nat
        BY <1>6, <2>6, <2>8, <3>2, <3>4 DEF Known
      <4>2. j = k
        BY <4>1
      <4>3. QED
        BY <1>4, <1>6, <3>1, <3>3, <4>2
    <3>5. CASE s.status = ""
      <4>1. j \in Known(hist, t, gen) /\ \A i \in Known(hist, t, gen) : i <= j
        BY <2>5, <3>2, <3>5
      <4>2. row.row /\ hist[j].gen <= row.gen /\ hist[j].gen = gen
        BY <2>3, <4>1 DEF Known
      <4>3. gen = row.gen
        <5>1. gen \in Nat /\ row.gen \in Nat /\ gen >= row.gen
          BY <1>2, <2>2, <4>2, Zenon
        <5>2. gen <= row.gen
          BY <4>2
        <5>3. QED
          BY <5>1, <5>2
      <4>4. hist[j].status = row.status
        BY <1>1, <4>1, <4>3 DEF MInv, Runs, LastSays
      <4>5. row.status # "exited"
        BY <3>1, <4>2, <4>3 DEF ExitRecorded
      <4>6. QED
        BY <2>7, <3>3, <4>1, <4>4, <4>5
    <3>6. QED
      BY <3>4, <3>5
  <2>14. (Busy /\ "overdue" \in ToSet(loop.open) =>
            LastSays(hist, loop.target, loop.gen, Statuses \ {"exited"}))'
    BY <1>7, <2>13
  <2>15. QED
    BY <2>9, <2>10, <2>11, <2>12, <2>14 DEF Runs
<1>16. QED
  BY <1>10, <1>11, <1>12, <1>13, <1>14, <1>15 DEF MInv
LEMMA ObserveStep ==
  ASSUME MInv, NEW t \in Targets, Observe(t)
  PROVE  MInv'
<1> DEFINE s == loop.seen[t]
           gen == GenerationFor(state[t], s.id)
           obs == Observation(t, s, RememberSight(t, s), gen)
           open == Opens(obs, PolicyOf[t], now)
           close == Closes(obs, PolicyOf[t], now)
           repeat == s.status = "exited" /\ ExitRecorded(state[t], gen)
           event == [target |-> t, session |-> s.id, gen |-> gen, status |-> s.status,
                     learned |-> Learned(s), at |-> now]
           r == Applied(state[t], s, gen)
<1>1. /\ loop.at = "observe" /\ t \in loop.todo /\ mem' = RememberSight(t, s)
      /\ UNCHANGED <<now, incidents, faults>>
  BY DEF Observe
<1>2. \/ /\ Settled(t, open, close, gen)
         /\ loop' = [loop EXCEPT !.todo = loop.todo \ {t}]
         /\ looked' = [looked EXCEPT ![t] = [gen |-> gen, open |-> ToSet(open)]]
         /\ UNCHANGED <<hist, state>>
      \/ /\ hist' = Append(hist, event)
         /\ state' = [state EXCEPT ![t] = r]
         /\ loop' = [loop EXCEPT !.at = "apply", !.target = t, !.gen = gen,
                                 !.open = open, !.close = close]
         /\ looked' = [looked EXCEPT ![t] = Unlooked]
  BY DEF Observe
<1>3. IsDecision(t, s, gen, obs, open, close) /\ RememberSight(t, s) \in Memory
  <2>1. /\ s = loop.seen[t] /\ gen = GenerationFor(state[t], s.id)
        /\ obs = Observation(t, s, RememberSight(t, s), gen)
        /\ open = Opens(obs, PolicyOf[t], now) /\ close = Closes(obs, PolicyOf[t], now)
    OBVIOUS
  <2> HIDE DEF s, gen, obs, open, close
  <2>2. QED
    BY <1>1, <2>1, DecisionIs
<1>4. mem' \in Memory
  BY <1>1, <1>3
<1>5. /\ event = [target |-> t, session |-> s.id, gen |-> gen, status |-> s.status,
                  learned |-> Learned(s), at |-> now]
      /\ r = Applied(state[t], s, gen)
  OBVIOUS
<1> HIDE DEF s, gen, obs, open, close, event, r
<1>6. gen \in Nat \ {0} /\ open \in Seq(Conditions) /\ ToSet(open) = PolicyOf[t].alertOn \ close
  BY <1>3 DEF IsDecision
<1>7. CASE /\ Settled(t, open, close, gen)
           /\ loop' = [loop EXCEPT !.todo = loop.todo \ {t}]
           /\ looked' = [looked EXCEPT ![t] = [gen |-> gen, open |-> ToSet(open)]]
           /\ UNCHANGED <<hist, state>>
  BY <1>1, <1>4, <1>6, <1>7, SkipStep
<1>8. CASE /\ hist' = Append(hist, event)
           /\ state' = [state EXCEPT ![t] = r]
           /\ loop' = [loop EXCEPT !.at = "apply", !.target = t, !.gen = gen,
                                   !.open = open, !.close = close]
           /\ looked' = [looked EXCEPT ![t] = Unlooked]
  BY <1>1, <1>3, <1>4, <1>5, <1>8, RecordedStep
<1>9. QED
  BY <1>2, <1>7, <1>8
LEMMA EndStep ==
  ASSUME MInv, EndPass \/ StoreFails \/ Crash
  PROVE  MInv'
<1>1. loop' = IdleLoop /\ UNCHANGED <<now, hist, state, incidents, looked>>
  BY DEF EndPass, StoreFails, Crash
<1>2. faults \in 0..MaxFaults /\ MaxFaults \in Nat /\ mem \in Memory
  BY TypesAre DEF MInv, Types, TypeOK
<1>3. faults' \in 0..MaxFaults
      /\ (faults' = faults + 1 \/ (faults' = faults /\ loop.at # "sent"))
  <2>1. \/ faults' = faults /\ loop.at = "observe"
        \/ faults < MaxFaults /\ faults' = faults + 1
    BY DEF EndPass, StoreFails, Crash
  <2>2. QED
    BY <1>2, <2>1
<1>4. mem' \in Memory
  <2>1. CASE mem' = mem
    BY <1>2, <2>1
  <2>2. CASE \E t \in loop.todo : mem' = RememberSight(t, loop.seen[t])
    <3>1. now \in Nat /\ loop.todo \subseteq Targets
      BY TypesAre, LoopIs DEF MInv
    <3>2. QED
      BY <1>2, <2>2, <3>1, RememberIs
  <2>3. CASE Crash
    <3>1. Len(hist) + 1 \in Nat
      <4>1. hist \in Seq(Event)
        BY DEF MInv, Types, TypeOK, Event
      <4>2. QED
        BY <4>1
    <3> DEFINE v == Len(hist) + 1
    <3>2. v \in Nat /\ mem' = [FreshMemory EXCEPT !.first = v]
      BY <2>3, <3>1 DEF Crash
    <3> HIDE DEF v
    <3>3. QED
      BY <3>2 DEF FreshMemory, Memory
  <2>4. QED
    BY <2>1, <2>2, <2>3 DEF EndPass, StoreFails
<1>5. QED
  BY <1>1, <1>3, <1>4, PassEnds

LEMMA NothingStep ==
  ASSUME MInv, UNCHANGED vars
  PROVE  MInv'
<1>1. UNCHANGED <<now, hist, state, incidents, mem, loop, looked, faults>>
  BY DEF vars
<1>2. GoesOn
  <2>1. loop \in Loop
    BY TypesAre DEF MInv
  <2>2. QED
    BY <1>1, <2>1 DEF GoesOn, Busy, Pending
<1>3. SameIncidents
  BY <1>1 DEF SameIncidents
<1>4. Types'
  BY <1>1 DEF MInv, Types, TypeOK, Busy
<1>5. Look'
  BY <1>1, <1>2, <1>3, LookGoesOn DEF MInv
<1>6. Runs' /\ Override'
  BY <1>1, <1>2, RunsGoOn, OverrideGoesOn DEF MInv
<1>7. Announced'
  BY <1>1 DEF MInv, Announced, Announcing, OpenFor, OpenIncidents, ShouldAttempt
<1>8. Alerts'
  <2>1. \A i : Due(i)' = Due(i)
    BY <1>1 DEF Due
  <2>2. QED
    BY <1>1, <2>1 DEF MInv, Alerts
<1>9. QED
  BY <1>4, <1>5, <1>6, <1>7, <1>8 DEF MInv

\* MInv is inductive.
LEMMA MonitorStep == MInv /\ [Next]_vars => MInv'
<1> SUFFICES ASSUME MInv, [Next]_vars PROVE MInv'
  OBVIOUS
<1>1. CASE BeginPass
  BY <1>1, BeginStep
<1>2. CASE \E t \in Targets : Observe(t)
  BY <1>2, ObserveStep
<1>3. CASE OpenOrTouch
  BY <1>3, TouchStep, OpenStep
<1>4. CASE \E outcome \in Outcomes : Deliver(outcome)
  BY <1>4, DeliverStep
<1>5. CASE RecordDelivery
  BY <1>5, RecordStep
<1>6. CASE MarkNotified
  BY <1>6, MarkStep
<1>7. CASE Resolve
  BY <1>7, ResolveStep
<1>8. CASE Finish
  BY <1>8, FinishStep
<1>9. CASE EndPass \/ StoreFails \/ Crash
  BY <1>9, EndStep
<1>10. CASE UNCHANGED vars
  BY <1>10, NothingStep
<1>11. QED
  BY <1>1, <1>2, <1>3, <1>4, <1>5, <1>6, <1>7, <1>8, <1>9, <1>10 DEF Next

\* MInv holds of every state of every behaviour.
LEMMA MonitorInv == Spec => []MInv
<1>1. Init => MInv
  BY MonitorInit
<1>2. MInv /\ [Next]_vars => MInv'
  BY MonitorStep
<1>3. QED
  BY <1>1, <1>2, PTL DEF Spec

-----------------------------------------------------------------------------
(* What the monitor promises.                                               *)

\* Every variable has its type and no incident is marked notified before its
\* delivery is on record (MarkIncidentNotified), through failed transactions and
\* restarts.
THEOREM MonitorTypes == Spec => []TypeOK
<1>1. MInv => TypeOK
  BY DEF MInv, Types
<1>2. QED
  BY <1>1, MonitorInv, PTL

\* After a completed look (observeTarget) the open incidents of the run it saw are
\* exactly the conditions that hold and none of an earlier run is open, for any
\* sightings, policies, delivery outcomes and faults before it.
THEOREM LooksAreMatched == Spec => []IncidentsMatchLook
<1>1. MInv => IncidentsMatchLook
  BY DEF MInv, Look
<1>2. QED
  BY <1>1, MonitorInv, PTL

\* No alert storm: the times an incident's alert leaves birddog are bounded by the
\* attempts ShouldAttempt allows and the faults that lost the record of one.
THEOREM AlertsAreBounded == Spec => []AlertsBounded
<1>1. MInv => AlertsBounded
  <2> SUFFICES ASSUME MInv, NEW i \in DOMAIN incidents
               PROVE  /\ incidents[i].sent <= MaxAttempts + faults
                      /\ incidents[i].attempts <= incidents[i].sent
    BY DEF AlertsBounded
  <2> DEFINE inc == incidents[i]
             due == Due(i)
             a == inc.attempts
             n == inc.sent
  <2>1. /\ inc \in Incident /\ faults \in Nat /\ MaxAttempts \in Nat \ {0}
        /\ due \in {0, 1} /\ AlertIs(inc, due, faults)
    BY TypesAre DEF MInv, Alerts, Due
  <2>2. a \in Nat /\ n \in Nat
    BY <2>1, IncidentIs, Zenon
  <2>3. due = 1 => a < MaxAttempts
    <3>1. SUFFICES ASSUME due = 1 PROVE a < MaxAttempts
      OBVIOUS
    <3>2. loop.at = "sent" /\ loop.incident = i
      BY <3>1 DEF Due
    <3>3. ShouldAttempt(i)
      BY <3>2 DEF MInv, Announced, Announcing
    <3>4. inc.outcome = "" \/ a < MaxAttempts
      BY <3>3 DEF ShouldAttempt
    <3>5. inc.outcome = "" => a = 0
      BY <2>1 DEF AlertIs
    <3>6. 0 < MaxAttempts
      BY <2>1
    <3>7. QED
      BY <3>4, <3>5, <3>6
  <2>4. a <= MaxAttempts /\ a + due <= n /\ n <= a + faults + due
    BY <2>1 DEF AlertIs
  <2>5. due \in {0, 1} /\ faults \in Nat /\ MaxAttempts \in Nat
    BY <2>1
  <2> HIDE DEF inc, due, a, n
  <2>6. n <= MaxAttempts + faults /\ a <= n
    BY <2>2, <2>3, <2>4, <2>5
  <2>7. QED
    BY <2>6 DEF inc, a, n
<1>2. QED
  BY <1>1, MonitorInv, PTL

\* The steps that send an alert, and the steps that open an incident.
LEMMA SendingIs ==
  ASSUME MInv, [Next]_vars, NEW i \in DOMAIN incidents,
         incidents'[i].sent # incidents[i].sent
  PROVE  incidents[i].outcome \in {"", "failed"}
<1>1. CASE \E outcome \in Outcomes : Deliver(outcome)
  <2>1. loop.at = "send" /\ i = loop.incident
    BY <1>1 DEF Deliver
  <2>2. ShouldAttempt(i)
    BY <2>1 DEF MInv, Announced, Announcing
  <2>3. QED
    BY <2>2 DEF ShouldAttempt
<1>2. CASE ~\E outcome \in Outcomes : Deliver(outcome)
  <2>1. incidents \in Seq(Incident)
    BY TypesAre DEF MInv
  <2>2. CASE UNCHANGED incidents
    BY <2>2
  <2>3. CASE OpenOrTouch
    <3>1. \A v : i \in DOMAIN incidents => Append(incidents, v)[i] = incidents[i]
      BY <2>1
    <3>2. QED
      BY <2>3, <3>1 DEF OpenOrTouch
  <2>4. CASE RecordDelivery \/ MarkNotified \/ Resolve
    <3> DEFINE inc == incidents[i]
    <3>1. inc \in Incident
      BY <2>1
    <3>2. \/ incidents'[i] = inc
          \/ incidents'[i] = [inc EXCEPT !.outcome = loop.outcome, !.attempts = inc.attempts + 1]
          \/ incidents'[i] = [inc EXCEPT !.notified = TRUE]
          \/ incidents'[i] = [inc EXCEPT !.open = FALSE]
      <4>1. CASE RecordDelivery
        BY <4>1 DEF RecordDelivery
      <4>2. CASE MarkNotified
        BY <4>2 DEF MarkNotified
      <4>3. CASE Resolve
        <5> DEFINE m == Min(Over(loop.target, loop.close, loop.gen))
        <5>1. incidents' = [incidents EXCEPT ![m].open = FALSE]
          BY <4>3 DEF Resolve
        <5> HIDE DEF m
        <5>2. QED
          BY <5>1
      <4>4. QED
        BY <2>4, <4>1, <4>2, <4>3
    <3> HIDE DEF inc
    <3>3. incidents'[i].sent = inc.sent
      BY <3>1, <3>2, IncidentIs
    <3>4. QED
      BY <3>3 DEF inc
  <2>5. UNCHANGED incidents \/ OpenOrTouch \/ RecordDelivery \/ MarkNotified \/ Resolve
    BY <1>2 DEF Next, vars, BeginPass, Observe, Finish, EndPass, StoreFails, Crash
  <2>6. QED
    BY <2>2, <2>3, <2>4, <2>5
<1>3. QED
  BY <1>1, <1>2

LEMMA OpeningIs ==
  ASSUME MInv, [Next]_vars, NEW i \in Opened
  PROVE  /\ Busy /\ incidents'[i].target = loop.target /\ incidents'[i].gen = loop.gen
         /\ incidents'[i].condition \in ToSet(loop.open)
         /\ loop.target \in Targets
<1>1. i \in DOMAIN incidents' /\ i \notin DOMAIN incidents /\ incidents \in Seq(Incident)
  BY TypesAre DEF Opened, MInv
<1>2. OpenOrTouch
  <2>1. CASE UNCHANGED incidents
    BY <1>1, <2>1
  <2>2. CASE RecordDelivery \/ MarkNotified \/ Resolve \/ \E outcome \in Outcomes : Deliver(outcome)
    <3>1. DOMAIN incidents' = DOMAIN incidents
      BY <2>2 DEF RecordDelivery, MarkNotified, Resolve, Deliver
    <3>2. QED
      BY <1>1, <3>1
  <2>3. QED
    BY <2>1, <2>2 DEF Next, vars, BeginPass, Observe, Finish, EndPass, StoreFails, Crash
<1> DEFINE new == [target |-> loop.target, condition |-> Head(loop.open), gen |-> loop.gen,
                   open |-> TRUE, notified |-> FALSE, attempts |-> 0,
                   outcome |-> "", sent |-> 0]
<1>3. loop.at = "apply" /\ loop.open # <<>> /\ incidents' = Append(incidents, new)
  BY <1>1, <1>2 DEF OpenOrTouch
<1>4. new.target = loop.target /\ new.condition = Head(loop.open) /\ new.gen = loop.gen
  OBVIOUS
<1> HIDE DEF new
<1>5. incidents'[i] = new
  <2>1. /\ Len(incidents) \in Nat /\ DOMAIN incidents = 1..Len(incidents)
        /\ DOMAIN Append(incidents, new) = 1..(Len(incidents) + 1)
        /\ Append(incidents, new)[Len(incidents) + 1] = new
    BY <1>1
  <2>2. i = Len(incidents) + 1
    BY <1>1, <1>3, <2>1
  <2>3. QED
    BY <1>3, <2>1, <2>2
<1>6. Busy /\ loop.open \in Seq(Conditions) /\ loop.target \in Targets
  <2>1. Busy /\ loop \in Loop
    BY <1>3, TypesAre DEF Busy, MInv
  <2>2. QED
    BY <2>1, LoopIs DEF MInv, Types
<1>7. Head(loop.open) \in ToSet(loop.open)
  BY <1>3, <1>6, HeadAndTail
<1>8. QED
  BY <1>4, <1>5, <1>6, <1>7

\* Once an alert's outcome is on record and is no definite failure, no step sends
\* that alert again (ShouldAttempt, read before the send and still true at it).
THEOREM SettledAlertsStay == Spec => SettledAlertNotRepeated
<1>1. MInv /\ [Next]_vars =>
        \A i \in DOMAIN incidents :
          incidents[i].outcome \in {"delivered", "unknown"} =>
            incidents'[i].sent = incidents[i].sent
  <2> SUFFICES ASSUME MInv, [Next]_vars, NEW i \in DOMAIN incidents,
                      incidents[i].outcome \in {"delivered", "unknown"},
                      incidents'[i].sent # incidents[i].sent
               PROVE  FALSE
    OBVIOUS
  <2>1. incidents[i].outcome \in {"", "failed"}
    BY SendingIs
  <2>2. QED
    BY <2>1
<1>2. QED
  BY <1>1, MonitorInv, PTL DEF Spec, SettledAlertNotRepeated

\* A run whose last known status is a verified exit is never reported overdue: what
\* Evaluate was told of the recorded exit still stands when the incident is opened,
\* whatever other sessions were seen at the target.
THEOREM ExitedIsNotOverdue == Spec => NoOverdueAfterExit
<1> DEFINE Said(i) == {j \in DOMAIN hist : /\ hist[j].target = incidents'[i].target
                                           /\ hist[j].gen = incidents'[i].gen
                                           /\ hist[j].status # ""}
<1>1. MInv /\ [Next]_vars =>
        \A i \in Opened : incidents'[i].condition = "overdue" =>
          (Said(i) # {} => hist[Max(Said(i))].status # "exited")
  <2> SUFFICES ASSUME MInv, [Next]_vars, NEW i \in Opened,
                      incidents'[i].condition = "overdue", Said(i) # {}
               PROVE  hist[Max(Said(i))].status # "exited"
    OBVIOUS
  <2>1. /\ Busy /\ incidents'[i].target = loop.target /\ incidents'[i].gen = loop.gen
        /\ "overdue" \in ToSet(loop.open)
    BY OpeningIs
  <2>2. LastSays(hist, loop.target, loop.gen, Statuses \ {"exited"})
    BY <2>1 DEF MInv, Runs
  <2>3. Said(i) = Known(hist, loop.target, loop.gen)
    BY <2>1 DEF Known
  <2>0. Said(i) \subseteq DOMAIN hist
    OBVIOUS
  <2> HIDE DEF Said
  <2>4. Len(hist) \in Nat /\ DOMAIN hist = 1..Len(hist)
    <3>1. hist \in Seq(Event)
      BY DEF MInv, Types, TypeOK, Event
    <3>2. QED
      BY <3>1
  <2>5. Said(i) \in SUBSET (0..Len(hist))
    <3>1. 1..Len(hist) \subseteq 0..Len(hist)
      BY <2>4
    <3>2. QED
      BY <2>0, <2>4, <3>1
  <2>6. Max(Said(i)) \in Said(i) /\ \A j \in Said(i) : j <= Max(Said(i))
    BY <2>4, <2>5, MaxIsGreatest
  <2>7. QED
    BY <2>2, <2>3, <2>6 DEF LastSays
<1>2. QED
  BY <1>1, MonitorInv, PTL DEF Spec, NoOverdueAfterExit

\* Silence the operator authorised is never reported, and its thresholds run from
\* the expiry of the override (overrideFloor).
THEOREM OverridesHold == Spec => OverrideHonoured
<1> DEFINE P(i) == PolicyOf[incidents'[i].target]
           C(i) == incidents'[i].condition
<1>1. MInv /\ [Next]_vars =>
        \A i \in Opened : C(i) \in Silences =>
          P(i).quietUntil = 0 \/ now >= P(i).quietUntil + Threshold(C(i), P(i))
  <2> SUFFICES ASSUME MInv, [Next]_vars, NEW i \in Opened, C(i) \in Silences
               PROVE  P(i).quietUntil = 0 \/ now >= P(i).quietUntil + Threshold(C(i), P(i))
    OBVIOUS
  <2>1. Busy /\ incidents'[i].target = loop.target /\ C(i) \in ToSet(loop.open)
    BY OpeningIs
  <2>2. Clear(C(i), PolicyOf[loop.target], now)
    BY <2>1 DEF MInv, Override
  <2>3. QED
    BY <2>1, <2>2 DEF Clear
<1>2. QED
  BY <1>1, MonitorInv, PTL DEF Spec, OverrideHonoured

-----------------------------------------------------------------------------
(* A verified exit is recorded once.  What is counted: the attempts at the   *)
(* alerts of a target's exits beyond the first of each.                      *)

\* The running sums of the attempts, over a list of incidents.
SumsOf(a, t, s) ==
  /\ \A n \in 0..Len(a) : s[n] \in Nat
  /\ s[0] = 0 /\ \A n \in 1..Len(a) : s[n] = s[n - 1] + Again(a[n], t)
  /\ Resent(a, t) = s[Len(a)]

LEMMA AgainIs ==
  ASSUME NEW inc \in Incident, NEW t
  PROVE  /\ Again(inc, t) \in Nat
         /\ inc.target # t \/ inc.condition # "exit" \/ inc.sent = 0 => Again(inc, t) = 0
<1>1. inc.sent \in Nat
  BY IncidentIs, Zenon
<1>2. QED
  BY <1>1 DEF Again

LEMMA SumsExist ==
  ASSUME NEW a \in Seq(Incident), NEW t
  PROVE  \E s : SumsOf(a, t, s)
<1> DEFINE N == Len(a)
           g == [n \in 1..N |-> Again(a[n], t)]
           s == CHOOSE f : f = [n \in 0..N |-> IF n = 0 THEN 0 ELSE f[n - 1] + g[n]]
           q == CHOOSE f : f = [n \in 0..N |-> IF n = 0 THEN 0 ELSE f[n - 1] + Again(a[n], t)]
<1>1. N \in Nat /\ \A n \in 1..N : a[n] \in Incident
  OBVIOUS
<1>2. g \in [1..N -> Nat] /\ \A n \in 1..N : g[n] = Again(a[n], t)
  BY <1>1, AgainIs
<1>3. q = s
  <2> SUFFICES ASSUME NEW f
               PROVE  [n \in 0..N |-> IF n = 0 THEN 0 ELSE f[n - 1] + g[n]]
                      = [n \in 0..N |-> IF n = 0 THEN 0 ELSE f[n - 1] + Again(a[n], t)]
    BY Zenon
  <2>1. QED
    BY <1>1
<1>4. Resent(a, t) = q[N]
  BY DEF Resent
<1> HIDE DEF N, g, q
<1>5. /\ s \in [0..N -> Nat] /\ s[0] = 0 /\ \A n \in 1..N : s[n] = s[n - 1] + g[n]
  BY <1>1, <1>2, SumsRise, ZenonT(30)
<1> HIDE DEF s
<1>6. SumsOf(a, t, s)
  BY <1>1, <1>2, <1>3, <1>4, <1>5 DEF SumsOf, N
<1>7. QED
  BY <1>6

LEMMA ResentIs ==
  ASSUME NEW a \in Seq(Incident), NEW t
  PROVE  Resent(a, t) \in Nat
<1>1. PICK s : SumsOf(a, t, s)
  BY SumsExist
<1>2. Len(a) \in 0..Len(a)
  OBVIOUS
<1>3. QED
  BY <1>1, <1>2 DEF SumsOf

\* An incident nothing was sent about adds nothing.
LEMMA ResentAppended ==
  ASSUME NEW a \in Seq(Incident), NEW v \in Incident, v.sent = 0, NEW t,
         NEW r, IsAppended(Incident, a, v, r)
  PROVE  Resent(r, t) = Resent(a, t)
<1> DEFINE N == Len(a)
<1>1. /\ r \in Seq(Incident) /\ Len(r) = N + 1 /\ N \in Nat /\ r[N + 1] = v
      /\ \A n \in 1..N : r[n] = a[n]
  <2>0. /\ r \in Seq(Incident) /\ DOMAIN a = 1..N /\ N \in Nat
        /\ DOMAIN r = DOMAIN a \cup {N + 1} /\ r[N + 1] = v
        /\ \A n \in DOMAIN a : r[n] = a[n]
    BY Zenon DEF IsAppended
  <2>5. DOMAIN r = 1..Len(r) /\ Len(r) \in Nat
    <3>1. r \in Seq(Incident)
      BY <2>0
    <3>2. QED
      BY <3>1
  <2>1. /\ r \in Seq(Incident) /\ DOMAIN r = 1..Len(r) /\ Len(r) \in Nat
        /\ DOMAIN a = 1..N /\ N \in Nat /\ DOMAIN r = 1..N \cup {N + 1} /\ r[N + 1] = v
        /\ \A n \in 1..N : r[n] = a[n]
    BY <2>0, <2>5, Zenon
  <2> DEFINE M == Len(r)
  <2> HIDE DEF N, M
  <2>2. 1..M = 1..N \cup {N + 1} /\ M \in Nat /\ N \in Nat
    BY <2>1 DEF M
  <2>3. M = N + 1
    <3>1. M \in 1..M \/ M = 0
      BY <2>2
    <3>2. N + 1 \in 1..M
      BY <2>2
    <3>3. QED
      BY <2>2, <3>1, <3>2
  <2>4. QED
    BY <2>1, <2>3 DEF M
<1>2. PICK s : SumsOf(a, t, s)
  BY SumsExist
<1>3. PICK q : SumsOf(r, t, q)
  BY <1>1, SumsExist
<1>4. Again(v, t) = 0
  BY AgainIs
<1>5. /\ \A n \in 0..N : s[n] \in Nat
      /\ s[0] = 0 /\ \A n \in 1..N : s[n] = s[n - 1] + Again(a[n], t)
      /\ Resent(a, t) = s[N]
  BY <1>2 DEF SumsOf
<1>6. /\ \A n \in 0..(N + 1) : q[n] \in Nat
      /\ q[0] = 0 /\ \A n \in 1..(N + 1) : q[n] = q[n - 1] + Again(r[n], t)
      /\ Resent(r, t) = q[N + 1]
  BY <1>1, <1>3 DEF SumsOf
<1> HIDE DEF N
<1>7. \A n \in 1..N : Again(a[n], t) = Again(r[n], t) /\ Again(a[n], t) \in Nat
  <2>1. \A n \in 1..N : r[n] \in Incident
    BY <1>1
  <2>2. QED
    BY <1>1, <2>1, AgainIs
<1>8. \A n \in (0 + 1)..N : s[n] - s[n - 1] = q[n] - q[n - 1]
  <2> SUFFICES ASSUME NEW n \in 1..N PROVE s[n] - s[n - 1] = q[n] - q[n - 1]
    OBVIOUS
  <2>1. n \in 1..(N + 1) /\ n - 1 \in 0..N /\ n - 1 \in 0..(N + 1)
    BY <1>1
  <2>2. /\ s[n] = s[n - 1] + Again(a[n], t) /\ q[n] = q[n - 1] + Again(a[n], t)
        /\ s[n - 1] \in Nat /\ q[n - 1] \in Nat /\ Again(a[n], t) \in Nat
    BY <1>5, <1>6, <1>7, <2>1
  <2>3. QED
    BY <2>2
<1>9. \A n \in 0..N : s[n] \in Nat /\ q[n] \in Nat
  BY <1>1, <1>5, <1>6
<1>10. s[N] - s[0] = q[N] - q[0]
  <2>1. 0 \in Nat /\ 0 <= N /\ Alike(s, q, 0, N)
    BY <1>1, <1>8, <1>9 DEF Alike
  <2>2. QED
    BY <1>1, <2>1, RiseAlike
<1>11. q[N + 1] = q[N] + 0
  <2>1. N + 1 \in 1..(N + 1) /\ (N + 1) - 1 = N
    BY <1>1
  <2>2. QED
    BY <1>1, <1>4, <1>6, <2>1
<1>12. s[N] \in Nat /\ q[N] \in Nat
  BY <1>1, <1>9
<1>13. QED
  BY <1>5, <1>6, <1>10, <1>11, <1>12

\* An incident replaced changes the sum by what it changes itself.
LEMMA ResentSetAt ==
  ASSUME NEW a \in Seq(Incident), NEW k \in DOMAIN a, NEW v \in Incident, NEW t,
         NEW r, IsSetAt(Incident, a, k, v, r)
  PROVE  Resent(r, t) + Again(a[k], t) = Resent(a, t) + Again(v, t)
<1> DEFINE N == Len(a)
<1>1. /\ r \in Seq(Incident) /\ Len(r) = N /\ N \in Nat /\ k \in 1..N /\ r[k] = v
      /\ \A n \in 1..N : n # k => r[n] = a[n]
  <2>1. /\ r \in Seq(Incident) /\ DOMAIN r = 1..Len(r) /\ Len(r) \in Nat
        /\ DOMAIN a = 1..N /\ N \in Nat /\ DOMAIN r = DOMAIN a /\ r[k] = v
        /\ \A n \in 1..N : n # k => r[n] = a[n]
    BY DEF IsSetAt
  <2> DEFINE M == Len(r)
  <2> HIDE DEF N, M
  <2>2. M = N
    <3>1. 1..M = 1..N /\ M \in Nat /\ N \in Nat
      BY <2>1 DEF M
    <3>2. (M \in 1..M \/ M = 0) /\ (N \in 1..N \/ N = 0)
      BY <3>1
    <3>3. QED
      BY <3>1, <3>2
  <2>3. QED
    BY <2>1, <2>2 DEF M
<1>2. PICK s : SumsOf(a, t, s)
  BY SumsExist
<1>3. PICK q : SumsOf(r, t, q)
  BY <1>1, SumsExist
<1>5. /\ \A n \in 0..N : s[n] \in Nat
      /\ s[0] = 0 /\ \A n \in 1..N : s[n] = s[n - 1] + Again(a[n], t)
      /\ Resent(a, t) = s[N]
  BY <1>2 DEF SumsOf
<1>6. /\ \A n \in 0..N : q[n] \in Nat
      /\ q[0] = 0 /\ \A n \in 1..N : q[n] = q[n - 1] + Again(r[n], t)
      /\ Resent(r, t) = q[N]
  BY <1>1, <1>3 DEF SumsOf
<1> HIDE DEF N
<1>7. \A n \in 1..N : Again(a[n], t) \in Nat /\ (n # k => Again(a[n], t) = Again(r[n], t))
  <2>1. \A n \in 1..N : a[n] \in Incident
    BY DEF N
  <2>2. QED
    BY <1>1, <2>1, AgainIs
<1>8. ASSUME NEW n \in 1..N, n # k PROVE s[n] - s[n - 1] = q[n] - q[n - 1]
  <2>1. n - 1 \in 0..N
    BY <1>1
  <2>2. /\ s[n] = s[n - 1] + Again(a[n], t) /\ q[n] = q[n - 1] + Again(a[n], t)
        /\ s[n - 1] \in Nat /\ q[n - 1] \in Nat /\ Again(a[n], t) \in Nat
    BY <1>5, <1>6, <1>7, <1>8, <2>1
  <2>3. QED
    BY <2>2
<1>9. s[k - 1] - s[0] = q[k - 1] - q[0]
  <2>1. k - 1 \in Nat /\ 0 <= k - 1 /\ \A n \in (0 + 1)..(k - 1) : n \in 1..N /\ n # k
    BY <1>1
  <2>2. \A n \in 0..(k - 1) : n \in 0..N
    BY <1>1
  <2>3. \A n \in 0..(k - 1) : s[n] \in Nat /\ q[n] \in Nat
    BY <1>5, <1>6, <2>2
  <2>4. \A n \in (0 + 1)..(k - 1) : s[n] - s[n - 1] = q[n] - q[n - 1]
    BY <1>8, <2>1
  <2>5. Alike(s, q, 0, k - 1)
    BY <2>3, <2>4 DEF Alike
  <2>6. QED
    BY <2>1, <2>5, RiseAlike
<1>10. s[N] - s[k] = q[N] - q[k]
  <2>1. k \in Nat /\ k <= N /\ \A n \in (k + 1)..N : n \in 1..N /\ n # k
    BY <1>1
  <2>2. \A n \in k..N : n \in 0..N
    BY <1>1
  <2>3. \A n \in k..N : s[n] \in Nat /\ q[n] \in Nat
    BY <1>5, <1>6, <2>2
  <2>4. \A n \in (k + 1)..N : s[n] - s[n - 1] = q[n] - q[n - 1]
    BY <1>8, <2>1
  <2>5. Alike(s, q, k, N)
    BY <2>3, <2>4 DEF Alike
  <2>6. QED
    BY <1>1, <2>1, <2>5, RiseAlike
<1>11. s[k] = s[k - 1] + Again(a[k], t) /\ q[k] = q[k - 1] + Again(v, t)
  BY <1>1, <1>5, <1>6
<1>12. /\ s[k - 1] \in Nat /\ q[k - 1] \in Nat /\ s[N] \in Nat /\ q[N] \in Nat
       /\ Again(a[k], t) \in Nat /\ Again(v, t) \in Nat
  <2>1. k - 1 \in 0..N /\ N \in 0..N
    BY <1>1
  <2>2. QED
    BY <1>1, <1>5, <1>6, <1>7, <2>1, AgainIs
<1>13. Resent(a, t) = s[N] /\ Resent(r, t) = q[N] /\ s[0] = 0 /\ q[0] = 0
  BY <1>5, <1>6
<1> HIDE DEF SumsOf
<1>14. s[k - 1] = q[k - 1]
  BY <1>9, <1>12, <1>13
<1>15. q[N] + Again(a[k], t) = s[N] + Again(v, t)
  <2>1. s[k] \in Nat /\ q[k] \in Nat
    BY <1>11, <1>12
  <2> DEFINE x == Again(a[k], t)
             y == Again(v, t)
             s0 == s[k - 1]
             s1 == s[k]
             s2 == s[N]
             q1 == q[k]
             q2 == q[N]
  <2>2. /\ s2 - s1 = q2 - q1 /\ s1 = s0 + x /\ q1 = s0 + y
        /\ x \in Nat /\ y \in Nat /\ s0 \in Nat /\ s1 \in Nat /\ s2 \in Nat
        /\ q1 \in Nat /\ q2 \in Nat
    BY <1>10, <1>11, <1>12, <1>14, <2>1
  <2> HIDE DEF x, y, s0, s1, s2, q1, q2
  <2>3. q2 + x = s2 + y
    BY <2>2
  <2>4. QED
    BY <2>3 DEF x, y, s2, q2
<1>16. QED
  BY <1>13, <1>15

\* The last event of a target, and whether it asserts an exit.
LastOf(h, t, j) ==
  j \in DOMAIN h /\ h[j].target = t /\ \A k \in DOMAIN h : h[k].target = t => k <= j

Exited(h, t) == \E j \in DOMAIN h : LastOf(h, t, j) /\ h[j].status = "exited"

\* The restated exits are finitely many.
LEMMA RepeatsAreFinite ==
  ASSUME hist \in Seq(Event), NEW t
  PROVE  IsFiniteSet(RepeatedExits(t)) /\ Cardinality(RepeatedExits(t)) \in Nat
<1>1. DOMAIN hist = 1..Len(hist) /\ Len(hist) \in Nat
  OBVIOUS
<1>2. IsFiniteSet(1..Len(hist))
  BY <1>1, FS_Interval
<1>3. RepeatedExits(t) \in SUBSET (1..Len(hist))
  BY <1>1 DEF RepeatedExits
<1>4. QED
  BY <1>2, <1>3, FS_Subset, FS_CardinalityType

\* What recording an event does to what is said of each target.
IsSaid(event, k) ==
  /\ \A u : u # event.target =>
       /\ RepeatedExits(u)' = RepeatedExits(u)
       /\ \A j : LastOf(hist', u, j) => LastOf(hist, u, j) /\ hist'[j] = hist[j]
       /\ \A j : LastOf(hist, u, j) => LastOf(hist', u, j) /\ hist'[j] = hist[j]
  /\ \A j : LastOf(hist', event.target, j) => j = k
  /\ LastOf(hist', event.target, k) /\ hist'[k] = event
  /\ RepeatedExits(event.target)' \subseteq RepeatedExits(event.target) \cup {k}
  /\ \/ RepeatedExits(event.target)' \subseteq RepeatedExits(event.target)
     \/ /\ event.status = "exited"
        /\ \E j \in DOMAIN hist : /\ LastOf(hist, event.target, j)
                                  /\ hist[j].status = "exited" /\ hist[j].gen = event.gen

LEMMA SaidIs ==
  ASSUME hist \in Seq(Event), NEW event \in Event, IsAppended(Event, hist, event, hist')
  PROVE  IsSaid(event, Len(hist) + 1)
<1> DEFINE k == Len(hist) + 1
           t == event.target
<1>1. /\ DOMAIN hist' = DOMAIN hist \cup {k} /\ k \in Nat /\ hist'[k] = event
      /\ \A j \in DOMAIN hist : hist'[j] = hist[j] /\ j \in Nat /\ j < k
  BY DEF IsAppended
<1> HIDE DEF k
<1> DEFINE Of(h, u) == {j \in DOMAIN h : h[j].target = u}
           Restates(h, u, i, j) ==
             /\ i \in Of(h, u) /\ j \in Of(h, u) /\ i < j
             /\ \A m \in Of(h, u) : m <= i \/ m >= j
             /\ h[i].status = "exited" /\ h[j].status = "exited" /\ h[i].gen = h[j].gen
<1>2. \A u : RepeatedExits(u) = {j \in Of(hist, u) : \E i \in Of(hist, u) : Restates(hist, u, i, j)}
  BY DEF RepeatedExits
<1>3. \A u : RepeatedExits(u)' =
               {j \in Of(hist', u) : \E i \in Of(hist', u) : Restates(hist', u, i, j)}
  BY DEF RepeatedExits
<1>4. \A u : u # t => Of(hist', u) = Of(hist, u)
  BY <1>1
<1>5. Of(hist', t) = Of(hist, t) \cup {k}
  BY <1>1
<1>6. \A u, j : j \in Of(hist, u) => j \in DOMAIN hist /\ hist'[j] = hist[j]
  BY <1>1
<1>7. \A h, u, j : LastOf(h, u, j) <=> j \in Of(h, u) /\ \A m \in Of(h, u) : m <= j
  BY DEF LastOf
<1>8. ASSUME NEW u, u # t
      PROVE  /\ RepeatedExits(u)' = RepeatedExits(u)
             /\ \A j : LastOf(hist', u, j) => LastOf(hist, u, j) /\ hist'[j] = hist[j]
             /\ \A j : LastOf(hist, u, j) => LastOf(hist', u, j) /\ hist'[j] = hist[j]
  <2> HIDE DEF Of
  <2>1. Of(hist', u) = Of(hist, u)
    BY <1>4, <1>8
  <2>2. \A i, j : Restates(hist', u, i, j) <=> Restates(hist, u, i, j)
    BY <1>6, <2>1
  <2> HIDE DEF Restates
  <2>3. RepeatedExits(u)' = RepeatedExits(u)
    BY <1>2, <1>3, <2>1, <2>2
  <2>4. QED
    BY <1>6, <1>7, <2>1, <2>3
<1>9. ASSUME NEW j, LastOf(hist', t, j) PROVE j = k
  <2>1. j \in Of(hist, t) \cup {k} /\ k <= j
    BY <1>5, <1>7, <1>9
  <2>2. j \in DOMAIN hist => j \in Nat /\ j < k
    BY <1>1
  <2>3. QED
    BY <1>1, <2>1, <2>2
<1>10. LastOf(hist', t, k)
  <2>1. \A m \in Of(hist, t) \cup {k} : m <= k
    BY <1>1
  <2> HIDE DEF Of
  <2>2. QED
    BY <1>5, <1>7, <2>1
<1>11. ASSUME NEW j \in RepeatedExits(t)', j # k PROVE j \in RepeatedExits(t)
  <2>1. PICK i \in Of(hist', t) : Restates(hist', t, i, j) /\ j \in Of(hist', t)
    BY <1>3
  <2>2. j \in Of(hist, t) /\ j \in DOMAIN hist /\ j \in Nat /\ j < k
    BY <1>1, <1>5, <1>11, <2>1
  <2>3. i # k
    BY <1>1, <2>1, <2>2
  <2>4. i \in Of(hist, t) /\ i \in DOMAIN hist
    BY <1>1, <1>5, <2>1, <2>3
  <2>5. Restates(hist, t, i, j)
    <3>1. hist'[i] = hist[i] /\ hist'[j] = hist[j]
      BY <1>1, <2>2, <2>4
    <3>2. \A m \in Of(hist, t) : m \in Of(hist', t)
      BY <1>5
    <3> HIDE DEF Of
    <3>3. QED
      BY <2>1, <2>2, <2>4, <3>1, <3>2
  <2>6. QED
    BY <1>2, <2>2, <2>4, <2>5
<1>12. ASSUME k \in RepeatedExits(t)'
       PROVE  /\ event.status = "exited"
              /\ \E j \in DOMAIN hist : /\ LastOf(hist, t, j)
                                        /\ hist[j].status = "exited" /\ hist[j].gen = event.gen
  <2>1. PICK i \in Of(hist', t) : Restates(hist', t, i, k)
    BY <1>3, <1>12
  <2>2. i < k /\ i # k
    BY <1>1, <2>1
  <2>3. i \in Of(hist, t) /\ i \in DOMAIN hist /\ i \in Nat /\ hist'[i] = hist[i]
    BY <1>1, <1>5, <2>1, <2>2
  <2>4. \A m \in Of(hist, t) : m <= i
    <3>1. SUFFICES ASSUME NEW m \in Of(hist, t) PROVE m <= i
      OBVIOUS
    <3>2. m \in Of(hist', t) /\ m \in DOMAIN hist
      BY <1>5
    <3>3. m \in Nat /\ m < k
      BY <1>1, <3>2
    <3>4. m <= i \/ m >= k
      BY <2>1, <3>2
    <3>5. QED
      BY <1>1, <3>3, <3>4
  <2>5. LastOf(hist, t, i)
    <3> HIDE DEF Of
    <3>1. QED
      BY <1>7, <2>3, <2>4
  <2>6. hist[i].status = "exited" /\ event.status = "exited" /\ hist[i].gen = event.gen
    BY <1>1, <2>1, <2>3
  <2>7. QED
    BY <2>3, <2>5, <2>6
<1>13. /\ RepeatedExits(t)' \subseteq RepeatedExits(t) \cup {k}
       /\ \/ RepeatedExits(t)' \subseteq RepeatedExits(t)
          \/ /\ event.status = "exited"
             /\ \E j \in DOMAIN hist : /\ LastOf(hist, t, j)
                                       /\ hist[j].status = "exited" /\ hist[j].gen = event.gen
  BY <1>11, <1>12
<1>14. IsSaid(event, k)
  BY <1>1, <1>8, <1>9, <1>10, <1>13 DEF IsSaid
<1>15. QED
  BY <1>14 DEF k

\* What is restated grows by one at most, and only when the same exit was said last.
LEMMA RepeatsGrow ==
  ASSUME hist \in Seq(Event), NEW event, NEW k, IsSaid(event, k)
  PROVE  /\ Cardinality(RepeatedExits(event.target)') \in Nat
         /\ Cardinality(RepeatedExits(event.target)')
              <= Cardinality(RepeatedExits(event.target)) + 1
         /\ \/ Cardinality(RepeatedExits(event.target)')
                 <= Cardinality(RepeatedExits(event.target))
            \/ /\ event.status = "exited"
               /\ \E j \in DOMAIN hist : /\ LastOf(hist, event.target, j)
                                         /\ hist[j].status = "exited"
                                         /\ hist[j].gen = event.gen
<1> DEFINE R == RepeatedExits(event.target)
           Q == RepeatedExits(event.target)'
<1>1. IsFiniteSet(R) /\ Cardinality(R) \in Nat
  BY RepeatsAreFinite
<1>2. /\ Q \subseteq R \cup {k}
      /\ \/ Q \subseteq R
         \/ /\ event.status = "exited"
            /\ \E j \in DOMAIN hist : /\ LastOf(hist, event.target, j)
                                      /\ hist[j].status = "exited"
                                      /\ hist[j].gen = event.gen
  BY DEF IsSaid
<1> HIDE DEF R, Q
<1>3. /\ IsFiniteSet(R \cup {k}) /\ Cardinality(R \cup {k}) \in Nat
      /\ Cardinality(R \cup {k}) <= Cardinality(R) + 1
  <2> DEFINE n == Cardinality(R)
             m == Cardinality(R \cup {k})
  <2>1. IsFiniteSet(R \cup {k}) /\ (m = n \/ m = n + 1)
    BY <1>1, FS_AddElement
  <2>2. n \in Nat
    BY <1>1
  <2> HIDE DEF m, n
  <2>3. m \in Nat /\ m <= n + 1
    BY <2>1, <2>2
  <2>4. QED
    BY <2>1, <2>3 DEF m, n
<1>4. Q \in SUBSET (R \cup {k}) /\ Cardinality(Q) <= Cardinality(R \cup {k})
  BY <1>2, <1>3, FS_Subset
<1>5. Q \subseteq R => Cardinality(Q) <= Cardinality(R)
  BY <1>1, FS_Subset
<1>6. Cardinality(Q) \in Nat
  BY <1>3, <1>4, FS_Subset, FS_CardinalityType
<1>7. Cardinality(Q) <= Cardinality(R) + 1
  BY <1>1, <1>3, <1>4, <1>6
<1>8. QED
  BY <1>2, <1>5, <1>6, <1>7 DEF R, Q

\* The open incidents about the exit of the run a target's row stands for, whether
\* each was announced, and whether one is owed another attempt.
ExitAlerts(t) == OpenFor(t, "exit", state[t].gen)

Told(t) == \A i \in ExitAlerts(t) : incidents[i].sent > 0

Owed(t) == \E i \in ExitAlerts(t) :
  incidents[i].sent > 0 /\ ~incidents[i].notified /\ ShouldAttempt(i)

Asked(t) == PolicyOf[t].alertOn \cap {"exit"}

\* The look that saw the exit was completed.
Complete(t) == looked[t] = [gen |-> state[t].gen, open |-> Asked(t)] /\ Told(t)

Mine(t) == Busy /\ loop.target = t

\* How far the restated exits may be past the faults and the repeated attempts: one
\* less while the next pass may restate the exit for a fault already counted, one
\* more from the record that a pass restates for an attempt until that attempt.
Behind(t) == Exited(hist, t) /\ ~Mine(t) /\ ~Complete(t) /\ ~Owed(t)

Ahead(t) == /\ Exited(hist, t) /\ Mine(t) /\ loop.at \in {"apply", "send"} /\ Owed(t)
            /\ "exit" \in ToSet(loop.open)

Level(t) == IF Behind(t) THEN -1 ELSE IF Ahead(t) THEN 1 ELSE 0

Bounded(t) == Cardinality(RepeatedExits(t)) <= faults + Resent(incidents, t) + Level(t)

RowSays ==
  \A t \in Targets : \A j \in DOMAIN hist :
    LastOf(hist, t, j) /\ hist[j].status = "exited" => hist[j].gen = state[t].gen

OneOpen ==
  \A i, j \in DOMAIN incidents :
    /\ incidents[i].open /\ incidents[j].open /\ incidents[i].target = incidents[j].target
    /\ incidents[i].gen = incidents[j].gen /\ incidents[i].condition = incidents[j].condition
    => i = j

SentFirst == \A i \in DOMAIN incidents : incidents[i].outcome # "" => incidents[i].sent > 0

\* A pass over a target that exited: what it opens is the exit, if asked about.
PassIs(t) ==
  /\ loop.gen = state[t].gen /\ ToSet(loop.open) \subseteq Asked(t)
  /\ PolicyOf[t].alertOn \ loop.close = Asked(t)

Tells(t) == Told(t) \/ "exit" \in ToSet(loop.open)

PassKnows == \A t \in Targets : Mine(t) /\ Exited(hist, t) => PassIs(t) /\ Tells(t)

ExitInv == /\ RowSays /\ OneOpen /\ SentFirst /\ PassKnows
           /\ \A t \in Targets : Bounded(t)

LEMMA LevelIs ==
  ASSUME NEW t
  PROVE  /\ Level(t) \in {-1, 0, 1}
         /\ Mine(t) => Level(t) \in {0, 1} /\ ~Behind(t)
         /\ ~Mine(t) => Level(t) \in {-1, 0}
         /\ ~Exited(hist, t) => Level(t) = 0
         /\ ~Behind(t) => Level(t) \in {0, 1}
         /\ ~Ahead(t) => Level(t) \in {-1, 0}
         /\ Behind(t) => Level(t) = -1
         /\ Ahead(t) => Level(t) = 1
<1>1. Behind(t) => ~Mine(t) /\ Exited(hist, t)
  BY DEF Behind
<1>2. Ahead(t) => Mine(t) /\ Exited(hist, t)
  BY DEF Ahead
<1>3. QED
  BY <1>1, <1>2 DEF Level

LEMMA BoundKept ==
  ASSUME MInv, MInv', NEW t, Bounded(t), hist' = hist, NEW d \in Int,
         faults' + Resent(incidents, t)' >= faults + Resent(incidents, t) + d,
         Level(t)' + d >= Level(t)
  PROVE  Bounded(t)'
<1>1. /\ hist \in Seq(Event) /\ incidents \in Seq(Incident) /\ incidents' \in Seq(Incident)
      /\ faults \in Nat
  BY TypesAre DEF MInv, Types, TypeOK, Event
<1>2. faults' \in Nat
  <2>1. faults' \in 0..MaxFaults /\ MaxFaults \in Nat
    BY MonitorAssumption DEF MInv, Types, TypeOK
  <2>2. QED
    BY <2>1
<1> DEFINE R == Cardinality(RepeatedExits(t))
           a == Resent(incidents, t)
           b == Resent(incidents, t)'
           x == Level(t)
           y == Level(t)'
           f == faults
           g == faults'
<1>3. R \in Nat /\ a \in Nat /\ b \in Nat /\ f \in Nat /\ g \in Nat
  BY <1>1, <1>2, RepeatsAreFinite, ResentIs
<1>4. x \in Int
  BY LevelIs
<1>5. y \in Int
  BY DEF Level
<1>6. R <= f + a + x /\ g + b >= f + a + d /\ y + d >= x
  BY DEF Bounded
<1>7. RepeatedExits(t)' = RepeatedExits(t)
  BY DEF RepeatedExits
<1>8. Bounded(t)' <=> R <= g + b + y
  BY <1>7 DEF Bounded
<1> HIDE DEF R, a, b, x, y, f, g
<1>9. R <= g + b + y
  BY <1>3, <1>4, <1>5, <1>6
<1>10. QED
  BY <1>8, <1>9

\* A step of the pass rewrites nothing about the other targets.
Elsewhere ==
  \A i \in DOMAIN incidents \cup DOMAIN incidents' :
    \/ /\ i \in DOMAIN incidents => incidents[i].target = loop.target
       /\ i \in DOMAIN incidents' => incidents'[i].target = loop.target
    \/ i \in DOMAIN incidents /\ i \in DOMAIN incidents' /\ incidents'[i] = incidents[i]

LEMMA ElsewhereIs ==
  ASSUME NEW t, t # loop.target, Elsewhere, Busy, UNCHANGED <<hist, state>>,
         looked'[t] = looked[t], Busy' => loop'.target = loop.target
  PROVE  Level(t)' = Level(t)
<1>1. ~Mine(t) /\ ~Mine(t)'
  BY DEF Mine
<1>2. ExitAlerts(t)' = ExitAlerts(t) /\ \A i \in ExitAlerts(t) : incidents'[i] = incidents[i]
  <2>1. OpenIncidents(t)' = OpenIncidents(t)
    BY DEF OpenIncidents, Elsewhere
  <2>2. \A i \in OpenIncidents(t) : incidents'[i] = incidents[i]
    BY DEF OpenIncidents, Elsewhere
  <2>3. QED
    BY <2>1, <2>2 DEF ExitAlerts, OpenFor
<1>3. Told(t)' = Told(t) /\ Owed(t)' = Owed(t)
  BY <1>2 DEF Told, Owed, ShouldAttempt
<1>4. Complete(t)' = Complete(t) /\ Exited(hist, t)' = Exited(hist, t)
  BY <1>3 DEF Complete
<1>5. Behind(t)' = Behind(t) /\ Ahead(t)' = Ahead(t)
  BY <1>1, <1>3, <1>4 DEF Behind, Ahead
<1>6. QED
  BY <1>5 DEF Level

LEMMA OneOpenStays ==
  ASSUME OneOpen, SameIncidents
  PROVE  OneOpen'
BY DEF OneOpen, SameIncidents

LEMMA RowSaysStays ==
  ASSUME RowSays, UNCHANGED <<hist, state>>
  PROVE  RowSays'
BY DEF RowSays, LastOf

\* What a step of the pass over one target has to show of that target alone.
LEMMA PassGoesOn ==
  ASSUME MInv, MInv', ExitInv, Busy, UNCHANGED <<hist, state, faults>>, Elsewhere,
         Busy' => /\ loop'.target = loop.target /\ loop'.gen = loop.gen
                  /\ loop'.close = loop.close /\ ToSet(loop'.open) \subseteq ToSet(loop.open),
         \A t \in Targets : t # loop.target => looked'[t] = looked[t],
         \A t \in Targets : Resent(incidents, t)' >= Resent(incidents, t),
         OneOpen', SentFirst',
         NEW h, h = loop.target,
         Exited(hist, h) => /\ Busy' => Tells(h)'
                            /\ ~Busy' => ~Behind(h)'
                            /\ Ahead(h) => \/ Ahead(h)'
                                           \/ Resent(incidents, h)' >= Resent(incidents, h) + 1
  PROVE  ExitInv'
<1>1. h \in Targets
  BY DEF MInv, Types
<1>2. faults \in Nat /\ faults' = faults
      /\ \A t : Resent(incidents, t) \in Nat /\ Resent(incidents, t)' \in Nat
  <2>1. faults \in Nat /\ incidents \in Seq(Incident) /\ incidents' \in Seq(Incident)
    BY TypesAre DEF MInv, Types, TypeOK
  <2>2. QED
    BY <2>1, ResentIs
<1>3. ASSUME NEW t \in Targets, t # h PROVE Bounded(t)'
  <2>1. Level(t)' = Level(t)
    BY <1>3, ElsewhereIs
  <2>2. Level(t) \in Int
    BY DEF Level
  <2>3. /\ faults' + Resent(incidents, t)' >= faults + Resent(incidents, t) + 0
        /\ Level(t)' + 0 >= Level(t)
    <3>1. Resent(incidents, t)' >= Resent(incidents, t)
      OBVIOUS
    <3> DEFINE a == Resent(incidents, t)
               b == Resent(incidents, t)'
               x == Level(t)
               y == Level(t)'
    <3>2. a \in Nat /\ b \in Nat /\ b >= a /\ x \in Int /\ y = x
      BY <1>2, <2>1, <2>2, <3>1
    <3> HIDE DEF a, b, x, y
    <3>3. faults + b >= faults + a + 0 /\ y + 0 >= x
      BY <1>2, <3>2
    <3>4. QED
      BY <3>3 DEF a, b, x, y
  <2>4. 0 \in Int /\ Bounded(t)
    BY DEF ExitInv
  <2>5. QED
    BY <2>3, <2>4, BoundKept
<1>4. Bounded(h)'
  <2> DEFINE a == Resent(incidents, h)
             b == Resent(incidents, h)'
             x == Level(h)
             y == Level(h)'
  <2>1. Mine(h) /\ x \in {0, 1}
    BY LevelIs DEF Mine
  <2>2. Exited(hist, h)' = Exited(hist, h)
    OBVIOUS
  <2>3. ~Exited(hist, h) => x = 0 /\ y = 0
    <3>1. y = 0 \/ Exited(hist, h)'
      BY DEF Level, Behind, Ahead
    <3>2. QED
      BY <2>2, <3>1, LevelIs
  <2>4. Exited(hist, h) => y \in {0, 1}
    <3>1. SUFFICES ASSUME Exited(hist, h) PROVE ~Behind(h)'
      BY DEF Level
    <3>2. CASE Busy'
      BY <3>2 DEF Behind, Mine
    <3>3. CASE ~Busy'
      BY <3>1, <3>3
    <3>4. QED
      BY <3>2, <3>3
  <2>5. Exited(hist, h) => y = 1 \/ b >= a + 1 \/ x = 0
    <3>1. Ahead(h)' => y = 1 \/ Behind(h)'
      BY DEF Level
    <3>2. ~Ahead(h) => x = 0
      BY <2>1, LevelIs DEF Level
    <3>3. Exited(hist, h) => ~Behind(h)'
      <4>1. CASE Busy'
        BY <4>1 DEF Behind, Mine
      <4>2. QED
        BY <4>1
    <3>4. QED
      BY <3>1, <3>2, <3>3
  <2>6. a \in Nat /\ b \in Nat /\ b >= a
    BY <1>1, <1>2
  <2> HIDE DEF a, b, x, y
  <2>7. \E d \in {0, 1} : faults' + b >= faults + a + d /\ y + d >= x
    <3>1. x \in {0, 1} /\ y \in {0, 1}
      BY <2>1, <2>3, <2>4
    <3>2. CASE b >= a + 1
      <4>1. faults' + b >= faults + a + 1 /\ y + 1 >= x
        BY <1>2, <2>6, <3>1, <3>2
      <4>2. QED
        BY <4>1
    <3>3. CASE x = 0 \/ y = 1
      <4>1. faults' + b >= faults + a + 0 /\ y + 0 >= x
        BY <1>2, <2>6, <3>1, <3>3
      <4>2. QED
        BY <4>1
    <3>4. QED
      BY <2>3, <2>5, <3>2, <3>3
  <2>8. PICK d \in {0, 1} : faults' + b >= faults + a + d /\ y + d >= x
    BY <2>7
  <2>9. d \in Int /\ Bounded(h)
    BY <1>1 DEF ExitInv
  <2>10. QED
    BY <2>8, <2>9, BoundKept DEF a, b, x, y
<1>5. PassKnows'
  <2> SUFFICES ASSUME NEW t \in Targets, Mine(t)', Exited(hist, t)'
               PROVE  PassIs(t)' /\ Tells(t)'
    BY DEF PassKnows
  <2>1. Busy' /\ t = h
    BY DEF Mine
  <2>2. PassIs(t)
    BY <2>1 DEF Mine, ExitInv, PassKnows
  <2>3. QED
    BY <2>1, <2>2 DEF PassIs, Asked
<1>6. RowSays'
  BY RowSaysStays DEF ExitInv
<1>7. QED
  BY <1>3, <1>4, <1>5, <1>6 DEF ExitInv

\* An announcement during a pass over a target that exited is of its exit, and of
\* the one open incident about it.
LEMMA ExitOpensAlone ==
  ASSUME MInv, ExitInv, Busy, Exited(hist, loop.target), loop.open # <<>>
  PROVE  /\ Head(loop.open) = "exit" /\ "exit" \in ToSet(loop.open)
         /\ OpenFor(loop.target, Head(loop.open), loop.gen) = ExitAlerts(loop.target)
         /\ \A i, j \in ExitAlerts(loop.target) : i = j
<1>1. loop.target \in Targets /\ loop.open \in Seq(Conditions)
  BY TypesAre, LoopIs DEF MInv, Types
<1>2. PassIs(loop.target)
  BY <1>1 DEF ExitInv, PassKnows, Mine
<1>3. Head(loop.open) \in ToSet(loop.open)
  BY <1>1, HeadAndTail
<1>4. Head(loop.open) = "exit"
  BY <1>2, <1>3 DEF PassIs, Asked
<1>5. OpenFor(loop.target, "exit", loop.gen) = ExitAlerts(loop.target)
  BY <1>2 DEF PassIs, ExitAlerts
<1>6. ASSUME NEW i \in ExitAlerts(loop.target), NEW j \in ExitAlerts(loop.target) PROVE i = j
  <2>1. OneOpen
    BY DEF ExitInv
  <2>2. QED
    BY <2>1 DEF ExitAlerts, OpenFor, OpenIncidents, OneOpen
<1>7. QED
  BY <1>3, <1>4, <1>5, <1>6

LEMMA ExitDelivers ==
  ASSUME MInv, MInv', ExitInv, NEW outcome \in Outcomes, Deliver(outcome)
  PROVE  ExitInv'
<1> DEFINE k == loop.incident
           inc == incidents[k]
           new == [inc EXCEPT !.sent = inc.sent + 1]
<1> SUFFICES ASSUME NEW h, h = loop.target PROVE ExitInv'
  OBVIOUS
<1>1. /\ loop.at = "send" /\ loop' = [loop EXCEPT !.at = "sent", !.outcome = outcome]
      /\ incidents' = [incidents EXCEPT ![k] = new]
      /\ UNCHANGED <<now, hist, state, mem, looked, faults>>
  BY DEF Deliver
<1>2. Announcing /\ loop \in Loop /\ incidents \in Seq(Incident)
  BY <1>1, TypesAre DEF Announcing, MInv
<1>3. /\ k \in DOMAIN incidents /\ inc \in Incident /\ Busy /\ loop.open # <<>>
      /\ k \in OpenFor(h, Head(loop.open), loop.gen)
  BY <1>2, AnnouncedIs
<1>4. /\ new \in Incident /\ new.target = inc.target /\ new.condition = inc.condition
      /\ new.gen = inc.gen /\ new.open = inc.open /\ new.sent = inc.sent + 1
      /\ new.outcome = inc.outcome /\ inc.sent \in Nat
  <2>1. inc.sent \in Nat
    BY <1>3, IncidentIs, Zenon
  <2>2. QED
    BY <1>3, <2>1, SentIs
<1>5. IsSetAt(Incident, incidents, k, new, incidents')
  BY <1>1, <1>2, <1>3, <1>4, SetAt
<1>6. /\ loop'.at = "sent" /\ loop'.target = loop.target /\ loop'.gen = loop.gen
      /\ loop'.open = loop.open /\ loop'.close = loop.close
  BY <1>1, <1>2, LoopIs
<1>7. inc.target = h
  BY <1>3 DEF OpenFor, OpenIncidents
<1> HIDE DEF new, k, inc
<1>8. SameIncidents /\ Busy'
  BY <1>4, <1>5, <1>6 DEF SameIncidents, IsSetAt, inc, Busy
<1>9. Elsewhere
  BY <1>4, <1>5, <1>7 DEF Elsewhere, IsSetAt, inc
<1>10. ASSUME NEW t
       PROVE  /\ Resent(incidents, t)' >= Resent(incidents, t)
              /\ t = h /\ inc.condition = "exit" /\ inc.sent > 0 =>
                   Resent(incidents, t)' >= Resent(incidents, t) + 1
  <2> DEFINE a == Resent(incidents, t)
             b == Resent(incidents, t)'
             x == Again(inc, t)
             y == Again(new, t)
  <2>1. b + x = a + y
    BY <1>2, <1>3, <1>4, <1>5, ResentSetAt DEF inc
  <2>2. a \in Nat /\ b \in Nat /\ x \in Nat /\ y \in Nat
    BY <1>2, <1>3, <1>4, <1>5, ResentIs, AgainIs DEF IsSetAt
  <2>3. y >= x /\ (t = h /\ inc.condition = "exit" /\ inc.sent > 0 => y >= x + 1)
    BY <1>4, <1>7 DEF Again
  <2> HIDE DEF a, b, x, y
  <2>4. b >= a /\ (y >= x + 1 => b >= a + 1)
    BY <2>1, <2>2, <2>3
  <2>5. QED
    BY <2>3, <2>4 DEF a, b
<1>11. OneOpen' /\ SentFirst'
  <2>1. OneOpen'
    BY <1>8, OneOpenStays DEF ExitInv
  <2>2. SentFirst'
    <3>1. new.sent > 0
      BY <1>4
    <3>2. QED
      BY <1>5, <3>1 DEF ExitInv, SentFirst, IsSetAt
  <2>3. QED
    BY <2>1, <2>2
<1>12. ASSUME Exited(hist, h)
       PROVE  Tells(h)' /\ (Ahead(h) => Resent(incidents, h)' >= Resent(incidents, h) + 1)
  <2>1. /\ Head(loop.open) = "exit" /\ "exit" \in ToSet(loop.open)
        /\ OpenFor(h, Head(loop.open), loop.gen) = ExitAlerts(h)
        /\ \A i, j \in ExitAlerts(h) : i = j
    BY <1>3, <1>12, ExitOpensAlone
  <2>2. Tells(h)'
    BY <1>6, <2>1 DEF Tells
  <2>3. ASSUME Ahead(h) PROVE inc.condition = "exit" /\ inc.sent > 0
    <3>1. PICK i \in ExitAlerts(h) : incidents[i].sent > 0
      BY <2>3 DEF Ahead, Owed
    <3>2. k \in ExitAlerts(h) /\ i = k
      BY <1>3, <2>1, <3>1
    <3>3. QED
      BY <3>1, <3>2 DEF ExitAlerts, OpenFor, inc
  <2>4. QED
    BY <1>10, <2>2, <2>3
<1>13. QED
  BY <1>1, <1>3, <1>6, <1>8, <1>9, <1>10, <1>11, <1>12, PassGoesOn

\* What becomes of the incident an announcement is about, once it has left.
LEMMA ExitSettles ==
  ASSUME MInv, MInv', ExitInv, Announcing, loop.at \in {"sent", "mark"},
         UNCHANGED <<hist, state, looked, faults>>,
         NEW new \in Incident,
         new.target = incidents[loop.incident].target,
         new.condition = incidents[loop.incident].condition,
         new.gen = incidents[loop.incident].gen,
         new.open = incidents[loop.incident].open,
         new.sent = incidents[loop.incident].sent, new.sent > 0,
         incidents' = [incidents EXCEPT ![loop.incident] = new],
         Busy', loop'.target = loop.target, loop'.gen = loop.gen, loop'.close = loop.close,
         ToSet(loop'.open) \subseteq ToSet(loop.open)
  PROVE  ExitInv'
<1> DEFINE k == loop.incident
           inc == incidents[k]
<1> SUFFICES ASSUME NEW h, h = loop.target PROVE ExitInv'
  OBVIOUS
<1>1. incidents \in Seq(Incident)
  BY TypesAre DEF MInv
<1>2. /\ k \in DOMAIN incidents /\ inc \in Incident /\ Busy /\ loop.open # <<>>
      /\ k \in OpenFor(h, Head(loop.open), loop.gen)
  BY AnnouncedIs
<1>3. IsSetAt(Incident, incidents, k, new, incidents')
  BY <1>1, <1>2, SetAt
<1>4. inc.target = h /\ inc.sent \in Nat
  <2>1. inc.sent \in Nat
    BY <1>2, IncidentIs, Zenon
  <2>2. QED
    BY <1>2, <2>1 DEF OpenFor, OpenIncidents
<1>5. /\ new.target = inc.target /\ new.condition = inc.condition
      /\ new.gen = inc.gen /\ new.open = inc.open /\ new.sent = inc.sent /\ inc.sent > 0
  OBVIOUS
<1> HIDE DEF inc, k
<1>6. SameIncidents
  BY <1>3, <1>5 DEF SameIncidents, IsSetAt, inc
<1>7. Elsewhere
  BY <1>3, <1>4, <1>5 DEF Elsewhere, IsSetAt, inc
<1>8. ASSUME NEW t PROVE Resent(incidents, t)' >= Resent(incidents, t)
  <2> DEFINE a == Resent(incidents, t)
             b == Resent(incidents, t)'
             x == Again(inc, t)
             y == Again(new, t)
  <2>1. b + x = a + y
    BY <1>1, <1>2, <1>3, ResentSetAt DEF inc
  <2>2. a \in Nat /\ b \in Nat /\ x \in Nat /\ y \in Nat
    BY <1>1, <1>2, <1>3, ResentIs, AgainIs DEF IsSetAt
  <2>3. y = x
    BY <1>5 DEF Again
  <2> HIDE DEF a, b, x, y
  <2>4. b >= a
    BY <2>1, <2>2, <2>3
  <2>5. QED
    BY <2>4 DEF a, b
<1>10. OneOpen' /\ SentFirst'
  <2>1. OneOpen'
    BY <1>6, OneOpenStays DEF ExitInv
  <2>2. SentFirst'
    BY <1>3, <1>5 DEF ExitInv, SentFirst, IsSetAt
  <2>3. QED
    BY <2>1, <2>2
<1>11. ASSUME Exited(hist, h) PROVE Tells(h)' /\ ~Ahead(h)
  <2>1. /\ OpenFor(h, Head(loop.open), loop.gen) = ExitAlerts(h)
        /\ \A i, j \in ExitAlerts(h) : i = j
    BY <1>2, <1>11, ExitOpensAlone
  <2>2. ExitAlerts(h)' = ExitAlerts(h)
    BY <1>6, OpenSame DEF ExitAlerts, OpenFor, OpenIncidents
  <2>3. \A i \in ExitAlerts(h) : i = k
    BY <1>2, <2>1
  <2>4. Told(h)'
    BY <1>3, <1>5, <2>2, <2>3 DEF Told, IsSetAt
  <2>5. QED
    BY <2>4 DEF Tells, Ahead
<1>12. QED
  BY <1>2, <1>7, <1>8, <1>10, <1>11, PassGoesOn

LEMMA ExitRecords ==
  ASSUME MInv, MInv', ExitInv, RecordDelivery
  PROVE  ExitInv'
<1> DEFINE k == loop.incident
           inc == incidents[k]
           o == loop.outcome
           new == [inc EXCEPT !.outcome = o, !.attempts = inc.attempts + 1]
<1>1. /\ loop.at = "sent" /\ UNCHANGED <<now, hist, state, mem, looked, faults>>
      /\ incidents' = [incidents EXCEPT ![k] = new]
  BY DEF RecordDelivery
<1>2. Announcing /\ loop \in Loop /\ o \in Settles
  BY <1>1, TypesAre, MonitorAssumption DEF Announcing, MInv, Announced, Settles
<1>3. inc \in Incident /\ AlertIs(inc, 1, faults) /\ loop.open # <<>>
  <2>1. Due(k) = 1
    BY <1>1 DEF Due
  <2>2. QED
    BY <1>2, <2>1, AnnouncedIs
<1>4. /\ new \in Incident /\ new.target = inc.target /\ new.condition = inc.condition
      /\ new.gen = inc.gen /\ new.open = inc.open /\ new.sent = inc.sent
  <2>1. IsRecorded(inc, o, new)
    BY <1>2, <1>3, RecordedIs
  <2> HIDE DEF inc, k, o, new
  <2>2. QED
    BY <2>1 DEF IsRecorded
<1>5. inc.sent > 0
  <2>1. inc.attempts \in Nat /\ inc.sent \in Nat
    BY <1>3, IncidentIs, Zenon
  <2>2. inc.attempts + 1 <= inc.sent
    BY <1>3 DEF AlertIs
  <2> HIDE DEF inc
  <2>3. QED
    BY <2>1, <2>2
<1>6. /\ loop'.target = loop.target /\ loop'.gen = loop.gen /\ loop'.close = loop.close
      /\ ToSet(loop'.open) \subseteq ToSet(loop.open) /\ Busy'
  <2>1. CASE o = "delivered"
    <3>1. loop' = [loop EXCEPT !.at = "mark"]
      BY <2>1 DEF RecordDelivery
    <3>2. QED
      BY <1>2, <3>1, LoopIs DEF Busy
  <2>2. CASE o # "delivered"
    <3>1. loop' = [loop EXCEPT !.at = "apply", !.open = Tail(loop.open)]
      BY <2>2 DEF RecordDelivery
    <3>2. IsPopped(loop, loop')
      BY <1>2, <1>3, <3>1, Popped
    <3>3. QED
      BY <3>2 DEF IsPopped, Busy
  <2>3. QED
    BY <2>1, <2>2
<1> HIDE DEF new
<1>7. QED
  BY <1>1, <1>2, <1>4, <1>5, <1>6, ExitSettles

LEMMA ExitMarks ==
  ASSUME MInv, MInv', ExitInv, MarkNotified
  PROVE  ExitInv'
<1> DEFINE k == loop.incident
           inc == incidents[k]
           new == [inc EXCEPT !.notified = TRUE]
<1>1. /\ loop.at = "mark" /\ UNCHANGED <<now, hist, state, mem, looked, faults>>
      /\ incidents' = [incidents EXCEPT ![k] = new]
      /\ loop' = [loop EXCEPT !.at = "apply", !.open = Tail(loop.open)]
  BY DEF MarkNotified
<1>2. Announcing /\ loop \in Loop
  BY <1>1, TypesAre DEF Announcing, MInv
<1>3. /\ k \in DOMAIN incidents /\ inc \in Incident /\ loop.open # <<>>
      /\ inc.outcome = "delivered"
  BY <1>1, <1>2, AnnouncedIs DEF MInv, Announced
<1>4. inc.sent > 0
  BY <1>3 DEF ExitInv, SentFirst
<1>5. /\ new \in Incident /\ new.target = inc.target /\ new.condition = inc.condition
      /\ new.gen = inc.gen /\ new.open = inc.open /\ new.sent = inc.sent
  <2> HIDE DEF inc, k
  <2>1. new \in Incident
    BY <1>3 DEF Incident
  <2>2. QED
    BY <1>3, <2>1, IncidentIs
<1>6. IsPopped(loop, loop')
  BY <1>1, <1>2, <1>3, Popped
<1>7. /\ loop'.target = loop.target /\ loop'.gen = loop.gen /\ loop'.close = loop.close
      /\ ToSet(loop'.open) \subseteq ToSet(loop.open) /\ Busy'
  BY <1>6 DEF IsPopped, Busy
<1> HIDE DEF new
<1>8. QED
  BY <1>1, <1>2, <1>4, <1>5, <1>7, ExitSettles

LEMMA ExitResolves ==
  ASSUME MInv, MInv', ExitInv, Resolve
  PROVE  ExitInv'
<1> DEFINE over == Over(loop.target, loop.close, loop.gen)
           k == Min(over)
           inc == incidents[k]
           new == [inc EXCEPT !.open = FALSE]
<1> SUFFICES ASSUME NEW h, h = loop.target PROVE ExitInv'
  OBVIOUS
<1>1. /\ loop.at = "apply" /\ loop.open = <<>> /\ over # {}
      /\ incidents' = [incidents EXCEPT ![k] = new]
      /\ UNCHANGED <<now, hist, state, mem, loop, looked, faults>>
  BY DEF Resolve
<1>2. incidents \in Seq(Incident) /\ Busy
  BY <1>1, TypesAre DEF MInv, Busy
<1>3. k \in over /\ k \in DOMAIN incidents
  <2>1. over \subseteq DOMAIN incidents
    BY DEF Over, OpenIncidents
  <2>2. over \in SUBSET Nat
    BY <1>2, <2>1
  <2> HIDE DEF over
  <2>3. k \in over
    BY <1>1, <2>2, MinIsLeast
  <2>4. QED
    BY <2>1, <2>3
<1>4. inc.target = h /\ inc \in Incident
  BY <1>2, <1>3 DEF Over, OpenIncidents
<1> HIDE DEF over, k
<1>5. /\ new \in Incident /\ new.target = inc.target /\ new.condition = inc.condition
      /\ new.gen = inc.gen /\ new.open = FALSE /\ new.outcome = inc.outcome
      /\ new.sent = inc.sent
  <2> HIDE DEF inc
  <2>1. new \in Incident
    BY <1>4 DEF Incident
  <2>2. QED
    BY <1>4, <2>1, IncidentIs
<1>6. IsSetAt(Incident, incidents, k, new, incidents')
  BY <1>1, <1>2, <1>3, <1>5, SetAt
<1> HIDE DEF new, inc
<1>7. Elsewhere
  BY <1>4, <1>5, <1>6 DEF Elsewhere, IsSetAt, inc
<1>8. ASSUME NEW t PROVE Resent(incidents, t)' >= Resent(incidents, t)
  <2> DEFINE a == Resent(incidents, t)
             b == Resent(incidents, t)'
             x == Again(inc, t)
             y == Again(new, t)
  <2>1. b + x = a + y
    BY <1>2, <1>3, <1>5, <1>6, ResentSetAt DEF inc
  <2>2. a \in Nat /\ b \in Nat /\ x \in Nat /\ y \in Nat
    BY <1>2, <1>4, <1>5, <1>6, ResentIs, AgainIs DEF IsSetAt
  <2>3. y = x
    BY <1>5 DEF Again
  <2> HIDE DEF a, b, x, y
  <2>4. b >= a
    BY <2>1, <2>2, <2>3
  <2>5. QED
    BY <2>4 DEF a, b
<1>9. /\ DOMAIN incidents' = DOMAIN incidents
      /\ \A i \in DOMAIN incidents :
           /\ incidents'[i].target = incidents[i].target
           /\ incidents'[i].condition = incidents[i].condition
           /\ incidents'[i].gen = incidents[i].gen
           /\ incidents'[i].open => incidents[i].open
           /\ incidents'[i].outcome = incidents[i].outcome
           /\ incidents'[i].sent = incidents[i].sent
  BY <1>5, <1>6 DEF IsSetAt, inc
<1>10. OneOpen' /\ SentFirst'
  BY <1>9, ZenonT(30) DEF ExitInv, OneOpen, SentFirst
<1>11. ASSUME Exited(hist, h) PROVE Tells(h)' /\ ~Ahead(h)
  <2>1. "exit" \notin ToSet(loop.open)
    BY <1>1 DEF ToSet
  <2>2. h \in Targets
    BY <1>2 DEF MInv, Types
  <2>3. Told(h)
    BY <1>2, <1>11, <2>1, <2>2 DEF ExitInv, PassKnows, Mine, Tells
  <2>4. ExitAlerts(h)' \subseteq ExitAlerts(h)
    BY <1>1, <1>9 DEF ExitAlerts, OpenFor, OpenIncidents
  <2>5. \A i \in ExitAlerts(h) : i \in DOMAIN incidents
    BY DEF ExitAlerts, OpenFor, OpenIncidents
  <2>6. Told(h)'
    BY <1>9, <2>3, <2>4, <2>5 DEF Told
  <2>7. QED
    BY <2>1, <2>6 DEF Tells, Ahead
<1>12. Busy'
  BY <1>1, <1>2 DEF Busy
<1>13. QED
  BY <1>1, <1>2, <1>7, <1>8, <1>10, <1>11, <1>12, PassGoesOn

LEMMA ExitTouches ==
  ASSUME MInv, MInv', ExitInv, OpenOrTouch,
         OpenFor(loop.target, Head(loop.open), loop.gen) # {}
  PROVE  ExitInv'
<1> DEFINE present == OpenFor(loop.target, Head(loop.open), loop.gen)
           k == Max(present)
<1> SUFFICES ASSUME NEW h, h = loop.target PROVE ExitInv'
  OBVIOUS
<1>1. /\ loop.at = "apply" /\ loop.open # <<>> /\ incidents' = incidents
      /\ UNCHANGED <<now, hist, state, mem, looked, faults>>
      /\ loop' = IF ~incidents[k].notified /\ ShouldAttempt(k)
                 THEN [loop EXCEPT !.at = "send", !.incident = k]
                 ELSE [loop EXCEPT !.open = Tail(loop.open)]
  BY DEF OpenOrTouch
<1>2. loop \in Loop /\ incidents \in Seq(Incident) /\ Busy /\ loop.open \in Seq(Conditions)
  BY <1>1, TypesAre, LoopIs DEF MInv, Busy
<1>3. k \in present /\ k \in DOMAIN incidents
  <2>1. DOMAIN incidents = 1..Len(incidents) /\ Len(incidents) \in Nat
    BY <1>2
  <2>2. present \subseteq DOMAIN incidents
    BY DEF OpenFor, OpenIncidents
  <2>3. present \in SUBSET (0..Len(incidents)) /\ present # {}
    <3>1. 1..Len(incidents) \subseteq 0..Len(incidents)
      BY <2>1
    <3>2. QED
      BY <2>1, <2>2, <3>1
  <2> HIDE DEF present
  <2>4. k \in present
    BY <2>1, <2>3, MaxIsGreatest
  <2>5. QED
    BY <2>2, <2>4
<1> HIDE DEF k
<1>4. /\ loop'.target = loop.target /\ loop'.gen = loop.gen /\ loop'.close = loop.close
      /\ \/ loop'.at = "send" /\ loop'.open = loop.open
         \/ /\ loop'.at = "apply" /\ loop'.open = Tail(loop.open)
            /\ incidents[k].notified \/ ~ShouldAttempt(k)
  <2>1. CASE ~incidents[k].notified /\ ShouldAttempt(k)
    <3>1. loop' = [loop EXCEPT !.at = "send", !.incident = k]
      BY <1>1, <2>1
    <3>2. QED
      BY <1>2, <3>1, LoopIs
  <2>2. CASE ~(~incidents[k].notified /\ ShouldAttempt(k))
    <3>1. loop' = [loop EXCEPT !.open = Tail(loop.open)]
      BY <1>1, <2>2
    <3>2. QED
      BY <1>1, <1>2, <2>2, <3>1, LoopIs
  <2>3. QED
    BY <2>1, <2>2
<1>5. ToSet(loop'.open) \subseteq ToSet(loop.open) /\ Busy'
  BY <1>1, <1>2, <1>4, HeadAndTail DEF Busy
<1>6. Elsewhere /\ SameIncidents
  BY <1>1 DEF Elsewhere, SameIncidents
<1>7. ASSUME NEW t PROVE Resent(incidents, t)' >= Resent(incidents, t)
  <2>1. Resent(incidents, t)' = Resent(incidents, t)
    BY <1>1
  <2>2. Resent(incidents, t) \in Nat
    BY <1>2, ResentIs
  <2>3. QED
    BY <2>1, <2>2
<1>8. OneOpen' /\ SentFirst'
  BY <1>1, <1>6, OneOpenStays DEF ExitInv, SentFirst
<1>9. ASSUME Exited(hist, h) PROVE Tells(h)' /\ (Ahead(h) => Ahead(h)')
  <2>1. /\ "exit" \in ToSet(loop.open) /\ present = ExitAlerts(h)
        /\ \A i, j \in ExitAlerts(h) : i = j
    BY <1>1, <1>2, <1>9, ExitOpensAlone
  <2>2. ExitAlerts(h)' = ExitAlerts(h)
    BY <1>1 DEF ExitAlerts, OpenFor, OpenIncidents
  <2>3. CASE loop'.at = "send" /\ loop'.open = loop.open
    <3>1. Tells(h)'
      BY <2>1, <2>3 DEF Tells
    <3>2. Owed(h)' = Owed(h)
      BY <1>1, <2>2 DEF Owed, ShouldAttempt
    <3>3. Ahead(h) => Ahead(h)'
      BY <1>1, <1>4, <1>5, <2>1, <2>3, <3>2 DEF Ahead, Mine
    <3>4. QED
      BY <3>1, <3>3
  <2>4. CASE incidents[k].notified \/ ~ShouldAttempt(k)
    <3>1. \A i \in ExitAlerts(h) : i = k
      BY <1>3, <2>1
    <3>2. ~Owed(h)
      BY <2>4, <3>1 DEF Owed
    <3>3. incidents[k].outcome # ""
      BY <1>3, <2>4, TypesAre DEF ShouldAttempt, MInv
    <3>4. incidents[k].sent > 0
      BY <1>3, <3>3 DEF ExitInv, SentFirst
    <3>5. Told(h)'
      BY <1>1, <2>2, <3>1, <3>4 DEF Told
    <3>6. QED
      BY <3>2, <3>5 DEF Tells, Ahead
  <2>5. QED
    BY <1>4, <2>3, <2>4
<1>10. QED
  BY <1>1, <1>2, <1>4, <1>5, <1>6, <1>7, <1>8, <1>9, PassGoesOn

LEMMA ExitOpens ==
  ASSUME MInv, MInv', ExitInv, OpenOrTouch,
         OpenFor(loop.target, Head(loop.open), loop.gen) = {}
  PROVE  ExitInv'
<1> DEFINE c0 == Head(loop.open)
           k == Len(incidents) + 1
           new == [target |-> loop.target, condition |-> c0, gen |-> loop.gen,
                   open |-> TRUE, notified |-> FALSE, attempts |-> 0,
                   outcome |-> "", sent |-> 0]
<1> SUFFICES ASSUME NEW h, h = loop.target PROVE ExitInv'
  OBVIOUS
<1>1. /\ loop.at = "apply" /\ loop.open # <<>> /\ incidents' = Append(incidents, new)
      /\ UNCHANGED <<now, hist, state, mem, looked, faults>>
      /\ loop' = [loop EXCEPT !.at = "send", !.incident = k]
  BY DEF OpenOrTouch
<1>2. /\ loop \in Loop /\ incidents \in Seq(Incident) /\ Busy /\ h \in Targets
      /\ loop.gen \in Nat \ {0} /\ loop.open \in Seq(Conditions)
  <2>1. loop \in Loop /\ incidents \in Seq(Incident) /\ Busy
    BY <1>1, TypesAre DEF MInv, Busy
  <2>2. loop.gen \in Nat /\ loop.open \in Seq(Conditions)
    BY <2>1, LoopIs
  <2>3. QED
    BY <2>1, <2>2 DEF MInv, Types
<1>3. c0 \in Conditions
  BY <1>1, <1>2, HeadAndTail
<1>4. new \in Incident /\ new.target = h /\ new.condition = c0
      /\ new.gen = loop.gen /\ new.open = TRUE /\ new.sent = 0 /\ new.outcome = ""
  BY <1>2, <1>3 DEF Incident
<1> HIDE DEF new
<1>5. IsAppended(Incident, incidents, new, incidents')
  BY <1>1, <1>2, <1>4, Appends
<1>6. /\ k \in DOMAIN incidents' /\ k \notin DOMAIN incidents /\ incidents'[k] = new
      /\ DOMAIN incidents' = DOMAIN incidents \cup {k}
      /\ \A i \in DOMAIN incidents : incidents'[i] = incidents[i]
  BY <1>5 DEF IsAppended
<1>7. /\ loop'.target = loop.target /\ loop'.gen = loop.gen /\ loop'.close = loop.close
      /\ loop'.open = loop.open /\ loop'.at = "send"
  BY <1>1, <1>2, LoopIs
<1> HIDE DEF k, c0
<1>8. Elsewhere /\ Busy'
  BY <1>4, <1>6, <1>7 DEF Elsewhere, Busy
<1>9. ASSUME NEW t PROVE Resent(incidents, t)' >= Resent(incidents, t)
  <2>1. Resent(incidents, t)' = Resent(incidents, t)
    BY <1>2, <1>4, <1>5, ResentAppended
  <2>2. Resent(incidents, t) \in Nat
    BY <1>2, ResentIs
  <2>3. QED
    BY <2>1, <2>2
<1>10. OneOpen'
  <2>1. \A i \in DOMAIN incidents : ~(/\ incidents[i].open /\ incidents[i].target = h
                                      /\ incidents[i].gen = loop.gen
                                      /\ incidents[i].condition = c0)
    BY DEF OpenFor, OpenIncidents, c0
  <2> SUFFICES ASSUME NEW i \in DOMAIN incidents', NEW j \in DOMAIN incidents',
                      incidents'[i].open, incidents'[j].open,
                      incidents'[i].target = incidents'[j].target,
                      incidents'[i].gen = incidents'[j].gen,
                      incidents'[i].condition = incidents'[j].condition
               PROVE  i = j
    BY DEF OneOpen
  <2>2. CASE i \in DOMAIN incidents /\ j \in DOMAIN incidents
    <3>1. OneOpen /\ incidents'[i] = incidents[i] /\ incidents'[j] = incidents[j]
      BY <1>6, <2>2 DEF ExitInv
    <3>2. QED
      BY <2>2, <3>1 DEF OneOpen
  <2>3. ASSUME NEW m \in DOMAIN incidents, incidents'[m].open, incidents'[m].target = h,
               incidents'[m].gen = loop.gen, incidents'[m].condition = c0
        PROVE  FALSE
    BY <1>6, <2>1, <2>3
  <2>4. CASE i = k \/ j = k
    BY <1>4, <1>6, <2>3, <2>4
  <2>5. QED
    BY <1>6, <2>2, <2>4
<1>11. SentFirst'
  BY <1>4, <1>6 DEF ExitInv, SentFirst
<1>12. ASSUME Exited(hist, h) PROVE Tells(h)' /\ ~Ahead(h)
  <2>1. "exit" \in ToSet(loop.open) /\ ExitAlerts(h) = {}
    BY <1>1, <1>2, <1>12, ExitOpensAlone DEF c0
  <2>2. QED
    BY <1>7, <2>1 DEF Tells, Ahead, Owed
<1>13. QED
  BY <1>1, <1>2, <1>7, <1>8, <1>9, <1>10, <1>11, <1>12, PassGoesOn

LEMMA ExitFinishes ==
  ASSUME MInv, MInv', ExitInv, Finish
  PROVE  ExitInv'
<1> DEFINE look == [gen |-> loop.gen, open |-> PolicyOf[loop.target].alertOn \ loop.close]
<1> SUFFICES ASSUME NEW h, h = loop.target PROVE ExitInv'
  OBVIOUS
<1>1. /\ loop.at = "apply" /\ loop.open = <<>> /\ looked' = [looked EXCEPT ![h] = look]
      /\ loop' = [loop EXCEPT !.at = "observe", !.todo = loop.todo \ {h}]
      /\ UNCHANGED <<now, hist, state, incidents, mem, faults>>
  BY DEF Finish
<1>2. /\ loop \in Loop /\ incidents \in Seq(Incident) /\ Busy /\ h \in Targets
      /\ looked \in [Targets -> Looks]
  BY <1>1, TypesAre DEF MInv, Busy, Types
<1>3. ~Busy'
  <2>1. loop'.at = "observe"
    BY <1>1, <1>2, LoopIs
  <2>2. QED
    BY <2>1 DEF Busy
<1>4. looked'[h] = look /\ \A t \in Targets : t # h => looked'[t] = looked[t]
  BY <1>1, <1>2
<1> HIDE DEF look
<1>5. Elsewhere /\ SameIncidents
  BY <1>1 DEF Elsewhere, SameIncidents
<1>6. ASSUME NEW t PROVE Resent(incidents, t)' >= Resent(incidents, t)
  <2>1. Resent(incidents, t)' = Resent(incidents, t)
    BY <1>1
  <2>2. Resent(incidents, t) \in Nat
    BY <1>2, ResentIs
  <2>3. QED
    BY <2>1, <2>2
<1>7. OneOpen' /\ SentFirst'
  BY <1>1, <1>5, OneOpenStays DEF ExitInv, SentFirst
<1>8. ASSUME Exited(hist, h) PROVE ~Behind(h)' /\ ~Ahead(h)
  <2>1. "exit" \notin ToSet(loop.open)
    BY <1>1 DEF ToSet
  <2>2. PassIs(h) /\ Told(h)
    BY <1>2, <1>8, <2>1 DEF ExitInv, PassKnows, Mine, Tells
  <2>3. look = [gen |-> state[h].gen, open |-> Asked(h)]
    BY <2>2 DEF PassIs, look
  <2>4. Told(h)'
    BY <1>1, <2>2 DEF Told, ExitAlerts, OpenFor, OpenIncidents
  <2>5. Complete(h)'
    BY <1>1, <1>4, <2>3, <2>4 DEF Complete, Asked
  <2>6. QED
    BY <2>1, <2>5 DEF Behind, Ahead
<1>9. QED
  BY <1>1, <1>2, <1>3, <1>4, <1>5, <1>6, <1>7, <1>8, PassGoesOn

\* A pass begins, ends, or is given up.
LEMMA ExitWaits ==
  ASSUME MInv, MInv', ExitInv, UNCHANGED <<hist, state, incidents, looked>>, ~Busy',
         faults' = faults + 1 \/ (faults' = faults /\ ~Busy)
  PROVE  ExitInv'
<1>1. faults \in Nat /\ incidents \in Seq(Incident)
  BY TypesAre DEF MInv
<1>2. ASSUME NEW t \in Targets PROVE Bounded(t)'
  <2> DEFINE a == Resent(incidents, t)
             b == Resent(incidents, t)'
             x == Level(t)
             y == Level(t)'
  <2>1. b = a /\ a \in Nat
    BY <1>1, ResentIs
  <2>2. /\ Told(t)' = Told(t) /\ Owed(t)' = Owed(t)
    BY DEF Told, Owed, ExitAlerts, OpenFor, OpenIncidents, ShouldAttempt
  <2>3. Complete(t)' = Complete(t) /\ Exited(hist, t)' = Exited(hist, t)
    BY <2>2 DEF Complete, Asked
  <2>4. Ahead(t)' = FALSE /\ (Behind(t)' => ~Owed(t))
    BY <2>2 DEF Ahead, Mine, Behind
  <2>5. y \in {-1, 0} /\ (y = 0 \/ ~Owed(t))
    BY <2>4 DEF Level
  <2>6. x \in {-1, 0, 1} /\ (x = 1 => Owed(t))
    BY LevelIs DEF Level, Ahead
  <2>7. faults' = faults => y = x
    <3>1. SUFFICES ASSUME ~Busy PROVE y = x
      BY <1>1
    <3>2. Behind(t)' = Behind(t) /\ Ahead(t) = FALSE
      BY <2>2, <2>3, <3>1 DEF Behind, Ahead, Mine
    <3>3. QED
      BY <2>4, <3>2 DEF Level
  <2>8. Bounded(t)
    BY DEF ExitInv
  <2> HIDE DEF a, b, x, y
  <2>9. \E d \in {0, 1} : faults' + b >= faults + a + d /\ y + d >= x
    <3>1. CASE faults' = faults
      <4>1. faults' + b >= faults + a + 0 /\ y + 0 >= x
        BY <1>1, <2>1, <2>5, <2>6, <2>7, <3>1
      <4>2. QED
        BY <4>1
    <3>2. CASE faults' = faults + 1
      <4>1. faults' + b >= faults + a + 1
        BY <1>1, <2>1, <3>2
      <4>2. y + 1 >= x
        BY <2>5, <2>6
      <4>3. QED
        BY <4>1, <4>2
    <3>3. QED
      BY <3>1, <3>2
  <2>10. PICK d \in {0, 1} : faults' + b >= faults + a + d /\ y + d >= x
    BY <2>9
  <2>11. d \in Int
    OBVIOUS
  <2>12. QED
    BY <2>8, <2>10, <2>11, BoundKept DEF a, b, x, y
<1>3. PassKnows'
  BY DEF PassKnows, Mine
<1>4. RowSays'
  BY RowSaysStays DEF ExitInv
<1>5. OneOpen' /\ SentFirst'
  BY DEF ExitInv, OneOpen, SentFirst
<1>6. QED
  BY <1>2, <1>3, <1>4, <1>5 DEF ExitInv

\* Of a session that exited only that is to be said.
LEMMA ExitIsAsked ==
  ASSUME NEW t \in Targets, NEW s, NEW gen, NEW obs, NEW open, NEW close,
         IsDecision(t, s, gen, obs, open, close), s.status = "exited"
  PROVE  ToSet(open) = Asked(t) /\ PolicyOf[t].alertOn \ close = Asked(t)
<1> DEFINE p == PolicyOf[t]
<1>1. /\ obs.status = "exited" /\ ToSet(open) = p.alertOn \ close
      /\ \A c \in ToSet(open) : Holds(c, obs, p, now)
      /\ \A c \in close : ~Holds(c, obs, p, now)
  BY DEF IsDecision
<1>2. p.alertOn \subseteq Conditions
  BY PolicyIs
<1> HIDE DEF p
<1>3. Holds("exit", obs, p, now)
  BY <1>1 DEF Holds
<1>4. ASSUME NEW c \in Conditions, Holds(c, obs, p, now) PROVE c = "exit"
  <2>1. /\ ~Holds("observation_lost", obs, p, now) /\ ~Holds("overdue", obs, p, now)
        /\ ~Holds("input_requested", obs, p, now) /\ ~Holds("idle", obs, p, now)
        /\ ~Holds("no_progress", obs, p, now) /\ ~Holds("quiet", obs, p, now)
    BY <1>1 DEF Holds, Waiting, Working, Idle, SilenceExplained
  <2>2. QED
    BY <1>4, <2>1, ConditionsAre
<1>5. p.alertOn \ close = p.alertOn \cap {"exit"}
  BY <1>1, <1>2, <1>3, <1>4
<1>6. QED
  BY <1>1, <1>5 DEF Asked, p

\* Nobody who does not ask about exits is told of one.
LEMMA ExitIsAskedFor ==
  ASSUME MInv, NEW t \in Targets, "exit" \notin PolicyOf[t].alertOn
  PROVE  ExitAlerts(t) = {}
BY DEF MInv, Look, ExitAlerts, OpenFor, OpenIncidents

LEMMA ExitSkips ==
  ASSUME MInv, MInv', ExitInv, NEW t \in loop.todo, loop.at = "observe", NEW s, NEW gen, NEW obs,
         NEW open, NEW close, IsDecision(t, s, gen, obs, open, close),
         s.status = "exited", ExitRecorded(state[t], gen),
         Settled(t, open, close, gen),
         loop' = [loop EXCEPT !.todo = loop.todo \ {t}],
         looked' = [looked EXCEPT ![t] = [gen |-> gen, open |-> ToSet(open)]],
         UNCHANGED <<now, hist, state, incidents, faults>>
  PROVE  ExitInv'
<1>1. /\ t \in Targets /\ loop \in Loop /\ looked \in [Targets -> Looks] /\ faults \in Nat
      /\ incidents \in Seq(Incident)
  BY TypesAre, LoopIs DEF MInv
<1>2. ToSet(open) = Asked(t) /\ gen = state[t].gen
  BY <1>1, ExitIsAsked DEF ExitRecorded
<1>3. ~Busy /\ ~Busy'
  <2>1. loop'.at = "observe"
    BY <1>1, LoopIs
  <2>2. QED
    BY <2>1 DEF Busy
<1>4. \A u : Told(u)' = Told(u) /\ Owed(u)' = Owed(u)
  BY DEF Told, Owed, ExitAlerts, OpenFor, OpenIncidents, ShouldAttempt
<1>5. Told(t)
  <2>1. CASE "exit" \notin PolicyOf[t].alertOn
    BY <1>1, <2>1, ExitIsAskedFor DEF Told
  <2>2. CASE "exit" \in PolicyOf[t].alertOn
    <3>1. PICK i \in ExitAlerts(t) : incidents[i].notified \/ ~ShouldAttempt(i)
      BY <1>2, <2>2 DEF Settled, Asked, ExitAlerts
    <3>2. i \in DOMAIN incidents /\ \A j \in ExitAlerts(t) : j = i
      BY DEF ExitInv, OneOpen, ExitAlerts, OpenFor, OpenIncidents
    <3>3. incidents[i].outcome # ""
      BY <3>1, <3>2, TypesAre DEF ShouldAttempt, MInv
    <3>4. incidents[i].sent > 0
      BY <3>2, <3>3 DEF ExitInv, SentFirst
    <3>5. QED
      BY <3>2, <3>4 DEF Told
  <2>3. QED
    BY <2>1, <2>2
<1>6. /\ looked'[t] = [gen |-> state[t].gen, open |-> Asked(t)]
      /\ \A u \in Targets : u # t => looked'[u] = looked[u]
  BY <1>1, <1>2
<1>7. ASSUME NEW u \in Targets PROVE Bounded(u)'
  <2>1. Ahead(u)' = FALSE /\ Ahead(u) = FALSE
    BY <1>3 DEF Ahead, Mine
  <2>2. Behind(u)' => Behind(u)
    <3>1. CASE u = t
      <4>1. Complete(u)'
        BY <1>4, <1>5, <1>6, <3>1 DEF Complete, Asked
      <4>2. QED
        BY <4>1 DEF Behind
    <3>2. CASE u # t
      <4>1. Complete(u)' = Complete(u)
        BY <1>4, <1>6, <3>2 DEF Complete, Asked
      <4>2. QED
        BY <1>3, <1>4, <4>1 DEF Behind, Mine
    <3>3. QED
      BY <3>1, <3>2
  <2>3. Level(u)' + 0 >= Level(u)
    BY <2>1, <2>2 DEF Level
  <2>4. faults' + Resent(incidents, u)' >= faults + Resent(incidents, u) + 0
    <3>1. Resent(incidents, u) \in Nat /\ Resent(incidents, u)' = Resent(incidents, u)
      BY <1>1, ResentIs
    <3>2. QED
      BY <1>1, <3>1
  <2>5. Bounded(u) /\ 0 \in Int
    BY DEF ExitInv
  <2>6. QED
    BY <2>3, <2>4, <2>5, BoundKept
<1>8. PassKnows'
  BY <1>3 DEF PassKnows, Mine
<1>9. RowSays' /\ OneOpen' /\ SentFirst'
  BY RowSaysStays DEF ExitInv, OneOpen, SentFirst
<1>10. QED
  BY <1>7, <1>8, <1>9 DEF ExitInv

\* A look that was completed, and owes nothing, is settled by the next of the same exit.
LEMMA CompleteSettles ==
  ASSUME MInv, ExitInv, NEW t \in Targets, NEW open, NEW close, NEW gen,
         ToSet(open) = Asked(t), PolicyOf[t].alertOn \ close = Asked(t),
         close \subseteq PolicyOf[t].alertOn,
         gen = state[t].gen, gen # 0, Complete(t), ~Owed(t)
  PROVE  Settled(t, open, close, gen)
<1>1. looked[t].gen = gen /\ looked[t].open = Asked(t) /\ looked[t] # Unlooked
  BY DEF Complete, Unlooked
<1>2. /\ {incidents[i].condition : i \in {j \in OpenIncidents(t) : incidents[j].gen = gen}}
           = Asked(t)
      /\ \A i \in OpenIncidents(t) : incidents[i].gen >= gen
  BY <1>1 DEF MInv, Look, IncidentsMatchLook
<1>3. ASSUME NEW c \in ToSet(open)
      PROVE  \E i \in OpenFor(t, c, gen) : incidents[i].notified \/ ~ShouldAttempt(i)
  <2>1. c = "exit" /\ c \in Asked(t)
    BY DEF Asked
  <2>2. PICK i \in OpenIncidents(t) : incidents[i].gen = gen /\ incidents[i].condition = "exit"
    BY <1>2, <2>1
  <2>3. i \in OpenFor(t, c, gen) /\ i \in ExitAlerts(t)
    BY <2>1, <2>2 DEF OpenFor, ExitAlerts
  <2>4. incidents[i].sent > 0
    BY <2>3 DEF Complete, Told
  <2>5. incidents[i].notified \/ ~ShouldAttempt(i)
    BY <2>3, <2>4 DEF Owed
  <2>6. QED
    BY <2>3, <2>5
<1>4. ASSUME NEW c \in close PROVE OpenFor(t, c, gen) = {}
  <2>1. c \notin Asked(t)
    OBVIOUS
  <2>2. QED
    BY <1>2, <2>1 DEF OpenFor
<1>5. QED
  BY <1>2, <1>3, <1>4 DEF Settled

LEMMA ExitRestates ==
  ASSUME MInv, MInv', ExitInv, NEW t \in loop.todo, loop.at = "observe", NEW s, NEW gen,
         NEW obs, NEW open, NEW close, IsDecision(t, s, gen, obs, open, close),
         close \subseteq PolicyOf[t].alertOn,
         ~(/\ s.status = "exited" /\ ExitRecorded(state[t], gen)
           /\ Settled(t, open, close, gen)),
         NEW event, event = [target |-> t, session |-> s.id, gen |-> gen,
                             status |-> s.status, learned |-> Learned(s), at |-> now],
         hist' = Append(hist, event),
         NEW r, r = Applied(state[t], s, gen), state' = [state EXCEPT ![t] = r],
         loop' = [loop EXCEPT !.at = "apply", !.target = t, !.gen = gen,
                              !.open = open, !.close = close],
         looked' = [looked EXCEPT ![t] = Unlooked],
         UNCHANGED <<now, incidents, faults>>
  PROVE  ExitInv'
<1> DEFINE row == state[t]
           k == Len(hist) + 1
<1>1. /\ t \in Targets /\ loop \in Loop /\ looked \in [Targets -> Looks]
      /\ now \in Nat /\ state \in [Targets -> Row] /\ faults \in Nat
      /\ hist \in Seq(Event) /\ hist' \in Seq(Event) /\ incidents \in Seq(Incident)
  <2>1. t \in Targets
    BY TypesAre, LoopIs DEF MInv
  <2>2. hist \in Seq(Event) /\ hist' \in Seq(Event)
    BY DEF MInv, Types, TypeOK, Event
  <2>3. QED
    BY <2>1, <2>2, TypesAre DEF MInv, Types
<1>2. /\ s \in Sight /\ s.status \in Statuses /\ s.id \in Sessions \cup {""} /\ s.live \in BOOLEAN
      /\ gen \in Nat \ {0} /\ Placed(row)
  BY DEF IsDecision, Sight
<1>3. s.status = "exited" => r.gen = gen
  <2>1. IsApplied(row, s, gen, now, r)
    BY <1>1, AppliedIs DEF IsDecision
  <2>2. QED
    BY <2>1 DEF IsApplied
<1>4. event \in Event /\ event.target = t /\ event.gen = gen /\ event.status = s.status
  BY <1>1, <1>2 DEF Event, Learned
<1>5. IsSaid(event, k)
  <2>1. IsAppended(Event, hist, event, hist')
    BY <1>1, <1>4, Appends
  <2>2. QED
    BY <1>1, <1>4, <2>1, SaidIs
<1> HIDE DEF k
<1>6. /\ loop'.at = "apply" /\ loop'.target = t /\ loop'.gen = gen /\ loop'.open = open
      /\ loop'.close = close
  BY <1>1, LoopIs
<1>7. ~Busy /\ Busy'
  BY <1>6 DEF Busy
<1>8. /\ state'[t] = r /\ \A u \in Targets : u # t => state'[u] = state[u] /\ looked'[u] = looked[u]
  BY <1>1
<1>9. \A u : u # t => (Exited(hist, u)' <=> Exited(hist, u))
  BY <1>4, <1>5 DEF IsSaid, Exited, LastOf
<1>10. Exited(hist, t)' <=> s.status = "exited"
  <2>1. Exited(hist, t)' <=> \E j \in DOMAIN hist' : LastOf(hist', t, j) /\ hist'[j].status = "exited"
    BY DEF Exited, LastOf
  <2>2. /\ LastOf(hist', t, k) /\ hist'[k] = event /\ \A j : LastOf(hist', t, j) => j = k
        /\ k \in DOMAIN hist'
    BY <1>4, <1>5 DEF IsSaid, LastOf
  <2>3. QED
    BY <1>4, <2>1, <2>2
<1>11. RowSays'
  <2> SUFFICES ASSUME NEW u \in Targets, NEW j \in DOMAIN hist', LastOf(hist', u, j),
                      hist'[j].status = "exited"
               PROVE  hist'[j].gen = state'[u].gen
    BY DEF RowSays, LastOf
  <2>1. CASE u = t
    <3>1. j = k /\ hist'[k] = event
      BY <1>4, <1>5, <2>1 DEF IsSaid
    <3>2. QED
      BY <1>3, <1>4, <1>8, <2>1, <3>1
  <2>2. CASE u # t
    <3>1. LastOf(hist, u, j) /\ hist'[j] = hist[j] /\ j \in DOMAIN hist
      BY <1>4, <1>5, <2>2 DEF IsSaid, LastOf
    <3>2. QED
      BY <1>8, <2>2, <3>1 DEF ExitInv, RowSays
  <2>3. QED
    BY <2>1, <2>2
<1>12. OneOpen' /\ SentFirst'
  BY DEF ExitInv, OneOpen, SentFirst
<1>13. ASSUME s.status = "exited" PROVE PassIs(t)' /\ Tells(t)'
  <2>1. ToSet(open) = Asked(t) /\ PolicyOf[t].alertOn \ close = Asked(t)
    BY <1>1, <1>13, ExitIsAsked
  <2>2. PassIs(t)'
    BY <1>3, <1>6, <1>8, <1>13, <2>1 DEF PassIs, Asked
  <2>3. CASE "exit" \in PolicyOf[t].alertOn
    BY <1>6, <2>1, <2>2, <2>3 DEF Tells, Asked
  <2>4. CASE "exit" \notin PolicyOf[t].alertOn
    <3>1. ExitAlerts(t)' = {}
      BY <1>1, <2>4, ExitIsAskedFor DEF MInv, Look, ExitAlerts, OpenFor, OpenIncidents
    <3>2. QED
      BY <2>2, <3>1 DEF Told, Tells
  <2>5. QED
    BY <2>2, <2>3, <2>4
<1>14. PassKnows'
  BY <1>6, <1>10, <1>13 DEF PassKnows, Mine
<1>15. ASSUME NEW u \in Targets, u # t PROVE Bounded(u)'
  <2>1. Told(u)' = Told(u) /\ Owed(u)' = Owed(u)
    BY <1>8, <1>15 DEF Told, Owed, ExitAlerts, OpenFor, OpenIncidents, ShouldAttempt
  <2>2. Complete(u)' = Complete(u) /\ Mine(u)' = Mine(u)
    BY <1>6, <1>7, <1>8, <1>15, <2>1 DEF Complete, Asked, Mine
  <2>3. Level(u)' = Level(u)
    <3>1. Behind(u)' = Behind(u)
      BY <1>9, <1>15, <2>1, <2>2 DEF Behind
    <3>2. ~Ahead(u)' /\ ~Ahead(u)
      BY <1>6, <1>7, <1>15 DEF Ahead, Mine
    <3>3. QED
      BY <3>1, <3>2 DEF Level
  <2>4. RepeatedExits(u)' = RepeatedExits(u) /\ Resent(incidents, u)' = Resent(incidents, u)
    BY <1>4, <1>5, <1>15 DEF IsSaid
  <2>5. QED
    BY <2>3, <2>4 DEF ExitInv, Bounded
<1>16. Bounded(t)'
  <2> DEFINE R == Cardinality(RepeatedExits(t))
             Q == Cardinality(RepeatedExits(t)')
             a == Resent(incidents, t)
             x == Level(t)
             y == Level(t)'
  <2>1. R \in Nat /\ Q \in Nat /\ a \in Nat
    BY <1>1, <1>4, <1>5, RepeatsAreFinite, RepeatsGrow, ResentIs
  <2>2. ~Mine(t) /\ x \in {-1, 0} /\ (Behind(t) => x = -1)
    BY <1>7, LevelIs DEF Mine
  <2>3. ~Behind(t)' /\ y \in {0, 1}
    BY <1>6, <1>7 DEF Behind, Mine, Level
  <2>4. /\ Q <= R + 1
        /\ \/ Q <= R
           \/ /\ s.status = "exited"
              /\ \E j \in DOMAIN hist : /\ LastOf(hist, t, j)
                                        /\ hist[j].status = "exited" /\ hist[j].gen = gen
    BY <1>1, <1>4, <1>5, RepeatsGrow
  <2>5. ASSUME s.status = "exited", NEW j \in DOMAIN hist, LastOf(hist, t, j),
               hist[j].status = "exited", hist[j].gen = gen, ~Behind(t)
        PROVE  y = 1
    <3>1. gen = row.gen /\ Exited(hist, t)
      BY <1>1, <2>5 DEF ExitInv, RowSays, Exited
    <3>2. ExitRecorded(row, gen)
      <4>1. hist[j].target = t /\ row.row
        BY <1>1, <2>5 DEF MInv, Runs, LastOf
      <4>2. j \in Known(hist, t, row.gen) /\ \A m \in Known(hist, t, row.gen) : m <= j
        BY <2>5, <3>1 DEF Known, LastOf
      <4>3. LastSays(hist, t, row.gen, {row.status})
        BY <1>1 DEF MInv, Runs
      <4>4. row.status = "exited"
        BY <2>5, <4>2, <4>3 DEF LastSays
      <4>5. QED
        BY <3>1, <4>1, <4>4 DEF ExitRecorded
    <3>3. ToSet(open) = Asked(t) /\ PolicyOf[t].alertOn \ close = Asked(t)
      BY <1>1, <2>5, ExitIsAsked
    <3>4. ~Settled(t, open, close, gen)
      BY <2>5, <3>2
    <3>5. Owed(t)
      <4>1. SUFFICES ASSUME ~Owed(t) PROVE FALSE
        OBVIOUS
      <4>2. Complete(t)
        BY <2>2, <2>5, <3>1, <4>1 DEF Behind
      <4>3. QED
        BY <1>1, <1>2, <3>1, <3>3, <3>4, <4>1, <4>2, CompleteSettles
    <3>6. Owed(t)'
      <4>1. state'[t].gen = state[t].gen
        BY <1>3, <1>8, <2>5, <3>1
      <4>2. ExitAlerts(t)' = ExitAlerts(t)
        BY <4>1 DEF ExitAlerts, OpenFor, OpenIncidents
      <4>3. QED
        BY <3>5, <4>2 DEF Owed, ShouldAttempt
    <3>7. "exit" \in ToSet(loop'.open)
      <4>1. "exit" \in PolicyOf[t].alertOn
        BY <1>1, <3>5, ExitIsAskedFor DEF Owed
      <4>2. QED
        BY <1>6, <3>3, <4>1 DEF Asked
    <3>8. Ahead(t)'
      BY <1>6, <1>7, <1>10, <2>5, <3>6, <3>7 DEF Ahead, Mine
    <3>9. QED
      BY <2>3, <3>8 DEF Level
  <2>6. R <= faults + a + x
    BY <1>1 DEF ExitInv, Bounded
  <2>7. Bounded(t)' <=> Q <= faults + a + y
    BY DEF Bounded
  <2>8. Q <= R \/ y = 1 \/ x = -1
    BY <2>2, <2>4, <2>5
  <2> HIDE DEF R, Q, a, x, y
  <2>9. Q <= faults + a + y
    BY <1>1, <2>1, <2>2, <2>3, <2>4, <2>6, <2>8
  <2>10. QED
    BY <2>7, <2>9
<1>17. QED
  BY <1>11, <1>12, <1>14, <1>15, <1>16 DEF ExitInv

LEMMA ExitObserves ==
  ASSUME MInv, MInv', ExitInv, NEW t \in Targets, Observe(t)
  PROVE  ExitInv'
<1> DEFINE s == loop.seen[t]
           gen == GenerationFor(state[t], s.id)
           obs == Observation(t, s, RememberSight(t, s), gen)
           open == Opens(obs, PolicyOf[t], now)
           close == Closes(obs, PolicyOf[t], now)
           repeat == s.status = "exited" /\ ExitRecorded(state[t], gen)
           event == [target |-> t, session |-> s.id, gen |-> gen, status |-> s.status,
                     learned |-> Learned(s), at |-> now]
           r == Applied(state[t], s, gen)
<1>1. loop.at = "observe" /\ t \in loop.todo /\ UNCHANGED <<now, incidents, faults>>
  BY DEF Observe
<1>2. \/ /\ repeat /\ Settled(t, open, close, gen)
         /\ loop' = [loop EXCEPT !.todo = loop.todo \ {t}]
         /\ looked' = [looked EXCEPT ![t] = [gen |-> gen, open |-> ToSet(open)]]
         /\ UNCHANGED <<hist, state>>
      \/ /\ ~(repeat /\ Settled(t, open, close, gen))
         /\ hist' = Append(hist, event)
         /\ state' = [state EXCEPT ![t] = r]
         /\ loop' = [loop EXCEPT !.at = "apply", !.target = t, !.gen = gen,
                                 !.open = open, !.close = close]
         /\ looked' = [looked EXCEPT ![t] = Unlooked]
  BY DEF Observe
<1>3. IsDecision(t, s, gen, obs, open, close) /\ close \subseteq PolicyOf[t].alertOn
  <2>1. /\ s = loop.seen[t] /\ gen = GenerationFor(state[t], s.id)
        /\ obs = Observation(t, s, RememberSight(t, s), gen)
        /\ open = Opens(obs, PolicyOf[t], now) /\ close = Closes(obs, PolicyOf[t], now)
    OBVIOUS
  <2>2. close \subseteq PolicyOf[t].alertOn
    BY DEF Closes
  <2> HIDE DEF s, gen, obs, open, close
  <2>3. QED
    BY <1>1, <2>1, <2>2, DecisionIs
<1>4. /\ event = [target |-> t, session |-> s.id, gen |-> gen, status |-> s.status,
                  learned |-> Learned(s), at |-> now]
      /\ r = Applied(state[t], s, gen)
      /\ repeat <=> s.status = "exited" /\ ExitRecorded(state[t], gen)
  OBVIOUS
<1> HIDE DEF s, gen, obs, open, close, repeat, event, r
<1>5. CASE /\ repeat /\ Settled(t, open, close, gen)
           /\ loop' = [loop EXCEPT !.todo = loop.todo \ {t}]
           /\ looked' = [looked EXCEPT ![t] = [gen |-> gen, open |-> ToSet(open)]]
           /\ UNCHANGED <<hist, state>>
  BY <1>1, <1>3, <1>4, <1>5, ExitSkips
<1>6. CASE /\ ~(repeat /\ Settled(t, open, close, gen))
           /\ hist' = Append(hist, event)
           /\ state' = [state EXCEPT ![t] = r]
           /\ loop' = [loop EXCEPT !.at = "apply", !.target = t, !.gen = gen,
                                   !.open = open, !.close = close]
           /\ looked' = [looked EXCEPT ![t] = Unlooked]
  BY <1>1, <1>3, <1>4, <1>6, ExitRestates
<1>7. QED
  BY <1>2, <1>5, <1>6

LEMMA ExitInit == Init => ExitInv
<1> SUFFICES ASSUME Init PROVE ExitInv
  OBVIOUS
<1>1. MInv
  BY MonitorInit
<1>2. DOMAIN hist = {} /\ DOMAIN incidents = {} /\ ~Busy /\ faults = 0
  BY IdleIs DEF Init, Busy
<1>3. \A t : ~Exited(hist, t) /\ ~Mine(t)
  BY <1>2 DEF Exited, LastOf, Mine
<1>4. ASSUME NEW t \in Targets PROVE Bounded(t)
  <2>1. RepeatedExits(t) = {}
    BY <1>2 DEF RepeatedExits
  <2>2. Level(t) = 0
    BY <1>3, LevelIs
  <2>3. Resent(incidents, t) \in Nat
    BY <1>1, TypesAre, ResentIs DEF MInv
  <2>4. Cardinality(RepeatedExits(t)) = 0
    BY <2>1, FS_EmptySet
  <2>5. QED
    BY <1>2, <2>2, <2>3, <2>4 DEF Bounded
<1>5. QED
  BY <1>2, <1>3, <1>4 DEF ExitInv, RowSays, OneOpen, SentFirst, PassKnows

\* ExitInv is inductive, relative to MInv.
LEMMA ExitStep == MInv /\ MInv' /\ ExitInv /\ [Next]_vars => ExitInv'
<1> SUFFICES ASSUME MInv, MInv', ExitInv, [Next]_vars PROVE ExitInv'
  OBVIOUS
<1>0. faults \in Nat
  BY TypesAre DEF MInv
<1>1. CASE BeginPass
  <2>1. loop' = [IdleLoop EXCEPT !.at = "observe", !.todo = Targets, !.seen = loop'.seen]
        /\ loop.at = "idle"
    BY <1>1 DEF BeginPass, IdleLoop
  <2>2. loop'.at = "observe"
    BY <2>1 DEF IdleLoop
  <2>3. ~Busy' /\ ~Busy
    BY <2>1, <2>2 DEF Busy
  <2>4. UNCHANGED <<hist, state, incidents, looked, faults>>
    BY <1>1 DEF BeginPass
  <2>5. QED
    BY <2>3, <2>4, ExitWaits
<1>2. CASE \E t \in Targets : Observe(t)
  BY <1>2, ExitObserves
<1>3. CASE OpenOrTouch
  BY <1>3, ExitTouches, ExitOpens
<1>4. CASE \E outcome \in Outcomes : Deliver(outcome)
  BY <1>4, ExitDelivers
<1>5. CASE RecordDelivery
  BY <1>5, ExitRecords
<1>6. CASE MarkNotified
  BY <1>6, ExitMarks
<1>7. CASE Resolve
  BY <1>7, ExitResolves
<1>8. CASE Finish
  BY <1>8, ExitFinishes
<1>9. CASE EndPass \/ StoreFails \/ Crash
  <2>1. loop' = IdleLoop /\ UNCHANGED <<hist, state, incidents, looked>>
    BY <1>9 DEF EndPass, StoreFails, Crash
  <2>2. ~Busy'
    BY <2>1, IdleIs DEF Busy
  <2>3. faults' = faults + 1 \/ (faults' = faults /\ ~Busy)
    BY <1>9 DEF EndPass, StoreFails, Crash, Busy
  <2>4. QED
    BY <2>1, <2>2, <2>3, ExitWaits
<1>10. CASE UNCHANGED vars
  <2>1. UNCHANGED <<hist, state, incidents, loop, looked, faults>>
    BY <1>10 DEF vars
  <2>2. \A t : Bounded(t)' = Bounded(t)
    BY <2>1 DEF Bounded, Level, Behind, Ahead, Complete, Owed, Told, Asked, Mine, Busy, Exited,
       LastOf, ExitAlerts, OpenFor, OpenIncidents, ShouldAttempt, RepeatedExits
  <2>3. PassKnows'
    BY <2>1 DEF ExitInv, PassKnows, PassIs, Tells, Told, Asked, Mine, Busy, Exited, LastOf,
       ExitAlerts, OpenFor, OpenIncidents
  <2>4. RowSays' /\ OneOpen' /\ SentFirst'
    BY <2>1, RowSaysStays DEF ExitInv, OneOpen, SentFirst
  <2>5. QED
    BY <2>2, <2>3, <2>4 DEF ExitInv
<1>11. QED
  BY <1>1, <1>2, <1>3, <1>4, <1>5, <1>6, <1>7, <1>8, <1>9, <1>10 DEF Next

\* A verified exit is recorded once: every restatement of it follows a fault or an
\* attempt its alert was owed, and each of those is restated for once at most
\* (isRepeatTerminal and settled).
THEOREM ExitsAreRecordedOnce == Spec => []ExitRecordedOnce
<1>1. Init => ExitInv
  BY ExitInit
<1>2. MInv /\ MInv' /\ ExitInv /\ [Next]_vars => ExitInv'
  BY ExitStep
<1>3. MInv /\ ExitInv => ExitRecordedOnce
  <2> SUFFICES ASSUME MInv, ExitInv, loop.at = "idle", NEW t \in Targets
               PROVE  Cardinality(RepeatedExits(t)) <= faults + Resent(incidents, t)
    BY DEF ExitRecordedOnce
  <2> DEFINE R == Cardinality(RepeatedExits(t))
             a == Resent(incidents, t)
             x == Level(t)
  <2>1. /\ faults \in Nat /\ incidents \in Seq(Incident) /\ hist \in Seq(Event)
    BY TypesAre DEF MInv, Types, TypeOK, Event
  <2>2. R \in Nat /\ a \in Nat
    BY <2>1, RepeatsAreFinite, ResentIs
  <2>3. x \in {-1, 0}
    BY LevelIs DEF Mine, Busy
  <2>4. R <= faults + a + x
    BY DEF ExitInv, Bounded
  <2> HIDE DEF R, a, x
  <2>5. R <= faults + a
    BY <2>1, <2>2, <2>3, <2>4
  <2>6. QED
    BY <2>5 DEF R, a
<1>4. QED
  BY <1>1, <1>2, <1>3, MonitorInv, PTL DEF Spec
-----------------------------------------------------------------------------
(* Silence nobody witnessed is not measured.  What is counted: the events of *)
(* a target that lost sight of it, and the floor its thresholds restart from *)
(* when sight of it is regained.                                             *)

\* The events of a target since the process started, those that lost sight of it,
\* and those after the last of these.
Since(t) == {j \in DOMAIN hist : hist[j].target = t /\ j >= mem.first}
Losses(t) == {j \in Since(t) : ~hist[j].learned}
Regains(t) == {j \in Since(t) : \A k \in Losses(t) : k < j}

\* Every look at it since is one of them.
Whole(t) == faults = 0 /\ \A j \in Since(t) : hist[j].status # "exited"

\* A floor no silence before the target was seen again reaches over.
Floor(t, x) ==
  /\ \A j \in Losses(t) : hist[j].at < x
  /\ Whole(t) /\ Losses(t) # {} =>
       \A j \in Regains(t) : (\A k \in Regains(t) : j <= k) => hist[j].at <= x

InSight(t) ==
  /\ t \notin mem.lost => Floor(t, mem.targetFloor[t])
  /\ Whole(t) /\ Losses(t) # {} => (t \in mem.lost <=> Regains(t) = {})

\* What an incident about a silence, opened now, has waited for.
Witnessed(t, c) ==
  LET after == Threshold(c, PolicyOf[t])
  IN  /\ \A j \in Losses(t) : now > hist[j].at + after
      /\ Whole(t) /\ Losses(t) # {} =>
           /\ Regains(t) # {}
           /\ \A j \in Regains(t) : (\A k \in Regains(t) : j <= k) => now >= hist[j].at + after

SightInv ==
  /\ \A j \in DOMAIN hist : hist[j].at <= now
  /\ \A j \in DOMAIN hist : hist[j].target \in Pending => hist[j].at < now
  /\ faults = 0 => mem.first = 1
  /\ \A t \in Targets : state[t].status = "exited" =>
       \E j \in DOMAIN hist : hist[j].target = t /\ hist[j].status = "exited"
  /\ \A t \in Targets : InSight(t)
  /\ Busy => \A c \in ToSet(loop.open) \cap Silences : Witnessed(loop.target, c)

\* A floor stays what it is reached from.
LEMMA FloorBinds ==
  ASSUME NEW obs, obs.since \in Nat, obs.activity \in Nat, obs.floor \in Nat \ {0},
         NEW p \in Policies, NEW t \in Nat, NEW c \in Silences, Holds(c, obs, p, t)
  PROVE  obs.live /\ t >= obs.floor + Threshold(c, p)
<1>1. /\ p.quietUntil \in Nat /\ p.idleGrace \in Nat /\ p.noProgressAfter \in Nat
      /\ p.quietAfter \in Nat
  BY DEF Policies
<1>2. OverrideFloor(p, t) \in Nat
  BY <1>1 DEF OverrideFloor
<1>3. \A time \in Nat : From(time, obs, p, t) \in Nat /\ From(time, obs, p, t) >= obs.floor
  BY <1>1, <1>2 DEF From, LaterOf
<1>4. \/ c = "idle" /\ Reached(From(obs.since, obs, p, t), p.idleGrace, t)
      \/ c = "no_progress" /\ Exceeded(From(obs.activity, obs, p, t), p.noProgressAfter, t)
      \/ c = "quiet" /\ Exceeded(From(obs.activity, obs, p, t), p.quietAfter, t)
  BY DEF Holds, Silences, Idle
<1>5. \/ Threshold(c, p) = p.idleGrace /\ c = "idle"
      \/ Threshold(c, p) = p.noProgressAfter + 1 /\ c = "no_progress"
      \/ Threshold(c, p) = p.quietAfter + 1 /\ c = "quiet"
  BY DEF Threshold, Silences
<1> DEFINE a == From(obs.since, obs, p, t)
           b == From(obs.activity, obs, p, t)
<1>6. a \in Nat /\ a >= obs.floor /\ b \in Nat /\ b >= obs.floor
  BY <1>3
<1> HIDE DEF a, b
<1>7. t >= obs.floor + Threshold(c, p)
  <2>1. CASE c = "idle"
    BY <1>1, <1>4, <1>5, <1>6, <2>1 DEF Reached, a
  <2>2. CASE c # "idle"
    BY <1>1, <1>4, <1>5, <1>6, <2>2 DEF Exceeded, b
  <2>3. QED
    BY <2>1, <2>2
<1>8. obs.live
  BY DEF Holds, Silences, Idle, Working
<1>9. QED
  BY <1>7, <1>8

\* Losing and regaining sight of a target touches nothing about the others.
IsRemembered(t, s, m) ==
  /\ m.first = mem.first /\ m.floor = mem.floor
  /\ \A u \in Targets : u # t => /\ u \in m.lost <=> u \in mem.lost
                                 /\ m.targetFloor[u] = mem.targetFloor[u]
  /\ Learned(s) => /\ t \notin m.lost
                   /\ t \in mem.lost => m.targetFloor[t] = now
                   /\ t \notin mem.lost => m.targetFloor[t] = mem.targetFloor[t]
  /\ ~Learned(s) => t \in m.lost

LEMMA RememberedIs ==
  ASSUME mem \in Memory, NEW t \in Targets, NEW s, NEW m, m = RememberSight(t, s)
  PROVE  IsRemembered(t, s, m)
<1>1. mem.targetFloor \in [Targets -> Nat]
      /\ DOMAIN mem = {"baseline", "floor", "lost", "targetFloor", "first"}
  BY DEF Memory
<1> DEFINE kept == [mem.targetFloor EXCEPT ![t] = IF t \in mem.lost THEN now ELSE mem.targetFloor[t]]
           found == mem.lost \ {t}
           gone == mem.lost \cup {t}
<1>2. /\ \A u \in Targets : u # t => kept[u] = mem.targetFloor[u]
      /\ t \in mem.lost => kept[t] = now
      /\ t \notin mem.lost => kept[t] = mem.targetFloor[t]
  BY <1>1
<1>3. CASE Learned(s)
  <2>1. m = [mem EXCEPT !.lost = found, !.targetFloor = kept]
    BY <1>1, <1>3 DEF RememberSight
  <2> HIDE DEF kept, found
  <2>2. m.lost = found /\ m.targetFloor = kept /\ m.first = mem.first /\ m.floor = mem.floor
    BY <1>1, <2>1
  <2>3. QED
    BY <1>2, <1>3, <2>2 DEF IsRemembered, found
<1>4. CASE ~Learned(s)
  <2>1. m = [mem EXCEPT !.lost = gone]
    BY <1>4 DEF RememberSight
  <2> HIDE DEF gone
  <2>2. m.lost = gone /\ m.targetFloor = mem.targetFloor /\ m.first = mem.first
        /\ m.floor = mem.floor
    BY <1>1, <2>1
  <2>3. QED
    BY <1>4, <2>2 DEF IsRemembered, gone
<1>5. QED
  BY <1>3, <1>4

\* Nothing more is on record.
LEMMA SinceSame ==
  ASSUME hist' = hist, mem'.first = mem.first
  PROVE  \A t : /\ Since(t)' = Since(t) /\ Losses(t)' = Losses(t) /\ Regains(t)' = Regains(t)
                /\ Whole(t)' => faults' = 0 /\ (faults = 0 => Whole(t))
<1> SUFFICES ASSUME NEW t
             PROVE  /\ Since(t)' = Since(t) /\ Losses(t)' = Losses(t)
                    /\ Regains(t)' = Regains(t)
                    /\ Whole(t)' => faults' = 0 /\ (faults = 0 => Whole(t))
  OBVIOUS
<1>1. Since(t)' = Since(t)
  BY DEF Since
<1>2. Losses(t)' = Losses(t)
  BY <1>1 DEF Losses
<1>3. Regains(t)' = Regains(t)
  BY <1>1, <1>2 DEF Regains
<1>4. QED
  BY <1>1, <1>2, <1>3 DEF Whole

LEMMA SightGoesOn ==
  ASSUME SightInv, GoesOn, UNCHANGED <<now, hist, state, mem, faults>>
  PROVE  SightInv'
<1>1. \A t : /\ Since(t)' = Since(t) /\ Losses(t)' = Losses(t) /\ Regains(t)' = Regains(t)
             /\ Whole(t)' = Whole(t)
  <2>1. \A t : Since(t)' = Since(t) /\ Losses(t)' = Losses(t) /\ Regains(t)' = Regains(t)
    BY SinceSame
  <2>2. QED
    BY <2>1 DEF Whole
<1>2. (/\ \A j \in DOMAIN hist : hist[j].at <= now
       /\ \A j \in DOMAIN hist : hist[j].target \in Pending => hist[j].at < now
       /\ faults = 0 => mem.first = 1
       /\ \A t \in Targets : state[t].status = "exited" =>
            \E j \in DOMAIN hist : hist[j].target = t /\ hist[j].status = "exited")'
  BY DEF SightInv, GoesOn
<1>3. ASSUME NEW t \in Targets PROVE InSight(t)'
  BY <1>1 DEF SightInv, InSight, Floor
<1>4. ASSUME Busy', NEW c \in ToSet(loop'.open) \cap Silences
      PROVE  Witnessed(loop.target, c)'
  <2>1. Busy /\ c \in ToSet(loop.open) \cap Silences /\ loop'.target = loop.target
    BY <1>4 DEF GoesOn
  <2>2. Witnessed(loop.target, c)
    BY <2>1 DEF SightInv
  <2>3. QED
    BY <1>1, <2>1, <2>2 DEF Witnessed
<1>5. QED
  BY <1>2, <1>3, <1>4 DEF SightInv

\* The steps that go on with what the pass has recorded.
LEMMA StepGoesOn ==
  ASSUME MInv, MInv',
         \/ OpenOrTouch \/ RecordDelivery \/ MarkNotified \/ Resolve \/ Finish \/ EndPass
         \/ \E outcome \in Outcomes : Deliver(outcome)
         \/ UNCHANGED vars
  PROVE  GoesOn /\ UNCHANGED <<now, hist, state, mem, faults>>
<1>1. loop \in Loop /\ loop' \in Loop /\ loop.open \in Seq(Conditions)
  BY TypesAre, LoopIs DEF MInv, Types
<1>2. UNCHANGED <<now, hist, state, mem, faults>>
  BY DEF OpenOrTouch, RecordDelivery, MarkNotified, Resolve, Finish, EndPass, Deliver, vars
<1>3. ASSUME loop.open # <<>>
      PROVE  ToSet(Tail(loop.open)) \subseteq ToSet(loop.open)
  BY <1>1, <1>3, HeadAndTail
<1>4. CASE OpenOrTouch \/ RecordDelivery \/ MarkNotified \/ Resolve \/ UNCHANGED vars
           \/ \E outcome \in Outcomes : Deliver(outcome)
  <2> DEFINE rest == Tail(loop.open)
  <2>1. /\ loop'.todo = loop.todo /\ loop'.target = loop.target /\ loop'.gen = loop.gen
        /\ loop'.close = loop.close /\ loop'.open \in {loop.open, rest}
        /\ loop'.open = rest => loop.open # <<>> \/ loop'.open = loop.open
        /\ loop'.at = loop.at \/ Busy
    <3>1. CASE OpenOrTouch
      BY <1>1, <3>1, LoopIs DEF OpenOrTouch, Busy
    <3>2. CASE RecordDelivery \/ MarkNotified \/ \E outcome \in Outcomes : Deliver(outcome)
      <4>1. Announcing /\ Busy
        BY <3>2 DEF RecordDelivery, MarkNotified, Deliver, Announcing, Busy
      <4>2. loop.open # <<>>
        BY <4>1 DEF MInv, Announced
      <4>3. QED
        BY <1>1, <3>2, <4>1, <4>2, LoopIs, ZenonT(30) DEF RecordDelivery, MarkNotified, Deliver
    <3>3. CASE Resolve \/ UNCHANGED vars
      BY <3>3 DEF Resolve, vars
    <3>4. QED
      BY <1>4, <3>1, <3>2, <3>3
  <2> HIDE DEF rest
  <2>2. ToSet(loop'.open) \subseteq ToSet(loop.open)
    BY <1>3, <2>1 DEF rest
  <2>3. Busy' => Busy
    BY <2>1 DEF Busy
  <2>4. Pending' \subseteq Pending
    <3>1. CASE ~Busy /\ loop'.at = loop.at
      BY <2>1, <3>1 DEF Pending, Busy
    <3>2. CASE Busy /\ Busy'
      BY <2>1, <3>2 DEF Pending
    <3>3. Busy => Busy'
      BY <1>1, <1>4 DEF Busy, OpenOrTouch, RecordDelivery, MarkNotified, Resolve, vars, Deliver,
         Loop
    <3>4. QED
      BY <2>1, <3>1, <3>2, <3>3
  <2>5. QED
    BY <1>1, <1>2, <2>1, <2>2, <2>3, <2>4 DEF GoesOn
<1>5. CASE Finish
  <2>1. /\ loop.at = "apply" /\ loop'.at = "observe"
        /\ loop'.todo = loop.todo \ {loop.target}
    BY <1>1, <1>5, LoopIs DEF Finish
  <2>2. Busy /\ ~Busy' /\ Pending' = Pending
    BY <2>1 DEF Busy, Pending
  <2>3. QED
    BY <1>1, <1>2, <2>2 DEF GoesOn
<1>6. CASE EndPass
  <2>1. loop' = IdleLoop
    BY <1>6 DEF EndPass
  <2>2. ~Busy' /\ Pending' = {}
    BY <2>1, IdleIs DEF Busy, Pending
  <2>3. QED
    BY <1>1, <1>2, <2>2 DEF GoesOn
<1>7. QED
  BY <1>4, <1>5, <1>6

\* A pass begins: everything on record is older than it.
LEMMA SightBegins ==
  ASSUME MInv, MInv', SightInv, BeginPass
  PROVE  SightInv'
<1>1. PICK time \in now + 1..MaxTime : now' = time /\ UNCHANGED <<hist, state, faults>>
  BY DEF BeginPass
<1>2. now \in Nat /\ now' \in Nat /\ now < now' /\ hist \in Seq(Event) /\ mem \in Memory
  <2>1. now \in Nat /\ MaxTime \in Nat /\ hist \in Seq(Event) /\ mem \in Memory
    BY TypesAre DEF MInv, Types, TypeOK, Event
  <2>2. QED
    BY <1>1, <2>1
<1>3. \A j \in DOMAIN hist : hist[j].at \in Nat
  <2>1. \A j \in DOMAIN hist : hist[j] \in Event
    BY <1>2
  <2>2. QED
    BY <2>1 DEF Event
<1>4. loop'.at = "observe"
  <2>1. loop' = [IdleLoop EXCEPT !.at = "observe", !.todo = Targets, !.seen = loop'.seen]
    BY DEF BeginPass, IdleLoop
  <2>2. QED
    BY <2>1 DEF IdleLoop
<1>5. mem'.lost = mem.lost /\ mem'.targetFloor = mem.targetFloor /\ mem'.first = mem.first
  BY <1>2 DEF BeginPass, Memory
<1>6. ~Busy'
  BY <1>4 DEF Busy
<1>7. ASSUME NEW j \in DOMAIN hist PROVE hist[j].at < now'
  <2>1. hist[j].at \in Nat /\ hist[j].at <= now
    BY <1>3 DEF SightInv
  <2>2. QED
    BY <1>2, <2>1
<1>8. (\A j \in DOMAIN hist : hist[j].at <= now)'
  BY <1>1, <1>2, <1>7, <1>3
<1>9. ASSUME NEW t \in Targets PROVE InSight(t)'
  <2>1. Losses(t)' = Losses(t) /\ Regains(t)' = Regains(t) /\ Whole(t)' = Whole(t)
    <3>1. Since(t)' = Since(t) /\ Losses(t)' = Losses(t) /\ Regains(t)' = Regains(t)
      BY <1>1, <1>5, SinceSame
    <3>2. QED
      BY <1>1, <3>1 DEF Whole
  <2>2. QED
    BY <1>1, <1>5, <2>1 DEF SightInv, InSight, Floor
<1>10. (faults = 0 => mem.first = 1)'
  BY <1>1, <1>5 DEF SightInv
<1>11. (\A t \in Targets : state[t].status = "exited" =>
          \E j \in DOMAIN hist : hist[j].target = t /\ hist[j].status = "exited")'
  BY <1>1 DEF SightInv
<1>12. QED
  BY <1>1, <1>6, <1>7, <1>8, <1>9, <1>10, <1>11 DEF SightInv

\* A pass that ends on a fault has lost track of what it looked at, and forgets at
\* most what it had just seen.
LEMMA SightEnds ==
  ASSUME MInv, SightInv, StoreFails \/ Crash
  PROVE  SightInv'
<1>1. loop' = IdleLoop /\ faults' # 0 /\ UNCHANGED <<now, hist, state>>
  <2>1. faults \in Nat /\ faults' = faults + 1
    BY TypesAre DEF MInv, StoreFails, Crash
  <2>2. QED
    BY <2>1 DEF StoreFails, Crash
<1>2. ~Busy' /\ Pending' = {}
  BY <1>1, IdleIs DEF Busy, Pending
<1>3. hist \in Seq(Event) /\ now \in Nat /\ mem \in Memory /\ loop.todo \subseteq Targets
  BY TypesAre, LoopIs DEF MInv, Types, TypeOK, Event
<1>4. \A t : ~Whole(t)'
  BY <1>1 DEF Whole
<1>5. ASSUME NEW t \in Targets, t \notin mem'.lost, NEW j \in Losses(t)'
      PROVE  hist'[j].at < mem'.targetFloor[t]
  <2>1. CASE Crash
    <3>1. j \in DOMAIN hist /\ j >= Len(hist) + 1
      <4> DEFINE v == Len(hist) + 1
      <4>1. mem' = [FreshMemory EXCEPT !.first = v]
        BY <2>1 DEF Crash
      <4> HIDE DEF v
      <4>2. mem'.first = v
        BY <4>1 DEF FreshMemory
      <4>3. QED
        BY <1>1, <1>5, <4>2 DEF Losses, Since, v
    <3>2. QED
      BY <1>3, <3>1
  <2>2. CASE mem' = mem
    <3>1. j \in Losses(t)
      BY <1>1, <2>2, SinceSame
    <3>2. QED
      BY <1>1, <1>5, <2>2, <3>1 DEF SightInv, InSight, Floor
  <2>3. CASE loop.at = "observe" /\ \E u \in loop.todo : mem' = RememberSight(u, loop.seen[u])
    <3>1. PICK u \in loop.todo : mem' = RememberSight(u, loop.seen[u])
      BY <2>3
    <3>2. u \in Targets /\ IsRemembered(u, loop.seen[u], mem')
      BY <1>3, <3>1, RememberedIs
    <3>3. j \in Losses(t)
      BY <1>1, <3>2, SinceSame DEF IsRemembered
    <3>4. CASE t \notin mem.lost
      <4>1. mem'.targetFloor[t] = mem.targetFloor[t]
        BY <1>5, <3>2, <3>4 DEF IsRemembered
      <4>2. QED
        BY <1>1, <3>3, <3>4, <4>1 DEF SightInv, InSight, Floor
    <3>5. CASE t \in mem.lost
      <4>1. t = u /\ mem'.targetFloor[t] = now
        BY <1>5, <3>2, <3>5 DEF IsRemembered
      <4>2. t \in Pending /\ j \in DOMAIN hist /\ hist[j].target = t
        BY <2>3, <3>3, <4>1 DEF Pending, Busy, Losses, Since
      <4>3. QED
        BY <1>1, <4>1, <4>2 DEF SightInv
    <3>6. QED
      BY <3>4, <3>5
  <2>4. QED
    BY <2>1, <2>2, <2>3 DEF StoreFails
<1>6. \A t \in Targets : InSight(t)'
  BY <1>4, <1>5 DEF InSight, Floor
<1>7. (/\ \A j \in DOMAIN hist : hist[j].at <= now
       /\ \A j \in DOMAIN hist : hist[j].target \in Pending => hist[j].at < now
       /\ faults = 0 => mem.first = 1
       /\ \A t \in Targets : state[t].status = "exited" =>
            \E j \in DOMAIN hist : hist[j].target = t /\ hist[j].status = "exited")'
  BY <1>1, <1>2 DEF SightInv
<1>8. QED
  BY <1>2, <1>6, <1>7 DEF SightInv

\* What one more event adds to what is on record of each target.
IsWatched(event, k) ==
  /\ \A u : u # event.target => Since(u)' = Since(u)
  /\ Since(event.target)' \subseteq Since(event.target) \cup {k}
  /\ Since(event.target) \subseteq Since(event.target)'
  /\ mem.first = 1 => k \in Since(event.target)'
  /\ \A j \in DOMAIN hist : hist'[j] = hist[j] /\ j \in Nat /\ j < k
  /\ hist'[k] = event /\ k \in Nat

LEMMA WatchedIs ==
  ASSUME hist \in Seq(Event), NEW event, IsAppended(Event, hist, event, hist'),
         mem \in Memory, mem'.first = mem.first
  PROVE  IsWatched(event, Len(hist) + 1)
<1> DEFINE k == Len(hist) + 1
<1>1. /\ DOMAIN hist' = DOMAIN hist \cup {k} /\ k \in Nat /\ k >= 1 /\ hist'[k] = event
      /\ \A j \in DOMAIN hist : hist'[j] = hist[j] /\ j \in Nat /\ j < k
  BY DEF IsAppended
<1> HIDE DEF k
<1>2. \A u : u # event.target => Since(u)' = Since(u)
  BY <1>1 DEF Since
<1>3. /\ Since(event.target)' \subseteq Since(event.target) \cup {k}
      /\ Since(event.target) \subseteq Since(event.target)'
  BY <1>1 DEF Since
<1>4. mem.first = 1 => k \in Since(event.target)'
  BY <1>1 DEF Since
<1>5. QED
  BY <1>1, <1>2, <1>3, <1>4 DEF IsWatched, k

\* Of the targets an event is not about, nothing changes.
LEMMA UnwatchedIs ==
  ASSUME NEW event, NEW k, IsWatched(event, k), NEW u, u # event.target
  PROVE  /\ Losses(u)' = Losses(u) /\ Regains(u)' = Regains(u)
         /\ \A j \in Since(u) : hist'[j] = hist[j]
         /\ faults' = faults => Whole(u)' = Whole(u)
<1>1. Since(u)' = Since(u) /\ \A j \in Since(u) : hist'[j] = hist[j]
  BY DEF IsWatched, Since
<1>2. Losses(u)' = Losses(u)
  BY <1>1 DEF Losses
<1>3. Regains(u)' = Regains(u)
  BY <1>1, <1>2 DEF Regains
<1>4. QED
  BY <1>1, <1>2, <1>3 DEF Whole

\* An event that learned something of the target is no loss, and the first since one
\* only if sight of it was lost.
LEMMA FoundIs ==
  ASSUME NEW event, NEW k, IsWatched(event, k), event.learned, NEW t, t = event.target,
         faults' = faults, faults = 0 => mem.first = 1
  PROVE  /\ Losses(t)' = Losses(t)
         /\ \A j \in Losses(t) : hist'[j] = hist[j]
         /\ Whole(t)' => /\ Whole(t) /\ k \in Regains(t)' /\ Regains(t) \subseteq Regains(t)'
                         /\ Regains(t)' \subseteq Regains(t) \cup {k}
         /\ \A j \in Regains(t) : hist'[j] = hist[j] /\ j \in Nat /\ j < k
<1>1. /\ Since(t)' \subseteq Since(t) \cup {k} /\ Since(t) \subseteq Since(t)'
      /\ \A j \in Since(t) : hist'[j] = hist[j] /\ j \in Nat /\ j < k
      /\ hist'[k].learned /\ k \in Nat
      /\ mem.first = 1 => k \in Since(t)'
  BY DEF IsWatched, Since
<1>2. Losses(t)' = Losses(t)
  BY <1>1 DEF Losses
<1>3. Losses(t) \subseteq Since(t) /\ Regains(t) \subseteq Since(t)
  BY DEF Losses, Regains
<1>4. ASSUME Whole(t)'
      PROVE  /\ Whole(t) /\ k \in Regains(t)' /\ Regains(t) \subseteq Regains(t)'
             /\ Regains(t)' \subseteq Regains(t) \cup {k}
  <2>1. faults = 0 /\ k \in Since(t)'
    BY <1>1, <1>4 DEF Whole
  <2>2. Whole(t)
    BY <1>1, <1>4 DEF Whole
  <2>3. k \in Regains(t)' /\ Regains(t) \subseteq Regains(t)'
    BY <1>1, <1>2, <1>3, <2>1 DEF Regains
  <2>4. Regains(t)' \subseteq Regains(t) \cup {k}
    BY <1>1, <1>2 DEF Regains
  <2>5. QED
    BY <2>2, <2>3, <2>4
<1>5. QED
  BY <1>1, <1>2, <1>3, <1>4

\* One that learned nothing is the latest loss.
LEMMA GoneIs ==
  ASSUME NEW event, NEW k, IsWatched(event, k), ~event.learned, NEW t, t = event.target,
         faults' = faults, faults = 0 => mem.first = 1, Whole(t)'
  PROVE  Regains(t)' = {}
<1>1. /\ Since(t)' \subseteq Since(t) \cup {k} /\ k \in Since(t)' /\ ~hist'[k].learned
      /\ \A j \in Since(t) : j \in Nat /\ j < k
      /\ k \in Nat
  BY DEF IsWatched, Since, Whole
<1>2. k \in Losses(t)'
  BY <1>1 DEF Losses
<1>3. ASSUME NEW j \in Regains(t)' PROVE FALSE
  <2>1. k < j /\ j \in Since(t)'
    BY <1>2 DEF Regains
  <2>2. QED
    BY <1>1, <2>1
<1>4. QED
  BY <1>3

\* What a look at a target finds out about it, and what stays known of the others.
LEMMA SightObserves ==
  ASSUME MInv, SightInv, NEW t \in loop.todo, loop.at = "observe", NEW s,
         IsRemembered(t, s, mem'), faults' = faults, now' = now,
         NEW event, event.target = t, event.learned = Learned(s), event.at = now,
         NEW k, IsWatched(event, k)
  PROVE  \A u \in Targets : InSight(u)'
<1>1. /\ t \in Targets /\ now \in Nat
      /\ \A j \in DOMAIN hist : hist[j].target = t => hist[j].at < now
  <2>1. t \in Targets /\ now \in Nat
    BY TypesAre, LoopIs DEF MInv
  <2>2. t \in Pending
    BY DEF Pending, Busy
  <2>3. QED
    BY <2>1, <2>2 DEF SightInv
<1>2. faults = 0 => mem.first = 1
  BY DEF SightInv
<1>3. ASSUME NEW u \in Targets, u # t PROVE InSight(u)'
  <2>1. /\ Losses(u)' = Losses(u) /\ Regains(u)' = Regains(u) /\ Whole(u)' = Whole(u)
        /\ \A j \in Since(u) : hist'[j] = hist[j]
    BY <1>3, UnwatchedIs
  <2>2. /\ u \in mem'.lost <=> u \in mem.lost
        /\ mem'.targetFloor[u] = mem.targetFloor[u]
    BY <1>3 DEF IsRemembered
  <2>3. Losses(u) \subseteq Since(u) /\ Regains(u) \subseteq Since(u)
    BY DEF Losses, Regains
  <2>4. InSight(u)
    BY DEF SightInv
  <2>5. QED
    BY <2>1, <2>2, <2>3, <2>4 DEF InSight, Floor
<1>4. CASE ~Learned(s)
  <2>1. t \in mem'.lost
    BY <1>4 DEF IsRemembered
  <2>2. Whole(t)' => Regains(t)' = {}
    BY <1>2, <1>4, GoneIs
  <2>3. InSight(t)'
    BY <2>1, <2>2 DEF InSight
  <2>4. QED
    BY <1>3, <2>3
<1>5. CASE Learned(s)
  <2> DEFINE x == mem'.targetFloor[t]
  <2>1. /\ t \notin mem'.lost
        /\ t \in mem.lost => x = now
        /\ t \notin mem.lost => x = mem.targetFloor[t]
    BY <1>5 DEF IsRemembered
  <2>2. /\ Losses(t)' = Losses(t)
        /\ \A j \in Losses(t) : hist'[j] = hist[j]
        /\ Whole(t)' => /\ Whole(t) /\ k \in Regains(t)' /\ Regains(t) \subseteq Regains(t)'
                        /\ Regains(t)' \subseteq Regains(t) \cup {k}
        /\ \A j \in Regains(t) : hist'[j] = hist[j] /\ j \in Nat /\ j < k
    BY <1>2, <1>5, FoundIs
  <2>3. InSight(t)
    BY <1>1 DEF SightInv
  <2> HIDE DEF x
  <2>4. ASSUME NEW j \in Losses(t)' PROVE hist'[j].at < x
    <3>1. j \in Losses(t) /\ hist'[j] = hist[j] /\ j \in DOMAIN hist /\ hist[j].target = t
      BY <2>2 DEF Losses, Since
    <3>2. CASE t \in mem.lost
      BY <1>1, <2>1, <3>1, <3>2
    <3>3. CASE t \notin mem.lost
      BY <2>1, <2>3, <3>1, <3>3 DEF InSight, Floor
    <3>4. QED
      BY <3>2, <3>3
  <2>5. ASSUME Whole(t)', Losses(t)' # {}, NEW j \in Regains(t)',
               \A i \in Regains(t)' : j <= i
        PROVE  hist'[j].at <= x
    <3>1. Whole(t) /\ Losses(t) # {}
      BY <2>2, <2>5
    <3>2. CASE t \in mem.lost
      <4>1. Regains(t) = {}
        BY <2>3, <3>1, <3>2 DEF InSight
      <4>2. j = k /\ hist'[j].at = now
        BY <2>2, <2>5, <4>1 DEF IsWatched
      <4>3. QED
        BY <1>1, <2>1, <3>2, <4>2
    <3>3. CASE t \notin mem.lost
      <4>1. PICK i \in Regains(t) : TRUE
        BY <2>3, <3>1, <3>3 DEF InSight
      <4>2. i \in Nat /\ i < k /\ j <= i /\ k \in Nat
        BY <2>2, <2>5, <4>1 DEF IsWatched
      <4>3. j # k
        BY <4>2
      <4>4. j \in Regains(t) /\ \A m \in Regains(t) : j <= m
        BY <2>2, <2>5, <4>3
      <4>5. QED
        BY <2>1, <2>2, <2>3, <3>1, <3>3, <4>4 DEF InSight, Floor
    <3>4. QED
      BY <3>2, <3>3
  <2>6. Whole(t)' => Regains(t)' # {}
    BY <2>2
  <2>7. InSight(t)'
    BY <2>1, <2>4, <2>5, <2>6 DEF InSight, Floor, x
  <2>8. QED
    BY <1>3, <2>7
<1>6. QED
  BY <1>4, <1>5

\* An incident about a silence is opened only of a target just seen, at whose floor
\* sight of it had been regained.
LEMMA SilenceIsWitnessed ==
  ASSUME NEW t \in Targets, now \in Nat, now' = now, mem' \in Memory, hist' \in Seq(Event),
         NEW s \in Sight, Learned(s) => t \notin mem'.lost, InSight(t)',
         NEW gen, NEW obs, obs = Observation(t, s, mem', gen),
         NEW c \in Silences, Holds(c, obs, PolicyOf[t], now)
  PROVE  Witnessed(t, c)'
<1> DEFINE p == PolicyOf[t]
           after == Threshold(c, p)
           x == mem'.targetFloor[t]
<1>1. p \in Policies
  BY PolicyIs
<1>2. x \in Nat /\ mem'.floor \in Nat
  BY DEF Memory
<1>3. /\ obs.live = s.live /\ obs.floor \in Nat /\ obs.floor >= x
      /\ obs.since \in Nat /\ obs.activity \in Nat
  <2>1. LaterOf(mem'.floor, x) \in Nat /\ LaterOf(mem'.floor, x) >= x
    BY <1>2 DEF LaterOf
  <2>2. s.since \in Nat /\ s.activity \in Nat
    BY DEF Sight
  <2> HIDE DEF x
  <2>3. /\ obs.live = s.live /\ obs.since = s.since /\ obs.activity = s.activity
        /\ obs.floor = LaterOf(mem'.floor, x)
    BY DEF Observation, x
  <2>4. QED
    BY <2>1, <2>2, <2>3
<1>4. obs.live
  BY DEF Holds, Silences, Idle, Working
<1>5. t \notin mem'.lost
  BY <1>3, <1>4 DEF Learned
<1>6. after \in Nat
  BY <1>1 DEF Threshold, Policies
<1> HIDE DEF after, x, p
<1>7. x # 0 => now >= x + after
  <2>1. ASSUME x # 0 PROVE now >= x + after
    <3>1. obs.floor \in Nat \ {0}
      BY <1>2, <1>3, <2>1
    <3>2. Holds(c, obs, p, now)
      BY DEF p
    <3>3. now >= obs.floor + after
      BY <1>1, <1>3, <3>1, <3>2, FloorBinds DEF after
    <3>4. QED
      BY <1>2, <1>3, <1>6, <3>3
  <2>2. QED
    BY <2>1
<1>8. \A j \in DOMAIN hist' : hist'[j].at \in Nat
  <2>1. \A j \in DOMAIN hist' : hist'[j] \in Event
    OBVIOUS
  <2>2. QED
    BY <2>1 DEF Event
<1>9. Losses(t)' \subseteq DOMAIN hist' /\ Regains(t)' \subseteq DOMAIN hist'
  BY DEF Losses, Regains, Since
<1>10. ASSUME NEW j \in Losses(t)' PROVE now' > hist'[j].at + after /\ x # 0
  <2>1. hist'[j].at < x /\ hist'[j].at \in Nat
    BY <1>5, <1>8, <1>9, <1>10 DEF InSight, Floor, x
  <2>2. x # 0
    BY <1>2, <2>1
  <2>3. QED
    BY <1>2, <1>6, <1>7, <2>1, <2>2
<1>11. ASSUME Whole(t)', Losses(t)' # {}
       PROVE  /\ Regains(t)' # {}
              /\ \A j \in Regains(t)' : (\A k \in Regains(t)' : j <= k) => now' >= hist'[j].at + after
  <2>1. Regains(t)' # {}
    BY <1>5, <1>11 DEF InSight
  <2>2. x # 0
    BY <1>10, <1>11
  <2>3. ASSUME NEW j \in Regains(t)', \A k \in Regains(t)' : j <= k
        PROVE  now' >= hist'[j].at + after
    <3>1. hist'[j].at <= x /\ hist'[j].at \in Nat
      BY <1>5, <1>8, <1>9, <1>11, <2>3 DEF InSight, Floor, x
    <3>2. QED
      BY <1>2, <1>6, <1>7, <2>2, <3>1
  <2>4. QED
    BY <2>1, <2>3
<1>12. QED
  BY <1>10, <1>11 DEF Witnessed, after, p

\* A look that is recorded.
LEMMA SightRecords ==
  ASSUME MInv, SightInv, NEW t \in loop.todo, loop.at = "observe", NEW s, NEW gen, NEW obs,
         NEW open, NEW close, IsDecision(t, s, gen, obs, open, close), mem' \in Memory,
         IsRemembered(t, s, mem'), obs = Observation(t, s, mem', gen),
         NEW event, event = [target |-> t, session |-> s.id, gen |-> gen,
                             status |-> s.status, learned |-> Learned(s), at |-> now],
         hist' = Append(hist, event),
         NEW r, r = Applied(state[t], s, gen), state' = [state EXCEPT ![t] = r],
         loop' = [loop EXCEPT !.at = "apply", !.target = t, !.gen = gen,
                              !.open = open, !.close = close],
         UNCHANGED <<now, faults>>
  PROVE  SightInv'
<1> DEFINE k == Len(hist) + 1
<1>1. /\ t \in Targets /\ loop \in Loop /\ now \in Nat /\ mem \in Memory
      /\ state \in [Targets -> Row] /\ hist \in Seq(Event)
  BY TypesAre, LoopIs DEF MInv, Types, TypeOK, Event
<1>2. /\ s \in Sight /\ s.status \in Statuses /\ s.id \in Sessions \cup {""}
      /\ s.live \in BOOLEAN /\ gen \in Nat \ {0}
      /\ \A c \in ToSet(open) : Holds(c, obs, PolicyOf[t], now)
  BY DEF IsDecision, Sight
<1>3. /\ event \in Event /\ event.target = t /\ event.status = s.status
      /\ event.learned = Learned(s) /\ event.at = now
  BY <1>1, <1>2 DEF Event, Learned
<1>4. IsAppended(Event, hist, event, hist') /\ hist' \in Seq(Event)
  BY <1>1, <1>3, Appends DEF IsAppended
<1>5. IsWatched(event, k)
  BY <1>1, <1>4, WatchedIs DEF IsRemembered
<1>6. DOMAIN hist' = DOMAIN hist \cup {k} /\ hist'[k] = event
      /\ \A j \in DOMAIN hist : hist'[j] = hist[j]
  BY <1>4 DEF IsAppended
<1> HIDE DEF k
<1>7. loop'.at = "apply" /\ loop'.target = t /\ loop'.open = open /\ loop'.todo = loop.todo
  BY <1>1, LoopIs
<1>8. Busy' /\ Pending' = Pending \ {t}
  BY <1>7 DEF Busy, Pending
<1>9. \A u \in Targets : InSight(u)'
  BY <1>3, <1>5, SightObserves
<1>10. ASSUME NEW c \in ToSet(open) \cap Silences PROVE Witnessed(t, c)'
  <2>1. /\ Learned(s) => t \notin mem'.lost
        /\ InSight(t)' /\ Holds(c, obs, PolicyOf[t], now)
    BY <1>1, <1>2, <1>9 DEF IsRemembered
  <2>2. QED
    BY <1>1, <1>2, <1>4, <2>1, SilenceIsWitnessed
<1>11. (\A j \in DOMAIN hist : hist[j].at <= now)'
  BY <1>1, <1>3, <1>6 DEF SightInv
<1>12. (\A j \in DOMAIN hist : hist[j].target \in Pending => hist[j].at < now)'
  BY <1>3, <1>6, <1>8 DEF SightInv
<1>13. (faults = 0 => mem.first = 1)'
  BY DEF SightInv, IsRemembered
<1>14. ASSUME NEW u \in Targets, state'[u].status = "exited"
       PROVE  \E j \in DOMAIN hist' : hist'[j].target = u /\ hist'[j].status = "exited"
  <2>1. CASE state[u].status = "exited"
    <3>1. PICK j \in DOMAIN hist : hist[j].target = u /\ hist[j].status = "exited"
      BY <2>1 DEF SightInv
    <3>2. j \in DOMAIN hist' /\ hist'[j] = hist[j]
      BY <1>6
    <3>3. QED
      BY <3>1, <3>2
  <2>2. CASE state[u].status # "exited"
    <3>1. u = t /\ r.status = "exited"
      BY <1>1, <1>14, <2>2
    <3>2. IsApplied(state[t], s, gen, now, r)
      BY <1>1, AppliedIs DEF IsDecision
    <3>3. Placed(state[t]) /\ (state[t].row \in BOOLEAN)
      BY <1>2, RowIs DEF IsDecision, Placed
    <3>4. s.status = "exited"
      BY <1>2, <2>2, <3>1, <3>2, <3>3 DEF IsApplied
    <3>5. k \in DOMAIN hist' /\ hist'[k].target = u /\ hist'[k].status = "exited"
      BY <1>3, <1>6, <3>1, <3>4
    <3>6. QED
      BY <3>5
  <2>3. QED
    BY <2>1, <2>2
<1>15. QED
  BY <1>7, <1>9, <1>10, <1>11, <1>12, <1>13, <1>14 DEF SightInv

\* A repeated exit left unrecorded: the log no longer has every look.
LEMMA SightSkips ==
  ASSUME MInv, SightInv, NEW t \in loop.todo, loop.at = "observe", NEW s,
         s.status = "exited", state[t].status = "exited", IsRemembered(t, s, mem'),
         loop' = [loop EXCEPT !.todo = loop.todo \ {t}],
         UNCHANGED <<now, hist, state, faults>>
  PROVE  SightInv'
<1>1. /\ t \in Targets /\ loop \in Loop /\ Learned(s)
      /\ t \in Pending /\ ~Busy
  BY TypesAre, LoopIs DEF MInv, Learned, Pending, Busy
<1>2. loop'.at = "observe" /\ loop'.todo = loop.todo \ {t}
  BY <1>1, LoopIs
<1>3. ~Busy' /\ Pending' \subseteq Pending
  BY <1>1, <1>2 DEF Busy, Pending
<1>4. \A u : /\ Since(u)' = Since(u) /\ Losses(u)' = Losses(u) /\ Regains(u)' = Regains(u)
             /\ Whole(u)' = Whole(u)
  <2>1. \A u : Since(u)' = Since(u) /\ Losses(u)' = Losses(u) /\ Regains(u)' = Regains(u)
    BY SinceSame DEF IsRemembered
  <2>2. QED
    BY <2>1 DEF Whole
<1>5. ~Whole(t)
  <2>1. PICK j \in DOMAIN hist : hist[j].target = t /\ hist[j].status = "exited"
    BY <1>1 DEF SightInv
  <2>2. SUFFICES ASSUME faults = 0 PROVE j \in Since(t)
    BY <2>1 DEF Whole
  <2>3. mem.first = 1 /\ j >= 1
    <3>1. hist \in Seq(Event)
      BY DEF MInv, Types, TypeOK, Event
    <3>2. QED
      BY <2>2, <3>1 DEF SightInv
  <2>4. QED
    BY <2>1, <2>3 DEF Since
<1>6. InSight(t)'
  <2>1. ASSUME NEW j \in Losses(t) PROVE hist[j].at < mem'.targetFloor[t]
    <3>1. j \in DOMAIN hist /\ hist[j].target = t
      BY DEF Losses, Since
    <3>2. CASE t \in mem.lost
      <4>1. mem'.targetFloor[t] = now
        BY <1>1, <3>2 DEF IsRemembered
      <4>2. QED
        BY <1>1, <3>1, <4>1 DEF SightInv
    <3>3. CASE t \notin mem.lost
      <4>1. mem'.targetFloor[t] = mem.targetFloor[t]
        BY <1>1, <3>3 DEF IsRemembered
      <4>2. QED
        BY <1>1, <3>3, <4>1 DEF SightInv, InSight, Floor
    <3>4. QED
      BY <3>2, <3>3
  <2>2. QED
    BY <1>4, <1>5, <2>1 DEF InSight, Floor
<1>7. ASSUME NEW u \in Targets, u # t PROVE InSight(u)'
  <2>1. /\ u \in mem'.lost <=> u \in mem.lost
        /\ mem'.targetFloor[u] = mem.targetFloor[u]
    BY <1>7 DEF IsRemembered
  <2>2. InSight(u)
    BY DEF SightInv
  <2>3. QED
    BY <1>4, <2>1, <2>2 DEF InSight, Floor
<1>8. (/\ \A j \in DOMAIN hist : hist[j].at <= now
       /\ \A j \in DOMAIN hist : hist[j].target \in Pending => hist[j].at < now
       /\ faults = 0 => mem.first = 1
       /\ \A u \in Targets : state[u].status = "exited" =>
            \E j \in DOMAIN hist : hist[j].target = u /\ hist[j].status = "exited")'
  BY <1>3 DEF SightInv, IsRemembered
<1>9. QED
  BY <1>3, <1>6, <1>7, <1>8 DEF SightInv

LEMMA SightLooks ==
  ASSUME MInv, SightInv, NEW t \in Targets, Observe(t)
  PROVE  SightInv'
<1> DEFINE s == loop.seen[t]
           gen == GenerationFor(state[t], s.id)
           m == RememberSight(t, s)
           obs == Observation(t, s, m, gen)
           open == Opens(obs, PolicyOf[t], now)
           close == Closes(obs, PolicyOf[t], now)
           repeat == s.status = "exited" /\ ExitRecorded(state[t], gen)
           event == [target |-> t, session |-> s.id, gen |-> gen, status |-> s.status,
                     learned |-> Learned(s), at |-> now]
           r == Applied(state[t], s, gen)
<1>1. /\ loop.at = "observe" /\ t \in loop.todo /\ mem' = m /\ UNCHANGED <<now, faults>>
  BY DEF Observe
<1>2. \/ /\ s.status = "exited" /\ state[t].status = "exited"
         /\ loop' = [loop EXCEPT !.todo = loop.todo \ {t}]
         /\ UNCHANGED <<hist, state>>
      \/ /\ hist' = Append(hist, event)
         /\ state' = [state EXCEPT ![t] = r]
         /\ loop' = [loop EXCEPT !.at = "apply", !.target = t, !.gen = gen,
                                 !.open = open, !.close = close]
  BY DEF Observe, ExitRecorded
<1>3. IsDecision(t, s, gen, obs, open, close) /\ m \in Memory
  <2>1. /\ s = loop.seen[t] /\ gen = GenerationFor(state[t], s.id) /\ m = RememberSight(t, s)
        /\ obs = Observation(t, s, m, gen)
        /\ open = Opens(obs, PolicyOf[t], now) /\ close = Closes(obs, PolicyOf[t], now)
    OBVIOUS
  <2> HIDE DEF s, gen, m, obs, open, close
  <2>2. QED
    BY <1>1, <2>1, DecisionIs
<1>4. IsRemembered(t, s, mem')
  <2>1. mem \in Memory /\ mem' = RememberSight(t, s)
    BY <1>1, TypesAre DEF MInv
  <2> HIDE DEF s, m
  <2>2. QED
    BY <2>1, RememberedIs
<1>5. /\ event = [target |-> t, session |-> s.id, gen |-> gen, status |-> s.status,
                  learned |-> Learned(s), at |-> now]
      /\ r = Applied(state[t], s, gen) /\ obs = Observation(t, s, mem', gen)
  BY <1>1
<1> HIDE DEF s, gen, m, obs, open, close, event, r
<1>6. CASE /\ s.status = "exited" /\ state[t].status = "exited"
           /\ loop' = [loop EXCEPT !.todo = loop.todo \ {t}]
           /\ UNCHANGED <<hist, state>>
  BY <1>1, <1>4, <1>6, SightSkips
<1>7. CASE /\ hist' = Append(hist, event)
           /\ state' = [state EXCEPT ![t] = r]
           /\ loop' = [loop EXCEPT !.at = "apply", !.target = t, !.gen = gen,
                                   !.open = open, !.close = close]
  BY <1>1, <1>3, <1>4, <1>5, <1>7, SightRecords
<1>8. QED
  BY <1>2, <1>6, <1>7

LEMMA SightInit == Init => SightInv
<1> SUFFICES ASSUME Init PROVE SightInv
  OBVIOUS
<1>1. DOMAIN hist = {} /\ ~Busy /\ mem.first = 1
  BY IdleIs DEF Init, Busy, FreshMemory
<1>2. \A t \in Targets : state[t].status # "exited"
  BY DEF Init, NoRow
<1>3. ASSUME NEW t \in Targets PROVE InSight(t)
  <2>1. Since(t) = {} /\ Losses(t) = {}
    BY <1>1 DEF Since, Losses
  <2>2. QED
    BY <2>1 DEF InSight, Floor
<1>4. QED
  BY <1>1, <1>2, <1>3 DEF SightInv

\* SightInv is inductive, relative to MInv.
LEMMA SightStep == MInv /\ MInv' /\ SightInv /\ [Next]_vars => SightInv'
<1> SUFFICES ASSUME MInv, MInv', SightInv, [Next]_vars PROVE SightInv'
  OBVIOUS
<1>1. CASE BeginPass
  BY <1>1, SightBegins
<1>2. CASE \E t \in Targets : Observe(t)
  BY <1>2, SightLooks
<1>3. CASE StoreFails \/ Crash
  BY <1>3, SightEnds
<1>4. CASE \/ OpenOrTouch \/ RecordDelivery \/ MarkNotified \/ Resolve \/ Finish \/ EndPass
           \/ \E outcome \in Outcomes : Deliver(outcome)
           \/ UNCHANGED vars
  BY <1>4, StepGoesOn, SightGoesOn
<1>5. QED
  BY <1>1, <1>2, <1>3, <1>4 DEF Next

\* Silence birddog did not witness is not measured: between the last loss of sight of
\* a target and an incident about its silence lies more than the threshold, through
\* failed transactions and restarts, and while the log has every look, at least the
\* threshold since sight was regained (rememberSight's floor, read by evaluate).
THEOREM SilencesAreWitnessed == Spec => SilenceWitnessed
<1> DEFINE T(i) == incidents'[i].target
           C(i) == incidents'[i].condition
           After(i) == Threshold(C(i), PolicyOf[T(i)])
           Ours(i) == {j \in DOMAIN hist : hist[j].target = T(i) /\ j >= mem.first}
           Lost(i) == {j \in Ours(i) : ~hist[j].learned}
           Regained(i) == {j \in Ours(i) : \A k \in Lost(i) : k < j}
<1>1. MInv /\ SightInv /\ [Next]_vars =>
        \A i \in Opened : C(i) \in Silences =>
          (Lost(i) # {} =>
             /\ now > hist[Max(Lost(i))].at + After(i)
             /\ (faults = 0 /\ \A j \in Ours(i) : hist[j].status # "exited") =>
                  now >= hist[Min(Regained(i))].at + After(i))
  <2> SUFFICES ASSUME MInv, SightInv, [Next]_vars, NEW i \in Opened, C(i) \in Silences,
                      Lost(i) # {}
               PROVE  /\ now > hist[Max(Lost(i))].at + After(i)
                      /\ (faults = 0 /\ \A j \in Ours(i) : hist[j].status # "exited") =>
                           now >= hist[Min(Regained(i))].at + After(i)
    OBVIOUS
  <2> DEFINE t == loop.target
  <2>1. Busy /\ T(i) = t /\ C(i) \in ToSet(loop.open)
    BY OpeningIs
  <2>2. Witnessed(t, C(i))
    BY <2>1 DEF SightInv
  <2>3. Ours(i) = Since(t)
    BY <2>1 DEF Since
  <2>4. Lost(i) = Losses(t)
    BY <2>3 DEF Losses
  <2>5. Regained(i) = Regains(t)
    BY <2>3, <2>4 DEF Regains
  <2>6. After(i) = Threshold(C(i), PolicyOf[t])
    BY <2>1
  <2>7. Len(hist) \in Nat /\ DOMAIN hist = 1..Len(hist)
    <3>1. hist \in Seq(Event)
      BY DEF MInv, Types, TypeOK, Event
    <3>2. QED
      BY <3>1
  <2>8. Losses(t) \in SUBSET (0..Len(hist)) /\ Regains(t) \in SUBSET Nat
    BY <2>7 DEF Losses, Regains, Since
  <2>9. (faults = 0 /\ \A j \in Ours(i) : hist[j].status # "exited") => Whole(t)
    BY <2>3 DEF Whole
  <2> HIDE DEF T, C, After, Ours, Lost, Regained, t
  <2>10. Max(Losses(t)) \in Losses(t)
    BY <2>4, <2>7, <2>8, MaxIsGreatest
  <2>11. now > hist[Max(Lost(i))].at + After(i)
    BY <2>2, <2>4, <2>6, <2>10 DEF Witnessed
  <2>12. ASSUME Whole(t) PROVE now >= hist[Min(Regained(i))].at + After(i)
    <3>1. /\ Regains(t) # {}
          /\ \A j \in Regains(t) : (\A k \in Regains(t) : j <= k) => now >= hist[j].at + After(i)
      BY <2>2, <2>4, <2>6, <2>12 DEF Witnessed
    <3>2. Min(Regains(t)) \in Regains(t) /\ \A k \in Regains(t) : Min(Regains(t)) <= k
      BY <2>8, <3>1, MinIsLeast
    <3>3. QED
      BY <2>5, <3>1, <3>2
  <2>13. QED
    BY <2>9, <2>11, <2>12
<1>2. Init => SightInv
  BY SightInit
<1>3. MInv /\ MInv' /\ SightInv /\ [Next]_vars => SightInv'
  BY SightStep
<1>4. QED
  BY <1>1, <1>2, <1>3, MonitorInv, PTL DEF Spec, SilenceWitnessed
=============================================================================
