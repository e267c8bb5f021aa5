---------------------------- MODULE Follows_proofs ----------------------------
(***************************************************************************)
(* Proofs about Follows, for any sessions, pids, faults and restarts.      *)
(*                                                                         *)
(* The table of recorded follows is tidy: one row for each id left, and no *)
(* row out of an id a later row reaches.  Replaying a tidy table gives the *)
(* links it lists, whatever their order, which is why memory and store     *)
(* agree after every follow.  And a link always leads to an id that no     *)
(* link left when it was made, so ids can be ranked such that links go     *)
(* down, which is why no circle ever forms.                                *)
(***************************************************************************)
EXTENDS Follows, Extrema

Links == [Sids -> Link \cup {None}]

LinkOf(f) == [to |-> f.to, pid |-> f.pid, start |-> f.start]

\* Rows that RecordFollow may leave.
Tidy(fs) ==
  /\ \A i \in 1..Len(fs) : fs[i].from # fs[i].to
  /\ \A i, j \in 1..Len(fs) : i < j => fs[i].from \notin {fs[j].from, fs[j].to}

\* The links are those of the first n rows.
IsTable(ls, fs, n) ==
  /\ \A i \in 1..n : ls[fs[i].from] = LinkOf(fs[i])
  /\ \A s \in Sids : ls[s] = None \/ \E i \in 1..n : fs[i].from = s

\* Links go down in some ranking of the ids.
Ranked(ls) ==
  \E rank \in [Sids -> Nat] : \A s \in Sids : ls[s] # None => rank[ls[s].to] < rank[s]

-----------------------------------------------------------------------------
(* Links and rows. *)

\* A link is remembered for the id left, and none for the id reached.
LEMMA LinkedIs ==
  ASSUME NEW ls \in Links, NEW f \in Row, f.from # f.to
  PROVE  /\ Linked(ls, f) \in Links
         /\ Linked(ls, f)[f.from] = LinkOf(f)
         /\ Linked(ls, f)[f.to] = None
         /\ \A s \in Sids \ {f.from, f.to} : Linked(ls, f)[s] = ls[s]
<1>1. f.from \in Sids /\ f.to \in Sids /\ LinkOf(f) \in Link
  BY DEF Row, Link, LinkOf
<1>2. Linked(ls, f) = [ls EXCEPT ![f.from] = LinkOf(f), ![f.to] = None]
  BY DEF Linked, LinkOf
<1>3. QED
  BY <1>1, <1>2 DEF Links

\* A row added behind tidy ones that it neither replaces nor makes stale.
Extends(gs, fs, f) ==
  /\ gs \in Seq(Row) /\ Tidy(gs)
  /\ Len(gs) = Len(fs) + 1 /\ Len(fs) \in Nat
  /\ gs[Len(fs) + 1] = f
  /\ \A i \in 1..Len(fs) : gs[i] = fs[i]

LEMMA TidyAppend ==
  ASSUME NEW fs \in Seq(Row), Tidy(fs), NEW f \in Row, f.from # f.to,
         \A i \in 1..Len(fs) : fs[i].from \notin {f.from, f.to}
  PROVE  Extends(Append(fs, f), fs, f)
<1> DEFINE gs == Append(fs, f)
<1>1. /\ gs \in Seq(Row) /\ Len(gs) = Len(fs) + 1 /\ Len(fs) \in Nat
      /\ gs[Len(fs) + 1] = f /\ \A i \in 1..Len(fs) : gs[i] = fs[i]
  OBVIOUS
<1> HIDE DEF gs
<1>2. ASSUME NEW i \in 1..Len(gs) PROVE gs[i].from # gs[i].to
  <2>1. CASE i = Len(fs) + 1
    BY <1>1, <2>1
  <2>2. CASE i \in 1..Len(fs)
    BY <1>1, <2>2 DEF Tidy
  <2>3. QED
    BY <1>1, <2>1, <2>2
<1>3. ASSUME NEW i \in 1..Len(gs), NEW j \in 1..Len(gs), i < j
      PROVE  gs[i].from \notin {gs[j].from, gs[j].to}
  <2>1. i \in 1..Len(fs)
    BY <1>1, <1>3
  <2>2. CASE j = Len(fs) + 1
    BY <1>1, <2>1, <2>2
  <2>3. CASE j \in 1..Len(fs)
    BY <1>1, <1>3, <2>1, <2>3 DEF Tidy
  <2>4. QED
    BY <1>1, <2>2, <2>3
<1>4. QED
  BY <1>1, <1>2, <1>3 DEF Tidy, gs, Extends

\* The links after n rows of a replay.
IsReplay(r, fs) ==
  /\ r \in [0..Len(fs) -> Links]
  /\ r[0] = NoLinks
  /\ \A n \in 1..Len(fs) : r[n] = Linked(r[n - 1], fs[n])

LEMMA Replays ==
  ASSUME NEW fs \in Seq(Row), Tidy(fs)
  PROVE  \E r : IsReplay(r, fs) /\ Replayed(fs) = r[Len(fs)]
<1> DEFINE N == Len(fs)
           g == [n \in 1..N |-> [ls \in Links |-> Linked(ls, fs[n])]]
           Is(r) == r = [n \in 0..N |-> IF n = 0 THEN NoLinks ELSE Linked(r[n - 1], fs[n])]
           r0 == CHOOSE r : Is(r)
<1>1. N \in Nat /\ \A n \in 1..N : fs[n] \in Row /\ fs[n].from # fs[n].to
  BY DEF Tidy
<1>2. Replayed(fs) = r0[N]
  BY DEF Replayed
<1>3. NoLinks \in Links
  BY DEF NoLinks, Links
<1> HIDE DEF N
<1>4. g \in [1..N -> [Links -> Links]]
  <2>1. ASSUME NEW n \in 1..N, NEW ls \in Links PROVE Linked(ls, fs[n]) \in Links
    BY <1>1, LinkedIs
  <2>2. QED
    BY <2>1
<1>5. PICK h \in [0..N -> Links] : h[0] = NoLinks /\ \A n \in 1..N : h[n] = g[n][h[n - 1]]
  <2> HIDE DEF g
  <2>1. Iteration(N, Links, NoLinks, g) # {}
    BY <1>1, <1>3, <1>4, Iterates
  <2>2. QED
    BY <2>1 DEF Iteration
<1>6. \A n \in 1..N : h[n] = Linked(h[n - 1], fs[n])
  <2> SUFFICES ASSUME NEW n \in 1..N PROVE h[n] = Linked(h[n - 1], fs[n])
    OBVIOUS
  <2>1. h[n - 1] \in Links
    BY <1>1
  <2>2. QED
    BY <1>5, <2>1
<1>7. Is(h)
  <2>1. h = [n \in 0..N |-> h[n]]
    OBVIOUS
  <2>2. ASSUME NEW n \in 0..N PROVE h[n] = IF n = 0 THEN NoLinks ELSE Linked(h[n - 1], fs[n])
    BY <1>1, <1>5, <1>6
  <2>3. QED
    BY <2>1, <2>2
<1>8. Is(r0)
  <2> HIDE DEF Is
  <2>1. QED
    BY <1>7, Zenon
<1> HIDE DEF r0
<1>9. /\ r0 = [n \in 0..N |-> r0[n]]
      /\ \A n \in 0..N : r0[n] = IF n = 0 THEN NoLinks ELSE Linked(r0[n - 1], fs[n])
  BY <1>8
<1> HIDE DEF Is
<1>10. r0[0] = NoLinks /\ \A n \in 1..N : r0[n] = Linked(r0[n - 1], fs[n])
  <2>1. 0 \in 0..N /\ \A n \in 1..N : n \in 0..N /\ n # 0
    BY <1>1
  <2>2. QED
    BY <1>9, <2>1
<1>11. \A n \in 0..N : r0[n] \in Links
  <2> DEFINE S == {n \in Nat : n <= N => r0[n] \in Links}
  <2>1. 0 \in S
    BY <1>3, <1>10
  <2>2. ASSUME NEW n \in Nat, n \in S PROVE n + 1 \in S
    <3> SUFFICES ASSUME n + 1 <= N PROVE r0[n + 1] \in Links
      OBVIOUS
    <3>1. n + 1 \in 1..N /\ (n + 1) - 1 = n /\ n <= N
      BY <1>1
    <3>2. r0[n + 1] = Linked(r0[n], fs[n + 1]) /\ r0[n] \in Links
      BY <1>10, <2>2, <3>1
    <3>3. QED
      BY <1>1, <3>1, <3>2, LinkedIs
  <2> HIDE DEF S
  <2>3. Nat \subseteq S
    BY <2>1, <2>2, AllNaturals
  <2>4. QED
    BY <2>3 DEF S
<1>12. IsReplay(r0, fs)
  BY <1>9, <1>10, <1>11 DEF IsReplay, N
<1>13. QED
  BY <1>2, <1>12 DEF N
\* Replaying a tidy table gives the links it lists, and they never lead in a circle.
LEMMA ReplayedIs ==
  ASSUME NEW fs \in Seq(Row), Tidy(fs)
  PROVE  Replayed(fs) \in Links /\ IsTable(Replayed(fs), fs, Len(fs)) /\ Ranked(Replayed(fs))
<1>1. PICK r : IsReplay(r, fs) /\ Replayed(fs) = r[Len(fs)]
  BY Replays
<1> DEFINE N == Len(fs)
           S == {n \in Nat : n <= N => r[n] \in Links /\ IsTable(r[n], fs, n) /\ Ranked(r[n])}
<1>2. /\ N \in Nat /\ \A n \in 1..N : fs[n] \in Row
      /\ \A n \in 1..N : fs[n].from # fs[n].to
      /\ \A i, j \in 1..N : i < j => fs[i].from \notin {fs[j].from, fs[j].to}
  BY DEF Tidy
<1>3. /\ r \in [0..N -> Links] /\ r[0] = NoLinks
      /\ \A n \in 1..N : r[n] = Linked(r[n - 1], fs[n])
  BY <1>1 DEF IsReplay
<1> HIDE DEF N
<1>4. 0 \in S
  <2>1. 0 \in 0..N
    BY <1>2
  <2>2. IsTable(r[0], fs, 0)
    BY <1>3 DEF IsTable, NoLinks
  <2>3. Ranked(r[0])
    <3> DEFINE rank == [s \in Sids |-> 0]
    <3>1. rank \in [Sids -> Nat] /\ \A s \in Sids : r[0][s] = None
      BY <1>3 DEF NoLinks
    <3>2. QED
      BY <3>1 DEF Ranked
  <2>4. QED
    BY <1>3, <2>1, <2>2, <2>3
<1>5. ASSUME NEW n \in Nat, n \in S PROVE n + 1 \in S
  <2> DEFINE m == n + 1
             f == fs[m]
  <2> SUFFICES ASSUME m <= N PROVE r[m] \in Links /\ IsTable(r[m], fs, m) /\ Ranked(r[m])
    OBVIOUS
  <2>1. m \in 1..N /\ m - 1 = n /\ n <= N /\ \A i \in 1..m : i = m \/ i \in 1..n
    BY <1>2
  <2>2. r[n] \in Links /\ IsTable(r[n], fs, n) /\ Ranked(r[n])
    BY <1>5, <2>1
  <2>3. r[m] = Linked(r[n], f) /\ f \in Row /\ f.from # f.to
    BY <1>2, <1>3, <2>1
  <2>4. \A i \in 1..n : fs[i] \in Row /\ fs[i].from \notin {f.from, f.to}
    <3>1. \A i \in 1..n : i \in 1..N /\ i < m
      BY <1>2, <2>1
    <3>2. QED
      BY <1>2, <2>1, <3>1
  <2> HIDE DEF f, m
  <2>5. /\ r[m] \in Links /\ r[m][f.from] = LinkOf(f) /\ r[m][f.to] = None
        /\ \A s \in Sids \ {f.from, f.to} : r[m][s] = r[n][s]
    BY <2>2, <2>3, LinkedIs
  <2>6. IsTable(r[m], fs, m)
    <3>1. ASSUME NEW i \in 1..m PROVE r[m][fs[i].from] = LinkOf(fs[i])
      <4>1. CASE i = m
        BY <2>5, <4>1 DEF f
      <4>2. CASE i \in 1..n
        <5>1. fs[i].from \in Sids \ {f.from, f.to}
          BY <2>4, <4>2 DEF Row
        <5>2. QED
          BY <2>2, <2>5, <4>2, <5>1 DEF IsTable
      <4>3. QED
        BY <2>1, <4>1, <4>2 DEF m
    <3>2. ASSUME NEW s \in Sids, r[m][s] # None PROVE \E i \in 1..m : fs[i].from = s
      <4>0. m \in 1..m /\ \A i \in 1..n : i \in 1..m
        BY DEF m
      <4>1. CASE s = f.from
        BY <4>0, <4>1 DEF f
      <4>2. CASE s # f.from
        <5>1. s # f.to /\ r[n][s] # None
          BY <2>5, <3>2, <4>2
        <5>2. QED
          BY <2>2, <4>0, <5>1 DEF IsTable
      <4>3. QED
        BY <4>1, <4>2
    <3>3. QED
      BY <3>1, <3>2 DEF IsTable
  <2>7. Ranked(r[m])
    <3>1. PICK rank \in [Sids -> Nat] :
            \A s \in Sids : r[n][s] # None => rank[r[n][s].to] < rank[s]
      BY <2>2 DEF Ranked
    <3> DEFINE higher == [s \in Sids |-> IF s = f.to THEN 0 ELSE rank[s] + 1]
    <3>2. higher \in [Sids -> Nat]
      BY <3>1
    <3>3. ASSUME NEW s \in Sids, r[m][s] # None PROVE higher[r[m][s].to] < higher[s]
      <4>1. s # f.to
        BY <2>5, <3>3
      <4>2. CASE s = f.from
        <5>1. r[m][s].to = f.to /\ f.to \in Sids
          BY <2>3, <2>5, <4>2 DEF LinkOf, Row
        <5>2. QED
          BY <4>1, <5>1
      <4>3. CASE s # f.from
        <5>1. r[m][s] = r[n][s]
          BY <2>5, <4>1, <4>3
        <5>2. r[n][s] \in Link /\ r[n][s].to \in Sids
          BY <2>2, <3>3, <5>1 DEF Links, Link
        <5>3. rank[r[n][s].to] < rank[s] /\ rank[r[n][s].to] \in Nat /\ rank[s] \in Nat
          BY <3>1, <3>3, <5>1, <5>2
        <5>4. QED
          BY <4>1, <5>1, <5>2, <5>3
      <4>4. QED
        BY <4>2, <4>3
    <3> HIDE DEF higher
    <3>4. QED
      BY <3>2, <3>3 DEF Ranked
  <2>8. QED
    BY <2>5, <2>6, <2>7
<1>6. N \in S
  <2> HIDE DEF S
  <2>1. QED
    BY <1>2, <1>4, <1>5, AllNaturals
<1>7. QED
  BY <1>1, <1>2, <1>6 DEF N

\* What RecordFollow leaves of the table: the rows of other ids, and then the new one.
IsRecording(gs, f) ==
  /\ gs \in Seq(Row) /\ Tidy(gs)
  /\ \A i \in 1..Len(gs) :
       \/ gs[i] = f
       \/ \E m \in 1..Len(rows) : gs[i] = rows[m] /\ rows[m].from \notin {f.from, f.to}
  /\ \E i \in 1..Len(gs) : gs[i] = f
  /\ \A m \in 1..Len(rows) :
       rows[m].from \notin {f.from, f.to} => \E i \in 1..Len(gs) : gs[i] = rows[m]

LEMMA RecordingIs ==
  ASSUME rows \in Seq(Row), Tidy(rows), NEW f \in Row, f.from # f.to
  PROVE  IsRecording(Recording(f), f)
<1> DEFINE N == Len(rows)
           stays(n) == rows[n].from \notin {f.from, f.to}
           next(v, n) == IF rows[n].from \in {f.from, f.to} THEN v ELSE Append(v, rows[n])
           Is(k) == k = [n \in 0..N |-> IF n = 0 THEN <<>> ELSE next(k[n - 1], n)]
           k0 == CHOOSE k : Is(k)
           g == [n \in 1..N |-> [v \in Seq(Row) |-> next(v, n)]]
<1>1. /\ N \in Nat /\ \A n \in 1..N : rows[n] \in Row /\ rows[n].from # rows[n].to
      /\ \A i, j \in 1..N : i < j => rows[i].from \notin {rows[j].from, rows[j].to}
  BY DEF Tidy
<1>2. Recording(f) = Append(k0[N], f)
  BY DEF Recording
<1>3. \A v \in Seq(Row) : \A n \in 1..N : next(v, n) \in Seq(Row)
  BY <1>1
<1> HIDE DEF N
<1>4. PICK h \in [0..N -> Seq(Row)] : h[0] = <<>> /\ \A n \in 1..N : h[n] = g[n][h[n - 1]]
  <2>1. g \in [1..N -> [Seq(Row) -> Seq(Row)]] /\ <<>> \in Seq(Row)
    BY <1>3
  <2> HIDE DEF g
  <2>2. Iteration(N, Seq(Row), <<>>, g) # {}
    BY <1>1, <2>1, Iterates
  <2>3. QED
    BY <2>2 DEF Iteration
<1> HIDE DEF next
<1>5. \A n \in 1..N : h[n] = next(h[n - 1], n)
  <2> SUFFICES ASSUME NEW n \in 1..N PROVE h[n] = next(h[n - 1], n)
    OBVIOUS
  <2>1. h[n - 1] \in Seq(Row)
    BY <1>1
  <2>2. QED
    BY <1>4, <2>1
<1>6. Is(h)
  <2>1. h = [n \in 0..N |-> h[n]]
    OBVIOUS
  <2>2. ASSUME NEW n \in 0..N PROVE h[n] = IF n = 0 THEN <<>> ELSE next(h[n - 1], n)
    BY <1>1, <1>4, <1>5
  <2>3. QED
    BY <2>1, <2>2
<1>7. Is(k0)
  <2> HIDE DEF Is
  <2>1. QED
    BY <1>6, Zenon
<1> HIDE DEF k0
<1>8. k0[0] = <<>> /\ \A n \in 1..N : k0[n] = next(k0[n - 1], n)
  <2>1. 0 \in 0..N /\ \A n \in 1..N : n \in 0..N /\ n # 0
    BY <1>1
  <2>2. \A n \in 0..N : k0[n] = IF n = 0 THEN <<>> ELSE next(k0[n - 1], n)
    BY <1>7
  <2> HIDE DEF Is
  <2>3. QED
    BY <2>1, <2>2
<1> HIDE DEF Is
<1> DEFINE Kept(v, n) ==
             /\ v \in Seq(Row) /\ Tidy(v)
             /\ \A i \in 1..Len(v) : \E m \in 1..n : v[i] = rows[m] /\ stays(m)
             /\ \A m \in 1..n : stays(m) => \E i \in 1..Len(v) : v[i] = rows[m]
           S == {n \in Nat : n <= N => Kept(k0[n], n)}
<1>9. 0 \in S
  <2>1. Tidy(<<>>) /\ Len(<<>>) = 0 /\ <<>> \in Seq(Row)
    BY DEF Tidy
  <2>2. Kept(<<>>, 0)
    BY <2>1
  <2> HIDE DEF Kept
  <2>3. QED
    BY <1>8, <2>2
<1>10. ASSUME NEW n \in Nat, n \in S PROVE n + 1 \in S
  <2> DEFINE m == n + 1
             v == k0[n]
  <2> HIDE DEF Kept
  <2> SUFFICES ASSUME m <= N PROVE Kept(k0[m], m)
    OBVIOUS
  <2>1. m \in 1..N /\ m - 1 = n /\ n <= N /\ \A i \in 1..m : i = m \/ i \in 1..n
    BY <1>1
  <2>2. Kept(v, n)
    BY <1>10, <2>1
  <2> USE DEF Kept
  <2>3. k0[m] = next(v, m) /\ rows[m] \in Row /\ rows[m].from # rows[m].to
    BY <1>1, <1>8, <2>1
  <2>4. \A i \in 1..n : i \in 1..m /\ i \in 1..N /\ i < m
    BY <1>1, <2>1
  <2>5. m \in 1..m
    OBVIOUS
  <2> HIDE DEF m, v
  <2>6. CASE ~stays(m)
    <3>1. k0[m] = v
      BY <2>3, <2>6 DEF next
    <3>2. QED
      BY <2>1, <2>2, <2>4, <2>6, <3>1
  <2>7. CASE stays(m)
    <3>1. k0[m] = Append(v, rows[m])
      BY <2>3, <2>7 DEF next
    <3>2. \A i \in 1..Len(v) : v[i].from \notin {rows[m].from, rows[m].to}
      <4> SUFFICES ASSUME NEW i \in 1..Len(v) PROVE v[i].from \notin {rows[m].from, rows[m].to}
        OBVIOUS
      <4>1. PICK l \in 1..n : v[i] = rows[l]
        BY <2>2
      <4>2. QED
        BY <1>1, <2>1, <2>4, <4>1
    <3>3. /\ k0[m] \in Seq(Row) /\ Tidy(k0[m])
          /\ Len(k0[m]) = Len(v) + 1 /\ Len(v) \in Nat
          /\ k0[m][Len(v) + 1] = rows[m]
          /\ \A i \in 1..Len(v) : k0[m][i] = v[i]
      <4>1. Extends(Append(v, rows[m]), v, rows[m])
        BY <2>2, <2>3, <3>2, TidyAppend
      <4>2. QED
        BY <3>1, <4>1 DEF Extends
    <3>4. \A i \in 1..Len(k0[m]) : i = Len(v) + 1 \/ i \in 1..Len(v)
      BY <3>3
    <3>5. Len(v) + 1 \in 1..Len(k0[m]) /\ \A i \in 1..Len(v) : i \in 1..Len(k0[m])
      BY <3>3
    <3>6. ASSUME NEW i \in 1..Len(k0[m])
          PROVE  \E l \in 1..m : k0[m][i] = rows[l] /\ stays(l)
      <4>1. CASE i = Len(v) + 1
        BY <2>5, <2>7, <3>3, <4>1
      <4>2. CASE i \in 1..Len(v)
        <5>1. PICK l \in 1..n : v[i] = rows[l] /\ stays(l)
          BY <2>2, <4>2
        <5>2. QED
          BY <2>4, <3>3, <4>2, <5>1
      <4>3. QED
        BY <3>4, <4>1, <4>2
    <3>7. ASSUME NEW l \in 1..m, stays(l)
          PROVE  \E i \in 1..Len(k0[m]) : k0[m][i] = rows[l]
      <4>1. CASE l = m
        BY <3>3, <3>5, <4>1
      <4>2. CASE l \in 1..n
        <5>1. PICK i \in 1..Len(v) : v[i] = rows[l]
          BY <2>2, <3>7, <4>2
        <5>2. QED
          BY <3>3, <3>5, <5>1
      <4>3. QED
        BY <2>1, <4>1, <4>2
    <3>8. QED
      BY <3>3, <3>6, <3>7
  <2>8. QED
    BY <2>6, <2>7
<1>11. Kept(k0[N], N)
  <2> HIDE DEF Kept
  <2> DEFINE T == S
  <2>1. 0 \in T /\ \A n \in Nat : n \in T => n + 1 \in T
    BY <1>9, <1>10
  <2> HIDE DEF T
  <2>2. Nat \subseteq T
    BY <2>1, AllNaturals
  <2>3. QED
    BY <1>1, <2>2 DEF T
<1>12. \A i \in 1..Len(k0[N]) : k0[N][i].from \notin {f.from, f.to}
  BY <1>11
<1>13. /\ Recording(f) \in Seq(Row) /\ Tidy(Recording(f))
       /\ Len(Recording(f)) = Len(k0[N]) + 1 /\ Len(k0[N]) \in Nat
       /\ Recording(f)[Len(k0[N]) + 1] = f
       /\ \A i \in 1..Len(k0[N]) : Recording(f)[i] = k0[N][i]
  <2>1. Extends(Append(k0[N], f), k0[N], f)
    BY <1>11, <1>12, TidyAppend
  <2>2. QED
    BY <1>2, <2>1 DEF Extends
<1>14. /\ Len(k0[N]) + 1 \in 1..Len(Recording(f))
       /\ \A i \in 1..Len(k0[N]) : i \in 1..Len(Recording(f))
       /\ \A i \in 1..Len(Recording(f)) : i = Len(k0[N]) + 1 \/ i \in 1..Len(k0[N])
  BY <1>13
<1>15. QED
  BY <1>11, <1>13, <1>14 DEF IsRecording, N

\* A restarted daemon would replay what this one remembers.
LEMMA FollowReplays ==
  ASSUME rows \in Seq(Row), Tidy(rows), NEW f \in Row, f.from # f.to
  PROVE  Replayed(Recording(f)) = Linked(Replayed(rows), f)
<1> DEFINE gs == Recording(f)
           new == Replayed(gs)
           old == Replayed(rows)
<1>1. IsRecording(gs, f)
  BY RecordingIs
<1> HIDE DEF gs
<1>2. gs \in Seq(Row) /\ Tidy(gs)
  BY <1>1 DEF IsRecording
<1>3. new \in Links /\ IsTable(new, gs, Len(gs))
  BY <1>2, ReplayedIs
<1>4. old \in Links /\ IsTable(old, rows, Len(rows))
  BY ReplayedIs
<1> HIDE DEF new, old
<1>5. /\ Linked(old, f) \in Links
      /\ Linked(old, f)[f.from] = LinkOf(f) /\ Linked(old, f)[f.to] = None
      /\ \A s \in Sids \ {f.from, f.to} : Linked(old, f)[s] = old[s]
  BY <1>4, LinkedIs
<1>6. ASSUME NEW s \in Sids PROVE new[s] = Linked(old, f)[s]
  <2>1. CASE s = f.from
    <3>1. PICK i \in 1..Len(gs) : gs[i] = f
      BY <1>1 DEF IsRecording
    <3>2. QED
      BY <1>3, <1>5, <2>1, <3>1 DEF IsTable
  <2>2. CASE s = f.to
    <3>1. \A i \in 1..Len(gs) : gs[i].from # f.to
      BY <1>1 DEF IsRecording
    <3>2. QED
      BY <1>3, <1>5, <2>2, <3>1 DEF IsTable
  <2>3. CASE s \notin {f.from, f.to}
    <3>1. Linked(old, f)[s] = old[s]
      BY <1>5, <2>3
    <3>2. CASE \E m \in 1..Len(rows) : rows[m].from = s
      <4>1. PICK m \in 1..Len(rows) : rows[m].from = s
        BY <3>2
      <4>2. PICK i \in 1..Len(gs) : gs[i] = rows[m]
        BY <1>1, <2>3, <4>1 DEF IsRecording
      <4>3. QED
        BY <1>3, <1>4, <3>1, <4>1, <4>2 DEF IsTable
    <3>3. CASE ~\E m \in 1..Len(rows) : rows[m].from = s
      <4>1. \A i \in 1..Len(gs) : gs[i].from # s
        BY <1>1, <2>3, <3>3 DEF IsRecording
      <4>2. QED
        BY <1>3, <1>4, <3>1, <3>3, <4>1 DEF IsTable
    <3>4. QED
      BY <3>2, <3>3
  <2>4. QED
    BY <2>1, <2>2, <2>3
<1>7. QED
  BY <1>3, <1>5, <1>6 DEF Links, new, old, gs
-----------------------------------------------------------------------------
(* Following recorded links. *)

Taken(ls, w) == [at |-> [sid |-> ls[w.at.sid].to, pid |-> ls[w.at.sid].pid,
                         start |-> ls[w.at.sid].start],
                 visited |-> w.visited \cup {w.at.sid}]

Walk == [at : Attachment, visited : SUBSET Sids]

\* Where the links lead, after n of them.
IsWalk(w, ls, a) ==
  /\ w \in [0..Cardinality(Sids) -> Walk]
  /\ w[0] = [at |-> a, visited |-> {}]
  /\ \A n \in 1..Cardinality(Sids) :
       w[n] = IF ~MayTake(ls, w[n - 1].at, w[n - 1].visited) THEN w[n - 1]
              ELSE Taken(ls, w[n - 1])

\* A link that is taken leads to an attachment.
LEMMA TakenIsWalk ==
  ASSUME NEW ls \in Links, NEW w \in Walk, MayTake(ls, w.at, w.visited)
  PROVE  /\ Taken(ls, w) \in Walk
         /\ Taken(ls, w).at = [sid |-> ls[w.at.sid].to, pid |-> ls[w.at.sid].pid,
                               start |-> ls[w.at.sid].start]
         /\ Taken(ls, w).visited = w.visited \cup {w.at.sid}
         /\ w.at.sid \in Sids /\ ls[w.at.sid] \in Link /\ ls[w.at.sid] # None
<1>1. w.at \in Attachment /\ w.at.sid \in Sids /\ w.visited \subseteq Sids
  BY DEF Walk, Attachment
<1>2. ls[w.at.sid] \in Link /\ ls[w.at.sid] # None
  BY <1>1 DEF MayTake, Links
<1> DEFINE link == ls[w.at.sid]
           to == [sid |-> link.to, pid |-> link.pid, start |-> link.start]
<1>3. link.to \in Sids /\ link.pid \in Pids /\ link.start \in Nat
  BY <1>2 DEF Link
<1>4. to \in Attachment
  BY <1>3 DEF Attachment
<1>5. [at |-> to, visited |-> w.visited \cup {w.at.sid}] \in Walk
  <2> HIDE DEF to
  <2>1. QED
    BY <1>1, <1>4 DEF Walk
<1>6. QED
  BY <1>1, <1>2, <1>5 DEF Taken

LEMMA Walks ==
  ASSUME NEW ls \in Links, NEW a \in Attachment
  PROVE  \E w : IsWalk(w, ls, a) /\ Resolved(ls, a) = w[Cardinality(Sids)].at
<1> DEFINE N == Cardinality(Sids)
           next(w) == IF ~MayTake(ls, w.at, w.visited) THEN w ELSE Taken(ls, w)
           g == [n \in 1..N |-> [w \in Walk |-> next(w)]]
           first == [at |-> a, visited |-> {}]
           Is(w) == w = [n \in 0..N |-> IF n = 0 THEN first ELSE next(w[n - 1])]
           w0 == CHOOSE w : Is(w)
<1>1. N \in Nat
  BY RegistryAssumption, FS_CardinalityType
<1>2. Resolved(ls, a) = w0[N].at
  BY Zenon DEF Resolved, Taken
<1>3. first \in Walk
  BY DEF Walk
<1>4. \A w \in Walk : next(w) \in Walk
  BY TakenIsWalk
<1> HIDE DEF N, next, first
<1>5. PICK h \in [0..N -> Walk] : h[0] = first /\ \A n \in 1..N : h[n] = g[n][h[n - 1]]
  <2>1. g \in [1..N -> [Walk -> Walk]]
    BY <1>4
  <2> HIDE DEF g
  <2>2. Iteration(N, Walk, first, g) # {}
    BY <1>1, <1>3, <2>1, Iterates
  <2>3. QED
    BY <2>2 DEF Iteration
<1>6. \A n \in 1..N : h[n] = next(h[n - 1])
  <2> SUFFICES ASSUME NEW n \in 1..N PROVE h[n] = next(h[n - 1])
    OBVIOUS
  <2>1. h[n - 1] \in Walk
    BY <1>1
  <2>2. QED
    BY <1>5, <2>1
<1>7. Is(h)
  <2>1. h = [n \in 0..N |-> h[n]]
    OBVIOUS
  <2>2. ASSUME NEW n \in 0..N PROVE h[n] = IF n = 0 THEN first ELSE next(h[n - 1])
    BY <1>1, <1>5, <1>6
  <2>3. QED
    BY <2>1, <2>2
<1>8. Is(w0)
  <2> HIDE DEF Is
  <2>1. QED
    BY <1>7, Zenon
<1> HIDE DEF w0
<1>9. /\ w0 = [n \in 0..N |-> w0[n]]
      /\ w0[0] = first /\ \A n \in 1..N : w0[n] = next(w0[n - 1])
  <2>1. 0 \in 0..N /\ \A n \in 1..N : n \in 0..N /\ n # 0
    BY <1>1
  <2>2. /\ w0 = [n \in 0..N |-> w0[n]]
        /\ \A n \in 0..N : w0[n] = IF n = 0 THEN first ELSE next(w0[n - 1])
    BY <1>8
  <2> HIDE DEF Is
  <2>3. QED
    BY <2>1, <2>2
<1> HIDE DEF Is
<1>10. \A n \in 0..N : w0[n] \in Walk
  <2> DEFINE S == {n \in Nat : n <= N => w0[n] \in Walk}
  <2>1. 0 \in S
    BY <1>3, <1>9
  <2>2. ASSUME NEW n \in Nat, n \in S PROVE n + 1 \in S
    <3> SUFFICES ASSUME n + 1 <= N PROVE w0[n + 1] \in Walk
      OBVIOUS
    <3>1. n + 1 \in 1..N /\ (n + 1) - 1 = n /\ n <= N
      BY <1>1
    <3>2. w0[n + 1] = next(w0[n]) /\ w0[n] \in Walk
      BY <1>9, <2>2, <3>1
    <3>3. QED
      BY <1>4, <3>2
  <2> HIDE DEF S
  <2>3. Nat \subseteq S
    BY <2>1, <2>2, AllNaturals
  <2>4. QED
    BY <2>3 DEF S
<1>11. IsWalk(w0, ls, a)
  BY <1>9, <1>10 DEF IsWalk, N, next, first
<1>12. QED
  BY <1>2, <1>11 DEF N

\* Where an attachment leads, it is itself or the end of a link.
Reached(ls, a, b) ==
  /\ b \in Attachment
  /\ \/ b = a
     \/ \E s \in Sids : ls[s] # None /\ b = [sid |-> ls[s].to, pid |-> ls[s].pid,
                                             start |-> ls[s].start]

LEMMA ResolvedIsReached ==
  ASSUME NEW ls \in Links, NEW a \in Attachment
  PROVE  Reached(ls, a, Resolved(ls, a))
<1> DEFINE N == Cardinality(Sids)
<1>1. PICK w : IsWalk(w, ls, a) /\ Resolved(ls, a) = w[N].at
  BY Walks
<1>2. N \in Nat
  BY RegistryAssumption, FS_CardinalityType
<1> DEFINE S == {n \in Nat : n <= N => Reached(ls, a, w[n].at)}
<1> HIDE DEF N
<1>3. /\ w \in [0..N -> Walk] /\ w[0] = [at |-> a, visited |-> {}]
      /\ \A n \in 1..N : w[n] = IF ~MayTake(ls, w[n - 1].at, w[n - 1].visited)
                                THEN w[n - 1] ELSE Taken(ls, w[n - 1])
  BY <1>1 DEF IsWalk, N
<1>4. 0 \in S
  BY <1>3 DEF Reached
<1>5. ASSUME NEW n \in Nat, n \in S PROVE n + 1 \in S
  <2> SUFFICES ASSUME n + 1 <= N PROVE Reached(ls, a, w[n + 1].at)
    OBVIOUS
  <2>1. n + 1 \in 1..N /\ (n + 1) - 1 = n /\ n <= N /\ n \in 0..N
    BY <1>2
  <2>2. Reached(ls, a, w[n].at) /\ w[n] \in Walk
    BY <1>3, <1>5, <2>1
  <2>3. w[n + 1] = IF ~MayTake(ls, w[n].at, w[n].visited) THEN w[n] ELSE Taken(ls, w[n])
    BY <1>3, <2>1
  <2>4. CASE ~MayTake(ls, w[n].at, w[n].visited)
    BY <2>2, <2>3, <2>4
  <2>5. CASE MayTake(ls, w[n].at, w[n].visited)
    <3> DEFINE v == w[n]
    <3>0. w[n + 1] = Taken(ls, v)
      BY <2>3, <2>5
    <3> HIDE DEF v
    <3>1. /\ Taken(ls, v) \in Walk
          /\ Taken(ls, v).at = [sid |-> ls[v.at.sid].to, pid |-> ls[v.at.sid].pid,
                                start |-> ls[v.at.sid].start]
          /\ v.at.sid \in Sids /\ ls[v.at.sid] # None
      <4>1. v \in Walk /\ MayTake(ls, v.at, v.visited)
        BY <2>2, <2>5 DEF v
      <4>2. QED
        BY <4>1, TakenIsWalk
    <3>2. Taken(ls, v).at \in Attachment
      BY <3>1 DEF Walk
    <3>3. QED
      BY <3>0, <3>1, <3>2 DEF Reached
  <2>6. QED
    BY <2>4, <2>5
<1>6. N \in S
  <2> HIDE DEF S
  <2>1. QED
    BY <1>2, <1>4, <1>5, AllNaturals
<1>7. QED
  BY <1>1, <1>2, <1>6 DEF N

\* No recorded follow leads on from an attachment that rests.
Rests(ls, a) == ~MayTake(ls, a, {})

LEMMA RestingStays ==
  ASSUME NEW ls \in Links, NEW a \in Attachment, Rests(ls, a)
  PROVE  Resolved(ls, a) = a
<1> DEFINE N == Cardinality(Sids)
           first == [at |-> a, visited |-> {}]
<1>1. PICK w : IsWalk(w, ls, a) /\ Resolved(ls, a) = w[N].at
  BY Walks
<1>2. N \in Nat
  BY RegistryAssumption, FS_CardinalityType
<1>3. first.at = a /\ first.visited = {}
  OBVIOUS
<1> DEFINE S == {n \in Nat : n <= N => w[n] = first}
<1> HIDE DEF N
<1>4. /\ w[0] = first
      /\ \A n \in 1..N : w[n] = IF ~MayTake(ls, w[n - 1].at, w[n - 1].visited)
                                THEN w[n - 1] ELSE Taken(ls, w[n - 1])
  BY <1>1 DEF IsWalk, N
<1> HIDE DEF first
<1>5. 0 \in S
  BY <1>4
<1>6. ASSUME NEW n \in Nat, n \in S PROVE n + 1 \in S
  <2> SUFFICES ASSUME n + 1 <= N PROVE w[n + 1] = first
    OBVIOUS
  <2>1. n + 1 \in 1..N /\ (n + 1) - 1 = n /\ n <= N
    BY <1>2
  <2>2. w[n] = first
    BY <1>6, <2>1
  <2>3. w[n + 1] = IF ~MayTake(ls, w[n].at, w[n].visited) THEN w[n] ELSE Taken(ls, w[n])
    BY <1>4, <2>1
  <2>4. QED
    BY <1>3, <2>2, <2>3 DEF Rests
<1>7. N \in S
  <2> HIDE DEF S
  <2>1. QED
    BY <1>2, <1>5, <1>6, AllNaturals
<1>8. QED
  BY <1>1, <1>2, <1>3, <1>7 DEF N

\* Following links that never lead in a circle ends where none leads on: if each of
\* as many as there are ids was taken, they left all ids behind.
LEMMA ResolvedRests ==
  ASSUME NEW ls \in Links, NEW a \in Attachment, Ranked(ls)
  PROVE  Rests(ls, Resolved(ls, a))
<1> DEFINE N == Cardinality(Sids)
<1>1. PICK w : IsWalk(w, ls, a) /\ Resolved(ls, a) = w[N].at
  BY Walks
<1>2. N \in Nat
  BY RegistryAssumption, FS_CardinalityType
<1>3. PICK rank \in [Sids -> Nat] :
        \A s \in Sids : ls[s] # None => rank[ls[s].to] < rank[s]
  BY DEF Ranked
<1> DEFINE Left(v) == \A s \in v.visited : rank[v.at.sid] < rank[s]
           May(v) == MayTake(ls, v.at, v.visited)
           S == {n \in Nat : n <= N => /\ Left(w[n])
                                       /\ ~May(w[n]) \/ Cardinality(w[n].visited) = n}
<1> HIDE DEF N
<1>4. /\ w \in [0..N -> Walk] /\ w[0] = [at |-> a, visited |-> {}]
      /\ \A n \in 1..N : w[n] = IF ~May(w[n - 1]) THEN w[n - 1] ELSE Taken(ls, w[n - 1])
  BY <1>1 DEF IsWalk, N
<1>5. 0 \in S
  <2>1. w[0].visited = {}
    BY <1>4
  <2>2. Left(w[0])
    BY <2>1
  <2>3. Cardinality(w[0].visited) = 0
    BY <2>1, FS_EmptySet
  <2> HIDE DEF Left, May
  <2>4. QED
    BY <2>2, <2>3
<1>6. ASSUME NEW v \in Walk, Left(v)
      PROVE  /\ v.at.sid \notin v.visited /\ v.at.sid \in Sids /\ v.at \in Attachment
             /\ v.visited \subseteq Sids /\ IsFiniteSet(v.visited)
             /\ MayTake(ls, v.at, {}) => May(v)
  <2>1. v.at \in Attachment /\ v.at.sid \in Sids /\ v.visited \subseteq Sids
    BY DEF Walk, Attachment
  <2>2. \A s \in Sids : rank[s] \in Nat
    BY <1>3
  <2>3. v.at.sid \notin v.visited
    BY <1>6, <2>1, <2>2
  <2>4. IsFiniteSet(v.visited)
    BY <2>1, RegistryAssumption, FS_Subset
  <2>5. ASSUME MayTake(ls, v.at, {}) PROVE May(v)
    <3>1. ls[v.at.sid] # None /\ (v.at.pid # 0 => ProcessOf(v.at) = ProcessOf(ls[v.at.sid]))
      BY <2>5 DEF MayTake
    <3>2. rank[ls[v.at.sid].to] < rank[v.at.sid] /\ ls[v.at.sid].to \in Sids
      <4>1. ls[v.at.sid] \in Link
        BY <2>1, <3>1 DEF Links
      <4>2. QED
        BY <1>3, <2>1, <3>1, <4>1 DEF Link
    <3>3. ls[v.at.sid].to \notin v.visited \cup {v.at.sid}
      BY <1>6, <2>1, <2>2, <3>2
    <3>4. QED
      BY <3>1, <3>3 DEF MayTake
  <2>6. QED
    BY <2>1, <2>3, <2>4, <2>5
<1>7. ASSUME NEW n \in Nat, n \in S PROVE n + 1 \in S
  <2> DEFINE m == n + 1
             v == w[n]
             u == Taken(ls, v)
  <2> HIDE DEF Left, May
  <2> SUFFICES ASSUME m <= N
               PROVE  Left(w[m]) /\ (~May(w[m]) \/ Cardinality(w[m].visited) = m)
    OBVIOUS
  <2>1. m \in 1..N /\ m - 1 = n /\ n <= N /\ n \in 0..N
    BY <1>2
  <2>2. v \in Walk /\ Left(v) /\ (~May(v) \/ Cardinality(v.visited) = n)
    BY <1>4, <1>7, <2>1
  <2>3. w[m] = IF ~May(v) THEN v ELSE u
    BY <1>4, <2>1
  <2> HIDE DEF m, v
  <2>4. CASE ~May(v)
    BY <2>2, <2>3, <2>4
  <2>5. CASE May(v)
    <3>1. /\ u.at.sid = ls[v.at.sid].to /\ u.visited = v.visited \cup {v.at.sid}
          /\ v.at.sid \in Sids /\ ls[v.at.sid] \in Link
      <4>1. v \in Walk /\ MayTake(ls, v.at, v.visited)
        BY <2>2, <2>5 DEF May
      <4>2. /\ Taken(ls, v).at = [sid |-> ls[v.at.sid].to, pid |-> ls[v.at.sid].pid,
                                  start |-> ls[v.at.sid].start]
            /\ Taken(ls, v).visited = v.visited \cup {v.at.sid}
            /\ v.at.sid \in Sids /\ ls[v.at.sid] \in Link
        BY <4>1, TakenIsWalk
      <4>3. QED
        BY <4>2
    <3> HIDE DEF u
    <3>2. v.at.sid \notin v.visited /\ IsFiniteSet(v.visited) /\ v.visited \subseteq Sids
      BY <1>6, <2>2
    <3>3. Cardinality(u.visited) = m
      <4>1. Cardinality(v.visited) = n
        BY <2>2, <2>5
      <4>2. Cardinality(v.visited \cup {v.at.sid}) = Cardinality(v.visited) + 1
        BY <3>2, FS_AddElement
      <4>3. QED
        BY <3>1, <4>1, <4>2 DEF m
    <3>4. Left(u)
      <4>1. ls[v.at.sid] # None
        BY <2>5 DEF May, MayTake
      <4>2. rank[u.at.sid] < rank[v.at.sid] /\ u.at.sid \in Sids
        BY <1>3, <3>1, <4>1 DEF Link
      <4>3. \A s \in Sids : rank[s] \in Nat
        BY <1>3
      <4>4. QED
        BY <2>2, <3>1, <3>2, <4>2, <4>3 DEF Left
    <3>5. QED
      BY <2>3, <2>5, <3>3, <3>4
  <2>6. QED
    BY <2>4, <2>5
<1>8. N \in S
  <2> HIDE DEF S
  <2>1. QED
    BY <1>2, <1>5, <1>7, AllNaturals
<1> DEFINE e == w[N]
<1>9. e \in Walk /\ Left(e) /\ (~May(e) \/ Cardinality(e.visited) = N)
  BY <1>2, <1>4, <1>8
<1> HIDE DEF e, May, Left, S
<1>10. /\ e.at.sid \notin e.visited /\ e.at.sid \in Sids
       /\ e.visited \subseteq Sids /\ IsFiniteSet(e.visited)
       /\ MayTake(ls, e.at, {}) => May(e)
  BY <1>6, <1>9
<1>11. ~May(e)
  <2> SUFFICES ASSUME Cardinality(e.visited) = N PROVE FALSE
    BY <1>9
  <2>1. e.visited \subseteq Sids /\ e.visited # Sids
    BY <1>10
  <2>2. Cardinality(e.visited) = Cardinality(Sids)
    BY DEF N
  <2>3. e.visited = Sids
    BY <2>1, <2>2, RegistryAssumption, FS_Subset
  <2>4. QED
    BY <2>1, <2>3
<1>12. QED
  BY <1>1, <1>10, <1>11 DEF Rests, e
-----------------------------------------------------------------------------
(* The invariant. *)

\* The process an attachment names held its session.
Known(a) == a.pid # 0 => <<a.pid, a.start, a.sid>> \in held

\* An attachment the target may have: its process held its session, of which the
\* feed was told.
IsTarget(a) == a \in Attachment /\ Known(a) /\ a.sid \in feed.told

\* A record was written by the process at its pid or one before it, and of the
\* processes that run at most one holds a session.
RegistrySound ==
  /\ \A p \in Recorded : /\ record[p].start <= process[p].start
                         /\ <<p, record[p].start, record[p].sid>> \in held
  /\ \A p, q \in Registered : record[p].sid = record[q].sid => p = q

\* The table is tidy, its rows stay in one process each, and every move was told.
RowsSound ==
  /\ Tidy(rows)
  /\ FollowsStayInOneProcess
  /\ \A i \in 1..Len(rows) : rows[i].to \in feed.told

\* What the target is looked for by was held, and the feed knows the id in force.
TargetSound ==
  /\ Known(file)
  /\ att # None => Known(att) /\ att.sid \in feed.told
  /\ Known(seen)
  /\ MoveIsTold

\* Memory replays the store, from the first look on.
MemorySound == links = IF loaded THEN Replayed(rows) ELSE NoLinks

\* What a pass carries from step to step.
PassSound ==
  /\ pass.at \in {"idle", "again"} => pass.sight = NoSight
  /\ pass.at # "idle" => loaded /\ IsTarget(att)
  /\ pass.at = "record" =>
       /\ pass.sight.from \in Sids /\ pass.sight.sid \in Sids /\ pass.sight.pid \in Pids
       /\ pass.sight.from # pass.sight.sid
       /\ \A s \in {pass.sight.from, pass.sight.sid} :
            <<pass.sight.pid, pass.sight.start, s>> \in held
  /\ pass.at = "observe" /\ pass.sight.kind # "nothing" => pass.sight.sid \in feed.told

FInv ==
  /\ TypeOK
  /\ RegistrySound
  /\ RowsSound
  /\ TargetSound
  /\ MemorySound
  /\ PassSound
-----------------------------------------------------------------------------
(* The registry. *)

IsRegistryStep ==
  /\ RegistryTypeOK'
  /\ RegistrySound'
  /\ held \subseteq held'

\* A process that may write a record writes the id it holds, which no other does.
LEMMA WriteStep ==
  ASSUME RegistryTypeOK, RegistrySound, NEW p \in Pids, NEW s \in Sids,
         process[p].up, Holders(s) = {}, Write(p, s)
  PROVE  IsRegistryStep
<1> DEFINE mine == [start |-> process[p].start, sid |-> s]
<1>1. /\ process' = process /\ process \in [Pids -> [start : Nat, up : BOOLEAN]]
      /\ record' = [record EXCEPT ![p] = mine]
      /\ held' = held \cup {<<p, process[p].start, s>>}
      /\ record \in [Pids -> {NoRecord} \cup [start : Nat, sid : Sids]]
  BY DEF Write, RegistryTypeOK
<1>2. mine.start = process[p].start /\ mine.sid = s /\ process[p].start \in Nat
      /\ mine \in [start : Nat, sid : Sids]
  BY <1>1
<1> HIDE DEF mine
<1>3. /\ record' \in [Pids -> {NoRecord} \cup [start : Nat, sid : Sids]]
      /\ record'[p] = mine /\ \A q \in Pids \ {p} : record'[q] = record[q]
  BY <1>1, <1>2
<1>4. RegistryTypeOK'
  <2>1. writes' \in 0..MaxWrites
    <3>1. writes \in 0..MaxWrites /\ writes < MaxWrites /\ writes' = writes + 1
      BY DEF Write, RegistryTypeOK
    <3>2. MaxWrites \in Nat
      BY RegistryAssumption
    <3>3. QED
      BY <3>1, <3>2
  <2>2. held' \subseteq Pids \X Nat \X Sids
    <3>1. held \subseteq Pids \X Nat \X Sids
      BY DEF RegistryTypeOK
    <3>2. <<p, process[p].start, s>> \in Pids \X Nat \X Sids
      BY <1>2
    <3>3. QED
      BY <1>1, <3>1, <3>2
  <2>3. QED
    BY <1>1, <1>3, <2>1, <2>2 DEF RegistryTypeOK
<1>5. \A q \in Recorded' : q = p \/ q \in Recorded \ {p}
  BY <1>3 DEF Recorded
<1>6. \A q \in Registered' : q = p \/ q \in Registered \ {p}
  BY <1>1, <1>3, <1>5 DEF Registered, Runs, Recorded
<1>7. \A q \in Registered \ {p} : record'[q] = record[q] /\ record[q].sid # s
  BY <1>3 DEF Holders, Registered, Recorded
<1>8. ASSUME NEW q \in Recorded'
      PROVE  /\ record'[q].start <= process'[q].start
             /\ <<q, record'[q].start, record'[q].sid>> \in held'
  <2>1. CASE q = p
    BY <1>1, <1>2, <1>3, <2>1
  <2>2. CASE q \in Recorded \ {p}
    BY <1>1, <1>3, <2>2 DEF RegistrySound, Recorded
  <2>3. QED
    BY <1>5, <2>1, <2>2
<1>9. ASSUME NEW q \in Registered', NEW r \in Registered', record'[q].sid = record'[r].sid
      PROVE  q = r
  <2>1. CASE q = p /\ r = p
    BY <2>1
  <2>2. CASE q = p /\ r \in Registered \ {p}
    BY <1>2, <1>3, <1>7, <1>9, <2>2
  <2>3. CASE q \in Registered \ {p} /\ r = p
    BY <1>2, <1>3, <1>7, <1>9, <2>3
  <2>4. CASE q \in Registered \ {p} /\ r \in Registered \ {p}
    BY <1>7, <1>9, <2>4 DEF RegistrySound
  <2>5. QED
    BY <1>6, <2>1, <2>2, <2>3, <2>4
<1>10. QED
  BY <1>1, <1>4, <1>8, <1>9 DEF IsRegistryStep, RegistrySound

LEMMA RegistrySteps ==
  ASSUME RegistryTypeOK, RegistrySound, RegistryNext
  PROVE  IsRegistryStep
<1>0. /\ process \in [Pids -> [start : Nat, up : BOOLEAN]]
      /\ record \in [Pids -> {NoRecord} \cup [start : Nat, sid : Sids]]
  BY DEF RegistryTypeOK
<1>1. ASSUME NEW p \in Pids, Launch(p) PROVE IsRegistryStep
  <2>1. /\ process' = [process EXCEPT ![p] = [start |-> process[p].start + 1, up |-> TRUE]]
        /\ record' = record /\ held' = held /\ writes' = writes
    BY <1>1 DEF Launch
  <2>2. process[p].start \in Nat
    BY <1>0
  <2>3. /\ process' \in [Pids -> [start : Nat, up : BOOLEAN]]
        /\ process'[p].start = process[p].start + 1
        /\ \A q \in Pids \ {p} : process'[q] = process[q]
    BY <1>0, <2>1, <2>2
  <2>4. \A q \in Recorded : record[q].start \in Nat /\ q \in Pids
    BY <1>0 DEF Recorded
  <2>5. Recorded' = Recorded
    BY <2>1 DEF Recorded
  <2>6. ASSUME NEW q \in Registered' PROVE q \in Registered
    <3>1. q \in Recorded /\ process'[q].up /\ process'[q].start = record[q].start
      BY <2>1, <2>5 DEF Registered, Runs
    <3>2. q # p
      <4> SUFFICES ASSUME q = p PROVE FALSE
        OBVIOUS
      <4>1. record[p].start <= process[p].start /\ record[p].start \in Nat
        BY <2>4, <3>1 DEF RegistrySound
      <4>2. QED
        BY <2>2, <2>3, <3>1, <4>1
    <3>3. QED
      BY <2>3, <2>4, <3>1, <3>2 DEF Registered, Runs
  <2>7. \A q \in Recorded : record[q].start <= process'[q].start
    <3> SUFFICES ASSUME NEW q \in Recorded PROVE record[q].start <= process'[q].start
      OBVIOUS
    <3>1. record[q].start <= process[q].start /\ record[q].start \in Nat /\ q \in Pids
      BY <2>4 DEF RegistrySound
    <3>2. QED
      BY <2>2, <2>3, <3>1
  <2>8. RegistryTypeOK'
    BY <2>1, <2>3 DEF RegistryTypeOK
  <2>9. RegistrySound'
    BY <2>1, <2>5, <2>6, <2>7 DEF RegistrySound
  <2>10. QED
    BY <2>1, <2>8, <2>9 DEF IsRegistryStep
<1>2. ASSUME NEW p \in Pids, NEW s \in Sids, Register(p, s) \/ Clear(p, s) PROVE IsRegistryStep
  <2>1. process[p].up /\ Holders(s) = {} /\ Write(p, s)
    BY <1>2 DEF Register, Clear, Registered, Runs
  <2>2. QED
    BY <2>1, WriteStep
<1>3. ASSUME NEW p \in Pids, Withdraw(p) PROVE IsRegistryStep
  <2>1. /\ record' = [record EXCEPT ![p] = NoRecord]
        /\ process' = process /\ held' = held /\ writes' = writes
    BY <1>3 DEF Withdraw
  <2>2. /\ record' \in [Pids -> {NoRecord} \cup [start : Nat, sid : Sids]]
        /\ record'[p] = NoRecord /\ \A q \in Pids \ {p} : record'[q] = record[q]
    BY <1>0, <2>1
  <2>3. \A q \in Recorded' : q \in Recorded /\ record'[q] = record[q]
    BY <2>2 DEF Recorded
  <2>4. \A q \in Registered' : q \in Registered /\ record'[q] = record[q]
    BY <2>1, <2>3 DEF Registered, Runs
  <2>5. RegistryTypeOK'
    BY <2>1, <2>2 DEF RegistryTypeOK
  <2>6. RegistrySound'
    BY <2>1, <2>3, <2>4 DEF RegistrySound
  <2>7. QED
    BY <2>1, <2>5, <2>6 DEF IsRegistryStep
<1>4. ASSUME NEW p \in Pids, End(p) PROVE IsRegistryStep
  <2>1. /\ process' = [process EXCEPT ![p].up = FALSE]
        /\ record' = record /\ held' = held /\ writes' = writes
    BY <1>4 DEF End
  <2>2. /\ process' \in [Pids -> [start : Nat, up : BOOLEAN]]
        /\ \A q \in Pids : process'[q].start = process[q].start
        /\ \A q \in Pids : process'[q].up => process[q].up
    BY <1>0, <2>1
  <2>3. Recorded' = Recorded /\ \A q \in Recorded : q \in Pids
    BY <2>1 DEF Recorded
  <2>4. \A q \in Registered' : q \in Registered
    BY <2>1, <2>2, <2>3 DEF Registered, Runs
  <2>5. RegistryTypeOK'
    BY <2>1, <2>2 DEF RegistryTypeOK
  <2>6. RegistrySound'
    BY <2>1, <2>2, <2>3, <2>4 DEF RegistrySound
  <2>7. QED
    BY <2>1, <2>5, <2>6 DEF IsRegistryStep
<1>5. QED
  BY <1>1, <1>2, <1>3, <1>4 DEF RegistryNext

-----------------------------------------------------------------------------
(* What a look sees. *)

\* Of a session sought by `a` a look tells: who holds the id, or who went on from
\* it in the process that held it, or that this process is gone or ps failed.  It
\* is surely seen if it is registered, and nothing of it failed.
IsSightOf(sight, a, sure, psFails) ==
  /\ sight \in Sight
  /\ sight.kind = "live" =>
       /\ sight.sid \in Sids /\ sight.pid \in Pids
       /\ <<sight.pid, sight.start, sight.sid>> \in held
  /\ sight.from = None /\ sight.kind # "nothing" => sight.sid = a.sid
  /\ sight.from # None =>
       /\ sight.kind = "live" /\ sight.from = a.sid /\ sight.sid # a.sid
       /\ <<sight.pid, sight.start, a.sid>> \in held
  /\ sight.kind = "exited" =>
       /\ <<a.pid, a.start, a.sid>> \in held
       /\ Runs(a.pid, a.start) => psFails
       /\ Holders(a.sid) = {}
  /\ sure => sight.kind = "live" /\ sight.from = None

\* The id is registered live, and no record of a dead process comes before.
Surely(s, hidden, deaf) == There(s, hidden, deaf) /\ ~Shadowed(s)

LEMMA SightedIs ==
  ASSUME FInv, NEW a \in Attachment, NEW hidden \in SUBSET Recorded,
         NEW deaf \in SUBSET Registered, NEW p \in Recorded \ hidden, NEW from \in Sids \cup {None}
  PROVE  LET sight == Sighted(Listing(hidden, deaf), p, from)
         IN  /\ sight \in Sight
             /\ sight.kind \in {"live", "stale"}
             /\ sight.kind = "live" <=> p \notin deaf /\ Runs(p, record[p].start)
             /\ sight.sid = record[p].sid /\ sight.pid = p /\ sight.start = record[p].start
             /\ sight.from = from
             /\ sight.sid \in Sids /\ sight.pid \in Pids
             /\ <<sight.pid, sight.start, sight.sid>> \in held
<1> DEFINE sessions == Listing(hidden, deaf)
           sight == Sighted(sessions, p, from)
<1>1. p \in Pids /\ record[p] \in [start : Nat, sid : Sids]
  BY DEF FInv, TypeOK, RegistryTypeOK, Recorded
<1>2. record[p].start \in Nat /\ record[p].sid \in Sids
      /\ <<p, record[p].start, record[p].sid>> \in held
  BY <1>1 DEF FInv, RegistrySound
<1>3. /\ sessions[p].live = (p \notin deaf /\ Runs(p, record[p].start))
      /\ sessions[p].sid = record[p].sid /\ sessions[p].start = record[p].start
  BY DEF Listing, SameProcess
<1> HIDE DEF sessions
<1>4. /\ sight.kind = IF sessions[p].live THEN "live" ELSE "stale"
      /\ sight.sid = sessions[p].sid /\ sight.pid = p /\ sight.start = sessions[p].start
      /\ sight.from = from
      /\ sight = [kind |-> sight.kind, sid |-> sight.sid, pid |-> sight.pid,
                  start |-> sight.start, from |-> sight.from]
  BY DEF Sighted
<1> HIDE DEF sight
<1>5. sight.kind \in {"live", "stale"} /\ (sight.kind = "live" <=> sessions[p].live)
  BY <1>4
<1>6. sight \in Sight
  BY <1>1, <1>2, <1>3, <1>4, <1>5 DEF Sight
<1>7. QED
  BY <1>1, <1>2, <1>3, <1>4, <1>5, <1>6 DEF sight, sessions
\* A look tells the truth of the session it is made for.
LEMMA ObserveIs ==
  ASSUME FInv, NEW a \in Attachment, Known(a),
         NEW hidden \in SUBSET Recorded, NEW deaf \in SUBSET Registered,
         NEW psFails \in BOOLEAN
  PROVE  IsSightOf(Observe(a, Listing(hidden, deaf), hidden # {}, psFails), a,
                   Surely(a.sid, hidden, deaf), psFails)
<1> DEFINE sessions == Listing(hidden, deaf)
           found == Under(sessions, a.sid)
           gone == Successors(a, sessions)
           sight == Observe(a, sessions, hidden # {}, psFails)
<1>1. /\ a.sid \in Sids /\ a.pid \in {0} \cup Pids /\ a.start \in Nat
      /\ Pids \subseteq Nat \ {0} /\ None \notin Sids
  BY RegistryAssumption, FollowsAssumption DEF Attachment
<1>2. /\ DOMAIN sessions = Recorded \ hidden /\ Recorded \subseteq Pids
      /\ \A p \in Recorded \ hidden :
           /\ sessions[p].sid = record[p].sid /\ sessions[p].start = record[p].start
           /\ sessions[p].live = (p \notin deaf /\ Runs(p, record[p].start))
  BY DEF Listing, SameProcess, Recorded
<1>3. Registered \subseteq Recorded /\ \A p \in Recorded : Runs(p, record[p].start) <=> p \in Registered
  BY DEF Registered
<1> HIDE DEF sessions
<1>4. /\ found = {p \in Recorded \ hidden : record[p].sid = a.sid}
      /\ gone \subseteq Recorded \ hidden
  BY <1>2 DEF Under, Successors
<1>5. There(a.sid, hidden, deaf) <=> \E q \in Registered : record[q].sid = a.sid /\ q \notin hidden \cup deaf
  BY DEF There, Holders
<1>6. CASE found # {}
  <2> DEFINE m == Min(found)
  <2>1. m \in found
    <3>1. found \in SUBSET Nat
      BY <1>1, <1>2, <1>4
    <3> HIDE DEF found
    <3>2. QED
      BY <1>6, <3>1, MinIsLeast
  <2> HIDE DEF m
  <2>2. m \in Recorded \ hidden /\ record[m].sid = a.sid
    BY <1>4, <2>1
  <2>3. sight = Sighted(sessions, m, None)
    BY <1>6 DEF Observe, m
  <2> HIDE DEF sight
  <2>4. /\ sight \in Sight
        /\ sight.kind \in {"live", "stale"}
        /\ sight.kind = "live" <=> m \notin deaf /\ Runs(m, record[m].start)
        /\ sight.sid = record[m].sid /\ sight.pid = m /\ sight.start = record[m].start
        /\ sight.from = None
        /\ sight.sid \in Sids /\ sight.pid \in Pids
        /\ <<sight.pid, sight.start, sight.sid>> \in held
    <3>1. LET v == Sighted(sessions, m, None)
          IN  /\ v \in Sight
              /\ v.kind \in {"live", "stale"}
              /\ v.kind = "live" <=> m \notin deaf /\ Runs(m, record[m].start)
              /\ v.sid = record[m].sid /\ v.pid = m /\ v.start = record[m].start
              /\ v.from = None
              /\ v.sid \in Sids /\ v.pid \in Pids
              /\ <<v.pid, v.start, v.sid>> \in held
      BY <2>2, SightedIs DEF sessions
    <3>2. QED
      BY <2>3, <3>1
  <2>5. There(a.sid, hidden, deaf) /\ ~Shadowed(a.sid) => sight.kind = "live"
    <3> SUFFICES ASSUME There(a.sid, hidden, deaf), ~Shadowed(a.sid) PROVE sight.kind = "live"
      OBVIOUS
    <3>1. PICK q \in Registered : record[q].sid = a.sid /\ q \notin hidden \cup deaf
      BY <1>5
    <3>2. m \in Registered
      BY <2>2 DEF Shadowed
    <3>3. m = q
      BY <2>2, <3>1, <3>2 DEF FInv, RegistrySound
    <3>4. QED
      BY <1>3, <2>2, <2>4, <3>1, <3>2, <3>3
  <2>6. QED
    BY <2>2, <2>4, <2>5 DEF IsSightOf, Surely, sight, sessions
<1>7. ASSUME found = {} PROVE ~There(a.sid, hidden, deaf)
  BY <1>3, <1>4, <1>5, <1>7
<1>8. CASE found = {} /\ gone # {}
  <2> DEFINE m == CHOOSE p \in gone : TRUE
  <2>1. m \in gone
    BY <1>8
  <2> HIDE DEF m
  <2>2. /\ m \in Recorded \ hidden
        /\ [pid |-> m, start |-> sessions[m].start] = Identity(a)
        /\ sessions[m].sid # a.sid /\ sessions[m].live
    BY <1>4, <2>1 DEF Successors
  <2>3. sight = Sighted(sessions, m, a.sid)
    BY <1>8 DEF Observe, m
  <2> HIDE DEF sight
  <2>4. /\ sight \in Sight
        /\ sight.kind = "live" <=> m \notin deaf /\ Runs(m, record[m].start)
        /\ sight.sid = record[m].sid /\ sight.pid = m /\ sight.start = record[m].start
        /\ sight.from = a.sid
        /\ sight.sid \in Sids /\ sight.pid \in Pids
        /\ <<sight.pid, sight.start, sight.sid>> \in held
    <3>1. LET v == Sighted(sessions, m, a.sid)
          IN  /\ v \in Sight
              /\ v.kind \in {"live", "stale"}
              /\ v.kind = "live" <=> m \notin deaf /\ Runs(m, record[m].start)
              /\ v.sid = record[m].sid /\ v.pid = m /\ v.start = record[m].start
              /\ v.from = a.sid
              /\ v.sid \in Sids /\ v.pid \in Pids
              /\ <<v.pid, v.start, v.sid>> \in held
      <4>1. a.sid \in Sids \cup {None}
        BY <1>1
      <4>2. QED
        BY <2>2, <4>1, SightedIs DEF sessions
    <3>2. QED
      BY <2>3, <3>1
  <2>5. sight.kind = "live" /\ sight.sid # a.sid
    BY <1>2, <2>2, <2>4
  <2>6. <<m, record[m].start, a.sid>> \in held
    <3>1. m # 0 /\ sessions[m].start = record[m].start
      BY <1>1, <1>2, <2>2
    <3>2. CASE a.pid # 0
      <4>1. a.pid = m /\ a.start = record[m].start
        BY <2>2, <3>1, <3>2 DEF Identity, ProcessOf
      <4>2. QED
        BY <3>2, <4>1 DEF Known
    <3>3. CASE a.pid = 0 /\ seen.sid = a.sid
      <4>1. seen.pid = m /\ seen.start = record[m].start
        BY <2>2, <3>1, <3>3 DEF Identity, ProcessOf
      <4>2. Known(seen)
        BY DEF FInv, TargetSound
      <4>3. QED
        BY <3>1, <3>3, <4>1, <4>2 DEF Known
    <3>4. CASE a.pid = 0 /\ seen.sid # a.sid
      BY <2>2, <3>1, <3>4 DEF Identity, NoProcess
    <3>5. QED
      BY <3>2, <3>3, <3>4
  <2>7. QED
    BY <1>1, <1>7, <1>8, <2>4, <2>5, <2>6 DEF IsSightOf, Surely, sight, sessions
<1>9. CASE found = {} /\ gone = {}
  <2>1. NoSight \in Sight /\ NoSight.kind = "nothing" /\ NoSight.from = None
    BY DEF NoSight, Sight
  <2>2. CASE sight = NoSight
    <3> HIDE DEF sight, sessions, found, gone
    <3>1. IsSightOf(sight, a, Surely(a.sid, hidden, deaf), psFails)
      BY <1>7, <1>9, <2>1, <2>2 DEF IsSightOf, Surely
    <3>2. QED
      BY <3>1 DEF sight, sessions
  <2>3. CASE sight # NoSight
    <3>1. sight = Absent(a, psFails) /\ hidden = {}
      BY <1>9, <2>3 DEF Observe
    <3>2. /\ sight = [kind |-> "exited", sid |-> a.sid, pid |-> 0, start |-> a.start, from |-> None]
          /\ a.pid # 0 /\ (Runs(a.pid, a.start) => psFails)
      BY <2>3, <3>1 DEF Absent, SameProcess
    <3>3. sight \in Sight
      BY <1>1, <3>2 DEF Sight
    <3>4. <<a.pid, a.start, a.sid>> \in held
      BY <3>2 DEF Known
    <3>5. Holders(a.sid) = {}
      BY <1>3, <1>4, <1>9, <3>1 DEF Holders
    <3> HIDE DEF sight, sessions, found, gone
    <3>6. IsSightOf(sight, a, Surely(a.sid, hidden, deaf), psFails)
      BY <1>7, <1>9, <3>2, <3>3, <3>4, <3>5 DEF IsSightOf, Surely
    <3>7. QED
      BY <3>6 DEF sight, sessions
  <2>4. QED
    BY <2>2, <2>3
<1>10. QED
  BY <1>6, <1>8, <1>9

\* What is given of a look tells the truth too, though no more of a session whose
\* hooks could not be read.
LEMMA GivenIs ==
  ASSUME NEW raw, NEW a, NEW sure \in BOOLEAN, NEW psFails \in BOOLEAN, NEW hookErr \in BOOLEAN,
         IsSightOf(raw, a, sure, psFails)
  PROVE  IsSightOf(Given(raw, hookErr), a, ~hookErr /\ sure, psFails)
<1>1. CASE hookErr /\ raw.kind = "live"
  <2>1. Given(raw, hookErr) = NoSight
    BY <1>1 DEF Given
  <2>2. NoSight \in Sight /\ NoSight.kind = "nothing" /\ NoSight.from = None
    BY DEF NoSight, Sight
  <2> HIDE DEF NoSight
  <2>3. QED
    BY <1>1, <2>1, <2>2 DEF IsSightOf
<1>2. CASE ~(hookErr /\ raw.kind = "live")
  <2>1. Given(raw, hookErr) = raw
    BY <1>2 DEF Given
  <2>2. QED
    BY <1>2, <2>1 DEF IsSightOf
<1>3. QED
  BY <1>1, <1>2
-----------------------------------------------------------------------------
(* The steps of the invariant. *)

\* What birddog does changes nothing of the registry.
IsQuiet ==
  /\ RegistryTypeOK' /\ RegistrySound'
  /\ held' = held /\ process' = process /\ record' = record

LEMMA WorldStays ==
  ASSUME RegistryTypeOK, RegistrySound, UNCHANGED world
  PROVE  IsQuiet
<1>1. process' = process /\ record' = record /\ held' = held /\ writes' = writes
  BY DEF world
<1>2. RegistryTypeOK'
  BY <1>1 DEF RegistryTypeOK
<1>3. Recorded' = Recorded /\ Registered' = Registered
  BY <1>1 DEF Recorded, Registered, Runs
<1>4. RegistrySound'
  BY <1>1, <1>3 DEF RegistrySound
<1>5. QED
  BY <1>1, <1>2, <1>4 DEF IsQuiet

\* The types of what is birddog's.
Typed ==
  /\ file \in Attachment /\ att \in Attachment \cup {None}
  /\ seen \in [sid : Sids \cup {None}, pid : {0} \cup Pids, start : Nat]
  /\ links \in Links
  /\ loaded \in BOOLEAN
  /\ rows \in Seq(Row)
  /\ feed \in [sid : Sids \cup {None}, told : SUBSET Sids]
  /\ pass \in [at : {"idle", "again", "record", "observe"}, sight : Sight,
               there : BOOLEAN, guessed : BOOLEAN]
  /\ spent.edits \in 0..MaxEdits /\ spent.faults \in 0..MaxFaults
  /\ spent.restarts \in 0..MaxRestarts
  /\ home \in [pid : {0} \cup Pids, start : Nat]

LEMMA TypesAre == TypeOK <=> RegistryTypeOK /\ Typed
  BY DEF TypeOK, Typed, Links

LEMMA IdleIs ==
  /\ Idle \in [at : {"idle", "again", "record", "observe"}, sight : Sight,
               there : BOOLEAN, guessed : BOOLEAN]
  /\ Idle.at = "idle" /\ Idle.sight = NoSight /\ NoSight.kind = "nothing" /\ NoSight \in Sight
<1>1. NoSight \in Sight /\ NoSight.kind = "nothing"
  BY DEF NoSight, Sight
<1>2. QED
  BY <1>1 DEF Idle

LEMMA UnseenIs ==
  /\ Unseen \in [sid : Sids \cup {None}, pid : {0} \cup Pids, start : Nat]
  /\ Unseen.pid = 0
  /\ NoProcess \in [pid : {0} \cup Pids, start : Nat]
  BY DEF Unseen, NoProcess

LEMMA NoLinksIs == NoLinks \in Links /\ Ranked(NoLinks)
<1>1. NoLinks \in Links
  BY DEF NoLinks, Links
<1> DEFINE rank == [s \in Sids |-> 0]
<1>2. rank \in [Sids -> Nat] /\ \A s \in Sids : NoLinks[s] = None
  BY DEF NoLinks
<1>3. QED
  BY <1>1, <1>2 DEF Ranked

LEMMA FInvInit == Init => FInv
<1> SUFFICES ASSUME Init PROVE FInv
  OBVIOUS
<1>1. /\ process = [p \in Pids |-> [start |-> 0, up |-> FALSE]]
      /\ record = [p \in Pids |-> NoRecord] /\ held = {} /\ writes = 0
      /\ att = file /\ seen = Unseen /\ links = NoLinks /\ loaded = FALSE
      /\ rows = <<>> /\ feed = [sid |-> None, told |-> {file.sid}]
      /\ pass = Idle /\ spent = [edits |-> 0, faults |-> 0, restarts |-> 0]
      /\ home = NoProcess
  BY DEF Init, RegistryInit
<1>2. PICK s \in Sids : file = IdOnly(s)
  BY DEF Init
<1>3. file \in Attachment /\ file.pid = 0 /\ file.sid \in Sids
  BY <1>2 DEF IdOnly, Attachment
<1>4. RegistryTypeOK
  BY <1>1, RegistryAssumption DEF RegistryTypeOK
<1>5. Recorded = {} /\ Registered = {}
  BY <1>1 DEF Recorded, Registered
<1>6. RegistrySound
  BY <1>5 DEF RegistrySound
<1>7. /\ spent.edits \in 0..MaxEdits /\ spent.faults \in 0..MaxFaults
      /\ spent.restarts \in 0..MaxRestarts
  BY <1>1, FollowsAssumption
<1>8. feed \in [sid : Sids \cup {None}, told : SUBSET Sids] /\ feed.sid = None /\ feed.told = {file.sid}
  BY <1>1, <1>3
<1>9. rows \in Seq(Row) /\ Len(rows) = 0 /\ DOMAIN rows = {}
  BY <1>1
<1>10. Typed
  BY <1>1, <1>3, <1>7, <1>8, <1>9, IdleIs, UnseenIs, NoLinksIs DEF Typed
<1>11. RowsSound
  BY <1>9 DEF RowsSound, Tidy, FollowsStayInOneProcess
<1>12. TargetSound
  BY <1>1, <1>3, <1>8, UnseenIs DEF TargetSound, Known, MoveIsTold
<1>13. MemorySound
  BY <1>1 DEF MemorySound
<1>14. PassSound
  BY <1>1, IdleIs DEF PassSound
<1>15. QED
  BY <1>4, <1>6, <1>10, <1>11, <1>12, <1>13, <1>14, TypesAre DEF FInv

\* A change of the registry takes nothing back of what was held.
LEMMA RegistryKeeps ==
  ASSUME FInv, RegistryNext, Others
  PROVE  FInv'
<1>1. IsRegistryStep
  BY RegistrySteps DEF FInv, TypeOK
<1>2. /\ file' = file /\ att' = att /\ seen' = seen /\ links' = links /\ loaded' = loaded
      /\ rows' = rows /\ feed' = feed /\ pass' = pass /\ spent' = spent /\ home' = home
  BY DEF Others
<1>3. TypeOK'
  BY <1>1, <1>2 DEF FInv, TypeOK, IsRegistryStep
<1>4. RowsSound'
  BY <1>1, <1>2 DEF FInv, RowsSound, IsRegistryStep, FollowsStayInOneProcess
<1>5. TargetSound'
  BY <1>1, <1>2 DEF FInv, TargetSound, IsRegistryStep, Known, MoveIsTold
<1>6. MemorySound'
  BY <1>2 DEF FInv, MemorySound
<1>7. PassSound'
  BY <1>1, <1>2 DEF FInv, PassSound, IsRegistryStep, IsTarget, Known
<1>8. QED
  BY <1>1, <1>3, <1>4, <1>5, <1>6, <1>7 DEF FInv, IsRegistryStep
\* A look replays the follows if no look has yet.
LEMMA ReplayIs ==
  ASSUME FInv
  PROVE  /\ (IF loaded THEN links ELSE Replayed(rows)) = Replayed(rows)
         /\ Replayed(rows) \in Links
         /\ IsTable(Replayed(rows), rows, Len(rows))
         /\ Ranked(Replayed(rows))
<1>1. rows \in Seq(Row) /\ Tidy(rows) /\ (loaded => links = Replayed(rows))
  BY DEF FInv, TypeOK, RowsSound, MemorySound
<1>2. QED
  BY <1>1, ReplayedIs

\* Recorded follows lead from such an attachment to such an attachment.
LEMMA ResolvedIsTarget ==
  ASSUME FInv, NEW a, IsTarget(a)
  PROVE  IsTarget(Resolved(Replayed(rows), a))
<1> DEFINE ls == Replayed(rows)
           b == Resolved(ls, a)
<1>1. ls \in Links /\ IsTable(ls, rows, Len(rows))
  BY ReplayIs
<1> HIDE DEF ls
<1>2. Reached(ls, a, b)
  BY <1>1, ResolvedIsReached DEF IsTarget
<1> HIDE DEF b
<1>3. CASE b = a
  BY <1>3 DEF b, ls
<1>4. CASE b # a
  <2>1. PICK s \in Sids : ls[s] # None /\ b = [sid |-> ls[s].to, pid |-> ls[s].pid, start |-> ls[s].start]
    BY <1>2, <1>4 DEF Reached
  <2>2. PICK i \in 1..Len(rows) : rows[i].from = s
    BY <1>1, <2>1 DEF IsTable
  <2>3. ls[s] = LinkOf(rows[i])
    BY <1>1, <2>2 DEF IsTable
  <2>4. b.sid = rows[i].to /\ b.pid = rows[i].pid /\ b.start = rows[i].start
    BY <2>1, <2>3 DEF LinkOf
  <2>5. i \in DOMAIN rows
    <3>1. rows \in Seq(Row)
      BY DEF FInv, TypeOK
    <3>2. QED
      BY <2>2, <3>1
  <2>6. <<rows[i].pid, rows[i].start, rows[i].to>> \in held /\ rows[i].to \in feed.told
    BY <2>2, <2>5 DEF FInv, RowsSound, FollowsStayInOneProcess
  <2>7. b \in Attachment
    BY <1>2 DEF Reached
  <2>8. QED
    BY <2>4, <2>6, <2>7 DEF IsTarget, Known, b, ls
<1>5. QED
  BY <1>3, <1>4

\* What is remembered of a look was held.
LEMMA RememberIs ==
  ASSUME FInv, NEW sight, NEW a, NEW sure, NEW psFails, IsSightOf(sight, a, sure, psFails),
         seen' = Remember(sight), held' = held
  PROVE  /\ seen' \in [sid : Sids \cup {None}, pid : {0} \cup Pids, start : Nat]
         /\ Known(seen)'
<1>1. CASE sight.kind = "live"
  <2>1. /\ sight.sid \in Sids /\ sight.pid \in Pids /\ sight.start \in Nat
        /\ <<sight.pid, sight.start, sight.sid>> \in held
    BY <1>1 DEF IsSightOf, Sight
  <2>2. seen' = [sid |-> sight.sid, pid |-> sight.pid, start |-> sight.start]
    BY <1>1 DEF Remember
  <2>3. QED
    BY <2>1, <2>2 DEF Known
<1>2. CASE sight.kind # "live"
  <2>1. seen' = seen
    BY <1>2 DEF Remember
  <2>2. seen \in [sid : Sids \cup {None}, pid : {0} \cup Pids, start : Nat] /\ Known(seen)
    BY DEF FInv, TypeOK, TargetSound
  <2>3. QED
    BY <2>1, <2>2 DEF Known
<1>3. QED
  BY <1>1, <1>2

LEMMA SettleIs ==
  ASSUME FInv, NEW a, NEW sight \in Sight, Settle(a, sight)
  PROVE  home' \in [pid : {0} \cup Pids, start : Nat]
<1>1. home \in [pid : {0} \cup Pids, start : Nat]
  BY DEF FInv, TypeOK
<1>2. ProcessOf(sight) \in [pid : {0} \cup Pids, start : Nat]
  BY DEF Sight, ProcessOf
<1>3. QED
  BY <1>1, <1>2 DEF Settle

\* What a pass carries on from a look at the session of `a`.
IsDecided(sight, there, a, psFails) ==
  /\ pass' \in [at : {"idle", "again", "record", "observe"}, sight : Sight,
                there : BOOLEAN, guessed : BOOLEAN]
  /\ pass'.at \in {"record", "observe"}
  /\ pass'.sight.kind = sight.kind /\ pass'.sight.sid = sight.sid /\ pass'.there = there
  /\ pass'.guessed = (psFails /\ sight.kind = "exited")
  /\ pass'.at = "record" =>
       /\ pass'.sight.from \in Sids /\ pass'.sight.sid \in Sids /\ pass'.sight.pid \in Pids
       /\ pass'.sight.from # pass'.sight.sid
       /\ \A s \in {pass'.sight.from, pass'.sight.sid} :
            <<pass'.sight.pid, pass'.sight.start, s>> \in held
  /\ pass'.at = "observe" /\ pass'.sight.kind # "nothing" => pass'.sight.sid = a.sid

LEMMA DecideIs ==
  ASSUME FInv, NEW sight, NEW a \in Attachment, NEW sure, NEW psFails \in BOOLEAN,
         IsSightOf(sight, a, sure, psFails), NEW there \in BOOLEAN, Decide(sight, there, psFails)
  PROVE  IsDecided(sight, there, a, psFails)
<1> DEFINE guessed == psFails /\ sight.kind = "exited"
<1>1. sight \in Sight /\ a.sid \in Sids /\ guessed \in BOOLEAN
  BY DEF IsSightOf, Attachment
<1>2. CASE sight.from = None
  <2> DEFINE plain == [sight EXCEPT !.pid = 0, !.start = 0]
  <2>1. /\ plain \in Sight /\ plain.kind = sight.kind /\ plain.sid = sight.sid
    BY <1>1 DEF Sight
  <2>2. sight.kind # "nothing" => sight.sid = a.sid
    BY <1>2 DEF IsSightOf
  <2>3. pass' = [at |-> "observe", sight |-> plain, there |-> there, guessed |-> guessed]
    BY <1>2 DEF Decide
  <2> HIDE DEF plain, guessed
  <2>4. /\ pass' \in [at : {"idle", "again", "record", "observe"}, sight : Sight,
                      there : BOOLEAN, guessed : BOOLEAN]
        /\ pass'.at = "observe" /\ pass'.sight = plain
        /\ pass'.there = there /\ pass'.guessed = guessed
    BY <1>1, <2>1, <2>3
  <2>5. QED
    BY <2>1, <2>2, <2>4 DEF IsDecided, guessed
<1>3. CASE sight.from # None
  <2>1. /\ sight.from = a.sid /\ sight.sid # a.sid /\ sight.sid \in Sids /\ sight.pid \in Pids
        /\ \A s \in {sight.from, sight.sid} : <<sight.pid, sight.start, s>> \in held
    BY <1>3 DEF IsSightOf
  <2>2. pass' = [at |-> "record", sight |-> sight, there |-> there, guessed |-> guessed]
    BY <1>3 DEF Decide
  <2> HIDE DEF guessed
  <2>3. /\ pass' \in [at : {"idle", "again", "record", "observe"}, sight : Sight,
                      there : BOOLEAN, guessed : BOOLEAN]
        /\ pass'.at = "record" /\ pass'.sight = sight
        /\ pass'.there = there /\ pass'.guessed = guessed
    BY <1>1, <2>2
  <2>4. QED
    BY <1>1, <2>1, <2>3 DEF IsDecided, guessed
<1>4. QED
  BY <1>2, <1>3

\* What a look may spend.
IsSpent ==
  /\ spent'.edits = spent.edits /\ spent'.faults \in 0..MaxFaults
  /\ spent'.restarts = spent.restarts

LEMMA DropIs ==
  ASSUME FInv, NEW raw, NEW hookErr, Drop(raw, hookErr)
  PROVE  IsSpent
<1>1. spent.faults \in 0..MaxFaults /\ MaxFaults \in Nat
  BY FollowsAssumption DEF FInv, TypeOK
<1>2. CASE Drops(att, raw, hookErr)
  <2>1. spent.faults < MaxFaults /\ spent' = [spent EXCEPT !.faults = @ + 1]
    BY <1>2 DEF Drop
  <2>2. spent'.faults = spent.faults + 1 \/ spent'.faults = spent.faults
    BY <2>1
  <2>3. QED
    BY <1>1, <2>1, <2>2 DEF IsSpent
<1>3. CASE ~Drops(att, raw, hookErr)
  BY <1>1, <1>3 DEF Drop, IsSpent
<1>4. QED
  BY <1>2, <1>3

\* A look is of the session in force, or finds that it was followed elsewhere.
IsLook ==
  /\ IsQuiet
  /\ file' = file /\ rows' = rows /\ feed' = feed /\ IsSpent
  /\ links' = Replayed(rows) /\ loaded' = TRUE
  /\ IsTarget(att) /\ IsTarget(att')
  /\ seen' \in [sid : Sids \cup {None}, pid : {0} \cup Pids, start : Nat] /\ Known(seen)'
  /\ home' \in [pid : {0} \cup Pids, start : Nat]
  /\ \/ /\ pass'.at = "again" /\ pass'.sight = NoSight
        /\ pass'.there => Shadowed(att.sid)
        /\ pass' \in [at : {"idle", "again", "record", "observe"}, sight : Sight,
                      there : BOOLEAN, guessed : BOOLEAN]
     \/ /\ att' = att
        /\ \E sight, there, sure, psFails :
             /\ IsSightOf(sight, att, sure, psFails)
             /\ IsDecided(sight, there, att, psFails)
             /\ there /\ ~Shadowed(att.sid) => sure

LEMMA TargetsAre ==
  ASSUME FInv, att # None
  PROVE  IsTarget(att)
  BY DEF FInv, TypeOK, TargetSound, IsTarget

LEMMA LookIs ==
  ASSUME FInv, NEW hidden \in SUBSET Recorded, NEW deaf \in SUBSET Registered,
         NEW hookErr \in BOOLEAN, NEW psFails \in BOOLEAN, Look(hidden, deaf, hookErr, psFails)
  PROVE  IsLook
<1> DEFINE ls == IF loaded THEN links ELSE Replayed(rows)
           raw == Observe(att, Listing(hidden, deaf), hidden # {}, psFails)
           sight == Given(raw, hookErr)
           there == ~hookErr /\ There(att.sid, hidden, deaf)
           sure == Surely(att.sid, hidden, deaf)
           stays == Resolved(ls, att) = att \/ (sight.kind = "live" /\ sight.from = None)
<1>1. /\ pass.at = "idle" /\ att # None
      /\ links' = ls /\ loaded' = TRUE
      /\ seen' = Remember(raw)
      /\ Settle(att, raw)
      /\ Drop(raw, hookErr)
      /\ att' = IF stays THEN att ELSE Resolved(ls, att)
      /\ IF stays THEN Decide(sight, there, psFails)
         ELSE pass' = [Idle EXCEPT !.at = "again", !.there = there]
      /\ UNCHANGED <<world, file, rows, feed>>
  BY DEF Look
<1>2. IsTarget(att)
  BY <1>1, TargetsAre
<1>3. IsSightOf(raw, att, sure, psFails)
  BY <1>2, ObserveIs DEF IsTarget
<1>4. there \in BOOLEAN /\ sure \in BOOLEAN /\ (there /\ ~Shadowed(att.sid) => ~hookErr /\ sure)
  BY DEF There, Surely, Shadowed
<1>5. ls = Replayed(rows)
  BY ReplayIs
<1>6. IsTarget(Resolved(Replayed(rows), att))
  BY <1>2, ResolvedIsTarget
<1> HIDE DEF ls, raw, there, sure
<1>7. IsSightOf(sight, att, ~hookErr /\ sure, psFails)
  BY <1>3, <1>4, GivenIs
<1> HIDE DEF sight, stays
<1>8. IsTarget(att')
  BY <1>1, <1>2, <1>5, <1>6
<1>9. IsQuiet
  BY <1>1, WorldStays DEF FInv, TypeOK
<1>10. seen' \in [sid : Sids \cup {None}, pid : {0} \cup Pids, start : Nat] /\ Known(seen)'
  BY <1>1, <1>3, <1>9, RememberIs DEF IsQuiet
<1>11. home' \in [pid : {0} \cup Pids, start : Nat]
  <2>1. raw \in Sight
    BY <1>3 DEF IsSightOf
  <2>2. QED
    BY <1>1, <2>1, SettleIs
<1>12. IsSpent
  BY <1>1, DropIs
<1>13. \/ /\ pass'.at = "again" /\ pass'.sight = NoSight
          /\ pass'.there => Shadowed(att.sid)
          /\ pass' \in [at : {"idle", "again", "record", "observe"}, sight : Sight,
                        there : BOOLEAN, guessed : BOOLEAN]
       \/ /\ att' = att
          /\ IsDecided(sight, there, att, psFails)
  <2>1. CASE stays
    <3>1. att' = att /\ Decide(sight, there, psFails)
      BY <1>1, <2>1
    <3>2. IsDecided(sight, there, att, psFails)
      BY <1>2, <1>4, <1>7, <3>1, DecideIs DEF IsTarget
    <3>3. QED
      BY <3>1, <3>2
  <2>2. CASE ~stays
    <3>1. pass' = [Idle EXCEPT !.at = "again", !.there = there]
      BY <1>1, <2>2
    <3>2. pass' = [at |-> "again", sight |-> NoSight, there |-> there, guessed |-> FALSE]
      BY <3>1 DEF Idle
    <3>3. there => Shadowed(att.sid)
      <4>1. ~hookErr /\ sure => sight.kind = "live" /\ sight.from = None
        BY <1>7 DEF IsSightOf
      <4>2. ~(sight.kind = "live" /\ sight.from = None)
        BY <2>2 DEF stays
      <4>3. QED
        BY <1>4, <4>1, <4>2
    <3>4. QED
      BY <1>4, <3>2, <3>3, IdleIs
  <2>3. QED
    BY <2>1, <2>2
<1>14. (~hookErr /\ sure) \in BOOLEAN
  OBVIOUS
<1>15. \/ /\ pass'.at = "again" /\ pass'.sight = NoSight
          /\ pass'.there => Shadowed(att.sid)
          /\ pass' \in [at : {"idle", "again", "record", "observe"}, sight : Sight,
                        there : BOOLEAN, guessed : BOOLEAN]
       \/ /\ att' = att
          /\ \E v, t, certain, fails :
               /\ IsSightOf(v, att, certain, fails)
               /\ IsDecided(v, t, att, fails)
               /\ t /\ ~Shadowed(att.sid) => certain
  BY <1>4, <1>7, <1>13, Zenon
<1>16. QED
  BY <1>1, <1>2, <1>5, <1>8, <1>9, <1>10, <1>11, <1>12, <1>15 DEF IsLook

LEMMA LookAgainIs ==
  ASSUME FInv, NEW hidden \in SUBSET Recorded, NEW deaf \in SUBSET Registered,
         NEW hookErr \in BOOLEAN, NEW psFails \in BOOLEAN, LookAgain(hidden, deaf, hookErr, psFails)
  PROVE  IsLook
<1> DEFINE raw == Observe(att, Listing(hidden, deaf), hidden # {}, psFails)
           sight == Given(raw, hookErr)
           there == ~hookErr /\ There(att.sid, hidden, deaf)
           sure == Surely(att.sid, hidden, deaf)
<1>1. /\ pass.at = "again"
      /\ seen' = Remember(raw) /\ Settle(att, raw) /\ Drop(raw, hookErr)
      /\ Decide(sight, there, psFails)
      /\ UNCHANGED <<world, file, att, links, loaded, rows, feed>>
  BY DEF LookAgain
<1>2. loaded /\ IsTarget(att) /\ links = Replayed(rows)
  BY <1>1 DEF FInv, PassSound, MemorySound
<1>3. IsTarget(att) /\ IsTarget(att')
  BY <1>1, <1>2
<1>4. IsSightOf(raw, att, sure, psFails)
  BY <1>3, ObserveIs DEF IsTarget
<1>5. there \in BOOLEAN /\ sure \in BOOLEAN /\ (there /\ ~Shadowed(att.sid) => ~hookErr /\ sure)
  BY DEF There, Surely, Shadowed
<1> HIDE DEF raw, there, sure
<1>6. IsSightOf(sight, att, ~hookErr /\ sure, psFails)
  BY <1>4, <1>5, GivenIs
<1> HIDE DEF sight
<1>7. IsQuiet
  BY <1>1, WorldStays DEF FInv, TypeOK
<1>8. seen' \in [sid : Sids \cup {None}, pid : {0} \cup Pids, start : Nat] /\ Known(seen)'
  BY <1>1, <1>4, <1>7, RememberIs DEF IsQuiet
<1>9. home' \in [pid : {0} \cup Pids, start : Nat]
  <2>1. raw \in Sight
    BY <1>4 DEF IsSightOf
  <2>2. QED
    BY <1>1, <2>1, SettleIs
<1>10. IsSpent
  BY <1>1, DropIs
<1>11. IsDecided(sight, there, att, psFails)
  BY <1>1, <1>3, <1>5, <1>6, DecideIs DEF IsTarget
<1>12. loaded' = TRUE
  <2>1. loaded \in BOOLEAN
    BY DEF FInv, TypeOK
  <2>2. QED
    BY <1>1, <1>2, <2>1
<1>13. \E v, t, certain, fails :
         /\ IsSightOf(v, att, certain, fails)
         /\ IsDecided(v, t, att, fails)
         /\ t /\ ~Shadowed(att.sid) => certain
  BY <1>5, <1>6, <1>11, Zenon
<1>14. QED
  BY <1>1, <1>2, <1>3, <1>7, <1>8, <1>9, <1>10, <1>12, <1>13 DEF IsLook

LEMMA LooksKeep ==
  ASSUME FInv, IsLook
  PROVE  FInv'
<1>1. /\ RegistryTypeOK' /\ RegistrySound' /\ held' = held
      /\ file' = file /\ rows' = rows /\ feed' = feed /\ IsSpent
      /\ links' = Replayed(rows) /\ loaded' = TRUE
      /\ IsTarget(att) /\ IsTarget(att')
      /\ seen' \in [sid : Sids \cup {None}, pid : {0} \cup Pids, start : Nat] /\ Known(seen)'
      /\ home' \in [pid : {0} \cup Pids, start : Nat]
  BY DEF IsLook, IsQuiet
<1>2. \/ /\ pass'.at = "again" /\ pass'.sight = NoSight
         /\ pass' \in [at : {"idle", "again", "record", "observe"}, sight : Sight,
                       there : BOOLEAN, guessed : BOOLEAN]
      \/ \E sight, there, psFails : IsDecided(sight, there, att, psFails)
  BY DEF IsLook
<1>3. pass' \in [at : {"idle", "again", "record", "observe"}, sight : Sight,
                 there : BOOLEAN, guessed : BOOLEAN]
  BY <1>2 DEF IsDecided
<1>4. IsTarget(att)'
  BY <1>1 DEF IsTarget, Known
<1>5. Typed'
  <2>1. att' \in Attachment
    BY <1>1 DEF IsTarget
  <2>2. links' \in Links
    BY <1>1, ReplayIs
  <2>3. Typed
    BY TypesAre DEF FInv
  <2>4. QED
    BY <1>1, <1>3, <2>1, <2>2, <2>3 DEF Typed, IsSpent
<1>6. TypeOK'
  BY <1>1, <1>5, TypesAre DEF TypeOK, Typed, Links
<1>7. RowsSound'
  BY <1>1 DEF FInv, RowsSound, FollowsStayInOneProcess
<1>8. TargetSound'
  BY <1>1, <1>4 DEF FInv, TargetSound, Known, MoveIsTold, IsTarget
<1>9. MemorySound'
  BY <1>1 DEF MemorySound
<1>10. PassSound'
  <2>1. CASE pass'.at = "again" /\ pass'.sight = NoSight
    BY <1>1, <1>4, <2>1 DEF PassSound
  <2>2. CASE \E sight, there, psFails : IsDecided(sight, there, att, psFails)
    <3>1. PICK sight, there, psFails : IsDecided(sight, there, att, psFails)
      BY <2>2
    <3>2. att.sid \in feed.told
      BY <1>1 DEF IsTarget
    <3>3. QED
      BY <1>1, <1>4, <3>1, <3>2 DEF PassSound, IsDecided
  <2>3. QED
    BY <1>2, <2>1, <2>2
<1>11. QED
  BY <1>1, <1>6, <1>7, <1>8, <1>9, <1>10 DEF FInv

\* A follow adds a row, and memory stays what a restarted daemon would replay.
LEMMA FollowKeeps ==
  ASSUME FInv, Follow
  PROVE  FInv'
<1> DEFINE f == [from |-> pass.sight.from, to |-> pass.sight.sid,
                 pid |-> pass.sight.pid, start |-> pass.sight.start]
           to == [sid |-> pass.sight.sid, pid |-> pass.sight.pid, start |-> pass.sight.start]
<1>1. /\ pass.at = "record"
      /\ rows' = Recording(f) /\ links' = Linked(links, f) /\ att' = to
      /\ feed' = [feed EXCEPT !.told = @ \cup {pass.sight.sid}]
      /\ pass' = [pass EXCEPT !.at = "observe", !.there = FALSE,
                              !.sight.pid = 0, !.sight.start = 0, !.sight.from = None]
      /\ home' = ProcessOf(pass.sight)
      /\ UNCHANGED <<world, file, seen, loaded, spent>>
  BY DEF Follow
<1>2. /\ pass.sight.from \in Sids /\ pass.sight.sid \in Sids /\ pass.sight.pid \in Pids
      /\ pass.sight.from # pass.sight.sid
      /\ \A s \in {pass.sight.from, pass.sight.sid} : <<pass.sight.pid, pass.sight.start, s>> \in held
      /\ loaded /\ links = Replayed(rows)
  BY <1>1 DEF FInv, PassSound, MemorySound
<1>3. pass \in [at : {"idle", "again", "record", "observe"}, sight : Sight,
                there : BOOLEAN, guessed : BOOLEAN]
      /\ pass.sight \in Sight /\ pass.sight.start \in Nat
  BY DEF FInv, TypeOK, Sight
<1>4. /\ f \in Row /\ f.from = pass.sight.from /\ f.to = pass.sight.sid
      /\ f.pid = pass.sight.pid /\ f.start = pass.sight.start /\ f.from # f.to
  BY <1>2, <1>3 DEF Row
<1>5. to \in Attachment /\ to.sid = f.to /\ to.pid = f.pid /\ to.start = f.start
  BY <1>2, <1>3 DEF Attachment
<1> HIDE DEF f, to
<1>6. rows \in Seq(Row) /\ Tidy(rows) /\ links \in Links /\ Typed /\ loaded \in BOOLEAN
  BY TypesAre DEF FInv, RowsSound, Typed
<1>7. IsRecording(rows', f) /\ Replayed(rows') = links'
  BY <1>1, <1>2, <1>4, <1>6, RecordingIs, FollowReplays
<1>8. links' \in Links
  BY <1>1, <1>4, <1>6, LinkedIs
<1>9. RegistryTypeOK' /\ RegistrySound' /\ held' = held
  BY <1>1, WorldStays DEF FInv, TypeOK, IsQuiet
<1>10. feed' \in [sid : Sids \cup {None}, told : SUBSET Sids] /\ feed'.sid = feed.sid
       /\ feed'.told = feed.told \cup {f.to}
  BY <1>1, <1>2, <1>4, <1>6 DEF Typed
<1>11. /\ pass' \in [at : {"idle", "again", "record", "observe"}, sight : Sight,
                     there : BOOLEAN, guessed : BOOLEAN]
       /\ pass'.at = "observe" /\ pass'.sight.sid = f.to
  <2>1. [pass.sight EXCEPT !.pid = 0, !.start = 0, !.from = None] \in Sight
    BY <1>3 DEF Sight
  <2>2. pass' = [at |-> "observe", there |-> FALSE, guessed |-> pass.guessed,
                 sight |-> [pass.sight EXCEPT !.pid = 0, !.start = 0, !.from = None]]
    BY <1>1, <1>3 DEF Sight
  <2>3. [pass.sight EXCEPT !.pid = 0, !.start = 0, !.from = None].sid = f.to
    BY <1>3, <1>4 DEF Sight
  <2>4. QED
    BY <1>3, <2>1, <2>2, <2>3
<1>12. home' \in [pid : {0} \cup Pids, start : Nat]
  BY <1>1, <1>2, <1>3 DEF ProcessOf
<1>13. Typed'
  BY <1>1, <1>5, <1>6, <1>7, <1>8, <1>10, <1>11, <1>12 DEF Typed, IsRecording
<1>14. TypeOK'
  BY <1>9, <1>13 DEF TypeOK, Typed, Links
<1>15. IsTarget(att)'
  BY <1>1, <1>2, <1>4, <1>5, <1>9, <1>10 DEF IsTarget, Known
<1>16. RowsSound'
  <2>1. ASSUME NEW i \in 1..Len(rows')
        PROVE  /\ {<<rows'[i].pid, rows'[i].start, s>> : s \in {rows'[i].from, rows'[i].to}} \subseteq held
               /\ rows'[i].to \in feed'.told
    <3>1. CASE rows'[i] = f
      BY <1>2, <1>4, <1>10, <3>1
    <3>2. CASE rows'[i] # f
      <4>1. PICK m \in 1..Len(rows) : rows'[i] = rows[m]
        BY <1>7, <3>2 DEF IsRecording
      <4>2. m \in DOMAIN rows
        BY <1>6
      <4>3. QED
        BY <1>10, <4>1, <4>2 DEF FInv, RowsSound, FollowsStayInOneProcess
    <3>3. QED
      BY <3>1, <3>2
  <2>2. rows' \in Seq(Row) /\ Tidy(rows)' /\ DOMAIN rows' = 1..Len(rows')
    BY <1>7 DEF IsRecording, Tidy
  <2>3. QED
    BY <1>9, <2>1, <2>2 DEF RowsSound, FollowsStayInOneProcess
<1>17. TargetSound'
  BY <1>1, <1>9, <1>10, <1>15 DEF FInv, TargetSound, Known, MoveIsTold, IsTarget
<1>18. MemorySound'
  BY <1>1, <1>2, <1>7 DEF MemorySound
<1>19. PassSound'
  BY <1>1, <1>2, <1>10, <1>11, <1>15 DEF PassSound
<1>20. QED
  BY <1>9, <1>14, <1>16, <1>17, <1>18, <1>19 DEF FInv
\* A failed write, and the observation: the pass is over.
LEMMA PassEnds ==
  ASSUME FInv, FollowFails \/ Record
  PROVE  FInv'
<1>1. /\ UNCHANGED <<world, file, att, seen, links, loaded, rows, home>>
      /\ pass' = Idle
      /\ spent'.edits = spent.edits /\ spent'.restarts = spent.restarts
      /\ spent'.faults \in 0..MaxFaults
      /\ feed' \in [sid : Sids \cup {None}, told : SUBSET Sids] /\ feed'.told = feed.told
      /\ feed'.sid = feed.sid \/ feed'.sid \in feed.told
  <2>1. /\ spent.faults \in 0..MaxFaults /\ MaxFaults \in Nat
        /\ feed \in [sid : Sids \cup {None}, told : SUBSET Sids]
    BY FollowsAssumption DEF FInv, TypeOK
  <2>2. CASE FollowFails
    <3>1. spent.faults < MaxFaults /\ spent' = [spent EXCEPT !.faults = @ + 1]
          /\ UNCHANGED <<world, file, att, seen, links, loaded, rows, feed, home>> /\ pass' = Idle
      BY <2>2 DEF FollowFails
    <3>2. spent'.faults = spent.faults + 1 \/ spent'.faults = spent.faults
      BY <3>1
    <3>3. QED
      BY <2>1, <3>1, <3>2
  <2>3. CASE Record
    <3>1. /\ pass.at = "observe" /\ pass' = Idle
          /\ feed' = IF pass.sight.kind = "nothing" THEN feed ELSE [feed EXCEPT !.sid = pass.sight.sid]
          /\ UNCHANGED <<world, file, att, seen, links, loaded, rows, spent, home>>
      BY <2>3 DEF Record
    <3>2. pass.sight.kind # "nothing" => pass.sight.sid \in feed.told
      BY <3>1 DEF FInv, PassSound
    <3>3. QED
      BY <2>1, <3>1, <3>2
  <2>4. QED
    BY <2>2, <2>3
<1>2. RegistryTypeOK' /\ RegistrySound' /\ held' = held
  BY <1>1, WorldStays DEF FInv, TypeOK, IsQuiet
<1>3. Typed'
  <2>1. Typed
    BY TypesAre DEF FInv
  <2>2. QED
    BY <1>1, <2>1, IdleIs DEF Typed
<1>4. TypeOK'
  BY <1>2, <1>3 DEF TypeOK, Typed, Links
<1>5. RowsSound'
  BY <1>1, <1>2 DEF FInv, RowsSound, FollowsStayInOneProcess
<1>6. TargetSound'
  BY <1>1, <1>2 DEF FInv, TargetSound, Known, MoveIsTold
<1>7. MemorySound'
  BY <1>1 DEF FInv, MemorySound
<1>8. PassSound'
  BY <1>1, IdleIs DEF PassSound
<1>9. QED
  BY <1>2, <1>4, <1>5, <1>6, <1>7, <1>8 DEF FInv

\* What an operator may write was held.
LEMMA AttachmentsAre ==
  ASSUME RegistryTypeOK, NEW a \in Attachments
  PROVE  a \in Attachment /\ Known(a)
<1>1. CASE a \in {IdOnly(s) : s \in Sids}
  BY <1>1 DEF IdOnly, Attachment, Known
<1>2. CASE a \in {[sid |-> h[3], pid |-> h[1], start |-> h[2]] : h \in held}
  <2>1. PICK h \in held : a = [sid |-> h[3], pid |-> h[1], start |-> h[2]]
    BY <1>2
  <2>2. held \subseteq Pids \X Nat \X Sids
    BY DEF RegistryTypeOK
  <2>3. h \in Pids \X Nat \X Sids
    BY <2>2
  <2>4. h[1] \in Pids /\ h[2] \in Nat /\ h[3] \in Sids /\ h = <<h[1], h[2], h[3]>>
    BY <2>3
  <2>5. QED
    BY <2>1, <2>4 DEF Attachment, Known
<1>3. QED
  BY <1>1, <1>2 DEF Attachments

LEMMA EditKeeps ==
  ASSUME FInv, NEW a \in Attachments, EditFile(a)
  PROVE  FInv'
<1>1. /\ spent.edits < MaxEdits /\ spent' = [spent EXCEPT !.edits = @ + 1] /\ file' = a
      /\ UNCHANGED <<world, memory, rows, feed>>
  BY DEF EditFile
<1>2. /\ att' = att /\ seen' = seen /\ links' = links /\ loaded' = loaded /\ pass' = pass
      /\ home' = home /\ rows' = rows /\ feed' = feed
  BY <1>1 DEF memory
<1>3. a \in Attachment /\ Known(a)
  BY AttachmentsAre DEF FInv, TypeOK
<1>4. RegistryTypeOK' /\ RegistrySound' /\ held' = held
  BY <1>1, WorldStays DEF FInv, TypeOK, IsQuiet
<1>5. Typed'
  <2>1. Typed /\ MaxEdits \in Nat
    BY TypesAre, FollowsAssumption DEF FInv
  <2>2. (spent'.edits = spent.edits + 1 \/ spent'.edits = spent.edits)
        /\ spent'.faults = spent.faults /\ spent'.restarts = spent.restarts
    BY <1>1
  <2>3. spent'.edits \in 0..MaxEdits
    <3>1. spent.edits \in 0..MaxEdits
      BY <2>1 DEF Typed
    <3>2. QED
      BY <1>1, <2>1, <2>2, <3>1
  <2>4. QED
    BY <1>1, <1>2, <1>3, <2>1, <2>2, <2>3 DEF Typed
<1>6. TypeOK'
  BY <1>4, <1>5 DEF TypeOK, Typed, Links
<1>7. RowsSound'
  BY <1>2, <1>4 DEF FInv, RowsSound, FollowsStayInOneProcess
<1>8. TargetSound'
  BY <1>1, <1>2, <1>3, <1>4 DEF FInv, TargetSound, Known, MoveIsTold
<1>9. MemorySound'
  BY <1>2 DEF FInv, MemorySound
<1>10. PassSound'
  BY <1>2, <1>4 DEF FInv, PassSound, IsTarget, Known
<1>11. QED
  BY <1>4, <1>6, <1>7, <1>8, <1>9, <1>10 DEF FInv

LEMMA RequestsKeep ==
  ASSUME FInv, Sync \/ Unwatch
  PROVE  FInv'
<1>1. PICK a \in {file, None} : Retarget(a)
  BY DEF Sync, Unwatch
<1>2. /\ pass.at = "idle" /\ att' = a /\ seen' = Unseen /\ home' = NoProcess
      /\ feed' = [feed EXCEPT !.told = IF a = None THEN @ ELSE @ \cup {a.sid}]
      /\ UNCHANGED <<world, file, links, loaded, rows, pass, spent>>
  BY <1>1 DEF Retarget
<1>3. Typed /\ file \in Attachment /\ Known(file) /\ file.sid \in Sids
  BY TypesAre DEF FInv, TargetSound, Typed, Attachment
<1>4. /\ feed' \in [sid : Sids \cup {None}, told : SUBSET Sids] /\ feed'.sid = feed.sid
      /\ feed.told \subseteq feed'.told /\ (a # None => a.sid \in feed'.told)
  <2>1. feed \in [sid : Sids \cup {None}, told : SUBSET Sids]
    BY <1>3 DEF Typed
  <2>2. CASE a = None
    <3>1. feed' = feed
      BY <1>2, <2>1, <2>2
    <3>2. QED
      BY <2>1, <2>2, <3>1
  <2>3. CASE a # None
    <3>1. feed' = [feed EXCEPT !.told = @ \cup {a.sid}]
      BY <1>2, <2>3
    <3>2. QED
      BY <1>1, <1>3, <2>1, <2>3, <3>1
  <2>4. QED
    BY <2>2, <2>3
<1>5. RegistryTypeOK' /\ RegistrySound' /\ held' = held
  BY <1>2, WorldStays DEF FInv, TypeOK, IsQuiet
<1>6. Typed'
  BY <1>1, <1>2, <1>3, <1>4, UnseenIs DEF Typed
<1>7. TypeOK'
  BY <1>5, <1>6 DEF TypeOK, Typed, Links
<1>8. RowsSound'
  BY <1>2, <1>4, <1>5 DEF FInv, RowsSound, FollowsStayInOneProcess
<1>9. TargetSound'
  BY <1>1, <1>2, <1>3, <1>4, <1>5, UnseenIs DEF FInv, TargetSound, Known, MoveIsTold
<1>10. MemorySound'
  BY <1>2 DEF FInv, MemorySound
<1>11. PassSound'
  BY <1>2 DEF FInv, PassSound
<1>12. QED
  BY <1>5, <1>7, <1>8, <1>9, <1>10, <1>11 DEF FInv

LEMMA RestartKeeps ==
  ASSUME FInv, Restart
  PROVE  FInv'
<1>1. /\ spent.restarts < MaxRestarts /\ spent' = [spent EXCEPT !.restarts = @ + 1]
      /\ att' = file /\ seen' = Unseen /\ links' = NoLinks /\ loaded' = FALSE
      /\ pass' = Idle /\ home' = NoProcess
      /\ feed' = [feed EXCEPT !.told = @ \cup {file.sid}]
      /\ UNCHANGED <<world, file, rows>>
  BY DEF Restart
<1>2. Typed /\ MaxRestarts \in Nat /\ file \in Attachment /\ Known(file) /\ file.sid \in Sids
  BY TypesAre, FollowsAssumption DEF FInv, TargetSound, Typed, Attachment
<1>3. /\ feed' \in [sid : Sids \cup {None}, told : SUBSET Sids] /\ feed'.sid = feed.sid
      /\ feed'.told = feed.told \cup {file.sid}
  BY <1>1, <1>2 DEF Typed
<1>4. /\ spent'.restarts \in 0..MaxRestarts
      /\ spent'.faults = spent.faults /\ spent'.edits = spent.edits
  <2>1. (spent'.restarts = spent.restarts + 1 \/ spent'.restarts = spent.restarts)
        /\ spent'.faults = spent.faults /\ spent'.edits = spent.edits
    BY <1>1
  <2>2. spent.restarts \in 0..MaxRestarts
    BY <1>2 DEF Typed
  <2>3. QED
    BY <1>1, <1>2, <2>1, <2>2
<1>5. RegistryTypeOK' /\ RegistrySound' /\ held' = held
  BY <1>1, WorldStays DEF FInv, TypeOK, IsQuiet
<1>6. Typed'
  BY <1>1, <1>2, <1>3, <1>4, UnseenIs, IdleIs, NoLinksIs DEF Typed
<1>7. TypeOK'
  BY <1>5, <1>6 DEF TypeOK, Typed, Links
<1>8. RowsSound'
  BY <1>1, <1>3, <1>5 DEF FInv, RowsSound, FollowsStayInOneProcess
<1>9. TargetSound'
  BY <1>1, <1>2, <1>3, <1>5, UnseenIs DEF FInv, TargetSound, Known, MoveIsTold
<1>10. MemorySound'
  BY <1>1 DEF MemorySound
<1>11. PassSound'
  BY <1>1, IdleIs DEF PassSound
<1>12. QED
  BY <1>5, <1>7, <1>8, <1>9, <1>10, <1>11 DEF FInv

\* A step of the loop that looks.
Glance ==
  \E hidden \in SUBSET Recorded, deaf \in SUBSET Registered, hookErr, psFails \in BOOLEAN :
    Look(hidden, deaf, hookErr, psFails) \/ LookAgain(hidden, deaf, hookErr, psFails)

LEMMA GlanceIs ==
  ASSUME FInv, Glance
  PROVE  IsLook
  BY LookIs, LookAgainIs DEF Glance

LEMMA FInvNext == FInv /\ [Next]_vars => FInv'
<1> SUFFICES ASSUME FInv, [Next]_vars PROVE FInv'
  OBVIOUS
<1>1. CASE RegistryNext /\ Others
  BY <1>1, RegistryKeeps
<1>2. CASE Glance
  BY <1>2, GlanceIs, LooksKeep
<1>3. CASE Follow
  BY <1>3, FollowKeeps
<1>4. CASE Record \/ FollowFails
  BY <1>4, PassEnds
<1>5. CASE Sync \/ Unwatch
  BY <1>5, RequestsKeep
<1>6. CASE \E a \in Attachments : EditFile(a)
  BY <1>6, EditKeeps
<1>7. CASE Restart
  BY <1>7, RestartKeeps
<1>8. CASE UNCHANGED vars
  <2>1. /\ UNCHANGED world
        /\ file' = file /\ att' = att /\ seen' = seen /\ links' = links /\ loaded' = loaded
        /\ rows' = rows /\ feed' = feed /\ pass' = pass /\ spent' = spent /\ home' = home
    BY <1>8 DEF vars
  <2>2. RegistryTypeOK' /\ RegistrySound' /\ held' = held
    BY <2>1, WorldStays DEF FInv, TypeOK, IsQuiet
  <2>3. TypeOK'
    BY <2>1, <2>2 DEF FInv, TypeOK
  <2>4. RowsSound' /\ MemorySound'
    BY <2>1, <2>2 DEF FInv, RowsSound, FollowsStayInOneProcess, MemorySound
  <2>5. TargetSound'
    BY <2>1, <2>2 DEF FInv, TargetSound, Known, MoveIsTold
  <2>6. PassSound'
    BY <2>1, <2>2 DEF FInv, PassSound, IsTarget, Known
  <2>7. QED
    BY <2>2, <2>3, <2>4, <2>5, <2>6 DEF FInv
<1>9. QED
  BY <1>1, <1>2, <1>3, <1>4, <1>5, <1>6, <1>7, <1>8 DEF Next, Pass, Request, Glance

LEMMA FInvHolds == Spec => []FInv
  BY FInvInit, FInvNext, PTL DEF Spec
-----------------------------------------------------------------------------
(* What follows from it. *)

\* A target is never followed onto a stranger: the process of every recorded follow
\* held both of its ids, however pids are used again, requests point the target
\* elsewhere, writes fail and the daemon is restarted (claude.go successor).
THEOREM FollowsStay == Spec => []FollowsStayInOneProcess
<1>1. FInv => FollowsStayInOneProcess
  BY DEF FInv, RowsSound
<1>2. QED
  BY <1>1, FInvHolds, PTL

\* Every variable has its type; what the daemon remembers of follows is what a
\* restarted one would replay; no follows lead in a circle; every move was told
\* before the session moved to was observed (rememberFollow, ResolveFollows).
THEOREM FollowsAreSound == Spec => []FollowsInv
<1>1. ASSUME FInv PROVE FollowsInv
  <2>1. TypeOK /\ MoveIsTold
    BY <1>1 DEF FInv, TargetSound
  <2>2. MemoryIsReplay
    BY <1>1 DEF FInv, MemorySound, MemoryIsReplay
  <2>3. links \in Links /\ Ranked(links)
    BY <1>1, ReplayIs, NoLinksIs DEF FInv, MemorySound
  <2>4. ASSUME NEW s \in Sids
        PROVE  LET a == Resolved(links, IdOnly(s)) IN  Resolved(links, a) = a
    <3> DEFINE a == Resolved(links, IdOnly(s))
    <3>1. IdOnly(s) \in Attachment
      BY DEF IdOnly, Attachment
    <3>2. a \in Attachment
      BY <2>3, <3>1, ResolvedIsReached DEF Reached
    <3>3. Rests(links, a)
      BY <2>3, <3>1, ResolvedRests
    <3> HIDE DEF a
    <3>4. Resolved(links, a) = a
      BY <2>3, <3>2, <3>3, RestingStays
    <3>5. QED
      BY <3>4 DEF a
  <2>5. QED
    BY <2>1, <2>2, <2>4 DEF FollowsInv, ResolvedOnce
<1>2. QED
  BY <1>1, FInvHolds, PTL

\* No step but a look leaves a sighting behind that was not there.
LEMMA OthersSeeNothing ==
  ASSUME FInv, [Next]_vars, ~Glance, pass.at \in {"idle", "again"}
  PROVE  pass'.sight.kind = "nothing" /\ pass'.at \in {"idle", pass.at}
<1>1. pass.sight = NoSight
  BY DEF FInv, PassSound
<1>2. pass' = pass \/ pass' = Idle
  BY DEF Next, Others, Pass, Glance, Follow, Record, FollowFails, Request, Sync, Unwatch,
         Retarget, EditFile, memory, Restart, vars
<1>3. QED
  BY <1>1, <1>2, IdleIs

\* A look that concludes an exit is of the session in force, and of its process.
LEMMA GlanceSees ==
  ASSUME FInv, Glance, pass'.sight.kind = "exited"
  PROVE  /\ att' = att
         /\ <<att.pid, att.start, att.sid>> \in held
         /\ Holders(att.sid) = {}
         /\ Runs(att.pid, att.start) => pass'.guessed
<1>1. IsLook
  BY GlanceIs
<1>2. pass'.sight # NoSight
  BY IdleIs
<1>3. PICK sight, there, sure, psFails : /\ att' = att /\ IsSightOf(sight, att, sure, psFails)
                                         /\ IsDecided(sight, there, att, psFails)
  BY <1>1, <1>2 DEF IsLook
<1>4. sight.kind = "exited" /\ (psFails => pass'.guessed)
  BY <1>3 DEF IsDecided
<1>5. QED
  BY <1>3, <1>4 DEF IsSightOf

\* An exit is only concluded of a process that held the session, left the session to
\* no other, and is gone unless ps failed when asked for it, however many records
\* could not be read (claude.go absent, proc_darwin.go SameProcess).
THEOREM ExitsAreVerified == Spec => ExitVerified
<1> DEFINE Step == pass'.sight.kind = "exited" /\ pass.at \in {"idle", "again"} =>
                     /\ <<att'.pid, att'.start, att'.sid>> \in held
                     /\ Holders(att'.sid) = {}
                     /\ Runs(att'.pid, att'.start) => pass'.guessed
<1>1. ASSUME FInv, [Next]_vars PROVE [Step]_vars
  <2> SUFFICES ASSUME pass'.sight.kind = "exited", pass.at \in {"idle", "again"}
               PROVE  /\ <<att'.pid, att'.start, att'.sid>> \in held
                      /\ Holders(att'.sid) = {}
                      /\ Runs(att'.pid, att'.start) => pass'.guessed
    OBVIOUS
  <2>1. Glance
    BY <1>1, OthersSeeNothing
  <2>2. /\ att' = att
        /\ <<att.pid, att.start, att.sid>> \in held
        /\ Holders(att.sid) = {}
        /\ Runs(att.pid, att.start) => pass'.guessed
    BY <1>1, <2>1, GlanceSees
  <2>3. QED
    BY <2>2
<1>2. QED
  BY <1>1, FInvHolds, PTL DEF Spec, ExitVerified

\* A conversation resumed under the id in force is watched there, if its record and
\* its hooks can be read and no record of a dead process hides it (sightResolved).
THEOREM ResumedIsWatched == Spec => ResumedIsWatchedUnlessShadowed
<1> DEFINE Step == Looks /\ pass'.there /\ ~Shadowed(att.sid) =>
                     pass'.sight.kind = "live" /\ pass'.sight.sid = att.sid
<1>1. ASSUME FInv, [Next]_vars PROVE [Step]_vars
  <2> SUFFICES ASSUME Looks, pass'.there, ~Shadowed(att.sid)
               PROVE  pass'.sight.kind = "live" /\ pass'.sight.sid = att.sid
    OBVIOUS
  <2>1. Glance
    BY <1>1, OthersSeeNothing DEF Looks
  <2>2. IsLook
    BY <1>1, <2>1, GlanceIs
  <2>3. PICK sight, there, sure, psFails : /\ IsSightOf(sight, att, sure, psFails)
                                           /\ IsDecided(sight, there, att, psFails)
                                           /\ there /\ ~Shadowed(att.sid) => sure
    BY <2>2 DEF IsLook
  <2>4. sure
    BY <2>3 DEF IsDecided
  <2>5. sight.kind = "live" /\ sight.sid = att.sid
    BY <2>3, <2>4 DEF IsSightOf
  <2>6. QED
    BY <2>3, <2>5 DEF IsDecided
<1>2. QED
  BY <1>1, FInvHolds, PTL DEF Spec, ResumedIsWatchedUnlessShadowed
=============================================================================
