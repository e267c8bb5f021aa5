----------------------------- MODULE Hooks_proofs -----------------------------
(***************************************************************************)
(* Proofs about Hooks, for any calls, agents, tools and mishaps; and,      *)
(* after them, about Settings, which puts the hooks where they are run     *)
(* from.                                                                   *)
(*                                                                         *)
(* Handlers run side by side with no lock, so nothing can be said of the   *)
(* order of their operations.  What can be said is which markers a handler *)
(* may still write or remove, given what its call has come to: the         *)
(* invariant ties every marker that is there, or is not, to an operation   *)
(* some handler has still to do.                                           *)
(***************************************************************************)
EXTENDS Hooks, Settings, Extrema

\* What a handler has still to do, in no order.
Ahead(h) == ToSet(todo[h])

\* A handler that will have removed the marker when it is through.
Removes(h, m) == {Delete(m), Clear(m[1]), ClearAll} \cap Ahead(h) # {}

\* A call may write the marker it asks or runs under, and only its own.
MayTouch(c, m) ==
  \/ m = Tool(c) /\ phase[c] \in {"running", "gone"}
  \/ m = Perm(RequestKey(c)) /\ phase[c] \in {"asked", "gone"}

\* It may remove what its request was recorded under once that is answered, and
\* the marker of its tool once that has finished.
MayDelete(c, m) ==
  \/ m = Tool(c) /\ phase[c] \in {"over"}
  \/ m \in {Perm(c), Perm(ToolOf[c])} /\ phase[c] \in {"running", "over", "denied", "gone"}

\* A handler does no more than its event calls for, and writes last.
HandlersSound ==
  /\ \A h \in Handlers : \A x \in Ahead(h) :
       /\ x.op = "touch" => h \in Calls /\ MayTouch(h, x.on)
       /\ x.op = "delete" /\ h \in Calls => MayDelete(h, x.on)
       /\ x.op = "clear" => h \in Agents
       /\ x.op \in {"clear all", "rmdir"} => h = Session
  /\ \A h \in Handlers : \A i \in 1..Len(todo[h]) : todo[h][i].op = "touch" => i = Len(todo[h])
  /\ \A c \in Calls : todo[c] # <<>> => phase[c] # "new"

\* Every marker is of a call that wrote it.
MarkersSound ==
  /\ IsFiniteSet(files) /\ IsFiniteSet(died)
  /\ \A m \in files :
       \/ \E c \in Calls : m = Tool(c) /\ phase[c] \in {"running", "over", "gone"}
       \/ \E c \in Calls : m = Perm(RequestKey(c)) /\ phase[c] # "new"

\* While a call is under way the session runs, its end is not being handled, and
\* unless the call is mixed up with it no turn's end is either.
UnderwaySound ==
  /\ up => Idle(Session)
  /\ \A c \in Underway : /\ up
                         /\ c \notin mixed => \A a \in Agents : Idle(a)
                         /\ todo[c] # <<>> => exists \/ Head(todo[c]) = Mkdir

\* The marker of what is under way is there, or the handler is about to write it.
WorkSound ==
  \A c \in Underway \ (died \cup mixed) :
    /\ phase[c] = "asked" /\ (c \in Nameless => Namesakes(c) = {}) =>
         Perm(RequestKey(c)) \in files \/ Touch(Perm(RequestKey(c))) \in Ahead(c)
    /\ phase[c] = "running" => Tool(c) \in files \/ Touch(Tool(c)) \in Ahead(c)

\* The markers that are to go once the call is answered, finished or left behind.
Stale(c) ==
  {Perm(c)} \cup (IF Namesakes(c) = {} THEN {Perm(ToolOf[c])} ELSE {})
            \cup (IF phase[c] # "running" THEN {Tool(c)} ELSE {})

\* They are gone, or the handler is about to remove them.
AnswersSound ==
  \A c \in Calls \ died :
    phase[c] \in {"running", "over", "denied"} /\ (phase[c] = "denied" => c \notin Nameless) =>
      \A m \in Stale(c) \cap files : Removes(c, m)

\* So they are after the end of the turn, for calls nothing more will come of.
TurnsSound ==
  \A c \in closed :
    /\ c \in Done /\ Idle(c)
    /\ AgentOf[c] \notin died => \A m \in Stale(c) \cap files : Removes(AgentOf[c], m)

HInv ==
  /\ TypeOK
  /\ HandlersSound
  /\ MarkersSound
  /\ UnderwaySound
  /\ WorkSound
  /\ AnswersSound
  /\ TurnsSound
-----------------------------------------------------------------------------
(* Lists of operations. *)

\* The names a directory lists are those in it, each once.
IsListing(s, S) == s \in Seq(S) /\ ToSet(s) = S

LEMMA ListingIs ==
  ASSUME NEW S, IsFiniteSet(S)
  PROVE  IsListing(SetToSeq(S), S)
<1> DEFINE n == Cardinality(S)
           f == SetToSeq(S)
<1>1. n \in Nat /\ ExistsBijection(1..n, S)
  BY FS_CardinalityType
<1>2. PICK b \in [1..n -> S] : IsInjective(b)
  BY <1>1 DEF ExistsBijection, Bijection, Injection
<1>3. f \in [1..n -> S] /\ IsInjective(f)
  BY <1>2 DEF SetToSeq
<1> HIDE DEF f
<1>4. IsFiniteSet(1..n) /\ Cardinality(1..n) = n
  BY <1>1, FS_Interval
<1>5. f \in Surjection(1..n, S)
  <2>1. f \in Injection(1..n, S)
    BY <1>3 DEF Injection
  <2>2. QED
    BY <1>4, <2>1, FS_Injection
<1>6. S = {f[i] : i \in 1..n}
  BY <1>5 DEF Surjection
<1>7. f \in Seq(S) /\ DOMAIN f = 1..n
  BY <1>1, <1>3
<1>8. QED
  BY <1>6, <1>7 DEF IsListing, ToSet, f

\* One list behind another.
IsJoined(w, s, t, S) ==
  /\ w \in Seq(S) /\ Len(w) = Len(s) + Len(t)
  /\ \A i \in 1..Len(s) : w[i] = s[i]
  /\ \A i \in 1..Len(t) : w[Len(s) + i] = t[i]

LEMMA Joined ==
  ASSUME NEW S, NEW s \in Seq(S), NEW t \in Seq(S)
  PROVE  IsJoined(s \o t, s, t, S)
  BY DEF IsJoined

\* Lists of the same length with the same entries are the same.
LEMMA SameList ==
  ASSUME NEW S, NEW s \in Seq(S), NEW t \in Seq(S),
         Len(s) = Len(t), \A i \in 1..Len(s) : s[i] = t[i]
  PROVE  s = t
  OBVIOUS

\* Two handlers are written as lists joined.
LEMMA JoinedFour ==
  ASSUME NEW S, NEW a \in S, NEW b \in S, NEW c \in S, NEW d \in S
  PROVE  <<a>> \o <<b, c>> \o <<d>> = <<a, b, c, d>> /\ <<a, b>> \o <<c, d>> = <<a, b, c, d>>
<1>1. /\ <<a>> \in Seq(S) /\ <<b, c>> \in Seq(S) /\ <<d>> \in Seq(S) /\ <<a, b, c>> \in Seq(S)
      /\ <<a, b>> \in Seq(S) /\ <<c, d>> \in Seq(S)
      /\ <<a, b, c, d>> \in Seq(S)
  OBVIOUS
<1>2. <<a>> \o <<b, c>> = <<a, b, c>>
  <2> DEFINE u == <<a>> \o <<b, c>>
  <2>1. IsJoined(u, <<a>>, <<b, c>>, S)
    BY <1>1, Joined
  <2> HIDE DEF u
  <2>2. u \in Seq(S) /\ Len(u) = 3 /\ u[1] = a /\ u[1 + 1] = b /\ u[1 + 2] = c
    BY <2>1 DEF IsJoined
  <2>3. u = <<a, b, c>>
    BY <1>1, <2>2, SameList
  <2>4. QED
    BY <2>3 DEF u
<1>3. <<a, b, c>> \o <<d>> = <<a, b, c, d>>
  <2> DEFINE u == <<a, b, c>> \o <<d>>
  <2>1. IsJoined(u, <<a, b, c>>, <<d>>, S)
    BY <1>1, Joined
  <2> HIDE DEF u
  <2>2. u \in Seq(S) /\ Len(u) = 4 /\ u[1] = a /\ u[2] = b /\ u[3] = c /\ u[3 + 1] = d
    BY <2>1 DEF IsJoined
  <2>3. u = <<a, b, c, d>>
    BY <1>1, <2>2, SameList
  <2>4. QED
    BY <2>3 DEF u
<1>4. <<a, b>> \o <<c, d>> = <<a, b, c, d>>
  <2> DEFINE u == <<a, b>> \o <<c, d>>
  <2>1. IsJoined(u, <<a, b>>, <<c, d>>, S)
    BY <1>1, Joined
  <2> HIDE DEF u
  <2>2. u \in Seq(S) /\ Len(u) = 4 /\ u[1] = a /\ u[2] = b /\ u[2 + 1] = c /\ u[2 + 2] = d
    BY <2>1 DEF IsJoined
  <2>3. u = <<a, b, c, d>>
    BY <1>1, <2>2, SameList
  <2>4. QED
    BY <2>3 DEF u
<1>5. QED
  BY <1>2, <1>3, <1>4

\* An operation is written last.
WritesLast(s) == \A i \in 1..Len(s) : s[i].op = "touch" => i = Len(s)

LEMMA StepsAre ==
  /\ Mkdir \in Steps /\ Rmdir \in Steps /\ ClearAll \in Steps
  /\ \A m \in Markers : Touch(m) \in Steps /\ Delete(m) \in Steps
  /\ \A p \in {"tool", "perm"} : Clear(p) \in Steps
  /\ Mkdir.op = "mkdir" /\ Rmdir.op = "rmdir" /\ ClearAll.op = "clear all"
  /\ \A m : Touch(m).op = "touch" /\ Touch(m).on = m /\ Delete(m).op = "delete" /\ Delete(m).on = m
  /\ \A p : Clear(p).op = "clear" /\ Clear(p).on = p
  BY DEF Mkdir, Rmdir, ClearAll, Touch, Delete, Clear, Steps

\* What a handler begins with: it writes at most its last marker.
IsHandler(s, ops) == s \in Seq(Steps) /\ ToSet(s) = ops /\ WritesLast(s) /\ Head(s) = Mkdir /\ s # <<>>

LEMMA KeysAre ==
  /\ \A c \in Calls : /\ RequestKey(c) \in Calls \cup Tools /\ ToolOf[c] \in Tools
                      /\ Tool(c) \in Markers /\ Perm(c) \in Markers
                      /\ Perm(ToolOf[c]) \in Markers /\ Perm(RequestKey(c)) \in Markers
  BY DEF RequestKey, Tools, Markers, Tool, Perm

LEMMA HandlersAre ==
  /\ \A c \in Calls :
       /\ IsHandler(PermissionRequest(c), {Mkdir, Touch(Perm(RequestKey(c)))})
       /\ IsHandler(PreToolUse(c), {Mkdir, Delete(Perm(c)), Delete(Perm(ToolOf[c])), Touch(Tool(c))})
       /\ IsHandler(PostToolUse(c), {Mkdir, Delete(Tool(c)), Delete(Perm(c)), Delete(Perm(ToolOf[c]))})
       /\ \A key \in {c, RequestKey(c)} :
            IsHandler(PermissionDenied(key), {Mkdir, Delete(Perm(key))})
  /\ IsHandler(Stop, {Mkdir, Clear("tool"), Clear("perm")})
  /\ IsHandler(SessionEnd, {Mkdir, ClearAll, Rmdir})
<1> DEFINE IsList(s, ops, first) == s \in Seq(Steps) /\ ToSet(s) = ops /\ WritesLast(s)
                                     /\ Head(s) = first /\ s # <<>>
<1>0. Mkdir \in Steps /\ Mkdir.op # "touch"
  BY StepsAre
<1>1. ASSUME NEW b \in Steps PROVE IsHandler(<<Mkdir, b>>, {Mkdir, b})
  <2>1. ASSUME NEW a \in Steps, a.op # "touch" PROVE IsList(<<a, b>>, {a, b}, a)
    BY <2>1 DEF ToSet, WritesLast
  <2> HIDE DEF IsList
  <2>2. IsList(<<Mkdir, b>>, {Mkdir, b}, Mkdir)
    BY <1>0, <2>1
  <2>3. QED
    BY <2>2 DEF IsHandler, IsList
<1>2. ASSUME NEW b \in Steps, NEW c \in Steps, b.op # "touch"
      PROVE  IsHandler(<<Mkdir, b, c>>, {Mkdir, b, c})
  <2>1. ASSUME NEW a \in Steps, a.op # "touch" PROVE IsList(<<a, b, c>>, {a, b, c}, a)
    BY <1>2, <2>1 DEF ToSet, WritesLast
  <2> HIDE DEF IsList
  <2>2. IsList(<<Mkdir, b, c>>, {Mkdir, b, c}, Mkdir)
    BY <1>0, <2>1
  <2>3. QED
    BY <2>2 DEF IsHandler, IsList
<1>3. ASSUME NEW b \in Steps, NEW c \in Steps, NEW d \in Steps, b.op # "touch", c.op # "touch"
      PROVE  IsHandler(<<Mkdir, b, c, d>>, {Mkdir, b, c, d})
  <2>1. ASSUME NEW a \in Steps, a.op # "touch" PROVE IsList(<<a, b, c, d>>, {a, b, c, d}, a)
    BY <1>3, <2>1 DEF ToSet, WritesLast
  <2> HIDE DEF IsList
  <2>2. IsList(<<Mkdir, b, c, d>>, {Mkdir, b, c, d}, Mkdir)
    BY <1>0, <2>1
  <2>3. QED
    BY <2>2 DEF IsHandler, IsList
<1>4. ASSUME NEW c \in Calls
      PROVE  IsHandler(PermissionRequest(c), {Mkdir, Touch(Perm(RequestKey(c)))})
  BY <1>1, KeysAre, StepsAre DEF PermissionRequest
<1>5. ASSUME NEW c \in Calls
      PROVE  IsHandler(PreToolUse(c), {Mkdir, Delete(Perm(c)), Delete(Perm(ToolOf[c])), Touch(Tool(c))})
  <2>1. /\ Mkdir \in Steps /\ Touch(Tool(c)) \in Steps
        /\ Delete(Perm(c)) \in Steps /\ Delete(Perm(c)).op # "touch"
        /\ Delete(Perm(ToolOf[c])) \in Steps /\ Delete(Perm(ToolOf[c])).op # "touch"
    BY KeysAre, StepsAre
  <2>2. PreToolUse(c) = <<Mkdir, Delete(Perm(c)), Delete(Perm(ToolOf[c])), Touch(Tool(c))>>
    BY <2>1, JoinedFour, ZenonT(30) DEF PreToolUse, ClearPermission
  <2>3. QED
    BY <1>3, <2>1, <2>2, Zenon
<1>6. ASSUME NEW c \in Calls
      PROVE  IsHandler(PostToolUse(c), {Mkdir, Delete(Tool(c)), Delete(Perm(c)), Delete(Perm(ToolOf[c]))})
  <2>1. /\ Mkdir \in Steps /\ Delete(Perm(ToolOf[c])) \in Steps
        /\ Delete(Tool(c)) \in Steps /\ Delete(Tool(c)).op # "touch"
        /\ Delete(Perm(c)) \in Steps /\ Delete(Perm(c)).op # "touch"
    BY KeysAre, StepsAre
  <2>2. PostToolUse(c) = <<Mkdir, Delete(Tool(c)), Delete(Perm(c)), Delete(Perm(ToolOf[c]))>>
    BY <2>1, JoinedFour, ZenonT(30) DEF PostToolUse, ClearPermission
  <2>3. QED
    BY <1>3, <2>1, <2>2, Zenon
<1>7. ASSUME NEW c \in Calls, NEW key \in {c, RequestKey(c)}
      PROVE  IsHandler(PermissionDenied(key), {Mkdir, Delete(Perm(key))})
  BY <1>1, KeysAre, StepsAre DEF PermissionDenied
<1>8. IsHandler(Stop, {Mkdir, Clear("tool"), Clear("perm")})
  BY <1>2, StepsAre DEF Stop
<1>9. IsHandler(SessionEnd, {Mkdir, ClearAll, Rmdir})
  BY <1>2, StepsAre DEF SessionEnd
<1>10. QED
  BY <1>4, <1>5, <1>6, <1>7, <1>8, <1>9

-----------------------------------------------------------------------------
(* One operation of a handler. *)

\* What is left to do, and what became of the directory.
IsStep(h, x) ==
  /\ x \in Ahead(h) /\ x \in Steps /\ x = Head(todo[h])
  /\ todo' \in [Handlers -> Seq(Steps)]
  /\ \A g \in Handlers \ {h} : todo'[g] = todo[g]
  /\ \A y \in ToSet(todo'[h]) : \/ y \in Ahead(h)
                                \/ /\ x.op \in {"clear", "clear all"}
                                   /\ \E m \in files : y = Delete(m)
  /\ \A y \in Ahead(h) \ {x} : y \in ToSet(todo'[h])
  /\ WritesLast(todo'[h])
  /\ x.op \in {"clear", "clear all"} =>
       \A m \in files : x.op = "clear all" \/ m[1] = x.on => Delete(m) \in ToSet(todo'[h])
  /\ exists' = IF x.op = "mkdir" THEN TRUE ELSE IF x.op = "rmdir" THEN exists /\ files # {} ELSE exists
  /\ files' = IF x.op = "touch" /\ exists THEN files \cup {x.on}
              ELSE IF x.op = "delete" THEN files \ {x.on} ELSE files
  /\ UNCHANGED <<claude, died>>

LEMMA StepIs ==
  ASSUME TypeOK, HandlersSound, MarkersSound, NEW h \in Handlers, Step(h)
  PROVE  IsStep(h, Head(todo[h]))
<1> DEFINE s == todo[h]
           x == Head(s)
           rest == Tail(s)
           M == {m \in files : x.op = "clear all" \/ m[1] = x.on}
           listed == SetToSeq({Delete(m) : m \in M})
<1>1. todo \in [Handlers -> Seq(Steps)] /\ s \in Seq(Steps) /\ s # <<>>
  BY DEF TypeOK, Step
<1>2. /\ exists' = CASE x.op = "mkdir" -> TRUE
                     [] x.op = "rmdir" -> exists /\ files # {}
                     [] OTHER -> exists
      /\ files' = CASE x.op = "touch" /\ exists -> files \cup {x.on}
                    [] x.op = "delete" -> files \ {x.on}
                    [] OTHER -> files
      /\ todo' = [todo EXCEPT ![h] =
                    CASE x.op \in {"clear", "clear all"} -> Listed(x) \o rest
                      [] x.op = "touch" /\ ~exists -> <<>>
                      [] OTHER -> rest]
      /\ UNCHANGED <<claude, died>>
  BY DEF Step
<1>3. Listed(x) = listed
  BY DEF Listed
<1>4. /\ x \in Steps /\ rest \in Seq(Steps) /\ Len(s) \in Nat /\ Len(s) > 0
      /\ Len(rest) = Len(s) - 1 /\ x = s[1] /\ \A i \in 1..Len(rest) : rest[i] = s[i + 1]
  BY <1>1
<1>5. \A i \in 1..Len(s) : i = 1 \/ i - 1 \in 1..Len(rest)
  BY <1>4
<1>6. /\ ToSet(rest) \subseteq ToSet(s) /\ x \in ToSet(s)
      /\ \A y \in ToSet(s) : y = x \/ y \in ToSet(rest)
  <2> HIDE DEF x, rest, s
  <2>1. \A i \in 1..Len(rest) : i + 1 \in 1..Len(s)
    BY <1>4
  <2>2. 1 \in 1..Len(s)
    BY <1>4
  <2>3. DOMAIN s = 1..Len(s) /\ DOMAIN rest = 1..Len(rest)
    BY <1>1, <1>4
  <2>4. ToSet(rest) \subseteq ToSet(s)
    BY <1>4, <2>1, <2>3 DEF ToSet
  <2>5. x \in ToSet(s)
    BY <1>4, <2>2, <2>3 DEF ToSet
  <2>6. ASSUME NEW y \in ToSet(s), y # x PROVE y \in ToSet(rest)
    <3>1. PICK i \in 1..Len(s) : y = s[i]
      BY <2>3 DEF ToSet
    <3>2. i - 1 \in 1..Len(rest) /\ (i - 1) + 1 = i
      BY <1>4, <1>5, <2>6, <3>1
    <3>3. y = rest[i - 1]
      BY <1>4, <3>1, <3>2
    <3>4. QED
      BY <2>3, <3>2, <3>3 DEF ToSet
  <2>7. QED
    BY <2>4, <2>5, <2>6
<1>7. WritesLast(s)
  BY DEF HandlersSound, WritesLast
<1>8. WritesLast(rest)
  <2>1. \A i \in 1..Len(rest) : i + 1 \in 1..Len(s)
    BY <1>4
  <2> HIDE DEF x, rest, s
  <2>2. ASSUME NEW i \in 1..Len(rest), rest[i].op = "touch" PROVE i = Len(rest)
    <3>1. s[i + 1].op = "touch" /\ i + 1 \in 1..Len(s)
      BY <1>4, <2>1, <2>2
    <3>2. i + 1 = Len(s)
      BY <1>7, <3>1 DEF WritesLast
    <3>3. QED
      BY <1>4, <3>2
  <2>3. QED
    BY <2>2 DEF WritesLast
<1>9. x.op = "touch" => ToSet(s) = {x}
  <2> SUFFICES ASSUME x.op = "touch" PROVE ToSet(s) = {x}
    OBVIOUS
  <2>1. 1 \in 1..Len(s) /\ s[1].op = "touch"
    BY <1>4
  <2>2. Len(s) = 1
    BY <1>7, <2>1 DEF WritesLast
  <2>3. DOMAIN s = 1..1 /\ x = s[1]
    BY <1>1, <1>4, <2>2
  <2> HIDE DEF x, s
  <2>4. QED
    BY <2>3 DEF ToSet
<1>10. /\ listed \in Seq(Steps) /\ ToSet(listed) = {Delete(m) : m \in M} /\ WritesLast(listed \o rest)
       /\ listed \o rest \in Seq(Steps)
       /\ ToSet(listed \o rest) = ToSet(listed) \cup ToSet(rest)
  <2> DEFINE D == {Delete(m) : m \in M}
             f == [m \in M |-> Delete(m)]
  <2>1. IsFiniteSet(M) /\ M \subseteq files
    <3>1. M \subseteq files
      OBVIOUS
    <3>2. QED
      BY <3>1, FS_Subset DEF MarkersSound
  <2> HIDE DEF M
  <2>2. IsFiniteSet(D)
    <3>1. f \in Surjection(M, D)
      BY DEF Surjection
    <3> HIDE DEF f, D
    <3>2. QED
      BY <2>1, <3>1, FS_Surjection
  <2>3. IsListing(listed, D)
    <3> HIDE DEF D
    <3>1. IsListing(SetToSeq(D), D)
      BY <2>2, ListingIs
    <3>2. QED
      BY <3>1 DEF D
  <2>4. D \subseteq Steps /\ \A y \in D : y.op = "delete"
    BY <2>1, StepsAre, ZenonT(30) DEF TypeOK
  <2> HIDE DEF D, listed, rest
  <2>5. listed \in Seq(D) /\ ToSet(listed) = D /\ listed \in Seq(Steps)
    BY <2>3, <2>4 DEF IsListing
  <2>6. /\ listed \o rest \in Seq(Steps) /\ Len(listed \o rest) = Len(listed) + Len(rest)
        /\ Len(listed) \in Nat /\ Len(rest) \in Nat
        /\ \A i \in 1..Len(listed) : (listed \o rest)[i] = listed[i] /\ listed[i] \in D
        /\ \A i \in 1..Len(rest) : (listed \o rest)[Len(listed) + i] = rest[i]
    <3> DEFINE w == listed \o rest
    <3>1. IsJoined(w, listed, rest, Steps)
      BY <1>4, <2>5, Joined
    <3> HIDE DEF w
    <3>2. Len(listed) \in Nat /\ Len(rest) \in Nat /\ \A i \in 1..Len(listed) : listed[i] \in D
      BY <1>4, <2>5
    <3>3. QED
      BY <3>1, <3>2 DEF IsJoined, w
  <2>7. \A i \in 1..Len(listed \o rest) : i \in 1..Len(listed) \/ \E j \in 1..Len(rest) : i = Len(listed) + j
    <3> SUFFICES ASSUME NEW i \in 1..Len(listed \o rest), i \notin 1..Len(listed)
                 PROVE  i - Len(listed) \in 1..Len(rest) /\ i = Len(listed) + (i - Len(listed))
      OBVIOUS
    <3>1. QED
      BY <2>6
  <2>8. WritesLast(listed \o rest)
    <3> SUFFICES ASSUME NEW i \in 1..Len(listed \o rest), (listed \o rest)[i].op = "touch"
                 PROVE  i = Len(listed \o rest)
      BY DEF WritesLast
    <3>1. PICK j \in 1..Len(rest) : i = Len(listed) + j
      BY <2>4, <2>6, <2>7
    <3>2. j = Len(rest)
      BY <1>8, <2>6, <3>1 DEF WritesLast
    <3>3. QED
      BY <2>6, <3>1, <3>2
  <2>9. ToSet(listed \o rest) = ToSet(listed) \cup ToSet(rest)
    <3> DEFINE w == listed \o rest
    <3>0. w \in Seq(Steps) /\ Len(w) = Len(listed) + Len(rest) /\ Len(listed) \in Nat /\ Len(rest) \in Nat
      BY <2>6
    <3> HIDE DEF w
    <3>1. /\ DOMAIN w = 1..Len(w) /\ DOMAIN listed = 1..Len(listed) /\ DOMAIN rest = 1..Len(rest)
          /\ \A i \in 1..Len(listed) : i \in 1..Len(w)
          /\ \A j \in 1..Len(rest) : Len(listed) + j \in 1..Len(w)
      BY <1>4, <2>5, <3>0
    <3>2. ToSet(w) \subseteq ToSet(listed) \cup ToSet(rest)
      BY <2>6, <2>7, <3>1, SMTT(30) DEF ToSet, w
    <3>3. ToSet(listed) \subseteq ToSet(w) /\ ToSet(rest) \subseteq ToSet(w)
      BY <2>6, <3>1 DEF ToSet, w
    <3>4. QED
      BY <3>2, <3>3 DEF w
  <2>10. QED
    BY <2>5, <2>6, <2>8, <2>9 DEF D
<1> DEFINE next == CASE x.op \in {"clear", "clear all"} -> listed \o rest
                     [] x.op = "touch" /\ ~exists -> <<>>
                     [] OTHER -> rest
<1>11. next \in Seq(Steps) /\ todo'[h] = next /\ todo' = [todo EXCEPT ![h] = next]
  <2> HIDE DEF s, x, rest, listed
  <2>1. next \in Seq(Steps)
    <3>0. <<>> \in Seq(Steps)
      OBVIOUS
    <3>1. rest \in Seq(Steps) /\ listed \o rest \in Seq(Steps) /\ <<>> \in Seq(Steps)
      BY <1>4, <1>10, <3>0, Zenon
    <3>2. next \in {rest, listed \o rest, <<>>}
      OBVIOUS
    <3>3. QED
      BY <3>1, <3>2, Zenon
  <2>2. todo' = [todo EXCEPT ![h] = next]
    BY <1>2, <1>3
  <2> HIDE DEF next
  <2>3. QED
    BY <1>1, <2>1, <2>2
<1>12. /\ \A y \in ToSet(next) : \/ y \in ToSet(s)
                                 \/ x.op \in {"clear", "clear all"} /\ \E m \in files : y = Delete(m)
       /\ \A y \in ToSet(s) \ {x} : y \in ToSet(next)
       /\ WritesLast(next)
       /\ x.op \in {"clear", "clear all"} =>
            \A m \in files : x.op = "clear all" \/ m[1] = x.on => Delete(m) \in ToSet(next)
  <2> HIDE DEF s, x, rest, listed
  <2>1. CASE x.op \in {"clear", "clear all"}
    <3>1. next = listed \o rest
      BY <2>1
    <3>2. QED
      BY <1>6, <1>10, <2>1, <3>1
  <2>2. CASE x.op = "touch" /\ ~exists
    <3>1. next = <<>> /\ ToSet(<<>>) = {} /\ WritesLast(<<>>)
      BY <2>2 DEF ToSet, WritesLast
    <3>2. QED
      BY <1>9, <2>2, <3>1
  <2>3. CASE x.op \notin {"clear", "clear all"} /\ ~(x.op = "touch" /\ ~exists)
    <3>1. next = rest
      BY <2>3
    <3>2. QED
      BY <1>6, <1>8, <2>3, <3>1
  <2>4. QED
    BY <2>1, <2>2, <2>3
<1> HIDE DEF next, listed, rest, M
<1>13. exists' = IF x.op = "mkdir" THEN TRUE ELSE IF x.op = "rmdir" THEN exists /\ files # {} ELSE exists
  BY <1>2
<1>14. files' = IF x.op = "touch" /\ exists THEN files \cup {x.on}
                ELSE IF x.op = "delete" THEN files \ {x.on} ELSE files
  BY <1>2
<1>15. todo' \in [Handlers -> Seq(Steps)] /\ \A g \in Handlers \ {h} : todo'[g] = todo[g]
  BY <1>1, <1>11
<1>16. QED
  BY <1>2, <1>4, <1>6, <1>11, <1>12, <1>13, <1>14, <1>15 DEF IsStep, Ahead
-----------------------------------------------------------------------------
(* Whose markers are whose. *)

LEMMA NamesAre ==
  /\ \A c, k : Tool(c) # Perm(k)
  /\ \A c, d : Tool(c) = Tool(d) => c = d
  /\ \A k, l : Perm(k) = Perm(l) => k = l
  /\ \A c \in Calls : /\ ToolOf[c] \in Tools /\ ToolOf[c] \notin Calls
                      /\ RequestKey(c) = IF c \in Nameless THEN ToolOf[c] ELSE c
                      /\ AgentOf[c] \in Agents
  /\ \A a \in Agents : a \notin Calls /\ a # Session
  /\ Session \notin Calls /\ Nameless \subseteq Calls
<1>1. \A c, k : Tool(c) # Perm(k)
  BY DEF Tool, Perm
<1>2. \A c, d : Tool(c) = Tool(d) => c = d
  BY DEF Tool
<1>3. \A k, l : Perm(k) = Perm(l) => k = l
  BY DEF Perm
<1>4. QED
  BY <1>1, <1>2, <1>3, HooksAssumption DEF Tools, RequestKey

\* A call is asked for or runs as itself, and under its tool's name its namesakes do.
LEMMA StaleTouch ==
  ASSUME NEW c \in Calls, NEW d \in Calls, NEW m \in Stale(c), MayTouch(d, m)
  PROVE  d = c /\ phase[c] \in {"asked", "gone"}
<1>1. CASE m = Perm(c)
  BY <1>1, NamesAre DEF MayTouch
<1>2. CASE m = Perm(ToolOf[c]) /\ Namesakes(c) = {}
  <2>1. RequestKey(d) = ToolOf[c] /\ phase[d] \in {"asked", "gone"}
    BY <1>2, NamesAre DEF MayTouch
  <2>2. ToolOf[d] = ToolOf[c]
    BY <2>1, NamesAre
  <2>3. QED
    BY <1>2, <2>1, <2>2 DEF Namesakes
<1>3. CASE m = Tool(c) /\ phase[c] # "running"
  BY <1>3, NamesAre DEF MayTouch
<1>4. QED
  BY <1>1, <1>2, <1>3 DEF Stale

\* What a call was asked under is removed by itself or by a namesake.
LEMMA RequestDelete ==
  ASSUME NEW c \in Calls, NEW d \in Calls, phase[c] = "asked",
         c \in Nameless => Namesakes(c) = {}
  PROVE  ~MayDelete(d, Perm(RequestKey(c)))
<1> SUFFICES ASSUME MayDelete(d, Perm(RequestKey(c))) PROVE FALSE
  OBVIOUS
<1>1. RequestKey(c) \in {d, ToolOf[d]} /\ phase[d] \in {"running", "over", "denied", "gone"}
  BY NamesAre DEF MayDelete
<1>2. d # c /\ phase[d] # "new"
  BY <1>1
<1>3. c \in Nameless /\ ToolOf[c] = ToolOf[d]
  BY <1>1, <1>2, NamesAre
<1>4. QED
  BY <1>2, <1>3 DEF Namesakes

\* A handler that will remove a marker goes on to, until it is gone.
LEMMA RemovesKept ==
  ASSUME NEW h \in Handlers, NEW x, IsStep(h, x), NEW m \in files', NEW g \in Handlers, Removes(g, m)
  PROVE  Removes(g, m)'
<1>1. CASE g # h
  BY <1>1 DEF IsStep, Removes, Ahead
<1>2. CASE g = h
  <2>1. PICK y \in {Delete(m), Clear(m[1]), ClearAll} : y \in Ahead(h)
    BY <1>2 DEF Removes
  <2>2. CASE y # x
    BY <1>2, <2>1, <2>2 DEF IsStep, Removes, Ahead
  <2>3. CASE y = x
    <3>1. x # Delete(m)
      <4> SUFFICES ASSUME x = Delete(m) PROVE FALSE
        OBVIOUS
      <4>1. x.op = "delete" /\ x.on = m
        BY StepsAre
      <4>2. QED
        BY <4>1 DEF IsStep
    <3>2. x.op \in {"clear", "clear all"} /\ (x.op = "clear all" \/ m[1] = x.on)
      BY <2>1, <2>3, <3>1, StepsAre, ZenonT(30)
    <3>3. m \in files
      BY <3>2 DEF IsStep
    <3>4. Delete(m) \in ToSet(todo'[h])
      BY <3>2, <3>3 DEF IsStep
    <3>5. QED
      BY <1>2, <3>4 DEF Removes, Ahead
  <2>4. QED
    BY <2>2, <2>3
<1>3. QED
  BY <1>1, <1>2
-----------------------------------------------------------------------------
(* The steps of the invariant. *)

LEMMA StepKeeps ==
  ASSUME HInv, NEW h \in Handlers, NEW x, IsStep(h, x)
  PROVE  HInv'
<1>0. /\ TypeOK /\ HandlersSound /\ MarkersSound /\ UnderwaySound
      /\ WorkSound /\ AnswersSound /\ TurnsSound
  BY DEF HInv
<1>1. /\ x \in Ahead(h) /\ x \in Steps /\ todo[h] # <<>> /\ x = Head(todo[h])
      /\ phase' = phase /\ up' = up /\ leaves' = leaves /\ mixed' = mixed /\ closed' = closed
      /\ died' = died
      /\ \A g \in Handlers \ {h} : todo'[g] = todo[g]
      /\ files' = IF x.op = "touch" /\ exists THEN files \cup {x.on}
                  ELSE IF x.op = "delete" THEN files \ {x.on} ELSE files
      /\ exists' = IF x.op = "mkdir" THEN TRUE
                   ELSE IF x.op = "rmdir" THEN exists /\ files # {} ELSE exists
  <2>1. x \in Ahead(h) => todo[h] # <<>>
    BY DEF Ahead, ToSet
  <2>2. QED
    BY <2>1 DEF IsStep, claude
<1>2. /\ Underway' = Underway /\ Done' = Done
      /\ \A c \in Calls : Namesakes(c)' = Namesakes(c)
      /\ \A c, m : (MayTouch(c, m)' <=> MayTouch(c, m)) /\ (MayDelete(c, m)' <=> MayDelete(c, m))
  BY <1>1 DEF Underway, Done, Namesakes, MayTouch, MayDelete
<1>3. \A c \in Calls : Stale(c)' = Stale(c)
  BY <1>1, <1>2 DEF Stale
<1>4. /\ h \in Calls \/ h \in Agents \/ h = Session
      /\ h \in Agents => h \notin Calls /\ h # Session
      /\ h = Session => h \notin Calls
  BY NamesAre DEF Handlers
<1>5. /\ x.op = "touch" => h \in Calls /\ MayTouch(h, x.on)
      /\ x.op = "delete" /\ h \in Calls => MayDelete(h, x.on)
      /\ x.op = "clear" => h \in Agents
      /\ x.op \in {"clear all", "rmdir"} => h = Session
  BY <1>0, <1>1 DEF HandlersSound
<1>6. TypeOK'
  <2>1. x.op \in {"touch", "delete"} => x.on \in Markers
    BY <1>1 DEF Steps
  <2>2. files' \subseteq Markers /\ exists' \in BOOLEAN /\ (~exists' => files' = {})
    BY <1>0, <1>1, <2>1 DEF TypeOK
  <2>3. QED
    BY <1>0, <1>1, <2>2 DEF TypeOK, IsStep
<1>7. HandlersSound'
  <2>1. ASSUME NEW g \in Handlers, NEW y \in ToSet(todo'[g])
        PROVE  /\ y.op = "touch" => g \in Calls /\ MayTouch(g, y.on)
               /\ y.op = "delete" /\ g \in Calls => MayDelete(g, y.on)
               /\ y.op = "clear" => g \in Agents
               /\ y.op \in {"clear all", "rmdir"} => g = Session
    <3>1. CASE y \in Ahead(g)
      BY <1>0, <3>1 DEF HandlersSound
    <3>2. CASE y \notin Ahead(g)
      <4>1. g = h
        BY <1>1, <3>2 DEF Ahead
      <4>2. x.op \in {"clear", "clear all"} /\ \E m \in files : y = Delete(m)
        BY <2>1, <3>2, <4>1 DEF IsStep
      <4>3. y.op = "delete" /\ g \notin Calls
        BY <1>4, <1>5, <4>1, <4>2, StepsAre
      <4>4. QED
        BY <4>3
    <3>3. QED
      BY <3>1, <3>2
  <2>2. ASSUME NEW g \in Handlers PROVE WritesLast(todo'[g])
    <3>1. CASE g = h
      BY <3>1 DEF IsStep
    <3>2. CASE g # h
      BY <1>0, <1>1, <3>2 DEF HandlersSound, WritesLast
    <3>3. QED
      BY <3>1, <3>2
  <2>3. ASSUME NEW c \in Calls, todo'[c] # <<>> PROVE phase[c] # "new"
    <3>1. c \in Handlers
      BY DEF Handlers
    <3>2. todo[c] # <<>>
      BY <1>1, <2>3, <3>1
    <3>3. QED
      BY <1>0, <3>2 DEF HandlersSound
  <2>4. QED
    BY <1>1, <1>2, <2>1, <2>2, <2>3 DEF HandlersSound, WritesLast, Ahead
<1>8. MarkersSound'
  <2>1. IsFiniteSet(files')
    <3>1. IsFiniteSet(files) /\ IsFiniteSet(files \cup {x.on}) /\ IsFiniteSet(files \ {x.on})
      BY <1>0, FS_AddElement, FS_RemoveElement DEF MarkersSound
    <3>2. QED
      BY <1>1, <3>1
  <2>2. ASSUME NEW m \in files'
        PROVE  \/ \E c \in Calls : m = Tool(c) /\ phase[c] \in {"running", "over", "gone"}
               \/ \E c \in Calls : m = Perm(RequestKey(c)) /\ phase[c] # "new"
    <3>1. CASE m \in files
      BY <1>0, <3>1 DEF MarkersSound
    <3>2. CASE m \notin files
      <4>1. h \in Calls /\ MayTouch(h, m)
        BY <1>1, <1>5, <2>2, <3>2
      <4>2. QED
        BY <4>1 DEF MayTouch
    <3>3. QED
      BY <3>1, <3>2
  <2>3. QED
    BY <1>0, <1>1, <2>1, <2>2 DEF MarkersSound, RequestKey
<1>9. UnderwaySound'
  <2>1. Session \in Handlers /\ Calls \subseteq Handlers /\ Agents \subseteq Handlers
    BY DEF Handlers
  <2>2. up => h # Session /\ todo'[Session] = <<>>
    BY <1>0, <1>1, <2>1 DEF UnderwaySound, Idle
  <2>3. ASSUME NEW c \in Underway
        PROVE  /\ up
               /\ c \notin mixed => \A a \in Agents : todo'[a] = <<>>
               /\ todo'[c] # <<>> => exists' \/ Head(todo'[c]) = Mkdir
    <3>1. up /\ (c \notin mixed => \A a \in Agents : todo[a] = <<>>)
          /\ (todo[c] # <<>> => exists \/ Head(todo[c]) = Mkdir)
      BY <1>0 DEF UnderwaySound, Idle
    <3>2. c \notin mixed => \A a \in Agents : todo'[a] = <<>>
      BY <1>1, <2>1, <3>1
    <3>3. x.op # "rmdir"
      BY <1>5, <2>2, <3>1
    <3>4. exists => exists'
      BY <1>1, <3>3
    <3>5. c \in Handlers
      BY <2>1 DEF Underway
    <3>6. CASE c # h
      BY <1>1, <3>1, <3>2, <3>4, <3>5, <3>6
    <3>7. CASE c = h
      <4>1. exists \/ x = Mkdir
        BY <1>1, <3>1, <3>7
      <4>2. exists'
        BY <1>1, <3>4, <4>1, StepsAre
      <4>3. QED
        BY <3>1, <3>2, <4>2
    <3>8. QED
      BY <3>1, <3>2, <3>6, <3>7
  <2>4. QED
    BY <1>1, <1>2, <2>2, <2>3 DEF UnderwaySound, Idle
<1>10. WorkSound'
  <2> SUFFICES ASSUME NEW c \in Underway \ (died \cup mixed)
               PROVE  /\ phase[c] = "asked" /\ (c \in Nameless => Namesakes(c) = {}) =>
                           \/ Perm(RequestKey(c)) \in files'
                           \/ Touch(Perm(RequestKey(c))) \in ToSet(todo'[c])
                      /\ phase[c] = "running" => Tool(c) \in files' \/ Touch(Tool(c)) \in ToSet(todo'[c])
    BY <1>1, <1>2 DEF WorkSound, Ahead, Underway, RequestKey
  <2>1. c \in Calls /\ c \in Handlers /\ up
    BY <1>0 DEF Underway, UnderwaySound, Handlers
  <2>2. h \in Calls
    <3>1. todo[Session] = <<>> /\ \A a \in Agents : todo[a] = <<>>
      BY <1>0, <2>1 DEF UnderwaySound, Idle
    <3>2. QED
      BY <1>1, <1>4, <3>1
  <2>3. ASSUME NEW m, ~MayDelete(h, m), m \in files \/ Touch(m) \in Ahead(c)
        PROVE  m \in files' \/ Touch(m) \in ToSet(todo'[c])
    <3>1. CASE m \in files
      BY <1>1, <1>5, <2>2, <2>3, <3>1
    <3>2. CASE Touch(m) \in Ahead(c) /\ (c # h \/ x # Touch(m))
      BY <1>1, <2>1, <3>2 DEF IsStep, Ahead
    <3>3. CASE c = h /\ x = Touch(m)
      <4>1. x.op = "touch" /\ x.on = m /\ x # Mkdir
        BY <3>3, StepsAre
      <4>2. exists
        BY <1>0, <1>1, <3>3, <4>1 DEF UnderwaySound
      <4>3. QED
        BY <1>1, <4>1, <4>2
    <3>4. QED
      BY <2>3, <3>1, <3>2, <3>3
  <2>4. ASSUME phase[c] = "asked", c \in Nameless => Namesakes(c) = {}
        PROVE  \/ Perm(RequestKey(c)) \in files'
               \/ Touch(Perm(RequestKey(c))) \in ToSet(todo'[c])
    <3>1. ~MayDelete(h, Perm(RequestKey(c)))
      BY <2>1, <2>2, <2>4, RequestDelete
    <3>2. Perm(RequestKey(c)) \in files \/ Touch(Perm(RequestKey(c))) \in Ahead(c)
      BY <1>0, <2>4 DEF WorkSound
    <3>3. QED
      BY <2>3, <3>1, <3>2
  <2>5. ASSUME phase[c] = "running"
        PROVE  Tool(c) \in files' \/ Touch(Tool(c)) \in ToSet(todo'[c])
    <3>1. ~MayDelete(h, Tool(c))
      BY <2>5, NamesAre DEF MayDelete
    <3>2. Tool(c) \in files \/ Touch(Tool(c)) \in Ahead(c)
      BY <1>0, <2>5 DEF WorkSound
    <3>3. QED
      BY <2>3, <3>1, <3>2
  <2>6. QED
    BY <2>4, <2>5
<1>11. ASSUME NEW c \in Calls, phase[c] \notin {"asked", "gone"} \/ c # h, NEW m \in Stale(c) \cap files'
       PROVE  m \in files
  <2> SUFFICES ASSUME m \notin files PROVE FALSE
    OBVIOUS
  <2>1. h \in Calls /\ MayTouch(h, m)
    BY <1>1, <1>5, <1>11
  <2>2. QED
    BY <1>11, <2>1, StaleTouch
<1>12. AnswersSound'
  <2> SUFFICES ASSUME NEW c \in Calls \ died, phase[c] \in {"running", "over", "denied"},
                      phase[c] = "denied" => c \notin Nameless, NEW m \in Stale(c) \cap files'
               PROVE  Removes(c, m)'
    BY <1>1, <1>3 DEF AnswersSound
  <2>1. m \in files
    BY <1>11
  <2>2. Removes(c, m) /\ c \in Handlers
    BY <1>0, <2>1 DEF AnswersSound, Handlers
  <2>3. QED
    BY <2>2, RemovesKept
<1>13. TurnsSound'
  <2>1. ASSUME NEW c \in closed
        PROVE  /\ c \in Done /\ todo'[c] = <<>>
               /\ AgentOf[c] \notin died => \A m \in Stale(c) \cap files' : Removes(AgentOf[c], m)'
    <3>1. c \in Done /\ c \in Calls /\ c \in Handlers /\ todo[c] = <<>> /\ AgentOf[c] \in Handlers
      BY <1>0, NamesAre DEF TurnsSound, Idle, TypeOK, Handlers
    <3>2. c # h /\ todo'[c] = <<>>
      BY <1>1, <3>1
    <3>3. ASSUME AgentOf[c] \notin died, NEW m \in Stale(c) \cap files' PROVE Removes(AgentOf[c], m)'
      <4>1. m \in files
        BY <1>11, <3>1, <3>2
      <4>2. Removes(AgentOf[c], m)
        BY <1>0, <3>3, <4>1 DEF TurnsSound
      <4>3. QED
        BY <3>1, <4>2, RemovesKept
    <3>4. QED
      BY <3>1, <3>2, <3>3
  <2>2. \A c \in closed : c \in Calls
    BY <1>0 DEF TypeOK
  <2>3. QED
    BY <1>1, <1>2, <1>3, <2>1, <2>2 DEF TurnsSound, Idle
<1>14. QED
  BY <1>6, <1>7, <1>8, <1>9, <1>10, <1>12, <1>13 DEF HInv
\* A handler that dies does nothing more, and none of the others is touched.
LEMMA DieKeeps ==
  ASSUME HInv, NEW h \in Handlers, Die(h)
  PROVE  HInv'
<1>0. /\ TypeOK /\ HandlersSound /\ MarkersSound /\ UnderwaySound
      /\ WorkSound /\ AnswersSound /\ TurnsSound
  BY DEF HInv
<1>1. /\ phase' = phase /\ up' = up /\ leaves' = leaves /\ mixed' = mixed /\ closed' = closed
      /\ exists' = exists /\ files' = files /\ died' = died \cup {h}
      /\ todo' = [todo EXCEPT ![h] = <<>>] /\ todo \in [Handlers -> Seq(Steps)]
      /\ <<>> \in Seq(Steps) /\ ToSet(<<>>) = {}
  BY <1>0 DEF Die, claude, TypeOK, ToSet
<1>2. /\ \A g \in Handlers : todo'[g] = IF g = h THEN <<>> ELSE todo[g]
      /\ \A g \in Handlers : Ahead(g)' = IF g = h THEN {} ELSE Ahead(g)
      /\ todo' \in [Handlers -> Seq(Steps)]
  BY <1>1 DEF Ahead
<1>3. /\ Underway' = Underway /\ Done' = Done
      /\ \A c \in Calls : Namesakes(c)' = Namesakes(c) /\ Stale(c)' = Stale(c)
      /\ \A c, m : (MayTouch(c, m)' <=> MayTouch(c, m)) /\ (MayDelete(c, m)' <=> MayDelete(c, m))
  BY <1>1 DEF Underway, Done, Namesakes, Stale, MayTouch, MayDelete
<1>4. /\ Session \in Handlers /\ Calls \subseteq Handlers /\ Agents \subseteq Handlers
      /\ \A c \in Calls : AgentOf[c] \in Handlers
  BY NamesAre DEF Handlers
<1>5. TypeOK'
  BY <1>0, <1>1, <1>2 DEF TypeOK
<1>6. HandlersSound'
  <2>1. \A g \in Handlers : WritesLast(todo'[g])
    <3>1. WritesLast(<<>>)
      BY DEF WritesLast
    <3>2. \A g \in Handlers : WritesLast(todo[g])
      BY <1>0 DEF HandlersSound, WritesLast
    <3>3. QED
      BY <1>2, <3>1, <3>2
  <2>2. \A g \in Handlers : \A x \in Ahead(g)' : x \in Ahead(g)
    BY <1>2
  <2>3. \A c \in Calls : todo'[c] # <<>> => todo[c] # <<>>
    BY <1>2, <1>4
  <2>4. QED
    BY <1>0, <1>1, <1>3, <2>1, <2>2, <2>3 DEF HandlersSound, WritesLast
<1>7. MarkersSound'
  BY <1>0, <1>1, FS_AddElement DEF MarkersSound, RequestKey
<1>8. UnderwaySound'
  BY <1>0, <1>1, <1>2, <1>3, <1>4 DEF UnderwaySound, Idle, Underway
<1>9. WorkSound'
  BY <1>0, <1>1, <1>2, <1>3, <1>4 DEF WorkSound, RequestKey, Underway
<1>10. AnswersSound'
  BY <1>0, <1>1, <1>2, <1>3, <1>4 DEF AnswersSound, Removes
<1>11. TurnsSound'
  BY <1>0, <1>1, <1>2, <1>3, <1>4 DEF TurnsSound, Removes, Idle, Done
<1>12. QED
  BY <1>5, <1>6, <1>7, <1>8, <1>9, <1>10, <1>11 DEF HInv

\* Namesakes are only gained, so a marker that is not stale does not become it.
LEMMA StaleShrinks ==
  ASSUME NEW c \in Calls, phase'[c] = phase[c],
         \A d \in Calls : phase[d] # "new" => phase'[d] # "new"
  PROVE  Namesakes(c) \subseteq Namesakes(c)' /\ Stale(c)' \subseteq Stale(c)
<1>1. Namesakes(c) \subseteq Namesakes(c)'
  BY DEF Namesakes
<1>2. QED
  BY <1>1 DEF Stale

\* An event starts the handler of its call, that does what is called for.
IsEvent(c, p, ops) ==
  /\ phase[c] \in {"new", "asked", "running"}
  /\ p \in {"asked", "running", "over", "denied"} /\ (phase[c] = "running" => p = "over")
  /\ \A x \in ops : /\ x.op \in {"mkdir", "touch", "delete"}
                    /\ x.op = "touch" => MayTouch(c, x.on)'
                    /\ x.op = "delete" => MayDelete(c, x.on)'
  /\ p = "asked" => Touch(Perm(RequestKey(c))) \in ops
  /\ p = "running" => Touch(Tool(c)) \in ops
  /\ p \in {"running", "over", "denied"} /\ (p = "denied" => c \notin Nameless) =>
       \A m \in Stale(c)' \cap files : Delete(m) \in ops

LEMMA EventKeeps ==
  ASSUME HInv, NEW c \in Calls, NEW p, NEW s, NEW ops,
         Event(c, p, s), IsHandler(s, ops), IsEvent(c, p, ops)
  PROVE  HInv'
<1>0. /\ TypeOK /\ HandlersSound /\ MarkersSound /\ UnderwaySound
      /\ WorkSound /\ AnswersSound /\ TurnsSound
  BY DEF HInv
<1>1. /\ up /\ up' = up /\ leaves' = leaves /\ closed' = closed /\ died' = died
      /\ exists' = exists /\ files' = files
      /\ mixed \subseteq mixed' /\ mixed' \subseteq mixed \cup {c}
      /\ c \notin mixed' => \A a \in Agents : Idle(a)
      /\ todo' = [todo EXCEPT ![c] = s] /\ todo \in [Handlers -> Seq(Steps)]
      /\ phase' = [phase EXCEPT ![c] = p]
      /\ phase \in [Calls -> {"new", "asked", "running", "denied", "over", "gone"}]
  BY <1>0 DEF Event, Enter, TypeOK
<1>2. /\ Session \in Handlers /\ Calls \subseteq Handlers /\ Agents \subseteq Handlers
      /\ \A d \in Calls : AgentOf[d] \in Handlers /\ AgentOf[d] # c
      /\ c # Session /\ c \notin Agents
  BY NamesAre DEF Handlers
<1>3. s \in Seq(Steps) /\ ToSet(s) = ops /\ WritesLast(s) /\ Head(s) = Mkdir
  BY DEF IsHandler
<1>4. /\ \A g \in Handlers : todo'[g] = IF g = c THEN s ELSE todo[g]
      /\ \A g \in Handlers : Ahead(g)' = IF g = c THEN ops ELSE Ahead(g)
      /\ todo' \in [Handlers -> Seq(Steps)]
  BY <1>1, <1>2, <1>3 DEF Ahead
<1>5. \A d \in Calls : phase'[d] = IF d = c THEN p ELSE phase[d]
  BY <1>1
<1>6. /\ p \in {"asked", "running", "over", "denied"} /\ (phase[c] = "running" => p = "over")
      /\ phase[c] \in {"new", "asked", "running"}
  BY DEF IsEvent
<1>7. /\ \A d \in Calls \ {c} : \A m : /\ MayTouch(d, m)' <=> MayTouch(d, m)
                                       /\ MayDelete(d, m)' <=> MayDelete(d, m)
      /\ Underway' \ {c} = Underway \ {c} /\ Done \subseteq Done'
  BY <1>5, <1>6 DEF MayTouch, MayDelete, RequestKey, Underway, Done
<1>8. \A d \in Calls \ {c} : Namesakes(d) \subseteq Namesakes(d)' /\ Stale(d)' \subseteq Stale(d)
  BY <1>5, <1>6, StaleShrinks
<1>9. TypeOK'
  BY <1>0, <1>1, <1>4, <1>6 DEF TypeOK
<1>10. HandlersSound'
  <2>1. \A g \in Handlers : WritesLast(todo'[g])
    BY <1>0, <1>3, <1>4 DEF HandlersSound, WritesLast
  <2>2. ASSUME NEW g \in Handlers, NEW x \in Ahead(g)'
        PROVE  /\ x.op = "touch" => g \in Calls /\ MayTouch(g, x.on)'
               /\ x.op = "delete" /\ g \in Calls => MayDelete(g, x.on)'
               /\ x.op = "clear" => g \in Agents
               /\ x.op \in {"clear all", "rmdir"} => g = Session
    <3>1. CASE g = c
      BY <1>4, <2>2, <3>1 DEF IsEvent
    <3>2. CASE g # c
      BY <1>0, <1>4, <1>7, <2>2, <3>2 DEF HandlersSound
    <3>3. QED
      BY <3>1, <3>2
  <2>3. \A d \in Calls : todo'[d] # <<>> => phase'[d] # "new"
    BY <1>0, <1>2, <1>4, <1>5, <1>6 DEF HandlersSound
  <2>4. QED
    BY <2>1, <2>2, <2>3 DEF HandlersSound, WritesLast
<1>11. MarkersSound'
  BY <1>0, <1>1, <1>5, <1>6 DEF MarkersSound, RequestKey
<1>12. UnderwaySound'
  <2>1. ASSUME NEW d \in Underway'
        PROVE  /\ up'
               /\ d \notin mixed' => \A a \in Agents : Idle(a)'
               /\ todo'[d] # <<>> => exists' \/ Head(todo'[d]) = Mkdir
    <3>1. CASE d = c
      BY <1>1, <1>2, <1>3, <1>4, <3>1 DEF Idle
    <3>2. CASE d # c
      <4>1. d \in Underway /\ d \in Handlers
        BY <1>2, <1>7, <2>1, <3>2 DEF Underway
      <4>2. QED
        BY <1>0, <1>1, <1>2, <1>4, <3>2, <4>1 DEF UnderwaySound, Idle
    <3>3. QED
      BY <3>1, <3>2
  <2>2. Idle(Session)'
    BY <1>0, <1>1, <1>2, <1>4 DEF UnderwaySound, Idle
  <2>3. QED
    BY <2>1, <2>2 DEF UnderwaySound
<1>13. WorkSound'
  <2> SUFFICES ASSUME NEW d \in Underway' \ (died' \cup mixed')
               PROVE  /\ phase'[d] = "asked" /\ (d \in Nameless => Namesakes(d)' = {}) =>
                           Perm(RequestKey(d)) \in files' \/ Touch(Perm(RequestKey(d))) \in Ahead(d)'
                      /\ phase'[d] = "running" => Tool(d) \in files' \/ Touch(Tool(d)) \in Ahead(d)'
    BY DEF WorkSound, RequestKey
  <2>1. CASE d = c
    BY <1>2, <1>4, <1>5, <2>1 DEF IsEvent
  <2>2. CASE d # c
    <3>1. d \in Underway \ (died \cup mixed) /\ d \in Calls \ {c} /\ d \in Handlers
      BY <1>1, <1>2, <1>7, <2>2 DEF Underway
    <3>2. Namesakes(d)' = {} => Namesakes(d) = {}
      BY <1>8, <3>1
    <3>3. QED
      BY <1>0, <1>1, <1>4, <1>5, <3>1, <3>2 DEF WorkSound
  <2>3. QED
    BY <2>1, <2>2
<1>14. AnswersSound'
  <2> SUFFICES ASSUME NEW d \in Calls \ died, phase'[d] \in {"running", "over", "denied"},
                      phase'[d] = "denied" => d \notin Nameless, NEW m \in Stale(d)' \cap files
               PROVE  Removes(d, m)'
    BY <1>1 DEF AnswersSound
  <2>1. CASE d = c
    <3>1. Delete(m) \in ops
      BY <1>5, <2>1 DEF IsEvent
    <3>2. QED
      BY <1>2, <1>4, <2>1, <3>1 DEF Removes
  <2>2. CASE d # c
    <3>1. m \in Stale(d)
      BY <1>8, <2>2
    <3>2. QED
      BY <1>0, <1>2, <1>4, <1>5, <2>2, <3>1 DEF AnswersSound, Removes
  <2>3. QED
    BY <2>1, <2>2
<1>15. TurnsSound'
  <2>1. ASSUME NEW d \in closed
        PROVE  /\ d \in Done' /\ Idle(d)'
               /\ AgentOf[d] \notin died => \A m \in Stale(d)' \cap files : Removes(AgentOf[d], m)'
    <3>1. d \in Calls /\ d # c /\ d \in Done'
      BY <1>0, <1>6, <1>7 DEF TypeOK, TurnsSound, Done
    <3>2. Stale(d)' \subseteq Stale(d)
      BY <1>8, <3>1
    <3>3. QED
      BY <1>0, <1>2, <1>4, <3>1, <3>2 DEF TurnsSound, Removes, Idle
  <2>2. QED
    BY <1>1, <2>1 DEF TurnsSound
<1>16. QED
  BY <1>9, <1>10, <1>11, <1>12, <1>13, <1>14, <1>15 DEF HInv
LEMMA AskKeeps ==
  ASSUME HInv, NEW c \in Calls, Ask(c)
  PROVE  HInv'
<1> DEFINE ops == {Mkdir, Touch(Perm(RequestKey(c)))}
<1>1. Event(c, "asked", PermissionRequest(c)) /\ phase[c] = "new" /\ phase'[c] = "asked"
  BY DEF Ask, Event, Enter, HInv, TypeOK
<1>2. IsHandler(PermissionRequest(c), ops)
  BY HandlersAre
<1>3. IsEvent(c, "asked", ops)
  <2>1. MayTouch(c, Perm(RequestKey(c)))'
    BY <1>1 DEF MayTouch, RequestKey
  <2>2. QED
    BY <1>1, <2>1, StepsAre, ZenonT(30) DEF IsEvent
<1> HIDE DEF ops
<1>4. QED
  BY <1>1, <1>2, <1>3, EventKeeps

LEMMA UseKeeps ==
  ASSUME HInv, NEW c \in Calls, Use(c)
  PROVE  HInv'
<1> DEFINE ops == {Mkdir, Delete(Perm(c)), Delete(Perm(ToolOf[c])), Touch(Tool(c))}
<1>1. Event(c, "running", PreToolUse(c)) /\ phase[c] \in {"new", "asked"} /\ phase'[c] = "running"
  BY DEF Use, Event, Enter, HInv, TypeOK
<1>2. IsHandler(PreToolUse(c), ops)
  BY HandlersAre
<1>3. Stale(c)' \subseteq {Perm(c), Perm(ToolOf[c])}
  BY <1>1 DEF Stale
<1>4. IsEvent(c, "running", ops)
  <2>1. /\ MayTouch(c, Tool(c))'
        /\ MayDelete(c, Perm(c))' /\ MayDelete(c, Perm(ToolOf[c]))'
    BY <1>1 DEF MayTouch, MayDelete
  <2>2. ASSUME NEW x \in ops
        PROVE  /\ x.op \in {"mkdir", "touch", "delete"}
               /\ x.op = "touch" => MayTouch(c, x.on)'
               /\ x.op = "delete" => MayDelete(c, x.on)'
    <3>1. CASE x = Mkdir
      BY <3>1, StepsAre
    <3>2. CASE x = Touch(Tool(c))
      BY <2>1, <3>2, StepsAre
    <3>3. CASE x \in {Delete(Perm(c)), Delete(Perm(ToolOf[c]))}
      <4>1. PICK m \in {Perm(c), Perm(ToolOf[c])} : x = Delete(m)
        BY <3>3
      <4>2. x.op = "delete" /\ x.on = m /\ MayDelete(c, m)'
        BY <2>1, <4>1, StepsAre
      <4>3. QED
        BY <4>2
    <3>4. QED
      BY <3>1, <3>2, <3>3
  <2>3. Touch(Tool(c)) \in ops /\ \A m \in Stale(c)' : Delete(m) \in ops
    BY <1>3
  <2> HIDE DEF ops
  <2>4. QED
    BY <1>1, <2>2, <2>3 DEF IsEvent
<1> HIDE DEF ops
<1>5. QED
  BY <1>1, <1>2, <1>4, EventKeeps

LEMMA FinishKeeps ==
  ASSUME HInv, NEW c \in Calls, Finish(c)
  PROVE  HInv'
<1> DEFINE ops == {Mkdir, Delete(Tool(c)), Delete(Perm(c)), Delete(Perm(ToolOf[c]))}
<1>1. Event(c, "over", PostToolUse(c)) /\ phase[c] = "running" /\ phase'[c] = "over"
  BY DEF Finish, Event, Enter, HInv, TypeOK
<1>2. IsHandler(PostToolUse(c), ops)
  BY HandlersAre
<1>3. Stale(c)' \subseteq {Tool(c), Perm(c), Perm(ToolOf[c])}
  BY DEF Stale
<1>4. IsEvent(c, "over", ops)
  <2>1. /\ MayDelete(c, Tool(c))'
        /\ MayDelete(c, Perm(c))' /\ MayDelete(c, Perm(ToolOf[c]))'
    BY <1>1 DEF MayDelete
  <2>2. ASSUME NEW x \in ops
        PROVE  /\ x.op \in {"mkdir", "touch", "delete"}
               /\ x.op = "touch" => MayTouch(c, x.on)'
               /\ x.op = "delete" => MayDelete(c, x.on)'
    <3>1. CASE x = Mkdir
      BY <3>1, StepsAre
    <3>2. CASE x \in {Delete(Tool(c)), Delete(Perm(c)), Delete(Perm(ToolOf[c]))}
      <4>1. PICK m \in {Tool(c), Perm(c), Perm(ToolOf[c])} : x = Delete(m)
        BY <3>2
      <4>2. x.op = "delete" /\ x.on = m /\ MayDelete(c, m)'
        BY <2>1, <4>1, StepsAre
      <4>3. QED
        BY <4>2
    <3>3. QED
      BY <3>1, <3>2
  <2>3. \A m \in Stale(c)' : Delete(m) \in ops
    BY <1>3
  <2> HIDE DEF ops
  <2>4. QED
    BY <1>1, <2>2, <2>3 DEF IsEvent
<1> HIDE DEF ops
<1>5. QED
  BY <1>1, <1>2, <1>4, EventKeeps

\* A denied call was never run, and what its name is asked under is a namesake's.
LEMMA DenyKeeps ==
  ASSUME HInv, NEW c \in Calls, Deny(c)
  PROVE  HInv'
<1>1. PICK key \in {c, RequestKey(c)} : Event(c, "denied", PermissionDenied(key))
  BY DEF Deny
<1> DEFINE ops == {Mkdir, Delete(Perm(key))}
<1>2. phase[c] = "asked" /\ phase'[c] = "denied"
  BY <1>1 DEF Deny, Event, Enter, HInv, TypeOK
<1>3. IsHandler(PermissionDenied(key), ops)
  BY HandlersAre
<1>4. MayDelete(c, Perm(key))'
  BY <1>2 DEF MayDelete, RequestKey
<1>5. ASSUME c \notin Nameless, NEW m \in Stale(c)' \cap files
      PROVE  m = Perm(key)
  <2>1. key = c
    BY <1>5 DEF RequestKey
  <2>2. \A d \in Calls : phase[d] # "new" => phase'[d] # "new"
    BY <1>1, <1>2 DEF Event, Enter, HInv, TypeOK
  <2>3. m # Tool(c)
    BY <1>2, NamesAre DEF HInv, MarkersSound
  <2>4. CASE m = Perm(ToolOf[c]) /\ Namesakes(c)' = {} /\ m # Perm(c)
    <3>1. PICK d \in Calls : m = Perm(RequestKey(d)) /\ phase[d] # "new"
      BY <2>4, NamesAre DEF HInv, MarkersSound
    <3>2. d \in Nameless /\ ToolOf[d] = ToolOf[c]
      BY <2>4, <3>1, NamesAre
    <3>3. d \in Namesakes(c)'
      BY <1>5, <2>2, <3>1, <3>2 DEF Namesakes
    <3>4. QED
      BY <2>4, <3>3
  <2>5. QED
    BY <2>1, <2>3, <2>4 DEF Stale
<1>6. IsEvent(c, "denied", ops)
  BY <1>2, <1>4, <1>5, StepsAre, ZenonT(30) DEF IsEvent
<1> HIDE DEF ops
<1>7. QED
  BY <1>1, <1>3, <1>6, EventKeeps

\* Nothing is told of a call that is abandoned: its markers stay as they are.
LEMMA AbandonKeeps ==
  ASSUME HInv, NEW c \in Calls, Abandon(c)
  PROVE  HInv'
<1>0. /\ TypeOK /\ HandlersSound /\ MarkersSound /\ UnderwaySound
      /\ WorkSound /\ AnswersSound /\ TurnsSound
  BY DEF HInv
<1>1. /\ UNCHANGED <<exists, files, todo, up, leaves, died, mixed, closed>>
      /\ phase' = [phase EXCEPT ![c] = "gone"] /\ phase[c] \in {"asked", "running"} /\ Idle(c)
      /\ phase \in [Calls -> {"new", "asked", "running", "denied", "over", "gone"}]
  BY <1>0 DEF Abandon, Enter, TypeOK
<1>2. \A d \in Calls : phase'[d] = IF d = c THEN "gone" ELSE phase[d]
  BY <1>1
<1>3. /\ Underway' = Underway \ {c} /\ Done \subseteq Done' /\ c \notin Done
      /\ \A d \in Calls : Namesakes(d)' = Namesakes(d)
      /\ \A d \in Calls \ {c} : Stale(d)' = Stale(d)
      /\ \A d \in Calls \ {c} : \A m : /\ MayTouch(d, m)' <=> MayTouch(d, m)
                                       /\ MayDelete(d, m)' <=> MayDelete(d, m)
  BY <1>1, <1>2 DEF Underway, Done, Namesakes, Stale, MayTouch, MayDelete, RequestKey
<1>4. TypeOK'
  BY <1>0, <1>1 DEF TypeOK
<1>5. HandlersSound'
  <2>1. \A h \in Handlers : Ahead(h)' = Ahead(h) /\ (h = c => Ahead(h) = {})
    BY <1>1 DEF Ahead, Idle, ToSet
  <2>2. \A d \in Calls : todo'[d] # <<>> => phase'[d] # "new"
    BY <1>0, <1>1, <1>2 DEF HandlersSound
  <2>3. QED
    BY <1>0, <1>1, <1>3, <2>1, <2>2 DEF HandlersSound
<1>6. MarkersSound'
  BY <1>0, <1>1, <1>2 DEF MarkersSound, RequestKey
<1>7. UnderwaySound'
  BY <1>0, <1>1, <1>3 DEF UnderwaySound, Idle
<1>8. WorkSound'
  BY <1>0, <1>1, <1>2, <1>3 DEF WorkSound, RequestKey, Ahead, Underway
<1>9. AnswersSound'
  BY <1>0, <1>1, <1>2, <1>3 DEF AnswersSound, Removes, Ahead
<1>10. TurnsSound'
  <2>1. \A d \in closed : d \in Calls \ {c}
    BY <1>0, <1>3 DEF TurnsSound, TypeOK
  <2>2. QED
    BY <1>0, <1>1, <1>3, <2>1 DEF TurnsSound, Removes, Ahead, Idle
<1>11. QED
  BY <1>4, <1>5, <1>6, <1>7, <1>8, <1>9, <1>10 DEF HInv
\* The end of a turn will remove every marker of the calls of its agent, and of
\* whatever else is under way, which from here on is mixed up with it.
LEMMA EndTurnKeeps ==
  ASSUME HInv, NEW a \in Agents, EndTurn(a)
  PROVE  HInv'
<1>0. /\ TypeOK /\ HandlersSound /\ MarkersSound /\ UnderwaySound
      /\ WorkSound /\ AnswersSound /\ TurnsSound
  BY DEF HInv
<1>1. /\ UNCHANGED <<exists, files, phase, up, leaves, died>>
      /\ todo' = [todo EXCEPT ![a] = Stop] /\ todo \in [Handlers -> Seq(Steps)]
      /\ Mine(a) \cap Underway = {} /\ \A c \in Mine(a) : Idle(c)
      /\ mixed' = mixed \cup (Underway \ Mine(a)) /\ closed' = closed \cup (Mine(a) \cap Done)
  BY <1>0 DEF EndTurn, TypeOK
<1>2. /\ Session \in Handlers /\ Calls \subseteq Handlers /\ a \in Handlers
      /\ \A c \in Calls : AgentOf[c] \in Handlers
      /\ a # Session /\ a \notin Calls
  BY NamesAre DEF Handlers
<1> DEFINE ops == {Mkdir, Clear("tool"), Clear("perm")}
<1>3. Stop \in Seq(Steps) /\ ToSet(Stop) = ops /\ WritesLast(Stop)
  BY HandlersAre DEF IsHandler
<1>4. \A x \in ops : x.op \in {"mkdir", "clear"}
  BY StepsAre
<1>5. ASSUME NEW m \in Markers PROVE Clear(m[1]) \in ops
  BY DEF Markers, Tool, Perm
<1> HIDE DEF ops
<1>6. /\ \A g \in Handlers : todo'[g] = IF g = a THEN Stop ELSE todo[g]
      /\ \A g \in Handlers : Ahead(g)' = IF g = a THEN ops ELSE Ahead(g)
      /\ todo' \in [Handlers -> Seq(Steps)]
  BY <1>1, <1>3 DEF Ahead
<1>7. /\ Underway' = Underway /\ Done' = Done /\ Underway \subseteq mixed'
      /\ \A c \in Calls : Namesakes(c)' = Namesakes(c) /\ Stale(c)' = Stale(c)
      /\ \A c, m : (MayTouch(c, m)' <=> MayTouch(c, m)) /\ (MayDelete(c, m)' <=> MayDelete(c, m))
  BY <1>1 DEF Underway, Done, Namesakes, Stale, MayTouch, MayDelete
<1>8. TypeOK'
  <2>1. Underway \subseteq Calls /\ Mine(a) \subseteq Calls
    BY DEF Underway, Mine
  <2>2. QED
    BY <1>0, <1>1, <1>6, <2>1 DEF TypeOK
<1>9. HandlersSound'
  <2>1. \A g \in Handlers : WritesLast(todo'[g])
    BY <1>0, <1>3, <1>6 DEF HandlersSound, WritesLast
  <2>2. ASSUME NEW g \in Handlers, NEW x \in Ahead(g)'
        PROVE  /\ x.op = "touch" => g \in Calls /\ MayTouch(g, x.on)'
               /\ x.op = "delete" /\ g \in Calls => MayDelete(g, x.on)'
               /\ x.op = "clear" => g \in Agents
               /\ x.op \in {"clear all", "rmdir"} => g = Session
    <3>1. CASE g = a
      BY <1>4, <1>6, <2>2, <3>1
    <3>2. CASE g # a
      BY <1>0, <1>6, <1>7, <2>2, <3>2 DEF HandlersSound
    <3>3. QED
      BY <3>1, <3>2
  <2>3. \A c \in Calls : todo'[c] # <<>> => phase'[c] # "new"
    BY <1>0, <1>1, <1>2, <1>6 DEF HandlersSound
  <2>4. QED
    BY <2>1, <2>2, <2>3 DEF HandlersSound, WritesLast
<1>10. MarkersSound'
  BY <1>0, <1>1 DEF MarkersSound, RequestKey
<1>11. UnderwaySound'
  BY <1>0, <1>1, <1>2, <1>6, <1>7 DEF UnderwaySound, Idle, Underway
<1>12. WorkSound'
  BY <1>7 DEF WorkSound
<1>13. AnswersSound'
  BY <1>0, <1>1, <1>2, <1>6, <1>7 DEF AnswersSound, Removes
<1>14. TurnsSound'
  <2>1. ASSUME NEW c \in closed'
        PROVE  /\ c \in Done /\ Idle(c)' /\ c \in Calls
               /\ AgentOf[c] \notin died => \A m \in Stale(c) \cap files : Removes(AgentOf[c], m)'
    <3>1. c \in Calls /\ c \in Done /\ Idle(c) /\ (c \in closed \/ AgentOf[c] = a)
      BY <1>0, <1>1, <2>1 DEF TurnsSound, TypeOK, Mine
    <3>2. Idle(c)'
      BY <1>2, <1>6, <3>1 DEF Idle
    <3>3. CASE AgentOf[c] = a
      <4>1. \A m \in files : Removes(a, m)'
        BY <1>0, <1>2, <1>5, <1>6 DEF Removes, TypeOK
      <4>2. QED
        BY <3>1, <3>2, <3>3, <4>1
    <3>4. CASE AgentOf[c] # a
      BY <1>0, <1>2, <1>6, <3>1, <3>2, <3>4 DEF TurnsSound, Removes
    <3>5. QED
      BY <3>3, <3>4
  <2>2. QED
    BY <1>1, <1>7, <2>1 DEF TurnsSound
<1>15. QED
  BY <1>8, <1>9, <1>10, <1>11, <1>12, <1>13, <1>14 DEF HInv

\* With the session everything under way is gone, and no marker of it is to be there.
LEMMA LeaveKeeps ==
  ASSUME HInv, Leave, NEW s \in {todo[Session], SessionEnd},
         todo' = [todo EXCEPT ![Session] = s]
  PROVE  HInv'
<1>0. /\ TypeOK /\ HandlersSound /\ MarkersSound /\ UnderwaySound
      /\ WorkSound /\ AnswersSound /\ TurnsSound
  BY DEF HInv
<1>1. /\ UNCHANGED <<exists, files, died, mixed, closed>>
      /\ up' = FALSE /\ leaves' = leaves + 1 /\ leaves + Cardinality(died) < MaxMishaps
      /\ todo \in [Handlers -> Seq(Steps)]
      /\ \A c \in Calls : phase'[c] = IF phase[c] \in {"asked", "running"} THEN "gone" ELSE phase[c]
  BY <1>0 DEF Leave, TypeOK, Underway
<1>2. /\ Session \in Handlers /\ Calls \subseteq Handlers
      /\ \A c \in Calls : AgentOf[c] \in Handlers /\ AgentOf[c] # Session
      /\ Session \notin Calls /\ Session \notin Agents
  BY NamesAre DEF Handlers
<1>3. /\ s \in Seq(Steps) /\ WritesLast(s)
      /\ \A x \in ToSet(s) : x.op \in {"mkdir", "clear all", "rmdir"} \/ x \in Ahead(Session)
  <2>1. CASE s = SessionEnd
    BY <2>1, HandlersAre, StepsAre DEF IsHandler
  <2>2. CASE s = todo[Session]
    BY <1>0, <1>1, <1>2, <2>2 DEF HandlersSound, WritesLast, Ahead
  <2>3. QED
    BY <2>1, <2>2
<1>4. /\ \A g \in Handlers \ {Session} : todo'[g] = todo[g] /\ Ahead(g)' = Ahead(g)
      /\ todo'[Session] = s /\ Ahead(Session)' = ToSet(s)
      /\ todo' \in [Handlers -> Seq(Steps)]
  BY <1>1, <1>2, <1>3 DEF Ahead
<1>5. /\ Underway' = {} /\ Done \subseteq Done'
      /\ \A c \in Calls : phase'[c] = "new" <=> phase[c] = "new"
      /\ \A c \in Done : phase'[c] = phase[c]
  BY <1>1 DEF Underway, Done
<1>6. /\ \A c \in Calls : phase'[c] = phase[c] => Stale(c)' \subseteq Stale(c)
      /\ \A c \in Calls : \A m : (MayTouch(c, m) => MayTouch(c, m)')
                                 /\ (MayDelete(c, m) => MayDelete(c, m)')
  BY <1>1, <1>5, StaleShrinks DEF MayTouch, MayDelete, RequestKey
<1>7. TypeOK'
  <2>1. leaves + 1 \in 0..MaxMishaps
    <3>1. Cardinality(died) \in Nat
      BY <1>0, FS_CardinalityType DEF MarkersSound
    <3>2. QED
      BY <1>0, <1>1, <3>1, HooksAssumption DEF TypeOK
  <2>2. phase' \in [Calls -> {"new", "asked", "running", "denied", "over", "gone"}]
    BY <1>0 DEF Leave, TypeOK
  <2>3. QED
    BY <1>0, <1>1, <1>4, <2>1, <2>2 DEF TypeOK
<1>8. HandlersSound'
  <2>1. \A g \in Handlers : WritesLast(todo'[g])
    BY <1>0, <1>3, <1>4 DEF HandlersSound, WritesLast
  <2>2. ASSUME NEW g \in Handlers, NEW x \in Ahead(g)'
        PROVE  /\ x.op = "touch" => g \in Calls /\ MayTouch(g, x.on)'
               /\ x.op = "delete" /\ g \in Calls => MayDelete(g, x.on)'
               /\ x.op = "clear" => g \in Agents
               /\ x.op \in {"clear all", "rmdir"} => g = Session
    <3>1. x \in Ahead(g) \/ (g = Session /\ x.op \in {"mkdir", "clear all", "rmdir"})
      BY <1>3, <1>4, <2>2
    <3>2. QED
      BY <1>0, <1>6, <3>1 DEF HandlersSound
  <2>3. \A c \in Calls : todo'[c] # <<>> => phase'[c] # "new"
    BY <1>0, <1>2, <1>4, <1>5 DEF HandlersSound
  <2>4. QED
    BY <2>1, <2>2, <2>3 DEF HandlersSound, WritesLast
<1>9. MarkersSound'
  BY <1>0, <1>1 DEF MarkersSound, RequestKey
<1>10. UnderwaySound' /\ WorkSound'
  BY <1>1, <1>5 DEF UnderwaySound, WorkSound
<1>11. AnswersSound'
  <2>1. ASSUME NEW c \in Calls, phase'[c] \in {"running", "over", "denied"}
        PROVE  phase'[c] = phase[c] /\ c \in Handlers \ {Session}
    BY <1>1, <1>2, <2>1
  <2>2. QED
    BY <1>0, <1>1, <1>4, <1>6, <2>1 DEF AnswersSound, Removes
<1>12. TurnsSound'
  <2>1. \A c \in closed : c \in Calls /\ c \in Done
    BY <1>0 DEF TurnsSound, TypeOK
  <2>2. QED
    BY <1>0, <1>1, <1>2, <1>4, <1>5, <1>6, <2>1 DEF TurnsSound, Removes, Idle
<1>13. QED
  BY <1>7, <1>8, <1>9, <1>10, <1>11, <1>12 DEF HInv

LEMMA ResumeKeeps ==
  ASSUME HInv, Resume
  PROVE  HInv'
<1>1. /\ TypeOK /\ HandlersSound /\ MarkersSound /\ UnderwaySound
      /\ WorkSound /\ AnswersSound /\ TurnsSound
  BY DEF HInv
<1>2. /\ UNCHANGED <<exists, files, todo, phase, leaves, died, mixed, closed>>
      /\ ~up /\ Idle(Session) /\ up' = TRUE
  BY DEF Resume
<1>3. Underway' = Underway /\ Underway = {} /\ Done' = Done
  BY <1>1, <1>2 DEF UnderwaySound, Underway, Done
<1>4. TypeOK' /\ MarkersSound' /\ UnderwaySound' /\ WorkSound'
  BY <1>1, <1>2, <1>3 DEF TypeOK, MarkersSound, UnderwaySound, WorkSound, Idle, RequestKey
<1>5. HandlersSound'
  BY <1>1, <1>2 DEF HandlersSound, MayTouch, MayDelete, RequestKey, Ahead
<1>6. AnswersSound' /\ TurnsSound'
  BY <1>1, <1>2, <1>3 DEF AnswersSound, TurnsSound, Stale, Namesakes, Removes, Ahead, Idle
<1>7. QED
  BY <1>4, <1>5, <1>6 DEF HInv

LEMMA StutterKeeps ==
  ASSUME HInv, UNCHANGED vars
  PROVE  HInv'
<1>1. /\ TypeOK /\ HandlersSound /\ MarkersSound /\ UnderwaySound
      /\ WorkSound /\ AnswersSound /\ TurnsSound
  BY DEF HInv
<1>2. UNCHANGED <<exists, files, todo, phase, up, leaves, died, mixed, closed>>
  BY DEF vars
<1>3. TypeOK'
  BY <1>1, <1>2 DEF TypeOK
<1>4. HandlersSound'
  BY <1>1, <1>2 DEF HandlersSound, MayTouch, MayDelete, RequestKey, Ahead
<1>5. MarkersSound' /\ UnderwaySound'
  BY <1>1, <1>2 DEF MarkersSound, UnderwaySound, Underway, Idle, RequestKey
<1>6. WorkSound'
  BY <1>1, <1>2 DEF WorkSound, Underway, Namesakes, RequestKey, Ahead
<1>7. AnswersSound' /\ TurnsSound'
  BY <1>1, <1>2 DEF AnswersSound, TurnsSound, Stale, Namesakes, Removes, Ahead, Idle, Done
<1>8. QED
  BY <1>3, <1>4, <1>5, <1>6, <1>7 DEF HInv

LEMMA StartsSound == Init => HInv
<1> SUFFICES ASSUME Init PROVE HInv
  OBVIOUS
<1>1. /\ files = {} /\ closed = {} /\ up = TRUE /\ leaves = 0 /\ died = {} /\ mixed = {}
      /\ exists = FALSE /\ <<>> \in Seq(Steps) /\ ToSet(<<>>) = {} /\ Len(<<>>) = 0
      /\ todo = [h \in Handlers |-> <<>>] /\ phase = [c \in Calls |-> "new"]
  BY DEF Init, ToSet
<1>2. Underway = {} /\ \A h \in Handlers : todo[h] = <<>> /\ Ahead(h) = {}
  BY <1>1 DEF Underway, Ahead
<1>3. TypeOK
  <2>1. todo \in [Handlers -> Seq(Steps)]
    BY <1>1
  <2>2. phase \in [Calls -> {"new", "asked", "running", "denied", "over", "gone"}]
    BY <1>1
  <2>3. leaves \in 0..MaxMishaps
    BY <1>1, HooksAssumption
  <2>4. QED
    BY <1>1, <2>1, <2>2, <2>3 DEF TypeOK
<1>4. HandlersSound
  <2>1. \A h \in Handlers : 1..Len(todo[h]) = {}
    BY <1>1, <1>2
  <2>2. \A c \in Calls : todo[c] = <<>>
    BY <1>2 DEF Handlers
  <2>3. QED
    BY <1>2, <2>1, <2>2 DEF HandlersSound
<1>5. MarkersSound
  BY <1>1, FS_EmptySet DEF MarkersSound
<1>6. UnderwaySound /\ WorkSound /\ AnswersSound /\ TurnsSound
  BY <1>1, <1>2 DEF UnderwaySound, WorkSound, AnswersSound, TurnsSound, Idle, Handlers
<1>7. QED
  BY <1>3, <1>4, <1>5, <1>6 DEF HInv

LEMMA NextKeeps == HInv /\ [Next]_vars => HInv'
<1> SUFFICES ASSUME HInv, [Next]_vars PROVE HInv'
  OBVIOUS
<1>1. ASSUME NEW h \in Handlers, Step(h) PROVE HInv'
  BY <1>1, StepIs, StepKeeps DEF HInv
<1>2. ASSUME NEW h \in Handlers, Die(h) PROVE HInv'
  BY <1>2, DieKeeps
<1>3. ASSUME NEW c \in Calls, Ask(c) \/ Use(c) \/ Finish(c) \/ Deny(c) \/ Abandon(c)
      PROVE  HInv'
  BY <1>3, AskKeeps, UseKeeps, FinishKeeps, DenyKeeps, AbandonKeeps
<1>4. ASSUME NEW a \in Agents, EndTurn(a) PROVE HInv'
  BY <1>4, EndTurnKeeps
<1>5. CASE Quit
  BY <1>5, LeaveKeeps DEF Quit
<1>6. CASE Kill
  <2>1. todo' = [todo EXCEPT ![Session] = todo[Session]]
    BY <1>6 DEF Kill, HInv, TypeOK
  <2>2. QED
    BY <1>6, <2>1, LeaveKeeps DEF Kill
<1>7. CASE Resume
  BY <1>7, ResumeKeeps
<1>8. CASE UNCHANGED vars
  BY <1>8, StutterKeeps
<1>9. QED
  BY <1>1, <1>2, <1>3, <1>4, <1>5, <1>6, <1>7, <1>8 DEF Next

LEMMA HooksSound == Spec => []HInv
  BY StartsSound, NextKeeps, PTL DEF Spec
-----------------------------------------------------------------------------
(* What Store.Read reports. *)

\* A marker of the call under way that is not there would still be ahead of it.
LEMMA WorkReported == HInv => WorkIsReported
<1> SUFFICES ASSUME HInv PROVE WorkIsReported
  OBVIOUS
<1>1. ASSUME NEW c \in Calls, Settled(c) PROVE Ahead(c) = {} /\ c \notin died
  BY <1>1 DEF Settled, Idle, Ahead, ToSet
<1>2. RequestIsReported
  <2> SUFFICES ASSUME NEW c \in Calls, phase[c] = "asked", Settled(c), c \notin mixed,
                      c \in Nameless => Namesakes(c) = {}
               PROVE  RequestKey(c) \in PendingPermissions
    BY DEF RequestIsReported
  <2>1. Perm(RequestKey(c)) \in files
    BY <1>1 DEF HInv, WorkSound, Underway
  <2>2. QED
    BY <2>1, KeysAre DEF PendingPermissions
<1>3. RunningIsReported
  <2> SUFFICES ASSUME NEW c \in Calls, phase[c] = "running", Settled(c), c \notin mixed
               PROVE  c \in RunningTools
    BY DEF RunningIsReported
  <2>1. Tool(c) \in files
    BY <1>1 DEF HInv, WorkSound, Underway
  <2>2. QED
    BY <2>1 DEF RunningTools
<1>4. QED
  BY <1>2, <1>3 DEF WorkIsReported

\* A stale marker that is there would still be to be removed.
LEMMA StaleGone == HInv => NothingStaleIsReported
<1> SUFFICES ASSUME HInv PROVE NothingStaleIsReported
  OBVIOUS
<1>1. ASSUME NEW h, NEW m, Settled(h) PROVE ~Removes(h, m) /\ h \notin died
  BY <1>1 DEF Settled, Idle, Removes, Ahead, ToSet
<1>2. AnswersSound /\ TurnsSound /\ TypeOK
  BY DEF HInv
<1>3. AnsweredIsNotReported
  <2> SUFFICES ASSUME NEW c \in Calls, phase[c] \in {"running", "over", "denied"}, Settled(c),
                      phase[c] = "denied" => c \notin Nameless
               PROVE  Stale(c) \cap files = {}
    BY DEF AnsweredIsNotReported, PendingPermissions, RunningTools, Stale
  <2>1. QED
    BY <1>1, <1>2 DEF AnswersSound
<1>4. TurnLeavesNothing
  <2>1. ASSUME NEW c \in closed, Settled(AgentOf[c])
        PROVE  Stale(c) \cap files = {} /\ phase[c] # "running"
    BY <1>1, <1>2, <2>1 DEF TurnsSound, Done
  <2>2. QED
    BY <2>1 DEF TurnLeavesNothing, Stale
<1>5. QED
  BY <1>2, <1>3, <1>4 DEF NothingStaleIsReported

\* Whatever the handlers of a session do side by side, and whichever of them die,
\* a call that is asked for or runs is reported once its own handler is through:
\* hooks.go:8-12.
THEOREM WorkStaysReported == Spec => []WorkIsReported
  BY HooksSound, WorkReported, PTL

\* And nothing is that was answered, has finished, or was left behind by a turn
\* whose end was handled: clearPermission and the Stop of hooks.go:140-148.
THEOREM NothingStaleStays == Spec => []NothingStaleIsReported
  BY HooksSound, StaleGone, PTL

-----------------------------------------------------------------------------
(***************************************************************************)
(* The settings file the hooks are installed in, for any handlers of the   *)
(* operator's, any events, binaries and commands, and any number of saves. *)
(*                                                                         *)
(* A command nothing overlapped runs alone, so that the temporary file is  *)
(* its own, and what it has read, copied and written is still what is      *)
(* there; two commands at once are known for it.  The invariant says both, *)
(* and what the file comes to say follows from what `Without` leaves of a  *)
(* list, which is shown by induction over lists.                           *)
(***************************************************************************)

(* Lists of handlers.                                                       *)

\* A set with the empty list and every list of it continued has all lists.
LEMMA AllLists ==
  ASSUME NEW T, NEW Q, <<>> \in Q,
         \A s \in Seq(T), x \in T : s \in Q => Append(s, x) \in Q
  PROVE  Seq(T) \subseteq Q
<1> DEFINE S == {n \in Nat : \A s \in Seq(T) : Len(s) = n => s \in Q}
<1>1. 0 \in S
  <2>1. \A s \in Seq(T) : Len(s) = 0 => s = <<>>
    OBVIOUS
  <2>2. QED
    BY <2>1
<1>2. ASSUME NEW n \in Nat, n \in S PROVE n + 1 \in S
  <2> SUFFICES ASSUME NEW s \in Seq(T), Len(s) = n + 1 PROVE s \in Q
    OBVIOUS
  <2> DEFINE front == SubSeq(s, 1, n)
  <2>1. front \in Seq(T) /\ Len(front) = n /\ s[n + 1] \in T
    OBVIOUS
  <2>2. s = Append(front, s[n + 1])
    OBVIOUS
  <2>3. front \in Q
    BY <1>2, <2>1
  <2> HIDE DEF front
  <2>4. QED
    BY <2>1, <2>2, <2>3
<1>3. Nat \subseteq S
  <2> HIDE DEF S
  <2>1. QED
    BY <1>1, <1>2, AllNaturals
<1>4. QED
  BY <1>3

\* The lists `Without` goes through.
Keeps(k, s, gone, T) ==
  /\ k \in [0..Len(s) -> Seq(T)]
  /\ k[0] = <<>>
  /\ \A n \in 1..Len(s) :
       k[n] = IF s[n] \in gone THEN k[n - 1] ELSE Append(k[n - 1], s[n])

\* They are lists, and the last of them is what is left.
LEMMA WithoutIs ==
  ASSUME NEW T, NEW s \in Seq(T), NEW gone
  PROVE  \E k : Keeps(k, s, gone, T) /\ Without(s, gone) = k[Len(s)]
<1> DEFINE N == Len(s)
           g == [n \in 1..N |-> [v \in Seq(T) |->
                   IF s[n] \in gone THEN v ELSE Append(v, s[n])]]
           Is(r) == r = [n \in 0..N |-> IF n = 0 THEN <<>>
                                        ELSE IF s[n] \in gone THEN r[n - 1]
                                        ELSE Append(r[n - 1], s[n])]
           r0 == CHOOSE r : Is(r)
<1>1. N \in Nat /\ \A n \in 1..N : s[n] \in T
  OBVIOUS
<1>2. Without(s, gone) = r0[N]
  BY DEF Without
<1> HIDE DEF N
<1>3. g \in [1..N -> [Seq(T) -> Seq(T)]]
  BY <1>1
<1>4. PICK h \in [0..N -> Seq(T)] : h[0] = <<>> /\ \A n \in 1..N : h[n] = g[n][h[n - 1]]
  <2> HIDE DEF g
  <2>1. <<>> \in Seq(T)
    OBVIOUS
  <2>2. Iteration(N, Seq(T), <<>>, g) # {}
    BY <1>1, <1>3, <2>1, Iterates
  <2>3. QED
    BY <2>2 DEF Iteration
<1>5. \A n \in 1..N : h[n] = IF s[n] \in gone THEN h[n - 1] ELSE Append(h[n - 1], s[n])
  <2> SUFFICES ASSUME NEW n \in 1..N
               PROVE  h[n] = IF s[n] \in gone THEN h[n - 1] ELSE Append(h[n - 1], s[n])
    OBVIOUS
  <2>1. h[n - 1] \in Seq(T)
    BY <1>1
  <2>2. QED
    BY <1>4, <2>1
<1>6. Is(h)
  <2>1. h = [n \in 0..N |-> h[n]]
    OBVIOUS
  <2>2. ASSUME NEW n \in 0..N
        PROVE  h[n] = IF n = 0 THEN <<>>
                      ELSE IF s[n] \in gone THEN h[n - 1] ELSE Append(h[n - 1], s[n])
    <3>1. CASE n = 0
      BY <1>4, <3>1
    <3>2. CASE n # 0
      <4>1. n \in 1..N
        BY <1>1, <3>2
      <4>2. QED
        BY <1>5, <3>2, <4>1, Zenon
    <3>3. QED
      BY <3>1, <3>2
  <2>3. QED
    BY <2>1, <2>2
<1>7. Is(r0)
  <2> HIDE DEF Is
  <2>1. QED
    BY <1>6, Zenon
<1> HIDE DEF r0
<1>8. /\ r0 = [n \in 0..N |-> r0[n]]
      /\ \A n \in 0..N : r0[n] = IF n = 0 THEN <<>>
                                 ELSE IF s[n] \in gone THEN r0[n - 1]
                                 ELSE Append(r0[n - 1], s[n])
  BY <1>7
<1> HIDE DEF Is
<1>9. /\ r0[0] = <<>>
      /\ \A n \in 1..N : r0[n] = IF s[n] \in gone THEN r0[n - 1] ELSE Append(r0[n - 1], s[n])
  <2>1. 0 \in 0..N /\ \A n \in 1..N : n \in 0..N /\ n # 0
    BY <1>1
  <2>2. QED
    BY <1>8, <2>1
<1>10. \A n \in 0..N : r0[n] \in Seq(T)
  <2> DEFINE S == {n \in Nat : n <= N => r0[n] \in Seq(T)}
  <2>1. 0 \in S
    <3> DEFINE a == r0[0]
    <3>1. a \in Seq(T)
      <4>1. a = <<>>
        BY <1>9
      <4>2. <<>> \in Seq(T)
        OBVIOUS
      <4>3. QED
        BY <4>1, <4>2, Zenon
    <3> HIDE DEF a
    <3>2. 0 \in Nat /\ (0 <= N => a \in Seq(T))
      BY <3>1
    <3>3. QED
      BY <3>2 DEF a
  <2>2. ASSUME NEW n \in Nat, n \in S PROVE n + 1 \in S
    <3> SUFFICES ASSUME n + 1 <= N PROVE r0[n + 1] \in Seq(T)
      OBVIOUS
    <3>1. n + 1 \in 1..N /\ (n + 1) - 1 = n /\ n <= N
      BY <1>1
    <3>2. r0[n] \in Seq(T) /\ s[n + 1] \in T
      BY <1>1, <2>2, <3>1
    <3>3. r0[n + 1] = IF s[n + 1] \in gone THEN r0[n] ELSE Append(r0[n], s[n + 1])
      BY <1>9, <3>1
    <3>4. QED
      BY <3>2, <3>3
  <2> HIDE DEF S
  <2>3. Nat \subseteq S
    BY <2>1, <2>2, AllNaturals
  <2>4. QED
    BY <2>3 DEF S
<1>11. Keeps(r0, s, gone, T)
  BY <1>8, <1>9, <1>10 DEF Keeps, N
<1>12. QED
  BY <1>2, <1>11 DEF N

\* What is left of a list continued.
LEMMA WithoutAppend ==
  ASSUME NEW T, NEW s \in Seq(T), NEW x \in T, NEW gone
  PROVE  /\ Without(s, gone) \in Seq(T)
         /\ Without(Append(s, x), gone) =
              IF x \in gone THEN Without(s, gone) ELSE Append(Without(s, gone), x)
<1> DEFINE N == Len(s)
           l == Append(s, x)
<1>1. PICK k : Keeps(k, s, gone, T) /\ Without(s, gone) = k[N]
  BY WithoutIs
<1>2. l \in Seq(T) /\ Len(l) = N + 1 /\ N \in Nat /\ l[N + 1] = x /\ \A n \in 1..N : l[n] = s[n]
  OBVIOUS
<1>3. PICK j : Keeps(j, l, gone, T) /\ Without(l, gone) = j[N + 1]
  BY <1>2, WithoutIs
<1> HIDE DEF N, l
<1>4. Nat \subseteq {n \in Nat : n <= N => j[n] = k[n]}
  <2> DEFINE S == {n \in Nat : n <= N => j[n] = k[n]}
  <2>1. 0 \in S
    <3>1. j[0] = <<>> /\ k[0] = <<>>
      BY <1>1, <1>3 DEF Keeps
    <3> DEFINE a == j[0]
               b == k[0]
    <3>2. a = b
      BY <3>1
    <3> HIDE DEF a, b
    <3>3. 0 \in Nat /\ (0 <= N => a = b)
      BY <3>2
    <3>4. QED
      BY <3>3 DEF a, b
  <2>2. ASSUME NEW n \in Nat, n \in S PROVE n + 1 \in S
    <3> SUFFICES ASSUME n + 1 <= N PROVE j[n + 1] = k[n + 1]
      OBVIOUS
    <3>1. n + 1 \in 1..N /\ n + 1 \in 1..(N + 1) /\ (n + 1) - 1 = n /\ n <= N
      BY <1>2
    <3>2. j[n] = k[n] /\ l[n + 1] = s[n + 1]
      BY <1>2, <2>2, <3>1
    <3>3. j[n + 1] = IF l[n + 1] \in gone THEN j[n] ELSE Append(j[n], l[n + 1])
      BY <1>2, <1>3, <3>1 DEF Keeps
    <3>4. k[n + 1] = IF s[n + 1] \in gone THEN k[n] ELSE Append(k[n], s[n + 1])
      BY <1>1, <3>1 DEF Keeps, N
    <3>5. QED
      BY <3>2, <3>3, <3>4
  <2> HIDE DEF S
  <2>3. Nat \subseteq S
    BY <2>1, <2>2, AllNaturals
  <2>4. QED
    BY <2>3 DEF S
<1>5. j[N] = k[N] /\ k[N] \in Seq(T)
  BY <1>1, <1>2, <1>4 DEF Keeps, N
<1>6. j[N + 1] = IF x \in gone THEN j[N] ELSE Append(j[N], x)
  <2>1. N + 1 \in 1..(N + 1) /\ (N + 1) - 1 = N
    BY <1>2
  <2>2. QED
    BY <1>2, <1>3, <2>1 DEF Keeps
<1>7. QED
  BY <1>1, <1>3, <1>5, <1>6 DEF l

\* Nothing is left of an empty list.
LEMMA WithoutEmpty ==
  ASSUME NEW gone
  PROVE  Without(<<>>, gone) = <<>>
<1>1. PICK k : Keeps(k, <<>>, gone, {}) /\ Without(<<>>, gone) = k[Len(<<>>)]
  <2>1. <<>> \in Seq({})
    OBVIOUS
  <2>2. QED
    BY <2>1, WithoutIs
<1>2. QED
  BY <1>1 DEF Keeps

\* What is left are the handlers not to be gone, no more of them than there were.
LEMMA WithoutHas ==
  ASSUME NEW T, NEW gone
  PROVE  \A s \in Seq(T) : /\ Without(s, gone) \in Seq(T)
                           /\ ToSet(Without(s, gone)) = ToSet(s) \ gone
                           /\ Len(Without(s, gone)) <= Len(s)
<1> DEFINE Q == {s \in Seq(T) : /\ Without(s, gone) \in Seq(T)
                                /\ ToSet(Without(s, gone)) = ToSet(s) \ gone
                                /\ Len(Without(s, gone)) <= Len(s)}
<1>1. <<>> \in Q
  <2>1. ToSet(<<>>) = {} /\ <<>> \in Seq(T) /\ Len(<<>>) = 0
    BY DEF ToSet
  <2>2. ToSet(<<>>) = ToSet(<<>>) \ gone /\ Len(<<>>) <= Len(<<>>)
    BY <2>1
  <2>3. Without(<<>>, gone) = <<>>
    BY WithoutEmpty
  <2>4. QED
    BY <2>1, <2>2, <2>3, Zenon
<1>2. ASSUME NEW s \in Seq(T), NEW x \in T, s \in Q PROVE Append(s, x) \in Q
  <2> DEFINE l == Append(s, x)
             w == Without(s, gone)
  <2>1. /\ w \in Seq(T) /\ Len(w) <= Len(s)
        /\ ToSet(w) = ToSet(s) \ gone
    BY <1>2
  <2>2. Without(l, gone) = IF x \in gone THEN w ELSE Append(w, x)
    BY WithoutAppend
  <2> HIDE DEF w
  <2>3. \A q \in Seq(T) : ToSet(Append(q, x)) = ToSet(q) \cup {x}
    <3> SUFFICES ASSUME NEW q \in Seq(T) PROVE ToSet(Append(q, x)) = ToSet(q) \cup {x}
      OBVIOUS
    <3>1. /\ DOMAIN Append(q, x) = 1..(Len(q) + 1) /\ DOMAIN q = 1..Len(q) /\ Len(q) \in Nat
          /\ Append(q, x)[Len(q) + 1] = x /\ \A i \in 1..Len(q) : Append(q, x)[i] = q[i]
      OBVIOUS
    <3>2. 1..(Len(q) + 1) = (1..Len(q)) \cup {Len(q) + 1}
      BY <3>1
    <3>3. QED
      BY <3>1, <3>2 DEF ToSet
  <2>4. l \in Seq(T) /\ Len(l) = Len(s) + 1 /\ Append(w, x) \in Seq(T)
        /\ Len(Append(w, x)) = Len(w) + 1 /\ Len(w) \in Nat /\ Len(s) \in Nat
    BY <2>1
  <2>5. ToSet(l) = ToSet(s) \cup {x} /\ ToSet(Append(w, x)) = ToSet(w) \cup {x}
    BY <2>1, <2>3
  <2> HIDE DEF l
  <2> DEFINE m == Append(w, x)
  <2> HIDE DEF m
  <2>6. ASSUME x \in gone PROVE l \in Q
    <3>1. ToSet(w) = ToSet(l) \ gone
      BY <2>1, <2>5, <2>6
    <3>2. Len(w) <= Len(l)
      BY <2>1, <2>4
    <3>3. QED
      BY <2>1, <2>2, <2>4, <2>6, <3>1, <3>2 DEF m
  <2>7. ASSUME x \notin gone PROVE l \in Q
    <3>1. ToSet(m) = ToSet(l) \ gone
      BY <2>1, <2>5, <2>7 DEF m
    <3>2. Len(m) <= Len(l) /\ m \in Seq(T)
      BY <2>1, <2>4 DEF m
    <3>3. Without(l, gone) = m
      BY <2>2, <2>7 DEF m
    <3>4. QED
      BY <2>4, <3>1, <3>2, <3>3
  <2>8. QED
    BY <2>6, <2>7 DEF l
<1> HIDE DEF Q
<1>3. Seq(T) \subseteq Q
  BY <1>1, <1>2, AllLists
<1>4. QED
  BY <1>3 DEF Q

\* Nothing is left when all of them go.
LEMMA WithoutAny ==
  ASSUME NEW T, NEW gone, NEW s \in Seq(T), ToSet(s) \subseteq gone
  PROVE  Without(s, gone) = <<>>
<1> DEFINE w == Without(s, gone)
<1>1. w \in Seq(T) /\ ToSet(w) = {}
  BY WithoutHas
<1> HIDE DEF w
<1>2. Len(w) = 0
  <2> SUFFICES ASSUME Len(w) # 0 PROVE FALSE
    OBVIOUS
  <2>1. Len(w) \in Nat /\ 1 \in DOMAIN w
    BY <1>1
  <2>2. QED
    BY <1>1, <2>1 DEF ToSet
<1>3. QED
  BY <1>1, <1>2 DEF w

\* Going one after the other is going together.
LEMMA WithoutTwice ==
  ASSUME NEW T, NEW gone, NEW more, NEW s \in Seq(T)
  PROVE  Without(Without(s, gone), more) = Without(s, gone \cup more)
<1> DEFINE Q == {q \in Seq(T) : Without(Without(q, gone), more) = Without(q, gone \cup more)}
<1>1. <<>> \in Q
  BY WithoutEmpty
<1>2. ASSUME NEW q \in Seq(T), NEW x \in T, q \in Q PROVE Append(q, x) \in Q
  <2> DEFINE w == Without(q, gone)
  <2>1. /\ w \in Seq(T) /\ Without(w, more) = Without(q, gone \cup more)
        /\ Without(Append(q, x), gone) = IF x \in gone THEN w ELSE Append(w, x)
    BY <1>2, WithoutAppend
  <2>2. /\ Without(Append(q, x), gone \cup more) =
             IF x \in gone \cup more THEN Without(q, gone \cup more)
             ELSE Append(Without(q, gone \cup more), x)
    BY WithoutAppend
  <2> HIDE DEF w
  <2>3. Without(Append(w, x), more) = IF x \in more THEN Without(w, more)
                                      ELSE Append(Without(w, more), x)
    <3>1. \A v \in Seq(T) : Without(Append(v, x), more) =
            IF x \in more THEN Without(v, more) ELSE Append(Without(v, more), x)
      BY WithoutAppend
    <3>2. QED
      BY <2>1, <3>1
  <2>4. Append(q, x) \in Seq(T)
    OBVIOUS
  <2>5. QED
    BY <2>1, <2>2, <2>3, <2>4
<1> HIDE DEF Q
<1>3. Seq(T) \subseteq Q
  BY <1>1, <1>2, AllLists
<1>4. QED
  BY <1>3 DEF Q

-----------------------------------------------------------------------------
(* The invariant. *)

\* Some two commands overlapped, or one and a save of the operator's each.
Overlapped == \E p, q \in raced : p # q

\* The operator's handlers of two documents are the same, and so is the rest.
Same(doc, other) ==
  /\ doc.own = other.own
  /\ \A e \in Events \cup Others :
       Without(doc.hooks[e], Binaries) = Without(other.hooks[e], Binaries)

\* The handlers birddog does not recognise, its own of another name among them.
Foreign == Theirs \cup Unnamed

\* At most one handler of an event is one it does.
Clean(doc) == \A e \in Events \cup Others : Len(Without(doc.hooks[e], Foreign)) <= 1

\* What a command is asked for has been done to a document.
Fulfils(doc, ask) ==
  /\ ask = Uninstall => Status(doc) = "missing"
  /\ ask # Uninstall => MatchesInstall(doc, ask)
  /\ ask \in Named => \A e \in Events : Without(doc.hooks[e], Foreign) = <<ask>>

\* A file is there when it has a name or a command has it open, which only a
\* command about to write has.
FilesSound ==
  /\ \A i \in Inodes : inode[i] # Missing =>
       i \in {path, tmp} \/ \E r \in Runs : run[r].fd = i
  /\ \A r \in Runs : /\ run[r].fd # 0 <=> run[r].at = "write"
                     /\ run[r].fd # 0 => inode[run[r].fd] # Missing

\* One command at least has no file open that the temporary name is not of.
TmpSound == tmp # 0 => \E r \in Runs : run[r].fd \in {0, tmp}

DocumentsSound ==
  /\ \A i \in Inodes : inode[i] \in Documents => Clean(inode[i])
  /\ \A r \in Runs : Clean(run[r].doc)

\* A command nothing overlapped is alone, and two at once were recorded.
RacesSound ==
  /\ \A p \in Busy \ raced : Busy = {p}
  /\ ~Overlapped => \A p, q \in Busy : p = q

Prepared(r) == run[r].at \in {"backup", "copy", "open", "write"}

\* Alone, a command has the temporary file to itself.
WritesSound ==
  \A r \in Busy : r \notin raced \/ ~Overlapped =>
    /\ run[r].at = "write" => run[r].fd = tmp /\ inode[tmp] = Blank
    /\ run[r].at = "rename" => tmp # 0 /\ inode[tmp] \in Documents

\* What it replaces is copied or about to be, if it could be read.
BackupSound ==
  \A r \in Busy \ raced : File # Missing /\ r \notin unread =>
    /\ run[r].at = "copy" => run[r].copy = File
    /\ run[r].at \in {"open", "write", "rename"} => backup = File

\* What it is about to put in place is what was asked.
AsksSound ==
  \A r \in Busy \ raced :
    /\ Prepared(r) => Fulfils(run[r].doc, run[r].ask)
    /\ run[r].at = "rename" => Fulfils(inode[tmp], run[r].ask)

\* And until anything overlaps, it is the operator's.
TheirsSound ==
  raced = {} =>
    /\ path = 0 => last = Empty
    /\ IsDocument => Same(File, last)
    /\ \A r \in Busy : /\ Prepared(r) => Same(run[r].doc, last)
                       /\ run[r].at = "rename" => Same(inode[tmp], last)

-----------------------------------------------------------------------------
(* Documents.                                                               *)

\* What can be in a list.
Handler == Theirs \cup Binaries

\* The handlers of a list.
LEMMA ListHas ==
  ASSUME NEW s \in Seq(Handler)
  PROVE  ToSet(s) \subseteq Handler
BY DEF ToSet

\* What birddog does not recognise is all that is not of the right name.
LEMMA ForeignIs ==
  /\ Handler = Foreign \cup Named
  /\ Foreign \cap Named = {}
  /\ Named \cup Binaries = Binaries /\ Uninstall \notin Named
BY SettingsAssumption DEF Handler, Foreign, Unnamed

\* What is left of a list when those birddog recognises are taken out.
LEMMA UninstallLeaves ==
  ASSUME NEW s \in Seq(Handler)
  PROVE  LET a == WithoutBirddog(s)
         IN  /\ a \in Seq(Handler)
             /\ Without(a, Binaries) = Without(s, Binaries)
             /\ ToSet(a) \cap Named = {}
             /\ Without(a, Foreign) = <<>>
<1> DEFINE w == Without(s, Named)
<1>1. w \in Seq(Handler) /\ ToSet(w) = ToSet(s) \ Named
  BY WithoutHas
<1>2. ToSet(s) \subseteq Handler
  BY ListHas
<1>3. ToSet(w) \cap Named = {} /\ ToSet(w) \subseteq Foreign
  BY <1>1, <1>2, ForeignIs
<1>4. Without(w, Binaries) = Without(s, Named \cup Binaries)
  BY WithoutTwice
<1>5. Without(w, Binaries) = Without(s, Binaries)
  BY <1>4, ForeignIs
<1> HIDE DEF w
<1>6. Without(w, Foreign) = <<>>
  BY <1>1, <1>3, WithoutAny
<1>7. QED
  BY <1>1, <1>3, <1>5, <1>6 DEF w, WithoutBirddog

\* An install leaves the operator's handlers, and its own, which is the only one
\* recognised if it is.
LEMMA InstallLeaves ==
  ASSUME NEW s \in Seq(Handler), NEW b \in Binaries
  PROVE  LET a == Append(WithoutBirddog(s), b)
         IN  /\ a \in Seq(Handler)
             /\ Without(a, Binaries) = Without(s, Binaries)
             /\ b \in ToSet(a)
             /\ b \in Named => Without(a, Foreign) = <<b>>
             /\ b \notin Named => Without(a, Foreign) = <<>>
<1> DEFINE w == WithoutBirddog(s)
<1>1. /\ w \in Seq(Handler) /\ Without(w, Binaries) = Without(s, Binaries)
      /\ Without(w, Foreign) = <<>>
  BY UninstallLeaves
<1>2. b \in Handler /\ (b \in Foreign <=> b \notin Named)
  BY ForeignIs DEF Handler
<1> HIDE DEF w
<1>3. /\ Without(Append(w, b), Binaries) = Without(w, Binaries)
      /\ Without(Append(w, b), Foreign) =
           IF b \in Foreign THEN Without(w, Foreign) ELSE Append(Without(w, Foreign), b)
  <2>1. \A v \in Seq(Handler) : Without(Append(v, b), Binaries) =
          IF b \in Binaries THEN Without(v, Binaries) ELSE Append(Without(v, Binaries), b)
    BY <1>2, WithoutAppend
  <2>2. \A v \in Seq(Handler) : Without(Append(v, b), Foreign) =
          IF b \in Foreign THEN Without(v, Foreign) ELSE Append(Without(v, Foreign), b)
    BY <1>2, WithoutAppend
  <2>3. QED
    BY <1>1, <2>1, <2>2
<1>4. Append(<<>>, b) = <<b>> /\ Append(w, b) \in Seq(Handler)
  BY <1>1, <1>2
<1>5. b \in ToSet(Append(w, b))
  <2>1. Append(w, b)[Len(w) + 1] = b /\ Len(w) + 1 \in DOMAIN Append(w, b)
    BY <1>1, <1>2
  <2>2. QED
    BY <2>1 DEF ToSet
<1>6. /\ b \in Named => Without(Append(w, b), Foreign) = <<b>>
      /\ b \notin Named => Without(Append(w, b), Foreign) = <<>>
  BY <1>1, <1>2, <1>3, <1>4
<1>7. QED
  BY <1>1, <1>3, <1>4, <1>5, <1>6 DEF w

\* A list with the handler that was to be installed, and no other birddog recognises,
\* needs none.
LEMMA NothingToInstall ==
  ASSUME NEW s \in Seq(Handler), NEW b \in Named, b \in ToSet(s),
         Len(Without(s, Foreign)) <= 1
  PROVE  Without(s, Foreign) = <<b>>
<1> DEFINE w == Without(s, Foreign)
<1>1. w \in Seq(Handler) /\ ToSet(w) = ToSet(s) \ Foreign /\ Len(w) <= 1
  BY WithoutHas
<1>2. b \in ToSet(w)
  BY <1>1, ForeignIs
<1> HIDE DEF w
<1>3. PICK i \in DOMAIN w : w[i] = b
  BY <1>2 DEF ToSet
<1>4. Len(w) = 1 /\ w[1] = b
  <2>1. w \in Seq(Handler) /\ Len(w) <= 1
    BY <1>1
  <2>2. Len(w) \in Nat /\ i \in 1..Len(w)
    BY <1>3, <2>1
  <2>3. i = 1 /\ Len(w) = 1
    <3>1. \A m \in Nat : \A j \in 1..m : m <= 1 => j = 1 /\ m = 1
      OBVIOUS
    <3>2. QED
      BY <2>1, <2>2, <3>1
  <2>4. QED
    BY <1>3, <2>3
<1>5. w = <<b>>
  BY <1>1, <1>4
<1>6. QED
  BY <1>5 DEF w

\* An operator's edit adds none of birddog's.
LEMMA EditedSound ==
  ASSUME NEW s \in Seq(Handler), NEW a \in Edited(s)
  PROVE  /\ a \in Seq(Handler)
         /\ Len(Without(a, Foreign)) <= Len(Without(s, Foreign))
<1>1. CASE \E x \in Theirs : a = Append(s, x)
  <2>1. PICK x \in Theirs : a = Append(s, x)
    BY <1>1
  <2>2. x \in Handler /\ x \in Foreign
    BY DEF Handler, Foreign
  <2>3. Without(a, Foreign) = Without(s, Foreign) /\ Without(s, Foreign) \in Seq(Handler)
    BY <2>1, <2>2, WithoutAppend
  <2>4. a \in Seq(Handler)
    BY <2>1, <2>2
  <2>5. \A v \in Seq(Handler) : Len(v) <= Len(v)
    OBVIOUS
  <2>6. QED
    BY <2>3, <2>4, <2>5
<1>2. CASE \E x : a = Without(s, {x})
  <2>1. PICK x : a = Without(s, {x})
    BY <1>2
  <2>2. a \in Seq(Handler) /\ Without(s, Foreign) \in Seq(Handler)
    BY <2>1, WithoutHas
  <2>3. /\ Without(a, Foreign) = Without(s, {x} \cup Foreign)
        /\ Without(Without(s, Foreign), {x}) = Without(s, Foreign \cup {x})
    BY <2>1, WithoutTwice
  <2>4. {x} \cup Foreign = Foreign \cup {x}
    OBVIOUS
  <2>5. Without(a, Foreign) = Without(Without(s, Foreign), {x})
    BY <2>3, <2>4
  <2>6. Len(Without(Without(s, Foreign), {x})) <= Len(Without(s, Foreign))
    <3>1. \A v \in Seq(Handler) : Len(Without(v, {x})) <= Len(v)
      BY WithoutHas
    <3>2. QED
      BY <2>2, <3>1
  <2>7. QED
    BY <2>2, <2>5, <2>6
<1>3. QED
  BY <1>1, <1>2 DEF Edited

\* The parts of a document.
LEMMA DocumentHas ==
  ASSUME NEW doc \in Documents
  PROVE  /\ doc = [own |-> doc.own, hooks |-> doc.hooks]
         /\ doc.own \in 0..MaxSaves
         /\ doc.hooks \in [Events \cup Others -> Seq(Handler)]
BY DEF Documents, Handler

\* What a command leaves of a document is a document with everything of the
\* operator's in it, and what was asked.
LEMMA ResultSound ==
  ASSUME NEW doc \in Documents, Clean(doc),
         NEW ask \in Binaries \cup {Uninstall}
  PROVE  LET new == Result(doc, ask)
         IN  /\ new \in Documents
             /\ Clean(new)
             /\ Fulfils(new, ask)
             /\ Same(new, doc)
<1> DEFINE N == Events \cup Others
           new == Result(doc, ask)
<1>0. /\ doc.own \in 0..MaxSaves /\ doc.hooks \in [N -> Seq(Handler)]
      /\ \A e \in N : doc.hooks[e] \in Seq(Handler)
  BY DocumentHas
<1>1. CASE ask = Uninstall
  <2> DEFINE h == [e \in N |-> WithoutBirddog(doc.hooks[e])]
  <2>1. new = [doc EXCEPT !.hooks = h]
    BY <1>1 DEF Result, Uninstalled
  <2>2. \A e \in N : /\ h[e] \in Seq(Handler)
                     /\ Without(h[e], Binaries) = Without(doc.hooks[e], Binaries)
                     /\ ToSet(h[e]) \cap Named = {}
                     /\ Without(h[e], Foreign) = <<>>
    BY <1>0, UninstallLeaves, Zenon
  <2>3. h \in [N -> Seq(Handler)]
    <3>1. \A e \in N : WithoutBirddog(doc.hooks[e]) \in Seq(Handler)
      BY <2>2
    <3>2. QED
      BY <3>1
  <2> HIDE DEF h
  <2>4. new.own = doc.own /\ new.hooks = h /\ new \in Documents
    BY <1>0, <2>1, <2>3 DEF Documents, Handler
  <2> HIDE DEF new
  <2>5. Clean(new)
    <3>1. Len(<<>>) <= 1
      OBVIOUS
    <3>2. QED
      BY <2>2, <2>4, <3>1 DEF Clean
  <2>6. Status(new) = "missing"
    <3>1. {e \in Events : \E x \in ToSet(new.hooks[e]) : IsBirddog(x)} = {}
      BY <2>2, <2>4 DEF IsBirddog
    <3>2. Events # {}
      BY SettingsAssumption
    <3>3. QED
      BY <3>1, <3>2 DEF Status
  <2>7. Same(new, doc)
    BY <2>2, <2>4 DEF Same
  <2>8. QED
    BY <1>1, <2>4, <2>5, <2>6, <2>7, ForeignIs DEF Fulfils, new
<1>2. CASE ask # Uninstall /\ MatchesInstall(doc, ask)
  <2>1. new = doc /\ ask \in Binaries
    BY <1>2 DEF Result
  <2>2. ask \in Named => \A e \in Events : Without(doc.hooks[e], Foreign) = <<ask>>
    <3> SUFFICES ASSUME ask \in Named, NEW e \in Events
                 PROVE  Without(doc.hooks[e], Foreign) = <<ask>>
      OBVIOUS
    <3>1. doc.hooks[e] \in Seq(Handler) /\ ask \in ToSet(doc.hooks[e])
          /\ Len(Without(doc.hooks[e], Foreign)) <= 1
      BY <1>0, <1>2 DEF MatchesInstall, Clean
    <3>2. QED
      BY <3>1, NothingToInstall
  <2>3. QED
    BY <1>2, <2>1, <2>2 DEF Fulfils, Same
<1>3. CASE ask # Uninstall /\ ~MatchesInstall(doc, ask)
  <2> DEFINE h == [e \in N |-> IF e \in Events
                               THEN Append(WithoutBirddog(doc.hooks[e]), ask)
                               ELSE doc.hooks[e]]
  <2>1. ask \in Binaries /\ new = [doc EXCEPT !.hooks = h]
    BY <1>3 DEF Result, Installed
  <2>2. \A e \in Events :
          LET a == Append(WithoutBirddog(doc.hooks[e]), ask)
          IN  /\ a \in Seq(Handler)
              /\ Without(a, Binaries) = Without(doc.hooks[e], Binaries)
              /\ ask \in ToSet(a)
              /\ ask \in Named => Without(a, Foreign) = <<ask>>
              /\ ask \notin Named => Without(a, Foreign) = <<>>
    <3> SUFFICES ASSUME NEW e \in Events
                 PROVE  LET a == Append(WithoutBirddog(doc.hooks[e]), ask)
                        IN  /\ a \in Seq(Handler)
                            /\ Without(a, Binaries) = Without(doc.hooks[e], Binaries)
                            /\ ask \in ToSet(a)
                            /\ ask \in Named => Without(a, Foreign) = <<ask>>
                            /\ ask \notin Named => Without(a, Foreign) = <<>>
      BY Zenon
    <3>1. doc.hooks[e] \in Seq(Handler)
      BY <1>0
    <3>2. QED
      BY <2>1, <3>1, InstallLeaves
  <2>3. \A e \in Events : h[e] = Append(WithoutBirddog(doc.hooks[e]), ask)
    OBVIOUS
  <2>4. \A e \in N : e \notin Events => h[e] = doc.hooks[e]
    OBVIOUS
  <2>5. h \in [N -> Seq(Handler)]
    <3>1. \A e \in N : (IF e \in Events THEN Append(WithoutBirddog(doc.hooks[e]), ask)
                        ELSE doc.hooks[e]) \in Seq(Handler)
      BY <1>0, <2>2
    <3>2. QED
      BY <3>1
  <2> HIDE DEF h
  <2>6. new.own = doc.own /\ new.hooks = h /\ new \in Documents
    BY <1>0, <2>1, <2>5 DEF Documents, Handler
  <2> HIDE DEF new
  <2>7. Clean(new)
    <3>1. Len(<<ask>>) <= 1 /\ Len(<<>>) <= 1
      OBVIOUS
    <3>2. \A e \in Events : Len(Without(new.hooks[e], Foreign)) <= 1
      BY <2>2, <2>3, <2>6, <3>1
    <3>3. \A e \in N : e \notin Events => Len(Without(new.hooks[e], Foreign)) <= 1
      BY <2>4, <2>6 DEF Clean
    <3>4. QED
      BY <3>2, <3>3 DEF Clean
  <2>8. Fulfils(new, ask)
    <3>1. MatchesInstall(new, ask)
      BY <2>2, <2>3, <2>6 DEF MatchesInstall
    <3>2. ask \in Named => \A e \in Events : Without(new.hooks[e], Foreign) = <<ask>>
      BY <2>2, <2>3, <2>6
    <3>3. QED
      BY <1>3, <3>1, <3>2 DEF Fulfils
  <2>9. Same(new, doc)
    <3>1. \A e \in Events : Without(new.hooks[e], Binaries) = Without(doc.hooks[e], Binaries)
      BY <2>2, <2>3, <2>6
    <3>2. \A e \in N : e \notin Events => new.hooks[e] = doc.hooks[e]
      BY <2>4, <2>6
    <3>3. QED
      BY <2>6, <3>1, <3>2 DEF Same
  <2>10. QED
    BY <2>6, <2>7, <2>8, <2>9 DEF new
<1>4. QED
  BY <1>1, <1>2, <1>3, Zenon

\* And what an operator saves is a document with no more of birddog's in it.
LEMMA SavedSound ==
  ASSUME NEW doc \in Documents, Clean(doc), NEW n \in 0..MaxSaves,
         NEW e \in Events \cup Others, NEW handlers \in Edited(doc.hooks[e])
  PROVE  LET saved == [own |-> n, hooks |-> [doc.hooks EXCEPT ![e] = handlers]]
         IN  saved \in Documents /\ Clean(saved)
<1> DEFINE h == [doc.hooks EXCEPT ![e] = handlers]
<1>0. doc.hooks \in [Events \cup Others -> Seq(Handler)]
  BY DocumentHas
<1>1. doc.hooks[e] \in Seq(Handler)
  BY <1>0
<1>2. /\ handlers \in Seq(Handler)
      /\ Len(Without(handlers, Foreign)) <= Len(Without(doc.hooks[e], Foreign))
  BY <1>1, EditedSound
<1>3. /\ h \in [Events \cup Others -> Seq(Handler)] /\ h[e] = handlers
      /\ \A x \in Events \cup Others : x # e => h[x] = doc.hooks[x]
  BY <1>0, <1>2
<1>4. Len(Without(handlers, Foreign)) \in Nat
  <2>1. \A s \in Seq(Handler) : Len(Without(s, Foreign)) \in Nat
    <3>1. \A s \in Seq(Handler) : Without(s, Foreign) \in Seq(Handler)
      BY WithoutHas
    <3>2. QED
      BY <3>1
  <2>2. QED
    BY <1>2, <2>1
<1>5. Len(Without(doc.hooks[e], Foreign)) \in Nat
  <2>1. Without(doc.hooks[e], Foreign) \in Seq(Handler)
    BY <1>1, WithoutHas
  <2>2. QED
    BY <2>1
<1>6. Len(Without(doc.hooks[e], Foreign)) <= 1
  BY DEF Clean
<1>7. Len(Without(handlers, Foreign)) <= 1
  BY <1>2, <1>4, <1>5, <1>6
<1> HIDE DEF h
<1>8. Clean([own |-> n, hooks |-> h])
  <2>1. \A x \in Events \cup Others : Len(Without(h[x], Foreign)) <= 1
    BY <1>3, <1>7 DEF Clean
  <2>2. QED
    BY <2>1 DEF Clean
<1>9. [own |-> n, hooks |-> h] \in Documents
  BY <1>3 DEF Documents, Handler
<1>10. QED
  BY <1>8, <1>9 DEF h

\* The document of a missing or blank file.
LEMMA EmptySound ==
  Empty \in Documents /\ Clean(Empty)
<1>1. Without(<<>>, Foreign) = <<>>
  BY WithoutEmpty
<1>2. \A e \in Events \cup Others : Empty.hooks[e] = <<>>
  BY DEF Empty
<1>3. Clean(Empty)
  <2>1. Len(<<>>) <= 1
    OBVIOUS
  <2>2. QED
    BY <1>1, <1>2, <2>1 DEF Clean
<1>4. <<>> \in Seq(Theirs \cup Binaries) /\ 0 \in 0..MaxSaves
  BY SettingsAssumption
<1>5. QED
  BY <1>3, <1>4 DEF Empty, Documents

\* There is room for another file: no more are there than the settings file, and one
\* for each command, the temporary file among them.
LEMMA FreshSound ==
  ASSUME InstallTypeOK, FilesSound, TmpSound
  PROVE  /\ Fresh \in Inodes
         /\ inode[Fresh] = Missing
<1> DEFINE n == Cardinality(Runs)
           free == {i \in Inodes : inode[i] = Missing}
<1>0. IsFiniteSet(Runs)
  BY SettingsAssumption
<1>1. IsFiniteSet(Runs) /\ n \in Nat
  BY <1>0, FS_CardinalityType
<1>2. Inodes = 1..(n + 2)
  BY DEF Inodes
<1>3. PICK F : /\ IsFiniteSet(F) /\ Cardinality(F) <= n
               /\ tmp # 0 => tmp \in F
               /\ \A r \in Runs : run[r].fd # 0 => run[r].fd \in F
  <2>1. CASE tmp = 0
    <3> DEFINE F == {run[r].fd : r \in Runs}
               f == [r \in Runs |-> run[r].fd]
    <3>1. f \in Surjection(Runs, F)
      BY DEF Surjection
    <3> HIDE DEF f
    <3>2. IsFiniteSet(F) /\ Cardinality(F) <= n
      BY <1>1, <3>1, FS_Surjection
    <3>3. \A r \in Runs : run[r].fd \in F
      OBVIOUS
    <3> HIDE DEF F
    <3>4. QED
      BY <2>1, <3>2, <3>3
  <2>2. CASE tmp # 0
    <3>1. PICK a \in Runs : run[a].fd \in {0, tmp}
      BY <2>2 DEF TmpSound
    <3> DEFINE F == {IF r = a THEN tmp ELSE run[r].fd : r \in Runs}
               f == [r \in Runs |-> IF r = a THEN tmp ELSE run[r].fd]
    <3>2. f \in Surjection(Runs, F)
      BY DEF Surjection
    <3> HIDE DEF f
    <3>3. IsFiniteSet(F) /\ Cardinality(F) <= n
      BY <1>1, <3>2, FS_Surjection
    <3>4. tmp \in F /\ \A r \in Runs : r # a => run[r].fd \in F
      OBVIOUS
    <3> HIDE DEF F
    <3>5. QED
      BY <2>2, <3>1, <3>3, <3>4
  <2>3. QED
    BY <2>1, <2>2
<1>4. free # {}
  <2> SUFFICES ASSUME free = {} PROVE FALSE
    OBVIOUS
  <2> DEFINE G == F \cup {path}
  <2>1. IsFiniteSet(G) /\ Cardinality(G) <= n + 1
    <3>1. IsFiniteSet(G) /\ Cardinality(F) \in Nat
          /\ Cardinality(G) = IF path \in F THEN Cardinality(F) ELSE Cardinality(F) + 1
      BY <1>3, FS_AddElement, FS_CardinalityType
    <3>2. QED
      BY <1>1, <1>3, <3>1
  <2>2. Inodes \subseteq G
    <3> SUFFICES ASSUME NEW i \in Inodes PROVE i \in G
      OBVIOUS
    <3>1. inode[i] # Missing /\ i # 0
      BY <1>1, <1>2
    <3>2. i \in {path, tmp} \/ \E r \in Runs : run[r].fd = i
      BY <3>1 DEF FilesSound
    <3>3. QED
      BY <1>3, <3>1, <3>2
  <2>3. Cardinality(Inodes) <= n + 1 /\ Cardinality(G) \in Nat
    <3> HIDE DEF G
    <3>1. Cardinality(Inodes) <= Cardinality(G) /\ IsFiniteSet(Inodes)
      BY <2>1, <2>2, FS_Subset
    <3>2. Cardinality(Inodes) \in Nat /\ Cardinality(G) \in Nat
      BY <2>1, <3>1, FS_CardinalityType
    <3>3. QED
      BY <1>1, <2>1, <3>1, <3>2
  <2>4. Cardinality(Inodes) = n + 2
    <3>1. 1 \in Int /\ n + 2 \in Int /\ ~(1 > n + 2) /\ (n + 2) - 1 + 1 = n + 2
      BY <1>1
    <3>2. Cardinality(1..(n + 2)) = (n + 2) - 1 + 1
      BY <3>1, FS_Interval
    <3>3. QED
      BY <1>2, <3>1, <3>2
  <2>5. QED
    BY <1>1, <2>3, <2>4
<1>5. free \in SUBSET Nat
  BY <1>1, <1>2
<1>6. Fresh = Min(free)
  BY DEF Fresh
<1> HIDE DEF free
<1>7. Min(free) \in free
  BY <1>4, <1>5, MinIsLeast
<1>8. QED
  BY <1>6, <1>7 DEF free

-----------------------------------------------------------------------------
(* Steps.                                                                   *)

Command ==
  [at : {"start", "backup", "copy", "open", "write", "rename", "done", "failed"},
   ask : Binaries \cup {Uninstall}, doc : Documents,
   copy : Documents \cup {Torn, Blank}, fd : 0..Cardinality(Inodes)]

Content == Documents \cup {Torn, Blank, Missing}

\* What a file can hold is told apart.
LEMMA ContentsDiffer ==
  /\ Torn # Blank /\ Torn # Missing /\ Blank # Missing
  /\ Torn \notin Documents /\ Blank \notin Documents
  /\ Missing \notin Documents
BY SettingsAssumption

\* The inodes are numbered from 1.
LEMMA InodesAre ==
  /\ Cardinality(Inodes) \in Nat
  /\ Inodes = 1..Cardinality(Inodes)
  /\ Inodes = (0..Cardinality(Inodes)) \ {0}
  /\ 0 \notin Inodes
<1>1. IsFiniteSet(Runs)
  BY SettingsAssumption
<1>2. PICK n \in Nat : n = Cardinality(Runs)
  BY <1>1, FS_CardinalityType
<1>3. Inodes = 1..(n + 2)
  BY <1>2 DEF Inodes
<1>4. Cardinality(1..(n + 2)) = n + 2
  <2>1. 1 \in Int /\ n + 2 \in Int /\ ~(1 > n + 2) /\ (n + 2) - 1 + 1 = n + 2
    BY <1>2
  <2>2. Cardinality(1..(n + 2)) = (n + 2) - 1 + 1
    BY <2>1, FS_Interval
  <2>3. QED
    BY <2>1, <2>2
<1>5. QED
  BY <1>2, <1>3, <1>4

\* What the types say of a state.
Typed ==
  /\ inode \in [Inodes -> Content]
  /\ path \in Inodes \cup {0} /\ tmp \in Inodes \cup {0}
  /\ tmp # 0 => tmp # path /\ inode[tmp] # Missing
  /\ path # 0 => inode[path] # Missing
  /\ backup \in Content
  /\ run \in [Runs -> Command]
  /\ saves \in 0..MaxSaves /\ raced \subseteq Runs /\ unread \subseteq Runs
  /\ last \in Documents

\* And it says no more than the types.
LEMMA TypedIs ==
  InstallTypeOK <=> Typed
<1> DEFINE N == Cardinality(Inodes)
<1>1. \A x : x \in 0..N <=> x \in Inodes \cup {0}
  BY InodesAre
<1>2. {path, tmp} \subseteq 0..N <=> path \in Inodes \cup {0} /\ tmp \in Inodes \cup {0}
  BY <1>1
<1>3. (\A i \in {path, tmp} \ {0} : inode[i] # Missing)
        <=> (tmp # 0 => inode[tmp] # Missing) /\ (path # 0 => inode[path] # Missing)
  OBVIOUS
<1>4. QED
  BY <1>2, <1>3 DEF InstallTypeOK, Typed, Command, Content

\* What the settings file holds.
LEMMA FileSound ==
  ASSUME Typed
  PROVE  /\ File \in Content
         /\ File = Missing <=> path = 0
         /\ path # 0 => File = inode[path]
BY InodesAre DEF Typed, File, Content

\* A step of a command that runs is a step of the only one that nothing overlapped.
LEMMA AloneSteps ==
  ASSUME RacesSound, NEW r \in Busy, raced' = raced,
         run \in [Runs -> Command], run' \in [Runs -> Command],
         \A q \in Runs : q # r => run'[q] = run[q]
  PROVE  /\ Busy' \subseteq Busy
         /\ \A q \in Busy' \ raced' : q = r
         /\ ~Overlapped' => ~Overlapped /\ \A q \in Busy' : q = r
         /\ RacesSound'
         /\ Overlapped' = Overlapped
<1>1. Busy' \subseteq Busy
  BY DEF Busy
<1>2. Overlapped' = Overlapped
  BY DEF Overlapped
<1>3. \A q \in Busy \ raced : q = r
  BY DEF RacesSound
<1>4. ~Overlapped => \A q \in Busy : q = r
  BY DEF RacesSound
<1>5. RacesSound'
  BY <1>1, <1>2, <1>3, <1>4 DEF RacesSound
<1>6. QED
  BY <1>1, <1>2, <1>3, <1>4, <1>5

\* An overlap is not forgotten.
LEMMA OverlapStays ==
  ASSUME raced \subseteq raced'
  PROVE  Overlapped => Overlapped'
BY DEF Overlapped

\* The inductive invariant.
SettingsSound ==
  /\ Typed
  /\ FilesSound
  /\ TmpSound
  /\ DocumentsSound
  /\ RacesSound
  /\ WritesSound
  /\ (File \in {Torn, Blank} => Overlapped)
  /\ BackupSound
  /\ AsksSound
  /\ TheirsSound

\* At first there is no file and no command.
LEMMA InitSound ==
  ASSUME InstallInit
  PROVE  SettingsSound
<1> DEFINE E == Empty
<1>1. E \in Documents /\ Clean(E)
  BY EmptySound
<1>2. /\ inode = [i \in Inodes |-> Missing] /\ path = 0 /\ tmp = 0 /\ backup = Missing
      /\ run = [r \in Runs |-> Start] /\ saves = 0 /\ raced = {} /\ unread = {} /\ last = E
  BY DEF InstallInit
<1> DEFINE S == Start
<1>3. /\ S.at = "start" /\ S.fd = 0 /\ S.doc = E
      /\ \A r \in Runs : run[r] = S
  BY <1>2 DEF Start
<1>4. S \in Command
  BY <1>1, InodesAre DEF Start, Command
<1> HIDE DEF E, S
<1>5. Typed
  <2>1. 0 \in 0..MaxSaves
    BY SettingsAssumption
  <2>2. inode \in [Inodes -> Content]
    BY <1>2 DEF Content
  <2>3. run \in [Runs -> Command]
    BY <1>2, <1>4 DEF S
  <2>4. QED
    BY <1>1, <1>2, <2>1, <2>2, <2>3 DEF Typed, Content
<1>6. Busy = {} /\ File = Missing
  BY <1>2, <1>3 DEF Busy, File
<1>7. FilesSound /\ TmpSound
  BY <1>2, <1>3 DEF FilesSound, TmpSound
<1>8. DocumentsSound
  BY <1>1, <1>2, <1>3, ContentsDiffer DEF DocumentsSound
<1>9. RacesSound /\ WritesSound /\ BackupSound /\ AsksSound
  BY <1>6 DEF RacesSound, WritesSound, BackupSound, AsksSound
<1>10. TheirsSound
  BY <1>2, <1>6 DEF TheirsSound, IsDocument, E
<1>11. QED
  BY <1>5, <1>6, <1>7, <1>8, <1>9, <1>10, ContentsDiffer DEF SettingsSound

\* What is there is copied aside.
LEMMA EmptyBackupKeeps ==
  ASSUME SettingsSound, NEW r \in Runs, EmptyBackup(r)
  PROVE  SettingsSound'
<1> USE DEF SettingsSound
<1>1. /\ run[r].at = "backup" /\ inode' = inode /\ path' = path /\ tmp' = tmp
      /\ saves' = saves /\ raced' = raced /\ last' = last
      /\ \/ /\ File # Missing
            /\ run' = [run EXCEPT ![r].at = "copy", ![r].copy = File]
            /\ backup' = Blank /\ unread' = unread
         \/ /\ run' = [run EXCEPT ![r].at = "open"]
            /\ backup' = backup
            /\ unread' = IF File = Missing THEN unread ELSE unread \cup {r}
  BY DEF EmptyBackup
<1>2. /\ File \in Content /\ File' = File /\ IsDocument' = IsDocument
  BY <1>1, FileSound DEF File, IsDocument
<1>3. /\ run[r] \in Command /\ \A q \in Runs : q # r => run'[q] = run[q]
      /\ \/ run'[r].at = "copy" /\ run'[r].copy = File
         \/ run'[r].at = "open" /\ (File = Missing \/ r \in unread')
      /\ run'[r].ask = run[r].ask /\ run'[r].doc = run[r].doc /\ run'[r].fd = run[r].fd
      /\ run' \in [Runs -> Command]
      /\ backup' \in Content /\ unread' \subseteq Runs /\ unread \subseteq unread'
  <2>1. CASE /\ File # Missing
             /\ run' = [run EXCEPT ![r].at = "copy", ![r].copy = File]
             /\ backup' = Blank /\ unread' = unread
    <3>1. File \in Documents \cup {Torn, Blank}
      BY <1>2, <2>1 DEF Content
    <3> DEFINE c == File
    <3> HIDE DEF c
    <3>2. run' = [run EXCEPT ![r].at = "copy", ![r].copy = c] /\ c \in Documents \cup {Torn, Blank}
      BY <2>1, <3>1 DEF c
    <3>3. /\ run[r] \in Command /\ \A q \in Runs : q # r => run'[q] = run[q]
          /\ run'[r].at = "copy" /\ run'[r].copy = c
          /\ run'[r].ask = run[r].ask /\ run'[r].doc = run[r].doc /\ run'[r].fd = run[r].fd
          /\ run' \in [Runs -> Command]
      BY <3>2, ZenonT(30) DEF Typed, Command
    <3>4. backup' \in Content /\ unread' \subseteq Runs /\ unread \subseteq unread'
      BY <2>1 DEF Typed, Content
    <3>5. QED
      BY <3>3, <3>4 DEF c
  <2>2. CASE /\ run' = [run EXCEPT ![r].at = "open"]
             /\ backup' = backup
             /\ unread' = IF File = Missing THEN unread ELSE unread \cup {r}
    <3>1. /\ run[r] \in Command /\ \A q \in Runs : q # r => run'[q] = run[q]
          /\ run'[r].at = "open"
          /\ run'[r].ask = run[r].ask /\ run'[r].doc = run[r].doc /\ run'[r].fd = run[r].fd
          /\ run' \in [Runs -> Command]
      BY <2>2, ZenonT(30) DEF Typed, Command
    <3>2. /\ backup' \in Content /\ unread' \subseteq Runs /\ unread \subseteq unread'
          /\ File = Missing \/ r \in unread'
      BY <2>2 DEF Typed
    <3>3. QED
      BY <3>1, <3>2
  <2>3. QED
    BY <1>1, <2>1, <2>2
<1>4. r \in Busy
  BY <1>1 DEF Busy
<1>5. /\ \A q \in Busy' \ raced' : q = r
      /\ ~Overlapped' => \A q \in Busy' : q = r
      /\ RacesSound' /\ Overlapped' = Overlapped
  BY <1>1, <1>3, <1>4, AloneSteps DEF Typed
<1>6. Typed'
  BY <1>1, <1>2, <1>3 DEF Typed, Content
<1>7. FilesSound'
  BY <1>1, <1>3 DEF FilesSound
<1>8. TmpSound' /\ DocumentsSound'
  BY <1>1, <1>3 DEF TmpSound, DocumentsSound
<1>9. WritesSound'
  BY <1>1, <1>3, <1>5 DEF WritesSound
<1>10. BackupSound'
  BY <1>1, <1>2, <1>3, <1>5 DEF BackupSound
<1>11. AsksSound' /\ TheirsSound'
  <2>1. r \notin raced => Fulfils(run[r].doc, run[r].ask)
    BY <1>1, <1>4 DEF AsksSound, Prepared
  <2>2. raced = {} => Same(run[r].doc, last)
    <3>1. Prepared(r)
      BY <1>1 DEF Prepared
    <3>2. raced = {} => \A q \in Busy : Prepared(q) => Same(run[q].doc, last)
      BY DEF TheirsSound
    <3>3. QED
      BY <1>4, <3>1, <3>2
  <2>3. AsksSound'
    BY <1>1, <1>3, <1>5, <2>1 DEF AsksSound
  <2>4. QED
    BY <1>1, <1>2, <1>3, <1>5, <2>2, <2>3 DEF TheirsSound, Prepared
<1>12. QED
  BY <1>2, <1>5, <1>6, <1>7, <1>8, <1>9, <1>10, <1>11

\* The copy is written.
LEMMA WriteBackupKeeps ==
  ASSUME SettingsSound, NEW r \in Runs, WriteBackup(r)
  PROVE  SettingsSound'
<1> USE DEF SettingsSound
<1>1. /\ run[r].at = "copy" /\ inode' = inode /\ path' = path /\ tmp' = tmp
      /\ saves' = saves /\ raced' = raced /\ unread' = unread /\ last' = last
      /\ run' = [run EXCEPT ![r].at = "open", ![r].copy = Blank]
      /\ backup' = run[r].copy
  BY DEF WriteBackup
<1>2. /\ File' = File /\ IsDocument' = IsDocument
  BY <1>1 DEF File, IsDocument
<1>3. /\ run[r] \in Command /\ \A q \in Runs : q # r => run'[q] = run[q]
      /\ run'[r].at = "open"
      /\ run'[r].ask = run[r].ask /\ run'[r].doc = run[r].doc /\ run'[r].fd = run[r].fd
      /\ run' \in [Runs -> Command]
  BY <1>1, ZenonT(30) DEF Typed, Command
<1>4. r \in Busy
  BY <1>1 DEF Busy
<1>5. /\ \A q \in Busy' \ raced' : q = r
      /\ ~Overlapped' => \A q \in Busy' : q = r
      /\ RacesSound' /\ Overlapped' = Overlapped
  BY <1>1, <1>3, <1>4, AloneSteps DEF Typed
<1>6. Typed'
  <2>1. run[r].copy \in Content
    BY <1>3 DEF Command, Content
  <2>2. QED
    BY <1>1, <1>3, <2>1 DEF Typed
<1>7. FilesSound'
  BY <1>1, <1>3 DEF FilesSound
<1>8. TmpSound' /\ DocumentsSound'
  BY <1>1, <1>3 DEF TmpSound, DocumentsSound
<1>9. WritesSound'
  BY <1>1, <1>3, <1>5 DEF WritesSound
<1>10. BackupSound'
  BY <1>1, <1>2, <1>3, <1>4, <1>5 DEF BackupSound
<1>11. AsksSound' /\ TheirsSound'
  <2>1. r \notin raced => Fulfils(run[r].doc, run[r].ask)
    BY <1>1, <1>4 DEF AsksSound, Prepared
  <2>2. raced = {} => Same(run[r].doc, last)
    <3>1. Prepared(r)
      BY <1>1 DEF Prepared
    <3>2. raced = {} => \A q \in Busy : Prepared(q) => Same(run[q].doc, last)
      BY DEF TheirsSound
    <3>3. QED
      BY <1>4, <3>1, <3>2
  <2>3. AsksSound'
    BY <1>1, <1>3, <1>5, <2>1 DEF AsksSound
  <2>4. QED
    BY <1>1, <1>2, <1>3, <1>5, <2>2, <2>3 DEF TheirsSound, Prepared
<1>12. QED
  BY <1>2, <1>5, <1>6, <1>7, <1>8, <1>9, <1>10, <1>11

\* The file is read.
LEMMA ReadKeeps ==
  ASSUME SettingsSound, NEW r \in Runs, NEW ask \in Binaries \cup {Uninstall},
         Read(r, ask)
  PROVE  SettingsSound'
<1> USE DEF SettingsSound
<1> DEFINE doc == IF File \in {Missing, Blank} THEN Empty ELSE File
           new == Result(doc, ask)
           at == CASE doc = Torn -> "failed"
                   [] doc # Torn /\ new = doc -> "done"
                   [] OTHER -> "backup"
           left == IF doc = Torn \/ new = doc THEN Empty ELSE new
<1>1. /\ run[r].at = "start" /\ inode' = inode /\ path' = path /\ tmp' = tmp
      /\ backup' = backup /\ saves' = saves /\ unread' = unread /\ last' = last
      /\ run' = [run EXCEPT ![r].ask = ask, ![r].at = at, ![r].doc = left]
      /\ raced' = IF Busy = {} THEN raced ELSE raced \cup Busy \cup {r}
  BY DEF Read
<1>2. /\ File \in Content /\ File' = File /\ IsDocument' = IsDocument
      /\ File = Missing <=> path = 0
  BY <1>1, FileSound DEF File, IsDocument
<1>3. File \in Documents => Clean(File)
  BY <1>1, FileSound, ContentsDiffer DEF DocumentsSound, Typed
<1>4. doc # Torn => doc \in Documents /\ Clean(doc)
  BY <1>2, <1>3, EmptySound DEF Content
<1> HIDE DEF doc
<1>5. doc # Torn => /\ new \in Documents /\ Clean(new)
                    /\ Fulfils(new, ask) /\ Same(new, doc)
  BY <1>4, ResultSound
<1> HIDE DEF new
<1>6. /\ left \in Documents /\ Clean(left)
      /\ at \in {"failed", "done", "backup"}
      /\ at = "backup" => doc # Torn /\ left = new
  BY <1>5, EmptySound
<1> HIDE DEF at, left
<1>7. /\ run[r] \in Command /\ \A q \in Runs : q # r => run'[q] = run[q]
      /\ run'[r].at = at /\ run'[r].doc = left /\ run'[r].ask = ask
      /\ run'[r].copy = run[r].copy /\ run'[r].fd = run[r].fd
      /\ run' \in [Runs -> Command]
  BY <1>1, <1>6 DEF Typed, Command
<1>8. /\ r \notin Busy /\ Busy' \subseteq Busy \cup {r}
      /\ Busy \subseteq Busy'
  BY <1>1, <1>7 DEF Busy
<1>9. Overlapped => Overlapped'
  <2>1. raced \subseteq raced'
    BY <1>1
  <2>2. QED
    BY <2>1, OverlapStays
<1>10. Typed' /\ FilesSound' /\ TmpSound' /\ DocumentsSound'
       /\ (File' \in {Torn, Blank} => Overlapped')
  <2>1. raced' \subseteq Runs
    BY <1>1 DEF Typed, Busy
  <2>2. Typed'
    BY <1>1, <1>7, <2>1 DEF Typed
  <2>3. FilesSound' /\ TmpSound'
    <3>1. at # "write" /\ run[r].fd = 0
      BY <1>1, <1>6 DEF FilesSound
    <3>2. QED
      BY <1>1, <1>7, <3>1 DEF FilesSound, TmpSound
  <2>4. DocumentsSound'
    BY <1>1, <1>6, <1>7 DEF DocumentsSound
  <2>5. QED
    BY <1>2, <1>9, <2>2, <2>3, <2>4
<1>11. CASE Busy = {}
  <2>1. raced' = raced /\ Busy' \subseteq {r} /\ Overlapped' = Overlapped
    BY <1>1, <1>8, <1>11 DEF Overlapped
  <2>2. RacesSound'
    BY <2>1 DEF RacesSound
  <2>3. WritesSound' /\ BackupSound'
    BY <1>6, <1>7, <2>1 DEF WritesSound, BackupSound
  <2>4. AsksSound'
    <3>1. at = "backup" => Fulfils(left, ask)
      BY <1>5, <1>6
    <3>2. Prepared(r)' => at = "backup"
      BY <1>6, <1>7 DEF Prepared
    <3>3. QED
      BY <1>6, <1>7, <2>1, <3>1, <3>2 DEF AsksSound
  <2>5. TheirsSound'
    <3> SUFFICES ASSUME raced = {} PROVE TheirsSound'
      BY <2>1 DEF TheirsSound
    <3>1. File \notin {Torn, Blank}
      BY DEF Overlapped
    <3>2. at = "backup" => Same(doc, last)
      <4>1. CASE File = Missing
        <5>1. doc = last
          BY <1>2, <4>1 DEF TheirsSound, doc
        <5>2. QED
          BY <5>1 DEF Same
      <4>2. CASE File # Missing
        BY <3>1, <4>2 DEF TheirsSound, IsDocument, doc
      <4>3. QED
        BY <4>1, <4>2
    <3>3. at = "backup" => Same(left, last)
      BY <1>5, <1>6, <3>2 DEF Same
    <3>4. Prepared(r)' => at = "backup"
      BY <1>6, <1>7 DEF Prepared
    <3>5. \A q \in Busy' : /\ Prepared(q)' => Same(run'[q].doc, last')
                           /\ run'[q].at = "rename" => Same(inode'[tmp'], last')
      BY <1>1, <1>6, <1>7, <2>1, <3>3, <3>4
    <3>6. /\ path' = 0 => last' = Empty
          /\ IsDocument' => Same(File', last')
      BY <1>1, <1>2 DEF TheirsSound
    <3>7. QED
      BY <3>5, <3>6 DEF TheirsSound, Empty
  <2>6. QED
    BY <2>1, <2>2, <2>3, <2>4, <2>5, <1>10
<1>12. CASE Busy # {}
  <2>1. PICK b \in Busy : b # r
    BY <1>8, <1>12
  <2>2. raced' = raced \cup Busy \cup {r} /\ b \in raced' /\ r \in raced'
    BY <1>1, <1>12
  <2>3. Overlapped' /\ Busy' \subseteq raced' /\ raced' # {}
    BY <1>8, <2>1, <2>2 DEF Overlapped
  <2>4. RacesSound' /\ WritesSound' /\ BackupSound' /\ AsksSound' /\ TheirsSound'
    BY <2>3 DEF RacesSound, WritesSound, BackupSound, AsksSound, TheirsSound
  <2>5. QED
    BY <1>10, <2>3, <2>4
<1>13. QED
  BY <1>11, <1>12

\* The temporary file is opened, emptied.
LEMMA OpenTmpKeeps ==
  ASSUME SettingsSound, NEW r \in Runs, OpenTmp(r)
  PROVE  SettingsSound'
<1> USE DEF SettingsSound
<1> DEFINE t == IF tmp = 0 THEN Fresh ELSE tmp
<1>1. /\ run[r].at = "open" /\ inode' = [inode EXCEPT ![t] = Blank] /\ tmp' = t
      /\ path' = path /\ backup' = backup
      /\ saves' = saves /\ raced' = raced /\ unread' = unread /\ last' = last
      /\ run' = [run EXCEPT ![r].at = "write", ![r].fd = t]
  BY DEF OpenTmp
<1>2. /\ t \in Inodes /\ t # 0 /\ t # path
      /\ tmp # 0 => t = tmp
  <2>1. Fresh \in Inodes /\ inode[Fresh] = Missing
    BY TypedIs, FreshSound
  <2>2. QED
    BY <2>1, InodesAre DEF Typed
<1> HIDE DEF t
<1>3. /\ inode' \in [Inodes -> Content] /\ inode'[t] = Blank
      /\ \A i \in Inodes : i # t => inode'[i] = inode[i]
  BY <1>1, <1>2 DEF Typed, Content
<1>4. /\ File' = File /\ IsDocument' = IsDocument
  <2>1. File' = File
    BY <1>1, <1>2, <1>3 DEF File, Typed
  <2>2. QED
    BY <2>1 DEF IsDocument
<1>5. /\ run[r] \in Command /\ \A q \in Runs : q # r => run'[q] = run[q]
      /\ run'[r].at = "write" /\ run'[r].fd = t
      /\ run'[r].ask = run[r].ask /\ run'[r].doc = run[r].doc
      /\ run' \in [Runs -> Command]
  <2>1. t \in 0..Cardinality(Inodes)
    BY <1>2, InodesAre
  <2>2. QED
    BY <1>1, <2>1, ZenonT(30) DEF Typed, Command
<1>6. r \in Busy
  BY <1>1 DEF Busy
<1>7. /\ \A q \in Busy' \ raced' : q = r
      /\ ~Overlapped' => \A q \in Busy' : q = r
      /\ RacesSound' /\ Overlapped' = Overlapped
  BY <1>1, <1>5, <1>6, AloneSteps DEF Typed
<1>8. Typed'
  <2>1. path # 0 => inode'[path] # Missing
    BY <1>2, <1>3 DEF Typed
  <2>2. QED
    BY <1>1, <1>2, <1>3, <1>5, <2>1, ContentsDiffer DEF Typed
<1>9. FilesSound'
  <2>1. ASSUME NEW i \in Inodes, inode'[i] # Missing
        PROVE  i \in {path', tmp'} \/ \E q \in Runs : run'[q].fd = i
    <3>1. CASE i = t
      BY <1>1, <3>1
    <3>2. CASE i # t
      <4>1. i \in {path, tmp} \/ \E q \in Runs : run[q].fd = i
        BY <1>3, <2>1, <3>2 DEF FilesSound
      <4>2. i # 0 /\ run[r].fd = 0
        BY <1>1, InodesAre DEF FilesSound
      <4>3. i = tmp => i = t
        BY <1>2, <4>2
      <4>4. QED
        BY <1>1, <1>5, <3>2, <4>1, <4>2, <4>3
    <3>3. QED
      BY <3>1, <3>2
  <2>2. ASSUME NEW q \in Runs
        PROVE  /\ run'[q].fd # 0 <=> run'[q].at = "write"
               /\ run'[q].fd # 0 => inode'[run'[q].fd] # Missing
    <3>1. CASE q = r
      BY <1>2, <1>3, <1>5, <3>1, ContentsDiffer
    <3>2. CASE q # r
      <4>1. /\ run[q].fd # 0 <=> run[q].at = "write"
            /\ run[q].fd # 0 => inode[run[q].fd] # Missing
            /\ run'[q] = run[q]
        BY <1>5, <3>2 DEF FilesSound
      <4>2. run[q].fd # 0 => run[q].fd \in Inodes
        <5>1. run[q] \in Command
          BY DEF Typed
        <5>2. QED
          BY <5>1, InodesAre DEF Command
      <4>3. QED
        BY <1>3, <4>1, <4>2, ContentsDiffer
    <3>3. QED
      BY <3>1, <3>2
  <2>3. QED
    BY <2>1, <2>2 DEF FilesSound
<1>10. TmpSound'
  BY <1>1, <1>5 DEF TmpSound
<1>11. DocumentsSound'
  <2>1. \A i \in Inodes : inode'[i] \in Documents => Clean(inode'[i])
    BY <1>3, ContentsDiffer DEF DocumentsSound
  <2>2. \A q \in Runs : Clean(run'[q].doc)
    BY <1>5 DEF DocumentsSound
  <2>3. QED
    BY <2>1, <2>2 DEF DocumentsSound, Clean
<1>12. WritesSound'
  BY <1>1, <1>3, <1>5, <1>7 DEF WritesSound
<1>13. BackupSound'
  BY <1>1, <1>4, <1>5, <1>6, <1>7 DEF BackupSound
<1>14. AsksSound'
  <2>1. r \notin raced => Fulfils(run[r].doc, run[r].ask)
    BY <1>1, <1>6 DEF AsksSound, Prepared
  <2>2. QED
    BY <1>1, <1>5, <1>7, <2>1 DEF AsksSound
<1>15. TheirsSound'
  <2>1. raced = {} => Same(run[r].doc, last)
    BY <1>1, <1>6 DEF TheirsSound, Prepared
  <2>2. QED
    BY <1>1, <1>4, <1>5, <1>7, <2>1 DEF TheirsSound, Prepared
<1>16. QED
  BY <1>4, <1>7, <1>8, <1>9, <1>10, <1>11, <1>12, <1>13, <1>14, <1>15

\* What is left of the files when some have lost their names.
LEMMA KeptIs ==
  ASSUME NEW x, inode' = Kept(x), NEW i \in Inodes
  PROVE  /\ i \in {path', tmp'} \/ (\E q \in Runs : run'[q].fd = i) => inode'[i] = x[i]
         /\ ~(i \in {path', tmp'} \/ \E q \in Runs : run'[q].fd = i) => inode'[i] = Missing
         /\ DOMAIN inode' = Inodes
         /\ inode' = [j \in Inodes |-> inode'[j]]
BY DEF Kept

\* Those that are left are files.
LEMMA KeptTyped ==
  ASSUME NEW x \in [Inodes -> Content], inode' = Kept(x)
  PROVE  inode' \in [Inodes -> Content]
<1>1. \A i \in Inodes : inode'[i] \in Content
  BY KeptIs DEF Content
<1>2. inode' = [i \in Inodes |-> inode'[i]]
  BY DEF Kept
<1>3. QED
  BY <1>1, <1>2

\* Only the command that takes the step has a file of its own to think of.
LEMMA OthersOpen ==
  ASSUME Typed, FilesSound, NEW r \in Runs, run' \in [Runs -> Command],
         \A q \in Runs : q # r => run'[q] = run[q], run'[r].fd = 0, run'[r].at # "write"
  PROVE  \A q \in Runs :
           /\ run'[q].fd # 0 <=> run'[q].at = "write"
           /\ run'[q].fd # 0 => /\ run'[q].fd \in Inodes
                                /\ run'[q].fd = run[q].fd
                                /\ inode[run'[q].fd] # Missing
<1> SUFFICES ASSUME NEW q \in Runs
             PROVE  /\ run'[q].fd # 0 <=> run'[q].at = "write"
                    /\ run'[q].fd # 0 => /\ run'[q].fd \in Inodes
                                         /\ run'[q].fd = run[q].fd
                                         /\ inode[run'[q].fd] # Missing
  OBVIOUS
<1>1. CASE q = r
  BY <1>1
<1>2. CASE q # r
  <2>1. run'[q] = run[q]
    BY <1>2
  <2>2. run[q] \in Command
    BY DEF Typed
  <2>3. run[q].fd # 0 => run[q].fd \in Inodes
    BY <2>2, InodesAre DEF Command
  <2>4. QED
    BY <2>1, <2>3 DEF FilesSound
<1>3. QED
  BY <1>1, <1>2

\* The document is written into the file that was opened.
LEMMA WriteTmpKeeps ==
  ASSUME SettingsSound, NEW r \in Runs, WriteTmp(r)
  PROVE  SettingsSound'
<1> USE DEF SettingsSound
<1> DEFINE d == run[r].fd
<1>1. PICK written \in {run[r].doc} \cup (IF inode[d] = Blank THEN {} ELSE {Torn}) :
        inode' = Kept([inode EXCEPT ![d] = written])
  BY DEF WriteTmp
<1>2. /\ run[r].at = "write" /\ path' = path /\ tmp' = tmp /\ backup' = backup
      /\ saves' = saves /\ raced' = raced /\ unread' = unread /\ last' = last
      /\ run' = [run EXCEPT ![r].at = "rename", ![r].doc = Empty, ![r].fd = 0]
  BY DEF WriteTmp
<1> DEFINE E == Empty
           x == [inode EXCEPT ![d] = written]
<1>3. E \in Documents /\ Clean(E)
  BY EmptySound
<1>4. /\ run[r] \in Command /\ \A q \in Runs : q # r => run'[q] = run[q]
      /\ run'[r].at = "rename" /\ run'[r].doc = E /\ run'[r].fd = 0
      /\ run'[r].ask = run[r].ask
      /\ run' \in [Runs -> Command]
  <2> HIDE DEF E
  <2>1. run' = [run EXCEPT ![r].at = "rename", ![r].doc = E, ![r].fd = 0]
    BY <1>2 DEF E
  <2>2. 0 \in 0..Cardinality(Inodes)
    BY InodesAre
  <2>3. run \in [Runs -> Command]
    BY DEF Typed
  <2> DEFINE N == Cardinality(Inodes)
             c == [run[r] EXCEPT !.at = "rename", !.doc = E, !.fd = 0]
  <2>4. run[r] \in Command
    BY <2>3
  <2> HIDE DEF N
  <2>5. /\ c \in Command /\ c.at = "rename" /\ c.doc = E /\ c.fd = 0
        /\ c.ask = run[r].ask
    BY <1>3, <2>2, <2>4 DEF Command, N
  <2>6. run' = [run EXCEPT ![r] = c]
    BY <2>1, <2>3
  <2> HIDE DEF c
  <2>7. QED
    BY <2>3, <2>4, <2>5, <2>6
<1> HIDE DEF E
<1>5. /\ d \in Inodes /\ d # 0 /\ inode[d] # Missing
      /\ run[r].doc \in Documents /\ Clean(run[r].doc)
  <2>1. d # 0 /\ inode[d] # Missing
    BY <1>2 DEF FilesSound
  <2>2. QED
    BY <1>4, <2>1, InodesAre DEF Command, DocumentsSound
<1>6. /\ written \in Documents \cup {Torn}
      /\ written # Missing /\ written # Blank
      /\ written \in Documents => Clean(written)
      /\ inode[d] = Blank => written = run[r].doc
  BY <1>1, <1>5, ContentsDiffer
<1>7. /\ x \in [Inodes -> Content] /\ x[d] = written
      /\ \A i \in Inodes : i # d => x[i] = inode[i]
  BY <1>5, <1>6 DEF Typed, Content
<1>8. inode' \in [Inodes -> Content]
  <2> HIDE DEF x
  <2>1. QED
    BY <1>1, <1>7, KeptTyped DEF x
<1>9. \A i \in Inodes :
        /\ i \in {path, tmp} \/ (\E q \in Runs : run'[q].fd = i) => inode'[i] = x[i]
        /\ ~(i \in {path, tmp} \/ \E q \in Runs : run'[q].fd = i) => inode'[i] = Missing
  <2> HIDE DEF x
  <2>1. inode' = Kept(x)
    BY <1>1 DEF x
  <2>2. QED
    BY <1>2, <2>1, KeptIs
<1> HIDE DEF x, d
<1>10. r \in Busy
  BY <1>2 DEF Busy
<1>11. /\ \A q \in Busy' \ raced' : q = r
       /\ ~Overlapped' => \A q \in Busy' : q = r
       /\ RacesSound' /\ Overlapped' = Overlapped
  BY <1>2, <1>4, <1>10, AloneSteps DEF Typed
<1>12. /\ path # 0 => path \in Inodes /\ inode'[path] = x[path]
       /\ tmp # 0 => tmp \in Inodes /\ inode'[tmp] = x[tmp]
  BY <1>9 DEF Typed
<1>13. r \notin raced \/ ~Overlapped => d = tmp /\ inode[d] = Blank /\ d # path
  BY <1>2, <1>5, <1>10 DEF WritesSound, Typed, d
<1>14. Typed'
  <2>1. path # 0 => inode'[path] # Missing
    BY <1>6, <1>7, <1>12 DEF Typed
  <2>2. tmp # 0 => inode'[tmp] # Missing
    BY <1>6, <1>7, <1>12 DEF Typed
  <2>3. QED
    BY <1>2, <1>4, <1>8, <2>1, <2>2 DEF Typed
<1>15. FilesSound'
  <2>1. \A i \in Inodes : inode'[i] # Missing =>
          i \in {path', tmp'} \/ \E q \in Runs : run'[q].fd = i
    BY <1>2, <1>9
  <2>2. \A q \in Runs :
          /\ run'[q].fd # 0 <=> run'[q].at = "write"
          /\ run'[q].fd # 0 => /\ run'[q].fd \in Inodes
                               /\ run'[q].fd = run[q].fd
                               /\ inode[run'[q].fd] # Missing
    BY <1>4, OthersOpen
  <2>3. \A q \in Runs : run'[q].fd # 0 => inode'[run'[q].fd] # Missing
    <3> SUFFICES ASSUME NEW q \in Runs, run'[q].fd # 0 PROVE inode'[run'[q].fd] # Missing
      OBVIOUS
    <3> DEFINE i == run'[q].fd
    <3>1. i \in Inodes /\ inode[i] # Missing
      BY <2>2
    <3>2. inode'[i] = x[i]
      BY <1>9, <3>1
    <3>3. x[i] # Missing
      BY <1>6, <1>7, <3>1
    <3>4. QED
      BY <3>2, <3>3
  <2>4. QED
    BY <2>1, <2>2, <2>3 DEF FilesSound
<1>16. TmpSound'
  BY <1>4 DEF TmpSound
<1>17. DocumentsSound'
  <2>1. \A i \in Inodes : inode'[i] \in Documents => Clean(inode'[i])
    <3> SUFFICES ASSUME NEW i \in Inodes, inode'[i] \in Documents
                 PROVE  Clean(inode'[i])
      OBVIOUS
    <3>1. inode'[i] = x[i]
      BY <1>9, ContentsDiffer
    <3>2. x[i] = inode[i] \/ x[i] = written
      BY <1>7
    <3>3. QED
      BY <1>6, <3>1, <3>2 DEF DocumentsSound
  <2>2. \A q \in Runs : Clean(run'[q].doc)
    BY <1>3, <1>4 DEF DocumentsSound
  <2>3. QED
    BY <2>1, <2>2 DEF DocumentsSound, Clean
<1>18. r \notin raced \/ ~Overlapped =>
         /\ tmp # 0 /\ inode'[tmp] = run[r].doc
         /\ File' = File
  <2> SUFFICES ASSUME r \notin raced \/ ~Overlapped
               PROVE  /\ tmp # 0 /\ inode'[tmp] = run[r].doc
                      /\ File' = File
    OBVIOUS
  <2>1. d = tmp /\ inode[d] = Blank /\ d # path /\ tmp # 0
    BY <1>5, <1>13
  <2>2. inode'[tmp] = run[r].doc
    BY <1>6, <1>7, <1>12, <2>1
  <2>3. path # 0 => inode'[path] = inode[path]
    BY <1>7, <1>12, <2>1
  <2>4. QED
    BY <1>2, <2>1, <2>2, <2>3 DEF File
<1>19. WritesSound'
  BY <1>2, <1>4, <1>5, <1>11, <1>18 DEF WritesSound
<1>20. File' \in {Torn, Blank} => Overlapped'
  BY <1>11, <1>18
<1>21. BackupSound'
  BY <1>2, <1>4, <1>10, <1>11, <1>18 DEF BackupSound
<1>22. AsksSound'
  <2>1. r \notin raced => Fulfils(run[r].doc, run[r].ask)
    BY <1>2, <1>10 DEF AsksSound, Prepared
  <2>2. ~Prepared(r)'
    BY <1>4 DEF Prepared
  <2>3. QED
    BY <1>2, <1>4, <1>11, <1>18, <2>1, <2>2 DEF AsksSound
<1>23. TheirsSound'
  <2>1. raced = {} => Same(run[r].doc, last)
    BY <1>2, <1>10 DEF TheirsSound, Prepared
  <2>2. ~Prepared(r)'
    BY <1>4 DEF Prepared
  <2>3. raced = {} => File' = File /\ IsDocument' = IsDocument
    BY <1>18 DEF IsDocument
  <2>4. QED
    BY <1>2, <1>4, <1>11, <1>18, <2>1, <2>2, <2>3 DEF TheirsSound
<1>24. QED
  BY <1>11, <1>14, <1>15, <1>16, <1>17, <1>19, <1>20, <1>21, <1>22, <1>23

\* A command that ends leaves none that nothing overlapped.
LEMMA EndKeeps ==
  ASSUME SettingsSound, NEW r \in Busy, NEW at \in {"done", "failed"},
         Ends(r, at), raced' = raced
  PROVE  /\ run' \in [Runs -> Command] /\ \A q \in Runs : q # r => run'[q] = run[q]
         /\ run'[r].at = at /\ run'[r].ask = run[r].ask
         /\ run'[r].fd = 0 /\ run'[r].doc = Empty
         /\ Overlapped' = Overlapped
         /\ raced = {} => Busy' = {}
         /\ RacesSound' /\ WritesSound' /\ BackupSound' /\ AsksSound'
<1> DEFINE E == Empty
<1>1. E \in Documents
  BY EmptySound
<1>2. r \in Runs /\ run \in [Runs -> Command] /\ run[r] \in Command
  BY DEF SettingsSound, Typed, Busy
<1> DEFINE s == [at |-> "start", ask |-> Uninstall, doc |-> E, copy |-> Blank, fd |-> 0]
           c == [s EXCEPT !.at = at, !.ask = run[r].ask]
<1>3. s = Start
  BY DEF Start
<1> HIDE DEF E
<1>4. run' = [run EXCEPT ![r] = c]
  BY <1>3 DEF Ends
<1>5. s \in Command /\ s.fd = 0 /\ s.doc = E
  <2>1. 0 \in 0..Cardinality(Inodes)
    BY InodesAre
  <2>2. QED
    BY <1>1, <2>1 DEF Command
<1> HIDE DEF s
<1>6. c \in Command /\ c.at = at /\ c.ask = run[r].ask /\ c.fd = 0 /\ c.doc = E
  BY <1>2, <1>5 DEF Command
<1> HIDE DEF c
<1>7. /\ run' \in [Runs -> Command] /\ \A q \in Runs : q # r => run'[q] = run[q]
      /\ run'[r] = c
  BY <1>2, <1>4, <1>6
<1>8. RacesSound
  BY DEF SettingsSound
<1>9. /\ Busy' \subseteq Busy
      /\ \A q \in Busy' \ raced' : q = r
      /\ ~Overlapped' => ~Overlapped /\ \A q \in Busy' : q = r
      /\ RacesSound' /\ Overlapped' = Overlapped
  BY <1>2, <1>7, <1>8, AloneSteps
<1>10. r \notin Busy'
  BY <1>6, <1>7 DEF Busy
<1>11. Busy' \ raced' = {} /\ (~Overlapped' => Busy' = {})
  BY <1>9, <1>10
<1>12. WritesSound' /\ BackupSound' /\ AsksSound'
  BY <1>11 DEF WritesSound, BackupSound, AsksSound
<1>13. raced = {} => Busy' = {}
  BY <1>11
<1>14. QED
  BY <1>6, <1>7, <1>9, <1>12, <1>13 DEF E

\* And the files it leaves are those with a name or open.
LEMMA FilesKept ==
  ASSUME SettingsSound, NEW r \in Runs, run' \in [Runs -> Command],
         \A q \in Runs : q # r => run'[q] = run[q],
         run'[r].fd = 0, run'[r].at # "write", run'[r].doc = Empty,
         inode' = Kept(inode)
  PROVE  /\ inode' \in [Inodes -> Content]
         /\ \A i \in {path', tmp'} : i \in Inodes => inode'[i] = inode[i]
         /\ FilesSound' /\ TmpSound' /\ DocumentsSound'
<1> USE DEF SettingsSound
<1>1. inode' \in [Inodes -> Content]
  BY KeptTyped DEF Typed
<1>2. \A i \in Inodes :
        /\ i \in {path', tmp'} \/ (\E q \in Runs : run'[q].fd = i) => inode'[i] = inode[i]
        /\ ~(i \in {path', tmp'} \/ \E q \in Runs : run'[q].fd = i) => inode'[i] = Missing
  BY KeptIs
<1>3. FilesSound'
  <2>1. \A q \in Runs :
          /\ run'[q].fd # 0 <=> run'[q].at = "write"
          /\ run'[q].fd # 0 => /\ run'[q].fd \in Inodes
                               /\ run'[q].fd = run[q].fd
                               /\ inode[run'[q].fd] # Missing
    BY OthersOpen
  <2>2. \A q \in Runs : run'[q].fd # 0 => inode'[run'[q].fd] # Missing
    BY <1>2, <2>1
  <2>3. QED
    BY <1>2, <2>1, <2>2 DEF FilesSound
<1>4. TmpSound'
  BY DEF TmpSound
<1>5. DocumentsSound'
  <2>1. \A i \in Inodes : inode'[i] \in Documents => Clean(inode'[i])
    BY <1>2, ContentsDiffer DEF DocumentsSound
  <2>2. Clean(Empty)
    BY EmptySound
  <2>3. \A q \in Runs : Clean(run'[q].doc)
    BY <2>2 DEF DocumentsSound
  <2>4. QED
    BY <2>1, <2>3 DEF DocumentsSound, Clean
<1>6. QED
  BY <1>1, <1>2, <1>3, <1>4, <1>5

\* A command dies.
LEMMA DeathKeeps ==
  ASSUME SettingsSound, NEW r \in Runs, CommandDies(r)
  PROVE  SettingsSound'
<1>1. /\ r \in Busy /\ Ends(r, "failed") /\ inode' = Kept(inode)
      /\ path' = path /\ tmp' = tmp /\ backup' = backup
      /\ saves' = saves /\ raced' = raced /\ unread' = unread /\ last' = last
  BY DEF CommandDies
<1>2. /\ run' \in [Runs -> Command] /\ \A q \in Runs : q # r => run'[q] = run[q]
      /\ run'[r].at = "failed" /\ run'[r].fd = 0 /\ run'[r].doc = Empty
      /\ Overlapped' = Overlapped
      /\ raced = {} => Busy' = {}
      /\ RacesSound' /\ WritesSound' /\ BackupSound' /\ AsksSound'
  BY <1>1, EndKeeps
<1>3. /\ inode' \in [Inodes -> Content]
      /\ \A i \in {path', tmp'} : i \in Inodes => inode'[i] = inode[i]
      /\ FilesSound' /\ TmpSound' /\ DocumentsSound'
  BY <1>1, <1>2, FilesKept
<1>4. Typed'
  BY <1>1, <1>2, <1>3 DEF SettingsSound, Typed
<1>5. File' = File /\ IsDocument' = IsDocument
  <2>1. File' = File
    BY <1>1, <1>3 DEF SettingsSound, Typed, File
  <2>2. QED
    BY <2>1 DEF IsDocument
<1>6. TheirsSound'
  BY <1>1, <1>2, <1>5 DEF SettingsSound, TheirsSound
<1>7. QED
  BY <1>2, <1>3, <1>4, <1>5, <1>6 DEF SettingsSound

\* What was written gets the settings file's name.
LEMMA RenameKeeps ==
  ASSUME SettingsSound, NEW r \in Runs, Rename(r)
  PROVE  SettingsSound'
<1> DEFINE end == IF tmp = 0 THEN "failed" ELSE "done"
<1>1. /\ run[r].at = "rename" /\ Ends(r, end) /\ inode' = Kept(inode)
      /\ path' = IF tmp = 0 THEN path ELSE tmp
      /\ tmp' = 0 /\ backup' = backup
      /\ saves' = saves /\ raced' = raced /\ unread' = unread /\ last' = last
  BY DEF Rename
<1>2. r \in Busy /\ end \in {"done", "failed"}
  BY <1>1 DEF Busy
<1> HIDE DEF end
<1>3. /\ run' \in [Runs -> Command] /\ \A q \in Runs : q # r => run'[q] = run[q]
      /\ run'[r].at = end /\ run'[r].fd = 0 /\ run'[r].doc = Empty
      /\ Overlapped' = Overlapped
      /\ raced = {} => Busy' = {}
      /\ RacesSound' /\ WritesSound' /\ BackupSound' /\ AsksSound'
  BY <1>1, <1>2, EndKeeps
<1>4. run'[r].at # "write"
  BY <1>2, <1>3
<1>5. /\ inode' \in [Inodes -> Content]
      /\ \A i \in {path', tmp'} : i \in Inodes => inode'[i] = inode[i]
      /\ FilesSound' /\ TmpSound' /\ DocumentsSound'
  BY <1>1, <1>3, <1>4, FilesKept
<1>6. Typed'
  <2>1. path' \in Inodes \cup {0} /\ (path' # 0 => inode[path'] # Missing)
    BY <1>1 DEF SettingsSound, Typed
  <2>2. path' # 0 => inode'[path'] # Missing
    BY <1>5, <2>1
  <2>3. QED
    BY <1>1, <1>3, <1>5, <2>1, <2>2 DEF SettingsSound, Typed
<1>7. /\ tmp # 0 => File' = inode[tmp] /\ path' # 0
      /\ tmp = 0 => File' = File
  BY <1>1, <1>5 DEF SettingsSound, Typed, File
<1>8. r \notin raced \/ ~Overlapped => tmp # 0 /\ inode[tmp] \in Documents
  BY <1>1, <1>2 DEF SettingsSound, WritesSound
<1>9. File' \in {Torn, Blank} => Overlapped'
  BY <1>3, <1>7, <1>8, ContentsDiffer
<1>10. TheirsSound'
  <2>1. raced = {} => Same(inode[tmp], last)
    <3>1. raced = {} => \A q \in Busy : run[q].at = "rename" => Same(inode[tmp], last)
      BY DEF SettingsSound, TheirsSound
    <3>2. QED
      BY <1>1, <1>2, <3>1
  <2>2. raced = {} => path' # 0 /\ Same(File', last)
    BY <1>7, <1>8, <2>1
  <2>3. QED
    BY <1>1, <1>3, <2>2 DEF TheirsSound
<1>11. QED
  BY <1>3, <1>5, <1>6, <1>9, <1>10 DEF SettingsSound

\* The operator saves.
LEMMA SaveKeeps ==
  ASSUME SettingsSound, Save
  PROVE  SettingsSound'
<1> USE DEF SettingsSound
<1> DEFINE doc == IF File \in {Missing, Blank} THEN Empty ELSE File
           f == Fresh
<1>0. PICK e \in Events \cup Others : \E handlers \in Edited(doc.hooks[e]) :
        LET saved == [own |-> saves + 1, hooks |-> [doc.hooks EXCEPT ![e] = handlers]]
        IN  /\ path' = f /\ last' = saved
            /\ inode' = Kept([inode EXCEPT ![f] = saved])
  BY DEF Save
<1>1. PICK handlers \in Edited(doc.hooks[e]) :
        LET saved == [own |-> saves + 1, hooks |-> [doc.hooks EXCEPT ![e] = handlers]]
        IN  /\ path' = f /\ last' = saved
            /\ inode' = Kept([inode EXCEPT ![f] = saved])
  BY <1>0
<1>2. /\ saves < MaxSaves /\ saves' = saves + 1 /\ File # Torn
      /\ tmp' = tmp /\ backup' = backup /\ run' = run
      /\ raced' = raced \cup Busy /\ unread' = unread
  BY DEF Save
<1>3. doc \in Documents /\ Clean(doc)
  <2>1. File \in Content /\ (path # 0 => File = inode[path])
    BY FileSound
  <2>2. File = Missing <=> path = 0
    BY FileSound
  <2>3. File \in Documents => Clean(File)
    BY <2>1, <2>2, ContentsDiffer DEF DocumentsSound, Typed
  <2>4. QED
    BY <1>2, <2>1, <2>3, EmptySound DEF Content
<1>4. saves + 1 \in 0..MaxSaves
  BY <1>2, SettingsAssumption DEF Typed
<1> HIDE DEF doc
<1> DEFINE saved == [own |-> saves + 1, hooks |-> [doc.hooks EXCEPT ![e] = handlers]]
           x == [inode EXCEPT ![f] = saved]
<1>5. saved \in Documents /\ Clean(saved)
  BY <1>1, <1>3, <1>4, SavedSound
<1>6. path' = f /\ last' = saved /\ inode' = Kept(x)
  BY <1>1
<1> HIDE DEF saved
<1>7. f \in Inodes /\ inode[f] = Missing /\ f # 0 /\ f # tmp
  <2>1. Fresh \in Inodes /\ inode[Fresh] = Missing
    BY TypedIs, FreshSound
  <2>2. QED
    BY <2>1, InodesAre DEF Typed
<1> HIDE DEF f
<1>8. /\ x \in [Inodes -> Content] /\ x[f] = saved
      /\ \A i \in Inodes : i # f => x[i] = inode[i]
  BY <1>5, <1>7 DEF Typed, Content
<1> HIDE DEF x
<1>9. inode' \in [Inodes -> Content]
  BY <1>6, <1>8, KeptTyped
<1>10. \A i \in Inodes :
        /\ i \in {path', tmp'} \/ (\E q \in Runs : run'[q].fd = i) => inode'[i] = x[i]
        /\ ~(i \in {path', tmp'} \/ \E q \in Runs : run'[q].fd = i) => inode'[i] = Missing
  BY <1>6, KeptIs
<1>11. /\ inode'[f] = saved
       /\ tmp # 0 => inode'[tmp] = inode[tmp]
       /\ File' = saved
  <2>1. inode'[f] = saved
    BY <1>6, <1>7, <1>8, <1>10
  <2>2. tmp # 0 => inode'[tmp] = inode[tmp]
    BY <1>2, <1>7, <1>8, <1>10 DEF Typed
  <2>3. QED
    BY <1>6, <1>7, <2>1, <2>2 DEF File
<1>12. Typed'
  <2>1. raced' \subseteq Runs
    BY <1>2 DEF Typed, Busy
  <2>2. tmp # 0 => tmp # path'
    BY <1>6, <1>7
  <2>3. inode'[path'] # Missing
    BY <1>5, <1>6, <1>11, ContentsDiffer
  <2>4. QED
    BY <1>2, <1>4, <1>5, <1>6, <1>7, <1>9, <1>11, <2>1, <2>2, <2>3 DEF Typed
<1>13. FilesSound'
  <2>1. \A i \in Inodes : inode'[i] # Missing =>
          i \in {path', tmp'} \/ \E q \in Runs : run'[q].fd = i
    BY <1>10
  <2>2. ASSUME NEW q \in Runs, run[q].fd # 0 PROVE inode'[run[q].fd] # Missing
    <3>1. run[q].fd \in Inodes
      <4>1. run[q] \in Command
        BY DEF Typed
      <4>2. QED
        BY <2>2, <4>1, InodesAre DEF Command
    <3>2. inode[run[q].fd] # Missing
      BY <2>2 DEF FilesSound
    <3>3. inode'[run[q].fd] = inode[run[q].fd]
      BY <1>2, <1>7, <1>8, <1>10, <3>1, <3>2
    <3>4. QED
      BY <3>2, <3>3
  <2>3. QED
    BY <1>2, <2>1, <2>2 DEF FilesSound
<1>14. TmpSound'
  BY <1>2 DEF TmpSound
<1>15. DocumentsSound'
  <2>1. \A i \in Inodes : inode'[i] \in Documents => Clean(inode'[i])
    <3> SUFFICES ASSUME NEW i \in Inodes, inode'[i] \in Documents
                 PROVE  Clean(inode'[i])
      OBVIOUS
    <3>1. inode'[i] = x[i]
      BY <1>10, ContentsDiffer
    <3>2. QED
      BY <1>5, <1>8, <3>1 DEF DocumentsSound
  <2>2. QED
    BY <1>2, <2>1 DEF DocumentsSound, Clean
<1>16. /\ Busy' = Busy /\ Busy \subseteq raced'
       /\ Overlapped => Overlapped'
  <2>1. raced \subseteq raced'
    BY <1>2
  <2>2. QED
    BY <1>2, <2>1, OverlapStays DEF Busy
<1>17. RacesSound' /\ BackupSound' /\ AsksSound'
  BY <1>16 DEF RacesSound, BackupSound, AsksSound
<1>18. WritesSound'
  <2> SUFFICES ASSUME NEW q \in Busy, ~Overlapped
               PROVE  /\ run[q].at = "write" => run[q].fd = tmp /\ inode'[tmp] = Blank
                      /\ run[q].at = "rename" => tmp # 0 /\ inode'[tmp] \in Documents
    BY <1>2, <1>16 DEF WritesSound
  <2>1. /\ run[q].at = "write" => run[q].fd = tmp /\ inode[tmp] = Blank
        /\ run[q].at = "rename" => tmp # 0 /\ inode[tmp] \in Documents
    BY DEF WritesSound
  <2>2. run[q].at = "write" => run[q].fd # 0
    BY DEF FilesSound, Busy
  <2>3. QED
    BY <1>11, <2>1, <2>2
<1>19. TheirsSound'
  <2>1. raced' = {} => Busy' = {}
    BY <1>16
  <2>2. Same(File', last')
    BY <1>6, <1>11 DEF Same
  <2>3. path' # 0
    BY <1>6, <1>7
  <2>4. QED
    BY <2>1, <2>2, <2>3 DEF TheirsSound
<1>20. QED
  BY <1>5, <1>11, <1>12, <1>13, <1>14, <1>15, <1>17, <1>18, <1>19, ContentsDiffer

\* Every step keeps the invariant.
LEMMA StepsSound ==
  ASSUME SettingsSound, [InstallNext]_installVars
  PROVE  SettingsSound'
<1>1. CASE UNCHANGED installVars
  <2>1. /\ inode' = inode /\ path' = path /\ tmp' = tmp /\ backup' = backup /\ run' = run
        /\ saves' = saves /\ raced' = raced /\ unread' = unread /\ last' = last
    BY <1>1 DEF installVars
  <2>2. File' = File /\ IsDocument' = IsDocument
        /\ Busy' = Busy /\ Overlapped' = Overlapped
    BY <2>1 DEF File, IsDocument, Busy, Overlapped
  <2>3. Typed' /\ FilesSound' /\ TmpSound' /\ DocumentsSound' /\ RacesSound' /\ WritesSound'
    BY <2>1, <2>2 DEF SettingsSound, Typed, FilesSound, TmpSound, DocumentsSound, RacesSound,
                      WritesSound
  <2>4. BackupSound' /\ AsksSound' /\ TheirsSound'
    BY <2>1, <2>2 DEF SettingsSound, BackupSound, AsksSound, TheirsSound, Prepared
  <2>5. QED
    BY <2>2, <2>3, <2>4 DEF SettingsSound
<1>2. CASE Save
  BY <1>2, SaveKeeps
<1>3. ASSUME NEW r \in Runs,
             \/ \E ask \in Binaries \cup {Uninstall} : Read(r, ask)
             \/ EmptyBackup(r) \/ WriteBackup(r)
             \/ OpenTmp(r) \/ WriteTmp(r) \/ Rename(r) \/ CommandDies(r)
      PROVE  SettingsSound'
  <2>1. CASE \E ask \in Binaries \cup {Uninstall} : Read(r, ask)
    BY <2>1, ReadKeeps
  <2>2. CASE EmptyBackup(r)
    BY <2>2, EmptyBackupKeeps
  <2>3. CASE WriteBackup(r)
    BY <2>3, WriteBackupKeeps
  <2>4. CASE OpenTmp(r)
    BY <2>4, OpenTmpKeeps
  <2>5. CASE WriteTmp(r)
    BY <2>5, WriteTmpKeeps
  <2>6. CASE Rename(r)
    BY <2>6, RenameKeeps
  <2>7. CASE CommandDies(r)
    BY <2>7, DeathKeeps
  <2>8. QED
    BY <1>3, <2>1, <2>2, <2>3, <2>4, <2>5, <2>6, <2>7
<1>4. QED
  BY <1>1, <1>2, <1>3 DEF InstallNext

\* The inductive invariant holds in every state the install and uninstall commands,
\* their deaths and the operator's saves lead to (cli/hooks.go writeSettings).
THEOREM SettingsStaySound == InstallSpec => []SettingsSound
<1>1. InstallInit => SettingsSound
  BY InitSound
<1>2. SettingsSound /\ [InstallNext]_installVars => SettingsSound'
  BY StepsSound
<1>3. QED
  BY <1>1, <1>2, PTL DEF InstallSpec

\* The settings file is never torn or blank unless two commands were each overlapped by
\* something, whatever died before; and until one is the operator's handlers and keys in
\* it are those last saved (cli/hooks.go writeSettings, hooks/install.go).
THEOREM SettingsFileIsKept == InstallSpec => []FileIsKept
<1>1. SettingsSound => FileIsKept
  <2> SUFFICES ASSUME SettingsSound PROVE FileIsKept
    OBVIOUS
  <2>1. InstallTypeOK
    BY TypedIs DEF SettingsSound
  <2>2. NeverTruncated
    <3> SUFFICES ASSUME Overlapped PROVE Cardinality(raced) > 1
      BY DEF SettingsSound, NeverTruncated
    <3>1. PICK p \in raced, q \in raced : p # q
      BY DEF Overlapped
    <3>2. IsFiniteSet(Runs) /\ raced \subseteq Runs
      BY SettingsAssumption DEF SettingsSound, Typed
    <3>3. IsFiniteSet(raced) /\ Cardinality(raced) \in Nat
      BY <3>2, FS_Subset, FS_CardinalityType
    <3>4. Cardinality(raced) # 0
      BY <3>1, <3>3, FS_EmptySet
    <3>5. Cardinality(raced) # 1
      <4>1. Cardinality(raced) = 1 => \E x : raced = {x}
        BY <3>3, FS_Singleton
      <4>2. QED
        BY <3>1, <4>1
    <3>6. QED
      BY <3>3, <3>4, <3>5
  <2>3. TheirsKept
    BY DEF SettingsSound, TheirsSound, Same, TheirsKept
  <2>4. QED
    BY <2>1, <2>2, <2>3 DEF FileIsKept
<1>2. QED
  BY <1>1, SettingsStaySound, PTL

\* A command nothing overlapped replaces only what the backup holds (cli/hooks.go
\* writeSettings keeps the copy before it opens the temporary file).
THEOREM SettingsAreBackedUp == InstallSpec => ReplacedIsBackedUp
<1>1. SettingsSound /\ [InstallNext]_installVars
        => [\A r \in Runs : run[r].at = "rename" /\ run'[r].at = "done" /\ r \notin raced \cup unread
                              /\ File # Missing => backup = File]_installVars
  <2> SUFFICES ASSUME SettingsSound, NEW r \in Runs, run[r].at = "rename",
                      r \notin raced \cup unread, File # Missing
               PROVE  backup = File
    OBVIOUS
  <2>1. r \in Busy \ raced /\ r \notin unread
    BY DEF Busy
  <2>2. QED
    BY <2>1 DEF SettingsSound, BackupSound
<1>2. QED
  BY <1>1, SettingsStaySound, PTL DEF InstallSpec, ReplacedIsBackedUp

\* A command that reports success has done what it was asked.
Completed ==
  \A r \in Runs : run[r].at # "done" /\ run'[r].at = "done" /\ r \notin raced' =>
    /\ IsDocument' => Fulfils(File, run[r].ask)'
    /\ ~IsDocument' => run'[r].ask = Uninstall

\* A command that has nothing to change finds everything done.
LEMMA ReadCompletes ==
  ASSUME SettingsSound, NEW r \in Runs, NEW ask \in Binaries \cup {Uninstall},
         Read(r, ask), run'[r].at = "done"
  PROVE  /\ IsDocument' => Fulfils(File', ask)
         /\ ~IsDocument' => ask = Uninstall
         /\ run'[r].ask = ask
<1> DEFINE doc == IF File \in {Missing, Blank} THEN Empty ELSE File
           new == Result(doc, ask)
           at == CASE doc = Torn -> "failed"
                   [] doc # Torn /\ new = doc -> "done"
                   [] OTHER -> "backup"
           left == IF doc = Torn \/ new = doc THEN Empty ELSE new
<1>1. /\ path' = path /\ inode' = inode
      /\ run' = [run EXCEPT ![r].ask = ask, ![r].at = at, ![r].doc = left]
  BY DEF Read
<1>2. File' = File /\ IsDocument' = IsDocument
  BY <1>1 DEF File, IsDocument
<1>3. run \in [Runs -> Command] /\ run[r] \in Command
  BY DEF SettingsSound, Typed
<1> HIDE DEF left
<1>4. at = "done" => doc # Torn /\ new = doc
  <2> HIDE DEF doc, new
  <2>1. QED
    OBVIOUS
<1>5. File \in Content /\ (File \in Documents => Clean(File))
  BY FileSound, ContentsDiffer DEF SettingsSound, DocumentsSound, Typed
<1> HIDE DEF at
<1>6. run'[r].at = at /\ run'[r].ask = ask
  BY <1>1, <1>3 DEF Command
<1>7. doc # Torn /\ new = doc
  BY <1>4, <1>6
<1>8. doc \in Documents /\ Clean(doc)
  BY <1>5, <1>7, EmptySound DEF Content
<1> HIDE DEF doc
<1>9. Fulfils(new, ask)
  BY <1>8, ResultSound
<1>10. Fulfils(doc, ask)
  BY <1>7, <1>9
<1>11. IsDocument => doc = File
  BY DEF IsDocument, doc
<1>12. ~IsDocument => ask = Uninstall
  <2> SUFFICES ASSUME ~IsDocument, ask # Uninstall PROVE FALSE
    OBVIOUS
  <2>1. doc = Empty
    BY <1>7 DEF IsDocument, doc
  <2>2. PICK e \in Events : TRUE
    BY SettingsAssumption
  <2>3. ask \in ToSet(doc.hooks[e])
    BY <1>10 DEF Fulfils, MatchesInstall
  <2>4. doc.hooks[e] = <<>>
    BY <2>1 DEF Empty
  <2>5. ToSet(<<>>) = {}
    BY DEF ToSet
  <2>6. QED
    BY <2>3, <2>4, <2>5
<1>13. QED
  BY <1>2, <1>6, <1>10, <1>11, <1>12

\* A command that renames has put in place what was asked.
LEMMA RenameCompletes ==
  ASSUME SettingsSound, NEW r \in Runs, Rename(r),
         run'[r].at = "done", r \notin raced'
  PROVE  Fulfils(File', run'[r].ask) /\ IsDocument'
<1>1. /\ run[r].at = "rename" /\ inode' = Kept(inode) /\ raced' = raced
      /\ path' = IF tmp = 0 THEN path ELSE tmp
      /\ Ends(r, IF tmp = 0 THEN "failed" ELSE "done")
  BY DEF Rename
<1>2. r \in Busy \ raced
  BY <1>1 DEF Busy
<1>3. tmp # 0 /\ inode[tmp] \in Documents /\ Fulfils(inode[tmp], run[r].ask)
  BY <1>1, <1>2 DEF SettingsSound, WritesSound, AsksSound
<1>4. File' = inode[tmp]
  <2>1. tmp \in Inodes
    BY <1>3 DEF SettingsSound, Typed
  <2>2. path' = tmp
    BY <1>1, <1>3
  <2>3. inode'[tmp] = inode[tmp]
    BY <1>1, <2>1, <2>2, KeptIs
  <2>4. QED
    BY <1>3, <2>2, <2>3 DEF File
<1>5. run'[r].ask = run[r].ask
  <2> DEFINE end == IF tmp = 0 THEN "failed" ELSE "done"
  <2>1. end \in {"done", "failed"} /\ Ends(r, end)
    BY <1>1
  <2> HIDE DEF end
  <2>2. QED
    BY <1>1, <1>2, <2>1, EndKeeps
<1>6. QED
  BY <1>3, <1>4, <1>5, ContentsDiffer DEF IsDocument

\* No other step is a success.
LEMMA StepsComplete ==
  ASSUME SettingsSound, [InstallNext]_installVars
  PROVE  [Completed]_installVars
<1> SUFFICES ASSUME InstallNext, NEW r \in Runs,
                    run[r].at # "done", run'[r].at = "done", r \notin raced'
             PROVE  /\ IsDocument' => Fulfils(File', run'[r].ask)
                    /\ ~IsDocument' => run'[r].ask = Uninstall
  BY DEF Completed, Fulfils
<1>0. run \in [Runs -> Command] /\ run' \in [Runs -> Command]
  <2>1. SettingsSound'
    BY StepsSound
  <2>2. QED
    BY <2>1 DEF SettingsSound, Typed
<1>1. CASE Save
  BY <1>1 DEF Save
<1>2. ASSUME NEW q \in Runs,
             \/ \E ask \in Binaries \cup {Uninstall} : Read(q, ask)
             \/ EmptyBackup(q) \/ WriteBackup(q)
             \/ OpenTmp(q) \/ WriteTmp(q) \/ Rename(q) \/ CommandDies(q)
      PROVE  /\ q = r
             /\ (\E ask \in Binaries \cup {Uninstall} : Read(q, ask)) \/ Rename(q)
  <2>1. q # r => run'[r] = run[r]
    BY <1>0, <1>2 DEF Read, EmptyBackup, WriteBackup, OpenTmp,
                      WriteTmp, Rename, CommandDies, Ends
  <2>2. ~EmptyBackup(r)
    BY <1>0 DEF EmptyBackup, Command
  <2>3. ~WriteBackup(r) /\ ~OpenTmp(r) /\ ~WriteTmp(r)
    BY <1>0 DEF WriteBackup, OpenTmp, WriteTmp, Command
  <2>4. ~CommandDies(r)
    <3> SUFFICES ASSUME CommandDies(r) PROVE FALSE
      OBVIOUS
    <3>1. r \in Busy /\ Ends(r, "failed") /\ raced' = raced
      BY DEF CommandDies
    <3>2. run'[r].at = "failed"
      BY <3>1, EndKeeps
    <3>3. QED
      BY <3>2
  <2>5. QED
    BY <1>2, <2>1, <2>2, <2>3, <2>4
<1>3. CASE Rename(r)
  BY <1>3, RenameCompletes
<1>4. CASE \E ask \in Binaries \cup {Uninstall} : Read(r, ask)
  <2>1. PICK ask \in Binaries \cup {Uninstall} : Read(r, ask)
    BY <1>4
  <2>2. /\ IsDocument' => Fulfils(File', ask)
        /\ ~IsDocument' => ask = Uninstall
        /\ run'[r].ask = ask
    BY <2>1, ReadCompletes
  <2>3. QED
    BY <2>2
<1>5. QED
  BY <1>1, <1>2, <1>3, <1>4 DEF InstallNext

\* And when it reports success every event has the handler asked for, and no other of a
\* program named birddog, or none of those (hooks/install.go Install, Uninstall,
\* matchesInstall, isBirddog).
THEOREM SettingsAreComplete == InstallSpec => SuccessIsComplete
<1>1. SettingsSound /\ [InstallNext]_installVars => [Completed]_installVars
  BY StepsComplete
<1>2. Completed =>
        \A r \in Runs : run[r].at # "done" /\ run'[r].at = "done" /\ r \notin raced' =>
          /\ IsDocument' =>
               /\ run'[r].ask = Uninstall => Status(File') = "missing"
               /\ run'[r].ask # Uninstall => MatchesInstall(File', run'[r].ask)
               /\ run'[r].ask \in Named =>
                    \A e \in Events :
                      Without(File'.hooks[e], Theirs \cup Unnamed) = <<run'[r].ask>>
          /\ ~IsDocument' => run'[r].ask = Uninstall
  BY DEF Completed, Fulfils, Foreign
<1>3. QED
  BY <1>1, <1>2, SettingsStaySound, PTL DEF InstallSpec, SuccessIsComplete
=============================================================================
