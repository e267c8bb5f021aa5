--------------------------- MODULE Sighting_proofs ---------------------------
(***************************************************************************)
(* Proofs about Sighting, for a transcript of any length and any window.   *)
(*                                                                         *)
(* What a look says of a question depends on what the session has written, *)
(* so the properties are carried by an invariant of the transcript: a      *)
(* question that was asked is closed by an answer or a message of the      *)
(* user, unless it is the one still being written or the one that blocks   *)
(* the session, and behind that one only subagents and attachments write.  *)
(* A kill may leave one open, and what a session taken up again writes     *)
(* first of its own is a message of the user, which closes it.             *)
(***************************************************************************)
EXTENDS Sighting, Extrema

Line == [kind : Kinds, id : 0..MaxLines]

\* The session waits on line i, and nothing of its own follows it.
Blocks(i) ==
  /\ lines[i].kind = "ask"
  /\ \A j \in (i + 1)..Len(lines) : lines[j].kind \in {"side", "attachment"}

\* A later line shows that the session went on.
Closed(i) ==
  \E j \in (i + 1)..Len(lines) :
    lines[j].kind = "user" \/ lines[j] = [kind |-> "answer", id |-> i]

\* A question is known by the line that asks it, and an answer follows it.
Numbered ==
  \A i \in 1..Len(lines) :
    /\ lines[i].kind = "ask" => lines[i].id = i
    /\ lines[i].kind = "answer" => lines[i].id < i

\* The menu is open on a question that has been written.
AskingBlocks ==
  turn = "asking" => \E i \in 1..Len(lines) : Blocks(i) /\ (torn => i # Len(lines))

AsksAreClosed ==
  \A i \in 1..Len(lines) :
    lines[i].kind = "ask" =>
      Closed(i) \/ (torn /\ i = Len(lines)) \/ (turn = "asking" /\ Blocks(i)) \/ killed

\* After a kill the session is dead or idle until its user writes.
KilledSound ==
  killed => IF torn THEN lines[Len(lines)].kind = "user" ELSE turn \in {"idle", "dead"}

\* A request that is reported has its evidence, at each step of a look.
LookSound ==
  /\ look.sight.evidence # "" <=> look.sight.visibility = "observed"
  /\ look.sight.evidence # "" => look.sight.live /\ look.sight.status = "waiting_input"
  /\ look.sight.visibility = "not_observed" => look.sight.live
  /\ look.at # "done" => look.sight.kind \notin {"question", "question_inferred"}

SInv ==
  /\ TypeOK
  /\ Numbered
  /\ AskingBlocks
  /\ AsksAreClosed
  /\ KilledSound
  /\ LookSound
  /\ blocked => turn = "asking"

-----------------------------------------------------------------------------
(* The transcript.                                                          *)

\* A line is written at the end, and the rest stays.
LEMMA Written ==
  ASSUME SInv, NEW k \in Kinds, NEW id \in 0..MaxLines, Write(k, id)
  PROVE  /\ lines' \in Seq(Line) /\ Len(lines) \in Nat /\ Len(lines') = Len(lines) + 1
         /\ Len(lines') <= MaxLines /\ lines' # <<>>
         /\ \A i \in 1..Len(lines) : lines'[i] = lines[i]
         /\ lines'[Len(lines) + 1] = [kind |-> k, id |-> id]
         /\ torn = FALSE /\ torn' = TRUE
<1>1. lines \in Seq(Line) /\ Len(lines) \in Nat /\ MaxLines \in Nat
  BY SightingAssumption DEF SInv, TypeOK, Line
<1>2. [kind |-> k, id |-> id] \in Line
  BY DEF Line
<1>3. lines' = Append(lines, [kind |-> k, id |-> id]) /\ Len(lines) < MaxLines
      /\ torn = FALSE /\ torn' = TRUE
  BY DEF Write, SInv, TypeOK
<1>4. QED
  BY <1>1, <1>2, <1>3

\* The question asked last is the one that blocks the session.
LEMMA AskedIsBlocking ==
  ASSUME SInv, turn = "asking"
  PROVE  Asked \in 1..Len(lines) /\ Blocks(Asked)
<1> DEFINE IsLast(i) == /\ lines[i].kind = "ask"
                        /\ \A j \in DOMAIN lines : lines[j].kind = "ask" => j <= i
           last == CHOOSE i \in DOMAIN lines : IsLast(i)
<1>1. lines \in Seq(Line) /\ Len(lines) \in Nat /\ DOMAIN lines = 1..Len(lines)
  BY DEF SInv, TypeOK, Line
<1>2. PICK i \in 1..Len(lines) : Blocks(i)
  BY DEF SInv, AskingBlocks
<1>3. IsLast(i)
  <2>1. ASSUME NEW j \in 1..Len(lines), lines[j].kind = "ask", ~(j <= i) PROVE FALSE
    BY <1>1, <1>2, <2>1 DEF Blocks
  <2>2. QED
    BY <1>1, <1>2, <2>1 DEF Blocks
<1>4. last \in DOMAIN lines /\ IsLast(last)
  <2> HIDE DEF IsLast
  <2>1. QED
    BY <1>1, <1>2, <1>3, Zenon
<1>5. last = i
  <2>1. last <= i /\ i <= last
    BY <1>1, <1>2, <1>3, <1>4 DEF Blocks
  <2> HIDE DEF last
  <2>2. QED
    BY <1>1, <1>2, <1>4, <2>1
<1>6. lines[i].id = i
  BY <1>2 DEF SInv, Numbered, Blocks
<1>7. Asked = i
  BY <1>5, <1>6 DEF Asked
<1>8. QED
  BY <1>2, <1>7

\* Writing keeps what is known of the questions, whoever writes.
LEMMA WriteKeeps ==
  ASSUME SInv, NEW k \in Kinds, NEW id \in 0..MaxLines, Write(k, id),
         turn' \in {"idle", "busy", "asking"},
         k = "ask" => id = Len(lines) + 1,
         k = "answer" => id <= Len(lines),
         turn' = "asking" => turn = "asking" /\ k \in {"side", "attachment"},
         turn = "asking" => \/ turn' = "asking"
                            \/ k = "user"
                            \/ k = "answer" /\ Blocks(id) /\ id \in 1..Len(lines),
         turn # "dead", turn = "idle" => k = "user", killed' = killed
  PROVE  Numbered' /\ AskingBlocks' /\ AsksAreClosed' /\ KilledSound'
<1> DEFINE n == Len(lines)
<1>1. /\ n \in Nat /\ Len(lines') = n + 1 /\ torn = FALSE /\ torn' = TRUE
      /\ \A i \in 1..n : lines'[i] = lines[i]
      /\ lines'[n + 1] = [kind |-> k, id |-> id]
  BY Written
<1> HIDE DEF n
<1>2. \A i \in 1..n : Closed(i) => Closed(i)'
  BY <1>1 DEF Closed, n
<1>3. \A i \in 1..n : Blocks(i) /\ k \in {"side", "attachment"} => Blocks(i)'
  BY <1>1 DEF Blocks, n
<1>4. Numbered'
  <2>1. id \in Nat
    BY SightingAssumption
  <2>2. ASSUME NEW i \in 1..(n + 1)
        PROVE  /\ lines'[i].kind = "ask" => lines'[i].id = i
               /\ lines'[i].kind = "answer" => lines'[i].id < i
    <3>1. CASE i \in 1..n
      BY <1>1, <3>1 DEF SInv, Numbered, n
    <3>2. CASE i = n + 1
      BY <1>1, <2>1, <3>2 DEF n
    <3>3. QED
      BY <1>1, <3>1, <3>2
  <2>3. QED
    BY <1>1, <2>2 DEF Numbered
<1>5. AskingBlocks'
  <2> SUFFICES ASSUME turn' = "asking"
               PROVE  \E i \in 1..Len(lines') : Blocks(i)' /\ (torn' => i # Len(lines'))
    BY DEF AskingBlocks
  <2>1. PICK i \in 1..n : Blocks(i)
    BY DEF SInv, AskingBlocks, n
  <2>2. Blocks(i)' /\ i \in 1..Len(lines') /\ i # Len(lines')
    BY <1>1, <1>3, <2>1
  <2>3. QED
    BY <2>2
<1>6. AsksAreClosed'
  <2> SUFFICES ASSUME NEW i \in 1..(n + 1), lines'[i].kind = "ask"
               PROVE  Closed(i)' \/ i = n + 1 \/ (turn' = "asking" /\ Blocks(i)') \/ killed
    BY <1>1 DEF AsksAreClosed
  <2>1. CASE i = n + 1
    BY <2>1
  <2>2. CASE i \in 1..n
    <3>1. Closed(i) \/ (turn = "asking" /\ Blocks(i)) \/ killed
      BY <1>1, <2>2 DEF SInv, AsksAreClosed, n
    <3>2. CASE turn = "asking" /\ Blocks(i)
      <4>1. CASE turn' = "asking"
        BY <1>3, <2>2, <3>2, <4>1
      <4>2. CASE k = "user"
        BY <1>1, <2>2, <4>2 DEF Closed
      <4>3. CASE k = "answer" /\ Blocks(id) /\ id \in 1..n
        <5>1. id = i
          BY <1>1, <2>2, <3>2, <4>3 DEF Blocks, n
        <5>2. QED
          BY <1>1, <2>2, <4>3, <5>1 DEF Closed
      <4>4. QED
        BY <3>2, <4>1, <4>2, <4>3 DEF n
    <3>3. QED
      BY <1>2, <2>2, <3>1, <3>2
  <2>3. QED
    BY <1>1, <2>1, <2>2
<1>7. KilledSound'
  <2>1. killed => turn = "idle"
    BY <1>1 DEF SInv, KilledSound
  <2>2. lines'[Len(lines')].kind = k
    BY <1>1
  <2>3. QED
    BY <1>1, <2>1, <2>2 DEF KilledSound
<1>8. QED
  BY <1>4, <1>5, <1>6, <1>7

-----------------------------------------------------------------------------
(* The session's steps.                                                     *)

\* One message or attachment more, or the end of a turn.
LEMMA SessionStep ==
  ASSUME SInv, Session
  PROVE  SInv'
<1>1. /\ lines \in Seq(Line) /\ Len(lines) \in 0..MaxLines /\ MaxLines \in Nat
      /\ torn \in BOOLEAN /\ turn \in {"idle", "busy", "asking", "dead"}
      /\ blocked \in BOOLEAN /\ killed \in BOOLEAN
  BY SightingAssumption DEF SInv, TypeOK, Line
<1>2. UNCHANGED <<status, look, killed>> /\ blocked' = (blocked /\ turn' = "asking")
  BY DEF Session
<1>3. ASSUME turn' \in {"idle", "busy", "asking"}, torn' \in BOOLEAN,
             lines' \in Seq(Line), Len(lines') <= MaxLines, torn' => lines' # <<>>,
             Numbered', AskingBlocks', AsksAreClosed', KilledSound'
      PROVE  SInv'
  <2>1. TypeOK'
    BY <1>1, <1>2, <1>3 DEF SInv, TypeOK, Line
  <2>2. LookSound' /\ (blocked' => turn' = "asking")
    BY <1>2 DEF SInv, LookSound
  <2>3. QED
    BY <1>3, <2>1, <2>2 DEF SInv
<1>4. ASSUME NEW k \in Kinds, NEW id \in 0..MaxLines, Write(k, id),
             turn' \in {"idle", "busy", "asking"},
             k = "ask" => id = Len(lines) + 1,
             k = "answer" => id <= Len(lines),
             turn' = "asking" => turn = "asking" /\ k \in {"side", "attachment"},
             turn = "asking" => \/ turn' = "asking"
                                \/ k = "user"
                                \/ k = "answer" /\ Blocks(id) /\ id \in 1..Len(lines),
             turn # "dead", turn = "idle" => k = "user"
      PROVE  SInv'
  <2>1. Numbered' /\ AskingBlocks' /\ AsksAreClosed' /\ KilledSound'
    BY <1>2, <1>4, WriteKeeps
  <2>2. lines' \in Seq(Line) /\ Len(lines') <= MaxLines /\ lines' # <<>> /\ torn' = TRUE
    BY <1>4, Written
  <2>3. QED
    BY <1>3, <1>4, <2>1, <2>2
<1>5. /\ {"user", "ask", "answer", "side", "attachment", "statement", "question", "bare"}
           \subseteq Kinds
      /\ 0 \in 0..MaxLines
  BY <1>1 DEF Kinds, Messages, Assistant
<1>6. CASE Prompt
  BY <1>4, <1>5, <1>6 DEF Prompt
<1>7. CASE Work
  <2>1. PICK k \in {"statement", "question", "user", "bare"} : Write(k, 0)
    BY <1>7 DEF Work, Assistant
  <2>2. QED
    BY <1>4, <1>5, <1>7, <2>1 DEF Work
<1>8. CASE Ask
  <2>1. Len(lines) + 1 \in 0..MaxLines
    BY <1>1, <1>8 DEF Ask, Write
  <2>2. QED
    BY <1>4, <1>5, <1>8, <2>1 DEF Ask
<1>9. CASE Answer
  <2>1. turn = "asking" /\ Write("answer", Asked) /\ turn' = "busy"
    BY <1>9 DEF Answer
  <2>2. Asked \in 1..Len(lines) /\ Blocks(Asked) /\ Asked \in 0..MaxLines /\ Asked <= Len(lines)
    BY <1>1, <2>1, AskedIsBlocking
  <2>3. QED
    BY <1>4, <1>5, <2>1, <2>2
<1>10. CASE Dismiss
  BY <1>4, <1>5, <1>10 DEF Dismiss
<1>11. CASE Beside
  <2>1. PICK k \in {"side", "attachment"} : Write(k, 0)
    BY <1>11 DEF Beside
  <2>2. QED
    BY <1>1, <1>4, <1>5, <1>11, <2>1 DEF Beside
<1>12. CASE EndTurn
  <2>1. turn = "busy" /\ turn' = "idle" /\ UNCHANGED <<lines, torn>>
    BY <1>12 DEF EndTurn
  <2>2. Numbered' /\ AskingBlocks' /\ AsksAreClosed' /\ KilledSound'
    BY <1>2, <2>1 DEF SInv, Numbered, AskingBlocks, AsksAreClosed, KilledSound, Closed, Blocks
  <2>3. torn' => lines' # <<>>
    BY <2>1 DEF SInv, TypeOK
  <2>4. QED
    BY <1>1, <1>3, <2>1, <2>2, <2>3
<1>13. QED
  BY <1>6, <1>7, <1>8, <1>9, <1>10, <1>11, <1>12 DEF Session

\* The line is whole.  If it asks, it is the one that blocks the session.
LEMMA LandStep ==
  ASSUME SInv, Land
  PROVE  SInv'
<1>1. /\ lines \in Seq(Line) /\ Len(lines) \in Nat /\ lines # <<>>
      /\ torn = TRUE /\ torn' = FALSE /\ turn \in {"idle", "busy", "asking", "dead"}
      /\ killed' = (killed /\ ~Own(Len(lines))) /\ killed \in BOOLEAN
      /\ turn' = (IF lines[Len(lines)].kind = "ask" THEN "asking" ELSE turn)
      /\ UNCHANGED <<lines, status, look, blocked>>
  BY DEF Land, SInv, TypeOK, Line
<1>2. Len(lines) \in 1..Len(lines)
  BY <1>1
<1>3. lines[Len(lines)].kind = "ask" => Blocks(Len(lines))
  BY <1>1 DEF Blocks
<1>4. TypeOK'
  BY <1>1 DEF SInv, TypeOK
<1>5. killed => lines[Len(lines)].kind = "user" /\ killed' = FALSE
  BY <1>1 DEF SInv, KilledSound, Own, Messages
<1>6. AskingBlocks'
  <2>1. CASE lines[Len(lines)].kind = "ask"
    BY <1>1, <1>2, <1>3, <2>1 DEF AskingBlocks, Blocks
  <2>2. CASE lines[Len(lines)].kind # "ask"
    BY <1>1, <2>2 DEF SInv, AskingBlocks, Blocks
  <2>3. QED
    BY <2>1, <2>2
<1>7. AsksAreClosed'
  <2> SUFFICES ASSUME NEW i \in 1..Len(lines), lines[i].kind = "ask"
               PROVE  Closed(i) \/ (turn' = "asking" /\ Blocks(i))
    BY <1>1 DEF AsksAreClosed, Closed, Blocks
  <2>1. Closed(i) \/ i = Len(lines) \/ (turn = "asking" /\ Blocks(i)) \/ killed
    BY DEF SInv, AsksAreClosed
  <2>2. killed => Closed(i)
    BY <1>1, <1>2, <1>5 DEF Closed
  <2>3. QED
    BY <1>1, <1>3, <2>1, <2>2
<1>8. Numbered' /\ KilledSound' /\ LookSound' /\ (blocked' => turn' = "asking")
  BY <1>1, <1>5 DEF SInv, Numbered, KilledSound, LookSound
<1>9. QED
  BY <1>4, <1>6, <1>7, <1>8 DEF SInv

\* A kill breaks the line that was being written, and excuses every question.
LEMMA KillStep ==
  ASSUME SInv, Kill
  PROVE  SInv'
<1>1. /\ lines \in Seq(Line) /\ Len(lines) \in Nat /\ Len(lines) <= MaxLines
      /\ torn => lines # <<>>
      /\ turn' = "dead" /\ torn' = FALSE /\ blocked' = FALSE /\ killed' = TRUE
      /\ lines' = IF torn THEN [lines EXCEPT ![Len(lines)].kind = "broken"] ELSE lines
      /\ UNCHANGED <<status, look>>
  BY DEF Kill, SInv, TypeOK, Line
<1>2. /\ lines' \in Seq(Line) /\ Len(lines') = Len(lines)
      /\ \A i \in 1..Len(lines) : lines'[i].kind \in {"ask", "answer"} => lines'[i] = lines[i]
  <2>1. CASE torn
    <3> DEFINE last == [lines[Len(lines)] EXCEPT !.kind = "broken"]
    <3>1. Len(lines) \in 1..Len(lines) /\ lines[Len(lines)] \in Line
      BY <1>1, <2>1
    <3>2. last \in Line /\ last.kind = "broken"
      BY <3>1 DEF Line, Kinds
    <3>3. lines' = [lines EXCEPT ![Len(lines)] = last]
      BY <1>1, <2>1, <3>1
    <3> HIDE DEF last
    <3>4. QED
      BY <1>1, <3>1, <3>2, <3>3
  <2>2. CASE ~torn
    BY <1>1, <2>2
  <2>3. QED
    BY <2>1, <2>2
<1>3. TypeOK'
  BY <1>1, <1>2 DEF SInv, TypeOK, Line
<1>4. Numbered'
  BY <1>1, <1>2 DEF SInv, Numbered
<1>5. AskingBlocks' /\ AsksAreClosed' /\ KilledSound'
  BY <1>1 DEF AskingBlocks, AsksAreClosed, KilledSound
<1>6. LookSound' /\ (blocked' => turn' = "asking")
  BY <1>1 DEF SInv, LookSound
<1>7. QED
  BY <1>3, <1>4, <1>5, <1>6 DEF SInv

LEMMA ResumeStep ==
  ASSUME SInv, Resume
  PROVE  SInv'
<1>1. /\ UNCHANGED <<lines, torn, look, blocked, killed>>
      /\ turn = "dead" /\ turn' = "idle" /\ status' = "idle"
  BY DEF Resume
<1>2. TypeOK'
  BY <1>1 DEF SInv, TypeOK
<1>3. Numbered' /\ AskingBlocks' /\ AsksAreClosed' /\ KilledSound' /\ LookSound'
      /\ (blocked' => turn' = "asking")
  BY <1>1 DEF SInv, Numbered, AskingBlocks, AsksAreClosed, KilledSound, Closed, Blocks, LookSound
<1>4. QED
  BY <1>2, <1>3 DEF SInv

LEMMA PublishStep ==
  ASSUME SInv, Publish
  PROVE  SInv'
<1>1. UNCHANGED <<lines, torn, turn, look, blocked, killed>>
  BY DEF Publish
<1>2. status' \in {"idle", "busy", "waiting", "compacting"}
  BY DEF Publish, SInv, TypeOK
<1>3. TypeOK'
  BY <1>1, <1>2 DEF SInv, TypeOK
<1>4. Numbered' /\ AskingBlocks' /\ AsksAreClosed' /\ KilledSound' /\ LookSound'
      /\ (blocked' => turn' = "asking")
  BY <1>1 DEF SInv, Numbered, AskingBlocks, AsksAreClosed, KilledSound, Closed, Blocks, LookSound
<1>5. QED
  BY <1>3, <1>4 DEF SInv

-----------------------------------------------------------------------------
(* The look.                                                                *)

\* A step of the look keeps what the session has.
LEMMA LookKeeps ==
  ASSUME SInv, NEW at \in {"hooks", "transcript", "done"}, NEW s \in SightType, Then(at, s),
         s.evidence # "" <=> s.visibility = "observed",
         s.evidence # "" => s.live /\ s.status = "waiting_input",
         s.visibility = "not_observed" => s.live,
         at # "done" => s.kind \notin {"question", "question_inferred"},
         blocked' \in BOOLEAN, blocked' => turn = "asking"
  PROVE  SInv'
<1>1. UNCHANGED <<lines, torn, turn, status, killed>>
  BY DEF Then, session
<1>2. look' = [at |-> at, sight |-> s]
  BY DEF Then
<1>3. TypeOK'
  BY <1>1, <1>2 DEF SInv, TypeOK
<1>4. LookSound'
  BY <1>2 DEF LookSound
<1>5. Numbered' /\ AskingBlocks' /\ AsksAreClosed' /\ KilledSound'
      /\ (blocked' => turn' = "asking")
  BY <1>1 DEF SInv, Numbered, AskingBlocks, AsksAreClosed, KilledSound, Closed, Blocks
<1>6. QED
  BY <1>3, <1>4, <1>5 DEF SInv

LEMMA ReadRegistryStep ==
  ASSUME SInv, ReadRegistry
  PROVE  SInv'
<1>1. PICK live \in BOOLEAN : Then("hooks", Registered(status, live))
  BY DEF ReadRegistry
<1> DEFINE s == Registered(status, live)
<1>2. status \in {"idle", "busy", "waiting", "compacting"}
  BY DEF SInv, TypeOK
<1>3. /\ s.live = live /\ s.status \in {"active", "idle", "waiting_input", "unknown"}
      /\ s.visibility = IF ~live THEN "unavailable"
                        ELSE IF status = "waiting" THEN "observed" ELSE "not_observed"
      /\ s.evidence = IF live /\ status = "waiting" THEN "registry" ELSE ""
      /\ s.kind = IF status = "waiting" THEN "provider" ELSE ""
      /\ status = "waiting" => s.status = "waiting_input"
  BY <1>2 DEF Registered, StatusMap
<1>4. s \in SightType
  BY <1>2 DEF Registered, StatusMap, SightType
<1>5. Then("hooks", s) /\ blocked' = (turn = "asking")
  BY <1>1 DEF ReadRegistry
<1> HIDE DEF s
<1>6. QED
  BY <1>3, <1>4, <1>5, LookKeeps

\* The four ways the hooks may change a sighting.
LEMMA EnrichedIs ==
  ASSUME NEW s \in SightType, NEW hooks \in HookStates
  PROVE  LET e == Enriched(s, hooks)
         IN  /\ e \in SightType /\ e.live = s.live /\ e.kind = s.kind
             /\ \/ e = s
                \/ /\ s.live /\ e.status = "waiting_input"
                   /\ e.visibility = "observed" /\ e.evidence = "hook"
                \/ s.live /\ e.visibility = "not_observed" /\ e.evidence = ""
<1>1. CASE ~s.live \/ ~hooks.present
  BY <1>1 DEF Enriched
<1>2. CASE s.live /\ hooks.present /\ hooks.pending
  BY <1>2 DEF Enriched, SightType
<1>3. CASE s.live /\ hooks.present /\ ~hooks.pending
  BY <1>3 DEF Enriched, SightType
<1>4. QED
  BY <1>1, <1>2, <1>3

LEMMA ReadHooksStep ==
  ASSUME SInv, ReadHooks
  PROVE  SInv'
<1>1. look.sight \in SightType /\ look.at = "hooks" /\ LookSound
      /\ blocked' = blocked /\ blocked \in BOOLEAN /\ (blocked => turn = "asking")
  BY DEF ReadHooks, SInv, TypeOK
<1>2. ASSUME NEW hooks \in HookStates, Then("transcript", Enriched(look.sight, hooks))
      PROVE  SInv'
  <2> DEFINE e == Enriched(look.sight, hooks)
             s == look.sight
  <2>1. /\ e \in SightType /\ e.live = s.live /\ e.kind = s.kind
        /\ \/ e = s
           \/ /\ s.live /\ e.status = "waiting_input"
              /\ e.visibility = "observed" /\ e.evidence = "hook"
           \/ s.live /\ e.visibility = "not_observed" /\ e.evidence = ""
    BY <1>1, EnrichedIs
  <2>2. Then("transcript", e)
    BY <1>2
  <2> HIDE DEF e
  <2>3. /\ e.evidence # "" <=> e.visibility = "observed"
        /\ e.evidence # "" => e.live /\ e.status = "waiting_input"
        /\ e.visibility = "not_observed" => e.live
        /\ e.kind \notin {"question", "question_inferred"}
    BY <1>1, <2>1 DEF LookSound
  <2>4. QED
    BY <1>1, <2>1, <2>2, <2>3, LookKeeps
<1>3. CASE Then("done", Unobserved)
  <2>1. /\ Unobserved \in SightType /\ Unobserved.evidence = "" /\ Unobserved.visibility = ""
    BY DEF Unobserved, SightType
  <2>2. QED
    BY <1>1, <1>3, <2>1, LookKeeps
<1>4. QED
  BY <1>2, <1>3 DEF ReadHooks

\* What a look at the transcript makes of a sighting.
LEMMA WatchedIs ==
  ASSUME NEW s \in SightType, NEW found \in BOOLEAN
  PROVE  LET w == Watched(s, found)
             q == Detect(InWindow, s.status = "idle")
         IN  /\ w \in SightType /\ w.live = s.live
             /\ \/ w = s /\ (~s.live \/ s.visibility = "observed")
                \/ s.live /\ w.evidence = "" /\ w.visibility = "unavailable" /\ w.kind = s.kind
                \/ /\ s.live /\ w.evidence = "" /\ w.visibility = "not_observed"
                   /\ w.kind = s.kind /\ q = "none" /\ Looked
                \/ /\ s.live /\ w.evidence = "transcript" /\ w.visibility = "observed"
                   /\ w.status = "waiting_input" /\ w.kind = q
<1> DEFINE q == Detect(InWindow, s.status = "idle")
<1>1. q \in {"none", "question", "question_inferred"}
  BY DEF Detect
<1>2. Watched(s, found) =
        IF ~s.live \/ s.visibility = "observed" THEN s
        ELSE IF ~found \/ ~Looked THEN [s EXCEPT !.evidence = "", !.visibility = "unavailable"]
        ELSE IF q = "none" THEN [s EXCEPT !.evidence = "", !.visibility = "not_observed"]
        ELSE [s EXCEPT !.status = "waiting_input", !.visibility = "observed",
                       !.evidence = "transcript", !.kind = q]
  BY DEF Watched
<1> HIDE DEF q
<1>3. CASE ~s.live \/ s.visibility = "observed"
  BY <1>2, <1>3
<1>4. CASE s.live /\ s.visibility # "observed" /\ (~found \/ ~Looked)
  BY <1>2, <1>4 DEF SightType
<1>5. CASE s.live /\ s.visibility # "observed" /\ found /\ Looked /\ q = "none"
  BY <1>2, <1>5 DEF SightType, q
<1>6. CASE s.live /\ s.visibility # "observed" /\ found /\ Looked /\ q # "none"
  BY <1>1, <1>2, <1>6 DEF SightType, q
<1>7. QED
  BY <1>3, <1>4, <1>5, <1>6

LEMMA ReadTranscriptStep ==
  ASSUME SInv, ReadTranscript
  PROVE  SInv'
<1>1. /\ look.sight \in SightType /\ look.at = "transcript" /\ LookSound
      /\ blocked' = blocked /\ blocked \in BOOLEAN /\ (blocked => turn = "asking")
  BY DEF ReadTranscript, SInv, TypeOK
<1>2. PICK found \in BOOLEAN : Then("done", Watched(look.sight, found))
  BY DEF ReadTranscript
<1> DEFINE w == Watched(look.sight, found)
           s == look.sight
<1>3. /\ w \in SightType /\ w.live = s.live
      /\ \/ w = s
         \/ s.live /\ w.evidence = "" /\ w.visibility \in {"unavailable", "not_observed"}
         \/ /\ s.live /\ w.evidence = "transcript" /\ w.visibility = "observed"
            /\ w.status = "waiting_input"
  BY <1>1, WatchedIs
<1>4. Then("done", w)
  BY <1>2
<1> HIDE DEF w
<1>5. /\ w.evidence # "" <=> w.visibility = "observed"
      /\ w.evidence # "" => w.live /\ w.status = "waiting_input"
      /\ w.visibility = "not_observed" => w.live
  BY <1>1, <1>3 DEF LookSound
<1>6. QED
  BY <1>1, <1>3, <1>4, <1>5, LookKeeps

-----------------------------------------------------------------------------
(* The window.                                                              *)

\* What a line and those after it take falls from line to line.
LEMMA FromFalls ==
  ASSUME SInv, NEW i \in 1..(Len(lines) + 1), NEW j \in 1..(Len(lines) + 1), i <= j
  PROVE  From[i] \in Nat /\ From[j] \in Nat /\ From[j] <= From[i]
<1> DEFINE N == Len(lines)
           g == [n \in 1..N |-> Size(lines[N + 1 - n])]
           s == CHOOSE f : f = [n \in 0..N |-> IF n = 0 THEN 0 ELSE f[n - 1] + g[n]]
           size == CHOOSE f : f = [n \in 0..N |-> IF n = 0 THEN 0
                                                  ELSE f[n - 1] + Size(lines[N + 1 - n])]
<1>1. N \in Nat
  BY DEF SInv, TypeOK
<1>2. g \in [1..N -> Nat]
  BY DEF Size
<1>3. size = s
  <2> SUFFICES ASSUME NEW f
               PROVE  [n \in 0..N |-> IF n = 0 THEN 0 ELSE f[n - 1] + g[n]]
                      = [n \in 0..N |-> IF n = 0 THEN 0 ELSE f[n - 1] + Size(lines[N + 1 - n])]
    BY Zenon
  <2>1. QED
    BY <1>1
<1>4. From = [k \in 1..(N + 1) |-> size[N + 1 - k]]
  BY DEF From
<1> HIDE DEF N, g, size
<1>5. s \in [0..N -> Nat] /\ \A a, b \in 0..N : a <= b => s[a] <= s[b]
  BY <1>1, <1>2, SumsRise
<1> HIDE DEF s
<1>6. QED
  BY <1>1, <1>3, <1>4, <1>5 DEF N

\* Behind a line that is read, every whole message is read.
LEMMA WindowReaches ==
  ASSUME SInv, NEW i \in 1..Len(lines), NEW j \in 1..Len(lines), i <= j, From[i] <= Window,
         lines[j].kind \in Messages, ~(torn /\ j = Len(lines))
  PROVE  j \in InWindow
<1>1. Len(lines) \in Nat /\ Window \in Nat
  BY SightingAssumption DEF SInv, TypeOK
<1>2. DOMAIN lines = 1..Len(lines)
  BY DEF SInv, TypeOK
<1>3. i \in 1..(Len(lines) + 1) /\ j \in 1..(Len(lines) + 1)
  BY <1>1
<1>4. From[i] \in Nat /\ From[j] \in Nat /\ From[j] <= From[i]
  BY <1>3, FromFalls
<1>5. From[j] <= Window
  BY <1>1, <1>4
<1>6. QED
  BY <1>5, <1>2 DEF InWindow

\* A question in reach is detected exactly when it is the session's newest message
\* and the window holds no answer to it.
LEMMA DetectsNewest ==
  ASSUME SInv, NEW idle \in BOOLEAN
  PROVE  Detect(InWindow, idle) = "question" <=>
           \E i \in InWindow :
             /\ lines[i].kind = "ask"
             /\ \A j \in InWindow : lines[j].kind \notin {"side", "bare"} => j <= i
             /\ \A j \in InWindow : lines[j] # [kind |-> "answer", id |-> i]
<1> DEFINE own == {i \in InWindow : lines[i].kind \notin {"side", "bare"}}
           newest == CHOOSE i \in own : \A j \in own : j <= i
           answered == \E j \in InWindow : lines[j] = [kind |-> "answer", id |-> lines[newest].id]
<1>1. Len(lines) \in Nat /\ InWindow \subseteq 1..Len(lines)
      /\ \A i \in 1..Len(lines) : lines[i].kind = "ask" => lines[i].id = i
  BY DEF SInv, TypeOK, InWindow, Numbered
<1>2. Detect(InWindow, idle) = "question" <=>
        own # {} /\ lines[newest].kind = "ask" /\ ~answered
  <2>1. Detect(InWindow, idle) =
          CASE own = {} -> "none"
            [] own # {} /\ lines[newest].kind = "ask" /\ ~answered -> "question"
            [] own # {} /\ lines[newest].kind = "question" /\ idle -> "question_inferred"
            [] OTHER -> "none"
    BY DEF Detect
  <2> HIDE DEF own, newest, answered
  <2>2. QED
    BY <2>1
<1>3. ASSUME NEW i \in own, \A j \in own : j <= i PROVE newest = i
  <2> HIDE DEF own
  <2>1. newest \in own /\ \A j \in own : j <= newest
    BY <1>3, Zenon
  <2> HIDE DEF newest
  <2>2. newest \in Nat /\ i \in Nat
    BY <1>1, <1>3, <2>1 DEF own
  <2>3. newest <= i /\ i <= newest
    BY <1>3, <2>1
  <2>4. QED
    BY <2>2, <2>3
<1>4. ASSUME own # {} PROVE newest \in own /\ \A j \in own : j <= newest
  <2> DEFINE m == Max(own)
  <2>1. own \in SUBSET (0..Len(lines))
    <3>1. own \subseteq 1..Len(lines)
      BY <1>1
    <3>2. 1..Len(lines) \subseteq 0..Len(lines)
      BY <1>1
    <3> HIDE DEF own
    <3>3. QED
      BY <3>1, <3>2, Zenon
  <2> HIDE DEF own
  <2>2. m \in own /\ \A j \in own : j <= m
    BY <1>1, <1>4, <2>1, MaxIsGreatest
  <2> HIDE DEF m
  <2>3. QED
    BY <1>3, <2>2
<1> HIDE DEF newest
<1>5. ASSUME own # {}, lines[newest].kind = "ask", ~answered
      PROVE  \E i \in InWindow :
               /\ lines[i].kind = "ask"
               /\ \A j \in InWindow : lines[j].kind \notin {"side", "bare"} => j <= i
               /\ \A j \in InWindow : lines[j] # [kind |-> "answer", id |-> i]
  <2>1. newest \in InWindow /\ lines[newest].id = newest
    BY <1>1, <1>4, <1>5
  <2>2. QED
    BY <1>4, <1>5, <2>1
<1>6. ASSUME NEW i \in InWindow, lines[i].kind = "ask",
             \A j \in InWindow : lines[j].kind \notin {"side", "bare"} => j <= i,
             \A j \in InWindow : lines[j] # [kind |-> "answer", id |-> i]
      PROVE  own # {} /\ lines[newest].kind = "ask" /\ ~answered
  <2>1. i \in own /\ lines[i].id = i
    BY <1>1, <1>6
  <2>2. newest = i
    BY <1>3, <1>6, <2>1
  <2>3. QED
    BY <1>6, <2>1, <2>2
<1>7. QED
  BY <1>2, <1>5, <1>6

-----------------------------------------------------------------------------
(* Theorems.                                                                *)

LEMMA SightingStart == Init => SInv
<1> SUFFICES ASSUME Init PROVE SInv
  OBVIOUS
<1>1. lines = <<>> /\ Len(lines) = 0 /\ torn = FALSE /\ turn = "idle" /\ status = "idle"
      /\ look = [at |-> "done", sight |-> Unobserved] /\ blocked = FALSE
      /\ killed = FALSE
  BY DEF Init
<1>2. Unobserved \in SightType /\ Unobserved.evidence = "" /\ Unobserved.visibility = ""
  BY DEF Unobserved, SightType
<1>3. TypeOK
  <2>1. lines \in Seq([kind : Kinds, id : 0..MaxLines]) /\ Len(lines) <= MaxLines
    BY <1>1, SightingAssumption
  <2>2. look \in [at : {"hooks", "transcript", "done"}, sight : SightType]
    BY <1>1, <1>2
  <2>3. QED
    BY <1>1, <2>1, <2>2 DEF TypeOK
<1>4. Numbered /\ AskingBlocks /\ AsksAreClosed /\ KilledSound
  BY <1>1 DEF Numbered, AskingBlocks, AsksAreClosed, KilledSound
<1>5. LookSound
  BY <1>1, <1>2 DEF LookSound
<1>6. QED
  BY <1>1, <1>3, <1>4, <1>5 DEF SInv

LEMMA SightingStep == SInv /\ [Next]_vars => SInv'
<1> SUFFICES ASSUME SInv, [Next]_vars PROVE SInv'
  OBVIOUS
<1>1. CASE UNCHANGED vars
  <2>1. TypeOK' /\ LookSound' /\ (blocked' => turn' = "asking")
    BY <1>1 DEF vars, SInv, TypeOK, LookSound
  <2>2. Numbered' /\ AskingBlocks' /\ AsksAreClosed' /\ KilledSound'
    BY <1>1 DEF vars, SInv, Numbered, AskingBlocks, AsksAreClosed, KilledSound, Closed, Blocks
  <2>3. QED
    BY <2>1, <2>2 DEF SInv
<1>2. CASE Next
  BY <1>2, SessionStep, LandStep, KillStep, ResumeStep, PublishStep, ReadRegistryStep,
     ReadHooksStep, ReadTranscriptStep DEF Next
<1>3. QED
  BY <1>1, <1>2

LEMMA SightingInvariant == Spec => []SInv
BY SightingStart, SightingStep, PTL DEF Spec

\* Every variable keeps its type, and whichever of the three sources spoke last, a
\* sighting has evidence exactly when it reports a request, of a session that waits.
THEOREM SightingsAreSound == Spec => []SightingInv
<1>1. SInv => SightingInv
  BY DEF SInv, LookSound, SightingInv, EvidenceIsOfARequest
<1>2. QED
  BY <1>1, SightingInvariant, PTL

\* A question that blocks the session through the whole look is never answered with
\* "looked and saw none" while the window shows a message of the session's own, for
\* any window and however much subagents and attachments wrote behind it.
THEOREM BlockedIsSeen == Spec => BlockedIsNotOverlooked
<1>1. ASSUME SInv, ReadTranscript, blocked, look'.sight.visibility = "not_observed"
      PROVE  (\A i \in InWindow : ~Own(i)) /\ InWindow # {}
  <2>1. /\ look.sight \in SightType /\ LookSound /\ turn = "asking"
        /\ Len(lines) \in Nat /\ InWindow \subseteq 1..Len(lines) /\ Window \in Nat
    BY <1>1, SightingAssumption DEF SInv, TypeOK, InWindow
  <2>2. PICK found \in BOOLEAN : look'.sight = Watched(look.sight, found)
    BY <1>1 DEF ReadTranscript, Then
  <2> DEFINE idle == look.sight.status = "idle"
  <2>3. Detect(InWindow, idle) = "none" /\ Looked
    <3> DEFINE w == Watched(look.sight, found)
               q == Detect(InWindow, idle)
               s == look.sight
    <3>1. \/ w = s /\ (~s.live \/ s.visibility = "observed")
          \/ s.live /\ w.evidence = "" /\ w.visibility = "unavailable" /\ w.kind = s.kind
          \/ /\ s.live /\ w.evidence = "" /\ w.visibility = "not_observed"
             /\ w.kind = s.kind /\ q = "none" /\ Looked
          \/ /\ s.live /\ w.evidence = "transcript" /\ w.visibility = "observed"
             /\ w.status = "waiting_input" /\ w.kind = q
      BY <2>1, WatchedIs
    <3>2. look'.sight = w
      BY <2>2
    <3> HIDE DEF w, q
    <3>3. QED
      BY <1>1, <2>1, <3>1, <3>2 DEF LookSound, q
  <2> HIDE DEF idle
  <2>4. PICK b \in 1..Len(lines) : Blocks(b) /\ (torn => b # Len(lines))
    BY <1>1, <2>1 DEF SInv, AskingBlocks
  <2>5. b \notin InWindow
    <3> SUFFICES ASSUME b \in InWindow PROVE Detect(InWindow, idle) = "question"
      BY <2>3
    <3>1. \A j \in InWindow : lines[j].kind \notin {"side", "bare"} => j <= b
      BY <2>1, <2>4 DEF Blocks, InWindow, Messages, Assistant
    <3>2. ASSUME NEW j \in InWindow, lines[j] = [kind |-> "answer", id |-> b] PROVE FALSE
      <4>1. j \in 1..Len(lines) /\ lines[j].kind = "answer" /\ b < j
        BY <1>1, <2>1, <3>2 DEF SInv, Numbered
      <4>2. QED
        BY <2>1, <2>4, <4>1 DEF Blocks
    <3>3. idle \in BOOLEAN /\ lines[b].kind = "ask"
      BY <2>4 DEF idle, Blocks
    <3>4. QED
      BY <1>1, <3>1, <3>2, <3>3, DetectsNewest
  <2>6. ASSUME NEW k \in 1..Len(lines), k <= b, From[k] <= Window PROVE FALSE
    <3>1. lines[b].kind \in Messages /\ ~(torn /\ b = Len(lines))
      BY <2>4 DEF Blocks, Messages
    <3>2. QED
      BY <1>1, <2>4, <2>5, <2>6, <3>1, WindowReaches
  <2>7. \A i \in InWindow : ~Own(i)
    <3> SUFFICES ASSUME NEW i \in InWindow, Own(i) PROVE FALSE
      OBVIOUS
    <3>1. i \in 1..Len(lines) /\ From[i] <= Window /\ lines[i].kind \in Messages
      BY <2>1 DEF InWindow
    <3>2. i <= b
      BY <2>1, <2>4, <3>1 DEF Blocks, Own, Messages, Assistant
    <3>3. QED
      BY <2>6, <3>1, <3>2
  <2>8. InWindow # {}
    <3> SUFFICES ASSUME ReachedStart PROVE FALSE
      BY <2>3 DEF Looked
    <3>1. 1 \in 1..Len(lines) /\ 1 <= b
      BY <2>1, <2>4
    <3>2. QED
      BY <2>6, <3>1 DEF ReachedStart
  <2>9. QED
    BY <2>7, <2>8
<1>2. SInv /\ [Next]_vars =>
        [ReadTranscript /\ blocked /\ look'.sight.visibility = "not_observed" =>
           /\ \A i \in InWindow : ~Own(i)
           /\ InWindow # {}]_vars
  BY <1>1
<1>3. QED
  BY <1>2, SightingInvariant, PTL DEF Spec, BlockedIsNotOverlooked

\* A question reported as exact blocks the session at that moment, or the line that
\* closes it is being written, or a kill left it behind and the session, taken up again,
\* has written nothing of its own since.
THEOREM ExactBlocks == Spec => ExactIsBlocked
<1>1. ASSUME SInv, ReadTranscript, look'.sight.kind = "question"
      PROVE  turn = "asking" \/ Closing \/ killed
  <2> SUFFICES ASSUME turn # "asking", ~Closing, ~killed
               PROVE  FALSE
    OBVIOUS
  <2>1. /\ look.sight \in SightType /\ LookSound /\ look.at = "transcript"
        /\ Len(lines) \in Nat /\ InWindow \subseteq 1..Len(lines)
    BY <1>1 DEF SInv, TypeOK, InWindow, ReadTranscript
  <2>2. PICK found \in BOOLEAN : look'.sight = Watched(look.sight, found)
    BY <1>1 DEF ReadTranscript, Then
  <2> DEFINE idle == look.sight.status = "idle"
  <2>3. Detect(InWindow, idle) = "question"
    <3> DEFINE w == Watched(look.sight, found)
               q == Detect(InWindow, idle)
               s == look.sight
    <3>1. \/ w = s /\ (~s.live \/ s.visibility = "observed")
          \/ s.live /\ w.evidence = "" /\ w.visibility = "unavailable" /\ w.kind = s.kind
          \/ /\ s.live /\ w.evidence = "" /\ w.visibility = "not_observed"
             /\ w.kind = s.kind /\ q = "none" /\ Looked
          \/ /\ s.live /\ w.evidence = "transcript" /\ w.visibility = "observed"
             /\ w.status = "waiting_input" /\ w.kind = q
      BY <2>1, WatchedIs
    <3>2. look'.sight = w
      BY <2>2
    <3> HIDE DEF w, q
    <3>3. QED
      BY <1>1, <2>1, <3>1, <3>2 DEF LookSound, q
  <2>4. idle \in BOOLEAN
    OBVIOUS
  <2> HIDE DEF idle
  <2>5. PICK i \in InWindow :
          /\ lines[i].kind = "ask"
          /\ \A j \in InWindow : lines[j].kind \notin {"side", "bare"} => j <= i
          /\ \A j \in InWindow : lines[j] # [kind |-> "answer", id |-> i]
    BY <1>1, <2>3, <2>4, DetectsNewest
  <2>6. i \in 1..Len(lines) /\ From[i] <= Window /\ ~(torn /\ i = Len(lines))
    BY <2>1, <2>5 DEF InWindow
  <2>7. PICK j \in (i + 1)..Len(lines) :
          lines[j].kind = "user" \/ lines[j] = [kind |-> "answer", id |-> i]
    BY <1>1, <2>5, <2>6 DEF SInv, AsksAreClosed, Closed
  <2>8. lines[j].kind \in {"user", "answer"} /\ j \in 1..Len(lines) /\ i <= j /\ ~(j <= i)
    BY <2>1, <2>6, <2>7
  <2>9. lines[j].kind \in Messages /\ ~(torn /\ j = Len(lines))
    BY <2>8 DEF Messages, Closing
  <2>10. j \in InWindow
    BY <1>1, <2>6, <2>8, <2>9, WindowReaches
  <2>11. QED
    BY <2>5, <2>7, <2>8, <2>10
<1>2. SInv /\ [Next]_vars =>
        [ReadTranscript /\ look'.sight.kind = "question" =>
           turn = "asking" \/ Closing \/ killed]_vars
  BY <1>1
<1>3. QED
  BY <1>2, SightingInvariant, PTL DEF Spec, ExactIsBlocked
=============================================================================
