------------------------------ MODULE Sighting -------------------------------
(***************************************************************************)
(* One look at a Claude Code session, made of three readings one after the *)
(* other: the session registry, the markers of the hooks and, where the    *)
(* target asks for it, the end of the transcript.  The session writes all  *)
(* three on its own time, so they may be of different moments.             *)
(*                                                                         *)
(* The session is external: it is idle, at work or blocked on a question   *)
(* with a menu, writes the transcript a line at a time, and its registry   *)
(* record follows.  It may be killed at any moment, also within a line or  *)
(* with the menu open, and be resumed under its id, idle, with the same    *)
(* transcript.  Of the hooks only what reading them may give is here;      *)
(* Hooks says when that is right.  Which record is read, and a session     *)
(* followed to another id, belong to Follows.                              *)
(***************************************************************************)
EXTENDS Naturals, Sequences

CONSTANTS
  Window,   \* how much of the end of a transcript is read, in units of size
  MaxLines  \* bound: lines of the transcript

ASSUME SightingAssumption == {Window, MaxLines} \subseteq Nat

VARIABLES
  lines,   \* the transcript
  torn,    \* its last line is still being written
  turn,    \* the session: "idle", "busy", "asking" or "dead"
  status,  \* the status its registry record shows
  look,    \* the look under way: what is read next, and the sighting so far
  blocked, \* history: the session has been asking since the look began
  killed   \* history: it has been killed since it last wrote a line of its own

vars == <<lines, torn, turn, status, look, blocked, killed>>
session == <<lines, torn, turn, status, killed>>

-----------------------------------------------------------------------------
(* Registry and hooks *)

\* StatusMap: of a status of the harness, what is established of it.
StatusMap(s) ==
  CASE s = "busy" -> "active" [] s = "idle" -> "idle" [] s = "waiting" -> "waiting_input"
    [] OTHER -> "unknown"

\* The registry's part of a sighting, with visibilityFor and evidenceFor.
Registered(s, live) ==
  [live |-> live,
   status |-> StatusMap(s),
   visibility |-> IF ~live THEN "unavailable"
                  ELSE IF s = "waiting" THEN "observed" ELSE "not_observed",
   evidence |-> IF live /\ s = "waiting" THEN "registry" ELSE "",
   kind |-> IF s = "waiting" THEN "provider" ELSE ""]

\* No sighting: the monitor discards one that comes with an error.
Unobserved ==
  [live |-> FALSE, status |-> "unknown", visibility |-> "", evidence |-> "", kind |-> ""]

\* What the hooks may have left: nothing, or a request pending and a tool running.
HookStates == {[present |-> FALSE, pending |-> FALSE, running |-> FALSE]}
                \cup [present : {TRUE}, pending : BOOLEAN, running : BOOLEAN]

\* What the registry sourced a request to kept when the hooks report none.
EnrichedKeepingEvidence(s, hooks) ==
  IF ~s.live \/ ~hooks.present THEN s
  ELSE IF hooks.pending
  THEN [s EXCEPT !.status = "waiting_input", !.visibility = "observed", !.evidence = "hook"]
  ELSE [s EXCEPT !.status = IF hooks.running THEN "running_tool" ELSE s.status,
                 !.visibility = "not_observed"]

\* enrich.  Hooks that were looking are the better witness of a request.
Enriched(s, hooks) ==
  IF ~s.live \/ ~hooks.present THEN s
  ELSE IF hooks.pending
  THEN [s EXCEPT !.status = "waiting_input", !.visibility = "observed", !.evidence = "hook"]
  ELSE [s EXCEPT !.status = IF hooks.running THEN "running_tool" ELSE s.status,
                 !.visibility = "not_observed", !.evidence = ""]

-----------------------------------------------------------------------------
(* The transcript.  "ask" and "answer" carry the id of a question; "side" is a  *)
(* message of a subagent, "bare" one without readable parts, "attachment" no    *)
(* message at all, and twice the size of the others, and "broken" what a kill   *)
(* left of a line.                                                              *)

Assistant == {"statement", "question"}
Messages == Assistant \cup {"user", "ask", "answer", "side", "bare"}
Kinds == Messages \cup {"attachment", "broken"}

Size(line) == IF line.kind = "attachment" THEN 2 ELSE 1

\* From[i]: what line i and those after it take.
From ==
  LET size[n \in 0..Len(lines)] ==
        IF n = 0 THEN 0 ELSE size[n - 1] + Size(lines[Len(lines) + 1 - n])
  IN  [i \in 1..(Len(lines) + 1) |-> size[Len(lines) + 1 - i]]

ReachedStart == From[1] <= Window

\* Tail: the messages that lie in the window whole and can be parsed.
InWindow ==
  {i \in DOMAIN lines : /\ From[i] <= Window
                        /\ lines[i].kind \in Messages
                        /\ ~(torn /\ i = Len(lines))}

\* Any question the window shows unanswered, however long ago the turn went on.
DetectAnyAsk(read, idle) ==
  LET open == {i \in read : /\ lines[i].kind = "ask"
                            /\ \A j \in read : lines[j] # [kind |-> "answer", id |-> lines[i].id]}
  IN  IF open # {} THEN "question" ELSE "none"

\* Detect: what the newest message of the session's own says.
Detect(read, idle) ==
  LET own == {i \in read : lines[i].kind \notin {"side", "bare"}}
      newest == CHOOSE i \in own : \A j \in own : j <= i
      answered == \E j \in read : lines[j] = [kind |-> "answer", id |-> lines[newest].id]
  IN  CASE own = {} -> "none"
        [] own # {} /\ lines[newest].kind = "ask" /\ ~answered -> "question"
        [] own # {} /\ lines[newest].kind = "question" /\ idle -> "question_inferred"
        [] OTHER -> "none"

\* A window in which there was nothing to read taken for a look at it.
LookedAlways == TRUE

\* The window reached a message, or all there is.
Looked == InWindow # {} \/ ReachedStart

\* Watcher.Observe after the inner observer.  A request already reported came from
\* a stronger source; a transcript that cannot be found or read says nothing.
Watched(s, found) ==
  LET q == Detect(InWindow, s.status = "idle")
  IN  IF ~s.live \/ s.visibility = "observed" THEN s
      ELSE IF ~found \/ ~Looked THEN [s EXCEPT !.evidence = "", !.visibility = "unavailable"]
      ELSE IF q = "none" THEN [s EXCEPT !.evidence = "", !.visibility = "not_observed"]
      ELSE [s EXCEPT !.status = "waiting_input", !.visibility = "observed",
                     !.evidence = "transcript", !.kind = q]

-----------------------------------------------------------------------------
(* The session *)

\* A message that settles a question, or asks one.
Own(i) == lines[i].kind \in Messages \ {"side", "bare"}

Write(kind, id) ==
  /\ ~torn /\ Len(lines) < MaxLines
  /\ lines' = Append(lines, [kind |-> kind, id |-> id])
  /\ torn' = TRUE

\* The rest of the line; the menu opens when the question has been written.
Land ==
  /\ torn /\ torn' = FALSE
  /\ turn' = IF lines[Len(lines)].kind = "ask" THEN "asking" ELSE turn
  /\ killed' = (killed /\ ~Own(Len(lines)))
  /\ UNCHANGED <<lines, status, look, blocked>>

Prompt == turn = "idle" /\ Write("user", 0) /\ turn' = "busy"

\* Prose, tool calls, their results, and messages birddog reads nothing in.
Work == turn = "busy" /\ turn' = turn /\ \E k \in Assistant \cup {"user", "bare"} : Write(k, 0)

Ask == turn = "busy" /\ Write("ask", Len(lines) + 1) /\ turn' = turn

Asked == lines[CHOOSE i \in DOMAIN lines :
                 /\ lines[i].kind = "ask"
                 /\ \A j \in DOMAIN lines : lines[j].kind = "ask" => j <= i].id

Answer == turn = "asking" /\ Write("answer", Asked) /\ turn' = "busy"

\* The menu is dismissed, which ends the turn.
Dismiss == turn = "asking" /\ Write("user", 0) /\ turn' = "idle"

\* Subagents and attachments, while anything goes on.
Beside == turn \in {"busy", "asking"} /\ turn' = turn /\ \E k \in {"side", "attachment"} : Write(k, 0)

EndTurn == turn = "busy" /\ ~torn /\ turn' = "idle" /\ UNCHANGED <<lines, torn>>

Session ==
  /\ Prompt \/ Work \/ Ask \/ Answer \/ Dismiss \/ Beside \/ EndTurn
  /\ blocked' = (blocked /\ turn' = "asking")
  /\ UNCHANGED <<status, look, killed>>

\* The process dies, and what it was writing is never finished.
Kill ==
  /\ turn # "dead" /\ turn' = "dead"
  /\ lines' = IF torn THEN [lines EXCEPT ![Len(lines)].kind = "broken"] ELSE lines
  /\ torn' = FALSE /\ blocked' = FALSE /\ killed' = TRUE
  /\ UNCHANGED <<status, look>>

\* Another process takes the conversation up, with a record of its own.
Resume ==
  /\ turn = "dead" /\ turn' = "idle" /\ status' = "idle"
  /\ UNCHANGED <<lines, torn, look, blocked, killed>>

\* The registry record follows the session, in words not all of which are known.
Publish ==
  /\ status' \in CASE turn = "idle" -> {"idle"}
                   [] turn = "busy" -> {"busy", "compacting"}
                   [] turn = "asking" -> {"busy", "waiting"}
                   [] turn = "dead" -> {}
  /\ status' # status
  /\ UNCHANGED <<lines, torn, turn, look, blocked, killed>>

-----------------------------------------------------------------------------
(* The look *)

Then(at, s) == look' = [at |-> at, sight |-> s] /\ UNCHANGED session

ReadRegistry ==
  /\ look.at = "done"
  /\ \E live \in BOOLEAN : /\ live => turn # "dead"
                           /\ Then("hooks", Registered(status, live))
  /\ blocked' = (turn = "asking")

\* An error of the hooks takes the registry's answer with it.
ReadHooks ==
  /\ look.at = "hooks"
  /\ \/ \E hooks \in HookStates : Then("transcript", Enriched(look.sight, hooks))
     \/ look.sight.live /\ Then("done", Unobserved)
  /\ UNCHANGED blocked

\* The transcript of a target that asks for it; without, the look is over before.
ReadTranscript ==
  /\ look.at = "transcript"
  /\ \E found \in BOOLEAN : Then("done", Watched(look.sight, found))
  /\ UNCHANGED blocked

Init ==
  /\ lines = <<>> /\ torn = FALSE
  /\ turn = "idle" /\ status = "idle"
  /\ look = [at |-> "done", sight |-> Unobserved]
  /\ blocked = FALSE /\ killed = FALSE

Next == Session \/ Land \/ Kill \/ Resume \/ Publish \/ ReadRegistry \/ ReadHooks \/ ReadTranscript

Spec == Init /\ [][Next]_vars

-----------------------------------------------------------------------------
(* Properties *)

SightType ==
  [live : BOOLEAN, status : {"active", "idle", "waiting_input", "running_tool", "unknown"},
   visibility : {"", "observed", "not_observed", "unavailable"},
   evidence : {"", "registry", "hook", "transcript"},
   kind : {"", "provider", "question", "question_inferred"}]

\* Every variable has its type.
TypeOK ==
  /\ lines \in Seq([kind : Kinds, id : 0..MaxLines]) /\ Len(lines) <= MaxLines
  /\ torn \in BOOLEAN /\ (torn => lines # <<>>)
  /\ turn \in {"idle", "busy", "asking", "dead"}
  /\ status \in {"idle", "busy", "waiting", "compacting"}
  /\ look \in [at : {"hooks", "transcript", "done"}, sight : SightType]
  /\ blocked \in BOOLEAN /\ killed \in BOOLEAN

\* A sighting names the evidence of an input request exactly when it reports one,
\* whichever of the three sources spoke last, and one it reports is of a session
\* that waits (policy.go Evidence, claude_test.go:502).
EvidenceIsOfARequest ==
  look.at # "hooks" =>
    /\ look.sight.evidence # "" <=> look.sight.visibility = "observed"
    /\ look.sight.evidence # "" => look.sight.live /\ look.sight.status = "waiting_input"

\* The two above.
SightingInv == TypeOK /\ EvidenceIsOfARequest

\* A question the session was blocked on all through the look is never answered
\* with "looked and saw none", however far the transcript ran on behind it and the
\* registry lagged; unless what is in reach is all of subagents (watch.go:93-96).
BlockedIsNotOverlooked ==
  [][ReadTranscript /\ blocked /\ look'.sight.visibility = "not_observed" =>
       /\ \A i \in InWindow : ~Own(i)
       /\ InWindow # {}]_vars

\* A line that closes a question is being written.
Closing == torn /\ lines[Len(lines)].kind \in {"answer", "user"}

\* A question reported as exact is one the session is blocked on: not one answered,
\* dismissed or passed over by a turn that went on, however the readings fall; save
\* while the line that closes it is being written, and save one a kill left behind, up
\* to the first line the session, taken up again, has of its own (detect.go Detect,
\* tail.go Tail).
ExactIsBlocked ==
  [][ReadTranscript /\ look'.sight.kind = "question" =>
       turn = "asking" \/ Closing \/ killed]_vars
=============================================================================
