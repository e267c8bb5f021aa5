-------------------------------- MODULE Hooks --------------------------------
(***************************************************************************)
(* What Claude Code's lifecycle hooks leave behind for one session: a      *)
(* directory of marker files, touched and removed by one short handler     *)
(* process per event with no lock between them, and read by the observer   *)
(* by listing the directory.                                               *)
(*                                                                         *)
(* A handler is the list of file operations it has still to do, and every  *)
(* operation is a step.  Claude Code itself is external: it waits for the  *)
(* handler of a call before the next event of that call, asks for a        *)
(* permission before it uses the tool, and runs the calls and the agents   *)
(* of one session side by side.  Time is left out, and with it the age     *)
(* after which a marker is no longer believed and the markers of the last  *)
(* activity and the last turn, which nothing here depends on.              *)
(***************************************************************************)
EXTENDS Naturals, FiniteSets, Sequences, SequencesExt

CONSTANTS
  Calls,      \* tool calls, which are also the ids their events carry
  Nameless,   \* those whose permission request carries no id
  Agents,     \* the main agent and its subagents
  AgentOf,    \* AgentOf[c]: the agent that makes the call
  ToolOf,     \* ToolOf[c]: the name of the tool called
  Session,    \* the handler that ends the session
  MaxMishaps  \* bound: handlers that die half way and ends of the session

Handlers == Calls \cup Agents \cup {Session}
Tools == {ToolOf[c] : c \in Calls}

ASSUME HooksAssumption ==
  /\ Nameless \subseteq Calls
  /\ AgentOf \in [Calls -> Agents]
  /\ Calls \cap Agents = {} /\ Session \notin Calls \cup Agents
  /\ Tools \cap Calls = {}
  /\ MaxMishaps \in Nat

VARIABLES
  exists,  \* the session's directory is there
  files,   \* the markers in it
  todo,    \* todo[h]: what the handler has still to do
  phase,   \* phase[c]: "new", "asked", "running", "denied", "over" or "gone"
  up,      \* the session runs
  leaves,  \* ends of the session so far
  died,    \* history: handlers that died half way
  mixed,   \* history: calls with an event while some agent's turn was ending
  closed   \* history: calls that were finished when their agent's turn ended

vars == <<exists, files, todo, phase, up, leaves, died, mixed, closed>>
claude == <<phase, up, leaves, mixed, closed>>

-----------------------------------------------------------------------------
(* Markers *)

Tool(id) == <<"tool", id>>
Perm(key) == <<"perm", key>>
Markers == {Tool(c) : c \in Calls} \cup {Perm(k) : k \in Calls \cup Tools}

\* toolID: an event without an id is kept under the name of the tool.
RequestKey(c) == IF c \in Nameless THEN ToolOf[c] ELSE c

-----------------------------------------------------------------------------
(* The handlers: Store.Apply. *)

Mkdir == [op |-> "mkdir", on |-> Session]
Touch(m) == [op |-> "touch", on |-> m]
Delete(m) == [op |-> "delete", on |-> m]
Clear(prefix) == [op |-> "clear", on |-> prefix]
ClearAll == [op |-> "clear all", on |-> Session]
Rmdir == [op |-> "rmdir", on |-> Session]

\* Every request removed with the one answered.
ClearPermissionAll(c) == <<Clear("perm")>>

\* A request may have been recorded under the name of the tool.
ClearPermission(c) == <<Delete(Perm(c)), Delete(Perm(ToolOf[c]))>>

PreToolUse(c) == <<Mkdir>> \o ClearPermission(c) \o <<Touch(Tool(c))>>

PostToolUse(c) ==
  <<Mkdir, Delete(Tool(c))>> \o ClearPermission(c)

PermissionRequest(c) == <<Mkdir, Touch(Perm(RequestKey(c)))>>

PermissionDenied(key) == <<Mkdir, Delete(Perm(key))>>

\* The turn's end taken to end its tools and not its requests.
StopToolsOnly == <<Mkdir, Clear("tool")>>

\* Stop and SubagentStop: nothing is mid-tool and nothing waits on a human.
Stop == <<Mkdir, Clear("tool"), Clear("perm")>>

SessionEnd == <<Mkdir, ClearAll, Rmdir>>

\* The names a clearing handler has listed, to be removed one at a time.
Listed(step) ==
  SetToSeq({Delete(m) : m \in {x \in files : step.op = "clear all" \/ x[1] = step.on}})

\* One operation of a handler.  A directory that is not empty stays.  Where there
\* is none a marker cannot be written, and the handler ends with an unseen error.
Step(h) ==
  /\ todo[h] # <<>>
  /\ LET step == Head(todo[h])
         rest == Tail(todo[h])
     IN  /\ exists' = CASE step.op = "mkdir" -> TRUE
                        [] step.op = "rmdir" -> exists /\ files # {}
                        [] OTHER -> exists
         /\ files' = CASE step.op = "touch" /\ exists -> files \cup {step.on}
                       [] step.op = "delete" -> files \ {step.on}
                       [] OTHER -> files
         /\ todo' = [todo EXCEPT ![h] =
                       CASE step.op \in {"clear", "clear all"} -> Listed(step) \o rest
                         [] step.op = "touch" /\ ~exists -> <<>>
                         [] OTHER -> rest]
  /\ UNCHANGED <<claude, died>>

\* The handler is killed, or a write of it fails.
Die(h) ==
  /\ todo[h] # <<>>
  /\ leaves + Cardinality(died) < MaxMishaps
  /\ died' = died \cup {h}
  /\ todo' = [todo EXCEPT ![h] = <<>>]
  /\ UNCHANGED <<claude, exists, files>>

-----------------------------------------------------------------------------
(* Claude Code *)

Idle(h) == todo[h] = <<>>

Enter(c, p) == phase' = [phase EXCEPT ![c] = p]

\* An event of the call, and the handler run for it.
Event(c, p, handler) ==
  /\ up /\ Idle(c)
  /\ Enter(c, p)
  /\ todo' = [todo EXCEPT ![c] = handler]
  /\ mixed' = IF \E a \in Agents : ~Idle(a) THEN mixed \cup {c} ELSE mixed
  /\ UNCHANGED <<exists, files, up, leaves, died, closed>>

Ask(c) == phase[c] = "new" /\ Event(c, "asked", PermissionRequest(c))

Use(c) == phase[c] \in {"new", "asked"} /\ Event(c, "running", PreToolUse(c))

Finish(c) == phase[c] = "running" /\ Event(c, "over", PostToolUse(c))

\* The denial of a call whose request carried no id may carry one.
Deny(c) ==
  /\ phase[c] = "asked"
  /\ \E key \in {c, RequestKey(c)} : Event(c, "denied", PermissionDenied(key))

\* The tool fails, or the human interrupts: no hook birddog installs tells.
Abandon(c) ==
  /\ up /\ Idle(c)
  /\ phase[c] \in {"asked", "running"}
  /\ Enter(c, "gone")
  /\ UNCHANGED <<exists, files, todo, up, leaves, died, mixed, closed>>

Done == {c \in Calls : phase[c] \in {"denied", "over", "gone"}}
Underway == {c \in Calls : phase[c] \in {"asked", "running"}}
Mine(a) == {c \in Calls : AgentOf[c] = a}

EndTurn(a) ==
  /\ up /\ Idle(a)
  /\ Mine(a) \cap Underway = {} /\ \A c \in Mine(a) : Idle(c)
  /\ Mine(a) \cap Done # {}
  /\ todo' = [todo EXCEPT ![a] = Stop]
  /\ mixed' = mixed \cup (Underway \ Mine(a))
  /\ closed' = closed \cup (Mine(a) \cap Done)
  /\ UNCHANGED <<exists, files, phase, up, leaves, died>>

\* The session ends, which its hook tells, or is killed, which nothing does.
Leave ==
  /\ up /\ up' = FALSE
  /\ leaves + Cardinality(died) < MaxMishaps /\ leaves' = leaves + 1
  /\ phase' = [c \in Calls |-> IF c \in Underway THEN "gone" ELSE phase[c]]
  /\ UNCHANGED <<exists, files, died, mixed, closed>>

Quit == Leave /\ Idle(Session) /\ todo' = [todo EXCEPT ![Session] = SessionEnd]

Kill == Leave /\ UNCHANGED todo

\* The conversation is resumed under the same id.
Resume ==
  /\ ~up /\ Idle(Session)
  /\ up' = TRUE
  /\ UNCHANGED <<exists, files, todo, phase, leaves, died, mixed, closed>>

Init ==
  /\ exists = FALSE
  /\ files = {}
  /\ todo = [h \in Handlers |-> <<>>]
  /\ phase = [c \in Calls |-> "new"]
  /\ up = TRUE /\ leaves = 0
  /\ died = {} /\ mixed = {} /\ closed = {}

Next ==
  \/ \E h \in Handlers : Step(h) \/ Die(h)
  \/ \E c \in Calls : Ask(c) \/ Use(c) \/ Finish(c) \/ Deny(c) \/ Abandon(c)
  \/ \E a \in Agents : EndTurn(a)
  \/ Quit \/ Kill \/ Resume

Spec == Init /\ [][Next]_vars

-----------------------------------------------------------------------------
(* Store.Read *)

PendingPermissions == {k \in Calls \cup Tools : Perm(k) \in files}
RunningTools == {c \in Calls : Tool(c) \in files}

-----------------------------------------------------------------------------
(* Properties *)

Steps == [op : {"mkdir", "rmdir", "clear all"}, on : {Session}]
           \cup [op : {"touch", "delete"}, on : Markers]
           \cup [op : {"clear"}, on : {"tool", "perm"}]

\* Every variable has its type, and there are no markers without a directory.
TypeOK ==
  /\ exists \in BOOLEAN /\ files \subseteq Markers
  /\ ~exists => files = {}
  /\ todo \in [Handlers -> Seq(Steps)]
  /\ phase \in [Calls -> {"new", "asked", "running", "denied", "over", "gone"}]
  /\ up \in BOOLEAN /\ leaves \in 0..MaxMishaps
  /\ died \subseteq Handlers
  /\ mixed \subseteq Calls /\ closed \subseteq Calls

\* What the handlers of the call were to do has been done.
Settled(c) == Idle(c) /\ c \notin died

\* Calls of the same tool, whose events may remove what c left under its name.
Namesakes(c) == {d \in Calls \ {c} : ToolOf[d] = ToolOf[c] /\ phase[d] # "new"}

\* A human who is waited for is reported, whatever the other handlers of the
\* session do at the same time (hooks.go:8-12), if no turn ended under
\* the request and no other call shares its name.
RequestIsReported ==
  \A c \in Calls : phase[c] = "asked" /\ Settled(c) /\ c \notin mixed
                    /\ (c \in Nameless => Namesakes(c) = {})
                    => RequestKey(c) \in PendingPermissions

\* The same of a tool that runs beside others.
RunningIsReported ==
  \A c \in Calls : phase[c] = "running" /\ Settled(c) /\ c \notin mixed
                    => c \in RunningTools

\* A human who has answered is not waited for, and a tool that has finished does
\* not run, under whichever name it was recorded (hooks.go clearPermission).
\* Not so a denial of a request recorded by name, which may name the id instead.
AnsweredIsNotReported ==
  \A c \in Calls : /\ phase[c] \in {"running", "over", "denied"} /\ Settled(c)
                    /\ (phase[c] = "denied" => c \notin Nameless)
                    => /\ c \notin PendingPermissions
                       /\ Namesakes(c) = {} => ToolOf[c] \notin PendingPermissions
                       /\ phase[c] # "running" => c \notin RunningTools

\* The end of a turn clears what its calls left, those that failed, were denied
\* under another name or lost their handler too (hooks.go:140-148).
TurnLeavesNothing ==
  \A c \in closed : Settled(AgentOf[c]) =>
     /\ {Tool(c), Perm(c)} \cap files = {}
     /\ Namesakes(c) = {} => Perm(ToolOf[c]) \notin files

\* What Claude Code is doing is reported.
WorkIsReported == RequestIsReported /\ RunningIsReported

\* What it no longer does is not.
NothingStaleIsReported == TypeOK /\ AnsweredIsNotReported /\ TurnLeavesNothing
=============================================================================
