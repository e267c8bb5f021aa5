------------------------------ MODULE Instance ------------------------------
(***************************************************************************)
(* The life of one monitoring instance: daemons that start, stop, crash    *)
(* and are resumed over the same lock file, control socket and registry    *)
(* record, and the commands `start`, `resume` and `prune`.                 *)
(*                                                                         *)
(* A flock belongs to an open file and dies with its process; a path can   *)
(* be removed while a file opened through it is still locked.  A file is   *)
(* named here by the daemon that created it.  The store itself is opened   *)
(* by whoever holds the lock and is not modelled.                          *)
(***************************************************************************)
EXTENDS Naturals, Sequences, FiniteSets

CONSTANTS
  Daemons,  \* daemon processes, each started once
  None      \* no file, no process

ASSUME InstanceAssumption == None \notin Daemons

VARIABLES
  lockFile,  \* the file the lock path names
  socket,    \* the daemon whose socket file the control path names
  record,    \* the registry record
  daemon,    \* each daemon
  planned,   \* a `prune` command has decided to forget the record
  history    \* history: an unlinked file was locked; a late prune forgot a record

vars == <<lockFile, socket, record, daemon, planned, history>>

NoRecord == [pid |-> None, stopped |-> FALSE]

Fresh == [phase |-> "new", pc |-> 1, opened |-> None, holds |-> None,
          listening |-> FALSE, loaded |-> NoRecord]

Init ==
  /\ lockFile = None
  /\ socket = None
  /\ record = NoRecord
  /\ daemon = [p \in Daemons |-> Fresh]
  /\ planned = FALSE
  /\ history = [overlapped |-> FALSE, forgotten |-> FALSE]

-----------------------------------------------------------------------------
\* What Start does, what Shutdown does, and what Start undoes when it fails.
StartOrderListenFirst == <<"open", "clear", "bind", "lock", "register">>
StartOrderNoClear == <<"open", "lock", "bind", "register">>
StartOrder == <<"open", "lock", "clear", "bind", "register">>

StopOrderUnlockFirst == <<"close", "load", "mark", "unlock", "unlink">>
StopOrder == <<"close", "load", "mark", "unlink", "unlock">>

AbortOrder == <<"close", "unlink", "unlock">>

Order(phase) ==
  CASE phase = "starting" -> StartOrder
    [] phase = "stopping" -> StopOrder
    [] phase = "aborting" -> AbortOrder
    [] OTHER -> <<>>

Alive(p) == daemon[p].phase \notin {"new", "gone", "refused"}

Due(p, step) ==
  daemon[p].pc <= Len(Order(daemon[p].phase)) /\ Order(daemon[p].phase)[daemon[p].pc] = step

\* The step is done; after the last one the daemon runs, or its process ends.
Done(d) ==
  IF d.pc < Len(Order(d.phase)) THEN [d EXCEPT !.pc = @ + 1]
  ELSE IF d.phase = "starting" THEN [d EXCEPT !.phase = "running"]
  ELSE [Fresh EXCEPT !.phase = "gone"]

Become(p, d) == daemon' = [daemon EXCEPT ![p] = d]

-----------------------------------------------------------------------------
(* Steps of Start. *)

OpenLock(p) ==
  /\ Due(p, "open")
  /\ lockFile' = IF lockFile = None THEN p ELSE lockFile
  /\ Become(p, Done([daemon[p] EXCEPT !.opened = lockFile']))
  /\ UNCHANGED <<socket, record, planned, history>>

\* The lock taken on what the path names now instead of on what was opened.
TryLockNamed(p) ==
  /\ Due(p, "lock")
  /\ \A q \in Daemons : daemon[q].holds # lockFile
  /\ Become(p, Done([daemon[p] EXCEPT !.holds = lockFile]))
  /\ UNCHANGED <<lockFile, socket, record, planned, history>>

\* Flock without waiting: refused while anybody holds the file.
TryLock(p) ==
  /\ Due(p, "lock")
  /\ LET file == daemon[p].opened
     IN  \/ /\ \A q \in Daemons : daemon[q].holds # file
            /\ Become(p, Done([daemon[p] EXCEPT !.holds = file]))
            /\ history' = [history EXCEPT !.overlapped = @ \/ lockFile # file]
         \/ /\ \E q \in Daemons : daemon[q].holds = file
            /\ Become(p, [Fresh EXCEPT !.phase = "refused"])
            /\ UNCHANGED history
  /\ UNCHANGED <<lockFile, socket, record, planned>>

ClearSocket(p) ==
  /\ Due(p, "clear")
  /\ socket' = None
  /\ Become(p, Done(daemon[p]))
  /\ UNCHANGED <<lockFile, record, planned, history>>

\* The address is in use while a socket file exists, whoever left it.
Bind(p) ==
  /\ Due(p, "bind")
  /\ \/ /\ socket = None
        /\ socket' = p
        /\ Become(p, Done([daemon[p] EXCEPT !.listening = TRUE]))
     \/ /\ socket # None
        /\ Become(p, [daemon[p] EXCEPT !.phase = "aborting", !.pc = 2])
        /\ UNCHANGED socket
  /\ UNCHANGED <<lockFile, record, planned, history>>

Register(p) ==
  /\ Due(p, "register")
  /\ record' = [pid |-> p, stopped |-> FALSE]
  /\ Become(p, Done(daemon[p]))
  /\ UNCHANGED <<lockFile, socket, planned, history>>

\* The store cannot be opened, or the record cannot be written.
StartFails(p) ==
  /\ \/ Due(p, "clear") /\ Become(p, [daemon[p] EXCEPT !.phase = "aborting", !.pc = 2])
     \/ Due(p, "register") /\ Become(p, [daemon[p] EXCEPT !.phase = "aborting", !.pc = 1])
  /\ UNCHANGED <<lockFile, socket, record, planned, history>>

-----------------------------------------------------------------------------
(* Steps of Shutdown, which `stop` asks for and a vanished owner causes. *)

BeginShutdown(p) ==
  /\ daemon[p].phase = "running"
  /\ Become(p, [daemon[p] EXCEPT !.phase = "stopping", !.pc = 1])
  /\ UNCHANGED <<lockFile, socket, record, planned, history>>

\* Closing removes whatever socket file the path names.
CloseServer(p) ==
  /\ Due(p, "close")
  /\ socket' = None
  /\ Become(p, Done([daemon[p] EXCEPT !.listening = FALSE]))
  /\ UNCHANGED <<lockFile, record, planned, history>>

\* MarkStopped reads the record and writes it back; an absent one stays absent.
LoadRecord(p) ==
  /\ Due(p, "load")
  /\ Become(p, Done([daemon[p] EXCEPT !.loaded = record]))
  /\ UNCHANGED <<lockFile, socket, record, planned, history>>

WriteRecord(p) ==
  /\ Due(p, "mark")
  /\ record' = IF daemon[p].loaded = NoRecord THEN record
               ELSE [daemon[p].loaded EXCEPT !.stopped = TRUE]
  /\ Become(p, Done(daemon[p]))
  /\ UNCHANGED <<lockFile, socket, planned, history>>

\* Release removes whatever lock file the path names, then lets go of its own.
Unlink(p) ==
  /\ Due(p, "unlink")
  /\ lockFile' = None
  /\ Become(p, Done(daemon[p]))
  /\ UNCHANGED <<socket, record, planned, history>>

Unlock(p) ==
  /\ Due(p, "unlock")
  /\ Become(p, Done([daemon[p] EXCEPT !.holds = None]))
  /\ UNCHANGED <<lockFile, socket, record, planned, history>>

\* The kernel drops the lock and the listener; the files stay.
Crash(p) ==
  /\ Alive(p)
  /\ Become(p, [Fresh EXCEPT !.phase = "gone"])
  /\ UNCHANGED <<lockFile, socket, record, planned, history>>

-----------------------------------------------------------------------------
(* Commands. *)

ListedRunning == record # NoRecord /\ ~record.stopped /\ Alive(record.pid)

\* `start` mints the instance; `resume` needs a record that is not listed running.
Launch(p) ==
  /\ daemon[p].phase = "new"
  /\ \/ \A q \in Daemons : daemon[q].phase = "new"
     \/ record # NoRecord /\ ~ListedRunning
  /\ Become(p, [Fresh EXCEPT !.phase = "starting"])
  /\ UNCHANGED <<lockFile, socket, record, planned, history>>

\* `prune` lists the records, then removes those that were not running.
PlanPrune ==
  /\ ~planned
  /\ record # NoRecord /\ ~ListedRunning
  /\ planned' = TRUE
  /\ UNCHANGED <<lockFile, socket, record, daemon, history>>

Deregister ==
  /\ planned
  /\ planned' = FALSE
  /\ record' = NoRecord
  /\ history' = [history EXCEPT !.forgotten = @ \/ ListedRunning]
  /\ UNCHANGED <<lockFile, socket, daemon>>

Next ==
  \/ \E p \in Daemons :
       \/ Launch(p)
       \/ OpenLock(p) \/ TryLock(p) \/ ClearSocket(p) \/ Bind(p) \/ Register(p)
       \/ StartFails(p)
       \/ BeginShutdown(p)
       \/ CloseServer(p) \/ LoadRecord(p) \/ WriteRecord(p) \/ Unlink(p) \/ Unlock(p)
       \/ Crash(p)
  \/ PlanPrune
  \/ Deregister

Spec == Init /\ [][Next]_vars

-----------------------------------------------------------------------------
(* Properties *)

Files == Daemons \cup {None}

\* Every variable has its type, and only an open file is held.
TypeOK ==
  /\ {lockFile, socket} \subseteq Files
  /\ record \in [pid : Files, stopped : BOOLEAN]
  /\ daemon \in [Daemons ->
       [phase : {"new", "starting", "running", "stopping", "aborting", "refused", "gone"},
        pc : 1..5, opened : Files, holds : Files, listening : BOOLEAN,
        loaded : [pid : Files, stopped : BOOLEAN]]]
  /\ \A p \in Daemons : daemon[p].holds \in {None, daemon[p].opened}
  /\ planned \in BOOLEAN
  /\ history \in [overlapped : BOOLEAN, forgotten : BOOLEAN]

\* Past the lock and not yet past the unlink: the daemon may be using the store.
Owns(d) ==
  \/ d.phase = "starting" /\ d.holds # None
  \/ d.phase = "running"
  \/ d.phase \in {"stopping", "aborting"}
       /\ \E i \in d.pc..Len(Order(d.phase)) : Order(d.phase)[i] \in {"unlink", "mark"}

\* platform/lockfile gives an instance "exclusive ownership of its state", and
\* daemon.Start takes it because "two daemons for one instance would write the
\* same database": no daemon uses the store beside another one.
ExclusiveOwner ==
  \A p, q \in Daemons : Owns(daemon[p]) /\ Owns(daemon[q]) => p = q

\* Two daemons never use one store, through any starts, crashes, stops and
\* failed starts, except by the one window the code leaves: a daemon that opened
\* the lock file before a release removed it and locks it afterwards.
OneOwner ==
  ~history.overlapped => ExclusiveOwner

\* A running daemon is reachable on the control path and listed as running under
\* its own pid: no stale file, late shutdown or failed start of another takes
\* that from it, except a lock overlap or a prune that decided before it started.
RunningIsReachable ==
  \A p \in Daemons :
    daemon[p].phase = "running" /\ ~history.overlapped =>
      /\ socket = p
      /\ ~history.forgotten => record = [pid |-> p, stopped |-> FALSE]

\* What a crash leaves behind never makes the instance unstartable: a start is
\* refused, or aborted for the socket, only while another daemon is alive (or
\* once a lock overlap let two of them share the control path).
StaleFilesDoNotRefuse ==
  [][\A p \in Daemons :
       \/ daemon[p].phase # "refused" /\ daemon'[p].phase = "refused"
       \/ Due(p, "bind") /\ daemon'[p].phase = "aborting"
       => history.overlapped \/ \E q \in Daemons \ {p} : Alive(q)]_vars
=============================================================================
