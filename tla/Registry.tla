------------------------------ MODULE Registry -------------------------------
(***************************************************************************)
(* Claude Code's session registry: one record per process, in a file named *)
(* after its pid, carrying the session id the process holds now.  A record *)
(* is rewritten in place when the session is cleared, and can outlive the  *)
(* process that wrote it.                                                  *)
(*                                                                         *)
(* The processes are not birddog's.  They are modelled from what its code  *)
(* provides for: a pid used again, a record of a process that has gone, a  *)
(* process with no record, a socket that does not answer, a ps that fails, *)
(* a record that cannot be read.  One registry directory; links to records *)
(* are left out.                                                           *)
(***************************************************************************)
EXTENDS Naturals, FiniteSets, FiniteSetsExt

CONSTANTS
  Pids,      \* in the order their record files are listed
  Sids,      \* session ids
  MaxStarts, \* bound: processes started
  MaxWrites  \* bound: session ids written to records

ASSUME RegistryAssumption ==
  /\ Pids \subseteq Nat \ {0} /\ IsFiniteSet(Pids)
  /\ IsFiniteSet(Sids)
  /\ {MaxStarts, MaxWrites} \subseteq Nat

VARIABLES
  process,  \* process[p]: the last one given the pid: its start, and if it runs
  record,   \* record[p]: the start and the session id written last, or NoRecord
  held,     \* history: every <<pid, start, session id>> ever registered
  writes    \* session ids written so far

world == <<process, record, held, writes>>

NoRecord == [start |-> 0, sid |-> "none"]

RegistryInit ==
  /\ process = [p \in Pids |-> [start |-> 0, up |-> FALSE]]
  /\ record = [p \in Pids |-> NoRecord]
  /\ held = {} /\ writes = 0

\* The process at the pid is the one that started then.
Runs(p, start) == process[p].up /\ process[p].start = start

\* What asking ps finds: not the same process, whenever ps fails.
SameProcess(p, start, psFails) == ~psFails /\ Runs(p, start)

Recorded == {p \in Pids : record[p] # NoRecord}

\* The running processes whose record is their own.
Registered == {p \in Recorded : Runs(p, record[p].start)}

Holders(s) == {p \in Registered : record[p].sid = s}

-----------------------------------------------------------------------------
(* What Claude Code does. *)

Launch(p) ==
  /\ ~process[p].up
  /\ MapThenSumSet(LAMBDA q : process[q].start, Pids) < MaxStarts
  /\ process' = [process EXCEPT ![p] = [start |-> @.start + 1, up |-> TRUE]]
  /\ UNCHANGED <<record, held, writes>>

Write(p, s) ==
  /\ writes < MaxWrites /\ writes' = writes + 1
  /\ record' = [record EXCEPT ![p] = [start |-> process[p].start, sid |-> s]]
  /\ held' = held \cup {<<p, process[p].start, s>>}
  /\ UNCHANGED process

\* A new session, or an old one resumed; no two processes hold one session.
Register(p, s) ==
  /\ process[p].up /\ p \notin Registered /\ Holders(s) = {}
  /\ Write(p, s)

\* /clear, or another session resumed in place.
Clear(p, s) ==
  /\ p \in Registered /\ Holders(s) = {}
  /\ Write(p, s)

\* A record is withdrawn by its process, or swept away after it.
Withdraw(p) ==
  /\ p \in Recorded
  /\ record' = [record EXCEPT ![p] = NoRecord]
  /\ UNCHANGED <<process, held, writes>>

End(p) ==
  /\ process[p].up
  /\ process' = [process EXCEPT ![p].up = FALSE]
  /\ UNCHANGED <<record, held, writes>>

RegistryNext ==
  \E p \in Pids :
    \/ Launch(p)
    \/ \E s \in Sids : Register(p, s) \/ Clear(p, s)
    \/ Withdraw(p)
    \/ End(p)

-----------------------------------------------------------------------------
(* What a listing returns: a session per record that could be read, `hidden` *)
(* being those that could not.  It is live if its socket answers and ps says *)
(* its process is still the one that wrote the record: of `deaf` one fails.  *)

Listing(hidden, deaf) ==
  [p \in Recorded \ hidden |->
     [sid |-> record[p].sid, start |-> record[p].start,
      live |-> SameProcess(p, record[p].start, p \in deaf)]]

Under(sessions, s) == {p \in DOMAIN sessions : sessions[p].sid = s}

RegistryTypeOK ==
  /\ process \in [Pids -> [start : Nat, up : BOOLEAN]]
  /\ record \in [Pids -> {NoRecord} \cup [start : Nat, sid : Sids]]
  /\ writes \in 0..MaxWrites
  /\ held \subseteq Pids \X Nat \X Sids
=============================================================================
