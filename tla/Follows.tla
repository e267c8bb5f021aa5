------------------------------- MODULE Follows -------------------------------
(***************************************************************************)
(* Following a session.  One watched target, the daemon's loop that looks  *)
(* for its session in the registry and moves it when the session's process *)
(* answers under another id, the follows the store keeps, and the requests *)
(* and restarts that point the target somewhere else.  Follows are kept by *)
(* target, so one target stands for any number.                            *)
(*                                                                         *)
(* A pass holds cfgMu from its first look to its last write, so requests   *)
(* fall between passes; the registry changes at any moment, between the    *)
(* two looks of one pass too, and the daemon may die between any two steps.*)
(* What a sighting means to the policy belongs to Monitor.                 *)
(***************************************************************************)
EXTENDS Registry, Sequences

CONSTANTS
  None,
  MaxEdits,    \* bound: changes of the configuration file
  MaxFaults,   \* bound: writes that fail, and follows lost to an error of the hooks
  MaxRestarts  \* bound: restarts of the daemon

ASSUME FollowsAssumption ==
  /\ {MaxEdits, MaxFaults, MaxRestarts} \subseteq Nat
  /\ None \notin Sids

VARIABLES
  file,    \* the attachment the configuration file gives the target
  att,     \* in memory: the one in force, or None when it is not watched
  seen,    \* in memory: the process last seen answering, and for which id
  links,   \* in memory: links[s] is where s was followed to
  loaded,  \* in memory: whether the recorded follows have been read
  rows,    \* store: the recorded follows, oldest first
  feed,    \* store: the id last observed, and those configured or told of
  pass,    \* what the loop is doing
  spent,   \* edits, faults and restarts so far
  home     \* history: the process the target is known to live in

vars == <<world, file, att, seen, links, loaded, rows, feed, pass, spent, home>>
memory == <<att, seen, links, loaded, pass, home>>

-----------------------------------------------------------------------------
(* Attachments and sightings.  A pid of 0 is none. *)

NoProcess == [pid |-> 0, start |-> 0]
IdOnly(s) == [sid |-> s, pid |-> 0, start |-> 0]
ProcessOf(x) == [pid |-> x.pid, start |-> x.start]

\* What an operator may write: an id, or an id with the process that held it.
Attachments ==
  {IdOnly(s) : s \in Sids} \cup {[sid |-> h[3], pid |-> h[1], start |-> h[2]] : h \in held}

NoSight == [kind |-> "nothing", sid |-> None, pid |-> 0, start |-> 0, from |-> None]

Sighted(sessions, p, from) ==
  [kind |-> IF sessions[p].live THEN "live" ELSE "stale",
   sid |-> sessions[p].sid, pid |-> p, start |-> sessions[p].start, from |-> from]

\* The process a target is seen in never learned, only configured.
IdentityConfigured(a) == ProcessOf(a)

\* The process a successor is looked for in.
Identity(a) ==
  IF a.pid # 0 THEN ProcessOf(a)
  ELSE IF seen.sid = a.sid THEN ProcessOf(seen) ELSE NoProcess

\* A pid alone taken for the process.
SuccessorsByPid(a, sessions) ==
  {p \in DOMAIN sessions : p = Identity(a).pid /\ sessions[p].sid # a.sid /\ sessions[p].live}

Successors(a, sessions) ==
  {p \in DOMAIN sessions : /\ [pid |-> p, start |-> sessions[p].start] = Identity(a)
                           /\ sessions[p].sid # a.sid
                           /\ sessions[p].live}

\* A missing record taken for the end of the session.
AbsentUnverified(a, psFails) ==
  IF a.pid = 0 THEN NoSight
  ELSE [kind |-> "exited", sid |-> a.sid, pid |-> 0, start |-> a.start, from |-> None]

\* A ps that fails is taken for a process that has gone.
Absent(a, psFails) ==
  IF a.pid = 0 \/ SameProcess(a.pid, a.start, psFails) THEN NoSight
  ELSE [kind |-> "exited", sid |-> a.sid, pid |-> 0, start |-> a.start, from |-> None]

\* Observe.  The first record of the id decides, whatever it says.
Observe(a, sessions, partial, psFails) ==
  IF Under(sessions, a.sid) # {} THEN Sighted(sessions, Min(Under(sessions, a.sid)), None)
  ELSE IF Successors(a, sessions) # {}
  THEN Sighted(sessions, CHOOSE p \in Successors(a, sessions) : TRUE, a.sid)
  ELSE IF partial THEN NoSight
  ELSE Absent(a, psFails)

\* Every live sighting is remembered as it is made, a successor's too.
Remember(sight) ==
  IF sight.kind = "live" THEN [sid |-> sight.sid, pid |-> sight.pid, start |-> sight.start]
  ELSE seen

\* What the monitor is given: an error of the hooks, read for a live session only,
\* discards the sighting, and with it the follow that a successor asks for.
Given(raw, hookErr) == IF hookErr /\ raw.kind = "live" THEN NoSight ELSE raw

\* A successor discarded while memory alone named its process: it is remembered
\* for its new id now, and no longer for the one in force.
Drops(a, raw, hookErr) == hookErr /\ raw.from # None /\ a.pid = 0

-----------------------------------------------------------------------------
(* Recorded follows *)

NoLinks == [s \in Sids |-> None]

\* rememberFollow.  The id followed to is current: a link out of it is stale.
Linked(ls, f) ==
  [ls EXCEPT ![f.from] = [to |-> f.to, pid |-> f.pid, start |-> f.start], ![f.to] = None]

Replayed(fs) ==
  LET replay[n \in 0..Len(fs)] == IF n = 0 THEN NoLinks ELSE Linked(replay[n - 1], fs[n])
  IN  replay[Len(fs)]

\* The rows RecordFollow leaves: one for each id left, none for the one reached.
Recording(f) ==
  LET kept[n \in 0..Len(rows)] ==
        IF n = 0 THEN <<>>
        ELSE IF rows[n].from \in {f.from, f.to} THEN kept[n - 1]
        ELSE Append(kept[n - 1], rows[n])
  IN  Append(kept[Len(rows)], f)

\* A link is taken unless it leads back, or the target names another process.
MayTake(ls, a, visited) ==
  /\ ls[a.sid] # None
  /\ ls[a.sid].to \notin visited \cup {a.sid}
  /\ a.pid # 0 => ProcessOf(a) = ProcessOf(ls[a.sid])

\* ResolveFollows: through as many follows as were recorded.
Resolved(ls, a) ==
  LET walk[n \in 0..Cardinality(Sids)] ==
        IF n = 0 THEN [at |-> a, visited |-> {}]
        ELSE LET w == walk[n - 1]
                 link == ls[w.at.sid]
             IN  IF ~MayTake(ls, w.at, w.visited) THEN w
                 ELSE [at |-> [sid |-> link.to, pid |-> link.pid, start |-> link.start],
                       visited |-> w.visited \cup {w.at.sid}]
  IN  walk[Cardinality(Sids)].at

-----------------------------------------------------------------------------
Idle == [at |-> "idle", sight |-> NoSight, there |-> FALSE, guessed |-> FALSE]
Unseen == [sid |-> None, pid |-> 0, start |-> 0]

Init ==
  /\ RegistryInit
  /\ file \in {IdOnly(s) : s \in Sids}
  /\ att = file /\ seen = Unseen /\ links = NoLinks /\ loaded = FALSE
  /\ rows = <<>>
  /\ feed = [sid |-> None, told |-> {file.sid}]
  /\ pass = Idle
  /\ spent = [edits |-> 0, faults |-> 0, restarts |-> 0]
  /\ home = NoProcess

\* A pass that has looked records the follow first, if there is one.  For the
\* properties it keeps whether its exit rests on a ps that failed.
Decide(sight, there, psFails) ==
  pass' = [at |-> IF sight.from = None THEN "observe" ELSE "record",
           sight |-> IF sight.from = None THEN [sight EXCEPT !.pid = 0, !.start = 0] ELSE sight,
           there |-> there, guessed |-> psFails /\ sight.kind = "exited"]

\* Such a look counts with the faults.
Drop(raw, hookErr) ==
  IF Drops(att, raw, hookErr)
  THEN spent.faults < MaxFaults /\ spent' = [spent EXCEPT !.faults = @ + 1]
  ELSE UNCHANGED spent

\* For the properties: the listing shows the session live.
There(s, hidden, deaf) == Holders(s) \ (hidden \cup deaf) # {}

\* Where the target lives, for the properties: learned from a session seen live
\* under the id in force, until the target is given anew.
Settle(a, sight) == home' = IF sight.kind = "live" /\ sight.sid = a.sid
                            THEN ProcessOf(sight) ELSE home

\* The follow applied before the configured session is looked for.
LookAgainFirst(hidden, deaf, hookErr, psFails) ==
  /\ pass.at = "idle" /\ att # None
  /\ LET ls == IF loaded THEN links ELSE Replayed(rows)
         a == Resolved(ls, att)
         raw == Observe(a, Listing(hidden, deaf), hidden # {}, psFails)
     IN  /\ links' = ls /\ loaded' = TRUE
         /\ seen' = Remember(raw)
         /\ Settle(att, raw)
         /\ Drop(raw, hookErr)
         /\ att' = a
         /\ Decide(Given(raw, hookErr), ~hookErr /\ There(att.sid, hidden, deaf), psFails)
  /\ UNCHANGED <<world, file, rows, feed>>

\* sightResolved: the session in force is asked for, and a recorded follow is
\* taken unless it is there live, with what its hooks recorded if that is read.
Look(hidden, deaf, hookErr, psFails) ==
  /\ pass.at = "idle" /\ att # None
  /\ LET ls == IF loaded THEN links ELSE Replayed(rows)
         raw == Observe(att, Listing(hidden, deaf), hidden # {}, psFails)
         sight == Given(raw, hookErr)
         there == ~hookErr /\ There(att.sid, hidden, deaf)
         stays == Resolved(ls, att) = att \/ (sight.kind = "live" /\ sight.from = None)
     IN  /\ links' = ls /\ loaded' = TRUE
         /\ seen' = Remember(raw)
         /\ Settle(att, raw)
         /\ Drop(raw, hookErr)
         /\ att' = IF stays THEN att ELSE Resolved(ls, att)
         /\ IF stays THEN Decide(sight, there, psFails)
            ELSE pass' = [Idle EXCEPT !.at = "again", !.there = there]
  /\ UNCHANGED <<world, file, rows, feed>>

\* The attachment is a recorded follow's, which names its process.
LookAgain(hidden, deaf, hookErr, psFails) ==
  /\ pass.at = "again"
  /\ LET raw == Observe(att, Listing(hidden, deaf), hidden # {}, psFails)
     IN  /\ seen' = Remember(raw)
         /\ Settle(att, raw)
         /\ Drop(raw, hookErr)
         /\ Decide(Given(raw, hookErr), ~hookErr /\ There(att.sid, hidden, deaf), psFails)
  /\ UNCHANGED <<world, file, att, links, loaded, rows, feed>>

\* follow: the event and the follow in one transaction, then the target moves.
Follow ==
  /\ pass.at = "record"
  /\ LET f == [from |-> pass.sight.from, to |-> pass.sight.sid,
               pid |-> pass.sight.pid, start |-> pass.sight.start]
     IN  /\ rows' = Recording(f)
         /\ links' = Linked(links, f)
         /\ att' = [sid |-> f.to, pid |-> f.pid, start |-> f.start]
  /\ feed' = [feed EXCEPT !.told = @ \cup {pass.sight.sid}]
  /\ pass' = [pass EXCEPT !.at = "observe", !.there = FALSE, !.sight.pid = 0, !.sight.start = 0, !.sight.from = None]
  /\ home' = ProcessOf(pass.sight)
  /\ UNCHANGED <<world, file, seen, loaded, spent>>

\* The follow remembered before the store has it.
FollowFailsRemembered ==
  /\ pass.at = "record"
  /\ spent.faults < MaxFaults
  /\ spent' = [spent EXCEPT !.faults = @ + 1]
  /\ links' = Linked(links, [from |-> pass.sight.from, to |-> pass.sight.sid,
                             pid |-> pass.sight.pid, start |-> pass.sight.start])
  /\ pass' = Idle
  /\ UNCHANGED <<world, file, att, seen, loaded, rows, feed, home>>

\* The store fails: nothing is written and the pass is over.
FollowFails ==
  /\ pass.at = "record"
  /\ spent.faults < MaxFaults
  /\ spent' = [spent EXCEPT !.faults = @ + 1]
  /\ pass' = Idle
  /\ UNCHANGED <<world, file, att, seen, links, loaded, rows, feed, home>>

\* The observation, with the identity of the session if there is one.
Record ==
  /\ pass.at = "observe"
  /\ feed' = IF pass.sight.kind = "nothing" THEN feed ELSE [feed EXCEPT !.sid = pass.sight.sid]
  /\ pass' = Idle
  /\ UNCHANGED <<world, file, att, seen, links, loaded, rows, spent, home>>

-----------------------------------------------------------------------------
(* Requests, between passes, and restarts. *)

EditFile(a) ==
  /\ spent.edits < MaxEdits
  /\ spent' = [spent EXCEPT !.edits = @ + 1]
  /\ file' = a
  /\ UNCHANGED <<world, memory, rows, feed>>

\* The target is given anew: what was learned of it before is forgotten.
Retarget(a) ==
  /\ pass.at = "idle"
  /\ att' = a
  /\ seen' = Unseen
  /\ home' = NoProcess
  /\ feed' = [feed EXCEPT !.told = IF a = None THEN @ ELSE @ \cup {a.sid}]
  /\ UNCHANGED <<world, file, links, loaded, rows, pass, spent>>

\* A file naming an id the target was followed away from changes nothing.
Sync == (att = None \/ att \notin {file, Resolved(links, file)}) /\ Retarget(file)

Unwatch == att # None /\ Retarget(None)

\* The daemon dies and is started again over the same store and file.
Restart ==
  /\ spent.restarts < MaxRestarts
  /\ spent' = [spent EXCEPT !.restarts = @ + 1]
  /\ att' = file /\ seen' = Unseen /\ links' = NoLinks /\ loaded' = FALSE
  /\ pass' = Idle
  /\ home' = NoProcess
  /\ feed' = [feed EXCEPT !.told = @ \cup {file.sid}]
  /\ UNCHANGED <<world, file, rows>>

-----------------------------------------------------------------------------
Pass ==
  \/ \E hidden \in SUBSET Recorded, deaf \in SUBSET Registered, hookErr, psFails \in BOOLEAN :
       Look(hidden, deaf, hookErr, psFails) \/ LookAgain(hidden, deaf, hookErr, psFails)
  \/ Follow
  \/ Record

Request == Sync \/ Unwatch \/ \E a \in Attachments : EditFile(a)

\* Recording what was seen reads nothing of the registry, so a change of it in
\* the meantime is taken to come after.
Others == UNCHANGED <<file, att, seen, links, loaded, rows, feed, pass, spent, home>>

Next ==
  \/ pass.at \in {"idle", "again"} /\ RegistryNext /\ Others
  \/ Pass
  \/ FollowFails
  \/ Request
  \/ Restart

Spec == Init /\ [][Next]_vars

\* A look at a registry every record of which can be read and answers, as can
\* what the hooks recorded and ps.
ClearLook == Look({}, {}, FALSE, FALSE) \/ LookAgain({}, {}, FALSE, FALSE)

\* The loop goroutine keeps running, and not every look of it is obstructed.
Fairness == SF_vars(ClearLook) /\ WF_vars(Follow) /\ WF_vars(Record)

FairSpec == Spec /\ Fairness

-----------------------------------------------------------------------------
(* Properties *)

Attachment == [sid : Sids, pid : {0} \cup Pids, start : Nat]
Link == [to : Sids, pid : Pids, start : Nat]
Row == [from : Sids, to : Sids, pid : Pids, start : Nat]
Sight == [kind : {"nothing", "live", "stale", "exited"}, sid : Sids \cup {None},
          pid : {0} \cup Pids, start : Nat, from : Sids \cup {None}]

\* Every variable has its type.
TypeOK ==
  /\ RegistryTypeOK
  /\ file \in Attachment /\ att \in Attachment \cup {None}
  /\ seen \in [sid : Sids \cup {None}, pid : {0} \cup Pids, start : Nat]
  /\ links \in [Sids -> Link \cup {None}]
  /\ loaded \in BOOLEAN
  /\ rows \in Seq(Row)
  /\ feed \in [sid : Sids \cup {None}, told : SUBSET Sids]
  /\ pass \in [at : {"idle", "again", "record", "observe"}, sight : Sight,
                there : BOOLEAN, guessed : BOOLEAN]
  /\ spent.edits \in 0..MaxEdits /\ spent.faults \in 0..MaxFaults
  /\ spent.restarts \in 0..MaxRestarts
  /\ home \in [pid : {0} \cup Pids, start : Nat]

\* A target is never followed onto a stranger: the process a recorded follow
\* names held both the id left and the id reached, however pids are used again
\* and targets are pointed elsewhere (claude.go successor, monitor.Forget).
FollowsStayInOneProcess ==
  \A i \in DOMAIN rows : {<<rows[i].pid, rows[i].start, s>> : s \in {rows[i].from, rows[i].to}}
                          \subseteq held

\* What the running daemon knows of follows is what a restarted one would
\* replay, after failed writes too (RecordFollow, rememberFollow, loadFollows).
MemoryIsReplay == loaded => links = Replayed(rows)

\* Follows never lead in a circle: an id reached by following them is not one
\* they lead on from, so the target is resolved on one pass and not on every one
\* (monitor.go sightResolved, store RecordFollow's deleted link).
ResolvedOnce ==
  \A s \in Sids : LET a == Resolved(links, IdOnly(s)) IN  Resolved(links, a) = a

\* A pass looks, and has what it looked for.
Looks == pass.at \in {"idle", "again"} /\ pass'.at \notin {"idle", pass.at}

\* An exit is only ever concluded of a process that held the session, left it to
\* no other, and is gone, unless ps failed when it was asked for the process
\* (claude.go absent, partial listings).
ExitVerified ==
  [][pass'.sight.kind = "exited" /\ pass.at \in {"idle", "again"} =>
       /\ <<att'.pid, att'.start, att'.sid>> \in held
       /\ Holders(att'.sid) = {}
       /\ Runs(att'.pid, att'.start) => pass'.guessed]_vars

\* docs/cli.md: the feed records a session_followed event before the first
\* observation of the new session, whatever fails or dies in between.
MoveIsTold == feed.sid \in feed.told \cup {None}

\* The state invariant: types, and the three above.
FollowsInv == TypeOK /\ MemoryIsReplay /\ ResolvedOnce /\ MoveIsTold

\* A record left by a process that has gone names the id.
Shadowed(s) == \E p \in Recorded \ Registered : record[p].sid = s

\* A conversation resumed under the id in force is watched there and not pulled to
\* where the id was followed once, if its record and its hooks can be read and no
\* record of a dead process hides it (docs/cli.md:337, monitor.go sightResolved).
ResumedIsWatchedUnlessShadowed ==
  [][Looks /\ pass'.there /\ ~Shadowed(att.sid) =>
       pass'.sight.kind = "live" /\ pass'.sight.sid = att.sid]_vars

\* An exit is not concluded while the process the target's session was last seen
\* in runs on, when ps answers: docs/cli.md:303, where a target names no process
\* of its own the one it lives in comes from the passes that saw the session.
ExitIsOfHome ==
  [][Looks /\ home.pid # 0 /\ pass'.sight.kind = "exited" /\ ~pass'.guessed =>
       ~Runs(home.pid, home.start)]_vars

\* The process the target lives in is the only one its definition leads to: it
\* names no other, and no follow recorded of an earlier one leads elsewhere.
AtHome ==
  /\ home.pid # 0 /\ Runs(home.pid, home.start) /\ home.pid \in Registered
  /\ att # None
  /\ att.pid = 0 \/ ProcessOf(att) = home
  /\ Resolved(links, att) = att
  /\ ~Shadowed(att.sid)

Found == att # None /\ home.pid # 0 /\ att.sid = record[home.pid].sid

\* A target whose process lives on under another id is found under it in the end
\* (docs/cli.md:308, claude.go successor), if no follow was lost on the way: the
\* process is learned again for the new id before the store has the follow, so a
\* write that fails or an error of the hooks loses it.
FollowedInTheEnd == <>[](AtHome /\ spent.faults = 0) => []<>Found
=============================================================================
