-------------------------------- MODULE Feed --------------------------------
(***************************************************************************)
(* The event feed of one birddog instance: the append-only event log, the  *)
(* retention that trims it, and the consumers that follow it by cursor.    *)
(*                                                                         *)
(* Three kinds of process meet in the store.  The daemon's loop goroutine  *)
(* is the only writer of the log: it alternates observation passes, which  *)
(* append events and open exit incidents, with retention passes, which     *)
(* choose a floor and delete below it.  One handler goroutine per          *)
(* connection serves `status` and `events` with several SQL queries that   *)
(* are not one transaction.  `ack` stamps an incident at any moment.       *)
(*                                                                         *)
(* What a status means, when an exit is observed and who is told belong to *)
(* Monitor; here an event is a target, a run generation, a time and        *)
(* whether it asserts a verified exit.                                     *)
(***************************************************************************)
EXTENDS Integers, Sequences, FiniteSets, FiniteSetsExt

CONSTANTS
  Targets,     \* the watch list
  Readers,     \* consumers following the feed
  MaxAge,      \* retention window, in clock units
  Hold,        \* how much longer an uncollected exit is kept
  PageLimit,   \* largest page `events` returns
  MaxEvents,   \* bound: length of the log
  MaxTime      \* bound: the clock

ASSUME FeedAssumption ==
  /\ MaxAge \in Nat \ {0}
  /\ Hold \in Nat \ {0}
  /\ PageLimit \in Nat \ {0}
  /\ MaxEvents \in Nat
  /\ MaxTime \in Nat
  /\ IsFiniteSet(Targets)

VARIABLES
  now,        \* the wall clock the daemon reads
  hist,       \* every event ever recorded; its index is its AUTOINCREMENT seq
  rows,       \* the sequence numbers still stored in the events table
  floor,      \* meta.retention_floor, 0 when never written
  state,      \* state[t]: seq of the last event target_state reflects, or 0
  incidents,  \* the exit incidents ever opened, in id order
  loop,       \* what the loop goroutine is doing
  reader      \* what each consumer's current request is doing

vars == <<now, hist, rows, floor, state, incidents, loop, reader>>

Event == [target : Targets, gen : Nat \ {0}, exit : BOOLEAN, at : Nat]

Incident == [target : Targets, gen : Nat \ {0}, acked : BOOLEAN]

\* `none` marks an SQL MIN over no rows.
none == 0

IdleLoop == [at |-> "idle", todo |-> {}, exited |-> none,
             cutoff |-> 0, latest |-> 0, byAge |-> none, from |-> 0]

FreshReader == [at |-> "new", pos |-> 0, floor |-> 0, cursor |-> 0,
                left |-> {}, seen |-> [t \in Targets |-> 0], woken |-> FALSE]

Init ==
  /\ now = 0
  /\ hist = <<>>
  /\ rows = {}
  /\ floor = 0
  /\ state = [t \in Targets |-> 0]
  /\ incidents = <<>>
  /\ loop = IdleLoop
  /\ reader \in [Readers -> {FreshReader, [FreshReader EXCEPT !.at = "ready"]}]

-----------------------------------------------------------------------------
(* Queries on the store, each one SQL statement. *)

MinOrNone(S) == IF S = {} THEN none ELSE Min(S)

MaxSeq == IF rows = {} THEN 0 ELSE Max(rows)

MaxSeqOnly(f) == MaxSeq

\* The newest cursor, given the floor an earlier query returned.
LatestCursor(f) == IF MaxSeq < f THEN f ELSE MaxSeq

RunIncidents(s) ==
  {i \in DOMAIN incidents : /\ incidents[i].target = hist[s].target
                            /\ incidents[i].gen = hist[s].gen}

\* An INNER JOIN would let go of an exit nobody was ever alerted about.
UncollectedJoined(s) == \E i \in RunIncidents(s) : ~incidents[i].acked

\* The LEFT JOIN: no incident, or one that nobody acknowledged.
Uncollected(s) ==
  \/ RunIncidents(s) = {}
  \/ \E i \in RunIncidents(s) : ~incidents[i].acked

Held(cutoff) ==
  {s \in rows : /\ hist[s].exit
                /\ hist[s].at < cutoff
                /\ hist[s].at > cutoff - Hold
                /\ Uncollected(s)}

After(cursor) == {s \in rows : s > cursor}

\* The next cursor counted rather than taken from the last event of the page.
PageEndCounted(cursor) == Min({cursor + PageLimit, MaxSeq})

\* The last sequence number of the page that starts after `cursor`.
PageEnd(cursor) ==
  Max({s \in After(cursor) : Cardinality({q \in After(cursor) : q <= s}) <= PageLimit})

-----------------------------------------------------------------------------
(* The loop goroutine: observation passes. *)

\* The clock is read when a pass starts, later than for the pass before it, and
\* every event of the pass carries it.
BeginPass ==
  /\ loop.at = "idle"
  /\ now' \in now..MaxTime
  /\ \A s \in DOMAIN hist : hist[s].at < now'
  /\ loop' = [loop EXCEPT !.at = "pass", !.todo = Targets]
  /\ UNCHANGED <<hist, rows, floor, state, incidents, reader>>

Generation(t) == IF state[t] = 0 THEN 1 ELSE hist[state[t]].gen

\* Record: the event and the state it asserts, in one transaction.
Record(t, exit, replaced) ==
  /\ loop.at = "pass"
  /\ t \in loop.todo
  /\ Len(hist) < MaxEvents
  /\ state[t] = 0 => ~replaced
  /\ LET gen == IF replaced THEN Generation(t) + 1 ELSE Generation(t)
         seq == Len(hist) + 1
     IN  /\ hist' = Append(hist, [target |-> t, gen |-> gen, exit |-> exit, at |-> now])
         /\ rows' = rows \cup {seq}
         /\ state' = [state EXCEPT ![t] = seq]
         /\ loop' = [loop EXCEPT !.todo = @ \ {t},
                                 !.at = IF exit THEN "opening" ELSE "pass",
                                 !.exited = IF exit THEN seq ELSE none]
  /\ UNCHANGED <<now, floor, incidents, reader>>

\* A repeat of a recorded exit writes nothing.
SuppressRepeat(t) ==
  /\ loop.at = "pass"
  /\ t \in loop.todo
  /\ state[t] # 0 /\ hist[state[t]].exit
  /\ loop' = [loop EXCEPT !.todo = @ \ {t}]
  /\ UNCHANGED <<now, hist, rows, floor, state, incidents, reader>>

\* The incident is a second transaction.  A policy that does not alert on exit
\* opens none, and one already open for the run is only touched.
OpenExitIncident(opened) ==
  /\ loop.at = "opening"
  /\ incidents' = IF opened
                  THEN Append(incidents, [target |-> hist[loop.exited].target,
                                          gen |-> hist[loop.exited].gen,
                                          acked |-> FALSE])
                  ELSE incidents
  /\ loop' = [loop EXCEPT !.at = "pass", !.exited = none]
  /\ UNCHANGED <<now, hist, rows, floor, state, reader>>

\* notifyObservers closes the channel every waiting poll holds.  It runs however
\* the pass ended: a store failure ends Tick early, and its error is dropped.
EndPass ==
  /\ loop.at \in {"pass", "opening"}
  /\ loop' = IdleLoop
  /\ reader' = [r \in Readers |-> [reader[r] EXCEPT !.woken = reader[r].at = "selecting"]]
  /\ UNCHANGED <<now, hist, rows, floor, state, incidents>>

-----------------------------------------------------------------------------
(* The loop goroutine: retention passes.  Only this goroutine writes the log, *)
(* so its first two reads are one step; the join also reads incidents, which  *)
(* `ack` writes, and is a step of its own.                                    *)

RetainWindow ==
  /\ loop.at = "idle"
  /\ now' \in now..MaxTime
  /\ LET cutoff == now' - MaxAge
     IN  loop' = [loop EXCEPT !.at = "held", !.cutoff = cutoff,
                              !.latest = LatestCursor(floor),
                              !.byAge = MinOrNone({s \in rows : hist[s].at >= cutoff})]
  /\ UNCHANGED <<hist, rows, floor, state, incidents, reader>>

RetainFrom(held) ==
  LET keep == held \cup (IF loop.byAge = none THEN {} ELSE {loop.byAge})
  IN  IF keep = {} THEN loop.latest + 1 ELSE Min(keep)

RetainHeld ==
  /\ loop.at = "held"
  /\ LET from == RetainFrom(Held(loop.cutoff))
     IN  loop' = IF from <= 1 THEN IdleLoop
                 ELSE [IdleLoop EXCEPT !.at = "prune", !.from = from]
  /\ UNCHANGED <<now, hist, rows, floor, state, incidents, reader>>

\* The floor names the first sequence kept instead of the last one dropped.
PruneFloorOffByOne ==
  /\ loop.at = "prune"
  /\ rows' = {s \in rows : s >= loop.from}
  /\ floor' = Max({floor, loop.from})
  /\ loop' = IdleLoop
  /\ UNCHANGED <<now, hist, state, incidents, reader>>

PruneBefore ==
  /\ loop.at = "prune"
  /\ rows' = {s \in rows : s >= loop.from}
  /\ floor' = Max({floor, loop.from - 1})
  /\ loop' = IdleLoop
  /\ UNCHANGED <<now, hist, state, incidents, reader>>

-----------------------------------------------------------------------------
(* A consumer's requests. *)

\* `status` takes its cursor first: two queries, then one per target.
StatusFloor(r) ==
  /\ reader[r].at = "new"
  /\ reader' = [reader EXCEPT ![r] = [reader[r] EXCEPT !.at = "cursor", !.floor = floor]]
  /\ UNCHANGED <<now, hist, rows, floor, state, incidents, loop>>

StatusCursor(r) ==
  /\ reader[r].at = "cursor"
  /\ reader' = [reader EXCEPT ![r] =
                  [reader[r] EXCEPT !.at = "states",
                                    !.cursor = LatestCursor(reader[r].floor),
                                    !.left = Targets]]
  /\ UNCHANGED <<now, hist, rows, floor, state, incidents, loop>>

\* The cursor taken along with the states rather than before them.
StatusTargetLateCursor(r, t) ==
  /\ reader[r].at = "states"
  /\ t \in reader[r].left
  /\ reader' = [reader EXCEPT ![r] =
                  [reader[r] EXCEPT !.left = @ \ {t},
                                    !.cursor = LatestCursor(floor),
                                    !.seen = [reader[r].seen EXCEPT ![t] = state[t]]]]
  /\ UNCHANGED <<now, hist, rows, floor, state, incidents, loop>>

StatusTarget(r, t) ==
  /\ reader[r].at = "states"
  /\ t \in reader[r].left
  /\ reader' = [reader EXCEPT ![r] =
                  [reader[r] EXCEPT !.left = @ \ {t},
                                    !.seen = [reader[r].seen EXCEPT ![t] = state[t]]]]
  /\ UNCHANGED <<now, hist, rows, floor, state, incidents, loop>>

\* The request is over; its consumer will ask after `cursor`.
Rebase(r, cursor) ==
  [reader EXCEPT ![r] = [FreshReader EXCEPT !.at = "ready", !.pos = cursor]]

StatusReply(r) ==
  /\ reader[r].at = "states"
  /\ reader[r].left = {}
  /\ reader' = Rebase(r, reader[r].cursor)
  /\ UNCHANGED <<now, hist, rows, floor, state, incidents, loop>>

\* The first query of After.  cursor_stale sends the consumer back to status.
EventsFloor(r) ==
  /\ reader[r].at = "ready"
  /\ reader' = IF reader[r].pos < floor
               THEN [reader EXCEPT ![r] = [reader[r] EXCEPT !.at = "new"]]
               ELSE [reader EXCEPT ![r] = [reader[r] EXCEPT !.at = "rows", !.floor = floor]]
  /\ UNCHANGED <<now, hist, rows, floor, state, incidents, loop>>

\* The second query of After, and what the handler makes of it: a page, an
\* empty answer (no wait asked for, or its deadline passed), or a wait.
EventsRows(r) ==
  /\ reader[r].at = "rows"
  /\ \/ /\ After(reader[r].pos) # {}
        /\ reader' = Rebase(r, PageEnd(reader[r].pos))
     \/ /\ After(reader[r].pos) = {}
        /\ \/ reader' = Rebase(r, reader[r].pos)
           \/ reader' = [reader EXCEPT ![r] = [reader[r] EXCEPT !.at = "waiting"]]
  /\ UNCHANGED <<now, hist, rows, floor, state, incidents, loop>>

\* The channel is fetched only after the query found nothing, so a pass that
\* ended in between is not noticed.
FetchObserved(r) ==
  /\ reader[r].at = "waiting"
  /\ reader' = [reader EXCEPT ![r] = [reader[r] EXCEPT !.at = "selecting"]]
  /\ UNCHANGED <<now, hist, rows, floor, state, incidents, loop>>

\* A wait with no deadline of its own.
WaitEndsOnPassOnly(r) ==
  /\ reader[r].at = "selecting"
  /\ reader[r].woken
  /\ reader' = Rebase(r, reader[r].pos)
  /\ UNCHANGED <<now, hist, rows, floor, state, incidents, loop>>

\* Woken by a pass, or out of time (clampWait bounds every wait): either way the
\* handler reads again.
WaitEnds(r) ==
  /\ reader[r].at = "selecting"
  /\ reader' = Rebase(r, reader[r].pos)
  /\ UNCHANGED <<now, hist, rows, floor, state, incidents, loop>>

\* AcknowledgeIncident, from any handler.
Acknowledge(i) ==
  /\ i \in DOMAIN incidents
  /\ incidents' = [incidents EXCEPT ![i].acked = TRUE]
  /\ UNCHANGED <<now, hist, rows, floor, state, loop, reader>>

\* The daemon dies and is started again over the same store.  Requests in
\* flight fail; their consumers keep the cursors they had.
Crash ==
  /\ loop' = IdleLoop
  /\ reader' = [r \in Readers |->
                  IF reader[r].at \in {"new", "cursor", "states"}
                  THEN [FreshReader EXCEPT !.pos = reader[r].pos]
                  ELSE [FreshReader EXCEPT !.at = "ready", !.pos = reader[r].pos]]
  /\ UNCHANGED <<now, hist, rows, floor, state, incidents>>

-----------------------------------------------------------------------------
Pass ==
  \/ BeginPass
  \/ \E t \in Targets, exit, replaced \in BOOLEAN : Record(t, exit, replaced)
  \/ \E t \in Targets : SuppressRepeat(t)
  \/ \E opened \in BOOLEAN : OpenExitIncident(opened)
  \/ EndPass

Retain == RetainWindow \/ RetainHeld \/ PruneBefore

Request(r) ==
  \/ StatusFloor(r)
  \/ StatusCursor(r)
  \/ \E t \in Targets : StatusTarget(r, t)
  \/ StatusReply(r)
  \/ EventsFloor(r)
  \/ EventsRows(r)
  \/ FetchObserved(r)
  \/ WaitEnds(r)

Next ==
  \/ Pass
  \/ Retain
  \/ \E r \in Readers : Request(r)
  \/ \E i \in 1..MaxEvents : Acknowledge(i)
  \/ Crash

Spec == Init /\ [][Next]_vars

\* A consumer keeps asking and a handler goroutine keeps running.  Nothing is
\* assumed of the loop: passes may stop.  Crashes may not recur for ever, or no
\* answer would ever be given.
FairSpec ==
  /\ Spec
  /\ \A r \in Readers : WF_vars(Request(r))
  /\ <>[][~Crash]_vars

-----------------------------------------------------------------------------
(* Properties *)

LoopState ==
  [at : {"idle", "pass", "opening", "held", "prune"}, todo : SUBSET Targets,
   exited : Nat, cutoff : Int, latest : Nat, byAge : Nat, from : Nat]

ReaderState ==
  [at : {"new", "cursor", "states", "ready", "rows", "waiting", "selecting"},
   pos : Nat, floor : Nat, cursor : Nat, left : SUBSET Targets,
   seen : [Targets -> Nat], woken : BOOLEAN]

\* Every variable has its type; the stored rows and the floor lie within the log.
TypeOK ==
  /\ now \in 0..MaxTime
  /\ hist \in Seq(Event) /\ Len(hist) <= MaxEvents
  /\ rows \subseteq 1..Len(hist)
  /\ floor \in 0..Len(hist)
  /\ state \in [Targets -> 0..Len(hist)]
  /\ incidents \in Seq(Incident)
  /\ loop \in LoopState
  /\ reader \in [Readers -> ReaderState]

\* The retained history has no holes: what is stored is exactly what follows
\* the floor, so a cursor at or above the floor replays completely and one
\* below it does not.  This is what makes ErrCursorStale answerable.
ContiguousHistory == rows = (floor + 1)..Len(hist)

\* Retention never drops a verified exit that nobody collected before its hold
\* has elapsed: an exit no longer stored was acknowledged in its own run, or is
\* older than the window and the hold together, however passes, retention,
\* acknowledgements and restarts interleave.
UncollectedExitKept ==
  \A s \in 1..Len(hist) :
    hist[s].exit /\ s \notin rows =>
      \/ hist[s].at + MaxAge + Hold <= now
      \/ \E i \in RunIncidents(s) : incidents[i].acked

\* A status answer and the feed after its cursor miss nothing between them:
\* every event of a target up to the cursor is in the state read for it,
\* although the cursor and the states are separate queries.
StatusCoversCursor ==
  \A r \in Readers :
    reader[r].at = "states" =>
      \A t \in Targets \ reader[r].left : \A s \in 1..reader[r].cursor :
        hist[s].target = t => s <= reader[r].seen[t]

\* Where the requests leave the consumers, as RetainedLog sees them.
Positions == [r \in Readers |-> reader[r].pos]

ModeOf(at) == CASE at \in {"new", "cursor", "states"} -> "lost"
                [] at = "rows" -> "open"
                [] OTHER -> "ready"

Modes == [r \in Readers |-> ModeOf(reader[r].at)]

Log == INSTANCE RetainedLog WITH
  Entries <- Event, log <- hist, base <- floor, pos <- Positions, mode <- Modes

\* The feed, with all its queries, keeps the promise of a retained log: pages are
\* the next events in order, only a consumer that missed something is told
\* cursor_stale, and no cursor of `status` takes it back (docs/cli.md:288).  Only a
\* prune that lands between the check of the cursor and the page leaves a gap.
KeepsTheLog == Log!Spec

\* Every event reaches a consumer that keeps asking, or the consumer is told
\* its cursor is stale and the cursor `status` then gives it lies beyond the
\* event.  Neither the missed wakeup of a long poll nor an emptied log leaves
\* it behind, and the documented recovery does not loop.
FollowerCatchesUp ==
  \A r \in Readers : \A s \in 1..MaxEvents :
    Len(hist) >= s ~> reader[r].pos >= s
=============================================================================
