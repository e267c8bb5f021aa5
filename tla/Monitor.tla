------------------------------ MODULE Monitor -------------------------------
(***************************************************************************)
(* The observation pass (monitor.Tick) over the store it writes: what each *)
(* sighting of a target does to the event log, to target_state, to the     *)
(* incidents and to the alerts sent about them.                            *)
(*                                                                         *)
(* A pass is many transactions and one external effect per alert.  The     *)
(* store can fail, and the process can die, between any two of them; what  *)
(* the monitor keeps in memory is lost with the process.  Passes hold      *)
(* cfgMu, so no watch-list change lands inside one.                        *)
(***************************************************************************)
EXTENDS Policy

CONSTANTS
  Targets,      \* the watch list, more than one target or one
  PolicyOf,     \* each target's policy
  Sessions,     \* session identities an adapter may report
  Kinds,        \* what the adapters can come back with, see Sightings
  Readings,     \* the statuses a live session may report
  Stamps,       \* times an adapter may give, besides the pass's own; 0 is none
  Outcomes,     \* what the transport answers; with none it is always "unknown"
  MaxAttempts,  \* delivery attempts after definite failures
  MaxTime,      \* bound: the clock
  MaxEvents,    \* bound: length of the log
  MaxFaults     \* bound: store failures and crashes

ASSUME MonitorAssumption ==
  /\ IsFiniteSet(Targets)
  /\ PolicyOf \in [Targets -> Policies]
  /\ "" \notin Sessions
  /\ Kinds \subseteq {"unseen", "record", "unreadable", "readable", "exited"}
  /\ Readings \subseteq {"active", "waiting_input", "idle"}
  /\ Stamps \subseteq Nat
  /\ Outcomes \subseteq {"delivered", "failed", "unknown"}
  /\ MaxAttempts \in Nat \ {0}
  /\ {MaxTime, MaxEvents, MaxFaults} \subseteq Nat

VARIABLES
  now,        \* the wall clock of the latest pass
  hist,       \* the events table
  state,      \* target_state, one row per target
  incidents,  \* incidents and deliveries, in id order
  mem,        \* what the process keeps between passes
  loop,       \* the pass under way
  looked,     \* history: what each target's last completed look established
  faults      \* store failures and crashes so far

vars == <<now, hist, state, incidents, mem, loop, looked, faults>>

\* What an adapter answers: nothing (an error, or no adapter), a record whose
\* process is gone, a live session whose status means nothing to birddog, a live
\* session with a status, or a verified exit.
Sightings(time) ==
  LET stamps == Stamps \cup {time}
      Sees(kind, live, statuses, ids, since, activity, reasons) ==
        IF kind \in Kinds
        THEN [live : {live}, status : statuses, id : ids, since : since,
              activity : activity, reason : reasons]
        ELSE {}
  IN  UNION {Sees("unseen", FALSE, {""}, {""}, {0}, {0}, BOOLEAN),
             Sees("record", FALSE, {""}, Sessions, {0}, {0}, {TRUE}),
             Sees("unreadable", TRUE, {""}, Sessions, {0}, stamps, BOOLEAN),
             Sees("readable", TRUE, Readings \ {"idle"}, Sessions, {0}, stamps, {FALSE}),
             Sees("readable", TRUE, Readings \cap {"idle"}, Sessions, stamps, stamps, {FALSE}),
             Sees("exited", FALSE, {"exited"}, Sessions, {0}, {0}, {FALSE})}

NoRow == [row |-> FALSE, session |-> "", gen |-> 0, status |-> "", at |-> 0,
          reason |-> FALSE, reasonAt |-> 0]

FreshMemory == [baseline |-> FALSE, floor |-> 0, lost |-> {},
                targetFloor |-> [t \in Targets |-> 0], first |-> 1]

IdleLoop == [at |-> "idle", todo |-> {}, seen |-> <<>>, target |-> "", gen |-> 0,
             open |-> <<>>, close |-> {}, incident |-> 0, outcome |-> ""]

Unlooked == [gen |-> 0, open |-> {}]

Init ==
  /\ now = 0
  /\ hist = <<>>
  /\ state = [t \in Targets |-> NoRow]
  /\ incidents = <<>>
  /\ mem = FreshMemory
  /\ loop = IdleLoop
  /\ looked = [t \in Targets |-> Unlooked]
  /\ faults = 0

-----------------------------------------------------------------------------
(* The store. *)

OpenIncidents(t) == {i \in DOMAIN incidents : incidents[i].target = t /\ incidents[i].open}

OpenFor(t, c, gen) ==
  {i \in OpenIncidents(t) : incidents[i].condition = c /\ incidents[i].gen = gen}

ShouldAttemptUnlessDelivered(i) ==
  incidents[i].outcome # "delivered" /\ incidents[i].attempts < MaxAttempts

ShouldAttemptForever(i) == incidents[i].outcome \in {"", "failed"}

\* Never attempted, or definitely failed with attempts left.  "unknown" stands
\* for every other outcome: uncertain, suppressed, no recipient.
ShouldAttempt(i) ==
  \/ incidents[i].outcome = ""
  \/ incidents[i].outcome = "failed" /\ incidents[i].attempts < MaxAttempts

\* applyState and applyReason: what the row becomes when sighting `s` of run
\* `gen` is recorded.
Applied(row, s, gen) ==
  IF s.status # ""
  THEN IF row.row /\ (gen < row.gen \/ (gen = row.gen /\ now <= row.at)) THEN row
       ELSE LET newer == gen > row.gen \/ now > row.reasonAt
            IN  [row |-> TRUE, session |-> s.id, gen |-> gen, status |-> s.status,
                 at |-> now,
                 reason |-> IF newer THEN s.reason ELSE row.reason,
                 reasonAt |-> IF newer THEN now ELSE row.reasonAt]
  ELSE IF ~s.reason THEN row
  ELSE IF ~row.row
       THEN [NoRow EXCEPT !.row = TRUE, !.gen = gen, !.reason = TRUE, !.reasonAt = now]
  ELSE IF gen < row.gen \/ now <= row.reasonAt \/ (gen = row.gen /\ now <= row.at) THEN row
  ELSE [row EXCEPT !.reason = TRUE, !.reasonAt = now]

-----------------------------------------------------------------------------
(* Deciding about one target. *)

Learned(s) == s.live \/ s.status # ""

GenerationFor(row, id) ==
  CASE ~row.row -> 1
    [] row.row /\ (id = "" \/ row.session = "" \/ id = row.session) -> row.gen
    [] OTHER -> row.gen + 1

ExitRecordedNever(row, gen) == FALSE

ExitRecorded(row, gen) == row.row /\ row.status = "exited" /\ row.gen = gen

\* Losing and regaining sight of a target; regaining it restarts its thresholds.
RememberSightUnfloored(t, s) ==
  [mem EXCEPT !.lost = IF Learned(s) THEN @ \ {t} ELSE @ \cup {t}]

RememberSight(t, s) ==
  IF Learned(s)
  THEN [mem EXCEPT !.lost = @ \ {t},
                   !.targetFloor[t] = IF t \in mem.lost THEN now ELSE @]
  ELSE [mem EXCEPT !.lost = @ \cup {t}]

Observation(t, s, m, gen) ==
  [live |-> s.live, status |-> s.status, since |-> s.since, activity |-> s.activity,
   exitRecorded |-> ExitRecorded(state[t], gen),
   floor |-> LaterOf(m.floor, m.targetFloor[t])]

SettledNever(t, open, close, gen) == FALSE

\* Applying the decision would change nothing, and no alert is owed an attempt.
Settled(t, open, close, gen) ==
  /\ \A c \in ToSet(open) :
       \E i \in OpenFor(t, c, gen) : incidents[i].notified \/ ~ShouldAttempt(i)
  /\ \A i \in OpenIncidents(t) : incidents[i].gen >= gen
  /\ \A c \in close : OpenFor(t, c, gen) = {}

-----------------------------------------------------------------------------
(* The pass. *)

\* The clock is later than at the pass before, and by more than the time between
\* passes after a sleep.  Every target is sighted; losing all of them at once is
\* taken for a fault of birddog's own view.
BeginPass ==
  /\ loop.at = "idle"
  /\ Len(hist) + Cardinality(Targets) <= MaxEvents
  /\ \E time \in now + 1..MaxTime, jumped \in BOOLEAN :
       /\ jumped => mem.baseline /\ time > now + 1
       /\ \E seen \in [Targets -> Sightings(time)] :
            LET blind == Cardinality(Targets) > 1 /\ \A t \in Targets : ~Learned(seen[t])
            IN  /\ now' = time
                /\ mem' = [mem EXCEPT !.baseline = TRUE,
                                      !.floor = IF jumped \/ blind THEN time ELSE @]
                /\ loop' = [IdleLoop EXCEPT !.at = "observe", !.todo = Targets, !.seen = seen]
  /\ UNCHANGED <<hist, state, incidents, looked, faults>>

\* observeTarget up to the record: decide, and either leave a repeated exit
\* alone or append the event with the state it asserts, in one transaction.
Observe(t) ==
  /\ loop.at = "observe"
  /\ t \in loop.todo
  /\ LET s == loop.seen[t]
         gen == GenerationFor(state[t], s.id)
         obs == Observation(t, s, RememberSight(t, s), gen)
         open == Opens(obs, PolicyOf[t], now)
         close == Closes(obs, PolicyOf[t], now)
         repeat == s.status = "exited" /\ ExitRecorded(state[t], gen)
     IN  /\ mem' = RememberSight(t, s)
         /\ \/ /\ repeat /\ Settled(t, open, close, gen)
               /\ loop' = [loop EXCEPT !.todo = @ \ {t}]
               /\ looked' = [looked EXCEPT ![t] = [gen |-> gen, open |-> ToSet(open)]]
               /\ UNCHANGED <<hist, state, incidents>>
            \/ /\ ~(repeat /\ Settled(t, open, close, gen))
               /\ hist' = Append(hist, [target |-> t, session |-> s.id, gen |-> gen,
                                        status |-> s.status, learned |-> Learned(s),
                                        at |-> now])
               /\ state' = [state EXCEPT ![t] = Applied(@, s, gen)]
               /\ loop' = [loop EXCEPT !.at = "apply", !.target = t, !.gen = gen,
                                       !.open = open, !.close = close]
               /\ looked' = [looked EXCEPT ![t] = Unlooked]
               /\ UNCHANGED incidents
  /\ UNCHANGED <<now, faults>>

\* OpenOrTouchIncident, and whether its alert is owed an attempt.
OpenOrTouch ==
  /\ loop.at = "apply"
  /\ loop.open # <<>>
  /\ LET c == Head(loop.open)
         present == OpenFor(loop.target, c, loop.gen)
         i == IF present = {} THEN Len(incidents) + 1 ELSE Max(present)
         owed == present = {} \/ (~incidents[i].notified /\ ShouldAttempt(i))
     IN  /\ incidents' = IF present # {} THEN incidents
                         ELSE Append(incidents,
                                [target |-> loop.target, condition |-> c, gen |-> loop.gen,
                                 open |-> TRUE, notified |-> FALSE, attempts |-> 0,
                                 outcome |-> "", sent |-> 0])
         /\ loop' = IF owed THEN [loop EXCEPT !.at = "send", !.incident = i]
                    ELSE [loop EXCEPT !.open = Tail(@)]
  /\ UNCHANGED <<now, hist, state, mem, looked, faults>>

\* The alert leaves birddog; nothing about it is durable yet.
Deliver(outcome) ==
  /\ loop.at = "send"
  /\ incidents' = [incidents EXCEPT ![loop.incident].sent = @ + 1]
  /\ loop' = [loop EXCEPT !.at = "sent", !.outcome = outcome]
  /\ UNCHANGED <<now, hist, state, mem, looked, faults>>

RecordDeliveryMarksAll ==
  /\ loop.at = "sent"
  /\ incidents' = [incidents EXCEPT ![loop.incident].outcome = loop.outcome,
                                    ![loop.incident].attempts = @ + 1]
  /\ loop' = [loop EXCEPT !.at = "mark"]
  /\ UNCHANGED <<now, hist, state, mem, looked, faults>>

RecordDelivery ==
  /\ loop.at = "sent"
  /\ incidents' = [incidents EXCEPT ![loop.incident].outcome = loop.outcome,
                                    ![loop.incident].attempts = @ + 1]
  /\ loop' = IF loop.outcome = "delivered" THEN [loop EXCEPT !.at = "mark"]
             ELSE [loop EXCEPT !.at = "apply", !.open = Tail(@)]
  /\ UNCHANGED <<now, hist, state, mem, looked, faults>>

MarkNotified ==
  /\ loop.at = "mark"
  /\ incidents' = [incidents EXCEPT ![loop.incident].notified = TRUE]
  /\ loop' = [loop EXCEPT !.at = "apply", !.open = Tail(@)]
  /\ UNCHANGED <<now, hist, state, mem, looked, faults>>

OverInRun(t, close, gen) == UNION {OpenFor(t, c, gen) : c \in close}

OverNotified(t, close, gen) ==
  {i \in OpenIncidents(t) :
     incidents[i].notified /\ (incidents[i].gen < gen \/ incidents[i].condition \in close)}

\* Open incidents of a superseded run, and those whose condition ended.
Over(t, close, gen) ==
  {i \in OpenIncidents(t) : \/ incidents[i].gen < gen
                            \/ incidents[i].gen = gen /\ incidents[i].condition \in close}

\* One ResolveIncident of the closing loop.  Only this goroutine resolves, so
\* reading the open incidents again at each step is reading them once.
Resolve ==
  /\ loop.at = "apply"
  /\ loop.open = <<>>
  /\ Over(loop.target, loop.close, loop.gen) # {}
  /\ incidents' = [incidents EXCEPT
                     ![Min(Over(loop.target, loop.close, loop.gen))].open = FALSE]
  /\ UNCHANGED <<now, hist, state, mem, loop, looked, faults>>

\* The target is done.
Finish ==
  /\ loop.at = "apply"
  /\ loop.open = <<>>
  /\ Over(loop.target, loop.close, loop.gen) = {}
  /\ looked' = [looked EXCEPT ![loop.target] =
                  [gen |-> loop.gen, open |-> PolicyOf[loop.target].alertOn \ loop.close]]
  /\ loop' = [loop EXCEPT !.at = "observe", !.todo = @ \ {loop.target}]
  /\ UNCHANGED <<now, hist, state, incidents, mem, faults>>

EndPass ==
  /\ loop.at = "observe"
  /\ loop.todo = {}
  /\ loop' = IdleLoop
  /\ UNCHANGED <<now, hist, state, incidents, mem, looked, faults>>

\* A transaction or a read fails, of a delivery's attempts and its row too: Tick
\* returns at once and its error is dropped.  What the look at a target has
\* changed in memory by then stays.
StoreFails ==
  /\ faults < MaxFaults
  /\ \/ /\ loop.at = "observe"
        /\ \E t \in loop.todo : mem' \in {mem, RememberSight(t, loop.seen[t])}
     \/ loop.at \in {"apply", "send", "sent", "mark"} /\ UNCHANGED mem
  /\ loop' = IdleLoop
  /\ faults' = faults + 1
  /\ UNCHANGED <<now, hist, state, incidents, looked>>

\* The process dies and is resumed over the same store.
Crash ==
  /\ faults < MaxFaults
  /\ loop' = IdleLoop
  /\ mem' = [FreshMemory EXCEPT !.first = Len(hist) + 1]
  /\ faults' = faults + 1
  /\ UNCHANGED <<now, hist, state, incidents, looked>>

Next ==
  \/ BeginPass
  \/ \E t \in Targets : Observe(t)
  \/ OpenOrTouch
  \/ \E outcome \in Outcomes : Deliver(outcome)
  \/ RecordDelivery
  \/ MarkNotified
  \/ Resolve
  \/ Finish
  \/ EndPass
  \/ StoreFails
  \/ Crash

Spec == Init /\ [][Next]_vars

-----------------------------------------------------------------------------
(* Properties *)

Incident == [target : Targets, condition : Conditions, gen : Nat \ {0}, open : BOOLEAN,
             notified : BOOLEAN, attempts : Nat, sent : Nat,
             outcome : {"", "delivered", "failed", "unknown"}]

Row == [row : BOOLEAN, session : Sessions \cup {""}, gen : Nat, status : Statuses,
        at : Nat, reason : BOOLEAN, reasonAt : Nat]

\* Every variable has its type, and an incident is notified only once its
\* delivery is on record.
TypeOK ==
  /\ now \in 0..MaxTime
  /\ hist \in Seq([target : Targets, session : Sessions \cup {""}, gen : Nat \ {0},
                   status : Statuses, learned : BOOLEAN, at : Nat])
  /\ state \in [Targets -> Row]
  /\ incidents \in Seq(Incident)
  /\ \A i \in DOMAIN incidents : incidents[i].notified => incidents[i].outcome = "delivered"
  /\ mem \in [baseline : BOOLEAN, floor : Nat, lost : SUBSET Targets,
              targetFloor : [Targets -> Nat], first : Nat]
  /\ loop.at \in {"idle", "observe", "apply", "send", "sent", "mark"}
  /\ loop.at \in {"send", "sent", "mark"} => loop.incident \in DOMAIN incidents
  /\ faults \in 0..MaxFaults

\* Once a look at a target is complete, the open incidents of its run are exactly
\* the conditions that hold: an exit is listed and can be acknowledged, a lost
\* sight that returned is not, and nothing of an earlier run lingers, wherever
\* earlier passes failed or died.
IncidentsMatchLook ==
  \A t \in Targets : looked[t] # Unlooked =>
    /\ {incidents[i].condition : i \in {j \in OpenIncidents(t) : incidents[j].gen = looked[t].gen}}
         = looked[t].open
    /\ \A i \in OpenIncidents(t) : incidents[i].gen >= looked[t].gen

\* "Exiting resolves it", says README.md of an overdue incident: a target seen to
\* have exited has none open, whichever sessions were seen at it before.
ExitResolvesOverdue ==
  \A t \in Targets : "exit" \in looked[t].open =>
    \A i \in OpenIncidents(t) : incidents[i].condition # "overdue"

\* No alert storm: what the orchestrator receives about one incident is bounded
\* by the attempts allowed and the faults that lost the record of one, and once
\* an outcome that forbids a retry is on record nothing more is sent.
AlertsBounded ==
  \A i \in DOMAIN incidents :
    LET inc == incidents[i]
    IN  /\ inc.sent <= MaxAttempts + faults
        /\ inc.attempts <= inc.sent

\* Once the outcome of an alert is on record and is not a definite failure, that
\* incident is never announced again, by any pass or after any restart.
SettledAlertNotRepeated ==
  [][\A i \in DOMAIN incidents :
       incidents[i].outcome \in {"delivered", "unknown"} =>
         incidents'[i].sent = incidents[i].sent]_vars

\* The events that restate an exit the target's previous event already asserted.
RepeatedExits(t) ==
  LET events == {i \in DOMAIN hist : hist[i].target = t}
  IN  {j \in events : \E i \in events :
         /\ i < j /\ \A k \in events : k <= i \/ k >= j
         /\ hist[i].status = "exited" /\ hist[j].status = "exited"
         /\ hist[i].gen = hist[j].gen}

\* Attempts at the alert of one exit of the target, beyond the first.
Again(inc, t) ==
  IF inc.target = t /\ inc.condition = "exit" /\ inc.sent > 0 THEN inc.sent - 1 ELSE 0

\* All of them.
Resent(alerts, t) ==
  LET sum[n \in 0..Len(alerts)] == IF n = 0 THEN 0 ELSE sum[n - 1] + Again(alerts[n], t)
  IN  sum[Len(alerts)]

\* A verified exit is recorded once: it is restated only by a pass that owed its
\* alert another attempt or that follows a fault, never by merely looking again.
ExitRecordedOnce ==
  loop.at = "idle" =>
    \A t \in Targets : Cardinality(RepeatedExits(t)) <= faults + Resent(incidents, t)

\* An incident opened by this step.
Opened == DOMAIN incidents' \ DOMAIN incidents

\* A run whose last known status is a verified exit is never reported overdue,
\* however sight of it is lost and regained and whenever the deadline passes.
NoOverdueAfterExit ==
  [][\A i \in Opened : incidents'[i].condition = "overdue" =>
       LET said == {j \in DOMAIN hist : /\ hist[j].target = incidents'[i].target
                                        /\ hist[j].gen = incidents'[i].gen
                                        /\ hist[j].status # ""}
       IN  said # {} => hist[Max(said)].status # "exited"]_vars

Threshold(c, p) ==
  CASE c = "idle" -> p.idleGrace [] c = "no_progress" -> p.noProgressAfter + 1
    [] OTHER -> p.quietAfter + 1

\* Silence birddog did not witness is not measured: between the last loss of sight of
\* a target and an incident about its silence lies more than the threshold, whatever
\* failed in between; and at least the threshold since sight was regained, where the
\* log has every look, as it has while the store works and no exit is restated.
SilenceWitnessed ==
  [][\A i \in Opened : incidents'[i].condition \in Silences =>
       LET t == incidents'[i].target
           after == Threshold(incidents'[i].condition, PolicyOf[t])
           mine == {j \in DOMAIN hist : hist[j].target = t /\ j >= mem.first}
           lost == {j \in mine : ~hist[j].learned}
           regained == {j \in mine : \A k \in lost : k < j}
           complete == faults = 0 /\ \A j \in mine : hist[j].status # "exited"
       IN  lost # {} =>
             /\ now > hist[Max(lost)].at + after
             /\ complete => now >= hist[Min(regained)].at + after]_vars

\* Silence the operator authorised is never reported, nor is the same silence the
\* moment the override lapses: its thresholds run from the expiry.
OverrideHonoured ==
  [][\A i \in Opened : incidents'[i].condition \in Silences =>
       LET p == PolicyOf[incidents'[i].target]
       IN  p.quietUntil = 0 \/ now >= p.quietUntil + Threshold(incidents'[i].condition, p)]_vars
=============================================================================
