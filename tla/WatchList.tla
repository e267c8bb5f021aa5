----------------------------- MODULE WatchList -----------------------------
(***************************************************************************)
(* What one instance watches: the list its configuration file starts it    *)
(* with, the `watch add|remove|update|sync` requests that change it, the   *)
(* loop that re-reads the file, and the answers kept for retried requests. *)
(*                                                                         *)
(* The list and its revision are in memory; the answers and the incidents  *)
(* are in the store.  cfgMu is held for a whole change and for a whole     *)
(* pass, so each is one step; looking up an answer, reading the file and   *)
(* remembering the answer of a sync happen outside it.                     *)
(*                                                                         *)
(* A policy is what a deadline and an override need.  A time of 0 is none. *)
(* Following a session, dry runs and the alert thresholds are left out.    *)
(***************************************************************************)
EXTENDS Naturals, FiniteSets

CONSTANTS
  Targets, Callers, Keys,
  NoKey,      \* a request that may not be retried
  Contents,   \* valid files: [targets : a function to entries, follow, retention]
  Broken,     \* a file that does not parse
  FromFile,   \* a sync that sends no configuration
  Keep,       \* a field an update leaves alone
  Requests,   \* [op, key, target, entry, fields, content]
  None,
  MaxTime, MaxEdits, MaxAsks, MaxRestarts, MaxFaults

\* What the file or an addition may say of a target: a deadline that nobody would
\* be alerted of is refused before it gets here (ValidateTarget).
Entries == {e \in [asks : BOOLEAN, deadline : Nat, after : Nat, quiet : Nat] :
              e.deadline # 0 \/ e.after > 0 => e.asks}

ASSUME WatchListAssumption ==
  /\ MaxTime \in Nat \ {0}
  /\ {MaxEdits, MaxAsks, MaxRestarts, MaxFaults} \subseteq Nat
  /\ NoKey \notin Keys

ASSUME ContentsAssumption ==
  \A c \in Contents :
    /\ c = [targets |-> c.targets, follow |-> c.follow, retention |-> c.retention]
    /\ DOMAIN c.targets \subseteq Targets
    /\ \A x \in DOMAIN c.targets : c.targets[x] \in Entries

ASSUME RequestsAssumption ==
  \A r \in Requests :
    /\ r.key \in Keys \cup {NoKey}
    /\ \/ r.op \in {"add", "addInMemory"} /\ r.target \in Targets /\ r.entry \in Entries
       \/ r.op = "remove" /\ r.target \in Targets
       \/ /\ r.op = "update" /\ r.target \in Targets
          /\ r.fields.asks \in BOOLEAN \cup {Keep}
          /\ {r.fields.deadline, r.fields.quiet} \subseteq Nat \cup {Keep}
       \/ r.op = "sync" /\ r.content \in Contents \cup {Broken, FromFile}

VARIABLES
  now,
  disk,      \* the configuration file: content, and a version per save
  process,   \* "down", "loaded" (has read the file) or "up"
  config,    \* in memory: the list, retention and follow_file
  revision,
  known,     \* of the file: its stamp when last looked at, and whether it was refused
  loop,      \* the observation loop
  caller,    \* each connection
  answers,   \* store: what each key produced
  overdue,   \* store: targets with an open overdue incident
  spent,     \* requests, restarts and faults so far
  history

vars == <<now, disk, process, config, revision, known, loop, caller, answers,
          overdue, spent, history>>

memory == <<config, revision, known, loop>>

-----------------------------------------------------------------------------
(* Policies *)

\* A target as the file or `watch add` writes it.
Parsed(entry) ==
  [asks |-> entry.asks, deadline |-> entry.deadline, after |-> entry.after,
   written |-> entry.deadline, byUpdate |-> FALSE, quiet |-> entry.quiet]

\* The structure earlier clients send: a deadline that is not the file's, and no
\* durations, which that encoding leaves out.
InMemory(entry) == [Parsed(entry) EXCEPT !.after = 0, !.written = 0]

Described(r) == IF r.op = "add" THEN Parsed(r.entry) ELSE InMemory(r.entry)

ResolveDeadline(policy, from) ==
  IF policy.after > 0 /\ policy.deadline = 0
  THEN [policy EXCEPT !.deadline = from + policy.after] ELSE policy

ValidateDeadline(policy) ==
  \/ policy.deadline # 0
  \/ policy.after > 0 /\ ~policy.byUpdate
  => policy.asks

Chosen(field, current) == IF field = Keep THEN current ELSE field

ApplyPolicyUpdate(policy, fields) ==
  [policy EXCEPT !.asks = Chosen(fields.asks, @),
                 !.quiet = Chosen(fields.quiet, @),
                 !.deadline = Chosen(fields.deadline, @),
                 !.byUpdate = @ \/ fields.deadline # Keep]

KeepRuntimeOverride(fromFile, current, t) ==
  IF fromFile.quiet = 0 /\ t < current.quiet
  THEN [fromFile EXCEPT !.quiet = current.quiet] ELSE fromFile

\* The file's deadline resolved anew, whatever is in force.
KeepDeadlineFresh(fromFile, current, added) == ResolveDeadline(fromFile, added)

\* An update's deadline carried whatever the file now asks about.
KeepDeadlineUnasked(fromFile, current, added) ==
  IF <<fromFile.after, fromFile.written>> = <<current.after, current.written>>
  THEN [fromFile EXCEPT !.deadline = current.deadline, !.byUpdate = current.byUpdate]
  ELSE ResolveDeadline(fromFile, added)

KeepDeadline(fromFile, current, added) ==
  IF <<fromFile.after, fromFile.written>> # <<current.after, current.written>>
  THEN ResolveDeadline(fromFile, added)
  ELSE IF current.byUpdate /\ current.deadline # 0 /\ ~fromFile.asks
  THEN fromFile
  ELSE [fromFile EXCEPT !.deadline = current.deadline, !.byUpdate = current.byUpdate]

\* When the target was taken on, forgotten.
TakenOnUntimed(policy, t) == [policy |-> ResolveDeadline(policy, t), added |-> 0]

TakenOn(policy, t) == [policy |-> ResolveDeadline(policy, t), added |-> t]

\* A relative deadline run from the sync.
ResyncedFresh(entry, current, t) ==
  [current EXCEPT !.policy = ResolveDeadline(KeepRuntimeOverride(Parsed(entry), @, t), t)]

Resynced(entry, current, t) ==
  [current EXCEPT !.policy =
     KeepDeadline(KeepRuntimeOverride(Parsed(entry), @, t), @, current.added)]

\* The configuration a sync of a file makes of the one in force.
Synced(c, content, t) ==
  [content EXCEPT !.targets =
     [x \in DOMAIN content.targets |->
        IF x \in DOMAIN c.targets THEN Resynced(content.targets[x], c.targets[x], t)
        ELSE TakenOn(Parsed(content.targets[x]), t)]]

Unasked(c) == {x \in DOMAIN c.targets : ~c.targets[x].policy.asks}

Overridden(f, x, y) == [z \in DOMAIN f \cup {x} |-> IF z = x THEN y ELSE f[z]]

Without(f, x) == [z \in DOMAIN f \ {x} |-> f[z]]

-----------------------------------------------------------------------------
(* Changes.  What a request may do, as a set of outcomes: the configuration *)
(* and the open incidents it leaves, and what became of it.                 *)

Outcome(c, open, was) == [config |-> c, overdue |-> open, was |-> was]

Refused == {Outcome(config, overdue, "refused")}

WatchAdd(r) ==
  IF r.target \in DOMAIN config.targets THEN Refused
  ELSE {Outcome([config EXCEPT !.targets = Overridden(@, r.target, TakenOn(Described(r), now))],
                overdue, "changed")}

WatchRemove(r) ==
  IF r.target \notin DOMAIN config.targets THEN Refused
  ELSE {Outcome([config EXCEPT !.targets = Without(@, r.target)], overdue, "changed")}

\* The incidents left to the pass, which leaves them alone.
ResolveNothing(c, among, failing) == {Outcome(c, overdue, "changed")}

\* Overdue is resolved where it is no longer asked about, and that can fail.
ResolveUnaskedOverdue(c, among, failing) ==
  {Outcome(c, overdue \ (Unasked(c) \cap among), "changed")}
  \cup IF Unasked(c) \cap among = {} THEN {}
       ELSE {Outcome(failing, open, "failed") :
               open \in {overdue \ s : s \in SUBSET (Unasked(c) \cap among)}}

WatchUpdate(r) ==
  IF r.target \notin DOMAIN config.targets THEN Refused
  ELSE LET policy == ApplyPolicyUpdate(config.targets[r.target].policy, r.fields)
           updated == [config EXCEPT !.targets[r.target].policy = policy]
       IN  IF ~ValidateDeadline(policy) THEN Refused
           ELSE ResolveUnaskedOverdue(updated, {r.target}, updated)

\* A failure leaves the new list with the old retention and the old revision.
Sync(content) ==
  IF content = Broken THEN Refused
  ELSE LET next == Synced(config, content, now)
       IN  IF next = [config EXCEPT !.follow = content.follow]
           THEN {Outcome(next, overdue, "same")}
           ELSE ResolveUnaskedOverdue(next, DOMAIN next.targets,
                                      [next EXCEPT !.retention = config.retention])

Outcomes(r, data) ==
  CASE r.op \in {"add", "addInMemory"} -> WatchAdd(r)
    [] r.op = "remove" -> WatchRemove(r)
    [] r.op = "update" -> WatchUpdate(r)
    [] r.op = "sync" -> Sync(data)

-----------------------------------------------------------------------------
(* History: what the properties compare the configuration with.            *)

Lines(policy) == <<policy.after, policy.written>>

\* What a file now applied says of each target, and which deadlines chosen by an
\* update it leaves standing: those whose lines in the file are what they were.
FileSaid(content) ==
  [history EXCEPT
     !.said = [x \in Targets |-> IF x \in DOMAIN content.targets
                                 THEN Lines(Parsed(content.targets[x])) ELSE None],
     !.choice = [x \in Targets |->
        IF x \in DOMAIN content.targets /\ content.targets[x].asks
           /\ history.said[x] = Lines(Parsed(content.targets[x]))
        THEN @[x] ELSE None]]

RequestSaid(r) ==
  CASE r.op \in {"add", "addInMemory"} ->
         [history EXCEPT !.said[r.target] = Lines(Described(r)), !.choice[r.target] = None]
    [] r.op = "remove" -> [history EXCEPT !.said[r.target] = None, !.choice[r.target] = None]
    [] r.op = "update" -> [history EXCEPT !.choice[r.target] =
                             IF r.fields.deadline = Keep THEN @ ELSE <<r.fields.deadline>>]

\* Open incidents nobody asks about, by one of the ways the code leaves them:
\* a target taken on with one open, or a store that failed to resolve it.
StillOrphaned(among) ==
  {x \in history.orphaned \cup among : x \in overdue' /\ x \in Unasked(config')}

Taken(r, o) ==
  IF o.was = "failed" THEN Targets
  ELSE IF r.op \in {"add", "addInMemory"} THEN {r.target} ELSE {}

-----------------------------------------------------------------------------
(* Life of the process, and the file it was started with *)

Empty == [targets |-> [x \in {} |-> None], follow |-> FALSE, retention |-> 0]

Unknown == [stamp |-> None, error |-> FALSE]
Stopped == [pc |-> "idle", data |-> None]
Waiting == [pc |-> "idle", request |-> None, data |-> None, result |-> 0]

Init ==
  /\ now = 1
  /\ disk \in [content : Contents, version : {0}]
  /\ process = "down"
  /\ config = Empty /\ revision = 0 /\ known = Unknown /\ loop = Stopped
  /\ caller = [c \in Callers |-> Waiting]
  /\ answers = [k \in {} |-> 0]
  /\ overdue = {}
  /\ spent = [asks |-> 0, restarts |-> 0, faults |-> 0]
  /\ history = [got |-> None, missed |-> {}, orphaned |-> {},
                choice |-> [x \in Targets |-> None], said |-> [x \in Targets |-> None],
                applied |-> [k \in Keys |-> 0], excused |-> {}]

Advance ==
  /\ now < MaxTime
  /\ now' = now + 1
  /\ UNCHANGED <<disk, process, memory, caller, answers, overdue, spent, history>>

Save(content) ==
  /\ disk.version < MaxEdits
  /\ disk' = [content |-> content, version |-> disk.version + 1]
  /\ UNCHANGED <<now, process, memory, caller, answers, overdue, spent, history>>

\* serve reads the file before it starts the daemon.
Load ==
  /\ process = "down"
  /\ disk.content \in Contents
  /\ process' = "loaded"
  /\ loop' = [Stopped EXCEPT !.data = disk.content]
  /\ history' = [history EXCEPT !.got = disk.version]
  /\ UNCHANGED <<now, disk, config, revision, known, caller, answers, overdue, spent>>

\* Start takes the targets on and notes the file's stamp, as it is now.
Start ==
  /\ process = "loaded"
  /\ process' = "up"
  /\ config' = Synced(Empty, loop.data, now)
  /\ revision' = 0
  /\ known' = [stamp |-> disk.version, error |-> FALSE]
  /\ loop' = [pc |-> "follow", data |-> None]
  /\ UNCHANGED <<now, disk, caller, answers, overdue, spent>>
  /\ history' = [FileSaid(loop.data) EXCEPT
       !.missed = IF disk.version # history.got THEN @ \cup {disk.version} ELSE @,
       !.orphaned = StillOrphaned(Targets),
       !.choice = [x \in Targets |-> None]]

Crash ==
  /\ process # "down"
  /\ spent.restarts < MaxRestarts
  /\ spent' = [spent EXCEPT !.restarts = @ + 1]
  /\ process' = "down"
  /\ config' = Empty /\ revision' = 0 /\ known' = Unknown /\ loop' = Stopped
  /\ caller' = [c \in Callers |-> Waiting]
  /\ history' = [history EXCEPT
       !.orphaned = {}, !.choice = [x \in Targets |-> None],
       !.applied = [k \in Keys |-> IF k \in DOMAIN answers THEN @[k] ELSE 0]]
  /\ UNCHANGED <<now, disk, answers, overdue>>

-----------------------------------------------------------------------------
(* The loop: follow the file, then observe *)

FollowFile ==
  /\ loop.pc = "follow"
  /\ LET changed == config.follow /\ disk.version # known.stamp
     IN  /\ loop' = [loop EXCEPT !.pc = IF changed THEN "read" ELSE "tick"]
         /\ known' = IF changed THEN [known EXCEPT !.stamp = disk.version] ELSE known
  /\ UNCHANGED <<now, disk, process, config, revision, caller, answers, overdue, spent, history>>

MayFail(was) ==
  IF was = "failed"
  THEN spent.faults < MaxFaults /\ spent' = [spent EXCEPT !.faults = @ + 1]
  ELSE UNCHANGED spent

\* A read that fails is noted, and the save it was of is not read again.
ReadFile ==
  /\ loop.pc = "read"
  /\ \/ /\ loop' = [pc |-> "sync", data |-> disk.content]
        /\ history' = [history EXCEPT !.got = disk.version]
        /\ UNCHANGED <<known, spent>>
     \/ /\ MayFail("failed")
        /\ loop' = [loop EXCEPT !.pc = "tick"]
        /\ known' = [known EXCEPT !.error = TRUE]
        /\ history' = [history EXCEPT !.missed = @ \cup {known.stamp}]
  /\ UNCHANGED <<now, disk, process, config, revision, caller, answers, overdue>>

\* The stamp taken again once the file has been applied.
NoteSyncStamps(was) ==
  known' = [stamp |-> disk.version, error |-> was \in {"refused", "failed"}]

NoteSync(was) == known' = [known EXCEPT !.error = was \in {"refused", "failed"}]

ApplyFile ==
  /\ loop.pc = "sync"
  /\ loop' = [pc |-> "tick", data |-> None]
  /\ \E o \in Sync(loop.data) :
       /\ MayFail(o.was)
       /\ config' = o.config /\ overdue' = o.overdue
       /\ revision' = IF o.was = "changed" THEN revision + 1 ELSE revision
       /\ NoteSync(o.was)
       /\ history' = [(IF o.was = "refused" THEN history ELSE FileSaid(loop.data)) EXCEPT
                        !.orphaned = StillOrphaned(IF o.was = "failed" THEN Targets ELSE {})]
  /\ UNCHANGED <<now, disk, process, caller, answers>>

\* The pass, for overdue only: a policy that does not ask is left alone.
Tick ==
  /\ loop.pc = "tick"
  /\ loop' = [loop EXCEPT !.pc = "follow"]
  /\ \E exited \in SUBSET Targets :
       LET asked == DOMAIN config.targets \ Unasked(config)
           late == {x \in asked : LET d == config.targets[x].policy.deadline
                                  IN  d # 0 /\ d <= now /\ x \notin exited}
       IN  overdue' = (overdue \ asked) \cup late
  /\ UNCHANGED <<now, disk, process, config, revision, known, caller, answers, spent>>
  /\ history' = [history EXCEPT !.orphaned = StillOrphaned({})]

-----------------------------------------------------------------------------
(* Requests *)

InFlight(k) == {c \in Callers : caller[c].pc # "idle" /\ caller[c].request.key = k}

\* priorResult is asked before anything is locked.  One that is found is the reply.
AskUnchecked(c, r) ==
  /\ process = "up" /\ caller[c].pc = "idle"
  /\ spent.asks < MaxAsks
  /\ spent' = [spent EXCEPT !.asks = @ + 1]
  /\ caller' = [caller EXCEPT ![c] =
       [pc |-> IF r.content = FromFile THEN "read" ELSE "due",
        request |-> r, data |-> r.content, result |-> 0]]
  /\ history' = [history EXCEPT !.excused = @ \cup IF InFlight(r.key) = {} THEN {} ELSE {r.key}]
  /\ UNCHANGED <<now, disk, process, memory, answers, overdue>>

Ask(c, r) ==
  /\ process = "up" /\ caller[c].pc = "idle"
  /\ spent.asks < MaxAsks
  /\ spent' = [spent EXCEPT !.asks = @ + 1]
  /\ caller' = IF r.key \in DOMAIN answers THEN caller
               ELSE [caller EXCEPT ![c] =
                      [pc |-> IF r.content = FromFile THEN "read" ELSE "due",
                       request |-> r, data |-> r.content, result |-> 0]]
  /\ history' = [history EXCEPT !.excused = @ \cup IF InFlight(r.key) = {} THEN {} ELSE {r.key}]
  /\ UNCHANGED <<now, disk, process, memory, answers, overdue>>

ReadForSync(c) ==
  /\ caller[c].pc = "read"
  /\ \/ /\ caller' = [caller EXCEPT ![c].pc = "due", ![c].data = disk.content]
        /\ history' = [history EXCEPT !.got = disk.version]
        /\ UNCHANGED spent
     \/ /\ MayFail("failed")
        /\ caller' = [caller EXCEPT ![c] = Waiting]
        /\ UNCHANGED history
  /\ UNCHANGED <<now, disk, process, memory, answers, overdue>>

\* The first answer of a key is the one kept; a store that fails keeps none.
RememberResult(k, result, h) ==
  \/ /\ k = NoKey
     /\ history' = h
     /\ UNCHANGED <<answers, spent>>
  \/ /\ k # NoKey
     /\ answers' = IF k \in DOMAIN answers THEN answers ELSE Overridden(answers, k, result)
     /\ history' = h
     /\ UNCHANGED spent
  \/ /\ k # NoKey
     /\ MayFail("failed")
     /\ history' = [h EXCEPT !.excused = @ \cup {k}]
     /\ UNCHANGED answers

Counted(h, k, was) ==
  IF was = "changed" /\ k # NoKey THEN [h EXCEPT !.applied[k] = @ + 1] ELSE h

Change(c) ==
  /\ caller[c].pc = "due"
  /\ LET r == caller[c].request
     IN  \E o \in Outcomes(r, caller[c].data) :
           LET done == o.was \in {"changed", "same"}
               said == IF o.was = "refused" THEN history
                       ELSE IF r.op = "sync" THEN FileSaid(caller[c].data) ELSE RequestSaid(r)
               h == [Counted(said, r.key, o.was) EXCEPT !.orphaned = StillOrphaned(Taken(r, o))]
           IN  /\ config' = o.config /\ overdue' = o.overdue
               /\ revision' = IF o.was = "changed" THEN revision + 1 ELSE revision
               /\ IF r.content = FromFile THEN NoteSync(o.was) ELSE UNCHANGED known
               /\ \/ /\ done /\ r.op # "sync"
                     /\ caller' = [caller EXCEPT ![c] = Waiting]
                     /\ RememberResult(r.key, revision', h)
                  \/ /\ done /\ r.op = "sync"
                     /\ caller' = [caller EXCEPT ![c].pc = "answer", ![c].result = revision']
                     /\ history' = h
                     /\ UNCHANGED <<answers, spent>>
                  \/ /\ ~done
                     /\ caller' = [caller EXCEPT ![c] = Waiting]
                     /\ history' = h
                     /\ MayFail(o.was)
                     /\ UNCHANGED answers
  /\ UNCHANGED <<now, disk, process, loop>>

Remember(c) ==
  /\ caller[c].pc = "answer"
  /\ caller' = [caller EXCEPT ![c] = Waiting]
  /\ RememberResult(caller[c].request.key, caller[c].result, history)
  /\ UNCHANGED <<now, disk, process, memory, overdue>>

Loop == FollowFile \/ ReadFile \/ ApplyFile \/ Tick

Next ==
  \/ Advance
  \/ \E content \in Contents \cup {Broken} : Save(content)
  \/ Load \/ Start \/ Crash
  \/ Loop
  \/ \E c \in Callers :
       \/ \E r \in Requests : Ask(c, r)
       \/ ReadForSync(c) \/ Change(c) \/ Remember(c)

\* The ticker never stops while the process lives, and the lock is a fair one.
Spec == Init /\ [][Next]_vars /\ WF_vars(Loop)

-----------------------------------------------------------------------------
(* Properties *)

Policy == [asks : BOOLEAN, deadline : Nat, after : Nat, written : Nat,
           byUpdate : BOOLEAN, quiet : Nat]

\* Every variable has its type; what is watched was taken on by now.
TypeOK ==
  /\ now \in 1..MaxTime
  /\ disk \in [content : Contents \cup {Broken}, version : 0..MaxEdits]
  /\ process \in {"down", "loaded", "up"}
  /\ DOMAIN config.targets \subseteq Targets
  /\ \A x \in DOMAIN config.targets :
       config.targets[x] \in [policy : Policy, added : 1..now]
  /\ revision \in Nat
  /\ known.stamp \in 0..disk.version \cup {None} /\ known.error \in BOOLEAN
  /\ loop.pc \in {"idle", "follow", "read", "sync", "tick"}
  /\ \A c \in Callers : caller[c].pc \in {"idle", "read", "due", "answer"}
  /\ DOMAIN answers \subseteq Keys
  /\ overdue \subseteq Targets

\* "Repeating a request with the same key returns the original result instead of
\* applying the change again" (docs/cli.md, Idempotency), over lost answers, a
\* restart and other changes in between - except while the first is still being
\* served, or when the store lost its answer.
AppliedOnce == \A k \in Keys : history.applied[k] > 1 => k \in history.excused

\* "A repeat sync of the same file changes nothing" (docs/cli.md, watch sync),
\* now or later: it pushes no relative deadline back and undoes no update, as
\* long as no override lapses meanwhile.
SyncIsIdempotent ==
  \A content \in Contents, later \in now..MaxTime :
    LET once == Synced(config, content, now)
    IN  (\A x \in DOMAIN once.targets : once.targets[x].policy.quiet \notin now + 1..later)
        => Synced(once, content, later) = once

\* "One moved or cleared with watch update stays that way while the file's
\* deadline is what it was" (docs/cli.md), through any syncs and other updates.
ChoiceInForce ==
  \A x \in Targets :
    history.choice[x] # None =>
      x \in DOMAIN config.targets /\ <<config.targets[x].policy.deadline>> = history.choice[x]

\* A deadline neither a file nor an update wrote: an addition in memory did, and a
\* sync has since taken it for the one of a file that says nothing of it.
Unwritten(policy) == ~policy.byUpdate /\ policy.written = 0 /\ policy.after = 0

\* No deadline in force that a file or an update wrote is one that could never
\* alert, however updates, syncs and additions combine into a policy none of them
\* wrote.  One added in memory may be: a sync of a file that says no deadline keeps it.
DeadlineCanAlert ==
  \A x \in DOMAIN config.targets :
    LET p == config.targets[x].policy
    IN  p.deadline # 0 => p.asks \/ Unwritten(p)

\* Dropping overdue from alert_on leaves no open overdue incident behind: one is
\* open unasked only on a target taken on with it, or after a store failure.
OverdueIsAskedOrTakenOn == overdue \cap Unasked(config) \subseteq history.orphaned

\* A file that is followed is read after every save, or after a later one, while
\* the daemon lives - except a save between a start's read and its stamp, which
\* daemon.Start takes for "the file as it was when the configuration was read", and
\* one whose read failed, which "is not retried until it changes again" (sync.go).
FileFollowed ==
  \A v \in 0..MaxEdits :
    (process = "up" /\ config.follow /\ disk.version = v)
      ~> \/ history.got = v \/ disk.version # v \/ v \in history.missed
         \/ process # "up" \/ ~config.follow
=============================================================================
