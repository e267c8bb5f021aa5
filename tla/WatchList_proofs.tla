-------------------------- MODULE WatchList_proofs --------------------------
(***************************************************************************)
(* Proofs about WatchList, for any files and requests that the parser      *)
(* admits, any number of targets, callers and keys, and any bounds.        *)
(***************************************************************************)
EXTENDS WatchList, TLAPS

-----------------------------------------------------------------------------
(* Policies.                                                                *)

\* A deadline in force can alert, or is one given in memory.
PolicySound(p) == p.deadline # 0 => p.asks \/ Unwritten(p)

Watched == [policy : Policy, added : Nat \ {0}]

\* What a file says of a target, before its deadline is resolved.
FromEntry(p, entry) ==
  /\ p \in Policy
  /\ p.asks = entry.asks /\ p.deadline = entry.deadline /\ p.after = entry.after
  /\ p.written = entry.deadline /\ p.byUpdate = FALSE

LEMMA ParsedIs ==
  ASSUME NEW entry \in Entries
  PROVE  FromEntry(Parsed(entry), entry) /\ Parsed(entry).quiet = entry.quiet
BY DEF Entries, Parsed, Policy, FromEntry

\* What is taken on, before its deadline is resolved.
Unresolved(f) ==
  /\ f \in Policy /\ f.byUpdate = FALSE
  /\ f.deadline # 0 \/ f.after > 0 => f.asks

LEMMA EntryUnresolved ==
  ASSUME NEW entry \in Entries, NEW f, FromEntry(f, entry)
  PROVE  Unresolved(f)
BY DEF Entries, FromEntry, Unresolved

LEMMA DescribedUnresolved ==
  ASSUME NEW r, r.entry \in Entries
  PROVE  Unresolved(Described(r))
<1>1. FromEntry(Parsed(r.entry), r.entry) /\ Unresolved(Parsed(r.entry))
  BY ParsedIs, EntryUnresolved
<1>2. Unresolved(InMemory(r.entry))
  <2> DEFINE f == Parsed(r.entry)
             g == InMemory(r.entry)
  <2>1. g = [f EXCEPT !.after = 0, !.written = 0] /\ f \in Policy
    BY <1>1 DEF InMemory, Unresolved
  <2> HIDE DEF f, g
  <2>2. g \in Policy /\ g.asks = f.asks /\ g.deadline = f.deadline
        /\ g.byUpdate = f.byUpdate /\ g.after = 0
    BY <2>1 DEF Policy
  <2>3. QED
    BY <1>1, <2>2 DEF Unresolved, f, g
<1>3. QED
  BY <1>1, <1>2 DEF Described

LEMMA OverrideIs ==
  ASSUME NEW entry \in Entries, NEW p \in Policy, NEW t \in Nat
  PROVE  LET k == KeepRuntimeOverride(Parsed(entry), p, t)
         IN  /\ FromEntry(k, entry)
             /\ k.quiet = IF entry.quiet = 0 /\ t < p.quiet THEN p.quiet ELSE entry.quiet
<1> DEFINE f == Parsed(entry)
<1>1. FromEntry(f, entry) /\ f.quiet = entry.quiet
  BY ParsedIs
<1>2. KeepRuntimeOverride(f, p, t) =
        IF f.quiet = 0 /\ t < p.quiet THEN [f EXCEPT !.quiet = p.quiet] ELSE f
  BY DEF KeepRuntimeOverride
<1> HIDE DEF f
<1>3. CASE f.quiet = 0 /\ t < p.quiet
  BY <1>1, <1>2, <1>3 DEF FromEntry, Policy, f
<1>4. CASE ~(f.quiet = 0 /\ t < p.quiet)
  BY <1>1, <1>2, <1>4 DEF f
<1>5. QED
  BY <1>3, <1>4

\* A relative deadline runs from the moment the target was taken on.
LEMMA ResolvedIs ==
  ASSUME NEW f, Unresolved(f), NEW t \in Nat \ {0}
  PROVE  LET p == ResolveDeadline(f, t)
         IN  /\ p \in Policy /\ PolicySound(p)
             /\ p.asks = f.asks /\ p.quiet = f.quiet /\ p.after = f.after
             /\ p.written = f.written /\ p.byUpdate = FALSE
             /\ p = [f EXCEPT !.deadline = p.deadline]
<1>1. CASE f.after > 0 /\ f.deadline = 0
  <2>1. ResolveDeadline(f, t) = [f EXCEPT !.deadline = t + f.after]
    BY <1>1 DEF ResolveDeadline
  <2>2. t + f.after \in Nat
    BY DEF Unresolved, Policy
  <2>3. QED
    BY <1>1, <2>1, <2>2 DEF Unresolved, Policy, PolicySound
<1>2. CASE ~(f.after > 0 /\ f.deadline = 0)
  <2>1. ResolveDeadline(f, t) = f
    BY <1>2 DEF ResolveDeadline
  <2>2. f = [f EXCEPT !.deadline = f.deadline]
    BY DEF Unresolved, Policy
  <2>3. QED
    BY <2>1, <2>2 DEF Unresolved, PolicySound
<1>3. QED
  BY <1>1, <1>2

IsTakenOn(f, t, w) ==
  /\ w \in Watched /\ PolicySound(w.policy) /\ w.added = t
  /\ w.policy.asks = f.asks /\ w.policy.quiet = f.quiet
  /\ w.policy.after = f.after /\ w.policy.written = f.written
  /\ w.policy.byUpdate = FALSE

LEMMA TakenOnIs ==
  ASSUME NEW f, Unresolved(f), NEW t \in Nat \ {0}
  PROVE  IsTakenOn(f, t, TakenOn(f, t))
<1> DEFINE p == ResolveDeadline(f, t)
<1>1. /\ p \in Policy /\ PolicySound(p)
      /\ p.asks = f.asks /\ p.quiet = f.quiet /\ p.after = f.after
      /\ p.written = f.written /\ p.byUpdate = FALSE
  BY ResolvedIs
<1>2. TakenOn(f, t) = [policy |-> p, added |-> t]
  BY DEF TakenOn
<1> HIDE DEF p
<1>3. QED
  BY <1>1, <1>2 DEF Watched, IsTakenOn

\* What a sync leaves of a deadline: the file's, unless the file's lines for it are
\* what they were.  Then the one in force stays, except that one chosen by an
\* update does not outlive a file that stopped asking.
IsKept(entry, f, p, k) ==
  /\ k \in Policy /\ PolicySound(k)
  /\ k.asks = f.asks /\ k.quiet = f.quiet /\ k.after = f.after /\ k.written = f.written
  /\ <<entry.after, entry.deadline>> = <<p.after, p.written>> /\ entry.asks =>
       k.deadline = p.deadline /\ k.byUpdate = p.byUpdate

LEMMA KeptDeadline ==
  ASSUME NEW entry \in Entries, NEW f, FromEntry(f, entry),
         NEW p \in Policy, PolicySound(p), NEW t \in Nat \ {0}
  PROVE  IsKept(entry, f, p, KeepDeadline(f, p, t))
<1> DEFINE k == KeepDeadline(f, p, t)
<1>1. CASE <<f.after, f.written>> # <<p.after, p.written>>
  <2> DEFINE q == ResolveDeadline(f, t)
  <2>1. k = q
    BY <1>1 DEF KeepDeadline
  <2>2. /\ q \in Policy /\ PolicySound(q)
        /\ q.asks = f.asks /\ q.quiet = f.quiet /\ q.after = f.after
        /\ q.written = f.written /\ q.byUpdate = FALSE
        /\ q = [f EXCEPT !.deadline = q.deadline]
    BY EntryUnresolved, ResolvedIs
  <2> HIDE DEF q, k
  <2>4. <<entry.after, entry.deadline>> # <<p.after, p.written>>
    BY <1>1 DEF FromEntry
  <2>5. QED
    BY <2>1, <2>2, <2>4 DEF k, IsKept
<1>2. CASE /\ <<f.after, f.written>> = <<p.after, p.written>>
           /\ p.byUpdate /\ p.deadline # 0 /\ ~f.asks
  <2>1. k = f
    BY <1>2 DEF KeepDeadline
  <2>3. entry.deadline = 0 /\ ~entry.asks
    BY <1>2 DEF Entries, FromEntry
  <2> HIDE DEF k
  <2>4. QED
    BY <2>1, <2>3 DEF k, FromEntry, PolicySound, IsKept
<1>3. CASE /\ <<f.after, f.written>> = <<p.after, p.written>>
           /\ ~(p.byUpdate /\ p.deadline # 0 /\ ~f.asks)
  <2>1. k = [f EXCEPT !.deadline = p.deadline, !.byUpdate = p.byUpdate]
    BY <1>3 DEF KeepDeadline
  <2> HIDE DEF k
  <2>2. /\ k \in Policy /\ k.deadline = p.deadline /\ k.byUpdate = p.byUpdate
        /\ k.asks = f.asks /\ k.quiet = f.quiet /\ k.after = f.after /\ k.written = f.written
    BY <2>1 DEF FromEntry, Policy
  <2>3. p.byUpdate \in BOOLEAN /\ f.after \in Nat /\ f.written \in Nat
    BY DEF FromEntry, Policy
  <2>6. p.deadline # 0 /\ ~f.asks => ~p.byUpdate /\ f.after = 0 /\ f.written = 0
    <3>1. ~f.asks => ~(f.deadline # 0 \/ f.after > 0)
      BY EntryUnresolved DEF Unresolved
    <3>2. f.written = f.deadline
      BY DEF FromEntry
    <3>3. QED
      BY <1>3, <2>3, <3>1, <3>2
  <2>4. PolicySound(k)
    BY <2>2, <2>6 DEF PolicySound, Unwritten
  <2>5. QED
    BY <1>3, <2>1, <2>2, <2>4 DEF k, IsKept
<1>4. QED
  BY <1>1, <1>2, <1>3

\* What a sync leaves of a target it keeps.
IsResynced(entry, w, t, r) ==
  /\ r \in Watched /\ PolicySound(r.policy) /\ r.added = w.added
  /\ r.policy.after = entry.after /\ r.policy.written = entry.deadline
  /\ r.policy.asks = entry.asks
  /\ r.policy.quiet = IF entry.quiet = 0 /\ t < w.policy.quiet
                      THEN w.policy.quiet ELSE entry.quiet
  /\ <<entry.after, entry.deadline>> = <<w.policy.after, w.policy.written>> /\ entry.asks =>
       r.policy.deadline = w.policy.deadline /\ r.policy.byUpdate = w.policy.byUpdate

LEMMA ResyncedIs ==
  ASSUME NEW entry \in Entries, NEW w \in Watched, PolicySound(w.policy), NEW t \in Nat
  PROVE  IsResynced(entry, w, t, Resynced(entry, w, t))
<1> DEFINE p == w.policy
           f == KeepRuntimeOverride(Parsed(entry), p, t)
           k == KeepDeadline(f, p, w.added)
           r == Resynced(entry, w, t)
<1>1. /\ p \in Policy /\ PolicySound(p) /\ w.added \in Nat \ {0}
      /\ w = [policy |-> p, added |-> w.added]
  BY DEF Watched
<1>2. /\ FromEntry(f, entry)
      /\ f.quiet = IF entry.quiet = 0 /\ t < p.quiet THEN p.quiet ELSE entry.quiet
  BY <1>1, OverrideIs
<1>3. r = [w EXCEPT !.policy = k]
  BY DEF Resynced
<1>4. IsKept(entry, f, p, k)
  <2> HIDE DEF p, f, k, r
  <2>1. IsKept(entry, f, p, KeepDeadline(f, p, w.added))
    BY <1>1, <1>2, KeptDeadline
  <2>2. QED
    BY <2>1 DEF k
<1> HIDE DEF k, r, f
<1>5. r.policy = k /\ r.added = w.added /\ r \in Watched
  BY <1>1, <1>3, <1>4 DEF Watched, IsKept
<1>6. IsResynced(entry, w, t, r)
  BY <1>2, <1>4, <1>5 DEF FromEntry, IsKept, IsResynced
<1>7. QED
  BY <1>6 DEF r

\* An update that leaves a deadline nobody is alerted of is refused.
LEMMA UpdatedIs ==
  ASSUME NEW p \in Policy, PolicySound(p), NEW fields,
         fields.asks \in BOOLEAN \cup {Keep},
         {fields.deadline, fields.quiet} \subseteq Nat \cup {Keep},
         ValidateDeadline(ApplyPolicyUpdate(p, fields))
  PROVE  LET q == ApplyPolicyUpdate(p, fields)
         IN  /\ q \in Policy /\ PolicySound(q)
             /\ q.after = p.after /\ q.written = p.written
             /\ fields.deadline = Keep => q.deadline = p.deadline /\ q.byUpdate = p.byUpdate
             /\ fields.deadline # Keep => q.deadline = fields.deadline /\ q.byUpdate = TRUE
<1> DEFINE q == ApplyPolicyUpdate(p, fields)
<1>1. q = [p EXCEPT !.asks = Chosen(fields.asks, p.asks),
                    !.quiet = Chosen(fields.quiet, p.quiet),
                    !.deadline = Chosen(fields.deadline, p.deadline),
                    !.byUpdate = p.byUpdate \/ fields.deadline # Keep]
  BY DEF ApplyPolicyUpdate
<1>2. /\ Chosen(fields.asks, p.asks) \in BOOLEAN
      /\ Chosen(fields.quiet, p.quiet) \in Nat /\ Chosen(fields.deadline, p.deadline) \in Nat
      /\ (p.byUpdate \/ fields.deadline # Keep) \in BOOLEAN
  BY DEF Chosen, Policy
<1>3. ValidateDeadline(q)
  OBVIOUS
<1> HIDE DEF q
<1>4. /\ q \in Policy /\ q.after = p.after /\ q.written = p.written
      /\ q.deadline = Chosen(fields.deadline, p.deadline)
      /\ q.byUpdate = (p.byUpdate \/ fields.deadline # Keep)
  BY <1>1, <1>2 DEF Policy
<1>5. p.byUpdate \in BOOLEAN
  BY DEF Policy
<1>6. PolicySound(q)
  BY <1>3, <1>4, <1>5 DEF PolicySound, ValidateDeadline, Chosen
<1>7. QED
  BY <1>4, <1>5, <1>6 DEF Chosen, q

-----------------------------------------------------------------------------
(* Configurations.                                                          *)

\* What a valid file holds.
FileSound(c) ==
  /\ c = [targets |-> c.targets, follow |-> c.follow, retention |-> c.retention]
  /\ DOMAIN c.targets \subseteq Targets
  /\ \A x \in DOMAIN c.targets : c.targets[x] \in Entries

\* What may be in force.
ConfigSound(c) ==
  /\ c = [targets |-> c.targets, follow |-> c.follow, retention |-> c.retention]
  /\ DOMAIN c.targets \subseteq Targets
  /\ \A x \in DOMAIN c.targets :
       c.targets[x] \in Watched /\ PolicySound(c.targets[x].policy)

IsSynced(c, content, t, s) ==
  /\ ConfigSound(s)
  /\ s.follow = content.follow /\ s.retention = content.retention
  /\ DOMAIN s.targets = DOMAIN content.targets
  /\ \A x \in DOMAIN content.targets :
       IF x \in DOMAIN c.targets
       THEN /\ s.targets[x] = Resynced(content.targets[x], c.targets[x], t)
            /\ IsResynced(content.targets[x], c.targets[x], t, s.targets[x])
       ELSE IsTakenOn(Parsed(content.targets[x]), t, s.targets[x])

LEMMA SyncedIs ==
  ASSUME NEW c, ConfigSound(c), NEW content, FileSound(content), NEW t \in Nat \ {0}
  PROVE  IsSynced(c, content, t, Synced(c, content, t))
<1> DEFINE list == [x \in DOMAIN content.targets |->
                      IF x \in DOMAIN c.targets
                      THEN Resynced(content.targets[x], c.targets[x], t)
                      ELSE TakenOn(Parsed(content.targets[x]), t)]
           s == Synced(c, content, t)
<1>1. content = [targets |-> content.targets, follow |-> content.follow,
                 retention |-> content.retention]
  BY DEF FileSound
<1>2. s = [content EXCEPT !.targets = list]
  BY DEF Synced
<1>3. DOMAIN list = DOMAIN content.targets
  OBVIOUS
<1>4. ASSUME NEW x \in DOMAIN content.targets
      PROVE  /\ list[x] \in Watched /\ PolicySound(list[x].policy)
             /\ IF x \in DOMAIN c.targets
                THEN /\ list[x] = Resynced(content.targets[x], c.targets[x], t)
                     /\ IsResynced(content.targets[x], c.targets[x], t, list[x])
                ELSE IsTakenOn(Parsed(content.targets[x]), t, list[x])
  <2> DEFINE e == content.targets[x]
             w == c.targets[x]
  <2>1. e \in Entries
    BY DEF FileSound
  <2>2. CASE x \in DOMAIN c.targets
    <3>1. w \in Watched /\ PolicySound(w.policy)
      BY <2>2 DEF ConfigSound
    <3>2. IsResynced(e, w, t, Resynced(e, w, t))
      <4> HIDE DEF e, w
      <4>1. QED
        BY <2>1, <3>1, ResyncedIs
    <3>3. list[x] = Resynced(e, w, t)
      BY <2>2
    <3> HIDE DEF list
    <3>4. QED
      BY <2>2, <3>2, <3>3 DEF IsResynced
  <2>3. CASE x \notin DOMAIN c.targets
    <3>1. IsTakenOn(Parsed(e), t, TakenOn(Parsed(e), t))
      <4> HIDE DEF e
      <4>1. FromEntry(Parsed(e), e)
        BY <2>1, ParsedIs
      <4>2. Unresolved(Parsed(e))
        BY <2>1, <4>1, EntryUnresolved
      <4>3. QED
        BY <4>2, TakenOnIs
    <3>2. list[x] = TakenOn(Parsed(e), t)
      BY <2>3
    <3> HIDE DEF list
    <3>3. QED
      BY <2>3, <3>1, <3>2 DEF IsTakenOn
  <2>4. QED
    BY <2>2, <2>3
<1> HIDE DEF list, s
<1>5. s = [targets |-> list, follow |-> content.follow, retention |-> content.retention]
  BY <1>1, <1>2
<1>6. ConfigSound(s)
  <2>1. s.targets = list /\ DOMAIN content.targets \subseteq Targets
    BY <1>5 DEF FileSound
  <2>2. QED
    BY <1>3, <1>4, <1>5, <2>1 DEF ConfigSound
<1>7. IsSynced(c, content, t, s)
  BY <1>3, <1>4, <1>5, <1>6 DEF IsSynced
<1>8. QED
  BY <1>7 DEF s

\* A target synced again from the lines it was synced from is what it was.
LEMMA ResyncedTwice ==
  ASSUME NEW entry \in Entries, NEW r \in Watched, PolicySound(r.policy),
         NEW t \in Nat, NEW later \in Nat, t <= later,
         r.policy.after = entry.after, r.policy.written = entry.deadline,
         r.policy.asks = entry.asks,
         r.policy.quiet \notin (t + 1)..later,
         NEW q \in Nat,
         r.policy.quiet = (IF entry.quiet = 0 /\ t < q THEN q ELSE entry.quiet)
  PROVE  Resynced(entry, r, later) = r
<1> DEFINE p == r.policy
           f == KeepRuntimeOverride(Parsed(entry), p, later)
           k == KeepDeadline(f, p, r.added)
<1>1. /\ p \in Policy /\ r = [policy |-> p, added |-> r.added]
      /\ entry.quiet \in Nat /\ p.quiet \in Nat
  BY DEF Watched, Policy, Entries
<1>2. /\ FromEntry(f, entry)
      /\ f.quiet = IF entry.quiet = 0 /\ later < p.quiet THEN p.quiet ELSE entry.quiet
  BY <1>1, OverrideIs
<1>3. f.quiet = p.quiet
  BY <1>1, <1>2
<1>4. Resynced(entry, r, later) = [r EXCEPT !.policy = k]
  BY DEF Resynced
<1> HIDE DEF f
<1>5. /\ f.asks = p.asks /\ f.after = p.after /\ f.written = p.written
      /\ f \in Policy
  BY <1>2 DEF FromEntry
<1>6. k = [f EXCEPT !.deadline = p.deadline, !.byUpdate = p.byUpdate]
  <2>1. p.byUpdate \in BOOLEAN /\ ~(p.byUpdate /\ p.deadline # 0 /\ ~p.asks)
    BY <1>1 DEF PolicySound, Unwritten, Policy
  <2>2. QED
    BY <1>5, <2>1 DEF KeepDeadline
<1> HIDE DEF k, p
<1>7. k = p
  BY <1>1, <1>3, <1>5, <1>6 DEF Policy
<1>8. QED
  BY <1>1, <1>4, <1>7 DEF p

\* A file synced again, with no override lapsed in between, changes nothing.
LEMMA SyncedTwice ==
  ASSUME NEW c, ConfigSound(c), NEW content, FileSound(content),
         NEW t \in Nat \ {0}, NEW later \in Nat \ {0}, t <= later,
         \A x \in DOMAIN Synced(c, content, t).targets :
           Synced(c, content, t).targets[x].policy.quiet \notin (t + 1)..later
  PROVE  Synced(Synced(c, content, t), content, later) = Synced(c, content, t)
<1> DEFINE once == Synced(c, content, t)
           twice == Synced(once, content, later)
<1>1. IsSynced(c, content, t, once)
  BY SyncedIs
<1>2. \A x \in DOMAIN once.targets : once.targets[x].policy.quiet \notin (t + 1)..later
  OBVIOUS
<1> HIDE DEF once
<1>3. IsSynced(once, content, later, Synced(once, content, later))
  BY <1>1, SyncedIs DEF IsSynced
<1>4. IsSynced(once, content, later, twice)
  BY <1>3
<1>5. twice.targets = [x \in DOMAIN content.targets |-> twice.targets[x]]
  BY DEF Synced, FileSound
<1>6. once.targets = [x \in DOMAIN content.targets |-> once.targets[x]]
  BY DEF Synced, FileSound, once
<1> HIDE DEF twice
<1>7. ASSUME NEW x \in DOMAIN content.targets
      PROVE  twice.targets[x] = once.targets[x]
  <2> DEFINE e == content.targets[x]
             r == once.targets[x]
             w == c.targets[x]
  <2>1. e \in Entries /\ r \in Watched /\ PolicySound(r.policy)
    BY <1>1 DEF FileSound, ConfigSound, IsSynced
  <2>2. r.policy.quiet \notin (t + 1)..later
    BY <1>1, <1>2 DEF IsSynced
  <2>3. twice.targets[x] = Resynced(e, r, later)
    BY <1>1, <1>4 DEF IsSynced
  <2>4. /\ r.policy.after = e.after /\ r.policy.written = e.deadline
        /\ r.policy.asks = e.asks
    BY <1>1 DEF IsSynced, IsResynced, IsTakenOn, Entries, Parsed
  <2>5. PICK q \in Nat :
          r.policy.quiet = IF e.quiet = 0 /\ t < q THEN q ELSE e.quiet
    <3>1. CASE x \in DOMAIN c.targets
      <4>1. w.policy.quiet \in Nat
        BY <3>1 DEF ConfigSound, Watched, Policy
      <4>2. r.policy.quiet = IF e.quiet = 0 /\ t < w.policy.quiet
                             THEN w.policy.quiet ELSE e.quiet
        BY <1>1, <3>1 DEF IsSynced, IsResynced
      <4>3. QED
        BY <4>1, <4>2
    <3>2. CASE x \notin DOMAIN c.targets
      <4>1. r.policy.quiet = e.quiet
        BY <1>1, <3>2 DEF IsSynced, IsTakenOn, Parsed
      <4>2. r.policy.quiet = IF e.quiet = 0 /\ t < 0 THEN 0 ELSE e.quiet
        BY <4>1
      <4>3. QED
        BY <4>2
    <3>3. QED
      BY <3>1, <3>2
  <2> HIDE DEF e, r
  <2>6. Resynced(e, r, later) = r
    BY <2>1, <2>2, <2>4, <2>5, ResyncedTwice
  <2>7. QED
    BY <2>3, <2>6 DEF r
<1>8. twice.targets = once.targets
  BY <1>5, <1>6, <1>7
<1>9. once = [targets |-> once.targets, follow |-> once.follow, retention |-> once.retention]
      /\ twice = [targets |-> twice.targets, follow |-> twice.follow,
                  retention |-> twice.retention]
  BY <1>1, <1>4 DEF ConfigSound, IsSynced
<1>10. twice = once
  BY <1>1, <1>4, <1>8, <1>9 DEF IsSynced
<1>11. QED
  BY <1>10 DEF once, twice
-----------------------------------------------------------------------------
(* The invariant.                                                           *)

HistoryShape(h) ==
  /\ h = [got |-> h.got, missed |-> h.missed, orphaned |-> h.orphaned, choice |-> h.choice,
          said |-> h.said, applied |-> h.applied, excused |-> h.excused]
  /\ h.choice = [x \in Targets |-> h.choice[x]]
  /\ h.said = [x \in Targets |-> h.said[x]]
  /\ h.applied \in [Keys -> Nat]

LoopShape ==
  /\ loop = [pc |-> loop.pc, data |-> loop.data]
  /\ loop.pc \in {"idle", "follow", "read", "sync", "tick"}
  /\ process = "loaded" => loop.pc = "idle" /\ loop.data \in Contents
  /\ loop.pc = "sync" => loop.data \in Contents \cup {Broken}

\* A request under way is one of Requests, and a sync that is due has its file.
CallerShape(d) ==
  /\ DOMAIN d = {"pc", "request", "data", "result"}
  /\ d.pc \in {"idle", "read", "due", "answer"}
  /\ d.pc # "idle" => d.request \in Requests
  /\ d.pc = "due" /\ d.request.op = "sync" => d.data \in Contents \cup {Broken}

Types ==
  /\ now \in 1..MaxTime
  /\ disk \in [content : Contents \cup {Broken}, version : 0..MaxEdits]
  /\ process \in {"down", "loaded", "up"}
  /\ revision \in Nat
  /\ known \in [stamp : 0..disk.version \cup {None}, error : BOOLEAN]
  /\ LoopShape
  /\ caller = [c \in Callers |-> caller[c]]
  /\ \A c \in Callers : CallerShape(caller[c])
  /\ DOMAIN answers \subseteq Keys
  /\ overdue \subseteq Targets
  /\ HistoryShape(history)

AddedBy(c, t) == \A x \in DOMAIN c.targets : c.targets[x].added <= t

\* A choice is in force, and a policy's lines are those last said of its target.
ChoiceSound(c, h) ==
  \A x \in Targets :
    /\ h.choice[x] # None =>
         x \in DOMAIN c.targets /\ <<c.targets[x].policy.deadline>> = h.choice[x]
    /\ x \in DOMAIN c.targets =>
         h.said[x] = <<c.targets[x].policy.after, c.targets[x].policy.written>>

InForce ==
  /\ ConfigSound(config) /\ AddedBy(config, now)
  /\ ChoiceSound(config, history)
  /\ overdue \cap Unasked(config) \subseteq history.orphaned

Holds(c, k) == caller[c].pc # "idle" /\ caller[c].request.key = k

\* A key not excused is served by one caller at a time, not at all once applied,
\* and what was applied is answered or about to be.
Applying ==
  \A k \in Keys \ history.excused :
    /\ \A c, d \in Callers : Holds(c, k) /\ Holds(d, k) => c = d
    /\ \A c \in Callers :
         caller[c].pc \in {"read", "due"} /\ Holds(c, k) => history.applied[k] = 0
    /\ history.applied[k] \in {0, 1}
    /\ history.applied[k] = 1 =>
         k \in DOMAIN answers \/ \E c \in Callers : caller[c].pc = "answer" /\ Holds(c, k)

WInv == Types /\ InForce /\ Applying

-----------------------------------------------------------------------------
(* What an outcome keeps.                                                   *)

\* Of an outcome, the incidents it may leave unasked, and the history with it.
KeptBy(o, among, h) ==
  /\ o.was \in {"refused", "same", "changed", "failed"}
  /\ ConfigSound(o.config) /\ AddedBy(o.config, now) /\ ChoiceSound(o.config, h)
  /\ o.overdue \subseteq Targets
  /\ o.overdue \cap Unasked(o.config) \subseteq among \cup (overdue \cap Unasked(config))
  /\ HistoryShape(h)
  /\ h.applied = history.applied /\ h.excused = history.excused
  /\ h.orphaned = history.orphaned

LEMMA SyncedChoice ==
  ASSUME NEW c, ConfigSound(c), ChoiceSound(c, history), HistoryShape(history),
         NEW content, FileSound(content), NEW t \in Nat \ {0},
         NEW s, IsSynced(c, content, t, s)
  PROVE  ChoiceSound(s, FileSaid(content)) /\ HistoryShape(FileSaid(content))
<1> DEFINE said == [x \in Targets |-> IF x \in DOMAIN content.targets
                                      THEN Lines(Parsed(content.targets[x])) ELSE None]
           choice == [x \in Targets |->
              IF x \in DOMAIN content.targets /\ content.targets[x].asks
                 /\ history.said[x] = Lines(Parsed(content.targets[x]))
              THEN history.choice[x] ELSE None]
           h == FileSaid(content)
<1>1. h = [history EXCEPT !.said = said, !.choice = choice]
  BY DEF FileSaid
<1>2. said = [x \in Targets |-> said[x]] /\ choice = [x \in Targets |-> choice[x]]
  OBVIOUS
<1>3. ASSUME NEW x \in Targets
      PROVE  /\ choice[x] # None =>
                  x \in DOMAIN s.targets /\ <<s.targets[x].policy.deadline>> = choice[x]
             /\ x \in DOMAIN s.targets =>
                  said[x] = <<s.targets[x].policy.after, s.targets[x].policy.written>>
  <2>1. DOMAIN s.targets = DOMAIN content.targets
    BY DEF IsSynced
  <2>2. ASSUME x \in DOMAIN s.targets
        PROVE  said[x] = <<s.targets[x].policy.after, s.targets[x].policy.written>>
    BY <2>1, <2>2 DEF IsSynced, IsResynced, IsTakenOn, Lines, Parsed
  <2>3. ASSUME choice[x] # None
        PROVE  x \in DOMAIN s.targets /\ <<s.targets[x].policy.deadline>> = choice[x]
    <3>1. /\ x \in DOMAIN content.targets /\ content.targets[x].asks
          /\ history.said[x] = Lines(Parsed(content.targets[x]))
          /\ choice[x] = history.choice[x]
      BY <2>3
    <3> HIDE DEF choice
    <3>2. /\ x \in DOMAIN c.targets
          /\ <<c.targets[x].policy.deadline>> = history.choice[x]
          /\ history.said[x] = <<c.targets[x].policy.after, c.targets[x].policy.written>>
      BY <2>3, <3>1 DEF ChoiceSound
    <3>3. IsResynced(content.targets[x], c.targets[x], t, s.targets[x])
      BY <3>1, <3>2 DEF IsSynced
    <3>4. <<content.targets[x].after, content.targets[x].deadline>>
            = <<c.targets[x].policy.after, c.targets[x].policy.written>>
      BY <3>1, <3>2 DEF Lines, Parsed
    <3>5. s.targets[x].policy.deadline = c.targets[x].policy.deadline
      BY <3>1, <3>3, <3>4 DEF IsResynced
    <3>6. QED
      BY <2>1, <3>1, <3>2, <3>5
  <2>4. QED
    BY <2>2, <2>3
<1> HIDE DEF said, choice, h
<1>4. h.said = said /\ h.choice = choice /\ HistoryShape(h)
  BY <1>1, <1>2 DEF HistoryShape
<1>5. QED
  BY <1>3, <1>4 DEF ChoiceSound, h

LEMMA SyncKeeps ==
  ASSUME Types, InForce, NEW content \in Contents \cup {Broken}, NEW o \in Sync(content)
  PROVE  KeptBy(o, IF o.was = "failed" THEN Targets ELSE {},
                IF o.was = "refused" THEN history ELSE FileSaid(content))
<1>1. now \in Nat \ {0} /\ overdue \subseteq Targets /\ HistoryShape(history)
  BY WatchListAssumption DEF Types
<1>2. CASE content = Broken
  <2>1. o.was = "refused" /\ o.config = config /\ o.overdue = overdue
    BY <1>2 DEF Sync, Refused, Outcome
  <2>2. QED
    BY <1>1, <2>1 DEF KeptBy, InForce
<1>3. CASE content # Broken
  <2> DEFINE next == Synced(config, content, now)
             bare == Unasked(next) \cap DOMAIN next.targets
             failing == [next EXCEPT !.retention = config.retention]
  <2>1. FileSound(content)
    BY <1>3, ContentsAssumption DEF FileSound
  <2>2. IsSynced(config, content, now, next)
    BY <1>1, <2>1, SyncedIs DEF InForce
  <2>3. \/ /\ next = [config EXCEPT !.follow = content.follow]
           /\ o = Outcome(next, overdue, "same")
        \/ o = Outcome(next, overdue \ bare, "changed")
        \/ \E s \in SUBSET bare : o = Outcome(failing, overdue \ s, "failed")
    BY <1>3 DEF Sync, ResolveUnaskedOverdue
  <2>4. bare = Unasked(next)
    BY DEF Unasked
  <2> HIDE DEF next, bare, failing
  <2>5. AddedBy(next, now)
    BY <1>1, <2>2 DEF IsSynced, AddedBy, IsResynced, IsTakenOn, InForce
  <2>6. ChoiceSound(next, FileSaid(content)) /\ HistoryShape(FileSaid(content))
    BY <1>1, <2>1, <2>2, SyncedChoice DEF InForce
  <2>7. /\ FileSaid(content).applied = history.applied
        /\ FileSaid(content).excused = history.excused
        /\ FileSaid(content).orphaned = history.orphaned
    BY <1>1 DEF FileSaid, HistoryShape
  <2>8. ConfigSound(next)
    BY <2>2 DEF IsSynced
  <2>9. CASE /\ next = [config EXCEPT !.follow = content.follow]
             /\ o = Outcome(next, overdue, "same")
    <3>1. next.targets = config.targets
      BY <2>9 DEF InForce, ConfigSound
    <3>2. o.config = next /\ o.overdue = overdue /\ o.was = "same"
      BY <2>9 DEF Outcome
    <3>3. Unasked(next) = Unasked(config)
      BY <3>1 DEF Unasked
    <3>4. QED
      BY <1>1, <2>5, <2>6, <2>7, <2>8, <3>2, <3>3 DEF KeptBy
  <2>10. CASE o = Outcome(next, overdue \ bare, "changed")
    <3>1. o.config = next /\ o.overdue = overdue \ bare /\ o.was = "changed"
      BY <2>10 DEF Outcome
    <3>2. QED
      BY <1>1, <2>4, <2>5, <2>6, <2>7, <2>8, <3>1 DEF KeptBy
  <2>11. CASE \E s \in SUBSET bare : o = Outcome(failing, overdue \ s, "failed")
    <3>1. /\ o.config = failing /\ o.overdue \subseteq overdue /\ o.was = "failed"
      BY <2>11 DEF Outcome
    <3>2. failing.targets = next.targets /\ ConfigSound(failing)
      BY <2>8 DEF failing, ConfigSound
    <3>3. AddedBy(failing, now) /\ ChoiceSound(failing, FileSaid(content))
      BY <2>5, <2>6, <3>2 DEF AddedBy, ChoiceSound
    <3>4. QED
      BY <1>1, <2>6, <2>7, <3>1, <3>2, <3>3 DEF KeptBy
  <2>12. QED
    BY <2>3, <2>9, <2>10, <2>11
<1>4. QED
  BY <1>2, <1>3
\* What a request that is not a sync is taken to have said.
LEMMA RequestKeeps ==
  ASSUME Types, InForce, NEW r \in Requests,
         r.op = "sync" => FALSE,
         NEW data, NEW o \in Outcomes(r, data)
  PROVE  KeptBy(o, Taken(r, o), IF o.was = "refused" THEN history ELSE RequestSaid(r))
<1>1. now \in Nat \ {0} /\ overdue \subseteq Targets /\ HistoryShape(history)
  BY WatchListAssumption DEF Types
<1>2. /\ config = [targets |-> config.targets, follow |-> config.follow,
                   retention |-> config.retention]
      /\ DOMAIN config.targets \subseteq Targets
      /\ \A x \in DOMAIN config.targets :
           /\ config.targets[x] \in Watched /\ PolicySound(config.targets[x].policy)
           /\ config.targets[x].added <= now
  BY DEF InForce, ConfigSound, AddedBy
<1>3. ASSUME o \in Refused
      PROVE  KeptBy(o, Taken(r, o), IF o.was = "refused" THEN history ELSE RequestSaid(r))
  <2>1. o.was = "refused" /\ o.config = config /\ o.overdue = overdue
    BY <1>3 DEF Refused, Outcome
  <2>2. QED
    BY <1>1, <2>1 DEF KeptBy, InForce
<1>4. CASE r.op \in {"add", "addInMemory"}
  <2>1. r.target \in Targets /\ r.entry \in Entries /\ o \in WatchAdd(r)
    BY <1>4, RequestsAssumption DEF Outcomes
  <2>2. CASE r.target \in DOMAIN config.targets
    BY <1>3, <2>1, <2>2 DEF WatchAdd
  <2>3. CASE r.target \notin DOMAIN config.targets
    <3> DEFINE w == TakenOn(Described(r), now)
               list == Overridden(config.targets, r.target, w)
               c == [config EXCEPT !.targets = list]
               h == RequestSaid(r)
    <3>1. o.config = c /\ o.overdue = overdue /\ o.was = "changed"
      BY <2>1, <2>3 DEF WatchAdd, Outcome
    <3>2. IsTakenOn(Described(r), now, w)
      BY <1>1, <2>1, DescribedUnresolved, TakenOnIs
    <3>3. /\ DOMAIN list = DOMAIN config.targets \cup {r.target}
          /\ list[r.target] = w
          /\ \A x \in DOMAIN config.targets : x # r.target => list[x] = config.targets[x]
      BY DEF Overridden
    <3>4. h = [history EXCEPT !.said[r.target] = Lines(Described(r)), !.choice[r.target] = None]
      BY <1>4 DEF RequestSaid
    <3> HIDE DEF w, list, h
    <3>5. c.targets = list /\ c = [targets |-> list, follow |-> config.follow,
                                   retention |-> config.retention]
      BY <1>2
    <3> HIDE DEF c
    <3>6. /\ HistoryShape(h)
          /\ h.applied = history.applied /\ h.excused = history.excused
          /\ h.orphaned = history.orphaned
          /\ h.said[r.target] = Lines(Described(r)) /\ h.choice[r.target] = None
          /\ \A x \in Targets : x # r.target =>
               h.said[x] = history.said[x] /\ h.choice[x] = history.choice[x]
      BY <1>1, <2>1, <3>4 DEF HistoryShape
    <3>7. ConfigSound(c) /\ AddedBy(c, now)
      BY <1>1, <1>2, <2>1, <3>2, <3>3, <3>5 DEF ConfigSound, AddedBy, IsTakenOn
    <3>8. ChoiceSound(c, h)
      BY <2>1, <3>2, <3>3, <3>5, <3>6 DEF ChoiceSound, InForce, IsTakenOn, Lines
    <3>9. overdue \cap Unasked(c) \subseteq {r.target} \cup (overdue \cap Unasked(config))
      BY <3>3, <3>5 DEF Unasked
    <3>10. Taken(r, o) = {r.target}
      BY <1>4, <3>1 DEF Taken
    <3>11. QED
      BY <1>1, <3>1, <3>6, <3>7, <3>8, <3>9, <3>10 DEF KeptBy, h
  <2>4. QED
    BY <2>2, <2>3
<1>5. CASE r.op = "remove"
  <2>1. r.target \in Targets /\ o \in WatchRemove(r)
    BY <1>5, RequestsAssumption DEF Outcomes
  <2>2. CASE r.target \notin DOMAIN config.targets
    BY <1>3, <2>1, <2>2 DEF WatchRemove
  <2>3. CASE r.target \in DOMAIN config.targets
    <3> DEFINE list == Without(config.targets, r.target)
               c == [config EXCEPT !.targets = list]
               h == RequestSaid(r)
    <3>1. o.config = c /\ o.overdue = overdue /\ o.was = "changed"
      BY <2>1, <2>3 DEF WatchRemove, Outcome
    <3>3. /\ DOMAIN list = DOMAIN config.targets \ {r.target}
          /\ \A x \in DOMAIN config.targets : x # r.target => list[x] = config.targets[x]
      BY DEF Without
    <3>4. h = [history EXCEPT !.said[r.target] = None, !.choice[r.target] = None]
      BY <1>5 DEF RequestSaid
    <3> HIDE DEF list, h
    <3>5. c.targets = list /\ c = [targets |-> list, follow |-> config.follow,
                                   retention |-> config.retention]
      BY <1>2
    <3> HIDE DEF c
    <3>6. /\ HistoryShape(h)
          /\ h.applied = history.applied /\ h.excused = history.excused
          /\ h.orphaned = history.orphaned
          /\ h.choice[r.target] = None
          /\ \A x \in Targets : x # r.target =>
               h.said[x] = history.said[x] /\ h.choice[x] = history.choice[x]
      BY <1>1, <2>1, <3>4 DEF HistoryShape
    <3>7. ConfigSound(c) /\ AddedBy(c, now)
      BY <1>2, <3>3, <3>5 DEF ConfigSound, AddedBy
    <3>8. ChoiceSound(c, h)
      BY <2>1, <3>3, <3>5, <3>6 DEF ChoiceSound, InForce
    <3>9. overdue \cap Unasked(c) \subseteq overdue \cap Unasked(config)
      BY <3>3, <3>5 DEF Unasked
    <3>10. QED
      BY <1>1, <3>1, <3>6, <3>7, <3>8, <3>9 DEF KeptBy, h
  <2>4. QED
    BY <2>2, <2>3
<1>6. CASE r.op = "update"
  <2>1. /\ r.target \in Targets /\ o \in WatchUpdate(r)
        /\ r.fields.asks \in BOOLEAN \cup {Keep}
        /\ {r.fields.deadline, r.fields.quiet} \subseteq Nat \cup {Keep}
    BY <1>6, RequestsAssumption DEF Outcomes
  <2> DEFINE p == config.targets[r.target].policy
             q == ApplyPolicyUpdate(p, r.fields)
  <2>2. CASE r.target \notin DOMAIN config.targets \/ ~ValidateDeadline(q)
    BY <1>3, <2>1, <2>2 DEF WatchUpdate
  <2>3. CASE r.target \in DOMAIN config.targets /\ ValidateDeadline(q)
    <3> DEFINE c == [config EXCEPT !.targets[r.target].policy = q]
               bare == Unasked(c) \cap {r.target}
               h == RequestSaid(r)
               w == config.targets[r.target]
               list == [config.targets EXCEPT ![r.target] = [w EXCEPT !.policy = q]]
    <3>1. \/ o = Outcome(c, overdue \ bare, "changed")
          \/ \E s \in SUBSET bare : o = Outcome(c, overdue \ s, "failed")
      BY <2>1, <2>3 DEF WatchUpdate, ResolveUnaskedOverdue
    <3>2. /\ o.config = c /\ o.was \in {"changed", "failed"} /\ o.overdue \subseteq overdue
          /\ o.was = "changed" => o.overdue = overdue \ bare
      BY <3>1 DEF Outcome
    <3>3. p \in Policy /\ PolicySound(p) /\ w \in Watched /\ w.added <= now
      BY <1>2, <2>3 DEF Watched
    <3>4. /\ q \in Policy /\ PolicySound(q)
          /\ q.after = p.after /\ q.written = p.written
          /\ r.fields.deadline = Keep => q.deadline = p.deadline
          /\ r.fields.deadline # Keep => q.deadline = r.fields.deadline
      <4> DEFINE fields == r.fields
      <4> HIDE DEF p, fields
      <4>1. QED
        BY <2>1, <2>3, <3>3, UpdatedIs DEF fields
    <3>5. c = [config EXCEPT !.targets = list]
      OBVIOUS
    <3>6. h = [history EXCEPT !.choice[r.target] =
                 IF r.fields.deadline = Keep THEN history.choice[r.target]
                 ELSE <<r.fields.deadline>>]
      BY <1>6 DEF RequestSaid
    <3> HIDE DEF q, h
    <3>7. /\ DOMAIN list = DOMAIN config.targets
          /\ list[r.target] \in Watched /\ list[r.target].policy = q
          /\ list[r.target].added = w.added
          /\ \A x \in DOMAIN config.targets : x # r.target => list[x] = config.targets[x]
      BY <2>3, <3>3, <3>4 DEF Watched
    <3>8. w.policy = p
      OBVIOUS
    <3> HIDE DEF list, p, w, c
    <3>9. c.targets = list /\ c = [targets |-> list, follow |-> config.follow,
                                   retention |-> config.retention]
      BY <1>2, <3>5
    <3>10. /\ HistoryShape(h)
           /\ h.applied = history.applied /\ h.excused = history.excused
           /\ h.orphaned = history.orphaned
           /\ h.choice[r.target] = (IF r.fields.deadline = Keep THEN history.choice[r.target]
                                    ELSE <<r.fields.deadline>>)
           /\ h.said = history.said
           /\ \A x \in Targets : x # r.target => h.choice[x] = history.choice[x]
      BY <1>1, <2>1, <3>6 DEF HistoryShape
    <3>11. ConfigSound(c) /\ AddedBy(c, now)
      BY <1>2, <3>3, <3>4, <3>7, <3>9 DEF ConfigSound, AddedBy
    <3>12. ASSUME NEW x \in Targets
           PROVE  /\ h.choice[x] # None =>
                       x \in DOMAIN list /\ <<list[x].policy.deadline>> = h.choice[x]
                  /\ x \in DOMAIN list =>
                       h.said[x] = <<list[x].policy.after, list[x].policy.written>>
      <4>1. /\ history.choice[x] # None =>
                 /\ x \in DOMAIN config.targets
                 /\ <<config.targets[x].policy.deadline>> = history.choice[x]
            /\ x \in DOMAIN config.targets =>
                 history.said[x] = <<config.targets[x].policy.after,
                                     config.targets[x].policy.written>>
        BY DEF InForce, ChoiceSound
      <4>2. CASE x # r.target
        BY <3>7, <3>10, <4>1, <4>2
      <4>3. CASE x = r.target
        BY <2>3, <3>4, <3>7, <3>8, <3>10, <4>1, <4>3 DEF w
      <4>4. QED
        BY <4>2, <4>3
    <3>13. ChoiceSound(c, h)
      BY <3>9, <3>12 DEF ChoiceSound
    <3>14. o.overdue \cap Unasked(c) \subseteq Taken(r, o) \cup (overdue \cap Unasked(config))
      <4>1. CASE o.was = "failed"
        BY <1>1, <3>2, <4>1 DEF Taken
      <4>2. CASE o.was = "changed"
        <5>1. \A x \in Unasked(c) : x # r.target => x \in Unasked(config)
          BY <3>7, <3>9 DEF Unasked
        <5>2. QED
          BY <3>2, <4>2, <5>1
      <4>3. QED
        BY <3>2, <4>1, <4>2
    <3>15. QED
      BY <1>1, <3>2, <3>10, <3>11, <3>13, <3>14 DEF KeptBy, h
  <2>4. QED
    BY <2>2, <2>3
<1>7. QED
  BY <1>4, <1>5, <1>6, RequestsAssumption

\* The history of an outcome, before the request is counted.
Said(r, data, o) ==
  IF o.was = "refused" THEN history
  ELSE IF r.op = "sync" THEN FileSaid(data) ELSE RequestSaid(r)

LEMMA OutcomeKeeps ==
  ASSUME Types, InForce, NEW r \in Requests, NEW data,
         r.op = "sync" => data \in Contents \cup {Broken},
         NEW o \in Outcomes(r, data)
  PROVE  KeptBy(o, Taken(r, o), Said(r, data, o))
<1>1. CASE r.op = "sync"
  <2>1. o \in Sync(data) /\ data \in Contents \cup {Broken}
    BY <1>1 DEF Outcomes
  <2>2. KeptBy(o, IF o.was = "failed" THEN Targets ELSE {},
               IF o.was = "refused" THEN history ELSE FileSaid(data))
    BY <2>1, SyncKeeps
  <2>3. Taken(r, o) = IF o.was = "failed" THEN Targets ELSE {}
    BY <1>1 DEF Taken
  <2>4. QED
    BY <1>1, <2>2, <2>3 DEF Said
<1>2. CASE r.op # "sync"
  BY <1>2, RequestKeeps DEF Said
<1>3. QED
  BY <1>1, <1>2
-----------------------------------------------------------------------------
(* The steps.                                                               *)

LEMMA InitInv == Init => WInv
<1> SUFFICES ASSUME Init PROVE WInv
  OBVIOUS
<1>1. now = 1 /\ now \in 1..MaxTime
  BY WatchListAssumption DEF Init
<1>2. Types
  BY <1>1, WatchListAssumption DEF Init, Types, LoopShape, CallerShape, HistoryShape,
       Unknown, Stopped, Waiting
<1>3. InForce
  BY DEF Init, Empty, InForce, ConfigSound, AddedBy, ChoiceSound, Unasked
<1>4. Applying
  BY DEF Init, Applying, Holds, Waiting
<1>5. QED
  BY <1>2, <1>3, <1>4 DEF WInv

\* What a store's answer to remembering changes, of the history.
LEMMA RememberedIs ==
  ASSUME NEW k, NEW result, NEW h, HistoryShape(h), RememberResult(k, result, h)
  PROVE  /\ HistoryShape(history')
         /\ history'.choice = h.choice /\ history'.said = h.said
         /\ history'.orphaned = h.orphaned /\ history'.applied = h.applied
         /\ h.excused \subseteq history'.excused
         /\ DOMAIN answers' \subseteq DOMAIN answers \cup {k}
         /\ DOMAIN answers \subseteq DOMAIN answers'
         /\ k = NoKey => answers' = answers
         /\ k # NoKey => k \in DOMAIN answers' \/ k \in history'.excused
<1>1. CASE k = NoKey
  BY <1>1 DEF RememberResult
<1>2. CASE k # NoKey /\ history' = h
           /\ answers' = IF k \in DOMAIN answers THEN answers ELSE Overridden(answers, k, result)
  BY <1>2 DEF Overridden
<1>3. CASE k # NoKey /\ history' = [h EXCEPT !.excused = h.excused \cup {k}] /\ answers' = answers
  BY <1>3 DEF HistoryShape
<1>4. QED
  BY <1>1, <1>2, <1>3 DEF RememberResult

\* A change, in parts: its outcome, and the history it leaves to be remembered.
Counts(r, o) == o.was = "changed" /\ r.key # NoKey

LEMMA ChangeIs ==
  ASSUME WInv, NEW c \in Callers, Change(c)
  PROVE  \E o \in Outcomes(caller[c].request, caller[c].data) :
           LET r == caller[c].request
           IN  /\ r \in Requests /\ r.key \in Keys \cup {NoKey}
               /\ caller[c].pc = "due"
               /\ KeptBy(o, Taken(r, o), Said(r, caller[c].data, o))
               /\ config' = o.config /\ overdue' = o.overdue
               /\ HistoryShape(history')
               /\ history'.choice = Said(r, caller[c].data, o).choice
               /\ history'.said = Said(r, caller[c].data, o).said
               /\ history'.orphaned = StillOrphaned(Taken(r, o))
               /\ history'.applied = IF Counts(r, o)
                                     THEN [history.applied EXCEPT ![r.key] = history.applied[r.key] + 1]
                                     ELSE history.applied
               /\ history.excused \subseteq history'.excused
               /\ DOMAIN answers \subseteq DOMAIN answers'
               /\ DOMAIN answers' \subseteq DOMAIN answers \cup Keys
               /\ \/ /\ caller' = [caller EXCEPT ![c] = Waiting]
                     /\ Counts(r, o) => r.key \in DOMAIN answers' \/ r.key \in history'.excused
                  \/ caller' = [caller EXCEPT ![c].pc = "answer", ![c].result = revision']
               /\ revision' \in {revision, revision + 1}
               /\ known' \in [stamp : 0..disk.version \cup {None}, error : BOOLEAN]
<1> DEFINE r == caller[c].request
           data == caller[c].data
<1>1. /\ caller[c].pc = "due" /\ r \in Requests
      /\ r.op = "sync" => data \in Contents \cup {Broken}
      /\ Types /\ InForce
      /\ known \in [stamp : 0..disk.version \cup {None}, error : BOOLEAN]
  BY DEF WInv, Types, CallerShape, Change
<1>2. r.key \in Keys \cup {NoKey}
  BY <1>1, RequestsAssumption
<1>3. PICK o \in Outcomes(r, data) :
        LET done == o.was \in {"changed", "same"}
            h == [Counted(Said(r, data, o), r.key, o.was) EXCEPT !.orphaned = StillOrphaned(Taken(r, o))]
        IN  /\ config' = o.config /\ overdue' = o.overdue
            /\ revision' = IF o.was = "changed" THEN revision + 1 ELSE revision
            /\ IF r.content = FromFile THEN NoteSync(o.was) ELSE UNCHANGED known
            /\ \/ /\ done /\ r.op # "sync"
                  /\ caller' = [caller EXCEPT ![c] = Waiting]
                  /\ RememberResult(r.key, revision', h)
               \/ /\ done /\ r.op = "sync"
                  /\ caller' = [caller EXCEPT ![c].pc = "answer", ![c].result = revision']
                  /\ history' = h
                  /\ UNCHANGED <<answers, spent>>
               \/ /\ ~done
                  /\ caller' = [caller EXCEPT ![c] = Waiting]
                  /\ history' = h
                  /\ MayFail(o.was)
                  /\ UNCHANGED answers
  BY DEF Change, Said
<1> DEFINE s == Said(r, data, o)
           n == Counted(s, r.key, o.was)
           h == [n EXCEPT !.orphaned = StillOrphaned(Taken(r, o))]
<1>4. KeptBy(o, Taken(r, o), s)
  <2> HIDE DEF r, data
  <2>1. KeptBy(o, Taken(r, o), Said(r, data, o))
    BY <1>1, OutcomeKeeps
  <2>2. QED
    BY <2>1
<1>5. n = IF Counts(r, o)
          THEN [s EXCEPT !.applied[r.key] = s.applied[r.key] + 1] ELSE s
  BY DEF Counted, Counts
<1>6. /\ \/ /\ o.was \in {"changed", "same"} /\ r.op # "sync"
            /\ caller' = [caller EXCEPT ![c] = Waiting]
            /\ RememberResult(r.key, revision', h)
         \/ /\ o.was \in {"changed", "same"}
            /\ caller' = [caller EXCEPT ![c].pc = "answer", ![c].result = revision']
            /\ history' = h
            /\ answers' = answers
         \/ /\ o.was \notin {"changed", "same"}
            /\ caller' = [caller EXCEPT ![c] = Waiting]
            /\ history' = h
            /\ answers' = answers
      /\ config' = o.config /\ overdue' = o.overdue
      /\ revision' \in {revision, revision + 1}
      /\ known' = known \/ known' = [known EXCEPT !.error = o.was \in {"refused", "failed"}]
  BY <1>3 DEF NoteSync
<1>7. known' \in [stamp : 0..disk.version \cup {None}, error : BOOLEAN]
  <2> DEFINE failed == o.was \in {"refused", "failed"}
  <2>1. failed \in BOOLEAN /\ (known' = known \/ known' = [known EXCEPT !.error = failed])
    BY <1>6
  <2> HIDE DEF failed
  <2>2. QED
    BY <1>1, <2>1
<1> HIDE DEF s, n
<1>8. HistoryShape(s) /\ s.applied = history.applied /\ s.excused = history.excused
  BY <1>4 DEF KeptBy
<1>9. r.key # NoKey => r.key \in Keys
  BY <1>2
<1>10. /\ HistoryShape(n) /\ n.choice = s.choice /\ n.said = s.said /\ n.excused = s.excused
       /\ n.applied = IF Counts(r, o)
                      THEN [history.applied EXCEPT ![r.key] = history.applied[r.key] + 1]
                      ELSE history.applied
  <2> DEFINE k == r.key
  <2>1. Counts(r, o) => k \in Keys
    BY <1>9 DEF Counts
  <2> HIDE DEF k, r
  <2>2. CASE Counts(r, o)
    <3>1. n = [s EXCEPT !.applied = [s.applied EXCEPT ![k] = s.applied[k] + 1]]
      BY <1>5, <2>2 DEF k
    <3>2. s.applied[k] + 1 \in Nat
      BY <1>8, <2>1, <2>2 DEF HistoryShape
    <3>3. QED
      BY <1>8, <2>2, <3>1, <3>2 DEF HistoryShape, k
  <2>3. CASE ~Counts(r, o)
    BY <1>5, <1>8, <2>3
  <2>4. QED
    BY <2>2, <2>3
<1>11. /\ HistoryShape(h) /\ h.choice = s.choice /\ h.said = s.said
       /\ h.excused = history.excused /\ h.applied = n.applied
       /\ h.orphaned = StillOrphaned(Taken(r, o))
  BY <1>8, <1>10 DEF HistoryShape
<1> HIDE DEF h, r, data
<1>12. /\ HistoryShape(history') /\ history'.choice = s.choice /\ history'.said = s.said
       /\ history'.orphaned = StillOrphaned(Taken(r, o)) /\ history'.applied = n.applied
       /\ history.excused \subseteq history'.excused
       /\ DOMAIN answers \subseteq DOMAIN answers'
       /\ DOMAIN answers' \subseteq DOMAIN answers \cup Keys
       /\ \/ /\ caller' = [caller EXCEPT ![c] = Waiting]
             /\ Counts(r, o) => r.key \in DOMAIN answers' \/ r.key \in history'.excused
          \/ caller' = [caller EXCEPT ![c].pc = "answer", ![c].result = revision']
  <2>1. CASE /\ o.was \in {"changed", "same"}
             /\ caller' = [caller EXCEPT ![c] = Waiting]
             /\ RememberResult(r.key, revision', h)
    <3>1. /\ HistoryShape(history')
          /\ history'.choice = h.choice /\ history'.said = h.said
          /\ history'.orphaned = h.orphaned /\ history'.applied = h.applied
          /\ h.excused \subseteq history'.excused
          /\ DOMAIN answers' \subseteq DOMAIN answers \cup {r.key}
          /\ DOMAIN answers \subseteq DOMAIN answers'
          /\ r.key = NoKey => answers' = answers
          /\ r.key # NoKey => r.key \in DOMAIN answers' \/ r.key \in history'.excused
      BY <1>11, <2>1, RememberedIs
    <3>2. QED
      BY <1>9, <1>11, <2>1, <3>1 DEF Counts
  <2>2. CASE /\ caller' = [caller EXCEPT ![c].pc = "answer", ![c].result = revision']
             /\ history' = h /\ answers' = answers
    BY <1>11, <2>2
  <2>3. CASE /\ o.was \notin {"changed", "same"}
             /\ caller' = [caller EXCEPT ![c] = Waiting]
             /\ history' = h /\ answers' = answers
    BY <1>11, <2>3 DEF Counts
  <2>4. QED
    BY <1>6, <2>1, <2>2, <2>3
<1>13. QED
  BY <1>1, <1>2, <1>4, <1>6, <1>7, <1>10, <1>12 DEF r, data, s
\* The loop's step over its file, as a change.
LEMMA ApplyFileIs ==
  ASSUME WInv, ApplyFile
  PROVE  \E o \in Sync(loop.data) :
           /\ KeptBy(o, IF o.was = "failed" THEN Targets ELSE {},
                     IF o.was = "refused" THEN history ELSE FileSaid(loop.data))
           /\ config' = o.config /\ overdue' = o.overdue
           /\ HistoryShape(history')
           /\ history'.choice = (IF o.was = "refused" THEN history ELSE FileSaid(loop.data)).choice
           /\ history'.said = (IF o.was = "refused" THEN history ELSE FileSaid(loop.data)).said
           /\ history'.applied = history.applied /\ history'.excused = history.excused
           /\ history'.orphaned = StillOrphaned(IF o.was = "failed" THEN Targets ELSE {})
           /\ revision' \in {revision, revision + 1}
           /\ known' \in [stamp : 0..disk.version \cup {None}, error : BOOLEAN]
<1>1. /\ loop.data \in Contents \cup {Broken} /\ Types /\ InForce
      /\ known \in [stamp : 0..disk.version \cup {None}, error : BOOLEAN]
  BY DEF WInv, Types, LoopShape, ApplyFile
<1>2. PICK o \in Sync(loop.data) :
        /\ config' = o.config /\ overdue' = o.overdue
        /\ revision' = IF o.was = "changed" THEN revision + 1 ELSE revision
        /\ NoteSync(o.was)
        /\ history' = [(IF o.was = "refused" THEN history ELSE FileSaid(loop.data)) EXCEPT
                         !.orphaned = StillOrphaned(IF o.was = "failed" THEN Targets ELSE {})]
  BY DEF ApplyFile
<1> DEFINE s == IF o.was = "refused" THEN history ELSE FileSaid(loop.data)
           among == IF o.was = "failed" THEN Targets ELSE {}
           failed == o.was \in {"refused", "failed"}
<1>3. KeptBy(o, among, s)
  BY <1>1, SyncKeeps
<1>4. failed \in BOOLEAN /\ known' = [known EXCEPT !.error = failed]
  BY <1>2 DEF NoteSync
<1>5. history' = [s EXCEPT !.orphaned = StillOrphaned(among)]
  BY <1>2
<1> HIDE DEF s, among, failed
<1>6. known' \in [stamp : 0..disk.version \cup {None}, error : BOOLEAN]
  BY <1>1, <1>4
<1>7. HistoryShape(s) /\ s.applied = history.applied /\ s.excused = history.excused
  BY <1>3 DEF KeptBy
<1>8. /\ HistoryShape(history') /\ history'.choice = s.choice /\ history'.said = s.said
      /\ history'.applied = s.applied /\ history'.excused = s.excused
      /\ history'.orphaned = StillOrphaned(among)
  BY <1>5, <1>7 DEF HistoryShape
<1>9. revision' \in {revision, revision + 1}
  BY <1>2
<1>10. QED
  BY <1>2, <1>3, <1>6, <1>7, <1>8, <1>9 DEF s, among

LEMMA StartIs ==
  ASSUME WInv, Start
  PROVE  /\ IsSynced(Empty, loop.data, now, config')
         /\ ConfigSound(config') /\ AddedBy(config', now) /\ ChoiceSound(config', history')
         /\ HistoryShape(history')
         /\ history'.applied = history.applied /\ history'.excused = history.excused
         /\ history'.orphaned = StillOrphaned(Targets)
<1>1. /\ loop.data \in Contents /\ now \in Nat \ {0} /\ HistoryShape(history)
      /\ config' = Synced(Empty, loop.data, now)
  BY WatchListAssumption DEF WInv, Types, LoopShape, Start
<1>2. FileSound(loop.data)
  BY <1>1, ContentsAssumption DEF FileSound
<1>3. ConfigSound(Empty)
  BY DEF Empty, ConfigSound
<1>4. IsSynced(Empty, loop.data, now, config')
  <2> DEFINE file == loop.data
  <2> HIDE DEF file
  <2>1. IsSynced(Empty, file, now, Synced(Empty, file, now))
    BY <1>1, <1>2, <1>3, SyncedIs DEF file
  <2>2. QED
    BY <1>1, <2>1 DEF file
<1>5. DOMAIN Empty.targets = {}
  BY DEF Empty
<1>6. AddedBy(config', now)
  BY <1>1, <1>4, <1>5 DEF IsSynced, IsTakenOn, AddedBy
<1> DEFINE said == [x \in Targets |-> IF x \in DOMAIN loop.data.targets
                                      THEN Lines(Parsed(loop.data.targets[x])) ELSE None]
           choice == [x \in Targets |-> None]
           missed == IF disk.version # history.got
                     THEN history.missed \cup {disk.version} ELSE history.missed
<1>7. /\ FileSaid(loop.data).missed = history.missed
      /\ history' = [FileSaid(loop.data) EXCEPT !.missed = missed,
                       !.orphaned = StillOrphaned(Targets), !.choice = choice]
  <2>1. FileSaid(loop.data).missed = history.missed
    BY <1>1 DEF FileSaid, HistoryShape
  <2>2. QED
    BY <2>1 DEF Start
<1>8. /\ HistoryShape(history') /\ history'.said = said /\ history'.choice = choice
      /\ history'.applied = history.applied /\ history'.excused = history.excused
      /\ history'.orphaned = StillOrphaned(Targets)
  <2>1. \E other : FileSaid(loop.data) = [history EXCEPT !.said = said, !.choice = other]
    BY DEF FileSaid
  <2>2. said = [x \in Targets |-> said[x]] /\ choice = [x \in Targets |-> choice[x]]
    OBVIOUS
  <2> HIDE DEF said, choice, missed
  <2>3. QED
    BY <1>1, <1>7, <2>1, <2>2 DEF HistoryShape
<1>9. ChoiceSound(config', history')
  <2>1. \A x \in DOMAIN config'.targets :
          /\ x \in DOMAIN loop.data.targets
          /\ said[x] = <<config'.targets[x].policy.after, config'.targets[x].policy.written>>
    BY <1>2, <1>4, <1>5 DEF IsSynced, IsTakenOn, FileSound, Lines, Parsed
  <2>2. \A x \in Targets : choice[x] = None
    OBVIOUS
  <2> HIDE DEF said, choice
  <2>3. QED
    BY <1>8, <2>1, <2>2 DEF ChoiceSound
<1>10. QED
  BY <1>4, <1>6, <1>8, <1>9 DEF IsSynced

\* The other steps leave the history's shape alone.
LEMMA CrashIs ==
  ASSUME WInv, Crash
  PROVE  /\ HistoryShape(history') /\ history'.excused = history.excused
         /\ history'.orphaned = {}
         /\ \A x \in Targets : history'.choice[x] = None
         /\ history'.applied = [k \in Keys |-> IF k \in DOMAIN answers
                                               THEN history.applied[k] ELSE 0]
<1> DEFINE choice == [x \in Targets |-> None]
           applied == [k \in Keys |-> IF k \in DOMAIN answers THEN history.applied[k] ELSE 0]
<1>1. history' = [history EXCEPT !.orphaned = {}, !.choice = choice, !.applied = applied]
  BY DEF Crash
<1>2. HistoryShape(history)
  BY DEF WInv, Types
<1>3. applied \in [Keys -> Nat] /\ choice = [x \in Targets |-> choice[x]]
  BY <1>2 DEF HistoryShape
<1> HIDE DEF choice, applied
<1>4. /\ HistoryShape(history') /\ history'.excused = history.excused
      /\ history'.orphaned = {} /\ history'.choice = choice /\ history'.applied = applied
  BY <1>1, <1>2, <1>3 DEF HistoryShape
<1>5. QED
  BY <1>4 DEF choice, applied

LEMMA AskIs ==
  ASSUME WInv, NEW c \in Callers, NEW r \in Requests, Ask(c, r)
  PROVE  /\ HistoryShape(history')
         /\ history'.choice = history.choice /\ history'.said = history.said
         /\ history'.orphaned = history.orphaned /\ history'.applied = history.applied
         /\ history.excused \subseteq history'.excused
         /\ InFlight(r.key) # {} => r.key \in history'.excused
         /\ \/ caller' = caller
            \/ /\ r.key \notin DOMAIN answers
               /\ \E data : \E pc \in {"read", "due"} :
                    /\ caller' = [caller EXCEPT ![c] =
                         [pc |-> pc, request |-> r, data |-> data, result |-> 0]]
                    /\ pc = "due" /\ r.op = "sync" => data \in Contents \cup {Broken}
<1>1. HistoryShape(history)
  BY DEF WInv, Types
<1>2. history' = [history EXCEPT !.excused =
                    history.excused \cup IF InFlight(r.key) = {} THEN {} ELSE {r.key}]
  BY DEF Ask
<1>3. /\ HistoryShape(history')
      /\ history'.choice = history.choice /\ history'.said = history.said
      /\ history'.orphaned = history.orphaned /\ history'.applied = history.applied
      /\ history'.excused = history.excused \cup IF InFlight(r.key) = {} THEN {} ELSE {r.key}
  BY <1>1, <1>2 DEF HistoryShape
<1>4. ASSUME caller' # caller
      PROVE  /\ r.key \notin DOMAIN answers
             /\ \E data : \E pc \in {"read", "due"} :
                  /\ caller' = [caller EXCEPT ![c] =
                       [pc |-> pc, request |-> r, data |-> data, result |-> 0]]
                  /\ pc = "due" /\ r.op = "sync" => data \in Contents \cup {Broken}
  <2>1. /\ r.key \notin DOMAIN answers
        /\ caller' = [caller EXCEPT ![c] =
             [pc |-> IF r.content = FromFile THEN "read" ELSE "due",
              request |-> r, data |-> r.content, result |-> 0]]
    BY <1>4 DEF Ask
  <2>2. r.op = "sync" => r.content \in Contents \cup {Broken, FromFile}
    BY RequestsAssumption
  <2>3. CASE r.content = FromFile
    BY <2>1, <2>3
  <2>4. CASE r.content # FromFile
    BY <2>1, <2>2, <2>4
  <2>5. QED
    BY <2>3, <2>4
<1>5. QED
  BY <1>3, <1>4

\* A read, that succeeds or fails, is all the history notes of it.
GotOrMissed ==
  \/ history' = [history EXCEPT !.got = disk.version]
  \/ \E m : history' = [history EXCEPT !.missed = m]
  \/ history' = history

LEMMA GotIs ==
  ASSUME HistoryShape(history), GotOrMissed
  PROVE  /\ HistoryShape(history')
         /\ history'.choice = history.choice /\ history'.said = history.said
         /\ history'.orphaned = history.orphaned /\ history'.applied = history.applied
         /\ history'.excused = history.excused
BY DEF HistoryShape, GotOrMissed

LEMMA TickIs ==
  ASSUME WInv, Tick
  PROVE  /\ HistoryShape(history')
         /\ history'.choice = history.choice /\ history'.said = history.said
         /\ history'.orphaned = StillOrphaned({}) /\ history'.applied = history.applied
         /\ history'.excused = history.excused
         /\ config' = config /\ overdue' \subseteq Targets
         /\ overdue' \cap Unasked(config) \subseteq overdue
<1>1. HistoryShape(history) /\ ConfigSound(config) /\ overdue \subseteq Targets
  BY DEF WInv, Types, InForce
<1>2. history' = [history EXCEPT !.orphaned = StillOrphaned({})] /\ config' = config
  BY DEF Tick
<1>3. DOMAIN config.targets \subseteq Targets
  BY <1>1 DEF ConfigSound
<1>4. overdue' \subseteq Targets /\ overdue' \cap Unasked(config) \subseteq overdue
  BY <1>1, <1>3 DEF Tick
<1>5. QED
  BY <1>1, <1>2, <1>4 DEF HistoryShape
LEMMA TypesStep == WInv /\ [Next]_vars => Types'
<1> SUFFICES ASSUME WInv, [Next]_vars PROVE Types'
  OBVIOUS
<1>1. /\ now \in 1..MaxTime
      /\ disk \in [content : Contents \cup {Broken}, version : 0..MaxEdits]
      /\ process \in {"down", "loaded", "up"}
      /\ revision \in Nat
      /\ known \in [stamp : 0..disk.version \cup {None}, error : BOOLEAN]
      /\ LoopShape
      /\ caller = [c \in Callers |-> caller[c]]
      /\ \A c \in Callers : CallerShape(caller[c])
      /\ DOMAIN answers \subseteq Keys
      /\ overdue \subseteq Targets
      /\ HistoryShape(history)
      /\ MaxTime \in Nat \ {0} /\ MaxEdits \in Nat
  BY WatchListAssumption DEF WInv, Types
<1>2. CASE Advance
  BY <1>1, <1>2 DEF Advance, Types, memory, LoopShape
<1>3. ASSUME NEW content \in Contents \cup {Broken}, Save(content) PROVE Types'
  <2>1. disk' = [content |-> content, version |-> disk.version + 1]
        /\ disk.version \in 0..MaxEdits /\ disk.version < MaxEdits
    BY <1>1, <1>3 DEF Save
  <2>2. disk' \in [content : Contents \cup {Broken}, version : 0..MaxEdits]
    BY <1>1, <2>1
  <2>3. 0..disk.version \subseteq 0..disk'.version
    BY <2>1
  <2>4. known \in [stamp : 0..disk'.version \cup {None}, error : BOOLEAN]
    BY <1>1, <2>3
  <2>5. QED
    BY <1>1, <1>3, <2>2, <2>4 DEF Save, memory, Types, LoopShape
<1>4. CASE Load
  <2>1. LoopShape' /\ HistoryShape(history')
    BY <1>1, <1>4, GotIs DEF Load, LoopShape, Stopped, GotOrMissed
  <2>2. QED
    BY <1>1, <1>4, <2>1 DEF Load, Types
<1>5. CASE Start
  <2>1. HistoryShape(history')
    BY <1>5, StartIs
  <2>2. known' \in [stamp : 0..disk.version \cup {None}, error : BOOLEAN]
    <3>1. disk.version \in Nat
      BY <1>1
    <3>2. QED
      BY <1>5, <3>1 DEF Start
  <2>3. QED
    BY <1>1, <1>5, <2>1, <2>2 DEF Start, Types, LoopShape
<1>6. CASE Crash
  <2>1. HistoryShape(history')
    BY <1>6, CrashIs
  <2>2. known' \in [stamp : 0..disk.version \cup {None}, error : BOOLEAN]
    BY <1>6 DEF Crash, Unknown
  <2>3. QED
    BY <1>1, <1>6, <2>1, <2>2 DEF Crash, Types, LoopShape, CallerShape, Stopped, Waiting
<1>7. CASE FollowFile
  <2>1. LoopShape'
    BY <1>1, <1>7 DEF FollowFile, LoopShape
  <2>2. known' \in [stamp : 0..disk.version \cup {None}, error : BOOLEAN]
    <3>1. disk.version \in Nat /\ (known' = known \/ known' = [known EXCEPT !.stamp = disk.version])
      BY <1>1, <1>7 DEF FollowFile
    <3>2. QED
      BY <1>1, <3>1
  <2>3. QED
    BY <1>1, <1>7, <2>1, <2>2 DEF FollowFile, Types
<1>8. CASE ReadFile
  <2>1. LoopShape' /\ HistoryShape(history')
    BY <1>1, <1>8, GotIs DEF ReadFile, LoopShape, GotOrMissed
  <2>2. known' \in [stamp : 0..disk.version \cup {None}, error : BOOLEAN]
    BY <1>1, <1>8 DEF ReadFile
  <2>3. QED
    BY <1>1, <1>8, <2>1, <2>2 DEF ReadFile, Types
<1>9. CASE ApplyFile
  <2>1. PICK o \in Sync(loop.data) :
          /\ KeptBy(o, IF o.was = "failed" THEN Targets ELSE {},
                    IF o.was = "refused" THEN history ELSE FileSaid(loop.data))
          /\ overdue' = o.overdue /\ HistoryShape(history')
          /\ revision' \in {revision, revision + 1}
          /\ known' \in [stamp : 0..disk.version \cup {None}, error : BOOLEAN]
    BY <1>9, ApplyFileIs
  <2>2. overdue' \subseteq Targets /\ revision' \in Nat
    BY <1>1, <2>1 DEF KeptBy
  <2>3. LoopShape'
    BY <1>1, <1>9 DEF ApplyFile, LoopShape
  <2>4. QED
    BY <1>1, <1>9, <2>1, <2>2, <2>3 DEF ApplyFile, Types
<1>10. CASE Tick
  <2>1. HistoryShape(history') /\ overdue' \subseteq Targets
    BY <1>10, TickIs
  <2>2. LoopShape'
    BY <1>1, <1>10 DEF Tick, LoopShape
  <2>3. QED
    BY <1>1, <1>10, <2>1, <2>2 DEF Tick, Types
<1>11. ASSUME NEW c \in Callers, NEW r \in Requests, Ask(c, r) PROVE Types'
  <2>1. /\ HistoryShape(history')
        /\ \/ caller' = caller
           \/ \E data : \E pc \in {"read", "due"} :
                /\ caller' = [caller EXCEPT ![c] =
                     [pc |-> pc, request |-> r, data |-> data, result |-> 0]]
                /\ pc = "due" /\ r.op = "sync" => data \in Contents \cup {Broken}
    BY <1>11, AskIs
  <2>2. /\ caller' = [d \in Callers |-> caller'[d]]
        /\ \A d \in Callers : CallerShape(caller'[d])
    BY <1>1, <2>1 DEF CallerShape
  <2>3. QED
    BY <1>1, <1>11, <2>1, <2>2 DEF Ask, memory, Types, LoopShape
<1>12. ASSUME NEW c \in Callers, ReadForSync(c) PROVE Types'
  <2>1. HistoryShape(history')
    BY <1>1, <1>12, GotIs DEF ReadForSync, GotOrMissed
  <2>2. disk.content \in Contents \cup {Broken} /\ CallerShape(caller[c]) /\ caller[c].pc = "read"
    BY <1>1, <1>12 DEF ReadForSync
  <2>3. \/ caller' = [caller EXCEPT ![c] = [caller[c] EXCEPT !.pc = "due", !.data = disk.content]]
        \/ caller' = [caller EXCEPT ![c] = Waiting]
    BY <1>12 DEF ReadForSync
  <2>7. CallerShape(Waiting)
    BY DEF CallerShape, Waiting
  <2>4. CallerShape([caller[c] EXCEPT !.pc = "due", !.data = disk.content])
    <3> DEFINE d == caller[c]
               e == [d EXCEPT !.pc = "due", !.data = disk.content]
    <3>1. CallerShape(d) /\ d.pc # "idle" /\ disk.content \in Contents \cup {Broken}
      BY <1>1, <2>2
    <3> HIDE DEF d
    <3>2. /\ DOMAIN e = DOMAIN d /\ e.request = d.request
          /\ e.pc = "due" /\ e.data = disk.content
      BY <3>1 DEF CallerShape
    <3> HIDE DEF e
    <3>3. CallerShape(e)
      BY <3>1, <3>2 DEF CallerShape
    <3>4. QED
      BY <3>3 DEF e, d
  <2>5. /\ caller' = [d \in Callers |-> caller'[d]]
        /\ \A d \in Callers : CallerShape(caller'[d])
    BY <1>1, <2>3, <2>4, <2>7
  <2>6. QED
    BY <1>1, <1>12, <2>1, <2>5 DEF ReadForSync, memory, Types, LoopShape
<1>13. ASSUME NEW c \in Callers, Change(c) PROVE Types'
  <2> DEFINE r == caller[c].request
  <2>1. PICK o \in Outcomes(r, caller[c].data) :
          /\ KeptBy(o, Taken(r, o), Said(r, caller[c].data, o))
          /\ overdue' = o.overdue /\ HistoryShape(history')
          /\ DOMAIN answers' \subseteq DOMAIN answers \cup Keys
          /\ \/ caller' = [caller EXCEPT ![c] = Waiting]
             \/ caller' = [caller EXCEPT ![c].pc = "answer", ![c].result = revision']
          /\ revision' \in {revision, revision + 1}
          /\ known' \in [stamp : 0..disk.version \cup {None}, error : BOOLEAN]
    BY <1>13, ChangeIs
  <2>2. overdue' \subseteq Targets /\ revision' \in Nat
    BY <1>1, <2>1 DEF KeptBy
  <2>3. CallerShape(Waiting)
    BY DEF CallerShape, Waiting
  <2>4. CallerShape(caller[c]) /\ caller[c].pc = "due"
    BY <1>1, <1>13 DEF Change
  <2>5. CallerShape([caller[c] EXCEPT !.pc = "answer", !.result = revision'])
    <3> DEFINE d == caller[c]
               e == [d EXCEPT !.pc = "answer", !.result = revision']
    <3>1. CallerShape(d) /\ d.pc # "idle" /\ disk.content \in Contents \cup {Broken}
      BY <1>1, <2>4
    <3> HIDE DEF d
    <3>2. /\ DOMAIN e = DOMAIN d /\ e.request = d.request
          /\ e.pc = "answer"
      BY <3>1 DEF CallerShape
    <3> HIDE DEF e
    <3>3. CallerShape(e)
      BY <3>1, <3>2 DEF CallerShape
    <3>4. QED
      BY <3>3 DEF e, d
  <2>6. \/ caller' = [caller EXCEPT ![c] = Waiting]
        \/ caller' = [caller EXCEPT ![c] = [caller[c] EXCEPT !.pc = "answer", !.result = revision']]
    BY <2>1
  <2>7. /\ caller' = [d \in Callers |-> caller'[d]]
        /\ \A d \in Callers : CallerShape(caller'[d])
    BY <1>1, <2>3, <2>5, <2>6
  <2>8. DOMAIN answers' \subseteq Keys
    BY <1>1, <2>1
  <2>9. now' = now /\ disk' = disk /\ process' = process /\ loop' = loop
    BY <1>13 DEF Change
  <2>10. QED
    BY <1>1, <2>1, <2>2, <2>7, <2>8, <2>9 DEF Types, LoopShape
<1>14. ASSUME NEW c \in Callers, Remember(c) PROVE Types'
  <2>1. /\ caller[c].request \in Requests /\ caller' = [caller EXCEPT ![c] = Waiting]
        /\ RememberResult(caller[c].request.key, caller[c].result, history)
    BY <1>1, <1>14 DEF Remember, CallerShape
  <2>2. caller[c].request.key \in Keys \cup {NoKey}
    BY <2>1, RequestsAssumption
  <2>3. /\ HistoryShape(history')
        /\ DOMAIN answers' \subseteq DOMAIN answers \cup {caller[c].request.key}
        /\ caller[c].request.key = NoKey => answers' = answers
    BY <1>1, <2>1, RememberedIs
  <2>4. DOMAIN answers' \subseteq Keys
    BY <1>1, <2>2, <2>3
  <2>5. CallerShape(Waiting)
    BY DEF CallerShape, Waiting
  <2>6. /\ caller' = [d \in Callers |-> caller'[d]]
        /\ \A d \in Callers : CallerShape(caller'[d])
    BY <1>1, <2>1, <2>5
  <2>7. QED
    BY <1>1, <1>14, <2>3, <2>4, <2>6 DEF Remember, memory, Types, LoopShape
<1>15. CASE UNCHANGED vars
  BY <1>1, <1>15 DEF vars, Types, LoopShape
<1>16. QED
  BY <1>2, <1>3, <1>4, <1>5, <1>6, <1>7, <1>8, <1>9, <1>10, <1>11, <1>12, <1>13, <1>14,
     <1>15 DEF Next, Loop

\* An outcome keeps what is in force, once the incidents it leaves are accounted for.
LEMMA KeptInForce ==
  ASSUME InForce, NEW o, NEW among, NEW h, KeptBy(o, among, h),
         config' = o.config, overdue' = o.overdue, now' = now,
         history'.choice = h.choice, history'.said = h.said,
         history'.orphaned = StillOrphaned(among)
  PROVE  InForce'
<1>1. ConfigSound(config') /\ AddedBy(config', now)
  BY DEF KeptBy
<1>2. ChoiceSound(config', history')
  BY DEF KeptBy, ChoiceSound
<1>3. overdue' \cap Unasked(config') \subseteq history'.orphaned
  BY DEF KeptBy, StillOrphaned, InForce
<1>4. QED
  BY <1>1, <1>2, <1>3 DEF InForce, Unasked

LEMMA InForceStep == WInv /\ [Next]_vars => InForce'
<1> SUFFICES ASSUME WInv, [Next]_vars PROVE InForce'
  OBVIOUS
<1>1. /\ InForce /\ now \in Nat \ {0} /\ HistoryShape(history) /\ overdue \subseteq Targets
  BY WatchListAssumption DEF WInv, Types
<1>2. ASSUME config' = config, overdue' = overdue, now' \in {now, now + 1},
             history'.choice = history.choice, history'.said = history.said,
             history'.orphaned = history.orphaned
      PROVE  InForce'
  <2>1. AddedBy(config', now')
    <3>1. \A x \in DOMAIN config.targets :
            config.targets[x].added \in Nat /\ config.targets[x].added <= now
      BY <1>1 DEF InForce, AddedBy, ConfigSound, Watched
    <3>2. \A x \in DOMAIN config.targets : config.targets[x].added <= now'
      BY <1>1, <1>2, <3>1
    <3>3. QED
      BY <1>2, <3>2 DEF AddedBy
  <2>2. ConfigSound(config') /\ ChoiceSound(config', history')
        /\ overdue' \cap Unasked(config') \subseteq history'.orphaned
    BY <1>1, <1>2 DEF InForce, ChoiceSound
  <2>3. QED
    BY <2>1, <2>2 DEF InForce, Unasked
<1>3. CASE Advance \/ (\E content \in Contents \cup {Broken} : Save(content)) \/ FollowFile
           \/ UNCHANGED vars
  <2>1. config' = config /\ overdue' = overdue /\ now' \in {now, now + 1} /\ history' = history
    BY <1>3 DEF Advance, Save, FollowFile, vars, memory
  <2>2. QED
    BY <1>2, <2>1
<1>4. CASE Load \/ ReadFile \/ \E c \in Callers : ReadForSync(c)
  <2>1. config' = config /\ overdue' = overdue /\ now' = now
        /\ GotOrMissed
    BY <1>4 DEF Load, ReadFile, ReadForSync, memory, GotOrMissed
  <2>2. QED
    BY <1>1, <1>2, <2>1, GotIs
<1>5. CASE Start
  <2>1. /\ ConfigSound(config') /\ AddedBy(config', now) /\ ChoiceSound(config', history')
        /\ history'.orphaned = StillOrphaned(Targets)
        /\ overdue' = overdue /\ now' = now
    BY <1>5, StartIs DEF Start
  <2>2. overdue' \cap Unasked(config') \subseteq history'.orphaned
    BY <1>1, <2>1 DEF StillOrphaned
  <2>3. QED
    BY <2>1, <2>2 DEF InForce, Unasked
<1>6. CASE Crash
  <2>1. config' = Empty /\ now' = now /\ \A x \in Targets : history'.choice[x] = None
    BY <1>6, CrashIs DEF Crash
  <2>2. DOMAIN config'.targets = {} /\ ConfigSound(config')
    BY <2>1 DEF Empty, ConfigSound
  <2>3. QED
    BY <2>1, <2>2 DEF InForce, AddedBy, ChoiceSound, Unasked
<1>7. CASE ApplyFile
  <2>1. PICK o \in Sync(loop.data) :
          /\ KeptBy(o, IF o.was = "failed" THEN Targets ELSE {},
                    IF o.was = "refused" THEN history ELSE FileSaid(loop.data))
          /\ config' = o.config /\ overdue' = o.overdue
          /\ history'.choice = (IF o.was = "refused" THEN history ELSE FileSaid(loop.data)).choice
          /\ history'.said = (IF o.was = "refused" THEN history ELSE FileSaid(loop.data)).said
          /\ history'.orphaned = StillOrphaned(IF o.was = "failed" THEN Targets ELSE {})
    BY <1>7, ApplyFileIs
  <2>2. now' = now
    BY <1>7 DEF ApplyFile
  <2>3. QED
    BY <1>1, <2>1, <2>2, KeptInForce
<1>8. CASE Tick
  <2>1. /\ history'.choice = history.choice /\ history'.said = history.said
        /\ history'.orphaned = StillOrphaned({}) /\ config' = config
        /\ overdue' \cap Unasked(config) \subseteq overdue /\ now' = now
    BY <1>8, TickIs DEF Tick
  <2>2. overdue' \cap Unasked(config') \subseteq history'.orphaned
    BY <1>1, <2>1 DEF StillOrphaned, InForce
  <2>3. ConfigSound(config') /\ AddedBy(config', now') /\ ChoiceSound(config', history')
    BY <1>1, <2>1 DEF InForce, ChoiceSound
  <2>4. QED
    BY <2>2, <2>3 DEF InForce, Unasked
<1>9. ASSUME NEW c \in Callers, NEW r \in Requests, Ask(c, r) PROVE InForce'
  BY <1>1, <1>2, <1>9, AskIs DEF Ask, memory
<1>10. ASSUME NEW c \in Callers, Change(c) PROVE InForce'
  <2> DEFINE r == caller[c].request
             data == caller[c].data
  <2>1. PICK o \in Outcomes(r, data) :
          /\ KeptBy(o, Taken(r, o), Said(r, data, o))
          /\ config' = o.config /\ overdue' = o.overdue
          /\ history'.choice = Said(r, data, o).choice
          /\ history'.said = Said(r, data, o).said
          /\ history'.orphaned = StillOrphaned(Taken(r, o))
    BY <1>10, ChangeIs
  <2>2. now' = now
    BY <1>10 DEF Change
  <2> HIDE DEF r, data
  <2>3. QED
    BY <1>1, <2>1, <2>2, KeptInForce
<1>11. ASSUME NEW c \in Callers, Remember(c) PROVE InForce'
  <2>1. /\ RememberResult(caller[c].request.key, caller[c].result, history)
        /\ config' = config /\ overdue' = overdue /\ now' = now
    BY <1>11 DEF Remember, memory
  <2>2. QED
    BY <1>1, <1>2, <2>1, RememberedIs
<1>12. QED
  BY <1>3, <1>4, <1>5, <1>6, <1>7, <1>8, <1>9, <1>10, <1>11 DEF Next, Loop
\* A step in which nobody takes a key, and one caller at most lets go of its own.
LEMMA ApplyingKept ==
  ASSUME Applying,
         history'.applied = history.applied, history.excused \subseteq history'.excused,
         DOMAIN answers \subseteq DOMAIN answers',
         \A c \in Callers :
           \/ caller'[c] = caller[c]
           \/ caller'[c].pc = "idle" /\ caller[c].pc \in {"read", "due"}
           \/ /\ caller'[c].pc = "idle" /\ caller[c].pc = "answer"
              /\ caller[c].request.key \in Keys =>
                   caller[c].request.key \in DOMAIN answers' \cup history'.excused
           \/ /\ caller[c].pc \in {"read", "due"} /\ caller'[c].pc \in {"due", "answer"}
              /\ caller'[c].request = caller[c].request
  PROVE  Applying'
<1> SUFFICES ASSUME NEW k \in Keys \ history'.excused
             PROVE  /\ \A c, d \in Callers : Holds(c, k)' /\ Holds(d, k)' => c = d
                    /\ \A c \in Callers :
                         caller'[c].pc \in {"read", "due"} /\ Holds(c, k)' => history'.applied[k] = 0
                    /\ history'.applied[k] \in {0, 1}
                    /\ history'.applied[k] = 1 =>
                         \/ k \in DOMAIN answers'
                         \/ \E c \in Callers : caller'[c].pc = "answer" /\ Holds(c, k)'
  BY DEF Applying, Holds
<1>1. /\ \A c, d \in Callers : Holds(c, k) /\ Holds(d, k) => c = d
      /\ \A c \in Callers :
           caller[c].pc \in {"read", "due"} /\ Holds(c, k) => history.applied[k] = 0
      /\ history.applied[k] \in {0, 1}
      /\ history.applied[k] = 1 =>
           k \in DOMAIN answers \/ \E c \in Callers : caller[c].pc = "answer" /\ Holds(c, k)
  BY DEF Applying
<1>2. \A c \in Callers : Holds(c, k)' => Holds(c, k)
  BY DEF Holds
<1>3. \A c \in Callers : caller'[c].pc \in {"read", "due"} /\ Holds(c, k)' =>
        caller[c].pc \in {"read", "due"}
  BY DEF Holds
<1>4. ASSUME NEW c \in Callers, caller[c].pc = "answer", Holds(c, k)
      PROVE  k \in DOMAIN answers' \/ (caller'[c].pc = "answer" /\ Holds(c, k)')
  BY <1>4 DEF Holds
<1>5. QED
  BY <1>1, <1>2, <1>3, <1>4

LEMMA ApplyingStep == WInv /\ [Next]_vars => Applying'
<1> SUFFICES ASSUME WInv, [Next]_vars PROVE Applying'
  OBVIOUS
<1>1. /\ Applying /\ HistoryShape(history) /\ DOMAIN answers \subseteq Keys
      /\ caller = [c \in Callers |-> caller[c]]
      /\ \A c \in Callers : CallerShape(caller[c])
  BY DEF WInv, Types
<1>2. ASSUME caller' = caller, answers' = answers, history'.applied = history.applied,
             history'.excused = history.excused
      PROVE  Applying'
  BY <1>1, <1>2, ApplyingKept
<1>3. CASE Advance \/ (\E content \in Contents \cup {Broken} : Save(content)) \/ FollowFile
           \/ UNCHANGED vars
  <2>1. caller' = caller /\ answers' = answers /\ history' = history
    BY <1>3 DEF Advance, Save, FollowFile, vars
  <2>2. QED
    BY <1>2, <2>1
<1>4. CASE Load \/ ReadFile
  <2>1. caller' = caller /\ answers' = answers /\ GotOrMissed
    BY <1>4 DEF Load, ReadFile, GotOrMissed
  <2>2. QED
    BY <1>1, <1>2, <2>1, GotIs
<1>5. CASE Start
  BY <1>2, <1>5, StartIs DEF Start
<1>6. CASE Crash
  <2>1. /\ history'.excused = history.excused /\ answers' = answers
        /\ history'.applied = [k \in Keys |-> IF k \in DOMAIN answers
                                              THEN history.applied[k] ELSE 0]
        /\ \A c \in Callers : caller'[c].pc = "idle"
    BY <1>6, CrashIs DEF Crash, Waiting
  <2>2. \A k \in Keys : /\ k \in DOMAIN answers => history'.applied[k] = history.applied[k]
                        /\ k \notin DOMAIN answers => history'.applied[k] = 0
    BY <2>1
  <2>3. QED
    BY <1>1, <2>1, <2>2 DEF Applying, Holds
<1>7. CASE ApplyFile
  <2>1. history'.applied = history.applied /\ history'.excused = history.excused
    BY <1>7, ApplyFileIs
  <2>2. QED
    BY <1>2, <1>7, <2>1 DEF ApplyFile
<1>8. CASE Tick
  BY <1>2, <1>8, TickIs DEF Tick
<1>9. ASSUME NEW c \in Callers, NEW r \in Requests, Ask(c, r) PROVE Applying'
  <2>1. /\ history'.applied = history.applied
        /\ history.excused \subseteq history'.excused
        /\ InFlight(r.key) # {} => r.key \in history'.excused
        /\ \/ caller' = caller
           \/ /\ r.key \notin DOMAIN answers
              /\ \E data : \E pc \in {"read", "due"} :
                   caller' = [caller EXCEPT ![c] =
                     [pc |-> pc, request |-> r, data |-> data, result |-> 0]]
    BY <1>9, AskIs
  <2>2. answers' = answers /\ caller[c].pc = "idle"
    BY <1>9 DEF Ask
  <2>3. CASE caller' = caller
    BY <1>1, <2>1, <2>2, <2>3, ApplyingKept
  <2>4. CASE /\ r.key \notin DOMAIN answers
             /\ \E data : \E pc \in {"read", "due"} :
                  caller' = [caller EXCEPT ![c] =
                    [pc |-> pc, request |-> r, data |-> data, result |-> 0]]
    <3>1. /\ caller'[c].pc \in {"read", "due"} /\ caller'[c].request = r
          /\ \A d \in Callers : d # c => caller'[d] = caller[d]
      BY <1>1, <2>4
    <3> SUFFICES ASSUME NEW k \in Keys \ history'.excused
                 PROVE  /\ \A d, e \in Callers : Holds(d, k)' /\ Holds(e, k)' => d = e
                        /\ \A d \in Callers :
                             caller'[d].pc \in {"read", "due"} /\ Holds(d, k)' =>
                               history'.applied[k] = 0
                        /\ history'.applied[k] \in {0, 1}
                        /\ history'.applied[k] = 1 =>
                             \/ k \in DOMAIN answers'
                             \/ \E d \in Callers : caller'[d].pc = "answer" /\ Holds(d, k)'
      BY DEF Applying, Holds
    <3>2. /\ \A d, e \in Callers : Holds(d, k) /\ Holds(e, k) => d = e
          /\ \A d \in Callers :
               caller[d].pc \in {"read", "due"} /\ Holds(d, k) => history.applied[k] = 0
          /\ history.applied[k] \in {0, 1}
          /\ history.applied[k] = 1 =>
               k \in DOMAIN answers \/ \E d \in Callers : caller[d].pc = "answer" /\ Holds(d, k)
      BY <1>1, <2>1 DEF Applying
    <3>3. /\ \A d \in Callers : d # c => (Holds(d, k)' <=> Holds(d, k))
          /\ Holds(c, k)' <=> r.key = k
          /\ ~Holds(c, k)
      BY <2>2, <3>1 DEF Holds
    <3>4. CASE r.key = k
      <4>1. \A d \in Callers : ~Holds(d, k)
        BY <2>1, <3>4 DEF InFlight, Holds
      <4>2. history.applied[k] = 0
        BY <2>4, <3>2, <3>4, <4>1
      <4>3. QED
        BY <2>1, <3>3, <4>1, <4>2
    <3>5. CASE r.key # k
      BY <2>1, <2>2, <3>1, <3>2, <3>3, <3>5
    <3>6. QED
      BY <3>4, <3>5
  <2>5. QED
    BY <2>1, <2>3, <2>4
<1>10. ASSUME NEW c \in Callers, ReadForSync(c) PROVE Applying'
  <2>1. /\ caller[c].pc = "read" /\ answers' = answers
        /\ GotOrMissed
        /\ \/ caller' = [caller EXCEPT ![c] = [caller[c] EXCEPT !.pc = "due", !.data = disk.content]]
           \/ caller' = [caller EXCEPT ![c] = Waiting]
    BY <1>10 DEF ReadForSync, GotOrMissed
  <2>2. history'.applied = history.applied /\ history'.excused = history.excused
    BY <1>1, <2>1, GotIs
  <2>3. \A d \in Callers : d # c => caller'[d] = caller[d]
    BY <1>1, <2>1
  <2>4. \/ caller'[c].pc = "due" /\ caller'[c].request = caller[c].request
        \/ caller'[c].pc = "idle"
    <3>1. CASE caller' = [caller EXCEPT ![c] = [caller[c] EXCEPT !.pc = "due", !.data = disk.content]]
      BY <1>1, <3>1 DEF CallerShape
    <3>2. CASE caller' = [caller EXCEPT ![c] = Waiting]
      BY <1>1, <3>2 DEF Waiting
    <3>3. QED
      BY <2>1, <3>1, <3>2
  <2>5. QED
    BY <1>1, <2>1, <2>2, <2>3, <2>4, ApplyingKept
<1>11. ASSUME NEW c \in Callers, Change(c) PROVE Applying'
  <2> DEFINE r == caller[c].request
  <2>1. PICK o \in Outcomes(r, caller[c].data) :
          /\ r.key \in Keys \cup {NoKey}
          /\ caller[c].pc = "due"
          /\ history'.applied = IF Counts(r, o)
                                THEN [history.applied EXCEPT ![r.key] = history.applied[r.key] + 1]
                                ELSE history.applied
          /\ history.excused \subseteq history'.excused
          /\ DOMAIN answers \subseteq DOMAIN answers'
          /\ \/ /\ caller' = [caller EXCEPT ![c] = Waiting]
                /\ Counts(r, o) => r.key \in DOMAIN answers' \/ r.key \in history'.excused
             \/ caller' = [caller EXCEPT ![c].pc = "answer", ![c].result = revision']
    BY <1>11, ChangeIs
  <2>2. \A d \in Callers : d # c => caller'[d] = caller[d]
    BY <1>1, <2>1
  <2>3. \/ /\ caller'[c].pc = "idle"
           /\ Counts(r, o) => r.key \in DOMAIN answers' \/ r.key \in history'.excused
        \/ caller'[c].pc = "answer" /\ caller'[c].request = r
    <3>1. CASE /\ caller' = [caller EXCEPT ![c] = Waiting]
               /\ Counts(r, o) => r.key \in DOMAIN answers' \/ r.key \in history'.excused
      BY <1>1, <3>1 DEF Waiting
    <3>2. CASE caller' = [caller EXCEPT ![c].pc = "answer", ![c].result = revision']
      <4>1. caller' = [caller EXCEPT ![c] = [caller[c] EXCEPT !.pc = "answer", !.result = revision']]
        BY <3>2
      <4>2. QED
        BY <1>1, <4>1 DEF CallerShape
    <3>3. QED
      BY <2>1, <3>1, <3>2
  <2>4. CASE ~Counts(r, o)
    BY <1>1, <2>1, <2>2, <2>3, <2>4, ApplyingKept
  <2>5. CASE Counts(r, o)
    <3>1. r.key \in Keys
      BY <2>1, <2>5 DEF Counts
    <3>2. /\ history'.applied[r.key] = history.applied[r.key] + 1
          /\ \A k \in Keys : k # r.key => history'.applied[k] = history.applied[k]
      BY <1>1, <2>1, <2>5, <3>1 DEF HistoryShape
    <3> SUFFICES ASSUME NEW k \in Keys \ history'.excused
                 PROVE  /\ \A d, e \in Callers : Holds(d, k)' /\ Holds(e, k)' => d = e
                        /\ \A d \in Callers :
                             caller'[d].pc \in {"read", "due"} /\ Holds(d, k)' =>
                               history'.applied[k] = 0
                        /\ history'.applied[k] \in {0, 1}
                        /\ history'.applied[k] = 1 =>
                             \/ k \in DOMAIN answers'
                             \/ \E d \in Callers : caller'[d].pc = "answer" /\ Holds(d, k)'
      BY DEF Applying, Holds
    <3>3. /\ \A d, e \in Callers : Holds(d, k) /\ Holds(e, k) => d = e
          /\ \A d \in Callers :
               caller[d].pc \in {"read", "due"} /\ Holds(d, k) => history.applied[k] = 0
          /\ history.applied[k] \in {0, 1}
          /\ history.applied[k] = 1 =>
               k \in DOMAIN answers \/ \E d \in Callers : caller[d].pc = "answer" /\ Holds(d, k)
      BY <1>1, <2>1 DEF Applying
    <3>4. /\ \A d \in Callers : d # c => (Holds(d, k)' <=> Holds(d, k))
          /\ Holds(c, k)' => r.key = k
          /\ Holds(c, k) <=> r.key = k
          /\ caller'[c].pc \notin {"read", "due"}
      BY <2>1, <2>2, <2>3 DEF Holds
    <3>5. CASE r.key = k
      <4>1. history.applied[k] = 0 /\ \A d \in Callers : Holds(d, k) => d = c
        BY <2>1, <3>3, <3>4, <3>5
      <4>2. history'.applied[k] = 1
        BY <3>2, <3>5, <4>1
      <4>3. k \in DOMAIN answers' \/ (caller'[c].pc = "answer" /\ Holds(c, k)')
        BY <2>3, <2>5, <3>5 DEF Holds
      <4>4. QED
        BY <3>4, <4>1, <4>2, <4>3
    <3>6. CASE r.key # k
      <4>1. history'.applied[k] = history.applied[k]
        BY <3>2, <3>6
      <4>2. ~Holds(c, k) /\ ~Holds(c, k)'
        BY <3>4, <3>6
      <4>3. QED
        BY <2>1, <2>2, <3>3, <3>4, <4>1, <4>2
    <3>7. QED
      BY <3>5, <3>6
  <2>6. QED
    BY <2>4, <2>5
<1>12. ASSUME NEW c \in Callers, Remember(c) PROVE Applying'
  <2>1. /\ caller[c].pc = "answer" /\ caller' = [caller EXCEPT ![c] = Waiting]
        /\ RememberResult(caller[c].request.key, caller[c].result, history)
    BY <1>12 DEF Remember
  <2>2. /\ history'.applied = history.applied /\ history.excused \subseteq history'.excused
        /\ DOMAIN answers \subseteq DOMAIN answers'
        /\ caller[c].request.key # NoKey =>
             caller[c].request.key \in DOMAIN answers' \/ caller[c].request.key \in history'.excused
    BY <1>1, <2>1, RememberedIs
  <2>3. /\ caller'[c].pc = "idle"
        /\ \A d \in Callers : d # c => caller'[d] = caller[d]
    BY <1>1, <2>1 DEF Waiting
  <2>4. caller[c].request.key \in Keys => caller[c].request.key # NoKey
    BY WatchListAssumption
  <2>5. QED
    BY <1>1, <2>1, <2>2, <2>3, <2>4, ApplyingKept
<1>13. QED
  BY <1>3, <1>4, <1>5, <1>6, <1>7, <1>8, <1>9, <1>10, <1>11, <1>12 DEF Next, Loop

LEMMA InvStep == WInv /\ [Next]_vars => WInv'
BY TypesStep, InForceStep, ApplyingStep DEF WInv

LEMMA WatchListInv == Spec => []WInv
<1>1. Init => WInv
  BY InitInv
<1>2. WInv /\ [Next]_vars => WInv'
  BY InvStep
<1>3. QED
  BY <1>1, <1>2, PTL DEF Spec

-----------------------------------------------------------------------------
(* The theorems.                                                            *)

\* Every variable has its type, and what is watched was taken on by now.
THEOREM WatchListTypes == Spec => []TypeOK
<1>1. WInv => TypeOK
  <2> SUFFICES ASSUME WInv PROVE TypeOK
    OBVIOUS
  <2>1. ASSUME NEW x \in DOMAIN config.targets
        PROVE  config.targets[x] \in [policy : Policy, added : 1..now]
    <3>1. /\ config.targets[x] \in [policy : Policy, added : Nat \ {0}]
          /\ config.targets[x].added <= now /\ now \in Nat
      BY WatchListAssumption DEF WInv, Types, InForce, ConfigSound, AddedBy, Watched
    <3>2. QED
      BY <3>1
  <2>2. DOMAIN config.targets \subseteq Targets
    BY DEF WInv, InForce, ConfigSound
  <2>3. QED
    BY <2>1, <2>2 DEF WInv, Types, TypeOK, LoopShape, CallerShape
<1>2. QED
  BY <1>1, WatchListInv, PTL

\* A retried request is applied at most once: of any number of callers, over lost
\* answers and restarts, unless two of them ask at once or the store loses the
\* answer (priorResult, rememberResult).
THEOREM RetriesApplyOnce == Spec => []AppliedOnce
<1>1. WInv => AppliedOnce
  BY DEF WInv, Applying, AppliedOnce
<1>2. QED
  BY <1>1, WatchListInv, PTL

\* A file synced twice with nothing lapsed in between changes nothing the second
\* time, whatever was in force before (SyncTargets, keepDeadline).
THEOREM SyncsAreIdempotent == Spec => []SyncIsIdempotent
<1>1. WInv => SyncIsIdempotent
  <2> SUFFICES ASSUME WInv, NEW content \in Contents, NEW later \in now..MaxTime,
                      \A x \in DOMAIN Synced(config, content, now).targets :
                        Synced(config, content, now).targets[x].policy.quiet
                          \notin (now + 1)..later
               PROVE  Synced(Synced(config, content, now), content, later)
                        = Synced(config, content, now)
    BY DEF SyncIsIdempotent
  <2>1. now \in Nat \ {0} /\ later \in Nat \ {0} /\ now <= later
    BY WatchListAssumption DEF WInv, Types
  <2>2. FileSound(content) /\ ConfigSound(config)
    BY ContentsAssumption DEF FileSound, WInv, InForce
  <2>3. QED
    BY <2>1, <2>2, SyncedTwice
<1>2. QED
  BY <1>1, WatchListInv, PTL

\* A deadline chosen by an update stays in force through every sync that leaves
\* its lines of the file as they were.
THEOREM ChoicesStand == Spec => []ChoiceInForce
<1>1. WInv => ChoiceInForce
  BY DEF WInv, InForce, ChoiceSound, ChoiceInForce
<1>2. QED
  BY <1>1, WatchListInv, PTL

\* No sequence of adds, updates and syncs leaves a deadline a file or an update wrote
\* where it would alert nobody.  What is left is one an addition in memory gave.
THEOREM DeadlinesAlert == Spec => []DeadlineCanAlert
<1>1. WInv => DeadlineCanAlert
  BY DEF WInv, InForce, ConfigSound, PolicySound, DeadlineCanAlert
<1>2. QED
  BY <1>1, WatchListInv, PTL

\* An overdue incident nobody asks about is one of a target taken on with it open,
\* or one the store failed to resolve.
THEOREM OverdueAccounted == Spec => []OverdueIsAskedOrTakenOn
<1>1. WInv => OverdueIsAskedOrTakenOn
  BY DEF WInv, InForce, OverdueIsAskedOrTakenOn
<1>2. QED
  BY <1>1, WatchListInv, PTL
=============================================================================
