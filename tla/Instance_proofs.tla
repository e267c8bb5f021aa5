-------------------------- MODULE Instance_proofs ---------------------------
(***************************************************************************)
(* Proofs about Instance, for any number of daemons.                       *)
(*                                                                         *)
(* OneOwner is not inductive.  What carries it: a daemon that may use the  *)
(* store holds a lock (Sound), no two daemons hold the same file           *)
(* (LocksExclude), and the file an owner holds is the one the path names,  *)
(* as long as nobody has locked an unlinked one (OwnersHoldTheNamed).      *)
(***************************************************************************)
EXTENDS Instance, TLAPS

Phases == {"new", "starting", "running", "stopping", "aborting", "refused", "gone"}
Records == [pid : Files, stopped : BOOLEAN]
States == [phase : Phases, pc : 1..5, opened : Files, holds : Files,
           listening : BOOLEAN, loaded : Records]

\* What a daemon holds at each of its steps.
Sound(d) ==
  /\ d.holds \in {None, d.opened}
  /\ d.phase \in {"new", "refused", "gone"} => d.holds = None
  /\ d.phase = "starting" =>
       /\ d.pc <= 2 => d.holds = None
       /\ d.pc > 1 => d.opened # None
       /\ d.pc > 2 => d.holds # None
  /\ d.phase \in {"running", "stopping"} => d.holds # None
  /\ d.phase = "aborting" => d.pc <= 3 /\ d.holds # None

LocksExclude ==
  \A p, q \in Daemons :
    daemon[p].holds = daemon[q].holds /\ daemon[p].holds # None => p = q

OwnersHoldTheNamed ==
  ~history.overlapped => \A p \in Daemons : Owns(daemon[p]) => daemon[p].holds = lockFile

Typed ==
  /\ lockFile \in Files /\ socket \in Files
  /\ record \in Records
  /\ daemon \in [Daemons -> States]
  /\ planned \in BOOLEAN
  /\ history \in [overlapped : BOOLEAN, forgotten : BOOLEAN]

IInv ==
  /\ Typed
  /\ \A p \in Daemons : Sound(daemon[p])
  /\ LocksExclude
  /\ OwnersHoldTheNamed

-----------------------------------------------------------------------------
(* The step sequences, by the position of each step.                       *)

\* Which step is due, by phase and position.
LEMMA DueAt ==
  ASSUME Typed, NEW p \in Daemons
  PROVE  /\ Due(p, "open") <=> daemon[p].phase = "starting" /\ daemon[p].pc = 1
         /\ Due(p, "lock") <=> daemon[p].phase = "starting" /\ daemon[p].pc = 2
         /\ Due(p, "clear") <=> daemon[p].phase = "starting" /\ daemon[p].pc = 3
         /\ Due(p, "bind") <=> daemon[p].phase = "starting" /\ daemon[p].pc = 4
         /\ Due(p, "register") <=> daemon[p].phase = "starting" /\ daemon[p].pc = 5
         /\ Due(p, "close") <=> daemon[p].phase \in {"stopping", "aborting"} /\ daemon[p].pc = 1
         /\ Due(p, "load") <=> daemon[p].phase = "stopping" /\ daemon[p].pc = 2
         /\ Due(p, "mark") <=> daemon[p].phase = "stopping" /\ daemon[p].pc = 3
         /\ Due(p, "unlink") <=> \/ daemon[p].phase = "stopping" /\ daemon[p].pc = 4
                                 \/ daemon[p].phase = "aborting" /\ daemon[p].pc = 2
         /\ Due(p, "unlock") <=> \/ daemon[p].phase = "stopping" /\ daemon[p].pc = 5
                                 \/ daemon[p].phase = "aborting" /\ daemon[p].pc = 3
<1>1. daemon[p].phase \in Phases /\ daemon[p].pc \in 1..5
  BY DEF Typed, States
<1>2. CASE daemon[p].phase = "starting"
  BY <1>1, <1>2 DEF Due, Order, StartOrder
<1>3. CASE daemon[p].phase = "stopping"
  BY <1>1, <1>3 DEF Due, Order, StopOrder
<1>4. CASE daemon[p].phase = "aborting"
  BY <1>1, <1>4 DEF Due, Order, AbortOrder
<1>5. CASE daemon[p].phase \notin {"starting", "stopping", "aborting"}
  BY <1>1, <1>5 DEF Due, Order
<1> QED BY <1>2, <1>3, <1>4, <1>5

\* What is left of a daemon's ownership, by phase and position.
LEMMA OwnsWhile ==
  ASSUME NEW d \in States
  PROVE  Owns(d) <=> \/ d.phase = "starting" /\ d.holds # None
                     \/ d.phase = "running"
                     \/ d.phase = "stopping" /\ d.pc <= 4
                     \/ d.phase = "aborting" /\ d.pc <= 2
<1>1. d.phase \in Phases /\ d.pc \in 1..5
  BY DEF States
<1>2. CASE d.phase = "stopping"
  <2>1. Owns(d) <=> \E i \in d.pc..5 : StopOrder[i] \in {"unlink", "mark"}
    BY <1>2 DEF Owns, Order, StopOrder
  <2>2. StopOrder[4] = "unlink" /\ StopOrder[5] = "unlock"
    BY DEF StopOrder
  <2> QED BY <1>1, <1>2, <2>1, <2>2
<1>3. CASE d.phase = "aborting"
  <2>1. Owns(d) <=> \E i \in d.pc..3 : AbortOrder[i] \in {"unlink", "mark"}
    BY <1>3 DEF Owns, Order, AbortOrder
  <2>2. AbortOrder[2] = "unlink" /\ AbortOrder[3] = "unlock"
    BY DEF AbortOrder
  <2> QED BY <1>1, <1>3, <2>1, <2>2
<1>4. CASE d.phase \notin {"stopping", "aborting"}
  BY <1>4 DEF Owns
<1> QED BY <1>2, <1>3, <1>4

\* Where a daemon is once a step is done.
LEMMA DoneIs ==
  ASSUME NEW d \in States
  PROVE  /\ d.phase = "starting" /\ d.pc < 5 => Done(d) = [d EXCEPT !.pc = d.pc + 1]
         /\ d.phase = "starting" /\ d.pc = 5 => Done(d) = [d EXCEPT !.phase = "running"]
         /\ d.phase = "stopping" /\ d.pc < 5 => Done(d) = [d EXCEPT !.pc = d.pc + 1]
         /\ d.phase = "stopping" /\ d.pc = 5 => Done(d) = [Fresh EXCEPT !.phase = "gone"]
         /\ d.phase = "aborting" /\ d.pc < 3 => Done(d) = [d EXCEPT !.pc = d.pc + 1]
         /\ d.phase = "aborting" /\ d.pc = 3 => Done(d) = [Fresh EXCEPT !.phase = "gone"]
<1>1. d.pc \in 1..5
  BY DEF States
<1>2. Len(StartOrder) = 5 /\ Len(StopOrder) = 5 /\ Len(AbortOrder) = 3
  BY DEF StartOrder, StopOrder, AbortOrder
<1>3. CASE d.phase = "starting"
  <2>1. Len(Order(d.phase)) = 5
    BY <1>2, <1>3 DEF Order
  <2>2. Done(d) = IF d.pc < 5 THEN [d EXCEPT !.pc = d.pc + 1] ELSE [d EXCEPT !.phase = "running"]
    BY <1>3, <2>1 DEF Done
  <2> QED BY <1>1, <1>3, <2>2
<1>4. CASE d.phase = "stopping"
  <2>1. Len(Order(d.phase)) = 5
    BY <1>2, <1>4 DEF Order
  <2>2. Done(d) = IF d.pc < 5 THEN [d EXCEPT !.pc = d.pc + 1] ELSE [Fresh EXCEPT !.phase = "gone"]
    BY <1>4, <2>1 DEF Done
  <2> QED BY <1>1, <1>4, <2>2
<1>5. CASE d.phase = "aborting"
  <2>1. Len(Order(d.phase)) = 3
    BY <1>2, <1>5 DEF Order
  <2>2. Done(d) = IF d.pc < 3 THEN [d EXCEPT !.pc = d.pc + 1] ELSE [Fresh EXCEPT !.phase = "gone"]
    BY <1>5, <2>1 DEF Done
  <2> QED BY <1>1, <1>5, <2>2
<1>6. CASE d.phase \notin {"starting", "stopping", "aborting"}
  BY <1>6
<1> QED BY <1>3, <1>4, <1>5, <1>6

-----------------------------------------------------------------------------
(* Steps that move one daemon *)

Rest ==
  /\ socket' \in Files /\ record' \in Records /\ planned' \in BOOLEAN
  /\ history' \in [overlapped : BOOLEAN, forgotten : BOOLEAN]

\* A step that takes no lock and no ownership, and leaves the lock file named.
LEMMA NothingTaken ==
  ASSUME IInv, NEW p \in Daemons, NEW d \in States, Become(p, d), Rest,
         Sound(d), d.holds \in {None, daemon[p].holds},
         Owns(d) => Owns(daemon[p]) /\ d.holds = daemon[p].holds,
         lockFile' = lockFile, history'.overlapped = history.overlapped
  PROVE  IInv'
<1>1. daemon \in [Daemons -> States] /\ lockFile \in Files
  BY DEF IInv, Typed
<1>2. /\ daemon'[p] = d
      /\ \A q \in Daemons \ {p} : daemon'[q] = daemon[q]
      /\ daemon' \in [Daemons -> States]
  BY <1>1 DEF Become
<1>3. Typed'
  BY <1>1, <1>2 DEF Typed, Rest
<1>4. \A q \in Daemons : Sound(daemon'[q])
  BY <1>2 DEF IInv
<1>5. LocksExclude'
  BY <1>2 DEF IInv, LocksExclude
<1>6. OwnersHoldTheNamed'
  BY <1>2 DEF IInv, OwnersHoldTheNamed
<1> QED BY <1>3, <1>4, <1>5, <1>6 DEF IInv

\* Whoever may use the store holds a lock.
LEMMA OwnersHold ==
  ASSUME IInv, NEW p \in Daemons, Owns(daemon[p])
  PROVE  daemon[p].holds # None
BY OwnsWhile DEF IInv, Typed, Sound

\* A process before and after its time holds nothing and owns nothing.
LEMMA FreshTyped ==
  ASSUME NEW ph \in {"new", "starting", "refused", "gone"}, NEW d,
         d = [phase |-> ph, pc |-> 1, opened |-> None, holds |-> None,
              listening |-> FALSE, loaded |-> NoRecord]
  PROVE  d \in States /\ Sound(d) /\ d.holds = None /\ ~Owns(d)
<1>2. NoRecord \in Records /\ None \in Files
  BY DEF NoRecord, Records, Files
<1>3. d \in States
  <2>1. ph \in Phases /\ 1 \in 1..5 /\ FALSE \in BOOLEAN
    BY DEF Phases
  <2>2. [phase |-> ph, pc |-> 1, opened |-> None, holds |-> None,
         listening |-> FALSE, loaded |-> NoRecord] \in States
    BY <1>2, <2>1 DEF States
  <2> QED BY <2>2
<1>4. d.phase = ph /\ d.pc = 1 /\ d.holds = None
  OBVIOUS
<1>5. Sound(d)
  BY <1>4 DEF Sound
<1>6. ~Owns(d)
  BY <1>3, <1>4, OwnsWhile
<1> QED BY <1>3, <1>4, <1>5, <1>6

\* A step of a daemon that holds on to what it has: the next one of its sequence.
LEMMA NextStep ==
  ASSUME IInv, NEW p \in Daemons, NEW d \in States,
         d.phase = daemon[p].phase, d.pc = daemon[p].pc,
         d.opened = daemon[p].opened, d.holds = daemon[p].holds,
         \/ daemon[p].phase = "starting" /\ daemon[p].pc \in 3..5
         \/ daemon[p].phase = "stopping" /\ daemon[p].pc \in 1..3
         \/ daemon[p].phase = "aborting" /\ daemon[p].pc = 1,
         Become(p, Done(d)), Rest,
         lockFile' = lockFile, history'.overlapped = history.overlapped
  PROVE  IInv'
<1>1. daemon[p] \in States /\ Sound(daemon[p])
  BY DEF IInv, Typed
<1>2. /\ d \in States
      /\ d.phase = daemon[p].phase /\ d.pc = daemon[p].pc
      /\ d.opened = daemon[p].opened /\ d.holds = daemon[p].holds
  OBVIOUS
<1>3. d.holds # None /\ d.holds = d.opened
  BY <1>1, <1>2 DEF Sound
<1>4. Owns(daemon[p])
  <2>1. daemon[p].holds # None /\ daemon[p].pc \in 1..5
    BY <1>1, <1>2, <1>3 DEF States
  <2>2. CASE daemon[p].phase = "starting"
    BY <2>1, <2>2 DEF Owns
  <2>3. CASE daemon[p].phase = "stopping" /\ daemon[p].pc <= 4
    BY <1>1, <2>3, OwnsWhile
  <2>4. CASE daemon[p].phase = "aborting" /\ daemon[p].pc <= 2
    BY <1>1, <2>4, OwnsWhile
  <2> QED BY <2>1, <2>2, <2>3, <2>4
<1>5. CASE d.phase = "starting" /\ d.pc = 5
  <2>1. Done(d) = [d EXCEPT !.phase = "running"]
    BY <1>2, <1>5, DoneIs
  <2>2. Done(d) \in States /\ Done(d).holds = d.holds /\ Sound(Done(d))
    BY <1>2, <1>3, <2>1 DEF States, Phases, Sound
  <2> QED BY <1>2, <1>4, <2>2, NothingTaken
<1>6. CASE ~(d.phase = "starting" /\ d.pc = 5)
  <2>1. d.pc \in Nat /\ Done(d) = [d EXCEPT !.pc = d.pc + 1]
    BY <1>2, <1>6, DoneIs DEF States
  <2>2. Done(d) \in States
    BY <1>2, <1>6, <2>1 DEF States
  <2>3. Done(d).holds = d.holds /\ Sound(Done(d))
    BY <1>2, <1>3, <1>6, <2>1 DEF States, Sound
  <2> QED BY <1>2, <1>4, <2>2, <2>3, NothingTaken
<1> QED BY <1>5, <1>6

\* A daemon whose process is not running, or is about to: it holds nothing.
LEMMA FreshStep ==
  ASSUME IInv, NEW p \in Daemons, NEW ph \in {"new", "starting", "refused", "gone"},
         Become(p, [Fresh EXCEPT !.phase = ph]), Rest,
         lockFile' = lockFile, history'.overlapped = history.overlapped
  PROVE  IInv'
<1>1. PICK d : d = [Fresh EXCEPT !.phase = ph]
  OBVIOUS
<1>2. d \in States /\ Sound(d) /\ d.holds = None /\ ~Owns(d)
  <2>1. d = [phase |-> ph, pc |-> 1, opened |-> None, holds |-> None,
             listening |-> FALSE, loaded |-> NoRecord]
    BY <1>1 DEF Fresh
  <2> QED BY <2>1, FreshTyped
<1> QED BY <1>1, <1>2, NothingTaken

-----------------------------------------------------------------------------
(* The steps of Next that touch the lock *)

\* Opening the path, which creates the file unless somebody owns it.
LEMMA OpenLockStep ==
  ASSUME IInv, NEW p \in Daemons, OpenLock(p)
  PROVE  IInv'
<1> DEFINE d == [daemon[p] EXCEPT !.opened = lockFile']
           e == Done(d)
<1>1. daemon \in [Daemons -> States] /\ daemon[p] \in States /\ Sound(daemon[p])
  BY DEF IInv, Typed
<1>2. daemon[p].phase = "starting" /\ daemon[p].pc = 1
  BY DueAt DEF OpenLock, IInv
<1>3. lockFile' \in Files /\ lockFile' # None /\ (lockFile = None \/ lockFile' = lockFile)
  BY InstanceAssumption DEF OpenLock, IInv, Typed, Files
<1>4. d \in States /\ d.phase = "starting" /\ d.pc = 1 /\ d.holds = daemon[p].holds
      /\ d.opened # None
  BY <1>1, <1>2, <1>3 DEF States
<1> HIDE DEF d
<1>5. e = [d EXCEPT !.pc = 2]
  BY <1>4, DoneIs
<1>6. daemon[p].holds = None
  BY <1>1, <1>2 DEF Sound
<1>7. e \in States /\ Sound(e) /\ e.holds = None /\ e.phase = "starting"
  BY <1>4, <1>5, <1>6 DEF States, Sound
<1>8. Become(p, e)
  BY DEF OpenLock, d
<1> HIDE DEF e
<1>9. /\ daemon'[p] = e
      /\ \A q \in Daemons \ {p} : daemon'[q] = daemon[q]
      /\ daemon' \in [Daemons -> States]
  BY <1>1, <1>7, <1>8 DEF Become
<1>10. UNCHANGED <<socket, record, planned, history>>
  BY DEF OpenLock
<1>11. Typed'
  BY <1>3, <1>9, <1>10 DEF IInv, Typed
<1>12. \A q \in Daemons : Sound(daemon'[q])
  BY <1>7, <1>9 DEF IInv
<1>13. LocksExclude'
  BY <1>7, <1>9 DEF IInv, LocksExclude
<1>14. OwnersHoldTheNamed'
  <2> SUFFICES ASSUME ~history.overlapped, NEW q \in Daemons, Owns(daemon'[q])
               PROVE  daemon'[q].holds = lockFile'
    BY <1>10 DEF OwnersHoldTheNamed
  <2>1. q # p
    BY <1>7, <1>9 DEF Owns
  <2>2. Owns(daemon[q]) /\ daemon[q].holds = lockFile /\ daemon'[q] = daemon[q]
    BY <1>9, <2>1 DEF IInv, OwnersHoldTheNamed
  <2>3. lockFile # None
    BY <2>2, OwnersHold
  <2> QED BY <1>3, <2>2, <2>3
<1> QED BY <1>11, <1>12, <1>13, <1>14 DEF IInv

\* Locking the file that was opened: nobody holds it, and it is the one the path
\* names unless the step is the overlap itself.
LEMMA TryLockStep ==
  ASSUME IInv, NEW p \in Daemons, TryLock(p)
  PROVE  IInv'
<1> DEFINE file == daemon[p].opened
           d == [daemon[p] EXCEPT !.holds = file]
           e == Done(d)
<1>1. daemon \in [Daemons -> States] /\ daemon[p] \in States /\ Sound(daemon[p])
  BY DEF IInv, Typed
<1>2. daemon[p].phase = "starting" /\ daemon[p].pc = 2
  BY DueAt DEF TryLock, IInv
<1>3. UNCHANGED <<lockFile, socket, record, planned>>
  BY DEF TryLock
<1>4. CASE /\ \A q \in Daemons : daemon[q].holds # file
           /\ Become(p, e)
           /\ history' = [history EXCEPT !.overlapped = history.overlapped \/ lockFile # file]
  <2>1. file # None /\ file \in Files
    BY <1>1, <1>2 DEF Sound, States
  <2>2. d \in States /\ d.phase = "starting" /\ d.pc = 2 /\ d.holds = file /\ d.opened = file
    BY <1>1, <1>2, <2>1 DEF States
  <2> HIDE DEF d
  <2>3. e = [d EXCEPT !.pc = 3]
    BY <2>2, DoneIs
  <2>4. e \in States /\ Sound(e) /\ e.holds = file
    BY <2>1, <2>2, <2>3 DEF States, Sound
  <2> HIDE DEF e
  <2>5. /\ daemon'[p] = e
        /\ \A q \in Daemons \ {p} : daemon'[q] = daemon[q]
        /\ daemon' \in [Daemons -> States]
    BY <1>1, <1>4, <2>4 DEF Become
  <2>6. /\ history' \in [overlapped : BOOLEAN, forgotten : BOOLEAN]
        /\ ~history'.overlapped => ~history.overlapped /\ lockFile = file
    BY <1>4 DEF IInv, Typed
  <2>7. Typed'
    BY <1>3, <2>5, <2>6 DEF IInv, Typed
  <2>8. \A q \in Daemons : Sound(daemon'[q])
    BY <2>4, <2>5 DEF IInv
  <2>9. LocksExclude'
    BY <1>4, <2>4, <2>5 DEF IInv, LocksExclude
  <2>10. OwnersHoldTheNamed'
    BY <1>3, <2>4, <2>5, <2>6 DEF IInv, OwnersHoldTheNamed
  <2> QED BY <2>7, <2>8, <2>9, <2>10 DEF IInv
<1>5. CASE Become(p, [Fresh EXCEPT !.phase = "refused"]) /\ UNCHANGED history
  BY <1>3, <1>5, FreshStep DEF IInv, Typed, Rest
<1> QED BY <1>4, <1>5 DEF TryLock

\* Removing the path: whoever owns the store held what it named, which is the
\* file this daemon holds, so this daemon was the only owner.
LEMMA UnlinkStep ==
  ASSUME IInv, NEW p \in Daemons, Unlink(p)
  PROVE  IInv'
<1> DEFINE e == Done(daemon[p])
<1>1. daemon \in [Daemons -> States] /\ daemon[p] \in States /\ Sound(daemon[p])
  BY DEF IInv, Typed
<1>2. \/ daemon[p].phase = "stopping" /\ daemon[p].pc = 4
      \/ daemon[p].phase = "aborting" /\ daemon[p].pc = 2
  BY DueAt DEF Unlink, IInv
<1>3. lockFile' = None /\ UNCHANGED <<socket, record, planned, history>> /\ Become(p, e)
  BY DEF Unlink
<1>4. e = [daemon[p] EXCEPT !.pc = daemon[p].pc + 1]
  BY <1>1, <1>2, DoneIs
<1>5. /\ e \in States /\ Sound(e) /\ e.holds = daemon[p].holds
      /\ \/ e.phase = "stopping" /\ e.pc = 5
         \/ e.phase = "aborting" /\ e.pc = 3
  BY <1>1, <1>2, <1>4 DEF States, Sound
<1>6. ~Owns(e) /\ Owns(daemon[p])
  BY <1>1, <1>2, <1>5, OwnsWhile
<1> HIDE DEF e
<1>7. /\ daemon'[p] = e
      /\ \A q \in Daemons \ {p} : daemon'[q] = daemon[q]
      /\ daemon' \in [Daemons -> States]
  BY <1>1, <1>3, <1>5 DEF Become
<1>8. Typed'
  BY <1>3, <1>7 DEF IInv, Typed, Files
<1>9. \A q \in Daemons : Sound(daemon'[q])
  BY <1>5, <1>7 DEF IInv
<1>10. LocksExclude'
  BY <1>5, <1>7 DEF IInv, LocksExclude
<1>11. OwnersHoldTheNamed'
  <2> SUFFICES ASSUME ~history.overlapped, NEW q \in Daemons, Owns(daemon'[q])
               PROVE  FALSE
    BY <1>3 DEF OwnersHoldTheNamed
  <2>1. q # p /\ Owns(daemon[q])
    BY <1>6, <1>7
  <2>2. daemon[q].holds = daemon[p].holds
    BY <1>6, <2>1 DEF IInv, OwnersHoldTheNamed
  <2>3. daemon[p].holds # None
    BY <1>6, OwnersHold
  <2> QED BY <2>1, <2>2, <2>3 DEF IInv, LocksExclude
<1> QED BY <1>8, <1>9, <1>10, <1>11 DEF IInv

-----------------------------------------------------------------------------
(* The other steps *)

\* The steps of a start that already has the lock, and its ways to fail.
LEMMA StartSteps ==
  ASSUME IInv, NEW p \in Daemons,
         \/ Launch(p) \/ ClearSocket(p) \/ Bind(p) \/ Register(p) \/ StartFails(p)
  PROVE  IInv'
<1>1. daemon[p] \in States /\ Sound(daemon[p]) /\ daemon[p].loaded \in Records
      /\ daemon[p].listening \in BOOLEAN
  BY DEF IInv, Typed, States
<1>3. /\ lockFile \in Files /\ socket \in Files /\ record \in Records /\ planned \in BOOLEAN
      /\ history \in [overlapped : BOOLEAN, forgotten : BOOLEAN]
      /\ p \in Files /\ None \in Files
  BY DEF IInv, Typed, Files
<1>4. CASE Launch(p)
  BY <1>3, <1>4, FreshStep DEF Launch, Rest
<1>5. CASE ClearSocket(p)
  <2>1. daemon[p].phase = "starting" /\ daemon[p].pc = 3
    BY <1>5, DueAt DEF ClearSocket, IInv
  <2>2. Rest /\ UNCHANGED <<lockFile, history>>
    BY <1>3, <1>5 DEF ClearSocket, Rest
  <2> QED BY <1>1, <1>5, <2>1, <2>2, NextStep DEF ClearSocket
<1>6. ASSUME NEW n \in 1..2, daemon[p].phase = "starting", daemon[p].pc \in 3..5,
             Become(p, [daemon[p] EXCEPT !.phase = "aborting", !.pc = n]),
             UNCHANGED <<lockFile, socket, record, planned, history>>
      PROVE  IInv'
  <2> DEFINE d == [daemon[p] EXCEPT !.phase = "aborting", !.pc = n]
  <2>1. Rest
    BY <1>3, <1>6 DEF Rest
  <2>2. daemon[p].holds # None /\ daemon[p].holds = daemon[p].opened
    BY <1>1, <1>6 DEF Sound
  <2>3. /\ d.phase = "aborting" /\ d.pc = n
        /\ d.opened = daemon[p].opened /\ d.holds = daemon[p].holds
    BY <1>1 DEF States
  <2>4. d \in States
    <3>1. n \in 1..5 /\ "aborting" \in Phases
      BY DEF Phases
    <3> QED BY <1>1, <3>1 DEF States
  <2> HIDE DEF d
  <2>5. Sound(d)
    BY <2>2, <2>3 DEF Sound
  <2>6. Owns(daemon[p])
    BY <1>1, <1>6, <2>2, OwnsWhile
  <2> QED BY <1>6, <2>1, <2>3, <2>4, <2>5, <2>6, NothingTaken DEF d
<1>7. CASE Bind(p)
  <2>1. daemon[p].phase = "starting" /\ daemon[p].pc = 4
    BY <1>7, DueAt DEF Bind, IInv
  <2>2. CASE socket' = p /\ Become(p, Done([daemon[p] EXCEPT !.listening = TRUE]))
    <3>1. Rest /\ UNCHANGED <<lockFile, history>>
      BY <1>3, <1>7, <2>2 DEF Bind, Rest
    <3> DEFINE d == [daemon[p] EXCEPT !.listening = TRUE]
    <3>2. /\ d \in States /\ d.phase = daemon[p].phase /\ d.pc = daemon[p].pc
          /\ d.opened = daemon[p].opened /\ d.holds = daemon[p].holds
      BY <1>1 DEF States
    <3>3. Become(p, Done(d))
      BY <2>2
    <3> HIDE DEF d
    <3> QED BY <2>1, <3>1, <3>2, <3>3, NextStep
  <2>3. CASE UNCHANGED socket /\ Become(p, [daemon[p] EXCEPT !.phase = "aborting", !.pc = 2])
    BY <1>6, <1>7, <2>1, <2>3 DEF Bind
  <2> QED BY <1>7, <2>2, <2>3 DEF Bind
<1>8. CASE Register(p)
  <2>1. daemon[p].phase = "starting" /\ daemon[p].pc = 5
    BY <1>8, DueAt DEF Register, IInv
  <2>2. record' \in Records
    BY <1>3, <1>8 DEF Register, Records
  <2>3. Rest /\ UNCHANGED <<lockFile, history>>
    BY <1>3, <1>8, <2>2 DEF Register, Rest
  <2> QED BY <1>1, <1>8, <2>1, <2>3, NextStep DEF Register
<1>9. CASE StartFails(p)
  <2>1. CASE Due(p, "clear") /\ Become(p, [daemon[p] EXCEPT !.phase = "aborting", !.pc = 2])
    <3>1. daemon[p].phase = "starting" /\ daemon[p].pc = 3
      BY <2>1, DueAt DEF IInv
    <3> QED BY <1>6, <1>9, <2>1, <3>1 DEF StartFails
  <2>2. CASE Due(p, "register") /\ Become(p, [daemon[p] EXCEPT !.phase = "aborting", !.pc = 1])
    <3>1. daemon[p].phase = "starting" /\ daemon[p].pc = 5
      BY <2>2, DueAt DEF IInv
    <3> QED BY <1>6, <1>9, <2>2, <3>1 DEF StartFails
  <2> QED BY <1>9, <2>1, <2>2 DEF StartFails
<1> QED BY <1>4, <1>5, <1>7, <1>8, <1>9

\* The steps of a shutdown before the unlink and after it, and a crash.
LEMMA StopSteps ==
  ASSUME IInv, NEW p \in Daemons,
         \/ BeginShutdown(p) \/ CloseServer(p) \/ LoadRecord(p) \/ WriteRecord(p)
         \/ Unlock(p) \/ Crash(p)
  PROVE  IInv'
<1>1. daemon[p] \in States /\ Sound(daemon[p]) /\ daemon[p].loaded \in Records
      /\ daemon[p].listening \in BOOLEAN
  BY DEF IInv, Typed, States
<1>3. /\ lockFile \in Files /\ socket \in Files /\ record \in Records /\ planned \in BOOLEAN
      /\ history \in [overlapped : BOOLEAN, forgotten : BOOLEAN] /\ None \in Files
  BY DEF IInv, Typed, Files
<1>4. CASE BeginShutdown(p)
  <2> DEFINE d == [daemon[p] EXCEPT !.phase = "stopping", !.pc = 1]
  <2>1. daemon[p].phase = "running" /\ Become(p, d) /\ Rest /\ UNCHANGED <<lockFile, history>>
    BY <1>3, <1>4 DEF BeginShutdown, Rest
  <2>2. /\ d.phase = "stopping" /\ d.pc = 1
        /\ d.opened = daemon[p].opened /\ d.holds = daemon[p].holds
    BY <1>1 DEF States
  <2>3. d \in States
    <3>1. 1 \in 1..5 /\ "stopping" \in Phases
      BY DEF Phases
    <3> QED BY <1>1, <3>1 DEF States
  <2> HIDE DEF d
  <2>4. Sound(d)
    BY <1>1, <2>1, <2>2 DEF Sound
  <2>5. Owns(daemon[p])
    BY <2>1 DEF Owns
  <2> QED BY <2>1, <2>2, <2>3, <2>4, <2>5, NothingTaken
<1>5. CASE CloseServer(p)
  <2>1. daemon[p].phase \in {"stopping", "aborting"} /\ daemon[p].pc = 1
    BY <1>5, DueAt DEF CloseServer, IInv
  <2>2. Rest /\ UNCHANGED <<lockFile, history>>
    BY <1>3, <1>5 DEF CloseServer, Rest
  <2> DEFINE d == [daemon[p] EXCEPT !.listening = FALSE]
  <2>3. /\ d \in States /\ d.phase = daemon[p].phase /\ d.pc = daemon[p].pc
        /\ d.opened = daemon[p].opened /\ d.holds = daemon[p].holds
    BY <1>1, <1>3 DEF States
  <2>4. Become(p, Done(d))
    BY <1>5 DEF CloseServer
  <2> HIDE DEF d
  <2> QED BY <2>1, <2>2, <2>3, <2>4, NextStep
<1>6. CASE LoadRecord(p)
  <2>1. daemon[p].phase = "stopping" /\ daemon[p].pc = 2
    BY <1>6, DueAt DEF LoadRecord, IInv
  <2>2. Rest /\ UNCHANGED <<lockFile, history>>
    BY <1>3, <1>6 DEF LoadRecord, Rest
  <2> DEFINE d == [daemon[p] EXCEPT !.loaded = record]
  <2>3. /\ d \in States /\ d.phase = daemon[p].phase /\ d.pc = daemon[p].pc
        /\ d.opened = daemon[p].opened /\ d.holds = daemon[p].holds
    BY <1>1, <1>3 DEF States
  <2>4. Become(p, Done(d))
    BY <1>6 DEF LoadRecord
  <2> HIDE DEF d
  <2> QED BY <2>1, <2>2, <2>3, <2>4, NextStep
<1>7. CASE WriteRecord(p)
  <2>1. daemon[p].phase = "stopping" /\ daemon[p].pc = 3
    BY <1>7, DueAt DEF WriteRecord, IInv
  <2>2. record' \in Records
    BY <1>1, <1>3, <1>7 DEF WriteRecord, Records
  <2>3. Rest /\ UNCHANGED <<lockFile, history>>
    BY <1>3, <1>7, <2>2 DEF WriteRecord, Rest
  <2> QED BY <1>1, <1>7, <2>1, <2>3, NextStep DEF WriteRecord
<1>8. CASE Unlock(p)
  <2> DEFINE d == [daemon[p] EXCEPT !.holds = None]
  <2>1. \/ daemon[p].phase = "stopping" /\ daemon[p].pc = 5
        \/ daemon[p].phase = "aborting" /\ daemon[p].pc = 3
    BY <1>8, DueAt DEF Unlock, IInv
  <2>2. d \in States /\ d.phase = daemon[p].phase /\ d.pc = daemon[p].pc
    BY <1>1, <1>3 DEF States
  <2>3. Become(p, Done(d)) /\ Rest /\ UNCHANGED <<lockFile, history>>
    BY <1>3, <1>8 DEF Unlock, Rest
  <2> HIDE DEF d
  <2>4. Done(d) = [Fresh EXCEPT !.phase = "gone"]
    BY <2>1, <2>2, DoneIs
  <2> QED BY <2>3, <2>4, FreshStep
<1>9. CASE Crash(p)
  BY <1>3, <1>9, FreshStep DEF Crash, Rest
<1> QED BY <1>4, <1>5, <1>6, <1>7, <1>8, <1>9

\* Neither of prune's steps touches a daemon or the lock.
LEMMA PruneSteps ==
  ASSUME IInv, PlanPrune \/ Deregister
  PROVE  IInv'
<1>1. UNCHANGED <<lockFile, socket, daemon>> /\ history'.overlapped = history.overlapped
  BY DEF PlanPrune, Deregister, IInv, Typed
<1>2. NoRecord \in Records
  BY DEF NoRecord, Records, Files
<1>3. ListedRunning \in BOOLEAN
  BY DEF ListedRunning
<1>4. Typed'
  <2>1. CASE PlanPrune
    BY <2>1 DEF PlanPrune, IInv, Typed
  <2>2. CASE Deregister
    <3>1. history' \in [overlapped : BOOLEAN, forgotten : BOOLEAN]
      BY <1>3, <2>2 DEF Deregister, IInv, Typed
    <3> QED BY <1>2, <2>2, <3>1 DEF Deregister, IInv, Typed
  <2> QED BY <2>1, <2>2
<1>5. (\A p \in Daemons : Sound(daemon[p]))' /\ LocksExclude' /\ OwnersHoldTheNamed'
  BY <1>1 DEF IInv, LocksExclude, OwnersHoldTheNamed
<1> QED BY <1>4, <1>5 DEF IInv

-----------------------------------------------------------------------------
(* The theorems *)

\* Every daemon is new, nothing is locked, and no path is taken.
LEMMA InitIInv ==
  ASSUME Init
  PROVE  IInv
<1>2. Fresh \in States /\ Sound(Fresh) /\ Fresh.holds = None /\ ~Owns(Fresh)
  BY FreshTyped DEF Fresh
<1>3. \A p \in Daemons : daemon[p] = Fresh
  BY DEF Init
<1>4. Typed
  BY <1>2 DEF Init, Typed, Files, NoRecord, Records
<1> QED BY <1>2, <1>3, <1>4 DEF IInv, LocksExclude, OwnersHoldTheNamed

\* Every step of the instance keeps the invariant.
LEMMA NextIInv ==
  ASSUME IInv, [Next]_vars
  PROVE  IInv'
<1>1. CASE UNCHANGED vars
  BY <1>1 DEF vars, IInv, Typed, LocksExclude, OwnersHoldTheNamed
<1>2. CASE Next
  BY <1>2, OpenLockStep, TryLockStep, UnlinkStep, StartSteps, StopSteps, PruneSteps DEF Next
<1> QED BY <1>1, <1>2

\* The typing, and which lock is whose, at every moment of the instance's life.
LEMMA Invariant == Spec => []IInv
BY InitIInv, NextIInv, PTL DEF Spec

\* Two daemons never use one database: through every start, failed start,
\* shutdown and crash, of any number of daemons, unless one of them locked a
\* lock file that a release had already unlinked.
THEOREM OneOwnerHolds == Spec => []OneOwner
<1>1. IInv => OneOwner
  <2> SUFFICES ASSUME IInv, ~history.overlapped, NEW p \in Daemons, NEW q \in Daemons,
                      Owns(daemon[p]), Owns(daemon[q])
               PROVE  p = q
    BY DEF OneOwner, ExclusiveOwner
  <2>1. daemon[p].holds = daemon[q].holds
    BY DEF IInv, OwnersHoldTheNamed
  <2>2. daemon[p].holds # None
    BY OwnersHold
  <2> QED BY <2>1, <2>2 DEF IInv, LocksExclude
<1> QED BY <1>1, Invariant, PTL

\* Every path, record and daemon keeps its type, and a daemon locks nothing but
\* the file it opened.
THEOREM TypeCorrect == Spec => []TypeOK
<1>1. IInv => TypeOK
  BY DEF IInv, Typed, TypeOK, Sound, States, Phases, Records
<1> QED BY <1>1, Invariant, PTL

-----------------------------------------------------------------------------
(* Reachability.                                                            *)
(*                                                                          *)
(* RunningIsReachable is inductive only together with what the start and    *)
(* the end of a daemon's service owe it: the path is clear from `clear` to  *)
(* `bind`, and the socket is the daemon's from `bind` to `close`.  Whoever  *)
(* writes the socket or the record in between is an owner, so it is this    *)
(* daemon (OneOwner), or the prune that the property excepts.               *)

Serving(d) ==
  \/ d.phase = "starting" /\ d.pc = 5
  \/ d.phase = "running"
  \/ d.phase \in {"stopping", "aborting"} /\ d.pc = 1

Reachable(p) ==
  /\ daemon[p].phase = "starting" /\ daemon[p].pc = 4 => socket = None
  /\ Serving(daemon[p]) => socket = p
  /\ daemon[p].phase = "running" /\ ~history.forgotten
       => record = [pid |-> p, stopped |-> FALSE]

ReachInv == ~history.overlapped => \A p \in Daemons : Reachable(p)

\* Only an owner has anything to be reached for.
LEMMA OwnersServe ==
  ASSUME IInv, NEW p \in Daemons, ~Owns(daemon[p])
  PROVE  /\ ~(daemon[p].phase = "starting" /\ daemon[p].pc = 4)
         /\ ~Serving(daemon[p]) /\ daemon[p].phase # "running"
<1>1. daemon[p] \in States /\ Sound(daemon[p])
  BY DEF IInv, Typed
<1>2. QED
  BY <1>1, OwnsWhile DEF Serving, Sound, States

\* While no unlinked file was locked, an owner is the only one.
LEMMA OwnerAlone ==
  ASSUME IInv, ~history.overlapped,
         NEW p \in Daemons, NEW q \in Daemons, Owns(daemon[p]), Owns(daemon[q])
  PROVE  p = q
<1>1. daemon[p].holds = lockFile /\ daemon[q].holds = lockFile
  BY DEF IInv, OwnersHoldTheNamed
<1>2. daemon[p].holds # None
  BY OwnersHold
<1>3. QED
  BY <1>1, <1>2 DEF IInv, LocksExclude

\* What a daemon's own step makes of its reachability.
LEMMA MoverIsReachable ==
  ASSUME IInv, NEW p \in Daemons, Reachable(p),
         \/ Launch(p) \/ OpenLock(p) \/ TryLock(p) \/ ClearSocket(p) \/ Bind(p) \/ Register(p)
         \/ StartFails(p) \/ BeginShutdown(p) \/ CloseServer(p) \/ LoadRecord(p)
         \/ WriteRecord(p) \/ Unlink(p) \/ Unlock(p) \/ Crash(p)
  PROVE  Reachable(p)'
<1> DEFINE d == daemon[p]
           Goes(phase, pc) == daemon'[p].phase = phase /\ daemon'[p].pc = pc
<1>1. /\ daemon \in [Daemons -> States] /\ d \in States /\ d.pc \in 1..5
      /\ d.loaded \in Records /\ record \in Records
  BY DEF IInv, Typed, States
<1>2. ASSUME NEW e, Become(p, e) PROVE daemon'[p] = e
  BY <1>1, <1>2 DEF Become
<1>3. ASSUME NEW ph \in {"new", "refused", "gone", "starting"}, Become(p, [Fresh EXCEPT !.phase = ph])
      PROVE  Reachable(p)'
  <2>1. Goes(ph, 1)
    BY <1>2, <1>3 DEF Fresh
  <2>2. QED
    BY <2>1 DEF Reachable, Serving
<1>4. ASSUME NEW e \in States, Become(p, Done(e)), e.phase = d.phase, e.pc = d.pc
      PROVE  /\ d.phase \in {"starting", "stopping"} /\ d.pc < 5 => Goes(d.phase, d.pc + 1)
             /\ d.phase = "starting" /\ d.pc = 5 => Goes("running", 5)
             /\ d.phase = "stopping" /\ d.pc = 5 => Goes("gone", 1)
             /\ d.phase = "aborting" /\ d.pc < 3 => Goes(d.phase, d.pc + 1)
             /\ d.phase = "aborting" /\ d.pc = 3 => Goes("gone", 1)
  <2>1. daemon'[p] = Done(e)
    BY <1>2, <1>4
  <2>2. e \in States /\ e.phase = d.phase /\ e.pc = d.pc
    BY <1>4
  <2>3. QED
    BY <2>1, <2>2, DoneIs DEF States, Fresh
<1>5. CASE Launch(p)
  BY <1>3, <1>5 DEF Launch
<1>6. CASE OpenLock(p)
  <2>1. d.phase = "starting" /\ d.pc = 1 /\ lockFile' \in Files
    BY <1>6, DueAt DEF OpenLock, IInv, Typed, Files
  <2> DEFINE e == [d EXCEPT !.opened = lockFile']
  <2>2. e \in States /\ e.phase = d.phase /\ e.pc = d.pc
    BY <1>1, <2>1 DEF States
  <2>3. Become(p, Done(e))
    BY <1>6 DEF OpenLock
  <2> HIDE DEF e
  <2>4. Goes("starting", 2)
    BY <1>4, <2>1, <2>2, <2>3
  <2>5. QED
    BY <2>4 DEF Reachable, Serving
<1>7. CASE TryLock(p)
  <2>1. d.phase = "starting" /\ d.pc = 2
    BY <1>7, DueAt DEF TryLock, IInv
  <2> DEFINE e == [d EXCEPT !.holds = d.opened]
  <2>2. e \in States /\ e.phase = d.phase /\ e.pc = d.pc
    BY <1>1, <2>1 DEF States
  <2>3. Become(p, Done(e)) \/ Become(p, [Fresh EXCEPT !.phase = "refused"])
    BY <1>7 DEF TryLock
  <2> HIDE DEF e
  <2>4. CASE Become(p, Done(e))
    <3>1. Goes("starting", 3)
      BY <1>4, <2>1, <2>2, <2>4
    <3>2. QED
      BY <3>1 DEF Reachable, Serving
  <2>5. QED
    BY <1>3, <2>3, <2>4
<1>8. CASE ClearSocket(p)
  <2>1. d.phase = "starting" /\ d.pc = 3 /\ socket' = None /\ Become(p, Done(d))
    BY <1>8, DueAt DEF ClearSocket, IInv
  <2>2. Goes("starting", 4)
    BY <1>1, <1>4, <2>1
  <2>3. QED
    BY <2>1, <2>2 DEF Reachable, Serving
<1>9. ASSUME NEW n \in 1..2, Become(p, [d EXCEPT !.phase = "aborting", !.pc = n]),
             n = 1 => socket' = p
      PROVE  Reachable(p)'
  <2>1. Goes("aborting", n)
    BY <1>1, <1>2, <1>9 DEF States
  <2>2. QED
    BY <1>9, <2>1 DEF Reachable, Serving
<1>10. CASE Bind(p)
  <2>1. d.phase = "starting" /\ d.pc = 4
    BY <1>10, DueAt DEF Bind, IInv
  <2> DEFINE e == [d EXCEPT !.listening = TRUE]
  <2>2. e \in States /\ e.phase = d.phase /\ e.pc = d.pc
    BY <1>1, <2>1 DEF States
  <2>3. \/ socket' = p /\ Become(p, Done(e))
        \/ Become(p, [d EXCEPT !.phase = "aborting", !.pc = 2])
    BY <1>10 DEF Bind
  <2> HIDE DEF e
  <2>4. CASE socket' = p /\ Become(p, Done(e))
    <3>1. Goes("starting", 5)
      BY <1>4, <2>1, <2>2, <2>4
    <3>2. QED
      BY <2>4, <3>1 DEF Reachable, Serving
  <2>5. QED
    BY <1>9, <2>3, <2>4
<1>11. CASE Register(p)
  <2>1. d.phase = "starting" /\ d.pc = 5 /\ Become(p, Done(d))
        /\ socket' = socket /\ record' = [pid |-> p, stopped |-> FALSE]
    BY <1>11, DueAt DEF Register, IInv
  <2>2. Goes("running", 5) /\ socket = p
    BY <1>1, <1>4, <2>1 DEF Reachable, Serving
  <2>3. QED
    BY <2>1, <2>2 DEF Reachable, Serving
<1>12. CASE StartFails(p)
  <2>1. \/ Become(p, [d EXCEPT !.phase = "aborting", !.pc = 2])
        \/ /\ d.phase = "starting" /\ d.pc = 5
           /\ Become(p, [d EXCEPT !.phase = "aborting", !.pc = 1])
    BY <1>12, DueAt DEF StartFails, IInv
  <2>2. socket' = socket
    BY <1>12 DEF StartFails
  <2>3. QED
    BY <1>9, <2>1, <2>2 DEF Reachable, Serving
<1>13. CASE BeginShutdown(p)
  <2>1. Goes("stopping", 1) /\ socket' = socket /\ socket = p
    BY <1>1, <1>2, <1>13 DEF BeginShutdown, States, Reachable, Serving
  <2>2. QED
    BY <2>1 DEF Reachable, Serving
<1>14. ASSUME NEW e \in States, e.phase = d.phase, e.pc = d.pc, Become(p, Done(e)),
              d.phase \in {"stopping", "aborting"}
       PROVE  Reachable(p)'
  <2>1. daemon'[p].phase \notin {"starting", "running"} /\ (daemon'[p].phase # "gone" => daemon'[p].pc # 1)
    <3>1. d.phase = "aborting" /\ d.pc \in {4, 5} => FALSE
      BY DEF IInv, Sound
    <3>2. QED
      BY <1>1, <1>4, <1>14, <3>1
  <2>2. QED
    BY <2>1 DEF Reachable, Serving
<1>15. CASE CloseServer(p)
  <2> DEFINE e == [d EXCEPT !.listening = FALSE]
  <2>1. d.phase \in {"stopping", "aborting"} /\ Become(p, Done(e))
    BY <1>15, DueAt DEF CloseServer, IInv
  <2>2. e \in States /\ e.phase = d.phase /\ e.pc = d.pc
    BY <1>1 DEF States
  <2> HIDE DEF e
  <2>3. QED
    BY <1>14, <2>1, <2>2
<1>16. CASE LoadRecord(p)
  <2> DEFINE e == [d EXCEPT !.loaded = record]
  <2>1. d.phase \in {"stopping", "aborting"} /\ Become(p, Done(e))
    BY <1>16, DueAt DEF LoadRecord, IInv
  <2>2. e \in States /\ e.phase = d.phase /\ e.pc = d.pc
    BY <1>1 DEF States
  <2> HIDE DEF e
  <2>3. QED
    BY <1>14, <2>1, <2>2
<1>17. CASE WriteRecord(p) \/ Unlink(p)
  <2>1. d.phase \in {"stopping", "aborting"} /\ Become(p, Done(d))
    BY <1>17, DueAt DEF WriteRecord, Unlink, IInv
  <2>2. QED
    BY <1>1, <1>14, <2>1
<1>18. CASE Unlock(p)
  <2> DEFINE e == [d EXCEPT !.holds = None]
  <2>1. d.phase \in {"stopping", "aborting"} /\ Become(p, Done(e))
    BY <1>18, DueAt DEF Unlock, IInv
  <2>2. e \in States /\ e.phase = d.phase /\ e.pc = d.pc
    BY <1>1 DEF States, Files
  <2> HIDE DEF e
  <2>3. QED
    BY <1>14, <2>1, <2>2
<1>19. CASE Crash(p)
  BY <1>3, <1>19 DEF Crash
<1>20. QED
  BY <1>5, <1>6, <1>7, <1>8, <1>10, <1>11, <1>12, <1>13, <1>15, <1>16, <1>17, <1>18, <1>19

\* Somebody else's step leaves a daemon's reachability alone: what it may write of
\* the socket and the record, it writes as the only owner.
LEMMA OthersStayReachable ==
  ASSUME IInv, ~history.overlapped, NEW p \in Daemons, Reachable(p),
         NEW q \in Daemons \ {p},
         \/ Launch(q) \/ OpenLock(q) \/ TryLock(q) \/ ClearSocket(q) \/ Bind(q) \/ Register(q)
         \/ StartFails(q) \/ BeginShutdown(q) \/ CloseServer(q) \/ LoadRecord(q)
         \/ WriteRecord(q) \/ Unlink(q) \/ Unlock(q) \/ Crash(q)
  PROVE  Reachable(p)'
<1>1. daemon'[p] = daemon[p]
  BY DEF IInv, Typed, Become, Launch, OpenLock, TryLock, ClearSocket, Bind, Register,
         StartFails, BeginShutdown, CloseServer, LoadRecord, WriteRecord, Unlink, Unlock, Crash
<1>2. CASE ClearSocket(q) \/ Bind(q) \/ Register(q) \/ CloseServer(q) \/ WriteRecord(q)
  <2>1. daemon[q] \in States /\ Sound(daemon[q])
    BY DEF IInv, Typed
  <2>2. \/ daemon[q].phase = "starting" /\ daemon[q].pc \in 3..5
        \/ daemon[q].phase \in {"stopping", "aborting"} /\ daemon[q].pc = 1
        \/ daemon[q].phase = "stopping" /\ daemon[q].pc = 3
    BY <1>2, DueAt DEF ClearSocket, Bind, Register, CloseServer, WriteRecord, IInv
  <2>3. Owns(daemon[q])
    BY <2>1, <2>2, OwnsWhile DEF Sound
  <2>4. ~Owns(daemon[p])
    BY <2>3, OwnerAlone
  <2>5. QED
    BY <1>1, <2>4, OwnersServe DEF Reachable, Serving
<1>3. CASE ~(ClearSocket(q) \/ Bind(q) \/ Register(q) \/ CloseServer(q) \/ WriteRecord(q))
  <2>1. UNCHANGED <<socket, record>> /\ history'.forgotten = history.forgotten
    BY <1>3 DEF IInv, Typed, Launch, OpenLock, TryLock, StartFails, BeginShutdown, LoadRecord,
                Unlink, Unlock, Crash
  <2>2. QED
    BY <1>1, <2>1 DEF Reachable, Serving
<1>4. QED
  BY <1>2, <1>3

\* A prune that forgets the record of a daemon that runs by now says so.
LEMMA PruneLeavesReachable ==
  ASSUME IInv, NEW p \in Daemons, Reachable(p), PlanPrune \/ Deregister
  PROVE  Reachable(p)'
<1>1. UNCHANGED <<socket, daemon>>
  BY DEF PlanPrune, Deregister
<1>2. CASE PlanPrune
  BY <1>1, <1>2 DEF PlanPrune, Reachable, Serving
<1>3. CASE Deregister
  <2>1. history'.forgotten = (history.forgotten \/ ListedRunning)
    BY <1>3 DEF Deregister, IInv, Typed
  <2>2. daemon[p].phase = "running" /\ ~history.forgotten => ListedRunning
    <3>1. p # None
      BY InstanceAssumption
    <3>2. QED
      BY <3>1 DEF Reachable, ListedRunning, NoRecord, Alive
  <2>3. QED
    BY <1>1, <2>1, <2>2 DEF Reachable, Serving
<1>4. QED
  BY <1>2, <1>3

\* Every step of the instance keeps its daemons reachable.
LEMMA ReachStep ==
  ASSUME IInv, ReachInv, [Next]_vars
  PROVE  ReachInv'
<1>1. history.overlapped => history'.overlapped
  BY DEF IInv, Typed, Next, vars, Launch, OpenLock, TryLock, ClearSocket, Bind, Register,
         StartFails, BeginShutdown, CloseServer, LoadRecord, WriteRecord, Unlink, Unlock, Crash,
         PlanPrune, Deregister
<1>2. CASE history.overlapped
  BY <1>1, <1>2 DEF ReachInv
<1>3. CASE ~history.overlapped
  <2> SUFFICES ASSUME NEW p \in Daemons PROVE Reachable(p)'
    BY DEF ReachInv
  <2>1. Reachable(p)
    BY <1>3 DEF ReachInv
  <2>2. CASE UNCHANGED vars
    BY <2>1, <2>2 DEF vars, Reachable, Serving
  <2>3. QED
    BY <1>3, <2>1, <2>2, MoverIsReachable, OthersStayReachable, PruneLeavesReachable DEF Next
<1>4. QED
  BY <1>2, <1>3

LEMMA ReachInvariant == Spec => []ReachInv
<1>1. Init => ReachInv
  <2> SUFFICES ASSUME Init, NEW p \in Daemons PROVE Reachable(p)
    BY DEF ReachInv
  <2>1. daemon[p].phase = "new"
    BY DEF Init, Fresh
  <2>2. QED
    BY <2>1 DEF Reachable, Serving
<1>2. QED
  BY <1>1, ReachStep, Invariant, PTL DEF Spec

\* A running daemon answers on the control path and is listed under its own pid,
\* whatever stale files, failed starts and late shutdowns any number of others
\* leave, except for the two windows the history names.
THEOREM RunningStaysReachable == Spec => []RunningIsReachable
<1>1. ReachInv => RunningIsReachable
  BY DEF ReachInv, Reachable, Serving, RunningIsReachable
<1>2. QED
  BY <1>1, ReachInvariant, PTL

\* A step that is done never ends in a refusal.
LEMMA DonePhase ==
  ASSUME NEW e, e.phase # "refused"
  PROVE  Done(e).phase # "refused"
<1>1. CASE e.pc < Len(Order(e.phase))
  <2>1. Done(e) = [e EXCEPT !.pc = e.pc + 1]
    BY <1>1 DEF Done
  <2>2. QED
    BY <2>1
<1>2. CASE ~(e.pc < Len(Order(e.phase)))
  BY <1>2 DEF Done, Fresh
<1>3. QED
  BY <1>1, <1>2

\* The steps that neither try the lock nor bind refuse and abort nobody for a
\* stale file.
LEMMA OthersTurnNobodyAway ==
  ASSUME IInv, NEW p \in Daemons, NEW q \in Daemons, q # p \/ ~(TryLock(p) \/ Bind(p)),
         \/ Launch(q) \/ OpenLock(q) \/ TryLock(q) \/ ClearSocket(q) \/ Bind(q) \/ Register(q)
         \/ StartFails(q) \/ BeginShutdown(q) \/ CloseServer(q) \/ LoadRecord(q)
         \/ WriteRecord(q) \/ Unlink(q) \/ Unlock(q) \/ Crash(q)
  PROVE  /\ daemon[p].phase = "refused" \/ daemon'[p].phase # "refused"
         /\ ~Due(p, "bind") \/ daemon'[p].phase # "aborting"
<1>1. daemon \in [Daemons -> States] /\ daemon[p] \in States
  BY DEF IInv, Typed
<1>2. CASE q # p
  <2>1. daemon'[p] = daemon[p]
    BY <1>1, <1>2 DEF Become, Launch, OpenLock, TryLock, ClearSocket, Bind, Register,
       StartFails, BeginShutdown, CloseServer, LoadRecord, WriteRecord, Unlink, Unlock, Crash
  <2>2. QED
    BY <2>1, DueAt DEF IInv
<1>3. CASE q = p
  <2>1. CASE Launch(p) \/ Crash(p) \/ BeginShutdown(p) \/ StartFails(p)
    <3>1. daemon'[p].phase # "refused"
      <4>1. CASE Launch(p) \/ Crash(p)
        BY <1>1, <4>1 DEF Become, Launch, Crash, Fresh
      <4>2. CASE BeginShutdown(p)
        BY <1>1, <4>2 DEF Become, BeginShutdown, States
      <4>3. CASE StartFails(p)
        BY <1>1, <4>3 DEF Become, StartFails, States
      <4>4. QED
        BY <2>1, <4>1, <4>2, <4>3
    <3>2. Due(p, "bind") => daemon'[p].phase # "aborting"
      <4>1. Due(p, "bind") => ~Launch(p) /\ ~BeginShutdown(p) /\ ~StartFails(p)
        BY DueAt DEF Launch, BeginShutdown, StartFails, IInv
      <4>2. Crash(p) => daemon'[p].phase = "gone"
        BY <1>1 DEF Crash, Become, Fresh
      <4>3. QED
        BY <2>1, <4>1, <4>2
    <3>3. QED
      BY <3>1, <3>2
  <2>2. CASE \/ OpenLock(p) \/ ClearSocket(p) \/ Register(p) \/ CloseServer(p) \/ LoadRecord(p)
             \/ WriteRecord(p) \/ Unlink(p) \/ Unlock(p)
    <3>1. ~Due(p, "bind") /\ daemon[p].phase # "refused"
      BY <2>2, DueAt DEF IInv, OpenLock, ClearSocket, Register, CloseServer, LoadRecord,
         WriteRecord, Unlink, Unlock
    <3>2. ASSUME NEW e, e.phase = daemon[p].phase, Become(p, Done(e))
          PROVE  daemon'[p].phase # "refused"
      <4>1. daemon'[p] = Done(e)
        BY <1>1, <3>2 DEF Become
      <4>2. QED
        BY <3>1, <3>2, <4>1, DonePhase
    <3>3. CASE OpenLock(p)
      <4> DEFINE e == [daemon[p] EXCEPT !.opened = lockFile']
      <4>1. e.phase = daemon[p].phase /\ Become(p, Done(e))
        BY <1>1, <3>3 DEF OpenLock, States
      <4> HIDE DEF e
      <4>2. QED
        BY <3>1, <3>2, <4>1
    <3>4. CASE CloseServer(p)
      <4> DEFINE e == [daemon[p] EXCEPT !.listening = FALSE]
      <4>1. e.phase = daemon[p].phase /\ Become(p, Done(e))
        BY <1>1, <3>4 DEF CloseServer, States
      <4> HIDE DEF e
      <4>2. QED
        BY <3>1, <3>2, <4>1
    <3>5. CASE LoadRecord(p)
      <4> DEFINE e == [daemon[p] EXCEPT !.loaded = record]
      <4>1. e.phase = daemon[p].phase /\ Become(p, Done(e))
        BY <1>1, <3>5 DEF LoadRecord, States
      <4> HIDE DEF e
      <4>2. QED
        BY <3>1, <3>2, <4>1
    <3>6. CASE Unlock(p)
      <4> DEFINE e == [daemon[p] EXCEPT !.holds = None]
      <4>1. e.phase = daemon[p].phase /\ Become(p, Done(e))
        BY <1>1, <3>6 DEF Unlock, States
      <4> HIDE DEF e
      <4>2. QED
        BY <3>1, <3>2, <4>1
    <3>7. CASE ClearSocket(p) \/ Register(p) \/ WriteRecord(p) \/ Unlink(p)
      BY <3>1, <3>2, <3>7 DEF ClearSocket, Register, WriteRecord, Unlink
    <3>8. QED
      BY <2>2, <3>3, <3>4, <3>5, <3>6, <3>7
  <2>3. QED
    BY <1>3, <2>1, <2>2
<1>4. QED
  BY <1>2, <1>3

\* A start is refused only by a daemon that holds the lock, and none is aborted
\* for a socket file that is still there: the daemon that cleared the path is
\* the only owner until it has bound it.
THEOREM StaleFilesNeverRefuse == Spec => StaleFilesDoNotRefuse
<1> DEFINE Turned(p) == \/ daemon[p].phase # "refused" /\ daemon'[p].phase = "refused"
                        \/ Due(p, "bind") /\ daemon'[p].phase = "aborting"
<1>1. ASSUME IInv, ReachInv, [Next]_vars, NEW p \in Daemons, Turned(p)
      PROVE  history.overlapped \/ \E q \in Daemons \ {p} : Alive(q)
  <2> SUFFICES ASSUME ~history.overlapped
               PROVE  \E q \in Daemons \ {p} : Alive(q)
    OBVIOUS
  <2>1. /\ daemon \in [Daemons -> States] /\ daemon[p] \in States
        /\ Sound(daemon[p]) /\ Reachable(p)
    BY <1>1 DEF IInv, Typed, ReachInv
  <2>2. CASE TryLock(p)
    <3>1. daemon[p].phase = "starting" /\ daemon[p].pc = 2
      BY <1>1, <2>2, DueAt DEF TryLock, IInv
    <3>2. daemon[p].holds = None /\ daemon[p].opened # None
      BY <2>1, <3>1 DEF Sound
    <3>3. PICK q \in Daemons : daemon[q].holds = daemon[p].opened
      <4> DEFINE e == [daemon[p] EXCEPT !.holds = daemon[p].opened]
      <4>1. e.phase = "starting"
        BY <2>1, <3>1 DEF States
      <4>2. \/ Become(p, Done(e))
            \/ \E q \in Daemons : daemon[q].holds = daemon[p].opened
        BY <2>2 DEF TryLock
      <4>3. ~Due(p, "bind")
        BY <1>1, <3>1, DueAt DEF IInv
      <4> HIDE DEF e
      <4>4. ASSUME Become(p, Done(e)) PROVE FALSE
        <5>1. daemon'[p] = Done(e)
          BY <2>1, <4>4 DEF Become
        <5>2. QED
          BY <1>1, <4>1, <4>3, <5>1, DonePhase
      <4>5. QED
        BY <4>2, <4>4
    <3>4. q # p /\ Sound(daemon[q])
      BY <1>1, <3>2, <3>3 DEF IInv
    <3>5. Alive(q)
      BY <3>2, <3>3, <3>4 DEF Alive, Sound
    <3>6. QED
      BY <3>4, <3>5
  <2>3. CASE Bind(p)
    <3>1. daemon[p].phase = "starting" /\ daemon[p].pc = 4 /\ socket = None
      BY <1>1, <2>1, <2>3, DueAt DEF Bind, IInv, Reachable
    <3> DEFINE e == [daemon[p] EXCEPT !.listening = TRUE]
    <3>2. e \in States /\ e.phase = "starting" /\ e.pc = 4 /\ Become(p, Done(e))
      BY <2>1, <2>3, <3>1 DEF Bind, States
    <3> HIDE DEF e
    <3>3. daemon'[p].phase = "starting"
      <4>1. Done(e) = [e EXCEPT !.pc = e.pc + 1] /\ daemon'[p] = Done(e)
        BY <2>1, <3>2, DoneIs DEF Become
      <4>2. QED
        BY <3>2, <4>1 DEF States
    <3>4. QED
      BY <1>1, <3>3
  <2>4. CASE UNCHANGED daemon
    BY <1>1, <2>4, DueAt DEF IInv
  <2>5. CASE ~TryLock(p) /\ ~Bind(p) /\ ~UNCHANGED daemon
    <3>1. PICK q \in Daemons :
            \/ Launch(q) \/ OpenLock(q) \/ TryLock(q) \/ ClearSocket(q) \/ Bind(q) \/ Register(q)
            \/ StartFails(q) \/ BeginShutdown(q) \/ CloseServer(q) \/ LoadRecord(q)
            \/ WriteRecord(q) \/ Unlink(q) \/ Unlock(q) \/ Crash(q)
      BY <1>1, <2>5 DEF Next, vars, PlanPrune, Deregister
    <3>2. QED
      BY <1>1, <2>5, <3>1, OthersTurnNobodyAway
  <2>6. QED
    BY <2>2, <2>3, <2>4, <2>5
<1>2. IInv /\ ReachInv /\ [Next]_vars =>
        [\A p \in Daemons :
           \/ daemon[p].phase # "refused" /\ daemon'[p].phase = "refused"
           \/ Due(p, "bind") /\ daemon'[p].phase = "aborting"
           => history.overlapped \/ \E q \in Daemons \ {p} : Alive(q)]_vars
  BY <1>1
<1>3. QED
  BY <1>2, Invariant, ReachInvariant, PTL DEF Spec, StaleFilesDoNotRefuse
=============================================================================
