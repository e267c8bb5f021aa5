------------------------------ MODULE Settings -------------------------------
(***************************************************************************)
(* Installing the hooks: the commands that put birddog's handlers into the *)
(* settings file an operator owns, and take them out again.                *)
(*                                                                         *)
(* A command reads the file, keeps a copy of it, writes the new document   *)
(* to a temporary file beside it and renames that into place.  Two         *)
(* commands may overlap, and share the temporary file's name; the operator *)
(* may save the file in between; and a command may die at any step, also   *)
(* between emptying a file and writing it.  Handlers are kept by event;    *)
(* the groups they come in are left out.                                   *)
(*                                                                         *)
(* What runs the handlers is in Hooks.  The names of the two modules       *)
(* differ, so that one module can extend both.                             *)
(***************************************************************************)
EXTENDS Naturals, FiniteSets, Sequences, SequencesExt

CONSTANTS
  Events,    \* the events birddog asks to be told of
  Others,    \* events only the operator has handlers for
  Binaries,  \* the programs birddog has been installed as
  Named,     \* those of them whose file is named birddog
  Theirs,    \* the operator's own handlers
  Runs,      \* commands
  Uninstall, \* what a command that takes the handlers out is asked for
  Torn,      \* what a file holds that is neither blank nor a document
  Blank,     \* what an empty file holds
  Missing,   \* a file that is not there
  MaxSaves   \* bound: saves by the operator

\* What a settings file says: the operator's own keys, of which only the version
\* matters, and the handlers of every event.  An event without any is not mentioned.
Documents == [own : 0..MaxSaves, hooks : [Events \cup Others -> Seq(Theirs \cup Binaries)]]

ASSUME SettingsAssumption ==
  /\ IsFiniteSet(Runs)
  /\ Events # {} /\ Binaries \cap Theirs = {} /\ Uninstall \notin Binaries
  /\ Named \subseteq Binaries
  /\ Torn # Blank /\ Torn # Missing /\ Blank # Missing
  /\ \A x \in {Torn, Blank, Missing} : x \notin Documents
  /\ MaxSaves \in Nat

VARIABLES
  inode,    \* inode[i]: what a file holds, Missing if there is no such file
  path,     \* the inode of the settings file, 0 if there is none
  tmp,      \* the inode of the temporary file, 0 if there is none
  backup,   \* what the backup holds, Missing at first
  run,      \* run[r]: what the command does and has read
  saves,    \* saves by the operator so far
  raced,    \* history: commands during which another ran or the operator saved
  unread,   \* history: commands that could not read the file to copy it
  last      \* history: the document the operator saved last

installVars == <<inode, path, tmp, backup, run, saves, raced, unread, last>>

\* One for each command and two names.
Inodes == 1..(Cardinality(Runs) + 2)

-----------------------------------------------------------------------------
(* Documents.                                                                *)

Empty == [own |-> 0, hooks |-> [e \in Events \cup Others |-> <<>>]]

\* What an operator may have installed birddog as, and birddog does not recognise.
Unnamed == Binaries \ Named

\* What is left of a list without some handlers.
Without(handlers, gone) ==
  LET kept[n \in 0..Len(handlers)] ==
        IF n = 0 THEN <<>>
        ELSE IF handlers[n] \in gone THEN kept[n - 1]
        ELSE Append(kept[n - 1], handlers[n])
  IN  kept[Len(handlers)]

\* A handler is recognised by the name of the program it runs.
IsBirddog(h) == h \in Named

WithoutBirddog(handlers) == Without(handlers, Named)

\* One event with the handler taken for all of them.
MatchesSome(doc, binary) == \E e \in Events : binary \in ToSet(doc.hooks[e])

MatchesInstall(doc, binary) == \A e \in Events : binary \in ToSet(doc.hooks[e])

Installed(doc, binary) ==
  [doc EXCEPT !.hooks = [e \in Events \cup Others |->
     IF e \in Events THEN Append(WithoutBirddog(doc.hooks[e]), binary) ELSE doc.hooks[e]]]

Uninstalled(doc) ==
  [doc EXCEPT !.hooks = [e \in Events \cup Others |-> WithoutBirddog(doc.hooks[e])]]

\* The document the command leaves, the one it read if nothing is to change.
Result(doc, ask) ==
  IF ask = Uninstall THEN Uninstalled(doc)
  ELSE IF MatchesInstall(doc, ask) THEN doc
  ELSE Installed(doc, ask)

\* hooks.Status.
Status(doc) ==
  LET found == {e \in Events : \E h \in ToSet(doc.hooks[e]) : IsBirddog(h)}
  IN  CASE found = Events -> "installed" [] found = {} -> "missing" [] OTHER -> "partial"

-----------------------------------------------------------------------------
(* One command. *)

Start == [at |-> "start", ask |-> Uninstall, doc |-> Empty, copy |-> Blank, fd |-> 0]

File == IF path = 0 THEN Missing ELSE inode[path]

IsDocument == File \notin {Missing, Blank, Torn}

Busy == {r \in Runs : run[r].at \notin {"start", "done", "failed"}}

Become(r, at) == run' = [run EXCEPT ![r].at = at]

Ends(r, at) == run' = [run EXCEPT ![r] = [Start EXCEPT !.at = at, !.ask = run[r].ask]]

\* After a step a file that has lost its last name is gone, unless it is open.
Kept(files) ==
  [i \in Inodes |-> IF i \in {path', tmp'} \/ \E r \in Runs : run'[r].fd = i
                    THEN files[i] ELSE Missing]

\* A file just created.
Fresh == Min({i \in Inodes : inode[i] = Missing})

\* readSettings: a missing or blank file is empty, one that is not a document is
\* refused.  A command that changes nothing ends there.
Read(r, ask) ==
  /\ run[r].at = "start"
  /\ LET doc == IF File \in {Missing, Blank} THEN Empty ELSE File
     IN  run' = [run EXCEPT ![r].ask = ask,
                            ![r].at = CASE doc = Torn -> "failed"
                                        [] doc # Torn /\ Result(doc, ask) = doc -> "done"
                                        [] OTHER -> "backup",
                            ![r].doc = IF doc = Torn \/ Result(doc, ask) = doc THEN Empty
                                       ELSE Result(doc, ask)]
  /\ raced' = IF Busy = {} THEN raced ELSE raced \cup Busy \cup {r}
  /\ UNCHANGED <<inode, path, tmp, backup, saves, unread, last>>

\* The copy made only once, and kept for good.
EmptyBackupOnce(r) ==
  /\ run[r].at = "backup"
  /\ UNCHANGED <<inode, path, tmp, saves, raced, last>>
  /\ \/ /\ File # Missing /\ backup = Missing
        /\ run' = [run EXCEPT ![r].at = "copy", ![r].copy = File]
        /\ backup' = Blank /\ unread' = unread
     \/ /\ run' = [run EXCEPT ![r].at = "open"]
        /\ backup' = backup
        /\ unread' = IF File = Missing \/ backup # Missing THEN unread ELSE unread \cup {r}

\* What is there is read, and the backup emptied for it.  Nothing needs no copy, and
\* what cannot be read any more gets none.
EmptyBackup(r) ==
  /\ run[r].at = "backup"
  /\ UNCHANGED <<inode, path, tmp, saves, raced, last>>
  /\ \/ /\ File # Missing
        /\ run' = [run EXCEPT ![r].at = "copy", ![r].copy = File]
        /\ backup' = Blank /\ unread' = unread
     \/ /\ run' = [run EXCEPT ![r].at = "open"]
        /\ backup' = backup
        /\ unread' = IF File = Missing THEN unread ELSE unread \cup {r}

WriteBackup(r) ==
  /\ run[r].at = "copy"
  /\ backup' = run[r].copy
  /\ run' = [run EXCEPT ![r].at = "open", ![r].copy = Blank]
  /\ UNCHANGED <<inode, path, tmp, saves, raced, unread, last>>

\* The new document written over the old one.
OpenInPlace(r) ==
  /\ run[r].at = "open" /\ path # 0
  /\ inode' = [inode EXCEPT ![path] = Blank]
  /\ tmp' = path
  /\ run' = [run EXCEPT ![r].at = "write", ![r].fd = path]
  /\ UNCHANGED <<path, backup, saves, raced, unread, last>>

\* The temporary file is emptied if it is there, and created if not.
OpenTmp(r) ==
  /\ run[r].at = "open"
  /\ tmp' = IF tmp = 0 THEN Fresh ELSE tmp
  /\ inode' = [inode EXCEPT ![tmp'] = Blank]
  /\ run' = [run EXCEPT ![r].at = "write", ![r].fd = tmp']
  /\ UNCHANGED <<path, backup, saves, raced, unread, last>>

\* Into whatever file was opened.  Over another document of the same file the
\* longer of the two leaves its end behind.
WriteTmp(r) ==
  /\ run[r].at = "write"
  /\ run' = [run EXCEPT ![r].at = "rename", ![r].doc = Empty, ![r].fd = 0]
  /\ UNCHANGED <<path, tmp, backup, saves, raced, unread, last>>
  /\ \E written \in {run[r].doc} \cup (IF inode[run[r].fd] = Blank THEN {} ELSE {Torn}) :
       inode' = Kept([inode EXCEPT ![run[r].fd] = written])

\* The name is renamed, whoever wrote the file; another command may have done it.
Rename(r) ==
  /\ run[r].at = "rename"
  /\ Ends(r, IF tmp = 0 THEN "failed" ELSE "done")
  /\ path' = IF tmp = 0 THEN path ELSE tmp
  /\ tmp' = 0
  /\ inode' = Kept(inode)
  /\ UNCHANGED <<backup, saves, raced, unread, last>>

CommandDies(r) ==
  /\ r \in Busy
  /\ Ends(r, "failed")
  /\ UNCHANGED <<path, tmp, backup, saves, raced, unread, last>>
  /\ inode' = Kept(inode)

\* What an operator makes of the handlers of an event.
Edited(handlers) ==
  {Append(handlers, h) : h \in Theirs \ ToSet(handlers)}
    \cup {Without(handlers, {h}) : h \in ToSet(handlers)}

\* The operator, or Claude Code, saves the file with something changed in it.
Save ==
  /\ saves < MaxSaves /\ saves' = saves + 1
  /\ File # Torn
  /\ UNCHANGED <<tmp, backup, run, unread>>
  /\ LET doc == IF File \in {Missing, Blank} THEN Empty ELSE File
     IN  \E e \in Events \cup Others : \E handlers \in Edited(doc.hooks[e]) :
           LET saved == [own |-> saves + 1, hooks |-> [doc.hooks EXCEPT ![e] = handlers]]
           IN  /\ path' = Fresh /\ last' = saved
               /\ inode' = Kept([inode EXCEPT ![Fresh] = saved])
  /\ raced' = raced \cup Busy

InstallInit ==
  /\ inode = [i \in Inodes |-> Missing]
  /\ path = 0 /\ tmp = 0
  /\ backup = Missing
  /\ run = [r \in Runs |-> Start]
  /\ saves = 0
  /\ raced = {} /\ unread = {} /\ last = Empty

InstallNext ==
  \/ \E r \in Runs : \/ \E ask \in Binaries \cup {Uninstall} : Read(r, ask)
                     \/ EmptyBackup(r) \/ WriteBackup(r)
                     \/ OpenTmp(r) \/ WriteTmp(r) \/ Rename(r)
                     \/ CommandDies(r)
  \/ Save

InstallSpec == InstallInit /\ [][InstallNext]_installVars

-----------------------------------------------------------------------------
(* Properties *)

\* Every variable has its type; the temporary file is never the settings file.
InstallTypeOK ==
  /\ inode \in [Inodes -> Documents \cup {Torn, Blank, Missing}]
  /\ {path, tmp} \subseteq 0..Cardinality(Inodes)
  /\ tmp # 0 => tmp # path
  /\ \A i \in {path, tmp} \ {0} : inode[i] # Missing
  /\ backup \in Documents \cup {Torn, Blank, Missing}
  /\ run \in [Runs -> [at : {"start", "backup", "copy", "open", "write", "rename",
                             "done", "failed"},
                       ask : Binaries \cup {Uninstall}, doc : Documents,
                       copy : Documents \cup {Torn, Blank}, fd : 0..Cardinality(Inodes)]]
  /\ saves \in 0..MaxSaves /\ raced \subseteq Runs /\ unread \subseteq Runs /\ last \in Documents

\* A command that dies cannot leave the operator with a truncated settings file
\* (cli/hooks.go writeSettings), nor what it left behind make a later one do it,
\* unless two commands ran side by side.
NeverTruncated == File \in {Torn, Blank} => Cardinality(raced) > 1

\* The operator's handlers stay, in order, and so does every other key (docs/cli.md:703),
\* over any sequence of installs, uninstalls and deaths that nothing overlapped.
TheirsKept ==
  raced = {} /\ IsDocument =>
    /\ File.own = last.own
    /\ \A e \in Events \cup Others :
         Without(File.hooks[e], Binaries) = Without(last.hooks[e], Binaries)

\* The settings file is the operator's: never torn, and what is theirs in it stays.
FileIsKept == InstallTypeOK /\ NeverTruncated /\ TheirsKept

\* What a command replaces is in the backup when it is replaced, whatever became of
\* the commands before, unless it could no longer be read then (cli/hooks.go
\* writeSettings).
ReplacedIsBackedUp ==
  [][\A r \in Runs : run[r].at = "rename" /\ run'[r].at = "done" /\ r \notin raced \cup unread
                      /\ File # Missing => backup = File]_installVars

\* A command that reports success leaves every event with the handler asked for, and
\* with no other of a program named birddog, or with none of those at all; also over an
\* install cut short or partly removed by hand (hooks/install.go Install, Uninstall,
\* matchesInstall, Status).
SuccessIsComplete ==
  [][\A r \in Runs : run[r].at # "done" /\ run'[r].at = "done" /\ r \notin raced' =>
       /\ IsDocument' =>
            /\ run'[r].ask = Uninstall => Status(File') = "missing"
            /\ run'[r].ask # Uninstall => MatchesInstall(File', run'[r].ask)
            /\ run'[r].ask \in Named =>
                 \A e \in Events :
                   Without(File'.hooks[e], Theirs \cup Unnamed) = <<run'[r].ask>>
       /\ ~IsDocument' => run'[r].ask = Uninstall]_installVars
=============================================================================
