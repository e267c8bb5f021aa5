---------------------------- MODULE MCWatchList ----------------------------
(* One target, the files and requests that decide its deadline, for TLC.    *)
EXTENDS WatchList

CONSTANTS t1, k1, k2, c1, c2

Plain == [asks |-> TRUE, deadline |-> 0, after |-> 0, quiet |-> 0]
Relative == [Plain EXCEPT !.after = 1]
Narrow == [Plain EXCEPT !.asks = FALSE]

File(list) == [targets |-> list, follow |-> TRUE, retention |-> 0]
One(entry) == [x \in {t1} |-> entry]

NoTargets == [File([x \in {} |-> None]) EXCEPT !.follow = FALSE]

Request == [op |-> "sync", key |-> NoKey, target |-> None, entry |-> None,
            fields |-> None, content |-> None]
Nothing == [asks |-> Keep, deadline |-> Keep, quiet |-> Keep]

Move == [Request EXCEPT !.op = "update", !.key = k1, !.target = t1,
                        !.fields = [Nothing EXCEPT !.deadline = 2]]
Clear == [Request EXCEPT !.op = "update", !.target = t1,
                         !.fields = [Nothing EXCEPT !.deadline = 0, !.asks = FALSE]]
Quiet == [Request EXCEPT !.op = "update", !.target = t1,
                         !.fields = [Nothing EXCEPT !.quiet = 3]]
Add == [Request EXCEPT !.op = "add", !.target = t1, !.entry = Narrow]
AddDeadline == [Request EXCEPT !.op = "addInMemory", !.target = t1,
                               !.entry = [Plain EXCEPT !.deadline = 2]]
Remove == [Request EXCEPT !.op = "remove", !.target = t1]
FromDisk == [Request EXCEPT !.key = k2, !.content = FromFile]

AllContents == {File(One(Plain)), [File(One(Relative)) EXCEPT !.retention = 1],
                File(One(Narrow)), NoTargets}
AllRequests == {Move, Clear, Quiet, Add, AddDeadline, Remove, FromDisk}
=============================================================================
