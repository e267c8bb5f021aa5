----------------------------- MODULE MCFollows -----------------------------
(* Follows for TLC, started with one id in the file: the ids have the same  *)
(* part in it, so what is reached from another is the same but for names.   *)
EXTENDS Follows

OneIdInit == Init /\ file = IdOnly(CHOOSE s \in Sids : TRUE)

OneIdSpec == OneIdInit /\ [][Next]_vars /\ Fairness
=============================================================================
