------------------------------- MODULE MCHooks -------------------------------
(* Calls of two agents for TLC: a question whose request carries no id, and *)
(* two calls of one tool, one of them a subagent's.                         *)
EXTENDS Hooks

CONSTANTS c1, c2, c3, main, sub

MainOrSub == [c \in Calls |-> IF c = c3 THEN sub ELSE main]
Named == [c \in Calls |-> IF c = c1 THEN "AskUserQuestion" ELSE "Bash"]
=============================================================================
