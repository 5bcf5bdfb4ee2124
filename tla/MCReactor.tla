------------------------------ MODULE MCReactor ------------------------------
(* Model-checking instance of Reactor: two other threads queue tasks.      *)
EXTENDS Reactor

CONSTANTS s1, s2

MCSubmitters == {s1, s2}
MCMaxTasks == 4
=============================================================================
