------------------------------ MODULE MCSubtasks ------------------------------
(* Two children, the second of which asks for less than its share.          *)
EXTENDS Subtasks, TLC

MCRequested == [c \in 1 .. N |-> IF c = 2 THEN 1 ELSE MaxSpend]
=============================================================================
