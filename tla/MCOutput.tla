---- MODULE MCOutput ----
(* Two Commands that write at most two blocks, or one. *)
EXTENDS CommandOutput, TLC
CONSTANTS c1, c2
Limits == [c \in Commands |-> IF c = c1 THEN 2 ELSE 1]
====
