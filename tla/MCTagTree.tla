------------------------------- MODULE MCTagTree -------------------------------
(* TagTree with four tags and two overlapping commands. *)
EXTENDS TagTreeQuery, TLC

Symmetric == Permutations(Sessions)
================================================================================
