----------------------------- MODULE MCAchievement -----------------------------
(* Achievement with one user, scaled levels and symmetric handlers. *)
EXTENDS Achievement, TLC

Symmetric == Permutations(Handlers)
================================================================================
