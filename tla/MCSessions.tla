----------------------------- MODULE MCSessions -----------------------------
(***************************************************************************)
(* Two processes, two requests at a time, two tokens and one OAuth state.  *)
(***************************************************************************)
EXTENDS Sessions, TLC

CONSTANTS p1, p2, r1, r2, t1, t2, s1

\* No property tells the processes, the requests or the tokens apart.
MCSymmetry == Permutations(Processes) \cup Permutations(Requests) \cup Permutations(Tokens)
=============================================================================
