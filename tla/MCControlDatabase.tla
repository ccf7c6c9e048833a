------------------------- MODULE MCControlDatabase -------------------------
(***************************************************************************)
(* Two demo applications, one without a key row, and one more name, of     *)
(* which the memory store makes the demo key of the first; what it makes   *)
(* of the first's own name looks like that key rotated. Three migration    *)
(* files.                                                                  *)
(***************************************************************************)
EXTENDS ControlDatabase, TLC

CONSTANTS demo, lab, other, slug1, slug2, ann, m1, m2, c1, c2

Of(s) == [of |-> s, rotated |-> <<>>]
MCSlug == (demo :> [of |-> slug1, rotated |-> <<0>>]) @@ (lab :> Of(slug2)) @@ (other :> Of(slug1))
MCDemoSlug == (demo :> slug1) @@ (lab :> slug2)
=============================================================================
