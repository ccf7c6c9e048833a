--------------------------- MODULE MCGatewayProxy ---------------------------
(* Small instances of GatewayProxy for TLC.                                *)
EXTENDS GatewayProxy, TLC

CONSTANTS llm, a, b, h1, h2

Plain == [route |-> llm, explicit |-> <<>>, fallback |-> <<>>,
          canary |-> <<>>, rotates |-> FALSE,
          retries |-> 0, stream |-> FALSE, wellFormed |-> TRUE]
Retrying == [Plain EXCEPT !.retries = 1, !.canary = <<b>>]
Streaming == [Plain EXCEPT !.stream = TRUE]
Direct == [Streaming EXCEPT !.explicit = <<b, b>>, !.fallback = <<a, b>>]
Malformed == [Plain EXCEPT !.wellFormed = FALSE]

OneTarget == llm :> <<a>>

Mixed == {Retrying, Direct}
Awkward == {Streaming, Malformed}
HandlerSymmetry == Permutations({h1, h2})
=============================================================================
