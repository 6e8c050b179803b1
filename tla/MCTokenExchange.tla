--------------------------- MODULE MCTokenExchange ---------------------------
(* The exchange of a few codes, with answers shorter than the buffer, as   *)
(* long as it, and longer; the beginning of one token's document is        *)
(* another token's.  The fairness of ExchangeLiveSpec forbids symmetry.    *)
EXTENDS TokenExchange

CONSTANTS a, b

MCTokenBodies == {<<a>>, <<a, b>>, <<a, b, a>>}

MCOtherBodies == {<<>>, <<b, a>>}
=============================================================================
