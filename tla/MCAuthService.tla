---------------------------- MODULE MCAuthService ----------------------------
(* The authentication server with a few tokens.                            *)
EXTENDS AuthService

CONSTANTS k1, m1, m2

Tok(mat, form) == [kid |-> k1, mat |-> mat, form |-> form]

(* m1 may be published or not; a torn write may leave it under the cut key *)
(* id, or the cut key under k1.                                            *)
MCTokens == {Tok(m1, "full"), Tok(CutKey, "full"), [Tok(m1, "full") EXCEPT !.kid = CutKid],
             Tok(m1, "nouser"), Tok(m1, "incomplete"), Tok(m1, "malformed")}

CodeTokens == {Tok(m1, "full"), Tok(m1, "nouser"), Tok(m1, "malformed")}

FewTokens == {Tok(m1, "full"), Tok(m2, "full")}
=============================================================================
