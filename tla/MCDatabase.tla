----------------------------- MODULE MCDatabase -----------------------------
(* Two processes that start, fail and start again; pages whose paths name  *)
(* groups in base three, among them numbers that fit in an int, in a long, *)
(* and in neither, one that would be group 1 in the width of an int, and   *)
(* components that are no numbers.                                         *)
EXTENDS Database

CONSTANTS u1, u2

MCDigits == <<"0", "1", "2">>

MCPaths == { <<"/", "x", "/", "1">>, <<"/", "x", "/", "2", "/">>,
             <<"/", "x", "/", "0", "2", "/", "1">>, <<"/", "x", "/", "0">>,
             <<"/", "x", "/", "/", "2">>, <<"/", "x", "/", "2", "x">>,
             <<"/", "x", "/", "1", "0", "0">>, <<"/", "x", "/", "1", "0", "1">>,
             <<"/", "x", "/", "2", "2", "2", "2">>,
             <<"x", "/", "x", "/", "1">>, <<"/", "x">>, <<>> }

MCSiteMembers == {<<u1, 2>>}

MCSymmetry == Permutations(Servers)
=============================================================================
