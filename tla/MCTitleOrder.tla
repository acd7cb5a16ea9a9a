---------------------------- MODULE MCTitleOrder ----------------------------
(***************************************************************************)
(* Small instances of TitleOrder: names of up to two letters A, a, B, C.   *)
(***************************************************************************)
EXTENDS TitleOrder

(* No name begins with another; two differ in case only.                   *)
Apart == {<<65, 65>>, <<97, 65>>, <<65, 66>>, <<97, 67>>, <<66, 65>>, <<67>>}
(* "A" is the beginning of "AB" and "AC".                                  *)
Beginnings == {<<65>>, <<65, 65>>, <<65, 66>>, <<65, 67>>}
=============================================================================
