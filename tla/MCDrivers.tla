----------------------------- MODULE MCDrivers -----------------------------
(* Characters, in the order of their codes: . / : _ and the letters a, x.  *)
EXTENDS Drivers

A == 5
X == 6

(* a.x and a.x:a; and __x.a and __x.a:, which share a group in a file of   *)
(* run_state.                                                              *)
MCNames == {<<A, Dot, X>>, <<A, Dot, X, Colon, A>>,
            <<Underscore, Underscore, X, Dot, A>>, <<Underscore, Underscore, X, Dot, A, Colon>>}

(* a., a.x:, __x. and _., which as an expression matches the start of the  *)
(* last two keys.                                                          *)
MCAsked == {<<A, Dot>>, <<A, Dot, X, Colon>>, <<Underscore, Underscore, X, Dot>>,
            <<Underscore, Dot>>}

MCMisc == <<Underscore, Underscore, A>>
=============================================================================
