----------------------------- MODULE MCStorage -----------------------------
(***************************************************************************)
(* A small instance of Storage: the code of a contract, the items h[a] and *)
(* h[a, a] of its hash, and the index "a:a", which would name the latter.  *)
(***************************************************************************)
EXTENDS Storage, TLC

A == 4
C == 5
H == 6
Code == 7

MCMisc == <<Code, Code>>

MCContracts == {<<C>>}
MCHashes == {<<<<C>>, <<H>>>>}
MCIndices == {<<<<A>>>>, <<<<A>>, <<A>>>>, <<<<A, Colon, A>>>>}
MCArgs == {<<>>, <<<<A>>>>}
MCCodeName == <<Code>>

CONSTANTS code, one, two
MCText == code :> <<C, Dot, Code>> @@ one :> <<C, Dot, H, Colon, A>>
            @@ two :> <<C, Dot, H, Colon, A, Colon, A>>

ASSUME OnlyItems /\ ShortNames

Rank1 == [h \in Hlcs |-> h]
=============================================================================
