------------------------------- MODULE Dicts -------------------------------
(***************************************************************************)
(* Python dicts: a dict is a function on the keys that it holds.           *)
(***************************************************************************)

Dict(D, R) == UNION {[S -> R] : S \in SUBSET D}

(* The same without enumerating the dicts.                                 *)
IsDict(f, D, R) == DOMAIN f \subseteq D /\ f \in [DOMAIN f -> R]

EmptyDict == [x \in {} |-> x]

(* dict[k] = v                                                             *)
Put(dict, k, v) == [x \in DOMAIN dict \cup {k} |-> IF x = k THEN v ELSE dict[x]]

(* dict.update(new)                                                        *)
Update(dict, new) ==
    [x \in DOMAIN dict \cup DOMAIN new |->
        IF x \in DOMAIN new THEN new[x] ELSE dict[x]]

(* dict.pop(k) for every k of S                                            *)
Without(dict, S) == [x \in DOMAIN dict \ S |-> dict[x]]
=============================================================================
