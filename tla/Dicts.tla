------------------------------- MODULE Dicts -------------------------------
(***************************************************************************)
(* Functions with a changing domain, for the Python dicts of the emulator. *)
(***************************************************************************)

Only(f, S) == [x \in S |-> f[x]]

Without(f, S) == Only(f, DOMAIN f \ S)

Put(f, x, v) == [y \in DOMAIN f \cup {x} |-> IF y = x THEN v ELSE f[y]]

EmptyFcn == [x \in {} |-> 0]
=============================================================================
