----------------------------- MODULE MCRefTable -----------------------------
(* Four objects and one initial slot: the table doubles twice, and objects  *)
(* collide before, between and after the doublings.                         *)
EXTENDS RefTable

CONSTANTS o1, o2, o3, o4

MCObj == {o1, o2, o3, o4}

MCHash == (o1 :> 0) @@ (o2 :> 2) @@ (o3 :> 4) @@ (o4 :> 1)
=============================================================================
