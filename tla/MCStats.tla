------------------------------ MODULE MCStats ------------------------------
(* Three responses, two of them with the same tag.                          *)
EXTENDS Stats, TLC

CONSTANTS r1, r2, r3

MCTag == (r1 :> "a") @@ (r2 :> "b") @@ (r3 :> "b")
=============================================================================
