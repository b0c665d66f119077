----------------------------- MODULE MCLedstrips ------------------------------
(***************************************************************************)
(* Colours for Ledstrips: bytes that are not the same from both ends, and  *)
(* channels that differ from one another.                                  *)
(***************************************************************************)
EXTENDS Ledstrips

MCColors == {[c \in 0 .. 3 |-> CASE c = 0 -> 200 [] c = 1 -> 3 [] c = 2 -> 128 [] OTHER -> 96],
             [c \in 0 .. 3 |-> 0]}
=============================================================================
