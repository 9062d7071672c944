------------------------------ MODULE MCBakery ------------------------------
(* Bakery for TLC; the constants are given in the configurations. *)
EXTENDS Bakery
=============================================================================
