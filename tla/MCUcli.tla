------------------------------- MODULE MCUcli -------------------------------
(* Small instances of Ucli for TLC: two names, one a prefix of the other,   *)
(* in one bucket; the shorter is offered with two functions.                *)
EXTENDS Ucli
CONSTANTS x, f, g
MCNames == {<<x>>, <<x, x>>}
MCOffers == {<< <<x>>, f >>, << <<x>>, g >>, << <<x, x>>, f >>}
MCHash(key) == 3
=============================================================================
