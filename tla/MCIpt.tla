------------------------------- MODULE MCIpt -------------------------------
(* Ipt for TLC: of the five pages three share the hash list 0 and two the   *)
(* list 1 of a table of three entries, so lists grow to three entries and   *)
(* lose their first, middle and last one, and one page always has no frame. *)
EXTENDS Ipt

MCPages == {<<0, 0>>, <<1, 0>>, <<0, 1>>, <<1, 1>>, <<2, 2>>}
=============================================================================
