----------------------------- MODULE MCDebouncer ----------------------------
(* A small instance of Debouncer for TLC: two texts, a photo, a long text. *)
EXTENDS Debouncer

CONSTANTS hello, question, photo, long
=============================================================================
