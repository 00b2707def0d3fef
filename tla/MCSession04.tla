---------------------------- MODULE MCSession04 -----------------------------
(* Small instances of Session04 for TLC: the calls of s1 are run in order,    *)
(* those of s2 in any order.                                                  *)
EXTENDS Session04

CONSTANTS s1, s2
=============================================================================
