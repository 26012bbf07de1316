------------------------------- MODULE MCKeyLock -------------------------------
(* Four goroutines for TLC: three meet on one key, one has another key. *)
EXTENDS KeyLock

CONSTANTS c1, c2, c3, c4, k1, k2

MCKey == [c \in Caller |-> IF c = c4 THEN k2 ELSE k1]
=============================================================================
