---------------------------- MODULE MCBiographer ----------------------------
(* Two sessions for TLC: a long one that needs two ticks and a short one   *)
(* that repeats one of its chunks byte for byte.                           *)
EXTENDS Biographer

CONSTANTS long, short, empty, u1, u2, tool

MCText == [s \in Sessions |-> CASE s = long -> <<u1, u2>>
                                [] s = short -> <<u1>>
                                [] OTHER -> <<>>]
=============================================================================
