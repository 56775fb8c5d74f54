---------------------------- MODULE MCAppleMIDI ----------------------------
(* An instance of AppleMIDI: two ports of one host and one of another, a   *)
(* clock that wraps around within a few ticks, started at its zero or not. *)
EXTENDS AppleMIDI

CONSTANTS a1, a2, b1

MCHostOf == [p \in {a1, a2, b1} |-> IF p = b1 THEN "b" ELSE "a"]
=============================================================================
