---------------------------- MODULE MCUIButtons ----------------------------
(***************************************************************************)
(* Two buttons: one wired as pin 12 of build/minijv880.ini, with a click   *)
(* and a long press; the other, Enter, with a click and a double click.    *)
(***************************************************************************)
EXTENDS UIButtons

MCWiring == <<[pin |-> 1, trigger |-> "Click", event |-> "Data"],
              [pin |-> 0, trigger |-> "Click", event |-> "Mute"],
              [pin |-> 2, trigger |-> "Click", event |-> "Enter"],
              [pin |-> 2, trigger |-> "DoubleClick", event |-> "Up"],
              [pin |-> 1, trigger |-> "LongPress", event |-> "SaveNVRAM"]>>

MCTimeouts == {[double |-> 0, long |-> 3], [double |-> 7, long |-> 9], [double |-> 8, long |-> 3]}
=============================================================================
