---------------------------- MODULE MCKnotSync ----------------------------
(* Instances of KnotSync for TLC. *)
EXTENDS KnotSync

CONSTANTS alice, bob, note, text, other

TwoWriters == {alice, bob}

JustAlice == {alice}

\* Everybody holds every key.
Founders == [w \in Writers |-> 1]

\* alice joined after the first rotation.
AliceLate == [w \in Writers |-> IF w = alice THEN 2 ELSE 1]

=============================================================================
