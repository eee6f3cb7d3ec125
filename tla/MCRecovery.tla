---------------------------- MODULE MCRecovery ----------------------------
(* Instances of Recovery for TLC. *)
EXTENDS Recovery, TLC

CONSTANTS past, first, second, left, right, one, two

Past == {past}

TwoAndPast == {past, first, second}

JustFirst == {first}

TwoTabs == {left, right}

OneTab == {left}

TwoIds == {one, two}

JustOne == {one}

\* Sessions are interchangeable, and so are recovery ids.
Interchangeable == Permutations(Sessions \ Earlier) \cup Permutations(Ids)

=============================================================================
