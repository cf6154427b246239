------------------------ MODULE MCLocalMembership ------------------------
EXTENDS LocalMembership, TLC

CONSTANTS r1, r2, c1, c2

OneRoom == {r1}
TwoRooms == {r1, r2}
OneCaller == {c1}
TwoCallers == {c1, c2}
NoRooms == {}
Symmetry == Permutations(TwoCallers)
=============================================================================
