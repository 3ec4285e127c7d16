--------------------------- MODULE MCOwnedBoards ---------------------------
EXTENDS OwnedBoards
CONSTANTS u1, u2, r1, r2
BothUsers == {u1, u2}
BothRequests == {r1, r2}
Alike == Permutations(BothUsers) \cup Permutations(BothRequests)
Limits == [free |-> 1, pro |-> 2]
Seats == [free |-> 1, pro |-> 2]
=============================================================================
