--------------------------- MODULE MCPrivateBoard ---------------------------
(* Small instances of PrivateBoard for TLC: each client writes one edit, or    *)
(* one client writes all.                                                      *)
EXTENDS PrivateBoard

CONSTANTS c1, c2, e0, e1, e2, a, b

EachWritesOne == [e \in Edits |-> IF e = e1 THEN c1 ELSE c2]
OneWritesAll == [e \in Edits |-> c1]

\* The instances are alike, and so are the clients, each with the edit it writes.
Alike == Permutations(Instances)
AlikeWithEdits ==
    {f \in Permutations(Clients \cup Edits) :
        \A e \in Edits : f[e] \in Edits /\ EachWritesOne[f[e]] = f[EachWritesOne[e]]}
=============================================================================
