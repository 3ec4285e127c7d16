--------------------------- MODULE MCSyncSession ---------------------------
EXTENDS SyncSession
OneUser == [c \in Clients |-> "u1"]
TwoSlots == {1, 2}

Access(member, link, isPublic) ==
    [member |-> [u \in Users |-> member], link |-> link, isPublic |-> isPublic,
     expired |-> FALSE, locked |-> FALSE, deleted |-> FALSE]

\* A member on a bad network who starts with nothing, on an empty board or on one with an earlier
\* edit; or somebody whose access changes on a good one, and whose local copy holds edits that the
\* board lacks, or, for somebody who may only read, the other way round.
OneOrTheOther ==
    {[access |-> Access("editor", "none", FALSE), doc |-> {}, stored |-> s, faults |-> 0, changes |-> MaxChanges] :
        s \in {{}, Inserts}} \cup
    {[access |-> a, doc |-> Edits, stored |-> {}, faults |-> MaxFaults, changes |-> 0] :
        a \in {Access("none", "editor", FALSE), Access("viewer", "editor", TRUE)}} \cup
    {[access |-> Access("none", "none", TRUE), doc |-> {}, stored |-> Edits, faults |-> MaxFaults, changes |-> 0]}
=============================================================================
