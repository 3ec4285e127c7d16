----------------------------- MODULE DurableLog -----------------------------
(* What a board's store promises, whatever tables it keeps                   *)
(* (apps/server/src/persistence/repository.ts, BoardRepository): a log of     *)
(* updates that only ever grows at its end, in the order given, and a content *)
(* that a reader rebuilds from it; until the board is deleted for good.       *)
EXTENDS Naturals, Sequences

CONSTANTS
    Updates,  \* payloads a client may send
    Batches,  \* the sequences of updates one append may carry
    Sealed    \* TRUE: the server cannot read the updates; a client's snapshot may
              \* carry more than the log does so far, and the next one may not

VARIABLES
    log,      \* every update ever appended, in order
    content,  \* the updates a reader of the board gets to see
    present   \* FALSE once the board was purged

logVars == <<log, content, present>>

Carried(updates) == {updates[i] : i \in DOMAIN updates}

LogInit == log = <<>> /\ content \subseteq Updates /\ present = TRUE

Extend(batch) ==
    /\ present
    /\ log' = log \o batch
    /\ content' = content \cup Carried(batch)
    /\ UNCHANGED present

Replace ==
    /\ present /\ Sealed
    /\ Carried(log) \subseteq content' /\ content' \subseteq Updates
    /\ UNCHANGED <<log, present>>

Delete ==
    /\ present
    /\ present' = FALSE
    /\ log' = <<>> /\ content' = {}

LogNext == (\E batch \in Batches : Extend(batch)) \/ Replace \/ Delete

LogSpec == LogInit /\ [][LogNext]_logVars
=============================================================================
