----------------------------- MODULE RoomSocket -----------------------------
(***************************************************************************)
(* The transport of a sync client, packages/shared/src/sync/socketBase.ts: *)
(* one record per tab with the fields of the class, and its methods as     *)
(* functions of that record, composed by the handlers as the code does.    *)
(* Delays are left out: an armed timer fires at any later moment.          *)
(***************************************************************************)
EXTENDS Naturals

NoSocket == 0

Fresh == [status |-> "connecting", socket |-> NoSocket, timer |-> FALSE, connecting |-> FALSE,
          hasConnected |-> FALSE, reason |-> "none", destroyed |-> FALSE]

Retrying(t) == IF t.hasConnected THEN "reconnecting" ELSE "connecting"

Connect(t) ==
    IF t.destroyed \/ t.connecting \/ t.status = "denied" THEN t
    ELSE [t EXCEPT !.status = Retrying(t), !.connecting = TRUE]

ClearReconnect(t) == [t EXCEPT !.timer = FALSE]
CloseSocket(t) == [t EXCEPT !.socket = NoSocket]

\* Mutant: the status changes, but no timer is set.
RetryingOnly(t) == IF t.destroyed THEN t ELSE [t EXCEPT !.status = Retrying(t)]
ScheduleReconnect(t) ==
    IF t.destroyed THEN t ELSE [t EXCEPT !.status = Retrying(t), !.timer = TRUE]

Deny(t, why) == [ClearReconnect(t) EXCEPT !.reason = why, !.status = "denied"]

GoOffline(t) == CloseSocket([ClearReconnect(t) EXCEPT !.status = "offline"])

ReconnectNow(t) ==
    IF t.destroyed \/ t.status = "denied" THEN t ELSE Connect(CloseSocket(ClearReconnect(t)))

TimerFires(t) == Connect(ClearReconnect(t))

Stopped(t) == t.destroyed \/ t.status \in {"offline", "denied"}

\* openSocket() goes on with the answer to the request for a ticket: a socket to be (0 if none
\* could be made), or why there is none. The flag `connecting` falls in any case.
TicketAnswered(t, answer, socket) ==
    LET u == [t EXCEPT !.connecting = FALSE]
    IN  IF Stopped(t) THEN u
        ELSE CASE answer = "error" -> ScheduleReconnect(u)
               [] answer = "ok"    -> [u EXCEPT !.socket = socket]
               [] OTHER            -> Deny(u, answer)

SocketOpened(t) == [t EXCEPT !.hasConnected = TRUE, !.status = "connected"]

\* onclose of the current socket; a socket that was replaced or let go has no handlers.
SocketClosed(t, code) ==
    LET u == CloseSocket(t)
    IN  IF Stopped(t) THEN u
        ELSE CASE code = "boardDeleted"  -> Deny(u, "not_found")
               [] code = "accessChanged" -> Connect([u EXCEPT !.status = "reconnecting"])
               [] OTHER                  -> ScheduleReconnect(u)

Destroy(t) == CloseSocket(ClearReconnect([t EXCEPT !.destroyed = TRUE]))
=============================================================================
