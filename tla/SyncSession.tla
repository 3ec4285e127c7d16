---------------------------- MODULE SyncSession ----------------------------
(***************************************************************************)
(* Tabs of a board and the sync server they connect to: tickets, upgrades, *)
(* the handshake, edits, acknowledgements, revocations and restarts.       *)
(*   packages/shared/src/sync/socketBase.ts, provider.ts                   *)
(*   apps/server/src/sync/upgrade.ts, connection.ts, ticketAuth.ts         *)
(*   apps/server/src/revocation/bus.ts, api/boards.ts (ticket)             *)
(* One server, one board. The room's saving is RoomManager's subject: here *)
(* a flush stores the document and acknowledges it in one step.            *)
(***************************************************************************)
EXTENDS RoomSocket, BoardAccess, Sequences, FiniteSets, SequencesExt

CONSTANTS Clients,        \* tabs that have the board open
          UserOf,         \* the user signed in in each tab
          HasLink,        \* the tabs that were opened through the share link
          Inserts,        \* edits that add to the document
          Deletes,        \* edits that delete something: no state vector shows them
          Conns,          \* slots for connections
          MaxSockets,     \* maxConnectionsPerUser
          MaxFaults,      \* bound: disturbances by the network and the server
          MaxChanges,     \* bound: changes of access
          Starts          \* at first: access, what tabs and database hold, and how many of either are used

ASSUME SessionAssumption ==
    /\ Clients # {} /\ HasLink \subseteq Clients /\ Inserts \cap Deletes = {}
    /\ Conns \subseteq Nat \ {0} /\ MaxSockets \in Nat \ {0} /\ MaxFaults \in Nat /\ MaxChanges \in Nat

Users == {UserOf[c] : c \in Clients}
Edits == Inserts \cup Deletes

\* What the database says of access; a share link makes editors.
AccessRecord ==
    [member : [Users -> Roles], link : {"none", "editor"}, isPublic : BOOLEAN,
     expired : BOOLEAN, locked : BOOLEAN, deleted : BOOLEAN]

ASSUME StartsAssumption ==
    Starts \subseteq [access : AccessRecord, doc : SUBSET Edits, stored : SUBSET Edits, faults : Nat, changes : Nat]

VARIABLES tab,        \* the transport of each tab
          online,     \* what the browser says of the network
          doc,        \* the document of each tab
          pending,    \* edits of the frame, and whether a flush of them is scheduled
          persisted,  \* the vector last acknowledged to each tab
          conn,       \* connections: the server's end and what is on the wire
          srv,        \* the server: whether it accepts, its room and the room's document
          stored,     \* what the database holds
          access,     \* members, link, public flag, plan lock, trash
          events,     \* revocations announced and not delivered
          faults,     \* disturbances so far
          changes,    \* changes of access so far
          blinked     \* history: tabs that came online while a ticket was on its way

clientVars == <<tab, online, doc, pending, persisted, blinked>>
vars == <<clientVars, conn, srv, stored, access, events, faults, changes>>

Free == [tab |-> CHOOSE c \in Clients : TRUE, phase |-> "gone", claims |-> [role |-> "none", via |-> "none"],
         role |-> "none", up |-> <<>>, down |-> <<>>, closing |-> FALSE,
         frozen |-> FALSE, begun |-> FALSE, raced |-> FALSE]

Init ==
    /\ tab = [c \in Clients |-> Connect(Fresh)]
    /\ online = [c \in Clients |-> TRUE]
    /\ pending = [c \in Clients |-> [edits |-> {}, scheduled |-> FALSE]]
    /\ persisted = [c \in Clients |-> {}]
    /\ conn = [k \in Conns |-> Free]
    /\ srv = [mode |-> "up", room |-> "none", doc |-> {}]
    /\ \E s \in Starts : access = s.access /\ faults = s.faults /\ changes = s.changes
                        /\ doc = [c \in Clients |-> s.doc] /\ stored = s.stored
    /\ events = <<>>
    /\ blinked = {}

----------------------------------------------------------------------------
(* Access, as the ticket endpoint and the upgrade read it *)

Row(u, link) ==
    [member |-> access.member[u], org |-> "none", link |-> IF link THEN access.link ELSE "none",
     isPublic |-> access.isPublic, capped |-> FALSE]

\* Plan limits make editors of a locked board viewers.
Limited(role) == IF access.locked /\ role # "none" THEN "viewer" ELSE role

CurrentRole(c) ==
    IF access.deleted THEN "none" ELSE Limited(Resolve(Row(UserOf[c], c \in HasLink)).role)

\* POST /boards/:id/ticket
Ticket(c) ==
    LET found == Resolve(Row(UserOf[c], c \in HasLink))
    IN  [role |-> Limited(found.role), via |-> found.via]

\* The upgrade resolves access again, by the link only when the ticket came from it.
Authorized(k) ==
    LET c == conn[k].claims
        now == Resolve(Row(UserOf[conn[k].tab], c.via = "link"))
    IN  IF \/ access.deleted \/ now.role = "none"
           \/ c.via = "public" /\ ~access.isPublic /\ now.via = "public"
        THEN "none"
        ELSE Limited(LowerRole(c.role, now.role))

----------------------------------------------------------------------------
(* Helpers: a connection belongs to its tab while it is the tab's socket *)

Attached(k) == \E c \in Clients : tab[c].socket = k
Registered == {k \in Conns : conn[k].phase = "open"}
CountForUser(u) == Cardinality({k \in Registered : UserOf[conn[k].tab] = u})

Vector(content) == content \cap Inserts
\* Mutant: only the insertions that the vector lacks.
MissingInsertions(content, vector) == Vector(content) \ vector
Missing(content, vector) == content \ vector

Saved(c) == Vector(doc[c]) \subseteq persisted[c]

\* RoomConnection.send: nothing is sent once the connection is closing, and what is sent to a
\* socket that its tab has let go is lost.
Send(cs, k, msgs) ==
    IF cs[k].phase = "open" /\ cs[k].begun /\ ~cs[k].closing /\ Attached(k)
    THEN [cs[k] EXCEPT !.down = @ \o msgs] ELSE cs[k]
SendAll(cs, except, msg) ==
    [k \in Conns |-> IF k # except THEN Send(cs, k, <<msg>>) ELSE cs[k]]

\* RoomConnection.close: the closing handshake has begun, the socket is still open.
Close(k, code) ==
    IF k.phase = "open" /\ ~k.closing
    THEN [k EXCEPT !.down = Append(@, [t |-> "close", code |-> code]), !.closing = TRUE]
    ELSE k

\* A connection is over. A tab that still listens hears of it: `last` is what was on the wire.
Abnormal == <<[t |-> "close", code |-> "abnormal"]>>
Over(k, last) ==
    IF ~Attached(k) THEN Free
    ELSE [Free EXCEPT !.tab = conn[k].tab,
                      !.down = IF last # <<>> /\ Last(last).t = "close" THEN last ELSE Abnormal]

\* Mutant: what the room holds is announced as persisted.
BeginSyncUnstored(cs, k, content) ==
    Send([cs EXCEPT ![k].begun = TRUE], k,
         <<[t |-> "step1", ops |-> Vector(content)], [t |-> "persisted", ops |-> Vector(content)]>>)
BeginSync(cs, k, content) ==
    Send([cs EXCEPT ![k].begun = TRUE], k,
         <<[t |-> "step1", ops |-> Vector(content)], [t |-> "persisted", ops |-> Vector(stored)]>>)

Disturb == faults < MaxFaults /\ faults' = faults + 1

----------------------------------------------------------------------------
(* Clients *)

\* A local edit; a deletion deletes something the document has.
Edit(c, e) ==
    /\ ~tab[c].destroyed /\ e \notin doc[c] \cup srv.doc \cup stored
    /\ e \in Deletes => Vector(doc[c]) # {}
    /\ \A d \in Clients : e \in doc[d] => d = c
    /\ doc' = [doc EXCEPT ![c] = @ \cup {e}]
    /\ pending' = IF tab[c].status = "connected"
                  THEN [pending EXCEPT ![c] = [edits |-> @.edits \cup {e}, scheduled |-> TRUE]]
                  ELSE pending
    /\ UNCHANGED <<tab, online, persisted, blinked, conn, srv, stored, access, events, faults, changes>>

\* sendNow: nothing happens without an open socket.
SendUp(c, msg) ==
    IF tab[c].socket # NoSocket /\ tab[c].status = "connected"
    THEN [conn EXCEPT ![tab[c].socket].up = Append(@, msg)] ELSE conn

FlushFrame(c) ==
    /\ pending[c].scheduled
    /\ pending' = [pending EXCEPT ![c] = [edits |-> {}, scheduled |-> FALSE]]
    /\ conn' = IF pending[c].edits = {} THEN conn
               ELSE SendUp(c, [t |-> "update", ops |-> pending[c].edits])
    /\ UNCHANGED <<tab, online, doc, persisted, blinked, srv, stored, access, events, faults, changes>>

\* The answer to the request for a ticket arrives; the new socket starts its upgrade at once.
TicketArrives(c, answer) ==
    /\ tab[c].connecting
    /\ \/ answer = "error" /\ Disturb
       \/ /\ answer # "error" /\ UNCHANGED faults
          /\ answer = CASE access.deleted -> "not_found"
                        [] Ticket(c).role = "none" -> "forbidden"
                        [] OTHER -> "ok"
    /\ IF answer = "ok" /\ ~Stopped(tab[c])
       THEN LET idle == {k \in Conns : conn[k].phase = "gone" /\ ~Attached(k)}
                k == CHOOSE k \in idle : \A j \in idle : k <= j
            IN  /\ idle # {}
                /\ tab' = [tab EXCEPT ![c] = TicketAnswered(@, "ok", k)]
                /\ conn' = [conn EXCEPT ![k] =
                     [Free EXCEPT !.tab = c, !.claims = Ticket(c), 
                                  !.phase = IF srv.mode = "up" THEN "upgrading" ELSE "gone",
                                  !.down = IF srv.mode = "up" THEN <<>> ELSE Abnormal]]
       ELSE /\ tab' = [tab EXCEPT ![c] = TicketAnswered(@, answer, NoSocket)]
            /\ UNCHANGED conn
    /\ UNCHANGED <<online, doc, pending, persisted, blinked, srv, stored, access, events, changes>>

\* The current socket has something for the client: it opened, a message, or it closed.
Receive(c) ==
    LET k == tab[c].socket
        msg == Head(conn[k].down)
        rest == [conn EXCEPT ![k].down = Tail(@)]
        Reply(m) == [rest EXCEPT ![k].up = Append(@, m)]
    IN  /\ k # NoSocket /\ conn[k].down # <<>>
        /\ tab' = [tab EXCEPT ![c] = CASE msg.t = "open" -> SocketOpened(@)
                                       [] msg.t = "close" -> SocketClosed(@, msg.code)
                                       [] OTHER -> @]
        /\ pending' = IF msg.t = "open" THEN [pending EXCEPT ![c].edits = {}] ELSE pending
        /\ doc' = IF msg.t = "ops" THEN [doc EXCEPT ![c] = @ \cup msg.ops] ELSE doc
        /\ persisted' = IF msg.t = "persisted" THEN [persisted EXCEPT ![c] = msg.ops] ELSE persisted
        /\ conn' = CASE msg.t = "open"  -> Reply([t |-> "step1", ops |-> Vector(doc[c])])
                     [] msg.t = "step1" -> Reply([t |-> "step2", ops |-> Missing(doc[c], msg.ops)])
                     [] OTHER -> rest
        /\ UNCHANGED <<online, blinked, srv, stored, access, events, faults, changes>>

ReconnectTimer(c) ==
    /\ tab[c].timer
    /\ tab' = [tab EXCEPT ![c] = TimerFires(@)]
    /\ UNCHANGED <<online, doc, pending, persisted, blinked, conn, srv, stored, access, events, faults, changes>>

\* The browser's events. `blinked` notes an online event that found a request under way.
NetworkChanges(c) ==
    /\ ~tab[c].destroyed
    /\ online' = [online EXCEPT ![c] = ~@]
    /\ IF online[c] THEN Disturb ELSE UNCHANGED faults
    /\ tab' = [tab EXCEPT ![c] = IF online[c] THEN GoOffline(@) ELSE ReconnectNow(@)]
    /\ blinked' = IF ~online[c] /\ tab[c].connecting THEN blinked \cup {c} ELSE blinked \ {c}
    /\ UNCHANGED <<doc, pending, persisted, conn, srv, stored, access, events, changes>>

\* The user leaves the page.
LeavePage(c) ==
    /\ ~tab[c].destroyed /\ Disturb
    /\ tab' = [tab EXCEPT ![c] = Destroy(@)]
    /\ UNCHANGED <<online, doc, pending, persisted, blinked, conn, srv, stored, access, events, changes>>

----------------------------------------------------------------------------
(* The server: upgrades *)

\* The limit on upgrades per address answers, the ticket's signature and expiry are checked, then
\* access as it is now. Over the limit, and with an old ticket, the upgrade is refused.
Authorize(k, refused) ==
    /\ conn[k].phase = "upgrading"
    /\ IF refused THEN Disturb ELSE UNCHANGED faults
    /\ conn' = [conn EXCEPT ![k] =
         IF refused \/ Authorized(k) = "none" THEN Over(k, <<>>)
         ELSE [@ EXCEPT !.phase = "granted", !.role = Authorized(k)]]
    /\ UNCHANGED <<clientVars, srv, stored, access, events, changes>>

\* The rest of the handler runs without a break: count the user's sockets, complete the
\* upgrade (refused once the WebSocket server is closing), join the room, start.
Register(k) ==
    LET opened == [conn EXCEPT ![k].phase = "open", ![k].down = <<[t |-> "open"]>>]
    IN  /\ conn[k].phase = "granted"
        /\ IF CountForUser(UserOf[conn[k].tab]) >= MaxSockets \/ srv.mode \in {"closing", "down"}
           THEN conn' = [conn EXCEPT ![k] = Over(k, <<>>)] /\ UNCHANGED srv
           ELSE /\ conn' = IF srv.room = "ready"
                           THEN [opened EXCEPT ![k] = BeginSync(opened, k, srv.doc)] ELSE opened
                /\ srv' = IF srv.room = "none" THEN [srv EXCEPT !.room = "loading"] ELSE srv
        /\ UNCHANGED <<clientVars, stored, access, events, faults, changes>>

----------------------------------------------------------------------------
(* The server: the room and its connections *)

\* room.ready: the handshake starts on every waiting connection, or all are closed.
RoomReady(ok) ==
    LET loaded == ok /\ ~access.deleted
        code == IF access.deleted THEN "boardDeleted" ELSE "internalError"
    IN  /\ srv.room = "loading"
        /\ IF ok THEN UNCHANGED faults ELSE Disturb
        /\ srv' = IF loaded THEN [srv EXCEPT !.room = "ready", !.doc = stored]
                  ELSE [srv EXCEPT !.room = "none"]
        /\ conn' = [k \in Conns |-> IF ~loaded THEN Close(conn[k], code)
                                    ELSE IF conn[k].phase = "open" THEN BeginSync(conn, k, stored)
                                    ELSE conn[k]]
        /\ UNCHANGED <<clientVars, stored, access, events, changes>>

\* The next message of a connection. Frozen connections ignore it; closing ones do not.
HandleMessage(k) ==
    LET msg == Head(conn[k].up)
        rest == [conn EXCEPT ![k].up = Tail(@)]
        news == msg.ops \ srv.doc
        writes == ~conn[k].frozen /\ msg.t # "step1" /\ Can(conn[k].role, "write") /\ news # {}
        reply == <<[t |-> "ops", ops |-> Missing(srv.doc, msg.ops)]>>
    IN  /\ conn[k].phase = "open" /\ conn[k].begun /\ conn[k].up # <<>>
        /\ srv' = IF writes THEN [srv EXCEPT !.doc = @ \cup news] ELSE srv
        /\ conn' = CASE writes -> SendAll(rest, k, [t |-> "ops", ops |-> news])
                     [] msg.t = "step1" /\ ~conn[k].frozen -> [rest EXCEPT ![k] = Send(rest, k, reply)]
                     [] OTHER -> rest
        /\ UNCHANGED <<clientVars, stored, access, events, faults, changes>>

\* Too many messages or bytes, or a message that cannot be read: it is dropped.
Refuse(k) ==
    /\ conn[k].phase = "open" /\ conn[k].begun /\ conn[k].up # <<>> /\ ~conn[k].frozen /\ Disturb
    /\ conn' = [conn EXCEPT ![k] = Close([conn[k] EXCEPT !.up = Tail(@)], "rateLimited")]
    /\ UNCHANGED <<clientVars, srv, stored, access, events, changes>>

\* The server's end closes: the client's end has, and everything it sent has been handled; or
\* five seconds have passed since the server closed it.
ConnectionClosed(k) ==
    /\ conn[k].phase = "open"
    /\ (~Attached(k) /\ conn[k].up = <<>>) \/ conn[k].closing
    /\ conn' = [conn EXCEPT ![k] = Over(k, conn[k].down)]
    /\ UNCHANGED <<clientVars, srv, stored, access, events, faults, changes>>

\* The network, a missed heartbeat or a slow consumer ends a connection: what is on the wire is lost.
Cut(k) ==
    /\ conn[k].phase # "gone" /\ Disturb
    /\ conn' = [conn EXCEPT ![k] = Over(k, <<>>)]
    /\ UNCHANGED <<clientVars, srv, stored, access, events, changes>>

\* A flush of the room's queue, and its acknowledgement to everyone.
\* Mutant: nobody is told.
PersistSilently ==
    /\ srv.room = "ready" /\ srv.doc \ stored # {}
    /\ stored' = stored \cup srv.doc
    /\ UNCHANGED <<clientVars, conn, srv, access, events, faults, changes>>
Persist ==
    /\ srv.room = "ready" /\ srv.doc \ stored # {}
    /\ stored' = stored \cup srv.doc
    /\ conn' = SendAll(conn, 0, [t |-> "persisted", ops |-> Vector(srv.doc)])
    /\ UNCHANGED <<clientVars, srv, access, events, faults, changes>>

\* The last member has left and the grace period is over.
Evict ==
    /\ srv.mode = "up" /\ srv.room = "ready" /\ Registered = {}
    /\ stored' = stored \cup srv.doc
    /\ srv' = [srv EXCEPT !.room = "none", !.doc = {}]
    /\ UNCHANGED <<clientVars, conn, access, events, faults, changes>>

----------------------------------------------------------------------------
(* The server: shutdown and restart *)

Shutdown ==
    /\ srv.mode = "up" /\ Disturb
    /\ srv' = [srv EXCEPT !.mode = "flushing"]
    /\ conn' = [k \in Conns |-> IF conn[k].phase = "open" THEN [conn[k] EXCEPT !.frozen = TRUE] ELSE conn[k]]
    /\ UNCHANGED <<clientVars, stored, access, events, changes>>

\* flushAll() is over, with everything stored or at its deadline; then every socket is closed.
FlushedAll(inTime) ==
    LET acked == IF inTime /\ srv.room = "ready"
                 THEN SendAll(conn, 0, [t |-> "persisted", ops |-> Vector(srv.doc)]) ELSE conn
    IN  /\ srv.mode = "flushing"
        /\ stored' = IF inTime THEN stored \cup srv.doc ELSE stored
        /\ srv' = [srv EXCEPT !.mode = "closing"]
        /\ conn' = [k \in Conns |-> Close(acked[k], "serviceRestart")]
        /\ UNCHANGED <<clientVars, access, events, faults, changes>>

\* wss.close() waits for the last socket; then the process ends.
Stop ==
    /\ srv.mode = "closing" /\ Registered = {}
    /\ srv' = [mode |-> "down", room |-> "none", doc |-> {}]
    /\ conn' = [k \in Conns |-> IF conn[k].phase = "gone" THEN conn[k] ELSE Over(k, <<>>)]
    /\ events' = <<>>
    /\ UNCHANGED <<clientVars, stored, access, faults, changes>>

Crash ==
    /\ srv.mode # "down" /\ Disturb
    /\ srv' = [mode |-> "down", room |-> "none", doc |-> {}]
    /\ conn' = [k \in Conns |-> IF conn[k].phase = "gone" THEN conn[k] ELSE Over(k, <<>>)]
    /\ events' = <<>>
    /\ UNCHANGED <<clientVars, stored, access, changes>>

Start ==
    /\ srv.mode = "down"
    /\ srv' = [srv EXCEPT !.mode = "up"]
    /\ UNCHANGED <<clientVars, conn, stored, access, events, faults, changes>>

----------------------------------------------------------------------------
(* Changes of access, each followed by its announcement. History: `raced` marks the connections
   whose ticket is older than the change and that are not registered yet. *)

Change(a, ev) ==
    /\ changes < MaxChanges /\ changes' = changes + 1
    /\ access' = a
    /\ events' = IF srv.mode = "down" THEN events ELSE events \o ev
    /\ conn' = [k \in Conns |-> IF conn[k].phase \in {"upgrading", "granted"}
                               THEN [conn[k] EXCEPT !.raced = TRUE] ELSE conn[k]]
    /\ UNCHANGED <<clientVars, srv, stored, faults>>

\* Changing a role and removing a member are announced, accepting an invitation is not.
ChangeMember(u, role) ==
    /\ access.member[u] # role
    /\ Change([access EXCEPT !.member[u] = role],
              IF access.member[u] = "none" THEN <<>> ELSE <<[t |-> "member", user |-> u]>>)
RevokeLink ==
    access.link = "editor" /\ Change([access EXCEPT !.link = "none"], <<[t |-> "link"]>>)
\* A link that reaches its expiry is refused from then on; nobody is told.
LinkExpires ==
    access.link = "editor" /\ Change([access EXCEPT !.link = "none", !.expired = TRUE], <<>>)
SetPublic(on) ==
    access.isPublic # on /\ Change([access EXCEPT !.isPublic = on], IF on THEN <<>> ELSE <<[t |-> "public_off"]>>)
PlanLock(on) ==
    access.locked # on /\ Change([access EXCEPT !.locked = on], <<[t |-> "plan"]>>)
Trash(on) ==
    access.deleted # on /\ Change([access EXCEPT !.deleted = on], IF on THEN <<[t |-> "board_deleted"]>> ELSE <<>>)

\* Mutant: sockets opened through a revoked link stay.
AffectsButLink(ev, k) ==
    CASE ev.t = "member" -> UserOf[k.tab] = ev.user
      [] ev.t \in {"link", "public_off"} -> k.claims.via = "public"
      [] OTHER -> TRUE
\* Which sockets an event is about: by the user, or by what the ticket said it was for.
Affects(ev, k) ==
    CASE ev.t = "member" -> UserOf[k.tab] = ev.user
      [] ev.t = "link" -> k.claims.via = "link"
      [] ev.t = "public_off" -> k.claims.via = "public"
      [] OTHER -> TRUE

\* Every registered socket it affects is closed, but not once a shutdown has begun.
DeliverEvent ==
    LET ev == Head(events)
        code == IF ev.t = "board_deleted" THEN "boardDeleted" ELSE "accessChanged"
    IN  /\ events # <<>>
        /\ events' = Tail(events)
        /\ conn' = IF srv.mode # "up" THEN conn
                   ELSE [k \in Conns |-> IF Affects(ev, conn[k]) THEN Close(conn[k], code) ELSE conn[k]]
        /\ UNCHANGED <<clientVars, srv, stored, access, faults, changes>>

----------------------------------------------------------------------------
ClientStep(c) ==
    \/ FlushFrame(c) \/ Receive(c) \/ ReconnectTimer(c)
    \/ \E answer \in {"ok", "forbidden", "not_found"} : TicketArrives(c, answer)
ServerStep ==
    \/ \E k \in Conns : Authorize(k, FALSE) \/ Register(k)
                        \/ HandleMessage(k) \/ ConnectionClosed(k)
    \/ RoomReady(TRUE) \/ Persist \/ Evict \/ FlushedAll(TRUE) \/ Stop \/ Start \/ DeliverEvent
Disturbance ==
    \/ \E c \in Clients : TicketArrives(c, "error") \/ NetworkChanges(c) \/ LeavePage(c)
    \/ \E k \in Conns : Authorize(k, TRUE) \/ Refuse(k) \/ Cut(k)
    \/ RoomReady(FALSE) \/ Shutdown \/ FlushedAll(FALSE) \/ Crash
    \/ \E u \in Users, role \in {"none", "viewer", "editor"} : ChangeMember(u, role)
    \/ RevokeLink \/ LinkExpires \/ \E on \in BOOLEAN : SetPublic(on) \/ PlanLock(on) \/ Trash(on)

Next == (\E c \in Clients : ClientStep(c) \/ \E e \in Edits : Edit(c, e)) \/ ServerStep \/ Disturbance
Spec == Init /\ [][Next]_vars

----------------------------------------------------------------------------
\* Browsers run timers, answer events and are answered by a server that is up; the server
\* handles what arrives, finishes what it began and is started again.
Fairness ==
    /\ \A c \in Clients :
        /\ WF_vars(FlushFrame(c)) /\ WF_vars(Receive(c)) /\ WF_vars(ReconnectTimer(c))
        /\ WF_vars(\E answer \in {"ok", "forbidden", "not_found"} : TicketArrives(c, answer))
    /\ \A k \in Conns :
        /\ WF_vars(Authorize(k, FALSE) \/ Register(k) \/ HandleMessage(k))
        /\ WF_vars(ConnectionClosed(k))
    /\ WF_vars(RoomReady(TRUE)) /\ WF_vars(Persist) /\ WF_vars(DeliverEvent)
    /\ WF_vars(FlushedAll(TRUE)) /\ WF_vars(Stop) /\ WF_vars(Start)
FairSpec == Spec /\ Fairness

----------------------------------------------------------------------------
(* Properties *)

\* A tab that is online and may still connect is connected or has an attempt under way, unless it
\* went offline and back while a ticket was on its way (socketBase.ts:184: connect() does nothing
\* then, and the answer finds the status "offline").
NeverStrandedUnlessBlinked ==
    \A c \in Clients :
        online[c] /\ ~tab[c].destroyed /\ tab[c].status # "denied" /\ c \notin blinked
            => tab[c].socket # NoSocket \/ tab[c].timer \/ tab[c].connecting

\* "Saved" is shown only when the database holds everything the tab's document has in insertions,
\* whatever happened to connections and servers since the acknowledgement (provider.ts:175).
SavedInsertionsAreStored == \A c \in Clients : Saved(c) => Vector(doc[c]) \subseteq stored

\* When nothing is on the wire or waiting to be sent, a tab and the room hold the same document,
\* deletions included: the handshake makes up for what onOpen and disconnections drop.
QuietIsSent ==
    \A c \in Clients :
        LET k == tab[c].socket
        IN  /\ k # NoSocket /\ tab[c].status = "connected" /\ pending[c].edits = {}
            /\ conn[k].phase = "open" /\ conn[k].begun /\ ~conn[k].frozen
            /\ conn[k].up = <<>> /\ conn[k].down = <<>>
            => /\ srv.doc \subseteq doc[c]
               /\ Can(conn[k].role, "write") => doc[c] \subseteq srv.doc

\* Once the announcements of access changes are delivered, an open socket gives no more than its
\* user now has; unless access changed between its ticket and its registration, when the event
\* finds no socket, or one whose ticket names another source (upgrade.ts:166), or its link
\* expired, which is not announced.
RevokedIsClosedUnlessRaced ==
    srv.mode = "up" /\ events = <<>> =>
        \A k \in Registered :
            \/ conn[k].closing \/ conn[k].raced \/ (access.expired /\ conn[k].claims.via = "link")
            \/ Rank[conn[k].role] <= Rank[CurrentRole(conn[k].tab)]

\* When disturbances end, every tab that is online and may write has its edits in the database and
\* is told so; unless it is stranded as above, or its connection was given a read-only role before
\* its user got a better one that is not announced or that raced with it.
EditsAreSaved ==
    \A c \in Clients : <>[](\/ ~online[c] \/ tab[c].destroyed \/ tab[c].status = "denied" \/ c \in blinked
                            \/ ~Can(CurrentRole(c), "write")
                            \/ (tab[c].socket # NoSocket /\ ~Can(conn[tab[c].socket].role, "write"))
                            \/ (doc[c] \subseteq stored /\ Saved(c)))
=============================================================================
