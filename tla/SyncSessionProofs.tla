------------------------- MODULE SyncSessionProofs -------------------------
(* What holds of tabs and their connections for any number of tabs, edits,   *)
(* connections and disturbances: no tab is stranded, "saved" is true, an     *)
(* access that was taken away leaves no open socket, and a tab and the room  *)
(* hold the same document when nothing is on its way.                        *)
EXTENDS SyncSession, WellFoundedInduction, SequenceTheorems, TLAPS

-----------------------------------------------------------------------------
(* The transport of a tab. *)

TabRecord ==
    [status : {"connecting", "connected", "reconnecting", "offline", "denied"},
     socket : Nat, timer : BOOLEAN, connecting : BOOLEAN, hasConnected : BOOLEAN,
     reason : {"none", "forbidden", "not_found"}, destroyed : BOOLEAN]

\* The tab has a socket, or will get one without another event.
Trying(t) == t.socket # NoSocket \/ t.timer \/ t.connecting

LEMMA SmallestNumber ==
    ASSUME NEW S \in SUBSET Nat, S # {}
    PROVE  \E n \in S : \A m \in S : n <= m
<1>1. \E n \in S : \A m \in S : ~ (<<m, n>> \in OpToRel(<, Nat))
  BY NatLessThanWellFounded, WFMin, Zenon
<1>2. PICK n \in S : \A m \in S : ~ (<<m, n>> \in OpToRel(<, Nat))
  BY <1>1
<1>3. \A m \in S : ~(m < n)
  BY <1>2 DEF OpToRel
<1> QED
  BY <1>3

\* What tab c is like in a browser that is online or not.
TabFine(c, t, isOnline, excused) ==
    /\ t \in TabRecord
    /\ isOnline /\ ~t.destroyed /\ c \notin excused
         => /\ t.status # "offline"
            /\ t.status # "denied" => Trying(t)

TransportInv ==
    /\ tab \in [Clients -> TabRecord]
    /\ online \in [Clients -> BOOLEAN]
    /\ \A c \in Clients : TabFine(c, tab[c], online[c], blinked)

\* The handlers of a tab, whatever they find it in, keep it so.
LEMMA HandlersKeepTabFine ==
    ASSUME NEW c, NEW t, NEW isOnline \in BOOLEAN, NEW excused, TabFine(c, t, isOnline, excused)
    PROVE  /\ TabFine(c, TimerFires(t), isOnline, excused)
           /\ t.socket # NoSocket => TabFine(c, SocketOpened(t), isOnline, excused)
           /\ \A code : TabFine(c, SocketClosed(t, code), isOnline, excused)
           /\ TabFine(c, Destroy(t), isOnline, excused)
           /\ TabFine(c, TicketAnswered(t, "error", NoSocket), isOnline, excused)
           /\ \A why \in {"forbidden", "not_found"} :
                TabFine(c, TicketAnswered(t, why, NoSocket), isOnline, excused)
           /\ \A k \in Nat \ {NoSocket} : TabFine(c, TicketAnswered(t, "ok", k), isOnline, excused)
           /\ Stopped(t) => TabFine(c, TicketAnswered(t, "ok", NoSocket), isOnline, excused)
<1> USE DEF TabFine, TabRecord, Trying, NoSocket, Stopped
<1>1. TabFine(c, TimerFires(t), isOnline, excused)
  BY DEF TimerFires, Connect, ClearReconnect, Retrying
<1>2. t.socket # NoSocket => TabFine(c, SocketOpened(t), isOnline, excused)
  BY DEF SocketOpened
<1>3. ASSUME NEW code PROVE TabFine(c, SocketClosed(t, code), isOnline, excused)
  BY DEF SocketClosed, CloseSocket, Deny, ClearReconnect, Connect, Retrying, ScheduleReconnect
<1>4. TabFine(c, Destroy(t), isOnline, excused)
  BY DEF Destroy, CloseSocket, ClearReconnect
<1>5. TabFine(c, TicketAnswered(t, "error", NoSocket), isOnline, excused)
  BY DEF TicketAnswered, ScheduleReconnect, Retrying
<1>6. ASSUME NEW why \in {"forbidden", "not_found"}
      PROVE  TabFine(c, TicketAnswered(t, why, NoSocket), isOnline, excused)
  BY DEF TicketAnswered, Deny, ClearReconnect
<1>7. ASSUME NEW k \in Nat \ {NoSocket}
      PROVE  TabFine(c, TicketAnswered(t, "ok", k), isOnline, excused)
  BY DEF TicketAnswered
<1>8. Stopped(t) => TabFine(c, TicketAnswered(t, "ok", NoSocket), isOnline, excused)
  BY DEF TicketAnswered
<1> QED
  BY <1>1, <1>2, <1>3, <1>4, <1>5, <1>6, <1>7, <1>8

\* So do the browser's events, which also tell whether it is excused from now on.
LEMMA NetworkKeepsTabFine ==
    ASSUME NEW c, NEW t, NEW isOnline \in BOOLEAN, NEW excused, TabFine(c, t, isOnline, excused),
           NEW without, NEW with, t.connecting => c \in with
    PROVE  /\ TabFine(c, GoOffline(t), FALSE, without)
           /\ TabFine(c, ReconnectNow(t), TRUE, with)
<1> USE DEF TabFine, TabRecord, Trying, NoSocket
<1>1. TabFine(c, GoOffline(t), FALSE, without)
  BY DEF GoOffline, CloseSocket, ClearReconnect
<1>2. TabFine(c, ReconnectNow(t), TRUE, with)
  BY DEF ReconnectNow, Connect, CloseSocket, ClearReconnect, Retrying
<1> QED
  BY <1>1, <1>2

\* The socket that a tab opens is one of the connections that are free.
LEMMA FreeSlot ==
    ASSUME SessionAssumption, NEW idle \in SUBSET Conns, idle # {}
    PROVE  /\ (CHOOSE k \in idle : \A j \in idle : k <= j) \in idle
           /\ (CHOOSE k \in idle : \A j \in idle : k <= j) \in Nat \ {NoSocket}
<1>1. idle \subseteq Nat \ {0}
  BY DEF SessionAssumption
<1>2. \E k \in idle : \A j \in idle : k <= j
  BY <1>1, SmallestNumber
<1> QED
  BY <1>1, <1>2 DEF NoSocket

\* One tab changes, in the same network, and is fine after it.
LEMMA OneTabChanges ==
    ASSUME TransportInv, NEW c \in Clients, NEW t, TabFine(c, t, online[c], blinked),
           tab' = [tab EXCEPT ![c] = t], online' = online, blinked' = blinked
    PROVE  TransportInv'
  BY DEF TransportInv, TabFine

LEMMA TransportStep == TransportInv /\ [Next]_vars => TransportInv'
<1> SUFFICES ASSUME TransportInv, [Next]_vars PROVE TransportInv'
  OBVIOUS
<1> DEFINE Same == UNCHANGED <<tab, online, blinked>>
<1>1. Same => TransportInv'
  BY DEF TransportInv
<1>2. ASSUME NEW c \in Clients
      PROVE  TabFine(c, tab[c], online[c], blinked) /\ online[c] \in BOOLEAN
  BY DEF TransportInv
<1>3. ASSUME NEW c \in Clients, NEW answer \in {"ok", "forbidden", "not_found", "error"},
             TicketArrives(c, answer)
      PROVE  TransportInv'
  <2>1. UNCHANGED <<online, blinked>>
    BY <1>3 DEF TicketArrives
  <2>2. CASE answer = "ok" /\ ~Stopped(tab[c])
    <3> DEFINE idle == {k \in Conns : conn[k].phase = "gone" /\ ~Attached(k)}
               k == CHOOSE k \in idle : \A j \in idle : k <= j
               t == TicketAnswered(tab[c], "ok", k)
    <3>1. idle # {} /\ tab' = [tab EXCEPT ![c] = t]
      BY <1>3, <2>2 DEF TicketArrives
    <3>2. k \in Nat \ {NoSocket}
      BY <3>1, SessionAssumption, FreeSlot
    <3> HIDE DEF k
    <3>3. TabFine(c, t, online[c], blinked)
      BY <1>2, <3>2, HandlersKeepTabFine
    <3> HIDE DEF t
    <3> QED
      BY <2>1, <3>1, <3>3, OneTabChanges
  <2>3. CASE ~(answer = "ok" /\ ~Stopped(tab[c]))
    <3> DEFINE t == TicketAnswered(tab[c], answer, NoSocket)
    <3>1. tab' = [tab EXCEPT ![c] = t]
      BY <1>3, <2>3 DEF TicketArrives
    <3>2. TabFine(c, t, online[c], blinked)
      BY <1>2, <2>3, HandlersKeepTabFine
    <3> HIDE DEF t
    <3> QED
      BY <2>1, <3>1, <3>2, OneTabChanges
  <2> QED
    BY <2>2, <2>3
<1>4. ASSUME NEW c \in Clients, Receive(c) PROVE TransportInv'
  <2> DEFINE msg == Head(conn[tab[c].socket].down)
             t == CASE msg.t = "open" -> SocketOpened(tab[c])
                    [] msg.t = "close" -> SocketClosed(tab[c], msg.code)
                    [] OTHER -> tab[c]
  <2>1. /\ tab[c].socket # NoSocket /\ tab' = [tab EXCEPT ![c] = t]
        /\ UNCHANGED <<online, blinked>>
    BY <1>4 DEF Receive
  <2> HIDE DEF msg
  <2>2. TabFine(c, t, online[c], blinked)
    <3>1. TabFine(c, SocketOpened(tab[c]), online[c], blinked)
      BY <1>2, <2>1, HandlersKeepTabFine
    <3>2. TabFine(c, SocketClosed(tab[c], msg.code), online[c], blinked)
      BY <1>2, HandlersKeepTabFine
    <3> QED
      BY <1>2, <3>1, <3>2
  <2> HIDE DEF t
  <2> QED
    BY <2>1, <2>2, OneTabChanges
<1>5. ASSUME NEW c \in Clients, ReconnectTimer(c) PROVE TransportInv'
  <2> DEFINE t == TimerFires(tab[c])
  <2>1. tab' = [tab EXCEPT ![c] = t] /\ UNCHANGED <<online, blinked>>
    BY <1>5 DEF ReconnectTimer
  <2>2. TabFine(c, t, online[c], blinked)
    BY <1>2, HandlersKeepTabFine
  <2> HIDE DEF t
  <2> QED
    BY <2>1, <2>2, OneTabChanges
<1>6. ASSUME NEW c \in Clients, LeavePage(c) PROVE TransportInv'
  <2> DEFINE t == Destroy(tab[c])
  <2>1. tab' = [tab EXCEPT ![c] = t] /\ UNCHANGED <<online, blinked>>
    BY <1>6 DEF LeavePage
  <2>2. TabFine(c, t, online[c], blinked)
    BY <1>2, HandlersKeepTabFine
  <2> HIDE DEF t
  <2> QED
    BY <2>1, <2>2, OneTabChanges
<1>7. ASSUME NEW c \in Clients, NetworkChanges(c) PROVE TransportInv'
  <2> DEFINE t == IF online[c] THEN GoOffline(tab[c]) ELSE ReconnectNow(tab[c])
  <2>1. /\ tab' = [tab EXCEPT ![c] = t] /\ online' = [online EXCEPT ![c] = ~online[c]]
        /\ \A d \in Clients \ {c} : d \in blinked' <=> d \in blinked
        /\ ~online[c] /\ tab[c].connecting => c \in blinked'
    BY <1>7 DEF NetworkChanges
  <2>2. CASE online[c]
    <3> DEFINE u == GoOffline(tab[c])
    <3>1. TabFine(c, u, FALSE, blinked')
      BY <1>2, NetworkKeepsTabFine
    <3>2. tab' = [tab EXCEPT ![c] = u] /\ online' = [online EXCEPT ![c] = FALSE]
      BY <1>2, <2>1, <2>2
    <3> HIDE DEF u
    <3> QED
      BY <2>1, <3>1, <3>2 DEF TransportInv, TabFine
  <2>3. CASE ~online[c]
    <3> DEFINE u == ReconnectNow(tab[c])
    <3>1. TabFine(c, u, TRUE, blinked')
      BY <1>2, <2>1, <2>3, NetworkKeepsTabFine
    <3>2. tab' = [tab EXCEPT ![c] = u] /\ online' = [online EXCEPT ![c] = TRUE]
      BY <1>2, <2>1, <2>3
    <3> HIDE DEF u
    <3> QED
      BY <2>1, <3>1, <3>2 DEF TransportInv, TabFine
  <2> QED
    BY <1>2, <2>2, <2>3
<1>8. ASSUME NEW c \in Clients, FlushFrame(c) \/ \E e \in Edits : Edit(c, e) PROVE Same
  BY <1>8 DEF FlushFrame, Edit
<1>9. ASSUME NEW k \in Conns,
             \/ Authorize(k, TRUE) \/ Authorize(k, FALSE) \/ Register(k) \/ HandleMessage(k)
             \/ ConnectionClosed(k) \/ Refuse(k) \/ Cut(k)
      PROVE  Same
  BY <1>9 DEF Authorize, Register, HandleMessage, ConnectionClosed, Refuse, Cut, clientVars
<1>10. ASSUME \/ \E ok \in BOOLEAN : RoomReady(ok) \/ FlushedAll(ok)
              \/ Persist \/ Evict \/ Stop \/ Start \/ DeliverEvent \/ Shutdown \/ Crash
       PROVE  Same
  BY <1>10 DEF RoomReady, FlushedAll, Persist, Evict, Stop, Start, DeliverEvent, Shutdown, Crash, clientVars
<1>11. ASSUME \/ \E u \in Users, role \in {"none", "viewer", "editor"} : ChangeMember(u, role)
              \/ RevokeLink \/ LinkExpires \/ \E on \in BOOLEAN : SetPublic(on) \/ PlanLock(on) \/ Trash(on)
       PROVE  Same
  BY <1>11 DEF ChangeMember, RevokeLink, LinkExpires, SetPublic, PlanLock, Trash, Change, clientVars
<1>12. ASSUME UNCHANGED vars PROVE Same
  BY <1>12 DEF vars, clientVars
<1> QED
  BY <1>1, <1>3, <1>4, <1>5, <1>6, <1>7, <1>8, <1>9, <1>10, <1>11, <1>12
     DEF Next, ClientStep, ServerStep, Disturbance

LEMMA TransportInit == Init => TransportInv
<1>1. ASSUME NEW c \in Clients PROVE TabFine(c, Connect(Fresh), TRUE, {})
  <2>1. Fresh \in TabRecord /\ ~Fresh.destroyed /\ ~Fresh.connecting /\ Fresh.status = "connecting"
        /\ ~Fresh.hasConnected
    BY DEF TabRecord, Fresh, NoSocket
  <2>2. Connect(Fresh) = [Fresh EXCEPT !.status = "connecting", !.connecting = TRUE]
    BY <2>1 DEF Connect, Retrying
  <2> QED
    BY <2>1, <2>2 DEF TabFine, TabRecord, Trying
<1> QED
  BY <1>1 DEF Init, TransportInv, TabFine

\* No tab that is online and may connect is left without a socket, a timer and an attempt, by any
\* order of timers, tickets, network events and closes; except one that went offline and back while
\* a ticket was on its way (RoomSocket in socketBase.ts).
THEOREM NeverStranded == Spec => []NeverStrandedUnlessBlinked
<1>1. Init => TransportInv
  BY TransportInit
<1>2. TransportInv /\ [Next]_vars => TransportInv'
  BY TransportStep
<1>3. TransportInv => NeverStrandedUnlessBlinked
  BY DEF TransportInv, TabFine, Trying, NeverStrandedUnlessBlinked
<1> QED
  BY <1>1, <1>2, <1>3, PTL DEF Spec

-----------------------------------------------------------------------------
(* Connections and what is on the wire. *)

Codes == {"abnormal", "boardDeleted", "accessChanged", "internalError", "serviceRestart", "rateLimited"}
UpMessage == [t : {"step1", "step2", "update"}, ops : SUBSET Edits]

\* An acknowledgement names nothing but what is in the database by then.
DownMessage(db) ==
    [t : {"step1", "ops"}, ops : SUBSET Edits] \cup [t : {"persisted"}, ops : SUBSET db]
    \cup [t : {"open"}] \cup [t : {"close"}, code : Codes]

Claims == [role : Roles, via : {"none", "member", "org", "link", "public"}]
ConnRecord(db) ==
    [tab : Clients, phase : {"gone", "upgrading", "granted", "open"}, claims : Claims, role : Roles,
     up : Seq(UpMessage), down : Seq(DownMessage(db)),
     closing : BOOLEAN, frozen : BOOLEAN, begun : BOOLEAN, raced : BOOLEAN]
Event == [t : {"member"}, user : Users] \cup [t : {"link", "public_off", "plan", "board_deleted"}]

ClientTypes ==
    /\ doc \in [Clients -> SUBSET Edits]
    /\ pending \in [Clients -> [edits : SUBSET Edits, scheduled : BOOLEAN]]
    /\ persisted \in [Clients -> SUBSET stored]
ServerTypes ==
    /\ conn \in [Conns -> ConnRecord(stored)]
    /\ srv \in [mode : {"up", "flushing", "closing", "down"}, room : {"none", "loading", "ready"},
                doc : SUBSET Edits]
    /\ stored \subseteq Edits
    /\ access \in AccessRecord
    /\ events \in Seq(Event)
SessionTypes ==
    /\ TransportInv
    /\ \A c \in Clients : tab[c].socket \in Conns \cup {NoSocket}
    /\ ClientTypes /\ ServerTypes

LEMMA WireGrows ==
    ASSUME NEW before, NEW after, before \subseteq after
    PROVE  /\ Seq(DownMessage(before)) \subseteq Seq(DownMessage(after))
           /\ ConnRecord(before) \subseteq ConnRecord(after)
<1>1. DownMessage(before) \subseteq DownMessage(after)
  BY DEF DownMessage
<1>2. Seq(DownMessage(before)) \subseteq Seq(DownMessage(after))
  BY <1>1, SeqMonotonic, Zenon
<1> QED
  BY <1>2 DEF ConnRecord

LEMMA WireOperations ==
    ASSUME NEW db, NEW wire \in Seq(DownMessage(db)), NEW msg \in DownMessage(db)
    PROVE  /\ Append(wire, msg) \in Seq(DownMessage(db))
           /\ wire \o <<msg>> \in Seq(DownMessage(db))
           /\ <<msg>> \in Seq(DownMessage(db)) /\ <<>> \in Seq(DownMessage(db))
           /\ wire # <<>> => Head(wire) \in DownMessage(db) /\ Tail(wire) \in Seq(DownMessage(db))
  <1> HIDE DEF DownMessage
  <1> QED OBVIOUS

LEMMA ConnOperations ==
    ASSUME NEW db, NEW k \in ConnRecord(db), NEW code \in Codes
    PROVE  /\ Close(k, code) \in ConnRecord(db)
           /\ Free \in ConnRecord(db)
           /\ \A last \in Seq(DownMessage(db)) : \A j \in Conns :
                conn[j].tab \in Clients => Over(j, last) \in ConnRecord(db)
<1>1. [t |-> "close", code |-> code] \in DownMessage(db) /\ [t |-> "close", code |-> "abnormal"] \in DownMessage(db)
  BY DEF DownMessage, Codes
<1>2. k.down \in Seq(DownMessage(db)) /\ Abnormal \in Seq(DownMessage(db))
  BY <1>1 DEF ConnRecord, Abnormal
<1>3. Append(k.down, [t |-> "close", code |-> code]) \in Seq(DownMessage(db))
  BY <1>1, <1>2
<1>4. Close(k, code) \in ConnRecord(db)
  BY <1>3 DEF Close, ConnRecord
<1>5. Free \in ConnRecord(db)
  <2>1. (CHOOSE c \in Clients : TRUE) \in Clients
    BY SessionAssumption DEF SessionAssumption
  <2> QED
    BY <2>1 DEF Free, ConnRecord, Claims, Roles
<1>6. ASSUME NEW last \in Seq(DownMessage(db)), NEW j \in Conns, conn[j].tab \in Clients
      PROVE  Over(j, last) \in ConnRecord(db)
  BY <1>2, <1>5, <1>6 DEF Over, ConnRecord
<1> QED
  BY <1>4, <1>5, <1>6

LEMMA SendOperations ==
    ASSUME NEW db, NEW cs \in [Conns -> ConnRecord(db)], NEW k \in Conns
    PROVE  /\ \A msgs \in Seq(DownMessage(db)) : Send(cs, k, msgs) \in ConnRecord(db)
           /\ \A content \in SUBSET Edits : stored \subseteq db /\ stored \subseteq Edits
                => BeginSync(cs, k, content) \in ConnRecord(db)
<1>1. ASSUME NEW fs \in [Conns -> ConnRecord(db)], NEW j \in Conns, NEW msgs \in Seq(DownMessage(db))
      PROVE  Send(fs, j, msgs) \in ConnRecord(db)
  <2>1. PICK one, wire : one = fs[j] /\ wire = one.down \o msgs
    OBVIOUS
  <2>2. one \in ConnRecord(db)
    BY <2>1
  <2>3. one.down \in Seq(DownMessage(db))
    BY <2>2 DEF ConnRecord
  <2>4. wire \in Seq(DownMessage(db))
    BY <2>1, <2>3, ConcatProperties
  <2>5. [one EXCEPT !.down = wire] \in ConnRecord(db)
    BY <2>2, <2>4 DEF ConnRecord
  <2>6. Send(fs, j, msgs) \in {one, [one EXCEPT !.down = wire]}
    BY <2>1 DEF Send
  <2> QED
    BY <2>2, <2>5, <2>6
<1>3. ASSUME NEW content \in SUBSET Edits, stored \subseteq db, stored \subseteq Edits
      PROVE  BeginSync(cs, k, content) \in ConnRecord(db)
  <2> DEFINE fs == [cs EXCEPT ![k].begun = TRUE]
             msgs == <<[t |-> "step1", ops |-> Vector(content)], [t |-> "persisted", ops |-> Vector(stored)]>>
  <2>1. [cs[k] EXCEPT !.begun = TRUE] \in ConnRecord(db)
    BY DEF ConnRecord
  <2>2. fs \in [Conns -> ConnRecord(db)]
    BY <2>1
  <2>3. /\ [t |-> "step1", ops |-> Vector(content)] \in DownMessage(db)
        /\ [t |-> "persisted", ops |-> Vector(stored)] \in DownMessage(db)
    BY <1>3 DEF DownMessage, Vector
  <2>4. msgs \in Seq(DownMessage(db))
    BY <2>3
  <2> HIDE DEF fs, msgs
  <2>5. Send(fs, k, msgs) \in ConnRecord(db)
    BY <1>1, <2>2, <2>4
  <2> QED
    BY <2>5 DEF BeginSync, fs, msgs
<1> QED
  BY <1>1, <1>3

LEMMA SendAllOperation ==
    ASSUME NEW db, NEW cs \in [Conns -> ConnRecord(db)], NEW except, NEW msg \in DownMessage(db)
    PROVE  SendAll(cs, except, msg) \in [Conns -> ConnRecord(db)]
<1>1. <<msg>> \in Seq(DownMessage(db))
  OBVIOUS
<1>2. ASSUME NEW k \in Conns PROVE Send(cs, k, <<msg>>) \in ConnRecord(db)
  BY <1>1, SendOperations
<1> QED
  BY <1>2 DEF SendAll

\* What a tab sends goes into its own connection.
LEMMA UpOperations ==
    ASSUME NEW db, NEW cs \in [Conns -> ConnRecord(db)], NEW k \in Conns, NEW msg \in UpMessage
    PROVE  /\ [cs EXCEPT ![k].up = Append(@, msg)] \in [Conns -> ConnRecord(db)]
           /\ cs[k].up # <<>> => /\ Head(cs[k].up) \in UpMessage
                                 /\ [cs EXCEPT ![k].up = Tail(@)] \in [Conns -> ConnRecord(db)]
           /\ cs[k].down # <<>> => /\ Head(cs[k].down) \in DownMessage(db)
                                   /\ [cs EXCEPT ![k].down = Tail(@)] \in [Conns -> ConnRecord(db)]
<1>1. /\ cs[k] \in ConnRecord(db) /\ cs[k].up \in Seq(UpMessage) /\ cs[k].down \in Seq(DownMessage(db))
  BY DEF ConnRecord
<1>2. Append(cs[k].up, msg) \in Seq(UpMessage)
  BY <1>1
<1>3. cs[k].up # <<>> => Head(cs[k].up) \in UpMessage /\ Tail(cs[k].up) \in Seq(UpMessage)
  BY <1>1, HeadTailProperties
<1>4. cs[k].down # <<>> => Head(cs[k].down) \in DownMessage(db) /\ Tail(cs[k].down) \in Seq(DownMessage(db))
  BY <1>1, HeadTailProperties
<1>5. [cs[k] EXCEPT !.up = Append(@, msg)] \in ConnRecord(db)
  BY <1>1, <1>2 DEF ConnRecord
<1>6. cs[k].up # <<>> => [cs[k] EXCEPT !.up = Tail(@)] \in ConnRecord(db)
  BY <1>1, <1>3 DEF ConnRecord
<1>7. cs[k].down # <<>> => [cs[k] EXCEPT !.down = Tail(@)] \in ConnRecord(db)
  BY <1>1, <1>4 DEF ConnRecord
<1> QED
  BY <1>3, <1>4, <1>5, <1>6, <1>7

LEMMA RolesAreRoles ==
    ASSUME ServerTypes
    PROVE  /\ \A c \in Clients : Ticket(c) \in Claims
           /\ \A k \in Conns : Authorized(k) \in Roles
<1>1. ASSUME NEW c \in Clients, NEW link \in BOOLEAN
      PROVE  Resolve(Row(UserOf[c], link)) \in Claims
  <2> DEFINE row == Row(UserOf[c], link)
  <2>1. row.member \in Roles /\ row.org = "none" /\ row.link \in Roles /\ ~row.capped
    BY DEF ServerTypes, AccessRecord, Row, Users, Roles
  <2>2. ASSUME NEW found \in Claims, NEW role \in Roles, NEW via \in {"member", "org", "link", "public"}
        PROVE  Offer(found, role, via) \in Claims
    BY DEF Offer, Claims
  <2>3. [role |-> "none", via |-> "none"] \in Claims /\ OrgOffer(row.org) \in Roles
    BY <2>1 DEF Claims, Roles, OrgOffer
  <2>4. (IF row.isPublic THEN "viewer" ELSE "none") \in Roles
    BY DEF Roles
  <2> HIDE DEF row
  <2>5. Offer(Offer([role |-> "none", via |-> "none"], row.member, "member"), OrgOffer(row.org), "org") \in Claims
    BY <2>1, <2>2, <2>3
  <2>6. Offer(Offer(Offer(Offer([role |-> "none", via |-> "none"], row.member, "member"),
           OrgOffer(row.org), "org"), row.link, "link"), IF row.isPublic THEN "viewer" ELSE "none", "public") \in Claims
    BY <2>1, <2>2, <2>4, <2>5
  <2> QED
    BY <2>1, <2>6 DEF Resolve, row
<1>2. ASSUME NEW c \in Clients PROVE Ticket(c) \in Claims
  <2>1. Resolve(Row(UserOf[c], c \in HasLink)) \in Claims
    <3>1. CASE c \in HasLink
      BY <3>1, <1>1 DEF Row
    <3>2. CASE c \notin HasLink
      BY <3>2, <1>1 DEF Row
    <3> QED
      BY <3>1, <3>2
  <2> QED
    BY <2>1 DEF Ticket, Limited, Claims, Roles
<1>3. ASSUME NEW k \in Conns PROVE Authorized(k) \in Roles
  <2> DEFINE now == Resolve(Row(UserOf[conn[k].tab], conn[k].claims.via = "link"))
  <2>1. conn[k].tab \in Clients /\ conn[k].claims \in Claims
    BY DEF ServerTypes, ConnRecord
  <2>2. now \in Claims
    <3>1. CASE conn[k].claims.via = "link"
      BY <2>1, <3>1, <1>1 DEF Row
    <3>2. CASE conn[k].claims.via # "link"
      BY <2>1, <3>2, <1>1 DEF Row
    <3> QED
      BY <3>1, <3>2
  <2> HIDE DEF now
  <2>3. LowerRole(conn[k].claims.role, now.role) \in Roles
    BY <2>1, <2>2 DEF LowerRole, Claims
  <2> QED
    BY <2>3 DEF Authorized, Limited, Roles, now
<1> QED
  BY <1>2, <1>3

\* A handler leaves a tab its socket, takes it away or gives it the one it was handed.
LEMMA HandlersSocket ==
    ASSUME NEW t \in TabRecord
    PROVE  /\ \A h \in {TimerFires(t), SocketOpened(t), Destroy(t), GoOffline(t), ReconnectNow(t)} :
                h.socket \in {t.socket, NoSocket}
           /\ \A code : SocketClosed(t, code).socket \in {t.socket, NoSocket}
           /\ \A answer, k : TicketAnswered(t, answer, k).socket \in {t.socket, NoSocket, k}
<1> USE DEF TabRecord, NoSocket
<1>1. Connect(t).socket = t.socket /\ Connect(t) \in TabRecord
  BY DEF Connect, Retrying
<1>2. TimerFires(t).socket = t.socket
  BY DEF TimerFires, ClearReconnect, Connect
<1>3. SocketOpened(t).socket = t.socket
  BY DEF SocketOpened
<1>4. Destroy(t).socket = 0 /\ GoOffline(t).socket = 0
  BY DEF Destroy, GoOffline, CloseSocket, ClearReconnect
<1>5. ReconnectNow(t).socket \in {t.socket, 0}
  BY DEF ReconnectNow, CloseSocket, ClearReconnect, Connect
<1>6. ASSUME NEW code PROVE SocketClosed(t, code).socket \in {t.socket, 0}
  BY DEF SocketClosed, CloseSocket, Deny, ClearReconnect, Connect, ScheduleReconnect
<1>7. ASSUME NEW answer, NEW k PROVE TicketAnswered(t, answer, k).socket \in {t.socket, 0, k}
  BY DEF TicketAnswered, Deny, ClearReconnect, ScheduleReconnect
<1> QED
  BY <1>2, <1>3, <1>4, <1>5, <1>6, <1>7

Types ==
    /\ \A c \in Clients : tab[c].socket \in Conns \cup {NoSocket}
    /\ ClientTypes /\ ServerTypes

LEMMA ClientsKeepTypes ==
    ASSUME TransportInv, Types, NEW c \in Clients,
           \/ FlushFrame(c) \/ Receive(c) \/ ReconnectTimer(c) \/ NetworkChanges(c) \/ LeavePage(c)
           \/ \E answer \in {"ok", "forbidden", "not_found", "error"} : TicketArrives(c, answer)
           \/ \E e \in Edits : Edit(c, e)
    PROVE  Types'
<1>1. tab[c] \in TabRecord /\ tab[c].socket \in Conns \cup {NoSocket} /\ tab \in [Clients -> TabRecord]
  BY DEF TransportInv, Types
<1>2. ASSUME NEW e \in Edits, Edit(c, e) PROVE Types'
  BY <1>2 DEF Edit, Types, ClientTypes, ServerTypes
<1>3. ASSUME FlushFrame(c) PROVE Types'
  <2> DEFINE msg == [t |-> "update", ops |-> pending[c].edits]
  <2>1. msg \in UpMessage
    BY DEF Types, ClientTypes, UpMessage
  <2> HIDE DEF msg
  <2>2. SendUp(c, msg) \in [Conns -> ConnRecord(stored)]
    BY <1>1, <2>1, UpOperations DEF SendUp, Types, ServerTypes
  <2>3. conn' \in [Conns -> ConnRecord(stored)]
    BY <1>3, <2>2 DEF FlushFrame, Types, ServerTypes, msg
  <2>4. pending' \in [Clients -> [edits : SUBSET Edits, scheduled : BOOLEAN]]
    BY <1>3 DEF FlushFrame, Types, ClientTypes
  <2> QED
    BY <1>3, <2>3, <2>4 DEF FlushFrame, Types, ClientTypes, ServerTypes
<1>4. ASSUME Receive(c) PROVE Types'
  <2> DEFINE k == tab[c].socket
             msg == Head(conn[k].down)
             rest == [conn EXCEPT ![k].down = Tail(@)]
             hello == [t |-> "step1", ops |-> Vector(doc[c])]
             lacked == [t |-> "step2", ops |-> Missing(doc[c], msg.ops)]
  <2>1. k \in Conns /\ conn[k].down # <<>>
    BY <1>1, <1>4 DEF Receive
  <2>2. hello \in UpMessage /\ lacked \in UpMessage
    BY DEF UpMessage, Vector, Missing, Edits, Types, ClientTypes
  <2>3. msg \in DownMessage(stored) /\ rest \in [Conns -> ConnRecord(stored)]
    BY <2>1, <2>2, UpOperations DEF Types, ServerTypes
  <2>4. /\ [rest EXCEPT ![k].up = Append(@, hello)] \in [Conns -> ConnRecord(stored)]
        /\ [rest EXCEPT ![k].up = Append(@, lacked)] \in [Conns -> ConnRecord(stored)]
    <3> HIDE DEF hello, lacked, rest
    <3> QED
      BY <2>1, <2>2, <2>3, UpOperations
  <2>5. conn' \in [Conns -> ConnRecord(stored)]
    <3>1. conn' \in {rest, [rest EXCEPT ![k].up = Append(@, hello)], [rest EXCEPT ![k].up = Append(@, lacked)]}
      BY <1>4 DEF Receive
    <3> QED
      BY <2>3, <2>4, <3>1
  <2>6. /\ msg.t = "ops" => msg.ops \in SUBSET Edits
        /\ msg.t = "persisted" => msg.ops \in SUBSET stored
    BY <2>3 DEF DownMessage
  <2>7. ClientTypes'
    <3>1. doc' \in [Clients -> SUBSET Edits] /\ persisted' \in [Clients -> SUBSET stored]
      BY <1>4, <2>6 DEF Receive, Types, ClientTypes
    <3>2. pending' \in [Clients -> [edits : SUBSET Edits, scheduled : BOOLEAN]]
      BY <1>4 DEF Receive, Types, ClientTypes
    <3> QED
      BY <1>4, <3>1, <3>2 DEF Receive, ClientTypes
  <2>8. \A d \in Clients : tab'[d].socket \in Conns \cup {NoSocket}
    <3> HIDE DEF msg
    <3>1. /\ SocketOpened(tab[c]).socket \in {k, NoSocket}
          /\ SocketClosed(tab[c], msg.code).socket \in {k, NoSocket}
      BY <1>1, HandlersSocket
    <3>2. \E u : tab' = [tab EXCEPT ![c] = u] /\ u \in {tab[c], SocketOpened(tab[c]), SocketClosed(tab[c], msg.code)}
      BY <1>4 DEF Receive, msg
    <3> QED
      BY <1>1, <2>1, <3>1, <3>2 DEF Types
  <2> QED
    BY <1>4, <2>5, <2>7, <2>8 DEF Receive, Types, ServerTypes
<1>5. ASSUME ReconnectTimer(c) \/ NetworkChanges(c) \/ LeavePage(c) PROVE Types'
  <2>1. /\ UNCHANGED <<doc, pending, persisted, conn, srv, stored, access, events>>
        /\ \E u : tab' = [tab EXCEPT ![c] = u]
                  /\ u \in {TimerFires(tab[c]), Destroy(tab[c]), GoOffline(tab[c]), ReconnectNow(tab[c])}
    BY <1>5 DEF ReconnectTimer, NetworkChanges, LeavePage
  <2>2. PICK u : /\ tab' = [tab EXCEPT ![c] = u]
                 /\ u \in {TimerFires(tab[c]), Destroy(tab[c]), GoOffline(tab[c]), ReconnectNow(tab[c])}
    BY <2>1
  <2>3. u.socket \in {tab[c].socket, NoSocket}
    BY <1>1, <2>2, HandlersSocket
  <2> QED
    BY <1>1, <2>1, <2>2, <2>3 DEF Types, ClientTypes, ServerTypes
<1>6. ASSUME NEW answer \in {"ok", "forbidden", "not_found", "error"}, TicketArrives(c, answer) PROVE Types'
  <2> DEFINE idle == {k \in Conns : conn[k].phase = "gone" /\ ~Attached(k)}
             k == CHOOSE k \in idle : \A j \in idle : k <= j
             new == [Free EXCEPT !.tab = c, !.claims = Ticket(c),
                                 !.phase = IF srv.mode = "up" THEN "upgrading" ELSE "gone",
                                 !.down = IF srv.mode = "up" THEN <<>> ELSE Abnormal]
  <2>1. UNCHANGED <<doc, pending, persisted, srv, stored, access, events>>
    BY <1>6 DEF TicketArrives
  <2>2. CASE answer = "ok" /\ ~Stopped(tab[c])
    <3>1. /\ idle # {} /\ tab' = [tab EXCEPT ![c] = TicketAnswered(@, "ok", k)]
          /\ conn' = [conn EXCEPT ![k] = new]
      BY <1>6, <2>2 DEF TicketArrives
    <3>2. k \in Conns
      BY <3>1, SessionAssumption, FreeSlot
    <3>3. TicketAnswered(tab[c], "ok", k).socket \in {tab[c].socket, NoSocket, k}
      BY <1>1, HandlersSocket
    <3>4. new \in ConnRecord(stored)
      <4>1. Ticket(c) \in Claims /\ Abnormal \in Seq(DownMessage(stored)) /\ <<>> \in Seq(DownMessage(stored))
        BY RolesAreRoles, EmptySeq DEF Types, Abnormal, DownMessage, Codes
      <4>2. Free \in ConnRecord(stored)
        BY SessionAssumption DEF SessionAssumption, Free, ConnRecord, Claims, Roles
      <4> QED
        BY <4>1, <4>2 DEF ConnRecord
    <3> HIDE DEF k, new
    <3> QED
      BY <1>1, <2>1, <3>1, <3>2, <3>3, <3>4 DEF Types, ClientTypes, ServerTypes
  <2>3. CASE ~(answer = "ok" /\ ~Stopped(tab[c]))
    <3>1. tab' = [tab EXCEPT ![c] = TicketAnswered(@, answer, NoSocket)] /\ UNCHANGED conn
      BY <1>6, <2>3 DEF TicketArrives
    <3>2. TicketAnswered(tab[c], answer, NoSocket).socket \in {tab[c].socket, NoSocket}
      BY <1>1, HandlersSocket
    <3> QED
      BY <1>1, <2>1, <3>1, <3>2 DEF Types, ClientTypes, ServerTypes
  <2> QED
    BY <2>2, <2>3
<1> QED
  BY <1>2, <1>3, <1>4, <1>5, <1>6

LEMMA ServerKeepsTypes ==
    ASSUME Types,
           \/ \E k \in Conns : \/ Authorize(k, TRUE) \/ Authorize(k, FALSE) \/ Register(k)
                               \/ HandleMessage(k) \/ ConnectionClosed(k) \/ Refuse(k) \/ Cut(k)
           \/ \E ok \in BOOLEAN : RoomReady(ok) \/ FlushedAll(ok)
           \/ Persist \/ Evict \/ Stop \/ Start \/ DeliverEvent \/ Shutdown \/ Crash
    PROVE  Types'
<1> DEFINE C == [Conns -> ConnRecord(stored)]
<1>1. conn \in C /\ stored \subseteq Edits /\ srv.doc \subseteq Edits /\ srv.room \in {"none", "loading", "ready"}
      /\ srv.mode \in {"up", "flushing", "closing", "down"}
  BY DEF Types, ServerTypes
<1>2. ASSUME NEW k \in Conns
      PROVE  /\ conn[k] \in ConnRecord(stored) /\ Over(k, <<>>) \in ConnRecord(stored)
             /\ Over(k, conn[k].down) \in ConnRecord(stored)
  <2>1. /\ conn[k] \in ConnRecord(stored) /\ conn[k].tab \in Clients
        /\ conn[k].down \in Seq(DownMessage(stored)) /\ <<>> \in Seq(DownMessage(stored))
    BY <1>1, EmptySeq DEF ConnRecord
  <2>2. "abnormal" \in Codes
    BY DEF Codes
  <2> QED
    BY <2>1, <2>2, ConnOperations
<1>3. ASSUME NEW db, NEW cs \in [Conns -> ConnRecord(db)], NEW code \in Codes, NEW k \in Conns
      PROVE  Close(cs[k], code) \in ConnRecord(db)
  <2>1. cs[k] \in ConnRecord(db)
    OBVIOUS
  <2> QED
    BY <2>1, ConnOperations
\* Steps that change connections and the room, and what is stored not at all.
<1>4. ASSUME UNCHANGED <<clientVars, stored, access>>, events' \in Seq(Event),
             conn' \in C, srv' \in [mode : {"up", "flushing", "closing", "down"},
                                    room : {"none", "loading", "ready"}, doc : SUBSET Edits]
      PROVE  Types'
  BY <1>4 DEF Types, ClientTypes, ServerTypes, clientVars
<1>5. ASSUME UNCHANGED srv
      PROVE  srv' \in [mode : {"up", "flushing", "closing", "down"}, room : {"none", "loading", "ready"}, doc : SUBSET Edits]
  BY <1>5 DEF Types, ServerTypes
<1>6. ASSUME UNCHANGED events PROVE events' \in Seq(Event)
  BY <1>6 DEF Types, ServerTypes
<1>7. ASSUME NEW k \in Conns, Authorize(k, TRUE) \/ Authorize(k, FALSE) PROVE Types'
  <2>1. [conn[k] EXCEPT !.phase = "granted", !.role = Authorized(k)] \in ConnRecord(stored)
    BY <1>2, RolesAreRoles DEF Types, ConnRecord
  <2>2. conn' \in {[conn EXCEPT ![k] = Over(k, <<>>)],
                   [conn EXCEPT ![k] = [@ EXCEPT !.phase = "granted", !.role = Authorized(k)]]}
    BY <1>7 DEF Authorize
  <2>3. conn' \in C
    BY <1>1, <1>2, <2>1, <2>2
  <2> QED
    BY <1>4, <1>5, <1>6, <1>7, <2>3 DEF Authorize
<1>8. ASSUME NEW k \in Conns, Register(k) PROVE Types'
  <2> DEFINE opened == [conn EXCEPT ![k].phase = "open", ![k].down = <<[t |-> "open"]>>]
  <2>1. opened \in C
    <3>1. [t |-> "open"] \in DownMessage(stored)
      BY DEF DownMessage
    <3>2. <<[t |-> "open"]>> \in Seq(DownMessage(stored))
      BY <3>1
    <3>3. [conn[k] EXCEPT !.phase = "open", !.down = <<[t |-> "open"]>>] \in ConnRecord(stored)
      BY <1>2, <3>2 DEF ConnRecord
    <3> QED
      BY <1>1, <3>3
  <2>2. conn' \in {[conn EXCEPT ![k] = Over(k, <<>>)], [opened EXCEPT ![k] = BeginSync(opened, k, srv.doc)], opened}
    BY <1>8 DEF Register
  <2> HIDE DEF opened
  <2>3. BeginSync(opened, k, srv.doc) \in ConnRecord(stored)
    BY <1>1, <2>1, SendOperations
  <2>4. conn' \in C
    BY <1>1, <1>2, <2>1, <2>2, <2>3
  <2>5. srv' \in {srv, [srv EXCEPT !.room = "loading"]}
    BY <1>8 DEF Register
  <2>6. srv' \in [mode : {"up", "flushing", "closing", "down"}, room : {"none", "loading", "ready"}, doc : SUBSET Edits]
    BY <2>5 DEF Types, ServerTypes
  <2> QED
    BY <1>4, <1>6, <1>8, <2>4, <2>6 DEF Register
<1>9. ASSUME NEW k \in Conns, HandleMessage(k) PROVE Types'
  <2> DEFINE msg == Head(conn[k].up)
             rest == [conn EXCEPT ![k].up = Tail(@)]
             news == [t |-> "ops", ops |-> msg.ops \ srv.doc]
             lacked == [t |-> "ops", ops |-> Missing(srv.doc, msg.ops)]
  <2>1. msg \in UpMessage /\ rest \in C
    <3>1. [t |-> "step1", ops |-> {}] \in UpMessage
      BY DEF UpMessage
    <3> QED
      BY <1>1, <1>9, <3>1, UpOperations DEF HandleMessage
  <2>2. msg.ops \subseteq Edits
    BY <2>1 DEF UpMessage
  <2>3. news \in DownMessage(stored) /\ lacked \in DownMessage(stored) /\ <<lacked>> \in Seq(DownMessage(stored))
    BY <1>1, <2>2 DEF DownMessage, Missing
  <2>4. conn' \in {rest, SendAll(rest, k, news), [rest EXCEPT ![k] = Send(rest, k, <<lacked>>)]}
    BY <1>9 DEF HandleMessage
  <2>5. srv' \in {srv, [srv EXCEPT !.doc = @ \cup (msg.ops \ srv.doc)]}
    BY <1>9 DEF HandleMessage
  <2>6. srv' \in [mode : {"up", "flushing", "closing", "down"}, room : {"none", "loading", "ready"}, doc : SUBSET Edits]
    BY <2>2, <2>5 DEF Types, ServerTypes
  <2> HIDE DEF msg, rest, news, lacked
  <2>7. SendAll(rest, k, news) \in C /\ Send(rest, k, <<lacked>>) \in ConnRecord(stored)
    BY <2>1, <2>3, SendOperations, SendAllOperation
  <2>8. conn' \in C
    BY <2>1, <2>4, <2>7
  <2> QED
    BY <1>4, <1>6, <1>9, <2>6, <2>8 DEF HandleMessage
<1>10. ASSUME NEW k \in Conns, ConnectionClosed(k) \/ Cut(k) PROVE Types'
  <2>1. conn' \in {[conn EXCEPT ![k] = Over(k, <<>>)], [conn EXCEPT ![k] = Over(k, conn[k].down)]}
    BY <1>10 DEF ConnectionClosed, Cut
  <2>2. conn' \in C
    BY <1>1, <1>2, <2>1
  <2> QED
    BY <1>4, <1>5, <1>6, <1>10, <2>2 DEF ConnectionClosed, Cut
<1>11. ASSUME NEW k \in Conns, Refuse(k) PROVE Types'
  <2> DEFINE less == [conn[k] EXCEPT !.up = Tail(@)]
  <2>1. less \in ConnRecord(stored)
    <3>1. Tail(conn[k].up) \in Seq(UpMessage)
      BY <1>2, <1>11, HeadTailProperties DEF Refuse, ConnRecord
    <3> QED
      BY <1>2, <3>1 DEF ConnRecord
  <2>2. conn' = [conn EXCEPT ![k] = Close(less, "rateLimited")]
    BY <1>11 DEF Refuse
  <2> HIDE DEF less
  <2>3. Close(less, "rateLimited") \in ConnRecord(stored)
    BY <2>1, ConnOperations DEF Codes
  <2>4. conn' \in C
    BY <1>1, <2>2, <2>3
  <2> QED
    BY <1>4, <1>5, <1>6, <1>11, <2>4 DEF Refuse
<1>12. ASSUME NEW ok \in BOOLEAN, RoomReady(ok) PROVE Types'
  <2>1. ASSUME NEW k \in Conns PROVE conn'[k] \in ConnRecord(stored)
    <3>1. conn'[k] \in {conn[k], BeginSync(conn, k, stored), Close(conn[k], "boardDeleted"), Close(conn[k], "internalError")}
      BY <1>12 DEF RoomReady
    <3> QED
      BY <1>1, <1>2, <1>3, <3>1, SendOperations DEF Codes
  <2>2. conn' \in C
    BY <1>12, <2>1 DEF RoomReady
  <2>3. srv' \in {[srv EXCEPT !.room = "ready", !.doc = stored], [srv EXCEPT !.room = "none"]}
    BY <1>12 DEF RoomReady
  <2>4. srv' \in [mode : {"up", "flushing", "closing", "down"}, room : {"none", "loading", "ready"}, doc : SUBSET Edits]
    BY <1>1, <2>3 DEF Types, ServerTypes
  <2> QED
    BY <1>4, <1>6, <1>12, <2>2, <2>4 DEF RoomReady
<1>13. ASSUME Stop \/ Crash PROVE Types'
  <2>1. conn' \in C
    BY <1>1, <1>2, <1>13 DEF Stop, Crash
  <2>2. srv' \in [mode : {"up", "flushing", "closing", "down"}, room : {"none", "loading", "ready"}, doc : SUBSET Edits]
    BY <1>13 DEF Stop, Crash
  <2>3. events' \in Seq(Event) /\ UNCHANGED <<clientVars, stored, access>>
    BY <1>13, EmptySeq DEF Stop, Crash
  <2> QED
    BY <1>4, <2>1, <2>2, <2>3
<1>14. ASSUME Start \/ Shutdown PROVE Types'
  <2>1. conn' \in C
    <3>1. ASSUME NEW k \in Conns PROVE [conn[k] EXCEPT !.frozen = TRUE] \in ConnRecord(stored)
      BY <1>2 DEF ConnRecord
    <3> QED
      BY <1>1, <1>14, <3>1 DEF Start, Shutdown
  <2>2. srv' \in [mode : {"up", "flushing", "closing", "down"}, room : {"none", "loading", "ready"}, doc : SUBSET Edits]
    BY <1>14 DEF Types, ServerTypes, Start, Shutdown
  <2> QED
    BY <1>4, <1>6, <1>14, <2>1, <2>2 DEF Start, Shutdown
<1>15. ASSUME DeliverEvent PROVE Types'
  <2>1. conn' \in C
    <3>1. ASSUME NEW k \in Conns
          PROVE  Close(conn[k], "boardDeleted") \in ConnRecord(stored) /\ Close(conn[k], "accessChanged") \in ConnRecord(stored)
      BY <1>1, <1>3 DEF Codes
    <3> QED
      BY <1>1, <1>15, <3>1 DEF DeliverEvent
  <2>2. events' \in Seq(Event)
    BY <1>15, HeadTailProperties DEF DeliverEvent, Types, ServerTypes
  <2> QED
    BY <1>4, <1>5, <1>15, <2>1, <2>2 DEF DeliverEvent
\* Steps that store what the room holds.
<1>16. ASSUME Persist \/ Evict \/ \E ok \in BOOLEAN : FlushedAll(ok) PROVE Types'
  <2>1. /\ stored \subseteq stored' /\ stored' \subseteq Edits
        /\ UNCHANGED <<clientVars, access, events>>
        /\ srv' \in [mode : {"up", "flushing", "closing", "down"}, room : {"none", "loading", "ready"}, doc : SUBSET Edits]
    BY <1>1, <1>16 DEF Persist, Evict, FlushedAll, Types, ServerTypes
  <2> DEFINE msg == [t |-> "persisted", ops |-> Vector(srv.doc)]
             D == [Conns -> ConnRecord(stored')]
  <2>2. conn \in D
    BY <1>1, <2>1, WireGrows
  <2>3. ASSUME stored' = stored \cup srv.doc PROVE msg \in DownMessage(stored')
    BY <2>3 DEF DownMessage, Vector
  <2>4. ASSUME stored' = stored \cup srv.doc PROVE SendAll(conn, 0, msg) \in D
    BY <2>2, <2>3, <2>4, SendAllOperation
  <2> HIDE DEF msg
  <2>5. conn' \in D
    <3>1. CASE Persist
      BY <2>4, <3>1 DEF Persist, msg
    <3>2. CASE Evict
      BY <2>2, <3>2 DEF Evict
    <3>3. ASSUME NEW ok \in BOOLEAN, FlushedAll(ok) PROVE conn' \in D
      <4> DEFINE acked == IF ok /\ srv.room = "ready" THEN SendAll(conn, 0, msg) ELSE conn
      <4>1. acked \in D
        BY <2>2, <2>4, <3>3 DEF FlushedAll
      <4>2. conn' = [k \in Conns |-> Close(acked[k], "serviceRestart")]
        BY <3>3 DEF FlushedAll, msg
      <4> HIDE DEF acked
      <4>3. ASSUME NEW k \in Conns PROVE Close(acked[k], "serviceRestart") \in ConnRecord(stored')
        BY <1>3, <4>1 DEF Codes
      <4> QED
        BY <4>2, <4>3
    <3> QED
      BY <1>16, <3>1, <3>2, <3>3
  <2>6. persisted \in [Clients -> SUBSET stored']
    BY <2>1 DEF Types, ClientTypes
  <2> QED
    BY <2>1, <2>5, <2>6 DEF Types, ClientTypes, ServerTypes, clientVars
<1> QED
  BY <1>7, <1>8, <1>9, <1>10, <1>11, <1>12, <1>13, <1>14, <1>15, <1>16

\* What a change of access does to the rest, whichever it is.
LEMMA AccessChanges ==
    ASSUME Types,
           \/ \E u \in Users, role \in {"none", "viewer", "editor"} : ChangeMember(u, role)
           \/ RevokeLink \/ LinkExpires \/ \E on \in BOOLEAN : SetPublic(on) \/ PlanLock(on) \/ Trash(on)
    PROVE  Types' /\ \E a \in AccessRecord, ev \in Seq(Event) : Change(a, ev)
<1>1. <<>> \in Seq(Event)
  BY EmptySeq
<1>2. ASSUME NEW u \in Users, NEW role \in {"none", "viewer", "editor"}, ChangeMember(u, role)
      PROVE  \E a \in AccessRecord, ev \in Seq(Event) : Change(a, ev)
  <2>1. [access EXCEPT !.member[u] = role] \in AccessRecord
    BY DEF Types, ServerTypes, AccessRecord, Roles
  <2>2. <<[t |-> "member", user |-> u]>> \in Seq(Event)
    BY DEF Event
  <2> QED
    BY <1>1, <1>2, <2>1, <2>2 DEF ChangeMember
<1>3. ASSUME RevokeLink \/ LinkExpires PROVE \E a \in AccessRecord, ev \in Seq(Event) : Change(a, ev)
  <2>1. [access EXCEPT !.link = "none"] \in AccessRecord /\ [access EXCEPT !.link = "none", !.expired = TRUE] \in AccessRecord
    BY DEF Types, ServerTypes, AccessRecord
  <2>2. <<[t |-> "link"]>> \in Seq(Event)
    BY DEF Event
  <2> QED
    BY <1>1, <1>3, <2>1, <2>2 DEF RevokeLink, LinkExpires
<1>4. ASSUME NEW on \in BOOLEAN, SetPublic(on) \/ PlanLock(on) \/ Trash(on)
      PROVE  \E a \in AccessRecord, ev \in Seq(Event) : Change(a, ev)
  <2>1. /\ [access EXCEPT !.isPublic = on] \in AccessRecord
        /\ [access EXCEPT !.locked = on] \in AccessRecord
        /\ [access EXCEPT !.deleted = on] \in AccessRecord
    BY DEF Types, ServerTypes, AccessRecord
  <2>2. /\ <<[t |-> "public_off"]>> \in Seq(Event) /\ <<[t |-> "plan"]>> \in Seq(Event)
        /\ <<[t |-> "board_deleted"]>> \in Seq(Event)
    BY DEF Event
  <2> QED
    BY <1>1, <1>4, <2>1, <2>2 DEF SetPublic, PlanLock, Trash
<1>5. \E a \in AccessRecord, ev \in Seq(Event) : Change(a, ev)
  BY <1>2, <1>3, <1>4
<1>6. ASSUME NEW a \in AccessRecord, NEW ev \in Seq(Event), Change(a, ev) PROVE Types'
  <2>1. ASSUME NEW k \in Conns PROVE [conn[k] EXCEPT !.raced = TRUE] \in ConnRecord(stored)
    <3>1. PICK one : one = conn[k]
      OBVIOUS
    <3>2. one \in ConnRecord(stored)
      BY <3>1 DEF Types, ServerTypes
    <3>3. [one EXCEPT !.raced = TRUE] \in ConnRecord(stored)
      BY <3>2 DEF ConnRecord
    <3> QED
      BY <3>1, <3>3
  <2>2. conn' \in [Conns -> ConnRecord(stored)]
    BY <1>6, <2>1 DEF Change, Types, ServerTypes
  <2>3. events \o ev \in Seq(Event)
    BY ConcatProperties DEF Types, ServerTypes
  <2> QED
    BY <1>6, <2>2, <2>3 DEF Change, Types, ClientTypes, ServerTypes, clientVars
<1> QED
  BY <1>5, <1>6

SessionTypesInv == TransportInv /\ Types

LEMMA SessionTypesHold == Spec => []SessionTypesInv
<1>1. Init => SessionTypesInv
  <2> SUFFICES ASSUME Init PROVE SessionTypesInv
    OBVIOUS
  <2>1. TransportInv
    BY TransportInit
  <2>2. /\ access \in AccessRecord /\ stored \subseteq Edits /\ doc \in [Clients -> SUBSET Edits]
    BY StartsAssumption DEF Init, StartsAssumption
  <2>3. /\ Free \in ConnRecord(stored) /\ <<>> \in Seq(Event)
    BY SessionAssumption, EmptySeq DEF SessionAssumption, Free, ConnRecord, Claims, Roles
  <2>4. Connect(Fresh).socket = NoSocket
    BY DEF Connect, Fresh, Retrying
  <2> QED
    BY <2>1, <2>2, <2>3, <2>4 DEF Init, SessionTypesInv, Types, ClientTypes, ServerTypes
<1>2. SessionTypesInv /\ [Next]_vars => SessionTypesInv'
  <2> SUFFICES ASSUME SessionTypesInv, [Next]_vars PROVE SessionTypesInv'
    OBVIOUS
  <2>1. TransportInv'
    BY TransportStep DEF SessionTypesInv
  <2>2. CASE UNCHANGED vars
    BY <2>2 DEF vars, clientVars, SessionTypesInv, Types, ClientTypes, ServerTypes, TransportInv
  <2>3. CASE \E c \in Clients : ClientStep(c) \/ \E e \in Edits : Edit(c, e)
    BY <2>1, <2>3, ClientsKeepTypes DEF ClientStep, SessionTypesInv
  <2>4. CASE ServerStep
    BY <2>1, <2>4, ServerKeepsTypes DEF ServerStep, SessionTypesInv
  <2>5. CASE Disturbance
    BY <2>1, <2>5, ClientsKeepTypes, ServerKeepsTypes, AccessChanges DEF Disturbance, SessionTypesInv
  <2> QED
    BY <2>2, <2>3, <2>4, <2>5 DEF Next
<1> QED
  BY <1>1, <1>2, PTL DEF Spec

\* "Saved" is never a lie about insertions: whatever connections, servers and acknowledgements did
\* since, what a tab shows as saved is in the database (provider.ts onPersisted, connection.ts).
THEOREM SavedIsStored == Spec => []SavedInsertionsAreStored
<1>1. SessionTypesInv => SavedInsertionsAreStored
  BY DEF SessionTypesInv, Types, ClientTypes, SavedInsertionsAreStored, Saved
<1> QED
  BY <1>1, SessionTypesHold, PTL

-----------------------------------------------------------------------------
(* Access: what a connection was given, and where from. *)

\* The role that a source gives a tab's user, and what is left of it.
SourceRole(c, via) ==
    CASE via = "member" -> access.member[UserOf[c]]
      [] via = "link"   -> access.link
      [] via = "public" -> IF access.isPublic THEN "viewer" ELSE "none"
      [] OTHER          -> "none"
Gives(c, via) == IF access.deleted THEN "none" ELSE Limited(SourceRole(c, via))

LEMMA Ranks ==
    /\ Rank["none"] = 0 /\ Rank["viewer"] = 1 /\ Rank["editor"] = 2 /\ Rank["owner"] = 3
    /\ \A r \in Roles : Rank[r] \in 0..3 /\ (r # "none" <=> Rank[r] >= 1)
<1>1. Rank["none"] = 0 /\ Rank["viewer"] = 1 /\ Rank["editor"] = 2 /\ Rank["owner"] = 3
  BY DEF Rank
<1> QED
  BY <1>1 DEF Roles

\* Plan limits keep the order of roles.
LEMMA LimitedIsMonotone ==
    ASSUME NEW a \in Roles, NEW b \in Roles, Rank[a] <= Rank[b]
    PROVE  Rank[Limited(a)] <= Rank[Limited(b)] /\ Limited(a) \in Roles
  BY Ranks DEF Limited, Roles

\* What is resolved is the highest of the sources, and the source that gives it.
LEMMA ResolveIsHighest ==
    ASSUME ServerTypes, NEW c \in Clients, NEW link \in BOOLEAN
    PROVE  LET found == Resolve(Row(UserOf[c], link))
           IN  /\ found \in Claims
               /\ found.role = SourceRole(c, found.via)
               /\ found.via = "link" => link
               /\ \A via \in {"member", "public"} : Rank[SourceRole(c, via)] <= Rank[found.role]
               /\ link => Rank[SourceRole(c, "link")] <= Rank[found.role]
<1> DEFINE m == access.member[UserOf[c]]
           l == IF link THEN access.link ELSE "none"
           p == IF access.isPublic THEN "viewer" ELSE "none"
           nobody == [role |-> "none", via |-> "none"]
           f1 == Offer(nobody, m, "member")
           f2 == Offer(f1, "none", "org")
           f3 == Offer(f2, l, "link")
           f4 == Offer(f3, p, "public")
<1>1. m \in Roles /\ l \in Roles /\ p \in Roles /\ access.link \in Roles
  BY DEF ServerTypes, AccessRecord, Users, Roles
<1>2. Resolve(Row(UserOf[c], link)) = f4
  BY DEF Resolve, Row, OrgOffer
<1>3. ASSUME NEW f \in Claims, NEW r \in Roles, NEW v \in {"member", "org", "link", "public"}
      PROVE  /\ Offer(f, r, v) \in Claims
             /\ Rank[f.role] <= Rank[Offer(f, r, v).role] /\ Rank[r] <= Rank[Offer(f, r, v).role]
             /\ \/ Offer(f, r, v) = f
                \/ Offer(f, r, v) = [role |-> r, via |-> v] /\ r # "none"
  BY Ranks DEF Offer, Claims
<1>4. nobody \in Claims /\ "none" \in Roles
  BY DEF Claims, Roles
<1> HIDE DEF m, l, p
<1>5. f1 \in Claims /\ Rank[m] <= Rank[f1.role] /\ (f1 = nobody \/ f1 = [role |-> m, via |-> "member"])
  BY <1>1, <1>3, <1>4
<1>6. f2 \in Claims /\ Rank[f1.role] <= Rank[f2.role] /\ f2 = f1
  <2> HIDE DEF f1
  <2> QED
    BY <1>3, <1>4, <1>5
<1>7. /\ f3 \in Claims /\ Rank[f2.role] <= Rank[f3.role] /\ Rank[l] <= Rank[f3.role]
      /\ f3 = f2 \/ (f3 = [role |-> l, via |-> "link"] /\ l # "none")
  <2> HIDE DEF f2
  <2> QED
    BY <1>1, <1>3, <1>6
<1>8. /\ f4 \in Claims /\ Rank[f3.role] <= Rank[f4.role] /\ Rank[p] <= Rank[f4.role]
      /\ f4 = f3 \/ (f4 = [role |-> p, via |-> "public"] /\ p # "none")
  <2> HIDE DEF f3
  <2> QED
    BY <1>1, <1>3, <1>7
<1>9. \A f \in Claims : Rank[f.role] \in Nat
  BY Ranks DEF Claims
<1> HIDE DEF f1, f2, f3, f4
<1>10. Rank[m] <= Rank[f4.role] /\ Rank[l] <= Rank[f4.role] /\ Rank[p] <= Rank[f4.role]
  <2>1. Rank[m] \in Nat /\ Rank[l] \in Nat /\ Rank[p] \in Nat
    BY <1>1, Ranks
  <2>2. Rank[f1.role] \in Nat /\ Rank[f2.role] \in Nat /\ Rank[f3.role] \in Nat /\ Rank[f4.role] \in Nat
    BY <1>5, <1>6, <1>7, <1>8, <1>9
  <2> QED
    BY <2>1, <2>2, <1>5, <1>6, <1>7, <1>8
<1>11. f4 \in {nobody, [role |-> m, via |-> "member"], [role |-> l, via |-> "link"], [role |-> p, via |-> "public"]}
       /\ (f4.via = "link" => f4.role = l /\ l # "none")
  BY <1>5, <1>6, <1>7, <1>8
<1> QED
  BY <1>2, <1>8, <1>10, <1>11 DEF SourceRole, m, l, p

\* A role that is not above what its source gives now.
Within(role, c, via) == Rank[role] <= Rank[Gives(c, via)]
Announced(k) == \E i \in DOMAIN events : Affects(events[i], conn[k])
Excused(k) == conn[k].raced \/ (access.expired /\ conn[k].claims.via = "link")

\* Until it is registered, and unless access changed meanwhile, a connection has no more than its
\* source gives; once it is open it may have more, but then an announcement is on its way.
ConnWithin(k) ==
    /\ conn[k].phase # "gone" /\ conn[k].claims.via = "link" => conn[k].tab \in HasLink
    /\ conn[k].phase # "gone" => srv.mode # "down"
    /\ conn[k].phase = "upgrading" /\ ~conn[k].raced => Within(conn[k].claims.role, conn[k].tab, conn[k].claims.via)
    /\ conn[k].phase = "granted" /\ ~conn[k].raced => Within(conn[k].role, conn[k].tab, conn[k].claims.via)
    /\ conn[k].phase = "open" /\ ~conn[k].closing /\ ~Excused(k) /\ srv.mode = "up"
         => Within(conn[k].role, conn[k].tab, conn[k].claims.via) \/ Announced(k)
AccessInv == \A k \in Conns : ConnWithin(k)

\* No source gives more than all of them together.
LEMMA GivesIsBounded ==
    ASSUME ServerTypes, NEW c \in Clients, NEW via \in {"none", "member", "org", "link", "public"},
           via = "link" => c \in HasLink
    PROVE  /\ Rank[Gives(c, via)] <= Rank[CurrentRole(c)]
           /\ Rank[Gives(c, via)] \in Nat /\ Rank[CurrentRole(c)] \in Nat /\ SourceRole(c, via) \in Roles
<1> DEFINE found == Resolve(Row(UserOf[c], c \in HasLink))
<1>1. found.role \in Roles /\ Rank[SourceRole(c, via)] <= Rank[found.role] /\ SourceRole(c, via) \in Roles
  <2>0. SourceRole(c, via) \in Roles
    BY DEF SourceRole, ServerTypes, AccessRecord, Users, Roles
  <2>1. CASE c \in HasLink
    <3>1. Row(UserOf[c], c \in HasLink) = Row(UserOf[c], TRUE)
      BY <2>1 DEF Row
    <3>2. /\ Resolve(Row(UserOf[c], TRUE)) \in Claims
          /\ \A v \in {"member", "public", "link"} : Rank[SourceRole(c, v)] <= Rank[Resolve(Row(UserOf[c], TRUE)).role]
      BY ResolveIsHighest
    <3>3. found = Resolve(Row(UserOf[c], TRUE))
      BY <3>1
    <3>4. found \in Claims /\ \A v \in {"member", "public", "link"} : Rank[SourceRole(c, v)] <= Rank[found.role]
      BY <3>2, <3>3
    <3> HIDE DEF found
    <3>5. via \notin {"member", "public", "link"} => SourceRole(c, via) = "none"
      BY DEF SourceRole
    <3> QED
      BY <2>0, <3>4, <3>5, Ranks DEF Claims
  <2>2. CASE c \notin HasLink
    <3>1. Row(UserOf[c], c \in HasLink) = Row(UserOf[c], FALSE)
      BY <2>2 DEF Row
    <3>2. /\ Resolve(Row(UserOf[c], FALSE)) \in Claims
          /\ \A v \in {"member", "public"} : Rank[SourceRole(c, v)] <= Rank[Resolve(Row(UserOf[c], FALSE)).role]
      BY ResolveIsHighest
    <3>3. found = Resolve(Row(UserOf[c], FALSE))
      BY <3>1
    <3>4. found \in Claims /\ \A v \in {"member", "public"} : Rank[SourceRole(c, v)] <= Rank[found.role]
      BY <3>2, <3>3
    <3> HIDE DEF found
    <3>5. via \notin {"member", "public", "link"} => SourceRole(c, via) = "none"
      BY DEF SourceRole
    <3> QED
      BY <2>0, <2>2, <3>4, <3>5, Ranks DEF Claims
  <2> QED
    BY <2>1, <2>2
<1> HIDE DEF found
<1>2. /\ Rank[Limited(SourceRole(c, via))] <= Rank[Limited(found.role)]
      /\ Limited(SourceRole(c, via)) \in Roles /\ Limited(found.role) \in Roles
  <2>1. found.role \in Roles
    BY <1>1
  <2>2. Limited(found.role) \in Roles
    BY <2>1, Ranks, LimitedIsMonotone
  <2> QED
    BY <1>1, <2>2, LimitedIsMonotone
<1> QED
  BY <1>1, <1>2, Ranks DEF Gives, CurrentRole, found, Roles

\* A ticket and an upgrade give what the sources give at that moment.
LEMMA TicketIsWithin ==
    ASSUME ServerTypes, NEW c \in Clients, ~access.deleted
    PROVE  /\ Ticket(c) \in Claims /\ Within(Ticket(c).role, c, Ticket(c).via)
           /\ Ticket(c).via = "link" => c \in HasLink
<1> DEFINE found == Resolve(Row(UserOf[c], c \in HasLink))
<1>1. found \in Claims /\ found.role = SourceRole(c, found.via) /\ (found.via = "link" => c \in HasLink)
  <2>1. CASE c \in HasLink
    <3>1. Row(UserOf[c], c \in HasLink) = Row(UserOf[c], TRUE)
      BY <2>1 DEF Row
    <3>2. LET f == Resolve(Row(UserOf[c], TRUE)) IN f \in Claims /\ f.role = SourceRole(c, f.via)
      BY ResolveIsHighest
    <3> QED
      BY <2>1, <3>1, <3>2
  <2>2. CASE c \notin HasLink
    <3>1. Row(UserOf[c], c \in HasLink) = Row(UserOf[c], FALSE)
      BY <2>2 DEF Row
    <3>2. LET f == Resolve(Row(UserOf[c], FALSE))
          IN  f \in Claims /\ f.role = SourceRole(c, f.via) /\ f.via # "link"
      BY ResolveIsHighest
    <3> QED
      BY <2>2, <3>1, <3>2
  <2> QED
    BY <2>1, <2>2
<1> HIDE DEF found
<1>2. Ticket(c) = [role |-> Limited(found.role), via |-> found.via]
  BY DEF Ticket, found
<1>3. Rank[Ticket(c).role] = Rank[Gives(c, Ticket(c).via)]
  BY <1>1, <1>2 DEF Gives
<1>4. Ticket(c) \in Claims
  BY <1>1, <1>2 DEF Claims, Limited, Roles
<1>5. Rank[Ticket(c).role] \in Nat
  BY <1>4, Ranks DEF Claims
<1> QED
  BY <1>1, <1>2, <1>3, <1>4, <1>5 DEF Within

LEMMA UpgradeIsWithin ==
    ASSUME ServerTypes, NEW k \in Conns, Within(conn[k].claims.role, conn[k].tab, conn[k].claims.via),
           conn[k].claims.via = "link" => conn[k].tab \in HasLink, Authorized(k) # "none"
    PROVE  Within(Authorized(k), conn[k].tab, conn[k].claims.via)
<1> DEFINE now == Resolve(Row(UserOf[conn[k].tab], conn[k].claims.via = "link"))
           c == conn[k].claims
<1>1. c \in Claims /\ conn[k].tab \in Clients /\ c.via \in {"none", "member", "org", "link", "public"} /\ c.role \in Roles
  BY DEF ServerTypes, ConnRecord, Claims
<1>2. now \in Claims
  <2>1. CASE c.via = "link"
    BY <1>1, <2>1, ResolveIsHighest DEF Row
  <2>2. CASE c.via # "link"
    BY <1>1, <2>2, ResolveIsHighest DEF Row
  <2> QED
    BY <2>1, <2>2
<1> HIDE DEF now
<1>3. ~access.deleted /\ Authorized(k) = Limited(LowerRole(c.role, now.role))
  BY DEF Authorized, now
<1>4. LowerRole(c.role, now.role) \in Roles /\ Rank[LowerRole(c.role, now.role)] <= Rank[c.role]
  BY <1>1, <1>2, Ranks DEF LowerRole, Claims
<1>5. Rank[Authorized(k)] <= Rank[Limited(c.role)]
  BY <1>1, <1>3, <1>4, LimitedIsMonotone
<1>6. Rank[Limited(c.role)] <= Rank[Gives(conn[k].tab, c.via)]
  <2>1. SourceRole(conn[k].tab, c.via) \in Roles
    BY <1>1, GivesIsBounded
  <2>2. Rank[c.role] <= Rank[Limited(SourceRole(conn[k].tab, c.via))]
    BY <1>3 DEF Within, Gives
  <2>3. Gives(conn[k].tab, c.via) = Limited(SourceRole(conn[k].tab, c.via))
    BY <1>3 DEF Gives
  <2> QED
    BY <1>1, <2>1, <2>2, <2>3, Ranks DEF Limited, Roles
<1>7. Limited(c.role) \in Roles /\ Authorized(k) \in Roles /\ Gives(conn[k].tab, c.via) \in Roles
  BY <1>1, <1>3, <1>4, GivesIsBounded DEF Limited, Roles, Gives
<1> QED
  BY <1>5, <1>6, <1>7, Ranks DEF Within

\* Two states of a connection that differ only in what is on the wire, and in being closed.
SameAccess(k, j) ==
    /\ j.tab = k.tab /\ j.claims = k.claims /\ j.role = k.role
    /\ j.phase = k.phase /\ j.raced = k.raced /\ (k.closing => j.closing)

LEMMA OperationsKeepAccess ==
    ASSUME NEW db, NEW cs \in [Conns -> ConnRecord(db)], NEW k \in Conns
    PROVE  /\ \A code : SameAccess(cs[k], Close(cs[k], code))
           /\ \A msgs : SameAccess(cs[k], Send(cs, k, msgs))
           /\ \A except, msg : SameAccess(cs[k], SendAll(cs, except, msg)[k])
           /\ \A content : SameAccess(cs[k], BeginSync(cs, k, content))
           /\ \A up : SameAccess(cs[k], [cs[k] EXCEPT !.up = up])
           /\ \A down : SameAccess(cs[k], [cs[k] EXCEPT !.down = down])
           /\ SameAccess(cs[k], [cs[k] EXCEPT !.frozen = TRUE])
<1> USE DEF SameAccess
<1>1. ASSUME NEW code PROVE SameAccess(cs[k], Close(cs[k], code))
  BY DEF Close, ConnRecord
<1>2. ASSUME NEW fs \in [Conns -> ConnRecord(db)], NEW msgs PROVE SameAccess(fs[k], Send(fs, k, msgs))
  BY DEF Send, ConnRecord
<1>3. ASSUME NEW except, NEW msg PROVE SameAccess(cs[k], SendAll(cs, except, msg)[k])
  BY <1>2 DEF SendAll
<1>4. ASSUME NEW content PROVE SameAccess(cs[k], BeginSync(cs, k, content))
  <2> DEFINE fs == [cs EXCEPT ![k].begun = TRUE]
  <2>1. fs \in [Conns -> ConnRecord(db)]
    <3>1. [cs[k] EXCEPT !.begun = TRUE] \in ConnRecord(db)
      BY DEF ConnRecord
    <3> QED
      BY <3>1
  <2>2. SameAccess(cs[k], fs[k])
    BY DEF ConnRecord
  <2> HIDE DEF fs
  <2>3. \A msgs : SameAccess(fs[k], Send(fs, k, msgs))
    BY <1>2, <2>1
  <2> QED
    BY <2>2, <2>3 DEF BeginSync, fs
<1>5. ASSUME NEW x
      PROVE  /\ SameAccess(cs[k], [cs[k] EXCEPT !.up = x]) /\ SameAccess(cs[k], [cs[k] EXCEPT !.down = x])
             /\ SameAccess(cs[k], [cs[k] EXCEPT !.frozen = x])
  BY DEF ConnRecord
<1> QED
  BY <1>1, <1>2, <1>3, <1>4, <1>5

LEMMA AccessKept ==
    ASSUME Types, AccessInv, access' = access, events' = events,
           srv'.mode \in {srv.mode, "flushing", "closing"},
           \A k \in Conns : conn'[k].phase = "gone" \/ SameAccess(conn[k], conn'[k])
    PROVE  AccessInv'
<1> SUFFICES ASSUME NEW k \in Conns PROVE ConnWithin(k)'
  BY DEF AccessInv
<1>1. CASE conn'[k].phase = "gone"
  BY <1>1 DEF ConnWithin
<1>2. CASE SameAccess(conn[k], conn'[k])
  <2>1. ConnWithin(k)
    BY DEF AccessInv
  <2>2. \A role, c, via : Within(role, c, via)' <=> Within(role, c, via)
    BY DEF Within, Gives, Limited, SourceRole
  <2>3. Announced(k) => Announced(k)'
    <3>1. \A ev : Affects(ev, conn[k]) => Affects(ev, conn'[k])
      BY <1>2 DEF Affects, SameAccess
    <3> QED
      BY <3>1 DEF Announced
  <2>4. Excused(k) => Excused(k)'
    BY <1>2 DEF Excused, SameAccess
  <2> QED
    BY <1>2, <2>1, <2>2, <2>3, <2>4 DEF ConnWithin, SameAccess
<1> QED
  BY <1>1, <1>2

LEMMA ClientsKeepAccess ==
    ASSUME TransportInv, Types, AccessInv, NEW c \in Clients,
           \/ FlushFrame(c) \/ Receive(c) \/ ReconnectTimer(c) \/ NetworkChanges(c) \/ LeavePage(c)
           \/ \E answer \in {"ok", "forbidden", "not_found", "error"} : TicketArrives(c, answer)
           \/ \E e \in Edits : Edit(c, e)
    PROVE  AccessInv'
<1>1. conn \in [Conns -> ConnRecord(stored)] /\ tab[c].socket \in Conns \cup {NoSocket}
  BY DEF Types, ServerTypes
<1>2. \A k \in Conns : SameAccess(conn[k], conn[k])
  BY DEF SameAccess
<1>3. ASSUME \/ ReconnectTimer(c) \/ NetworkChanges(c) \/ LeavePage(c) \/ \E e \in Edits : Edit(c, e)
      PROVE  AccessInv'
  <2>1. UNCHANGED <<conn, access, events, srv>>
    BY <1>3 DEF ReconnectTimer, NetworkChanges, LeavePage, Edit
  <2> QED
    BY <1>2, <2>1, AccessKept
<1>4. ASSUME FlushFrame(c) PROVE AccessInv'
  <2>1. ASSUME NEW k \in Conns PROVE SameAccess(conn[k], conn'[k])
    <3> DEFINE m == [t |-> "update", ops |-> pending[c].edits]
    <3>1. conn' = conn \/ conn' = [conn EXCEPT ![tab[c].socket].up = Append(@, m)]
      BY <1>4 DEF FlushFrame, SendUp
    <3> HIDE DEF m
    <3>2. conn'[k] = conn[k] \/ conn'[k] = [conn[k] EXCEPT !.up = Append(conn[k].up, m)]
      BY <1>1, <3>1
    <3> QED
      BY <1>1, <1>2, <3>2 DEF SameAccess, ConnRecord
  <2> QED
    BY <1>4, <2>1, AccessKept DEF FlushFrame
<1>5. ASSUME Receive(c) PROVE AccessInv'
  <2> DEFINE j == tab[c].socket
             rest == [conn EXCEPT ![j].down = Tail(@)]
  <2>1. j \in Conns
    BY <1>1, <1>5 DEF Receive
  <2>2. rest[j] = [conn[j] EXCEPT !.down = Tail(@)]
    BY <1>1, <2>1
  <2>3. \A k \in Conns \ {j} : rest[k] = conn[k]
    BY <1>1
  <2>4. conn' = rest \/ \E m : conn' = [rest EXCEPT ![j].up = Append(@, m)]
    <3> DEFINE msg == Head(conn[j].down)
               hello == [t |-> "step1", ops |-> Vector(doc[c])]
               lacked == [t |-> "step2", ops |-> Missing(doc[c], msg.ops)]
    <3>1. conn' \in {rest, [rest EXCEPT ![j].up = Append(@, hello)], [rest EXCEPT ![j].up = Append(@, lacked)]}
      BY <1>5 DEF Receive
    <3> HIDE DEF rest, j, hello, lacked
    <3> QED
      BY <3>1
  <2>5. ASSUME NEW k \in Conns PROVE SameAccess(conn[k], conn'[k])
    <3>1. CASE k # j
      <4>1. conn'[k] = rest[k]
        BY <1>1, <2>4, <3>1
      <4> QED
        BY <1>2, <2>3, <3>1, <4>1
    <3>2. CASE k = j
      <4>1. \/ conn'[k] = [conn[k] EXCEPT !.down = Tail(@)]
            \/ \E up : conn'[k] = [[conn[k] EXCEPT !.down = Tail(@)] EXCEPT !.up = up]
        BY <1>1, <2>1, <2>2, <2>4, <3>2
      <4> QED
        BY <1>1, <4>1 DEF ConnRecord, SameAccess
    <3> QED
      BY <3>1, <3>2
  <2> QED
    BY <1>5, <2>5, AccessKept DEF Receive
<1>6. ASSUME NEW answer \in {"ok", "forbidden", "not_found", "error"}, TicketArrives(c, answer) PROVE AccessInv'
  <2>1. UNCHANGED <<access, events, srv>>
    BY <1>6 DEF TicketArrives
  <2>2. CASE UNCHANGED conn
    BY <1>2, <2>1, <2>2, AccessKept
  <2>3. CASE answer = "ok" /\ ~Stopped(tab[c])
    <3> DEFINE idle == {k \in Conns : conn[k].phase = "gone" /\ ~Attached(k)}
               free == CHOOSE k \in idle : \A i \in idle : k <= i
               new == [Free EXCEPT !.tab = c, !.claims = Ticket(c),
                                   !.phase = IF srv.mode = "up" THEN "upgrading" ELSE "gone",
                                   !.down = IF srv.mode = "up" THEN <<>> ELSE Abnormal]
    <3>1. idle # {} /\ conn' = [conn EXCEPT ![free] = new] /\ ~access.deleted
      BY <1>6, <2>3 DEF TicketArrives
    <3>2. free \in Conns
      BY <3>1, SessionAssumption, FreeSlot
    <3> HIDE DEF free
    <3>9. PICK j \in Conns : conn' = [conn EXCEPT ![j] = new]
      BY <3>1, <3>2
    <3>3. /\ new.tab = c /\ new.claims = Ticket(c) /\ ~new.raced
          /\ new.phase = IF srv.mode = "up" THEN "upgrading" ELSE "gone"
      BY DEF Free
    <3>4. /\ Within(Ticket(c).role, c, Ticket(c).via) /\ (Ticket(c).via = "link" => c \in HasLink)
      BY <3>1, TicketIsWithin DEF Types
    <3> HIDE DEF new
    <3>5. ConnWithin(j)'
      <4>1. conn'[j] = new
        BY <1>1, <3>9
      <4>2. Within(Ticket(c).role, c, Ticket(c).via)'
        BY <2>1, <3>4 DEF Within, Gives, Limited, SourceRole, Ticket, Row
      <4>3. Ticket(c)' = Ticket(c)
        BY <2>1 DEF Ticket, Row, Limited
      <4> QED
        BY <2>1, <3>3, <3>4, <4>1, <4>2, <4>3 DEF ConnWithin
    <3>6. ASSUME NEW k \in Conns, k # j PROVE ConnWithin(k)'
      <4>1. conn'[k] = conn[k]
        BY <1>1, <3>6, <3>9
      <4>2. ConnWithin(k)
        BY DEF AccessInv
      <4> QED
        BY <2>1, <4>1, <4>2 DEF ConnWithin, Within, Gives, Limited, SourceRole, Announced, Affects, Excused
    <3> QED
      BY <3>5, <3>6 DEF AccessInv
  <2> QED
    BY <1>6, <2>2, <2>3 DEF TicketArrives
<1> QED
  BY <1>3, <1>4, <1>5, <1>6

LEMMA ServerKeepsAccess ==
    ASSUME Types, Types', AccessInv,
           \/ \E k \in Conns : \/ Authorize(k, TRUE) \/ Authorize(k, FALSE) \/ Register(k)
                               \/ HandleMessage(k) \/ ConnectionClosed(k) \/ Refuse(k) \/ Cut(k)
           \/ \E ok \in BOOLEAN : RoomReady(ok) \/ FlushedAll(ok)
           \/ Persist \/ Evict \/ Stop \/ Start \/ DeliverEvent \/ Shutdown \/ Crash
    PROVE  AccessInv'
<1>1. conn \in [Conns -> ConnRecord(stored)] /\ srv.mode \in {"up", "flushing", "closing", "down"}
  BY DEF Types, ServerTypes
<1>2. \A k \in Conns : SameAccess(conn[k], conn[k])
  BY DEF SameAccess
<1>3. \A k \in Conns : \A last : Over(k, last).phase = "gone"
  BY DEF Over, Free
<1>12. ASSUME NEW k \in Conns
       PROVE  /\ \A code : SameAccess(conn[k], Close(conn[k], code))
              /\ \A except, msg : SameAccess(conn[k], SendAll(conn, except, msg)[k])
              /\ \A content : SameAccess(conn[k], BeginSync(conn, k, content))
              /\ SameAccess(conn[k], [conn[k] EXCEPT !.frozen = TRUE])
  BY <1>1, OperationsKeepAccess
\* A connection whose phase moves on, or that is opened, while the others stay as they are.
<1>4. ASSUME NEW k \in Conns, NEW new, conn' = [conn EXCEPT ![k] = new], UNCHANGED <<access, events>>,
             srv'.mode = srv.mode, ConnWithin(k)'
      PROVE  AccessInv'
  <2>1. ASSUME NEW j \in Conns, j # k PROVE ConnWithin(j)'
    <3>1. conn'[j] = conn[j] /\ ConnWithin(j)
      BY <1>1, <1>4, <2>1 DEF AccessInv
    <3> QED
      BY <1>4, <3>1 DEF ConnWithin, Within, Gives, Limited, SourceRole, Announced, Affects, Excused
  <2> QED
    BY <1>4, <2>1 DEF AccessInv
<1>5. ASSUME NEW k \in Conns, Authorize(k, TRUE) \/ Authorize(k, FALSE) PROVE AccessInv'
  <2> DEFINE new == [conn[k] EXCEPT !.phase = "granted", !.role = Authorized(k)]
  <2>1. UNCHANGED <<access, events, srv>>
    BY <1>5 DEF Authorize
  <2>2. CASE conn' = [conn EXCEPT ![k] = Over(k, <<>>)]
    <3>1. \A j \in Conns : conn'[j].phase = "gone" \/ SameAccess(conn[j], conn'[j])
      BY <1>1, <1>2, <1>3, <2>2
    <3> QED
      BY <2>1, <3>1, AccessKept
  <2>3. CASE conn' = [conn EXCEPT ![k] = new] /\ Authorized(k) # "none"
    <3>1. /\ conn'[k].tab = conn[k].tab /\ conn'[k].claims = conn[k].claims /\ conn'[k].role = Authorized(k)
          /\ conn'[k].phase = "granted" /\ conn'[k].raced = conn[k].raced
      BY <1>1, <2>3 DEF ConnRecord
    <3>2. ConnWithin(k) /\ conn[k].phase = "upgrading"
      BY <1>5 DEF AccessInv, Authorize
    <3>3. ~conn[k].raced => Within(Authorized(k), conn[k].tab, conn[k].claims.via)
      BY <2>3, <3>2, UpgradeIsWithin DEF Types, ConnWithin
    <3>4. (~conn[k].raced => Within(conn[k].role, conn[k].tab, conn[k].claims.via))'
      BY <2>1, <3>1, <3>3 DEF Within, Gives, Limited, SourceRole
    <3>5. ConnWithin(k)'
      BY <2>1, <3>1, <3>2, <3>4 DEF ConnWithin
    <3> QED
      BY <1>4, <2>1, <2>3, <3>5
  <2> QED
    BY <1>5, <2>2, <2>3 DEF Authorize
<1>6. ASSUME NEW k \in Conns, Register(k) PROVE AccessInv'
  <2> DEFINE opened == [conn EXCEPT ![k].phase = "open", ![k].down = <<[t |-> "open"]>>]
             fresh == [conn[k] EXCEPT !.phase = "open", !.down = <<[t |-> "open"]>>]
  <2>1. UNCHANGED <<access, events>> /\ srv'.mode = srv.mode /\ conn[k].phase = "granted"
    BY <1>1, <1>6 DEF Register, Types, ServerTypes
  <2>2. CASE conn' = [conn EXCEPT ![k] = Over(k, <<>>)]
    <3>1. \A j \in Conns : conn'[j].phase = "gone" \/ SameAccess(conn[j], conn'[j])
      BY <1>1, <1>2, <1>3, <2>2
    <3> QED
      BY <2>1, <3>1, AccessKept
  <2>3. CASE \/ conn' = opened
             \/ conn' = [opened EXCEPT ![k] = BeginSync(opened, k, srv.doc)]
    <3>1. fresh \in ConnRecord(stored) /\ opened = [conn EXCEPT ![k] = fresh]
      <4>1. <<[t |-> "open"]>> \in Seq(DownMessage(stored))
        <5>1. [t |-> "open"] \in DownMessage(stored)
          BY DEF DownMessage
        <5> QED
          BY <5>1
      <4> QED
        BY <1>1, <4>1 DEF ConnRecord
    <3> HIDE DEF fresh, opened
    <3>2. opened \in [Conns -> ConnRecord(stored)] /\ opened[k] = fresh
      BY <1>1, <3>1
    <3>3. SameAccess(fresh, BeginSync(opened, k, srv.doc)) /\ SameAccess(fresh, fresh)
      <4>1. \A content : SameAccess(opened[k], BeginSync(opened, k, content))
        BY <3>2, OperationsKeepAccess
      <4> QED
        BY <3>2, <4>1 DEF SameAccess
    <3>4. \E new : conn' = [conn EXCEPT ![k] = new] /\ SameAccess(fresh, new)
      <4>1. [opened EXCEPT ![k] = BeginSync(opened, k, srv.doc)] = [conn EXCEPT ![k] = BeginSync(opened, k, srv.doc)]
        BY <1>1, <3>1
      <4> QED
        BY <2>3, <3>1, <3>3, <4>1
    <3>5. PICK new : conn' = [conn EXCEPT ![k] = new] /\ SameAccess(fresh, new)
      BY <3>4
    <3>6. /\ conn'[k].tab = conn[k].tab /\ conn'[k].claims = conn[k].claims /\ conn'[k].role = conn[k].role
          /\ conn'[k].phase = "open" /\ conn'[k].raced = conn[k].raced
      BY <1>1, <3>5 DEF SameAccess, fresh, ConnRecord
    <3>7. ConnWithin(k)
      BY DEF AccessInv
    <3>8. (~conn[k].raced => Within(conn[k].role, conn[k].tab, conn[k].claims.via))'
      BY <2>1, <3>6, <3>7 DEF ConnWithin, Within, Gives, Limited, SourceRole
    <3>9. ConnWithin(k)'
      BY <2>1, <3>6, <3>7, <3>8 DEF ConnWithin, Excused
    <3> QED
      BY <1>4, <2>1, <3>5, <3>9
  <2> QED
    BY <1>6, <2>2, <2>3 DEF Register
<1>7. ASSUME NEW k \in Conns, HandleMessage(k) PROVE AccessInv'
  <2> DEFINE msg == Head(conn[k].up)
             rest == [conn EXCEPT ![k].up = Tail(@)]
  <2>1. UNCHANGED <<access, events>> /\ srv'.mode = srv.mode
    BY <1>1, <1>7 DEF HandleMessage, Types, ServerTypes
  <2>2. rest \in [Conns -> ConnRecord(stored)]
    <3>1. conn[k].up # <<>> /\ [t |-> "step1", ops |-> {}] \in UpMessage
      BY <1>7 DEF HandleMessage, UpMessage
    <3> QED
      BY <1>1, <3>1, UpOperations
  <2>3. \A j \in Conns : SameAccess(conn[j], rest[j])
    BY <1>1 DEF SameAccess, ConnRecord
  <2>4. \/ conn' = rest
        \/ \E m : conn' = SendAll(rest, k, m) \/ conn' = [rest EXCEPT ![k] = Send(rest, k, m)]
    BY <1>7 DEF HandleMessage
  <2> HIDE DEF rest
  <2>5. ASSUME NEW j \in Conns PROVE SameAccess(rest[j], conn'[j])
    <3>1. SameAccess(rest[j], rest[j])
      BY DEF SameAccess
    <3>2. \A m : SameAccess(rest[j], SendAll(rest, k, m)[j]) /\ SameAccess(rest[j], Send(rest, j, m))
      BY <2>2, OperationsKeepAccess
    <3> QED
      BY <2>2, <2>4, <3>1, <3>2
  <2>6. \A j \in Conns : SameAccess(conn[j], conn'[j])
    BY <2>3, <2>5 DEF SameAccess
  <2> QED
    BY <2>1, <2>6, AccessKept
<1>8. ASSUME NEW k \in Conns, ConnectionClosed(k) \/ Cut(k) \/ Refuse(k) PROVE AccessInv'
  <2>1. UNCHANGED <<access, events, srv>>
    BY <1>8 DEF ConnectionClosed, Cut, Refuse
  <2> DEFINE less == [conn[k] EXCEPT !.up = Tail(@)]
  <2>2. \/ \E last : conn' = [conn EXCEPT ![k] = Over(k, last)]
        \/ conn' = [conn EXCEPT ![k] = Close(less, "rateLimited")]
    BY <1>8 DEF ConnectionClosed, Cut, Refuse
  <2>3. SameAccess(conn[k], Close(less, "rateLimited"))
    BY <1>1 DEF SameAccess, Close, ConnRecord
  <2> HIDE DEF less
  <2>4. \A j \in Conns : conn'[j].phase = "gone" \/ SameAccess(conn[j], conn'[j])
    BY <1>1, <1>2, <1>3, <2>2, <2>3
  <2> QED
    BY <2>1, <2>4, AccessKept
<1>9. ASSUME \/ Persist \/ Evict \/ Shutdown \/ Stop \/ Crash \/ \E ok \in BOOLEAN : RoomReady(ok) \/ FlushedAll(ok)
      PROVE  AccessInv'
  <2>1. ASSUME NEW k \in Conns PROVE conn'[k].phase = "gone" \/ SameAccess(conn[k], conn'[k])
    <3>1. CASE Persist \/ Evict \/ Shutdown
      BY <1>1, <1>2, <1>12, <3>1 DEF Persist, Evict, Shutdown
    <3>2. CASE Stop \/ Crash
      BY <1>1, <1>2, <1>3, <3>2 DEF Stop, Crash
    <3>3. ASSUME NEW ok \in BOOLEAN, RoomReady(ok) PROVE SameAccess(conn[k], conn'[k])
      <4>1. \/ conn'[k] = conn[k] \/ conn'[k] = BeginSync(conn, k, stored) \/ \E code : conn'[k] = Close(conn[k], code)
        BY <3>3 DEF RoomReady
      <4> QED
        BY <1>2, <1>12, <4>1
    <3>4. ASSUME NEW ok \in BOOLEAN, FlushedAll(ok) PROVE SameAccess(conn[k], conn'[k])
      <4> DEFINE acked == IF ok /\ srv.room = "ready"
                          THEN SendAll(conn, 0, [t |-> "persisted", ops |-> Vector(srv.doc)]) ELSE conn
      <4>1. conn' = [j \in Conns |-> Close(acked[j], "serviceRestart")]
        BY <3>4 DEF FlushedAll
      <4>2. SameAccess(conn[k], acked[k])
        BY <1>2, <1>12
      <4> HIDE DEF acked
      <4>3. SameAccess(acked[k], Close(acked[k], "serviceRestart"))
        BY DEF Close, SameAccess
      <4> QED
        BY <4>1, <4>2, <4>3 DEF SameAccess
    <3> QED
      BY <1>9, <3>1, <3>2, <3>3, <3>4
  <2>2. CASE Stop \/ Crash
    <3>1. \A k \in Conns : conn'[k].phase = "gone"
      BY <1>1, <1>3, <2>2 DEF Stop, Crash
    <3> QED
      BY <3>1 DEF AccessInv, ConnWithin
  <2>3. CASE ~(Stop \/ Crash)
    <3>1. UNCHANGED <<access, events>> /\ srv'.mode \in {srv.mode, "flushing", "closing"}
      BY <1>9, <2>3 DEF Persist, Evict, Shutdown, RoomReady, FlushedAll, Types, ServerTypes
    <3> QED
      BY <2>1, <3>1, AccessKept
  <2> QED
    BY <2>2, <2>3
<1>10. ASSUME Start PROVE AccessInv'
  <2>1. \A k \in Conns : conn[k].phase = "gone" /\ conn'[k] = conn[k]
    BY <1>10 DEF Start, AccessInv, ConnWithin
  <2> QED
    BY <2>1 DEF AccessInv, ConnWithin
\* An announcement closes what it affects, or comes when the server no longer delivers any.
<1>11. ASSUME DeliverEvent PROVE AccessInv'
  <2> DEFINE ev == Head(events)
             code == IF ev.t = "board_deleted" THEN "boardDeleted" ELSE "accessChanged"
  <2>1. /\ UNCHANGED <<access, srv>> /\ events # <<>> /\ events \in Seq(Event) /\ events' = Tail(events)
        /\ \A k \in Conns : conn'[k] = IF srv.mode = "up" /\ Affects(ev, conn[k]) THEN Close(conn[k], code) ELSE conn[k]
    BY <1>1, <1>11 DEF DeliverEvent, Types, ServerTypes
  <2>2. ASSUME NEW k \in Conns PROVE ConnWithin(k)'
    <3>1. SameAccess(conn[k], conn'[k]) /\ ConnWithin(k)
      BY <1>2, <1>12, <2>1 DEF AccessInv
    <3>2. \A role, c, via : Within(role, c, via)' <=> Within(role, c, via)
      BY <2>1 DEF Within, Gives, Limited, SourceRole
    <3>3. CASE conn'[k].phase = "open" /\ ~conn'[k].closing /\ ~Excused(k)' /\ srv.mode = "up"
      <4>1. ~Affects(ev, conn[k])
        BY <1>1, <2>1, <3>3 DEF Close, ConnRecord
      <4>2. conn'[k] = conn[k] /\ ~Excused(k)
        BY <2>1, <3>3, <4>1 DEF Excused
      <4>3. Within(conn[k].role, conn[k].tab, conn[k].claims.via) \/ Announced(k)
        BY <3>1, <3>3, <4>2 DEF ConnWithin
      <4>4. Announced(k) => Announced(k)'
        <5>1. ASSUME NEW i \in DOMAIN events, Affects(events[i], conn[k]) PROVE Announced(k)'
          <6>1. Len(events) \in Nat /\ DOMAIN events = 1..Len(events) /\ i \in 1..Len(events) /\ i # 1
            BY <2>1, <4>1, <5>1, LenProperties
          <6>2. i - 1 \in DOMAIN Tail(events) /\ Tail(events)[i - 1] = events[i]
            BY <2>1, <6>1, HeadTailProperties
          <6> QED
            BY <2>1, <4>2, <5>1, <6>2 DEF Announced, Affects
        <5> QED
          BY <5>1 DEF Announced
      <4> QED
        BY <2>1, <3>1, <3>2, <3>3, <4>2, <4>3, <4>4 DEF ConnWithin, SameAccess
    <3>4. CASE ~(conn'[k].phase = "open" /\ ~conn'[k].closing /\ ~Excused(k)' /\ srv.mode = "up")
      BY <2>1, <3>1, <3>2, <3>4 DEF ConnWithin, SameAccess
    <3> QED
      BY <3>3, <3>4
  <2> QED
    BY <2>2 DEF AccessInv
<1> QED
  BY <1>5, <1>6, <1>7, <1>8, <1>9, <1>10, <1>11

Vias == {"none", "member", "org", "link", "public"}

\* A change of access is announced to what it takes something from; but the end of a link is not.
LEMMA ChangeKeepsAccess ==
    ASSUME Types, AccessInv, NEW a \in AccessRecord, NEW ev \in Seq(Event), Change(a, ev),
           access.expired => a.expired,
           \A k \in Conns : \A c \in Clients, via \in Vias : c = conn[k].tab /\ via = conn[k].claims.via
                => \/ Rank[Gives(c, via)] <= Rank[Gives(c, via)']
                   \/ a.expired /\ via = "link"
                   \/ \E i \in DOMAIN ev : Affects(ev[i], conn[k])
    PROVE  AccessInv'
<1> SUFFICES ASSUME NEW k \in Conns PROVE ConnWithin(k)'
  BY DEF AccessInv
<1>1. ConnWithin(k) /\ conn[k] \in ConnRecord(stored)
  BY DEF AccessInv, Types, ServerTypes
<1>2. /\ conn'[k].tab = conn[k].tab /\ conn'[k].claims = conn[k].claims /\ conn'[k].role = conn[k].role
      /\ conn'[k].phase = conn[k].phase /\ conn'[k].closing = conn[k].closing
      /\ conn[k].raced => conn'[k].raced
      /\ conn[k].phase \in {"upgrading", "granted"} => conn'[k].raced
      /\ UNCHANGED srv /\ access' = a
  BY <1>1 DEF Change, ConnRecord
<1>3. CASE conn[k].phase = "open" /\ ~conn[k].closing /\ ~Excused(k)' /\ srv.mode = "up"
  <2>0. conn[k].tab \in Clients /\ conn[k].claims.via \in Vias
    BY <1>1 DEF ConnRecord, Claims, Vias
  <2>9. PICK c \in Clients, via \in Vias : c = conn[k].tab /\ via = conn[k].claims.via
    BY <2>0
  <2>1. Within(conn[k].role, c, via) \/ Announced(k)
    BY <1>1, <1>2, <1>3, <2>9 DEF ConnWithin, Excused
  <2>2. events' = events \o ev /\ events \in Seq(Event)
    BY <1>3 DEF Change, Types, ServerTypes
  <2>3. \A e : Affects(e, conn[k]) => Affects(e, conn'[k])
    BY <1>2 DEF Affects
  <2>4. Announced(k) => Announced(k)'
    <3>1. ASSUME NEW i \in DOMAIN events, Affects(events[i], conn[k]) PROVE Announced(k)'
      <4>1. i \in DOMAIN (events \o ev) /\ (events \o ev)[i] = events[i]
        BY <2>2, ConcatProperties, LenProperties
      <4> QED
        BY <2>2, <2>3, <3>1, <4>1 DEF Announced
    <3> QED
      BY <3>1 DEF Announced
  <2>5. (\E i \in DOMAIN ev : Affects(ev[i], conn[k])) => Announced(k)'
    <3>1. ASSUME NEW i \in DOMAIN ev, Affects(ev[i], conn[k]) PROVE Announced(k)'
      <4>1. Len(events) + i \in DOMAIN (events \o ev) /\ (events \o ev)[Len(events) + i] = ev[i]
        <5>1. Len(events) \in Nat /\ DOMAIN ev = 1..Len(ev) /\ Len(ev) \in Nat
          BY <2>2, LenProperties
        <5>2. /\ DOMAIN (events \o ev) = 1..(Len(events) + Len(ev))
              /\ (events \o ev)[Len(events) + i] = ev[i]
          BY <2>2, <5>1, ConcatProperties
        <5> QED
          BY <5>1, <5>2
      <4> QED
        BY <2>2, <2>3, <3>1, <4>1 DEF Announced
    <3> QED
      BY <3>1
  <2>6. ~(a.expired /\ via = "link")
    BY <1>2, <1>3, <2>9 DEF Excused
  <2>7. Within(conn[k].role, c, via) => Announced(k)' \/ Rank[conn[k].role] <= Rank[Gives(c, via)']
    <3>1. conn[k].role \in Roles
      BY <1>1 DEF ConnRecord
    <3>2. Gives(c, via) \in Roles /\ Gives(c, via)' \in Roles
      BY <1>2 DEF Gives, Limited, SourceRole, Types, ServerTypes, AccessRecord, Users, Roles
    <3>3. Rank[conn[k].role] \in Nat /\ Rank[Gives(c, via)] \in Nat /\ Rank[Gives(c, via)'] \in Nat
      BY <3>1, <3>2, Ranks
    <3>4. \/ Rank[Gives(c, via)] <= Rank[Gives(c, via)'] \/ \E i \in DOMAIN ev : Affects(ev[i], conn[k])
      BY <2>6, <2>9
    <3> QED
      BY <2>5, <3>3, <3>4 DEF Within
  <2>8. (Within(conn[k].role, conn[k].tab, conn[k].claims.via) \/ Announced(k))'
    BY <1>2, <2>1, <2>4, <2>7, <2>9 DEF Within
  <2> QED
    BY <1>1, <1>2, <1>3, <2>8 DEF ConnWithin
<1>4. CASE ~(conn[k].phase = "open" /\ ~conn[k].closing /\ ~Excused(k)' /\ srv.mode = "up")
  BY <1>1, <1>2, <1>4 DEF ConnWithin
<1> QED
  BY <1>3, <1>4

LEMMA ChangesKeepAccess ==
    ASSUME Types, AccessInv,
           \/ \E u \in Users, role \in {"none", "viewer", "editor"} : ChangeMember(u, role)
           \/ RevokeLink \/ LinkExpires \/ \E on \in BOOLEAN : SetPublic(on) \/ PlanLock(on) \/ Trash(on)
    PROVE  AccessInv'
<1>1. access \in AccessRecord /\ <<>> \in Seq(Event)
  BY EmptySeq DEF Types, ServerTypes
\* What a source gives depends on the lock and the trash, and on its own part of the access.
<1>2. ASSUME NEW c \in Clients, NEW via \in Vias
      PROVE  /\ SourceRole(c, via) \in Roles /\ Gives(c, via) \in Roles
             /\ Rank[Gives(c, via)] \in 0..3
  BY <1>1, Ranks DEF SourceRole, Gives, Limited, AccessRecord, Users, Roles, Vias
<1>3. ASSUME NEW u \in Users, NEW role \in {"none", "viewer", "editor"}, ChangeMember(u, role) PROVE AccessInv'
  <2> DEFINE a == [access EXCEPT !.member[u] = role]
             ev == IF access.member[u] = "none" THEN <<>> ELSE <<[t |-> "member", user |-> u]>>
  <2>1. a \in AccessRecord /\ (access.expired => a.expired)
    BY <1>1 DEF AccessRecord, Roles
  <2>2. ev \in Seq(Event) /\ (access.member[u] # "none" => ev = <<[t |-> "member", user |-> u]>>)
    <3>1. [t |-> "member", user |-> u] \in Event
      BY DEF Event
    <3>2. <<[t |-> "member", user |-> u]>> \in Seq(Event)
      BY <3>1
    <3> QED
      BY <1>1, <3>2
  <2>3. Change(a, ev) /\ access' = a
    BY <1>3 DEF ChangeMember, Change
  <2>4. ASSUME NEW k \in Conns, NEW c \in Clients, NEW via \in Vias, c = conn[k].tab, via = conn[k].claims.via
        PROVE  \/ Rank[Gives(c, via)] <= Rank[Gives(c, via)'] \/ \E i \in DOMAIN ev : Affects(ev[i], conn[k])
    <3>1. CASE via = "member" /\ UserOf[c] = u /\ access.member[u] # "none"
      <4>1. 1 \in DOMAIN ev /\ ev[1] = [t |-> "member", user |-> u]
        BY <2>2, <3>1
      <4>2. Affects(ev[1], conn[k])
        BY <2>4, <3>1, <4>1 DEF Affects
      <4> QED
        BY <4>1, <4>2
    <3>2. CASE via = "member" /\ UserOf[c] = u /\ access.member[u] = "none"
      <4>1. Gives(c, via) = "none"
        BY <3>2 DEF Gives, Limited, SourceRole
      <4>2. Gives(c, via)' \in Roles
        BY <2>1, <2>3 DEF Gives, Limited, SourceRole, AccessRecord, Users, Roles, Vias
      <4> QED
        BY <4>1, <4>2, Ranks
    <3>3. CASE ~(via = "member" /\ UserOf[c] = u)
      <4>1. UserOf[c] \in Users /\ access.member \in [Users -> Roles]
        BY <1>1 DEF Users, AccessRecord
      <4>2. access' = [access EXCEPT !.member = [access.member EXCEPT ![u] = role]]
        BY <2>3
      <4>3. SourceRole(c, via)' = SourceRole(c, via) /\ access'.deleted = access.deleted /\ access'.locked = access.locked
        BY <1>1, <3>3, <4>1, <4>2 DEF SourceRole, AccessRecord
      <4>4. Gives(c, via)' = Gives(c, via)
        BY <4>3 DEF Gives, Limited
      <4> QED
        BY <1>2, <4>4
    <3> QED
      BY <3>1, <3>2, <3>3
  <2> HIDE DEF a, ev
  <2> QED
    BY <2>1, <2>2, <2>3, <2>4, ChangeKeepsAccess
<1>4. ASSUME LinkExpires PROVE AccessInv'
  <2> DEFINE a == [access EXCEPT !.link = "none", !.expired = TRUE]
  <2>1. a \in AccessRecord /\ a.expired /\ Change(a, <<>>) /\ access' = a
    BY <1>1, <1>4 DEF AccessRecord, LinkExpires, Change
  <2>2. ASSUME NEW c \in Clients, NEW via \in Vias, via # "link" PROVE Rank[Gives(c, via)] <= Rank[Gives(c, via)']
    <3>1. Gives(c, via)' = Gives(c, via)
      BY <1>1, <2>1, <2>2 DEF Gives, Limited, SourceRole, AccessRecord
    <3> QED
      BY <1>2, <3>1
  <2> HIDE DEF a
  <2> QED
    BY <1>1, <2>1, <2>2, ChangeKeepsAccess
<1>5. ASSUME RevokeLink PROVE AccessInv'
  <2> DEFINE a == [access EXCEPT !.link = "none"]
             ev == <<[t |-> "link"]>>
  <2>1. a \in AccessRecord /\ (access.expired => a.expired) /\ Change(a, ev) /\ access' = a /\ ev \in Seq(Event)
    BY <1>1, <1>5 DEF AccessRecord, RevokeLink, Change, Event
  <2>2. ASSUME NEW k \in Conns, NEW c \in Clients, NEW via \in Vias, c = conn[k].tab, via = conn[k].claims.via
        PROVE  \/ Rank[Gives(c, via)] <= Rank[Gives(c, via)'] \/ \E i \in DOMAIN ev : Affects(ev[i], conn[k])
    <3>1. CASE via = "link"
      <4>1. 1 \in DOMAIN ev /\ Affects(ev[1], conn[k])
        BY <2>2, <3>1 DEF Affects
      <4> QED
        BY <4>1
    <3>2. CASE via # "link"
      <4>1. Gives(c, via)' = Gives(c, via)
        BY <1>1, <2>1, <3>2 DEF Gives, Limited, SourceRole, AccessRecord
      <4> QED
        BY <1>2, <4>1
    <3> QED
      BY <3>1, <3>2
  <2> HIDE DEF a, ev
  <2> QED
    BY <2>1, <2>2, ChangeKeepsAccess
<1>6. ASSUME NEW on \in BOOLEAN, SetPublic(on) PROVE AccessInv'
  <2> DEFINE a == [access EXCEPT !.isPublic = on]
             ev == IF on THEN <<>> ELSE <<[t |-> "public_off"]>>
  <2>1. a \in AccessRecord /\ (access.expired => a.expired) /\ Change(a, ev) /\ access' = a /\ ev \in Seq(Event)
    <3>1. <<[t |-> "public_off"]>> \in Seq(Event) /\ <<>> \in Seq(Event)
      BY <1>1 DEF Event
    <3>2. Change(a, ev) /\ access' = a
      BY <1>6 DEF SetPublic, Change
    <3> QED
      BY <1>1, <3>1, <3>2 DEF AccessRecord
  <2>2. ASSUME NEW k \in Conns, NEW c \in Clients, NEW via \in Vias, c = conn[k].tab, via = conn[k].claims.via
        PROVE  \/ Rank[Gives(c, via)] <= Rank[Gives(c, via)'] \/ \E i \in DOMAIN ev : Affects(ev[i], conn[k])
    <3>1. CASE via = "public" /\ ~on
      <4>1. 1 \in DOMAIN ev /\ Affects(ev[1], conn[k])
        BY <2>2, <3>1 DEF Affects
      <4> QED
        BY <4>1
    <3>2. CASE via = "public" /\ on
      <4>1. SourceRole(c, via)' = "viewer" /\ SourceRole(c, via) \in {"none", "viewer"}
            /\ access'.locked = access.locked /\ access'.deleted = access.deleted
        BY <1>1, <2>1, <3>2 DEF SourceRole, AccessRecord
      <4> QED
        BY <1>1, <4>1, Ranks DEF Gives, Limited, AccessRecord
    <3>3. CASE via # "public"
      <4>1. Gives(c, via)' = Gives(c, via)
        BY <1>1, <2>1, <3>3 DEF Gives, Limited, SourceRole, AccessRecord
      <4> QED
        BY <1>2, <4>1
    <3> QED
      BY <3>1, <3>2, <3>3
  <2> HIDE DEF a, ev
  <2> QED
    BY <2>1, <2>2, ChangeKeepsAccess
<1>7. ASSUME NEW on \in BOOLEAN, PlanLock(on) PROVE AccessInv'
  <2> DEFINE a == [access EXCEPT !.locked = on]
             ev == <<[t |-> "plan"]>>
  <2>1. a \in AccessRecord /\ (access.expired => a.expired) /\ Change(a, ev) /\ ev \in Seq(Event)
    BY <1>1, <1>7 DEF AccessRecord, PlanLock, Change, Event
  <2>2. \A k \in Conns : \E i \in DOMAIN ev : Affects(ev[i], conn[k])
    <3>1. 1 \in DOMAIN ev /\ ev[1].t = "plan"
      OBVIOUS
    <3> QED
      BY <3>1 DEF Affects
  <2> HIDE DEF a, ev
  <2> QED
    BY <2>1, <2>2, ChangeKeepsAccess
<1>8. ASSUME NEW on \in BOOLEAN, Trash(on) PROVE AccessInv'
  <2> DEFINE a == [access EXCEPT !.deleted = on]
             ev == IF on THEN <<[t |-> "board_deleted"]>> ELSE <<>>
  <2>1. a \in AccessRecord /\ (access.expired => a.expired) /\ Change(a, ev) /\ access' = a /\ ev \in Seq(Event)
    <3>1. <<[t |-> "board_deleted"]>> \in Seq(Event) /\ <<>> \in Seq(Event)
      BY <1>1 DEF Event
    <3>2. Change(a, ev) /\ access' = a
      BY <1>8 DEF Trash, Change
    <3> QED
      BY <1>1, <3>1, <3>2 DEF AccessRecord
  <2>2. ASSUME NEW k \in Conns, NEW c \in Clients, NEW via \in Vias
        PROVE  \/ Rank[Gives(c, via)] <= Rank[Gives(c, via)'] \/ \E i \in DOMAIN ev : Affects(ev[i], conn[k])
    <3>1. CASE on
      <4>1. 1 \in DOMAIN ev /\ ev[1].t = "board_deleted"
        BY <3>1
      <4> QED
        BY <4>1 DEF Affects
    <3>2. CASE ~on
      <4>1. access.deleted /\ Gives(c, via) = "none"
        BY <1>1, <1>8, <3>2 DEF Trash, AccessRecord, Gives
      <4>2. Gives(c, via)' \in Roles
        BY <2>1 DEF Gives, Limited, SourceRole, AccessRecord, Users, Roles, Vias
      <4> QED
        BY <4>1, <4>2, Ranks
    <3> QED
      BY <3>1, <3>2
  <2> HIDE DEF a, ev
  <2> QED
    BY <2>1, <2>2, ChangeKeepsAccess
<1> QED
  BY <1>3, <1>4, <1>5, <1>6, <1>7, <1>8

\* Once the announcements of access changes are delivered, an open socket gives no more than its user
\* now has; unless access changed between its ticket and its registration, or its link expired
\* (upgrade.ts, revocation/bus.ts, connection.ts close).
THEOREM RevokedIsClosed == Spec => []RevokedIsClosedUnlessRaced
<1>1. Init => AccessInv
  BY DEF Init, AccessInv, ConnWithin, Free
<1>2. SessionTypesInv /\ SessionTypesInv' /\ AccessInv /\ [Next]_vars => AccessInv'
  <2> SUFFICES ASSUME SessionTypesInv, SessionTypesInv', AccessInv, [Next]_vars PROVE AccessInv'
    OBVIOUS
  <2>1. Types /\ Types' /\ TransportInv
    BY DEF SessionTypesInv
  <2>2. CASE UNCHANGED vars
    <3>1. UNCHANGED <<access, events, srv, conn>>
      BY <2>2 DEF vars
    <3> QED
      BY <2>1, <3>1, AccessKept DEF SameAccess
  <2>3. CASE \E c \in Clients : ClientStep(c) \/ \E e \in Edits : Edit(c, e)
    BY <2>1, <2>3, ClientsKeepAccess DEF ClientStep
  <2>4. CASE ServerStep
    BY <2>1, <2>4, ServerKeepsAccess DEF ServerStep
  <2>5. CASE Disturbance
    BY <2>1, <2>5, ClientsKeepAccess, ServerKeepsAccess, ChangesKeepAccess DEF Disturbance
  <2> QED
    BY <2>2, <2>3, <2>4, <2>5 DEF Next
<1>3. SessionTypesInv /\ AccessInv => RevokedIsClosedUnlessRaced
  <2> SUFFICES ASSUME SessionTypesInv, AccessInv, srv.mode = "up", events = <<>>, NEW k \in Registered,
                      ~conn[k].closing, ~Excused(k)
               PROVE  Rank[conn[k].role] <= Rank[CurrentRole(conn[k].tab)]
    BY DEF RevokedIsClosedUnlessRaced, Excused
  <2>1. /\ k \in Conns /\ conn[k].phase = "open" /\ conn[k].tab \in Clients /\ conn[k].role \in Roles
        /\ conn[k].claims.via \in {"none", "member", "org", "link", "public"} /\ ServerTypes
    BY DEF Registered, SessionTypesInv, Types, ServerTypes, ConnRecord, Claims
  <2>2. ~Announced(k)
    BY DEF Announced
  <2>3. Rank[conn[k].role] <= Rank[Gives(conn[k].tab, conn[k].claims.via)]
    BY <2>1, <2>2 DEF AccessInv, ConnWithin, Within
  <2>4. conn[k].claims.via = "link" => conn[k].tab \in HasLink
    BY <2>1 DEF AccessInv, ConnWithin
  <2>5. /\ Rank[Gives(conn[k].tab, conn[k].claims.via)] <= Rank[CurrentRole(conn[k].tab)]
        /\ Rank[Gives(conn[k].tab, conn[k].claims.via)] \in Nat /\ Rank[CurrentRole(conn[k].tab)] \in Nat
    BY <2>1, <2>4, GivesIsBounded
  <2>6. Rank[conn[k].role] \in Nat
    BY <2>1, Ranks
  <2> QED
    BY <2>3, <2>5, <2>6
<1> QED
  BY <1>1, <1>2, <1>3, SessionTypesHold, PTL DEF Spec

-----------------------------------------------------------------------------
(* The handshake: what a tab and the room lack of each other is on the wire. *)

\* Of a socket, a timer and an attempt a tab has one at most.
Exclusive(t) ==
    /\ t.socket # NoSocket => ~t.timer /\ ~t.connecting
    /\ t.timer => ~t.connecting

Has(wire, kind) == \E i \in DOMAIN wire : wire[i].t = kind
Carries(wire, kinds, e) == \E i \in DOMAIN wire : wire[i].t \in kinds /\ e \in wire[i].ops
Opens(wire) == 1 \in DOMAIN wire /\ wire[1].t = "open"

\* A connection in use, whose tab has a document (mine), edits of its frame and a status, and a
\* server with a document and a room. Before the tab has heard that its socket is open it sends
\* nothing; the answer to that is its vector, and what lies between the two vectors is sent both ways.
Talks(k, mine, edits, status, room, content) ==
    /\ \A i \in DOMAIN k.down : i # 1 => k.down[i].t # "open"
    /\ status # "connected" => Opens(k.down)
    /\ \A i \in DOMAIN k.down : k.down[i].t \in {"step1", "ops"} => k.begun /\ k.down[i].ops \subseteq content
    /\ ~k.begun => Opens(k.down) \/ Has(k.up, "step1")
    /\ k.begun => /\ room = "ready"
                  /\ Opens(k.down) => Has(k.down, "step1")
    /\ k.begun /\ ~k.frozen =>
         /\ \/ Opens(k.down) \/ Has(k.up, "step1")
            \/ \A e \in content : e \in mine \/ Carries(k.down, {"ops"}, e)
         /\ Can(k.role, "write") =>
              \/ Has(k.down, "step1")
              \/ \A e \in mine : e \in content \/ e \in edits \/ Carries(k.up, {"step2", "update"}, e)

\* A tab's connection, whatever its phase.
Wired(k, mine, edits, status, room, content) ==
    /\ edits \subseteq mine
    /\ \A i \in DOMAIN k.up : k.up[i].ops \subseteq mine
    /\ k.phase # "open" => ~k.begun /\ ~k.closing
    /\ k.phase = "open" => IF k.closing THEN Has(k.down, "close")
                           ELSE Talks(k, mine, edits, status, room, content)

LinkInv ==
    /\ \A c \in Clients : Exclusive(tab[c]) /\ pending[c].edits \subseteq doc[c]
    /\ \A c, d \in Clients : tab[c].socket # NoSocket /\ tab[c].socket = tab[d].socket => c = d
    /\ \A c \in Clients, k \in Conns : tab[c].socket = k =>
         Wired(conn[k], doc[c], pending[c].edits, tab[c].status, srv.room, srv.doc)

\* A wire with one message more, at its end.
Longer(q, x, r) ==
    /\ \A kind : Has(r, kind) <=> Has(q, kind) \/ x.t = kind
    /\ \A kinds, e : Carries(r, kinds, e) <=> Carries(q, kinds, e) \/ (x.t \in kinds /\ e \in x.ops)
    /\ x.t # "open" => (Opens(r) <=> Opens(q))
    /\ \A i \in DOMAIN r : (i \in DOMAIN q /\ r[i] = q[i]) \/ r[i] = x

LEMMA LongerWire ==
    ASSUME NEW S, NEW q \in Seq(S), NEW x \in S, NEW r, r = Append(q, x)
    PROVE  Longer(q, x, r)
<1>1. /\ DOMAIN q = 1..Len(q) /\ Len(q) \in Nat /\ DOMAIN r = 1..(Len(q) + 1)
      /\ r[Len(q) + 1] = x /\ \A i \in 1..Len(q) : r[i] = q[i]
  OBVIOUS
<1>2. \A i \in DOMAIN r : (i \in DOMAIN q /\ r[i] = q[i]) \/ (i = Len(q) + 1 /\ r[i] = x)
  BY <1>1
<1>3. /\ \A i \in DOMAIN q : i \in DOMAIN r /\ r[i] = q[i]
      /\ Len(q) + 1 \in DOMAIN r
  BY <1>1
<1>4. \A kind : Has(r, kind) <=> Has(q, kind) \/ x.t = kind
  BY <1>1, <1>2, <1>3 DEF Has
<1>5. \A kinds, e : Carries(r, kinds, e) <=> Carries(q, kinds, e) \/ (x.t \in kinds /\ e \in x.ops)
  BY <1>1, <1>2, <1>3 DEF Carries
<1>6. ASSUME x.t # "open" PROVE Opens(r) <=> Opens(q)
  BY <1>1, <1>2, <1>3, <1>6 DEF Opens
<1> QED
  BY <1>2, <1>4, <1>5, <1>6 DEF Longer

\* A wire without its first message.
Shorter(q, x, r) ==
    /\ 1 \in DOMAIN q /\ q[1] = x
    /\ \A kind : Has(q, kind) <=> Has(r, kind) \/ x.t = kind
    /\ \A kinds, e : Carries(q, kinds, e) <=> Carries(r, kinds, e) \/ (x.t \in kinds /\ e \in x.ops)
    /\ \A i \in DOMAIN r : \E j \in DOMAIN q : j # 1 /\ r[i] = q[j]

LEMMA ShorterWire ==
    ASSUME NEW S, NEW q \in Seq(S), q # <<>>, NEW x, x = Head(q), NEW r, r = Tail(q)
    PROVE  Shorter(q, x, r)
<1>1. /\ DOMAIN q = 1..Len(q) /\ Len(q) \in Nat /\ Len(q) >= 1 /\ DOMAIN r = 1..(Len(q) - 1)
      /\ q[1] = x /\ \A i \in 1..(Len(q) - 1) : r[i] = q[i + 1]
  OBVIOUS
<1>2. \A i \in DOMAIN r : \E j \in DOMAIN q : j # 1 /\ r[i] = q[j]
  <2>1. \A i \in DOMAIN r : i + 1 \in DOMAIN q /\ i + 1 # 1 /\ r[i] = q[i + 1]
    BY <1>1
  <2> QED
    BY <2>1
<1>3. \A j \in DOMAIN q : j # 1 => \E i \in DOMAIN r : r[i] = q[j]
  <2>1. \A j \in DOMAIN q : j # 1 => j - 1 \in DOMAIN r /\ r[j - 1] = q[j]
    BY <1>1
  <2> QED
    BY <2>1
<1>4. 1 \in DOMAIN q /\ q[1] = x
  BY <1>1
<1>5. ASSUME NEW kind PROVE Has(q, kind) <=> Has(r, kind) \/ x.t = kind
  <2>1. ASSUME NEW j \in DOMAIN q, q[j].t = kind PROVE Has(r, kind) \/ x.t = kind
    BY <1>3, <1>4, <2>1 DEF Has
  <2>2. ASSUME NEW j \in DOMAIN r, r[j].t = kind PROVE Has(q, kind)
    BY <1>2, <2>2 DEF Has
  <2>3. x.t = kind => Has(q, kind)
    BY <1>4 DEF Has
  <2> QED
    BY <2>1, <2>2, <2>3 DEF Has
<1>6. \A kinds, e : Carries(q, kinds, e) <=> Carries(r, kinds, e) \/ (x.t \in kinds /\ e \in x.ops)
  BY <1>2, <1>3, <1>4 DEF Carries
<1> QED
  BY <1>2, <1>4, <1>5, <1>6 DEF Shorter

\* A connection that is not in use knows nothing of the server.
LEMMA Elsewhere ==
    ASSUME NEW k, NEW mine, NEW edits, NEW status, NEW room, NEW content, NEW room2, NEW content2,
           Wired(k, mine, edits, status, room, content), ~(k.phase = "open" /\ k.begun /\ ~k.closing)
    PROVE  Wired(k, mine, edits, status, room2, content2)
  BY DEF Wired, Talks

LEMMA Idles ==
    ASSUME NEW k, NEW mine, NEW edits, NEW status, NEW room, NEW content,
           edits \subseteq mine, k.up = <<>>, k.phase # "open", ~k.begun, ~k.closing
    PROVE  Wired(k, mine, edits, status, room, content)
  BY DEF Wired

LEMMA ClosesWire ==
    ASSUME NEW S, NEW k, NEW n, NEW code, k.down \in Seq(S), [t |-> "close", code |-> code] \in S,
           NEW db, k \in ConnRecord(db), n = Close(k, code),
           NEW mine, NEW edits, NEW status, NEW room, NEW content, NEW room2, NEW content2,
           Wired(k, mine, edits, status, room, content)
    PROVE  Wired(n, mine, edits, status, room2, content2)
<1>1. CASE k.phase = "open" /\ ~k.closing
  <2>1. PICK x \in S : x = [t |-> "close", code |-> code]
    OBVIOUS
  <2>2. PICK wire : wire = Append(k.down, x)
    OBVIOUS
  <2>3. n = [k EXCEPT !.down = wire, !.closing = TRUE]
    BY <1>1, <2>1, <2>2 DEF Close
  <2>4. n.phase = k.phase /\ n.up = k.up /\ n.down = wire /\ n.closing
    BY <2>3 DEF ConnRecord
  <2>5. Longer(k.down, x, wire)
    BY <2>2, LongerWire
  <2>6. Has(wire, "close")
    BY <2>1, <2>5 DEF Longer
  <2> QED
    BY <1>1, <2>4, <2>6 DEF Wired
<1>2. CASE ~(k.phase = "open" /\ ~k.closing)
  <2>1. n = k
    BY <1>2 DEF Close
  <2> QED
    BY <1>2, <2>1 DEF Wired
<1> QED
  BY <1>1, <1>2

\* What is sent to a connection in use says no more than the room then holds.
LEMMA SendsWire ==
    ASSUME NEW db, NEW k \in ConnRecord(db), NEW x \in DownMessage(db), NEW n, n = [k EXCEPT !.down = Append(k.down, x)],
           NEW mine, NEW edits, NEW status, NEW room, NEW content, NEW content2, content \subseteq content2,
           Wired(k, mine, edits, status, room, content), k.phase = "open", k.begun, ~k.closing,
           \/ x.t = "persisted" /\ content2 = content
           \/ x.t = "ops" /\ x.ops \subseteq content2 /\ content2 \ content \subseteq x.ops
    PROVE  Wired(n, mine, edits, status, room, content2)
<1>1. PICK wire : wire = Append(k.down, x)
  OBVIOUS
<1>2. k.down \in Seq(DownMessage(db))
  BY DEF ConnRecord
<1>3. /\ n.phase = k.phase /\ n.up = k.up /\ n.down = wire /\ n.closing = k.closing /\ n.begun = k.begun
      /\ n.frozen = k.frozen /\ n.role = k.role
  BY <1>1 DEF ConnRecord
<1>4. /\ \A kind : Has(wire, kind) <=> Has(k.down, kind) \/ x.t = kind
      /\ \A kinds, e : Carries(wire, kinds, e) <=> Carries(k.down, kinds, e) \/ (x.t \in kinds /\ e \in x.ops)
      /\ Opens(wire) <=> Opens(k.down)
      /\ \A i \in DOMAIN wire : (i \in DOMAIN k.down /\ wire[i] = k.down[i]) \/ wire[i] = x
  <2>1. Longer(k.down, x, wire)
    BY <1>1, <1>2, LongerWire
  <2> QED
    BY <2>1 DEF Longer
<1>5. Talks(k, mine, edits, status, room, content)
  BY DEF Wired
<1>6. Talks(n, mine, edits, status, room, content2)
  <2>1. \A i \in DOMAIN n.down : i # 1 => n.down[i].t # "open"
    BY <1>3, <1>4, <1>5 DEF Talks
  <2>2. status # "connected" => Opens(n.down)
    BY <1>3, <1>4, <1>5 DEF Talks
  <2>3. \A i \in DOMAIN n.down : n.down[i].t \in {"step1", "ops"} => n.begun /\ n.down[i].ops \subseteq content2
    BY <1>3, <1>4, <1>5 DEF Talks
  <2>4. room = "ready" /\ (Opens(n.down) => Has(n.down, "step1"))
    BY <1>3, <1>4, <1>5 DEF Talks
  <2>5. ~n.frozen => \/ Opens(n.down) \/ Has(n.up, "step1")
                     \/ \A e \in content2 : e \in mine \/ Carries(n.down, {"ops"}, e)
    BY <1>3, <1>4, <1>5 DEF Talks
  <2>6. ~n.frozen /\ Can(n.role, "write") =>
              \/ Has(n.down, "step1")
              \/ \A e \in mine : e \in content2 \/ e \in edits \/ Carries(n.up, {"step2", "update"}, e)
    BY <1>3, <1>4, <1>5 DEF Talks
  <2> QED
    BY <1>3, <2>1, <2>2, <2>3, <2>4, <2>5, <2>6 DEF Talks
<1> QED
  BY <1>3, <1>6 DEF Wired

\* The server's first words: its vector, and what is stored. Nothing was said before them.
LEMMA BeginsWire ==
    ASSUME NEW db, NEW k \in ConnRecord(db), NEW x \in DownMessage(db), NEW y \in DownMessage(db),
           NEW n, n = [k EXCEPT !.begun = TRUE, !.down = Append(Append(k.down, x), y)],
           NEW mine, NEW edits, NEW status, NEW room, NEW content, NEW content2,
           Wired(k, mine, edits, status, room, content), k.phase = "open", ~k.begun, ~k.closing,
           x.t = "step1", x.ops \subseteq content2, y.t = "persisted"
    PROVE  Wired(n, mine, edits, status, "ready", content2)
<1>1. PICK first : first = Append(k.down, x)
  OBVIOUS
<1>2. PICK wire : wire = Append(first, y)
  OBVIOUS
<1>3. k.down \in Seq(DownMessage(db)) /\ first \in Seq(DownMessage(db))
  BY <1>1, WireOperations DEF ConnRecord
<1>4. Longer(k.down, x, first) /\ Longer(first, y, wire)
  BY <1>1, <1>2, <1>3, LongerWire
<1>5. /\ n.phase = k.phase /\ n.up = k.up /\ n.down = wire /\ n.closing = k.closing /\ n.begun
      /\ n.frozen = k.frozen /\ n.role = k.role
  BY <1>1, <1>2 DEF ConnRecord
<1>6. Talks(k, mine, edits, status, room, content)
  BY DEF Wired
<1>7. Has(wire, "step1") /\ (Opens(wire) <=> Opens(k.down))
  BY <1>4 DEF Longer
<1>8. \A i \in DOMAIN wire : \/ i \in DOMAIN k.down /\ wire[i] = k.down[i]
                            \/ wire[i] = x \/ wire[i] = y
  BY <1>4 DEF Longer
<1>9. \A i \in DOMAIN wire : /\ i # 1 => wire[i].t # "open"
                             /\ wire[i].t \in {"step1", "ops"} => wire[i].ops \subseteq content2
  <2> SUFFICES ASSUME NEW i \in DOMAIN wire
               PROVE  (i # 1 => wire[i].t # "open") /\ (wire[i].t \in {"step1", "ops"} => wire[i].ops \subseteq content2)
    OBVIOUS
  <2>1. CASE i \in DOMAIN k.down /\ wire[i] = k.down[i]
    BY <1>6, <2>1 DEF Talks
  <2>2. CASE wire[i] = x \/ wire[i] = y
    BY <2>2
  <2> QED
    BY <1>8, <2>1, <2>2
<1>10. Talks(n, mine, edits, status, "ready", content2)
  <2>1. status # "connected" => Opens(wire)
    BY <1>6, <1>7 DEF Talks
  <2>2. Opens(wire) \/ Has(k.up, "step1")
    BY <1>6, <1>7 DEF Talks
  <2>3. /\ status # "connected" => Opens(n.down)
        /\ Opens(n.down) \/ Has(n.up, "step1")
        /\ Has(n.down, "step1")
    BY <1>5, <1>7, <2>1, <2>2
  <2>4. \A i \in DOMAIN n.down : i # 1 => n.down[i].t # "open"
    <3>1. n.down = wire
      BY <1>5
    <3>2. \A i \in DOMAIN wire : i # 1 => wire[i].t # "open"
      BY <1>9
    <3> QED
      BY <3>1, <3>2
  <2>5. \A i \in DOMAIN n.down : n.down[i].t \in {"step1", "ops"} => n.begun /\ n.down[i].ops \subseteq content2
    <3>1. n.begun /\ n.down = wire
      BY <1>5
    <3>2. \A i \in DOMAIN wire : wire[i].t \in {"step1", "ops"} => wire[i].ops \subseteq content2
      BY <1>9
    <3> QED
      BY <3>1, <3>2
  <2>6. n.begun
    BY <1>5
  <2> QED
    BY <2>3, <2>4, <2>5, <2>6 DEF Talks
<1> QED
  BY <1>5, <1>10 DEF Wired

\* What connection k said is in the room's document, or nothing comes of it.
Heard(k, msg, before, after) ==
    /\ before \subseteq after /\ after \subseteq before \cup msg.ops
    /\ k.frozen \/ msg.t # "step1"
    /\ k.frozen \/ ~Can(k.role, "write") \/ msg.ops \subseteq after

\* The next message of a connection is handled: what it said is in the room, or nothing comes of it.
LEMMA HandlesWire ==
    ASSUME NEW db, NEW k \in ConnRecord(db), NEW n, NEW msg, msg = Head(k.up), n = [k EXCEPT !.up = Tail(k.up)],
           k.phase = "open", k.begun, ~k.closing, k.up # <<>>,
           NEW mine, NEW edits, NEW status, NEW room, NEW content, NEW content2,
           Wired(k, mine, edits, status, room, content), Heard(k, msg, content, content2)
    PROVE  Wired(n, mine, edits, status, room, content2)
<1> USE DEF Heard
<1>1. PICK rest : rest = Tail(k.up)
  OBVIOUS
<1>2. k.up \in Seq(UpMessage)
  BY DEF ConnRecord
<1>3. Shorter(k.up, msg, rest)
  BY <1>1, <1>2, ShorterWire
<1>4. /\ n.phase = k.phase /\ n.up = rest /\ n.down = k.down /\ n.closing = k.closing /\ n.begun = k.begun
      /\ n.frozen = k.frozen /\ n.role = k.role
  BY <1>1 DEF ConnRecord
<1>5. Talks(k, mine, edits, status, room, content) /\ (\A i \in DOMAIN k.up : k.up[i].ops \subseteq mine) /\ edits \subseteq mine
  BY DEF Wired
<1>6. msg.ops \subseteq mine /\ \A i \in DOMAIN rest : rest[i].ops \subseteq mine
  BY <1>3, <1>5 DEF Shorter
<1>7. ~k.frozen => \/ Opens(k.down) \/ Has(rest, "step1")
                   \/ \A e \in content2 : e \in mine \/ Carries(k.down, {"ops"}, e)
  BY <1>3, <1>5, <1>6 DEF Talks, Shorter
<1>8. ~k.frozen /\ Can(k.role, "write") =>
              \/ Has(k.down, "step1")
              \/ \A e \in mine : e \in content2 \/ e \in edits \/ Carries(rest, {"step2", "update"}, e)
  BY <1>3, <1>5 DEF Talks, Shorter
<1>9. Talks(n, mine, edits, status, room, content2)
  BY <1>4, <1>5, <1>7, <1>8 DEF Talks
<1> QED
  BY <1>4, <1>5, <1>6, <1>9 DEF Wired

\* The server's end of connection k has taken a message, and sends x.
Replied(k, x) == [k EXCEPT !.up = Tail(k.up), !.down = Append(k.down, x)]

\* A vector is answered with what the room has beyond it.
LEMMA RepliesWire ==
    ASSUME NEW db, NEW k \in ConnRecord(db), NEW n, NEW msg, msg = Head(k.up), NEW x \in DownMessage(db),
           n = Replied(k, x),
           k.phase = "open", k.begun, ~k.closing, k.up # <<>>,
           NEW mine, NEW edits, NEW status, NEW room, NEW content,
           Wired(k, mine, edits, status, room, content),
           msg.t = "step1", x.t = "ops", x.ops = content \ msg.ops
    PROVE  Wired(n, mine, edits, status, room, content)
<1>1. PICK rest : rest = Tail(k.up)
  OBVIOUS
<1>2. PICK wire : wire = Append(k.down, x)
  OBVIOUS
<1>3. k.up \in Seq(UpMessage) /\ k.down \in Seq(DownMessage(db))
  BY DEF ConnRecord
<1>4. Shorter(k.up, msg, rest) /\ Longer(k.down, x, wire)
  BY <1>1, <1>2, <1>3, ShorterWire, LongerWire
<1>5. /\ n.phase = k.phase /\ n.up = rest /\ n.down = wire /\ n.closing = k.closing /\ n.begun = k.begun
      /\ n.frozen = k.frozen /\ n.role = k.role
  BY <1>1, <1>2 DEF ConnRecord, Replied
<1>6. Talks(k, mine, edits, status, room, content) /\ (\A i \in DOMAIN k.up : k.up[i].ops \subseteq mine) /\ edits \subseteq mine
  BY DEF Wired
<1>7. msg.ops \subseteq mine /\ \A i \in DOMAIN rest : rest[i].ops \subseteq mine
  BY <1>4, <1>6 DEF Shorter
<1>8. Opens(wire) <=> Opens(k.down)
  BY <1>4 DEF Longer
<1>9. \A i \in DOMAIN wire : /\ i # 1 => wire[i].t # "open"
                             /\ wire[i].t \in {"step1", "ops"} => wire[i].ops \subseteq content
  BY <1>4, <1>6 DEF Talks, Longer
<1>10. \A e \in content : e \in mine \/ Carries(wire, {"ops"}, e)
  BY <1>4, <1>7 DEF Longer
<1>11. Has(k.down, "step1") => Has(wire, "step1")
  BY <1>4 DEF Longer
<1>12. ~k.frozen /\ Can(k.role, "write") =>
              \/ Has(wire, "step1")
              \/ \A e \in mine : e \in content \/ e \in edits \/ Carries(rest, {"step2", "update"}, e)
  BY <1>4, <1>6, <1>11 DEF Talks, Shorter
<1>13. Talks(n, mine, edits, status, room, content)
  <2>1. (status # "connected" => Opens(wire)) /\ room = "ready" /\ (Opens(wire) => Has(wire, "step1"))
    BY <1>6, <1>8, <1>11 DEF Talks
  <2>2. /\ status # "connected" => Opens(n.down)
        /\ Opens(n.down) => Has(n.down, "step1")
    BY <1>5, <2>1
  <2>3. \A i \in DOMAIN n.down : i # 1 => n.down[i].t # "open"
    <3>1. n.down = wire
      BY <1>5
    <3>2. \A i \in DOMAIN wire : i # 1 => wire[i].t # "open"
      BY <1>9
    <3> QED
      BY <3>1, <3>2
  <2>6. \A i \in DOMAIN n.down : n.down[i].t \in {"step1", "ops"} => n.begun /\ n.down[i].ops \subseteq content
    <3>1. n.begun /\ n.down = wire
      BY <1>5
    <3>2. \A i \in DOMAIN wire : wire[i].t \in {"step1", "ops"} => wire[i].ops \subseteq content
      BY <1>9
    <3> QED
      BY <3>1, <3>2
  <2>4. n.begun /\ \A e \in content : e \in mine \/ Carries(n.down, {"ops"}, e)
    BY <1>5, <1>10
  <2>5. ~n.frozen /\ Can(n.role, "write") =>
              \/ Has(n.down, "step1")
              \/ \A e \in mine : e \in content \/ e \in edits \/ Carries(n.up, {"step2", "update"}, e)
    BY <1>5, <1>12
  <2> QED
    BY <2>1, <2>2, <2>3, <2>4, <2>5, <2>6 DEF Talks
<1> QED
  BY <1>5, <1>6, <1>7, <1>13 DEF Wired

\* The tab's end of connection k has taken a message, and sends y.
Reply(k, y) == [k EXCEPT !.down = Tail(k.down), !.up = Append(k.up, y)]

\* The next message of the server is heard: the tab's socket opens, and it answers with its vector.
LEMMA OpensWire ==
    ASSUME NEW db, NEW k \in ConnRecord(db), k.down # <<>>, NEW x, x = Head(k.down), x.t = "open",
           NEW y \in UpMessage, y.t = "step1",
           NEW n, n = Reply(k, y),
           NEW mine, NEW edits, NEW status, NEW room, NEW content, y.ops \subseteq mine,
           Wired(k, mine, edits, status, room, content)
    PROVE  Wired(n, mine, {}, "connected", room, content)
<1>1. PICK rest : rest = Tail(k.down)
  OBVIOUS
<1>2. PICK said : said = Append(k.up, y)
  OBVIOUS
<1>3. k.up \in Seq(UpMessage) /\ k.down \in Seq(DownMessage(db))
  BY DEF ConnRecord
<1>5. Shorter(k.down, x, rest) /\ Longer(k.up, y, said)
  BY <1>1, <1>2, <1>3, ShorterWire, LongerWire
<1>6. /\ n.phase = k.phase /\ n.up = said /\ n.down = rest /\ n.closing = k.closing /\ n.begun = k.begun
      /\ n.frozen = k.frozen /\ n.role = k.role
  BY <1>1, <1>2 DEF ConnRecord, Reply
<1>7. \A i \in DOMAIN said : said[i].ops \subseteq mine
  BY <1>5 DEF Longer, Wired
<1>8. Has(said, "step1") /\ (\A kind : Has(k.down, kind) => Has(rest, kind) \/ kind = "open")
  BY <1>5 DEF Longer, Shorter
<1>9. ASSUME k.phase = "open", ~k.closing PROVE Talks(n, mine, {}, "connected", room, content)
  <2>1. Talks(k, mine, edits, status, room, content)
    BY <1>9 DEF Wired
  <2>2. Opens(k.down)
    BY <1>5 DEF Shorter, Opens
  <2>3. \A i \in DOMAIN n.down : n.down[i].t # "open"
    <3>1. \A i \in DOMAIN rest : rest[i].t # "open"
      BY <1>5, <2>1 DEF Shorter, Talks
    <3> QED
      BY <1>6, <3>1
  <2>4. \A i \in DOMAIN n.down : n.down[i].t \in {"step1", "ops"} => n.begun /\ n.down[i].ops \subseteq content
    <3>1. \A i \in DOMAIN rest : rest[i].t \in {"step1", "ops"} => k.begun /\ rest[i].ops \subseteq content
      BY <1>5, <2>1 DEF Shorter, Talks
    <3> QED
      BY <1>6, <3>1
  <2>5. Has(n.up, "step1")
    BY <1>6, <1>8
  <2>6. n.begun => room = "ready" /\ Has(n.down, "step1")
    BY <1>6, <1>8, <2>1, <2>2 DEF Talks
  <2> QED
    BY <2>3, <2>4, <2>5, <2>6 DEF Talks
<1>10. k.phase = "open" /\ k.closing => Has(n.down, "close")
  BY <1>6, <1>8 DEF Wired
<1> QED
  BY <1>6, <1>7, <1>9, <1>10 DEF Wired

\* It is told what the room has, or what is stored.
LEMMA HearsWire ==
    ASSUME NEW db, NEW k \in ConnRecord(db), NEW n, k.down # <<>>, NEW x, x = Head(k.down),
           n = [k EXCEPT !.down = Tail(k.down)], x.t \in {"ops", "persisted"},
           NEW mine, NEW edits, NEW status, NEW room, NEW content, NEW mine2,
           mine2 = IF x.t = "ops" THEN mine \cup x.ops ELSE mine,
           Wired(k, mine, edits, status, room, content)
    PROVE  Wired(n, mine2, edits, status, room, content)
<1>1. PICK rest : rest = Tail(k.down)
  OBVIOUS
<1>2. k.down \in Seq(DownMessage(db))
  BY DEF ConnRecord
<1>3. Shorter(k.down, x, rest)
  BY <1>1, <1>2, ShorterWire
<1>4. /\ n.phase = k.phase /\ n.up = k.up /\ n.down = rest /\ n.closing = k.closing /\ n.begun = k.begun
      /\ n.frozen = k.frozen /\ n.role = k.role
  BY <1>1 DEF ConnRecord
<1>5. mine \subseteq mine2 /\ (x.t = "ops" => x.ops \subseteq mine2)
      /\ \A e \in mine2 : e \in mine \/ (x.t = "ops" /\ e \in x.ops)
  OBVIOUS
<1>6. ASSUME k.phase = "open", ~k.closing PROVE Talks(n, mine2, edits, status, room, content)
  <2>1. Talks(k, mine, edits, status, room, content)
    BY <1>6 DEF Wired
  <2>2. ~Opens(k.down) /\ status = "connected"
    BY <1>3, <2>1 DEF Shorter, Opens, Talks
  <2>3. \A i \in DOMAIN rest : rest[i].t # "open"
    BY <1>3, <2>1 DEF Shorter, Talks
  <2>4. \A i \in DOMAIN rest : rest[i].t \in {"step1", "ops"} => k.begun /\ rest[i].ops \subseteq content
    BY <1>3, <2>1 DEF Shorter, Talks
  <2>5. x.t = "ops" => x.ops \subseteq content
    BY <1>3, <2>1 DEF Shorter, Talks
  <2>6. k.begun /\ ~k.frozen => Has(k.up, "step1") \/ \A e \in content : e \in mine2 \/ Carries(rest, {"ops"}, e)
    BY <1>3, <1>5, <2>1, <2>2 DEF Shorter, Talks
  <2>7. k.begun /\ ~k.frozen /\ Can(k.role, "write") =>
              \/ Has(rest, "step1")
              \/ \A e \in mine2 : e \in content \/ e \in edits \/ Carries(k.up, {"step2", "update"}, e)
    BY <1>3, <1>5, <2>1, <2>5 DEF Shorter, Talks
  <2>8. ~Opens(rest) /\ (~k.begun => Has(k.up, "step1")) /\ (k.begun => room = "ready")
    BY <2>1, <2>2, <2>3 DEF Talks, Opens
  <2>9. \A i \in DOMAIN n.down : i # 1 => n.down[i].t # "open"
    BY <1>4, <2>3
  <2>10. \A i \in DOMAIN n.down : n.down[i].t \in {"step1", "ops"} => n.begun /\ n.down[i].ops \subseteq content
    BY <1>4, <2>4
  <2> QED
    BY <1>4, <2>2, <2>6, <2>7, <2>8, <2>9, <2>10 DEF Talks
<1>7. k.phase = "open" /\ k.closing => Has(rest, "close")
  BY <1>3 DEF Wired, Shorter
<1> QED
  BY <1>4, <1>5, <1>6, <1>7 DEF Wired

\* It hears the server's vector, and sends what the room lacks.
LEMMA AnswersWire ==
    ASSUME NEW db, NEW k \in ConnRecord(db), NEW n, k.down # <<>>, NEW x, x = Head(k.down), x.t = "step1",
           NEW mine, NEW y \in UpMessage, y.t = "step2", y.ops = mine \ x.ops,
           n = Reply(k, y),
           NEW edits, NEW status, NEW room, NEW content,
           Wired(k, mine, edits, status, room, content)
    PROVE  Wired(n, mine, edits, status, room, content)
<1>1. PICK rest : rest = Tail(k.down)
  OBVIOUS
<1>2. PICK said : said = Append(k.up, y)
  OBVIOUS
<1>3. k.up \in Seq(UpMessage) /\ k.down \in Seq(DownMessage(db))
  BY DEF ConnRecord
<1>4. Shorter(k.down, x, rest) /\ Longer(k.up, y, said)
  BY <1>1, <1>2, <1>3, ShorterWire, LongerWire
<1>5. /\ n.phase = k.phase /\ n.up = said /\ n.down = rest /\ n.closing = k.closing /\ n.begun = k.begun
      /\ n.frozen = k.frozen /\ n.role = k.role
  BY <1>1, <1>2 DEF ConnRecord, Reply
<1>6. \A i \in DOMAIN said : said[i].ops \subseteq mine
  BY <1>4 DEF Longer, Wired
<1>7. ASSUME k.phase = "open", ~k.closing PROVE Talks(n, mine, edits, status, room, content)
  <2>1. Talks(k, mine, edits, status, room, content)
    BY <1>7 DEF Wired
  <2>2. ~Opens(k.down) /\ status = "connected"
    BY <1>4, <2>1 DEF Shorter, Opens, Talks
  <2>3. \A i \in DOMAIN rest : rest[i].t # "open"
    BY <1>4, <2>1 DEF Shorter, Talks
  <2>4. \A i \in DOMAIN rest : rest[i].t \in {"step1", "ops"} => k.begun /\ rest[i].ops \subseteq content
    BY <1>4, <2>1 DEF Shorter, Talks
  <2>5. x.ops \subseteq content
    BY <1>4, <2>1 DEF Shorter, Talks
  <2>6. k.begun /\ ~k.frozen => Has(said, "step1") \/ \A e \in content : e \in mine \/ Carries(rest, {"ops"}, e)
    BY <1>4, <2>1, <2>2 DEF Shorter, Longer, Talks
  <2>7. \A e \in mine : e \in content \/ Carries(said, {"step2", "update"}, e)
    <3>1. ASSUME NEW e \in mine, e \notin content PROVE Carries(said, {"step2", "update"}, e)
      <4>1. y.t \in {"step2", "update"} /\ e \in y.ops
        BY <2>5, <3>1
      <4> QED
        BY <1>4, <4>1 DEF Longer
    <3> QED
      BY <3>1
  <2>8. ~Opens(rest) /\ (~k.begun => Has(said, "step1")) /\ (k.begun => room = "ready")
    BY <1>4, <2>1, <2>2, <2>3 DEF Talks, Opens, Longer
  <2>9. \A i \in DOMAIN n.down : i # 1 => n.down[i].t # "open"
    BY <1>5, <2>3
  <2>10. \A i \in DOMAIN n.down : n.down[i].t \in {"step1", "ops"} => n.begun /\ n.down[i].ops \subseteq content
    BY <1>5, <2>4
  <2> QED
    BY <1>5, <2>2, <2>6, <2>7, <2>8, <2>9, <2>10 DEF Talks
<1>8. k.phase = "open" /\ k.closing => Has(rest, "close")
  BY <1>4 DEF Wired, Shorter
<1> QED
  BY <1>5, <1>6, <1>7, <1>8 DEF Wired

\* It edits, and sends the edits of a frame.
LEMMA EditsWire ==
    ASSUME NEW k, NEW mine, NEW edits, NEW status, NEW room, NEW content, NEW mine2, NEW edits2,
           Wired(k, mine, edits, status, room, content), mine \subseteq mine2,
           edits2 = IF status = "connected" THEN edits \cup (mine2 \ mine) ELSE edits
    PROVE  Wired(k, mine2, edits2, status, room, content)
<1>1. edits \subseteq edits2 /\ edits2 \subseteq mine2
  BY DEF Wired
<1>2. \A i \in DOMAIN k.up : k.up[i].ops \subseteq mine2
  BY DEF Wired
<1>3. ASSUME k.phase = "open", ~k.closing PROVE Talks(k, mine2, edits2, status, room, content)
  <2>1. Talks(k, mine, edits, status, room, content)
    BY <1>3 DEF Wired
  <2>2. k.begun /\ ~k.frozen => \/ Opens(k.down) \/ Has(k.up, "step1")
                                \/ \A e \in content : e \in mine2 \/ Carries(k.down, {"ops"}, e)
    BY <2>1 DEF Talks
  <2>3. k.begun /\ ~k.frozen /\ Can(k.role, "write") =>
              \/ Has(k.down, "step1")
              \/ \A e \in mine2 : e \in content \/ e \in edits2 \/ Carries(k.up, {"step2", "update"}, e)
    <3>1. CASE status = "connected"
      BY <1>1, <2>1, <3>1 DEF Talks
    <3>2. CASE status # "connected"
      BY <2>1, <3>2 DEF Talks
    <3> QED
      BY <3>1, <3>2
  <2> QED
    BY <2>1, <2>2, <2>3 DEF Talks
<1> QED
  BY <1>1, <1>2, <1>3 DEF Wired

LEMMA FlushesWire ==
    ASSUME NEW db, NEW k \in ConnRecord(db), NEW y \in UpMessage, NEW n, n = [k EXCEPT !.up = Append(k.up, y)],
           NEW mine, NEW edits, NEW status, NEW room, NEW content,
           y.t = "update", y.ops = edits, Wired(k, mine, edits, status, room, content)
    PROVE  Wired(n, mine, {}, status, room, content)
<1>1. PICK said : said = Append(k.up, y)
  OBVIOUS
<1>2. k.up \in Seq(UpMessage)
  BY DEF ConnRecord
<1>3. Longer(k.up, y, said)
  BY <1>1, <1>2, LongerWire
<1>4. /\ n.phase = k.phase /\ n.up = said /\ n.down = k.down /\ n.closing = k.closing /\ n.begun = k.begun
      /\ n.frozen = k.frozen /\ n.role = k.role
  BY <1>1 DEF ConnRecord
<1>5. \A i \in DOMAIN said : said[i].ops \subseteq mine
  BY <1>3 DEF Longer, Wired
<1>6. ASSUME k.phase = "open", ~k.closing PROVE Talks(n, mine, {}, status, room, content)
  <2>1. Talks(k, mine, edits, status, room, content)
    BY <1>6 DEF Wired
  <2>2. k.begun /\ ~k.frozen => \/ Opens(k.down) \/ Has(said, "step1")
                                \/ \A e \in content : e \in mine \/ Carries(k.down, {"ops"}, e)
    BY <1>3, <2>1 DEF Longer, Talks
  <2>3. k.begun /\ ~k.frozen /\ Can(k.role, "write") =>
              \/ Has(k.down, "step1")
              \/ \A e \in mine : e \in content \/ Carries(said, {"step2", "update"}, e)
    BY <1>3, <2>1 DEF Longer, Talks
  <2>4. Has(k.up, "step1") => Has(said, "step1")
    BY <1>3 DEF Longer
  <2> QED
    BY <1>4, <2>1, <2>2, <2>3, <2>4 DEF Talks
<1> QED
  BY <1>4, <1>5, <1>6 DEF Wired

\* Handlers never give a tab a second attempt.
LEMMA HandlersExclusive ==
    ASSUME NEW t \in TabRecord, Exclusive(t)
    PROVE  /\ t.timer => Exclusive(TimerFires(t)) /\ TimerFires(t).socket = NoSocket
           /\ t.socket # NoSocket => /\ Exclusive(SocketOpened(t)) /\ SocketOpened(t).socket = t.socket
                                     /\ SocketOpened(t).status = "connected"
           /\ t.socket # NoSocket => \A code : /\ Exclusive(SocketClosed(t, code))
                                               /\ SocketClosed(t, code).socket = NoSocket
           /\ Exclusive(Destroy(t)) /\ Destroy(t).socket = NoSocket
           /\ Exclusive(GoOffline(t)) /\ GoOffline(t).socket = NoSocket
           /\ ReconnectNow(t) = t \/ (Exclusive(ReconnectNow(t)) /\ ReconnectNow(t).socket = NoSocket)
           /\ t.connecting => /\ \A answer : /\ Exclusive(TicketAnswered(t, answer, NoSocket))
                                             /\ TicketAnswered(t, answer, NoSocket).socket = NoSocket
                              /\ ~Stopped(t) => \A k : /\ Exclusive(TicketAnswered(t, "ok", k))
                                                       /\ TicketAnswered(t, "ok", k).socket = k
<1> USE DEF TabRecord, NoSocket, Exclusive
<1>1. t.timer => Exclusive(TimerFires(t)) /\ TimerFires(t).socket = NoSocket
  BY DEF TimerFires, Connect, ClearReconnect, Retrying
<1>2. t.socket # NoSocket => /\ Exclusive(SocketOpened(t)) /\ SocketOpened(t).socket = t.socket
                             /\ SocketOpened(t).status = "connected"
  BY DEF SocketOpened
<1>3. ASSUME t.socket # NoSocket, NEW code
      PROVE  Exclusive(SocketClosed(t, code)) /\ SocketClosed(t, code).socket = NoSocket
  BY <1>3 DEF SocketClosed, CloseSocket, Deny, ClearReconnect, Connect, Retrying, ScheduleReconnect, Stopped
<1>4. Exclusive(Destroy(t)) /\ Destroy(t).socket = NoSocket
  BY DEF Destroy, CloseSocket, ClearReconnect
<1>5. Exclusive(GoOffline(t)) /\ GoOffline(t).socket = NoSocket
  BY DEF GoOffline, CloseSocket, ClearReconnect
<1>6. ReconnectNow(t) = t \/ (Exclusive(ReconnectNow(t)) /\ ReconnectNow(t).socket = NoSocket)
  BY DEF ReconnectNow, Connect, CloseSocket, ClearReconnect, Retrying
<1>7. ASSUME t.connecting, NEW answer
      PROVE  Exclusive(TicketAnswered(t, answer, NoSocket)) /\ TicketAnswered(t, answer, NoSocket).socket = NoSocket
  BY <1>7 DEF TicketAnswered, ScheduleReconnect, Retrying, Deny, ClearReconnect, Stopped
<1>8. ASSUME t.connecting, ~Stopped(t), NEW k
      PROVE  Exclusive(TicketAnswered(t, "ok", k)) /\ TicketAnswered(t, "ok", k).socket = k
  BY <1>8 DEF TicketAnswered, Stopped
<1> QED
  BY <1>1, <1>2, <1>3, <1>4, <1>5, <1>6, <1>7, <1>8

\* A tab lets go of its socket; its connection goes on without it.
LEMMA TabLetsGo ==
    ASSUME TransportInv, Types, LinkInv, NEW c \in Clients, NEW t, Exclusive(t), t.socket = NoSocket,
           tab' = [tab EXCEPT ![c] = t], \A k \in Conns : k # tab[c].socket => conn'[k] = conn[k],
           doc' = doc, pending' = pending, srv' = srv
    PROVE  LinkInv'
<1>1. \A d \in Clients : tab'[d] = IF d = c THEN t ELSE tab[d]
  BY DEF TransportInv
<1>2. \A k \in Conns : k # NoSocket
  BY SessionAssumption DEF SessionAssumption, NoSocket
<1>3. \A d \in Clients : Exclusive(tab'[d]) /\ pending'[d].edits \subseteq doc'[d]
  BY <1>1 DEF LinkInv
<1>4. \A d, j \in Clients : tab'[d].socket # NoSocket /\ tab'[d].socket = tab'[j].socket => d = j
  BY <1>1 DEF LinkInv
<1>5. ASSUME NEW d \in Clients, NEW k \in Conns, tab'[d].socket = k
      PROVE  Wired(conn'[k], doc'[d], pending'[d].edits, tab'[d].status, srv'.room, srv'.doc)
  <2>1. d # c /\ tab'[d] = tab[d] /\ tab[d].socket = k
    BY <1>1, <1>2, <1>5
  <2>2. k # tab[c].socket
    BY <1>2, <2>1 DEF LinkInv
  <2>3. conn'[k] = conn[k]
    BY <2>2
  <2> QED
    BY <2>1, <2>3 DEF LinkInv
<1> QED
  BY <1>3, <1>4, <1>5 DEF LinkInv

\* A tab goes on with its socket, or with a new one that is nobody else's.
GoesOn(c, k, t, n, mine, p) ==
    /\ \A d \in Clients : d # c => tab[d].socket # k
    /\ tab' = [tab EXCEPT ![c] = t] /\ conn' = [conn EXCEPT ![k] = n] /\ doc' = [doc EXCEPT ![c] = mine]
    /\ pending' = [pending EXCEPT ![c] = p] /\ srv' = srv
    /\ Exclusive(t) /\ t.socket = k /\ p.edits \subseteq mine
    /\ Wired(n, mine, p.edits, t.status, srv.room, srv.doc)

LEMMA TabGoesOn ==
    ASSUME TransportInv, Types, LinkInv, NEW c \in Clients, NEW k \in Conns, NEW t, NEW n, NEW mine, NEW p,
           GoesOn(c, k, t, n, mine, p)
    PROVE  LinkInv'
<1> USE DEF GoesOn
<1>1. \A d \in Clients : /\ tab'[d] = IF d = c THEN t ELSE tab[d]
                         /\ doc'[d] = IF d = c THEN mine ELSE doc[d]
                         /\ pending'[d] = IF d = c THEN p ELSE pending[d]
  BY DEF TransportInv, Types, ClientTypes
<1>2. \A j \in Conns : j # NoSocket /\ conn'[j] = IF j = k THEN n ELSE conn[j]
  BY SessionAssumption DEF SessionAssumption, NoSocket, Types, ServerTypes
<1>3. \A d \in Clients : Exclusive(tab'[d]) /\ pending'[d].edits \subseteq doc'[d]
  BY <1>1 DEF LinkInv
<1>4. \A d, j \in Clients : tab'[d].socket # NoSocket /\ tab'[d].socket = tab'[j].socket => d = j
  BY <1>1 DEF LinkInv
<1>5. ASSUME NEW d \in Clients, NEW j \in Conns, tab'[d].socket = j
      PROVE  Wired(conn'[j], doc'[d], pending'[d].edits, tab'[d].status, srv'.room, srv'.doc)
  <2>1. CASE d = c
    BY <1>1, <1>2, <1>5, <2>1
  <2>2. CASE d # c
    <3>1. tab[d].socket = j /\ j # k
      BY <1>1, <1>5, <2>2
    <3> QED
      BY <1>1, <1>2, <2>2, <3>1 DEF LinkInv
  <2> QED
    BY <2>1, <2>2
<1> QED
  BY <1>3, <1>4, <1>5 DEF LinkInv

LEMMA ClientsKeepLinks ==
    ASSUME TransportInv, Types, LinkInv, NEW c \in Clients,
           \/ FlushFrame(c) \/ Receive(c) \/ ReconnectTimer(c) \/ NetworkChanges(c) \/ LeavePage(c)
           \/ \E answer \in {"ok", "forbidden", "not_found", "error"} : TicketArrives(c, answer)
           \/ \E e \in Edits : Edit(c, e)
    PROVE  LinkInv'
<1>1. /\ tab[c] \in TabRecord /\ Exclusive(tab[c]) /\ tab[c].socket \in Conns \cup {NoSocket}
      /\ tab = [tab EXCEPT ![c] = tab[c]]
  BY DEF TransportInv, Types, LinkInv
<1>2. \A k \in Conns : k # NoSocket /\ (tab[c].socket = k => \A d \in Clients : d # c => tab[d].socket # k)
  BY SessionAssumption DEF SessionAssumption, NoSocket, LinkInv
<1>3. \A k \in Conns : tab[c].socket = k =>
         /\ Wired(conn[k], doc[c], pending[c].edits, tab[c].status, srv.room, srv.doc)
         /\ conn[k] \in ConnRecord(stored) /\ conn = [conn EXCEPT ![k] = conn[k]]
  BY DEF LinkInv, Types, ServerTypes
<1>4. /\ doc[c] \subseteq Edits /\ doc = [doc EXCEPT ![c] = doc[c]] /\ pending = [pending EXCEPT ![c] = pending[c]]
      /\ pending[c].edits \subseteq doc[c] /\ pending[c] \in [edits : SUBSET Edits, scheduled : BOOLEAN]
  BY DEF Types, ClientTypes, LinkInv
\* Without a socket there is no connection that the tab's document has to be in step with.
<1>5. ASSUME tab[c].socket = NoSocket, NEW mine, NEW p, p.edits \subseteq mine, UNCHANGED <<tab, conn, srv>>,
             doc' = [doc EXCEPT ![c] = mine], pending' = [pending EXCEPT ![c] = p]
      PROVE  LinkInv'
  <2>1. \A d \in Clients : /\ doc'[d] = IF d = c THEN mine ELSE doc[d]
                           /\ pending'[d] = IF d = c THEN p ELSE pending[d]
    BY <1>5 DEF Types, ClientTypes
  <2>2. \A d \in Clients : Exclusive(tab'[d]) /\ pending'[d].edits \subseteq doc'[d]
    BY <1>5, <2>1 DEF LinkInv
  <2>3. \A d \in Clients, k \in Conns : tab'[d].socket = k =>
          Wired(conn'[k], doc'[d], pending'[d].edits, tab'[d].status, srv'.room, srv'.doc)
    BY <1>2, <1>5, <2>1 DEF LinkInv
  <2> QED
    BY <1>5, <2>2, <2>3 DEF LinkInv
<1>6. ASSUME NEW e \in Edits, Edit(c, e) PROVE LinkInv'
  <2>1. PICK mine, p : /\ mine = doc[c] \cup {e}
                       /\ p = IF tab[c].status = "connected"
                              THEN [edits |-> pending[c].edits \cup {e}, scheduled |-> TRUE] ELSE pending[c]
    OBVIOUS
  <2>2. /\ UNCHANGED <<tab, conn, srv>> /\ doc' = [doc EXCEPT ![c] = mine] /\ pending' = [pending EXCEPT ![c] = p]
        /\ e \notin doc[c]
    BY <1>4, <1>6, <2>1 DEF Edit
  <2>3. p.edits \subseteq mine /\ p.edits = IF tab[c].status = "connected" THEN pending[c].edits \cup (mine \ doc[c])
                                            ELSE pending[c].edits
    BY <1>4, <2>1, <2>2
  <2>4. CASE tab[c].socket = NoSocket
    BY <1>5, <2>2, <2>3, <2>4
  <2>5. CASE tab[c].socket # NoSocket
    <3>1. PICK k \in Conns : k = tab[c].socket
      BY <1>1, <2>5
    <3>2. Wired(conn[k], mine, p.edits, tab[c].status, srv.room, srv.doc)
      BY <1>3, <2>1, <2>3, <3>1, EditsWire
    <3>3. tab' = [tab EXCEPT ![c] = tab[c]] /\ conn' = [conn EXCEPT ![k] = conn[k]]
      BY <1>1, <1>3, <2>2, <3>1
    <3>9. GoesOn(c, k, tab[c], conn[k], mine, p)
      BY <1>1, <1>2, <2>2, <2>3, <3>1, <3>2, <3>3 DEF GoesOn
    <3> QED
      BY <3>9, TabGoesOn
  <2> QED
    BY <2>4, <2>5
<1>7. ASSUME FlushFrame(c) PROVE LinkInv'
  <2>1. PICK p : p = [edits |-> {}, scheduled |-> FALSE]
    OBVIOUS
  <2>2. /\ UNCHANGED <<tab, doc, srv>> /\ pending' = [pending EXCEPT ![c] = p] /\ p.edits = {}
        /\ doc' = [doc EXCEPT ![c] = doc[c]] /\ tab' = [tab EXCEPT ![c] = tab[c]]
        /\ conn' = IF pending[c].edits = {} THEN conn
                   ELSE SendUp(c, [t |-> "update", ops |-> pending[c].edits])
    BY <1>1, <1>4, <1>7, <2>1 DEF FlushFrame
  <2>3. CASE tab[c].socket = NoSocket
    <3>1. UNCHANGED conn
      BY <2>2, <2>3 DEF SendUp
    <3> QED
      BY <1>5, <2>2, <2>3, <3>1
  <2>4. CASE tab[c].socket # NoSocket
    <3>1. PICK k \in Conns : k = tab[c].socket
      BY <1>1, <2>4
    <3>2. CASE pending[c].edits # {} /\ tab[c].status = "connected"
      <4>1. PICK y : y = [t |-> "update", ops |-> pending[c].edits]
        OBVIOUS
      <4>2. y \in UpMessage /\ y.t = "update" /\ y.ops = pending[c].edits
        BY <1>4, <4>1 DEF UpMessage
      <4>3. PICK n : n = [conn[k] EXCEPT !.up = Append(conn[k].up, y)]
        OBVIOUS
      <4>4. conn' = [conn EXCEPT ![k] = n]
        BY <2>2, <2>4, <3>1, <3>2, <4>1, <4>3 DEF SendUp
      <4>5. Wired(n, doc[c], p.edits, tab[c].status, srv.room, srv.doc)
        <5>1. PICK one, edits : one = conn[k] /\ edits = pending[c].edits
          OBVIOUS
        <5>2. one \in ConnRecord(stored) /\ Wired(one, doc[c], edits, tab[c].status, srv.room, srv.doc)
          BY <1>3, <3>1, <5>1
        <5>3. n = [one EXCEPT !.up = Append(one.up, y)] /\ y.ops = edits
          BY <4>2, <4>3, <5>1
        <5>4. Wired(n, doc[c], {}, tab[c].status, srv.room, srv.doc)
          BY <4>2, <5>2, <5>3, FlushesWire
        <5> QED
          BY <2>2, <5>4
      <4>9. GoesOn(c, k, tab[c], n, doc[c], p)
        BY <1>1, <1>2, <2>2, <3>1, <4>4, <4>5 DEF GoesOn
      <4> QED
        BY <4>9, TabGoesOn
    <3>3. CASE ~(pending[c].edits # {} /\ tab[c].status = "connected")
      <4>1. conn' = conn
        BY <2>2, <3>3 DEF SendUp
      <4>2. Wired(conn[k], doc[c], p.edits, tab[c].status, srv.room, srv.doc)
        <5>1. Wired(conn[k], doc[c], pending[c].edits, tab[c].status, srv.room, srv.doc)
          BY <1>3, <3>1
        <5> QED
          BY <2>2, <3>3, <5>1 DEF Wired, Talks
      <4>9. GoesOn(c, k, tab[c], conn[k], doc[c], p)
        BY <1>1, <1>2, <1>3, <2>2, <3>1, <4>1, <4>2 DEF GoesOn
      <4> QED
        BY <4>9, TabGoesOn
    <3> QED
      BY <3>2, <3>3
  <2> QED
    BY <2>3, <2>4
<1>10. ASSUME Receive(c) PROVE LinkInv'
  <2>1. PICK k \in Conns : k = tab[c].socket
    BY <1>1, <1>10 DEF Receive
  <2>2. PICK x : x = Head(conn[k].down)
    OBVIOUS
  <2>3. /\ conn[k].down # <<>> /\ srv' = srv /\ tab[c].socket # NoSocket
        /\ tab' = [tab EXCEPT ![c] = CASE x.t = "open" -> SocketOpened(@)
                                       [] x.t = "close" -> SocketClosed(@, x.code)
                                       [] OTHER -> @]
        /\ pending' = IF x.t = "open" THEN [pending EXCEPT ![c].edits = {}] ELSE pending
        /\ doc' = IF x.t = "ops" THEN [doc EXCEPT ![c] = @ \cup x.ops] ELSE doc
    BY <1>10, <2>1, <2>2 DEF Receive
  <2>4. conn[k] \in ConnRecord(stored) /\ x \in DownMessage(stored)
    <3>1. conn[k] \in ConnRecord(stored) /\ conn[k].down \in Seq(DownMessage(stored))
      BY <1>3, <2>1 DEF ConnRecord
    <3> QED
      BY <2>2, <2>3, <3>1, HeadTailProperties
  <2>5. Wired(conn[k], doc[c], pending[c].edits, tab[c].status, srv.room, srv.doc)
    BY <1>3, <2>1
  <2>6. CASE x.t = "open"
    <3>1. PICK y : y = [t |-> "step1", ops |-> Vector(doc[c])]
      OBVIOUS
    <3>2. y \in UpMessage /\ y.t = "step1" /\ y.ops \subseteq doc[c]
      BY <1>4, <3>1 DEF UpMessage, Vector
    <3>3. PICK n : n = Reply(conn[k], y)
      OBVIOUS
    <3>4. conn' = [conn EXCEPT ![k] = n]
      <4>1. conn' = [[conn EXCEPT ![k].down = Tail(@)] EXCEPT ![k].up = Append(@, y)]
        BY <1>10, <2>1, <2>2, <2>6, <3>1 DEF Receive
      <4> QED
        BY <2>4, <3>3, <4>1 DEF Reply, ConnRecord, Types, ServerTypes
    <3>5. PICK t, p : t = SocketOpened(tab[c]) /\ p = [pending[c] EXCEPT !.edits = {}]
      OBVIOUS
    <3>6. /\ tab' = [tab EXCEPT ![c] = t] /\ pending' = [pending EXCEPT ![c] = p] /\ doc' = [doc EXCEPT ![c] = doc[c]]
          /\ p.edits = {}
      BY <1>4, <2>3, <2>6, <3>5
    <3>7. Exclusive(t) /\ t.socket = k /\ t.status = "connected"
      BY <1>1, <2>1, <2>3, <3>5, HandlersExclusive
    <3>8. Wired(n, doc[c], {}, "connected", srv.room, srv.doc)
      <4>1. PICK one : one = conn[k]
        OBVIOUS
      <4>2. /\ one \in ConnRecord(stored) /\ one.down # <<>> /\ x = Head(one.down)
            /\ Wired(one, doc[c], pending[c].edits, tab[c].status, srv.room, srv.doc)
            /\ n = Reply(one, y)
        BY <2>2, <2>3, <2>4, <2>5, <3>3, <4>1
      <4> QED
        BY <2>6, <3>2, <4>2, OpensWire
    <3>9. GoesOn(c, k, t, n, doc[c], p)
      BY <1>2, <2>1, <2>3, <3>4, <3>6, <3>7, <3>8 DEF GoesOn
    <3> QED
      BY <3>9, TabGoesOn
  <2>7. CASE x.t = "close"
    <3>1. PICK t : t = SocketClosed(tab[c], x.code)
      OBVIOUS
    <3>2. tab' = [tab EXCEPT ![c] = t] /\ UNCHANGED <<doc, pending>>
      BY <2>3, <2>7, <3>1
    <3>3. Exclusive(t) /\ t.socket = NoSocket
      BY <1>1, <2>3, <3>1, HandlersExclusive
    <3>4. \A j \in Conns : j # tab[c].socket => conn'[j] = conn[j]
      <4>1. conn' = [conn EXCEPT ![k].down = Tail(@)]
        BY <1>10, <2>1, <2>2, <2>7 DEF Receive
      <4> QED
        BY <2>1, <4>1 DEF Types, ServerTypes
    <3> QED
      BY <2>3, <3>2, <3>3, <3>4, TabLetsGo
  <2>8. CASE x.t = "step1"
    <3>1. PICK y : y = [t |-> "step2", ops |-> doc[c] \ x.ops]
      OBVIOUS
    <3>2. y \in UpMessage /\ y.t = "step2" /\ y.ops = doc[c] \ x.ops
      BY <1>4, <3>1 DEF UpMessage
    <3>3. PICK n : n = Reply(conn[k], y)
      OBVIOUS
    <3>4. conn' = [conn EXCEPT ![k] = n]
      <4>1. conn' = [[conn EXCEPT ![k].down = Tail(@)] EXCEPT ![k].up = Append(@, y)]
        BY <1>10, <2>1, <2>2, <2>8, <3>1 DEF Receive, Missing
      <4> QED
        BY <2>4, <3>3, <4>1 DEF Reply, ConnRecord, Types, ServerTypes
    <3>5. Wired(n, doc[c], pending[c].edits, tab[c].status, srv.room, srv.doc)
      <4>1. PICK one : one = conn[k]
        OBVIOUS
      <4>2. /\ one \in ConnRecord(stored) /\ one.down # <<>> /\ x = Head(one.down)
            /\ Wired(one, doc[c], pending[c].edits, tab[c].status, srv.room, srv.doc)
            /\ n = Reply(one, y)
        BY <2>2, <2>3, <2>4, <2>5, <3>3, <4>1
      <4> QED
        BY <2>8, <3>2, <4>2, AnswersWire
    <3>6. /\ tab' = [tab EXCEPT ![c] = tab[c]] /\ pending' = [pending EXCEPT ![c] = pending[c]]
          /\ doc' = [doc EXCEPT ![c] = doc[c]]
      BY <1>1, <1>4, <2>3, <2>8
    <3>9. GoesOn(c, k, tab[c], n, doc[c], pending[c])
      BY <1>1, <1>2, <1>4, <2>1, <2>3, <3>4, <3>5, <3>6 DEF GoesOn
    <3> QED
      BY <3>9, TabGoesOn
  <2>9. CASE x.t \in {"ops", "persisted"}
    <3>1. PICK mine : mine = IF x.t = "ops" THEN doc[c] \cup x.ops ELSE doc[c]
      OBVIOUS
    <3>2. PICK n : n = [conn[k] EXCEPT !.down = Tail(conn[k].down)]
      OBVIOUS
    <3>3. conn' = [conn EXCEPT ![k] = n]
      BY <1>10, <2>1, <2>2, <2>9, <3>2 DEF Receive
    <3>4. Wired(n, mine, pending[c].edits, tab[c].status, srv.room, srv.doc)
      BY <2>2, <2>3, <2>4, <2>5, <2>9, <3>1, <3>2, HearsWire
    <3>5. /\ tab' = [tab EXCEPT ![c] = tab[c]] /\ pending' = [pending EXCEPT ![c] = pending[c]]
          /\ doc' = [doc EXCEPT ![c] = mine] /\ pending[c].edits \subseteq mine
      BY <1>1, <1>4, <2>3, <2>9, <3>1
    <3>9. GoesOn(c, k, tab[c], n, mine, pending[c])
      BY <1>1, <1>2, <2>1, <2>3, <3>3, <3>4, <3>5 DEF GoesOn
    <3> QED
      BY <3>9, TabGoesOn
  <2> QED
    BY <2>4, <2>6, <2>7, <2>8, <2>9 DEF DownMessage
<1>8. ASSUME ReconnectTimer(c) \/ NetworkChanges(c) \/ LeavePage(c) PROVE LinkInv'
  <2>1. PICK t : /\ tab' = [tab EXCEPT ![c] = t]
                 /\ \/ tab[c].timer /\ t = TimerFires(tab[c])
                    \/ t \in {GoOffline(tab[c]), ReconnectNow(tab[c]), Destroy(tab[c])}
    BY <1>8 DEF ReconnectTimer, NetworkChanges, LeavePage
  <2>2. t = tab[c] \/ (Exclusive(t) /\ t.socket = NoSocket)
    BY <1>1, <2>1, HandlersExclusive
  <2>3. UNCHANGED <<doc, pending, conn, srv>>
    BY <1>8 DEF ReconnectTimer, NetworkChanges, LeavePage
  <2>4. CASE t = tab[c]
    BY <1>1, <2>1, <2>3, <2>4 DEF LinkInv
  <2>5. CASE Exclusive(t) /\ t.socket = NoSocket
    BY <2>1, <2>3, <2>5, TabLetsGo
  <2> QED
    BY <2>2, <2>4, <2>5
<1>9. ASSUME NEW answer \in {"ok", "forbidden", "not_found", "error"}, TicketArrives(c, answer) PROVE LinkInv'
  <2>1. tab[c].connecting /\ UNCHANGED <<doc, pending, srv>>
    BY <1>9 DEF TicketArrives
  <2>2. CASE answer = "ok" /\ ~Stopped(tab[c])
    <3> DEFINE idle == {k \in Conns : conn[k].phase = "gone" /\ ~Attached(k)}
               k == CHOOSE k \in idle : \A j \in idle : k <= j
               new == [Free EXCEPT !.tab = c, !.claims = Ticket(c),
                                   !.phase = IF srv.mode = "up" THEN "upgrading" ELSE "gone",
                                   !.down = IF srv.mode = "up" THEN <<>> ELSE Abnormal]
    <3>1. /\ idle # {} /\ tab' = [tab EXCEPT ![c] = TicketAnswered(tab[c], "ok", k)]
          /\ conn' = [conn EXCEPT ![k] = new]
      BY <1>9, <2>2 DEF TicketArrives
    <3>2. k \in idle
      BY <3>1, SessionAssumption, FreeSlot
    <3>3. k \in Conns /\ \A d \in Clients : tab[d].socket # k
      BY <3>2 DEF Attached
    <3>4. new.up = <<>> /\ new.phase # "open" /\ ~new.begun /\ ~new.closing
      BY DEF Free
    <3> HIDE DEF k, new
    <3>5. PICK t : t = TicketAnswered(tab[c], "ok", k)
      OBVIOUS
    <3>6. Exclusive(t) /\ t.socket = k
      BY <1>1, <2>1, <2>2, <3>5, HandlersExclusive
    <3>7. Wired(new, doc[c], pending[c].edits, t.status, srv.room, srv.doc)
      BY <1>4, <3>4, Idles
    <3>8. /\ tab' = [tab EXCEPT ![c] = t] /\ doc' = [doc EXCEPT ![c] = doc[c]]
          /\ pending' = [pending EXCEPT ![c] = pending[c]] /\ srv' = srv
      BY <1>4, <2>1, <3>1, <3>5
    <3> HIDE DEF idle
    <3>9. GoesOn(c, k, t, new, doc[c], pending[c])
      BY <1>4, <3>1, <3>3, <3>6, <3>7, <3>8 DEF GoesOn
    <3> QED
      BY <3>3, <3>9, TabGoesOn
  <2>3. CASE ~(answer = "ok" /\ ~Stopped(tab[c]))
    <3>1. PICK t : t = TicketAnswered(tab[c], answer, NoSocket)
      OBVIOUS
    <3>2. tab' = [tab EXCEPT ![c] = t] /\ UNCHANGED conn
      BY <1>9, <2>3, <3>1 DEF TicketArrives
    <3>3. Exclusive(t) /\ t.socket = NoSocket
      BY <1>1, <2>1, <3>1, HandlersExclusive
    <3> QED
      BY <2>1, <3>2, <3>3, TabLetsGo
  <2> QED
    BY <2>2, <2>3
<1> QED
  BY <1>6, <1>7, <1>8, <1>9, <1>10

-----------------------------------------------------------------------------
(* The server's side of it. *)

\* A step of the server that keeps every tab's connection in step keeps them all.
LEMMA ServerLinks ==
    ASSUME LinkInv, UNCHANGED clientVars,
           \A c \in Clients, k \in Conns :
             tab[c].socket = k /\ Wired(conn[k], doc[c], pending[c].edits, tab[c].status, srv.room, srv.doc)
             => Wired(conn'[k], doc[c], pending[c].edits, tab[c].status, srv'.room, srv'.doc)
    PROVE  LinkInv'
  BY DEF LinkInv, clientVars

LEMMA SentWire ==
    ASSUME NEW S, NEW q \in Seq(S), NEW x \in S, NEW y \in S
    PROVE  /\ q \o <<x>> = Append(q, x)
           /\ q \o <<x, y>> = Append(Append(q, x), y)
  OBVIOUS

LEMMA OverIdles ==
    ASSUME NEW k \in Conns, NEW last, NEW mine, NEW edits, NEW status, NEW room, NEW content, edits \subseteq mine
    PROVE  Wired(Over(k, last), mine, edits, status, room, content)
<1>1. /\ Over(k, last).up = <<>> /\ Over(k, last).phase = "gone"
      /\ ~Over(k, last).begun /\ ~Over(k, last).closing
  BY DEF Over, Free
<1> QED
  BY <1>1, Idles

\* An acknowledgement, or what someone else wrote, is sent to everyone in the room.
LEMMA SentKeepsWire ==
    ASSUME NEW db, NEW cs, NEW k \in Conns, cs[k] \in ConnRecord(db), NEW x \in DownMessage(db), Attached(k),
           NEW mine, NEW edits, NEW status, NEW room, NEW content, NEW content2, content \subseteq content2,
           Wired(cs[k], mine, edits, status, room, content),
           \/ x.t = "persisted" /\ content2 = content
           \/ x.t = "ops" /\ x.ops \subseteq content2 /\ content2 \ content \subseteq x.ops
    PROVE  Wired(Send(cs, k, <<x>>), mine, edits, status, room, content2)
<1>1. CASE cs[k].phase = "open" /\ cs[k].begun /\ ~cs[k].closing
  <2>1. PICK one, n : one = cs[k] /\ n = [one EXCEPT !.down = Append(one.down, x)]
    OBVIOUS
  <2>2. one.down \in Seq(DownMessage(db))
    BY <2>1 DEF ConnRecord
  <2>3. one.down \o <<x>> = Append(one.down, x)
    BY <2>2, SentWire
  <2>4. Send(cs, k, <<x>>) = n
    BY <1>1, <2>1, <2>3 DEF Send
  <2>5. Wired(n, mine, edits, status, room, content2)
    BY <1>1, <2>1, SendsWire
  <2> QED
    BY <2>4, <2>5
<1>2. CASE ~(cs[k].phase = "open" /\ cs[k].begun /\ ~cs[k].closing)
  BY <1>2, Elsewhere DEF Send
<1> QED
  BY <1>1, <1>2

\* The handshake starts on a connection of a room that has loaded.
LEMMA BegunKeepsWire ==
    ASSUME NEW cs \in [Conns -> ConnRecord(stored)], NEW k \in Conns, Attached(k), cs[k].phase = "open", ~cs[k].begun,
           NEW mine, NEW edits, NEW status, NEW room, NEW content, NEW content2 \in SUBSET Edits, stored \subseteq Edits,
           Wired(cs[k], mine, edits, status, room, content)
    PROVE  Wired(BeginSync(cs, k, content2), mine, edits, status, "ready", content2)
<1>1. PICK one, x, y : /\ one = cs[k] /\ x = [t |-> "step1", ops |-> Vector(content2)]
                       /\ y = [t |-> "persisted", ops |-> Vector(stored)]
  OBVIOUS
<1>2. /\ x \in DownMessage(stored) /\ y \in DownMessage(stored)
      /\ x.t = "step1" /\ x.ops \subseteq content2 /\ y.t = "persisted"
  BY <1>1 DEF DownMessage, Vector
<1>3. one \in ConnRecord(stored) /\ one.down \in Seq(DownMessage(stored))
  BY <1>1 DEF ConnRecord
<1>4. PICK begun : begun = [cs EXCEPT ![k].begun = TRUE]
  OBVIOUS
<1>5. begun[k] = [one EXCEPT !.begun = TRUE]
  BY <1>1, <1>4
<1>6. /\ BeginSync(cs, k, content2) = Send(begun, k, <<x, y>>)
      /\ begun[k].phase = "open" /\ begun[k].begun /\ begun[k].closing = one.closing /\ begun[k].down = one.down
  BY <1>1, <1>3, <1>4, <1>5 DEF BeginSync, ConnRecord
<1>7. CASE one.closing
  <2>1. BeginSync(cs, k, content2) = begun[k]
    BY <1>6, <1>7 DEF Send
  <2>2. begun[k].up = one.up
    BY <1>3, <1>5 DEF ConnRecord
  <2> QED
    BY <1>1, <1>6, <1>7, <2>1, <2>2 DEF Wired
<1>8. CASE ~one.closing
  <2>1. PICK n : n = [one EXCEPT !.begun = TRUE, !.down = Append(Append(one.down, x), y)]
    OBVIOUS
  <2>2. one.down \o <<x, y>> = Append(Append(one.down, x), y)
    BY <1>2, <1>3, SentWire
  <2>3. Send(begun, k, <<x, y>>) = n
    BY <1>3, <1>5, <1>6, <1>8, <2>1, <2>2 DEF Send, ConnRecord
  <2>4. Wired(one, mine, edits, status, room, content) /\ one.phase = "open" /\ ~one.begun
    BY <1>1
  <2>5. Wired(n, mine, edits, status, "ready", content2)
    BY <1>2, <1>3, <1>8, <2>1, <2>4, BeginsWire
  <2> QED
    BY <1>6, <2>3, <2>5
<1> QED
  BY <1>7, <1>8

\* A connection of the room handles its next message.
LEMMA HandledKeepsLinks ==
    ASSUME Types, LinkInv, NEW k \in Conns, HandleMessage(k)
    PROVE  LinkInv'
<1>0. PICK msg, news : msg = Head(conn[k].up) /\ news = msg.ops \ srv.doc
  OBVIOUS
<1>1. PICK writes \in BOOLEAN :
        /\ msg = Head(conn[k].up) /\ news = msg.ops \ srv.doc
        /\ writes <=> ~conn[k].frozen /\ msg.t # "step1" /\ Can(conn[k].role, "write") /\ news # {}
  BY <1>0
<1>2. PICK rest : rest = [conn EXCEPT ![k].up = Tail(@)]
  OBVIOUS
<1>3. PICK x, y : /\ x = [t |-> "ops", ops |-> news] /\ y = [t |-> "ops", ops |-> srv.doc \ msg.ops]
  OBVIOUS
<1>4. /\ conn[k].phase = "open" /\ conn[k].begun /\ conn[k].up # <<>> /\ UNCHANGED clientVars
      /\ srv' = IF writes THEN [srv EXCEPT !.doc = @ \cup news] ELSE srv
      /\ writes => conn' = SendAll(rest, k, x)
      /\ ~writes => conn' = IF msg.t = "step1" /\ ~conn[k].frozen THEN [rest EXCEPT ![k] = Send(rest, k, <<y>>)]
                            ELSE rest
  BY <1>1, <1>2, <1>3 DEF HandleMessage, Missing
<1>5. /\ conn \in [Conns -> ConnRecord(stored)] /\ srv.doc \subseteq Edits
      /\ srv'.room = srv.room /\ srv'.doc = IF writes THEN srv.doc \cup news ELSE srv.doc
  BY <1>4 DEF Types, ServerTypes
<1>6. conn[k].up \in Seq(UpMessage) /\ conn[k] \in ConnRecord(stored)
  BY <1>5 DEF ConnRecord
<1>7. msg \in UpMessage /\ msg.ops \subseteq Edits /\ Tail(conn[k].up) \in Seq(UpMessage)
  <2>1. msg \in UpMessage /\ Tail(conn[k].up) \in Seq(UpMessage)
    BY <1>1, <1>4, <1>6, HeadTailProperties
  <2> QED
    BY <2>1 DEF UpMessage
<1>8. /\ x \in DownMessage(stored) /\ x.t = "ops" /\ x.ops = news
      /\ y \in DownMessage(stored) /\ y.t = "ops" /\ y.ops = srv.doc \ msg.ops
  BY <1>1, <1>3, <1>5, <1>7 DEF DownMessage
<1>9. \A j \in Conns : rest[j] = IF j = k THEN [conn[k] EXCEPT !.up = Tail(conn[k].up)] ELSE conn[j]
  BY <1>2, <1>5
<1>10. SUFFICES ASSUME NEW c \in Clients, NEW j \in Conns, tab[c].socket = j,
                       Wired(conn[j], doc[c], pending[c].edits, tab[c].status, srv.room, srv.doc)
                PROVE  Wired(conn'[j], doc[c], pending[c].edits, tab[c].status, srv'.room, srv'.doc)
  BY <1>4, ServerLinks
<1>11. Attached(j)
  BY <1>10 DEF Attached
<1>12. CASE j # k
  <2>1. conn[j] \in ConnRecord(stored) /\ rest[j] = conn[j]
    BY <1>5, <1>9, <1>12
  <2>2. CASE writes
    <3>1. conn'[j] = Send(rest, j, <<x>>)
      <4>1. conn' = SendAll(rest, k, x)
        BY <1>4, <2>2
      <4> QED
        BY <1>12, <4>1 DEF SendAll
    <3>2. srv.doc \subseteq srv'.doc /\ x.ops \subseteq srv'.doc /\ srv'.doc \ srv.doc \subseteq x.ops
      BY <1>5, <1>8, <2>2
    <3>3. Wired(Send(rest, j, <<x>>), doc[c], pending[c].edits, tab[c].status, srv.room, srv'.doc)
      BY <1>8, <1>10, <1>11, <2>1, <3>2, SentKeepsWire
    <3> QED
      BY <1>5, <3>1, <3>3
  <2>3. CASE ~writes
    <3>1. conn'[j] = conn[j]
      BY <1>2, <1>4, <1>5, <1>12, <2>1, <2>3
    <3> QED
      BY <1>5, <1>10, <2>3, <3>1
  <2> QED
    BY <2>2, <2>3
<1>13. CASE j = k
  <2>1. PICK one, n : one = conn[k] /\ n = [one EXCEPT !.up = Tail(one.up)]
    OBVIOUS
  <2>2. /\ one \in ConnRecord(stored) /\ one.phase = "open" /\ one.begun /\ one.up # <<>> /\ msg = Head(one.up)
        /\ Wired(one, doc[c], pending[c].edits, tab[c].status, srv.room, srv.doc) /\ rest[k] = n
    BY <1>1, <1>4, <1>6, <1>9, <1>10, <1>13, <2>1
  <2>3. CASE one.closing
    <3>1. conn'[j] = n
      <4>1. CASE writes
        <5>1. conn' = SendAll(rest, k, x)
          BY <1>4, <4>1
        <5> QED
          BY <1>13, <2>2, <5>1 DEF SendAll
      <4>2. CASE ~writes
        <5>1. n.closing
          BY <2>1, <2>2, <2>3 DEF ConnRecord
        <5>2. Send(rest, k, <<y>>) = n
          BY <2>2, <5>1 DEF Send
        <5>3. conn' = [rest EXCEPT ![k] = n] \/ conn' = rest
          BY <1>4, <4>2, <5>2
        <5> QED
          BY <1>2, <1>5, <1>13, <2>2, <5>3
      <4> QED
        BY <4>1, <4>2
    <3>2. n.up = Tail(one.up) /\ n.phase = one.phase /\ n.down = one.down /\ n.closing
      BY <2>1, <2>2, <2>3 DEF ConnRecord
    <3>3. \A i \in DOMAIN n.up : n.up[i].ops \subseteq doc[c]
      <4>1. PICK said : said = Tail(one.up)
        OBVIOUS
      <4>2. Shorter(one.up, msg, said)
        BY <1>6, <2>1, <2>2, <4>1, ShorterWire
      <4>3. \A i \in DOMAIN said : said[i].ops \subseteq doc[c]
        BY <2>2, <4>2 DEF Shorter, Wired
      <4> QED
        BY <3>2, <4>1, <4>3
    <3> QED
      BY <2>2, <2>3, <3>1, <3>2, <3>3 DEF Wired
  <2>4. CASE ~one.closing /\ msg.t = "step1" /\ ~one.frozen
    <3>1. PICK m : m = Replied(one, y)
      OBVIOUS
    <3>2. one.down \o <<y>> = Append(one.down, y)
      <4>1. one.down \in Seq(DownMessage(stored))
        BY <2>2 DEF ConnRecord
      <4> QED
        BY <1>8, <4>1, SentWire
    <3>3. ~writes /\ n.phase = "open" /\ n.begun /\ ~n.closing /\ n.down = one.down
      BY <1>1, <2>1, <2>2, <2>4 DEF ConnRecord
    <3>4. Send(rest, k, <<y>>) = [n EXCEPT !.down = n.down \o <<y>>]
      BY <1>11, <1>13, <2>2, <3>3 DEF Send
    <3>5. Send(rest, k, <<y>>) = m
      <4>1. PICK wire : wire = Append(one.down, y)
        OBVIOUS
      <4>2. Send(rest, k, <<y>>) = [n EXCEPT !.down = wire]
        BY <3>2, <3>3, <3>4, <4>1
      <4>3. n = [one EXCEPT !.up = Tail(one.up)] /\ m = [one EXCEPT !.up = Tail(one.up), !.down = wire]
        BY <2>1, <3>1, <4>1 DEF Replied
      <4> QED
        BY <2>2, <4>2, <4>3 DEF ConnRecord
    <3>6. conn' = [rest EXCEPT ![k] = Send(rest, k, <<y>>)]
      BY <1>4, <2>1, <2>4, <3>3
    <3>7. conn'[j] = m
      BY <1>2, <1>5, <1>13, <3>5, <3>6
    <3>8. Wired(m, doc[c], pending[c].edits, tab[c].status, srv.room, srv.doc)
      BY <1>8, <2>2, <2>4, <3>1, RepliesWire
    <3> QED
      BY <1>5, <3>3, <3>7, <3>8
  <2>5. CASE ~one.closing /\ ~(msg.t = "step1" /\ ~one.frozen)
    <3>1. conn'[j] = n
      <4>1. CASE writes
        <5>1. conn' = SendAll(rest, k, x)
          BY <1>4, <4>1
        <5> QED
          BY <1>13, <2>2, <5>1 DEF SendAll
      <4>2. CASE ~writes
        BY <1>4, <1>13, <2>1, <2>2, <2>5, <4>2
      <4> QED
        BY <4>1, <4>2
    <3>2. PICK after : after = srv'.doc
      OBVIOUS
    <3>3. Heard(one, msg, srv.doc, after)
      BY <1>1, <1>5, <2>1, <2>5, <3>2 DEF Heard
    <3>4. Wired(n, doc[c], pending[c].edits, tab[c].status, srv.room, after)
      BY <2>1, <2>2, <2>5, <3>3, HandlesWire
    <3> QED
      BY <1>5, <3>1, <3>2, <3>4
  <2> QED
    BY <2>3, <2>4, <2>5
<1> QED
  BY <1>12, <1>13

\* A connection closes, or what it said is not heard.
LEMMA CodesAreSent ==
    ASSUME NEW db, NEW code \in Codes
    PROVE  [t |-> "close", code |-> code] \in DownMessage(db)
  BY DEF DownMessage

LEMMA ClosedKeepsWire ==
    ASSUME NEW db, NEW k \in ConnRecord(db), NEW code \in Codes,
           NEW mine, NEW edits, NEW status, NEW room, NEW content, NEW room2, NEW content2,
           Wired(k, mine, edits, status, room, content)
    PROVE  Wired(Close(k, code), mine, edits, status, room2, content2)
<1>1. [t |-> "close", code |-> code] \in DownMessage(db) /\ k.down \in Seq(DownMessage(db))
  BY CodesAreSent DEF ConnRecord
<1>2. PICK n : n = Close(k, code)
  OBVIOUS
<1>3. Wired(n, mine, edits, status, room2, content2)
  BY <1>1, <1>2, ClosesWire
<1> QED
  BY <1>2, <1>3

LEMMA RefusedKeepsWire ==
    ASSUME NEW db, NEW k \in ConnRecord(db), NEW code \in Codes, k.up # <<>>, k.phase = "open",
           NEW mine, NEW edits, NEW status, NEW room, NEW content,
           Wired(k, mine, edits, status, room, content)
    PROVE  Wired(Close([k EXCEPT !.up = Tail(@)], code), mine, edits, status, room, content)
<1>1. PICK said, msg, n : said = Tail(k.up) /\ msg = Head(k.up) /\ n = [k EXCEPT !.up = said]
  OBVIOUS
<1>2. PICK x \in DownMessage(db) : x = [t |-> "close", code |-> code]
  BY CodesAreSent
<1>3. PICK wire : wire = Append(k.down, x)
  OBVIOUS
<1>4. k.up \in Seq(UpMessage) /\ k.down \in Seq(DownMessage(db))
  BY DEF ConnRecord
<1>5. Shorter(k.up, msg, said) /\ Longer(k.down, x, wire)
  BY <1>1, <1>3, <1>4, ShorterWire, LongerWire
<1>6. /\ n.phase = "open" /\ n.up = said /\ n.down = k.down /\ n.closing = k.closing
      /\ \A i \in DOMAIN said : said[i].ops \subseteq mine
      /\ edits \subseteq mine /\ (k.closing => Has(k.down, "close"))
  BY <1>1, <1>5 DEF Shorter, Wired, ConnRecord
<1>7. Has(wire, "close")
  BY <1>2, <1>5 DEF Longer
<1>8. CASE k.closing
  BY <1>1, <1>6, <1>8 DEF Close, Wired
<1>9. CASE ~k.closing
  <2>1. PICK m : m = [n EXCEPT !.down = wire, !.closing = TRUE]
    OBVIOUS
  <2>2. Close(n, code) = m
    BY <1>2, <1>3, <1>6, <1>9, <2>1 DEF Close
  <2>3. m.phase = "open" /\ m.up = said /\ m.down = wire /\ m.closing
    BY <1>1, <1>6, <2>1 DEF ConnRecord
  <2>4. Wired(m, mine, edits, status, room, content)
    BY <1>6, <1>7, <2>3 DEF Wired
  <2> QED
    BY <1>1, <2>2, <2>4
<1> QED
  BY <1>8, <1>9

LEMMA ConnectionsKeepLinks ==
    ASSUME Types, LinkInv, NEW k \in Conns,
           \/ Authorize(k, TRUE) \/ Authorize(k, FALSE) \/ Register(k)
           \/ ConnectionClosed(k) \/ Refuse(k) \/ Cut(k)
    PROVE  LinkInv'
<1>1. /\ conn \in [Conns -> ConnRecord(stored)] /\ srv.doc \subseteq Edits /\ stored \subseteq Edits
      /\ \A c \in Clients : pending[c].edits \subseteq doc[c]
  BY DEF Types, ServerTypes, LinkInv
<1>2. UNCHANGED clientVars
  BY DEF Authorize, Register, ConnectionClosed, Refuse, Cut
<1>3. SUFFICES ASSUME NEW c \in Clients, NEW j \in Conns, tab[c].socket = j,
                      Wired(conn[j], doc[c], pending[c].edits, tab[c].status, srv.room, srv.doc)
               PROVE  Wired(conn'[j], doc[c], pending[c].edits, tab[c].status, srv'.room, srv'.doc)
  BY <1>2, ServerLinks
<1>4. Attached(j) /\ conn[j] \in ConnRecord(stored)
  BY <1>1, <1>3 DEF Attached
<1>5. \A last : Wired(Over(k, last), doc[c], pending[c].edits, tab[c].status, srv.room, srv.doc)
  BY <1>1, OverIdles
<1>6. ASSUME UNCHANGED srv, NEW n, conn' = [conn EXCEPT ![k] = n],
             j = k => Wired(n, doc[c], pending[c].edits, tab[c].status, srv.room, srv.doc)
      PROVE  Wired(conn'[j], doc[c], pending[c].edits, tab[c].status, srv'.room, srv'.doc)
  BY <1>1, <1>3, <1>6
<1>7. ASSUME NEW refused \in BOOLEAN, Authorize(k, refused)
      PROVE  Wired(conn'[j], doc[c], pending[c].edits, tab[c].status, srv'.room, srv'.doc)
  <2>1. conn[k].phase = "upgrading" /\ UNCHANGED srv
    BY <1>7 DEF Authorize
  <2>2. CASE refused \/ Authorized(k) = "none"
    <3>1. conn' = [conn EXCEPT ![k] = Over(k, <<>>)]
      BY <1>7, <2>2 DEF Authorize
    <3> QED
      BY <1>5, <1>6, <2>1, <3>1
  <2>3. CASE ~(refused \/ Authorized(k) = "none")
    <3>1. PICK n : n = [conn[k] EXCEPT !.phase = "granted", !.role = Authorized(k)]
      OBVIOUS
    <3>2. conn' = [conn EXCEPT ![k] = n]
      BY <1>7, <2>3, <3>1 DEF Authorize
    <3>3. n.phase = "granted" /\ n.up = conn[k].up /\ n.begun = conn[k].begun /\ n.closing = conn[k].closing
      BY <1>1, <3>1 DEF ConnRecord
    <3>4. j = k => Wired(n, doc[c], pending[c].edits, tab[c].status, srv.room, srv.doc)
      BY <1>3, <2>1, <3>3 DEF Wired
    <3> QED
      BY <1>6, <2>1, <3>2, <3>4
  <2> QED
    BY <2>2, <2>3
<1>8. ASSUME Register(k)
      PROVE  Wired(conn'[j], doc[c], pending[c].edits, tab[c].status, srv'.room, srv'.doc)
  <2>1. conn[k].phase = "granted"
    BY <1>8 DEF Register
  <2>2. CASE CountForUser(UserOf[conn[k].tab]) >= MaxSockets \/ srv.mode \in {"closing", "down"}
    <3>1. conn' = [conn EXCEPT ![k] = Over(k, <<>>)] /\ UNCHANGED srv
      BY <1>8, <2>2 DEF Register
    <3> QED
      BY <1>5, <1>6, <3>1
  <2>3. CASE ~(CountForUser(UserOf[conn[k].tab]) >= MaxSockets \/ srv.mode \in {"closing", "down"})
    <3>1. PICK opened : opened = [conn EXCEPT ![k].phase = "open", ![k].down = <<[t |-> "open"]>>]
      OBVIOUS
    <3>2. PICK one, wire : one = conn[k] /\ wire = <<[t |-> "open"]>>
      OBVIOUS
    <3>3. /\ wire \in Seq(DownMessage(stored)) /\ 1 \in DOMAIN wire /\ wire[1].t = "open"
          /\ \A i \in DOMAIN wire : i = 1
      <4>1. [t |-> "open"] \in DownMessage(stored)
        BY DEF DownMessage
      <4> QED
        BY <3>2, <4>1
    <3>4. /\ opened = [conn EXCEPT ![k] = [one EXCEPT !.phase = "open", !.down = wire]]
          /\ conn' = IF srv.room = "ready" THEN [opened EXCEPT ![k] = BeginSync(opened, k, srv.doc)] ELSE opened
          /\ srv' = IF srv.room = "none" THEN [srv EXCEPT !.room = "loading"] ELSE srv
      BY <1>1, <1>8, <2>3, <3>1, <3>2 DEF Register
    <3>5. PICK n : n = [one EXCEPT !.phase = "open", !.down = wire]
      OBVIOUS
    <3>6. /\ n.phase = "open" /\ n.down = wire /\ n.up = one.up /\ n.begun = one.begun /\ n.closing = one.closing
          /\ n \in ConnRecord(stored) /\ opened = [conn EXCEPT ![k] = n]
          /\ srv'.doc = srv.doc /\ (srv.room = "ready" => srv'.room = "ready")
      <4>1. srv'.doc = srv.doc /\ (srv.room = "ready" => srv'.room = "ready")
        BY <3>4 DEF Types, ServerTypes
      <4>2. one \in ConnRecord(stored)
        BY <1>1, <3>2
      <4>3. /\ n.phase = "open" /\ n.down = wire /\ n.up = one.up /\ n.begun = one.begun /\ n.closing = one.closing
            /\ n \in ConnRecord(stored)
        BY <3>3, <3>5, <4>2 DEF ConnRecord
      <4> QED
        BY <3>4, <3>5, <4>1, <4>3
    <3>7. CASE j # k
      <4>1. conn'[j] = conn[j]
        BY <1>1, <3>4, <3>6, <3>7
      <4>2. conn[j].phase = "open" /\ conn[j].begun /\ ~conn[j].closing => srv.room = "ready"
        BY <1>3 DEF Wired, Talks
      <4>3. CASE conn[j].phase = "open" /\ conn[j].begun /\ ~conn[j].closing
        BY <1>3, <3>4, <3>6, <4>1, <4>2, <4>3
      <4>4. CASE ~(conn[j].phase = "open" /\ conn[j].begun /\ ~conn[j].closing)
        BY <1>3, <4>1, <4>4, Elsewhere
      <4> QED
        BY <4>3, <4>4
    <3>8. CASE j = k
      <4>1. ~one.begun /\ ~one.closing
        BY <1>3, <2>1, <3>2, <3>8 DEF Wired
      <4>2. \A room : Wired(n, doc[c], pending[c].edits, tab[c].status, room, srv.doc)
        <5>1. ASSUME NEW room PROVE Talks(n, doc[c], pending[c].edits, tab[c].status, room, srv.doc)
          <6>1. Opens(n.down) /\ ~n.begun
            BY <3>3, <3>6, <4>1 DEF Opens
          <6>2. \A i \in DOMAIN n.down : n.down[i].t = "open" /\ i = 1
            BY <3>3, <3>6
          <6> QED
            BY <6>1, <6>2 DEF Talks
        <5>2. \A i \in DOMAIN n.up : n.up[i].ops \subseteq doc[c]
          BY <1>3, <3>2, <3>6, <3>8 DEF Wired
        <5> QED
          BY <1>1, <3>6, <4>1, <5>1, <5>2 DEF Wired
      <4>3. opened \in [Conns -> ConnRecord(stored)] /\ opened[k] = n
        BY <1>1, <3>6
      <4>4. CASE srv.room = "ready"
        <5>1. Wired(BeginSync(opened, k, srv.doc), doc[c], pending[c].edits, tab[c].status, "ready", srv.doc)
          BY <1>1, <1>4, <3>6, <3>8, <4>1, <4>2, <4>3, BegunKeepsWire
        <5>2. conn'[j] = BeginSync(opened, k, srv.doc) /\ srv'.room = "ready"
          BY <3>4, <3>6, <3>8, <4>3, <4>4
        <5> QED
          BY <3>6, <5>1, <5>2
      <4>5. CASE srv.room # "ready"
        <5>1. conn'[j] = n
          BY <3>4, <3>8, <4>3, <4>5
        <5> QED
          BY <3>6, <4>2, <5>1
      <4> QED
        BY <4>4, <4>5
    <3> QED
      BY <3>7, <3>8
  <2> QED
    BY <2>2, <2>3
<1>9. ASSUME ConnectionClosed(k) \/ Cut(k)
      PROVE  Wired(conn'[j], doc[c], pending[c].edits, tab[c].status, srv'.room, srv'.doc)
  <2>1. UNCHANGED srv /\ \E last : conn' = [conn EXCEPT ![k] = Over(k, last)]
    BY <1>9 DEF ConnectionClosed, Cut
  <2> QED
    BY <1>5, <1>6, <2>1
<1>10. ASSUME Refuse(k)
       PROVE  Wired(conn'[j], doc[c], pending[c].edits, tab[c].status, srv'.room, srv'.doc)
  <2>1. /\ UNCHANGED srv /\ conn[k].up # <<>> /\ conn[k].phase = "open"
        /\ conn' = [conn EXCEPT ![k] = Close([conn[k] EXCEPT !.up = Tail(@)], "rateLimited")]
    BY <1>10 DEF Refuse
  <2>2. PICK code \in Codes : code = "rateLimited"
    BY DEF Codes
  <2>3. j = k => Wired(Close([conn[k] EXCEPT !.up = Tail(@)], code), doc[c], pending[c].edits, tab[c].status, srv.room, srv.doc)
    BY <1>3, <1>4, <2>1, RefusedKeepsWire
  <2> QED
    BY <1>6, <2>1, <2>2, <2>3
<1> QED
  BY <1>7, <1>8, <1>9, <1>10

LEMMA RoomKeepsLinks ==
    ASSUME Types, Types', LinkInv,
           \/ \E ok \in BOOLEAN : RoomReady(ok) \/ FlushedAll(ok)
           \/ Persist \/ Evict \/ Stop \/ Start \/ DeliverEvent \/ Shutdown \/ Crash
    PROVE  LinkInv'
<1>1. /\ conn \in [Conns -> ConnRecord(stored)] /\ srv.doc \subseteq Edits /\ stored \subseteq Edits
      /\ \A c \in Clients : pending[c].edits \subseteq doc[c]
  BY DEF Types, ServerTypes, LinkInv
<1>2. UNCHANGED clientVars
  BY DEF RoomReady, FlushedAll, Persist, Evict, Stop, Start, DeliverEvent, Shutdown, Crash
<1>3. SUFFICES ASSUME NEW c \in Clients, NEW j \in Conns, tab[c].socket = j,
                      Wired(conn[j], doc[c], pending[c].edits, tab[c].status, srv.room, srv.doc)
               PROVE  Wired(conn'[j], doc[c], pending[c].edits, tab[c].status, srv'.room, srv'.doc)
  BY <1>2, ServerLinks
<1>4. Attached(j) /\ conn[j] \in ConnRecord(stored)
  BY <1>1, <1>3 DEF Attached
<1>5. ASSUME NEW ok \in BOOLEAN, RoomReady(ok)
      PROVE  Wired(conn'[j], doc[c], pending[c].edits, tab[c].status, srv'.room, srv'.doc)
  <2>1. srv.room = "loading"
    BY <1>5 DEF RoomReady
  <2>2. conn[j].phase = "open" /\ conn[j].begun => conn[j].closing
    BY <1>3, <2>1 DEF Wired, Talks
  <2>3. CASE ~(ok /\ ~access.deleted)
    <3>1. PICK code \in Codes : code = IF access.deleted THEN "boardDeleted" ELSE "internalError"
      BY DEF Codes
    <3>2. conn'[j] = Close(conn[j], code)
      BY <1>5, <2>3, <3>1 DEF RoomReady
    <3>3. Wired(Close(conn[j], code), doc[c], pending[c].edits, tab[c].status, srv'.room, srv'.doc)
      BY <1>3, <1>4, ClosedKeepsWire
    <3> QED
      BY <3>2, <3>3
  <2>4. CASE ok /\ ~access.deleted
    <3>1. /\ srv'.room = "ready" /\ srv'.doc = stored
          /\ conn'[j] = IF conn[j].phase = "open" THEN BeginSync(conn, j, stored) ELSE conn[j]
      BY <1>5, <2>4 DEF RoomReady, Types, ServerTypes
    <3>2. CASE conn[j].phase # "open"
      BY <1>3, <3>1, <3>2, Elsewhere
    <3>3. CASE conn[j].phase = "open" /\ ~conn[j].begun
      <4>1. Wired(BeginSync(conn, j, stored), doc[c], pending[c].edits, tab[c].status, "ready", stored)
        BY <1>1, <1>3, <1>4, <3>3, BegunKeepsWire
      <4> QED
        BY <3>1, <3>3, <4>1
    <3>4. CASE conn[j].phase = "open" /\ conn[j].begun
      <4>1. PICK n : n = BeginSync(conn, j, stored)
        OBVIOUS
      <4>2. n = [conn[j] EXCEPT !.begun = TRUE]
        <5>1. PICK begun : begun = [conn EXCEPT ![j].begun = TRUE]
          OBVIOUS
        <5>2. begun[j] = [conn[j] EXCEPT !.begun = TRUE] /\ begun[j].closing
          BY <1>1, <1>4, <2>2, <3>4, <5>1 DEF ConnRecord
        <5> QED
          BY <4>1, <5>1, <5>2 DEF BeginSync, Send
      <4>3. n.phase = "open" /\ n.closing /\ n.up = conn[j].up /\ n.down = conn[j].down
        BY <1>4, <2>2, <3>4, <4>2 DEF ConnRecord
      <4>4. Wired(n, doc[c], pending[c].edits, tab[c].status, "ready", stored)
        BY <1>3, <2>2, <3>4, <4>3 DEF Wired
      <4> QED
        BY <3>1, <3>4, <4>1, <4>4
    <3> QED
      BY <3>2, <3>3, <3>4
  <2> QED
    BY <2>3, <2>4
\* What is acknowledged is stored by then.
<1>6. ASSUME NEW x \in DownMessage(stored'), x.t = "persisted", stored \subseteq stored'
      PROVE  /\ conn[j] \in ConnRecord(stored')
             /\ Wired(Send(conn, j, <<x>>), doc[c], pending[c].edits, tab[c].status, srv.room, srv.doc)
  <2>1. conn[j] \in ConnRecord(stored')
    BY <1>4, <1>6, WireGrows
  <2> QED
    BY <1>3, <1>4, <1>6, <2>1, SentKeepsWire
<1>7. ASSUME NEW x, x = [t |-> "persisted", ops |-> Vector(srv.doc)], stored' = stored \cup srv.doc
      PROVE  x \in DownMessage(stored') /\ x.t = "persisted" /\ stored \subseteq stored'
  BY <1>7 DEF DownMessage, Vector
<1>8. j # 0
  BY SessionAssumption DEF SessionAssumption
<1>9. ASSUME Persist
      PROVE  Wired(conn'[j], doc[c], pending[c].edits, tab[c].status, srv'.room, srv'.doc)
  <2>1. PICK x : x = [t |-> "persisted", ops |-> Vector(srv.doc)]
    OBVIOUS
  <2>2. conn'[j] = Send(conn, j, <<x>>) /\ UNCHANGED srv /\ stored' = stored \cup srv.doc
    BY <1>8, <1>9, <2>1 DEF Persist, SendAll
  <2>3. x \in DownMessage(stored') /\ x.t = "persisted" /\ stored \subseteq stored'
    BY <1>7, <2>1, <2>2
  <2> QED
    BY <1>6, <2>2, <2>3
<1>10. ASSUME NEW ok \in BOOLEAN, FlushedAll(ok)
       PROVE  Wired(conn'[j], doc[c], pending[c].edits, tab[c].status, srv'.room, srv'.doc)
  <2>1. PICK code \in Codes : code = "serviceRestart"
    BY DEF Codes
  <2>2. CASE ok /\ srv.room = "ready"
    <3>1. PICK x : x = [t |-> "persisted", ops |-> Vector(srv.doc)]
      OBVIOUS
    <3>2. SendAll(conn, 0, x)[j] = Send(conn, j, <<x>>) /\ stored' = stored \cup srv.doc
      BY <1>8, <1>10, <2>2, <3>1 DEF FlushedAll, SendAll
    <3>3. x \in DownMessage(stored') /\ x.t = "persisted" /\ stored \subseteq stored'
      BY <1>7, <3>1, <3>2
    <3>4. conn'[j] = Close(Send(conn, j, <<x>>), code)
      <4>1. conn'[j] = Close(SendAll(conn, 0, x)[j], code)
        BY <1>10, <2>1, <2>2, <3>1 DEF FlushedAll
      <4> QED
        BY <3>2, <4>1
    <3>5. Send(conn, j, <<x>>) \in ConnRecord(stored')
      <4>1. conn \in [Conns -> ConnRecord(stored')]
        BY <1>1, <3>3, WireGrows
      <4>2. <<x>> \in Seq(DownMessage(stored'))
        BY <3>3
      <4> QED
        BY <4>1, <4>2, SendOperations
    <3>6. Wired(Send(conn, j, <<x>>), doc[c], pending[c].edits, tab[c].status, srv.room, srv.doc)
      BY <1>6, <3>3
    <3>7. Wired(Close(Send(conn, j, <<x>>), code), doc[c], pending[c].edits, tab[c].status, srv'.room, srv'.doc)
      BY <3>5, <3>6, ClosedKeepsWire
    <3> QED
      BY <3>4, <3>7
  <2>3. CASE ~(ok /\ srv.room = "ready")
    <3>1. conn'[j] = Close(conn[j], code)
      BY <1>10, <2>1, <2>3 DEF FlushedAll
    <3>2. Wired(Close(conn[j], code), doc[c], pending[c].edits, tab[c].status, srv'.room, srv'.doc)
      BY <1>3, <1>4, ClosedKeepsWire
    <3> QED
      BY <3>1, <3>2
  <2> QED
    BY <2>2, <2>3
<1>11. ASSUME Evict
       PROVE  Wired(conn'[j], doc[c], pending[c].edits, tab[c].status, srv'.room, srv'.doc)
  <2>1. conn'[j] = conn[j] /\ conn[j].phase # "open"
    BY <1>11 DEF Evict, Registered
  <2> QED
    BY <1>3, <2>1, Elsewhere
<1>12. ASSUME Stop \/ Crash
       PROVE  Wired(conn'[j], doc[c], pending[c].edits, tab[c].status, srv'.room, srv'.doc)
  <2>1. conn'[j] = IF conn[j].phase = "gone" THEN conn[j] ELSE Over(j, <<>>)
    BY <1>12 DEF Stop, Crash
  <2>2. conn[j].phase = "gone" => Wired(conn[j], doc[c], pending[c].edits, tab[c].status, srv'.room, srv'.doc)
    BY <1>3, Elsewhere
  <2>3. Wired(Over(j, <<>>), doc[c], pending[c].edits, tab[c].status, srv'.room, srv'.doc)
    BY <1>1, OverIdles
  <2> QED
    BY <2>1, <2>2, <2>3
<1>13. ASSUME Start
       PROVE  Wired(conn'[j], doc[c], pending[c].edits, tab[c].status, srv'.room, srv'.doc)
  <2>1. UNCHANGED conn /\ srv'.room = srv.room /\ srv'.doc = srv.doc
    BY <1>13 DEF Start, Types, ServerTypes
  <2> QED
    BY <1>3, <2>1
<1>14. ASSUME Shutdown
       PROVE  Wired(conn'[j], doc[c], pending[c].edits, tab[c].status, srv'.room, srv'.doc)
  <2>1. /\ srv'.room = srv.room /\ srv'.doc = srv.doc
        /\ conn'[j] = IF conn[j].phase = "open" THEN [conn[j] EXCEPT !.frozen = TRUE] ELSE conn[j]
    BY <1>14 DEF Shutdown, Types, ServerTypes
  <2>2. PICK n : n = [conn[j] EXCEPT !.frozen = TRUE]
    OBVIOUS
  <2>3. /\ n.phase = conn[j].phase /\ n.up = conn[j].up /\ n.down = conn[j].down /\ n.closing = conn[j].closing
        /\ n.begun = conn[j].begun /\ n.frozen
    BY <1>4, <2>2 DEF ConnRecord
  <2>4. Wired(n, doc[c], pending[c].edits, tab[c].status, srv.room, srv.doc)
    <3>1. ASSUME n.phase = "open", ~n.closing PROVE Talks(n, doc[c], pending[c].edits, tab[c].status, srv.room, srv.doc)
      <4>1. Talks(conn[j], doc[c], pending[c].edits, tab[c].status, srv.room, srv.doc)
        BY <1>3, <2>3, <3>1 DEF Wired
      <4> QED
        BY <2>3, <4>1 DEF Talks
    <3> QED
      BY <1>3, <2>3, <3>1 DEF Wired
  <2> QED
    BY <1>3, <2>1, <2>2, <2>4
<1>15. ASSUME DeliverEvent
       PROVE  Wired(conn'[j], doc[c], pending[c].edits, tab[c].status, srv'.room, srv'.doc)
  <2>1. PICK code \in Codes : code = IF Head(events).t = "board_deleted" THEN "boardDeleted" ELSE "accessChanged"
    BY DEF Codes
  <2>2. UNCHANGED srv /\ conn'[j] \in {conn[j], Close(conn[j], code)}
    BY <1>1, <1>15, <2>1 DEF DeliverEvent
  <2>3. Wired(Close(conn[j], code), doc[c], pending[c].edits, tab[c].status, srv.room, srv.doc)
    BY <1>3, <1>4, ClosedKeepsWire
  <2> QED
    BY <1>3, <2>2, <2>3
<1> QED
  BY <1>5, <1>9, <1>10, <1>11, <1>12, <1>13, <1>14, <1>15

LEMMA ChangesKeepLinks ==
    ASSUME Types, LinkInv,
           \/ \E u \in Users, role \in {"none", "viewer", "editor"} : ChangeMember(u, role)
           \/ RevokeLink \/ LinkExpires \/ \E on \in BOOLEAN : SetPublic(on) \/ PlanLock(on) \/ Trash(on)
    PROVE  LinkInv'
<1>1. UNCHANGED <<clientVars, srv>>
  BY DEF ChangeMember, RevokeLink, LinkExpires, SetPublic, PlanLock, Trash, Change
<1>2. SUFFICES ASSUME NEW c \in Clients, NEW j \in Conns, tab[c].socket = j,
                      Wired(conn[j], doc[c], pending[c].edits, tab[c].status, srv.room, srv.doc)
               PROVE  Wired(conn'[j], doc[c], pending[c].edits, tab[c].status, srv'.room, srv'.doc)
  BY <1>1, ServerLinks
<1>3. conn'[j] \in {conn[j], [conn[j] EXCEPT !.raced = TRUE]}
  BY DEF ChangeMember, RevokeLink, LinkExpires, SetPublic, PlanLock, Trash, Change
<1>4. PICK n : n = [conn[j] EXCEPT !.raced = TRUE]
  OBVIOUS
<1>5. conn[j] \in ConnRecord(stored)
  BY DEF Types, ServerTypes
<1>6. /\ n.phase = conn[j].phase /\ n.up = conn[j].up /\ n.down = conn[j].down /\ n.closing = conn[j].closing
      /\ n.begun = conn[j].begun /\ n.frozen = conn[j].frozen /\ n.role = conn[j].role
  BY <1>4, <1>5 DEF ConnRecord
<1>7. Wired(n, doc[c], pending[c].edits, tab[c].status, srv.room, srv.doc)
  BY <1>2, <1>6 DEF Wired, Talks
<1> QED
  BY <1>1, <1>2, <1>3, <1>4, <1>7

\* When nothing is on the wire or waiting to be sent, a tab and the room hold the same document,
\* deletions included: what the handshake and the edits of frames leave out is on its way.
THEOREM QuietAreSent == Spec => []QuietIsSent
<1>1. Init => LinkInv
  <2> SUFFICES ASSUME Init PROVE LinkInv
    OBVIOUS
  <2>1. /\ Fresh \in TabRecord /\ ~Fresh.destroyed /\ ~Fresh.connecting /\ Fresh.status = "connecting"
        /\ ~Fresh.hasConnected /\ Fresh.socket = NoSocket /\ ~Fresh.timer
    BY DEF TabRecord, Fresh, NoSocket
  <2>2. Connect(Fresh) = [Fresh EXCEPT !.status = "connecting", !.connecting = TRUE]
    BY <2>1 DEF Connect, Retrying
  <2>3. Exclusive(Connect(Fresh)) /\ Connect(Fresh).socket = NoSocket
    BY <2>1, <2>2 DEF Exclusive, TabRecord
  <2>4. \A c \in Clients : tab[c] = Connect(Fresh) /\ pending[c].edits = {}
    BY DEF Init
  <2>5. \A k \in Conns : k # NoSocket
    BY SessionAssumption DEF SessionAssumption, NoSocket
  <2> QED
    BY <2>3, <2>4, <2>5 DEF LinkInv
<1>2. SessionTypesInv /\ SessionTypesInv' /\ LinkInv /\ [Next]_vars => LinkInv'
  <2> SUFFICES ASSUME SessionTypesInv, SessionTypesInv', LinkInv, [Next]_vars PROVE LinkInv'
    OBVIOUS
  <2>1. Types /\ Types' /\ TransportInv
    BY DEF SessionTypesInv
  <2>2. CASE UNCHANGED vars
    BY <2>2 DEF vars, clientVars, LinkInv
  <2>3. CASE \E c \in Clients : ClientStep(c) \/ \E e \in Edits : Edit(c, e)
    BY <2>1, <2>3, ClientsKeepLinks DEF ClientStep
  <2>4. CASE ServerStep
    BY <2>1, <2>4, HandledKeepsLinks, ConnectionsKeepLinks, RoomKeepsLinks DEF ServerStep
  <2>5. CASE Disturbance
    BY <2>1, <2>5, ClientsKeepLinks, ConnectionsKeepLinks, RoomKeepsLinks, ChangesKeepLinks DEF Disturbance
  <2> QED
    BY <2>2, <2>3, <2>4, <2>5 DEF Next
<1>3. SessionTypesInv /\ LinkInv => QuietIsSent
  <2> SUFFICES ASSUME SessionTypesInv, LinkInv, NEW c \in Clients, NEW k, k = tab[c].socket,
                      k # NoSocket, tab[c].status = "connected", pending[c].edits = {},
                      conn[k].phase = "open", conn[k].begun, ~conn[k].frozen, conn[k].up = <<>>, conn[k].down = <<>>
               PROVE  srv.doc \subseteq doc[c] /\ (Can(conn[k].role, "write") => doc[c] \subseteq srv.doc)
    BY DEF QuietIsSent
  <2>1. k \in Conns
    BY DEF SessionTypesInv, Types
  <2>2. Wired(conn[k], doc[c], pending[c].edits, tab[c].status, srv.room, srv.doc)
    BY <2>1 DEF LinkInv
  <2>3. /\ \A kind : ~Has(conn[k].down, kind) /\ ~Has(conn[k].up, kind)
        /\ \A kinds, e : ~Carries(conn[k].down, kinds, e) /\ ~Carries(conn[k].up, kinds, e)
        /\ ~Opens(conn[k].down)
    BY DEF Has, Carries, Opens
  <2>4. Talks(conn[k], doc[c], {}, "connected", srv.room, srv.doc)
    BY <2>2, <2>3 DEF Wired
  <2> QED
    BY <2>3, <2>4 DEF Talks
<1> QED
  BY <1>1, <1>2, <1>3, SessionTypesHold, PTL DEF Spec
=============================================================================
