---------------------------- MODULE WorldSessions ----------------------------
(***************************************************************************)
(* Sessions, their sockets and their characters.  Network threads          *)
(* authenticate connections and queue packets; the world thread adds,      *)
(* updates and destroys sessions in its tick; characters are loaded by     *)
(* asynchronous queries whose callbacks find their session by its account. *)
(*                                                                         *)
(* A session is named after the socket that created it.  An account has    *)
(* one character.  The handling of a packet by a network thread is one     *)
(* step: that the session it found may be deleted while it does so is the  *)
(* race the NOTE in World::AddSession_ mentions, and is not modelled.      *)
(***************************************************************************)
EXTENDS Naturals, Sequences, FiniteSets

CONSTANTS
    Accounts,
    Players,         \* those with security SEC_PLAYER
    Sockets,         \* bound: connections ever made
    None,
    PlayerLimit,     \* m_playerLimit, zero for none
    OneLoginAtATime, \* assumption: no login of an account while one is on its way
    MaxPackets,      \* bound: packets ever sent
    MaxKicks         \* bound: calls of KickPlayer, by commands or by a failing load

ASSUME SessionsAssumption ==
    /\ Players \subseteq Accounts /\ None \notin Sockets \cup Accounts
    /\ PlayerLimit \in Nat /\ MaxPackets \in Nat /\ MaxKicks \in Nat
    /\ OneLoginAtATime \in BOOLEAN /\ IsFiniteSet(Accounts)

VARIABLES
    sock,      \* socket -> its state and m_session
    session,   \* session -> its members
    addQueue,  \* World::m_sessionAddQueue
    sessions,  \* World::m_sessions
    waiting,   \* World::m_QueuedSessions
    adding,    \* the copy of the add queue in UpdateSessions
    wpc,       \* where the world thread is in its tick
    todo,      \* accounts whose session UpdateSessions has not reached yet
    wcur,      \* the session being updated
    batch,     \* recvQueueCopy of WorldSession::Update
    stopping,  \* CleanupsBeforeStop has begun
    logins,    \* accounts of the login queries on their way, oldest first
    online,    \* account -> how many of its characters are in the world
    dirty,     \* account -> its character was changed since it was saved
    packets,   \* history: number of packets sent
    kicks      \* history: number of kicks

tick == <<adding, wpc, todo, wcur, batch, stopping>>
characters == <<logins, online, dirty>>
history == <<packets, kicks>>
vars == <<sock, session, addQueue, sessions, waiting, tick, characters, history>>

Packet == {"login", "logout", "cancel"}

Blank == [account |-> None, state |-> "none", socket |-> None, request |-> None, inbox |-> <<>>,
          recv |-> <<>>, inQueue |-> FALSE, player |-> "none", logout |-> 0, kickTime |-> 0,
          save |-> TRUE, kick |-> FALSE, recent |-> FALSE]

\* The constructor of WorldSession.
NewSession(a, k) == [Blank EXCEPT !.account = a, !.state = "created", !.socket = k]

Destroyed == [Blank EXCEPT !.state = "destroyed"]

Init ==
    /\ sock = [k \in Sockets |-> [state |-> "idle", session |-> None]]
    /\ session = [k \in Sockets |-> Blank]
    /\ addQueue = <<>> /\ sessions = [a \in Accounts |-> None] /\ waiting = <<>>
    /\ adding = <<>> /\ wpc = "tick" /\ todo = {} /\ wcur = None /\ batch = <<>>
    /\ stopping = FALSE
    /\ logins = <<>> /\ online = [a \in Accounts |-> 0] /\ dirty = [a \in Accounts |-> FALSE]
    /\ packets = 0 /\ kicks = 0

Elements(s) == {s[i] : i \in DOMAIN s}
Registered == {a \in Accounts : sessions[a] # None}
Open(c) == c # None /\ sock[c].state = "open"

Closing(c) == IF c = None THEN sock ELSE [sock EXCEPT ![c].state = "closed"]
Finalizing(c) ==
    IF c = None THEN sock ELSE [sock EXCEPT ![c] = [state |-> "closed", session |-> None]]
-----------------------------------------------------------------------------
(***************************************************************************)
(* The network threads and the clients behind them.                        *)
(***************************************************************************)
\* Faulty variant of HandleAuthSession: m_session is set for new sessions only.
HandleAuthSessionForgets(k, a) ==
    /\ wpc # "stopped" /\ sock[k].state = "idle"
    /\ \/ /\ sessions[a] # None
          /\ sock' = [sock EXCEPT ![k] = [state |-> "open", session |-> None]]
          /\ session' = [session EXCEPT ![sessions[a]].inbox = Append(@, k)]
          /\ UNCHANGED addQueue
       \/ /\ sessions[a] = None
          /\ sock' = [sock EXCEPT ![k] = [state |-> "open", session |-> k]]
          /\ session' = [session EXCEPT ![k] = NewSession(a, k)]
          /\ addQueue' = Append(addQueue, k)
    /\ UNCHANGED <<sessions, waiting, tick, characters, history>>

\* HandleAuthSession: the session of the account is asked to take this socket
\* over, or a new one is handed to the world thread.
HandleAuthSession(k, a) ==
    /\ wpc # "stopped" /\ sock[k].state = "idle"
    /\ \/ /\ sessions[a] # None
          /\ sock' = [sock EXCEPT ![k] = [state |-> "open", session |-> sessions[a]]]
          /\ session' = [session EXCEPT ![sessions[a]].inbox = Append(@, k)]
          /\ UNCHANGED addQueue
       \/ /\ sessions[a] = None
          /\ sock' = [sock EXCEPT ![k] = [state |-> "open", session |-> k]]
          /\ session' = [session EXCEPT ![k] = NewSession(a, k)]
          /\ addQueue' = Append(addQueue, k)
    /\ UNCHANGED <<sessions, waiting, tick, characters, history>>

\* A login of the account of session s is on its way.
LoginPending(s) ==
    \/ session[s].account \in Elements(logins)
    \/ "login" \in Elements(session[s].recv)
    \/ wcur = s /\ "login" \in Elements(batch)

QueuePacket(k, p) ==
    /\ wpc # "stopped" /\ sock[k].state = "open" /\ packets < MaxPackets
    /\ sock[k].session # None
    /\ session[sock[k].session].state # "destroyed"
    /\ (p = "login" /\ OneLoginAtATime) => ~LoginPending(sock[k].session)
    /\ packets' = packets + 1
    /\ session' = [session EXCEPT ![sock[k].session].recv = Append(@, p)]
    /\ UNCHANGED <<sock, addQueue, sessions, waiting, tick, characters, kicks>>

\* The client is gone, or the network is.
CloseSocket(k) ==
    /\ wpc # "stopped" /\ sock[k].state = "open"
    /\ sock' = Closing(k)
    /\ UNCHANGED <<session, addQueue, sessions, waiting, tick, characters, history>>
-----------------------------------------------------------------------------
(***************************************************************************)
(* The timers: logout is 1 when m_logoutTime is set, 2 when 20 seconds     *)
(* have passed since, 3 after 60; kickTime is 1 when set, 2 when over.     *)
(***************************************************************************)
LogoutTimer(k) ==
    /\ session[k].logout \in {1, 2}
    /\ session' = [session EXCEPT ![k].logout = @ + 1]
    /\ UNCHANGED <<sock, addQueue, sessions, waiting, tick, characters, history>>

KickTimer(k) ==
    /\ session[k].kickTime = 1
    /\ session' = [session EXCEPT ![k].kickTime = 2]
    /\ UNCHANGED <<sock, addQueue, sessions, waiting, tick, characters, history>>

ShouldLogOut(r) == r.logout >= 2
ShouldDisconnect(r) == r.logout >= 3

LogoutRequest(r, time, save, kick) ==
    [r EXCEPT !.logout = time, !.save = save, !.kick = kick]

\* KickPlayer, not in place: as if the logout had been requested 20 seconds ago.
KickPlayer(r) == LogoutRequest(r, 2, FALSE, TRUE)

\* Faulty variant of InPlace: without saving.
InPlaceUnsaved(r) == [r EXCEPT !.save = FALSE, !.kick = TRUE]

\* KickPlayer(true, true), up to its LogoutPlayer.
InPlace(r) == [r EXCEPT !.save = TRUE, !.kick = TRUE]

SetInCharSelection(r) == [r EXCEPT !.state = "char selection", !.kickTime = 1]

SetOnline(r) ==
    IF r.player # "none" /\ Open(r.socket) THEN [r EXCEPT !.state = "ready", !.kickTime = 0] ELSE r

\* Faulty variant of LoggedOut: the session keeps its player.
LoggedOutKeepsPlayer(r) ==
    IF r.recent THEN r
    ELSE SetInCharSelection([r EXCEPT !.recent = TRUE, !.logout = 0,
                                      !.socket = IF r.kick THEN None ELSE @, !.kick = FALSE])

\* What LogoutPlayer leaves of the members r: nothing changes when the player
\* has just logged out.
LoggedOut(r) ==
    IF r.recent THEN r
    ELSE SetInCharSelection([r EXCEPT !.player = "none", !.recent = TRUE, !.logout = 0,
                                      !.socket = IF r.kick THEN None ELSE @, !.kick = FALSE])

Leaves(r) == ~r.recent /\ r.player = "world"

\* The character, if there is one, leaves the world, saved when it should be.
Unload(r) ==
    /\ online' = IF Leaves(r) THEN [online EXCEPT ![r.account] = @ - 1] ELSE online
    /\ dirty' = IF Leaves(r) /\ r.save THEN [dirty EXCEPT ![r.account] = FALSE] ELSE dirty

LogoutPlayer(k) ==
    /\ session' = [session EXCEPT ![k] = LoggedOut(@)]
    /\ Unload(session[k])
    /\ sock' = IF ~session[k].recent /\ session[k].kick THEN Closing(session[k].socket) ELSE sock
-----------------------------------------------------------------------------
(***************************************************************************)
(* World::UpdateSessions: first the new sessions.                          *)
(***************************************************************************)
TakeAddQueue ==
    /\ wpc = "tick"
    /\ adding' = addQueue /\ addQueue' = <<>>
    /\ wpc' = "add"
    /\ UNCHANGED <<sock, session, sessions, waiting, todo, wcur, batch, stopping, characters,
                   history>>

\* Faulty variant of MustWait: one player too many.
MustWaitOneMore(a) ==
    PlayerLimit > 0 /\ Cardinality(Registered) > PlayerLimit /\ a \in Players

\* A full server: everyone connected counts, those who wait included.
MustWait(a) == PlayerLimit > 0 /\ Cardinality(Registered) >= PlayerLimit /\ a \in Players

\* An account that has a session already: the new one is dropped.
AddExistingSession ==
    /\ wpc = "add" /\ adding # <<>>
    /\ sessions[session[Head(adding)].account] # None
    /\ adding' = Tail(adding)
    /\ UNCHANGED <<sock, session, addQueue, sessions, waiting, wpc, todo, wcur, batch, stopping,
                   characters, history>>

AddSession ==
    /\ wpc = "add" /\ adding # <<>>
    /\ LET s == Head(adding) IN LET a == session[s].account IN
       /\ sessions[a] = None
       /\ sessions' = [sessions EXCEPT ![a] = s]
       /\ waiting' = IF MustWait(a) THEN Append(waiting, s) ELSE waiting
       /\ session' = [session EXCEPT ![s].inQueue = MustWait(a)]
    /\ adding' = Tail(adding)
    /\ UNCHANGED <<sock, addQueue, wpc, todo, wcur, batch, stopping, characters, history>>

AllAdded ==
    /\ wpc = "add" /\ adding = <<>>
    /\ wpc' = "update" /\ todo' = Registered
    /\ UNCHANGED <<sock, session, addQueue, sessions, waiting, adding, wcur, batch, stopping,
                   characters, history>>
-----------------------------------------------------------------------------
(***************************************************************************)
(* WorldSession::Update: messages, then packets, then the state.           *)
(***************************************************************************)
\* Messager::Execute: RequestNewSocket takes the first socket that asks.
ExecuteMessages(a) ==
    /\ wpc = "update" /\ a \in todo
    /\ wcur' = sessions[a] /\ todo' = todo \ {a} /\ wpc' = "take"
    /\ LET r == session[sessions[a]] IN
       session' = [session EXCEPT ![sessions[a]] =
           IF r.inbox # <<>> /\ r.request = None
           THEN [r EXCEPT !.inbox = <<>>, !.request = Head(r.inbox), !.state = "created"]
           ELSE [r EXCEPT !.inbox = <<>>]]
    /\ UNCHANGED <<sock, addQueue, sessions, waiting, adding, batch, stopping, characters, history>>

TakePackets ==
    /\ wpc = "take"
    /\ batch' = session[wcur].recv
    /\ session' = [session EXCEPT ![wcur].recv = <<>>]
    /\ wpc' = "packets"
    /\ UNCHANGED <<sock, addQueue, sessions, waiting, adding, todo, wcur, stopping, characters,
                   history>>

\* HandlePlayerLoginOpcode: a character still in the world, whose session is
\* logging out, is taken over; else it is loaded.  Refused while in the queue.
HandlePlayerLogin(r) ==
    LET authed == [r EXCEPT !.recent = FALSE] IN
    \/ /\ r.inQueue
       /\ UNCHANGED <<session, logins>>
    \/ /\ ~r.inQueue /\ r.player = "none"
       /\ session' = [session EXCEPT ![wcur] = authed]
       /\ logins' = Append(logins, r.account)
    \/ /\ ~r.inQueue /\ r.player = "world" /\ r.logout > 0          \* HandlePlayerReconnect
       /\ session' = [session EXCEPT ![wcur] = SetOnline(LogoutRequest(authed, 0, TRUE, FALSE))]
       /\ UNCHANGED logins
    \/ /\ ~r.inQueue
       /\ (r.player = "world" /\ r.logout = 0) \/ r.player = "failed"
       /\ session' = [session EXCEPT ![wcur] = authed]
       /\ UNCHANGED logins

\* HandleLogoutRequestOpcode: not now, at once, or after 20 seconds.
HandleLogoutRequest(r) ==
    \/ /\ session' = [session EXCEPT ![wcur] = LogoutRequest(r, 0, TRUE, FALSE)]
       /\ UNCHANGED <<sock, online, dirty>>
    \/ LogoutPlayer(wcur)
    \/ /\ session' = [session EXCEPT ![wcur] = LogoutRequest(r, 1, TRUE, FALSE)]
       /\ UNCHANGED <<sock, online, dirty>>

HandlePacket ==
    /\ wpc = "packets" /\ batch # <<>> /\ Open(session[wcur].socket)
    /\ batch' = Tail(batch)
    /\ LET r == session[wcur] IN
       \/ /\ Head(batch) = "login" /\ HandlePlayerLogin(r)
          /\ UNCHANGED <<sock, online, dirty>>
       \/ /\ Head(batch) = "logout" /\ r.player = "world" /\ HandleLogoutRequest(r)
          /\ UNCHANGED logins
       \/ /\ Head(batch) = "cancel" /\ r.player = "world"
          /\ session' = [session EXCEPT ![wcur] = LogoutRequest(r, 0, TRUE, FALSE)]
          /\ UNCHANGED <<sock, characters>>
       \/ /\ Head(batch) # "login" /\ r.player # "world"            \* unexpected opcode
          /\ UNCHANGED <<sock, session, characters>>
    /\ UNCHANGED <<addQueue, sessions, waiting, adding, wpc, todo, wcur, stopping, history>>

\* What a closed socket has sent is not processed.
PacketsDone ==
    /\ wpc = "packets"
    /\ batch = <<>> \/ ~Open(session[wcur].socket)
    /\ batch' = <<>> /\ wpc' = "state"
    /\ UNCHANGED <<sock, session, addQueue, sessions, waiting, adding, todo, wcur, stopping,
                   characters, history>>

\* The session stays: on to the next one.
Kept ==
    /\ wpc' = "update" /\ wcur' = None
    /\ UNCHANGED <<addQueue, sessions, waiting, adding, todo, batch, stopping, logins, history>>

\* A queue of different sessions without session s.
Without(queue, s) ==
    LET place == CHOOSE i \in DOMAIN queue : queue[i] = s
    IN  IF s \in Elements(queue)
        THEN [i \in 1 .. Len(queue) - 1 |-> IF i < place THEN queue[i] ELSE queue[i + 1]]
        ELSE queue

\* Faulty variant of Unqueued: nothing is removed.
UnqueuedNone(s) == waiting

\* RemoveQueuedSession: the queue without session s, and who is admitted for it.
Unqueued(s) == Without(waiting, s)

\* GetActiveSessionCount.
Active == Cardinality(Registered) - Len(waiting)

\* Faulty variant of Admitted: the last one is admitted.
AdmittedLast(s) ==
    LET others == Unqueued(s)
        staying == IF s \in Elements(waiting) THEN Active ELSE Active - 1
    IN  IF (PlayerLimit = 0 \/ staying < PlayerLimit) /\ others # <<>>
        THEN others[Len(others)] ELSE None

Admitted(s) ==
    LET others == Unqueued(s)
        staying == IF s \in Elements(waiting) THEN Active ELSE Active - 1
    IN  IF (PlayerLimit = 0 \/ staying < PlayerLimit) /\ others # <<>>
        THEN Head(others) ELSE None

\* Update returned false: RemoveQueuedSession, erase, and the destructor, which
\* logs out with members r; sockets is what becomes of the sockets.
Destroy(r, sockets) ==
    /\ waiting' = Without(Unqueued(wcur), Admitted(wcur))
    /\ session' = [s \in Sockets |->
                       CASE s = wcur -> Destroyed
                         [] s # wcur /\ s = Admitted(wcur) -> [session[s] EXCEPT !.inQueue = FALSE]
                         [] OTHER -> session[s]]
    /\ sessions' = [sessions EXCEPT ![r.account] = None]
    /\ Unload(r)
    /\ sock' = sockets
    /\ wpc' = "update" /\ wcur' = None
    /\ UNCHANGED <<addQueue, adding, todo, batch, stopping, logins, history>>

\* What becomes of the socket when the destructor logs out with members r.
Released(r) ==
    IF r.player # "none" /\ ~r.recent /\ r.kick THEN Closing(r.socket) ELSE Finalizing(r.socket)

\* Faulty variants of SetOffline: the logout will not save; no logout begins.
SetOfflineUnsaved(r) ==
    [(IF r.player # "none" THEN LogoutRequest(r, 1, FALSE, FALSE) ELSE r)
        EXCEPT !.socket = None, !.state = "offline"]
SetOfflineOnly(r) == [r EXCEPT !.socket = None, !.state = "offline"]

\* SetOffline: the logout of a player begins, the socket is let go.
SetOffline(r) ==
    [(IF r.player # "none" THEN LogoutRequest(r, 1, TRUE, FALSE) ELSE r)
        EXCEPT !.socket = None, !.state = "offline"]

UpdateCreated ==
    /\ wpc = "state" /\ session[wcur].state = "created"
    /\ LET r == session[wcur] IN
       \/ /\ r.request = None
          /\ session' = [session EXCEPT ![wcur] = SetInCharSelection(r)]
          /\ UNCHANGED sock
       \/ /\ r.request # None
          /\ session' = [session EXCEPT ![wcur] =
                 SetInCharSelection([SetOffline(r) EXCEPT !.socket = r.request, !.request = None])]
          /\ sock' = Finalizing(r.socket)
    /\ Kept
    /\ UNCHANGED <<online, dirty>>

\* The client is gone; or a delayed logout fires; or 15 minutes have passed.
UpdateCharSelection ==
    /\ wpc = "state" /\ session[wcur].state = "char selection"
    /\ LET r == session[wcur] IN
       \/ /\ ~Open(r.socket)
          /\ Destroy(r, Released(r))
       \/ /\ Open(r.socket) /\ ShouldLogOut(r) /\ ~r.recent
          /\ LogoutPlayer(wcur)
          /\ Kept
       \/ /\ Open(r.socket) /\ ~(ShouldLogOut(r) /\ ~r.recent) /\ r.kickTime = 2
          /\ Destroy(InPlace(r),
                     IF r.recent THEN Finalizing(r.socket) ELSE Closing(r.socket))
       \/ /\ Open(r.socket) /\ ~(ShouldLogOut(r) /\ ~r.recent) /\ r.kickTime # 2
          /\ UNCHANGED <<sock, session, online, dirty>>
          /\ Kept

\* A player whose client is gone stays for a while; one who is away too long,
\* or whose logout is due, leaves.
UpdateReady ==
    /\ wpc = "state" /\ session[wcur].state = "ready"
    /\ LET r == session[wcur]
           gone == r.socket # None /\ ~Open(r.socket)
       IN
       \/ /\ gone /\ r.player = "none"
          /\ Destroy(r, Finalizing(r.socket))
       \/ /\ gone /\ r.player # "none"
          /\ session' = [session EXCEPT ![wcur] = SetOffline(r)]
          /\ sock' = Finalizing(r.socket)
          /\ UNCHANGED <<online, dirty>>
          /\ Kept
       \/ /\ ~gone                                  \* ShouldAfkDisconnect or ShouldLogOut
          /\ r.player = "world" \/ ShouldLogOut(r)
          /\ LogoutPlayer(wcur)
          /\ Kept
       \/ /\ ~gone /\ ~ShouldLogOut(r)
          /\ UNCHANGED <<sock, session, online, dirty>>
          /\ Kept

UpdateOffline ==
    /\ wpc = "state" /\ session[wcur].state = "offline"
    /\ LET r == session[wcur] IN
       \/ /\ ShouldDisconnect(r) /\ r.request = None
          /\ Destroy(r, Released(r))
       \/ /\ ShouldDisconnect(r) /\ r.request # None
          /\ LogoutPlayer(wcur)
          /\ Kept
       \/ /\ ~ShouldDisconnect(r)
          /\ UNCHANGED <<sock, session, online, dirty>>
          /\ Kept

UpdateState == UpdateCreated \/ UpdateCharSelection \/ UpdateReady \/ UpdateOffline

AllUpdated ==
    /\ wpc = "update" /\ todo = {}
    /\ wpc' = IF stopping THEN "stopped" ELSE "maps"
    /\ UNCHANGED <<sock, session, addQueue, sessions, waiting, adding, todo, wcur, batch, stopping,
                   characters, history>>
-----------------------------------------------------------------------------
(***************************************************************************)
(* The rest of the tick: the maps, where characters change and are saved   *)
(* now and then; the callbacks of the login queries; the commands.         *)
(***************************************************************************)
UpdateMaps ==
    /\ wpc = "maps"
    /\ \E changed \in SUBSET {a \in Accounts : online[a] > 0} :
           dirty' = [a \in Accounts |-> IF online[a] > 0 THEN a \in changed ELSE dirty[a]]
    /\ wpc' = "results"
    /\ UNCHANGED <<sock, session, addQueue, sessions, waiting, adding, todo, wcur, batch, stopping,
                   logins, online, history>>

\* HandlePlayerLoginCallback and WorldSession::HandlePlayerLogin, when
\* LoadFromDB succeeds and when it fails.
LoginCallback ==
    /\ wpc = "results" /\ logins # <<>>
    /\ logins' = Tail(logins)
    /\ LET a == Head(logins) IN LET s == sessions[a] IN
       \/ s = None /\ UNCHANGED <<session, online, dirty, kicks>>
       \/ /\ s # None
          /\ session' = [session EXCEPT ![s] = SetOnline([@ EXCEPT !.player = "world"])]
          /\ online' = [online EXCEPT ![a] = @ + 1]
          /\ dirty' = [dirty EXCEPT ![a] = FALSE]
          /\ UNCHANGED kicks
       \/ /\ s # None /\ kicks < MaxKicks
          /\ session' =
                 [session EXCEPT ![s] = KickPlayer(SetOnline([@ EXCEPT !.player = "failed"]))]
          /\ kicks' = kicks + 1
          /\ UNCHANGED <<online, dirty>>
    /\ UNCHANGED <<sock, addQueue, sessions, waiting, tick, packets>>

NoMoreResults ==
    /\ wpc = "results"
    /\ wpc' = "commands"
    /\ UNCHANGED <<sock, session, addQueue, sessions, waiting, adding, todo, wcur, batch, stopping,
                   characters, history>>

\* A command, or a ban: KickPlayer of one session.
Kick(a) ==
    /\ wpc = "commands" /\ kicks < MaxKicks /\ sessions[a] # None
    /\ session' = [session EXCEPT ![sessions[a]] = KickPlayer(@)]
    /\ kicks' = kicks + 1
    /\ UNCHANGED <<sock, addQueue, sessions, waiting, tick, characters, packets>>

\* KickAllLess: all sessions of less than the given security.
KickAllLess ==
    /\ wpc = "commands" /\ kicks < MaxKicks
    /\ session' = [s \in Sockets |->
                       IF \E a \in Players : sessions[a] = s THEN KickPlayer(session[s])
                       ELSE session[s]]
    /\ kicks' = kicks + 1
    /\ UNCHANGED <<sock, addQueue, sessions, waiting, tick, characters, packets>>

EndTick ==
    /\ wpc = "commands"
    /\ wpc' = "tick"
    /\ UNCHANGED <<sock, session, addQueue, sessions, waiting, adding, todo, wcur, batch, stopping,
                   characters, history>>

\* KickAll(true), of all sessions in place; one more UpdateSessions follows.
CleanupsBeforeStop ==
    /\ wpc = "commands"
    /\ LET kicked == {sessions[a] : a \in Registered}
           left == {a \in Registered : Leaves(session[sessions[a]])}
       IN  /\ session' = [s \in Sockets |->
                   IF s \in kicked THEN LoggedOut(InPlace(session[s])) ELSE session[s]]
           /\ online' = [a \in Accounts |-> IF a \in left THEN online[a] - 1 ELSE online[a]]
           /\ dirty' = [a \in Accounts |->
                   dirty[a] /\ ~(a \in left /\ InPlace(session[sessions[a]]).save)]
           /\ sock' = [c \in Sockets |->
                           IF \E s \in kicked : session[s].socket = c /\ ~session[s].recent
                           THEN [sock[c] EXCEPT !.state = "closed"] ELSE sock[c]]
    /\ waiting' = <<>>
    /\ stopping' = TRUE /\ wpc' = "tick"
    /\ UNCHANGED <<addQueue, sessions, adding, todo, wcur, batch, logins, history>>
-----------------------------------------------------------------------------
Client ==
    \/ \E k \in Sockets, a \in Accounts : HandleAuthSession(k, a)
    \/ \E k \in Sockets, p \in Packet : QueuePacket(k, p)
    \/ \E k \in Sockets : CloseSocket(k)

WorldThread ==
    \/ TakeAddQueue \/ AddExistingSession \/ AddSession \/ AllAdded
    \/ \E a \in Accounts : ExecuteMessages(a)
    \/ TakePackets \/ HandlePacket \/ PacketsDone \/ UpdateState \/ AllUpdated
    \/ UpdateMaps \/ LoginCallback \/ NoMoreResults
    \/ \E a \in Accounts : Kick(a)
    \/ KickAllLess \/ EndTick \/ CleanupsBeforeStop

Next ==
    \/ Client
    \/ \E k \in Sockets : LogoutTimer(k) \/ KickTimer(k)
    \/ WorldThread

Spec == Init /\ [][Next]_vars

\* The world thread ticks until it stops, and time passes.
FairSpec == Spec /\ WF_vars(WorldThread) /\ \A k \in Sockets : WF_vars(LogoutTimer(k))
-----------------------------------------------------------------------------
(***************************************************************************)
(* Type invariant.                                                         *)
(***************************************************************************)
Maybe(S) == S \cup {None}

SessionType == [
    account : Maybe(Accounts), socket : Maybe(Sockets), request : Maybe(Sockets),
    state : {"none", "created", "char selection", "ready", "offline", "destroyed"},
    inbox : Seq(Sockets), recv : Seq(Packet), inQueue : BOOLEAN,
    player : {"none", "world", "failed"}, logout : 0 .. 3, kickTime : 0 .. 2,
    save : BOOLEAN, kick : BOOLEAN, recent : BOOLEAN]

TypeOK ==
    /\ sock \in [Sockets -> [state : {"idle", "open", "closed"}, session : Maybe(Sockets)]]
    /\ session \in [Sockets -> SessionType]
    /\ sessions \in [Accounts -> Maybe(Sockets)]
    /\ addQueue \in Seq(Sockets) /\ adding \in Seq(Sockets) /\ waiting \in Seq(Sockets)
    /\ wpc \in {"tick", "add", "update", "take", "packets", "state", "maps", "results",
               "commands", "stopped"}
    /\ todo \subseteq Accounts /\ wcur \in Maybe(Sockets) /\ batch \in Seq(Packet)
    /\ stopping \in BOOLEAN
    /\ logins \in Seq(Accounts) /\ online \in [Accounts -> Nat] /\ dirty \in [Accounts -> BOOLEAN]
    /\ packets \in Nat /\ kicks \in Nat

(***************************************************************************)
(* A character in the world belongs to the session of its account, and a   *)
(* session has no character that is not there: neither a reconnect nor a   *)
(* lost client nor a late answer of the database leaves a character        *)
(* behind, or in the world twice.                                          *)
(***************************************************************************)
EveryCharacterHasItsSession ==
    \A a \in Accounts :
        online[a] = IF sessions[a] # None /\ session[sessions[a]].player = "world" THEN 1 ELSE 0

(***************************************************************************)
(* Each account can only have one online character at any given time, as   *)
(* the comment in WorldSession::LogoutPlayer says.                         *)
(***************************************************************************)
OneCharacterOnline == \A a \in Accounts : online[a] <= 1

(***************************************************************************)
(* The destructor of a session unloads its player if it is not unloaded,   *)
(* as its comment says: no character is left without a session.            *)
(***************************************************************************)
NoCharacterWithoutSession == \A a \in Accounts : sessions[a] = None => online[a] = 0

(***************************************************************************)
(* A character leaves the world saved, however its session ended.          *)
(***************************************************************************)
NothingLostAtLogout == [][\A a \in Accounts : online'[a] < online[a] => ~dirty'[a]]_vars

(***************************************************************************)
(* When the world has stopped, every character has been saved and has left *)
(* the world, whatever state its session was in.                           *)
(***************************************************************************)
ShutdownSavesEveryone == wpc = "stopped" => \A a \in Accounts : online[a] = 0 /\ ~dirty[a]

(***************************************************************************)
(* The packets of the client a session answers to reach that session: the  *)
(* socket a session holds was not taken over by, or left to, another one.  *)
(***************************************************************************)
SocketsRouteToTheirSession ==
    \A a \in Registered : LET c == session[sessions[a]].socket IN
        Open(c) => sock[c].session = sessions[a]

(***************************************************************************)
(* The queue of a full server holds exactly the sessions that are told to  *)
(* wait, each once, and none that has been deleted.                        *)
(***************************************************************************)
QueueMatchesSessions ==
    /\ \A i, j \in DOMAIN waiting : i # j => waiting[i] # waiting[j]
    /\ ~stopping =>
           Elements(waiting) =
               {sessions[a] : a \in {b \in Registered : session[sessions[b]].inQueue}}

AdmittedPlayers == {a \in Registered \cap Players : sessions[a] \notin Elements(waiting)}

(***************************************************************************)
(* No more players are admitted than the limit allows, and no player waits *)
(* while there is room.                                                    *)
(***************************************************************************)
LimitIsExact ==
    PlayerLimit > 0 /\ ~stopping =>
        /\ Cardinality(AdmittedPlayers) <= PlayerLimit
        /\ waiting # <<>> => Active >= PlayerLimit

(***************************************************************************)
(* Players are admitted in the order in which they came: who leaves the    *)
(* queue while its session lives was ahead of all who stay.                *)
(***************************************************************************)
AdmittedInOrder ==
    [][\A i, j \in DOMAIN waiting :
          /\ i < j /\ ~stopping'
          /\ waiting[j] \notin Elements(waiting') /\ session'[waiting[j]].state # "destroyed"
          => waiting[i] \notin Elements(waiting')]_vars

(***************************************************************************)
(* A session whose client is gone ends, unless the client comes back: an   *)
(* account is never locked by a character nobody plays.                    *)
(***************************************************************************)
Deserted(s) ==
    /\ session[s].state \notin {"none", "destroyed"}
    /\ \E a \in Accounts : sessions[a] = s
    /\ ~Open(session[s].socket)

DesertedSessionsEnd == \A s \in Sockets : Deserted(s) ~> (~Deserted(s) \/ wpc = "stopped")
=============================================================================
