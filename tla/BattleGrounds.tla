--------------------------- MODULE BattleGrounds ---------------------------
(***************************************************************************)
(* Battlegrounds and their queue: the world thread (the players, the       *)
(* battlegrounds and their maps) and the thread of the queue, which share  *)
(* nothing and send each other messages, each side its own queue of them   *)
(* (Messager.h).  What one side knows of the other is as old as the        *)
(* messages under way.                                                     *)
(***************************************************************************)
EXTENDS BattleGroundQueue

CONSTANTS Parties,              \* who joins together: sets of players
          MaxMessages,          \* nothing new is begun with so many under way
          MaxTrips,             \* logouts and travels outside battlegrounds
          Travellers,           \* who travels outside battlegrounds
          PatientClients        \* clients wait for the answer, see Patient

ASSUME PartyAssumption ==
  /\ Parties \subseteq SUBSET Players
  /\ \A party \in Parties : /\ party # {} /\ Cardinality(party) <= MaxPerTeam
                            /\ \A p, o \in party : Team[p] = Team[o]
ASSUME BoundAssumption == /\ MaxMessages \in Nat /\ MaxTrips \in Nat
                          /\ Travellers \subseteq Players /\ PatientClients \in BOOLEAN

VARIABLES
  where,     \* in the world, loading a battleground, loading a map, offline
  slot,      \* the player has the queue in one of his slots
  invite,    \* the battleground that slot is an invitation to
  at,        \* his battleground (saved with the character)
  timers,    \* his BgQueueRemoveEvents: the battleground, the group
  bgs,       \* the battlegrounds
  queue,     \* the data of the queue thread
  toWorld, toQueue,
  trips,     \* how often players logged out or travelled
  missed     \* history: who was not in the world when a message about his
             \* present place in the queue came

vars == <<where, slot, invite, at, timers, bgs, queue, toWorld, toQueue, trips, missed>>
playerVars == <<where, slot, invite, at, timers, trips, missed>>

Places == {"world", "to_bg", "away", "offline"}
Instance == [status : Statuses, invited : Counters, listed : BOOLEAN,
             players : SUBSET Players]
NoInstance == [status |-> "none", invited |-> None, listed |-> FALSE, players |-> {}]

Exists(i) == i # 0 /\ bgs[i].status # "none"
InWorld(p) == where[p] = "world"        \* what sObjectMgr.GetPlayer finds

Init ==
  /\ where = [p \in Players |-> "world"]
  /\ slot = [p \in Players |-> FALSE]
  /\ invite = [p \in Players |-> 0]
  /\ at = [p \in Players |-> 0]
  /\ timers = [p \in Players |-> {}]
  /\ bgs = [i \in Battlegrounds |-> NoInstance]
  /\ queue = EmptyQueue
  /\ toWorld = << >> /\ toQueue = << >>
  /\ trips = 0
  /\ missed = {}

(***************************************************************************)
(* The messages.                                                           *)
(***************************************************************************)
Tell(ms) == toQueue' = toQueue \o ms

\* The world thread handles the first message with the rest of the action.
OnWorld(type) ==
  /\ toWorld # << >> /\ Head(toWorld).type = type
  /\ toWorld' = Tail(toWorld)

OnQueue(type) ==
  /\ toQueue # << >> /\ Head(toQueue).type = type
  /\ toQueue' = Tail(toQueue)
  /\ UNCHANGED <<where, slot, invite, at, timers, trips, bgs>>

Answers(answer) ==
  \E ans \in {answer} :
    /\ queue' = ans.queue /\ toWorld' = toWorld \o ans.sent
    /\ missed' = {p \in missed : ans.queue.member[p] = queue.member[p]}

Misses(p, id) == missed' = IF queue.member[p] = id THEN missed \union {p} ELSE missed

\* A join or a click of the player is not through yet.
Unanswered(p) ==
  \/ \E m \in ToSet(toQueue) : \/ m.type = "Join" /\ p \in m.players
                               \/ m.type = "Port" /\ m.player = p
  \/ \E m \in ToSet(toWorld) : \/ m.type = "Joined" /\ p \in m.players
                               \/ m.type = "Enter" /\ m.player = p

\* The clients of a run with PatientClients do not go offline, travel or
\* join again in these moments, which last a tick of either thread.
Patient(p) == PatientClients => ~Unanswered(p)

\* Who has no business with a battleground or the queue comes and goes
\* without a trace.
HasBusiness(p) == slot[p] \/ at[p] # 0 \/ IsQueued(queue, p) \/ Unanswered(p)

Trip(p) == trips < MaxTrips /\ trips' = trips + 1 /\ HasBusiness(p)

RoomForMessages == Len(toWorld) + Len(toQueue) < MaxMessages

(***************************************************************************)
(* RemovePlayerAtLeave: the player, if he took part, is no longer counted; *)
(* a battleground that is not listed is listed now, with its counters, the *)
(* entry of one that is loses one, and an update is asked for (in a message *)
(* of its own, taken here as part of the first).                           *)
(***************************************************************************)
TookPart(p, i) == p \in bgs[i].players

Remaining(i, gone) ==
  LET b == bgs[i]
      Of(s) == {p \in gone \intersect b.players : Team[p] = s}
  IN [b EXCEPT !.players = @ \ gone,
               !.invited = [s \in Sides |-> (@[s] - Cardinality(Of(s))) % Width],
               !.listed = @ \/ (b.status \in Joinable /\ gone \intersect b.players # {})]

LeaveMessages(p, i) ==
  IF ~TookPart(p, i) \/ bgs[i].status \notin Joinable THEN << >>
  ELSE <<IF bgs[i].listed
           THEN [type |-> "Decrease", bg |-> i, side |-> Team[p]]
           ELSE [type |-> "FreeAdd",
                 entry |-> [bg |-> i, status |-> bgs[i].status,
                            invited |-> Remaining(i, {p}).invited]]>>

\* What a player who is in the world loses with it.
GivesUpSlots(gone) ==
  /\ slot' = [p \in Players |-> slot[p] /\ p \notin gone]
  /\ invite' = [p \in Players |-> IF p \in gone THEN 0 ELSE invite[p]]

(***************************************************************************)
(* What the players do.                                                    *)
(***************************************************************************)
JoinsUnderWay == {k \in DOMAIN toQueue : toQueue[k].type = "Join"}

Join(party) ==
  /\ queue.joined + Cardinality(JoinsUnderWay) < MaxJoins
  /\ RoomForMessages
  /\ \A p \in party : where[p] # "offline" /\ ~slot[p] /\ Patient(p)
  /\ \E leader \in party : InWorld(leader) /\ at[leader] = 0
  /\ PatientClients => \A p \in party : InWorld(p)
  /\ Tell(<<[type |-> "Join", players |-> party]>>)
  /\ UNCHANGED <<playerVars, bgs, queue, toWorld>>

\* CMSG_BATTLEFIELD_PORT: the button of the invitation, or of the queue.
Port(p, enter) ==
  /\ InWorld(p) /\ slot[p] /\ at[p] = 0
  /\ enter => invite[p] # 0
  /\ Patient(p) /\ RoomForMessages
  /\ Tell(<<[type |-> "Port", player |-> p, enter |-> enter]>>)
  /\ UNCHANGED <<playerVars, bgs, queue, toWorld>>

\* The battleground notes the absence of its player (even of one who never
\* came in), pending transfers are finished, the queue is told.
Logout(p) ==
  /\ where[p] # "offline"
  /\ Patient(p) /\ RoomForMessages /\ Trip(p)
  /\ bgs' = IF Exists(at[p]) THEN [bgs EXCEPT ![at[p]].players = @ \union {p}] ELSE bgs
  /\ at' = [at EXCEPT ![p] =
              IF where[p] = "away" \/ (where[p] = "to_bg" /\ ~Exists(@)) THEN 0 ELSE @]
  /\ where' = [where EXCEPT ![p] = "offline"]
  /\ GivesUpSlots({p})
  /\ timers' = [timers EXCEPT ![p] = {}]
  /\ Tell(IF slot[p] THEN <<[type |-> "Remove", player |-> p]>> ELSE << >>)
  /\ UNCHANGED <<queue, toWorld, missed>>

\* Back into the battleground, if it still counts him and is not over.
Login(p) ==
  LET i == at[p]
      member == Exists(i) /\ TookPart(p, i)
      stays == member /\ bgs[i].status # "wait_leave"
  IN /\ where[p] = "offline"
     /\ where' = [where EXCEPT ![p] = "world"]
     /\ slot' = [slot EXCEPT ![p] = stays]
     /\ invite' = [invite EXCEPT ![p] = IF stays THEN i ELSE 0]
     /\ at' = [at EXCEPT ![p] = IF stays THEN i ELSE 0]
     /\ bgs' = IF member /\ ~stays THEN [bgs EXCEPT ![i] = Remaining(i, {p})] ELSE bgs
     /\ UNCHANGED <<timers, queue, toWorld, toQueue, trips, missed>>

\* A player leaves his battleground, or changes the map in any other way.
ChangeMap(p) ==
  LET i == at[p]
  IN /\ InWorld(p) /\ Patient(p) /\ RoomForMessages
     /\ IF at[p] = 0 THEN p \in Travellers /\ Trip(p) ELSE UNCHANGED trips
     /\ where' = [where EXCEPT ![p] = "away"]
     /\ IF Exists(i)
          THEN /\ GivesUpSlots(IF TookPart(p, i) THEN {p} ELSE {})
               /\ at' = [at EXCEPT ![p] = 0]
               /\ bgs' = [bgs EXCEPT ![i] = Remaining(i, {p})]
               /\ Tell(LeaveMessages(p, i))
          ELSE UNCHANGED <<slot, invite, at, bgs, toQueue>>
     /\ UNCHANGED <<timers, queue, toWorld, missed>>

\* HandleMoveWorldportAckOpcode: only who is invited becomes a member.
\* Without its battleground there is no such map: he is sent home.
Arrive(p) ==
  /\ \/ /\ where[p] = "to_bg" /\ Exists(at[p])
        /\ where' = [where EXCEPT ![p] = "world"]
        /\ bgs' = IF invite[p] = at[p]
                    THEN [bgs EXCEPT ![at[p]].players = @ \union {p}] ELSE bgs
        /\ UNCHANGED at
     \/ /\ where[p] = "to_bg" /\ ~Exists(at[p])
        /\ where' = [where EXCEPT ![p] = "away"]
        /\ at' = [at EXCEPT ![p] = 0]
        /\ UNCHANGED bgs
     \/ /\ where[p] = "away"
        /\ where' = [where EXCEPT ![p] = "world"]
        /\ at' = [at EXCEPT ![p] = 0]
        /\ UNCHANGED bgs
  /\ UNCHANGED <<slot, invite, timers, queue, toWorld, toQueue, trips, missed>>

\* BgQueueRemoveEvent, 80 seconds after the player heard of the invitation.
RemoveEvent(p) ==
  /\ InWorld(p) /\ RoomForMessages
  /\ \E t \in timers[p] :
       /\ timers' = [timers EXCEPT ![p] = @ \ {t}]
       /\ toWorld' = Append(toWorld, [type |-> "Timer", player |-> p,
                                      bg |-> t.bg, id |-> t.id])
  /\ UNCHANGED <<where, slot, invite, at, bgs, queue, toQueue, trips, missed>>

(***************************************************************************)
(* What the battlegrounds do, in the update of their maps.                 *)
(***************************************************************************)
SetStatus(i, status) == [type |-> "Status", bg |-> i, status |-> status]

Start(i) ==
  /\ bgs[i].status = "wait_join" /\ bgs[i].players # {} /\ RoomForMessages
  /\ bgs' = [bgs EXCEPT ![i].status = "in_progress"]
  /\ Tell(<<SetStatus(i, "in_progress")>>)
  /\ UNCHANGED <<playerVars, queue, toWorld>>

RemovedFromBgFreeSlotQueue(i) ==
  IF bgs[i].listed THEN <<[type |-> "FreeRemove", bg |-> i]>> ELSE << >>

EndBattleGround(i) ==
  /\ bgs[i].status = "in_progress" /\ bgs[i].players # {} /\ RoomForMessages
  /\ bgs' = [bgs EXCEPT ![i].status = "wait_leave", ![i].listed = FALSE]
  /\ Tell(RemovedFromBgFreeSlotQueue(i) \o <<SetStatus(i, "wait_leave")>>)
  /\ UNCHANGED <<playerVars, queue, toWorld>>

\* Two minutes after the end everyone is sent home.
SendHome(i) ==
  LET here == {p \in bgs[i].players : InWorld(p)}
  IN /\ bgs[i].status = "wait_leave" /\ bgs[i].players # {} /\ RoomForMessages
     /\ bgs' = [bgs EXCEPT ![i] = Remaining(i, @.players)]
     /\ GivesUpSlots(here)
     /\ at' = [p \in Players |-> IF p \in here THEN 0 ELSE at[p]]
     /\ where' = [p \in Players |-> IF p \in here THEN "away" ELSE where[p]]
     /\ UNCHANGED <<timers, queue, toWorld, toQueue, trips, missed>>

\* Five minutes offline.
RemoveOffline(i, p) ==
  /\ TookPart(p, i) /\ where[p] = "offline" /\ RoomForMessages
  /\ bgs' = [bgs EXCEPT ![i] = Remaining(i, {p})]
  /\ Tell(LeaveMessages(p, i))
  /\ UNCHANGED <<playerVars, queue, toWorld>>

\* Nobody inside and nobody invited: the map drops it, the manager deletes.
RemoveBattleGround(i) ==
  /\ Exists(i) /\ bgs[i].players = {} /\ bgs[i].invited = None /\ RoomForMessages
  /\ bgs' = [bgs EXCEPT ![i] = NoInstance]
  /\ Tell(RemovedFromBgFreeSlotQueue(i))
  /\ UNCHANGED <<playerVars, queue, toWorld>>

(***************************************************************************)
(* The messages of the queue, handled by the world thread.  Nobody is told *)
(* who is not in the world then.                                           *)
(***************************************************************************)
Joined ==
  /\ OnWorld("Joined")
  /\ LET told == {p \in Head(toWorld).players : InWorld(p)}
     IN /\ slot' = [p \in Players |-> slot[p] \/ p \in told]
        /\ invite' = [p \in Players |-> IF p \in told THEN 0 ELSE invite[p]]
  /\ UNCHANGED <<where, at, timers, bgs, queue, toQueue, trips, missed>>

Invited ==
  /\ OnWorld("Invited")
  /\ LET m == Head(toWorld)
         p == m.player
     IN IF InWorld(p)
          THEN /\ invite' = [invite EXCEPT ![p] = IF slot[p] THEN m.bg ELSE @]
               /\ timers' = [timers EXCEPT ![p] = @ \union {[bg |-> m.bg, id |-> m.id]}]
               /\ missed' = missed
          ELSE UNCHANGED <<invite, timers>> /\ Misses(p, m.id)
  /\ UNCHANGED <<where, slot, at, bgs, queue, toQueue, trips>>

SetInvitedCount ==
  /\ OnWorld("Count")
  /\ LET m == Head(toWorld)
     IN bgs' = IF Exists(m.bg)
                 THEN [bgs EXCEPT ![m.bg].invited[m.side] = m.count] ELSE bgs
  /\ UNCHANGED <<playerVars, queue, toQueue>>

\* The new battleground does not know that the queue lists it.
CreateNewBattleGround ==
  /\ OnWorld("Create")
  /\ LET m == Head(toWorld)
     IN /\ bgs' = [bgs EXCEPT ![m.bg] = [NoInstance EXCEPT !.status = "wait_join",
                                                            !.invited = m.counts]]
        /\ Tell(<<SetStatus(m.bg, "wait_join")>>)
  /\ UNCHANGED <<playerVars, queue>>

\* Out of the battleground he is in, if any, and off to the new one.
Enter ==
  /\ OnWorld("Enter")
  /\ LET p == Head(toWorld).player
         i == Head(toWorld).bg
         old == at[p]
     IN IF ~InWorld(p) THEN UNCHANGED <<playerVars, bgs, toQueue>>
        ELSE /\ IF Exists(old)
                  THEN /\ GivesUpSlots(IF TookPart(p, old) THEN {p} ELSE {})
                       /\ bgs' = [bgs EXCEPT ![old] = Remaining(old, {p})]
                       /\ Tell(LeaveMessages(p, old))
                  ELSE UNCHANGED <<slot, invite, bgs, toQueue>>
             /\ at' = [at EXCEPT ![p] = i]
             /\ where' = [where EXCEPT ![p] = IF Exists(i) THEN "to_bg" ELSE @]
             /\ UNCHANGED <<timers, trips, missed>>
  /\ UNCHANGED queue

Left ==
  /\ OnWorld("Left")
  /\ GivesUpSlots({Head(toWorld).player} \intersect {p \in Players : InWorld(p)})
  /\ UNCHANGED <<where, at, timers, bgs, queue, toQueue, trips, missed>>

\* The queue decides whether the invitation that ran out is the present one.
Timer ==
  /\ OnWorld("Timer")
  /\ LET m == Head(toWorld)
     IN /\ Tell(IF InWorld(m.player) /\ slot[m.player]
                  THEN <<[type |-> "Expire", player |-> m.player, bg |-> m.bg, id |-> m.id,
                          open |-> Exists(m.bg) /\ bgs[m.bg].status # "wait_leave"]>>
                  ELSE << >>)
        /\ IF InWorld(m.player) THEN missed' = missed ELSE Misses(m.player, m.id)
  /\ UNCHANGED <<where, slot, invite, at, timers, trips, bgs, queue>>

WorldMessage == Joined \/ Invited \/ SetInvitedCount \/ CreateNewBattleGround
                  \/ Enter \/ Left \/ Timer

(***************************************************************************)
(* The messages of the world thread, handled by the queue.                 *)
(***************************************************************************)
JoinQueue ==
  /\ OnQueue("Join")
  /\ LET members == Head(toQueue).players
     IN Answers(Answer(ScheduleQueueUpdate(AddGroup(queue, members)),
                       <<[type |-> "Joined", players |-> members]>>))

\* Accepting takes the player out of the queue but leaves him counted.
PortQueue ==
  /\ OnQueue("Port")
  /\ LET p == Head(toQueue).player
         enter == Head(toQueue).enter
         to == InvitedTo(queue, p)
         gone == RemovePlayer(queue, p, ~enter)
     IN Answers(
          IF ~IsQueued(queue, p) \/ (enter /\ to = 0) THEN Answer(queue, << >>)
          ELSE IF enter
            THEN Answer(gone.queue, <<[type |-> "Enter", player |-> p, bg |-> to]>>)
            ELSE Answer(ScheduleQueueUpdate(gone.queue),
                        gone.sent \o <<[type |-> "Left", player |-> p]>>))

\* Faulty variant: only who is invited is removed when he logs out.
RemoveInvitedFromQueue ==
  /\ OnQueue("Remove")
  /\ LET p == Head(toQueue).player
     IN Answers(IF InvitedTo(queue, p) = 0 THEN Answer(queue, << >>)
                ELSE RemovePlayer(queue, p, TRUE))

RemoveFromQueue ==
  /\ OnQueue("Remove")
  /\ Answers(RemovePlayer(queue, Head(toQueue).player, TRUE))

\* Faulty variant: the place of the player stays taken.
ExpireKeepsCount ==
  /\ OnQueue("Expire")
  /\ LET m == Head(toQueue)
         gone == RemovePlayer(queue, m.player, FALSE)
     IN Answers(
          IF ~IsPlayerInvited(queue, m.player, m.bg, m.id) THEN Answer(queue, << >>)
          ELSE Answer(gone.queue, <<[type |-> "Left", player |-> m.player]>>))

\* Faulty variant: nothing is done when the battleground is over.
ExpireWhileOpen ==
  /\ OnQueue("Expire")
  /\ LET m == Head(toQueue)
         gone == RemovePlayer(queue, m.player, TRUE)
     IN Answers(
          IF ~m.open \/ ~IsPlayerInvited(queue, m.player, m.bg, m.id)
            THEN Answer(queue, << >>)
          ELSE Answer(ScheduleQueueUpdate(gone.queue),
                      gone.sent \o <<[type |-> "Left", player |-> m.player]>>))

Expire ==
  /\ OnQueue("Expire")
  /\ LET m == Head(toQueue)
         gone == RemovePlayer(queue, m.player, TRUE)
     IN Answers(
          IF ~IsPlayerInvited(queue, m.player, m.bg, m.id) THEN Answer(queue, << >>)
          ELSE Answer(IF m.open THEN ScheduleQueueUpdate(gone.queue) ELSE gone.queue,
                      gone.sent \o <<[type |-> "Left", player |-> m.player]>>))

ListBattleground ==
  /\ OnQueue("FreeAdd")
  /\ Answers(Answer(ScheduleQueueUpdate(AddBgToFreeSlots(queue, Head(toQueue).entry)),
                    << >>))

UnlistBattleground ==
  /\ OnQueue("FreeRemove")
  /\ Answers(Answer(RemoveBgFromFreeSlots(queue, Head(toQueue).bg), << >>))

SyncStatus ==
  /\ OnQueue("Status")
  /\ Answers(Answer(SetSlotStatus(queue, Head(toQueue).bg, Head(toQueue).status), << >>))

SyncDeparture ==
  /\ OnQueue("Decrease")
  /\ LET left == DecreaseInvitedCount(queue, Head(toQueue).bg, Head(toQueue).side)
     IN Answers(Answer(ScheduleQueueUpdate(left.queue), left.sent))

QueueMessage == JoinQueue \/ PortQueue \/ RemoveFromQueue \/ Expire
                  \/ ListBattleground \/ UnlistBattleground \/ SyncStatus
                  \/ SyncDeparture

UpdateQueue ==
  /\ queue.scheduled
  /\ Answers(Update(queue))
  /\ UNCHANGED <<where, slot, invite, at, timers, trips, bgs, toQueue>>

Next ==
  \/ \E party \in Parties : Join(party)
  \/ \E p \in Players : \/ \E enter \in BOOLEAN : Port(p, enter)
                        \/ Logout(p) \/ Login(p) \/ ChangeMap(p) \/ Arrive(p)
                        \/ RemoveEvent(p)
  \/ \E i \in Battlegrounds : \/ Start(i) \/ EndBattleGround(i) \/ SendHome(i)
                              \/ RemoveBattleGround(i)
                              \/ \E p \in Players : RemoveOffline(i, p)
  \/ WorldMessage \/ QueueMessage \/ UpdateQueue

Spec == Init /\ [][Next]_vars

\* Each thread goes on taking its messages, an event runs when its player is
\* in the world for long enough, a client loads the map it was sent to.
TakesMessage(messages) == messages # << >> /\ messages' = Tail(messages)

FairSpec ==
  /\ Spec
  /\ WF_toWorld(TakesMessage(toWorld)) /\ WF_toQueue(TakesMessage(toQueue))
  /\ \A p \in Players : WF_vars(Arrive(p)) /\ SF_vars(RemoveEvent(p))

(***************************************************************************)
(* Properties.                                                             *)
(***************************************************************************)
Quiet == toWorld = << >> /\ toQueue = << >>

\* The variables have their types.  The players of the messages aside, what
\* is under way is read by its handler only.
TypeOK ==
  /\ where \in [Players -> Places] /\ slot \in [Players -> BOOLEAN]
  /\ invite \in [Players -> 0..MaxInstances] /\ at \in [Players -> 0..MaxInstances]
  /\ timers \in [Players -> SUBSET [bg : Battlegrounds, id : 1..MaxJoins]]
  /\ bgs \in [Battlegrounds -> Instance] /\ queue \in Queues
  /\ missed \subseteq Players

\* Who is invited to a battleground finds it among the free slots when he
\* accepts: the assertion of HandleBattlefieldPortOpcode ("at this point must
\* always exist"), whatever battlegrounds ended or were deleted meanwhile.
InvitationsHaveABattleground ==
  \A g \in GroupsOf(queue) : g.to # 0 => HasSlot(queue, g.to)

\* When no message is under way the two threads agree: a player is queued
\* once at most and only while he is online with the queue in a slot, and an
\* invited player has been told where, and has the event that will end it,
\* unless that message found him on the way to another map.
QueuedPlayersKnow ==
  Quiet =>
    /\ \A g \in GroupsOf(queue) : \A p \in g.players : queue.member[p] = g.id
    /\ \A p \in Players : IsQueued(queue, p) =>
         /\ p \in GroupOf(queue, p).players
         /\ where[p] # "offline" /\ slot[p]
         /\ LET i == InvitedTo(queue, p)
            IN i # 0 /\ p \notin missed =>
                 /\ invite[p] = i
                 /\ [bg |-> i, id |-> queue.member[p]] \in timers[p]

\* Until the first departure a battleground and its entry count exactly the
\* players who are invited, on their way or inside: nobody is counted twice
\* or forgotten, so that it fills up, and is deleted when all are gone.
InvitedCountIsExact ==
  Quiet =>
    \A i \in Battlegrounds : bgs[i].status \in Joinable /\ ~bgs[i].listed =>
      \A s \in Sides :
        LET counted == {p \in Players : /\ Team[p] = s
                                        /\ InvitedTo(queue, p) = i \/ at[p] = i}
        IN /\ bgs[i].invited[s] = Cardinality(counted)
           /\ queue.freeSlots[FirstSlot(queue, i)].invited[s] = Cardinality(counted)

\* An invited player whose time has not run out leaves the queue only by his
\* own doing: neither the event of an earlier invitation nor the end of a
\* battleground takes a valid invitation away.
StaysUntilItsTime ==
  [][\A p \in Players :
       LET id == queue.member[p]
       IN [bg |-> InvitedTo(queue, p), id |-> id] \in timers[p] =>
            \/ queue'.member[p] = id
            \/ /\ toQueue # << >> /\ Head(toQueue).type \in {"Port", "Remove"}
               /\ Head(toQueue).player = p]_vars

\* An invitation of which the player hears does not last: it is accepted,
\* declined, given up with a logout, or ends after its 80 seconds, and its
\* place is free again.  Nothing ends one that the player missed.
InvitationsEnd ==
  \A p \in Players :
    InvitedTo(queue, p) # 0 ~> InvitedTo(queue, p) = 0 \/ p \in missed

\* A battleground is never offered to more players of a side than it takes.
TeamsFit ==
  \A i \in Battlegrounds, s \in Sides :
    Cardinality({p \in Players : /\ Team[p] = s
                                 /\ InvitedTo(queue, p) = i \/ TookPart(p, i)})
      <= MaxPerTeam
=============================================================================
