------------------------- MODULE BattleGroundQueue -------------------------
(***************************************************************************)
(* The battleground queue (BattleGround/BattleGroundQueue.cpp): what its   *)
(* thread does to its own data.  One battleground type and one level       *)
(* bracket, the default invitation type (0: fill up) and no premade match. *)
(*                                                                         *)
(* The queue is a record                                                   *)
(*   groups      of each side, in the order they joined: who they are and  *)
(*               the battleground they are invited to (0: none);           *)
(*   member      the group a player is queued with (0: none);              *)
(*   freeSlots   the battlegrounds that may take players, the queue's own  *)
(*               copy of their status and of how many it has invited;      *)
(*   scheduled   an update of the queue was asked for;                     *)
(*   created     how many battlegrounds and how many groups there were.    *)
(* An operator that changes it returns the changed queue and the messages  *)
(* for the world thread, in order.                                         *)
(***************************************************************************)
EXTENDS Integers, Sequences, FiniteSets, SequencesExt

CONSTANTS Players, Team,        \* the side of each player
          MinPerTeam, MaxPerTeam,
          MaxJoins,             \* joins of the queue
          Width                 \* the invited counters are uint32

Sides == {"alliance", "horde"}
MaxInstances == MaxJoins \div 2  \* a match takes a group of each side
Battlegrounds == 1..MaxInstances

ASSUME TeamAssumption == IsFiniteSet(Players) /\ Team \in [Players -> Sides]
ASSUME SizeAssumption == /\ MinPerTeam \in Nat \ {0}
                         /\ MaxPerTeam \in Nat /\ MaxPerTeam >= MinPerTeam
                         /\ MaxJoins \in Nat
                         /\ Width \in Nat /\ Width > Cardinality(Players)

Counters == [Sides -> 0..Width - 1]
None == [s \in Sides |-> 0]
Joinable == {"wait_join", "in_progress"}
Statuses == Joinable \union {"none", "wait_leave"}

Groups == [id : 1..MaxJoins, players : SUBSET Players, to : 0..MaxInstances]
Slots == [bg : Battlegrounds, status : Statuses, invited : Counters]
Queues == [groups : [Sides -> Seq(Groups)], member : [Players -> 0..MaxJoins],
           freeSlots : Seq(Slots), scheduled : BOOLEAN,
           created : 0..MaxInstances, joined : 0..MaxJoins]

EmptyQueue == [groups |-> [s \in Sides |-> << >>],
               member |-> [p \in Players |-> 0],
               freeSlots |-> << >>, scheduled |-> FALSE,
               created |-> 0, joined |-> 0]

Answer(q, sent) == [queue |-> q, sent |-> sent]

\* Faulty variant: without the width of the counter.
PlusUnbounded(counters, s, n) == [counters EXCEPT ![s] = @ + n]

Plus(counters, s, n) == [counters EXCEPT ![s] = (@ + n) % Width]

(***************************************************************************)
(* Reading the queue.                                                      *)
(***************************************************************************)
GroupsOf(q) == UNION {ToSet(q.groups[s]) : s \in Sides}

GroupOf(q, p) == CHOOSE g \in GroupsOf(q) : g.id = q.member[p]

IsQueued(q, p) == q.member[p] # 0

InvitedTo(q, p) == IF IsQueued(q, p) THEN GroupOf(q, p).to ELSE 0

\* GetFreeSlotInstance: the first entry of a battleground, if there is one.
HasSlot(q, i) == \E k \in DOMAIN q.freeSlots : q.freeSlots[k].bg = i

FirstSlot(q, i) == SelectInSeq(q.freeSlots, LAMBDA e : e.bg = i)

\* Faulty variant: the player is invited to that battleground, by whatever
\* invitation.
IsPlayerInvitedSomehow(q, p, i, id) == IsQueued(q, p) /\ InvitedTo(q, p) = i

\* The removal time of the invitation tells apart two invitations of a
\* player to one battleground; so does the identity of the group.
IsPlayerInvited(q, p, i, id) == q.member[p] = id /\ InvitedTo(q, p) = i

GetFreeSlotsForTeam(e, s) ==
  IF e.status \in Joinable /\ e.invited[s] < MaxPerTeam
    THEN MaxPerTeam - e.invited[s] ELSE 0

(***************************************************************************)
(* Members.                                                                *)
(***************************************************************************)
AddGroup(q, players) ==
  LET id == q.joined + 1
      side == Team[CHOOSE p \in players : TRUE]
      group == [id |-> id, players |-> players, to |-> 0]
  IN [q EXCEPT !.groups[side] = Append(@, group), !.joined = id,
               !.member = [p \in Players |-> IF p \in players THEN id ELSE @[p]]]

\* The counter of the battleground follows in a message of its own.
DecreaseInvitedCount(q, i, s) ==
  IF ~HasSlot(q, i) THEN Answer(q, << >>)
  ELSE LET k == FirstSlot(q, i)
           left == Plus(q.freeSlots[k].invited, s, -1)
       IN Answer([q EXCEPT !.freeSlots[k].invited = left],
                 <<[type |-> "Count", bg |-> i, side |-> s, count |-> left[s]]>>)

RemovePlayer(q, p, decrease) ==
  IF ~IsQueued(q, p) THEN Answer(q, << >>)
  ELSE LET g == GroupOf(q, p)
           s == Team[p]
           k == SelectInSeq(q.groups[s], LAMBDA h : h.id = g.id)
           rest == IF g.players = {p} THEN RemoveAt(q.groups[s], k)
                   ELSE [q.groups[s] EXCEPT ![k].players = @ \ {p}]
           without == [q EXCEPT !.groups[s] = rest, !.member[p] = 0]
       IN IF decrease /\ g.to # 0 THEN DecreaseInvitedCount(without, g.to, s)
                                  ELSE Answer(without, << >>)

(***************************************************************************)
(* Invitations.  A selection pool takes the groups in order, the ones not  *)
(* invited yet that still fit, until it has enough players.                *)
(***************************************************************************)
SelectionPool(groups, room, enough) ==
  LET pool[k \in 0..Len(groups)] ==
        IF k = 0 THEN [ids |-> {}, count |-> 0]
        ELSE LET g == groups[k]
                 count == pool[k - 1].count + Cardinality(g.players)
             IN IF g.to = 0 /\ pool[k - 1].count < enough /\ count <= room
                  THEN [ids |-> pool[k - 1].ids \union {g.id}, count |-> count]
                  ELSE pool[k - 1]
  IN pool[Len(groups)]

\* The messages of one invited group, each followed by the new count.  The
\* counts of a new battleground reach the world before the battleground does
\* and are dropped there: they are left out.
InvitationsOf(g, e, s) ==
  LET players == SetToSeq(g.players)
      Invite(k) == [type |-> "Invited", player |-> players[k], bg |-> e.bg, id |-> g.id]
      Count(k) == [type |-> "Count", bg |-> e.bg, side |-> s,
                   count |-> (e.invited[s] + k) % Width]
  IN IF e.status = "none" THEN [k \in 1..Len(players) |-> Invite(k)]
     ELSE [k \in 1..2 * Len(players) |->
             IF k % 2 = 1 THEN Invite((k + 1) \div 2) ELSE Count(k \div 2)]

\* InviteGroupToBg, for the selected groups of one side: the groups, the
\* entry of the battleground and the messages.
InvitedGroups(groups, ids, i) ==
  [k \in DOMAIN groups |->
     IF groups[k].id \in ids THEN [groups[k] EXCEPT !.to = i] ELSE groups[k]]

InviteSide(groups, ids, e, s) ==
  LET after[k \in 0..Len(groups)] ==
        IF k = 0 THEN [entry |-> e, sent |-> << >>]
        ELSE LET g == groups[k]
                 so == after[k - 1]
             IN IF g.id \notin ids THEN so
                ELSE [entry |-> [so.entry EXCEPT !.invited =
                                   Plus(@, s, Cardinality(g.players))],
                      sent |-> so.sent \o InvitationsOf(g, so.entry, s)]
  IN after[Len(groups)]

InviteSelected(q, ids, e) ==
  LET a == InviteSide(q.groups["alliance"], ids, e, "alliance")
      h == InviteSide(q.groups["horde"], ids, a.entry, "horde")
  IN [groups |-> [s \in Sides |-> InvitedGroups(q.groups[s], ids, e.bg)],
      entry |-> h.entry, sent |-> a.sent \o h.sent]

\* FillPlayersToBg for the k-th entry, and the invitations.  HasFreeSlots
\* is true: an entry is filled in at creation or at the first departure.
FillPlayersToBg(ans, k) ==
  LET q == ans.queue
      e == q.freeSlots[k]
      Room(s) == GetFreeSlotsForTeam(e, s)
      ids == UNION {SelectionPool(q.groups[s], Room(s), Room(s)).ids : s \in Sides}
      invited == InviteSelected(q, ids, e)
  IN IF e.status \notin Joinable THEN ans
     ELSE Answer([q EXCEPT !.groups = invited.groups,
                           !.freeSlots[k] = invited.entry],
                 ans.sent \o invited.sent)

\* CheckNormalMatch, and the new battleground if there are enough players.
\* Only its entry exists until the world thread has the message.
StartNormalMatch(ans) ==
  LET q == ans.queue
      pool == [s \in Sides |-> SelectionPool(q.groups[s], MaxPerTeam, MinPerTeam)]
      i == q.created + 1
      invited == InviteSelected(q, UNION {pool[s].ids : s \in Sides},
                                [bg |-> i, status |-> "none", invited |-> None])
  IN IF \E s \in Sides : pool[s].count < MinPerTeam THEN ans
     ELSE Answer([q EXCEPT !.groups = invited.groups, !.created = i,
                           !.freeSlots = <<invited.entry>> \o @],
                 ans.sent \o invited.sent
                   \o <<[type |-> "Create", bg |-> i,
                         counts |-> invited.entry.invited]>>)

\* BattleGroundQueueItem::Update: every entry is filled up, front to back,
\* then at most one match is made.
Update(q) ==
  LET idle == [q EXCEPT !.scheduled = FALSE]
      filled[k \in 0..Len(q.freeSlots)] ==
        IF k = 0 THEN Answer(idle, << >>) ELSE FillPlayersToBg(filled[k - 1], k)
  IN IF GroupsOf(q) = {} THEN Answer(idle, << >>)
     ELSE StartNormalMatch(filled[Len(q.freeSlots)])

(***************************************************************************)
(* The free slots, as the battlegrounds change them.                       *)
(***************************************************************************)
AddBgToFreeSlots(q, e) == [q EXCEPT !.freeSlots = <<e>> \o @]

\* Faulty variant: every entry of the battleground goes.
RemoveAllFromFreeSlots(q, i) ==
  [q EXCEPT !.freeSlots = SelectSeq(@, LAMBDA e : e.bg # i)]

RemoveBgFromFreeSlots(q, i) ==
  IF HasSlot(q, i) THEN [q EXCEPT !.freeSlots = RemoveAt(@, FirstSlot(q, i))] ELSE q

SetSlotStatus(q, i, status) ==
  IF HasSlot(q, i) THEN [q EXCEPT !.freeSlots[FirstSlot(q, i)].status = status] ELSE q

ScheduleQueueUpdate(q) == [q EXCEPT !.scheduled = TRUE]
=============================================================================
