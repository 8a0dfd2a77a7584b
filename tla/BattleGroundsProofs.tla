------------------------ MODULE BattleGroundsProofs ------------------------
(***************************************************************************)
(* Proofs about BattleGrounds, for any players, parties and sizes, and any *)
(* number of joins and of messages under way.                              *)
(***************************************************************************)
EXTENDS BattleGrounds, Sums, SequenceTheorems, TLAPS

-----------------------------------------------------------------------------
(***************************************************************************)
(* Sequences and sets.                                                     *)
(***************************************************************************)
LEMMA LeastNumber ==
  ASSUME NEW I \in SUBSET Nat, I # {}
  PROVE  Min(I) \in I /\ \A k \in I : Min(I) <= k
  <1> DEFINE T == {n \in Nat : \A k \in I : k > n}
  <1>1. ASSUME \A m \in I : \E k \in I : k < m PROVE FALSE
    <2>1. 0 \in T
      <3> SUFFICES ASSUME NEW k \in I PROVE k > 0
        OBVIOUS
      <3>1. PICK j \in I : j < k
        BY <1>1
      <3> QED
        BY <3>1
    <2>2. ASSUME NEW n \in T PROVE n + 1 \in T
      <3> SUFFICES ASSUME NEW k \in I PROVE k > n + 1
        OBVIOUS
      <3>1. PICK j \in I : j < k
        BY <1>1
      <3>2. j > n
        OBVIOUS
      <3> QED
        BY <3>1, <3>2
    <2> HIDE DEF T
    <2>3. T = Nat
      <3>1. T \in SUBSET Nat
        BY DEF T
      <3> QED
        BY <2>1, <2>2, <3>1, NumbersByInduction
    <2>4. PICK m \in I : TRUE
      BY Zenon
    <2>5. m \in T
      BY <2>3
    <2> QED
      BY <2>5 DEF T
  <1>2. PICK m \in I : \A k \in I : ~(k < m)
    BY <1>1
  <1>3. \A k \in I : m <= k
    BY <1>2
  <1> QED
    BY <1>3, Zenon DEF Min

\* The elements of a sequence without its k-th.
Without(k, j) == IF j < k THEN j ELSE j + 1

LEMMA RemoveAtIs ==
  ASSUME NEW S, NEW s \in Seq(S), NEW k \in 1 .. Len(s)
  PROVE  /\ RemoveAt(s, k) \in Seq(S) /\ Len(RemoveAt(s, k)) = Len(s) - 1
         /\ \A j \in 1 .. Len(s) - 1 : RemoveAt(s, k)[j] = s[Without(k, j)]
  <1>1. PICK a, b : a = SubSeq(s, 1, k - 1) /\ b = SubSeq(s, k + 1, Len(s))
    BY Zenon
  <1>2. Len(s) \in Nat /\ \A j \in 1 .. Len(s) : s[j] \in S
    OBVIOUS
  <1>3. /\ a \in Seq(S) /\ Len(a) = k - 1 /\ \A j \in 1 .. k - 1 : a[j] = s[j]
    <2>1. \A j \in 1 .. k - 1 : s[j] \in S
      BY <1>2
    <2>2. /\ a \in Seq(S) /\ Len(a) = (IF 1 <= k - 1 THEN k - 1 - 1 + 1 ELSE 0)
          /\ \A j \in 1 .. k - 1 - 1 + 1 : a[j] = s[1 + j - 1]
      BY <1>1, <1>2, <2>1, SubSeqProperties
    <2> QED
      BY <1>2, <2>2
  <1>4. /\ b \in Seq(S) /\ Len(b) = Len(s) - k /\ \A j \in 1 .. Len(s) - k : b[j] = s[k + j]
    <2>1. \A j \in k + 1 .. Len(s) : s[j] \in S
      BY <1>2
    <2>2. k + 1 \in Int /\ Len(s) \in Int
      BY <1>2
    <2>3. /\ b \in Seq(S) /\ Len(b) = (IF k + 1 <= Len(s) THEN Len(s) - (k + 1) + 1 ELSE 0)
          /\ \A j \in 1 .. Len(s) - (k + 1) + 1 : b[j] = s[k + 1 + j - 1]
      BY <1>1, <2>1, <2>2, SubSeqProperties
    <2> QED
      BY <1>2, <2>3
  <1>5. RemoveAt(s, k) = a \o b
    BY <1>1 DEF RemoveAt
  <1>6. /\ a \o b \in Seq(S) /\ Len(a \o b) = Len(a) + Len(b)
        /\ \A j \in 1 .. Len(a) + Len(b) : (a \o b)[j] = IF j <= Len(a) THEN a[j] ELSE b[j - Len(a)]
    BY <1>3, <1>4, ConcatProperties, Zenon
  <1>7. ASSUME NEW j \in 1 .. Len(s) - 1 PROVE (a \o b)[j] = s[Without(k, j)]
    <2>1. j \in 1 .. Len(a) + Len(b)
      BY <1>2, <1>3, <1>4
    <2>2. CASE j < k
      BY <1>2, <1>3, <1>6, <2>1, <2>2 DEF Without
    <2>3. CASE ~(j < k)
      <3>1. j - (k - 1) \in 1 .. Len(s) - k /\ k + (j - (k - 1)) = j + 1
        BY <1>2, <2>3
      <3>2. (a \o b)[j] = b[j - (k - 1)]
        BY <1>2, <1>3, <1>6, <2>1, <2>3
      <3> QED
        BY <1>4, <2>3, <3>1, <3>2, Zenon DEF Without
    <2> QED
      BY <2>2, <2>3, Zenon
  <1> QED
    BY <1>2, <1>3, <1>4, <1>5, <1>6, <1>7

LEMMA SetToSeqIs ==
  ASSUME NEW S, IsFiniteSet(S)
  PROVE  /\ Cardinality(S) \in Nat /\ SetToSeq(S) \in [1 .. Cardinality(S) -> S]
         /\ \A x \in S : \E k \in 1 .. Cardinality(S) : SetToSeq(S)[k] = x
         /\ \A j, k \in 1 .. Cardinality(S) : SetToSeq(S)[j] = SetToSeq(S)[k] => j = k
  <1>1. Cardinality(S) \in Nat /\ ExistsBijection(1 .. Cardinality(S), S)
    BY FS_CardinalityType
  <1>2. PICK f : f \in Bijection(1 .. Cardinality(S), S)
    BY <1>1 DEF ExistsBijection
  <1>3. f \in [1 .. Cardinality(S) -> S] /\ IsInjective(f)
    BY <1>2 DEF Bijection, Injection
  <1>4. PICK g : g = SetToSeq(S)
    OBVIOUS
  <1>5. g \in [1 .. Cardinality(S) -> S] /\ IsInjective(g)
    BY <1>3, <1>4 DEF SetToSeq
  <1>6. g \in Injection(1 .. Cardinality(S), S)
    BY <1>5 DEF Injection
  <1>7. IsFiniteSet(1 .. Cardinality(S)) /\ Cardinality(1 .. Cardinality(S)) = Cardinality(S)
    BY <1>1, FS_Interval
  <1>8. g \in Surjection(1 .. Cardinality(S), S)
    BY <1>6, <1>7, FS_Injection
  <1>9. \A j, k \in 1 .. Cardinality(S) : g[j] = g[k] => j = k
    BY <1>5 DEF IsInjective
  <1> QED
    BY <1>1, <1>4, <1>5, <1>8, <1>9 DEF Surjection

LEMMA PrependIs ==
  ASSUME NEW S, NEW e \in S, NEW s \in Seq(S)
  PROVE  /\ <<e>> \o s \in Seq(S) /\ Len(<<e>> \o s) = Len(s) + 1
         /\ \A k \in 1 .. Len(s) + 1 : (<<e>> \o s)[k] = IF k = 1 THEN e ELSE s[k - 1]
  <1>1. <<e>> \in Seq(S) /\ Len(<<e>>) = 1 /\ <<e>>[1] = e /\ Len(s) \in Nat
    OBVIOUS
  <1>2. /\ <<e>> \o s \in Seq(S) /\ Len(<<e>> \o s) = Len(<<e>>) + Len(s)
        /\ \A k \in 1 .. Len(<<e>>) + Len(s) :
              (<<e>> \o s)[k] = IF k <= Len(<<e>>) THEN <<e>>[k] ELSE s[k - Len(<<e>>)]
    BY <1>1, ConcatProperties
  <1> QED
    BY <1>1, <1>2

-----------------------------------------------------------------------------
(***************************************************************************)
(* The data of the queue thread.                                           *)
(***************************************************************************)
\* A group of side s; ids and battlegrounds are given out in order.
GroupOk(g, s, joined, created) ==
    /\ g.players # {} /\ \A p \in g.players : Team[p] = s
    /\ g.id <= joined /\ g.to <= created

\* No two groups have the same id.
Apart(groups) ==
    \A s, t \in Sides : \A j \in DOMAIN groups[s], k \in DOMAIN groups[t] :
        groups[s][j].id = groups[t][k].id => s = t /\ j = k

\* The player stands in the queue with the group n, invited to i.
Seat(q, p, n, i) ==
    \E k \in DOMAIN q.groups[Team[p]] : LET g == q.groups[Team[p]][k]
                                        IN p \in g.players /\ g.id = n /\ g.to = i

\* The groups that are not invited yet.
Waiting(q) ==
    {n \in 1 .. q.joined : \E s \in Sides : \E k \in DOMAIN q.groups[s] :
                              q.groups[s][k].id = n /\ q.groups[s][k].to = 0}

GroupsOk(q) ==
    /\ \A s \in Sides : \A k \in DOMAIN q.groups[s] :
          GroupOk(q.groups[s][k], s, q.joined, q.created)
    /\ Apart(q.groups)

QueueOk(q) ==
    /\ q \in Queues /\ GroupsOk(q)
    /\ \A p \in Players : q.member[p] # 0 => \E i \in 0 .. MaxInstances : Seat(q, p, q.member[p], i)
    /\ \A k \in DOMAIN q.freeSlots : q.freeSlots[k].bg <= q.created
    /\ 2 * q.created + Cardinality(Waiting(q)) <= q.joined

LEMMA QueueTypes ==
  ASSUME NEW q, QueueOk(q)
  PROVE  /\ q.groups \in [Sides -> Seq(Groups)] /\ q.member \in [Players -> 0 .. MaxJoins]
         /\ q.freeSlots \in Seq(Slots) /\ q.scheduled \in BOOLEAN
         /\ q.created \in 0 .. MaxInstances /\ q.joined \in 0 .. MaxJoins
         /\ q = [groups |-> q.groups, member |-> q.member, freeSlots |-> q.freeSlots,
                 scheduled |-> q.scheduled, created |-> q.created, joined |-> q.joined]
  BY DEF QueueOk, Queues

LEMMA Numbers ==
  /\ MaxJoins \in Nat /\ MaxInstances \in Nat /\ Width \in Nat /\ 0 \in 0 .. MaxInstances
  /\ MinPerTeam \in Nat /\ MinPerTeam > 0 /\ MaxPerTeam \in Nat
  /\ Battlegrounds \subseteq 0 .. MaxInstances
  /\ 0 \in 0 .. Width - 1 /\ \A x \in Int : x % Width \in 0 .. Width - 1
  <1>1. /\ MaxJoins \in Nat /\ Width \in Nat /\ MinPerTeam \in Nat /\ MinPerTeam > 0
        /\ MaxPerTeam \in Nat /\ Width > Cardinality(Players)
    BY SizeAssumption
  <1>2. MaxInstances \in Nat
    BY <1>1 DEF MaxInstances
  <1>3. Cardinality(Players) \in Nat
    BY TeamAssumption, FS_CardinalityType
  <1>4. Width \in Nat /\ Width > 0
    BY <1>1, <1>3
  <1>5. \A x \in Int : x % Width \in 0 .. Width - 1
    BY <1>4
  <1> QED
    BY <1>1, <1>2, <1>4, <1>5 DEF Battlegrounds

\* The group of a player who is queued.
LEMMA GroupOfIs ==
  ASSUME NEW q, QueueOk(q), NEW p \in Players, q.member[p] # 0
  PROVE  \E k \in DOMAIN q.groups[Team[p]] :
            /\ GroupOf(q, p) = q.groups[Team[p]][k]
            /\ q.groups[Team[p]][k].id = q.member[p]
            /\ p \in q.groups[Team[p]][k].players
            /\ \A s \in Sides : \A j \in DOMAIN q.groups[s] :
                  q.groups[s][j].id = q.member[p] => s = Team[p] /\ j = k
  <1>1. Team[p] \in Sides
    BY TeamAssumption
  <1>2. PICK k \in DOMAIN q.groups[Team[p]] :
           q.groups[Team[p]][k].id = q.member[p] /\ p \in q.groups[Team[p]][k].players
    BY DEF QueueOk, Seat
  <1>3. \A s \in Sides : \A j \in DOMAIN q.groups[s] :
           q.groups[s][j].id = q.member[p] => s = Team[p] /\ j = k
    BY <1>1, <1>2 DEF QueueOk, GroupsOk, Apart
  <1>4. q.groups[Team[p]][k] \in GroupsOf(q)
    BY <1>1 DEF GroupsOf, ToSet
  <1>5. \A g \in GroupsOf(q) : g.id = q.member[p] => g = q.groups[Team[p]][k]
    BY <1>3 DEF GroupsOf, ToSet
  <1>6. GroupOf(q, p) = q.groups[Team[p]][k]
    BY <1>2, <1>4, <1>5 DEF GroupOf
  <1> QED
    BY <1>2, <1>3, <1>6

LEMMA SeatIs ==
  ASSUME NEW q, QueueOk(q), NEW p \in Players, q.member[p] # 0
  PROVE  /\ InvitedTo(q, p) \in 0 .. MaxInstances /\ Seat(q, p, q.member[p], InvitedTo(q, p))
         /\ \A i : Seat(q, p, q.member[p], i) => i = InvitedTo(q, p)
  <1>1. PICK k \in DOMAIN q.groups[Team[p]] :
           /\ GroupOf(q, p) = q.groups[Team[p]][k]
           /\ q.groups[Team[p]][k].id = q.member[p]
           /\ p \in q.groups[Team[p]][k].players
           /\ \A s \in Sides : \A j \in DOMAIN q.groups[s] :
                 q.groups[s][j].id = q.member[p] => s = Team[p] /\ j = k
    BY GroupOfIs
  <1>2. Team[p] \in Sides
    BY TeamAssumption
  <1>3. InvitedTo(q, p) = q.groups[Team[p]][k].to
    BY <1>1 DEF InvitedTo, IsQueued
  <1>4. q.groups[Team[p]][k] \in Groups
    BY <1>2, QueueTypes
  <1> QED
    BY <1>1, <1>2, <1>3, <1>4 DEF Seat, Groups

-----------------------------------------------------------------------------
(***************************************************************************)
(* The messages.                                                           *)
(***************************************************************************)
ToQueue ==
    [type : {"Join"}, players : Parties]
      \cup [type : {"Port"}, player : Players, enter : BOOLEAN]
      \cup [type : {"Remove"}, player : Players]
      \cup [type : {"Expire"}, player : Players, bg : Battlegrounds, id : 1 .. MaxJoins,
            open : BOOLEAN]
      \cup [type : {"FreeAdd"}, entry : Slots]
      \cup [type : {"FreeRemove"}, bg : Battlegrounds]
      \cup [type : {"Status"}, bg : Battlegrounds, status : Statuses]
      \cup [type : {"Decrease"}, bg : Battlegrounds, side : Sides]

ToWorld ==
    [type : {"Joined"}, players : Parties]
      \cup [type : {"Invited"}, player : Players, bg : Battlegrounds, id : 1 .. MaxJoins]
      \cup [type : {"Count"}, bg : Battlegrounds, side : Sides, count : 0 .. Width - 1]
      \cup [type : {"Create"}, bg : Battlegrounds, counts : Counters]
      \cup [type : {"Enter"}, player : Players, bg : Battlegrounds]
      \cup [type : {"Left"}, player : Players]
      \cup [type : {"Timer"}, player : Players, bg : Battlegrounds, id : 1 .. MaxJoins]

LEMMA ToQueueIs ==
  ASSUME NEW m \in ToQueue
  PROVE  /\ m.type = "Join" => m.players \in Parties
         /\ m.type = "Port" => m.player \in Players /\ m.enter \in BOOLEAN
         /\ m.type = "Remove" => m.player \in Players
         /\ m.type = "Expire" => /\ m.player \in Players /\ m.bg \in Battlegrounds
                                 /\ m.id \in 1 .. MaxJoins /\ m.open \in BOOLEAN
         /\ m.type = "FreeAdd" => m.entry \in Slots
         /\ m.type = "FreeRemove" => m.bg \in Battlegrounds
         /\ m.type = "Status" => m.bg \in Battlegrounds /\ m.status \in Statuses
         /\ m.type = "Decrease" => m.bg \in Battlegrounds /\ m.side \in Sides
  BY DEF ToQueue

LEMMA ToWorldIs ==
  ASSUME NEW m \in ToWorld
  PROVE  /\ m.type = "Joined" => m.players \in Parties
         /\ m.type = "Invited" => /\ m.player \in Players /\ m.bg \in Battlegrounds
                                  /\ m.id \in 1 .. MaxJoins
         /\ m.type = "Count" => /\ m.bg \in Battlegrounds /\ m.side \in Sides
                                /\ m.count \in 0 .. Width - 1
         /\ m.type = "Create" => m.bg \in Battlegrounds /\ m.counts \in Counters
         /\ m.type = "Enter" => m.player \in Players /\ m.bg \in Battlegrounds
         /\ m.type = "Left" => m.player \in Players
         /\ m.type = "Timer" => /\ m.player \in Players /\ m.bg \in Battlegrounds
                                /\ m.id \in 1 .. MaxJoins
  BY DEF ToWorld

-----------------------------------------------------------------------------
(***************************************************************************)
(* The free slots.                                                         *)
(***************************************************************************)
SameGroups(q, r) ==
    /\ r.groups = q.groups /\ r.member = q.member
    /\ r.created = q.created /\ r.joined = q.joined

SlotsOk(q) == /\ q.freeSlots \in Seq(Slots)
              /\ \A k \in DOMAIN q.freeSlots : q.freeSlots[k].bg <= q.created

LEMMA QueueKept ==
  ASSUME NEW q, QueueOk(q), NEW r \in Queues, SameGroups(q, r), SlotsOk(r)
  PROVE  QueueOk(r) /\ \A p, n, i : Seat(r, p, n, i) <=> Seat(q, p, n, i)
  <1>1. Waiting(r) = Waiting(q)
    BY DEF SameGroups, Waiting
  <1>2. \A p, n, i : Seat(r, p, n, i) <=> Seat(q, p, n, i)
    BY DEF SameGroups, Seat
  <1>3. GroupsOk(r)
    BY DEF QueueOk, SameGroups, GroupsOk
  <1>4. \A p \in Players : r.member[p] # 0 => \E i \in 0 .. MaxInstances : Seat(r, p, r.member[p], i)
    BY <1>2 DEF QueueOk, SameGroups
  <1>5. 2 * r.created + Cardinality(Waiting(r)) <= r.joined
    BY <1>1 DEF QueueOk, SameGroups
  <1> QED
    BY <1>2, <1>3, <1>4, <1>5 DEF QueueOk, SlotsOk

\* The queue q with other entries.
Reslotted(q, slots, b) ==
    [groups |-> q.groups, member |-> q.member, freeSlots |-> slots, scheduled |-> b,
     created |-> q.created, joined |-> q.joined]

LEMMA ReslottedOk ==
  ASSUME NEW q, QueueOk(q), NEW slots \in Seq(Slots), NEW b \in BOOLEAN,
         \A k \in DOMAIN slots : slots[k].bg <= q.created,
         NEW r, r = Reslotted(q, slots, b)
  PROVE  /\ QueueOk(r) /\ SameGroups(q, r) /\ r.freeSlots = slots /\ r.scheduled = b
         /\ \A p, n, i : Seat(r, p, n, i) <=> Seat(q, p, n, i)
  <1>1. SameGroups(q, r) /\ r.freeSlots = slots /\ r.scheduled = b
    BY DEF Reslotted, SameGroups
  <1>2. r \in Queues
    BY QueueTypes DEF Queues, Reslotted
  <1>3. SlotsOk(r)
    BY <1>1 DEF SlotsOk, SameGroups
  <1> QED
    BY <1>1, <1>2, <1>3, QueueKept

LEMMA FirstSlotIs ==
  ASSUME NEW q, q.freeSlots \in Seq(Slots), NEW i, HasSlot(q, i)
  PROVE  /\ FirstSlot(q, i) \in DOMAIN q.freeSlots /\ q.freeSlots[FirstSlot(q, i)].bg = i
         /\ \A k \in DOMAIN q.freeSlots : q.freeSlots[k].bg = i => FirstSlot(q, i) <= k
  <1> DEFINE I == {k \in 1 .. Len(q.freeSlots) : q.freeSlots[k].bg = i}
  <1>1. FirstSlot(q, i) = IF I # {} THEN Min(I) ELSE 0
    BY DEF FirstSlot, SelectInSeq
  <1>2. DOMAIN q.freeSlots = 1 .. Len(q.freeSlots) /\ I # {} /\ I \in SUBSET Nat
    BY DEF HasSlot
  <1>3. Min(I) \in I /\ \A k \in I : Min(I) <= k
    BY <1>2, LeastNumber, Zenon
  <1> QED
    BY <1>1, <1>2, <1>3

\* The entries after a change of one: the battlegrounds are the same.
SameBgs(q, r) == /\ DOMAIN r.freeSlots = DOMAIN q.freeSlots
                 /\ \A k \in DOMAIN q.freeSlots : r.freeSlots[k].bg = q.freeSlots[k].bg

Count(i, s, n) == [type |-> "Count", bg |-> i, side |-> s, count |-> n]

LEMMA PlusIs ==
  ASSUME NEW c \in Counters, NEW s \in Sides, NEW n \in Int
  PROVE  /\ Plus(c, s, n) \in Counters /\ Plus(c, s, n)[s] = (c[s] + n) % Width
         /\ \A t \in Sides : t # s => Plus(c, s, n)[t] = c[t]
  <1>1. (c[s] + n) % Width \in 0 .. Width - 1
    BY Numbers DEF Counters
  <1> QED
    BY <1>1 DEF Plus, Counters

LEMMA DecreaseIs ==
  ASSUME NEW q, QueueOk(q), NEW i \in Battlegrounds, NEW s \in Sides, HasSlot(q, i),
         NEW k, k = FirstSlot(q, i), NEW c, c = Plus(q.freeSlots[k].invited, s, -1),
         NEW d, d = DecreaseInvitedCount(q, i, s)
  PROVE  /\ QueueOk(d.queue) /\ SameGroups(q, d.queue) /\ SameBgs(q, d.queue)
         /\ d.queue.scheduled = q.scheduled /\ d.sent = <<Count(i, s, c[s])>>
         /\ c \in Counters
         /\ d.queue.freeSlots = [q.freeSlots EXCEPT ![k].invited = c]
  <1>1. /\ k \in DOMAIN q.freeSlots /\ q.freeSlots[k].bg = i /\ q.freeSlots \in Seq(Slots)
        /\ q.freeSlots[k] \in Slots
    BY FirstSlotIs, QueueTypes
  <1>2. c \in Counters
    <2>1. q.freeSlots[k].invited \in Counters /\ -1 \in Int
      BY <1>1 DEF Slots
    <2> QED
      BY <2>1, PlusIs
  <1>3. PICK r : r = [q EXCEPT !.freeSlots[k].invited = c]
    BY Zenon
  <1>4. d.queue = r /\ d.sent = <<Count(i, s, c[s])>>
    BY <1>3 DEF DecreaseInvitedCount, Answer, Count
  <1>5. PICK slots : slots = [q.freeSlots EXCEPT ![k].invited = c]
    BY Zenon
  <1>6. /\ slots \in Seq(Slots) /\ DOMAIN slots = DOMAIN q.freeSlots
        /\ \A j \in DOMAIN q.freeSlots : slots[j].bg = q.freeSlots[j].bg
    BY <1>1, <1>2, <1>5 DEF Slots
  <1>7. r = Reslotted(q, slots, q.scheduled)
    <2>1. PICK u : u = [q EXCEPT !.freeSlots = slots]
      BY Zenon
    <2>2. u = Reslotted(q, slots, q.scheduled)
      BY <2>1, QueueTypes DEF Reslotted
    <2>3. r = u
      BY <1>3, <1>5, <2>1, ZenonT(40)
    <2> QED
      BY <2>2, <2>3
  <1>8. \A j \in DOMAIN slots : slots[j].bg <= q.created
    BY <1>6 DEF QueueOk
  <1>9. q.scheduled \in BOOLEAN
    BY QueueTypes
  <1>10. QueueOk(r) /\ SameGroups(q, r) /\ r.freeSlots = slots /\ r.scheduled = q.scheduled
    BY <1>6, <1>7, <1>8, <1>9, ReslottedOk
  <1> QED
    BY <1>2, <1>4, <1>5, <1>6, <1>10 DEF SameBgs

LEMMA NothingToDecrease ==
  ASSUME NEW q, NEW i, NEW s, ~HasSlot(q, i)
  PROVE  DecreaseInvitedCount(q, i, s) = Answer(q, << >>)
  BY DEF DecreaseInvitedCount

\* The queue lists the battleground, or lists it twice.
Twice(q, i) ==
    \E j, k \in DOMAIN q.freeSlots :
        j # k /\ q.freeSlots[j].bg = i /\ q.freeSlots[k].bg = i

LEMMA SameBgsKeepSlots ==
  ASSUME NEW q, NEW r, SameBgs(q, r), NEW i
  PROVE  (HasSlot(r, i) <=> HasSlot(q, i)) /\ (Twice(r, i) <=> Twice(q, i))
  BY DEF SameBgs, HasSlot, Twice

LEMMA ScheduleIs ==
  ASSUME NEW q, QueueOk(q), NEW r, r = ScheduleQueueUpdate(q)
  PROVE  /\ QueueOk(r) /\ SameGroups(q, r) /\ r.freeSlots = q.freeSlots /\ r.scheduled = TRUE
         /\ SameBgs(q, r) /\ \A p, n, i : Seat(r, p, n, i) <=> Seat(q, p, n, i)
  <1>0. PICK b \in BOOLEAN : b = TRUE
    BY Zenon
  <1>1. r = Reslotted(q, q.freeSlots, b)
    <2>1. r = [q EXCEPT !.scheduled = b]
      BY <1>0, ZenonT(40) DEF ScheduleQueueUpdate
    <2> QED
      BY <2>1, QueueTypes DEF Reslotted
  <1>2. q.freeSlots \in Seq(Slots) /\ \A k \in DOMAIN q.freeSlots : q.freeSlots[k].bg <= q.created
    BY QueueTypes DEF QueueOk
  <1>3. /\ QueueOk(r) /\ SameGroups(q, r) /\ r.freeSlots = q.freeSlots /\ r.scheduled = b
        /\ \A p, n, i : Seat(r, p, n, i) <=> Seat(q, p, n, i)
    BY <1>1, <1>2, ReslottedOk
  <1> QED
    BY <1>0, <1>3 DEF SameBgs

LEMMA ListIs ==
  ASSUME NEW q, QueueOk(q), NEW e \in Slots, e.bg <= q.created,
         NEW r, r = ScheduleQueueUpdate(AddBgToFreeSlots(q, e))
  PROVE  /\ QueueOk(r) /\ SameGroups(q, r) /\ r.freeSlots = <<e>> \o q.freeSlots
         /\ r.scheduled = TRUE
         /\ \A i : /\ HasSlot(r, i) <=> HasSlot(q, i) \/ i = e.bg
                   /\ Twice(q, i) => Twice(r, i)
                   /\ i = e.bg /\ HasSlot(q, i) => Twice(r, i)
                   /\ i # e.bg /\ Twice(r, i) => Twice(q, i)
  <1>1. PICK slots : slots = <<e>> \o q.freeSlots
    BY Zenon
  <1>0. PICK b \in BOOLEAN : b = TRUE
    BY Zenon
  <1>2. r = Reslotted(q, slots, b)
    <2>1. PICK u : u = [q EXCEPT !.freeSlots = slots]
      BY Zenon
    <2>2. AddBgToFreeSlots(q, e) = u
      BY <1>1, <2>1 DEF AddBgToFreeSlots
    <2>3. u = Reslotted(q, slots, q.scheduled)
      BY <2>1, QueueTypes DEF Reslotted
    <2>4. r = [u EXCEPT !.scheduled = b]
      BY <1>0, <2>2, ZenonT(40) DEF ScheduleQueueUpdate
    <2> QED
      BY <2>3, <2>4 DEF Reslotted
  <1>3. q.freeSlots \in Seq(Slots) /\ DOMAIN q.freeSlots = 1 .. Len(q.freeSlots)
        /\ Len(q.freeSlots) \in Nat
    BY QueueTypes
  <1>4. /\ slots \in Seq(Slots) /\ Len(slots) = Len(q.freeSlots) + 1
        /\ \A k \in 1 .. Len(q.freeSlots) + 1 : slots[k] = IF k = 1 THEN e ELSE q.freeSlots[k - 1]
    BY <1>1, <1>3, PrependIs
  <1>5. DOMAIN slots = 1 .. Len(q.freeSlots) + 1
    BY <1>4
  <1>6. ASSUME NEW k \in DOMAIN slots PROVE slots[k].bg <= q.created
    <2>1. CASE k = 1
      BY <1>4, <1>5, <2>1
    <2>2. CASE k # 1
      <3>1. k - 1 \in DOMAIN q.freeSlots /\ slots[k] = q.freeSlots[k - 1]
        BY <1>3, <1>4, <1>5, <2>2
      <3> QED
        BY <3>1 DEF QueueOk
    <2> QED
      BY <2>1, <2>2
  <1>7. QueueOk(r) /\ SameGroups(q, r) /\ r.freeSlots = slots /\ r.scheduled = b
    BY <1>2, <1>4, <1>5, <1>6, ReslottedOk
  <1>8. ASSUME NEW i
        PROVE  /\ HasSlot(r, i) <=> HasSlot(q, i) \/ i = e.bg
               /\ Twice(q, i) => Twice(r, i)
               /\ i = e.bg /\ HasSlot(q, i) => Twice(r, i)
               /\ i # e.bg /\ Twice(r, i) => Twice(q, i)
    <2>1. /\ 1 \in DOMAIN slots /\ slots[1] = e
          /\ \A k \in DOMAIN q.freeSlots : /\ k + 1 \in DOMAIN slots /\ k + 1 # 1
                                           /\ slots[k + 1] = q.freeSlots[k]
      BY <1>3, <1>4, <1>5
    <2>2. \A k \in DOMAIN slots : k = 1 \/ /\ k - 1 \in DOMAIN q.freeSlots
                                           /\ slots[k] = q.freeSlots[k - 1]
      BY <1>3, <1>4, <1>5
    <2>3. HasSlot(r, i) <=> HasSlot(q, i) \/ i = e.bg
      BY <1>7, <2>1, <2>2 DEF HasSlot
    <2>4. ASSUME Twice(q, i) PROVE Twice(r, i)
      <3>1. PICK j, k \in DOMAIN q.freeSlots :
               j # k /\ q.freeSlots[j].bg = i /\ q.freeSlots[k].bg = i
        BY <2>4 DEF Twice
      <3>2. j + 1 # k + 1
        BY <1>3, <3>1
      <3> QED
        BY <1>7, <2>1, <3>1, <3>2 DEF Twice
    <2>5. ASSUME i = e.bg, HasSlot(q, i) PROVE Twice(r, i)
      BY <1>7, <2>1, <2>5 DEF Twice, HasSlot
    <2>6. ASSUME i # e.bg, Twice(r, i) PROVE Twice(q, i)
      <3>1. PICK j, k \in DOMAIN slots : j # k /\ slots[j].bg = i /\ slots[k].bg = i
        BY <1>7, <2>6 DEF Twice
      <3>2. j - 1 # k - 1
        BY <1>5, <3>1
      <3> QED
        BY <2>1, <2>2, <2>6, <3>1, <3>2 DEF Twice
    <2> QED
      BY <2>3, <2>4, <2>5, <2>6
  <1> QED
    BY <1>0, <1>1, <1>7, <1>8

LEMMA UnlistIs ==
  ASSUME NEW q, QueueOk(q), NEW b, NEW r, r = RemoveBgFromFreeSlots(q, b)
  PROVE  /\ QueueOk(r) /\ SameGroups(q, r) /\ r.scheduled = q.scheduled
         /\ \A i : /\ i # b => (HasSlot(q, i) => HasSlot(r, i)) /\ (Twice(q, i) => Twice(r, i))
                   /\ HasSlot(r, i) => HasSlot(q, i)
                   /\ Twice(q, i) => HasSlot(r, i)
  <1>1. CASE ~HasSlot(q, b)
    BY <1>1 DEF RemoveBgFromFreeSlots, SameGroups, HasSlot, Twice
  <1>2. CASE HasSlot(q, b)
    <2>1. PICK n : n = FirstSlot(q, b)
      OBVIOUS
    <2>2. /\ q.freeSlots \in Seq(Slots) /\ DOMAIN q.freeSlots = 1 .. Len(q.freeSlots)
          /\ Len(q.freeSlots) \in Nat
      BY QueueTypes
    <2>3. n \in 1 .. Len(q.freeSlots) /\ q.freeSlots[n].bg = b
      BY <1>2, <2>1, <2>2, FirstSlotIs
    <2>4. PICK slots : slots = RemoveAt(q.freeSlots, n)
      OBVIOUS
    <2>5. r = Reslotted(q, slots, q.scheduled)
      <3>1. r = [q EXCEPT !.freeSlots = slots]
        BY <1>2, <2>1, <2>4 DEF RemoveBgFromFreeSlots
      <3> QED
        BY <3>1, QueueTypes DEF Reslotted
    <2>6. /\ slots \in Seq(Slots) /\ Len(slots) = Len(q.freeSlots) - 1
          /\ \A j \in 1 .. Len(q.freeSlots) - 1 : slots[j] = q.freeSlots[Without(n, j)]
      BY <2>2, <2>3, <2>4, RemoveAtIs, Zenon
    <2>7. DOMAIN slots = 1 .. Len(q.freeSlots) - 1
      BY <2>2, <2>6
    <2>8. \A j \in DOMAIN slots : /\ Without(n, j) \in DOMAIN q.freeSlots
                                  /\ slots[j] = q.freeSlots[Without(n, j)]
      BY <2>2, <2>3, <2>6, <2>7 DEF Without
    <2>9. \A k \in DOMAIN q.freeSlots :
             k # n => \E j \in DOMAIN slots : slots[j] = q.freeSlots[k] /\ Without(n, j) = k
      <3> SUFFICES ASSUME NEW k \in DOMAIN q.freeSlots, k # n
                   PROVE  \E j \in DOMAIN slots : slots[j] = q.freeSlots[k] /\ Without(n, j) = k
        OBVIOUS
      <3>1. CASE k < n
        <4>1. k \in DOMAIN slots /\ Without(n, k) = k
          BY <2>2, <2>3, <2>7, <3>1 DEF Without
        <4> QED
          BY <2>8, <4>1
      <3>2. CASE k > n
        <4>1. k - 1 \in DOMAIN slots /\ Without(n, k - 1) = k
          BY <2>2, <2>3, <2>7, <3>2 DEF Without
        <4> QED
          BY <2>8, <4>1
      <3> QED
        BY <2>2, <2>3, <3>1, <3>2
    <2>10. \A j \in DOMAIN slots : slots[j].bg <= q.created
      BY <2>8 DEF QueueOk
    <2>11. q.scheduled \in BOOLEAN
      BY QueueTypes
    <2>12. QueueOk(r) /\ SameGroups(q, r) /\ r.freeSlots = slots /\ r.scheduled = q.scheduled
      BY <2>5, <2>6, <2>10, <2>11, ReslottedOk
    <2>13. ASSUME NEW i, i # b
           PROVE  (HasSlot(q, i) => HasSlot(r, i)) /\ (Twice(q, i) => Twice(r, i))
      <3>1. \A k \in DOMAIN q.freeSlots : q.freeSlots[k].bg = i => k # n
        BY <2>3, <2>13
      <3>2. HasSlot(q, i) => HasSlot(r, i)
        BY <2>9, <2>12, <3>1 DEF HasSlot
      <3>3. ASSUME Twice(q, i) PROVE Twice(r, i)
        <4>1. PICK j, k \in DOMAIN q.freeSlots :
                 j # k /\ q.freeSlots[j].bg = i /\ q.freeSlots[k].bg = i
          BY <3>3 DEF Twice
        <4>2. PICK x \in DOMAIN slots : slots[x] = q.freeSlots[j] /\ Without(n, x) = j
          BY <2>9, <3>1, <4>1
        <4>3. PICK y \in DOMAIN slots : slots[y] = q.freeSlots[k] /\ Without(n, y) = k
          BY <2>9, <3>1, <4>1
        <4>4. x # y
          BY <4>1, <4>2, <4>3
        <4> QED
          BY <2>12, <4>1, <4>2, <4>3, <4>4 DEF Twice
      <3> QED
        BY <3>2, <3>3
    <2>14. \A i : HasSlot(r, i) => HasSlot(q, i)
      BY <2>8, <2>12 DEF HasSlot
    <2>15. ASSUME NEW i, Twice(q, i) PROVE HasSlot(r, i)
      <3>1. PICK k \in DOMAIN q.freeSlots : k # n /\ q.freeSlots[k].bg = i
        BY <2>15 DEF Twice
      <3> QED
        BY <2>9, <2>12, <3>1 DEF HasSlot
    <2> QED
      BY <2>12, <2>13, <2>14, <2>15
  <1> QED
    BY <1>1, <1>2

LEMMA StatusIs ==
  ASSUME NEW q, QueueOk(q), NEW b \in Battlegrounds, NEW status \in Statuses,
         NEW r, r = SetSlotStatus(q, b, status)
  PROVE  /\ QueueOk(r) /\ SameGroups(q, r) /\ SameBgs(q, r) /\ r.scheduled = q.scheduled
         /\ \A k \in DOMAIN q.freeSlots :
               /\ r.freeSlots[k].invited = q.freeSlots[k].invited
               /\ r.freeSlots[k].status =
                     IF k = FirstSlot(q, b) /\ HasSlot(q, b) THEN status ELSE q.freeSlots[k].status
  <1>1. CASE ~HasSlot(q, b)
    BY <1>1 DEF SetSlotStatus, SameGroups, SameBgs
  <1>2. CASE HasSlot(q, b)
    <2>1. PICK n : n = FirstSlot(q, b)
      OBVIOUS
    <2>2. q.freeSlots \in Seq(Slots) /\ n \in DOMAIN q.freeSlots /\ q.freeSlots[n] \in Slots
      BY <1>2, <2>1, QueueTypes, FirstSlotIs
    <2>3. PICK slots : slots = [q.freeSlots EXCEPT ![n].status = status]
      BY Zenon
    <2>4. /\ slots \in Seq(Slots) /\ DOMAIN slots = DOMAIN q.freeSlots
          /\ \A k \in DOMAIN q.freeSlots :
                /\ slots[k].bg = q.freeSlots[k].bg /\ slots[k].invited = q.freeSlots[k].invited
                /\ slots[k].status = IF k = n THEN status ELSE q.freeSlots[k].status
      BY <2>2, <2>3 DEF Slots
    <2>5. r = Reslotted(q, slots, q.scheduled)
      <3>1. r = [q EXCEPT !.freeSlots[n].status = status]
        BY <1>2, <2>1 DEF SetSlotStatus
      <3>2. PICK u : u = [q EXCEPT !.freeSlots = slots]
        BY Zenon
      <3>3. u = Reslotted(q, slots, q.scheduled)
        BY <3>2, QueueTypes DEF Reslotted
      <3>4. r = u
        BY <2>3, <3>1, <3>2, ZenonT(40)
      <3> QED
        BY <3>3, <3>4
    <2>6. \A j \in DOMAIN slots : slots[j].bg <= q.created
      BY <2>4 DEF QueueOk
    <2>7. q.scheduled \in BOOLEAN
      BY QueueTypes
    <2>8. QueueOk(r) /\ SameGroups(q, r) /\ r.freeSlots = slots /\ r.scheduled = q.scheduled
      BY <2>4, <2>5, <2>6, <2>7, ReslottedOk
    <2> QED
      BY <1>2, <2>1, <2>4, <2>8 DEF SameBgs
  <1> QED
    BY <1>1, <1>2

-----------------------------------------------------------------------------
(***************************************************************************)
(* The groups.                                                             *)
(***************************************************************************)
LEMMA PartyIs ==
  ASSUME NEW party \in Parties
  PROVE  /\ party # {} /\ party \subseteq Players /\ IsFiniteSet(party)
         /\ \A p, o \in party : Team[p] = Team[o]
         /\ Cardinality(party) <= MaxPerTeam
  BY PartyAssumption, TeamAssumption, FS_Subset

LEMMA WaitingIs ==
  ASSUME NEW q, q.joined \in Nat
  PROVE  Waiting(q) \subseteq 1 .. q.joined /\ IsFiniteSet(Waiting(q))
         /\ Cardinality(Waiting(q)) \in Nat
  <1>1. Waiting(q) \subseteq 1 .. q.joined
    BY DEF Waiting
  <1>2. IsFiniteSet(1 .. q.joined)
    BY FS_Interval
  <1> QED
    BY <1>1, <1>2, FS_Subset, FS_CardinalityType

NewMembers(q, party, id) == [p \in Players |-> IF p \in party THEN id ELSE q.member[p]]

LEMMA AddGroupIs ==
  ASSUME NEW q, QueueOk(q), NEW party \in Parties, q.joined < MaxJoins,
         NEW id, id = q.joined + 1, NEW r, r = AddGroup(q, party)
  PROVE  /\ QueueOk(r) /\ r.joined = id /\ r.created = q.created /\ id \in 1 .. MaxJoins
         /\ r.freeSlots = q.freeSlots /\ r.scheduled = q.scheduled
         /\ r.member = NewMembers(q, party, id)
         /\ \A p \in Players : \A n, i :
               Seat(r, p, n, i) <=> Seat(q, p, n, i) \/ (p \in party /\ n = id /\ i = 0)
  <1>1. /\ party # {} /\ party \subseteq Players /\ \A p, o \in party : Team[p] = Team[o]
    BY PartyIs
  <1>2. PICK side \in Sides : /\ side = Team[CHOOSE p \in party : TRUE]
                              /\ \A p \in party : Team[p] = side
    BY <1>1, TeamAssumption
  <1>3. id \in 1 .. MaxJoins /\ q.joined \in Nat /\ MaxJoins \in Nat
    BY QueueTypes, Numbers
  <1>4. PICK group : group = [id |-> id, players |-> party, to |-> 0]
    BY Zenon
  <1>5. group \in Groups
    BY <1>1, <1>3, <1>4, Numbers DEF Groups
  <1>6. PICK old : old = q.groups[side]
    OBVIOUS
  <1>7. old \in Seq(Groups) /\ DOMAIN old = 1 .. Len(old) /\ Len(old) \in Nat
    BY <1>6, QueueTypes
  <1>8. PICK new : new = Append(old, group)
    BY Zenon
  <1>9. /\ new \in Seq(Groups) /\ DOMAIN new = DOMAIN old \cup {Len(old) + 1}
        /\ Len(old) + 1 \notin DOMAIN old
        /\ new[Len(old) + 1] = group /\ \A k \in DOMAIN old : new[k] = old[k]
    BY <1>5, <1>7, <1>8
  <1>10. PICK member : member = [p \in Players |-> IF p \in party THEN id ELSE q.member[p]]
    BY Zenon
  <1>11. member \in [Players -> 0 .. MaxJoins]
    BY <1>3, <1>10, QueueTypes
  <1>12. PICK groups : groups = [q.groups EXCEPT ![side] = new]
    BY Zenon
  <1>13. /\ groups \in [Sides -> Seq(Groups)] /\ groups[side] = new
         /\ \A s \in Sides : s # side => groups[s] = q.groups[s]
    BY <1>9, <1>12, QueueTypes
  <1>14. r = [groups |-> groups, member |-> member, freeSlots |-> q.freeSlots,
              scheduled |-> q.scheduled, created |-> q.created, joined |-> id]
    <2>1. r = [q EXCEPT !.groups[side] = new, !.joined = id, !.member = member]
      BY <1>2, <1>4, <1>6, <1>8, <1>10 DEF AddGroup
    <2>2. PICK u : u = [q EXCEPT !.groups = groups, !.joined = id, !.member = member]
      OBVIOUS
    <2>3. r = u
      BY <1>12, <2>1, <2>2, ZenonT(40)
    <2> QED
      BY <2>2, <2>3, QueueTypes, Zenon
  <1>15. r \in Queues
    BY <1>3, <1>11, <1>13, <1>14, QueueTypes DEF Queues
  <1>16. \A s \in Sides : \A k \in DOMAIN r.groups[s] :
            \/ k \in DOMAIN q.groups[s] /\ r.groups[s][k] = q.groups[s][k]
            \/ s = side /\ k = Len(old) + 1 /\ r.groups[s][k] = group
    BY <1>6, <1>9, <1>13, <1>14
  <1>17. \A s \in Sides : \A k \in DOMAIN q.groups[s] :
            k \in DOMAIN r.groups[s] /\ r.groups[s][k] = q.groups[s][k]
    BY <1>6, <1>9, <1>13, <1>14
  <1>18. Len(old) + 1 \in DOMAIN r.groups[side] /\ r.groups[side][Len(old) + 1] = group
    BY <1>9, <1>13, <1>14
  <1>19. \A s \in Sides : \A k \in DOMAIN q.groups[s] : q.groups[s][k].id # id
    <2> SUFFICES ASSUME NEW s \in Sides, NEW k \in DOMAIN q.groups[s] PROVE q.groups[s][k].id # id
      OBVIOUS
    <2>1. q.groups[s][k].id <= q.joined
      BY DEF QueueOk, GroupsOk, GroupOk
    <2>2. q.groups[s][k] \in Groups
      BY QueueTypes
    <2> QED
      BY <1>3, <2>1, <2>2 DEF Groups
  <1>20. GroupsOk(r)
    <2>1. ASSUME NEW s \in Sides, NEW k \in DOMAIN r.groups[s]
          PROVE  GroupOk(r.groups[s][k], s, r.joined, r.created)
      <3>1. r.joined = id /\ r.created = q.created /\ q.created \in Nat
        BY <1>14, QueueTypes
      <3>2. CASE k \in DOMAIN q.groups[s] /\ r.groups[s][k] = q.groups[s][k]
        <4>1. GroupOk(q.groups[s][k], s, q.joined, q.created) /\ q.groups[s][k] \in Groups
          BY <3>2, QueueTypes DEF QueueOk, GroupsOk
        <4> QED
          BY <1>3, <3>1, <3>2, <4>1 DEF GroupOk, Groups
      <3>3. CASE s = side /\ r.groups[s][k] = group
        BY <1>1, <1>2, <1>3, <1>4, <3>1, <3>3 DEF GroupOk
      <3> QED
        BY <1>16, <3>2, <3>3
    <2>2. Apart(r.groups)
      <3> SUFFICES ASSUME NEW s \in Sides, NEW t \in Sides, NEW j \in DOMAIN r.groups[s],
                          NEW k \in DOMAIN r.groups[t], r.groups[s][j].id = r.groups[t][k].id
                   PROVE  s = t /\ j = k
        BY DEF Apart
      <3>1. group.id = id
        BY <1>4
      <3>2. CASE j \in DOMAIN q.groups[s] /\ r.groups[s][j] = q.groups[s][j]
        BY <1>16, <1>19, <3>1, <3>2 DEF QueueOk, GroupsOk, Apart
      <3>3. CASE s = side /\ j = Len(old) + 1 /\ r.groups[s][j] = group
        BY <1>16, <1>19, <3>1, <3>3
      <3> QED
        BY <1>16, <3>2, <3>3
    <2> QED
      BY <2>1, <2>2 DEF GroupsOk
  <1>21. ASSUME NEW p \in Players, NEW n, NEW i
         PROVE  Seat(r, p, n, i) <=> Seat(q, p, n, i) \/ (p \in party /\ n = id /\ i = 0)
    <2>1. Team[p] \in Sides
      BY TeamAssumption
    <2>2. Seat(q, p, n, i) => Seat(r, p, n, i)
      BY <1>17, <2>1 DEF Seat
    <2>3. ASSUME p \in party, n = id, i = 0 PROVE Seat(r, p, n, i)
      <3>1. Team[p] = side /\ group.players = party /\ group.id = n /\ group.to = i
        BY <1>2, <1>4, <2>3
      <3> QED
        BY <1>18, <2>3, <3>1 DEF Seat
    <2>4. Seat(r, p, n, i) => Seat(q, p, n, i) \/ (p \in party /\ n = id /\ i = 0)
      BY <1>4, <1>16, <2>1 DEF Seat
    <2> QED
      BY <2>2, <2>3, <2>4
  <1>22. ASSUME NEW p \in Players, r.member[p] # 0
         PROVE  \E i \in 0 .. MaxInstances : Seat(r, p, r.member[p], i)
    <2>1. r.member[p] = IF p \in party THEN id ELSE q.member[p]
      BY <1>10, <1>14
    <2>2. CASE p \in party
      BY <1>21, <2>1, <2>2, Numbers
    <2>3. CASE p \notin party
      <3>1. PICK i \in 0 .. MaxInstances : Seat(q, p, q.member[p], i)
        BY <1>22, <2>1, <2>3 DEF QueueOk
      <3> QED
        BY <1>21, <2>1, <2>3, <3>1
    <2> QED
      BY <2>2, <2>3
  <1>23. 2 * r.created + Cardinality(Waiting(r)) <= r.joined
    <2>1. Waiting(r) \subseteq Waiting(q) \cup {id}
      <3> SUFFICES ASSUME NEW n \in Waiting(r), n # id PROVE n \in Waiting(q)
        OBVIOUS
      <3>0. PICK s \in Sides : \E k \in DOMAIN r.groups[s] :
               r.groups[s][k].id = n /\ r.groups[s][k].to = 0 /\ n \in 1 .. id
        BY <1>14 DEF Waiting
      <3>1. PICK k \in DOMAIN r.groups[s] :
               r.groups[s][k].id = n /\ r.groups[s][k].to = 0 /\ n \in 1 .. id
        BY <3>0
      <3>2. group.id = id
        BY <1>4
      <3>3. k \in DOMAIN q.groups[s] /\ r.groups[s][k] = q.groups[s][k]
        BY <1>16, <3>1, <3>2
      <3>4. n \in 1 .. q.joined
        BY <1>3, <3>1
      <3> QED
        BY <3>1, <3>3, <3>4 DEF Waiting
    <2>2. /\ IsFiniteSet(Waiting(q)) /\ Cardinality(Waiting(q)) \in Nat
          /\ Cardinality(Waiting(r)) \in Nat
      BY <1>3, <1>14, WaitingIs
    <2>3. /\ IsFiniteSet(Waiting(q) \cup {id})
          /\ Cardinality(Waiting(q) \cup {id}) <= Cardinality(Waiting(q)) + 1
      <3>1. /\ IsFiniteSet(Waiting(q) \cup {id})
            /\ Cardinality(Waiting(q) \cup {id}) =
                  IF id \in Waiting(q) THEN Cardinality(Waiting(q)) ELSE Cardinality(Waiting(q)) + 1
        BY <2>2, FS_AddElement
      <3> QED
        BY <2>2, <3>1
    <2>4. Cardinality(Waiting(r)) <= Cardinality(Waiting(q) \cup {id})
      BY <2>1, <2>3, FS_Subset
    <2>5. Cardinality(Waiting(q) \cup {id}) \in Nat
      BY <2>3, FS_CardinalityType
    <2>6. 2 * q.created + Cardinality(Waiting(q)) <= q.joined /\ q.created \in Nat
      BY QueueTypes DEF QueueOk
    <2>7. r.created = q.created /\ r.joined = q.joined + 1
      BY <1>14
    <2> QED
      BY <1>3, <2>2, <2>3, <2>4, <2>5, <2>6, <2>7
  <1>24. \A k \in DOMAIN r.freeSlots : r.freeSlots[k].bg <= r.created
    BY <1>14 DEF QueueOk
  <1> QED
    BY <1>3, <1>10, <1>14, <1>15, <1>20, <1>21, <1>22, <1>23, <1>24 DEF QueueOk, NewMembers

\* The list new is old without the player p of its k-th group: o says where
\* each of its groups was.
Shorter(new, old, k, p, o) ==
    /\ new \in Seq(Groups) /\ o \in [DOMAIN new -> DOMAIN old]
    /\ \A j \in DOMAIN new :
          /\ new[j].id = old[o[j]].id /\ new[j].to = old[o[j]].to /\ new[j].players # {}
          /\ new[j].players = IF o[j] = k THEN old[k].players \ {p} ELSE old[o[j]].players
    /\ \A i, j \in DOMAIN new : o[i] = o[j] => i = j
    /\ \A m \in DOMAIN old : m # k \/ old[m].players # {p} => \E j \in DOMAIN new : o[j] = m

LEMMA GroupRemoved ==
  ASSUME NEW old \in Seq(Groups), NEW k \in DOMAIN old, NEW p, old[k].players = {p},
         \A j \in DOMAIN old : old[j].players # {},
         NEW new, new = RemoveAt(old, k)
  PROVE  \E o : Shorter(new, old, k, p, o)
  <1>1. DOMAIN old = 1 .. Len(old) /\ Len(old) \in Nat /\ k \in 1 .. Len(old)
    OBVIOUS
  <1>2. /\ new \in Seq(Groups) /\ Len(new) = Len(old) - 1
        /\ \A j \in 1 .. Len(old) - 1 : new[j] = old[Without(k, j)]
    BY <1>1, RemoveAtIs, ZenonT(120)
  <1>3. DOMAIN new = 1 .. Len(old) - 1
    <2>1. DOMAIN new = 1 .. Len(new)
      BY <1>2
    <2> QED
      BY <1>2, <2>1
  <1>4. PICK o : o = [j \in DOMAIN new |-> Without(k, j)]
    BY Zenon
  <1>5. ASSUME NEW j \in DOMAIN new PROVE o[j] \in DOMAIN old /\ o[j] # k /\ new[j] = old[o[j]]
    <2>1. Without(k, j) \in DOMAIN old /\ Without(k, j) # k
      BY <1>1, <1>3 DEF Without
    <2> QED
      BY <1>2, <1>3, <1>4, <2>1
  <1>6. o \in [DOMAIN new -> DOMAIN old]
    BY <1>4, <1>5
  <1>7. ASSUME NEW i \in DOMAIN new, NEW j \in DOMAIN new, o[i] = o[j] PROVE i = j
    BY <1>1, <1>3, <1>4, <1>7 DEF Without
  <1>8. ASSUME NEW m \in DOMAIN old, m # k PROVE \E j \in DOMAIN new : o[j] = m
    <2>1. CASE m < k
      <3>1. m \in DOMAIN new /\ Without(k, m) = m
        BY <1>1, <1>3, <2>1 DEF Without
      <3> QED
        BY <1>4, <3>1
    <2>2. CASE m > k
      <3>1. m - 1 \in DOMAIN new /\ Without(k, m - 1) = m
        BY <1>1, <1>3, <2>2 DEF Without
      <3> QED
        BY <1>4, <3>1
    <2> QED
      BY <1>1, <1>8, <2>1, <2>2
  <1>9. \A j \in DOMAIN new :
           /\ new[j].id = old[o[j]].id /\ new[j].to = old[o[j]].to /\ new[j].players # {}
           /\ new[j].players = IF o[j] = k THEN old[k].players \ {p} ELSE old[o[j]].players
    BY <1>5
  <1>10. \A m \in DOMAIN old : m # k \/ old[m].players # {p} => \E j \in DOMAIN new : o[j] = m
    BY <1>8
  <1>11. Shorter(new, old, k, p, o)
    BY <1>2, <1>6, <1>7, <1>9, <1>10 DEF Shorter
  <1> QED
    BY <1>11

LEMMA GroupReduced ==
  ASSUME NEW old \in Seq(Groups), NEW k \in DOMAIN old, NEW p, NEW g \in Groups,
         g.id = old[k].id, g.to = old[k].to, g.players = old[k].players \ {p}, g.players # {},
         \A j \in DOMAIN old : old[j].players # {},
         NEW new, new = [old EXCEPT ![k] = g]
  PROVE  \E o : Shorter(new, old, k, p, o)
  <1>1. /\ DOMAIN new = DOMAIN old /\ new \in Seq(Groups) /\ new[k] = g
        /\ \A j \in DOMAIN old : j # k => new[j] = old[j]
    OBVIOUS
  <1>2. PICK o : o = [j \in DOMAIN new |-> j]
    BY Zenon
  <1>3. o \in [DOMAIN new -> DOMAIN old] /\ \A j \in DOMAIN new : o[j] = j
    BY <1>1, <1>2
  <1>4. ASSUME NEW j \in DOMAIN new
        PROVE /\ new[j].id = old[o[j]].id /\ new[j].to = old[o[j]].to /\ new[j].players # {}
              /\ new[j].players = IF o[j] = k THEN old[k].players \ {p} ELSE old[o[j]].players
    <2>1. CASE j = k
      BY <1>1, <1>3, <2>1, Zenon
    <2>2. CASE j # k
      BY <1>1, <1>3, <2>2
    <2> QED
      BY <2>1, <2>2
  <1>5. Shorter(new, old, k, p, o)
    <2>1. \A i, j \in DOMAIN new : o[i] = o[j] => i = j
      BY <1>3
    <2>2. \A m \in DOMAIN old : \E j \in DOMAIN new : o[j] = m
      BY <1>1, <1>3
    <2> QED
      BY <1>1, <1>3, <1>4, <2>1, <2>2, Zenon DEF Shorter
  <1> QED
    BY <1>5

\* The queue q without the player p, the counters aside.
Gone(q, r, p) ==
    /\ QueueOk(r) /\ r.joined = q.joined /\ r.created = q.created
    /\ r.scheduled = q.scheduled
    /\ r.member = [q.member EXCEPT ![p] = 0]
    /\ \A o \in Players : \A n, i :
          Seat(r, o, n, i) <=> Seat(q, o, n, i) /\ ~(o = p /\ n = q.member[p])

\* A group of the list new is that of the list old, or what p leaves of it.
SameBut(h, g, gone) == /\ h.id = g.id /\ h.to = g.to /\ h.players # {}
                       /\ h.players = g.players \ gone

\* The j-th group of side t of r was the m-th one of q.
Was(q, r, t, j, m, s, k, p, o) ==
    /\ j \in DOMAIN r.groups[t] /\ m \in DOMAIN q.groups[t]
    /\ m = IF t = s THEN o[j] ELSE j
    /\ SameBut(r.groups[t][j], q.groups[t][m], IF t = s /\ m = k THEN {p} ELSE {})

LEMMA GoneIs ==
  ASSUME NEW q, QueueOk(q), NEW p \in Players, q.member[p] # 0, NEW s, s = Team[p],
         NEW k \in DOMAIN q.groups[s], q.groups[s][k].id = q.member[p],
         p \in q.groups[s][k].players,
         NEW rest, NEW o, Shorter(rest, q.groups[s], k, p, o),
         NEW groups, groups = [q.groups EXCEPT ![s] = rest],
         NEW member, member = [q.member EXCEPT ![p] = 0],
         NEW r, r = [groups |-> groups, member |-> member, freeSlots |-> q.freeSlots,
                     scheduled |-> q.scheduled, created |-> q.created, joined |-> q.joined]
  PROVE  Gone(q, r, p) /\ r.freeSlots = q.freeSlots
  <1>1. s \in Sides
    BY TeamAssumption
  <1>4. /\ groups \in [Sides -> Seq(Groups)] /\ groups[s] = rest
        /\ \A t \in Sides : t # s => groups[t] = q.groups[t]
    BY <1>1, QueueTypes DEF Shorter
  <1>5. member \in [Players -> 0 .. MaxJoins]
    BY QueueTypes, Numbers
  <1>6. /\ r.groups = groups /\ r.member = member /\ r.freeSlots = q.freeSlots
        /\ r.scheduled = q.scheduled /\ r.created = q.created /\ r.joined = q.joined
    OBVIOUS
  <1>7. r \in Queues
    BY <1>4, <1>5, QueueTypes DEF Queues
  \* where each group was
  <1>8. ASSUME NEW t \in Sides, NEW j \in DOMAIN r.groups[t]
        PROVE  \E m : Was(q, r, t, j, m, s, k, p, o)
    <2>1. CASE t = s
      <3>1. r.groups[t] = rest
        BY <1>4, <1>6, <2>1
      <3>2. PICK m \in DOMAIN q.groups[t] : m = o[j]
        BY <1>8, <2>1, <3>1 DEF Shorter
      <3>3. /\ rest[j].id = q.groups[t][m].id /\ rest[j].to = q.groups[t][m].to
            /\ rest[j].players # {}
            /\ rest[j].players = IF m = k THEN q.groups[t][m].players \ {p}
                                 ELSE q.groups[t][m].players
        BY <1>8, <2>1, <3>1, <3>2, Zenon DEF Shorter
      <3>4. SameBut(r.groups[t][j], q.groups[t][m], IF t = s /\ m = k THEN {p} ELSE {})
        BY <2>1, <3>1, <3>3 DEF SameBut
      <3> QED
        BY <1>8, <2>1, <3>2, <3>4 DEF Was
    <2>2. CASE t # s
      <3>1. r.groups[t] = q.groups[t]
        BY <1>4, <1>6, <2>2
      <3>2. r.groups[t][j].players # {}
        BY <1>8, <3>1 DEF QueueOk, GroupsOk, GroupOk
      <3>3. SameBut(r.groups[t][j], q.groups[t][j], IF t = s /\ j = k THEN {p} ELSE {})
        BY <2>2, <3>1, <3>2 DEF SameBut
      <3> QED
        BY <1>8, <2>2, <3>1, <3>3 DEF Was
    <2> QED
      BY <2>1, <2>2
  <1>9. ASSUME NEW t \in Sides, NEW m \in DOMAIN q.groups[t],
               ~(t = s /\ m = k /\ q.groups[t][m].players = {p})
        PROVE  \E j : Was(q, r, t, j, m, s, k, p, o)
    <2>1. CASE t = s
      <3>1. PICK j \in DOMAIN rest : o[j] = m
        BY <1>9, <2>1 DEF Shorter
      <3>2. j \in DOMAIN r.groups[t]
        BY <1>4, <1>6, <2>1, <3>1
      <3>3. PICK n : Was(q, r, t, j, n, s, k, p, o)
        BY <1>8, <3>2
      <3>4. n = m
        BY <2>1, <3>1, <3>3 DEF Was
      <3> QED
        BY <3>3, <3>4
    <2>2. CASE t # s
      <3>1. m \in DOMAIN r.groups[t]
        BY <1>4, <1>6, <1>9, <2>2
      <3>2. PICK n : Was(q, r, t, m, n, s, k, p, o)
        BY <1>8, <3>1
      <3>3. n = m
        BY <2>2, <3>2 DEF Was
      <3> QED
        BY <3>2, <3>3
    <2> QED
      BY <2>1, <2>2
  <1>10. GroupsOk(r)
    <2>1. ASSUME NEW t \in Sides, NEW j \in DOMAIN r.groups[t]
          PROVE  GroupOk(r.groups[t][j], t, r.joined, r.created)
      <3>0. PICK m : Was(q, r, t, j, m, s, k, p, o)
        BY <1>8, <2>1
      <3>1. /\ m \in DOMAIN q.groups[t]
            /\ r.groups[t][j].id = q.groups[t][m].id /\ r.groups[t][j].to = q.groups[t][m].to
            /\ r.groups[t][j].players # {}
            /\ r.groups[t][j].players \subseteq q.groups[t][m].players
        BY <3>0 DEF Was, SameBut
      <3>2. GroupOk(q.groups[t][m], t, q.joined, q.created)
        BY <3>1 DEF QueueOk, GroupsOk
      <3> QED
        BY <1>6, <3>1, <3>2 DEF GroupOk
    <2>2. Apart(r.groups)
      <3> SUFFICES ASSUME NEW t \in Sides, NEW u \in Sides, NEW i \in DOMAIN r.groups[t],
                          NEW j \in DOMAIN r.groups[u], r.groups[t][i].id = r.groups[u][j].id
                   PROVE  t = u /\ i = j
        BY DEF Apart
      <3>1. PICK a : Was(q, r, t, i, a, s, k, p, o)
        BY <1>8
      <3>2. PICK b : Was(q, r, u, j, b, s, k, p, o)
        BY <1>8
      <3>3. /\ a \in DOMAIN q.groups[t] /\ r.groups[t][i].id = q.groups[t][a].id
            /\ b \in DOMAIN q.groups[u] /\ r.groups[u][j].id = q.groups[u][b].id
            /\ a = (IF t = s THEN o[i] ELSE i) /\ b = (IF u = s THEN o[j] ELSE j)
        BY <3>1, <3>2 DEF Was, SameBut
      <3>4. t = u /\ a = b
        BY <3>3 DEF QueueOk, GroupsOk, Apart
      <3>5. CASE t = s
        <4>1. i \in DOMAIN rest /\ j \in DOMAIN rest
          BY <1>4, <1>6, <3>4, <3>5
        <4>2. o[i] = o[j]
          BY <3>3, <3>4, <3>5
        <4> QED
          BY <3>4, <4>1, <4>2 DEF Shorter
      <3> QED
        BY <3>3, <3>4, <3>5
    <2> QED
      BY <2>1, <2>2 DEF GroupsOk
  <1>11. ASSUME NEW x \in Players, NEW n, NEW i
         PROVE  Seat(r, x, n, i) <=> Seat(q, x, n, i) /\ ~(x = p /\ n = q.member[p])
    <2>1. Team[x] \in Sides
      BY TeamAssumption
    <2>2. ASSUME Seat(r, x, n, i) PROVE Seat(q, x, n, i) /\ ~(x = p /\ n = q.member[p])
      <3>1. PICK j \in DOMAIN r.groups[Team[x]] :
               /\ x \in r.groups[Team[x]][j].players /\ r.groups[Team[x]][j].id = n
               /\ r.groups[Team[x]][j].to = i
        BY <2>2 DEF Seat
      <3>2. PICK m : Was(q, r, Team[x], j, m, s, k, p, o)
        BY <1>8, <2>1
      <3>3. Seat(q, x, n, i)
        BY <3>1, <3>2, Zenon DEF Seat, Was, SameBut
      <3>4. ASSUME x = p, n = q.member[p] PROVE FALSE
        <4>0. Team[x] = s /\ m \in DOMAIN q.groups[s] /\ q.groups[s][m].id = q.groups[s][k].id
          BY <3>1, <3>2, <3>4, Zenon DEF Was, SameBut
        <4>1. Team[x] = s /\ m = k
          BY <1>1, <4>0 DEF QueueOk, GroupsOk, Apart
        <4> QED
          BY <3>1, <3>2, <3>4, <4>1 DEF Was, SameBut
      <3> QED
        BY <3>3, <3>4
    <2>3. ASSUME Seat(q, x, n, i), ~(x = p /\ n = q.member[p]) PROVE Seat(r, x, n, i)
      <3>1. PICK m \in DOMAIN q.groups[Team[x]] :
               /\ x \in q.groups[Team[x]][m].players /\ q.groups[Team[x]][m].id = n
               /\ q.groups[Team[x]][m].to = i
        BY <2>3 DEF Seat
      <3>2. Team[x] = s /\ m = k => x # p
        BY <2>3, <3>1
      <3>3. ~(Team[x] = s /\ m = k /\ q.groups[Team[x]][m].players = {p})
        BY <3>1, <3>2
      <3>4. PICK j : Was(q, r, Team[x], j, m, s, k, p, o)
        BY <1>9, <2>1, <3>1, <3>3
      <3>5. x \in r.groups[Team[x]][j].players
        BY <3>1, <3>2, <3>4 DEF Was, SameBut
      <3> QED
        BY <3>1, <3>4, <3>5 DEF Seat, Was, SameBut
    <2> QED
      BY <2>2, <2>3
  <1>12. ASSUME NEW x \in Players, r.member[x] # 0
         PROVE  \E i \in 0 .. MaxInstances : Seat(r, x, r.member[x], i)
    <2>1. x # p /\ r.member[x] = q.member[x]
      BY <1>6, <1>12, QueueTypes
    <2>2. PICK i \in 0 .. MaxInstances : Seat(q, x, q.member[x], i)
      BY <1>12, <2>1 DEF QueueOk
    <2> QED
      BY <1>11, <2>1, <2>2
  <1>13. 2 * r.created + Cardinality(Waiting(r)) <= r.joined
    <2>1. Waiting(r) \subseteq Waiting(q)
      <3> SUFFICES ASSUME NEW n \in Waiting(r) PROVE n \in Waiting(q)
        OBVIOUS
      <3>1. PICK t \in Sides : \E j \in DOMAIN r.groups[t] :
               r.groups[t][j].id = n /\ r.groups[t][j].to = 0 /\ n \in 1 .. q.joined
        BY <1>6 DEF Waiting
      <3>2. PICK j \in DOMAIN r.groups[t] :
               r.groups[t][j].id = n /\ r.groups[t][j].to = 0 /\ n \in 1 .. q.joined
        BY <3>1
      <3>3. PICK m : Was(q, r, t, j, m, s, k, p, o)
        BY <1>8, <3>2
      <3>4. m \in DOMAIN q.groups[t] /\ q.groups[t][m].id = n /\ q.groups[t][m].to = 0
        BY <3>2, <3>3 DEF Was, SameBut
      <3> QED
        BY <3>2, <3>4 DEF Waiting
    <2>2. q.joined \in Nat /\ q.created \in Nat /\ r.joined = q.joined /\ r.created = q.created
      BY <1>6, QueueTypes
    <2>3. IsFiniteSet(Waiting(q)) /\ Cardinality(Waiting(q)) \in Nat /\ Cardinality(Waiting(r)) \in Nat
      BY <2>2, WaitingIs
    <2>4. Cardinality(Waiting(r)) <= Cardinality(Waiting(q))
      BY <2>1, <2>3, FS_Subset
    <2>5. 2 * q.created + Cardinality(Waiting(q)) <= q.joined
      BY DEF QueueOk
    <2> QED
      BY <2>2, <2>3, <2>4, <2>5
  <1>14. \A j \in DOMAIN r.freeSlots : r.freeSlots[j].bg <= r.created
    BY <1>6 DEF QueueOk
  <1>15. QueueOk(r)
    BY <1>7, <1>10, <1>12, <1>13, <1>14 DEF QueueOk
  <1> QED
    BY <1>6, <1>11, <1>15 DEF Gone

\* What RemovePlayer makes of the counters: the player had a place, if he was
\* invited, and it is given back.
Returned(q, d, p, decrease) ==
    LET i == InvitedTo(q, p)
        k == FirstSlot(q, i)
        c == Plus(q.freeSlots[k].invited, Team[p], -1)
    IN IF decrease /\ i # 0 /\ HasSlot(q, i)
         THEN /\ d.sent = <<Count(i, Team[p], c[Team[p]])>>
              /\ d.queue.freeSlots = [q.freeSlots EXCEPT ![k].invited = c]
         ELSE d.sent = << >> /\ d.queue.freeSlots = q.freeSlots

\* RemovePlayer, one step at a time.
Position(q, s, g) == SelectInSeq(q.groups[s], LAMBDA h : h.id = g.id)
RestOf(q, s, k, g, p) == IF g.players = {p} THEN RemoveAt(q.groups[s], k)
                         ELSE [q.groups[s] EXCEPT ![k].players = @ \ {p}]
Dropped(q, s, rest, p) == [q EXCEPT !.groups[s] = rest, !.member[p] = 0]
Decreased(r, g, s, decrease) ==
    IF decrease /\ g.to # 0 THEN DecreaseInvitedCount(r, g.to, s) ELSE Answer(r, << >>)

LEMMA RemovePlayerUnfolded ==
  ASSUME NEW q, NEW p, q.member[p] # 0, NEW decrease
  PROVE  \E g, s, k, rest, r :
            /\ g = GroupOf(q, p) /\ s = Team[p] /\ k = Position(q, s, g)
            /\ rest = RestOf(q, s, k, g, p) /\ r = Dropped(q, s, rest, p)
            /\ RemovePlayer(q, p, decrease) = Decreased(r, g, s, decrease)
  <1>1. IsQueued(q, p)
    BY DEF IsQueued
  <1>2. PICK g, s, k, rest, r :
           /\ g = GroupOf(q, p) /\ s = Team[p] /\ k = Position(q, s, g)
           /\ rest = RestOf(q, s, k, g, p) /\ r = Dropped(q, s, rest, p)
    OBVIOUS
  <1>3. RemovePlayer(q, p, decrease) =
           Decreased(Dropped(q, Team[p], RestOf(q, Team[p], Position(q, Team[p], GroupOf(q, p)),
                                                GroupOf(q, p), p), p),
                     GroupOf(q, p), Team[p], decrease)
    BY <1>1, ZenonT(40) DEF RemovePlayer, Position, RestOf, Dropped, Decreased
  <1> QED
    BY <1>2, <1>3, ZenonT(40)

LEMMA PositionIs ==
  ASSUME NEW q, NEW s, q.groups[s] \in Seq(Groups), NEW n \in DOMAIN q.groups[s],
         NEW g, q.groups[s][n].id = g.id,
         \A j \in DOMAIN q.groups[s] : q.groups[s][j].id = g.id => j = n
  PROVE  Position(q, s, g) = n
  <1> DEFINE I == {j \in 1 .. Len(q.groups[s]) : q.groups[s][j].id = g.id}
  <1>1. Position(q, s, g) = IF I # {} THEN Min(I) ELSE 0
    BY DEF Position, SelectInSeq
  <1>2. DOMAIN q.groups[s] = 1 .. Len(q.groups[s]) /\ I \in SUBSET Nat
    OBVIOUS
  <1>3. n \in I /\ \A j \in I : j = n
    BY <1>2
  <1> HIDE DEF I
  <1>4. Min(I) \in I
    BY <1>2, <1>3, LeastNumber
  <1> QED
    BY <1>1, <1>3, <1>4

LEMMA DroppedIs ==
  ASSUME NEW q, QueueOk(q), NEW s, NEW rest, NEW p,
         NEW groups, groups = [q.groups EXCEPT ![s] = rest],
         NEW member, member = [q.member EXCEPT ![p] = 0]
  PROVE  Dropped(q, s, rest, p) =
            [groups |-> groups, member |-> member, freeSlots |-> q.freeSlots,
             scheduled |-> q.scheduled, created |-> q.created, joined |-> q.joined]
  <1>1. PICK u : u = [q EXCEPT !.groups = groups, !.member = member]
    OBVIOUS
  <1>2. u = [groups |-> groups, member |-> member, freeSlots |-> q.freeSlots,
             scheduled |-> q.scheduled, created |-> q.created, joined |-> q.joined]
    <2>1. q = [groups |-> q.groups, member |-> q.member, freeSlots |-> q.freeSlots,
               scheduled |-> q.scheduled, created |-> q.created, joined |-> q.joined]
      BY QueueTypes
    <2> QED
      BY <1>1, <2>1, Zenon
  <1>3. Dropped(q, s, rest, p) = u
    BY <1>1, ZenonT(40) DEF Dropped
  <1> QED
    BY <1>2, <1>3

LEMMA RemovePlayerIs ==
  ASSUME NEW q, QueueOk(q), NEW p \in Players, q.member[p] # 0, NEW decrease \in BOOLEAN,
         NEW d, d = RemovePlayer(q, p, decrease)
  PROVE  Gone(q, d.queue, p) /\ SameBgs(q, d.queue) /\ Returned(q, d, p, decrease)
  <1>1. PICK g, s, k, rest, r :
           /\ g = GroupOf(q, p) /\ s = Team[p] /\ k = Position(q, s, g)
           /\ rest = RestOf(q, s, k, g, p) /\ r = Dropped(q, s, rest, p)
           /\ RemovePlayer(q, p, decrease) = Decreased(r, g, s, decrease)
    BY RemovePlayerUnfolded
  <1>2. s \in Sides /\ q.groups[s] \in Seq(Groups)
    BY <1>1, TeamAssumption, QueueTypes
  <1>3. /\ k \in DOMAIN q.groups[s] /\ g = q.groups[s][k] /\ g.id = q.member[p]
        /\ p \in g.players /\ g \in Groups
    <2>1. PICK n \in DOMAIN q.groups[s] :
             /\ GroupOf(q, p) = q.groups[s][n]
             /\ q.groups[s][n].id = q.member[p]
             /\ p \in q.groups[s][n].players
             /\ \A t \in Sides : \A j \in DOMAIN q.groups[t] :
                   q.groups[t][j].id = q.member[p] => t = s /\ j = n
      BY <1>1, GroupOfIs
    <2>2. k = n
      BY <1>1, <1>2, <2>1, PositionIs, SMTT(60)
    <2> QED
      BY <1>1, <1>2, <2>1, <2>2, SMTT(60)
  <1>8. \E o : Shorter(rest, q.groups[s], k, p, o)
    <2>1. \A j \in DOMAIN q.groups[s] : q.groups[s][j].players # {}
      BY <1>2 DEF QueueOk, GroupsOk, GroupOk
    <2>2. PICK old \in Seq(Groups) : old = q.groups[s]
      BY <1>2
    <2>3. k \in DOMAIN old /\ g = old[k] /\ p \in g.players /\ g \in Groups
      BY <1>3, <2>2
    <2>4. CASE g.players = {p}
      <3>1. rest = RemoveAt(old, k)
        BY <1>1, <2>2, <2>4 DEF RestOf
      <3>2. old[k].players = {p} /\ \A j \in DOMAIN old : old[j].players # {}
        BY <2>1, <2>2, <2>3, <2>4
      <3> QED
        BY <2>2, <2>3, <3>1, <3>2, GroupRemoved, Zenon
    <2>5. CASE g.players # {p}
      <3>1. PICK h : h = [old[k] EXCEPT !.players = old[k].players \ {p}]
        BY Zenon
      <3>2. /\ h \in Groups /\ h.id = old[k].id /\ h.to = old[k].to
            /\ h.players = old[k].players \ {p} /\ h.players # {}
        BY <2>3, <2>5, <3>1, Zenon DEF Groups
      <3>3. rest = [old EXCEPT ![k] = h]
        BY <1>1, <2>2, <2>5, <3>1, ZenonT(40) DEF RestOf
      <3> QED
        BY <2>1, <2>2, <2>3, <3>2, <3>3, GroupReduced, Zenon
    <2> QED
      BY <2>4, <2>5
  <1>10. Gone(q, r, p) /\ r.freeSlots = q.freeSlots
    <2>1. PICK o : Shorter(rest, q.groups[s], k, p, o)
      BY <1>8
    <2>2. PICK groups, member : /\ groups = [q.groups EXCEPT ![s] = rest]
                                /\ member = [q.member EXCEPT ![p] = 0]
      BY Zenon
    <2>3. r = [groups |-> groups, member |-> member, freeSlots |-> q.freeSlots,
               scheduled |-> q.scheduled, created |-> q.created, joined |-> q.joined]
      BY <1>1, <2>2, DroppedIs
    <2>4. /\ k \in DOMAIN q.groups[s] /\ q.groups[s][k].id = q.member[p]
          /\ p \in q.groups[s][k].players
      BY <1>3
    <2>5. s = Team[p]
      BY <1>1
    <2> QED
      BY <2>1, <2>2, <2>3, <2>4, <2>5, GoneIs, Zenon
  <1>11. d = Decreased(r, g, s, decrease)
    BY <1>1
  <1>12. g.to = InvitedTo(q, p) /\ g \in Groups
    BY <1>1, <1>3 DEF InvitedTo, IsQueued
  <1>13. CASE ~(decrease /\ g.to # 0 /\ HasSlot(q, g.to))
    <2>1. d = Answer(r, << >>)
      <3>1. HasSlot(r, g.to) <=> HasSlot(q, g.to)
        BY <1>10 DEF HasSlot
      <3> QED
        BY <1>11, <1>13, <3>1, NothingToDecrease DEF Decreased
    <2>2. d.queue = r /\ d.sent = << >>
      BY <2>1 DEF Answer
    <2> QED
      BY <1>10, <1>12, <1>13, <2>2 DEF Returned, SameBgs
  <1>14. CASE decrease /\ g.to # 0 /\ HasSlot(q, g.to)
    <2>1. PICK i : i = g.to
      OBVIOUS
    <2>2. i \in Battlegrounds
      BY <1>12, <1>14, <2>1 DEF Groups, Battlegrounds
    <2>3. HasSlot(r, i) /\ FirstSlot(r, i) = FirstSlot(q, i) /\ QueueOk(r)
      BY <1>10, <1>14, <2>1 DEF HasSlot, FirstSlot, Gone
    <2>4. d = DecreaseInvitedCount(r, i, s)
      BY <1>11, <1>14, <2>1 DEF Decreased
    <2>5. PICK f : f = FirstSlot(q, i)
      OBVIOUS
    <2>6. PICK c : c = Plus(q.freeSlots[f].invited, s, -1)
      OBVIOUS
    <2>7. /\ QueueOk(d.queue) /\ SameGroups(r, d.queue) /\ SameBgs(r, d.queue)
          /\ d.queue.scheduled = r.scheduled /\ d.sent = <<Count(i, s, c[s])>>
          /\ d.queue.freeSlots = [r.freeSlots EXCEPT ![f].invited = c]
      BY <1>2, <1>10, <2>2, <2>3, <2>4, <2>5, <2>6, DecreaseIs
    <2>8. SameBgs(q, d.queue)
      BY <1>10, <2>7 DEF SameBgs
    <2>9. Gone(q, d.queue, p)
      BY <1>10, <2>7, SMTT(60) DEF Gone, SameGroups, Seat
    <2>10. Returned(q, d, p, decrease)
      BY <1>1, <1>10, <1>12, <1>14, <2>1, <2>5, <2>6, <2>7, Zenon DEF Returned
    <2> QED
      BY <2>8, <2>9, <2>10
  <1> QED
    BY <1>13, <1>14

LEMMA NobodyRemoved ==
  ASSUME NEW q, NEW p, q.member[p] = 0, NEW decrease
  PROVE  RemovePlayer(q, p, decrease) = Answer(q, << >>)
  BY DEF RemovePlayer, IsQueued

-----------------------------------------------------------------------------
(***************************************************************************)
(* Invitations.                                                            *)
(***************************************************************************)
LEMMA GroupsOfPlayers ==
  ASSUME NEW g \in Groups
  PROVE  /\ g.players \subseteq Players /\ IsFiniteSet(g.players)
         /\ Cardinality(g.players) \in Nat /\ Cardinality(g.players) <= Cardinality(Players)
         /\ g.id \in 1 .. MaxJoins /\ g.to \in 0 .. MaxInstances
  <1>1. g.players \in SUBSET Players /\ g.id \in 1 .. MaxJoins /\ g.to \in 0 .. MaxInstances
    BY DEF Groups
  <1>2. IsFiniteSet(g.players) /\ Cardinality(g.players) <= Cardinality(Players)
    BY <1>1, TeamAssumption, FS_Subset
  <1> QED
    BY <1>1, <1>2, FS_CardinalityType

Pools == [ids : SUBSET (1 .. MaxJoins), count : Nat]
PoolStep(gs, room, enough, k, so) ==
    LET g == gs[k]
        count == so.count + Cardinality(g.players)
    IN IF g.to = 0 /\ so.count < enough /\ count <= room
         THEN [ids |-> so.ids \union {g.id}, count |-> count] ELSE so
PoolSteps(f, gs, room, enough) ==
    f = [k \in 0 .. Len(gs) |->
           IF k = 0 THEN [ids |-> {}, count |-> 0] ELSE PoolStep(gs, room, enough, k, f[k - 1])]

LEMMA PoolStepIs ==
  ASSUME NEW gs \in Seq(Groups), NEW room, NEW enough, NEW k \in 1 .. Len(gs), NEW so \in Pools
  PROVE  PoolStep(gs, room, enough, k, so) \in Pools
  <1>1. gs[k] \in Groups
    OBVIOUS
  <1>2. Cardinality(gs[k].players) \in Nat /\ gs[k].id \in 1 .. MaxJoins
    BY <1>1, GroupsOfPlayers
  <1> QED
    BY <1>2 DEF PoolStep, Pools

LEMMA SelectionPoolSteps ==
  ASSUME NEW gs \in Seq(Groups), NEW room, NEW enough
  PROVE  \E f \in [0 .. Len(gs) -> Pools] :
            /\ SelectionPool(gs, room, enough) = f[Len(gs)]
            /\ f[0] = [ids |-> {}, count |-> 0]
            /\ \A k \in 1 .. Len(gs) : f[k] = PoolStep(gs, room, enough, k, f[k - 1])
  <1>1. PICK n \in Nat : n = Len(gs)
    OBVIOUS
  <1>2. PICK b \in Pools : b = [ids |-> {}, count |-> 0]
    BY Zenon DEF Pools
  <1>3. PICK h : h = [k \in 1 .. n |-> [so \in Pools |-> PoolStep(gs, room, enough, k, so)]]
    BY Zenon
  <1>4. h \in [1 .. n -> [Pools -> Pools]]
    BY <1>1, <1>3, PoolStepIs
  <1>5. PICK f \in [0 .. n -> Pools] : Solves(f, h, b, n)
    BY <1>4, RecursionExists
  <1>6. \A k \in 1 .. n : f[k] = PoolStep(gs, room, enough, k, f[k - 1])
    <2> SUFFICES ASSUME NEW k \in 1 .. n PROVE f[k] = PoolStep(gs, room, enough, k, f[k - 1])
      OBVIOUS
    <2>1. f[k] = h[k][f[k - 1]] /\ f[k - 1] \in Pools
      BY <1>5 DEF Solves
    <2> QED
      BY <1>3, <2>1
  <1>7. PoolSteps(f, gs, room, enough)
    <2>1. \A k \in 0 .. n : f[k] = IF k = 0 THEN [ids |-> {}, count |-> 0]
                                   ELSE PoolStep(gs, room, enough, k, f[k - 1])
      BY <1>2, <1>5, <1>6 DEF Solves
    <2> QED
      BY <1>1, <2>1 DEF PoolSteps
  <1>8. PICK g : /\ g = CHOOSE x : PoolSteps(x, gs, room, enough)
                 /\ PoolSteps(g, gs, room, enough)
    BY <1>7
  <1>9. SelectionPool(gs, room, enough) = g[Len(gs)]
    BY <1>8, ZenonT(40) DEF SelectionPool, PoolSteps, PoolStep
  <1>10. /\ DOMAIN g = 0 .. n /\ g[0] = b
         /\ \A k \in 1 .. n : g[k] = PoolStep(gs, room, enough, k, g[k - 1])
    <2>1. g = [k \in 0 .. n |->
                 IF k = 0 THEN b ELSE PoolStep(gs, room, enough, k, g[k - 1])]
      BY <1>1, <1>2, <1>8, Zenon DEF PoolSteps
    <2> QED
      BY <2>1
  <1>11. g \in [0 .. n -> Pools]
    <2> DEFINE T == {k \in 0 .. n : g[k] \in Pools}
    <2>1. 0 \in T
      BY <1>10
    <2>2. ASSUME NEW k \in 1 .. n, k - 1 \in T PROVE k \in T
      BY <1>1, <1>10, <2>2, PoolStepIs
    <2> HIDE DEF T
    <2>3. T \in SUBSET (0 .. n)
      BY DEF T
    <2>4. T = 0 .. n
      BY <2>1, <2>2, <2>3, NumbersUpTo
    <2>5. g = [k \in 0 .. n |-> g[k]]
      BY <1>8, <1>1, Zenon DEF PoolSteps
    <2> QED
      BY <2>4, <2>5 DEF T
  <1> QED
    BY <1>1, <1>2, <1>9, <1>10, <1>11, Zenon

\* A pool takes groups that are not invited yet.
LEMMA SelectionPoolIs ==
  ASSUME NEW gs \in Seq(Groups), NEW room, NEW enough,
         NEW pool, pool = SelectionPool(gs, room, enough)
  PROVE  /\ pool.count \in Nat /\ (pool.count > 0 => pool.ids # {})
         /\ pool.ids \subseteq 1 .. MaxJoins
         /\ \A n \in pool.ids : \E k \in DOMAIN gs : gs[k].id = n /\ gs[k].to = 0
  <1>1. PICK f \in [0 .. Len(gs) -> Pools] :
           /\ pool = f[Len(gs)]
           /\ f[0] = [ids |-> {}, count |-> 0]
           /\ \A k \in 1 .. Len(gs) : f[k] = PoolStep(gs, room, enough, k, f[k - 1])
    BY SelectionPoolSteps
  <1>2. PICK n \in Nat : n = Len(gs) /\ DOMAIN gs = 1 .. n
    OBVIOUS
  <1> DEFINE Good(x) == /\ x.count \in Nat /\ (x.count > 0 => x.ids # {})
                        /\ x.ids \subseteq 1 .. MaxJoins
                        /\ \A m \in x.ids : \E k \in DOMAIN gs : gs[k].id = m /\ gs[k].to = 0
             T == {k \in 0 .. n : Good(f[k])}
  <1>3. 0 \in T
    BY <1>1
  <1>4. ASSUME NEW k \in 1 .. n, k - 1 \in T PROVE k \in T
    <2>1. PICK so : so = f[k - 1] /\ so \in Pools /\ Good(so)
      BY <1>2, <1>4
    <2>2. f[k] = PoolStep(gs, room, enough, k, so)
      BY <1>1, <1>2, <2>1
    <2>3. gs[k] \in Groups
      BY <1>2
    <2>4. Cardinality(gs[k].players) \in Nat /\ gs[k].id \in 1 .. MaxJoins
      BY <2>3, GroupsOfPlayers
    <2>5. CASE f[k] = so
      BY <2>1, <2>5
    <2>6. CASE f[k] # so
      <3>1. /\ gs[k].to = 0 /\ f[k].ids = so.ids \union {gs[k].id}
            /\ f[k].count = so.count + Cardinality(gs[k].players)
        BY <2>2, <2>6 DEF PoolStep
      <3>2. k \in DOMAIN gs
        BY <1>2
      <3>3. \A m \in f[k].ids : \E j \in DOMAIN gs : gs[j].id = m /\ gs[j].to = 0
        BY <2>1, <3>1, <3>2
      <3> QED
        BY <2>1, <2>4, <3>1, <3>3
    <2> QED
      BY <2>5, <2>6
  <1> HIDE DEF T
  <1>5. T \in SUBSET (0 .. n)
    BY DEF T
  <1>6. T = 0 .. n
    BY <1>3, <1>4, <1>5, NumbersUpTo
  <1>7. Good(f[n])
    BY <1>6 DEF T
  <1> QED
    BY <1>1, <1>2, <1>7

Invitation(p, i, n) == [type |-> "Invited", player |-> p, bg |-> i, id |-> n]

LEMMA Halves ==
  ASSUME NEW n \in Nat
  PROVE  /\ \A k \in 1 .. n : /\ 2 * k - 1 \in 1 .. 2 * n /\ (2 * k - 1) % 2 = 1
                              /\ ((2 * k - 1) + 1) \div 2 = k
                              /\ 2 * k \in 1 .. 2 * n /\ (2 * k) % 2 # 1 /\ (2 * k) \div 2 = k
         /\ \A j \in 1 .. 2 * n : \E k \in 1 .. n : j = 2 * k - 1 \/ j = 2 * k
  <1>1. ASSUME NEW k \in 1 .. n
        PROVE  /\ 2 * k - 1 \in 1 .. 2 * n /\ (2 * k - 1) % 2 = 1
               /\ ((2 * k - 1) + 1) \div 2 = k
               /\ 2 * k \in 1 .. 2 * n /\ (2 * k) % 2 # 1 /\ (2 * k) \div 2 = k
    OBVIOUS
  <1>2. ASSUME NEW j \in 1 .. 2 * n PROVE \E k \in 1 .. n : j = 2 * k - 1 \/ j = 2 * k
    <2>1. CASE j % 2 = 1
      <3>1. (j + 1) \div 2 \in 1 .. n /\ j = 2 * ((j + 1) \div 2) - 1
        BY <2>1
      <3> QED
        BY <3>1
    <2>2. CASE j % 2 # 1
      <3>1. j \div 2 \in 1 .. n /\ j = 2 * (j \div 2)
        BY <2>2
      <3> QED
        BY <3>1
    <2> QED
      BY <2>1, <2>2
  <1> QED
    BY <1>1, <1>2

\* The messages of one invited group, whose players stand in the order pl.
Notices(ms, g, e, s, pl, n) ==
    IF e.status = "none"
      THEN /\ DOMAIN ms = 1 .. n
           /\ \A k \in 1 .. n : ms[k] = Invitation(pl[k], e.bg, g.id)
      ELSE /\ DOMAIN ms = 1 .. 2 * n
           /\ \A k \in 1 .. n : /\ ms[2 * k - 1] = Invitation(pl[k], e.bg, g.id)
                                /\ ms[2 * k] = Count(e.bg, s, (e.invited[s] + k) % Width)

LEMMA InvitationsAre ==
  ASSUME NEW g \in Groups, NEW e, NEW s, NEW n, n = Cardinality(g.players),
         NEW ms, ms = InvitationsOf(g, e, s), NEW pl, pl = SetToSeq(g.players)
  PROVE  /\ n \in Nat /\ pl \in [1 .. n -> g.players]
         /\ \A p \in g.players : \E k \in 1 .. n : pl[k] = p
         /\ \A j, k \in 1 .. n : pl[j] = pl[k] => j = k
         /\ Notices(ms, g, e, s, pl, n) /\ ms = [j \in DOMAIN ms |-> ms[j]]
  <1>1. /\ n \in Nat /\ pl \in [1 .. n -> g.players]
        /\ \A p \in g.players : \E k \in 1 .. n : pl[k] = p
        /\ \A j, k \in 1 .. n : pl[j] = pl[k] => j = k
    <2>1. IsFiniteSet(g.players)
      BY GroupsOfPlayers
    <2> QED
      BY <2>1, SetToSeqIs
  <1>2. Len(pl) = n
    BY <1>1
  <1>3. CASE e.status = "none"
    <2>1. ms = [k \in 1 .. Len(pl) |-> [type |-> "Invited", player |-> pl[k], bg |-> e.bg, id |-> g.id]]
      BY <1>3, ZenonT(40) DEF InvitationsOf
    <2>2. DOMAIN ms = 1 .. n /\ \A k \in 1 .. n : ms[k] = Invitation(pl[k], e.bg, g.id)
      BY <1>1, <1>2, <2>1 DEF Invitation
    <2>3. Notices(ms, g, e, s, pl, n)
      BY <1>3, <2>2 DEF Notices
    <2> QED
      BY <1>1, <2>1, <2>3
  <1>4. CASE e.status # "none"
    <2>1. ms = [k \in 1 .. 2 * Len(pl) |->
                  IF k % 2 = 1 THEN Invitation(pl[(k + 1) \div 2], e.bg, g.id)
                  ELSE Count(e.bg, s, (e.invited[s] + (k \div 2)) % Width)]
      BY <1>4, ZenonT(40) DEF InvitationsOf, Invitation, Count
    <2>2. ms = [k \in 1 .. 2 * n |->
                  IF k % 2 = 1 THEN Invitation(pl[(k + 1) \div 2], e.bg, g.id)
                  ELSE Count(e.bg, s, (e.invited[s] + (k \div 2)) % Width)]
      BY <1>2, <2>1
    <2>3. DOMAIN ms = 1 .. 2 * n
      BY <2>2
    <2>4. ASSUME NEW k \in 1 .. n
          PROVE  /\ ms[2 * k - 1] = Invitation(pl[k], e.bg, g.id)
                 /\ ms[2 * k] = Count(e.bg, s, (e.invited[s] + k) % Width)
      <3>1. /\ 2 * k - 1 \in 1 .. 2 * n /\ (2 * k - 1) % 2 = 1 /\ ((2 * k - 1) + 1) \div 2 = k
            /\ 2 * k \in 1 .. 2 * n /\ (2 * k) % 2 # 1 /\ (2 * k) \div 2 = k
        BY <1>1, Halves
      <3>2. PICK a, b : a = 2 * k - 1 /\ b = 2 * k
        OBVIOUS
      <3>3. a \in 1 .. 2 * n /\ a % 2 = 1 /\ (a + 1) \div 2 = k
        BY <3>1, <3>2
      <3>4. b \in 1 .. 2 * n /\ b % 2 # 1 /\ b \div 2 = k
        BY <3>1, <3>2
      <3>5. ms[a] = Invitation(pl[k], e.bg, g.id)
        BY <2>2, <3>3
      <3>6. ms[b] = Count(e.bg, s, (e.invited[s] + k) % Width)
        BY <2>2, <3>4
      <3> QED
        BY <3>2, <3>5, <3>6
    <2>5. Notices(ms, g, e, s, pl, n)
      BY <1>4, <2>3, <2>4, ZenonT(40) DEF Notices
    <2> QED
      BY <1>1, <2>2, <2>5
  <1> QED
    BY <1>1, <1>3, <1>4

\* A message about the invitation of the groups ids of a list to the entry e.
Announces(m, gs, ids, e, s) ==
    \/ \E k \in DOMAIN gs : \E p \in gs[k].players :
          gs[k].id \in ids /\ m = Invitation(p, e.bg, gs[k].id)
    \/ e.status # "none" /\ \E c \in 0 .. Width - 1 : m = Count(e.bg, s, c)

LEMMA AnnouncesToWorld ==
  ASSUME NEW gs \in Seq(Groups), NEW ids, NEW e \in Slots, NEW s \in Sides, NEW m,
         Announces(m, gs, ids, e, s)
  PROVE  m \in ToWorld
  <1>1. e.bg \in Battlegrounds
    BY DEF Slots
  <1>2. ASSUME NEW k \in DOMAIN gs, NEW p \in gs[k].players, m = Invitation(p, e.bg, gs[k].id)
        PROVE  m \in ToWorld
    <2>1. gs[k] \in Groups
      OBVIOUS
    <2>2. p \in Players /\ gs[k].id \in 1 .. MaxJoins
      BY <2>1, GroupsOfPlayers
    <2> QED
      BY <1>1, <1>2, <2>2 DEF ToWorld, Invitation
  <1>3. ASSUME NEW c \in 0 .. Width - 1, m = Count(e.bg, s, c) PROVE m \in ToWorld
    BY <1>1, <1>3 DEF ToWorld, Count
  <1> QED
    BY <1>2, <1>3 DEF Announces

LEMMA NoticesAnnounce ==
  ASSUME NEW gs \in Seq(Groups), NEW ids, NEW e \in Slots, NEW s \in Sides,
         NEW x \in DOMAIN gs, gs[x].id \in ids, NEW ms, ms = InvitationsOf(gs[x], e, s)
  PROVE  ms \in Seq(ToWorld) /\ \A j \in DOMAIN ms : Announces(ms[j], gs, ids, e, s)
  <1>1. PICK g \in Groups : g = gs[x]
    OBVIOUS
  <1>2. PICK n, pl : n = Cardinality(g.players) /\ pl = SetToSeq(g.players)
    OBVIOUS
  <1>3. /\ n \in Nat /\ pl \in [1 .. n -> g.players] /\ Notices(ms, g, e, s, pl, n)
        /\ ms = [j \in DOMAIN ms |-> ms[j]]
    BY <1>1, <1>2, InvitationsAre
  <1>4. \A k \in 1 .. n : Announces(Invitation(pl[k], e.bg, g.id), gs, ids, e, s)
    BY <1>1, <1>3 DEF Announces
  <1>5. ASSUME e.status # "none", NEW k \in 1 .. n
        PROVE  Announces(Count(e.bg, s, (e.invited[s] + k) % Width), gs, ids, e, s)
    <2>1. e.invited[s] + k \in Int
      BY <1>5, Numbers DEF Slots, Counters
    <2>2. (e.invited[s] + k) % Width \in 0 .. Width - 1
      BY <2>1, Numbers, Zenon
    <2> QED
      BY <1>5, <2>2 DEF Announces
  <1>6. \E l \in Nat : DOMAIN ms = 1 .. l /\ \A j \in 1 .. l : Announces(ms[j], gs, ids, e, s)
    <2>1. CASE e.status = "none"
      BY <1>3, <1>4, <2>1 DEF Notices
    <2>2. CASE e.status # "none"
      <3>1. PICK l \in Nat : l = 2 * n
        BY <1>3
      <3>2. DOMAIN ms = 1 .. l
        BY <1>3, <2>2, <3>1 DEF Notices
      <3>3. ASSUME NEW j \in 1 .. l PROVE Announces(ms[j], gs, ids, e, s)
        <4>1. PICK k \in 1 .. n : j = 2 * k - 1 \/ j = 2 * k
          BY <1>3, <3>1, Halves
        <4>2. \/ ms[j] = Invitation(pl[k], e.bg, g.id)
              \/ ms[j] = Count(e.bg, s, (e.invited[s] + k) % Width)
          BY <1>3, <2>2, <4>1 DEF Notices
        <4> QED
          BY <1>4, <1>5, <2>2, <4>2
      <3> QED
        BY <3>2, <3>3
    <2> QED
      BY <2>1, <2>2
  <1>7. PICK l \in Nat : DOMAIN ms = 1 .. l /\ \A j \in 1 .. l : Announces(ms[j], gs, ids, e, s)
    BY <1>6
  <1>8. \A j \in 1 .. l : ms[j] \in ToWorld
    BY <1>7, AnnouncesToWorld
  <1> QED
    BY <1>3, <1>7, <1>8

-----------------------------------------------------------------------------
(***************************************************************************)
(* The invitations of one side, of both, of an entry and of a new match.   *)
(***************************************************************************)
Progress == [entry : Slots, sent : Seq(ToWorld)]

InviteStep(gs, ids, s, k, so) ==
    LET g == gs[k]
    IN IF g.id \notin ids THEN so
       ELSE [entry |-> [so.entry EXCEPT !.invited = Plus(@, s, Cardinality(g.players))],
             sent |-> so.sent \o InvitationsOf(g, so.entry, s)]
InviteSteps(f, gs, ids, e, s) ==
    f = [k \in 0 .. Len(gs) |->
           IF k = 0 THEN [entry |-> e, sent |-> << >>] ELSE InviteStep(gs, ids, s, k, f[k - 1])]

\* One more group g of the list is invited to the entry e.
Counted(e, g, s) ==
    [bg |-> e.bg, status |-> e.status, invited |-> Plus(e.invited, s, Cardinality(g.players))]

LEMMA CountedIs ==
  ASSUME NEW e \in Slots, NEW g \in Groups, NEW s \in Sides
  PROVE  Counted(e, g, s) \in Slots
         /\ Counted(e, g, s) = [e EXCEPT !.invited = Plus(@, s, Cardinality(g.players))]
  <1>1. Cardinality(g.players) \in Int
    BY GroupsOfPlayers
  <1>2. Plus(e.invited, s, Cardinality(g.players)) \in Counters
    BY <1>1, PlusIs DEF Slots
  <1> QED
    BY <1>2 DEF Counted, Slots

LEMMA InviteStepIs ==
  ASSUME NEW gs \in Seq(Groups), NEW ids, NEW s \in Sides, NEW k \in 1 .. Len(gs),
         NEW so \in Progress
  PROVE  /\ InviteStep(gs, ids, s, k, so) \in Progress
         /\ gs[k].id \notin ids => InviteStep(gs, ids, s, k, so) = so
         /\ gs[k].id \in ids =>
              InviteStep(gs, ids, s, k, so) = [entry |-> Counted(so.entry, gs[k], s),
                                               sent |-> so.sent \o InvitationsOf(gs[k], so.entry, s)]
  <1>1. gs[k] \in Groups /\ so.entry \in Slots /\ so.sent \in Seq(ToWorld) /\ k \in DOMAIN gs
    BY DEF Progress
  <1>2. CASE gs[k].id \notin ids
    BY <1>2, Zenon DEF InviteStep
  <1>3. CASE gs[k].id \in ids
    <2>1. PICK ms : ms = InvitationsOf(gs[k], so.entry, s)
      OBVIOUS
    <2>2. ms \in Seq(ToWorld)
      BY <1>1, <1>3, <2>1, NoticesAnnounce, Zenon
    <2>3. so.sent \o ms \in Seq(ToWorld)
      BY <1>1, <2>2
    <2>4. PICK c \in Slots : c = Counted(so.entry, gs[k], s)
      BY <1>1, CountedIs
    <2>5. InviteStep(gs, ids, s, k, so) = [entry |-> c, sent |-> so.sent \o ms]
      BY <1>1, <1>3, <2>1, <2>4, CountedIs, Zenon DEF InviteStep
    <2> QED
      BY <1>3, <2>1, <2>3, <2>4, <2>5 DEF Progress
  <1> QED
    BY <1>2, <1>3, Zenon

\* The groups one after another.
InviteRun(f, gs, ids, e, s) ==
    /\ f \in [0 .. Len(gs) -> Progress] /\ InviteSide(gs, ids, e, s) = f[Len(gs)]
    /\ f[0] = [entry |-> e, sent |-> << >>]
    /\ \A k \in 1 .. Len(gs) : f[k] = InviteStep(gs, ids, s, k, f[k - 1])

LEMMA InviteSideSteps ==
  ASSUME NEW gs \in Seq(Groups), NEW ids, NEW e \in Slots, NEW s \in Sides
  PROVE  \E f : InviteRun(f, gs, ids, e, s)
  <1>1. PICK n \in Nat : n = Len(gs)
    OBVIOUS
  <1>2. PICK b \in Progress : b = [entry |-> e, sent |-> << >>]
    <2>1. << >> \in Seq(ToWorld)
      OBVIOUS
    <2>2. PICK ms \in Seq(ToWorld) : ms = << >>
      BY <2>1, Zenon
    <2>3. [entry |-> e, sent |-> ms] \in Progress
      BY DEF Progress
    <2> QED
      BY <2>2, <2>3
  <1>3. PICK h : h = [k \in 1 .. n |-> [so \in Progress |-> InviteStep(gs, ids, s, k, so)]]
    BY Zenon
  <1>4. h \in [1 .. n -> [Progress -> Progress]]
    BY <1>1, <1>3, InviteStepIs, Zenon
  <1>5. PICK f \in [0 .. n -> Progress] : Solves(f, h, b, n)
    BY <1>4, RecursionExists
  <1>6. \A k \in 1 .. n : f[k] = InviteStep(gs, ids, s, k, f[k - 1])
    <2> SUFFICES ASSUME NEW k \in 1 .. n PROVE f[k] = InviteStep(gs, ids, s, k, f[k - 1])
      OBVIOUS
    <2>1. f[k] = h[k][f[k - 1]] /\ f[k - 1] \in Progress
      BY <1>5 DEF Solves
    <2> QED
      BY <1>3, <2>1
  <1>7. InviteSteps(f, gs, ids, e, s)
    <2>1. \A k \in 0 .. n : f[k] = IF k = 0 THEN [entry |-> e, sent |-> << >>]
                                   ELSE InviteStep(gs, ids, s, k, f[k - 1])
      BY <1>2, <1>5, <1>6 DEF Solves
    <2> QED
      BY <1>1, <2>1 DEF InviteSteps
  <1>8. PICK g : /\ g = CHOOSE x : InviteSteps(x, gs, ids, e, s)
                 /\ InviteSteps(g, gs, ids, e, s)
    BY <1>7
  <1>9. InviteSide(gs, ids, e, s) = g[Len(gs)]
    BY <1>8, ZenonT(40) DEF InviteSide, InviteSteps, InviteStep
  <1>10. /\ DOMAIN g = 0 .. n /\ g[0] = b
         /\ \A k \in 1 .. n : g[k] = InviteStep(gs, ids, s, k, g[k - 1])
    <2>1. g = [k \in 0 .. n |->
                 IF k = 0 THEN b ELSE InviteStep(gs, ids, s, k, g[k - 1])]
      BY <1>1, <1>2, <1>8, Zenon DEF InviteSteps
    <2> QED
      BY <2>1
  <1>11. g \in [0 .. n -> Progress]
    <2> DEFINE T == {k \in 0 .. n : g[k] \in Progress}
    <2>1. 0 \in T
      BY <1>10
    <2>2. ASSUME NEW k \in 1 .. n, k - 1 \in T PROVE k \in T
      <3>1. PICK so \in Progress : so = g[k - 1]
        BY <2>2
      <3>2. k \in 1 .. Len(gs)
        BY <1>1
      <3>3. InviteStep(gs, ids, s, k, so) \in Progress
        BY <3>2, InviteStepIs
      <3> QED
        BY <1>10, <3>1, <3>3
    <2> HIDE DEF T
    <2>3. T \in SUBSET (0 .. n)
      BY DEF T
    <2>4. T = 0 .. n
      BY <2>1, <2>2, <2>3, NumbersUpTo
    <2>5. g = [k \in 0 .. n |-> g[k]]
      BY <1>8, <1>1, Zenon DEF InviteSteps
    <2> QED
      BY <2>4, <2>5 DEF T
  <1>12. InviteRun(g, gs, ids, e, s)
    BY <1>1, <1>2, <1>9, <1>10, <1>11 DEF InviteRun
  <1> QED
    BY <1>12

-----------------------------------------------------------------------------
(***************************************************************************)
(* Messages under way, by the sets they belong to.                         *)
(***************************************************************************)
Absent(ms, M) == \A k \in DOMAIN ms : ms[k] \notin M
Before(ms, M, N) == \A j, k \in DOMAIN ms : ms[j] \in M /\ ms[k] \in N => j < k
Single(ms, M) == \A j, k \in DOMAIN ms : ms[j] \in M /\ ms[k] \in M => j = k

\* The first message was taken from ms, ts is left.
Taken(ms, ts, h) ==
    \A M : /\ Absent(ms, M) <=> h \notin M /\ Absent(ts, M)
           /\ Single(ms, M) => Single(ts, M)
           /\ Single(ms, M) /\ h \in M => Absent(ts, M)
           /\ \A N : /\ Before(ms, M, N) => Before(ts, M, N)
                     /\ Before(ms, M, N) /\ h \in N => Absent(ms, M)

\* The messages ns were sent after ms.
Sent(ms, ns, rs) ==
    \A M : /\ Absent(rs, M) <=> Absent(ms, M) /\ Absent(ns, M)
           /\ Absent(ns, M) /\ Single(ms, M) => Single(rs, M)
           /\ Absent(ms, M) /\ Single(ns, M) => Single(rs, M)
           /\ \A N : /\ Before(ms, M, N) /\ Absent(ns, M) => Before(rs, M, N)
                     /\ Absent(ms, N) /\ Absent(ns, M) => Before(rs, M, N)
                     /\ Absent(ms, N) /\ Before(ns, M, N) => Before(rs, M, N)

LEMMA TakenIs ==
  ASSUME NEW S, NEW ms \in Seq(S), ms # << >>, NEW ts, ts = Tail(ms), NEW h, h = Head(ms)
  PROVE  ts \in Seq(S) /\ h \in S /\ Taken(ms, ts, h)
  <1>1. /\ ts \in Seq(S) /\ h \in S /\ Len(ms) \in Nat /\ Len(ms) > 0 /\ Len(ts) = Len(ms) - 1
        /\ h = ms[1] /\ \A k \in 1 .. Len(ts) : ts[k] = ms[k + 1]
        /\ DOMAIN ms = 1 .. Len(ms) /\ DOMAIN ts = 1 .. Len(ms) - 1
    OBVIOUS
  <1>2. 1 \in DOMAIN ms /\ \A k \in DOMAIN ts : k + 1 \in DOMAIN ms /\ ts[k] = ms[k + 1]
    BY <1>1
  <1>3. \A k \in DOMAIN ms : k = 1 \/ (k - 1 \in DOMAIN ts /\ ts[k - 1] = ms[k])
    BY <1>1
  <1>4. DOMAIN ms \subseteq Int /\ DOMAIN ts \subseteq Int /\ \A k \in DOMAIN ts : k + 1 # 1
    BY <1>1
  <1>5. \A k \in DOMAIN ms : ~(k < 1)
    BY <1>1
  <1>6. ASSUME NEW M
        PROVE  /\ Absent(ms, M) <=> h \notin M /\ Absent(ts, M)
               /\ Single(ms, M) => Single(ts, M)
               /\ Single(ms, M) /\ h \in M => Absent(ts, M)
               /\ \A N : /\ Before(ms, M, N) => Before(ts, M, N)
                         /\ Before(ms, M, N) /\ h \in N => Absent(ms, M)
    <2>1. Absent(ms, M) <=> h \notin M /\ Absent(ts, M)
      BY <1>1, <1>2, <1>3 DEF Absent
    <2>2. ASSUME Single(ms, M) PROVE Single(ts, M)
      <3> SUFFICES ASSUME NEW j \in DOMAIN ts, NEW k \in DOMAIN ts, ts[j] \in M, ts[k] \in M
                   PROVE  j = k
        BY DEF Single
      <3>1. j + 1 = k + 1
        BY <1>2, <2>2 DEF Single
      <3> QED
        BY <1>4, <3>1
    <2>3. ASSUME Single(ms, M), h \in M PROVE Absent(ts, M)
      <3> SUFFICES ASSUME NEW k \in DOMAIN ts, ts[k] \in M PROVE FALSE
        BY DEF Absent
      <3>1. k + 1 = 1
        BY <1>1, <1>2, <2>3 DEF Single
      <3> QED
        BY <1>4, <3>1
    <2>4. ASSUME NEW N, Before(ms, M, N) PROVE Before(ts, M, N)
      <3> SUFFICES ASSUME NEW j \in DOMAIN ts, NEW k \in DOMAIN ts, ts[j] \in M, ts[k] \in N
                   PROVE  j < k
        BY DEF Before
      <3>1. j + 1 < k + 1
        BY <1>2, <2>4 DEF Before
      <3> QED
        BY <1>4, <3>1
    <2>5. ASSUME NEW N, Before(ms, M, N), h \in N PROVE Absent(ms, M)
      <3> SUFFICES ASSUME NEW k \in DOMAIN ms, ms[k] \in M PROVE FALSE
        BY DEF Absent
      <3>1. k < 1
        BY <1>1, <1>2, <2>5 DEF Before
      <3> QED
        BY <1>5, <3>1
    <2> QED
      BY <2>1, <2>2, <2>3, <2>4, <2>5
  <1> QED
    BY <1>1, <1>6 DEF Taken

LEMMA SentIs ==
  ASSUME NEW S, NEW ms \in Seq(S), NEW ns \in Seq(S), NEW rs, rs = ms \o ns
  PROVE  rs \in Seq(S) /\ Len(rs) = Len(ms) + Len(ns) /\ Sent(ms, ns, rs)
  <1>1. /\ rs \in Seq(S) /\ Len(rs) = Len(ms) + Len(ns)
        /\ \A k \in 1 .. Len(ms) + Len(ns) : rs[k] = IF k <= Len(ms) THEN ms[k] ELSE ns[k - Len(ms)]
    BY ConcatProperties
  <1>2. PICK a \in Nat, b \in Nat : a = Len(ms) /\ b = Len(ns)
    OBVIOUS
  <1>3. DOMAIN rs = 1 .. a + b /\ DOMAIN ms = 1 .. a /\ DOMAIN ns = 1 .. b
    BY <1>1, <1>2
  <1>4. \A k \in DOMAIN ms : k \in DOMAIN rs /\ rs[k] = ms[k]
    BY <1>1, <1>2, <1>3
  <1>5. \A k \in DOMAIN ns : a + k \in DOMAIN rs /\ rs[a + k] = ns[k]
    <2> SUFFICES ASSUME NEW k \in DOMAIN ns PROVE a + k \in DOMAIN rs /\ rs[a + k] = ns[k]
      OBVIOUS
    <2>1. a + k \in 1 .. a + b /\ ~(a + k <= a) /\ (a + k) - a = k
      BY <1>2, <1>3
    <2> QED
      BY <1>1, <1>2, <1>3, <2>1
  <1>6. \A k \in DOMAIN rs : \/ k \in DOMAIN ms /\ rs[k] = ms[k]
                             \/ \E l \in DOMAIN ns : k = a + l /\ rs[k] = ns[l]
    <2> SUFFICES ASSUME NEW k \in DOMAIN rs, k \notin DOMAIN ms
                 PROVE  \E l \in DOMAIN ns : k = a + l /\ rs[k] = ns[l]
      BY <1>4
    <2>1. k - a \in DOMAIN ns /\ k = a + (k - a)
      BY <1>2, <1>3
    <2> QED
      BY <1>5, <2>1, Zenon
  <1>7. /\ \A j \in DOMAIN ms : \A l \in DOMAIN ns : j < a + l
        /\ \A j, l \in DOMAIN ns : (j < l => a + j < a + l)
    BY <1>2, <1>3
  <1>8. ASSUME NEW M
        PROVE  /\ Absent(rs, M) <=> Absent(ms, M) /\ Absent(ns, M)
               /\ Absent(ns, M) /\ Single(ms, M) => Single(rs, M)
               /\ Absent(ms, M) /\ Single(ns, M) => Single(rs, M)
               /\ \A N : /\ Before(ms, M, N) /\ Absent(ns, M) => Before(rs, M, N)
                         /\ Absent(ms, N) /\ Absent(ns, M) => Before(rs, M, N)
                         /\ Absent(ms, N) /\ Before(ns, M, N) => Before(rs, M, N)
    <2>1. Absent(rs, M) <=> Absent(ms, M) /\ Absent(ns, M)
      BY <1>4, <1>5, <1>6, Zenon DEF Absent
    <2>2. ASSUME Absent(ns, M), Single(ms, M) PROVE Single(rs, M)
      BY <1>6, <2>2 DEF Absent, Single
    <2>3. ASSUME Absent(ms, M), Single(ns, M) PROVE Single(rs, M)
      <3> SUFFICES ASSUME NEW j \in DOMAIN rs, NEW k \in DOMAIN rs, rs[j] \in M, rs[k] \in M
                   PROVE  j = k
        BY DEF Single
      <3>1. PICK x \in DOMAIN ns : j = a + x /\ rs[j] = ns[x]
        BY <1>6, <2>3, Zenon DEF Absent
      <3>2. PICK y \in DOMAIN ns : k = a + y /\ rs[k] = ns[y]
        BY <1>6, <2>3 DEF Absent
      <3> QED
        BY <2>3, <3>1, <3>2 DEF Single
    <2>4. ASSUME NEW N, Before(ms, M, N), Absent(ns, M) PROVE Before(rs, M, N)
      <3> SUFFICES ASSUME NEW j \in DOMAIN rs, NEW k \in DOMAIN rs, rs[j] \in M, rs[k] \in N
                   PROVE  j < k
        BY DEF Before
      <3>1. j \in DOMAIN ms /\ rs[j] = ms[j]
        BY <1>6, <2>4 DEF Absent
      <3> QED
        BY <1>6, <1>7, <2>4, <3>1 DEF Before
    <2>5. ASSUME NEW N, Absent(ms, N), Before(ns, M, N) PROVE Before(rs, M, N)
      <3> SUFFICES ASSUME NEW j \in DOMAIN rs, NEW k \in DOMAIN rs, rs[j] \in M, rs[k] \in N
                   PROVE  j < k
        BY DEF Before
      <3>1. PICK y \in DOMAIN ns : k = a + y /\ rs[k] = ns[y]
        BY <1>6, <2>5 DEF Absent
      <3>2. CASE j \in DOMAIN ms
        BY <1>7, <3>1, <3>2
      <3>3. CASE j \notin DOMAIN ms
        <4>1. PICK x \in DOMAIN ns : j = a + x /\ rs[j] = ns[x]
          BY <1>6, <3>3
        <4> QED
          BY <1>7, <2>5, <3>1, <4>1 DEF Before
      <3> QED
        BY <3>2, <3>3
    <2>6. ASSUME NEW N, Absent(ms, N), Absent(ns, M) PROVE Before(rs, M, N)
      <3>1. Before(ns, M, N)
        BY <2>6 DEF Before, Absent
      <3> QED
        BY <2>5, <2>6, <3>1
    <2> QED
      BY <2>1, <2>2, <2>3, <2>4, <2>5, <2>6
  <1> QED
    BY <1>1, <1>8 DEF Sent

\* No message, one message.
LEMMA NoneIs ==
  ASSUME NEW M, NEW N
  PROVE  Absent(<< >>, M) /\ Single(<< >>, M) /\ Before(<< >>, M, N)
  BY DEF Absent, Single, Before

LEMMA OneIs ==
  ASSUME NEW m, NEW M
  PROVE  Single(<<m>>, M) /\ (Absent(<<m>>, M) <=> m \notin M)
  BY DEF Absent, Single

-----------------------------------------------------------------------------
\* The invitations of a player with the group n.
NotesOf(p, n) == {m \in ToWorld : m.type = "Invited" /\ m.player = p /\ m.id = n}

\* The messages of one group: each of its players hears of it once.
LEMMA NoticesOnce ==
  ASSUME NEW gs \in Seq(Groups), NEW ids, NEW e \in Slots, NEW s \in Sides,
         NEW x \in DOMAIN gs, gs[x].id \in ids, NEW ms, ms = InvitationsOf(gs[x], e, s)
  PROVE  /\ \A p \in gs[x].players : ~Absent(ms, {Invitation(p, e.bg, gs[x].id)})
         /\ \A p, n : Single(ms, NotesOf(p, n)) /\ (n # gs[x].id => Absent(ms, NotesOf(p, n)))
  <1>1. PICK g \in Groups : g = gs[x]
    OBVIOUS
  <1>2. PICK l, pl : l = Cardinality(g.players) /\ pl = SetToSeq(g.players)
    OBVIOUS
  <1>3. /\ l \in Nat /\ pl \in [1 .. l -> g.players] /\ Notices(ms, g, e, s, pl, l)
        /\ \A p \in g.players : \E k \in 1 .. l : pl[k] = p
        /\ \A j, k \in 1 .. l : pl[j] = pl[k] => j = k
    BY <1>1, <1>2, InvitationsAre
  <1>4. ASSUME NEW p \in g.players PROVE ~Absent(ms, {Invitation(p, e.bg, g.id)})
    <2>1. PICK k \in 1 .. l : pl[k] = p
      BY <1>3
    <2>2. \E j \in DOMAIN ms : ms[j] = Invitation(p, e.bg, g.id)
      <3>1. CASE e.status = "none"
        BY <1>3, <2>1, <3>1 DEF Notices
      <3>2. CASE e.status # "none"
        <4>1. 2 * k - 1 \in 1 .. 2 * l
          BY <1>3, Halves
        <4> QED
          BY <1>3, <2>1, <3>2, <4>1, Zenon DEF Notices
      <3> QED
        BY <3>1, <3>2
    <2> QED
      BY <2>2 DEF Absent
  \* where the invitation of a player stands
  <1>5. ASSUME NEW j \in DOMAIN ms, NEW p, NEW n, ms[j] \in NotesOf(p, n)
        PROVE  /\ n = g.id
               /\ \E k \in 1 .. l : pl[k] = p /\ j = IF e.status = "none" THEN k ELSE 2 * k - 1
    <2>1. CASE e.status = "none"
      <3>1. j \in 1 .. l /\ ms[j] = Invitation(pl[j], e.bg, g.id)
        BY <1>3, <2>1 DEF Notices
      <3> QED
        BY <1>5, <2>1, <3>1 DEF NotesOf, Invitation
    <2>2. CASE e.status # "none"
      <3>1. j \in 1 .. 2 * l
        BY <1>3, <2>2 DEF Notices
      <3>2. PICK k \in 1 .. l : j = 2 * k - 1 \/ j = 2 * k
        BY <1>3, <3>1, Halves, Zenon
      <3>3. CASE j = 2 * k
        <4>1. ms[j] = Count(e.bg, s, (e.invited[s] + k) % Width)
          BY <1>3, <2>2, <3>3 DEF Notices
        <4>2. ms[j].type = "Count"
          BY <4>1 DEF Count
        <4> QED
          BY <1>5, <4>2 DEF NotesOf
      <3>4. CASE j = 2 * k - 1
        <4>1. ms[j] = Invitation(pl[k], e.bg, g.id)
          BY <1>3, <2>2, <3>4 DEF Notices
        <4>2. pl[k] = p /\ n = g.id
          BY <1>5, <4>1 DEF NotesOf, Invitation
        <4> QED
          BY <2>2, <3>4, <4>2
      <3> QED
        BY <3>2, <3>3, <3>4
    <2> QED
      BY <2>1, <2>2
  <1>6. ASSUME NEW p, NEW n PROVE Single(ms, NotesOf(p, n))
    <2> SUFFICES ASSUME NEW i \in DOMAIN ms, NEW j \in DOMAIN ms,
                        ms[i] \in NotesOf(p, n), ms[j] \in NotesOf(p, n)
                 PROVE  i = j
      BY DEF Single
    <2>1. PICK k \in 1 .. l : pl[k] = p /\ i = IF e.status = "none" THEN k ELSE 2 * k - 1
      BY <1>5
    <2>2. PICK m \in 1 .. l : pl[m] = p /\ j = IF e.status = "none" THEN m ELSE 2 * m - 1
      BY <1>5
    <2>3. k = m
      BY <1>3, <2>1, <2>2
    <2> QED
      BY <2>1, <2>2, <2>3
  <1>7. ASSUME NEW p, NEW n, n # g.id PROVE Absent(ms, NotesOf(p, n))
    BY <1>5, <1>7 DEF Absent
  <1> QED
    BY <1>1, <1>4, <1>6, <1>7, Zenon

\* The messages of the groups ids of a list.
Announced(ms, gs, ids, e, s) ==
    /\ ms \in Seq(ToWorld) /\ \A j \in DOMAIN ms : Announces(ms[j], gs, ids, e, s)
    /\ \A k \in DOMAIN gs : gs[k].id \in ids =>
          \A p \in gs[k].players : ~Absent(ms, {Invitation(p, e.bg, gs[k].id)})
    /\ \A p, n : Single(ms, NotesOf(p, n))

\* The entry d is e but for the counter of the side s.
SameEntry(e, d, s) ==
    /\ d \in Slots /\ d.bg = e.bg /\ d.status = e.status
    /\ \A t \in Sides : t # s => d.invited[t] = e.invited[t]

\* The first k groups are through.
InvitedSoFar(x, k, gs, ids, e, s) ==
    /\ SameEntry(e, x.entry, s) /\ \A j \in DOMAIN x.sent : Announces(x.sent[j], gs, ids, e, s)
    /\ \A j \in 1 .. k : gs[j].id \in ids =>
          \A p \in gs[j].players : ~Absent(x.sent, {Invitation(p, e.bg, gs[j].id)})
    /\ \A p, n : Single(x.sent, NotesOf(p, n))
    /\ \A p : \A j \in DOMAIN gs : j > k => Absent(x.sent, NotesOf(p, gs[j].id))

LEMMA InviteSideIs ==
  ASSUME NEW gs \in Seq(Groups), \A j, k \in DOMAIN gs : gs[j].id = gs[k].id => j = k,
         NEW ids, NEW e \in Slots, NEW s \in Sides, NEW r, r = InviteSide(gs, ids, e, s)
  PROVE  SameEntry(e, r.entry, s) /\ Announced(r.sent, gs, ids, e, s)
  <1>1. PICK f \in [0 .. Len(gs) -> Progress] :
           /\ r = f[Len(gs)]
           /\ f[0] = [entry |-> e, sent |-> << >>]
           /\ \A k \in 1 .. Len(gs) : f[k] = InviteStep(gs, ids, s, k, f[k - 1])
    <2>1. PICK f : InviteRun(f, gs, ids, e, s)
      BY InviteSideSteps, Zenon
    <2> QED
      BY <2>1 DEF InviteRun
  <1>2. PICK l \in Nat : l = Len(gs) /\ DOMAIN gs = 1 .. l
    OBVIOUS
  <1> DEFINE T == {k \in 0 .. l : InvitedSoFar(f[k], k, gs, ids, e, s)}
  <1>3. 0 \in T
    <2>1. f[0].sent = << >> /\ SameEntry(e, f[0].entry, s)
      BY <1>1 DEF SameEntry
    <2> QED
      BY <2>1, NoneIs DEF InvitedSoFar, Absent
  <1>4. ASSUME NEW k \in 1 .. l, k - 1 \in T PROVE k \in T
    <2>1. PICK so \in Progress : so = f[k - 1] /\ InvitedSoFar(so, k - 1, gs, ids, e, s)
      BY <1>2, <1>4
    <2>2. PICK x \in Progress : x = f[k] /\ x = InviteStep(gs, ids, s, k, so)
      BY <1>1, <1>2, <2>1
    <2>3. gs[k] \in Groups /\ k \in DOMAIN gs
      BY <1>2
    <2>4. CASE gs[k].id \notin ids
      <3>1. x = so
        BY <1>2, <2>2, <2>4, InviteStepIs
      <3>2. \A j \in 1 .. k : gs[j].id \in ids => j \in 1 .. k - 1
        BY <2>4
      <3>3. \A j \in DOMAIN gs : j > k => j > k - 1
        BY <1>2
      <3>4. InvitedSoFar(x, k, gs, ids, e, s)
        BY <2>1, <3>1, <3>2, <3>3, Zenon DEF InvitedSoFar
      <3> QED
        BY <2>2, <3>4
    <2>5. CASE gs[k].id \in ids
      <3>1. PICK ms : ms = InvitationsOf(gs[k], so.entry, s)
        OBVIOUS
      <3>2. x = [entry |-> Counted(so.entry, gs[k], s), sent |-> so.sent \o ms]
        BY <1>2, <2>2, <2>5, <3>1, InviteStepIs, SMTT(60)
      <3>3. /\ so.entry \in Slots /\ so.sent \in Seq(ToWorld)
            /\ so.entry.bg = e.bg /\ so.entry.status = e.status
        BY <2>1 DEF Progress, SameEntry, InvitedSoFar
      <3>4. /\ ms \in Seq(ToWorld)
            /\ \A j \in DOMAIN ms : Announces(ms[j], gs, ids, so.entry, s)
        BY <2>3, <2>5, <3>1, <3>3, NoticesAnnounce
      <3>5. /\ \A p \in gs[k].players : ~Absent(ms, {Invitation(p, e.bg, gs[k].id)})
            /\ \A p, n : Single(ms, NotesOf(p, n)) /\ (n # gs[k].id => Absent(ms, NotesOf(p, n)))
        BY <2>3, <2>5, <3>1, <3>3, NoticesOnce
      <3>6. Sent(so.sent, ms, x.sent)
        BY <3>2, <3>3, <3>4, SentIs, Zenon
      <3>7. SameEntry(e, x.entry, s)
        <4>1. Counted(so.entry, gs[k], s) \in Slots
          BY <2>3, <3>3, CountedIs
        <4>2. Cardinality(gs[k].players) \in Int /\ so.entry.invited \in Counters
          BY <2>3, <3>3, GroupsOfPlayers DEF Slots
        <4>3. \A t \in Sides : t # s =>
                 Plus(so.entry.invited, s, Cardinality(gs[k].players))[t] = so.entry.invited[t]
          BY <4>2, PlusIs, ZenonT(60)
        <4> QED
          BY <2>1, <3>2, <4>1, <4>3 DEF SameEntry, Counted, InvitedSoFar
      <3>8. \A j \in DOMAIN x.sent : Announces(x.sent[j], gs, ids, e, s)
        <4>1. \A j \in DOMAIN ms : Announces(ms[j], gs, ids, e, s)
          BY <3>3, <3>4 DEF Announces
        <4>2. PICK M : M = {m \in ToWorld : ~Announces(m, gs, ids, e, s)}
          OBVIOUS
        <4>3. Absent(ms, M) /\ Absent(so.sent, M)
          BY <2>1, <4>1, <4>2 DEF Absent, InvitedSoFar
        <4>4. Absent(x.sent, M) /\ x.sent \in Seq(ToWorld)
          BY <2>2, <3>6, <4>3 DEF Sent, Progress
        <4>5. \A j \in DOMAIN x.sent : x.sent[j] \in ToWorld
          BY <4>4
        <4> QED
          BY <4>2, <4>4, <4>5 DEF Absent
      <3>9. ASSUME NEW j \in 1 .. k, gs[j].id \in ids, NEW p \in gs[j].players
            PROVE  ~Absent(x.sent, {Invitation(p, e.bg, gs[j].id)})
        <4>1. CASE j = k
          BY <3>5, <3>6, <3>9, <4>1, Zenon DEF Sent
        <4>2. CASE j # k
          <5>1. j \in 1 .. k - 1
            BY <4>2
          <5> QED
            BY <2>1, <3>6, <3>9, <5>1, Zenon DEF Sent, InvitedSoFar
        <4> QED
          BY <4>1, <4>2
      <3>10. ASSUME NEW p, NEW n PROVE Single(x.sent, NotesOf(p, n))
        <4>1. CASE n = gs[k].id
          <5>1. Absent(so.sent, NotesOf(p, n))
            BY <1>2, <2>1, <2>3, <4>1 DEF InvitedSoFar
          <5> QED
            BY <3>5, <3>6, <5>1 DEF Sent
        <4>2. CASE n # gs[k].id
          BY <2>1, <3>5, <3>6, <4>2 DEF Sent, InvitedSoFar
        <4> QED
          BY <4>1, <4>2
      <3>11. ASSUME NEW p, NEW j \in DOMAIN gs, j > k PROVE Absent(x.sent, NotesOf(p, gs[j].id))
        <4>1. gs[j].id # gs[k].id
          BY <1>2, <2>3, <3>11
        <4>2. Absent(so.sent, NotesOf(p, gs[j].id))
          <5>1. j > k - 1
            BY <1>2, <3>11
          <5> QED
            BY <2>1, <5>1, Zenon DEF InvitedSoFar
        <4> QED
          BY <3>5, <3>6, <4>1, <4>2 DEF Sent
      <3>12. InvitedSoFar(x, k, gs, ids, e, s)
        BY <3>7, <3>8, <3>9, <3>10, <3>11, Zenon DEF InvitedSoFar
      <3> QED
        BY <2>2, <3>12
    <2> QED
      BY <2>4, <2>5
  <1> HIDE DEF T
  <1>5. T \in SUBSET (0 .. l)
    BY DEF T
  <1>6. T = 0 .. l
    BY <1>3, <1>4, <1>5, NumbersUpTo
  <1>7. InvitedSoFar(f[l], l, gs, ids, e, s)
    BY <1>6 DEF T
  <1>8. r.sent \in Seq(ToWorld)
    BY <1>1 DEF Progress
  <1> QED
    BY <1>1, <1>2, <1>7, <1>8, Zenon DEF Announced, InvitedSoFar

-----------------------------------------------------------------------------
\* The group k of side s of the queue q, once those of ids are invited to i.
Turned(g, h, ids, i) ==
    /\ h \in Groups /\ h.id = g.id /\ h.players = g.players
    /\ h.to = IF g.id \in ids THEN i ELSE g.to

LEMMA InvitedGroupsIs ==
  ASSUME NEW gs \in Seq(Groups), NEW ids, NEW i \in Battlegrounds,
         NEW r, r = InvitedGroups(gs, ids, i)
  PROVE  r \in Seq(Groups) /\ DOMAIN r = DOMAIN gs /\ \A k \in DOMAIN gs : Turned(gs[k], r[k], ids, i)
  <1>1. PICK l \in Nat : l = Len(gs) /\ DOMAIN gs = 1 .. l
    OBVIOUS
  <1>2. r = [k \in 1 .. l |-> IF gs[k].id \in ids THEN [gs[k] EXCEPT !.to = i] ELSE gs[k]]
    BY <1>1 DEF InvitedGroups
  <1>3. ASSUME NEW k \in 1 .. l PROVE Turned(gs[k], r[k], ids, i)
    <2>1. gs[k] \in Groups /\ i \in 0 .. MaxInstances
      BY <1>1, Numbers
    <2>2. CASE gs[k].id \in ids
      <3>1. r[k] = [gs[k] EXCEPT !.to = i]
        BY <1>2, <2>2
      <3> QED
        BY <2>1, <2>2, <3>1, Zenon DEF Turned, Groups
    <2>3. CASE gs[k].id \notin ids
      <3>1. r[k] = gs[k]
        BY <1>2, <2>3
      <3> QED
        BY <2>1, <2>3, <3>1 DEF Turned
    <2> QED
      BY <2>2, <2>3
  <1>4. DOMAIN r = 1 .. l /\ r = [k \in 1 .. l |-> r[k]]
    BY <1>2
  <1>5. \A k \in 1 .. l : r[k] \in Groups
    BY <1>3 DEF Turned
  <1>6. r \in Seq(Groups)
    BY <1>4, <1>5
  <1> QED
    BY <1>1, <1>3, <1>4, <1>6

\* The groups of ids wait in the queue.
Waits(q, ids) == \A n \in ids : \E s \in Sides : \E k \in DOMAIN q.groups[s] :
                    q.groups[s][k].id = n /\ q.groups[s][k].to = 0

\* The messages of the groups of ids, invited to i: each player hears of it,
\* and once.
Tells(q, ids, i, ms) ==
    /\ ms \in Seq(ToWorld) /\ \A j \in DOMAIN ms : ms[j].type \in {"Invited", "Count"}
    /\ \A p \in Players : \A n \in ids : Seat(q, p, n, 0) => ~Absent(ms, {Invitation(p, i, n)})
    /\ \A p, n : Single(ms, NotesOf(p, n))
    /\ \A p, n : Absent(ms, NotesOf(p, n)) \/ (p \in Players /\ n \in ids /\ Seat(q, p, n, 0))

LEMMA AnnouncedIs ==
  ASSUME NEW q, QueueOk(q), NEW ids, Waits(q, ids), NEW e, NEW s \in Sides,
         NEW ms, Announced(ms, q.groups[s], ids, e, s)
  PROVE  /\ \A j \in DOMAIN ms : ms[j].type \in {"Invited", "Count"}
         /\ \A p \in Players : \A n \in ids :
               Seat(q, p, n, 0) /\ Team[p] = s => ~Absent(ms, {Invitation(p, e.bg, n)})
         /\ \A p, n : \/ Absent(ms, NotesOf(p, n))
                      \/ p \in Players /\ n \in ids /\ Seat(q, p, n, 0) /\ Team[p] = s
  <1>1. ASSUME NEW j \in DOMAIN ms
        PROVE  /\ ms[j].type \in {"Invited", "Count"}
               /\ \A p, n : ms[j] \in NotesOf(p, n) =>
                     p \in Players /\ n \in ids /\ Seat(q, p, n, 0) /\ Team[p] = s
    <2>1. Announces(ms[j], q.groups[s], ids, e, s)
      BY DEF Announced
    <2>2. CASE \E k \in DOMAIN q.groups[s] : \E p \in q.groups[s][k].players :
                  q.groups[s][k].id \in ids /\ ms[j] = Invitation(p, e.bg, q.groups[s][k].id)
      <3>1. PICK k \in DOMAIN q.groups[s] : \E p \in q.groups[s][k].players :
               q.groups[s][k].id \in ids /\ ms[j] = Invitation(p, e.bg, q.groups[s][k].id)
        BY <2>2
      <3>2. PICK p \in q.groups[s][k].players :
               q.groups[s][k].id \in ids /\ ms[j] = Invitation(p, e.bg, q.groups[s][k].id)
        BY <3>1
      <3>3. PICK t \in Sides : \E l \in DOMAIN q.groups[t] :
               q.groups[t][l].id = q.groups[s][k].id /\ q.groups[t][l].to = 0
        BY <3>2 DEF Waits
      <3>4. q.groups[s][k].to = 0
        BY <3>3 DEF QueueOk, GroupsOk, Apart
      <3>5. p \in Players /\ Team[p] = s
        <4>1. GroupOk(q.groups[s][k], s, q.joined, q.created) /\ q.groups[s][k] \in Groups
          BY QueueTypes DEF QueueOk, GroupsOk
        <4> QED
          BY <4>1 DEF GroupOk, Groups
      <3>6. Seat(q, p, q.groups[s][k].id, 0)
        BY <3>4, <3>5 DEF Seat
      <3>7. ms[j].type = "Invited" /\ ms[j].player = p /\ ms[j].id = q.groups[s][k].id
        BY <3>2 DEF Invitation
      <3> QED
        BY <3>2, <3>5, <3>6, <3>7 DEF NotesOf
    <2>3. CASE \E c \in 0 .. Width - 1 : ms[j] = Count(e.bg, s, c)
      <3>1. ms[j].type = "Count"
        BY <2>3 DEF Count
      <3> QED
        BY <3>1 DEF NotesOf
    <2> QED
      BY <2>1, <2>2, <2>3 DEF Announces
  <1>2. ASSUME NEW p \in Players, NEW n \in ids, Seat(q, p, n, 0), Team[p] = s
        PROVE  ~Absent(ms, {Invitation(p, e.bg, n)})
    <2>1. PICK k \in DOMAIN q.groups[s] : p \in q.groups[s][k].players /\ q.groups[s][k].id = n
      BY <1>2 DEF Seat
    <2> QED
      BY <2>1, Zenon DEF Announced
  <1>3. \A p, n : \/ Absent(ms, NotesOf(p, n))
                  \/ p \in Players /\ n \in ids /\ Seat(q, p, n, 0) /\ Team[p] = s
    BY <1>1 DEF Absent
  <1> QED
    BY <1>1, <1>2, <1>3

LEMMA InviteSelectedIs ==
  ASSUME NEW q, QueueOk(q), NEW ids, Waits(q, ids), NEW e \in Slots,
         NEW v, v = InviteSelected(q, ids, e)
  PROVE  /\ v.entry \in Slots /\ v.entry.bg = e.bg /\ v.entry.status = e.status
         /\ Tells(q, ids, e.bg, v.sent)
         /\ v.groups \in [Sides -> Seq(Groups)]
         /\ \A s \in Sides : /\ DOMAIN v.groups[s] = DOMAIN q.groups[s]
                             /\ \A k \in DOMAIN q.groups[s] :
                                   Turned(q.groups[s][k], v.groups[s][k], ids, e.bg)
  <1>1. /\ "alliance" \in Sides /\ "horde" \in Sides
        /\ \A s \in Sides : s = "alliance" \/ s = "horde"
        /\ q.groups["alliance"] \in Seq(Groups) /\ q.groups["horde"] \in Seq(Groups)
        /\ e.bg \in Battlegrounds
    BY QueueTypes DEF Sides, Slots
  <1>2. \A s \in Sides : \A j, k \in DOMAIN q.groups[s] :
           q.groups[s][j].id = q.groups[s][k].id => j = k
    BY DEF QueueOk, GroupsOk, Apart
  <1>3. PICK a : a = InviteSide(q.groups["alliance"], ids, e, "alliance")
    OBVIOUS
  <1>4. SameEntry(e, a.entry, "alliance") /\ Announced(a.sent, q.groups["alliance"], ids, e, "alliance")
    BY <1>1, <1>2, <1>3, InviteSideIs
  <1>5. PICK h : h = InviteSide(q.groups["horde"], ids, a.entry, "horde")
    OBVIOUS
  <1>6. a.entry \in Slots /\ a.entry.bg = e.bg /\ a.entry.status = e.status
    BY <1>4 DEF SameEntry
  <1>7. /\ SameEntry(a.entry, h.entry, "horde")
        /\ Announced(h.sent, q.groups["horde"], ids, a.entry, "horde")
    BY <1>1, <1>2, <1>5, <1>6, InviteSideIs
  <1>8. /\ v.entry = h.entry /\ v.sent = a.sent \o h.sent
        /\ v.groups = [s \in Sides |-> InvitedGroups(q.groups[s], ids, e.bg)]
    BY <1>3, <1>5, Zenon DEF InviteSelected
  <1>9. a.sent \in Seq(ToWorld) /\ h.sent \in Seq(ToWorld)
    BY <1>4, <1>7 DEF Announced
  <1>10. v.sent \in Seq(ToWorld) /\ Sent(a.sent, h.sent, v.sent)
    BY <1>8, <1>9, SentIs, Zenon
  <1>11. /\ \A j \in DOMAIN a.sent : a.sent[j].type \in {"Invited", "Count"}
         /\ \A p \in Players : \A n \in ids : Seat(q, p, n, 0) /\ Team[p] = "alliance" =>
               ~Absent(a.sent, {Invitation(p, e.bg, n)})
         /\ \A p, n : \/ Absent(a.sent, NotesOf(p, n))
                      \/ p \in Players /\ n \in ids /\ Seat(q, p, n, 0) /\ Team[p] = "alliance"
    BY <1>1, <1>4, AnnouncedIs
  <1>12. /\ \A j \in DOMAIN h.sent : h.sent[j].type \in {"Invited", "Count"}
         /\ \A p \in Players : \A n \in ids : Seat(q, p, n, 0) /\ Team[p] = "horde" =>
               ~Absent(h.sent, {Invitation(p, e.bg, n)})
         /\ \A p, n : \/ Absent(h.sent, NotesOf(p, n))
                      \/ p \in Players /\ n \in ids /\ Seat(q, p, n, 0) /\ Team[p] = "horde"
    <2>1. /\ \A j \in DOMAIN h.sent : h.sent[j].type \in {"Invited", "Count"}
          /\ \A p \in Players : \A n \in ids : Seat(q, p, n, 0) /\ Team[p] = "horde" =>
               ~Absent(h.sent, {Invitation(p, a.entry.bg, n)})
          /\ \A p, n : \/ Absent(h.sent, NotesOf(p, n))
                       \/ p \in Players /\ n \in ids /\ Seat(q, p, n, 0) /\ Team[p] = "horde"
      BY <1>1, <1>7, AnnouncedIs, SMTT(60)
    <2> QED
      BY <1>6, <2>1
  <1>13. Tells(q, ids, e.bg, v.sent)
    <2>1. ASSUME NEW j \in DOMAIN v.sent PROVE v.sent[j].type \in {"Invited", "Count"}
      <3>1. PICK M : M = {m \in ToWorld : m.type \notin {"Invited", "Count"}}
        BY Zenon
      <3>2. Absent(a.sent, M) /\ Absent(h.sent, M)
        BY <1>11, <1>12, <3>1 DEF Absent
      <3>3. Absent(v.sent, M) /\ v.sent[j] \in ToWorld
        BY <1>10, <3>2 DEF Sent
      <3> QED
        BY <3>1, <3>3 DEF Absent
    <2>2. ASSUME NEW p \in Players, NEW n \in ids, Seat(q, p, n, 0)
          PROVE  ~Absent(v.sent, {Invitation(p, e.bg, n)})
      <3>1. Team[p] = "alliance" \/ Team[p] = "horde"
        BY <1>1, TeamAssumption
      <3> QED
        BY <1>10, <1>11, <1>12, <2>2, <3>1 DEF Sent
    <2>3. ASSUME NEW p, NEW n PROVE Single(v.sent, NotesOf(p, n))
      <3>1. Single(a.sent, NotesOf(p, n)) /\ Single(h.sent, NotesOf(p, n))
        BY <1>4, <1>7 DEF Announced
      <3>2. Absent(a.sent, NotesOf(p, n)) \/ Absent(h.sent, NotesOf(p, n))
        BY <1>11, <1>12
      <3> QED
        BY <1>10, <3>1, <3>2 DEF Sent
    <2>4. \A p, n : Absent(v.sent, NotesOf(p, n)) \/ (p \in Players /\ n \in ids /\ Seat(q, p, n, 0))
      BY <1>10, <1>11, <1>12 DEF Sent
    <2> QED
      BY <1>10, <2>1, <2>2, <2>3, <2>4 DEF Tells
  <1>14. ASSUME NEW s \in Sides
         PROVE  /\ v.groups[s] \in Seq(Groups) /\ DOMAIN v.groups[s] = DOMAIN q.groups[s]
                /\ \A k \in DOMAIN q.groups[s] : Turned(q.groups[s][k], v.groups[s][k], ids, e.bg)
    <2>1. v.groups[s] = InvitedGroups(q.groups[s], ids, e.bg) /\ q.groups[s] \in Seq(Groups)
      BY <1>8, QueueTypes
    <2> QED
      BY <1>1, <2>1, InvitedGroupsIs
  <1>15. v.groups \in [Sides -> Seq(Groups)]
    BY <1>8, <1>14
  <1> QED
    BY <1>6, <1>7, <1>8, <1>13, <1>14, <1>15 DEF SameEntry

-----------------------------------------------------------------------------
LEMMA SeatOnce ==
  ASSUME NEW q, QueueOk(q), NEW p \in Players, NEW n, NEW i, NEW j,
         Seat(q, p, n, i), Seat(q, p, n, j)
  PROVE  i = j
  <1>1. Team[p] \in Sides
    BY TeamAssumption
  <1> QED
    BY <1>1 DEF Seat, QueueOk, GroupsOk, Apart

LEMMA SeatTypes ==
  ASSUME NEW q, QueueOk(q), NEW p \in Players, NEW n, NEW i, Seat(q, p, n, i)
  PROVE  n \in 1 .. MaxJoins /\ n <= q.joined /\ i \in 0 .. MaxInstances /\ i <= q.created
  <1>1. Team[p] \in Sides
    BY TeamAssumption
  <1>2. PICK k \in DOMAIN q.groups[Team[p]] :
           q.groups[Team[p]][k].id = n /\ q.groups[Team[p]][k].to = i
    BY DEF Seat
  <1>3. q.groups[Team[p]][k] \in Groups
    BY <1>1, QueueTypes
  <1>4. GroupOk(q.groups[Team[p]][k], Team[p], q.joined, q.created)
    BY <1>1 DEF QueueOk, GroupsOk
  <1> QED
    BY <1>2, <1>3, <1>4 DEF GroupOk, Groups

\* The groups of ids of the queue q were invited to i.
AllTurned(q, groups, ids, i) ==
    /\ groups \in [Sides -> Seq(Groups)]
    /\ \A s \in Sides : /\ DOMAIN groups[s] = DOMAIN q.groups[s]
                        /\ \A k \in DOMAIN q.groups[s] :
                              Turned(q.groups[s][k], groups[s][k], ids, i)

LEMMA TurnedIs ==
  ASSUME NEW q, QueueOk(q), NEW ids, Waits(q, ids), NEW i \in Battlegrounds,
         NEW r, AllTurned(q, r.groups, ids, i), r.joined = q.joined, r.created \in Nat,
         q.created <= r.created, i <= r.created
  PROVE  /\ GroupsOk(r) /\ Waiting(r) \subseteq Waiting(q) \ ids
         /\ \A p \in Players : \A n, j :
               Seat(r, p, n, j) <=> \/ n \notin ids /\ Seat(q, p, n, j)
                                    \/ n \in ids /\ j = i /\ Seat(q, p, n, 0)
  <1>0. i \in Nat /\ i # 0 /\ q.created \in Nat
    BY Numbers, QueueTypes DEF Battlegrounds
  <1>1. ASSUME NEW s \in Sides, NEW k \in DOMAIN q.groups[s], q.groups[s][k].id \in ids
        PROVE  q.groups[s][k].to = 0
    BY <1>1 DEF Waits, QueueOk, GroupsOk, Apart
  <1>2. ASSUME NEW s \in Sides, NEW k \in DOMAIN r.groups[s]
        PROVE  GroupOk(r.groups[s][k], s, r.joined, r.created)
    <2>1. k \in DOMAIN q.groups[s] /\ Turned(q.groups[s][k], r.groups[s][k], ids, i)
      BY DEF AllTurned
    <2>2. GroupOk(q.groups[s][k], s, q.joined, q.created) /\ q.groups[s][k] \in Groups
      BY <2>1, QueueTypes DEF QueueOk, GroupsOk
    <2>3. q.groups[s][k].to \in Nat
      BY <2>2, Numbers DEF Groups
    <2> QED
      BY <1>0, <2>1, <2>2, <2>3 DEF Turned, GroupOk
  <1>3. Apart(r.groups)
    <2> SUFFICES ASSUME NEW s \in Sides, NEW t \in Sides, NEW j \in DOMAIN r.groups[s],
                        NEW k \in DOMAIN r.groups[t], r.groups[s][j].id = r.groups[t][k].id
                 PROVE  s = t /\ j = k
      BY DEF Apart
    <2>1. /\ j \in DOMAIN q.groups[s] /\ r.groups[s][j].id = q.groups[s][j].id
          /\ k \in DOMAIN q.groups[t] /\ r.groups[t][k].id = q.groups[t][k].id
      BY DEF AllTurned, Turned
    <2>2. q.groups[s][j].id = q.groups[t][k].id
      BY <2>1, Zenon
    <2>3. Apart(q.groups)
      BY DEF QueueOk, GroupsOk
    <2> QED
      BY <2>1, <2>2, <2>3 DEF Apart
  <1>4. ASSUME NEW n \in Waiting(r) PROVE n \in Waiting(q) \ ids
    <2>1. n \in 1 .. q.joined /\ \E s \in Sides : \E k \in DOMAIN r.groups[s] :
             r.groups[s][k].id = n /\ r.groups[s][k].to = 0
      BY DEF Waiting
    <2>2. PICK s \in Sides : \E k \in DOMAIN r.groups[s] :
             r.groups[s][k].id = n /\ r.groups[s][k].to = 0
      BY <2>1
    <2>3. PICK k \in DOMAIN r.groups[s] : r.groups[s][k].id = n /\ r.groups[s][k].to = 0
      BY <2>2
    <2>4. k \in DOMAIN q.groups[s] /\ Turned(q.groups[s][k], r.groups[s][k], ids, i)
      BY <2>3 DEF AllTurned
    <2>5. n \notin ids /\ q.groups[s][k].id = n /\ q.groups[s][k].to = 0
      BY <1>0, <2>3, <2>4 DEF Turned
    <2> QED
      BY <2>1, <2>4, <2>5 DEF Waiting
  <1>5. ASSUME NEW p \in Players, NEW n, NEW j
        PROVE  Seat(r, p, n, j) <=> \/ n \notin ids /\ Seat(q, p, n, j)
                                    \/ n \in ids /\ j = i /\ Seat(q, p, n, 0)
    <2>1. Team[p] \in Sides
      BY TeamAssumption
    <2>2. /\ DOMAIN r.groups[Team[p]] = DOMAIN q.groups[Team[p]]
          /\ \A k \in DOMAIN q.groups[Team[p]] :
                Turned(q.groups[Team[p]][k], r.groups[Team[p]][k], ids, i)
      BY <2>1 DEF AllTurned
    <2>3. CASE n \in ids
      <3>1. Seat(r, p, n, j) => j = i /\ Seat(q, p, n, 0)
        BY <1>1, <2>1, <2>2, <2>3 DEF Seat, Turned
      <3>2. j = i /\ Seat(q, p, n, 0) => Seat(r, p, n, j)
        BY <2>2, <2>3 DEF Seat, Turned
      <3> QED
        BY <2>3, <3>1, <3>2
    <2>4. CASE n \notin ids
      BY <2>2, <2>4 DEF Seat, Turned
    <2> QED
      BY <2>3, <2>4
  <1> QED
    BY <1>2, <1>3, <1>4, <1>5 DEF GroupsOk

\* The queue r is q after invitations, ms are their messages.
Grows(q, r, ms) ==
    /\ QueueOk(r) /\ r.joined = q.joined /\ r.member = q.member /\ q.created <= r.created
    /\ ms \in Seq(ToWorld) /\ \A j \in DOMAIN ms : ms[j].type \in {"Invited", "Count", "Create"}
    /\ \A i : HasSlot(q, i) => HasSlot(r, i)
    /\ \A p \in Players : \A n, i : Seat(q, p, n, i) /\ i # 0 => Seat(r, p, n, i)
    /\ \A p \in Players : \A n : Seat(q, p, n, 0) =>
          \/ Seat(r, p, n, 0) /\ Absent(ms, NotesOf(p, n))
          \/ \E i \in Battlegrounds : /\ Seat(r, p, n, i) /\ HasSlot(r, i)
                                      /\ ~Absent(ms, {Invitation(p, i, n)})
    /\ \A p \in Players : \A n, i : Seat(r, p, n, i) => \E j : Seat(q, p, n, j)
    /\ \A p, n : /\ Single(ms, NotesOf(p, n))
                 /\ Absent(ms, NotesOf(p, n)) \/ (p \in Players /\ Seat(q, p, n, 0))

LEMMA GrowsNot ==
  ASSUME NEW q, QueueOk(q)
  PROVE  Grows(q, q, << >>)
  <1>1. q.created <= q.created
    BY QueueTypes
  <1>2. << >> \in Seq(ToWorld) /\ \A j \in DOMAIN << >> : FALSE
    OBVIOUS
  <1>3. \A M : Absent(<< >>, M) /\ Single(<< >>, M)
    BY NoneIs
  <1> QED
    BY <1>1, <1>2, <1>3 DEF Grows

LEMMA GrowsTwice ==
  ASSUME NEW q, QueueOk(q), NEW r, NEW t, NEW ms, NEW ns, Grows(q, r, ms), Grows(r, t, ns),
         NEW rs, rs = ms \o ns
  PROVE  Grows(q, t, rs)
  <1>1. ms \in Seq(ToWorld) /\ ns \in Seq(ToWorld)
    BY DEF Grows
  <1>2. rs \in Seq(ToWorld) /\ Sent(ms, ns, rs)
    BY <1>1, SentIs, Zenon
  <1>3. QueueOk(t) /\ QueueOk(r) /\ t.joined = q.joined /\ t.member = q.member
    BY DEF Grows
  <1>4. q.created <= t.created
    <2>1. q.created \in Nat /\ r.created \in Nat /\ t.created \in Nat
      BY <1>3, QueueTypes
    <2> QED
      BY <2>1 DEF Grows
  <1>5. \A j \in DOMAIN rs : rs[j].type \in {"Invited", "Count", "Create"}
    <2>1. PICK M : M = {m \in ToWorld : m.type \notin {"Invited", "Count", "Create"}}
      BY Zenon
    <2>2. Absent(ms, M) /\ Absent(ns, M)
      BY <2>1 DEF Absent, Grows
    <2>3. Absent(rs, M) /\ \A j \in DOMAIN rs : rs[j] \in ToWorld
      BY <1>2, <2>2 DEF Sent
    <2> QED
      BY <2>1, <2>3 DEF Absent
  <1>6. \A i : HasSlot(q, i) => HasSlot(t, i)
    BY DEF Grows
  <1>7. \A p \in Players : \A n, i : Seat(q, p, n, i) /\ i # 0 => Seat(t, p, n, i)
    BY DEF Grows
  <1>8. ASSUME NEW p \in Players, NEW n, Seat(q, p, n, 0)
        PROVE  \/ Seat(t, p, n, 0) /\ Absent(rs, NotesOf(p, n))
               \/ \E i \in Battlegrounds : /\ Seat(t, p, n, i) /\ HasSlot(t, i)
                                           /\ ~Absent(rs, {Invitation(p, i, n)})
    <2>1. CASE Seat(r, p, n, 0) /\ Absent(ms, NotesOf(p, n))
      <3>1. CASE Seat(t, p, n, 0) /\ Absent(ns, NotesOf(p, n))
        BY <1>2, <2>1, <3>1 DEF Sent
      <3>2. CASE ~(Seat(t, p, n, 0) /\ Absent(ns, NotesOf(p, n)))
        <4>1. PICK i \in Battlegrounds : /\ Seat(t, p, n, i) /\ HasSlot(t, i)
                                         /\ ~Absent(ns, {Invitation(p, i, n)})
          BY <2>1, <3>2, Zenon DEF Grows
        <4>2. ~Absent(rs, {Invitation(p, i, n)})
          BY <1>2, <4>1 DEF Sent
        <4> QED
          BY <4>1, <4>2, Zenon
      <3> QED
        BY <3>1, <3>2, Zenon
    <2>2. CASE ~(Seat(r, p, n, 0) /\ Absent(ms, NotesOf(p, n)))
      <3>1. PICK i \in Battlegrounds : /\ Seat(r, p, n, i) /\ HasSlot(r, i)
                                       /\ ~Absent(ms, {Invitation(p, i, n)})
        BY <1>8, <2>2, Zenon DEF Grows
      <3>2. i # 0
        BY Numbers DEF Battlegrounds
      <3>3. ~Absent(rs, {Invitation(p, i, n)})
        BY <1>2, <3>1 DEF Sent
      <3>4. Seat(t, p, n, i) /\ HasSlot(t, i)
        BY <3>1, <3>2 DEF Grows
      <3> QED
        BY <3>3, <3>4, Zenon
    <2> QED
      BY <2>1, <2>2, Zenon
  <1>9. ASSUME NEW p \in Players, NEW n, NEW i, Seat(t, p, n, i) PROVE \E j : Seat(q, p, n, j)
    <2>1. PICK j : Seat(r, p, n, j)
      BY <1>9 DEF Grows
    <2> QED
      BY <2>1 DEF Grows
  <1>10. ASSUME NEW p, NEW n
         PROVE  /\ Single(rs, NotesOf(p, n))
                /\ Absent(rs, NotesOf(p, n)) \/ (p \in Players /\ Seat(q, p, n, 0))
    <2>1. CASE Absent(ms, NotesOf(p, n))
      <3>1. Single(ns, NotesOf(p, n))
        BY DEF Grows
      <3>2. Single(rs, NotesOf(p, n))
        BY <1>2, <2>1, <3>1 DEF Sent
      <3>3. CASE Absent(ns, NotesOf(p, n))
        BY <1>2, <2>1, <3>2, <3>3 DEF Sent
      <3>4. CASE ~Absent(ns, NotesOf(p, n))
        <4>1. p \in Players /\ Seat(r, p, n, 0)
          BY <3>4 DEF Grows
        <4>2. PICK j : Seat(q, p, n, j)
          BY <4>1 DEF Grows
        <4>3. j = 0
          <5>1. j # 0 => Seat(r, p, n, j)
            BY <4>1, <4>2 DEF Grows
          <5> QED
            BY <1>3, <4>1, <5>1, SeatOnce
        <4> QED
          BY <3>2, <4>1, <4>2, <4>3
      <3> QED
        BY <3>3, <3>4
    <2>2. CASE ~Absent(ms, NotesOf(p, n))
      <3>1. p \in Players /\ Seat(q, p, n, 0) /\ Single(ms, NotesOf(p, n))
        BY <2>2 DEF Grows
      <3>2. PICK i \in Battlegrounds : Seat(r, p, n, i)
        BY <2>2, <3>1, Zenon DEF Grows
      <3>3. i # 0
        BY Numbers DEF Battlegrounds
      <3>4. ~Seat(r, p, n, 0)
        BY <1>3, <3>1, <3>2, <3>3, SeatOnce
      <3>5. Absent(ns, NotesOf(p, n))
        BY <3>4 DEF Grows
      <3> QED
        BY <1>2, <3>1, <3>5 DEF Sent
    <2> QED
      BY <2>1, <2>2
  <1> QED
    BY <1>2, <1>3, <1>4, <1>5, <1>6, <1>7, <1>8, <1>9, <1>10, Zenon DEF Grows

LEMMA TellsGrow ==
  ASSUME NEW q, QueueOk(q), NEW ids, Waits(q, ids), NEW i \in Battlegrounds, NEW r, QueueOk(r),
         AllTurned(q, r.groups, ids, i), r.joined = q.joined, r.member = q.member,
         q.created <= r.created, i <= r.created,
         HasSlot(r, i), \A j : HasSlot(q, j) => HasSlot(r, j),
         NEW ms, Tells(q, ids, i, ms)
  PROVE  Grows(q, r, ms)
  <1>1. r.created \in Nat
    BY QueueTypes
  <1>2. \A p \in Players : \A n, j :
           Seat(r, p, n, j) <=> \/ n \notin ids /\ Seat(q, p, n, j)
                                \/ n \in ids /\ j = i /\ Seat(q, p, n, 0)
    BY <1>1, TurnedIs
  <1>3. ASSUME NEW p \in Players, NEW n, NEW j, Seat(q, p, n, j), j # 0 PROVE Seat(r, p, n, j)
    <2>1. CASE n \in ids
      <3>1. PICK s \in Sides : \E k \in DOMAIN q.groups[s] :
               q.groups[s][k].id = n /\ q.groups[s][k].to = 0
        BY <2>1 DEF Waits
      <3>2. PICK l \in DOMAIN q.groups[Team[p]] :
               q.groups[Team[p]][l].id = n /\ q.groups[Team[p]][l].to = j
        BY <1>3 DEF Seat
      <3>3. Team[p] \in Sides
        BY TeamAssumption
      <3> QED
        BY <1>3, <3>1, <3>2, <3>3 DEF QueueOk, GroupsOk, Apart
    <2>2. CASE n \notin ids
      BY <1>2, <1>3, <2>2
    <2> QED
      BY <2>1, <2>2
  <1>4. ASSUME NEW p \in Players, NEW n, Seat(q, p, n, 0)
        PROVE  \/ Seat(r, p, n, 0) /\ Absent(ms, NotesOf(p, n))
               \/ \E j \in Battlegrounds : /\ Seat(r, p, n, j) /\ HasSlot(r, j)
                                           /\ ~Absent(ms, {Invitation(p, j, n)})
    <2>1. CASE n \in ids
      <3>1. Seat(r, p, n, i) /\ ~Absent(ms, {Invitation(p, i, n)})
        BY <1>2, <1>4, <2>1 DEF Tells
      <3> QED
        BY <3>1, Zenon
    <2>2. CASE n \notin ids
      <3>1. Seat(r, p, n, 0) /\ Absent(ms, NotesOf(p, n))
        BY <1>2, <1>4, <2>2 DEF Tells
      <3> QED
        BY <3>1
    <2> QED
      BY <2>1, <2>2
  <1>5. \A p \in Players : \A n, j : Seat(r, p, n, j) => \E k : Seat(q, p, n, k)
    BY <1>2
  <1>6. /\ ms \in Seq(ToWorld) /\ \A j \in DOMAIN ms : ms[j].type \in {"Invited", "Count", "Create"}
        /\ \A p, n : /\ Single(ms, NotesOf(p, n))
                     /\ Absent(ms, NotesOf(p, n)) \/ (p \in Players /\ Seat(q, p, n, 0))
    BY DEF Tells
  <1> QED
    BY <1>3, <1>4, <1>5, <1>6, Zenon DEF Grows

LEMMA GrowsMore ==
  ASSUME NEW q, NEW r, NEW ms, Grows(q, r, ms), NEW m \in ToWorld, m.type = "Create",
         NEW rs, rs = ms \o <<m>>
  PROVE  Grows(q, r, rs)
  <1>1. ms \in Seq(ToWorld) /\ <<m>> \in Seq(ToWorld)
    BY DEF Grows
  <1>2. rs \in Seq(ToWorld) /\ Sent(ms, <<m>>, rs)
    BY <1>1, SentIs, Zenon
  <1>3. \A M : Single(<<m>>, M) /\ (Absent(<<m>>, M) <=> m \notin M)
    BY OneIs
  <1>4. \A p, n : Absent(<<m>>, NotesOf(p, n))
    BY <1>3 DEF NotesOf
  <1>5. \A j \in DOMAIN rs : rs[j].type \in {"Invited", "Count", "Create"}
    <2>1. PICK M : M = {x \in ToWorld : x.type \notin {"Invited", "Count", "Create"}}
      BY Zenon
    <2>2. Absent(ms, M) /\ Absent(<<m>>, M)
      BY <1>3, <2>1 DEF Absent, Grows
    <2>3. Absent(rs, M) /\ \A j \in DOMAIN rs : rs[j] \in ToWorld
      BY <1>2, <2>2 DEF Sent
    <2> QED
      BY <2>1, <2>3 DEF Absent
  <1>6. \A p, n : /\ Single(rs, NotesOf(p, n))
                  /\ Absent(rs, NotesOf(p, n)) <=> Absent(ms, NotesOf(p, n))
                  /\ \A i : ~Absent(ms, {Invitation(p, i, n)}) => ~Absent(rs, {Invitation(p, i, n)})
    BY <1>2, <1>4 DEF Sent, Grows
  <1> QED
    BY <1>2, <1>5, <1>6, Zenon DEF Grows

\* Pools of both sides.
PoolsOk(q, pool, ids) ==
    /\ Waits(q, ids)
    /\ \A s \in Sides : /\ pool[s].count \in Nat
                        /\ pool[s].count > 0 => \E k \in DOMAIN q.groups[s] :
                             q.groups[s][k].id \in ids /\ q.groups[s][k].to = 0

LEMMA PoolsWait ==
  ASSUME NEW q, QueueOk(q), NEW room, NEW enough,
         NEW pool, pool = [s \in Sides |-> SelectionPool(q.groups[s], room[s], enough[s])],
         NEW ids, ids = UNION {pool[s].ids : s \in Sides}
  PROVE  PoolsOk(q, pool, ids)
  <1>1. ASSUME NEW s \in Sides
        PROVE  /\ pool[s].count \in Nat /\ (pool[s].count > 0 => pool[s].ids # {})
               /\ \A n \in pool[s].ids : \E k \in DOMAIN q.groups[s] :
                     q.groups[s][k].id = n /\ q.groups[s][k].to = 0
    <2>1. q.groups[s] \in Seq(Groups)
      BY QueueTypes
    <2>2. PICK x : x = SelectionPool(q.groups[s], room[s], enough[s])
      OBVIOUS
    <2>3. /\ x.count \in Nat /\ (x.count > 0 => x.ids # {})
          /\ \A n \in x.ids : \E k \in DOMAIN q.groups[s] :
                q.groups[s][k].id = n /\ q.groups[s][k].to = 0
      BY <2>1, <2>2, SelectionPoolIs
    <2> QED
      BY <2>2, <2>3
  <1>2. ASSUME NEW n \in ids
        PROVE  \E s \in Sides : \E k \in DOMAIN q.groups[s] :
                  q.groups[s][k].id = n /\ q.groups[s][k].to = 0
    <2>1. PICK s \in Sides : n \in pool[s].ids
      OBVIOUS
    <2> QED
      BY <1>1, <2>1
  <1>3. ASSUME NEW s \in Sides, pool[s].count > 0
        PROVE  \E k \in DOMAIN q.groups[s] : q.groups[s][k].id \in ids /\ q.groups[s][k].to = 0
    <2>1. PICK n \in pool[s].ids : TRUE
      BY <1>1, <1>3
    <2>2. n \in ids
      OBVIOUS
    <2> QED
      BY <1>1, <2>1, <2>2
  <1> QED
    BY <1>1, <1>2, <1>3 DEF Waits, PoolsOk

\* An entry is filled up.
Filled(q, r, ms) == Grows(q, r, ms) /\ SameBgs(q, r) /\ r.created = q.created
                    /\ \A j \in DOMAIN ms : ms[j].type \in {"Invited", "Count"}

\* FillPlayersToBg of the entry k with the groups ids.
FilledQueue(q, k, v) == [q EXCEPT !.groups = v.groups, !.freeSlots[k] = v.entry]

LEMMA FillIs ==
  ASSUME NEW ans, QueueOk(ans.queue), NEW k \in DOMAIN ans.queue.freeSlots,
         ans = Answer(ans.queue, ans.sent), ans.sent \in Seq(ToWorld),
         NEW f, f = FillPlayersToBg(ans, k)
  PROVE  \E ms : Filled(ans.queue, f.queue, ms) /\ f = Answer(f.queue, f.sent)
                 /\ f.sent = ans.sent \o ms
  <1>1. PICK q, e : q = ans.queue /\ e = q.freeSlots[k]
    OBVIOUS
  <1>2. QueueOk(q) /\ e \in Slots /\ k \in DOMAIN q.freeSlots /\ q.freeSlots \in Seq(Slots)
    BY <1>1, QueueTypes
  <1>3. CASE e.status \notin Joinable
    <2>1. f = ans
      BY <1>1, <1>3 DEF FillPlayersToBg
    <2>2. Filled(q, q, << >>)
      <3>1. \A j \in DOMAIN << >> : FALSE
        OBVIOUS
      <3> QED
        BY <1>2, <3>1, GrowsNot DEF Filled, SameBgs
    <2>3. ans.sent \o << >> = ans.sent
      OBVIOUS
    <2> QED
      BY <1>1, <2>1, <2>2, <2>3, Zenon
  <1>4. CASE e.status \in Joinable
    <2>1. PICK room : room = [s \in Sides |-> GetFreeSlotsForTeam(e, s)]
      BY Zenon
    <2>2. PICK pool : pool = [s \in Sides |-> SelectionPool(q.groups[s], room[s], room[s])]
      BY Zenon
    <2>3. PICK ids : ids = UNION {pool[s].ids : s \in Sides}
      BY Zenon
    <2>4. ids = UNION {SelectionPool(q.groups[s], GetFreeSlotsForTeam(e, s),
                                     GetFreeSlotsForTeam(e, s)).ids : s \in Sides}
      BY <2>1, <2>2, <2>3
    <2>5. PICK v : v = InviteSelected(q, ids, e)
      OBVIOUS
    <2>6. f = Answer([q EXCEPT !.groups = v.groups, !.freeSlots[k] = v.entry], ans.sent \o v.sent)
      BY <1>1, <1>4, <2>4, <2>5, ZenonT(40) DEF FillPlayersToBg
    <2>7. PICK r : r = FilledQueue(q, k, v)
      OBVIOUS
    <2>8. f.queue = r /\ f.sent = ans.sent \o v.sent /\ f = Answer(f.queue, f.sent)
      BY <2>6, <2>7 DEF Answer, FilledQueue
    <2>9. Waits(q, ids)
      <3>1. PoolsOk(q, pool, ids)
        BY <1>2, <2>2, <2>3, PoolsWait, Zenon
      <3> QED
        BY <3>1 DEF PoolsOk
    <2>10. /\ v.entry \in Slots /\ v.entry.bg = e.bg /\ v.entry.status = e.status
           /\ Tells(q, ids, e.bg, v.sent) /\ AllTurned(q, v.groups, ids, e.bg)
      <3>1. /\ v.entry \in Slots /\ v.entry.bg = e.bg /\ v.entry.status = e.status
            /\ Tells(q, ids, e.bg, v.sent)
            /\ v.groups \in [Sides -> Seq(Groups)]
            /\ \A s \in Sides : /\ DOMAIN v.groups[s] = DOMAIN q.groups[s]
                                /\ \A j \in DOMAIN q.groups[s] :
                                      Turned(q.groups[s][j], v.groups[s][j], ids, e.bg)
        BY <1>2, <2>5, <2>9, InviteSelectedIs
      <3> QED
        BY <3>1 DEF AllTurned
    <2>11. PICK slots : slots = [q.freeSlots EXCEPT ![k] = v.entry]
      BY Zenon
    <2>12. /\ slots \in Seq(Slots) /\ DOMAIN slots = DOMAIN q.freeSlots
           /\ \A j \in DOMAIN q.freeSlots : slots[j].bg = q.freeSlots[j].bg
           /\ slots[k].bg = e.bg
      BY <1>1, <1>2, <2>10, <2>11
    <2>13. r = [groups |-> v.groups, member |-> q.member, freeSlots |-> slots,
                scheduled |-> q.scheduled, created |-> q.created, joined |-> q.joined]
      <3>0. PICK groups : groups = v.groups
        OBVIOUS
      <3>1. PICK u : u = [q EXCEPT !.groups = groups, !.freeSlots = slots]
        OBVIOUS
      <3>2. u = [groups |-> groups, member |-> q.member, freeSlots |-> slots,
                 scheduled |-> q.scheduled, created |-> q.created, joined |-> q.joined]
        <4>1. q = [groups |-> q.groups, member |-> q.member, freeSlots |-> q.freeSlots,
                   scheduled |-> q.scheduled, created |-> q.created, joined |-> q.joined]
          BY <1>2, QueueTypes
        <4> QED
          BY <3>1, <4>1, Zenon
      <3>3. r = u
        BY <2>7, <2>11, <3>0, <3>1, ZenonT(40) DEF FilledQueue
      <3> QED
        BY <3>0, <3>2, <3>3
    <2>14. e.bg \in Battlegrounds /\ e.bg <= q.created /\ q.created \in Nat
      BY <1>1, <1>2, QueueTypes DEF QueueOk, Slots
    <2>15. AllTurned(q, r.groups, ids, e.bg) /\ r.joined = q.joined /\ r.created = q.created
           /\ r.member = q.member /\ r.freeSlots = slots /\ r.scheduled = q.scheduled
      BY <2>10, <2>13
    <2>16. QueueOk(r)
      <3>1. r \in Queues
        BY <1>2, <2>12, <2>13, <2>15, QueueTypes DEF Queues, AllTurned
      <3>2. q.created <= r.created /\ r.created \in Nat /\ e.bg <= r.created
        BY <2>14, <2>15
      <3>3. /\ GroupsOk(r) /\ Waiting(r) \subseteq Waiting(q) \ ids
            /\ \A p \in Players : \A n, j :
                  Seat(r, p, n, j) <=> \/ n \notin ids /\ Seat(q, p, n, j)
                                       \/ n \in ids /\ j = e.bg /\ Seat(q, p, n, 0)
        BY <1>2, <2>9, <2>14, <2>15, <3>2, TurnedIs
      <3>4. ASSUME NEW p \in Players, r.member[p] # 0
            PROVE  \E j \in 0 .. MaxInstances : Seat(r, p, r.member[p], j)
        <4>1. PICK j \in 0 .. MaxInstances : Seat(q, p, q.member[p], j)
          BY <1>2, <2>15, <3>4 DEF QueueOk
        <4>2. q.member[p] \in ids => j = 0
          <5> SUFFICES ASSUME q.member[p] \in ids PROVE j = 0
            OBVIOUS
          <5>1. PICK s \in Sides : \E m \in DOMAIN q.groups[s] :
                   q.groups[s][m].id = q.member[p] /\ q.groups[s][m].to = 0
            BY <2>9 DEF Waits
          <5>2. PICK l \in DOMAIN q.groups[Team[p]] :
                   q.groups[Team[p]][l].id = q.member[p] /\ q.groups[Team[p]][l].to = j
            BY <4>1 DEF Seat
          <5>3. Team[p] \in Sides
            BY TeamAssumption
          <5> QED
            BY <1>2, <5>1, <5>2, <5>3 DEF QueueOk, GroupsOk, Apart
        <4>3. e.bg \in 0 .. MaxInstances
          BY <2>14, Numbers, Zenon
        <4> QED
          BY <2>15, <3>3, <4>1, <4>2, <4>3
      <3>5. \A j \in DOMAIN r.freeSlots : r.freeSlots[j].bg <= r.created
        BY <1>2, <2>12, <2>15 DEF QueueOk
      <3>6. 2 * r.created + Cardinality(Waiting(r)) <= r.joined
        <4>1. q.joined \in Nat
          BY <1>2, QueueTypes
        <4>2. IsFiniteSet(Waiting(q)) /\ Cardinality(Waiting(q)) \in Nat
              /\ Cardinality(Waiting(r)) \in Nat
          BY <2>15, <4>1, WaitingIs
        <4>3. Waiting(r) \subseteq Waiting(q)
          BY <3>3
        <4>4. Cardinality(Waiting(r)) <= Cardinality(Waiting(q))
          BY <4>2, <4>3, FS_Subset
        <4>5. 2 * q.created + Cardinality(Waiting(q)) <= q.joined
          BY <1>2 DEF QueueOk
        <4> QED
          BY <2>14, <2>15, <4>1, <4>2, <4>4, <4>5
      <3> QED
        BY <3>1, <3>3, <3>4, <3>5, <3>6 DEF QueueOk
    <2>17. SameBgs(q, r)
      BY <2>12, <2>15 DEF SameBgs
    <2>18. HasSlot(r, e.bg) /\ \A j : HasSlot(q, j) => HasSlot(r, j)
      BY <1>2, <2>12, <2>15 DEF HasSlot
    <2>19. q.created <= r.created /\ e.bg <= r.created
      BY <2>14, <2>15
    <2>20. Grows(q, r, v.sent)
      BY <1>2, <2>9, <2>10, <2>14, <2>15, <2>16, <2>18, <2>19, TellsGrow
    <2>21. Filled(q, r, v.sent)
      BY <2>10, <2>15, <2>17, <2>20 DEF Filled, Tells
    <2> QED
      BY <1>1, <2>8, <2>21, Zenon
  <1> QED
    BY <1>3, <1>4, Zenon

-----------------------------------------------------------------------------
AllCreates == {m \in ToWorld : m.type = "Create"}
Creates(i) == {m \in ToWorld : m.type = "Create" /\ m.bg = i}

\* At most one match is made, and the world is told.
Created(q, r, ms) ==
    \/ r.created = q.created /\ Absent(ms, AllCreates)
    \/ /\ r.created = q.created + 1 /\ HasSlot(r, r.created)
       /\ Single(ms, AllCreates) /\ ~Absent(ms, Creates(r.created))
       /\ \A i : i # r.created => Absent(ms, Creates(i))

NewEntry(i) == [bg |-> i, status |-> "none", invited |-> None]
CreateMessage(i, counts) == [type |-> "Create", bg |-> i, counts |-> counts]
MatchedQueue(q, v, i) ==
    [q EXCEPT !.groups = v.groups, !.created = i, !.freeSlots = <<v.entry>> \o @]

LEMMA TwoWait ==
  ASSUME NEW q, QueueOk(q), NEW ids, NEW j \in DOMAIN q.groups["alliance"],
         NEW k \in DOMAIN q.groups["horde"], q.groups["alliance"][j].id \in ids,
         q.groups["horde"][k].id \in ids, q.groups["alliance"][j].to = 0,
         q.groups["horde"][k].to = 0, NEW w, w \subseteq Waiting(q) \ ids
  PROVE  q.created + 1 \in Battlegrounds /\ 2 * (q.created + 1) + Cardinality(w) <= q.joined
  <1>1. "alliance" \in Sides /\ "horde" \in Sides /\ "alliance" # "horde"
    BY DEF Sides
  <1>2. PICK a, b : a = q.groups["alliance"][j].id /\ b = q.groups["horde"][k].id
    BY Zenon
  <1>3. a # b
    BY <1>1, <1>2 DEF QueueOk, GroupsOk, Apart
  <1>4. a \in 1 .. q.joined /\ b \in 1 .. q.joined
    <2>1. q.groups["alliance"][j] \in Groups /\ q.groups["horde"][k] \in Groups
      BY <1>1, QueueTypes
    <2>2. /\ GroupOk(q.groups["alliance"][j], "alliance", q.joined, q.created)
          /\ GroupOk(q.groups["horde"][k], "horde", q.joined, q.created)
      BY <1>1 DEF QueueOk, GroupsOk
    <2>3. q.joined \in Nat /\ MaxJoins \in Nat
      BY QueueTypes, Numbers
    <2> QED
      BY <1>2, <2>1, <2>2, <2>3 DEF Groups, GroupOk
  <1>5. a \in Waiting(q) /\ b \in Waiting(q)
    BY <1>1, <1>2, <1>4 DEF Waiting
  <1>6. IsFiniteSet(Waiting(q)) /\ Cardinality(Waiting(q)) \in Nat
    BY QueueTypes, WaitingIs
  <1>7. /\ IsFiniteSet(Waiting(q) \ {a}) /\ Cardinality(Waiting(q) \ {a}) = Cardinality(Waiting(q)) - 1
    BY <1>5, <1>6, FS_RemoveElement, Zenon
  <1>8. /\ IsFiniteSet((Waiting(q) \ {a}) \ {b})
        /\ Cardinality((Waiting(q) \ {a}) \ {b}) = Cardinality(Waiting(q)) - 2
    <2>1. b \in Waiting(q) \ {a}
      BY <1>3, <1>5
    <2>2. /\ IsFiniteSet((Waiting(q) \ {a}) \ {b})
          /\ Cardinality((Waiting(q) \ {a}) \ {b}) = Cardinality(Waiting(q) \ {a}) - 1
      BY <1>7, <2>1, FS_RemoveElement
    <2> QED
      BY <1>6, <1>7, <2>2
  <1>9. w \subseteq (Waiting(q) \ {a}) \ {b}
    BY <1>2
  <1>10. Cardinality(w) <= Cardinality(Waiting(q)) - 2 /\ Cardinality(w) \in Nat
    BY <1>8, <1>9, FS_Subset, FS_CardinalityType
  <1>11. 2 * q.created + Cardinality(Waiting(q)) <= q.joined
    BY DEF QueueOk
  <1>12. q.created \in Nat /\ q.joined \in Nat /\ q.joined <= MaxJoins /\ MaxJoins \in Nat
    BY QueueTypes, Numbers
  <1>13. 2 * (q.created + 1) + Cardinality(w) <= q.joined
    BY <1>6, <1>10, <1>11, <1>12
  <1>14. q.created + 1 <= MaxJoins \div 2
    BY <1>10, <1>12, <1>13
  <1> QED
    BY <1>12, <1>13, <1>14, Numbers DEF Battlegrounds, MaxInstances

MatchedTo(x, f) ==
    \E ms : /\ Grows(x.queue, f.queue, ms) /\ Created(x.queue, f.queue, ms)
            /\ \A i : Twice(x.queue, i) => Twice(f.queue, i)
            /\ f.sent = x.sent \o ms

LEMMA MatchIs ==
  ASSUME NEW ans, QueueOk(ans.queue), ans = Answer(ans.queue, ans.sent),
         ans.sent \in Seq(ToWorld), NEW f, f = StartNormalMatch(ans)
  PROVE  MatchedTo(ans, f)
  <1>1. PICK q : q = ans.queue /\ QueueOk(q)
    OBVIOUS
  <1>2. PICK pool : pool = [s \in Sides |-> SelectionPool(q.groups[s], MaxPerTeam, MinPerTeam)]
    BY Zenon
  <1>3. CASE \E s \in Sides : pool[s].count < MinPerTeam
    <2>1. f = ans
      BY <1>1, <1>2, <1>3, ZenonT(40) DEF StartNormalMatch
    <2>2. Grows(q, q, << >>) /\ ans.sent \o << >> = ans.sent
      BY <1>1, GrowsNot
    <2>3. Created(q, q, << >>)
      BY NoneIs DEF Created
    <2> QED
      BY <1>1, <2>1, <2>2, <2>3 DEF MatchedTo
  <1>4. CASE \A s \in Sides : ~(pool[s].count < MinPerTeam)
    <2>1. PICK ids : ids = UNION {pool[s].ids : s \in Sides}
      BY Zenon
    <2>2. PICK i : i = q.created + 1
      OBVIOUS
    <2>3. PICK v : v = InviteSelected(q, ids, NewEntry(i))
      OBVIOUS
    <2>4. f = Answer([q EXCEPT !.groups = v.groups, !.created = i, !.freeSlots = <<v.entry>> \o @],
                     ans.sent \o v.sent \o <<[type |-> "Create", bg |-> i, counts |-> v.entry.invited]>>)
      BY <1>1, <1>2, <1>4, <2>1, <2>2, <2>3, ZenonT(40) DEF StartNormalMatch, NewEntry
    <2>5. PICK c : c = CreateMessage(i, v.entry.invited)
      OBVIOUS
    <2>6. PICK r : r = MatchedQueue(q, v, i)
      OBVIOUS
    <2>7. f.queue = r /\ f.sent = (ans.sent \o v.sent) \o <<c>> /\ f = Answer(f.queue, f.sent)
      <3>1. f = Answer(r, (ans.sent \o v.sent) \o <<c>>)
        BY <2>4, <2>5, <2>6, ZenonT(40) DEF MatchedQueue, CreateMessage
      <3>2. PICK x : x = (ans.sent \o v.sent) \o <<c>>
        BY Zenon
      <3>3. f.queue = r /\ f.sent = x /\ f = Answer(f.queue, f.sent)
        <4>1. f = Answer(r, x)
          BY <3>1, <3>2
        <4>2. Answer(r, x).queue = r /\ Answer(r, x).sent = x
          BY DEF Answer
        <4> QED
          BY <4>1, <4>2
      <3> QED
        BY <3>2, <3>3
    <2>8. /\ Waits(q, ids)
          /\ \A s \in Sides : /\ pool[s].count \in Nat
                              /\ pool[s].count > 0 => \E k \in DOMAIN q.groups[s] :
                                   q.groups[s][k].id \in ids /\ q.groups[s][k].to = 0
      <3>1. PICK room : room = [s \in Sides |-> MaxPerTeam]
        BY Zenon
      <3>2. PICK enough : enough = [s \in Sides |-> MinPerTeam]
        BY Zenon
      <3>3. pool = [s \in Sides |-> SelectionPool(q.groups[s], room[s], enough[s])]
        BY <1>2, <3>1, <3>2
      <3>4. PoolsOk(q, pool, ids)
        BY <1>1, <2>1, <3>3, PoolsWait
      <3> QED
        BY <3>4 DEF PoolsOk
    <2>9. "alliance" \in Sides /\ "horde" \in Sides
      BY DEF Sides
    <2>10. \A s \in Sides : pool[s].count > 0
      BY <1>4, <2>8, Numbers
    <2>11. PICK j \in DOMAIN q.groups["alliance"] :
              q.groups["alliance"][j].id \in ids /\ q.groups["alliance"][j].to = 0
      BY <2>8, <2>9, <2>10
    <2>12. PICK k \in DOMAIN q.groups["horde"] :
              q.groups["horde"][k].id \in ids /\ q.groups["horde"][k].to = 0
      BY <2>8, <2>9, <2>10
    <2>13. i \in Battlegrounds /\ i \in 0 .. MaxInstances
      <3>1. {} \subseteq Waiting(q) \ ids
        OBVIOUS
      <3> QED
        BY <1>1, <2>2, <2>11, <2>12, <3>1, TwoWait, Numbers, Zenon
    <2>14. NewEntry(i) \in Slots /\ NewEntry(i).bg = i
      <3>1. None \in Counters
        BY Numbers DEF None, Counters
      <3> QED
        BY <2>13, <3>1 DEF NewEntry, Slots, Statuses
    <2>15. v.entry \in Slots /\ v.entry.bg = i /\ Tells(q, ids, i, v.sent) /\ AllTurned(q, v.groups, ids, i)
      <3>1. PICK e \in Slots : e = NewEntry(i) /\ e.bg = i
        BY <2>14
      <3>2. /\ v.entry \in Slots /\ v.entry.bg = e.bg /\ v.entry.status = e.status
            /\ Tells(q, ids, e.bg, v.sent)
            /\ v.groups \in [Sides -> Seq(Groups)]
            /\ \A s \in Sides : /\ DOMAIN v.groups[s] = DOMAIN q.groups[s]
                                /\ \A m \in DOMAIN q.groups[s] :
                                      Turned(q.groups[s][m], v.groups[s][m], ids, e.bg)
        BY <1>1, <2>3, <2>8, <3>1, InviteSelectedIs
      <3> QED
        BY <3>1, <3>2 DEF AllTurned
    <2>16. PICK slots : slots = <<v.entry>> \o q.freeSlots
      BY Zenon
    <2>17. q.freeSlots \in Seq(Slots) /\ Len(q.freeSlots) \in Nat
           /\ DOMAIN q.freeSlots = 1 .. Len(q.freeSlots)
      BY <1>1, QueueTypes
    <2>18. /\ slots \in Seq(Slots) /\ Len(slots) = Len(q.freeSlots) + 1
           /\ \A m \in 1 .. Len(q.freeSlots) + 1 :
                 slots[m] = IF m = 1 THEN v.entry ELSE q.freeSlots[m - 1]
      BY <2>15, <2>16, <2>17, PrependIs
    <2>19. DOMAIN slots = 1 .. Len(q.freeSlots) + 1
      BY <2>18
    <2>20. /\ 1 \in DOMAIN slots /\ slots[1].bg = i
           /\ \A m \in DOMAIN q.freeSlots : m + 1 \in DOMAIN slots /\ slots[m + 1] = q.freeSlots[m]
           /\ \A m \in DOMAIN slots : m # 1 => m - 1 \in DOMAIN q.freeSlots /\ slots[m] = q.freeSlots[m - 1]
      BY <2>15, <2>17, <2>18, <2>19
    <2>21. r = [groups |-> v.groups, member |-> q.member, freeSlots |-> slots,
                scheduled |-> q.scheduled, created |-> i, joined |-> q.joined]
      <3>0. PICK groups : groups = v.groups
        OBVIOUS
      <3>1. PICK u : u = [q EXCEPT !.groups = groups, !.created = i, !.freeSlots = slots]
        OBVIOUS
      <3>2. u = [groups |-> groups, member |-> q.member, freeSlots |-> slots,
                 scheduled |-> q.scheduled, created |-> i, joined |-> q.joined]
        <4>1. q = [groups |-> q.groups, member |-> q.member, freeSlots |-> q.freeSlots,
                   scheduled |-> q.scheduled, created |-> q.created, joined |-> q.joined]
          BY <1>1, QueueTypes
        <4> QED
          BY <3>1, <4>1, Zenon
      <3>3. r = u
        BY <2>6, <2>16, <3>0, <3>1, ZenonT(40) DEF MatchedQueue
      <3> QED
        BY <3>0, <3>2, <3>3
    <2>22. /\ AllTurned(q, r.groups, ids, i) /\ r.joined = q.joined /\ r.created = i
           /\ r.member = q.member /\ r.freeSlots = slots
      BY <2>15, <2>21
    <2>23. q.created <= r.created /\ r.created \in Nat /\ i <= r.created /\ q.created \in Nat
      BY <1>1, <2>2, <2>22, QueueTypes
    <2>24. /\ GroupsOk(r) /\ Waiting(r) \subseteq Waiting(q) \ ids
           /\ \A p \in Players : \A n, m :
                 Seat(r, p, n, m) <=> \/ n \notin ids /\ Seat(q, p, n, m)
                                      \/ n \in ids /\ m = i /\ Seat(q, p, n, 0)
      BY <1>1, <2>8, <2>13, <2>22, <2>23, TurnedIs
    <2>25. QueueOk(r)
      <3>1. r \in Queues
        BY <1>1, <2>13, <2>15, <2>18, <2>21, QueueTypes DEF Queues, AllTurned
      <3>2. ASSUME NEW p \in Players, r.member[p] # 0
            PROVE  \E m \in 0 .. MaxInstances : Seat(r, p, r.member[p], m)
        <4>1. PICK m \in 0 .. MaxInstances : Seat(q, p, q.member[p], m)
          BY <1>1, <2>22, <3>2 DEF QueueOk
        <4>2. q.member[p] \in ids => m = 0
          <5> SUFFICES ASSUME q.member[p] \in ids PROVE m = 0
            OBVIOUS
          <5>1. PICK s \in Sides : \E x \in DOMAIN q.groups[s] :
                   q.groups[s][x].id = q.member[p] /\ q.groups[s][x].to = 0
            BY <2>8 DEF Waits
          <5>2. PICK l \in DOMAIN q.groups[Team[p]] :
                   q.groups[Team[p]][l].id = q.member[p] /\ q.groups[Team[p]][l].to = m
            BY <4>1 DEF Seat
          <5>3. Team[p] \in Sides
            BY TeamAssumption
          <5> QED
            BY <1>1, <5>1, <5>2, <5>3 DEF QueueOk, GroupsOk, Apart
        <4> QED
          BY <2>13, <2>22, <2>24, <4>1, <4>2
      <3>3. ASSUME NEW m \in DOMAIN r.freeSlots PROVE r.freeSlots[m].bg <= r.created
        <4>1. CASE m = 1
          BY <2>20, <2>22, <2>23, <4>1
        <4>2. CASE m # 1
          <5>1. m - 1 \in DOMAIN q.freeSlots /\ r.freeSlots[m] = q.freeSlots[m - 1]
            BY <2>20, <2>22, <3>3, <4>2
          <5>2. q.freeSlots[m - 1].bg <= q.created /\ q.freeSlots[m - 1] \in Slots
            BY <1>1, <2>17, <5>1 DEF QueueOk
          <5>3. q.freeSlots[m - 1].bg \in Nat
            <6>1. PICK e \in Slots : e = q.freeSlots[m - 1]
              BY <5>2
            <6>2. e.bg \in Nat
              BY Numbers DEF Slots, Battlegrounds
            <6> QED
              BY <6>1, <6>2
          <5> QED
            BY <2>23, <5>1, <5>2, <5>3
        <4> QED
          BY <4>1, <4>2
      <3>4. 2 * r.created + Cardinality(Waiting(r)) <= r.joined
        BY <1>1, <2>2, <2>11, <2>12, <2>22, <2>24, TwoWait
      <3> QED
        BY <2>24, <3>1, <3>2, <3>3, <3>4 DEF QueueOk
    <2>26. HasSlot(r, i) /\ (\A m : HasSlot(q, m) => HasSlot(r, m))
      BY <2>20, <2>22 DEF HasSlot
    <2>27. ASSUME NEW m, Twice(q, m) PROVE Twice(r, m)
      <3>1. PICK x, y \in DOMAIN q.freeSlots :
               x # y /\ q.freeSlots[x].bg = m /\ q.freeSlots[y].bg = m
        BY <2>27 DEF Twice
      <3>2. x + 1 # y + 1
        BY <2>17, <3>1
      <3> QED
        BY <2>20, <2>22, <3>1, <3>2 DEF Twice
    <2>28. Grows(q, r, v.sent)
      BY <1>1, <2>8, <2>13, <2>15, <2>22, <2>23, <2>25, <2>26, TellsGrow
    <2>29. c \in ToWorld /\ c.type = "Create" /\ c.bg = i
      <3>1. v.entry.invited \in Counters
        BY <2>15 DEF Slots
      <3> QED
        BY <2>5, <2>13, <3>1 DEF CreateMessage, ToWorld
    <2>30. PICK ms : ms = v.sent \o <<c>>
      BY Zenon
    <2>31. Grows(q, r, ms)
      BY <2>28, <2>29, <2>30, GrowsMore, Zenon
    <2>32. Created(q, r, ms)
      <3>1. v.sent \in Seq(ToWorld) /\ <<c>> \in Seq(ToWorld)
        BY <2>15, <2>29 DEF Tells
      <3>2. Sent(v.sent, <<c>>, ms)
        BY <2>30, <3>1, SentIs, Zenon
      <3>3. Absent(v.sent, AllCreates) /\ \A m : Absent(v.sent, Creates(m))
        BY <2>15, Zenon DEF Tells, Absent, AllCreates, Creates
      <3>4. \A M : Single(<<c>>, M) /\ (Absent(<<c>>, M) <=> c \notin M)
        BY OneIs
      <3>5. c \in Creates(i) /\ \A m : m # i => c \notin Creates(m)
        BY <2>29 DEF Creates
      <3>6. Single(ms, AllCreates) /\ ~Absent(ms, Creates(i)) /\ \A m : m # i => Absent(ms, Creates(m))
        BY <3>2, <3>3, <3>4, <3>5 DEF Sent
      <3> QED
        BY <2>2, <2>22, <2>26, <3>6 DEF Created
    <2>33. f.sent = ans.sent \o ms
      <3>1. v.sent \in Seq(ToWorld) /\ <<c>> \in Seq(ToWorld)
        BY <2>15, <2>29 DEF Tells
      <3>2. PICK x \in Seq(ToWorld), y \in Seq(ToWorld), z \in Seq(ToWorld) :
               x = ans.sent /\ y = v.sent /\ z = <<c>>
        BY <3>1, Zenon
      <3>3. (x \o y) \o z = x \o (y \o z)
        BY ConcatAssociative
      <3> QED
        BY <2>7, <2>30, <3>2, <3>3, Zenon
    <2> QED
      BY <1>1, <2>7, <2>27, <2>31, <2>32, <2>33, Zenon DEF MatchedTo
  <1> QED
    BY <1>3, <1>4

LEMMA FilledTwice ==
  ASSUME NEW q, QueueOk(q), NEW r, NEW t, NEW ms, NEW ns, Filled(q, r, ms), Filled(r, t, ns),
         NEW rs, rs = ms \o ns
  PROVE  Filled(q, t, rs)
  <1>1. Grows(q, r, ms) /\ Grows(r, t, ns) /\ ms \in Seq(ToWorld) /\ ns \in Seq(ToWorld)
    BY Zenon DEF Filled, Grows
  <1>2. Grows(q, t, rs)
    BY <1>1, GrowsTwice, Zenon
  <1>3. Sent(ms, ns, rs) /\ rs \in Seq(ToWorld)
    BY <1>1, SentIs, Zenon
  <1>4. \A j \in DOMAIN rs : rs[j].type \in {"Invited", "Count"}
    <2>1. PICK M : M = {x \in ToWorld : x.type \notin {"Invited", "Count"}}
      BY Zenon
    <2>2. Absent(ms, M) /\ Absent(ns, M)
      BY <2>1 DEF Absent, Filled
    <2>3. Absent(rs, M) /\ \A j \in DOMAIN rs : rs[j] \in ToWorld
      BY <1>3, <2>2 DEF Sent
    <2> QED
      BY <2>1, <2>3 DEF Absent
  <1>5. SameBgs(q, t) /\ t.created = q.created
    BY DEF Filled, SameBgs
  <1> QED
    BY <1>2, <1>4, <1>5 DEF Filled

\* What Update makes of the queue q and sends.
Updated(q, r, ms) ==
    Grows(q, r, ms) /\ Created(q, r, ms) /\ \A i : Twice(q, i) => Twice(r, i)

\* The queue once the update began.
Idle(q) == [q EXCEPT !.scheduled = FALSE]

\* The queue while its n entries are filled up.
Fillings(n) == {x \in [queue : Queues, sent : Seq(ToWorld)] :
                   QueueOk(x.queue) /\ Len(x.queue.freeSlots) = n}
FillSteps(f, q) ==
    f = [k \in 0 .. Len(q.freeSlots) |->
           IF k = 0 THEN Answer(Idle(q), << >>) ELSE FillPlayersToBg(f[k - 1], k)]

Stepped(x, y) == \E ms : Filled(x.queue, y.queue, ms) /\ y.sent = x.sent \o ms

LEMMA FillStepIs ==
  ASSUME NEW n \in Nat, NEW x \in Fillings(n), NEW k \in 1 .. n, NEW y, y = FillPlayersToBg(x, k)
  PROVE  y \in Fillings(n) /\ Stepped(x, y)
  <1>1. /\ QueueOk(x.queue) /\ Len(x.queue.freeSlots) = n /\ x.sent \in Seq(ToWorld)
        /\ x = Answer(x.queue, x.sent)
    BY DEF Fillings, Answer
  <1>2. x.queue.freeSlots \in Seq(Slots) /\ DOMAIN x.queue.freeSlots = 1 .. n
    BY <1>1, QueueTypes
  <1>3. k \in DOMAIN x.queue.freeSlots
    BY <1>2
  <1>4. PICK ms : Filled(x.queue, y.queue, ms) /\ y = Answer(y.queue, y.sent) /\ y.sent = x.sent \o ms
    BY <1>1, <1>3, FillIs, Zenon
  <1>5. QueueOk(y.queue) /\ ms \in Seq(ToWorld) /\ DOMAIN y.queue.freeSlots = 1 .. n
    BY <1>2, <1>4 DEF Filled, Grows, SameBgs
  <1>6. y.sent \in Seq(ToWorld)
    BY <1>1, <1>4, <1>5
  <1>7. y.queue \in Queues /\ y.queue.freeSlots \in Seq(Slots)
    BY <1>5, QueueTypes, Zenon DEF QueueOk
  <1>8. Len(y.queue.freeSlots) = n
    BY <1>5, <1>7
  <1>9. y \in [queue : Queues, sent : Seq(ToWorld)]
    <2>1. PICK r \in Queues, ns \in Seq(ToWorld) : r = y.queue /\ ns = y.sent
      BY <1>6, <1>7
    <2>2. y = [queue |-> r, sent |-> ns]
      BY <1>4, <2>1, ZenonT(40) DEF Answer
    <2> QED
      BY <2>2
  <1> QED
    BY <1>4, <1>5, <1>8, <1>9, Zenon DEF Fillings, Stepped

LEMMA IdleIs ==
  ASSUME NEW q, QueueOk(q), NEW r, r = Idle(q)
  PROVE  /\ QueueOk(r) /\ SameGroups(q, r) /\ r.freeSlots = q.freeSlots /\ r.scheduled = FALSE
         /\ \A p, n, i : Seat(r, p, n, i) <=> Seat(q, p, n, i)
  <1>0. PICK b \in BOOLEAN : b = FALSE
    BY Zenon
  <1>1. r = Reslotted(q, q.freeSlots, b)
    <2>1. r = [q EXCEPT !.scheduled = b]
      BY <1>0, ZenonT(40) DEF Idle
    <2> QED
      BY <2>1, QueueTypes DEF Reslotted
  <1>2. q.freeSlots \in Seq(Slots) /\ \A k \in DOMAIN q.freeSlots : q.freeSlots[k].bg <= q.created
    BY QueueTypes DEF QueueOk
  <1>3. /\ QueueOk(r) /\ SameGroups(q, r) /\ r.freeSlots = q.freeSlots /\ r.scheduled = b
        /\ \A p, n, i : Seat(r, p, n, i) <=> Seat(q, p, n, i)
    BY <1>1, <1>2, ReslottedOk
  <1> QED
    BY <1>0, <1>3

\* One entry after another.
FillRun(f, q, n) ==
    /\ f \in [0 .. n -> Fillings(n)] /\ f[0] = Answer(Idle(q), << >>)
    /\ \A k \in 1 .. n : f[k] = FillPlayersToBg(f[k - 1], k)
    /\ Update(q) = IF GroupsOf(q) = {} THEN Answer(Idle(q), << >>) ELSE StartNormalMatch(f[n])

LEMMA UpdateSteps ==
  ASSUME NEW q, QueueOk(q), NEW n, n = Len(q.freeSlots)
  PROVE  \E f : FillRun(f, q, n)
  <1>1. n \in Nat
    BY QueueTypes
  <1>2. PICK b \in Fillings(n) : b = Answer(Idle(q), << >>)
    <2>1. PICK r : r = Idle(q)
      OBVIOUS
    <2>2. PICK ms \in Seq(ToWorld) : ms = << >>
      <3>1. << >> \in Seq(ToWorld)
        OBVIOUS
      <3> QED
        BY <3>1, Zenon
    <2>3. QueueOk(r) /\ r.freeSlots = q.freeSlots /\ r \in Queues
      BY <2>1, IdleIs, Zenon DEF QueueOk
    <2>4. [queue |-> r, sent |-> ms] \in Fillings(n)
      BY <2>3 DEF Fillings
    <2>5. Answer(Idle(q), << >>) = [queue |-> r, sent |-> ms]
      BY <2>1, <2>2 DEF Answer
    <2> QED
      BY <2>4, <2>5
  <1>3. PICK h : h = [k \in 1 .. n |-> [x \in Fillings(n) |-> FillPlayersToBg(x, k)]]
    BY Zenon
  <1>4. h \in [1 .. n -> [Fillings(n) -> Fillings(n)]]
    BY <1>1, <1>3, FillStepIs
  <1>5. PICK f \in [0 .. n -> Fillings(n)] : Solves(f, h, b, n)
    BY <1>1, <1>4, RecursionExists, Zenon
  <1>6. \A k \in 1 .. n : f[k] = FillPlayersToBg(f[k - 1], k)
    <2> SUFFICES ASSUME NEW k \in 1 .. n PROVE f[k] = FillPlayersToBg(f[k - 1], k)
      OBVIOUS
    <2>1. f[k] = h[k][f[k - 1]] /\ f[k - 1] \in Fillings(n)
      BY <1>1, <1>5 DEF Solves
    <2> QED
      BY <1>3, <2>1
  <1>7. FillSteps(f, q)
    <2>1. \A k \in 0 .. n : f[k] = IF k = 0 THEN Answer(Idle(q), << >>)
                                   ELSE FillPlayersToBg(f[k - 1], k)
      BY <1>1, <1>2, <1>5, <1>6 DEF Solves
    <2> QED
      BY <1>1, <2>1 DEF FillSteps
  <1>8. PICK g : g = (CHOOSE x : FillSteps(x, q)) /\ FillSteps(g, q)
    BY <1>7
  <1>9. Update(q) = IF GroupsOf(q) = {} THEN Answer(Idle(q), << >>) ELSE StartNormalMatch(g[n])
    BY <1>8, ZenonT(120) DEF Update, FillSteps, Idle
  <1>10. /\ DOMAIN g = 0 .. n /\ g[0] = b
         /\ \A k \in 1 .. n : g[k] = FillPlayersToBg(g[k - 1], k)
    <2>1. g = [k \in 0 .. n |-> IF k = 0 THEN b ELSE FillPlayersToBg(g[k - 1], k)]
      BY <1>1, <1>2, <1>8 DEF FillSteps
    <2>2. DOMAIN g = 0 .. n
      BY <2>1
    <2>3. \A k \in 0 .. n : g[k] = IF k = 0 THEN b ELSE FillPlayersToBg(g[k - 1], k)
      BY <2>1, ZenonT(40)
    <2>4. 0 \in 0 .. n /\ \A k \in 1 .. n : k \in 0 .. n /\ k # 0
      BY <1>1
    <2> QED
      BY <2>2, <2>3, <2>4
  <1>11. g \in [0 .. n -> Fillings(n)]
    <2> DEFINE T == {k \in 0 .. n : g[k] \in Fillings(n)}
    <2>1. 0 \in T
      BY <1>1, <1>10
    <2>2. ASSUME NEW k \in 1 .. n, k - 1 \in T PROVE k \in T
      <3>1. PICK x \in Fillings(n) : x = g[k - 1]
        BY <2>2
      <3>2. FillPlayersToBg(x, k) \in Fillings(n)
        BY <1>1, FillStepIs
      <3>3. k \in 0 .. n
        BY <1>1
      <3> QED
        BY <1>10, <3>1, <3>2, <3>3
    <2> HIDE DEF T
    <2>3. T \in SUBSET (0 .. n)
      BY DEF T
    <2>4. T = 0 .. n
      BY <1>1, <2>1, <2>2, <2>3, NumbersUpTo
    <2>5. g = [k \in 0 .. n |-> g[k]]
      BY <1>8 DEF FillSteps
    <2> QED
      BY <2>4, <2>5, Zenon DEF T
  <1>12. FillRun(g, q, n)
    BY <1>2, <1>9, <1>10, <1>11 DEF FillRun
  <1> QED
    BY <1>12

LEMMA SameIsUpdated ==
  ASSUME NEW q, NEW r, SameGroups(q, r), r.freeSlots = q.freeSlots, NEW t, NEW ms, Updated(r, t, ms)
  PROVE  Updated(q, t, ms)
  <1>1. /\ \A p, n, i : Seat(r, p, n, i) <=> Seat(q, p, n, i)
        /\ \A i : (HasSlot(r, i) <=> HasSlot(q, i)) /\ (Twice(r, i) <=> Twice(q, i))
        /\ r.joined = q.joined /\ r.member = q.member /\ r.created = q.created
    BY DEF SameGroups, Seat, HasSlot, Twice
  <1>2. Created(q, t, ms)
    BY <1>1 DEF Updated, Created
  <1>3. Grows(q, t, ms)
    BY <1>1, Zenon DEF Updated, Grows
  <1> QED
    BY <1>1, <1>2, <1>3 DEF Updated

LEMMA UpdateIs ==
  ASSUME NEW q, QueueOk(q), NEW u, u = Update(q)
  PROVE  Updated(q, u.queue, u.sent)
  <1>1. PICK n : n = Len(q.freeSlots) /\ n \in Nat
    BY QueueTypes
  <1>2. PICK f : FillRun(f, q, n)
    BY <1>1, UpdateSteps
  <1>3. PICK r : r = Idle(q)
    OBVIOUS
  <1>4. QueueOk(r) /\ SameGroups(q, r) /\ r.freeSlots = q.freeSlots
    BY <1>3, IdleIs, Zenon
  <1>5. f[0].queue = r /\ f[0].sent = << >> /\ f \in [0 .. n -> Fillings(n)]
    BY <1>2, <1>3 DEF FillRun, Answer
  <1>6. Filled(r, r, << >>)
    <2>1. \A j \in DOMAIN << >> : FALSE
      OBVIOUS
    <2> QED
      BY <1>4, <2>1, GrowsNot DEF Filled, SameBgs
  <1> DEFINE T == {k \in 0 .. n : Filled(r, f[k].queue, f[k].sent)}
  <1>7. 0 \in T
    BY <1>1, <1>5, <1>6
  <1>8. ASSUME NEW k \in 1 .. n, k - 1 \in T PROVE k \in T
    <2>1. PICK x \in Fillings(n) : x = f[k - 1] /\ Filled(r, x.queue, x.sent)
      BY <1>1, <1>5, <1>8
    <2>2. PICK y : y = f[k] /\ y = FillPlayersToBg(x, k)
      BY <1>2, <2>1 DEF FillRun
    <2>3. PICK ms : Filled(x.queue, y.queue, ms) /\ y.sent = x.sent \o ms
      <3>1. Stepped(x, y)
        BY <1>1, <2>2, FillStepIs
      <3> QED
        BY <3>1 DEF Stepped
    <2>4. Filled(r, y.queue, y.sent)
      BY <1>4, <2>1, <2>3, FilledTwice, Zenon
    <2>5. k \in 0 .. n
      BY <1>1
    <2> QED
      BY <2>2, <2>4, <2>5, Zenon
  <1> HIDE DEF T
  <1>9. T \in SUBSET (0 .. n)
    BY DEF T
  <1>10. T = 0 .. n
    BY <1>1, <1>7, <1>8, <1>9, NumbersUpTo
  <1>11. Filled(r, f[n].queue, f[n].sent) /\ f[n] \in Fillings(n)
    BY <1>1, <1>5, <1>10 DEF T
  <1>12. CASE GroupsOf(q) = {}
    <2>1. u.queue = r /\ u.sent = << >>
      BY <1>2, <1>3, <1>12 DEF FillRun, Answer
    <2>2. Created(r, r, << >>)
      BY NoneIs DEF Created
    <2>3. Updated(r, r, << >>)
      BY <1>6, <2>2 DEF Updated, Filled
    <2> QED
      BY <1>4, <2>1, <2>3, SameIsUpdated
  <1>13. CASE GroupsOf(q) # {}
    <2>1. u = StartNormalMatch(f[n])
      BY <1>2, <1>13 DEF FillRun
    <2>2. PICK x \in Fillings(n) : x = f[n]
      BY <1>11
    <2>3. QueueOk(x.queue) /\ x = Answer(x.queue, x.sent) /\ x.sent \in Seq(ToWorld)
      BY DEF Fillings, Answer
    <2>4. PICK ms : /\ Grows(x.queue, u.queue, ms) /\ Created(x.queue, u.queue, ms)
                    /\ \A i : Twice(x.queue, i) => Twice(u.queue, i)
                    /\ u.sent = x.sent \o ms
      <3>1. MatchedTo(x, u)
        BY <2>1, <2>2, <2>3, MatchIs
      <3> QED
        BY <3>1 DEF MatchedTo
    <2>5. Grows(r, u.queue, u.sent)
      BY <1>4, <1>11, <2>2, <2>4, GrowsTwice, Zenon DEF Filled
    <2>6. \A i : Twice(r, i) => Twice(u.queue, i)
      BY <1>11, <2>2, <2>4, SameBgsKeepSlots DEF Filled
    <2>7. Created(r, u.queue, u.sent)
      <3>1. ms \in Seq(ToWorld)
        BY <2>4 DEF Grows
      <3>2. Sent(x.sent, ms, u.sent)
        BY <2>3, <2>4, <3>1, SentIs, Zenon
      <3>3. x.queue.created = r.created /\ Absent(x.sent, AllCreates) /\ \A i : Absent(x.sent, Creates(i))
        BY <1>11, <2>2 DEF Filled, Absent, AllCreates, Creates
      <3> QED
        BY <2>4, <3>2, <3>3 DEF Created, Sent
    <2>8. Updated(r, u.queue, u.sent)
      BY <2>5, <2>6, <2>7 DEF Updated
    <2> QED
      BY <1>4, <2>8, SameIsUpdated
  <1> QED
    BY <1>12, <1>13
-----------------------------------------------------------------------------
(***************************************************************************)
(* The joins under way.                                                    *)
(***************************************************************************)
JoinsIn(ms) == {k \in DOMAIN ms : ms[k].type = "Join"}

LEMMA JoinsAre ==
  ASSUME NEW ms \in Seq(ToQueue)
  PROVE  IsFiniteSet(JoinsIn(ms)) /\ Cardinality(JoinsIn(ms)) \in Nat
  <1>1. Len(ms) \in Nat /\ JoinsIn(ms) \subseteq 1 .. Len(ms)
    BY DEF JoinsIn
  <1>2. IsFiniteSet(1 .. Len(ms))
    BY <1>1, FS_Interval
  <1> QED
    BY <1>1, <1>2, FS_Subset, FS_CardinalityType

LEMMA JoinTaken ==
  ASSUME NEW ms \in Seq(ToQueue), ms # << >>, NEW ts, ts = Tail(ms)
  PROVE  /\ Cardinality(JoinsIn(ts)) <= Cardinality(JoinsIn(ms))
         /\ Head(ms).type = "Join" => Cardinality(JoinsIn(ts)) + 1 <= Cardinality(JoinsIn(ms))
  <1>1. /\ ts \in Seq(ToQueue) /\ Len(ms) \in Nat /\ Len(ms) > 0 /\ Head(ms) = ms[1]
        /\ DOMAIN ms = 1 .. Len(ms) /\ DOMAIN ts = 1 .. Len(ms) - 1
        /\ \A k \in DOMAIN ts : ts[k] = ms[k + 1]
    OBVIOUS
  <1> DEFINE S == JoinsIn(ts)
             T == JoinsIn(ms) \ {1}
             f == [k \in S |-> k + 1]
  <1>2. \A k \in S : k \in Nat /\ k + 1 \in T
    BY <1>1 DEF JoinsIn
  <1>3. f \in Injection(S, T)
    <2>1. f \in [S -> T]
      BY <1>2
    <2>2. \A j, k \in S : f[j] = f[k] => j = k
      BY <1>2
    <2> QED
      BY <2>1, <2>2 DEF Injection, IsInjective
  <1>4. IsFiniteSet(JoinsIn(ms)) /\ Cardinality(JoinsIn(ms)) \in Nat
    BY JoinsAre
  <1>5. IsFiniteSet(T) /\ Cardinality(T) = IF 1 \in JoinsIn(ms) THEN Cardinality(JoinsIn(ms)) - 1
                                           ELSE Cardinality(JoinsIn(ms))
    BY <1>4, FS_RemoveElement
  <1> HIDE DEF S, T, f
  <1>6. Cardinality(S) <= Cardinality(T) /\ Cardinality(S) \in Nat
    BY <1>3, <1>5, FS_Injection, FS_CardinalityType
  <1>7. Head(ms).type = "Join" => 1 \in JoinsIn(ms)
    BY <1>1 DEF JoinsIn
  <1> QED
    BY <1>4, <1>5, <1>6, <1>7 DEF S

LEMMA JoinsSent ==
  ASSUME NEW ms \in Seq(ToQueue), NEW ns \in Seq(ToQueue), NEW rs, rs = ms \o ns
  PROVE  /\ (\A k \in DOMAIN ns : ns[k].type # "Join") => JoinsIn(rs) = JoinsIn(ms)
         /\ Len(ns) = 1 => Cardinality(JoinsIn(rs)) <= Cardinality(JoinsIn(ms)) + 1
  <1>1. /\ Len(rs) = Len(ms) + Len(ns) /\ DOMAIN rs = 1 .. Len(ms) + Len(ns)
        /\ \A k \in 1 .. Len(ms) + Len(ns) : rs[k] = IF k <= Len(ms) THEN ms[k] ELSE ns[k - Len(ms)]
    BY ConcatProperties
  <1>2. PICK a \in Nat, b \in Nat : a = Len(ms) /\ b = Len(ns)
    OBVIOUS
  <1>3. DOMAIN ms = 1 .. a /\ DOMAIN ns = 1 .. b
    BY <1>2
  <1>4. \A k \in 1 .. a + b : IF k <= a THEN rs[k] = ms[k] ELSE k - a \in 1 .. b /\ rs[k] = ns[k - a]
    BY <1>1, <1>2
  <1>5. ASSUME \A k \in DOMAIN ns : ns[k].type # "Join" PROVE JoinsIn(rs) = JoinsIn(ms)
    BY <1>1, <1>2, <1>3, <1>4, <1>5 DEF JoinsIn
  <1>6. ASSUME Len(ns) = 1 PROVE Cardinality(JoinsIn(rs)) <= Cardinality(JoinsIn(ms)) + 1
    <2>1. JoinsIn(rs) \subseteq JoinsIn(ms) \cup {a + 1}
      BY <1>1, <1>2, <1>3, <1>4, <1>6 DEF JoinsIn
    <2>2. IsFiniteSet(JoinsIn(ms)) /\ Cardinality(JoinsIn(ms)) \in Nat
      BY JoinsAre
    <2>3. /\ IsFiniteSet(JoinsIn(ms) \cup {a + 1})
          /\ Cardinality(JoinsIn(ms) \cup {a + 1}) <= Cardinality(JoinsIn(ms)) + 1
      <3>1. /\ IsFiniteSet(JoinsIn(ms) \cup {a + 1})
            /\ Cardinality(JoinsIn(ms) \cup {a + 1}) =
                  IF a + 1 \in JoinsIn(ms) THEN Cardinality(JoinsIn(ms)) ELSE Cardinality(JoinsIn(ms)) + 1
        BY <2>2, FS_AddElement, Zenon
      <3> QED
        BY <2>2, <3>1
    <2>4. Cardinality(JoinsIn(rs)) <= Cardinality(JoinsIn(ms) \cup {a + 1}) /\ Cardinality(JoinsIn(rs)) \in Nat
          /\ Cardinality(JoinsIn(ms) \cup {a + 1}) \in Nat
      BY <2>1, <2>3, FS_Subset, FS_CardinalityType
    <2> QED
      BY <2>2, <2>3, <2>4
  <1> QED
    BY <1>5, <1>6

-----------------------------------------------------------------------------
(***************************************************************************)
(* One battleground, b, and its entries in the queue q; tq and tw are the  *)
(* messages under way to the queue and to the world.                       *)
(***************************************************************************)
Adds(i) == {m \in ToQueue : m.type = "FreeAdd" /\ m.entry.bg = i}
Drops(i) == {m \in ToQueue : m.type = "FreeRemove" /\ m.bg = i}

Plain(ns) == \A i : Absent(ns, Adds(i)) /\ Absent(ns, Drops(i))
NoCreate(ms) == Absent(ms, AllCreates)

\* The queue created it with an entry; who is listed or about to be removed
\* has a second one, in the queue or on the way; the second entry goes at
\* most once, and only after it was added.
Listed(i, q, b, tq, tw) ==
    /\ i <= q.created => HasSlot(q, i)
    /\ b.listed \/ ~Absent(tq, Drops(i)) => ~Absent(tq, Adds(i)) \/ Twice(q, i)
    /\ Before(tq, Adds(i), Drops(i)) /\ Single(tq, Drops(i))
    /\ b.listed => Absent(tq, Drops(i)) /\ b.status \in Joinable
    /\ ~Absent(tq, Adds(i)) \/ ~Absent(tq, Drops(i)) => b.listed \/ b.status \notin Joinable
    /\ Single(tw, Creates(i))
    /\ ~Absent(tw, Creates(i)) \/ i > q.created =>
          b.status = "none" /\ Absent(tq, Adds(i)) /\ Absent(tq, Drops(i))
    /\ i > q.created => Absent(tw, Creates(i))

SameListing(b, c) ==
    /\ c.listed = b.listed /\ (c.status = "none" <=> b.status = "none")
    /\ (c.status \in Joinable <=> b.status \in Joinable)

SameSlots(q, r) ==
    r.created = q.created /\ \A i : (HasSlot(q, i) => HasSlot(r, i)) /\ (Twice(q, i) => Twice(r, i))

LEMMA SameListingIs ==
  ASSUME NEW b
  PROVE  SameListing(b, b)
  BY DEF SameListing

LEMMA SameSlotsAre ==
  ASSUME NEW q, NEW r
  PROVE  /\ r.created = q.created /\ r.freeSlots = q.freeSlots => SameSlots(q, r)
         /\ r.created = q.created /\ SameBgs(q, r) => SameSlots(q, r)
  <1>1. r.created = q.created /\ r.freeSlots = q.freeSlots => SameSlots(q, r)
    BY DEF SameSlots, HasSlot, Twice
  <1>2. ASSUME r.created = q.created, SameBgs(q, r) PROVE SameSlots(q, r)
    BY <1>2, SameBgsKeepSlots DEF SameSlots
  <1> QED
    BY <1>1, <1>2

\* The world sends other messages.
LEMMA ListedTold ==
  ASSUME NEW i, NEW q, NEW b, NEW tq, NEW tw, Listed(i, q, b, tq, tw),
         NEW c, SameListing(b, c), NEW ns, NEW rs, Sent(tq, ns, rs), Plain(ns)
  PROVE  Listed(i, q, c, rs, tw)
  <1>1. Absent(ns, Adds(i)) /\ Absent(ns, Drops(i))
    BY DEF Plain
  <1>2. /\ Absent(rs, Adds(i)) <=> Absent(tq, Adds(i))
        /\ Absent(rs, Drops(i)) <=> Absent(tq, Drops(i))
        /\ Single(rs, Drops(i)) /\ Before(rs, Adds(i), Drops(i))
    BY <1>1 DEF Sent, Listed
  <1> QED
    BY <1>2 DEF Listed, SameListing

\* The world changes without a message.
LEMMA ListedKept ==
  ASSUME NEW i, NEW q, NEW b, NEW tq, NEW tw, Listed(i, q, b, tq, tw),
         NEW c, SameListing(b, c)
  PROVE  Listed(i, q, c, tq, tw)
  BY DEF Listed, SameListing

\* The queue handles another message and sends no new battleground.
LEMMA ListedAnswered ==
  ASSUME NEW i, NEW q, NEW b, NEW tq, NEW tw, Listed(i, q, b, tq, tw),
         NEW ts, NEW h, Taken(tq, ts, h), h \notin Adds(i), h \notin Drops(i),
         NEW r, SameSlots(q, r), NEW ms, NEW rs, Sent(tw, ms, rs), Absent(ms, Creates(i))
  PROVE  Listed(i, r, b, ts, rs)
  <1>1. /\ Absent(ts, Adds(i)) <=> Absent(tq, Adds(i))
        /\ Absent(ts, Drops(i)) <=> Absent(tq, Drops(i))
        /\ Single(ts, Drops(i)) /\ Before(ts, Adds(i), Drops(i))
    BY DEF Taken, Listed
  <1>2. Single(rs, Creates(i)) /\ (Absent(rs, Creates(i)) <=> Absent(tw, Creates(i)))
    BY DEF Sent, Listed
  <1> QED
    BY <1>1, <1>2 DEF Listed, SameSlots

\* The world handles another message and sends nothing.
LEMMA ListedHandled ==
  ASSUME NEW i, NEW q, NEW b, NEW tq, NEW tw, Listed(i, q, b, tq, tw),
         NEW ts, NEW h, Taken(tw, ts, h)
  PROVE  /\ h \notin Creates(i) => Listed(i, q, b, tq, ts)
         /\ h \in Creates(i) =>
               \A c : c.listed = FALSE /\ c.status = "wait_join" => Listed(i, q, c, tq, ts)
  <1>1. Single(ts, Creates(i))
    BY DEF Taken, Listed
  <1>2. ASSUME h \notin Creates(i) PROVE Listed(i, q, b, tq, ts)
    <2>1. Absent(ts, Creates(i)) <=> Absent(tw, Creates(i))
      BY <1>2 DEF Taken
    <2> QED
      BY <1>1, <2>1 DEF Listed
  <1>3. ASSUME h \in Creates(i), NEW c, c.listed = FALSE, c.status = "wait_join"
        PROVE  Listed(i, q, c, tq, ts)
    <2>1. Absent(ts, Creates(i)) /\ ~Absent(tw, Creates(i))
      BY <1>3 DEF Taken, Listed
    <2>2. ~(i > q.created) /\ Absent(tq, Adds(i)) /\ Absent(tq, Drops(i))
      BY <2>1 DEF Listed
    <2> QED
      BY <1>1, <1>3, <2>1, <2>2 DEF Listed
  <1> QED
    BY <1>2, <1>3, Zenon

\* Somebody leaves: the battleground is listed, a second entry is sent.
LEMMA ListedAdded ==
  ASSUME NEW i, NEW q, NEW b, NEW tq, NEW tw, Listed(i, q, b, tq, tw),
         ~b.listed, b.status \in Joinable, NEW c, c.listed = TRUE, c.status = b.status,
         NEW ns, NEW rs, Sent(tq, ns, rs), ~Absent(ns, Adds(i)), Absent(ns, Drops(i))
  PROVE  Listed(i, q, c, rs, tw)
  <1>1. Absent(tq, Adds(i)) /\ Absent(tq, Drops(i)) /\ b.status # "none"
    BY DEF Listed, Joinable
  <1>2. Before(ns, Adds(i), Drops(i)) /\ Single(ns, Drops(i))
    BY DEF Before, Absent, Single
  <1>3. /\ ~Absent(rs, Adds(i)) /\ Absent(rs, Drops(i))
        /\ Single(rs, Drops(i)) /\ Before(rs, Adds(i), Drops(i))
    BY <1>1, <1>2 DEF Sent
  <1> QED
    BY <1>1, <1>3 DEF Listed

\* It ends or is deleted: the second entry is removed.
LEMMA ListedDropped ==
  ASSUME NEW i, NEW q, NEW b, NEW tq, NEW tw, Listed(i, q, b, tq, tw),
         b.status # "none", NEW c, c.listed = FALSE, c.status \notin Joinable,
         NEW ns, NEW rs, Sent(tq, ns, rs), Absent(ns, Adds(i)), Single(ns, Drops(i)),
         ~Absent(ns, Drops(i)) => b.listed
  PROVE  Listed(i, q, c, rs, tw)
  <1>1. Absent(tw, Creates(i)) /\ ~(i > q.created)
    BY DEF Listed
  <1>2. /\ Absent(rs, Adds(i)) <=> Absent(tq, Adds(i))
        /\ Absent(rs, Drops(i)) <=> Absent(tq, Drops(i)) /\ Absent(ns, Drops(i))
    BY DEF Sent
  <1>3. Single(rs, Drops(i)) /\ Before(rs, Adds(i), Drops(i))
    BY DEF Sent, Listed
  <1> QED
    BY <1>1, <1>2, <1>3 DEF Listed

\* The queue adds the second entry, or removes one.
LEMMA ListedEntryAdded ==
  ASSUME NEW i \in Int, NEW q, NEW b, NEW tq, NEW tw, Listed(i, q, b, tq, tw),
         q.created \in Nat, NEW ts, NEW h, Taken(tq, ts, h), h \notin Drops(i),
         NEW r, r.created = q.created, HasSlot(q, i) => HasSlot(r, i), Twice(q, i) => Twice(r, i),
         h \in Adds(i) /\ HasSlot(q, i) => Twice(r, i)
  PROVE  Listed(i, r, b, ts, tw) /\ (h \in Adds(i) => ~(i > q.created))
  <1>1. /\ ~Absent(ts, Adds(i)) => ~Absent(tq, Adds(i))
        /\ Absent(ts, Drops(i)) <=> Absent(tq, Drops(i))
        /\ Absent(ts, Adds(i)) => Absent(tq, Adds(i)) \/ h \in Adds(i)
        /\ Single(ts, Drops(i)) /\ Before(ts, Adds(i), Drops(i))
        /\ h \in Adds(i) => ~Absent(tq, Adds(i))
    BY DEF Taken, Listed
  <1>2. h \in Adds(i) => ~(i > q.created) /\ i <= q.created
    BY <1>1 DEF Listed
  <1> QED
    BY <1>1, <1>2 DEF Listed

LEMMA ListedEntryDropped ==
  ASSUME NEW i, NEW q, NEW b, NEW tq, NEW tw, Listed(i, q, b, tq, tw),
         NEW ts, NEW h, Taken(tq, ts, h), h \in Drops(i), h \notin Adds(i),
         NEW r, r.created = q.created, Twice(q, i) => HasSlot(r, i)
  PROVE  Listed(i, r, b, ts, tw)
  <1>1. /\ Absent(tq, Adds(i)) /\ Absent(ts, Adds(i)) /\ Absent(ts, Drops(i))
        /\ ~Absent(tq, Drops(i)) /\ Single(ts, Drops(i)) /\ Before(ts, Adds(i), Drops(i))
    BY DEF Taken, Listed
  <1>2. Twice(q, i) /\ ~b.listed
    BY <1>1 DEF Listed
  <1> QED
    BY <1>1, <1>2 DEF Listed

\* The queue is updated.
LEMMA ListedUpdated ==
  ASSUME NEW i \in Int, NEW q, NEW b, NEW tq, NEW tw, Listed(i, q, b, tq, tw), q.created \in Nat,
         NEW r, NEW ms, Updated(q, r, ms), NEW rs, Sent(tw, ms, rs)
  PROVE  Listed(i, r, b, tq, rs)
  <1>1. (HasSlot(q, i) => HasSlot(r, i)) /\ (Twice(q, i) => Twice(r, i))
    BY DEF Updated, Grows
  <1>2. CASE r.created = q.created /\ Absent(ms, AllCreates)
    <2>1. Absent(ms, Creates(i))
      BY <1>2 DEF Absent, AllCreates, Creates
    <2>2. Single(rs, Creates(i)) /\ (Absent(rs, Creates(i)) <=> Absent(tw, Creates(i)))
      BY <2>1 DEF Sent, Listed
    <2> QED
      BY <1>1, <1>2, <2>2 DEF Listed
  <1>3. CASE /\ r.created = q.created + 1 /\ HasSlot(r, r.created)
             /\ Single(ms, AllCreates) /\ ~Absent(ms, Creates(r.created))
             /\ \A j : j # r.created => Absent(ms, Creates(j))
    <2>1. Single(ms, Creates(i))
      BY <1>3 DEF Single, AllCreates, Creates
    <2>2. CASE i = r.created
      <3>1. i > q.created /\ ~(i > r.created)
        BY <1>3, <2>2
      <3>2. Absent(tw, Creates(i)) /\ b.status = "none" /\ Absent(tq, Adds(i)) /\ Absent(tq, Drops(i))
        BY <3>1 DEF Listed
      <3>3. Single(rs, Creates(i))
        BY <2>1, <3>2 DEF Sent
      <3> QED
        BY <1>1, <1>3, <2>2, <3>1, <3>2, <3>3 DEF Listed
    <2>3. CASE i # r.created
      <3>1. (i > r.created => i > q.created) /\ (i <= r.created => i <= q.created)
        BY <1>3, <2>3
      <3>2. Single(rs, Creates(i)) /\ (Absent(rs, Creates(i)) <=> Absent(tw, Creates(i)))
        BY <1>3, <2>3 DEF Sent, Listed
      <3> QED
        BY <1>1, <3>1, <3>2 DEF Listed
    <2> QED
      BY <2>2, <2>3
  <1> QED
    BY <1>2, <1>3 DEF Updated, Created

-----------------------------------------------------------------------------
(***************************************************************************)
(* The types, and the listing, as an invariant.                            *)
(***************************************************************************)
PlayersOk ==
    /\ where \in [Players -> Places] /\ slot \in [Players -> BOOLEAN]
    /\ invite \in [Players -> 0 .. MaxInstances] /\ at \in [Players -> 0 .. MaxInstances]
    /\ timers \in [Players -> SUBSET [bg : Battlegrounds, id : 1 .. MaxJoins]]
    /\ bgs \in [Battlegrounds -> Instance]

TypeInv ==
    /\ PlayersOk /\ QueueOk(queue) /\ toWorld \in Seq(ToWorld) /\ toQueue \in Seq(ToQueue)
    /\ queue.joined + Cardinality(JoinsIn(toQueue)) <= MaxJoins

ListingInv == \A i \in Battlegrounds : Listed(i, queue, bgs[i], toQueue, toWorld)

Inv == TypeInv /\ ListingInv

\* What the world may tell of a battleground that was b and is c now.
Listing(i, b, c, ns) ==
    \/ Absent(ns, Adds(i)) /\ Absent(ns, Drops(i)) /\ SameListing(b, c)
    \/ /\ ~b.listed /\ b.status \in Joinable /\ c.listed = TRUE /\ c.status = b.status
       /\ ~Absent(ns, Adds(i)) /\ Absent(ns, Drops(i))
    \/ /\ b.status # "none" /\ c.listed = FALSE /\ c.status \notin Joinable
       /\ Absent(ns, Adds(i)) /\ Single(ns, Drops(i)) /\ (~Absent(ns, Drops(i)) => b.listed)

SameCreates(tw, rs) ==
    \A i : /\ Absent(rs, Creates(i)) <=> Absent(tw, Creates(i))
           /\ Single(tw, Creates(i)) => Single(rs, Creates(i))

LEMMA SameCreatesAre ==
  ASSUME NEW tw, NEW rs
  PROVE  /\ rs = tw => SameCreates(tw, rs)
         /\ \A h : Taken(tw, rs, h) /\ h.type # "Create" => SameCreates(tw, rs)
         /\ \A ms : Sent(tw, ms, rs) /\ (\A i : Absent(ms, Creates(i))) => SameCreates(tw, rs)
  <1>1. ASSUME NEW h, Taken(tw, rs, h), h.type # "Create" PROVE SameCreates(tw, rs)
    <2>1. \A i : h \notin Creates(i)
      BY <1>1 DEF Creates
    <2> QED
      BY <1>1, <2>1 DEF Taken, SameCreates
  <1>2. ASSUME NEW ms, Sent(tw, ms, rs), \A i : Absent(ms, Creates(i)) PROVE SameCreates(tw, rs)
    BY <1>2 DEF Sent, SameCreates
  <1>3. rs = tw => SameCreates(tw, rs)
    BY DEF SameCreates
  <1> QED
    BY <1>1, <1>2, <1>3

LEMMA ListedSpoken ==
  ASSUME NEW i, NEW q, NEW b, NEW tq, NEW tw, Listed(i, q, b, tq, tw),
         NEW c, NEW ns, Listing(i, b, c, ns), NEW rs, Sent(tq, ns, rs),
         NEW ts, SameCreates(tw, ts)
  PROVE  Listed(i, q, c, rs, ts)
  <1>1. Listed(i, q, c, rs, tw)
    <2>1. CASE Absent(ns, Adds(i)) /\ Absent(ns, Drops(i)) /\ SameListing(b, c)
      <3>1. /\ Absent(rs, Adds(i)) <=> Absent(tq, Adds(i))
            /\ Absent(rs, Drops(i)) <=> Absent(tq, Drops(i))
            /\ Single(rs, Drops(i)) /\ Before(rs, Adds(i), Drops(i))
        BY <2>1 DEF Sent, Listed
      <3> QED
        BY <2>1, <3>1 DEF Listed, SameListing
    <2>2. CASE /\ ~b.listed /\ b.status \in Joinable /\ c.listed = TRUE /\ c.status = b.status
               /\ ~Absent(ns, Adds(i)) /\ Absent(ns, Drops(i))
      BY <2>2, ListedAdded, Zenon
    <2>3. CASE /\ b.status # "none" /\ c.listed = FALSE /\ c.status \notin Joinable
               /\ Absent(ns, Adds(i)) /\ Single(ns, Drops(i)) /\ (~Absent(ns, Drops(i)) => b.listed)
      BY <2>3, ListedDropped, Zenon
    <2> QED
      BY <2>1, <2>2, <2>3, Zenon DEF Listing
  <1> QED
    BY <1>1 DEF Listed, SameCreates

\* A step of the world.
LEMMA WorldStep ==
  ASSUME Inv, PlayersOk', UNCHANGED queue, NEW ns \in Seq(ToQueue), toQueue' = toQueue \o ns,
         \A k \in DOMAIN ns : ns[k].type # "Join",
         \A i \in Battlegrounds : Listing(i, bgs[i], bgs'[i], ns),
         toWorld' \in Seq(ToWorld), SameCreates(toWorld, toWorld')
  PROVE  Inv'
  <1>1. toQueue \in Seq(ToQueue) /\ QueueOk(queue)
    BY DEF Inv, TypeInv
  <1>2. PICK rs : rs = toQueue \o ns
    BY Zenon
  <1>3. rs \in Seq(ToQueue) /\ Sent(toQueue, ns, rs)
    BY <1>1, <1>2, SentIs, Zenon
  <1>4. JoinsIn(rs) = JoinsIn(toQueue)
    BY <1>1, <1>2, JoinsSent, Zenon
  <1>5. TypeInv'
    BY <1>1, <1>2, <1>3, <1>4 DEF Inv, TypeInv
  <1>6. ASSUME NEW i \in Battlegrounds PROVE Listed(i, queue', bgs'[i], toQueue', toWorld')
    <2>1. Listed(i, queue, bgs[i], toQueue, toWorld)
      BY DEF Inv, ListingInv
    <2> QED
      BY <1>2, <1>3, <2>1, ListedSpoken
  <1> QED
    BY <1>5, <1>6 DEF Inv, ListingInv

\* A step of the world that tells the queue nothing and changes no battleground.
LEMMA SilentStep ==
  ASSUME Inv, PlayersOk', UNCHANGED <<queue, toQueue>>,
         \A i \in Battlegrounds : SameListing(bgs[i], bgs'[i]),
         toWorld' \in Seq(ToWorld), SameCreates(toWorld, toWorld')
  PROVE  Inv'
  <1>1. PICK ns : ns = << >>
    OBVIOUS
  <1>2. toQueue \in Seq(ToQueue)
    BY DEF Inv, TypeInv
  <1>3. << >> \in Seq(ToQueue) /\ \A k \in DOMAIN << >> : FALSE
    OBVIOUS
  <1>4. toQueue \o << >> = toQueue
    BY <1>2
  <1>5. \A i \in Battlegrounds : Listing(i, bgs[i], bgs'[i], ns)
    BY <1>1, NoneIs, Zenon DEF Listing
  <1> QED
    BY <1>1, <1>3, <1>4, <1>5, WorldStep, Zenon

\* A step of the queue, for everything but the entries.
LEMMA QueueStep ==
  ASSUME Inv, NEW type, OnQueue(type), QueueOk(queue'),
         \/ queue'.joined = queue.joined
         \/ type = "Join" /\ queue'.joined = queue.joined + 1,
         toWorld' \in Seq(ToWorld)
  PROVE  /\ TypeInv' /\ bgs' = bgs /\ toQueue' \in Seq(ToQueue) /\ Head(toQueue) \in ToQueue
         /\ Head(toQueue).type = type /\ Taken(toQueue, toQueue', Head(toQueue))
  <1>1. /\ toQueue \in Seq(ToQueue) /\ toQueue # << >> /\ Head(toQueue).type = type
        /\ toQueue' = Tail(toQueue) /\ UNCHANGED <<where, slot, invite, at, timers, bgs>>
    BY DEF Inv, TypeInv, OnQueue
  <1>2. toQueue' \in Seq(ToQueue) /\ Head(toQueue) \in ToQueue /\ Taken(toQueue, toQueue', Head(toQueue))
    BY <1>1, TakenIs, Zenon
  <1>3. PlayersOk'
    BY <1>1 DEF PlayersOk, Inv, TypeInv
  <1>4. /\ Cardinality(JoinsIn(toQueue')) <= Cardinality(JoinsIn(toQueue))
        /\ type = "Join" => Cardinality(JoinsIn(toQueue')) + 1 <= Cardinality(JoinsIn(toQueue))
        /\ Cardinality(JoinsIn(toQueue)) \in Nat /\ Cardinality(JoinsIn(toQueue')) \in Nat
    BY <1>1, <1>2, JoinTaken, JoinsAre, Zenon
  <1>5. queue.joined + Cardinality(JoinsIn(toQueue)) <= MaxJoins /\ queue.joined \in Nat /\ MaxJoins \in Nat
    BY QueueTypes, Numbers DEF Inv, TypeInv
  <1>6. (queue.joined + Cardinality(JoinsIn(toQueue)) <= MaxJoins)'
    BY <1>4, <1>5
  <1> QED
    BY <1>1, <1>2, <1>3, <1>6 DEF TypeInv

-----------------------------------------------------------------------------
(***************************************************************************)
(* The steps of the players and of the battlegrounds.                      *)
(***************************************************************************)
FewerInvited(b, gone) ==
    [s \in Sides |-> (b.invited[s] - Cardinality({p \in gone \cap b.players : Team[p] = s})) % Width]

LEMMA RemainingIs ==
  ASSUME PlayersOk, NEW i \in Battlegrounds, NEW gone \in SUBSET Players,
         NEW c, c = Remaining(i, gone)
  PROVE  /\ c \in Instance /\ c.status = bgs[i].status /\ c.players = bgs[i].players \ gone
         /\ c.listed \in BOOLEAN
         /\ c.listed <=> bgs[i].listed \/ (bgs[i].status \in Joinable /\ gone \cap bgs[i].players # {})
         /\ c.invited = FewerInvited(bgs[i], gone)
  <1>1. PICK b \in Instance : b = bgs[i]
    BY DEF PlayersOk
  <1>2. PICK v : v = FewerInvited(b, gone)
    OBVIOUS
  <1>3. v \in Counters
    <2>1. ASSUME NEW s \in Sides
          PROVE  (b.invited[s] - Cardinality({p \in gone \cap b.players : Team[p] = s})) % Width
                    \in 0 .. Width - 1
      <3>1. IsFiniteSet({p \in gone \cap b.players : Team[p] = s})
        <4>1. {p \in gone \cap b.players : Team[p] = s} \subseteq Players
          OBVIOUS
        <4> QED
          BY <4>1, TeamAssumption, FS_Subset
      <3>2. PICK n \in Nat : n = Cardinality({p \in gone \cap b.players : Team[p] = s})
        BY <3>1, FS_CardinalityType, Zenon
      <3>3. b.invited[s] \in Int
        BY <1>1, Numbers DEF Instance, Counters
      <3>4. b.invited[s] - n \in Int
        BY <3>3
      <3> QED
        BY <3>2, <3>4, Numbers
    <2> QED
      BY <1>2, <2>1 DEF Counters, FewerInvited
  <1>4. PICK l \in BOOLEAN : l = (b.listed \/ (b.status \in Joinable /\ gone \cap b.players # {}))
    BY Zenon
  <1>5. c = [b EXCEPT !.players = b.players \ gone, !.invited = v, !.listed = l]
    BY <1>1, <1>2, <1>4, ZenonT(40) DEF Remaining, FewerInvited
  <1>6. b = [status |-> b.status, invited |-> b.invited, listed |-> b.listed, players |-> b.players]
        /\ b.status \in Statuses /\ b.players \in SUBSET Players
    BY <1>1 DEF Instance
  <1>7. c = [status |-> b.status, invited |-> v, listed |-> l, players |-> b.players \ gone]
    BY <1>5, <1>6, Zenon
  <1>8. c \in Instance /\ c.status = b.status /\ c.players = b.players \ gone /\ c.listed = l
        /\ c.invited = v
    BY <1>3, <1>6, <1>7 DEF Instance
  <1>9. c.listed <=> bgs[i].listed \/ (bgs[i].status \in Joinable /\ gone \cap bgs[i].players # {})
    BY <1>1, <1>4, <1>8, ZenonT(40)
  <1> QED
    BY <1>1, <1>2, <1>4, <1>8, <1>9, ZenonT(40)

LEMMA UnlistedRemainingIs ==
  ASSUME PlayersOk, NEW i \in Battlegrounds, NEW gone \in SUBSET Players,
         NEW c, c = Remaining(i, gone)
  PROVE  /\ c \in Instance /\ c.status = bgs[i].status
         /\ bgs[i].status \notin Joinable => c.listed = bgs[i].listed
  <1>1. bgs[i].listed \in BOOLEAN
    BY DEF PlayersOk, Instance
  <1>2. c \in Instance /\ c.status = bgs[i].status
    BY RemainingIs
  <1>3. /\ c.listed \in BOOLEAN
        /\ c.listed <=> bgs[i].listed \/ (bgs[i].status \in Joinable /\ gone \cap bgs[i].players # {})
    BY RemainingIs
  <1> QED
    BY <1>1, <1>2, <1>3

LEMMA LeaveIs ==
  ASSUME PlayersOk, NEW i \in Battlegrounds, NEW p \in Players,
         NEW c, c = Remaining(i, {p}), NEW ms, ms = LeaveMessages(p, i)
  PROVE  /\ ms \in Seq(ToQueue) /\ \A k \in DOMAIN ms : ms[k].type \in {"Decrease", "FreeAdd"}
         /\ \A j \in Battlegrounds : Listing(j, bgs[j], [bgs EXCEPT ![i] = c][j], ms)
  <1>0. PICK b \in Instance : b = bgs[i]
    BY DEF PlayersOk
  <1>1. /\ c \in Instance /\ c.status = b.status
        /\ c.listed <=> b.listed \/ (b.status \in Joinable /\ {p} \cap b.players # {})
    <2>1. {p} \in SUBSET Players
      OBVIOUS
    <2> QED
      BY <1>0, <2>1, RemainingIs
  <1>2. b.listed \in BOOLEAN /\ b.status \in Statuses /\ c.invited \in Counters /\ c.listed \in BOOLEAN
    BY <1>0, <1>1 DEF Instance
  <1>3. TookPart(p, i) <=> {p} \cap b.players # {}
    BY <1>0 DEF TookPart
  <1>4. CASE ~TookPart(p, i) \/ b.status \notin Joinable
    <2>1. ms = << >> /\ SameListing(b, c)
      BY <1>0, <1>1, <1>2, <1>3, <1>4 DEF LeaveMessages, SameListing
    <2>2. << >> \in Seq(ToQueue) /\ \A k \in DOMAIN << >> : FALSE
      OBVIOUS
    <2>3. \A j \in Battlegrounds : SameListing(bgs[j], [bgs EXCEPT ![i] = c][j])
      BY <1>0, <2>1, SameListingIs DEF PlayersOk
    <2> QED
      BY <2>1, <2>2, <2>3, NoneIs, Zenon DEF Listing
  <1>5. CASE TookPart(p, i) /\ b.status \in Joinable /\ b.listed
    <2>1. PICK m : m = [type |-> "Decrease", bg |-> i, side |-> Team[p]]
      BY Zenon
    <2>2. ms = <<m>> /\ SameListing(b, c)
      BY <1>0, <1>1, <1>2, <1>5, <2>1, Zenon DEF LeaveMessages, SameListing
    <2>3. m \in ToQueue /\ m.type = "Decrease"
      BY <2>1, TeamAssumption DEF ToQueue
    <2>4. \A j : m \notin Adds(j) /\ m \notin Drops(j)
      BY <2>3 DEF Adds, Drops
    <2>5. \A j \in Battlegrounds : SameListing(bgs[j], [bgs EXCEPT ![i] = c][j])
      BY <1>0, <2>2, SameListingIs DEF PlayersOk
    <2>6. <<m>> \in Seq(ToQueue) /\ \A k \in DOMAIN <<m>> : <<m>>[k] = m
      BY <2>3
    <2> QED
      BY <2>2, <2>3, <2>4, <2>5, <2>6, OneIs DEF Listing
  <1>6. CASE TookPart(p, i) /\ b.status \in Joinable /\ ~b.listed
    <2>1. PICK e : e = [bg |-> i, status |-> b.status, invited |-> c.invited]
      BY Zenon
    <2>2. PICK m : m = [type |-> "FreeAdd", entry |-> e]
      BY Zenon
    <2>3. ms = <<m>>
      BY <1>0, <1>6, <2>1, <2>2, ZenonT(40) DEF LeaveMessages
    <2>4. m \in ToQueue /\ m.type = "FreeAdd" /\ m.entry = e /\ e.bg = i
      BY <1>2, <2>1, <2>2 DEF ToQueue, Slots
    <2>5. m \in Adds(i) /\ \A j : m \notin Drops(j) /\ (j # i => m \notin Adds(j))
      BY <2>4 DEF Adds, Drops
    <2>6. c.listed = TRUE
      BY <1>1, <1>2, <1>3, <1>6
    <2>7. <<m>> \in Seq(ToQueue) /\ \A k \in DOMAIN <<m>> : <<m>>[k] = m
      BY <2>4
    <2>8. ASSUME NEW j \in Battlegrounds PROVE Listing(j, bgs[j], [bgs EXCEPT ![i] = c][j], ms)
      <3>1. CASE j = i
        <4>1. [bgs EXCEPT ![i] = c][j] = c /\ bgs[j] = b
          BY <1>0, <3>1 DEF PlayersOk
        <4> QED
          BY <1>1, <1>6, <2>3, <2>5, <2>6, <3>1, <4>1, OneIs DEF Listing
      <3>2. CASE j # i
        <4>1. [bgs EXCEPT ![i] = c][j] = bgs[j]
          BY <3>2 DEF PlayersOk
        <4> QED
          BY <2>3, <2>5, <3>2, <4>1, OneIs, SameListingIs DEF Listing
      <3> QED
        BY <3>1, <3>2
    <2> QED
      BY <2>3, <2>4, <2>7, <2>8
  <1> QED
    BY <1>2, <1>4, <1>5, <1>6, Zenon

LEMMA SlotsGivenUp ==
  ASSUME PlayersOk, NEW gone, GivesUpSlots(gone)
  PROVE  slot' \in [Players -> BOOLEAN] /\ invite' \in [Players -> 0 .. MaxInstances]
  <1>1. slot' \in [Players -> BOOLEAN]
    BY DEF GivesUpSlots, PlayersOk
  <1>2. invite' \in [Players -> 0 .. MaxInstances]
    BY Numbers DEF GivesUpSlots, PlayersOk
  <1> QED
    BY <1>1, <1>2

LEMMA BgIs ==
  ASSUME PlayersOk, NEW p \in Players, Exists(at[p])
  PROVE  at[p] \in Battlegrounds /\ bgs[at[p]].status # "none"
  <1>1. at[p] \in 0 .. MaxInstances /\ at[p] # 0
    BY DEF PlayersOk, Exists
  <1> QED
    BY <1>1, Numbers DEF Exists, Battlegrounds

LEMMA OneBgChanged ==
  ASSUME PlayersOk, NEW i \in Battlegrounds, NEW c, SameListing(bgs[i], c), NEW d,
         d = [bgs EXCEPT ![i] = c]
  PROVE  \A j \in Battlegrounds : SameListing(bgs[j], d[j])
  BY SameListingIs DEF PlayersOk

LEMMA JoinStep ==
  ASSUME Inv, NEW party \in Parties, Join(party)
  PROVE  Inv'
  <1>1. PICK m : m = [type |-> "Join", players |-> party]
    BY Zenon
  <1>2. /\ m \in ToQueue /\ m.type = "Join" /\ toQueue' = toQueue \o <<m>>
        /\ UNCHANGED <<playerVars, bgs, queue, toWorld>>
        /\ queue.joined + Cardinality(JoinsIn(toQueue)) < MaxJoins
    BY <1>1 DEF Join, Tell, ToQueue, JoinsUnderWay, JoinsIn
  <1>3. <<m>> \in Seq(ToQueue) /\ Len(<<m>>) = 1
    BY <1>2
  <1>4. toQueue \in Seq(ToQueue) /\ QueueOk(queue)
    BY DEF Inv, TypeInv
  <1>5. /\ toQueue' \in Seq(ToQueue) /\ Sent(toQueue, <<m>>, toQueue')
        /\ Cardinality(JoinsIn(toQueue')) <= Cardinality(JoinsIn(toQueue)) + 1
    BY <1>2, <1>3, <1>4, SentIs, JoinsSent, Zenon
  <1>6. /\ Cardinality(JoinsIn(toQueue)) \in Nat /\ Cardinality(JoinsIn(toQueue')) \in Nat
        /\ queue.joined \in Nat /\ MaxJoins \in Nat
    BY <1>4, <1>5, JoinsAre, QueueTypes, Numbers
  <1>7. queue'.joined + Cardinality(JoinsIn(toQueue')) <= MaxJoins
    BY <1>2, <1>5, <1>6
  <1>8. TypeInv'
    BY <1>2, <1>5, <1>7 DEF Inv, TypeInv, PlayersOk, playerVars
  <1>9. Plain(<<m>>)
    <2>1. \A i : m \notin Adds(i) /\ m \notin Drops(i)
      BY <1>2 DEF Adds, Drops
    <2> QED
      BY <2>1, OneIs DEF Plain
  <1>10. ListingInv'
    BY <1>2, <1>5, <1>9, ListedTold, SameListingIs, Zenon DEF Inv, ListingInv
  <1> QED
    BY <1>8, <1>10 DEF Inv

\* A step that tells the queue one message, not about the entries.
LEMMA OneToldStep ==
  ASSUME Inv, PlayersOk', UNCHANGED queue, NEW m \in ToQueue, toQueue' = toQueue \o <<m>>,
         m.type \notin {"Join", "FreeAdd", "FreeRemove"},
         \A i \in Battlegrounds : SameListing(bgs[i], bgs'[i]),
         toWorld' \in Seq(ToWorld), SameCreates(toWorld, toWorld')
  PROVE  Inv'
  <1>1. <<m>> \in Seq(ToQueue) /\ \A k \in DOMAIN <<m>> : <<m>>[k].type # "Join"
    OBVIOUS
  <1>2. \A i : m \notin Adds(i) /\ m \notin Drops(i)
    BY DEF Adds, Drops
  <1>3. \A i \in Battlegrounds : Listing(i, bgs[i], bgs'[i], <<m>>)
    BY <1>2, OneIs DEF Listing
  <1> QED
    BY <1>1, <1>3, WorldStep, Zenon

LEMMA PortStep ==
  ASSUME Inv, NEW p \in Players, NEW enter \in BOOLEAN, Port(p, enter)
  PROVE  Inv'
  <1>1. PICK m : m = [type |-> "Port", player |-> p, enter |-> enter]
    BY Zenon
  <1>2. m \in ToQueue /\ m.type = "Port"
    BY <1>1 DEF ToQueue
  <1>3. toQueue' = toQueue \o <<m>> /\ UNCHANGED <<playerVars, bgs, queue, toWorld>>
    BY <1>1 DEF Port, Tell
  <1>4. PlayersOk'
    BY <1>3 DEF Inv, TypeInv, PlayersOk, playerVars
  <1>5. \A i \in Battlegrounds : SameListing(bgs[i], bgs'[i])
    BY <1>3, SameListingIs
  <1>6. toWorld' \in Seq(ToWorld) /\ SameCreates(toWorld, toWorld')
    BY <1>3, SameCreatesAre DEF Inv, TypeInv
  <1> QED
    BY <1>2, <1>3, <1>4, <1>5, <1>6, OneToldStep, Zenon

LEMMA LogoutStep ==
  ASSUME Inv, NEW p \in Players, Logout(p)
  PROVE  Inv'
  <1>0. PlayersOk
    BY DEF Inv, TypeInv
  <1>1. /\ bgs' = IF Exists(at[p]) THEN [bgs EXCEPT ![at[p]].players = @ \cup {p}] ELSE bgs
        /\ where' = [where EXCEPT ![p] = "offline"] /\ timers' = [timers EXCEPT ![p] = {}]
        /\ GivesUpSlots({p}) /\ UNCHANGED <<queue, toWorld>>
        /\ at' = [at EXCEPT ![p] =
                    IF where[p] = "away" \/ (where[p] = "to_bg" /\ ~Exists(at[p])) THEN 0 ELSE at[p]]
    BY DEF Logout
  <1>2. slot' \in [Players -> BOOLEAN] /\ invite' \in [Players -> 0 .. MaxInstances]
    BY <1>0, <1>1, SlotsGivenUp
  <1>3. at' \in [Players -> 0 .. MaxInstances]
    BY <1>0, <1>1, Numbers DEF PlayersOk
  <1>4. /\ bgs' \in [Battlegrounds -> Instance]
        /\ \A i \in Battlegrounds : SameListing(bgs[i], bgs'[i])
    <2>1. CASE Exists(at[p])
      <3>1. PICK i \in Battlegrounds : i = at[p]
        BY <1>0, <2>1, BgIs
      <3>2. PICK c : c = [bgs[i] EXCEPT !.players = bgs[i].players \cup {p}]
        BY Zenon
      <3>3. bgs' = [bgs EXCEPT ![i] = c]
        BY <1>1, <2>1, <3>1, <3>2, ZenonT(40)
      <3>4. bgs[i] \in Instance
        BY <1>0 DEF PlayersOk
      <3>5. c \in Instance /\ SameListing(bgs[i], c)
        BY <3>2, <3>4 DEF Instance, SameListing
      <3> QED
        BY <1>0, <3>3, <3>5, OneBgChanged DEF PlayersOk
    <2>2. CASE ~Exists(at[p])
      BY <1>0, <1>1, <2>2, SameListingIs DEF PlayersOk
    <2> QED
      BY <2>1, <2>2
  <1>5. PlayersOk'
    BY <1>0, <1>1, <1>2, <1>3, <1>4 DEF PlayersOk, Places
  <1>6. toWorld' \in Seq(ToWorld) /\ SameCreates(toWorld, toWorld')
    BY <1>1, SameCreatesAre DEF Inv, TypeInv
  <1>7. CASE slot[p]
    <2>1. PICK m : m = [type |-> "Remove", player |-> p]
      BY Zenon
    <2>2. m \in ToQueue /\ m.type = "Remove"
      BY <2>1 DEF ToQueue
    <2>3. toQueue' = toQueue \o <<m>>
      BY <1>7, <2>1 DEF Logout, Tell
    <2> QED
      BY <1>1, <1>4, <1>5, <1>6, <2>2, <2>3, OneToldStep, Zenon
  <1>8. CASE ~slot[p]
    <2>1. toQueue' = toQueue \o << >> /\ toQueue \in Seq(ToQueue)
      BY <1>8 DEF Logout, Tell, Inv, TypeInv
    <2>2. toQueue' = toQueue
      BY <2>1
    <2> QED
      BY <1>1, <1>4, <1>5, <1>6, <2>2, SilentStep, Zenon
  <1> QED
    BY <1>7, <1>8

LEMMA LoginStep ==
  ASSUME Inv, NEW p \in Players, Login(p)
  PROVE  Inv'
  <1>0. PlayersOk
    BY DEF Inv, TypeInv
  <1> DEFINE member == Exists(at[p]) /\ TookPart(p, at[p])
             stays == member /\ bgs[at[p]].status # "wait_leave"
  <1>1. /\ where' = [where EXCEPT ![p] = "world"] /\ slot' = [slot EXCEPT ![p] = stays]
        /\ invite' = [invite EXCEPT ![p] = IF stays THEN at[p] ELSE 0]
        /\ at' = [at EXCEPT ![p] = IF stays THEN at[p] ELSE 0]
        /\ bgs' = IF member /\ ~stays THEN [bgs EXCEPT ![at[p]] = Remaining(at[p], {p})] ELSE bgs
        /\ UNCHANGED <<timers, queue, toWorld, toQueue>>
    BY DEF Login
  <1>2. stays \in BOOLEAN
    OBVIOUS
  <1>3. /\ bgs' \in [Battlegrounds -> Instance]
        /\ \A i \in Battlegrounds : SameListing(bgs[i], bgs'[i])
    <2>1. CASE member /\ ~stays
      <3>1. PICK i \in Battlegrounds : i = at[p]
        BY <1>0, <2>1, BgIs
      <3>2. PICK c : c = Remaining(i, {p})
        OBVIOUS
      <3>3. bgs' = [bgs EXCEPT ![i] = c]
        BY <1>1, <2>1, <3>1, <3>2
      <3>4. bgs[i].status \notin Joinable
        BY <2>1, <3>1 DEF Joinable
      <3>9. {p} \in SUBSET Players
        OBVIOUS
      <3>5. c \in Instance /\ c.status = bgs[i].status
        BY <1>0, <3>2, <3>9, UnlistedRemainingIs
      <3>6. c.listed = bgs[i].listed
        BY <1>0, <3>2, <3>4, <3>9, UnlistedRemainingIs
      <3>7. SameListing(bgs[i], c)
        BY <3>5, <3>6 DEF SameListing
      <3> QED
        BY <1>0, <3>3, <3>5, <3>7, OneBgChanged DEF PlayersOk
    <2>2. CASE ~(member /\ ~stays)
      BY <1>0, <1>1, <2>2, SameListingIs DEF PlayersOk
    <2> QED
      BY <2>1, <2>2
  <1> HIDE DEF stays, member
  <1>4. PlayersOk'
    BY <1>0, <1>1, <1>2, <1>3, Numbers DEF PlayersOk, Places
  <1>5. toWorld' \in Seq(ToWorld) /\ SameCreates(toWorld, toWorld')
    BY <1>1, SameCreatesAre DEF Inv, TypeInv
  <1> QED
    BY <1>1, <1>3, <1>4, <1>5, SilentStep, Zenon

\* Out of the battleground i: by the way home, or five minutes offline.
LEMMA LeaveStep ==
  ASSUME Inv, NEW i \in Battlegrounds, NEW p \in Players,
         bgs' = [bgs EXCEPT ![i] = Remaining(i, {p})], Tell(LeaveMessages(p, i)),
         where' \in [Players -> Places], slot' \in [Players -> BOOLEAN],
         invite' \in [Players -> 0 .. MaxInstances], at' \in [Players -> 0 .. MaxInstances],
         UNCHANGED <<timers, queue>>, toWorld' \in Seq(ToWorld), SameCreates(toWorld, toWorld')
  PROVE  Inv'
  <1>0. PlayersOk
    BY DEF Inv, TypeInv
  <1>1. PICK c : c = Remaining(i, {p})
    OBVIOUS
  <1>2. PICK ms : ms = LeaveMessages(p, i)
    OBVIOUS
  <1>3. /\ ms \in Seq(ToQueue) /\ \A k \in DOMAIN ms : ms[k].type \in {"Decrease", "FreeAdd"}
        /\ \A j \in Battlegrounds : Listing(j, bgs[j], [bgs EXCEPT ![i] = c][j], ms)
    BY <1>0, <1>1, <1>2, LeaveIs, SMTT(60)
  <1>4. {p} \in SUBSET Players
    OBVIOUS
  <1>5. c \in Instance
    BY <1>0, <1>1, <1>4, RemainingIs
  <1>6. bgs' = [bgs EXCEPT ![i] = c] /\ toQueue' = toQueue \o ms
    BY <1>1, <1>2 DEF Tell
  <1>7. PlayersOk'
    BY <1>0, <1>5, <1>6 DEF PlayersOk
  <1>8. \A k \in DOMAIN ms : ms[k].type # "Join"
    BY <1>3, Zenon
  <1> QED
    BY <1>3, <1>6, <1>7, <1>8, WorldStep, Zenon

LEMMA ChangeMapStep ==
  ASSUME Inv, NEW p \in Players, ChangeMap(p)
  PROVE  Inv'
  <1>0. PlayersOk
    BY DEF Inv, TypeInv
  <1>1. /\ where' = [where EXCEPT ![p] = "away"] /\ UNCHANGED <<timers, queue, toWorld>>
        /\ IF Exists(at[p])
             THEN /\ GivesUpSlots(IF TookPart(p, at[p]) THEN {p} ELSE {})
                  /\ at' = [at EXCEPT ![p] = 0]
                  /\ bgs' = [bgs EXCEPT ![at[p]] = Remaining(at[p], {p})]
                  /\ Tell(LeaveMessages(p, at[p]))
             ELSE UNCHANGED <<slot, invite, at, bgs, toQueue>>
    BY DEF ChangeMap
  <1>2. where' \in [Players -> Places]
    BY <1>0, <1>1 DEF PlayersOk, Places
  <1>3. toWorld' \in Seq(ToWorld) /\ SameCreates(toWorld, toWorld')
    BY <1>1, SameCreatesAre DEF Inv, TypeInv
  <1>4. CASE Exists(at[p])
    <2>1. PICK i \in Battlegrounds : i = at[p]
      BY <1>0, <1>4, BgIs
    <2>2. slot' \in [Players -> BOOLEAN] /\ invite' \in [Players -> 0 .. MaxInstances]
      BY <1>0, <1>1, <1>4, SlotsGivenUp
    <2>3. at' \in [Players -> 0 .. MaxInstances]
      BY <1>0, <1>1, <1>4, Numbers DEF PlayersOk
    <2>4. bgs' = [bgs EXCEPT ![i] = Remaining(i, {p})] /\ Tell(LeaveMessages(p, i))
      BY <1>1, <1>4, <2>1
    <2> QED
      BY <1>1, <1>2, <1>3, <2>2, <2>3, <2>4, LeaveStep, Zenon
  <1>5. CASE ~Exists(at[p])
    <2>1. UNCHANGED <<slot, invite, at, bgs, toQueue>>
      BY <1>1, <1>5
    <2>2. PlayersOk'
      BY <1>0, <1>1, <1>2, <2>1 DEF PlayersOk
    <2>3. \A i \in Battlegrounds : SameListing(bgs[i], bgs'[i])
      BY <2>1, SameListingIs
    <2> QED
      BY <1>1, <1>3, <2>1, <2>2, <2>3, SilentStep
  <1> QED
    BY <1>4, <1>5

LEMMA ArriveStep ==
  ASSUME Inv, NEW p \in Players, Arrive(p)
  PROVE  Inv'
  <1>0. PlayersOk
    BY DEF Inv, TypeInv
  <1>1. /\ UNCHANGED <<slot, invite, timers, queue, toWorld, toQueue>>
        /\ where' \in [Players -> Places] /\ at' \in [Players -> 0 .. MaxInstances]
        /\ \/ bgs' = bgs
           \/ Exists(at[p]) /\ bgs' = [bgs EXCEPT ![at[p]].players = @ \cup {p}]
    BY <1>0, Numbers DEF Arrive, PlayersOk, Places
  <1>2. toWorld' \in Seq(ToWorld) /\ SameCreates(toWorld, toWorld')
    BY <1>1, SameCreatesAre DEF Inv, TypeInv
  <1>3. /\ bgs' \in [Battlegrounds -> Instance]
        /\ \A i \in Battlegrounds : SameListing(bgs[i], bgs'[i])
    <2>1. CASE bgs' = bgs
      BY <1>0, <2>1, SameListingIs DEF PlayersOk
    <2>2. CASE Exists(at[p]) /\ bgs' = [bgs EXCEPT ![at[p]].players = @ \cup {p}]
      <3>1. PICK i \in Battlegrounds : i = at[p]
        BY <1>0, <2>2, BgIs
      <3>2. PICK c : c = [bgs[i] EXCEPT !.players = bgs[i].players \cup {p}]
        BY Zenon
      <3>3. bgs' = [bgs EXCEPT ![i] = c]
        BY <2>2, <3>1, <3>2, ZenonT(40)
      <3>4. bgs[i] \in Instance
        BY <1>0 DEF PlayersOk
      <3>5. c \in Instance /\ SameListing(bgs[i], c)
        BY <3>2, <3>4 DEF Instance, SameListing
      <3> QED
        BY <1>0, <3>3, <3>5, OneBgChanged DEF PlayersOk
    <2> QED
      BY <1>1, <2>1, <2>2
  <1>4. PlayersOk'
    BY <1>0, <1>1, <1>3 DEF PlayersOk
  <1> QED
    BY <1>1, <1>2, <1>3, <1>4, SilentStep

LEMMA RemoveEventStep ==
  ASSUME Inv, NEW p \in Players, RemoveEvent(p)
  PROVE  Inv'
  <1>0. PlayersOk
    BY DEF Inv, TypeInv
  <1>1. PICK t \in timers[p] :
          /\ timers' = [timers EXCEPT ![p] = @ \ {t}]
          /\ toWorld' = Append(toWorld, [type |-> "Timer", player |-> p, bg |-> t.bg, id |-> t.id])
    BY Zenon DEF RemoveEvent
  <1>2. UNCHANGED <<where, slot, invite, at, bgs, queue, toQueue>>
    BY DEF RemoveEvent
  <1>3. t.bg \in Battlegrounds /\ t.id \in 1 .. MaxJoins
    BY <1>0 DEF PlayersOk
  <1>4. PICK m : m = [type |-> "Timer", player |-> p, bg |-> t.bg, id |-> t.id]
    BY Zenon
  <1>5. m \in ToWorld /\ m.type = "Timer"
    BY <1>3, <1>4 DEF ToWorld
  <1>6. toWorld \in Seq(ToWorld)
    BY DEF Inv, TypeInv
  <1>7. toWorld' = toWorld \o <<m>> /\ <<m>> \in Seq(ToWorld)
    BY <1>1, <1>4, <1>5, <1>6
  <1>8. toWorld' \in Seq(ToWorld) /\ Sent(toWorld, <<m>>, toWorld')
    BY <1>6, <1>7, SentIs, Zenon
  <1>9. \A i : Absent(<<m>>, Creates(i))
    BY <1>5, OneIs DEF Creates
  <1>10. SameCreates(toWorld, toWorld')
    BY <1>8, <1>9, SameCreatesAre
  <1>11. PlayersOk'
    BY <1>0, <1>1, <1>2 DEF PlayersOk
  <1>12. \A i \in Battlegrounds : SameListing(bgs[i], bgs'[i])
    BY <1>2, SameListingIs
  <1> QED
    BY <1>2, <1>8, <1>10, <1>11, <1>12, SilentStep

LEMMA StartStep ==
  ASSUME Inv, NEW i \in Battlegrounds, Start(i)
  PROVE  Inv'
  <1>0. PlayersOk
    BY DEF Inv, TypeInv
  <1>1. PICK m : m = SetStatus(i, "in_progress")
    OBVIOUS
  <1>2. m \in ToQueue /\ m.type = "Status"
    BY <1>1 DEF SetStatus, ToQueue, Statuses, Joinable
  <1>3. /\ toQueue' = toQueue \o <<m>> /\ UNCHANGED <<playerVars, queue, toWorld>>
        /\ bgs' = [bgs EXCEPT ![i].status = "in_progress"] /\ bgs[i].status = "wait_join"
    BY <1>1 DEF Start, Tell
  <1>4. PICK c : c = [bgs[i] EXCEPT !.status = "in_progress"]
    BY Zenon
  <1>5. bgs' = [bgs EXCEPT ![i] = c]
    BY <1>3, <1>4, ZenonT(40)
  <1>6. bgs[i] \in Instance
    BY <1>0 DEF PlayersOk
  <1>7. c \in Instance /\ SameListing(bgs[i], c)
    BY <1>3, <1>4, <1>6, Zenon DEF Instance, SameListing, Statuses, Joinable
  <1>8. PlayersOk'
    BY <1>0, <1>3, <1>5, <1>7, Zenon DEF PlayersOk, playerVars
  <1>9. \A j \in Battlegrounds : SameListing(bgs[j], bgs'[j])
    BY <1>0, <1>5, <1>7, OneBgChanged, Zenon
  <1>10. toWorld' \in Seq(ToWorld) /\ SameCreates(toWorld, toWorld')
    BY <1>3, SameCreatesAre DEF Inv, TypeInv
  <1> QED
    BY <1>2, <1>3, <1>8, <1>9, <1>10, OneToldStep, Zenon

\* The end of the battleground i, or its deletion.
LEMMA DropStep ==
  ASSUME Inv, NEW i \in Battlegrounds, bgs[i].status # "none", UNCHANGED <<playerVars, queue, toWorld>>,
         NEW c \in Instance, c.listed = FALSE, c.status \notin Joinable, bgs' = [bgs EXCEPT ![i] = c],
         NEW ms \in Seq(ToQueue), \A k \in DOMAIN ms : ms[k].type \notin {"Join", "FreeAdd", "FreeRemove"},
         Tell(RemovedFromBgFreeSlotQueue(i) \o ms)
  PROVE  Inv'
  <1>0. PlayersOk /\ toQueue \in Seq(ToQueue)
    BY DEF Inv, TypeInv
  <1>1. PICK m : m = [type |-> "FreeRemove", bg |-> i]
    BY Zenon
  <1>2. PICK ds : ds = RemovedFromBgFreeSlotQueue(i)
    OBVIOUS
  <1>3. m \in ToQueue /\ m.type = "FreeRemove" /\ m.bg = i
    BY <1>1 DEF ToQueue
  <1>4. ds = IF bgs[i].listed THEN <<m>> ELSE << >>
    BY <1>1, <1>2 DEF RemovedFromBgFreeSlotQueue
  <1>5. ds \in Seq(ToQueue)
    BY <1>3, <1>4
  <1>6. PICK ns : ns = ds \o ms
    BY Zenon
  <1>7. ns \in Seq(ToQueue) /\ Sent(ds, ms, ns)
    BY <1>5, <1>6, SentIs, Zenon
  <1>8. toQueue' = toQueue \o ns
    BY <1>2, <1>6 DEF Tell
  <1>9. /\ \A j : Absent(ms, Adds(j)) /\ Absent(ms, Drops(j))
        /\ Absent(ms, {x \in ToQueue : x.type = "Join"})
    BY DEF Absent, Adds, Drops
  <1>10. /\ \A j : Absent(ds, Adds(j)) /\ (j # i => Absent(ds, Drops(j)))
         /\ Single(ds, Drops(i)) /\ (~Absent(ds, Drops(i)) => bgs[i].listed)
         /\ Absent(ds, {x \in ToQueue : x.type = "Join"})
    <2>1. \A j : m \notin Adds(j) /\ (j # i => m \notin Drops(j))
      BY <1>3 DEF Adds, Drops
    <2>2. m \notin {x \in ToQueue : x.type = "Join"}
      BY <1>3
    <2>3. CASE bgs[i].listed
      BY <1>4, <2>1, <2>2, <2>3, OneIs
    <2>4. CASE ~bgs[i].listed
      BY <1>4, <2>4, NoneIs, Zenon
    <2> QED
      BY <2>3, <2>4
  <1>11. Absent(ns, {x \in ToQueue : x.type = "Join"})
    BY <1>7, <1>9, <1>10 DEF Sent
  <1>12. \A k \in DOMAIN ns : ns[k].type # "Join"
    <2>1. \A k \in DOMAIN ns : ns[k] \in ToQueue
      BY <1>7
    <2> QED
      BY <1>11, <2>1 DEF Absent
  <1>13. ASSUME NEW j \in Battlegrounds PROVE Listing(j, bgs[j], bgs'[j], ns)
    <2>1. CASE j = i
      <3>1. bgs'[j] = c
        BY <1>0, <2>1 DEF PlayersOk
      <3>2. /\ Absent(ns, Adds(j)) /\ Single(ns, Drops(j))
            /\ ~Absent(ns, Drops(j)) => bgs[j].listed
        BY <1>7, <1>9, <1>10, <2>1 DEF Sent
      <3> QED
        BY <2>1, <3>1, <3>2 DEF Listing
    <2>2. CASE j # i
      <3>1. bgs'[j] = bgs[j]
        BY <1>0, <2>2 DEF PlayersOk
      <3>2. Absent(ns, Adds(j)) /\ Absent(ns, Drops(j))
        BY <1>7, <1>9, <1>10, <2>2 DEF Sent
      <3> QED
        BY <3>1, <3>2, SameListingIs DEF Listing
    <2> QED
      BY <2>1, <2>2
  <1>14. PlayersOk'
    BY <1>0 DEF PlayersOk, playerVars
  <1>15. toWorld' \in Seq(ToWorld) /\ SameCreates(toWorld, toWorld')
    BY SameCreatesAre DEF Inv, TypeInv
  <1> QED
    BY <1>7, <1>8, <1>12, <1>13, <1>14, <1>15, WorldStep, Zenon

LEMMA EndStep ==
  ASSUME Inv, NEW i \in Battlegrounds, EndBattleGround(i)
  PROVE  Inv'
  <1>1. PICK m : m = SetStatus(i, "wait_leave")
    OBVIOUS
  <1>2. m \in ToQueue /\ m.type = "Status"
    BY <1>1 DEF SetStatus, ToQueue, Statuses
  <1>3. /\ Tell(RemovedFromBgFreeSlotQueue(i) \o <<m>>) /\ UNCHANGED <<playerVars, queue, toWorld>>
        /\ bgs' = [bgs EXCEPT ![i].status = "wait_leave", ![i].listed = FALSE]
        /\ bgs[i].status = "in_progress"
    BY <1>1 DEF EndBattleGround
  <1>4. bgs[i] \in Instance /\ bgs \in [Battlegrounds -> Instance]
    BY DEF Inv, TypeInv, PlayersOk
  <1>5. PICK c : c = [bgs[i] EXCEPT !.status = "wait_leave", !.listed = FALSE]
    OBVIOUS
  <1>6. bgs' = [bgs EXCEPT ![i] = c]
    BY <1>3, <1>4, <1>5, Zenon
  <1>7. c \in Instance /\ c.listed = FALSE /\ c.status = "wait_leave"
    BY <1>4, <1>5, Zenon DEF Instance, Statuses
  <1>8. <<m>> \in Seq(ToQueue) /\ \A k \in DOMAIN <<m>> : <<m>>[k].type \notin {"Join", "FreeAdd", "FreeRemove"}
    BY <1>2
  <1>9. c.status \notin Joinable /\ bgs[i].status # "none"
    BY <1>3, <1>7 DEF Joinable
  <1> QED
    BY <1>3, <1>6, <1>7, <1>8, <1>9, DropStep, Zenon

LEMMA RemoveStep ==
  ASSUME Inv, NEW i \in Battlegrounds, RemoveBattleGround(i)
  PROVE  Inv'
  <1>1. /\ Tell(RemovedFromBgFreeSlotQueue(i)) /\ UNCHANGED <<playerVars, queue, toWorld>>
        /\ bgs' = [bgs EXCEPT ![i] = NoInstance] /\ bgs[i].status # "none"
    BY DEF RemoveBattleGround, Exists
  <1>2. NoInstance \in Instance /\ NoInstance.listed = FALSE /\ NoInstance.status \notin Joinable
    <2>1. None \in Counters
      BY Numbers DEF None, Counters
    <2> QED
      BY <2>1 DEF NoInstance, Instance, Statuses, Joinable
  <1>3. PICK c \in Instance : c = NoInstance
    BY <1>2
  <1>4. << >> \in Seq(ToQueue) /\ \A k \in DOMAIN << >> : FALSE
    OBVIOUS
  <1>5. RemovedFromBgFreeSlotQueue(i) \o << >> = RemovedFromBgFreeSlotQueue(i)
    <2>1. PICK m : m = [type |-> "FreeRemove", bg |-> i]
      BY Zenon
    <2>2. m \in ToQueue
      BY <2>1 DEF ToQueue
    <2>3. RemovedFromBgFreeSlotQueue(i) \in Seq(ToQueue)
      BY <2>1, <2>2 DEF RemovedFromBgFreeSlotQueue
    <2> QED
      BY <2>3
  <1>6. c.listed = FALSE /\ c.status \notin Joinable /\ bgs' = [bgs EXCEPT ![i] = c]
    BY <1>1, <1>2, <1>3
  <1>7. Tell(RemovedFromBgFreeSlotQueue(i) \o << >>)
    BY <1>1, <1>5
  <1> QED
    BY <1>1, <1>4, <1>6, <1>7, DropStep, Zenon

LEMMA SendHomeStep ==
  ASSUME Inv, NEW i \in Battlegrounds, SendHome(i)
  PROVE  Inv'
  <1>0. PlayersOk
    BY DEF Inv, TypeInv
  <1> DEFINE here == {p \in bgs[i].players : InWorld(p)}
  <1>1. /\ bgs' = [bgs EXCEPT ![i] = Remaining(i, bgs[i].players)] /\ GivesUpSlots(here)
        /\ at' = [p \in Players |-> IF p \in here THEN 0 ELSE at[p]]
        /\ where' = [p \in Players |-> IF p \in here THEN "away" ELSE where[p]]
        /\ UNCHANGED <<timers, queue, toWorld, toQueue>> /\ bgs[i].status = "wait_leave"
    BY DEF SendHome
  <1> HIDE DEF here
  <1>2. slot' \in [Players -> BOOLEAN] /\ invite' \in [Players -> 0 .. MaxInstances]
    BY <1>0, <1>1, SlotsGivenUp
  <1>3. PICK c : c = Remaining(i, bgs[i].players)
    OBVIOUS
  <1>4. bgs[i].players \in SUBSET Players /\ bgs[i].status \notin Joinable
    BY <1>0, <1>1 DEF PlayersOk, Instance, Joinable
  <1>5. c \in Instance /\ c.status = bgs[i].status /\ c.listed = bgs[i].listed
    BY <1>0, <1>3, <1>4, UnlistedRemainingIs
  <1>6. bgs' = [bgs EXCEPT ![i] = c] /\ SameListing(bgs[i], c)
    BY <1>1, <1>3, <1>5 DEF SameListing
  <1>7. \A j \in Battlegrounds : SameListing(bgs[j], bgs'[j])
    BY <1>0, <1>6, OneBgChanged, Zenon
  <1>8. at' \in [Players -> 0 .. MaxInstances] /\ where' \in [Players -> Places]
    BY <1>0, <1>1, Numbers DEF PlayersOk, Places
  <1>9. PlayersOk'
    BY <1>0, <1>1, <1>2, <1>5, <1>6, <1>8 DEF PlayersOk
  <1>10. toWorld' \in Seq(ToWorld) /\ SameCreates(toWorld, toWorld')
    BY <1>1, SameCreatesAre DEF Inv, TypeInv
  <1> QED
    BY <1>1, <1>7, <1>9, <1>10, SilentStep

LEMMA RemoveOfflineStep ==
  ASSUME Inv, NEW i \in Battlegrounds, NEW p \in Players, RemoveOffline(i, p)
  PROVE  Inv'
  <1>1. /\ bgs' = [bgs EXCEPT ![i] = Remaining(i, {p})] /\ Tell(LeaveMessages(p, i))
        /\ UNCHANGED <<playerVars, queue, toWorld>>
    BY DEF RemoveOffline
  <1>2. /\ where' \in [Players -> Places] /\ slot' \in [Players -> BOOLEAN]
        /\ invite' \in [Players -> 0 .. MaxInstances] /\ at' \in [Players -> 0 .. MaxInstances]
        /\ UNCHANGED <<timers, queue>> /\ toWorld' \in Seq(ToWorld)
    BY <1>1 DEF playerVars, Inv, TypeInv, PlayersOk
  <1>3. SameCreates(toWorld, toWorld')
    BY <1>1, SameCreatesAre
  <1> QED
    BY <1>1, <1>2, <1>3, LeaveStep, Zenon

-----------------------------------------------------------------------------
(***************************************************************************)
(* The messages of the queue, handled by the world.                        *)
(***************************************************************************)
LEMMA HandledIs ==
  ASSUME Inv, NEW type, OnWorld(type)
  PROVE  /\ toWorld' \in Seq(ToWorld) /\ Head(toWorld) \in ToWorld /\ Head(toWorld).type = type
         /\ Taken(toWorld, toWorld', Head(toWorld))
         /\ type # "Create" => SameCreates(toWorld, toWorld')
  <1>1. toWorld \in Seq(ToWorld) /\ toWorld # << >> /\ Head(toWorld).type = type /\ toWorld' = Tail(toWorld)
    BY DEF Inv, TypeInv, OnWorld
  <1>2. toWorld' \in Seq(ToWorld) /\ Head(toWorld) \in ToWorld /\ Taken(toWorld, toWorld', Head(toWorld))
    BY <1>1, TakenIs, Zenon
  <1> QED
    BY <1>1, <1>2, SameCreatesAre

LEMMA JoinedStep ==
  ASSUME Inv, Joined
  PROVE  Inv'
  <1>0. PlayersOk
    BY DEF Inv, TypeInv
  <1>1. toWorld' \in Seq(ToWorld) /\ SameCreates(toWorld, toWorld')
    <2>1. OnWorld("Joined")
      BY DEF Joined
    <2> QED
      BY <2>1, HandledIs
  <1>2. PICK told : /\ slot' = [p \in Players |-> slot[p] \/ p \in told]
                    /\ invite' = [p \in Players |-> IF p \in told THEN 0 ELSE invite[p]]
    BY Zenon DEF Joined
  <1>3. UNCHANGED <<where, at, timers, bgs, queue, toQueue>>
    BY DEF Joined
  <1>4. slot' \in [Players -> BOOLEAN] /\ invite' \in [Players -> 0 .. MaxInstances]
    BY <1>0, <1>2, Numbers DEF PlayersOk
  <1>5. PlayersOk'
    BY <1>0, <1>3, <1>4 DEF PlayersOk
  <1>6. \A i \in Battlegrounds : SameListing(bgs[i], bgs'[i])
    BY <1>3, SameListingIs
  <1> QED
    BY <1>1, <1>3, <1>5, <1>6, SilentStep

LEMMA InvitedStep ==
  ASSUME Inv, Invited
  PROVE  Inv'
  <1>0. PlayersOk
    BY DEF Inv, TypeInv
  <1>1. OnWorld("Invited")
    BY DEF Invited
  <1>2. /\ toWorld' \in Seq(ToWorld) /\ SameCreates(toWorld, toWorld')
        /\ Head(toWorld) \in ToWorld /\ Head(toWorld).type = "Invited"
    BY <1>1, HandledIs
  <1>3. PICK m \in ToWorld : m = Head(toWorld) /\ m.type = "Invited"
    BY <1>2
  <1>4. m.player \in Players /\ m.bg \in Battlegrounds /\ m.id \in 1 .. MaxJoins
    BY <1>3, ToWorldIs
  <1>5. UNCHANGED <<where, slot, at, bgs, queue, toQueue>>
    BY DEF Invited
  <1>6. IF InWorld(m.player)
          THEN /\ invite' = [invite EXCEPT ![m.player] = IF slot[m.player] THEN m.bg ELSE @]
               /\ timers' = [timers EXCEPT ![m.player] = @ \cup {[bg |-> m.bg, id |-> m.id]}]
          ELSE UNCHANGED <<invite, timers>>
    BY <1>3 DEF Invited
  <1>7. invite' \in [Players -> 0 .. MaxInstances]
    BY <1>0, <1>4, <1>6, Numbers, Zenon DEF PlayersOk
  <1>8. timers' \in [Players -> SUBSET [bg : Battlegrounds, id : 1 .. MaxJoins]]
    BY <1>0, <1>4, <1>6 DEF PlayersOk
  <1>9. PlayersOk'
    BY <1>0, <1>5, <1>7, <1>8 DEF PlayersOk
  <1>10. \A i \in Battlegrounds : SameListing(bgs[i], bgs'[i])
    BY <1>5, SameListingIs
  <1> QED
    BY <1>2, <1>5, <1>9, <1>10, SilentStep

LEMMA CountStep ==
  ASSUME Inv, SetInvitedCount
  PROVE  Inv'
  <1>0. PlayersOk
    BY DEF Inv, TypeInv
  <1>1. OnWorld("Count")
    BY DEF SetInvitedCount
  <1>2. /\ toWorld' \in Seq(ToWorld) /\ SameCreates(toWorld, toWorld')
        /\ Head(toWorld) \in ToWorld /\ Head(toWorld).type = "Count"
    BY <1>1, HandledIs
  <1>3. PICK m \in ToWorld : m = Head(toWorld) /\ m.type = "Count"
    BY <1>2
  <1>4. PICK i \in Battlegrounds : i = m.bg
    BY <1>3, ToWorldIs
  <1>5. m.side \in Sides /\ m.count \in 0 .. Width - 1
    BY <1>3, ToWorldIs
  <1>6. UNCHANGED <<where, slot, invite, at, timers, queue, toQueue>>
    BY DEF SetInvitedCount, playerVars
  <1>7. bgs' = IF Exists(i) THEN [bgs EXCEPT ![i].invited[m.side] = m.count] ELSE bgs
    BY <1>3, <1>4 DEF SetInvitedCount
  <1>8. PICK b \in Instance : b = bgs[i]
    BY <1>0 DEF PlayersOk
  <1>9. PICK v : v = [b.invited EXCEPT ![m.side] = m.count]
    BY Zenon
  <1>10. v \in Counters
    BY <1>5, <1>8, <1>9 DEF Instance, Counters
  <1>11. PICK c : c = [b EXCEPT !.invited = v]
    BY Zenon
  <1>12. c \in Instance /\ SameListing(b, c)
    BY <1>8, <1>10, <1>11 DEF Instance, SameListing
  <1>13. bgs' = [bgs EXCEPT ![i] = c] \/ bgs' = bgs
    BY <1>7, <1>8, <1>9, <1>11, ZenonT(40)
  <1>14. PlayersOk'
    BY <1>0, <1>6, <1>12, <1>13 DEF PlayersOk
  <1>15. \A j \in Battlegrounds : SameListing(bgs[j], bgs'[j])
    BY <1>0, <1>8, <1>12, <1>13, OneBgChanged, SameListingIs
  <1> QED
    BY <1>2, <1>6, <1>14, <1>15, SilentStep

LEMMA CreateStep ==
  ASSUME Inv, CreateNewBattleGround
  PROVE  Inv'
  <1>0. PlayersOk /\ toQueue \in Seq(ToQueue) /\ QueueOk(queue)
    BY DEF Inv, TypeInv
  <1>1. OnWorld("Create")
    BY DEF CreateNewBattleGround
  <1>2. /\ toWorld' \in Seq(ToWorld) /\ Taken(toWorld, toWorld', Head(toWorld))
        /\ Head(toWorld) \in ToWorld /\ Head(toWorld).type = "Create"
    BY <1>1, HandledIs
  <1>3. PICK h \in ToWorld : h = Head(toWorld) /\ h.type = "Create"
    BY <1>2
  <1>4. PICK i \in Battlegrounds : i = h.bg
    BY <1>3, ToWorldIs
  <1>5. h.counts \in Counters
    BY <1>3, ToWorldIs
  <1>6. PICK c : c = [NoInstance EXCEPT !.status = "wait_join", !.invited = h.counts]
    OBVIOUS
  <1>7. c \in Instance /\ c.listed = FALSE /\ c.status = "wait_join"
    BY <1>5, <1>6, Zenon DEF NoInstance, Instance, Statuses, Joinable
  <1>8. PICK m : m = SetStatus(i, "wait_join")
    OBVIOUS
  <1>9. m \in ToQueue /\ m.type = "Status"
    BY <1>8 DEF SetStatus, ToQueue, Statuses, Joinable
  <1>10. /\ bgs' = [bgs EXCEPT ![i] = c] /\ toQueue' = toQueue \o <<m>>
         /\ UNCHANGED <<playerVars, queue>>
    BY <1>3, <1>4, <1>6, <1>8 DEF CreateNewBattleGround, Tell
  <1>11. <<m>> \in Seq(ToQueue) /\ \A k \in DOMAIN <<m>> : <<m>>[k].type # "Join"
    BY <1>9
  <1>12. toQueue' \in Seq(ToQueue) /\ Sent(toQueue, <<m>>, toQueue')
    BY <1>0, <1>10, <1>11, SentIs, Zenon
  <1>13. JoinsIn(toQueue') = JoinsIn(toQueue)
    BY <1>0, <1>10, <1>11, JoinsSent, Zenon
  <1>14. TypeInv'
    BY <1>0, <1>2, <1>7, <1>10, <1>12, <1>13 DEF Inv, TypeInv, PlayersOk, playerVars
  <1>15. Plain(<<m>>)
    <2>1. \A j : m \notin Adds(j) /\ m \notin Drops(j)
      BY <1>9 DEF Adds, Drops
    <2> QED
      BY <2>1, OneIs DEF Plain
  <1>16. ASSUME NEW j \in Battlegrounds PROVE Listed(j, queue', bgs'[j], toQueue', toWorld')
    <2>1. Listed(j, queue, bgs[j], toQueue, toWorld)
      BY DEF Inv, ListingInv
    <2>2. Listed(j, queue, bgs'[j], toQueue, toWorld')
      <3>1. CASE j = i
        <4>1. h \in Creates(j) /\ bgs'[j] = c
          BY <1>0, <1>3, <1>4, <1>10, <3>1 DEF Creates, PlayersOk
        <4> QED
          BY <1>2, <1>3, <1>7, <2>1, <4>1, ListedHandled, Zenon
      <3>2. CASE j # i
        <4>1. h \notin Creates(j) /\ bgs'[j] = bgs[j]
          BY <1>0, <1>3, <1>4, <1>10, <3>2 DEF Creates, PlayersOk
        <4> QED
          BY <1>2, <1>3, <2>1, <4>1, ListedHandled, Zenon
      <3> QED
        BY <3>1, <3>2
    <2> QED
      BY <1>10, <1>12, <1>15, <2>2, ListedTold, SameListingIs, Zenon
  <1> QED
    BY <1>14, <1>16 DEF Inv, ListingInv

LEMMA EnterStep ==
  ASSUME Inv, Enter
  PROVE  Inv'
  <1>0. PlayersOk
    BY DEF Inv, TypeInv
  <1>1. OnWorld("Enter") /\ UNCHANGED queue
    BY DEF Enter
  <1>2. /\ toWorld' \in Seq(ToWorld) /\ SameCreates(toWorld, toWorld')
        /\ Head(toWorld) \in ToWorld /\ Head(toWorld).type = "Enter"
    BY <1>1, HandledIs
  <1>3. PICK m \in ToWorld : m = Head(toWorld) /\ m.type = "Enter"
    BY <1>2
  <1>4. PICK p \in Players, i \in Battlegrounds : p = m.player /\ i = m.bg
    BY <1>3, ToWorldIs
  <1>5. IF ~InWorld(p) THEN UNCHANGED <<playerVars, bgs, toQueue>>
        ELSE /\ IF Exists(at[p])
                  THEN /\ GivesUpSlots(IF TookPart(p, at[p]) THEN {p} ELSE {})
                       /\ bgs' = [bgs EXCEPT ![at[p]] = Remaining(at[p], {p})]
                       /\ Tell(LeaveMessages(p, at[p]))
                  ELSE UNCHANGED <<slot, invite, bgs, toQueue>>
             /\ at' = [at EXCEPT ![p] = i]
             /\ where' = [where EXCEPT ![p] = IF Exists(i) THEN "to_bg" ELSE @]
             /\ UNCHANGED <<timers, trips>>
    BY <1>3, <1>4 DEF Enter
  <1>6. CASE ~InWorld(p)
    <2>1. UNCHANGED <<playerVars, bgs, toQueue>>
      BY <1>5, <1>6
    <2>2. PlayersOk' /\ \A j \in Battlegrounds : SameListing(bgs[j], bgs'[j])
      BY <1>0, <2>1, SameListingIs DEF PlayersOk, playerVars
    <2> QED
      BY <1>1, <1>2, <2>1, <2>2, SilentStep
  <1>7. CASE InWorld(p)
    <2>1. /\ at' = [at EXCEPT ![p] = i] /\ UNCHANGED timers
          /\ where' = [where EXCEPT ![p] = IF Exists(i) THEN "to_bg" ELSE @]
      BY <1>5, <1>7
    <2>2. at' \in [Players -> 0 .. MaxInstances] /\ where' \in [Players -> Places]
      BY <1>0, <2>1, Numbers DEF PlayersOk, Places
    <2>3. CASE Exists(at[p])
      <3>1. PICK j \in Battlegrounds : j = at[p]
        BY <1>0, <2>3, BgIs
      <3>2. /\ GivesUpSlots(IF TookPart(p, j) THEN {p} ELSE {})
            /\ bgs' = [bgs EXCEPT ![j] = Remaining(j, {p})] /\ Tell(LeaveMessages(p, j))
        BY <1>5, <1>7, <2>3, <3>1
      <3>3. slot' \in [Players -> BOOLEAN] /\ invite' \in [Players -> 0 .. MaxInstances]
        BY <1>0, <3>2, SlotsGivenUp
      <3> QED
        BY <1>1, <1>2, <2>1, <2>2, <3>2, <3>3, LeaveStep, Zenon
    <2>4. CASE ~Exists(at[p])
      <3>1. UNCHANGED <<slot, invite, bgs, toQueue>>
        BY <1>5, <1>7, <2>4
      <3>2. PlayersOk' /\ \A j \in Battlegrounds : SameListing(bgs[j], bgs'[j])
        BY <1>0, <2>1, <2>2, <3>1, SameListingIs DEF PlayersOk
      <3> QED
        BY <1>1, <1>2, <3>1, <3>2, SilentStep
    <2> QED
      BY <2>3, <2>4
  <1> QED
    BY <1>6, <1>7

LEMMA LeftStep ==
  ASSUME Inv, Left
  PROVE  Inv'
  <1>0. PlayersOk
    BY DEF Inv, TypeInv
  <1>1. OnWorld("Left") /\ UNCHANGED <<where, at, timers, bgs, queue, toQueue>>
    BY DEF Left
  <1>2. toWorld' \in Seq(ToWorld) /\ SameCreates(toWorld, toWorld')
    BY <1>1, HandledIs
  <1>3. PICK gone : GivesUpSlots(gone)
    BY DEF Left
  <1>4. PlayersOk'
    BY <1>0, <1>1, <1>3, SlotsGivenUp DEF PlayersOk
  <1>5. \A i \in Battlegrounds : SameListing(bgs[i], bgs'[i])
    BY <1>1, SameListingIs
  <1> QED
    BY <1>1, <1>2, <1>4, <1>5, SilentStep

LEMMA TimerStep ==
  ASSUME Inv, Timer
  PROVE  Inv'
  <1>0. PlayersOk /\ toQueue \in Seq(ToQueue)
    BY DEF Inv, TypeInv
  <1>1. OnWorld("Timer") /\ UNCHANGED <<where, slot, invite, at, timers, trips, bgs, queue>>
    BY DEF Timer
  <1>2. /\ toWorld' \in Seq(ToWorld) /\ SameCreates(toWorld, toWorld')
        /\ Head(toWorld) \in ToWorld /\ Head(toWorld).type = "Timer"
    BY <1>1, HandledIs
  <1>3. PICK m \in ToWorld : m = Head(toWorld) /\ m.type = "Timer"
    BY <1>2
  <1>4. m.player \in Players /\ m.bg \in Battlegrounds /\ m.id \in 1 .. MaxJoins
    BY <1>3, ToWorldIs
  <1>5. PICK open \in BOOLEAN : open = (Exists(m.bg) /\ bgs[m.bg].status # "wait_leave")
    BY Zenon
  <1>6. PICK n : n = [type |-> "Expire", player |-> m.player, bg |-> m.bg, id |-> m.id, open |-> open]
    BY Zenon
  <1>7. n \in ToQueue /\ n.type = "Expire"
    BY <1>4, <1>6 DEF ToQueue
  <1>8. toQueue' = toQueue \o (IF InWorld(m.player) /\ slot[m.player] THEN <<n>> ELSE << >>)
    BY <1>3, <1>5, <1>6, ZenonT(40) DEF Timer, Tell
  <1>9. PlayersOk' /\ \A i \in Battlegrounds : SameListing(bgs[i], bgs'[i])
    BY <1>0, <1>1, SameListingIs DEF PlayersOk
  <1>10. CASE InWorld(m.player) /\ slot[m.player]
    <2>1. toQueue' = toQueue \o <<n>>
      BY <1>8, <1>10
    <2> QED
      BY <1>1, <1>2, <1>7, <1>9, <2>1, OneToldStep
  <1>11. CASE ~(InWorld(m.player) /\ slot[m.player])
    <2>1. toQueue' = toQueue
      BY <1>0, <1>8, <1>11
    <2> QED
      BY <1>1, <1>2, <1>9, <2>1, SilentStep
  <1> QED
    BY <1>10, <1>11

-----------------------------------------------------------------------------
(***************************************************************************)
(* The messages of the world, handled by the queue.                        *)
(***************************************************************************)
Counts(ms) == ms \in Seq(ToWorld) /\ \A k \in DOMAIN ms : ms[k].type = "Count"

\* The queue handles a message that is not about the entries.
LEMMA OtherQueueStep ==
  ASSUME Inv, NEW type, OnQueue(type), type \notin {"FreeAdd", "FreeRemove"},
         QueueOk(queue'), SameSlots(queue, queue'),
         \/ queue'.joined = queue.joined
         \/ type = "Join" /\ queue'.joined = queue.joined + 1,
         NEW ms \in Seq(ToWorld), \A k \in DOMAIN ms : ms[k].type # "Create",
         toWorld' = toWorld \o ms
  PROVE  Inv'
  <1>1. toWorld \in Seq(ToWorld)
    BY DEF Inv, TypeInv
  <1>2. toWorld' \in Seq(ToWorld) /\ Sent(toWorld, ms, toWorld')
    BY <1>1, SentIs, Zenon
  <1>3. /\ TypeInv' /\ bgs' = bgs /\ Head(toQueue).type = type
        /\ Taken(toQueue, toQueue', Head(toQueue))
    BY <1>2, QueueStep
  <1>4. PICK h : h = Head(toQueue)
    OBVIOUS
  <1>5. ASSUME NEW i \in Battlegrounds PROVE Listed(i, queue', bgs'[i], toQueue', toWorld')
    <2>1. Listed(i, queue, bgs[i], toQueue, toWorld)
      BY DEF Inv, ListingInv
    <2>2. h \notin Adds(i) /\ h \notin Drops(i)
      BY <1>3, <1>4 DEF Adds, Drops
    <2>3. Absent(ms, Creates(i))
      BY DEF Absent, Creates
    <2> QED
      BY <1>2, <1>3, <1>4, <2>1, <2>2, <2>3, ListedAnswered
  <1> QED
    BY <1>3, <1>5 DEF Inv, ListingInv

LEMMA SlotsAgain ==
  ASSUME NEW q, NEW r, NEW t, SameSlots(q, r), SameSlots(r, t)
  PROVE  SameSlots(q, t)
  BY DEF SameSlots

\* Whoever is asked to leave the queue.
LEMMA AnyRemoved ==
  ASSUME NEW q, QueueOk(q), NEW p \in Players, NEW decrease \in BOOLEAN,
         NEW d, d = RemovePlayer(q, p, decrease)
  PROVE  /\ QueueOk(d.queue) /\ d.queue.joined = q.joined /\ SameSlots(q, d.queue)
         /\ Counts(d.sent)
  <1>1. CASE q.member[p] = 0
    <2>1. d = Answer(q, << >>)
      BY <1>1, NobodyRemoved
    <2>2. d.queue = q /\ d.sent = << >>
      BY <2>1 DEF Answer
    <2>3. Counts(<< >>)
      BY DEF Counts
    <2> QED
      BY <2>2, <2>3, SameSlotsAre
  <1>2. CASE q.member[p] # 0
    <2>1. Gone(q, d.queue, p) /\ SameBgs(q, d.queue) /\ Returned(q, d, p, decrease)
      BY <1>2, RemovePlayerIs
    <2>2. QueueOk(d.queue) /\ d.queue.joined = q.joined /\ d.queue.created = q.created
      BY <2>1 DEF Gone
    <2>3. Counts(d.sent)
      <3>1. PICK i : i = InvitedTo(q, p)
        OBVIOUS
      <3>2. CASE decrease /\ i # 0 /\ HasSlot(q, i)
        <4>1. PICK k, c : /\ k = FirstSlot(q, i)
                          /\ c = Plus(q.freeSlots[k].invited, Team[p], -1)
          OBVIOUS
        <4>2. d.sent = <<Count(i, Team[p], c[Team[p]])>>
          BY <2>1, <3>1, <3>2, <4>1, Zenon DEF Returned
        <4>3. q.freeSlots \in Seq(Slots) /\ i \in 0 .. MaxInstances /\ Team[p] \in Sides
          BY <1>2, <3>1, QueueTypes, SeatIs, TeamAssumption
        <4>4. i \in Battlegrounds
          BY <3>2, <4>3, Numbers DEF Battlegrounds
        <4>5. k \in DOMAIN q.freeSlots
          BY <3>2, <4>1, <4>3, FirstSlotIs
        <4>6. q.freeSlots[k].invited \in Counters
          <5>1. q.freeSlots[k] \in Slots
            BY <4>3, <4>5
          <5> QED
            BY <5>1 DEF Slots
        <4>7. c \in Counters
          BY <4>1, <4>3, <4>6, PlusIs
        <4>8. c[Team[p]] \in 0 .. Width - 1
          BY <4>3, <4>7 DEF Counters
        <4>9. PICK m : m = Count(i, Team[p], c[Team[p]])
          OBVIOUS
        <4>10. m \in ToWorld /\ m.type = "Count"
          BY <4>3, <4>4, <4>8, <4>9 DEF Count, ToWorld
        <4> QED
          BY <4>2, <4>9, <4>10 DEF Counts
      <3>3. CASE ~(decrease /\ i # 0 /\ HasSlot(q, i))
        <4>1. d.sent = << >>
          BY <2>1, <3>1, <3>3 DEF Returned
        <4> QED
          BY <4>1 DEF Counts
      <3> QED
        BY <3>2, <3>3
    <2> QED
      BY <2>1, <2>2, <2>3, SameSlotsAre
  <1> QED
    BY <1>1, <1>2

\* A count, and the player is told that he left.
LEMMA CountsAndLeft ==
  ASSUME NEW ms, Counts(ms), NEW p \in Players, NEW m, m = [type |-> "Left", player |-> p]
  PROVE  /\ ms \o <<m>> \in Seq(ToWorld)
         /\ \A k \in DOMAIN (ms \o <<m>>) : (ms \o <<m>>)[k].type # "Create"
  <1>1. m \in ToWorld /\ m.type = "Left"
    BY DEF ToWorld
  <1>2. ms \in Seq(ToWorld) /\ <<m>> \in Seq(ToWorld) /\ \A k \in DOMAIN ms : ms[k].type # "Create"
    BY <1>1 DEF Counts
  <1>3. PICK rs : rs = ms \o <<m>>
    BY Zenon
  <1>4. rs \in Seq(ToWorld) /\ Sent(ms, <<m>>, rs)
    BY <1>2, <1>3, SentIs, Zenon
  <1>5. Absent(ms, AllCreates) /\ Absent(<<m>>, AllCreates)
    BY <1>1, <1>2, OneIs DEF Absent, AllCreates
  <1>6. Absent(rs, AllCreates)
    BY <1>4, <1>5 DEF Sent
  <1>7. \A k \in DOMAIN rs : rs[k] \in ToWorld
    BY <1>4
  <1>8. \A k \in DOMAIN rs : rs[k].type # "Create"
    BY <1>6, <1>7 DEF Absent, AllCreates
  <1> QED
    BY <1>3, <1>4, <1>8

LEMMA AnswersAre ==
  ASSUME NEW ans, Answers(ans)
  PROVE  queue' = ans.queue /\ toWorld' = toWorld \o ans.sent
  BY DEF Answers

LEMMA NothingAnswered ==
  ASSUME Answers(Answer(queue, << >>))
  PROVE  queue' = queue /\ toWorld' = toWorld \o << >>
  <1>1. PICK ns : ns = << >>
    OBVIOUS
  <1>2. Answers(Answer(queue, ns))
    BY <1>1
  <1>3. queue' = queue /\ toWorld' = toWorld \o ns
    BY <1>2, AnswersAre DEF Answer
  <1> QED
    BY <1>1, <1>3

LEMMA JoinQueueStep ==
  ASSUME Inv, JoinQueue
  PROVE  Inv'
  <1>0. QueueOk(queue) /\ toQueue \in Seq(ToQueue)
    BY DEF Inv, TypeInv
  <1>1. OnQueue("Join")
    BY DEF JoinQueue
  <1>2. toQueue # << >> /\ Head(toQueue).type = "Join" /\ Head(toQueue) \in ToQueue
    BY <1>0, <1>1 DEF OnQueue
  <1>3. PICK party \in Parties : party = Head(toQueue).players
    BY <1>2, ToQueueIs
  <1>4. PICK m : m = [type |-> "Joined", players |-> party]
    BY Zenon
  <1>5. m \in ToWorld /\ m.type = "Joined"
    BY <1>4 DEF ToWorld
  <1>6. PICK t, r : t = AddGroup(queue, party) /\ r = ScheduleQueueUpdate(t)
    OBVIOUS
  <1>7. queue' = r /\ toWorld' = toWorld \o <<m>>
    <2>1. Answers(Answer(r, <<m>>))
      BY <1>3, <1>4, <1>6 DEF JoinQueue
    <2> QED
      BY <2>1, AnswersAre DEF Answer
  <1>8. queue.joined < MaxJoins
    <2>1. /\ queue.joined + Cardinality(JoinsIn(toQueue)) <= MaxJoins
          /\ Cardinality(JoinsIn(Tail(toQueue))) + 1 <= Cardinality(JoinsIn(toQueue))
      BY <1>0, <1>2, JoinTaken, Zenon DEF Inv, TypeInv
    <2>2. Tail(toQueue) \in Seq(ToQueue)
      BY <1>0, <1>2
    <2>3. Cardinality(JoinsIn(toQueue)) \in Nat /\ Cardinality(JoinsIn(Tail(toQueue))) \in Nat
      BY <1>0, <2>2, JoinsAre, Zenon
    <2>4. queue.joined \in Nat /\ MaxJoins \in Nat
      BY <1>0, QueueTypes, Numbers
    <2> QED
      BY <2>1, <2>3, <2>4
  <1>9. /\ QueueOk(t) /\ t.joined = queue.joined + 1 /\ t.created = queue.created
        /\ t.freeSlots = queue.freeSlots
    <2>1. PICK id : id = queue.joined + 1
      OBVIOUS
    <2>3. t = AddGroup(queue, party)
      BY <1>6
    <2>4. QueueOk(t)
      BY <1>0, <1>8, <2>1, <2>3, AddGroupIs
    <2>2. QueueOk(t) /\ t.joined = id /\ t.created = queue.created /\ t.freeSlots = queue.freeSlots
      <3>1. t.joined = id
        BY <1>0, <1>8, <2>1, <2>3, AddGroupIs
      <3>2. t.created = queue.created
        BY <1>0, <1>8, <2>1, <2>3, AddGroupIs
      <3>3. t.freeSlots = queue.freeSlots
        BY <1>0, <1>8, <2>1, <2>3, AddGroupIs
      <3> QED
        BY <2>4, <3>1, <3>2, <3>3
    <2> QED
      BY <2>1, <2>2
  <1>10. QueueOk(r) /\ SameGroups(t, r) /\ r.freeSlots = t.freeSlots
    BY <1>6, <1>9, ScheduleIs, Zenon
  <1>11. QueueOk(queue') /\ queue'.joined = queue.joined + 1 /\ SameSlots(queue, queue')
    BY <1>7, <1>9, <1>10, SameSlotsAre DEF SameGroups
  <1>12. <<m>> \in Seq(ToWorld) /\ \A k \in DOMAIN <<m>> : <<m>>[k].type # "Create"
    BY <1>5
  <1> QED
    BY <1>1, <1>7, <1>11, <1>12, OtherQueueStep, Zenon

LEMMA PortQueueStep ==
  ASSUME Inv, PortQueue
  PROVE  Inv'
  <1>0. QueueOk(queue) /\ toQueue \in Seq(ToQueue) /\ toWorld \in Seq(ToWorld)
    BY DEF Inv, TypeInv
  <1>1. OnQueue("Port")
    BY DEF PortQueue
  <1>2. toQueue # << >> /\ Head(toQueue).type = "Port" /\ Head(toQueue) \in ToQueue
    BY <1>0, <1>1 DEF OnQueue
  <1>3. PICK p \in Players, enter \in BOOLEAN : p = Head(toQueue).player /\ enter = Head(toQueue).enter
    BY <1>2, ToQueueIs
  <1>4. PICK b \in BOOLEAN : b = ~enter
    BY Zenon
  <1>5. PICK to, gone : to = InvitedTo(queue, p) /\ gone = RemovePlayer(queue, p, b)
    OBVIOUS
  <1>6. Answers(
          IF ~IsQueued(queue, p) \/ (enter /\ to = 0) THEN Answer(queue, << >>)
          ELSE IF enter
            THEN Answer(gone.queue, <<[type |-> "Enter", player |-> p, bg |-> to]>>)
            ELSE Answer(ScheduleQueueUpdate(gone.queue),
                        gone.sent \o <<[type |-> "Left", player |-> p]>>))
    BY <1>3, <1>4, <1>5, ZenonT(40) DEF PortQueue
  <1>7. /\ QueueOk(gone.queue) /\ gone.queue.joined = queue.joined /\ SameSlots(queue, gone.queue)
        /\ Counts(gone.sent)
    BY <1>0, <1>5, AnyRemoved
  <1>8. CASE ~IsQueued(queue, p) \/ (enter /\ to = 0)
    <2>1. Answers(Answer(queue, << >>))
      BY <1>6, <1>8
    <2>2. queue' = queue /\ toWorld' = toWorld \o << >>
      BY <2>1, NothingAnswered
    <2>3. << >> \in Seq(ToWorld) /\ \A k \in DOMAIN << >> : FALSE
      OBVIOUS
    <2>4. QueueOk(queue') /\ SameSlots(queue, queue')
      BY <1>0, <2>2, SameSlotsAre
    <2> QED
      BY <1>1, <2>2, <2>3, <2>4, OtherQueueStep, Zenon
  <1>9. CASE ~(~IsQueued(queue, p) \/ (enter /\ to = 0)) /\ enter
    <2>1. PICK m : m = [type |-> "Enter", player |-> p, bg |-> to]
      BY Zenon
    <2>2. Answers(Answer(gone.queue, <<m>>))
      BY <1>6, <1>9, <2>1
    <2>3. queue' = gone.queue /\ toWorld' = toWorld \o <<m>>
      BY <2>2, AnswersAre DEF Answer
    <2>4. to \in 0 .. MaxInstances /\ to # 0
      BY <1>0, <1>5, <1>9, SeatIs DEF IsQueued
    <2>5. to \in Battlegrounds
      BY <2>4, Numbers DEF Battlegrounds
    <2>6. m \in ToWorld /\ m.type = "Enter"
      BY <2>1, <2>5 DEF ToWorld
    <2>7. <<m>> \in Seq(ToWorld) /\ \A k \in DOMAIN <<m>> : <<m>>[k].type # "Create"
      BY <2>6
    <2> QED
      BY <1>1, <1>7, <2>3, <2>7, OtherQueueStep, Zenon
  <1>10. CASE ~(~IsQueued(queue, p) \/ (enter /\ to = 0)) /\ ~enter
    <2>1. PICK m, r, ms : /\ m = [type |-> "Left", player |-> p]
                          /\ r = ScheduleQueueUpdate(gone.queue) /\ ms = gone.sent \o <<m>>
      BY Zenon
    <2>2. Answers(Answer(r, ms))
      BY <1>6, <1>10, <2>1
    <2>3. queue' = r /\ toWorld' = toWorld \o ms
      BY <2>2, AnswersAre DEF Answer
    <2>4. QueueOk(r) /\ SameGroups(gone.queue, r) /\ r.freeSlots = gone.queue.freeSlots
      BY <1>7, <2>1, ScheduleIs, Zenon
    <2>5. QueueOk(queue') /\ queue'.joined = queue.joined /\ SameSlots(queue, queue')
      BY <1>7, <2>3, <2>4, SameSlotsAre, SlotsAgain, Zenon DEF SameGroups
    <2>6. ms \in Seq(ToWorld) /\ \A k \in DOMAIN ms : ms[k].type # "Create"
      BY <1>7, <2>1, CountsAndLeft
    <2> QED
      BY <1>1, <2>3, <2>5, <2>6, OtherQueueStep, Zenon
  <1> QED
    BY <1>8, <1>9, <1>10

LEMMA RemoveFromQueueStep ==
  ASSUME Inv, RemoveFromQueue
  PROVE  Inv'
  <1>0. QueueOk(queue) /\ toQueue \in Seq(ToQueue)
    BY DEF Inv, TypeInv
  <1>1. OnQueue("Remove")
    BY DEF RemoveFromQueue
  <1>2. toQueue # << >> /\ Head(toQueue).type = "Remove" /\ Head(toQueue) \in ToQueue
    BY <1>0, <1>1 DEF OnQueue
  <1>3. PICK p \in Players : p = Head(toQueue).player
    BY <1>2, ToQueueIs
  <1>4. PICK d : d = RemovePlayer(queue, p, TRUE)
    BY Zenon
  <1>5. queue' = d.queue /\ toWorld' = toWorld \o d.sent
    BY <1>3, <1>4, AnswersAre, Zenon DEF RemoveFromQueue
  <1>6. /\ QueueOk(d.queue) /\ d.queue.joined = queue.joined /\ SameSlots(queue, d.queue)
        /\ Counts(d.sent)
    BY <1>0, <1>4, AnyRemoved, Zenon
  <1>7. d.sent \in Seq(ToWorld) /\ \A k \in DOMAIN d.sent : d.sent[k].type # "Create"
    BY <1>6 DEF Counts
  <1> QED
    BY <1>1, <1>5, <1>6, <1>7, OtherQueueStep, Zenon

LEMMA ExpireStep ==
  ASSUME Inv, Expire
  PROVE  Inv'
  <1>0. QueueOk(queue) /\ toQueue \in Seq(ToQueue) /\ toWorld \in Seq(ToWorld)
    BY DEF Inv, TypeInv
  <1>1. OnQueue("Expire")
    BY DEF Expire
  <1>2. toQueue # << >> /\ Head(toQueue).type = "Expire" /\ Head(toQueue) \in ToQueue
    BY <1>0, <1>1 DEF OnQueue
  <1>3. PICK p \in Players : p = Head(toQueue).player
    BY <1>2, ToQueueIs
  <1>4. PICK gone, m, r, ms :
           /\ gone = RemovePlayer(queue, p, TRUE) /\ m = [type |-> "Left", player |-> p]
           /\ r = IF Head(toQueue).open THEN ScheduleQueueUpdate(gone.queue) ELSE gone.queue
           /\ ms = gone.sent \o <<m>>
    BY Zenon
  <1>5. \/ Answers(Answer(queue, << >>))
        \/ Answers(Answer(r, ms))
    BY <1>3, <1>4, Zenon DEF Expire
  <1>6. CASE Answers(Answer(queue, << >>))
    <2>2. queue' = queue /\ toWorld' = toWorld \o << >>
      BY <1>6, NothingAnswered
    <2>3. << >> \in Seq(ToWorld) /\ \A k \in DOMAIN << >> : FALSE
      OBVIOUS
    <2>4. QueueOk(queue') /\ SameSlots(queue, queue')
      BY <1>0, <2>2, SameSlotsAre
    <2> QED
      BY <1>1, <2>2, <2>3, <2>4, OtherQueueStep, Zenon
  <1>7. CASE Answers(Answer(r, ms))
    <2>1. queue' = r /\ toWorld' = toWorld \o ms
      BY <1>7, AnswersAre DEF Answer
    <2>2. /\ QueueOk(gone.queue) /\ gone.queue.joined = queue.joined /\ SameSlots(queue, gone.queue)
          /\ Counts(gone.sent)
      BY <1>0, <1>4, AnyRemoved, Zenon
    <2>3. QueueOk(r) /\ SameGroups(gone.queue, r) /\ r.freeSlots = gone.queue.freeSlots
      BY <1>4, <2>2, ScheduleIs, Zenon DEF SameGroups
    <2>4. QueueOk(queue') /\ queue'.joined = queue.joined /\ SameSlots(queue, queue')
      BY <2>1, <2>2, <2>3, SameSlotsAre, SlotsAgain, Zenon DEF SameGroups
    <2>5. ms \in Seq(ToWorld) /\ \A k \in DOMAIN ms : ms[k].type # "Create"
      BY <1>4, <2>2, CountsAndLeft, Zenon
    <2> QED
      BY <1>1, <2>1, <2>4, <2>5, OtherQueueStep, Zenon
  <1> QED
    BY <1>5, <1>6, <1>7

LEMMA SyncStatusStep ==
  ASSUME Inv, SyncStatus
  PROVE  Inv'
  <1>0. QueueOk(queue) /\ toQueue \in Seq(ToQueue)
    BY DEF Inv, TypeInv
  <1>1. OnQueue("Status")
    BY DEF SyncStatus
  <1>2. toQueue # << >> /\ Head(toQueue).type = "Status" /\ Head(toQueue) \in ToQueue
    BY <1>0, <1>1 DEF OnQueue
  <1>3. PICK i \in Battlegrounds, status \in Statuses :
           i = Head(toQueue).bg /\ status = Head(toQueue).status
    BY <1>2, ToQueueIs
  <1>4. PICK r, ns : r = SetSlotStatus(queue, i, status) /\ ns = << >>
    OBVIOUS
  <1>5. queue' = r /\ toWorld' = toWorld \o ns
    <2>1. Answers(Answer(r, ns))
      BY <1>3, <1>4 DEF SyncStatus
    <2> QED
      BY <2>1, AnswersAre DEF Answer
  <1>6. QueueOk(r) /\ SameGroups(queue, r) /\ SameBgs(queue, r)
    BY <1>0, <1>4, StatusIs
  <1>7. QueueOk(queue') /\ queue'.joined = queue.joined /\ SameSlots(queue, queue')
    BY <1>5, <1>6, SameSlotsAre DEF SameGroups
  <1>8. ns \in Seq(ToWorld) /\ \A k \in DOMAIN ns : ns[k].type # "Create"
    BY <1>4
  <1> QED
    BY <1>1, <1>5, <1>7, <1>8, OtherQueueStep, Zenon

LEMMA SyncDepartureStep ==
  ASSUME Inv, SyncDeparture
  PROVE  Inv'
  <1>0. QueueOk(queue) /\ toQueue \in Seq(ToQueue)
    BY DEF Inv, TypeInv
  <1>1. OnQueue("Decrease")
    BY DEF SyncDeparture
  <1>2. toQueue # << >> /\ Head(toQueue).type = "Decrease" /\ Head(toQueue) \in ToQueue
    BY <1>0, <1>1 DEF OnQueue
  <1>3. PICK i \in Battlegrounds, s \in Sides : i = Head(toQueue).bg /\ s = Head(toQueue).side
    BY <1>2, ToQueueIs
  <1>4. PICK d, r, ms : /\ d = DecreaseInvitedCount(queue, i, s)
                        /\ r = ScheduleQueueUpdate(d.queue) /\ ms = d.sent
    OBVIOUS
  <1>5. queue' = r /\ toWorld' = toWorld \o ms
    <2>1. Answers(Answer(r, ms))
      BY <1>3, <1>4 DEF SyncDeparture
    <2> QED
      BY <2>1, AnswersAre DEF Answer
  <1>6. /\ QueueOk(d.queue) /\ d.queue.joined = queue.joined /\ SameSlots(queue, d.queue)
        /\ Counts(ms)
    <2>1. CASE ~HasSlot(queue, i)
      <3>1. d = Answer(queue, << >>)
        BY <1>4, <2>1, NothingToDecrease
      <3>2. d.queue = queue /\ d.sent = << >>
        BY <3>1 DEF Answer
      <3>3. Counts(<< >>)
        BY DEF Counts
      <3> QED
        BY <1>0, <1>4, <3>2, <3>3, SameSlotsAre
    <2>2. CASE HasSlot(queue, i)
      <3>1. PICK k, c : k = FirstSlot(queue, i) /\ c = Plus(queue.freeSlots[k].invited, s, -1)
        OBVIOUS
      <3>7. d = DecreaseInvitedCount(queue, i, s)
        BY <1>4
      <3>2. /\ QueueOk(d.queue) /\ SameGroups(queue, d.queue) /\ SameBgs(queue, d.queue)
            /\ d.sent = <<Count(i, s, c[s])>> /\ c \in Counters
        <4>1. QueueOk(d.queue)
          BY <1>0, <2>2, <3>1, <3>7, DecreaseIs, Zenon
        <4>2. SameGroups(queue, d.queue) /\ SameBgs(queue, d.queue)
          BY <1>0, <2>2, <3>1, <3>7, DecreaseIs, Zenon
        <4>3. c \in Counters
          BY <1>0, <2>2, <3>1, <3>7, DecreaseIs, Zenon
        <4>4. d.sent = <<Count(i, s, c[s])>>
          BY <2>2, <3>1, <3>7 DEF DecreaseInvitedCount, Answer, Count
        <4> QED
          BY <4>1, <4>2, <4>3, <4>4
      <3>3. PICK m : m = Count(i, s, c[s])
        OBVIOUS
      <3>4. c[s] \in 0 .. Width - 1
        BY <3>2 DEF Counters
      <3>5. m \in ToWorld /\ m.type = "Count"
        BY <3>3, <3>4 DEF Count, ToWorld
      <3>6. Counts(<<m>>)
        BY <3>5 DEF Counts
      <3> QED
        BY <1>4, <3>2, <3>3, <3>6, SameSlotsAre DEF SameGroups
    <2> QED
      BY <2>1, <2>2
  <1>7. QueueOk(r) /\ SameGroups(d.queue, r) /\ r.freeSlots = d.queue.freeSlots
    BY <1>4, <1>6, ScheduleIs, Zenon
  <1>8. QueueOk(queue') /\ queue'.joined = queue.joined /\ SameSlots(queue, queue')
    BY <1>5, <1>6, <1>7, SameSlotsAre, SlotsAgain, Zenon DEF SameGroups
  <1>9. ms \in Seq(ToWorld) /\ \A k \in DOMAIN ms : ms[k].type # "Create"
    BY <1>6 DEF Counts
  <1> QED
    BY <1>1, <1>5, <1>8, <1>9, OtherQueueStep, Zenon

LEMMA ListStep ==
  ASSUME Inv, ListBattleground
  PROVE  Inv'
  <1>0. QueueOk(queue) /\ toQueue \in Seq(ToQueue) /\ toWorld \in Seq(ToWorld)
    BY DEF Inv, TypeInv
  <1>1. OnQueue("FreeAdd")
    BY DEF ListBattleground
  <1>2. /\ toQueue # << >> /\ Head(toQueue).type = "FreeAdd" /\ Head(toQueue) \in ToQueue
        /\ toQueue' = Tail(toQueue) /\ UNCHANGED bgs
    BY <1>0, <1>1 DEF OnQueue
  <1>3. PICK h \in ToQueue : h = Head(toQueue) /\ h.type = "FreeAdd"
    BY <1>2
  <1>4. PICK e \in Slots : e = h.entry
    BY <1>3, ToQueueIs
  <1>5. PICK r, ns : r = ScheduleQueueUpdate(AddBgToFreeSlots(queue, e)) /\ ns = << >>
    OBVIOUS
  <1>6. queue' = r /\ toWorld' = toWorld \o ns
    <2>1. Answers(Answer(r, ns))
      BY <1>3, <1>4, <1>5 DEF ListBattleground
    <2> QED
      BY <2>1, AnswersAre DEF Answer
  <1>7. toWorld' = toWorld
    BY <1>0, <1>5, <1>6
  <1>8. Taken(toQueue, toQueue', h)
    BY <1>0, <1>2, <1>3, TakenIs, Zenon
  <1>9. e.bg \in Battlegrounds /\ h \in Adds(e.bg) /\ \A i : h \notin Drops(i)
    BY <1>3, <1>4 DEF Slots, Adds, Drops
  <1>10. e.bg <= queue.created
    <2>1. Listed(e.bg, queue, bgs[e.bg], toQueue, toWorld)
      BY <1>9 DEF Inv, ListingInv
    <2>2. ~Absent(toQueue, Adds(e.bg))
      BY <1>8, <1>9 DEF Taken
    <2>3. ~(e.bg > queue.created)
      BY <2>1, <2>2 DEF Listed
    <2>4. e.bg \in Int /\ queue.created \in Int
      BY <1>0, <1>9, QueueTypes, Numbers DEF Battlegrounds
    <2> QED
      BY <2>3, <2>4
  <1>11. /\ QueueOk(r) /\ SameGroups(queue, r)
         /\ \A i : /\ HasSlot(r, i) <=> HasSlot(queue, i) \/ i = e.bg
                   /\ Twice(queue, i) => Twice(r, i)
                   /\ i = e.bg /\ HasSlot(queue, i) => Twice(r, i)
    BY <1>0, <1>5, <1>10, ListIs, Zenon
  <1>12. TypeInv'
    BY <1>0, <1>1, <1>6, <1>7, <1>11, QueueStep DEF SameGroups
  <1>13. ASSUME NEW i \in Battlegrounds PROVE Listed(i, queue', bgs'[i], toQueue', toWorld')
    <2>1. Listed(i, queue, bgs[i], toQueue, toWorld)
      BY DEF Inv, ListingInv
    <2>2. i \in Int /\ queue.created \in Nat
      BY <1>0, QueueTypes, Numbers DEF Battlegrounds
    <2>3. h \notin Drops(i) /\ (h \in Adds(i) => i = e.bg)
      BY <1>4, <1>9 DEF Adds
    <2>4. r.created = queue.created
      BY <1>11 DEF SameGroups
    <2>5. /\ HasSlot(queue, i) => HasSlot(r, i)
          /\ Twice(queue, i) => Twice(r, i)
          /\ h \in Adds(i) /\ HasSlot(queue, i) => Twice(r, i)
      BY <1>11, <2>3
    <2>6. Listed(i, r, bgs[i], toQueue', toWorld)
      BY <1>8, <2>1, <2>2, <2>3, <2>4, <2>5, ListedEntryAdded
    <2> QED
      BY <1>2, <1>6, <1>7, <2>6
  <1> QED
    BY <1>12, <1>13 DEF Inv, ListingInv

LEMMA UnlistStep ==
  ASSUME Inv, UnlistBattleground
  PROVE  Inv'
  <1>0. QueueOk(queue) /\ toQueue \in Seq(ToQueue) /\ toWorld \in Seq(ToWorld)
    BY DEF Inv, TypeInv
  <1>1. OnQueue("FreeRemove")
    BY DEF UnlistBattleground
  <1>2. /\ toQueue # << >> /\ Head(toQueue).type = "FreeRemove" /\ Head(toQueue) \in ToQueue
        /\ toQueue' = Tail(toQueue) /\ UNCHANGED bgs
    BY <1>0, <1>1 DEF OnQueue
  <1>3. PICK h \in ToQueue : h = Head(toQueue) /\ h.type = "FreeRemove"
    BY <1>2
  <1>4. PICK b \in Battlegrounds : b = h.bg
    BY <1>3, ToQueueIs
  <1>5. PICK r, ns : r = RemoveBgFromFreeSlots(queue, b) /\ ns = << >>
    OBVIOUS
  <1>6. queue' = r /\ toWorld' = toWorld \o ns
    <2>1. Answers(Answer(r, ns))
      BY <1>3, <1>4, <1>5 DEF UnlistBattleground
    <2> QED
      BY <2>1, AnswersAre DEF Answer
  <1>7. toWorld' = toWorld
    BY <1>0, <1>5, <1>6
  <1>8. Taken(toQueue, toQueue', h)
    BY <1>0, <1>2, <1>3, TakenIs, Zenon
  <1>9. /\ QueueOk(r) /\ SameGroups(queue, r)
        /\ \A i : /\ i # b => (HasSlot(queue, i) => HasSlot(r, i)) /\ (Twice(queue, i) => Twice(r, i))
                  /\ Twice(queue, i) => HasSlot(r, i)
    BY <1>0, <1>5, UnlistIs
  <1>10. TypeInv'
    BY <1>0, <1>1, <1>6, <1>7, <1>9, QueueStep DEF SameGroups
  <1>11. ASSUME NEW i \in Battlegrounds PROVE Listed(i, queue', bgs'[i], toQueue', toWorld')
    <2>1. Listed(i, queue, bgs[i], toQueue, toWorld)
      BY DEF Inv, ListingInv
    <2>2. r.created = queue.created
      BY <1>9 DEF SameGroups
    <2>3. h \notin Adds(i) /\ (h \in Drops(i) <=> i = b)
      BY <1>3, <1>4 DEF Adds, Drops
    <2>4. Listed(i, r, bgs[i], toQueue', toWorld)
      <3>1. CASE i = b
        BY <1>8, <1>9, <2>1, <2>2, <2>3, <3>1, ListedEntryDropped
      <3>2. CASE i # b
        <4>1. i \in Int /\ queue.created \in Nat
          BY <1>0, QueueTypes, Numbers DEF Battlegrounds
        <4>2. (HasSlot(queue, i) => HasSlot(r, i)) /\ (Twice(queue, i) => Twice(r, i))
          BY <1>9, <3>2
        <4> QED
          BY <1>8, <2>1, <2>2, <2>3, <3>2, <4>1, <4>2, ListedEntryAdded
      <3> QED
        BY <3>1, <3>2
    <2> QED
      BY <1>2, <1>6, <1>7, <2>4
  <1> QED
    BY <1>10, <1>11 DEF Inv, ListingInv

LEMMA UpdateStep ==
  ASSUME Inv, UpdateQueue
  PROVE  Inv'
  <1>0. QueueOk(queue) /\ toQueue \in Seq(ToQueue) /\ toWorld \in Seq(ToWorld)
    BY DEF Inv, TypeInv
  <1>1. PICK u : u = Update(queue)
    OBVIOUS
  <1>2. /\ queue' = u.queue /\ toWorld' = toWorld \o u.sent
        /\ UNCHANGED <<where, slot, invite, at, timers, trips, bgs, toQueue>>
    BY <1>1, AnswersAre DEF UpdateQueue
  <1>3. Updated(queue, u.queue, u.sent)
    BY <1>0, <1>1, UpdateIs
  <1>4. QueueOk(u.queue) /\ u.queue.joined = queue.joined /\ u.sent \in Seq(ToWorld)
    BY <1>3 DEF Updated, Grows
  <1>5. toWorld' \in Seq(ToWorld) /\ Sent(toWorld, u.sent, toWorld')
    BY <1>0, <1>2, <1>4, SentIs, Zenon
  <1>6. TypeInv'
    BY <1>2, <1>4, <1>5 DEF Inv, TypeInv, PlayersOk
  <1>7. ASSUME NEW i \in Battlegrounds PROVE Listed(i, queue', bgs'[i], toQueue', toWorld')
    <2>1. Listed(i, queue, bgs[i], toQueue, toWorld)
      BY DEF Inv, ListingInv
    <2>2. i \in Int /\ queue.created \in Nat
      BY <1>0, QueueTypes, Numbers DEF Battlegrounds
    <2>3. Listed(i, u.queue, bgs[i], toQueue, toWorld')
      BY <1>3, <1>5, <2>1, <2>2, ListedUpdated
    <2> QED
      BY <1>2, <2>3
  <1> QED
    BY <1>6, <1>7 DEF Inv, ListingInv

-----------------------------------------------------------------------------
LEMMA InvInit ==
  ASSUME Init
  PROVE  Inv
  <1>1. NoInstance \in Instance /\ None \in Counters /\ 0 \in 0 .. MaxInstances
    BY Numbers DEF NoInstance, None, Counters, Instance, Statuses, Joinable
  <1>2. PlayersOk
    BY <1>1 DEF Init, PlayersOk, Places
  <1>3. toWorld \in Seq(ToWorld) /\ toQueue \in Seq(ToQueue) /\ toWorld = << >> /\ toQueue = << >>
    BY DEF Init
  <1>4. QueueOk(queue)
    <2>1. queue = EmptyQueue
      BY DEF Init
    <2>2. << >> \in Seq(Groups) /\ << >> \in Seq(Slots) /\ DOMAIN << >> = {}
      OBVIOUS
    <2>3. /\ queue.groups = [s \in Sides |-> << >>] /\ queue.member = [p \in Players |-> 0]
          /\ queue.freeSlots = << >> /\ queue.scheduled = FALSE
          /\ queue.created = 0 /\ queue.joined = 0
      BY <2>1 DEF EmptyQueue
    <2>4. queue \in Queues
      <3>1. [s \in Sides |-> << >>] \in [Sides -> Seq(Groups)]
        BY <2>2
      <3>2. [p \in Players |-> 0] \in [Players -> 0 .. MaxJoins] /\ 0 \in 0 .. MaxJoins
        BY Numbers
      <3> QED
        BY <1>1, <2>1, <2>2, <3>1, <3>2 DEF EmptyQueue, Queues
    <2>5. GroupsOk(queue)
      BY <2>2, <2>3 DEF GroupsOk, Apart
    <2>6. Waiting(queue) = {}
      BY <2>2, <2>3 DEF Waiting
    <2>7. 2 * queue.created + Cardinality(Waiting(queue)) <= queue.joined
      BY <2>3, <2>6, FS_EmptySet
    <2> QED
      BY <2>2, <2>3, <2>4, <2>5, <2>7 DEF QueueOk
  <1>5. queue.joined + Cardinality(JoinsIn(toQueue)) <= MaxJoins
    <2>1. JoinsIn(toQueue) = {} /\ queue.joined = 0
      BY <1>3 DEF JoinsIn, Init, EmptyQueue
    <2> QED
      BY <2>1, FS_EmptySet, Numbers
  <1>6. ASSUME NEW i \in Battlegrounds PROVE Listed(i, queue, bgs[i], toQueue, toWorld)
    <2>1. queue.created = 0 /\ i \in Nat /\ i > 0
      BY Numbers DEF Init, EmptyQueue, Battlegrounds
    <2>2. bgs[i].listed = FALSE /\ bgs[i].status = "none"
      BY DEF Init, NoInstance
    <2>3. \A M, N : /\ Absent(toQueue, M) /\ Absent(toWorld, M) /\ Single(toQueue, M) /\ Single(toWorld, M)
                    /\ Before(toQueue, M, N)
      BY <1>3, NoneIs
    <2> QED
      BY <2>1, <2>2, <2>3 DEF Listed
  <1> QED
    BY <1>2, <1>3, <1>4, <1>5, <1>6 DEF Inv, TypeInv, ListingInv

LEMMA InvNext ==
  ASSUME Inv, [Next]_vars
  PROVE  Inv'
  <1>1. CASE UNCHANGED vars
    BY <1>1 DEF vars, Inv, TypeInv, PlayersOk, ListingInv
  <1>2. CASE Next
    <2>1. CASE \E party \in Parties : Join(party)
      BY <2>1, JoinStep
    <2>2. ASSUME NEW p \in Players,
                 \/ \E enter \in BOOLEAN : Port(p, enter)
                 \/ Logout(p) \/ Login(p) \/ ChangeMap(p) \/ Arrive(p) \/ RemoveEvent(p)
          PROVE  Inv'
      BY <2>2, PortStep, LogoutStep, LoginStep, ChangeMapStep, ArriveStep, RemoveEventStep
    <2>3. ASSUME NEW i \in Battlegrounds,
                 \/ Start(i) \/ EndBattleGround(i) \/ SendHome(i) \/ RemoveBattleGround(i)
                 \/ \E p \in Players : RemoveOffline(i, p)
          PROVE  Inv'
      BY <2>3, StartStep, EndStep, SendHomeStep, RemoveStep, RemoveOfflineStep
    <2>4. CASE WorldMessage
      BY <2>4, JoinedStep, InvitedStep, CountStep, CreateStep, EnterStep, LeftStep, TimerStep
      DEF WorldMessage
    <2>5. CASE QueueMessage
      BY <2>5, JoinQueueStep, PortQueueStep, RemoveFromQueueStep, ExpireStep, ListStep,
         UnlistStep, SyncStatusStep, SyncDepartureStep DEF QueueMessage
    <2>6. CASE UpdateQueue
      BY <2>6, UpdateStep
    <2> QED
      BY <1>2, <2>1, <2>2, <2>3, <2>4, <2>5, <2>6 DEF Next
  <1> QED
    BY <1>1, <1>2

LEMMA Invariance == Spec => []Inv
  <1>1. Init => Inv
    BY InvInit
  <1>2. Inv /\ [Next]_vars => Inv'
    BY InvNext
  <1> QED
    BY <1>1, <1>2, PTL DEF Spec

LEMMA AnswersForget ==
  ASSUME NEW answer, Answers(answer)
  PROVE  missed' \subseteq missed
  BY DEF Answers

\* The history is one of players.
LEMMA MissedNext ==
  ASSUME Inv, missed \subseteq Players, [Next]_vars
  PROVE  missed' \subseteq Players
  <1>1. CASE UNCHANGED vars
    BY <1>1 DEF vars
  <1>2. CASE \E party \in Parties : Join(party)
    BY <1>2 DEF Join, playerVars
  <1>3. ASSUME NEW p \in Players,
               \/ \E enter \in BOOLEAN : Port(p, enter)
               \/ Logout(p) \/ Login(p) \/ ChangeMap(p) \/ Arrive(p) \/ RemoveEvent(p)
        PROVE  missed' = missed
    BY <1>3, ZenonT(40) DEF Port, Logout, Login, ChangeMap, Arrive, RemoveEvent, playerVars
  <1>4. ASSUME NEW i \in Battlegrounds,
               \/ Start(i) \/ EndBattleGround(i) \/ SendHome(i) \/ RemoveBattleGround(i)
               \/ \E p \in Players : RemoveOffline(i, p)
        PROVE  missed' = missed
    BY <1>4, ZenonT(40)
    DEF Start, EndBattleGround, SendHome, RemoveBattleGround, RemoveOffline, playerVars
  <1>5. CASE Joined \/ SetInvitedCount \/ CreateNewBattleGround \/ Enter \/ Left
    <2>1. missed' = missed
      BY <1>5, ZenonT(40)
      DEF Joined, SetInvitedCount, CreateNewBattleGround, Enter, Left, playerVars
    <2> QED
      BY <2>1
  <1>6. CASE Invited \/ Timer
    <2>1. OnWorld("Invited") \/ OnWorld("Timer")
      BY <1>6 DEF Invited, Timer
    <2>2. Head(toWorld) \in ToWorld /\ Head(toWorld).type \in {"Invited", "Timer"}
      BY <2>1, HandledIs DEF Inv, TypeInv
    <2>3. Head(toWorld).player \in Players
      BY <2>2, ToWorldIs
    <2>4. missed' = missed \/ Misses(Head(toWorld).player, Head(toWorld).id)
      BY <1>6, ZenonT(40) DEF Invited, Timer
    <2> QED
      BY <2>3, <2>4 DEF Misses
  <1>7. CASE QueueMessage \/ UpdateQueue
    <2>1. missed' \subseteq missed
      BY <1>7, AnswersForget
      DEF QueueMessage, JoinQueue, PortQueue, RemoveFromQueue, Expire, ListBattleground,
          UnlistBattleground, SyncStatus, SyncDeparture, UpdateQueue
    <2> QED
      BY <2>1
  <1> QED
    BY <1>1, <1>2, <1>3, <1>4, <1>5, <1>6, <1>7 DEF Next, WorldMessage

\* The variables have their types: no handler of the world or of the queue
\* leaves a battleground, a group or an entry that is not one.
THEOREM TypesHold == Spec => []TypeOK
  <1>1. Inv /\ missed \subseteq Players => TypeOK
    BY DEF Inv, TypeInv, PlayersOk, QueueOk, TypeOK
  <1>2. Init => missed \subseteq Players
    BY DEF Init
  <1>3. Inv /\ missed \subseteq Players /\ [Next]_vars => (missed \subseteq Players)'
    BY MissedNext
  <1> QED
    BY <1>1, <1>2, <1>3, Invariance, PTL DEF Spec

\* Who is invited finds his battleground among the free slots, so that the
\* assertion of HandleBattlefieldPortOpcode holds: the entry of its creation
\* stays, because every removal under way follows the addition of another.
THEOREM InvitationsAreKept == Spec => []InvitationsHaveABattleground
  <1>1. ASSUME Inv PROVE InvitationsHaveABattleground
    <2> SUFFICES ASSUME NEW g \in GroupsOf(queue), g.to # 0 PROVE HasSlot(queue, g.to)
      BY DEF InvitationsHaveABattleground
    <2>1. QueueOk(queue)
      BY <1>1 DEF Inv, TypeInv
    <2>2. PICK s \in Sides : g \in ToSet(queue.groups[s])
      BY DEF GroupsOf
    <2>3. PICK k \in DOMAIN queue.groups[s] : g = queue.groups[s][k]
      BY <2>2 DEF ToSet
    <2>4. GroupOk(g, s, queue.joined, queue.created) /\ g \in Groups
      BY <2>1, <2>3, QueueTypes DEF QueueOk, GroupsOk
    <2>5. g.to <= queue.created /\ g.to \in 0 .. MaxInstances
      BY <2>4 DEF GroupOk, Groups
    <2>6. g.to \in Battlegrounds
      BY <2>5, Numbers DEF Battlegrounds
    <2>7. Listed(g.to, queue, bgs[g.to], toQueue, toWorld)
      BY <1>1, <2>6 DEF Inv, ListingInv
    <2> QED
      BY <2>5, <2>7 DEF Listed
  <1> QED
    BY <1>1, Invariance, PTL
=============================================================================
