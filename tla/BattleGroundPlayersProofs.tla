---------------------- MODULE BattleGroundPlayersProofs ----------------------
(***************************************************************************)
(* Proofs about BattleGrounds: what the players know of their queue, and   *)
(* how long an invitation lasts, for any players, parties and sizes, any   *)
(* number of joins and of messages under way, and patient clients.         *)
(***************************************************************************)
EXTENDS BattleGroundsProofs

-----------------------------------------------------------------------------
(***************************************************************************)
(* The messages of one player.                                             *)
(***************************************************************************)
Joins(p) == {m \in ToQueue : m.type = "Join" /\ p \in m.players}
Asks(p) == Joins(p) \cup {m \in ToQueue : m.type = "Port" /\ m.player = p}
Removes(p) == {m \in ToQueue : m.type = "Remove" /\ m.player = p}
Expiries(p, n) == {m \in ToQueue : m.type = "Expire" /\ m.player = p /\ m.id = n}
ExpiriesTo(p, n, i) == {m \in Expiries(p, n) : m.bg = i}
FromPlayer(p) ==
    Asks(p) \cup Removes(p) \cup {m \in ToQueue : m.type = "Expire" /\ m.player = p}

Joineds(p) == {m \in ToWorld : m.type = "Joined" /\ p \in m.players}
Enters(p) == {m \in ToWorld : m.type = "Enter" /\ m.player = p}
Replies(p) == Joineds(p) \cup Enters(p)
Lefts(p) == {m \in ToWorld : m.type = "Left" /\ m.player = p}
Notes(p) == {m \in ToWorld : m.type = "Invited" /\ m.player = p}
OldNotes(p, n) == {m \in ToWorld : m.type = "Invited" /\ m.player = p /\ m.id # n}
NotesTo(p, n, i) == {m \in NotesOf(p, n) : m.bg = i}
Alarms(p, n) == {m \in ToWorld : m.type = "Timer" /\ m.player = p /\ m.id = n}
AlarmsTo(p, n, i) == {m \in Alarms(p, n) : m.bg = i}
Tidings(p, n) == NotesOf(p, n) \cup Alarms(p, n)
ForPlayer(p) == Replies(p) \cup Lefts(p) \cup Notes(p)
                  \cup {m \in ToWorld : m.type = "Timer" /\ m.player = p}

(***************************************************************************)
(* The invitation of a group to one of its players is one thing: a         *)
(* message, a timer, or the message or the question that the timer left.   *)
(***************************************************************************)
Rings(t, n) == \E i \in Battlegrounds : [bg |-> i, id |-> n] \in t

\* The invitation with the group n: t are the timers of the player.
Token(p, n, t, tq, tw) ==
    /\ Single(tw, Tidings(p, n)) /\ Single(tq, Expiries(p, n))
    /\ \A i, j \in Battlegrounds :
          [bg |-> i, id |-> n] \in t /\ [bg |-> j, id |-> n] \in t => i = j
    /\ ~Absent(tw, Tidings(p, n)) => Absent(tq, Expiries(p, n)) /\ ~Rings(t, n)
    /\ ~Absent(tq, Expiries(p, n)) => ~Rings(t, n)

NoToken(p, n, t, tq, tw) ==
    Absent(tw, Tidings(p, n)) /\ Absent(tq, Expiries(p, n)) /\ ~Rings(t, n)

Tokens(p) ==
    \A n \in 1 .. MaxJoins :
       /\ Token(p, n, timers[p], toQueue, toWorld)
       /\ n > queue.joined \/ Seat(queue, p, n, 0) => NoToken(p, n, timers[p], toQueue, toWorld)

(***************************************************************************)
(* What a player does not know yet is under way to him.                    *)
(***************************************************************************)
Awaits(p) == ~Absent(toQueue, Asks(p)) \/ ~Absent(toWorld, Replies(p))

OneAnswer(p) ==
    /\ Single(toQueue, Asks(p)) /\ Single(toWorld, Replies(p))
    /\ Absent(toQueue, Asks(p)) \/ Absent(toWorld, Replies(p))
    /\ Awaits(p) => where[p] = "world" /\ at[p] = 0

Member(p) ==
    /\ at[p] # 0 /\ where[p] # "offline" => slot[p]
    /\ queue.member[p] # 0 =>
          /\ at[p] = 0
          /\ \/ ~Absent(toQueue, Removes(p))
             \/ where[p] \in {"world", "away"} /\ (slot[p] \/ ~Absent(toWorld, Joineds(p)))
    /\ \A n, i : Seat(queue, p, n, i) => n = queue.member[p]

Asked(p) ==
    /\ Before(toQueue, Removes(p), Asks(p))
    /\ ~Absent(toQueue, Joins(p)) => queue.member[p] = 0 \/ ~Absent(toQueue, Removes(p))

Answered(p) ==
    LET n == queue.member[p]
    IN /\ ~Absent(toWorld, Lefts(p)) => at[p] = 0 /\ (n = 0 \/ ~Absent(toWorld, Joineds(p)))
       /\ Before(toWorld, Lefts(p), Joineds(p))
       /\ ~Absent(toWorld, Enters(p)) => slot[p] /\ n = 0 /\ Absent(toWorld, Lefts(p))
       /\ ~Absent(toWorld, Joineds(p)) =>
             /\ Absent(toQueue, Removes(p)) /\ Absent(toQueue, Expiries(p, n))
             /\ Absent(toWorld, Alarms(p, n)) /\ ~Rings(timers[p], n)
       /\ Before(toWorld, Joineds(p), NotesOf(p, n))
       /\ Before(toWorld, OldNotes(p, n), NotesOf(p, n))

\* The invitation of p to i, with the group n, is on its way, known, or
\* running out.  Otherwise he was on the way to another map when he should
\* have heard of it.
Informed(p, n, i) ==
    \/ ~Absent(toWorld, NotesTo(p, n, i))
    \/ /\ Absent(toWorld, Joineds(p)) /\ Absent(toWorld, Notes(p))
       /\ invite[p] = i /\ [bg |-> i, id |-> n] \in timers[p]
    \/ /\ Absent(toWorld, Joineds(p))
       /\ ~Absent(toWorld, AlarmsTo(p, n, i)) \/ ~Absent(toQueue, ExpiriesTo(p, n, i))

Knows(p) ==
    \A n \in 1 .. MaxJoins : \A i \in Battlegrounds :
       Seat(queue, p, n, i) /\ Absent(toQueue, Removes(p)) => Informed(p, n, i) \/ p \in missed

PlayerInv(p) == Tokens(p) /\ OneAnswer(p) /\ Member(p) /\ Asked(p) /\ Answered(p) /\ Knows(p)

\* Who is where: only who has the battleground takes part in it.
EntersTo(p, i) == {m \in Enters(p) : m.bg = i}

Place(p) ==
    /\ \A i \in Battlegrounds : p \in bgs[i].players => at[p] = i /\ bgs[i].status # "none"
    /\ \A i \in Battlegrounds : at[p] = i =>
          /\ i <= queue.created /\ Absent(toWorld, Creates(i))
          /\ where[p] = "away" => bgs[i].status = "none"
    /\ \A i \in Battlegrounds : /\ ~Absent(toWorld, EntersTo(p, i)) => i <= queue.created
                                /\ Before(toWorld, Creates(i), EntersTo(p, i))

PlayersInv == \A p \in Players : PlayerInv(p) /\ Place(p)

-----------------------------------------------------------------------------
(***************************************************************************)
(* The messages of a player after one more was sent or handled.            *)
(***************************************************************************)
Within(M, U) == M \subseteq U

\* As far as the messages of U go, ms and rs are the same.
Kin(ms, rs, U) ==
    \A M : Within(M, U) =>
       /\ Absent(rs, M) <=> Absent(ms, M)
       /\ Single(ms, M) => Single(rs, M)
       /\ \A N : Within(N, U) /\ Before(ms, M, N) => Before(rs, M, N)

\* As far as the messages of U go, m was sent after ms.
Told(ms, m, rs, U) ==
    \A M : Within(M, U) =>
       /\ Absent(rs, M) <=> Absent(ms, M) /\ m \notin M
       /\ m \notin M /\ Single(ms, M) => Single(rs, M)
       /\ Absent(ms, M) => Single(rs, M)
       /\ \A N : Within(N, U) =>
             /\ Before(ms, M, N) /\ m \notin M => Before(rs, M, N)
             /\ Absent(ms, N) /\ (m \notin M \/ m \notin N) => Before(rs, M, N)

LEMMA AbsentIs ==
  ASSUME NEW ms, NEW M, Absent(ms, M)
  PROVE  Single(ms, M) /\ \A N : Before(ms, M, N) /\ Before(ms, N, M)
  BY DEF Absent, Single, Before

LEMMA SubsetAbsent ==
  ASSUME NEW ms, NEW M, NEW N, Within(M, N)
  PROVE  /\ Absent(ms, N) => Absent(ms, M)
         /\ Single(ms, N) => Single(ms, M)
  BY DEF Absent, Single, Within

LEMMA KinIs ==
  ASSUME NEW ms, NEW rs, NEW U
  PROVE  /\ rs = ms => Kin(ms, rs, U)
         /\ \A h : Taken(ms, rs, h) /\ h \notin U => Kin(ms, rs, U)
         /\ \A ns : Sent(ms, ns, rs) /\ Absent(ns, U) => Kin(ms, rs, U)
  <1>1. rs = ms => Kin(ms, rs, U)
    BY DEF Kin
  <1>2. ASSUME NEW h, Taken(ms, rs, h), h \notin U PROVE Kin(ms, rs, U)
    <2>1. \A M : Within(M, U) => h \notin M
      BY <1>2 DEF Within
    <2> QED
      BY <1>2, <2>1 DEF Taken, Kin
  <1>3. ASSUME NEW ns, Sent(ms, ns, rs), Absent(ns, U) PROVE Kin(ms, rs, U)
    <2>1. \A M : Within(M, U) => Absent(ns, M)
      BY <1>3, SubsetAbsent
    <2> QED
      BY <1>3, <2>1 DEF Sent, Kin
  <1> QED
    BY <1>1, <1>2, <1>3

LEMMA ToldIs ==
  ASSUME NEW ms, NEW m, NEW rs, NEW U, NEW ns, Sent(ms, ns, rs),
         \/ ns = <<m>>
         \/ \E cs : Absent(cs, U) /\ Sent(cs, <<m>>, ns)
  PROVE  Told(ms, m, rs, U)
  <1>1. \A M : Within(M, U) => Single(ns, M) /\ (Absent(ns, M) <=> m \notin M)
    <2>1. CASE ns = <<m>>
      BY <2>1, OneIs
    <2>2. ASSUME NEW cs, Absent(cs, U), Sent(cs, <<m>>, ns), NEW M, Within(M, U)
          PROVE  Single(ns, M) /\ (Absent(ns, M) <=> m \notin M)
      <3>1. Absent(cs, M)
        BY <2>2, SubsetAbsent
      <3>2. Single(<<m>>, M) /\ (Absent(<<m>>, M) <=> m \notin M)
        BY OneIs
      <3> QED
        BY <2>2, <3>1, <3>2 DEF Sent
    <2> QED
      BY <2>1, <2>2
  <1>2. ASSUME NEW M, Within(M, U)
        PROVE  /\ Absent(rs, M) <=> Absent(ms, M) /\ m \notin M
               /\ m \notin M /\ Single(ms, M) => Single(rs, M)
               /\ Absent(ms, M) => Single(rs, M)
    BY <1>1, <1>2 DEF Sent
  <1>3. ASSUME NEW M, Within(M, U), NEW N, Within(N, U)
        PROVE  /\ Before(ms, M, N) /\ m \notin M => Before(rs, M, N)
               /\ Absent(ms, N) /\ (m \notin M \/ m \notin N) => Before(rs, M, N)
    <2>1. Before(ms, M, N) /\ m \notin M => Before(rs, M, N)
      BY <1>1, <1>3 DEF Sent
    <2>2. Absent(ms, N) /\ m \notin M => Before(rs, M, N)
      BY <1>1, <1>3 DEF Sent
    <2>3. ASSUME Absent(ms, N), m \notin N PROVE Before(rs, M, N)
      BY <1>2, <1>3, <2>3, AbsentIs
    <2> QED
      BY <2>1, <2>2, <2>3
  <1> QED
    BY <1>2, <1>3 DEF Told

LEMMA OfPlayer ==
  ASSUME NEW p
  PROVE  /\ Within(Joins(p), FromPlayer(p)) /\ Within(Asks(p), FromPlayer(p))
         /\ Within(Removes(p), FromPlayer(p))
         /\ \A n : Within(Expiries(p, n), FromPlayer(p))
         /\ \A n, i : Within(ExpiriesTo(p, n, i), FromPlayer(p))
         /\ Within(Joineds(p), ForPlayer(p)) /\ Within(Enters(p), ForPlayer(p))
         /\ Within(Replies(p), ForPlayer(p)) /\ Within(Lefts(p), ForPlayer(p))
         /\ Within(Notes(p), ForPlayer(p))
         /\ \A n : Within(NotesOf(p, n), ForPlayer(p)) /\ Within(OldNotes(p, n), ForPlayer(p))
         /\ \A n : Within(Alarms(p, n), ForPlayer(p)) /\ Within(Tidings(p, n), ForPlayer(p))
         /\ \A n, i : Within(NotesTo(p, n, i), ForPlayer(p)) /\ Within(AlarmsTo(p, n, i), ForPlayer(p))
  BY DEF Within, Joins, Asks, Removes, Expiries, ExpiriesTo, FromPlayer, Joineds, Enters, Replies,
         Lefts, Notes, NotesOf, OldNotes, Alarms, Tidings, NotesTo, AlarmsTo, ForPlayer

LEMMA PartsOfPlayer ==
  ASSUME NEW p, NEW ms
  PROVE  /\ Absent(ms, Asks(p)) => Absent(ms, Joins(p))
         /\ Absent(ms, Replies(p)) <=> Absent(ms, Joineds(p)) /\ Absent(ms, Enters(p))
         /\ \A n : /\ Absent(ms, Tidings(p, n)) <=> Absent(ms, NotesOf(p, n)) /\ Absent(ms, Alarms(p, n))
                   /\ Absent(ms, Notes(p)) <=> Absent(ms, NotesOf(p, n)) /\ Absent(ms, OldNotes(p, n))
         /\ \A n, i : /\ Absent(ms, NotesOf(p, n)) => Absent(ms, NotesTo(p, n, i))
                      /\ Absent(ms, Alarms(p, n)) => Absent(ms, AlarmsTo(p, n, i))
                      /\ Absent(ms, Expiries(p, n)) => Absent(ms, ExpiriesTo(p, n, i))
  BY DEF Absent, Joins, Asks, Expiries, ExpiriesTo, Joineds, Enters, Replies,
         Notes, NotesOf, OldNotes, Alarms, Tidings, NotesTo, AlarmsTo
-----------------------------------------------------------------------------
(***************************************************************************)
(* A step that is none of the player's business.                           *)
(***************************************************************************)
\* What the player missed is forgotten with the place it was about.
Remembers(p) == p \in missed /\ queue'.member[p] = queue.member[p] => p \in missed'

Unmoved(p) ==
    /\ where'[p] = where[p] /\ slot'[p] = slot[p] /\ invite'[p] = invite[p]
    /\ at'[p] = at[p] /\ timers'[p] = timers[p] /\ Remembers(p)

SameSeats(q, r, p) ==
    /\ r.member[p] = q.member[p] /\ \A n, i : Seat(r, p, n, i) <=> Seat(q, p, n, i)
    /\ \A n \in 1 .. MaxJoins : n > r.joined => n > q.joined

SameMessages(p) == Kin(toQueue, toQueue', FromPlayer(p)) /\ Kin(toWorld, toWorld', ForPlayer(p))

LEMMA TokensKept ==
  ASSUME NEW p, Tokens(p), timers'[p] = timers[p], SameSeats(queue, queue', p), SameMessages(p)
  PROVE  Tokens(p)'
  <1> SUFFICES ASSUME NEW n \in 1 .. MaxJoins
               PROVE  /\ Token(p, n, timers[p], toQueue', toWorld')
                      /\ n > queue'.joined \/ Seat(queue', p, n, 0) =>
                            NoToken(p, n, timers[p], toQueue', toWorld')
    BY DEF Tokens
  <1>1. /\ Token(p, n, timers[p], toQueue, toWorld)
        /\ n > queue.joined \/ Seat(queue, p, n, 0) => NoToken(p, n, timers[p], toQueue, toWorld)
    BY DEF Tokens
  <1>2. /\ Absent(toWorld', Tidings(p, n)) <=> Absent(toWorld, Tidings(p, n))
        /\ Absent(toQueue', Expiries(p, n)) <=> Absent(toQueue, Expiries(p, n))
        /\ Single(toWorld, Tidings(p, n)) => Single(toWorld', Tidings(p, n))
        /\ Single(toQueue, Expiries(p, n)) => Single(toQueue', Expiries(p, n))
    BY OfPlayer DEF SameMessages, Kin
  <1>3. n > queue'.joined \/ Seat(queue', p, n, 0) => n > queue.joined \/ Seat(queue, p, n, 0)
    BY DEF SameSeats
  <1> QED
    BY <1>1, <1>2, <1>3 DEF Token, NoToken

\* Who waits for no answer may change the map.
Underway == {"world", "away"}

LEMMA Travelled ==
  ASSUME NEW p, PlayerInv(p), SameSeats(queue, queue', p), SameMessages(p),
         \/ where'[p] = where[p]
         \/ ~Awaits(p) /\ where[p] \in Underway /\ where'[p] \in Underway,
         slot'[p] = slot[p], invite'[p] = invite[p], at'[p] = at[p], timers'[p] = timers[p],
         Remembers(p)
  PROVE  PlayerInv(p)'
  <1>1. Tokens(p)'
    BY TokensKept DEF PlayerInv
  <1>2. /\ Absent(toQueue', Asks(p)) <=> Absent(toQueue, Asks(p))
        /\ Absent(toQueue', Joins(p)) <=> Absent(toQueue, Joins(p))
        /\ Absent(toQueue', Removes(p)) <=> Absent(toQueue, Removes(p))
        /\ \A n : Absent(toQueue', Expiries(p, n)) <=> Absent(toQueue, Expiries(p, n))
        /\ \A n, i : Absent(toQueue', ExpiriesTo(p, n, i)) <=> Absent(toQueue, ExpiriesTo(p, n, i))
        /\ Single(toQueue, Asks(p)) => Single(toQueue', Asks(p))
        /\ Before(toQueue, Removes(p), Asks(p)) => Before(toQueue', Removes(p), Asks(p))
    BY OfPlayer DEF SameMessages, Kin
  <1>3. /\ Absent(toWorld', Joineds(p)) <=> Absent(toWorld, Joineds(p))
        /\ Absent(toWorld', Enters(p)) <=> Absent(toWorld, Enters(p))
        /\ Absent(toWorld', Replies(p)) <=> Absent(toWorld, Replies(p))
        /\ Absent(toWorld', Lefts(p)) <=> Absent(toWorld, Lefts(p))
        /\ Absent(toWorld', Notes(p)) <=> Absent(toWorld, Notes(p))
        /\ \A n, i : Absent(toWorld', NotesTo(p, n, i)) <=> Absent(toWorld, NotesTo(p, n, i))
        /\ \A n : Absent(toWorld', Alarms(p, n)) <=> Absent(toWorld, Alarms(p, n))
        /\ \A n, i : Absent(toWorld', AlarmsTo(p, n, i)) <=> Absent(toWorld, AlarmsTo(p, n, i))
        /\ Single(toWorld, Replies(p)) => Single(toWorld', Replies(p))
        /\ Before(toWorld, Lefts(p), Joineds(p)) => Before(toWorld', Lefts(p), Joineds(p))
        /\ \A n : Before(toWorld, Joineds(p), NotesOf(p, n)) => Before(toWorld', Joineds(p), NotesOf(p, n))
        /\ \A n : Before(toWorld, OldNotes(p, n), NotesOf(p, n))
                    => Before(toWorld', OldNotes(p, n), NotesOf(p, n))
    BY OfPlayer DEF SameMessages, Kin
  <1>4. OneAnswer(p)'
    BY <1>2, <1>3 DEF PlayerInv, OneAnswer, Awaits
  <1>5. Member(p)'
    BY <1>2, <1>3 DEF PlayerInv, Member, SameSeats, Underway
  <1>6. Asked(p)'
    BY <1>2 DEF PlayerInv, Asked, SameSeats
  <1>7. Answered(p)'
    BY <1>2, <1>3 DEF PlayerInv, Answered, SameSeats
  <1>8. Knows(p)'
    BY <1>2, <1>3 DEF PlayerInv, Knows, Informed, Remembers, SameSeats
  <1> QED
    BY <1>1, <1>4, <1>5, <1>6, <1>7, <1>8 DEF PlayerInv

LEMMA Framed ==
  ASSUME NEW p, PlayerInv(p), Unmoved(p), SameSeats(queue, queue', p), SameMessages(p)
  PROVE  PlayerInv(p)'
  BY Travelled, Zenon DEF Unmoved

-----------------------------------------------------------------------------
(***************************************************************************)
(* What the players do, and what the others notice of it.                  *)
(***************************************************************************)
LEMMA SameSeatsAre ==
  ASSUME NEW q, NEW r, NEW p
  PROVE  /\ r = q => SameSeats(q, r, p)
         /\ SameGroups(q, r) => SameSeats(q, r, p)
  BY DEF SameSeats, SameGroups, Seat

LEMMA AwaitsIs ==
  ASSUME Inv, NEW p
  PROVE  Unanswered(p) <=> Awaits(p)
  <1>1. toQueue \in Seq(ToQueue) /\ toWorld \in Seq(ToWorld)
    BY DEF Inv, TypeInv
  <1>2. \A k \in DOMAIN toQueue : toQueue[k] \in ToQueue
    BY <1>1
  <1>3. \A k \in DOMAIN toWorld : toWorld[k] \in ToWorld
    BY <1>1
  <1>4. ~Absent(toQueue, Asks(p)) <=>
           \E m \in ToSet(toQueue) : \/ m.type = "Join" /\ p \in m.players
                                     \/ m.type = "Port" /\ m.player = p
    BY <1>2 DEF Absent, Asks, Joins, ToSet
  <1>5. ~Absent(toWorld, Replies(p)) <=>
           \E m \in ToSet(toWorld) : \/ m.type = "Joined" /\ p \in m.players
                                     \/ m.type = "Enter" /\ m.player = p
    BY <1>3 DEF Absent, Replies, Joineds, Enters, ToSet
  <1> QED
    BY <1>4, <1>5 DEF Unanswered, Awaits

\* The queue is told m, nothing else changes.
LEMMA ToldOnly ==
  ASSUME Inv, NEW m \in ToQueue, toQueue' = toQueue \o <<m>>, UNCHANGED <<playerVars, queue, toWorld>>,
         NEW p
  PROVE  /\ Told(toQueue, m, toQueue', FromPlayer(p)) /\ Kin(toWorld, toWorld', ForPlayer(p))
         /\ Unmoved(p) /\ SameSeats(queue, queue', p)
         /\ m \notin FromPlayer(p) => Kin(toQueue, toQueue', FromPlayer(p))
  <1>1. <<m>> \in Seq(ToQueue) /\ toQueue \in Seq(ToQueue)
    BY DEF Inv, TypeInv
  <1>2. Sent(toQueue, <<m>>, toQueue')
    BY <1>1, SentIs, Zenon
  <1>3. Told(toQueue, m, toQueue', FromPlayer(p)) /\ Kin(toWorld, toWorld', ForPlayer(p))
    BY <1>2, ToldIs, KinIs, Zenon
  <1>4. m \notin FromPlayer(p) => Kin(toQueue, toQueue', FromPlayer(p))
    BY <1>2, OneIs, KinIs
  <1> QED
    BY <1>3, <1>4, SameSeatsAre DEF Unmoved, Remembers, playerVars

\* A message that is no invitation that ran out.
LEMMA AskedTokens ==
  ASSUME NEW p, Tokens(p), timers'[p] = timers[p] \/ timers'[p] = {},
         SameSeats(queue, queue', p), NEW m, Told(toQueue, m, toQueue', FromPlayer(p)),
         \A n : m \notin Expiries(p, n), Kin(toWorld, toWorld', ForPlayer(p))
  PROVE  Tokens(p)'
  <1> SUFFICES ASSUME NEW n \in 1 .. MaxJoins
               PROVE  /\ Token(p, n, timers'[p], toQueue', toWorld')
                      /\ n > queue'.joined \/ Seat(queue', p, n, 0) =>
                            NoToken(p, n, timers'[p], toQueue', toWorld')
    BY DEF Tokens
  <1>1. /\ Token(p, n, timers[p], toQueue, toWorld)
        /\ n > queue.joined \/ Seat(queue, p, n, 0) => NoToken(p, n, timers[p], toQueue, toWorld)
    BY DEF Tokens
  <1>2. /\ Absent(toWorld', Tidings(p, n)) <=> Absent(toWorld, Tidings(p, n))
        /\ Single(toWorld, Tidings(p, n)) => Single(toWorld', Tidings(p, n))
    BY OfPlayer DEF Kin
  <1>3. /\ Absent(toQueue', Expiries(p, n)) <=> Absent(toQueue, Expiries(p, n))
        /\ Single(toQueue, Expiries(p, n)) => Single(toQueue', Expiries(p, n))
    BY OfPlayer DEF Told
  <1>4. n > queue'.joined \/ Seat(queue', p, n, 0) => n > queue.joined \/ Seat(queue, p, n, 0)
    BY DEF SameSeats
  <1>5. \A i : [bg |-> i, id |-> n] \in timers'[p] => [bg |-> i, id |-> n] \in timers[p]
    OBVIOUS
  <1> QED
    BY <1>1, <1>2, <1>3, <1>4, <1>5, Zenon DEF Token, NoToken, Rings

LEMMA SameForPlayer ==
  ASSUME NEW p, Kin(toWorld, toWorld', ForPlayer(p))
  PROVE  /\ Absent(toWorld', Joineds(p)) <=> Absent(toWorld, Joineds(p))
         /\ Absent(toWorld', Enters(p)) <=> Absent(toWorld, Enters(p))
         /\ Absent(toWorld', Replies(p)) <=> Absent(toWorld, Replies(p))
         /\ Absent(toWorld', Lefts(p)) <=> Absent(toWorld, Lefts(p))
         /\ Absent(toWorld', Notes(p)) <=> Absent(toWorld, Notes(p))
         /\ \A n, i : Absent(toWorld', NotesTo(p, n, i)) <=> Absent(toWorld, NotesTo(p, n, i))
         /\ \A n : Absent(toWorld', Alarms(p, n)) <=> Absent(toWorld, Alarms(p, n))
         /\ \A n, i : Absent(toWorld', AlarmsTo(p, n, i)) <=> Absent(toWorld, AlarmsTo(p, n, i))
         /\ Single(toWorld, Replies(p)) => Single(toWorld', Replies(p))
         /\ Before(toWorld, Lefts(p), Joineds(p)) => Before(toWorld', Lefts(p), Joineds(p))
         /\ \A n : Before(toWorld, Joineds(p), NotesOf(p, n)) => Before(toWorld', Joineds(p), NotesOf(p, n))
         /\ \A n : Before(toWorld, OldNotes(p, n), NotesOf(p, n))
                     => Before(toWorld', OldNotes(p, n), NotesOf(p, n))
  BY OfPlayer DEF Kin

LEMMA SameFromPlayer ==
  ASSUME NEW p, Kin(toQueue, toQueue', FromPlayer(p))
  PROVE  /\ Absent(toQueue', Asks(p)) <=> Absent(toQueue, Asks(p))
         /\ Absent(toQueue', Joins(p)) <=> Absent(toQueue, Joins(p))
         /\ Absent(toQueue', Removes(p)) <=> Absent(toQueue, Removes(p))
         /\ \A n : Absent(toQueue', Expiries(p, n)) <=> Absent(toQueue, Expiries(p, n))
         /\ \A n, i : Absent(toQueue', ExpiriesTo(p, n, i)) <=> Absent(toQueue, ExpiriesTo(p, n, i))
         /\ Single(toQueue, Asks(p)) => Single(toQueue', Asks(p))
         /\ Before(toQueue, Removes(p), Asks(p)) => Before(toQueue', Removes(p), Asks(p))
  BY OfPlayer DEF Kin

\* A join or a click, of who waits for no answer.
LEMMA AskTells ==
  ASSUME NEW p, PlayerInv(p), ~Awaits(p), where[p] = "world", at[p] = 0,
         NEW m, Told(toQueue, m, toQueue', FromPlayer(p)), Kin(toWorld, toWorld', ForPlayer(p)),
         Unmoved(p), SameSeats(queue, queue', p), m \in Asks(p), m.type \in {"Join", "Port"},
         m \in Joins(p) => ~slot[p]
  PROVE  PlayerInv(p)'
  <1>1. Absent(toQueue, Asks(p)) /\ Absent(toWorld, Replies(p)) /\ Absent(toQueue, Joins(p))
        /\ Absent(toWorld, Joineds(p)) /\ Absent(toWorld, Enters(p))
    BY PartsOfPlayer DEF Awaits
  <1>2. m \notin Removes(p) /\ \A n : m \notin Expiries(p, n) /\ \A i : m \notin ExpiriesTo(p, n, i)
    BY DEF Removes, Expiries, ExpiriesTo
  <1>3. /\ ~Absent(toQueue', Asks(p)) /\ Single(toQueue', Asks(p))
        /\ ~Absent(toQueue', Joins(p)) => m \in Joins(p)
        /\ Absent(toQueue', Removes(p)) <=> Absent(toQueue, Removes(p))
        /\ \A n : Absent(toQueue', Expiries(p, n)) <=> Absent(toQueue, Expiries(p, n))
        /\ \A n, i : Absent(toQueue', ExpiriesTo(p, n, i)) <=> Absent(toQueue, ExpiriesTo(p, n, i))
        /\ Before(toQueue, Removes(p), Asks(p)) => Before(toQueue', Removes(p), Asks(p))
    BY <1>1, <1>2, OfPlayer DEF Told
  <1>4. Tokens(p)'
    BY <1>2, AskedTokens DEF PlayerInv, Unmoved
  <1>5. OneAnswer(p)'
    BY <1>1, <1>3, SameForPlayer DEF PlayerInv, OneAnswer, Awaits, Unmoved
  <1>6. Member(p)'
    BY <1>3, SameForPlayer DEF PlayerInv, Member, Unmoved, SameSeats
  <1>7. Asked(p)'
    BY <1>1, <1>3 DEF PlayerInv, Asked, Member, SameSeats
  <1>8. Answered(p)'
    BY <1>3, SameForPlayer DEF PlayerInv, Answered, Unmoved, SameSeats
  <1>9. Knows(p)'
    BY <1>3, SameForPlayer DEF PlayerInv, Knows, Informed, Unmoved, Remembers, SameSeats
  <1> QED
    BY <1>4, <1>5, <1>6, <1>7, <1>8, <1>9 DEF PlayerInv

LEMMA JoinTells ==
  ASSUME Inv, PatientClients, NEW party \in Parties, Join(party), NEW p \in Players, PlayerInv(p)
  PROVE  PlayerInv(p)'
  <1>1. PICK m : m = [type |-> "Join", players |-> party]
    BY Zenon
  <1>2. m \in ToQueue /\ toQueue' = toQueue \o <<m>> /\ UNCHANGED <<playerVars, queue, toWorld>>
    BY <1>1 DEF Join, Tell, ToQueue
  <1>3. /\ Told(toQueue, m, toQueue', FromPlayer(p)) /\ Kin(toWorld, toWorld', ForPlayer(p))
        /\ Unmoved(p) /\ SameSeats(queue, queue', p)
        /\ m \notin FromPlayer(p) => Kin(toQueue, toQueue', FromPlayer(p))
    BY <1>2, ToldOnly
  <1>4. CASE p \in party
    <2>1. ~slot[p] /\ where[p] = "world" /\ ~Awaits(p)
      BY <1>4, AwaitsIs DEF Join, Patient, InWorld
    <2>2. at[p] = 0
      BY <2>1 DEF PlayerInv, Member
    <2>3. m \in Asks(p) /\ m.type = "Join"
      BY <1>1, <1>2, <1>4 DEF Asks, Joins
    <2> QED
      BY <1>3, <2>1, <2>2, <2>3, AskTells
  <1>5. CASE p \notin party
    <2>1. m \notin FromPlayer(p)
      BY <1>1, <1>5 DEF FromPlayer, Asks, Joins, Removes
    <2> QED
      BY <1>3, <2>1, Framed DEF SameMessages
  <1> QED
    BY <1>4, <1>5

LEMMA PortTells ==
  ASSUME Inv, PatientClients, NEW o \in Players, NEW enter \in BOOLEAN, Port(o, enter),
         NEW p \in Players, PlayerInv(p)
  PROVE  PlayerInv(p)'
  <1>1. PICK m : m = [type |-> "Port", player |-> o, enter |-> enter]
    BY Zenon
  <1>2. m \in ToQueue /\ toQueue' = toQueue \o <<m>> /\ UNCHANGED <<playerVars, queue, toWorld>>
    BY <1>1 DEF Port, Tell, ToQueue
  <1>3. /\ Told(toQueue, m, toQueue', FromPlayer(p)) /\ Kin(toWorld, toWorld', ForPlayer(p))
        /\ Unmoved(p) /\ SameSeats(queue, queue', p)
        /\ m \notin FromPlayer(p) => Kin(toQueue, toQueue', FromPlayer(p))
    BY <1>2, ToldOnly
  <1>4. CASE p = o
    <2>1. at[p] = 0 /\ where[p] = "world" /\ ~Awaits(p)
      BY <1>4, AwaitsIs DEF Port, Patient, InWorld
    <2>2. m \in Asks(p) /\ m.type = "Port" /\ m \notin Joins(p)
      BY <1>1, <1>2, <1>4 DEF Asks, Joins
    <2> QED
      BY <1>3, <2>1, <2>2, AskTells
  <1>5. CASE p # o
    <2>1. m \notin FromPlayer(p)
      BY <1>1, <1>5 DEF FromPlayer, Asks, Joins, Removes
    <2> QED
      BY <1>3, <2>1, Framed DEF SameMessages
  <1> QED
    BY <1>4, <1>5

-----------------------------------------------------------------------------
\* Who waits for no answer comes or goes; if he was queued he is being removed.
LEMMA Moves ==
  ASSUME NEW p, PlayerInv(p), ~Awaits(p), SameSeats(queue, queue', p),
         Kin(toWorld, toWorld', ForPlayer(p)),
         \/ Kin(toQueue, toQueue', FromPlayer(p))
         \/ \E m \in Removes(p) : Told(toQueue, m, toQueue', FromPlayer(p)),
         at[p] = 0 => at'[p] = 0, at'[p] # 0 /\ where'[p] # "offline" => slot'[p],
         queue.member[p] # 0 => ~Absent(toQueue', Removes(p)),
         timers'[p] = timers[p] \/ timers'[p] = {}
  PROVE  PlayerInv(p)'
  <1>1. /\ Absent(toQueue, Asks(p)) /\ Absent(toWorld, Replies(p)) /\ Absent(toQueue, Joins(p))
        /\ Absent(toWorld, Joineds(p)) /\ Absent(toWorld, Enters(p))
    BY PartsOfPlayer DEF Awaits
  <1>2. ASSUME NEW m \in Removes(p)
        PROVE  m \notin Asks(p) /\ \A n : m \notin Expiries(p, n) /\ \A i : m \notin ExpiriesTo(p, n, i)
    BY <1>2 DEF Asks, Joins, Removes, Expiries, ExpiriesTo
  <1>3. /\ Absent(toQueue', Asks(p))
        /\ \A n : Absent(toQueue', Expiries(p, n)) <=> Absent(toQueue, Expiries(p, n))
    <2>1. ASSUME NEW m \in Removes(p), Told(toQueue, m, toQueue', FromPlayer(p))
          PROVE  /\ Absent(toQueue', Asks(p))
                 /\ \A n : Absent(toQueue', Expiries(p, n)) <=> Absent(toQueue, Expiries(p, n))
      BY <1>1, <1>2, <2>1, OfPlayer DEF Told
    <2> QED
      BY <1>1, <2>1, SameFromPlayer
  <1>4. Tokens(p)'
    <2>1. CASE Kin(toQueue, toQueue', FromPlayer(p)) /\ timers'[p] = timers[p]
      BY <2>1, TokensKept DEF PlayerInv, SameMessages
    <2>2. CASE Kin(toQueue, toQueue', FromPlayer(p)) /\ timers'[p] = {}
      <3> SUFFICES ASSUME NEW n \in 1 .. MaxJoins
                   PROVE  /\ Token(p, n, {}, toQueue', toWorld')
                          /\ n > queue'.joined \/ Seat(queue', p, n, 0) =>
                                NoToken(p, n, {}, toQueue', toWorld')
        BY <2>2 DEF Tokens
      <3>1. /\ Token(p, n, timers[p], toQueue, toWorld)
            /\ n > queue.joined \/ Seat(queue, p, n, 0) => NoToken(p, n, timers[p], toQueue, toWorld)
        BY DEF PlayerInv, Tokens
      <3>2. /\ Absent(toWorld', Tidings(p, n)) <=> Absent(toWorld, Tidings(p, n))
            /\ Absent(toQueue', Expiries(p, n)) <=> Absent(toQueue, Expiries(p, n))
            /\ Single(toWorld, Tidings(p, n)) => Single(toWorld', Tidings(p, n))
            /\ Single(toQueue, Expiries(p, n)) => Single(toQueue', Expiries(p, n))
        BY <2>2, OfPlayer DEF Kin
      <3>3. n > queue'.joined \/ Seat(queue', p, n, 0) => n > queue.joined \/ Seat(queue, p, n, 0)
        BY DEF SameSeats
      <3> QED
        BY <3>1, <3>2, <3>3 DEF Token, NoToken, Rings
    <2>3. ASSUME NEW m \in Removes(p), Told(toQueue, m, toQueue', FromPlayer(p))
          PROVE  Tokens(p)'
      BY <1>2, <2>3, AskedTokens DEF PlayerInv
    <2> QED
      BY <2>1, <2>2, <2>3
  <1>5. OneAnswer(p)'
    BY <1>1, <1>3, SameForPlayer, AbsentIs DEF OneAnswer, Awaits
  <1>6. Member(p)'
    BY DEF PlayerInv, Member, SameSeats
  <1>7. Asked(p)'
    BY <1>1, <1>3, AbsentIs, PartsOfPlayer DEF Asked
  <1>8. Answered(p)'
    BY <1>1, SameForPlayer DEF PlayerInv, Answered, SameSeats
  <1>9. Knows(p)'
    BY DEF PlayerInv, Member, Knows, SameSeats
  <1> QED
    BY <1>4, <1>5, <1>6, <1>7, <1>8, <1>9 DEF PlayerInv

\* Nothing a player sends or gets is under way, and nothing comes.
LEMMA NothingSent ==
  ASSUME NEW p, UNCHANGED <<queue, toWorld>>,
         \/ toQueue' = toQueue
         \/ \E ns : Sent(toQueue, ns, toQueue') /\ Absent(ns, FromPlayer(p))
  PROVE  SameSeats(queue, queue', p) /\ SameMessages(p)
  BY SameSeatsAre, KinIs DEF SameMessages

LEMMA LogoutTells ==
  ASSUME Inv, PatientClients, NEW o \in Players, Logout(o), NEW p \in Players, PlayerInv(p)
  PROVE  PlayerInv(p)'
  <1>0. PlayersOk /\ toQueue \in Seq(ToQueue)
    BY DEF Inv, TypeInv
  <1>1. /\ where' = [where EXCEPT ![o] = "offline"] /\ timers' = [timers EXCEPT ![o] = {}]
        /\ GivesUpSlots({o}) /\ UNCHANGED <<queue, toWorld, missed>> /\ Patient(o)
        /\ at' = [at EXCEPT ![o] =
                    IF where[o] = "away" \/ (where[o] = "to_bg" /\ ~Exists(at[o])) THEN 0 ELSE at[o]]
    BY DEF Logout
  <1>2. PICK m : m = [type |-> "Remove", player |-> o]
    BY Zenon
  <1>3. m \in ToQueue
    BY <1>2 DEF ToQueue
  <1>4. IF slot[o] THEN toQueue' = toQueue \o <<m>> ELSE toQueue' = toQueue
    <2>1. slot[o] => toQueue' = toQueue \o <<m>>
      BY <1>2 DEF Logout, Tell
    <2>2. ~slot[o] => toQueue' = toQueue \o << >>
      BY DEF Logout, Tell
    <2> QED
      BY <1>0, <2>1, <2>2
  <1>5. slot[o] => Sent(toQueue, <<m>>, toQueue')
    <2>1. <<m>> \in Seq(ToQueue)
      BY <1>3
    <2> QED
      BY <1>0, <1>4, <2>1, SentIs, Zenon
  <1>6. CASE p = o
    <2>1. ~Awaits(p)
      BY <1>1, <1>6, AwaitsIs DEF Patient
    <2>2. m \in Removes(p) /\ at'[p] \in {0, at[p]} /\ where'[p] = "offline" /\ timers'[p] = {}
      BY <1>0, <1>1, <1>2, <1>3, <1>6 DEF Removes, PlayersOk
    <2>3. SameSeats(queue, queue', p) /\ Kin(toWorld, toWorld', ForPlayer(p))
      BY <1>1, SameSeatsAre, KinIs
    <2>4. slot[o] => Told(toQueue, m, toQueue', FromPlayer(p))
      BY <1>5, ToldIs
    <2>5. ~slot[o] => Kin(toQueue, toQueue', FromPlayer(p))
      BY <1>4, KinIs
    <2>6. queue.member[p] # 0 => ~Absent(toQueue', Removes(p))
      <3> SUFFICES ASSUME queue.member[p] # 0 PROVE ~Absent(toQueue', Removes(p))
        OBVIOUS
      <3>1. Absent(toWorld, Joineds(p))
        BY <2>1, PartsOfPlayer DEF Awaits
      <3>2. ~Absent(toQueue, Removes(p)) \/ slot[p]
        BY <3>1 DEF PlayerInv, Member
      <3> QED
        BY <1>6, <2>2, <2>4, <2>5, <3>2, OfPlayer DEF Told, Kin
    <2> QED
      BY <2>1, <2>2, <2>3, <2>4, <2>5, <2>6, Moves
  <1>7. CASE p # o
    <2>1. Unmoved(p)
      BY <1>0, <1>1, <1>7 DEF Unmoved, Remembers, PlayersOk, GivesUpSlots
    <2>2. m \notin FromPlayer(p)
      BY <1>2, <1>7 DEF FromPlayer, Asks, Joins, Removes
    <2>3. toQueue' = toQueue \/ (Sent(toQueue, <<m>>, toQueue') /\ Absent(<<m>>, FromPlayer(p)))
      BY <1>4, <1>5, <2>2, OneIs
    <2>4. SameSeats(queue, queue', p) /\ SameMessages(p)
      BY <1>1, <2>3, NothingSent
    <2> QED
      BY <2>1, <2>4, Framed
  <1> QED
    BY <1>6, <1>7

LEMMA LoginTells ==
  ASSUME Inv, NEW o \in Players, Login(o), NEW p \in Players, PlayerInv(p)
  PROVE  PlayerInv(p)'
  <1> DEFINE stays == /\ Exists(at[o]) /\ TookPart(o, at[o])
                      /\ bgs[at[o]].status # "wait_leave"
  <1>0. PlayersOk
    BY DEF Inv, TypeInv
  <1>1. /\ where[o] = "offline" /\ where' = [where EXCEPT ![o] = "world"]
        /\ slot' = [slot EXCEPT ![o] = stays]
        /\ invite' = [invite EXCEPT ![o] = IF stays THEN at[o] ELSE 0]
        /\ at' = [at EXCEPT ![o] = IF stays THEN at[o] ELSE 0]
        /\ UNCHANGED <<timers, queue, toWorld, toQueue, missed>>
    BY Zenon DEF Login
  <1>2. SameSeats(queue, queue', p) /\ SameMessages(p)
    BY <1>1, NothingSent
  <1>3. CASE p = o
    <2>1. ~Awaits(p) /\ (queue.member[p] # 0 => ~Absent(toQueue', Removes(p)))
      BY <1>1, <1>3 DEF PlayerInv, OneAnswer, Member
    <2>2. at'[p] = (IF stays THEN at[p] ELSE 0) /\ slot'[p] = stays /\ timers'[p] = timers[p]
      BY <1>0, <1>1, <1>3 DEF PlayersOk
    <2>3. (at[p] = 0 => at'[p] = 0) /\ (at'[p] # 0 => slot'[p])
      BY <2>2
    <2> QED
      BY <1>2, <2>1, <2>2, <2>3, Moves, Zenon DEF SameMessages
  <1>4. CASE p # o
    <2>1. Unmoved(p)
      BY <1>0, <1>1, <1>4 DEF Unmoved, Remembers, PlayersOk
    <2> QED
      BY <1>2, <2>1, Framed
  <1> QED
    BY <1>3, <1>4

-----------------------------------------------------------------------------
\* The world tells the queue something about its battlegrounds.
LEMMA BgMessages ==
  ASSUME NEW ns \in Seq(ToQueue),
         \A k \in DOMAIN ns : ns[k].type \in {"Decrease", "FreeAdd", "FreeRemove", "Status"},
         NEW p
  PROVE  Absent(ns, FromPlayer(p))
  BY DEF Absent, FromPlayer, Asks, Joins, Removes

LEMMA BgMessage ==
  ASSUME NEW m \in ToQueue, m.type \in {"Decrease", "FreeAdd", "FreeRemove", "Status"}, NEW p
  PROVE  <<m>> \in Seq(ToQueue) /\ Absent(<<m>>, FromPlayer(p))
  <1>1. m \notin FromPlayer(p)
    BY DEF FromPlayer, Asks, Joins, Removes
  <1>2. <<m>> \in Seq(ToQueue)
    OBVIOUS
  <1> QED
    BY <1>1, <1>2, OneIs

LEMMA LeavesUnnoticed ==
  ASSUME Inv, NEW i \in Battlegrounds, NEW o \in Players, Tell(LeaveMessages(o, i)),
         UNCHANGED <<queue, toWorld>>, NEW p
  PROVE  SameSeats(queue, queue', p) /\ SameMessages(p)
  <1>1. PICK c, ms : c = Remaining(i, {o}) /\ ms = LeaveMessages(o, i)
    OBVIOUS
  <1>2. ms \in Seq(ToQueue) /\ \A k \in DOMAIN ms : ms[k].type \in {"Decrease", "FreeAdd"}
    BY <1>1, LeaveIs DEF Inv, TypeInv
  <1>3. Absent(ms, FromPlayer(p))
    BY <1>2, BgMessages
  <1>4. toQueue' = toQueue \o ms /\ toQueue \in Seq(ToQueue)
    BY <1>1 DEF Tell, Inv, TypeInv
  <1>5. Sent(toQueue, ms, toQueue')
    BY <1>2, <1>4, SentIs, Zenon
  <1> QED
    BY <1>3, <1>5, NothingSent

LEMMA ChangeMapTells ==
  ASSUME Inv, PatientClients, NEW o \in Players, ChangeMap(o), NEW p \in Players, PlayerInv(p)
  PROVE  PlayerInv(p)'
  <1>0. PlayersOk
    BY DEF Inv, TypeInv
  <1>1. /\ where[o] = "world" /\ where' = [where EXCEPT ![o] = "away"]
        /\ UNCHANGED <<timers, queue, toWorld, missed>> /\ Patient(o)
        /\ IF Exists(at[o])
             THEN /\ GivesUpSlots(IF TookPart(o, at[o]) THEN {o} ELSE {})
                  /\ at' = [at EXCEPT ![o] = 0]
                  /\ Tell(LeaveMessages(o, at[o]))
             ELSE UNCHANGED <<slot, invite, at, bgs, toQueue>>
    BY DEF ChangeMap, InWorld
  <1>2. SameSeats(queue, queue', p) /\ SameMessages(p)
    <2>1. CASE Exists(at[o])
      <3>1. PICK i \in Battlegrounds : i = at[o]
        BY <1>0, <2>1, BgIs
      <3> QED
        BY <1>1, <2>1, <3>1, LeavesUnnoticed
    <2>2. CASE ~Exists(at[o])
      BY <1>1, <2>2, NothingSent
    <2> QED
      BY <2>1, <2>2
  <1>3. CASE p = o /\ (queue.member[p] # 0 => ~Absent(toQueue, Removes(p)))
    <2>1. ~Awaits(p)
      BY <1>1, <1>3, AwaitsIs DEF Patient
    <2>2. at'[p] = (IF Exists(at[p]) THEN 0 ELSE at[p]) /\ (~Exists(at[p]) => slot'[p] = slot[p])
      BY <1>0, <1>1, <1>3 DEF PlayersOk
    <2>3. Absent(toWorld, Joineds(p))
      BY <2>1, PartsOfPlayer DEF Awaits
    <2>4. /\ at[p] = 0 => at'[p] = 0
          /\ at'[p] # 0 => slot'[p]
          /\ queue.member[p] # 0 => ~Absent(toQueue, Removes(p))
      BY <1>1, <1>3, <2>1, <2>2, <2>3 DEF PlayerInv, Member
    <2>5. queue.member[p] # 0 => ~Absent(toQueue', Removes(p))
      BY <1>2, <2>4, SameFromPlayer DEF SameMessages
    <2>6. timers'[p] = timers[p]
      BY <1>1
    <2> QED
      BY <1>2, <2>1, <2>4, <2>5, <2>6, Moves DEF SameMessages
  <1>4. CASE p # o
    <2>1. Unmoved(p)
      BY <1>0, <1>1, <1>4 DEF Unmoved, Remembers, PlayersOk, GivesUpSlots
    <2> QED
      BY <1>2, <2>1, Framed
  <1>5. CASE p = o /\ queue.member[p] # 0 /\ Absent(toQueue, Removes(p))
    <2>1. ~Awaits(p)
      BY <1>1, <1>5, AwaitsIs DEF Patient
    <2>2. at[p] = 0 /\ ~Exists(at[p])
      BY <1>5 DEF PlayerInv, Member, Exists
    <2>3. /\ where[p] \in Underway /\ where'[p] \in Underway
          /\ slot'[p] = slot[p] /\ invite'[p] = invite[p] /\ at'[p] = at[p]
          /\ timers'[p] = timers[p] /\ Remembers(p)
      BY <1>0, <1>1, <1>5, <2>2 DEF PlayersOk, Underway, Remembers
    <2> QED
      BY <1>2, <2>1, <2>3, Travelled, Zenon
  <1> QED
    BY <1>3, <1>4, <1>5

LEMMA ArriveTells ==
  ASSUME Inv, NEW o \in Players, Arrive(o), NEW p \in Players, PlayerInv(p)
  PROVE  PlayerInv(p)'
  <1>0. PlayersOk
    BY DEF Inv, TypeInv
  <1>1. /\ where[o] # "world" /\ where[o] # "offline"
        /\ at' = at \/ at' = [at EXCEPT ![o] = 0]
        /\ where' = [where EXCEPT ![o] = "world"] \/ where' = [where EXCEPT ![o] = "away"]
        /\ UNCHANGED <<slot, invite, timers, queue, toWorld, toQueue, missed>>
        /\ where[o] = "away" => where' = [where EXCEPT ![o] = "world"]
    BY DEF Arrive
  <1>2. SameSeats(queue, queue', p) /\ SameMessages(p)
    BY <1>1, NothingSent
  <1>3. CASE p = o /\ (queue.member[p] # 0 => ~Absent(toQueue, Removes(p)))
    <2>1. ~Awaits(p) /\ (queue.member[p] # 0 => ~Absent(toQueue', Removes(p)))
      BY <1>1, <1>3 DEF PlayerInv, OneAnswer
    <2>2. at'[p] \in {0, at[p]} /\ slot'[p] = slot[p] /\ timers'[p] = timers[p]
      BY <1>0, <1>1, <1>3 DEF PlayersOk
    <2>3. (at[p] = 0 => at'[p] = 0) /\ (at'[p] # 0 => slot'[p])
      BY <1>1, <1>3, <2>2 DEF PlayerInv, Member
    <2> QED
      BY <1>2, <2>1, <2>2, <2>3, Moves DEF SameMessages
  <1>4. CASE p # o
    <2>1. Unmoved(p)
      BY <1>0, <1>1, <1>4 DEF Unmoved, Remembers, PlayersOk
    <2> QED
      BY <1>2, <2>1, Framed
  <1>5. CASE p = o /\ queue.member[p] # 0 /\ Absent(toQueue, Removes(p))
    <2>1. ~Awaits(p) /\ at[p] = 0 /\ where[p] = "away"
      BY <1>1, <1>5 DEF PlayerInv, OneAnswer, Member
    <2>2. /\ where[p] \in Underway /\ where'[p] \in Underway
          /\ slot'[p] = slot[p] /\ invite'[p] = invite[p] /\ at'[p] = at[p]
          /\ timers'[p] = timers[p] /\ Remembers(p)
      BY <1>0, <1>1, <1>5, <2>1 DEF PlayersOk, Underway, Remembers
    <2> QED
      BY <1>2, <2>1, <2>2, Travelled, Zenon
  <1> QED
    BY <1>3, <1>4, <1>5

\* Who is sent home took part: he is not queued and waits for no answer.
LEMMA SendHomeTells ==
  ASSUME Inv, NEW i \in Battlegrounds, SendHome(i), NEW p \in Players, PlayerInv(p), Place(p)
  PROVE  PlayerInv(p)'
  <1> DEFINE here == {o \in bgs[i].players : InWorld(o)}
  <1>0. PlayersOk
    BY DEF Inv, TypeInv
  <1>1. /\ GivesUpSlots(here) /\ at' = [o \in Players |-> IF o \in here THEN 0 ELSE at[o]]
        /\ where' = [o \in Players |-> IF o \in here THEN "away" ELSE where[o]]
        /\ UNCHANGED <<timers, queue, toWorld, toQueue, missed>>
    BY DEF SendHome
  <1>2. SameSeats(queue, queue', p) /\ SameMessages(p)
    BY <1>1, NothingSent
  <1>3. CASE p \in here
    <2>1. at[p] = i /\ i # 0
      BY <1>3, Numbers DEF Place, Battlegrounds
    <2>2. ~Awaits(p) /\ queue.member[p] = 0
      BY <2>1 DEF PlayerInv, OneAnswer, Member
    <2>3. at'[p] = 0 /\ timers'[p] = timers[p]
      BY <1>1, <1>3
    <2> QED
      BY <1>2, <2>2, <2>3, Moves DEF SameMessages
  <1>4. CASE p \notin here
    <2>1. Unmoved(p)
      BY <1>0, <1>1, <1>4 DEF Unmoved, Remembers, GivesUpSlots, PlayersOk
    <2> QED
      BY <1>2, <2>1, Framed
  <1> QED
    BY <1>3, <1>4

\* The battlegrounds tell the queue about themselves.
LEMMA BgTells ==
  ASSUME Inv, NEW i \in Battlegrounds, NEW p \in Players, PlayerInv(p),
         Start(i) \/ EndBattleGround(i) \/ RemoveBattleGround(i) \/ \E o \in Players : RemoveOffline(i, o)
  PROVE  PlayerInv(p)'
  <1>0. toQueue \in Seq(ToQueue)
    BY DEF Inv, TypeInv
  <1>1. UNCHANGED <<playerVars, queue, toWorld>>
    BY Zenon DEF Start, EndBattleGround, RemoveBattleGround, RemoveOffline
  <1>2. \A s \in Statuses : SetStatus(i, s) \in ToQueue /\ SetStatus(i, s).type = "Status"
    BY DEF SetStatus, ToQueue
  <1>3. /\ RemovedFromBgFreeSlotQueue(i) \in Seq(ToQueue)
        /\ \A k \in DOMAIN RemovedFromBgFreeSlotQueue(i) :
              RemovedFromBgFreeSlotQueue(i)[k].type = "FreeRemove"
    <2>1. PICK m : m = [type |-> "FreeRemove", bg |-> i]
      BY Zenon
    <2>2. m \in ToQueue /\ m.type = "FreeRemove"
      BY <2>1 DEF ToQueue
    <2>3. RemovedFromBgFreeSlotQueue(i) \in {<<m>>, << >>}
      BY <2>1 DEF RemovedFromBgFreeSlotQueue
    <2>4. /\ << >> \in Seq(ToQueue) /\ <<m>> \in Seq(ToQueue)
          /\ \A k \in DOMAIN << >> : << >>[k].type = "FreeRemove"
          /\ \A k \in DOMAIN <<m>> : <<m>>[k].type = "FreeRemove"
      BY <2>2
    <2>5. PICK ms : ms = RemovedFromBgFreeSlotQueue(i)
      OBVIOUS
    <2>6. ms \in Seq(ToQueue) /\ \A k \in DOMAIN ms : ms[k].type = "FreeRemove"
      <3>1. CASE ms = <<m>>
        BY <2>4, <3>1
      <3>2. CASE ms = << >>
        BY <2>4, <3>2
      <3> QED
        BY <2>3, <2>5, <3>1, <3>2
    <2> QED
      BY <2>5, <2>6
  <1>4. SameSeats(queue, queue', p) /\ SameMessages(p)
    <2>1. ASSUME NEW m \in ToQueue, m.type = "Status", toQueue' = toQueue \o <<m>>
          PROVE  SameSeats(queue, queue', p) /\ SameMessages(p)
      <3>1. <<m>> \in Seq(ToQueue) /\ Absent(<<m>>, FromPlayer(p))
        BY <2>1, BgMessage
      <3> QED
        BY <1>0, <1>1, <2>1, <3>1, SentIs, NothingSent, Zenon
    <2>2. CASE Start(i)
      <3>1. toQueue' = toQueue \o <<SetStatus(i, "in_progress")>>
        BY <2>2 DEF Start, Tell
      <3> QED
        BY <1>2, <2>1, <3>1 DEF Statuses, Joinable
    <2>3. CASE EndBattleGround(i)
      <3>1. PICK ms, m : ms = RemovedFromBgFreeSlotQueue(i) /\ m = SetStatus(i, "wait_leave")
        OBVIOUS
      <3>2. m \in ToQueue /\ m.type = "Status" /\ ms \in Seq(ToQueue)
            /\ \A k \in DOMAIN ms : ms[k].type = "FreeRemove"
        BY <1>2, <1>3, <3>1 DEF Statuses
      <3>3. PICK ns : ns = ms \o <<m>>
        BY Zenon
      <3>4. <<m>> \in Seq(ToQueue) /\ Absent(<<m>>, FromPlayer(p)) /\ Absent(ms, FromPlayer(p))
        BY <3>2, BgMessage, BgMessages
      <3>5. ns \in Seq(ToQueue) /\ Sent(ms, <<m>>, ns)
        BY <3>2, <3>3, <3>4, SentIs, Zenon
      <3>6. Absent(ns, FromPlayer(p))
        BY <3>4, <3>5 DEF Sent
      <3>7. toQueue' = toQueue \o ns
        BY <2>3, <3>1, <3>3 DEF EndBattleGround, Tell
      <3> QED
        BY <1>0, <1>1, <3>5, <3>6, <3>7, SentIs, NothingSent, Zenon
    <2>4. CASE RemoveBattleGround(i)
      <3>1. PICK ms : ms = RemovedFromBgFreeSlotQueue(i)
        OBVIOUS
      <3>2. toQueue' = toQueue \o ms
        BY <2>4, <3>1 DEF RemoveBattleGround, Tell
      <3>3. ms \in Seq(ToQueue) /\ Absent(ms, FromPlayer(p))
        BY <1>3, <3>1, BgMessages
      <3> QED
        BY <1>0, <1>1, <3>2, <3>3, SentIs, NothingSent, Zenon
    <2>5. ASSUME NEW o \in Players, RemoveOffline(i, o)
          PROVE  SameSeats(queue, queue', p) /\ SameMessages(p)
      BY <1>1, <2>5, LeavesUnnoticed DEF RemoveOffline
    <2> QED
      BY <2>2, <2>3, <2>4, <2>5
  <1> QED
    BY <1>1, <1>4, Framed DEF Unmoved, Remembers, playerVars

-----------------------------------------------------------------------------
(***************************************************************************)
(* An invitation that runs out, and the messages the world handles.        *)
(***************************************************************************)
LEMMA EventTells ==
  ASSUME Inv, NEW o \in Players, RemoveEvent(o), NEW p \in Players, PlayerInv(p)
  PROVE  PlayerInv(p)'
  <1>0. PlayersOk /\ toWorld \in Seq(ToWorld)
    BY DEF Inv, TypeInv
  <1>1. PICK t \in timers[o] : /\ timers' = [timers EXCEPT ![o] = @ \ {t}]
                               /\ toWorld' = Append(toWorld, [type |-> "Timer", player |-> o,
                                                              bg |-> t.bg, id |-> t.id])
    BY Zenon DEF RemoveEvent
  <1>2. t \in [bg : Battlegrounds, id : 1 .. MaxJoins]
    BY <1>0 DEF PlayersOk
  <1>3. PICK b \in Battlegrounds, k \in 1 .. MaxJoins : t = [bg |-> b, id |-> k]
    BY <1>2
  <1>4. PICK m : m = [type |-> "Timer", player |-> o, bg |-> b, id |-> k]
    BY Zenon
  <1>5. m \in ToWorld /\ toWorld' = Append(toWorld, m) /\ UNCHANGED <<where, slot, invite, at, queue, toQueue, missed>>
    BY <1>1, <1>3, <1>4 DEF ToWorld, RemoveEvent
  <1>6. <<m>> \in Seq(ToWorld) /\ toWorld' = toWorld \o <<m>>
    BY <1>0, <1>5
  <1>7. Sent(toWorld, <<m>>, toWorld')
    BY <1>0, <1>6, SentIs, Zenon
  <1>8. SameSeats(queue, queue', p) /\ Kin(toQueue, toQueue', FromPlayer(p))
    BY <1>5, SameSeatsAre, KinIs
  <1>9. CASE p # o
    <2>1. Unmoved(p)
      BY <1>0, <1>1, <1>5, <1>9 DEF Unmoved, Remembers, PlayersOk
    <2>2. m \notin ForPlayer(p)
      BY <1>4, <1>9 DEF ForPlayer, Replies, Joineds, Enters, Lefts, Notes
    <2> QED
      BY <1>7, <1>8, <2>1, <2>2, OneIs, KinIs, Framed DEF SameMessages
  <1>10. CASE p = o
    <2>1. Told(toWorld, m, toWorld', ForPlayer(p))
      BY <1>7, ToldIs
    <2>2. /\ m \notin Joineds(p) /\ m \notin Enters(p) /\ m \notin Replies(p) /\ m \notin Lefts(p)
          /\ m \notin Notes(p)
          /\ \A n : m \notin NotesOf(p, n) /\ m \notin OldNotes(p, n) /\ \A i : m \notin NotesTo(p, n, i)
          /\ \A n : (m \in Alarms(p, n) <=> n = k) /\ (m \in Tidings(p, n) <=> n = k)
          /\ \A n, i : m \in AlarmsTo(p, n, i) <=> n = k /\ i = b
      BY <1>4, <1>5, <1>10 DEF Joineds, Enters, Replies, Lefts, Notes, NotesOf, OldNotes, NotesTo,
                               Alarms, AlarmsTo, Tidings
    <2>3. timers'[p] = timers[p] \ {[bg |-> b, id |-> k]} /\ [bg |-> b, id |-> k] \in timers[p]
      BY <1>0, <1>1, <1>3, <1>10 DEF PlayersOk
    <2>4. Rings(timers[p], k) /\ \A n : Rings(timers'[p], n) => Rings(timers[p], n)
      BY <2>3 DEF Rings
    <2>5. /\ Absent(toWorld', Joineds(p)) <=> Absent(toWorld, Joineds(p))
          /\ Absent(toWorld', Enters(p)) <=> Absent(toWorld, Enters(p))
          /\ Absent(toWorld', Replies(p)) <=> Absent(toWorld, Replies(p))
          /\ Absent(toWorld', Lefts(p)) <=> Absent(toWorld, Lefts(p))
          /\ Absent(toWorld', Notes(p)) <=> Absent(toWorld, Notes(p))
          /\ \A n, i : Absent(toWorld', NotesTo(p, n, i)) <=> Absent(toWorld, NotesTo(p, n, i))
          /\ \A n : Absent(toWorld', Alarms(p, n)) <=> Absent(toWorld, Alarms(p, n)) /\ n # k
          /\ \A n, i : Absent(toWorld', AlarmsTo(p, n, i)) <=>
                          Absent(toWorld, AlarmsTo(p, n, i)) /\ ~(n = k /\ i = b)
          /\ Single(toWorld, Replies(p)) => Single(toWorld', Replies(p))
          /\ Before(toWorld, Lefts(p), Joineds(p)) => Before(toWorld', Lefts(p), Joineds(p))
          /\ \A n : Before(toWorld, Joineds(p), NotesOf(p, n)) => Before(toWorld', Joineds(p), NotesOf(p, n))
          /\ \A n : Before(toWorld, OldNotes(p, n), NotesOf(p, n))
                      => Before(toWorld', OldNotes(p, n), NotesOf(p, n))
      BY <2>1, <2>2, OfPlayer, Zenon DEF Told
    <2>6. Tokens(p)'
      <3> SUFFICES ASSUME NEW n \in 1 .. MaxJoins
                   PROVE  /\ Token(p, n, timers'[p], toQueue, toWorld')
                          /\ n > queue.joined \/ Seat(queue, p, n, 0) =>
                                NoToken(p, n, timers'[p], toQueue, toWorld')
        BY <1>5 DEF Tokens
      <3>1. /\ Token(p, n, timers[p], toQueue, toWorld)
            /\ n > queue.joined \/ Seat(queue, p, n, 0) => NoToken(p, n, timers[p], toQueue, toWorld)
        BY DEF PlayerInv, Tokens
      <3>2. CASE n = k
        <4>1. /\ Absent(toWorld, Tidings(p, n)) /\ Absent(toQueue, Expiries(p, n))
              /\ ~(n > queue.joined \/ Seat(queue, p, n, 0))
          BY <2>4, <3>1, <3>2 DEF Token, NoToken
        <4>2. Single(toWorld', Tidings(p, n))
          BY <2>1, <4>1, OfPlayer DEF Told
        <4>3. ~Rings(timers'[p], n)
          <5>1. \A i, j \in Battlegrounds :
                   [bg |-> i, id |-> n] \in timers[p] /\ [bg |-> j, id |-> n] \in timers[p] => i = j
            BY <3>1 DEF Token
          <5>2. \A i \in Battlegrounds : [bg |-> i, id |-> n] \in timers[p] => i = b
            BY <2>3, <3>2, <5>1
          <5> QED
            BY <2>3, <3>2, <5>2, Zenon DEF Rings
        <4> QED
          BY <2>3, <3>1, <4>1, <4>2, <4>3 DEF Token
      <3>3. CASE n # k
        <4>1. /\ Absent(toWorld', Tidings(p, n)) <=> Absent(toWorld, Tidings(p, n))
              /\ Single(toWorld, Tidings(p, n)) => Single(toWorld', Tidings(p, n))
          BY <2>1, <2>2, <3>3, OfPlayer DEF Told
        <4> QED
          BY <2>3, <2>4, <3>1, <4>1 DEF Token, NoToken
      <3> QED
        BY <3>2, <3>3
    <2>7. OneAnswer(p)'
      BY <1>5, <2>5 DEF PlayerInv, OneAnswer, Awaits
    <2>8. Member(p)'
      BY <1>5, <2>5 DEF PlayerInv, Member
    <2>9. Asked(p)'
      BY <1>5 DEF PlayerInv, Asked
    <2>10. Answered(p)'
      BY <1>5, <2>4, <2>5 DEF PlayerInv, Answered
    <2>11. Knows(p)'
      <3> SUFFICES ASSUME NEW n \in 1 .. MaxJoins, NEW i \in Battlegrounds,
                          Seat(queue, p, n, i), Absent(toQueue, Removes(p)), p \notin missed'
                   PROVE  Informed(p, n, i)'
        BY <1>5 DEF Knows
      <3>1. Informed(p, n, i)
        BY <1>5 DEF PlayerInv, Knows
      <3>2. [bg |-> i, id |-> n] \in timers[p] =>
               [bg |-> i, id |-> n] \in timers'[p] \/ (i = b /\ n = k)
        BY <2>3
      <3> QED
        BY <1>5, <2>5, <3>1, <3>2 DEF Informed
    <2> QED
      BY <2>6, <2>7, <2>8, <2>9, <2>10, <2>11 DEF PlayerInv
  <1> QED
    BY <1>9, <1>10

\* The world handles a message that is not for the player.
LEMMA NotForPlayer ==
  ASSUME Inv, NEW type, OnWorld(type), UNCHANGED queue, NEW p, Head(toWorld) \notin ForPlayer(p),
         toQueue' = toQueue \/ \E ns : Sent(toQueue, ns, toQueue') /\ Absent(ns, FromPlayer(p))
  PROVE  SameSeats(queue, queue', p) /\ SameMessages(p)
  <1>1. Taken(toWorld, toWorld', Head(toWorld))
    BY HandledIs
  <1> QED
    BY <1>1, SameSeatsAre, KinIs DEF SameMessages

LEMMA CountTells ==
  ASSUME Inv, SetInvitedCount \/ CreateNewBattleGround, NEW p \in Players, PlayerInv(p)
  PROVE  PlayerInv(p)'
  <1>0. toQueue \in Seq(ToQueue)
    BY DEF Inv, TypeInv
  <1>1. CASE SetInvitedCount
    <2>1. OnWorld("Count") /\ UNCHANGED <<playerVars, queue, toQueue>>
      BY <1>1 DEF SetInvitedCount
    <2>2. Head(toWorld) \notin ForPlayer(p)
      BY <2>1 DEF OnWorld, ForPlayer, Replies, Joineds, Enters, Lefts, Notes
    <2> QED
      BY <2>1, <2>2, NotForPlayer, Framed DEF Unmoved, Remembers, playerVars
  <1>2. CASE CreateNewBattleGround
    <2>1. OnWorld("Create")
      BY <1>2 DEF CreateNewBattleGround
    <2>2. PICK h \in ToWorld : h = Head(toWorld) /\ h.type = "Create"
      BY <2>1, HandledIs
    <2>3. PICK i \in Battlegrounds : i = h.bg
      BY <2>2, ToWorldIs
    <2>4. PICK m : m = SetStatus(i, "wait_join")
      OBVIOUS
    <2>5. m \in ToQueue /\ m.type = "Status"
      BY <2>4 DEF SetStatus, ToQueue, Statuses, Joinable
    <2>6. toQueue' = toQueue \o <<m>> /\ UNCHANGED <<playerVars, queue>>
      BY <1>2, <2>2, <2>3, <2>4 DEF CreateNewBattleGround, Tell
    <2>7. <<m>> \in Seq(ToQueue) /\ Absent(<<m>>, FromPlayer(p))
      BY <2>5, BgMessage
    <2>8. Sent(toQueue, <<m>>, toQueue')
      BY <1>0, <2>6, <2>7, SentIs, Zenon
    <2>9. Head(toWorld) \notin ForPlayer(p)
      BY <2>2 DEF ForPlayer, Replies, Joineds, Enters, Lefts, Notes
    <2> QED
      BY <2>1, <2>6, <2>7, <2>8, <2>9, NotForPlayer, Framed DEF Unmoved, Remembers, playerVars
  <1> QED
    BY <1>1, <1>2

-----------------------------------------------------------------------------
\* What was handled, for the player: nothing new came.
LEMMA Handled ==
  ASSUME NEW p, NEW h, Taken(toWorld, toWorld', h)
  PROVE  /\ \A M : /\ Absent(toWorld, M) <=> h \notin M /\ Absent(toWorld', M)
                   /\ Single(toWorld, M) => Single(toWorld', M)
                   /\ Single(toWorld, M) /\ h \in M => Absent(toWorld', M)
         /\ \A M, N : /\ Before(toWorld, M, N) => Before(toWorld', M, N)
                      /\ Before(toWorld, M, N) /\ h \in N => Absent(toWorld, M)
  BY DEF Taken

LEMMA HandledTokens ==
  ASSUME NEW p, Tokens(p), timers'[p] = timers[p], UNCHANGED <<queue, toQueue>>,
         NEW h, Taken(toWorld, toWorld', h), \A n : h \notin Tidings(p, n)
  PROVE  Tokens(p)'
  BY Handled DEF Tokens, Token, NoToken

LEMMA JoinedTells ==
  ASSUME Inv, Joined, NEW p \in Players, PlayerInv(p)
  PROVE  PlayerInv(p)'
  <1>1. OnWorld("Joined") /\ UNCHANGED <<where, at, timers, queue, toQueue, missed>>
    BY DEF Joined
  <1>2. PICK h \in ToWorld : h = Head(toWorld) /\ h.type = "Joined" /\ Taken(toWorld, toWorld', h)
    BY <1>1, HandledIs
  <1> DEFINE told == {o \in h.players : InWorld(o)}
  <1>3. /\ slot' = [o \in Players |-> slot[o] \/ o \in told]
        /\ invite' = [o \in Players |-> IF o \in told THEN 0 ELSE invite[o]]
    BY <1>2 DEF Joined
  <1>4. CASE p \notin h.players
    <2>1. h \notin ForPlayer(p)
      BY <1>2, <1>4 DEF ForPlayer, Replies, Joineds, Enters, Lefts, Notes
    <2>2. Unmoved(p)
      BY <1>1, <1>3, <1>4 DEF Unmoved, Remembers, Inv, TypeInv, PlayersOk
    <2> QED
      BY <1>1, <1>2, <2>1, <2>2, NotForPlayer, Framed
  <1>5. CASE p \in h.players
    <2>1. /\ h \in Joineds(p) /\ h \in Replies(p) /\ h \notin Enters(p) /\ h \notin Lefts(p)
          /\ h \notin Notes(p) /\ \A n : h \notin Alarms(p, n) /\ h \notin Tidings(p, n)
          /\ \A n, i : h \notin NotesTo(p, n, i) /\ h \notin AlarmsTo(p, n, i)
      BY <1>2, <1>5 DEF Replies, Joineds, Enters, Lefts, Notes, NotesOf, NotesTo, Alarms, AlarmsTo, Tidings
    <2>2. ~Absent(toWorld, Joineds(p)) /\ ~Absent(toWorld, Replies(p))
      BY <1>2, <2>1, Handled
    <2>3. Absent(toQueue, Asks(p)) /\ where[p] = "world" /\ at[p] = 0
      BY <2>2 DEF PlayerInv, OneAnswer, Awaits
    <2>4. slot'[p] = TRUE
      BY <1>3, <1>5, <2>3, Zenon DEF InWorld
    <2>5. Absent(toWorld', Replies(p)) /\ Absent(toWorld', Joineds(p)) /\ Absent(toWorld', Enters(p))
      <3>1. Absent(toWorld', Replies(p))
        BY <1>2, <2>1, Handled DEF PlayerInv, OneAnswer
      <3> QED
        BY <3>1, PartsOfPlayer
    <2>6. Absent(toWorld, Lefts(p)) /\ Absent(toWorld', Lefts(p))
      BY <1>2, <2>1, Handled DEF PlayerInv, Answered
    <2>7. Tokens(p)'
      BY <1>1, <1>2, <2>1, HandledTokens DEF PlayerInv
    <2>8. OneAnswer(p)'
      BY <1>1, <2>3, <2>5, AbsentIs DEF PlayerInv, OneAnswer, Awaits
    <2>9. Member(p)'
      BY <1>1, <2>3, <2>4 DEF PlayerInv, Member
    <2>10. Asked(p)'
      BY <1>1 DEF PlayerInv, Asked
    <2>11. Answered(p)'
      BY <1>1, <1>2, <2>5, <2>6, Handled DEF PlayerInv, Answered
    <2>12. Knows(p)'
      BY <1>1, <1>2, <2>1, <2>2, Handled DEF PlayerInv, Knows, Informed
    <2> QED
      BY <2>7, <2>8, <2>9, <2>10, <2>11, <2>12 DEF PlayerInv
  <1> QED
    BY <1>4, <1>5

LEMMA EnterTells ==
  ASSUME Inv, Enter, NEW p \in Players, PlayerInv(p), \A o \in Players : PlayerInv(o)
  PROVE  PlayerInv(p)'
  <1>0. PlayersOk
    BY DEF Inv, TypeInv
  <1>1. OnWorld("Enter") /\ UNCHANGED queue
    BY DEF Enter
  <1>2. PICK h \in ToWorld : h = Head(toWorld) /\ h.type = "Enter" /\ Taken(toWorld, toWorld', h)
    BY <1>1, HandledIs
  <1>3. PICK o \in Players, i \in Battlegrounds : o = h.player /\ i = h.bg
    BY <1>2, ToWorldIs
  <1>4. h \in Enters(o) /\ h \in Replies(o)
    BY <1>2, <1>3 DEF Enters, Replies
  <1>5. ~Absent(toWorld, Enters(o)) /\ ~Absent(toWorld, Replies(o))
    BY <1>2, <1>4, Handled
  <1>6. where[o] = "world" /\ at[o] = 0 /\ Absent(toQueue, Asks(o))
    BY <1>5 DEF PlayerInv, OneAnswer, Awaits
  <1>7. /\ UNCHANGED <<slot, invite, timers, toQueue, missed>>
        /\ at' = [at EXCEPT ![o] = i]
        /\ where' = [where EXCEPT ![o] = IF Exists(i) THEN "to_bg" ELSE where[o]]
    BY <1>2, <1>3, <1>6 DEF Enter, InWorld, Exists
  <1>8. CASE p # o
    <2>1. h \notin ForPlayer(p)
      BY <1>2, <1>3, <1>8 DEF ForPlayer, Replies, Joineds, Enters, Lefts, Notes
    <2>2. Unmoved(p)
      BY <1>0, <1>1, <1>7, <1>8 DEF Unmoved, Remembers, PlayersOk
    <2> QED
      BY <1>1, <1>2, <1>7, <2>1, <2>2, NotForPlayer, Framed
  <1>9. CASE p = o
    <2>1. /\ h \notin Lefts(p) /\ \A n : h \notin Tidings(p, n)
      BY <1>2 DEF Lefts, NotesOf, Alarms, Tidings
    <2>2. slot[p] /\ queue.member[p] = 0 /\ Absent(toWorld, Lefts(p))
      BY <1>5, <1>9 DEF PlayerInv, Answered
    <2>3. Absent(toWorld', Replies(p)) /\ Absent(toWorld', Joineds(p)) /\ Absent(toWorld', Enters(p))
      <3>1. Absent(toWorld', Replies(p))
        BY <1>2, <1>4, <1>9, Handled DEF PlayerInv, OneAnswer
      <3> QED
        BY <3>1, PartsOfPlayer
    <2>4. Absent(toWorld', Lefts(p))
      BY <1>2, <2>2, Handled
    <2>5. Tokens(p)'
      BY <1>1, <1>2, <1>7, <2>1, HandledTokens DEF PlayerInv
    <2>6. OneAnswer(p)'
      BY <1>6, <1>7, <1>9, <2>3, AbsentIs DEF PlayerInv, OneAnswer, Awaits
    <2>7. Member(p)'
      BY <1>1, <1>7, <2>2 DEF PlayerInv, Member
    <2>8. Asked(p)'
      BY <1>1, <1>7 DEF PlayerInv, Asked
    <2>9. Answered(p)'
      BY <1>1, <1>2, <2>3, <2>4, Handled DEF PlayerInv, Answered
    <2>10. Knows(p)'
      BY <1>1, <2>2 DEF PlayerInv, Member, Knows
    <2> QED
      BY <2>5, <2>6, <2>7, <2>8, <2>9, <2>10 DEF PlayerInv
  <1> QED
    BY <1>8, <1>9

LEMMA LeftTells ==
  ASSUME Inv, Left, NEW p \in Players, PlayerInv(p)
  PROVE  PlayerInv(p)'
  <1>1. OnWorld("Left") /\ UNCHANGED <<where, at, timers, queue, toQueue, missed>>
    BY DEF Left
  <1>2. PICK h \in ToWorld : h = Head(toWorld) /\ h.type = "Left" /\ Taken(toWorld, toWorld', h)
    BY <1>1, HandledIs
  <1>3. PICK o \in Players : o = h.player
    BY <1>2, ToWorldIs
  <1>4. GivesUpSlots({o} \cap {x \in Players : InWorld(x)})
    BY <1>2, <1>3 DEF Left
  <1>5. CASE p # o
    <2>1. h \notin ForPlayer(p)
      BY <1>2, <1>3, <1>5 DEF ForPlayer, Replies, Joineds, Enters, Lefts, Notes
    <2>2. Unmoved(p)
      BY <1>1, <1>4, <1>5 DEF Unmoved, Remembers, GivesUpSlots, Inv, TypeInv, PlayersOk
    <2> QED
      BY <1>1, <1>2, <2>1, <2>2, NotForPlayer, Framed
  <1>6. CASE p = o
    <2>1. /\ h \in Lefts(p) /\ h \notin Joineds(p) /\ h \notin Enters(p) /\ h \notin Replies(p)
          /\ h \notin Notes(p) /\ \A n : h \notin Alarms(p, n) /\ h \notin Tidings(p, n)
          /\ \A n, i : h \notin NotesTo(p, n, i) /\ h \notin AlarmsTo(p, n, i)
      BY <1>2, <1>3, <1>6 DEF Replies, Joineds, Enters, Lefts, Notes, NotesOf, NotesTo,
                              Alarms, AlarmsTo, Tidings
    <2>2. ~Absent(toWorld, Lefts(p))
      BY <1>2, <2>1, Handled
    <2>3. at[p] = 0 /\ (queue.member[p] = 0 \/ ~Absent(toWorld, Joineds(p))) /\ Absent(toWorld, Enters(p))
      BY <2>2 DEF PlayerInv, Answered
    <2>4. Tokens(p)'
      BY <1>1, <1>2, <2>1, HandledTokens DEF PlayerInv
    <2>5. OneAnswer(p)'
      BY <1>1, <1>2, <2>1, Handled DEF PlayerInv, OneAnswer, Awaits
    <2>6. Member(p)'
      <3>1. queue.member[p] # 0 => where[p] = "world" /\ ~Absent(toWorld', Joineds(p))
        BY <1>2, <2>1, <2>3, Handled, PartsOfPlayer DEF PlayerInv, OneAnswer, Awaits
      <3> QED
        BY <1>1, <2>3, <3>1 DEF PlayerInv, Member
    <2>7. Asked(p)'
      BY <1>1 DEF PlayerInv, Asked
    <2>8. Answered(p)'
      BY <1>1, <1>2, <2>1, <2>3, Handled DEF PlayerInv, Answered
    <2>9. Knows(p)'
      <3> SUFFICES ASSUME NEW n \in 1 .. MaxJoins, NEW i \in Battlegrounds,
                          Seat(queue, p, n, i), Absent(toQueue, Removes(p)), p \notin missed'
                   PROVE  Informed(p, n, i)'
        BY <1>1 DEF Knows
      <3>1. Informed(p, n, i) /\ n = queue.member[p]
        BY <1>1 DEF PlayerInv, Member, Knows
      <3>2. ~Absent(toWorld, Joineds(p))
        BY <2>3, <3>1
      <3> QED
        BY <1>2, <2>1, <3>1, <3>2, Handled DEF Informed
    <2> QED
      BY <2>4, <2>5, <2>6, <2>7, <2>8, <2>9 DEF PlayerInv
  <1> QED
    BY <1>5, <1>6

-----------------------------------------------------------------------------
(***************************************************************************)
(* The two messages of an invitation, handled by the world.                *)
(***************************************************************************)
\* What is not about the invitation is not touched.
LEMMA TidingsHandled ==
  ASSUME NEW p, NEW h, h \in ToWorld, Taken(toWorld, toWorld', h), h.type \in {"Invited", "Timer"}
  PROVE  /\ Absent(toWorld', Joineds(p)) <=> Absent(toWorld, Joineds(p))
         /\ Absent(toWorld', Enters(p)) <=> Absent(toWorld, Enters(p))
         /\ Absent(toWorld', Replies(p)) <=> Absent(toWorld, Replies(p))
         /\ Absent(toWorld', Lefts(p)) <=> Absent(toWorld, Lefts(p))
         /\ Single(toWorld, Replies(p)) => Single(toWorld', Replies(p))
         /\ Before(toWorld, Lefts(p), Joineds(p)) => Before(toWorld', Lefts(p), Joineds(p))
         /\ \A n : Before(toWorld, Joineds(p), NotesOf(p, n)) => Before(toWorld', Joineds(p), NotesOf(p, n))
         /\ \A n : Before(toWorld, OldNotes(p, n), NotesOf(p, n))
                     => Before(toWorld', OldNotes(p, n), NotesOf(p, n))
  <1>1. h \notin Joineds(p) /\ h \notin Enters(p) /\ h \notin Replies(p) /\ h \notin Lefts(p)
    BY DEF Joineds, Enters, Replies, Lefts
  <1> QED
    BY <1>1, Handled

LEMMA InvitedTells ==
  ASSUME Inv, Invited, NEW p \in Players, PlayerInv(p)
  PROVE  PlayerInv(p)'
  <1>0. PlayersOk
    BY DEF Inv, TypeInv
  <1>1. OnWorld("Invited") /\ UNCHANGED <<where, slot, at, queue, toQueue>>
    BY DEF Invited
  <1>2. PICK h \in ToWorld : h = Head(toWorld) /\ h.type = "Invited" /\ Taken(toWorld, toWorld', h)
    BY <1>1, HandledIs
  <1>3. PICK o \in Players, b \in Battlegrounds, k \in 1 .. MaxJoins :
           o = h.player /\ b = h.bg /\ k = h.id
    BY <1>2, ToWorldIs
  <1>4. IF where[o] = "world"
          THEN /\ invite' = [invite EXCEPT ![o] = IF slot[o] THEN b ELSE invite[o]]
               /\ timers' = [timers EXCEPT ![o] = timers[o] \cup {[bg |-> b, id |-> k]}]
               /\ missed' = missed
          ELSE UNCHANGED <<invite, timers>> /\ Misses(o, k)
    BY <1>2, <1>3 DEF Invited, InWorld
  <1>5. CASE p # o
    <2>1. h \notin ForPlayer(p)
      BY <1>2, <1>3, <1>5 DEF ForPlayer, Replies, Joineds, Enters, Lefts, Notes
    <2>2. Unmoved(p)
      BY <1>0, <1>1, <1>4, <1>5 DEF Unmoved, Remembers, Misses, PlayersOk
    <2> QED
      BY <1>1, <1>2, <2>1, <2>2, NotForPlayer, Framed
  <1>6. CASE p = o
    <2>1. /\ \A n : (h \in NotesOf(p, n) <=> n = k) /\ (h \in Tidings(p, n) <=> n = k)
          /\ \A n, i : (h \in NotesTo(p, n, i) <=> n = k /\ i = b) /\ h \notin AlarmsTo(p, n, i)
          /\ h \in Notes(p) /\ \A n : h \notin Alarms(p, n)
      BY <1>2, <1>3, <1>6 DEF Notes, NotesOf, NotesTo, Alarms, AlarmsTo, Tidings
    <2>2. /\ timers'[p] = IF where[p] = "world" THEN timers[p] \cup {[bg |-> b, id |-> k]} ELSE timers[p]
          /\ where[p] = "world" /\ slot[p] => invite'[p] = b
      BY <1>0, <1>4, <1>6, Zenon DEF PlayersOk
    <2>3. \A n, i : n # k => ([bg |-> i, id |-> n] \in timers'[p] <=> [bg |-> i, id |-> n] \in timers[p])
      BY <2>2
    <2>4. /\ ~Absent(toWorld, Tidings(p, k)) /\ Absent(toQueue, Expiries(p, k)) /\ ~Rings(timers[p], k)
          /\ Absent(toWorld', Tidings(p, k)) /\ ~(k > queue.joined \/ Seat(queue, p, k, 0))
      <3>1. ~Absent(toWorld, Tidings(p, k))
        BY <1>2, <2>1, Handled
      <3>2. /\ Token(p, k, timers[p], toQueue, toWorld)
            /\ k > queue.joined \/ Seat(queue, p, k, 0) => NoToken(p, k, timers[p], toQueue, toWorld)
        BY DEF PlayerInv, Tokens
      <3>3. Absent(toWorld', Tidings(p, k))
        BY <1>2, <2>1, <3>2, Handled DEF Token
      <3> QED
        BY <3>1, <3>2, <3>3 DEF Token, NoToken
    <2>5. Tokens(p)'
      <3> SUFFICES ASSUME NEW n \in 1 .. MaxJoins
                   PROVE  /\ Token(p, n, timers'[p], toQueue, toWorld')
                          /\ n > queue.joined \/ Seat(queue, p, n, 0) =>
                                NoToken(p, n, timers'[p], toQueue, toWorld')
        BY <1>1 DEF Tokens
      <3>1. /\ Token(p, n, timers[p], toQueue, toWorld)
            /\ n > queue.joined \/ Seat(queue, p, n, 0) => NoToken(p, n, timers[p], toQueue, toWorld)
        BY DEF PlayerInv, Tokens
      <3>2. CASE n = k
        <4>1. \A i \in Battlegrounds : [bg |-> i, id |-> n] \in timers'[p] => i = b
          BY <2>2, <2>4, <3>2 DEF Rings
        <4>2. Single(toWorld', Tidings(p, n)) /\ Single(toQueue, Expiries(p, n))
          BY <2>4, <3>1, <3>2, AbsentIs DEF Token
        <4> QED
          BY <2>4, <3>2, <4>1, <4>2 DEF Token
      <3>3. CASE n # k
        <4>1. /\ Absent(toWorld', Tidings(p, n)) <=> Absent(toWorld, Tidings(p, n))
              /\ Single(toWorld, Tidings(p, n)) => Single(toWorld', Tidings(p, n))
          BY <1>2, <2>1, <3>3, Handled
        <4> QED
          BY <2>3, <3>1, <3>3, <4>1 DEF Token, NoToken, Rings
      <3> QED
        BY <3>2, <3>3
    <2>6. k = queue.member[p] => Absent(toWorld, Joineds(p)) /\ Absent(toWorld', OldNotes(p, k))
      <3>1. k = queue.member[p] => Absent(toWorld, Joineds(p)) /\ Absent(toWorld, OldNotes(p, k))
        BY <1>2, <2>1, Handled DEF PlayerInv, Answered
      <3> QED
        BY <1>2, <3>1, Handled
    <2>7. OneAnswer(p)'
      BY <1>1, <1>2, TidingsHandled DEF PlayerInv, OneAnswer, Awaits
    <2>8. Member(p)'
      BY <1>1, <1>2, TidingsHandled DEF PlayerInv, Member
    <2>9. Asked(p)'
      BY <1>1 DEF PlayerInv, Asked
    <2>10. Answered(p)'
      <3>1. \A n : Absent(toWorld', Alarms(p, n)) <=> Absent(toWorld, Alarms(p, n))
        BY <1>2, <2>1, Handled
      <3>2. ~Absent(toWorld, Joineds(p)) =>
               ~Rings(timers[p], queue.member[p]) /\ ~Rings(timers'[p], queue.member[p])
        BY <2>3, <2>6 DEF PlayerInv, Answered, Rings
      <3> QED
        BY <1>1, <1>2, <3>1, <3>2, TidingsHandled DEF PlayerInv, Answered
    <2>11. Knows(p)'
      <3> SUFFICES ASSUME NEW n \in 1 .. MaxJoins, NEW i \in Battlegrounds,
                          Seat(queue, p, n, i), Absent(toQueue, Removes(p)), p \notin missed'
                   PROVE  Informed(p, n, i)'
        BY <1>1 DEF Knows
      <3>1. Informed(p, n, i) /\ n = queue.member[p]
        BY <1>4 DEF PlayerInv, Member, Knows, Misses
      <3>2. ~Absent(toWorld, Notes(p))
        BY <1>2, <2>1, Handled
      <3>3. CASE ~Absent(toWorld, NotesTo(p, n, i)) /\ n = k
        <4>1. h \in NotesTo(p, n, i)
          <5>1. Absent(toWorld', NotesTo(p, n, i))
            BY <2>4, <3>3, PartsOfPlayer
          <5> QED
            BY <1>2, <3>3, <5>1, Handled
        <4>2. i = b /\ Absent(toWorld', Joineds(p)) /\ Absent(toWorld', Notes(p))
          BY <1>2, <2>1, <2>4, <2>6, <3>1, <3>3, <4>1, TidingsHandled, PartsOfPlayer
        <4>3. where[p] = "world" /\ slot[p]
          <5>1. slot[p]
            BY <1>2, <3>1, <4>2, TidingsHandled DEF PlayerInv, Member
          <5>2. where[p] # "world" => p \in missed'
            BY <1>4, <1>6, <3>1, <3>3 DEF Misses
          <5> QED
            BY <5>1, <5>2
        <4>4. invite'[p] = i /\ [bg |-> i, id |-> n] \in timers'[p]
          BY <2>2, <3>3, <4>2, <4>3
        <4> QED
          BY <4>2, <4>4 DEF Informed
      <3>4. CASE ~Absent(toWorld, NotesTo(p, n, i)) /\ n # k
        <4>1. ~Absent(toWorld', NotesTo(p, n, i))
          BY <1>2, <2>1, <3>4, Handled
        <4> QED
          BY <4>1 DEF Informed
      <3>5. CASE /\ Absent(toWorld, Joineds(p))
                 /\ ~Absent(toWorld, AlarmsTo(p, n, i)) \/ ~Absent(toQueue, ExpiriesTo(p, n, i))
        <4>1. Absent(toWorld', AlarmsTo(p, n, i)) <=> Absent(toWorld, AlarmsTo(p, n, i))
          BY <1>2, <2>1, Handled
        <4> QED
          BY <1>1, <1>2, <3>5, <4>1, TidingsHandled DEF Informed
      <3> QED
        BY <3>1, <3>2, <3>3, <3>4, <3>5 DEF Informed
    <2> QED
      BY <2>5, <2>7, <2>8, <2>9, <2>10, <2>11 DEF PlayerInv
  <1> QED
    BY <1>5, <1>6

LEMMA TimerTells ==
  ASSUME Inv, Timer, NEW p \in Players, PlayerInv(p)
  PROVE  PlayerInv(p)'
  <1>0. PlayersOk /\ toQueue \in Seq(ToQueue)
    BY DEF Inv, TypeInv
  <1>1. OnWorld("Timer") /\ UNCHANGED <<where, slot, invite, at, timers, trips, queue>>
    BY DEF Timer
  <1>2. PICK h \in ToWorld : h = Head(toWorld) /\ h.type = "Timer" /\ Taken(toWorld, toWorld', h)
    BY <1>1, HandledIs
  <1>3. PICK o \in Players, b \in Battlegrounds, k \in 1 .. MaxJoins :
           o = h.player /\ b = h.bg /\ k = h.id
    BY <1>2, ToWorldIs
  <1>4. PICK open \in BOOLEAN : open = (Exists(b) /\ bgs[b].status # "wait_leave")
    BY Zenon
  <1>5. PICK m : m = [type |-> "Expire", player |-> o, bg |-> b, id |-> k, open |-> open]
    BY Zenon
  <1>6. m \in ToQueue
    BY <1>5 DEF ToQueue
  <1>7. IF where[o] = "world" /\ slot[o] THEN toQueue' = toQueue \o <<m>> ELSE toQueue' = toQueue
    <2>1. where[o] = "world" /\ slot[o] => toQueue' = toQueue \o <<m>>
      BY <1>2, <1>3, <1>4, <1>5 DEF Timer, Tell, InWorld
    <2>2. ~(where[o] = "world" /\ slot[o]) => toQueue' = toQueue \o << >>
      BY <1>2, <1>3, Zenon DEF Timer, Tell, InWorld
    <2> QED
      BY <1>0, <2>1, <2>2
  <1>8. where[o] = "world" /\ slot[o] => Sent(toQueue, <<m>>, toQueue')
    <2>1. <<m>> \in Seq(ToQueue)
      BY <1>6
    <2> QED
      BY <1>0, <1>7, <2>1, SentIs, Zenon
  <1>11. IF where[o] = "world" THEN missed' = missed ELSE Misses(o, k)
    BY <1>2, <1>3, Zenon DEF Timer, InWorld
  <1>9. CASE p # o
    <2>1. h \notin ForPlayer(p) /\ m \notin FromPlayer(p)
      BY <1>2, <1>3, <1>5, <1>9 DEF ForPlayer, Replies, Joineds, Enters, Lefts, Notes,
                                    FromPlayer, Asks, Joins, Removes
    <2>2. toQueue' = toQueue \/ (Sent(toQueue, <<m>>, toQueue') /\ Absent(<<m>>, FromPlayer(p)))
      BY <1>7, <1>8, <2>1, OneIs
    <2>3. SameSeats(queue, queue', p) /\ SameMessages(p)
      BY <1>1, <1>2, <2>1, <2>2, NotForPlayer
    <2> QED
      BY <1>1, <1>9, <1>11, <2>3, Framed DEF Unmoved, Remembers, Misses
  <1>10. CASE p = o
    <2>1. /\ \A n : (h \in Alarms(p, n) <=> n = k) /\ (h \in Tidings(p, n) <=> n = k)
          /\ \A n, i : (h \in AlarmsTo(p, n, i) <=> n = k /\ i = b) /\ h \notin NotesTo(p, n, i)
          /\ h \notin Notes(p)
      BY <1>2, <1>3, <1>10 DEF Notes, NotesOf, NotesTo, Alarms, AlarmsTo, Tidings
    <2>2. /\ m \notin Asks(p) /\ m \notin Joins(p) /\ m \notin Removes(p)
          /\ \A n : m \in Expiries(p, n) <=> n = k
          /\ m \in ExpiriesTo(p, k, b)
      BY <1>5, <1>6, <1>10 DEF Asks, Joins, Removes, Expiries, ExpiriesTo
    <2>3. /\ Absent(toQueue', Asks(p)) <=> Absent(toQueue, Asks(p))
          /\ Absent(toQueue', Joins(p)) <=> Absent(toQueue, Joins(p))
          /\ Absent(toQueue', Removes(p)) <=> Absent(toQueue, Removes(p))
          /\ Single(toQueue, Asks(p)) => Single(toQueue', Asks(p))
          /\ Before(toQueue, Removes(p), Asks(p)) => Before(toQueue', Removes(p), Asks(p))
          /\ \A n : n # k => /\ Absent(toQueue', Expiries(p, n)) <=> Absent(toQueue, Expiries(p, n))
                             /\ Single(toQueue, Expiries(p, n)) => Single(toQueue', Expiries(p, n))
          /\ Absent(toQueue, Expiries(p, k)) => Single(toQueue', Expiries(p, k))
          /\ where[p] = "world" /\ slot[p] => ~Absent(toQueue', ExpiriesTo(p, k, b))
          /\ \A n, i : Absent(toQueue', ExpiriesTo(p, n, i)) => Absent(toQueue, ExpiriesTo(p, n, i))
      <3>1. CASE toQueue' = toQueue /\ ~(where[p] = "world" /\ slot[p])
        BY <3>1, AbsentIs
      <3>2. CASE where[p] = "world" /\ slot[p]
        <4>1. Told(toQueue, m, toQueue', FromPlayer(p))
          BY <1>8, <1>10, <3>2, ToldIs
        <4> QED
          BY <2>2, <4>1, OfPlayer DEF Told
      <3> QED
        BY <1>7, <1>10, <3>1, <3>2
    <2>4. /\ Absent(toQueue, Expiries(p, k)) /\ ~Rings(timers[p], k)
          /\ Absent(toWorld', Tidings(p, k)) /\ ~(k > queue.joined \/ Seat(queue, p, k, 0))
      <3>1. ~Absent(toWorld, Tidings(p, k))
        BY <1>2, <2>1, Handled
      <3>2. /\ Token(p, k, timers[p], toQueue, toWorld)
            /\ k > queue.joined \/ Seat(queue, p, k, 0) => NoToken(p, k, timers[p], toQueue, toWorld)
        BY DEF PlayerInv, Tokens
      <3>3. Absent(toWorld', Tidings(p, k))
        BY <1>2, <2>1, <3>2, Handled DEF Token
      <3> QED
        BY <3>1, <3>2, <3>3 DEF Token, NoToken
    <2>5. Tokens(p)'
      <3> SUFFICES ASSUME NEW n \in 1 .. MaxJoins
                   PROVE  /\ Token(p, n, timers[p], toQueue', toWorld')
                          /\ n > queue.joined \/ Seat(queue, p, n, 0) =>
                                NoToken(p, n, timers[p], toQueue', toWorld')
        BY <1>1 DEF Tokens
      <3>1. /\ Token(p, n, timers[p], toQueue, toWorld)
            /\ n > queue.joined \/ Seat(queue, p, n, 0) => NoToken(p, n, timers[p], toQueue, toWorld)
        BY DEF PlayerInv, Tokens
      <3>2. CASE n = k
        <4>1. Single(toWorld', Tidings(p, n)) /\ Single(toQueue', Expiries(p, n))
          BY <2>3, <2>4, <3>2, AbsentIs
        <4> QED
          BY <2>4, <3>1, <3>2, <4>1 DEF Token
      <3>3. CASE n # k
        <4>1. /\ Absent(toWorld', Tidings(p, n)) <=> Absent(toWorld, Tidings(p, n))
              /\ Single(toWorld, Tidings(p, n)) => Single(toWorld', Tidings(p, n))
          BY <1>2, <2>1, <3>3, Handled
        <4> QED
          BY <2>3, <3>1, <3>3, <4>1 DEF Token, NoToken
      <3> QED
        BY <3>2, <3>3
    <2>6. ~Absent(toWorld, Joineds(p)) => k # queue.member[p]
      <3>1. ~Absent(toWorld, Alarms(p, k))
        BY <1>2, <2>1, Handled
      <3> QED
        BY <3>1 DEF PlayerInv, Answered
    <2>7. OneAnswer(p)'
      BY <1>1, <1>2, <2>3, TidingsHandled DEF PlayerInv, OneAnswer, Awaits
    <2>8. Member(p)'
      BY <1>1, <1>2, <2>3, TidingsHandled DEF PlayerInv, Member
    <2>9. Asked(p)'
      BY <1>1, <2>3 DEF PlayerInv, Asked
    <2>10. Answered(p)'
      <3>1. \A n : Absent(toWorld, Alarms(p, n)) => Absent(toWorld', Alarms(p, n))
        BY <1>2, Handled
      <3> QED
        BY <1>1, <1>2, <2>3, <2>6, <3>1, TidingsHandled DEF PlayerInv, Answered
    <2>11. Knows(p)'
      <3> SUFFICES ASSUME NEW n \in 1 .. MaxJoins, NEW i \in Battlegrounds,
                          Seat(queue, p, n, i), Absent(toQueue, Removes(p)), p \notin missed'
                   PROVE  Informed(p, n, i)'
        BY <1>1, <2>3 DEF Knows
      <3>1. Informed(p, n, i) /\ n = queue.member[p]
        BY <1>11 DEF PlayerInv, Member, Knows, Misses
      <3>2. CASE ~Absent(toWorld, NotesTo(p, n, i))
        <4>1. ~Absent(toWorld', NotesTo(p, n, i))
          BY <1>2, <2>1, <3>2, Handled
        <4> QED
          BY <4>1 DEF Informed
      <3>3. CASE /\ Absent(toWorld, Joineds(p)) /\ Absent(toWorld, Notes(p))
                 /\ invite[p] = i /\ [bg |-> i, id |-> n] \in timers[p]
        BY <1>1, <1>2, <3>3, Handled DEF Informed
      <3>4. CASE Absent(toWorld, Joineds(p)) /\ ~Absent(toQueue, ExpiriesTo(p, n, i))
        BY <1>2, <2>3, <3>4, Handled DEF Informed
      <3>5. CASE Absent(toWorld, Joineds(p)) /\ ~Absent(toWorld, AlarmsTo(p, n, i)) /\ n # k
        BY <1>2, <2>1, <3>5, Handled DEF Informed
      <3>6. CASE Absent(toWorld, Joineds(p)) /\ ~Absent(toWorld, AlarmsTo(p, n, i)) /\ n = k
        <4>1. h \in AlarmsTo(p, n, i)
          <5>1. Absent(toWorld', AlarmsTo(p, n, i))
            BY <2>4, <3>6, PartsOfPlayer
          <5> QED
            BY <1>2, <3>6, <5>1, Handled
        <4>2. i = b /\ where[p] = "world" /\ slot[p]
          <5>1. i = b /\ slot[p]
            BY <2>1, <3>1, <3>6, <4>1, Numbers DEF PlayerInv, Member
          <5>2. where[p] # "world" => p \in missed'
            BY <1>10, <1>11, <3>1, <3>6 DEF Misses
          <5> QED
            BY <5>1, <5>2
        <4>3. ~Absent(toQueue', ExpiriesTo(p, n, i))
          BY <2>3, <3>6, <4>2
        <4> QED
          BY <1>2, <3>6, <4>3, Handled DEF Informed
      <3> QED
        BY <3>1, <3>2, <3>3, <3>4, <3>5, <3>6 DEF Informed
    <2> QED
      BY <2>5, <2>7, <2>8, <2>9, <2>10, <2>11 DEF PlayerInv
  <1> QED
    BY <1>9, <1>10

-----------------------------------------------------------------------------
(***************************************************************************)
(* The messages the queue handles, and what the players notice of it.      *)
(***************************************************************************)
LEMMA TakenOff ==
  ASSUME NEW ms, NEW ts, NEW h, Taken(ms, ts, h)
  PROVE  /\ \A M : /\ Absent(ms, M) <=> h \notin M /\ Absent(ts, M)
                   /\ Single(ms, M) => Single(ts, M)
                   /\ Single(ms, M) /\ h \in M => Absent(ts, M)
         /\ \A M, N : /\ Before(ms, M, N) => Before(ts, M, N)
                      /\ Before(ms, M, N) /\ h \in N => Absent(ms, M)
  BY DEF Taken

LEMMA AnsweredIs ==
  ASSUME Inv, NEW type, OnQueue(type)
  PROVE  /\ Head(toQueue) \in ToQueue /\ Head(toQueue).type = type
         /\ Taken(toQueue, toQueue', Head(toQueue))
  <1>1. toQueue \in Seq(ToQueue)
    BY DEF Inv, TypeInv
  <1>2. toQueue # << >> /\ Head(toQueue).type = type /\ toQueue' = Tail(toQueue)
    BY DEF OnQueue
  <1>3. Head(toQueue) \in ToQueue /\ Taken(toQueue, toQueue', Head(toQueue))
    BY <1>1, <1>2, TakenIs, Zenon
  <1> QED
    BY <1>2, <1>3

LEMMA AnswersRemember ==
  ASSUME NEW answer, Answers(answer), NEW p
  PROVE  Remembers(p)
  BY DEF Answers, Remembers

LEMMA QueueUnmoved ==
  ASSUME QueueMessage, NEW p
  PROVE  Unmoved(p)
  <1>1. Remembers(p)
    BY AnswersRemember
    DEF QueueMessage, JoinQueue, PortQueue, RemoveFromQueue, Expire, ListBattleground,
        UnlistBattleground, SyncStatus, SyncDeparture
  <1>2. UNCHANGED <<where, slot, invite, at, timers>>
    BY DEF QueueMessage, JoinQueue, PortQueue, RemoveFromQueue, Expire, ListBattleground,
           UnlistBattleground, SyncStatus, SyncDeparture, OnQueue
  <1> QED
    BY <1>1, <1>2 DEF Unmoved

\* The queue sent ns.
LEMMA AnswerSent ==
  ASSUME Inv, NEW ns \in Seq(ToWorld), toWorld' = toWorld \o ns
  PROVE  Sent(toWorld, ns, toWorld')
  <1>1. toWorld \in Seq(ToWorld)
    BY DEF Inv, TypeInv
  <1> QED
    BY <1>1, SentIs, Zenon

LEMMA CountsUnnoticed ==
  ASSUME NEW ms, Counts(ms), NEW p
  PROVE  ms \in Seq(ToWorld) /\ Absent(ms, ForPlayer(p))
  BY DEF Counts, Absent, ForPlayer, Replies, Joineds, Enters, Lefts, Notes

\* A message of somebody else, or of a battleground.
LEMMA QueueFrame ==
  ASSUME Inv, NEW type, OnQueue(type), NEW p, PlayerInv(p), Unmoved(p), Head(toQueue) \notin FromPlayer(p),
         SameSeats(queue, queue', p), NEW ns \in Seq(ToWorld), Absent(ns, ForPlayer(p)),
         toWorld' = toWorld \o ns
  PROVE  PlayerInv(p)'
  <1>1. Taken(toQueue, toQueue', Head(toQueue))
    BY AnsweredIs
  <1>2. Sent(toWorld, ns, toWorld')
    BY AnswerSent
  <1>3. Kin(toQueue, toQueue', FromPlayer(p))
    BY <1>1, KinIs
  <1>4. Kin(toWorld, toWorld', ForPlayer(p))
    BY <1>2, KinIs
  <1> QED
    BY <1>1, <1>3, <1>4, Framed DEF SameMessages

\* What changes an entry changes no group.
LEMMA ScheduledGroups ==
  ASSUME NEW q, NEW r, r = ScheduleQueueUpdate(q), QueueOk(q)
  PROVE  SameGroups(q, r)
  BY ScheduleIs, Zenon

LEMMA ListedGroups ==
  ASSUME NEW q, QueueOk(q), NEW e, NEW r, r = ScheduleQueueUpdate(AddBgToFreeSlots(q, e))
  PROVE  SameGroups(q, r)
  <1>1. PICK slots : slots = <<e>> \o q.freeSlots
    BY Zenon
  <1>2. PICK b \in BOOLEAN : b = TRUE
    BY Zenon
  <1>3. PICK u : u = [q EXCEPT !.freeSlots = slots]
    BY Zenon
  <1>4. AddBgToFreeSlots(q, e) = u
    BY <1>1, <1>3 DEF AddBgToFreeSlots
  <1>5. u = Reslotted(q, slots, q.scheduled)
    BY <1>3, QueueTypes DEF Reslotted
  <1>6. r = [u EXCEPT !.scheduled = b]
    BY <1>2, <1>4, ZenonT(40) DEF ScheduleQueueUpdate
  <1>7. r = Reslotted(q, slots, b)
    BY <1>5, <1>6 DEF Reslotted
  <1> QED
    BY <1>7 DEF Reslotted, SameGroups

\* The queue answers.
LEMMA AnsweredWith ==
  ASSUME NEW r, NEW ns, Answers(Answer(r, ns))
  PROVE  queue' = r /\ toWorld' = toWorld \o ns
  <1>1. PICK ans : ans = Answer(r, ns)
    OBVIOUS
  <1>2. queue' = ans.queue /\ toWorld' = toWorld \o ans.sent
    BY <1>1, AnswersAre, Zenon
  <1> QED
    BY <1>1, <1>2 DEF Answer

\* One of the battlegrounds told the queue something.
LEMMA EntryMessages ==
  ASSUME Inv, SyncStatus \/ SyncDeparture \/ ListBattleground \/ UnlistBattleground
  PROVE  \E ns : Counts(ns) /\ SameGroups(queue, queue') /\ toWorld' = toWorld \o ns
  <1>0. QueueOk(queue) /\ Counts(<< >>)
    BY DEF Inv, TypeInv, Counts
  <1>1. CASE SyncStatus
    <2>1. OnQueue("Status")
      BY <1>1 DEF SyncStatus
    <2>2. PICK i \in Battlegrounds, status \in Statuses :
             i = Head(toQueue).bg /\ status = Head(toQueue).status
      BY <2>1, AnsweredIs, ToQueueIs
    <2>3. PICK r, ns : r = SetSlotStatus(queue, i, status) /\ ns = << >>
      OBVIOUS
    <2>4. Answers(Answer(r, ns))
      BY <1>1, <2>2, <2>3 DEF SyncStatus
    <2>5. queue' = r /\ toWorld' = toWorld \o ns
      BY <2>4, AnsweredWith
    <2>6. SameGroups(queue, r)
      BY <1>0, <2>3, StatusIs
    <2> QED
      BY <1>0, <2>3, <2>5, <2>6, Zenon
  <1>2. CASE SyncDeparture
    <2>1. OnQueue("Decrease")
      BY <1>2 DEF SyncDeparture
    <2>2. PICK i \in Battlegrounds, s \in Sides : i = Head(toQueue).bg /\ s = Head(toQueue).side
      BY <2>1, AnsweredIs, ToQueueIs
    <2>3. PICK d, r, ms : /\ d = DecreaseInvitedCount(queue, i, s)
                          /\ r = ScheduleQueueUpdate(d.queue) /\ ms = d.sent
      OBVIOUS
    <2>4. Answers(Answer(r, ms))
      BY <1>2, <2>2, <2>3 DEF SyncDeparture
    <2>5. queue' = r /\ toWorld' = toWorld \o ms
      BY <2>4, AnsweredWith
    <2>6. QueueOk(d.queue) /\ SameGroups(queue, d.queue) /\ Counts(ms)
      <3>1. CASE ~HasSlot(queue, i)
        <4>1. d = Answer(queue, << >>)
          BY <2>3, <3>1, NothingToDecrease
        <4>2. d.queue = queue /\ d.sent = << >>
          BY <4>1 DEF Answer
        <4>3. Counts(<< >>)
          BY DEF Counts
        <4> QED
          BY <1>0, <2>3, <4>2, <4>3 DEF SameGroups
      <3>2. CASE HasSlot(queue, i)
        <4>1. PICK k, c : k = FirstSlot(queue, i) /\ c = Plus(queue.freeSlots[k].invited, s, -1)
          OBVIOUS
        <4>2. d = DecreaseInvitedCount(queue, i, s)
          BY <2>3
        <4>3. QueueOk(d.queue)
          BY <1>0, <3>2, <4>1, <4>2, DecreaseIs, Zenon
        <4>4. SameGroups(queue, d.queue)
          BY <1>0, <3>2, <4>1, <4>2, DecreaseIs, Zenon
        <4>5. c \in Counters
          BY <1>0, <3>2, <4>1, <4>2, DecreaseIs, Zenon
        <4>6. d.sent = <<Count(i, s, c[s])>>
          BY <3>2, <4>1, <4>2 DEF DecreaseInvitedCount, Answer, Count
        <4>7. PICK m : m = Count(i, s, c[s])
          OBVIOUS
        <4>8. c[s] \in 0 .. Width - 1
          BY <4>5 DEF Counters
        <4>9. m \in ToWorld /\ m.type = "Count"
          BY <4>7, <4>8 DEF Count, ToWorld
        <4>10. Counts(<<m>>)
          BY <4>9 DEF Counts
        <4> QED
          BY <2>3, <4>3, <4>4, <4>6, <4>7, <4>10
      <3> QED
        BY <3>1, <3>2
    <2>7. SameGroups(d.queue, r)
      BY <2>3, <2>6, ScheduleIs, Zenon
    <2>8. SameGroups(queue, r)
      BY <2>6, <2>7 DEF SameGroups
    <2> QED
      BY <2>5, <2>6, <2>8
  <1>3. CASE ListBattleground
    <2>1. PICK r, e, ns : /\ e = Head(toQueue).entry /\ ns = << >>
                          /\ r = ScheduleQueueUpdate(AddBgToFreeSlots(queue, e))
      OBVIOUS
    <2>2. Answers(Answer(r, ns))
      BY <1>3, <2>1 DEF ListBattleground
    <2>3. queue' = r /\ toWorld' = toWorld \o ns
      BY <2>2, AnsweredWith
    <2>4. SameGroups(queue, r)
      BY <1>0, <2>1, ListedGroups
    <2> QED
      BY <1>0, <2>1, <2>3, <2>4, Zenon
  <1>4. CASE UnlistBattleground
    <2>1. PICK r, b, ns : b = Head(toQueue).bg /\ ns = << >> /\ r = RemoveBgFromFreeSlots(queue, b)
      OBVIOUS
    <2>2. Answers(Answer(r, ns))
      BY <1>4, <2>1 DEF UnlistBattleground
    <2>3. queue' = r /\ toWorld' = toWorld \o ns
      BY <2>2, AnsweredWith
    <2>4. SameGroups(queue, r)
      BY <1>0, <2>1, UnlistIs
    <2> QED
      BY <1>0, <2>1, <2>3, <2>4, Zenon
  <1> QED
    BY <1>1, <1>2, <1>3, <1>4

LEMMA EntryTells ==
  ASSUME Inv, SyncStatus \/ SyncDeparture \/ ListBattleground \/ UnlistBattleground,
         NEW p \in Players, PlayerInv(p)
  PROVE  PlayerInv(p)'
  <1>1. PICK type \in {"Status", "Decrease", "FreeAdd", "FreeRemove"} : OnQueue(type)
    BY DEF SyncStatus, SyncDeparture, ListBattleground, UnlistBattleground
  <1>2. PICK h \in ToQueue : h = Head(toQueue) /\ h.type = type /\ Unmoved(p)
    BY <1>1, AnsweredIs, QueueUnmoved DEF QueueMessage
  <1>3. h \notin FromPlayer(p)
    BY <1>2 DEF FromPlayer, Asks, Joins, Removes
  <1>4. PICK ns : Counts(ns) /\ SameGroups(queue, queue') /\ toWorld' = toWorld \o ns
    BY EntryMessages
  <1>5. ns \in Seq(ToWorld) /\ Absent(ns, ForPlayer(p))
    BY <1>4, CountsUnnoticed
  <1> QED
    BY <1>1, <1>2, <1>3, <1>4, <1>5, QueueFrame, SameSeatsAre, Zenon

-----------------------------------------------------------------------------
(***************************************************************************)
(* Who leaves the queue.                                                   *)
(***************************************************************************)
\* The queue r is q without p.
Unseated(q, r, p) ==
    /\ r.member[p] = 0 /\ (\A n, i : ~Seat(r, p, n, i)) /\ r.joined = q.joined
    /\ \A o \in Players : o # p => SameSeats(q, r, o)

LEMMA UnseatedIs ==
  ASSUME NEW q, QueueOk(q), NEW p \in Players, \A n, i : Seat(q, p, n, i) => n = q.member[p],
         NEW b \in BOOLEAN, NEW d, d = RemovePlayer(q, p, b)
  PROVE  QueueOk(d.queue) /\ Unseated(q, d.queue, p) /\ Counts(d.sent)
  <1>1. QueueOk(d.queue) /\ Counts(d.sent)
    BY AnyRemoved
  <1>2. CASE q.member[p] = 0
    <2>1. d = Answer(q, << >>)
      BY <1>2, NobodyRemoved
    <2>2. d.queue = q
      BY <2>1 DEF Answer
    <2>3. \A n, i : ~Seat(q, p, n, i)
      <3> SUFFICES ASSUME NEW n, NEW i, Seat(q, p, n, i) PROVE FALSE
        OBVIOUS
      <3>1. n \in 1 .. MaxJoins /\ n = 0
        BY <1>2, SeatTypes
      <3> QED
        BY <3>1, Numbers
    <2> QED
      BY <1>1, <1>2, <2>2, <2>3, SameSeatsAre DEF Unseated
  <1>3. CASE q.member[p] # 0
    <2>1. Gone(q, d.queue, p)
      BY <1>3, RemovePlayerIs
    <2>2. /\ d.queue.joined = q.joined /\ d.queue.member = [q.member EXCEPT ![p] = 0]
          /\ \A o \in Players : \A n, i :
                Seat(d.queue, o, n, i) <=> Seat(q, o, n, i) /\ ~(o = p /\ n = q.member[p])
      BY <2>1 DEF Gone
    <2>3. d.queue.member[p] = 0 /\ \A o \in Players : o # p => d.queue.member[o] = q.member[o]
      BY <2>2, QueueTypes
    <2>4. \A n, i : ~Seat(d.queue, p, n, i)
      BY <2>2
    <2>5. \A o \in Players : o # p => SameSeats(q, d.queue, o)
      BY <2>2, <2>3 DEF SameSeats
    <2> QED
      BY <1>1, <2>2, <2>3, <2>4, <2>5 DEF Unseated
  <1> QED
    BY <1>2, <1>3

LEMMA UnseatedScheduled ==
  ASSUME NEW q, NEW r, NEW p, QueueOk(r), Unseated(q, r, p), NEW t, t = ScheduleQueueUpdate(r)
  PROVE  Unseated(q, t, p)
  <1>1. t.member = r.member /\ t.joined = r.joined /\ \A o, n, i : Seat(t, o, n, i) <=> Seat(r, o, n, i)
    BY ScheduleIs, Zenon DEF SameGroups
  <1> QED
    BY <1>1 DEF Unseated, SameSeats

\* Nobody has a note of the group 0.
LEMMA NoNotesOfNone ==
  ASSUME NEW p, NEW ms
  PROVE  Absent(ms, NotesOf(p, 0))
  <1>1. \A m \in NotesOf(p, 0) : m \in ToWorld /\ m.type = "Invited" /\ m.id = 0
    BY DEF NotesOf
  <1>2. \A m \in NotesOf(p, 0) : m.id \in 1 .. MaxJoins
    BY <1>1, ToWorldIs
  <1>3. 0 \notin 1 .. MaxJoins
    BY Numbers
  <1> QED
    BY <1>1, <1>2, <1>3 DEF Absent

\* What holds of a player who left, whatever the world is told.
LEMMA LeaverTells ==
  ASSUME NEW p, PlayerInv(p), Unmoved(p), Unseated(queue, queue', p),
         NEW h, Taken(toQueue, toQueue', h),
         \A n : /\ Absent(toWorld', Tidings(p, n)) <=> Absent(toWorld, Tidings(p, n))
                /\ Single(toWorld, Tidings(p, n)) => Single(toWorld', Tidings(p, n))
  PROVE  /\ Tokens(p)' /\ Member(p)' /\ Asked(p)' /\ Knows(p)'
         /\ Absent(toWorld', Joineds(p)) =>
               /\ Before(toWorld', Joineds(p), NotesOf(p, queue'.member[p]))
               /\ Before(toWorld', OldNotes(p, queue'.member[p]), NotesOf(p, queue'.member[p]))
  <1>1. /\ queue'.member[p] = 0 /\ (\A n, i : ~Seat(queue', p, n, i)) /\ queue'.joined = queue.joined
    BY DEF Unseated
  <1>2. Tokens(p)'
    <2> SUFFICES ASSUME NEW n \in 1 .. MaxJoins
                 PROVE  /\ Token(p, n, timers[p], toQueue', toWorld')
                        /\ n > queue'.joined \/ Seat(queue', p, n, 0) =>
                              NoToken(p, n, timers[p], toQueue', toWorld')
      BY DEF Tokens, Unmoved
    <2>1. /\ Token(p, n, timers[p], toQueue, toWorld)
          /\ n > queue.joined \/ Seat(queue, p, n, 0) => NoToken(p, n, timers[p], toQueue, toWorld)
      BY DEF PlayerInv, Tokens
    <2>2. /\ Absent(toQueue, Expiries(p, n)) => Absent(toQueue', Expiries(p, n))
          /\ Single(toQueue, Expiries(p, n)) => Single(toQueue', Expiries(p, n))
      BY TakenOff
    <2> QED
      BY <1>1, <2>1, <2>2 DEF Token, NoToken
  <1>3. Member(p)'
    BY <1>1 DEF PlayerInv, Member, Unmoved
  <1>4. Asked(p)'
    BY <1>1, TakenOff DEF PlayerInv, Asked
  <1>5. Knows(p)'
    BY <1>1 DEF Knows
  <1>6. /\ Before(toWorld', Joineds(p), NotesOf(p, queue'.member[p]))
        /\ Before(toWorld', OldNotes(p, queue'.member[p]), NotesOf(p, queue'.member[p]))
        \/ ~Absent(toWorld', Joineds(p))
    BY <1>1, NoNotesOfNone, AbsentIs
  <1> QED
    BY <1>2, <1>3, <1>4, <1>5, <1>6

LEMMA RemoveQueueTells ==
  ASSUME Inv, RemoveFromQueue, NEW p \in Players, PlayerInv(p), \A o \in Players : PlayerInv(o)
  PROVE  PlayerInv(p)'
  <1>0. QueueOk(queue)
    BY DEF Inv, TypeInv
  <1>1. OnQueue("Remove")
    BY DEF RemoveFromQueue
  <1>2. PICK h \in ToQueue : h = Head(toQueue) /\ h.type = "Remove" /\ Taken(toQueue, toQueue', h)
                             /\ Unmoved(p)
    BY <1>1, AnsweredIs, QueueUnmoved DEF QueueMessage
  <1>3. PICK o \in Players : o = h.player
    BY <1>2, ToQueueIs
  <1>4. PICK d : d = RemovePlayer(queue, o, TRUE)
    BY Zenon
  <1>5. queue' = d.queue /\ toWorld' = toWorld \o d.sent
    BY <1>2, <1>3, <1>4, AnswersAre, Zenon DEF RemoveFromQueue
  <1>6. Unseated(queue, queue', o) /\ Counts(d.sent)
    <2>1. \A n, i : Seat(queue, o, n, i) => n = queue.member[o]
      BY DEF PlayerInv, Member
    <2> QED
      BY <1>0, <1>4, <1>5, <2>1, UnseatedIs, Zenon
  <1>7. d.sent \in Seq(ToWorld) /\ Absent(d.sent, ForPlayer(p))
    BY <1>6, CountsUnnoticed
  <1>8. CASE p # o
    <2>1. h \notin FromPlayer(p)
      BY <1>2, <1>3, <1>8 DEF FromPlayer, Asks, Joins, Removes
    <2>2. SameSeats(queue, queue', p)
      BY <1>6, <1>8 DEF Unseated
    <2> QED
      BY <1>1, <1>2, <1>5, <1>7, <2>1, <2>2, QueueFrame, Zenon
  <1>9. CASE p = o
    <2>1. h \in Removes(p) /\ h \notin Asks(p)
      BY <1>2, <1>3, <1>9 DEF Removes, Asks, Joins
    <2>2. Kin(toWorld, toWorld', ForPlayer(p))
      BY <1>5, <1>7, AnswerSent, KinIs, Zenon
    <2>3. \A n : /\ Absent(toWorld', Tidings(p, n)) <=> Absent(toWorld, Tidings(p, n))
                 /\ Single(toWorld, Tidings(p, n)) => Single(toWorld', Tidings(p, n))
      BY <2>2, OfPlayer DEF Kin
    <2>4. Absent(toWorld, Joineds(p)) /\ queue'.member[p] = 0
      <3>1. ~Absent(toQueue, Removes(p))
        BY <1>2, <2>1, TakenOff
      <3> QED
        BY <1>6, <1>9, <3>1 DEF PlayerInv, Answered, Unseated
    <2>5. /\ Tokens(p)' /\ Member(p)' /\ Asked(p)' /\ Knows(p)'
          /\ Absent(toWorld', Joineds(p)) =>
               /\ Before(toWorld', Joineds(p), NotesOf(p, queue'.member[p]))
               /\ Before(toWorld', OldNotes(p, queue'.member[p]), NotesOf(p, queue'.member[p]))
      BY <1>2, <1>6, <1>9, <2>3, LeaverTells
    <2>6. OneAnswer(p)'
      BY <1>2, <2>1, <2>2, TakenOff, SameForPlayer DEF PlayerInv, OneAnswer, Awaits, Unmoved
    <2>7. Answered(p)'
      BY <1>2, <2>2, <2>4, <2>5, SameForPlayer, AbsentIs DEF PlayerInv, Answered, Unmoved
    <2> QED
      BY <2>5, <2>6, <2>7 DEF PlayerInv
  <1> QED
    BY <1>8, <1>9

\* A player is told that he is out of the queue.
LEMMA LeftTold ==
  ASSUME Inv, NEW o \in Players, NEW cs, Counts(cs), NEW m, m = [type |-> "Left", player |-> o],
         NEW ns, ns = cs \o <<m>>, toWorld' = toWorld \o ns
  PROVE  /\ ns \in Seq(ToWorld) /\ m \in Lefts(o) /\ Told(toWorld, m, toWorld', ForPlayer(o))
         /\ \A p : p # o => Absent(ns, ForPlayer(p))
  <1>1. m \in ToWorld
    BY DEF ToWorld
  <1>2. <<m>> \in Seq(ToWorld) /\ cs \in Seq(ToWorld) /\ \A p : Absent(cs, ForPlayer(p))
    BY <1>1, CountsUnnoticed
  <1>3. ns \in Seq(ToWorld) /\ Sent(cs, <<m>>, ns)
    BY <1>2, SentIs, Zenon
  <1>4. Sent(toWorld, ns, toWorld')
    BY <1>3, AnswerSent, Zenon
  <1>5. Told(toWorld, m, toWorld', ForPlayer(o))
    BY <1>2, <1>3, <1>4, ToldIs
  <1>6. ASSUME NEW p, p # o PROVE Absent(ns, ForPlayer(p))
    <2>1. m \notin ForPlayer(p)
      BY <1>6 DEF ForPlayer, Replies, Joineds, Enters, Lefts, Notes
    <2>2. Absent(<<m>>, ForPlayer(p))
      BY <2>1, OneIs
    <2> QED
      BY <1>2, <1>3, <2>2, Zenon DEF Sent
  <1>7. m \in Lefts(o)
    BY <1>1 DEF Lefts
  <1> QED
    BY <1>3, <1>5, <1>6, <1>7

\* What a player does not hear of when he is told something else.
LEMMA ToldParts ==
  ASSUME NEW p, NEW m, Told(toWorld, m, toWorld', ForPlayer(p)), m.type \in {"Left", "Enter", "Joined"}
  PROVE  /\ \A n : /\ Absent(toWorld', Tidings(p, n)) <=> Absent(toWorld, Tidings(p, n))
                   /\ Single(toWorld, Tidings(p, n)) => Single(toWorld', Tidings(p, n))
                   /\ Absent(toWorld', NotesOf(p, n)) <=> Absent(toWorld, NotesOf(p, n))
                   /\ Absent(toWorld', Alarms(p, n)) <=> Absent(toWorld, Alarms(p, n))
         /\ Absent(toWorld', Joineds(p)) <=> Absent(toWorld, Joineds(p)) /\ m \notin Joineds(p)
         /\ Absent(toWorld', Enters(p)) <=> Absent(toWorld, Enters(p)) /\ m \notin Enters(p)
         /\ Absent(toWorld', Replies(p)) <=> Absent(toWorld, Replies(p)) /\ m \notin Replies(p)
         /\ Absent(toWorld', Lefts(p)) <=> Absent(toWorld, Lefts(p)) /\ m \notin Lefts(p)
         /\ Absent(toWorld, Replies(p)) => Single(toWorld', Replies(p))
         /\ m \notin Replies(p) /\ Single(toWorld, Replies(p)) => Single(toWorld', Replies(p))
         /\ Absent(toWorld, Joineds(p)) /\ (m \notin Lefts(p) \/ m \notin Joineds(p))
               => Before(toWorld', Lefts(p), Joineds(p))
  <1>1. \A n : m \notin Tidings(p, n) /\ m \notin NotesOf(p, n) /\ m \notin Alarms(p, n)
    BY DEF Tidings, NotesOf, Alarms
  <1> QED
    BY <1>1, OfPlayer DEF Told

LEMMA PortQueueTells ==
  ASSUME Inv, PortQueue, NEW p \in Players, PlayerInv(p), \A o \in Players : PlayerInv(o)
  PROVE  PlayerInv(p)'
  <1>0. QueueOk(queue) /\ toWorld \in Seq(ToWorld)
    BY DEF Inv, TypeInv
  <1>1. OnQueue("Port")
    BY DEF PortQueue
  <1>2. PICK h \in ToQueue : h = Head(toQueue) /\ h.type = "Port" /\ Taken(toQueue, toQueue', h)
                             /\ Unmoved(p)
    BY <1>1, AnsweredIs, QueueUnmoved DEF QueueMessage
  <1>3. PICK o \in Players, enter \in BOOLEAN : o = h.player /\ enter = h.enter
    BY <1>2, ToQueueIs
  <1>4. PICK b \in BOOLEAN : b = ~enter
    BY Zenon
  <1>5. PICK to, gone : to = InvitedTo(queue, o) /\ gone = RemovePlayer(queue, o, b)
    OBVIOUS
  <1>6. Answers(
          IF ~IsQueued(queue, o) \/ (enter /\ to = 0) THEN Answer(queue, << >>)
          ELSE IF enter
            THEN Answer(gone.queue, <<[type |-> "Enter", player |-> o, bg |-> to]>>)
            ELSE Answer(ScheduleQueueUpdate(gone.queue),
                        gone.sent \o <<[type |-> "Left", player |-> o]>>))
    BY <1>2, <1>3, <1>4, <1>5, ZenonT(40) DEF PortQueue
  <1>7. QueueOk(gone.queue) /\ Unseated(queue, gone.queue, o) /\ Counts(gone.sent)
    <2>1. \A n, i : Seat(queue, o, n, i) => n = queue.member[o]
      BY DEF PlayerInv, Member
    <2> QED
      BY <1>0, <1>5, <2>1, UnseatedIs
  <1>8. p # o => h \notin FromPlayer(p)
    BY <1>2, <1>3 DEF FromPlayer, Asks, Joins, Removes
  <1>9. p = o => h \in Asks(p) /\ h \notin Removes(p) /\ \A n : h \notin Expiries(p, n)
    BY <1>2, <1>3 DEF Asks, Removes, Expiries
  <1>10. p = o => /\ Absent(toQueue', Asks(p)) /\ Absent(toQueue', Joins(p))
                  /\ Absent(toWorld, Replies(p)) /\ Absent(toWorld, Joineds(p)) /\ Absent(toWorld, Enters(p))
                  /\ where[p] = "world" /\ at[p] = 0 /\ Absent(toQueue, Removes(p))
    <2> SUFFICES ASSUME p = o
                 PROVE  /\ Absent(toQueue', Asks(p)) /\ Absent(toQueue', Joins(p))
                        /\ Absent(toWorld, Replies(p)) /\ Absent(toWorld, Joineds(p))
                        /\ Absent(toWorld, Enters(p)) /\ where[p] = "world" /\ at[p] = 0
                        /\ Absent(toQueue, Removes(p))
      OBVIOUS
    <2>1. ~Absent(toQueue, Asks(p))
      BY <1>2, <1>9, TakenOff
    <2>2. Absent(toWorld, Replies(p)) /\ where[p] = "world" /\ at[p] = 0
      BY <2>1 DEF PlayerInv, OneAnswer, Awaits
    <2>3. Absent(toQueue', Asks(p)) /\ Absent(toQueue, Removes(p))
      BY <1>2, <1>9, TakenOff DEF PlayerInv, OneAnswer, Asked
    <2> QED
      BY <2>2, <2>3, PartsOfPlayer
  <1>11. CASE ~IsQueued(queue, o) \/ (enter /\ to = 0)
    <2>1. Answers(Answer(queue, << >>))
      BY <1>6, <1>11
    <2>2. queue' = queue /\ toWorld' = toWorld \o << >>
      BY <2>1, NothingAnswered
    <2>3. << >> \in Seq(ToWorld) /\ toWorld' = toWorld
      BY <1>0, <2>2
    <2>4. CASE p # o
      BY <1>1, <1>2, <1>8, <2>2, <2>3, <2>4, NoneIs, SameSeatsAre, QueueFrame, Zenon
    <2>5. CASE p = o
      <3>1. /\ \A n : /\ Absent(toQueue', Expiries(p, n)) <=> Absent(toQueue, Expiries(p, n))
                      /\ Single(toQueue, Expiries(p, n)) => Single(toQueue', Expiries(p, n))
            /\ \A n, i : Absent(toQueue', ExpiriesTo(p, n, i)) <=> Absent(toQueue, ExpiriesTo(p, n, i))
            /\ Absent(toQueue', Removes(p)) <=> Absent(toQueue, Removes(p))
        <4>1. \A n, i : h \notin ExpiriesTo(p, n, i)
          BY <1>9, <2>5 DEF ExpiriesTo
        <4> QED
          BY <1>2, <1>9, <2>5, <4>1, TakenOff
      <3>2. Tokens(p)'
        BY <1>2, <2>2, <2>3, <3>1 DEF PlayerInv, Tokens, Token, NoToken, Unmoved
      <3>3. OneAnswer(p)'
        BY <1>2, <1>10, <2>3, <2>5, AbsentIs DEF OneAnswer, Awaits, Unmoved
      <3>4. Member(p)'
        BY <1>2, <2>2, <2>3, <3>1 DEF PlayerInv, Member, Unmoved
      <3>5. Asked(p)'
        BY <1>10, <2>5, AbsentIs DEF Asked
      <3>6. Answered(p)'
        BY <1>2, <2>2, <2>3, <3>1 DEF PlayerInv, Answered, Unmoved
      <3>7. Knows(p)'
        BY <1>2, <2>2, <2>3, <3>1 DEF PlayerInv, Knows, Informed, Unmoved, Remembers
      <3> QED
        BY <3>2, <3>3, <3>4, <3>5, <3>6, <3>7 DEF PlayerInv
    <2> QED
      BY <2>4, <2>5
  <1>12. CASE ~(~IsQueued(queue, o) \/ (enter /\ to = 0)) /\ enter
    <2>1. PICK m : m = [type |-> "Enter", player |-> o, bg |-> to]
      BY Zenon
    <2>2. Answers(Answer(gone.queue, <<m>>))
      BY <1>6, <1>12, <2>1
    <2>3. queue' = gone.queue /\ toWorld' = toWorld \o <<m>>
      BY <2>2, AnswersAre DEF Answer
    <2>4. to \in Battlegrounds
      <3>1. to \in 0 .. MaxInstances /\ to # 0
        BY <1>0, <1>5, <1>12, SeatIs DEF IsQueued
      <3> QED
        BY <3>1, Numbers DEF Battlegrounds
    <2>5. m \in ToWorld /\ m.type = "Enter"
      BY <2>1, <2>4 DEF ToWorld
    <2>6. <<m>> \in Seq(ToWorld)
      BY <2>5
    <2>7. Unseated(queue, queue', o)
      BY <1>7, <2>3
    <2>8. CASE p # o
      <3>1. m \notin ForPlayer(p)
        BY <2>1, <2>8 DEF ForPlayer, Replies, Joineds, Enters, Lefts, Notes
      <3>2. Absent(<<m>>, ForPlayer(p)) /\ SameSeats(queue, queue', p)
        BY <2>7, <2>8, <3>1, OneIs DEF Unseated
      <3> QED
        BY <1>1, <1>2, <1>8, <2>3, <2>6, <2>8, <3>2, QueueFrame, Zenon
    <2>9. CASE p = o
      <3>1. m \in Enters(p) /\ m \in Replies(p) /\ m \notin Joineds(p) /\ m \notin Lefts(p)
        BY <2>1, <2>5, <2>9 DEF Enters, Replies, Joineds, Lefts
      <3>2. Told(toWorld, m, toWorld', ForPlayer(p))
        BY <2>3, <2>6, AnswerSent, ToldIs, Zenon
      <3>3. queue.member[p] # 0 /\ queue'.member[p] = 0
        BY <1>12, <2>7, <2>9 DEF IsQueued, Unseated
      <3>4. slot[p] /\ Absent(toWorld, Lefts(p))
        BY <1>10, <2>9, <3>3 DEF PlayerInv, Member, Answered
      <3>5. /\ Absent(toWorld', Joineds(p)) /\ Absent(toWorld', Lefts(p)) /\ Single(toWorld', Replies(p))
            /\ Before(toWorld', Lefts(p), Joineds(p))
        BY <1>10, <2>5, <2>9, <3>1, <3>2, <3>4, ToldParts
      <3>6. /\ Tokens(p)' /\ Member(p)' /\ Asked(p)' /\ Knows(p)'
            /\ Absent(toWorld', Joineds(p)) =>
                 /\ Before(toWorld', Joineds(p), NotesOf(p, queue'.member[p]))
                 /\ Before(toWorld', OldNotes(p, queue'.member[p]), NotesOf(p, queue'.member[p]))
        BY <1>2, <2>5, <2>7, <2>9, <3>2, ToldParts, LeaverTells
      <3>7. OneAnswer(p)'
        BY <1>2, <1>10, <2>9, <3>5, AbsentIs DEF OneAnswer, Awaits, Unmoved
      <3>8. Answered(p)'
        BY <1>2, <3>3, <3>4, <3>5, <3>6 DEF Answered, Unmoved
      <3> QED
        BY <3>6, <3>7, <3>8 DEF PlayerInv
    <2> QED
      BY <2>8, <2>9
  <1>13. CASE ~(~IsQueued(queue, o) \/ (enter /\ to = 0)) /\ ~enter
    <2>1. PICK m, r, ms : /\ m = [type |-> "Left", player |-> o]
                          /\ r = ScheduleQueueUpdate(gone.queue) /\ ms = gone.sent \o <<m>>
      BY Zenon
    <2>2. Answers(Answer(r, ms))
      BY <1>6, <1>13, <2>1
    <2>3. queue' = r /\ toWorld' = toWorld \o ms
      BY <2>2, AnsweredWith
    <2>4. Unseated(queue, queue', o)
      BY <1>7, <2>1, <2>3, UnseatedScheduled
    <2>5. /\ ms \in Seq(ToWorld) /\ m \in Lefts(o) /\ Told(toWorld, m, toWorld', ForPlayer(o))
          /\ \A x : x # o => Absent(ms, ForPlayer(x))
      BY <1>7, <2>1, <2>3, LeftTold, Zenon
    <2>6. CASE p # o
      <3>1. SameSeats(queue, queue', p) /\ Absent(ms, ForPlayer(p))
        BY <2>4, <2>5, <2>6 DEF Unseated
      <3> QED
        BY <1>1, <1>2, <1>8, <2>3, <2>5, <2>6, <3>1, QueueFrame, Zenon
    <2>7. CASE p = o
      <3>1. m.type = "Left" /\ m \notin Joineds(p) /\ m \notin Enters(p) /\ m \notin Replies(p)
        BY <2>1 DEF Joineds, Enters, Replies
      <3>2. /\ Absent(toWorld', Joineds(p)) /\ Absent(toWorld', Enters(p)) /\ Absent(toWorld', Replies(p))
            /\ Before(toWorld', Lefts(p), Joineds(p))
        BY <1>10, <2>5, <2>7, <3>1, ToldParts
      <3>3. /\ Tokens(p)' /\ Member(p)' /\ Asked(p)' /\ Knows(p)'
            /\ Absent(toWorld', Joineds(p)) =>
                 /\ Before(toWorld', Joineds(p), NotesOf(p, queue'.member[p]))
                 /\ Before(toWorld', OldNotes(p, queue'.member[p]), NotesOf(p, queue'.member[p]))
        BY <1>2, <2>4, <2>5, <2>7, <3>1, ToldParts, LeaverTells
      <3>4. OneAnswer(p)'
        BY <1>2, <1>10, <2>7, <3>2, AbsentIs DEF OneAnswer, Awaits, Unmoved
      <3>5. queue'.member[p] = 0 /\ at'[p] = 0
        BY <1>2, <1>10, <2>4, <2>7 DEF Unseated, Unmoved
      <3>6. Answered(p)'
        BY <3>2, <3>3, <3>5 DEF Answered
      <3> QED
        BY <3>3, <3>4, <3>6 DEF PlayerInv
    <2> QED
      BY <2>6, <2>7
  <1> QED
    BY <1>11, <1>12, <1>13

LEMMA ExpireTells ==
  ASSUME Inv, Expire, NEW p \in Players, PlayerInv(p), \A o \in Players : PlayerInv(o)
  PROVE  PlayerInv(p)'
  <1>0. QueueOk(queue) /\ toWorld \in Seq(ToWorld)
    BY DEF Inv, TypeInv
  <1>1. OnQueue("Expire")
    BY DEF Expire
  <1>2. PICK h \in ToQueue : h = Head(toQueue) /\ h.type = "Expire" /\ Taken(toQueue, toQueue', h)
                             /\ Unmoved(p)
    BY <1>1, AnsweredIs, QueueUnmoved DEF QueueMessage
  <1>3. PICK o \in Players, c \in Battlegrounds, k \in 1 .. MaxJoins :
           o = h.player /\ c = h.bg /\ k = h.id
    BY <1>2, ToQueueIs
  <1>4. PICK b \in BOOLEAN : b = TRUE
    BY Zenon
  <1>5. PICK gone, m, r, ms :
           /\ gone = RemovePlayer(queue, o, b) /\ m = [type |-> "Left", player |-> o]
           /\ r = (IF h.open THEN ScheduleQueueUpdate(gone.queue) ELSE gone.queue)
           /\ ms = gone.sent \o <<m>>
    BY Zenon
  <1>6. /\ ~IsPlayerInvited(queue, o, c, k) => Answers(Answer(queue, << >>))
        /\ IsPlayerInvited(queue, o, c, k) => Answers(Answer(r, ms))
    BY <1>2, <1>3, <1>4, <1>5, ZenonT(40) DEF Expire
  <1>7. QueueOk(gone.queue) /\ Unseated(queue, gone.queue, o) /\ Counts(gone.sent)
    <2>1. \A n, i : Seat(queue, o, n, i) => n = queue.member[o]
      BY DEF PlayerInv, Member
    <2> QED
      BY <1>0, <1>5, <2>1, UnseatedIs
  <1>8. p # o => h \notin FromPlayer(p)
    BY <1>2, <1>3 DEF FromPlayer, Asks, Joins, Removes
  <1>9. p = o => /\ h \notin Asks(p) /\ h \notin Joins(p) /\ h \notin Removes(p)
                 /\ \A n : h \in Expiries(p, n) <=> n = k
                 /\ \A n, i : h \in ExpiriesTo(p, n, i) <=> n = k /\ i = c
    BY <1>2, <1>3 DEF Asks, Joins, Removes, Expiries, ExpiriesTo
  <1>10. CASE ~IsPlayerInvited(queue, o, c, k)
    <2>1. Answers(Answer(queue, << >>))
      BY <1>6, <1>10
    <2>2. queue' = queue /\ toWorld' = toWorld \o << >>
      BY <2>1, NothingAnswered
    <2>3. << >> \in Seq(ToWorld) /\ toWorld' = toWorld
      BY <1>0, <2>2
    <2>4. CASE p # o
      BY <1>1, <1>2, <1>8, <2>2, <2>3, <2>4, NoneIs, SameSeatsAre, QueueFrame, Zenon
    <2>5. CASE p = o
      <3>1. /\ Absent(toQueue', Asks(p)) <=> Absent(toQueue, Asks(p))
            /\ Absent(toQueue', Joins(p)) <=> Absent(toQueue, Joins(p))
            /\ Absent(toQueue', Removes(p)) <=> Absent(toQueue, Removes(p))
            /\ Single(toQueue, Asks(p)) => Single(toQueue', Asks(p))
            /\ Before(toQueue, Removes(p), Asks(p)) => Before(toQueue', Removes(p), Asks(p))
            /\ \A n : /\ Absent(toQueue, Expiries(p, n)) => Absent(toQueue', Expiries(p, n))
                      /\ Single(toQueue, Expiries(p, n)) => Single(toQueue', Expiries(p, n))
            /\ \A n, i : ~(n = k /\ i = c) =>
                  (Absent(toQueue', ExpiriesTo(p, n, i)) <=> Absent(toQueue, ExpiriesTo(p, n, i)))
        BY <1>2, <1>9, <2>5, TakenOff
      <3>2. Tokens(p)'
        BY <1>2, <2>2, <2>3, <3>1 DEF PlayerInv, Tokens, Token, NoToken, Unmoved
      <3>3. OneAnswer(p)'
        BY <1>2, <2>3, <3>1 DEF PlayerInv, OneAnswer, Awaits, Unmoved
      <3>4. Member(p)'
        BY <1>2, <2>2, <2>3, <3>1 DEF PlayerInv, Member, Unmoved
      <3>5. Asked(p)'
        BY <2>2, <3>1 DEF PlayerInv, Asked
      <3>6. Answered(p)'
        BY <1>2, <2>2, <2>3, <3>1 DEF PlayerInv, Answered, Unmoved
      <3>7. Knows(p)'
        <4> SUFFICES ASSUME NEW n \in 1 .. MaxJoins, NEW i \in Battlegrounds,
                            Seat(queue, p, n, i), Absent(toQueue, Removes(p)), p \notin missed'
                     PROVE  Informed(p, n, i)'
          BY <2>2, <3>1 DEF Knows
        <4>1. Informed(p, n, i) /\ n = queue.member[p]
          BY <1>2, <2>2 DEF PlayerInv, Member, Knows, Unmoved, Remembers
        <4>2. ~(n = k /\ i = c)
          <5> SUFFICES ASSUME n = k, i = c PROVE FALSE
            OBVIOUS
          <5>1. queue.member[p] # 0
            BY <4>1, Numbers
          <5>2. InvitedTo(queue, p) = i
            BY <1>0, <4>1, <5>1, SeatIs, Zenon
          <5> QED
            BY <1>10, <2>5, <4>1, <5>2 DEF IsPlayerInvited
        <4> QED
          BY <1>2, <2>3, <3>1, <4>1, <4>2 DEF Informed, Unmoved
      <3> QED
        BY <3>2, <3>3, <3>4, <3>5, <3>6, <3>7 DEF PlayerInv
    <2> QED
      BY <2>4, <2>5
  <1>11. CASE IsPlayerInvited(queue, o, c, k)
    <2>1. Answers(Answer(r, ms))
      BY <1>6, <1>11
    <2>2. queue' = r /\ toWorld' = toWorld \o ms
      BY <2>1, AnsweredWith
    <2>3. Unseated(queue, queue', o)
      BY <1>5, <1>7, <2>2, UnseatedScheduled
    <2>4. /\ ms \in Seq(ToWorld) /\ m \in Lefts(o) /\ Told(toWorld, m, toWorld', ForPlayer(o))
          /\ \A x : x # o => Absent(ms, ForPlayer(x))
      BY <1>5, <1>7, <2>2, LeftTold, Zenon
    <2>5. CASE p # o
      <3>1. SameSeats(queue, queue', p) /\ Absent(ms, ForPlayer(p))
        BY <2>3, <2>4, <2>5 DEF Unseated
      <3> QED
        BY <1>1, <1>2, <1>8, <2>2, <2>4, <2>5, <3>1, QueueFrame
    <2>6. CASE p = o
      <3>1. m.type = "Left" /\ m \notin Joineds(p) /\ m \notin Enters(p) /\ m \notin Replies(p)
        BY <1>5 DEF Joineds, Enters, Replies
      <3>2. queue.member[p] = k /\ k # 0 /\ ~Absent(toQueue, Expiries(p, k))
        BY <1>2, <1>9, <1>11, <2>6, Numbers, TakenOff DEF IsPlayerInvited
      <3>3. Absent(toWorld, Joineds(p)) /\ Absent(toWorld, Enters(p)) /\ at[p] = 0
        BY <3>2 DEF PlayerInv, Answered, Member
      <3>4. /\ Absent(toWorld', Joineds(p)) /\ Absent(toWorld', Enters(p))
            /\ Absent(toWorld', Replies(p)) <=> Absent(toWorld, Replies(p))
            /\ Single(toWorld, Replies(p)) => Single(toWorld', Replies(p))
            /\ Before(toWorld', Lefts(p), Joineds(p))
        BY <2>4, <2>6, <3>1, <3>3, ToldParts
      <3>5. /\ Tokens(p)' /\ Member(p)' /\ Asked(p)' /\ Knows(p)'
            /\ Absent(toWorld', Joineds(p)) =>
                 /\ Before(toWorld', Joineds(p), NotesOf(p, queue'.member[p]))
                 /\ Before(toWorld', OldNotes(p, queue'.member[p]), NotesOf(p, queue'.member[p]))
        BY <1>2, <2>3, <2>4, <2>6, <3>1, ToldParts, LeaverTells
      <3>6. OneAnswer(p)'
        BY <1>2, <1>9, <2>6, <3>4, TakenOff DEF PlayerInv, OneAnswer, Awaits, Unmoved
      <3>7. queue'.member[p] = 0 /\ at'[p] = 0
        BY <1>2, <2>3, <2>6, <3>3 DEF Unseated, Unmoved
      <3>8. Answered(p)'
        BY <3>4, <3>5, <3>7 DEF Answered
      <3> QED
        BY <3>5, <3>6, <3>8 DEF PlayerInv
    <2> QED
      BY <2>5, <2>6
  <1> QED
    BY <1>10, <1>11

-----------------------------------------------------------------------------
(***************************************************************************)
(* A join, and an update of the queue.                                     *)
(***************************************************************************)
LEMMA RoomToJoin ==
  ASSUME Inv, OnQueue("Join")
  PROVE  queue.joined < MaxJoins /\ queue.joined \in Nat
  <1>0. QueueOk(queue) /\ toQueue \in Seq(ToQueue)
    BY DEF Inv, TypeInv
  <1>1. toQueue # << >> /\ Head(toQueue).type = "Join"
    BY DEF OnQueue
  <1>2. /\ queue.joined + Cardinality(JoinsIn(toQueue)) <= MaxJoins
        /\ Cardinality(JoinsIn(Tail(toQueue))) + 1 <= Cardinality(JoinsIn(toQueue))
    BY <1>0, <1>1, JoinTaken, Zenon DEF Inv, TypeInv
  <1>3. Tail(toQueue) \in Seq(ToQueue)
    BY <1>0, <1>1
  <1>4. Cardinality(JoinsIn(toQueue)) \in Nat /\ Cardinality(JoinsIn(Tail(toQueue))) \in Nat
    BY <1>0, <1>3, JoinsAre, Zenon
  <1>5. queue.joined \in Nat /\ MaxJoins \in Nat
    BY <1>0, QueueTypes, Numbers
  <1> QED
    BY <1>2, <1>4, <1>5

LEMMA JoinQueueTells ==
  ASSUME Inv, JoinQueue, NEW p \in Players, PlayerInv(p)
  PROVE  PlayerInv(p)'
  <1>0. QueueOk(queue) /\ toQueue \in Seq(ToQueue)
    BY DEF Inv, TypeInv
  <1>1. OnQueue("Join")
    BY DEF JoinQueue
  <1>2. PICK h \in ToQueue : h = Head(toQueue) /\ h.type = "Join" /\ Taken(toQueue, toQueue', h)
                             /\ Unmoved(p)
    BY <1>1, AnsweredIs, QueueUnmoved DEF QueueMessage
  <1>3. PICK party \in Parties : party = h.players
    BY <1>2, ToQueueIs
  <1>4. PICK m : m = [type |-> "Joined", players |-> party]
    BY Zenon
  <1>5. m \in ToWorld /\ m.type = "Joined"
    BY <1>4 DEF ToWorld
  <1>6. PICK t, r : t = AddGroup(queue, party) /\ r = ScheduleQueueUpdate(t)
    OBVIOUS
  <1>7. queue' = r /\ toWorld' = toWorld \o <<m>>
    <2>1. Answers(Answer(r, <<m>>))
      BY <1>2, <1>3, <1>4, <1>6 DEF JoinQueue
    <2> QED
      BY <2>1, AnsweredWith, Zenon
  <1>8. queue.joined < MaxJoins /\ queue.joined \in Nat
    BY <1>1, RoomToJoin
  <1>9. PICK k : k = queue.joined + 1
    OBVIOUS
  <1>10. QueueOk(t) /\ t.joined = k /\ k \in 1 .. MaxJoins
    <2>1. QueueOk(t)
      BY <1>0, <1>6, <1>8, <1>9, AddGroupIs
    <2>2. t.joined = k /\ k \in 1 .. MaxJoins
      BY <1>0, <1>6, <1>8, <1>9, AddGroupIs
    <2> QED
      BY <2>1, <2>2
  <1>11. t.member[p] = IF p \in party THEN k ELSE queue.member[p]
    <2>1. t.member = NewMembers(queue, party, k)
      BY <1>0, <1>6, <1>8, <1>9, AddGroupIs
    <2> QED
      BY <2>1 DEF NewMembers
  <1>12. \A n, i : Seat(t, p, n, i) <=> Seat(queue, p, n, i) \/ (p \in party /\ n = k /\ i = 0)
    BY <1>0, <1>6, <1>8, <1>9, AddGroupIs
  <1>13. /\ queue'.joined = k /\ queue'.member[p] = (IF p \in party THEN k ELSE queue.member[p])
         /\ \A n, i : Seat(queue', p, n, i) <=> Seat(queue, p, n, i) \/ (p \in party /\ n = k /\ i = 0)
    <2>1. SameGroups(t, r) /\ \A x, n, i : Seat(r, x, n, i) <=> Seat(t, x, n, i)
      BY <1>6, <1>10, ScheduleIs, Zenon
    <2> QED
      BY <1>7, <1>10, <1>11, <1>12, <2>1 DEF SameGroups
  <1>14. k > queue.joined /\ \A n \in 1 .. MaxJoins : n > k => n > queue.joined
    BY <1>8, <1>9, Numbers
  <1>15. <<m>> \in Seq(ToWorld)
    BY <1>5
  <1>16. CASE p \notin party
    <2>1. h \notin FromPlayer(p) /\ m \notin ForPlayer(p)
      BY <1>2, <1>3, <1>4, <1>16 DEF FromPlayer, Asks, Joins, Removes,
                                     ForPlayer, Replies, Joineds, Enters, Lefts, Notes
    <2>2. Absent(<<m>>, ForPlayer(p))
      BY <2>1, OneIs
    <2>3. SameSeats(queue, queue', p)
      BY <1>13, <1>14, <1>16 DEF SameSeats
    <2> QED
      BY <1>1, <1>2, <1>7, <1>15, <2>1, <2>2, <2>3, QueueFrame, Zenon
  <1>17. CASE p \in party
    <2>1. h \in Joins(p) /\ h \in Asks(p) /\ h \notin Removes(p) /\ \A n : h \notin Expiries(p, n)
      BY <1>2, <1>3, <1>17 DEF Asks, Joins, Removes, Expiries
    <2>2. m \in Joineds(p) /\ m \in Replies(p) /\ m \notin Lefts(p) /\ m \notin Enters(p)
      BY <1>4, <1>5, <1>17 DEF Joineds, Replies, Lefts, Enters
    <2>3. Told(toWorld, m, toWorld', ForPlayer(p))
      BY <1>7, <1>15, AnswerSent, ToldIs, Zenon
    <2>4. ~Absent(toQueue, Asks(p)) /\ ~Absent(toQueue, Joins(p))
      BY <1>2, <2>1, TakenOff
    <2>5. /\ Absent(toWorld, Replies(p)) /\ where[p] = "world" /\ at[p] = 0
          /\ Absent(toWorld, Joineds(p)) /\ Absent(toWorld, Enters(p))
      BY <2>4, PartsOfPlayer DEF PlayerInv, OneAnswer, Awaits
    <2>6. /\ Absent(toQueue', Asks(p)) /\ Absent(toQueue', Joins(p))
          /\ Absent(toQueue, Removes(p)) /\ Absent(toQueue', Removes(p))
      <3>1. Absent(toQueue', Asks(p)) /\ Absent(toQueue, Removes(p))
        BY <1>2, <2>1, TakenOff DEF PlayerInv, OneAnswer, Asked
      <3> QED
        BY <1>2, <3>1, TakenOff, PartsOfPlayer
    <2>7. \A n, i : ~Seat(queue, p, n, i)
      <3> SUFFICES ASSUME NEW n, NEW i, Seat(queue, p, n, i) PROVE FALSE
        OBVIOUS
      <3>1. n = 0
        BY <2>4, <2>6 DEF PlayerInv, Member, Asked
      <3>2. n \in 1 .. MaxJoins
        BY <1>0, SeatTypes
      <3> QED
        BY <3>1, <3>2, Numbers
    <2>8. /\ Absent(toWorld', Enters(p)) /\ ~Absent(toWorld', Joineds(p)) /\ Single(toWorld', Replies(p))
          /\ Before(toWorld', Lefts(p), Joineds(p)) /\ (~Absent(toWorld', Lefts(p)) => ~Absent(toWorld, Lefts(p)))
      BY <1>5, <2>2, <2>3, <2>5, ToldParts
    <2>9. NoToken(p, k, timers[p], toQueue', toWorld')
      <3>1. NoToken(p, k, timers[p], toQueue, toWorld)
        BY <1>10, <1>14 DEF PlayerInv, Tokens
      <3>2. Absent(toWorld', Tidings(p, k)) <=> Absent(toWorld, Tidings(p, k))
        BY <1>5, <2>3, ToldParts
      <3> QED
        BY <1>2, <3>1, <3>2, TakenOff DEF NoToken
    <2>10. Tokens(p)'
      <3> SUFFICES ASSUME NEW n \in 1 .. MaxJoins
                   PROVE  /\ Token(p, n, timers[p], toQueue', toWorld')
                          /\ n > queue'.joined \/ Seat(queue', p, n, 0) =>
                                NoToken(p, n, timers[p], toQueue', toWorld')
        BY <1>2 DEF Tokens, Unmoved
      <3>1. /\ Token(p, n, timers[p], toQueue, toWorld)
            /\ n > queue.joined => NoToken(p, n, timers[p], toQueue, toWorld)
        BY DEF PlayerInv, Tokens
      <3>2. /\ Absent(toQueue, Expiries(p, n)) => Absent(toQueue', Expiries(p, n))
            /\ Single(toQueue, Expiries(p, n)) => Single(toQueue', Expiries(p, n))
            /\ Absent(toWorld', Tidings(p, n)) <=> Absent(toWorld, Tidings(p, n))
            /\ Single(toWorld, Tidings(p, n)) => Single(toWorld', Tidings(p, n))
        BY <1>2, <1>5, <2>3, TakenOff, ToldParts
      <3>3. n > queue'.joined \/ Seat(queue', p, n, 0) => n > queue.joined
        BY <1>13, <1>14, <2>7
      <3> QED
        BY <3>1, <3>2, <3>3 DEF Token, NoToken
    <2>11. OneAnswer(p)'
      BY <1>2, <2>5, <2>6, <2>8, AbsentIs DEF OneAnswer, Awaits, Unmoved
    <2>12. Member(p)'
      BY <1>2, <1>13, <1>17, <2>5, <2>7, <2>8 DEF PlayerInv, Member, Unmoved
    <2>13. Asked(p)'
      BY <2>6, AbsentIs DEF Asked
    <2>14. Answered(p)'
      <3>1. queue'.member[p] = k
        BY <1>13, <1>17
      <3>2. /\ Absent(toQueue', Expiries(p, k)) /\ Absent(toWorld', Alarms(p, k))
            /\ Absent(toWorld', NotesOf(p, k)) /\ ~Rings(timers[p], k)
        BY <2>9, PartsOfPlayer, Zenon DEF NoToken
      <3>3. Before(toWorld', Joineds(p), NotesOf(p, k)) /\ Before(toWorld', OldNotes(p, k), NotesOf(p, k))
        BY <3>2, AbsentIs
      <3> QED
        BY <1>2, <2>5, <2>6, <2>8, <3>1, <3>2, <3>3 DEF Answered, Unmoved
    <2>15. Knows(p)'
      <3>1. \A i \in Battlegrounds : i # 0
        BY Numbers DEF Battlegrounds
      <3> QED
        BY <1>13, <2>7, <3>1 DEF Knows
    <2> QED
      BY <2>10, <2>11, <2>12, <2>13, <2>14, <2>15 DEF PlayerInv
  <1> QED
    BY <1>16, <1>17

LEMMA UpdateTells ==
  ASSUME Inv, UpdateQueue, NEW p \in Players, PlayerInv(p)
  PROVE  PlayerInv(p)'
  <1>0. QueueOk(queue) /\ toWorld \in Seq(ToWorld)
    BY DEF Inv, TypeInv
  <1>1. PICK u, r, ms : u = Update(queue) /\ r = u.queue /\ ms = u.sent
    OBVIOUS
  <1>2. /\ queue' = r /\ toWorld' = toWorld \o ms
        /\ UNCHANGED <<where, slot, invite, at, timers, toQueue>> /\ Remembers(p)
    BY <1>1, AnswersAre, AnswersRemember, Zenon DEF UpdateQueue
  <1>3. Grows(queue, r, ms)
    BY <1>0, <1>1, UpdateIs DEF Updated
  <1>4. /\ QueueOk(r) /\ r.joined = queue.joined /\ r.member = queue.member /\ ms \in Seq(ToWorld)
        /\ \A j \in DOMAIN ms : ms[j].type \in {"Invited", "Count", "Create"}
    BY <1>3 DEF Grows
  <1>5. /\ \A n, i : Seat(queue, p, n, i) /\ i # 0 => Seat(r, p, n, i)
        /\ \A n : Seat(queue, p, n, 0) =>
              \/ Seat(r, p, n, 0) /\ Absent(ms, NotesOf(p, n))
              \/ \E i \in Battlegrounds : Seat(r, p, n, i) /\ ~Absent(ms, {Invitation(p, i, n)})
        /\ \A n, i : Seat(r, p, n, i) => \E j : Seat(queue, p, n, j)
        /\ \A n : /\ Single(ms, NotesOf(p, n))
                  /\ Absent(ms, NotesOf(p, n)) \/ Seat(queue, p, n, 0)
    BY <1>3, Zenon DEF Grows
  <1>6. Sent(toWorld, ms, toWorld')
    BY <1>2, <1>4, AnswerSent
  <1>7. /\ Absent(ms, Joineds(p)) /\ Absent(ms, Enters(p)) /\ Absent(ms, Replies(p)) /\ Absent(ms, Lefts(p))
        /\ \A n : Absent(ms, Alarms(p, n)) /\ Single(ms, Tidings(p, n))
                  /\ (Absent(ms, Tidings(p, n)) <=> Absent(ms, NotesOf(p, n)))
    <2>1. /\ Absent(ms, Joineds(p)) /\ Absent(ms, Enters(p)) /\ Absent(ms, Replies(p)) /\ Absent(ms, Lefts(p))
          /\ \A n : Absent(ms, Alarms(p, n))
      BY <1>4 DEF Absent, Joineds, Enters, Replies, Lefts, Alarms
    <2>2. ASSUME NEW n PROVE Single(ms, Tidings(p, n)) /\ (Absent(ms, Tidings(p, n)) <=> Absent(ms, NotesOf(p, n)))
      <3>1. \A j \in DOMAIN ms : ms[j] \in Tidings(p, n) <=> ms[j] \in NotesOf(p, n)
        BY <2>1 DEF Absent, Tidings
      <3> QED
        BY <1>5, <3>1 DEF Single, Absent
    <2> QED
      BY <2>1, <2>2
  \* Only who waited is invited, with the group he stands in.
  <1>8. \A n : ~Absent(ms, NotesOf(p, n)) => n = queue.member[p] /\ Seat(queue, p, n, 0)
    BY <1>5 DEF PlayerInv, Member
  <1>9. Absent(ms, OldNotes(p, queue.member[p]))
    <2> SUFFICES ASSUME NEW j \in DOMAIN ms, ms[j] \in OldNotes(p, queue.member[p]) PROVE FALSE
      BY DEF Absent
    <2>1. PICK n : n = ms[j].id
      OBVIOUS
    <2>2. ms[j] \in NotesOf(p, n) /\ n # queue.member[p]
      BY <2>1 DEF OldNotes, NotesOf
    <2>3. ~Absent(ms, NotesOf(p, n))
      BY <2>2 DEF Absent
    <2> QED
      BY <1>8, <2>2, <2>3
  <1>10. /\ Absent(toWorld', Joineds(p)) <=> Absent(toWorld, Joineds(p))
         /\ Absent(toWorld', Enters(p)) <=> Absent(toWorld, Enters(p))
         /\ Absent(toWorld', Replies(p)) <=> Absent(toWorld, Replies(p))
         /\ Absent(toWorld', Lefts(p)) <=> Absent(toWorld, Lefts(p))
         /\ \A n : Absent(toWorld', Alarms(p, n)) <=> Absent(toWorld, Alarms(p, n))
         /\ \A n, i : Absent(toWorld, AlarmsTo(p, n, i)) <=> Absent(toWorld', AlarmsTo(p, n, i))
         /\ Single(toWorld, Replies(p)) => Single(toWorld', Replies(p))
         /\ Before(toWorld, Lefts(p), Joineds(p)) => Before(toWorld', Lefts(p), Joineds(p))
    <2>1. \A n, i : Absent(ms, AlarmsTo(p, n, i))
      BY <1>7, PartsOfPlayer
    <2> QED
      BY <1>6, <1>7, <2>1 DEF Sent
  <1>11. Tokens(p)'
    <2> SUFFICES ASSUME NEW n \in 1 .. MaxJoins
                 PROVE  /\ Token(p, n, timers[p], toQueue, toWorld')
                        /\ n > queue.joined \/ Seat(r, p, n, 0) =>
                              NoToken(p, n, timers[p], toQueue, toWorld')
      BY <1>2, <1>4 DEF Tokens
    <2>1. /\ Token(p, n, timers[p], toQueue, toWorld)
          /\ n > queue.joined \/ Seat(queue, p, n, 0) => NoToken(p, n, timers[p], toQueue, toWorld)
      BY DEF PlayerInv, Tokens
    <2>2. CASE Absent(ms, NotesOf(p, n))
      <3>1. /\ Absent(toWorld', Tidings(p, n)) <=> Absent(toWorld, Tidings(p, n))
            /\ Single(toWorld, Tidings(p, n)) => Single(toWorld', Tidings(p, n))
        BY <1>6, <1>7, <2>2 DEF Sent
      <3>2. Seat(r, p, n, 0) => Seat(queue, p, n, 0)
        <4> SUFFICES ASSUME Seat(r, p, n, 0) PROVE Seat(queue, p, n, 0)
          OBVIOUS
        <4>1. PICK j : Seat(queue, p, n, j)
          BY <1>5
        <4>2. j # 0 => Seat(r, p, n, j)
          BY <1>5, <4>1
        <4>3. j = 0
          BY <1>4, <4>2, SeatOnce
        <4> QED
          BY <4>1, <4>3
      <3> QED
        BY <2>1, <3>1, <3>2 DEF Token, NoToken
    <2>3. CASE ~Absent(ms, NotesOf(p, n))
      <3>1. Seat(queue, p, n, 0) /\ NoToken(p, n, timers[p], toQueue, toWorld)
        BY <1>8, <2>1, <2>3
      <3>2. Single(toWorld', Tidings(p, n))
        BY <1>6, <1>7, <3>1 DEF Sent, NoToken
      <3>3. ~Seat(r, p, n, 0)
        <4>1. PICK i \in Battlegrounds : Seat(r, p, n, i)
          BY <1>5, <2>3, <3>1, Zenon
        <4>2. i # 0
          BY Numbers DEF Battlegrounds
        <4> QED
          BY <1>4, <4>1, <4>2, SeatOnce
      <3>4. ~(n > queue.joined)
        BY <1>0, <3>1, SeatTypes, QueueTypes, Numbers
      <3> QED
        BY <2>1, <3>1, <3>2, <3>3, <3>4 DEF Token, NoToken
    <2> QED
      BY <2>2, <2>3
  <1>12. OneAnswer(p)'
    BY <1>2, <1>10 DEF PlayerInv, OneAnswer, Awaits
  <1>13. Member(p)'
    <2>1. \A n, i : Seat(r, p, n, i) => n = queue.member[p]
      BY <1>5 DEF PlayerInv, Member
    <2> QED
      BY <1>2, <1>4, <1>10, <2>1 DEF PlayerInv, Member
  <1>14. Asked(p)'
    BY <1>2, <1>4 DEF PlayerInv, Asked
  <1>15. Answered(p)'
    <2>1. /\ Before(toWorld', Joineds(p), NotesOf(p, queue.member[p]))
          /\ Before(toWorld', OldNotes(p, queue.member[p]), NotesOf(p, queue.member[p]))
      BY <1>6, <1>7, <1>9 DEF Sent, PlayerInv, Answered
    <2> QED
      BY <1>2, <1>4, <1>10, <2>1 DEF PlayerInv, Answered
  <1>16. Knows(p)'
    <2> SUFFICES ASSUME NEW n \in 1 .. MaxJoins, NEW i \in Battlegrounds,
                        Seat(r, p, n, i), Absent(toQueue, Removes(p)), p \notin missed'
                 PROVE  Informed(p, n, i)'
      BY <1>2 DEF Knows
    <2>1. i # 0
      BY Numbers DEF Battlegrounds
    <2>2. PICK j : Seat(queue, p, n, j)
      BY <1>5
    <2>3. CASE j # 0
      <3>1. Seat(r, p, n, j)
        BY <1>5, <2>2, <2>3
      <3>2. j = i
        BY <1>4, <3>1, SeatOnce
      <3>3. Informed(p, n, i)
        BY <1>2, <1>4, <2>2, <3>2 DEF PlayerInv, Knows, Remembers
      <3>4. Absent(ms, Notes(p))
        <4>1. n = queue.member[p]
          BY <2>2 DEF PlayerInv, Member
        <4>2. ~Seat(queue, p, n, 0)
          BY <1>0, <2>2, <2>3, SeatOnce
        <4>3. Absent(ms, NotesOf(p, n))
          BY <1>5, <4>2
        <4> QED
          BY <1>9, <4>1, <4>3, PartsOfPlayer
      <3>5. /\ Absent(toWorld', Notes(p)) <=> Absent(toWorld, Notes(p))
            /\ ~Absent(toWorld, NotesTo(p, n, i)) => ~Absent(toWorld', NotesTo(p, n, i))
        BY <1>6, <3>4 DEF Sent
      <3> QED
        BY <1>2, <1>10, <3>3, <3>5 DEF Informed
    <2>4. CASE j = 0
      <3>1. ~Seat(r, p, n, 0)
        BY <1>4, <2>1, SeatOnce
      <3>2. PICK c \in Battlegrounds : Seat(r, p, n, c) /\ ~Absent(ms, {Invitation(p, c, n)})
        BY <1>5, <2>2, <2>4, <3>1
      <3>3. c = i
        BY <1>4, <3>2, SeatOnce
      <3>4. Invitation(p, i, n) \in NotesTo(p, n, i)
        BY DEF Invitation, NotesTo, NotesOf, ToWorld
      <3>5. ~Absent(ms, NotesTo(p, n, i))
        BY <3>2, <3>3, <3>4 DEF Absent
      <3>6. ~Absent(toWorld', NotesTo(p, n, i))
        BY <1>6, <3>5 DEF Sent
      <3> QED
        BY <3>6 DEF Informed
    <2> QED
      BY <2>3, <2>4
  <1> QED
    BY <1>11, <1>12, <1>13, <1>14, <1>15, <1>16 DEF PlayerInv

-----------------------------------------------------------------------------
(***************************************************************************)
(* Who is where.                                                           *)
(***************************************************************************)
\* No creation of a battleground that was there is sent, and no way into one
\* before its creation.
Follows(p) ==
    /\ \A i \in Battlegrounds : i <= queue.created =>
          i <= queue'.created /\ (Absent(toWorld, Creates(i)) => Absent(toWorld', Creates(i)))
    /\ \A i \in Battlegrounds : /\ ~Absent(toWorld', EntersTo(p, i)) => i <= queue'.created
                                /\ Before(toWorld', Creates(i), EntersTo(p, i))

\* The player comes into no battleground, and none comes or goes.
SameGrounds(p) ==
    \A j \in Battlegrounds : /\ p \in bgs'[j].players => p \in bgs[j].players
                             /\ bgs'[j].status = "none" <=> bgs[j].status = "none"

LEMMA PlaceKept ==
  ASSUME NEW p, Place(p), Follows(p), SameGrounds(p), at'[p] = at[p],
         where'[p] = where[p] \/ where'[p] # "away"
  PROVE  Place(p)'
  BY DEF Place, Follows, SameGrounds

\* Out of every battleground, whatever becomes of them.
LEMMA PlaceLost ==
  ASSUME NEW p, Follows(p), at'[p] = 0, \A j \in Battlegrounds : p \notin bgs'[j].players
  PROVE  Place(p)'
  <1>1. \A j \in Battlegrounds : j # 0
    BY Numbers DEF Battlegrounds
  <1> QED
    BY <1>1 DEF Place, Follows

LEMMA FollowsWorld ==
  ASSUME NEW p, Place(p), UNCHANGED queue,
         toWorld' = toWorld \/ \E h : Taken(toWorld, toWorld', h)
  PROVE  Follows(p)
  <1>1. CASE toWorld' = toWorld
    BY <1>1 DEF Follows, Place
  <1>2. ASSUME NEW h, Taken(toWorld, toWorld', h) PROVE Follows(p)
    <2>1. \A M, N : /\ Absent(toWorld, M) => Absent(toWorld', M)
                    /\ Before(toWorld, M, N) => Before(toWorld', M, N)
      BY <1>2, TakenOff
    <2> QED
      BY <2>1 DEF Follows, Place
  <1> QED
    BY <1>1, <1>2

LEMMA RemainingBgs ==
  ASSUME PlayersOk, NEW i \in Battlegrounds, NEW gone \in SUBSET Players,
         bgs' = [bgs EXCEPT ![i] = Remaining(i, gone)], NEW j \in Battlegrounds
  PROVE  /\ bgs'[j].status = bgs[j].status
         /\ bgs'[j].players = IF j = i THEN bgs[j].players \ gone ELSE bgs[j].players
  <1>1. PICK c : c = Remaining(i, gone)
    OBVIOUS
  <1>2. c.status = bgs[i].status /\ c.players = bgs[i].players \ gone
    BY <1>1, RemainingIs
  <1>3. bgs'[j] = IF j = i THEN c ELSE bgs[j]
    BY <1>1 DEF PlayersOk
  <1> QED
    BY <1>2, <1>3

LEMMA EnteredBgs ==
  ASSUME PlayersOk, NEW i \in Battlegrounds, NEW o \in Players,
         bgs' = [bgs EXCEPT ![i].players = @ \cup {o}], NEW j \in Battlegrounds
  PROVE  /\ bgs'[j].status = bgs[j].status
         /\ bgs'[j].players = IF j = i THEN bgs[j].players \cup {o} ELSE bgs[j].players
  <1>1. PICK c : c = [bgs[i] EXCEPT !.players = bgs[i].players \cup {o}]
    BY Zenon
  <1>2. bgs[i] \in Instance
    BY DEF PlayersOk
  <1>3. c.status = bgs[i].status /\ c.players = bgs[i].players \cup {o}
    BY <1>1, <1>2 DEF Instance
  <1>4. bgs' = [bgs EXCEPT ![i] = c]
    BY <1>1, ZenonT(40)
  <1>5. bgs'[j] = IF j = i THEN c ELSE bgs[j]
    BY <1>4, Zenon DEF PlayersOk
  <1> QED
    BY <1>3, <1>5

\* The player joins, clicks, goes offline, comes back, travels, arrives.
LEMMA AskPlace ==
  ASSUME Inv, NEW p \in Players, Place(p),
         UNCHANGED <<playerVars, bgs, queue, toWorld>>
  PROVE  Place(p)'
  <1>1. Follows(p)
    BY FollowsWorld
  <1> QED
    BY <1>1, PlaceKept DEF SameGrounds, playerVars

LEMMA LogoutPlace ==
  ASSUME Inv, NEW o \in Players, Logout(o), NEW p \in Players, Place(p)
  PROVE  Place(p)'
  <1>0. PlayersOk
    BY DEF Inv, TypeInv
  <1>1. /\ where' = [where EXCEPT ![o] = "offline"] /\ UNCHANGED <<queue, toWorld>>
        /\ bgs' = IF Exists(at[o]) THEN [bgs EXCEPT ![at[o]].players = @ \cup {o}] ELSE bgs
        /\ at' = [at EXCEPT ![o] =
                    IF where[o] = "away" \/ (where[o] = "to_bg" /\ ~Exists(at[o])) THEN 0 ELSE at[o]]
    BY DEF Logout
  <1>2. Follows(p)
    BY <1>1, FollowsWorld
  <1>3. CASE ~Exists(at[o])
    <2>1. bgs' = bgs
      BY <1>1, <1>3
    <2>2. CASE p # o \/ at'[p] = at[p]
      <3>1. at'[p] = at[p] /\ (where'[p] = where[p] \/ where'[p] # "away")
        BY <1>0, <1>1, <2>2 DEF PlayersOk
      <3> QED
        BY <1>2, <2>1, <3>1, PlaceKept DEF SameGrounds
    <2>3. CASE p = o /\ at'[p] # at[p]
      <3>1. at'[p] = 0
        BY <1>0, <1>1, <2>3 DEF PlayersOk
      <3>2. \A j \in Battlegrounds : p \notin bgs[j].players
        BY <1>3, <2>3, Numbers DEF Place, Exists, Battlegrounds
      <3> QED
        BY <1>2, <2>1, <3>1, <3>2, PlaceLost
    <2> QED
      BY <2>2, <2>3
  <1>4. CASE Exists(at[o])
    <2>1. PICK i \in Battlegrounds : i = at[o] /\ bgs[i].status # "none"
      BY <1>0, <1>4, BgIs
    <2>2. bgs' = [bgs EXCEPT ![i].players = @ \cup {o}]
      BY <1>1, <1>4, <2>1
    <2>3. \A j \in Battlegrounds :
             /\ bgs'[j].status = bgs[j].status
             /\ bgs'[j].players = IF j = i THEN bgs[j].players \cup {o} ELSE bgs[j].players
      BY <1>0, <2>2, EnteredBgs, Zenon
    <2>4. CASE p # o
      <3>1. at'[p] = at[p] /\ where'[p] = where[p]
        BY <1>0, <1>1, <2>4 DEF PlayersOk
      <3>2. SameGrounds(p)
        BY <2>3, <2>4, Zenon DEF SameGrounds
      <3> QED
        BY <1>2, <3>1, <3>2, PlaceKept
    <2>5. CASE p = o
      <3>1. where[p] # "away"
        BY <2>1, <2>5 DEF Place
      <3>2. at'[p] = i /\ where'[p] = "offline"
        BY <1>0, <1>1, <1>4, <2>1, <2>5, <3>1 DEF PlayersOk
      <3> QED
        BY <1>2, <2>1, <2>3, <2>5, <3>2, Zenon DEF Place, Follows
    <2> QED
      BY <2>4, <2>5
  <1> QED
    BY <1>3, <1>4

LEMMA LoginPlace ==
  ASSUME Inv, NEW o \in Players, Login(o), NEW p \in Players, Place(p)
  PROVE  Place(p)'
  <1> DEFINE member == Exists(at[o]) /\ TookPart(o, at[o])
             stays == member /\ bgs[at[o]].status # "wait_leave"
  <1>0. PlayersOk
    BY DEF Inv, TypeInv
  <1>1. /\ where' = [where EXCEPT ![o] = "world"]
        /\ at' = [at EXCEPT ![o] = IF stays THEN at[o] ELSE 0]
        /\ bgs' = IF member /\ ~stays THEN [bgs EXCEPT ![at[o]] = Remaining(at[o], {o})] ELSE bgs
        /\ UNCHANGED <<queue, toWorld>>
    BY DEF Login
  <1>2. Follows(p)
    BY <1>1, FollowsWorld
  <1>3. where'[p] = where[p] \/ where'[p] # "away"
    BY <1>0, <1>1 DEF PlayersOk
  <1>4. CASE member /\ ~stays
    <2>1. PICK i \in Battlegrounds : i = at[o]
      BY <1>0, <1>4, BgIs
    <2>2. {o} \in SUBSET Players /\ bgs' = [bgs EXCEPT ![i] = Remaining(i, {o})]
      BY <1>1, <1>4, <2>1
    <2>3. \A j \in Battlegrounds :
             /\ bgs'[j].status = bgs[j].status
             /\ bgs'[j].players = IF j = i THEN bgs[j].players \ {o} ELSE bgs[j].players
      BY <1>0, <2>2, RemainingBgs, Zenon
    <2>4. CASE p # o
      <3>1. at'[p] = at[p]
        BY <1>0, <1>1, <2>4 DEF PlayersOk
      <3>2. SameGrounds(p)
        BY <2>3, Zenon DEF SameGrounds
      <3> QED
        BY <1>2, <1>3, <3>1, <3>2, PlaceKept
    <2>5. CASE p = o
      <3>1. at'[p] = 0
        BY <1>0, <1>1, <1>4, <2>5 DEF PlayersOk
      <3>2. \A j \in Battlegrounds : p \notin bgs'[j].players
        BY <2>1, <2>3, <2>5, Zenon DEF Place
      <3> QED
        BY <1>2, <3>1, <3>2, PlaceLost
    <2> QED
      BY <2>4, <2>5
  <1>5. CASE ~(member /\ ~stays)
    <2>1. bgs' = bgs
      BY <1>1, <1>5
    <2>2. CASE p # o \/ stays
      <3>1. at'[p] = at[p]
        BY <1>0, <1>1, <2>2 DEF PlayersOk
      <3> QED
        BY <1>2, <1>3, <2>1, <3>1, PlaceKept DEF SameGrounds
    <2>3. CASE p = o /\ ~stays
      <3>1. at'[p] = 0
        BY <1>0, <1>1, <2>3 DEF PlayersOk
      <3>2. \A j \in Battlegrounds : p \notin bgs[j].players
        BY <1>5, <2>3, Numbers DEF Place, Exists, TookPart, Battlegrounds
      <3> QED
        BY <1>2, <2>1, <3>1, <3>2, PlaceLost
    <2> QED
      BY <2>2, <2>3
  <1> QED
    BY <1>4, <1>5

LEMMA ChangeMapPlace ==
  ASSUME Inv, NEW o \in Players, ChangeMap(o), NEW p \in Players, Place(p)
  PROVE  Place(p)'
  <1>0. PlayersOk
    BY DEF Inv, TypeInv
  <1>1. /\ where' = [where EXCEPT ![o] = "away"] /\ UNCHANGED <<queue, toWorld>>
        /\ IF Exists(at[o])
             THEN /\ at' = [at EXCEPT ![o] = 0]
                  /\ bgs' = [bgs EXCEPT ![at[o]] = Remaining(at[o], {o})]
             ELSE UNCHANGED <<at, bgs>>
    BY DEF ChangeMap
  <1>2. Follows(p)
    BY <1>1, FollowsWorld
  <1>3. CASE Exists(at[o])
    <2>1. PICK i \in Battlegrounds : i = at[o]
      BY <1>0, <1>3, BgIs
    <2>2. {o} \in SUBSET Players /\ bgs' = [bgs EXCEPT ![i] = Remaining(i, {o})]
      BY <1>1, <1>3, <2>1
    <2>3. \A j \in Battlegrounds :
             /\ bgs'[j].status = bgs[j].status
             /\ bgs'[j].players = IF j = i THEN bgs[j].players \ {o} ELSE bgs[j].players
      BY <1>0, <2>2, RemainingBgs, Zenon
    <2>4. CASE p # o
      <3>1. at'[p] = at[p] /\ where'[p] = where[p]
        BY <1>0, <1>1, <1>3, <2>4 DEF PlayersOk
      <3>2. SameGrounds(p)
        BY <2>3, Zenon DEF SameGrounds
      <3> QED
        BY <1>2, <3>1, <3>2, PlaceKept
    <2>5. CASE p = o
      <3>1. at'[p] = 0
        BY <1>0, <1>1, <1>3, <2>5 DEF PlayersOk
      <3>2. \A j \in Battlegrounds : p \notin bgs'[j].players
        BY <2>1, <2>3, <2>5, Zenon DEF Place
      <3> QED
        BY <1>2, <3>1, <3>2, PlaceLost
    <2> QED
      BY <2>4, <2>5
  <1>4. CASE ~Exists(at[o])
    <2>1. UNCHANGED <<at, bgs>>
      BY <1>1, <1>4
    <2>2. CASE p # o
      <3>1. where'[p] = where[p]
        BY <1>0, <1>1, <2>2 DEF PlayersOk
      <3> QED
        BY <1>2, <2>1, <3>1, PlaceKept DEF SameGrounds
    <2>3. CASE p = o
      <3>1. \A i \in Battlegrounds : at[p] = i => bgs[i].status = "none"
        BY <1>4, <2>3, Numbers DEF Exists, Battlegrounds
      <3> QED
        BY <1>2, <2>1, <3>1 DEF Place, Follows
    <2> QED
      BY <2>2, <2>3
  <1> QED
    BY <1>3, <1>4

LEMMA ArrivePlace ==
  ASSUME Inv, NEW o \in Players, Arrive(o), NEW p \in Players, Place(p)
  PROVE  Place(p)'
  <1>0. PlayersOk
    BY DEF Inv, TypeInv
  <1>1. UNCHANGED <<queue, toWorld>>
    BY DEF Arrive
  <1>2. Follows(p)
    BY <1>1, FollowsWorld
  <1>3. CASE /\ Exists(at[o]) /\ where' = [where EXCEPT ![o] = "world"] /\ at' = at
             /\ bgs' = IF invite[o] = at[o]
                         THEN [bgs EXCEPT ![at[o]].players = @ \cup {o}] ELSE bgs
    <2>1. at'[p] = at[p] /\ (where'[p] = where[p] \/ where'[p] # "away")
      BY <1>0, <1>3 DEF PlayersOk
    <2>2. PICK i \in Battlegrounds : i = at[o] /\ bgs[i].status # "none"
      BY <1>0, <1>3, BgIs
    <2>3. CASE bgs' = bgs
      BY <1>2, <2>1, <2>3, PlaceKept DEF SameGrounds
    <2>4. CASE bgs' = [bgs EXCEPT ![i].players = @ \cup {o}]
      <3>1. \A j \in Battlegrounds :
               /\ bgs'[j].status = bgs[j].status
               /\ bgs'[j].players = IF j = i THEN bgs[j].players \cup {o} ELSE bgs[j].players
        BY <1>0, <2>4, EnteredBgs, Zenon
      <3>2. \A j \in Battlegrounds : p \in bgs'[j].players => at'[p] = j /\ bgs'[j].status # "none"
        <4> SUFFICES ASSUME NEW j \in Battlegrounds, p \in bgs'[j].players
                     PROVE  at'[p] = j /\ bgs'[j].status # "none"
          OBVIOUS
        <4>1. CASE p \in bgs[j].players
          BY <2>1, <3>1, <4>1, Zenon DEF Place
        <4>2. CASE p = o /\ j = i
          BY <2>1, <2>2, <3>1, <4>2, Zenon
        <4> QED
          BY <3>1, <4>1, <4>2, Zenon
      <3>3. \A j \in Battlegrounds : at'[p] = j /\ where'[p] = "away" => bgs'[j].status = "none"
        <4> SUFFICES ASSUME NEW j \in Battlegrounds, at'[p] = j, where'[p] = "away"
                     PROVE  bgs'[j].status = "none"
          OBVIOUS
        <4>1. at[p] = j /\ where[p] = "away"
          BY <2>1
        <4>2. bgs[j].status = "none"
          BY <4>1 DEF Place
        <4> QED
          BY <3>1, <4>2, Zenon
      <3> QED
        BY <1>2, <2>1, <3>2, <3>3 DEF Place, Follows
    <2> QED
      BY <1>3, <2>2, <2>3, <2>4
  <1>4. CASE /\ bgs' = bgs /\ at' = [at EXCEPT ![o] = 0] /\ (where[o] = "away" \/ ~Exists(at[o]))
             /\ where' = [where EXCEPT ![o] = "world"] \/ where' = [where EXCEPT ![o] = "away"]
    <2>1. CASE p # o
      <3>1. at'[p] = at[p] /\ where'[p] = where[p]
        BY <1>0, <1>4, <2>1 DEF PlayersOk
      <3> QED
        BY <1>2, <1>4, <3>1, PlaceKept DEF SameGrounds
    <2>2. CASE p = o
      <3>1. at'[p] = 0
        BY <1>0, <1>4, <2>2 DEF PlayersOk
      <3>2. \A j \in Battlegrounds : p \notin bgs[j].players
        BY <1>4, <2>2, Numbers DEF Place, Exists, Battlegrounds
      <3> QED
        BY <1>2, <1>4, <3>1, <3>2, PlaceLost
    <2> QED
      BY <2>1, <2>2
  <1> QED
    BY <1>3, <1>4 DEF Arrive

LEMMA EventPlace ==
  ASSUME Inv, NEW o \in Players, RemoveEvent(o), NEW p \in Players, Place(p)
  PROVE  Place(p)'
  <1>0. PlayersOk /\ toWorld \in Seq(ToWorld)
    BY DEF Inv, TypeInv
  <1>1. PICK t \in timers[o] : toWorld' = Append(toWorld, [type |-> "Timer", player |-> o,
                                                           bg |-> t.bg, id |-> t.id])
    BY DEF RemoveEvent
  <1>2. t.bg \in Battlegrounds /\ t.id \in 1 .. MaxJoins
    BY <1>0 DEF PlayersOk
  <1>3. PICK m : m = [type |-> "Timer", player |-> o, bg |-> t.bg, id |-> t.id]
    BY Zenon
  <1>4. m \in ToWorld /\ m.type = "Timer"
    BY <1>2, <1>3 DEF ToWorld
  <1>5. <<m>> \in Seq(ToWorld) /\ toWorld' = toWorld \o <<m>>
    BY <1>0, <1>1, <1>3, <1>4
  <1>6. Sent(toWorld, <<m>>, toWorld')
    BY <1>5, AnswerSent, Zenon
  <1>7. \A i : Absent(<<m>>, Creates(i)) /\ Absent(<<m>>, EntersTo(p, i))
    <2>1. \A i : m \notin Creates(i) /\ m \notin EntersTo(p, i)
      BY <1>4 DEF Creates, EntersTo, Enters
    <2> QED
      BY <2>1, OneIs
  <1>8. UNCHANGED <<where, at, bgs, queue>>
    BY DEF RemoveEvent
  <1>9. Follows(p)
    BY <1>6, <1>7, <1>8 DEF Follows, Place, Sent
  <1> QED
    BY <1>8, <1>9, PlaceKept DEF SameGrounds

\* A battleground begins, ends or is deleted, its players go.
LEMMA BgPlace ==
  ASSUME Inv, NEW i \in Battlegrounds, NEW p \in Players, Place(p),
         Start(i) \/ EndBattleGround(i) \/ RemoveBattleGround(i) \/ \E o \in Players : RemoveOffline(i, o)
  PROVE  Place(p)'
  <1>0. PlayersOk
    BY DEF Inv, TypeInv
  <1>1. UNCHANGED <<playerVars, queue, toWorld>>
    BY Zenon DEF Start, EndBattleGround, RemoveBattleGround, RemoveOffline
  <1>2. Follows(p)
    BY <1>1, FollowsWorld
  <1>3. at'[p] = at[p] /\ where'[p] = where[p]
    BY <1>1 DEF playerVars
  <1>4. PICK b \in Instance : b = bgs[i]
    BY <1>0 DEF PlayersOk
  <1>5. ASSUME NEW c, bgs' = [bgs EXCEPT ![i] = c], c.players = b.players, c.status # "none",
               b.status # "none"
        PROVE  SameGrounds(p)
    BY <1>0, <1>4, <1>5 DEF SameGrounds, PlayersOk
  <1>6. CASE Start(i)
    <2>1. PICK c : c = [b EXCEPT !.status = "in_progress"]
      BY Zenon
    <2>2. bgs' = [bgs EXCEPT ![i] = c] /\ b.status = "wait_join"
      BY <1>4, <1>6, <2>1, ZenonT(40) DEF Start
    <2>3. c.players = b.players /\ c.status = "in_progress"
      BY <1>4, <2>1 DEF Instance
    <2> QED
      BY <1>2, <1>3, <1>5, <2>2, <2>3, PlaceKept, Zenon
  <1>7. CASE EndBattleGround(i)
    <2>1. PICK l \in BOOLEAN : l = FALSE
      BY Zenon
    <2>2. PICK c : c = [b EXCEPT !.status = "wait_leave", !.listed = l]
      OBVIOUS
    <2>3. bgs' = [bgs EXCEPT ![i].status = "wait_leave", ![i].listed = l] /\ b.status = "in_progress"
      BY <1>4, <1>7, <2>1, Zenon DEF EndBattleGround
    <2>4. bgs' = [bgs EXCEPT ![i] = c]
      BY <1>0, <1>4, <2>2, <2>3, ZenonT(40) DEF PlayersOk
    <2>5. c.players = b.players /\ c.status = "wait_leave"
      BY <1>4, <2>2 DEF Instance
    <2> QED
      BY <1>2, <1>3, <1>5, <2>3, <2>4, <2>5, PlaceKept, Zenon
  <1>8. CASE RemoveBattleGround(i)
    <2>1. bgs' = [bgs EXCEPT ![i] = NoInstance] /\ b.players = {}
      BY <1>4, <1>8 DEF RemoveBattleGround
    <2>2. \A j \in Battlegrounds : bgs'[j] = IF j = i THEN NoInstance ELSE bgs[j]
      BY <1>0, <2>1 DEF PlayersOk
    <2>3. NoInstance.players = {} /\ NoInstance.status = "none"
      BY DEF NoInstance
    <2> QED
      BY <1>2, <1>3, <2>2, <2>3 DEF Place, Follows
  <1>9. ASSUME NEW o \in Players, RemoveOffline(i, o) PROVE Place(p)'
    <2>1. {o} \in SUBSET Players /\ bgs' = [bgs EXCEPT ![i] = Remaining(i, {o})]
      BY <1>9 DEF RemoveOffline
    <2>2. \A j \in Battlegrounds :
             /\ bgs'[j].status = bgs[j].status
             /\ bgs'[j].players = IF j = i THEN bgs[j].players \ {o} ELSE bgs[j].players
      BY <1>0, <2>1, RemainingBgs, Zenon
    <2>3. SameGrounds(p)
      BY <2>2, Zenon DEF SameGrounds
    <2> QED
      BY <1>2, <1>3, <2>3, PlaceKept
  <1> QED
    BY <1>6, <1>7, <1>8, <1>9

LEMMA SendHomePlace ==
  ASSUME Inv, NEW i \in Battlegrounds, SendHome(i), NEW p \in Players, Place(p)
  PROVE  Place(p)'
  <1> DEFINE here == {o \in bgs[i].players : InWorld(o)}
  <1>0. PlayersOk
    BY DEF Inv, TypeInv
  <1>1. /\ bgs' = [bgs EXCEPT ![i] = Remaining(i, bgs[i].players)]
        /\ at' = [o \in Players |-> IF o \in here THEN 0 ELSE at[o]]
        /\ where' = [o \in Players |-> IF o \in here THEN "away" ELSE where[o]]
        /\ UNCHANGED <<queue, toWorld>>
    BY DEF SendHome
  <1>2. Follows(p)
    BY <1>1, FollowsWorld
  <1>3. bgs[i].players \in SUBSET Players
    BY <1>0 DEF PlayersOk, Instance
  <1>4. \A j \in Battlegrounds :
           /\ bgs'[j].status = bgs[j].status
           /\ bgs'[j].players = IF j = i THEN bgs[j].players \ bgs[i].players ELSE bgs[j].players
    BY <1>0, <1>1, <1>3, RemainingBgs, Zenon
  <1>5. CASE p \in here
    <2>1. at'[p] = 0
      BY <1>1, <1>5
    <2>2. \A j \in Battlegrounds : p \notin bgs'[j].players
      BY <1>4, <1>5, Zenon DEF Place
    <2> QED
      BY <1>2, <2>1, <2>2, PlaceLost
  <1>6. CASE p \notin here
    <2>1. at'[p] = at[p] /\ where'[p] = where[p]
      BY <1>1, <1>6
    <2>2. SameGrounds(p)
      BY <1>4, Zenon DEF SameGrounds
    <2> QED
      BY <1>2, <2>1, <2>2, PlaceKept
  <1> QED
    BY <1>5, <1>6

\* The messages that move nobody.
LEMMA HeardPlace ==
  ASSUME Inv, Joined \/ Invited \/ Left \/ Timer, NEW p \in Players, Place(p)
  PROVE  Place(p)'
  <1>1. PICK type \in {"Joined", "Invited", "Left", "Timer"} : OnWorld(type)
    BY DEF Joined, Invited, Left, Timer
  <1>2. UNCHANGED <<where, at, bgs, queue>>
    BY DEF Joined, Invited, Left, Timer, playerVars
  <1>3. Taken(toWorld, toWorld', Head(toWorld))
    BY <1>1, HandledIs
  <1>4. Follows(p)
    BY <1>2, <1>3, FollowsWorld
  <1> QED
    BY <1>2, <1>4, PlaceKept DEF SameGrounds

LEMMA CountPlace ==
  ASSUME Inv, SetInvitedCount, NEW p \in Players, Place(p)
  PROVE  Place(p)'
  <1>0. PlayersOk
    BY DEF Inv, TypeInv
  <1>1. OnWorld("Count") /\ UNCHANGED <<where, at, queue>>
    BY DEF SetInvitedCount, playerVars
  <1>2. PICK m \in ToWorld : m = Head(toWorld) /\ m.type = "Count" /\ Taken(toWorld, toWorld', m)
    BY <1>1, HandledIs
  <1>3. PICK i \in Battlegrounds : i = m.bg
    BY <1>2, ToWorldIs
  <1>4. bgs' = IF Exists(i) THEN [bgs EXCEPT ![i].invited[m.side] = m.count] ELSE bgs
    BY <1>2, <1>3 DEF SetInvitedCount
  <1>5. PICK b \in Instance : b = bgs[i]
    BY <1>0 DEF PlayersOk
  <1>6. PICK v : v = [b.invited EXCEPT ![m.side] = m.count]
    BY Zenon
  <1>7. PICK c : c = [b EXCEPT !.invited = v]
    BY Zenon
  <1>8. c.players = b.players /\ c.status = b.status
    BY <1>5, <1>7 DEF Instance
  <1>9. bgs' = [bgs EXCEPT ![i] = c] \/ bgs' = bgs
    BY <1>4, <1>5, <1>6, <1>7, ZenonT(40)
  <1>10. SameGrounds(p)
    BY <1>0, <1>5, <1>8, <1>9 DEF SameGrounds, PlayersOk
  <1>11. Follows(p)
    BY <1>1, <1>2, FollowsWorld
  <1> QED
    BY <1>1, <1>10, <1>11, PlaceKept

\* Nobody was on the way into the new battleground.
LEMMA CreatePlace ==
  ASSUME Inv, CreateNewBattleGround, NEW p \in Players, Place(p)
  PROVE  Place(p)'
  <1>0. PlayersOk
    BY DEF Inv, TypeInv
  <1>1. OnWorld("Create") /\ UNCHANGED <<where, at, queue>>
    BY DEF CreateNewBattleGround, playerVars
  <1>2. PICK m \in ToWorld : m = Head(toWorld) /\ m.type = "Create" /\ Taken(toWorld, toWorld', m)
    BY <1>1, HandledIs
  <1>3. PICK i \in Battlegrounds : i = m.bg
    BY <1>2, ToWorldIs
  <1>4. PICK c : c = [NoInstance EXCEPT !.status = "wait_join", !.invited = m.counts]
    OBVIOUS
  <1>5. c.players = {}
    BY <1>4 DEF NoInstance
  <1>6. bgs' = [bgs EXCEPT ![i] = c]
    BY <1>2, <1>3, <1>4 DEF CreateNewBattleGround
  <1>7. \A j \in Battlegrounds : bgs'[j] = IF j = i THEN c ELSE bgs[j]
    BY <1>0, <1>6 DEF PlayersOk
  <1>8. m \in Creates(i)
    BY <1>2, <1>3 DEF Creates
  <1>9. ~Absent(toWorld, Creates(i))
    BY <1>2, <1>8, TakenOff
  <1>10. at[p] # i
    BY <1>9 DEF Place
  <1>11. Follows(p)
    BY <1>1, <1>2, FollowsWorld
  <1>12. \A j \in Battlegrounds : p \in bgs'[j].players => at'[p] = j /\ bgs'[j].status # "none"
    BY <1>1, <1>5, <1>7 DEF Place
  <1>13. \A j \in Battlegrounds : at'[p] = j => bgs'[j] = bgs[j]
    BY <1>1, <1>7, <1>10
  <1> QED
    BY <1>1, <1>11, <1>12, <1>13 DEF Place, Follows

LEMMA EnterPlace ==
  ASSUME Inv, Enter, NEW p \in Players, Place(p)
  PROVE  Place(p)'
  <1>0. PlayersOk
    BY DEF Inv, TypeInv
  <1>1. OnWorld("Enter") /\ UNCHANGED queue
    BY DEF Enter
  <1>2. PICK m \in ToWorld : m = Head(toWorld) /\ m.type = "Enter" /\ Taken(toWorld, toWorld', m)
    BY <1>1, HandledIs
  <1>3. PICK o \in Players, i \in Battlegrounds : o = m.player /\ i = m.bg
    BY <1>2, ToWorldIs
  <1>4. IF ~InWorld(o) THEN UNCHANGED <<playerVars, bgs, toQueue>>
        ELSE /\ IF Exists(at[o]) THEN bgs' = [bgs EXCEPT ![at[o]] = Remaining(at[o], {o})]
                                 ELSE bgs' = bgs
             /\ at' = [at EXCEPT ![o] = i]
             /\ where' = [where EXCEPT ![o] = IF Exists(i) THEN "to_bg" ELSE @]
    BY <1>2, <1>3 DEF Enter
  <1>5. Follows(p)
    BY <1>1, <1>2, FollowsWorld
  <1>6. CASE ~InWorld(o)
    <2>1. UNCHANGED <<where, at, bgs>>
      BY <1>4, <1>6 DEF playerVars
    <2> QED
      BY <1>5, <2>1, PlaceKept DEF SameGrounds
  <1>7. CASE InWorld(o)
    <2>1. /\ at' = [at EXCEPT ![o] = i]
          /\ where' = [where EXCEPT ![o] = IF Exists(i) THEN "to_bg" ELSE @]
      BY <1>4, <1>7
    <2>2. \A j \in Battlegrounds :
             /\ bgs'[j].status = bgs[j].status
             /\ p \in bgs'[j].players => p \in bgs[j].players /\ ~(p = o /\ j = at[o])
      <3>1. CASE Exists(at[o])
        <4>1. PICK k \in Battlegrounds : k = at[o]
          BY <1>0, <3>1, BgIs
        <4>2. {o} \in SUBSET Players /\ bgs' = [bgs EXCEPT ![k] = Remaining(k, {o})]
          BY <1>4, <1>7, <3>1, <4>1
        <4>3. \A j \in Battlegrounds :
                 /\ bgs'[j].status = bgs[j].status
                 /\ bgs'[j].players = IF j = k THEN bgs[j].players \ {o} ELSE bgs[j].players
          BY <1>0, <4>2, RemainingBgs, Zenon
        <4> QED
          BY <4>1, <4>3, Zenon
      <3>2. CASE ~Exists(at[o])
        <4>1. bgs' = bgs
          BY <1>4, <1>7, <3>2
        <4>2. \A j \in Battlegrounds : p \in bgs[j].players => ~(p = o /\ j = at[o])
          BY <3>2, Numbers DEF Place, Exists, Battlegrounds
        <4> QED
          BY <4>1, <4>2
      <3> QED
        BY <3>1, <3>2
    <2>3. CASE p # o
      <3>1. at'[p] = at[p] /\ where'[p] = where[p]
        BY <1>0, <2>1, <2>3 DEF PlayersOk
      <3>2. SameGrounds(p)
        BY <2>2 DEF SameGrounds
      <3> QED
        BY <1>5, <3>1, <3>2, PlaceKept
    <2>4. CASE p = o
      <3>1. at'[p] = i /\ where'[p] # "away"
        BY <1>0, <1>7, <2>1, <2>4 DEF PlayersOk, InWorld
      <3>2. m \in EntersTo(p, i)
        BY <1>2, <1>3, <2>4 DEF EntersTo, Enters
      <3>3. ~Absent(toWorld, EntersTo(p, i)) /\ Absent(toWorld, Creates(i))
        BY <1>2, <3>2, TakenOff DEF Place
      <3>4. i <= queue'.created /\ Absent(toWorld', Creates(i))
        BY <1>1, <1>2, <3>3, TakenOff DEF Place
      <3>5. \A j \in Battlegrounds : p \notin bgs'[j].players
        BY <2>2, <2>4 DEF Place
      <3> QED
        BY <1>5, <3>1, <3>4, <3>5 DEF Place, Follows
    <2> QED
      BY <2>3, <2>4
  <1> QED
    BY <1>6, <1>7

-----------------------------------------------------------------------------
(***************************************************************************)
(* What the queue says, and whom it lets go.                               *)
(***************************************************************************)
\* Nothing is created, and nobody sent into what is not created.
Says(ns) ==
    /\ queue'.created = queue.created /\ ns \in Seq(ToWorld) /\ toWorld' = toWorld \o ns
    /\ Absent(ns, AllCreates)
    /\ \A p \in Players : \A i \in Battlegrounds :
          ~Absent(ns, EntersTo(p, i)) => i <= queue.created

LEMMA QueuePlace ==
  ASSUME Inv, NEW type, OnQueue(type), NEW ns, Says(ns), NEW p \in Players, Place(p)
  PROVE  Place(p)'
  <1>1. Sent(toWorld, ns, toWorld')
    BY AnswerSent DEF Says
  <1>2. UNCHANGED <<where, at, bgs>>
    BY DEF OnQueue
  <1>3. \A i \in Battlegrounds : Absent(ns, Creates(i))
    BY DEF Says, Absent, AllCreates, Creates
  <1>4. \A i \in Battlegrounds : i <= queue.created => i <= queue'.created
    BY DEF Says
  <1>5. Follows(p)
    <2>1. ASSUME NEW i \in Battlegrounds
          PROVE  /\ Absent(toWorld', Creates(i)) <=> Absent(toWorld, Creates(i))
                 /\ Absent(toWorld', EntersTo(p, i)) <=>
                       Absent(toWorld, EntersTo(p, i)) /\ Absent(ns, EntersTo(p, i))
                 /\ Before(toWorld, Creates(i), EntersTo(p, i))
                       => Before(toWorld', Creates(i), EntersTo(p, i))
      BY <1>1, <1>3 DEF Sent
    <2>2. \A i \in Battlegrounds : /\ ~Absent(toWorld, EntersTo(p, i)) => i <= queue.created
                                   /\ Before(toWorld, Creates(i), EntersTo(p, i))
      BY DEF Place
    <2>3. \A i \in Battlegrounds : ~Absent(ns, EntersTo(p, i)) => i <= queue.created
      BY DEF Says
    <2> QED
      BY <1>4, <2>1, <2>2, <2>3 DEF Follows
  <1> QED
    BY <1>2, <1>5, PlaceKept DEF SameGrounds

LEMMA CountsSay ==
  ASSUME NEW ns, Counts(ns), queue'.created = queue.created, toWorld' = toWorld \o ns
  PROVE  Says(ns)
  BY DEF Counts, Says, Absent, AllCreates, EntersTo, Enters

LEMMA LeftSays ==
  ASSUME NEW cs, Counts(cs), NEW o \in Players, NEW m, m = [type |-> "Left", player |-> o],
         queue'.created = queue.created, NEW ns, ns = cs \o <<m>>, toWorld' = toWorld \o ns
  PROVE  Says(ns)
  <1>1. m \in ToWorld /\ m.type = "Left"
    BY DEF ToWorld
  <1>2. cs \in Seq(ToWorld) /\ <<m>> \in Seq(ToWorld)
    BY <1>1 DEF Counts
  <1>3. ns \in Seq(ToWorld) /\ Sent(cs, <<m>>, ns)
    BY <1>2, SentIs, Zenon
  <1>4. ASSUME NEW M, \A x \in M : x.type \in {"Create", "Enter"} PROVE Absent(ns, M)
    <2>1. m \notin M
      BY <1>1, <1>4
    <2>2. Absent(cs, M)
      BY <1>4, Zenon DEF Counts, Absent
    <2> QED
      BY <1>3, <2>1, <2>2, OneIs DEF Sent
  <1>5. Absent(ns, AllCreates)
    <2>1. \A x \in AllCreates : x.type \in {"Create", "Enter"}
      BY DEF AllCreates
    <2> QED
      BY <1>4, <2>1
  <1>6. ASSUME NEW p, NEW i PROVE Absent(ns, EntersTo(p, i))
    <2>1. \A x \in EntersTo(p, i) : x.type \in {"Create", "Enter"}
      BY DEF EntersTo, Enters
    <2> QED
      BY <1>4, <2>1
  <1> QED
    BY <1>3, <1>5, <1>6, Zenon DEF Says

LEMMA OneSays ==
  ASSUME NEW m \in ToWorld, m.type # "Create",
         m.type = "Enter" => m.bg <= queue.created,
         queue'.created = queue.created, toWorld' = toWorld \o <<m>>
  PROVE  Says(<<m>>)
  <1>1. <<m>> \in Seq(ToWorld)
    OBVIOUS
  <1>2. m \notin AllCreates /\ \A p, i : m \in EntersTo(p, i) => i <= queue.created
    BY DEF AllCreates, EntersTo, Enters
  <1> QED
    BY <1>1, <1>2, OneIs DEF Says

LEMMA EntrySays ==
  ASSUME Inv, SyncStatus \/ SyncDeparture \/ ListBattleground \/ UnlistBattleground
  PROVE  (\E ns : Says(ns)) /\ queue'.member = queue.member
  BY EntryMessages, CountsSay, Zenon DEF SameGroups

LEMMA JoinQueueSays ==
  ASSUME Inv, JoinQueue
  PROVE  /\ \E ns : Says(ns)
         /\ \A p \in Players : p \in Head(toQueue).players \/ queue'.member[p] = queue.member[p]
  <1>0. QueueOk(queue)
    BY DEF Inv, TypeInv
  <1>1. OnQueue("Join")
    BY DEF JoinQueue
  <1>2. PICK h \in ToQueue : h = Head(toQueue) /\ h.type = "Join"
    BY <1>1, AnsweredIs
  <1>3. PICK party \in Parties : party = h.players
    BY <1>2, ToQueueIs
  <1>4. PICK m, ns : m = [type |-> "Joined", players |-> party] /\ ns = <<m>>
    BY Zenon
  <1>5. m \in ToWorld /\ m.type = "Joined"
    BY <1>4 DEF ToWorld
  <1>6. PICK t, r : t = AddGroup(queue, party) /\ r = ScheduleQueueUpdate(t)
    OBVIOUS
  <1>7. queue' = r /\ toWorld' = toWorld \o ns
    <2>1. Answers(Answer(r, ns))
      BY <1>2, <1>3, <1>4, <1>6 DEF JoinQueue
    <2> QED
      BY <2>1, AnsweredWith
  <1>8. queue.joined < MaxJoins
    BY <1>1, RoomToJoin
  <1>9. PICK k : k = queue.joined + 1
    OBVIOUS
  <1>10. QueueOk(t)
    BY <1>0, <1>6, <1>8, <1>9, AddGroupIs
  <1>11. t.created = queue.created
    BY <1>0, <1>6, <1>8, <1>9, AddGroupIs
  <1>12. t.member = NewMembers(queue, party, k)
    BY <1>0, <1>6, <1>8, <1>9, AddGroupIs
  <1>13. r.created = queue.created /\ r.member = NewMembers(queue, party, k)
    BY <1>6, <1>10, <1>11, <1>12, ScheduledGroups DEF SameGroups
  <1>14. Says(ns)
    BY <1>4, <1>5, <1>7, <1>13, OneSays
  <1> QED
    BY <1>2, <1>3, <1>7, <1>13, <1>14 DEF NewMembers

\* Only the player o left the queue.
Leaves(o, d) ==
    /\ QueueOk(d.queue) /\ Counts(d.sent) /\ d.queue.created = queue.created
    /\ \A p \in Players : p = o \/ d.queue.member[p] = queue.member[p]

LEMMA LeavesIs ==
  ASSUME QueueOk(queue), NEW o \in Players, PlayerInv(o), NEW b \in BOOLEAN,
         NEW d, d = RemovePlayer(queue, o, b)
  PROVE  Leaves(o, d)
  <1>1. \A n, i : Seat(queue, o, n, i) => n = queue.member[o]
    BY DEF PlayerInv, Member
  <1>2. QueueOk(d.queue) /\ Unseated(queue, d.queue, o) /\ Counts(d.sent)
    BY <1>1, UnseatedIs
  <1>3. SameSlots(queue, d.queue)
    BY AnyRemoved
  <1> QED
    BY <1>2, <1>3 DEF Leaves, Unseated, SameSeats, SameSlots

LEMMA RemoveQueueSays ==
  ASSUME Inv, RemoveFromQueue, \A o \in Players : PlayerInv(o)
  PROVE  /\ \E ns : Says(ns)
         /\ \A p \in Players : p = Head(toQueue).player \/ queue'.member[p] = queue.member[p]
  <1>0. QueueOk(queue)
    BY DEF Inv, TypeInv
  <1>1. OnQueue("Remove")
    BY DEF RemoveFromQueue
  <1>2. PICK h \in ToQueue : h = Head(toQueue) /\ h.type = "Remove"
    BY <1>1, AnsweredIs
  <1>3. PICK o \in Players : o = h.player
    BY <1>2, ToQueueIs
  <1>4. PICK b \in BOOLEAN : b = TRUE
    BY Zenon
  <1>5. PICK d : d = RemovePlayer(queue, o, b)
    OBVIOUS
  <1>6. queue' = d.queue /\ toWorld' = toWorld \o d.sent
    <2>1. Answers(d)
      BY <1>2, <1>3, <1>4, <1>5, Zenon DEF RemoveFromQueue
    <2> QED
      BY <2>1, AnswersAre
  <1>7. Leaves(o, d)
    BY <1>0, <1>5, LeavesIs
  <1> QED
    BY <1>2, <1>3, <1>6, <1>7, CountsSay, Zenon DEF Leaves

LEMMA PortQueueSays ==
  ASSUME Inv, PortQueue, \A o \in Players : PlayerInv(o)
  PROVE  /\ \E ns : Says(ns)
         /\ \A p \in Players : p = Head(toQueue).player \/ queue'.member[p] = queue.member[p]
  <1>0. QueueOk(queue) /\ toWorld \in Seq(ToWorld)
    BY DEF Inv, TypeInv
  <1>1. OnQueue("Port")
    BY DEF PortQueue
  <1>2. PICK h \in ToQueue : h = Head(toQueue) /\ h.type = "Port"
    BY <1>1, AnsweredIs
  <1>3. PICK o \in Players, enter \in BOOLEAN : o = h.player /\ enter = h.enter
    BY <1>2, ToQueueIs
  <1>4. PICK b \in BOOLEAN : b = ~enter
    BY Zenon
  <1>5. PICK to, d, r, e, l, es, ls :
           /\ to = InvitedTo(queue, o) /\ d = RemovePlayer(queue, o, b)
           /\ r = ScheduleQueueUpdate(d.queue)
           /\ e = [type |-> "Enter", player |-> o, bg |-> to] /\ es = <<e>>
           /\ l = [type |-> "Left", player |-> o] /\ ls = d.sent \o <<l>>
    BY Zenon
  <1>6. Answers(IF ~IsQueued(queue, o) \/ (enter /\ to = 0) THEN Answer(queue, << >>)
                ELSE IF enter THEN Answer(d.queue, es) ELSE Answer(r, ls))
    BY <1>2, <1>3, <1>4, <1>5, ZenonT(40) DEF PortQueue
  <1>7. Leaves(o, d)
    BY <1>0, <1>5, LeavesIs
  <1>8. CASE ~IsQueued(queue, o) \/ (enter /\ to = 0)
    <2>1. queue' = queue /\ toWorld' = toWorld \o << >>
      BY <1>6, <1>8, NothingAnswered
    <2>2. Counts(<< >>)
      BY DEF Counts
    <2> QED
      BY <2>1, <2>2, CountsSay, Zenon
  <1>9. CASE IsQueued(queue, o) /\ enter /\ to # 0
    <2>1. queue' = d.queue /\ toWorld' = toWorld \o es
      <3>1. Answers(Answer(d.queue, es))
        BY <1>6, <1>9
      <3> QED
        BY <3>1, AnsweredWith
    <2>2. to \in Battlegrounds /\ to <= queue.created
      <3>1. queue.member[o] # 0
        BY <1>9 DEF IsQueued
      <3>2. Seat(queue, o, queue.member[o], to)
        BY <1>0, <1>5, <3>1, SeatIs
      <3>3. to \in 0 .. MaxInstances /\ to <= queue.created
        BY <1>0, <3>2, SeatTypes
      <3> QED
        BY <1>9, <3>3, Numbers DEF Battlegrounds
    <2>3. e \in ToWorld /\ e.type = "Enter" /\ e.bg = to
      BY <1>5, <2>2 DEF ToWorld
    <2>4. Says(es)
      BY <1>5, <1>7, <2>1, <2>2, <2>3, OneSays, Zenon DEF Leaves
    <2> QED
      BY <1>2, <1>3, <1>7, <2>1, <2>4 DEF Leaves
  <1>10. CASE IsQueued(queue, o) /\ ~enter
    <2>1. queue' = r /\ toWorld' = toWorld \o ls
      <3>1. Answers(Answer(r, ls))
        BY <1>6, <1>10
      <3> QED
        BY <3>1, AnsweredWith
    <2>2. r.created = d.queue.created /\ r.member = d.queue.member
      BY <1>5, <1>7, ScheduledGroups DEF Leaves, SameGroups
    <2>3. Says(ls)
      BY <1>5, <1>7, <2>1, <2>2, LeftSays, Zenon DEF Leaves
    <2> QED
      BY <1>2, <1>3, <1>7, <2>1, <2>2, <2>3 DEF Leaves
  <1> QED
    BY <1>8, <1>9, <1>10

LEMMA ExpireSays ==
  ASSUME Inv, Expire, \A o \in Players : PlayerInv(o)
  PROVE  /\ \E ns : Says(ns)
         /\ \A p \in Players :
               \/ queue'.member[p] = queue.member[p]
               \/ p = Head(toQueue).player /\ Head(toQueue).id = queue.member[p]
  <1>0. QueueOk(queue) /\ toWorld \in Seq(ToWorld)
    BY DEF Inv, TypeInv
  <1>1. OnQueue("Expire")
    BY DEF Expire
  <1>2. PICK h \in ToQueue : h = Head(toQueue) /\ h.type = "Expire"
    BY <1>1, AnsweredIs
  <1>3. PICK o \in Players : o = h.player
    BY <1>2, ToQueueIs
  <1>4. PICK b \in BOOLEAN : b = TRUE
    BY Zenon
  <1>5. PICK d, m, r, ms :
           /\ d = RemovePlayer(queue, o, b) /\ m = [type |-> "Left", player |-> o]
           /\ r = (IF h.open THEN ScheduleQueueUpdate(d.queue) ELSE d.queue)
           /\ ms = d.sent \o <<m>>
    BY Zenon
  <1>6. /\ ~IsPlayerInvited(queue, o, h.bg, h.id) => Answers(Answer(queue, << >>))
        /\ IsPlayerInvited(queue, o, h.bg, h.id) => Answers(Answer(r, ms))
    BY <1>2, <1>3, <1>4, <1>5, ZenonT(40) DEF Expire
  <1>7. Leaves(o, d)
    BY <1>0, <1>5, LeavesIs
  <1>8. CASE ~IsPlayerInvited(queue, o, h.bg, h.id)
    <2>1. queue' = queue /\ toWorld' = toWorld \o << >>
      BY <1>6, <1>8, NothingAnswered
    <2>2. Counts(<< >>)
      BY DEF Counts
    <2> QED
      BY <2>1, <2>2, CountsSay, Zenon
  <1>9. CASE IsPlayerInvited(queue, o, h.bg, h.id)
    <2>1. queue' = r /\ toWorld' = toWorld \o ms
      <3>1. Answers(Answer(r, ms))
        BY <1>6, <1>9
      <3> QED
        BY <3>1, AnsweredWith
    <2>2. r.created = d.queue.created /\ r.member = d.queue.member
      BY <1>5, <1>7, ScheduledGroups DEF Leaves, SameGroups
    <2>3. Says(ms)
      BY <1>5, <1>7, <2>1, <2>2, LeftSays, Zenon DEF Leaves
    <2>4. h.id = queue.member[o]
      BY <1>9 DEF IsPlayerInvited
    <2> QED
      BY <1>2, <1>3, <1>7, <2>1, <2>2, <2>3, <2>4 DEF Leaves
  <1> QED
    BY <1>8, <1>9

LEMMA UpdatePlace ==
  ASSUME Inv, UpdateQueue, NEW p \in Players, Place(p)
  PROVE  Place(p)' /\ queue'.member = queue.member
  <1>0. QueueOk(queue)
    BY DEF Inv, TypeInv
  <1>1. PICK u, r, ms : u = Update(queue) /\ r = u.queue /\ ms = u.sent
    OBVIOUS
  <1>2. queue' = r /\ toWorld' = toWorld \o ms /\ UNCHANGED <<where, at, bgs>>
    BY <1>1, AnswersAre, Zenon DEF UpdateQueue
  <1>3. Grows(queue, r, ms) /\ Created(queue, r, ms)
    BY <1>0, <1>1, UpdateIs DEF Updated
  <1>4. /\ QueueOk(r) /\ r.member = queue.member /\ ms \in Seq(ToWorld)
        /\ \A j \in DOMAIN ms : ms[j].type \in {"Invited", "Count", "Create"}
    BY <1>3 DEF Grows
  <1>5. Sent(toWorld, ms, toWorld')
    BY <1>2, <1>4, AnswerSent
  <1>6. \A i \in Battlegrounds : Absent(ms, EntersTo(p, i))
    BY <1>4 DEF Absent, EntersTo, Enters
  <1>7. queue.created \in Int /\ r.created \in {queue.created, queue.created + 1}
    BY <1>0, <1>3, QueueTypes, Numbers DEF Created
  <1>8. \A i \in Battlegrounds : i \in Int
    BY Numbers DEF Battlegrounds
  <1>9. ASSUME NEW i \in Battlegrounds, i <= queue.created
        PROVE  i <= r.created /\ Absent(ms, Creates(i))
    <2>1. i <= r.created /\ i # queue.created + 1
      BY <1>7, <1>8, <1>9
    <2>2. CASE Absent(ms, AllCreates)
      BY <2>1, <2>2 DEF Absent, AllCreates, Creates
    <2>3. CASE r.created = queue.created + 1 /\ \A j : j # r.created => Absent(ms, Creates(j))
      BY <2>1, <2>3
    <2> QED
      BY <1>3, <2>2, <2>3 DEF Created
  <1>10. Follows(p)
    <2>1. ASSUME NEW i \in Battlegrounds, i <= queue.created
          PROVE  i <= queue'.created /\ (Absent(toWorld, Creates(i)) => Absent(toWorld', Creates(i)))
      BY <1>2, <1>5, <1>9, <2>1 DEF Sent
    <2>2. ASSUME NEW i \in Battlegrounds
          PROVE  /\ ~Absent(toWorld', EntersTo(p, i)) => i <= queue'.created
                 /\ Before(toWorld', Creates(i), EntersTo(p, i))
      <3>1. /\ ~Absent(toWorld, EntersTo(p, i)) => i <= queue.created
            /\ Before(toWorld, Creates(i), EntersTo(p, i))
        BY DEF Place
      <3>2. Absent(toWorld', EntersTo(p, i)) <=> Absent(toWorld, EntersTo(p, i))
        BY <1>5, <1>6 DEF Sent
      <3>3. CASE Absent(toWorld, EntersTo(p, i))
        BY <3>2, <3>3, AbsentIs
      <3>4. CASE ~Absent(toWorld, EntersTo(p, i))
        <4>1. i <= r.created /\ Absent(ms, Creates(i))
          BY <1>9, <3>1, <3>4
        <4> QED
          BY <1>2, <1>5, <3>1, <4>1 DEF Sent
      <3> QED
        BY <3>3, <3>4
    <2> QED
      BY <2>1, <2>2 DEF Follows
  <1> QED
    BY <1>2, <1>4, <1>10, PlaceKept DEF SameGrounds

-----------------------------------------------------------------------------
(***************************************************************************)
(* The invariant of the players, and what follows from it.                 *)
(***************************************************************************)
LEMMA PlayersInit ==
  ASSUME Init
  PROVE  PlayersInv
  <1> SUFFICES ASSUME NEW p \in Players PROVE PlayerInv(p) /\ Place(p)
    BY DEF PlayersInv
  <1>1. /\ where[p] = "world" /\ slot[p] = FALSE /\ at[p] = 0 /\ timers[p] = {}
        /\ toWorld = << >> /\ toQueue = << >>
    BY DEF Init
  <1>2. queue.member[p] = 0 /\ queue.groups = [s \in Sides |-> << >>]
    BY DEF Init, EmptyQueue
  <1>3. Team[p] \in Sides
    BY TeamAssumption
  <1>4. \A n, i : ~Seat(queue, p, n, i)
    BY <1>2, <1>3 DEF Seat
  <1>5. \A M, N : /\ Absent(toQueue, M) /\ Absent(toWorld, M) /\ Single(toQueue, M) /\ Single(toWorld, M)
                  /\ Before(toQueue, M, N) /\ Before(toWorld, M, N)
    BY <1>1, NoneIs
  <1>6. Tokens(p)
    BY <1>1, <1>5 DEF Tokens, Token, NoToken, Rings
  <1>7. OneAnswer(p) /\ Member(p) /\ Asked(p) /\ Answered(p) /\ Knows(p)
    BY <1>1, <1>2, <1>4, <1>5, Zenon DEF OneAnswer, Awaits, Member, Asked, Answered, Knows
  <1>8. Place(p)
    <2>1. \A i \in Battlegrounds : bgs[i].players = {} /\ i # 0
      BY Numbers DEF Init, NoInstance, Battlegrounds
    <2> QED
      BY <1>1, <1>5, <2>1 DEF Place
  <1> QED
    BY <1>6, <1>7, <1>8 DEF PlayerInv

LEMMA PlayersStay ==
  ASSUME Inv, PlayersInv, UNCHANGED vars
  PROVE  PlayersInv'
  <1> SUFFICES ASSUME NEW p \in Players PROVE (PlayerInv(p) /\ Place(p))'
    BY DEF PlayersInv
  <1>1. PlayerInv(p) /\ Place(p)
    BY DEF PlayersInv
  <1>2. UNCHANGED <<playerVars, bgs, queue, toWorld>> /\ toQueue' = toQueue
    BY DEF vars, playerVars
  <1>3. Unmoved(p) /\ SameSeats(queue, queue', p) /\ SameMessages(p)
    BY <1>2, NothingSent DEF Unmoved, Remembers, playerVars
  <1> QED
    BY <1>1, <1>2, <1>3, Framed, AskPlace

LEMMA PlayersNext ==
  ASSUME Inv, PatientClients, PlayersInv, Next
  PROVE  PlayersInv'
  <1> SUFFICES ASSUME NEW p \in Players PROVE (PlayerInv(p) /\ Place(p))'
    BY DEF PlayersInv
  <1>1. PlayerInv(p) /\ Place(p) /\ \A o \in Players : PlayerInv(o)
    BY DEF PlayersInv
  <1>2. ASSUME NEW party \in Parties, Join(party) PROVE (PlayerInv(p) /\ Place(p))'
    <2>1. UNCHANGED <<playerVars, bgs, queue, toWorld>>
      BY <1>2 DEF Join
    <2> QED
      BY <1>1, <1>2, <2>1, JoinTells, AskPlace
  <1>3. ASSUME NEW o \in Players PROVE \A enter \in BOOLEAN : Port(o, enter) => (PlayerInv(p) /\ Place(p))'
    <2> SUFFICES ASSUME NEW enter \in BOOLEAN, Port(o, enter) PROVE (PlayerInv(p) /\ Place(p))'
      OBVIOUS
    <2>1. UNCHANGED <<playerVars, bgs, queue, toWorld>>
      BY DEF Port
    <2> QED
      BY <1>1, <2>1, PortTells, AskPlace
  <1>4. ASSUME NEW o \in Players,
               Logout(o) \/ Login(o) \/ ChangeMap(o) \/ Arrive(o) \/ RemoveEvent(o)
        PROVE  (PlayerInv(p) /\ Place(p))'
    <2>1. CASE Logout(o)
      BY <1>1, <2>1, LogoutTells, LogoutPlace
    <2>2. CASE Login(o)
      BY <1>1, <2>2, LoginTells, LoginPlace
    <2>3. CASE ChangeMap(o)
      BY <1>1, <2>3, ChangeMapTells, ChangeMapPlace
    <2>4. CASE Arrive(o)
      BY <1>1, <2>4, ArriveTells, ArrivePlace
    <2>5. CASE RemoveEvent(o)
      BY <1>1, <2>5, EventTells, EventPlace
    <2> QED
      BY <1>4, <2>1, <2>2, <2>3, <2>4, <2>5
  <1>5. ASSUME NEW i \in Battlegrounds,
               \/ Start(i) \/ EndBattleGround(i) \/ SendHome(i) \/ RemoveBattleGround(i)
               \/ \E o \in Players : RemoveOffline(i, o)
        PROVE  (PlayerInv(p) /\ Place(p))'
    <2>1. CASE SendHome(i)
      BY <1>1, <2>1, SendHomeTells, SendHomePlace
    <2>2. CASE Start(i) \/ EndBattleGround(i) \/ RemoveBattleGround(i) \/ \E o \in Players : RemoveOffline(i, o)
      BY <1>1, <2>2, BgTells, BgPlace
    <2> QED
      BY <1>5, <2>1, <2>2
  <1>6. CASE WorldMessage
    <2>1. CASE Joined
      BY <1>1, <2>1, JoinedTells, HeardPlace
    <2>2. CASE Invited
      BY <1>1, <2>2, InvitedTells, HeardPlace
    <2>3. CASE Left
      BY <1>1, <2>3, LeftTells, HeardPlace
    <2>4. CASE Timer
      BY <1>1, <2>4, TimerTells, HeardPlace
    <2>5. CASE SetInvitedCount
      BY <1>1, <2>5, CountTells, CountPlace
    <2>6. CASE CreateNewBattleGround
      BY <1>1, <2>6, CountTells, CreatePlace
    <2>7. CASE Enter
      BY <1>1, <2>7, EnterTells, EnterPlace
    <2> QED
      BY <1>6, <2>1, <2>2, <2>3, <2>4, <2>5, <2>6, <2>7 DEF WorldMessage
  <1>7. CASE QueueMessage
    <2>1. CASE JoinQueue
      <3>1. PICK ns : Says(ns)
        BY <2>1, JoinQueueSays
      <3>2. OnQueue("Join")
        BY <2>1 DEF JoinQueue
      <3> QED
        BY <1>1, <2>1, <3>1, <3>2, JoinQueueTells, QueuePlace
    <2>2. CASE PortQueue
      <3>1. PICK ns : Says(ns)
        BY <1>1, <2>2, PortQueueSays
      <3>2. OnQueue("Port")
        BY <2>2 DEF PortQueue
      <3> QED
        BY <1>1, <2>2, <3>1, <3>2, PortQueueTells, QueuePlace
    <2>3. CASE RemoveFromQueue
      <3>1. PICK ns : Says(ns)
        BY <1>1, <2>3, RemoveQueueSays
      <3>2. OnQueue("Remove")
        BY <2>3 DEF RemoveFromQueue
      <3> QED
        BY <1>1, <2>3, <3>1, <3>2, RemoveQueueTells, QueuePlace
    <2>4. CASE Expire
      <3>1. PICK ns : Says(ns)
        BY <1>1, <2>4, ExpireSays
      <3>2. OnQueue("Expire")
        BY <2>4 DEF Expire
      <3> QED
        BY <1>1, <2>4, <3>1, <3>2, ExpireTells, QueuePlace
    <2>5. CASE SyncStatus \/ SyncDeparture \/ ListBattleground \/ UnlistBattleground
      <3>1. PICK ns : Says(ns)
        BY <2>5, EntrySays
      <3>2. PICK type \in {"Status", "Decrease", "FreeAdd", "FreeRemove"} : OnQueue(type)
        BY <2>5 DEF SyncStatus, SyncDeparture, ListBattleground, UnlistBattleground
      <3> QED
        BY <1>1, <2>5, <3>1, <3>2, EntryTells, QueuePlace
    <2> QED
      BY <1>7, <2>1, <2>2, <2>3, <2>4, <2>5 DEF QueueMessage
  <1>8. CASE UpdateQueue
    BY <1>1, <1>8, UpdateTells, UpdatePlace
  <1> QED
    BY <1>2, <1>3, <1>4, <1>5, <1>6, <1>7, <1>8 DEF Next

LEMMA PlayersInvariance ==
  ASSUME PatientClients
  PROVE  Spec => []PlayersInv
  <1>1. Init => PlayersInv
    BY PlayersInit
  <1>2. Inv /\ PlayersInv /\ [Next]_vars => PlayersInv'
    BY PlayersNext, PlayersStay
  <1> QED
    BY <1>1, <1>2, Invariance, PTL DEF Spec

-----------------------------------------------------------------------------
(***************************************************************************)
(* What follows for the players.                                           *)
(***************************************************************************)
LEMMA QuietMeans ==
  ASSUME Inv, PlayersInv, Quiet, NEW p \in Players
  PROVE  /\ \A n, i : Seat(queue, p, n, i) => n = queue.member[p]
         /\ queue.member[p] # 0 => where[p] # "offline" /\ slot[p]
         /\ \A n \in 1 .. MaxJoins : \A i \in Battlegrounds :
               Seat(queue, p, n, i) /\ p \notin missed =>
                  invite[p] = i /\ [bg |-> i, id |-> n] \in timers[p]
  <1>1. toWorld = << >> /\ toQueue = << >>
    BY DEF Quiet
  <1>2. \A M : Absent(toWorld, M) /\ Absent(toQueue, M)
    BY <1>1, NoneIs
  <1>3. Member(p) /\ Knows(p)
    BY DEF PlayersInv, PlayerInv
  <1>4. \A n, i : ~(~Absent(toWorld, NotesTo(p, n, i)))
                  /\ ~(~Absent(toWorld, AlarmsTo(p, n, i)) \/ ~Absent(toQueue, ExpiriesTo(p, n, i)))
    BY <1>2
  <1>5. ASSUME NEW n \in 1 .. MaxJoins, NEW i \in Battlegrounds, Seat(queue, p, n, i),
               p \notin missed
        PROVE  invite[p] = i /\ [bg |-> i, id |-> n] \in timers[p]
    <2>1. Informed(p, n, i)
      BY <1>2, <1>3, <1>5 DEF Knows
    <2> QED
      BY <1>4, <2>1 DEF Informed
  <1> QED
    BY <1>2, <1>3, <1>5 DEF Member

(***************************************************************************)
(* With clients that wait for an answer, the queue's thread and the        *)
(* world's agree whenever no message is under way: AddGroup, RemovePlayer  *)
(* and the invitations keep a player in one group, the one m_queuedPlayers *)
(* names, and he is online with the queue in a slot (AddBattleGroundQueueId *)
(* and RemoveBattleGroundQueueId, called by the answers); if invited he    *)
(* has been told where (SetInviteForBattleGroundQueueType), and the event  *)
(* that ends the invitation (BgQueueRemoveEvent) waits.                    *)
(***************************************************************************)
THEOREM PlayersKnowTheirQueue ==
  ASSUME PatientClients
  PROVE  Spec => []QueuedPlayersKnow
  <1>1. ASSUME Inv, PlayersInv PROVE QueuedPlayersKnow
    <2> SUFFICES ASSUME Quiet
                 PROVE  /\ \A g \in GroupsOf(queue) : \A p \in g.players : queue.member[p] = g.id
                        /\ \A p \in Players : IsQueued(queue, p) =>
                             /\ p \in GroupOf(queue, p).players
                             /\ where[p] # "offline" /\ slot[p]
                             /\ LET i == InvitedTo(queue, p)
                                IN i # 0 /\ p \notin missed =>
                                            /\ invite[p] = i
                                            /\ [bg |-> i, id |-> queue.member[p]] \in timers[p]
      BY DEF QueuedPlayersKnow
    <2>0. QueueOk(queue)
      BY <1>1 DEF Inv, TypeInv
    <2>1. ASSUME NEW g \in GroupsOf(queue), NEW p \in g.players PROVE queue.member[p] = g.id
      <3>1. PICK s \in Sides : g \in ToSet(queue.groups[s])
        BY DEF GroupsOf
      <3>2. PICK k \in DOMAIN queue.groups[s] : g = queue.groups[s][k]
        BY <3>1 DEF ToSet
      <3>3. GroupOk(g, s, queue.joined, queue.created) /\ g \in Groups
        BY <2>0, <3>2, QueueTypes DEF QueueOk, GroupsOk
      <3>4. p \in Players /\ Team[p] = s
        BY <3>3 DEF GroupOk, Groups
      <3>5. Seat(queue, p, g.id, g.to)
        BY <3>2, <3>4 DEF Seat
      <3> QED
        BY <1>1, <3>4, <3>5, QuietMeans
    <2>2. ASSUME NEW p \in Players, queue.member[p] # 0
          PROVE  /\ p \in GroupOf(queue, p).players
                 /\ where[p] # "offline" /\ slot[p]
                 /\ InvitedTo(queue, p) # 0 /\ p \notin missed =>
                      /\ invite[p] = InvitedTo(queue, p)
                      /\ [bg |-> InvitedTo(queue, p), id |-> queue.member[p]] \in timers[p]
      <3>1. p \in GroupOf(queue, p).players
        BY <2>0, <2>2, GroupOfIs
      <3>2. where[p] # "offline" /\ slot[p]
        BY <1>1, <2>2, QuietMeans
      <3>3. PICK n, i : n = queue.member[p] /\ i = InvitedTo(queue, p)
        OBVIOUS
      <3>4. i \in 0 .. MaxInstances /\ Seat(queue, p, n, i)
        BY <2>0, <2>2, <3>3, SeatIs
      <3>5. n \in 1 .. MaxJoins
        BY <2>0, <3>4, SeatTypes
      <3>6. i # 0 => i \in Battlegrounds
        BY <3>4, Numbers DEF Battlegrounds
      <3>7. i # 0 /\ p \notin missed => invite[p] = i /\ [bg |-> i, id |-> n] \in timers[p]
        BY <1>1, <3>4, <3>5, <3>6, QuietMeans
      <3> QED
        BY <3>1, <3>2, <3>3, <3>7
    <2> QED
      BY <2>1, <2>2 DEF IsQueued
  <1> QED
    BY <1>1, Invariance, PlayersInvariance, PTL

\* The timer of an invitation names one of the groups.
LEMMA RingsOf ==
  ASSUME Inv, NEW p \in Players, NEW n, NEW i, [bg |-> i, id |-> n] \in timers[p]
  PROVE  n \in 1 .. MaxJoins /\ i \in Battlegrounds /\ Rings(timers[p], n)
  <1>1. timers[p] \subseteq [bg : Battlegrounds, id : 1 .. MaxJoins]
    BY DEF Inv, TypeInv, PlayersOk
  <1>2. PICK t : t = [bg |-> i, id |-> n]
    OBVIOUS
  <1>3. t \in [bg : Battlegrounds, id : 1 .. MaxJoins] /\ t.bg = i /\ t.id = n
    BY <1>1, <1>2
  <1>4. n \in 1 .. MaxJoins /\ i \in Battlegrounds
    BY <1>3
  <1> QED
    BY <1>4 DEF Rings

\* Whose time has not run out leaves the queue by a message of his own.
Leaving(p) ==
    \/ queue'.member[p] = queue.member[p]
    \/ toQueue # << >> /\ Head(toQueue).type \in {"Port", "Remove"} /\ Head(toQueue).player = p

LEMMA QueueLetsGo ==
  ASSUME Inv, PlayersInv, QueueMessage, NEW p \in Players, queue.member[p] # 0,
         Rings(timers[p], queue.member[p])
  PROVE  Leaving(p)
  <1>0. QueueOk(queue) /\ toQueue \in Seq(ToQueue)
    BY DEF Inv, TypeInv
  <1>1. PlayerInv(p) /\ \A o \in Players : PlayerInv(o)
    BY DEF PlayersInv
  <1>2. PICK n : n = queue.member[p]
    OBVIOUS
  <1>3. n \in 1 .. MaxJoins
    BY <1>0, <1>2, SeatIs, SeatTypes
  <1>4. CASE JoinQueue
    <2>1. PICK h \in ToQueue : h = Head(toQueue) /\ h.type = "Join" /\ Taken(toQueue, toQueue', h)
      <3>1. OnQueue("Join")
        BY <1>4 DEF JoinQueue
      <3> QED
        BY <3>1, AnsweredIs
    <2>2. ASSUME p \in h.players PROVE FALSE
      <3>1. h \in Joins(p) /\ h \in Asks(p)
        BY <2>1, <2>2 DEF Joins, Asks
      <3>2. Asked(p)
        BY <1>1 DEF PlayerInv
      <3>3. Absent(toQueue, Removes(p)) /\ ~Absent(toQueue, Joins(p))
        <4>1. Before(toQueue, Removes(p), Asks(p))
          BY <3>2 DEF Asked
        <4> QED
          BY <2>1, <3>1, <4>1, TakenOff
      <3> QED
        BY <3>2, <3>3 DEF Asked
    <2> QED
      BY <1>4, <2>1, <2>2, JoinQueueSays DEF Leaving
  <1>5. CASE PortQueue
    <2>1. OnQueue("Port")
      BY <1>5 DEF PortQueue
    <2>2. toQueue # << >> /\ Head(toQueue).type = "Port"
      BY <2>1 DEF OnQueue
    <2> QED
      BY <1>1, <1>5, <2>2, PortQueueSays DEF Leaving
  <1>6. CASE RemoveFromQueue
    <2>1. OnQueue("Remove")
      BY <1>6 DEF RemoveFromQueue
    <2>2. toQueue # << >> /\ Head(toQueue).type = "Remove"
      BY <2>1 DEF OnQueue
    <2> QED
      BY <1>1, <1>6, <2>2, RemoveQueueSays DEF Leaving
  <1>7. CASE Expire
    <2>1. PICK h \in ToQueue : h = Head(toQueue) /\ h.type = "Expire" /\ Taken(toQueue, toQueue', h)
      <3>1. OnQueue("Expire")
        BY <1>7 DEF Expire
      <3> QED
        BY <3>1, AnsweredIs
    <2>2. ASSUME h.player = p, h.id = n PROVE FALSE
      <3>1. h \in Expiries(p, n)
        BY <2>1, <2>2 DEF Expiries
      <3>2. ~Absent(toQueue, Expiries(p, n))
        BY <2>1, <3>1, TakenOff
      <3>3. Token(p, n, timers[p], toQueue, toWorld)
        BY <1>1, <1>3 DEF PlayerInv, Tokens
      <3> QED
        BY <1>2, <3>2, <3>3 DEF Token
    <2> QED
      BY <1>1, <1>2, <1>7, <2>1, <2>2, ExpireSays DEF Leaving
  <1>8. CASE SyncStatus \/ SyncDeparture \/ ListBattleground \/ UnlistBattleground
    BY <1>8, EntrySays DEF Leaving
  <1> QED
    BY <1>4, <1>5, <1>6, <1>7, <1>8 DEF QueueMessage

LEMMA NobodyElseLetsGo ==
  ASSUME NEW p, \/ \E party \in Parties : Join(party)
                \/ \E o \in Players : \/ \E enter \in BOOLEAN : Port(o, enter)
                                      \/ Logout(o) \/ Login(o) \/ ChangeMap(o) \/ Arrive(o)
                                      \/ RemoveEvent(o)
                \/ \E i \in Battlegrounds : \/ Start(i) \/ EndBattleGround(i) \/ SendHome(i)
                                            \/ RemoveBattleGround(i)
                                            \/ \E o \in Players : RemoveOffline(i, o)
                \/ WorldMessage \/ UNCHANGED vars
  PROVE  Leaving(p)
  <1>1. ASSUME NEW party, Join(party) PROVE queue' = queue
    BY <1>1 DEF Join
  <1>2. ASSUME NEW o, NEW enter, Port(o, enter) PROVE queue' = queue
    BY <1>2 DEF Port
  <1>3. ASSUME NEW o, Logout(o) \/ Login(o) \/ ChangeMap(o) \/ Arrive(o) \/ RemoveEvent(o)
        PROVE  queue' = queue
    BY <1>3 DEF Logout, Login, ChangeMap, Arrive, RemoveEvent
  <1>4. ASSUME NEW i, \/ Start(i) \/ EndBattleGround(i) \/ SendHome(i) \/ RemoveBattleGround(i)
                      \/ \E o \in Players : RemoveOffline(i, o)
        PROVE  queue' = queue
    BY <1>4, Zenon DEF Start, EndBattleGround, SendHome, RemoveBattleGround, RemoveOffline
  <1>5. ASSUME WorldMessage PROVE queue' = queue
    BY <1>5 DEF WorldMessage, Joined, Invited, SetInvitedCount, CreateNewBattleGround, Enter,
                Left, Timer
  <1>6. ASSUME UNCHANGED vars PROVE queue' = queue
    BY <1>6 DEF vars
  <1>7. queue' = queue
    BY <1>1, <1>2, <1>3, <1>4, <1>5, <1>6
  <1> QED
    BY <1>7 DEF Leaving

(***************************************************************************)
(* With clients that wait for an answer, BattleGroundQueueItem's removal   *)
(* event takes no valid invitation away: while the event of the invitation *)
(* a player has is still waiting, only his own click (CMSG_BATTLEFIELD_    *)
(* PORT) or his logout takes him out of the queue, not the event of an     *)
(* earlier invitation, another join, or a battleground that ends or is     *)
(* deleted.                                                                *)
(***************************************************************************)
THEOREM InvitationsLast ==
  ASSUME PatientClients
  PROVE  Spec => StaysUntilItsTime
  <1>1. ASSUME Inv, PlayersInv, [Next]_vars, NEW p \in Players,
               [bg |-> InvitedTo(queue, p), id |-> queue.member[p]] \in timers[p]
        PROVE  Leaving(p)
    <2>1. PICK n, i : n = queue.member[p] /\ i = InvitedTo(queue, p)
      OBVIOUS
    <2>2. n \in 1 .. MaxJoins /\ Rings(timers[p], n)
      BY <1>1, <2>1, RingsOf
    <2>3. queue.member[p] # 0
      BY <2>1, <2>2, Numbers
    <2>4. CASE QueueMessage
      BY <1>1, <2>1, <2>2, <2>3, <2>4, QueueLetsGo
    <2>5. CASE UpdateQueue
      BY <1>1, <2>5, UpdatePlace DEF Leaving, PlayersInv
    <2>6. CASE ~QueueMessage /\ ~UpdateQueue
      BY <1>1, <2>6, NobodyElseLetsGo DEF Next
    <2> QED
      BY <2>4, <2>5, <2>6
  <1>2. Inv /\ PlayersInv /\ [Next]_vars =>
          [\A p \in Players :
             LET id == queue.member[p]
             IN [bg |-> InvitedTo(queue, p), id |-> id] \in timers[p] =>
                  \/ queue'.member[p] = id
                  \/ /\ toQueue # << >> /\ Head(toQueue).type \in {"Port", "Remove"}
                     /\ Head(toQueue).player = p]_vars
    BY <1>1 DEF Leaving
  <1> QED
    BY <1>2, Invariance, PlayersInvariance, PTL DEF Spec, StaysUntilItsTime

=============================================================================
