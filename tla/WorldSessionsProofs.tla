------------------------- MODULE WorldSessionsProofs -------------------------
(***************************************************************************)
(* Proofs about WorldSessions, for any accounts, connections and limit.    *)
(***************************************************************************)
EXTENDS WorldSessions, SequenceTheorems, FiniteSetTheorems, TLAPS

Updating == wpc \in {"take", "packets", "state"}
Coming == Elements(addQueue) \cup Elements(adding)
Live(s) == session[s].state \notin {"none", "destroyed"}
Different(q) == \A i, j \in DOMAIN q : i # j => q[i] # q[j]

Types ==
    /\ sock \in [Sockets -> [state : {"idle", "open", "closed"}, session : Maybe(Sockets)]]
    /\ session \in [Sockets -> SessionType]
    /\ sessions \in [Accounts -> Maybe(Sockets)]
    /\ addQueue \in Seq(Sockets) /\ adding \in Seq(Sockets) /\ waiting \in Seq(Sockets)
    /\ batch \in Seq(Packet) /\ logins \in Seq(Accounts)
    /\ todo \subseteq Accounts /\ wcur \in Maybe(Sockets)
    /\ stopping \in BOOLEAN /\ dirty \in [Accounts -> BOOLEAN]
-----------------------------------------------------------------------------
(***************************************************************************)
(* What the operations on the members of a session leave alone.            *)
(***************************************************************************)
LiveStates == {"created", "char selection", "ready", "offline"}
Refs(r) == ({r.socket, r.request} \cup Elements(r.inbox)) \ {None}

\* The members q are those of r after a step that neither adds nor destroys it.
Mild(r, q) ==
    /\ q \in SessionType /\ q.account = r.account /\ q.inQueue = r.inQueue
    /\ q.state = r.state \/ (r.state \in LiveStates /\ q.state \in LiveStates)
    /\ Refs(q) \subseteq Refs(r)

\* All members but the socket and those of the character.
Same6(r, q) ==
    /\ q \in SessionType /\ q.account = r.account /\ q.inQueue = r.inQueue
    /\ q.request = r.request /\ q.inbox = r.inbox /\ q.recv = r.recv

LEMMA SetMember ==
  ASSUME NEW r \in SessionType
  PROVE  /\ \A v \in LiveStates : [r EXCEPT !.state = v] \in SessionType
         /\ \A v \in Maybe(Sockets) : [r EXCEPT !.socket = v] \in SessionType
         /\ \A v \in Maybe(Sockets) : [r EXCEPT !.request = v] \in SessionType
         /\ \A v \in Seq(Sockets) : [r EXCEPT !.inbox = v] \in SessionType
         /\ \A v \in Seq(Packet) : [r EXCEPT !.recv = v] \in SessionType
         /\ \A v \in BOOLEAN : [r EXCEPT !.inQueue = v] \in SessionType
         /\ \A v \in {"none", "world", "failed"} : [r EXCEPT !.player = v] \in SessionType
         /\ \A v \in 0 .. 3 : [r EXCEPT !.logout = v] \in SessionType
         /\ \A v \in 0 .. 2 : [r EXCEPT !.kickTime = v] \in SessionType
         /\ \A v \in BOOLEAN : [r EXCEPT !.save = v] \in SessionType
         /\ \A v \in BOOLEAN : [r EXCEPT !.kick = v] \in SessionType
         /\ \A v \in BOOLEAN : [r EXCEPT !.recent = v] \in SessionType
  BY DEF SessionType, LiveStates

LEMMA KeptIsMild ==
  ASSUME NEW r \in SessionType, NEW q, Same6(r, q), q.socket \in {r.socket, None},
         q.state = r.state \/ (r.state \in LiveStates /\ q.state \in LiveStates)
  PROVE  Mild(r, q)
  BY DEF Same6, Mild, Refs

LEMMA LogoutRequestFacts ==
  ASSUME NEW r \in SessionType, NEW time \in 0 .. 3, NEW save \in BOOLEAN, NEW kick \in BOOLEAN
  PROVE  LET q == LogoutRequest(r, time, save, kick) IN
         /\ Same6(r, q) /\ q.socket = r.socket /\ q.state = r.state /\ q.player = r.player
         /\ q.recent = r.recent /\ q.logout = time /\ q.save = save /\ q.kick = kick
  BY DEF LogoutRequest, SessionType, Same6

LEMMA KickPlayerFacts ==
  ASSUME NEW r \in SessionType
  PROVE  LET q == KickPlayer(r) IN
         /\ Same6(r, q) /\ q.socket = r.socket /\ q.state = r.state /\ q.player = r.player
         /\ q.recent = r.recent /\ q.logout = 2
  <1>1. 2 \in 0 .. 3 /\ FALSE \in BOOLEAN /\ TRUE \in BOOLEAN
    OBVIOUS
  <1> QED
    BY <1>1, LogoutRequestFacts DEF KickPlayer

LEMMA SetInCharSelectionFacts ==
  ASSUME NEW r \in SessionType
  PROVE  LET q == SetInCharSelection(r) IN
         /\ Same6(r, q) /\ q.socket = r.socket /\ q.state = "char selection" /\ q.player = r.player
         /\ q.recent = r.recent /\ q.logout = r.logout /\ q.save = r.save
  <1> DEFINE p == [r EXCEPT !.state = "char selection"]
             q == SetInCharSelection(r)
  <1>1. p \in SessionType
    BY SetMember DEF LiveStates
  <1>2. q = [p EXCEPT !.kickTime = 1]
    BY Zenon DEF SetInCharSelection
  <1> HIDE DEF p
  <1>3. q \in SessionType
    <2>1. \A v \in 0 .. 2 : [p EXCEPT !.kickTime = v] \in SessionType
      BY <1>1, SetMember
    <2> HIDE DEF q
    <2>2. 1 \in 0 .. 2
      OBVIOUS
    <2> QED
      BY <1>2, <2>1, <2>2, Zenon
  <1>4. /\ q.account = r.account /\ q.inQueue = r.inQueue /\ q.request = r.request
        /\ q.inbox = r.inbox /\ q.recv = r.recv /\ q.socket = r.socket /\ q.state = "char selection"
    BY DEF SetInCharSelection, SessionType
  <1>5. q.player = r.player /\ q.recent = r.recent /\ q.logout = r.logout /\ q.save = r.save
    BY DEF SetInCharSelection, SessionType
  <1> HIDE DEF q
  <1> QED
    BY <1>3, <1>4, <1>5 DEF Same6, q

LEMMA SetOnlineFacts ==
  ASSUME NEW r \in SessionType
  PROVE  LET q == SetOnline(r) IN
         /\ Same6(r, q) /\ q.socket = r.socket /\ q.state \in {r.state, "ready"} /\ q.player = r.player
         /\ q.recent = r.recent /\ q.logout = r.logout /\ q.save = r.save
         /\ r.player = "none" => q = r
  <1> DEFINE p == [r EXCEPT !.state = "ready"]
             q == [r EXCEPT !.state = "ready", !.kickTime = 0]
  <1>1. p \in SessionType
    BY SetMember DEF LiveStates
  <1>2. q = [p EXCEPT !.kickTime = 0]
    BY Zenon
  <1> HIDE DEF p
  <1>3. q \in SessionType
    <2>1. \A v \in 0 .. 2 : [p EXCEPT !.kickTime = v] \in SessionType
      BY <1>1, SetMember
    <2> HIDE DEF q
    <2>2. 0 \in 0 .. 2
      OBVIOUS
    <2> QED
      BY <1>2, <2>1, <2>2, Zenon
  <1>4. /\ q.account = r.account /\ q.inQueue = r.inQueue /\ q.request = r.request
        /\ q.inbox = r.inbox /\ q.recv = r.recv /\ q.socket = r.socket /\ q.state = "ready"
    BY DEF SessionType
  <1>5. q.player = r.player /\ q.recent = r.recent /\ q.logout = r.logout /\ q.save = r.save
    BY DEF SessionType
  <1>6. SetOnline(r) \in {r, q} /\ (r.player = "none" => SetOnline(r) = r)
    BY DEF SetOnline
  <1> HIDE DEF q
  <1> QED
    BY <1>3, <1>4, <1>5, <1>6 DEF Same6

LEMMA InPlaceFacts ==
  ASSUME NEW r \in SessionType
  PROVE  LET q == InPlace(r) IN
         /\ Same6(r, q) /\ q.socket = r.socket /\ q.state = r.state /\ q.player = r.player
         /\ q.recent = r.recent /\ q.logout = r.logout /\ q.save /\ q.kick
  BY DEF InPlace, SessionType, Same6

LEMMA LoggedOutFacts ==
  ASSUME NEW r \in SessionType
  PROVE  LET q == LoggedOut(r) IN
         /\ Same6(r, q) /\ q.socket \in {r.socket, None} /\ q.state \in {r.state, "char selection"}
         /\ q.save = r.save /\ q.recent
         /\ r.recent => q = r
         /\ ~r.recent => q.player = "none" /\ q.logout = 0
  <1>1. CASE r.recent
    BY <1>1 DEF LoggedOut, Same6
  <1>2. CASE ~r.recent
    <2> DEFINE c == IF r.kick THEN None ELSE r.socket
               p1 == [r EXCEPT !.player = "none"]
               p2 == [p1 EXCEPT !.recent = TRUE]
               p3 == [p2 EXCEPT !.logout = 0]
               p4 == [p3 EXCEPT !.socket = c]
               p == [r EXCEPT !.player = "none", !.recent = TRUE, !.logout = 0,
                              !.socket = IF r.kick THEN None ELSE @, !.kick = FALSE]
    <2>1. c \in Maybe(Sockets) /\ c \in {r.socket, None}
      BY DEF SessionType, Maybe
    <2>2. p = [p4 EXCEPT !.kick = FALSE]
      BY Zenon
    <2>3. p1 \in SessionType
      BY SetMember
    <2> HIDE DEF p1, c
    <2>4. p2 \in SessionType
      BY <2>3, SetMember
    <2> HIDE DEF p2
    <2>5. p3 \in SessionType
      <3>1. \A v \in 0 .. 3 : [p2 EXCEPT !.logout = v] \in SessionType
        BY <2>4, SetMember
      <3>2. 0 \in 0 .. 3
        OBVIOUS
      <3> QED
        BY <3>1, <3>2, Zenon
    <2> HIDE DEF p3
    <2>6. p4 \in SessionType
      BY <2>1, <2>5, SetMember
    <2> HIDE DEF p4
    <2>7. p \in SessionType
      BY <2>2, <2>6, SetMember
    <2>8. /\ p.account = r.account /\ p.inQueue = r.inQueue /\ p.request = r.request
          /\ p.inbox = r.inbox /\ p.recv = r.recv
      BY DEF SessionType
    <2>9. /\ p.socket = c /\ p.save = r.save /\ p.player = "none" /\ p.recent = TRUE /\ p.logout = 0
      BY DEF SessionType, c
    <2>10. LoggedOut(r) = SetInCharSelection(p)
      BY <1>2 DEF LoggedOut
    <2> HIDE DEF p
    <2> DEFINE q == SetInCharSelection(p)
    <2>11. /\ Same6(p, q) /\ q.socket = p.socket /\ q.state = "char selection" /\ q.player = p.player
           /\ q.recent = p.recent /\ q.logout = p.logout /\ q.save = p.save
      BY <2>7, SetInCharSelectionFacts
    <2> HIDE DEF q
    <2>12. Same6(r, q)
      BY <2>8, <2>11 DEF Same6
    <2> QED
      BY <1>2, <2>1, <2>9, <2>10, <2>11, <2>12 DEF q
  <1> QED
    BY <1>1, <1>2

LEMMA SetOfflineFacts ==
  ASSUME NEW r \in SessionType
  PROVE  LET q == SetOffline(r) IN
         /\ Same6(r, q) /\ q.socket = None /\ q.state = "offline" /\ q.player = r.player
         /\ q.recent = r.recent
         /\ r.player # "none" => q.logout = 1 /\ q.save
         /\ r.player = "none" => q.logout = r.logout /\ q.save = r.save
  <1>1. ASSUME NEW p \in SessionType
        PROVE  LET q == [p EXCEPT !.socket = None, !.state = "offline"] IN
               /\ Same6(p, q) /\ q.socket = None /\ q.state = "offline" /\ q.player = p.player
               /\ q.recent = p.recent /\ q.logout = p.logout /\ q.save = p.save
    <2> DEFINE p1 == [p EXCEPT !.socket = None]
               q == [p EXCEPT !.socket = None, !.state = "offline"]
    <2>1. p1 \in SessionType
      BY SetMember DEF Maybe
    <2>2. q = [p1 EXCEPT !.state = "offline"]
      BY Zenon
    <2> HIDE DEF p1
    <2>3. q \in SessionType
      BY <2>1, <2>2, SetMember DEF LiveStates
    <2>4. /\ q.account = p.account /\ q.inQueue = p.inQueue /\ q.request = p.request
          /\ q.inbox = p.inbox /\ q.recv = p.recv /\ q.socket = None /\ q.state = "offline"
      BY DEF SessionType
    <2>5. q.player = p.player /\ q.recent = p.recent /\ q.logout = p.logout /\ q.save = p.save
      BY DEF SessionType
    <2> HIDE DEF q
    <2> QED
      BY <2>3, <2>4, <2>5 DEF Same6, q
  <1>2. CASE r.player # "none"
    <2> DEFINE p == LogoutRequest(r, 1, TRUE, FALSE)
    <2>1. 1 \in 0 .. 3 /\ FALSE \in BOOLEAN /\ TRUE \in BOOLEAN
      OBVIOUS
    <2>2. /\ Same6(r, p) /\ p.player = r.player /\ p.recent = r.recent /\ p.logout = 1 /\ p.save = TRUE
      BY <2>1, LogoutRequestFacts
    <2>3. SetOffline(r) = [p EXCEPT !.socket = None, !.state = "offline"]
      BY <1>2 DEF SetOffline
    <2> HIDE DEF p
    <2>4. p \in SessionType
      BY <2>2 DEF Same6
    <2> DEFINE q == [p EXCEPT !.socket = None, !.state = "offline"]
    <2>5. /\ Same6(p, q) /\ q.socket = None /\ q.state = "offline" /\ q.player = p.player
          /\ q.recent = p.recent /\ q.logout = p.logout /\ q.save = p.save
      BY <1>1, <2>4
    <2> HIDE DEF q
    <2>6. SetOffline(r) = q
      BY <2>3 DEF q
    <2> QED
      BY <1>2, <2>2, <2>5, <2>6 DEF Same6
  <1>3. CASE r.player = "none"
    <2>1. SetOffline(r) = [r EXCEPT !.socket = None, !.state = "offline"]
      BY <1>3 DEF SetOffline
    <2> QED
      BY <1>1, <1>3, <2>1
  <1> QED
    BY <1>2, <1>3
-----------------------------------------------------------------------------
(***************************************************************************)
(* Queues of different sessions.                                           *)
(***************************************************************************)
LEMMA ElementsOfAppend ==
  ASSUME NEW S, NEW q \in Seq(S), NEW x \in S
  PROVE  /\ Append(q, x) \in Seq(S)
         /\ Elements(Append(q, x)) = Elements(q) \cup {x}
         /\ Different(q) /\ x \notin Elements(q) => Different(Append(q, x))
  <1>1. Append(q, x) \in Seq(S) /\ Len(q) \in Nat
    OBVIOUS
  <1>2. DOMAIN q = 1 .. Len(q) /\ DOMAIN Append(q, x) = 1 .. Len(q) + 1
    OBVIOUS
  <1>3. /\ \A i \in 1 .. Len(q) : Append(q, x)[i] = q[i]
        /\ Append(q, x)[Len(q) + 1] = x
    OBVIOUS
  <1>4. \A i \in 1 .. Len(q) + 1 : i \in 1 .. Len(q) \/ i = Len(q) + 1
    BY <1>1
  <1>5. Len(q) + 1 \in 1 .. Len(q) + 1 /\ \A i \in 1 .. Len(q) : i \in 1 .. Len(q) + 1
    BY <1>1
  <1>6. Elements(Append(q, x)) \subseteq Elements(q) \cup {x}
    BY <1>2, <1>3, <1>4 DEF Elements
  <1>7. Elements(q) \cup {x} \subseteq Elements(Append(q, x))
    BY <1>2, <1>3, <1>5 DEF Elements
  <1>8. Different(q) /\ x \notin Elements(q) => Different(Append(q, x))
    BY <1>2, <1>3, <1>4 DEF Elements, Different
  <1> QED
    BY <1>1, <1>6, <1>7, <1>8

LEMMA ElementsOfTail ==
  ASSUME NEW S, NEW q \in Seq(S), q # <<>>
  PROVE  /\ Tail(q) \in Seq(S) /\ Head(q) \in S /\ Head(q) \in Elements(q)
         /\ Elements(q) = Elements(Tail(q)) \cup {Head(q)}
         /\ Different(q) => Different(Tail(q)) /\ Head(q) \notin Elements(Tail(q))
  <1>1. Tail(q) \in Seq(S) /\ Head(q) \in S /\ Head(q) = q[1] /\ Len(q) \in Nat /\ Len(q) > 0
    OBVIOUS
  <1>2. DOMAIN q = 1 .. Len(q) /\ DOMAIN Tail(q) = 1 .. Len(q) - 1
    OBVIOUS
  <1>3. \A i \in 1 .. Len(q) - 1 : Tail(q)[i] = q[i + 1]
    OBVIOUS
  <1>4. Elements(Tail(q)) \cup {Head(q)} \subseteq Elements(q)
    BY <1>1, <1>2, <1>3 DEF Elements
  <1>5. ASSUME NEW x \in Elements(q)
        PROVE  x \in Elements(Tail(q)) \cup {Head(q)}
    <2>1. PICK i \in 1 .. Len(q) : q[i] = x
      BY <1>2, <1>5 DEF Elements
    <2>2. CASE i = 1
      BY <1>1, <2>1, <2>2
    <2>3. CASE i # 1
      <3>1. i - 1 \in 1 .. Len(q) - 1 /\ (i - 1) + 1 = i
        BY <1>1, <2>1, <2>3
      <3> QED
        BY <1>2, <1>3, <2>1, <3>1 DEF Elements
    <2> QED
      BY <2>2, <2>3
  <1>6. ASSUME Different(q)
        PROVE  Different(Tail(q)) /\ Head(q) \notin Elements(Tail(q))
    BY <1>1, <1>2, <1>3, <1>6 DEF Different, Elements
  <1>7. Head(q) \in Elements(q)
    BY <1>4
  <1> QED
    BY <1>1, <1>4, <1>5, <1>6, <1>7

LEMMA NoElements ==
  ASSUME NEW S, NEW q \in Seq(S)
  PROVE  /\ Elements(<<>>) = {} /\ Different(<<>>)
         /\ q = <<>> <=> Elements(q) = {}
  BY DEF Elements, Different

\* Without removes one session and keeps the order of the others.
LEMMA WithoutFacts ==
  ASSUME NEW S, NEW q \in Seq(S), NEW s, Different(q)
  PROVE  /\ Without(q, s) \in Seq(S) /\ Different(Without(q, s))
         /\ Elements(Without(q, s)) = Elements(q) \ {s}
  <1> DEFINE p == Without(q, s)
  <1>1. CASE s \notin Elements(q)
    <2>1. Without(q, s) = q
      BY <1>1 DEF Without
    <2> QED
      BY <1>1, <2>1
  <1>2. CASE s \in Elements(q)
    <2> DEFINE place == CHOOSE i \in DOMAIN q : q[i] = s
    <2>1. place \in 1 .. Len(q) /\ q[place] = s
      BY <1>2 DEF Elements
    <2>2. p = [i \in 1 .. Len(q) - 1 |-> IF i < place THEN q[i] ELSE q[i + 1]]
      BY <1>2 DEF Without
    <2> HIDE DEF place, p
    <2>3. Len(q) \in Nat /\ DOMAIN q = 1 .. Len(q) /\ \A i \in 1 .. Len(q) : q[i] \in S
      OBVIOUS
    <2>4. \A i \in 1 .. Len(q) - 1 : (IF i < place THEN q[i] ELSE q[i + 1]) \in S
      BY <2>1, <2>3
    <2>5. Len(q) - 1 \in Nat
      BY <2>1, <2>3
    <2>6. p \in Seq(S) /\ DOMAIN p = 1 .. Len(q) - 1
      BY <2>2, <2>4, <2>5, SeqDef
    <2>7. \A i \in 1 .. Len(q) - 1 : p[i] = IF i < place THEN q[i] ELSE q[i + 1]
      BY <2>2
    <2>8. \A i \in 1 .. Len(q) - 1 : i # place \/ i + 1 # place
      BY <2>1, <2>3
    <2>9. Different(p)
      <3> SUFFICES ASSUME NEW i \in DOMAIN p, NEW j \in DOMAIN p, i # j
                   PROVE  p[i] # p[j]
        BY DEF Different
      <3>1. PICK x \in DOMAIN q : p[i] = q[x] /\ x = IF i < place THEN i ELSE i + 1
        BY <2>1, <2>3, <2>6, <2>7
      <3>2. PICK y \in DOMAIN q : p[j] = q[y] /\ y = IF j < place THEN j ELSE j + 1
        BY <2>1, <2>3, <2>6, <2>7
      <3>3. x # y
        BY <2>1, <2>3, <2>6, <3>1, <3>2
      <3> QED
        BY <3>1, <3>2, <3>3 DEF Different
    <2>10. Elements(p) \subseteq Elements(q) \ {s}
      <3> SUFFICES ASSUME NEW i \in DOMAIN p
                   PROVE  p[i] \in Elements(q) \ {s}
        BY DEF Elements
      <3>1. PICK x \in DOMAIN q : p[i] = q[x] /\ x # place
        BY <2>1, <2>3, <2>6, <2>7
      <3> QED
        BY <2>1, <2>3, <3>1 DEF Different, Elements
    <2>11. Elements(q) \ {s} \subseteq Elements(p)
      <3> SUFFICES ASSUME NEW i \in DOMAIN q, q[i] # s
                   PROVE  q[i] \in Elements(p)
        BY DEF Elements
      <3> DEFINE x == IF i < place THEN i ELSE i - 1
      <3>1. x \in DOMAIN p /\ p[x] = q[i]
        <4>1. CASE i < place
          BY <2>1, <2>3, <2>6, <2>7, <4>1
        <4>2. CASE ~(i < place)
          <5>1. i # place
            BY <2>1
          <5>2. i - 1 \in 1 .. Len(q) - 1 /\ ~(i - 1 < place) /\ (i - 1) + 1 = i
            BY <2>1, <2>3, <4>2, <5>1
          <5> QED
            BY <2>6, <2>7, <4>2, <5>2
        <4> QED
          BY <4>1, <4>2
      <3> QED
        BY <3>1 DEF Elements
    <2> QED
      BY <2>6, <2>9, <2>10, <2>11 DEF p
  <1> QED
    BY <1>1, <1>2

\* Whoever is ahead of the first of the others is the one who left.
LEMMA FirstWithout ==
  ASSUME NEW S, NEW q \in Seq(S), NEW s, Different(q), Without(q, s) # <<>>,
         NEW i \in DOMAIN q, NEW j \in DOMAIN q, i < j, q[j] = Head(Without(q, s))
  PROVE  q[i] = s
  <1>1. Len(q) \in Nat /\ DOMAIN q = 1 .. Len(q)
    OBVIOUS
  <1>2. CASE s \notin Elements(q)
    <2>1. q[j] = q[1]
      BY <1>2 DEF Without
    <2> QED
      BY <1>1, <2>1 DEF Different
  <1>3. CASE s \in Elements(q)
    <2> DEFINE place == CHOOSE x \in DOMAIN q : q[x] = s
               p == [x \in 1 .. Len(q) - 1 |-> IF x < place THEN q[x] ELSE q[x + 1]]
    <2>1. place \in 1 .. Len(q) /\ q[place] = s
      BY <1>3 DEF Elements
    <2>2. Without(q, s) = p
      BY <1>3 DEF Without
    <2> HIDE DEF place
    <2>3. 1 \in 1 .. Len(q) - 1
      BY <1>1
    <2>4. q[j] = IF 1 < place THEN q[1] ELSE q[1 + 1]
      BY <2>2, <2>3
    <2>5. 1 \in DOMAIN q /\ 1 + 1 \in DOMAIN q
      BY <1>1, <2>3
    <2>6. j = IF 1 < place THEN 1 ELSE 1 + 1
      BY <2>4, <2>5 DEF Different
    <2>7. i = place
      BY <1>1, <2>1, <2>6
    <2> QED
      BY <2>1, <2>7
  <1> QED
    BY <1>2, <1>3

\* A queue of different sessions is as long as it has elements.
LEMMA LengthIsNumber ==
  ASSUME NEW S, NEW q \in Seq(S), Different(q)
  PROVE  IsFiniteSet(Elements(q)) /\ Cardinality(Elements(q)) = Len(q)
  <1>1. Len(q) \in Nat /\ DOMAIN q = 1 .. Len(q)
    OBVIOUS
  <1>2. IsFiniteSet(1 .. Len(q)) /\ Cardinality(1 .. Len(q)) = Len(q)
    BY <1>1, FS_Interval
  <1> DEFINE f == [i \in 1 .. Len(q) |-> q[i]]
  <1>3. f \in Bijection(1 .. Len(q), Elements(q))
    <2>1. f \in [1 .. Len(q) -> Elements(q)]
      BY <1>1 DEF Elements
    <2>2. \A i, j \in 1 .. Len(q) : f[i] = f[j] => i = j
      BY <1>1 DEF Different
    <2>3. \A x \in Elements(q) : \E i \in 1 .. Len(q) : f[i] = x
      BY <1>1 DEF Elements
    <2> QED
      BY <2>1, <2>2, <2>3 DEF Bijection, Injection, Surjection, IsInjective
  <1> QED
    BY <1>2, <1>3, FS_Bijection DEF ExistsBijection
-----------------------------------------------------------------------------
(***************************************************************************)
(* Where the sessions are.                                                 *)
(***************************************************************************)
\* A session is on its way to the world thread or registered for its account,
\* not both, and a connection that has not been used has none.
Homes ==
    /\ \A a \in Registered : session[sessions[a]].account = a /\ Live(sessions[a])
    /\ \A s \in Coming : /\ Live(s) /\ session[s].account \in Accounts
                         /\ \A a \in Accounts : sessions[a] # s
    /\ Different(addQueue) /\ Different(adding)
    /\ Elements(addQueue) \cap Elements(adding) = {}
    /\ \A k \in Sockets : sock[k].state = "idle" => session[k].state = "none"

\* The session that is updated is registered, as are those to be updated.
Turn ==
    /\ wpc # "add" => adding = <<>>
    /\ todo \subseteq Registered
    /\ Updating => /\ wcur \in Sockets /\ session[wcur].account \in Accounts
                   /\ sessions[session[wcur].account] = wcur
                   /\ session[wcur].account \notin todo
    /\ ~Updating => wcur = None
    /\ wpc # "packets" => batch = <<>>

\* Every socket a session holds or is offered routes to that session as long
\* as it is open.
Routed == \A s \in Sockets : \A c \in Refs(session[s]) :
              sock[c].state # "idle" /\ (sock[c].state = "open" => sock[c].session = s)

\* The queue holds registered sessions: those that are told to wait.
Waits(a) == sessions[a] \in Elements(waiting)
Queued ==
    /\ Different(waiting)
    /\ Elements(waiting) \subseteq {sessions[a] : a \in Registered}
    /\ ~stopping => \A a \in Registered : session[sessions[a]].inQueue <=> Waits(a)

\* Those who are not in the queue are no more than the limit, and no fewer
\* when somebody waits.
Through == {a \in Registered : ~Waits(a)}
Limited ==
    PlayerLimit > 0 /\ ~stopping =>
        /\ Cardinality(Through \cap Players) <= PlayerLimit
        /\ waiting # <<>> => Cardinality(Through) >= PlayerLimit

Served == Types /\ Homes /\ Turn /\ Routed /\ Queued /\ Limited
-----------------------------------------------------------------------------
(***************************************************************************)
(* Steps that move no session: they do little to the members of each one,  *)
(* and only ever close sockets.                                            *)
(***************************************************************************)
Gentle ==
    /\ session' \in [Sockets -> SessionType]
    /\ \A s \in Sockets : Mild(session[s], session'[s])
    /\ sock' \in [Sockets -> [state : {"idle", "open", "closed"}, session : Maybe(Sockets)]]
    /\ \A c \in Sockets : sock'[c] = sock[c] \/ sock'[c].state = "closed"

LEMMA MildItself ==
  ASSUME NEW r \in SessionType
  PROVE  Mild(r, r)
  BY DEF Mild

LEMMA OneMild ==
  ASSUME Types, NEW x \in Sockets, NEW q, Mild(session[x], q),
         session' = [session EXCEPT ![x] = q]
  PROVE  /\ session' \in [Sockets -> SessionType]
         /\ \A s \in Sockets : Mild(session[s], session'[s])
  <1>1. session \in [Sockets -> SessionType] /\ q \in SessionType
    BY DEF Types, Mild
  <1>2. \A s \in Sockets : session'[s] = IF s = x THEN q ELSE session[s]
    BY <1>1
  <1>3. session' \in [Sockets -> SessionType]
    BY <1>1
  <1> QED
    BY <1>1, <1>2, <1>3, MildItself

LEMMA NoneMild ==
  ASSUME Types, session' = session
  PROVE  /\ session' \in [Sockets -> SessionType]
         /\ \A s \in Sockets : Mild(session[s], session'[s])
  BY MildItself DEF Types

LEMMA RefsAreSockets ==
  ASSUME NEW r \in SessionType
  PROVE  Refs(r) \subseteq Sockets
  <1>1. r.socket \in Maybe(Sockets) /\ r.request \in Maybe(Sockets) /\ r.inbox \in Seq(Sockets)
    BY DEF SessionType
  <1>2. \A i \in DOMAIN r.inbox : r.inbox[i] \in Sockets
    BY <1>1
  <1> QED
    BY <1>1, <1>2 DEF Refs, Maybe, Elements

LEMMA GentleHomes ==
  ASSUME Types, Homes, Routed, Gentle, UNCHANGED <<addQueue, adding, sessions>>
  PROVE  Homes' /\ Routed'
  <1>1. Registered' = Registered /\ Coming' = Coming
    BY DEF Registered, Coming, Elements
  <1>2. /\ \A a \in Registered : sessions[a] \in Sockets
        /\ \A s \in Coming : s \in Sockets
    BY DEF Types, Registered, Coming, Elements, Maybe
  <1>3. \A s \in Sockets :
            /\ session'[s].account = session[s].account
            /\ session'[s].state = session[s].state
                 \/ (session[s].state \in LiveStates /\ session'[s].state \in LiveStates)
    BY DEF Gentle, Mild
  <1>4. \A s \in Sockets : Live(s) => Live(s)'
    BY <1>3 DEF Live, LiveStates
  <1>5. \A a \in Registered' : session'[sessions'[a]].account = a /\ Live(sessions[a])'
    BY <1>1, <1>2, <1>3, <1>4 DEF Homes
  <1>6. \A s \in Coming' : /\ Live(s)' /\ session'[s].account \in Accounts
                           /\ \A a \in Accounts : sessions'[a] # s
    BY <1>1, <1>2, <1>3, <1>4 DEF Homes
  <1>7. \A k \in Sockets : sock'[k].state = "idle" => session'[k].state = "none"
    <2> SUFFICES ASSUME NEW k \in Sockets, sock'[k].state = "idle"
                 PROVE  session'[k].state = "none"
      OBVIOUS
    <2>1. sock[k].state = "idle"
      BY DEF Gentle
    <2>2. session[k].state = "none"
      BY <2>1 DEF Homes
    <2> QED
      BY <1>3, <2>2 DEF LiveStates
  <1>8. Homes'
    BY <1>5, <1>6, <1>7 DEF Homes, Different, Elements
  <1>9. Routed'
    <2> SUFFICES ASSUME NEW s \in Sockets, NEW c \in Refs(session'[s])
                 PROVE  sock'[c].state # "idle" /\ (sock'[c].state = "open" => sock'[c].session = s)
      BY DEF Routed
    <2>1. c \in Refs(session[s])
      BY DEF Gentle, Mild
    <2>2. c \in Sockets
      <3>1. session[s] \in SessionType
        BY DEF Types
      <3> QED
        BY <2>1, <3>1, RefsAreSockets
    <2>3. sock[c].state # "idle" /\ (sock[c].state = "open" => sock[c].session = s)
      BY <2>1 DEF Routed
    <2> QED
      BY <2>2, <2>3 DEF Gentle
  <1> QED
    BY <1>8, <1>9

LEMMA GentleQueue ==
  ASSUME Types, Queued, Limited, Gentle, UNCHANGED <<sessions, waiting, stopping>>
  PROVE  Queued' /\ Limited'
  <1>1. Registered' = Registered /\ Elements(waiting)' = Elements(waiting)
    BY DEF Registered, Elements
  <1>2. \A a \in Registered : sessions[a] \in Sockets
    BY DEF Types, Registered, Maybe
  <1>3. \A s \in Sockets : session'[s].inQueue = session[s].inQueue
    BY DEF Gentle, Mild
  <1>4. Queued'
    BY <1>1, <1>2, <1>3 DEF Queued, Different, Waits
  <1>5. Through' = Through
    BY <1>1 DEF Through, Waits
  <1>6. Limited'
    BY <1>5 DEF Limited
  <1> QED
    BY <1>4, <1>6

\* The session that is updated stays where it is.
LEMMA GentleTurn ==
  ASSUME Types, Turn, Gentle, UNCHANGED <<sessions, todo, wcur, adding>>,
         wpc' = "add" <=> wpc = "add", Updating' <=> Updating,
         wpc' # "packets" => batch' = <<>>
  PROVE  Turn'
  <1>1. Registered' = Registered
    BY DEF Registered
  <1>2. \A s \in Sockets : session'[s].account = session[s].account
    BY DEF Gentle, Mild
  <1> QED
    BY <1>1, <1>2 DEF Turn

LEMMA ClosingSockets ==
  ASSUME Types, NEW c \in Maybe(Sockets), sock' \in {sock, Closing(c), Finalizing(c)}
  PROVE  /\ sock' \in [Sockets -> [state : {"idle", "open", "closed"}, session : Maybe(Sockets)]]
         /\ \A k \in Sockets : sock'[k] = sock[k] \/ sock'[k].state = "closed"
  <1> DEFINE Kinds == [state : {"idle", "open", "closed"}, session : Maybe(Sockets)]
  <1>1. sock \in [Sockets -> Kinds]
    BY DEF Types
  <1>2. CASE sock' = sock
    BY <1>1, <1>2
  <1>3. CASE c = None
    BY <1>1, <1>3 DEF Closing, Finalizing
  <1>4. CASE c # None /\ sock' = Closing(c)
    <2>1. c \in Sockets /\ sock' = [sock EXCEPT ![c].state = "closed"]
      BY <1>4 DEF Closing, Maybe
    <2>2. [sock[c] EXCEPT !.state = "closed"] \in Kinds
      BY <1>1, <2>1
    <2>3. [sock[c] EXCEPT !.state = "closed"].state = "closed"
      BY <1>1, <2>1
    <2>4. \A k \in Sockets : sock'[k] = IF k = c THEN [sock[c] EXCEPT !.state = "closed"] ELSE sock[k]
      BY <1>1, <2>1
    <2> HIDE DEF Kinds
    <2>5. sock' \in [Sockets -> Kinds]
      BY <1>1, <2>1, <2>2
    <2> QED
      BY <2>3, <2>4, <2>5 DEF Kinds
  <1>5. CASE c # None /\ sock' = Finalizing(c)
    <2>1. c \in Sockets /\ sock' = [sock EXCEPT ![c] = [state |-> "closed", session |-> None]]
      BY <1>5 DEF Finalizing, Maybe
    <2>2. [state |-> "closed", session |-> None] \in Kinds
      BY DEF Maybe
    <2>3. \A k \in Sockets : sock'[k] = IF k = c THEN [state |-> "closed", session |-> None] ELSE sock[k]
      BY <1>1, <2>1
    <2> HIDE DEF Kinds
    <2>4. sock' \in [Sockets -> Kinds]
      BY <1>1, <2>1, <2>2
    <2> QED
      BY <2>3, <2>4 DEF Kinds
  <1> QED
    BY <1>2, <1>3, <1>4, <1>5

\* What remains to be shown of a step that moves no session.
Quiet ==
    /\ Gentle
    /\ UNCHANGED <<addQueue, adding, sessions, waiting, stopping>>
    /\ batch' \in Seq(Packet) /\ logins' \in Seq(Accounts) /\ dirty' \in [Accounts -> BOOLEAN]
    /\ todo' \subseteq Accounts /\ wcur' \in Maybe(Sockets)

LEMMA QuietStep ==
  ASSUME Served, Quiet, Turn'
  PROVE  Served'
  <1>1. Types'
    BY DEF Served, Types, Quiet, Gentle
  <1>2. Homes' /\ Routed'
    BY GentleHomes DEF Served, Quiet
  <1>3. Queued' /\ Limited'
    BY GentleQueue DEF Served, Quiet
  <1> QED
    BY <1>1, <1>2, <1>3 DEF Served

LEMMA MildTwice ==
  ASSUME NEW r \in SessionType, NEW p, NEW q, Mild(r, p), Mild(p, q)
  PROVE  Mild(r, q)
  BY DEF Mild

\* One operation after another, on the members of a session that is alive.
LEMMA MildOperations ==
  ASSUME NEW r \in SessionType, r.state \in LiveStates
  PROVE  /\ Mild(r, SetInCharSelection(r)) /\ Mild(r, SetOnline(r)) /\ Mild(r, LoggedOut(r))
         /\ Mild(r, SetOffline(r)) /\ Mild(r, KickPlayer(r)) /\ Mild(r, InPlace(r))
         /\ \A time \in 0 .. 3, save, kick \in BOOLEAN : Mild(r, LogoutRequest(r, time, save, kick))
         /\ \A v \in BOOLEAN : Mild(r, [r EXCEPT !.recent = v])
         /\ \A v \in {"none", "world", "failed"} : Mild(r, [r EXCEPT !.player = v])
  <1>1. Mild(r, SetInCharSelection(r))
    BY SetInCharSelectionFacts, KeptIsMild DEF LiveStates
  <1>2. Mild(r, SetOnline(r))
    BY SetOnlineFacts, KeptIsMild DEF LiveStates
  <1>3. Mild(r, LoggedOut(r))
    BY LoggedOutFacts, KeptIsMild DEF LiveStates
  <1>4. Mild(r, SetOffline(r))
    BY SetOfflineFacts, KeptIsMild DEF LiveStates
  <1>5. Mild(r, KickPlayer(r))
    BY KickPlayerFacts, KeptIsMild
  <1>6. Mild(r, InPlace(r))
    BY InPlaceFacts, KeptIsMild
  <1>7. \A time \in 0 .. 3, save, kick \in BOOLEAN : Mild(r, LogoutRequest(r, time, save, kick))
    BY LogoutRequestFacts, KeptIsMild
  <1>8. ASSUME NEW v \in BOOLEAN
        PROVE  Mild(r, [r EXCEPT !.recent = v])
    <2> DEFINE q == [r EXCEPT !.recent = v]
    <2>1. q \in SessionType
      BY SetMember
    <2>2. /\ q.account = r.account /\ q.inQueue = r.inQueue /\ q.request = r.request
          /\ q.inbox = r.inbox /\ q.recv = r.recv /\ q.socket = r.socket /\ q.state = r.state
      BY DEF SessionType
    <2> HIDE DEF q
    <2>3. Mild(r, q)
      BY <2>1, <2>2, KeptIsMild DEF Same6
    <2> QED
      BY <2>3 DEF q
  <1>9. ASSUME NEW v \in {"none", "world", "failed"}
        PROVE  Mild(r, [r EXCEPT !.player = v])
    <2> DEFINE q == [r EXCEPT !.player = v]
    <2>1. q \in SessionType
      BY SetMember
    <2>2. /\ q.account = r.account /\ q.inQueue = r.inQueue /\ q.request = r.request
          /\ q.inbox = r.inbox /\ q.recv = r.recv /\ q.socket = r.socket /\ q.state = r.state
      BY DEF SessionType
    <2> HIDE DEF q
    <2>3. Mild(r, q)
      BY <2>1, <2>2, KeptIsMild DEF Same6
    <2> QED
      BY <2>3 DEF q
  <1> QED
    BY <1>1, <1>2, <1>3, <1>4, <1>5, <1>6, <1>7, <1>8, <1>9

\* The session that is updated is alive.
LEMMA CurrentSession ==
  ASSUME Served, Updating
  PROVE  /\ wcur \in Sockets /\ session[wcur] \in SessionType /\ session[wcur].state \in LiveStates
         /\ session[wcur].account \in Registered /\ sessions[session[wcur].account] = wcur
  <1>1. /\ wcur \in Sockets /\ session[wcur].account \in Accounts
        /\ sessions[session[wcur].account] = wcur
    BY DEF Served, Turn
  <1>2. session[wcur] \in SessionType
    BY <1>1 DEF Served, Types
  <1>3. session[wcur].account \in Registered
    BY <1>1, SessionsAssumption DEF Registered
  <1>4. Live(wcur)
    BY <1>1, <1>3 DEF Served, Homes
  <1>5. session[wcur].state \in LiveStates
    <2>1. session[wcur].state \in {"none", "created", "char selection", "ready", "offline", "destroyed"}
      BY <1>2 DEF SessionType
    <2> QED
      BY <1>4, <2>1 DEF Live, LiveStates
  <1> QED
    BY <1>1, <1>2, <1>3, <1>5

LEMMA QueuePacketServes ==
  ASSUME Served, NEW k \in Sockets, NEW p \in Packet, QueuePacket(k, p)
  PROVE  Served'
  <1> DEFINE s == sock[k].session
             r == session[s]
             q == [r EXCEPT !.recv = Append(r.recv, p)]
  <1>1. s \in Sockets
    BY DEF QueuePacket, Served, Types, Maybe
  <1>2. r \in SessionType
    BY <1>1 DEF Served, Types
  <1>3. q \in SessionType
    <2>1. Append(r.recv, p) \in Seq(Packet)
      <3>1. r.recv \in Seq(Packet)
        BY <1>2 DEF SessionType
      <3> QED
        BY <3>1
    <2> QED
      BY <1>2, <2>1, SetMember
  <1>4. Mild(r, q)
    <2>1. /\ q.account = r.account /\ q.inQueue = r.inQueue /\ q.request = r.request
          /\ q.inbox = r.inbox /\ q.socket = r.socket /\ q.state = r.state
      BY <1>2 DEF SessionType
    <2> HIDE DEF q
    <2> QED
      BY <1>3, <2>1 DEF Mild, Refs
  <1>5. session' = [session EXCEPT ![s] = q]
    BY DEF QueuePacket
  <1> HIDE DEF q, r, s
  <1>6. Gentle
    BY <1>1, <1>4, <1>5, OneMild DEF QueuePacket, Gentle, Served, Types, r
  <1>7. /\ UNCHANGED <<sessions, todo, wcur, adding, wpc, batch>>
        /\ UNCHANGED <<addQueue, waiting, stopping, logins, dirty>>
    BY DEF QueuePacket, tick, characters
  <1>8. Turn'
    BY <1>6, <1>7, GentleTurn DEF Served, Turn, Updating
  <1> QED
    BY <1>6, <1>7, <1>8, QuietStep DEF Quiet, Served, Types

LEMMA CloseSocketServes ==
  ASSUME Served, NEW k \in Sockets, CloseSocket(k)
  PROVE  Served'
  <1>1. k \in Maybe(Sockets)
    BY DEF Maybe
  <1>2. Gentle
    BY <1>1, NoneMild, ClosingSockets DEF CloseSocket, Gentle, Served
  <1>3. /\ UNCHANGED <<sessions, todo, wcur, adding, wpc, batch>>
        /\ UNCHANGED <<addQueue, waiting, stopping, logins, dirty>>
    BY DEF CloseSocket, tick, characters
  <1>4. Turn'
    BY <1>2, <1>3, GentleTurn DEF Served, Turn, Updating
  <1> QED
    BY <1>2, <1>3, <1>4, QuietStep DEF Quiet, Served, Types

LEMMA TimersServe ==
  ASSUME Served, NEW k \in Sockets, LogoutTimer(k) \/ KickTimer(k)
  PROVE  Served'
  <1> DEFINE r == session[k]
  <1>1. r \in SessionType
    BY DEF Served, Types
  <1>2. PICK q : Mild(r, q) /\ session' = [session EXCEPT ![k] = q]
    <2>1. CASE LogoutTimer(k)
      <3> DEFINE q == [r EXCEPT !.logout = r.logout + 1]
      <3>1. r.logout + 1 \in 0 .. 3
        BY <2>1 DEF LogoutTimer
      <3>2. q \in SessionType
        <4>1. \A v \in 0 .. 3 : [r EXCEPT !.logout = v] \in SessionType
          BY <1>1, SetMember
        <4> QED
          BY <3>1, <4>1, Zenon
      <3>3. /\ q.account = r.account /\ q.inQueue = r.inQueue /\ q.request = r.request
            /\ q.inbox = r.inbox /\ q.socket = r.socket /\ q.state = r.state
        BY <1>1 DEF SessionType
      <3>4. session' = [session EXCEPT ![k] = q]
        BY <2>1 DEF LogoutTimer
      <3> HIDE DEF q, r
      <3>5. Mild(r, q)
        BY <3>2, <3>3 DEF Mild, Refs
      <3> QED
        BY <3>4, <3>5
    <2>2. CASE KickTimer(k)
      <3> DEFINE q == [r EXCEPT !.kickTime = 2]
      <3>1. q \in SessionType
        <4>1. \A v \in 0 .. 2 : [r EXCEPT !.kickTime = v] \in SessionType
          BY <1>1, SetMember
        <4>2. 2 \in 0 .. 2
          OBVIOUS
        <4> QED
          BY <4>1, <4>2, Zenon
      <3>2. /\ q.account = r.account /\ q.inQueue = r.inQueue /\ q.request = r.request
            /\ q.inbox = r.inbox /\ q.socket = r.socket /\ q.state = r.state
        BY <1>1 DEF SessionType
      <3>3. session' = [session EXCEPT ![k] = q]
        BY <2>2 DEF KickTimer
      <3> HIDE DEF q, r
      <3>4. Mild(r, q)
        BY <3>1, <3>2 DEF Mild, Refs
      <3> QED
        BY <3>3, <3>4
    <2> QED
      BY <2>1, <2>2
  <1>3. UNCHANGED <<sock, sessions, todo, wcur, adding, wpc, batch>>
    BY DEF LogoutTimer, KickTimer, tick
  <1>4. UNCHANGED <<addQueue, waiting, stopping, logins, dirty>>
    BY DEF LogoutTimer, KickTimer, tick, characters
  <1>5. Gentle
    BY <1>2, <1>3, OneMild DEF Gentle, Served, Types
  <1>6. Turn'
    BY <1>3, <1>5, GentleTurn DEF Served, Turn, Updating
  <1> QED
    BY <1>3, <1>4, <1>5, <1>6, QuietStep DEF Quiet, Served, Types

LEMMA AllAddedServes ==
  ASSUME Served, AllAdded
  PROVE  Served'
  <1>1. /\ UNCHANGED <<sock, session, addQueue, sessions, waiting, adding, wcur, batch, stopping>>
        /\ UNCHANGED <<logins, dirty>>
    BY DEF AllAdded, characters
  <1>2. Gentle
    BY <1>1, NoneMild DEF Gentle, Served, Types
  <1>3. wpc = "add" /\ wpc' = "update" /\ todo' = Registered /\ adding = <<>>
    BY DEF AllAdded
  <1>4. Turn'
    BY <1>1, <1>3 DEF Turn, Served, Registered, Updating
  <1>5. todo' \subseteq Accounts
    BY <1>3 DEF Registered
  <1> QED
    BY <1>1, <1>2, <1>4, <1>5, QuietStep DEF Quiet, Served, Types

LEMMA ExecuteMessagesServes ==
  ASSUME Served, NEW a \in Accounts, ExecuteMessages(a)
  PROVE  Served'
  <1> DEFINE s == sessions[a]
             r == session[s]
  <1>1. wpc = "update" /\ a \in todo /\ wcur' = s /\ todo' = todo \ {a} /\ wpc' = "take"
    BY DEF ExecuteMessages
  <1>2. a \in Registered /\ s \in Sockets /\ r.account = a /\ r \in SessionType
    BY <1>1 DEF Served, Turn, Types, Homes, Registered, Maybe
  <1>3. r.state \in LiveStates
    <2>1. r.state \in {"none", "created", "char selection", "ready", "offline", "destroyed"}
      BY <1>2 DEF SessionType
    <2> QED
      BY <1>2, <2>1 DEF Served, Homes, Live, LiveStates
  <1>4. PICK q : Mild(r, q) /\ session' = [session EXCEPT ![s] = q]
    <2> DEFINE p == [r EXCEPT !.inbox = <<>>]
    <2>1. p \in SessionType
      <3>1. <<>> \in Seq(Sockets)
        OBVIOUS
      <3> QED
        BY <1>2, <3>1, SetMember
    <2>2. /\ p.account = r.account /\ p.inQueue = r.inQueue /\ p.request = r.request
          /\ p.inbox = <<>> /\ p.socket = r.socket /\ p.state = r.state
      BY <1>2 DEF SessionType
    <2>3. Elements(<<>>) = {}
      BY DEF Elements
    <2>4. CASE r.inbox # <<>> /\ r.request = None
      <3> DEFINE h == Head(r.inbox)
                 p1 == [p EXCEPT !.request = h]
                 q == [r EXCEPT !.inbox = <<>>, !.request = Head(r.inbox), !.state = "created"]
      <3>1. r.inbox \in Seq(Sockets)
        BY <1>2 DEF SessionType
      <3>2. h \in Sockets /\ h \in Elements(r.inbox)
        BY <2>4, <3>1, ElementsOfTail
      <3>3. session' = [session EXCEPT ![s] = q]
        BY <2>4 DEF ExecuteMessages
      <3>4. q = [p1 EXCEPT !.state = "created"]
        BY Zenon
      <3>5. /\ q.account = r.account /\ q.inQueue = r.inQueue /\ q.request = h
            /\ q.inbox = <<>> /\ q.socket = r.socket /\ q.state = "created"
        BY <1>2 DEF SessionType
      <3> HIDE DEF p, h
      <3>6. p1 \in SessionType
        BY <2>1, <3>2, SetMember DEF Maybe
      <3> HIDE DEF p1
      <3>7. q \in SessionType
        BY <3>4, <3>6, SetMember DEF LiveStates
      <3> HIDE DEF q
      <3>8. Refs(q) \subseteq Refs(r)
        BY <2>3, <3>2, <3>5 DEF Refs
      <3>9. Mild(r, q)
        BY <1>3, <3>5, <3>7, <3>8 DEF Mild, LiveStates
      <3> QED
        BY <3>3, <3>9
    <2>5. CASE ~(r.inbox # <<>> /\ r.request = None)
      <3>1. session' = [session EXCEPT ![s] = p]
        BY <2>5 DEF ExecuteMessages
      <3> HIDE DEF p
      <3>2. Mild(r, p)
        BY <2>1, <2>2, <2>3 DEF Mild, Refs
      <3> QED
        BY <3>1, <3>2
    <2> QED
      BY <2>4, <2>5
  <1>5. UNCHANGED <<sock, addQueue, sessions, waiting, adding, batch, stopping, logins, dirty>>
    BY DEF ExecuteMessages, characters
  <1>6. Gentle
    BY <1>2, <1>4, <1>5, OneMild DEF Gentle, Served, Types
  <1>7. session'[s].account = a
    BY <1>2, <1>6 DEF Gentle, Mild
  <1>8. Turn'
    <2>1. batch' = <<>> /\ adding' = <<>>
      BY <1>1, <1>5 DEF Served, Turn
    <2>2. todo' \subseteq Registered'
      BY <1>1, <1>5 DEF Served, Turn, Registered
    <2>3. wcur' \in Sockets /\ session'[wcur'].account = a /\ sessions'[a] = wcur' /\ a \notin todo'
      BY <1>1, <1>2, <1>5, <1>7
    <2> QED
      BY <1>1, <2>1, <2>2, <2>3 DEF Turn, Updating
  <1>9. todo' \subseteq Accounts /\ wcur' \in Maybe(Sockets)
    BY <1>1, <1>2 DEF Served, Types, Maybe
  <1> QED
    BY <1>5, <1>6, <1>8, <1>9, QuietStep DEF Quiet, Served, Types

LEMMA TakePacketsServes ==
  ASSUME Served, TakePackets
  PROVE  Served'
  <1> DEFINE r == session[wcur]
             q == [r EXCEPT !.recv = <<>>]
  <1>1. wpc = "take" /\ wpc' = "packets" /\ batch' = r.recv
    BY DEF TakePackets
  <1>2. Updating /\ Updating'
    BY <1>1 DEF Updating
  <1>3. wcur \in Sockets /\ r \in SessionType
    BY <1>2, CurrentSession
  <1>4. q \in SessionType
    <2>1. <<>> \in Seq(Packet)
      OBVIOUS
    <2> QED
      BY <1>3, <2>1, SetMember
  <1>5. /\ q.account = r.account /\ q.inQueue = r.inQueue /\ q.request = r.request
        /\ q.inbox = r.inbox /\ q.socket = r.socket /\ q.state = r.state
    BY <1>3 DEF SessionType
  <1>6. session' = [session EXCEPT ![wcur] = q]
    BY DEF TakePackets
  <1>7. batch' \in Seq(Packet)
    BY <1>1, <1>3 DEF SessionType
  <1> HIDE DEF q, r
  <1>8. Mild(r, q)
    BY <1>4, <1>5 DEF Mild, Refs
  <1>9. UNCHANGED <<sock, addQueue, sessions, waiting, adding, todo, wcur, stopping, logins, dirty>>
    BY DEF TakePackets, characters
  <1>10. Gentle
    BY <1>3, <1>6, <1>8, <1>9, OneMild DEF Gentle, Served, Types, r
  <1>11. Turn'
    BY <1>1, <1>2, <1>9, <1>10, GentleTurn DEF Served
  <1> QED
    BY <1>7, <1>9, <1>10, <1>11, QuietStep DEF Quiet, Served, Types

\* A step of the tick that ends no session and changes none.
LEMMA PassServes ==
  ASSUME Served, UNCHANGED <<sock, session, addQueue, sessions, waiting, adding, todo, wcur,
                             stopping>>,
         wpc' = "add" <=> wpc = "add", Updating' <=> Updating,
         wpc' # "packets" => batch' = <<>>, batch' \in Seq(Packet), logins' \in Seq(Accounts),
         dirty' \in [Accounts -> BOOLEAN]
  PROVE  Served'
  <1>1. Gentle
    BY NoneMild DEF Gentle, Served, Types
  <1>2. Turn'
    BY <1>1, GentleTurn DEF Served
  <1> QED
    BY <1>1, <1>2, QuietStep DEF Quiet, Served, Types

LEMMA PassingSteps ==
  ASSUME Served, PacketsDone \/ AllUpdated \/ UpdateMaps \/ NoMoreResults \/ EndTick
  PROVE  Served'
  <1>1. CASE PacketsDone
    <2>1. <<>> \in Seq(Packet)
      OBVIOUS
    <2> QED
      BY <1>1, <2>1, PassServes DEF PacketsDone, characters, Updating, Served, Types
  <1>2. CASE AllUpdated
    BY <1>2, PassServes DEF AllUpdated, characters, Updating, Served, Types, Turn
  <1>3. CASE UpdateMaps
    <2>1. dirty' \in [Accounts -> BOOLEAN]
      <3>1. PICK changed \in SUBSET {a \in Accounts : online[a] > 0} :
                dirty' = [a \in Accounts |-> IF online[a] > 0 THEN a \in changed ELSE dirty[a]]
        BY <1>3 DEF UpdateMaps
      <3>2. dirty \in [Accounts -> BOOLEAN]
        BY DEF Served, Types
      <3>3. ASSUME NEW a \in Accounts
            PROVE  (IF online[a] > 0 THEN a \in changed ELSE dirty[a]) \in BOOLEAN
        <4>1. dirty[a] \in BOOLEAN
          BY <3>2
        <4>2. (a \in changed) \in BOOLEAN
          OBVIOUS
        <4> QED
          BY <4>1, <4>2, Zenon
      <3> QED
        BY <3>1, <3>3, Zenon
    <2> QED
      BY <1>3, <2>1, PassServes DEF UpdateMaps, Updating, Served, Types, Turn
  <1>4. CASE NoMoreResults
    BY <1>4, PassServes DEF NoMoreResults, characters, Updating, Served, Types, Turn
  <1>5. CASE EndTick
    BY <1>5, PassServes DEF EndTick, characters, Updating, Served, Types, Turn
  <1> QED
    BY <1>1, <1>2, <1>3, <1>4, <1>5

\* A step of the update of the session of the account, which lives on.
Leaving == dirty' \in [Accounts -> BOOLEAN]

LEMMA LogoutPlayerIsGentle ==
  ASSUME Served, Updating, LogoutPlayer(wcur)
  PROVE  Gentle /\ Leaving
  <1> DEFINE r == session[wcur]
  <1>1. wcur \in Sockets /\ r \in SessionType /\ r.state \in LiveStates
    BY CurrentSession
  <1>2. session' = [session EXCEPT ![wcur] = LoggedOut(r)]
    BY DEF LogoutPlayer
  <1>3. Mild(r, LoggedOut(r))
    BY <1>1, MildOperations
  <1>4. r.socket \in Maybe(Sockets)
    BY <1>1 DEF SessionType
  <1>5. sock' \in {sock, Closing(r.socket)}
    BY DEF LogoutPlayer
  <1>6. Gentle
    <2>1. /\ session' \in [Sockets -> SessionType]
          /\ \A s \in Sockets : Mild(session[s], session'[s])
      BY <1>1, <1>2, <1>3, OneMild DEF Served
    <2>2. /\ sock' \in [Sockets -> [state : {"idle", "open", "closed"}, session : Maybe(Sockets)]]
          /\ \A k \in Sockets : sock'[k] = sock[k] \/ sock'[k].state = "closed"
      BY <1>4, <1>5, ClosingSockets DEF Served
    <2> QED
      BY <2>1, <2>2 DEF Gentle
  <1>7. dirty' \in {dirty, [dirty EXCEPT ![r.account] = FALSE]}
    BY DEF LogoutPlayer, Unload
  <1>8. Leaving
    BY <1>7 DEF Leaving, Served, Types
  <1> QED
    BY <1>6, <1>8

\* The login of a character changes the members of the session only.
LEMMA HandlePlayerLoginIsMild ==
  ASSUME Served, Updating, HandlePlayerLogin(session[wcur])
  PROVE  /\ session' \in [Sockets -> SessionType]
         /\ \A s \in Sockets : Mild(session[s], session'[s])
         /\ logins' \in Seq(Accounts)
  <1> DEFINE r == session[wcur]
             authed == [r EXCEPT !.recent = FALSE]
             back == SetOnline(LogoutRequest(authed, 0, TRUE, FALSE))
  <1>1. wcur \in Sockets /\ r \in SessionType /\ r.state \in LiveStates /\ r.account \in Registered
    BY CurrentSession
  <1>2. \/ session' = session
        \/ session' = [session EXCEPT ![wcur] = authed]
        \/ session' = [session EXCEPT ![wcur] = back]
    BY DEF HandlePlayerLogin
  <1>3. logins' \in {logins, Append(logins, r.account)}
    BY DEF HandlePlayerLogin
  <1>4. Mild(r, authed)
    BY <1>1, MildOperations
  <1>5. authed \in SessionType /\ authed.state \in LiveStates
    BY <1>1, <1>4 DEF Mild
  <1>6. Mild(r, back)
    <2> DEFINE p == LogoutRequest(authed, 0, TRUE, FALSE)
    <2>1. 0 \in 0 .. 3 /\ TRUE \in BOOLEAN /\ FALSE \in BOOLEAN
      OBVIOUS
    <2> HIDE DEF authed
    <2>2. Mild(authed, p)
      BY <1>5, <2>1, MildOperations
    <2>3. p \in SessionType /\ p.state \in LiveStates
      BY <1>5, <2>2 DEF Mild
    <2> HIDE DEF p
    <2>4. Mild(p, SetOnline(p))
      BY <2>3, MildOperations
    <2>5. Mild(authed, SetOnline(p))
      BY <1>5, <2>2, <2>4, MildTwice
    <2>6. Mild(r, SetOnline(p))
      BY <1>1, <1>4, <2>5, MildTwice
    <2> QED
      BY <2>6 DEF p
  <1> HIDE DEF authed, back
  <1>7. logins' \in Seq(Accounts)
    <2>1. logins \in Seq(Accounts) /\ r.account \in Accounts
      BY <1>1 DEF Served, Types, Registered
    <2>2. Append(logins, r.account) \in Seq(Accounts)
      BY <2>1
    <2> QED
      BY <1>3, <2>1, <2>2
  <1> QED
    BY <1>1, <1>2, <1>4, <1>6, <1>7, OneMild, NoneMild DEF Served

LEMMA HandlePacketServes ==
  ASSUME Served, HandlePacket
  PROVE  Served'
  <1> DEFINE r == session[wcur]
  <1>1. /\ wpc = "packets" /\ wpc' = "packets" /\ batch # <<>> /\ batch' = Tail(batch)
        /\ UNCHANGED <<addQueue, sessions, waiting, adding, wpc, todo, wcur, stopping>>
    BY DEF HandlePacket
  <1>2. Updating /\ Updating'
    BY <1>1 DEF Updating
  <1>3. wcur \in Sockets /\ r \in SessionType /\ r.state \in LiveStates
    BY <1>2, CurrentSession
  <1>4. Gentle /\ logins' \in Seq(Accounts) /\ Leaving
    <2>1. logins \in Seq(Accounts) /\ dirty \in [Accounts -> BOOLEAN]
          /\ sock \in [Sockets -> [state : {"idle", "open", "closed"}, session : Maybe(Sockets)]]
      BY DEF Served, Types
    <2>2. ASSUME NEW time \in 0 .. 3, UNCHANGED <<sock, logins, dirty>>,
                 session' = [session EXCEPT ![wcur] = LogoutRequest(r, time, TRUE, FALSE)]
          PROVE  Gentle /\ logins' \in Seq(Accounts) /\ Leaving
      <3>1. TRUE \in BOOLEAN /\ FALSE \in BOOLEAN
        OBVIOUS
      <3>2. Mild(r, LogoutRequest(r, time, TRUE, FALSE))
        BY <1>3, <3>1, MildOperations
      <3> QED
        BY <1>3, <2>1, <2>2, <3>2, OneMild DEF Gentle, Leaving, Served
    <2>3. 0 \in 0 .. 3 /\ 1 \in 0 .. 3
      OBVIOUS
    <2>4. CASE /\ HandlePlayerLogin(r)
               /\ UNCHANGED <<sock, online, dirty>>
      BY <1>2, <2>1, <2>4, HandlePlayerLoginIsMild DEF Gentle, Leaving
    <2>5. CASE HandleLogoutRequest(r) /\ UNCHANGED logins
      <3>1. CASE LogoutPlayer(wcur)
        BY <1>2, <2>1, <2>5, <3>1, LogoutPlayerIsGentle
      <3>2. CASE ~LogoutPlayer(wcur)
        BY <2>2, <2>3, <2>5, <3>2 DEF HandleLogoutRequest
      <3> QED
        BY <3>1, <3>2
    <2>6. CASE /\ session' = [session EXCEPT ![wcur] = LogoutRequest(r, 0, TRUE, FALSE)]
               /\ UNCHANGED <<sock, characters>>
      BY <2>2, <2>3, <2>6 DEF characters
    <2>7. CASE UNCHANGED <<sock, session, characters>>
      BY <2>1, <2>7, NoneMild DEF Gentle, Leaving, Served, characters
    <2> QED
      BY <2>4, <2>5, <2>6, <2>7 DEF HandlePacket
  <1>5. batch' \in Seq(Packet)
    BY <1>1, ElementsOfTail DEF Served, Types
  <1>6. Turn'
    BY <1>1, <1>2, <1>4, GentleTurn DEF Served
  <1> QED
    BY <1>1, <1>4, <1>5, <1>6, QuietStep DEF Quiet, Served, Types, Leaving

\* The session is kept: the update goes on with the next one.
LEMMA KeptServes ==
  ASSUME Served, wpc = "state", Kept, Gentle, Leaving
  PROVE  Served'
  <1>1. /\ wpc' = "update" /\ wcur' = None
        /\ UNCHANGED <<addQueue, sessions, waiting, adding, todo, batch, stopping, logins>>
    BY DEF Kept
  <1>2. Registered' = Registered
    BY <1>1 DEF Registered
  <1>3. Turn'
    BY <1>1, <1>2 DEF Turn, Served, Updating
  <1> QED
    BY <1>1, <1>3, QuietStep DEF Quiet, Served, Types, Leaving, Maybe

LEMMA UpdateCreatedServes ==
  ASSUME Served, UpdateCreated
  PROVE  Served'
  <1> DEFINE r == session[wcur]
  <1>1. wpc = "state" /\ Updating /\ Kept /\ UNCHANGED <<online, dirty>>
    BY DEF UpdateCreated, Updating
  <1>2. wcur \in Sockets /\ r \in SessionType /\ r.state \in LiveStates
    BY <1>1, CurrentSession
  <1>3. r.socket \in Maybe(Sockets) /\ r.request \in Maybe(Sockets)
    BY <1>2 DEF SessionType
  <1>4. Leaving
    BY <1>1 DEF Leaving, Served, Types
  <1>5. PICK q : Mild(r, q) /\ session' = [session EXCEPT ![wcur] = q]
    <2>1. CASE r.request = None
      <3>1. session' = [session EXCEPT ![wcur] = SetInCharSelection(r)]
        BY <2>1 DEF UpdateCreated
      <3> QED
        BY <1>2, <3>1, MildOperations
    <2>2. CASE r.request # None
      <3> DEFINE p == SetOffline(r)
                 p1 == [p EXCEPT !.socket = r.request]
                 q == [p EXCEPT !.socket = r.request, !.request = None]
      <3>1. session' = [session EXCEPT ![wcur] = SetInCharSelection(q)]
        BY <2>2 DEF UpdateCreated
      <3>2. Mild(r, p) /\ p.state = "offline" /\ Same6(r, p)
        BY <1>2, MildOperations, SetOfflineFacts
      <3>3. p \in SessionType
        BY <3>2 DEF Mild
      <3>4. p1 \in SessionType
        <4> HIDE DEF p
        <4> QED
          BY <1>3, <3>3, SetMember
      <3>5. q = [p1 EXCEPT !.request = None]
        BY Zenon
      <3> HIDE DEF p
      <3>6. /\ q.account = p.account /\ q.inQueue = p.inQueue /\ q.request = None
            /\ q.inbox = p.inbox /\ q.socket = r.request /\ q.state = p.state
        BY <3>3 DEF SessionType
      <3> HIDE DEF p1
      <3>7. q \in SessionType
        BY <3>4, <3>5, SetMember DEF Maybe
      <3> HIDE DEF q
      <3>8. Mild(r, q)
        BY <1>2, <3>2, <3>6, <3>7 DEF Mild, Same6, Refs, LiveStates
      <3>9. Mild(q, SetInCharSelection(q))
        BY <3>2, <3>6, <3>7, MildOperations DEF LiveStates
      <3> QED
        BY <1>2, <3>1, <3>8, <3>9, MildTwice
    <2> QED
      BY <2>1, <2>2
  <1>6. sock' \in {sock, Finalizing(r.socket)}
    BY DEF UpdateCreated
  <1>7. Gentle
    BY <1>2, <1>3, <1>5, <1>6, OneMild, ClosingSockets DEF Gentle, Served
  <1> QED
    BY <1>1, <1>4, <1>7, KeptServes

\* The other states, as long as the session is kept.
LEMMA OtherStatesServe ==
  ASSUME Served, wpc = "state", Kept,
         \/ LogoutPlayer(wcur)
         \/ UNCHANGED <<sock, session, online, dirty>>
         \/ /\ session' = [session EXCEPT ![wcur] = SetOffline(session[wcur])]
            /\ sock' = Finalizing(session[wcur].socket)
            /\ UNCHANGED <<online, dirty>>
  PROVE  Served'
  <1>1. Updating
    BY DEF Updating
  <1>2. CASE LogoutPlayer(wcur)
    BY <1>1, <1>2, LogoutPlayerIsGentle, KeptServes
  <1>3. CASE UNCHANGED <<sock, session, online, dirty>>
    <2>1. Gentle /\ Leaving
      BY <1>3, NoneMild DEF Gentle, Leaving, Served, Types
    <2> QED
      BY <2>1, KeptServes
  <1>4. CASE /\ session' = [session EXCEPT ![wcur] = SetOffline(session[wcur])]
             /\ sock' = Finalizing(session[wcur].socket)
             /\ UNCHANGED <<online, dirty>>
    <2> DEFINE r == session[wcur]
    <2>1. wcur \in Sockets /\ r \in SessionType /\ r.state \in LiveStates
      BY <1>1, CurrentSession
    <2>2. r.socket \in Maybe(Sockets)
      BY <2>1 DEF SessionType
    <2>3. Mild(r, SetOffline(r))
      BY <2>1, MildOperations
    <2>4. Gentle
      BY <1>4, <2>1, <2>2, <2>3, OneMild, ClosingSockets DEF Gentle, Served
    <2>5. Leaving
      BY <1>4 DEF Leaving, Served, Types
    <2> QED
      BY <2>4, <2>5, KeptServes
  <1> QED
    BY <1>2, <1>3, <1>4

LEMMA LoginCallbackServes ==
  ASSUME Served, LoginCallback
  PROVE  Served'
  <1> DEFINE a == Head(logins)
             s == sessions[a]
             r == session[s]
             set(v) == [r EXCEPT !.player = v]
  <1>1. /\ wpc = "results" /\ logins # <<>> /\ logins' = Tail(logins)
        /\ UNCHANGED <<sock, addQueue, sessions, waiting, adding, wpc, todo, wcur, batch, stopping>>
    BY DEF LoginCallback, tick
  <1>2. a \in Accounts /\ logins' \in Seq(Accounts)
    BY <1>1, ElementsOfTail DEF Served, Types
  <1>3. Gentle
    <2>1. CASE s = None
      <3>1. UNCHANGED <<sock, session>>
        BY <2>1 DEF LoginCallback, tick
      <3> QED
        BY <3>1, NoneMild DEF Gentle, Served, Types
    <2>2. CASE s # None
      <3>1. s \in Sockets /\ r \in SessionType /\ Live(s)
        BY <1>2, <2>2 DEF Served, Types, Maybe, Homes, Registered
      <3>2. r.state \in LiveStates
        <4>1. r.state \in {"none", "created", "char selection", "ready", "offline", "destroyed"}
          BY <3>1 DEF SessionType
        <4> QED
          BY <3>1, <4>1 DEF Live, LiveStates
      <3>3. ASSUME NEW v \in {"none", "world", "failed"}
            PROVE  Mild(r, SetOnline(set(v))) /\ Mild(r, KickPlayer(SetOnline(set(v))))
        <4>1. Mild(r, set(v))
          BY <3>1, <3>2, MildOperations
        <4> DEFINE p == SetOnline(set(v))
        <4>2. set(v) \in SessionType /\ set(v).state \in LiveStates
          BY <3>2, <4>1 DEF Mild, LiveStates
        <4>3. Mild(set(v), p)
          <5> HIDE DEF set
          <5> QED
            BY <4>2, MildOperations
        <4>4. Mild(r, p)
          BY <3>1, <4>1, <4>3, MildTwice
        <4>5. p \in SessionType /\ p.state \in LiveStates
          BY <3>2, <4>4 DEF Mild, LiveStates
        <4> HIDE DEF p
        <4>6. Mild(p, KickPlayer(p))
          BY <4>5, MildOperations
        <4>7. Mild(r, KickPlayer(p))
          BY <3>1, <4>4, <4>6, MildTwice
        <4> QED
          BY <4>4, <4>7 DEF p
      <3>4. \/ session' = [session EXCEPT ![s] = SetOnline(set("world"))]
            \/ session' = [session EXCEPT ![s] = KickPlayer(SetOnline(set("failed")))]
        BY <2>2 DEF LoginCallback
      <3>5. PICK q : Mild(r, q) /\ session' = [session EXCEPT ![s] = q]
        BY <3>3, <3>4
      <3>6. /\ session' \in [Sockets -> SessionType]
            /\ \A x \in Sockets : Mild(session[x], session'[x])
        BY <3>1, <3>5, OneMild DEF Served
      <3> QED
        BY <1>1, <3>6 DEF Gentle, Served, Types
    <2> QED
      BY <2>1, <2>2
  <1>4. dirty' \in [Accounts -> BOOLEAN]
    BY DEF LoginCallback, Served, Types
  <1>5. Turn'
    BY <1>1, <1>3, GentleTurn DEF Served, Updating, Turn
  <1> QED
    BY <1>1, <1>2, <1>3, <1>4, <1>5, QuietStep DEF Quiet, Served, Types

LEMMA KicksServe ==
  ASSUME Served, (\E a \in Accounts : Kick(a)) \/ KickAllLess
  PROVE  Served'
  <1>1. UNCHANGED <<sock, addQueue, sessions, waiting, adding, wpc, todo, wcur, batch, stopping,
                    logins, dirty>>
    BY DEF Kick, KickAllLess, tick, characters
  <1>2. \A a \in Accounts : sessions[a] # None =>
            sessions[a] \in Sockets /\ session[sessions[a]].state \in LiveStates
    <2> SUFFICES ASSUME NEW a \in Accounts, sessions[a] # None
                 PROVE  sessions[a] \in Sockets /\ session[sessions[a]].state \in LiveStates
      OBVIOUS
    <2>1. sessions[a] \in Sockets /\ session[sessions[a]] \in SessionType /\ Live(sessions[a])
      BY DEF Served, Types, Maybe, Homes, Registered
    <2>2. session[sessions[a]].state
              \in {"none", "created", "char selection", "ready", "offline", "destroyed"}
      BY <2>1 DEF SessionType
    <2> QED
      BY <2>1, <2>2 DEF Live, LiveStates
  <1>3. /\ session' \in [Sockets -> SessionType]
        /\ \A s \in Sockets : Mild(session[s], session'[s])
    <2>1. CASE \E a \in Accounts : Kick(a)
      <3>1. PICK a \in Accounts : Kick(a)
        BY <2>1
      <3>2. sessions[a] # None /\ session' = [session EXCEPT ![sessions[a]] = KickPlayer(session[sessions[a]])]
        BY <3>1 DEF Kick
      <3>3. session[sessions[a]] \in SessionType
        BY <1>2, <3>2 DEF Served, Types
      <3>4. Mild(session[sessions[a]], KickPlayer(session[sessions[a]]))
        BY <1>2, <3>2, <3>3, MildOperations
      <3> QED
        BY <1>2, <3>2, <3>4, OneMild DEF Served
    <2>2. CASE KickAllLess
      <3> DEFINE new(s) == IF \E a \in Players : sessions[a] = s THEN KickPlayer(session[s])
                           ELSE session[s]
      <3>1. session' = [s \in Sockets |-> new(s)]
        BY <2>2 DEF KickAllLess
      <3>2. ASSUME NEW s \in Sockets
            PROVE  Mild(session[s], new(s))
        <4>1. session[s] \in SessionType
          BY DEF Served, Types
        <4>2. CASE \E a \in Players : sessions[a] = s
          <5>1. \E a \in Accounts : sessions[a] = s /\ s # None
            BY <4>2, SessionsAssumption
          <5>2. session[s].state \in LiveStates
            BY <1>2, <5>1
          <5> QED
            BY <4>1, <4>2, <5>2, MildOperations
        <4>3. CASE ~\E a \in Players : sessions[a] = s
          BY <4>1, <4>3, MildItself
        <4> QED
          BY <4>2, <4>3
      <3> HIDE DEF new
      <3>3. \A s \in Sockets : new(s) \in SessionType
        BY <3>2 DEF Mild
      <3> QED
        BY <3>1, <3>2, <3>3
    <2> QED
      BY <2>1, <2>2
  <1>4. Gentle
    BY <1>1, <1>3 DEF Gentle, Served, Types
  <1>5. Turn'
    BY <1>1, <1>4, GentleTurn DEF Served, Updating, Turn
  <1> QED
    BY <1>1, <1>4, <1>5, QuietStep DEF Quiet, Served, Types

\* The world is stopped: everyone is logged out and the queue is emptied.
LEMMA CleanupsServe ==
  ASSUME Served, CleanupsBeforeStop
  PROVE  Served'
  <1> DEFINE kicked == {sessions[a] : a \in Registered}
             new(s) == IF s \in kicked THEN LoggedOut(InPlace(session[s])) ELSE session[s]
             closed(c) == IF \E s \in kicked : session[s].socket = c /\ ~session[s].recent
                          THEN [sock[c] EXCEPT !.state = "closed"] ELSE sock[c]
             Kinds == [state : {"idle", "open", "closed"}, session : Maybe(Sockets)]
  <1>1. /\ wpc = "commands" /\ wpc' = "tick" /\ waiting' = <<>> /\ stopping' = TRUE
        /\ UNCHANGED <<addQueue, sessions, adding, todo, wcur, batch, logins>>
    BY DEF CleanupsBeforeStop
  <1>2. /\ session' = [s \in Sockets |-> new(s)]
        /\ sock' = [c \in Sockets |-> closed(c)]
    BY DEF CleanupsBeforeStop
  <1>3. ASSUME NEW s \in Sockets
        PROVE  Mild(session[s], new(s))
    <2>1. session[s] \in SessionType
      BY DEF Served, Types
    <2>2. CASE s \in kicked
      <3>1. Live(s)
        BY <2>2 DEF Served, Homes
      <3>2. session[s].state \in {"none", "created", "char selection", "ready", "offline", "destroyed"}
        BY <2>1 DEF SessionType
      <3>3. session[s].state \in LiveStates
        BY <3>1, <3>2 DEF Live, LiveStates
      <3> DEFINE p == InPlace(session[s])
      <3>4. Mild(session[s], p)
        BY <2>1, <3>3, MildOperations
      <3>5. p \in SessionType /\ p.state \in LiveStates
        BY <3>3, <3>4 DEF Mild, LiveStates
      <3> HIDE DEF p
      <3>6. Mild(p, LoggedOut(p))
        BY <3>5, MildOperations
      <3>7. Mild(session[s], LoggedOut(p))
        BY <2>1, <3>4, <3>6, MildTwice
      <3> QED
        BY <2>2, <3>7 DEF p
    <2>3. CASE s \notin kicked
      BY <2>1, <2>3, MildItself
    <2> QED
      BY <2>2, <2>3
  <1>4. ASSUME NEW c \in Sockets
        PROVE  closed(c) \in Kinds /\ (closed(c) = sock[c] \/ closed(c).state = "closed")
    <2>1. sock[c] \in Kinds
      BY DEF Served, Types
    <2>2. [sock[c] EXCEPT !.state = "closed"] \in Kinds /\ [sock[c] EXCEPT !.state = "closed"].state = "closed"
      BY <2>1
    <2> HIDE DEF Kinds
    <2> QED
      BY <2>1, <2>2
  <1> HIDE DEF new, closed
  <1>5. Gentle
    <2>1. \A s \in Sockets : new(s) \in SessionType
      BY <1>3 DEF Mild
    <2> QED
      BY <1>2, <1>3, <1>4, <2>1 DEF Gentle
  <1>6. dirty' \in [Accounts -> BOOLEAN]
    <2> DEFINE left == {a \in Registered : Leaves(session[sessions[a]])}
               keeps(a) == dirty[a] /\ ~(a \in left /\ InPlace(session[sessions[a]]).save)
    <2>1. dirty' = [a \in Accounts |-> keeps(a)]
      BY DEF CleanupsBeforeStop
    <2>2. \A a \in Accounts : keeps(a) \in BOOLEAN
      OBVIOUS
    <2> QED
      BY <2>1, <2>2, Zenon
  <1>7. Homes' /\ Routed'
    BY <1>1, <1>5, GentleHomes DEF Served
  <1>8. Turn'
    BY <1>1, <1>5, GentleTurn DEF Served, Updating, Turn
  <1>9. <<>> \in Seq(Sockets) /\ Elements(<<>>) = {} /\ Different(<<>>)
    BY DEF Elements, Different
  <1>10. Queued' /\ Limited'
    BY <1>1, <1>9 DEF Queued, Limited
  <1>11. Types'
    BY <1>1, <1>5, <1>6, <1>9 DEF Served, Types, Gentle
  <1> QED
    BY <1>7, <1>8, <1>10, <1>11 DEF Served
-----------------------------------------------------------------------------
(***************************************************************************)
(* Steps that bring, register or end a session.                            *)
(***************************************************************************)
\* Whoever is registered is alive and known by the account.
LEMMA RegisteredSessions ==
  ASSUME Served, NEW a \in Registered
  PROVE  /\ a \in Accounts /\ sessions[a] \in Sockets /\ session[sessions[a]] \in SessionType
         /\ session[sessions[a]].account = a /\ session[sessions[a]].state \in LiveStates
         /\ sock[sessions[a]].state # "idle"
         /\ \A b \in Registered : sessions[b] = sessions[a] => b = a
  <1>1. a \in Accounts /\ sessions[a] \in Sockets /\ session[sessions[a]] \in SessionType
    BY DEF Registered, Served, Types, Maybe
  <1>2. session[sessions[a]].account = a /\ Live(sessions[a])
    BY DEF Served, Homes
  <1>3. session[sessions[a]].state \in {"none", "created", "char selection", "ready", "offline", "destroyed"}
    BY <1>1 DEF SessionType
  <1>4. session[sessions[a]].state \in LiveStates
    BY <1>2, <1>3 DEF Live, LiveStates
  <1>5. sock[sessions[a]].state # "idle"
    BY <1>1, <1>4 DEF Served, Homes, LiveStates
  <1>6. \A b \in Registered : sessions[b] = sessions[a] => b = a
    BY <1>2 DEF Served, Homes
  <1> QED
    BY <1>1, <1>2, <1>4, <1>5, <1>6

LEMMA ComingSessions ==
  ASSUME Served, NEW s \in Coming
  PROVE  s \in Sockets /\ sock[s].state # "idle"
  <1>1. s \in Sockets
    BY DEF Coming, Elements, Served, Types
  <1>2. Live(s)
    BY DEF Served, Homes
  <1> QED
    BY <1>1, <1>2 DEF Served, Homes, Live

LEMMA TakeOverServes ==
  ASSUME Served, NEW k \in Sockets, NEW a \in Accounts, HandleAuthSession(k, a), sessions[a] # None
  PROVE  Served'
  <1> DEFINE s == sessions[a]
             r == session[s]
             q == [r EXCEPT !.inbox = Append(r.inbox, k)]
             c == [state |-> "open", session |-> s]
  <1>1. sock[k].state = "idle" /\ sock' = [sock EXCEPT ![k] = c] /\ session' = [session EXCEPT ![s] = q]
    BY DEF HandleAuthSession
  <1>2. UNCHANGED <<addQueue, sessions, waiting, adding, wpc, todo, wcur, batch, stopping, logins, dirty>>
    BY DEF HandleAuthSession, tick, characters
  <1>3. a \in Registered
    BY DEF Registered
  <1>4. s \in Sockets /\ r \in SessionType /\ sock[s].state # "idle"
    BY <1>3, RegisteredSessions
  <1>5. r.inbox \in Seq(Sockets)
    BY <1>4 DEF SessionType
  <1>6. Append(r.inbox, k) \in Seq(Sockets) /\ Elements(Append(r.inbox, k)) = Elements(r.inbox) \cup {k}
    BY <1>5, ElementsOfAppend
  <1>7. q \in SessionType
    BY <1>4, <1>6, SetMember
  <1>8. /\ q.account = r.account /\ q.inQueue = r.inQueue /\ q.request = r.request
        /\ q.inbox = Append(r.inbox, k) /\ q.socket = r.socket /\ q.state = r.state
    BY <1>4 DEF SessionType
  <1> HIDE DEF q
  <1>9. session' \in [Sockets -> SessionType] /\ \A x \in Sockets : session'[x] = IF x = s THEN q ELSE session[x]
    BY <1>1, <1>7 DEF Served, Types
  <1>10. \A x \in Sockets : /\ session'[x].account = session[x].account
                            /\ session'[x].inQueue = session[x].inQueue
                            /\ session'[x].state = session[x].state
    BY <1>8, <1>9
  <1>11. \A x \in Sockets : sock'[x] = IF x = k THEN c ELSE sock[x]
    BY <1>1 DEF Served, Types
  <1>12. Types'
    <2>1. c \in [state : {"idle", "open", "closed"}, session : Maybe(Sockets)]
      BY <1>4 DEF Maybe
    <2>2. sock' \in [Sockets -> [state : {"idle", "open", "closed"}, session : Maybe(Sockets)]]
      BY <1>1, <2>1 DEF Served, Types
    <2> QED
      BY <1>2, <1>9, <2>2 DEF Served, Types
  <1>13. Registered' = Registered /\ Coming' = Coming
    BY <1>2 DEF Registered, Coming, Elements
  <1>14. /\ \A b \in Registered : sessions[b] \in Sockets
         /\ \A x \in Coming : x \in Sockets
    BY RegisteredSessions, ComingSessions
  <1>15. Homes'
    <2>1. \A x \in Sockets : Live(x)' <=> Live(x)
      BY <1>10 DEF Live
    <2>2. \A x \in Sockets : sock'[x].state = "idle" => session'[x].state = "none"
      BY <1>10, <1>11 DEF Served, Homes
    <2> QED
      BY <1>2, <1>10, <1>13, <1>14, <2>1, <2>2 DEF Served, Homes, Different, Elements
  <1>16. Turn'
    BY <1>2, <1>10, <1>13 DEF Served, Turn, Updating
  <1>17. Routed'
    <2> SUFFICES ASSUME NEW x \in Sockets, NEW y \in Refs(session'[x])
                 PROVE  sock'[y].state # "idle" /\ (sock'[y].state = "open" => sock'[y].session = x)
      BY DEF Routed
    <2>1. CASE x = s /\ y = k
      BY <1>11, <2>1
    <2>2. CASE ~(x = s /\ y = k)
      <3>1. y \in Refs(session[x])
        BY <1>6, <1>8, <1>9, <2>2 DEF Refs
      <3>2. y \in Sockets
        BY <3>1, RefsAreSockets DEF Served, Types
      <3>3. sock[y].state # "idle" /\ (sock[y].state = "open" => sock[y].session = x)
        BY <3>1 DEF Served, Routed
      <3> QED
        BY <1>1, <1>11, <3>2, <3>3
    <2> QED
      BY <2>1, <2>2
  <1>18. Queued'
    BY <1>2, <1>10, <1>13, <1>14 DEF Served, Queued, Different, Elements, Waits
  <1>19. Limited'
    <2>1. Through' = Through
      BY <1>2, <1>13 DEF Through, Waits, Elements
    <2> QED
      BY <1>2, <2>1 DEF Served, Limited
  <1> QED
    BY <1>12, <1>15, <1>16, <1>17, <1>18, <1>19 DEF Served

LEMMA NewSessionFacts ==
  ASSUME NEW a \in Accounts, NEW k \in Sockets
  PROVE  LET q == NewSession(a, k) IN
         /\ q \in SessionType /\ q.account = a /\ q.state = "created" /\ q.socket = k
         /\ q.request = None /\ q.inbox = <<>> /\ q.inQueue = FALSE
  <1> DEFINE p1 == [Blank EXCEPT !.account = a]
             p2 == [p1 EXCEPT !.state = "created"]
             q == NewSession(a, k)
  <1>1. /\ Blank \in SessionType /\ Blank.request = None /\ Blank.inbox = <<>>
        /\ Blank.inQueue = FALSE
    BY DEF Blank, SessionType, Maybe
  <1>2. q = [p2 EXCEPT !.socket = k]
    BY Zenon DEF NewSession
  <1>3. p1 \in SessionType
    BY <1>1 DEF SessionType, Maybe
  <1>4. /\ q.account = a /\ q.state = "created" /\ q.socket = k
        /\ q.request = None /\ q.inbox = <<>> /\ q.inQueue = FALSE
    BY <1>1 DEF NewSession, SessionType
  <1> HIDE DEF p1
  <1>5. p2 \in SessionType
    BY <1>3, SetMember DEF LiveStates
  <1> HIDE DEF p2
  <1>6. q \in SessionType
    <2>1. \A v \in Maybe(Sockets) : [p2 EXCEPT !.socket = v] \in SessionType
      BY <1>5, SetMember
    <2>2. k \in Maybe(Sockets)
      BY DEF Maybe
    <2> HIDE DEF q
    <2> QED
      BY <1>2, <2>1, <2>2
  <1> QED
    BY <1>4, <1>6

LEMMA ComesServes ==
  ASSUME Served, NEW k \in Sockets, NEW a \in Accounts, HandleAuthSession(k, a), sessions[a] = None
  PROVE  Served'
  <1> DEFINE q == NewSession(a, k)
             c == [state |-> "open", session |-> k]
  <1>1. /\ sock[k].state = "idle" /\ sock' = [sock EXCEPT ![k] = c]
        /\ session' = [session EXCEPT ![k] = q] /\ addQueue' = Append(addQueue, k)
    BY DEF HandleAuthSession
  <1>2. UNCHANGED <<sessions, waiting, adding, wpc, todo, wcur, batch, stopping, logins, dirty>>
    BY DEF HandleAuthSession, tick, characters
  <1>3. /\ q \in SessionType /\ q.account = a /\ q.state = "created" /\ q.socket = k
        /\ q.request = None /\ q.inbox = <<>>
    BY NewSessionFacts
  <1> HIDE DEF q
  <1>4. session' \in [Sockets -> SessionType] /\ \A x \in Sockets : session'[x] = IF x = k THEN q ELSE session[x]
    BY <1>1, <1>3 DEF Served, Types
  <1>5. \A x \in Sockets : sock'[x] = IF x = k THEN c ELSE sock[x]
    BY <1>1 DEF Served, Types
  <1>6. /\ \A b \in Registered : sessions[b] \in Sockets /\ sessions[b] # k
        /\ \A x \in Coming : x \in Sockets /\ x # k
    BY <1>1, RegisteredSessions, ComingSessions
  <1>7. /\ addQueue' \in Seq(Sockets) /\ Elements(addQueue)' = Elements(addQueue) \cup {k}
        /\ Different(addQueue)'
    <2>1. addQueue \in Seq(Sockets) /\ Different(addQueue) /\ k \notin Elements(addQueue)
      BY <1>6 DEF Served, Types, Homes, Coming
    <2>2. /\ Append(addQueue, k) \in Seq(Sockets)
          /\ Elements(Append(addQueue, k)) = Elements(addQueue) \cup {k}
          /\ Different(Append(addQueue, k))
      BY <2>1, ElementsOfAppend
    <2> QED
      BY <1>1, <2>2 DEF Elements, Different
  <1>8. Types'
    <2>1. c \in [state : {"idle", "open", "closed"}, session : Maybe(Sockets)]
      BY DEF Maybe
    <2>2. sock' \in [Sockets -> [state : {"idle", "open", "closed"}, session : Maybe(Sockets)]]
      BY <1>1, <2>1 DEF Served, Types
    <2> QED
      BY <1>2, <1>4, <1>7, <2>2 DEF Served, Types
  <1>9. Registered' = Registered /\ Coming' = Coming \cup {k} /\ Elements(adding)' = Elements(adding)
    BY <1>2, <1>7 DEF Registered, Coming, Elements
  <1>10. Homes'
    <2>1. \A b \in Registered' : session'[sessions'[b]].account = b /\ Live(sessions[b])'
      BY <1>2, <1>4, <1>6, <1>9 DEF Served, Homes, Live
    <2>2. \A x \in Coming' : /\ Live(x)' /\ session'[x].account \in Accounts
                             /\ \A b \in Accounts : sessions'[b] # x
      <3> SUFFICES ASSUME NEW x \in Coming'
                   PROVE  /\ Live(x)' /\ session'[x].account \in Accounts
                          /\ \A b \in Accounts : sessions'[b] # x
        OBVIOUS
      <3>1. CASE x = k
        <4>1. \A b \in Accounts : sessions[b] # k
          BY <1>6, SessionsAssumption DEF Registered
        <4> QED
          BY <1>2, <1>3, <1>4, <3>1, <4>1 DEF Live
      <3>2. CASE x # k
        BY <1>2, <1>4, <1>6, <1>9, <3>2 DEF Served, Homes, Live
      <3> QED
        BY <3>1, <3>2
    <2>3. Different(adding)' /\ (Elements(addQueue) \cap Elements(adding) = {})'
      BY <1>2, <1>6, <1>7, <1>9 DEF Served, Homes, Coming, Different
    <2>4. \A x \in Sockets : sock'[x].state = "idle" => session'[x].state = "none"
      BY <1>4, <1>5 DEF Served, Homes
    <2> QED
      BY <1>7, <2>1, <2>2, <2>3, <2>4 DEF Homes
  <1>11. Turn'
    <2>1. Updating => wcur # k /\ wcur \in Sockets
      BY <1>6, CurrentSession
    <2> QED
      BY <1>2, <1>4, <1>9, <2>1 DEF Served, Turn, Updating
  <1>12. Routed'
    <2> SUFFICES ASSUME NEW x \in Sockets, NEW y \in Refs(session'[x])
                 PROVE  sock'[y].state # "idle" /\ (sock'[y].state = "open" => sock'[y].session = x)
      BY DEF Routed
    <2>1. CASE x = k
      <3>1. y = k
        BY <1>3, <1>4, <2>1 DEF Refs, Elements
      <3> QED
        BY <1>5, <2>1, <3>1
    <2>2. CASE x # k
      <3>1. y \in Refs(session[x])
        BY <1>4, <2>2
      <3>2. y \in Sockets
        BY <3>1, RefsAreSockets DEF Served, Types
      <3>3. sock[y].state # "idle" /\ (sock[y].state = "open" => sock[y].session = x)
        BY <3>1 DEF Served, Routed
      <3> QED
        BY <1>1, <1>5, <3>2, <3>3
    <2> QED
      BY <2>1, <2>2
  <1>13. Queued'
    BY <1>2, <1>4, <1>6, <1>9 DEF Served, Queued, Different, Elements, Waits
  <1>14. Limited'
    <2>1. Through' = Through
      BY <1>2, <1>9 DEF Through, Waits, Elements
    <2> QED
      BY <1>2, <2>1 DEF Served, Limited
  <1> QED
    BY <1>8, <1>10, <1>11, <1>12, <1>13, <1>14 DEF Served

\* Steps that only move the sessions that are on their way.
LEMMA ComingMoves ==
  ASSUME Served, UNCHANGED <<sock, session, sessions, waiting, todo, wcur, batch, stopping, logins, dirty>>,
         addQueue' \in Seq(Sockets), adding' \in Seq(Sockets),
         Different(addQueue)', Different(adding)', (Elements(addQueue) \cap Elements(adding))' = {},
         Coming' \subseteq Coming, ~Updating, ~Updating', wpc' # "add" => adding' = <<>>
  PROVE  Served'
  <1>1. Registered' = Registered /\ Elements(waiting)' = Elements(waiting)
    BY DEF Registered, Elements
  <1>2. Types'
    BY DEF Served, Types
  <1>3. Homes'
    BY <1>1 DEF Served, Homes, Live
  <1>4. Turn'
    BY <1>1 DEF Served, Turn, Updating
  <1>5. Routed'
    BY DEF Served, Routed
  <1>6. Queued'
    BY <1>1 DEF Served, Queued, Different, Waits
  <1>7. Through' = Through
    BY <1>1 DEF Through, Waits
  <1>8. Limited'
    BY <1>7 DEF Served, Limited
  <1> QED
    BY <1>2, <1>3, <1>4, <1>5, <1>6, <1>8 DEF Served

LEMMA AddQueueServes ==
  ASSUME Served, TakeAddQueue \/ AddExistingSession
  PROVE  Served'
  <1>1. CASE TakeAddQueue
    <2>1. /\ adding' = addQueue /\ addQueue' = <<>> /\ wpc = "tick" /\ wpc' = "add"
          /\ UNCHANGED <<sock, session, sessions, waiting, todo, wcur, batch, stopping, logins, dirty>>
      BY <1>1 DEF TakeAddQueue, characters
    <2>2. Elements(<<>>) = {} /\ Different(<<>>) /\ <<>> \in Seq(Sockets)
      BY DEF Elements, Different
    <2>3. Elements(adding)' = Elements(addQueue) /\ Elements(addQueue)' = {}
      BY <2>1, <2>2 DEF Elements
    <2>4. Different(adding)' /\ Different(addQueue)'
      BY <2>1, <2>2 DEF Served, Homes, Different
    <2> QED
      BY <2>1, <2>2, <2>3, <2>4, ComingMoves DEF Coming, Updating, Served, Types
  <1>2. CASE AddExistingSession
    <2>1. /\ adding # <<>> /\ adding' = Tail(adding) /\ wpc = "add" /\ wpc' = "add"
          /\ UNCHANGED <<sock, session, addQueue, sessions, waiting, todo, wcur, batch, stopping, logins, dirty>>
      BY <1>2 DEF AddExistingSession, characters
    <2>2. /\ Tail(adding) \in Seq(Sockets) /\ Elements(Tail(adding)) \subseteq Elements(adding)
          /\ Different(Tail(adding))
      BY <2>1, ElementsOfTail DEF Served, Types, Homes
    <2>3. /\ Elements(adding)' \subseteq Elements(adding) /\ Elements(addQueue)' = Elements(addQueue)
          /\ Different(adding)' /\ Different(addQueue)'
      BY <2>1, <2>2 DEF Elements, Different, Served, Homes
    <2>4. (Elements(addQueue) \cap Elements(adding))' = {}
      BY <2>3 DEF Served, Homes
    <2> QED
      BY <2>1, <2>2, <2>3, <2>4, ComingMoves DEF Coming, Updating, Served, Types
  <1> QED
    BY <1>1, <1>2

\* How many there are of some of the accounts.
LEMMA Counting ==
  ASSUME NEW A \in SUBSET Accounts
  PROVE  /\ IsFiniteSet(A) /\ Cardinality(A) \in Nat
         /\ \A a : Cardinality(A \cup {a}) = IF a \in A THEN Cardinality(A) ELSE Cardinality(A) + 1
         /\ \A a : Cardinality(A \ {a}) = IF a \in A THEN Cardinality(A) - 1 ELSE Cardinality(A)
         /\ \A B \in SUBSET A : Cardinality(B) <= Cardinality(A)
  <1>1. IsFiniteSet(A)
    BY SessionsAssumption, FS_Subset
  <1> QED
    BY <1>1, FS_CardinalityType, FS_AddElement, FS_RemoveElement, FS_Subset

\* Nobody is in an empty queue.
LEMMA NobodyWaits ==
  ASSUME waiting = <<>>
  PROVE  Elements(waiting) = {} /\ Through = Registered
  BY DEF Elements, Through, Waits

LEMMA AddSessionServes ==
  ASSUME Served, AddSession
  PROVE  Served'
  <1>0. PICK s, a, m : s = Head(adding) /\ a = session[s].account /\ m = MustWait(a)
    OBVIOUS
  <1> DEFINE q == [session[s] EXCEPT !.inQueue = m]
  <1>1. /\ wpc = "add" /\ adding # <<>> /\ adding' = Tail(adding) /\ sessions[a] = None
        /\ sessions' = [sessions EXCEPT ![a] = s] /\ session' = [session EXCEPT ![s] = q]
        /\ waiting' = IF m THEN Append(waiting, s) ELSE waiting
    BY <1>0 DEF AddSession
  <1>2. UNCHANGED <<sock, addQueue, wpc, todo, wcur, batch, stopping, logins, dirty>>
    BY DEF AddSession, characters
  <1>3. /\ Tail(adding) \in Seq(Sockets) /\ Different(Tail(adding)) /\ s \in Elements(adding)
        /\ Elements(adding) = Elements(Tail(adding)) \cup {s} /\ s \notin Elements(Tail(adding))
    BY <1>0, <1>1, ElementsOfTail DEF Served, Types, Homes
  <1>4. /\ s \in Coming /\ s \in Sockets /\ a \in Accounts /\ Live(s)
        /\ \A b \in Accounts : sessions[b] # s
    BY <1>0, <1>3, ComingSessions DEF Served, Homes, Coming
  <1>5. session[s] \in SessionType
    BY <1>4 DEF Served, Types
  <1>6. m \in BOOLEAN
    BY <1>0 DEF MustWait
  <1>7. q \in SessionType
    BY <1>5, <1>6, SetMember
  <1>8. q.account = a /\ q.state = session[s].state /\ Refs(q) = Refs(session[s])
    <2>1. /\ q.account = a /\ q.state = session[s].state /\ q.socket = session[s].socket
          /\ q.request = session[s].request /\ q.inbox = session[s].inbox
      BY <1>0, <1>5 DEF SessionType
    <2> QED
      BY <2>1 DEF Refs
  <1>9. q.inQueue = m
    BY <1>5 DEF SessionType
  <1> HIDE DEF q
  <1>10. session' \in [Sockets -> SessionType] /\ \A x \in Sockets : session'[x] = IF x = s THEN q ELSE session[x]
    BY <1>1, <1>4, <1>7 DEF Served, Types
  <1>11. sessions' \in [Accounts -> Maybe(Sockets)] /\ \A b \in Accounts : sessions'[b] = IF b = a THEN s ELSE sessions[b]
    BY <1>1, <1>4 DEF Served, Types, Maybe
  <1>12. s # None
    BY <1>4, SessionsAssumption
  <1>13. Registered' = Registered \cup {a} /\ a \notin Registered
    BY <1>1, <1>4, <1>11, <1>12 DEF Registered
  <1>14. s \notin Elements(waiting)
    BY <1>4 DEF Served, Queued, Registered
  <1>15. /\ waiting' \in Seq(Sockets) /\ Different(waiting)'
         /\ Elements(waiting)' = IF m THEN Elements(waiting) \cup {s} ELSE Elements(waiting)
    <2>1. waiting \in Seq(Sockets) /\ Different(waiting)
      BY DEF Served, Types, Queued
    <2>2. CASE m
      <3>1. /\ Append(waiting, s) \in Seq(Sockets) /\ Different(Append(waiting, s))
            /\ Elements(Append(waiting, s)) = Elements(waiting) \cup {s}
        BY <1>4, <1>14, <2>1, ElementsOfAppend
      <3> QED
        BY <1>1, <2>2, <3>1 DEF Elements, Different
    <2>3. CASE ~m
      BY <1>1, <2>1, <2>3 DEF Elements, Different
    <2> QED
      BY <2>2, <2>3
  <1>16. Types'
    BY <1>1, <1>2, <1>3, <1>10, <1>11, <1>15 DEF Served, Types
  <1>17. Coming' = Coming \ {s}
    <2>1. Elements(adding)' = Elements(adding) \ {s} /\ Elements(addQueue)' = Elements(addQueue)
      BY <1>1, <1>2, <1>3 DEF Elements
    <2>2. s \notin Elements(addQueue)
      BY <1>3 DEF Served, Homes
    <2> QED
      BY <2>1, <2>2 DEF Coming
  <1>18. /\ \A b \in Registered : b \in Accounts /\ sessions[b] \in Sockets /\ sessions[b] # s
         /\ \A x \in Coming : x \in Sockets
    BY <1>4, RegisteredSessions, ComingSessions
  <1>19. Homes'
    <2>1. \A b \in Registered' : session'[sessions'[b]].account = b /\ Live(sessions[b])'
      <3> SUFFICES ASSUME NEW b \in Registered'
                   PROVE  session'[sessions'[b]].account = b /\ Live(sessions[b])'
        OBVIOUS
      <3>1. CASE b = a
        BY <1>4, <1>8, <1>10, <1>11, <3>1 DEF Live
      <3>2. CASE b # a
        <4>1. b \in Registered
          BY <1>13, <3>2
        <4>2. sessions'[b] = sessions[b] /\ session'[sessions[b]] = session[sessions[b]]
          BY <1>10, <1>11, <1>18, <3>2, <4>1
        <4> QED
          BY <4>1, <4>2 DEF Served, Homes, Live
      <3> QED
        BY <3>1, <3>2
    <2>2. \A x \in Coming' : /\ Live(x)' /\ session'[x].account \in Accounts
                             /\ \A b \in Accounts : sessions'[b] # x
      BY <1>10, <1>11, <1>17, <1>18 DEF Served, Homes, Live
    <2>3. Different(addQueue)' /\ Different(adding)'
      BY <1>1, <1>2, <1>3 DEF Served, Homes, Different
    <2>4. (Elements(addQueue) \cap Elements(adding))' = {}
      <3>1. Elements(addQueue)' = Elements(addQueue) /\ Elements(adding)' = Elements(Tail(adding))
        BY <1>1, <1>2 DEF Elements
      <3> QED
        BY <1>3, <3>1 DEF Served, Homes
    <2>5. \A x \in Sockets : sock'[x].state = "idle" => session'[x].state = "none"
      BY <1>2, <1>8, <1>10 DEF Served, Homes
    <2> QED
      BY <2>1, <2>2, <2>3, <2>4, <2>5 DEF Homes
  <1>20. Turn'
    BY <1>1, <1>2, <1>13 DEF Served, Turn, Updating
  <1>21. Routed'
    BY <1>2, <1>8, <1>10 DEF Served, Routed
  <1>22. \A b \in Registered : Waits(b)' <=> Waits(b)
    BY <1>11, <1>13, <1>15, <1>18 DEF Waits
  <1>23. Waits(a)' <=> m
    BY <1>4, <1>11, <1>14, <1>15 DEF Waits
  <1>24. Queued'
    <2>1. Elements(waiting)' \subseteq {sessions'[b] : b \in Registered'}
      <3>1. ASSUME NEW x \in Elements(waiting)
            PROVE  \E b \in Registered' : x = sessions'[b]
        BY <1>11, <1>13, <1>18 DEF Served, Queued
      <3>2. s = sessions'[a] /\ a \in Registered'
        BY <1>4, <1>11, <1>13
      <3> QED
        BY <1>15, <3>1, <3>2
    <2>2. ASSUME ~stopping, NEW b \in Registered'
          PROVE  session'[sessions'[b]].inQueue <=> Waits(b)'
      <3>1. CASE b = a
        BY <1>4, <1>6, <1>9, <1>10, <1>11, <1>23, <3>1
      <3>2. CASE b # a
        <4>1. b \in Registered
          BY <1>13, <3>2
        <4>2. sessions'[b] = sessions[b] /\ session'[sessions[b]] = session[sessions[b]]
          BY <1>10, <1>11, <1>18, <3>2, <4>1
        <4> QED
          BY <1>22, <2>2, <4>1, <4>2 DEF Served, Queued
      <3> QED
        BY <3>1, <3>2
    <2> QED
      BY <1>2, <1>15, <2>1, <2>2 DEF Queued
  <1>25. Limited'
    <2> SUFFICES ASSUME PlayerLimit > 0, ~stopping
                 PROVE  /\ Cardinality(Through' \cap Players) <= PlayerLimit
                        /\ waiting' # <<>> => Cardinality(Through') >= PlayerLimit
      BY <1>2 DEF Limited
    <2>1. /\ Cardinality(Through \cap Players) <= PlayerLimit
          /\ waiting # <<>> => Cardinality(Through) >= PlayerLimit
      BY DEF Served, Limited
    <2>2. /\ Through \in SUBSET Accounts /\ Registered \in SUBSET Accounts
          /\ Through \cap Players \in SUBSET Accounts /\ Through \in SUBSET Registered
          /\ a \notin Through
      BY <1>13 DEF Through, Registered
    <2>3. PlayerLimit \in Nat
      BY SessionsAssumption
    <2>4. CASE m
      <3>1. Through' = Through
        BY <1>13, <1>22, <1>23, <2>4 DEF Through
      <3>2. Cardinality(Registered) >= PlayerLimit
        BY <1>0, <2>4 DEF MustWait
      <3>3. Cardinality(Through) >= PlayerLimit
        BY <2>1, <3>2, NobodyWaits
      <3> QED
        BY <2>1, <3>1, <3>3
    <2>5. CASE ~m
      <3>1. Through' = Through \cup {a} /\ waiting' = waiting
        BY <1>1, <1>13, <1>22, <1>23, <2>5 DEF Through
      <3>2. Cardinality(Through') = Cardinality(Through) + 1 /\ Cardinality(Through) \in Nat
        BY <2>2, <3>1, Counting
      <3>3. CASE a \notin Players
        <4>1. Through' \cap Players = Through \cap Players
          BY <3>1, <3>3
        <4> QED
          <5>1. Cardinality(Through' \cap Players) <= PlayerLimit
            BY <2>1, <4>1
          <5>2. waiting' # <<>> => Cardinality(Through') >= PlayerLimit
            BY <2>1, <2>3, <3>1, <3>2
          <5> QED
            BY <5>1, <5>2
      <3>4. CASE a \in Players
        <4>1. ~(Cardinality(Registered) >= PlayerLimit)
          BY <1>0, <2>5, <3>4, SessionsAssumption DEF MustWait
        <4>2. Cardinality(Registered) \in Nat /\ Cardinality(Through) <= Cardinality(Registered)
          BY <2>2, Counting
        <4>3. Through' \in SUBSET Accounts
          BY <1>4, <2>2, <3>1
        <4>4. Cardinality(Through' \cap Players) <= Cardinality(Through')
              /\ Cardinality(Through' \cap Players) \in Nat
          BY <4>3, Counting
        <4> QED
          BY <2>1, <2>3, <3>1, <3>2, <4>1, <4>2, <4>4
      <3> QED
        BY <3>3, <3>4
    <2> QED
      BY <2>4, <2>5
  <1> QED
    BY <1>16, <1>19, <1>20, <1>21, <1>24, <1>25 DEF Served

\* The active sessions are those that are not in the queue.
LEMMA ActiveIsThrough ==
  ASSUME Served
  PROVE  Active = Cardinality(Through) /\ Cardinality(Through) \in Nat
  <1> DEFINE W == {b \in Registered : Waits(b)}
             f == [b \in W |-> sessions[b]]
  <1>1. /\ Registered \in SUBSET Accounts /\ Through \in SUBSET Accounts /\ W \in SUBSET Accounts
        /\ Through = Registered \ W /\ Registered \cap W = W
    BY DEF Registered, Through
  <1>2. IsFiniteSet(Elements(waiting)) /\ Cardinality(Elements(waiting)) = Len(waiting)
    BY LengthIsNumber DEF Served, Types, Queued
  <1>3. f \in Bijection(W, Elements(waiting))
    <2>1. \A b \in W : sessions[b] \in Elements(waiting)
      BY DEF Waits
    <2>2. \A b, c \in W : sessions[b] = sessions[c] => b = c
      BY RegisteredSessions
    <2>3. \A x \in Elements(waiting) : \E b \in W : sessions[b] = x
      BY DEF Served, Queued, Waits
    <2> HIDE DEF W
    <2>4. f \in [W -> Elements(waiting)]
      BY <2>1
    <2> QED
      BY <2>2, <2>3, <2>4 DEF Bijection, Injection, Surjection, IsInjective
  <1>4. IsFiniteSet(W)
    BY <1>1, Counting
  <1>5. Cardinality(Elements(waiting)) = Cardinality(W)
    BY <1>3, <1>4, FS_Bijection DEF ExistsBijection
  <1>6. Cardinality(Through) = Cardinality(Registered) - Cardinality(W)
    <2>1. IsFiniteSet(Registered)
      BY <1>1, Counting
    <2> HIDE DEF W
    <2>2. Cardinality(Registered \ W) = Cardinality(Registered) - Cardinality(Registered \cap W)
      BY <2>1, FS_Difference
    <2> QED
      BY <1>1, <2>2
  <1> QED
    BY <1>1, <1>2, <1>5, <1>6, Counting DEF Active

LEMMA DestroyedFacts ==
  /\ Destroyed \in SessionType /\ Destroyed.state = "destroyed" /\ Refs(Destroyed) = {}
  /\ Destroyed.account = None /\ Destroyed.inQueue = FALSE
  <1>1. /\ Blank \in SessionType /\ Blank.socket = None /\ Blank.request = None /\ Blank.inbox = <<>>
        /\ Blank.account = None /\ Blank.inQueue = FALSE
    BY DEF Blank, SessionType, Maybe
  <1>2. Destroyed \in SessionType
    BY <1>1 DEF Destroyed, SessionType
  <1>3. /\ Destroyed.state = "destroyed" /\ Destroyed.socket = None /\ Destroyed.request = None
        /\ Destroyed.inbox = <<>> /\ Destroyed.account = None /\ Destroyed.inQueue = FALSE
    BY <1>1 DEF Destroyed, SessionType
  <1>4. Refs(Destroyed) = {}
    BY <1>3 DEF Refs, Elements
  <1> QED
    BY <1>2, <1>3, <1>4

\* The queue when session wcur leaves it and who is admitted for it.
LEMMA QueueAfter ==
  ASSUME Served, Updating
  PROVE  LET m == Admitted(wcur) IN
         /\ Unqueued(wcur) \in Seq(Sockets) /\ Different(Unqueued(wcur))
         /\ Elements(Unqueued(wcur)) = Elements(waiting) \ {wcur}
         /\ Without(Unqueued(wcur), m) \in Seq(Sockets) /\ Different(Without(Unqueued(wcur), m))
         /\ Elements(Without(Unqueued(wcur), m)) = Elements(waiting) \ {wcur, m}
         /\ m = None \/ (m \in Elements(waiting) /\ m # wcur /\ Unqueued(wcur) # <<>>
                            /\ m = Head(Unqueued(wcur)))
  <1> DEFINE m == Admitted(wcur)
             others == Unqueued(wcur)
  <1>1. waiting \in Seq(Sockets) /\ Different(waiting)
    BY DEF Served, Types, Queued
  <1>2. others \in Seq(Sockets) /\ Different(others) /\ Elements(others) = Elements(waiting) \ {wcur}
    BY <1>1, WithoutFacts DEF Unqueued
  <1>3. m = None \/ (others # <<>> /\ m = Head(others))
    BY DEF Admitted
  <1> HIDE DEF others, m
  <1>4. /\ Without(others, m) \in Seq(Sockets) /\ Different(Without(others, m))
        /\ Elements(Without(others, m)) = Elements(others) \ {m}
    BY <1>2, WithoutFacts
  <1>5. others # <<>> => Head(others) \in Elements(others)
    BY <1>2, ElementsOfTail
  <1>6. m = None \/ (m \in Elements(waiting) /\ m # wcur /\ others # <<>> /\ m = Head(others))
    BY <1>2, <1>3, <1>5
  <1>7. Elements(Without(others, m)) = Elements(waiting) \ {wcur, m}
    BY <1>2, <1>4
  <1> QED
    BY <1>2, <1>4, <1>6, <1>7 DEF others, m

LEMMA DestroyServes ==
  ASSUME Served, wpc = "state", NEW r, NEW sockets, r.account = session[wcur].account,
         NEW k \in Maybe(Sockets), sockets \in {sock, Closing(k), Finalizing(k)},
         Destroy(r, sockets)
  PROVE  Served'
  <1>0. PICK w, a, m : w = wcur /\ a = session[w].account /\ m = Admitted(w)
    OBVIOUS
  <1>1. /\ sessions' = [sessions EXCEPT ![a] = None] /\ sock' = sockets
        /\ waiting' = Without(Unqueued(w), m) /\ wpc' = "update" /\ wcur' = None
        /\ UNCHANGED <<addQueue, adding, todo, batch, stopping, logins>>
    BY <1>0 DEF Destroy
  <1>2. /\ w \in Sockets /\ a \in Registered /\ a \in Accounts /\ sessions[a] = w
        /\ \A b \in Registered : sessions[b] = w => b = a
    BY <1>0, CurrentSession, RegisteredSessions DEF Updating
  <1>3. /\ waiting' \in Seq(Sockets) /\ Different(waiting)'
        /\ Elements(waiting)' = Elements(waiting) \ {w, m}
        /\ m = None \/ (m \in Elements(waiting) /\ m # w)
    <2>1. LET q == Without(Unqueued(w), m) IN
          /\ q \in Seq(Sockets) /\ Different(q) /\ Elements(q) = Elements(waiting) \ {w, m}
          /\ m = None \/ (m \in Elements(waiting) /\ m # w)
      BY <1>0, QueueAfter DEF Updating
    <2> QED
      BY <1>1, <2>1 DEF Elements, Different
  <1> DEFINE new(x) == CASE x = w -> Destroyed
                         [] x # w /\ x = m -> [session[x] EXCEPT !.inQueue = FALSE]
                         [] OTHER -> session[x]
  <1>4. session' = [x \in Sockets |-> new(x)]
    BY <1>0 DEF Destroy
  <1>5. ASSUME NEW x \in Sockets, x # w
        PROVE  /\ new(x) \in SessionType /\ new(x).account = session[x].account
               /\ new(x).state = session[x].state /\ Refs(new(x)) = Refs(session[x])
               /\ new(x).inQueue = IF x = m THEN FALSE ELSE session[x].inQueue
    <2>1. session[x] \in SessionType
      BY DEF Served, Types
    <2>2. CASE x = m
      <3> DEFINE q == [session[x] EXCEPT !.inQueue = FALSE]
      <3>1. new(x) = q
        BY <1>5, <2>2
      <3>2. q \in SessionType
        BY <2>1, SetMember
      <3>3. /\ q.account = session[x].account /\ q.state = session[x].state
            /\ q.socket = session[x].socket /\ q.request = session[x].request
            /\ q.inbox = session[x].inbox /\ q.inQueue = FALSE
        BY <2>1 DEF SessionType
      <3> HIDE DEF new, q
      <3> QED
        BY <2>2, <3>1, <3>2, <3>3 DEF Refs
    <2>3. CASE x # m
      BY <1>5, <2>1, <2>3
    <2> QED
      BY <2>2, <2>3
  <1>6. new(w) = Destroyed
    OBVIOUS
  <1> HIDE DEF new
  <1>7. /\ session' \in [Sockets -> SessionType] /\ session'[w] = Destroyed
        /\ \A x \in Sockets : x # w =>
               /\ session'[x].account = session[x].account /\ session'[x].state = session[x].state
               /\ Refs(session'[x]) = Refs(session[x])
               /\ session'[x].inQueue = IF x = m THEN FALSE ELSE session[x].inQueue
    <2>1. \A x \in Sockets : new(x) \in SessionType
      BY <1>5, <1>6, DestroyedFacts
    <2>2. \A x \in Sockets : session'[x] = new(x)
      BY <1>4
    <2> QED
      BY <1>2, <1>4, <1>5, <1>6, <2>1, <2>2
  <1>8. sessions' \in [Accounts -> Maybe(Sockets)] /\ \A b \in Accounts : sessions'[b] = IF b = a THEN None ELSE sessions[b]
    BY <1>1, <1>2 DEF Served, Types, Maybe
  <1>9. /\ sock' \in [Sockets -> [state : {"idle", "open", "closed"}, session : Maybe(Sockets)]]
        /\ \A c \in Sockets : sock'[c] = sock[c] \/ sock'[c].state = "closed"
    BY <1>1, ClosingSockets DEF Served
  <1>10. dirty' \in [Accounts -> BOOLEAN]
    <2>1. dirty' \in {dirty, [dirty EXCEPT ![r.account] = FALSE]}
      BY DEF Destroy, Unload
    <2> QED
      BY <2>1 DEF Served, Types
  <1>11. Types'
    BY <1>1, <1>3, <1>7, <1>8, <1>9, <1>10 DEF Served, Types, Maybe
  <1>12. Registered' = Registered \ {a} /\ Coming' = Coming
    BY <1>1, <1>8 DEF Registered, Coming, Elements
  <1>13. /\ \A b \in Registered : b \in Accounts /\ sessions[b] \in Sockets
         /\ \A b \in Registered' : sessions'[b] = sessions[b] /\ sessions[b] # w /\ b \in Registered
         /\ \A x \in Coming : x \in Sockets /\ x # w
    <2>1. \A x \in Coming : x # w
      BY <1>2 DEF Served, Homes
    <2> QED
      BY <1>2, <1>8, <1>12, <2>1, RegisteredSessions, ComingSessions
  <1>14. Homes'
    <2>1. ASSUME NEW b \in Registered'
          PROVE  session'[sessions'[b]].account = b /\ Live(sessions[b])'
      <3>1. b \in Registered /\ sessions'[b] = sessions[b] /\ sessions[b] \in Sockets /\ sessions[b] # w
        BY <1>13
      <3>2. session[sessions[b]].account = b /\ Live(sessions[b])
        BY <3>1 DEF Served, Homes
      <3> QED
        BY <1>7, <3>1, <3>2 DEF Live
    <2>2. \A x \in Coming' : /\ Live(x)' /\ session'[x].account \in Accounts
                             /\ \A b \in Accounts : sessions'[b] # x
      <3> SUFFICES ASSUME NEW x \in Coming
                   PROVE  /\ Live(x)' /\ session'[x].account \in Accounts
                          /\ \A b \in Accounts : sessions'[b] # x
        BY <1>12
      <3>1. x \in Sockets /\ x # w /\ x # None
        BY <1>13, SessionsAssumption
      <3>2. /\ Live(x) /\ session[x].account \in Accounts
            /\ \A b \in Accounts : sessions[b] # x
        BY DEF Served, Homes
      <3>3. Live(x)' /\ session'[x].account \in Accounts
        BY <1>7, <3>1, <3>2 DEF Live
      <3> QED
        BY <1>8, <3>1, <3>2, <3>3
    <2>3. Different(addQueue)' /\ Different(adding)' /\ (Elements(addQueue) \cap Elements(adding))' = {}
      <3>1. UNCHANGED <<addQueue, adding>>
        BY <1>1
      <3>2. Different(addQueue) /\ Different(adding) /\ Elements(addQueue) \cap Elements(adding) = {}
        BY DEF Served, Homes
      <3> QED
        BY <3>1, <3>2 DEF Different, Elements
    <2>4. \A x \in Sockets : sock'[x].state = "idle" => session'[x].state = "none"
      <3> SUFFICES ASSUME NEW x \in Sockets, sock'[x].state = "idle"
                   PROVE  session'[x].state = "none"
        OBVIOUS
      <3>1. sock[x].state = "idle"
        BY <1>9
      <3>2. x # w
        BY <1>2, <3>1, RegisteredSessions
      <3> QED
        BY <1>7, <3>1, <3>2 DEF Served, Homes
    <2> QED
      BY <2>1, <2>2, <2>3, <2>4 DEF Homes
  <1>15. Turn'
    <2>1. a \notin todo
      BY <1>0 DEF Served, Turn, Updating
    <2>2. todo' \subseteq Registered'
      BY <1>1, <1>12, <2>1 DEF Served, Turn
    <2>3. adding = <<>> /\ batch = <<>>
      BY DEF Served, Turn
    <2> QED
      BY <1>1, <2>2, <2>3 DEF Turn, Updating
  <1>16. Routed'
    <2> SUFFICES ASSUME NEW x \in Sockets, NEW y \in Refs(session'[x])
                 PROVE  sock'[y].state # "idle" /\ (sock'[y].state = "open" => sock'[y].session = x)
      BY DEF Routed
    <2>1. x # w /\ y \in Refs(session[x])
      BY <1>7, DestroyedFacts
    <2>2. y \in Sockets
      BY <2>1, RefsAreSockets DEF Served, Types
    <2>3. sock[y].state # "idle" /\ (sock[y].state = "open" => sock[y].session = x)
      BY <2>1 DEF Served, Routed
    <2> QED
      BY <1>9, <2>2, <2>3
  <1>17. \A b \in Registered' : Waits(b)' <=> Waits(b) /\ sessions[b] # m
    BY <1>3, <1>13 DEF Waits
  <1>18. Queued'
    <2>1. Elements(waiting)' \subseteq {sessions'[b] : b \in Registered'}
      <3> SUFFICES ASSUME NEW x \in Elements(waiting), x # w
                   PROVE  \E b \in Registered' : x = sessions'[b]
        BY <1>3
      <3>1. PICK b \in Registered : x = sessions[b]
        BY DEF Served, Queued
      <3>2. b # a
        BY <1>2, <3>1
      <3> QED
        BY <1>12, <1>13, <3>1, <3>2
    <2>2. ASSUME ~stopping, NEW b \in Registered'
          PROVE  session'[sessions'[b]].inQueue <=> Waits(b)'
      <3>1. session[sessions[b]].inQueue <=> Waits(b)
        BY <1>13, <2>2 DEF Served, Queued
      <3>2. session'[sessions[b]].inQueue = IF sessions[b] = m THEN FALSE ELSE session[sessions[b]].inQueue
        BY <1>7, <1>13
      <3> QED
        BY <1>13, <1>17, <3>1, <3>2
    <2> QED
      BY <1>1, <1>3, <2>1, <2>2 DEF Queued
  <1>19. Limited'
    <2> SUFFICES ASSUME PlayerLimit > 0, ~stopping
                 PROVE  /\ Cardinality(Through' \cap Players) <= PlayerLimit
                        /\ waiting' # <<>> => Cardinality(Through') >= PlayerLimit
      BY <1>1 DEF Limited
    <2> DEFINE staying == Through \ {a}
    <2>1. /\ Cardinality(Through \cap Players) <= PlayerLimit
          /\ waiting # <<>> => Cardinality(Through) >= PlayerLimit
      BY DEF Served, Limited
    <2>2. Through \in SUBSET Accounts /\ staying \in SUBSET Accounts /\ PlayerLimit \in Nat
      BY SessionsAssumption DEF Through, Registered
    <2>3. /\ Cardinality(Through) \in Nat /\ Cardinality(staying) \in Nat
          /\ Cardinality(staying) = IF w \in Elements(waiting) THEN Active ELSE Active - 1
      <3>1. a \in Through <=> w \notin Elements(waiting)
        BY <1>2 DEF Through, Waits
      <3>2. Cardinality(staying) = IF a \in Through THEN Cardinality(Through) - 1 ELSE Cardinality(Through)
        BY <2>2, Counting
      <3> QED
        BY <2>2, <3>1, <3>2, ActiveIsThrough, Counting
    <2>4. waiting = <<>> => waiting' = <<>>
      <3>1. waiting \in Seq(Sockets) /\ waiting' \in Seq(Sockets)
        BY <1>3 DEF Served, Types
      <3>2. Elements(waiting) = {} => Elements(waiting)' = {}
        BY <1>3
      <3>3. Elements(waiting') = Elements(waiting)'
        BY DEF Elements
      <3> QED
        BY <3>1, <3>2, <3>3, NoElements
    <2>5. CASE Cardinality(staying) < PlayerLimit /\ Unqueued(w) # <<>>
      <3>1. m = Head(Unqueued(w))
        BY <1>0, <2>3, <2>5 DEF Admitted
      <3>2. m \in Elements(waiting) /\ m # w
        <4>1. Unqueued(w) \in Seq(Sockets) /\ Elements(Unqueued(w)) = Elements(waiting) \ {w}
          BY <1>0, QueueAfter DEF Updating
        <4>2. Head(Unqueued(w)) \in Elements(Unqueued(w))
          BY <2>5, <4>1, ElementsOfTail
        <4> QED
          BY <3>1, <4>1, <4>2
      <3>3. PICK c \in Registered : sessions[c] = m
        BY <3>2 DEF Served, Queued
      <3>4. c # a /\ c \notin Through /\ c \in Accounts
        BY <1>2, <1>13, <3>2, <3>3 DEF Through, Waits
      <3>5. \A b \in Registered : sessions[b] = m => b = c
        BY <3>3, RegisteredSessions
      <3>6. Through' = staying \cup {c}
        <4>1. \A b \in Registered' : ~Waits(b)' <=> ~Waits(b) \/ b = c
          BY <1>13, <1>17, <3>3, <3>5
        <4>2. c \in Registered'
          BY <1>12, <3>4
        <4> QED
          BY <1>12, <4>1, <4>2 DEF Through
      <3>7. Cardinality(Through') = Cardinality(staying) + 1
        BY <2>2, <3>4, <3>6, Counting
      <3>8. /\ Cardinality(Through' \cap Players) <= Cardinality(Through')
            /\ Cardinality(Through' \cap Players) \in Nat
        <4>1. Through' \in SUBSET Accounts
          BY <2>2, <3>4, <3>6
        <4> QED
          BY <4>1, Counting
      <3>9. Cardinality(staying) >= Cardinality(Through) - 1
        BY <2>3, ActiveIsThrough
      <3>10. waiting' # <<>> => Cardinality(Through') >= PlayerLimit
        BY <2>1, <2>2, <2>3, <2>4, <3>7, <3>9
      <3> QED
        BY <2>2, <2>3, <2>5, <3>7, <3>8, <3>10
    <2>6. CASE ~(Cardinality(staying) < PlayerLimit /\ Unqueued(w) # <<>>)
      <3>1. m = None
        BY <1>0, <2>3, <2>6 DEF Admitted
      <3>2. Through' = staying
        <4>1. \A b \in Registered' : Waits(b)' <=> Waits(b)
          BY <1>13, <1>17, <3>1, SessionsAssumption
        <4> QED
          BY <1>12, <4>1 DEF Through
      <3>3. Cardinality(Through' \cap Players) <= PlayerLimit
        <4>1. Through' \cap Players \in SUBSET (Through \cap Players) /\ Through \cap Players \in SUBSET Accounts
          BY <2>2, <3>2
        <4>2. /\ Cardinality(Through' \cap Players) <= Cardinality(Through \cap Players)
              /\ Cardinality(Through \cap Players) \in Nat
          BY <4>1, Counting
        <4>3. Cardinality(Through' \cap Players) \in Nat
          BY <4>1, Counting
        <4> QED
          BY <2>1, <2>2, <4>2, <4>3
      <3>4. waiting' # <<>> => Cardinality(Through') >= PlayerLimit
        <4>1. CASE Unqueued(w) = <<>>
          <5>1. Elements(waiting) \ {w} = {}
            BY <1>0, <4>1, QueueAfter, NoElements DEF Updating
          <5>2. Elements(waiting)' = {} /\ Elements(waiting') = Elements(waiting)'
            BY <1>3, <5>1 DEF Elements
          <5> QED
            BY <1>3, <5>2, NoElements
        <4>2. CASE Unqueued(w) # <<>>
          BY <2>2, <2>3, <2>6, <3>2, <4>2
        <4> QED
          BY <4>1, <4>2
      <3> QED
        BY <3>3, <3>4
    <2> QED
      BY <2>5, <2>6
  <1> QED
    BY <1>11, <1>14, <1>15, <1>16, <1>18, <1>19 DEF Served

\* The session ends, or the update goes on.
LEMMA UpdateStateServes ==
  ASSUME Served, UpdateState
  PROVE  Served'
  <1> DEFINE r == session[wcur]
  <1>1. wpc = "state" /\ Updating
    BY DEF UpdateState, UpdateCreated, UpdateCharSelection, UpdateReady, UpdateOffline, Updating
  <1>2. r \in SessionType /\ r.socket \in Maybe(Sockets)
    <2>1. r \in SessionType
      BY <1>1, CurrentSession
    <2> QED
      BY <2>1 DEF SessionType
  <1>3. ASSUME NEW p, p \in {r, InPlace(r)}, NEW sockets,
               sockets \in {Closing(r.socket), Finalizing(r.socket)}, Destroy(p, sockets)
        PROVE  Served'
    <2>1. InPlace(r).account = r.account
      BY <1>2, InPlaceFacts DEF Same6
    <2> HIDE DEF r
    <2>2. p.account = r.account
      BY <1>3, <2>1
    <2> QED
      BY <1>1, <1>2, <1>3, <2>2, DestroyServes DEF r
  <1>4. Released(r) \in {Closing(r.socket), Finalizing(r.socket)}
    BY DEF Released
  <1>5. CASE UpdateCreated
    BY <1>5, UpdateCreatedServes
  <1>6. CASE UpdateCharSelection
    <2>1. CASE Kept
      BY <1>1, <1>6, <2>1, OtherStatesServe, <1>3, <1>4 DEF UpdateCharSelection
    <2>2. CASE ~Kept
      BY <1>3, <1>4, <1>6, <2>2 DEF UpdateCharSelection
    <2> QED
      BY <2>1, <2>2
  <1>7. CASE UpdateReady
    <2>1. CASE Kept
      BY <1>1, <1>3, <1>7, <2>1, OtherStatesServe DEF UpdateReady
    <2>2. CASE ~Kept
      BY <1>3, <1>7, <2>2 DEF UpdateReady
    <2> QED
      BY <2>1, <2>2
  <1>8. CASE UpdateOffline
    <2>1. CASE Kept
      BY <1>1, <1>3, <1>4, <1>8, <2>1, OtherStatesServe DEF UpdateOffline
    <2>2. CASE ~Kept
      BY <1>3, <1>4, <1>8, <2>2 DEF UpdateOffline
    <2> QED
      BY <2>1, <2>2
  <1> QED
    BY <1>5, <1>6, <1>7, <1>8 DEF UpdateState
-----------------------------------------------------------------------------
(***************************************************************************)
(* The invariant.                                                          *)
(***************************************************************************)
LEMMA InitServes ==
  ASSUME Init
  PROVE  Served
  <1>1. Blank \in SessionType /\ Refs(Blank) = {} /\ Blank.state = "none"
    <2>1. /\ Blank \in SessionType /\ Blank.socket = None /\ Blank.request = None
          /\ Blank.inbox = <<>> /\ Blank.state = "none"
      BY DEF Blank, SessionType, Maybe
    <2> QED
      BY <2>1 DEF Refs, Elements
  <1>2. Elements(<<>>) = {} /\ Different(<<>>)
    BY DEF Elements, Different
  <1>3. Types
    <2>1. [state |-> "idle", session |-> None] \in [state : {"idle", "open", "closed"}, session : Maybe(Sockets)]
      BY DEF Maybe
    <2>2. /\ <<>> \in Seq(Sockets) /\ <<>> \in Seq(Packet) /\ <<>> \in Seq(Accounts)
          /\ None \in Maybe(Sockets) /\ FALSE \in BOOLEAN
      BY DEF Maybe
    <2> QED
      BY <1>1, <2>1, <2>2 DEF Init, Types
  <1>4. Registered = {} /\ Coming = {} /\ ~Updating /\ Through = {}
    BY <1>2 DEF Init, Registered, Coming, Updating, Through
  <1>5. Homes
    BY <1>1, <1>2, <1>4 DEF Init, Homes
  <1>6. Turn
    BY <1>4 DEF Init, Turn
  <1>7. Routed
    BY <1>1 DEF Init, Routed
  <1>8. Queued
    BY <1>2, <1>4 DEF Init, Queued
  <1>9. Limited
    <2>1. Through \cap Players \in SUBSET Accounts /\ Through \cap Players = {}
      BY <1>4
    <2>2. Cardinality(Through \cap Players) = 0
      BY <2>1, FS_EmptySet
    <2> QED
      BY <2>2, SessionsAssumption DEF Init, Limited
  <1> QED
    BY <1>3, <1>5, <1>6, <1>7, <1>8, <1>9 DEF Served

LEMMA StepsServe ==
  ASSUME Served, [Next]_vars
  PROVE  Served'
  <1>1. CASE Client
    <2>1. CASE \E k \in Sockets, a \in Accounts : HandleAuthSession(k, a)
      BY <2>1, TakeOverServes, ComesServes
    <2> QED
      BY <1>1, <2>1, QueuePacketServes, CloseSocketServes DEF Client
  <1>2. CASE \E k \in Sockets : LogoutTimer(k) \/ KickTimer(k)
    BY <1>2, TimersServe
  <1>3. CASE WorldThread
    <2>1. CASE TakeAddQueue \/ AddExistingSession \/ AddSession \/ AllAdded
      BY <2>1, AddQueueServes, AddSessionServes, AllAddedServes
    <2>2. CASE (\E a \in Accounts : ExecuteMessages(a)) \/ TakePackets \/ HandlePacket \/ UpdateState
      BY <2>2, ExecuteMessagesServes, TakePacketsServes, HandlePacketServes, UpdateStateServes
    <2>3. CASE PacketsDone \/ AllUpdated \/ UpdateMaps \/ NoMoreResults \/ EndTick
      BY <2>3, PassingSteps
    <2>4. CASE LoginCallback \/ (\E a \in Accounts : Kick(a)) \/ KickAllLess \/ CleanupsBeforeStop
      BY <2>4, LoginCallbackServes, KicksServe, CleanupsServe
    <2> QED
      BY <1>3, <2>1, <2>2, <2>3, <2>4 DEF WorldThread
  <1>4. CASE UNCHANGED vars
    <2>1. UNCHANGED <<sock, session, addQueue, sessions, waiting, adding, wpc, todo, wcur, batch,
                      stopping, logins, dirty>>
      BY <1>4 DEF vars, tick, characters
    <2> QED
      BY <2>1, PassServes DEF Updating, Served, Types, Turn
  <1> QED
    BY <1>1, <1>2, <1>3, <1>4 DEF Next

(***************************************************************************)
(* In every reachable state the world thread and the network threads agree *)
(* about the sessions, sockets lead to the sessions that hold them, and    *)
(* the queue is that of a full server.                                     *)
(***************************************************************************)
THEOREM SessionsAreServed == Spec => []Served
  <1>1. Init => Served
    BY InitServes
  <1>2. Served /\ [Next]_vars => Served'
    BY StepsServe
  <1> QED
    BY <1>1, <1>2, PTL DEF Spec

(***************************************************************************)
(* HandleAuthSession, RequestNewSocket and the socket changes of           *)
(* WorldSession::Update: what a client sends over the socket its session   *)
(* holds reaches that session.                                             *)
(***************************************************************************)
THEOREM SocketsRoute == Spec => []SocketsRouteToTheirSession
  <1>1. Served => SocketsRouteToTheirSession
    <2> SUFFICES ASSUME Served, NEW a \in Registered, Open(session[sessions[a]].socket)
                 PROVE  sock[session[sessions[a]].socket].session = sessions[a]
      BY DEF SocketsRouteToTheirSession
    <2>1. sessions[a] \in Sockets
      BY RegisteredSessions
    <2>2. session[sessions[a]].socket \in Refs(session[sessions[a]])
      BY DEF Open, Refs
    <2> QED
      BY <2>1, <2>2 DEF Served, Routed, Open
  <1> QED
    BY <1>1, SessionsAreServed, PTL

(***************************************************************************)
(* AddSession_ and RemoveQueuedSession: the queue of a full server holds   *)
(* exactly the sessions that were told to wait, each once.                 *)
(***************************************************************************)
THEOREM QueueIsExact == Spec => []QueueMatchesSessions
  <1>1. Served => QueueMatchesSessions
    <2> SUFFICES ASSUME Served, ~stopping
                 PROVE  Elements(waiting) = {sessions[a] : a \in {b \in Registered : session[sessions[b]].inQueue}}
      BY DEF Served, Queued, Different, QueueMatchesSessions
    <2> QED
      BY DEF Served, Queued, Waits
  <1> QED
    BY <1>1, SessionsAreServed, PTL

(***************************************************************************)
(* The same, and the counts of a session that leaves: no more players are  *)
(* admitted than the limit allows, and none waits while there is room.     *)
(***************************************************************************)
THEOREM LimitHolds == Spec => []LimitIsExact
  <1>1. Served => LimitIsExact
    <2> SUFFICES ASSUME Served, PlayerLimit > 0, ~stopping
                 PROVE  /\ Cardinality(AdmittedPlayers) <= PlayerLimit
                        /\ waiting # <<>> => Active >= PlayerLimit
      BY DEF LimitIsExact
    <2>1. AdmittedPlayers = Through \cap Players
      BY DEF AdmittedPlayers, Through, Waits
    <2> QED
      BY <2>1, ActiveIsThrough DEF Served, Limited
  <1> QED
    BY <1>1, SessionsAreServed, PTL

LEMMA QueueSteps ==
  ASSUME Served, [Next]_vars
  PROVE  \/ waiting' = waiting
         \/ stopping'
         \/ waiting' = Append(waiting, Head(adding))
         \/ /\ Updating /\ waiting' = Without(Unqueued(wcur), Admitted(wcur))
            /\ session'[wcur].state = "destroyed"
  <1>1. CASE Client \/ (\E k \in Sockets : LogoutTimer(k) \/ KickTimer(k))
    BY <1>1 DEF Client, HandleAuthSession, QueuePacket, CloseSocket, LogoutTimer, KickTimer
  <1>2. CASE UpdateState
    <2>1. wpc = "state" /\ Updating /\ wcur \in Sockets
      BY <1>2, CurrentSession DEF UpdateState, UpdateCreated, UpdateCharSelection, UpdateReady,
                                  UpdateOffline, Updating
    <2>2. ASSUME NEW r, NEW sockets, Destroy(r, sockets)
          PROVE  /\ waiting' = Without(Unqueued(wcur), Admitted(wcur))
                 /\ session'[wcur] = Destroyed
      BY <2>1, <2>2 DEF Destroy
    <2>3. CASE Kept
      BY <2>3 DEF Kept
    <2>4. CASE ~Kept
      BY <1>2, <2>1, <2>2, <2>4, DestroyedFacts
         DEF UpdateState, UpdateCreated, UpdateCharSelection, UpdateReady, UpdateOffline
    <2> QED
      BY <2>3, <2>4
  <1>3. CASE TakeAddQueue \/ AddExistingSession \/ AddSession \/ AllAdded
    BY <1>3 DEF TakeAddQueue, AddExistingSession, AddSession, AllAdded
  <1>4. CASE (\E a \in Accounts : ExecuteMessages(a)) \/ TakePackets \/ HandlePacket
    BY <1>4 DEF ExecuteMessages, TakePackets, HandlePacket
  <1>5. CASE PacketsDone \/ AllUpdated \/ UpdateMaps \/ NoMoreResults \/ EndTick
    BY <1>5 DEF PacketsDone, AllUpdated, UpdateMaps, NoMoreResults, EndTick
  <1>6. CASE LoginCallback \/ (\E a \in Accounts : Kick(a)) \/ KickAllLess \/ CleanupsBeforeStop
    BY <1>6 DEF LoginCallback, Kick, KickAllLess, CleanupsBeforeStop
  <1>7. CASE UNCHANGED vars
    BY <1>7 DEF vars
  <1> QED
    BY <1>1, <1>2, <1>3, <1>4, <1>5, <1>6, <1>7 DEF Next, WorldThread

(***************************************************************************)
(* RemoveQueuedSession admits the first in the queue: who leaves the queue *)
(* while its session lives was ahead of all who stay.                      *)
(***************************************************************************)
THEOREM FirstComesFirst == Spec => AdmittedInOrder
  <1>1. Served /\ [Next]_vars =>
            [\A i, j \in DOMAIN waiting :
                /\ i < j /\ ~stopping'
                /\ waiting[j] \notin Elements(waiting') /\ session'[waiting[j]].state # "destroyed"
                => waiting[i] \notin Elements(waiting')]_vars
    <2> SUFFICES ASSUME Served, [Next]_vars, NEW i \in DOMAIN waiting, NEW j \in DOMAIN waiting,
                        i < j, ~stopping', waiting[j] \notin Elements(waiting'),
                        session'[waiting[j]].state # "destroyed"
                 PROVE  waiting[i] \notin Elements(waiting')
      OBVIOUS
    <2>1. waiting \in Seq(Sockets) /\ Different(waiting) /\ waiting[j] \in Elements(waiting)
          /\ waiting[i] \in Elements(waiting)
      BY DEF Served, Types, Queued, Elements
    <2>2. waiting' # waiting
      BY <2>1
    <2>3. waiting' # Append(waiting, Head(adding))
      <3> SUFFICES ASSUME waiting' = Append(waiting, Head(adding))
                   PROVE  FALSE
        OBVIOUS
      <3>1. Append(waiting, Head(adding))[j] = waiting[j] /\ j \in DOMAIN Append(waiting, Head(adding))
        BY <2>1
      <3> QED
        BY <3>1 DEF Elements
    <2>4. Updating /\ waiting' = Without(Unqueued(wcur), Admitted(wcur)) /\ session'[wcur].state = "destroyed"
      BY <2>2, <2>3, QueueSteps
    <2>5. /\ Elements(waiting') = Elements(waiting) \ {wcur, Admitted(wcur)}
          /\ Admitted(wcur) = None \/ (Unqueued(wcur) # <<>> /\ Admitted(wcur) = Head(Unqueued(wcur)))
      BY <2>4, QueueAfter
    <2>6. waiting[j] = Admitted(wcur) /\ waiting[j] # None
      <3>1. waiting[j] \in Sockets
        BY <2>1
      <3> QED
        BY <2>1, <2>4, <2>5, <3>1, SessionsAssumption
    <2>7. waiting[i] = wcur
      BY <2>1, <2>5, <2>6, FirstWithout DEF Unqueued
    <2> QED
      BY <2>5, <2>7
  <1> QED
    BY <1>1, InitServes, StepsServe, PTL DEF Spec, AdmittedInOrder

-----------------------------------------------------------------------------
(***************************************************************************)
(* The characters: what the steps do to the members that tell where a      *)
(* character is, and what follows from it.                                 *)
(***************************************************************************)
\* The members that tell where the character is, and what the client has sent.
Steady(r, q) ==
    /\ q.account = r.account /\ q.player = r.player /\ q.recent = r.recent
    /\ q.logout = r.logout /\ q.save = r.save /\ q.recv = r.recv

\* Session x becomes q, and the others stay.
Becomes(x, q) ==
    /\ x \in Sockets /\ q \in SessionType /\ session'[x] = q
    /\ \A s \in Sockets : s # x => session'[s] = session[s]

LEMMA OneBecomes ==
  ASSUME Served, NEW x \in Sockets, NEW q \in SessionType, session' = [session EXCEPT ![x] = q]
  PROVE  Becomes(x, q)
  BY DEF Becomes, Served, Types

\* A connection is authenticated for an account that has a session.
LEMMA TakeOverFacts ==
  ASSUME Served, NEW k \in Sockets, NEW a \in Accounts, HandleAuthSession(k, a), sessions[a] # None
  PROVE  \A s \in Sockets : Steady(session[s], session'[s]) /\ session'[s].state = session[s].state
  <1> DEFINE x == sessions[a]
             r == session[x]
             q == [r EXCEPT !.inbox = Append(r.inbox, k)]
  <1>1. a \in Registered
    BY DEF Registered
  <1>2. x \in Sockets /\ r \in SessionType
    BY <1>1, RegisteredSessions
  <1>3. Append(r.inbox, k) \in Seq(Sockets)
    <2>1. r.inbox \in Seq(Sockets)
      BY <1>2 DEF SessionType
    <2> QED
      BY <2>1
  <1>4. q \in SessionType
    BY <1>2, <1>3, SetMember
  <1>5. Steady(r, q) /\ q.state = r.state
    BY <1>2 DEF SessionType, Steady
  <1>6. session' = [session EXCEPT ![x] = q]
    BY DEF HandleAuthSession
  <1> HIDE DEF q
  <1>7. Becomes(x, q)
    BY <1>2, <1>4, <1>6, OneBecomes
  <1> QED
    BY <1>5, <1>7 DEF Becomes, Steady

LEMMA KickTimerFacts ==
  ASSUME Served, NEW k \in Sockets, KickTimer(k)
  PROVE  \A s \in Sockets : Steady(session[s], session'[s]) /\ session'[s].state = session[s].state
  <1> DEFINE r == session[k]
             q == [r EXCEPT !.kickTime = 2]
  <1>1. r \in SessionType
    BY DEF Served, Types
  <1>2. q \in SessionType
    <2>1. \A v \in 0 .. 2 : [r EXCEPT !.kickTime = v] \in SessionType
      BY <1>1, SetMember
    <2>2. 2 \in 0 .. 2
      OBVIOUS
    <2> QED
      BY <2>1, <2>2, Zenon
  <1>3. Steady(r, q) /\ q.state = r.state
    BY <1>1 DEF SessionType, Steady
  <1>4. session' = [session EXCEPT ![k] = q]
    BY DEF KickTimer
  <1> HIDE DEF q
  <1>5. Becomes(k, q)
    BY <1>2, <1>4, OneBecomes
  <1> QED
    BY <1>3, <1>5 DEF Becomes, Steady

LEMMA AddSessionFacts ==
  ASSUME Served, AddSession
  PROVE  \A s \in Sockets : Steady(session[s], session'[s]) /\ session'[s].state = session[s].state
  <1>0. PICK x, m : x = Head(adding) /\ m = MustWait(session[x].account)
    OBVIOUS
  <1> DEFINE r == session[x]
             q == [r EXCEPT !.inQueue = m]
  <1>1. x \in Sockets /\ r \in SessionType
    <2>1. adding # <<>> /\ adding \in Seq(Sockets) /\ session \in [Sockets -> SessionType]
      BY DEF AddSession, Served, Types
    <2> QED
      BY <1>0, <2>1
  <1>2. m \in BOOLEAN
    BY <1>0 DEF MustWait
  <1>3. q \in SessionType
    BY <1>1, <1>2, SetMember
  <1>4. Steady(r, q) /\ q.state = r.state
    BY <1>1 DEF SessionType, Steady
  <1>5. session' = [session EXCEPT ![x] = q]
    BY <1>0 DEF AddSession
  <1> HIDE DEF q
  <1>6. Becomes(x, q)
    BY <1>1, <1>3, <1>5, OneBecomes
  <1> QED
    BY <1>4, <1>6 DEF Becomes, Steady

LEMMA ExecuteMessagesFacts ==
  ASSUME Served, NEW a \in Accounts, ExecuteMessages(a)
  PROVE  /\ \A s \in Sockets : Steady(session[s], session'[s])
         /\ \A s \in Sockets : session'[s].state \in {session[s].state, "created"}
         /\ \A s \in Sockets : s # sessions[a] => session'[s].state = session[s].state
  <1> DEFINE x == sessions[a]
             r == session[x]
             p == [r EXCEPT !.inbox = <<>>]
             t == [r EXCEPT !.inbox = <<>>, !.request = Head(r.inbox), !.state = "created"]
  <1>1. a \in Registered
    BY DEF ExecuteMessages, Served, Turn
  <1>2. x \in Sockets /\ r \in SessionType
    BY <1>1, RegisteredSessions
  <1>3. session' \in {[session EXCEPT ![x] = p], [session EXCEPT ![x] = t]}
    BY DEF ExecuteMessages
  <1>4. Steady(r, p) /\ p.state = r.state
    BY <1>2 DEF SessionType, Steady
  <1>5. Steady(r, t) /\ t.state = "created"
    BY <1>2 DEF SessionType, Steady
  <1> HIDE DEF p, t
  <1>6. PICK q : Steady(r, q) /\ q.state \in {r.state, "created"} /\ session' = [session EXCEPT ![x] = q]
    BY <1>3, <1>4, <1>5
  <1>7. session'[x] = q /\ \A s \in Sockets : s # x => session'[s] = session[s]
    BY <1>2, <1>6 DEF Served, Types
  <1> QED
    BY <1>6, <1>7 DEF Steady

LEMMA QueuePacketFacts ==
  ASSUME Served, NEW k \in Sockets, NEW p \in Packet, QueuePacket(k, p)
  PROVE  LET x == sock[k].session IN LET q == session'[x] IN
         /\ Becomes(x, q)
         /\ q.account = session[x].account /\ q.player = session[x].player
         /\ q.recent = session[x].recent /\ q.logout = session[x].logout
         /\ q.save = session[x].save /\ q.state = session[x].state
         /\ session[x].recv \in Seq(Packet) /\ q.recv = Append(session[x].recv, p)
  <1> DEFINE x == sock[k].session
             r == session[x]
             q == [r EXCEPT !.recv = Append(r.recv, p)]
  <1>1. x \in Sockets
    BY DEF QueuePacket, Served, Types, Maybe
  <1>2. r \in SessionType
    BY <1>1 DEF Served, Types
  <1>3. r.recv \in Seq(Packet)
    BY <1>2 DEF SessionType
  <1>4. Append(r.recv, p) \in Seq(Packet)
    BY <1>3
  <1>5. q \in SessionType
    BY <1>2, <1>4, SetMember
  <1>6. /\ q.account = r.account /\ q.player = r.player /\ q.recent = r.recent /\ q.logout = r.logout
        /\ q.save = r.save /\ q.state = r.state /\ q.recv = Append(r.recv, p)
    BY <1>2 DEF SessionType
  <1>7. session' = [session EXCEPT ![x] = q]
    BY DEF QueuePacket
  <1> HIDE DEF q, x
  <1>8. Becomes(x, q)
    BY <1>1, <1>5, <1>7, OneBecomes
  <1>9. session'[x] = q
    BY <1>8 DEF Becomes
  <1> QED
    BY <1>3, <1>6, <1>8, <1>9 DEF x

LEMMA LogoutTimerFacts ==
  ASSUME Served, NEW k \in Sockets, LogoutTimer(k)
  PROVE  LET r == session[k]
             q == session'[k]
         IN  /\ Becomes(k, q)
             /\ q.account = r.account /\ q.player = r.player /\ q.recent = r.recent
             /\ q.save = r.save /\ q.recv = r.recv /\ q.state = r.state /\ r.logout > 0
  <1> DEFINE r == session[k]
             q == [r EXCEPT !.logout = r.logout + 1]
  <1>1. r \in SessionType /\ r.logout \in {1, 2}
    BY DEF Served, Types, LogoutTimer
  <1>2. q \in SessionType
    <2>1. \A v \in 0 .. 3 : [r EXCEPT !.logout = v] \in SessionType
      BY <1>1, SetMember
    <2>2. r.logout + 1 \in 0 .. 3
      BY <1>1
    <2> QED
      BY <2>1, <2>2, Zenon
  <1>3. /\ q.account = r.account /\ q.player = r.player /\ q.recent = r.recent
        /\ q.save = r.save /\ q.recv = r.recv /\ q.state = r.state
    BY <1>1 DEF SessionType
  <1>4. session' = [session EXCEPT ![k] = q]
    BY DEF LogoutTimer
  <1>5. r.logout > 0
    BY <1>1
  <1> HIDE DEF q
  <1>6. Becomes(k, q)
    BY <1>2, <1>4, OneBecomes
  <1>7. session'[k] = q
    BY <1>6 DEF Becomes
  <1> QED
    BY <1>3, <1>5, <1>6, <1>7

LEMMA TakePacketsFacts ==
  ASSUME Served, TakePackets
  PROVE  LET r == session[wcur]
             q == session'[wcur]
         IN  /\ Becomes(wcur, q)
             /\ q.account = r.account /\ q.player = r.player /\ q.recent = r.recent
             /\ q.logout = r.logout /\ q.save = r.save /\ q.recv = <<>> /\ q.state = r.state
  <1> DEFINE r == session[wcur]
             q == [r EXCEPT !.recv = <<>>]
  <1>1. wcur \in Sockets /\ r \in SessionType
    BY CurrentSession DEF TakePackets, Updating
  <1>2. q \in SessionType
    <2>1. <<>> \in Seq(Packet)
      OBVIOUS
    <2> QED
      BY <1>1, <2>1, SetMember
  <1>3. /\ q.account = r.account /\ q.player = r.player /\ q.recent = r.recent
        /\ q.logout = r.logout /\ q.save = r.save /\ q.recv = <<>> /\ q.state = r.state
    BY <1>1 DEF SessionType
  <1>4. session' = [session EXCEPT ![wcur] = q]
    BY DEF TakePackets
  <1> HIDE DEF q
  <1>5. Becomes(wcur, q)
    BY <1>1, <1>2, <1>4, OneBecomes
  <1>6. session'[wcur] = q
    BY <1>5 DEF Becomes
  <1> QED
    BY <1>3, <1>5, <1>6

\* A character leaves the world.
LEMMA LogoutPlayerFacts ==
  ASSUME Served, Updating, LogoutPlayer(wcur)
  PROVE  LET r == session[wcur]
             q == session'[wcur]
         IN  /\ Becomes(wcur, q)
             /\ q.account = r.account /\ q.recv = r.recv /\ q.save = r.save /\ q.recent
             /\ r.recent => q = r
             /\ ~r.recent => q.player = "none" /\ q.logout = 0
  <1> DEFINE r == session[wcur]
             q == LoggedOut(r)
  <1>1. wcur \in Sockets /\ r \in SessionType
    BY CurrentSession
  <1>2. /\ q \in SessionType /\ q.account = r.account /\ q.recv = r.recv /\ q.save = r.save /\ q.recent
        /\ r.recent => q = r
        /\ ~r.recent => q.player = "none" /\ q.logout = 0
    BY <1>1, LoggedOutFacts DEF Same6
  <1>3. session' = [session EXCEPT ![wcur] = q]
    BY DEF LogoutPlayer
  <1> HIDE DEF q
  <1>4. Becomes(wcur, q)
    BY <1>1, <1>2, <1>3, OneBecomes
  <1>5. session'[wcur] = q
    BY <1>4 DEF Becomes
  <1> QED
    BY <1>2, <1>4, <1>5

\* A logout is requested, cancelled or put off.
LEMMA RequestFacts ==
  ASSUME Served, Updating, NEW time \in 0 .. 3,
         session' = [session EXCEPT ![wcur] = LogoutRequest(session[wcur], time, TRUE, FALSE)]
  PROVE  LET r == session[wcur]
             q == session'[wcur]
         IN  /\ Becomes(wcur, q)
             /\ q.account = r.account /\ q.recv = r.recv /\ q.save = TRUE /\ q.recent = r.recent
             /\ q.player = r.player /\ q.logout = time /\ q.state = r.state
  <1> DEFINE r == session[wcur]
             q == LogoutRequest(r, time, TRUE, FALSE)
  <1>1. wcur \in Sockets /\ r \in SessionType
    BY CurrentSession
  <1>2. TRUE \in BOOLEAN /\ FALSE \in BOOLEAN
    OBVIOUS
  <1>3. /\ q \in SessionType /\ q.account = r.account /\ q.recv = r.recv /\ q.save = TRUE
        /\ q.recent = r.recent /\ q.player = r.player /\ q.logout = time /\ q.state = r.state
    <2>1. /\ Same6(r, q) /\ q.state = r.state /\ q.player = r.player
          /\ q.recent = r.recent /\ q.logout = time /\ q.save = TRUE
      BY <1>1, <1>2, LogoutRequestFacts
    <2> HIDE DEF q
    <2> QED
      BY <2>1 DEF Same6
  <1> HIDE DEF q
  <1>4. Becomes(wcur, q)
    BY <1>1, <1>3, OneBecomes DEF q
  <1>5. session'[wcur] = q
    BY <1>4 DEF Becomes
  <1> QED
    BY <1>3, <1>4, <1>5

\* A login is refused, asks the database, or takes over a character that was
\* to log out.
LEMMA HandlePlayerLoginFacts ==
  ASSUME Served, Updating, HandlePlayerLogin(session[wcur])
  PROVE  LET r == session[wcur]
             q == session'[wcur]
         IN  /\ Becomes(wcur, q)
             /\ q.account = r.account /\ q.recv = r.recv /\ q.player = r.player
             /\ r.save => q.save
             /\ q.logout \in {r.logout, 0} /\ (r.player = "none" => q.state = r.state)
             /\ \/ q = r /\ logins' = logins
                \/ /\ q.recent = FALSE /\ r.player = "none" /\ logins' = Append(logins, r.account)
                \/ /\ q.recent = FALSE /\ r.player # "none" /\ logins' = logins
  <1> DEFINE r == session[wcur]
             authed == [r EXCEPT !.recent = FALSE]
             back == SetOnline(LogoutRequest(authed, 0, TRUE, FALSE))
  <1>1. wcur \in Sockets /\ r \in SessionType
    BY CurrentSession
  <1>2. authed \in SessionType
    BY <1>1, SetMember
  <1>3. /\ authed.account = r.account /\ authed.recv = r.recv /\ authed.player = r.player
        /\ authed.save = r.save /\ authed.logout = r.logout /\ authed.state = r.state
        /\ authed.recent = FALSE
    BY <1>1 DEF SessionType
  <1>4. /\ back \in SessionType /\ back.account = r.account /\ back.recv = r.recv
        /\ back.player = r.player /\ back.save = TRUE /\ back.logout = 0 /\ back.recent = FALSE
    <2> DEFINE p == LogoutRequest(authed, 0, TRUE, FALSE)
    <2>1. 0 \in 0 .. 3 /\ TRUE \in BOOLEAN /\ FALSE \in BOOLEAN
      OBVIOUS
    <2> HIDE DEF authed
    <2>2. /\ Same6(authed, p) /\ p.save = TRUE
          /\ p.recent = authed.recent /\ p.player = authed.player /\ p.logout = 0
      BY <1>2, <2>1, LogoutRequestFacts
    <2> HIDE DEF p
    <2>3. LET q == SetOnline(p) IN
          /\ q \in SessionType /\ q.account = p.account /\ q.recv = p.recv /\ q.save = p.save
          /\ q.recent = p.recent /\ q.player = p.player /\ q.logout = p.logout
      BY <2>2, SetOnlineFacts DEF Same6
    <2> QED
      BY <1>3, <2>2, <2>3 DEF p, Same6
  <1> HIDE DEF authed, back
  <1>5. CASE session' = session /\ logins' = logins
    BY <1>1, <1>5 DEF Becomes
  <1>6. CASE session' = [session EXCEPT ![wcur] = authed] /\ r.player = "none" /\ logins' = Append(logins, r.account)
    <2>1. Becomes(wcur, authed)
      BY <1>1, <1>2, <1>6, OneBecomes
    <2>2. session'[wcur] = authed
      BY <2>1 DEF Becomes
    <2> QED
      BY <1>3, <1>6, <2>1, <2>2
  <1>7. CASE session' = [session EXCEPT ![wcur] = back] /\ r.player = "world" /\ logins' = logins
    <2>1. Becomes(wcur, back)
      BY <1>1, <1>4, <1>7, OneBecomes
    <2>2. session'[wcur] = back
      BY <2>1 DEF Becomes
    <2> QED
      BY <1>4, <1>7, <2>1, <2>2
  <1>8. CASE session' = [session EXCEPT ![wcur] = authed] /\ r.player # "none" /\ logins' = logins
    <2>1. Becomes(wcur, authed)
      BY <1>1, <1>2, <1>8, OneBecomes
    <2>2. session'[wcur] = authed
      BY <2>1 DEF Becomes
    <2> QED
      BY <1>3, <1>8, <2>1, <2>2
  <1> QED
    BY <1>5, <1>6, <1>7, <1>8 DEF HandlePlayerLogin, authed, back

\* What a session that lets its client go, or changes it, keeps.
Letting(r, q) ==
    /\ q \in SessionType /\ q.account = r.account /\ q.recv = r.recv /\ q.player = r.player
    /\ q.recent = r.recent
    /\ \/ q.logout = r.logout /\ q.save = r.save
       \/ r.player # "none" /\ q.save

LEMMA SetOfflineLets ==
  ASSUME NEW r \in SessionType
  PROVE  Letting(r, SetOffline(r))
  BY SetOfflineFacts DEF Same6, Letting

LEMMA UpdateCreatedFacts ==
  ASSUME Served, UpdateCreated
  PROVE  /\ Becomes(wcur, session'[wcur]) /\ Letting(session[wcur], session'[wcur])
         /\ session'[wcur].state = "char selection"
  <1> DEFINE r == session[wcur]
             p == SetOffline(r)
             p1 == [p EXCEPT !.socket = r.request]
             q == [p EXCEPT !.socket = r.request, !.request = None]
  <1>1. wcur \in Sockets /\ r \in SessionType
    BY CurrentSession DEF UpdateCreated, Updating
  <1>2. r.request \in Maybe(Sockets)
    BY <1>1 DEF SessionType
  <1>3. Letting(r, p)
    BY <1>1, SetOfflineLets
  <1>4. p \in SessionType
    BY <1>3 DEF Letting
  <1>5. session' \in {[session EXCEPT ![wcur] = SetInCharSelection(r)],
                      [session EXCEPT ![wcur] = SetInCharSelection(q)]}
    BY DEF UpdateCreated
  <1>6. Letting(r, q)
    <2>1. q = [p1 EXCEPT !.request = None]
      BY Zenon
    <2> HIDE DEF p
    <2>2. p1 \in SessionType
      BY <1>2, <1>4, SetMember
    <2>3. /\ q.account = p.account /\ q.recv = p.recv /\ q.player = p.player
          /\ q.recent = p.recent /\ q.logout = p.logout /\ q.save = p.save
      BY <1>4 DEF SessionType
    <2> HIDE DEF p1
    <2>4. q \in SessionType
      BY <2>1, <2>2, SetMember DEF Maybe
    <2> HIDE DEF q
    <2> QED
      BY <1>3, <2>3, <2>4 DEF Letting
  <1>7. Letting(r, r)
    BY <1>1 DEF Letting
  <1> HIDE DEF p, q
  <1>8. ASSUME NEW t, Letting(r, t)
        PROVE  Letting(r, SetInCharSelection(t)) /\ SetInCharSelection(t).state = "char selection"
    <2>1. t \in SessionType
      BY <1>8 DEF Letting
    <2>2. LET u == SetInCharSelection(t) IN
          /\ u \in SessionType /\ u.account = t.account /\ u.recv = t.recv /\ u.player = t.player
          /\ u.recent = t.recent /\ u.logout = t.logout /\ u.save = t.save /\ u.state = "char selection"
      BY <2>1, SetInCharSelectionFacts DEF Same6
    <2> QED
      BY <1>8, <2>2 DEF Letting
  <1>9. PICK u : Letting(r, u) /\ u.state = "char selection" /\ session' = [session EXCEPT ![wcur] = u]
    BY <1>5, <1>6, <1>7, <1>8
  <1>10. Becomes(wcur, u)
    BY <1>1, <1>9, OneBecomes DEF Letting
  <1>11. session'[wcur] = u
    BY <1>10 DEF Becomes
  <1> QED
    BY <1>9, <1>10, <1>11

LEMMA GoneFacts ==
  ASSUME Served, Updating, session' = [session EXCEPT ![wcur] = SetOffline(session[wcur])]
  PROVE  Becomes(wcur, session'[wcur]) /\ Letting(session[wcur], session'[wcur])
  <1> DEFINE r == session[wcur]
             q == SetOffline(r)
  <1>1. wcur \in Sockets /\ r \in SessionType
    BY CurrentSession
  <1>2. Letting(r, q)
    BY <1>1, SetOfflineLets
  <1> HIDE DEF q
  <1>3. Becomes(wcur, q)
    BY <1>1, <1>2, OneBecomes DEF q, Letting
  <1>4. session'[wcur] = q
    BY <1>3 DEF Becomes
  <1> QED
    BY <1>2, <1>3, <1>4

\* The session is destroyed; another one may be admitted.
LEMMA DestroyFacts ==
  ASSUME Served, Updating, NEW r, NEW sockets, r.account = session[wcur].account, Destroy(r, sockets)
  PROVE  /\ session'[wcur].state = "destroyed" /\ session'[wcur].player = "none"
         /\ session'[wcur].recent = FALSE /\ session'[wcur].logout = 0
         /\ session'[wcur].save = TRUE /\ session'[wcur].recv = <<>>
         /\ \A s \in Sockets : s # wcur =>
                Steady(session[s], session'[s]) /\ session'[s].state = session[s].state
         /\ sessions' = [sessions EXCEPT ![session[wcur].account] = None]
         /\ Registered' = Registered \ {session[wcur].account}
  <1>1. wcur \in Sockets /\ session[wcur].account \in Accounts
    BY DEF Served, Turn
  <1> DEFINE m == Admitted(wcur)
             new(x) == CASE x = wcur -> Destroyed
                         [] x # wcur /\ x = m -> [session[x] EXCEPT !.inQueue = FALSE]
                         [] OTHER -> session[x]
  <1>2. session' = [x \in Sockets |-> new(x)]
    BY DEF Destroy
  <1> HIDE DEF m
  <1>3. ASSUME NEW x \in Sockets, x # wcur
        PROVE  Steady(session[x], new(x)) /\ new(x).state = session[x].state
    <2>1. session[x] \in SessionType
      BY DEF Served, Types
    <2>2. CASE x = m
      <3> DEFINE q == [session[x] EXCEPT !.inQueue = FALSE]
      <3>1. new(x) = q
        BY <1>3, <2>2
      <3>2. Steady(session[x], q) /\ q.state = session[x].state
        BY <2>1 DEF SessionType, Steady
      <3> HIDE DEF new, q
      <3> QED
        BY <3>1, <3>2
    <2>3. CASE x # m
      <3>1. new(x) = session[x]
        BY <1>3, <2>3
      <3> HIDE DEF new
      <3> QED
        BY <3>1 DEF Steady
    <2> QED
      BY <2>2, <2>3
  <1>4. new(wcur) = Destroyed
    OBVIOUS
  <1>5. /\ Destroyed.state = "destroyed" /\ Destroyed.player = "none" /\ Destroyed.recent = FALSE
        /\ Destroyed.logout = 0 /\ Destroyed.save = TRUE /\ Destroyed.recv = <<>>
    <2>1. /\ Blank \in SessionType /\ Blank.player = "none" /\ Blank.recent = FALSE
          /\ Blank.logout = 0 /\ Blank.save = TRUE /\ Blank.recv = <<>>
      BY DEF Blank, SessionType, Maybe
    <2> QED
      BY <2>1 DEF Destroyed, SessionType
  <1>6. sessions' = [sessions EXCEPT ![session[wcur].account] = None]
    BY DEF Destroy
  <1>7. Registered' = Registered \ {session[wcur].account}
    BY <1>1, <1>6 DEF Registered, Served, Types
  <1> HIDE DEF new
  <1>8. \A x \in Sockets : session'[x] = new(x)
    BY <1>2
  <1> QED
    BY <1>1, <1>3, <1>4, <1>5, <1>6, <1>7, <1>8

\* What the update does about the state of a session.
LEMMA UpdateStateKinds ==
  ASSUME Served, UpdateState
  PROVE  LET r == session[wcur] IN
         /\ wpc = "state" /\ UNCHANGED <<addQueue, adding, todo, batch, stopping, logins, packets, kicks>>
         /\ wpc' = "update" /\ wcur' = None
         /\ \/ UpdateCreated
            \/ UNCHANGED <<session, sessions, online, dirty>>
            \/ /\ session' = [session EXCEPT ![wcur] = SetOffline(r)]
               /\ UNCHANGED <<sessions, online, dirty>>
            \/ LogoutPlayer(wcur) /\ (r.player = "world" \/ r.logout >= 2) /\ UNCHANGED sessions
            \/ \E p, sockets : /\ p.account = r.account /\ p.player = r.player
                               /\ p.recent = r.recent /\ (r.save => p.save)
                               /\ r.state # "created" /\ Destroy(p, sockets)
  <1> DEFINE r == session[wcur]
             Kinds == \/ UpdateCreated
                      \/ UNCHANGED <<session, sessions, online, dirty>>
                      \/ /\ session' = [session EXCEPT ![wcur] = SetOffline(r)]
                         /\ UNCHANGED <<sessions, online, dirty>>
                      \/ LogoutPlayer(wcur) /\ (r.player = "world" \/ r.logout >= 2) /\ UNCHANGED sessions
                      \/ \E p, sockets : /\ p.account = r.account /\ p.player = r.player
                                         /\ p.recent = r.recent /\ (r.save => p.save)
                                         /\ r.state # "created" /\ Destroy(p, sockets)
  <1>1. wpc = "state"
    BY DEF UpdateState, UpdateCreated, UpdateCharSelection, UpdateReady, UpdateOffline
  <1>2. r \in SessionType
    BY <1>1, CurrentSession DEF Updating
  <1>3. r.logout \in Nat
    <2>1. r.logout \in 0 .. 3
      BY <1>2 DEF SessionType
    <2> QED
      BY <2>1
  <1>4. ASSUME NEW sockets, r.state # "created", Destroy(r, sockets) \/ Destroy(InPlace(r), sockets)
        PROVE  Kinds
    <2>1. CASE Destroy(r, sockets)
      BY <1>4, <2>1
    <2>2. CASE Destroy(InPlace(r), sockets)
      <3>1. /\ InPlace(r).account = r.account /\ InPlace(r).player = r.player
            /\ InPlace(r).recent = r.recent /\ InPlace(r).save
        BY <1>2, InPlaceFacts DEF Same6
      <3> QED
        BY <1>4, <2>2, <3>1
    <2> QED
      BY <1>4, <2>1, <2>2
  <1>5. ASSUME NEW p, NEW sockets, Destroy(p, sockets)
        PROVE  /\ UNCHANGED <<addQueue, adding, todo, batch, stopping, logins, packets, kicks>>
               /\ wpc' = "update" /\ wcur' = None
    BY <1>5 DEF Destroy, history
  <1>6. Kept => /\ UNCHANGED <<addQueue, adding, todo, batch, stopping, logins, packets, kicks>>
                /\ wpc' = "update" /\ wcur' = None /\ UNCHANGED sessions
    BY DEF Kept, history
  <1> DEFINE Rest == /\ UNCHANGED <<addQueue, adding, todo, batch, stopping, logins, packets, kicks>>
                     /\ wpc' = "update" /\ wcur' = None
  <1> HIDE DEF Kinds, Rest
  <1>7. ASSUME UpdateCreated
        PROVE  Kinds /\ Rest
    BY <1>6, <1>7 DEF UpdateCreated, Kinds, Rest
  <1>8. ASSUME UpdateCharSelection
        PROVE  Kinds /\ Rest
    <2>1. CASE Kept
      BY <1>4, <1>5, <1>6, <1>8, <2>1 DEF UpdateCharSelection, ShouldLogOut, Kinds, Rest
    <2>2. CASE ~Kept
      <3>1. PICK sockets : Destroy(r, sockets) \/ Destroy(InPlace(r), sockets)
        BY <1>8, <2>2 DEF UpdateCharSelection
      <3>2. r.state # "created"
        BY <1>8 DEF UpdateCharSelection
      <3> QED
        BY <1>4, <1>5, <3>1, <3>2 DEF Rest
    <2> QED
      BY <2>1, <2>2
  <1>9. ASSUME UpdateReady
        PROVE  Kinds /\ Rest
    <2>1. CASE Kept
      BY <1>4, <1>5, <1>6, <1>9, <2>1 DEF UpdateReady, ShouldLogOut, Kinds, Rest
    <2>2. CASE ~Kept
      <3>1. PICK sockets : Destroy(r, sockets) \/ Destroy(InPlace(r), sockets)
        BY <1>9, <2>2 DEF UpdateReady
      <3>2. r.state # "created"
        BY <1>9 DEF UpdateReady
      <3> QED
        BY <1>4, <1>5, <3>1, <3>2 DEF Rest
    <2> QED
      BY <2>1, <2>2
  <1>10. ASSUME UpdateOffline
        PROVE  Kinds /\ Rest
    <2>1. CASE Kept
      BY <1>3, <1>4, <1>5, <1>6, <1>10, <2>1 DEF UpdateOffline, ShouldDisconnect, Kinds, Rest
    <2>2. CASE ~Kept
      <3>1. PICK sockets : Destroy(r, sockets) \/ Destroy(InPlace(r), sockets)
        BY <1>10, <2>2 DEF UpdateOffline
      <3>2. r.state # "created"
        BY <1>10 DEF UpdateOffline
      <3> QED
        BY <1>4, <1>5, <3>1, <3>2 DEF Rest
    <2> QED
      BY <2>1, <2>2
  <1>11. Kinds /\ Rest
    BY <1>7, <1>8, <1>9, <1>10 DEF UpdateState
  <1> QED
    BY <1>1, <1>11 DEF Kinds, Rest

LEMMA LoginCallbackFacts ==
  ASSUME Served, LoginCallback
  PROVE  LET a == Head(logins) IN LET s == sessions[a] IN LET r == session[s] IN LET q == session'[s] IN
         /\ a \in Accounts /\ a \in Elements(logins)
         /\ Elements(logins) = Elements(Tail(logins)) \cup {a}
         /\ logins' = Tail(logins) /\ wpc = "results"
         /\ \/ s = None /\ UNCHANGED <<session, online, dirty, kicks>>
            \/ /\ a \in Registered /\ Becomes(s, q)
               /\ q.account = r.account /\ q.recv = r.recv /\ q.recent = r.recent
               /\ q.logout = r.logout /\ q.save = r.save /\ q.player = "world"
               /\ online' = [online EXCEPT ![a] = @ + 1] /\ dirty' = [dirty EXCEPT ![a] = FALSE]
               /\ UNCHANGED kicks
            \/ /\ a \in Registered /\ kicks < MaxKicks /\ Becomes(s, q)
               /\ q.player = "failed" /\ kicks' = kicks + 1 /\ UNCHANGED <<online, dirty>>
  <1>0. PICK a, s : a = Head(logins) /\ s = sessions[a]
    OBVIOUS
  <1> DEFINE r == session[s]
  <1>1. wpc = "results" /\ logins # <<>> /\ logins' = Tail(logins)
    BY DEF LoginCallback
  <1>2. a \in Accounts /\ a \in Elements(logins) /\ Elements(logins) = Elements(Tail(logins)) \cup {a}
    BY <1>0, <1>1, ElementsOfTail DEF Served, Types
  <1>3. CASE s = None
    <2>1. UNCHANGED <<session, online, dirty, kicks>>
      BY <1>0, <1>3 DEF LoginCallback
    <2> QED
      BY <1>0, <1>1, <1>2, <1>3, <2>1
  <1>4. CASE s # None
    <2>1. a \in Registered /\ s \in Sockets /\ r \in SessionType
      BY <1>0, <1>2, <1>4, RegisteredSessions DEF Registered
    <2> DEFINE set(v) == [r EXCEPT !.player = v]
    <2>2. ASSUME NEW v \in {"none", "world", "failed"}
          PROVE  LET q == SetOnline(set(v)) IN
                 /\ q \in SessionType /\ q.account = r.account /\ q.recv = r.recv
                 /\ q.recent = r.recent /\ q.logout = r.logout /\ q.save = r.save /\ q.player = v
      <3> DEFINE p == set(v)
      <3>1. p \in SessionType
        BY <2>1, SetMember
      <3>2. /\ p.account = r.account /\ p.recv = r.recv /\ p.recent = r.recent
            /\ p.logout = r.logout /\ p.save = r.save /\ p.player = v
        BY <2>1 DEF SessionType
      <3> HIDE DEF p
      <3>3. LET q == SetOnline(p) IN
            /\ q \in SessionType /\ q.account = p.account /\ q.recv = p.recv
            /\ q.recent = p.recent /\ q.logout = p.logout /\ q.save = p.save /\ q.player = p.player
        BY <3>1, SetOnlineFacts DEF Same6
      <3> QED
        BY <3>2, <3>3 DEF p
    <2>3. CASE /\ session' = [session EXCEPT ![s] = SetOnline(set("world"))]
               /\ online' = [online EXCEPT ![a] = @ + 1]
               /\ dirty' = [dirty EXCEPT ![a] = FALSE]
               /\ UNCHANGED kicks
      <3> DEFINE q == SetOnline(set("world"))
      <3>1. /\ q \in SessionType /\ q.account = r.account /\ q.recv = r.recv
            /\ q.recent = r.recent /\ q.logout = r.logout /\ q.save = r.save /\ q.player = "world"
        BY <2>2
      <3> HIDE DEF q
      <3>2. Becomes(s, q)
        BY <2>1, <2>3, <3>1, OneBecomes DEF q
      <3>3. session'[s] = q
        BY <3>2 DEF Becomes
      <3> QED
        BY <1>0, <1>1, <1>2, <2>1, <2>3, <3>1, <3>2, <3>3
    <2>4. CASE /\ session' = [session EXCEPT ![s] = KickPlayer(SetOnline(set("failed")))]
               /\ kicks < MaxKicks /\ kicks' = kicks + 1
               /\ UNCHANGED <<online, dirty>>
      <3> DEFINE p == SetOnline(set("failed"))
                 q == KickPlayer(p)
      <3>1. p \in SessionType /\ p.player = "failed"
        BY <2>2
      <3> HIDE DEF p
      <3>2. q \in SessionType /\ q.player = "failed"
        BY <3>1, KickPlayerFacts DEF Same6
      <3> HIDE DEF q
      <3>3. Becomes(s, q)
        BY <2>1, <2>4, <3>2, OneBecomes DEF q, p
      <3>4. session'[s] = q
        BY <3>3 DEF Becomes
      <3> QED
        BY <1>0, <1>1, <1>2, <2>1, <2>4, <3>2, <3>3, <3>4
    <2> QED
      BY <1>0, <1>4, <2>3, <2>4 DEF LoginCallback
  <1> QED
    BY <1>3, <1>4

LEMMA KickFacts ==
  ASSUME Served, (\E a \in Accounts : Kick(a)) \/ KickAllLess
  PROVE  \A s \in Sockets : session'[s].player = session[s].player
  <1>1. \A s \in Sockets : session[s] \in SessionType /\ KickPlayer(session[s]).player = session[s].player
    BY KickPlayerFacts DEF Served, Types
  <1>2. CASE \E a \in Accounts : Kick(a)
    <2>1. PICK a \in Accounts : Kick(a)
      BY <1>2
    <2>2. PICK x \in Sockets : session' = [session EXCEPT ![x] = KickPlayer(session[x])]
      BY <2>1 DEF Kick, Served, Types, Maybe
    <2>3. \A s \in Sockets : session'[s] = IF s = x THEN KickPlayer(session[x]) ELSE session[s]
      BY <2>2 DEF Served, Types
    <2> QED
      BY <1>1, <2>3
  <1>3. CASE KickAllLess
    <2>1. \A s \in Sockets : session'[s] \in {session[s], KickPlayer(session[s])}
      BY <1>3 DEF KickAllLess
    <2> QED
      BY <1>1, <2>1
  <1> QED
    BY <1>2, <1>3

LEMMA CleanupsFacts ==
  ASSUME Served, CleanupsBeforeStop
  PROVE  \A s \in Sockets : LET r == session[s]
                                q == session'[s]
                            IN  /\ q.account = r.account /\ q.recv = r.recv /\ (r.save => q.save)
                                /\ \A a \in Accounts : sessions[a] = s =>
                                       /\ q.recent
                                       /\ r.recent => q.player = r.player /\ q.logout = r.logout
                                       /\ ~r.recent => q.player = "none" /\ q.logout = 0
                                /\ (\A a \in Accounts : sessions[a] # s) => q = r
  <1> SUFFICES ASSUME NEW s \in Sockets
               PROVE  LET r == session[s]
                          q == session'[s]
                      IN  /\ q.account = r.account /\ q.recv = r.recv /\ (r.save => q.save)
                          /\ \A a \in Accounts : sessions[a] = s =>
                                 /\ q.recent
                                 /\ r.recent => q.player = r.player /\ q.logout = r.logout
                                 /\ ~r.recent => q.player = "none" /\ q.logout = 0
                          /\ (\A a \in Accounts : sessions[a] # s) => q = r
    OBVIOUS
  <1> DEFINE r == session[s]
             p == InPlace(r)
             q == LoggedOut(p)
  <1>1. s # None
    BY SessionsAssumption
  <1>2. session'[s] = IF s \in {sessions[a] : a \in Registered} THEN q ELSE r
    BY DEF CleanupsBeforeStop
  <1>3. (s \in {sessions[a] : a \in Registered}) <=> (\E a \in Accounts : sessions[a] = s)
    BY <1>1 DEF Registered
  <1>4. /\ p \in SessionType /\ p.account = r.account /\ p.recv = r.recv /\ p.save
        /\ p.recent = r.recent /\ p.logout = r.logout /\ p.player = r.player
    <2>1. r \in SessionType
      BY DEF Served, Types
    <2> QED
      BY <2>1, InPlaceFacts DEF Same6
  <1> HIDE DEF p
  <1>5. /\ q.account = p.account /\ q.recv = p.recv /\ q.save = p.save /\ q.recent
        /\ p.recent => q = p
        /\ ~p.recent => q.player = "none" /\ q.logout = 0
    BY <1>4, LoggedOutFacts DEF Same6
  <1> HIDE DEF q, r
  <1> QED
    BY <1>2, <1>3, <1>4, <1>5 DEF r
-----------------------------------------------------------------------------
(***************************************************************************)
(* Types: no character is taken out of a world it is not in.               *)
(***************************************************************************)
Counted ==
    /\ wpc \in {"tick", "add", "update", "take", "packets", "state", "maps", "results",
                "commands", "stopped"}
    /\ packets \in Nat /\ kicks \in Nat
    /\ online \in [Accounts -> Nat]
    /\ \A s \in Coming : session[s].player # "world"
    /\ \A a \in Registered : session[sessions[a]].player = "world" => online[a] > 0

\* Nobody has come into the world in this step.
NobodyEnters ==
    /\ \A s \in Sockets : session'[s].player = "world" => session[s].player = "world"
    /\ \A a \in Registered' : (a \in Registered /\ sessions'[a] = sessions[a]) \/ sessions'[a] \in Coming
    /\ \A s \in Coming' : s \in Coming \/ session'[s].player # "world"

LEMMA NobodyEntersCounts ==
  ASSUME Served, Served', Counted, NobodyEnters, online' \in [Accounts -> Nat],
         \A a \in Registered : session'[sessions[a]].player = "world" => online'[a] >= online[a],
         wpc' \in {"tick", "add", "update", "take", "packets", "state", "maps", "results",
                   "commands", "stopped"},
         packets' \in Nat, kicks' \in Nat
  PROVE  Counted'
  <1>1. ASSUME NEW s \in Coming'
        PROVE  session'[s].player # "world"
    <2>1. s \in Sockets
      BY DEF Coming, Elements, Served, Types
    <2> QED
      BY <2>1 DEF NobodyEnters, Counted
  <1>2. ASSUME NEW a \in Registered', session'[sessions'[a]].player = "world"
        PROVE  online'[a] > 0
    <2>1. sessions'[a] \in Sockets /\ a \in Accounts
      BY DEF Registered, Served, Types, Maybe
    <2>2. session[sessions'[a]].player = "world"
      BY <1>2, <2>1 DEF NobodyEnters
    <2>3. a \in Registered /\ sessions'[a] = sessions[a]
      BY <2>2 DEF NobodyEnters, Counted
    <2>4. online[a] > 0 /\ online'[a] >= online[a] /\ online[a] \in Nat /\ online'[a] \in Nat
      BY <1>2, <2>1, <2>2, <2>3 DEF Counted
    <2> QED
      BY <2>4
  <1> QED
    BY <1>1, <1>2 DEF Counted

LEMMA SameCount ==
  ASSUME Served, Served', Counted, NobodyEnters, online' = online, packets' \in Nat, kicks' \in Nat,
         wpc' \in {"tick", "add", "update", "take", "packets", "state", "maps", "results",
                   "commands", "stopped"}
  PROVE  Counted'
  <1>1. \A a \in Registered : a \in Accounts /\ online[a] \in Nat
    BY DEF Registered, Counted
  <1>2. \A a \in Registered : online'[a] >= online[a]
    BY <1>1
  <1> QED
    BY <1>2, NobodyEntersCounts DEF Counted

\* The sessions and those to come stay where they are.
LEMMA NobodyMoves ==
  ASSUME UNCHANGED <<sessions, addQueue, adding>>,
         \A s \in Sockets : session'[s].player = "world" => session[s].player = "world"
  PROVE  NobodyEnters
  BY DEF NobodyEnters, Registered, Coming, Elements

LEMMA ClientsCount ==
  ASSUME Served, Served', Counted, Client
  PROVE  Counted'
  <1>1. ASSUME NEW k \in Sockets, NEW a \in Accounts, HandleAuthSession(k, a), sessions[a] # None
        PROVE  Counted'
    <2>1. UNCHANGED <<sessions, addQueue, adding, wpc, online, packets, kicks>>
      BY <1>1 DEF HandleAuthSession, tick, characters, history
    <2>2. \A s \in Sockets : session'[s].player = session[s].player
      BY <1>1, TakeOverFacts DEF Steady
    <2> QED
      BY <2>1, <2>2, NobodyMoves, SameCount DEF Counted
  <1>2. ASSUME NEW k \in Sockets, NEW a \in Accounts, HandleAuthSession(k, a), sessions[a] = None
        PROVE  Counted'
    <2>1. /\ UNCHANGED <<sessions, adding, wpc, online, packets, kicks>>
          /\ addQueue' = Append(addQueue, k) /\ session' = [session EXCEPT ![k] = NewSession(a, k)]
      BY <1>2 DEF HandleAuthSession, tick, characters, history
    <2>2. NewSession(a, k).player = "none"
      <3>1. Blank \in SessionType /\ Blank.player = "none"
        BY DEF Blank, SessionType, Maybe
      <3> QED
        BY <3>1 DEF NewSession, SessionType
    <2>3. \A s \in Sockets : session'[s] = IF s = k THEN NewSession(a, k) ELSE session[s]
      BY <2>1 DEF Served, Types
    <2>4. Coming' = Coming \cup {k}
      <3>1. Elements(Append(addQueue, k)) = Elements(addQueue) \cup {k}
        BY ElementsOfAppend DEF Served, Types
      <3> QED
        BY <2>1, <3>1 DEF Coming, Elements
    <2>5. NobodyEnters
      BY <2>1, <2>2, <2>3, <2>4 DEF NobodyEnters, Registered
    <2> QED
      BY <2>1, <2>5, SameCount DEF Counted
  <1>3. ASSUME NEW k \in Sockets, NEW p \in Packet, QueuePacket(k, p)
        PROVE  Counted'
    <2>1. UNCHANGED <<sessions, addQueue, adding, wpc, online, kicks>> /\ packets' = packets + 1
      BY <1>3 DEF QueuePacket, tick, characters
    <2>2. \A s \in Sockets : session'[s].player = session[s].player
      BY <1>3, QueuePacketFacts DEF Becomes
    <2> QED
      BY <2>1, <2>2, NobodyMoves, SameCount DEF Counted
  <1>4. ASSUME NEW k \in Sockets, CloseSocket(k)
        PROVE  Counted'
    <2>1. UNCHANGED <<session, sessions, addQueue, adding, wpc, online, packets, kicks>>
      BY <1>4 DEF CloseSocket, tick, characters, history
    <2> QED
      BY <2>1, NobodyMoves, SameCount DEF Counted
  <1> QED
    BY <1>1, <1>2, <1>3, <1>4 DEF Client

LEMMA TimersCount ==
  ASSUME Served, Served', Counted, NEW k \in Sockets, LogoutTimer(k) \/ KickTimer(k)
  PROVE  Counted'
  <1>1. UNCHANGED <<sessions, addQueue, adding, wpc, online, packets, kicks>>
    BY DEF LogoutTimer, KickTimer, tick, characters, history
  <1>2. \A s \in Sockets : session'[s].player = session[s].player
    BY LogoutTimerFacts, KickTimerFacts DEF Becomes, Steady
  <1> QED
    BY <1>1, <1>2, NobodyMoves, SameCount DEF Counted

LEMMA AddingCounts ==
  ASSUME Served, Served', Counted, TakeAddQueue \/ AddExistingSession \/ AddSession
  PROVE  Counted'
  <1>1. CASE TakeAddQueue
    <2>1. /\ UNCHANGED <<session, sessions, online, packets, kicks>> /\ wpc' = "add"
          /\ adding' = addQueue /\ addQueue' = <<>>
      BY <1>1 DEF TakeAddQueue, characters, history
    <2>2. Coming' \subseteq Coming
      BY <2>1 DEF Coming, Elements
    <2>3. NobodyEnters
      BY <2>1, <2>2 DEF NobodyEnters, Registered
    <2> QED
      BY <2>1, <2>3, SameCount DEF Counted
  <1>2. CASE AddExistingSession
    <2>1. /\ UNCHANGED <<session, sessions, addQueue, wpc, online, packets, kicks>>
          /\ adding # <<>> /\ adding' = Tail(adding)
      BY <1>2 DEF AddExistingSession, characters, history
    <2>2. Elements(Tail(adding)) \subseteq Elements(adding)
      BY <2>1, ElementsOfTail DEF Served, Types
    <2>3. Coming' \subseteq Coming
      BY <2>1, <2>2 DEF Coming, Elements
    <2>4. NobodyEnters
      BY <2>1, <2>3 DEF NobodyEnters, Registered
    <2> QED
      BY <2>1, <2>4, SameCount DEF Counted
  <1>3. CASE AddSession
    <2>1. /\ UNCHANGED <<addQueue, wpc, online, packets, kicks>>
          /\ adding # <<>> /\ adding' = Tail(adding)
          /\ sessions' = [sessions EXCEPT ![session[Head(adding)].account] = Head(adding)]
      BY <1>3 DEF AddSession, characters, history
    <2>2. Elements(Tail(adding)) \subseteq Elements(adding) /\ Head(adding) \in Elements(adding)
      BY <2>1, ElementsOfTail DEF Served, Types
    <2>3. Coming' \subseteq Coming /\ Head(adding) \in Coming
      BY <2>1, <2>2 DEF Coming, Elements
    <2>4. \A a \in Registered' : (a \in Registered /\ sessions'[a] = sessions[a]) \/ sessions'[a] \in Coming
      BY <2>1, <2>3 DEF Registered, Served, Types
    <2>5. \A s \in Sockets : session'[s].player = session[s].player
      BY <1>3, AddSessionFacts DEF Steady
    <2>6. NobodyEnters
      BY <2>3, <2>4, <2>5 DEF NobodyEnters
    <2> QED
      BY <2>1, <2>6, SameCount DEF Counted
  <1> QED
    BY <1>1, <1>2, <1>3

LEMMA TickCounts ==
  ASSUME Served, Served', Counted,
         \/ AllAdded \/ (\E a \in Accounts : ExecuteMessages(a)) \/ TakePackets \/ PacketsDone
         \/ AllUpdated \/ UpdateMaps \/ NoMoreResults \/ EndTick
  PROVE  Counted'
  <1>1. UNCHANGED <<sessions, addQueue, adding, online, packets, kicks>>
    BY DEF AllAdded, ExecuteMessages, TakePackets, PacketsDone, AllUpdated, UpdateMaps,
           NoMoreResults, EndTick, characters, history
  <1>2. wpc' \in {"tick", "add", "update", "take", "packets", "state", "maps", "results",
                  "commands", "stopped"}
    BY DEF AllAdded, ExecuteMessages, TakePackets, PacketsDone, AllUpdated, UpdateMaps,
           NoMoreResults, EndTick
  <1>3. \A s \in Sockets : session'[s].player = session[s].player
    <2>1. CASE \E a \in Accounts : ExecuteMessages(a)
      BY <2>1, ExecuteMessagesFacts DEF Steady
    <2>2. CASE TakePackets
      BY <2>2, TakePacketsFacts DEF Becomes
    <2>3. CASE AllAdded \/ PacketsDone \/ AllUpdated \/ UpdateMaps \/ NoMoreResults \/ EndTick
      BY <2>3 DEF AllAdded, PacketsDone, AllUpdated, UpdateMaps, NoMoreResults, EndTick
    <2> QED
      BY <2>1, <2>2, <2>3
  <1> QED
    BY <1>1, <1>2, <1>3, NobodyMoves, SameCount DEF Counted

\* A character leaves the world when its session has one there.
LEMMA UnloadCounts ==
  ASSUME Served, Counted, Updating, NEW p, Unload(p), p.account = session[wcur].account,
         p.player = session[wcur].player
  PROVE  /\ online' \in [Accounts -> Nat]
         /\ \A a \in Accounts : a # session[wcur].account => online'[a] = online[a]
         /\ ~Leaves(p) => online' = online
  <1> DEFINE b == session[wcur].account
  <1>1. b \in Registered /\ sessions[b] = wcur /\ b \in Accounts
    BY CurrentSession DEF Registered
  <1>2. online \in [Accounts -> Nat]
    BY DEF Counted
  <1>3. CASE Leaves(p)
    <2>1. online[b] > 0 /\ online[b] \in Nat
      BY <1>1, <1>2, <1>3 DEF Leaves, Counted
    <2>2. online[b] - 1 \in Nat
      BY <2>1
    <2>3. online' = [online EXCEPT ![b] = online[b] - 1]
      BY <1>3 DEF Unload
    <2> HIDE DEF b
    <2> QED
      BY <1>1, <1>2, <1>3, <2>2, <2>3 DEF b
  <1>4. CASE ~Leaves(p)
    <2>1. online' = online
      BY <1>4 DEF Unload
    <2> QED
      BY <1>2, <1>4, <2>1
  <1> QED
    BY <1>3, <1>4

LEMMA LogoutCounts ==
  ASSUME Served, Served', Counted, Updating, LogoutPlayer(wcur),
         UNCHANGED <<sessions, addQueue, adding, packets, kicks>>,
         wpc' \in {"update", "packets"}
  PROVE  Counted'
  <1> DEFINE r == session[wcur]
             b == r.account
  <1>1. b \in Registered /\ sessions[b] = wcur /\ r \in SessionType
    BY CurrentSession
  <1>2. /\ Becomes(wcur, session'[wcur])
        /\ r.recent => session'[wcur] = r
        /\ ~r.recent => session'[wcur].player = "none"
    BY LogoutPlayerFacts
  <1>3. \A s \in Sockets : session'[s].player = "world" => session[s].player = "world"
    BY <1>2 DEF Becomes
  <1>4. /\ online' \in [Accounts -> Nat]
        /\ \A a \in Accounts : a # b => online'[a] = online[a]
        /\ ~Leaves(r) => online' = online
    BY UnloadCounts DEF LogoutPlayer
  <1>5. ASSUME NEW a \in Registered, session'[sessions[a]].player = "world"
        PROVE  online'[a] >= online[a]
    <2>1. a \in Accounts /\ online[a] \in Nat
      BY DEF Registered, Counted
    <2>2. CASE a = b
      <3>1. ~Leaves(r)
        BY <1>1, <1>2, <1>5, <2>2 DEF Leaves
      <3> QED
        BY <1>4, <2>1, <3>1
    <2>3. CASE a # b
      BY <1>4, <2>1, <2>3
    <2> QED
      BY <2>2, <2>3
  <1> QED
    BY <1>3, <1>4, <1>5, NobodyMoves, NobodyEntersCounts DEF Counted

LEMMA HandlePacketCounts ==
  ASSUME Served, Served', Counted, HandlePacket
  PROVE  Counted'
  <1> DEFINE r == session[wcur]
  <1>1. /\ wpc = "packets" /\ wpc' = "packets" /\ Updating
        /\ UNCHANGED <<sessions, addQueue, adding, packets, kicks>>
    BY DEF HandlePacket, Updating, history
  <1>2. CASE LogoutPlayer(wcur)
    BY <1>1, <1>2, LogoutCounts
  <1>3. CASE ~LogoutPlayer(wcur)
    <2>1. online' = online
      BY <1>3 DEF HandlePacket, HandleLogoutRequest, characters
    <2>2. \A s \in Sockets : session'[s].player = session[s].player
      <3>1. CASE HandlePlayerLogin(r)
        BY <1>1, <3>1, HandlePlayerLoginFacts DEF Becomes
      <3>2. ASSUME NEW time \in 0 .. 3, session' = [session EXCEPT ![wcur] = LogoutRequest(r, time, TRUE, FALSE)]
            PROVE  \A s \in Sockets : session'[s].player = session[s].player
        BY <1>1, <3>2, RequestFacts DEF Becomes
      <3>3. 0 \in 0 .. 3 /\ 1 \in 0 .. 3
        OBVIOUS
      <3>4. CASE session' = session
        BY <3>4
      <3> QED
        BY <1>3, <3>1, <3>2, <3>3, <3>4 DEF HandlePacket, HandleLogoutRequest
    <2> QED
      BY <1>1, <2>1, <2>2, NobodyMoves, SameCount DEF Counted
  <1> QED
    BY <1>2, <1>3

LEMMA UpdateStateCounts ==
  ASSUME Served, Served', Counted, UpdateState
  PROVE  Counted'
  <1> DEFINE r == session[wcur]
  <1>1. /\ wpc = "state" /\ wpc' = "update" /\ Updating
        /\ UNCHANGED <<addQueue, adding, packets, kicks>>
    BY UpdateStateKinds DEF Updating
  <1>2. CASE UpdateCreated
    <2>1. UNCHANGED <<sessions, online>>
      BY <1>2 DEF UpdateCreated, Kept
    <2>2. \A s \in Sockets : session'[s].player = session[s].player
      BY <1>2, UpdateCreatedFacts DEF Becomes, Letting
    <2> QED
      BY <1>1, <2>1, <2>2, NobodyMoves, SameCount DEF Counted
  <1>3. CASE UNCHANGED <<session, sessions, online, dirty>>
    BY <1>1, <1>3, NobodyMoves, SameCount DEF Counted
  <1>4. CASE /\ session' = [session EXCEPT ![wcur] = SetOffline(r)]
             /\ UNCHANGED <<sessions, online, dirty>>
    <2>1. \A s \in Sockets : session'[s].player = session[s].player
      BY <1>1, <1>4, GoneFacts DEF Becomes, Letting
    <2> QED
      BY <1>1, <1>4, <2>1, NobodyMoves, SameCount DEF Counted
  <1>5. CASE LogoutPlayer(wcur) /\ UNCHANGED sessions
    BY <1>1, <1>5, LogoutCounts
  <1>6. ASSUME NEW p, NEW sockets, p.account = r.account, p.player = r.player, Destroy(p, sockets)
        PROVE  Counted'
    <2> DEFINE b == r.account
    <2>1. b \in Registered /\ sessions[b] = wcur /\ b \in Accounts
      BY <1>1, CurrentSession DEF Registered
    <2>2. /\ online' \in [Accounts -> Nat]
          /\ \A a \in Accounts : a # b => online'[a] = online[a]
      BY <1>1, <1>6, UnloadCounts DEF Destroy
    <2>3. /\ session'[wcur].player = "none"
          /\ \A s \in Sockets : s # wcur => session'[s].player = session[s].player
          /\ sessions' = [sessions EXCEPT ![b] = None] /\ Registered' = Registered \ {b}
      BY <1>1, <1>6, DestroyFacts DEF Steady
    <2>4. \A s \in Sockets : session'[s].player = "world" => session[s].player = "world"
      BY <2>3
    <2>5. \A a \in Registered' : a \in Registered /\ sessions'[a] = sessions[a]
      BY <2>3 DEF Registered, Served, Types
    <2>6. NobodyEnters
      BY <1>1, <2>4, <2>5 DEF NobodyEnters, Coming, Elements
    <2>7. ASSUME NEW a \in Registered, session'[sessions[a]].player = "world"
          PROVE  online'[a] >= online[a]
      <3>1. a # b
        BY <2>1, <2>3, <2>7
      <3> QED
        BY <2>2, <3>1 DEF Registered, Counted
    <2> QED
      BY <1>1, <2>2, <2>6, <2>7, NobodyEntersCounts DEF Counted
  <1> QED
    BY <1>2, <1>3, <1>4, <1>5, <1>6, UpdateStateKinds

LEMMA LoginCallbackCounts ==
  ASSUME Served, Served', Counted, LoginCallback
  PROVE  Counted'
  <1> DEFINE a == Head(logins)
             s == sessions[a]
  <1>1. UNCHANGED <<sessions, addQueue, adding, wpc, packets>>
    BY DEF LoginCallback, tick
  <1>2. CASE s = None /\ UNCHANGED <<session, online, dirty, kicks>>
    BY <1>1, <1>2, NobodyMoves, SameCount DEF Counted
  <1>3. CASE /\ a \in Registered /\ Becomes(s, session'[s]) /\ session'[s].player = "world"
             /\ online' = [online EXCEPT ![a] = @ + 1] /\ UNCHANGED kicks
    <2>1. \A b \in Registered : b \in Accounts /\ sessions[b] \in Sockets /\ (b # a => sessions[b] # s)
      BY <1>3, RegisteredSessions DEF Registered
    <2>2. /\ online \in [Accounts -> Nat] /\ online' \in [Accounts -> Nat]
          /\ online'[a] > 0 /\ \A b \in Accounts : b # a => online'[b] = online[b]
      <3>1. online \in [Accounts -> Nat] /\ a \in Accounts
        BY <1>3, <2>1 DEF Counted
      <3>2. online' = [online EXCEPT ![a] = online[a] + 1] /\ online[a] + 1 \in Nat /\ online[a] + 1 > 0
        BY <1>3, <3>1
      <3> QED
        BY <3>1, <3>2
    <2>3. \A x \in Coming : x \in Sockets /\ x # s
      <3>1. \A x \in Coming : x \in Sockets /\ sessions[a] # x
        BY <1>3, <2>1, ComingSessions DEF Served, Homes
      <3> QED
        BY <3>1
    <2>4. Registered' = Registered /\ Coming' = Coming
      BY <1>1 DEF Registered, Coming, Elements
    <2>5. \A x \in Coming' : session'[x].player # "world"
      BY <1>3, <2>3, <2>4 DEF Counted, Becomes
    <2>6. ASSUME NEW b \in Registered', session'[sessions'[b]].player = "world"
          PROVE  online'[b] > 0
      <3>1. CASE b = a
        BY <2>2, <3>1
      <3>2. CASE b # a
        <4>1. b \in Registered /\ session'[sessions[b]] = session[sessions[b]] /\ b \in Accounts
          BY <1>3, <2>1, <2>4, <3>2 DEF Becomes
        <4> QED
          BY <1>1, <2>2, <2>6, <3>2, <4>1 DEF Counted
      <3> QED
        BY <3>1, <3>2
    <2> QED
      BY <1>1, <1>3, <2>2, <2>5, <2>6 DEF Counted
  <1>4. CASE /\ Becomes(s, session'[s]) /\ session'[s].player = "failed"
             /\ kicks' = kicks + 1 /\ UNCHANGED online
    <2>1. \A x \in Sockets : session'[x].player = "world" => session[x].player = "world"
      BY <1>4 DEF Becomes
    <2> QED
      BY <1>1, <1>4, <2>1, NobodyMoves, SameCount DEF Counted
  <1> QED
    BY <1>2, <1>3, <1>4, LoginCallbackFacts

LEMMA KicksCount ==
  ASSUME Served, Served', Counted, (\E a \in Accounts : Kick(a)) \/ KickAllLess
  PROVE  Counted'
  <1>1. UNCHANGED <<sessions, addQueue, adding, wpc, online, packets>> /\ kicks' = kicks + 1
    BY DEF Kick, KickAllLess, tick, characters
  <1> QED
    BY <1>1, KickFacts, NobodyMoves, SameCount DEF Counted

LEMMA CleanupsCount ==
  ASSUME Served, Served', Counted, CleanupsBeforeStop
  PROVE  Counted'
  <1> DEFINE left == {a \in Registered : Leaves(session[sessions[a]])}
  <1>1. /\ UNCHANGED <<sessions, addQueue, adding, packets, kicks>> /\ wpc' = "tick"
        /\ online' = [a \in Accounts |-> IF a \in left THEN online[a] - 1 ELSE online[a]]
    BY DEF CleanupsBeforeStop, history
  <1>2. \A a \in Accounts : online[a] \in Nat /\ (a \in left => online[a] > 0)
    BY DEF Counted, Leaves
  <1>3. \A s \in Sockets : session'[s].player = "world" =>
            /\ session[s].player = "world"
            /\ \A a \in Registered : sessions[a] = s => session[s].recent
    <2> SUFFICES ASSUME NEW s \in Sockets, session'[s].player = "world"
                 PROVE  /\ session[s].player = "world"
                        /\ \A a \in Registered : sessions[a] = s => session[s].recent
      OBVIOUS
    <2>1. /\ \A a \in Accounts : sessions[a] = s =>
                 /\ session[s].recent => session'[s].player = session[s].player
                 /\ ~session[s].recent => session'[s].player = "none"
          /\ (\A a \in Accounts : sessions[a] # s) => session'[s] = session[s]
      BY CleanupsFacts
    <2> QED
      BY <2>1 DEF Registered
  <1>4. online' \in [Accounts -> Nat]
    <2>1. \A a \in Accounts : (IF a \in left THEN online[a] - 1 ELSE online[a]) \in Nat
      BY <1>2
    <2> HIDE DEF left
    <2> QED
      BY <1>1, <2>1
  <1>5. ASSUME NEW a \in Registered, session'[sessions[a]].player = "world"
        PROVE  online'[a] >= online[a]
    <2>1. a \in Accounts /\ sessions[a] \in Sockets
      BY RegisteredSessions
    <2>2. a \notin left
      BY <1>3, <1>5, <2>1 DEF Leaves
    <2> HIDE DEF left
    <2> QED
      BY <1>1, <1>2, <2>1, <2>2
  <1> QED
    BY <1>1, <1>3, <1>4, <1>5, NobodyMoves, NobodyEntersCounts DEF Counted

LEMMA InitCounts ==
  ASSUME Init
  PROVE  Counted
  <1>1. Coming = {} /\ Registered = {}
    BY DEF Init, Coming, Elements, Registered
  <1> QED
    BY <1>1 DEF Init, Counted

LEMMA StepsCount ==
  ASSUME Served, Counted, [Next]_vars
  PROVE  Counted'
  <1>1. Served'
    BY StepsServe
  <1>2. CASE Client \/ (\E k \in Sockets : LogoutTimer(k) \/ KickTimer(k))
    BY <1>1, <1>2, ClientsCount, TimersCount
  <1>3. CASE WorldThread
    <2>1. CASE TakeAddQueue \/ AddExistingSession \/ AddSession
      BY <1>1, <2>1, AddingCounts
    <2>2. CASE \/ AllAdded \/ (\E a \in Accounts : ExecuteMessages(a)) \/ TakePackets \/ PacketsDone
               \/ AllUpdated \/ UpdateMaps \/ NoMoreResults \/ EndTick
      BY <1>1, <2>2, TickCounts
    <2>3. CASE HandlePacket \/ UpdateState \/ LoginCallback
      BY <1>1, <2>3, HandlePacketCounts, UpdateStateCounts, LoginCallbackCounts
    <2>4. CASE (\E a \in Accounts : Kick(a)) \/ KickAllLess \/ CleanupsBeforeStop
      BY <1>1, <2>4, KicksCount, CleanupsCount
    <2> QED
      BY <1>3, <2>1, <2>2, <2>3, <2>4 DEF WorldThread
  <1>4. CASE UNCHANGED vars
    <2>1. UNCHANGED <<session, sessions, addQueue, adding, wpc, online, packets, kicks>>
      BY <1>4 DEF vars, tick, characters, history
    <2> QED
      BY <1>1, <2>1, NobodyMoves, SameCount DEF Counted
  <1> QED
    BY <1>2, <1>3, <1>4 DEF Next

(***************************************************************************)
(* Every variable keeps its type, however logins, kicks and the ends of    *)
(* sessions interleave; in particular no count of characters in the world  *)
(* goes below zero.                                                        *)
(***************************************************************************)
THEOREM SessionsAreTyped == Spec => []TypeOK
  <1>1. Init => Served /\ Counted
    BY InitServes, InitCounts
  <1>2. Served /\ Counted /\ [Next]_vars => (Served /\ Counted)'
    BY StepsServe, StepsCount
  <1>3. Served /\ Counted => TypeOK
    BY DEF Served, Types, Counted, TypeOK
  <1> QED
    BY <1>1, <1>2, <1>3, PTL DEF Spec
-----------------------------------------------------------------------------
(***************************************************************************)
(* Where the characters are, as long as nobody is kicked and an account    *)
(* has one login at a time on its way.                                     *)
(***************************************************************************)
Once(q, x) == \A i, j \in DOMAIN q : q[i] = x /\ q[j] = x => i = j
InWorld(a) == a \in Registered /\ session[sessions[a]].player = "world"

\* A session saves; it has just logged out, or is logging out, only without or
\* with its character in the world; and its client has asked for one login.
Fine(r) ==
    /\ r.save /\ r.player # "failed"
    /\ r.recent => r.player = "none"
    /\ r.logout > 0 => r.player = "world"
    /\ Once(r.recv, "login")

Played ==
    /\ \A s \in Sockets : Fine(session[s])
    /\ \A a \in Accounts : online[a] = IF InWorld(a) THEN 1 ELSE 0
    /\ \A a \in Accounts : dirty[a] => InWorld(a)

Ended ==
    /\ stopping => wpc \notin {"maps", "results", "commands"}
    /\ stopping => \A a \in Accounts : ~InWorld(a)
    /\ wpc = "stopped" => stopping

\* The session that waits for its character has none, and its client has not
\* asked again.
Awaited ==
    /\ Different(logins)
    /\ \A a \in Registered : a \in Elements(logins) =>
           LET r == session[sessions[a]] IN
           "login" \notin Elements(r.recv) /\ r.player = "none" /\ (~stopping => ~r.recent)

Taken ==
    /\ Once(batch, "login")
    /\ wpc = "packets" /\ "login" \in Elements(batch) =>
           "login" \notin Elements(session[wcur].recv) /\ session[wcur].account \notin Elements(logins)

\* The world thread has not gone past the new session of a in this tick.
Untouched(a) ==
    \/ wpc = "add"
    \/ (wpc = "update" \/ Updating) /\ a \in todo
    \/ Updating /\ sessions[a] = wcur

\* Sessions to come are new; and while one of them waits for the next tick, the
\* one its account has was added in this one.
Newcomers ==
    /\ \A s \in Coming : LET r == session[s] IN
           /\ r.state = "created" /\ r.player = "none" /\ ~r.recent
           /\ r.account \notin Registered /\ "login" \in Elements(r.recv) => r.account \notin Elements(logins)
    /\ \A s \in Elements(addQueue) : LET a == session[s].account IN
           a \in Registered /\ Untouched(a) =>
               session[sessions[a]].state = "created" /\ session[sessions[a]].player = "none"

Cast == Played /\ Ended /\ Awaited /\ Taken /\ Newcomers

LEMMA SameWorld ==
  ASSUME Served, UNCHANGED sessions, \A s \in Sockets : session'[s].player = session[s].player
  PROVE  \A a \in Accounts : InWorld(a)' <=> InWorld(a)
  BY RegisteredSessions DEF InWorld, Registered

LEMMA EmptyBatch ==
  ASSUME batch' = <<>>
  PROVE  Taken'
  BY DEF Taken, Once, Elements

\* A step that brings no character into the world or out of it, no session and
\* no packet.
LEMMA CalmCast ==
  ASSUME Served, Cast, Taken', UNCHANGED <<sessions, addQueue, adding, stopping, logins, online>>,
         \A s \in Sockets : /\ session'[s].account = session[s].account
                            /\ session'[s].player = session[s].player
                            /\ session'[s].recent = session[s].recent
                            /\ session'[s].recv = session[s].recv
                            /\ Fine(session'[s]),
         \A s \in Coming : session'[s].state \in {session[s].state, "created"},
         \A a \in Registered : Untouched(a)' =>
             /\ Untouched(a)
             /\ session'[sessions[a]].state \in {session[sessions[a]].state, "created"},
         \A a \in Accounts : dirty'[a] => dirty[a] \/ InWorld(a),
         stopping => wpc' \notin {"maps", "results", "commands"},
         wpc' = "stopped" => stopping
  PROVE  Cast'
  <1>1. Registered' = Registered /\ Coming' = Coming /\ Elements(logins)' = Elements(logins)
        /\ Elements(addQueue)' = Elements(addQueue)
    BY DEF Registered, Coming, Elements
  <1>2. \A a \in Registered : a \in Accounts /\ sessions[a] \in Sockets
    BY RegisteredSessions
  <1>3. /\ \A s \in Coming : s \in Sockets
        /\ \A s \in Elements(addQueue) : s \in Coming
    BY ComingSessions DEF Coming
  <1>4. \A a \in Accounts : InWorld(a)' <=> InWorld(a)
    BY SameWorld
  <1>5. Played'
    BY <1>4 DEF Cast, Played
  <1>6. Ended'
    BY <1>4 DEF Cast, Ended
  <1>7. Awaited'
    <2>1. Different(logins)'
      BY DEF Cast, Awaited, Different
    <2>2. \A a \in Registered : a \in Elements(logins) =>
             /\ "login" \notin Elements(session'[sessions[a]].recv)
             /\ session'[sessions[a]].player = "none" /\ (~stopping => ~session'[sessions[a]].recent)
      BY <1>2 DEF Cast, Awaited
    <2> QED
      BY <1>1, <2>1, <2>2 DEF Awaited
  <1>8. Newcomers'
    <2>1. ASSUME NEW s \in Coming
          PROVE  LET r == session'[s] IN
                 /\ r.state = "created" /\ r.player = "none" /\ ~r.recent
                 /\ r.account \notin Registered /\ "login" \in Elements(r.recv) => r.account \notin Elements(logins)
      BY <1>3 DEF Cast, Newcomers
    <2>2. ASSUME NEW s \in Elements(addQueue), NEW a, a = session'[s].account, a \in Registered, Untouched(a)'
          PROVE  session'[sessions[a]].state = "created" /\ session'[sessions[a]].player = "none"
      <3>1. a = session[s].account /\ Untouched(a)
        BY <1>3, <2>2
      <3>2. session[sessions[a]].state = "created" /\ session[sessions[a]].player = "none"
        BY <2>2, <3>1 DEF Cast, Newcomers
      <3> QED
        BY <1>2, <2>2, <3>2
    <2> QED
      BY <1>1, <2>1, <2>2 DEF Newcomers
  <1> QED
    BY <1>5, <1>6, <1>7, <1>8 DEF Cast

\* The session that is updated is none of those that come or are to be updated.
LEMMA CurrentIsApart ==
  ASSUME Served, Updating
  PROVE  /\ wcur \notin Coming
         /\ \A a \in todo : a \in Registered /\ sessions[a] # wcur
         /\ \A a \in Registered : sessions[a] = wcur => a = session[wcur].account
  <1>1. session[wcur].account \in Accounts /\ sessions[session[wcur].account] = wcur
        /\ session[wcur].account \notin todo /\ todo \subseteq Registered
    BY DEF Served, Turn
  <1>2. session[wcur].account \in Registered
    BY CurrentSession
  <1>3. \A a \in Registered : sessions[a] = wcur => a = session[wcur].account
    BY <1>1, <1>2, RegisteredSessions
  <1> QED
    BY <1>1, <1>3 DEF Served, Homes

\* The same, when the members keep what tells where the character is.
LEMMA SteadyCast ==
  ASSUME Served, Cast, Taken', UNCHANGED <<sessions, addQueue, adding, stopping, logins, online>>,
         \A s \in Sockets : Steady(session[s], session'[s]),
         \A s \in Sockets : session'[s].state \in {session[s].state, "created"},
         \A a \in Registered : Untouched(a)' => Untouched(a),
         \A a \in Accounts : dirty'[a] => dirty[a] \/ InWorld(a),
         stopping => wpc' \notin {"maps", "results", "commands"},
         wpc' = "stopped" => stopping
  PROVE  Cast'
  <1>1. \A s \in Sockets : Fine(session'[s])
    BY DEF Cast, Played, Fine, Steady
  <1>2. /\ \A s \in Coming : s \in Sockets
        /\ \A a \in Registered : sessions[a] \in Sockets
    BY ComingSessions, RegisteredSessions
  <1> QED
    BY <1>1, <1>2, CalmCast DEF Steady

LEMMA StillCast ==
  ASSUME Served, Cast,
         UNCHANGED <<sessions, addQueue, adding, stopping, logins, online, dirty, wpc, todo, wcur, batch>>,
         \A s \in Sockets : Steady(session[s], session'[s]) /\ session'[s].state = session[s].state
  PROVE  Cast'
  <1>1. Updating => wcur \in Sockets
    BY CurrentSession
  <1>2. Taken'
    <2>1. wpc = "packets" => wcur \in Sockets
      BY <1>1 DEF Updating
    <2> QED
      BY <2>1 DEF Cast, Taken, Once, Elements, Steady
  <1>3. \A a \in Registered : Untouched(a)' => Untouched(a)
    BY DEF Untouched, Updating
  <1> QED
    BY <1>2, <1>3, SteadyCast DEF Cast, Ended

LEMMA StillSteps ==
  ASSUME Served, Cast,
         \/ \E k \in Sockets : CloseSocket(k)
         \/ \E k \in Sockets : KickTimer(k)
         \/ \E k \in Sockets, a \in Accounts : HandleAuthSession(k, a) /\ sessions[a] # None
         \/ UNCHANGED vars
  PROVE  Cast'
  <1>1. UNCHANGED <<sessions, addQueue, adding, stopping, logins, online, dirty, wpc, todo, wcur, batch>>
    BY DEF CloseSocket, KickTimer, HandleAuthSession, vars, tick, characters
  <1>2. \A s \in Sockets : Steady(session[s], session'[s]) /\ session'[s].state = session[s].state
    <2>1. CASE \E k \in Sockets : KickTimer(k)
      BY <2>1, KickTimerFacts
    <2>2. CASE \E k \in Sockets, a \in Accounts : HandleAuthSession(k, a) /\ sessions[a] # None
      BY <2>2, TakeOverFacts
    <2>3. CASE session' = session
      BY <2>3 DEF Steady
    <2> QED
      BY <2>1, <2>2, <2>3 DEF CloseSocket, vars
  <1> QED
    BY <1>1, <1>2, StillCast

LEMMA LogoutTimerCast ==
  ASSUME Served, Cast, NEW k \in Sockets, LogoutTimer(k)
  PROVE  Cast'
  <1>1. UNCHANGED <<sessions, addQueue, adding, stopping, logins, online, dirty, wpc, todo, wcur, batch>>
    BY DEF LogoutTimer, tick, characters
  <1>2. \A s \in Sockets : /\ session'[s].account = session[s].account
                           /\ session'[s].player = session[s].player
                           /\ session'[s].recent = session[s].recent
                           /\ session'[s].recv = session[s].recv
                           /\ session'[s].state = session[s].state
                           /\ session'[s].save = session[s].save
    BY LogoutTimerFacts DEF Becomes
  <1>3. session[k].logout > 0 /\ \A s \in Sockets : s # k => session'[s] = session[s]
    BY LogoutTimerFacts DEF Becomes
  <1>4. \A s \in Sockets : Fine(session'[s])
    <2>1. \A s \in Sockets : Fine(session[s])
      BY DEF Cast, Played
    <2> QED
      BY <1>2, <1>3, <2>1 DEF Fine
  <1>5. Updating => wcur \in Sockets
    BY CurrentSession
  <1>6. Taken'
    <2>1. wpc = "packets" => wcur \in Sockets
      BY <1>5 DEF Updating
    <2> QED
      BY <1>1, <1>2, <2>1 DEF Cast, Taken, Once, Elements
  <1>7. \A a \in Registered : sessions[a] \in Sockets /\ (Untouched(a)' => Untouched(a))
    BY <1>1, RegisteredSessions DEF Untouched, Updating
  <1>8. \A s \in Coming : s \in Sockets
    BY ComingSessions
  <1> QED
    BY <1>1, <1>2, <1>4, <1>6, <1>7, <1>8, CalmCast DEF Cast, Ended

\* Steps that take the tick further and bring nobody into or out of the world.
LEMMA FurtherCast ==
  ASSUME Served, Counted, Cast,
         \/ AllAdded \/ (\E a \in Accounts : ExecuteMessages(a)) \/ PacketsDone
         \/ AllUpdated \/ UpdateMaps \/ NoMoreResults \/ EndTick
  PROVE  Cast'
  <1>1. UNCHANGED <<sessions, addQueue, adding, stopping, logins, online>>
    BY DEF AllAdded, ExecuteMessages, PacketsDone, AllUpdated, UpdateMaps, NoMoreResults, EndTick,
           characters
  <1>2. batch' = <<>>
    BY DEF AllAdded, ExecuteMessages, PacketsDone, AllUpdated, UpdateMaps, NoMoreResults, EndTick,
           Served, Turn
  <1>3. \A s \in Sockets : Steady(session[s], session'[s]) /\ session'[s].state \in {session[s].state, "created"}
    <2>1. CASE \E a \in Accounts : ExecuteMessages(a)
      BY <2>1, ExecuteMessagesFacts
    <2>2. CASE session' = session
      BY <2>2 DEF Steady
    <2> QED
      BY <2>1, <2>2 DEF AllAdded, PacketsDone, AllUpdated, UpdateMaps, NoMoreResults, EndTick
  <1>4. ASSUME NEW a \in Registered, Untouched(a)'
        PROVE  Untouched(a)
    <2>1. CASE \E b \in Accounts : ExecuteMessages(b)
      <3>1. PICK b \in Accounts : ExecuteMessages(b)
        BY <2>1
      <3>2. wpc = "update" /\ b \in todo /\ wcur' = sessions[b] /\ todo' = todo \ {b} /\ wpc' = "take"
        BY <3>1 DEF ExecuteMessages
      <3>3. b \in Registered
        BY <3>2 DEF Served, Turn
      <3>4. a \in todo \/ sessions[a] = sessions[b]
        BY <1>1, <1>4, <3>2 DEF Untouched, Updating
      <3>5. a \in todo
        BY <3>2, <3>3, <3>4, RegisteredSessions
      <3> QED
        BY <3>2, <3>5 DEF Untouched
    <2>2. CASE AllAdded
      BY <2>2 DEF AllAdded, Untouched
    <2>3. CASE PacketsDone
      BY <1>4, <2>3 DEF PacketsDone, Untouched, Updating
    <2>4. CASE AllUpdated \/ UpdateMaps \/ NoMoreResults \/ EndTick
      BY <1>4, <2>4 DEF AllUpdated, UpdateMaps, NoMoreResults, EndTick, Untouched, Updating
    <2> QED
      BY <2>1, <2>2, <2>3, <2>4
  <1>5. ASSUME NEW a \in Accounts, dirty'[a]
        PROVE  dirty[a] \/ InWorld(a)
    <2>1. CASE UpdateMaps
      <3>1. PICK changed \in SUBSET {b \in Accounts : online[b] > 0} :
                dirty' = [b \in Accounts |-> IF online[b] > 0 THEN b \in changed ELSE dirty[b]]
        BY <2>1 DEF UpdateMaps
      <3>2. online[a] > 0 => InWorld(a)
        BY DEF Cast, Played
      <3> QED
        BY <1>5, <3>1, <3>2
    <2>2. CASE dirty' = dirty
      BY <1>5, <2>2
    <2> QED
      BY <2>1, <2>2 DEF AllAdded, ExecuteMessages, PacketsDone, AllUpdated, NoMoreResults, EndTick,
                        characters
  <1>6. stopping => wpc' \notin {"maps", "results", "commands"}
    BY DEF AllAdded, ExecuteMessages, PacketsDone, AllUpdated, UpdateMaps, NoMoreResults, EndTick,
           Cast, Ended
  <1>7. wpc' = "stopped" => stopping
    BY DEF AllAdded, ExecuteMessages, PacketsDone, AllUpdated, UpdateMaps, NoMoreResults, EndTick
  <1> QED
    BY <1>1, <1>2, <1>3, <1>4, <1>5, <1>6, <1>7, EmptyBatch, SteadyCast

LEMMA NewSessionIsFine ==
  ASSUME NEW a \in Accounts, NEW k \in Sockets
  PROVE  LET q == NewSession(a, k) IN
         /\ q.account = a /\ q.state = "created" /\ q.player = "none" /\ ~q.recent /\ q.recv = <<>>
         /\ Fine(q)
  <1>1. /\ Blank \in SessionType /\ Blank.player = "none" /\ Blank.recent = FALSE
        /\ Blank.logout = 0 /\ Blank.save = TRUE /\ Blank.recv = <<>>
    BY DEF Blank, SessionType, Maybe
  <1> DEFINE q == NewSession(a, k)
  <1>2. /\ q.account = a /\ q.state = "created" /\ q.player = "none" /\ q.recent = FALSE /\ q.recv = <<>>
        /\ q.logout = 0 /\ q.save = TRUE
    BY <1>1 DEF NewSession, SessionType
  <1> HIDE DEF q
  <1>3. Fine(q)
    BY <1>2 DEF Fine, Once
  <1> QED
    BY <1>2, <1>3 DEF q

LEMMA ComesCast ==
  ASSUME Served, Cast, NEW k \in Sockets, NEW a \in Accounts, HandleAuthSession(k, a), sessions[a] = None
  PROVE  Cast'
  <1> DEFINE q == NewSession(a, k)
  <1>1. /\ sock[k].state = "idle" /\ addQueue' = Append(addQueue, k)
        /\ session' = [session EXCEPT ![k] = q]
    BY DEF HandleAuthSession
  <1>2. UNCHANGED <<sessions, adding, wpc, todo, wcur, batch, stopping, logins, online, dirty>>
    BY DEF HandleAuthSession, tick, characters
  <1>3. /\ q.account = a /\ q.state = "created" /\ q.player = "none" /\ ~q.recent /\ q.recv = <<>>
        /\ Fine(q)
    BY NewSessionIsFine
  <1> HIDE DEF q
  <1>4. \A s \in Sockets : session'[s] = IF s = k THEN q ELSE session[s]
    BY <1>1 DEF Served, Types
  <1>5. /\ \A b \in Registered : b \in Accounts /\ sessions[b] \in Sockets /\ sessions[b] # k
        /\ \A s \in Coming : s \in Sockets /\ s # k
    BY <1>1, RegisteredSessions, ComingSessions
  <1>6. Elements(addQueue)' = Elements(addQueue) \cup {k} /\ Elements(adding)' = Elements(adding)
        /\ Elements(logins)' = Elements(logins)
    <2>1. Elements(Append(addQueue, k)) = Elements(addQueue) \cup {k}
      BY ElementsOfAppend DEF Served, Types
    <2> QED
      BY <1>1, <1>2, <2>1 DEF Elements
  <1>7. Registered' = Registered /\ Coming' = Coming \cup {k} /\ a \notin Registered
    BY <1>2, <1>6, SessionsAssumption DEF Registered, Coming, HandleAuthSession
  <1>8. \A b \in Accounts : InWorld(b)' <=> InWorld(b)
    BY <1>2, <1>4, <1>5, <1>7 DEF InWorld
  <1>9. Played'
    BY <1>2, <1>3, <1>4, <1>8 DEF Cast, Played
  <1>10. Ended'
    BY <1>2, <1>8 DEF Cast, Ended
  <1>11. Awaited'
    BY <1>2, <1>4, <1>5, <1>6, <1>7 DEF Cast, Awaited, Different
  <1>12. Taken'
    <2>1. wpc = "packets" => wcur # k /\ wcur \in Sockets
      BY <1>5, CurrentSession DEF Updating
    <2> QED
      BY <1>2, <1>4, <1>6, <2>1 DEF Cast, Taken, Once, Elements
  <1>13. Newcomers'
    <2>1. ASSUME NEW s \in Coming \cup {k}
          PROVE  LET r == session'[s] IN
                 /\ r.state = "created" /\ r.player = "none" /\ ~r.recent
                 /\ r.account \notin Registered /\ "login" \in Elements(r.recv) => r.account \notin Elements(logins)
      <3>1. CASE s = k
        BY <1>3, <1>4, <3>1 DEF Elements
      <3>2. CASE s # k
        BY <1>4, <1>5, <2>1, <3>2 DEF Cast, Newcomers
      <3> QED
        BY <3>1, <3>2
    <2>2. ASSUME NEW s \in Elements(addQueue) \cup {k}, NEW b, b = session'[s].account,
                 b \in Registered, Untouched(b)'
          PROVE  session'[sessions[b]].state = "created" /\ session'[sessions[b]].player = "none"
      <3>1. s # k /\ s \in Elements(addQueue) /\ s \in Coming
        BY <1>3, <1>4, <1>7, <2>2 DEF Coming
      <3>2. b = session[s].account /\ Untouched(b)
        BY <1>2, <1>4, <1>5, <2>2, <3>1 DEF Untouched, Updating
      <3>3. session[sessions[b]].state = "created" /\ session[sessions[b]].player = "none"
        BY <2>2, <3>1, <3>2 DEF Cast, Newcomers
      <3> QED
        BY <1>4, <1>5, <2>2, <3>3
    <2> QED
      BY <1>2, <1>6, <1>7, <2>1, <2>2 DEF Newcomers
  <1> QED
    BY <1>9, <1>10, <1>11, <1>12, <1>13 DEF Cast

LEMMA OnceAfter ==
  ASSUME NEW S, NEW q \in Seq(S), NEW x \in S, Once(q, x)
  PROVE  /\ \A p \in S : (p = x => x \notin Elements(q)) => Once(Append(q, p), x)
         /\ q # <<>> => /\ Once(Tail(q), x) /\ Elements(Tail(q)) \subseteq Elements(q)
                        /\ Head(q) \in Elements(q) /\ (Head(q) = x => x \notin Elements(Tail(q)))
  <1>1. ASSUME NEW p \in S, p = x => x \notin Elements(q)
        PROVE  Once(Append(q, p), x)
    <2>1. /\ Len(q) \in Nat /\ DOMAIN q = 1 .. Len(q) /\ DOMAIN Append(q, p) = 1 .. Len(q) + 1
          /\ \A i \in 1 .. Len(q) : Append(q, p)[i] = q[i]
          /\ Append(q, p)[Len(q) + 1] = p
      OBVIOUS
    <2>2. \A i \in 1 .. Len(q) + 1 : i \in 1 .. Len(q) \/ i = Len(q) + 1
      BY <2>1
    <2> QED
      BY <1>1, <2>1, <2>2 DEF Once, Elements
  <1>2. ASSUME q # <<>>
        PROVE  /\ Once(Tail(q), x) /\ Elements(Tail(q)) \subseteq Elements(q)
               /\ Head(q) \in Elements(q) /\ (Head(q) = x => x \notin Elements(Tail(q)))
    <2>1. /\ Len(q) \in Nat /\ Len(q) > 0 /\ DOMAIN q = 1 .. Len(q) /\ DOMAIN Tail(q) = 1 .. Len(q) - 1
          /\ \A i \in 1 .. Len(q) - 1 : Tail(q)[i] = q[i + 1]
          /\ Head(q) = q[1]
      BY <1>2
    <2>2. Elements(Tail(q)) \subseteq Elements(q) /\ Head(q) \in Elements(q)
      BY <1>2, ElementsOfTail
    <2>3. Once(Tail(q), x)
      <3> SUFFICES ASSUME NEW i \in DOMAIN Tail(q), NEW j \in DOMAIN Tail(q), Tail(q)[i] = x, Tail(q)[j] = x
                   PROVE  i = j
        BY DEF Once
      <3>1. i + 1 \in DOMAIN q /\ j + 1 \in DOMAIN q /\ q[i + 1] = x /\ q[j + 1] = x
        BY <2>1
      <3>2. i + 1 = j + 1
        BY <3>1 DEF Once
      <3> QED
        BY <2>1, <3>2
    <2>4. ASSUME Head(q) = x, x \in Elements(Tail(q))
          PROVE  FALSE
      <3>1. PICK i \in DOMAIN Tail(q) : Tail(q)[i] = x
        BY <2>4 DEF Elements
      <3>2. i + 1 \in DOMAIN q /\ q[i + 1] = x /\ 1 \in DOMAIN q /\ q[1] = x
        BY <2>1, <2>4, <3>1
      <3>3. i + 1 = 1
        BY <3>2 DEF Once
      <3> QED
        BY <2>1, <3>1, <3>3
    <2> QED
      BY <2>2, <2>3, <2>4
  <1> QED
    BY <1>1, <1>2

\* A packet arrives; a login only if none of its account is on its way.
LEMMA QueuePacketCast ==
  ASSUME Served, Cast, OneLoginAtATime, NEW k \in Sockets, NEW p \in Packet, QueuePacket(k, p)
  PROVE  Cast'
  <1>0. PICK x, r, q : x = sock[k].session /\ r = session[x] /\ q = session'[x]
    OBVIOUS
  <1>1. /\ Becomes(x, q) /\ q.account = r.account /\ q.player = r.player /\ q.recent = r.recent
        /\ q.logout = r.logout /\ q.save = r.save /\ q.state = r.state
        /\ r.recv \in Seq(Packet) /\ q.recv = Append(r.recv, p)
    BY <1>0, QueuePacketFacts
  <1>2. UNCHANGED <<sessions, addQueue, adding, wpc, todo, wcur, batch, stopping, logins, online, dirty>>
    BY DEF QueuePacket, tick, characters
  <1>3. p = "login" => ~LoginPending(x)
    BY <1>0 DEF QueuePacket
  <1>4. /\ \A s \in Sockets : /\ session'[s].account = session[s].account
                              /\ session'[s].player = session[s].player
                              /\ session'[s].recent = session[s].recent
                              /\ session'[s].state = session[s].state
        /\ \A s \in Sockets : s # x => session'[s].recv = session[s].recv
        /\ x \in Sockets
    BY <1>0, <1>1 DEF Becomes
  <1>5. Elements(q.recv) = Elements(r.recv) \cup {p}
    BY <1>1, ElementsOfAppend
  <1>6. \A s \in Sockets : Fine(session'[s])
    <2>1. \A s \in Sockets : Fine(session[s])
      BY DEF Cast, Played
    <2>2. Once(r.recv, "login")
      BY <1>0, <1>4, <2>1 DEF Fine
    <2>3. p = "login" => "login" \notin Elements(r.recv)
      BY <1>0, <1>3 DEF LoginPending
    <2>4. Once(Append(r.recv, p), "login")
      <3>1. "login" \in Packet
        BY DEF Packet
      <3> QED
        BY <1>1, <2>2, <2>3, <3>1, OnceAfter
    <2>5. Fine(q)
      <3>1. Fine(r) /\ Once(q.recv, "login")
        BY <1>0, <1>1, <1>4, <2>1, <2>4
      <3> QED
        BY <1>1, <3>1 DEF Fine
    <2> QED
      BY <1>1, <2>1, <2>5 DEF Becomes
  <1>7. Registered' = Registered /\ Coming' = Coming /\ Elements(logins)' = Elements(logins)
        /\ Elements(addQueue)' = Elements(addQueue) /\ Elements(batch)' = Elements(batch)
    BY <1>2 DEF Registered, Coming, Elements
  <1>8. /\ \A a \in Registered : a \in Accounts /\ sessions[a] \in Sockets /\ session[sessions[a]].account = a
        /\ \A s \in Coming : s \in Sockets
    BY RegisteredSessions, ComingSessions
  <1>9. \A a \in Accounts : InWorld(a)' <=> InWorld(a)
    BY <1>2, <1>4, SameWorld
  <1>10. Played'
    BY <1>2, <1>6, <1>9 DEF Cast, Played
  <1>11. Ended'
    BY <1>2, <1>9 DEF Cast, Ended
  <1>12. Awaited'
    <2>1. ASSUME NEW a \in Registered, a \in Elements(logins), "login" \in Elements(session'[sessions[a]].recv)
          PROVE  FALSE
      <3>1. "login" \notin Elements(session[sessions[a]].recv)
        BY <2>1 DEF Cast, Awaited
      <3>2. sessions[a] = x /\ p = "login"
        BY <1>0, <1>4, <1>5, <1>8, <2>1, <3>1
      <3> QED
        BY <1>3, <1>8, <2>1, <3>2 DEF LoginPending
    <2> QED
      BY <1>2, <1>4, <1>7, <1>8, <2>1 DEF Cast, Awaited, Different
  <1>13. Taken'
    <2>1. ASSUME wpc = "packets", "login" \in Elements(batch)
          PROVE  /\ "login" \notin Elements(session'[wcur].recv)
                 /\ session'[wcur].account \notin Elements(logins)
      <3>1. wcur \in Sockets
        BY <2>1, CurrentSession DEF Updating
      <3>2. x = wcur => p # "login"
        BY <1>3, <2>1 DEF LoginPending
      <3>3. "login" \notin Elements(session[wcur].recv) /\ session[wcur].account \notin Elements(logins)
        BY <2>1 DEF Cast, Taken
      <3> QED
        BY <1>0, <1>4, <1>5, <3>1, <3>2, <3>3
    <2> QED
      BY <1>2, <1>7, <2>1 DEF Cast, Taken, Once
  <1>14. Newcomers'
    <2>1. ASSUME NEW s \in Coming
          PROVE  LET t == session'[s] IN
                 /\ t.state = "created" /\ t.player = "none" /\ ~t.recent
                 /\ t.account \notin Registered /\ "login" \in Elements(t.recv) => t.account \notin Elements(logins)
      <3>1. /\ session[s].state = "created" /\ session[s].player = "none" /\ ~session[s].recent
            /\ session[s].account \notin Registered /\ "login" \in Elements(session[s].recv)
                  => session[s].account \notin Elements(logins)
        BY DEF Cast, Newcomers
      <3>2. CASE s = x /\ p = "login"
        BY <1>3, <1>4, <1>8, <3>1, <3>2 DEF LoginPending
      <3>3. CASE ~(s = x /\ p = "login")
        BY <1>0, <1>4, <1>5, <1>8, <3>1, <3>3
      <3> QED
        BY <3>2, <3>3
    <2>2. ASSUME NEW s \in Elements(addQueue), NEW a, a = session'[s].account, a \in Registered, Untouched(a)'
          PROVE  session'[sessions[a]].state = "created" /\ session'[sessions[a]].player = "none"
      <3>1. s \in Coming /\ a = session[s].account /\ Untouched(a)
        BY <1>2, <1>4, <1>8, <2>2 DEF Coming, Untouched, Updating
      <3>2. session[sessions[a]].state = "created" /\ session[sessions[a]].player = "none"
        BY <2>2, <3>1 DEF Cast, Newcomers
      <3> QED
        BY <1>4, <1>8, <2>2, <3>2
    <2> QED
      BY <1>2, <1>7, <2>1, <2>2 DEF Newcomers
  <1> QED
    BY <1>10, <1>11, <1>12, <1>13, <1>14 DEF Cast

\* The sessions to come move on, and nothing else does.
LEMMA QueueMovesCast ==
  ASSUME Served, Cast, TakeAddQueue \/ AddExistingSession
  PROVE  Cast'
  <1>1. UNCHANGED <<sessions, session, todo, wcur, batch, stopping, logins, online, dirty>>
    BY DEF TakeAddQueue, AddExistingSession, characters
  <1>2. wpc \in {"tick", "add"} /\ wpc' = "add"
    BY DEF TakeAddQueue, AddExistingSession
  <1>3. Coming' \subseteq Coming /\ Elements(addQueue)' \subseteq Elements(addQueue)
        /\ (wpc = "tick" => addQueue' = <<>>)
    <2>1. CASE TakeAddQueue
      BY <2>1 DEF TakeAddQueue, Coming, Elements
    <2>2. CASE AddExistingSession
      <3>1. Elements(adding) = Elements(Tail(adding)) \cup {Head(adding)}
        BY <2>2, ElementsOfTail DEF AddExistingSession, Served, Types
      <3> QED
        BY <2>2, <3>1 DEF AddExistingSession, Coming, Elements
    <2> QED
      BY <2>1, <2>2
  <1>4. Registered' = Registered /\ Elements(logins)' = Elements(logins)
    BY <1>1 DEF Registered, Elements
  <1>5. \A a \in Accounts : InWorld(a)' <=> InWorld(a)
    BY <1>1, SameWorld
  <1>6. Played' /\ Ended'
    BY <1>1, <1>2, <1>5 DEF Cast, Played, Ended
  <1>7. Awaited'
    BY <1>1, <1>4 DEF Cast, Awaited, Different
  <1>8. Taken'
    BY <1>1, <1>2 DEF Cast, Taken, Once
  <1>9. Newcomers'
    <2>1. \A s \in Coming' : LET r == session[s] IN
             /\ r.state = "created" /\ r.player = "none" /\ ~r.recent
             /\ r.account \notin Registered /\ "login" \in Elements(r.recv) => r.account \notin Elements(logins)
      BY <1>3 DEF Cast, Newcomers
    <2>2. ASSUME NEW s \in Elements(addQueue)', session[s].account \in Registered
          PROVE  session[sessions[session[s].account]].state = "created"
                 /\ session[sessions[session[s].account]].player = "none"
      <3>1. wpc = "add"
        BY <1>2, <1>3, <2>2 DEF Elements
      <3>2. Untouched(session[s].account)
        BY <3>1 DEF Untouched
      <3> QED
        BY <1>3, <2>2, <3>2 DEF Cast, Newcomers
    <2> QED
      BY <1>1, <1>4, <2>1, <2>2 DEF Newcomers
  <1> QED
    BY <1>6, <1>7, <1>8, <1>9 DEF Cast

\* An account gets its session, new and without a character.
LEMMA AddSessionCast ==
  ASSUME Served, Cast, AddSession
  PROVE  Cast'
  <1>0. PICK x, a : x = Head(adding) /\ a = session[x].account
    OBVIOUS
  <1>1. /\ wpc = "add" /\ adding # <<>> /\ sessions[a] = None
        /\ sessions' = [sessions EXCEPT ![a] = x] /\ adding' = Tail(adding)
        /\ UNCHANGED <<addQueue, wpc, todo, wcur, batch, stopping, logins, online, dirty>>
    BY <1>0 DEF AddSession, characters
  <1>2. /\ x \in Sockets /\ x \in Coming /\ a \in Accounts
        /\ Elements(adding) = Elements(Tail(adding)) \cup {x}
    <2>1. Elements(adding) = Elements(Tail(adding)) \cup {x}
      BY <1>0, <1>1, ElementsOfTail DEF Served, Types
    <2>2. x \in Coming
      BY <2>1 DEF Coming
    <2> QED
      BY <1>0, <2>1, <2>2, ComingSessions DEF Served, Homes
  <1>3. \A s \in Sockets : Steady(session[s], session'[s]) /\ session'[s].state = session[s].state
    BY AddSessionFacts
  <1>4. /\ Coming' \subseteq Coming /\ \A s \in Coming : s \in Sockets
        /\ Elements(addQueue)' = Elements(addQueue) /\ Elements(logins)' = Elements(logins)
    BY <1>1, <1>2, ComingSessions DEF Coming, Elements
  <1>5. a \notin Registered /\ x # None
    BY <1>1, <1>2, SessionsAssumption DEF Registered
  <1>6. \A b \in Accounts : sessions'[b] = IF b = a THEN x ELSE sessions[b]
    BY <1>1 DEF Served, Types
  <1>7. Registered' = Registered \cup {a}
    BY <1>2, <1>5, <1>6 DEF Registered
  <1>8. \A b \in Registered : b \in Accounts /\ sessions[b] \in Sockets
    BY RegisteredSessions
  <1>9. /\ session[x].state = "created" /\ session[x].player = "none" /\ ~session[x].recent
        /\ "login" \in Elements(session[x].recv) => a \notin Elements(logins)
    BY <1>0, <1>2, <1>5 DEF Cast, Newcomers
  <1>10. \A b \in Accounts : InWorld(b)' <=> InWorld(b)
    <2> SUFFICES ASSUME NEW b \in Accounts
                 PROVE  InWorld(b)' <=> InWorld(b)
      OBVIOUS
    <2>1. CASE b = a
      BY <1>2, <1>3, <1>5, <1>6, <1>9, <2>1 DEF InWorld, Steady
    <2>2. CASE b # a
      BY <1>3, <1>6, <1>7, <1>8, <2>2 DEF InWorld, Steady
    <2> QED
      BY <2>1, <2>2
  <1>11. Played'
    <2>1. \A s \in Sockets : Fine(session'[s])
      BY <1>3 DEF Cast, Played, Fine, Steady
    <2> QED
      BY <1>1, <1>10, <2>1 DEF Cast, Played
  <1>12. Ended'
    BY <1>1, <1>10 DEF Cast, Ended
  <1>13. Awaited'
    <2>1. ASSUME NEW b \in Registered', b \in Elements(logins)
          PROVE  LET r == session'[sessions'[b]] IN
                 "login" \notin Elements(r.recv) /\ r.player = "none" /\ (~stopping => ~r.recent)
      <3>1. CASE b = a
        BY <1>2, <1>3, <1>6, <1>9, <2>1, <3>1 DEF Steady
      <3>2. CASE b # a
        <4>1. b \in Registered /\ sessions'[b] = sessions[b]
          BY <1>6, <1>7, <1>8, <2>1, <3>2
        <4> QED
          BY <1>3, <1>8, <2>1, <4>1 DEF Cast, Awaited, Steady
      <3> QED
        BY <3>1, <3>2
    <2>2. Different(logins)'
      BY <1>1 DEF Cast, Awaited, Different
    <2> QED
      BY <1>1, <1>4, <2>1, <2>2 DEF Awaited
  <1>14. Taken'
    BY <1>1 DEF Cast, Taken, Once
  <1>15. Newcomers'
    <2>1. ASSUME NEW s \in Coming'
          PROVE  LET r == session'[s] IN
                 /\ r.state = "created" /\ r.player = "none" /\ ~r.recent
                 /\ r.account \notin Registered' /\ "login" \in Elements(r.recv)
                        => r.account \notin Elements(logins)
      BY <1>3, <1>4, <1>7, <2>1 DEF Cast, Newcomers, Steady
    <2>2. ASSUME NEW s \in Elements(addQueue), NEW b, b = session'[s].account, b \in Registered'
          PROVE  session'[sessions'[b]].state = "created" /\ session'[sessions'[b]].player = "none"
      <3>1. CASE b = a
        BY <1>2, <1>3, <1>6, <1>9, <3>1 DEF Steady
      <3>2. CASE b # a
        <4>1. s \in Sockets /\ b \in Registered /\ Untouched(b)
          BY <1>1, <1>4, <1>7, <2>2, <3>2 DEF Coming, Untouched
        <4>2. b = session[s].account
          BY <1>3, <2>2, <4>1 DEF Steady
        <4>3. session[sessions[b]].state = "created" /\ session[sessions[b]].player = "none"
          BY <2>2, <4>1, <4>2 DEF Cast, Newcomers
        <4> QED
          BY <1>3, <1>6, <1>8, <3>2, <4>1, <4>3 DEF Steady
      <3> QED
        BY <3>1, <3>2
    <2> QED
      BY <1>1, <1>4, <2>1, <2>2 DEF Newcomers
  <1> QED
    BY <1>11, <1>12, <1>13, <1>14, <1>15 DEF Cast

\* A login the client asked for is no longer in its queue when it is handled.
LEMMA TakePacketsCast ==
  ASSUME Served, Cast, TakePackets
  PROVE  Cast'
  <1>0. PICK r, q : r = session[wcur] /\ q = session'[wcur]
    OBVIOUS
  <1>1. /\ Becomes(wcur, q) /\ q.account = r.account /\ q.player = r.player /\ q.recent = r.recent
        /\ q.logout = r.logout /\ q.save = r.save /\ q.recv = <<>> /\ q.state = r.state
    BY <1>0, TakePacketsFacts
  <1>2. /\ wpc = "take" /\ wpc' = "packets" /\ batch' = r.recv
        /\ UNCHANGED <<sessions, addQueue, adding, todo, wcur, stopping, logins, online, dirty>>
    BY <1>0 DEF TakePackets, characters
  <1>3. Updating /\ Updating'
    BY <1>2 DEF Updating
  <1>4. wcur \in Sockets /\ r.account \in Registered /\ sessions[r.account] = wcur /\ wcur \notin Coming
    BY <1>0, <1>3, CurrentSession, CurrentIsApart
  <1>5. /\ \A s \in Sockets : /\ session'[s].account = session[s].account
                              /\ session'[s].player = session[s].player
                              /\ session'[s].recent = session[s].recent
                              /\ session'[s].state = session[s].state
        /\ \A s \in Sockets : s # wcur => session'[s].recv = session[s].recv
        /\ Elements(q.recv) = {}
    BY <1>0, <1>1 DEF Becomes, Elements
  <1>6. \A s \in Sockets : Fine(session'[s])
    <2>1. \A s \in Sockets : Fine(session[s])
      BY DEF Cast, Played
    <2>2. Fine(q)
      BY <1>0, <1>1, <1>4, <2>1 DEF Fine, Once
    <2> QED
      BY <1>1, <2>1, <2>2 DEF Becomes
  <1>7. Registered' = Registered /\ Coming' = Coming /\ Elements(logins)' = Elements(logins)
        /\ Elements(addQueue)' = Elements(addQueue) /\ Elements(batch)' = Elements(r.recv)
    BY <1>2 DEF Registered, Coming, Elements
  <1>8. /\ \A a \in Registered : a \in Accounts /\ sessions[a] \in Sockets
        /\ \A s \in Coming : s \in Sockets
    BY RegisteredSessions, ComingSessions
  <1>9. \A a \in Accounts : InWorld(a)' <=> InWorld(a)
    BY <1>2, <1>5, SameWorld
  <1>10. Played'
    BY <1>2, <1>6, <1>9 DEF Cast, Played
  <1>11. Ended'
    BY <1>2, <1>9 DEF Cast, Ended
  <1>12. Awaited'
    <2>1. \A s \in Sockets : Elements(session'[s].recv) \subseteq Elements(session[s].recv)
      BY <1>0, <1>5
    <2> QED
      BY <1>2, <1>5, <1>7, <1>8, <2>1 DEF Cast, Awaited, Different
  <1>13. Taken'
    <2>1. Once(r.recv, "login")
      BY <1>0, <1>4 DEF Cast, Played, Fine
    <2>2. "login" \in Elements(r.recv) => r.account \notin Elements(logins)
      BY <1>0, <1>4 DEF Cast, Awaited
    <2> QED
      BY <1>0, <1>1, <1>2, <1>5, <1>7, <2>1, <2>2 DEF Taken, Once
  <1>14. Newcomers'
    <2>1. ASSUME NEW s \in Coming
          PROVE  LET t == session'[s] IN
                 /\ t.state = "created" /\ t.player = "none" /\ ~t.recent
                 /\ t.account \notin Registered /\ "login" \in Elements(t.recv) => t.account \notin Elements(logins)
      <3>1. s # wcur /\ s \in Sockets
        BY <1>4, <1>8, <2>1
      <3> QED
        BY <1>5, <2>1, <3>1 DEF Cast, Newcomers
    <2>3. ASSUME NEW s \in Elements(addQueue), NEW a, a = session'[s].account, a \in Registered, Untouched(a)'
          PROVE  session'[sessions[a]].state = "created" /\ session'[sessions[a]].player = "none"
      <3>1. s \in Coming /\ a = session[s].account /\ Untouched(a)
        BY <1>2, <1>5, <1>8, <2>3 DEF Coming, Untouched, Updating
      <3>2. session[sessions[a]].state = "created" /\ session[sessions[a]].player = "none"
        BY <2>3, <3>1 DEF Cast, Newcomers
      <3> QED
        BY <1>5, <1>8, <2>3, <3>2
    <2> QED
      BY <1>2, <1>7, <2>1, <2>3 DEF Newcomers
  <1> QED
    BY <1>10, <1>11, <1>12, <1>13, <1>14 DEF Cast

\* The session that is updated changes, and its character comes or goes with it.
LEMMA CurrentCast ==
  ASSUME Served, Cast, Taken', Updating, NEW q, NEW a, a = session[wcur].account, Becomes(wcur, q),
         UNCHANGED <<sessions, addQueue, adding, stopping>>,
         q.account = a, q.recv = session[wcur].recv, Fine(q),
         session[wcur].player = "none" => q.player = "none",
         Untouched(a)' /\ session[wcur].player = "none" => q.state = session[wcur].state,
         \A b \in Registered : Untouched(b)' => Untouched(b),
         \A b \in Accounts \ {a} : online'[b] = online[b] /\ (dirty'[b] => dirty[b]),
         online'[a] = IF q.player = "world" THEN 1 ELSE 0,
         dirty'[a] => q.player = "world",
         stopping => q.player # "world",
         Different(logins)', Elements(logins)' \subseteq Elements(logins) \cup {a},
         a \in Elements(logins)' =>
             "login" \notin Elements(q.recv) /\ q.player = "none" /\ (~stopping => ~q.recent),
         stopping => wpc' \notin {"maps", "results", "commands"},
         wpc' = "stopped" => stopping
  PROVE  Cast'
  <1>1. Registered' = Registered /\ Coming' = Coming /\ Elements(addQueue)' = Elements(addQueue)
    BY DEF Registered, Coming, Elements
  <1>2. /\ wcur \in Sockets /\ a \in Registered /\ sessions[a] = wcur /\ a \in Accounts
        /\ wcur \notin Coming
    BY CurrentSession, CurrentIsApart, RegisteredSessions
  <1>3. /\ \A b \in Registered : b \in Accounts /\ sessions[b] \in Sockets /\ (b # a => sessions[b] # wcur)
        /\ \A s \in Coming : s \in Sockets /\ s # wcur
    BY <1>2, RegisteredSessions, ComingSessions, CurrentIsApart
  <1>4. session'[wcur] = q /\ \A s \in Sockets : s # wcur => session'[s] = session[s]
    BY DEF Becomes
  <1>5. /\ InWorld(a)' <=> q.player = "world"
        /\ \A b \in Accounts \ {a} : InWorld(b)' <=> InWorld(b)
    BY <1>1, <1>2, <1>3, <1>4 DEF InWorld
  <1>6. Played'
    <2>1. \A s \in Sockets : Fine(session'[s])
      BY <1>4 DEF Cast, Played
    <2>2. \A b \in Accounts : online'[b] = IF InWorld(b)' THEN 1 ELSE 0
      BY <1>5 DEF Cast, Played
    <2>3. \A b \in Accounts : dirty'[b] => InWorld(b)'
      BY <1>5 DEF Cast, Played
    <2> QED
      BY <2>1, <2>2, <2>3 DEF Played
  <1>7. Ended'
    <2>1. stopping => \A b \in Accounts : ~InWorld(b)'
      BY <1>5 DEF Cast, Ended
    <2> QED
      BY <2>1 DEF Ended
  <1>8. Awaited'
    <2>1. ASSUME NEW b \in Registered, b \in Elements(logins)'
          PROVE  LET r == session'[sessions[b]] IN
                 "login" \notin Elements(r.recv) /\ r.player = "none" /\ (~stopping => ~r.recent)
      <3>1. CASE b = a
        BY <1>2, <1>4, <2>1, <3>1
      <3>2. CASE b # a
        BY <1>3, <1>4, <2>1, <3>2 DEF Cast, Awaited
      <3> QED
        BY <3>1, <3>2
    <2> QED
      BY <1>1, <2>1 DEF Awaited
  <1>9. Newcomers'
    <2>1. ASSUME NEW s \in Coming
          PROVE  LET r == session'[s] IN
                 /\ r.state = "created" /\ r.player = "none" /\ ~r.recent
                 /\ r.account \notin Registered /\ "login" \in Elements(r.recv)
                        => r.account \notin Elements(logins)'
      <3>1. session'[s] = session[s]
        BY <1>3, <1>4, <2>1
      <3> QED
        BY <1>2, <2>1, <3>1 DEF Cast, Newcomers
    <2>2. ASSUME NEW s \in Elements(addQueue), NEW b, b = session'[s].account, b \in Registered, Untouched(b)'
          PROVE  session'[sessions[b]].state = "created" /\ session'[sessions[b]].player = "none"
      <3>1. b = session[s].account /\ Untouched(b)
        BY <1>3, <1>4, <2>2 DEF Coming
      <3>2. session[sessions[b]].state = "created" /\ session[sessions[b]].player = "none"
        BY <2>2, <3>1 DEF Cast, Newcomers
      <3> QED
        BY <1>2, <1>3, <1>4, <2>2, <3>2
    <2> QED
      BY <1>1, <2>1, <2>2 DEF Newcomers
  <1> QED
    BY <1>6, <1>7, <1>8, <1>9 DEF Cast

\* What is known of the session that is updated.
LEMMA CurrentFacts ==
  ASSUME Served, Cast, Updating
  PROVE  LET r == session[wcur] IN
         /\ Fine(r) /\ r.account \in Accounts /\ r.account \in Registered
         /\ r.player \in {"none", "world"} /\ r.recv \in Seq(Packet)
         /\ online[r.account] = (IF r.player = "world" THEN 1 ELSE 0)
         /\ dirty[r.account] => r.player = "world"
         /\ stopping => r.player # "world"
         /\ r.account \in Elements(logins) =>
                "login" \notin Elements(r.recv) /\ r.player = "none" /\ (~stopping => ~r.recent)
  <1> DEFINE r == session[wcur]
  <1>1. /\ wcur \in Sockets /\ r \in SessionType /\ r.account \in Registered
        /\ sessions[r.account] = wcur
    BY CurrentSession
  <1>2. r.account \in Accounts /\ Fine(r)
    BY <1>1, RegisteredSessions DEF Cast, Played
  <1>3. r.player \in {"none", "world"} /\ r.recv \in Seq(Packet)
    BY <1>1, <1>2 DEF SessionType, Fine
  <1>4. InWorld(r.account) <=> r.player = "world"
    BY <1>1 DEF InWorld
  <1>5. /\ online[r.account] = (IF r.player = "world" THEN 1 ELSE 0)
        /\ dirty[r.account] => r.player = "world"
        /\ stopping => r.player # "world"
    BY <1>2, <1>4 DEF Cast, Played, Ended
  <1>6. r.account \in Elements(logins) =>
            "login" \notin Elements(r.recv) /\ r.player = "none" /\ (~stopping => ~r.recent)
    BY <1>1 DEF Cast, Awaited
  <1> QED
    BY <1>1, <1>2, <1>3, <1>5, <1>6

\* The next packet is taken from those that are handled.
LEMMA NextPacket ==
  ASSUME Served, Cast, wpc = "packets", batch # <<>>, batch' = Tail(batch)
  PROVE  /\ Once(batch', "login") /\ Elements(batch') \subseteq Elements(batch)
         /\ Head(batch) = "login" =>
                /\ "login" \notin Elements(batch')
                /\ "login" \notin Elements(session[wcur].recv)
                /\ session[wcur].account \notin Elements(logins)
  <1>1. batch \in Seq(Packet) /\ "login" \in Packet /\ Once(batch, "login")
    BY DEF Served, Types, Packet, Cast, Taken
  <1>2. /\ Once(Tail(batch), "login") /\ Elements(Tail(batch)) \subseteq Elements(batch)
        /\ Head(batch) \in Elements(batch)
        /\ Head(batch) = "login" => "login" \notin Elements(Tail(batch))
    BY <1>1, OnceAfter
  <1>3. Head(batch) = "login" => /\ "login" \notin Elements(session[wcur].recv)
                                 /\ session[wcur].account \notin Elements(logins)
    BY <1>2 DEF Cast, Taken
  <1> QED
    BY <1>2, <1>3

\* The character of the session that is updated leaves the world.
LEMMA LeavesTheWorld ==
  ASSUME Served, Counted, Cast, Updating, LogoutPlayer(wcur), session[wcur].player = "world"
  PROVE  LET r == session[wcur]
             q == session'[wcur]
         IN  /\ Becomes(wcur, q) /\ q.account = r.account /\ q.recv = r.recv /\ Fine(q)
             /\ q.player = "none" /\ online'[r.account] = 0 /\ ~dirty'[r.account]
             /\ \A b \in Accounts \ {r.account} : online'[b] = online[b] /\ dirty'[b] = dirty[b]
  <1>0. PICK r, q, a : r = session[wcur] /\ q = session'[wcur] /\ a = r.account
    OBVIOUS
  <1>1. /\ Fine(r) /\ a \in Accounts /\ online[a] = 1 /\ r.player = "world"
    BY <1>0, CurrentFacts
  <1>2. r.recent = FALSE
    BY <1>0, <1>1, CurrentSession DEF Fine, SessionType
  <1>3. /\ Becomes(wcur, q) /\ q.account = a /\ q.recv = r.recv /\ q.save = r.save
        /\ q.player = "none" /\ q.logout = 0
    BY <1>0, <1>2, LogoutPlayerFacts
  <1>4. Fine(q)
    BY <1>1, <1>3 DEF Fine
  <1>5. online' = [online EXCEPT ![a] = @ - 1] /\ dirty' = [dirty EXCEPT ![a] = FALSE]
    BY <1>0, <1>1, <1>2 DEF LogoutPlayer, Unload, Leaves, Fine
  <1>6. online \in [Accounts -> Nat] /\ dirty \in [Accounts -> BOOLEAN]
    BY DEF Counted, Served, Types
  <1>7. /\ online'[a] = 0 /\ ~dirty'[a]
        /\ \A b \in Accounts \ {a} : online'[b] = online[b] /\ dirty'[b] = dirty[b]
    BY <1>1, <1>5, <1>6
  <1> QED
    BY <1>0, <1>3, <1>4, <1>7

\* The packets: a login asks the database for the character once.
LEMMA HandlePacketCast ==
  ASSUME Served, Counted, Cast, HandlePacket
  PROVE  Cast'
  <1>0. PICK r, q, a : r = session[wcur] /\ q = session'[wcur] /\ a = r.account
    OBVIOUS
  <1>1. /\ wpc = "packets" /\ batch # <<>> /\ batch' = Tail(batch)
        /\ UNCHANGED <<addQueue, sessions, adding, wpc, todo, wcur, stopping>>
    BY DEF HandlePacket
  <1>2. Updating
    BY <1>1 DEF Updating
  <1>3. /\ wcur \in Sockets /\ r \in SessionType /\ Fine(r) /\ a \in Accounts
        /\ r.player \in {"none", "world"}
        /\ online[a] = (IF r.player = "world" THEN 1 ELSE 0)
        /\ dirty[a] => r.player = "world"
        /\ stopping => r.player # "world"
        /\ a \in Elements(logins) =>
               "login" \notin Elements(r.recv) /\ r.player = "none" /\ (~stopping => ~r.recent)
    BY <1>0, <1>2, CurrentSession, CurrentFacts
  <1>4. /\ Once(batch', "login") /\ Elements(batch') \subseteq Elements(batch)
        /\ Head(batch) = "login" => /\ "login" \notin Elements(batch')
                                    /\ "login" \notin Elements(r.recv) /\ a \notin Elements(logins)
    BY <1>0, <1>1, NextPacket
  <1>5. /\ Different(logins) /\ logins \in Seq(Accounts)
        /\ "login" \in Elements(batch) => "login" \notin Elements(r.recv) /\ a \notin Elements(logins)
    BY <1>0, <1>1 DEF Cast, Awaited, Taken, Served, Types
  <1>6. /\ \A b \in Registered : Untouched(b)' => Untouched(b)
        /\ stopping => wpc' \notin {"maps", "results", "commands"}
        /\ wpc' = "stopped" => stopping
    BY <1>1 DEF Untouched, Updating
  <1>7. ASSUME UNCHANGED <<online, dirty>>, q.player = r.player
        PROVE  /\ \A b \in Accounts \ {a} : online'[b] = online[b] /\ (dirty'[b] => dirty[b])
               /\ online'[a] = IF q.player = "world" THEN 1 ELSE 0
               /\ dirty'[a] => q.player = "world"
               /\ stopping => q.player # "world"
    BY <1>3, <1>7
  <1>8. ASSUME UNCHANGED logins
        PROVE  Different(logins)' /\ Elements(logins)' = Elements(logins)
    BY <1>5, <1>8 DEF Different, Elements
  <1>9. CASE Head(batch) = "login" /\ HandlePlayerLogin(r)
    <2>1. /\ Becomes(wcur, q) /\ q.account = r.account /\ q.recv = r.recv /\ q.player = r.player
          /\ r.save => q.save
          /\ q.logout \in {r.logout, 0} /\ (r.player = "none" => q.state = r.state)
          /\ \/ q = r /\ logins' = logins
             \/ /\ q.recent = FALSE /\ r.player = "none" /\ logins' = Append(logins, r.account)
             \/ /\ q.recent = FALSE /\ r.player # "none" /\ logins' = logins
      BY <1>0, <1>2, <1>9, HandlePlayerLoginFacts
    <2>2. UNCHANGED <<online, dirty>>
      BY <1>3, <1>9, <2>1 DEF HandlePacket, characters
    <2>3. Fine(q)
      BY <1>3, <2>1 DEF Fine
    <2>4. Different(logins)' /\ Elements(logins)' \subseteq Elements(logins) \cup {a}
      <3>1. CASE logins' = Append(logins, a)
        BY <1>3, <1>4, <1>5, <1>9, <3>1, ElementsOfAppend
      <3>2. CASE logins' = logins
        BY <1>8, <3>2
      <3> QED
        BY <1>0, <2>1, <3>1, <3>2
    <2>5. a \in Elements(logins)' => q.player = "none" /\ ~q.recent
      <3>1. a \notin Elements(logins)
        BY <1>4, <1>9
      <3>2. logins' = logins => a \notin Elements(logins)'
        BY <3>1 DEF Elements
      <3> QED
        BY <2>1, <3>2
    <2>6. Taken'
      BY <1>1, <1>4, <1>9 DEF Taken
    <2> QED
      BY <1>0, <1>1, <1>2, <1>4, <1>6, <1>7, <1>9, <2>1, <2>2, <2>3, <2>4, <2>5, <2>6, CurrentCast
  <1>10. ASSUME UNCHANGED logins, Becomes(wcur, q), q.account = a, q.recv = r.recv
         PROVE  Taken'
    <2>1. "login" \in Elements(batch)' => "login" \in Elements(batch)
      BY <1>4 DEF Elements
    <2>2. session'[wcur] = q
      BY <1>0
    <2> QED
      BY <1>1, <1>4, <1>5, <1>8, <1>10, <2>1, <2>2 DEF Taken
  <1>11. ASSUME LogoutPlayer(wcur), r.player = "world", UNCHANGED logins
         PROVE  Cast'
    <2>1. /\ Becomes(wcur, q) /\ q.account = a /\ q.recv = r.recv /\ Fine(q)
          /\ q.player = "none" /\ online'[a] = 0 /\ ~dirty'[a]
          /\ \A b \in Accounts \ {a} : online'[b] = online[b] /\ dirty'[b] = dirty[b]
      BY <1>0, <1>2, <1>11, LeavesTheWorld
    <2>2. a \notin Elements(logins)' /\ Different(logins)' /\ Elements(logins)' = Elements(logins)
      BY <1>3, <1>8, <1>11
    <2> QED
      BY <1>0, <1>1, <1>2, <1>6, <1>10, <1>11, <2>1, <2>2, CurrentCast
  <1>12. ASSUME NEW time \in {0, 1}, session' = [session EXCEPT ![wcur] = LogoutRequest(r, time, TRUE, FALSE)],
                r.player = "world", UNCHANGED <<logins, online, dirty>>
         PROVE  Cast'
    <2>1. time \in 0 .. 3
      OBVIOUS
    <2>2. /\ Becomes(wcur, q) /\ q.account = a /\ q.recv = r.recv /\ q.save = TRUE
          /\ q.recent = r.recent /\ q.player = r.player /\ q.logout = time
      BY <1>0, <1>2, <1>12, <2>1, RequestFacts
    <2>3. Fine(q)
      BY <1>3, <1>12, <2>2 DEF Fine
    <2>4. a \notin Elements(logins)' /\ Different(logins)' /\ Elements(logins)' = Elements(logins)
      BY <1>3, <1>8, <1>12
    <2>5. Taken'
      BY <1>10, <1>12, <2>2
    <2>6. /\ \A b \in Accounts \ {a} : online'[b] = online[b] /\ (dirty'[b] => dirty[b])
          /\ online'[a] = IF q.player = "world" THEN 1 ELSE 0
          /\ dirty'[a] => q.player = "world"
          /\ stopping => q.player # "world"
      BY <1>7, <1>12, <2>2
    <2>7. r.player = "none" => q.player = "none" /\ q.state = r.state
      BY <1>12
    <2> QED
      BY <1>0, <1>1, <1>2, <1>6, <2>2, <2>3, <2>4, <2>5, <2>6, <2>7, CurrentCast
  <1>13. ASSUME UNCHANGED <<session, logins, online, dirty>>
         PROVE  Cast'
    <2>1. q = r /\ Becomes(wcur, q) /\ q.account = a
      BY <1>0, <1>3, <1>13 DEF Becomes
    <2>2. Different(logins)' /\ Elements(logins)' = Elements(logins)
      BY <1>8, <1>13
    <2>3. Taken'
      BY <1>10, <1>13, <2>1
    <2> QED
      BY <1>0, <1>1, <1>2, <1>3, <1>6, <1>7, <1>13, <2>1, <2>2, <2>3, CurrentCast
  <1> QED
    BY <1>0, <1>9, <1>11, <1>12, <1>13 DEF HandlePacket, HandleLogoutRequest, characters

\* A session ends, and with it the stay of its character in the world.
LEMMA DestroyCast ==
  ASSUME Served, Counted, Cast, wpc = "state", NEW p, NEW sockets, Destroy(p, sockets),
         p.account = session[wcur].account, p.player = session[wcur].player,
         p.recent = session[wcur].recent, session[wcur].save => p.save,
         session[wcur].state # "created"
  PROVE  Cast'
  <1>0. PICK r, a : r = session[wcur] /\ a = r.account
    OBVIOUS
  <1>1. Updating
    BY DEF Updating
  <1>2. /\ wcur \in Sockets /\ Fine(r) /\ a \in Accounts /\ a \in Registered /\ sessions[a] = wcur
        /\ wcur \notin Coming /\ r \in SessionType
        /\ online[a] = (IF r.player = "world" THEN 1 ELSE 0)
        /\ dirty[a] => r.player = "world"
    BY <1>0, <1>1, CurrentSession, CurrentFacts, CurrentIsApart
  <1>3. /\ wpc' = "update" /\ batch = <<>>
        /\ UNCHANGED <<addQueue, adding, todo, batch, stopping, logins>>
    BY DEF Destroy, Served, Turn
  <1>4. /\ Fine(session'[wcur]) /\ session'[wcur].player = "none"
        /\ \A s \in Sockets : s # wcur =>
               Steady(session[s], session'[s]) /\ session'[s].state = session[s].state
        /\ sessions' = [sessions EXCEPT ![a] = None]
        /\ Registered' = Registered \ {a}
    <2>1. /\ session'[wcur].player = "none" /\ session'[wcur].recent = FALSE
          /\ session'[wcur].logout = 0 /\ session'[wcur].save = TRUE /\ session'[wcur].recv = <<>>
          /\ \A s \in Sockets : s # wcur =>
                 Steady(session[s], session'[s]) /\ session'[s].state = session[s].state
          /\ sessions' = [sessions EXCEPT ![a] = None]
          /\ Registered' = Registered \ {a}
      BY <1>0, <1>1, DestroyFacts
    <2>2. Fine(session'[wcur])
      BY <2>1 DEF Fine, Once
    <2> QED
      BY <2>1, <2>2
  <1>5. /\ \A b \in Accounts \ {a} : sessions'[b] = sessions[b]
        /\ \A b \in Registered : b \in Accounts /\ sessions[b] \in Sockets /\ (b # a => sessions[b] # wcur)
        /\ \A s \in Coming : s \in Sockets /\ s # wcur
    <2>1. \A b \in Accounts \ {a} : sessions'[b] = sessions[b]
      BY <1>4 DEF Served, Types
    <2>2. \A b \in Registered : b # a => sessions[b] # wcur
      BY <1>0, <1>1, CurrentIsApart
    <2> QED
      BY <1>2, <2>1, <2>2, RegisteredSessions, ComingSessions
  <1>6. Coming' = Coming /\ Elements(addQueue)' = Elements(addQueue) /\ Elements(logins)' = Elements(logins)
    BY <1>3 DEF Coming, Elements
  <1>7. ~InWorld(a)' /\ \A b \in Accounts \ {a} : InWorld(b)' <=> InWorld(b)
    BY <1>4, <1>5 DEF InWorld, Steady
  <1>8. /\ online'[a] = 0 /\ ~dirty'[a]
        /\ \A b \in Accounts \ {a} : online'[b] = online[b] /\ dirty'[b] = dirty[b]
    <2>1. online \in [Accounts -> Nat] /\ dirty \in [Accounts -> BOOLEAN]
      BY DEF Counted, Served, Types
    <2>2. Unload(p) /\ p.account = a
      BY <1>0 DEF Destroy
    <2>3. CASE r.player = "world"
      <3>1. r.recent = FALSE
        BY <1>2, <2>3 DEF Fine, SessionType
      <3>2. Leaves(p) /\ p.save
        BY <1>0, <1>2, <2>3, <3>1 DEF Leaves, Fine
      <3>3. online' = [online EXCEPT ![a] = @ - 1] /\ dirty' = [dirty EXCEPT ![a] = FALSE]
        BY <2>2, <3>2 DEF Unload
      <3> QED
        BY <1>2, <2>1, <2>3, <3>3
    <2>4. CASE r.player # "world"
      <3>1. ~Leaves(p)
        BY <1>0, <2>4 DEF Leaves
      <3>2. online' = online /\ dirty' = dirty
        BY <2>2, <3>1 DEF Unload
      <3> QED
        BY <1>2, <2>4, <3>2
    <2> QED
      BY <2>3, <2>4
  <1>9. Played'
    <2>1. \A s \in Sockets : Fine(session'[s])
      <3>1. ASSUME NEW s \in Sockets, s # wcur
            PROVE  Fine(session'[s])
        BY <1>4, <3>1 DEF Cast, Played, Fine, Steady
      <3> QED
        BY <1>4, <3>1
    <2>2. \A b \in Accounts : online'[b] = IF InWorld(b)' THEN 1 ELSE 0
      BY <1>7, <1>8 DEF Cast, Played
    <2>3. \A b \in Accounts : dirty'[b] => InWorld(b)'
      BY <1>7, <1>8 DEF Cast, Played
    <2> QED
      BY <2>1, <2>2, <2>3 DEF Played
  <1>10. Ended'
    <2>1. stopping => \A b \in Accounts : ~InWorld(b)'
      BY <1>7 DEF Cast, Ended
    <2> QED
      BY <1>3, <2>1 DEF Ended
  <1>11. Awaited'
    <2>1. ASSUME NEW b \in Registered', b \in Elements(logins)
          PROVE  LET t == session'[sessions'[b]] IN
                 "login" \notin Elements(t.recv) /\ t.player = "none" /\ (~stopping => ~t.recent)
      <3>1. b \in Registered /\ sessions'[b] = sessions[b] /\ sessions[b] # wcur /\ sessions[b] \in Sockets
        BY <1>4, <1>5, <2>1
      <3>2. Steady(session[sessions[b]], session'[sessions[b]])
        BY <1>4, <3>1
      <3> QED
        BY <2>1, <3>1, <3>2 DEF Cast, Awaited, Steady
    <2>2. Different(logins)'
      BY <1>3 DEF Cast, Awaited, Different
    <2> QED
      BY <1>3, <1>6, <2>1, <2>2 DEF Awaited
  <1>12. Taken'
    BY <1>3, EmptyBatch
  <1>13. Newcomers'
    <2>1. ASSUME NEW s \in Elements(addQueue), session[s].account = a
          PROVE  FALSE
      <3>1. Untouched(a)
        BY <1>1, <1>2 DEF Untouched
      <3> QED
        BY <1>0, <1>2, <2>1, <3>1 DEF Cast, Newcomers
    <2>2. ASSUME NEW s \in Coming
          PROVE  LET t == session'[s] IN
                 /\ t.state = "created" /\ t.player = "none" /\ ~t.recent
                 /\ t.account \notin Registered' /\ "login" \in Elements(t.recv)
                        => t.account \notin Elements(logins)
      <3>1. Steady(session[s], session'[s]) /\ session'[s].state = session[s].state
        BY <1>4, <1>5, <2>2
      <3>2. session[s].account # a
        <4>1. s \in Elements(addQueue) \/ adding # <<>>
          BY <2>2 DEF Coming, Elements
        <4>2. adding = <<>>
          BY DEF Served, Turn
        <4> QED
          BY <2>1, <4>1, <4>2
      <3> QED
        BY <1>4, <2>2, <3>1, <3>2 DEF Cast, Newcomers, Steady
    <2>3. ASSUME NEW s \in Elements(addQueue), NEW b, b = session'[s].account, b \in Registered', Untouched(b)'
          PROVE  session'[sessions'[b]].state = "created" /\ session'[sessions'[b]].player = "none"
      <3>1. Steady(session[s], session'[s]) /\ b \in Registered /\ b # a
        BY <1>4, <1>5, <2>3 DEF Coming
      <3>2. b = session[s].account /\ Untouched(b)
        BY <1>1, <1>3, <2>3, <3>1 DEF Untouched, Updating, Steady
      <3>3. session[sessions[b]].state = "created" /\ session[sessions[b]].player = "none"
        BY <2>3, <3>1, <3>2 DEF Cast, Newcomers
      <3> QED
        BY <1>4, <1>5, <3>1, <3>3 DEF Steady
    <2> QED
      BY <1>3, <1>6, <2>2, <2>3 DEF Newcomers
  <1> QED
    BY <1>9, <1>10, <1>11, <1>12, <1>13 DEF Cast

\* The session is kept as it is, lets its client go, loses its character, or ends.
LEMMA UpdateStateCast ==
  ASSUME Served, Counted, Cast, UpdateState
  PROVE  Cast'
  <1>0. PICK r, q, a : r = session[wcur] /\ q = session'[wcur] /\ a = r.account
    OBVIOUS
  <1>1. /\ wpc = "state" /\ UNCHANGED <<addQueue, adding, todo, batch, stopping, logins>>
        /\ wpc' = "update" /\ wcur' = None
        /\ \/ UpdateCreated
           \/ UNCHANGED <<session, sessions, online, dirty>>
           \/ /\ session' = [session EXCEPT ![wcur] = SetOffline(r)]
              /\ UNCHANGED <<sessions, online, dirty>>
           \/ LogoutPlayer(wcur) /\ (r.player = "world" \/ r.logout >= 2) /\ UNCHANGED sessions
           \/ \E p, sockets : /\ p.account = r.account /\ p.player = r.player
                              /\ p.recent = r.recent /\ (r.save => p.save)
                              /\ r.state # "created" /\ Destroy(p, sockets)
    BY <1>0, UpdateStateKinds
  <1>2. Updating
    BY <1>1 DEF Updating
  <1>3. /\ wcur \in Sockets /\ r \in SessionType /\ Fine(r) /\ a \in Accounts
        /\ r.player \in {"none", "world"}
        /\ online[a] = (IF r.player = "world" THEN 1 ELSE 0)
        /\ dirty[a] => r.player = "world"
        /\ stopping => r.player # "world"
        /\ a \in Elements(logins) =>
               "login" \notin Elements(r.recv) /\ r.player = "none" /\ (~stopping => ~r.recent)
    BY <1>0, <1>2, CurrentSession, CurrentFacts
  <1>4. /\ \A b \in Registered : Untouched(b)' => Untouched(b)
        /\ ~Untouched(a)'
    <2>1. a \notin todo
      BY <1>0, <1>2 DEF Served, Turn
    <2> QED
      BY <1>1, <1>2, <2>1 DEF Untouched, Updating
  <1>5. Taken'
    BY <1>1, EmptyBatch DEF Served, Turn
  <1>6. Different(logins)' /\ Elements(logins)' = Elements(logins)
    BY <1>1 DEF Cast, Awaited, Different, Elements
  <1>7. ASSUME Becomes(wcur, q), Letting(r, q), UNCHANGED <<sessions, online, dirty>>
        PROVE  Cast'
    <2>1. /\ q.account = a /\ q.recv = r.recv /\ q.player = r.player /\ q.recent = r.recent
          /\ (q.logout = r.logout /\ q.save = r.save) \/ (r.player # "none" /\ q.save)
      BY <1>0, <1>7 DEF Letting
    <2>2. Fine(q)
      BY <1>3, <2>1 DEF Fine
    <2>3. /\ \A b \in Accounts \ {a} : online'[b] = online[b] /\ (dirty'[b] => dirty[b])
          /\ online'[a] = IF q.player = "world" THEN 1 ELSE 0
          /\ dirty'[a] => q.player = "world"
          /\ stopping => q.player # "world"
      BY <1>3, <1>7, <2>1
    <2>4. a \in Elements(logins)' =>
              "login" \notin Elements(q.recv) /\ q.player = "none" /\ (~stopping => ~q.recent)
      BY <1>3, <1>6, <2>1
    <2>5. r.player = "none" => q.player = "none"
      BY <2>1
    <2> QED
      BY <1>0, <1>1, <1>2, <1>4, <1>5, <1>6, <1>7, <2>1, <2>2, <2>3, <2>4, <2>5, CurrentCast
  <1>8. CASE UpdateCreated
    <2>1. UNCHANGED <<sessions, online, dirty>>
      BY <1>8 DEF UpdateCreated, Kept
    <2> QED
      BY <1>0, <1>7, <1>8, <2>1, UpdateCreatedFacts
  <1>9. CASE UNCHANGED <<session, sessions, online, dirty>>
    <2>1. q = r /\ Becomes(wcur, q) /\ Letting(r, q)
      BY <1>0, <1>3, <1>9 DEF Becomes, Letting
    <2> QED
      BY <1>7, <1>9, <2>1
  <1>10. CASE session' = [session EXCEPT ![wcur] = SetOffline(r)] /\ UNCHANGED <<sessions, online, dirty>>
    <2>1. Becomes(wcur, q) /\ Letting(r, q)
      BY <1>0, <1>2, <1>10, GoneFacts
    <2> QED
      BY <1>7, <1>10, <2>1
  <1>11. CASE LogoutPlayer(wcur) /\ (r.player = "world" \/ r.logout >= 2) /\ UNCHANGED sessions
    <2>1. r.player = "world"
      <3>1. r.logout \in 0 .. 3
        BY <1>3 DEF SessionType
      <3>2. r.logout >= 2 => r.logout > 0
        BY <3>1
      <3> QED
        BY <1>3, <1>11, <3>2 DEF Fine
    <2>2. /\ Becomes(wcur, q) /\ q.account = a /\ q.recv = r.recv /\ Fine(q)
          /\ q.player = "none" /\ online'[a] = 0 /\ ~dirty'[a]
          /\ \A b \in Accounts \ {a} : online'[b] = online[b] /\ dirty'[b] = dirty[b]
      BY <1>0, <1>2, <1>11, <2>1, LeavesTheWorld
    <2>3. a \notin Elements(logins)'
      BY <1>3, <1>6, <2>1
    <2> QED
      BY <1>0, <1>1, <1>2, <1>4, <1>5, <1>6, <1>11, <2>2, <2>3, CurrentCast
  <1>12. CASE \E p, sockets : /\ p.account = r.account /\ p.player = r.player
                              /\ p.recent = r.recent /\ (r.save => p.save)
                              /\ r.state # "created" /\ Destroy(p, sockets)
    BY <1>0, <1>1, <1>12, DestroyCast
  <1> QED
    BY <1>1, <1>8, <1>9, <1>10, <1>11, <1>12

\* The database has answered: a character enters the world if its session is
\* there, and it is not in the world yet.
LEMMA LoginCallbackCast ==
  ASSUME Served, Counted, Cast, MaxKicks = 0, LoginCallback
  PROVE  Cast'
  <1>0. PICK a, x, r, q : a = Head(logins) /\ x = sessions[a] /\ r = session[x] /\ q = session'[x]
    OBVIOUS
  <1>1. /\ a \in Accounts /\ a \in Elements(logins)
        /\ Elements(logins) = Elements(Tail(logins)) \cup {a}
        /\ logins' = Tail(logins) /\ wpc = "results"
        /\ \/ x = None /\ UNCHANGED <<session, online, dirty>>
           \/ /\ a \in Registered /\ Becomes(x, q)
              /\ q.account = r.account /\ q.recv = r.recv /\ q.recent = r.recent
              /\ q.logout = r.logout /\ q.save = r.save /\ q.player = "world"
              /\ online' = [online EXCEPT ![a] = @ + 1] /\ dirty' = [dirty EXCEPT ![a] = FALSE]
    <2>1. ~(kicks < MaxKicks)
      BY DEF Counted
    <2> QED
      BY <1>0, <2>1, LoginCallbackFacts
  <1>2. UNCHANGED <<sessions, addQueue, adding, wpc, todo, wcur, batch, stopping>>
    BY DEF LoginCallback, tick
  <1>3. ~stopping /\ Different(logins)' /\ a \notin Elements(logins)' /\ Elements(logins)' \subseteq Elements(logins)
    <2>1. logins # <<>> /\ logins \in Seq(Accounts) /\ Different(logins)
      BY DEF LoginCallback, Served, Types, Cast, Awaited
    <2>2. Different(Tail(logins)) /\ a \notin Elements(Tail(logins))
      BY <1>0, <2>1, ElementsOfTail
    <2> QED
      BY <1>1, <2>2 DEF Cast, Ended, Different, Elements
  <1>4. Registered' = Registered /\ Coming' = Coming /\ Elements(addQueue)' = Elements(addQueue)
    BY <1>2 DEF Registered, Coming, Elements
  <1>5. /\ \A b \in Registered : /\ b \in Accounts /\ sessions[b] \in Sockets
                                 /\ sessions[b] = x => b = a \/ a \notin Registered
        /\ \A s \in Coming : s \in Sockets /\ (a \in Registered => s # x)
    <2>1. \A b \in Registered : /\ b \in Accounts /\ sessions[b] \in Sockets
                                /\ sessions[b] = x => b = a \/ a \notin Registered
      BY <1>0, RegisteredSessions
    <2>2. \A s \in Coming : s \in Sockets /\ \A b \in Accounts : sessions[b] # s
      BY ComingSessions DEF Served, Homes
    <2> QED
      BY <1>0, <1>1, <2>1, <2>2
  <1>6. /\ Ended'
        /\ Taken'
        /\ \A b : ~Untouched(b)'
    <2>1. batch' = <<>>
      BY <1>1, <1>2 DEF Served, Turn
    <2>2. Ended'
      BY <1>1, <1>2, <1>3 DEF Ended
    <2> QED
      BY <1>1, <1>2, <2>1, <2>2, EmptyBatch DEF Untouched, Updating
  <1>7. CASE x = None /\ UNCHANGED <<session, online, dirty>>
    <2>1. Played'
      <3>1. \A b \in Accounts : InWorld(b)' <=> InWorld(b)
        BY <1>2, <1>7, SameWorld
      <3> QED
        BY <1>7, <3>1 DEF Cast, Played
    <2>2. Awaited'
      BY <1>2, <1>3, <1>4, <1>7 DEF Cast, Awaited
    <2>3. Newcomers'
      BY <1>3, <1>4, <1>6, <1>7 DEF Cast, Newcomers
    <2> QED
      BY <1>6, <2>1, <2>2, <2>3 DEF Cast
  <1>8. CASE /\ a \in Registered /\ Becomes(x, q)
             /\ q.account = r.account /\ q.recv = r.recv /\ q.recent = r.recent
             /\ q.logout = r.logout /\ q.save = r.save /\ q.player = "world"
             /\ online' = [online EXCEPT ![a] = @ + 1] /\ dirty' = [dirty EXCEPT ![a] = FALSE]
    <2>1. x \in Sockets /\ session'[x] = q /\ \A s \in Sockets : s # x => session'[s] = session[s]
      BY <1>8 DEF Becomes
    <2>2. r.player = "none" /\ ~r.recent
      BY <1>0, <1>1, <1>3, <1>8 DEF Cast, Awaited
    <2>3. Fine(q)
      <3>1. Fine(r)
        BY <1>0, <2>1 DEF Cast, Played
      <3> QED
        BY <1>8, <2>2, <3>1 DEF Fine
    <2>4. InWorld(a)' /\ ~InWorld(a) /\ \A b \in Accounts \ {a} : InWorld(b)' <=> InWorld(b)
      BY <1>0, <1>2, <1>4, <1>5, <1>8, <2>1, <2>2 DEF InWorld
    <2>5. /\ online'[a] = 1 /\ ~dirty'[a]
          /\ \A b \in Accounts \ {a} : online'[b] = online[b] /\ dirty'[b] = dirty[b]
      <3>1. online \in [Accounts -> Nat] /\ dirty \in [Accounts -> BOOLEAN]
        BY DEF Counted, Served, Types
      <3>2. online[a] = 0
        BY <1>1, <2>4 DEF Cast, Played
      <3> QED
        BY <1>1, <1>8, <3>1, <3>2
    <2>6. Played'
      <3>1. \A s \in Sockets : Fine(session'[s])
        BY <2>1, <2>3 DEF Cast, Played
      <3>2. \A b \in Accounts : online'[b] = IF InWorld(b)' THEN 1 ELSE 0
        BY <2>4, <2>5 DEF Cast, Played
      <3>3. \A b \in Accounts : dirty'[b] => InWorld(b)'
        BY <2>4, <2>5 DEF Cast, Played
      <3> QED
        BY <3>1, <3>2, <3>3 DEF Played
    <2>7. Awaited'
      <3>1. ASSUME NEW b \in Registered, b \in Elements(logins)'
            PROVE  LET t == session'[sessions[b]] IN
                   "login" \notin Elements(t.recv) /\ t.player = "none" /\ (~stopping => ~t.recent)
        <4>1. b # a /\ session'[sessions[b]] = session[sessions[b]]
          BY <1>3, <1>5, <1>8, <2>1, <3>1
        <4> QED
          BY <1>3, <3>1, <4>1 DEF Cast, Awaited
      <3> QED
        BY <1>2, <1>3, <1>4, <3>1 DEF Awaited
    <2>8. Newcomers'
      <3>1. \A s \in Coming : session'[s] = session[s]
        BY <1>5, <1>8, <2>1
      <3>2. \A s \in Coming : LET t == session[s] IN
               /\ t.state = "created" /\ t.player = "none" /\ ~t.recent
               /\ t.account \notin Registered /\ "login" \in Elements(t.recv)
                      => t.account \notin Elements(logins)'
        BY <1>3 DEF Cast, Newcomers
      <3> QED
        BY <1>4, <1>6, <3>1, <3>2 DEF Newcomers
    <2> QED
      BY <1>6, <2>6, <2>7, <2>8 DEF Cast
  <1> QED
    BY <1>1, <1>7, <1>8

\* All characters leave, saved.
LEMMA CleanupsCast ==
  ASSUME Served, Counted, Cast, CleanupsBeforeStop
  PROVE  Cast'
  <1>1. /\ wpc = "commands" /\ wpc' = "tick" /\ stopping' = TRUE
        /\ UNCHANGED <<sessions, addQueue, adding, todo, batch, wcur, logins>>
    BY DEF CleanupsBeforeStop
  <1>2. \A s \in Sockets : LET r == session[s]
                               q == session'[s]
                           IN  /\ q.account = r.account /\ q.recv = r.recv /\ (r.save => q.save)
                               /\ \A a \in Accounts : sessions[a] = s =>
                                      /\ q.recent
                                      /\ r.recent => q.player = r.player /\ q.logout = r.logout
                                      /\ ~r.recent => q.player = "none" /\ q.logout = 0
                               /\ (\A a \in Accounts : sessions[a] # s) => q = r
    BY CleanupsFacts
  <1>3. \A a \in Registered : a \in Accounts /\ sessions[a] \in Sockets
    BY RegisteredSessions
  <1>4. \A s \in Coming : s \in Sockets /\ \A a \in Accounts : sessions[a] # s
    BY ComingSessions DEF Served, Homes
  <1>5. /\ Registered' = Registered /\ Coming' = Coming
        /\ Elements(addQueue)' = Elements(addQueue) /\ Elements(logins)' = Elements(logins)
    BY <1>1 DEF Registered, Coming, Elements
  <1>6. ASSUME NEW s \in Sockets
        PROVE  /\ Fine(session'[s])
               /\ \A a \in Accounts : sessions[a] = s => session'[s].player = "none"
    <2> DEFINE r == session[s]
               q == session'[s]
    <2>1. Fine(r)
      BY DEF Cast, Played
    <2> HIDE DEF r, q
    <2>2. CASE \E a \in Accounts : sessions[a] = s
      <3>1. /\ q.account = r.account /\ q.recv = r.recv /\ (r.save => q.save)
            /\ q.recent
            /\ r.recent => q.player = r.player /\ q.logout = r.logout
            /\ ~r.recent => q.player = "none" /\ q.logout = 0
        BY <1>2, <2>2 DEF r, q
      <3>2. q.player = "none"
        BY <2>1, <3>1 DEF Fine
      <3>3. Fine(q)
        BY <2>1, <3>1, <3>2 DEF Fine
      <3> QED
        BY <3>2, <3>3 DEF q
    <2>3. CASE \A a \in Accounts : sessions[a] # s
      BY <1>2, <2>1, <2>3 DEF r, q
    <2> QED
      BY <2>2, <2>3
  <1>7. \A a \in Accounts : ~InWorld(a)'
    BY <1>1, <1>3, <1>5, <1>6 DEF InWorld
  <1>8. ASSUME NEW a \in Accounts
        PROVE  online'[a] = 0 /\ ~dirty'[a]
    <2> DEFINE left == {b \in Registered : Leaves(session[sessions[b]])}
    <2>1. /\ online'[a] = IF a \in left THEN online[a] - 1 ELSE online[a]
          /\ dirty'[a] = (dirty[a] /\ ~(a \in left /\ InPlace(session[sessions[a]]).save))
      BY DEF CleanupsBeforeStop
    <2>2. CASE InWorld(a)
      <3>1. a \in Registered /\ session[sessions[a]].player = "world" /\ session[sessions[a]] \in SessionType
        BY <2>2, RegisteredSessions DEF InWorld
      <3>2. ~session[sessions[a]].recent
        BY <1>3, <3>1 DEF Cast, Played, Fine
      <3>3. a \in left
        BY <3>1, <3>2 DEF Leaves
      <3>4. InPlace(session[sessions[a]]).save
        BY <3>1, InPlaceFacts
      <3>5. online[a] = 1
        BY <2>2 DEF Cast, Played
      <3> HIDE DEF left
      <3>6. online'[a] = 0
        BY <2>1, <3>3, <3>5
      <3>7. ~dirty'[a]
        BY <2>1, <3>3, <3>4, Zenon
      <3> QED
        BY <3>6, <3>7
    <2>3. CASE ~InWorld(a)
      <3>1. online[a] = 0 /\ ~dirty[a]
        BY <2>3 DEF Cast, Played
      <3>2. a \notin left
        BY <2>3 DEF InWorld, Leaves
      <3> HIDE DEF left
      <3> QED
        BY <2>1, <3>1, <3>2
    <2> QED
      BY <2>2, <2>3
  <1>9. Played'
    BY <1>6, <1>7, <1>8 DEF Played
  <1>10. Ended'
    BY <1>1, <1>7 DEF Ended
  <1>11. Awaited'
    <2>1. Different(logins)'
      BY <1>1 DEF Cast, Awaited, Different
    <2>2. ASSUME NEW a \in Registered, a \in Elements(logins)
          PROVE  "login" \notin Elements(session'[sessions[a]].recv) /\ session'[sessions[a]].player = "none"
      BY <1>2, <1>3, <1>6, <2>2 DEF Cast, Awaited
    <2> QED
      BY <1>1, <1>5, <2>1, <2>2 DEF Awaited
  <1>12. Taken'
    <2>1. batch' = <<>>
      BY <1>1 DEF Served, Turn
    <2> QED
      BY <2>1, EmptyBatch
  <1>13. Newcomers'
    <2>1. \A s \in Coming : session'[s] = session[s]
      BY <1>2, <1>4
    <2>2. \A a : ~Untouched(a)'
      BY <1>1 DEF Untouched, Updating
    <2> QED
      BY <1>5, <2>1, <2>2 DEF Cast, Newcomers
  <1> QED
    BY <1>9, <1>10, <1>11, <1>12, <1>13 DEF Cast

LEMMA InitCast ==
  ASSUME Init
  PROVE  Cast
  <1>1. Blank.save = TRUE /\ Blank.player = "none" /\ Blank.recent = FALSE /\ Blank.logout = 0 /\ Blank.recv = <<>>
    BY DEF Blank
  <1>2. Fine(Blank)
    BY <1>1 DEF Fine, Once
  <1>3. Registered = {} /\ Elements(addQueue) = {} /\ Coming = {} /\ \A a \in Accounts : ~InWorld(a)
    BY DEF Init, Registered, Coming, Elements, InWorld
  <1>4. Played
    BY <1>2, <1>3 DEF Init, Played
  <1>5. Ended
    BY DEF Init, Ended
  <1>6. Awaited /\ Newcomers
    BY <1>3 DEF Init, Awaited, Different, Newcomers
  <1>7. Taken
    BY DEF Init, Taken, Once, Elements
  <1> QED
    BY <1>4, <1>5, <1>6, <1>7 DEF Cast

LEMMA StepsCast ==
  ASSUME Served, Counted, Cast, OneLoginAtATime, MaxKicks = 0, [Next]_vars
  PROVE  Cast'
  <1>1. CASE Client
    <2>1. CASE \E k \in Sockets, a \in Accounts : HandleAuthSession(k, a)
      BY <2>1, StillSteps, ComesCast
    <2> QED
      BY <1>1, <2>1, QueuePacketCast, StillSteps DEF Client
  <1>2. CASE \E k \in Sockets : LogoutTimer(k) \/ KickTimer(k)
    BY <1>2, LogoutTimerCast, StillSteps
  <1>3. CASE WorldThread
    <2>1. CASE TakeAddQueue \/ AddExistingSession \/ AddSession
      BY <2>1, QueueMovesCast, AddSessionCast
    <2>2. CASE TakePackets \/ HandlePacket \/ UpdateState
      BY <2>2, TakePacketsCast, HandlePacketCast, UpdateStateCast
    <2>3. CASE \/ AllAdded \/ (\E a \in Accounts : ExecuteMessages(a)) \/ PacketsDone
               \/ AllUpdated \/ UpdateMaps \/ NoMoreResults \/ EndTick
      BY <2>3, FurtherCast
    <2>4. CASE LoginCallback \/ CleanupsBeforeStop
      BY <2>4, LoginCallbackCast, CleanupsCast
    <2>5. ~((\E a \in Accounts : Kick(a)) \/ KickAllLess)
      <3>1. ~(kicks < MaxKicks)
        BY DEF Counted
      <3> QED
        BY <3>1 DEF Kick, KickAllLess
    <2> QED
      BY <1>3, <2>1, <2>2, <2>3, <2>4, <2>5 DEF WorldThread
  <1>4. CASE UNCHANGED vars
    BY <1>4, StillSteps
  <1> QED
    BY <1>1, <1>2, <1>3, <1>4 DEF Next
-----------------------------------------------------------------------------
(***************************************************************************)
(* While nobody is kicked and an account has one login at a time on its    *)
(* way, a character is in the world once, for as long as the session of    *)
(* its account has it, whatever reconnects, lost clients, logouts and late *)
(* answers of the database come in between.                                *)
(***************************************************************************)
THEOREM CharactersHaveSessions ==
  ASSUME OneLoginAtATime, MaxKicks = 0
  PROVE  Spec => []EveryCharacterHasItsSession
  <1>1. Init => Served /\ Counted /\ Cast
    BY InitServes, InitCounts, InitCast
  <1>2. Served /\ Counted /\ Cast /\ [Next]_vars => (Served /\ Counted /\ Cast)'
    BY StepsServe, StepsCount, StepsCast
  <1>3. Served /\ Counted /\ Cast => EveryCharacterHasItsSession
    BY DEF Cast, Played, InWorld, Registered, EveryCharacterHasItsSession
  <1> QED
    BY <1>1, <1>2, <1>3, PTL DEF Spec

(***************************************************************************)
(* Under the same conditions, CleanupsBeforeStop and the last update of    *)
(* the sessions leave no character in the world, and none unsaved: no      *)
(* login that was on its way comes after it.                               *)
(***************************************************************************)
THEOREM ShutdownSaves ==
  ASSUME OneLoginAtATime, MaxKicks = 0
  PROVE  Spec => []ShutdownSavesEveryone
  <1>1. Init => Served /\ Counted /\ Cast
    BY InitServes, InitCounts, InitCast
  <1>2. Served /\ Counted /\ Cast /\ [Next]_vars => (Served /\ Counted /\ Cast)'
    BY StepsServe, StepsCount, StepsCast
  <1>3. Served /\ Counted /\ Cast => ShutdownSavesEveryone
    BY DEF Cast, Played, Ended, ShutdownSavesEveryone
  <1> QED
    BY <1>1, <1>2, <1>3, PTL DEF Spec

(***************************************************************************)
(* Under the same conditions, whichever way a character leaves the world,  *)
(* LogoutPlayer has saved it: no kick flag, socket or pending logout of    *)
(* its session makes it leave unsaved.                                     *)
(***************************************************************************)
THEOREM LogoutsSave ==
  ASSUME OneLoginAtATime, MaxKicks = 0
  PROVE  Spec => NothingLostAtLogout
  <1>1. Init => Served /\ Counted /\ Cast
    BY InitServes, InitCounts, InitCast
  <1>2. Served /\ Counted /\ Cast /\ [Next]_vars => (Served /\ Counted /\ Cast)'
    BY StepsServe, StepsCount, StepsCast
  <1>3. Cast /\ Cast' => [\A a \in Accounts : online'[a] < online[a] => ~dirty'[a]]_vars
    <2> SUFFICES ASSUME Cast, Cast', NEW a \in Accounts, online'[a] < online[a]
                 PROVE  ~dirty'[a]
      OBVIOUS
    <2>1. online[a] \in {0, 1} /\ online'[a] = IF InWorld(a)' THEN 1 ELSE 0
      BY DEF Cast, Played
    <2>2. ~InWorld(a)'
      BY <2>1
    <2> QED
      BY <2>2 DEF Cast, Played
  <1> QED
    BY <1>1, <1>2, <1>3, PTL DEF Spec, NothingLostAtLogout
=============================================================================
