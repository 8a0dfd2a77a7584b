----------------------------- MODULE TradeProofs -----------------------------
(***************************************************************************)
(* Proofs about Trade, for any number of players and items.  The invariant *)
(* is the pairing of trades together with what an acceptance stands for:   *)
(* the second cannot be kept without the first, because a handler that     *)
(* changes an offer resets the acceptances of a player and its partner.    *)
(***************************************************************************)
EXTENDS Trade, Sums, SequenceTheorems, TLAPS

TradeShape ==
    /\ partner \in [Players -> Players \cup {None}]
    /\ online \in [Players -> BOOLEAN]
    /\ accepted \in [Players -> BOOLEAN]
    /\ offer = [p \in Players |-> offer[p]]
    /\ seen = [p \in Players |-> seen[p]]

TradeInv == TradeShape /\ TradesArePaired /\ AcceptIsForThisOffer

\* The two ends of a trade have nothing to do with anybody else's.
LEMMA Partners ==
  ASSUME TradeInv, NEW p \in Players, partner[p] # None
  PROVE  /\ partner[p] \in Players /\ partner[p] # p /\ partner[partner[p]] = p
         /\ None \notin Players /\ online[p] /\ online[partner[p]]
         /\ \A r \in Players \ {p, partner[p]} : partner[r] \notin {p, partner[p]}
  <1>1. None \notin Players
    BY TradeAssumption
  <1>2. partner[p] \in Players /\ partner[p] # p /\ partner[partner[p]] = p /\ online[p]
    BY DEF TradeInv, TradeShape, TradesArePaired
  <1>3. online[partner[p]]
    BY <1>1, <1>2 DEF TradeInv, TradesArePaired
  <1>4. ASSUME NEW r \in Players \ {p, partner[p]} PROVE partner[r] \notin {p, partner[p]}
    BY <1>1, <1>2, <1>4 DEF TradeInv, TradesArePaired
  <1> QED
    BY <1>1, <1>2, <1>3, <1>4

\* The offers of one trade change and both its acceptances are taken back.
LEMMA ReconsiderStep ==
  ASSUME TradeInv, NEW p \in Players, partner[p] # None,
         NEW acc \in [Players -> BOOLEAN], ~acc[p], ~acc[partner[p]],
         \A r \in Players \ {p, partner[p]} : acc[r] = accepted[r] /\ offer'[r] = offer[r],
         offer' = [r \in Players |-> offer'[r]],
         SetAccepted(acc), UNCHANGED <<partner, online>>
  PROVE  TradeInv'
  <1>1. TradeShape'
    BY DEF TradeInv, TradeShape, SetAccepted
  <1>2. TradesArePaired'
    BY DEF TradeInv, TradesArePaired
  <1>3. AcceptIsForThisOffer'
    <2> SUFFICES ASSUME NEW r \in Players, acc[r]
                 PROVE  partner[r] # None /\ seen'[r] = <<offer'[r], offer'[partner[r]]>>
      BY DEF AcceptIsForThisOffer, SetAccepted
    <2>1. r \in Players \ {p, partner[p]}
      OBVIOUS
    <2>2. accepted[r] /\ seen'[r] = seen[r]
      BY <2>1 DEF SetAccepted
    <2>3. partner[r] # None /\ seen[r] = <<offer[r], offer[partner[r]]>>
      BY <2>2 DEF TradeInv, AcceptIsForThisOffer
    <2>4. partner[r] \in Players \ {p, partner[p]}
      BY <2>1, <2>3, Partners DEF TradeInv, TradeShape
    <2>5. offer'[r] = offer[r] /\ offer'[partner[r]] = offer[partner[r]]
      BY <2>1, <2>4
    <2> QED
      BY <2>2, <2>3, <2>5
  <1> QED
    BY <1>1, <1>2, <1>3 DEF TradeInv

\* Acceptances are taken back and nothing else changes.
LEMMA WithdrawStep ==
  ASSUME TradeInv, NEW acc \in [Players -> BOOLEAN],
         \A r \in Players : acc[r] => accepted[r],
         SetAccepted(acc), UNCHANGED <<partner, offer, online>>
  PROVE  TradeInv'
  <1>1. TradeShape' /\ TradesArePaired'
    BY DEF TradeInv, TradeShape, TradesArePaired, SetAccepted
  <1>2. AcceptIsForThisOffer'
    BY DEF TradeInv, AcceptIsForThisOffer, SetAccepted
  <1> QED
    BY <1>1, <1>2 DEF TradeInv

\* A player accepts the offers as they are; the partner's acceptance may fall.
LEMMA AcceptStep ==
  ASSUME TradeInv, NEW p \in Players, partner[p] # None, NEW q, q = partner[p],
         NEW b \in BOOLEAN, b => accepted[q],
         accepted' = [accepted EXCEPT ![p] = TRUE, ![q] = b],
         seen' = [seen EXCEPT ![p] = <<offer[p], offer[q]>>, ![q] = IF b THEN seen[q] ELSE None],
         UNCHANGED <<partner, offer, online>>
  PROVE  TradeInv'
  <1>1. q \in Players /\ q # p
    BY Partners
  <1>2. TradeShape' /\ TradesArePaired'
    BY <1>1 DEF TradeInv, TradeShape, TradesArePaired
  <1>3. AcceptIsForThisOffer'
    <2> SUFFICES ASSUME NEW r \in Players, accepted'[r]
                 PROVE  partner[r] # None /\ seen'[r] = <<offer[r], offer[partner[r]]>>
      BY DEF AcceptIsForThisOffer
    <2>1. CASE r = p
      BY <1>1, <2>1 DEF TradeInv, TradeShape
    <2>2. CASE r = q
      BY <1>1, <2>2 DEF TradeInv, TradeShape, AcceptIsForThisOffer
    <2>3. CASE r \notin {p, q}
      BY <1>1, <2>3 DEF TradeInv, TradeShape, AcceptIsForThisOffer
    <2> QED
      BY <2>1, <2>2, <2>3
  <1> QED
    BY <1>2, <1>3 DEF TradeInv

\* A trade ends, and its players may leave.
LEMMA CloseStep ==
  ASSUME TradeInv, NEW p \in Players, partner[p] # None, NEW q, q = partner[p],
         CloseTrade(p, q), online' \in [Players -> BOOLEAN],
         \A r \in Players \ {p} : online'[r] = online[r]
  PROVE  TradeInv'
  <1>1. q \in Players /\ q # p /\ \A r \in Players \ {p, q} : partner[r] \notin {p, q}
    BY Partners
  <1>2. None \notin Players
    BY TradeAssumption
  <1>3. /\ \A r \in Players \ {p, q} : /\ partner'[r] = partner[r] /\ offer'[r] = offer[r]
                                       /\ accepted'[r] = accepted[r]
                                       /\ accepted[r] => seen'[r] = seen[r]
        /\ partner'[p] = None /\ partner'[q] = None /\ ~accepted'[p] /\ ~accepted'[q]
    BY <1>1 DEF CloseTrade, SetAccepted, TradeInv, TradeShape
  <1>4. TradeShape'
    BY DEF TradeInv, TradeShape, CloseTrade, SetAccepted
  <1>5. TradesArePaired'
    BY <1>1, <1>2, <1>3 DEF TradeInv, TradeShape, TradesArePaired
  <1>6. AcceptIsForThisOffer'
    BY <1>1, <1>2, <1>3 DEF TradeInv, TradeShape, AcceptIsForThisOffer
  <1> QED
    BY <1>4, <1>5, <1>6 DEF TradeInv
-----------------------------------------------------------------------------
LEMMA InitTrade == Init => TradeInv
  BY TradeAssumption DEF Init, TradeInv, TradeShape, TradesArePaired, AcceptIsForThisOffer

LEMMA InitiateStep ==
  ASSUME TradeInv, NEW p \in Players, NEW q \in Players, HandleInitiateTrade(p, q)
  PROVE  TradeInv'
  <1> USE DEF HandleInitiateTrade
  <1>1. /\ None \notin Players /\ p # q
        /\ \A r \in Players : partner[r] \notin {p, q}
    BY TradeAssumption DEF TradeInv, TradesArePaired
  <1>2. /\ \A r \in Players \ {p, q} : /\ partner'[r] = partner[r] /\ offer'[r] = offer[r]
                                       /\ accepted'[r] = accepted[r]
                                       /\ accepted[r] => seen'[r] = seen[r]
        /\ partner'[p] = q /\ partner'[q] = p /\ ~accepted'[p] /\ ~accepted'[q]
    BY <1>1 DEF SetAccepted, TradeInv, TradeShape
  <1>3. TradeShape'
    BY DEF TradeInv, TradeShape, SetAccepted
  <1>4. TradesArePaired'
    <2> SUFFICES ASSUME NEW r \in Players, partner'[r] # None
                 PROVE  partner'[r] # r /\ online'[r] /\ partner'[partner'[r]] = r
      BY DEF TradesArePaired
    <2>1. CASE r \in {p, q}
      BY <1>1, <1>2, <2>1
    <2>2. CASE r \notin {p, q}
      <3>1. partner[r] # r /\ online[r] /\ partner[partner[r]] = r /\ partner[r] \in Players
        BY <1>2, <2>2 DEF TradeInv, TradeShape, TradesArePaired
      <3>2. partner'[r] = partner[r] /\ partner'[partner[r]] = partner[partner[r]]
        BY <1>1, <1>2, <2>2, <3>1
      <3> QED
        BY <3>1, <3>2
    <2> QED
      BY <2>1, <2>2
  <1>5. AcceptIsForThisOffer'
    <2> SUFFICES ASSUME NEW r \in Players, accepted'[r]
                 PROVE  partner'[r] # None /\ seen'[r] = <<offer'[r], offer'[partner'[r]]>>
      BY DEF AcceptIsForThisOffer
    <2>1. r \in Players \ {p, q}
      BY <1>2
    <2>2. accepted[r] /\ seen'[r] = seen[r] /\ partner'[r] = partner[r] /\ offer'[r] = offer[r]
      BY <1>2, <2>1
    <2>3. partner[r] # None /\ seen[r] = <<offer[r], offer[partner[r]]>>
      BY <2>2 DEF TradeInv, AcceptIsForThisOffer
    <2>4. partner[r] \in Players \ {p, q}
      BY <1>1, <2>3 DEF TradeInv, TradeShape
    <2>5. offer'[partner[r]] = offer[partner[r]]
      BY <1>2, <2>4
    <2> QED
      BY <2>2, <2>3, <2>5
  <1> QED
    BY <1>3, <1>4, <1>5 DEF TradeInv

LEMMA SetItemStep ==
  ASSUME TradeInv, NEW p \in Players, partner[p] # None, NEW s, NEW i, SetItem(p, s, i),
         UNCHANGED online
  PROVE  TradeInv'
  <1> DEFINE acc == [accepted EXCEPT ![p] = FALSE, ![partner[p]] = FALSE]
  <1>1. acc \in [Players -> BOOLEAN] /\ ~acc[p] /\ ~acc[partner[p]] /\ SetAccepted(acc)
    BY Partners DEF SetItem, TradeInv, TradeShape
  <1>2. offer' = [r \in Players |-> offer'[r]]
    BY DEF SetItem, TradeInv, TradeShape
  <1>3. \A r \in Players \ {p, partner[p]} : acc[r] = accepted[r] /\ offer'[r] = offer[r]
    BY DEF SetItem, TradeInv, TradeShape
  <1> HIDE DEF acc
  <1> QED
    BY <1>1, <1>2, <1>3, ReconsiderStep DEF SetItem

LEMMA NewOfferStep ==
  ASSUME TradeInv, NEW p \in Players, partner[p] # None, NEW o, Reconsider(p, o),
         UNCHANGED online
  PROVE  TradeInv'
  <1> DEFINE acc == [accepted EXCEPT ![p] = FALSE, ![partner[p]] = FALSE]
  <1>1. acc \in [Players -> BOOLEAN] /\ ~acc[p] /\ ~acc[partner[p]] /\ SetAccepted(acc)
    BY Partners DEF Reconsider, TradeInv, TradeShape
  <1>2. offer' = [r \in Players |-> offer'[r]]
    BY DEF Reconsider, TradeInv, TradeShape
  <1>3. \A r \in Players \ {p, partner[p]} : acc[r] = accepted[r] /\ offer'[r] = offer[r]
    BY DEF Reconsider, TradeInv, TradeShape
  <1> HIDE DEF acc
  <1> QED
    BY <1>1, <1>2, <1>3, ReconsiderStep DEF Reconsider

LEMMA RefuseStep ==
  ASSUME TradeInv, NEW p \in Players, partner[p] # None, NEW b \in BOOLEAN,
         SetAccepted([accepted EXCEPT ![p] = FALSE, ![partner[p]] = b]),
         b => accepted[partner[p]], UNCHANGED <<partner, offer, online>>
  PROVE  TradeInv'
  <1> DEFINE acc == [accepted EXCEPT ![p] = FALSE, ![partner[p]] = b]
  <1>0. accepted \in [Players -> BOOLEAN] /\ partner[p] \in Players
    BY Partners DEF TradeInv, TradeShape
  <1>1. acc \in [Players -> BOOLEAN] /\ \A r \in Players : acc[r] => accepted[r]
    BY <1>0
  <1>2. SetAccepted(acc)
    OBVIOUS
  <1> HIDE DEF acc
  <1> QED
    BY <1>1, <1>2, WithdrawStep

LEMMA UnacceptStep ==
  ASSUME TradeInv, NEW p \in Players, SetAccepted([accepted EXCEPT ![p] = FALSE]),
         UNCHANGED <<partner, offer, online>>
  PROVE  TradeInv'
  <1> DEFINE acc == [accepted EXCEPT ![p] = FALSE]
  <1>1. acc \in [Players -> BOOLEAN] /\ \A r \in Players : acc[r] => accepted[r]
    BY DEF TradeInv, TradeShape
  <1>2. SetAccepted(acc)
    OBVIOUS
  <1> HIDE DEF acc
  <1> QED
    BY <1>1, <1>2, WithdrawStep

LEMMA AcceptTradeStep ==
  ASSUME TradeInv, NEW p \in Players, HandleAcceptTrade(p)
  PROVE  TradeInv'
  <1> DEFINE q == partner[p]
  <1>1. /\ partner[p] # None /\ UNCHANGED online
        /\ q \in Players /\ q # p /\ partner[q] = p /\ partner[q] # None
    BY Partners DEF HandleAcceptTrade
  <1>2. CASE RefusedFarAway(p) /\ UNCHANGED <<partner, offer>>
    BY <1>1, <1>2, UnacceptStep DEF RefusedFarAway
  <1>3. CASE RefusedMoney(p, q) /\ UNCHANGED <<partner, offer>>
    <2>1. CASE SetAccepted([accepted EXCEPT ![p] = FALSE])
      BY <1>1, <1>3, <2>1, UnacceptStep
    <2>2. CASE /\ accepted' = [accepted EXCEPT ![p] = TRUE, ![q] = FALSE]
               /\ seen' = [seen EXCEPT ![p] = <<offer[p], offer[q]>>, ![q] = None]
      BY <1>1, <1>3, <2>2, AcceptStep
    <2> QED
      BY <1>3, <2>1, <2>2 DEF RefusedMoney
  <1>4. CASE Accepts(p) /\ UNCHANGED <<partner, offer>>
    <2>1. /\ accepted' = [accepted EXCEPT ![p] = TRUE, ![q] = accepted[q]]
          /\ accepted[q] \in BOOLEAN
      BY <1>1, <1>4 DEF Accepts, TradeInv, TradeShape
    <2>2. CASE accepted[q]
      <3>1. seen' = [seen EXCEPT ![p] = <<offer[p], offer[q]>>, ![q] = seen[q]]
        BY <1>1, <1>4 DEF Accepts, TradeInv, TradeShape
      <3> QED
        BY <1>1, <1>4, <2>1, <2>2, <3>1, AcceptStep
    <2>3. CASE ~accepted[q]
      <3>1. TradeShape' /\ TradesArePaired'
        BY <1>1, <1>4 DEF Accepts, TradeInv, TradeShape, TradesArePaired
      <3>2. AcceptIsForThisOffer'
        BY <1>1, <1>4, <2>3 DEF Accepts, TradeInv, TradeShape, AcceptIsForThisOffer
      <3> QED
        BY <3>1, <3>2 DEF TradeInv
    <2> QED
      BY <2>2, <2>3
  <1>5. CASE RefusedSpell(p, q)
    <2>1. CASE Reconsider(p, [offer[p] EXCEPT !.spell = None])
      BY <1>1, <2>1, NewOfferStep
    <2>2. CASE Reconsider(q, [offer[q] EXCEPT !.spell = None])
      BY <1>1, <2>2, NewOfferStep
    <2> QED
      BY <1>5, <2>1, <2>2 DEF RefusedSpell
  <1>6. CASE RefusedSpace(p, q) /\ UNCHANGED <<partner, offer>>
    <2>1. SetAccepted([accepted EXCEPT ![p] = FALSE, ![q] = FALSE])
      BY <1>6 DEF RefusedSpace
    <2>2. FALSE \in BOOLEAN /\ UNCHANGED <<partner, offer, online>>
      BY <1>1, <1>6
    <2> QED
      BY <1>1, <2>1, <2>2, RefuseStep
  <1>7. CASE Exchange(p, q)
    BY <1>1, <1>7, CloseStep DEF Exchange, TradeInv, TradeShape
  <1>8. \/ RefusedFarAway(p) /\ UNCHANGED <<partner, offer>>
        \/ RefusedMoney(p, q) /\ UNCHANGED <<partner, offer>>
        \/ RefusedItems(p, q) /\ UNCHANGED <<partner, offer>>
        \/ Accepts(p) /\ UNCHANGED <<partner, offer>>
        \/ RefusedSpell(p, q)
        \/ RefusedSpace(p, q) /\ UNCHANGED <<partner, offer>>
        \/ Exchange(p, q)
    BY Zenon DEF HandleAcceptTrade
  <1>9. RefusedItems(p, q) => Accepts(p)
    BY DEF RefusedItems
  <1> QED
    BY <1>2, <1>3, <1>4, <1>5, <1>6, <1>7, <1>8, <1>9

LEMMA LogoutStep ==
  ASSUME TradeInv, NEW p \in Players, LogoutPlayer(p)
  PROVE  TradeInv'
  <1>1. CASE partner[p] # None
    BY <1>1, CloseStep DEF LogoutPlayer, TradeInv, TradeShape
  <1>2. CASE partner[p] = None
    <2>1. \A r \in Players : partner[r] # p
      BY <1>2, TradeAssumption DEF TradeInv, TradesArePaired
    <2>2. TradeShape' /\ AcceptIsForThisOffer'
      BY <1>2 DEF LogoutPlayer, trades, TradeInv, TradeShape, AcceptIsForThisOffer
    <2>3. TradesArePaired'
      BY <1>2, <2>1 DEF LogoutPlayer, trades, TradeInv, TradeShape, TradesArePaired
    <2> QED
      BY <2>2, <2>3 DEF TradeInv
  <1> QED
    BY <1>1, <1>2

LEMMA NextTrade == TradeInv /\ [Next]_vars => TradeInv'
  <1> SUFFICES ASSUME TradeInv, [Next]_vars PROVE TradeInv'
    OBVIOUS
  <1>1. ASSUME NEW p \in Players, Handle(p) PROVE TradeInv'
    <2>1. ASSUME NEW q \in Players, HandleInitiateTrade(p, q) PROVE TradeInv'
      BY <2>1, InitiateStep
    <2>2. ASSUME NEW s \in Slots, NEW i \in Items, HandleSetTradeItem(p, s, i) PROVE TradeInv'
      BY <2>2, SetItemStep DEF HandleSetTradeItem
    <2>3. ASSUME NEW s \in Slots, HandleClearTradeItem(p, s) PROVE TradeInv'
      BY <2>3, SetItemStep DEF HandleClearTradeItem
    <2>4. ASSUME NEW gold \in 0 .. MaxMoney, HandleSetTradeGold(p, gold) PROVE TradeInv'
      BY <2>4, NewOfferStep DEF HandleSetTradeGold
    <2>5. ASSUME NEW spell \in Spells, SetSpell(p, spell) PROVE TradeInv'
      BY <2>5, NewOfferStep DEF SetSpell
    <2>6. CASE HandleUnacceptTrade(p)
      BY <2>6, UnacceptStep DEF HandleUnacceptTrade
    <2>7. CASE HandleAcceptTrade(p)
      BY <2>7, AcceptTradeStep
    <2>8. CASE TradeCancel(p)
      BY <2>8, CloseStep DEF TradeCancel, TradeInv, TradeShape
    <2> QED
      BY <1>1, <2>1, <2>2, <2>3, <2>4, <2>5, <2>6, <2>7, <2>8 DEF Handle
  <1>2. ASSUME UNCHANGED <<trades, online>> PROVE TradeInv'
    BY <1>2 DEF trades, TradeInv, TradeShape, TradesArePaired, AcceptIsForThisOffer
  <1>3. ASSUME NEW p \in Players, Spend(p) \/ SaveToDB(p) PROVE TradeInv'
    BY <1>2, <1>3 DEF Spend, SaveToDB
  <1>4. ASSUME NEW p \in Players, LogoutPlayer(p) PROVE TradeInv'
    BY <1>4, LogoutStep
  <1>5. ASSUME NEW p \in Players, Login(p) PROVE TradeInv'
    <2>1. TradeShape' /\ AcceptIsForThisOffer'
      BY <1>5 DEF Login, trades, TradeInv, TradeShape, AcceptIsForThisOffer
    <2>2. TradesArePaired'
      BY <1>5 DEF Login, trades, TradeInv, TradeShape, TradesArePaired
    <2> QED
      BY <2>1, <2>2 DEF TradeInv
  <1>6. ASSUME NEW p \in Players, NEW i \in Perishable, DestroyItem(p, i) PROVE TradeInv'
    BY <1>2, <1>6 DEF DestroyItem
  <1>7. ASSUME NEW i \in Bindable, Bind(i) PROVE TradeInv'
    BY <1>2, <1>7 DEF Bind
  <1>8. CASE ExecuteSave \/ UNCHANGED vars
    BY <1>2, <1>8 DEF ExecuteSave, vars
  <1>9. CASE Crash
    BY <1>9 DEF Crash, SetAccepted, TradeInv, TradeShape, TradesArePaired, AcceptIsForThisOffer
  <1> QED
    BY <1>1, <1>3, <1>4, <1>5, <1>6, <1>7, <1>8, <1>9 DEF Next

(***************************************************************************)
(* The trader a handler reaches through m_trade is online and in a trade   *)
(* with the player the handler is for.                                     *)
(***************************************************************************)
THEOREM Paired == Spec => []TradesArePaired
  <1>1. TradeInv => TradesArePaired
    BY DEF TradeInv
  <1> QED
    BY <1>1, InitTrade, NextTrade, PTL DEF Spec

(***************************************************************************)
(* A standing acceptance was given for the two offers as they are.         *)
(***************************************************************************)
THEOREM AcceptanceIsCurrent == Spec => []AcceptIsForThisOffer
  <1>1. TradeInv => AcceptIsForThisOffer
    BY DEF TradeInv
  <1> QED
    BY <1>1, InitTrade, NextTrade, PTL DEF Spec
-----------------------------------------------------------------------------
(***************************************************************************)
(* Gold.  What a player has, in memory, on its way to the database or in   *)
(* it, is never negative, and neither is what anybody offers: without that *)
(* a negative offer would be a gain for the player that makes it.          *)
(***************************************************************************)
Wallet(h) ==
    \E S, B, G : h \in [money : 0 .. MaxMoney, spent : S, bag : B, gone : G]

GoldInv ==
    /\ offer \in [Players -> Offer]
    /\ has = [p \in Players |-> has[p]] /\ saved = [p \in Players |-> saved[p]]
    /\ \A p \in Players : Wallet(has[p]) /\ Wallet(saved[p])
    /\ \E S : pending \in Seq(S)
    /\ \A k \in 1 .. Len(pending) : \A p \in DOMAIN pending[k] : Wallet(pending[k][p])

LEMMA WalletMoney == ASSUME NEW h, Wallet(h) PROVE h.money \in 0 .. MaxMoney
  BY DEF Wallet

\* The ways a wallet changes.
Paid(h, b, m) == [h EXCEPT !.bag = b, !.money = m]

LEMMA WalletPaid ==
  ASSUME NEW h, Wallet(h), NEW b, NEW m \in 0 .. MaxMoney
  PROVE  Wallet(Paid(h, b, m)) /\ Paid(h, b, m).money = m
  <1>1. PICK S, B, G : h \in [money : 0 .. MaxMoney, spent : S, bag : B, gone : G]
    BY DEF Wallet
  <1>2. [h EXCEPT !.bag = b, !.money = m]
            \in [money : 0 .. MaxMoney, spent : S, bag : {b}, gone : G]
    BY <1>1
  <1>3. [h EXCEPT !.bag = b, !.money = m].money = m
    BY <1>1
  <1> QED
    BY <1>2, <1>3 DEF Wallet, Paid

LEMMA WalletSpent ==
  ASSUME NEW h, Wallet(h), h.money > 0
  PROVE  /\ Wallet([h EXCEPT !.money = @ - 1, !.spent = @ + 1])
         /\ [h EXCEPT !.money = @ - 1, !.spent = @ + 1].money = h.money - 1
  <1> DEFINE m == h.money - 1
             s == h.spent + 1
  <1>1. PICK S, B, G : h \in [money : 0 .. MaxMoney, spent : S, bag : B, gone : G]
    BY DEF Wallet
  <1>2. m \in 0 .. MaxMoney
    <2>1. h.money \in 0 .. MaxMoney
      BY WalletMoney
    <2> QED
      BY <2>1, TradeAssumption
  <1> HIDE DEF m, s
  <1>3. [h EXCEPT !.money = m, !.spent = s]
            \in [money : 0 .. MaxMoney, spent : {s}, bag : B, gone : G]
    BY <1>1, <1>2
  <1>4. [h EXCEPT !.money = m, !.spent = s].money = m
    BY <1>1
  <1>5. Wallet([h EXCEPT !.money = m, !.spent = s])
    BY <1>3 DEF Wallet
  <1> QED
    BY <1>4, <1>5, Zenon DEF m, s

LEMMA WalletLost ==
  ASSUME NEW h, Wallet(h), NEW i
  PROVE  /\ Wallet([h EXCEPT !.bag = @ \ {i}, !.gone = @ \cup {i}])
         /\ [h EXCEPT !.bag = @ \ {i}, !.gone = @ \cup {i}].money = h.money
  <1> DEFINE b == h.bag \ {i}
             g == h.gone \cup {i}
  <1>1. PICK S, B, G : h \in [money : 0 .. MaxMoney, spent : S, bag : B, gone : G]
    BY DEF Wallet
  <1> HIDE DEF b, g
  <1>2. [h EXCEPT !.bag = b, !.gone = g]
            \in [money : 0 .. MaxMoney, spent : S, bag : {b}, gone : {g}]
    BY <1>1
  <1>3. [h EXCEPT !.bag = b, !.gone = g].money = h.money
    BY <1>1
  <1>4. Wallet([h EXCEPT !.bag = b, !.gone = g])
    BY <1>2 DEF Wallet
  <1> QED
    BY <1>3, <1>4, Zenon DEF b, g

LEMMA EmptyOfferType == EmptyOffer \in Offer
  <1>1. [s \in Slots |-> None] \in [Slots -> Items \cup {None}]
    OBVIOUS
  <1> QED
    BY <1>1, TradeAssumption DEF EmptyOffer, Offer

LEMMA InitGold == Init => GoldInv
  <1> SUFFICES ASSUME Init PROVE GoldInv
    OBVIOUS
  <1>1. offer \in [Players -> Offer]
    BY EmptyOfferType DEF Init
  <1>2. has = [p \in Players |-> has[p]] /\ saved = [p \in Players |-> saved[p]]
    BY DEF Init
  <1>3. \A p \in Players : Wallet(has[p]) /\ Wallet(saved[p])
    BY TradeAssumption DEF Init, Wallet
  <1>4. pending \in Seq({}) /\ Len(pending) = 0
    BY EmptySeq DEF Init
  <1> QED
    BY <1>1, <1>2, <1>3, <1>4 DEF GoldInv

\* Deducting and adding gold keeps it in range and adds no more than it says.
LEMMA ModifyMoneyBound ==
  ASSUME NEW money \in 0 .. MaxMoney, NEW give \in 0 .. MaxMoney, NEW get \in 0 .. MaxMoney
  PROVE  /\ ModifyMoney(money, give, get) \in 0 .. MaxMoney
         /\ ModifyMoney(money, give, get) <= money + get
  BY TradeAssumption DEF ModifyMoney

LEMMA AppendSave ==
  ASSUME GoldInv, NEW f, \A p \in DOMAIN f : Wallet(f[p])
  PROVE  /\ \E S : Append(pending, f) \in Seq(S)
         /\ \A k \in 1 .. Len(Append(pending, f)) : \A p \in DOMAIN Append(pending, f)[k] :
                Wallet(Append(pending, f)[k][p])
  <1>1. PICK S : pending \in Seq(S)
    BY DEF GoldInv
  <1> DEFINE T == S \cup {f}
             s == Append(pending, f)
  <1>2. pending \in Seq(T) /\ f \in T
    <2>1. S \subseteq T
      OBVIOUS
    <2> QED
      BY <1>1, <2>1, SeqMonotonic
  <1> HIDE DEF T
  <1>3. /\ s \in Seq(T) /\ Len(s) = Len(pending) + 1 /\ s[Len(pending) + 1] = f
        /\ \A k \in 1 .. Len(pending) : s[k] = pending[k]
        /\ Len(pending) \in Nat
    BY <1>2, AppendProperties, LenProperties
  <1> HIDE DEF s
  <1>4. ASSUME NEW k \in 1 .. Len(s), NEW p \in DOMAIN s[k] PROVE Wallet(s[k][p])
    <2>1. CASE k = Len(pending) + 1
      BY <1>3, <1>4, <2>1
    <2>2. CASE k \in 1 .. Len(pending)
      BY <1>3, <1>4, <2>2 DEF GoldInv
    <2> QED
      BY <1>3, <2>1, <2>2
  <1>5. (\E R : s \in Seq(R))
        /\ \A k \in 1 .. Len(s) : \A p \in DOMAIN s[k] : Wallet(s[k][p])
    BY <1>3, <1>4
  <1> QED
    BY <1>5 DEF s

\* A step of the trade that moves nothing.
LEMMA OfferStep ==
  ASSUME GoldInv, offer' \in [Players -> Offer], UNCHANGED <<has, saved, pending>>
  PROVE  GoldInv'
  BY DEF GoldInv

LEMMA CloseOffers ==
  ASSUME GoldInv, NEW p, NEW q, CloseTrade(p, q)
  PROVE  offer' \in [Players -> Offer]
  BY EmptyOfferType DEF GoldInv, CloseTrade

LEMMA ReconsiderOffers ==
  ASSUME GoldInv, NEW p \in Players, NEW o \in Offer, Reconsider(p, o)
  PROVE  offer' \in [Players -> Offer]
  BY DEF GoldInv, Reconsider

LEMMA OfferWithItem ==
  ASSUME NEW o \in Offer, NEW s \in Slots, NEW i \in Items \cup {None}
  PROVE  [o EXCEPT !.slots[s] = i, !.spell = None] \in Offer
  <1> DEFINE t == [o.slots EXCEPT ![s] = i]
  <1>1. t \in [Slots -> Items \cup {None}] /\ o.money \in 0 .. MaxMoney
    BY DEF Offer
  <1>2. [o EXCEPT !.slots = t] \in Offer
    BY <1>1 DEF Offer
  <1>3. [o EXCEPT !.slots = t, !.spell = None] \in Offer
    BY <1>1 DEF Offer
  <1> QED
    BY <1>3, Zenon

LEMMA SetItemOffers ==
  ASSUME GoldInv, TradeInv, NEW p \in Players, partner[p] # None, NEW s \in Slots,
         NEW i \in Items \cup {None}, SetItem(p, s, i)
  PROVE  offer' \in [Players -> Offer]
  <1> DEFINE q == partner[p]
             own == [offer[p] EXCEPT !.slots[s] = i, !.spell = None]
             other == [offer[q] EXCEPT !.spell = IF s = NonTraded THEN None ELSE @]
  <1>1. q \in Players /\ q # p /\ offer[p] \in Offer /\ offer[q] \in Offer
    BY Partners DEF GoldInv
  <1>2. own \in Offer
    BY <1>1, OfferWithItem
  <1>3. other \in Offer
    BY <1>1 DEF Offer
  <1>4. offer' = [offer EXCEPT ![p] = own, ![q] = other]
    BY <1>1 DEF SetItem, GoldInv
  <1> HIDE DEF own, other, q
  <1> QED
    BY <1>1, <1>2, <1>3, <1>4 DEF GoldInv

\* The exchange: each side loses what it offered and gains what the other did.
LEMMA ExchangeGold ==
  ASSUME TradeInv, GoldInv, NEW p \in Players, partner[p] # None, NEW q, q = partner[p],
         Exchange(p, q)
  PROVE  /\ has' = [r \in Players |-> has'[r]] /\ \A r \in Players : Wallet(has'[r])
         /\ \A r \in Players \ {p, q} : has'[r] = has[r]
         /\ has'[p].money <= has[p].money + offer[q].money
         /\ has'[q].money <= has[q].money + offer[p].money
  <1> DEFINE mine == offer[p].money
             his == offer[q].money
             mp == ModifyMoney(has[p].money, mine, his)
             mq == ModifyMoney(has[q].money, his, mine)
             hp == Paid(has[p], MoveItems(p, q).mine.items, mp)
             hq == Paid(has[q], MoveItems(p, q).his.items, mq)
  <1>1. q \in Players /\ q # p
    BY Partners
  <1>2. mine \in 0 .. MaxMoney /\ his \in 0 .. MaxMoney
    BY <1>1 DEF GoldInv, Offer
  <1>3. /\ Wallet(has[p]) /\ Wallet(has[q])
        /\ has[p].money \in 0 .. MaxMoney /\ has[q].money \in 0 .. MaxMoney
    BY <1>1, WalletMoney DEF GoldInv
  <1>4. /\ mp \in 0 .. MaxMoney /\ mp <= has[p].money + his
        /\ mq \in 0 .. MaxMoney /\ mq <= has[q].money + mine
    BY <1>2, <1>3, ModifyMoneyBound
  <1>5. has' = [has EXCEPT ![p] = hp, ![q] = hq]
    BY <1>1 DEF Exchange, GoldInv, Paid
  <1> HIDE DEF mine, his, mp, mq
  <1>6. Wallet(hp) /\ hp.money = mp /\ Wallet(hq) /\ hq.money = mq
    BY <1>3, <1>4, WalletPaid
  <1> HIDE DEF hp, hq
  <1>7. /\ has' = [r \in Players |-> has'[r]]
        /\ has'[p] = hp /\ has'[q] = hq /\ \A r \in Players \ {p, q} : has'[r] = has[r]
    BY <1>1, <1>5 DEF GoldInv
  <1>8. \A r \in Players : Wallet(has'[r])
    BY <1>6, <1>7 DEF GoldInv
  <1> QED
    BY <1>4, <1>6, <1>7, <1>8 DEF mine, his

LEMMA AcceptTradeGold ==
  ASSUME TradeInv, GoldInv, NEW p \in Players, HandleAcceptTrade(p)
  PROVE  GoldInv'
  <1> DEFINE q == partner[p]
  <1>1. partner[p] # None /\ q \in Players /\ offer[p] \in Offer /\ offer[q] \in Offer
    BY Partners DEF HandleAcceptTrade, GoldInv
  <1>2. CASE UNCHANGED offer /\ UNCHANGED <<has, pending, saved>>
    BY <1>2, OfferStep DEF GoldInv
  <1>3. CASE RefusedSpell(p, q) /\ UNCHANGED <<has, pending, saved>>
    <2>1. [offer[p] EXCEPT !.spell = None] \in Offer /\ [offer[q] EXCEPT !.spell = None] \in Offer
      BY <1>1 DEF Offer
    <2>2. offer' \in [Players -> Offer]
      BY <1>1, <1>3, <2>1, ReconsiderOffers DEF RefusedSpell
    <2> QED
      BY <1>3, <2>2, OfferStep
  <1>4. CASE Exchange(p, q) /\ UNCHANGED saved
    <2> DEFINE f == [x \in {p, q} |-> has'[x]]
    <2>1. /\ has' = [r \in Players |-> has'[r]] /\ \A r \in Players : Wallet(has'[r])
      BY <1>1, <1>4, ExchangeGold
    <2>2. pending' = Append(pending, f) /\ CloseTrade(p, q) /\ saved' = saved
      BY <1>4 DEF Exchange, SaveBoth
    <2>3. \A x \in DOMAIN f : Wallet(f[x])
      BY <1>1, <2>1
    <2>4. offer' \in [Players -> Offer]
      BY <2>2, CloseOffers
    <2> HIDE DEF f
    <2>5. /\ \E S : pending' \in Seq(S)
          /\ \A k \in 1 .. Len(pending') : \A x \in DOMAIN pending'[k] : Wallet(pending'[k][x])
      BY <2>2, <2>3, AppendSave
    <2> QED
      BY <2>1, <2>2, <2>4, <2>5 DEF GoldInv
  <1>5. \/ UNCHANGED offer /\ UNCHANGED <<has, pending, saved>>
        \/ RefusedSpell(p, q) /\ UNCHANGED <<has, pending, saved>>
        \/ Exchange(p, q) /\ UNCHANGED saved
    BY DEF HandleAcceptTrade
  <1> HIDE DEF q
  <1> QED
    BY <1>2, <1>3, <1>4, <1>5

\* What the database is given is what somebody had.
LEMMA SaveStep ==
  ASSUME GoldInv, NEW p \in Players, pending' = Append(pending, [x \in {p} |-> has[x]]),
         UNCHANGED <<has, saved>>, offer' \in [Players -> Offer]
  PROVE  GoldInv'
  <1> DEFINE f == [x \in {p} |-> has[x]]
  <1>1. \A x \in DOMAIN f : Wallet(f[x])
    BY DEF GoldInv
  <1> HIDE DEF f
  <1>2. /\ \E S : pending' \in Seq(S)
        /\ \A k \in 1 .. Len(pending') : \A x \in DOMAIN pending'[k] : Wallet(pending'[k][x])
    BY <1>1, AppendSave DEF f
  <1> QED
    BY <1>2 DEF GoldInv

LEMMA ExecuteGold == ASSUME GoldInv, ExecuteSave PROVE GoldInv'
  <1>1. PICK S : pending \in Seq(S)
    BY DEF GoldInv
  <1>2. /\ pending # <<>> /\ Head(pending) = pending[1] /\ 1 \in 1 .. Len(pending)
        /\ pending' \in Seq(S) /\ Len(pending') = Len(pending) - 1 /\ Len(pending) \in Nat
        /\ \A k \in 1 .. Len(pending') : pending'[k] = pending[k + 1]
    BY <1>1, HeadTailProperties, EmptySeq, LenProperties DEF ExecuteSave
  <1>3. \A p \in DOMAIN Head(pending) : Wallet(Head(pending)[p])
    BY <1>2 DEF GoldInv
  <1>4. saved' = [p \in Players |-> IF p \in DOMAIN Head(pending) THEN Head(pending)[p] ELSE saved[p]]
    BY DEF ExecuteSave
  <1>5. saved' = [p \in Players |-> saved'[p]] /\ \A p \in Players : Wallet(saved'[p])
    BY <1>3, <1>4 DEF GoldInv
  <1>6. ASSUME NEW k \in 1 .. Len(pending'), NEW p \in DOMAIN pending'[k]
        PROVE  Wallet(pending'[k][p])
    <2>1. k + 1 \in 1 .. Len(pending) /\ pending'[k] = pending[k + 1]
      BY <1>2
    <2> QED
      BY <1>6, <2>1 DEF GoldInv
  <1>7. UNCHANGED <<has, offer>>
    BY DEF ExecuteSave, trades
  <1> QED
    BY <1>2, <1>5, <1>6, <1>7 DEF GoldInv

\* An offer stays one when its money or its spell is replaced.
LEMMA OfferWithMoney ==
  ASSUME NEW o \in Offer, NEW gold \in 0 .. MaxMoney
  PROVE  [o EXCEPT !.money = gold] \in Offer
  BY DEF Offer

LEMMA OfferWithSpell ==
  ASSUME NEW o \in Offer, NEW spell \in Spells
  PROVE  [o EXCEPT !.spell = spell] \in Offer
  BY TradeAssumption DEF Offer

LEMMA NextGold == TradeInv /\ GoldInv /\ [Next]_vars => GoldInv'
  <1> SUFFICES ASSUME TradeInv, GoldInv, [Next]_vars PROVE GoldInv'
    OBVIOUS
  <1> USE TradeAssumption
  <1>1. ASSUME NEW p \in Players, Handle(p) PROVE GoldInv'
    <2>1. ASSUME NEW q \in Players, HandleInitiateTrade(p, q) PROVE GoldInv'
      <3>1. offer' \in [Players -> Offer]
        BY <2>1, EmptyOfferType DEF HandleInitiateTrade, GoldInv
      <3> QED
        BY <2>1, <3>1, OfferStep DEF HandleInitiateTrade
    <2>2. ASSUME NEW s \in Slots, NEW i \in Items, HandleSetTradeItem(p, s, i) PROVE GoldInv'
      BY <2>2, SetItemOffers, OfferStep DEF HandleSetTradeItem
    <2>3. ASSUME NEW s \in Slots, HandleClearTradeItem(p, s) PROVE GoldInv'
      BY <2>3, SetItemOffers, OfferStep DEF HandleClearTradeItem
    <2>4. ASSUME NEW gold \in 0 .. MaxMoney, HandleSetTradeGold(p, gold) PROVE GoldInv'
      <3>0. offer[p] \in Offer
        BY <1>1 DEF GoldInv
      <3>1. [offer[p] EXCEPT !.money = gold] \in Offer
        BY <2>4, <3>0, OfferWithMoney
      <3> QED
        BY <2>4, <3>1, ReconsiderOffers, OfferStep DEF HandleSetTradeGold
    <2>5. ASSUME NEW spell \in Spells, SetSpell(p, spell) PROVE GoldInv'
      <3>0. offer[p] \in Offer
        BY <1>1 DEF GoldInv
      <3>1. [offer[p] EXCEPT !.spell = spell] \in Offer
        BY <2>5, <3>0, OfferWithSpell
      <3> QED
        BY <2>5, <3>1, ReconsiderOffers, OfferStep DEF SetSpell
    <2>6. CASE HandleUnacceptTrade(p)
      BY <2>6, OfferStep DEF HandleUnacceptTrade, GoldInv
    <2>7. CASE HandleAcceptTrade(p)
      BY <2>7, AcceptTradeGold
    <2>8. CASE TradeCancel(p)
      BY <2>8, CloseOffers, OfferStep DEF TradeCancel
    <2> QED
      BY <1>1, <2>1, <2>2, <2>3, <2>4, <2>5, <2>6, <2>7, <2>8 DEF Handle
  <1>2. ASSUME NEW p \in Players, Spend(p) PROVE GoldInv'
    <2> DEFINE h == [has[p] EXCEPT !.money = @ - 1, !.spent = @ + 1]
    <2>1. Wallet(has[p]) /\ has[p].money > 0
      BY <1>2 DEF Spend, GoldInv
    <2>2. Wallet(h)
      BY <2>1, WalletSpent
    <2>3. has' = [has EXCEPT ![p] = h]
      BY <1>2 DEF Spend, GoldInv
    <2> HIDE DEF h
    <2> QED
      BY <1>2, <2>2, <2>3 DEF Spend, trades, GoldInv
  <1>3. ASSUME NEW p \in Players, NEW i \in Items, DestroyItem(p, i) PROVE GoldInv'
    <2> DEFINE h == [has[p] EXCEPT !.bag = @ \ {i}, !.gone = @ \cup {i}]
    <2>1. Wallet(has[p])
      BY DEF GoldInv
    <2>2. Wallet(h)
      BY <2>1, WalletLost
    <2>3. has' = [has EXCEPT ![p] = h]
      BY <1>3 DEF DestroyItem, GoldInv
    <2> HIDE DEF h
    <2> QED
      BY <1>3, <2>2, <2>3 DEF DestroyItem, trades, GoldInv
  <1>4. ASSUME NEW p \in Players, SaveToDB(p) PROVE GoldInv'
    BY <1>4, SaveStep DEF SaveToDB, trades, GoldInv
  <1>5. ASSUME NEW p \in Players, LogoutPlayer(p) PROVE GoldInv'
    <2>1. offer' \in [Players -> Offer]
      <3>1. CASE partner[p] # None
        BY <1>5, <3>1, CloseOffers DEF LogoutPlayer
      <3>2. CASE partner[p] = None
        BY <1>5, <3>2 DEF LogoutPlayer, trades, GoldInv
      <3> QED
        BY <3>1, <3>2
    <2> QED
      BY <1>5, <2>1, SaveStep DEF LogoutPlayer
  <1>6. ASSUME NEW p \in Players, Login(p) PROVE GoldInv'
    BY <1>6 DEF Login, trades, GoldInv
  <1>7. ASSUME NEW i \in Bindable, Bind(i) PROVE GoldInv'
    BY <1>7 DEF Bind, trades, GoldInv
  <1>8. CASE ExecuteSave
    BY <1>8, ExecuteGold
  <1>9. CASE Crash
    <2>1. offer' \in [Players -> Offer]
      BY <1>9, EmptyOfferType DEF Crash
    <2>2. pending' \in Seq({}) /\ Len(pending') = 0
      BY <1>9, EmptySeq DEF Crash
    <2> QED
      BY <1>9, <2>1, <2>2 DEF Crash, GoldInv
  <1>10. CASE UNCHANGED vars
    BY <1>10 DEF vars, trades, GoldInv
  <1> QED
    BY <1>1, <1>2, <1>3, <1>4, <1>5, <1>6, <1>7, <1>8, <1>9, <1>10 DEF Next

\* A gain comes from the partner; everything else that changes gold takes it
\* away or reloads it.
LEMMA GainAgreed ==
  ASSUME TradeInv, GoldInv, [Next]_vars, NEW r \in Players,
         has'[r].money > has[r].money, has'[r] # saved[r]
  PROVE  /\ GivesTo(partner[r], r)
         /\ has'[r].money <= has[r].money + offer[partner[r]].money
  <1>1. Wallet(has[r]) /\ has[r].money \in 0 .. MaxMoney
    BY WalletMoney DEF GoldInv
  <1>2. has'[r] # has[r]
    BY <1>1
  <1>3. ASSUME NEW p \in Players, HandleAcceptTrade(p)
        PROVE  /\ GivesTo(partner[r], r)
               /\ has'[r].money <= has[r].money + offer[partner[r]].money
    <2> DEFINE q == partner[p]
    <2>1. partner[p] # None /\ Exchange(p, q)
      BY <1>2, <1>3 DEF HandleAcceptTrade
    <2>2. /\ \A x \in Players \ {p, q} : has'[x] = has[x]
          /\ has'[p].money <= has[p].money + offer[q].money
          /\ has'[q].money <= has[q].money + offer[p].money
      BY <2>1, ExchangeGold
    <2>3. q \in Players /\ partner[q] = p /\ q # None /\ p # None
      BY <2>1, Partners
    <2>4. accepted[q] /\ seen[q] = <<offer[q], offer[p]>>
      BY <2>1, <2>3 DEF Exchange, TradeInv, AcceptIsForThisOffer
    <2>5. CASE r = p
      BY <2>2, <2>3, <2>4, <2>5 DEF GivesTo
    <2>6. CASE r = q
      BY <1>3, <2>2, <2>3, <2>6 DEF GivesTo
    <2> QED
      BY <1>2, <2>2, <2>5, <2>6
  <1>4. ASSUME NEW p \in Players, Handle(p), ~HandleAcceptTrade(p) PROVE has' = has
    BY <1>4 DEF Handle, HandleInitiateTrade, HandleSetTradeItem, HandleClearTradeItem,
                HandleSetTradeGold, SetSpell, HandleUnacceptTrade, TradeCancel
  <1>5. ASSUME NEW p \in Players, Spend(p) PROVE FALSE
    <2>1. has'[r] = IF r = p THEN [has[p] EXCEPT !.money = @ - 1, !.spent = @ + 1] ELSE has[r]
      BY <1>5 DEF Spend, GoldInv
    <2>2. r = p => has'[r].money = has[r].money - 1
      BY <1>1, <1>5, <2>1, WalletSpent DEF Spend
    <2> QED
      BY <1>1, <1>2, <2>1, <2>2
  <1>6. ASSUME NEW p \in Players, NEW i \in Perishable, DestroyItem(p, i) PROVE FALSE
    <2>1. has'[r] = IF r = p THEN [has[p] EXCEPT !.bag = @ \ {i}, !.gone = @ \cup {i}] ELSE has[r]
      BY <1>6 DEF DestroyItem, GoldInv
    <2>2. r = p => has'[r].money = has[r].money
      BY <1>1, <2>1, WalletLost
    <2> QED
      BY <1>1, <1>2, <2>1, <2>2
  <1>7. ASSUME NEW p \in Players, Login(p) PROVE FALSE
    <2>1. has'[r] = IF r = p THEN saved[p] ELSE has[r]
      BY <1>7 DEF Login, GoldInv
    <2> QED
      BY <1>2, <2>1
  <1>8. ~Crash
    BY DEF Crash
  <1>9. ~(\E p \in Players : SaveToDB(p) \/ LogoutPlayer(p)) /\ ~ExecuteSave /\ ~UNCHANGED vars
        /\ ~\E i \in Bindable : Bind(i)
    BY <1>2 DEF SaveToDB, LogoutPlayer, ExecuteSave, Bind, vars
  <1> QED
    BY <1>2, <1>3, <1>4, <1>5, <1>6, <1>7, <1>8, <1>9 DEF Next

(***************************************************************************)
(* Nobody gains gold but from its partner, no more than the partner offers,*)
(* and only by an exchange the partner accepts in this step or accepted    *)
(* for exactly these offers.                                               *)
(***************************************************************************)
THEOREM GoldOnlyAsAgreed == Spec => OnlyAgreedGold
  <1>1. TradeInv /\ GoldInv /\ [Next]_vars =>
            [\A p \in Players :
                has'[p].money > has[p].money /\ has'[p] # saved[p] =>
                    GivesTo(partner[p], p)
                    /\ has'[p].money <= has[p].money + offer[partner[p]].money]_vars
    BY GainAgreed
  <1> QED
    BY <1>1, InitTrade, NextTrade, InitGold, NextGold, PTL DEF Spec, OnlyAgreedGold

-----------------------------------------------------------------------------
(***************************************************************************)
(* No trade creates anything, and none loses or duplicates anything unless *)
(* goods are exchanged that do not fit together, for any number of players *)
(* and items, wherever the process dies.                                   *)
(*                                                                         *)
(* A crash shows what the database has executed so far, so the invariant   *)
(* is about all the states the database is still to go through: the        *)
(* ledger, one page for each pending save.  Every page is intact, and the  *)
(* last one agrees with the memory on what each player is worth and on the *)
(* items it had; only then does a save of one player alone leave the next  *)
(* page intact.                                                            *)
(***************************************************************************)
Worth(h) == h.money + h.spent
Owned(h) == h.bag \cup h.gone
Same(a, b) == Worth(a) = Worth(b) /\ Owned(a) = Owned(b)
Account(h) == h \in Holding /\ h.bag \cap h.gone = {}

\* What the players have, h, is what was given to them at first; c: gold was cut off,
\* mf: goods were exchanged that do not fit.
Apart(h) == \A p, q \in Players : p # q => Owned(h[p]) \cap Owned(h[q]) = {}
Complete(h) == \A i \in Items : \E p \in Players : i \in Owned(h[p])
Balance(h, c) == Gold(h) <= Issued /\ (~c => Gold(h) = Issued)
Intact(h, c, mf) ==
    /\ \A p \in Players : Account(h[p])
    /\ Apart(h) /\ (~mf => Complete(h))
    /\ Balance(h, c)

Executed(h, save) == [p \in Players |-> IF p \in DOMAIN save THEN save[p] ELSE h[p]]

\* The pages db start with the database and follow the queue of saves.
Ledger(db, start, queue, h, c, mf) ==
    /\ db[0] = start
    /\ \A k \in 1 .. Len(queue) : db[k] = Executed(db[k - 1], queue[k])
    /\ \A k \in 0 .. Len(queue) : Intact(db[k], c, mf)
    /\ \A p \in Players : Same(db[Len(queue)][p], h[p])

\* The inventories are as large as they were.
CapacityInv == capacity \in Capacities

SlotsDiffer(o) == \A s, t \in Slots : s # t /\ o.slots[s] = o.slots[t] => o.slots[s] = None

Books ==
    /\ \A p \in Players : Account(has[p]) /\ SlotsDiffer(offer[p])
    /\ \E db : Ledger(db, saved, pending, has, capped, misfit)
-----------------------------------------------------------------------------
LEMMA InitCapacity == Init => CapacityInv
  BY DEF Init, CapacityInv

LEMMA NextCapacity == CapacityInv /\ [Next]_vars => CapacityInv'
  BY DEF Next, vars, CapacityInv

LEMMA AccountFacts ==
  ASSUME NEW h, Account(h)
  PROVE  /\ h.money \in Nat /\ h.money <= MaxMoney /\ h.spent \in Nat /\ Worth(h) \in Nat
         /\ h.bag \subseteq Items /\ h.gone \subseteq Items /\ h.bag \cap h.gone = {}
         /\ h.money \in 0 .. MaxMoney
  BY TradeAssumption DEF Account, Holding, Worth

LEMMA GoldIsWorth ==
  ASSUME NEW h
  PROVE  Gold(h) = SumFunctionOnSet([p \in Players |-> Worth(h[p])], Players)
  BY DEF Gold, SumFunction, Worth

LEMMA IssuedType == Issued \in Int
  BY TradeAssumption, FS_CardinalityType DEF Issued

LEMMA GoldType ==
  ASSUME NEW h, \A p \in Players : Account(h[p])
  PROVE  Gold(h) \in Int
  <1> DEFINE f == [p \in Players |-> Worth(h[p])]
  <1>1. \A p \in Players : f[p] \in Int
    BY AccountFacts
  <1> HIDE DEF f
  <1>2. SumFunctionOnSet(f, Players) \in Int
    BY <1>1, SumType, TradeAssumption
  <1> QED
    BY <1>2, GoldIsWorth DEF f

\* Being intact is about what each player is worth and what it owns.
LEMMA SameIntact ==
  ASSUME NEW h, NEW g, NEW c, NEW mf, Intact(h, c, mf),
         \A p \in Players : Account(g[p]) /\ Same(h[p], g[p])
  PROVE  Intact(g, c, mf)
  <1>1. Apart(g) /\ (~mf => Complete(g))
    BY DEF Intact, Apart, Complete, Same
  <1>2. Gold(g) = Gold(h)
    <2> DEFINE f == [p \in Players |-> Worth(h[p])]
               e == [p \in Players |-> Worth(g[p])]
    <2>1. e = f
      BY DEF Same
    <2> QED
      BY <2>1, GoldIsWorth
  <1> QED
    BY <1>1, <1>2 DEF Intact, Balance

LEMMA StillIntact ==
  ASSUME NEW h, NEW c, NEW d, NEW mf, NEW mg, Intact(h, c, mf), c => d, mf => mg
  PROVE  Intact(h, d, mg)
  BY DEF Intact, Balance

\* Two players exchange what they have.
LEMMA ExchangeIntact ==
  ASSUME NEW h, NEW g, NEW c, NEW d, NEW mf, NEW mg, Intact(h, c, mf), c => d, mf => mg,
         NEW p \in Players, NEW q \in Players, p # q,
         \A r \in Players \ {p, q} : g[r] = h[r],
         Account(g[p]), Account(g[q]),
         Owned(g[p]) \cup Owned(g[q]) \subseteq Owned(h[p]) \cup Owned(h[q]),
         ~mg => Owned(g[p]) \cup Owned(g[q]) = Owned(h[p]) \cup Owned(h[q]),
         Owned(g[p]) \cap Owned(g[q]) = {},
         Worth(g[p]) + Worth(g[q]) <= Worth(h[p]) + Worth(h[q]),
         ~d => Worth(g[p]) + Worth(g[q]) = Worth(h[p]) + Worth(h[q])
  PROVE  Intact(g, d, mg)
  <1>1. \A r \in Players : Account(g[r]) /\ Account(h[r])
    BY DEF Intact
  <1>2. Apart(g) /\ (~mg => Complete(g))
    <2>1. ASSUME ~mg, NEW i \in Items PROVE \E r \in Players : i \in Owned(g[r])
      <3>1. PICK r \in Players : i \in Owned(h[r])
        BY <2>1 DEF Intact, Complete
      <3>2. CASE r \in {p, q}
        BY <2>1, <3>1, <3>2
      <3>3. CASE r \notin {p, q}
        BY <3>1, <3>3
      <3> QED
        BY <3>2, <3>3
    <2>2. ASSUME NEW r \in Players, NEW s \in Players, r # s
          PROVE  Owned(g[r]) \cap Owned(g[s]) = {}
      <3> DEFINE A(x) == Owned(g[x])
                 B(x) == Owned(h[x])
      <3>1. \A x, y \in Players : x # y => B(x) \cap B(y) = {}
        BY DEF Intact, Apart
      <3>2. \A x \in Players \ {p, q} : A(x) = B(x)
        OBVIOUS
      <3>3. A(p) \cup A(q) \subseteq B(p) \cup B(q) /\ A(p) \cap A(q) = {}
        OBVIOUS
      <3>4. \A x \in Players \ {p, q} : A(x) \cap A(p) = {} /\ A(x) \cap A(q) = {}
        <4> SUFFICES ASSUME NEW x \in Players \ {p, q}
                     PROVE  A(x) \cap A(p) = {} /\ A(x) \cap A(q) = {}
          OBVIOUS
        <4>1. A(x) = B(x) /\ B(x) \cap B(p) = {} /\ B(x) \cap B(q) = {}
          BY <3>1, <3>2
        <4> HIDE DEF A, B
        <4> QED
          BY <3>3, <4>1
      <3> SUFFICES A(r) \cap A(s) = {}
        OBVIOUS
      <3> HIDE DEF A, B
      <3>5. CASE r \in {p, q} /\ s \in {p, q}
        BY <2>2, <3>3, <3>5
      <3>6. CASE r \in {p, q} /\ s \notin {p, q}
        BY <3>4, <3>6
      <3>7. CASE r \notin {p, q} /\ s \in {p, q}
        BY <3>4, <3>7
      <3>8. CASE r \notin {p, q} /\ s \notin {p, q}
        BY <2>2, <3>1, <3>2, <3>8
      <3> QED
        BY <3>5, <3>6, <3>7, <3>8
    <2> QED
      BY <2>1, <2>2 DEF Apart, Complete
  <1>3. Gold(g) <= Gold(h) /\ (~d => Gold(g) = Gold(h))
    <2> DEFINE f == [r \in Players |-> Worth(h[r])]
               e == [r \in Players |-> Worth(g[r])]
    <2>1. \A r \in Players : f[r] \in Int /\ e[r] \in Int
      BY <1>1, AccountFacts
    <2>2. \A r \in Players \ {p, q} : e[r] = f[r]
      OBVIOUS
    <2>3. f[p] = Worth(h[p]) /\ f[q] = Worth(h[q]) /\ e[p] = Worth(g[p]) /\ e[q] = Worth(g[q])
      OBVIOUS
    <2>4. Gold(h) = SumFunctionOnSet(f, Players) /\ Gold(g) = SumFunctionOnSet(e, Players)
      BY GoldIsWorth
    <2> HIDE DEF f, e
    <2>5. SumFunctionOnSet(e, Players) = SumFunctionOnSet(f, Players) - f[p] + e[p] - f[q] + e[q]
      BY <2>1, <2>2, SumChangeTwo, TradeAssumption
    <2>6. SumFunctionOnSet(f, Players) \in Int
      BY <2>1, SumType, TradeAssumption
    <2>7. Gold(g) <= Gold(h)
      BY <2>1, <2>3, <2>4, <2>5, <2>6
    <2>8. ASSUME ~d PROVE Gold(g) = Gold(h)
      <3>1. e[p] + e[q] = f[p] + f[q]
        BY <2>3, <2>8
      <3> QED
        BY <2>1, <2>4, <2>5, <2>6, <3>1
    <2> QED
      BY <2>7, <2>8
  <1>4. Gold(g) \in Int /\ Gold(h) \in Int /\ Issued \in Int
    BY <1>1, GoldType, IssuedType
  <1>5. Balance(g, d)
    BY <1>3, <1>4 DEF Intact, Balance
  <1> QED
    BY <1>1, <1>2, <1>5 DEF Intact
-----------------------------------------------------------------------------
(***************************************************************************)
(* The ledger.                                                             *)
(***************************************************************************)
\* Another save is queued.
LEMMA LedgerAppend ==
  ASSUME NEW db, NEW start, NEW R, NEW queue \in Seq(R), NEW h, NEW c, NEW d, NEW mf, NEW mg,
         Ledger(db, start, queue, h, c, mf), c => d, mf => mg, NEW save, NEW g,
         Intact(Executed(db[Len(queue)], save), d, mg),
         \A p \in Players : Same(Executed(db[Len(queue)], save)[p], g[p])
  PROVE  \E e : Ledger(e, start, Append(queue, save), g, d, mg)
  <1> DEFINE n == Len(queue)
             more == Append(queue, save)
             page == Executed(db[n], save)
             e == [k \in 0 .. n + 1 |-> IF k = n + 1 THEN page ELSE db[k]]
  <1>1. /\ n \in Nat /\ Len(more) = n + 1 /\ more[n + 1] = save
        /\ \A k \in 1 .. n : more[k] = queue[k]
    <2>1. queue \in Seq(R \cup {save}) /\ save \in R \cup {save}
      BY SeqMonotonic
    <2> QED
      BY <2>1, AppendProperties, LenProperties
  <1>2. e[n + 1] = page /\ \A k \in 0 .. n : e[k] = db[k]
    BY <1>1
  <1> HIDE DEF n, more, page, e
  <1>3. e[0] = start
    BY <1>1, <1>2 DEF Ledger
  <1>4. ASSUME NEW k \in 1 .. n + 1 PROVE e[k] = Executed(e[k - 1], more[k])
    <2>1. CASE k = n + 1
      <3>1. e[k - 1] = db[n] /\ e[k] = page /\ more[k] = save
        BY <1>1, <1>2, <2>1
      <3> QED
        BY <3>1 DEF page
    <2>2. CASE k \in 1 .. n
      <3>1. k \in 0 .. n /\ k - 1 \in 0 .. n
        BY <1>1, <2>2
      <3>2. e[k - 1] = db[k - 1] /\ e[k] = db[k] /\ more[k] = queue[k]
        BY <1>1, <1>2, <2>2, <3>1
      <3> QED
        BY <2>2, <3>2 DEF Ledger, n
    <2> QED
      BY <1>1, <2>1, <2>2
  <1>5. ASSUME NEW k \in 0 .. n + 1 PROVE Intact(e[k], d, mg)
    <2>1. CASE k = n + 1
      BY <1>2, <2>1 DEF page, n
    <2>2. CASE k \in 0 .. n
      <3>1. Intact(db[k], c, mf)
        BY <2>2 DEF Ledger, n
      <3> QED
        BY <1>2, <2>2, <3>1, StillIntact
    <2> QED
      BY <1>1, <2>1, <2>2
  <1>6. \A p \in Players : Same(e[n + 1][p], g[p])
    BY <1>2 DEF page, n
  <1>7. Ledger(e, start, more, g, d, mg)
    BY <1>1, <1>3, <1>4, <1>5, <1>6 DEF Ledger
  <1> QED
    BY <1>7 DEF more

\* The database executes the oldest save.
LEMMA LedgerTail ==
  ASSUME NEW db, NEW start, NEW R, NEW queue \in Seq(R), queue # <<>>, NEW h, NEW c, NEW mf,
         Ledger(db, start, queue, h, c, mf)
  PROVE  \E e : Ledger(e, Executed(start, Head(queue)), Tail(queue), h, c, mf)
  <1> DEFINE n == Len(queue)
             rest == Tail(queue)
             e == [k \in 0 .. n |-> db[k + 1]]
  <1>1. /\ n \in Nat /\ n > 0 /\ Len(rest) = n - 1 /\ Head(queue) = queue[1]
        /\ \A k \in 1 .. n - 1 : rest[k] = queue[k + 1]
    BY HeadTailProperties, EmptySeq, LenProperties
  <1>2. \A k \in 0 .. n : e[k] = db[k + 1]
    OBVIOUS
  <1> HIDE DEF n, rest, e
  <1>3. e[0] = Executed(start, Head(queue))
    <2>1. e[0] = db[1] /\ 1 \in 1 .. n /\ 1 - 1 = 0
      BY <1>1, <1>2
    <2> QED
      BY <1>1, <2>1 DEF Ledger, n
  <1>4. ASSUME NEW k \in 1 .. n - 1 PROVE e[k] = Executed(e[k - 1], rest[k])
    <2>1. k + 1 \in 1 .. n /\ (k + 1) - 1 = k /\ (k - 1) + 1 = k /\ k \in 0 .. n /\ k - 1 \in 0 .. n
      BY <1>1
    <2>2. db[k + 1] = Executed(db[k], queue[k + 1])
      BY <2>1 DEF Ledger, n
    <2>3. e[k] = db[k + 1] /\ e[k - 1] = db[k] /\ rest[k] = queue[k + 1]
      BY <1>1, <1>2, <2>1
    <2> QED
      BY <2>2, <2>3
  <1>5. ASSUME NEW k \in 0 .. n - 1 PROVE Intact(e[k], c, mf)
    <2>1. k + 1 \in 0 .. n /\ e[k] = db[k + 1]
      BY <1>1, <1>2
    <2> QED
      BY <2>1 DEF Ledger, n
  <1>6. \A p \in Players : Same(e[n - 1][p], h[p])
    <2>1. e[n - 1] = db[n]
      BY <1>1, <1>2
    <2> QED
      BY <2>1 DEF Ledger, n
  <1>7. Ledger(e, Executed(start, Head(queue)), rest, h, c, mf)
    BY <1>1, <1>3, <1>4, <1>5, <1>6 DEF Ledger
  <1> QED
    BY <1>7 DEF rest

\* What nobody has saved anew is on the last page as it was on the first.
LEMMA LedgerUntouched ==
  ASSUME NEW db, NEW start, NEW queue, Len(queue) \in Nat, NEW h, NEW c, NEW mf,
         Ledger(db, start, queue, h, c, mf)
  PROVE  \A p \in Players : (\A k \in 1 .. Len(queue) : p \notin DOMAIN queue[k])
                                  => db[Len(queue)][p] = start[p]
  <1> SUFFICES ASSUME NEW p \in Players, \A k \in 1 .. Len(queue) : p \notin DOMAIN queue[k]
               PROVE  db[Len(queue)][p] = start[p]
    OBVIOUS
  <1> DEFINE n == Len(queue)
             N == {k \in Nat : k <= n => db[k][p] = start[p]}
  <1>1. 0 \in N
    BY DEF Ledger
  <1>2. ASSUME NEW k \in N PROVE k + 1 \in N
    <2> SUFFICES ASSUME k + 1 <= n PROVE db[k + 1][p] = start[p]
      OBVIOUS
    <2>1. k + 1 \in 1 .. n /\ (k + 1) - 1 = k /\ k \in Nat /\ k <= n
      OBVIOUS
    <2>2. db[k + 1] = Executed(db[k], queue[k + 1])
      BY <2>1 DEF Ledger
    <2>3. p \notin DOMAIN queue[k + 1]
      BY <2>1
    <2> QED
      BY <2>1, <2>2, <2>3 DEF Executed
  <1> HIDE DEF N
  <1>3. N \subseteq Nat
    BY DEF N
  <1>4. N = Nat
    BY <1>1, <1>2, <1>3, NumbersByInduction
  <1> QED
    BY <1>4 DEF N

\* The memory is as intact as the last page.
LEMMA MemoryIntact ==
  ASSUME Books, NEW db, Ledger(db, saved, pending, has, capped, misfit), Len(pending) \in Nat
  PROVE  Intact(has, capped, misfit) /\ Intact(saved, capped, misfit)
  <1>1. Len(pending) \in 0 .. Len(pending) /\ 0 \in 0 .. Len(pending)
    OBVIOUS
  <1>2. Intact(db[Len(pending)], capped, misfit) /\ Intact(saved, capped, misfit)
    BY <1>1 DEF Ledger
  <1> QED
    BY <1>2, SameIntact DEF Ledger, Books
-----------------------------------------------------------------------------
(***************************************************************************)
(* moveItems: whatever fits, no item ends up in two bags, and when all     *)
(* goods fit together every slot changes hands.                            *)
(***************************************************************************)
HeldUpTo(p, n) == {Held(p, s) : s \in 1 .. n} \ {None}
After(p, q, n) == [items |-> (has[p].bag \ Goods(p)) \cup HeldUpTo(q, n), copies |-> {}]
AfterSwaps(p, q, n) == [mine |-> After(p, q, n), his |-> After(q, p, n)]
Swaps(p, q, bags) ==
    bags = [n \in 0 .. TradedCount |->
              IF n = 0 THEN [mine |-> Kept(p), his |-> Kept(q)] ELSE Swap(p, q, bags[n - 1], n)]

LEMMA MoveItemsUnfolded ==
  ASSUME NEW p, NEW q
  PROVE  MoveItems(p, q) = (CHOOSE bags : Swaps(p, q, bags))[TradedCount]
  BY DEF MoveItems, Swaps

\* The bags are defined for every slot.
LEMMA SwapsExist ==
  ASSUME NEW p, NEW q
  PROVE  Swaps(p, q, CHOOSE bags : Swaps(p, q, bags))
  <1> DEFINE start == [mine |-> Kept(p), his |-> Kept(q)]
             Upto(f, n) == /\ f[0] = start
                           /\ \A k \in 1 .. n : f[k] = Swap(p, q, f[k - 1], k)
             N == {n \in 0 .. TradedCount : \E f : Upto(f, n)}
  <1>1. TradedCount \in Nat
    BY TradeAssumption
  <1>2. 0 \in N
    <2> DEFINE f == [k \in {0} |-> start]
    <2>1. f[0] = start /\ 1 .. 0 = {} /\ 0 \in 0 .. TradedCount
      BY <1>1
    <2> HIDE DEF f, start
    <2>2. Upto(f, 0)
      BY <2>1
    <2> HIDE DEF Upto
    <2> QED
      BY <2>1, <2>2, Zenon
  <1>3. ASSUME NEW n \in 1 .. TradedCount, n - 1 \in N PROVE n \in N
    <2>1. PICK f : Upto(f, n - 1)
      BY <1>3
    <2> DEFINE g == [k \in 0 .. n |-> IF k = n THEN Swap(p, q, f[n - 1], n) ELSE f[k]]
    <2>2. /\ n \in Nat /\ n \in 0 .. TradedCount /\ 0 \in 0 .. n /\ 0 # n
          /\ \A k \in 1 .. n : k \in 0 .. n /\ k - 1 \in 0 .. n /\ k - 1 # n /\ (k # n => k \in 1 .. n - 1)
      BY <1>1, <1>3
    <2>3. g[0] = start /\ \A k \in 1 .. n : g[k] = Swap(p, q, g[k - 1], k)
      BY <2>1, <2>2
    <2> HIDE DEF g
    <2>4. Upto(g, n)
      BY <2>3
    <2> QED
      BY <2>2, <2>4
  <1>4. N \subseteq 0 .. TradedCount
    OBVIOUS
  <1> HIDE DEF N
  <1>5. N = 0 .. TradedCount
    BY <1>1, <1>2, <1>3, <1>4, NumbersUpTo
  <1>6. PICK f : Upto(f, TradedCount)
    BY <1>1, <1>5 DEF N
  <1> DEFINE bags == [n \in 0 .. TradedCount |-> f[n]]
  <1>7. \A n \in 0 .. TradedCount : n = 0 \/ (n \in 1 .. TradedCount /\ n - 1 \in 0 .. TradedCount)
    BY <1>1
  <1>8. \A n \in 0 .. TradedCount : bags[n] = IF n = 0 THEN start ELSE Swap(p, q, bags[n - 1], n)
    BY <1>6, <1>7
  <1>9. bags = [n \in 0 .. TradedCount |-> bags[n]]
    OBVIOUS
  <1> HIDE DEF bags
  <1>10. Swaps(p, q, bags)
    BY <1>8, <1>9 DEF Swaps
  <1> QED
    BY <1>10, Zenon

LEMMA HeldFacts ==
  ASSUME NEW p, NEW s
  PROVE  Held(p, s) # None => Held(p, s) = offer[p].slots[s] /\ Held(p, s) \in has[p].bag
  BY DEF Held

LEMMA GoodsHeld ==
  ASSUME NEW p
  PROVE  Goods(p) = HeldUpTo(p, TradedCount) /\ Goods(p) \subseteq has[p].bag /\ HeldUpTo(p, 0) = {}
  <1>1. \A s \in TradedSlots : Held(p, s) # None => Held(p, s) \in has[p].bag
    BY HeldFacts
  <1> QED
    BY <1>1 DEF Goods, HeldUpTo, TradedSlots

\* The item of slot n is a new one.
LEMMA NextHeld ==
  ASSUME NEW p \in Players, SlotsDiffer(offer[p]), NEW n \in 1 .. TradedCount
  PROVE  /\ HeldUpTo(p, n) = HeldUpTo(p, n - 1) \cup ({Held(p, n)} \ {None})
         /\ HeldUpTo(p, n) \subseteq Goods(p) /\ None \notin HeldUpTo(p, n)
         /\ Held(p, n) # None => Held(p, n) \in Goods(p) /\ Held(p, n) \notin HeldUpTo(p, n - 1)
  <1> DEFINE i == Held(p, n)
             earlier == HeldUpTo(p, n - 1)
  <1>1. /\ TradedCount \in Nat /\ n \in Nat /\ n \in 1 .. n
        /\ 1 .. n = (1 .. n - 1) \cup {n} /\ 1 .. n \subseteq 1 .. TradedCount
    BY TradeAssumption
  <1>2. HeldUpTo(p, n) = earlier \cup ({i} \ {None})
    BY <1>1 DEF HeldUpTo
  <1>3. HeldUpTo(p, n) \subseteq Goods(p) /\ None \notin HeldUpTo(p, n)
    BY <1>1 DEF HeldUpTo, Goods, TradedSlots
  <1>4. i # None => i \in Goods(p)
    BY DEF Goods, TradedSlots
  <1>5. ASSUME i # None PROVE i \notin earlier
    <2> SUFFICES ASSUME NEW s \in 1 .. n - 1, Held(p, s) = i PROVE FALSE
      BY DEF HeldUpTo
    <2>1. offer[p].slots[s] = i /\ offer[p].slots[n] = i
      BY <1>5, HeldFacts
    <2>2. s \in Slots /\ n \in Slots /\ s # n
      BY <1>1 DEF Slots, NonTraded
    <2> QED
      BY <1>5, <2>1, <2>2 DEF SlotsDiffer
  <1> QED
    BY <1>2, <1>3, <1>4, <1>5

\* The items of one slot change hands or go back to their owners, as far as they fit.
LEMMA SwapPlaces ==
  ASSUME NEW p, NEW q, NEW b, NEW n
  PROVE  LET c == Swap(p, q, b, n)
             x == {Held(p, n)} \ {None}
             y == {Held(q, n)} \ {None}
         IN \/ c.mine.items \subseteq b.mine.items \cup y /\ c.his.items \subseteq b.his.items \cup x
            \/ c.mine.items \subseteq b.mine.items \cup x /\ c.his.items \subseteq b.his.items \cup y
  <1>1. ASSUME NEW r, NEW side, NEW f \in BOOLEAN, NEW i
        PROVE  Returned(r, side, f, i).items \subseteq side.items \cup ({i} \ {None})
    BY DEF Returned
  <1>2. ASSUME NEW side, NEW i
        PROVE  Stored(side, i).items \subseteq side.items \cup ({i} \ {None})
    BY DEF Stored
  <1> DEFINE take == Fits(p, b.mine, 0, Held(q, n))
             give == Fits(q, b.his, 0, Held(p, n))
             c == Swap(p, q, b, n)
  <1>3. CASE take /\ give
    <2>1. c.mine = Stored(b.mine, Held(q, n)) /\ c.his = Stored(b.his, Held(p, n))
      BY <1>3 DEF Swap
    <2> HIDE DEF c
    <2> QED
      BY <1>2, <2>1 DEF c
  <1>4. CASE ~(take /\ give)
    <2> DEFINE f == take /\ Held(q, n) # None
               g == give /\ Held(p, n) # None
    <2>1. c.mine = Returned(p, b.mine, f, Held(p, n)) /\ c.his = Returned(q, b.his, g, Held(q, n))
      BY <1>4 DEF Swap
    <2>2. f \in BOOLEAN /\ g \in BOOLEAN
      OBVIOUS
    <2> HIDE DEF c, f, g
    <2> QED
      BY <1>1, <2>1, <2>2 DEF c
  <1> QED
    BY <1>3, <1>4

\* No item is in two bags after n slots.
SoFar(p, q, b, n) ==
    /\ b.mine.items \subseteq (has[p].bag \ Goods(p)) \cup HeldUpTo(p, n) \cup HeldUpTo(q, n)
    /\ b.his.items \subseteq (has[q].bag \ Goods(q)) \cup HeldUpTo(p, n) \cup HeldUpTo(q, n)
    /\ b.mine.items \cap b.his.items = {}

LEMMA SwapApart ==
  ASSUME NEW p \in Players, NEW q \in Players, p # q, has[p].bag \cap has[q].bag = {},
         SlotsDiffer(offer[p]), SlotsDiffer(offer[q]),
         NEW n \in 1 .. TradedCount, NEW b, SoFar(p, q, b, n - 1)
  PROVE  SoFar(p, q, Swap(p, q, b, n), n)
  <1> DEFINE x == {Held(p, n)} \ {None}
             y == {Held(q, n)} \ {None}
             c == Swap(p, q, b, n)
  <1>1. \/ c.mine.items \subseteq b.mine.items \cup y /\ c.his.items \subseteq b.his.items \cup x
        \/ c.mine.items \subseteq b.mine.items \cup x /\ c.his.items \subseteq b.his.items \cup y
    BY SwapPlaces
  <1>2. /\ HeldUpTo(p, n) = HeldUpTo(p, n - 1) \cup x /\ HeldUpTo(q, n) = HeldUpTo(q, n - 1) \cup y
        /\ HeldUpTo(p, n) \subseteq Goods(p) /\ HeldUpTo(q, n) \subseteq Goods(q)
        /\ x \cap HeldUpTo(p, n - 1) = {} /\ y \cap HeldUpTo(q, n - 1) = {}
    BY NextHeld
  <1>3. Goods(p) \subseteq has[p].bag /\ Goods(q) \subseteq has[q].bag
    BY GoodsHeld
  <1> HIDE DEF x, y, c
  <1> DEFINE a == has[p].bag \ Goods(p)
             k == has[q].bag \ Goods(q)
             hp == HeldUpTo(p, n - 1)
             hq == HeldUpTo(q, n - 1)
  <1>4. /\ b.mine.items \subseteq a \cup hp \cup hq /\ b.his.items \subseteq k \cup hp \cup hq
        /\ b.mine.items \cap b.his.items = {}
    BY DEF SoFar
  <1>5. /\ x \cap (a \cup k \cup hp \cup hq) = {} /\ y \cap (a \cup k \cup hp \cup hq) = {}
        /\ x \cap y = {}
    BY <1>2, <1>3
  <1>6. HeldUpTo(p, n) = hp \cup x /\ HeldUpTo(q, n) = hq \cup y
    BY <1>2
  <1> HIDE DEF a, k, hp, hq
  <1>7. /\ c.mine.items \subseteq a \cup (hp \cup x) \cup (hq \cup y)
        /\ c.his.items \subseteq k \cup (hp \cup x) \cup (hq \cup y)
        /\ c.mine.items \cap c.his.items = {}
    BY <1>1, <1>4, <1>5
  <1> QED
    BY <1>6, <1>7 DEF SoFar, a, k, c

\* Where the goods fit together, the item of each slot is stored.
LEMMA RoomForSlot ==
  ASSUME NEW p \in Players, NEW q \in Players, p # q, capacity[p] \in Nat,
         Account(has[p]), Account(has[q]), has[p].bag \cap has[q].bag = {},
         SlotsDiffer(offer[q]), ~Misfit(p, q), NEW n \in 1 .. TradedCount
  PROVE  /\ Fits(p, After(p, q, n - 1), 0, Held(q, n))
         /\ Stored(After(p, q, n - 1), Held(q, n)) = After(p, q, n)
  <1> DEFINE i == Held(q, n)
             earlier == HeldUpTo(q, n - 1)
             bag == has[p].bag \ Goods(p)
  <1>1. /\ HeldUpTo(q, n) = earlier \cup ({i} \ {None}) /\ HeldUpTo(q, n) \subseteq Goods(q)
        /\ i # None => i \in Goods(q) /\ i \notin earlier
    BY NextHeld
  <1>2. Stored(After(p, q, n - 1), i) = After(p, q, n)
    BY <1>1 DEF Stored, After
  <1>3. CASE i = None
    BY <1>2, <1>3 DEF Fits
  <1>4. CASE i # None
    <2>1. i \in Goods(q) /\ i \notin earlier /\ earlier \subseteq Goods(q) \ {i}
      BY <1>1, <1>4
    <2>2. IsFiniteSet(has[p].bag) /\ IsFiniteSet(has[q].bag)
      BY AccountFacts, TradeAssumption, FS_Subset
    <2>3. /\ IsFiniteSet(Goods(q)) /\ IsFiniteSet(bag) /\ IsFiniteSet(earlier)
          /\ bag \cap Goods(q) = {} /\ Goods(q) \subseteq Items
      <3>1. Goods(q) \subseteq has[q].bag /\ has[q].bag \subseteq Items
        BY GoodsHeld, AccountFacts
      <3>2. IsFiniteSet(Goods(q)) /\ IsFiniteSet(bag)
        BY <2>2, <3>1, FS_Subset
      <3> QED
        BY <2>1, <3>1, <3>2, FS_Subset
    <2> DEFINE others == Goods(q) \ {i}
               here == bag \cup earlier
               after == (bag \cup Goods(q)) \ {i}
    <2>4. HasRoom(p, q, {}) /\ CanTakeMoreSimilarItems(Similar(after, i), i)
      BY <2>1 DEF Misfit
    <2>5. Cardinality(bag) + Cardinality(Goods(q)) - Cardinality({}) <= capacity[p]
      BY <2>4 DEF HasRoom
    <2>6. Cardinality({}) = 0
      BY FS_EmptySet
    <2>7. i \in Items /\ MaxCount[Entry[i]] \in Nat
      BY <2>1, <2>3, TradeAssumption
    <2>7a. earlier \subseteq others
      BY <2>1
    <2>7b. After(p, q, n - 1).items = here /\ After(p, q, n - 1).copies = {}
      BY DEF After
    <2> HIDE DEF i, earlier, bag
    <2>8. here \subseteq after /\ IsFiniteSet(here) /\ IsFiniteSet(after)
      <3>1. here \subseteq after
        BY <2>1, <2>3
      <3>2. IsFiniteSet(bag \cup Goods(q))
        BY <2>3, FS_Union
      <3> QED
        BY <3>1, <3>2, FS_Subset
    <2>9. Cardinality(here) < capacity[p]
      <3>1. /\ IsFiniteSet(others) /\ Cardinality(others) = Cardinality(Goods(q)) - 1
        BY <2>1, <2>3, FS_RemoveElement
      <3>2. Cardinality(earlier) <= Cardinality(others)
        BY <2>7a, <3>1, FS_Subset
      <3>3. /\ Cardinality(bag) \in Nat /\ Cardinality(earlier) \in Nat /\ Cardinality(Goods(q)) \in Nat
            /\ IsFiniteSet(bag \cap earlier) /\ Cardinality(bag \cap earlier) \in Nat
        BY <2>3, FS_CardinalityType, FS_Subset
      <3>4. Cardinality(here) = Cardinality(bag) + Cardinality(earlier) - Cardinality(bag \cap earlier)
        BY <2>3, FS_Union
      <3> QED
        BY <2>5, <2>6, <3>1, <3>2, <3>3, <3>4
    <2>10. /\ Similar(here, i) \in Nat /\ Similar(after, i) \in Nat /\ Similar(here, i) <= Similar(after, i)
           /\ Similar({}, i) = 0
      <3> DEFINE A == {j \in here : Entry[j] = Entry[i]}
                 B == {j \in after : Entry[j] = Entry[i]}
      <3>1. A \subseteq B /\ IsFiniteSet(B) /\ IsFiniteSet(A)
        <4>1. A \subseteq B /\ B \subseteq after
          BY <2>8
        <4> QED
          BY <2>8, <4>1, FS_Subset
      <3>2. Cardinality(A) \in Nat /\ Cardinality(B) \in Nat /\ Cardinality(A) <= Cardinality(B)
        BY <3>1, FS_Subset, FS_CardinalityType
      <3>3. {j \in {} : Entry[j] = Entry[i]} = {}
        OBVIOUS
      <3> QED
        BY <2>6, <3>2, <3>3 DEF Similar
    <2>11. CanTakeMoreSimilarItems(Similar(here, i) + Similar({}, i), i)
      <3> DEFINE most == MaxCount[Entry[i]]
      <3>1. most \in Nat /\ (most # 0 => Similar(after, i) < most)
        BY <2>4, <2>7 DEF CanTakeMoreSimilarItems
      <3>2. most # 0 => Similar(here, i) + Similar({}, i) < most
        BY <2>10, <3>1
      <3> QED
        BY <3>2 DEF CanTakeMoreSimilarItems
    <2>12. Cardinality(here) + Cardinality({}) + 0 < capacity[p]
      BY <2>3, <2>6, <2>8, <2>9, FS_CardinalityType
    <2>13. Fits(p, After(p, q, n - 1), 0, i)
      BY <2>7b, <2>11, <2>12 DEF Fits
    <2> QED
      BY <1>2, <2>13 DEF i
  <1> QED
    BY <1>3, <1>4

LEMMA EverySlotSwapped ==
  ASSUME NEW p \in Players, NEW q \in Players, p # q, has[p].bag \cap has[q].bag = {},
         capacity[p] \in Nat, capacity[q] \in Nat,
         Account(has[p]), Account(has[q]), SlotsDiffer(offer[p]), SlotsDiffer(offer[q]),
         ~Misfit(p, q), ~Misfit(q, p),
         NEW n \in 1 .. TradedCount
  PROVE  Swap(p, q, AfterSwaps(p, q, n - 1), n) = AfterSwaps(p, q, n)
  <1>1. /\ Fits(p, After(p, q, n - 1), 0, Held(q, n))
        /\ Stored(After(p, q, n - 1), Held(q, n)) = After(p, q, n)
    BY RoomForSlot
  <1>2. /\ Fits(q, After(q, p, n - 1), 0, Held(p, n))
        /\ Stored(After(q, p, n - 1), Held(p, n)) = After(q, p, n)
    BY RoomForSlot
  <1> QED
    BY <1>1, <1>2 DEF Swap, AfterSwaps

(***************************************************************************)
(* The exchange puts no item into two bags and none into a bag that is not *)
(* the owner's or the partner's; and it moves all goods if they fit        *)
(* together: nothing is dropped and nothing goes back to its owner.        *)
(***************************************************************************)
LEMMA MoveItemsFacts ==
  ASSUME NEW p \in Players, NEW q \in Players, p # q, has[p].bag \cap has[q].bag = {},
         capacity[p] \in Nat, capacity[q] \in Nat,
         Account(has[p]), Account(has[q]), SlotsDiffer(offer[p]), SlotsDiffer(offer[q])
  PROVE  /\ MoveItems(p, q).mine.items \subseteq has[p].bag \cup Goods(q)
         /\ MoveItems(p, q).his.items \subseteq has[q].bag \cup Goods(p)
         /\ MoveItems(p, q).mine.items \cap MoveItems(p, q).his.items = {}
         /\ ~Misfit(p, q) /\ ~Misfit(q, p) =>
                /\ MoveItems(p, q).mine.items = (has[p].bag \ Goods(p)) \cup Goods(q)
                /\ MoveItems(p, q).his.items = (has[q].bag \ Goods(q)) \cup Goods(p)
  <1> DEFINE bags == CHOOSE bags : Swaps(p, q, bags)
             all == [n \in 0 .. TradedCount |-> AfterSwaps(p, q, n)]
  <1>1. TradedCount \in Nat
    BY TradeAssumption
  <1>2. MoveItems(p, q) = bags[TradedCount] /\ Swaps(p, q, bags)
    BY MoveItemsUnfolded, SwapsExist
  <1> HIDE DEF bags
  <1>3. /\ bags[0] = [mine |-> Kept(p), his |-> Kept(q)]
        /\ \A n \in 1 .. TradedCount : bags[n] = Swap(p, q, bags[n - 1], n)
    <2>1. 0 \in 0 .. TradedCount /\ \A n \in 1 .. TradedCount : n \in 0 .. TradedCount /\ n # 0
      BY <1>1
    <2> QED
      BY <1>2, <2>1 DEF Swaps
  <1>4. HeldUpTo(p, 0) = {} /\ HeldUpTo(q, 0) = {}
    BY GoodsHeld
  <1>5. SoFar(p, q, bags[TradedCount], TradedCount)
    <2> DEFINE N == {n \in 0 .. TradedCount : SoFar(p, q, bags[n], n)}
    <2>1. 0 \in N
      BY <1>1, <1>3, <1>4 DEF SoFar, Kept
    <2>2. ASSUME NEW n \in 1 .. TradedCount, n - 1 \in N PROVE n \in N
      <3>1. SoFar(p, q, bags[n - 1], n - 1) /\ n \in 0 .. TradedCount
        BY <1>1, <2>2
      <3>2. SoFar(p, q, Swap(p, q, bags[n - 1], n), n)
        BY <3>1, SwapApart
      <3> QED
        BY <1>3, <3>1, <3>2
    <2>3. N \subseteq 0 .. TradedCount
      OBVIOUS
    <2> HIDE DEF N
    <2>4. N = 0 .. TradedCount
      BY <1>1, <2>1, <2>2, <2>3, NumbersUpTo
    <2>5. TradedCount \in 0 .. TradedCount
      BY <1>1
    <2> QED
      BY <2>4, <2>5 DEF N
  <1>6. ASSUME ~Misfit(p, q), ~Misfit(q, p)
        PROVE  bags[TradedCount] = AfterSwaps(p, q, TradedCount)
    <2> DEFINE N == {n \in 0 .. TradedCount : bags[n] = AfterSwaps(p, q, n)}
    <2>1. 0 \in N
      <3>1. After(p, q, 0) = Kept(p) /\ After(q, p, 0) = Kept(q)
        <4>1. \A a : a \cup {} = a
          OBVIOUS
        <4> QED
          BY <1>4, <4>1, Zenon DEF After, Kept
      <3>2. bags[0] = AfterSwaps(p, q, 0) /\ 0 \in 0 .. TradedCount
        BY <1>1, <1>3, <3>1 DEF AfterSwaps
      <3> QED
        BY <3>2
    <2>2. ASSUME NEW n \in 1 .. TradedCount, n - 1 \in N PROVE n \in N
      <3>1. bags[n - 1] = AfterSwaps(p, q, n - 1) /\ n \in 0 .. TradedCount
        BY <1>1, <2>2
      <3>2. Swap(p, q, AfterSwaps(p, q, n - 1), n) = AfterSwaps(p, q, n)
        BY <1>6, EverySlotSwapped
      <3> QED
        BY <1>3, <3>1, <3>2
    <2>3. N \subseteq 0 .. TradedCount
      OBVIOUS
    <2> HIDE DEF N
    <2>4. N = 0 .. TradedCount
      BY <1>1, <2>1, <2>2, <2>3, NumbersUpTo
    <2>5. TradedCount \in 0 .. TradedCount
      BY <1>1
    <2> QED
      BY <2>4, <2>5 DEF N
  <1>7. /\ HeldUpTo(p, TradedCount) = Goods(p) /\ HeldUpTo(q, TradedCount) = Goods(q)
        /\ Goods(p) \subseteq has[p].bag /\ Goods(q) \subseteq has[q].bag
    BY GoodsHeld
  <1>8. /\ bags[TradedCount].mine.items \subseteq has[p].bag \cup Goods(q)
        /\ bags[TradedCount].his.items \subseteq has[q].bag \cup Goods(p)
        /\ bags[TradedCount].mine.items \cap bags[TradedCount].his.items = {}
    BY <1>5, <1>7 DEF SoFar
  <1>9. ~Misfit(p, q) /\ ~Misfit(q, p) =>
            /\ bags[TradedCount].mine.items = (has[p].bag \ Goods(p)) \cup Goods(q)
            /\ bags[TradedCount].his.items = (has[q].bag \ Goods(q)) \cup Goods(p)
    BY <1>6, <1>7 DEF AfterSwaps, After
  <1> QED
    BY <1>2, <1>8, <1>9
-----------------------------------------------------------------------------
(***************************************************************************)
(* The offers.                                                             *)
(***************************************************************************)
LEMMA EmptyDiffers == SlotsDiffer(EmptyOffer)
  BY DEF SlotsDiffer, EmptyOffer

LEMMA CloseDiffers ==
  ASSUME \A r \in Players : SlotsDiffer(offer[r]), NEW p, NEW q, CloseTrade(p, q)
  PROVE  \A r \in Players : SlotsDiffer(offer'[r])
  BY EmptyDiffers DEF CloseTrade

LEMMA ReconsiderDiffers ==
  ASSUME \A r \in Players : SlotsDiffer(offer[r]), offer = [r \in Players |-> offer[r]],
         NEW p \in Players, NEW o, SlotsDiffer(o), Reconsider(p, o)
  PROVE  \A r \in Players : SlotsDiffer(offer'[r])
  BY DEF Reconsider

LEMMA SetItemDiffers ==
  ASSUME TradeInv, GoldInv, \A r \in Players : SlotsDiffer(offer[r]),
         NEW p \in Players, partner[p] # None, NEW s \in Slots, NEW i \in Items \cup {None},
         i # None => \A t \in Slots : offer[p].slots[t] # i, SetItem(p, s, i)
  PROVE  \A r \in Players : SlotsDiffer(offer'[r])
  <1> DEFINE q == partner[p]
             own == [offer[p] EXCEPT !.slots[s] = i, !.spell = None]
             other == [offer[q] EXCEPT !.spell = IF s = NonTraded THEN None ELSE @]
  <1>1. q \in Players /\ q # p /\ offer[p] \in Offer /\ offer[q] \in Offer
    BY Partners DEF GoldInv
  <1>2. SlotsDiffer(own)
    <2>1. own.slots = [offer[p].slots EXCEPT ![s] = i]
      BY <1>1 DEF Offer
    <2>2. offer[p].slots \in [Slots -> Items \cup {None}]
      BY <1>1 DEF Offer
    <2>3. \A t \in Slots : own.slots[t] = IF t = s THEN i ELSE offer[p].slots[t]
      BY <2>1, <2>2
    <2> HIDE DEF own
    <2>4. SlotsDiffer(offer[p])
      OBVIOUS
    <2> QED
      BY <2>3, <2>4 DEF SlotsDiffer
  <1>3. SlotsDiffer(other)
    <2>1. other.slots = offer[q].slots
      BY <1>1 DEF Offer
    <2> QED
      BY <1>1, <2>1 DEF SlotsDiffer
  <1>4. offer' = [offer EXCEPT ![p] = own, ![q] = other]
    BY <1>1 DEF SetItem, GoldInv
  <1> HIDE DEF own, other, q
  <1>5. \A r \in Players : offer'[r] = IF r = p THEN own ELSE IF r = q THEN other ELSE offer[r]
    BY <1>1, <1>4 DEF GoldInv
  <1> QED
    BY <1>2, <1>3, <1>5

LEMMA OtherSpellDiffers ==
  ASSUME NEW o \in Offer, SlotsDiffer(o), NEW x
  PROVE  SlotsDiffer([o EXCEPT !.spell = x]) /\ SlotsDiffer([o EXCEPT !.money = x])
  <1>1. [o EXCEPT !.spell = x].slots = o.slots /\ [o EXCEPT !.money = x].slots = o.slots
    BY DEF Offer
  <1> QED
    BY <1>1 DEF SlotsDiffer
-----------------------------------------------------------------------------
(***************************************************************************)
(* The steps.                                                              *)
(***************************************************************************)
LEMMA PendingIsSeq == GoldInv => (\E S : pending \in Seq(S)) /\ Len(pending) \in Nat
  BY LenProperties DEF GoldInv

\* Nobody is worth less or more, and no item leaves a player.
LEMMA MemoryStep ==
  ASSUME Books, UNCHANGED <<saved, pending, capped, misfit>>,
         \A r \in Players : SlotsDiffer(offer'[r]),
         \A r \in Players : Account(has'[r]) /\ Same(has[r], has'[r])
  PROVE  Books'
  <1>1. PICK db : Ledger(db, saved, pending, has, capped, misfit)
    BY DEF Books
  <1>2. Ledger(db, saved, pending, has', capped, misfit)
    BY <1>1 DEF Ledger, Same
  <1>3. Ledger(db, saved', pending', has', capped', misfit')
    BY <1>2
  <1> QED
    BY <1>3 DEF Books

LEMMA SameReflexive == ASSUME NEW a PROVE Same(a, a)
  BY DEF Same

LEMMA OfferBooks ==
  ASSUME Books, UNCHANGED <<has, saved, pending, capped, misfit>>,
         \A r \in Players : SlotsDiffer(offer'[r])
  PROVE  Books'
  <1>1. \A r \in Players : Account(has'[r]) /\ Same(has[r], has'[r])
    BY SameReflexive DEF Books
  <1> QED
    BY <1>1, MemoryStep

\* One player is saved: what it had is in the next page.
LEMMA SaveBooks ==
  ASSUME Books, GoldInv, NEW p \in Players, pending' = Append(pending, [x \in {p} |-> has[x]]),
         UNCHANGED <<has, saved, capped, misfit>>, \A r \in Players : SlotsDiffer(offer'[r])
  PROVE  Books'
  <1> DEFINE save == [x \in {p} |-> has[x]]
             n == Len(pending)
  <1>1. PICK db : Ledger(db, saved, pending, has, capped, misfit)
    BY DEF Books
  <1>2. PICK S : pending \in Seq(S)
    BY PendingIsSeq
  <1>3. n \in 0 .. n
    BY PendingIsSeq
  <1> DEFINE page == Executed(db[n], save)
  <1>4. \A r \in Players : page[r] = IF r = p THEN has[p] ELSE db[n][r]
    BY DEF Executed
  <1>5. Intact(db[n], capped, misfit) /\ \A r \in Players : Same(db[n][r], has[r])
    BY <1>1, <1>3 DEF Ledger
  <1> HIDE DEF page, n
  <1>6. \A r \in Players : Account(page[r]) /\ Same(db[n][r], page[r])
    BY <1>4, <1>5, SameReflexive DEF Intact, Books
  <1>7. Intact(page, capped, misfit)
    BY <1>5, <1>6, SameIntact
  <1>8. \A r \in Players : Same(page[r], has[r])
    BY <1>4, <1>5, SameReflexive
  <1> HIDE DEF save
  <1>9. \E e : Ledger(e, saved, Append(pending, save), has, capped, misfit)
    <2>1. /\ Intact(Executed(db[Len(pending)], save), capped, misfit)
          /\ \A r \in Players : Same(Executed(db[Len(pending)], save)[r], has[r])
      BY <1>7, <1>8 DEF page, n
    <2>2. (capped => capped) /\ (misfit => misfit)
      OBVIOUS
    <2> QED
      BY <1>1, <1>2, <2>1, <2>2, LedgerAppend, Zenon
  <1>10. \E e : Ledger(e, saved', pending', has', capped', misfit')
    BY <1>9 DEF save
  <1>11. \A r \in Players : Account(has'[r])
    BY DEF Books
  <1> QED
    BY <1>10, <1>11 DEF Books

\* What a player has after an exchange.
LEMMA PaidFacts ==
  ASSUME NEW h, Account(h), NEW b \in SUBSET Items, b \cap h.gone = {}, NEW m \in 0 .. MaxMoney
  PROVE  /\ Account(Paid(h, b, m))
         /\ Worth(Paid(h, b, m)) = m + h.spent
         /\ Owned(Paid(h, b, m)) = b \cup h.gone
  <1> DEFINE w == [h EXCEPT !.bag = b, !.money = m]
  <1>1. w \in Holding /\ w.bag = b /\ w.money = m /\ w.spent = h.spent /\ w.gone = h.gone
    BY DEF Account, Holding
  <1> HIDE DEF w
  <1>2. Account(w) /\ Worth(w) = m + h.spent /\ Owned(w) = b \cup h.gone
    BY <1>1 DEF Account, Worth, Owned
  <1> QED
    BY <1>2 DEF w, Paid

LEMMA ModifyMoneyExact ==
  ASSUME NEW money \in 0 .. MaxMoney, NEW give \in 0 .. MaxMoney, NEW get \in 0 .. MaxMoney,
         give <= money
  PROVE  /\ ModifyMoney(money, give, get) <= money - give + get
         /\ ~(money - give + get > MaxMoney) => ModifyMoney(money, give, get) = money - give + get
  BY TradeAssumption DEF ModifyMoney

\* The exchange as a change of two accounts.
LEMMA ExchangeAccounts ==
  ASSUME TradeInv, GoldInv, CapacityInv, Books, Intact(has, capped, misfit),
         NEW p \in Players, partner[p] # None, NEW q, q = partner[p], Exchange(p, q)
  PROVE  /\ q \in Players /\ q # p
         /\ \A r \in Players \ {p, q} : has'[r] = has[r]
         /\ Account(has'[p]) /\ Account(has'[q])
         /\ Owned(has'[p]) \cup Owned(has'[q]) \subseteq Owned(has[p]) \cup Owned(has[q])
         /\ ~misfit' => Owned(has'[p]) \cup Owned(has'[q]) = Owned(has[p]) \cup Owned(has[q])
         /\ Owned(has'[p]) \cap Owned(has'[q]) = {}
         /\ Worth(has'[p]) + Worth(has'[q]) <= Worth(has[p]) + Worth(has[q])
         /\ ~capped' => Worth(has'[p]) + Worth(has'[q]) = Worth(has[p]) + Worth(has[q])
         /\ capped => capped'
         /\ misfit => misfit'
         /\ has'[p].bag \subseteq has[p].bag \cup Goods(q)
         /\ has'[q].bag \subseteq has[q].bag \cup Goods(p)
  <1> DEFINE a == has[p]
             b == has[q]
             mine == offer[p].money
             his == offer[q].money
             ma == ModifyMoney(a.money, mine, his)
             mb == ModifyMoney(b.money, his, mine)
             ba == MoveItems(p, q).mine.items
             bb == MoveItems(p, q).his.items
  <1>1. q \in Players /\ q # p
    BY Partners
  <1>2. mine \in 0 .. MaxMoney /\ his \in 0 .. MaxMoney
    BY <1>1 DEF GoldInv, Offer
  <1>3. Account(a) /\ Account(b) /\ SlotsDiffer(offer[p]) /\ SlotsDiffer(offer[q])
    BY <1>1 DEF Books
  <1>4. /\ a.money \in 0 .. MaxMoney /\ b.money \in 0 .. MaxMoney
        /\ a.spent \in Nat /\ b.spent \in Nat
        /\ a.bag \subseteq Items /\ b.bag \subseteq Items
        /\ a.bag \cap a.gone = {} /\ b.bag \cap b.gone = {}
    BY <1>3, AccountFacts
  <1>5. mine <= a.money /\ his <= b.money
    BY DEF Exchange, Agreeable, MoneyCovered
  <1>6. /\ ma \in 0 .. MaxMoney /\ mb \in 0 .. MaxMoney
        /\ ma <= a.money - mine + his /\ mb <= b.money - his + mine
        /\ ~(a.money - mine + his > MaxMoney) => ma = a.money - mine + his
        /\ ~(b.money - his + mine > MaxMoney) => mb = b.money - his + mine
    <2> HIDE DEF a, b, mine, his
    <2>1. /\ ma \in 0 .. MaxMoney /\ ma <= a.money - mine + his
          /\ ~(a.money - mine + his > MaxMoney) => ma = a.money - mine + his
      BY <1>2, <1>4, <1>5, ModifyMoneyBound, ModifyMoneyExact
    <2>2. /\ mb \in 0 .. MaxMoney /\ mb <= b.money - his + mine
          /\ ~(b.money - his + mine > MaxMoney) => mb = b.money - his + mine
      BY <1>2, <1>4, <1>5, ModifyMoneyBound, ModifyMoneyExact
    <2> QED
      BY <2>1, <2>2
  <1>7. Owned(a) \cap Owned(b) = {} /\ a.bag \cap b.bag = {}
    BY <1>1 DEF Intact, Apart, Owned
  <1>8. /\ has' = [has EXCEPT ![p] = Paid(a, ba, ma), ![q] = Paid(b, bb, mb)]
        /\ capped' = (capped \/ a.money - mine + his > MaxMoney \/ b.money - his + mine > MaxMoney)
        /\ misfit' = (misfit \/ Misfit(p, q) \/ Misfit(q, p))
    BY <1>1 DEF Exchange, GoldInv, Paid
  <1>9. /\ ba \subseteq a.bag \cup Goods(q) /\ bb \subseteq b.bag \cup Goods(p) /\ ba \cap bb = {}
        /\ ~misfit' => /\ ba = (a.bag \ Goods(p)) \cup Goods(q)
                       /\ bb = (b.bag \ Goods(q)) \cup Goods(p)
    <2>1. capacity[p] \in Nat /\ capacity[q] \in Nat
      BY <1>1, TradeAssumption DEF CapacityInv
    <2>2. ~misfit' => ~Misfit(p, q) /\ ~Misfit(q, p)
      BY <1>8
    <2> QED
      BY <1>1, <1>3, <1>7, <2>1, <2>2, MoveItemsFacts
  <1>10. Goods(p) \subseteq a.bag /\ Goods(q) \subseteq b.bag
    BY GoodsHeld
  <1> HIDE DEF ma, mb, mine, his, ba, bb
  <1>12. /\ ba \in SUBSET Items /\ bb \in SUBSET Items
         /\ ba \cap a.gone = {} /\ bb \cap b.gone = {}
         /\ (ba \cup a.gone) \cup (bb \cup b.gone) \subseteq Owned(a) \cup Owned(b)
         /\ ~misfit' => (ba \cup a.gone) \cup (bb \cup b.gone) = Owned(a) \cup Owned(b)
         /\ (ba \cup a.gone) \cap (bb \cup b.gone) = {}
    <2> DEFINE X == Goods(p)
               Y == Goods(q)
    <2> HIDE DEF a, b, X, Y
    <2>1. /\ Owned(a) = a.bag \cup a.gone /\ Owned(b) = b.bag \cup b.gone
          /\ X \subseteq a.bag /\ Y \subseteq b.bag
      BY <1>10 DEF Owned, X, Y
    <2>2. /\ ba \subseteq a.bag \cup Y /\ bb \subseteq b.bag \cup X /\ ba \cap bb = {}
          /\ ~misfit' => ba = (a.bag \ X) \cup Y /\ bb = (b.bag \ Y) \cup X
      BY <1>9 DEF X, Y
    <2> QED
      BY <1>4, <1>7, <2>1, <2>2
  <1>13. has'[p] = Paid(a, ba, ma) /\ has'[q] = Paid(b, bb, mb)
         /\ \A r \in Players \ {p, q} : has'[r] = has[r]
    BY <1>1, <1>8 DEF GoldInv
  <1>14. /\ Account(has'[p]) /\ Worth(has'[p]) = ma + a.spent /\ Owned(has'[p]) = ba \cup a.gone
         /\ Account(has'[q]) /\ Worth(has'[q]) = mb + b.spent /\ Owned(has'[q]) = bb \cup b.gone
    <2> HIDE DEF a, b
    <2>1. /\ Account(Paid(a, ba, ma)) /\ Worth(Paid(a, ba, ma)) = ma + a.spent
          /\ Owned(Paid(a, ba, ma)) = ba \cup a.gone
      BY <1>3, <1>6, <1>12, PaidFacts
    <2>2. /\ Account(Paid(b, bb, mb)) /\ Worth(Paid(b, bb, mb)) = mb + b.spent
          /\ Owned(Paid(b, bb, mb)) = bb \cup b.gone
      BY <1>3, <1>6, <1>12, PaidFacts
    <2> QED
      BY <1>13, <2>1, <2>2
  <1>15. /\ ma + a.spent + (mb + b.spent) <= Worth(a) + Worth(b)
         /\ ~capped' => ma + a.spent + (mb + b.spent) = Worth(a) + Worth(b)
    <2> HIDE DEF a, b
    <2>1. ma \in Int /\ mb \in Int /\ mine \in Int /\ his \in Int /\ a.money \in Int /\ b.money \in Int
      BY <1>2, <1>4, <1>6
    <2>2. ma + a.spent + (mb + b.spent) <= Worth(a) + Worth(b)
      BY <1>4, <1>6, <2>1 DEF Worth
    <2>3. ASSUME ~capped' PROVE ma + a.spent + (mb + b.spent) = Worth(a) + Worth(b)
      <3>1. ~(a.money - mine + his > MaxMoney) /\ ~(b.money - his + mine > MaxMoney)
        BY <1>8, <2>3
      <3>2. ma = a.money - mine + his /\ mb = b.money - his + mine
        BY <1>6, <3>1, Zenon
      <3>3. a.spent \in Int /\ b.spent \in Int
        BY <1>4
      <3> QED
        BY <2>1, <3>2, <3>3 DEF Worth
    <2> QED
      BY <2>2, <2>3
  <1>16. has'[p].bag = ba /\ has'[q].bag = bb
    <2>1. Wallet(a) /\ Wallet(b)
      BY <1>1 DEF GoldInv
    <2> HIDE DEF a, b
    <2>2. Paid(a, ba, ma).bag = ba /\ Paid(b, bb, mb).bag = bb
      BY <2>1 DEF Wallet, Paid
    <2> QED
      BY <1>13, <2>2
  <1> QED
    BY <1>1, <1>8, <1>9, <1>12, <1>13, <1>14, <1>15, <1>16

LEMMA ExchangeBooks ==
  ASSUME TradeInv, GoldInv, CapacityInv, Books,
         NEW p \in Players, partner[p] # None, NEW q, q = partner[p], Exchange(p, q), UNCHANGED saved
  PROVE  Books'
  <1> DEFINE save == [x \in {p, q} |-> has'[x]]
             n == Len(pending)
  <1>1. PICK db : Ledger(db, saved, pending, has, capped, misfit)
    BY DEF Books
  <1>2. PICK S : pending \in Seq(S)
    BY PendingIsSeq
  <1>3. n \in Nat /\ n \in 0 .. n
    BY PendingIsSeq
  <1>4. Intact(has, capped, misfit)
    BY <1>1, <1>3, MemoryIntact
  <1>5. /\ q \in Players /\ q # p
        /\ \A r \in Players \ {p, q} : has'[r] = has[r]
        /\ Account(has'[p]) /\ Account(has'[q])
        /\ Owned(has'[p]) \cup Owned(has'[q]) \subseteq Owned(has[p]) \cup Owned(has[q])
        /\ ~misfit' => Owned(has'[p]) \cup Owned(has'[q]) = Owned(has[p]) \cup Owned(has[q])
        /\ Owned(has'[p]) \cap Owned(has'[q]) = {}
        /\ Worth(has'[p]) + Worth(has'[q]) <= Worth(has[p]) + Worth(has[q])
        /\ ~capped' => Worth(has'[p]) + Worth(has'[q]) = Worth(has[p]) + Worth(has[q])
        /\ capped => capped'
        /\ misfit => misfit'
    BY <1>4, ExchangeAccounts
  <1> DEFINE page == Executed(db[n], save)
  <1>6. /\ \A r \in Players \ {p, q} : page[r] = db[n][r]
        /\ page[p] = has'[p] /\ page[q] = has'[q]
    BY <1>5 DEF Executed
  <1>7. Intact(db[n], capped, misfit) /\ \A r \in Players : Same(db[n][r], has[r])
    BY <1>1, <1>3 DEF Ledger
  <1> HIDE DEF page, n
  <1>8. /\ Owned(page[p]) \cup Owned(page[q]) \subseteq Owned(db[n][p]) \cup Owned(db[n][q])
        /\ ~misfit' => Owned(page[p]) \cup Owned(page[q]) = Owned(db[n][p]) \cup Owned(db[n][q])
        /\ Worth(page[p]) + Worth(page[q]) <= Worth(db[n][p]) + Worth(db[n][q])
        /\ ~capped' => Worth(page[p]) + Worth(page[q]) = Worth(db[n][p]) + Worth(db[n][q])
        /\ Owned(page[p]) \cap Owned(page[q]) = {} /\ Account(page[p]) /\ Account(page[q])
    <2>1. Same(db[n][p], has[p]) /\ Same(db[n][q], has[q])
      BY <1>5, <1>7
    <2> QED
      BY <1>5, <1>6, <2>1 DEF Same
  <1>9. Intact(page, capped', misfit')
    BY <1>5, <1>6, <1>7, <1>8, ExchangeIntact
  <1>10. \A r \in Players : Same(page[r], has'[r])
    BY <1>5, <1>6, <1>7, SameReflexive
  <1> HIDE DEF save
  <1>11. \E e : Ledger(e, saved, Append(pending, save), has', capped', misfit')
    BY <1>1, <1>2, <1>5, <1>9, <1>10, LedgerAppend DEF page, n
  <1>12. pending' = Append(pending, save) /\ CloseTrade(p, q)
    BY DEF Exchange, SaveBoth, save
  <1>13. \A r \in Players : Account(has'[r]) /\ SlotsDiffer(offer'[r])
    BY <1>5, <1>12, CloseDiffers DEF Books
  <1> QED
    BY <1>11, <1>12, <1>13 DEF Books

LEMMA AcceptTradeBooks ==
  ASSUME TradeInv, GoldInv, CapacityInv, Books, NEW p \in Players, HandleAcceptTrade(p)
  PROVE  Books'
  <1> DEFINE q == partner[p]
  <1>1. partner[p] # None /\ q \in Players /\ offer[p] \in Offer /\ offer[q] \in Offer
    BY Partners DEF HandleAcceptTrade, GoldInv
  <1>2. CASE UNCHANGED <<offer, has, pending, capped, saved, misfit>>
    BY <1>2, OfferBooks DEF Books
  <1>3. CASE RefusedSpell(p, q) /\ UNCHANGED <<has, pending, capped, saved, misfit>>
    <2>1. /\ SlotsDiffer([offer[p] EXCEPT !.spell = None])
          /\ SlotsDiffer([offer[q] EXCEPT !.spell = None])
      BY <1>1, OtherSpellDiffers DEF Books
    <2>2. offer = [r \in Players |-> offer[r]] /\ \A r \in Players : SlotsDiffer(offer[r])
      BY DEF TradeInv, TradeShape, Books
    <2>3. \A r \in Players : SlotsDiffer(offer'[r])
      BY <1>1, <1>3, <2>1, <2>2, ReconsiderDiffers DEF RefusedSpell
    <2> QED
      BY <1>3, <2>3, OfferBooks
  <1>4. CASE Exchange(p, q) /\ UNCHANGED saved
    BY <1>1, <1>4, ExchangeBooks
  <1>5. \/ UNCHANGED <<offer, has, pending, capped, saved, misfit>>
        \/ RefusedSpell(p, q) /\ UNCHANGED <<has, pending, capped, saved, misfit>>
        \/ Exchange(p, q) /\ UNCHANGED saved
    BY DEF HandleAcceptTrade
  <1> HIDE DEF q
  <1> QED
    BY <1>2, <1>3, <1>4, <1>5

LEMMA HandleBooks ==
  ASSUME TradeInv, GoldInv, CapacityInv, Books, NEW p \in Players, Handle(p)
  PROVE  Books'
  <1>1. offer = [r \in Players |-> offer[r]] /\ \A r \in Players : SlotsDiffer(offer[r])
    BY DEF TradeInv, TradeShape, Books
  <1>2. ASSUME NEW q \in Players, HandleInitiateTrade(p, q) PROVE Books'
    <2>1. \A r \in Players : SlotsDiffer(offer'[r])
      BY <1>1, <1>2, EmptyDiffers DEF HandleInitiateTrade
    <2> QED
      BY <1>2, <2>1, OfferBooks DEF HandleInitiateTrade
  <1>3. ASSUME NEW s \in Slots, NEW i \in Items, HandleSetTradeItem(p, s, i) PROVE Books'
    <2>1. \A r \in Players : SlotsDiffer(offer'[r])
      BY <1>1, <1>3, SetItemDiffers DEF HandleSetTradeItem
    <2> QED
      BY <1>3, <2>1, OfferBooks DEF HandleSetTradeItem
  <1>4. ASSUME NEW s \in Slots, HandleClearTradeItem(p, s) PROVE Books'
    <2>1. \A r \in Players : SlotsDiffer(offer'[r])
      BY <1>1, <1>4, SetItemDiffers DEF HandleClearTradeItem
    <2> QED
      BY <1>4, <2>1, OfferBooks DEF HandleClearTradeItem
  <1>5. offer[p] \in Offer
    BY DEF GoldInv
  <1>6. ASSUME NEW gold \in 0 .. MaxMoney, HandleSetTradeGold(p, gold) PROVE Books'
    <2>1. SlotsDiffer([offer[p] EXCEPT !.money = gold])
      BY <1>1, <1>5, OtherSpellDiffers
    <2>2. \A r \in Players : SlotsDiffer(offer'[r])
      BY <1>1, <1>6, <2>1, ReconsiderDiffers DEF HandleSetTradeGold
    <2> QED
      BY <1>6, <2>2, OfferBooks DEF HandleSetTradeGold
  <1>7. ASSUME NEW spell \in Spells, SetSpell(p, spell) PROVE Books'
    <2>1. SlotsDiffer([offer[p] EXCEPT !.spell = spell])
      BY <1>1, <1>5, OtherSpellDiffers
    <2>2. \A r \in Players : SlotsDiffer(offer'[r])
      BY <1>1, <1>7, <2>1, ReconsiderDiffers DEF SetSpell
    <2> QED
      BY <1>7, <2>2, OfferBooks DEF SetSpell
  <1>8. CASE HandleUnacceptTrade(p)
    BY <1>1, <1>8, OfferBooks DEF HandleUnacceptTrade
  <1>9. CASE HandleAcceptTrade(p)
    BY <1>9, AcceptTradeBooks
  <1>10. CASE TradeCancel(p)
    <2>1. \A r \in Players : SlotsDiffer(offer'[r])
      BY <1>1, <1>10, CloseDiffers DEF TradeCancel
    <2> QED
      BY <1>10, <2>1, OfferBooks DEF TradeCancel
  <1> QED
    BY <1>2, <1>3, <1>4, <1>6, <1>7, <1>8, <1>9, <1>10 DEF Handle

\* One player's holding changes, and it is worth and owns the same.
LEMMA OneAccountStep ==
  ASSUME Books, GoldInv, NEW p \in Players, NEW h, has' = [has EXCEPT ![p] = h], Account(h), Same(has[p], h),
         UNCHANGED <<offer, saved, pending, capped, misfit>>
  PROVE  Books'
  <1>1. \A r \in Players : has'[r] = IF r = p THEN h ELSE has[r]
    BY DEF GoldInv
  <1>2. \A r \in Players : Account(has'[r]) /\ Same(has[r], has'[r])
    BY <1>1, SameReflexive DEF Books
  <1>3. \A r \in Players : SlotsDiffer(offer'[r])
    BY DEF Books
  <1> QED
    BY <1>2, <1>3, MemoryStep

LEMMA SpendBooks ==
  ASSUME GoldInv, Books, NEW p \in Players, Spend(p)
  PROVE  Books'
  <1> DEFINE h == [has[p] EXCEPT !.money = @ - 1, !.spent = @ + 1]
  <1>1. Account(has[p]) /\ has[p].money > 0 /\ has[p] \in Holding
    BY DEF Spend, Books, Account
  <1>2. has[p].money - 1 \in 0 .. MaxMoney /\ has[p].spent + 1 \in Nat
    BY <1>1, AccountFacts, TradeAssumption
  <1>3. /\ h \in Holding /\ h.money = has[p].money - 1 /\ h.spent = has[p].spent + 1
        /\ h.bag = has[p].bag /\ h.gone = has[p].gone
    BY <1>1, <1>2 DEF Holding
  <1>4. has' = [has EXCEPT ![p] = h]
    BY DEF Spend, GoldInv
  <1> HIDE DEF h
  <1>5. Account(h) /\ Same(has[p], h)
    BY <1>1, <1>3, AccountFacts DEF Account, Same, Worth, Owned
  <1> QED
    BY <1>4, <1>5, OneAccountStep DEF Spend, trades

LEMMA DestroyBooks ==
  ASSUME GoldInv, Books, NEW p \in Players, NEW i \in Items, DestroyItem(p, i)
  PROVE  Books'
  <1> DEFINE h == [has[p] EXCEPT !.bag = @ \ {i}, !.gone = @ \cup {i}]
  <1>1. Account(has[p]) /\ i \in has[p].bag /\ has[p] \in Holding
    BY DEF DestroyItem, Books, Account
  <1>2. /\ h \in Holding /\ h.money = has[p].money /\ h.spent = has[p].spent
        /\ h.bag = has[p].bag \ {i} /\ h.gone = has[p].gone \cup {i}
    BY <1>1 DEF Holding
  <1>3. has' = [has EXCEPT ![p] = h]
    BY DEF DestroyItem, GoldInv
  <1> HIDE DEF h
  <1>4. Account(h) /\ Same(has[p], h)
    BY <1>1, <1>2 DEF Account, Same, Worth, Owned
  <1> QED
    BY <1>3, <1>4, OneAccountStep DEF DestroyItem, trades

\* All saves of the player are executed, so the database has what it was worth.
LEMMA LoginBooks ==
  ASSUME GoldInv, Books, NEW p \in Players, Login(p)
  PROVE  Books'
  <1>1. PICK db : Ledger(db, saved, pending, has, capped, misfit)
    BY DEF Books
  <1>2. Len(pending) \in Nat
    BY PendingIsSeq
  <1>3. db[Len(pending)][p] = saved[p]
    <2>1. \A k \in 1 .. Len(pending) : p \notin DOMAIN pending[k]
      BY DEF Login
    <2>2. \A r \in Players : (\A k \in 1 .. Len(pending) : r \notin DOMAIN pending[k])
                                  => db[Len(pending)][r] = saved[r]
      BY <1>1, <1>2, LedgerUntouched
    <2> QED
      BY <2>1, <2>2
  <1>4. Same(saved[p], has[p])
    BY <1>1, <1>3 DEF Ledger
  <1>5. Intact(saved, capped, misfit)
    BY <1>1, <1>2, MemoryIntact
  <1>6. Account(saved[p]) /\ Same(has[p], saved[p])
    BY <1>4, <1>5 DEF Intact, Same
  <1> QED
    BY <1>6, OneAccountStep DEF Login, trades

LEMMA ExecuteBooks ==
  ASSUME GoldInv, Books, ExecuteSave
  PROVE  Books'
  <1>1. PICK db : Ledger(db, saved, pending, has, capped, misfit)
    BY DEF Books
  <1>2. PICK S : pending \in Seq(S)
    BY PendingIsSeq
  <1>3. /\ pending # <<>> /\ pending' = Tail(pending) /\ saved' = Executed(saved, Head(pending))
        /\ UNCHANGED <<has, offer, capped, misfit>>
    BY DEF ExecuteSave, Executed, trades
  <1>4. \E e : Ledger(e, Executed(saved, Head(pending)), Tail(pending), has, capped, misfit)
    BY <1>1, <1>2, <1>3, LedgerTail
  <1> QED
    BY <1>3, <1>4 DEF Books

\* A ledger of one page.
LEMMA LedgerStart ==
  ASSUME NEW h, NEW c, NEW mf, Intact(h, c, mf)
  PROVE  \E db : Ledger(db, h, <<>>, h, c, mf)
  <1> DEFINE db == [k \in {0} |-> h]
  <1>1. db[0] = h /\ Len(<<>>) = 0 /\ 0 .. 0 = {0} /\ 1 .. 0 = {}
    BY EmptySeq
  <1> HIDE DEF db
  <1>2. Ledger(db, h, <<>>, h, c, mf)
    BY <1>1, SameReflexive DEF Ledger
  <1> QED
    BY <1>2

LEMMA CrashBooks ==
  ASSUME GoldInv, Books, Crash
  PROVE  Books'
  <1>1. PICK db : Ledger(db, saved, pending, has, capped, misfit)
    BY DEF Books
  <1>2. Intact(saved, capped, misfit)
    BY <1>1, MemoryIntact, PendingIsSeq
  <1>3. has' = saved /\ saved' = saved /\ pending' = <<>> /\ capped' = capped
        /\ misfit' = misfit /\ offer' = [r \in Players |-> EmptyOffer]
    BY DEF Crash
  <1>4. \E e : Ledger(e, saved', pending', has', capped', misfit')
    BY <1>2, <1>3, LedgerStart
  <1>5. \A r \in Players : Account(has'[r]) /\ SlotsDiffer(offer'[r])
    BY <1>2, <1>3, EmptyDiffers DEF Intact
  <1> QED
    BY <1>4, <1>5 DEF Books

LEMMA InitBooks == Init => Books
  <1> SUFFICES ASSUME Init PROVE Books
    OBVIOUS
  <1>1. \A p \in Players : /\ has[p] = [money |-> StartMoney, spent |-> 0, bag |-> StartBag[p], gone |-> {}]
                           /\ offer[p] = EmptyOffer
    BY DEF Init
  <1>2. ASSUME NEW p \in Players
        PROVE  Account(has[p]) /\ Owned(has[p]) = StartBag[p] /\ Worth(has[p]) = StartMoney
    <2> DEFINE h == [money |-> StartMoney, spent |-> 0, bag |-> StartBag[p], gone |-> {}]
    <2>1. StartBag[p] \in SUBSET Items /\ StartMoney \in 0 .. MaxMoney /\ StartMoney \in Nat
      BY TradeAssumption
    <2>2. h \in Holding
      BY <2>1 DEF Holding
    <2>3. h.money = StartMoney /\ h.spent = 0 /\ h.bag = StartBag[p] /\ h.gone = {}
      OBVIOUS
    <2>4. has[p] = h
      BY <1>1
    <2> HIDE DEF h
    <2> QED
      BY <2>1, <2>2, <2>3, <2>4 DEF Account, Owned, Worth
  <1>3. Apart(has) /\ Complete(has)
    BY <1>2, TradeAssumption DEF Apart, Complete
  <1>4. Gold(has) = Issued
    <2> DEFINE f == [p \in Players |-> Worth(has[p])]
    <2>1. \A p \in Players : f[p] = StartMoney
      BY <1>2
    <2>2. StartMoney \in Int /\ IsFiniteSet(Players)
      BY TradeAssumption
    <2>3. Gold(has) = SumFunctionOnSet(f, Players)
      BY GoldIsWorth
    <2> HIDE DEF f
    <2> QED
      BY <2>1, <2>2, <2>3, SumConstant DEF Issued
  <1>5. Intact(has, capped, misfit)
    BY <1>2, <1>3, <1>4, IssuedType DEF Intact, Balance
  <1>6. saved = has /\ pending = <<>>
    BY DEF Init
  <1>7. \E db : Ledger(db, saved, pending, has, capped, misfit)
    BY <1>5, <1>6, LedgerStart
  <1> QED
    BY <1>1, <1>2, <1>7, EmptyDiffers DEF Books

LEMMA NextBooks == TradeInv /\ GoldInv /\ CapacityInv /\ Books /\ [Next]_vars => Books'
  <1> SUFFICES ASSUME TradeInv, GoldInv, CapacityInv, Books, [Next]_vars PROVE Books'
    OBVIOUS
  <1>1. \A r \in Players : SlotsDiffer(offer[r])
    BY DEF Books
  <1>2. ASSUME NEW p \in Players, Handle(p) PROVE Books'
    BY <1>2, HandleBooks
  <1>3. ASSUME NEW p \in Players, Spend(p) PROVE Books'
    BY <1>3, SpendBooks
  <1>4. ASSUME NEW p \in Players, SaveToDB(p) PROVE Books'
    BY <1>1, <1>4, SaveBooks DEF SaveToDB, trades
  <1>5. ASSUME NEW p \in Players, LogoutPlayer(p) PROVE Books'
    <2>1. \A r \in Players : SlotsDiffer(offer'[r])
      <3>1. CASE partner[p] # None
        BY <1>1, <1>5, <3>1, CloseDiffers DEF LogoutPlayer
      <3>2. CASE partner[p] = None
        BY <1>1, <1>5, <3>2 DEF LogoutPlayer, trades
      <3> QED
        BY <3>1, <3>2
    <2> QED
      BY <1>5, <2>1, SaveBooks DEF LogoutPlayer
  <1>6. ASSUME NEW p \in Players, Login(p) PROVE Books'
    BY <1>6, LoginBooks
  <1>7. ASSUME NEW p \in Players, NEW i \in Perishable, DestroyItem(p, i) PROVE Books'
    BY <1>7, DestroyBooks, TradeAssumption
  <1>8. CASE UNCHANGED <<offer, has, saved, pending, capped, misfit>>
    BY <1>1, <1>8, OfferBooks
  <1>9. ASSUME NEW i \in Bindable, Bind(i) PROVE Books'
    BY <1>8, <1>9 DEF Bind, trades
  <1>10. CASE ExecuteSave
    BY <1>10, ExecuteBooks
  <1>11. CASE Crash
    BY <1>11, CrashBooks
  <1>12. CASE UNCHANGED vars
    BY <1>8, <1>12 DEF vars, trades
  <1> QED
    BY <1>2, <1>3, <1>4, <1>5, <1>6, <1>7, <1>9, <1>10, <1>11, <1>12 DEF Next
-----------------------------------------------------------------------------
LEMMA BooksIntact == GoldInv /\ Books => Intact(has, capped, misfit) /\ Intact(saved, capped, misfit)
  <1> SUFFICES ASSUME GoldInv, Books PROVE Intact(has, capped, misfit) /\ Intact(saved, capped, misfit)
    OBVIOUS
  <1>1. PICK db : Ledger(db, saved, pending, has, capped, misfit)
    BY DEF Books
  <1> QED
    BY <1>1, MemoryIntact, PendingIsSeq

LEMMA OnePlace ==
  ASSUME NEW h, \A p \in Players : Account(h[p]), Apart(h), Complete(h), NEW i \in Items
  PROVE  Cardinality(Places(h, i)) = 1
  <1>1. PICK p \in Players : i \in Owned(h[p])
    BY DEF Complete
  <1>2. \A r \in Players \ {p} : i \notin h[r].bag /\ i \notin h[r].gone
    BY <1>1 DEF Apart, Owned
  <1>3. h[p].bag \cap h[p].gone = {}
    BY DEF Account
  <1>4. \A r \in Players : h[r]["bag"] = h[r].bag /\ h[r]["gone"] = h[r].gone
    OBVIOUS
  <1>5. \E pf : Places(h, i) = {pf}
    <2>1. CASE i \in h[p].bag
      <3>1. Places(h, i) = {<<p, "bag">>}
        BY <1>2, <1>3, <1>4, <2>1 DEF Places
      <3> QED
        BY <3>1
    <2>2. CASE i \in h[p].gone
      <3>1. Places(h, i) = {<<p, "gone">>}
        BY <1>2, <1>3, <1>4, <2>2 DEF Places
      <3> QED
        BY <3>1
    <2> QED
      BY <1>1, <2>1, <2>2 DEF Owned
  <1> QED
    BY <1>5, FS_Singleton

(***************************************************************************)
(* Every item is in exactly one place, in memory and in the database,      *)
(* until goods are exchanged that CanStoreItems lets pass though they do   *)
(* not fit together, by slots or by the limit of a kind: whatever fits,    *)
(* moveItems moves, slot by slot, without losing or doubling it.           *)
(***************************************************************************)
THEOREM ItemsAreConserved == Spec => []ItemsConserved
  <1>1. GoldInv /\ Books => ItemsConserved
    BY BooksIntact, OnePlace DEF Intact, ItemsConserved
  <1> QED
    BY <1>1, InitTrade, NextTrade, InitGold, NextGold,
       InitCapacity, NextCapacity, InitBooks, NextBooks, PTL DEF Spec

(***************************************************************************)
(* No trade creates gold, and none destroys any unless gold is cut off at  *)
(* the most a player can have.                                             *)
(***************************************************************************)
THEOREM GoldIsConserved == Spec => []GoldConserved
  <1>1. GoldInv /\ Books => GoldConserved
    BY BooksIntact DEF Intact, Balance, GoldConserved
  <1> QED
    BY <1>1, InitTrade, NextTrade, InitGold, NextGold,
       InitCapacity, NextCapacity, InitBooks, NextBooks, PTL DEF Spec

\* What a player gains was in the traded slots of its partner.
LEMMA ItemsAgreed ==
  ASSUME TradeInv, GoldInv, CapacityInv, Books, [Next]_vars, NEW r \in Players,
         NEW i \in has'[r].bag \ has[r].bag, has'[r] # saved[r]
  PROVE  GivesTo(partner[r], r) /\ \E s \in TradedSlots : offer[partner[r]].slots[s] = i
  <1>1. has'[r] # has[r] /\ has' # has
    OBVIOUS
  <1>2. ASSUME NEW p \in Players, HandleAcceptTrade(p)
        PROVE  GivesTo(partner[r], r) /\ \E s \in TradedSlots : offer[partner[r]].slots[s] = i
    <2> DEFINE q == partner[p]
    <2>1. partner[p] # None /\ Exchange(p, q)
      BY <1>1, <1>2 DEF HandleAcceptTrade
    <2>2. Intact(has, capped, misfit)
      BY BooksIntact
    <2>3. /\ \A x \in Players \ {p, q} : has'[x] = has[x]
          /\ has'[p].bag \subseteq has[p].bag \cup Goods(q)
          /\ has'[q].bag \subseteq has[q].bag \cup Goods(p)
      BY <2>1, <2>2, ExchangeAccounts
    <2>4. q \in Players /\ partner[q] = p /\ q # None /\ p # None
      BY <2>1, Partners
    <2>5. accepted[q] /\ seen[q] = <<offer[q], offer[p]>>
      BY <2>1, <2>4 DEF Exchange, TradeInv, AcceptIsForThisOffer
    <2>6. \A x \in Players : \A g \in Goods(x) : \E s \in TradedSlots : offer[x].slots[s] = g
      BY HeldFacts DEF Goods
    <2>7. CASE r = p
      <3>1. i \in Goods(q)
        BY <2>3, <2>7
      <3> QED
        BY <2>4, <2>5, <2>6, <2>7, <3>1 DEF GivesTo
    <2>8. CASE r = q
      <3>1. i \in Goods(p)
        BY <2>3, <2>8
      <3> QED
        BY <1>2, <2>4, <2>6, <2>8, <3>1 DEF GivesTo
    <2> QED
      BY <1>1, <2>3, <2>7, <2>8
  <1>3. ASSUME NEW p \in Players, Handle(p), ~HandleAcceptTrade(p) PROVE FALSE
    BY <1>1, <1>3 DEF Handle, HandleInitiateTrade, HandleSetTradeItem, HandleClearTradeItem,
                HandleSetTradeGold, SetSpell, HandleUnacceptTrade, TradeCancel
  <1>4. Account(has[r]) /\ has[r] \in Holding
    BY DEF Books, Account
  <1>5. ASSUME NEW p \in Players, Spend(p) PROVE FALSE
    <2>1. has'[r] = IF r = p THEN [has[p] EXCEPT !.money = @ - 1, !.spent = @ + 1] ELSE has[r]
      BY <1>5 DEF Spend, GoldInv
    <2>2. r = p => has'[r].bag = has[r].bag
      BY <1>4, <2>1 DEF Holding
    <2> QED
      BY <1>1, <2>1, <2>2
  <1>6. ASSUME NEW p \in Players, NEW j \in Perishable, DestroyItem(p, j) PROVE FALSE
    <2>1. has'[r] = IF r = p THEN [has[p] EXCEPT !.bag = @ \ {j}, !.gone = @ \cup {j}] ELSE has[r]
      BY <1>6 DEF DestroyItem, GoldInv
    <2>2. r = p => has'[r].bag = has[r].bag \ {j}
      BY <1>4, <2>1 DEF Holding
    <2> QED
      BY <1>1, <2>1, <2>2
  <1>7. ASSUME NEW p \in Players, Login(p) PROVE FALSE
    <2>1. has'[r] = IF r = p THEN saved[p] ELSE has[r]
      BY <1>7 DEF Login, GoldInv
    <2> QED
      BY <1>1, <2>1
  <1>8. ~Crash
    BY DEF Crash
  <1>9. ~(\E p \in Players : SaveToDB(p) \/ LogoutPlayer(p)) /\ ~ExecuteSave /\ ~UNCHANGED vars
        /\ ~\E j \in Bindable : Bind(j)
    BY <1>1 DEF SaveToDB, LogoutPlayer, ExecuteSave, Bind, vars
  <1> QED
    BY <1>2, <1>3, <1>5, <1>6, <1>7, <1>8, <1>9 DEF Next

(***************************************************************************)
(* Nobody gains an item but from its partner, out of the traded slots, and *)
(* only by an exchange the partner accepts in this step or accepted for    *)
(* exactly these offers.                                                   *)
(***************************************************************************)
THEOREM ItemsOnlyAsAgreed == Spec => OnlyAgreedItems
  <1>1. TradeInv /\ GoldInv /\ CapacityInv /\ Books /\ [Next]_vars =>
            [\A p \in Players : \A i \in has'[p].bag \ has[p].bag :
                has'[p] # saved[p] =>
                    GivesTo(partner[p], p) /\ \E s \in TradedSlots : offer[partner[p]].slots[s] = i]_vars
    BY ItemsAgreed
  <1> QED
    BY <1>1, InitTrade, NextTrade, InitGold, NextGold,
       InitCapacity, NextCapacity, InitBooks, NextBooks, PTL DEF Spec, OnlyAgreedItems
=============================================================================
