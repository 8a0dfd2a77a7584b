-------------------------------- MODULE Trade --------------------------------
(***************************************************************************)
(* Trading between players (game/Trade, TradeData in game/Entities): two   *)
(* players open a trade, put items, gold and a spell into it, and each     *)
(* accepts; the second acceptance exchanges everything and saves both      *)
(* players in one transaction.  The handlers are THREADUNSAFE opcodes, so  *)
(* each is one step of the world thread.                                   *)
(*                                                                         *)
(* Saves go through the write-behind log of AsyncDatabase: they reach the  *)
(* database in order, each batch entirely, and a crash loses the pending   *)
(* ones.                                                                   *)
(***************************************************************************)
EXTENDS Integers, FiniteSets, Sequences, Functions

CONSTANTS
    Players, Items,
    None,           \* nobody, no item, no spell
    Own,            \* a spell cast without an item
    StartBag,       \* player -> the items it owns at first
    StartMoney,     \* the gold every player has at first
    MaxMoney,       \* MAX_MONEY_AMOUNT
    Capacities,     \* how many inventory slots the players may have: functions
    Entry,          \* item -> its prototype
    MaxCount,       \* prototype -> how many of it a player may have, 0 for any number
    Stackable,      \* the prototypes that come in stacks
    TradedCount,    \* TRADE_SLOT_TRADED_COUNT
    Bindable,       \* the items that may become impossible to trade
    Perishable,     \* the items that may be sold, destroyed or used up
    Spells,         \* how a spell may be put into a trade: Own or an item
    MaxPending      \* bound: saves not yet in the database

ASSUME TradeAssumption ==
    /\ None \notin Players \cup Items \cup {Own} /\ Own \notin Items
    /\ StartBag \in [Players -> SUBSET Items]
    /\ MaxMoney \in Nat /\ StartMoney \in 0 .. MaxMoney /\ TradedCount \in Nat
    /\ Bindable \cup Perishable \subseteq Items /\ Spells \subseteq Items \cup {Own}
    /\ IsFiniteSet(Players) /\ IsFiniteSet(Items)
    /\ Capacities \subseteq [Players -> Nat] /\ DOMAIN Entry = Items
    /\ \A i \in Items : MaxCount[Entry[i]] \in Nat
    /\ \A i \in Items : \E p \in Players : i \in StartBag[p]
    /\ \A p, q \in Players : p # q => StartBag[p] \cap StartBag[q] = {}

VARIABLES
    capacity,  \* player -> its inventory slots; it stays as it is
    online,
    has,       \* player -> its gold and items, in memory
    bound,     \* the items CanBeTraded refuses
    partner,   \* player -> the trader of its m_trade, None without one
    offer,     \* player -> the contents of its m_trade
    accepted,  \* player -> m_accepted of its m_trade
    seen,      \* history: player -> the two offers its acceptance was given for
    pending,   \* saves queued for the database
    saved,     \* player -> its gold and items in the database
    capped,    \* history: gold was cut off at MaxMoney
    misfit     \* history: goods were exchanged that do not fit

trades == <<partner, offer, accepted, seen>>
vars == <<capacity, online, has, bound, trades, pending, saved, capped, misfit>>

TradedSlots == 1 .. TradedCount
NonTraded == TradedCount + 1
Slots == 1 .. NonTraded

\* spent and gone remember what left the game in other ways than by trading.
Holding == [money : 0 .. MaxMoney, spent : Nat, bag : SUBSET Items, gone : SUBSET Items]
Offer == [slots : [Slots -> Items \cup {None}], money : 0 .. MaxMoney,
          spell : Items \cup {Own, None}]
EmptyOffer == [slots |-> [s \in Slots |-> None], money |-> 0, spell |-> None]

Init ==
    /\ capacity \in Capacities
    /\ online = [p \in Players |-> TRUE]
    /\ has = [p \in Players |-> [money |-> StartMoney, spent |-> 0,
                                 bag |-> StartBag[p], gone |-> {}]]
    /\ saved = has
    /\ bound = {}
    /\ partner = [p \in Players |-> None]
    /\ offer = [p \in Players |-> EmptyOffer]
    /\ accepted = [p \in Players |-> FALSE]
    /\ seen = [p \in Players |-> None]
    /\ pending = <<>>
    /\ capped = FALSE
    /\ misfit = FALSE
-----------------------------------------------------------------------------
(***************************************************************************)
(* TradeData.                                                              *)
(***************************************************************************)
\* The m_accepted of all trades become acc; nobody saw an offer anew.
SetAccepted(acc) ==
    /\ accepted' = acc
    /\ seen' = [p \in Players |-> IF acc[p] THEN seen[p] ELSE None]

\* Faulty variant of Reconsider: only the player that changes its offer does.
ReconsiderAlone(p, o) ==
    /\ offer' = [offer EXCEPT ![p] = o]
    /\ SetAccepted([accepted EXCEPT ![p] = FALSE])
    /\ UNCHANGED partner

\* A changed offer of p: both have to accept again.
Reconsider(p, o) ==
    /\ offer' = [offer EXCEPT ![p] = o]
    /\ SetAccepted([accepted EXCEPT ![p] = FALSE, ![partner[p]] = FALSE])
    /\ UNCHANGED partner

\* TradeData::GetItem: what left the inventory is not in the trade any more.
Held(p, s) == IF offer[p].slots[s] \in has[p].bag THEN offer[p].slots[s] ELSE None
Goods(p) == {Held(p, s) : s \in TradedSlots} \ {None}

\* Both m_trade are deleted.
CloseTrade(p, q) ==
    /\ partner' = [x \in Players |-> IF x \in {p, q} THEN None ELSE partner[x]]
    /\ offer' = [x \in Players |-> IF x \in {p, q} THEN EmptyOffer ELSE offer[x]]
    /\ SetAccepted([x \in Players |-> IF x \in {p, q} THEN FALSE ELSE accepted[x]])
-----------------------------------------------------------------------------
(***************************************************************************)
(* The handlers.                                                           *)
(***************************************************************************)
\* Faulty variant of HandleInitiateTrade: nobody asks whether q is busy.
HandleInitiateTradeBusy(p, q) ==
    /\ p # q /\ online[p] /\ online[q]
    /\ partner[p] = None
    /\ partner' = [partner EXCEPT ![p] = q, ![q] = p]
    /\ offer' = [offer EXCEPT ![p] = EmptyOffer, ![q] = EmptyOffer]
    /\ SetAccepted([accepted EXCEPT ![p] = FALSE, ![q] = FALSE])
    /\ UNCHANGED <<online, has, bound, pending, saved, capped, misfit>>

\* The death, stun, flight, faction and distance checks may refuse any trade.
HandleInitiateTrade(p, q) ==
    /\ p # q /\ online[p] /\ online[q]
    /\ partner[p] = None /\ partner[q] = None
    /\ partner' = [partner EXCEPT ![p] = q, ![q] = p]
    /\ offer' = [offer EXCEPT ![p] = EmptyOffer, ![q] = EmptyOffer]
    /\ SetAccepted([accepted EXCEPT ![p] = FALSE, ![q] = FALSE])
    /\ UNCHANGED <<online, has, bound, pending, saved, capped, misfit>>

\* Faulty variant of SetItem: the acceptance of the partner stands.
SetItemQuietly(p, s, i) ==
    /\ offer[p].slots[s] # i
    /\ offer' = [offer EXCEPT ![p].slots[s] = i, ![p].spell = None,
                              ![partner[p]].spell = IF s = NonTraded THEN None ELSE @]
    /\ SetAccepted([accepted EXCEPT ![p] = FALSE])
    /\ UNCHANGED partner

\* Putting an item into a slot or, with None, clearing it.  A change of the
\* slot that is not traded removes the partner's spell, any change the own one.
SetItem(p, s, i) ==
    /\ offer[p].slots[s] # i
    /\ offer' = [offer EXCEPT ![p].slots[s] = i, ![p].spell = None,
                              ![partner[p]].spell = IF s = NonTraded THEN None ELSE @]
    /\ SetAccepted([accepted EXCEPT ![p] = FALSE, ![partner[p]] = FALSE])
    /\ UNCHANGED partner

HandleSetTradeItem(p, s, i) ==
    /\ partner[p] # None
    /\ i \in has[p].bag
    /\ s # NonTraded => i \notin bound
    /\ \A t \in Slots : offer[p].slots[t] # i
    /\ SetItem(p, s, i)
    /\ UNCHANGED <<online, has, bound, pending, saved, capped, misfit>>

HandleClearTradeItem(p, s) ==
    /\ partner[p] # None
    /\ SetItem(p, s, None)
    /\ UNCHANGED <<online, has, bound, pending, saved, capped, misfit>>

HandleSetTradeGold(p, gold) ==
    /\ partner[p] # None
    /\ offer[p].money # gold /\ gold <= has[p].money
    /\ Reconsider(p, [offer[p] EXCEPT !.money = gold])
    /\ UNCHANGED <<online, has, bound, pending, saved, capped, misfit>>

\* Spell::CheckCast on the slot that is not traded: remembered in the trade.
SetSpell(p, spell) ==
    /\ partner[p] # None
    /\ Held(partner[p], NonTraded) # None
    /\ spell \in Items => spell \in has[p].bag
    /\ offer[p].spell # spell
    /\ Reconsider(p, [offer[p] EXCEPT !.spell = spell])
    /\ UNCHANGED <<online, has, bound, pending, saved, capped, misfit>>

HandleUnacceptTrade(p) ==
    /\ partner[p] # None
    /\ SetAccepted([accepted EXCEPT ![p] = FALSE])
    /\ UNCHANGED <<online, has, bound, partner, offer, pending, saved, capped, misfit>>

\* TradeCancel: by the cancel, busy and ignore opcodes, by moving away from the
\* partner and by taking a taxi.
TradeCancel(p) ==
    /\ partner[p] # None
    /\ CloseTrade(p, partner[p])
    /\ UNCHANGED <<online, has, bound, pending, saved, capped, misfit>>
-----------------------------------------------------------------------------
(***************************************************************************)
(* HandleAcceptTrade.                                                      *)
(***************************************************************************)
\* p accepts the offers as they are now.
Accepts(p) ==
    /\ accepted' = [accepted EXCEPT ![p] = TRUE]
    /\ seen' = [seen EXCEPT ![p] = <<offer[p], offer[partner[p]]>>]

\* Faulty variant of MoneyCovered: what p has now is not compared.
MoneyCoveredAtOffer(p) == offer[p].money <= MaxMoney

MoneyCovered(p) == offer[p].money <= has[p].money

AllTradable(p) == Goods(p) \cap bound = {}

\* The distance, the gold and the items are checked before anything else.
RefusedFarAway(p) ==
    SetAccepted([accepted EXCEPT ![p] = FALSE])

RefusedMoney(p, q) ==
    \/ ~MoneyCovered(p) /\ SetAccepted([accepted EXCEPT ![p] = FALSE])
    \/ /\ MoneyCovered(p) /\ ~MoneyCovered(q)
       /\ accepted' = [accepted EXCEPT ![p] = TRUE, ![q] = FALSE]
       /\ seen' = [seen EXCEPT ![p] = <<offer[p], offer[q]>>, ![q] = None]

RefusedItems(p, q) ==
    /\ MoneyCovered(p) /\ MoneyCovered(q)
    /\ ~(AllTradable(p) /\ AllTradable(q))
    /\ Accepts(p)

Agreeable(p, q) ==
    /\ MoneyCovered(p) /\ MoneyCovered(q)
    /\ AllTradable(p) /\ AllTradable(q)

\* The spell of p may pass: its target and cast item are there, and the cast
\* item is not flagged as being traded (Spell::CheckItems).
SpellReady(p, q) ==
    \/ offer[p].spell = None
    \/ /\ Held(q, NonTraded) # None
       /\ offer[p].spell \in Items => offer[p].spell \in has[p].bag \ Goods(p)

\* CheckCast may refuse any spell; my spell is looked at first.
RefusedSpell(p, q) ==
    /\ Agreeable(p, q) /\ accepted[q]
    /\ \/ offer[p].spell # None
          /\ Reconsider(p, [offer[p] EXCEPT !.spell = None])
       \/ offer[q].spell # None /\ SpellReady(p, q)
          /\ Reconsider(q, [offer[q] EXCEPT !.spell = None])

\* Player::_CanTakeMoreSimilarItems, for an item that joins n of its kind.
CanTakeMoreSimilarItems(n, i) == MaxCount[Entry[i]] # 0 => n < MaxCount[Entry[i]]

Similar(items, i) == Cardinality({j \in items : Entry[j] = Entry[i]})

\* Player::CanStoreItems counts as its own what the player itself is giving away, and
\* compares each item with MaxCount as if it came alone.
TakesEach(p, q) == \A i \in Goods(q) : CanTakeMoreSimilarItems(Similar(has[p].bag, i), i)

\* The slots of the own traded items count as empty ones.
HasRoom(p, q, shared) ==
    Cardinality(has[p].bag \ Goods(p)) + Cardinality(Goods(q)) - Cardinality(shared) <= capacity[p]

\* But once the item of slot first[t] is to go where own[t] lies, the table of the room
\* has only a one there, and a stack like own[t] is still taken for an addition to it.
Sharing(p, q, shared, first, own) ==
    \A t \in shared :
        /\ Held(q, t) # None /\ Entry[Held(q, t)] = Entry[own[t]] /\ Entry[own[t]] \in Stackable
        /\ first[t] < t /\ Held(q, first[t]) # None /\ Entry[Held(q, first[t])] # Entry[own[t]]

\* It depends on the order of the bag whether a slot is shared.
CanStoreItems(p, q) ==
    /\ TakesEach(p, q)
    /\ \E shared \in SUBSET TradedSlots :
          /\ HasRoom(p, q, shared)
          /\ \E first \in Injection(shared, TradedSlots \ shared), own \in Injection(shared, Goods(p)) :
                 Sharing(p, q, shared, first, own)

MustStoreItems(p, q) == TakesEach(p, q) /\ HasRoom(p, q, {})

RefusedSpace(p, q) ==
    /\ Agreeable(p, q) /\ accepted[q]
    /\ SpellReady(p, q) /\ SpellReady(q, p)
    /\ ~(MustStoreItems(p, q) /\ MustStoreItems(q, p))
    /\ SetAccepted([accepted EXCEPT ![p] = FALSE, ![q] = FALSE])

\* What a player can be given an item into: its items, and copies of some.
Fits(p, side, reserved, i) ==
    \/ i = None
    \/ /\ Cardinality(side.items) + Cardinality(side.copies) + reserved < capacity[p]
       /\ CanTakeMoreSimilarItems(Similar(side.items, i) + Similar(side.copies, i), i)

Stored(side, i) == [items |-> side.items \cup ({i} \ {None}), copies |-> side.copies]

\* An item goes back to its owner: into the places chosen for the partner's item, if
\* that one fitted, and a further one.  StoreItem puts a copy of the item into each of
\* them but the last; without a further place the item is lost.
Returned(p, side, fitted, i) ==
    LET reserved == IF fitted THEN 1 ELSE 0
    IN IF i = None \/ ~Fits(p, side, reserved, i) THEN side
       ELSE [items |-> side.items \cup {i},
             copies |-> IF fitted THEN side.copies \cup {i} ELSE side.copies]

\* One slot: its items change hands, or both go back.
Swap(p, q, b, n) ==
    LET mine == Held(p, n)
        his  == Held(q, n)
        take == Fits(p, b.mine, 0, his)
        give == Fits(q, b.his, 0, mine)
    IN IF take /\ give
       THEN [mine |-> Stored(b.mine, his), his |-> Stored(b.his, mine)]
       ELSE [mine |-> Returned(p, b.mine, take /\ his # None, mine),
             his  |-> Returned(q, b.his, give /\ mine # None, his)]

\* What is left when the goods have been taken out.
Kept(p) == [items |-> has[p].bag \ Goods(p), copies |-> {}]

\* moveItems, slot by slot.  (Copies are not followed beyond the exchange.)
MoveItems(p, q) ==
    LET bags[n \in 0 .. TradedCount] ==
            IF n = 0 THEN [mine |-> Kept(p), his |-> Kept(q)] ELSE Swap(p, q, bags[n - 1], n)
    IN bags[TradedCount]

\* The goods of q do not fit together into what p keeps.
Misfit(p, q) ==
    LET after == (has[p].bag \ Goods(p)) \cup Goods(q)
    IN \/ ~HasRoom(p, q, {})
       \/ \E i \in Goods(q) : ~CanTakeMoreSimilarItems(Similar(after \ {i}, i), i)

\* Player::ModifyMoney, first by -give and then by get.
ModifyMoney(money, give, get) ==
    LET left == IF money > give THEN money - give ELSE 0
    IN IF left < MaxMoney - get THEN left + get ELSE MaxMoney

\* Faulty variant of SaveBoth: the players are saved one by one.
SaveBothSeparately(p, q) ==
    pending' = pending \o <<[x \in {p} |-> has'[x]], [x \in {q} |-> has'[x]]>>

\* One transaction with the inventory and the gold of both.
SaveBoth(p, q) == pending' = Append(pending, [x \in {p, q} |-> has'[x]])

Exchange(p, q) ==
    /\ Agreeable(p, q) /\ accepted[q]
    /\ SpellReady(p, q) /\ SpellReady(q, p)
    /\ CanStoreItems(p, q) /\ CanStoreItems(q, p)
    /\ Len(pending) < MaxPending
    /\ LET mine == offer[p].money
           his  == offer[q].money
           bags == MoveItems(p, q)
       IN /\ has' = [has EXCEPT
                ![p].bag = bags.mine.items, ![p].money = ModifyMoney(@, mine, his),
                ![q].bag = bags.his.items,  ![q].money = ModifyMoney(@, his, mine)]
          /\ capped' = (capped \/ has[p].money - mine + his > MaxMoney
                               \/ has[q].money - his + mine > MaxMoney)
          /\ misfit' = (misfit \/ Misfit(p, q) \/ Misfit(q, p))
    /\ SaveBoth(p, q)
    /\ CloseTrade(p, q)

\* p accepts; without the acceptance of q that is all.
HandleAcceptTrade(p) ==
    /\ partner[p] # None /\ partner[partner[p]] # None
    /\ LET q == partner[p]
       IN \/ /\ \/ RefusedFarAway(p) /\ UNCHANGED <<partner, offer>>
                \/ RefusedMoney(p, q) /\ UNCHANGED <<partner, offer>>
                \/ RefusedItems(p, q) /\ UNCHANGED <<partner, offer>>
                \/ Agreeable(p, q) /\ ~accepted[q] /\ Accepts(p) /\ UNCHANGED <<partner, offer>>
                \/ RefusedSpell(p, q)
                \/ RefusedSpace(p, q) /\ UNCHANGED <<partner, offer>>
             /\ UNCHANGED <<has, pending, capped, misfit>>
          \/ Exchange(p, q)
    /\ UNCHANGED <<online, bound, saved>>
-----------------------------------------------------------------------------
(***************************************************************************)
(* What else happens to the players while they trade.                      *)
(***************************************************************************)
\* p pays somebody else, or loses, sells or uses up an item.
Spend(p) ==
    /\ online[p] /\ has[p].money > 0
    /\ has' = [has EXCEPT ![p].money = @ - 1, ![p].spent = @ + 1]
    /\ UNCHANGED <<online, bound, trades, pending, saved, capped, misfit>>

DestroyItem(p, i) ==
    /\ online[p] /\ i \in has[p].bag
    /\ has' = [has EXCEPT ![p].bag = @ \ {i}, ![p].gone = @ \cup {i}]
    /\ UNCHANGED <<online, bound, trades, pending, saved, capped, misfit>>

\* An item becomes one that cannot be traded.
Bind(i) ==
    /\ i \notin bound
    /\ bound' = bound \cup {i}
    /\ UNCHANGED <<online, has, trades, pending, saved, capped, misfit>>

\* The periodic SaveToDB of one player.
SaveToDB(p) ==
    /\ online[p] /\ Len(pending) < MaxPending
    /\ pending' = Append(pending, [x \in {p} |-> has[x]])
    /\ UNCHANGED <<online, has, bound, trades, saved, capped, misfit>>

\* LogoutPlayer saves the player; its removal from the map cancels the trade.
LogoutPlayer(p) ==
    /\ online[p] /\ Len(pending) < MaxPending
    /\ pending' = Append(pending, [x \in {p} |-> has[x]])
    /\ online' = [online EXCEPT ![p] = FALSE]
    /\ IF partner[p] # None THEN CloseTrade(p, partner[p]) ELSE UNCHANGED trades
    /\ UNCHANGED <<has, bound, saved, capped, misfit>>

\* The player is loaded by queries queued behind all its saves.
Login(p) ==
    /\ ~online[p]
    /\ \A k \in 1 .. Len(pending) : p \notin DOMAIN pending[k]
    /\ has' = [has EXCEPT ![p] = saved[p]]
    /\ online' = [online EXCEPT ![p] = TRUE]
    /\ UNCHANGED <<bound, trades, pending, saved, capped, misfit>>

\* The database executes the oldest save.
ExecuteSave ==
    /\ pending # <<>>
    /\ saved' = [p \in Players |-> IF p \in DOMAIN Head(pending) THEN Head(pending)[p]
                                   ELSE saved[p]]
    /\ pending' = Tail(pending)
    /\ UNCHANGED <<online, has, bound, trades, capped, misfit>>

\* The process dies with what it has in memory.
Crash ==
    /\ online' = [p \in Players |-> FALSE]
    /\ has' = saved
    /\ pending' = <<>>
    /\ partner' = [p \in Players |-> None]
    /\ offer' = [p \in Players |-> EmptyOffer]
    /\ SetAccepted([p \in Players |-> FALSE])
    /\ UNCHANGED <<bound, saved, capped, misfit>>

Handle(p) ==
    \/ \E q \in Players : HandleInitiateTrade(p, q)
    \/ \E s \in Slots, i \in Items : HandleSetTradeItem(p, s, i)
    \/ \E s \in Slots : HandleClearTradeItem(p, s)
    \/ \E gold \in 0 .. MaxMoney : HandleSetTradeGold(p, gold)
    \/ \E spell \in Spells : SetSpell(p, spell)
    \/ HandleUnacceptTrade(p)
    \/ HandleAcceptTrade(p)
    \/ TradeCancel(p)

Next ==
    /\ \/ \E p \in Players : Handle(p)
       \/ \E p \in Players : Spend(p) \/ SaveToDB(p) \/ LogoutPlayer(p) \/ Login(p)
       \/ \E p \in Players, i \in Perishable : DestroyItem(p, i)
       \/ \E i \in Bindable : Bind(i)
       \/ ExecuteSave
       \/ Crash
    /\ UNCHANGED capacity

Spec == Init /\ [][Next]_vars
-----------------------------------------------------------------------------
TypeOK ==
    /\ capacity \in Capacities
    /\ online \in [Players -> BOOLEAN]
    /\ has \in [Players -> Holding] /\ saved \in [Players -> Holding]
    /\ bound \subseteq Items
    /\ partner \in [Players -> Players \cup {None}]
    /\ offer \in [Players -> Offer]
    /\ accepted \in [Players -> BOOLEAN]
    /\ \A p \in Players : seen[p] \in {None} \cup (Offer \X Offer)
    /\ \A k \in 1 .. Len(pending) :
           DOMAIN pending[k] \subseteq Players /\ \A p \in DOMAIN pending[k] : pending[k][p] \in Holding
    /\ capped \in BOOLEAN /\ misfit \in BOOLEAN

(***************************************************************************)
(* A trade always has two ends: the partner of a player is online and in   *)
(* a trade with that player, so no handler reaches a deleted TradeData or  *)
(* the trade of a third player.                                            *)
(***************************************************************************)
TradesArePaired ==
    \A p \in Players :
        partner[p] # None =>
            /\ partner[p] # p /\ online[p]
            /\ partner[partner[p]] = p

(***************************************************************************)
(* An acceptance stands only as long as neither offer changes.             *)
(***************************************************************************)
AcceptIsForThisOffer ==
    \A p \in Players :
        accepted[p] => /\ partner[p] # None
                       /\ seen[p] = <<offer[p], offer[partner[p]]>>

(***************************************************************************)
(* Nobody gains anything against the will of the one who loses it: a       *)
(* player gets gold or an item only from its partner, who accepts in that  *)
(* step, or has accepted exactly the two offers that are exchanged; and    *)
(* gets no more than the gold of that offer and the items in its traded    *)
(* slots.  (Reloading the player from the database is no gain.)            *)
(***************************************************************************)
GivesTo(q, p) ==
    /\ q # None /\ partner[q] = p
    /\ HandleAcceptTrade(q) \/ (accepted[q] /\ seen[q] = <<offer[q], offer[p]>>)

OnlyAgreedGold ==
    [][\A p \in Players :
          has'[p].money > has[p].money /\ has'[p] # saved[p] =>
              GivesTo(partner[p], p)
              /\ has'[p].money <= has[p].money + offer[partner[p]].money]_vars

OnlyAgreedItems ==
    [][\A p \in Players : \A i \in has'[p].bag \ has[p].bag :
          has'[p] # saved[p] =>
              GivesTo(partner[p], p) /\ \E s \in TradedSlots : offer[partner[p]].slots[s] = i]_vars

(***************************************************************************)
(* Every item is in exactly one place, in memory and in the database: no   *)
(* trade loses or duplicates one, wherever the process dies, until goods   *)
(* are exchanged that do not fit together, which CanStoreItems lets pass.  *)
(***************************************************************************)
Places(h, i) == {pf \in Players \X {"bag", "gone"} : i \in h[pf[1]][pf[2]]}
ItemsConserved ==
    ~misfit => \A i \in Items : Cardinality(Places(has, i)) = 1 /\ Cardinality(Places(saved, i)) = 1

(***************************************************************************)
(* No trade creates gold, in memory or in the database, and none destroys  *)
(* any unless a player reaches the most it can have.                       *)
(***************************************************************************)
Gold(h) == SumFunction([p \in Players |-> h[p].money + h[p].spent])
Issued == StartMoney * Cardinality(Players)
GoldConserved ==
    /\ Gold(has) <= Issued /\ Gold(saved) <= Issued
    /\ ~capped => Gold(has) = Issued /\ Gold(saved) = Issued
=============================================================================
