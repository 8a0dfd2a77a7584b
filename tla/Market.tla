------------------------------- MODULE Market -------------------------------
(***************************************************************************)
(* What players rely on when they use mail and the auction house: every    *)
(* transfer is at once and complete.  There are no letters, no queues and  *)
(* no saves: gold is in a purse or bid on a lot, an item belongs to a      *)
(* player or is for sale, and the death of the process sets everything     *)
(* back to an earlier time.                                                *)
(***************************************************************************)
EXTENDS Integers

CONSTANTS Players, Items,
    None,           \* no player
    Deposit,        \* what a seller pays, and has back with the sale
    CutPercent,     \* the share of the auction house in a sale
    Width           \* how many values the product is taken from

VARIABLES
    purse,     \* player -> its gold
    belongs,   \* item -> the player it belongs to, None for sale or gone
    lots,      \* item for sale -> its seller, highest bidder (or None) and bid
    deaths

vars == <<purse, belongs, lots, deaths>>

\* The share of the house is no more than CutPercent: it wraps for the largest bids.
Cut(bid) == ((CutPercent * bid) % Width) \div 100

Pay(pu, p, n) == [pu EXCEPT ![p] = @ - n]
Earn(pu, p, n) == IF p = None THEN pu ELSE [pu EXCEPT ![p] = @ + n]

Goods(p) == {i \in Items : belongs[i] = p}

\* A gift, with a fee of the giver.
Give(p, q) ==
    \E money \in 0 .. purse[p], gifts \in SUBSET Goods(p) :
    \E fee \in 0 .. purse[p] - money :
        /\ purse' = Earn(Pay(purse, p, money + fee), q, money)
        /\ belongs' = [i \in Items |-> IF i \in gifts THEN q ELSE belongs[i]]
        /\ UNCHANGED <<lots, deaths>>

Without(trash) == [i \in Items |-> IF i \in trash THEN None ELSE belongs[i]]

\* A player throws something away, or cannot carry all the money he takes.
Discard(p) ==
    \E money \in 0 .. purse[p], trash \in SUBSET Goods(p) :
        /\ purse' = Pay(purse, p, money)
        /\ belongs' = Without(trash)
        /\ UNCHANGED <<lots, deaths>>

\* p pays what q asks for an item, and may throw something away as well.
Buy(p, q) ==
    \E i \in Items, money \in 1 .. purse[p], trash \in SUBSET Goods(p) :
    \E lost \in 0 .. purse[p] - money :
        /\ belongs[i] = q
        /\ purse' = Earn(Pay(purse, p, money + lost), q, money)
        /\ belongs' = [Without(trash) EXCEPT ![i] = p]
        /\ UNCHANGED <<lots, deaths>>

Sell(p, i) ==
    /\ belongs[i] = p /\ purse[p] >= Deposit
    /\ purse' = Pay(purse, p, Deposit)
    /\ belongs' = [belongs EXCEPT ![i] = None]
    /\ lots' = [j \in DOMAIN lots \cup {i} |->
                  IF j = i THEN [owner |-> p, bidder |-> None, bid |-> 0] ELSE lots[j]]
    /\ UNCHANGED deaths

\* The previous bidder has its gold back as soon as it is outbid.
AfterBid(p, i, n) == Pay(Earn(purse, lots[i].bidder, lots[i].bid), p, n)
MayBid(p, i, n) ==
    i \in DOMAIN lots /\ lots[i].owner # p /\ lots[i].bid < n /\ n <= purse[p]

Bid(p, i) ==
    \E n \in 1 .. purse[p] :
        /\ MayBid(p, i, n)
        /\ purse' = AfterBid(p, i, n)
        /\ lots' = [lots EXCEPT ![i].bidder = p, ![i].bid = n]
        /\ UNCHANGED <<belongs, deaths>>

Closed(i) == [j \in DOMAIN lots \ {i} |-> lots[j]]

Sold(pu, p, i, n) ==
    /\ purse' = Earn(pu, lots[i].owner, n + Deposit - Cut(n))
    /\ belongs' = [belongs EXCEPT ![i] = p]
    /\ lots' = Closed(i)
    /\ UNCHANGED deaths

BuyOut(p, i) == \E n \in 1 .. purse[p] : MayBid(p, i, n) /\ Sold(AfterBid(p, i, n), p, i, n)

\* The auction ends: the highest bidder gets the item, or the seller has it back.
Win(i) ==
    /\ i \in DOMAIN lots /\ lots[i].bid > 0
    /\ Sold(purse, lots[i].bidder, i, lots[i].bid)

Withdraw(i, pu) ==
    /\ purse' = pu
    /\ belongs' = [belongs EXCEPT ![i] = lots[i].owner]
    /\ lots' = Closed(i)
    /\ UNCHANGED deaths

Expire(i) == i \in DOMAIN lots /\ lots[i].bid = 0 /\ Withdraw(i, purse)

Cancel(i) ==
    /\ i \in DOMAIN lots
    /\ Withdraw(i, Pay(Earn(purse, lots[i].bidder, lots[i].bid), lots[i].owner, Cut(lots[i].bid)))

Rollback == deaths' = deaths + 1

Next ==
    \/ \E p, q \in Players : p # q /\ (Give(p, q) \/ Buy(p, q))
    \/ \E p \in Players : Discard(p)
    \/ \E p \in Players, i \in Items : Sell(p, i) \/ Bid(p, i) \/ BuyOut(p, i)
    \/ \E i \in Items : Win(i) \/ Expire(i) \/ Cancel(i)
    \/ Rollback

Spec == [][Next]_vars
=============================================================================
