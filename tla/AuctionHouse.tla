---------------------------- MODULE AuctionHouse ----------------------------
(***************************************************************************)
(* The auction house (game/AuctionHouse) on top of mail, by which sellers  *)
(* and bidders get their gold and items.  Auctions are in memory and in    *)
(* the table `auction`; an item for sale is with the AuctionHouseMgr.  All *)
(* auction opcodes are THREADUNSAFE, and the update is a step of the world *)
(* thread as well.                                                         *)
(***************************************************************************)
EXTENDS Mail

CONSTANTS
    CutPercent,     \* AuctionHouseEntry::cutPercent
    Prices          \* bound: the bids and buyout prices players name

ASSUME AuctionAssumption == CutPercent \in 0 .. 100 /\ Prices \subseteq 1 .. MaxMoney

VARIABLES
    auctions,   \* AuctionsMap
    aitems      \* mAitems, the items for sale

vars == <<mailVars, auctions, aitems>>

Init == MailInit /\ auctions = {} /\ aitems = {}
-----------------------------------------------------------------------------
\* The product is a uint32; the rest is done in floats, and exact for small bids.
GetAuctionCut(bid) == ((CutPercent * bid) % Width) \div 100
GetAuctionOutBid(bid) == IF bid \div 100 = 0 THEN 1 ELSE (bid \div 100) * 5

AuctionMail(n, to, money, item) == NewMail(n, "auction", None, to, money, 0, item, "plain")

\* The letters of one handler and the transactions that write them.
Posted(ms) == [k \in DOMAIN ms |-> <<InsertMail(ms[k])>>]
Send(ms) ==
    /\ CanMail(Len(ms))
    /\ box' = Delivered(box, Range(ms))
    /\ mailId' = mailId + Len(ms)

\* AddAuction: everything in one transaction.
HandleAuctionSellItem(p, i, startbid, buyout) ==
    /\ where[p] = "online" /\ i \in has[p].items /\ i \notin aitems
    /\ has[p].gold >= Deposit
    /\ LET a == [item |-> i, owner |-> p, bidder |-> None, bid |-> 0,
                 startbid |-> startbid, buyout |-> buyout]
           g == ModifyMoney(has[p].gold, -Deposit)
       IN  /\ has' = [has EXCEPT ![p] = [gold |-> g, items |-> @.items \ {i}]]
           /\ auctions' = auctions \cup {a}
           /\ aitems' = aitems \cup {i}
           /\ Commit("auction", <<<<DeleteFromInventory(i), InsertAuction(a), SaveGold(p, g, 0)>>>>)
    /\ UNCHANGED <<where, box, answer, mailId, saved, within, deaths>>

\* SendAuctionOutbiddedMail
OutbiddedMail(a, p) ==
    IF a.bidder \in {None, p} THEN <<>> ELSE <<AuctionMail(0, a.bidder, a.bid, None)>>

\* Faulty variant of WinningMails: the deposit is forgotten.
WinningMailsWithoutDeposit(a, n) ==
    <<AuctionMail(n, a.owner, a.bid - GetAuctionCut(a.bid), None),
      AuctionMail(n + 1, a.bidder, 0, a.item)>>

\* SendAuctionSuccessfulMail, SendAuctionWonMail
WinningMails(a, n) ==
    <<AuctionMail(n, a.owner, a.bid + Deposit - GetAuctionCut(a.bid), None),
      AuctionMail(n + 1, a.bidder, 0, a.item)>>

\* Faulty variant of Conclude: the auction is deleted first.
ConcludeFirst(ms, stmts) == Commit("auction", <<stmts>> \o Posted(ms))

\* The letters first, then the auction is deleted.
Conclude(ms, stmts) == Commit("auction", Posted(ms) \o <<stmts>>)

\* Faulty variant of RemoveAuction: RemoveAItem is forgotten.
RemoveAuctionOnly(a) ==
    /\ auctions' = auctions \ {a}
    /\ aitems' = aitems

RemoveAuction(a) ==
    /\ auctions' = auctions \ {a}
    /\ aitems' = aitems \ {a.item}

\* AuctionEntry::UpdateBid.  The previous bidder is repaid; the one who raises
\* its own bid pays the difference; the buyout price ends the auction.
UpdateBid(p, a, price) ==
    LET newbid == IF a.buyout > 0 /\ price > a.buyout THEN a.buyout ELSE price
        g == ModifyMoney(has[p].gold, -(IF a.bidder = p THEN newbid - a.bid ELSE newbid))
        b == [a EXCEPT !.bidder = p, !.bid = newbid]
        outbidded == OutbiddedMail(a, p)
        letters == outbidded \o WinningMails(b, Len(outbidded))
    IN  /\ has' = [has EXCEPT ![p].gold = g]
        /\ \/ /\ newbid < a.buyout \/ a.buyout = 0
              /\ Send(outbidded)
              /\ auctions' = (auctions \ {a}) \cup {b}
              /\ aitems' = aitems
              /\ Conclude(outbidded, <<UpdateAuction(b), SaveGold(p, g, 0)>>)
           \/ /\ newbid = a.buyout
              /\ Send(letters)
              /\ RemoveAuction(a)
              /\ Conclude(letters, <<DeleteAuction(a.item, GetAuctionCut(newbid)), SaveGold(p, g, 0)>>)

\* An auction may have run out already, as long as no update has noticed.
HandleAuctionPlaceBid(p, a, price) ==
    /\ where[p] = "online" /\ a.owner # p
    /\ price > a.bid
    /\ (a.buyout > 0 /\ price >= a.buyout) \/ price >= a.bid + GetAuctionOutBid(a.bid)
    /\ price <= has[p].gold /\ price >= a.startbid
    /\ UpdateBid(p, a, price)
    /\ UNCHANGED <<where, answer, saved, within, deaths>>

\* SendAuctionCancelledToBidderMail, and the item for its owner
CancelledMails(p, a) ==
    LET repaid == IF a.bid > 0 THEN <<AuctionMail(0, a.bidder, a.bid, None)>> ELSE <<>>
    IN repaid \o <<AuctionMail(Len(repaid), p, 0, a.item)>>

HandleAuctionRemoveItem(p, a) ==
    LET cut == GetAuctionCut(a.bid)
        g == ModifyMoney(has[p].gold, -cut)
        letters == CancelledMails(p, a)
    IN  /\ where[p] = "online" /\ a.owner = p /\ a.item \in aitems
        /\ a.bid > 0 => has[p].gold >= cut
        /\ has' = [has EXCEPT ![p].gold = g]
        /\ Send(letters)
        /\ RemoveAuction(a)
        /\ Conclude(letters, <<DeleteAuction(a.item, Deposit), SaveGold(p, g, cut)>>)
        /\ UNCHANGED <<where, answer, saved, within, deaths>>

\* AuctionHouseObject::Update: an auction has run out.
Update(a) ==
    LET letters == IF a.bid > 0 THEN WinningMails(a, 0)
                   ELSE <<AuctionMail(0, a.owner, 0, a.item)>>
    IN  /\ Send(letters)
        /\ RemoveAuction(a)
        /\ Conclude(letters,
                    <<DeleteAuction(a.item, IF a.bid > 0 THEN GetAuctionCut(a.bid) ELSE Deposit)>>)
        /\ UNCHANGED <<where, has, answer, saved, within, deaths>>

\* LoadAuctionItems, LoadAuctions
Restart ==
    /\ Die
    /\ auctions' = saved.auction
    /\ aitems' = {a.item : a \in saved.auction}

Next ==
    \/ MailStep /\ UNCHANGED <<auctions, aitems>>
    \/ \E p \in Players : \E i \in has[p].items, s \in Prices, b \in Prices \cup {0} :
          HandleAuctionSellItem(p, i, s, b)
    \/ \E a \in auctions : \/ \E p \in Players, price \in Prices : HandleAuctionPlaceBid(p, a, price)
                           \/ \E p \in Players : HandleAuctionRemoveItem(p, a)
                           \/ Update(a)
    \/ Restart

Spec == Init /\ [][Next]_vars
-----------------------------------------------------------------------------
(***************************************************************************)
(* Properties.                                                             *)
(***************************************************************************)
\* Types; and what is for sale in memory is what the table will say.
TypeOK ==
    /\ MailTypeOK
    /\ auctions \subseteq Auctions
    /\ aitems = {a.item : a \in auctions}
    /\ auctions = written.auction

(***************************************************************************)
(* The handlers, letters and saves implement the market: who is outbid has *)
(* its gold back at once, the winner pays and gets the item, the seller    *)
(* gets the bid or the item, COD is paid exactly when the item is taken,   *)
(* and nothing else moves gold or items.  A letter counts as delivered     *)
(* when it is sent; an item sent COD belongs to its sender until it is     *)
(* paid.                                                                   *)
(***************************************************************************)
BelongsTo(i) ==
    LET inBag == {p \in Players : i \in written.inventory[p]}
        inMail == {m \in written.mail : m.item = i}
    IN  CASE inBag # {} -> CHOOSE p \in inBag : TRUE
          [] inBag = {} /\ inMail # {} ->
                LET m == CHOOSE x \in inMail : TRUE IN IF m.cod > 0 THEN m.sender ELSE m.receiver
          [] OTHER -> None

Wealth == [p \in Players |->
              written.gold[p] + MoneyOf({m \in written.mail : m.receiver = p})]
Belongings == [i \in Items |-> BelongsTo(i)]
ForSale == [i \in aitems |->
               LET a == CHOOSE x \in auctions : x.item = i
               IN [owner |-> a.owner, bidder |-> a.bidder, bid |-> a.bid]]

TheMarket == INSTANCE Market WITH purse <- Wealth, belongs <- Belongings, lots <- ForSale
ImplementsMarket == TheMarket!Spec
=============================================================================
