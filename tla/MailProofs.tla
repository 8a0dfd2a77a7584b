------------------------------ MODULE MailProofs ------------------------------
(***************************************************************************)
(* Proofs about Mail and AuctionHouse: what is in memory is what the       *)
(* tables will say, nothing is lost or doubled wherever the process dies   *)
(* between two handlers, and AuctionHouse implements Market, for any       *)
(* number of players, items, letters and auctions.                         *)
(*                                                                         *)
(* What a death finds is what the delay thread has executed so far, so the *)
(* invariant is about the tables after each transaction that is still      *)
(* pending: a ledger with one page for each.  A page at which a handler    *)
(* ends is settled: everything is in it exactly once.  Only such a page is *)
(* ever loaded from, and the last page is one, on which all memory agrees. *)
(***************************************************************************)
EXTENDS AuctionHouse, Sums, SequenceTheorems, TLAPS

\* What a letter costs does not wrap, for the amounts that players send.
PlainAmounts == \A n \in Amounts \cup {0} : n + Postage < Width

\* Nor is there more gold than one player may hold, so that ModifyMoney never cuts
\* any off.
Roomy == Issued <= MaxMoney /\ PlainAmounts

\* The types of the tables, but letters may have more money than MaxMoney.
WideMails == [id : Nat, type : {"normal", "auction"}, sender : Players \cup {None},
              receiver : Players, money : Nat, cod : 0 .. Width - 1,
              item : Items \cup {None}, checked : {"plain", "returned", "payment"}]
GoldTable == [Players -> 0 .. MaxMoney]
InventoryTable == [Players -> SUBSET Items]
MailTable == SUBSET WideMails
AuctionTable == SUBSET Auctions
Fees == Nat
Trash == SUBSET Items
WideTables == [gold : GoldTable, inventory : InventoryTable, mail : MailTable,
               auction : AuctionTable, waste : [gold : Fees, items : Trash]]
\* Who gets a letter back, and who pays for a bid.
MailOk(m) == /\ m.type = "normal" => m.sender \in Players \ {m.receiver}
             /\ m.cod > 0 => m.type = "normal" /\ m.item # None /\ m.checked = "plain"
AuctionOk(a) == /\ a.bidder = None <=> a.bid = 0
                /\ a.buyout > 0 => a.bid < a.buyout

\* Where an item may be.
Bags(db, i) == {p \in Players : i \in db.inventory[p]}
Posts(db, i) == {m \in db.mail : m.item = i}
Lots(db, i) == {a \in db.auction : a.item = i}
One(s) == \E x : s = {x}
OnePlace(db, i) ==
    \/ One(Bags(db, i)) /\ Posts(db, i) = {} /\ Lots(db, i) = {} /\ i \notin db.waste.items
    \/ Bags(db, i) = {} /\ One(Posts(db, i)) /\ Lots(db, i) = {} /\ i \notin db.waste.items
    \/ Bags(db, i) = {} /\ Posts(db, i) = {} /\ One(Lots(db, i)) /\ i \notin db.waste.items
    \/ Bags(db, i) = {} /\ Posts(db, i) = {} /\ Lots(db, i) = {} /\ i \in db.waste.items

\* The tables after any transaction; next is the next mail id.
MailsOk(ms, next) ==
    /\ ms \in MailTable /\ IsFiniteSet(ms)
    /\ \A m \in ms : MailOk(m) /\ m.id < next
    /\ \A m, n \in ms : m.id = n.id => m = n
    /\ Roomy => \A m \in ms : m.money <= MaxMoney
SalesOk(sales) ==
    /\ sales \in AuctionTable /\ IsFiniteSet(sales)
    /\ \A a \in sales : AuctionOk(a)
Ok(db, next) == db \in WideTables /\ MailsOk(db.mail, next) /\ SalesOk(db.auction)

\* Between two handlers: nothing is lost, nothing is in two places.
Settled(db) ==
    /\ \A i \in Items : OnePlace(db, i)
    /\ Roomy => AllGold(db) = Issued

\* Nothing is lost, but things may be in more than one place.
Somewhere(db, i) ==
    Bags(db, i) # {} \/ Posts(db, i) # {} \/ Lots(db, i) # {} \/ i \in db.waste.items
Enough(db) ==
    /\ \A i \in Items : Somewhere(db, i)
    /\ Roomy => AllGold(db) >= Issued

Page(db, mark, next) ==
    /\ Ok(db, next)
    /\ mark = "none" => Settled(db)
    /\ mark = "auction" => Enough(db)

-----------------------------------------------------------------------------
(***************************************************************************)
(* The statements.                                                         *)
(***************************************************************************)
Rows(d, g, v, ms, sales, fees, trash) ==
    d = [gold |-> g, inventory |-> v, mail |-> ms, auction |-> sales,
         waste |-> [gold |-> fees, items |-> trash]]

LEMMA Columns ==
  ASSUME NEW db \in WideTables
  PROVE  /\ db.gold \in GoldTable /\ db.inventory \in InventoryTable /\ db.mail \in MailTable
         /\ db.auction \in AuctionTable /\ db.waste.gold \in Fees /\ db.waste.items \in Trash
  BY DEF WideTables

LEMMA TablesFacts ==
  ASSUME NEW db \in WideTables
  PROVE  /\ db.gold \in [Players -> 0 .. MaxMoney] /\ db.inventory \in [Players -> SUBSET Items]
         /\ db.mail \subseteq WideMails /\ db.auction \subseteq Auctions
         /\ db.waste.gold \in Nat /\ db.waste.items \subseteq Items
  BY Columns DEF GoldTable, InventoryTable, MailTable, AuctionTable, Fees, Trash

LEMMA RowsType ==
  ASSUME NEW d, NEW g, NEW v, NEW ms, NEW sales, NEW fees, NEW trash,
         Rows(d, g, v, ms, sales, fees, trash),
         g \in GoldTable, v \in InventoryTable, ms \in MailTable, sales \in AuctionTable,
         fees \in Fees, trash \in Trash
  PROVE  /\ d \in WideTables /\ d.gold = g /\ d.inventory = v /\ d.mail = ms
         /\ d.auction = sales /\ d.waste.gold = fees /\ d.waste.items = trash
  BY DEF WideTables, Rows

LEMMA ExecuteGold ==
  ASSUME NEW db \in WideTables, NEW p \in Players, NEW g \in 0 .. MaxMoney, NEW fee \in Nat,
         NEW d, d = Execute(db, SaveGold(p, g, fee))
  PROVE  /\ d \in WideTables /\ d.gold = [db.gold EXCEPT ![p] = g]
         /\ d.inventory = db.inventory /\ d.mail = db.mail /\ d.auction = db.auction
         /\ d.waste.gold = db.waste.gold + fee /\ d.waste.items = db.waste.items
  <1>1. Rows(d, [db.gold EXCEPT ![p] = g], db.inventory, db.mail, db.auction,
                db.waste.gold + fee, db.waste.items)
    BY DEF Execute, SaveGold, WideTables, Rows
  <1>2. [db.gold EXCEPT ![p] = g] \in GoldTable
    BY TablesFacts DEF GoldTable
  <1>3. db.waste.gold + fee \in Fees
    <2>1. db.waste.gold \in Nat
      BY TablesFacts
    <2> QED
      BY <2>1 DEF Fees
  <1> QED
    BY <1>1, <1>2, <1>3, Columns, RowsType

LEMMA ExecuteStore ==
  ASSUME NEW db \in WideTables, NEW p \in Players, NEW i \in Items,
         NEW d, d = Execute(db, StoreItem(p, i))
  PROVE  /\ d \in WideTables
         /\ d.inventory = [db.inventory EXCEPT ![p] = @ \cup {i}]
         /\ d.gold = db.gold /\ d.mail = db.mail /\ d.auction = db.auction
         /\ d.waste.gold = db.waste.gold /\ d.waste.items = db.waste.items
  <1>1. Rows(d, db.gold, [db.inventory EXCEPT ![p] = @ \cup {i}], db.mail, db.auction,
                db.waste.gold, db.waste.items)
    BY DEF Execute, StoreItem, WideTables, Rows
  <1>2. [db.inventory EXCEPT ![p] = @ \cup {i}] \in InventoryTable
    BY TablesFacts DEF InventoryTable
  <1> QED
    BY <1>1, <1>2, Columns, RowsType

LEMMA ExecuteTakeout ==
  ASSUME NEW db \in WideTables, NEW i \in Items,
         NEW d, d = Execute(db, DeleteFromInventory(i))
  PROVE  /\ d \in WideTables
         /\ d.inventory = [p \in Players |-> db.inventory[p] \ {i}]
         /\ d.gold = db.gold /\ d.mail = db.mail /\ d.auction = db.auction
         /\ d.waste.gold = db.waste.gold /\ d.waste.items = db.waste.items
  <1>1. Rows(d, db.gold, [p \in Players |-> db.inventory[p] \ {i}], db.mail, db.auction,
                db.waste.gold, db.waste.items)
    BY DEF Execute, DeleteFromInventory, WideTables, Rows
  <1>2. [p \in Players |-> db.inventory[p] \ {i}] \in InventoryTable
    BY TablesFacts DEF InventoryTable
  <1> QED
    BY <1>1, <1>2, Columns, RowsType

\* The fields of the tables that mail and auction statements leave alone.
SameBags(db, d) == d.gold = db.gold /\ d.inventory = db.inventory
SameWaste(db, d) == d.waste.gold = db.waste.gold /\ d.waste.items = db.waste.items
WithMail(d, db, ms) == d = [db EXCEPT !.mail = ms]

LEMMA ExecuteMail ==
  ASSUME NEW db \in WideTables, NEW ms \in MailTable, NEW d, WithMail(d, db, ms)
  PROVE  /\ d \in WideTables /\ d.mail = ms
         /\ SameBags(db, d) /\ SameWaste(db, d) /\ d.auction = db.auction
  <1>1. Rows(d, db.gold, db.inventory, ms, db.auction, db.waste.gold, db.waste.items)
    BY DEF WideTables, WithMail, Rows
  <1>2. /\ db.gold \in GoldTable /\ db.inventory \in InventoryTable
        /\ db.auction \in AuctionTable /\ db.waste.gold \in Fees
        /\ db.waste.items \in Trash
    BY Columns
  <1>3. /\ d \in WideTables /\ d.gold = db.gold /\ d.inventory = db.inventory /\ d.mail = ms
        /\ d.auction = db.auction /\ d.waste.gold = db.waste.gold
        /\ d.waste.items = db.waste.items
    BY <1>1, <1>2, RowsType
  <1> QED
    BY <1>3 DEF SameBags, SameWaste

LEMMA ExecuteInsert ==
  ASSUME NEW db \in WideTables, NEW m \in WideMails, NEW d, d = Execute(db, InsertMail(m))
  PROVE  /\ d \in WideTables /\ d.mail = db.mail \cup {m}
         /\ SameBags(db, d) /\ SameWaste(db, d) /\ d.auction = db.auction
  <1>1. WithMail(d, db, db.mail \cup {m})
    BY DEF Execute, InsertMail, WithMail
  <1>2. db.mail \cup {m} \in MailTable
    BY TablesFacts DEF MailTable
  <1> QED
    BY <1>1, <1>2, ExecuteMail

\* Of the mails to be updated all but one are in the table already.
LEMMA ExecuteUpdate ==
  ASSUME NEW db \in WideTables, NEW ms, NEW d, d = Execute(db, UpdateMails(ms)),
         \A m, n \in db.mail : m.id = n.id => m = n,
         NEW k \in db.mail, NEW j \in WideMails, j.id = k.id,
         j \in ms, k = j \/ k \notin ms, ms \subseteq db.mail \cup {j}
  PROVE  /\ d \in WideTables /\ d.mail = (db.mail \ {k}) \cup {j}
         /\ SameBags(db, d) /\ SameWaste(db, d) /\ d.auction = db.auction
  <1> DEFINE New(m) == IF \E n \in ms : n.id = m.id THEN CHOOSE n \in ms : n.id = m.id ELSE m
  <1>1. WithMail(d, db, {New(m) : m \in db.mail})
    BY DEF Execute, UpdateMails, WithMail
  <1>2. New(k) = j
    <2>1. \A n \in ms : n.id = k.id => n = j
      OBVIOUS
    <2> QED
      BY <2>1
  <1>3. ASSUME NEW m \in db.mail, m # k PROVE New(m) = m
    <2>1. \A n \in ms : n.id = m.id => n = m
      BY <1>3
    <2> QED
      BY <2>1
  <1> HIDE DEF New
  <1>4. {New(m) : m \in db.mail} = (db.mail \ {k}) \cup {j}
    BY <1>2, <1>3
  <1>5. (db.mail \ {k}) \cup {j} \in MailTable
    BY TablesFacts DEF MailTable
  <1>6. WithMail(d, db, (db.mail \ {k}) \cup {j})
    BY <1>1, <1>4
  <1> QED
    BY <1>5, <1>6, ExecuteMail

LEMMA ExecuteNoUpdate ==
  ASSUME NEW db \in WideTables, NEW ms, NEW d, d = Execute(db, UpdateMails(ms)),
         \A m, n \in db.mail : m.id = n.id => m = n, ms \subseteq db.mail
  PROVE  /\ d \in WideTables /\ d.mail = db.mail
         /\ SameBags(db, d) /\ SameWaste(db, d) /\ d.auction = db.auction
  <1> DEFINE New(m) == IF \E n \in ms : n.id = m.id THEN CHOOSE n \in ms : n.id = m.id ELSE m
  <1>1. WithMail(d, db, {New(m) : m \in db.mail})
    BY DEF Execute, UpdateMails, WithMail
  <1>2. ASSUME NEW m \in db.mail PROVE New(m) = m
    <2>1. \A n \in ms : n.id = m.id => n = m
      OBVIOUS
    <2> QED
      BY <2>1
  <1> HIDE DEF New
  <1>3. {New(m) : m \in db.mail} = db.mail
    BY <1>2
  <1>4. db.mail \in MailTable
    BY TablesFacts DEF MailTable
  <1>5. WithMail(d, db, db.mail)
    BY <1>1, <1>3
  <1> QED
    BY <1>4, <1>5, ExecuteMail

LEMMA ExecuteReturn ==
  ASSUME NEW db \in WideTables, NEW k \in db.mail, NEW d, d = Execute(db, ReturnMail(k.id)),
         \A m, n \in db.mail : m.id = n.id => m = n, k.sender \in Players
  PROVE  /\ Returned(k) \in WideMails
         /\ d \in WideTables /\ d.mail = (db.mail \ {k}) \cup {Returned(k)}
         /\ SameBags(db, d) /\ SameWaste(db, d) /\ d.auction = db.auction
  <1>1. WithMail(d, db, {IF m.id = k.id THEN Returned(m) ELSE m : m \in db.mail})
    BY DEF Execute, ReturnMail, WithMail
  <1>2. {IF m.id = k.id THEN Returned(m) ELSE m : m \in db.mail}
            = (db.mail \ {k}) \cup {Returned(k)}
    OBVIOUS
  <1>3. Returned(k) \in WideMails
    <2>1. k \in WideMails /\ MaxMoney \in Nat
      BY TablesFacts, TablesAssumption
    <2>2. 0 \in 0 .. Width - 1 /\ k.receiver \in Players /\ k.receiver \in Players \cup {None}
      BY <2>1, TablesAssumption DEF WideMails
    <2> DEFINE a == [k EXCEPT !.sender = k.receiver]
               b == [a EXCEPT !.receiver = k.sender]
               c == [b EXCEPT !.cod = 0]
               e == [c EXCEPT !.checked = "returned"]
    <2>3. Returned(k) = e
      BY <2>1 DEF Returned, WideMails
    <2>4. a \in WideMails
      BY <2>1, <2>2 DEF WideMails
    <2> HIDE DEF a
    <2>5. b \in WideMails
      BY <2>4 DEF WideMails
    <2> HIDE DEF b
    <2>6. c \in WideMails
      BY <2>2, <2>5 DEF WideMails
    <2> HIDE DEF c
    <2>7. e \in WideMails
      BY <2>6 DEF WideMails
    <2> QED
      BY <2>3, <2>7
  <1>4. (db.mail \ {k}) \cup {Returned(k)} \in MailTable
    BY <1>3, TablesFacts DEF MailTable
  <1> QED
    BY <1>1, <1>2, <1>3, <1>4, ExecuteMail

LEMMA ExecuteDelete ==
  ASSUME NEW db \in WideTables, NEW ids, NEW d, d = Execute(db, DeleteMails(ids, "moved"))
  PROVE  /\ d \in WideTables /\ d.mail = db.mail \ {m \in db.mail : m.id \in ids}
         /\ SameBags(db, d) /\ SameWaste(db, d) /\ d.auction = db.auction
  <1> DEFINE gone == {m \in db.mail : m.id \in ids}
             ms == db.mail \ gone
  <1>1. PICK w, t : w = db.waste.gold + 0 /\ t = db.waste.items \cup {}
    OBVIOUS
  <1>2. d = [db EXCEPT !.mail = ms, !.waste.gold = w, !.waste.items = t]
    BY <1>1 DEF Execute, DeleteMails
  <1>3. /\ db.gold \in GoldTable /\ db.inventory \in InventoryTable
        /\ db.auction \in AuctionTable /\ db.waste.gold \in Fees
        /\ db.waste.items \in Trash /\ ms \in MailTable
    BY Columns DEF MailTable
  <1>4. w = db.waste.gold /\ t = db.waste.items
    BY <1>1, TablesFacts
  <1> HIDE DEF gone, ms
  <1>5. Rows(d, db.gold, db.inventory, ms, db.auction, w, t)
    BY <1>2 DEF WideTables, Rows
  <1>6. /\ d \in WideTables /\ d.gold = db.gold /\ d.inventory = db.inventory /\ d.mail = ms
        /\ d.auction = db.auction /\ d.waste.gold = w /\ d.waste.items = t
    BY <1>3, <1>4, <1>5, RowsType
  <1> QED
    BY <1>4, <1>6 DEF SameBags, SameWaste, gone, ms

\* The mails of ms with these ids are gone.
Gone(gone, ms, ids) == gone = {m \in ms : m.id \in ids}

\* What is in the mails that are deleted is wasted.
LEMMA ExecuteWaste ==
  ASSUME NEW db \in WideTables, NEW ids, NEW d, d = Execute(db, DeleteMails(ids, "wasted")),
         NEW gone, Gone(gone, db.mail, ids), MoneyOf(gone) \in Nat
  PROVE  /\ d \in WideTables /\ d.mail = db.mail \ gone
         /\ SameBags(db, d) /\ d.auction = db.auction
         /\ d.waste.gold = db.waste.gold + MoneyOf(gone)
         /\ d.waste.items = db.waste.items \cup ItemsOf(gone)
  <1> DEFINE ms == db.mail \ gone
             more == MoneyOf(gone)
             lost == ItemsOf(gone)
  <1>1. d = [db EXCEPT !.mail = ms, !.waste.gold = @ + more, !.waste.items = @ \cup lost]
    BY DEF Execute, DeleteMails, Gone
  <1>2. lost \subseteq Items
    BY TablesFacts DEF ItemsOf, WideMails, Gone
  <1>3. /\ db.gold \in GoldTable /\ db.inventory \in InventoryTable
        /\ db.auction \in AuctionTable /\ db.waste.gold \in Fees
        /\ db.waste.items \in Trash /\ ms \in MailTable
    BY Columns DEF MailTable
  <1>4. more \in Nat
    OBVIOUS
  <1> HIDE DEF ms, more, lost
  <1>5. Rows(d, db.gold, db.inventory, ms, db.auction, db.waste.gold + more,
                db.waste.items \cup lost)
    BY <1>1 DEF WideTables, Rows
  <1>6. PICK w, t : w = db.waste.gold + more /\ t = db.waste.items \cup lost
    OBVIOUS
  <1>7. w \in Fees /\ t \in Trash
    BY <1>2, <1>3, <1>4, <1>6 DEF Fees, Trash
  <1>8. Rows(d, db.gold, db.inventory, ms, db.auction, w, t)
    BY <1>5, <1>6
  <1>9. /\ d \in WideTables /\ d.gold = db.gold /\ d.inventory = db.inventory /\ d.mail = ms
        /\ d.auction = db.auction /\ d.waste.gold = w /\ d.waste.items = t
    BY <1>3, <1>7, <1>8, RowsType
  <1> QED
    BY <1>6, <1>9 DEF SameBags, ms, more, lost

WithAuctions(d, db, sales, w) == d = [db EXCEPT !.auction = sales, !.waste.gold = w]

LEMMA ExecuteAuction ==
  ASSUME NEW db \in WideTables, NEW sales \in AuctionTable, NEW w \in Fees,
         NEW d, WithAuctions(d, db, sales, w)
  PROVE  /\ d \in WideTables /\ d.auction = sales /\ d.mail = db.mail
         /\ SameBags(db, d) /\ d.waste.gold = w /\ d.waste.items = db.waste.items
  <1>1. Rows(d, db.gold, db.inventory, db.mail, sales, w, db.waste.items)
    BY DEF WideTables, WithAuctions, Rows
  <1>2. /\ db.gold \in GoldTable /\ db.inventory \in InventoryTable
        /\ db.mail \in MailTable /\ db.waste.items \in Trash
    BY Columns
  <1>3. /\ d \in WideTables /\ d.gold = db.gold /\ d.inventory = db.inventory /\ d.mail = db.mail
        /\ d.auction = sales /\ d.waste.gold = w /\ d.waste.items = db.waste.items
    BY <1>1, <1>2, RowsType
  <1> QED
    BY <1>3 DEF SameBags

LEMMA WithSameWaste ==
  ASSUME NEW db \in WideTables, NEW sales, NEW d, d = [db EXCEPT !.auction = sales]
  PROVE  WithAuctions(d, db, sales, db.waste.gold)
  BY DEF WideTables, WithAuctions

LEMMA ExecuteInsertAuction ==
  ASSUME NEW db \in WideTables, NEW a \in Auctions, NEW d, d = Execute(db, InsertAuction(a))
  PROVE  /\ d \in WideTables /\ d.auction = db.auction \cup {a} /\ d.mail = db.mail
         /\ SameBags(db, d)
         /\ d.waste.gold = db.waste.gold /\ d.waste.items = db.waste.items
  <1>1. d = [db EXCEPT !.auction = @ \cup {a}]
    BY DEF Execute, InsertAuction
  <1>2. db.auction \cup {a} \in AuctionTable /\ db.waste.gold \in Fees
    BY TablesFacts DEF AuctionTable, Fees
  <1>3. WithAuctions(d, db, db.auction \cup {a}, db.waste.gold)
    BY <1>1, WithSameWaste
  <1> QED
    BY <1>2, <1>3, ExecuteAuction

LEMMA ExecuteUpdateAuction ==
  ASSUME NEW db \in WideTables, NEW a \in db.auction, NEW b \in Auctions, b.item = a.item,
         \A x \in db.auction : x.item = a.item => x = a,
         NEW d, d = Execute(db, UpdateAuction(b))
  PROVE  /\ d \in WideTables /\ d.auction = (db.auction \ {a}) \cup {b} /\ d.mail = db.mail
         /\ SameBags(db, d)
         /\ d.waste.gold = db.waste.gold /\ d.waste.items = db.waste.items
  <1> DEFINE sales == {IF x.item = b.item THEN b ELSE x : x \in db.auction}
  <1>1. d = [db EXCEPT !.auction = sales]
    BY DEF Execute, UpdateAuction
  <1>2. sales = (db.auction \ {a}) \cup {b}
    OBVIOUS
  <1>3. sales \in AuctionTable /\ db.waste.gold \in Fees
    BY <1>2, TablesFacts DEF AuctionTable, Fees
  <1> HIDE DEF sales
  <1>4. WithAuctions(d, db, sales, db.waste.gold)
    BY <1>1, WithSameWaste
  <1> QED
    BY <1>2, <1>3, <1>4, ExecuteAuction

LEMMA ExecuteDeleteAuction ==
  ASSUME NEW db \in WideTables, NEW a \in db.auction, NEW lost \in Nat,
         \A x \in db.auction : x.item = a.item => x = a,
         NEW d, d = Execute(db, DeleteAuction(a.item, lost))
  PROVE  /\ d \in WideTables /\ d.auction = db.auction \ {a} /\ d.mail = db.mail
         /\ SameBags(db, d)
         /\ d.waste.gold = db.waste.gold + lost /\ d.waste.items = db.waste.items
  <1> DEFINE sales == {x \in db.auction : x.item # a.item}
  <1>1. WithAuctions(d, db, sales, db.waste.gold + lost)
    BY DEF Execute, DeleteAuction, WithAuctions
  <1>2. sales = db.auction \ {a}
    OBVIOUS
  <1>3. sales \in AuctionTable /\ db.waste.gold \in Nat
    BY <1>2, TablesFacts DEF AuctionTable
  <1> HIDE DEF sales
  <1>4. PICK w \in Fees : w = db.waste.gold + lost
    BY <1>3 DEF Fees
  <1>5. WithAuctions(d, db, sales, w)
    BY <1>1, <1>4
  <1> QED
    BY <1>2, <1>3, <1>4, <1>5, ExecuteAuction

-----------------------------------------------------------------------------
(***************************************************************************)
(* Transactions: f goes through the tables after each statement, h through *)
(* the tables after each transaction.                                      *)
(***************************************************************************)
Steps(f, db, stmts, n) ==
    f = [k \in 0 .. n |-> IF k = 0 THEN db ELSE Execute(f[k - 1], stmts[k])]
Turns(h, db, txns, n) ==
    h = [k \in 0 .. n |-> IF k = 0 THEN db ELSE ExecuteAll(h[k - 1], txns[k])]

LEMMA StepsExist ==
  ASSUME NEW db, NEW stmts, NEW n \in Nat
  PROVE  \E f : Steps(f, db, stmts, n)
  <1> DEFINE N == {m \in Nat : \E f : Steps(f, db, stmts, m)}
  <1>1. 0 \in N
    <2>1. Steps([k \in 0 .. 0 |-> db], db, stmts, 0)
      BY DEF Steps
    <2> QED
      BY <2>1
  <1>2. ASSUME NEW m \in N PROVE m + 1 \in N
    <2>1. PICK f : Steps(f, db, stmts, m)
      OBVIOUS
    <2> DEFINE g == [k \in 0 .. m + 1 |-> IF k = m + 1 THEN Execute(f[m], stmts[m + 1]) ELSE f[k]]
    <2>2. ASSUME NEW k \in 0 .. m + 1
          PROVE  g[k] = IF k = 0 THEN db ELSE Execute(g[k - 1], stmts[k])
      <3>1. CASE k = 0
        BY <2>1, <3>1 DEF Steps
      <3>2. CASE k = m + 1
        BY <3>2
      <3>3. CASE k \in 1 .. m
        <4>1. g[k] = f[k] /\ g[k - 1] = f[k - 1]
          BY <3>3
        <4>2. f[k] = Execute(f[k - 1], stmts[k])
          BY <2>1, <3>3 DEF Steps
        <4> QED
          BY <3>3, <4>1, <4>2
      <3> QED
        BY <3>1, <3>2, <3>3
    <2>3. g = [k \in 0 .. m + 1 |-> g[k]]
      OBVIOUS
    <2> HIDE DEF g
    <2>4. Steps(g, db, stmts, m + 1)
      BY <2>2, <2>3 DEF Steps
    <2> QED
      BY <2>4
  <1> HIDE DEF N
  <1>3. N = Nat
    BY <1>1, <1>2, NumbersByInduction DEF N
  <1> QED
    BY <1>3 DEF N

Path(f, db, stmts, n) ==
    /\ f[0] = db /\ ExecuteAll(db, stmts) = f[n]
    /\ \A k \in 1 .. n : f[k] = Execute(f[k - 1], stmts[k])

LEMMA ExecuteAllPath ==
  ASSUME NEW db, NEW stmts, NEW n, n \in Nat, Len(stmts) = n
  PROVE  \E f : Path(f, db, stmts, n)
  <1> DEFINE f == CHOOSE g : Steps(g, db, stmts, n)
  <1>1. Steps(f, db, stmts, n)
    BY StepsExist, Zenon
  <1>2. ExecuteAll(db, stmts) = f[n]
    BY DEF ExecuteAll, Steps
  <1> HIDE DEF f
  <1>3. f[0] = db /\ \A k \in 1 .. n : f[k] = Execute(f[k - 1], stmts[k])
    BY <1>1 DEF Steps
  <1> QED
    BY <1>2, <1>3 DEF Path

LEMMA TurnsExist ==
  ASSUME NEW db, NEW txns, NEW n \in Nat
  PROVE  \E h : Turns(h, db, txns, n)
  <1> DEFINE N == {m \in Nat : \E h : Turns(h, db, txns, m)}
  <1>1. 0 \in N
    <2>1. Turns([k \in 0 .. 0 |-> db], db, txns, 0)
      BY DEF Turns
    <2> QED
      BY <2>1
  <1>2. ASSUME NEW m \in N PROVE m + 1 \in N
    <2>1. PICK f : Turns(f, db, txns, m)
      OBVIOUS
    <2> DEFINE g == [k \in 0 .. m + 1 |->
                        IF k = m + 1 THEN ExecuteAll(f[m], txns[m + 1]) ELSE f[k]]
    <2>2. ASSUME NEW k \in 0 .. m + 1
          PROVE  g[k] = IF k = 0 THEN db ELSE ExecuteAll(g[k - 1], txns[k])
      <3>1. CASE k = 0
        BY <2>1, <3>1 DEF Turns
      <3>2. CASE k = m + 1
        BY <3>2
      <3>3. CASE k \in 1 .. m
        <4>1. g[k] = f[k] /\ g[k - 1] = f[k - 1]
          BY <3>3
        <4>2. f[k] = ExecuteAll(f[k - 1], txns[k])
          BY <2>1, <3>3 DEF Turns
        <4> QED
          BY <3>3, <4>1, <4>2
      <3> QED
        BY <3>1, <3>2, <3>3
    <2>3. g = [k \in 0 .. m + 1 |-> g[k]]
      OBVIOUS
    <2> HIDE DEF g
    <2>4. Turns(g, db, txns, m + 1)
      BY <2>2, <2>3 DEF Turns
    <2> QED
      BY <2>4
  <1> HIDE DEF N
  <1>3. N = Nat
    BY <1>1, <1>2, NumbersByInduction DEF N
  <1> QED
    BY <1>3 DEF N

\* A transaction of one, two, three or four statements.
LEMMA ExecuteNone == ASSUME NEW db PROVE ExecuteAll(db, <<>>) = db
  <1>1. 0 \in Nat /\ Len(<<>>) = 0
    OBVIOUS
  <1>2. PICK f : Path(f, db, <<>>, 0)
    BY <1>1, ExecuteAllPath
  <1> QED
    BY <1>2 DEF Path

LEMMA ExecuteOne ==
  ASSUME NEW db, NEW s
  PROVE  ExecuteAll(db, <<s>>) = Execute(db, s)
  <1> DEFINE q == <<s>>
  <1>1. 1 \in Nat /\ Len(q) = 1 /\ q[1] = s
    OBVIOUS
  <1> HIDE DEF q
  <1>2. PICK f : Path(f, db, q, 1)
    BY <1>1, ExecuteAllPath
  <1>3. f[1] = Execute(f[1 - 1], q[1])
    BY <1>2 DEF Path
  <1>4. ExecuteAll(db, q) = Execute(db, s)
    BY <1>1, <1>2, <1>3 DEF Path
  <1> QED
    BY <1>4 DEF q

LEMMA ExecuteTwo ==
  ASSUME NEW db, NEW s, NEW t
  PROVE  ExecuteAll(db, <<s, t>>) = Execute(Execute(db, s), t)
  <1> DEFINE q == <<s, t>>
  <1>1. 2 \in Nat /\ Len(q) = 2 /\ q[1] = s /\ q[2] = t
    OBVIOUS
  <1> HIDE DEF q
  <1>2. PICK f : Path(f, db, q, 2)
    BY <1>1, ExecuteAllPath
  <1>3. f[1] = Execute(f[1 - 1], q[1]) /\ f[2] = Execute(f[2 - 1], q[2])
    BY <1>2 DEF Path
  <1>4. ExecuteAll(db, q) = Execute(Execute(db, s), t)
    BY <1>1, <1>2, <1>3 DEF Path
  <1> QED
    BY <1>4 DEF q

LEMMA ExecuteThree ==
  ASSUME NEW db, NEW s, NEW t, NEW u
  PROVE  ExecuteAll(db, <<s, t, u>>) = Execute(Execute(Execute(db, s), t), u)
  <1> DEFINE q == <<s, t, u>>
  <1>1. 3 \in Nat /\ Len(q) = 3 /\ q[1] = s /\ q[2] = t /\ q[3] = u
    OBVIOUS
  <1> HIDE DEF q
  <1>2. PICK f : Path(f, db, q, 3)
    BY <1>1, ExecuteAllPath
  <1>3. /\ f[1] = Execute(f[1 - 1], q[1]) /\ f[2] = Execute(f[2 - 1], q[2])
        /\ f[3] = Execute(f[3 - 1], q[3])
    BY <1>2 DEF Path
  <1>4. ExecuteAll(db, q) = Execute(Execute(Execute(db, s), t), u)
    BY <1>1, <1>2, <1>3 DEF Path
  <1> QED
    BY <1>4 DEF q

LEMMA ExecuteFour ==
  ASSUME NEW db, NEW s, NEW t, NEW u, NEW v
  PROVE  ExecuteAll(db, <<s, t, u, v>>) = Execute(Execute(Execute(Execute(db, s), t), u), v)
  <1> DEFINE q == <<s, t, u, v>>
  <1>1. 4 \in Nat /\ Len(q) = 4 /\ q[1] = s /\ q[2] = t /\ q[3] = u /\ q[4] = v
    OBVIOUS
  <1> HIDE DEF q
  <1>2. PICK f : Path(f, db, q, 4)
    BY <1>1, ExecuteAllPath
  <1>3. /\ f[1] = Execute(f[1 - 1], q[1]) /\ f[2] = Execute(f[2 - 1], q[2])
        /\ f[3] = Execute(f[3 - 1], q[3]) /\ f[4] = Execute(f[4 - 1], q[4])
    BY <1>2 DEF Path
  <1>4. ExecuteAll(db, q) = Execute(Execute(Execute(Execute(db, s), t), u), v)
    BY <1>1, <1>2, <1>3 DEF Path
  <1> QED
    BY <1>4 DEF q

-----------------------------------------------------------------------------
(***************************************************************************)
(* The inductive invariant.                                                *)
(***************************************************************************)
Kinds == {"mail", "auction", "player"}

\* The handler within which the k-th page is.
Mark(k) == IF k = 0 THEN within ELSE pending[k].within

Queue ==
    /\ \E S : pending \in Seq(S)
    /\ \A k \in 1 .. Len(pending) : pending[k].who \in Players \cup {None}
    /\ \A k \in 0 .. Len(pending) : Mark(k) \in Kinds \cup {"none"}
    /\ Mark(Len(pending)) = "none"

\* The pages db start with the tables and follow the queue.
Ledger(db) ==
    /\ db[0] = saved /\ db[Len(pending)] = written
    /\ \A k \in 1 .. Len(pending) : db[k] = ExecuteAll(db[k - 1], pending[k].stmts)
    /\ \A k \in 0 .. Len(pending) : Page(db[k], Mark(k), mailId)

\* What the tables d say of q, the tables e say as well; q may have got mail.
Kept(d, e, q) ==
    /\ d.gold[q] = e.gold[q] /\ d.inventory[q] = e.inventory[q]
    /\ {m \in d.mail : m.receiver = q} \subseteq e.mail

\* Nothing that a login has asked for changes before it has its answer.
Logins(db) ==
    \A k \in 1 .. Len(pending) : \A q \in Players : pending[k].who = q =>
        /\ where[q] = "loading" /\ answer[q] = None /\ pending[k].stmts = <<>>
        /\ Mark(k) = "none" /\ Kept(db[k], written, q)
        /\ \A j \in 1 .. Len(pending) : pending[j].who = q => j = k

Answers ==
    \A q \in Players : answer[q] # None =>
        /\ where[q] = "loading"
        /\ Agrees(q, answer[q].gold, answer[q].items, answer[q].mail)

Letter(l) ==
    /\ l.state \in {"unchanged", "changed", "deleted"} /\ l = [mail |-> l.mail, state |-> l.state]
    /\ l.state = "deleted" => l.mail.cod = 0
BoxOk(q) ==
    /\ \A l \in box[q] : Letter(l) /\ l.mail \in written.mail /\ l.mail.receiver = q
    /\ \A l, k \in box[q] : l.mail = k.mail => l = k
HasOk(q) ==
    /\ where[q] = "online" => has[q].gold = written.gold[q] /\ has[q].items = written.inventory[q]
    /\ where[q] # "online" => box[q] = {} /\ has[q] = Nobody
Memory == \A q \in Players : BoxOk(q) /\ HasOk(q)

Shape ==
    /\ where \in [Players -> {"offline", "loading", "online"}]
    /\ has \in [Players -> [gold : 0 .. MaxMoney, items : SUBSET Items]]
    /\ DOMAIN box = Players /\ DOMAIN answer = Players
    /\ box = [p \in Players |-> box[p]] /\ answer = [p \in Players |-> answer[p]]
    /\ mailId \in 1 .. MaxMails + 1

Sales == auctions = written.auction /\ aitems = {a.item : a \in auctions}

\* All that a step starts from, with the pages that show it.
Before(db) ==
    /\ Shape /\ Queue /\ Answers /\ Memory /\ Sales /\ Ledger(db) /\ Logins(db)
MailInv == \E db : Before(db)
-----------------------------------------------------------------------------
(***************************************************************************)
(* A handler commits its transactions: the pages h come after those there  *)
(* are.                                                                    *)
(***************************************************************************)
Committed(h, txns, n) ==
    /\ h[0] = written /\ h[n] = written'
    /\ \A k \in 1 .. n : h[k] = ExecuteAll(h[k - 1], txns[k])

LEMMA CommitPages ==
  ASSUME NEW kind, NEW txns, NEW n, n \in Nat, Len(txns) = n, Commit(kind, txns)
  PROVE  \E h : Committed(h, txns, n)
  <1> DEFINE h == CHOOSE g : Turns(g, written, txns, n)
  <1>1. Turns(h, written, txns, n)
    BY TurnsExist, Zenon
  <1>2. written' = h[n]
    BY DEF Commit, Turns
  <1> HIDE DEF h
  <1>3. h[0] = written /\ \A k \in 1 .. n : h[k] = ExecuteAll(h[k - 1], txns[k])
    BY <1>1 DEF Turns
  <1>4. Committed(h, txns, n)
    BY <1>2, <1>3 DEF Committed
  <1> QED
    BY <1>4

Entered(t, stmts, mark) == t.stmts = stmts /\ t.who = None /\ t.within = mark

LEMMA CommitQueue ==
  ASSUME NEW kind, NEW txns, NEW n \in Nat, Len(txns) = n, Commit(kind, txns),
         NEW S, pending \in Seq(S)
  PROVE  /\ Len(pending) \in Nat /\ Len(pending') = Len(pending) + n
         /\ \E R : pending' \in Seq(R)
         /\ \A k \in 1 .. Len(pending) : pending'[k] = pending[k]
         /\ \A k \in 1 .. n : Entered(pending'[Len(pending) + k], txns[k], IF k = n THEN "none" ELSE kind)
  <1> DEFINE Entry(k) == [stmts |-> txns[k], who |-> None,
                          within |-> IF k = n THEN "none" ELSE kind]
             more == [k \in 1 .. n |-> Entry(k)]
             R == S \cup {Entry(k) : k \in 1 .. n}
  <1>1. pending' = pending \o more
    BY DEF Commit
  <1>2. more \in Seq(R) /\ Len(more) = n /\ \A k \in 1 .. n : more[k] = Entry(k)
    OBVIOUS
  <1>3. pending \in Seq(R) /\ Len(pending) \in Nat
    OBVIOUS
  <1>3a. \A k \in 1 .. n : Entered(Entry(k), txns[k], IF k = n THEN "none" ELSE kind)
    BY DEF Entered
  <1> HIDE DEF more, R, Entry
  <1>4. pending' \in Seq(R) /\ Len(pending') = Len(pending) + n
    <2>1. pending \o more \in Seq(R)
      BY <1>2, <1>3
    <2>2. Len(pending \o more) = Len(pending) + n
      BY <1>2, <1>3
    <2> QED
      BY <1>1, <2>1, <2>2
  <1>5. \A k \in 1 .. Len(pending) : pending'[k] = pending[k]
    BY <1>1, <1>2, <1>3
  <1>6. \A k \in 1 .. n : pending'[Len(pending) + k] = Entry(k)
    BY <1>1, <1>2, <1>3
  <1> QED
    BY <1>3, <1>3a, <1>4, <1>5, <1>6

LEMMA OkLater ==
  ASSUME NEW db, NEW i \in Nat, NEW j \in Nat, i <= j, Ok(db, i)
  PROVE  Ok(db, j)
  <1>1. \A m \in db.mail : m.id \in Nat
    BY TablesFacts DEF Ok, WideMails
  <1>2. \A m \in db.mail : m.id < i
    BY DEF Ok, MailsOk
  <1>3. \A m \in db.mail : m.id < j
    BY <1>1, <1>2
  <1> QED
    BY <1>3 DEF Ok, MailsOk

LEMMA PageLater ==
  ASSUME NEW db, NEW mark, NEW i \in Nat, NEW j \in Nat, i <= j, Page(db, mark, i)
  PROVE  Page(db, mark, j)
  BY OkLater DEF Page

\* The pages of a handler fit to the ledger.
Filled(h, kind, n) ==
    /\ \A k \in 1 .. n - 1 : Page(h[k], kind, mailId')
    /\ Page(h[n], "none", mailId')

LEMMA KeptTwice ==
  ASSUME NEW c, NEW d, NEW e, NEW q, Kept(c, d, q), Kept(d, e, q)
  PROVE  Kept(c, e, q)
  BY DEF Kept

LEMMA CommitKeepsLedger ==
  ASSUME Shape, Queue, NEW db, Ledger(db), Logins(db),
         NEW kind \in Kinds, NEW txns, NEW n \in Nat, n > 0, Len(txns) = n,
         Commit(kind, txns), NEW h, Committed(h, txns, n), Filled(h, kind, n),
         UNCHANGED <<saved, within, answer>>, mailId' \in Nat, mailId <= mailId',
         \A q \in Players : where[q] = "loading" =>
            where'[q] = "loading" /\ Kept(written, written', q)
  PROVE  Queue' /\ \E d : Ledger(d)' /\ Logins(d)'
  <1>0. PICK L : L = Len(pending)
    OBVIOUS
  <1> DEFINE d == [k \in 0 .. L + n |-> IF k <= L THEN db[k] ELSE h[k - L]]
  <1>1. /\ L \in Nat /\ Len(pending') = L + n
        /\ \E R : pending' \in Seq(R)
        /\ \A k \in 1 .. L : pending'[k] = pending[k]
        /\ \A k \in 1 .. n : Entered(pending'[L + k], txns[k], IF k = n THEN "none" ELSE kind)
    BY <1>0, CommitQueue DEF Queue
  <1>1a. \A k \in 1 .. n : /\ pending'[L + k].stmts = txns[k]
                           /\ pending'[L + k].who = None
                           /\ pending'[L + k].within = IF k = n THEN "none" ELSE kind
    BY <1>1 DEF Entered
  <1>2. \A k \in 1 .. L : d[k] = db[k]
    BY <1>1
  <1>3. d[0] = db[0] /\ d[L] = db[L] /\ h[0] = db[L]
    BY <1>0, <1>1 DEF Committed, Ledger
  <1>4. \A k \in 1 .. n : d[L + k] = h[k]
    BY <1>1
  <1>5. \A k \in 0 .. n : d[L + k] = h[k]
    <2> SUFFICES ASSUME NEW k \in 0 .. n PROVE d[L + k] = h[k]
      OBVIOUS
    <2>1. CASE k = 0
      <3>1. L + k = L
        BY <1>1, <2>1
      <3> QED
        BY <1>3, <2>1, <3>1
    <2>2. CASE k # 0
      BY <1>4, <2>2
    <2> QED
      BY <2>1, <2>2
  <1> HIDE DEF d
  <1>6. \A k \in 1 .. L + n : k \in 1 .. L \/ \E j \in 1 .. n : k = L + j
    <2> SUFFICES ASSUME NEW k \in 1 .. L + n, ~(k \in 1 .. L)
                 PROVE  \E j \in 1 .. n : k = L + j
      OBVIOUS
    <2>1. k - L \in 1 .. n /\ k = L + (k - L)
      BY <1>1
    <2> QED
      BY <2>1
  <1>7. \A k \in 0 .. L : Mark(k)' = Mark(k)
    BY <1>0, <1>1 DEF Mark
  <1>8. \A k \in 1 .. n : Mark(L + k)' = IF k = n THEN "none" ELSE kind
    <2> SUFFICES ASSUME NEW k \in 1 .. n PROVE Mark(L + k)' = IF k = n THEN "none" ELSE kind
      OBVIOUS
    <2>1. L + k # 0
      BY <1>1
    <2> QED
      BY <1>1a, <2>1 DEF Mark
  <1>9. Queue'
    <2>1. ASSUME NEW k \in 1 .. L + n PROVE pending'[k].who \in Players \cup {None}
      <3>1. ASSUME k \in 1 .. L PROVE pending'[k].who \in Players \cup {None}
        BY <1>0, <1>1, <3>1 DEF Queue
      <3>2. ASSUME NEW j \in 1 .. n, k = L + j PROVE pending'[k].who \in Players \cup {None}
        BY <1>1a, <1>1, <3>2
      <3> QED
        BY <1>6, <3>1, <3>2
    <2>2. ASSUME NEW k \in 0 .. L + n PROVE Mark(k)' \in Kinds \cup {"none"}
      <3>1. ASSUME k \in 0 .. L PROVE Mark(k)' \in Kinds \cup {"none"}
        BY <1>0, <1>7, <3>1 DEF Queue
      <3>2. ASSUME NEW j \in 1 .. n, k = L + j PROVE Mark(k)' \in Kinds \cup {"none"}
        BY <1>8, <3>2
      <3>3. k \in 0 .. L \/ k \in 1 .. L + n
        BY <1>1
      <3> QED
        BY <1>6, <3>1, <3>2, <3>3
    <2>3. Mark(L + n)' = "none"
      BY <1>8
    <2>4. Len(pending') = L + n
      BY <1>1
    <2>5. \E R : pending' \in Seq(R)
      BY <1>1
    <2> QED
      BY <2>1, <2>2, <2>3, <2>4, <2>5 DEF Queue
  <1>10. Ledger(d)'
    <2>1. d[0] = saved' /\ d[L + n] = written'
      BY <1>3, <1>4 DEF Ledger, Committed
    <2>2. ASSUME NEW k \in 1 .. L + n PROVE d[k] = ExecuteAll(d[k - 1], pending'[k].stmts)
      <3>1. ASSUME k \in 1 .. L PROVE d[k] = ExecuteAll(d[k - 1], pending'[k].stmts)
        <4>1. k - 1 = 0 \/ k - 1 \in 1 .. L
          BY <1>1, <3>1
        <4>2. d[k - 1] = db[k - 1]
          BY <1>2, <1>3, <4>1
        <4>3. db[k] = ExecuteAll(db[k - 1], pending[k].stmts)
          BY <1>0, <3>1 DEF Ledger
        <4>4. d[k] = db[k] /\ pending'[k] = pending[k]
          BY <1>1, <1>2, <3>1
        <4> QED
          BY <4>2, <4>3, <4>4
      <3>2. ASSUME NEW j \in 1 .. n, k = L + j
            PROVE  d[k] = ExecuteAll(d[k - 1], pending'[k].stmts)
        <4>1. pending'[k].stmts = txns[j]
          BY <1>1a, <1>1, <3>2
        <4>2. j - 1 \in 0 .. n /\ k - 1 = L + (j - 1)
          BY <1>1a, <1>1, <3>2
        <4>3. d[k - 1] = h[j - 1] /\ d[k] = h[j]
          BY <1>4, <1>5, <3>2, <4>2
        <4>4. h[j] = ExecuteAll(h[j - 1], txns[j])
          BY DEF Committed
        <4> QED
          BY <4>1, <4>3, <4>4
      <3> QED
        BY <1>6, <3>1, <3>2
    <2>3. ASSUME NEW k \in 0 .. L + n PROVE Page(d[k], Mark(k)', mailId')
      <3>1. ASSUME k \in 0 .. L PROVE Page(d[k], Mark(k)', mailId')
        <4>1. d[k] = db[k]
          BY <1>1, <1>2, <1>3, <3>1
        <4>2. Page(db[k], Mark(k), mailId) /\ mailId \in Nat
          BY <1>0, <3>1 DEF Ledger, Shape
        <4> QED
          BY <1>7, <3>1, <4>1, <4>2, PageLater
      <3>2. ASSUME NEW j \in 1 .. n, k = L + j PROVE Page(d[k], Mark(k)', mailId')
        <4>1. d[k] = h[j] /\ Mark(k)' = IF j = n THEN "none" ELSE kind
          BY <1>4, <1>8, <3>2
        <4>2. CASE j = n
          BY <4>1, <4>2 DEF Filled
        <4>3. CASE j # n
          <5>1. j \in 1 .. n - 1
            BY <4>3
          <5> QED
            BY <4>1, <4>3, <5>1 DEF Filled
        <4> QED
          BY <4>2, <4>3
      <3>3. k \in 0 .. L \/ k \in 1 .. L + n
        BY <1>1
      <3> QED
        BY <1>6, <3>1, <3>2, <3>3
    <2>4. Len(pending') = L + n
      BY <1>1
    <2> QED
      BY <2>1, <2>2, <2>3, <2>4 DEF Ledger
  <1>11. Logins(d)'
    <2>1. ASSUME NEW k \in 1 .. L + n, NEW q \in Players, pending'[k].who = q
          PROVE  /\ k \in 1 .. L /\ pending'[k] = pending[k] /\ d[k] = db[k]
                 /\ pending[k].who = q
      <3>1. ASSUME NEW i \in 1 .. n, k = L + i PROVE FALSE
        <4>1. pending'[k].who = None
          BY <1>1a, <3>1
        <4> QED
          BY <2>1, <4>1, TablesAssumption
      <3>2. k \in 1 .. L
        BY <1>6, <3>1
      <3> QED
        BY <1>1, <1>2, <2>1, <3>2
    <2>2. ASSUME NEW k \in 1 .. L + n, NEW q \in Players, pending'[k].who = q
          PROVE  /\ where'[q] = "loading" /\ answer'[q] = None
                 /\ pending'[k].stmts = <<>>
                 /\ Mark(k)' = "none" /\ Kept(d[k], written', q)
                 /\ \A j \in 1 .. L + n : pending'[j].who = q => j = k
      <3>1. /\ where[q] = "loading" /\ answer[q] = None /\ pending[k].stmts = <<>>
            /\ Mark(k) = "none" /\ Kept(db[k], written, q)
            /\ \A j \in 1 .. L : pending[j].who = q => j = k
        BY <1>0, <2>1, <2>2 DEF Logins
      <3>2. Kept(db[k], written', q)
        BY <3>1, KeptTwice
      <3>3. ASSUME NEW j \in 1 .. L + n, pending'[j].who = q PROVE j = k
        BY <2>1, <3>1, <3>3
      <3>4. Mark(k)' = Mark(k)
        BY <1>1, <1>7, <2>1, <2>2
      <3> QED
        BY <2>1, <2>2, <3>1, <3>2, <3>3, <3>4
    <2>3. Len(pending') = L + n
      BY <1>1
    <2> QED
      BY <2>2, <2>3 DEF Logins
  <1> QED
    BY <1>9, <1>10, <1>11

-----------------------------------------------------------------------------
(***************************************************************************)
(* Gold.                                                                   *)
(***************************************************************************)
Purses(g) == SumFunction(g)
Stakes(sales) == SumFunction([a \in sales |-> a.bid + Deposit])

LEMMA GoldParts ==
  ASSUME NEW db
  PROVE  AllGold(db) = Purses(db.gold) + MoneyOf(db.mail) + db.waste.gold + Stakes(db.auction)
  BY DEF AllGold, Purses, Stakes

LEMMA PursesType ==
  ASSUME NEW g \in GoldTable
  PROVE  Purses(g) \in Nat /\ \A p \in Players : g[p] \in Nat /\ g[p] <= Purses(g)
  <1>1. IsFiniteSet(Players) /\ MaxMoney \in Nat
    BY MailAssumption, TablesAssumption
  <1>2. DOMAIN g = Players /\ \A p \in Players : g[p] \in Nat
    BY <1>1 DEF GoldTable
  <1> QED
    BY <1>1, <1>2, SumAtLeast DEF Purses, SumFunction

LEMMA PursesSet ==
  ASSUME NEW g \in GoldTable, NEW p \in Players, NEW x \in 0 .. MaxMoney
  PROVE  Purses([g EXCEPT ![p] = x]) = Purses(g) - g[p] + x
  <1> DEFINE h == [g EXCEPT ![p] = x]
  <1>1. IsFiniteSet(Players) /\ MaxMoney \in Nat
    BY MailAssumption, TablesAssumption
  <1>2. DOMAIN g = Players /\ DOMAIN h = Players /\ h[p] = x
    BY DEF GoldTable
  <1>3. \A q \in Players : g[q] \in Int /\ h[q] \in Int
    BY <1>1 DEF GoldTable
  <1>4. \A q \in Players \ {p} : h[q] = g[q]
    BY DEF GoldTable
  <1> HIDE DEF h
  <1>5. SumFunctionOnSet(h, Players) = SumFunctionOnSet(g, Players) - g[p] + h[p]
    BY <1>1, <1>3, <1>4, SumChange
  <1> QED
    BY <1>2, <1>5 DEF Purses, SumFunction, h

\* The sum of the money in a set of letters, or of the bids of auctions, in terms of
\* the sum over a larger set.
LEMMA MoneySum ==
  ASSUME NEW T, IsFiniteSet(T), NEW S \in SUBSET T
  PROVE  /\ IsFiniteSet(S)
         /\ MoneyOf(S) = SumFunctionOnSet([m \in T |-> m.money], S)
  <1>1. IsFiniteSet(S)
    BY FS_Subset
  <1> DEFINE f == [m \in S |-> m.money]
             h == [m \in T |-> m.money]
  <1>2. \A m \in S : f[m] = h[m]
    OBVIOUS
  <1>3. MoneyOf(S) = SumFunctionOnSet(f, S)
    BY DEF MoneyOf, SumFunction
  <1> HIDE DEF f, h
  <1>4. SumFunctionOnSet(f, S) = SumFunctionOnSet(h, S)
    BY <1>1, <1>2, SumSame
  <1> QED
    BY <1>1, <1>3, <1>4 DEF h

LEMMA StakesSum ==
  ASSUME NEW T, IsFiniteSet(T), NEW S \in SUBSET T
  PROVE  /\ IsFiniteSet(S)
         /\ Stakes(S) = SumFunctionOnSet([a \in T |-> a.bid + Deposit], S)
  <1>1. IsFiniteSet(S)
    BY FS_Subset
  <1> DEFINE f == [a \in S |-> a.bid + Deposit]
             h == [a \in T |-> a.bid + Deposit]
  <1>2. \A a \in S : f[a] = h[a]
    OBVIOUS
  <1>3. Stakes(S) = SumFunctionOnSet(f, S)
    BY DEF Stakes, SumFunction
  <1> HIDE DEF f, h
  <1>4. SumFunctionOnSet(f, S) = SumFunctionOnSet(h, S)
    BY <1>1, <1>2, SumSame
  <1> QED
    BY <1>1, <1>3, <1>4 DEF h

LEMMA MoneyType ==
  ASSUME NEW ms, IsFiniteSet(ms), \A m \in ms : m.money \in Nat
  PROVE  MoneyOf(ms) \in Nat /\ \A m \in ms : m.money <= MoneyOf(ms)
  <1> DEFINE f == [m \in ms |-> m.money]
  <1>1. \A m \in ms : f[m] \in Nat /\ f[m] = m.money
    OBVIOUS
  <1>2. MoneyOf(ms) = SumFunctionOnSet(f, ms)
    BY DEF MoneyOf, SumFunction
  <1> HIDE DEF f
  <1> QED
    BY <1>1, <1>2, SumAtLeast

LEMMA MoneyAdd ==
  ASSUME NEW ms, IsFiniteSet(ms), NEW k, k \notin ms, \A m \in ms \cup {k} : m.money \in Nat
  PROVE  IsFiniteSet(ms \cup {k}) /\ MoneyOf(ms \cup {k}) = MoneyOf(ms) + k.money
  <1> DEFINE T == ms \cup {k}
             f == [m \in T |-> m.money]
  <1>1. IsFiniteSet(T)
    BY FS_AddElement
  <1>2. \A m \in T : f[m] \in Int
    OBVIOUS
  <1>3. f[k] = k.money
    OBVIOUS
  <1>4. MoneyOf(ms) = SumFunctionOnSet(f, ms) /\ MoneyOf(T) = SumFunctionOnSet(f, T)
    BY <1>1, MoneySum
  <1> HIDE DEF f
  <1>5. SumFunctionOnSet(f, ms \cup {k}) = SumFunctionOnSet(f, ms) + f[k]
    BY <1>2, SumAdd
  <1> QED
    BY <1>1, <1>3, <1>4, <1>5

LEMMA MoneySplit ==
  ASSUME NEW ms, IsFiniteSet(ms), NEW gone \in SUBSET ms, \A m \in ms : m.money \in Nat
  PROVE  /\ IsFiniteSet(gone) /\ IsFiniteSet(ms \ gone)
         /\ MoneyOf(gone) \in Nat /\ MoneyOf(ms \ gone) \in Nat
         /\ MoneyOf(ms) = MoneyOf(ms \ gone) + MoneyOf(gone)
  <1> DEFINE f == [m \in ms |-> m.money]
             S == ms \ gone
  <1>1. IsFiniteSet(gone) /\ IsFiniteSet(S)
    BY FS_Subset
  <1>2. \A m \in S \cup gone : f[m] \in Int
    OBVIOUS
  <1>3. S \cup gone = ms /\ S \cap gone = {} /\ S \in SUBSET ms
    OBVIOUS
  <1>4. /\ MoneyOf(gone) = SumFunctionOnSet(f, gone) /\ MoneyOf(S) = SumFunctionOnSet(f, S)
        /\ MoneyOf(ms) = SumFunctionOnSet(f, ms)
    BY <1>3, MoneySum
  <1>5. MoneyOf(gone) \in Nat /\ MoneyOf(S) \in Nat
    BY <1>1, MoneyType
  <1> HIDE DEF f, S
  <1>6. SumFunctionOnSet(f, S \cup gone) = SumFunctionOnSet(f, S) + SumFunctionOnSet(f, gone)
    BY <1>1, <1>2, <1>3, SumSplit
  <1> QED
    BY <1>1, <1>3, <1>4, <1>5, <1>6 DEF S

LEMMA MoneyRemove ==
  ASSUME NEW ms, IsFiniteSet(ms), NEW k \in ms, \A m \in ms : m.money \in Nat
  PROVE  /\ IsFiniteSet(ms \ {k}) /\ MoneyOf(ms \ {k}) \in Nat
         /\ MoneyOf(ms) = MoneyOf(ms \ {k}) + k.money
  <1> DEFINE S == ms \ {k}
  <1>1. IsFiniteSet(S) /\ S \cup {k} = ms /\ k \notin S
    BY FS_Subset
  <1>2. \A m \in S \cup {k} : m.money \in Nat
    OBVIOUS
  <1>3. \A m \in S : m.money \in Nat
    OBVIOUS
  <1> HIDE DEF S
  <1>4. MoneyOf(S) \in Nat
    BY <1>1, <1>3, MoneyType
  <1>5. MoneyOf(S \cup {k}) = MoneyOf(S) + k.money
    BY <1>1, <1>2, MoneyAdd
  <1> QED
    BY <1>1, <1>4, <1>5 DEF S

LEMMA StakesType ==
  ASSUME NEW sales \in AuctionTable, IsFiniteSet(sales)
  PROVE  /\ Stakes(sales) \in Nat
         /\ \A a \in sales : a.bid \in Nat /\ a.bid + Deposit <= Stakes(sales)
  <1> DEFINE f == [a \in sales |-> a.bid + Deposit]
  <1>1. Deposit \in Nat /\ MaxMoney \in Nat
    BY TablesAssumption
  <1>2. \A a \in sales : a.bid \in Nat
    BY <1>1 DEF AuctionTable, Auctions
  <1>3. \A a \in sales : f[a] \in Nat /\ f[a] = a.bid + Deposit
    BY <1>1, <1>2
  <1>4. Stakes(sales) = SumFunctionOnSet(f, sales)
    BY DEF Stakes, SumFunction
  <1> HIDE DEF f
  <1> QED
    BY <1>2, <1>3, <1>4, SumAtLeast

LEMMA StakesAdd ==
  ASSUME NEW sales \in AuctionTable, IsFiniteSet(sales), NEW b \in Auctions, b \notin sales
  PROVE  /\ IsFiniteSet(sales \cup {b})
         /\ Stakes(sales \cup {b}) = Stakes(sales) + b.bid + Deposit
  <1> DEFINE T == sales \cup {b}
             f == [a \in T |-> a.bid + Deposit]
  <1>1. Deposit \in Nat /\ MaxMoney \in Nat
    BY TablesAssumption
  <1>2. IsFiniteSet(T)
    BY FS_AddElement
  <1>3. \A a \in T : a.bid \in Nat
    BY <1>1 DEF AuctionTable, Auctions
  <1>4. \A a \in T : f[a] \in Int /\ f[a] = a.bid + Deposit
    BY <1>1, <1>3
  <1>5. Stakes(sales) = SumFunctionOnSet(f, sales) /\ Stakes(T) = SumFunctionOnSet(f, T)
    BY <1>2, StakesSum
  <1>6. Stakes(sales) \in Nat /\ b.bid \in Nat
    BY <1>3, StakesType
  <1> HIDE DEF f
  <1>7. SumFunctionOnSet(f, sales \cup {b}) = SumFunctionOnSet(f, sales) + f[b]
    BY <1>4, SumAdd
  <1>8. f[b] = b.bid + Deposit
    BY <1>4
  <1> QED
    BY <1>1, <1>2, <1>5, <1>6, <1>7, <1>8

LEMMA StakesRemove ==
  ASSUME NEW sales \in AuctionTable, IsFiniteSet(sales), NEW a \in sales
  PROVE  /\ IsFiniteSet(sales \ {a}) /\ Stakes(sales \ {a}) \in Nat
         /\ Stakes(sales) = Stakes(sales \ {a}) + a.bid + Deposit
  <1> DEFINE S == sales \ {a}
  <1>1. IsFiniteSet(S) /\ S \cup {a} = sales /\ a \notin S /\ S \in AuctionTable /\ a \in Auctions
    BY FS_Subset DEF AuctionTable
  <1> HIDE DEF S
  <1>2. Stakes(S) \in Nat
    BY <1>1, StakesType
  <1>3. Stakes(S \cup {a}) = Stakes(S) + a.bid + Deposit
    BY <1>1, StakesAdd
  <1> QED
    BY <1>1, <1>2, <1>3 DEF S

\* Nothing is worth more than all the gold there is.
LEMMA GoldType ==
  ASSUME NEW db, NEW next, Ok(db, next)
  PROVE  /\ Purses(db.gold) \in Nat /\ MoneyOf(db.mail) \in Nat
         /\ db.waste.gold \in Nat /\ Stakes(db.auction) \in Nat /\ AllGold(db) \in Nat
         /\ \A p \in Players : db.gold[p] \in Nat /\ db.gold[p] <= AllGold(db)
         /\ \A m \in db.mail : m.money \in Nat
         /\ \A p \in Players, m \in db.mail : db.gold[p] + m.money <= AllGold(db)
         /\ \A p \in Players, a \in db.auction :
               a.bid \in Nat /\ db.gold[p] + a.bid + Deposit <= AllGold(db)
  <1>1. Purses(db.gold) \in Nat /\ \A p \in Players : db.gold[p] \in Nat /\ db.gold[p] <= Purses(db.gold)
    BY PursesType, Columns DEF Ok
  <1>2. IsFiniteSet(db.mail) /\ \A m \in db.mail : m.money \in Nat
    BY TablesFacts DEF Ok, MailsOk, WideMails
  <1>3. MoneyOf(db.mail) \in Nat /\ \A m \in db.mail : m.money <= MoneyOf(db.mail)
    BY <1>2, MoneyType
  <1>4. db.waste.gold \in Nat
    BY TablesFacts DEF Ok
  <1>5. db.auction \in AuctionTable /\ IsFiniteSet(db.auction)
    BY DEF Ok, SalesOk
  <1>6. /\ Stakes(db.auction) \in Nat
        /\ \A a \in db.auction : a.bid \in Nat /\ a.bid + Deposit <= Stakes(db.auction)
    BY <1>5, StakesType
  <1>7. Deposit \in Nat
    BY TablesAssumption
  <1>8. PICK x \in Nat, y \in Nat, z \in Nat, w \in Nat :
            /\ x = Purses(db.gold) /\ y = MoneyOf(db.mail) /\ z = db.waste.gold
            /\ w = Stakes(db.auction)
    BY <1>1, <1>3, <1>4, <1>6
  <1>9. AllGold(db) = x + y + z + w
    BY <1>8, GoldParts
  <1> QED
    BY <1>1, <1>2, <1>3, <1>6, <1>7, <1>8, <1>9

-----------------------------------------------------------------------------
(***************************************************************************)
(* Each statement keeps the tables in order, and moves so much gold.       *)
(***************************************************************************)
LEMMA MailFacts ==
  ASSUME NEW db, NEW next, Ok(db, next)
  PROVE  /\ db \in WideTables /\ db.mail \in MailTable /\ IsFiniteSet(db.mail)
         /\ db.mail \subseteq WideMails
         /\ \A m \in db.mail : m.id \in Nat /\ m.money \in Nat /\ MailOk(m) /\ m.id < next
         /\ \A m, n \in db.mail : m.id = n.id => m = n
  BY TablesFacts DEF Ok, MailsOk, WideMails

LEMMA MailsAdd ==
  ASSUME NEW ms, NEW next \in Nat, MailsOk(ms, next),
         NEW k \in WideMails, k.id = next, MailOk(k), Roomy => k.money <= MaxMoney
  PROVE  /\ MailsOk(ms \cup {k}, next + 1) /\ k \notin ms
         /\ MoneyOf(ms \cup {k}) = MoneyOf(ms) + k.money
  <1>1. IsFiniteSet(ms) /\ ms \subseteq WideMails
    BY DEF MailsOk, MailTable
  <1>2. \A m \in ms : m.id \in Nat /\ m.id < next
    BY <1>1 DEF MailsOk, WideMails
  <1>3. k \notin ms
    BY <1>2
  <1>4. \A m \in ms \cup {k} : m.money \in Nat
    BY <1>1 DEF WideMails
  <1>5. IsFiniteSet(ms \cup {k}) /\ MoneyOf(ms \cup {k}) = MoneyOf(ms) + k.money
    BY <1>1, <1>3, <1>4, MoneyAdd
  <1>6. \A m \in ms \cup {k} : MailOk(m) /\ m.id < next + 1
    BY <1>2 DEF MailsOk
  <1>7. \A m, n \in ms \cup {k} : m.id = n.id => m = n
    BY <1>2 DEF MailsOk
  <1>8. Roomy => \A m \in ms \cup {k} : m.money <= MaxMoney
    BY DEF MailsOk
  <1>9. ms \cup {k} \in MailTable
    BY <1>1 DEF MailTable
  <1> QED
    BY <1>3, <1>5, <1>6, <1>7, <1>8, <1>9 DEF MailsOk

LEMMA MailsRemove ==
  ASSUME NEW ms, NEW next, MailsOk(ms, next), NEW gone \in SUBSET ms
  PROVE  /\ MailsOk(ms \ gone, next) /\ MoneyOf(gone) \in Nat /\ MoneyOf(ms \ gone) \in Nat
         /\ MoneyOf(ms) = MoneyOf(ms \ gone) + MoneyOf(gone)
  <1>1. IsFiniteSet(ms) /\ ms \subseteq WideMails
    BY DEF MailsOk, MailTable
  <1>2. \A m \in ms : m.money \in Nat
    BY <1>1 DEF WideMails
  <1>3. /\ IsFiniteSet(ms \ gone) /\ MoneyOf(gone) \in Nat /\ MoneyOf(ms \ gone) \in Nat
        /\ MoneyOf(ms) = MoneyOf(ms \ gone) + MoneyOf(gone)
    BY <1>1, <1>2, MoneySplit
  <1>4. ms \ gone \in MailTable
    BY <1>1 DEF MailTable
  <1> QED
    BY <1>3, <1>4 DEF MailsOk

LEMMA MailsReplace ==
  ASSUME NEW ms, NEW next, MailsOk(ms, next), NEW k \in ms,
         NEW j \in WideMails, j.id = k.id, MailOk(j), j.money <= k.money
  PROVE  /\ MailsOk((ms \ {k}) \cup {j}, next)
         /\ MoneyOf((ms \ {k}) \cup {j}) = MoneyOf(ms) - k.money + j.money
  <1> DEFINE S == ms \ {k}
  <1>1. IsFiniteSet(ms) /\ ms \subseteq WideMails
    BY DEF MailsOk, MailTable
  <1>2. \A m \in ms \cup {j} : m.money \in Nat
    BY <1>1 DEF WideMails
  <1>3. IsFiniteSet(S) /\ MoneyOf(S) \in Nat /\ MoneyOf(ms) = MoneyOf(S) + k.money
    BY <1>1, <1>2, MoneyRemove
  <1>4. \A m, n \in ms : m.id = n.id => m = n
    BY DEF MailsOk
  <1>5. j \notin S /\ \A m \in S : m.id # j.id
    BY <1>4
  <1>6. \A m \in S \cup {j} : m.money \in Nat
    BY <1>2
  <1>7. \A m \in S \cup {j} : MailOk(m) /\ m.id < next
    BY DEF MailsOk
  <1>8. \A m, n \in S \cup {j} : m.id = n.id => m = n
    BY <1>4, <1>5
  <1>9. Roomy => \A m \in S \cup {j} : m.money <= MaxMoney
    <2>1. SUFFICES ASSUME Roomy PROVE j.money <= MaxMoney
      BY DEF MailsOk
    <2>2. k.money <= MaxMoney /\ k.money \in Nat /\ j.money \in Nat /\ MaxMoney \in Nat
      BY <1>2, <2>1, TablesAssumption DEF MailsOk
    <2> QED
      BY <2>2
  <1>10. S \cup {j} \in MailTable
    BY <1>1 DEF MailTable
  <1> HIDE DEF S
  <1>11. IsFiniteSet(S \cup {j}) /\ MoneyOf(S \cup {j}) = MoneyOf(S) + j.money
    BY <1>3, <1>5, <1>6, MoneyAdd
  <1>12. k.money \in Nat /\ j.money \in Nat
    BY <1>2
  <1>13. MailsOk(S \cup {j}, next)
    BY <1>7, <1>8, <1>9, <1>10, <1>11 DEF MailsOk
  <1>14. MoneyOf(S \cup {j}) = MoneyOf(ms) - k.money + j.money
    BY <1>3, <1>11, <1>12
  <1> QED
    BY <1>13, <1>14 DEF S

LEMMA GoldNumbers ==
  ASSUME NEW db, NEW next, Ok(db, next)
  PROVE  \E g, m, w, s \in Nat :
            /\ g = Purses(db.gold) /\ m = MoneyOf(db.mail) /\ w = db.waste.gold
            /\ s = Stakes(db.auction) /\ AllGold(db) = g + m + w + s
  BY GoldParts, GoldType

LEMMA StateGold ==
  ASSUME NEW db, NEW next, Ok(db, next), NEW p \in Players, NEW g \in 0 .. MaxMoney,
         NEW fee \in Nat, NEW d, d = Execute(db, SaveGold(p, g, fee))
  PROVE  /\ Ok(d, next) /\ d.gold = [db.gold EXCEPT ![p] = g]
         /\ d.inventory = db.inventory /\ d.mail = db.mail /\ d.auction = db.auction
         /\ d.waste.items = db.waste.items
         /\ AllGold(d) = AllGold(db) - db.gold[p] + g + fee
  <1>1. db \in WideTables
    BY DEF Ok
  <1>2. /\ d \in WideTables /\ d.gold = [db.gold EXCEPT ![p] = g]
        /\ d.inventory = db.inventory /\ d.mail = db.mail /\ d.auction = db.auction
        /\ d.waste.gold = db.waste.gold + fee /\ d.waste.items = db.waste.items
    BY <1>1, ExecuteGold
  <1>3. Ok(d, next)
    BY <1>2 DEF Ok
  <1>4. db.gold \in GoldTable
    BY <1>1, Columns
  <1>5. Purses(d.gold) = Purses(db.gold) - db.gold[p] + g
    BY <1>2, <1>4, PursesSet
  <1>6. db.gold[p] \in Nat /\ g \in Nat
    BY GoldType, TablesAssumption
  <1>7. AllGold(d) = AllGold(db) - db.gold[p] + g + fee
    <2>1. PICK x, y, w, s \in Nat :
             /\ x = Purses(db.gold) /\ y = MoneyOf(db.mail) /\ w = db.waste.gold
             /\ s = Stakes(db.auction) /\ AllGold(db) = x + y + w + s
      BY GoldNumbers
    <2>2. AllGold(d) = Purses(d.gold) + MoneyOf(d.mail) + d.waste.gold + Stakes(d.auction)
      BY GoldParts
    <2> QED
      BY <1>2, <1>5, <1>6, <2>1, <2>2
  <1> QED
    BY <1>2, <1>3, <1>7

LEMMA StateStore ==
  ASSUME NEW db, NEW next, Ok(db, next), NEW p \in Players, NEW i \in Items,
         NEW d, d = Execute(db, StoreItem(p, i))
  PROVE  /\ Ok(d, next) /\ d.inventory = [db.inventory EXCEPT ![p] = @ \cup {i}]
         /\ d.gold = db.gold /\ d.mail = db.mail /\ d.auction = db.auction
         /\ d.waste.items = db.waste.items /\ AllGold(d) = AllGold(db)
  <1>1. db \in WideTables
    BY DEF Ok
  <1>2. /\ d \in WideTables
        /\ d.inventory = [db.inventory EXCEPT ![p] = @ \cup {i}]
        /\ d.gold = db.gold /\ d.mail = db.mail /\ d.auction = db.auction
        /\ d.waste.gold = db.waste.gold /\ d.waste.items = db.waste.items
    BY <1>1, ExecuteStore
  <1>3. Ok(d, next)
    BY <1>2 DEF Ok
  <1> QED
    BY <1>2, <1>3, GoldParts

LEMMA StateTakeout ==
  ASSUME NEW db, NEW next, Ok(db, next), NEW i \in Items,
         NEW d, d = Execute(db, DeleteFromInventory(i))
  PROVE  /\ Ok(d, next) /\ d.inventory = [p \in Players |-> db.inventory[p] \ {i}]
         /\ d.gold = db.gold /\ d.mail = db.mail /\ d.auction = db.auction
         /\ d.waste.items = db.waste.items /\ AllGold(d) = AllGold(db)
  <1>1. db \in WideTables
    BY DEF Ok
  <1>2. /\ d \in WideTables
        /\ d.inventory = [p \in Players |-> db.inventory[p] \ {i}]
        /\ d.gold = db.gold /\ d.mail = db.mail /\ d.auction = db.auction
        /\ d.waste.gold = db.waste.gold /\ d.waste.items = db.waste.items
    BY <1>1, ExecuteTakeout
  <1>3. Ok(d, next)
    BY <1>2 DEF Ok
  <1> QED
    BY <1>2, <1>3, GoldParts

\* A letter that is written next.
Fresh(m, next) ==
    m \in WideMails /\ m.id = next /\ MailOk(m) /\ (Roomy => m.money <= MaxMoney)

LEMMA StateInsert ==
  ASSUME NEW db, NEW next \in Nat, Ok(db, next), NEW m, Fresh(m, next),
         NEW d, d = Execute(db, InsertMail(m))
  PROVE  /\ Ok(d, next + 1) /\ d.mail = db.mail \cup {m} /\ m \notin db.mail
         /\ d.gold = db.gold /\ d.inventory = db.inventory /\ d.auction = db.auction
         /\ d.waste.items = db.waste.items
         /\ m.money \in Nat /\ AllGold(d) = AllGold(db) + m.money
  <1>0. m \in WideMails /\ m.id = next /\ MailOk(m) /\ (Roomy => m.money <= MaxMoney)
    BY DEF Fresh
  <1>1. db \in WideTables /\ MailsOk(db.mail, next)
    BY DEF Ok
  <1>2. /\ d \in WideTables /\ d.mail = db.mail \cup {m}
        /\ SameBags(db, d) /\ SameWaste(db, d) /\ d.auction = db.auction
    BY <1>0, <1>1, ExecuteInsert
  <1>3. /\ MailsOk(db.mail \cup {m}, next + 1) /\ m \notin db.mail
        /\ MoneyOf(db.mail \cup {m}) = MoneyOf(db.mail) + m.money
    BY <1>0, <1>1, MailsAdd
  <1>4. Ok(d, next + 1)
    BY <1>2, <1>3 DEF Ok
  <1>5. /\ d.gold = db.gold /\ d.inventory = db.inventory /\ d.waste.gold = db.waste.gold
        /\ d.waste.items = db.waste.items
    BY <1>2 DEF SameBags, SameWaste
  <1>6. m.money \in Nat
    BY <1>0 DEF WideMails
  <1>7. AllGold(d) = AllGold(db) + m.money
    <2>1. PICK g, y, w, s \in Nat :
             /\ g = Purses(db.gold) /\ y = MoneyOf(db.mail) /\ w = db.waste.gold
             /\ s = Stakes(db.auction) /\ AllGold(db) = g + y + w + s
      BY GoldNumbers
    <2>2. AllGold(d) = Purses(d.gold) + MoneyOf(d.mail) + d.waste.gold + Stakes(d.auction)
      BY GoldParts
    <2> QED
      BY <1>2, <1>3, <1>5, <1>6, <2>1, <2>2
  <1> QED
    BY <1>2, <1>3, <1>4, <1>5, <1>6, <1>7

\* Of the mails ms that are written only j, the new k, is not in the table yet.
OneUpdate(ms, table, k, j) == j \in ms /\ (k = j \/ k \notin ms) /\ ms \subseteq table \cup {j}

LEMMA StateUpdate ==
  ASSUME NEW db, NEW next, Ok(db, next), NEW ms, NEW d, d = Execute(db, UpdateMails(ms)),
         NEW k \in db.mail, NEW j \in WideMails, j.id = k.id, MailOk(j), j.money <= k.money,
         OneUpdate(ms, db.mail, k, j)
  PROVE  /\ Ok(d, next) /\ d.mail = (db.mail \ {k}) \cup {j}
         /\ d.gold = db.gold /\ d.inventory = db.inventory /\ d.auction = db.auction
         /\ d.waste.items = db.waste.items
         /\ k.money \in Nat /\ j.money \in Nat
         /\ AllGold(d) = AllGold(db) - k.money + j.money
  <1>1. db \in WideTables /\ MailsOk(db.mail, next) /\ \A m, n \in db.mail : m.id = n.id => m = n
    BY DEF Ok, MailsOk
  <1>2. /\ d \in WideTables /\ d.mail = (db.mail \ {k}) \cup {j}
        /\ SameBags(db, d) /\ SameWaste(db, d) /\ d.auction = db.auction
    BY <1>1, ExecuteUpdate DEF OneUpdate
  <1>3. /\ MailsOk((db.mail \ {k}) \cup {j}, next)
        /\ MoneyOf((db.mail \ {k}) \cup {j}) = MoneyOf(db.mail) - k.money + j.money
    BY <1>1, MailsReplace
  <1>4. Ok(d, next)
    BY <1>2, <1>3 DEF Ok
  <1>5. /\ d.gold = db.gold /\ d.inventory = db.inventory /\ d.waste.gold = db.waste.gold
        /\ d.waste.items = db.waste.items
    BY <1>2 DEF SameBags, SameWaste
  <1>6. k.money \in Nat /\ j.money \in Nat
    BY MailFacts DEF WideMails
  <1>7. AllGold(d) = AllGold(db) - k.money + j.money
    <2>1. PICK g, y, w, s \in Nat :
             /\ g = Purses(db.gold) /\ y = MoneyOf(db.mail) /\ w = db.waste.gold
             /\ s = Stakes(db.auction) /\ AllGold(db) = g + y + w + s
      BY GoldNumbers
    <2>2. AllGold(d) = Purses(d.gold) + MoneyOf(d.mail) + d.waste.gold + Stakes(d.auction)
      BY GoldParts
    <2> QED
      BY <1>2, <1>3, <1>5, <1>6, <2>1, <2>2
  <1> QED
    BY <1>2, <1>4, <1>5, <1>6, <1>7

LEMMA StateNoUpdate ==
  ASSUME NEW db, NEW next, Ok(db, next), NEW ms, NEW d, d = Execute(db, UpdateMails(ms)),
         ms \subseteq db.mail
  PROVE  /\ Ok(d, next) /\ d.mail = db.mail
         /\ d.gold = db.gold /\ d.inventory = db.inventory /\ d.auction = db.auction
         /\ d.waste.items = db.waste.items /\ AllGold(d) = AllGold(db)
  <1>1. db \in WideTables /\ \A m, n \in db.mail : m.id = n.id => m = n
    BY DEF Ok, MailsOk
  <1>2. /\ d \in WideTables /\ d.mail = db.mail
        /\ SameBags(db, d) /\ SameWaste(db, d) /\ d.auction = db.auction
    BY <1>1, ExecuteNoUpdate
  <1>3. Ok(d, next)
    BY <1>2 DEF Ok
  <1>4. /\ d.gold = db.gold /\ d.inventory = db.inventory /\ d.waste.gold = db.waste.gold
        /\ d.waste.items = db.waste.items
    BY <1>2 DEF SameBags, SameWaste
  <1> QED
    BY <1>2, <1>3, <1>4, GoldParts

LEMMA StateReturn ==
  ASSUME NEW db, NEW next, Ok(db, next), NEW k \in db.mail, k.sender \in Players,
         NEW d, d = Execute(db, ReturnMail(k.id))
  PROVE  /\ Ok(d, next) /\ d.mail = (db.mail \ {k}) \cup {Returned(k)}
         /\ Returned(k).item = k.item
         /\ d.gold = db.gold /\ d.inventory = db.inventory /\ d.auction = db.auction
         /\ d.waste.items = db.waste.items /\ AllGold(d) = AllGold(db)
  <1> DEFINE j == Returned(k)
  <1>1. db \in WideTables /\ MailsOk(db.mail, next) /\ \A m, n \in db.mail : m.id = n.id => m = n
    BY DEF Ok, MailsOk
  <1>2. k \in WideMails /\ MailOk(k) /\ k.money \in Nat
    BY MailFacts
  <1>3. /\ j.item = k.item /\ j.id = k.id /\ j.money = k.money /\ j.cod = 0
        /\ j.type = k.type /\ j.sender = k.receiver /\ j.receiver = k.sender
    BY <1>2 DEF Returned, WideMails
  <1>4. MailOk(j)
    BY <1>2, <1>3 DEF MailOk, WideMails
  <1> HIDE DEF j
  <1>5. /\ j \in WideMails /\ d \in WideTables /\ d.mail = (db.mail \ {k}) \cup {j}
        /\ SameBags(db, d) /\ SameWaste(db, d) /\ d.auction = db.auction
    BY <1>1, ExecuteReturn DEF j
  <1>6. j.money <= k.money
    BY <1>2, <1>3
  <1>7. /\ MailsOk((db.mail \ {k}) \cup {j}, next)
        /\ MoneyOf((db.mail \ {k}) \cup {j}) = MoneyOf(db.mail) - k.money + j.money
    BY <1>1, <1>3, <1>4, <1>5, <1>6, MailsReplace, SMTT(30)
  <1>8. Ok(d, next)
    BY <1>5, <1>7 DEF Ok
  <1>9. /\ d.gold = db.gold /\ d.inventory = db.inventory /\ d.waste.gold = db.waste.gold
        /\ d.waste.items = db.waste.items
    BY <1>5 DEF SameBags, SameWaste
  <1>10. MoneyOf(d.mail) = MoneyOf(db.mail)
    BY <1>2, <1>3, <1>5, <1>7, GoldType
  <1>11. AllGold(d) = AllGold(db)
    BY <1>5, <1>9, <1>10, GoldParts
  <1> QED
    BY <1>3, <1>5, <1>8, <1>9, <1>11 DEF j

LEMMA StateMove ==
  ASSUME NEW db, NEW next, Ok(db, next), NEW k \in db.mail,
         NEW d, d = Execute(db, DeleteMails({k.id}, "moved"))
  PROVE  /\ Ok(d, next) /\ d.mail = db.mail \ {k}
         /\ d.gold = db.gold /\ d.inventory = db.inventory /\ d.auction = db.auction
         /\ d.waste.items = db.waste.items
         /\ k.money \in Nat /\ AllGold(d) = AllGold(db) - k.money
  <1>1. db \in WideTables /\ MailsOk(db.mail, next)
    BY DEF Ok
  <1>2. {m \in db.mail : m.id \in {k.id}} = {k}
    BY MailFacts
  <1>3. /\ d \in WideTables /\ d.mail = db.mail \ {k}
        /\ SameBags(db, d) /\ SameWaste(db, d) /\ d.auction = db.auction
    BY <1>1, <1>2, ExecuteDelete
  <1>4. MailsOk(db.mail \ {k}, next)
    BY <1>1, MailsRemove
  <1>5. MoneyOf(db.mail) = MoneyOf(db.mail \ {k}) + k.money /\ MoneyOf(db.mail \ {k}) \in Nat
    BY MailFacts, MoneyRemove
  <1>6. Ok(d, next)
    BY <1>3, <1>4 DEF Ok
  <1>7. /\ d.gold = db.gold /\ d.inventory = db.inventory /\ d.waste.gold = db.waste.gold
        /\ d.waste.items = db.waste.items
    BY <1>3 DEF SameBags, SameWaste
  <1>8. k.money \in Nat
    BY MailFacts
  <1>9. AllGold(d) = AllGold(db) - k.money
    <2>1. PICK g, y, w, s \in Nat :
             /\ g = Purses(db.gold) /\ y = MoneyOf(db.mail) /\ w = db.waste.gold
             /\ s = Stakes(db.auction) /\ AllGold(db) = g + y + w + s
      BY GoldNumbers
    <2>2. AllGold(d) = Purses(d.gold) + MoneyOf(d.mail) + d.waste.gold + Stakes(d.auction)
      BY GoldParts
    <2>3. PICK r, v \in Nat : r = MoneyOf(db.mail \ {k}) /\ v = k.money
      BY <1>5, <1>8
    <2>4. y = r + v
      BY <1>5, <2>1, <2>3
    <2>5. MoneyOf(d.mail) = r
      BY <1>3, <2>3
    <2>6. AllGold(d) = g + r + w + s
      BY <1>3, <1>7, <2>1, <2>2, <2>5
    <2> QED
      BY <2>1, <2>3, <2>4, <2>6
  <1> QED
    BY <1>3, <1>6, <1>7, <1>8, <1>9

Wastes(db, d, gone) ==
    \E ids : d = Execute(db, DeleteMails(ids, "wasted")) /\ Gone(gone, db.mail, ids)

LEMMA StateWaste ==
  ASSUME NEW db, NEW next, Ok(db, next), NEW d, NEW gone, Wastes(db, d, gone)
  PROVE  /\ Ok(d, next) /\ d.mail = db.mail \ gone
         /\ d.gold = db.gold /\ d.inventory = db.inventory /\ d.auction = db.auction
         /\ d.waste.items = db.waste.items \cup ItemsOf(gone)
         /\ AllGold(d) = AllGold(db)
  <1>0. PICK ids : d = Execute(db, DeleteMails(ids, "wasted")) /\ Gone(gone, db.mail, ids)
    BY DEF Wastes
  <1>1. db \in WideTables /\ MailsOk(db.mail, next) /\ gone \in SUBSET db.mail
    BY <1>0 DEF Ok, Gone
  <1>2. /\ MailsOk(db.mail \ gone, next) /\ MoneyOf(gone) \in Nat /\ MoneyOf(db.mail \ gone) \in Nat
        /\ MoneyOf(db.mail) = MoneyOf(db.mail \ gone) + MoneyOf(gone)
    BY <1>1, MailsRemove
  <1>3. /\ d \in WideTables /\ d.mail = db.mail \ gone
        /\ SameBags(db, d) /\ d.auction = db.auction
        /\ d.waste.gold = db.waste.gold + MoneyOf(gone)
        /\ d.waste.items = db.waste.items \cup ItemsOf(gone)
    BY <1>0, <1>1, <1>2, ExecuteWaste
  <1>4. Ok(d, next)
    BY <1>2, <1>3 DEF Ok
  <1>5. d.gold = db.gold /\ d.inventory = db.inventory
    BY <1>3 DEF SameBags
  <1>6. AllGold(d) = AllGold(db)
    <2>1. PICK g, y, w, s \in Nat :
             /\ g = Purses(db.gold) /\ y = MoneyOf(db.mail) /\ w = db.waste.gold
             /\ s = Stakes(db.auction) /\ AllGold(db) = g + y + w + s
      BY GoldNumbers
    <2>2. AllGold(d) = Purses(d.gold) + MoneyOf(d.mail) + d.waste.gold + Stakes(d.auction)
      BY GoldParts
    <2>3. PICK r, v \in Nat : r = MoneyOf(db.mail \ gone) /\ v = MoneyOf(gone)
      BY <1>2
    <2>4. y = r + v
      BY <1>2, <2>1, <2>3
    <2>5. MoneyOf(d.mail) = r /\ d.waste.gold = w + v
      BY <1>3, <2>1, <2>3
    <2>6. AllGold(d) = g + r + (w + v) + s
      BY <1>3, <1>5, <2>1, <2>2, <2>5
    <2> QED
      BY <2>1, <2>4, <2>6
  <1> QED
    BY <1>3, <1>4, <1>5, <1>6

LEMMA StateSell ==
  ASSUME NEW db, NEW next, Ok(db, next), NEW b \in Auctions, b \notin db.auction, AuctionOk(b),
         NEW d, d = Execute(db, InsertAuction(b))
  PROVE  /\ Ok(d, next) /\ d.auction = db.auction \cup {b}
         /\ d.gold = db.gold /\ d.inventory = db.inventory /\ d.mail = db.mail
         /\ d.waste.items = db.waste.items
         /\ AllGold(d) = AllGold(db) + b.bid + Deposit
  <1>1. db \in WideTables /\ db.auction \in AuctionTable /\ IsFiniteSet(db.auction)
    BY DEF Ok, SalesOk
  <1>2. /\ d \in WideTables /\ d.auction = db.auction \cup {b} /\ d.mail = db.mail
        /\ SameBags(db, d)
        /\ d.waste.gold = db.waste.gold /\ d.waste.items = db.waste.items
    BY <1>1, ExecuteInsertAuction
  <1>3. /\ IsFiniteSet(db.auction \cup {b})
        /\ Stakes(db.auction \cup {b}) = Stakes(db.auction) + b.bid + Deposit
    BY <1>1, StakesAdd
  <1>4. SalesOk(db.auction \cup {b})
    BY <1>1, <1>3 DEF Ok, SalesOk, AuctionTable
  <1>5. Ok(d, next)
    BY <1>2, <1>4 DEF Ok
  <1>6. d.gold = db.gold /\ d.inventory = db.inventory
    BY <1>2 DEF SameBags
  <1>7. b.bid \in Nat /\ Deposit \in Nat
    BY TablesAssumption DEF Auctions
  <1>8. AllGold(d) = AllGold(db) + b.bid + Deposit
    <2>1. PICK g, y, w, s \in Nat :
             /\ g = Purses(db.gold) /\ y = MoneyOf(db.mail) /\ w = db.waste.gold
             /\ s = Stakes(db.auction) /\ AllGold(db) = g + y + w + s
      BY GoldNumbers
    <2>2. AllGold(d) = Purses(d.gold) + MoneyOf(d.mail) + d.waste.gold + Stakes(d.auction)
      BY GoldParts
    <2> QED
      BY <1>2, <1>3, <1>6, <1>7, <2>1, <2>2
  <1> QED
    BY <1>2, <1>5, <1>6, <1>8

LEMMA StateBid ==
  ASSUME NEW db, NEW next, Ok(db, next), NEW a \in db.auction, NEW b \in Auctions,
         b.item = a.item, AuctionOk(b), \A x \in db.auction : x.item = a.item => x = a,
         NEW d, d = Execute(db, UpdateAuction(b))
  PROVE  /\ Ok(d, next) /\ d.auction = (db.auction \ {a}) \cup {b}
         /\ d.gold = db.gold /\ d.inventory = db.inventory /\ d.mail = db.mail
         /\ d.waste.items = db.waste.items
         /\ AllGold(d) = AllGold(db) - a.bid + b.bid
  <1> DEFINE S == db.auction \ {a}
  <1>1. db \in WideTables /\ db.auction \in AuctionTable /\ IsFiniteSet(db.auction)
    BY DEF Ok, SalesOk
  <1>2. /\ d \in WideTables /\ d.auction = S \cup {b} /\ d.mail = db.mail
        /\ SameBags(db, d)
        /\ d.waste.gold = db.waste.gold /\ d.waste.items = db.waste.items
    BY <1>1, ExecuteUpdateAuction
  <1>3. /\ IsFiniteSet(S) /\ Stakes(S) \in Nat
        /\ Stakes(db.auction) = Stakes(S) + a.bid + Deposit
    BY <1>1, StakesRemove
  <1>4. S \in AuctionTable /\ b \notin S
    BY <1>1 DEF AuctionTable
  <1>5. SalesOk(S)
    BY <1>3, <1>4 DEF Ok, SalesOk
  <1> HIDE DEF S
  <1>6. IsFiniteSet(S \cup {b}) /\ Stakes(S \cup {b}) = Stakes(S) + b.bid + Deposit
    BY <1>3, <1>4, StakesAdd
  <1>7. SalesOk(S \cup {b})
    BY <1>4, <1>5, <1>6 DEF SalesOk, AuctionTable
  <1>8. Ok(d, next)
    BY <1>2, <1>7 DEF Ok
  <1>9. d.gold = db.gold /\ d.inventory = db.inventory
    BY <1>2 DEF SameBags
  <1>10. a.bid \in Nat /\ b.bid \in Nat /\ Deposit \in Nat
    BY <1>1, TablesAssumption DEF Auctions, AuctionTable
  <1>11. AllGold(d) = AllGold(db) - a.bid + b.bid
    <2>1. PICK g, y, w, s \in Nat :
             /\ g = Purses(db.gold) /\ y = MoneyOf(db.mail) /\ w = db.waste.gold
             /\ s = Stakes(db.auction) /\ AllGold(db) = g + y + w + s
      BY GoldNumbers
    <2>2. AllGold(d) = Purses(d.gold) + MoneyOf(d.mail) + d.waste.gold + Stakes(d.auction)
      BY GoldParts
    <2> QED
      BY <1>2, <1>3, <1>6, <1>9, <1>10, <2>1, <2>2
  <1> QED
    BY <1>2, <1>8, <1>9, <1>11 DEF S

LEMMA StateConclude ==
  ASSUME NEW db, NEW next, Ok(db, next), NEW a \in db.auction, NEW lost \in Nat,
         \A x \in db.auction : x.item = a.item => x = a,
         NEW d, d = Execute(db, DeleteAuction(a.item, lost))
  PROVE  /\ Ok(d, next) /\ d.auction = db.auction \ {a}
         /\ d.gold = db.gold /\ d.inventory = db.inventory /\ d.mail = db.mail
         /\ d.waste.items = db.waste.items
         /\ AllGold(d) = AllGold(db) - a.bid - Deposit + lost
  <1> DEFINE S == db.auction \ {a}
  <1>1. db \in WideTables /\ db.auction \in AuctionTable /\ IsFiniteSet(db.auction)
    BY DEF Ok, SalesOk
  <1>2. /\ d \in WideTables /\ d.auction = S /\ d.mail = db.mail
        /\ SameBags(db, d)
        /\ d.waste.gold = db.waste.gold + lost /\ d.waste.items = db.waste.items
    BY <1>1, ExecuteDeleteAuction
  <1>3. /\ IsFiniteSet(S) /\ Stakes(S) \in Nat
        /\ Stakes(db.auction) = Stakes(S) + a.bid + Deposit
    BY <1>1, StakesRemove
  <1>4. SalesOk(S)
    BY <1>1, <1>3 DEF Ok, SalesOk, AuctionTable
  <1>5. Ok(d, next)
    BY <1>2, <1>4 DEF Ok
  <1>6. d.gold = db.gold /\ d.inventory = db.inventory
    BY <1>2 DEF SameBags
  <1>7. a.bid \in Nat /\ Deposit \in Nat
    BY <1>1, TablesAssumption DEF Auctions, AuctionTable
  <1>8. AllGold(d) = AllGold(db) - a.bid - Deposit + lost
    <2>1. PICK g, y, w, s \in Nat :
             /\ g = Purses(db.gold) /\ y = MoneyOf(db.mail) /\ w = db.waste.gold
             /\ s = Stakes(db.auction) /\ AllGold(db) = g + y + w + s
      BY GoldNumbers
    <2>2. AllGold(d) = Purses(d.gold) + MoneyOf(d.mail) + d.waste.gold + Stakes(d.auction)
      BY GoldParts
    <2> QED
      BY <1>2, <1>3, <1>6, <1>7, <2>1, <2>2
  <1> QED
    BY <1>2, <1>5, <1>6, <1>8 DEF S

-----------------------------------------------------------------------------
(***************************************************************************)
(* Player::_SaveMail for the letters of p, all of which are in the tables, *)
(* but that l now has the mail j.                                          *)
(***************************************************************************)
Marked(letters) == {l.mail : l \in {x \in letters : x.state = "deleted"}}
LettersOk(letters, ms) ==
    /\ \A l \in letters : Letter(l) /\ l.mail \in ms
    /\ \A l, k \in letters : l.mail = k.mail => l = k

\* The tables d after SaveMail in the tables db.
Saved(db, c, d, letters) ==
    c = Execute(db, SaveMail(letters)[1]) /\ d = Execute(c, SaveMail(letters)[2])

LEMMA SaveUnchanged ==
  ASSUME NEW db, NEW next, Ok(db, next), NEW letters, LettersOk(letters, db.mail),
         NEW c, NEW d, Saved(db, c, d, letters)
  PROVE  /\ Ok(d, next) /\ d.mail = db.mail \ Marked(letters)
         /\ d.gold = db.gold /\ d.inventory = db.inventory /\ d.auction = db.auction
         /\ d.waste.items = db.waste.items \cup ItemsOf(Marked(letters))
         /\ AllGold(d) = AllGold(db)
  <1> DEFINE ms == {l.mail : l \in {x \in letters : x.state = "changed"}}
             ids == {l.mail.id : l \in {x \in letters : x.state = "deleted"}}
  <1>1. c = Execute(db, UpdateMails(ms)) /\ d = Execute(c, DeleteMails(ids, "wasted"))
    BY DEF Saved, SaveMail
  <1>2. ms \subseteq db.mail
    BY DEF LettersOk
  <1>3. Gone(Marked(letters), db.mail, ids)
    BY MailFacts DEF LettersOk, Marked, Gone
  <1> HIDE DEF ms, ids
  <1>4. /\ Ok(c, next) /\ c.mail = db.mail
        /\ c.gold = db.gold /\ c.inventory = db.inventory /\ c.auction = db.auction
        /\ c.waste.items = db.waste.items /\ AllGold(c) = AllGold(db)
    BY <1>1, <1>2, StateNoUpdate
  <1>5. Wastes(c, d, Marked(letters))
    BY <1>1, <1>3, <1>4 DEF Wastes
  <1>6. /\ Ok(d, next) /\ d.mail = c.mail \ Marked(letters)
        /\ d.gold = c.gold /\ d.inventory = c.inventory /\ d.auction = c.auction
        /\ d.waste.items = c.waste.items \cup ItemsOf(Marked(letters))
        /\ AllGold(d) = AllGold(c)
    BY <1>4, <1>5, StateWaste
  <1> QED
    BY <1>4, <1>6

\* Of the letters in old, l became the letter j.
Retaken(letters, old, l, j) ==
    letters = (old \ {l}) \cup {[mail |-> j, state |-> "changed"]}

\* The tables d after such letters were saved to db.
Taken(db, d, next, old, k, j) ==
    /\ Ok(d, next) /\ d.mail = ((db.mail \ {k}) \cup {j}) \ Marked(old)
    /\ j \notin db.mail /\ j \notin Marked(old) /\ k \notin Marked(old)
    /\ d.gold = db.gold /\ d.inventory = db.inventory /\ d.auction = db.auction
    /\ d.waste.items = db.waste.items \cup ItemsOf(Marked(old))
    /\ k.money \in Nat /\ j.money \in Nat
    /\ AllGold(d) = AllGold(db) - k.money + j.money

LEMMA SaveTaken ==
  ASSUME NEW db, NEW next, Ok(db, next), NEW old, LettersOk(old, db.mail),
         NEW l \in old, l.state # "deleted",
         NEW j \in WideMails, j # l.mail, j.id = l.mail.id, MailOk(j), j.money <= l.mail.money,
         NEW letters, Retaken(letters, old, l, j),
         NEW c, NEW d, Saved(db, c, d, letters)
  PROVE  Taken(db, d, next, old, l.mail, j)
  <1> DEFINE ms == {x.mail : x \in {x \in letters : x.state = "changed"}}
             ids == {x.mail.id : x \in {x \in letters : x.state = "deleted"}}
             k == l.mail
             t == [mail |-> j, state |-> "changed"]
  <1>1. c = Execute(db, UpdateMails(ms)) /\ d = Execute(c, DeleteMails(ids, "wasted"))
    BY DEF Saved, SaveMail
  <1>2. k \in db.mail /\ \A x \in old : x.mail \in db.mail /\ (x.mail = k => x = l)
    BY DEF LettersOk
  <1>3. t.mail = j /\ t.state = "changed" /\ t \in letters
    BY DEF Retaken
  <1>4. \A x \in letters : x = t \/ (x \in old /\ x # l)
    BY DEF Retaken
  <1>5. \A x \in old : x # l => x \in letters
    BY DEF Retaken
  <1>6. \A m, n \in db.mail : m.id = n.id => m = n
    BY MailFacts
  <1>7. j \notin db.mail
    BY <1>2, <1>6
  <1> HIDE DEF t
  <1>8. OneUpdate(ms, db.mail, k, j)
    BY <1>2, <1>3, <1>4 DEF OneUpdate
  <1>10. Marked(old) \subseteq db.mail /\ k \notin Marked(old)
    BY <1>2 DEF Marked
  <1>11. Marked(old) = {m \in (db.mail \ {k}) \cup {j} : m.id \in ids}
    <2>1. ids = {m.id : m \in Marked(old)}
      BY <1>3, <1>4, <1>5 DEF Marked
    <2> HIDE DEF ids
    <2>2. ASSUME NEW m \in (db.mail \ {k}) \cup {j}, m.id \in ids PROVE m \in Marked(old)
      <3>1. PICK n \in Marked(old) : n.id = m.id
        BY <2>1, <2>2
      <3>2. n \in db.mail /\ n # k
        BY <1>10
      <3>3. m # j
        BY <1>2, <1>6, <3>1, <3>2
      <3> QED
        BY <1>6, <2>2, <3>1, <3>2, <3>3
    <2>3. ASSUME NEW m \in Marked(old) PROVE m \in (db.mail \ {k}) \cup {j} /\ m.id \in ids
      BY <1>10, <2>1
    <2> QED
      BY <2>2, <2>3
  <1> HIDE DEF ms, ids, k
  <1>12. j.id = k.id /\ j.money <= k.money
    BY DEF k
  <1>13. /\ Ok(c, next) /\ c.mail = (db.mail \ {k}) \cup {j}
         /\ c.gold = db.gold /\ c.inventory = db.inventory /\ c.auction = db.auction
         /\ c.waste.items = db.waste.items
         /\ k.money \in Nat /\ j.money \in Nat
         /\ AllGold(c) = AllGold(db) - k.money + j.money
    BY <1>1, <1>2, <1>8, <1>12, StateUpdate
  <1>14. Wastes(c, d, Marked(old))
    <2>1. Gone(Marked(old), c.mail, ids)
      BY <1>11, <1>13 DEF Gone
    <2> QED
      BY <1>1, <2>1 DEF Wastes
  <1>15. /\ Ok(d, next) /\ d.mail = c.mail \ Marked(old)
         /\ d.gold = c.gold /\ d.inventory = c.inventory /\ d.auction = c.auction
         /\ d.waste.items = c.waste.items \cup ItemsOf(Marked(old))
         /\ AllGold(d) = AllGold(c)
    BY <1>13, <1>14, StateWaste
  <1> QED
    BY <1>7, <1>10, <1>13, <1>15 DEF k, Taken

-----------------------------------------------------------------------------
(***************************************************************************)
(* A handler of p (or of nobody) changes bx[p] and what p has, commits,    *)
(* and delivers the letters ms; everybody else keeps what it had.          *)
(***************************************************************************)
News(ms, q) == {[mail |-> m, state |-> "unchanged"] : m \in {x \in ms : x.receiver = q}}
Got(bx, ms) ==
    \A q \in Players : box'[q] = bx[q] \cup IF where[q] = "online" THEN News(ms, q) ELSE {}

\* The letters are in the tables, and none of them is new.
Fits(letters, q, table, ms) ==
    /\ \A l \in letters : /\ Letter(l) /\ l.mail \in table /\ l.mail.receiver = q
                          /\ l.mail \notin ms
    /\ \A l, k \in letters : l.mail = k.mail => l = k

LEMMA NewsFits ==
  ASSUME NEW letters, NEW q, NEW table, NEW ms, Fits(letters, q, table, ms), ms \subseteq table,
         NEW all, all = letters \cup News(ms, q) \/ all = letters
  PROVE  /\ \A l \in all : Letter(l) /\ l.mail \in table /\ l.mail.receiver = q
         /\ \A l, k \in all : l.mail = k.mail => l = k
  <1>1. \A l \in News(ms, q) : /\ Letter(l) /\ l.mail \in ms /\ l.mail.receiver = q
                               /\ l = [mail |-> l.mail, state |-> "unchanged"]
    BY DEF News, Letter
  <1>2. \A l \in letters : /\ Letter(l) /\ l.mail \in table /\ l.mail.receiver = q
                           /\ l.mail \notin ms
    BY DEF Fits
  <1>3. \A l, k \in letters : l.mail = k.mail => l = k
    BY DEF Fits
  <1>4. \A l, k \in letters \cup News(ms, q) : l.mail = k.mail => l = k
    <2> SUFFICES ASSUME NEW l \in letters \cup News(ms, q), NEW k \in letters \cup News(ms, q),
                        l.mail = k.mail
                 PROVE  l = k
      OBVIOUS
    <2>1. CASE l \in letters /\ k \in letters
      BY <1>3, <2>1
    <2>2. CASE l \in News(ms, q) /\ k \in News(ms, q)
      BY <1>1, <2>2
    <2>3. CASE l \in letters /\ k \in News(ms, q)
      BY <1>1, <1>2, <2>3
    <2>4. CASE l \in News(ms, q) /\ k \in letters
      BY <1>1, <1>2, <2>4
    <2> QED
      BY <2>1, <2>2, <2>3, <2>4
  <1> QED
    BY <1>1, <1>2, <1>3, <1>4

Others(p) ==
    \A q \in Players : q # p =>
        where'[q] = where[q] /\ has'[q] = has[q] /\ Kept(written, written', q)

LEMMA HandlerStep ==
  ASSUME Shape, Queue, Answers, Memory, NEW db, Ledger(db), Logins(db),
         NEW kind \in Kinds, NEW txns, NEW n \in Nat, n > 0, Len(txns) = n,
         Commit(kind, txns), NEW h, Committed(h, txns, n), Filled(h, kind, n),
         UNCHANGED <<saved, within, answer>>, mailId' \in Nat, mailId <= mailId',
         NEW p, p \in Players => where[p] # "loading", Others(p),
         NEW bx, NEW ms, Got(bx, ms), \A q \in Players : q # p => bx[q] = box[q],
         ms \cap written.mail = {}, ms \subseteq written'.mail,
         p \in Players => HasOk(p)' /\ Fits(bx[p], p, written'.mail, ms)
  PROVE  Queue' /\ Answers' /\ Memory' /\ \E d : Ledger(d)' /\ Logins(d)'
  <1>1. ASSUME NEW q \in Players, where[q] = "loading"
        PROVE  where'[q] = "loading" /\ Kept(written, written', q)
    BY <1>1 DEF Others
  <1>2. Queue' /\ \E d : Ledger(d)' /\ Logins(d)'
    BY <1>1, CommitKeepsLedger
  <1>3. Answers'
    <2> SUFFICES ASSUME NEW q \in Players, answer'[q] # None
                 PROVE  /\ where'[q] = "loading"
                        /\ Agrees(q, answer[q].gold, answer[q].items, answer[q].mail)'
      BY DEF Answers
    <2>1. answer'[q] = answer[q]
      OBVIOUS
    <2>2. where[q] = "loading" /\ Agrees(q, answer[q].gold, answer[q].items, answer[q].mail)
      BY <2>1 DEF Answers
    <2>3. where'[q] = "loading" /\ Kept(written, written', q)
      BY <1>1, <2>2
    <2> QED
      BY <2>1, <2>2, <2>3 DEF Agrees, Kept
  <1>4. Memory'
    <2> SUFFICES ASSUME NEW q \in Players PROVE BoxOk(q)' /\ HasOk(q)'
      BY DEF Memory
    <2>1. BoxOk(q) /\ HasOk(q)
      BY DEF Memory
    <2>2. Fits(bx[q], q, written'.mail, ms)
      <3>1. CASE q = p
        BY <3>1
      <3>2. CASE q # p
        <4>1. bx[q] = box[q] /\ {m \in written.mail : m.receiver = q} \subseteq written'.mail
          BY <3>2 DEF Others, Kept
        <4>2. \A l \in box[q] : Letter(l) /\ l.mail \in written.mail /\ l.mail.receiver = q
          BY <2>1 DEF BoxOk
        <4>3. \A l, k \in box[q] : l.mail = k.mail => l = k
          BY <2>1 DEF BoxOk
        <4> QED
          BY <4>1, <4>2, <4>3 DEF Fits
      <3> QED
        BY <3>1, <3>2
    <2>3. box'[q] = bx[q] \cup News(ms, q) \/ box'[q] = bx[q]
      BY DEF Got
    <2>4. /\ \A l \in box'[q] : Letter(l) /\ l.mail \in written'.mail /\ l.mail.receiver = q
          /\ \A l, k \in box'[q] : l.mail = k.mail => l = k
      BY <2>2, <2>3, NewsFits
    <2>5. BoxOk(q)'
      BY <2>4 DEF BoxOk
    <2>6. HasOk(q)'
      <3>1. CASE q = p
        BY <3>1
      <3>2. CASE q # p
        <4>1. /\ where'[q] = where[q] /\ has'[q] = has[q] /\ bx[q] = box[q]
              /\ written'.gold[q] = written.gold[q] /\ written'.inventory[q] = written.inventory[q]
          BY <3>2 DEF Others, Kept
        <4>2. where[q] # "online" => box'[q] = box[q]
          BY <4>1 DEF Got
        <4> QED
          BY <2>1, <4>1, <4>2 DEF HasOk
      <3> QED
        BY <3>1, <3>2
    <2> QED
      BY <2>5, <2>6
  <1> QED
    BY <1>2, <1>3, <1>4

-----------------------------------------------------------------------------
(***************************************************************************)
(* What the handlers of the mail make of the tables in the end.            *)
(***************************************************************************)
Change(g, v, ms, sales) ==
    /\ written'.gold = g /\ written'.inventory = v
    /\ written'.mail = ms /\ written'.auction = sales

\* p, who has the gold g then, sends the letter m.
Sends(p, g, m) ==
    /\ m \in WideMails /\ m \notin written.mail /\ m.sender = p /\ m.receiver # p
    /\ g \in Nat /\ g + m.money <= written.gold[p]
    /\ m.item # None => m.item \in written.inventory[p]
    /\ Change([written.gold EXCEPT ![p] = g], [written.inventory EXCEPT ![p] = @ \ {m.item}],
              written.mail \cup {m}, written.auction)

\* The letter k goes back as m.
Back(k, m) ==
    /\ k \in written.mail /\ k.sender \in Players /\ k.sender # k.receiver
    /\ m \in WideMails /\ m \notin written.mail /\ m.receiver = k.sender
    /\ m.money = k.money /\ m.item = k.item /\ m.cod = 0
Returns(k, m) ==
    /\ Back(k, m)
    /\ Change(written.gold, written.inventory, (written.mail \ {k}) \cup {m}, written.auction)

\* The letters gone of p are deleted, with all that is in them.
Throws(p, gone) ==
    /\ gone \subseteq written.mail /\ \A m \in gone : m.receiver = p /\ m.cod = 0
    /\ Change(written.gold, written.inventory, written.mail \ gone, written.auction)

\* p takes the money out of k, which becomes j, and gets as much of it as ModifyMoney
\* gives: no more than MaxMoney leaves room for.  The letters gone are deleted.
Cashes(p, k, j, gone) ==
    /\ gone \subseteq written.mail /\ \A m \in gone : m.receiver = p /\ m.cod = 0
    /\ k \in written.mail /\ k \notin gone /\ k.receiver = p
    /\ j = [k EXCEPT !.money = 0] /\ j \notin written.mail
    /\ \E g : /\ g \in 0 .. MaxMoney
             /\ g <= written.gold[p] + k.money
             /\ Change([written.gold EXCEPT ![p] = g], written.inventory,
                       ((written.mail \ {k}) \cup {j}) \ gone, written.auction)

\* What p sends for the letter k, if there is something to be paid.
Payment(p, k, ms) ==
    IF k.cod = 0 THEN ms = {}
    ELSE \E m : /\ ms = {m} /\ m \in WideMails /\ m \notin written.mail /\ m.receiver = k.sender
                /\ m.money = k.cod /\ m.item = None

\* p takes the item out of k, which becomes j, sends ms, and the letters gone are deleted.
Takes(p, k, j, ms, gone) ==
    /\ gone \subseteq written.mail /\ \A m \in gone : m.receiver = p /\ m.cod = 0
    /\ k \in written.mail /\ k \notin gone /\ k.receiver = p /\ k.item \in Items
    /\ j = [k EXCEPT !.item = None, !.cod = 0] /\ j \notin written.mail /\ j \notin ms
    /\ Payment(p, k, ms) /\ k.cod <= written.gold[p]
    /\ Change([written.gold EXCEPT ![p] = written.gold[p] - k.cod],
              [written.inventory EXCEPT ![p] = @ \cup {k.item}],
              (((written.mail \cup ms) \ {k}) \cup {j}) \ gone, written.auction)

-----------------------------------------------------------------------------
(***************************************************************************)
(* The letters of the auction house, and what its handlers make of the     *)
(* tables in the end.                                                      *)
(***************************************************************************)
Note(x, id, to, money, item) ==
    /\ x \in WideMails /\ x.id = id /\ x.receiver = to /\ x.money = money
    /\ x.item = item /\ x.cod = 0
OneNote(ms, to, money, item) == \E x : ms = {x} /\ Note(x, mailId, to, money, item)
TwoNotes(ms, p, money, q, item) ==
    \E x, y : /\ ms = {x, y} /\ Note(x, mailId, p, money, None)
              /\ Note(y, mailId + 1, q, 0, item)
ThreeNotes(ms, r, back, p, money, q, item) ==
    \E x, y, z : /\ ms = {x, y, z} /\ Note(x, mailId, r, back, None)
                 /\ Note(y, mailId + 1, p, money, None) /\ Note(z, mailId + 2, q, 0, item)

Sells(p, i) ==
    /\ i \in written.inventory[p] /\ Deposit <= written.gold[p]
    /\ \E a : /\ a \in Auctions /\ a.item = i /\ a.owner = p /\ a.bidder = None /\ a.bid = 0
             /\ Change([written.gold EXCEPT ![p] = written.gold[p] - Deposit],
                       [q \in Players |-> written.inventory[q] \ {i}], written.mail,
                       written.auction \cup {a})

\* The lot a is removed; the letters ms are sent, and gold is what players have.
Removes(a, gold, ms) ==
    Change(gold, written.inventory, written.mail \cup ms, written.auction \ {a})

FinishNotes(a, ms) ==
    IF a.bid > 0
    THEN TwoNotes(ms, a.owner, a.bid + Deposit - GetAuctionCut(a.bid), a.bidder, a.item)
    ELSE OneNote(ms, a.owner, 0, a.item)
Finishes(a) == \E ms : FinishNotes(a, ms) /\ Removes(a, written.gold, ms)

CancelNotes(p, a, ms) ==
    IF a.bid > 0 THEN TwoNotes(ms, a.bidder, a.bid, p, a.item) ELSE OneNote(ms, p, 0, a.item)
Cancels(p, a) ==
    /\ a.owner = p /\ GetAuctionCut(a.bid) <= written.gold[p]
    /\ \E ms : /\ CancelNotes(p, a, ms)
              /\ Removes(a, [written.gold EXCEPT ![p] = written.gold[p] - GetAuctionCut(a.bid)], ms)

-----------------------------------------------------------------------------
(***************************************************************************)
(* What all handlers use.                                                  *)
(***************************************************************************)
LEMMA Now ==
  ASSUME NEW db, Before(db)
  PROVE  /\ mailId \in Nat /\ MaxMoney \in Nat /\ Deposit \in Nat
         /\ Ok(written, mailId) /\ Settled(written) /\ written \in WideTables
         /\ Ok(saved, mailId)
         /\ \A q \in Players : /\ has[q].gold \in 0 .. MaxMoney /\ has[q].items \in SUBSET Items
                               /\ BoxOk(q) /\ HasOk(q)
         /\ auctions = written.auction
  <1>1. PICK S : pending \in Seq(S)
    BY DEF Before, Queue
  <1>2. PICK L : L = Len(pending) /\ L \in Nat
    BY <1>1
  <1>3. Page(db[L], Mark(L), mailId) /\ db[L] = written /\ Mark(L) = "none"
    BY <1>2 DEF Before, Ledger, Queue
  <1>4. Page(db[0], Mark(0), mailId) /\ db[0] = saved
    BY <1>2 DEF Before, Ledger
  <1>5. Ok(written, mailId) /\ Settled(written) /\ written \in WideTables
    BY <1>3 DEF Page, Ok
  <1>6. Ok(saved, mailId)
    BY <1>4 DEF Page
  <1> QED
    BY <1>5, <1>6, TablesAssumption DEF Before, Shape, Memory, Sales

LEMMA Spend ==
  ASSUME NEW g \in 0 .. MaxMoney, NEW x \in Nat, x <= g
  PROVE  ModifyMoney(g, -x) = g - x /\ g - x \in 0 .. MaxMoney
  BY TablesAssumption DEF ModifyMoney

LEMMA Earn ==
  ASSUME NEW g \in 0 .. MaxMoney, NEW x \in Nat
  PROVE  /\ ModifyMoney(g, Signed(x)) \in 0 .. MaxMoney
         /\ ModifyMoney(g, Signed(x)) <= g + x
         /\ g + x <= MaxMoney => ModifyMoney(g, Signed(x)) = g + x
  <1>1. PICK n, w \in Nat : n = MaxMoney /\ w = Width /\ 2 * n < w
    BY TablesAssumption
  <1>2. Signed(x) \in Int /\ (x <= n => Signed(x) = x)
    BY <1>1 DEF Signed
  <1>3. PICK d \in Int : d = Signed(x) /\ (x <= n => d = x)
    BY <1>2
  <1>4. d <= x
    BY <1>1, <1>3 DEF Signed
  <1>5. /\ ModifyMoney(g, d) \in 0 .. MaxMoney
        /\ d <= x => ModifyMoney(g, d) <= g + x
        /\ 0 <= d /\ g + d <= MaxMoney => ModifyMoney(g, d) = g + d
    BY <1>1 DEF ModifyMoney
  <1>6. g + x <= MaxMoney => x <= n /\ d = x /\ 0 <= d
    BY <1>1, <1>3
  <1> QED
    BY <1>3, <1>4, <1>5, <1>6

\* The tables after two, three or four transactions.
LEMMA CommittedOne ==
  ASSUME NEW h, NEW txns, NEW s, txns = <<s>>, Committed(h, txns, 1)
  PROVE  /\ h[1] = ExecuteAll(written, s) /\ written' = h[1]
  <1>1. txns[1] = s
    OBVIOUS
  <1>2. h[1] = ExecuteAll(h[1 - 1], txns[1])
    BY DEF Committed
  <1> QED
    BY <1>1, <1>2 DEF Committed

LEMMA CommittedTwo ==
  ASSUME NEW h, NEW txns, NEW s, NEW t, txns = <<s, t>>, Committed(h, txns, 2)
  PROVE  /\ h[1] = ExecuteAll(written, s) /\ h[2] = ExecuteAll(h[1], t) /\ written' = h[2]
  <1>1. txns[1] = s /\ txns[2] = t
    OBVIOUS
  <1>2. h[1] = ExecuteAll(h[1 - 1], txns[1]) /\ h[2] = ExecuteAll(h[2 - 1], txns[2])
    BY DEF Committed
  <1> QED
    BY <1>1, <1>2 DEF Committed

LEMMA CommittedThree ==
  ASSUME NEW h, NEW txns, NEW s, NEW t, NEW u, txns = <<s, t, u>>, Committed(h, txns, 3)
  PROVE  /\ h[1] = ExecuteAll(written, s) /\ h[2] = ExecuteAll(h[1], t)
         /\ h[3] = ExecuteAll(h[2], u) /\ written' = h[3]
  <1>1. txns[1] = s /\ txns[2] = t /\ txns[3] = u
    OBVIOUS
  <1>2. /\ h[1] = ExecuteAll(h[1 - 1], txns[1]) /\ h[2] = ExecuteAll(h[2 - 1], txns[2])
        /\ h[3] = ExecuteAll(h[3 - 1], txns[3])
    BY DEF Committed
  <1> QED
    BY <1>1, <1>2 DEF Committed

LEMMA CommittedFour ==
  ASSUME NEW h, NEW txns, NEW s, NEW t, NEW u, NEW v, txns = <<s, t, u, v>>,
         Committed(h, txns, 4)
  PROVE  /\ h[1] = ExecuteAll(written, s) /\ h[2] = ExecuteAll(h[1], t)
         /\ h[3] = ExecuteAll(h[2], u) /\ h[4] = ExecuteAll(h[3], v) /\ written' = h[4]
  <1>1. txns[1] = s /\ txns[2] = t /\ txns[3] = u /\ txns[4] = v
    OBVIOUS
  <1>2. /\ h[1] = ExecuteAll(h[1 - 1], txns[1]) /\ h[2] = ExecuteAll(h[2 - 1], txns[2])
        /\ h[3] = ExecuteAll(h[3 - 1], txns[3]) /\ h[4] = ExecuteAll(h[4 - 1], txns[4])
    BY DEF Committed
  <1> QED
    BY <1>1, <1>2 DEF Committed

\* Where an item is that is somewhere.
LEMMA InBag ==
  ASSUME NEW db, NEW i, OnePlace(db, i), NEW p \in Players, i \in db.inventory[p]
  PROVE  /\ Bags(db, i) = {p} /\ Posts(db, i) = {} /\ Lots(db, i) = {} /\ i \notin db.waste.items
  BY DEF OnePlace, Bags, One

LEMMA InPost ==
  ASSUME NEW db, NEW i, OnePlace(db, i), NEW m \in db.mail, m.item = i
  PROVE  /\ Bags(db, i) = {} /\ Posts(db, i) = {m} /\ Lots(db, i) = {} /\ i \notin db.waste.items
  BY DEF OnePlace, Posts, One

LEMMA InLot ==
  ASSUME NEW db, NEW i, OnePlace(db, i), NEW a \in db.auction, a.item = i
  PROVE  /\ Bags(db, i) = {} /\ Posts(db, i) = {} /\ Lots(db, i) = {a} /\ i \notin db.waste.items
  BY DEF OnePlace, Lots, One

LEMMA SamePlace ==
  ASSUME NEW db, NEW d, NEW i, OnePlace(db, i), Bags(d, i) = Bags(db, i),
         Posts(d, i) = Posts(db, i), Lots(d, i) = Lots(db, i),
         i \in d.waste.items <=> i \in db.waste.items
  PROVE  OnePlace(d, i)
  BY DEF OnePlace

\* A new letter.
LEMMA NewMailFacts ==
  ASSUME NEW k \in Nat, NEW type \in {"normal", "auction"}, NEW from \in Players \cup {None},
         NEW to \in Players, NEW money \in Nat, NEW cod \in 0 .. Width - 1,
         NEW item \in Items \cup {None}, NEW checked \in {"plain", "returned", "payment"},
         mailId \in Nat, NEW m, m = NewMail(k, type, from, to, money, cod, item, checked)
  PROVE  /\ m \in WideMails /\ m.id = mailId + k /\ m.type = type /\ m.sender = from
         /\ m.receiver = to /\ m.money = money /\ m.cod = cod /\ m.item = item
         /\ m.checked = checked
  BY DEF NewMail, WideMails

\* Letters that one player or more get at once.
LEMMA DeliveredGot ==
  ASSUME NEW bx, NEW ms, box' = Delivered(bx, ms)
  PROVE  Got(bx, ms) /\ DOMAIN box' = Players /\ box' = [q \in Players |-> box'[q]]
  BY DEF Delivered, Got, News

-----------------------------------------------------------------------------
(***************************************************************************)
(* HandleSendMail.                                                         *)
(***************************************************************************)
LEMMA ThreeInARow ==
  ASSUME NEW s, NEW t, NEW u
  PROVE  <<s>> \o <<t, u>> = <<s, t, u>> /\ Len(<<s, t, u>>) = 3
  <1> DEFINE S == {s, t, u}
             x == <<s>>
             y == <<t, u>>
             z == <<s, t, u>>
  <1>1. x \in Seq(S) /\ Len(x) = 1 /\ x[1] = s
    OBVIOUS
  <1>2. y \in Seq(S) /\ Len(y) = 2 /\ y[1] = t /\ y[2] = u
    OBVIOUS
  <1>3. z \in Seq(S) /\ Len(z) = 3 /\ z[1] = s /\ z[2] = t /\ z[3] = u
    OBVIOUS
  <1> HIDE DEF S, x, y, z
  <1>4. /\ x \o y \in Seq(S) /\ Len(x \o y) = 3
        /\ (x \o y)[1] = s /\ (x \o y)[2] = t /\ (x \o y)[3] = u
    <2>1. /\ x \o y \in Seq(S) /\ Len(x \o y) = 3
          /\ \A k \in 1 .. 3 : (x \o y)[k] = IF k <= 1 THEN x[k] ELSE y[k - 1]
      BY <1>1, <1>2, ConcatProperties
    <2>2. (x \o y)[1] = x[1] /\ (x \o y)[2] = y[2 - 1] /\ (x \o y)[3] = y[3 - 1]
      BY <2>1
    <2> QED
      BY <1>1, <1>2, <2>1, <2>2
  <1>5. \A k \in 1 .. 3 : (x \o y)[k] = z[k]
    BY <1>3, <1>4
  <1>6. x \o y = z
    BY <1>3, <1>4, <1>5, SeqEqual
  <1> QED
    BY <1>3, <1>6 DEF x, y, z

\* What happens to the tables after the item, if any, has left the inventory of p.
LEMMA SendTables ==
  ASSUME NEW b, NEW next \in Nat, Ok(b, next), NEW p \in Players,
         NEW m \in WideMails, m.id = next, MailOk(m), Roomy => m.money <= MaxMoney,
         NEW cost \in Nat, NEW g \in 0 .. MaxMoney,
         NEW c, c = Execute(b, InsertMail(m)),
         NEW d, d = Execute(c, SaveGold(p, g, cost))
  PROVE  /\ Ok(c, next + 1) /\ Ok(d, next + 1)
         /\ d.mail = b.mail \cup {m} /\ m \notin b.mail
         /\ d.gold = [b.gold EXCEPT ![p] = g] /\ d.inventory = b.inventory
         /\ d.auction = b.auction /\ d.waste.items = b.waste.items
         /\ g + (m.money + cost) = b.gold[p] => AllGold(d) = AllGold(b)
  <1>1. Fresh(m, next)
    BY DEF Fresh
  <1>3. /\ Ok(c, next + 1) /\ c.mail = b.mail \cup {m} /\ m \notin b.mail
        /\ c.gold = b.gold /\ c.inventory = b.inventory /\ c.auction = b.auction
        /\ c.waste.items = b.waste.items
        /\ m.money \in Nat /\ AllGold(c) = AllGold(b) + m.money
    BY <1>1, StateInsert
  <1>4. /\ Ok(d, next + 1) /\ d.gold = [c.gold EXCEPT ![p] = g]
        /\ d.inventory = c.inventory /\ d.mail = c.mail /\ d.auction = c.auction
        /\ d.waste.items = c.waste.items
        /\ AllGold(d) = AllGold(c) - c.gold[p] + g + cost
    BY <1>3, StateGold
  <1>5. ASSUME g + (m.money + cost) = b.gold[p] PROVE AllGold(d) = AllGold(b)
    <2>1. PICK x, y, z \in Nat : x = AllGold(b) /\ y = b.gold[p] /\ z = m.money
      BY <1>3, GoldType
    <2>2. AllGold(d) = (x + z) - y + g + cost /\ g \in Nat /\ g + (z + cost) = y
      BY <1>3, <1>4, <1>5, <2>1, TablesAssumption
    <2> QED
      BY <2>1, <2>2
  <1> QED
    BY <1>3, <1>4, <1>5

LEMMA SendPages ==
  ASSUME NEW db, Before(db), NEW p \in Players, NEW i \in Items \cup {None},
         i \in written.inventory[p] \cup {None},
         NEW m \in WideMails, m.id = mailId, MailOk(m), m.item = i,
         NEW g \in 0 .. MaxMoney,
         Roomy => m.money <= MaxMoney /\ g + (m.money + Postage) = written.gold[p],
         Commit("mail", LeavesInventory(i) \o <<<<InsertMail(m)>>, <<SaveGold(p, g, Postage)>>>>),
         mailId' = mailId + 1
  PROVE  \E txns : \E n, h :
            /\ n \in Nat /\ n > 0 /\ Len(txns) = n /\ Commit("mail", txns)
            /\ Committed(h, txns, n) /\ Filled(h, "mail", n)
            /\ written'.mail = written.mail \cup {m} /\ m \notin written.mail
            /\ written'.gold = [written.gold EXCEPT ![p] = g]
            /\ written'.inventory = [written.inventory EXCEPT ![p] = @ \ {i}]
            /\ written'.auction = written.auction
  <1> DEFINE s == <<InsertMail(m)>>
             t == <<SaveGold(p, g, Postage)>>
             txns == LeavesInventory(i) \o <<s, t>>
  <1>0. Postage \in Nat
    BY MailAssumption
  <1>1. /\ mailId \in Nat /\ Ok(written, mailId) /\ Settled(written) /\ written \in WideTables
        /\ written.inventory \in [Players -> SUBSET Items]
    BY Now, TablesFacts
  <1>2. CASE i = None
    <2> HIDE DEF s, t
    <2>1. txns = <<s, t>> /\ Len(txns) = 2
      BY <1>2 DEF LeavesInventory
    <2>1a. Commit("mail", txns) /\ 2 \in Nat /\ 2 > 0
      BY DEF s, t
    <2> HIDE DEF txns
    <2>2. PICK h : Committed(h, txns, 2)
      BY <2>1, <2>1a, CommitPages
    <2>3. h[1] = ExecuteAll(written, s) /\ h[2] = ExecuteAll(h[1], t) /\ written' = h[2]
      BY <2>1, <2>2, CommittedTwo
    <2>3a. h[1] = Execute(written, InsertMail(m)) /\ h[2] = Execute(h[1], SaveGold(p, g, Postage))
      BY <2>3, ExecuteOne DEF s, t
    <2>4. /\ Ok(h[1], mailId + 1) /\ Ok(h[2], mailId + 1)
          /\ h[2].mail = written.mail \cup {m} /\ m \notin written.mail
          /\ h[2].gold = [written.gold EXCEPT ![p] = g] /\ h[2].inventory = written.inventory
          /\ h[2].auction = written.auction /\ h[2].waste.items = written.waste.items
          /\ Roomy => AllGold(h[2]) = AllGold(written)
      BY <1>0, <1>1, <2>3a, SendTables
    <2>5. ASSUME NEW k \in Items PROVE OnePlace(h[2], k)
      <3>1. OnePlace(written, k) /\ k # None
        BY <1>1, TablesAssumption DEF Settled
      <3>2. Bags(h[2], k) = Bags(written, k) /\ Lots(h[2], k) = Lots(written, k)
        BY <2>4 DEF Bags, Lots
      <3>3. Posts(h[2], k) = Posts(written, k)
        BY <1>2, <2>4, <3>1 DEF Posts
      <3> QED
        BY <2>4, <3>1, <3>2, <3>3, SamePlace
    <2>6. Settled(h[2])
      BY <1>1, <2>4, <2>5 DEF Settled
    <2>7. Filled(h, "mail", 2)
      BY <2>4, <2>6 DEF Filled, Page
    <2>8. written.inventory = [written.inventory EXCEPT ![p] = @ \ {i}]
      <3>1. written.inventory[p] \ {i} = written.inventory[p]
        BY <1>1, <1>2, TablesAssumption
      <3> QED
        BY <1>1, <3>1
    <2> QED
      BY <2>1, <2>1a, <2>2, <2>3, <2>4, <2>7, <2>8
  <1>3. CASE i # None
    <2> DEFINE u == <<DeleteFromInventory(i)>>
    <2>0. LeavesInventory(i) = <<u>>
      BY <1>3 DEF LeavesInventory
    <2> HIDE DEF s, t, u
    <2>1. txns = <<u, s, t>> /\ Len(txns) = 3
      BY <2>0, ThreeInARow
    <2>1a. Commit("mail", txns) /\ 3 \in Nat /\ 3 > 0
      BY DEF s, t
    <2> HIDE DEF txns
    <2>2. PICK h : Committed(h, txns, 3)
      BY <2>1, <2>1a, CommitPages
    <2>3. /\ h[1] = ExecuteAll(written, u) /\ h[2] = ExecuteAll(h[1], s)
          /\ h[3] = ExecuteAll(h[2], t) /\ written' = h[3]
      BY <2>1, <2>2, CommittedThree
    <2>4. i \in Items /\ i \in written.inventory[p]
      BY <1>3
    <2>5. h[1] = Execute(written, DeleteFromInventory(i))
      BY <2>3, ExecuteOne DEF u
    <2>6. /\ Ok(h[1], mailId)
          /\ h[1].inventory = [q \in Players |-> written.inventory[q] \ {i}]
          /\ h[1].gold = written.gold /\ h[1].mail = written.mail
          /\ h[1].auction = written.auction
          /\ h[1].waste.items = written.waste.items /\ AllGold(h[1]) = AllGold(written)
      BY <1>1, <2>4, <2>5, StateTakeout
    <2>7. Roomy => m.money <= MaxMoney /\ g + (m.money + Postage) = h[1].gold[p]
      BY <2>6
    <2>7a. h[2] = Execute(h[1], InsertMail(m)) /\ h[3] = Execute(h[2], SaveGold(p, g, Postage))
      BY <2>3, ExecuteOne DEF s, t
    <2>8. /\ Ok(h[2], mailId + 1) /\ Ok(h[3], mailId + 1)
          /\ h[3].mail = h[1].mail \cup {m} /\ m \notin h[1].mail
          /\ h[3].gold = [h[1].gold EXCEPT ![p] = g] /\ h[3].inventory = h[1].inventory
          /\ h[3].auction = h[1].auction /\ h[3].waste.items = h[1].waste.items
          /\ Roomy => AllGold(h[3]) = AllGold(h[1])
      BY <1>0, <1>1, <2>6, <2>7, <2>7a, SendTables, SMTT(30)
    <2>9. OnePlace(written, i)
      BY <1>1, <2>4 DEF Settled
    <2>10. /\ Bags(written, i) = {p} /\ Posts(written, i) = {} /\ Lots(written, i) = {}
           /\ i \notin written.waste.items
      BY <2>4, <2>9, InBag
    <2>11. ASSUME NEW k \in Items PROVE OnePlace(h[3], k)
      <3>1. OnePlace(written, k)
        BY <1>1 DEF Settled
      <3>2. Lots(h[3], k) = Lots(written, k)
        BY <2>6, <2>8 DEF Lots
      <3>3. CASE k # i
        <4>1. Bags(h[3], k) = Bags(written, k)
          BY <2>6, <2>8, <3>3 DEF Bags
        <4>2. Posts(h[3], k) = Posts(written, k)
          BY <2>6, <2>8, <3>3 DEF Posts
        <4> QED
          BY <2>6, <2>8, <3>1, <3>2, <4>1, <4>2, SamePlace
      <3>4. CASE k = i
        <4>1. Bags(h[3], i) = {}
          BY <2>6, <2>8 DEF Bags
        <4>2. Posts(h[3], i) = {m}
          BY <2>6, <2>8, <2>10 DEF Posts
        <4> QED
          BY <2>6, <2>8, <2>10, <3>2, <3>4, <4>1, <4>2 DEF OnePlace, One
      <3> QED
        BY <3>3, <3>4
    <2>12. Settled(h[3])
      BY <1>1, <2>6, <2>8, <2>11 DEF Settled
    <2>13. Ok(h[1], mailId + 1)
      BY <1>1, <2>6, OkLater
    <2>14. Filled(h, "mail", 3)
      BY <2>8, <2>12, <2>13 DEF Filled, Page
    <2>15. h[3].inventory = [written.inventory EXCEPT ![p] = @ \ {i}]
      <3>1. ASSUME NEW q \in Players PROVE written.inventory[q] \ {i} = [written.inventory EXCEPT ![p] = @ \ {i}][q]
        <4>1. q # p => i \notin written.inventory[q]
          BY <2>10 DEF Bags
        <4> QED
          BY <1>1, <4>1
      <3> QED
        BY <1>1, <2>6, <2>8, <3>1
    <2> QED
      BY <2>1, <2>1a, <2>2, <2>3, <2>6, <2>8, <2>14, <2>15
  <1> QED
    BY <1>2, <1>3

\* A player with other gold and items.
HasBecomes(p, g, s) == has' = [has EXCEPT ![p] = [gold |-> g, items |-> s]]

LEMMA HasTyped ==
  ASSUME Shape, NEW p \in Players, NEW g \in 0 .. MaxMoney, NEW s \in SUBSET Items,
         HasBecomes(p, g, s)
  PROVE  /\ has' \in [Players -> [gold : 0 .. MaxMoney, items : SUBSET Items]]
         /\ has'[p].gold = g /\ has'[p].items = s
         /\ \A q \in Players : q # p => has'[q] = has[q]
  BY DEF Shape, HasBecomes

LEMMA CostFacts ==
  ASSUME NEW money \in Amounts \cup {0}, money \in Nat
  PROVE  Cost(money) \in Nat /\ (PlainAmounts => Cost(money) = money + Postage)
  <1>1. PICK w, c \in Nat : w = Width /\ c = Postage /\ w > 0
    BY TablesAssumption, MailAssumption
  <1>2. (money + c) % w \in 0 .. w - 1 /\ (money + c < w => (money + c) % w = money + c)
    BY <1>1
  <1> QED
    BY <1>1, <1>2 DEF Cost, PlainAmounts

LEMMA SendStep ==
  ASSUME NEW db, Before(db), NEW p \in Players, NEW q \in Players, NEW i \in Items \cup {None},
         NEW money \in Amounts \cup {0}, NEW cod \in Amounts \cup {0},
         HandleSendMail(p, q, i, money, cod), UNCHANGED <<auctions, aitems>>
  PROVE  MailInv' /\ (PlainAmounts => \E m, g : Sends(p, g, m))
  <1> DEFINE m == NewMail(0, "normal", p, q, money, cod, i, "plain")
             g == ModifyMoney(has[p].gold, -Cost(money))
  <1>0. cod > 0 => i # None
    BY DEF HandleSendMail
  <1>1. /\ where[p] = "online" /\ p # q /\ i \in has[p].items \cup {None}
        /\ has[p].gold >= Cost(money) /\ mailId + 1 <= MaxMails + 1
    BY DEF HandleSendMail, CanMail
  <1>2. /\ has' = [has EXCEPT ![p] = [gold |-> g, items |-> has[p].items \ {i}]]
        /\ box' = Delivered(box, {m})
        /\ Commit("mail", LeavesInventory(i) \o <<<<InsertMail(m)>>, <<SaveGold(p, g, Postage)>>>>)
        /\ mailId' = mailId + 1
        /\ UNCHANGED <<where, answer, saved, within>>
    BY DEF HandleSendMail
  <1>3. /\ mailId \in Nat /\ MaxMoney \in Nat /\ has[p].gold \in 0 .. MaxMoney
        /\ has[p].items \in SUBSET Items /\ Ok(written, mailId) /\ Postage \in Nat
        /\ BoxOk(p) /\ HasOk(p) /\ auctions = written.auction /\ MaxMails \in Nat
    BY Now, MailAssumption
  <1>3a. money \in Nat /\ cod \in 0 .. Width - 1
    BY MailAssumption, TablesAssumption
  <1>4. /\ m \in WideMails /\ m.id = mailId /\ m.type = "normal" /\ m.sender = p
        /\ m.receiver = q /\ m.money = money /\ m.item = i /\ m.cod = cod /\ m.checked = "plain"
    BY <1>3, <1>3a DEF NewMail, WideMails
  <1>5. /\ g \in 0 .. MaxMoney
        /\ PlainAmounts => g + (money + Postage) = has[p].gold /\ money <= MaxMoney
    <2>1. PICK cost : cost = Cost(money) /\ cost \in Nat /\ (PlainAmounts => cost = money + Postage)
      BY <1>3, <1>3a, CostFacts
    <2>2. g \in 0 .. MaxMoney /\ g = has[p].gold - cost
      BY <1>1, <1>3, <2>1, Spend
    <2> QED
      BY <1>3, <1>3a, <2>1, <2>2
  <1> HIDE DEF m, g
  <1>6. MailOk(m)
    BY <1>0, <1>1, <1>3, <1>4 DEF MailOk
  <1>7. has[p].gold = written.gold[p] /\ has[p].items = written.inventory[p]
    BY <1>1, <1>3 DEF HasOk
  <1>7a. Roomy => m.money <= MaxMoney /\ g + (m.money + Postage) = written.gold[p]
    BY <1>4, <1>5, <1>7 DEF Roomy
  <1>8. PICK txns : \E n, h :
            /\ n \in Nat /\ n > 0 /\ Len(txns) = n /\ Commit("mail", txns)
            /\ Committed(h, txns, n) /\ Filled(h, "mail", n)
            /\ written'.mail = written.mail \cup {m} /\ m \notin written.mail
            /\ written'.gold = [written.gold EXCEPT ![p] = g]
            /\ written'.inventory = [written.inventory EXCEPT ![p] = @ \ {i}]
            /\ written'.auction = written.auction
    BY <1>1, <1>2, <1>3, <1>4, <1>5, <1>6, <1>7, <1>7a, SendPages, SMTT(30)
  <1>9. PICK n, h :
            /\ n \in Nat /\ n > 0 /\ Len(txns) = n /\ Commit("mail", txns)
            /\ Committed(h, txns, n) /\ Filled(h, "mail", n)
            /\ written'.mail = written.mail \cup {m} /\ m \notin written.mail
            /\ written'.gold = [written.gold EXCEPT ![p] = g]
            /\ written'.inventory = [written.inventory EXCEPT ![p] = @ \ {i}]
            /\ written'.auction = written.auction
    BY <1>8
  <1>10. /\ written.gold \in [Players -> 0 .. MaxMoney]
         /\ written.inventory \in [Players -> SUBSET Items]
    BY Now, TablesFacts
  <1>11. /\ has' \in [Players -> [gold : 0 .. MaxMoney, items : SUBSET Items]]
         /\ has'[p].gold = g /\ has'[p].items = has[p].items \ {i}
         /\ \A r \in Players : r # p => has'[r] = has[r]
    <2>1. has[p].items \ {i} \in SUBSET Items
      BY <1>3
    <2>2. Shape /\ HasBecomes(p, g, has[p].items \ {i})
      BY <1>2 DEF Before, HasBecomes
    <2> QED
      BY <1>5, <2>1, <2>2, HasTyped
  <1>12. Got(box, {m}) /\ DOMAIN box' = Players /\ box' = [r \in Players |-> box'[r]]
    BY <1>2, DeliveredGot
  <1>13. Others(p)
    BY <1>2, <1>9, <1>10, <1>11 DEF Others, Kept
  <1>14. HasOk(p)'
    BY <1>1, <1>2, <1>7, <1>9, <1>10, <1>11 DEF HasOk
  <1>15. Fits(box[p], p, written'.mail, {m})
    BY <1>3, <1>9 DEF BoxOk, Fits
  <1>16. {m} \cap written.mail = {} /\ {m} \subseteq written'.mail
    BY <1>9
  <1>17. mailId' \in Nat /\ mailId <= mailId' /\ mailId' \in 1 .. MaxMails + 1
    BY <1>1, <1>2, <1>3
  <1>18. Queue' /\ Answers' /\ Memory' /\ \E d : Ledger(d)' /\ Logins(d)'
    BY <1>1, <1>2, <1>9, <1>12, <1>13, <1>14, <1>15, <1>16, <1>17, HandlerStep DEF Before, Kinds
  <1>19. Shape'
    BY <1>2, <1>11, <1>12, <1>17 DEF Before, Shape
  <1>20. Sales'
    BY <1>9 DEF Before, Sales
  <1>21. ASSUME PlainAmounts PROVE Sends(p, g, m)
    <2>1. g \in Nat /\ g + m.money <= written.gold[p]
      BY <1>1, <1>3, <1>3a, <1>4, <1>5, <1>7, <1>21
    <2> QED
      BY <1>1, <1>4, <1>7, <1>9, <2>1 DEF Sends, Change
  <1> QED
    BY <1>18, <1>19, <1>20, <1>21 DEF Before, MailInv

-----------------------------------------------------------------------------
(***************************************************************************)
(* HandleMailReturnToSender.                                               *)
(***************************************************************************)
\* Mails that are deleted with all that is in them.
LEMMA WastePlace ==
  ASSUME NEW db, NEW d, NEW x \in Items, OnePlace(db, x), NEW gone \in SUBSET db.mail,
         Bags(d, x) = Bags(db, x), Lots(d, x) = Lots(db, x),
         Posts(d, x) = Posts(db, x) \ gone,
         x \in d.waste.items <=> x \in db.waste.items \/ x \in ItemsOf(gone)
  PROVE  OnePlace(d, x)
  <1>1. CASE x \in ItemsOf(gone)
    <2>1. PICK m \in gone : m.item = x
      BY <1>1 DEF ItemsOf
    <2>2. /\ Bags(db, x) = {} /\ Posts(db, x) = {m} /\ Lots(db, x) = {}
          /\ x \notin db.waste.items
      BY <2>1, InPost
    <2>3. Posts(d, x) = {}
      BY <2>1, <2>2
    <2> QED
      BY <1>1, <2>2, <2>3 DEF OnePlace
  <1>2. CASE x \notin ItemsOf(gone)
    <2>1. x # None
      BY TablesAssumption
    <2>2. Posts(db, x) \cap gone = {}
      BY <1>2, <2>1 DEF Posts, ItemsOf
    <2>3. Posts(d, x) = Posts(db, x)
      BY <2>2
    <2> QED
      BY <1>2, <2>3, SamePlace
  <1> QED
    BY <1>1, <1>2

Placed(db) == \A x \in Items : OnePlace(db, x)
Holds(d, v, ms, sales, trash) ==
    d.inventory = v /\ d.mail = ms /\ d.auction = sales /\ d.waste.items = trash

LEMMA HoldsExists ==
  ASSUME NEW v, NEW ms, NEW sales, NEW trash
  PROVE  \E d : Holds(d, v, ms, sales, trash)
  <1> WITNESS [inventory |-> v, mail |-> ms, auction |-> sales, waste |-> [items |-> trash]]
  <1> QED
    BY DEF Holds

LEMMA PlacedWaste ==
  ASSUME NEW db, NEW d, Placed(db), NEW gone \in SUBSET db.mail,
         Holds(d, db.inventory, db.mail \ gone, db.auction, db.waste.items \cup ItemsOf(gone))
  PROVE  Placed(d)
  <1>1. ASSUME NEW x \in Items PROVE OnePlace(d, x)
    <2>1. OnePlace(db, x)
      BY DEF Placed
    <2>2. Bags(d, x) = Bags(db, x) /\ Lots(d, x) = Lots(db, x)
      BY DEF Bags, Lots, Holds
    <2>3. Posts(d, x) = Posts(db, x) \ gone
      BY DEF Posts, Holds
    <2> QED
      BY <2>1, <2>2, <2>3, WastePlace DEF Holds
  <1> QED
    BY <1>1 DEF Placed

LEMMA WasteSettled ==
  ASSUME NEW db, NEW d, Settled(db), NEW gone \in SUBSET db.mail,
         d.inventory = db.inventory, d.auction = db.auction, d.mail = db.mail \ gone,
         d.waste.items = db.waste.items \cup ItemsOf(gone), AllGold(d) = AllGold(db)
  PROVE  Settled(d)
  <1>1. Placed(d)
    BY PlacedWaste DEF Settled, Placed, Holds
  <1> QED
    BY <1>1 DEF Settled, Placed

\* A letter k is replaced by another one with the same item.
LEMMA PlacedPost ==
  ASSUME NEW db, NEW d, Placed(db), NEW k \in db.mail, NEW j, j.item = k.item,
         Holds(d, db.inventory, (db.mail \ {k}) \cup {j}, db.auction, db.waste.items)
  PROVE  Placed(d)
  <1>1. ASSUME NEW x \in Items PROVE OnePlace(d, x)
    <2>1. OnePlace(db, x)
      BY DEF Placed
    <2>2. Bags(d, x) = Bags(db, x) /\ Lots(d, x) = Lots(db, x)
      BY DEF Bags, Lots, Holds
    <2>3. CASE k.item = x
      <3>1. /\ Bags(db, x) = {} /\ Posts(db, x) = {k} /\ Lots(db, x) = {}
            /\ x \notin db.waste.items
        BY <2>1, <2>3, InPost
      <3>2. Posts(d, x) = {j}
        BY <2>3, <3>1 DEF Posts, Holds
      <3> QED
        BY <2>2, <3>1, <3>2 DEF OnePlace, One, Holds
    <2>4. CASE k.item # x
      <3>1. Posts(d, x) = Posts(db, x)
        BY <2>4 DEF Posts, Holds
      <3> QED
        BY <2>1, <2>2, <3>1, SamePlace DEF Holds
    <2> QED
      BY <2>3, <2>4
  <1> QED
    BY <1>1 DEF Placed

LEMMA PostPlace ==
  ASSUME NEW db, NEW d, Settled(db), NEW k \in db.mail, NEW j, j.item = k.item,
         d.inventory = db.inventory, d.auction = db.auction,
         d.mail = (db.mail \ {k}) \cup {j}, d.waste.items = db.waste.items,
         AllGold(d) = AllGold(db)
  PROVE  Settled(d)
  <1>1. Placed(d)
    BY PlacedPost DEF Settled, Placed, Holds
  <1> QED
    BY <1>1 DEF Settled, Placed

\* The item of a letter k goes to p.
LEMMA PlacedTake ==
  ASSUME NEW db, NEW d, Placed(db), NEW k \in db.mail, NEW j, j.item = None,
         k.item \in Items, NEW p \in Players, db.inventory \in [Players -> SUBSET Items],
         Holds(d, [db.inventory EXCEPT ![p] = @ \cup {k.item}], (db.mail \ {k}) \cup {j},
               db.auction, db.waste.items)
  PROVE  Placed(d)
  <1>1. ASSUME NEW x \in Items PROVE OnePlace(d, x)
    <2>1. OnePlace(db, x) /\ x # None
      BY TablesAssumption DEF Placed
    <2>2. Lots(d, x) = Lots(db, x)
      BY DEF Lots, Holds
    <2>3. CASE k.item = x
      <3>1. /\ Bags(db, x) = {} /\ Posts(db, x) = {k} /\ Lots(db, x) = {}
            /\ x \notin db.waste.items
        BY <2>1, <2>3, InPost
      <3>2. Posts(d, x) = {}
        BY <2>1, <3>1 DEF Posts, Holds
      <3>3. Bags(d, x) = {p}
        BY <2>3, <3>1 DEF Bags, Holds
      <3> QED
        BY <2>2, <3>1, <3>2, <3>3 DEF OnePlace, One, Holds
    <2>4. CASE k.item # x
      <3>1. Posts(d, x) = Posts(db, x)
        BY <2>1, <2>4 DEF Posts, Holds
      <3>2. Bags(d, x) = Bags(db, x)
        BY <2>4 DEF Bags, Holds
      <3> QED
        BY <2>1, <2>2, <3>1, <3>2, SamePlace DEF Holds
    <2> QED
      BY <2>3, <2>4
  <1> QED
    BY <1>1 DEF Placed

\* A letter without an item.
LEMMA PlacedEmpty ==
  ASSUME NEW db, NEW d, Placed(db), NEW m, m.item = None,
         Holds(d, db.inventory, db.mail \cup {m}, db.auction, db.waste.items)
  PROVE  Placed(d)
  <1>1. ASSUME NEW x \in Items PROVE OnePlace(d, x)
    <2>1. OnePlace(db, x) /\ x # None
      BY TablesAssumption DEF Placed
    <2>2. Bags(d, x) = Bags(db, x) /\ Lots(d, x) = Lots(db, x) /\ Posts(d, x) = Posts(db, x)
      BY <2>1 DEF Bags, Lots, Posts, Holds
    <2> QED
      BY <2>1, <2>2, SamePlace DEF Holds
  <1> QED
    BY <1>1 DEF Placed

\* The letters that are left when l is taken out.
LEMMA RestFits ==
  ASSUME NEW p, BoxOk(p), NEW l \in box[p], NEW table, NEW ms, ms \cap written.mail = {},
         written.mail \ {l.mail} \subseteq table
  PROVE  Fits(box[p] \ {l}, p, table, ms)
  BY DEF BoxOk, Fits

LEMMA ReturnStep ==
  ASSUME NEW db, Before(db), NEW p \in Players, NEW l,
         HandleMailReturnToSender(p, l), UNCHANGED <<auctions, aitems>>
  PROVE  MailInv' /\ ((\E m : Returns(l.mail, m)) \/ Throws(p, {l.mail}))
  <1> DEFINE k == l.mail
             m == NewMail(0, "normal", p, k.sender, k.money, 0, k.item, "returned")
             rest == [box EXCEPT ![p] = @ \ {l}]
  <1>1. /\ where[p] = "online" /\ l \in box[p] /\ mailId + 1 <= MaxMails + 1
        /\ UNCHANGED <<where, has, answer, saved, within>>
        /\ \/ /\ k.type = "normal" /\ box' = Delivered(rest, {m}) /\ mailId' = mailId + 1
              /\ Commit("mail", <<<<DeleteMails({k.id}, "moved")>>, <<InsertMail(m)>>>>)
           \/ /\ k.type # "normal" /\ box' = rest /\ mailId' = mailId
              /\ Commit("mail", <<<<DeleteMails({k.id}, "wasted")>>>>)
    BY DEF HandleMailReturnToSender, CanMail
  <1>2. /\ mailId \in Nat /\ MaxMoney \in Nat /\ Ok(written, mailId) /\ Settled(written)
        /\ BoxOk(p) /\ HasOk(p) /\ MaxMails \in Nat
    BY Now, MailAssumption
  <1>3. k \in written.mail /\ k.receiver = p
    BY <1>1, <1>2 DEF BoxOk
  <1>4. k \in WideMails /\ MailOk(k) /\ k.id \in Nat /\ k.id < mailId
    BY <1>2, <1>3, MailFacts
  <1>5. DOMAIN box = Players /\ box = [r \in Players |-> box[r]]
    BY DEF Before, Shape
  <1>6. /\ DOMAIN rest = Players /\ rest = [r \in Players |-> rest[r]]
        /\ rest[p] = box[p] \ {l} /\ \A r \in Players : r # p => rest[r] = box[r]
    BY <1>5
  <1>7. ASSUME k.type = "normal" /\ box' = Delivered(rest, {m}) /\ mailId' = mailId + 1,
               Commit("mail", <<<<DeleteMails({k.id}, "moved")>>, <<InsertMail(m)>>>>)
        PROVE  MailInv' /\ Returns(l.mail, m)
    <2> DEFINE s == <<DeleteMails({k.id}, "moved")>>
               t == <<InsertMail(m)>>
               txns == <<s, t>>
    <2>1. /\ k.sender \in Players /\ k.sender # p
          /\ k.item \in Items \cup {None} /\ k.money \in Nat
      BY <1>3, <1>4, <1>7 DEF MailOk, WideMails
    <2>2. /\ m \in WideMails /\ m.id = mailId /\ m.type = "normal" /\ m.sender = p
          /\ m.receiver = k.sender /\ m.money = k.money /\ m.cod = 0 /\ m.item = k.item
      BY <1>2, <2>1, TablesAssumption DEF NewMail, WideMails
    <2> HIDE DEF m, k, rest
    <2>3. Fresh(m, mailId)
      <3>1. MailOk(m)
        BY <2>1, <2>2 DEF MailOk
      <3> QED
        BY <1>2, <1>3, <2>2, <3>1 DEF Ok, MailsOk, Fresh
    <2>4. Len(txns) = 2 /\ 2 \in Nat /\ 2 > 0 /\ Commit("mail", txns)
      BY <1>7
    <2> HIDE DEF s, t
    <2>5. txns = <<s, t>>
      OBVIOUS
    <2> HIDE DEF txns
    <2>6. PICK h : Committed(h, txns, 2)
      BY <2>4, CommitPages
    <2>7. h[1] = ExecuteAll(written, s) /\ h[2] = ExecuteAll(h[1], t) /\ written' = h[2]
      BY <2>5, <2>6, CommittedTwo
    <2>8. h[1] = Execute(written, DeleteMails({k.id}, "moved")) /\ h[2] = Execute(h[1], InsertMail(m))
      BY <2>7, ExecuteOne DEF s, t
    <2>9. /\ Ok(h[1], mailId) /\ h[1].mail = written.mail \ {k}
          /\ h[1].gold = written.gold /\ h[1].inventory = written.inventory
          /\ h[1].auction = written.auction /\ h[1].waste.items = written.waste.items
          /\ AllGold(h[1]) = AllGold(written) - k.money
      BY <1>2, <1>3, <2>8, StateMove
    <2>9a. mailId \in Nat /\ Ok(h[1], mailId) /\ h[2] = Execute(h[1], InsertMail(m))
      BY <1>2, <2>8, <2>9
    <2>10. /\ Ok(h[2], mailId + 1) /\ h[2].mail = h[1].mail \cup {m}
           /\ h[2].gold = h[1].gold /\ h[2].inventory = h[1].inventory
           /\ h[2].auction = h[1].auction /\ h[2].waste.items = h[1].waste.items
           /\ AllGold(h[2]) = AllGold(h[1]) + m.money
      BY <2>3, <2>9a, StateInsert
    <2>11. AllGold(h[2]) = AllGold(written)
      <3>1. AllGold(written) \in Nat
        BY <1>2, GoldType
      <3> QED
        BY <2>1, <2>2, <2>9, <2>10, <3>1
    <2>12. h[2].mail = (written.mail \ {k}) \cup {m}
      BY <2>9, <2>10
    <2>13. Settled(h[2])
      BY <1>2, <1>3, <2>2, <2>9, <2>10, <2>11, <2>12, PostPlace
    <2>14. Ok(h[1], mailId + 1)
      BY <1>2, <2>9, OkLater
    <2>15. Filled(h, "mail", 2)
      BY <1>7, <2>10, <2>13, <2>14 DEF Filled, Page
    <2>16. m \notin written.mail
      BY <1>2, <2>2, MailFacts
    <2>17. Got(rest, {m}) /\ DOMAIN box' = Players /\ box' = [r \in Players |-> box'[r]]
      BY <1>7, DeliveredGot
    <2>18. Others(p)
      BY <1>1, <1>3, <2>7, <2>9, <2>10, <2>12 DEF Others, Kept
    <2>19. HasOk(p)'
      BY <1>1, <1>2, <2>7, <2>9, <2>10 DEF HasOk
    <2>20. Fits(rest[p], p, written'.mail, {m})
      <3>1. {m} \cap written.mail = {} /\ written.mail \ {l.mail} \subseteq written'.mail
        BY <2>7, <2>12, <2>16 DEF k
      <3> QED
        BY <1>1, <1>2, <1>6, <3>1, RestFits
    <2>21. {m} \cap written.mail = {} /\ {m} \subseteq written'.mail
      BY <2>7, <2>12, <2>16
    <2>22. mailId' \in Nat /\ mailId <= mailId' /\ mailId' \in 1 .. MaxMails + 1
      BY <1>1, <1>2, <1>7
    <2>23. Queue' /\ Answers' /\ Memory' /\ \E d : Ledger(d)' /\ Logins(d)'
      BY <1>1, <1>6, <2>4, <2>6, <2>15, <2>17, <2>18, <2>19, <2>20, <2>21, <2>22, HandlerStep
         DEF Before, Kinds
    <2>24. Shape'
      BY <1>1, <2>17, <2>22 DEF Before, Shape
    <2>25. Sales'
      BY <2>7, <2>9, <2>10 DEF Before, Sales
    <2>26. Returns(k, m)
      BY <1>3, <2>1, <2>2, <2>7, <2>9, <2>10, <2>12, <2>16 DEF Returns, Back, Change
    <2> QED
      BY <2>23, <2>24, <2>25, <2>26 DEF Before, MailInv, k
  <1>8. ASSUME k.type # "normal" /\ box' = rest /\ mailId' = mailId,
               Commit("mail", <<<<DeleteMails({k.id}, "wasted")>>>>)
        PROVE  MailInv' /\ Throws(p, {l.mail})
    <2> DEFINE s == <<DeleteMails({k.id}, "wasted")>>
               txns == <<s>>
    <2> HIDE DEF m, k, rest
    <2>4. Len(txns) = 1 /\ 1 \in Nat /\ 1 > 0 /\ Commit("mail", txns)
      BY <1>8
    <2> HIDE DEF s
    <2>5. txns = <<s>>
      OBVIOUS
    <2> HIDE DEF txns
    <2>6. PICK h : Committed(h, txns, 1)
      BY <2>4, CommitPages
    <2>7. h[1] = ExecuteAll(written, s) /\ written' = h[1]
      BY <2>5, <2>6, CommittedOne
    <2>8. Wastes(written, h[1], {k})
      <3>1. h[1] = Execute(written, DeleteMails({k.id}, "wasted"))
        BY <2>7, ExecuteOne DEF s
      <3>2. Gone({k}, written.mail, {k.id})
        BY <1>2, <1>3, MailFacts DEF Gone
      <3> QED
        BY <3>1, <3>2 DEF Wastes
    <2>9. /\ Ok(h[1], mailId) /\ h[1].mail = written.mail \ {k}
          /\ h[1].gold = written.gold /\ h[1].inventory = written.inventory
          /\ h[1].auction = written.auction
          /\ h[1].waste.items = written.waste.items \cup ItemsOf({k})
          /\ AllGold(h[1]) = AllGold(written)
      BY <1>2, <2>8, StateWaste
    <2>10. {k} \in SUBSET written.mail
      BY <1>3
    <2>11. Settled(h[1])
      BY <1>2, <2>9, <2>10, WasteSettled
    <2>12. Filled(h, "mail", 1)
      BY <1>8, <2>9, <2>11 DEF Filled, Page
    <2>13. Got(rest, {})
      BY <1>8 DEF Got, News
    <2>14. Others(p)
      BY <1>1, <1>3, <2>7, <2>9 DEF Others, Kept
    <2>15. HasOk(p)'
      BY <1>1, <1>2, <2>7, <2>9 DEF HasOk
    <2>16. Fits(rest[p], p, written'.mail, {})
      <3>1. {} \cap written.mail = {} /\ written.mail \ {l.mail} \subseteq written'.mail
        BY <2>7, <2>9 DEF k
      <3> QED
        BY <1>1, <1>2, <1>6, <3>1, RestFits
    <2>17. {} \cap written.mail = {} /\ {} \subseteq written'.mail
      OBVIOUS
    <2>18. mailId' \in Nat /\ mailId <= mailId'
      BY <1>2, <1>8
    <2>19. Queue' /\ Answers' /\ Memory' /\ \E d : Ledger(d)' /\ Logins(d)'
      <3>1. UNCHANGED <<saved, within, answer>> /\ where[p] # "loading" /\ "mail" \in Kinds
        BY <1>1 DEF Kinds
      <3>2. Shape /\ Queue /\ Answers /\ Memory /\ Ledger(db) /\ Logins(db)
        BY DEF Before
      <3>3. \A q \in Players : q # p => rest[q] = box[q]
        BY <1>6
      <3> QED
        BY <2>4, <2>6, <2>12, <2>13, <2>14, <2>15, <2>16, <2>17, <2>18, <3>1, <3>2, <3>3, HandlerStep
    <2>20. Shape'
      BY <1>1, <1>6, <1>8 DEF Before, Shape
    <2>21. Sales'
      BY <2>7, <2>9 DEF Before, Sales
    <2>22. k.cod = 0
      <3>1. k.cod \in 0 .. Width - 1
        BY <1>4 DEF WideMails
      <3> QED
        BY <1>2, <1>4, <1>8, <3>1 DEF MailOk
    <2>23. Throws(p, {k})
      BY <1>3, <2>7, <2>9, <2>22 DEF Throws, Change
    <2> QED
      BY <2>19, <2>20, <2>21, <2>23 DEF Before, MailInv, k
  <1> QED
    BY <1>1, <1>7, <1>8

-----------------------------------------------------------------------------
(***************************************************************************)
(* SaveToDB, HandleMailTakeMoney, HandleMailTakeItem: what p has and its   *)
(* letters are written together.                                           *)
(***************************************************************************)
LEMMA TwoInARow ==
  ASSUME NEW s, NEW t
  PROVE  <<s>> \o <<t>> = <<s, t>> /\ Len(<<s, t>>) = 2
  <1> DEFINE S == {s, t}
             x == <<s>>
             y == <<t>>
             z == <<s, t>>
  <1>1. x \in Seq(S) /\ Len(x) = 1 /\ x[1] = s
    OBVIOUS
  <1>2. y \in Seq(S) /\ Len(y) = 1 /\ y[1] = t
    OBVIOUS
  <1>3. z \in Seq(S) /\ Len(z) = 2 /\ z[1] = s /\ z[2] = t
    OBVIOUS
  <1> HIDE DEF S, x, y, z
  <1>4. /\ x \o y \in Seq(S) /\ Len(x \o y) = 2
        /\ (x \o y)[1] = s /\ (x \o y)[2] = t
    <2>1. /\ x \o y \in Seq(S) /\ Len(x \o y) = 2
          /\ \A k \in 1 .. 2 : (x \o y)[k] = IF k <= 1 THEN x[k] ELSE y[k - 1]
      BY <1>1, <1>2, ConcatProperties
    <2>2. (x \o y)[1] = x[1] /\ (x \o y)[2] = y[2 - 1]
      BY <2>1
    <2> QED
      BY <1>1, <1>2, <2>1, <2>2
  <1>5. \A k \in 1 .. 2 : (x \o y)[k] = z[k]
    BY <1>3, <1>4
  <1>6. x \o y = z
    BY <1>3, <1>4, <1>5, SeqEqual
  <1> QED
    BY <1>3, <1>6 DEF x, y, z

LEMMA FourInARow ==
  ASSUME NEW s, NEW t, NEW u, NEW v
  PROVE  <<s, t>> \o <<u, v>> = <<s, t, u, v>> /\ Len(<<s, t, u, v>>) = 4
  <1> DEFINE S == {s, t, u, v}
             x == <<s, t>>
             y == <<u, v>>
             z == <<s, t, u, v>>
  <1>1. x \in Seq(S) /\ Len(x) = 2 /\ x[1] = s /\ x[2] = t
    OBVIOUS
  <1>2. y \in Seq(S) /\ Len(y) = 2 /\ y[1] = u /\ y[2] = v
    OBVIOUS
  <1>3. z \in Seq(S) /\ Len(z) = 4 /\ z[1] = s /\ z[2] = t /\ z[3] = u /\ z[4] = v
    OBVIOUS
  <1> HIDE DEF S, x, y, z
  <1>4. /\ x \o y \in Seq(S) /\ Len(x \o y) = 4
        /\ (x \o y)[1] = s /\ (x \o y)[2] = t /\ (x \o y)[3] = u /\ (x \o y)[4] = v
    <2>0. PICK xy : xy = x \o y
      OBVIOUS
    <2>0a. xy \in Seq(S) /\ Len(xy) = Len(x) + Len(y)
      BY <1>1, <1>2, <2>0, ConcatProperties
    <2>0b. \A k \in 1 .. Len(x) + Len(y) :
              xy[k] = IF k <= Len(x) THEN x[k] ELSE y[k - Len(x)]
      BY <1>1, <1>2, <2>0, ConcatProperties
    <2>1. /\ x \o y \in Seq(S) /\ Len(x \o y) = 4
          /\ \A k \in 1 .. 4 : (x \o y)[k] = IF k <= 2 THEN x[k] ELSE y[k - 2]
      BY <1>1, <1>2, <2>0, <2>0a, <2>0b
    <2>2. /\ (x \o y)[1] = x[1] /\ (x \o y)[2] = x[2]
          /\ (x \o y)[3] = y[3 - 2] /\ (x \o y)[4] = y[4 - 2]
      BY <2>1
    <2> QED
      BY <1>1, <1>2, <2>1, <2>2
  <1>5. \A k \in 1 .. 4 : (x \o y)[k] = z[k]
    BY <1>3, <1>4
  <1>6. x \o y = z
    BY <1>3, <1>4, <1>5, SeqEqual
  <1> QED
    BY <1>3, <1>6 DEF x, y, z

LEMMA OneAndSave ==
  ASSUME NEW db, NEW s, NEW letters
  PROVE  \E c, d : /\ Saved(Execute(db, s), c, d, letters)
                   /\ ExecuteAll(db, <<s>> \o SaveMail(letters)) = d
  <1> DEFINE t == SaveMail(letters)[1]
             u == SaveMail(letters)[2]
  <1>1. SaveMail(letters) = <<t, u>>
    BY DEF SaveMail
  <1> DEFINE c == Execute(Execute(db, s), t)
             d == Execute(c, u)
  <1>2. Saved(Execute(db, s), c, d, letters)
    BY DEF Saved
  <1> HIDE DEF t, u
  <1>3. <<s>> \o SaveMail(letters) = <<s, t, u>>
    BY <1>1, ThreeInARow
  <1>4. ExecuteAll(db, <<s, t, u>>) = Execute(Execute(Execute(db, s), t), u)
    BY ExecuteThree
  <1>5. ExecuteAll(db, <<s>> \o SaveMail(letters)) = d
    BY <1>3, <1>4
  <1> QED
    BY <1>2, <1>5

LEMMA TwoAndSave ==
  ASSUME NEW db, NEW r, NEW s, NEW letters
  PROVE  \E c, d : /\ Saved(Execute(Execute(db, r), s), c, d, letters)
                   /\ ExecuteAll(db, <<r, s>> \o SaveMail(letters)) = d
  <1> DEFINE t == SaveMail(letters)[1]
             u == SaveMail(letters)[2]
  <1>1. SaveMail(letters) = <<t, u>>
    BY DEF SaveMail
  <1> DEFINE c == Execute(Execute(Execute(db, r), s), t)
             d == Execute(c, u)
  <1>2. Saved(Execute(Execute(db, r), s), c, d, letters)
    BY DEF Saved
  <1> HIDE DEF t, u
  <1>3. <<r, s>> \o SaveMail(letters) = <<r, s, t, u>>
    BY <1>1, FourInARow
  <1>4. ExecuteAll(db, <<r, s, t, u>>) = Execute(Execute(Execute(Execute(db, r), s), t), u)
    BY ExecuteFour
  <1>5. ExecuteAll(db, <<r, s>> \o SaveMail(letters)) = d
    BY <1>3, <1>4
  <1> QED
    BY <1>2, <1>5

\* The letters that are left in memory after a save are in the tables.
LEMMA AfterSaveFits ==
  ASSUME NEW letters, NEW p, NEW table, NEW ms,
         \A l \in letters : Letter(l) /\ l.mail.receiver = p,
         \A l, k \in letters : l.mail = k.mail => l = k,
         \A l \in letters : l.mail \notin Marked(letters) => l.mail \in table /\ l.mail \notin ms
  PROVE  Fits(AfterSave(letters), p, table, ms)
  <1> DEFINE New(l) == [l EXCEPT !.state = "unchanged"]
  <1>1. AfterSave(letters) = {New(l) : l \in {x \in letters : x.state # "deleted"}}
    BY DEF AfterSave
  <1>2. ASSUME NEW l \in letters
        PROVE  New(l) = [mail |-> l.mail, state |-> "unchanged"]
    BY DEF Letter
  <1>3. ASSUME NEW l \in letters PROVE Letter(New(l)) /\ New(l).mail = l.mail
    <2>1. New(l) = [mail |-> l.mail, state |-> "unchanged"]
      BY <1>2
    <2> HIDE DEF New
    <2> QED
      BY <2>1 DEF Letter
  <1>4. ASSUME NEW l \in letters, l.state # "deleted" PROVE l.mail \notin Marked(letters)
    BY <1>4 DEF Marked
  <1> HIDE DEF New
  <1>5. \A k \in AfterSave(letters) : \E l \in letters : k = New(l) /\ l.state # "deleted"
    BY <1>1
  <1>6. ASSUME NEW k \in AfterSave(letters)
        PROVE  Letter(k) /\ k.mail \in table /\ k.mail.receiver = p /\ k.mail \notin ms
    <2>1. PICK l \in letters : k = New(l) /\ l.state # "deleted"
      BY <1>5
    <2> QED
      BY <1>3, <1>4, <2>1
  <1>7. ASSUME NEW k \in AfterSave(letters), NEW n \in AfterSave(letters), k.mail = n.mail
        PROVE  k = n
    <2>1. PICK l \in letters : k = New(l)
      BY <1>5
    <2>2. PICK i \in letters : n = New(i)
      BY <1>5
    <2>3. l.mail = i.mail
      BY <1>3, <1>7, <2>1, <2>2
    <2>4. l = i
      BY <2>3
    <2> QED
      BY <2>1, <2>2, <2>4
  <1> QED
    BY <1>6, <1>7 DEF Fits

LEMMA SaveStep ==
  ASSUME NEW db, Before(db), NEW p \in Players, NEW next \in {"online", "offline"},
         SaveToDB(p, next), UNCHANGED <<auctions, aitems>>
  PROVE  MailInv' /\ Throws(p, Marked(box[p]))
  <1> DEFINE g == has[p].gold
             a == SaveGold(p, g, 0)
             s == <<a>> \o SaveMail(box[p])
             txns == <<s>>
  <1>1. /\ where[p] = "online" /\ where' = [where EXCEPT ![p] = next]
        /\ has' = IF next = "online" THEN has ELSE [has EXCEPT ![p] = Nobody]
        /\ box' = [box EXCEPT ![p] = IF next = "online" THEN AfterSave(box[p]) ELSE {}]
        /\ UNCHANGED <<answer, mailId, saved, within>>
    BY DEF SaveToDB
  <1>2. Commit("player", txns) /\ Len(txns) = 1 /\ 1 \in Nat /\ 1 > 0
    BY DEF SaveToDB
  <1>3. /\ mailId \in Nat /\ MaxMoney \in Nat /\ Ok(written, mailId) /\ Settled(written)
        /\ BoxOk(p) /\ HasOk(p) /\ g \in 0 .. MaxMoney
    BY Now
  <1>4. /\ where \in [Players -> {"offline", "loading", "online"}]
        /\ has \in [Players -> [gold : 0 .. MaxMoney, items : SUBSET Items]]
        /\ DOMAIN box = Players /\ box = [q \in Players |-> box[q]]
    BY DEF Before, Shape
  <1>5. g = written.gold[p] /\ has[p].items = written.inventory[p]
    BY <1>1, <1>3 DEF HasOk
  <1>6. written.gold \in [Players -> 0 .. MaxMoney]
    BY Now, TablesFacts
  <1> HIDE DEF s, a
  <1>7. txns = <<s>>
    OBVIOUS
  <1> HIDE DEF txns
  <1>8. PICK h : Committed(h, txns, 1)
    BY <1>2, CommitPages
  <1>9. h[1] = ExecuteAll(written, s) /\ written' = h[1]
    BY <1>7, <1>8, CommittedOne
  <1>10. PICK c, d : Saved(Execute(written, a), c, d, box[p]) /\ ExecuteAll(written, s) = d
    BY OneAndSave DEF s
  <1>11. PICK b : b = Execute(written, SaveGold(p, g, 0))
    OBVIOUS
  <1>12. /\ Ok(b, mailId) /\ b.gold = [written.gold EXCEPT ![p] = g]
         /\ b.inventory = written.inventory /\ b.mail = written.mail
         /\ b.auction = written.auction /\ b.waste.items = written.waste.items
         /\ AllGold(b) = AllGold(written) - written.gold[p] + g + 0
    BY <1>3, <1>11, StateGold
  <1> HIDE DEF g
  <1>13. b.gold = written.gold /\ AllGold(b) = AllGold(written)
    <2>1. AllGold(written) \in Nat /\ written.gold[p] \in Nat
      BY <1>3, GoldType
    <2> QED
      BY <1>5, <1>6, <1>12, <2>1
  <1>14. Saved(b, c, d, box[p]) /\ LettersOk(box[p], b.mail)
    BY <1>3, <1>10, <1>11, <1>12 DEF a, BoxOk, LettersOk
  <1>15. /\ Ok(d, mailId) /\ d.mail = b.mail \ Marked(box[p])
         /\ d.gold = b.gold /\ d.inventory = b.inventory /\ d.auction = b.auction
         /\ d.waste.items = b.waste.items \cup ItemsOf(Marked(box[p]))
         /\ AllGold(d) = AllGold(b)
    BY <1>12, <1>14, SaveUnchanged
  <1>16. written' = d /\ h[1] = d
    BY <1>9, <1>10
  <1>17. Marked(box[p]) \in SUBSET written.mail /\ \A m \in Marked(box[p]) : m.receiver = p
    BY <1>3 DEF BoxOk, Marked
  <1>18. Settled(d)
    BY <1>3, <1>12, <1>13, <1>15, <1>17, WasteSettled
  <1>19. mailId' \in Nat /\ mailId <= mailId' /\ mailId' = mailId
    BY <1>1, <1>3
  <1>20. Filled(h, "player", 1)
    BY <1>15, <1>16, <1>18, <1>19 DEF Filled, Page
  <1>21. PICK bx : bx = box' /\ Got(bx, {})
    BY DEF Got, News
  <1>22. \A q \in Players : q # p => bx[q] = box[q]
    BY <1>1, <1>4, <1>21
  <1>23. Others(p)
    BY <1>1, <1>4, <1>12, <1>13, <1>15, <1>16, <1>17 DEF Others, Kept
  <1>24. {} \cap written.mail = {} /\ {} \subseteq written'.mail
    OBVIOUS
  <1>25. HasOk(p)' /\ Fits(bx[p], p, written'.mail, {})
    <2>1. CASE next = "online"
      <3>1. bx[p] = AfterSave(box[p]) /\ has' = has /\ where'[p] = "online"
        BY <1>1, <1>4, <1>21, <2>1
      <3>2. HasOk(p)'
        BY <1>5, <1>12, <1>13, <1>15, <1>16, <3>1 DEF HasOk, g
      <3>3. \A l \in box[p] : Letter(l) /\ l.mail.receiver = p
        BY <1>3 DEF BoxOk
      <3>4. \A l, k \in box[p] : l.mail = k.mail => l = k
        BY <1>3 DEF BoxOk
      <3>5. \A l \in box[p] : l.mail \notin Marked(box[p]) => l.mail \in written'.mail /\ l.mail \notin {}
        BY <1>3, <1>12, <1>15, <1>16 DEF BoxOk
      <3> QED
        BY <3>1, <3>2, <3>3, <3>4, <3>5, AfterSaveFits
    <2>2. CASE next # "online"
      <3>1. bx[p] = {} /\ box'[p] = {} /\ has'[p] = Nobody /\ where'[p] # "online"
        BY <1>1, <1>4, <1>21, <2>2
      <3> QED
        BY <3>1 DEF HasOk, Fits
    <2> QED
      BY <2>1, <2>2
  <1>26. Queue' /\ Answers' /\ Memory' /\ \E e : Ledger(e)' /\ Logins(e)'
    <2>1. /\ UNCHANGED <<saved, within, answer>> /\ where[p] # "loading"
          /\ "player" \in Kinds
      BY <1>1 DEF Kinds
    <2>2. Shape /\ Queue /\ Answers /\ Memory /\ Ledger(db) /\ Logins(db)
      BY DEF Before
    <2> QED
      BY <1>2, <1>8, <1>19, <1>20, <1>21, <1>22, <1>23, <1>24, <1>25, <2>1, <2>2, HandlerStep
  <1>27. Shape'
    <2>1. where' \in [Players -> {"offline", "loading", "online"}]
      BY <1>1, <1>4
    <2>2. Nobody \in [gold : 0 .. MaxMoney, items : SUBSET Items]
      BY <1>3 DEF Nobody
    <2>3. has' \in [Players -> [gold : 0 .. MaxMoney, items : SUBSET Items]]
      BY <1>1, <1>4, <2>2
    <2>4. DOMAIN box' = Players /\ box' = [q \in Players |-> box'[q]]
      BY <1>1, <1>4
    <2> QED
      BY <1>1, <1>19, <2>1, <2>3, <2>4 DEF Before, Shape
  <1>28. Sales'
    BY <1>12, <1>15, <1>16 DEF Before, Sales
  <1>29. Throws(p, Marked(box[p]))
    <2>1. \A m \in Marked(box[p]) : m.cod = 0
      BY <1>3 DEF BoxOk, Letter, Marked
    <2> QED
      BY <1>12, <1>13, <1>15, <1>16, <1>17, <2>1 DEF Throws, Change
  <1> QED
    BY <1>26, <1>27, <1>28, <1>29 DEF Before, MailInv
-----------------------------------------------------------------------------
(***************************************************************************)
(* HandleMailTakeMoney.  Of the letters in old, l became the letter j.     *)
(***************************************************************************)
LEMMA TakenFits ==
  ASSUME NEW p, BoxOk(p), NEW l \in box[p], l.state # "deleted",
         NEW j, j.receiver = p, j \notin written.mail, NEW ms, j \notin ms,
         ms \cap written.mail = {},
         NEW letters, Retaken(letters, box[p], l, j),
         NEW table, ((written.mail \ {l.mail}) \cup {j}) \ Marked(box[p]) \subseteq table
  PROVE  Fits(AfterSave(letters), p, table, ms)
  <1> DEFINE k == [mail |-> j, state |-> "changed"]
  <1>1. Letter(k) /\ k.mail = j /\ k.state = "changed"
    BY DEF Letter
  <1> HIDE DEF k
  <1>2. letters = (box[p] \ {l}) \cup {k}
    BY DEF k, Retaken
  <1>3. \A n \in box[p] : Letter(n) /\ n.mail \in written.mail /\ n.mail.receiver = p
    BY DEF BoxOk
  <1>4. \A n \in letters : Letter(n) /\ n.mail.receiver = p
    BY <1>1, <1>2, <1>3
  <1>5. \A n, i \in letters : n.mail = i.mail => n = i
    BY <1>1, <1>2, <1>3 DEF BoxOk
  <1>6. ASSUME NEW n \in letters, n.mail \notin Marked(letters)
        PROVE  n.mail \in table /\ n.mail \notin ms
    <2>1. CASE n = k
      <3>1. j \notin Marked(box[p])
        BY <1>3 DEF Marked
      <3> QED
        BY <1>1, <2>1, <3>1
    <2>2. CASE n # k
      <3>1. n \in box[p] /\ n # l
        BY <1>2, <2>2
      <3>2. n.mail # l.mail
        BY <3>1 DEF BoxOk
      <3>3. n.mail \notin Marked(box[p])
        <4>1. SUFFICES ASSUME n.mail \in Marked(box[p]) PROVE FALSE
          OBVIOUS
        <4>2. PICK i \in box[p] : i.state = "deleted" /\ i.mail = n.mail
          BY <4>1 DEF Marked
        <4>3. i \in letters
          BY <1>2, <4>2
        <4>4. n.mail \in Marked(letters)
          BY <4>2, <4>3 DEF Marked
        <4> QED
          BY <1>6, <4>4
      <3> QED
        BY <1>3, <3>1, <3>2, <3>3
    <2> QED
      BY <2>1, <2>2
  <1> QED
    BY <1>4, <1>5, <1>6, AfterSaveFits

LEMMA HasGold ==
  ASSUME Shape, NEW p \in Players, NEW g
  PROVE  [has EXCEPT ![p].gold = g] = [has EXCEPT ![p] = [gold |-> g, items |-> has[p].items]]
  <1>1. has[p] \in [gold : 0 .. MaxMoney, items : SUBSET Items]
    BY DEF Shape
  <1>2. [has[p] EXCEPT !.gold = g] = [gold |-> g, items |-> has[p].items]
    BY <1>1
  <1> QED
    BY <1>2

LEMMA TakeMoneyStep ==
  ASSUME NEW db, Before(db), NEW p \in Players, NEW l,
         HandleMailTakeMoney(p, l), UNCHANGED <<auctions, aitems>>
  PROVE  MailInv' /\ \E k, j, gone : Cashes(p, k, j, gone)
  <1> DEFINE k == l.mail
             j == [k EXCEPT !.money = 0]
             g == ModifyMoney(has[p].gold, Signed(k.money))
             letters == (box[p] \ {l}) \cup {[mail |-> j, state |-> "changed"]}
             s == <<SaveGold(p, g, 0)>> \o SaveMail(letters)
             txns == <<s>>
  <1>1. /\ where[p] = "online" /\ l \in box[p] /\ l.state # "deleted" /\ k.money > 0
        /\ UNCHANGED <<where, answer, mailId, saved, within>>
    BY DEF HandleMailTakeMoney
  <1>2. DOMAIN box = Players /\ box = [r \in Players |-> box[r]]
    BY DEF Before, Shape
  <1>3. /\ has' = [has EXCEPT ![p].gold = g]
        /\ box' = [box EXCEPT ![p] = AfterSave(letters)]
        /\ Commit("mail", txns)
    BY <1>2 DEF HandleMailTakeMoney, Rewritten, TakeMoneySaves
  <1>4. /\ mailId \in Nat /\ MaxMoney \in Nat /\ Ok(written, mailId) /\ Settled(written)
        /\ BoxOk(p) /\ HasOk(p) /\ has[p].gold \in 0 .. MaxMoney
        /\ has[p].items \in SUBSET Items
    BY Now
  <1>5. /\ has[p].gold = written.gold[p] /\ has[p].items = written.inventory[p]
        /\ k \in written.mail /\ k.receiver = p
    BY <1>1, <1>4 DEF HasOk, BoxOk
  <1>6. k \in WideMails /\ MailOk(k) /\ k.id \in Nat /\ k.money \in Nat
    BY <1>4, <1>5, MailFacts
  <1>7. /\ g \in 0 .. MaxMoney /\ g <= has[p].gold + k.money
        /\ has[p].gold + k.money <= MaxMoney => g = has[p].gold + k.money
    BY <1>4, <1>6, Earn
  <1>8. /\ j \in WideMails /\ j # k /\ j.id = k.id /\ j.receiver = p /\ j.item = k.item
        /\ j.money = 0 /\ MailOk(j) /\ j.money <= k.money
    BY <1>1, <1>5, <1>6 DEF WideMails, MailOk
  <1>9. /\ written.gold \in [Players -> 0 .. MaxMoney]
        /\ written.inventory \in [Players -> SUBSET Items]
    BY Now, TablesFacts
  <1> HIDE DEF g, j, s, k, letters
  <1>10. HasBecomes(p, g, has[p].items)
    <2>1. Shape
      BY DEF Before
    <2> QED
      BY <1>3, <2>1, HasGold DEF HasBecomes
  <1>11. txns = <<s>>
    OBVIOUS
  <1> HIDE DEF txns
  <1>12. Len(txns) = 1 /\ 1 \in Nat /\ 1 > 0 /\ Commit("mail", txns)
    BY <1>3 DEF txns
  <1>13. PICK h : Committed(h, txns, 1)
    BY <1>12, CommitPages
  <1>14. h[1] = ExecuteAll(written, s) /\ written' = h[1]
    BY <1>11, <1>13, CommittedOne
  <1>15. PICK c, d : Saved(Execute(written, SaveGold(p, g, 0)), c, d, letters)
                     /\ ExecuteAll(written, s) = d
    BY OneAndSave DEF s
  <1>16. PICK b : b = Execute(written, SaveGold(p, g, 0))
    OBVIOUS
  <1>17. /\ Ok(b, mailId) /\ b.gold = [written.gold EXCEPT ![p] = g]
         /\ b.inventory = written.inventory /\ b.mail = written.mail
         /\ b.auction = written.auction /\ b.waste.items = written.waste.items
         /\ AllGold(b) = AllGold(written) - written.gold[p] + g + 0
    BY <1>4, <1>7, <1>16, StateGold
  <1>18. Saved(b, c, d, letters) /\ LettersOk(box[p], b.mail)
    BY <1>4, <1>15, <1>16, <1>17 DEF BoxOk, LettersOk
  <1>19. /\ Ok(d, mailId) /\ d.mail = ((b.mail \ {k}) \cup {j}) \ Marked(box[p])
         /\ j \notin b.mail
         /\ d.gold = b.gold /\ d.inventory = b.inventory /\ d.auction = b.auction
         /\ d.waste.items = b.waste.items \cup ItemsOf(Marked(box[p]))
         /\ AllGold(d) = AllGold(b) - k.money + j.money
    <2>1. Retaken(letters, box[p], l, j)
      BY DEF letters, Retaken
    <2>2. j # l.mail /\ j.id = l.mail.id /\ j.money <= l.mail.money
      BY <1>8 DEF k
    <2>3. Ok(b, mailId) /\ l \in box[p] /\ l.state # "deleted" /\ j \in WideMails /\ MailOk(j)
      BY <1>1, <1>8, <1>17
    <2>4. Taken(b, d, mailId, box[p], l.mail, j)
      BY <1>18, <2>1, <2>2, <2>3, SaveTaken
    <2> QED
      BY <2>4 DEF k, Taken
  <1>20. /\ written' = d /\ h[1] = d
         /\ d.mail = ((written.mail \ {k}) \cup {j}) \ Marked(box[p])
         /\ j \notin written.mail
         /\ d.gold = [written.gold EXCEPT ![p] = g] /\ d.inventory = written.inventory
         /\ d.auction = written.auction
         /\ d.waste.items = written.waste.items \cup ItemsOf(Marked(box[p]))
    BY <1>14, <1>15, <1>17, <1>19
  <1>21. /\ Marked(box[p]) \in SUBSET written.mail /\ \A m \in Marked(box[p]) : m.receiver = p
         /\ k \notin Marked(box[p])
    <2>1. \A n \in box[p] : n.state = "deleted" => n.mail # k
      BY <1>1, <1>4 DEF BoxOk, k
    <2> QED
      BY <1>4, <2>1 DEF BoxOk, Marked
  <1>22. Placed(d)
    <2>1. Placed(written)
      BY <1>4 DEF Settled, Placed
    <2>2. PICK e : Holds(e, written.inventory, (written.mail \ {k}) \cup {j}, written.auction,
                         written.waste.items)
      BY HoldsExists
    <2>3. Placed(e)
      BY <1>5, <1>8, <2>1, <2>2, PlacedPost
    <2>4. Marked(box[p]) \in SUBSET e.mail
      BY <1>21, <2>2 DEF Holds
    <2>5. Holds(d, e.inventory, e.mail \ Marked(box[p]), e.auction,
                e.waste.items \cup ItemsOf(Marked(box[p])))
      BY <1>20, <2>2 DEF Holds
    <2> QED
      BY <2>3, <2>4, <2>5, PlacedWaste
  <1>23. Roomy => AllGold(d) = Issued /\ g = written.gold[p] + k.money
    <2>1. SUFFICES ASSUME Roomy PROVE AllGold(d) = Issued /\ g = written.gold[p] + k.money
      OBVIOUS
    <2>2. AllGold(written) \in Nat /\ written.gold[p] \in Nat
          /\ written.gold[p] + k.money <= AllGold(written)
      BY <1>4, <1>5, GoldType
    <2>3. AllGold(written) = Issued /\ AllGold(written) <= MaxMoney
      BY <1>4, <2>1 DEF Settled, Roomy
    <2>4. g = written.gold[p] + k.money
      BY <1>4, <1>5, <1>6, <1>7, <2>2, <2>3
    <2>5. AllGold(d) = Issued
      BY <1>6, <1>8, <1>17, <1>19, <2>2, <2>3, <2>4
    <2> QED
      BY <2>4, <2>5
  <1>24. Settled(d)
    BY <1>22, <1>23 DEF Settled, Placed
  <1>25. mailId' \in Nat /\ mailId <= mailId' /\ mailId' = mailId
    BY <1>1, <1>4
  <1>26. Filled(h, "mail", 1)
    BY <1>19, <1>20, <1>24, <1>25 DEF Filled, Page
  <1>27. PICK bx : bx = box' /\ Got(bx, {})
    BY DEF Got, News
  <1>28. \A q \in Players : q # p => bx[q] = box[q]
    BY <1>2, <1>3, <1>27
  <1>29. /\ has' \in [Players -> [gold : 0 .. MaxMoney, items : SUBSET Items]]
         /\ has'[p].gold = g /\ has'[p].items = has[p].items
         /\ \A r \in Players : r # p => has'[r] = has[r]
    <2>1. Shape /\ HasBecomes(p, g, has[p].items)
      BY <1>10 DEF Before
    <2> QED
      BY <1>4, <1>7, <2>1, HasTyped
  <1>30. Others(p)
    BY <1>1, <1>5, <1>8, <1>9, <1>20, <1>21, <1>29 DEF Others, Kept
  <1>31. HasOk(p)'
    BY <1>1, <1>5, <1>9, <1>20, <1>29 DEF HasOk
  <1>32. Fits(bx[p], p, written'.mail, {})
    <2>1. bx[p] = AfterSave(letters)
      BY <1>2, <1>3, <1>27
    <2>2. /\ j \notin {} /\ {} \cap written.mail = {}
          /\ ((written.mail \ {k}) \cup {j}) \ Marked(box[p]) \subseteq written'.mail
      BY <1>20
    <2>3. Retaken(letters, box[p], l, j)
      BY DEF letters, Retaken
    <2>4. ((written.mail \ {l.mail}) \cup {j}) \ Marked(box[p]) \subseteq written'.mail
      BY <2>2 DEF k
    <2>5. BoxOk(p) /\ l \in box[p] /\ l.state # "deleted" /\ j.receiver = p /\ j \notin written.mail
      BY <1>1, <1>4, <1>8, <1>20
    <2>6. PICK table : table = written'.mail
      OBVIOUS
    <2>7. Fits(AfterSave(letters), p, table, {})
      BY <2>2, <2>3, <2>4, <2>5, <2>6, TakenFits
    <2> QED
      BY <2>1, <2>6, <2>7
  <1>33. {} \cap written.mail = {} /\ {} \subseteq written'.mail
    OBVIOUS
  <1>34. Queue' /\ Answers' /\ Memory' /\ \E e : Ledger(e)' /\ Logins(e)'
    <2>1. /\ UNCHANGED <<saved, within, answer>> /\ where[p] # "loading"
          /\ "mail" \in Kinds
      BY <1>1 DEF Kinds
    <2>2. Shape /\ Queue /\ Answers /\ Memory /\ Ledger(db) /\ Logins(db)
      BY DEF Before
    <2> QED
      BY <1>12, <1>13, <1>25, <1>26, <1>27, <1>28, <1>30, <1>31, <1>32, <1>33, <2>1, <2>2,
         HandlerStep
  <1>35. Shape'
    <2>1. DOMAIN box' = Players /\ box' = [q \in Players |-> box'[q]]
      BY <1>2, <1>3
    <2> QED
      BY <1>1, <1>29, <2>1 DEF Before, Shape
  <1>36. Sales'
    BY <1>20 DEF Before, Sales
  <1>37. Cashes(p, k, j, Marked(box[p]))
    <2>1. \A m \in Marked(box[p]) : m.cod = 0
      BY <1>4 DEF BoxOk, Letter, Marked
    <2>2. j = [k EXCEPT !.money = 0]
      BY DEF j
    <2> QED
      BY <1>5, <1>7, <1>20, <1>21, <2>1, <2>2 DEF Cashes, Change
  <1> QED
    BY <1>34, <1>35, <1>36, <1>37 DEF Before, MailInv

-----------------------------------------------------------------------------
(***************************************************************************)
(* HandleMailTakeItem.                                                     *)
(***************************************************************************)
\* The tables d after p got the item of the letter k, which became j, for its COD.
ItemTaken(b, d, next, p, k, j, g) ==
    /\ Ok(d, next) /\ Placed(d)
    /\ d.mail = ((b.mail \ {k}) \cup {j}) \ Marked(box[p]) /\ j \notin b.mail
    /\ d.gold = [b.gold EXCEPT ![p] = g]
    /\ d.inventory = [b.inventory EXCEPT ![p] = @ \cup {k.item}]
    /\ d.auction = b.auction /\ AllGold(d) = AllGold(b) - b.gold[p] + g

LEMMA ItemTables ==
  ASSUME NEW b, NEW next, Ok(b, next), Placed(b), NEW p \in Players,
         LettersOk(box[p], b.mail), NEW l \in box[p], l.state # "deleted",
         l.mail.item \in Items,
         NEW j \in WideMails, j.id = l.mail.id, MailOk(j), j.money = l.mail.money,
         j.item = None, NEW g \in 0 .. MaxMoney, NEW letters, Retaken(letters, box[p], l, j)
  PROVE  \E d : /\ ItemTaken(b, d, next, p, l.mail, j, g)
                /\ d = ExecuteAll(b, <<StoreItem(p, l.mail.item), SaveGold(p, g, 0)>> \o SaveMail(letters))
  <1> DEFINE k == l.mail
             i == k.item
             s == StoreItem(p, i)
             t == SaveGold(p, g, 0)
  <1>1. PICK x : x = Execute(b, s)
    OBVIOUS
  <1>2. PICK y : y = Execute(x, t)
    OBVIOUS
  <1>3. PICK c, d : Saved(Execute(Execute(b, s), t), c, d, letters)
                    /\ ExecuteAll(b, <<s, t>> \o SaveMail(letters)) = d
    BY TwoAndSave
  <1>4. k \in b.mail /\ MaxMoney \in Nat /\ 0 \in Nat
    BY TablesAssumption DEF LettersOk
  <1> HIDE DEF k
  <1>5. i \in Items
    BY DEF k
  <1> HIDE DEF i
  <1>6. /\ Ok(x, next) /\ x.inventory = [b.inventory EXCEPT ![p] = @ \cup {i}]
        /\ x.gold = b.gold /\ x.mail = b.mail /\ x.auction = b.auction
        /\ x.waste.items = b.waste.items /\ AllGold(x) = AllGold(b)
    BY <1>1, <1>5, StateStore DEF s
  <1>7. /\ Ok(y, next) /\ y.gold = [x.gold EXCEPT ![p] = g]
        /\ y.inventory = x.inventory /\ y.mail = x.mail /\ y.auction = x.auction
        /\ y.waste.items = x.waste.items
        /\ AllGold(y) = AllGold(x) - x.gold[p] + g + 0
    BY <1>2, <1>4, <1>6, StateGold DEF t
  <1> HIDE DEF s, t
  <1>8. Taken(y, d, next, box[p], k, j)
    <2>1. Saved(y, c, d, letters) /\ LettersOk(box[p], y.mail)
      BY <1>1, <1>2, <1>3, <1>6, <1>7
    <2>2. j # l.mail /\ j.money <= l.mail.money
      <3>1. l.mail.money \in Nat /\ None \notin Items
        BY <1>4, MailFacts, TablesAssumption DEF k
      <3> QED
        BY <3>1
    <2>3. Taken(y, d, next, box[p], l.mail, j)
      BY <1>7, <2>1, <2>2, SaveTaken
    <2> QED
      BY <2>3 DEF k
  <1>9. /\ d.mail = ((b.mail \ {k}) \cup {j}) \ Marked(box[p]) /\ j \notin b.mail
        /\ d.gold = [b.gold EXCEPT ![p] = g]
        /\ d.inventory = [b.inventory EXCEPT ![p] = @ \cup {i}]
        /\ d.auction = b.auction
        /\ d.waste.items = b.waste.items \cup ItemsOf(Marked(box[p]))
        /\ Ok(d, next) /\ k \notin Marked(box[p])
    BY <1>6, <1>7, <1>8 DEF Taken
  <1>10. AllGold(d) = AllGold(b) - b.gold[p] + g
    <2>1. AllGold(b) \in Nat /\ b.gold[p] \in Nat
      BY GoldType
    <2>2. k.money \in Nat /\ j.money = k.money /\ AllGold(d) = AllGold(y) - k.money + j.money
      BY <1>8 DEF Taken, k
    <2>3. AllGold(y) = AllGold(b) - b.gold[p] + g
      BY <1>6, <1>7, <2>1
    <2> QED
      BY <2>1, <2>2, <2>3
  <1>11. Placed(d)
    <2>1. b.inventory \in [Players -> SUBSET Items]
      BY MailFacts, TablesFacts
    <2>2. PICK e : Holds(e, [b.inventory EXCEPT ![p] = @ \cup {i}], (b.mail \ {k}) \cup {j},
                         b.auction, b.waste.items)
      BY HoldsExists
    <2>3. Placed(e)
      BY <1>4, <1>5, <2>1, <2>2, PlacedTake DEF i
    <2>4. Marked(box[p]) \in SUBSET e.mail
      <3>1. Marked(box[p]) \subseteq b.mail
        BY DEF LettersOk, Marked
      <3> QED
        BY <1>9, <2>2, <3>1 DEF Holds
    <2>5. Holds(d, e.inventory, e.mail \ Marked(box[p]), e.auction,
                e.waste.items \cup ItemsOf(Marked(box[p])))
      BY <1>9, <2>2 DEF Holds
    <2> QED
      BY <2>3, <2>4, <2>5, PlacedWaste
  <1>12. ItemTaken(b, d, next, p, k, j, g)
    BY <1>9, <1>10, <1>11 DEF ItemTaken, i
  <1> QED
    BY <1>3, <1>12 DEF k, s, t, i

\* What the transactions do to the tables; ms are the letters sent.
ItemPages(txns, n, h, p, k, j, g, ms) ==
    /\ n \in Nat /\ n > 0 /\ Len(txns) = n /\ Commit("mail", txns)
    /\ Committed(h, txns, n) /\ Filled(h, "mail", n)
    /\ written'.mail = (((written.mail \cup ms) \ {k}) \cup {j}) \ Marked(box[p])
    /\ j \notin written.mail /\ j \notin ms /\ ms \cap written.mail = {}
    /\ written'.gold = [written.gold EXCEPT ![p] = g]
    /\ written'.inventory = [written.inventory EXCEPT ![p] = @ \cup {k.item}]
    /\ written'.auction = written.auction

LEMMA FreePages ==
  ASSUME NEW db, Before(db), NEW p \in Players, NEW l \in box[p], l.state # "deleted",
         l.mail.item \in Items,
         NEW j \in WideMails, j.id = l.mail.id, MailOk(j), j.money = l.mail.money,
         j.item = None, NEW letters, Retaken(letters, box[p], l, j),
         NEW g \in 0 .. MaxMoney, g = written.gold[p], mailId' = mailId,
         Commit("mail", <<<<StoreItem(p, l.mail.item), SaveGold(p, g, 0)>> \o SaveMail(letters)>>)
  PROVE  \E txns, n, h : ItemPages(txns, n, h, p, l.mail, j, g, {})
  <1> DEFINE s == <<StoreItem(p, l.mail.item), SaveGold(p, g, 0)>> \o SaveMail(letters)
             txns == <<s>>
  <1>1. Len(txns) = 1 /\ 1 \in Nat /\ 1 > 0 /\ Commit("mail", txns)
    OBVIOUS
  <1>2. /\ mailId \in Nat /\ Ok(written, mailId) /\ Settled(written) /\ BoxOk(p)
        /\ LettersOk(box[p], written.mail) /\ Placed(written)
    BY Now DEF BoxOk, LettersOk, Settled, Placed
  <1>3. PICK d : ItemTaken(written, d, mailId, p, l.mail, j, g) /\ d = ExecuteAll(written, s)
    BY <1>2, ItemTables
  <1> HIDE DEF s
  <1>4. txns = <<s>>
    OBVIOUS
  <1> HIDE DEF txns
  <1>5. PICK h : Committed(h, txns, 1)
    BY <1>1, CommitPages
  <1>6. h[1] = d /\ written' = d
    BY <1>3, <1>4, <1>5, CommittedOne
  <1>7. Settled(d)
    <2>1. AllGold(written) \in Nat /\ written.gold[p] \in Nat
      BY <1>2, GoldType
    <2>2. AllGold(d) = AllGold(written)
      BY <1>3, <2>1 DEF ItemTaken
    <2> QED
      BY <1>2, <1>3, <2>2 DEF ItemTaken, Settled, Placed
  <1>8. Filled(h, "mail", 1)
    BY <1>3, <1>6, <1>7 DEF ItemTaken, Filled, Page
  <1>9. /\ written'.mail = ((written.mail \ {l.mail}) \cup {j}) \ Marked(box[p])
        /\ j \notin written.mail
        /\ written'.gold = [written.gold EXCEPT ![p] = g]
        /\ written'.inventory = [written.inventory EXCEPT ![p] = @ \cup {l.mail.item}]
        /\ written'.auction = written.auction
    BY <1>3, <1>6 DEF ItemTaken
  <1>10. written'.mail = (((written.mail \cup {}) \ {l.mail}) \cup {j}) \ Marked(box[p])
    BY <1>9
  <1>11. ItemPages(txns, 1, h, p, l.mail, j, g, {})
    BY <1>1, <1>5, <1>8, <1>9, <1>10 DEF ItemPages
  <1> QED
    BY <1>11

LEMMA PaidPages ==
  ASSUME NEW db, Before(db), NEW p \in Players, NEW l \in box[p], l.state # "deleted",
         l.mail.item \in Items,
         NEW j \in WideMails, j.id = l.mail.id, MailOk(j), j.money = l.mail.money,
         j.item = None, NEW letters, Retaken(letters, box[p], l, j),
         NEW m, Fresh(m, mailId), m.item = None,
         NEW g \in 0 .. MaxMoney, m.money \in Nat, g + m.money = written.gold[p],
         mailId' = mailId + 1,
         Commit("mail", <<<<InsertMail(m)>>,
                          <<StoreItem(p, l.mail.item), SaveGold(p, g, 0)>> \o SaveMail(letters)>>)
  PROVE  \E txns, n, h : ItemPages(txns, n, h, p, l.mail, j, g, {m})
  <1> DEFINE s == <<InsertMail(m)>>
             t == <<StoreItem(p, l.mail.item), SaveGold(p, g, 0)>> \o SaveMail(letters)
             txns == <<s, t>>
  <1>1. Len(txns) = 2 /\ 2 \in Nat /\ 2 > 0 /\ Commit("mail", txns)
    OBVIOUS
  <1>2. /\ mailId \in Nat /\ Ok(written, mailId) /\ Settled(written) /\ BoxOk(p)
        /\ LettersOk(box[p], written.mail) /\ Placed(written)
    BY Now DEF BoxOk, LettersOk, Settled, Placed
  <1>3. PICK b : b = Execute(written, InsertMail(m))
    OBVIOUS
  <1>4. /\ Ok(b, mailId + 1) /\ b.mail = written.mail \cup {m} /\ m \notin written.mail
        /\ b.gold = written.gold /\ b.inventory = written.inventory
        /\ b.auction = written.auction /\ b.waste.items = written.waste.items
        /\ AllGold(b) = AllGold(written) + m.money
    BY <1>2, <1>3, StateInsert
  <1>5. Placed(b) /\ LettersOk(box[p], b.mail)
    <2>1. Holds(b, written.inventory, written.mail \cup {m}, written.auction, written.waste.items)
      BY <1>4 DEF Holds
    <2> QED
      BY <1>2, <1>4, <2>1, PlacedEmpty DEF LettersOk
  <1>6. PICK d : ItemTaken(b, d, mailId + 1, p, l.mail, j, g) /\ d = ExecuteAll(b, t)
    <2>1. PICK next : next = mailId + 1
      OBVIOUS
    <2>2. Ok(b, next)
      BY <1>4, <2>1
    <2>3. \E d : ItemTaken(b, d, next, p, l.mail, j, g) /\ d = ExecuteAll(b, t)
      BY <1>5, <2>2, ItemTables
    <2> QED
      BY <2>1, <2>3
  <1> HIDE DEF s, t
  <1>7. txns = <<s, t>>
    OBVIOUS
  <1> HIDE DEF txns
  <1>8. PICK h : Committed(h, txns, 2)
    BY <1>1, CommitPages
  <1>9. h[1] = b /\ h[2] = d /\ written' = d
    <2>1. h[1] = ExecuteAll(written, s) /\ h[2] = ExecuteAll(h[1], t) /\ written' = h[2]
      BY <1>7, <1>8, CommittedTwo
    <2>2. ExecuteAll(written, s) = Execute(written, InsertMail(m))
      BY ExecuteOne DEF s
    <2> QED
      BY <1>3, <1>6, <2>1, <2>2
  <1>10. Settled(d)
    <2>1. AllGold(written) \in Nat /\ written.gold[p] \in Nat
      BY <1>2, GoldType
    <2>2. AllGold(d) = AllGold(written)
      BY <1>4, <1>6, <2>1 DEF ItemTaken
    <2> QED
      BY <1>2, <1>6, <2>2 DEF ItemTaken, Settled, Placed
  <1>11. Filled(h, "mail", 2)
    BY <1>4, <1>6, <1>9, <1>10 DEF ItemTaken, Filled, Page
  <1>12. /\ written'.mail = (((written.mail \cup {m}) \ {l.mail}) \cup {j}) \ Marked(box[p])
         /\ j \notin written.mail /\ j \notin {m} /\ {m} \cap written.mail = {}
         /\ written'.gold = [written.gold EXCEPT ![p] = g]
         /\ written'.inventory = [written.inventory EXCEPT ![p] = @ \cup {l.mail.item}]
         /\ written'.auction = written.auction
    BY <1>4, <1>6, <1>9 DEF ItemTaken
  <1>13. ItemPages(txns, 2, h, p, l.mail, j, g, {m})
    BY <1>1, <1>8, <1>11, <1>12 DEF ItemPages
  <1> QED
    BY <1>13

LEMMA NothingBefore ==
  ASSUME NEW s
  PROVE  <<>> \o <<s>> = <<s>>
  <1>1. <<s>> \in Seq({s})
    OBVIOUS
  <1> QED
    BY <1>1, ConcatEmptySeq

LEMMA TakeItemStep ==
  ASSUME NEW db, Before(db), NEW p \in Players, NEW l,
         HandleMailTakeItem(p, l), UNCHANGED <<auctions, aitems>>
  PROVE  MailInv' /\ \E k, j, ms, gone : Takes(p, k, j, ms, gone)
  <1> DEFINE k == l.mail
             j == [k EXCEPT !.item = None, !.cod = 0]
             m == NewMail(0, "normal", p, k.sender, k.cod, 0, None, "payment")
             g == ModifyMoney(has[p].gold, -k.cod)
             letters == (box[p] \ {l}) \cup {[mail |-> j, state |-> "changed"]}
             after == [box EXCEPT ![p] = AfterSave(letters)]
             s == <<StoreItem(p, k.item), SaveGold(p, g, 0)>> \o SaveMail(letters)
  <1>1. /\ where[p] = "online" /\ l \in box[p] /\ l.state # "deleted" /\ k.item # None
        /\ has[p].gold >= k.cod /\ (k.cod > 0 => mailId + 1 <= MaxMails + 1)
        /\ UNCHANGED <<where, answer, saved, within>>
    BY DEF HandleMailTakeItem, CanMail
  <1>2. DOMAIN box = Players /\ box = [r \in Players |-> box[r]]
    BY DEF Before, Shape
  <1>3. /\ has' = [has EXCEPT ![p] = [gold |-> g, items |-> has[p].items \cup {k.item}]]
        /\ k.cod > 0 => /\ box' = Delivered(after, {m}) /\ mailId' = mailId + 1
                        /\ Commit("mail", <<<<InsertMail(m)>>>> \o <<s>>)
        /\ ~ (k.cod > 0) => /\ box' = after /\ mailId' = mailId + 0
                            /\ Commit("mail", <<>> \o <<s>>)
    BY <1>2 DEF HandleMailTakeItem, Rewritten
  <1>4. /\ mailId \in Nat /\ MaxMoney \in Nat /\ Ok(written, mailId)
        /\ BoxOk(p) /\ HasOk(p) /\ has[p].gold \in 0 .. MaxMoney
        /\ has[p].items \in SUBSET Items /\ MaxMails \in Nat
    BY Now, MailAssumption
  <1>5. /\ has[p].gold = written.gold[p] /\ has[p].items = written.inventory[p]
        /\ k \in written.mail /\ k.receiver = p
    BY <1>1, <1>4 DEF HasOk, BoxOk
  <1>6. /\ k \in WideMails /\ MailOk(k) /\ k.id \in Nat /\ k.money \in Nat /\ k.item \in Items
        /\ k.cod \in Nat
    BY <1>1, <1>4, <1>5, MailFacts, TablesAssumption DEF WideMails
  <1>7. g \in 0 .. MaxMoney /\ g = has[p].gold - k.cod
    BY <1>1, <1>4, <1>6, Spend
  <1>8. /\ j \in WideMails /\ j.id = k.id /\ j.receiver = p /\ j.item = None
        /\ j.money = k.money /\ MailOk(j)
    <2> DEFINE x == [k EXCEPT !.item = None]
    <2>1. k \in WideMails /\ 0 \in 0 .. Width - 1
      BY <1>4, <1>6, TablesAssumption
    <2>2. /\ x \in WideMails /\ x.id = k.id /\ x.receiver = k.receiver /\ x.item = None
          /\ x.money = k.money /\ x.type = k.type /\ x.sender = k.sender
      BY <2>1 DEF WideMails
    <2>3. j = [x EXCEPT !.cod = 0]
      BY <2>1 DEF WideMails
    <2> HIDE DEF x
    <2>4. /\ j \in WideMails /\ j.id = x.id /\ j.receiver = x.receiver /\ j.item = x.item
          /\ j.money = x.money /\ j.type = x.type /\ j.sender = x.sender /\ j.cod = 0
      BY <2>1, <2>2, <2>3 DEF WideMails
    <2>5. MailOk(j)
      BY <1>6, <2>2, <2>4 DEF MailOk
    <2> QED
      BY <1>5, <2>2, <2>4, <2>5
  <1>9. /\ written.gold \in [Players -> 0 .. MaxMoney]
        /\ written.inventory \in [Players -> SUBSET Items]
    BY Now, TablesFacts
  <1>10. /\ DOMAIN after = Players /\ after = [r \in Players |-> after[r]]
         /\ after[p] = AfterSave(letters) /\ \A r \in Players : r # p => after[r] = box[r]
    BY <1>2
  <1>11. Retaken(letters, box[p], l, j)
    BY DEF Retaken
  <1> HIDE DEF g, j, letters, after
  <1>12. PICK ms, txns, n, h : /\ ItemPages(txns, n, h, p, k, j, g, ms) /\ Got(after, ms)
                               /\ Payment(p, k, ms)
                               /\ mailId' \in Nat /\ mailId <= mailId'
                               /\ mailId' <= MaxMails + 1 \/ mailId' = mailId
                               /\ DOMAIN box' = Players /\ box' = [r \in Players |-> box'[r]]
    <2>1. CASE k.cod > 0
      <3>1. /\ box' = Delivered(after, {m}) /\ mailId' = mailId + 1
            /\ Commit("mail", <<<<InsertMail(m)>>>> \o <<s>>)
        BY <1>3, <2>1
      <3>2. Commit("mail", <<<<InsertMail(m)>>, s>>)
        BY <3>1, TwoInARow
      <3>3. k.sender \in Players /\ k.sender # p /\ k.cod \in Nat /\ k.cod <= MaxMoney
        BY <1>1, <1>4, <1>5, <1>6, <2>1 DEF MailOk
      <3>4. /\ m \in WideMails /\ m.id = mailId /\ m.type = "normal" /\ m.sender = p
            /\ m.receiver = k.sender /\ m.money = k.cod /\ m.item = None /\ m.cod = 0
        BY <1>4, <3>3, TablesAssumption DEF NewMail, WideMails
      <3> HIDE DEF m, k
      <3>5. Fresh(m, mailId) /\ m.money \in Nat /\ g + m.money = written.gold[p]
        BY <1>4, <1>5, <1>7, <3>3, <3>4 DEF MailOk, Fresh
      <3>6. Got(after, {m}) /\ DOMAIN box' = Players /\ box' = [r \in Players |-> box'[r]]
        BY <3>1, DeliveredGot
      <3>7. /\ l.mail.item \in Items /\ j.id = l.mail.id /\ j.money = l.mail.money
            /\ l \in box[p] /\ l.state # "deleted" /\ j \in WideMails /\ MailOk(j)
            /\ j.item = None /\ g \in 0 .. MaxMoney
        BY <1>1, <1>6, <1>7, <1>8 DEF k
      <3>8. Commit("mail", <<<<InsertMail(m)>>,
                    <<StoreItem(p, l.mail.item), SaveGold(p, g, 0)>> \o SaveMail(letters)>>)
        BY <3>2 DEF k
      <3>9. \E txns, n, h : ItemPages(txns, n, h, p, l.mail, j, g, {m})
        BY <1>11, <3>1, <3>4, <3>5, <3>7, <3>8, PaidPages
      <3>10. PICK txns, n, h : ItemPages(txns, n, h, p, k, j, g, {m})
        BY <3>9 DEF k
      <3>11. mailId' \in Nat /\ mailId <= mailId' /\ mailId' <= MaxMails + 1
        BY <1>1, <1>4, <2>1, <3>1
      <3>12. Payment(p, k, {m})
        <4>1. m \notin written.mail
          BY <1>4, <3>4, MailFacts
        <4> QED
          BY <2>1, <3>3, <3>4, <4>1 DEF Payment
      <3> QED
        BY <3>6, <3>10, <3>11, <3>12
    <2>2. CASE ~ (k.cod > 0)
      <3>1. /\ box' = after /\ mailId' = mailId /\ Commit("mail", <<>> \o <<s>>)
        BY <1>3, <1>4, <2>2
      <3>2. Commit("mail", <<s>>)
        BY <3>1, NothingBefore
      <3> HIDE DEF m, k
      <3>3. g = written.gold[p]
        BY <1>4, <1>5, <1>6, <1>7, <2>2
      <3>4. Got(after, {}) /\ DOMAIN box' = Players /\ box' = [r \in Players |-> box'[r]]
        BY <1>10, <3>1 DEF Got, News
      <3>5. /\ l.mail.item \in Items /\ j.id = l.mail.id /\ j.money = l.mail.money
            /\ l \in box[p] /\ l.state # "deleted" /\ j \in WideMails /\ MailOk(j)
            /\ j.item = None /\ g \in 0 .. MaxMoney
        BY <1>1, <1>6, <1>7, <1>8 DEF k
      <3>6. Commit("mail", <<<<StoreItem(p, l.mail.item), SaveGold(p, g, 0)>> \o SaveMail(letters)>>)
        BY <3>2 DEF k
      <3>7. \E txns, n, h : ItemPages(txns, n, h, p, l.mail, j, g, {})
        BY <1>11, <3>1, <3>3, <3>5, <3>6, FreePages
      <3>8. PICK txns, n, h : ItemPages(txns, n, h, p, k, j, g, {})
        BY <3>7 DEF k
      <3>9. mailId' \in Nat /\ mailId <= mailId'
        BY <1>4, <3>1
      <3>10. Payment(p, k, {})
        BY <1>4, <1>6, <2>2 DEF Payment
      <3> QED
        BY <3>1, <3>4, <3>8, <3>9, <3>10
    <2> QED
      BY <2>1, <2>2
  <1> HIDE DEF k, m
  <1>13. /\ n \in Nat /\ n > 0 /\ Len(txns) = n /\ Commit("mail", txns)
         /\ Committed(h, txns, n) /\ Filled(h, "mail", n)
    BY <1>12 DEF ItemPages
  <1>14. /\ written'.mail = (((written.mail \cup ms) \ {k}) \cup {j}) \ Marked(box[p])
         /\ j \notin written.mail /\ j \notin ms /\ ms \cap written.mail = {}
         /\ written'.gold = [written.gold EXCEPT ![p] = g]
         /\ written'.inventory = [written.inventory EXCEPT ![p] = @ \cup {k.item}]
         /\ written'.auction = written.auction
    BY <1>12 DEF ItemPages
  <1>15. Marked(box[p]) \subseteq written.mail /\ \A x \in Marked(box[p]) : x.receiver = p
    BY <1>4 DEF BoxOk, Marked
  <1>16. ms \subseteq written'.mail
    BY <1>5, <1>14, <1>15
  <1>17. /\ has' \in [Players -> [gold : 0 .. MaxMoney, items : SUBSET Items]]
         /\ has'[p].gold = g /\ has'[p].items = has[p].items \cup {k.item}
         /\ \A r \in Players : r # p => has'[r] = has[r]
    <2>1. has[p].items \cup {k.item} \in SUBSET Items
      BY <1>4, <1>6
    <2>2. Shape /\ HasBecomes(p, g, has[p].items \cup {k.item})
      BY <1>3 DEF Before, HasBecomes
    <2> QED
      BY <1>7, <2>1, <2>2, HasTyped
  <1>18. Others(p)
    BY <1>1, <1>5, <1>8, <1>9, <1>14, <1>15, <1>17 DEF Others, Kept
  <1>19. HasOk(p)'
    BY <1>1, <1>5, <1>9, <1>14, <1>17 DEF HasOk
  <1>20. Fits(after[p], p, written'.mail, ms)
    <2>1. ((written.mail \ {l.mail}) \cup {j}) \ Marked(box[p]) \subseteq written'.mail
      BY <1>14 DEF k
    <2>2. /\ BoxOk(p) /\ l \in box[p] /\ l.state # "deleted" /\ j.receiver = p
          /\ j \notin written.mail /\ j \notin ms /\ ms \cap written.mail = {}
      BY <1>1, <1>4, <1>8, <1>14
    <2>3. PICK table : table = written'.mail
      OBVIOUS
    <2>4. Fits(AfterSave(letters), p, table, ms)
      BY <1>11, <2>1, <2>2, <2>3, TakenFits
    <2> QED
      BY <1>10, <2>3, <2>4
  <1>21. Queue' /\ Answers' /\ Memory' /\ \E e : Ledger(e)' /\ Logins(e)'
    <2>1. /\ UNCHANGED <<saved, within, answer>> /\ where[p] # "loading"
          /\ "mail" \in Kinds
      BY <1>1 DEF Kinds
    <2>2. Shape /\ Queue /\ Answers /\ Memory /\ Ledger(db) /\ Logins(db)
      BY DEF Before
    <2>3. PICK bx : bx = after
      OBVIOUS
    <2>4. /\ Got(bx, ms) /\ \A q \in Players : q # p => bx[q] = box[q]
          /\ Fits(bx[p], p, written'.mail, ms)
      BY <1>10, <1>12, <1>20, <2>3
    <2>5. mailId' \in Nat /\ mailId <= mailId' /\ ms \cap written.mail = {}
      BY <1>12, <1>14
    <2> QED
      BY <1>13, <1>16, <1>18, <1>19, <2>1, <2>2, <2>4, <2>5, HandlerStep
  <1>22. Shape'
    <2>1. mailId' \in 1 .. MaxMails + 1
      BY <1>4, <1>12 DEF Before, Shape
    <2> QED
      BY <1>1, <1>12, <1>17, <2>1 DEF Before, Shape
  <1>23. Sales'
    BY <1>14 DEF Before, Sales
  <1>24. Takes(p, k, j, ms, Marked(box[p]))
    <2>1. \A x \in Marked(box[p]) : x.cod = 0
      BY <1>4 DEF BoxOk, Letter, Marked
    <2>2. j = [k EXCEPT !.item = None, !.cod = 0]
      BY DEF j
    <2>3. k \notin Marked(box[p])
      BY <1>1, <1>4 DEF BoxOk, Marked, k
    <2>4. g = written.gold[p] - k.cod /\ k.cod <= written.gold[p]
      BY <1>1, <1>4, <1>5, <1>6, <1>7
    <2> QED
      BY <1>5, <1>6, <1>12, <1>14, <1>15, <2>1, <2>2, <2>3, <2>4 DEF Takes, Change
  <1> QED
    BY <1>21, <1>22, <1>23, <1>24 DEF Before, MailInv

-----------------------------------------------------------------------------
(***************************************************************************)
(* The steps that write nothing: HandleMailMarkAsRead, HandleMailDelete,   *)
(* HandlePlayerLogin, LoadFromDB.                                          *)
(***************************************************************************)
LEMMA Quiet ==
  ASSUME NEW db, Before(db), UNCHANGED <<where, has, answer, mailId, pending, saved, written, within>>,
         UNCHANGED <<auctions, aitems>>,
         DOMAIN box' = Players, box' = [r \in Players |-> box'[r]], Memory'
  PROVE  MailInv'
  <1>1. Shape'
    BY DEF Before, Shape
  <1>2. Queue' /\ Ledger(db)'
    BY DEF Before, Queue, Ledger, Mark
  <1>3. Logins(db)'
    BY DEF Before, Logins, Mark
  <1>4. Answers'
    BY DEF Before, Answers, Agrees
  <1>5. Sales'
    BY DEF Before, Sales
  <1> QED
    BY <1>1, <1>2, <1>3, <1>4, <1>5 DEF Before, MailInv

LEMMA Stutter ==
  ASSUME MailInv, UNCHANGED vars
  PROVE  MailInv'
  <1>1. PICK db : Before(db)
    BY DEF MailInv
  <1>2. /\ UNCHANGED <<where, has, answer, mailId, pending, saved, written, within>>
        /\ UNCHANGED <<auctions, aitems>> /\ box' = box
    BY DEF vars, mailVars
  <1>3. DOMAIN box' = Players /\ box' = [r \in Players |-> box'[r]]
    BY <1>1, <1>2 DEF Before, Shape
  <1>4. Memory'
    BY <1>1, <1>2 DEF Before, Memory, BoxOk, HasOk
  <1> QED
    BY <1>1, <1>2, <1>3, <1>4, Quiet

\* A letter is marked as read or as deleted.
LEMMA LetterStep ==
  ASSUME NEW db, Before(db), NEW p \in Players, NEW l \in box[p], where[p] = "online",
         NEW state \in {"changed", "deleted"}, state = "deleted" => l.mail.cod = 0,
         box' = Rewritten(p, l, [l EXCEPT !.state = state]),
         UNCHANGED <<where, has, answer, mailId, pending, saved, written, within>>,
         UNCHANGED <<auctions, aitems>>
  PROVE  MailInv'
  <1> DEFINE k == [l EXCEPT !.state = state]
  <1>1. DOMAIN box = Players /\ box = [r \in Players |-> box[r]] /\ Memory
    BY DEF Before, Shape
  <1>2. Letter(l) /\ l.mail \in written.mail /\ l.mail.receiver = p
    BY <1>1 DEF Memory, BoxOk
  <1>3. k = [mail |-> l.mail, state |-> state] /\ k.mail = l.mail /\ k.state = state
    BY <1>2 DEF Letter
  <1>4. Letter(k) /\ k.mail = l.mail
    BY <1>3 DEF Letter
  <1>5. box' = [box EXCEPT ![p] = (@ \ {l}) \cup {k}]
    BY DEF Rewritten
  <1> HIDE DEF k
  <1>6. box'[p] = (box[p] \ {l}) \cup {k} /\ \A q \in Players : q # p => box'[q] = box[q]
    BY <1>1, <1>5
  <1>7. DOMAIN box' = Players /\ box' = [r \in Players |-> box'[r]]
    BY <1>1, <1>5
  <1>8. ASSUME NEW q \in Players PROVE BoxOk(q)' /\ HasOk(q)'
    <2>1. BoxOk(q) /\ HasOk(q)
      BY <1>1 DEF Memory
    <2>2. CASE q = p
      <3>1. BoxOk(p)'
        BY <1>2, <1>4, <1>6, <2>1, <2>2 DEF BoxOk
      <3> QED
        BY <2>1, <2>2, <3>1 DEF HasOk
    <2>3. CASE q # p
      BY <1>6, <2>1, <2>3 DEF BoxOk, HasOk
    <2> QED
      BY <2>2, <2>3
  <1>9. Memory'
    BY <1>8 DEF Memory
  <1> QED
    BY <1>7, <1>9, Quiet

LEMMA LoginStep ==
  ASSUME NEW db, Before(db), NEW p \in Players, HandlePlayerLogin(p), UNCHANGED <<auctions, aitems>>
  PROVE  MailInv'
  <1> DEFINE t == [stmts |-> <<>>, who |-> p, within |-> "none"]
  <1>0. PICK L : L = Len(pending)
    OBVIOUS
  <1> DEFINE d == [k \in 0 .. L + 1 |-> IF k <= L THEN db[k] ELSE db[L]]
  <1>1. /\ where[p] = "offline" /\ where' = [where EXCEPT ![p] = "loading"]
        /\ pending' = Append(pending, t)
        /\ UNCHANGED <<has, box, answer, mailId, saved, written, within>>
    BY DEF HandlePlayerLogin
  <1>2. /\ where \in [Players -> {"offline", "loading", "online"}]
        /\ Queue /\ Ledger(db) /\ Logins(db) /\ Answers /\ Memory /\ mailId \in Nat
    BY Now DEF Before, Shape
  <1>3. t.stmts = <<>> /\ t.who = p /\ t.within = "none"
    OBVIOUS
  <1> HIDE DEF t
  <1>4. PICK S : pending \in Seq(S)
    BY <1>2 DEF Queue
  <1>5. /\ L \in Nat /\ Len(pending') = L + 1 /\ pending' \in Seq(S \cup {t})
        /\ \A k \in 1 .. L : pending'[k] = pending[k]
        /\ pending'[L + 1] = t
    <2>1. pending \in Seq(S \cup {t}) /\ t \in S \cup {t}
      BY <1>4
    <2>2. /\ Append(pending, t) \in Seq(S \cup {t})
          /\ Len(Append(pending, t)) = Len(pending) + 1
          /\ \A k \in 1 .. Len(pending) : Append(pending, t)[k] = pending[k]
          /\ Append(pending, t)[Len(pending) + 1] = t
      BY <2>1, AppendProperties
    <2>3. Len(pending) \in Nat
      BY <1>4, LenProperties
    <2> QED
      BY <1>0, <1>1, <2>2, <2>3
  <1>6. \A k \in 1 .. L + 1 : k \in 1 .. L \/ k = L + 1
    BY <1>5
  <1>7. (\A k \in 0 .. L : d[k] = db[k]) /\ d[L + 1] = written
    BY <1>0, <1>2, <1>5 DEF Ledger
  <1> HIDE DEF d
  <1>8. \A k \in 0 .. L : Mark(k)' = Mark(k)
    BY <1>0, <1>1, <1>5 DEF Mark
  <1>9. Mark(L + 1)' = "none"
    <2>1. L + 1 # 0
      BY <1>5
    <2> QED
      BY <1>3, <1>5, <2>1 DEF Mark
  <1>10. Queue'
    <2>1. \A k \in 1 .. L + 1 : pending'[k].who \in Players \cup {None}
      BY <1>0, <1>2, <1>3, <1>5, <1>6 DEF Queue
    <2>2. \A k \in 0 .. L + 1 : Mark(k)' \in Kinds \cup {"none"}
      <3>1. \A k \in 0 .. L + 1 : k \in 0 .. L \/ k = L + 1
        BY <1>5
      <3>2. \A k \in 0 .. L : Mark(k) \in Kinds \cup {"none"}
        BY <1>0, <1>2 DEF Queue
      <3> QED
        BY <1>8, <1>9, <3>1, <3>2
    <2>3. Len(pending') = L + 1 /\ \E R : pending' \in Seq(R)
      BY <1>5
    <2> QED
      BY <1>9, <2>1, <2>2, <2>3 DEF Queue
  <1>11. Ledger(d)'
    <2>1. d[0] = saved' /\ d[L + 1] = written'
      BY <1>1, <1>2, <1>5, <1>7 DEF Ledger
    <2>2. ASSUME NEW k \in 1 .. L + 1 PROVE d[k] = ExecuteAll(d[k - 1], pending'[k].stmts)
      <3>1. CASE k \in 1 .. L
        <4>1. k - 1 \in 0 .. L /\ k \in 0 .. L
          BY <1>5, <3>1
        <4>2. db[k] = ExecuteAll(db[k - 1], pending[k].stmts)
          BY <1>0, <1>2, <3>1 DEF Ledger
        <4> QED
          BY <1>5, <1>7, <3>1, <4>1, <4>2
      <3>2. CASE k = L + 1
        <4>1. k - 1 = L /\ L \in 0 .. L
          BY <1>5, <3>2
        <4>2. d[k - 1] = written
          BY <1>0, <1>2, <1>7, <4>1 DEF Ledger
        <4> QED
          BY <1>3, <1>5, <1>7, <3>2, <4>2, ExecuteNone
      <3> QED
        BY <1>6, <3>1, <3>2
    <2>3. ASSUME NEW k \in 0 .. L + 1 PROVE Page(d[k], Mark(k)', mailId')
      <3>1. CASE k \in 0 .. L
        <4>1. Page(db[k], Mark(k), mailId)
          BY <1>0, <1>2, <3>1 DEF Ledger
        <4> QED
          BY <1>1, <1>7, <1>8, <3>1, <4>1
      <3>2. CASE k = L + 1
        <4>1. L \in 0 .. L /\ Mark(L) = "none" /\ db[L] = written
          BY <1>0, <1>2, <1>5 DEF Ledger, Queue
        <4>2. Page(db[L], Mark(L), mailId)
          BY <1>0, <1>2, <4>1 DEF Ledger
        <4> QED
          BY <1>1, <1>7, <1>9, <3>2, <4>1, <4>2
      <3>3. k \in 0 .. L \/ k = L + 1
        BY <1>5
      <3> QED
        BY <3>1, <3>2, <3>3
    <2>4. Len(pending') = L + 1
      BY <1>5
    <2> QED
      BY <2>1, <2>2, <2>3, <2>4 DEF Ledger
  <1>12. answer[p] = None
    BY <1>1, <1>2 DEF Answers
  <1>13. Logins(d)'
    <2>1. ASSUME NEW k \in 1 .. L + 1, NEW q \in Players, pending'[k].who = q
          PROVE  /\ where'[q] = "loading" /\ answer'[q] = None
                 /\ pending'[k].stmts = <<>>
                 /\ Mark(k)' = "none" /\ Kept(d[k], written', q)
                 /\ \A j \in 1 .. L + 1 : pending'[j].who = q => j = k
      <3>1. \A j \in 1 .. L : pending[j].who # p
        BY <1>0, <1>1, <1>2 DEF Logins
      <3>2. CASE k \in 1 .. L
        <4>1. pending[k].who = q /\ q # p
          BY <1>5, <2>1, <3>1, <3>2
        <4>2. /\ where[q] = "loading" /\ answer[q] = None /\ pending[k].stmts = <<>>
              /\ Mark(k) = "none" /\ Kept(db[k], written, q)
              /\ \A j \in 1 .. L : pending[j].who = q => j = k
          BY <1>0, <1>2, <3>2, <4>1 DEF Logins
        <4>3. \A j \in 1 .. L + 1 : pending'[j].who = q => j = k
          BY <1>3, <1>5, <1>6, <4>1, <4>2
        <4>4. k \in 0 .. L /\ Mark(k)' = Mark(k) /\ d[k] = db[k] /\ pending'[k] = pending[k]
          BY <1>5, <1>7, <1>8, <3>2
        <4> QED
          BY <1>1, <1>2, <4>1, <4>2, <4>3, <4>4
      <3>3. CASE k = L + 1
        <4>1. q = p /\ pending'[k].stmts = <<>>
          BY <1>3, <1>5, <2>1, <3>3
        <4>2. \A j \in 1 .. L + 1 : pending'[j].who = p => j = k
          BY <1>5, <1>6, <3>1, <3>3
        <4>3. Kept(d[k], written', p)
          BY <1>1, <1>7, <3>3 DEF Kept
        <4> QED
          BY <1>1, <1>2, <1>9, <1>12, <3>3, <4>1, <4>2, <4>3
      <3> QED
        BY <1>6, <3>2, <3>3
    <2>2. Len(pending') = L + 1
      BY <1>5
    <2> QED
      BY <2>1, <2>2 DEF Logins
  <1>14. Answers'
    BY <1>1, <1>2 DEF Answers, Agrees
  <1>15. Memory'
    BY <1>1, <1>2 DEF Memory, BoxOk, HasOk
  <1>16. Shape' /\ Sales'
    BY <1>1 DEF Before, Shape, Sales
  <1> QED
    BY <1>10, <1>11, <1>13, <1>14, <1>15, <1>16 DEF Before, MailInv

LEMMA LoadStep ==
  ASSUME NEW db, Before(db), NEW p \in Players, LoadFromDB(p), UNCHANGED <<auctions, aitems>>
  PROVE  MailInv'
  <1> DEFINE a == answer[p]
             bx == {[mail |-> m, state |-> "unchanged"] : m \in a.mail}
  <1>1. /\ a # None /\ where' = [where EXCEPT ![p] = "online"]
        /\ has' = [has EXCEPT ![p] = [gold |-> a.gold, items |-> a.items]]
        /\ box' = [box EXCEPT ![p] = bx]
        /\ answer' = [answer EXCEPT ![p] = None]
        /\ UNCHANGED <<mailId, pending, saved, written, within>>
    BY DEF LoadFromDB
  <1>2. Shape /\ Queue /\ Ledger(db) /\ Logins(db) /\ Answers /\ Memory
    BY DEF Before
  <1>3. where[p] = "loading" /\ Agrees(p, a.gold, a.items, a.mail)
    BY <1>1, <1>2 DEF Answers
  <1>4. /\ a.gold = written.gold[p] /\ a.items = written.inventory[p]
        /\ a.mail \subseteq {m \in written.mail : m.receiver = p}
    BY <1>3 DEF Agrees
  <1>5. written.gold[p] \in 0 .. MaxMoney /\ written.inventory[p] \in SUBSET Items
    BY Now, TablesFacts
  <1>6. \A l \in bx : Letter(l) /\ l.mail \in written.mail /\ l.mail.receiver = p
    BY <1>4 DEF Letter
  <1>7. \A l, k \in bx : l.mail = k.mail => l = k
    OBVIOUS
  <1> HIDE DEF a, bx
  <1>8. Shape'
    <2>1. a.gold \in 0 .. MaxMoney /\ a.items \in SUBSET Items
      BY <1>4, <1>5
    <2>2. HasBecomes(p, a.gold, a.items)
      BY <1>1 DEF HasBecomes
    <2>3. has' \in [Players -> [gold : 0 .. MaxMoney, items : SUBSET Items]]
      BY <1>2, <2>1, <2>2, HasTyped
    <2>4. where' \in [Players -> {"offline", "loading", "online"}]
      BY <1>1, <1>2 DEF Shape
    <2>5. /\ DOMAIN box' = Players /\ box' = [r \in Players |-> box'[r]]
          /\ DOMAIN answer' = Players /\ answer' = [r \in Players |-> answer'[r]]
      BY <1>1, <1>2 DEF Shape
    <2> QED
      BY <1>1, <1>2, <2>3, <2>4, <2>5 DEF Shape
  <1>9. /\ where'[p] = "online" /\ has'[p] = [gold |-> a.gold, items |-> a.items]
        /\ box'[p] = bx /\ answer'[p] = None
        /\ \A q \in Players : q # p => /\ where'[q] = where[q] /\ has'[q] = has[q]
                                       /\ box'[q] = box[q] /\ answer'[q] = answer[q]
    BY <1>1, <1>2 DEF Shape
  <1>10. Queue' /\ Ledger(db)'
    BY <1>1, <1>2 DEF Queue, Ledger, Mark
  <1>11. Logins(db)'
    <2>1. PICK L : L = Len(pending)
      OBVIOUS
    <2>2. ASSUME NEW k \in 1 .. L, NEW q \in Players, pending[k].who = q
          PROVE  /\ where'[q] = "loading" /\ answer'[q] = None
                 /\ pending[k].stmts = <<>>
                 /\ Mark(k)' = "none" /\ Kept(db[k], written', q)
                 /\ \A j \in 1 .. L : pending[j].who = q => j = k
      <3>1. /\ where[q] = "loading" /\ answer[q] = None /\ pending[k].stmts = <<>>
            /\ Mark(k) = "none" /\ Kept(db[k], written, q)
            /\ \A j \in 1 .. L : pending[j].who = q => j = k
        BY <1>2, <2>1, <2>2 DEF Logins
      <3>2. q # p
        BY <1>1, <3>1 DEF a
      <3>3. Mark(k)' = Mark(k)
        BY <1>1 DEF Mark
      <3> QED
        BY <1>1, <1>9, <3>1, <3>2, <3>3
    <2> QED
      BY <1>1, <2>1, <2>2 DEF Logins
  <1>12. Answers'
    BY <1>1, <1>2, <1>9 DEF Answers, Agrees
  <1>13. ASSUME NEW q \in Players PROVE BoxOk(q)' /\ HasOk(q)'
    <2>1. CASE q = p
      BY <1>1, <1>4, <1>6, <1>7, <1>9, <2>1 DEF BoxOk, HasOk
    <2>2. CASE q # p
      BY <1>1, <1>2, <1>9, <2>2 DEF Memory, BoxOk, HasOk
    <2> QED
      BY <2>1, <2>2
  <1>14. Memory'
    BY <1>13 DEF Memory
  <1>15. Sales'
    BY <1>1 DEF Before, Sales
  <1> QED
    BY <1>8, <1>10, <1>11, <1>12, <1>14, <1>15 DEF Before, MailInv

-----------------------------------------------------------------------------
(***************************************************************************)
(* ReturnOrDeleteOldMails.                                                 *)
(***************************************************************************)
\* What the tables are after the mail k is returned or deleted.
Handled(d, k) ==
    /\ Ok(d, mailId) /\ Settled(d) /\ d.gold = written.gold /\ d.inventory = written.inventory
    /\ d.auction = written.auction
    /\ \/ \E m : Back(k, m) /\ d.mail = (written.mail \ {k}) \cup {m}
       \/ k.cod = 0 /\ d.mail = written.mail \ {k}

LEMMA OldTables ==
  ASSUME NEW db, Before(db), NEW k \in written.mail, NEW s,
         IF k.item # None /\ k.type = "normal" /\ k.checked = "plain"
         THEN s = <<ReturnMail(k.id)>> ELSE s = <<DeleteMails({k.id}, "wasted")>>
  PROVE  Handled(ExecuteAll(written, s), k)
  <1>1. Ok(written, mailId) /\ Settled(written)
    BY Now
  <1>2. k \in WideMails /\ MailOk(k) /\ \A m \in written.mail : m.id = k.id => m = k
    BY <1>1, MailFacts
  <1>3. ASSUME k.type = "normal", s = <<ReturnMail(k.id)>>
        PROVE  Handled(ExecuteAll(written, s), k)
    <2>1. PICK d : d = Execute(written, ReturnMail(k.id))
      OBVIOUS
    <2>2. k.sender \in Players
      BY <1>2, <1>3 DEF MailOk
    <2>3. /\ Ok(d, mailId) /\ d.mail = (written.mail \ {k}) \cup {Returned(k)}
          /\ Returned(k).item = k.item
          /\ d.gold = written.gold /\ d.inventory = written.inventory
          /\ d.auction = written.auction
          /\ d.waste.items = written.waste.items /\ AllGold(d) = AllGold(written)
      BY <1>1, <2>1, <2>2, StateReturn
    <2>4. Settled(d)
      BY <1>1, <2>3, PostPlace
    <2>5. Back(k, Returned(k))
      <3>1. k.sender # k.receiver
        BY <1>2, <1>3 DEF MailOk
      <3>2. /\ Returned(k) \in WideMails /\ Returned(k).receiver = k.sender
            /\ Returned(k).money = k.money /\ Returned(k).cod = 0 /\ Returned(k).id = k.id
        <4>1. Returned(k) \in d.mail
          BY <2>3
        <4>2. Returned(k) \in WideMails
          BY <2>3, <4>1, MailFacts
        <4> QED
          BY <1>2, <2>2, <4>2 DEF Returned, WideMails
      <3>3. Returned(k) \notin written.mail
        BY <1>2, <3>1, <3>2
      <3> QED
        BY <2>2, <2>3, <3>1, <3>2, <3>3 DEF Back
    <2>6. Handled(d, k)
      BY <2>3, <2>4, <2>5 DEF Handled
    <2> QED
      BY <1>3, <2>1, <2>6, ExecuteOne
  <1>4. ASSUME ~ (k.item # None /\ k.type = "normal" /\ k.checked = "plain"),
               s = <<DeleteMails({k.id}, "wasted")>>
        PROVE  Handled(ExecuteAll(written, s), k)
    <2>1. PICK d : d = Execute(written, DeleteMails({k.id}, "wasted"))
      OBVIOUS
    <2>2. Wastes(written, d, {k})
      BY <1>2, <2>1 DEF Wastes, Gone
    <2>3. /\ Ok(d, mailId) /\ d.mail = written.mail \ {k}
          /\ d.gold = written.gold /\ d.inventory = written.inventory
          /\ d.auction = written.auction
          /\ d.waste.items = written.waste.items \cup ItemsOf({k})
          /\ AllGold(d) = AllGold(written)
      BY <1>1, <2>2, StateWaste
    <2>4. {k} \in SUBSET written.mail
      OBVIOUS
    <2>5. Settled(d)
      BY <1>1, <2>3, <2>4, WasteSettled
    <2>6. k.cod = 0
      <3>1. k.cod \in 0 .. Width - 1 /\ Width \in Nat
        BY <1>2, TablesAssumption DEF WideMails
      <3> QED
        BY <1>2, <1>4, <3>1 DEF MailOk
    <2>7. Handled(d, k)
      BY <2>3, <2>5, <2>6 DEF Handled
    <2> QED
      BY <1>4, <2>1, <2>7, ExecuteOne
  <1> QED
    BY <1>3, <1>4

LEMMA OldMailStep ==
  ASSUME NEW db, Before(db), NEW k, ReturnOrDeleteOldMails(k), UNCHANGED <<auctions, aitems>>
  PROVE  MailInv' /\ ((\E m : Returns(k, m)) \/ Throws(k.receiver, {k}))
  <1> DEFINE p == k.receiver
             s == IF k.item # None /\ k.type = "normal" /\ k.checked = "plain"
                  THEN <<ReturnMail(k.id)>> ELSE <<DeleteMails({k.id}, "wasted")>>
             txns == <<s>>
  <1>1. /\ where[p] = "offline" /\ k \in written.mail
        /\ UNCHANGED <<where, has, box, answer, mailId, saved, within>>
    BY DEF ReturnOrDeleteOldMails, Untouched
  <1>2. Commit("mail", txns) /\ Len(txns) = 1 /\ 1 \in Nat /\ 1 > 0
    BY DEF ReturnOrDeleteOldMails
  <1>3. /\ mailId \in Nat /\ Ok(written, mailId) /\ written \in WideTables
        /\ Shape /\ Queue /\ Answers /\ Memory /\ Ledger(db) /\ Logins(db)
    BY Now DEF Before
  <1>4. p \in Players
    BY <1>1, <1>3, MailFacts DEF WideMails
  <1>5. IF k.item # None /\ k.type = "normal" /\ k.checked = "plain"
        THEN s = <<ReturnMail(k.id)>> ELSE s = <<DeleteMails({k.id}, "wasted")>>
    OBVIOUS
  <1> HIDE DEF s
  <1>6. Handled(ExecuteAll(written, s), k)
    BY <1>1, <1>5, OldTables
  <1>7. txns = <<s>>
    OBVIOUS
  <1> HIDE DEF txns
  <1>8. PICK h : Committed(h, txns, 1)
    BY <1>2, CommitPages
  <1>9. Handled(h[1], k) /\ written' = h[1]
    <2>1. h[1] = ExecuteAll(written, s) /\ written' = h[1]
      BY <1>7, <1>8, CommittedOne
    <2> QED
      BY <1>6, <2>1
  <1>10. mailId' \in Nat /\ mailId <= mailId' /\ mailId' = mailId
    BY <1>1, <1>3
  <1>11. Filled(h, "mail", 1)
    BY <1>9, <1>10 DEF Handled, Filled, Page
  <1>12. /\ written'.gold = written.gold /\ written'.inventory = written.inventory
         /\ written'.auction = written.auction /\ written.mail \ {k} \subseteq written'.mail
    BY <1>9 DEF Handled
  <1>13. Others(p)
    BY <1>1, <1>12 DEF Others, Kept
  <1>14. box[p] = {} /\ HasOk(p)'
    BY <1>1, <1>3, <1>4 DEF Memory, HasOk
  <1>15. PICK bx : bx = box
    OBVIOUS
  <1>16. Got(bx, {}) /\ \A q \in Players : q # p => bx[q] = box[q]
    BY <1>1, <1>15 DEF Got, News
  <1>17. Fits(bx[p], p, written'.mail, {})
    BY <1>14, <1>15 DEF Fits
  <1>18. Queue' /\ Answers' /\ Memory' /\ \E e : Ledger(e)' /\ Logins(e)'
    <2>1. /\ UNCHANGED <<saved, within, answer>> /\ where[p] # "loading"
          /\ "mail" \in Kinds /\ {} \cap written.mail = {} /\ {} \subseteq written'.mail
      BY <1>1 DEF Kinds
    <2> QED
      BY <1>2, <1>3, <1>8, <1>10, <1>11, <1>13, <1>14, <1>16, <1>17, <2>1, HandlerStep
  <1>19. Shape' /\ Sales'
    BY <1>1, <1>12 DEF Before, Shape, Sales
  <1>20. (\E m : Returns(k, m)) \/ Throws(p, {k})
    <2>1. \/ \E m : Back(k, m) /\ written'.mail = (written.mail \ {k}) \cup {m}
          \/ k.cod = 0 /\ written'.mail = written.mail \ {k}
      BY <1>9 DEF Handled
    <2> QED
      BY <1>1, <1>12, <2>1 DEF Returns, Throws, Change
  <1> QED
    BY <1>18, <1>19, <1>20 DEF Before, MailInv

-----------------------------------------------------------------------------
(***************************************************************************)
(* ExecuteNext: the ledger loses its first page.                           *)
(***************************************************************************)
LEMMA ExecuteStep ==
  ASSUME NEW db, Before(db), ExecuteNext, UNCHANGED <<auctions, aitems>>
  PROVE  MailInv'
  <1> DEFINE t == pending[1]
  <1>0. PICK L : L = Len(pending)
    OBVIOUS
  <1> DEFINE d == [k \in 0 .. L - 1 |-> db[k + 1]]
  <1>1. Shape /\ Queue /\ Ledger(db) /\ Logins(db) /\ Answers /\ Memory
    BY DEF Before
  <1>2. PICK S : pending \in Seq(S)
    BY <1>1 DEF Queue
  <1>3. /\ L \in Nat /\ L > 0 /\ pending' = Tail(pending) /\ pending' \in Seq(S)
        /\ Len(pending') = L - 1 /\ \A k \in 1 .. L - 1 : pending'[k] = pending[k + 1]
        /\ Head(pending) = t
    <2>1. pending # <<>> /\ pending' = Tail(pending)
      BY DEF ExecuteNext
    <2>2. Len(pending) \in Nat /\ Len(pending) > 0
      BY <1>2, <2>1, LenProperties, EmptySeq
    <2>3. /\ Tail(pending) \in Seq(S) /\ Len(Tail(pending)) = Len(pending) - 1
          /\ \A k \in 1 .. Len(Tail(pending)) : Tail(pending)[k] = pending[k + 1]
      BY <1>2, <2>1, HeadTailProperties
    <2>4. Head(pending) = pending[1]
      BY <1>2, <2>1
    <2> QED
      BY <1>0, <2>1, <2>2, <2>3, <2>4
  <1>4. /\ saved' = ExecuteAll(saved, t.stmts) /\ within' = t.within
        /\ answer' = IF t.who = None THEN answer
                     ELSE [answer EXCEPT ![t.who] =
                            [gold |-> saved.gold[t.who], items |-> saved.inventory[t.who],
                             mail |-> {m \in saved.mail : m.receiver = t.who}]]
        /\ UNCHANGED <<where, has, box, mailId, written>>
    BY <1>3 DEF ExecuteNext
  <1>5. 1 \in 1 .. L /\ L \in 1 .. L /\ t.who \in Players \cup {None} /\ None \notin Players
    BY <1>0, <1>1, <1>3, TablesAssumption DEF Queue
  <1>6. \A k \in 0 .. L - 1 : d[k] = db[k + 1]
    BY <1>3
  <1> HIDE DEF t, d
  <1>7. \A k \in 0 .. L - 1 : Mark(k)' = Mark(k + 1)
    <2> SUFFICES ASSUME NEW k \in 0 .. L - 1 PROVE Mark(k)' = Mark(k + 1)
      OBVIOUS
    <2>1. CASE k = 0
      <3>1. Mark(k)' = t.within
        BY <1>4, <2>1 DEF Mark
      <3>2. Mark(1) = t.within
        BY DEF Mark, t
      <3>3. k + 1 = 1
        BY <2>1
      <3> QED
        BY <3>1, <3>2, <3>3
    <2>2. CASE k # 0
      <3>1. k \in 1 .. L - 1 /\ k + 1 # 0
        BY <1>3, <2>2
      <3>2. pending'[k] = pending[k + 1]
        BY <1>3, <3>1
      <3> QED
        BY <2>2, <3>1, <3>2 DEF Mark
    <2> QED
      BY <2>1, <2>2
  <1>8. saved' = db[1]
    BY <1>0, <1>1, <1>4, <1>5 DEF Ledger, t
  <1>9. Queue'
    <2>1. \A k \in 1 .. L - 1 : pending'[k].who \in Players \cup {None}
      <3> SUFFICES ASSUME NEW k \in 1 .. L - 1 PROVE pending'[k].who \in Players \cup {None}
        OBVIOUS
      <3>1. k + 1 \in 1 .. L /\ pending'[k] = pending[k + 1]
        BY <1>3
      <3> QED
        BY <1>0, <1>1, <3>1 DEF Queue
    <2>2. \A k \in 0 .. L - 1 : Mark(k)' \in Kinds \cup {"none"}
      <3> SUFFICES ASSUME NEW k \in 0 .. L - 1 PROVE Mark(k)' \in Kinds \cup {"none"}
        OBVIOUS
      <3>1. k + 1 \in 0 .. L
        BY <1>3
      <3> QED
        BY <1>0, <1>1, <1>7, <3>1 DEF Queue
    <2>3. Mark(L - 1)' = "none"
      <3>1. L - 1 \in 0 .. L - 1 /\ (L - 1) + 1 = L
        BY <1>3
      <3>2. Mark(L) = "none"
        BY <1>0, <1>1 DEF Queue
      <3> QED
        BY <1>7, <3>1, <3>2
    <2>4. Len(pending') = L - 1 /\ \E R : pending' \in Seq(R)
      BY <1>3
    <2> QED
      BY <2>1, <2>2, <2>3, <2>4 DEF Queue
  <1>10. Ledger(d)'
    <2>1. d[0] = saved' /\ d[L - 1] = written'
      <3>1. /\ 0 \in 0 .. L - 1 /\ 0 + 1 = 1 /\ L - 1 \in 0 .. L - 1 /\ (L - 1) + 1 = L
        BY <1>3
      <3>2. d[0] = db[1] /\ d[L - 1] = db[L]
        BY <1>6, <3>1
      <3> QED
        BY <1>0, <1>1, <1>4, <1>8, <3>2 DEF Ledger
    <2>2. ASSUME NEW k \in 1 .. L - 1 PROVE d[k] = ExecuteAll(d[k - 1], pending'[k].stmts)
      <3>1. /\ k \in 0 .. L - 1 /\ k - 1 \in 0 .. L - 1 /\ (k - 1) + 1 = k
            /\ k + 1 \in 1 .. L /\ (k + 1) - 1 = k
        BY <1>3
      <3>2. d[k] = db[k + 1] /\ d[k - 1] = db[k] /\ pending'[k] = pending[k + 1]
        BY <1>3, <1>6, <3>1
      <3>3. db[k + 1] = ExecuteAll(db[(k + 1) - 1], pending[k + 1].stmts)
        BY <1>0, <1>1, <3>1 DEF Ledger
      <3> QED
        BY <3>1, <3>2, <3>3
    <2>3. ASSUME NEW k \in 0 .. L - 1 PROVE Page(d[k], Mark(k)', mailId')
      <3>1. k + 1 \in 0 .. L
        BY <1>3
      <3>2. Page(db[k + 1], Mark(k + 1), mailId)
        BY <1>0, <1>1, <3>1 DEF Ledger
      <3> QED
        BY <1>4, <1>6, <1>7, <3>2
    <2>4. Len(pending') = L - 1
      BY <1>3
    <2> QED
      BY <2>1, <2>2, <2>3, <2>4 DEF Ledger
  <1>11. ASSUME NEW q \in Players, t.who = q
         PROVE  where[q] = "loading" /\ Kept(saved, written, q)
    <2>1. pending[1].who = q
      BY <1>11 DEF t
    <2>2. where[q] = "loading" /\ pending[1].stmts = <<>> /\ Kept(db[1], written, q)
      BY <1>0, <1>1, <1>5, <2>1 DEF Logins
    <2>3. db[1] = saved
      BY <1>4, <1>8, <2>2, ExecuteNone DEF t
    <2> QED
      BY <2>2, <2>3
  <1>12. DOMAIN answer = Players /\ answer = [q \in Players |-> answer[q]]
    BY <1>1 DEF Shape
  <1>13. ASSUME NEW q \in Players, t.who # q PROVE answer'[q] = answer[q]
    BY <1>4, <1>5, <1>12, <1>13
  <1>14. ASSUME NEW q \in Players, t.who = q
         PROVE  answer'[q] = [gold |-> saved.gold[q], items |-> saved.inventory[q],
                              mail |-> {m \in saved.mail : m.receiver = q}]
    BY <1>4, <1>5, <1>12, <1>14
  <1>15. Answers'
    <2>1. ASSUME NEW q \in Players, answer'[q] # None
          PROVE  /\ where'[q] = "loading"
                 /\ answer'[q].gold = written.gold[q] /\ answer'[q].items = written.inventory[q]
                 /\ answer'[q].mail \subseteq {m \in written.mail : m.receiver = q}
      <3>1. CASE t.who = q
        <4>1. where[q] = "loading" /\ Kept(saved, written, q)
          BY <1>11, <3>1
        <4>2. answer'[q] = [gold |-> saved.gold[q], items |-> saved.inventory[q],
                            mail |-> {m \in saved.mail : m.receiver = q}]
          BY <1>14, <3>1
        <4> QED
          BY <1>4, <4>1, <4>2 DEF Kept
      <3>2. CASE t.who # q
        <4>1. answer'[q] = answer[q]
          BY <1>13, <3>2
        <4> QED
          BY <1>1, <1>4, <2>1, <4>1 DEF Answers, Agrees
      <3> QED
        BY <3>1, <3>2
    <2> QED
      BY <1>4, <2>1 DEF Answers, Agrees
  <1>16. Logins(d)'
    <2>1. ASSUME NEW k \in 1 .. L - 1, NEW q \in Players, pending'[k].who = q
          PROVE  /\ where'[q] = "loading" /\ answer'[q] = None
                 /\ pending'[k].stmts = <<>>
                 /\ Mark(k)' = "none" /\ Kept(d[k], written', q)
                 /\ \A j \in 1 .. L - 1 : pending'[j].who = q => j = k
      <3>1. k + 1 \in 1 .. L /\ k + 1 # 1 /\ k \in 0 .. L - 1 /\ pending'[k] = pending[k + 1]
        BY <1>3
      <3>2. /\ where[q] = "loading" /\ answer[q] = None /\ pending[k + 1].stmts = <<>>
            /\ Mark(k + 1) = "none" /\ Kept(db[k + 1], written, q)
            /\ \A j \in 1 .. L : pending[j].who = q => j = k + 1
        BY <1>0, <1>1, <2>1, <3>1 DEF Logins
      <3>3. t.who # q
        BY <1>5, <3>1, <3>2 DEF t
      <3>4. ASSUME NEW j \in 1 .. L - 1, pending'[j].who = q PROVE j = k
        <4>1. j + 1 \in 1 .. L /\ pending[j + 1].who = q
          BY <1>3, <3>4
        <4>2. j + 1 = k + 1
          BY <3>2, <4>1
        <4> QED
          BY <4>2
      <3> QED
        BY <1>4, <1>6, <1>7, <1>13, <3>1, <3>2, <3>3, <3>4
    <2>2. Len(pending') = L - 1
      BY <1>3
    <2> QED
      BY <2>1, <2>2 DEF Logins
  <1>17. Memory' /\ Sales'
    BY <1>1, <1>4 DEF Before, Memory, BoxOk, HasOk, Sales
  <1>18. Shape'
    <2>1. DOMAIN answer' = Players /\ answer' = [q \in Players |-> answer'[q]]
      BY <1>4, <1>12
    <2> QED
      BY <1>1, <1>4, <2>1 DEF Shape
  <1> QED
    BY <1>9, <1>10, <1>15, <1>16, <1>17, <1>18 DEF Before, MailInv

-----------------------------------------------------------------------------
(***************************************************************************)
(* Restart: all that is left is saved.                                     *)
(***************************************************************************)
LEMMA MaxIsThere ==
  ASSUME NEW S \in SUBSET Nat, NEW x \in S, NEW b \in Nat, \A y \in S : y <= b
  PROVE  Max(S) \in S /\ \A y \in S : y <= Max(S)
  <1> DEFINE T == {n \in Nat : \A y \in S : y <= n}
             R == OpToRel(<, Nat)
  <1>1. IsWellFoundedOn(R, Nat)
    BY NatLessThanWellFounded, Zenon
  <1>2. \A n, m \in Nat : n < m => <<n, m>> \in R
    BY DEF OpToRel
  <1> HIDE DEF R
  <1>3. PICK n \in T : \A m \in T : <<m, n>> \notin R
    <2>1. T # {} /\ T \subseteq Nat
      OBVIOUS
    <2> QED
      BY <1>1, <2>1, WFMin
  <1>4. n \in S
    <2>1. SUFFICES ASSUME n \notin S PROVE FALSE
      OBVIOUS
    <2>2. \A y \in S : y \in Nat /\ y < n
      BY <1>3, <2>1
    <2>3. n \in Nat /\ n > 0
      BY <1>3, <2>2
    <2>4. n - 1 \in T /\ n - 1 < n
      BY <2>2, <2>3
    <2>5. <<n - 1, n>> \in R
      BY <1>2, <2>3, <2>4
    <2> QED
      BY <1>3, <2>4, <2>5
  <1>5. \E m \in S : \A y \in S : m >= y
    BY <1>3, <1>4
  <1>6. Max(S) \in S /\ \A y \in S : Max(S) >= y
    BY <1>5, Zenon DEF Max
  <1> QED
    BY <1>6

LEMMA RestartStep ==
  ASSUME NEW db, Before(db), Restart
  PROVE  MailInv'
  <1> DEFINE ids == {m.id : m \in saved.mail} \cup {0}
             d == [k \in 0 .. 0 |-> db[0]]
  <1>1. /\ within = "none" /\ where' = [p \in Players |-> "offline"]
        /\ has' = [p \in Players |-> Nobody] /\ box' = [p \in Players |-> {}]
        /\ answer' = [p \in Players |-> None] /\ pending' = <<>> /\ written' = saved
        /\ mailId' = Max(ids) + 1 /\ UNCHANGED <<saved, within>>
        /\ auctions' = saved.auction /\ aitems' = {a.item : a \in saved.auction}
    BY DEF Restart, Die
  <1>2. /\ Shape /\ Queue /\ Ledger(db) /\ mailId \in Nat /\ MaxMoney \in Nat
        /\ Ok(saved, mailId) /\ MaxMails \in Nat
    BY Now, MailAssumption DEF Before
  <1>3. \A m \in saved.mail : m.id \in Nat /\ m.id < mailId
    BY <1>2, MailFacts
  <1>4. mailId >= 1 /\ mailId <= MaxMails + 1
    BY <1>2 DEF Shape
  <1>5. /\ Max(ids) \in Nat /\ Max(ids) < mailId /\ \A m \in saved.mail : m.id <= Max(ids)
    <2>1. /\ ids \in SUBSET Nat /\ 0 \in ids /\ \A y \in ids : y <= mailId /\ y < mailId
      BY <1>2, <1>3, <1>4
    <2>2. Max(ids) \in ids /\ \A y \in ids : y <= Max(ids)
      BY <1>2, <2>1, MaxIsThere
    <2>3. \A m \in saved.mail : m.id \in ids
      OBVIOUS
    <2> HIDE DEF ids
    <2> QED
      BY <2>1, <2>2, <2>3
  <1> HIDE DEF ids
  <1>6. mailId' \in Nat /\ mailId' \in 1 .. MaxMails + 1 /\ \A m \in saved.mail : m.id < mailId'
    BY <1>1, <1>2, <1>3, <1>4, <1>5
  <1>7. Page(saved, "none", mailId')
    <2>1. Len(pending) \in Nat
      <3>1. PICK S : pending \in Seq(S)
        BY <1>2 DEF Queue
      <3> QED
        BY <3>1, LenProperties
    <2>2. 0 \in 0 .. Len(pending)
      BY <2>1
    <2>3. Mark(0) = "none"
      BY <1>1 DEF Mark
    <2>4. Page(saved, "none", mailId)
      BY <1>2, <2>2, <2>3 DEF Ledger
    <2> QED
      BY <1>6, <2>4 DEF Page, Ok, MailsOk
  <1>8. Len(pending') = 0 /\ \E S : pending' \in Seq(S)
    BY <1>1
  <1>9. Mark(0)' = "none"
    BY <1>1 DEF Mark
  <1>10. d[0] = saved
    BY <1>2 DEF Ledger
  <1> HIDE DEF d
  <1>11. Queue'
    <2>1. \A k \in 0 .. 0 : k = 0
      OBVIOUS
    <2>2. \A k \in 1 .. 0 : FALSE
      OBVIOUS
    <2> QED
      BY <1>8, <1>9, <2>1, <2>2 DEF Queue
  <1>12. Ledger(d)'
    <2>1. \A k \in 0 .. 0 : k = 0
      OBVIOUS
    <2>2. \A k \in 1 .. 0 : FALSE
      OBVIOUS
    <2>3. d[0] = saved' /\ d[0] = written' /\ Page(d[0], Mark(0)', mailId')
      BY <1>1, <1>7, <1>9, <1>10
    <2> QED
      BY <1>8, <2>1, <2>2, <2>3 DEF Ledger
  <1>13. Logins(d)'
    <2>1. \A k \in 1 .. 0 : FALSE
      OBVIOUS
    <2> QED
      BY <1>8, <2>1 DEF Logins
  <1>14. Answers' /\ Memory'
    BY <1>1 DEF Answers, Memory, BoxOk, HasOk
  <1>15. Shape'
    <2>1. Nobody \in [gold : 0 .. MaxMoney, items : SUBSET Items]
      BY <1>2 DEF Nobody
    <2> QED
      BY <1>1, <1>6, <2>1 DEF Shape
  <1>16. Sales'
    BY <1>1 DEF Sales
  <1> QED
    BY <1>11, <1>12, <1>13, <1>14, <1>15, <1>16 DEF Before, MailInv

-----------------------------------------------------------------------------
(***************************************************************************)
(* The auction house: a handler posts its letters ms one after the other,  *)
(* and then writes the auction.                                            *)
(***************************************************************************)
Lettered(ms) ==
    /\ ms \in Seq(WideMails)
    /\ \A k \in 1 .. Len(ms) : Fresh(ms[k], mailId + k - 1)
Posting(h, ms, n) ==
    h[0] = written /\ \A k \in 1 .. n : h[k] = Execute(h[k - 1], InsertMail(ms[k]))

\* The tables b after the first k of them.
After(b, ms, k) ==
    /\ Ok(b, mailId + k) /\ b.mail = written.mail \cup {ms[j] : j \in 1 .. k}
    /\ b.gold = written.gold /\ b.inventory = written.inventory /\ b.auction = written.auction
    /\ b.waste.items = written.waste.items /\ AllGold(b) >= AllGold(written)

LEMMA LetterPosted ==
  ASSUME mailId \in Nat, Ok(written, mailId), NEW ms, NEW k \in Nat, NEW b, After(b, ms, k),
         Fresh(ms[k + 1], mailId + k), NEW c, c = Execute(b, InsertMail(ms[k + 1]))
  PROVE  /\ After(c, ms, k + 1)
         /\ ms[k + 1].money \in Nat /\ AllGold(c) = AllGold(b) + ms[k + 1].money
  <1> DEFINE m == ms[k + 1]
  <1>1. PICK next : next = mailId + k
    OBVIOUS
  <1>2. next \in Nat /\ Ok(b, next) /\ Fresh(m, next)
    BY <1>1 DEF After
  <1> HIDE DEF m
  <1>3. c = Execute(b, InsertMail(m))
    BY DEF m
  <1>4. /\ Ok(c, next + 1) /\ c.mail = b.mail \cup {m} /\ m \notin b.mail
        /\ c.gold = b.gold /\ c.inventory = b.inventory /\ c.auction = b.auction
        /\ c.waste.items = b.waste.items
        /\ m.money \in Nat /\ AllGold(c) = AllGold(b) + m.money
    BY <1>2, <1>3, StateInsert
  <1>5. {ms[j] : j \in 1 .. k + 1} = {ms[j] : j \in 1 .. k} \cup {m}
    <2>1. \A j \in 1 .. k + 1 : j \in 1 .. k \/ j = k + 1
      OBVIOUS
    <2>2. k + 1 \in 1 .. k + 1 /\ \A j \in 1 .. k : j \in 1 .. k + 1
      OBVIOUS
    <2> QED
      BY <2>1, <2>2 DEF m
  <1>6. AllGold(c) >= AllGold(written)
    <2>1. AllGold(b) \in Nat /\ AllGold(written) \in Nat
      BY <1>2, GoldType
    <2>2. AllGold(b) >= AllGold(written)
      BY DEF After
    <2> QED
      BY <1>4, <2>1, <2>2
  <1>7. Ok(c, mailId + (k + 1))
    <2>1. mailId + (k + 1) = next + 1
      BY <1>1
    <2> QED
      BY <1>4, <2>1
  <1>8. After(c, ms, k + 1)
    BY <1>4, <1>5, <1>6, <1>7 DEF After
  <1> QED
    BY <1>4, <1>8 DEF m

LEMMA LettersPosted ==
  ASSUME mailId \in Nat, Ok(written, mailId), NEW ms, Lettered(ms), NEW n, n = Len(ms),
         NEW h, Posting(h, ms, n)
  PROVE  /\ n \in Nat /\ \A k \in 0 .. n : After(h[k], ms, k)
         /\ \A k \in 1 .. n : ms[k].money \in Nat /\ AllGold(h[k]) = AllGold(h[k - 1]) + ms[k].money
  <1> DEFINE T == {k \in Nat : k <= n => After(h[k], ms, k)}
  <1>1. n \in Nat /\ \A k \in 1 .. n : Fresh(ms[k], mailId + k - 1)
    <2>1. Len(ms) \in Nat
      BY LenProperties DEF Lettered
    <2> QED
      BY <2>1 DEF Lettered
  <1>2. After(h[0], ms, 0)
    <2>1. AllGold(written) \in Nat /\ mailId + 0 = mailId
      BY GoldType
    <2>2. {ms[j] : j \in 1 .. 0} = {}
      OBVIOUS
    <2>3. AllGold(written) >= AllGold(written)
      BY <2>1
    <2>4. Ok(written, mailId + 0)
      BY <2>1
    <2>5. written.mail = written.mail \cup {ms[j] : j \in 1 .. 0}
      BY <2>2
    <2> QED
      BY <2>3, <2>4, <2>5 DEF After, Posting
  <1>3. ASSUME NEW k \in Nat, k + 1 <= n, After(h[k], ms, k)
        PROVE  /\ After(h[k + 1], ms, k + 1) /\ ms[k + 1].money \in Nat
               /\ AllGold(h[k + 1]) = AllGold(h[k]) + ms[k + 1].money
    <2>1. k + 1 \in 1 .. n /\ (k + 1) - 1 = k /\ mailId + (k + 1) - 1 = mailId + k
      BY <1>1, <1>3
    <2>2. Fresh(ms[k + 1], mailId + k)
      BY <1>1, <2>1
    <2>3. h[k + 1] = Execute(h[k], InsertMail(ms[k + 1]))
      BY <2>1 DEF Posting
    <2>4. PICK b, c : b = h[k] /\ c = h[k + 1]
      OBVIOUS
    <2>5. After(b, ms, k) /\ c = Execute(b, InsertMail(ms[k + 1]))
      BY <1>3, <2>3, <2>4
    <2>6. /\ After(c, ms, k + 1)
          /\ ms[k + 1].money \in Nat /\ AllGold(c) = AllGold(b) + ms[k + 1].money
      BY <2>2, <2>5, LetterPosted
    <2> QED
      BY <2>4, <2>6
  <1>4. PICK U : U = T
    OBVIOUS
  <1>5. U = Nat
    <2>1. U \in SUBSET Nat /\ 0 \in U
      BY <1>1, <1>2, <1>4
    <2>2. ASSUME NEW k \in U PROVE k + 1 \in U
      <3>1. k \in Nat /\ k + 1 \in Nat /\ (k + 1 <= n => k <= n)
        BY <1>1, <2>1
      <3>2. k + 1 <= n => After(h[k], ms, k)
        BY <1>4, <2>2, <3>1
      <3>3. k + 1 <= n => After(h[k + 1], ms, k + 1)
        BY <1>3, <3>1, <3>2
      <3> QED
        BY <1>4, <3>1, <3>3
    <2> QED
      BY <2>1, <2>2, NumbersByInduction
  <1>6. \A k \in 0 .. n : After(h[k], ms, k)
    BY <1>1, <1>4, <1>5
  <1> HIDE DEF T
  <1>7. ASSUME NEW k \in 1 .. n
        PROVE  ms[k].money \in Nat /\ AllGold(h[k]) = AllGold(h[k - 1]) + ms[k].money
    <2>1. k - 1 \in Nat /\ (k - 1) + 1 = k /\ k - 1 \in 0 .. n /\ (k - 1) + 1 <= n
      BY <1>1
    <2>2. PICK j : j = k - 1
      OBVIOUS
    <2>3. j \in Nat /\ j + 1 = k /\ j + 1 <= n /\ After(h[j], ms, j)
      BY <1>6, <2>1, <2>2
    <2>4. ms[j + 1].money \in Nat /\ AllGold(h[j + 1]) = AllGold(h[j]) + ms[j + 1].money
      BY <1>3, <2>3
    <2> QED
      BY <2>2, <2>3, <2>4
  <1> QED
    BY <1>1, <1>6, <1>7

\* The letters are not in the tables before, and are in them after.
LEMMA LettersAreNew ==
  ASSUME mailId \in Nat, Ok(written, mailId), NEW ms, Lettered(ms)
  PROVE  /\ Range(ms) = {ms[j] : j \in 1 .. Len(ms)}
         /\ Range(ms) \cap written.mail = {}
  <1>1. Len(ms) \in Nat /\ DOMAIN ms = 1 .. Len(ms)
    BY LenProperties DEF Lettered
  <1>2. ASSUME NEW j \in 1 .. Len(ms) PROVE ms[j] \notin written.mail
    <2>1. ms[j].id = mailId + j - 1
      BY DEF Lettered, Fresh
    <2>2. ~ (ms[j].id < mailId)
      BY <1>1, <2>1
    <2> QED
      BY <2>2, MailFacts
  <1>3. Range(ms) = {ms[j] : j \in 1 .. Len(ms)}
    BY <1>1 DEF Range
  <1> QED
    BY <1>2, <1>3

Listed(txns, ms, n, stmts) ==
    /\ n \in Nat /\ Len(txns) = n + 1 /\ txns[n + 1] = stmts
    /\ \A k \in 1 .. n : txns[k] = <<InsertMail(ms[k])>>

LEMMA ConcludeTxns ==
  ASSUME NEW ms, Lettered(ms), NEW n, n = Len(ms), NEW stmts
  PROVE  Listed(Posted(ms) \o <<stmts>>, ms, n, stmts)
  <1> DEFINE x == Posted(ms)
             y == <<stmts>>
             S == {x[k] : k \in 1 .. n} \cup {stmts}
  <1>1. n \in Nat /\ DOMAIN ms = 1 .. n
    BY LenProperties DEF Lettered
  <1>2. x = [k \in 1 .. n |-> <<InsertMail(ms[k])>>]
    BY <1>1 DEF Posted
  <1>3. \A k \in 1 .. n : x[k] = <<InsertMail(ms[k])>>
    BY <1>2
  <1>4. x \in [1 .. n -> S]
    BY <1>2
  <1>5. y \in Seq(S) /\ Len(y) = 1 /\ y[1] = stmts
    OBVIOUS
  <1> HIDE DEF x, y, S
  <1>6. x \in Seq(S) /\ Len(x) = n
    BY <1>1, <1>4, SeqDef, LenProperties
  <1>7. /\ Len(x \o y) = n + 1
        /\ \A k \in 1 .. n + 1 : (x \o y)[k] = IF k <= n THEN x[k] ELSE y[k - n]
    <2>1. /\ Len(x \o y) = Len(x) + Len(y)
          /\ \A k \in 1 .. Len(x) + Len(y) : (x \o y)[k] = IF k <= Len(x) THEN x[k] ELSE y[k - Len(x)]
      BY <1>5, <1>6, ConcatProperties
    <2> QED
      BY <1>5, <1>6, <2>1
  <1>8. (x \o y)[n + 1] = stmts
    <2>1. n + 1 \in 1 .. n + 1 /\ ~ (n + 1 <= n) /\ (n + 1) - n = 1
      BY <1>1
    <2> QED
      BY <1>5, <1>7, <2>1
  <1>9. \A k \in 1 .. n : (x \o y)[k] = x[k]
    BY <1>1, <1>7
  <1> QED
    BY <1>1, <1>3, <1>7, <1>8, <1>9 DEF x, y, Listed

Concluded(txns, h, ms, n, stmts) ==
    /\ n \in Nat /\ Len(txns) = n + 1 /\ Commit("auction", txns) /\ Committed(h, txns, n + 1)
    /\ Posting(h, ms, n) /\ written' = ExecuteAll(h[n], stmts) /\ written' = h[n + 1]

LEMMA ConcludePages ==
  ASSUME NEW ms, Lettered(ms), NEW n, n = Len(ms), NEW stmts, Conclude(ms, stmts)
  PROVE  \E txns, h : Concluded(txns, h, ms, n, stmts)
  <1>1. PICK txns : txns = Posted(ms) \o <<stmts>>
    OBVIOUS
  <1>2. Commit("auction", txns)
    BY <1>1 DEF Conclude
  <1>3. /\ n \in Nat /\ Len(txns) = n + 1 /\ txns[n + 1] = stmts
        /\ \A k \in 1 .. n : txns[k] = <<InsertMail(ms[k])>>
    <2>1. Listed(txns, ms, n, stmts)
      BY <1>1, ConcludeTxns
    <2> QED
      BY <2>1 DEF Listed
  <1>4. PICK i : i = n + 1
    OBVIOUS
  <1>5. i \in Nat /\ Len(txns) = i
    BY <1>3, <1>4
  <1>6. PICK h : Committed(h, txns, i)
    BY <1>2, <1>5, CommitPages
  <1>7. Posting(h, ms, n)
    <2>1. h[0] = written
      BY <1>6 DEF Committed
    <2>2. ASSUME NEW k \in 1 .. n PROVE h[k] = Execute(h[k - 1], InsertMail(ms[k]))
      <3>1. k \in 1 .. i
        BY <1>3, <1>4
      <3>2. h[k] = ExecuteAll(h[k - 1], <<InsertMail(ms[k])>>)
        BY <1>3, <1>6, <3>1 DEF Committed
      <3> QED
        BY <3>2, ExecuteOne
    <2> QED
      BY <2>1, <2>2 DEF Posting
  <1>8. written' = ExecuteAll(h[n], stmts) /\ written' = h[n + 1]
    <2>1. i \in 1 .. i /\ i - 1 = n
      BY <1>3, <1>4
    <2>2. h[i] = ExecuteAll(h[i - 1], txns[i]) /\ h[i] = written'
      BY <1>6, <2>1 DEF Committed
    <2> QED
      BY <1>3, <1>4, <2>1, <2>2
  <1>9. Concluded(txns, h, ms, n, stmts)
    BY <1>2, <1>3, <1>4, <1>6, <1>7, <1>8 DEF Concluded
  <1> QED
    BY <1>9

\* While the letters are posted, nothing is lost.
LEMMA AfterEnough ==
  ASSUME Settled(written), NEW b, NEW ms, NEW k, After(b, ms, k), AllGold(written) \in Nat
  PROVE  Enough(b)
  <1>1. ASSUME NEW i \in Items PROVE Somewhere(b, i)
    <2>1. OnePlace(written, i)
      BY DEF Settled
    <2>2. Somewhere(written, i)
      BY <2>1 DEF OnePlace, One, Somewhere
    <2>3. Bags(b, i) = Bags(written, i) /\ Lots(b, i) = Lots(written, i)
      BY DEF After, Bags, Lots
    <2>4. Posts(written, i) \subseteq Posts(b, i) /\ b.waste.items = written.waste.items
      BY DEF After, Posts
    <2> QED
      BY <2>2, <2>3, <2>4 DEF Somewhere
  <1>2. Roomy => AllGold(b) >= Issued
    BY DEF After, Settled
  <1> QED
    BY <1>1, <1>2 DEF Enough

\* A handler of the auction house for p, or for nobody, and all that follows from it.
LEMMA AuctionStep ==
  ASSUME NEW db, Before(db), NEW p, p \in Players => where[p] = "online",
         NEW ms, Lettered(ms), NEW n, n = Len(ms), mailId + n <= MaxMails + 1,
         NEW txns, NEW h, NEW stmts, Concluded(txns, h, ms, n, stmts),
         box' = Delivered(box, Range(ms)), mailId' = mailId + n,
         UNCHANGED <<where, answer, saved, within>>,
         Ok(written', mailId'), Settled(written'),
         written'.mail = written.mail \cup Range(ms),
         Others(p), p \in Players => HasOk(p)',
         has' \in [Players -> [gold : 0 .. MaxMoney, items : SUBSET Items]], Sales'
  PROVE  MailInv'
  <1>1. /\ Shape /\ Queue /\ Answers /\ Memory /\ Ledger(db) /\ Logins(db)
        /\ mailId \in Nat /\ MaxMails \in Nat /\ Ok(written, mailId) /\ Settled(written)
    BY Now, MailAssumption DEF Before
  <1>2. /\ n \in Nat /\ Len(txns) = n + 1 /\ Commit("auction", txns)
        /\ Committed(h, txns, n + 1) /\ Posting(h, ms, n) /\ written' = h[n + 1]
    BY DEF Concluded
  <1>3. PICK i : i = n + 1
    OBVIOUS
  <1>4. /\ i \in Nat /\ i > 0 /\ Len(txns) = i /\ Committed(h, txns, i) /\ written' = h[i]
    BY <1>2, <1>3
  <1>5. \A k \in 0 .. n : After(h[k], ms, k)
    BY <1>1, <1>2, LettersPosted
  <1>6. mailId' \in Nat /\ mailId <= mailId' /\ mailId' <= MaxMails + 1
    BY <1>1, <1>2
  <1>7. Filled(h, "auction", i)
    <2>1. ASSUME NEW k \in 1 .. i - 1 PROVE Page(h[k], "auction", mailId')
      <3>1. k \in 0 .. n /\ k <= n
        BY <1>2, <1>3
      <3>2. After(h[k], ms, k)
        BY <1>5, <3>1
      <3>3. Enough(h[k])
        BY <1>1, <3>2, AfterEnough, GoldType
      <3>4. Ok(h[k], mailId')
        <4>1. PICK x, y : x = mailId + k /\ y = mailId'
          OBVIOUS
        <4>2. x \in Nat /\ y \in Nat /\ x <= y
          BY <1>1, <1>2, <3>1, <4>1
        <4>3. Ok(h[k], x)
          BY <3>2, <4>1 DEF After
        <4>4. Ok(h[k], y)
          BY <4>2, <4>3, OkLater
        <4> QED
          BY <4>1, <4>4
      <3> QED
        BY <3>3, <3>4 DEF Page
    <2>2. Page(h[i], "none", mailId')
      BY <1>4 DEF Page
    <2> QED
      BY <2>1, <2>2 DEF Filled
  <1>8. Got(box, Range(ms)) /\ DOMAIN box' = Players /\ box' = [r \in Players |-> box'[r]]
    BY DeliveredGot
  <1>9. PICK bx, sent : bx = box /\ sent = Range(ms)
    OBVIOUS
  <1>10. Got(bx, sent) /\ \A q \in Players : q # p => bx[q] = box[q]
    BY <1>8, <1>9
  <1>11. sent \cap written.mail = {} /\ sent \subseteq written'.mail
    BY <1>1, <1>9, LettersAreNew
  <1>12. p \in Players => HasOk(p)' /\ Fits(bx[p], p, written'.mail, sent)
    <2> SUFFICES ASSUME p \in Players PROVE HasOk(p)' /\ Fits(bx[p], p, written'.mail, sent)
      OBVIOUS
    <2>1. BoxOk(p)
      BY <1>1 DEF Memory
    <2> QED
      BY <1>9, <1>11, <2>1 DEF BoxOk, Fits
  <1>13. Queue' /\ Answers' /\ Memory' /\ \E e : Ledger(e)' /\ Logins(e)'
    <2>1. /\ UNCHANGED <<saved, within, answer>> /\ (p \in Players => where[p] # "loading")
          /\ "auction" \in Kinds
      BY DEF Kinds
    <2> QED
      BY <1>1, <1>2, <1>4, <1>6, <1>7, <1>10, <1>11, <1>12, <2>1, HandlerStep
  <1>14. Shape'
    BY <1>1, <1>6, <1>8 DEF Shape
  <1> QED
    BY <1>13, <1>14 DEF Before, MailInv

\* The letters ms brought total gold from nowhere.
Sent(h, ms, n, total) ==
    /\ After(h[n], ms, n) /\ total \in Nat /\ AllGold(h[n]) = AllGold(written) + total

LEMMA NoLetter ==
  ASSUME mailId \in Nat, Ok(written, mailId)
  PROVE  /\ Lettered(<<>>) /\ Len(<<>>) = 0 /\ Range(<<>>) = {}
         /\ \A h : Posting(h, <<>>, 0) => Sent(h, <<>>, 0, 0)
  <1>1. Len(<<>>) = 0 /\ <<>> \in Seq(WideMails) /\ Lettered(<<>>)
    BY DEF Lettered
  <1>2. Range(<<>>) = {}
    BY <1>1, LettersAreNew
  <1>3. ASSUME NEW h, Posting(h, <<>>, 0) PROVE Sent(h, <<>>, 0, 0)
    <2>1. After(h[0], <<>>, 0)
      BY <1>1, <1>3, LettersPosted
    <2>2. h[0] = written /\ AllGold(written) \in Nat
      BY <1>3, GoldType DEF Posting
    <2> QED
      BY <2>1, <2>2 DEF Sent
  <1> QED
    BY <1>1, <1>2, <1>3

LEMMA OneLetter ==
  ASSUME mailId \in Nat, Ok(written, mailId), NEW x, Fresh(x, mailId)
  PROVE  /\ Lettered(<<x>>) /\ Len(<<x>>) = 1 /\ Range(<<x>>) = {x}
         /\ \A h : Posting(h, <<x>>, 1) => Sent(h, <<x>>, 1, x.money)
  <1> DEFINE ms == <<x>>
  <1>1. x \in WideMails
    BY DEF Fresh
  <1>2. Len(ms) = 1 /\ ms[1] = x /\ ms \in Seq(WideMails)
    BY <1>1
  <1> HIDE DEF ms
  <1>3. Lettered(ms)
    <2>1. ASSUME NEW k \in 1 .. 1 PROVE Fresh(ms[k], mailId + k - 1)
      <3>1. k = 1 /\ mailId + k - 1 = mailId
        OBVIOUS
      <3> QED
        BY <1>2, <3>1
    <2> QED
      BY <1>2, <2>1 DEF Lettered
  <1>4. Range(ms) = {x}
    <2>1. Range(ms) = {ms[j] : j \in 1 .. 1}
      BY <1>2, <1>3, LettersAreNew
    <2>2. \A j \in 1 .. 1 : j = 1
      OBVIOUS
    <2> QED
      BY <1>2, <2>1, <2>2
  <1>5. ASSUME NEW h, Posting(h, ms, 1) PROVE Sent(h, ms, 1, x.money)
    <2>1. /\ \A k \in 0 .. 1 : After(h[k], ms, k)
          /\ \A k \in 1 .. 1 : ms[k].money \in Nat /\ AllGold(h[k]) = AllGold(h[k - 1]) + ms[k].money
      BY <1>2, <1>3, <1>5, LettersPosted
    <2>2. After(h[1], ms, 1) /\ x.money \in Nat /\ AllGold(h[1]) = AllGold(h[0]) + x.money
      BY <1>2, <2>1
    <2>3. h[0] = written
      BY <1>5 DEF Posting
    <2> QED
      BY <2>2, <2>3 DEF Sent
  <1> QED
    BY <1>2, <1>3, <1>4, <1>5 DEF ms

LEMMA TwoLetters ==
  ASSUME mailId \in Nat, Ok(written, mailId), NEW x, Fresh(x, mailId), NEW y, Fresh(y, mailId + 1)
  PROVE  /\ Lettered(<<x, y>>) /\ Len(<<x, y>>) = 2 /\ Range(<<x, y>>) = {x, y}
         /\ \A h : Posting(h, <<x, y>>, 2) => Sent(h, <<x, y>>, 2, x.money + y.money)
  <1> DEFINE ms == <<x, y>>
  <1>1. x \in WideMails /\ y \in WideMails
    BY DEF Fresh
  <1>2. Len(ms) = 2 /\ ms[1] = x /\ ms[2] = y /\ ms \in Seq(WideMails)
    BY <1>1
  <1> HIDE DEF ms
  <1>3. Lettered(ms)
    <2>1. ASSUME NEW k \in 1 .. 2 PROVE Fresh(ms[k], mailId + k - 1)
      <3>1. \/ k = 1 /\ mailId + k - 1 = mailId
            \/ k = 2 /\ mailId + k - 1 = mailId + 1
        OBVIOUS
      <3> QED
        BY <1>2, <3>1
    <2> QED
      BY <1>2, <2>1 DEF Lettered
  <1>4. Range(ms) = {x, y}
    <2>1. Range(ms) = {ms[j] : j \in 1 .. 2}
      BY <1>2, <1>3, LettersAreNew
    <2>2. \A j \in 1 .. 2 : j = 1 \/ j = 2
      OBVIOUS
    <2> QED
      BY <1>2, <2>1, <2>2
  <1>5. ASSUME NEW h, Posting(h, ms, 2) PROVE Sent(h, ms, 2, x.money + y.money)
    <2>1. /\ \A k \in 0 .. 2 : After(h[k], ms, k)
          /\ \A k \in 1 .. 2 : ms[k].money \in Nat /\ AllGold(h[k]) = AllGold(h[k - 1]) + ms[k].money
      BY <1>2, <1>3, <1>5, LettersPosted
    <2>2. /\ After(h[2], ms, 2) /\ x.money \in Nat /\ y.money \in Nat
          /\ AllGold(h[1]) = AllGold(h[0]) + x.money /\ AllGold(h[2]) = AllGold(h[1]) + y.money
      BY <1>2, <2>1
    <2>3. h[0] = written /\ AllGold(written) \in Nat
      BY <1>5, GoldType DEF Posting
    <2> QED
      BY <2>2, <2>3 DEF Sent
  <1> QED
    BY <1>2, <1>3, <1>4, <1>5 DEF ms

LEMMA ThreeLetters ==
  ASSUME mailId \in Nat, Ok(written, mailId), NEW x, Fresh(x, mailId), NEW y, Fresh(y, mailId + 1),
         NEW z, Fresh(z, mailId + 2)
  PROVE  /\ Lettered(<<x, y, z>>) /\ Len(<<x, y, z>>) = 3 /\ Range(<<x, y, z>>) = {x, y, z}
         /\ \A h : Posting(h, <<x, y, z>>, 3) => Sent(h, <<x, y, z>>, 3, x.money + y.money + z.money)
  <1> DEFINE ms == <<x, y, z>>
  <1>1. x \in WideMails /\ y \in WideMails /\ z \in WideMails
    BY DEF Fresh
  <1>2. Len(ms) = 3 /\ ms[1] = x /\ ms[2] = y /\ ms[3] = z /\ ms \in Seq(WideMails)
    BY <1>1
  <1> HIDE DEF ms
  <1>3. Lettered(ms)
    <2>1. ASSUME NEW k \in 1 .. 3 PROVE Fresh(ms[k], mailId + k - 1)
      <3>1. \/ k = 1 /\ mailId + k - 1 = mailId
            \/ k = 2 /\ mailId + k - 1 = mailId + 1
            \/ k = 3 /\ mailId + k - 1 = mailId + 2
        OBVIOUS
      <3> QED
        BY <1>2, <3>1
    <2> QED
      BY <1>2, <2>1 DEF Lettered
  <1>4. Range(ms) = {x, y, z}
    <2>1. Range(ms) = {ms[j] : j \in 1 .. 3}
      BY <1>2, <1>3, LettersAreNew
    <2>2. \A j \in 1 .. 3 : j = 1 \/ j = 2 \/ j = 3
      OBVIOUS
    <2> QED
      BY <1>2, <2>1, <2>2
  <1>5. ASSUME NEW h, Posting(h, ms, 3) PROVE Sent(h, ms, 3, x.money + y.money + z.money)
    <2>1. /\ \A k \in 0 .. 3 : After(h[k], ms, k)
          /\ \A k \in 1 .. 3 : ms[k].money \in Nat /\ AllGold(h[k]) = AllGold(h[k - 1]) + ms[k].money
      BY <1>2, <1>3, <1>5, LettersPosted
    <2>2. /\ After(h[3], ms, 3) /\ x.money \in Nat /\ y.money \in Nat /\ z.money \in Nat
          /\ AllGold(h[1]) = AllGold(h[0]) + x.money /\ AllGold(h[2]) = AllGold(h[1]) + y.money
          /\ AllGold(h[3]) = AllGold(h[2]) + z.money
      BY <1>2, <2>1
    <2>3. h[0] = written /\ AllGold(written) \in Nat
      BY <1>5, GoldType DEF Posting
    <2> QED
      BY <2>2, <2>3 DEF Sent
  <1> QED
    BY <1>2, <1>3, <1>4, <1>5 DEF ms

\* Letters s without items are posted, and the lot a becomes the lot b.
LEMMA PlacedBid ==
  ASSUME NEW db, NEW d, Placed(db), NEW s, \A m \in s : m.item = None,
         NEW a \in db.auction, NEW b, b.item = a.item,
         Holds(d, db.inventory, db.mail \cup s, (db.auction \ {a}) \cup {b}, db.waste.items)
  PROVE  Placed(d)
  <1>1. ASSUME NEW x \in Items PROVE OnePlace(d, x)
    <2>1. OnePlace(db, x) /\ x # None
      BY TablesAssumption DEF Placed
    <2>2. Bags(d, x) = Bags(db, x) /\ Posts(d, x) = Posts(db, x)
      BY <2>1 DEF Bags, Posts, Holds
    <2>3. CASE a.item = x
      <3>1. /\ Bags(db, x) = {} /\ Posts(db, x) = {} /\ Lots(db, x) = {a}
            /\ x \notin db.waste.items
        BY <2>1, <2>3, InLot
      <3>2. Lots(d, x) = {b}
        BY <2>3, <3>1 DEF Lots, Holds
      <3> QED
        BY <2>2, <3>1, <3>2 DEF OnePlace, One, Holds
    <2>4. CASE a.item # x
      <3>1. Lots(d, x) = Lots(db, x)
        BY <2>4 DEF Lots, Holds
      <3> QED
        BY <2>1, <2>2, <3>1, SamePlace DEF Holds
    <2> QED
      BY <2>3, <2>4
  <1> QED
    BY <1>1 DEF Placed

\* Of the letters s that are posted, k has the item of the lot a.
LEMMA PlacedConclude ==
  ASSUME NEW db, NEW d, Placed(db), NEW s, NEW k \in s, NEW a \in db.auction, k.item = a.item,
         \A m \in s : m # k => m.item = None,
         Holds(d, db.inventory, db.mail \cup s, db.auction \ {a}, db.waste.items)
  PROVE  Placed(d)
  <1>1. ASSUME NEW x \in Items PROVE OnePlace(d, x)
    <2>1. OnePlace(db, x) /\ x # None
      BY TablesAssumption DEF Placed
    <2>2. Bags(d, x) = Bags(db, x)
      BY DEF Bags, Holds
    <2>3. CASE a.item = x
      <3>1. /\ Bags(db, x) = {} /\ Posts(db, x) = {} /\ Lots(db, x) = {a}
            /\ x \notin db.waste.items
        BY <2>1, <2>3, InLot
      <3>2. Lots(d, x) = {}
        BY <3>1 DEF Lots, Holds
      <3>3. Posts(d, x) = {k}
        BY <2>1, <2>3, <3>1 DEF Posts, Holds
      <3> QED
        BY <2>2, <3>1, <3>2, <3>3 DEF OnePlace, One, Holds
    <2>4. CASE a.item # x
      <3>1. Lots(d, x) = Lots(db, x)
        BY <2>4 DEF Lots, Holds
      <3>2. Posts(d, x) = Posts(db, x)
        BY <2>1, <2>4 DEF Posts, Holds
      <3> QED
        BY <2>1, <2>2, <3>1, <3>2, SamePlace DEF Holds
    <2> QED
      BY <2>3, <2>4
  <1> QED
    BY <1>1 DEF Placed

\* The item i of p becomes the lot b.
LEMMA PlacedSell ==
  ASSUME NEW db, NEW d, Placed(db), NEW p \in Players, NEW i \in db.inventory[p], NEW b, b.item = i,
         db.inventory \in [Players -> SUBSET Items],
         Holds(d, [q \in Players |-> db.inventory[q] \ {i}], db.mail, db.auction \cup {b},
               db.waste.items)
  PROVE  Placed(d)
  <1>1. ASSUME NEW x \in Items PROVE OnePlace(d, x)
    <2>1. OnePlace(db, x)
      BY DEF Placed
    <2>2. Posts(d, x) = Posts(db, x)
      BY DEF Posts, Holds
    <2>3. CASE i = x
      <3>1. /\ Bags(db, x) = {p} /\ Posts(db, x) = {} /\ Lots(db, x) = {}
            /\ x \notin db.waste.items
        BY <2>1, <2>3, InBag
      <3>2. Lots(d, x) = {b}
        BY <2>3, <3>1 DEF Lots, Holds
      <3>3. Bags(d, x) = {}
        BY <2>3, <3>1 DEF Bags, Holds
      <3> QED
        BY <2>2, <3>1, <3>2, <3>3 DEF OnePlace, One, Holds
    <2>4. CASE i # x
      <3>1. Lots(d, x) = Lots(db, x)
        BY <2>4 DEF Lots, Holds
      <3>2. Bags(d, x) = Bags(db, x)
        BY <2>4 DEF Bags, Holds
      <3> QED
        BY <2>1, <2>2, <3>1, <3>2, SamePlace DEF Holds
    <2> QED
      BY <2>3, <2>4
  <1> QED
    BY <1>1 DEF Placed

LEMMA CutFacts ==
  ASSUME NEW bid \in Nat
  PROVE  GetAuctionCut(bid) \in Nat /\ GetAuctionCut(bid) <= bid
  <1>1. PICK c \in Nat : c = CutPercent /\ c <= 100
    BY AuctionAssumption
  <1>2. PICK x : x = c * bid
    OBVIOUS
  <1>3. x \in Nat /\ x <= 100 * bid
    <2>1. c * bid \in Nat /\ (100 - c) \in Nat
      BY <1>1
    <2>2. (100 - c) * bid \in Nat /\ (100 - c) * bid = 100 * bid - c * bid
      BY <1>1, <2>1
    <2> QED
      BY <1>2, <2>1, <2>2
  <1>4. PICK y : y = x % Width /\ y \in Nat /\ y <= x
    <2>1. PICK w \in Nat : w = Width /\ w > 0
      BY TablesAssumption
    <2>2. x % w \in 0 .. w - 1
      BY <1>3, <2>1
    <2>3. x % w <= x
      BY <1>3, <2>1
    <2> QED
      BY <2>1, <2>2, <2>3
  <1>5. y \div 100 \in Nat /\ y \div 100 <= bid
    BY <1>3, <1>4
  <1> QED
    BY <1>1, <1>2, <1>4, <1>5 DEF GetAuctionCut

-----------------------------------------------------------------------------
(***************************************************************************)
(* HandleAuctionSellItem.                                                  *)
(***************************************************************************)
LEMMA SellStep ==
  ASSUME NEW db, Before(db), NEW p \in Players, NEW i \in has[p].items, NEW startbid \in Prices,
         NEW buyout \in Prices \cup {0}, HandleAuctionSellItem(p, i, startbid, buyout)
  PROVE  MailInv' /\ Sells(p, i)
  <1> DEFINE a == [item |-> i, owner |-> p, bidder |-> None, bid |-> 0,
                   startbid |-> startbid, buyout |-> buyout]
             g == ModifyMoney(has[p].gold, -Deposit)
             s == <<DeleteFromInventory(i), InsertAuction(a), SaveGold(p, g, 0)>>
             txns == <<s>>
  <1>1. /\ where[p] = "online" /\ has[p].gold >= Deposit
        /\ has' = [has EXCEPT ![p] = [gold |-> g, items |-> has[p].items \ {i}]]
        /\ auctions' = auctions \cup {a} /\ aitems' = aitems \cup {i}
        /\ UNCHANGED <<where, box, answer, mailId, saved, within>>
    BY DEF HandleAuctionSellItem
  <1>2. Commit("auction", txns) /\ Len(txns) = 1 /\ 1 \in Nat /\ 1 > 0
    BY DEF HandleAuctionSellItem
  <1>3. /\ mailId \in Nat /\ MaxMoney \in Nat /\ Deposit \in Nat /\ Ok(written, mailId)
        /\ Settled(written) /\ BoxOk(p) /\ HasOk(p) /\ has[p].gold \in 0 .. MaxMoney
        /\ has[p].items \in SUBSET Items /\ auctions = written.auction
        /\ written.gold \in [Players -> 0 .. MaxMoney]
        /\ written.inventory \in [Players -> SUBSET Items]
    BY Now, TablesFacts
  <1>4. /\ has[p].gold = written.gold[p] /\ has[p].items = written.inventory[p]
        /\ i \in written.inventory[p] /\ i \in Items
    BY <1>1, <1>3 DEF HasOk
  <1>5. g \in 0 .. MaxMoney /\ g = has[p].gold - Deposit
    BY <1>1, <1>3, Spend
  <1>6. a \in Auctions /\ AuctionOk(a) /\ a.item = i /\ a.bid = 0
    <2>1. startbid \in 0 .. MaxMoney /\ buyout \in 0 .. MaxMoney /\ 0 \in 0 .. MaxMoney
      BY <1>3, AuctionAssumption
    <2> QED
      BY <1>4, <2>1 DEF Auctions, AuctionOk
  <1> HIDE DEF a, g
  <1>7. a \notin written.auction
    <2>1. OnePlace(written, i)
      BY <1>3, <1>4 DEF Settled
    <2>2. Lots(written, i) = {}
      BY <1>4, <2>1, InBag
    <2> QED
      BY <1>6, <2>2 DEF Lots
  <1> HIDE DEF s
  <1>8. txns = <<s>>
    OBVIOUS
  <1> HIDE DEF txns
  <1>9. PICK h : Committed(h, txns, 1)
    BY <1>2, CommitPages
  <1>10. h[1] = ExecuteAll(written, s) /\ written' = h[1]
    BY <1>8, <1>9, CommittedOne
  <1>11. PICK x : x = Execute(written, DeleteFromInventory(i))
    OBVIOUS
  <1>12. PICK y : y = Execute(x, InsertAuction(a))
    OBVIOUS
  <1>13. PICK z : z = Execute(y, SaveGold(p, g, 0))
    OBVIOUS
  <1>14. written' = z /\ h[1] = z
    <2>1. ExecuteAll(written, s) = z
      BY <1>11, <1>12, <1>13, ExecuteThree DEF s
    <2> QED
      BY <1>10, <2>1
  <1>15. /\ Ok(x, mailId) /\ x.inventory = [q \in Players |-> written.inventory[q] \ {i}]
         /\ x.gold = written.gold /\ x.mail = written.mail /\ x.auction = written.auction
         /\ x.waste.items = written.waste.items /\ AllGold(x) = AllGold(written)
    BY <1>3, <1>4, <1>11, StateTakeout
  <1>16. /\ Ok(y, mailId) /\ y.auction = written.auction \cup {a}
         /\ y.gold = x.gold /\ y.inventory = x.inventory /\ y.mail = x.mail
         /\ y.waste.items = x.waste.items
         /\ AllGold(y) = AllGold(x) + a.bid + Deposit
    <2>1. a \notin x.auction
      BY <1>7, <1>15
    <2> QED
      BY <1>6, <1>12, <1>15, <2>1, StateSell
  <1>17. /\ Ok(z, mailId) /\ z.gold = [y.gold EXCEPT ![p] = g]
         /\ z.inventory = y.inventory /\ z.mail = y.mail
         /\ z.auction = y.auction /\ z.waste.items = y.waste.items
         /\ AllGold(z) = AllGold(y) - y.gold[p] + g + 0
    <2>1. 0 \in Nat
      OBVIOUS
    <2> QED
      BY <1>5, <1>13, <1>16, <2>1, StateGold
  <1>18. /\ z.gold = [written.gold EXCEPT ![p] = g] /\ z.mail = written.mail
         /\ z.inventory = [q \in Players |-> written.inventory[q] \ {i}]
         /\ z.auction = written.auction \cup {a} /\ z.waste.items = written.waste.items
    BY <1>15, <1>16, <1>17
  <1>19. Settled(z)
    <2>1. Placed(written)
      BY <1>3 DEF Settled, Placed
    <2>2. Holds(z, [q \in Players |-> written.inventory[q] \ {i}], written.mail,
                written.auction \cup {a}, written.waste.items)
      BY <1>18 DEF Holds
    <2>3. Placed(z)
      BY <1>3, <1>4, <1>6, <2>1, <2>2, PlacedSell
    <2>4. AllGold(z) = AllGold(written)
      <3>1. AllGold(written) \in Nat /\ written.gold[p] \in Nat
        BY <1>3, GoldType
      <3>2. AllGold(y) = AllGold(written) + Deposit
        BY <1>3, <1>6, <1>15, <1>16, <3>1
      <3>3. AllGold(z) = AllGold(y) - written.gold[p] + g
        BY <1>3, <1>5, <1>15, <1>16, <1>17, <3>1, <3>2
      <3> QED
        BY <1>3, <1>4, <1>5, <3>1, <3>2, <3>3
    <2> QED
      BY <1>3, <2>3, <2>4 DEF Settled, Placed
  <1>20. mailId' \in Nat /\ mailId <= mailId' /\ mailId' = mailId
    BY <1>1, <1>3
  <1>21. Filled(h, "auction", 1)
    BY <1>14, <1>17, <1>19, <1>20 DEF Filled, Page
  <1>22. /\ has' \in [Players -> [gold : 0 .. MaxMoney, items : SUBSET Items]]
         /\ has'[p].gold = g /\ has'[p].items = has[p].items \ {i}
         /\ \A r \in Players : r # p => has'[r] = has[r]
    <2>1. has[p].items \ {i} \in SUBSET Items
      BY <1>3
    <2>2. Shape /\ HasBecomes(p, g, has[p].items \ {i})
      BY <1>1 DEF Before, HasBecomes
    <2> QED
      BY <1>5, <2>1, <2>2, HasTyped
  <1>23. Others(p)
    <2> SUFFICES ASSUME NEW q \in Players, q # p
                 PROVE  where'[q] = where[q] /\ has'[q] = has[q] /\ Kept(written, written', q)
      BY DEF Others
    <2>1. written'.inventory[q] = written.inventory[q]
      <3>1. OnePlace(written, i)
        BY <1>3, <1>4 DEF Settled
      <3>2. Bags(written, i) = {p}
        BY <1>4, <3>1, InBag
      <3>3. i \notin written.inventory[q]
        BY <3>2 DEF Bags
      <3> QED
        BY <1>3, <1>14, <1>18, <3>3
    <2>2. written'.gold[q] = written.gold[q] /\ written'.mail = written.mail
      BY <1>3, <1>14, <1>18
    <2> QED
      BY <1>1, <1>22, <2>1, <2>2 DEF Kept
  <1>24. HasOk(p)'
    <2>1. written'.gold[p] = g /\ written'.inventory[p] = written.inventory[p] \ {i}
      BY <1>3, <1>14, <1>18
    <2> QED
      BY <1>1, <1>4, <1>22, <2>1 DEF HasOk
  <1>25. PICK bx : bx = box
    OBVIOUS
  <1>26. Got(bx, {}) /\ \A q \in Players : q # p => bx[q] = box[q]
    BY <1>1, <1>25 DEF Got, News
  <1>27. Fits(bx[p], p, written'.mail, {})
    BY <1>3, <1>14, <1>18, <1>25 DEF BoxOk, Fits
  <1>28. Queue' /\ Answers' /\ Memory' /\ \E e : Ledger(e)' /\ Logins(e)'
    <2>1. /\ UNCHANGED <<saved, within, answer>> /\ where[p] # "loading"
          /\ "auction" \in Kinds /\ {} \cap written.mail = {} /\ {} \subseteq written'.mail
      BY <1>1 DEF Kinds
    <2>2. Shape /\ Queue /\ Answers /\ Memory /\ Ledger(db) /\ Logins(db)
      BY DEF Before
    <2> QED
      BY <1>2, <1>9, <1>20, <1>21, <1>23, <1>24, <1>26, <1>27, <2>1, <2>2, HandlerStep
  <1>29. Shape'
    BY <1>1, <1>22 DEF Before, Shape
  <1>30. Sales'
    <2>1. auctions' = written'.auction
      BY <1>1, <1>3, <1>14, <1>18
    <2>2. aitems' = {l.item : l \in auctions'}
      BY <1>1, <1>6 DEF Before, Sales
    <2> QED
      BY <2>1, <2>2 DEF Sales
  <1>31. Sells(p, i)
    <2>1. a.owner = p /\ a.bidder = None
      BY DEF a
    <2>2. g = written.gold[p] - Deposit /\ Deposit <= written.gold[p]
      BY <1>1, <1>3, <1>4, <1>5
    <2> QED
      BY <1>4, <1>6, <1>14, <1>18, <2>1, <2>2 DEF Sells, Change
  <1> QED
    BY <1>28, <1>29, <1>30, <1>31 DEF Before, MailInv

-----------------------------------------------------------------------------
(***************************************************************************)
(* A lot, and the letters about it.                                        *)
(***************************************************************************)
OnlyLot(a) ==
    a \in written.auction /\ \A x \in written.auction : x.item = a.item => x = a

LEMMA LotFacts ==
  ASSUME NEW db, Before(db), NEW a \in auctions
  PROVE  /\ a \in Auctions /\ AuctionOk(a) /\ OnlyLot(a)
         /\ a.bid \in Nat /\ a.item \in Items /\ a.owner \in Players
         /\ a.bid > 0 => a.bidder \in Players
         /\ a.bidder # None => a.bid > 0 /\ a.bidder \in Players
         /\ \A q \in Players : where[q] = "online" /\ Roomy =>
               has[q].gold + a.bid + Deposit <= MaxMoney
         /\ Roomy => a.bid + Deposit <= MaxMoney
  <1>1. /\ Ok(written, mailId) /\ Settled(written) /\ a \in written.auction
        /\ MaxMoney \in Nat /\ Deposit \in Nat
    BY Now
  <1>2. a \in Auctions /\ AuctionOk(a)
    BY <1>1 DEF Ok, SalesOk, AuctionTable
  <1>3. /\ a.bid \in Nat /\ a.item \in Items /\ a.owner \in Players
        /\ a.bidder \in Players \cup {None}
    BY <1>1, <1>2 DEF Auctions
  <1>4. OnlyLot(a)
    <2>1. ASSUME NEW x \in written.auction, x.item = a.item PROVE x = a
      <3>1. OnePlace(written, a.item)
        BY <1>1, <1>3 DEF Settled
      <3>2. Lots(written, a.item) = {a}
        BY <1>1, <3>1, InLot
      <3> QED
        BY <2>1, <3>2 DEF Lots
    <2> QED
      BY <1>1, <2>1 DEF OnlyLot
  <1>5. (a.bid > 0 => a.bidder # None) /\ (a.bidder # None => a.bid > 0)
    BY <1>2, <1>3 DEF AuctionOk
  <1>6. ASSUME NEW q \in Players, Roomy, where[q] = "online"
        PROVE  has[q].gold + a.bid + Deposit <= MaxMoney
    <2>1. /\ written.gold[q] + a.bid + Deposit <= AllGold(written) /\ AllGold(written) \in Nat
          /\ written.gold[q] \in Nat
      BY <1>1, GoldType
    <2>2. AllGold(written) = Issued /\ Issued <= MaxMoney
      BY <1>1, <1>6 DEF Settled, Roomy
    <2>3. has[q].gold = written.gold[q]
      BY <1>6, Now DEF HasOk
    <2> QED
      BY <1>1, <1>3, <2>1, <2>2, <2>3
  <1>7. ASSUME Roomy PROVE a.bid + Deposit <= MaxMoney
    <2>1. /\ written.gold[a.owner] + a.bid + Deposit <= AllGold(written)
          /\ AllGold(written) \in Nat /\ written.gold[a.owner] \in Nat
      BY <1>1, <1>3, GoldType
    <2>2. AllGold(written) = Issued /\ Issued <= MaxMoney
      BY <1>1, <1>7 DEF Settled, Roomy
    <2> QED
      BY <1>1, <1>3, <2>1, <2>2
  <1> QED
    BY <1>2, <1>3, <1>4, <1>5, <1>6, <1>7

LEMMA AuctionLetter ==
  ASSUME mailId \in Nat, NEW k \in Nat, NEW to \in Players, NEW money \in Nat,
         Roomy => money <= MaxMoney, NEW item \in Items \cup {None},
         NEW m, m = AuctionMail(k, to, money, item)
  PROVE  /\ Fresh(m, mailId + k) /\ m.money = money /\ m.item = item
         /\ Note(m, mailId + k, to, money, item)
  <1>1. 0 \in 0 .. Width - 1
    BY TablesAssumption
  <1>2. /\ m \in WideMails /\ m.id = mailId + k /\ m.type = "auction" /\ m.money = money
        /\ m.cod = 0 /\ m.item = item /\ m.receiver = to
    <2>1. m = [id |-> mailId + k, type |-> "auction", sender |-> None, receiver |-> to,
               money |-> money, cod |-> 0, item |-> item, checked |-> "plain"]
      BY DEF AuctionMail, NewMail
    <2> QED
      BY <1>1, <2>1 DEF WideMails
  <1>3. MailOk(m)
    BY <1>2 DEF MailOk
  <1> QED
    BY <1>2, <1>3 DEF Fresh, Note

\* The tables x after the letters ms, with these lots and this much gold.
Over(x, ms, n, sales, gold) ==
    /\ Ok(x, mailId + n) /\ x.gold = written.gold /\ AllGold(x) = gold
    /\ Holds(x, written.inventory, written.mail \cup Range(ms), sales, written.waste.items)

\* What is left of the tables db when the lot a has ended and the fee lost is paid.
Ended(d, next, db, a, lost) ==
    /\ Ok(d, next) /\ d.auction = db.auction \ {a}
    /\ d.gold = db.gold /\ d.inventory = db.inventory /\ d.mail = db.mail
    /\ d.waste.items = db.waste.items
    /\ AllGold(d) = AllGold(db) - a.bid - Deposit + lost
Alone(db, a) == a \in db.auction /\ \A y \in db.auction : y.item = a.item => y = a

LEMMA EndOfLot ==
  ASSUME NEW db, NEW next, Ok(db, next), NEW a, Alone(db, a), NEW lost, lost \in Nat,
         NEW d, d = Execute(db, DeleteAuction(a.item, lost))
  PROVE  Ended(d, next, db, a, lost)
  <1>1. a \in db.auction /\ \A y \in db.auction : y.item = a.item => y = a
    BY DEF Alone
  <1> QED
    BY <1>1, StateConclude DEF Ended

\* The tables after the letters ms, and the end of the lot a.
LEMMA LotDeleted ==
  ASSUME mailId \in Nat, Ok(written, mailId), NEW a, OnlyLot(a), a.bid \in Nat, NEW lost \in Nat,
         NEW ms, Lettered(ms), NEW n, n = Len(ms), NEW h, NEW total, Sent(h, ms, n, total),
         NEW x, x = Execute(h[n], DeleteAuction(a.item, lost))
  PROVE  Over(x, ms, n, written.auction \ {a},
              AllGold(written) + total - a.bid - Deposit + lost)
  <1>1. PICK b : b = h[n]
    OBVIOUS
  <1>2. After(b, ms, n) /\ total \in Nat /\ AllGold(b) = AllGold(written) + total
    BY <1>1 DEF Sent
  <1>3. PICK next : next = mailId + n
    OBVIOUS
  <1>4. /\ Ok(b, next) /\ b.mail = written.mail \cup Range(ms)
        /\ b.gold = written.gold /\ b.inventory = written.inventory
        /\ b.auction = written.auction /\ b.waste.items = written.waste.items
    BY <1>2, <1>3, LettersAreNew DEF After
  <1>5. a \in b.auction /\ \A y \in b.auction : y.item = a.item => y = a
    BY <1>4 DEF OnlyLot
  <1>6. /\ Ok(x, next) /\ x.auction = b.auction \ {a}
        /\ x.gold = b.gold /\ x.inventory = b.inventory /\ x.mail = b.mail
        /\ x.waste.items = b.waste.items
        /\ AllGold(x) = AllGold(b) - a.bid - Deposit + lost
    <2>1. Alone(b, a) /\ x = Execute(b, DeleteAuction(a.item, lost))
      BY <1>1, <1>5 DEF Alone
    <2>2. Ended(x, next, b, a, lost)
      BY <1>4, <2>1, EndOfLot
    <2> QED
      BY <2>2 DEF Ended
  <1> QED
    <2>1. AllGold(x) = AllGold(written) + total - a.bid - Deposit + lost
      <3>1. /\ AllGold(written) \in Nat /\ total \in Nat /\ Deposit \in Nat
        BY <1>2, GoldType, TablesAssumption
      <3>2. AllGold(b) = AllGold(written) + total
        BY <1>2
      <3> QED
        BY <1>6, <3>1, <3>2
    <2>2. Ok(x, mailId + n)
      BY <1>3, <1>6
    <2>3. Holds(x, written.inventory, written.mail \cup Range(ms), written.auction \ {a},
                written.waste.items)
      BY <1>4, <1>6 DEF Holds
    <2> QED
      BY <1>4, <1>6, <2>1, <2>2, <2>3 DEF Over

\* The tables after the letters ms, and the lot a became b.
LEMMA LotRaised ==
  ASSUME mailId \in Nat, Ok(written, mailId), NEW a, OnlyLot(a), a.bid \in Nat,
         NEW e \in Auctions, e.item = a.item, AuctionOk(e),
         NEW ms, Lettered(ms), NEW n, n = Len(ms), NEW h, NEW total, Sent(h, ms, n, total),
         NEW x, x = Execute(h[n], UpdateAuction(e))
  PROVE  Over(x, ms, n, (written.auction \ {a}) \cup {e},
              AllGold(written) + total - a.bid + e.bid)
  <1>1. PICK b : b = h[n]
    OBVIOUS
  <1>2. After(b, ms, n) /\ total \in Nat /\ AllGold(b) = AllGold(written) + total
    BY <1>1 DEF Sent
  <1>3. PICK next : next = mailId + n
    OBVIOUS
  <1>4. /\ Ok(b, next) /\ b.mail = written.mail \cup Range(ms)
        /\ b.gold = written.gold /\ b.inventory = written.inventory
        /\ b.auction = written.auction /\ b.waste.items = written.waste.items
    BY <1>2, <1>3, LettersAreNew DEF After
  <1>5. a \in b.auction /\ \A y \in b.auction : y.item = a.item => y = a
    BY <1>4 DEF OnlyLot
  <1>6. /\ Ok(x, next) /\ x.auction = (b.auction \ {a}) \cup {e}
        /\ x.gold = b.gold /\ x.inventory = b.inventory /\ x.mail = b.mail
        /\ x.waste.items = b.waste.items
        /\ AllGold(x) = AllGold(b) - a.bid + e.bid
    BY <1>1, <1>4, <1>5, StateBid
  <1> QED
    <2>1. AllGold(x) = AllGold(written) + total - a.bid + e.bid
      <3>1. /\ AllGold(written) \in Nat /\ total \in Nat /\ Deposit \in Nat /\ e.bid \in Int
        BY <1>2, GoldType, TablesAssumption DEF Auctions
      <3>2. AllGold(b) = AllGold(written) + total
        BY <1>2
      <3> QED
        BY <1>6, <3>1, <3>2
    <2>2. Ok(x, mailId + n)
      BY <1>3, <1>6
    <2>3. Holds(x, written.inventory, written.mail \cup Range(ms), (written.auction \ {a}) \cup {e},
                written.waste.items)
      BY <1>4, <1>6 DEF Holds
    <2> QED
      BY <1>4, <1>6, <2>1, <2>2, <2>3 DEF Over

-----------------------------------------------------------------------------
(***************************************************************************)
(* AuctionHouseObject::Update.                                             *)
(***************************************************************************)
\* The letters ms about the end of the lot a bring total gold; one has the item.
Ends(ms, a, n, total) ==
    /\ Lettered(ms) /\ n = Len(ms) /\ n \in Nat /\ total \in Nat
    /\ \E k \in Range(ms) : k.item = a.item /\ \A m \in Range(ms) : m # k => m.item = None
    /\ \A h : Posting(h, ms, n) => Sent(h, ms, n, total)

LEMMA OneEnds ==
  ASSUME mailId \in Nat, Ok(written, mailId), NEW a, a.item \in Items,
         NEW to \in Players, NEW ms, ms = <<AuctionMail(0, to, 0, a.item)>>
  PROVE  Ends(ms, a, 1, 0) /\ OneNote(Range(ms), to, 0, a.item)
  <1>1. PICK x : x = AuctionMail(0, to, 0, a.item)
    OBVIOUS
  <1>2. /\ Fresh(x, mailId) /\ x.money = 0 /\ x.item = a.item
        /\ Note(x, mailId, to, 0, a.item)
    <2>1. 0 \in Nat /\ (Roomy => 0 <= MaxMoney) /\ mailId + 0 = mailId
      BY TablesAssumption
    <2>2. /\ Fresh(x, mailId + 0) /\ x.money = 0 /\ x.item = a.item
          /\ Note(x, mailId + 0, to, 0, a.item)
      BY <1>1, <2>1, AuctionLetter
    <2> QED
      BY <2>1, <2>2
  <1>3. ms = <<x>>
    BY <1>1
  <1>4. /\ Lettered(ms) /\ Len(ms) = 1 /\ Range(ms) = {x}
        /\ \A h : Posting(h, ms, 1) => Sent(h, ms, 1, x.money)
    BY <1>2, <1>3, OneLetter
  <1> QED
    BY <1>2, <1>4 DEF Ends, OneNote

LEMMA TwoEnd ==
  ASSUME mailId \in Nat, Ok(written, mailId), NEW a, a.item \in Items,
         NEW p \in Players, NEW q \in Players, NEW money \in Nat, Roomy => money <= MaxMoney,
         NEW ms, ms = <<AuctionMail(0, p, money, None), AuctionMail(1, q, 0, a.item)>>
  PROVE  Ends(ms, a, 2, money) /\ TwoNotes(Range(ms), p, money, q, a.item)
  <1>1. PICK x, y : x = AuctionMail(0, p, money, None) /\ y = AuctionMail(1, q, 0, a.item)
    OBVIOUS
  <1>2. /\ Fresh(x, mailId) /\ x.money = money /\ x.item = None
        /\ Note(x, mailId, p, money, None)
    <2>1. 0 \in Nat /\ mailId + 0 = mailId
      OBVIOUS
    <2>2. /\ Fresh(x, mailId + 0) /\ x.money = money /\ x.item = None
          /\ Note(x, mailId + 0, p, money, None)
      BY <1>1, <2>1, AuctionLetter
    <2> QED
      BY <2>1, <2>2
  <1>3. /\ Fresh(y, mailId + 1) /\ y.money = 0 /\ y.item = a.item
        /\ Note(y, mailId + 1, q, 0, a.item)
    <2>1. 0 \in Nat /\ 1 \in Nat /\ (Roomy => 0 <= MaxMoney)
      BY TablesAssumption
    <2> QED
      BY <1>1, <2>1, AuctionLetter
  <1>4. ms = <<x, y>>
    BY <1>1
  <1>5. /\ Lettered(ms) /\ Len(ms) = 2 /\ Range(ms) = {x, y}
        /\ \A h : Posting(h, ms, 2) => Sent(h, ms, 2, x.money + y.money)
    BY <1>2, <1>3, <1>4, TwoLetters
  <1>6. x.money + y.money = money
    BY <1>2, <1>3
  <1> QED
    BY <1>2, <1>3, <1>5, <1>6 DEF Ends, TwoNotes

\* What a handler that ends the lot a leaves, once the auction is deleted.
LEMMA EndPlaced ==
  ASSUME Settled(written), NEW a \in written.auction, NEW ms, NEW n, NEW total, Ends(ms, a, n, total),
         NEW x, Holds(x, written.inventory, written.mail \cup Range(ms), written.auction \ {a},
                      written.waste.items)
  PROVE  Placed(x)
  <1>1. PICK s : s = Range(ms)
    OBVIOUS
  <1>2. PICK k \in s : k.item = a.item /\ \A m \in s : m # k => m.item = None
    BY <1>1 DEF Ends
  <1>3. Placed(written)
    BY DEF Settled, Placed
  <1>4. Holds(x, written.inventory, written.mail \cup s, written.auction \ {a}, written.waste.items)
    BY <1>1
  <1> QED
    BY <1>2, <1>3, <1>4, PlacedConclude

LEMMA NoLotLeft ==
  ASSUME Sales, NEW a, OnlyLot(a), RemoveAuction(a), written'.auction = written.auction \ {a}
  PROVE  Sales'
  <1>1. auctions = written.auction /\ aitems = {x.item : x \in auctions}
    BY DEF Sales
  <1>2. auctions' = auctions \ {a} /\ aitems' = aitems \ {a.item}
    BY DEF RemoveAuction
  <1>3. aitems' = {x.item : x \in auctions'}
    BY <1>1, <1>2 DEF OnlyLot
  <1> QED
    BY <1>1, <1>2, <1>3 DEF Sales

LEMMA UpdateStep ==
  ASSUME NEW db, Before(db), NEW a \in auctions, Update(a)
  PROVE  MailInv' /\ Finishes(a)
  <1> DEFINE ms == IF a.bid > 0 THEN WinningMails(a, 0)
                   ELSE <<AuctionMail(0, a.owner, 0, a.item)>>
             lost == IF a.bid > 0 THEN GetAuctionCut(a.bid) ELSE Deposit
             stmts == <<DeleteAuction(a.item, lost)>>
  <1>1. /\ mailId \in Nat /\ MaxMoney \in Nat /\ Deposit \in Nat /\ Ok(written, mailId)
        /\ Settled(written) /\ written \in WideTables /\ AllGold(written) \in Nat
    BY Now, GoldType
  <1>2. /\ OnlyLot(a) /\ a.bid \in Nat /\ a.item \in Items /\ a.owner \in Players
        /\ a.bid > 0 => a.bidder \in Players
        /\ Roomy => a.bid + Deposit <= MaxMoney
    BY LotFacts
  <1>3. GetAuctionCut(a.bid) \in Nat /\ GetAuctionCut(a.bid) <= a.bid
    BY <1>2, CutFacts
  <1>4. /\ Send(ms) /\ RemoveAuction(a) /\ Conclude(ms, stmts)
        /\ UNCHANGED <<where, has, answer, saved, within>>
    BY DEF Update
  <1>5. PICK n, total : /\ Ends(ms, a, n, total) /\ lost \in Nat
                        /\ total + lost = a.bid + Deposit /\ FinishNotes(a, Range(ms))
    <2>1. CASE a.bid > 0
      <3>1. PICK cut, money : cut = GetAuctionCut(a.bid) /\ money = a.bid + Deposit - cut
        OBVIOUS
      <3>2. money \in Nat /\ (Roomy => money <= MaxMoney) /\ money + cut = a.bid + Deposit
        BY <1>1, <1>2, <1>3, <3>1
      <3>3. ms = <<AuctionMail(0, a.owner, money, None), AuctionMail(1, a.bidder, 0, a.item)>>
        BY <2>1, <3>1 DEF WinningMails
      <3>4. Ends(ms, a, 2, money) /\ TwoNotes(Range(ms), a.owner, money, a.bidder, a.item)
        BY <1>1, <1>2, <2>1, <3>2, <3>3, TwoEnd
      <3>5. FinishNotes(a, Range(ms))
        BY <2>1, <3>1, <3>4 DEF FinishNotes
      <3> QED
        BY <1>3, <2>1, <3>1, <3>2, <3>4, <3>5
    <2>2. CASE ~ (a.bid > 0)
      <3>1. a.bid = 0 /\ lost = Deposit /\ 0 + lost = a.bid + Deposit
        BY <1>1, <1>2, <2>2
      <3>2. ms = <<AuctionMail(0, a.owner, 0, a.item)>>
        BY <2>2
      <3>3. Ends(ms, a, 1, 0) /\ OneNote(Range(ms), a.owner, 0, a.item)
        BY <1>1, <1>2, <3>2, OneEnds
      <3>4. FinishNotes(a, Range(ms))
        BY <2>2, <3>3 DEF FinishNotes
      <3> QED
        BY <1>1, <3>1, <3>3, <3>4
    <2> QED
      BY <2>1, <2>2
  <1> HIDE DEF ms, lost
  <1>6. Lettered(ms) /\ n = Len(ms) /\ n \in Nat /\ total \in Nat
    BY <1>5 DEF Ends
  <1>7. box' = Delivered(box, Range(ms)) /\ mailId' = mailId + n /\ mailId + n <= MaxMails + 1
    BY <1>4, <1>6 DEF Send, CanMail
  <1>8. PICK txns, h : Concluded(txns, h, ms, n, stmts)
    BY <1>4, <1>6, ConcludePages
  <1>9. Sent(h, ms, n, total)
    <2>1. Posting(h, ms, n)
      BY <1>8 DEF Concluded
    <2> QED
      BY <1>5, <2>1 DEF Ends
  <1>10. PICK x : x = Execute(h[n], DeleteAuction(a.item, lost))
    OBVIOUS
  <1>11. written' = x
    BY <1>8, <1>10, ExecuteOne DEF Concluded
  <1>12. /\ Ok(x, mailId + n) /\ x.gold = written.gold
         /\ Holds(x, written.inventory, written.mail \cup Range(ms), written.auction \ {a},
                  written.waste.items)
         /\ AllGold(x) = AllGold(written) + total - a.bid - Deposit + lost
    <2>1. Over(x, ms, n, written.auction \ {a},
               AllGold(written) + total - a.bid - Deposit + lost)
      <3>1. lost \in Nat
        BY <1>5
      <3>2. OnlyLot(a) /\ a.bid \in Nat
        BY <1>2
      <3>3. mailId \in Nat /\ Ok(written, mailId)
        BY <1>1
      <3>4. Lettered(ms) /\ n = Len(ms)
        BY <1>6
      <3> QED
        BY <1>9, <1>10, <3>1, <3>2, <3>3, <3>4, LotDeleted
    <2> QED
      BY <2>1 DEF Over
  <1>13. Settled(x)
    <2>1. Placed(x)
      BY <1>1, <1>2, <1>5, <1>12, EndPlaced DEF OnlyLot
    <2>2. AllGold(x) = AllGold(written)
      <3>1. /\ AllGold(written) \in Nat /\ total \in Nat /\ a.bid \in Nat /\ Deposit \in Nat
            /\ lost \in Nat /\ total + lost = a.bid + Deposit
        BY <1>1, <1>2, <1>5, <1>6
      <3>2. AllGold(x) = AllGold(written) + total - a.bid - Deposit + lost
        BY <1>12
      <3> QED
        BY <3>1, <3>2
    <2> QED
      BY <1>1, <2>1, <2>2 DEF Settled, Placed
  <1>14. Others(None)
    BY <1>4, <1>11, <1>12 DEF Others, Kept, Holds
  <1>15. Sales'
    BY <1>2, <1>4, <1>11, <1>12, NoLotLeft DEF Before, Holds
  <1>16. has' \in [Players -> [gold : 0 .. MaxMoney, items : SUBSET Items]]
    BY <1>4 DEF Before, Shape
  <1>17. /\ None \notin Players /\ written'.mail = written.mail \cup Range(ms)
         /\ Ok(written', mailId') /\ Settled(written')
    BY <1>7, <1>11, <1>12, <1>13, TablesAssumption DEF Holds
  <1>18. MailInv'
    BY <1>4, <1>6, <1>7, <1>8, <1>14, <1>15, <1>16, <1>17, AuctionStep
  <1>19. Removes(a, written.gold, Range(ms))
    BY <1>11, <1>12 DEF Holds, Removes, Change
  <1> QED
    BY <1>5, <1>18, <1>19 DEF Finishes

-----------------------------------------------------------------------------
(***************************************************************************)
(* The auction handlers of a player, who pays as well.                     *)
(***************************************************************************)
LEMMA NothingFirst ==
  ASSUME NEW s, NEW S, s \in Seq(S)
  PROVE  <<>> \o s = s
  BY ConcatEmptySeq

\* The tables x once p has the gold g, and paid a fee.
Paid(x, p, g, ms, n, sales, gold) ==
    /\ Ok(x, mailId + n) /\ x.gold = [written.gold EXCEPT ![p] = g] /\ AllGold(x) = gold
    /\ Holds(x, written.inventory, written.mail \cup Range(ms), sales, written.waste.items)

LEMMA GoldPaid ==
  ASSUME NEW x, NEW ms, NEW n, NEW sales, NEW gold, Over(x, ms, n, sales, gold),
         NEW p \in Players, NEW g \in 0 .. MaxMoney, NEW fee \in Nat,
         NEW y, y = Execute(x, SaveGold(p, g, fee))
  PROVE  Paid(y, p, g, ms, n, sales, gold - written.gold[p] + g + fee)
  <1>1. PICK next : next = mailId + n
    OBVIOUS
  <1>2. /\ Ok(x, next) /\ x.gold = written.gold /\ AllGold(x) = gold
        /\ x.inventory = written.inventory /\ x.mail = written.mail \cup Range(ms)
        /\ x.auction = sales /\ x.waste.items = written.waste.items
    BY <1>1 DEF Over, Holds
  <1>3. /\ Ok(y, next) /\ y.gold = [x.gold EXCEPT ![p] = g]
        /\ y.inventory = x.inventory /\ y.mail = x.mail /\ y.auction = x.auction
        /\ y.waste.items = x.waste.items
        /\ AllGold(y) = AllGold(x) - x.gold[p] + g + fee
    BY <1>2, StateGold
  <1>4. AllGold(y) = gold - written.gold[p] + g + fee
    BY <1>2, <1>3
  <1>5. Holds(y, written.inventory, written.mail \cup Range(ms), sales, written.waste.items)
    BY <1>2, <1>3 DEF Holds
  <1>6. Ok(y, mailId + n)
    BY <1>1, <1>3
  <1>7. y.gold = [written.gold EXCEPT ![p] = g]
    BY <1>2, <1>3
  <1> QED
    BY <1>4, <1>5, <1>6, <1>7 DEF Paid

LEMMA PayingStep ==
  ASSUME NEW db, Before(db), NEW p \in Players, where[p] = "online",
         NEW g \in 0 .. MaxMoney, has' = [has EXCEPT ![p].gold = g],
         NEW ms, Lettered(ms), NEW n, n = Len(ms), Send(ms),
         NEW txns, NEW h, NEW stmts, Concluded(txns, h, ms, n, stmts),
         UNCHANGED <<where, answer, saved, within>>,
         NEW sales, NEW gold, Paid(written', p, g, ms, n, sales, gold),
         gold = AllGold(written), Placed(written'), Sales'
  PROVE  MailInv'
  <1>1. PICK x : x = written'
    OBVIOUS
  <1>2. /\ Ok(x, mailId + n) /\ x.gold = [written.gold EXCEPT ![p] = g] /\ AllGold(x) = gold
        /\ x.inventory = written.inventory /\ x.mail = written.mail \cup Range(ms)
    BY <1>1 DEF Paid, Holds
  <1>3. box' = Delivered(box, Range(ms)) /\ mailId' = mailId + n /\ mailId + n <= MaxMails + 1
    BY DEF Send, CanMail
  <1>4. /\ Settled(written) /\ HasOk(p) /\ has[p].items \in SUBSET Items
        /\ written.gold \in [Players -> 0 .. MaxMoney]
    BY Now, TablesFacts
  <1>5. Settled(x)
    BY <1>1, <1>2, <1>4 DEF Settled, Placed
  <1>6. /\ has' \in [Players -> [gold : 0 .. MaxMoney, items : SUBSET Items]]
        /\ has'[p].gold = g /\ has'[p].items = has[p].items
        /\ \A r \in Players : r # p => has'[r] = has[r]
    <2>1. Shape
      BY DEF Before
    <2>2. HasBecomes(p, g, has[p].items)
      BY <2>1, HasGold DEF HasBecomes
    <2> QED
      BY <1>4, <2>1, <2>2, HasTyped
  <1>7. Others(p)
    <2> SUFFICES ASSUME NEW q \in Players, q # p
                 PROVE  where'[q] = where[q] /\ has'[q] = has[q] /\ Kept(written, x, q)
      BY <1>1 DEF Others
    <2>1. x.gold[q] = written.gold[q]
      BY <1>2, <1>4
    <2> QED
      BY <1>2, <1>6, <2>1 DEF Kept
  <1>8. HasOk(p)'
    <2>1. x.gold[p] = g /\ x.inventory[p] = written.inventory[p]
      BY <1>2, <1>4
    <2>2. has[p].items = written.inventory[p] /\ where'[p] = "online"
      BY <1>4 DEF HasOk
    <2>3. has'[p].gold = written'.gold[p] /\ has'[p].items = written'.inventory[p]
      BY <1>1, <1>6, <2>1, <2>2
    <2> QED
      BY <2>2, <2>3 DEF HasOk
  <1>9. Ok(written', mailId') /\ Settled(written') /\ written'.mail = written.mail \cup Range(ms)
    BY <1>1, <1>2, <1>3, <1>5
  <1> QED
    BY <1>3, <1>6, <1>7, <1>8, <1>9, AuctionStep

LEMMA RemoveItemStep ==
  ASSUME NEW db, Before(db), NEW p \in Players, NEW a \in auctions, HandleAuctionRemoveItem(p, a)
  PROVE  MailInv' /\ Cancels(p, a)
  <1> DEFINE cut == GetAuctionCut(a.bid)
             g == ModifyMoney(has[p].gold, -cut)
             ms == CancelledMails(p, a)
             stmts == <<DeleteAuction(a.item, Deposit), SaveGold(p, g, cut)>>
  <1>1. /\ mailId \in Nat /\ MaxMoney \in Nat /\ Deposit \in Nat /\ Ok(written, mailId)
        /\ Settled(written) /\ AllGold(written) \in Nat /\ HasOk(p)
        /\ has[p].gold \in 0 .. MaxMoney
    BY Now, GoldType
  <1>2. /\ OnlyLot(a) /\ a.bid \in Nat /\ a.item \in Items
        /\ a.bid > 0 => a.bidder \in Players
        /\ Roomy => a.bid + Deposit <= MaxMoney
    BY LotFacts
  <1>3. cut \in Nat /\ cut <= a.bid
    BY <1>2, CutFacts
  <1>4. /\ where[p] = "online" /\ a.owner = p /\ (a.bid > 0 => has[p].gold >= cut)
        /\ has' = [has EXCEPT ![p].gold = g]
        /\ Send(ms) /\ RemoveAuction(a) /\ Conclude(ms, stmts)
        /\ UNCHANGED <<where, answer, saved, within>>
    BY DEF HandleAuctionRemoveItem
  <1>5. has[p].gold = written.gold[p]
    BY <1>1, <1>4 DEF HasOk
  <1> HIDE DEF cut
  <1>6. cut <= has[p].gold
    BY <1>1, <1>2, <1>3, <1>4
  <1>7. g \in 0 .. MaxMoney /\ g = has[p].gold - cut
    BY <1>1, <1>3, <1>6, Spend
  <1>8. PICK n : Ends(ms, a, n, a.bid) /\ CancelNotes(p, a, Range(ms))
    <2>1. CASE a.bid > 0
      <3>1. PICK x, y : x = AuctionMail(0, a.bidder, a.bid, None) /\ y = AuctionMail(1, p, 0, a.item)
        OBVIOUS
      <3>2. ms = <<x>> \o <<y>>
        <4>1. Len(<<x>>) = 1
          OBVIOUS
        <4> QED
          BY <2>1, <3>1, <4>1 DEF CancelledMails
      <3>3. ms = <<AuctionMail(0, a.bidder, a.bid, None), AuctionMail(1, p, 0, a.item)>>
        BY <3>1, <3>2, TwoInARow
      <3>4. (Roomy => a.bid <= MaxMoney) /\ a.bidder \in Players
        BY <1>1, <1>2, <2>1
      <3>5. Ends(ms, a, 2, a.bid) /\ TwoNotes(Range(ms), a.bidder, a.bid, p, a.item)
        BY <1>1, <1>2, <3>3, <3>4, TwoEnd
      <3>6. CancelNotes(p, a, Range(ms))
        BY <2>1, <3>5 DEF CancelNotes
      <3> QED
        BY <3>5, <3>6
    <2>2. CASE ~ (a.bid > 0)
      <3>1. a.bid = 0
        BY <1>2, <2>2
      <3>2. PICK y : y = AuctionMail(0, p, 0, a.item)
        OBVIOUS
      <3>3. ms = <<>> \o <<y>>
        <4>1. Len(<<>>) = 0
          OBVIOUS
        <4> QED
          BY <2>2, <3>2, <4>1 DEF CancelledMails
      <3>4. <<>> \o <<y>> = <<y>>
        <4>1. <<y>> \in Seq({y})
          OBVIOUS
        <4> QED
          BY <4>1, NothingFirst
      <3>5. Ends(ms, a, 1, 0) /\ OneNote(Range(ms), p, 0, a.item)
        BY <1>1, <1>2, <3>2, <3>3, <3>4, OneEnds
      <3>6. CancelNotes(p, a, Range(ms))
        BY <2>2, <3>5 DEF CancelNotes
      <3> QED
        BY <3>1, <3>5, <3>6
    <2> QED
      BY <2>1, <2>2
  <1> HIDE DEF ms, g
  <1>9. Lettered(ms) /\ n = Len(ms) /\ n \in Nat
    BY <1>8 DEF Ends
  <1>10. PICK txns, h : Concluded(txns, h, ms, n, stmts)
    BY <1>4, <1>9, ConcludePages
  <1>11. Sent(h, ms, n, a.bid)
    <2>1. Posting(h, ms, n)
      BY <1>10 DEF Concluded
    <2> QED
      BY <1>8, <2>1 DEF Ends
  <1>12. PICK x : x = Execute(h[n], DeleteAuction(a.item, Deposit))
    OBVIOUS
  <1>13. PICK y : y = Execute(x, SaveGold(p, g, cut))
    OBVIOUS
  <1>14. written' = y
    BY <1>10, <1>12, <1>13, ExecuteTwo DEF Concluded
  <1>15. PICK sales, total : /\ sales = written.auction \ {a}
                             /\ total = AllGold(written) + a.bid - a.bid - Deposit + Deposit
    OBVIOUS
  <1>16. Over(x, ms, n, sales, total)
    <2>1. Over(x, ms, n, written.auction \ {a},
               AllGold(written) + a.bid - a.bid - Deposit + Deposit)
      BY <1>1, <1>2, <1>9, <1>11, <1>12, LotDeleted
    <2> QED
      BY <1>15, <2>1
  <1>17. PICK gold : gold = total - written.gold[p] + g + cut
    OBVIOUS
  <1>18. Paid(y, p, g, ms, n, sales, gold)
    BY <1>3, <1>7, <1>13, <1>16, <1>17, GoldPaid
  <1>19. gold = AllGold(written)
    BY <1>1, <1>2, <1>3, <1>5, <1>7, <1>15, <1>17
  <1>20. Placed(written') /\ Sales'
    <2>1. Holds(y, written.inventory, written.mail \cup Range(ms), written.auction \ {a},
                written.waste.items)
      BY <1>15, <1>18 DEF Paid
    <2>2. Placed(y)
      BY <1>1, <1>2, <1>8, <2>1, EndPlaced DEF OnlyLot
    <2>3. written'.auction = written.auction \ {a}
      BY <1>14, <2>1 DEF Holds
    <2>4. Sales'
      BY <1>2, <1>4, <2>3, NoLotLeft DEF Before
    <2> QED
      BY <1>14, <2>2, <2>4
  <1>21. Paid(written', p, g, ms, n, sales, gold)
    BY <1>14, <1>18
  <1>22. MailInv'
    BY <1>4, <1>7, <1>9, <1>10, <1>19, <1>20, <1>21, PayingStep
  <1>23. Removes(a, [written.gold EXCEPT ![p] = written.gold[p] - cut], Range(ms))
    BY <1>5, <1>7, <1>15, <1>21 DEF Paid, Holds, Removes, Change
  <1> QED
    BY <1>4, <1>5, <1>6, <1>8, <1>22, <1>23 DEF Cancels, cut

\* The letters ms without items bring total gold.
Repays(ms, n, total) ==
    /\ Lettered(ms) /\ n = Len(ms) /\ n \in Nat /\ total \in Nat
    /\ \A m \in Range(ms) : m.item = None
    /\ \A h : Posting(h, ms, n) => Sent(h, ms, n, total)

LEMMA NoneRepays ==
  ASSUME mailId \in Nat, Ok(written, mailId), NEW ms, ms = <<>>
  PROVE  Repays(ms, 0, 0)
  <1>1. /\ Lettered(ms) /\ Len(ms) = 0 /\ Range(ms) = {}
        /\ \A h : Posting(h, ms, 0) => Sent(h, ms, 0, 0)
    BY NoLetter
  <1> QED
    BY <1>1 DEF Repays

LEMMA OneRepays ==
  ASSUME mailId \in Nat, Ok(written, mailId), NEW to \in Players, NEW money \in Nat,
         Roomy => money <= MaxMoney, NEW ms, ms = <<AuctionMail(0, to, money, None)>>
  PROVE  Repays(ms, 1, money) /\ OneNote(Range(ms), to, money, None)
  <1>1. PICK x : x = AuctionMail(0, to, money, None)
    OBVIOUS
  <1>2. /\ Fresh(x, mailId) /\ x.money = money /\ x.item = None
        /\ Note(x, mailId, to, money, None)
    <2>1. 0 \in Nat /\ mailId + 0 = mailId
      OBVIOUS
    <2>2. /\ Fresh(x, mailId + 0) /\ x.money = money /\ x.item = None
          /\ Note(x, mailId + 0, to, money, None)
      BY <1>1, <2>1, AuctionLetter
    <2> QED
      BY <2>1, <2>2
  <1>3. ms = <<x>>
    BY <1>1
  <1>4. /\ Lettered(ms) /\ Len(ms) = 1 /\ Range(ms) = {x}
        /\ \A h : Posting(h, ms, 1) => Sent(h, ms, 1, x.money)
    BY <1>2, <1>3, OneLetter
  <1> QED
    BY <1>2, <1>4 DEF Repays, OneNote

LEMMA ThreeEnd ==
  ASSUME mailId \in Nat, Ok(written, mailId), NEW a, a.item \in Items,
         NEW r \in Players, NEW back \in Nat, Roomy => back <= MaxMoney,
         NEW p \in Players, NEW q \in Players, NEW money \in Nat, Roomy => money <= MaxMoney,
         NEW ms, ms = <<AuctionMail(0, r, back, None), AuctionMail(1, p, money, None),
                        AuctionMail(2, q, 0, a.item)>>
  PROVE  /\ Ends(ms, a, 3, back + money)
         /\ ThreeNotes(Range(ms), r, back, p, money, q, a.item)
  <1>1. PICK x, y, z : /\ x = AuctionMail(0, r, back, None) /\ y = AuctionMail(1, p, money, None)
                       /\ z = AuctionMail(2, q, 0, a.item)
    OBVIOUS
  <1>2. /\ Fresh(x, mailId) /\ x.money = back /\ x.item = None
        /\ Note(x, mailId, r, back, None)
    <2>1. /\ 0 \in Nat /\ mailId + 0 = mailId /\ None \in Items \cup {None}
          /\ x = AuctionMail(0, r, back, None)
      BY <1>1
    <2>2. /\ Fresh(x, mailId + 0) /\ x.money = back /\ x.item = None
          /\ Note(x, mailId + 0, r, back, None)
      BY <2>1, AuctionLetter, SMTT(30)
    <2> QED
      BY <2>1, <2>2
  <1>3. /\ Fresh(y, mailId + 1) /\ y.money = money /\ y.item = None
        /\ Note(y, mailId + 1, p, money, None)
    <2>1. 1 \in Nat /\ None \in Items \cup {None} /\ y = AuctionMail(1, p, money, None)
      BY <1>1
    <2> QED
      BY <2>1, AuctionLetter, SMTT(30)
  <1>4. /\ Fresh(z, mailId + 2) /\ z.money = 0 /\ z.item = a.item
        /\ Note(z, mailId + 2, q, 0, a.item)
    <2>1. 0 \in Nat /\ 2 \in Nat /\ (Roomy => 0 <= MaxMoney)
      BY TablesAssumption
    <2> QED
      BY <1>1, <2>1, AuctionLetter
  <1>5. ms = <<x, y, z>>
    BY <1>1
  <1>6. /\ Lettered(ms) /\ Len(ms) = 3 /\ Range(ms) = {x, y, z}
        /\ \A h : Posting(h, ms, 3) => Sent(h, ms, 3, x.money + y.money + z.money)
    BY <1>2, <1>3, <1>4, <1>5, ThreeLetters
  <1>7. x.money + y.money + z.money = back + money
    BY <1>2, <1>3, <1>4
  <1> QED
    BY <1>2, <1>3, <1>4, <1>6, <1>7 DEF Ends, ThreeNotes

\* The bid of p on the lot a raises it to e; diff is what p pays, back what is repaid.
Bidding(p, a, price, bid, diff, back, e) ==
    /\ bid = IF a.buyout > 0 /\ price > a.buyout THEN a.buyout ELSE price
    /\ diff = IF a.bidder = p THEN bid - a.bid ELSE bid
    /\ back = IF a.bidder \in {None, p} THEN 0 ELSE a.bid
    /\ e = [a EXCEPT !.bidder = p, !.bid = bid]

\* What it makes of the tables: the lot is raised, or removed.
Affords(p, a, bid) == bid \in Nat /\ a.bid < bid /\ bid <= written.gold[p]
Bids(p, a, bid) == a.owner # p /\ Affords(p, a, bid)
Rest(p, a, bid) ==
    [written.gold EXCEPT ![p] = written.gold[p] - (IF a.bidder = p THEN bid - a.bid ELSE bid)]

RaiseNotes(p, a, ms) ==
    IF a.bidder \in {None, p} THEN ms = {} ELSE OneNote(ms, a.bidder, a.bid, None)
Raises(p, a, bid) ==
    \E ms, e : /\ RaiseNotes(p, a, ms) /\ e = [a EXCEPT !.bidder = p, !.bid = bid]
              /\ Change(Rest(p, a, bid), written.inventory, written.mail \cup ms,
                        (written.auction \ {a}) \cup {e})

BuyoutNotes(p, a, bid, ms) ==
    \E price : /\ price = bid + Deposit - GetAuctionCut(bid)
              /\ IF a.bidder \in {None, p}
                 THEN TwoNotes(ms, a.owner, price, p, a.item)
                 ELSE ThreeNotes(ms, a.bidder, a.bid, a.owner, price, p, a.item)
Buys(p, a, bid) == \E ms : BuyoutNotes(p, a, bid, ms) /\ Removes(a, Rest(p, a, bid), ms)

LEMMA BiddingFacts ==
  ASSUME NEW a \in Auctions, AuctionOk(a), NEW p \in Players, NEW price \in Prices, price > a.bid,
         NEW bid, NEW diff, NEW back, NEW e, Bidding(p, a, price, bid, diff, back, e)
  PROVE  /\ bid \in 0 .. MaxMoney /\ bid > a.bid /\ bid <= price
         /\ diff \in Nat /\ diff <= bid /\ back \in Nat /\ back <= a.bid
         /\ back + bid = a.bid + diff
         /\ e \in Auctions /\ e.item = a.item /\ e.bid = bid /\ e.bidder = p /\ e.owner = a.owner
         /\ (bid < a.buyout \/ a.buyout = 0) => AuctionOk(e)
  <1>1. /\ a.bid \in 0 .. MaxMoney /\ a.buyout \in 0 .. MaxMoney /\ price \in 1 .. MaxMoney
        /\ MaxMoney \in Nat /\ None \notin Players
    BY AuctionAssumption, TablesAssumption DEF Auctions
  <1>2. (a.buyout > 0 => a.bid < a.buyout) /\ (a.bidder = None => a.bid = 0)
    BY DEF AuctionOk
  <1>3. bid \in 0 .. MaxMoney /\ bid > a.bid /\ bid <= price
    BY <1>1, <1>2 DEF Bidding
  <1>4. /\ diff \in Nat /\ diff <= bid /\ back \in Nat /\ back <= a.bid
        /\ back + bid = a.bid + diff
    BY <1>1, <1>2, <1>3 DEF Bidding
  <1>5. /\ e \in Auctions /\ e.item = a.item /\ e.bid = bid /\ e.bidder = p /\ e.owner = a.owner
        /\ e.buyout = a.buyout
    <2>1. PICK c : c = [a EXCEPT !.bidder = p]
      OBVIOUS
    <2>2. /\ c \in Auctions /\ c.item = a.item /\ c.bidder = p /\ c.owner = a.owner
          /\ c.buyout = a.buyout
      BY <2>1 DEF Auctions
    <2>3. e = [c EXCEPT !.bid = bid]
      BY <2>1 DEF Bidding
    <2> QED
      BY <1>3, <2>2, <2>3 DEF Auctions
  <1>6. (bid < a.buyout \/ a.buyout = 0) => AuctionOk(e)
    BY <1>1, <1>3, <1>5 DEF AuctionOk
  <1> QED
    BY <1>3, <1>4, <1>5, <1>6

LEMMA OutbidRepays ==
  ASSUME mailId \in Nat, Ok(written, mailId), NEW a, a.bid \in Nat,
         a.bidder # None => a.bidder \in Players, Roomy => a.bid <= MaxMoney,
         NEW p, NEW back, back = IF a.bidder \in {None, p} THEN 0 ELSE a.bid
  PROVE  /\ \E n : Repays(OutbiddedMail(a, p), n, back)
         /\ RaiseNotes(p, a, Range(OutbiddedMail(a, p)))
  <1>1. CASE a.bidder \in {None, p}
    <2>1. OutbiddedMail(a, p) = <<>> /\ back = 0
      BY <1>1 DEF OutbiddedMail
    <2> QED
      BY <1>1, <2>1, NoneRepays, NoLetter DEF RaiseNotes
  <1>2. CASE a.bidder \notin {None, p}
    <2>1. /\ OutbiddedMail(a, p) = <<AuctionMail(0, a.bidder, a.bid, None)>>
          /\ back = a.bid /\ a.bidder \in Players
      BY <1>2 DEF OutbiddedMail
    <2> QED
      BY <1>2, <2>1, OneRepays DEF RaiseNotes
  <1> QED
    BY <1>1, <1>2

LEMMA RaiseStep ==
  ASSUME NEW db, Before(db), NEW p \in Players, NEW a \in auctions, NEW price \in Prices,
         NEW bid, NEW diff, NEW back, NEW e, Bidding(p, a, price, bid, diff, back, e),
         where[p] = "online", price > a.bid, price <= has[p].gold,
         NEW g, g = ModifyMoney(has[p].gold, -diff), has' = [has EXCEPT ![p].gold = g],
         bid < a.buyout \/ a.buyout = 0,
         NEW ms, ms = OutbiddedMail(a, p), Send(ms),
         auctions' = (auctions \ {a}) \cup {e}, aitems' = aitems,
         Conclude(ms, <<UpdateAuction(e), SaveGold(p, g, 0)>>),
         UNCHANGED <<where, answer, saved, within>>
  PROVE  MailInv' /\ Raises(p, a, bid) /\ Affords(p, a, bid)
  <1> DEFINE stmts == <<UpdateAuction(e), SaveGold(p, g, 0)>>
  <1>1. /\ mailId \in Nat /\ MaxMoney \in Nat /\ Deposit \in Nat /\ Ok(written, mailId)
        /\ Settled(written) /\ AllGold(written) \in Nat /\ HasOk(p)
        /\ has[p].gold \in 0 .. MaxMoney
    BY Now, GoldType
  <1>2. /\ a \in Auctions /\ AuctionOk(a) /\ OnlyLot(a) /\ a.bid \in Nat /\ a.item \in Items
        /\ a.bidder # None => a.bidder \in Players
        /\ Roomy => a.bid + Deposit <= MaxMoney
    BY LotFacts
  <1>3. /\ bid \in 0 .. MaxMoney /\ bid <= price /\ a.bid < bid
        /\ diff \in Nat /\ diff <= bid /\ back \in Nat /\ back + bid = a.bid + diff
        /\ e \in Auctions /\ e.item = a.item /\ e.bid = bid /\ AuctionOk(e)
    BY <1>2, BiddingFacts
  <1>4. has[p].gold = written.gold[p]
    BY <1>1 DEF HasOk
  <1>5. g \in 0 .. MaxMoney /\ g = has[p].gold - diff
    <2>1. diff <= has[p].gold
      <3>1. price \in Int
        BY AuctionAssumption
      <3> QED
        BY <1>1, <1>3, <3>1
    <2> QED
      BY <1>1, <1>3, <2>1, Spend
  <1>6. PICK n : Repays(ms, n, back) /\ RaiseNotes(p, a, Range(ms))
    <2>1. Roomy => a.bid <= MaxMoney
      BY <1>1, <1>2
    <2>2. back = IF a.bidder \in {None, p} THEN 0 ELSE a.bid
      BY DEF Bidding
    <2> QED
      BY <1>1, <1>2, <2>1, <2>2, OutbidRepays
  <1>7. Lettered(ms) /\ n = Len(ms) /\ n \in Nat
    BY <1>6 DEF Repays
  <1>8. PICK txns, h : Concluded(txns, h, ms, n, stmts)
    BY <1>7, ConcludePages
  <1>9. Sent(h, ms, n, back)
    <2>1. Posting(h, ms, n)
      BY <1>8 DEF Concluded
    <2> QED
      BY <1>6, <2>1 DEF Repays
  <1>10. PICK x : x = Execute(h[n], UpdateAuction(e))
    OBVIOUS
  <1>11. PICK y : y = Execute(x, SaveGold(p, g, 0))
    OBVIOUS
  <1>12. written' = y
    BY <1>8, <1>10, <1>11, ExecuteTwo DEF Concluded
  <1>13. PICK sales, total : /\ sales = (written.auction \ {a}) \cup {e}
                             /\ total = AllGold(written) + back - a.bid + e.bid
    OBVIOUS
  <1>14. Over(x, ms, n, sales, total)
    <2>1. Over(x, ms, n, (written.auction \ {a}) \cup {e},
               AllGold(written) + back - a.bid + e.bid)
      BY <1>1, <1>2, <1>3, <1>7, <1>9, <1>10, LotRaised
    <2> QED
      BY <1>13, <2>1
  <1>15. PICK gold : gold = total - written.gold[p] + g + 0
    OBVIOUS
  <1>16. Paid(y, p, g, ms, n, sales, gold)
    <2>1. 0 \in Nat
      OBVIOUS
    <2> QED
      BY <1>5, <1>11, <1>14, <1>15, <2>1, GoldPaid
  <1>17. gold = AllGold(written)
    BY <1>1, <1>2, <1>3, <1>4, <1>5, <1>13, <1>15
  <1>18. Placed(written') /\ Sales'
    <2>1. PICK s : s = Range(ms) /\ \A m \in s : m.item = None
      BY <1>6 DEF Repays
    <2>2. Holds(y, written.inventory, written.mail \cup s, (written.auction \ {a}) \cup {e},
                written.waste.items)
      BY <1>13, <1>16, <2>1 DEF Paid
    <2>3. Placed(written)
      BY <1>1 DEF Settled, Placed
    <2>4. a \in written.auction
      BY <1>2 DEF OnlyLot
    <2>5. Placed(y)
      BY <1>3, <2>1, <2>2, <2>3, <2>4, PlacedBid
    <2>6. Sales'
      <3>1. auctions = written.auction /\ aitems = {l.item : l \in auctions}
        BY DEF Before, Sales
      <3>2. auctions' = written'.auction
        BY <1>12, <2>2, <3>1 DEF Holds
      <3>3. aitems' = {l.item : l \in auctions'}
        BY <1>3, <3>1
      <3> QED
        BY <3>2, <3>3 DEF Sales
    <2> QED
      BY <1>12, <2>5, <2>6
  <1>19. Paid(written', p, g, ms, n, sales, gold)
    BY <1>12, <1>16
  <1>20. MailInv'
    BY <1>5, <1>7, <1>8, <1>17, <1>18, <1>19, PayingStep
  <1>21. Change([written.gold EXCEPT ![p] = g], written.inventory, written.mail \cup Range(ms),
                (written.auction \ {a}) \cup {e})
    BY <1>13, <1>19 DEF Paid, Holds, Change
  <1>22. [written.gold EXCEPT ![p] = g] = Rest(p, a, bid) /\ e = [a EXCEPT !.bidder = p, !.bid = bid]
    BY <1>4, <1>5 DEF Bidding, Rest
  <1>23. Raises(p, a, bid)
    <2>1. PICK notes : notes = Range(ms)
      OBVIOUS
    <2>2. /\ RaiseNotes(p, a, notes)
          /\ Change(Rest(p, a, bid), written.inventory, written.mail \cup notes,
                    (written.auction \ {a}) \cup {e})
      BY <1>6, <1>21, <1>22, <2>1
    <2> QED
      BY <1>22, <2>2 DEF Raises
  <1>24. bid \in Nat /\ bid <= written.gold[p]
    <2>1. price \in Int
      BY AuctionAssumption
    <2> QED
      BY <1>1, <1>3, <1>4, <2>1
  <1> QED
    BY <1>3, <1>20, <1>23, <1>24 DEF Affords

\* The buyer pays d, the last bidder is repaid w, and the seller gets the rest.
SumsUp(G, b, D, o, d, w, c) == G + (w + (b + D - c)) - o - D + c = G + d

LEMMA BuyoutSum ==
  ASSUME NEW G \in Nat, NEW b \in Nat, NEW D \in Nat, NEW o \in Nat, NEW d \in Nat,
         NEW w \in Nat, NEW c \in Nat, w + b = o + d
  PROVE  SumsUp(G, b, D, o, d, w, c)
  BY DEF SumsUp

LEMMA BuyoutStep ==
  ASSUME NEW db, Before(db), NEW p \in Players, NEW a \in auctions, NEW price \in Prices,
         NEW bid, NEW diff, NEW back, NEW e, Bidding(p, a, price, bid, diff, back, e),
         where[p] = "online", price > a.bid, price <= has[p].gold,
         NEW g, g = ModifyMoney(has[p].gold, -diff), has' = [has EXCEPT ![p].gold = g],
         NEW out, out = OutbiddedMail(a, p), NEW ms, ms = out \o WinningMails(e, Len(out)), Send(ms),
         RemoveAuction(a),
         Conclude(ms, <<DeleteAuction(a.item, GetAuctionCut(bid)), SaveGold(p, g, 0)>>),
         UNCHANGED <<where, answer, saved, within>>
  PROVE  MailInv' /\ Buys(p, a, bid) /\ Affords(p, a, bid)
  <1> DEFINE cut == GetAuctionCut(bid)
             stmts == <<DeleteAuction(a.item, cut), SaveGold(p, g, 0)>>
  <1>1. /\ mailId \in Nat /\ MaxMoney \in Nat /\ Deposit \in Nat /\ Ok(written, mailId)
        /\ Settled(written) /\ AllGold(written) \in Nat /\ HasOk(p)
        /\ has[p].gold \in 0 .. MaxMoney
    BY Now, GoldType
  <1>2. /\ a \in Auctions /\ AuctionOk(a) /\ OnlyLot(a) /\ a.bid \in Nat /\ a.item \in Items
        /\ a.owner \in Players
        /\ a.bidder # None => a.bidder \in Players
        /\ Roomy => a.bid + Deposit <= MaxMoney
    BY LotFacts
  <1>3. /\ bid \in 0 .. MaxMoney /\ bid <= price /\ bid <= has[p].gold /\ a.bid < bid
        /\ diff \in Nat /\ diff <= bid /\ back \in Nat /\ back + bid = a.bid + diff
        /\ e.item = a.item /\ e.bid = bid /\ e.bidder = p /\ e.owner = a.owner
    <2>1. /\ bid \in 0 .. MaxMoney /\ bid <= price /\ a.bid < bid
          /\ diff \in Nat /\ diff <= bid /\ back \in Nat /\ back + bid = a.bid + diff
          /\ e.item = a.item /\ e.bid = bid /\ e.bidder = p /\ e.owner = a.owner
      BY <1>2, BiddingFacts
    <2>2. price \in Int
      BY AuctionAssumption
    <2> QED
      BY <1>1, <2>1, <2>2
  <1>4. has[p].gold = written.gold[p]
    BY <1>1 DEF HasOk
  <1>5. g \in 0 .. MaxMoney /\ g = has[p].gold - diff
    <2>1. diff <= has[p].gold
      BY <1>1, <1>3
    <2> QED
      BY <1>1, <1>3, <2>1, Spend
  <1>6. cut \in Nat /\ cut <= bid
    BY <1>3, CutFacts
  <1> HIDE DEF cut
  <1>7. PICK money : money = bid + Deposit - cut
    OBVIOUS
  <1>8. money \in Nat /\ (Roomy => money <= MaxMoney)
    <2>1. Roomy => has[p].gold + a.bid + Deposit <= MaxMoney
      BY LotFacts
    <2>2. /\ MaxMoney \in Nat /\ a.bid \in Nat /\ Deposit \in Nat /\ bid \in Nat
          /\ cut \in Nat /\ has[p].gold \in Nat /\ bid <= has[p].gold /\ cut <= bid
      BY <1>1, <1>2, <1>3, <1>6
    <2>3. money \in Nat /\ money <= has[p].gold + Deposit
      BY <1>7, <2>2
    <2>4. Roomy => money <= MaxMoney
      <3> SUFFICES ASSUME Roomy PROVE money <= MaxMoney
        OBVIOUS
      <3>1. has[p].gold + a.bid + Deposit <= MaxMoney
        BY <2>1
      <3> QED
        BY <2>2, <2>3, <3>1
    <2> QED
      BY <2>3, <2>4
  <1>9. PICK n : Ends(ms, a, n, back + money) /\ BuyoutNotes(p, a, bid, Range(ms))
    <2>1. /\ WinningMails(e, 0) = <<AuctionMail(0, a.owner, money, None), AuctionMail(1, p, 0, a.item)>>
          /\ WinningMails(e, 1) = <<AuctionMail(1, a.owner, money, None), AuctionMail(2, p, 0, a.item)>>
      BY <1>3, <1>7 DEF WinningMails, cut
    <2>2. CASE a.bidder \in {None, p}
      <3>1. out = <<>> /\ back = 0
        BY <2>2 DEF OutbiddedMail, Bidding
      <3>2. ms = <<>> \o WinningMails(e, 0)
        BY <3>1
      <3>3. PICK x, y : x = AuctionMail(0, a.owner, money, None) /\ y = AuctionMail(1, p, 0, a.item)
        OBVIOUS
      <3>4. WinningMails(e, 0) = <<x, y>>
        BY <2>1, <3>3
      <3>5. ms = <<x, y>>
        <4>1. <<x, y>> \in Seq({x, y})
          OBVIOUS
        <4> QED
          BY <3>2, <3>4, <4>1, NothingFirst
      <3>6. Ends(ms, a, 2, money) /\ TwoNotes(Range(ms), a.owner, money, p, a.item)
        BY <1>1, <1>2, <1>8, <3>3, <3>5, TwoEnd
      <3>7. back + money = money
        BY <1>8, <3>1
      <3>8. BuyoutNotes(p, a, bid, Range(ms))
        BY <1>7, <2>2, <3>6 DEF BuyoutNotes, cut
      <3> QED
        BY <3>6, <3>7, <3>8
    <2>3. CASE a.bidder \notin {None, p}
      <3>1. /\ out = <<AuctionMail(0, a.bidder, a.bid, None)>> /\ back = a.bid
            /\ a.bidder \in Players
        BY <1>2, <2>3 DEF OutbiddedMail, Bidding
      <3>2. PICK x, y, z : /\ x = AuctionMail(0, a.bidder, back, None)
                           /\ y = AuctionMail(1, a.owner, money, None)
                           /\ z = AuctionMail(2, p, 0, a.item)
        OBVIOUS
      <3>3. out = <<x>> /\ Len(out) = 1
        BY <3>1, <3>2
      <3>4. ms = <<x>> \o <<y, z>>
        BY <2>1, <3>2, <3>3
      <3>5. ms = <<x, y, z>>
        BY <3>4, ThreeInARow
      <3>6. Roomy => back <= MaxMoney
        BY <1>1, <1>2, <3>1
      <3>7. /\ Ends(ms, a, 3, back + money)
            /\ ThreeNotes(Range(ms), a.bidder, back, a.owner, money, p, a.item)
        <4>1. ms = <<AuctionMail(0, a.bidder, back, None), AuctionMail(1, a.owner, money, None),
                     AuctionMail(2, p, 0, a.item)>>
          BY <3>2, <3>5
        <4> QED
          BY <1>1, <1>2, <1>3, <1>8, <3>1, <3>6, <4>1, ThreeEnd
      <3>8. BuyoutNotes(p, a, bid, Range(ms))
        BY <1>7, <2>3, <3>1, <3>7 DEF BuyoutNotes, cut
      <3> QED
        BY <3>7, <3>8
    <2> QED
      BY <2>2, <2>3
  <1>10. Lettered(ms) /\ n = Len(ms) /\ n \in Nat
    BY <1>9 DEF Ends
  <1>11. PICK txns, h : Concluded(txns, h, ms, n, stmts)
    BY <1>10, ConcludePages DEF cut
  <1>12. Sent(h, ms, n, back + money)
    <2>1. Posting(h, ms, n)
      BY <1>11 DEF Concluded
    <2> QED
      BY <1>9, <2>1 DEF Ends
  <1>13. PICK x : x = Execute(h[n], DeleteAuction(a.item, cut))
    OBVIOUS
  <1>14. PICK y : y = Execute(x, SaveGold(p, g, 0))
    OBVIOUS
  <1>15. written' = y
    BY <1>11, <1>13, <1>14, ExecuteTwo DEF Concluded
  <1>16. PICK sales, total : /\ sales = written.auction \ {a}
                             /\ total = AllGold(written) + (back + money) - a.bid - Deposit + cut
    OBVIOUS
  <1>17. Over(x, ms, n, sales, total)
    <2>1. Over(x, ms, n, written.auction \ {a},
               AllGold(written) + (back + money) - a.bid - Deposit + cut)
      BY <1>1, <1>2, <1>6, <1>10, <1>12, <1>13, LotDeleted
    <2> QED
      BY <1>16, <2>1
  <1>18. PICK gold : gold = total - written.gold[p] + g + 0
    OBVIOUS
  <1>19. Paid(y, p, g, ms, n, sales, gold)
    <2>1. 0 \in Nat
      OBVIOUS
    <2> QED
      BY <1>5, <1>14, <1>17, <1>18, <2>1, GoldPaid
  <1>20. gold = AllGold(written)
    <2>1. /\ AllGold(written) \in Nat /\ a.bid \in Nat /\ Deposit \in Nat /\ bid \in Nat
          /\ diff \in Nat /\ back \in Nat /\ cut \in Nat /\ has[p].gold \in Nat
      BY <1>1, <1>2, <1>3, <1>6
    <2>2. /\ total = AllGold(written) + (back + money) - a.bid - Deposit + cut
          /\ money = bid + Deposit - cut /\ back + bid = a.bid + diff
      BY <1>3, <1>7, <1>16
    <2>3. total = AllGold(written) + diff
      <3>1. back + bid = a.bid + diff
        BY <2>2
      <3>2. AllGold(written) + (back + (bid + Deposit - cut)) - a.bid - Deposit + cut
                = AllGold(written) + diff
        <4>1. SumsUp(AllGold(written), bid, Deposit, a.bid, diff, back, cut)
          BY <2>1, <3>1, BuyoutSum
        <4> QED
          BY <4>1 DEF SumsUp
      <3> QED
        BY <2>2, <3>2
    <2>4. gold = total - has[p].gold + (has[p].gold - diff)
      <3>1. total \in Nat
        BY <2>1, <2>3
      <3>2. gold = total - has[p].gold + g + 0
        BY <1>4, <1>18
      <3>3. g = has[p].gold - diff /\ g \in Int
        BY <1>5, <2>1
      <3>4. PICK w : w = has[p].gold
        OBVIOUS
      <3>5. g = w - diff /\ gold = total - w + g + 0
        BY <3>2, <3>3, <3>4
      <3>6. w \in Nat /\ diff \in Nat
        BY <2>1, <3>4
      <3>7. gold = total - w + (w - diff)
        BY <3>1, <3>5, <3>6
      <3> QED
        BY <3>4, <3>7
    <2> QED
      BY <2>1, <2>3, <2>4
  <1>21. Placed(written') /\ Sales'
    <2>1. Holds(y, written.inventory, written.mail \cup Range(ms), written.auction \ {a},
                written.waste.items)
      BY <1>16, <1>19 DEF Paid
    <2>2. Placed(y)
      BY <1>1, <1>2, <1>9, <2>1, EndPlaced DEF OnlyLot
    <2>3. written'.auction = written.auction \ {a}
      BY <1>15, <2>1 DEF Holds
    <2>4. Sales'
      BY <1>2, <2>3, NoLotLeft DEF Before
    <2> QED
      BY <1>15, <2>2, <2>4
  <1>22. Paid(written', p, g, ms, n, sales, gold)
    BY <1>15, <1>19
  <1>23. MailInv'
    BY <1>5, <1>10, <1>11, <1>20, <1>21, <1>22, PayingStep
  <1>24. Removes(a, [written.gold EXCEPT ![p] = g], Range(ms))
    BY <1>16, <1>22 DEF Paid, Holds, Removes, Change
  <1>25. [written.gold EXCEPT ![p] = g] = Rest(p, a, bid)
    BY <1>4, <1>5 DEF Bidding, Rest
  <1>26. Buys(p, a, bid)
    BY <1>9, <1>24, <1>25 DEF Buys
  <1>27. bid \in Nat /\ bid <= written.gold[p]
    BY <1>1, <1>3, <1>4
  <1> QED
    BY <1>3, <1>23, <1>26, <1>27 DEF Affords

LEMMA PlaceBidStep ==
  ASSUME NEW db, Before(db), NEW p \in Players, NEW a \in auctions, NEW price \in Prices,
         HandleAuctionPlaceBid(p, a, price)
  PROVE  MailInv' /\ \E bid : Bids(p, a, bid) /\ (Raises(p, a, bid) \/ Buys(p, a, bid))
  <1>1. PICK bid, diff, back, e : Bidding(p, a, price, bid, diff, back, e)
    BY DEF Bidding
  <1>2. PICK g : g = ModifyMoney(has[p].gold, -diff)
    OBVIOUS
  <1>3. PICK out : out = OutbiddedMail(a, p)
    OBVIOUS
  <1>4. /\ where[p] = "online" /\ a.owner # p /\ price > a.bid /\ price <= has[p].gold
        /\ UpdateBid(p, a, price) /\ UNCHANGED <<where, answer, saved, within>>
    BY DEF HandleAuctionPlaceBid
  <1>5. /\ has' = [has EXCEPT ![p].gold = g]
        /\ \/ /\ bid < a.buyout \/ a.buyout = 0
              /\ Send(out)
              /\ auctions' = (auctions \ {a}) \cup {e}
              /\ aitems' = aitems
              /\ Conclude(out, <<UpdateAuction(e), SaveGold(p, g, 0)>>)
           \/ /\ Send(out \o WinningMails(e, Len(out)))
              /\ RemoveAuction(a)
              /\ Conclude(out \o WinningMails(e, Len(out)),
                          <<DeleteAuction(a.item, GetAuctionCut(bid)), SaveGold(p, g, 0)>>)
    BY <1>1, <1>2, <1>3, <1>4 DEF UpdateBid, Bidding
  <1>6. CASE /\ bid < a.buyout \/ a.buyout = 0
             /\ Send(out)
             /\ auctions' = (auctions \ {a}) \cup {e}
             /\ aitems' = aitems
             /\ Conclude(out, <<UpdateAuction(e), SaveGold(p, g, 0)>>)
    <2>1. MailInv' /\ Raises(p, a, bid) /\ Affords(p, a, bid)
      BY <1>1, <1>2, <1>3, <1>4, <1>5, <1>6, RaiseStep
    <2> QED
      BY <1>4, <2>1 DEF Bids
  <1>7. CASE /\ Send(out \o WinningMails(e, Len(out)))
             /\ RemoveAuction(a)
             /\ Conclude(out \o WinningMails(e, Len(out)),
                         <<DeleteAuction(a.item, GetAuctionCut(bid)), SaveGold(p, g, 0)>>)
    <2>1. PICK ms : ms = out \o WinningMails(e, Len(out))
      OBVIOUS
    <2>2. MailInv' /\ Buys(p, a, bid) /\ Affords(p, a, bid)
      BY <1>1, <1>2, <1>3, <1>4, <1>5, <1>7, <2>1, BuyoutStep
    <2> QED
      BY <1>4, <2>2 DEF Bids
  <1> QED
    BY <1>5, <1>6, <1>7

-----------------------------------------------------------------------------
(***************************************************************************)
(* The initial state, all steps, and the theorems.                         *)
(***************************************************************************)
LEMMA StartTables ==
  ASSUME Init
  PROVE  Page(saved, "none", 1)
  <1>1. /\ saved.gold = [p \in Players |-> StartGold] /\ saved.inventory = StartItems
        /\ saved.mail = {} /\ saved.auction = {}
        /\ saved.waste.gold = 0 /\ saved.waste.items = {}
    BY DEF Init, MailInit
  <1>2. /\ StartGold \in 0 .. MaxMoney /\ MaxMoney \in Nat /\ IsFiniteSet(Players)
        /\ StartItems \in [Players -> SUBSET Items]
        /\ \A i \in Items : \E p \in Players : {q \in Players : i \in StartItems[q]} = {p}
    BY MailAssumption, TablesAssumption
  <1>3. saved \in WideTables
    <2>1. Rows(saved, saved.gold, saved.inventory, {}, {}, 0, {})
      BY DEF Init, MailInit, Rows
    <2>2. /\ saved.gold \in GoldTable /\ saved.inventory \in InventoryTable /\ {} \in MailTable
          /\ {} \in AuctionTable /\ 0 \in Fees /\ {} \in Trash
      BY <1>1, <1>2 DEF GoldTable, InventoryTable, MailTable, AuctionTable, Fees, Trash
    <2> QED
      BY <2>1, <2>2, RowsType
  <1>4. IsFiniteSet({})
    BY FS_EmptySet
  <1>5. Ok(saved, 1)
    <2>1. MailsOk(saved.mail, 1)
      BY <1>1, <1>4 DEF MailsOk, MailTable
    <2>2. SalesOk(saved.auction)
      BY <1>1, <1>4 DEF SalesOk, AuctionTable
    <2> QED
      BY <1>3, <2>1, <2>2 DEF Ok
  <1>6. ASSUME NEW i \in Items PROVE OnePlace(saved, i)
    <2>1. Posts(saved, i) = {} /\ Lots(saved, i) = {} /\ i \notin saved.waste.items
      BY <1>1 DEF Posts, Lots
    <2>2. One(Bags(saved, i))
      BY <1>1, <1>2 DEF Bags, One
    <2> QED
      BY <2>1, <2>2 DEF OnePlace
  <1>7. AllGold(saved) = Issued
    <2>1. Purses(saved.gold) = StartGold * Cardinality(Players)
      <3>1. PICK g : g = saved.gold
        OBVIOUS
      <3>2. DOMAIN g = Players /\ \A p \in Players : g[p] = StartGold
        BY <1>1, <3>1
      <3>3. StartGold \in Int
        BY <1>2
      <3>4. SumFunctionOnSet(g, Players) = StartGold * Cardinality(Players)
        BY <1>2, <3>2, <3>3, SumConstant
      <3> QED
        BY <3>1, <3>2, <3>4 DEF Purses, SumFunction
    <2>2. MoneyOf(saved.mail) = 0
      <3>1. DOMAIN [m \in saved.mail |-> m.money] = {}
        BY <1>1
      <3> QED
        BY <3>1, SumEmpty DEF MoneyOf, SumFunction
    <2>3. Stakes(saved.auction) = 0
      <3>1. DOMAIN [a \in saved.auction |-> a.bid + Deposit] = {}
        BY <1>1
      <3> QED
        BY <3>1, SumEmpty DEF Stakes, SumFunction
    <2>4. Issued \in Int
      BY <1>2, FS_CardinalityType DEF Issued
    <2>5. AllGold(saved) = Purses(saved.gold) + 0 + 0 + 0
      BY <1>1, <2>2, <2>3, GoldParts
    <2> QED
      BY <2>1, <2>4, <2>5 DEF Issued
  <1>8. Settled(saved)
    BY <1>6, <1>7 DEF Settled
  <1> QED
    BY <1>5, <1>8 DEF Page

LEMMA StartInv ==
  ASSUME Init
  PROVE  MailInv
  <1> DEFINE d == [k \in 0 .. 0 |-> saved]
  <1>1. /\ where = [p \in Players |-> "online"]
        /\ has = [p \in Players |-> [gold |-> StartGold, items |-> StartItems[p]]]
        /\ box = [p \in Players |-> {}] /\ answer = [p \in Players |-> None]
        /\ mailId = 1 /\ pending = <<>> /\ written = saved /\ within = "none"
        /\ auctions = {} /\ aitems = {}
        /\ saved.gold = [p \in Players |-> StartGold] /\ saved.inventory = StartItems
        /\ saved.mail = {} /\ saved.auction = {}
    BY DEF Init, MailInit
  <1>2. Page(saved, "none", 1)
    BY StartTables
  <1>3. Len(pending) = 0 /\ \E S : pending \in Seq(S)
    BY <1>1
  <1>4. Mark(0) = "none" /\ d[0] = saved
    BY <1>1 DEF Mark
  <1> HIDE DEF d
  <1>5. (\A k \in 0 .. 0 : k = 0) /\ (\A k \in 1 .. 0 : FALSE)
    OBVIOUS
  <1>6. Queue
    BY <1>3, <1>4, <1>5 DEF Queue
  <1>7. Ledger(d)
    <2>1. d[0] = saved /\ d[0] = written /\ Page(d[0], Mark(0), mailId)
      BY <1>1, <1>2, <1>4
    <2> QED
      BY <1>3, <1>5, <2>1 DEF Ledger
  <1>8. Logins(d)
    BY <1>3, <1>5 DEF Logins
  <1>9. Answers /\ Memory /\ Sales
    <2>1. Answers
      BY <1>1 DEF Answers
    <2>2. Memory
      BY <1>1 DEF Memory, BoxOk, HasOk
    <2>3. Sales
      BY <1>1 DEF Sales
    <2> QED
      BY <2>1, <2>2, <2>3
  <1>10. Shape
    <2>1. has \in [Players -> [gold : 0 .. MaxMoney, items : SUBSET Items]]
      BY <1>1, MailAssumption
    <2>2. mailId \in 1 .. MaxMails + 1
      BY <1>1, MailAssumption
    <2> QED
      BY <1>1, <2>1, <2>2 DEF Shape
  <1> QED
    BY <1>6, <1>7, <1>8, <1>9, <1>10 DEF Before, MailInv

LEMMA MailSteps ==
  ASSUME NEW db, Before(db), MailStep, UNCHANGED <<auctions, aitems>>
  PROVE  MailInv'
  <1>1. CASE ExecuteNext
    BY <1>1, ExecuteStep
  <1>2. ASSUME NEW p \in MayTrade, NEW q \in MayTrade, NEW i \in Items \cup {None},
               NEW money \in Amounts \cup {0}, NEW cod \in Amounts \cup {0},
               HandleSendMail(p, q, i, money, cod)
        PROVE  MailInv'
    <2>1. p \in Players /\ q \in Players
      BY MailAssumption
    <2> QED
      BY <1>2, <2>1, SendStep
  <1>3. ASSUME NEW p \in Players, NEW l \in box[p], HandleMailMarkAsRead(p, l)
        PROVE  MailInv'
    <2>1. /\ where[p] = "online"
          /\ box' = Rewritten(p, l, [l EXCEPT !.state = "changed"])
          /\ UNCHANGED <<where, has, answer, mailId, pending, saved, written, within>>
      BY <1>3 DEF HandleMailMarkAsRead
    <2> QED
      BY <2>1, LetterStep
  <1>4. ASSUME NEW p \in Players, NEW l \in box[p], HandleMailDelete(p, l)
        PROVE  MailInv'
    <2>1. /\ where[p] = "online" /\ l.mail.cod = 0
          /\ box' = Rewritten(p, l, [l EXCEPT !.state = "deleted"])
          /\ UNCHANGED <<where, has, answer, mailId, pending, saved, written, within>>
      BY <1>4 DEF HandleMailDelete
    <2> QED
      BY <2>1, LetterStep
  <1>5. ASSUME NEW p \in Players, NEW l \in box[p], HandleMailReturnToSender(p, l)
        PROVE  MailInv'
    BY <1>5, ReturnStep
  <1>6. ASSUME NEW p \in Players, NEW l \in box[p], HandleMailTakeItem(p, l)
        PROVE  MailInv'
    BY <1>6, TakeItemStep
  <1>7. ASSUME NEW p \in Players, NEW l \in box[p], HandleMailTakeMoney(p, l)
        PROVE  MailInv'
    BY <1>7, TakeMoneyStep
  <1>8. ASSUME NEW p \in Players, NEW next \in {"online", "offline"}, SaveToDB(p, next)
        PROVE  MailInv'
    BY <1>8, SaveStep
  <1>9. ASSUME NEW p \in Players, HandlePlayerLogin(p)
        PROVE  MailInv'
    BY <1>9, LoginStep
  <1>10. ASSUME NEW p \in Players, LoadFromDB(p)
         PROVE  MailInv'
    BY <1>10, LoadStep
  <1>11. ASSUME NEW m \in saved.mail, ReturnOrDeleteOldMails(m)
         PROVE  MailInv'
    BY <1>11, OldMailStep
  <1> QED
    BY <1>1, <1>2, <1>3, <1>4, <1>5, <1>6, <1>7, <1>8, <1>9, <1>10, <1>11 DEF MailStep

LEMMA AllSteps ==
  ASSUME MailInv, [Next]_vars
  PROVE  MailInv'
  <1>1. PICK db : Before(db)
    BY DEF MailInv
  <1>2. CASE MailStep /\ UNCHANGED <<auctions, aitems>>
    BY <1>1, <1>2, MailSteps
  <1>3. ASSUME NEW p \in Players, NEW i \in has[p].items, NEW s \in Prices, NEW b \in Prices \cup {0},
               HandleAuctionSellItem(p, i, s, b)
        PROVE  MailInv'
    BY <1>1, <1>3, SellStep
  <1>4. ASSUME NEW a \in auctions, NEW p \in Players, NEW price \in Prices,
               HandleAuctionPlaceBid(p, a, price)
        PROVE  MailInv'
    BY <1>1, <1>4, PlaceBidStep
  <1>5. ASSUME NEW a \in auctions, NEW p \in Players, HandleAuctionRemoveItem(p, a)
        PROVE  MailInv'
    BY <1>1, <1>5, RemoveItemStep
  <1>6. ASSUME NEW a \in auctions, Update(a)
        PROVE  MailInv'
    BY <1>1, <1>6, UpdateStep
  <1>7. CASE Restart
    BY <1>1, <1>7, RestartStep
  <1>8. CASE UNCHANGED vars
    BY <1>8, Stutter
  <1> QED
    BY <1>2, <1>3, <1>4, <1>5, <1>6, <1>7, <1>8 DEF Next

LEMMA MailInvHolds == Spec => []MailInv
  <1>1. Init => MailInv
    BY StartInv
  <1>2. MailInv /\ [Next]_vars => MailInv'
    BY AllSteps
  <1> QED
    BY <1>1, <1>2, PTL DEF Spec

\* The handlers write all that they change: what a player who is online has and reads is
\* what the tables will say when the queue is executed, and so is what a login on its
\* way will bring (Player::SaveToDB, the mail and auction handlers, LoginQueryHolder).
THEOREM MemoryAgrees == Spec => []MemoryIsSaved
  <1>1. MailInv => MemoryIsSaved
    <2> SUFFICES ASSUME NEW db, Before(db), NEW p \in Players
                 PROVE  /\ where[p] = "online" =>
                             Agrees(p, has[p].gold, has[p].items,
                                    {l.mail : l \in {x \in box[p] : x.state # "deleted"}})
                        /\ answer[p] # None =>
                             Agrees(p, answer[p].gold, answer[p].items, answer[p].mail)
      BY DEF MailInv, MemoryIsSaved
    <2>1. BoxOk(p) /\ HasOk(p) /\ Answers
      BY DEF Before, Memory
    <2>2. ASSUME where[p] = "online"
          PROVE  Agrees(p, has[p].gold, has[p].items,
                        {l.mail : l \in {x \in box[p] : x.state # "deleted"}})
      BY <2>1, <2>2 DEF BoxOk, HasOk, Agrees
    <2>3. answer[p] # None => Agrees(p, answer[p].gold, answer[p].items, answer[p].mail)
      BY <2>1 DEF Answers
    <2> QED
      BY <2>2, <2>3
  <1> QED
    BY <1>1, MailInvHolds, PTL

-----------------------------------------------------------------------------
LEMMA CopiesParts ==
  ASSUME NEW db, NEW i
  PROVE  Copies(db, i) = Cardinality(Bags(db, i)) + Cardinality(Posts(db, i))
                            + Cardinality(Lots(db, i)) + Cardinality(db.waste.items \cap {i})
  BY DEF Copies, Bags, Posts, Lots

LEMMA OneIsOne == ASSUME NEW s, One(s) PROVE Cardinality(s) = 1
  BY FS_Singleton DEF One

LEMMA OnePlaceOneCopy ==
  ASSUME NEW db, NEW i, OnePlace(db, i)
  PROVE  Copies(db, i) = 1
  <1> DEFINE w == db.waste.items \cap {i}
  <1>1. Cardinality({}) = 0
    BY FS_EmptySet
  <1>2. (i \in db.waste.items => w = {i}) /\ (i \notin db.waste.items => w = {})
    OBVIOUS
  <1>3. i \in db.waste.items => Cardinality(w) = 1
    BY <1>2, FS_Singleton
  <1>4. i \notin db.waste.items => Cardinality(w) = 0
    BY <1>1, <1>2
  <1> HIDE DEF w
  <1>5. Copies(db, i) = Cardinality(Bags(db, i)) + Cardinality(Posts(db, i))
                           + Cardinality(Lots(db, i)) + Cardinality(w)
    BY CopiesParts DEF w
  <1> QED
    BY <1>1, <1>3, <1>4, <1>5, OneIsOne DEF OnePlace

LEMMA SomewhereSomeCopy ==
  ASSUME NEW db, NEW next, Ok(db, next), NEW i \in Items, Somewhere(db, i)
  PROVE  Copies(db, i) >= 1
  <1> DEFINE w == db.waste.items \cap {i}
  <1>1. IsFiniteSet(Players) /\ IsFiniteSet(db.mail) /\ IsFiniteSet(db.auction) /\ IsFiniteSet({i})
    BY MailAssumption, FS_Singleton DEF Ok, MailsOk, SalesOk
  <1>2. /\ IsFiniteSet(Bags(db, i)) /\ IsFiniteSet(Posts(db, i)) /\ IsFiniteSet(Lots(db, i))
        /\ IsFiniteSet(w)
    <2>1. /\ Bags(db, i) \subseteq Players /\ Posts(db, i) \subseteq db.mail
          /\ Lots(db, i) \subseteq db.auction /\ w \subseteq {i}
      BY DEF Bags, Posts, Lots
    <2> QED
      BY <1>1, <2>1, FS_Subset
  <1>3. i \in db.waste.items => w # {}
    OBVIOUS
  <1> HIDE DEF w
  <1>4. /\ Cardinality(Bags(db, i)) \in Nat /\ Cardinality(Posts(db, i)) \in Nat
        /\ Cardinality(Lots(db, i)) \in Nat /\ Cardinality(w) \in Nat
    BY <1>2, FS_CardinalityType
  <1>5. /\ Bags(db, i) # {} => Cardinality(Bags(db, i)) # 0
        /\ Posts(db, i) # {} => Cardinality(Posts(db, i)) # 0
        /\ Lots(db, i) # {} => Cardinality(Lots(db, i)) # 0
        /\ w # {} => Cardinality(w) # 0
    BY <1>2, FS_EmptySet
  <1>6. Copies(db, i) = Cardinality(Bags(db, i)) + Cardinality(Posts(db, i))
                           + Cardinality(Lots(db, i)) + Cardinality(w)
    BY CopiesParts DEF w
  <1> QED
    BY <1>3, <1>4, <1>5, <1>6 DEF Somewhere

\* What the tables are now.
LEMMA SavedPage ==
  ASSUME MailInv
  PROVE  /\ Ok(saved, mailId)
         /\ within = "none" => Settled(saved)
         /\ within = "auction" => Enough(saved)
  <1>1. PICK db : Before(db)
    BY DEF MailInv
  <1>2. PICK S : pending \in Seq(S)
    BY <1>1 DEF Before, Queue
  <1>3. 0 \in 0 .. Len(pending)
    BY <1>2, LenProperties
  <1>4. Page(saved, within, mailId)
    BY <1>1, <1>3 DEF Before, Ledger, Mark
  <1> QED
    BY <1>4 DEF Page

\* Whenever the process dies between two handlers, each item is in exactly one place: in
\* one inventory, in one letter, for sale, or deleted with its letter (SqlTransaction,
\* MailDraft::SendMailTo and the handlers of mail and auctions).
THEOREM ItemsAreExact == Spec => [](within = "none" => \A i \in Items : Copies(saved, i) = 1)
  <1>1. MailInv => (within = "none" => \A i \in Items : Copies(saved, i) = 1)
    BY SavedPage, OnePlaceOneCopy DEF Settled
  <1> QED
    BY <1>1, MailInvHolds, PTL

\* Wherever the process dies within a handler of the auction house, each item is
\* somewhere (AuctionEntry::AuctionBidWinning: first the letters, then the auction).
THEOREM AuctionsKeepItems ==
  Spec => [](within = "auction" => \A i \in Items : Copies(saved, i) >= 1)
  <1>1. MailInv => (within = "auction" => \A i \in Items : Copies(saved, i) >= 1)
    BY SavedPage, SomewhereSomeCopy DEF Enough
  <1> QED
    BY <1>1, MailInvHolds, PTL

\* And when the cost of no letter wraps, and there is not more gold than one player may
\* have, so that Player::ModifyMoney cuts nothing off: no gold is lost or doubled either, between two handlers,
THEOREM NothingIsLost == ASSUME Roomy PROVE Spec => []NothingLostBetweenHandlers
  <1>1. MailInv => NothingLostBetweenHandlers
    BY SavedPage, OnePlaceOneCopy DEF NothingLostBetweenHandlers, Exact, Settled
  <1> QED
    BY <1>1, MailInvHolds, PTL

\* none is lost within a handler of the auction house,
THEOREM AuctionsLoseNothing == ASSUME Roomy PROVE Spec => []NothingLostByAuctions
  <1>1. MailInv => NothingLostByAuctions
    BY SavedPage, SomewhereSomeCopy DEF NothingLostByAuctions, Enough
  <1> QED
    BY <1>1, MailInvHolds, PTL

\* and memory and tables have their types: no letter has more gold than a player may
\* have; what is for sale in memory is what the table will say.
THEOREM AuctionTypes == ASSUME Roomy PROVE Spec => []TypeOK
  <1>1. ASSUME NEW db, NEW next, Ok(db, next) PROVE db.mail \subseteq Mails
    <2>1. /\ db.mail \subseteq WideMails
          /\ \A m \in db.mail : m.money \in Nat /\ m.money <= MaxMoney
      BY <1>1, MailFacts DEF Ok, MailsOk
    <2>2. ASSUME NEW m \in db.mail PROVE m \in Mails
      <3>1. m \in WideMails /\ m.money \in 0 .. MaxMoney
        BY <2>1, TablesAssumption
      <3> QED
        BY <3>1 DEF WideMails, Mails
    <2> QED
      BY <2>2
  <1>2. ASSUME NEW db, Before(db) PROVE MailTypeOK
    <2>1. Ok(saved, mailId) /\ Ok(written, mailId)
      BY <1>2, Now
    <2>2. saved \in Tables
      <3>1. saved \in WideTables /\ saved.mail \subseteq Mails
        BY <1>1, <2>1 DEF Ok
      <3>2. /\ saved.gold \in [Players -> 0 .. MaxMoney]
            /\ saved.inventory \in [Players -> SUBSET Items]
            /\ saved.auction \subseteq Auctions
            /\ saved.waste.gold \in Nat /\ saved.waste.items \subseteq Items
        BY <3>1, TablesFacts
      <3>3. /\ saved = [gold |-> saved.gold, inventory |-> saved.inventory, mail |-> saved.mail,
                        auction |-> saved.auction, waste |-> saved.waste]
            /\ saved.waste = [gold |-> saved.waste.gold, items |-> saved.waste.items]
        BY <3>1 DEF WideTables
      <3>4. saved.waste \in [gold : Nat, items : SUBSET Items]
        BY <3>2, <3>3
      <3> QED
        BY <3>1, <3>2, <3>3, <3>4 DEF Tables
    <2>3. box \in [Players -> SUBSET Letters]
      <3>1. ASSUME NEW q \in Players, NEW l \in box[q] PROVE l \in Letters
        <4>1. Letter(l) /\ l.mail \in written.mail
          BY <1>2, Now DEF BoxOk
        <4>2. l.mail \in Mails
          BY <1>1, <2>1, <4>1
        <4> QED
          BY <4>1, <4>2 DEF Letter, Letters
      <3>2. box = [q \in Players |-> box[q]]
        BY <1>2 DEF Before, Shape
      <3> QED
        BY <3>1, <3>2
    <2>4. within \in {"none", "mail", "auction", "player"}
      <3>1. PICK S : pending \in Seq(S)
        BY <1>2 DEF Before, Queue
      <3>2. 0 \in 0 .. Len(pending)
        BY <3>1, LenProperties
      <3> QED
        BY <1>2, <3>2 DEF Before, Queue, Mark, Kinds
    <2> QED
      BY <1>2, <2>2, <2>3, <2>4 DEF Before, Shape, MailTypeOK
  <1>3. ASSUME NEW db, Before(db)
        PROVE  /\ auctions \subseteq Auctions /\ aitems = {a.item : a \in auctions}
               /\ auctions = written.auction
    BY <1>3, Now, TablesFacts DEF Before, Sales
  <1>4. MailInv => TypeOK
    BY <1>2, <1>3 DEF MailInv, TypeOK
  <1> QED
    BY <1>4, MailInvHolds, PTL
-----------------------------------------------------------------------------
(***************************************************************************)
(* AuctionHouse implements Market: what is in the tables and in the        *)
(* letters, seen as purses, belongings and lots, changes only as on the    *)
(* market.  First its actions, gold by gold.                               *)
(***************************************************************************)
\* What r gets when p gets n.
Share(r, p, n) == IF r = p THEN n ELSE 0

LEMMA ShareType ==
  ASSUME NEW r, NEW p, NEW n \in Int
  PROVE  Share(r, p, n) \in Int
  BY DEF Share

LEMMA PayIs ==
  ASSUME NEW pu \in [Players -> Int], NEW p \in Players, NEW n \in Int
  PROVE  /\ TheMarket!Pay(pu, p, n) \in [Players -> Int]
         /\ \A r \in Players : TheMarket!Pay(pu, p, n)[r] = pu[r] - Share(r, p, n)
  BY DEF TheMarket!Pay, Share

LEMMA EarnIs ==
  ASSUME NEW pu \in [Players -> Int], NEW p \in Players \cup {None}, NEW n \in Int
  PROVE  /\ TheMarket!Earn(pu, p, n) \in [Players -> Int]
         /\ \A r \in Players : TheMarket!Earn(pu, p, n)[r] = pu[r] + Share(r, p, n)
  BY TablesAssumption DEF TheMarket!Earn, Share

LEMMA SamePurses ==
  ASSUME NEW f \in [Players -> Int], NEW g \in [Players -> Int], \A r \in Players : f[r] = g[r]
  PROVE  f = g
  OBVIOUS

Rich == Wealth \in [Players -> Nat] /\ Wealth' \in [Players -> Nat]

LEMMA GiveOnMarket ==
  ASSUME Rich, NEW p \in Players, NEW q \in Players, p # q,
         NEW money \in Nat, NEW fee \in Nat, money + fee <= Wealth[p],
         NEW gifts \in SUBSET Items, \A i \in gifts : Belongings[i] = p,
         \A r \in Players :
            Wealth'[r] = Wealth[r] - Share(r, p, money + fee) + Share(r, q, money),
         Belongings' = [i \in Items |-> IF i \in gifts THEN q ELSE Belongings[i]],
         ForSale' = ForSale, deaths' = deaths
  PROVE  TheMarket!Next
  <1>1. Wealth \in [Players -> Nat] /\ Wealth' \in [Players -> Nat]
    BY DEF Rich
  <1>2. gifts \in SUBSET TheMarket!Goods(p)
    BY DEF TheMarket!Goods
  <1>3. money \in 0 .. Wealth[p] /\ fee \in 0 .. Wealth[p] - money
    BY <1>1
  <1>4. PICK one : one = TheMarket!Pay(Wealth, p, money + fee)
    OBVIOUS
  <1>5. one \in [Players -> Int] /\ \A r \in Players : one[r] = Wealth[r] - Share(r, p, money + fee)
    <2>1. PICK n : n = money + fee
      OBVIOUS
    <2>2. Wealth \in [Players -> Int] /\ n \in Int /\ one = TheMarket!Pay(Wealth, p, n)
      BY <1>1, <1>4, <2>1
    <2> QED
      BY <2>1, <2>2, PayIs
  <1>6. PICK two : two = TheMarket!Earn(one, q, money)
    OBVIOUS
  <1>7. two \in [Players -> Int] /\ \A r \in Players : two[r] = one[r] + Share(r, q, money)
    BY <1>5, <1>6, EarnIs, SMTT(30)
  <1>8. Wealth' = two
    BY <1>1, <1>5, <1>7, SamePurses
  <1>9. TheMarket!Give(p, q)
    BY <1>2, <1>3, <1>4, <1>6, <1>8 DEF TheMarket!Give
  <1> QED
    BY <1>9 DEF TheMarket!Next

LEMMA DiscardOnMarket ==
  ASSUME Rich, NEW p \in Players, NEW money \in Nat, money <= Wealth[p],
         NEW trash \in SUBSET Items, \A i \in trash : Belongings[i] = p,
         \A r \in Players : Wealth'[r] = Wealth[r] - Share(r, p, money),
         Belongings' = [i \in Items |-> IF i \in trash THEN None ELSE Belongings[i]],
         ForSale' = ForSale, deaths' = deaths
  PROVE  TheMarket!Next
  <1>1. Wealth \in [Players -> Nat] /\ Wealth' \in [Players -> Nat]
    BY DEF Rich
  <1>2. trash \in SUBSET TheMarket!Goods(p)
    BY DEF TheMarket!Goods
  <1>3. money \in 0 .. Wealth[p]
    BY <1>1
  <1>4. PICK one : one = TheMarket!Pay(Wealth, p, money)
    OBVIOUS
  <1>5. one \in [Players -> Int] /\ \A r \in Players : one[r] = Wealth[r] - Share(r, p, money)
    <2>1. PICK n : n = money
      OBVIOUS
    <2>2. Wealth \in [Players -> Int] /\ n \in Int /\ one = TheMarket!Pay(Wealth, p, n)
      BY <1>1, <1>4, <2>1
    <2> QED
      BY <2>1, <2>2, PayIs
  <1>6. Wealth' = one
    BY <1>1, <1>5, SamePurses
  <1>7. TheMarket!Discard(p)
    BY <1>2, <1>3, <1>4, <1>6 DEF TheMarket!Discard, TheMarket!Without
  <1> QED
    BY <1>7 DEF TheMarket!Next

Bought(p, q, i, money, lost, trash) ==
    /\ p \in Players /\ q \in Players /\ p # q /\ i \in Items /\ Belongings[i] = q
    /\ money \in Nat /\ money > 0 /\ lost \in Nat /\ money + lost <= Wealth[p]
    /\ trash \in SUBSET Items /\ \A x \in trash : Belongings[x] = p
    /\ \A r \in Players :
          Wealth'[r] = Wealth[r] - Share(r, p, money + lost) + Share(r, q, money)
    /\ Belongings' = [x \in Items |-> IF x = i THEN p
                                      ELSE IF x \in trash THEN None ELSE Belongings[x]]
    /\ ForSale' = ForSale /\ deaths' = deaths

LEMMA BuyOnMarket ==
  ASSUME Rich, NEW p, NEW q, NEW i, NEW money, NEW lost, NEW trash,
         Bought(p, q, i, money, lost, trash)
  PROVE  TheMarket!Next
  <1> USE DEF Bought
  <1>1. Wealth \in [Players -> Nat] /\ Wealth' \in [Players -> Nat]
    BY DEF Rich
  <1>2. trash \in SUBSET TheMarket!Goods(p)
    BY DEF TheMarket!Goods
  <1>3. money \in 1 .. Wealth[p] /\ lost \in 0 .. Wealth[p] - money
    BY <1>1
  <1>4. PICK one : one = TheMarket!Pay(Wealth, p, money + lost)
    OBVIOUS
  <1>5. one \in [Players -> Int] /\ \A r \in Players : one[r] = Wealth[r] - Share(r, p, money + lost)
    <2>1. PICK n : n = money + lost
      OBVIOUS
    <2>2. Wealth \in [Players -> Int] /\ n \in Int /\ one = TheMarket!Pay(Wealth, p, n)
      BY <1>1, <1>4, <2>1
    <2> QED
      BY <2>1, <2>2, PayIs
  <1>6. PICK two : two = TheMarket!Earn(one, q, money)
    OBVIOUS
  <1>7. two \in [Players -> Int] /\ \A r \in Players : two[r] = one[r] + Share(r, q, money)
    BY <1>5, <1>6, EarnIs, SMTT(30)
  <1>8. Wealth' = two
    BY <1>1, <1>5, <1>7, SamePurses
  <1>9. Belongings' = [TheMarket!Without(trash) EXCEPT ![i] = p]
    BY DEF TheMarket!Without
  <1>10. TheMarket!Buy(p, q)
    BY <1>2, <1>3, <1>4, <1>6, <1>8, <1>9 DEF TheMarket!Buy
  <1> QED
    BY <1>10 DEF TheMarket!Next

LEMMA SellOnMarket ==
  ASSUME Rich, NEW p \in Players, NEW i \in Items, Belongings[i] = p, Deposit <= Wealth[p],
         \A r \in Players : Wealth'[r] = Wealth[r] - Share(r, p, Deposit),
         Belongings' = [Belongings EXCEPT ![i] = None],
         ForSale' = [j \in DOMAIN ForSale \cup {i} |->
                       IF j = i THEN [owner |-> p, bidder |-> None, bid |-> 0] ELSE ForSale[j]],
         deaths' = deaths
  PROVE  TheMarket!Next
  <1>1. Wealth \in [Players -> Nat] /\ Wealth' \in [Players -> Nat] /\ Deposit \in Nat
    BY TablesAssumption DEF Rich
  <1>2. PICK one : one = TheMarket!Pay(Wealth, p, Deposit)
    OBVIOUS
  <1>3. one \in [Players -> Int] /\ \A r \in Players : one[r] = Wealth[r] - Share(r, p, Deposit)
    BY <1>1, <1>2, PayIs
  <1>4. Wealth' = one
    BY <1>1, <1>3, SamePurses
  <1>5. TheMarket!Sell(p, i)
    BY <1>1, <1>2, <1>4 DEF TheMarket!Sell
  <1> QED
    BY <1>5 DEF TheMarket!Next

\* The lot i, and what is left when it is closed.
Lot(i, owner, bidder, bid) ==
    i \in DOMAIN ForSale /\ ForSale[i] = [owner |-> owner, bidder |-> bidder, bid |-> bid]
Closes(i) == ForSale' = [j \in DOMAIN ForSale \ {i} |-> ForSale[j]]

\* p offers n for the lot i.
Offers(p, i, o, b, x, n) ==
    /\ p \in Players /\ i \in Items /\ o \in Players /\ b \in Players \cup {None} /\ x \in Nat
    /\ Lot(i, o, b, x) /\ o # p /\ n \in Nat /\ x < n /\ n <= Wealth[p]

LEMMA BidOnMarket ==
  ASSUME Rich, NEW p, NEW i, NEW o, NEW b, NEW x, NEW n, Offers(p, i, o, b, x, n),
         \A r \in Players : Wealth'[r] = Wealth[r] + Share(r, b, x) - Share(r, p, n),
         Belongings' = Belongings,
         ForSale' = [ForSale EXCEPT ![i] = [owner |-> o, bidder |-> p, bid |-> n]],
         deaths' = deaths
  PROVE  TheMarket!Next
  <1> USE DEF Offers
  <1>1. Wealth \in [Players -> Nat] /\ Wealth' \in [Players -> Nat]
    BY DEF Rich
  <1>2. i \in DOMAIN ForSale /\ ForSale[i] = [owner |-> o, bidder |-> b, bid |-> x]
    BY DEF Lot
  <1>3. n \in 1 .. Wealth[p] /\ TheMarket!MayBid(p, i, n)
    BY <1>1, <1>2 DEF TheMarket!MayBid
  <1>4. PICK one : one = TheMarket!Earn(Wealth, b, x)
    OBVIOUS
  <1>5. one \in [Players -> Int] /\ \A r \in Players : one[r] = Wealth[r] + Share(r, b, x)
    <2>1. Wealth \in [Players -> Int] /\ x \in Int
      BY <1>1
    <2> QED
      BY <1>4, <2>1, EarnIs
  <1>6. PICK two : two = TheMarket!Pay(one, p, n)
    OBVIOUS
  <1>7. two \in [Players -> Int] /\ \A r \in Players : two[r] = one[r] - Share(r, p, n)
    <2>1. p \in Players /\ n \in Int
      OBVIOUS
    <2> HIDE DEF Offers
    <2> QED
      BY <1>5, <1>6, <2>1, PayIs
  <1>8. Wealth' = two
    <2>1. ASSUME NEW r \in Players PROVE Wealth'[r] = two[r]
      <3>1. Wealth[r] \in Int /\ Share(r, b, x) \in Int /\ Share(r, p, n) \in Int
        BY <1>1, ShareType
      <3>2. one[r] = Wealth[r] + Share(r, b, x) /\ two[r] = one[r] - Share(r, p, n)
        BY <1>5, <1>7
      <3> QED
        BY <3>1, <3>2
    <2> QED
      BY <1>1, <1>7, <2>1, SamePurses
  <1>9. Wealth' = TheMarket!AfterBid(p, i, n)
    BY <1>2, <1>4, <1>6, <1>8 DEF TheMarket!AfterBid
  <1>10. ForSale' = [ForSale EXCEPT ![i].bidder = p, ![i].bid = n]
    <2>1. PICK lot, half : /\ lot = [owner |-> o, bidder |-> b, bid |-> x]
                           /\ half = [owner |-> o, bidder |-> p, bid |-> x]
      OBVIOUS
    <2>2. [lot EXCEPT !.bidder = p] = half /\ [half EXCEPT !.bid = n] = [owner |-> o, bidder |-> p, bid |-> n]
      BY <2>1
    <2>3. PICK g : g = [ForSale EXCEPT ![i] = half]
      OBVIOUS
    <2>4. g[i] = half /\ [g EXCEPT ![i] = [g[i] EXCEPT !.bid = n]] = ForSale'
      BY <1>2, <2>2, <2>3
    <2>5. [ForSale EXCEPT ![i].bidder = p] = g
      BY <1>2, <2>1, <2>2, <2>3
    <2> QED
      BY <2>4, <2>5
  <1>11. TheMarket!Bid(p, i)
    BY <1>3, <1>9, <1>10 DEF TheMarket!Bid
  <1> QED
    BY <1>11 DEF TheMarket!Next

LEMMA SoldIs ==
  ASSUME Rich, NEW pu \in [Players -> Int], NEW p \in Players, NEW i \in Items,
         NEW o \in Players, NEW b \in Players \cup {None}, NEW x \in Nat, Lot(i, o, b, x),
         NEW n \in Nat, NEW price \in Int, price = n + Deposit - GetAuctionCut(n),
         \A r \in Players : Wealth'[r] = pu[r] + Share(r, o, price),
         Belongings' = [Belongings EXCEPT ![i] = p], Closes(i), deaths' = deaths
  PROVE  TheMarket!Sold(pu, p, i, n)
  <1>1. Wealth' \in [Players -> Nat]
    BY DEF Rich
  <1>2. PICK one : one = TheMarket!Earn(pu, o, price)
    OBVIOUS
  <1>3. one \in [Players -> Int] /\ \A r \in Players : one[r] = pu[r] + Share(r, o, price)
    BY <1>2, EarnIs
  <1>4. Wealth' = one
    BY <1>1, <1>3, SamePurses
  <1>5. price = n + Deposit - TheMarket!Cut(n)
    BY DEF GetAuctionCut, TheMarket!Cut
  <1>6. ForSale[i].owner = o
    BY DEF Lot
  <1>7. ForSale' = TheMarket!Closed(i)
    BY DEF Closes, TheMarket!Closed
  <1> QED
    BY <1>2, <1>4, <1>5, <1>6, <1>7 DEF TheMarket!Sold

\* The lot is bought for n, of which its owner gets price.
PaysFor(p, i, o, b, x, n, price) ==
    /\ Offers(p, i, o, b, x, n)
    /\ price \in Int /\ price = n + Deposit - GetAuctionCut(n)
    /\ \A r \in Players :
          Wealth'[r] = Wealth[r] + Share(r, b, x) - Share(r, p, n) + Share(r, o, price)

LEMMA BuyOutOnMarket ==
  ASSUME Rich, NEW p, NEW i, NEW o, NEW b, NEW x, NEW n, NEW price,
         PaysFor(p, i, o, b, x, n, price),
         Belongings' = [Belongings EXCEPT ![i] = p], Closes(i), deaths' = deaths
  PROVE  TheMarket!Next
  <1> USE DEF Offers, PaysFor
  <1>1. Wealth \in [Players -> Nat] /\ Wealth' \in [Players -> Nat]
    BY DEF Rich
  <1>2. i \in DOMAIN ForSale /\ ForSale[i] = [owner |-> o, bidder |-> b, bid |-> x]
    BY DEF Lot
  <1>3. n \in 1 .. Wealth[p] /\ TheMarket!MayBid(p, i, n)
    BY <1>1, <1>2 DEF TheMarket!MayBid
  <1>4. PICK one : one = TheMarket!Earn(Wealth, b, x)
    OBVIOUS
  <1>5. one \in [Players -> Int] /\ \A r \in Players : one[r] = Wealth[r] + Share(r, b, x)
    <2>1. Wealth \in [Players -> Int] /\ x \in Int
      BY <1>1
    <2> QED
      BY <1>4, <2>1, EarnIs
  <1>6. PICK two : two = TheMarket!Pay(one, p, n)
    OBVIOUS
  <1>7. two \in [Players -> Int] /\ \A r \in Players : two[r] = one[r] - Share(r, p, n)
    BY <1>5, <1>6, PayIs
  <1>8. \A r \in Players : Wealth'[r] = two[r] + Share(r, o, price)
    <2> SUFFICES ASSUME NEW r \in Players PROVE Wealth'[r] = two[r] + Share(r, o, price)
      OBVIOUS
    <2>1. /\ Wealth[r] \in Int /\ Share(r, b, x) \in Int /\ Share(r, p, n) \in Int
          /\ Share(r, o, price) \in Int
      BY <1>1, ShareType
    <2>2. one[r] = Wealth[r] + Share(r, b, x) /\ two[r] = one[r] - Share(r, p, n)
      BY <1>5, <1>7
    <2> QED
      BY <2>1, <2>2
  <1>9. TheMarket!Sold(two, p, i, n)
    BY <1>7, <1>8, SoldIs
  <1>10. two = TheMarket!AfterBid(p, i, n)
    BY <1>2, <1>4, <1>6 DEF TheMarket!AfterBid
  <1>11. TheMarket!BuyOut(p, i)
    BY <1>3, <1>9, <1>10 DEF TheMarket!BuyOut
  <1> QED
    BY <1>11 DEF TheMarket!Next

LEMMA WinOnMarket ==
  ASSUME Rich, NEW i \in Items,
         NEW o \in Players, NEW b \in Players, NEW x \in Nat, Lot(i, o, b, x), x > 0,
         NEW price \in Int, price = x + Deposit - GetAuctionCut(x),
         \A r \in Players : Wealth'[r] = Wealth[r] + Share(r, o, price),
         Belongings' = [Belongings EXCEPT ![i] = b], Closes(i), deaths' = deaths
  PROVE  TheMarket!Next
  <1>1. Wealth \in [Players -> Int]
    BY DEF Rich
  <1>2. i \in DOMAIN ForSale /\ ForSale[i] = [owner |-> o, bidder |-> b, bid |-> x]
    BY DEF Lot
  <1>3. TheMarket!Sold(Wealth, b, i, x)
    BY <1>1, SoldIs
  <1>4. TheMarket!Win(i)
    BY <1>2, <1>3 DEF TheMarket!Win
  <1> QED
    BY <1>4 DEF TheMarket!Next

LEMMA ExpireOnMarket ==
  ASSUME Rich, NEW i \in Items,
         NEW o \in Players, NEW b \in Players \cup {None}, Lot(i, o, b, 0),
         \A r \in Players : Wealth'[r] = Wealth[r],
         Belongings' = [Belongings EXCEPT ![i] = o], Closes(i), deaths' = deaths
  PROVE  TheMarket!Next
  <1>1. Wealth \in [Players -> Int] /\ Wealth' \in [Players -> Int]
    BY DEF Rich
  <1>2. i \in DOMAIN ForSale /\ ForSale[i] = [owner |-> o, bidder |-> b, bid |-> 0]
    BY DEF Lot
  <1>3. Wealth' = Wealth
    BY <1>1, SamePurses
  <1>4. TheMarket!Expire(i)
    BY <1>2, <1>3 DEF Closes, TheMarket!Expire, TheMarket!Withdraw, TheMarket!Closed
  <1> QED
    BY <1>4 DEF TheMarket!Next

LEMMA CancelOnMarket ==
  ASSUME Rich, NEW i \in Items,
         NEW o \in Players, NEW b \in Players \cup {None}, NEW x \in Nat, Lot(i, o, b, x),
         NEW cut \in Int, cut = GetAuctionCut(x),
         \A r \in Players : Wealth'[r] = Wealth[r] + Share(r, b, x) - Share(r, o, cut),
         Belongings' = [Belongings EXCEPT ![i] = o], Closes(i), deaths' = deaths
  PROVE  TheMarket!Next
  <1>1. Wealth \in [Players -> Nat] /\ Wealth' \in [Players -> Nat]
    BY DEF Rich
  <1>2. i \in DOMAIN ForSale /\ ForSale[i] = [owner |-> o, bidder |-> b, bid |-> x]
    BY DEF Lot
  <1>3. PICK one : one = TheMarket!Earn(Wealth, b, x)
    OBVIOUS
  <1>4. one \in [Players -> Int] /\ \A r \in Players : one[r] = Wealth[r] + Share(r, b, x)
    <2>1. Wealth \in [Players -> Int] /\ x \in Int
      BY <1>1
    <2> QED
      BY <1>3, <2>1, EarnIs
  <1>5. PICK two : two = TheMarket!Pay(one, o, cut)
    OBVIOUS
  <1>6. two \in [Players -> Int] /\ \A r \in Players : two[r] = one[r] - Share(r, o, cut)
    BY <1>4, <1>5, PayIs
  <1>7. Wealth' = two
    <2>1. ASSUME NEW r \in Players PROVE Wealth'[r] = two[r]
      <3>1. Wealth[r] \in Int /\ Share(r, b, x) \in Int /\ Share(r, o, cut) \in Int
        BY <1>1, ShareType
      <3>2. one[r] = Wealth[r] + Share(r, b, x) /\ two[r] = one[r] - Share(r, o, cut)
        BY <1>4, <1>6
      <3> QED
        BY <3>1, <3>2
    <2> QED
      BY <1>1, <1>6, <2>1, SamePurses
  <1>8. cut = TheMarket!Cut(x)
    BY DEF GetAuctionCut, TheMarket!Cut
  <1>9. TheMarket!Cancel(i)
    BY <1>2, <1>3, <1>5, <1>7, <1>8
       DEF Closes, TheMarket!Cancel, TheMarket!Withdraw, TheMarket!Closed
  <1> QED
    BY <1>9 DEF TheMarket!Next

-----------------------------------------------------------------------------
(***************************************************************************)
(* What a purse is: the gold in the table, and the letters with gold.      *)
(***************************************************************************)
Credit(ms, q) == MoneyOf({m \in ms : m.receiver = q})
Mailbag(ms) == ms \subseteq WideMails /\ IsFiniteSet(ms)

LEMMA CreditSplit ==
  ASSUME NEW ms, Mailbag(ms), NEW gone, gone \subseteq ms, NEW q
  PROVE  /\ Mailbag(gone) /\ Mailbag(ms \ gone)
         /\ Credit(gone, q) \in Nat /\ Credit(ms \ gone, q) \in Nat
         /\ Credit(ms, q) = Credit(ms \ gone, q) + Credit(gone, q)
  <1>1. ms \subseteq WideMails /\ IsFiniteSet(ms)
    BY DEF Mailbag
  <1>2. IsFiniteSet(gone) /\ IsFiniteSet(ms \ gone)
    BY <1>1, FS_Subset
  <1> DEFINE mine == {m \in ms : m.receiver = q}
             lost == {m \in gone : m.receiver = q}
  <1>3. IsFiniteSet(mine) /\ lost \in SUBSET mine /\ \A m \in mine : m.money \in Nat
    BY <1>1, FS_Subset DEF WideMails
  <1>4. mine \ lost = {m \in ms \ gone : m.receiver = q}
    OBVIOUS
  <1> HIDE DEF mine, lost
  <1>5. /\ MoneyOf(lost) \in Nat /\ MoneyOf(mine \ lost) \in Nat
        /\ MoneyOf(mine) = MoneyOf(mine \ lost) + MoneyOf(lost)
    BY <1>3, MoneySplit
  <1> QED
    BY <1>1, <1>2, <1>4, <1>5 DEF Mailbag, Credit, mine, lost

\* The same, to be applied to sets that have a name.
Part(gone, ms, rest) == gone \subseteq ms /\ rest = ms \ gone
LEMMA CreditParts ==
  ASSUME NEW ms, Mailbag(ms), NEW gone, NEW rest, Part(gone, ms, rest), NEW q
  PROVE  /\ Mailbag(gone) /\ Mailbag(rest) /\ Credit(gone, q) \in Nat /\ Credit(rest, q) \in Nat
         /\ Credit(ms, q) = Credit(rest, q) + Credit(gone, q)
  BY CreditSplit DEF Part

LEMMA CreditType ==
  ASSUME NEW ms, Mailbag(ms), NEW q
  PROVE  Credit(ms, q) \in Nat
  <1>1. ms \ {} = ms /\ {} \subseteq ms
    OBVIOUS
  <1> QED
    BY <1>1, CreditSplit

LEMMA NoCredit ==
  ASSUME NEW q
  PROVE  Mailbag({}) /\ Credit({}, q) = 0
  <1>1. Mailbag({})
    BY FS_EmptySet DEF Mailbag
  <1>2. {} \ {} = {} /\ {} \subseteq {}
    OBVIOUS
  <1>3. PICK c : c = Credit({}, q)
    OBVIOUS
  <1>4. c \in Nat /\ c = c + c
    BY <1>1, <1>2, <1>3, CreditSplit
  <1>5. c = 0
    BY <1>4
  <1> QED
    BY <1>1, <1>3, <1>5

LEMMA CreditUnion ==
  ASSUME NEW ms, Mailbag(ms), NEW ns, Mailbag(ns), ms \cap ns = {}, NEW q
  PROVE  /\ Mailbag(ms \cup ns)
         /\ Credit(ms \cup ns, q) = Credit(ms, q) + Credit(ns, q)
  <1>1. PICK all : all = ms \cup ns
    OBVIOUS
  <1>2. Mailbag(all)
    BY <1>1, FS_Union DEF Mailbag
  <1>3. Part(ns, all, ms)
    BY <1>1 DEF Part
  <1>4. Credit(all, q) = Credit(ms, q) + Credit(ns, q)
    BY <1>2, <1>3, CreditParts
  <1> QED
    BY <1>1, <1>2, <1>4

LEMMA OneCredit ==
  ASSUME NEW x \in WideMails, NEW q
  PROVE  Mailbag({x}) /\ Credit({x}, q) = Share(q, x.receiver, x.money)
  <1>1. x.money \in Nat
    BY DEF WideMails
  <1>2. Mailbag({x})
    BY FS_Singleton DEF Mailbag
  <1>3. MoneyOf({}) = 0
    <2>1. Credit({}, q) = 0
      BY NoCredit
    <2>2. {m \in {} : m.receiver = q} = {}
      OBVIOUS
    <2> QED
      BY <2>1, <2>2 DEF Credit
  <1>4. CASE x.receiver = q
    <2>1. {m \in {x} : m.receiver = q} = {} \cup {x}
      BY <1>4
    <2>2. IsFiniteSet({}) /\ x \notin {} /\ \A m \in {} \cup {x} : m.money \in Nat
      BY <1>1, FS_EmptySet
    <2>3. MoneyOf({} \cup {x}) = MoneyOf({}) + x.money
      BY <2>2, MoneyAdd
    <2>4. Credit({x}, q) = x.money
      BY <1>1, <1>3, <2>1, <2>3 DEF Credit
    <2> QED
      BY <1>2, <1>4, <2>4 DEF Share
  <1>5. CASE x.receiver # q
    <2>1. {m \in {x} : m.receiver = q} = {}
      BY <1>5
    <2> QED
      BY <1>2, <1>3, <1>5, <2>1 DEF Credit, Share
  <1> QED
    BY <1>4, <1>5

LEMMA CreditAdd ==
  ASSUME NEW ms, Mailbag(ms), NEW x \in WideMails, x \notin ms, NEW q
  PROVE  /\ Mailbag(ms \cup {x})
         /\ Credit(ms \cup {x}, q) = Credit(ms, q) + Share(q, x.receiver, x.money)
  <1>1. Mailbag({x}) /\ Credit({x}, q) = Share(q, x.receiver, x.money)
    BY OneCredit
  <1>2. ms \cap {x} = {}
    OBVIOUS
  <1> QED
    BY <1>1, <1>2, CreditUnion

LEMMA CreditDrop ==
  ASSUME NEW ms, Mailbag(ms), NEW x \in ms, NEW q
  PROVE  /\ Mailbag(ms \ {x}) /\ Credit(ms \ {x}, q) \in Nat
         /\ Credit(ms, q) = Credit(ms \ {x}, q) + Share(q, x.receiver, x.money)
  <1>1. x \in WideMails /\ {x} \subseteq ms
    BY DEF Mailbag
  <1>2. Credit({x}, q) = Share(q, x.receiver, x.money)
    BY <1>1, OneCredit
  <1>3. PICK gone, rest : gone = {x} /\ rest = ms \ {x}
    OBVIOUS
  <1>4. Part(gone, ms, rest)
    BY <1>1, <1>3 DEF Part
  <1>5. /\ Mailbag(rest) /\ Credit(rest, q) \in Nat /\ Credit(ms, q) = Credit(rest, q) + Credit(gone, q)
    BY <1>4, CreditParts
  <1> QED
    BY <1>2, <1>3, <1>5

\* Letters to p only.
LEMMA CreditTo ==
  ASSUME NEW ms, Mailbag(ms), NEW p, \A m \in ms : m.receiver = p, NEW q
  PROVE  MoneyOf(ms) \in Nat /\ Credit(ms, q) = Share(q, p, MoneyOf(ms))
  <1>1. MoneyOf(ms) \in Nat
    BY MoneyType DEF Mailbag, WideMails
  <1>2. CASE q = p
    <2>1. {m \in ms : m.receiver = q} = ms
      BY <1>2
    <2> QED
      BY <1>1, <1>2, <2>1 DEF Credit, Share
  <1>3. CASE q # p
    <2>1. {m \in ms : m.receiver = q} = {m \in {} : m.receiver = q}
      BY <1>3
    <2>2. Credit(ms, q) = Credit({}, q)
      BY <2>1 DEF Credit
    <2> QED
      BY <1>1, <1>3, <2>2, NoCredit DEF Share
  <1> QED
    BY <1>2, <1>3

LEMMA WealthNow ==
  ASSUME NEW next, Ok(written, next)
  PROVE  /\ Mailbag(written.mail) /\ Wealth \in [Players -> Nat]
         /\ \A q \in Players : /\ written.gold[q] \in Nat /\ Credit(written.mail, q) \in Nat
                               /\ Wealth[q] = written.gold[q] + Credit(written.mail, q)
  <1>1. Mailbag(written.mail)
    BY MailFacts DEF Mailbag
  <1>2. \A q \in Players : Credit(written.mail, q) \in Nat
    BY <1>1, CreditType
  <1>3. \A q \in Players : written.gold[q] \in Nat
    BY TablesFacts, TablesAssumption DEF Ok
  <1>4. Wealth = [q \in Players |-> written.gold[q] + Credit(written.mail, q)]
    BY DEF Wealth, Credit
  <1> QED
    BY <1>1, <1>2, <1>3, <1>4

LEMMA WealthNext ==
  ASSUME NEW next, Ok(written', next)
  PROVE  /\ Mailbag(written'.mail) /\ Wealth' \in [Players -> Nat]
         /\ \A q \in Players : /\ written'.gold[q] \in Nat /\ Credit(written'.mail, q) \in Nat
                               /\ Wealth'[q] = written'.gold[q] + Credit(written'.mail, q)
  <1>1. Mailbag(written'.mail)
    BY MailFacts DEF Mailbag
  <1>2. \A q \in Players : Credit(written'.mail, q) \in Nat
    BY <1>1, CreditType
  <1>3. \A q \in Players : written'.gold[q] \in Nat
    BY TablesFacts, TablesAssumption DEF Ok
  <1>4. Wealth' = [q \in Players |-> written'.gold[q] + Credit(written'.mail, q)]
    BY DEF Wealth, Credit
  <1> QED
    BY <1>1, <1>2, <1>3, <1>4

-----------------------------------------------------------------------------
(***************************************************************************)
(* Whom an item belongs to.                                                *)
(***************************************************************************)
Holder(m) == IF m.cod > 0 THEN m.sender ELSE m.receiver
OwnerOf(db, i) ==
    IF Bags(db, i) # {} THEN CHOOSE p \in Bags(db, i) : TRUE
    ELSE IF Posts(db, i) # {} THEN Holder(CHOOSE m \in Posts(db, i) : TRUE) ELSE None
Apart(db) == \A i \in Items : OnePlace(db, i)

LEMMA BagOwner ==
  ASSUME NEW db, Apart(db), NEW i \in Items, NEW p \in Players, i \in db.inventory[p]
  PROVE  OwnerOf(db, i) = p
  <1>1. Bags(db, i) = {p}
    BY InBag DEF Apart
  <1> QED
    BY <1>1 DEF OwnerOf

LEMMA PostOwner ==
  ASSUME NEW db, Apart(db), NEW i \in Items, NEW m \in db.mail, m.item = i
  PROVE  OwnerOf(db, i) = Holder(m)
  <1>1. Bags(db, i) = {} /\ Posts(db, i) = {m}
    BY InPost DEF Apart
  <1>2. (CHOOSE x \in Posts(db, i) : TRUE) = m
    BY <1>1
  <1> QED
    BY <1>1, <1>2 DEF OwnerOf

LEMMA LotOwner ==
  ASSUME NEW db, Apart(db), NEW i \in Items, NEW a \in db.auction, a.item = i
  PROVE  OwnerOf(db, i) = None
  <1>1. Bags(db, i) = {} /\ Posts(db, i) = {}
    BY InLot DEF Apart
  <1> QED
    BY <1>1 DEF OwnerOf

LEMMA NoOwner ==
  ASSUME NEW db, NEW i, Bags(db, i) = {}, Posts(db, i) = {}
  PROVE  OwnerOf(db, i) = None
  BY DEF OwnerOf

LEMMA SameOwner ==
  ASSUME NEW db, NEW d, NEW i, Bags(d, i) = Bags(db, i), Posts(d, i) = Posts(db, i)
  PROVE  OwnerOf(d, i) = OwnerOf(db, i)
  BY DEF OwnerOf

LEMMA BelongingsNow == Belongings = [i \in Items |-> OwnerOf(written, i)]
  <1>1. ASSUME NEW i \in Items PROVE BelongsTo(i) = OwnerOf(written, i)
    BY DEF BelongsTo, OwnerOf, Bags, Posts, Holder
  <1> QED
    BY <1>1 DEF Belongings

LEMMA BelongingsNext == Belongings' = [i \in Items |-> OwnerOf(written', i)]
  <1>1. ASSUME NEW i \in Items PROVE BelongsTo(i)' = OwnerOf(written', i)
    BY DEF BelongsTo, OwnerOf, Bags, Posts, Holder
  <1> QED
    BY <1>1 DEF Belongings

-----------------------------------------------------------------------------
(***************************************************************************)
(* What is for sale.                                                       *)
(***************************************************************************)
Shown(a) == [owner |-> a.owner, bidder |-> a.bidder, bid |-> a.bid]
\* No item is for sale twice.
Singly(sales) == \A a, b \in sales : a.item = b.item => a = b
Board(f, sales) ==
    f = [i \in {a.item : a \in sales} |-> Shown(CHOOSE a \in sales : a.item = i)]

LEMMA BoardIs ==
  ASSUME NEW f, NEW sales, Board(f, sales), Singly(sales)
  PROVE  /\ DOMAIN f = {a.item : a \in sales} /\ f = [i \in DOMAIN f |-> f[i]]
         /\ \A a \in sales : f[a.item] = Shown(a)
  <1>1. DOMAIN f = {a.item : a \in sales} /\ f = [i \in DOMAIN f |-> f[i]]
    BY DEF Board
  <1>2. ASSUME NEW a \in sales PROVE f[a.item] = Shown(a)
    <2>1. f[a.item] = Shown(CHOOSE x \in sales : x.item = a.item)
      BY DEF Board
    <2>2. PICK b : b = CHOOSE x \in sales : x.item = a.item
      OBVIOUS
    <2>3. b \in sales /\ b.item = a.item
      BY <2>2
    <2>4. b = a
      BY <2>3 DEF Singly
    <2> QED
      BY <2>1, <2>2, <2>4
  <1> QED
    BY <1>1, <1>2

LEMMA BoardUnique ==
  ASSUME NEW f, NEW sales, Board(f, sales), Singly(sales), NEW g, g = [i \in DOMAIN g |-> g[i]],
         DOMAIN g = {a.item : a \in sales}, \A a \in sales : g[a.item] = Shown(a)
  PROVE  f = g
  <1>1. DOMAIN f = DOMAIN g /\ f = [i \in DOMAIN f |-> f[i]]
    BY BoardIs
  <1>2. \A a \in sales : f[a.item] = Shown(a)
    BY BoardIs
  <1>3. \A i \in DOMAIN g : f[i] = g[i]
    BY <1>2
  <1> QED
    BY <1>1, <1>3

LEMMA BoardAdds ==
  ASSUME NEW f, NEW sales, Board(f, sales), Singly(sales), NEW a,
         NEW h, Board(h, sales \cup {a}), Singly(sales \cup {a}), a \notin sales
  PROVE  h = [j \in DOMAIN f \cup {a.item} |-> IF j = a.item THEN Shown(a) ELSE f[j]]
  <1>1. PICK g : g = [j \in DOMAIN f \cup {a.item} |-> IF j = a.item THEN Shown(a) ELSE f[j]]
    OBVIOUS
  <1>2. DOMAIN g = DOMAIN f \cup {a.item} /\ g = [j \in DOMAIN g |-> g[j]]
    BY <1>1
  <1>3. DOMAIN f = {x.item : x \in sales} /\ \A x \in sales : f[x.item] = Shown(x)
    BY BoardIs
  <1>4. \A x \in sales : x.item # a.item
    BY DEF Singly
  <1>5. DOMAIN g = {x.item : x \in sales \cup {a}}
    BY <1>2, <1>3
  <1>6. \A x \in sales \cup {a} : g[x.item] = Shown(x)
    BY <1>1, <1>3, <1>4
  <1>7. PICK all : all = sales \cup {a}
    OBVIOUS
  <1>8. h = g
    BY <1>2, <1>5, <1>6, <1>7, BoardUnique
  <1> QED
    BY <1>1, <1>8

LEMMA BoardDrops ==
  ASSUME NEW f, NEW sales, Board(f, sales), Singly(sales), NEW a \in sales,
         NEW rest, rest = sales \ {a}, NEW h, Board(h, rest)
  PROVE  h = [j \in DOMAIN f \ {a.item} |-> f[j]]
  <1>1. PICK g : g = [j \in DOMAIN f \ {a.item} |-> f[j]]
    OBVIOUS
  <1>2. DOMAIN g = DOMAIN f \ {a.item} /\ g = [j \in DOMAIN g |-> g[j]]
    BY <1>1
  <1>3. DOMAIN f = {x.item : x \in sales} /\ \A x \in sales : f[x.item] = Shown(x)
    BY BoardIs
  <1>4. \A x \in sales : x.item = a.item => x = a
    BY DEF Singly
  <1>5. Singly(rest)
    BY DEF Singly
  <1>6. DOMAIN g = {x.item : x \in rest}
    BY <1>2, <1>3, <1>4
  <1>7. \A x \in rest : g[x.item] = Shown(x)
    BY <1>1, <1>3, <1>4
  <1>8. h = g
    BY <1>2, <1>5, <1>6, <1>7, BoardUnique
  <1> QED
    BY <1>1, <1>8

LEMMA BoardChanges ==
  ASSUME NEW f, NEW sales, Board(f, sales), Singly(sales), NEW a \in sales, NEW e, e.item = a.item,
         NEW some, some = (sales \ {a}) \cup {e}, NEW h, Board(h, some)
  PROVE  h = [f EXCEPT ![a.item] = Shown(e)]
  <1>1. PICK g : g = [f EXCEPT ![a.item] = Shown(e)]
    OBVIOUS
  <1>2. DOMAIN f = {x.item : x \in sales} /\ f = [i \in DOMAIN f |-> f[i]]
        /\ \A x \in sales : f[x.item] = Shown(x)
    BY BoardIs
  <1>3. DOMAIN g = DOMAIN f /\ g = [j \in DOMAIN g |-> g[j]]
    BY <1>1
  <1>4. \A x \in sales : x.item = a.item => x = a
    BY DEF Singly
  <1>5. Singly(some)
    BY <1>4 DEF Singly
  <1>6. DOMAIN g = {x.item : x \in some}
    BY <1>2, <1>3
  <1>7. \A x \in some : g[x.item] = Shown(x)
    BY <1>1, <1>2, <1>4
  <1>8. h = g
    BY <1>3, <1>5, <1>6, <1>7, BoardUnique
  <1> QED
    BY <1>1, <1>8

-----------------------------------------------------------------------------
(***************************************************************************)
(* What a step of the auction house starts from, and ends with.            *)
(***************************************************************************)
Sound == mailId \in Nat /\ Ok(written, mailId) /\ Settled(written) /\ Sales

Accounts(w, db) ==
    /\ w \in [Players -> Nat]
    /\ \A q \in Players : /\ db.gold[q] \in Nat /\ Credit(db.mail, q) \in Nat
                          /\ w[q] = db.gold[q] + Credit(db.mail, q)
Owners(o, db) == o = [i \in Items |-> OwnerOf(db, i)]
Ground(w, o, f, db) ==
    /\ Accounts(w, db) /\ Owners(o, db) /\ Board(f, db.auction)
    /\ Mailbag(db.mail) /\ Apart(db) /\ Singly(db.auction)
    /\ DOMAIN db.gold = Players /\ DOMAIN db.inventory = Players

LEMMA ApartSingly ==
  ASSUME NEW db, NEW next, Ok(db, next), Apart(db)
  PROVE  Singly(db.auction)
  <1>1. \A a \in db.auction : a.item \in Items
    BY DEF Ok, SalesOk, AuctionTable, Auctions
  <1>2. ASSUME NEW a \in db.auction, NEW b \in db.auction, a.item = b.item
        PROVE  a = b
    <2>1. OnePlace(db, a.item)
      BY <1>1 DEF Apart
    <2>2. Lots(db, a.item) = {a}
      BY <2>1, InLot
    <2> QED
      BY <1>2, <2>2 DEF Lots
  <1> QED
    BY <1>2 DEF Singly

LEMMA GroundNow ==
  ASSUME Sound
  PROVE  Ground(Wealth, Belongings, ForSale, written)
  <1>1. Ok(written, mailId) /\ Apart(written) /\ Sales
    BY DEF Sound, Settled, Apart
  <1>2. Mailbag(written.mail) /\ Accounts(Wealth, written)
    BY <1>1, WealthNow DEF Accounts
  <1>3. Owners(Belongings, written)
    BY BelongingsNow DEF Owners
  <1>4. Board(ForSale, written.auction)
    BY <1>1 DEF Board, ForSale, Sales, Shown
  <1>5. DOMAIN written.gold = Players /\ DOMAIN written.inventory = Players
    BY <1>1, TablesFacts DEF Ok, GoldTable, InventoryTable
  <1> QED
    BY <1>1, <1>2, <1>3, <1>4, <1>5, ApartSingly DEF Ground

LEMMA GroundNext ==
  ASSUME Sound'
  PROVE  Ground(Wealth', Belongings', ForSale', written')
  <1>1. Ok(written', mailId') /\ Apart(written') /\ Sales'
    BY DEF Sound, Settled, Apart
  <1>2. Mailbag(written'.mail) /\ Accounts(Wealth', written')
    BY <1>1, WealthNext DEF Accounts
  <1>3. Owners(Belongings', written')
    BY BelongingsNext DEF Owners
  <1>4. Board(ForSale', written'.auction)
    BY <1>1 DEF Board, ForSale, Sales, Shown
  <1>5. DOMAIN written'.gold = Players /\ DOMAIN written'.inventory = Players
    BY <1>1, TablesFacts DEF Ok, GoldTable, InventoryTable
  <1> QED
    BY <1>1, <1>2, <1>3, <1>4, <1>5, ApartSingly DEF Ground

LEMMA GroundRich ==
  ASSUME Sound, Sound'
  PROVE  Rich
  BY GroundNow, GroundNext DEF Ground, Accounts, Rich

-----------------------------------------------------------------------------
(***************************************************************************)
(* The handlers of the mail.                                               *)
(***************************************************************************)
LEMMA NothingForSale ==
  ASSUME UNCHANGED <<auctions, aitems>>
  PROVE  ForSale' = ForSale
  BY DEF ForSale

\* An item that stays where it was belongs to whom it did.
Stays(i) == Bags(written', i) = Bags(written, i) /\ Posts(written', i) = Posts(written, i)
LEMMA StaysOwned ==
  ASSUME Sound, Sound', NEW i \in Items, Stays(i)
  PROVE  Belongings'[i] = Belongings[i]
  <1>1. Belongings[i] = OwnerOf(written, i) /\ Belongings'[i] = OwnerOf(written', i)
    BY GroundNow, GroundNext DEF Ground, Owners
  <1>2. OwnerOf(written', i) = OwnerOf(written, i)
    BY SameOwner DEF Stays
  <1> QED
    BY <1>1, <1>2

LEMMA OwnedNow ==
  ASSUME Sound, NEW i \in Items
  PROVE  /\ \A p \in Players : i \in written.inventory[p] => Belongings[i] = p
         /\ \A m \in written.mail : m.item = i => Belongings[i] = Holder(m)
         /\ \A a \in written.auction : a.item = i => Belongings[i] = None
         /\ Bags(written, i) = {} /\ Posts(written, i) = {} => Belongings[i] = None
  <1>1. Belongings[i] = OwnerOf(written, i) /\ Apart(written)
    BY GroundNow DEF Ground, Owners
  <1> QED
    BY <1>1, BagOwner, PostOwner, LotOwner, NoOwner

LEMMA OwnedNext ==
  ASSUME Sound', NEW i \in Items
  PROVE  /\ \A p \in Players : i \in written'.inventory[p] => Belongings'[i] = p
         /\ \A m \in written'.mail : m.item = i => Belongings'[i] = Holder(m)
         /\ \A a \in written'.auction : a.item = i => Belongings'[i] = None
         /\ Bags(written', i) = {} /\ Posts(written', i) = {} => Belongings'[i] = None
  <1>1. Belongings'[i] = OwnerOf(written', i) /\ Apart(written')
    BY GroundNext DEF Ground, Owners
  <1> QED
    BY <1>1, BagOwner, PostOwner, LotOwner, NoOwner

\* Belongings, one by one.
LEMMA SameBelongings ==
  ASSUME Sound', NEW F, F = [i \in Items |-> F[i]], \A i \in Items : Belongings'[i] = F[i]
  PROVE  Belongings' = F
  <1>1. Belongings' = [i \in Items |-> OwnerOf(written', i)]
    BY GroundNext DEF Ground, Owners
  <1> QED
    BY <1>1

LEMMA SendsOnMarket ==
  ASSUME Sound, Sound', NEW p \in Players, NEW m, NEW g, Sends(p, g, m),
         UNCHANGED <<auctions, aitems, deaths>>
  PROVE  TheMarket!Next
  <1>1. /\ m \in WideMails /\ m \notin written.mail /\ m.sender = p /\ m.receiver # p
        /\ g \in Nat /\ g + m.money <= written.gold[p]
        /\ m.item # None => m.item \in written.inventory[p]
        /\ written'.gold = [written.gold EXCEPT ![p] = g]
        /\ written'.inventory = [written.inventory EXCEPT ![p] = @ \ {m.item}]
        /\ written'.mail = written.mail \cup {m}
    BY DEF Sends, Change
  <1>2. PICK q, n, c : q = m.receiver /\ n = m.money /\ c = m.item
    OBVIOUS
  <1>3. q \in Players /\ n \in Nat /\ c \in Items \cup {None} /\ p # q
    BY <1>1, <1>2 DEF WideMails
  <1>4. /\ Accounts(Wealth, written) /\ Accounts(Wealth', written') /\ Mailbag(written.mail)
        /\ DOMAIN written.gold = Players /\ DOMAIN written.inventory = Players
    BY GroundNow, GroundNext DEF Ground
  <1>5. \A r \in Players : Credit(written'.mail, r) = Credit(written.mail, r) + Share(r, q, n)
    BY <1>1, <1>2, <1>4, CreditAdd
  <1>6. PICK fee : fee = written.gold[p] - (g + n)
    OBVIOUS
  <1>7. written.gold[p] \in Nat /\ fee \in Nat /\ n + fee = written.gold[p] - g
    BY <1>1, <1>2, <1>3, <1>4, <1>6 DEF Accounts
  <1>8. n + fee <= Wealth[p]
    BY <1>1, <1>3, <1>4, <1>7 DEF Accounts
  <1>9. ASSUME NEW r \in Players
        PROVE  Wealth'[r] = Wealth[r] - Share(r, p, n + fee) + Share(r, q, n)
    <2>1. /\ Wealth[r] = written.gold[r] + Credit(written.mail, r)
          /\ Wealth'[r] = written'.gold[r] + Credit(written'.mail, r)
          /\ written.gold[r] \in Nat /\ Credit(written.mail, r) \in Nat
      BY <1>4 DEF Accounts
    <2>2. Credit(written'.mail, r) = Credit(written.mail, r) + Share(r, q, n)
      BY <1>5
    <2>3. Share(r, q, n) \in Int /\ Share(r, p, n + fee) \in Int
      BY <1>3, <1>7, ShareType
    <2>4. written'.gold[r] = written.gold[r] - Share(r, p, n + fee)
      BY <1>1, <1>4, <1>7, <2>1 DEF Share
    <2> QED
      BY <2>1, <2>2, <2>3, <2>4
  <1>10. PICK gifts : gifts = IF m.cod = 0 THEN {c} \cap Items ELSE {}
    OBVIOUS
  <1>11. m.cod \in Nat
    BY <1>1, TablesAssumption DEF WideMails
  <1>12. c \in Items => Belongings[c] = p
    BY <1>1, <1>2, <1>3, OwnedNow, TablesAssumption
  <1>13. c \in Items => Belongings'[c] = IF m.cod = 0 THEN q ELSE p
    <2>1. c \in Items => Belongings'[c] = Holder(m)
      BY <1>1, <1>2, OwnedNext
    <2> QED
      BY <1>1, <1>2, <1>11, <2>1 DEF Holder
  <1>14. ASSUME NEW i \in Items, i # c PROVE Belongings'[i] = Belongings[i]
    <2>1. Stays(i)
      BY <1>1, <1>2, <1>4, <1>14 DEF Stays, Bags, Posts
    <2> QED
      BY <2>1, StaysOwned
  <1>15. PICK F : F = [i \in Items |-> IF i \in gifts THEN q ELSE Belongings[i]]
    OBVIOUS
  <1>16. \A i \in Items : Belongings'[i] = F[i]
    BY <1>10, <1>12, <1>13, <1>14, <1>15
  <1>17. Belongings' = F
    BY <1>15, <1>16, SameBelongings
  <1>18. gifts \in SUBSET Items /\ \A i \in gifts : Belongings[i] = p
    BY <1>10, <1>12
  <1>19. ForSale' = ForSale /\ deaths' = deaths
    BY NothingForSale
  <1> QED
    BY <1>3, <1>7, <1>8, <1>9, <1>15, <1>17, <1>18, <1>19, GroundRich, GiveOnMarket

LEMMA ReturnsOnMarket ==
  ASSUME Sound, Sound', NEW k, NEW m, Returns(k, m), UNCHANGED <<auctions, aitems, deaths>>
  PROVE  TheMarket!Next
  <1>1. /\ k \in written.mail /\ k.sender \in Players /\ k.sender # k.receiver
        /\ m \in WideMails /\ m \notin written.mail /\ m.receiver = k.sender
        /\ m.money = k.money /\ m.item = k.item /\ m.cod = 0
        /\ written'.gold = written.gold /\ written'.inventory = written.inventory
        /\ written'.mail = (written.mail \ {k}) \cup {m}
    BY DEF Returns, Back, Change
  <1>2. /\ Accounts(Wealth, written) /\ Accounts(Wealth', written') /\ Mailbag(written.mail)
        /\ DOMAIN written.gold = Players /\ DOMAIN written.inventory = Players
    BY GroundNow, GroundNext DEF Ground
  <1>3. PICK p, q, n, c : p = k.receiver /\ q = k.sender /\ n = k.money /\ c = k.item
    OBVIOUS
  <1>4. p \in Players /\ q \in Players /\ n \in Nat /\ c \in Items \cup {None} /\ p # q
    BY <1>1, <1>2, <1>3 DEF WideMails, Mailbag
  <1>5. PICK rest : rest = written.mail \ {k}
    OBVIOUS
  <1>6. \A r \in Players : /\ Mailbag(rest) /\ Credit(rest, r) \in Nat
                           /\ Credit(written.mail, r) = Credit(rest, r) + Share(r, p, n)
    BY <1>1, <1>2, <1>3, <1>5, CreditDrop
  <1>7. \A r \in Players : Credit(written'.mail, r) = Credit(rest, r) + Share(r, q, n)
    <2>1. m \notin rest /\ m \in WideMails /\ written'.mail = rest \cup {m}
      BY <1>1, <1>5
    <2>2. m.receiver = q /\ m.money = n
      BY <1>1, <1>3
    <2>3. ASSUME NEW r \in Players PROVE Credit(rest \cup {m}, r) = Credit(rest, r) + Share(r, m.receiver, m.money)
      BY <1>6, <2>1, CreditAdd
    <2> QED
      BY <2>1, <2>2, <2>3
  <1>8. n + 0 <= Wealth[p]
    BY <1>2, <1>4, <1>6 DEF Accounts, Share
  <1>9. ASSUME NEW r \in Players
        PROVE  Wealth'[r] = Wealth[r] - Share(r, p, n + 0) + Share(r, q, n)
    <2>1. /\ Wealth[r] = written.gold[r] + Credit(written.mail, r)
          /\ Wealth'[r] = written'.gold[r] + Credit(written'.mail, r)
          /\ written.gold[r] \in Nat /\ written'.gold[r] = written.gold[r]
      BY <1>1, <1>2 DEF Accounts
    <2>2. /\ Credit(written'.mail, r) = Credit(rest, r) + Share(r, q, n)
          /\ Credit(written.mail, r) = Credit(rest, r) + Share(r, p, n) /\ Credit(rest, r) \in Nat
      BY <1>6, <1>7
    <2>3. Share(r, q, n) \in Int /\ Share(r, p, n) \in Int /\ n + 0 = n
      BY <1>4, ShareType
    <2> QED
      BY <2>1, <2>2, <2>3
  <1>10. k.cod \in Nat
    BY <1>1, <1>2, TablesAssumption DEF WideMails, Mailbag
  <1>11. PICK gifts : gifts = IF k.cod = 0 THEN {c} \cap Items ELSE {}
    OBVIOUS
  <1>12. c \in Items => Belongings[c] = IF k.cod = 0 THEN p ELSE q
    <2>1. c \in Items => Belongings[c] = Holder(k)
      BY <1>1, <1>3, OwnedNow
    <2> QED
      BY <1>3, <1>10, <2>1 DEF Holder
  <1>13. c \in Items => Belongings'[c] = q
    <2>1. c \in Items => Belongings'[c] = Holder(m)
      BY <1>1, <1>3, OwnedNext
    <2> QED
      BY <1>1, <1>3, <2>1 DEF Holder
  <1>14. ASSUME NEW i \in Items, i # c PROVE Belongings'[i] = Belongings[i]
    <2>1. Stays(i)
      BY <1>1, <1>3, <1>14 DEF Stays, Bags, Posts
    <2> QED
      BY <2>1, StaysOwned
  <1>15. PICK F : F = [i \in Items |-> IF i \in gifts THEN q ELSE Belongings[i]]
    OBVIOUS
  <1>16. \A i \in Items : Belongings'[i] = F[i]
    BY <1>11, <1>12, <1>13, <1>14, <1>15
  <1>17. Belongings' = F
    BY <1>15, <1>16, SameBelongings
  <1>18. gifts \in SUBSET Items /\ \A i \in gifts : Belongings[i] = p
    BY <1>11, <1>12
  <1>19. ForSale' = ForSale /\ deaths' = deaths
    BY NothingForSale
  <1>20. 0 \in Nat
    OBVIOUS
  <1> QED
    BY <1>4, <1>8, <1>9, <1>15, <1>17, <1>18, <1>19, <1>20, GroundRich, GiveOnMarket

\* Letters that are deleted.
Contents(gone) == {i \in Items : \E m \in gone : m.item = i}
LEMMA GoneCredit ==
  ASSUME NEW ms, Mailbag(ms), NEW p, NEW gone, gone \subseteq ms, \A m \in gone : m.receiver = p,
         NEW rest, rest = ms \ gone, NEW r
  PROVE  /\ MoneyOf(gone) \in Nat /\ Credit(rest, r) \in Nat
         /\ Credit(ms, r) = Credit(rest, r) + Share(r, p, MoneyOf(gone))
  <1>1. Part(gone, ms, rest)
    BY DEF Part
  <1>2. /\ Mailbag(gone) /\ Credit(rest, r) \in Nat /\ Credit(gone, r) \in Nat
        /\ Credit(ms, r) = Credit(rest, r) + Credit(gone, r)
    BY <1>1, CreditParts
  <1>3. MoneyOf(gone) \in Nat /\ Credit(gone, r) = Share(r, p, MoneyOf(gone))
    BY <1>2, CreditTo
  <1> QED
    BY <1>2, <1>3

LEMMA GoneOwned ==
  ASSUME Sound, NEW p \in Players, NEW gone, gone \subseteq written.mail,
         \A m \in gone : m.receiver = p /\ m.cod = 0
  PROVE  /\ Contents(gone) \in SUBSET Items
         /\ \A i \in Contents(gone) : Belongings[i] = p
  <1>1. ASSUME NEW m \in gone, NEW i \in Items, m.item = i PROVE Belongings[i] = p
    <2>1. m \in written.mail /\ Holder(m) = p
      BY DEF Holder
    <2> QED
      BY <1>1, <2>1, OwnedNow
  <1> QED
    BY <1>1 DEF Contents

LEMMA ThrowsOnMarket ==
  ASSUME Sound, Sound', NEW p \in Players, NEW gone, Throws(p, gone),
         UNCHANGED <<auctions, aitems, deaths>>
  PROVE  TheMarket!Next
  <1>1. /\ gone \subseteq written.mail /\ \A m \in gone : m.receiver = p /\ m.cod = 0
        /\ written'.gold = written.gold /\ written'.inventory = written.inventory
        /\ written'.mail = written.mail \ gone
    BY DEF Throws, Change
  <1>2. /\ Accounts(Wealth, written) /\ Accounts(Wealth', written') /\ Mailbag(written.mail)
        /\ DOMAIN written.gold = Players /\ DOMAIN written.inventory = Players /\ Apart(written)
    BY GroundNow, GroundNext DEF Ground
  <1>3. PICK n, rest : n = MoneyOf(gone) /\ rest = written.mail \ gone
    OBVIOUS
  <1>4. \A r \in Players : /\ n \in Nat /\ Credit(rest, r) \in Nat
                           /\ Credit(written.mail, r) = Credit(rest, r) + Share(r, p, n)
    BY <1>1, <1>2, <1>3, GoneCredit
  <1>5. n \in Nat /\ n <= Wealth[p]
    BY <1>2, <1>4 DEF Accounts, Share
  <1>6. ASSUME NEW r \in Players
        PROVE  Wealth'[r] = Wealth[r] - Share(r, p, n)
    <2>1. /\ Wealth[r] = written.gold[r] + Credit(written.mail, r)
          /\ Wealth'[r] = written.gold[r] + Credit(rest, r) /\ written.gold[r] \in Nat
      BY <1>1, <1>2, <1>3 DEF Accounts
    <2>2. Credit(written.mail, r) = Credit(rest, r) + Share(r, p, n) /\ Credit(rest, r) \in Nat
      BY <1>4
    <2>3. Share(r, p, n) \in Int
      BY <1>5, ShareType
    <2> QED
      BY <2>1, <2>2, <2>3
  <1>7. PICK trash : trash = Contents(gone)
    OBVIOUS
  <1>8. trash \in SUBSET Items /\ \A i \in trash : Belongings[i] = p
    BY <1>1, <1>7, GoneOwned
  <1>9. ASSUME NEW i \in trash PROVE Belongings'[i] = None
    <2>1. PICK m \in gone : m.item = i /\ i \in Items
      BY <1>7 DEF Contents
    <2>2. Bags(written, i) = {} /\ Posts(written, i) = {m}
      BY <1>1, <1>2, <2>1, InPost DEF Apart
    <2>3. Bags(written', i) = {} /\ Posts(written', i) = {}
      BY <1>1, <2>1, <2>2 DEF Bags, Posts
    <2> QED
      BY <2>1, <2>3, OwnedNext
  <1>10. ASSUME NEW i \in Items, i \notin trash PROVE Belongings'[i] = Belongings[i]
    <2>1. Stays(i)
      BY <1>1, <1>7, <1>10 DEF Stays, Bags, Posts, Contents
    <2> QED
      BY <2>1, StaysOwned
  <1>11. PICK F : F = [i \in Items |-> IF i \in trash THEN None ELSE Belongings[i]]
    OBVIOUS
  <1>12. \A i \in Items : Belongings'[i] = F[i]
    BY <1>9, <1>10, <1>11
  <1>13. Belongings' = F
    BY <1>11, <1>12, SameBelongings
  <1>14. ForSale' = ForSale /\ deaths' = deaths
    BY NothingForSale
  <1> QED
    BY <1>5, <1>6, <1>8, <1>11, <1>13, <1>14, GroundRich, DiscardOnMarket

\* The letter k becomes j, and gone are deleted.
Swapped(ms, p, k, j, gone, left) ==
    /\ k \in ms /\ k.receiver = p /\ k \notin gone
    /\ gone \subseteq ms /\ \A m \in gone : m.receiver = p
    /\ j \in WideMails /\ j \notin ms /\ j.receiver = p
    /\ left = ((ms \ {k}) \ gone) \cup {j}
LEMMA SwapCredit ==
  ASSUME NEW ms, Mailbag(ms), NEW k, NEW p, NEW gone, NEW j, NEW left,
         Swapped(ms, p, k, j, gone, left), NEW r
  PROVE  /\ Mailbag(left) /\ Credit(left, r) \in Nat /\ MoneyOf(gone) \in Nat
         /\ k.money \in Nat /\ j.money \in Nat
         /\ Credit(ms, r) + Share(r, p, j.money)
               = Credit(left, r) + Share(r, p, MoneyOf(gone)) + Share(r, p, k.money)
         /\ r = p => MoneyOf(gone) <= Credit(ms, r)
  <1> USE DEF Swapped
  <1>1. PICK lean, rest : lean = ms \ {k} /\ rest = lean \ gone
    OBVIOUS
  <1>2. /\ Mailbag(lean) /\ Credit(lean, r) \in Nat
        /\ Credit(ms, r) = Credit(lean, r) + Share(r, p, k.money)
    BY <1>1, CreditDrop
  <1>3. /\ MoneyOf(gone) \in Nat /\ Credit(rest, r) \in Nat
        /\ Credit(lean, r) = Credit(rest, r) + Share(r, p, MoneyOf(gone))
    <2>1. gone \subseteq lean
      BY <1>1
    <2> QED
      BY <1>1, <1>2, <2>1, GoneCredit
  <1>4. Mailbag(rest)
    <2>1. Part(gone, lean, rest)
      BY <1>1 DEF Part
    <2> QED
      BY <1>2, <2>1, CreditParts
  <1>5. Mailbag(rest \cup {j}) /\ Credit(rest \cup {j}, r) = Credit(rest, r) + Share(r, p, j.money)
    <2>1. j \notin rest
      BY <1>1
    <2> QED
      BY <1>4, <2>1, CreditAdd
  <1>6. left = rest \cup {j}
    BY <1>1
  <1>7. k.money \in Nat /\ j.money \in Nat
    BY DEF Mailbag, WideMails
  <1>8. Credit(left, r) \in Nat
    BY <1>5, <1>6, CreditType
  <1>9. /\ Share(r, p, k.money) \in Int /\ Share(r, p, j.money) \in Int
        /\ Share(r, p, MoneyOf(gone)) \in Int
    BY <1>3, <1>7, ShareType
  <1>10. r = p => Share(r, p, k.money) >= 0 /\ Share(r, p, MoneyOf(gone)) = MoneyOf(gone)
    BY <1>7 DEF Share
  <1>11. Credit(ms, r) + Share(r, p, j.money)
            = Credit(left, r) + Share(r, p, MoneyOf(gone)) + Share(r, p, k.money)
    <2>1. ASSUME NEW A \in Int, NEW L \in Int, NEW R \in Int, NEW X \in Int, NEW J \in Int,
                 NEW N \in Int, NEW K \in Int, A = L + K, L = R + N, X = R + J
          PROVE  A + J = X + N + K
      BY <2>1
    <2> HIDE DEF Swapped
    <2>2. Credit(ms, r) \in Int
      BY CreditType
    <2>3. Credit(lean, r) \in Int /\ Credit(rest, r) \in Int /\ Credit(left, r) \in Int
      BY <1>2, <1>3, <1>8
    <2>4. Credit(left, r) = Credit(rest, r) + Share(r, p, j.money)
      BY <1>5, <1>6
    <2> QED
      BY <1>2, <1>3, <1>9, <2>1, <2>2, <2>3, <2>4
  <1>12. r = p => MoneyOf(gone) <= Credit(ms, r)
    BY <1>2, <1>3, <1>9, <1>10
  <1> QED
    BY <1>3, <1>5, <1>6, <1>7, <1>8, <1>11, <1>12

\* What was in the deleted letters belongs to nobody.
Emptied(k, j, ms, gone) ==
    /\ k \in written.mail /\ k \notin gone /\ gone \subseteq written.mail
    /\ written'.mail \subseteq ((written.mail \ {k}) \ gone) \cup {j} \cup ms
    /\ j.item \in {k.item, None} /\ \A m \in ms : m.item = None
    /\ \A q \in Players : written'.inventory[q] \subseteq written.inventory[q] \cup {k.item}
LEMMA SwapOwned ==
  ASSUME Sound, Sound', NEW k, NEW j, NEW ms, NEW gone, Emptied(k, j, ms, gone),
         NEW i \in Contents(gone)
  PROVE  Belongings'[i] = None /\ i # k.item
  <1> USE DEF Emptied
  <1>1. Apart(written)
    BY GroundNow DEF Ground
  <1>2. PICK m \in gone : m.item = i /\ i \in Items
    BY DEF Contents
  <1>3. Bags(written, i) = {} /\ Posts(written, i) = {m}
    BY <1>1, <1>2, InPost DEF Apart
  <1>4. i # k.item
    BY <1>2, <1>3 DEF Posts
  <1>5. i # None
    BY <1>2, TablesAssumption
  <1>6. Posts(written', i) = {}
    BY <1>2, <1>3, <1>4, <1>5 DEF Posts
  <1>7. Bags(written', i) = {}
    BY <1>3, <1>4 DEF Bags
  <1> QED
    BY <1>2, <1>4, <1>6, <1>7, OwnedNext

LEMMA CashesOnMarket ==
  ASSUME Sound, Sound', NEW p \in Players, NEW k, NEW j, NEW gone, Cashes(p, k, j, gone),
         UNCHANGED <<auctions, aitems, deaths>>
  PROVE  TheMarket!Next
  <1>1. PICK g : /\ gone \subseteq written.mail /\ \A m \in gone : m.receiver = p /\ m.cod = 0
                 /\ k \in written.mail /\ k \notin gone /\ k.receiver = p
                 /\ j = [k EXCEPT !.money = 0] /\ j \notin written.mail
                 /\ g \in 0 .. MaxMoney
                 /\ g <= written.gold[p] + k.money
                 /\ written'.gold = [written.gold EXCEPT ![p] = g]
                 /\ written'.inventory = written.inventory
                 /\ written'.mail = ((written.mail \ {k}) \cup {j}) \ gone
    BY DEF Cashes, Change
  <1>2. /\ Accounts(Wealth, written) /\ Accounts(Wealth', written') /\ Mailbag(written.mail)
        /\ DOMAIN written.gold = Players /\ DOMAIN written.inventory = Players /\ Apart(written)
    BY GroundNow, GroundNext DEF Ground
  <1>3. k \in WideMails
    BY <1>1, <1>2 DEF Mailbag
  <1>4. /\ j \in WideMails /\ j.receiver = p /\ j.money = 0 /\ j.item = k.item
        /\ j.cod = k.cod /\ j.sender = k.sender
    BY <1>1, <1>3 DEF WideMails
  <1>5. Swapped(written.mail, p, k, j, gone, written'.mail)
    BY <1>1, <1>4 DEF Swapped
  <1>6. PICK dead : dead = MoneyOf(gone)
    OBVIOUS
  <1>7. ASSUME NEW r \in Players
        PROVE  /\ dead \in Nat /\ k.money \in Nat
               /\ Credit(written.mail, r) + Share(r, p, 0)
                     = Credit(written'.mail, r) + Share(r, p, dead) + Share(r, p, k.money)
    BY <1>2, <1>4, <1>5, <1>6, SwapCredit
  <1>8. PICK lost : lost = k.money - (g - written.gold[p])
    OBVIOUS
  <1>9. PICK n : n = dead + lost
    OBVIOUS
  <1>10. /\ written.gold[p] \in Nat /\ g \in Nat /\ k.money \in Nat /\ dead \in Nat
         /\ lost \in Nat /\ n \in Nat
    <2>1. MaxMoney \in Nat /\ g \in Nat
      BY <1>1, TablesAssumption
    <2>2. written.gold[p] \in Nat
      BY <1>2 DEF Accounts
    <2>3. k.money \in Nat /\ dead \in Nat
      BY <1>7
    <2> HIDE DEF Credit
    <2>4. lost \in Nat
      BY <1>1, <1>8, <2>1, <2>2, <2>3
    <2> QED
      BY <1>9, <2>1, <2>2, <2>3, <2>4
  <1>11. ASSUME NEW r \in Players
         PROVE  Wealth'[r] = Wealth[r] - Share(r, p, n) /\ Wealth'[r] \in Nat
    <2>1. /\ Wealth[r] = written.gold[r] + Credit(written.mail, r)
          /\ Wealth'[r] = written'.gold[r] + Credit(written'.mail, r)
          /\ written.gold[r] \in Nat /\ Credit(written.mail, r) \in Nat
          /\ written'.gold[r] \in Nat /\ Credit(written'.mail, r) \in Nat
      BY <1>2 DEF Accounts
    <2>2. /\ Share(r, p, 0) = 0
          /\ Credit(written.mail, r) + Share(r, p, 0)
                = Credit(written'.mail, r) + Share(r, p, dead) + Share(r, p, k.money)
      BY <1>7 DEF Share
    <2>3. CASE r = p
      <3>1. /\ Share(r, p, dead) = dead /\ Share(r, p, k.money) = k.money /\ Share(r, p, n) = n
            /\ written'.gold[r] = g /\ written.gold[r] = written.gold[p]
        BY <1>1, <1>2, <2>3 DEF Share
      <3>2. Credit(written.mail, r) + 0 = Credit(written'.mail, r) + dead + k.money
        BY <2>2, <3>1
      <3> QED
        BY <1>8, <1>9, <1>10, <2>1, <3>1, <3>2
    <2>4. CASE r # p
      <3>1. /\ Share(r, p, dead) = 0 /\ Share(r, p, k.money) = 0 /\ Share(r, p, n) = 0
            /\ written'.gold[r] = written.gold[r]
        BY <1>1, <1>2, <2>4 DEF Share
      <3> QED
        BY <2>1, <2>2, <3>1
    <2> QED
      BY <2>3, <2>4
  <1>12. n <= Wealth[p]
    <2>1. /\ Wealth'[p] = Wealth[p] - Share(p, p, n) /\ Wealth'[p] \in Nat
          /\ Share(p, p, n) = n
      BY <1>11 DEF Share
    <2>2. Wealth[p] \in Nat
      BY GroundRich DEF Rich
    <2> QED
      BY <1>10, <2>1, <2>2
  <1>13. PICK trash : trash = Contents(gone)
    OBVIOUS
  <1>14. trash \in SUBSET Items /\ \A i \in trash : Belongings[i] = p
    BY <1>1, <1>13, GoneOwned
  <1>15. ASSUME NEW i \in trash PROVE Belongings'[i] = None /\ i # k.item
    <2>1. Emptied(k, j, {}, gone)
      BY <1>1, <1>4 DEF Emptied
    <2> QED
      BY <1>13, <2>1, SwapOwned
  <1>16. ASSUME NEW i \in Items, i = k.item PROVE Belongings'[i] = Belongings[i]
    <2>1. j \in written'.mail /\ j.item = i
      BY <1>1, <1>4, <1>16
    <2>2. Belongings'[i] = Holder(j)
      BY <2>1, OwnedNext
    <2>3. k \in written.mail /\ k.item = i
      BY <1>1, <1>16
    <2>4. Belongings[i] = Holder(k)
      BY <2>3, OwnedNow
    <2> QED
      BY <1>1, <1>4, <2>2, <2>4 DEF Holder
  <1>17. ASSUME NEW i \in Items, i \notin trash, i # k.item PROVE Belongings'[i] = Belongings[i]
    <2>1. Stays(i)
      BY <1>1, <1>4, <1>13, <1>17 DEF Stays, Bags, Posts, Contents
    <2> QED
      BY <2>1, StaysOwned
  <1>18. PICK F : F = [i \in Items |-> IF i \in trash THEN None ELSE Belongings[i]]
    OBVIOUS
  <1>19. \A i \in Items : Belongings'[i] = F[i]
    BY <1>15, <1>16, <1>17, <1>18
  <1>20. Belongings' = F
    BY <1>18, <1>19, SameBelongings
  <1>21. ForSale' = ForSale /\ deaths' = deaths
    BY NothingForSale
  <1> QED
    BY <1>14, <1>18, <1>20, <1>21, <1>10, <1>11, <1>12, GroundRich, DiscardOnMarket

\* What the letter of p is in the end, and what is taken out of it.
Unpacks(p, k, j, gone, left) ==
    /\ Swapped(written.mail, p, k, j, gone, left) /\ \A m \in gone : m.cod = 0
    /\ k.item \in Items /\ k.cod \in Nat /\ k.cod <= written.gold[p]
    /\ j.item = None /\ j.money = k.money
    /\ written'.gold = [written.gold EXCEPT ![p] = written.gold[p] - k.cod]
    /\ written'.inventory = [written.inventory EXCEPT ![p] = @ \cup {k.item}]

LEMMA TakesUnpacks ==
  ASSUME Sound, NEW p \in Players, NEW k, NEW j, NEW ms, NEW gone, Takes(p, k, j, ms, gone)
  PROVE  \E left : /\ Unpacks(p, k, j, gone, left) /\ Payment(p, k, ms)
                   /\ written'.mail = left \cup ms /\ left \cap ms = {}
  <1>1. /\ gone \subseteq written.mail /\ \A m \in gone : m.receiver = p /\ m.cod = 0
        /\ k \in written.mail /\ k \notin gone /\ k.receiver = p /\ k.item \in Items
        /\ j = [k EXCEPT !.item = None, !.cod = 0] /\ j \notin written.mail /\ j \notin ms
        /\ Payment(p, k, ms) /\ k.cod <= written.gold[p]
        /\ written'.gold = [written.gold EXCEPT ![p] = written.gold[p] - k.cod]
        /\ written'.inventory = [written.inventory EXCEPT ![p] = @ \cup {k.item}]
        /\ written'.mail = (((written.mail \cup ms) \ {k}) \cup {j}) \ gone
    BY DEF Takes, Change
  <1>2. Mailbag(written.mail)
    BY GroundNow DEF Ground
  <1>3. k \in WideMails
    BY <1>1, <1>2 DEF Mailbag
  <1>4. /\ j \in WideMails /\ j.receiver = p /\ j.money = k.money /\ j.item = None
        /\ k.cod \in Nat
    <2>1. k.cod \in Nat /\ 0 \in 0 .. Width - 1
      BY <1>3, TablesAssumption DEF WideMails
    <2>2. DOMAIN k = {"id", "type", "sender", "receiver", "money", "cod", "item", "checked"}
      BY <1>3 DEF WideMails
    <2>3. /\ j.receiver = k.receiver /\ j.money = k.money /\ j.item = None /\ j.cod = 0
          /\ j.id = k.id /\ j.type = k.type /\ j.sender = k.sender /\ j.checked = k.checked
      BY <1>1, <2>2
    <2>4. j = [id |-> j.id, type |-> j.type, sender |-> j.sender, receiver |-> j.receiver,
               money |-> j.money, cod |-> j.cod, item |-> j.item, checked |-> j.checked]
      BY <1>1, <2>2
    <2>5. /\ j.id \in Nat /\ j.type \in {"normal", "auction"} /\ j.sender \in Players \cup {None}
          /\ j.receiver \in Players /\ j.money \in Nat /\ j.cod \in 0 .. Width - 1
          /\ j.item \in Items \cup {None} /\ j.checked \in {"plain", "returned", "payment"}
      BY <1>3, <2>1, <2>3 DEF WideMails
    <2>6. j \in WideMails
      BY <2>4, <2>5 DEF WideMails
    <2> QED
      BY <1>1, <2>1, <2>3, <2>6
  <1>5. ms \cap written.mail = {}
    BY <1>1 DEF Payment
  <1>6. PICK left : left = ((written.mail \ {k}) \ gone) \cup {j}
    OBVIOUS
  <1>7. written'.mail = left \cup ms /\ left \cap ms = {}
    BY <1>1, <1>5, <1>6
  <1>8. Unpacks(p, k, j, gone, left)
    BY <1>1, <1>4, <1>6 DEF Unpacks, Swapped
  <1> QED
    BY <1>1, <1>7, <1>8

Unpacked(p, k, trash) ==
    /\ trash \in SUBSET Items /\ \A i \in trash : Belongings[i] = p
    /\ k.item \in Items /\ Belongings[k.item] = Holder(k)
    /\ Belongings' = [x \in Items |-> IF x = k.item THEN p
                                      ELSE IF x \in trash THEN None ELSE Belongings[x]]
Beside(left, ms) == written'.mail = left \cup ms /\ \A m \in ms : m.item = None

LEMMA UnpacksBelongings ==
  ASSUME Sound, Sound', NEW p \in Players, NEW k, NEW j, NEW ms, NEW gone, NEW left,
         Unpacks(p, k, j, gone, left), Beside(left, ms)
  PROVE  Unpacked(p, k, Contents(gone))
  <1>1. /\ k \in written.mail /\ k.receiver = p /\ k \notin gone
        /\ gone \subseteq written.mail /\ \A m \in gone : m.receiver = p /\ m.cod = 0
        /\ left = ((written.mail \ {k}) \ gone) \cup {j}
        /\ k.item \in Items /\ j.item = None
        /\ written'.inventory = [written.inventory EXCEPT ![p] = @ \cup {k.item}]
    BY DEF Unpacks, Swapped
  <1>2. DOMAIN written.inventory = Players
    BY GroundNow DEF Ground
  <1>3. PICK trash : trash = Contents(gone)
    OBVIOUS
  <1>4. trash \in SUBSET Items /\ \A i \in trash : Belongings[i] = p
    BY <1>1, <1>3, GoneOwned
  <1>5. ASSUME NEW i \in trash PROVE Belongings'[i] = None /\ i # k.item
    <2>1. Emptied(k, j, ms, gone)
      BY <1>1, <1>2 DEF Emptied, Beside
    <2> QED
      BY <1>3, <2>1, SwapOwned
  <1>6. Belongings[k.item] = Holder(k)
    BY <1>1, OwnedNow
  <1>7. Belongings'[k.item] = p
    <2>1. k.item \in written'.inventory[p]
      BY <1>1, <1>2
    <2> QED
      BY <1>1, <2>1, OwnedNext
  <1>8. ASSUME NEW i \in Items, i \notin trash, i # k.item PROVE Belongings'[i] = Belongings[i]
    <2>1. i # None
      BY TablesAssumption
    <2>2. Posts(written', i) = Posts(written, i)
      BY <1>1, <1>3, <1>8, <2>1 DEF Posts, Contents, Beside
    <2>3. Bags(written', i) = Bags(written, i)
      BY <1>1, <1>2, <1>8 DEF Bags
    <2> QED
      BY <2>2, <2>3, StaysOwned DEF Stays
  <1>9. PICK F : F = [x \in Items |-> IF x = k.item THEN p
                                      ELSE IF x \in trash THEN None ELSE Belongings[x]]
    OBVIOUS
  <1>10. \A i \in Items : Belongings'[i] = F[i]
    BY <1>5, <1>7, <1>8, <1>9
  <1>11. Belongings' = F
    BY <1>9, <1>10, SameBelongings
  <1> QED
    BY <1>1, <1>3, <1>4, <1>6, <1>9, <1>11 DEF Unpacked

LEMMA FreeOnMarket ==
  ASSUME Sound, Sound', NEW p \in Players, NEW k, NEW j, NEW gone, NEW left,
         Unpacks(p, k, j, gone, left), written'.mail = left, k.cod = 0,
         UNCHANGED <<auctions, aitems, deaths>>
  PROVE  TheMarket!Next
  <1>1. /\ Accounts(Wealth, written) /\ Accounts(Wealth', written') /\ Mailbag(written.mail)
        /\ DOMAIN written.gold = Players
    BY GroundNow, GroundNext DEF Ground
  <1>2. PICK n : n = MoneyOf(gone)
    OBVIOUS
  <1>3. Swapped(written.mail, p, k, j, gone, written'.mail) /\ j.money = k.money
    BY DEF Unpacks
  <1>4. ASSUME NEW r \in Players
        PROVE  /\ n \in Nat /\ k.money \in Nat
               /\ Credit(written.mail, r) + Share(r, p, j.money)
                     = Credit(written'.mail, r) + Share(r, p, n) + Share(r, p, k.money)
               /\ r = p => n <= Credit(written.mail, r)
    BY <1>1, <1>2, <1>3, SwapCredit
  <1>5. n \in Nat /\ n <= Wealth[p]
    BY <1>1, <1>4 DEF Accounts
  <1>6. ASSUME NEW r \in Players
        PROVE  Wealth'[r] = Wealth[r] - Share(r, p, n)
    <2>1. /\ Wealth[r] = written.gold[r] + Credit(written.mail, r)
          /\ Wealth'[r] = written'.gold[r] + Credit(written'.mail, r)
          /\ written.gold[r] \in Nat /\ Credit(written.mail, r) \in Nat
          /\ Credit(written'.mail, r) \in Nat
      BY <1>1 DEF Accounts
    <2>2. Share(r, p, n) \in Int /\ Share(r, p, k.money) \in Int
      BY <1>4, ShareType
    <2>3. written'.gold[r] = written.gold[r]
      BY <1>1, <2>1 DEF Unpacks
    <2>4. Credit(written.mail, r) + Share(r, p, k.money)
             = Credit(written'.mail, r) + Share(r, p, n) + Share(r, p, k.money)
      BY <1>3, <1>4
    <2> QED
      BY <2>1, <2>2, <2>3, <2>4
  <1>7. k.receiver = p
    BY DEF Unpacks, Swapped
  <1>8. PICK trash : trash = Contents(gone)
    OBVIOUS
  <1>9. /\ trash \in SUBSET Items /\ \A i \in trash : Belongings[i] = p
        /\ k.item \in Items /\ Belongings[k.item] = Holder(k)
        /\ Belongings' = [x \in Items |-> IF x = k.item THEN p
                                          ELSE IF x \in trash THEN None ELSE Belongings[x]]
    <2>1. PICK ms : ms = {}
      OBVIOUS
    <2>2. Beside(left, ms)
      BY <2>1 DEF Beside
    <2>3. Unpacked(p, k, trash)
      BY <1>8, <2>2, UnpacksBelongings
    <2> QED
      BY <2>3 DEF Unpacked
  <1>10. Belongings[k.item] = p
    BY <1>7, <1>9 DEF Holder
  <1>11. PICK F : F = [i \in Items |-> IF i \in trash \ {k.item} THEN None ELSE Belongings[i]]
    OBVIOUS
  <1>12. Belongings' = F
    BY <1>9, <1>10, <1>11
  <1>13. PICK waste : waste = trash \ {k.item}
    OBVIOUS
  <1>14. waste \in SUBSET Items /\ \A i \in waste : Belongings[i] = p
    BY <1>9, <1>13
  <1>15. Belongings' = [i \in Items |-> IF i \in waste THEN None ELSE Belongings[i]]
    BY <1>11, <1>12, <1>13
  <1>16. ForSale' = ForSale /\ deaths' = deaths
    BY NothingForSale
  <1> QED
    BY <1>5, <1>6, <1>14, <1>15, <1>16, GroundRich, DiscardOnMarket

LEMMA PaidOnMarket ==
  ASSUME Sound, Sound', NEW p \in Players, NEW k, NEW j, NEW gone, NEW left,
         Unpacks(p, k, j, gone, left), NEW m \in WideMails, m \notin left,
         written'.mail = left \cup {m}, k.cod > 0,
         m.receiver = k.sender, m.money = k.cod, m.item = None,
         UNCHANGED <<auctions, aitems, deaths>>
  PROVE  TheMarket!Next
  <1>1. /\ Accounts(Wealth, written) /\ Accounts(Wealth', written') /\ Mailbag(written.mail)
        /\ DOMAIN written.gold = Players
    BY GroundNow, GroundNext DEF Ground
  <1>2. PICK n, c, q : n = MoneyOf(gone) /\ c = k.cod /\ q = k.sender
    OBVIOUS
  <1>3. /\ Swapped(written.mail, p, k, j, gone, left) /\ j.money = k.money
        /\ k \in written.mail /\ k.receiver = p /\ c \in Nat /\ c > 0 /\ c <= written.gold[p]
        /\ written'.gold = [written.gold EXCEPT ![p] = written.gold[p] - c]
    BY <1>2 DEF Unpacks, Swapped
  <1>4. q \in Players /\ p # q
    <2>1. MailOk(k)
      BY <1>3 DEF Sound, Ok, MailsOk
    <2> QED
      BY <1>2, <1>3, <2>1 DEF MailOk
  <1>5. ASSUME NEW r \in Players
        PROVE  /\ Mailbag(left) /\ Credit(left, r) \in Nat /\ n \in Nat /\ k.money \in Nat
               /\ Credit(written.mail, r) + Share(r, p, j.money)
                     = Credit(left, r) + Share(r, p, n) + Share(r, p, k.money)
               /\ r = p => n <= Credit(written.mail, r)
    BY <1>1, <1>2, <1>3, SwapCredit
  <1>6. ASSUME NEW r \in Players
        PROVE  Credit(written'.mail, r) = Credit(left, r) + Share(r, q, c)
    <2>1. Mailbag(left)
      BY <1>5
    <2>2. Credit(left \cup {m}, r) = Credit(left, r) + Share(r, m.receiver, m.money)
      BY <2>1, CreditAdd
    <2> QED
      BY <1>2, <2>2
  <1>7. n \in Nat /\ c + n <= Wealth[p]
    <2>1. n \in Nat /\ n <= Credit(written.mail, p) /\ c <= written.gold[p]
      BY <1>3, <1>5
    <2>2. /\ Wealth[p] = written.gold[p] + Credit(written.mail, p)
          /\ written.gold[p] \in Nat /\ Credit(written.mail, p) \in Nat
      BY <1>1 DEF Accounts
    <2> QED
      BY <1>3, <2>1, <2>2
  <1>8. ASSUME NEW r \in Players
        PROVE  Wealth'[r] = Wealth[r] - Share(r, p, c + n) + Share(r, q, c)
    <2>1. /\ Wealth[r] = written.gold[r] + Credit(written.mail, r)
          /\ Wealth'[r] = written'.gold[r] + Credit(written'.mail, r)
          /\ written.gold[r] \in Nat /\ Credit(written.mail, r) \in Nat
          /\ Credit(written'.mail, r) \in Nat /\ Credit(left, r) \in Nat
      BY <1>1, <1>5 DEF Accounts
    <2>2. /\ Share(r, p, n) \in Int /\ Share(r, p, k.money) \in Int /\ Share(r, q, c) \in Int
          /\ Share(r, p, c) \in Int
      BY <1>3, <1>5, <1>7, ShareType
    <2>3. Share(r, p, c + n) = Share(r, p, c) + Share(r, p, n)
      BY <1>3, <1>7 DEF Share
    <2>4. written'.gold[r] = written.gold[r] - Share(r, p, c)
      BY <1>1, <1>3, <2>1 DEF Share
    <2>5. /\ Credit(written.mail, r) + Share(r, p, k.money)
                = Credit(left, r) + Share(r, p, n) + Share(r, p, k.money)
          /\ Credit(written'.mail, r) = Credit(left, r) + Share(r, q, c)
      BY <1>3, <1>5, <1>6
    <2> QED
      BY <2>1, <2>2, <2>3, <2>4, <2>5
  <1>9. PICK trash, i : trash = Contents(gone) /\ i = k.item
    OBVIOUS
  <1>10. Unpacked(p, k, trash)
    <2>1. PICK ms : ms = {m}
      OBVIOUS
    <2>2. Beside(left, ms)
      BY <2>1 DEF Beside
    <2> QED
      BY <1>9, <2>2, UnpacksBelongings
  <1>11. /\ trash \in SUBSET Items /\ \A x \in trash : Belongings[x] = p
         /\ i \in Items /\ Belongings[i] = q
         /\ Belongings' = [x \in Items |-> IF x = i THEN p
                                           ELSE IF x \in trash THEN None ELSE Belongings[x]]
    BY <1>2, <1>9, <1>10 DEF Unpacked, Holder
  <1>12. ForSale' = ForSale /\ deaths' = deaths
    BY NothingForSale
  <1>13. /\ c \in Nat /\ c > 0 /\ Rich
         /\ \A r \in Players : Wealth'[r] = Wealth[r] - Share(r, p, c + n) + Share(r, q, c)
    BY <1>3, <1>8, GroundRich
  <1>14. Bought(p, q, i, c, n, trash)
    BY <1>4, <1>7, <1>11, <1>12, <1>13 DEF Bought
  <1> QED
    BY <1>13, <1>14, BuyOnMarket

LEMMA TakesOnMarket ==
  ASSUME Sound, Sound', NEW p \in Players, NEW k, NEW j, NEW ms, NEW gone, Takes(p, k, j, ms, gone),
         UNCHANGED <<auctions, aitems, deaths>>
  PROVE  TheMarket!Next
  <1>1. PICK left : /\ Unpacks(p, k, j, gone, left) /\ Payment(p, k, ms)
                    /\ written'.mail = left \cup ms /\ left \cap ms = {}
    BY TakesUnpacks
  <1>2. k.cod \in Nat
    BY <1>1 DEF Unpacks
  <1>3. CASE k.cod = 0
    <2>1. written'.mail = left
      BY <1>1, <1>3 DEF Payment
    <2> QED
      BY <1>1, <1>3, <2>1, FreeOnMarket
  <1>4. CASE k.cod > 0
    <2>1. PICK m : /\ ms = {m} /\ m \in WideMails /\ m.receiver = k.sender
                   /\ m.money = k.cod /\ m.item = None
      BY <1>1, <1>4 DEF Payment
    <2>2. m \notin left /\ written'.mail = left \cup {m}
      BY <1>1, <2>1
    <2> QED
      BY <1>1, <1>4, <2>1, <2>2, PaidOnMarket
  <1> QED
    BY <1>2, <1>3, <1>4

-----------------------------------------------------------------------------
(***************************************************************************)
(* The handlers of the auction house.                                      *)
(***************************************************************************)
LEMMA LotGiven ==
  ASSUME Sound, NEW a \in written.auction
  PROVE  /\ a.item \in Items /\ a.owner \in Players /\ a.bidder \in Players \cup {None}
         /\ a.bid \in Nat /\ (a.bidder = None <=> a.bid = 0)
         /\ Lot(a.item, a.owner, a.bidder, a.bid)
  <1>1. a \in Auctions /\ AuctionOk(a)
    BY DEF Sound, Ok, SalesOk, AuctionTable
  <1>2. Board(ForSale, written.auction) /\ Singly(written.auction)
    BY GroundNow DEF Ground
  <1>3. Lot(a.item, a.owner, a.bidder, a.bid)
    <2>1. PICK f, sales : f = ForSale /\ sales = written.auction
      OBVIOUS
    <2>2. Board(f, sales) /\ Singly(sales)
      BY <1>2, <2>1
    <2>3. DOMAIN f = {x.item : x \in sales} /\ \A x \in sales : f[x.item] = Shown(x)
      BY <2>2, BoardIs
    <2>4. a.item \in DOMAIN f /\ f[a.item] = Shown(a)
      BY <2>1, <2>3
    <2> QED
      BY <2>1, <2>4 DEF Lot, Shown
  <1> QED
    BY <1>1, <1>3, TablesAssumption DEF Auctions, AuctionOk

LEMMA LotCloses ==
  ASSUME Sound, Sound', NEW a \in written.auction, written'.auction = written.auction \ {a}
  PROVE  Closes(a.item)
  <1>1. Board(ForSale, written.auction) /\ Singly(written.auction)
    BY GroundNow DEF Ground
  <1>2. Board(ForSale', written.auction \ {a})
    BY GroundNext DEF Ground
  <1>3. PICK f, sales, h, rest : /\ f = ForSale /\ sales = written.auction /\ h = ForSale'
                                 /\ rest = sales \ {a}
    OBVIOUS
  <1>4. Board(f, sales) /\ Singly(sales) /\ a \in sales /\ Board(h, rest)
    BY <1>1, <1>2, <1>3
  <1>5. h = [j \in DOMAIN f \ {a.item} |-> f[j]]
    BY <1>3, <1>4, BoardDrops
  <1> QED
    BY <1>3, <1>5 DEF Closes

LEMMA SellsOnMarket ==
  ASSUME Sound, Sound', NEW p \in Players, NEW i, Sells(p, i), deaths' = deaths
  PROVE  TheMarket!Next
  <1>1. PICK a : /\ i \in written.inventory[p] /\ Deposit <= written.gold[p]
                 /\ a \in Auctions /\ a.item = i /\ a.owner = p /\ a.bidder = None /\ a.bid = 0
                 /\ written'.gold = [written.gold EXCEPT ![p] = written.gold[p] - Deposit]
                 /\ written'.inventory = [q \in Players |-> written.inventory[q] \ {i}]
                 /\ written'.mail = written.mail
                 /\ written'.auction = written.auction \cup {a}
    BY DEF Sells, Change
  <1>2. /\ Accounts(Wealth, written) /\ Accounts(Wealth', written') /\ Apart(written)
        /\ DOMAIN written.gold = Players /\ DOMAIN written.inventory = Players
        /\ Board(ForSale, written.auction) /\ Singly(written.auction)
        /\ Board(ForSale', written'.auction) /\ Singly(written'.auction)
    BY GroundNow, GroundNext DEF Ground
  <1>3. i \in Items /\ Deposit \in Nat
    BY <1>1, TablesAssumption DEF Auctions
  <1>4. Bags(written, i) = {p} /\ Posts(written, i) = {} /\ Lots(written, i) = {}
    BY <1>1, <1>2, <1>3, InBag DEF Apart
  <1>5. Belongings[i] = p
    BY <1>1, <1>3, OwnedNow
  <1>6. Belongings'[i] = None
    BY <1>1, <1>3, OwnedNext
  <1>7. ASSUME NEW x \in Items, x # i PROVE Belongings'[x] = Belongings[x]
    <2>1. Stays(x)
      BY <1>1, <1>7 DEF Stays, Bags, Posts
    <2> QED
      BY <2>1, StaysOwned
  <1>8. PICK F : F = [Belongings EXCEPT ![i] = None]
    OBVIOUS
  <1>9. F = [x \in Items |-> F[x]]
    BY <1>8, GroundNow DEF Ground, Owners
  <1>10. \A x \in Items : Belongings'[x] = F[x]
    BY <1>6, <1>7, <1>8, GroundNow DEF Ground, Owners
  <1>11. Belongings' = F
    BY <1>9, <1>10, SameBelongings
  <1>12. a \notin written.auction
    BY <1>1, <1>4 DEF Lots
  <1>13. ForSale' = [j \in DOMAIN ForSale \cup {a.item} |->
                       IF j = a.item THEN Shown(a) ELSE ForSale[j]]
    <2>1. PICK f, sales, h : f = ForSale /\ sales = written.auction /\ h = ForSale'
      OBVIOUS
    <2>2. /\ Board(f, sales) /\ Singly(sales) /\ a \notin sales
          /\ Board(h, sales \cup {a}) /\ Singly(sales \cup {a})
      BY <1>1, <1>2, <1>12, <2>1
    <2>3. h = [j \in DOMAIN f \cup {a.item} |-> IF j = a.item THEN Shown(a) ELSE f[j]]
      BY <2>2, BoardAdds
    <2> QED
      BY <2>1, <2>3
  <1>14. Deposit <= Wealth[p]
    BY <1>1, <1>2, <1>3 DEF Accounts
  <1>15. ASSUME NEW r \in Players PROVE Wealth'[r] = Wealth[r] - Share(r, p, Deposit)
    BY <1>1, <1>2, <1>3 DEF Accounts, Share
  <1>16. Shown(a) = [owner |-> p, bidder |-> None, bid |-> 0]
    BY <1>1 DEF Shown
  <1>17. ForSale' = [j \in DOMAIN ForSale \cup {i} |->
                       IF j = i THEN [owner |-> p, bidder |-> None, bid |-> 0] ELSE ForSale[j]]
    BY <1>1, <1>13, <1>16
  <1> QED
    BY <1>3, <1>5, <1>8, <1>11, <1>14, <1>15, <1>17, GroundRich, SellOnMarket

\* Letters with rising numbers.
Below(ms, n) == Mailbag(ms) /\ \A m \in ms : m.id < n
LEMMA NoteCredit ==
  ASSUME NEW ms, NEW id \in Nat, Below(ms, id), NEW x, NEW to, NEW money, NEW item,
         Note(x, id, to, money, item), NEW more, more = ms \cup {x}
  PROVE  /\ Below(more, id + 1) /\ x \notin ms
         /\ \A r : Credit(more, r) = Credit(ms, r) + Share(r, to, money)
         /\ money \in Nat
  <1>1. Mailbag(ms) /\ (\A m \in ms : m.id \in Nat /\ m.id < id) /\ x \in WideMails /\ x.id = id
    BY DEF Below, Note, Mailbag, WideMails
  <1>2. x \notin ms
    BY <1>1
  <1>3. \A r : /\ Mailbag(ms \cup {x})
               /\ Credit(ms \cup {x}, r) = Credit(ms, r) + Share(r, x.receiver, x.money)
    BY <1>1, <1>2, CreditAdd
  <1>4. \A m \in more : m.id < id + 1
    BY <1>1
  <1>5. x.receiver = to /\ x.money = money /\ money \in Nat
    BY <1>1 DEF Note, WideMails
  <1> QED
    BY <1>2, <1>3, <1>4, <1>5 DEF Below

\* One letter brings to its receiver what was for sale, the others have gold only.
Brings(ms, to, item) ==
    /\ \E z \in ms : z.item = item /\ Holder(z) = to
    /\ \A m \in ms : m.item \in {item, None}

LEMMA LotLeaves ==
  ASSUME Sound, Sound', NEW a \in written.auction, NEW ms, NEW to, Brings(ms, to, a.item),
         written'.inventory = written.inventory, written'.mail = written.mail \cup ms
  PROVE  Belongings' = [Belongings EXCEPT ![a.item] = to]
  <1>1. a.item \in Items
    BY LotGiven
  <1>2. Belongings'[a.item] = to
    <2>1. PICK z \in ms : z.item = a.item /\ Holder(z) = to
      BY DEF Brings
    <2> QED
      BY <1>1, <2>1, OwnedNext
  <1>3. ASSUME NEW x \in Items, x # a.item PROVE Belongings'[x] = Belongings[x]
    <2>1. x # None
      BY TablesAssumption
    <2>2. Stays(x)
      BY <1>3, <2>1 DEF Stays, Bags, Posts, Brings
    <2> QED
      BY <2>2, StaysOwned
  <1>4. PICK F : F = [Belongings EXCEPT ![a.item] = to]
    OBVIOUS
  <1>5. F = [x \in Items |-> F[x]]
    BY <1>4, GroundNow DEF Ground, Owners
  <1>6. \A x \in Items : Belongings'[x] = F[x]
    BY <1>2, <1>3, <1>4, GroundNow DEF Ground, Owners
  <1> QED
    BY <1>4, <1>5, <1>6, SameBelongings

LEMMA LettersBelow ==
  ASSUME Sound
  PROVE  mailId \in Nat /\ Below(written.mail, mailId)
  <1>1. Mailbag(written.mail)
    BY GroundNow DEF Ground
  <1> QED
    BY <1>1 DEF Sound, Ok, MailsOk, Below

LEMMA OneNoteIs ==
  ASSUME Sound, NEW ms, NEW to, NEW money, NEW item, OneNote(ms, to, money, item)
  PROVE  /\ money \in Nat /\ Brings(ms, to, item)
         /\ \A r : Credit(written.mail \cup ms, r) = Credit(written.mail, r) + Share(r, to, money)
  <1>1. PICK x : ms = {x} /\ Note(x, mailId, to, money, item)
    BY DEF OneNote
  <1>2. PICK all : all = written.mail \cup {x}
    OBVIOUS
  <1>3. /\ \A r : Credit(all, r) = Credit(written.mail, r) + Share(r, to, money)
        /\ money \in Nat
    BY <1>1, <1>2, LettersBelow, NoteCredit
  <1>4. Brings(ms, to, item)
    BY <1>1 DEF Brings, Note, Holder
  <1> QED
    BY <1>1, <1>2, <1>3, <1>4

LEMMA TwoNotesAre ==
  ASSUME Sound, NEW ms, NEW p, NEW money, NEW q, NEW item, TwoNotes(ms, p, money, q, item)
  PROVE  /\ money \in Nat /\ Brings(ms, q, item)
         /\ \A r \in Players :
               Credit(written.mail \cup ms, r) = Credit(written.mail, r) + Share(r, p, money)
  <1>1. PICK x, y : /\ ms = {x, y} /\ Note(x, mailId, p, money, None)
                    /\ Note(y, mailId + 1, q, 0, item)
    BY DEF TwoNotes
  <1>2. PICK one : one = written.mail \cup {x}
    OBVIOUS
  <1>3. /\ Below(one, mailId + 1) /\ money \in Nat
        /\ \A r : Credit(one, r) = Credit(written.mail, r) + Share(r, p, money)
    BY <1>1, <1>2, LettersBelow, NoteCredit
  <1>4. PICK two : two = one \cup {y}
    OBVIOUS
  <1>5. mailId + 1 \in Nat
    BY LettersBelow
  <1>6. \A r : Credit(two, r) = Credit(one, r) + Share(r, q, 0)
    BY <1>1, <1>3, <1>4, <1>5, NoteCredit
  <1>7. ASSUME NEW r \in Players
        PROVE  Credit(two, r) = Credit(written.mail, r) + Share(r, p, money)
    <2>1. Credit(one, r) \in Nat
      BY <1>3, CreditType DEF Below
    <2>2. Share(r, q, 0) = 0
      BY DEF Share
    <2> QED
      BY <1>3, <1>6, <2>1, <2>2
  <1>8. two = written.mail \cup ms
    BY <1>1, <1>2, <1>4
  <1>9. Brings(ms, q, item)
    BY <1>1 DEF Brings, Note, Holder
  <1> QED
    BY <1>3, <1>7, <1>8, <1>9

LEMMA ThreeNotesAre ==
  ASSUME Sound, NEW ms, NEW b, NEW back, NEW p, NEW money, NEW q, NEW item,
         ThreeNotes(ms, b, back, p, money, q, item)
  PROVE  /\ back \in Nat /\ money \in Nat /\ Brings(ms, q, item)
         /\ \A r \in Players :
               Credit(written.mail \cup ms, r)
                  = Credit(written.mail, r) + Share(r, b, back) + Share(r, p, money)
  <1>1. PICK x, y, z : /\ ms = {x, y, z} /\ Note(x, mailId, b, back, None)
                       /\ Note(y, mailId + 1, p, money, None) /\ Note(z, mailId + 2, q, 0, item)
    BY DEF ThreeNotes
  <1>2. PICK one : one = written.mail \cup {x}
    OBVIOUS
  <1>3. /\ Below(one, mailId + 1) /\ back \in Nat
        /\ \A r : Credit(one, r) = Credit(written.mail, r) + Share(r, b, back)
    BY <1>1, <1>2, LettersBelow, NoteCredit
  <1>4. PICK two : two = one \cup {y}
    OBVIOUS
  <1>5. PICK n : n = mailId + 1 /\ n \in Nat /\ n + 1 = mailId + 2 /\ n + 1 \in Nat
    BY LettersBelow
  <1>6. /\ Below(two, n + 1) /\ money \in Nat
        /\ \A r : Credit(two, r) = Credit(one, r) + Share(r, p, money)
    BY <1>1, <1>3, <1>4, <1>5, NoteCredit
  <1>7. PICK three : three = two \cup {z}
    OBVIOUS
  <1>8. \A r : Credit(three, r) = Credit(two, r) + Share(r, q, 0)
    BY <1>1, <1>5, <1>6, <1>7, NoteCredit
  <1>9. ASSUME NEW r \in Players
        PROVE  Credit(three, r) = Credit(written.mail, r) + Share(r, b, back) + Share(r, p, money)
    <2>1. Credit(two, r) \in Nat
      BY <1>6, CreditType DEF Below
    <2>2. Share(r, q, 0) = 0
      BY DEF Share
    <2> QED
      BY <1>3, <1>6, <1>8, <2>1, <2>2
  <1>10. three = written.mail \cup ms
    BY <1>1, <1>2, <1>4, <1>7
  <1>11. Brings(ms, q, item)
    BY <1>1 DEF Brings, Note, Holder
  <1> QED
    BY <1>3, <1>6, <1>9, <1>10, <1>11

LEMMA FinishesOnMarket ==
  ASSUME Sound, Sound', NEW a \in written.auction, Finishes(a), deaths' = deaths
  PROVE  TheMarket!Next
  <1>1. PICK ms : /\ FinishNotes(a, ms)
                  /\ written'.gold = written.gold /\ written'.inventory = written.inventory
                  /\ written'.mail = written.mail \cup ms
                  /\ written'.auction = written.auction \ {a}
    BY DEF Finishes, Removes, Change
  <1>2. PICK i, o, b, x : i = a.item /\ o = a.owner /\ b = a.bidder /\ x = a.bid
    OBVIOUS
  <1>3. /\ i \in Items /\ o \in Players /\ b \in Players \cup {None} /\ x \in Nat
        /\ (b = None <=> x = 0) /\ Lot(i, o, b, x) /\ Closes(i)
    BY <1>1, <1>2, LotGiven, LotCloses
  <1>4. Accounts(Wealth, written) /\ Accounts(Wealth', written')
    BY GroundNow, GroundNext DEF Ground
  <1>5. CASE x > 0
    <2>1. PICK price : price = x + Deposit - GetAuctionCut(x)
      OBVIOUS
    <2>2. TwoNotes(ms, o, price, b, i)
      BY <1>1, <1>2, <1>5, <2>1 DEF FinishNotes
    <2>3. /\ price \in Nat /\ Brings(ms, b, i)
          /\ \A r \in Players :
                Credit(written'.mail, r) = Credit(written.mail, r) + Share(r, o, price)
      BY <1>1, <2>2, TwoNotesAre
    <2>4. Belongings' = [Belongings EXCEPT ![i] = b]
      BY <1>1, <1>2, <2>3, LotLeaves
    <2>5. ASSUME NEW r \in Players PROVE Wealth'[r] = Wealth[r] + Share(r, o, price)
      <3>1. /\ Wealth[r] = written.gold[r] + Credit(written.mail, r)
            /\ Wealth'[r] = written.gold[r] + Credit(written'.mail, r)
            /\ written.gold[r] \in Nat /\ Credit(written.mail, r) \in Nat
        BY <1>1, <1>4 DEF Accounts
      <3>2. Share(r, o, price) \in Int
        BY <2>3, ShareType
      <3> QED
        BY <2>3, <3>1, <3>2
    <2>6. b \in Players
      BY <1>3, <1>5
    <2>7. price \in Int
      BY <2>3
    <2> QED
      BY <1>3, <1>5, <2>1, <2>4, <2>5, <2>6, <2>7, GroundRich, WinOnMarket
  <1>6. CASE x = 0
    <2>1. OneNote(ms, o, 0, i)
      BY <1>1, <1>2, <1>6 DEF FinishNotes
    <2>2. /\ Brings(ms, o, i)
          /\ \A r : Credit(written'.mail, r) = Credit(written.mail, r) + Share(r, o, 0)
      BY <1>1, <2>1, OneNoteIs
    <2>3. Belongings' = [Belongings EXCEPT ![i] = o]
      BY <1>1, <1>2, <2>2, LotLeaves
    <2>4. ASSUME NEW r \in Players PROVE Wealth'[r] = Wealth[r]
      <3>1. /\ Wealth[r] = written.gold[r] + Credit(written.mail, r)
            /\ Wealth'[r] = written.gold[r] + Credit(written'.mail, r)
            /\ written.gold[r] \in Nat /\ Credit(written.mail, r) \in Nat
        BY <1>1, <1>4 DEF Accounts
      <3>2. Share(r, o, 0) = 0
        BY DEF Share
      <3> QED
        BY <2>2, <3>1, <3>2
    <2> QED
      BY <1>3, <1>6, <2>3, <2>4, GroundRich, ExpireOnMarket
  <1> QED
    BY <1>3, <1>5, <1>6

LEMMA CancelsOnMarket ==
  ASSUME Sound, Sound', NEW p \in Players, NEW a \in written.auction, Cancels(p, a),
         deaths' = deaths
  PROVE  TheMarket!Next
  <1>1. PICK cut : cut = GetAuctionCut(a.bid)
    OBVIOUS
  <1>2. PICK ms : /\ CancelNotes(p, a, ms) /\ a.owner = p /\ cut <= written.gold[p]
                  /\ written'.gold = [written.gold EXCEPT ![p] = written.gold[p] - cut]
                  /\ written'.inventory = written.inventory
                  /\ written'.mail = written.mail \cup ms
                  /\ written'.auction = written.auction \ {a}
    BY <1>1 DEF Cancels, Removes, Change
  <1>3. PICK i, b, x : i = a.item /\ b = a.bidder /\ x = a.bid
    OBVIOUS
  <1>4. /\ i \in Items /\ b \in Players \cup {None} /\ x \in Nat
        /\ Lot(i, p, b, x) /\ Closes(i)
    BY <1>2, <1>3, LotGiven, LotCloses
  <1>5. cut \in Int /\ cut = GetAuctionCut(x)
    BY <1>1, <1>3, <1>4, CutFacts
  <1>6. /\ Accounts(Wealth, written) /\ Accounts(Wealth', written')
        /\ DOMAIN written.gold = Players
    BY GroundNow, GroundNext DEF Ground
  <1>7. /\ Brings(ms, p, i)
        /\ \A r \in Players :
              Credit(written'.mail, r) = Credit(written.mail, r) + Share(r, b, x)
    <2>1. CASE x > 0
      <3>1. TwoNotes(ms, b, x, p, i)
        BY <1>2, <1>3, <2>1 DEF CancelNotes
      <3> QED
        BY <1>2, <3>1, TwoNotesAre
    <2>2. CASE x = 0
      <3>1. OneNote(ms, p, 0, i)
        BY <1>2, <1>3, <2>2 DEF CancelNotes
      <3>2. /\ Brings(ms, p, i)
            /\ \A r : Credit(written'.mail, r) = Credit(written.mail, r) + Share(r, p, 0)
        BY <1>2, <3>1, OneNoteIs
      <3>3. \A r : Share(r, p, 0) = Share(r, b, x)
        BY <2>2 DEF Share
      <3> QED
        BY <3>2, <3>3
    <2> QED
      BY <1>4, <2>1, <2>2
  <1>8. Belongings' = [Belongings EXCEPT ![i] = p]
    <2>1. Brings(ms, p, a.item)
      BY <1>3, <1>7
    <2>2. written'.inventory = written.inventory /\ written'.mail = written.mail \cup ms
      BY <1>2
    <2>3. Belongings' = [Belongings EXCEPT ![a.item] = p]
      BY <2>1, <2>2, LotLeaves
    <2> QED
      BY <1>3, <2>3
  <1>9. ASSUME NEW r \in Players
        PROVE  Wealth'[r] = Wealth[r] + Share(r, b, x) - Share(r, p, cut)
    <2>1. /\ Wealth[r] = written.gold[r] + Credit(written.mail, r)
          /\ Wealth'[r] = written'.gold[r] + Credit(written'.mail, r)
          /\ written.gold[r] \in Nat /\ Credit(written.mail, r) \in Nat
      BY <1>6 DEF Accounts
    <2>2. Share(r, b, x) \in Int /\ Share(r, p, cut) \in Int
      BY <1>4, <1>5, ShareType
    <2>3. written'.gold[r] = written.gold[r] - Share(r, p, cut)
      BY <1>2, <1>5, <1>6, <2>1 DEF Share
    <2>4. Credit(written'.mail, r) = Credit(written.mail, r) + Share(r, b, x)
      BY <1>7
    <2> QED
      BY <2>1, <2>2, <2>3, <2>4
  <1> QED
    BY <1>4, <1>5, <1>8, <1>9, GroundRich, CancelOnMarket

\* What p pays for its bid, and what the one before gets back.
LEMMA RestIs ==
  ASSUME Sound, NEW p \in Players, NEW a \in written.auction, NEW bid, Affords(p, a, bid),
         NEW r \in Players
  PROVE  /\ bid \in Nat /\ a.bid < bid /\ bid <= Wealth[p]
         /\ Rest(p, a, bid)[r] + (IF a.bidder \in {None, p} THEN 0 ELSE Share(r, a.bidder, a.bid))
               = written.gold[r] + Share(r, a.bidder, a.bid) - Share(r, p, bid)
  <1>1. PICK b, x : b = a.bidder /\ x = a.bid
    OBVIOUS
  <1>2. /\ b \in Players \cup {None} /\ x \in Nat /\ (b = None <=> x = 0)
    BY <1>1, LotGiven
  <1>3. bid \in Nat /\ x < bid /\ bid <= written.gold[p]
    BY <1>1 DEF Affords
  <1>4. Accounts(Wealth, written) /\ DOMAIN written.gold = Players
    BY GroundNow DEF Ground
  <1>5. written.gold[r] \in Nat /\ written.gold[p] \in Nat /\ bid <= Wealth[p]
    BY <1>3, <1>4 DEF Accounts
  <1>6. Rest(p, a, bid)[r] = IF r = p THEN written.gold[r] - (IF b = p THEN bid - x ELSE bid)
                             ELSE written.gold[r]
    BY <1>1, <1>4 DEF Rest
  <1>7. CASE b = None
    BY <1>1, <1>2, <1>3, <1>5, <1>6, <1>7, TablesAssumption DEF Share
  <1>8. CASE b = p
    BY <1>1, <1>2, <1>3, <1>5, <1>6, <1>8, TablesAssumption DEF Share
  <1>9. CASE b \notin {None, p}
    <2>1. Share(r, b, x) \in Int /\ Share(r, p, bid) \in Int
      BY <1>2, <1>3, ShareType
    <2>2. Rest(p, a, bid)[r] = written.gold[r] - Share(r, p, bid)
      BY <1>3, <1>5, <1>6, <1>9 DEF Share
    <2> QED
      BY <1>1, <1>3, <1>5, <1>9, <2>1, <2>2
  <1> QED
    BY <1>7, <1>8, <1>9

LEMMA RaisesOnMarket ==
  ASSUME Sound, Sound', NEW p \in Players, NEW a \in written.auction, NEW bid,
         Bids(p, a, bid), Raises(p, a, bid), deaths' = deaths
  PROVE  TheMarket!Next
  <1>1. PICK ms, e : /\ RaiseNotes(p, a, ms) /\ e = [a EXCEPT !.bidder = p, !.bid = bid]
                     /\ written'.gold = Rest(p, a, bid)
                     /\ written'.inventory = written.inventory
                     /\ written'.mail = written.mail \cup ms
                     /\ written'.auction = (written.auction \ {a}) \cup {e}
    BY DEF Raises, Change
  <1>2. PICK i, o, b, x : i = a.item /\ o = a.owner /\ b = a.bidder /\ x = a.bid
    OBVIOUS
  <1>3. /\ i \in Items /\ o \in Players /\ b \in Players \cup {None} /\ x \in Nat
        /\ Lot(i, o, b, x)
    BY <1>2, LotGiven
  <1>4. o # p /\ Affords(p, a, bid)
    BY <1>2 DEF Bids
  <1>5. /\ Accounts(Wealth, written) /\ Accounts(Wealth', written')
        /\ Board(ForSale, written.auction) /\ Singly(written.auction)
        /\ Board(ForSale', written'.auction)
    BY GroundNow, GroundNext DEF Ground
  <1>6. bid \in Nat /\ x < bid /\ bid <= Wealth[p]
    BY <1>2, <1>4, RestIs
  <1>7. /\ \A m \in ms : m.item = None
        /\ \A r \in Players :
              Credit(written'.mail, r)
                 = Credit(written.mail, r) + (IF b \in {None, p} THEN 0 ELSE Share(r, b, x))
    <2>1. CASE b \in {None, p}
      <3>1. ms = {} /\ written'.mail = written.mail
        BY <1>1, <1>2, <2>1 DEF RaiseNotes
      <3>2. \A r \in Players : Credit(written.mail, r) \in Nat
        BY <1>5 DEF Accounts
      <3> QED
        BY <2>1, <3>1, <3>2
    <2>2. CASE b \notin {None, p}
      <3>1. OneNote(ms, b, x, None)
        BY <1>1, <1>2, <2>2 DEF RaiseNotes
      <3>2. /\ Brings(ms, b, None)
            /\ \A r : Credit(written'.mail, r) = Credit(written.mail, r) + Share(r, b, x)
        BY <1>1, <3>1, OneNoteIs
      <3> QED
        BY <2>2, <3>2 DEF Brings
    <2> QED
      BY <2>1, <2>2
  <1>8. ASSUME NEW r \in Players
        PROVE  Wealth'[r] = Wealth[r] + Share(r, b, x) - Share(r, p, bid)
    <2>1. /\ Wealth[r] = written.gold[r] + Credit(written.mail, r)
          /\ Wealth'[r] = written'.gold[r] + Credit(written'.mail, r)
          /\ written.gold[r] \in Nat /\ Credit(written.mail, r) \in Nat
          /\ written'.gold[r] \in Nat
      BY <1>5 DEF Accounts
    <2>2. Share(r, b, x) \in Int /\ Share(r, p, bid) \in Int
      BY <1>3, <1>6, ShareType
    <2>3. PICK back : back = IF b \in {None, p} THEN 0 ELSE Share(r, b, x)
      OBVIOUS
    <2>4. back \in Int
      BY <2>2, <2>3
    <2>5. written'.gold[r] + back = written.gold[r] + Share(r, b, x) - Share(r, p, bid)
      BY <1>1, <1>2, <1>4, <2>3, RestIs
    <2>6. Credit(written'.mail, r) = Credit(written.mail, r) + back
      BY <1>7, <2>3
    <2> QED
      BY <2>1, <2>2, <2>4, <2>5, <2>6
  <1>9. Belongings' = Belongings
    <2>1. ASSUME NEW y \in Items PROVE Belongings'[y] = Belongings[y]
      <3>1. y # None
        BY TablesAssumption
      <3>2. Stays(y)
        BY <1>1, <1>7, <3>1 DEF Stays, Bags, Posts
      <3> QED
        BY <3>2, StaysOwned
    <2>2. Belongings = [y \in Items |-> Belongings[y]]
      BY GroundNow DEF Ground, Owners
    <2> QED
      BY <2>1, <2>2, SameBelongings
  <1>10. ForSale' = [ForSale EXCEPT ![i] = [owner |-> o, bidder |-> p, bid |-> bid]]
    <2>1. PICK f, sales, h : f = ForSale /\ sales = written.auction /\ h = ForSale'
      OBVIOUS
    <2>2. PICK some : some = (sales \ {a}) \cup {e}
      OBVIOUS
    <2>3. a \in Auctions
      BY DEF Sound, Ok, SalesOk, AuctionTable
    <2>4. e.item = a.item /\ Shown(e) = [owner |-> o, bidder |-> p, bid |-> bid]
      BY <1>1, <1>2, <2>3 DEF Shown, Auctions
    <2>5. Board(f, sales) /\ Singly(sales) /\ a \in sales /\ Board(h, some)
      BY <1>1, <1>5, <2>1, <2>2
    <2>6. h = [f EXCEPT ![a.item] = Shown(e)]
      BY <2>2, <2>4, <2>5, BoardChanges
    <2> QED
      BY <1>2, <2>1, <2>4, <2>6
  <1>11. Offers(p, i, o, b, x, bid)
    BY <1>3, <1>4, <1>6 DEF Offers
  <1> QED
    BY <1>8, <1>9, <1>10, <1>11, GroundRich, BidOnMarket

LEMMA BuysOnMarket ==
  ASSUME Sound, Sound', NEW p \in Players, NEW a \in written.auction, NEW bid,
         Bids(p, a, bid), Buys(p, a, bid), deaths' = deaths
  PROVE  TheMarket!Next
  <1>1. PICK ms : /\ BuyoutNotes(p, a, bid, ms)
                  /\ written'.gold = Rest(p, a, bid)
                  /\ written'.inventory = written.inventory
                  /\ written'.mail = written.mail \cup ms
                  /\ written'.auction = written.auction \ {a}
    BY DEF Buys, Removes, Change
  <1>2. PICK i, o, b, x : i = a.item /\ o = a.owner /\ b = a.bidder /\ x = a.bid
    OBVIOUS
  <1>3. /\ i \in Items /\ o \in Players /\ b \in Players \cup {None} /\ x \in Nat
        /\ Lot(i, o, b, x) /\ Closes(i)
    BY <1>1, <1>2, LotGiven, LotCloses
  <1>4. o # p /\ Affords(p, a, bid)
    BY <1>2 DEF Bids
  <1>5. Accounts(Wealth, written) /\ Accounts(Wealth', written')
    BY GroundNow, GroundNext DEF Ground
  <1>6. bid \in Nat /\ x < bid /\ bid <= Wealth[p]
    BY <1>2, <1>4, RestIs
  <1>7. PICK price : /\ price = bid + Deposit - GetAuctionCut(bid)
                     /\ IF b \in {None, p} THEN TwoNotes(ms, o, price, p, i)
                        ELSE ThreeNotes(ms, b, x, o, price, p, i)
    BY <1>1, <1>2 DEF BuyoutNotes
  <1>8. /\ Brings(ms, p, i) /\ price \in Nat
        /\ \A r \in Players :
              Credit(written'.mail, r)
                 = Credit(written.mail, r) + (IF b \in {None, p} THEN 0 ELSE Share(r, b, x))
                      + Share(r, o, price)
    <2>1. CASE b \in {None, p}
      <3>1. TwoNotes(ms, o, price, p, i)
        BY <1>7, <2>1
      <3>2. /\ Brings(ms, p, i) /\ price \in Nat
            /\ \A r \in Players :
                  Credit(written'.mail, r) = Credit(written.mail, r) + Share(r, o, price)
        BY <1>1, <3>1, TwoNotesAre
      <3>3. \A r \in Players : Credit(written.mail, r) + 0 = Credit(written.mail, r)
        BY <1>5 DEF Accounts
      <3> QED
        BY <2>1, <3>2, <3>3
    <2>2. CASE b \notin {None, p}
      <3>1. ThreeNotes(ms, b, x, o, price, p, i)
        BY <1>7, <2>2
      <3>2. /\ Brings(ms, p, i) /\ price \in Nat
            /\ \A r \in Players :
                  Credit(written'.mail, r)
                     = Credit(written.mail, r) + Share(r, b, x) + Share(r, o, price)
        BY <1>1, <3>1, ThreeNotesAre
      <3> QED
        BY <2>2, <3>2
    <2> QED
      BY <2>1, <2>2
  <1>9. ASSUME NEW r \in Players
        PROVE  Wealth'[r] = Wealth[r] + Share(r, b, x) - Share(r, p, bid) + Share(r, o, price)
    <2>1. /\ Wealth[r] = written.gold[r] + Credit(written.mail, r)
          /\ Wealth'[r] = written'.gold[r] + Credit(written'.mail, r)
          /\ written.gold[r] \in Nat /\ Credit(written.mail, r) \in Nat
          /\ written'.gold[r] \in Nat
      BY <1>5 DEF Accounts
    <2>2. Share(r, b, x) \in Int /\ Share(r, p, bid) \in Int /\ Share(r, o, price) \in Int
      BY <1>3, <1>6, <1>8, ShareType
    <2>3. PICK back : back = IF b \in {None, p} THEN 0 ELSE Share(r, b, x)
      OBVIOUS
    <2>4. back \in Int
      BY <2>2, <2>3
    <2>5. written'.gold[r] + back = written.gold[r] + Share(r, b, x) - Share(r, p, bid)
      BY <1>1, <1>2, <1>4, <2>3, RestIs
    <2>6. Credit(written'.mail, r) = Credit(written.mail, r) + back + Share(r, o, price)
      BY <1>8, <2>3
    <2> QED
      BY <2>1, <2>2, <2>4, <2>5, <2>6
  <1>10. Belongings' = [Belongings EXCEPT ![i] = p]
    BY <1>1, <1>2, <1>8, LotLeaves
  <1>11. price \in Int
    BY <1>8
  <1>12. Offers(p, i, o, b, x, bid)
    BY <1>3, <1>4, <1>6 DEF Offers
  <1>13. price = bid + Deposit - GetAuctionCut(bid) /\ Closes(i) /\ Rich
    BY <1>3, <1>7, GroundRich
  <1>14. PaysFor(p, i, o, b, x, bid, price)
    BY <1>9, <1>11, <1>12, <1>13 DEF PaysFor
  <1> QED
    BY <1>10, <1>13, <1>14, BuyOutOnMarket

-----------------------------------------------------------------------------
(***************************************************************************)
(* Every step of the auction house is a step of the market, or none.       *)
(***************************************************************************)
MarketStep == TheMarket!Next \/ UNCHANGED TheMarket!vars

LEMMA NothingMoves ==
  ASSUME UNCHANGED <<written, auctions, aitems, deaths>>
  PROVE  MarketStep
  <1>1. Wealth' = Wealth
    BY DEF Wealth
  <1>2. Belongings' = Belongings
    BY BelongingsNow, BelongingsNext
  <1>3. ForSale' = ForSale
    BY NothingForSale
  <1> QED
    BY <1>1, <1>2, <1>3 DEF MarketStep, TheMarket!vars

LEMMA InvIsSound ==
  ASSUME MailInv
  PROVE  Sound
  <1>1. PICK db : Before(db)
    BY DEF MailInv
  <1> QED
    BY <1>1, Now DEF Before, Sound

LEMMA MailOnMarket ==
  ASSUME PlainAmounts, NEW db, Before(db), Sound, Sound', MailStep, UNCHANGED <<auctions, aitems>>
  PROVE  MarketStep
  <1>1. CASE ExecuteNext
    BY <1>1, NothingMoves DEF ExecuteNext
  <1>2. ASSUME NEW p \in MayTrade, NEW q \in MayTrade, NEW i \in Items \cup {None},
               NEW money \in Amounts \cup {0}, NEW cod \in Amounts \cup {0},
               HandleSendMail(p, q, i, money, cod)
        PROVE  MarketStep
    <2>1. p \in Players /\ q \in Players
      BY MailAssumption
    <2>2. PICK m, g : Sends(p, g, m)
      BY <1>2, <2>1, SendStep
    <2>3. deaths' = deaths
      BY <1>2 DEF HandleSendMail
    <2> QED
      BY <2>1, <2>2, <2>3, SendsOnMarket DEF MarketStep
  <1>3. ASSUME NEW p \in Players, NEW l \in box[p],
               HandleMailMarkAsRead(p, l) \/ HandleMailDelete(p, l)
        PROVE  MarketStep
    BY <1>3, NothingMoves DEF HandleMailMarkAsRead, HandleMailDelete
  <1>4. ASSUME NEW p \in Players, NEW l \in box[p], HandleMailReturnToSender(p, l)
        PROVE  MarketStep
    <2>1. PICK k : k = l.mail
      OBVIOUS
    <2>2. (\E m : Returns(k, m)) \/ Throws(p, {k})
      BY <1>4, <2>1, ReturnStep
    <2>3. deaths' = deaths
      BY <1>4 DEF HandleMailReturnToSender
    <2> QED
      BY <2>2, <2>3, ReturnsOnMarket, ThrowsOnMarket DEF MarketStep
  <1>5. ASSUME NEW p \in Players, NEW l \in box[p], HandleMailTakeItem(p, l)
        PROVE  MarketStep
    <2>1. PICK k, j, ms, gone : Takes(p, k, j, ms, gone)
      BY <1>5, TakeItemStep
    <2>2. deaths' = deaths
      BY <1>5 DEF HandleMailTakeItem
    <2> QED
      BY <2>1, <2>2, TakesOnMarket DEF MarketStep
  <1>6. ASSUME NEW p \in Players, NEW l \in box[p], HandleMailTakeMoney(p, l)
        PROVE  MarketStep
    <2>1. PICK k, j, gone : Cashes(p, k, j, gone)
      BY <1>6, TakeMoneyStep
    <2>2. deaths' = deaths
      BY <1>6 DEF HandleMailTakeMoney
    <2> QED
      BY <2>1, <2>2, CashesOnMarket DEF MarketStep
  <1>7. ASSUME NEW p \in Players, NEW next \in {"online", "offline"}, SaveToDB(p, next)
        PROVE  MarketStep
    <2>1. PICK gone : gone = Marked(box[p])
      OBVIOUS
    <2>2. Throws(p, gone)
      BY <1>7, <2>1, SaveStep
    <2>3. deaths' = deaths
      BY <1>7 DEF SaveToDB
    <2> QED
      BY <2>2, <2>3, ThrowsOnMarket DEF MarketStep
  <1>8. ASSUME NEW p \in Players, HandlePlayerLogin(p) \/ LoadFromDB(p)
        PROVE  MarketStep
    BY <1>8, NothingMoves DEF HandlePlayerLogin, LoadFromDB
  <1>9. ASSUME NEW k \in saved.mail, ReturnOrDeleteOldMails(k)
        PROVE  MarketStep
    <2>1. (\E m : Returns(k, m)) \/ Throws(k.receiver, {k})
      BY <1>9, OldMailStep
    <2>2. deaths' = deaths /\ k \in written.mail
      BY <1>9 DEF ReturnOrDeleteOldMails, Untouched
    <2>3. k.receiver \in Players
      BY <2>2, GroundNow DEF Ground, Mailbag, WideMails
    <2> QED
      BY <2>1, <2>2, <2>3, ReturnsOnMarket, ThrowsOnMarket DEF MarketStep
  <1> QED
    BY <1>1, <1>2, <1>3, <1>4, <1>5, <1>6, <1>7, <1>8, <1>9 DEF MailStep

LEMMA MarketSteps ==
  ASSUME PlainAmounts, MailInv, Sound, Sound', [Next]_vars
  PROVE  MarketStep
  <1>1. PICK db : Before(db)
    BY DEF MailInv
  <1>2. auctions = written.auction
    BY <1>1, Now
  <1>3. CASE MailStep /\ UNCHANGED <<auctions, aitems>>
    BY <1>1, <1>3, MailOnMarket
  <1>4. ASSUME NEW p \in Players, NEW i \in has[p].items, NEW s \in Prices, NEW b \in Prices \cup {0},
               HandleAuctionSellItem(p, i, s, b)
        PROVE  MarketStep
    <2>1. Sells(p, i)
      BY <1>1, <1>4, SellStep
    <2>2. deaths' = deaths
      BY <1>4 DEF HandleAuctionSellItem
    <2> QED
      BY <2>1, <2>2, SellsOnMarket DEF MarketStep
  <1>5. ASSUME NEW a \in auctions, NEW p \in Players, NEW price \in Prices,
               HandleAuctionPlaceBid(p, a, price)
        PROVE  MarketStep
    <2>1. PICK bid : Bids(p, a, bid) /\ (Raises(p, a, bid) \/ Buys(p, a, bid))
      BY <1>1, <1>5, PlaceBidStep
    <2>2. deaths' = deaths
      BY <1>5 DEF HandleAuctionPlaceBid
    <2> QED
      BY <1>2, <2>1, <2>2, RaisesOnMarket, BuysOnMarket DEF MarketStep
  <1>6. ASSUME NEW a \in auctions, NEW p \in Players, HandleAuctionRemoveItem(p, a)
        PROVE  MarketStep
    <2>1. Cancels(p, a)
      BY <1>1, <1>6, RemoveItemStep
    <2>2. deaths' = deaths
      BY <1>6 DEF HandleAuctionRemoveItem
    <2> QED
      BY <1>2, <2>1, <2>2, CancelsOnMarket DEF MarketStep
  <1>7. ASSUME NEW a \in auctions, Update(a)
        PROVE  MarketStep
    <2>1. Finishes(a)
      BY <1>1, <1>7, UpdateStep
    <2>2. deaths' = deaths
      BY <1>7 DEF Update
    <2> QED
      BY <1>2, <2>1, <2>2, FinishesOnMarket DEF MarketStep
  <1>8. CASE Restart
    BY <1>8 DEF Restart, Die, MarketStep, TheMarket!Next, TheMarket!Rollback
  <1>9. CASE UNCHANGED vars
    BY <1>9, NothingMoves DEF vars, mailVars
  <1> QED
    BY <1>3, <1>4, <1>5, <1>6, <1>7, <1>8, <1>9 DEF Next

\* What players see of mail and auctions is a market where every transfer is at once and
\* complete, whatever letters, queues and saves are behind it: who is outbid is repaid in
\* the same step, the winner pays and gets the item, COD is paid exactly when the item is
\* taken, and only the death of the process sets anything back (MailHandler.cpp,
\* AuctionHouseHandler.cpp, AuctionHouseMgr.cpp).  The amounts are those for which the
\* uint32 sum of HandleSendMail does not wrap: beyond, a letter carries what nobody paid.
THEOREM AuctionsAreAMarket == ASSUME PlainAmounts PROVE Spec => ImplementsMarket
  <1>1. MailInv => Sound
    BY InvIsSound
  <1>2. MailInv /\ Sound /\ Sound' /\ [Next]_vars => [TheMarket!Next]_(TheMarket!vars)
    BY MarketSteps DEF MarketStep
  <1> QED
    BY <1>1, <1>2, MailInvHolds, PTL DEF Spec, ImplementsMarket, TheMarket!Spec
=============================================================================
