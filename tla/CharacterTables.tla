---------------------------- MODULE CharacterTables ----------------------------
(***************************************************************************)
(* The part of the character database that mail and auctions are kept in   *)
(* (src/sql/base/characters.sql): the gold of the characters, the          *)
(* inventories, mail with mail_items, auction; and the statements the      *)
(* handlers issue.  A transaction is a sequence of statements.             *)
(*                                                                         *)
(* waste is not a table: it collects what leaves the game on purpose, fees *)
(* and what is in deleted mails, so that nothing else may disappear.       *)
(***************************************************************************)
EXTENDS Integers, FiniteSets, Sequences, Functions, FiniteSetsExt

CONSTANTS Players, Items,
    None,           \* no item, no player
    MaxMoney,       \* MAX_MONEY_AMOUNT
    Width,          \* how many values a uint32 has
    Deposit         \* GetAuctionDeposit of the items

ASSUME TablesAssumption ==
    /\ None \notin Players \cup Items
    /\ MaxMoney \in Nat /\ Deposit \in 0 .. MaxMoney
    /\ Width \in Nat /\ 2 * MaxMoney < Width

Mails == [id : Nat, type : {"normal", "auction"}, sender : Players \cup {None},
          receiver : Players, money : 0 .. MaxMoney, cod : 0 .. Width - 1,
          item : Items \cup {None}, checked : {"plain", "returned", "payment"}]
Auctions == [item : Items, owner : Players, bidder : Players \cup {None},
             bid : 0 .. MaxMoney, startbid : 0 .. MaxMoney, buyout : 0 .. MaxMoney]
Tables == [gold : [Players -> 0 .. MaxMoney], inventory : [Players -> SUBSET Items],
           mail : SUBSET Mails, auction : SUBSET Auctions,
           waste : [gold : Nat, items : SUBSET Items]]

\* The statements.
SaveGold(p, g, fee) == [op |-> "gold", who |-> p, gold |-> g, fee |-> fee]
StoreItem(p, i) == [op |-> "store", who |-> p, item |-> i]
DeleteFromInventory(i) == [op |-> "takeout", item |-> i]
InsertMail(m) == [op |-> "insertMail", mail |-> m]
UpdateMails(ms) == [op |-> "updateMails", mails |-> ms]
DeleteMails(ids, contents) == [op |-> "deleteMails", ids |-> ids, contents |-> contents]
ReturnMail(id) == [op |-> "returnMail", id |-> id]
InsertAuction(a) == [op |-> "insertAuction", auction |-> a]
UpdateAuction(a) == [op |-> "updateAuction", auction |-> a]
DeleteAuction(i, lost) == [op |-> "deleteAuction", item |-> i, lost |-> lost]

ItemsOf(ms) == {m.item : m \in ms} \ {None}
MoneyOf(ms) == SumFunction([m \in ms |-> m.money])
Returned(m) == [m EXCEPT !.sender = m.receiver, !.receiver = m.sender, !.cod = 0,
                         !.checked = "returned"]

\* The tables after one statement; an UPDATE or DELETE of a missing row does nothing.
Execute(db, s) ==
    CASE s.op = "gold" ->
            [db EXCEPT !.gold[s.who] = s.gold, !.waste.gold = @ + s.fee]
      [] s.op = "store" -> [db EXCEPT !.inventory[s.who] = @ \cup {s.item}]
      [] s.op = "takeout" ->
            [db EXCEPT !.inventory = [p \in Players |-> db.inventory[p] \ {s.item}]]
      [] s.op = "insertMail" -> [db EXCEPT !.mail = @ \cup {s.mail}]
      [] s.op = "updateMails" ->
            [db EXCEPT !.mail = {IF \E n \in s.mails : n.id = m.id
                                 THEN CHOOSE n \in s.mails : n.id = m.id ELSE m : m \in @}]
      [] s.op = "deleteMails" ->
            LET gone == {m \in db.mail : m.id \in s.ids} IN
            [db EXCEPT !.mail = @ \ gone,
                       !.waste.gold = @ + IF s.contents = "wasted" THEN MoneyOf(gone) ELSE 0,
                       !.waste.items = @ \cup IF s.contents = "wasted" THEN ItemsOf(gone) ELSE {}]
      [] s.op = "returnMail" ->
            [db EXCEPT !.mail = {IF m.id = s.id THEN Returned(m) ELSE m : m \in @}]
      [] s.op = "insertAuction" -> [db EXCEPT !.auction = @ \cup {s.auction}]
      [] s.op = "updateAuction" ->
            [db EXCEPT !.auction = {IF a.item = s.auction.item THEN s.auction ELSE a : a \in @}]
      [] s.op = "deleteAuction" ->
            [db EXCEPT !.auction = {a \in @ : a.item # s.item}, !.waste.gold = @ + s.lost]

\* The tables after a transaction.
ExecuteAll(db, stmts) ==
    LET after[k \in 0 .. Len(stmts)] == IF k = 0 THEN db ELSE Execute(after[k - 1], stmts[k])
    IN  after[Len(stmts)]

\* All the gold there is; an auction holds the highest bid and the deposit.
AllGold(db) ==
    SumFunction(db.gold) + MoneyOf(db.mail) + db.waste.gold
        + SumFunction([a \in db.auction |-> a.bid + Deposit])

\* How often an item is somewhere.
Copies(db, i) ==
    Cardinality({p \in Players : i \in db.inventory[p]}) + Cardinality({m \in db.mail : m.item = i})
        + Cardinality({a \in db.auction : a.item = i}) + Cardinality(db.waste.items \cap {i})
==============================================================================
