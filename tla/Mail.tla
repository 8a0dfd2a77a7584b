-------------------------------- MODULE Mail --------------------------------
(***************************************************************************)
(* Mail between players (game/Mails).  A player who is online has its      *)
(* mails in memory; each handler changes them and the tables, in one or    *)
(* more transactions, which become durable one after the other (module     *)
(* WriteBehindLog).  A player who is offline is only in the tables, and is *)
(* loaded by a query that waits in the same queue.                         *)
(*                                                                         *)
(* All mail opcodes are THREADUNSAFE, so a handler is one step of the      *)
(* world thread.                                                           *)
(***************************************************************************)
EXTENDS CharacterTables

CONSTANTS
    StartGold,      \* the gold of every player at first
    StartItems,     \* player -> its items at first
    Postage,        \* what a letter costs
    MayTrade,       \* the players who send each other letters
    Amounts,        \* bound: gold or COD in a letter
    MaxMails,       \* bound: mails in all
    MaxPending,     \* bound: transactions not yet executed, before a handler
    MaxDeaths       \* bound: deaths of the process

ASSUME MailAssumption ==
    /\ StartGold \in 0 .. MaxMoney /\ Postage \in Nat
    /\ IsFiniteSet(Players) /\ StartItems \in [Players -> SUBSET Items]
    /\ \A i \in Items : \E p \in Players : {q \in Players : i \in StartItems[q]} = {p}
    /\ MayTrade \subseteq Players /\ Amounts \subseteq 1 .. Width - 1 /\ MaxMails \in Nat

VARIABLES
    where,      \* player -> offline, loading or online
    has,        \* player -> its gold and items in memory
    box,        \* player -> m_mail
    answer,     \* player -> what the queries of its login returned
    mailId,     \* the next mail id
    pending,    \* the queue of the delay thread, see Commit
    saved,      \* the tables
    written,    \* the tables as they will be when the queue is executed
    within,     \* the handler of which some transactions are executed and some are not
    deaths

mailVars == <<where, has, box, answer, mailId, pending, saved, written, within, deaths>>

Nobody == [gold |-> 0, items |-> {}]
Letters == [mail : Mails, state : {"unchanged", "changed", "deleted"}]

MailInit ==
    /\ where = [p \in Players |-> "online"]
    /\ has = [p \in Players |-> [gold |-> StartGold, items |-> StartItems[p]]]
    /\ box = [p \in Players |-> {}]
    /\ answer = [p \in Players |-> None]
    /\ mailId = 1
    /\ pending = <<>>
    /\ saved = [gold |-> [p \in Players |-> StartGold], inventory |-> StartItems,
                mail |-> {}, auction |-> {}, waste |-> [gold |-> 0, items |-> {}]]
    /\ written = saved
    /\ within = "none"
    /\ deaths = 0
-----------------------------------------------------------------------------
(***************************************************************************)
(* Transactions.                                                           *)
(***************************************************************************)
\* A handler of a kind commits its transactions.  Until the last one is executed,
\* the tables are within that handler.
Commit(kind, txns) ==
    /\ Len(pending) <= MaxPending
    /\ pending' = pending \o [k \in 1 .. Len(txns) |->
                                [stmts |-> txns[k], who |-> None,
                                 within |-> IF k = Len(txns) THEN "none" ELSE kind]]
    /\ LET after[k \in 0 .. Len(txns)] ==
                IF k = 0 THEN written ELSE ExecuteAll(after[k - 1], txns[k])
       IN  written' = after[Len(txns)]

\* The delay thread executes a transaction, or the queries of a login.
ExecuteNext ==
    /\ pending # <<>>
    /\ LET t == Head(pending) IN
        /\ saved' = ExecuteAll(saved, t.stmts)
        /\ within' = t.within
        /\ answer' = IF t.who = None THEN answer
                     ELSE [answer EXCEPT ![t.who] =
                            [gold |-> saved.gold[t.who], items |-> saved.inventory[t.who],
                             mail |-> {m \in saved.mail : m.receiver = t.who}]]
    /\ pending' = Tail(pending)
    /\ UNCHANGED <<where, has, box, mailId, written, deaths>>

\* Player::_SaveMail, and what it leaves in memory.
SaveMail(letters) ==
    <<UpdateMails({l.mail : l \in {x \in letters : x.state = "changed"}}),
      DeleteMails({l.mail.id : l \in {x \in letters : x.state = "deleted"}}, "wasted")>>
AfterSave(letters) ==
    {[l EXCEPT !.state = "unchanged"] : l \in {x \in letters : x.state # "deleted"}}

\* Player::ModifyMoney; its argument is an int32.
Signed(n) == IF 2 * n < Width THEN n ELSE n - Width
ModifyMoney(g, d) ==
    IF d < 0 THEN IF g > -d THEN g + d ELSE 0
    ELSE IF g < MaxMoney - d THEN g + d ELSE MaxMoney
-----------------------------------------------------------------------------
(***************************************************************************)
(* MailDraft::SendMailTo: the tables get the mail, and its receiver when   *)
(* it is in the world.  A player who is being loaded is not.               *)
(***************************************************************************)
NewMail(n, type, from, to, money, cod, item, checked) ==
    [id |-> mailId + n, type |-> type, sender |-> from, receiver |-> to, money |-> money,
     cod |-> cod, item |-> item, checked |-> checked]
Delivered(bx, ms) ==
    [p \in Players |->
        IF where[p] = "online"
        THEN bx[p] \cup {[mail |-> m, state |-> "unchanged"] : m \in {x \in ms : x.receiver = p}}
        ELSE bx[p]]
CanMail(n) == mailId + n <= MaxMails + 1

\* Faulty variant of LeavesInventory: the row of the inventory stays.
LeavesInventoryInMemory(i) == <<>>
\* The transaction in which an item is moved out of an inventory.
LeavesInventory(i) == IF i = None THEN <<>> ELSE <<<<DeleteFromInventory(i)>>>>

\* What a letter costs is a uint32: the sum wraps for the largest amounts, and
\* nothing but the gold of the sender bounds the amount.
Cost(money) == (money + Postage) % Width

\* The client attaches an item to a letter with COD.
HandleSendMail(p, q, i, money, cod) ==
    /\ where[p] = "online" /\ p # q /\ i \in has[p].items \cup {None}
    /\ money = 0 \/ cod = 0
    /\ cod > 0 => i # None
    /\ has[p].gold >= Cost(money)
    /\ CanMail(1)
    /\ LET m == NewMail(0, "normal", p, q, money, cod, i, "plain")
           g == ModifyMoney(has[p].gold, -Cost(money))
       IN  /\ has' = [has EXCEPT ![p] = [gold |-> g, items |-> @.items \ {i}]]
           /\ box' = Delivered(box, {m})
           /\ Commit("mail", LeavesInventory(i) \o <<<<InsertMail(m)>>, <<SaveGold(p, g, Postage)>>>>)
    /\ mailId' = mailId + 1
    /\ UNCHANGED <<where, answer, saved, within, deaths>>

\* The letters of p after l became k.
Rewritten(p, l, k) == [box EXCEPT ![p] = (@ \ {l}) \cup {k}]

\* Also when the letter is marked as deleted, which revives it.
HandleMailMarkAsRead(p, l) ==
    /\ where[p] = "online" /\ l \in box[p]
    /\ box' = Rewritten(p, l, [l EXCEPT !.state = "changed"])
    /\ UNCHANGED <<where, has, answer, mailId, pending, saved, written, within, deaths>>

\* The letter goes when the player is saved.
HandleMailDelete(p, l) ==
    /\ where[p] = "online" /\ l \in box[p] /\ l.mail.cod = 0
    /\ box' = Rewritten(p, l, [l EXCEPT !.state = "deleted"])
    /\ UNCHANGED <<where, has, answer, mailId, pending, saved, written, within, deaths>>

\* Faulty variant of HandleMailReturnToSender: the letter stays in memory.
HandleMailReturnToSenderKept(p, l) ==
    /\ where[p] = "online" /\ l \in box[p] /\ l.state # "deleted"
    /\ CanMail(1)
    /\ LET m == NewMail(0, "normal", p, l.mail.sender, l.mail.money, 0, l.mail.item, "returned")
       IN  /\ l.mail.type = "normal"
           /\ box' = Delivered(box, {m})
           /\ Commit("mail", <<<<DeleteMails({l.mail.id}, "moved")>>, <<InsertMail(m)>>>>)
    /\ mailId' = mailId + 1
    /\ UNCHANGED <<where, has, answer, saved, within, deaths>>

\* Letters of the auction house are simply dropped.
HandleMailReturnToSender(p, l) ==
    /\ where[p] = "online" /\ l \in box[p] /\ l.state # "deleted"
    /\ CanMail(1)
    /\ LET m == NewMail(0, "normal", p, l.mail.sender, l.mail.money, 0, l.mail.item, "returned")
           rest == [box EXCEPT ![p] = @ \ {l}]
       IN  \/ /\ l.mail.type = "normal"
              /\ box' = Delivered(rest, {m})
              /\ mailId' = mailId + 1
              /\ Commit("mail", <<<<DeleteMails({l.mail.id}, "moved")>>, <<InsertMail(m)>>>>)
           \/ /\ l.mail.type # "normal"
              /\ box' = rest
              /\ mailId' = mailId
              /\ Commit("mail", <<<<DeleteMails({l.mail.id}, "wasted")>>>>)
    /\ UNCHANGED <<where, has, answer, saved, within, deaths>>

\* COD is paid by a letter.  There may be no room for the item; the client
\* takes items only from letters that have one.
HandleMailTakeItem(p, l) ==
    /\ where[p] = "online" /\ l \in box[p] /\ l.state # "deleted"
    /\ l.mail.item # None /\ has[p].gold >= l.mail.cod
    /\ l.mail.cod > 0 => CanMail(1)
    /\ LET payment == NewMail(0, "normal", p, l.mail.sender, l.mail.cod, 0, None, "payment")
           taken == [mail |-> [l.mail EXCEPT !.item = None, !.cod = 0], state |-> "changed"]
           letters == Rewritten(p, l, taken)[p]
           g == ModifyMoney(has[p].gold, -l.mail.cod)
           bx == [box EXCEPT ![p] = AfterSave(letters)]
       IN  /\ has' = [has EXCEPT ![p] = [gold |-> g, items |-> @.items \cup {l.mail.item}]]
           /\ box' = IF l.mail.cod > 0 THEN Delivered(bx, {payment}) ELSE bx
           /\ mailId' = mailId + IF l.mail.cod > 0 THEN 1 ELSE 0
           /\ Commit("mail", (IF l.mail.cod > 0 THEN <<<<InsertMail(payment)>>>> ELSE <<>>)
                        \o <<<<StoreItem(p, l.mail.item), SaveGold(p, g, 0)>> \o SaveMail(letters)>>)
    /\ UNCHANGED <<where, answer, saved, within, deaths>>

\* Faulty variant of TakeMoneySaves: the mail is left to the next save.
TakeMoneySavesGold(p, g, letters) == <<SaveGold(p, g, 0)>>
TakeMoneySaves(p, g, letters) == <<SaveGold(p, g, 0)>> \o SaveMail(letters)

HandleMailTakeMoney(p, l) ==
    /\ where[p] = "online" /\ l \in box[p] /\ l.state # "deleted"
    /\ l.mail.money > 0
    /\ LET g == ModifyMoney(has[p].gold, Signed(l.mail.money))
           taken == [mail |-> [l.mail EXCEPT !.money = 0], state |-> "changed"]
           letters == Rewritten(p, l, taken)[p]
       IN  /\ has' = [has EXCEPT ![p].gold = g]
           /\ box' = [box EXCEPT ![p] = AfterSave(letters)]
           /\ Commit("mail", <<TakeMoneySaves(p, g, letters)>>)
    /\ UNCHANGED <<where, answer, mailId, saved, within, deaths>>
-----------------------------------------------------------------------------
(***************************************************************************)
(* What else happens to players and their mails.                           *)
(***************************************************************************)
\* Player::SaveToDB, at regular times and at logout.
SaveToDB(p, next) ==
    /\ where[p] = "online"
    /\ where' = [where EXCEPT ![p] = next]
    /\ has' = IF next = "online" THEN has ELSE [has EXCEPT ![p] = Nobody]
    /\ box' = [box EXCEPT ![p] = IF next = "online" THEN AfterSave(@) ELSE {}]
    /\ Commit("player", <<<<SaveGold(p, has[p].gold, 0)>> \o SaveMail(box[p])>>)
    /\ UNCHANGED <<answer, mailId, saved, within, deaths>>

\* The queries of a login go through the queue.
HandlePlayerLogin(p) ==
    /\ where[p] = "offline"
    /\ where' = [where EXCEPT ![p] = "loading"]
    /\ pending' = Append(pending, [stmts |-> <<>>, who |-> p, within |-> "none"])
    /\ UNCHANGED <<has, box, answer, mailId, saved, written, within, deaths>>

\* _LoadMails, _LoadMailedItems.  Mail sent since the queries were executed is
\* not in them, and is only seen at the next login.
LoadFromDB(p) ==
    /\ answer[p] # None
    /\ where' = [where EXCEPT ![p] = "online"]
    /\ has' = [has EXCEPT ![p] = [gold |-> answer[p].gold, items |-> answer[p].items]]
    /\ box' = [box EXCEPT ![p] = {[mail |-> m, state |-> "unchanged"] : m \in answer[p].mail}]
    /\ answer' = [answer EXCEPT ![p] = None]
    /\ UNCHANGED <<mailId, pending, saved, written, within, deaths>>

\* Nothing in the queue changes this mail, and nobody is loading it.
Untouched(m) == where[m.receiver] = "offline" /\ m \in written.mail

\* An old mail is returned, once, or deleted with all that is in it.  It is read
\* from the tables at once, not through the queue: see Untouched.
ReturnOrDeleteOldMails(m) ==
    /\ m \in saved.mail /\ Untouched(m)
    /\ Commit("mail",
              IF m.item # None /\ m.type = "normal" /\ m.checked = "plain"
              THEN <<<<ReturnMail(m.id)>>>> ELSE <<<<DeleteMails({m.id}, "wasted")>>>>)
    /\ UNCHANGED <<where, has, box, answer, mailId, saved, within, deaths>>

\* The process dies, and starts again.  What it finds when it died within a
\* handler is described by the invariants, not followed further.
Die ==
    /\ deaths < MaxDeaths /\ within = "none"
    /\ deaths' = deaths + 1
    /\ where' = [p \in Players |-> "offline"]
    /\ has' = [p \in Players |-> Nobody]
    /\ box' = [p \in Players |-> {}]
    /\ answer' = [p \in Players |-> None]
    /\ pending' = <<>>
    /\ written' = saved
    /\ mailId' = Max({m.id : m \in saved.mail} \cup {0}) + 1
    /\ UNCHANGED <<saved, within>>

MailStep ==
    \/ ExecuteNext
    \/ \E p \in MayTrade, q \in MayTrade, i \in Items \cup {None}, money, cod \in Amounts \cup {0} :
          HandleSendMail(p, q, i, money, cod)
    \/ \E p \in Players : \E l \in box[p] :
          \/ HandleMailMarkAsRead(p, l) \/ HandleMailDelete(p, l)
          \/ HandleMailReturnToSender(p, l)
          \/ HandleMailTakeItem(p, l) \/ HandleMailTakeMoney(p, l)
    \/ \E p \in Players :
          \/ SaveToDB(p, "online") \/ SaveToDB(p, "offline")
          \/ HandlePlayerLogin(p) \/ LoadFromDB(p)
    \/ \E m \in saved.mail : ReturnOrDeleteOldMails(m)

-----------------------------------------------------------------------------
(***************************************************************************)
(* Properties.                                                             *)
(***************************************************************************)
MailTypeOK ==
    /\ where \in [Players -> {"offline", "loading", "online"}]
    /\ has \in [Players -> [gold : 0 .. MaxMoney, items : SUBSET Items]]
    /\ box \in [Players -> SUBSET Letters]
    /\ saved \in Tables
    /\ mailId \in 1 .. MaxMails + 1
    /\ within \in {"none", "mail", "auction", "player"}

(***************************************************************************)
(* The handlers write all that they change: what a player who is online    *)
(* has and reads is what the tables will say once the queue is executed,   *)
(* and so is what a login still on its way will bring.                     *)
(***************************************************************************)
Agrees(p, gold, items, mails) ==
    /\ gold = written.gold[p] /\ items = written.inventory[p]
    /\ mails \subseteq {m \in written.mail : m.receiver = p}
MemoryIsSaved ==
    \A p \in Players :
        /\ where[p] = "online" =>
              Agrees(p, has[p].gold, has[p].items, {l.mail : l \in {x \in box[p] : x.state # "deleted"}})
        /\ answer[p] # None => Agrees(p, answer[p].gold, answer[p].items, answer[p].mail)

(***************************************************************************)
(* Whenever the process dies between two handlers, no gold and no item has *)
(* been lost or doubled.                                                   *)
(***************************************************************************)
Issued == StartGold * Cardinality(Players)
Exact(db) == AllGold(db) = Issued /\ \A i \in Items : Copies(db, i) = 1
NothingLostBetweenHandlers == within = "none" => Exact(saved)

(***************************************************************************)
(* Wherever the process dies within a handler of the auction house,        *)
(* nothing is lost; it may be doubled, since letters are written before    *)
(* the auction they come from is deleted.                                  *)
(***************************************************************************)
NothingLostByAuctions ==
    within = "auction" => AllGold(saved) >= Issued /\ \A i \in Items : Copies(saved, i) >= 1
=============================================================================
