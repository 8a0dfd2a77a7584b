\* Three players, one sword, no other letters than those of the auction house.
CONSTANTS
    Alice = Alice
    Bob = Bob
    Carol = Carol
    sword = sword
    None = None
    Players = {Alice, Bob, Carol}
    Items = {sword}
    StartItems <- AliceHasSword
    StartGold = 2
    MaxMoney = 6
    Width = 128
    Deposit = 1
    CutPercent = 50
    Postage = 1
    MayTrade = {}
    Amounts = {1}
    Prices = {1, 2}
    MaxMails = 3
    MaxPending = 0
    MaxDeaths = 0
SPECIFICATION Spec
SYMMETRY Symmetry
INVARIANTS
    TypeOK
    NothingLostByAuctions
PROPERTIES
    ImplementsMarket
\* Everyone may have run out of gold and mails.
CHECK_DEADLOCK FALSE
