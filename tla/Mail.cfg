\* Two players, one sword, letters and auctions, one death of the process between or
\* within handlers.
CONSTANTS
    Alice = Alice
    Bob = Bob
    Carol = Carol
    sword = sword
    None = None
    Players = {Alice, Bob}
    Items = {sword}
    StartItems <- AliceHasSword
    StartGold = 2
    MaxMoney = 6
    Width = 128
    Deposit = 1
    CutPercent = 50
    Postage = 1
    MayTrade = {Alice, Bob}
    Amounts = {1}
    Prices = {1}
    MaxMails = 2
    MaxPending = 0
    MaxDeaths = 1
SPECIFICATION Spec
INVARIANTS
    MemoryIsSaved
    NothingLostBetweenHandlers
PROPERTIES
    ImplementsMarket
\* Everyone may have run out of gold and mails.
CHECK_DEADLOCK FALSE
