\* Three players without items; each has one piece of gold and can have two.
CONSTANTS
    Alice = Alice
    Bob = Bob
    sword = sword
    potion = potion
    elixir = elixir
    tonic = tonic
    weapon = weapon
    drink = drink
    None = None
    Own = Own
    Players = {Alice, Bob, Carol}
    Items = {}
    StartBag <- StartBags
    Entry <- Kinds
    MaxCount <- Limits
    Stackable = {}
    StartMoney = 1
    MaxMoney = 2
    Capacities <- OneBag
    TradedCount = 1
    Bindable = {}
    Perishable = {}
    Spells = {}
    MaxPending = 2
SYMMETRY Symmetry
SPECIFICATION Spec
INVARIANTS
    TradesArePaired
    AcceptIsForThisOffer
    GoldConserved
PROPERTIES
    OnlyAgreedGold
