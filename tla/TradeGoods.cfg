\* A sword and three drinks of which a player may have two, bags for one or three
\* items, two traded slots, spells cast with an item; no gold.
CONSTANTS
    Alice = Alice
    Bob = Bob
    sword = sword
    potion = potion
    elixir = elixir
    tonic = tonic
    weapon = weapon
    drink = drink
    None = None
    Own = Own
    Players = {Alice, Bob}
    Items = {sword, potion, elixir, tonic}
    StartBag <- StartBags
    Entry <- Kinds
    MaxCount <- Limits
    Stackable = {drink}
    StartMoney = 0
    MaxMoney = 0
    Capacities <- Bags
    TradedCount = 2
    Bindable = {sword}
    Perishable = {potion}
    Spells = {potion, Own}
    MaxPending = 1
SYMMETRY Drinks
SPECIFICATION Spec
INVARIANTS
    ItemsConserved
PROPERTIES
    OnlyAgreedItems
