------------------------------- MODULE MapTicks -------------------------------
(***************************************************************************)
(* What the rest of the server relies on when maps are updated in          *)
(* parallel: in every tick each loaded map is updated exactly once, and    *)
(* the world thread, which alone creates and unloads maps, does nothing    *)
(* else until all of them are done.                                        *)
(***************************************************************************)
CONSTANT Maps

VARIABLES
    maps,    \* the loaded maps
    alone,   \* the world thread runs, and no map is updated
    todo,    \* the maps still to be updated in this tick
    busy     \* the maps being updated

ticking == <<alone, todo, busy>>

TicksInit == maps \in SUBSET Maps /\ alone = TRUE /\ todo = {} /\ busy = {}

CreateMap(m) == alone /\ maps' = maps \cup {m} /\ UNCHANGED ticking
Unload == alone /\ maps' \in SUBSET maps /\ UNCHANGED ticking
BeginTick == alone /\ alone' = FALSE /\ todo' = maps /\ UNCHANGED <<maps, busy>>
StartMap(m) == m \in todo /\ todo' = todo \ {m} /\ busy' = busy \cup {m} /\ UNCHANGED <<maps, alone>>
FinishMap(m) == m \in busy /\ busy' = busy \ {m} /\ UNCHANGED <<maps, alone, todo>>
EndTick == ~alone /\ todo = {} /\ busy = {} /\ alone' = TRUE /\ UNCHANGED <<maps, todo, busy>>

TicksNext ==
    \/ \E m \in Maps : CreateMap(m) \/ StartMap(m) \/ FinishMap(m)
    \/ Unload \/ BeginTick \/ EndTick

TicksSpec == TicksInit /\ [][TicksNext]_<<maps, ticking>>
=============================================================================
