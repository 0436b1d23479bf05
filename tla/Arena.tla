------------------------------- MODULE Arena -------------------------------
(***************************************************************************)
(* What the memory of iterators promises. An owner takes cells that nobody *)
(* holds, may take more for as long as it lives, and keeps each of them    *)
(* until it gives up all of them at once.                                  *)
(***************************************************************************)
CONSTANT Owners

VARIABLE held        \* the cells that each owner holds

ArenaInit == held = [o \in Owners |-> {}]

Take(o) == \E cells \in {held'[o] \ held[o]} :
               /\ \A p \in Owners : held[p] \cap cells = {}
               /\ held' = [held EXCEPT ![o] = @ \cup cells]

Release(o) == held' = [held EXCEPT ![o] = {}]

ArenaNext == \E o \in Owners : Take(o) \/ Release(o)

ArenaSpec == ArenaInit /\ [][ArenaNext]_held
=============================================================================
