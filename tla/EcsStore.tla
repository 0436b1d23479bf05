------------------------------ MODULE EcsStore ------------------------------
(***************************************************************************)
(* What the storage of a world promises an application: each entity that   *)
(* is alive has a set of components and a value for each of those that     *)
(* carry data. An operation changes the entities it names and no others,   *)
(* and adding or removing a component keeps the values of the others.      *)
(***************************************************************************)
CONSTANTS Entities, Comps, Data, Values, Default

VARIABLE ents       \* alive entity -> its components and their values

(* The state of an entity with components T.                               *)
WithValues(T, v) == [type |-> T, val |-> v]

(* Moving to components T keeps the values of the components it had.       *)
Retype(x, T) ==
    WithValues(T, [c \in T \cap Data |-> IF c \in x.type THEN x.val[c] ELSE Default])

SameId(e, f) == e.id = f.id

Alive == DOMAIN ents

Unused == {e \in Entities : \A f \in Alive : ~SameId(e, f)}

(* Entities come to life together, all with the same components.           *)
Create(E, x) ==
    /\ \A e, f \in E : SameId(e, f) => e = f
    /\ ents' = [e \in Alive \cup E |-> IF e \in E THEN x ELSE ents[e]]

Destroy(E) == ents' = [e \in Alive \ E |-> ents[e]]

Change(e, x) == ents' = [ents EXCEPT ![e] = x]

(* An entity is given another version and keeps everything else.           *)
Reversion(e, f) ==
    /\ SameId(e, f)
    /\ ents' = [h \in (Alive \ {e}) \cup {f} |-> IF h = f THEN ents[e] ELSE ents[h]]

RemoveFromAll(c) == ents' = [e \in Alive |-> Retype(ents[e], ents[e].type \ {c})]

StoreInit == ents = [e \in {} |-> {}]

StoreNext ==
    \/ \E E \in SUBSET Unused, T \in SUBSET Comps :
         \E v \in [T \cap Data -> Values] : Create(E, WithValues(T, v))
    \/ \E e \in Alive : \/ \E T \in SUBSET Comps : Change(e, Retype(ents[e], T))
                        \/ \E c \in Data, v \in Values :
                             LET x == Retype(ents[e], ents[e].type \cup {c})
                             IN  Change(e, [x EXCEPT !.val[c] = v])
                        \/ Destroy({e})
                        \/ \E f \in Entities : Reversion(e, f)
    \/ \E c \in Comps : \/ RemoveFromAll(c)
                        \/ Destroy({e \in Alive : c \in ents[e].type})

StoreSpec == StoreInit /\ [][StoreNext]_ents
=============================================================================
