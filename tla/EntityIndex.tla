----------------------------- MODULE EntityIndex -----------------------------
(***************************************************************************)
(* The entity index of flecs (src/storage/entity_index.c): the structure   *)
(* that says which entities are alive, and that recycles the ids of the    *)
(* ones that are not.                                                      *)
(*                                                                         *)
(* index.dense is the dense vector without its reserved slot 0, so that    *)
(* position i is position i in the code. Entries below index.alive_count   *)
(* are alive entities; the ones from index.alive_count on are dead, stored *)
(* with the version they will be recycled with. index.record[id] is the    *)
(* dense field of the id's ecs_record_t. A record lives in a lazily        *)
(* allocated, zeroed page and 0 means "does not exist", so a missing page  *)
(* and a zeroed record are the same thing to every operation.              *)
(***************************************************************************)
EXTENDS Integers, Sequences

CONSTANTS MaxId,     \* UINT32_MAX, the largest value of index->max_id
          GenCount   \* 2^16, the number of generations of a handle

ASSUME MaxIdAssumption == MaxId \in Nat \ {0}
ASSUME GenCountAssumption == GenCount \in Nat \ {0}

Ids == 0..MaxId
Gens == 0..(GenCount - 1)
Handles == [id : Ids, gen : Gens]       \* ecs_entity_t: low 32 bits, generation
EntityIds == Ids \ {0}
Entities == [id : EntityIds, gen : Gens]

VARIABLES
    index,   \* ecs_entity_index_t
    dead     \* history: handles that were deleted and not taken back

vars == <<index, dead>>

-----------------------------------------------------------------------------
(* Operations on an index ix.                                              *)

Swap2(s, i, a, j, b) == [s EXCEPT ![i] = a, ![j] = b]   \* s[i] = a; s[j] = b

MaxOf(a, b) == IF a > b THEN a ELSE b

GenerationInc(e) == [e EXCEPT !.gen = IF @ = GenCount - 1 THEN 0 ELSE @ + 1]

EmptyIndex == [dense |-> <<>>, record |-> [id \in Ids |-> 0],
               alive_count |-> 1, max_id |-> 0]

Count(ix) == Len(ix.dense) + 1                \* ecs_vec_count(&index->dense)

Exists(ix, id) == ix.record[id] # 0           \* try_get_any(index, id) != NULL

Entry(ix, id) == ix.dense[ix.record[id]]      \* what the dense array says of id

IdIsAlive(ix, id) == Exists(ix, id) /\ ix.record[id] < ix.alive_count

IsAlive(ix, e) == IdIsAlive(ix, e.id) /\ Entry(ix, e.id) = e

(* Faulty variant of Ensure: the first dead entry is moved out of the way, *)
(* but its record keeps pointing at its old position.                      *)
EnsureLosesSwapped(ix, e) ==
    LET exists == Exists(ix, e.id)
        ids    == IF exists THEN ix.dense ELSE Append(ix.dense, e)
        d      == IF exists THEN ix.record[e.id] ELSE Len(ids)
        a      == ix.alive_count
    IN  IF IdIsAlive(ix, e.id) THEN ix
        ELSE [dense       |-> Swap2(ids, d, ids[a], a, e),
              record      |-> [ix.record EXCEPT ![e.id] = a],
              alive_count |-> a + 1,
              max_id      |-> MaxOf(e.id, ix.max_id)]

(* flecs_entity_index_ensure: append an id that does not exist, then swap  *)
(* it with the first dead entry. The id must not be alive with another     *)
(* generation: the code asserts it.                                        *)
Ensure(ix, e) ==
    LET exists == Exists(ix, e.id)
        ids    == IF exists THEN ix.dense ELSE Append(ix.dense, e)
        d      == IF exists THEN ix.record[e.id] ELSE Len(ids)
        a      == ix.alive_count
        e_swap == ids[a]
    IN  IF IdIsAlive(ix, e.id) THEN ix
        ELSE [dense       |-> Swap2(ids, d, e_swap, a, e),
              record      |-> Swap2(ix.record, e_swap.id, d, e.id, a),
              alive_count |-> a + 1,
              max_id      |-> IF exists THEN ix.max_id
                              ELSE MaxOf(e.id, ix.max_id)]

(* Faulty variant of Remove: the generation stored for recycling is the    *)
(* one of the deleted handle.                                              *)
RemoveKeepsGeneration(ix, e) ==
    LET d      == ix.record[e.id]
        i_swap == ix.alive_count - 1
        e_swap == ix.dense[i_swap]
    IN  [dense       |-> Swap2(ix.dense, d, e_swap, i_swap, e),
         record      |-> Swap2(ix.record, e_swap.id, d, e.id, i_swap),
         alive_count |-> i_swap,
         max_id      |-> ix.max_id]

(* flecs_entity_index_remove without an active entity range: swap with the *)
(* last alive entry, shrink the alive part, store the next generation.     *)
Remove(ix, e) ==
    LET d      == ix.record[e.id]
        i_swap == ix.alive_count - 1
        e_swap == ix.dense[i_swap]
    IN  [dense       |-> Swap2(ix.dense, d, e_swap, i_swap, GenerationInc(e)),
         record      |-> Swap2(ix.record, e_swap.id, d, e.id, i_swap),
         alive_count |-> i_swap,
         max_id      |-> ix.max_id]

(* flecs_entity_index_make_alive: overwrite the generation, if the id      *)
(* exists, alive or not.                                                   *)
MakeAlive(ix, e) ==
    IF Exists(ix, e.id)
    THEN [ix EXCEPT !.dense = [@ EXCEPT ![ix.record[e.id]] = e]]
    ELSE ix

(* flecs_entity_index_new_id: take the first dead entry if there is one,   *)
(* otherwise a fresh id. index->max_id is a uint32_t and wraps.            *)
CanRecycle(ix) == ix.alive_count # Count(ix)

FreshId(ix) == IF ix.max_id = MaxId THEN 0 ELSE ix.max_id + 1

NewId(ix) ==
    IF CanRecycle(ix)
    THEN [ix EXCEPT !.alive_count = @ + 1]
    ELSE [dense       |-> Append(ix.dense, [id |-> FreshId(ix), gen |-> 0]),
          record      |-> [ix.record EXCEPT ![FreshId(ix)] = ix.alive_count],
          alive_count |-> ix.alive_count + 1,
          max_id      |-> FreshId(ix)]

(* Faulty variant of NewIds: one fresh id too many when ids are recycled.  *)
NewIdsIgnoresDead(ix, n) ==
    [dense       |-> ix.dense \o [k \in 1..n |-> [id |-> ix.max_id + k, gen |-> 0]],
     record      |-> [id \in Ids |->
                        IF id \in (ix.max_id + 1)..(ix.max_id + n)
                        THEN Len(ix.dense) + id - ix.max_id
                        ELSE ix.record[id]],
     alive_count |-> ix.alive_count + n,
     max_id      |-> ix.max_id + n]

(* flecs_entity_index_new_ids: recycle, then append as many fresh ids as   *)
(* are missing; the whole block of n becomes alive.                        *)
FreshNeeded(ix, n) == MaxOf(ix.alive_count + n - Count(ix), 0)

NewIds(ix, n) ==
    LET m     == FreshNeeded(ix, n)
        fresh == [k \in 1..m |-> [id |-> ix.max_id + k, gen |-> 0]]
    IN  [dense       |-> ix.dense \o fresh,
         record      |-> [id \in Ids |->
                            IF id \in (ix.max_id + 1)..(ix.max_id + m)
                            THEN Len(ix.dense) + id - ix.max_id
                            ELSE ix.record[id]],
         alive_count |-> ix.alive_count + n,
         max_id      |-> ix.max_id + m]

-----------------------------------------------------------------------------
(* The operations of the world that change the index.                      *)

Init == /\ index = EmptyIndex
        /\ dead = {}

(* Giving an id a version explicitly takes back the versions from there on.*)
Retake(e) == dead' = {h \in dead : h.id # e.id \/ h.gen < e.gen}

(* flecs_new_id. The bound on ids: no fresh id is asked for once max_id    *)
(* has reached MaxId.                                                      *)
EcsNew == /\ CanRecycle(index) \/ index.max_id < MaxId
          /\ index' = NewId(index)
          /\ UNCHANGED dead

(* ecs_bulk_new of n entities, under the same bound.                       *)
EcsBulkNew(n) == /\ index.max_id + FreshNeeded(index, n) <= MaxId
                 /\ index' = NewIds(index, n)
                 /\ UNCHANGED dead

(* ecs_bulk_init and ecs_new_low_id bring a caller-provided id that is not *)
(* alive to life with ensure alone.                                        *)
EcsEnsure(e) == /\ ~IdIsAlive(index, e.id)
                /\ index' = Ensure(index, e)
                /\ Retake(e)

(* ecs_make_alive: nothing to do if e is alive, an error if its id is      *)
(* alive with another generation.                                          *)
EcsMakeAlive(e) == /\ ~IdIsAlive(index, e.id)
                   /\ index' = Ensure(MakeAlive(index, e), e)
                   /\ Retake(e)

(* ecs_set_version. It has no effect on an id that does not exist.         *)
EcsSetVersion(e) == /\ Exists(index, e.id)
                    /\ index' = MakeAlive(index, e)
                    /\ Retake(e)

(* ecs_delete. Deleting a handle that is not alive does nothing. When the  *)
(* generation wraps to 0 the old versions of the id are in use again.      *)
EcsDelete(e) == /\ IsAlive(index, e)
                /\ index' = Remove(index, e)
                /\ dead' = IF e.gen = GenCount - 1
                           THEN {h \in dead : h.id # e.id}
                           ELSE dead \cup {e}

Next == \/ EcsNew
        \/ \E n \in 1..MaxId : EcsBulkNew(n)
        \/ \E e \in Entities : \/ EcsEnsure(e)
                               \/ EcsMakeAlive(e)
                               \/ EcsSetVersion(e)
                               \/ EcsDelete(e)

Spec == Init /\ [][Next]_vars

(* The same world without the bound on ids: max_id is allowed to wrap.     *)
EcsNewUnbounded == index' = NewId(index) /\ UNCHANGED dead

SpecUnbounded == Init /\ [][Next \/ EcsNewUnbounded]_vars

-----------------------------------------------------------------------------
(* Properties.                                                             *)

IndexType == [dense : Seq(Handles), record : [Ids -> Nat],
              alive_count : Nat, max_id : Ids]

(* Types of the index, and of the history.                                 *)
TypeOK == /\ index \in IndexType
          /\ dead \in SUBSET Entities

(* Dense array and records agree both ways: each entry is where its id's   *)
(* record says, and each record that exists points at an entry of its own  *)
(* id. This is what the assertions r_swap->dense == alive_count (ensure)   *)
(* and r_swap->dense == i_swap (remove) rely on.                           *)
Linked(ix) ==
    /\ \A i \in 1..Len(ix.dense) : ix.record[ix.dense[i].id] = i
    /\ \A id \in Ids : Exists(ix, id) =>
          ix.record[id] \in 1..Len(ix.dense) /\ Entry(ix, id).id = id

(* The alive part is a prefix of the dense array, no id beyond max_id is   *)
(* in use (so a fresh id is really fresh), and 0 is not an entity.         *)
Bounded(ix) ==
    /\ ix.alive_count \in 1..Count(ix)
    /\ \A id \in Ids : Exists(ix, id) => id <= ix.max_id
    /\ ~Exists(ix, 0)

(* The representation invariant of the entity index: no sequence of        *)
(* create, bulk create, ensure, make alive, set version and delete leaves  *)
(* the index with a lost, duplicated or misplaced id.                      *)
IndexCoherent == Linked(index) /\ Bounded(index)

(* A deleted handle is never alive again, whatever is created, recycled or *)
(* deleted later, unless the application itself hands out that version     *)
(* again or the 16-bit generation of the id went through all its values.   *)
DeletedStaysDead == \A h \in dead : ~IsAlive(index, h)

(* The dense array implements the abstract id table of EntityHandles.      *)
Status(id) == IF IdIsAlive(index, id) THEN "alive"
              ELSE IF Exists(index, id) THEN "dead" ELSE "unused"

Version(id) == IF Exists(index, id) THEN Entry(index, id).gen ELSE 0

Abs == INSTANCE EntityHandles
         WITH status  <- [id \in EntityIds |-> Status(id)],
              version <- [id \in EntityIds |-> Version(id)]

(* Every operation on the dense array is one create, revive, override or   *)
(* delete of the abstract table: nobody else's liveness or version moves,  *)
(* dead ids are recycled before fresh ones are taken, and a delete with a  *)
(* stale handle changes nothing.                                           *)
ImplementsHandles == Abs!Spec

(* new_id asserts that creating an entity does not overflow the id.        *)
NoIdOverflow == ~Exists(index, 0)
=============================================================================
