---------------------------- MODULE EntityRanges -----------------------------
(***************************************************************************)
(* Entity ranges (src/addons/entity_ranges.c): the entity index with       *)
(* intervals of ids, one of which may be active. The dead part of the      *)
(* dense array then holds the recycled ids of the active range only; those *)
(* of the others are kept in their ecs_entity_range_t. Ranges never        *)
(* overlap, so a range is named by its min, and the binary search over the *)
(* ranges sorted by min is the choice of the one that has the id.          *)
(***************************************************************************)
EXTENDS Integers, Sequences

CONSTANTS MaxId, GenCount,   \* see EntityIndex
          Careless           \* what this application does not refrain from

ASSUME MaxIdAssumption == MaxId \in Nat \ {0}
ASSUME GenCountAssumption == GenCount \in Nat \ {0}
ASSUME CarelessAssumption == Careless \subseteq {"revive", "cover"}

VARIABLES index,    \* ecs_entity_index_t without its ranges
          dead,     \* history: deleted handles, see EntityIndex
          ranges,   \* index->ranges: min -> ecs_entity_range_t
          active,   \* min of index->active_range, 0 for NULL
          overran   \* history: ids were issued behind the end of the active range

vars == <<index, dead, ranges, active, overran>>

IX == INSTANCE EntityIndex

-----------------------------------------------------------------------------
InRange(r, id) == id >= r.min /\ (r.max = 0 \/ id <= r.max)

(* flecs_entity_index_find_range: the min of the range of id, 0 for none.  *)
FindRange(rs, id) ==
    IF \E m \in DOMAIN rs : InRange(rs[m], id)
    THEN CHOOSE m \in DOMAIN rs : InRange(rs[m], id)
    ELSE 0

(* The id is not the business of the active range.                         *)
OutOfActive(id) == active # 0 /\ ~InRange(ranges[active], id)

NewRange(min, max, cur) == [min |-> min, max |-> max, cur |-> cur, recycled |-> <<>>]

(* flecs_entity_index_ensure with flecs_entity_ranges_on_ensure: an id     *)
(* that is new to the index and outside of the active range moves the cur  *)
(* of its own range, not max_id.                                           *)
OnEnsure(e) ==
    LET ix == IX!Ensure(IX!MakeAlive(index, e), e)
        m  == FindRange(ranges, e.id)
    IN  IF OutOfActive(e.id) /\ ~IX!Exists(index, e.id)
        THEN /\ index' = [ix EXCEPT !.max_id = index.max_id]
             /\ ranges' = IF m = 0 THEN ranges
                          ELSE [ranges EXCEPT ![m].cur = IX!MaxOf(e.id, @)]
        ELSE index' = ix /\ UNCHANGED ranges

(* flecs_entity_index_remove_not_alive: take the first dead entry, which   *)
(* is the one of id, out of the dense array; the last entry fills the gap. *)
RemoveNotAlive(ix, id) ==
    LET a    == ix.alive_count
        last == Len(ix.dense)
    IN  [dense       |-> SubSeq([ix.dense EXCEPT ![a] = ix.dense[last]], 1, last - 1),
         record      |-> IX!Swap2(ix.record, ix.dense[last].id, a, id, 0),
         alive_count |-> a,
         max_id      |-> ix.max_id]

(* flecs_entity_index_remove with flecs_entity_ranges_on_delete: an id     *)
(* outside of the active range is recycled by its own range, or not at all.*)
OnDelete(e) ==
    LET ix == IX!Remove(index, e)
        m  == FindRange(ranges, e.id)
    IN  IF OutOfActive(e.id)
        THEN /\ index' = RemoveNotAlive(ix, e.id)
             /\ ranges' = IF m = 0 THEN ranges
                          ELSE [ranges EXCEPT ![m].recycled =
                                  Append(@, IX!GenerationInc(e))]
        ELSE index' = ix /\ UNCHANGED ranges

(* Faulty variant of SetRange: the records of the ids that leave the dense *)
(* array are not cleared.                                                  *)
SetRangeKeepsRecords(ix, rs, prev, m) ==
    LET a      == ix.alive_count
        gone   == SubSeq(ix.dense, a, Len(ix.dense))
        saved  == IF prev = 0 THEN rs
                  ELSE [rs EXCEPT ![prev] = [min |-> @.min, max |-> @.max,
                                             cur |-> ix.max_id, recycled |-> gone]]
        loaded == saved[m].recycled
    IN  [index  |-> [
            dense       |-> SubSeq(ix.dense, 1, a - 1) \o loaded,
            record      |-> [id \in IX!Ids |->
                               IF \E k \in DOMAIN loaded : loaded[k].id = id
                               THEN a - 1 + (CHOOSE k \in DOMAIN loaded : loaded[k].id = id)
                               ELSE ix.record[id]],
            alive_count |-> a,
            max_id      |-> saved[m].cur],
         ranges |-> [saved EXCEPT ![m].recycled = <<>>]]

(* flecs_entity_index_set_range: the dead entries and max_id are saved in  *)
(* the previous range prev, and those of range m take their place.         *)
SetRange(ix, rs, prev, m) ==
    LET a      == ix.alive_count
        gone   == SubSeq(ix.dense, a, Len(ix.dense))
        saved  == IF prev = 0 THEN rs
                  ELSE [rs EXCEPT ![prev] = [min |-> @.min, max |-> @.max,
                                             cur |-> ix.max_id, recycled |-> gone]]
        loaded == saved[m].recycled
    IN  [index  |-> [
            dense       |-> SubSeq(ix.dense, 1, a - 1) \o loaded,
            record      |-> [id \in IX!Ids |->
                               IF \E k \in DOMAIN loaded : loaded[k].id = id
                               THEN a - 1 + (CHOOSE k \in DOMAIN loaded : loaded[k].id = id)
                               ELSE IF \E k \in DOMAIN gone : gone[k].id = id
                               THEN 0 ELSE ix.record[id]],
            alive_count |-> a,
            max_id      |-> saved[m].cur],
         ranges |-> [saved EXCEPT ![m].recycled = <<>>]]

Overlap(r, min, max) == (max = 0 \/ r.min <= max) /\ (r.max = 0 \/ min <= r.max)

-----------------------------------------------------------------------------
Init == /\ index = IX!EmptyIndex
        /\ dead = {}
        /\ ranges = <<>>
        /\ active = 0
        /\ overran = FALSE

(* An id is taken if it is or was in the index outside of every range: the *)
(* index then knows nothing about it, or not enough.                       *)
Taken(id) == IX!IdIsAlive(index, id) \/ \E h \in dead : h.id = id

(* ecs_entity_range_new. The first range leaves a default range behind it  *)
(* for the ids below, or is the default range, which becomes active. A     *)
(* careful application does not lay later ranges over ids it has used.     *)
EcsRangeNew(min, max) ==
    LET first == DOMAIN ranges = {}
        rs    == [m \in {min} \cup (IF first THEN {1} ELSE DOMAIN ranges) |->
                    IF m = min
                    THEN NewRange(min, max, IF first /\ min = 1 THEN index.max_id ELSE min - 1)
                    ELSE IF first THEN NewRange(1, min - 1, index.max_id) ELSE ranges[m]]
    IN  /\ max = 0 \/ max >= min
        /\ ~IX!CanRecycle(index)
        /\ first => CASE min = 1 -> max = 0 \/ max >= index.max_id
                      [] OTHER   -> min - 1 >= index.max_id
        /\ \A m \in DOMAIN ranges : ~Overlap(ranges[m], min, max)
        /\ \/ "cover" \in Careless
           \/ first
           \/ \A id \in IX!EntityIds : InRange(NewRange(min, max, 0), id) => ~Taken(id)
        /\ IF first
           THEN LET s == SetRange(index, rs, 0, 1)
                IN  index' = s.index /\ ranges' = s.ranges /\ active' = 1
           ELSE ranges' = rs /\ UNCHANGED <<index, active>>
        /\ UNCHANGED <<dead, overran>>

(* ecs_entity_range_set.                                                   *)
EcsRangeSet(m) ==
    LET s == SetRange(index, ranges, active, m)
    IN  /\ m \in DOMAIN ranges
        /\ index' = s.index
        /\ ranges' = s.ranges
        /\ active' = m
        /\ UNCHANGED <<dead, overran>>

(* Faulty variant of Limit: the end of the active range is not enforced.   *)
LimitOff == MaxId

(* The largest id that may be issued: flecs_new_id asserts max.            *)
Limit == IF active = 0 \/ ranges[active].max = 0 THEN MaxId ELSE ranges[active].max

(* flecs_new_id.                                                           *)
EcsNew == /\ IX!CanRecycle(index) \/ index.max_id < Limit
          /\ index' = IX!NewId(index)
          /\ UNCHANGED <<dead, ranges, active, overran>>

(* ecs_bulk_new. It does not look at the end of the active range; what     *)
(* stops it is the bound on ids.                                           *)
EcsBulkNew(n) ==
    /\ index.max_id + IX!FreshNeeded(index, n) <= MaxId
    /\ index' = IX!NewIds(index, n)
    /\ overran' = (overran \/ index'.max_id > Limit)
    /\ UNCHANGED <<dead, ranges, active>>

Recycled(m) == {ranges[m].recycled[k].id : k \in DOMAIN ranges[m].recycled}
RecycledElsewhere(id) == \E m \in DOMAIN ranges : id \in Recycled(m)

(* ecs_make_alive. A careful application does not make an id alive that an *)
(* inactive range has recycled.                                            *)
EcsMakeAlive(e) == /\ ~IX!IdIsAlive(index, e.id)
                   /\ "revive" \in Careless \/ ~RecycledElsewhere(e.id)
                   /\ OnEnsure(e)
                   /\ IX!Retake(e)
                   /\ UNCHANGED <<active, overran>>

(* ecs_delete.                                                             *)
EcsDelete(e) == /\ IX!IsAlive(index, e)
                /\ OnDelete(e)
                /\ dead' = IF e.gen = GenCount - 1
                           THEN {h \in dead : h.id # e.id}
                           ELSE dead \cup {e}
                /\ UNCHANGED <<active, overran>>

Next == \/ \E min \in IX!EntityIds, max \in IX!Ids : EcsRangeNew(min, max)
        \/ \E m \in IX!EntityIds : EcsRangeSet(m)
        \/ EcsNew
        \/ \E n \in 1..MaxId : EcsBulkNew(n)
        \/ \E e \in IX!Entities : EcsMakeAlive(e) \/ EcsDelete(e)

Spec == Init /\ [][Next]_vars

(* A bound on runs: an overrun is their last step.                         *)
BeforeOverrun == ~overran

-----------------------------------------------------------------------------
(* Types of the index, the history and the ranges.                         *)
TypeOK ==
    /\ IX!TypeOK
    /\ active \in {0} \cup DOMAIN ranges
    /\ \A m \in DOMAIN ranges :
          /\ ranges[m].min = m /\ ranges[m].max \in IX!Ids /\ ranges[m].cur \in IX!Ids
          /\ ranges[m].recycled \in Seq(IX!Entities)

(* Across any switches between ranges an id is kept in one place: as an    *)
(* entry of the dense array that its record names, or once in the recycled *)
(* list of the range it belongs to, in which case it is not in the index.  *)
OnePlace ==
    /\ IX!Linked(index)
    /\ \A m \in DOMAIN ranges : \A i, j \in DOMAIN ranges[m].recycled :
          LET id == ranges[m].recycled[i].id
          IN  /\ id = ranges[m].recycled[j].id => i = j
              /\ InRange(ranges[m], id)
              /\ ~IX!Exists(index, id)

(* The counter of a range, kept in max_id while it is active, is not       *)
(* behind an id of the range that is in use: a fresh id is really fresh.   *)
(* flecs_entity_index_new_id asserts it ("new entity id already in use").  *)
FreshIsFresh ==
    \A id \in IX!EntityIds :
       LET m == FindRange(ranges, id)
       IN  IX!Exists(index, id) /\ (active = 0 \/ m # 0) =>
              id <= IF m = active THEN index.max_id ELSE ranges[m].cur

(* A deleted handle stays dead when its id is handed to an inactive range, *)
(* saved and loaded again, as in DeletedStaysDead of the index alone.      *)
DeletedStaysDead == IX!DeletedStaysDead

(* Index and ranges agree on every id: it is in one place, the counters    *)
(* are ahead of it, and its deleted handles stay dead (entity_ranges.c),   *)
(* until ecs_bulk_new has issued ids that are not those of the range.      *)
RangesInv == ~overran => TypeOK /\ OnePlace /\ FreshIsFresh /\ DeletedStaysDead

Issued == {id \in IX!EntityIds : ~IX!IdIsAlive(index, id) /\ IX!IdIsAlive(index', id)}

(* "While a range is active, both newly issued and recycled ids fall       *)
(* within the range" holds of ecs_new. ecs_bulk_new, which has no check of *)
(* its own, leaves the range at its end only: not before all it has to     *)
(* recycle and all its fresh ids are alive.                                *)
IssuedInRange ==
    [][~overran =>
          /\ EcsNew => \A id \in Issued : ~OutOfActive(id)
          /\ \A n \in 1..MaxId : EcsBulkNew(n) =>
                \A id \in Issued : OutOfActive(id) =>
                   /\ id > Limit /\ overran'
                   /\ ~IX!CanRecycle(index')]_vars

(* "When the active range is out of available ids, operations that create  *)
(* new entity ids will assert": neither will ecs_bulk_new leave it.        *)
EndRespected ==
    [][\A n \in 1..MaxId : EcsBulkNew(n) =>
          \A id \in Issued : ~OutOfActive(id)]_vars

(* The assertion in flecs_entity_index_new_id: "Make sure id hasn't been   *)
(* issued before after switching ranges".                                  *)
NewIdUnused ==
    ~overran /\ ~IX!CanRecycle(index) /\ index.max_id < Limit =>
        ~IX!Exists(index, IX!FreshId(index))

(* The assertion in flecs_entity_index_set_range that the recycled ids it  *)
(* loads belong to no table (r->table == NULL), as alive entities do.      *)
LoadedAreDead ==
    [][\A m \in DOMAIN ranges : ~overran /\ EcsRangeSet(m) =>
          \A id \in Recycled(m) : ~IX!IdIsAlive(index, id)]_vars
=============================================================================
