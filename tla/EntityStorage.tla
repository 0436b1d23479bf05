---------------------------- MODULE EntityStorage ----------------------------
(***************************************************************************)
(* The archetype storage of a world: the entity index together with the    *)
(* tables (src/entity.c, src/storage/table.c). Entities with the same set  *)
(* of components are rows of the same table, and the ecs_record_t of an    *)
(* alive entity says which row it is.                                      *)
(*                                                                         *)
(* A table is found by its type, so it is identified with it here. A row   *)
(* is the element of data.entities together with the elements of all       *)
(* columns at that position; tags have no column. A table that was never   *)
(* created is an empty one. Components here have no traits or hooks.       *)
(***************************************************************************)
EXTENDS Integers, Sequences, Functions

CONSTANTS MaxId, GenCount,     \* see EntityIndex
          Comps,               \* component ids
          Data,                \* the components that have a size
          Values, Default      \* values of a component, as constructed

ASSUME MaxIdAssumption == MaxId \in Nat \ {0}
ASSUME GenCountAssumption == GenCount \in Nat \ {0}
ASSUME DataAssumption == Data \subseteq Comps
ASSUME DefaultAssumption == Default \in Values

VARIABLES index,      \* ecs_entity_index_t
          tables,     \* type -> rows of the table
          record      \* table and row of each id's ecs_record_t

vars == <<index, tables, record>>

IX == INSTANCE EntityIndex WITH dead <- {}

Types == SUBSET Comps
root == {}                                    \* world->store.root
NoRecord == [table |-> {}, row |-> 0]         \* r->table == NULL

Row(e, T, v) == [entity |-> e, type |-> T, val |-> v]
Constructed(T) == [c \in T \cap Data |-> Default]

IsAlive(e) == IX!IsAlive(index, e)
InTable(e) == record[e.id].row > 0
RowOf(e) == tables[record[e.id].table][record[e.id].row]
AliveIds(ix) == {id \in IX!EntityIds : IX!IdIsAlive(ix, id)}
AliveEntities(ix) == {IX!Entry(ix, id) : id \in AliveIds(ix)}

-----------------------------------------------------------------------------
(* Operations on a store s = [tables, record].                             *)

Store == [tables |-> tables, record |-> record]

(* flecs_table_append, and the record of the new row.                      *)
TableAppend(s, T, e, v) ==
    [tables |-> [s.tables EXCEPT ![T] = Append(@, Row(e, T, v))],
     record |-> [s.record EXCEPT ![e.id] = [table |-> T, row |-> Len(s.tables[T]) + 1]]]

(* flecs_table_appendn: rows for the entities of es, in order.             *)
TableAppendN(s, T, es, v) ==
    LET n == Len(s.tables[T])
        rows == [k \in 1..Len(es) |-> Row(es[k], T, v)]
    IN  [tables |-> [s.tables EXCEPT ![T] = @ \o rows],
         record |-> [id \in IX!Ids |->
                       IF \E k \in 1..Len(es) : es[k].id = id
                       THEN [table |-> T,
                             row |-> n + CHOOSE k \in 1..Len(es) : es[k].id = id]
                       ELSE s.record[id]]]

(* Faulty variant of TableDelete: the record of the row that fills the gap *)
(* still names the end of the table.                                       *)
TableDeleteKeepsRecord(s, T, row) ==
    LET last == Len(s.tables[T])
        rows == [s.tables[T] EXCEPT ![row] = s.tables[T][last]]
    IN  [tables |-> [s.tables EXCEPT ![T] = SubSeq(rows, 1, last - 1)],
         record |-> s.record]

(* flecs_table_delete: the last row fills the gap, and the record of its   *)
(* entity is updated.                                                      *)
TableDelete(s, T, row) ==
    LET last  == Len(s.tables[T])
        moved == s.tables[T][last].entity
        rows  == [s.tables[T] EXCEPT ![row] = s.tables[T][last]]
    IN  [tables |-> [s.tables EXCEPT ![T] = SubSeq(rows, 1, last - 1)],
         record |-> IF row # last THEN [s.record EXCEPT ![moved.id].row = row]
                    ELSE s.record]

(* flecs_table_move: the values of a row as it moves to components T.      *)
MovedValues(r, T) ==
    [c \in T \cap Data |-> IF c \in r.type THEN r.val[c] ELSE Default]

(* Faulty variant of MoveEntity: the row is taken out of the old table     *)
(* before its values are copied, so it copies the row that fills the gap.  *)
MoveEntityLate(s, e, T) ==
    LET src == s.record[e.id]
        del == TableDelete(s, src.table, src.row)
        rows == IF src.row <= Len(del.tables[src.table])
                THEN del.tables[src.table] ELSE s.tables[src.table]
    IN  TableAppend(del, T, e, MovedValues(rows[src.row], T))

(* flecs_move_entity: append to the new table, copy the values, point the  *)
(* record there, and only then take the row out of the old table.          *)
MoveEntity(s, e, T) ==
    LET src == s.record[e.id]
        row == s.tables[src.table][src.row]
    IN  TableDelete(TableAppend(s, T, e, MovedValues(row, T)), src.table, src.row)

(* flecs_commit: nothing to do if the table stays the same.                *)
Commit(s, e, T) == IF s.record[e.id].table = T THEN s ELSE MoveEntity(s, e, T)

(* The component's value in the row of e.                                  *)
WriteValue(s, e, c, v) ==
    LET r == s.record[e.id]
    IN  [s EXCEPT !.tables[r.table][r.row].val[c] = v]

(* flecs_entity_index_remove clears the record.                            *)
ClearRecord(s, e) == [s EXCEPT !.record[e.id] = NoRecord]

Becomes(s) == tables' = s.tables /\ record' = s.record

-----------------------------------------------------------------------------
Init == /\ index = IX!EmptyIndex
        /\ tables = [T \in Types |-> <<>>]
        /\ record = [id \in IX!Ids |-> NoRecord]

(* ecs_new (T is the root table) and ecs_new_w_table. As in EntityIndex no *)
(* fresh id is asked for when max_id has reached MaxId.                    *)
EcsNew(T) ==
    /\ IX!CanRecycle(index) \/ index.max_id < MaxId
    /\ index' = IX!NewId(index)
    /\ Becomes(TableAppend(Store, T, index'.dense[index.alive_count], Constructed(T)))

(* ecs_bulk_new, with or without values.                                   *)
EcsBulkNew(n, T, v) ==
    /\ index.max_id + IX!FreshNeeded(index, n) <= MaxId
    /\ index' = IX!NewIds(index, n)
    /\ Becomes(TableAppendN(Store, T,
          SubSeq(index'.dense, index.alive_count, index'.alive_count - 1), v))

(* ecs_bulk_init with a caller-provided id.                                *)
EcsBulkInit(e, T, v) ==
    /\ ~IX!IdIsAlive(index, e.id)
    /\ index' = IX!Ensure(index, e)
    /\ Becomes(TableAppendN(Store, T, <<e>>, v))

(* ecs_make_alive.                                                         *)
EcsMakeAlive(e) ==
    /\ ~IX!IdIsAlive(index, e.id)
    /\ index' = IX!Ensure(IX!MakeAlive(index, e), e)
    /\ Becomes(TableAppend(Store, root, e, Constructed(root)))

(* ecs_set_version: the table's entity is updated too if the id is alive.  *)
EcsSetVersion(e) ==
    /\ IX!Exists(index, e.id)
    /\ index' = IX!MakeAlive(index, e)
    /\ IF IX!IdIsAlive(index, e.id) /\ InTable(e)
       THEN LET r == record[e.id]
            IN  tables' = [tables EXCEPT ![r.table][r.row].entity = e]
       ELSE UNCHANGED tables
    /\ UNCHANGED record

(* ecs_add_id, ecs_remove_id and ecs_clear.                                *)
EcsAdd(e, c) == /\ IsAlive(e)
                /\ Becomes(Commit(Store, e, record[e.id].table \cup {c}))
                /\ UNCHANGED index

EcsRemove(e, c) == /\ IsAlive(e)
                   /\ Becomes(Commit(Store, e, record[e.id].table \ {c}))
                   /\ UNCHANGED index

EcsClear(e) == /\ IsAlive(e)
               /\ Becomes(Commit(Store, e, root))
               /\ UNCHANGED index

(* ecs_set_id: add the component if it is missing, then copy the value.    *)
EcsSet(e, c, v) ==
    /\ IsAlive(e)
    /\ Becomes(WriteValue(Commit(Store, e, record[e.id].table \cup {c}), e, c, v))
    /\ UNCHANGED index

(* ecs_delete: take the row out of its table, then the id out of the index.*)
EcsDelete(e) ==
    /\ IsAlive(e)
    /\ index' = IX!Remove(index, e)
    /\ LET r == record[e.id]
       IN  Becomes(ClearRecord(TableDelete(Store, r.table, r.row), e))

(* flecs_table_swap, which sorting a table is made of.                     *)
SwapRows(T, i, j) ==
    /\ tables' = [tables EXCEPT ![T][i] = tables[T][j], ![T][j] = tables[T][i]]
    /\ record' = [record EXCEPT ![tables[T][i].entity.id].row = j,
                                ![tables[T][j].entity.id].row = i]
    /\ UNCHANGED index

(* flecs_table_merge: where row i of the source table ends up.             *)
MergedRow(dst, i) == Len(tables[dst]) + i

(* ecs_remove_all: flecs_remove_from_table merges each table with c into   *)
(* the table without it.                                                   *)
EcsRemoveAll(c) ==
    /\ tables' = [T \in Types |->
         IF c \in T THEN <<>>
         ELSE tables[T] \o [i \in 1..Len(tables[T \cup {c}]) |->
                LET r == tables[T \cup {c}][i]
                IN  Row(r.entity, T, MovedValues(r, T))]]
    /\ record' = [id \in IX!Ids |->
         LET r == record[id]
         IN  IF r.row > 0 /\ c \in r.table
             THEN [table |-> r.table \ {c}, row |-> MergedRow(r.table \ {c}, r.row)]
             ELSE r]
    /\ UNCHANGED index

(* ecs_delete_with: ecs_table_clear_entities for each table with c, in the *)
(* order of the component's table cache. Entities of a table go together   *)
(* and in the order of its rows.                                           *)
With(c) == {e \in AliveEntities(index) : c \in record[e.id].table}

TableByTable(n, es) ==
    \A i, k \in 1..n : i < k /\ record[es[i].id].table = record[es[k].id].table =>
        /\ record[es[i].id].row < record[es[k].id].row
        /\ \A j \in i..k : record[es[j].id].table = record[es[i].id].table

(* The index after the first k of the entities es are removed from it.     *)
Removals(n, es) ==
    LET after[k \in 0..n] == IF k = 0 THEN index ELSE IX!Remove(after[k - 1], es[k])
    IN  after

EcsDeleteWith(c) ==
    /\ \E n \in 0..MaxId : \E es \in Bijection(1..n, With(c)) :
          /\ TableByTable(n, es)
          /\ index' = Removals(n, es)[n]
    /\ tables' = [T \in Types |-> IF c \in T THEN <<>> ELSE tables[T]]
    /\ record' = [id \in IX!Ids |-> IF c \in record[id].table THEN NoRecord ELSE record[id]]

Next ==
    \/ \E T \in Types : \/ EcsNew(T)
                        \/ \E v \in [T \cap Data -> Values] :
                             \/ \E n \in 1..MaxId : EcsBulkNew(n, T, v)
                             \/ \E e \in IX!Entities : EcsBulkInit(e, T, v)
                        \/ \E i, j \in 1..Len(tables[T]) : i < j /\ SwapRows(T, i, j)
    \/ \E e \in IX!Entities : \/ EcsMakeAlive(e)
                              \/ EcsSetVersion(e)
                              \/ EcsClear(e)
                              \/ EcsDelete(e)
                              \/ \E c \in Comps : EcsAdd(e, c) \/ EcsRemove(e, c)
                              \/ \E c \in Data, v \in Values : EcsSet(e, c, v)
    \/ \E c \in Comps : EcsRemoveAll(c) \/ EcsDeleteWith(c)

Spec == Init /\ [][Next]_vars

-----------------------------------------------------------------------------
(* Properties.                                                             *)

RowType(T) == [entity : IX!Entities, type : {T}, val : [T \cap Data -> Values]]

(* Types: every row of a table has exactly the table's columns.            *)
TypeOK ==
    /\ index \in IX!IndexType
    /\ DOMAIN tables = Types
    /\ \A T \in Types : tables[T] \in Seq(RowType(T))
    /\ record \in [IX!Ids -> [table : Types, row : Nat]]

(* Records and rows agree both ways: an entity is alive exactly if it has  *)
(* a row, its record names that row, and the row holds its full handle,    *)
(* version included. Swap-remove, moves, sorting, merges and bulk          *)
(* operations all have to keep the records of entities they do not name.   *)
RecordsMatchRows ==
    /\ \A id \in IX!Ids : (record[id].row > 0) <=> IX!IdIsAlive(index, id)
    /\ \A e \in AliveEntities(index) :
          /\ record[e.id].row \in 1..Len(tables[record[e.id].table])
          /\ RowOf(e).entity = e
    /\ \A T \in Types : \A i \in 1..Len(tables[T]) :
          LET e == tables[T][i].entity
          IN  IsAlive(e) /\ record[e.id] = [table |-> T, row |-> i]

(* The storage is well-formed after every operation (table.c, entity.c).   *)
StorageInv == TypeOK /\ RecordsMatchRows

(* What an application sees of an entity.                                  *)
Shown == [e \in AliveEntities(index) |->
            [type |-> record[e.id].table, val |-> RowOf(e).val]]

(* The tables implement the abstract store.                                *)
Abs == INSTANCE EcsStore WITH Entities <- IX!Entities, ents <- Shown

(* The values of an entity follow it wherever its row goes, and no         *)
(* operation on an entity is visible in another one.                       *)
ImplementsStore == Abs!StoreSpec
=============================================================================
