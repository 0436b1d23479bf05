----------------------------- MODULE References -----------------------------
(***************************************************************************)
(* Component references (ref.c).  An ecs_ref_t caches the address of one   *)
(* component of one entity.  To find out cheaply whether the address is    *)
(* still good it also caches two counters: that of a slot of               *)
(* world->table_version, which tables with the same low bits of their id   *)
(* share, and the version of the table itself.  Every operation on tables  *)
(* that moves a component has to increment both.                           *)
(*                                                                         *)
(* A pointer is a pair of an allocation and a row.  A new allocation gets  *)
(* a name that no table, entity or reference holds.  Operations that call  *)
(* back into the application are split at the call: op says which          *)
(* operation is under way, and app in which calls the application uses     *)
(* references.                                                             *)
(***************************************************************************)
EXTENDS Naturals, Sequences, FiniteSets, TLC

CONSTANTS
    TableSlots,    \* table ids are 0 .. TableSlots - 1; table 0 is the root table
    FastSlots,     \* size of world->table_version
    VersionLimit,  \* 2 ^ 16 in the code: table->version is a uint16_t
    FastLimit,     \* 2 ^ 32 in the code: world->table_version holds uint32_t
    Ids,           \* entity ids, without generation
    Refs,          \* the references of the application
    Applications,  \* what applications do, each a set of Habits
    MaxGen,        \* bound on the generation of an entity
    MaxChanges     \* bound on the increments of one slot

(* When an application can use references: between operations ("idle") and  *)
(* in their callbacks. It can also call ecs_set_version, and have a         *)
(* component that is stored outside of tables.                              *)
Windows == {"idle", "on_add", "on_move", "on_remove", "merged", "cleared"}
Habits == Windows \cup {"set_version", "dont_fragment"}

ASSUME ReferencesAssumption ==
    /\ TableSlots \in Nat \ {0} /\ FastSlots \in Nat \ {0}
    /\ VersionLimit \in Nat \ {0, 1} /\ FastLimit \in Nat \ {0, 1}
    /\ IsFiniteSet(Ids) /\ IsFiniteSet(Refs)
    /\ MaxGen \in Nat /\ MaxChanges \in Nat \ {0}
    /\ Applications \subseteq SUBSET Habits

Tables == 0 .. TableSlots - 1
Root == 0
NoTable == TableSlots

VARIABLES
    tables,   \* ecs_table_t: generation of the id, version, entities, storage
    fast,     \* world->table_version
    record,   \* ecs_record_t: generation, table and row of an entity
    own,      \* address of the component of an entity outside of tables
    ref,      \* ecs_ref_t
    op,       \* the operation under way
    app       \* what this application does

vars == <<tables, fast, record, own, ref, op, app>>

Null == <<0, 0>>
Idle == [kind |-> "idle", id |-> Root, table |-> Root]
Handle(i) == <<i, record[i].gen>>
TableId(t) == <<t, tables[t].gen>>

(* flecs_get_table_version_fast *)
Slot(t) == t % FastSlots
FastOf(table_id) == fast[Slot(table_id[1])]

(* flecs_increment_table_version, n times *)
Versioned(tab, n) == [tab EXCEPT !.version = (@ + n) % VersionLimit]
Increment(f, t, n) == [f EXCEPT ![Slot(t)] = (@ + n) % FastLimit]

(* Bound of the model: every operation makes at most two increments. *)
Room(t) == fast[Slot(t)] + 2 <= MaxChanges

-----------------------------------------------------------------------------
(* flecs_get_component: what ecs_get returns for an entity *)
Component(i) ==
    LET t == record[i].table
    IN  IF "dont_fragment" \in app THEN own[i]
        ELSE IF tables[t].column THEN <<tables[t].buffer, record[i].row>>
        ELSE Null

IsAlive(h) == record[h[1]].table # NoTable /\ record[h[1]].gen = h[2]

Get(h) == IF IsAlive(h) THEN Component(h[1]) ELSE Null

NoRef == [entity |-> Null, table_id |-> Null, fast |-> 0, version |-> 0, ptr |-> Null]

(* ecs_ref_init_id *)
NewRef(i) ==
    LET t == record[i].table
    IN  [entity |-> Handle(i), table_id |-> TableId(t), fast |-> fast[Slot(t)],
         version |-> tables[t].version, ptr |-> Component(i)]

(* ecs_ref_update: the reference after the update *)
Updated(r) ==
    LET i == r.entity[1]
        t == record[i].table
    IN  IF r.fast = FastOf(r.table_id) THEN r
        ELSE IF ~IsAlive(r.entity) THEN [NoRef EXCEPT !.entity = r.entity]
        ELSE IF r.table_id = TableId(t) /\ r.version = tables[t].version
             THEN [r EXCEPT !.fast = FastOf(r.table_id)]
        ELSE NewRef(i)

-----------------------------------------------------------------------------
EmptyTable(gen, column) ==
    [alive |-> TRUE, gen |-> gen, version |-> 1, column |-> column,
     buffer |-> 0, spare |-> FALSE, rows |-> <<>>]

Init ==
    /\ tables = [t \in Tables |->
                   [EmptyTable(0, FALSE) EXCEPT !.alive = (t = Root)]]
    /\ fast = [s \in 0 .. FastSlots - 1 |-> IF s = Root THEN 1 ELSE 0]
    /\ record = [i \in Ids |-> [gen |-> 0, table |-> NoTable, row |-> 0]]
    /\ own = [i \in Ids |-> Null]
    /\ ref = [r \in Refs |-> NoRef]
    /\ op = Idle
    /\ app \in Applications

(* ecs_os_malloc: the nth of the names that nothing holds *)
Held == {tables[t].buffer : t \in Tables} \cup {own[i][1] : i \in Ids}
          \cup {ref[r].ptr[1] : r \in Refs}
Unused(n) ==
    CHOOSE b \in (1 .. Cardinality(Held) + n) \ Held :
        Cardinality((1 .. b) \ Held) = n

(* flecs_table_grow_data: columns without room for a row are reallocated,   *)
(* which may leave them where they are; spare says that there is room for   *)
(* more rows (data.count < data.size)                                       *)
Grown(tab, i, m) ==
    [tab EXCEPT !.rows = Append(@, i), !.buffer = m.buffer, !.spare = m.spare]
Columns(t) ==
    LET b == tables[t].buffer
    IN  IF ~tables[t].column THEN {0}
        ELSE IF tables[t].spare THEN {b}
        ELSE ({b} \ {0}) \cup {Unused(1)}
Memory(t) == [buffer : Columns(t), spare : BOOLEAN]

(* flecs_table_delete: the last row moves to the deleted one, and so does   *)
(* the record of its entity                                                 *)
WithoutRow(rows, k) ==
    [j \in 1 .. Len(rows) - 1 |-> IF j = k THEN rows[Len(rows)] ELSE rows[j]]

Shortened(tab, k) ==
    [Versioned(tab, 1) EXCEPT !.rows = WithoutRow(tab.rows, k), !.spare = TRUE]

(* Faulty variant of MovedRecords: the record of the other entity stays. *)
MovedRecordsForgotten(recs, rows, k) == recs

MovedRecords(recs, rows, k) ==
    IF k = Len(rows) THEN recs ELSE [recs EXCEPT ![rows[Len(rows)]].row = k]

(* flecs_entities_remove *)
Dead(rec) == [gen |-> rec.gen + 1, table |-> NoTable, row |-> 0]

(* Faulty variant of Fini: the id can come back as it was. *)
FiniKeepsId(tab) == [EmptyTable(tab.gen, FALSE) EXCEPT !.alive = FALSE]

(* flecs_table_fini, with flecs_table_fini_data and                         *)
(* flecs_sparse_remove_w_gen: the id of the table gets a new generation     *)
Fini(tab) == [EmptyTable(tab.gen + 1, FALSE) EXCEPT !.alive = FALSE]

(* flecs_table_new, in a new or a recycled element of world->store.tables *)
CreateTable(t, column) ==
    /\ op = Idle
    /\ ~tables[t].alive
    /\ tables' = [tables EXCEPT ![t] = EmptyTable(@.gen, column)]
    /\ UNCHANGED <<fast, record, own, ref, op>>

(* ecs_new, ecs_new_w_id: flecs_new_entity up to the on_add hooks that      *)
(* flecs_table_append calls; the record says that the entity is in the root *)
(* table until the append returns                                           *)
NewAppend(i, t, m) ==
    /\ op = Idle
    /\ record[i].table = NoTable
    /\ tables[t].alive /\ Room(t)
    /\ record' = [record EXCEPT ![i].table = Root, ![i].row = 0]
    /\ tables' = [tables EXCEPT ![t] = Grown(@, i, m)]
    /\ op' = [kind |-> "on_add", id |-> i, table |-> t]
    /\ UNCHANGED <<fast, own, ref>>

NewDone ==
    LET t == op.table
    IN  /\ op.kind = "on_add"
        /\ tables' = [tables EXCEPT ![t] = Versioned(@, 1)]
        /\ fast' = Increment(fast, t, 1)
        /\ record' = [record EXCEPT ![op.id].table = t,
                                    ![op.id].row = Len(tables[t].rows)]
        /\ op' = Idle
        /\ UNCHANGED <<own, ref>>

(* flecs_move_entity: append to the new table, hooks of flecs_table_move,   *)
(* then the record and the old row                                          *)
MoveAppend(i, d, m) ==
    /\ op = Idle
    /\ record[i].table # NoTable /\ record[i].table # d
    /\ tables[d].alive /\ Room(d) /\ Room(record[i].table)
    /\ tables' = [tables EXCEPT ![d] = Versioned(Grown(@, i, m), 1)]
    /\ fast' = Increment(fast, d, 1)
    /\ op' = [kind |-> "on_move", id |-> i, table |-> d]
    /\ UNCHANGED <<record, own, ref>>

MoveDone ==
    LET i == op.id
        s == record[i].table
        k == record[i].row
    IN  /\ op.kind = "on_move"
        /\ record' = [MovedRecords(record, tables[s].rows, k) EXCEPT
                        ![i].table = op.table, ![i].row = Len(tables[op.table].rows)]
        /\ tables' = [tables EXCEPT ![s] = Shortened(@, k)]
        /\ fast' = Increment(fast, s, 1)
        /\ op' = Idle
        /\ UNCHANGED <<own, ref>>

(* ecs_delete: flecs_table_delete has incremented the version when it calls *)
(* the on_remove hooks; the entity index follows after them                 *)
DeleteRow(i) ==
    LET t == record[i].table
        k == record[i].row
    IN  /\ op = Idle
        /\ t # NoTable /\ Room(t) /\ record[i].gen < MaxGen
        /\ record' = MovedRecords(record, tables[t].rows, k)
        /\ tables' = [tables EXCEPT ![t] = Shortened(@, k)]
        /\ fast' = Increment(fast, t, 1)
        /\ own' = [own EXCEPT ![i] = Null]
        /\ op' = [kind |-> "on_remove", id |-> i, table |-> t]
        /\ UNCHANGED <<ref>>

DeleteDone ==
    /\ op.kind = "on_remove"
    /\ record' = [record EXCEPT ![op.id] = Dead(@)]
    /\ op' = Idle
    /\ UNCHANGED <<tables, fast, own, ref>>

(* ecs_delete_with: ecs_table_clear_entities, then the observers of other   *)
(* tables, then flecs_component_release_tables                              *)
ClearTable(t) ==
    LET gone == {tables[t].rows[k] : k \in DOMAIN tables[t].rows}
    IN  /\ op = Idle
        /\ t # Root /\ gone # {} /\ fast[Slot(t)] + 3 <= MaxChanges
        /\ \A i \in gone : record[i].gen < MaxGen
        /\ record' = [i \in Ids |-> IF i \in gone THEN Dead(record[i]) ELSE record[i]]
        /\ own' = [i \in Ids |-> IF i \in gone THEN Null ELSE own[i]]
        /\ tables' = [tables EXCEPT ![t] =
                        [Versioned(@, 1) EXCEPT !.rows = <<>>, !.spare = TRUE]]
        /\ fast' = Increment(fast, t, 1)
        /\ op' = [kind |-> "cleared", id |-> Root, table |-> t]
        /\ UNCHANGED <<ref>>

(* ecs_remove_all: flecs_remove_from_table moves all rows of a table with   *)
(* flecs_table_merge, which increments the version of the destination only; *)
(* an empty destination takes over the columns                              *)
MergedMemory(t, d) ==
    IF tables[d].rows # <<>> THEN Memory(d)
    ELSE [buffer : IF tables[d].column THEN {tables[t].buffer} ELSE {0},
          spare : {tables[t].spare}]
MergedRows(t, d) == tables[d].rows \o tables[t].rows
Merged(tab, rows, m) ==
    [Versioned(tab, 1) EXCEPT !.rows = rows, !.buffer = m.buffer, !.spare = m.spare]
Drained(tab) == [tab EXCEPT !.rows = <<>>, !.buffer = 0, !.spare = FALSE]

MergeTable(t, d) ==
    \E m \in MergedMemory(t, d) :
    LET n == Len(tables[d].rows)
    IN  /\ op = Idle
        /\ t # Root /\ t # d /\ tables[d].alive /\ tables[t].rows # <<>>
        /\ tables[t].column \/ ~tables[d].column
        /\ fast[Slot(t)] + 3 <= MaxChanges /\ Room(d)
        /\ tables' = [tables EXCEPT ![d] = Merged(@, MergedRows(t, d), m),
                                    ![t] = Drained(@)]
        /\ fast' = Increment(fast, d, 1)
        /\ record' = [i \in Ids |->
                        IF record[i].table = t
                        THEN [record[i] EXCEPT !.table = d, !.row = n + @]
                        ELSE record[i]]
        /\ op' = [kind |-> "merged", id |-> Root, table |-> t]
        /\ UNCHANGED <<own, ref>>

ReleaseTable ==
    LET t == op.table
    IN  /\ op.kind \in {"cleared", "merged"}
        /\ tables' = [tables EXCEPT ![t] = Fini(@)]
        /\ fast' = Increment(fast, t, 2)
        /\ op' = Idle
        /\ UNCHANGED <<record, own, ref>>

(* ecs_delete_empty_tables, for one table *)
DeleteEmptyTable(t) ==
    /\ op = Idle
    /\ t # Root /\ tables[t].alive /\ tables[t].rows = <<>> /\ Room(t)
    /\ tables' = [tables EXCEPT ![t] = Fini(@)]
    /\ fast' = Increment(fast, t, 2)
    /\ UNCHANGED <<record, own, ref, op>>

(* ecs_shrink: flecs_table_shrink of tables with rows and of the root table; *)
(* every other table is deleted                                             *)
Shrunk(tab, b) ==
    [Versioned(tab, 1) EXCEPT !.buffer = IF tab.column THEN b ELSE 0, !.spare = FALSE]

Shrink ==
    LET empty == {t \in Tables \ {Root} : tables[t].alive /\ tables[t].rows = <<>>}
        spare == {t \in Tables \ empty : tables[t].alive /\ tables[t].spare}
        added(s) == Cardinality({t \in spare : Slot(t) = s})
                      + 2 * Cardinality({t \in empty : Slot(t) = s})
    IN  /\ op = Idle
        /\ \A s \in DOMAIN fast : fast[s] + added(s) <= MaxChanges
        /\ tables' = [t \in Tables |->
                        IF t \in empty THEN Fini(tables[t])
                        ELSE IF t \in spare THEN Shrunk(tables[t], Unused(t + 1))
                        ELSE tables[t]]
        /\ fast' = [s \in DOMAIN fast |-> (fast[s] + added(s)) % FastLimit]
        /\ UNCHANGED <<record, own, ref, op>>

(* flecs_table_swap, for ecs_table_swap_rows and sorting *)
Swapped(tab, j, k) ==
    [Versioned(tab, 1) EXCEPT
        !.rows = [tab.rows EXCEPT ![j] = tab.rows[k], ![k] = tab.rows[j]]]

SwapRows(t, j, k) ==
    LET rows == tables[t].rows
    IN  /\ op = Idle
        /\ j < k /\ Room(t)
        /\ tables' = [tables EXCEPT ![t] = Swapped(@, j, k)]
        /\ fast' = Increment(fast, t, 1)
        /\ record' = [record EXCEPT ![rows[j]].row = k, ![rows[k]].row = j]
        /\ UNCHANGED <<own, ref, op>>

(* ecs_make_alive, with any generation of a dead id *)
MakeAlive(i, g, m) ==
    /\ op = Idle
    /\ record[i].table = NoTable /\ Room(Root)
    /\ tables' = [tables EXCEPT ![Root] = Versioned(Grown(@, i, m), 1)]
    /\ fast' = Increment(fast, Root, 1)
    /\ record' = [record EXCEPT ![i] = [gen |-> g, table |-> Root,
                                        row |-> Len(tables[Root].rows) + 1]]
    /\ UNCHANGED <<own, ref, op>>

(* ecs_set_version, of an entity that is alive *)
SetVersion(i, g) ==
    /\ op = Idle /\ "set_version" \in app
    /\ record[i].table # NoTable /\ g # record[i].gen
    /\ record' = [record EXCEPT ![i].gen = g]
    /\ UNCHANGED <<tables, fast, own, ref, op>>

(* flecs_component_sparse_insert and _remove, with DontFragment: the         *)
(* entity stays in its table                                                *)
SparseAdd(i) ==
    /\ op = Idle /\ "dont_fragment" \in app
    /\ record[i].table # NoTable /\ own[i] = Null
    /\ own' = [own EXCEPT ![i] = <<Unused(1), 0>>]
    /\ UNCHANGED <<tables, fast, record, ref, op>>

SparseRemove(i) ==
    /\ op = Idle /\ own[i] # Null
    /\ own' = [own EXCEPT ![i] = Null]
    /\ UNCHANGED <<tables, fast, record, ref, op>>

(* Where this application uses references.                                  *)
InApplication == op.kind \in app

RefInit(r, i) ==
    /\ InApplication
    /\ record[i].table # NoTable
    /\ ref' = [ref EXCEPT ![r] = NewRef(i)]
    /\ UNCHANGED <<tables, fast, record, own, op>>

(* ecs_ref_get_id *)
RefGet(r) ==
    /\ InApplication
    /\ ref[r] # NoRef
    /\ ref' = [ref EXCEPT ![r] = Updated(@)]
    /\ UNCHANGED <<tables, fast, record, own, op>>

EntityStep ==
    \/ \E i \in Ids, t \in Tables :
         \E m \in Memory(t) : NewAppend(i, t, m) \/ MoveAppend(i, t, m)
    \/ NewDone \/ MoveDone \/ DeleteDone
    \/ \E i \in Ids : DeleteRow(i) \/ SparseAdd(i) \/ SparseRemove(i)
    \/ \E i \in Ids, g \in 0 .. MaxGen :
         SetVersion(i, g) \/ \E m \in Memory(Root) : MakeAlive(i, g, m)

TableStep ==
    \/ \E t \in Tables, column \in BOOLEAN : CreateTable(t, column)
    \/ \E t \in Tables : ClearTable(t) \/ DeleteEmptyTable(t)
    \/ \E t, d \in Tables : MergeTable(t, d)
    \/ ReleaseTable
    \/ Shrink
    \/ \E t \in Tables : \E j, k \in DOMAIN tables[t].rows : SwapRows(t, j, k)

RefStep == \E r \in Refs : RefGet(r) \/ \E i \in Ids : RefInit(r, i)

Next == (EntityStep \/ TableStep \/ RefStep) /\ UNCHANGED app

Spec == Init /\ [][Next]_vars

(* Entities are interchangeable. *)
Perms == Permutations(Ids)

-----------------------------------------------------------------------------
(* Every variable has its type, and the counters stay within their width. *)
TypeOK ==
    /\ tables \in [Tables -> [alive : BOOLEAN, gen : Nat, version : 0 .. VersionLimit - 1,
                              column : BOOLEAN, buffer : Nat, spare : BOOLEAN,
                              rows : Seq(Ids)]]
    /\ fast \in [0 .. FastSlots - 1 -> 0 .. FastLimit - 1]
    /\ record \in [Ids -> [gen : 0 .. MaxGen, table : Tables \cup {NoTable}, row : Nat]]
    /\ own \in [Ids -> Nat \X Nat]
    /\ DOMAIN ref = Refs
    /\ \A r \in Refs : /\ ref[r] # NoRef => ref[r].entity \in Ids \X (0 .. MaxGen)
                       /\ ref[r].table_id \in Tables \X Nat
                       /\ ref[r].fast \in 0 .. FastLimit - 1
                       /\ ref[r].version \in 0 .. VersionLimit - 1
                       /\ ref[r].ptr \in Nat \X Nat
    /\ app \in Applications
    /\ op \in [kind : Windows,
               id : Ids \cup {Root}, table : Tables]

(* A reference that is fetched gives what ecs_get gives: the address of    *)
(* the component of its entity now, or NULL when the entity is not alive    *)
(* or lost the component (flecs.h, ecs_ref_get_id).                         *)
RefGetAlways ==
    InApplication =>
        \A r \in Refs : ref[r] # NoRef => Updated(ref[r]).ptr = Get(ref[r].entity)

(* That is so whatever happened to tables, rows, storage and ids since the  *)
(* last fetch, for an application that uses references between operations,  *)
(* when a component is moved and when a table is cleared: there every       *)
(* change has its increments (ecs_ref_update).                              *)
RefGetExact == app \subseteq {"idle", "on_move", "cleared"} => RefGetAlways

(* Between operations every entity is at the row of the table that its     *)
(* record names, and nowhere else (flecs_table_delete, flecs_table_swap,    *)
(* flecs_table_merge).                                                      *)
RecordsMatchRows ==
    op = Idle =>
        /\ \A t \in Tables : \A k \in DOMAIN tables[t].rows :
             /\ record[tables[t].rows[k]].table = t
             /\ record[tables[t].rows[k]].row = k
        /\ \A i \in Ids : record[i].table # NoTable =>
             /\ tables[record[i].table].alive
             /\ record[i].row \in DOMAIN tables[record[i].table].rows

(* The storage is well-formed and the counters keep their width.            *)
StoreInv == TypeOK /\ RecordsMatchRows
=============================================================================
