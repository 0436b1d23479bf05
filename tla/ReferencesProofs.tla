-------------------------- MODULE ReferencesProofs ---------------------------
(***************************************************************************)
(* Proofs about References, for any number of tables, slots, entities and  *)
(* references: records and rows agree between operations, and a reference  *)
(* that is fetched gives what ecs_get gives, as long as no counter wraps.  *)
(*                                                                         *)
(* The argument: counters only grow, and an operation that changes what a  *)
(* row of a table holds increments the counters of that table before the   *)
(* application can fetch a reference again. So a reference whose counters  *)
(* are current is that of an entity that is still where it was.            *)
(***************************************************************************)
EXTENDS References, SequenceTheorems, FiniteSetTheorems, NaturalsInduction,
        WellFoundedInduction, TLAPS

TableType == [alive : BOOLEAN, gen : Nat, version : 0 .. VersionLimit - 1,
              column : BOOLEAN, buffer : Nat, spare : BOOLEAN, rows : Seq(Ids)]
RecordType == [gen : 0 .. MaxGen, table : Tables \cup {NoTable}, row : Nat]
RefType == [entity : (Ids \X (0 .. MaxGen)) \cup {Null}, table_id : Tables \X Nat,
            fast : 0 .. FastLimit - 1, version : 0 .. VersionLimit - 1, ptr : Nat \X Nat]

Types ==
    /\ tables \in [Tables -> TableType]
    /\ fast \in [0 .. FastSlots - 1 -> 0 .. FastLimit - 1]
    /\ record \in [Ids -> RecordType]
    /\ own \in [Ids -> Nat \X Nat]
    /\ ref \in [Refs -> RefType]
    /\ \A r \in Refs : ref[r] # NoRef => ref[r].entity \in Ids \X (0 .. MaxGen)
    /\ app \in Applications
    /\ op \in [kind : Windows, id : Ids \cup {Root}, table : Tables]
    /\ op.kind = "idle" => op = Idle

(* The entity and the table of the operation under way are there.          *)
Adding == op.kind \in {"on_add", "on_move"}
Emptied == op.kind \in {"cleared", "merged"}

OpInv ==
    /\ op.kind \in {"on_add", "on_move", "on_remove"} =>
          op.id \in Ids /\ record[op.id].table # NoTable
    /\ Adding => tables[op.table].alive
    /\ op.kind = "on_move" => record[op.id].table # op.table
    /\ op.kind = "on_remove" => record[op.id].gen < MaxGen
    /\ Emptied => tables[op.table].rows = <<>> /\ op.table # Root
    /\ tables[Root].alive /\ tables[Root].gen = 0

(* Every row is that of the record of its entity, except the last row of   *)
(* table d, which is being added for entity x; and the record of every     *)
(* entity that is not in outs names its row.                               *)
RowsNamed(tabs, recs, d, x, outs) ==
    \A t \in Tables : \A k \in 1 .. Len(tabs[t].rows) :
        LET i == tabs[t].rows[k]
        IN  /\ i \in Ids
            /\ t = d /\ k = Len(tabs[t].rows) => i = x
            /\ ~(t = d /\ k = Len(tabs[t].rows)) =>
                  recs[i].table = t /\ recs[i].row = k /\ i \notin outs
RecordsPlaced(tabs, recs, d, outs) ==
    \A i \in Ids \ outs : recs[i].table # NoTable =>
        LET t == recs[i].table
        IN  /\ t \in Tables /\ tabs[t].alive
            /\ recs[i].row \in 1 .. Len(tabs[t].rows) /\ tabs[t].rows[recs[i].row] = i
            /\ ~(t = d /\ recs[i].row = Len(tabs[t].rows))
DeadEmpty(tabs) == \A t \in Tables : ~tabs[t].alive => tabs[t].rows = <<>>
Placed(tabs, recs, d, x, outs) ==
    /\ RowsNamed(tabs, recs, d, x, outs)
    /\ RecordsPlaced(tabs, recs, d, outs)
    /\ DeadEmpty(tabs)
    /\ d # NoTable => tabs[d].rows # <<>>

(* The table that is being added to, and the entity whose record does not  *)
(* name a row at the moment.                                               *)
NewAt == IF Adding THEN op.table ELSE NoTable
Out == IF op.kind \in {"on_add", "on_remove"} THEN {op.id} ELSE {}

PlaceInv == Placed(tables, record, NewAt, op.id, Out)

StoreIInv == Types /\ OpInv /\ PlaceInv

(* The counters have not wrapped, a version grows no faster than its slot, *)
(* and there is room for the increments that the operation under way has   *)
(* yet to make.                                                            *)
CountInv ==
    /\ \A s \in 0 .. FastSlots - 1 : fast[s] <= MaxChanges
    /\ fast[Slot(Root)] >= 1
    /\ \A t \in Tables : /\ tables[t].version >= 1
                         /\ tables[t].version <= fast[Slot(t)] + 1
                         /\ ~tables[t].alive => tables[t].version = 1
    /\ op.kind = "on_add" => Room(op.table)
    /\ op.kind = "on_move" => fast[Slot(record[op.id].table)] + 1 <= MaxChanges
    /\ Emptied => Room(op.table)

(* The counters in a reference are not ahead of those of its table.        *)
Behind(x) ==
    LET t == x.table_id[1]
    IN  /\ x.fast <= fast[Slot(t)]
        /\ x.table_id[2] <= tables[t].gen
        /\ x.table_id[2] = tables[t].gen => x.version <= tables[t].version

Current(x) ==
    LET t == x.table_id[1]
    IN  x.table_id = TableId(t) /\ x.version = tables[t].version

(* The increments of table t are done.                                     *)
Settled(t) == ~(op.kind \in {"on_add", "merged"} /\ op.table = t)

(* The entity of the reference is where it was when it was fetched.        *)
Good(x) ==
    LET i == x.entity[1]
    IN  /\ IsAlive(x.entity) /\ i \notin Out
        /\ record[i].table = x.table_id[1]
        /\ x.ptr = Component(i)

RefInv ==
    app \subseteq {"idle", "on_move", "cleared"} =>
        \A r \in Refs : ref[r] # NoRef =>
            /\ Behind(ref[r])
            /\ ref[r].fast = FastOf(ref[r].table_id) => Current(ref[r])
            /\ Current(ref[r]) /\ Settled(ref[r].table_id[1]) => Good(ref[r])

IInv == StoreIInv /\ CountInv /\ RefInv

-----------------------------------------------------------------------------
(* The counters of a table are in a slot.                                  *)
LEMMA SlotInRange ==
    /\ \A t \in Tables : Slot(t) \in 0 .. FastSlots - 1
    /\ Root \in Tables /\ NoTable \notin Tables /\ Slot(Root) = 0 /\ Slot(Root) \in 0 .. FastSlots - 1
BY ReferencesAssumption DEF Slot, Root, Tables, NoTable

(* A set of numbers that is not empty has a least one.                     *)
LEMMA Least ==
    ASSUME NEW S \in SUBSET Nat, S # {}
    PROVE  \E m \in S : \A k \in S : m <= k
<1> DEFINE Less == {ss \in Nat \X Nat : ss[1] < ss[2]}
<1>1. IsWellFoundedOn(Less, Nat)
  BY NatLessThanWellFounded, Zenon DEF OpToRel
<1>2. PICK x \in S : \A y \in S : ~(<<y, x>> \in Less)
  BY <1>1, WFMin, Zenon
<1>3. ASSUME NEW k \in S PROVE x <= k
  <2>1. x \in Nat /\ k \in Nat /\ <<k, x>> \in Nat \X Nat
    OBVIOUS
  <2>2. k < x => <<k, x>> \in Less
    BY <2>1
  <2> QED BY <1>2, <2>1, <2>2
<1> QED BY <1>3

(* There are finitely many names in use.                                   *)
LEMMA HeldFinite ==
    ASSUME Types
    PROVE  IsFiniteSet(Held)
<1>1. IsFiniteSet(Tables)
  BY ReferencesAssumption, FS_Interval DEF Tables
<1> DEFINE A == {tables[t].buffer : t \in Tables}
           B == {own[i][1] : i \in Ids}
           C == {ref[r].ptr[1] : r \in Refs}
<1>2. IsFiniteSet(A)
  <2>1. [t \in Tables |-> tables[t].buffer] \in Surjection(Tables, A)
    BY DEF Surjection
  <2> QED BY <1>1, <2>1, FS_Surjection
<1>3. IsFiniteSet(B)
  <2>1. [i \in Ids |-> own[i][1]] \in Surjection(Ids, B)
    BY DEF Surjection
  <2> QED BY ReferencesAssumption, <2>1, FS_Surjection
<1>4. IsFiniteSet(C)
  <2>1. [r \in Refs |-> ref[r].ptr[1]] \in Surjection(Refs, C)
    BY DEF Surjection
  <2> QED BY ReferencesAssumption, <2>1, FS_Surjection
<1>5. IsFiniteSet(A \cup B)
  BY <1>2, <1>3, FS_Union
<1>6. IsFiniteSet((A \cup B) \cup C)
  BY <1>4, <1>5, FS_Union
<1> QED BY <1>6 DEF Held

(* So there are names that are not: ecs_os_malloc gives one.               *)
LEMMA UnusedIsName ==
    ASSUME Types, NEW n \in Nat \ {0}
    PROVE  Unused(n) \in Nat /\ Unused(n) \notin Held
<1> DEFINE H == Held
           F(b) == Cardinality((1 .. b) \ H)
<1>0. IsFiniteSet(H)
  BY HeldFinite
<1> HIDE DEF H
<1>1. Cardinality(H) \in Nat
  BY <1>0, FS_CardinalityType
<1>2. ASSUME NEW b \in Nat
      PROVE  IsFiniteSet((1 .. b) \ H) /\ F(b) \in Nat
  <2>1. IsFiniteSet(1 .. b)
    BY FS_Interval
  <2> QED BY <2>1, FS_Difference, FS_CardinalityType
<1>3. F(0) = 0
  <2>1. (1 .. 0) \ H = {}
    OBVIOUS
  <2> QED BY <2>1, FS_EmptySet
<1>4. ASSUME NEW b \in Nat
      PROVE  /\ F(b + 1) <= F(b) + 1
             /\ b + 1 \in H => F(b + 1) = F(b)
  <2>1. CASE b + 1 \in H
    <3>1. (1 .. b + 1) \ H = (1 .. b) \ H
      BY <2>1
    <3> QED BY <3>1, <1>2
  <2>2. CASE b + 1 \notin H
    <3>1. (1 .. b + 1) \ H = ((1 .. b) \ H) \cup {b + 1}
      BY <2>2
    <3>2. F(b + 1) = F(b) + 1
      <4>1. b + 1 \notin (1 .. b) \ H
        OBVIOUS
      <4> QED BY <3>1, <4>1, <1>2, FS_AddElement
    <3> QED BY <3>2, <2>2, <1>2
  <2> QED BY <2>1, <2>2
<1>5. F(Cardinality(H) + n) >= n
  <2> DEFINE N == Cardinality(H) + n
  <2>1. N \in Nat /\ N >= 1
    BY <1>1
  <2>2. IsFiniteSet(1 .. N) /\ Cardinality(1 .. N) = N
    BY <2>1, FS_Interval
  <2>3. F(N) = N - Cardinality((1 .. N) \cap H)
    BY <2>2, FS_Difference
  <2>4. (1 .. N) \cap H \subseteq H
    OBVIOUS
  <2>5. Cardinality((1 .. N) \cap H) <= Cardinality(H) /\ IsFiniteSet((1 .. N) \cap H)
    BY <2>4, <1>0, FS_Subset
  <2>6. Cardinality((1 .. N) \cap H) \in Nat
    BY <2>5, FS_CardinalityType
  <2> QED BY <2>3, <2>5, <2>6, <1>1
<1> DEFINE Enough == {b \in Nat : F(b) >= n}
<1>6. PICK m \in Enough : \A k \in Enough : m <= k
  <2>1. Cardinality(H) + n \in Enough
    BY <1>1, <1>5
  <2> QED BY <2>1, Least
<1>7. m \in Nat /\ F(m) >= n /\ m # 0
  BY <1>3, <1>6
<1>8. m <= Cardinality(H) + n
  BY <1>1, <1>5, <1>6
<1>9. m - 1 \in Nat /\ ~(F(m - 1) >= n)
  <2>1. m - 1 \in Nat /\ ~(m <= m - 1)
    BY <1>7
  <2>2. m - 1 \notin Enough
    BY <2>1, <1>6
  <2> QED BY <2>1, <2>2
<1>10. F(m) = n /\ m \notin H
  <2>1. (m - 1) + 1 = m
    BY <1>7
  <2>2. /\ F(m) <= F(m - 1) + 1
        /\ m \in H => F(m) = F(m - 1)
    BY <2>1, <1>4, <1>9
  <2>3. F(m) \in Nat /\ F(m - 1) \in Nat
    BY <1>2, <1>7, <1>9
  <2> HIDE DEF F
  <2> QED BY <2>2, <2>3, <1>7, <1>9
<1>11. m \in (1 .. Cardinality(H) + n) \ H
  BY <1>1, <1>7, <1>8, <1>10
<1>12. Unused(n) \in (1 .. Cardinality(H) + n) \ H
  BY <1>10, <1>11, Zenon DEF Unused, H
<1> QED BY <1>1, <1>12 DEF H

-----------------------------------------------------------------------------
(* What the helpers on tables do to the fields of a table.                 *)

(* flecs_increment_table_version changes the version only.                 *)
LEMMA VersionedTable ==
    ASSUME NEW tab \in TableType, NEW n \in Nat
    PROVE  /\ Versioned(tab, n) \in TableType
           /\ Versioned(tab, n).version = (tab.version + n) % VersionLimit
           /\ Versioned(tab, n).alive = tab.alive /\ Versioned(tab, n).gen = tab.gen
           /\ Versioned(tab, n).column = tab.column /\ Versioned(tab, n).buffer = tab.buffer
           /\ Versioned(tab, n).spare = tab.spare /\ Versioned(tab, n).rows = tab.rows
<1>1. VersionLimit \in Nat \ {0} /\ tab.version \in Nat
  BY ReferencesAssumption DEF TableType
<1>2. (tab.version + n) % VersionLimit \in 0 .. VersionLimit - 1
  BY <1>1
<1> QED BY <1>2 DEF Versioned, TableType

(* flecs_table_grow_data adds a row at the end.                            *)
LEMMA GrownTable ==
    ASSUME NEW tab \in TableType, NEW i \in Ids, NEW m, m.buffer \in Nat, m.spare \in BOOLEAN
    PROVE  /\ Grown(tab, i, m) \in TableType
           /\ Grown(tab, i, m).version = tab.version
           /\ Grown(tab, i, m).alive = tab.alive /\ Grown(tab, i, m).gen = tab.gen
           /\ Grown(tab, i, m).column = tab.column /\ Grown(tab, i, m).buffer = m.buffer
           /\ Grown(tab, i, m).rows = Append(tab.rows, i)
BY AppendProperties DEF Grown, TableType

(* A new table.                                                            *)
LEMMA NewTable ==
    ASSUME NEW gen \in Nat, NEW column \in BOOLEAN
    PROVE  /\ EmptyTable(gen, column) \in TableType
           /\ EmptyTable(gen, column).version = 1 /\ EmptyTable(gen, column).alive
           /\ EmptyTable(gen, column).gen = gen /\ EmptyTable(gen, column).rows = <<>>
<1>1. 1 \in 0 .. VersionLimit - 1
  BY ReferencesAssumption
<1>2. <<>> \in Seq(Ids)
  OBVIOUS
<1>3. EmptyTable(gen, column) \in TableType
  BY <1>1, <1>2 DEF EmptyTable, TableType
<1> QED BY <1>3 DEF EmptyTable

(* A table without its contents.                                           *)
LEMMA FiniTable ==
    ASSUME NEW tab \in TableType
    PROVE  /\ Fini(tab) \in TableType
           /\ Fini(tab).version = 1 /\ ~Fini(tab).alive /\ Fini(tab).gen = tab.gen + 1
           /\ Fini(tab).rows = <<>>
<1>1. tab.gen + 1 \in Nat
  BY DEF TableType
<1>2. PICK e : e = EmptyTable(tab.gen + 1, FALSE)
  OBVIOUS
<1>3. e \in TableType /\ e.version = 1 /\ e.gen = tab.gen + 1 /\ e.rows = <<>>
  BY <1>1, <1>2, NewTable
<1>4. Fini(tab) = [e EXCEPT !.alive = FALSE]
  BY <1>2, Zenon DEF Fini
<1> QED BY <1>3, <1>4 DEF TableType

(* The memory of a column is named by a number.                            *)
LEMMA MemoryType ==
    ASSUME Types, NEW t \in Tables, NEW m \in Memory(t)
    PROVE  m.buffer \in Nat /\ m.spare \in BOOLEAN
<1>1. Unused(1) \in Nat
  BY UnusedIsName
<1>2. tables[t].buffer \in Nat
  BY DEF Types, TableType
<1> QED BY <1>1, <1>2 DEF Memory, Columns

(* The same for the columns of a table that others are merged into.        *)
LEMMA MergedMemoryType ==
    ASSUME Types, NEW t \in Tables, NEW d \in Tables, NEW m \in MergedMemory(t, d)
    PROVE  m.buffer \in Nat /\ m.spare \in BOOLEAN
<1>1. tables[t].buffer \in Nat /\ tables[t].spare \in BOOLEAN
  BY DEF Types, TableType
<1> QED BY <1>1, MemoryType DEF MergedMemory

(* flecs_table_delete: the last row takes the place of row k.              *)
LEMMA WithoutRowSeq ==
    ASSUME NEW rows \in Seq(Ids), NEW k \in 1 .. Len(rows)
    PROVE  /\ WithoutRow(rows, k) \in Seq(Ids)
           /\ Len(WithoutRow(rows, k)) = Len(rows) - 1
           /\ \A j \in 1 .. Len(rows) - 1 :
                WithoutRow(rows, k)[j] = IF j = k THEN rows[Len(rows)] ELSE rows[j]
<1>1. Len(rows) - 1 \in Nat
  OBVIOUS
<1>2. WithoutRow(rows, k) \in [1 .. Len(rows) - 1 -> Ids]
  BY DEF WithoutRow
<1> QED BY <1>1, <1>2 DEF WithoutRow

(* And its record follows it.                                              *)
LEMMA MovedRecordsType ==
    ASSUME NEW recs \in [Ids -> RecordType], NEW rows \in Seq(Ids), NEW k \in 1 .. Len(rows)
    PROVE  /\ MovedRecords(recs, rows, k) \in [Ids -> RecordType]
           /\ \A i \in Ids :
                /\ MovedRecords(recs, rows, k)[i].gen = recs[i].gen
                /\ MovedRecords(recs, rows, k)[i].table = recs[i].table
                /\ MovedRecords(recs, rows, k)[i].row =
                     IF k # Len(rows) /\ i = rows[Len(rows)] THEN k ELSE recs[i].row
                /\ i # rows[Len(rows)] => MovedRecords(recs, rows, k)[i] = recs[i]
<1>1. rows[Len(rows)] \in Ids
  OBVIOUS
<1> QED BY <1>1, SMTT(30) DEF MovedRecords, RecordType

-----------------------------------------------------------------------------
(* No counter wraps within the bound of the model.                         *)
NoWrap == MaxChanges + 1 < VersionLimit /\ MaxChanges < FastLimit

(* flecs_increment_table_version keeps a slot in its range.                *)
LEMMA IncrementType ==
    ASSUME Types, NEW t \in Tables, NEW n \in Nat
    PROVE  Increment(fast, t, n) \in [0 .. FastSlots - 1 -> 0 .. FastLimit - 1]
<1>1. Slot(t) \in 0 .. FastSlots - 1 /\ fast[Slot(t)] \in Nat
  BY SlotInRange DEF Types
<1>2. (fast[Slot(t)] + n) % FastLimit \in 0 .. FastLimit - 1
  BY <1>1, ReferencesAssumption
<1> QED BY <1>1, <1>2 DEF Increment, Types

(* Within the bound it adds to the slot and to nothing else.               *)
LEMMA Incremented ==
    ASSUME Types, NoWrap, NEW t \in Tables, NEW n \in Nat, fast[Slot(t)] + n <= MaxChanges
    PROVE  \A s \in 0 .. FastSlots - 1 :
              Increment(fast, t, n)[s] = IF s = Slot(t) THEN fast[s] + n ELSE fast[s]
<1>1. Slot(t) \in 0 .. FastSlots - 1 /\ fast[Slot(t)] \in Nat
  BY SlotInRange DEF Types
<1>2. (fast[Slot(t)] + n) % FastLimit = fast[Slot(t)] + n
  BY <1>1, ReferencesAssumption DEF NoWrap
<1> QED BY <1>1, <1>2 DEF Increment, Types

(* And so does the version of the table.                                   *)
LEMMA VersionIncremented ==
    ASSUME Types, NoWrap, CountInv, NEW t \in Tables, fast[Slot(t)] + 1 <= MaxChanges
    PROVE  (tables[t].version + 1) % VersionLimit = tables[t].version + 1
<1>1. Slot(t) \in 0 .. FastSlots - 1 /\ fast[Slot(t)] \in Nat /\ tables[t].version \in Nat
  BY SlotInRange DEF Types, TableType
<1>2. tables[t].version <= fast[Slot(t)] + 1
  BY DEF CountInv
<1> QED BY <1>1, <1>2, ReferencesAssumption DEF NoWrap

(* What a step may do to a table: nothing; increment its counters; change  *)
(* it before the increments of the operation; create it where none was.    *)
Same(t) ==
    /\ tables'[t] = tables[t]
    /\ Settled(t)' => Settled(t)
    /\ \A i \in Ids : record[i].table = t /\ i \notin Out =>
          record'[i] = record[i] /\ i \notin Out'
Advanced(t) ==
    /\ fast[Slot(t)] < fast'[Slot(t)]
    /\ \/ tables[t].gen < tables'[t].gen
       \/ tables'[t].gen = tables[t].gen /\ tables[t].version < tables'[t].version
Pending(t) ==
    /\ tables'[t].gen = tables[t].gen /\ tables'[t].version = tables[t].version
    /\ ~Settled(t)'
Created(t) ==
    /\ tables'[t].gen = tables[t].gen /\ tables'[t].version = tables[t].version
    /\ ~tables[t].alive /\ Settled(t)

(* Then references stay good.                                              *)
LEMMA RefsKept ==
    ASSUME StoreIInv, Types', CountInv, RefInv, ref' = ref, app' = app,
           \A s \in 0 .. FastSlots - 1 : fast[s] <= fast'[s],
           \A t \in Tables : Same(t) \/ Advanced(t) \/ Pending(t) \/ Created(t)
    PROVE  RefInv'
<1> SUFFICES ASSUME app \subseteq {"idle", "on_move", "cleared"},
                    NEW r \in Refs, ref[r] # NoRef
             PROVE  /\ Behind(ref[r])'
                    /\ ref[r].fast = FastOf(ref[r].table_id)' => Current(ref[r])'
                    /\ Current(ref[r])' /\ Settled(ref[r].table_id[1])' => Good(ref[r])'
  BY DEF RefInv, Behind, Current, Good, FastOf, TableId, IsAlive, Component
<1> PICK x : x = ref[r]
  OBVIOUS
<1> PICK t : t = x.table_id[1]
  OBVIOUS
<1>1. /\ x.entity \in Ids \X (0 .. MaxGen) /\ x.table_id = <<t, x.table_id[2]>>
      /\ t \in Tables /\ x.table_id[2] \in Nat
      /\ x.fast \in Nat /\ x.version \in Nat
  <2>1. x \in RefType /\ x.entity \in Ids \X (0 .. MaxGen)
    BY DEF StoreIInv, Types
  <2>2. x.table_id \in Tables \X Nat /\ x.fast \in 0 .. FastLimit - 1 /\ x.version \in 0 .. VersionLimit - 1
    BY <2>1 DEF RefType
  <2> QED BY <2>1, <2>2, ReferencesAssumption
<1>2. /\ tables[t].gen \in Nat /\ tables[t].version \in Nat
      /\ tables'[t].gen \in Nat /\ tables'[t].version \in Nat
      /\ Slot(t) \in 0 .. FastSlots - 1 /\ fast[Slot(t)] \in Nat /\ fast'[Slot(t)] \in Nat
  <2>1. tables[t] \in TableType /\ tables'[t] \in TableType /\ Slot(t) \in 0 .. FastSlots - 1
    BY <1>1, SlotInRange DEF StoreIInv, Types
  <2>2. fast[Slot(t)] \in 0 .. FastLimit - 1 /\ fast'[Slot(t)] \in 0 .. FastLimit - 1
    BY <2>1 DEF StoreIInv, Types
  <2> QED BY <2>1, <2>2, SMTT(30) DEF TableType
<1>3. /\ x.fast <= fast[Slot(t)]
      /\ x.table_id[2] <= tables[t].gen
      /\ x.table_id[2] = tables[t].gen => x.version <= tables[t].version
      /\ x.fast = fast[Slot(t)] =>
            x.table_id[2] = tables[t].gen /\ x.version = tables[t].version
  BY <1>1 DEF RefInv, Behind, Current, TableId, FastOf
<1>4. x.table_id[2] = tables[t].gen /\ x.version = tables[t].version /\ Settled(t) => Good(x)
  BY <1>1 DEF RefInv, Current, TableId
<1>5. /\ x.fast <= fast'[Slot(t)]
      /\ x.table_id[2] <= tables'[t].gen
      /\ x.table_id[2] = tables'[t].gen => x.version <= tables'[t].version
      /\ x.fast = fast'[Slot(t)] =>
            x.table_id[2] = tables'[t].gen /\ x.version = tables'[t].version
  BY <1>1, <1>2, <1>3 DEF Same, Advanced, Pending, Created
<1>6. ASSUME x.table_id[2] = tables'[t].gen, x.version = tables'[t].version, Settled(t)'
      PROVE  Good(x)'
  <2>1. ~Advanced(t) /\ ~Pending(t)
    <3>1. ~Pending(t)
      BY <1>6 DEF Pending
    <3>2. ~(tables[t].gen < tables'[t].gen)
      BY ONLY <1>1, <1>2, <1>3, <1>6
    <3>3. ~(tables'[t].gen = tables[t].gen /\ tables[t].version < tables'[t].version)
      BY ONLY <1>1, <1>2, <1>3, <1>6
    <3> QED BY <3>1, <3>2, <3>3, Zenon DEF Advanced
  <2>2. Same(t) \/ Created(t)
    BY <1>1, <2>1
  <2>3. Good(x)
    BY <1>4, <1>6, <2>2 DEF Same, Created
  <2>4. tables[t].alive
    BY <1>1, <2>3 DEF Good, StoreIInv, PlaceInv, Placed, RecordsPlaced, IsAlive
  <2>5. Same(t)
    BY <2>2, <2>4 DEF Created
  <2>6. record'[x.entity[1]] = record[x.entity[1]] /\ x.entity[1] \notin Out'
    BY <1>1, <2>3, <2>5 DEF Same, Good
  <2>7. tables'[t] = tables[t] /\ record[x.entity[1]].table = t
    BY <1>1, <2>3, <2>5 DEF Same, Good
  <2>8. "dont_fragment" \notin app
    OBVIOUS
  <2> QED BY <2>3, <2>6, <2>7, <2>8 DEF Good, IsAlive, Component
<1> QED BY <1>1, <1>5, <1>6 DEF Behind, Current, TableId, FastOf

(* What a step keeps.                                                      *)
Keeps == StoreIInv' /\ (NoWrap /\ CountInv /\ RefInv => CountInv' /\ RefInv')

(* Setting the table and the row of a record.                              *)
Put(recs, i, t, k) == [recs EXCEPT ![i].table = t, ![i].row = k]

(* The record of one entity names another row.                             *)
LEMMA RecordPut ==
    ASSUME NEW recs \in [Ids -> RecordType], NEW i \in Ids, NEW t \in Tables, NEW k \in Nat
    PROVE  /\ Put(recs, i, t, k) \in [Ids -> RecordType]
           /\ Put(recs, i, t, k)[i].table = t /\ Put(recs, i, t, k)[i].row = k
           /\ Put(recs, i, t, k)[i].gen = recs[i].gen
           /\ \A j \in Ids : j # i => Put(recs, i, t, k)[j] = recs[j]
<1>1. PICK q : q = [recs EXCEPT ![i].table = t]
  OBVIOUS
<1>2. /\ q \in [Ids -> RecordType] /\ q[i].table = t /\ q[i].gen = recs[i].gen
      /\ \A j \in Ids : j # i => q[j] = recs[j]
  BY <1>1 DEF RecordType
<1>3. Put(recs, i, t, k) = [q EXCEPT ![i].row = k]
  BY <1>1 DEF Put
<1>4. PICK p : p = [q EXCEPT ![i].row = k]
  OBVIOUS
<1>5. /\ p \in [Ids -> RecordType] /\ p[i].row = k /\ p[i].table = t /\ p[i].gen = recs[i].gen
      /\ \A j \in Ids : j # i => p[j] = recs[j]
  BY <1>2, <1>4 DEF RecordType
<1> QED BY <1>3, <1>4, <1>5, Zenon

(* Slots hold numbers.                                                     *)
LEMMA FastNat ==
    ASSUME StoreIInv
    PROVE  \A s \in 0 .. FastSlots - 1 : fast[s] \in Nat
BY ReferencesAssumption DEF StoreIInv, Types

(* The counters after the increments of one table.                         *)
LEMMA CountsKept ==
    ASSUME StoreIInv, NoWrap, CountInv, NEW t \in Tables, NEW c \in Nat \ {0},
           fast[Slot(t)] + c <= MaxChanges, fast' = Increment(fast, t, c),
           \A u \in Tables : u # t => /\ tables'[u].version = tables[u].version
                                      /\ tables'[u].alive = tables[u].alive,
           \/ /\ tables'[t].version = (tables[t].version + 1) % VersionLimit
              /\ tables'[t].alive
           \/ tables'[t].version = 1,
           op'.kind # "on_add", c = 1 \/ op' = Idle,
           op'.kind = "on_move" => /\ record'[op'.id].table \in Tables
                                   /\ fast[Slot(record'[op'.id].table)] + 2 <= MaxChanges,
           Emptied' => op'.table \in Tables /\ fast[Slot(op'.table)] + 3 <= MaxChanges
    PROVE  /\ CountInv'
           /\ \A s \in 0 .. FastSlots - 1 : fast[s] <= fast'[s]
           /\ fast[Slot(t)] < fast'[Slot(t)]
           /\ tables'[t].version = (tables[t].version + 1) % VersionLimit =>
                tables[t].version < tables'[t].version
<1>1. \A u \in Tables : /\ Slot(u) \in 0 .. FastSlots - 1 /\ tables[u].version \in Nat
                        /\ tables[u].version <= fast[Slot(u)] + 1 /\ tables[u].version >= 1
                        /\ ~tables[u].alive => tables[u].version = 1
  BY SlotInRange, ReferencesAssumption DEF StoreIInv, Types, TableType, CountInv
<1>2. \A s \in 0 .. FastSlots - 1 : /\ fast[s] \in Nat
                                    /\ fast'[s] = IF s = Slot(t) THEN fast[s] + c ELSE fast[s]
  BY Incremented, FastNat DEF StoreIInv
<1>3. fast[Slot(t)] + 1 <= MaxChanges /\ MaxChanges \in Nat
  BY <1>1, <1>2, ReferencesAssumption
<1>4. (tables[t].version + 1) % VersionLimit = tables[t].version + 1
  BY <1>3, VersionIncremented DEF StoreIInv
<1>5. \A s \in 0 .. FastSlots - 1 : fast'[s] <= MaxChanges /\ fast[s] <= fast'[s]
  BY <1>2, <1>3 DEF CountInv
<1>6. fast'[Slot(Root)] >= 1
  BY <1>2, SlotInRange DEF CountInv
<1>7. \A u \in Tables : /\ tables'[u].version >= 1
                        /\ tables'[u].version <= fast'[Slot(u)] + 1
                        /\ ~tables'[u].alive => tables'[u].version = 1
  BY <1>1, <1>2, <1>4
<1>8. op'.kind = "on_move" => fast'[Slot(record'[op'.id].table)] + 1 <= MaxChanges
  BY <1>1, <1>2, <1>3 DEF Idle
<1>9. Emptied' => fast'[Slot(op'.table)] + 2 <= MaxChanges
  BY <1>1, <1>2, <1>3 DEF Idle, Emptied
<1>10. CountInv'
  BY <1>5, <1>6, <1>7, <1>8, <1>9 DEF CountInv, Room
<1> QED BY <1>1, <1>2, <1>4, <1>5, <1>10

(* The counters when none of them changes.                                 *)
LEMMA CountsSame ==
    ASSUME CountInv, fast' = fast,
           \A u \in Tables : /\ tables'[u].version = tables[u].version
                             /\ tables'[u].alive = tables[u].alive,
           op'.kind = "on_add" => Room(op'.table), op'.kind \notin {"on_move", "cleared", "merged"}
    PROVE  CountInv'
BY DEF CountInv, Room, Emptied

(* Counters and references after the increments of one table.              *)
LEMMA OneAdvanced ==
    ASSUME StoreIInv, Types', NoWrap, CountInv, RefInv, ref' = ref, app' = app,
           NEW t \in Tables, NEW c \in Nat \ {0},
           fast[Slot(t)] + c <= MaxChanges, fast' = Increment(fast, t, c),
           \A u \in Tables : u # t =>
              Same(u) \/ (Pending(u) /\ tables'[u].alive = tables[u].alive),
           \/ /\ tables'[t].version = (tables[t].version + 1) % VersionLimit
              /\ tables'[t].alive /\ tables'[t].gen = tables[t].gen
           \/ tables'[t].version = 1 /\ tables'[t].gen = tables[t].gen + 1,
           op'.kind # "on_add", c = 1 \/ op' = Idle,
           op'.kind = "on_move" => /\ record'[op'.id].table \in Tables
                                   /\ fast[Slot(record'[op'.id].table)] + 2 <= MaxChanges,
           Emptied' => op'.table \in Tables /\ fast[Slot(op'.table)] + 3 <= MaxChanges
    PROVE  CountInv' /\ RefInv'
<1>1. \A u \in Tables : u # t => /\ tables'[u].version = tables[u].version
                                 /\ tables'[u].alive = tables[u].alive
  BY DEF Same, Pending
<1>2. \/ /\ tables'[t].version = (tables[t].version + 1) % VersionLimit
         /\ tables'[t].alive
      \/ tables'[t].version = 1
  OBVIOUS
<1>3. /\ CountInv'
      /\ \A s \in 0 .. FastSlots - 1 : fast[s] <= fast'[s]
      /\ fast[Slot(t)] < fast'[Slot(t)]
      /\ tables'[t].version = (tables[t].version + 1) % VersionLimit =>
           tables[t].version < tables'[t].version
  BY <1>1, <1>2, CountsKept
<1>4. tables[t].gen \in Nat
  BY DEF StoreIInv, Types, TableType
<1>5. Advanced(t)
  BY <1>3, <1>4 DEF Advanced
<1>6. RefInv'
  BY <1>3, <1>5, RefsKept
<1> QED BY <1>3, <1>6

(* flecs_table_delete leaves an entity without a row.                      *)
Removes(tabs, new, recs, recs2, d, x, i, s, k) ==
    /\ tabs \in [Tables -> TableType] /\ recs \in [Ids -> RecordType]
    /\ i \in Ids /\ s \in Tables /\ k \in Nat
    /\ Placed(tabs, recs, d, x, {}) /\ recs[i].table = s /\ recs[i].row = k
    /\ s # d /\ (d = NoTable \/ d \in Tables)
    /\ \A t \in Tables : /\ new[t].alive = tabs[t].alive
                         /\ t # s => new[t].rows = tabs[t].rows
    /\ new[s].rows = WithoutRow(tabs[s].rows, k)
    /\ recs2 = MovedRecords(recs, tabs[s].rows, k)

(* Rows and records agree after flecs_table_delete has moved the last row  *)
(* to the deleted one.                                                     *)
LEMMA RowRemoved ==
    ASSUME NEW tabs, NEW new, NEW recs, NEW recs2, NEW d, NEW x, NEW i, NEW s, NEW k,
           Removes(tabs, new, recs, recs2, d, x, i, s, k)
    PROVE  /\ Placed(new, recs2, d, x, {i})
           /\ \A j \in Ids : recs[j].table # s => recs2[j] = recs[j]
<1> PICK rows : rows = tabs[s].rows
  OBVIOUS
<1>0. /\ tabs \in [Tables -> TableType] /\ recs \in [Ids -> RecordType]
      /\ i \in Ids /\ s \in Tables /\ k \in Nat
      /\ Placed(tabs, recs, d, x, {}) /\ recs[i].table = s /\ recs[i].row = k
      /\ s # d /\ (d = NoTable \/ d \in Tables)
      /\ \A t \in Tables : /\ new[t].alive = tabs[t].alive
                           /\ t # s => new[t].rows = tabs[t].rows
  BY DEF Removes
<1>1. rows \in Seq(Ids) /\ Len(rows) \in Nat /\ s # NoTable
  BY <1>0, SlotInRange DEF TableType
<1>2. k \in 1 .. Len(rows) /\ rows[k] = i /\ tabs[s].alive
  BY <1>0, <1>1 DEF Placed, RecordsPlaced
<1>3. /\ Len(new[s].rows) = Len(rows) - 1
      /\ \A j \in 1 .. Len(rows) - 1 :
           new[s].rows[j] = IF j = k THEN rows[Len(rows)] ELSE rows[j]
  <2>1. new[s].rows = WithoutRow(rows, k)
    BY DEF Removes
  <2>2. Len(rows) - 1 \in Nat
    BY <1>1, <1>2
  <2>3. new[s].rows = [j \in 1 .. Len(rows) - 1 |-> IF j = k THEN rows[Len(rows)] ELSE rows[j]]
    BY <2>1 DEF WithoutRow
  <2>4. \A j \in 1 .. Len(rows) - 1 :
           new[s].rows[j] = IF j = k THEN rows[Len(rows)] ELSE rows[j]
    BY <2>3
  <2>5. new[s].rows \in [1 .. Len(rows) - 1 -> Ids]
    BY <1>1, <1>2, <2>3
  <2>6. Len(new[s].rows) = Len(rows) - 1
    BY <2>2, <2>5
  <2> QED BY <2>4, <2>6
<1>4. \A j \in Ids :
         /\ recs2[j].table = recs[j].table
         /\ recs2[j].row = IF k # Len(rows) /\ j = rows[Len(rows)] THEN k ELSE recs[j].row
  <2>1. recs2 = MovedRecords(recs, rows, k)
    BY DEF Removes
  <2> QED BY <1>0, <1>1, <1>2, <2>1, MovedRecordsType
<1>5. \A j \in 1 .. Len(rows) : /\ rows[j] \in Ids /\ recs[rows[j]].table = s
                                /\ recs[rows[j]].row = j
  BY <1>0, <1>1 DEF Placed, RowsNamed
<1>6. Len(rows) \in 1 .. Len(rows) /\ (k # Len(rows) => rows[Len(rows)] # i)
  BY <1>1, <1>2, <1>5
<1>7. ASSUME NEW t \in Tables, NEW j \in 1 .. Len(new[t].rows)
      PROVE  LET e == new[t].rows[j]
             IN  /\ e \in Ids
                 /\ t = d /\ j = Len(new[t].rows) => e = x
                 /\ ~(t = d /\ j = Len(new[t].rows)) =>
                       recs2[e].table = t /\ recs2[e].row = j /\ e \notin {i}
  <2>1. CASE t = s
    <3>1. j \in 1 .. Len(rows) - 1
      BY <1>3, <2>1
    <3>2. CASE j = k
      <4>1. new[t].rows[j] = rows[Len(rows)] /\ k # Len(rows)
        BY <1>1, <1>3, <2>1, <3>1, <3>2
      <4> QED BY <1>0, <1>4, <1>5, <1>6, <2>1, <3>2, <4>1
    <3>3. CASE j # k
      <4>1. new[t].rows[j] = rows[j] /\ j \in 1 .. Len(rows) /\ j # Len(rows)
        BY <1>1, <1>3, <2>1, <3>1, <3>3
      <4>2. rows[j] # i /\ rows[j] # rows[Len(rows)]
        BY <1>5, <1>6, <1>2, <3>3, <4>1, SMTT(30)
      <4> QED BY <1>0, <1>4, <1>5, <2>1, <4>1, <4>2
    <3> QED BY <3>2, <3>3
  <2>2. CASE t # s
    <3>1. new[t].rows = tabs[t].rows
      BY <1>0, <2>2
    <3>2. LET e == tabs[t].rows[j]
          IN  /\ e \in Ids
              /\ t = d /\ j = Len(tabs[t].rows) => e = x
              /\ ~(t = d /\ j = Len(tabs[t].rows)) => recs[e].table = t /\ recs[e].row = j
      BY <1>0, <3>1 DEF Placed, RowsNamed
    <3> QED BY <1>0, <1>4, <1>5, <1>6, <2>2, <3>1, <3>2
  <2> QED BY <2>1, <2>2
<1>8. ASSUME NEW j \in Ids, j # i, recs2[j].table # NoTable
      PROVE  LET t == recs2[j].table
             IN  /\ t \in Tables /\ new[t].alive
                 /\ recs2[j].row \in 1 .. Len(new[t].rows) /\ new[t].rows[recs2[j].row] = j
                 /\ ~(t = d /\ recs2[j].row = Len(new[t].rows))
  <2> PICK t : t = recs[j].table
    OBVIOUS
  <2> PICK q : q = recs[j].row
    OBVIOUS
  <2>1. /\ recs2[j].table = t /\ t \in Tables /\ tabs[t].alive
        /\ q \in 1 .. Len(tabs[t].rows) /\ tabs[t].rows[q] = j
        /\ ~(t = d /\ q = Len(tabs[t].rows))
    BY <1>0, <1>4, <1>8 DEF Placed, RecordsPlaced
  <2>2. CASE t = s
    <3>1. q \in 1 .. Len(rows) /\ rows[q] = j /\ q # k
      BY <1>2, <1>8, <2>1, <2>2
    <3>2. CASE q = Len(rows)
      <4>1. recs2[j].row = k /\ k \in 1 .. Len(rows) - 1 /\ new[s].rows[k] = j
        BY <1>1, <1>2, <1>3, <1>4, <3>1, <3>2
      <4> QED BY <1>0, <1>3, <2>1, <2>2, <4>1
    <3>3. CASE q # Len(rows)
      <4>1. j # rows[Len(rows)]
        BY <1>5, <1>6, <3>1, <3>3
      <4>2. recs2[j].row = q /\ q \in 1 .. Len(rows) - 1 /\ new[s].rows[q] = j
        <5>1. q \in 1 .. Len(rows) - 1
          BY <1>1, <3>1, <3>3
        <5>2. new[s].rows[q] = j
          BY <1>3, <3>1, <5>1
        <5> QED BY <1>4, <4>1, <5>1, <5>2
      <4> QED BY <1>0, <1>3, <2>1, <2>2, <4>2
    <3> QED BY <3>2, <3>3
  <2>3. CASE t # s
    <3>1. j # rows[Len(rows)]
      BY <1>5, <1>6, <2>3
    <3>2. recs2[j].row = q
      BY <1>4, <3>1
    <3> QED BY <1>0, <2>1, <2>3, <3>2
  <2> QED BY <2>2, <2>3
<1>9. DeadEmpty(new)
  BY <1>0, <1>2 DEF DeadEmpty, Placed
<1>10. d # NoTable => new[d].rows # <<>>
  BY <1>0 DEF Placed
<1>11. Placed(new, recs2, d, x, {i})
  BY <1>7, <1>8, <1>9, <1>10 DEF Placed, RowsNamed, RecordsPlaced
<1>12. \A j \in Ids : recs[j].table # s => recs2[j] = recs[j]
  <2>1. recs2 = MovedRecords(recs, rows, k)
    BY DEF Removes
  <2>2. \A j \in Ids : j # rows[Len(rows)] => recs2[j] = recs[j]
    BY <1>0, <1>1, <1>2, <2>1, MovedRecordsType
  <2> QED BY <1>5, <1>6, <2>2
<1> QED BY <1>11, <1>12

(* A row is added for an entity that had none.                             *)
Appends(tabs, new, recs, recs2, t, i) ==
    /\ t \in Tables /\ i \in Ids
    /\ tabs[t].rows \in Seq(Ids) /\ tabs[t].alive /\ recs[i].table = NoTable
    /\ \E x : Placed(tabs, recs, NoTable, x, {})
    /\ new[t].rows = Append(tabs[t].rows, i)
    /\ \A u \in Tables : /\ new[u].alive = tabs[u].alive
                         /\ u # t => new[u].rows = tabs[u].rows
    /\ \A j \in Ids : j # i => recs2[j] = recs[j]

(* Rows and records agree when flecs_table_append has added a row.         *)
LEMMA RowAppended ==
    ASSUME NEW tabs, NEW new, NEW recs, NEW recs2, NEW t, NEW i,
           Appends(tabs, new, recs, recs2, t, i)
    PROVE  Placed(new, recs2, t, i, {i})
<1>1. /\ t \in Tables /\ i \in Ids /\ t # NoTable /\ NoTable \notin Tables
      /\ tabs[t].rows \in Seq(Ids) /\ tabs[t].alive /\ recs[i].table = NoTable
  BY SlotInRange DEF Appends
<1>2. /\ \A u \in Tables : /\ new[u].alive = tabs[u].alive
                           /\ u # t => new[u].rows = tabs[u].rows
      /\ \A j \in Ids : j # i => recs2[j] = recs[j]
  BY DEF Appends
<1>3. PICK n \in Nat : n = Len(tabs[t].rows)
  BY <1>1
<1>4. /\ Len(new[t].rows) = n + 1 /\ new[t].rows[n + 1] = i /\ new[t].rows # <<>>
      /\ \A k \in 1 .. n : new[t].rows[k] = tabs[t].rows[k]
  <2>1. PICK a : a = Append(tabs[t].rows, i)
    OBVIOUS
  <2>2. /\ Len(a) = Len(tabs[t].rows) + 1 /\ a[Len(tabs[t].rows) + 1] = i /\ a # <<>>
        /\ \A k \in 1 .. Len(tabs[t].rows) : a[k] = tabs[t].rows[k]
    BY <1>1, <2>1, AppendProperties
  <2>3. new[t].rows = a
    BY <2>1 DEF Appends
  <2> QED BY <1>3, <2>2, <2>3
<1>5. \A u \in Tables : \A k \in 1 .. Len(tabs[u].rows) :
         /\ tabs[u].rows[k] \in Ids
         /\ recs[tabs[u].rows[k]].table = u /\ recs[tabs[u].rows[k]].row = k
  BY <1>1 DEF Appends, Placed, RowsNamed
<1>6. ASSUME NEW u \in Tables, NEW k \in 1 .. Len(tabs[u].rows)
      PROVE  LET e == tabs[u].rows[k]
             IN  e \in Ids /\ e # i /\ recs2[e].table = u /\ recs2[e].row = k
  BY <1>1, <1>2, <1>5
<1>7. RowsNamed(new, recs2, t, i, {i})
  <2> SUFFICES ASSUME NEW u \in Tables, NEW k \in 1 .. Len(new[u].rows)
               PROVE  LET e == new[u].rows[k]
                      IN  /\ e \in Ids
                          /\ u = t /\ k = Len(new[u].rows) => e = i
                          /\ ~(u = t /\ k = Len(new[u].rows)) =>
                                recs2[e].table = u /\ recs2[e].row = k /\ e \notin {i}
    BY DEF RowsNamed
  <2>1. CASE u = t /\ k = n + 1
    BY <1>1, <1>4, <2>1
  <2>2. CASE u = t /\ k # n + 1
    <3>1. k \in 1 .. n
      BY <1>4, <2>2
    <3>2. new[u].rows[k] = tabs[u].rows[k] /\ k \in 1 .. Len(tabs[u].rows)
      BY <1>3, <1>4, <2>2, <3>1
    <3> QED BY <1>4, <1>6, <2>2, <3>2
  <2>3. CASE u # t
    BY <1>2, <1>6, <2>3
  <2> QED BY <2>1, <2>2, <2>3
<1>8. RecordsPlaced(new, recs2, t, {i})
  <2> SUFFICES ASSUME NEW j \in Ids, j # i, recs2[j].table # NoTable
               PROVE  LET u == recs2[j].table
                      IN  /\ u \in Tables /\ new[u].alive
                          /\ recs2[j].row \in 1 .. Len(new[u].rows)
                          /\ new[u].rows[recs2[j].row] = j
                          /\ ~(u = t /\ recs2[j].row = Len(new[u].rows))
    BY DEF RecordsPlaced
  <2> PICK u : u = recs[j].table
    OBVIOUS
  <2> PICK q : q = recs[j].row
    OBVIOUS
  <2>1. recs2[j].table = u /\ recs2[j].row = q
    BY <1>2
  <2>2. /\ u \in Tables /\ tabs[u].alive /\ q \in 1 .. Len(tabs[u].rows)
        /\ tabs[u].rows[q] = j
    BY <2>1 DEF Appends, Placed, RecordsPlaced
  <2>3. CASE u = t
    <3>1. q \in 1 .. n
      BY <1>3, <2>2, <2>3
    <3>2. q \in 1 .. n + 1 /\ q # n + 1
      BY <3>1
    <3>3. new[t].rows[q] = j
      BY <1>4, <2>2, <2>3, <3>1
    <3> QED BY <1>1, <1>2, <1>4, <2>1, <2>3, <3>2, <3>3
  <2>4. CASE u # t
    BY <1>2, <2>1, <2>2, <2>4
  <2> QED BY <2>3, <2>4
<1>9. DeadEmpty(new)
  BY <1>1, <1>2 DEF Appends, Placed, DeadEmpty
<1> QED BY <1>4, <1>7, <1>8, <1>9 DEF Placed

(* An entity gets the row that was added for it.                           *)
Takes(tabs, new, recs, recs2, d, i) ==
    /\ d \in Tables /\ i \in Ids
    /\ Placed(tabs, recs, d, i, {i}) /\ tabs[d].rows \in Seq(Ids) /\ tabs[d].alive
    /\ \A t \in Tables : new[t].alive = tabs[t].alive /\ new[t].rows = tabs[t].rows
    /\ recs2[i].table = d /\ recs2[i].row = Len(tabs[d].rows)
    /\ \A j \in Ids : j # i => recs2[j] = recs[j]

(* The row that was added becomes that of its entity.                      *)
LEMMA RowTaken ==
    ASSUME NEW tabs, NEW new, NEW recs, NEW recs2, NEW d, NEW i,
           Takes(tabs, new, recs, recs2, d, i)
    PROVE  \A x : Placed(new, recs2, NoTable, x, {})
<1> USE DEF Takes
<1> TAKE x
<1>0. NoTable \notin Tables
  BY SlotInRange
<1>1. Len(tabs[d].rows) \in 1 .. Len(tabs[d].rows) /\ tabs[d].rows[Len(tabs[d].rows)] = i
  BY <1>0 DEF Placed, RowsNamed
<1>2. RowsNamed(new, recs2, NoTable, x, {})
  BY <1>0 DEF Placed, RowsNamed
<1>3. RecordsPlaced(new, recs2, NoTable, {})
  <2> SUFFICES ASSUME NEW j \in Ids, recs2[j].table # NoTable
               PROVE  LET u == recs2[j].table
                      IN  /\ u \in Tables /\ new[u].alive
                          /\ recs2[j].row \in 1 .. Len(new[u].rows)
                          /\ new[u].rows[recs2[j].row] = j
    BY <1>0 DEF RecordsPlaced
  <2>1. CASE j = i
    BY <1>1, <2>1
  <2>2. CASE j # i
    BY <2>2, SMTT(30) DEF Placed, RecordsPlaced
  <2> QED BY <2>1, <2>2
<1>4. DeadEmpty(new)
  BY DEF Placed, DeadEmpty
<1> QED BY <1>2, <1>3, <1>4 DEF Placed

(* Rows and records that agree still do if no row changed.                 *)
LEMMA PlacesKept ==
    ASSUME NEW tabs, NEW new, NEW recs, NEW x, NEW y,
           RowsNamed(tabs, recs, NoTable, x, {}), RecordsPlaced(tabs, recs, NoTable, {}),
           \A t \in Tables : new[t].rows = tabs[t].rows /\ (tabs[t].alive => new[t].alive)
    PROVE  RowsNamed(new, recs, NoTable, y, {}) /\ RecordsPlaced(new, recs, NoTable, {})
<1>1. \A t \in Tables : t # NoTable
  BY SlotInRange
<1>2. ASSUME NEW t \in Tables, NEW k \in 1 .. Len(new[t].rows)
      PROVE  /\ new[t].rows[k] \in Ids
             /\ recs[new[t].rows[k]].table = t /\ recs[new[t].rows[k]].row = k
  BY <1>1 DEF RowsNamed
<1>3. RowsNamed(new, recs, NoTable, y, {})
  BY <1>1, <1>2 DEF RowsNamed
<1>4. RecordsPlaced(new, recs, NoTable, {})
  BY <1>1 DEF RecordsPlaced
<1> QED BY <1>3, <1>4

-----------------------------------------------------------------------------
(* The operations on tables and entities.                                  *)

(* flecs_table_new.                                                        *)
LEMMA CreateTableKeeps ==
    ASSUME StoreIInv, NEW t \in Tables, NEW column \in BOOLEAN, CreateTable(t, column), app' = app
    PROVE  Keeps
<1> USE DEF CreateTable, Idle
<1>1. tables[t] \in TableType /\ tables[t].gen \in Nat /\ ~tables[t].alive /\ t # Root
  BY DEF StoreIInv, Types, OpInv, TableType
<1>2. PICK n \in TableType : /\ tables' = [tables EXCEPT ![t] = n]
                            /\ n.version = 1 /\ n.alive /\ n.gen = tables[t].gen /\ n.rows = <<>>
  BY <1>1, NewTable
<1>3. tables' \in [Tables -> TableType] /\ \A u \in Tables : tables'[u] = IF u = t THEN n ELSE tables[u]
  BY <1>2 DEF StoreIInv, Types
<1>4. Types'
  BY <1>3 DEF StoreIInv, Types
<1>5. OpInv'
  BY <1>1, <1>3, SlotInRange DEF StoreIInv, OpInv, Adding, Emptied
<1>6. tables[t].rows = <<>> /\ Len(n.rows) = 0 /\ Len(tables[t].rows) = 0
  BY <1>1, <1>2 DEF StoreIInv, PlaceInv, Placed, DeadEmpty
<1>7. PlaceInv'
  <2>1. NewAt = NoTable /\ NewAt' = NoTable /\ Out = {} /\ Out' = {} /\ op' = op
    BY DEF NewAt, Out, Adding
  <2>2. Placed(tables, record, NoTable, op.id, {}) /\ record' = record /\ NoTable # t
    BY <2>1, SlotInRange, Zenon DEF StoreIInv, PlaceInv
  <2>3. \A u \in Tables : tables'[u].rows = tables[u].rows /\ (tables[u].alive => tables'[u].alive)
    BY <1>2, <1>3, <1>6
  <2>4. RowsNamed(tables', record', NoTable, op'.id, {}) /\ RecordsPlaced(tables', record', NoTable, {})
    <3>1. RowsNamed(tables, record, NoTable, op.id, {}) /\ RecordsPlaced(tables, record, NoTable, {})
      BY <2>2, Zenon DEF Placed
    <3>2. record' = record
      BY ONLY <2>2
    <3>3. RowsNamed(tables', record, NoTable, op'.id, {}) /\ RecordsPlaced(tables', record, NoTable, {})
      BY ONLY <2>3, <3>1, PlacesKept, Zenon
    <3> QED BY ONLY <3>2, <3>3
  <2>6. DeadEmpty(tables')
    <3>1. ASSUME NEW u \in Tables, ~tables'[u].alive PROVE tables'[u].rows = <<>>
      BY <2>2, <2>3, <3>1, Zenon DEF Placed, DeadEmpty
    <3> QED BY <3>1, Zenon DEF DeadEmpty
  <2> QED BY <2>1, <2>4, <2>6, Zenon DEF PlaceInv, Placed
<1>8. ASSUME NoWrap, CountInv, RefInv
      PROVE  CountInv' /\ RefInv'
  <2>1. CountInv'
    BY <1>1, <1>2, <1>3, <1>8 DEF CountInv, Emptied, Room
  <2>2. Created(t)
    BY <1>1, <1>2, <1>3, <1>8 DEF CountInv, Created, Settled
  <2>3. \A u \in Tables : u # t => Same(u)
    BY <1>3 DEF Same, Settled, Out
  <2>4. \A s \in 0 .. FastSlots - 1 : fast[s] <= fast'[s]
    BY FastNat
  <2>5. RefInv'
    BY <1>4, <1>8, <2>2, <2>3, <2>4, RefsKept
  <2> QED BY <2>1, <2>5
<1> QED BY <1>4, <1>5, <1>7, <1>8 DEF Keeps, StoreIInv

(* The first half of flecs_new_entity.                                     *)
LEMMA NewAppendKeeps ==
    ASSUME StoreIInv, NEW i \in Ids, NEW t \in Tables, NEW m \in Memory(t), NewAppend(i, t, m),
           app' = app
    PROVE  Keeps
<1>u. /\ op = Idle /\ record[i].table = NoTable /\ tables[t].alive /\ Room(t)
      /\ op' = [kind |-> "on_add", id |-> i, table |-> t]
      /\ fast' = fast /\ own' = own /\ ref' = ref
  BY DEF NewAppend
<1>0. /\ NewAt = NoTable /\ Out = {} /\ NewAt' = t /\ Out' = {i} /\ op'.id = i
      /\ Placed(tables, record, NoTable, op.id, {}) /\ t # NoTable /\ NoTable \notin Tables
  BY <1>u, SlotInRange DEF NewAt, Out, Adding, Idle, StoreIInv, PlaceInv
<1>1. tables[t] \in TableType /\ tables[t].rows \in Seq(Ids)
  BY DEF StoreIInv, Types, TableType
<1>2. PICK n \in TableType : /\ tables' = [tables EXCEPT ![t] = n]
                            /\ n.version = tables[t].version /\ n.alive = tables[t].alive
                            /\ n.gen = tables[t].gen /\ n.rows = Append(tables[t].rows, i)
  BY <1>1, GrownTable, MemoryType DEF StoreIInv, NewAppend
<1>3. tables' \in [Tables -> TableType] /\ \A u \in Tables : tables'[u] = IF u = t THEN n ELSE tables[u]
  BY <1>2 DEF StoreIInv, Types
<1>4. /\ record' \in [Ids -> RecordType]
      /\ record'[i].table = Root /\ record'[i].gen = record[i].gen
      /\ \A j \in Ids : j # i => record'[j] = record[j]
  <2>1. Root \in Tables /\ record \in [Ids -> RecordType]
    BY SlotInRange DEF StoreIInv, Types
  <2>2. PICK k \in Nat : record' = Put(record, i, Root, k)
    BY DEF Put, NewAppend
  <2>3. /\ record' \in [Ids -> RecordType] /\ record'[i].table = Root
        /\ \A j \in Ids : j # i => record'[j] = record[j]
    BY <2>1, <2>2, RecordPut
  <2>4. record'[i].gen = record[i].gen
    BY <2>1, <2>2, RecordPut
  <2> QED BY <2>3, <2>4
<1>5. Types'
  BY <1>u, <1>3, <1>4 DEF StoreIInv, Types, Windows
<1>6. OpInv'
  <2>1. Root # NoTable /\ Root \in Tables
    BY SlotInRange
  <2> QED BY <1>u, <1>2, <1>3, <1>4, <2>1 DEF StoreIInv, OpInv, Adding, Emptied
<1>8. PlaceInv'
  <2>1. Appends(tables, tables', record, record', t, i)
    BY <1>u, <1>0, <1>1, <1>2, <1>3, <1>4 DEF Appends
  <2>2. Placed(tables', record', t, i, {i})
    BY <2>1, RowAppended
  <2> QED BY <1>0, <2>2 DEF PlaceInv
<1>9. ASSUME NoWrap, CountInv, RefInv
      PROVE  CountInv' /\ RefInv'
  <2>1. CountInv'
    BY <1>u, <1>2, <1>3, <1>9, CountsSame
  <2>2. Pending(t)
    BY <1>u, <1>2, <1>3 DEF Pending, Settled
  <2>3. \A u \in Tables : u # t => Same(u)
    BY <1>u, <1>0, <1>3, <1>4 DEF Same, Settled, Idle
  <2>4. \A s \in 0 .. FastSlots - 1 : fast[s] <= fast'[s]
    BY <1>u, FastNat
  <2>5. RefInv'
    BY <1>u, <1>5, <1>9, <2>2, <2>3, <2>4, RefsKept
  <2> QED BY <2>1, <2>5
<1> QED BY <1>5, <1>6, <1>8, <1>9 DEF Keeps, StoreIInv

(* The second half.                                                        *)
LEMMA NewDoneKeeps ==
    ASSUME StoreIInv, NewDone, app' = app
    PROVE  Keeps
<1> PICK t : t = op.table
  OBVIOUS
<1> PICK i : i = op.id
  OBVIOUS
<1>u. /\ op.kind = "on_add" /\ op' = Idle /\ fast' = Increment(fast, t, 1)
      /\ own' = own /\ ref' = ref
  BY DEF NewDone
<1>1. /\ t \in Tables /\ i \in Ids /\ tables[t] \in TableType /\ tables[t].rows \in Seq(Ids)
      /\ tables[t].alive /\ t # NoTable
  BY <1>u, SlotInRange DEF StoreIInv, Types, TableType, OpInv, Adding
<1>0. /\ NewAt = t /\ Out = {i} /\ NewAt' = NoTable /\ Out' = {} /\ NoTable \notin Tables
      /\ Placed(tables, record, t, i, {i}) /\ op'.kind = "idle"
  BY <1>u, SlotInRange DEF NewAt, Out, Adding, Idle, StoreIInv, PlaceInv
<1>2. PICK n \in TableType : /\ tables' = [tables EXCEPT ![t] = n]
                            /\ n.version = (tables[t].version + 1) % VersionLimit
                            /\ n.alive = tables[t].alive
                            /\ n.gen = tables[t].gen /\ n.rows = tables[t].rows
  <2> DEFINE v == Versioned(tables[t], 1)
  <2>1. tables' = [tables EXCEPT ![t] = v]
    BY DEF NewDone
  <2>2. /\ v \in TableType /\ v.version = (tables[t].version + 1) % VersionLimit
        /\ v.alive = tables[t].alive /\ v.gen = tables[t].gen /\ v.rows = tables[t].rows
    BY ONLY <1>1, VersionedTable
  <2> HIDE DEF v
  <2> QED BY ONLY <2>1, <2>2
<1>3. tables' \in [Tables -> TableType] /\ \A u \in Tables : tables'[u] = IF u = t THEN n ELSE tables[u]
  BY <1>1, <1>2 DEF StoreIInv, Types
<1>4. /\ record' \in [Ids -> RecordType]
      /\ record'[i].table = t /\ record'[i].row = Len(tables[t].rows)
      /\ \A j \in Ids : j # i => record'[j] = record[j]
  <2>1. Len(tables[t].rows) \in Nat /\ record \in [Ids -> RecordType]
    BY <1>1 DEF StoreIInv, Types
  <2>2. record' = Put(record, i, t, Len(tables[t].rows))
    BY DEF Put, NewDone
  <2> QED BY <1>1, <2>1, <2>2, RecordPut
<1>5. fast' \in [0 .. FastSlots - 1 -> 0 .. FastLimit - 1]
  BY <1>u, <1>1, IncrementType DEF StoreIInv
<1>6. Types'
  BY <1>u, <1>1, <1>3, <1>4, <1>5, SlotInRange DEF StoreIInv, Types, Windows, Idle
<1>7. OpInv'
  BY <1>u, <1>2, <1>3, <1>4, SlotInRange DEF StoreIInv, OpInv, Adding, Emptied, Idle
<1>8. PlaceInv'
  <2>1. \A u \in Tables : tables'[u].rows = tables[u].rows /\ tables'[u].alive = tables[u].alive
    BY <1>2, <1>3
  <2>2. Placed(tables', record', NoTable, op'.id, {})
    <3>1. Takes(tables, tables', record, record', t, i)
      BY <1>0, <1>1, <1>4, <2>1 DEF Takes
    <3> QED BY <3>1, RowTaken
  <2> QED BY <1>0, <2>2 DEF PlaceInv
<1>9. ASSUME NoWrap, CountInv, RefInv
      PROVE  CountInv' /\ RefInv'
  <2>1. fast[Slot(t)] + 1 <= MaxChanges
    BY <1>u, <1>1, <1>9, SlotInRange, FastNat, ReferencesAssumption DEF CountInv, Room
  <2>2. op' = Idle /\ op'.kind \notin {"on_add", "on_move"} /\ ~Emptied'
    BY <1>u DEF Idle, Emptied
  <2>3. /\ fast' = Increment(fast, t, 1) /\ tables'[t].version = (tables[t].version + 1) % VersionLimit
        /\ tables'[t].alive /\ tables'[t].gen = tables[t].gen
    BY <1>u, <1>1, <1>2, <1>3
  <2>4. \A u \in Tables : u # t => Same(u)
    BY <1>u, <1>0, <1>3, <1>4 DEF Same, Settled
  <2> QED BY <1>u, <1>1, <1>6, <1>9, <2>1, <2>2, <2>3, <2>4, OneAdvanced
<1> QED BY <1>6, <1>7, <1>8, <1>9 DEF Keeps, StoreIInv

(* The first half of flecs_move_entity.                                    *)
LEMMA MoveAppendKeeps ==
    ASSUME StoreIInv, NEW i \in Ids, NEW d \in Tables, NEW m \in Memory(d), MoveAppend(i, d, m),
           app' = app
    PROVE  Keeps
<1>u. /\ op = Idle /\ record[i].table # NoTable /\ record[i].table # d
      /\ tables[d].alive /\ Room(d) /\ Room(record[i].table)
      /\ op' = [kind |-> "on_move", id |-> i, table |-> d]
      /\ fast' = Increment(fast, d, 1) /\ record' = record /\ own' = own /\ ref' = ref
  BY DEF MoveAppend
<1>0. /\ NewAt = NoTable /\ Out = {} /\ NewAt' = d /\ Out' = {} /\ op'.id = i
      /\ Placed(tables, record, NoTable, op.id, {}) /\ d # NoTable /\ NoTable \notin Tables
  BY <1>u, SlotInRange DEF NewAt, Out, Adding, Idle, StoreIInv, PlaceInv
<1>1. /\ tables[d] \in TableType /\ tables[d].rows \in Seq(Ids)
      /\ record \in [Ids -> RecordType] /\ record[i].table \in Tables
  BY <1>u DEF StoreIInv, Types, TableType, RecordType
<1>2. PICK n \in TableType : /\ tables' = [tables EXCEPT ![d] = n]
                            /\ n.version = (tables[d].version + 1) % VersionLimit
                            /\ n.alive = tables[d].alive
                            /\ n.gen = tables[d].gen /\ n.rows = Append(tables[d].rows, i)
  <2>1. PICK g : g = Grown(tables[d], i, m)
    OBVIOUS
  <2>2. /\ g \in TableType /\ g.version = tables[d].version /\ g.alive = tables[d].alive
        /\ g.gen = tables[d].gen /\ g.rows = Append(tables[d].rows, i)
    <3>1. m.buffer \in Nat /\ m.spare \in BOOLEAN
      BY MemoryType DEF StoreIInv
    <3>2. /\ Grown(tables[d], i, m) \in TableType
          /\ Grown(tables[d], i, m).version = tables[d].version
          /\ Grown(tables[d], i, m).alive = tables[d].alive
          /\ Grown(tables[d], i, m).gen = tables[d].gen
          /\ Grown(tables[d], i, m).rows = Append(tables[d].rows, i)
      <4>1. tables[d] \in TableType
        BY <1>1
      <4> QED BY <3>1, <4>1, GrownTable
    <3> QED BY <2>1, <3>2, Zenon
  <2>3. tables' = [tables EXCEPT ![d] = Versioned(g, 1)]
    BY <2>1 DEF MoveAppend
  <2>4. PICK n : n = Versioned(g, 1)
    OBVIOUS
  <2>5. /\ n \in TableType /\ n.version = (g.version + 1) % VersionLimit
        /\ n.alive = g.alive /\ n.gen = g.gen /\ n.rows = g.rows
    BY <2>2, <2>4, VersionedTable
  <2> QED BY <2>2, <2>3, <2>4, <2>5
<1>3. tables' \in [Tables -> TableType] /\ \A u \in Tables : tables'[u] = IF u = d THEN n ELSE tables[u]
  BY <1>2 DEF StoreIInv, Types
<1>4. fast' \in [0 .. FastSlots - 1 -> 0 .. FastLimit - 1]
  BY <1>u, IncrementType DEF StoreIInv
<1>5. Types'
  BY <1>u, <1>1, <1>3, <1>4 DEF StoreIInv, Types, Windows
<1>6. OpInv'
  BY <1>u, <1>2, <1>3, SlotInRange DEF StoreIInv, OpInv, Adding, Emptied
<1>7. /\ Len(n.rows) = Len(tables[d].rows) + 1 /\ Len(tables[d].rows) \in Nat
      /\ n.rows[Len(n.rows)] = i /\ n.rows # <<>>
      /\ \A k \in 1 .. Len(tables[d].rows) : n.rows[k] = tables[d].rows[k]
  <2>1. PICK a : a = Append(tables[d].rows, i)
    OBVIOUS
  <2>2. /\ Len(a) = Len(tables[d].rows) + 1 /\ a[Len(tables[d].rows) + 1] = i /\ a # <<>>
        /\ \A k \in 1 .. Len(tables[d].rows) : a[k] = tables[d].rows[k]
    BY <1>1, <2>1, AppendProperties
  <2> QED BY <1>1, <1>2, <2>1, <2>2
<1>8. PlaceInv'
  <2>2. RowsNamed(tables', record, d, i, {})
    BY <1>0, <1>1, <1>3, <1>7, SMTT(30) DEF Placed, RowsNamed
  <2>3. RecordsPlaced(tables', record, d, {})
    <3> SUFFICES ASSUME NEW j \in Ids, record[j].table # NoTable
                 PROVE  LET u == record[j].table
                        IN  /\ u \in Tables /\ tables'[u].alive
                            /\ record[j].row \in 1 .. Len(tables'[u].rows)
                            /\ tables'[u].rows[record[j].row] = j
                            /\ ~(u = d /\ record[j].row = Len(tables'[u].rows))
      BY DEF RecordsPlaced
    <3>2. /\ record[j].table \in Tables /\ tables[record[j].table].alive
          /\ record[j].row \in 1 .. Len(tables[record[j].table].rows)
          /\ tables[record[j].table].rows[record[j].row] = j
      BY <1>0 DEF Placed, RecordsPlaced
    <3>3. CASE record[j].table = d
      BY <1>2, <1>3, <1>7, <3>2, <3>3
    <3>4. CASE record[j].table # d
      BY <1>3, <3>2, <3>4
    <3> QED BY <3>3, <3>4
  <2>4. DeadEmpty(tables')
    BY <1>u, <1>0, <1>2, <1>3 DEF Placed, DeadEmpty
  <2> QED BY <1>u, <1>0, <1>3, <1>7, <2>2, <2>3, <2>4 DEF PlaceInv, Placed
<1>9. ASSUME NoWrap, CountInv, RefInv
      PROVE  CountInv' /\ RefInv'
  <2>1. fast[Slot(d)] + 1 <= MaxChanges
    BY <1>u, SlotInRange, FastNat, ReferencesAssumption DEF Room
  <2>2. /\ op'.kind # "on_add" /\ ~Emptied' /\ record'[op'.id].table \in Tables
        /\ fast[Slot(record'[op'.id].table)] + 2 <= MaxChanges
    BY <1>u, <1>1 DEF Emptied, Room
  <2>3. /\ tables'[d].version = (tables[d].version + 1) % VersionLimit
        /\ tables'[d].alive /\ tables'[d].gen = tables[d].gen
    BY <1>u, <1>2, <1>3
  <2>4. \A u \in Tables : u # d => Same(u)
    BY <1>u, <1>0, <1>3 DEF Same, Settled, Idle
  <2> QED BY <1>u, <1>5, <1>9, <2>1, <2>2, <2>3, <2>4, OneAdvanced
<1> QED BY <1>5, <1>6, <1>8, <1>9 DEF Keeps, StoreIInv

(* A table with its row k removed.                                         *)
LEMMA ShortenedTable ==
    ASSUME NEW tab \in TableType, NEW k \in 1 .. Len(tab.rows)
    PROVE  /\ Shortened(tab, k) \in TableType
           /\ Shortened(tab, k).version = (tab.version + 1) % VersionLimit
           /\ Shortened(tab, k).alive = tab.alive /\ Shortened(tab, k).gen = tab.gen
           /\ Shortened(tab, k).rows = WithoutRow(tab.rows, k)
<1>1. PICK v : v = Versioned(tab, 1)
  OBVIOUS
<1>2. /\ v \in TableType /\ v.version = (tab.version + 1) % VersionLimit
      /\ v.alive = tab.alive /\ v.gen = tab.gen /\ v.rows = tab.rows
  BY <1>1, VersionedTable
<1>3. tab.rows \in Seq(Ids)
  BY DEF TableType
<1>4. WithoutRow(tab.rows, k) \in Seq(Ids)
  BY <1>3, WithoutRowSeq
<1>5. Shortened(tab, k) = [v EXCEPT !.rows = WithoutRow(tab.rows, k), !.spare = TRUE]
  BY <1>1 DEF Shortened
<1> QED BY <1>2, <1>4, <1>5 DEF TableType

(* The second half of flecs_move_entity.                                   *)
LEMMA MoveDoneKeeps ==
    ASSUME StoreIInv, MoveDone, app' = app
    PROVE  Keeps
<1> PICK d : d = op.table
  OBVIOUS
<1> PICK i : i = op.id
  OBVIOUS
<1> PICK s : s = record[i].table
  OBVIOUS
<1> PICK k : k = record[i].row
  OBVIOUS
<1>u. /\ op.kind = "on_move" /\ op' = Idle /\ fast' = Increment(fast, s, 1)
      /\ own' = own /\ ref' = ref
  BY DEF MoveDone
<1>1. /\ d \in Tables /\ i \in Ids /\ tables \in [Tables -> TableType]
      /\ tables[d] \in TableType /\ tables[d].rows \in Seq(Ids) /\ Len(tables[d].rows) \in Nat
      /\ tables[d].alive /\ d # NoTable /\ record \in [Ids -> RecordType]
      /\ s \in Tables /\ k \in Nat /\ s # d /\ s # NoTable
  <2>1. /\ d \in Tables /\ i \in Ids /\ tables \in [Tables -> TableType] /\ s # NoTable
        /\ record \in [Ids -> RecordType] /\ s # d /\ tables[d].alive
    BY <1>u DEF StoreIInv, Types, OpInv, Adding
  <2>2. tables[d] \in TableType /\ record[i] \in RecordType /\ d # NoTable
    BY <2>1, SlotInRange
  <2>3. tables[d].rows \in Seq(Ids) /\ s \in Tables /\ k \in Nat
    BY <2>1, <2>2 DEF TableType, RecordType
  <2> QED BY <2>1, <2>2, <2>3
<1>0. /\ NewAt = d /\ Out = {} /\ NewAt' = NoTable /\ Out' = {} /\ NoTable \notin Tables
      /\ Placed(tables, record, d, i, {}) /\ op'.kind = "idle"
  BY <1>u, SlotInRange DEF NewAt, Out, Adding, Idle, StoreIInv, PlaceInv
<1>2. /\ k \in 1 .. Len(tables[s].rows) /\ tables[s].alive /\ tables[s] \in TableType
      /\ tables[s].rows \in Seq(Ids)
  BY <1>0, <1>1 DEF Placed, RecordsPlaced, TableType
<1>3. PICK n \in TableType : /\ tables' = [tables EXCEPT ![s] = n]
                            /\ n.version = (tables[s].version + 1) % VersionLimit
                            /\ n.alive = tables[s].alive /\ n.gen = tables[s].gen
                            /\ n.rows = WithoutRow(tables[s].rows, k)
  <2>1. tables' = [tables EXCEPT ![record[op.id].table] =
                     Shortened(tables[record[op.id].table], record[op.id].row)]
    BY DEF MoveDone
  <2> QED BY <1>2, <2>1, ShortenedTable
<1>4. tables' \in [Tables -> TableType] /\ \A u \in Tables : tables'[u] = IF u = s THEN n ELSE tables[u]
  BY <1>1, <1>3
<1>5. PICK moved : moved = MovedRecords(record, tables[s].rows, k)
  OBVIOUS
<1>6. /\ moved \in [Ids -> RecordType]
      /\ \A j \in Ids : record[j].table # s => moved[j] = record[j]
      /\ Placed(tables', moved, d, i, {i})
  <2>1. moved \in [Ids -> RecordType]
    BY <1>1, <1>2, <1>5, MovedRecordsType
  <2>2. \A u \in Tables : /\ tables'[u].alive = tables[u].alive
                          /\ u # s => tables'[u].rows = tables[u].rows
                          /\ u = s => tables'[u].rows = WithoutRow(tables[s].rows, k)
    BY <1>3, <1>4
  <2>3. record[i].table = s /\ record[i].row = k
    OBVIOUS
  <2>4. Removes(tables, tables', record, moved, d, i, i, s, k)
    BY <1>0, <1>1, <1>5, <2>2, <2>3 DEF Removes
  <2> QED BY <2>1, <2>4, RowRemoved
<1>7. /\ record' \in [Ids -> RecordType] /\ record'[i].table = d
      /\ record'[i].row = Len(tables[d].rows) /\ \A j \in Ids : j # i => record'[j] = moved[j]
  <2>1. record' = Put(moved, i, d, Len(tables[d].rows))
    BY <1>5 DEF MoveDone, Put
  <2> QED BY <1>1, <1>6, <2>1, RecordPut
<1>8. fast' \in [0 .. FastSlots - 1 -> 0 .. FastLimit - 1]
  BY <1>u, <1>1, IncrementType DEF StoreIInv
<1>9. Types'
  BY <1>u, <1>1, <1>4, <1>7, <1>8, SlotInRange DEF StoreIInv, Types, Windows, Idle
<1>10. OpInv'
  BY <1>u, <1>3, <1>4, SlotInRange DEF StoreIInv, OpInv, Adding, Emptied, Idle
<1>11. PlaceInv'
  <2>1. tables'[d] = tables[d]
    BY <1>1, <1>4
  <2>2. Placed(tables', record', NoTable, op'.id, {})
    <3>1. Takes(tables', tables', moved, record', d, i)
      BY <1>1, <1>6, <1>7, <2>1 DEF Takes
    <3> QED BY <3>1, RowTaken
  <2> QED BY <1>0, <2>2 DEF PlaceInv
<1>12. ASSUME NoWrap, CountInv, RefInv
       PROVE  CountInv' /\ RefInv'
  <2>1. fast[Slot(s)] + 1 <= MaxChanges
    BY <1>u, <1>12 DEF CountInv
  <2>2. op' = Idle /\ op'.kind \notin {"on_add", "on_move"} /\ ~Emptied'
    BY <1>u DEF Idle, Emptied
  <2>3. /\ fast' = Increment(fast, s, 1) /\ tables'[s].version = (tables[s].version + 1) % VersionLimit
        /\ tables'[s].alive /\ tables'[s].gen = tables[s].gen
    BY <1>u, <1>1, <1>2, <1>3, <1>4
  <2>4. \A u \in Tables : u # s => Same(u)
    BY <1>u, <1>0, <1>4, <1>6, <1>7 DEF Same, Settled
  <2>5. StoreIInv /\ Types' /\ NoWrap /\ CountInv /\ RefInv /\ ref' = ref /\ app' = app
        /\ s \in Tables /\ 1 \in Nat \ {0} /\ op' = Idle
    BY <1>u, <1>1, <1>9, <1>12
  <2> QED BY <2>1, <2>2, <2>3, <2>4, <2>5, OneAdvanced, Zenon
<1> QED BY <1>9, <1>10, <1>11, <1>12 DEF Keeps, StoreIInv

(* ecs_delete up to the on_remove hooks.                                   *)
LEMMA DeleteRowKeeps ==
    ASSUME StoreIInv, NEW i \in Ids, DeleteRow(i), app' = app
    PROVE  Keeps
<1> PICK s : s = record[i].table
  OBVIOUS
<1> PICK k : k = record[i].row
  OBVIOUS
<1>u. /\ op = Idle /\ op' = [kind |-> "on_remove", id |-> i, table |-> s]
      /\ fast' = Increment(fast, s, 1) /\ ref' = ref /\ s # NoTable /\ Room(s)
      /\ record[i].gen < MaxGen /\ own' = [own EXCEPT ![i] = Null]
  BY DEF DeleteRow
<1>1. /\ tables \in [Tables -> TableType] /\ record \in [Ids -> RecordType]
      /\ s \in Tables /\ k \in Nat
  BY <1>u, SlotInRange DEF StoreIInv, Types, TableType, RecordType
<1>0. /\ NewAt = NoTable /\ Out = {} /\ NewAt' = NoTable /\ Out' = {i} /\ NoTable \notin Tables
      /\ Placed(tables, record, NoTable, op.id, {}) /\ op'.id = i /\ op.kind = "idle"
  BY <1>u, SlotInRange DEF NewAt, Out, Adding, Idle, StoreIInv, PlaceInv
<1>2. /\ k \in 1 .. Len(tables[s].rows) /\ tables[s].alive /\ tables[s] \in TableType
      /\ tables[s].rows \in Seq(Ids)
  BY <1>u, <1>0, <1>1 DEF Placed, RecordsPlaced, TableType
<1>3. PICK n \in TableType : /\ tables' = [tables EXCEPT ![s] = n]
                            /\ n.version = (tables[s].version + 1) % VersionLimit
                            /\ n.alive = tables[s].alive /\ n.gen = tables[s].gen
                            /\ n.rows = WithoutRow(tables[s].rows, k)
  <2>1. tables' = [tables EXCEPT ![record[i].table] =
                     Shortened(tables[record[i].table], record[i].row)]
    BY DEF DeleteRow
  <2> QED BY <1>2, <2>1, ShortenedTable
<1>4. tables' \in [Tables -> TableType] /\ \A u \in Tables : tables'[u] = IF u = s THEN n ELSE tables[u]
  BY <1>1, <1>3
<1>5. record' = MovedRecords(record, tables[s].rows, k)
  BY DEF DeleteRow
<1>6. /\ record' \in [Ids -> RecordType]
      /\ \A j \in Ids : record[j].table # s => record'[j] = record[j]
      /\ Placed(tables', record', NoTable, i, {i})
  <2>1. record' \in [Ids -> RecordType]
    BY <1>1, <1>2, <1>5, MovedRecordsType
  <2>2. \A u \in Tables : /\ tables'[u].alive = tables[u].alive
                          /\ u # s => tables'[u].rows = tables[u].rows
                          /\ u = s => tables'[u].rows = WithoutRow(tables[s].rows, k)
    BY <1>3, <1>4
  <2>3. record[i].table = s /\ record[i].row = k /\ s # NoTable
    BY <1>u
  <2>4. /\ Placed(tables', record', NoTable, op.id, {i})
        /\ \A j \in Ids : record[j].table # s => record'[j] = record[j]
    <3>1. PICK x, recs2, new : x = op.id /\ recs2 = record' /\ new = tables'
      OBVIOUS
    <3>2. Removes(tables, new, record, recs2, NoTable, x, i, s, k)
      BY <1>0, <1>1, <1>5, <2>2, <2>3, <3>1 DEF Removes
    <3>3. /\ Placed(new, recs2, NoTable, x, {i})
          /\ \A j \in Ids : record[j].table # s => recs2[j] = record[j]
      BY <3>2, RowRemoved
    <3> QED BY <3>1, <3>3
  <2>5. Placed(tables', record', NoTable, i, {i})
    BY <1>0, <2>4 DEF Placed, RowsNamed
  <2> QED BY <2>1, <2>4, <2>5
<1>7. /\ record'[i].table = s /\ record'[i].gen = record[i].gen
  BY <1>1, <1>2, <1>5, MovedRecordsType
<1>8. /\ fast' \in [0 .. FastSlots - 1 -> 0 .. FastLimit - 1]
      /\ own' \in [Ids -> Nat \X Nat]
  BY <1>u, <1>1, IncrementType DEF StoreIInv, Types, Null
<1>9. Types'
  BY <1>u, <1>1, <1>4, <1>6, <1>8 DEF StoreIInv, Types, Windows
<1>10. OpInv'
  BY <1>u, <1>3, <1>4, <1>7, SlotInRange DEF StoreIInv, OpInv, Adding, Emptied
<1>11. PlaceInv'
  BY <1>0, <1>6 DEF PlaceInv
<1>12. ASSUME NoWrap, CountInv, RefInv
       PROVE  CountInv' /\ RefInv'
  <2>1. fast[Slot(s)] + 1 <= MaxChanges
    BY <1>u, <1>1, SlotInRange, FastNat, ReferencesAssumption DEF Room
  <2>2. op'.kind \notin {"on_add", "on_move"} /\ ~Emptied'
    BY <1>u DEF Emptied
  <2>3. /\ tables'[s].version = (tables[s].version + 1) % VersionLimit
        /\ tables'[s].alive /\ tables'[s].gen = tables[s].gen
    BY <1>1, <1>2, <1>3, <1>4
  <2>4. \A u \in Tables : u # s => Same(u)
    BY <1>u, <1>0, <1>4, <1>6 DEF Same, Settled
  <2> QED BY <1>u, <1>1, <1>9, <1>12, <2>1, <2>2, <2>3, <2>4, OneAdvanced
<1> QED BY <1>9, <1>10, <1>11, <1>12 DEF Keeps, StoreIInv

(* And after them: flecs_entities_remove.                                  *)
LEMMA DeleteDoneKeeps ==
    ASSUME StoreIInv, DeleteDone, app' = app
    PROVE  Keeps
<1> PICK i : i = op.id
  OBVIOUS
<1>u. /\ op.kind = "on_remove" /\ op' = Idle /\ tables' = tables /\ fast' = fast
      /\ own' = own /\ ref' = ref
  BY DEF DeleteDone
<1>1. /\ i \in Ids /\ record \in [Ids -> RecordType] /\ record[i].gen < MaxGen
      /\ record[i].gen \in 0 .. MaxGen
  BY <1>u DEF StoreIInv, Types, OpInv, RecordType
<1>0. /\ NewAt = NoTable /\ Out = {i} /\ NewAt' = NoTable /\ Out' = {}
      /\ Placed(tables, record, NoTable, i, {i}) /\ op'.kind = "idle"
  BY <1>u DEF NewAt, Out, Adding, Idle, StoreIInv, PlaceInv
<1>2. PICK q \in RecordType : record' = [record EXCEPT ![i] = q] /\ q.table = NoTable
  <2>1. record[i].gen + 1 \in 0 .. MaxGen
    BY <1>1, ReferencesAssumption
  <2>2. Dead(record[i]) \in RecordType /\ Dead(record[i]).table = NoTable
    BY <2>1 DEF Dead, RecordType
  <2> QED BY <2>2 DEF DeleteDone
<1>3. /\ record' \in [Ids -> RecordType] /\ record'[i].table = NoTable
      /\ \A j \in Ids : j # i => record'[j] = record[j]
  BY <1>1, <1>2
<1>4. Types'
  BY <1>u, <1>3, SlotInRange DEF StoreIInv, Types, Windows, Idle
<1>5. OpInv'
  BY <1>u DEF StoreIInv, OpInv, Adding, Emptied, Idle
<1>6. PlaceInv'
  <2>0. NoTable \notin Tables
    BY SlotInRange
  <2>1. RowsNamed(tables, record', NoTable, op'.id, {})
    BY <1>0, <1>3, <2>0 DEF Placed, RowsNamed
  <2>2. RecordsPlaced(tables, record', NoTable, {})
    BY <1>0, <1>3 DEF Placed, RecordsPlaced
  <2> QED BY <1>u, <1>0, <2>1, <2>2 DEF PlaceInv, Placed
<1>7. ASSUME NoWrap, CountInv, RefInv
      PROVE  CountInv' /\ RefInv'
  <2>1. CountInv'
    BY <1>u, <1>7, CountsSame DEF Idle
  <2>2. \A u \in Tables : Same(u)
    BY <1>u, <1>0, <1>3 DEF Same, Settled
  <2>3. \A s \in 0 .. FastSlots - 1 : fast[s] <= fast'[s]
    BY <1>u, FastNat
  <2>4. RefInv'
    BY <1>u, <1>4, <1>7, <2>2, <2>3, RefsKept
  <2> QED BY <2>1, <2>4
<1> QED BY <1>4, <1>5, <1>6, <1>7 DEF Keeps, StoreIInv

(* ecs_table_clear_entities.                                               *)
LEMMA ClearTableKeeps ==
    ASSUME StoreIInv, NEW t \in Tables, ClearTable(t), app' = app
    PROVE  Keeps
<1> PICK gone : gone = {tables[t].rows[k] : k \in DOMAIN tables[t].rows}
  OBVIOUS
<1>u. /\ op = Idle /\ op' = [kind |-> "cleared", id |-> Root, table |-> t]
      /\ t # Root /\ gone # {} /\ fast[Slot(t)] + 3 <= MaxChanges
      /\ \A i \in gone : record[i].gen < MaxGen
      /\ record' = [i \in Ids |-> IF i \in gone THEN Dead(record[i]) ELSE record[i]]
      /\ own' = [i \in Ids |-> IF i \in gone THEN Null ELSE own[i]]
      /\ fast' = Increment(fast, t, 1) /\ ref' = ref
  BY DEF ClearTable
<1>1. /\ tables \in [Tables -> TableType] /\ record \in [Ids -> RecordType]
      /\ tables[t] \in TableType /\ tables[t].rows \in Seq(Ids) /\ Root \in Tables
  BY SlotInRange DEF StoreIInv, Types, TableType
<1>0. /\ NewAt = NoTable /\ Out = {} /\ NewAt' = NoTable /\ Out' = {} /\ NoTable \notin Tables
      /\ Placed(tables, record, NoTable, op.id, {}) /\ op.kind = "idle"
  BY <1>u, SlotInRange DEF NewAt, Out, Adding, Idle, StoreIInv, PlaceInv
<1>2. \A i \in Ids : i \in gone <=> record[i].table = t
  <2>1. DOMAIN tables[t].rows = 1 .. Len(tables[t].rows)
    BY <1>1
  <2>2. \A i \in gone : record[i].table = t
    BY <1>0, <2>1 DEF Placed, RowsNamed
  <2>3. ASSUME NEW i \in Ids, record[i].table = t PROVE i \in gone
    BY <1>0, <2>1, <2>3 DEF Placed, RecordsPlaced
  <2> QED BY <2>2, <2>3
<1>3. tables[t].alive
  <2>1. tables[t].rows # <<>>
    BY <1>u
  <2> QED BY <1>0, <2>1 DEF Placed, DeadEmpty
<1>4. PICK n \in TableType : /\ tables' = [tables EXCEPT ![t] = n]
                            /\ n.version = (tables[t].version + 1) % VersionLimit
                            /\ n.alive = tables[t].alive /\ n.gen = tables[t].gen
                            /\ n.rows = <<>>
  <2>1. PICK v : v = Versioned(tables[t], 1)
    OBVIOUS
  <2>2. /\ v \in TableType /\ v.version = (tables[t].version + 1) % VersionLimit
        /\ v.alive = tables[t].alive /\ v.gen = tables[t].gen
    BY <1>1, <2>1, VersionedTable
  <2>3. tables' = [tables EXCEPT ![t] = [v EXCEPT !.rows = <<>>, !.spare = TRUE]]
    BY <2>1 DEF ClearTable
  <2>4. <<>> \in Seq(Ids)
    OBVIOUS
  <2>5. PICK n : n = [v EXCEPT !.rows = <<>>, !.spare = TRUE]
    OBVIOUS
  <2>6. /\ n \in TableType /\ n.version = v.version /\ n.alive = v.alive /\ n.gen = v.gen
        /\ n.rows = <<>>
    BY <2>2, <2>4, <2>5 DEF TableType
  <2> QED BY <2>2, <2>3, <2>5, <2>6
<1>5. tables' \in [Tables -> TableType] /\ \A u \in Tables : tables'[u] = IF u = t THEN n ELSE tables[u]
  BY <1>1, <1>4
<1>6. /\ record' \in [Ids -> RecordType]
      /\ \A i \in Ids : /\ record[i].table = t => record'[i].table = NoTable
                        /\ record[i].table # t => record'[i] = record[i]
  <2>1. ASSUME NEW i \in Ids, i \in gone
        PROVE  Dead(record[i]) \in RecordType /\ Dead(record[i]).table = NoTable
    <3>1. record[i].gen < MaxGen /\ record[i].gen \in 0 .. MaxGen
      BY <1>u, <1>1, <2>1 DEF RecordType
    <3>2. record[i].gen + 1 \in 0 .. MaxGen
      BY <3>1, ReferencesAssumption
    <3> QED BY <3>2 DEF Dead, RecordType
  <2> QED BY <1>u, <1>1, <1>2, <2>1
<1>7. /\ fast' \in [0 .. FastSlots - 1 -> 0 .. FastLimit - 1]
      /\ own' \in [Ids -> Nat \X Nat]
  BY <1>u, IncrementType DEF StoreIInv, Types, Null
<1>8. Types'
  BY <1>u, <1>1, <1>5, <1>6, <1>7 DEF StoreIInv, Types, Windows
<1>9. OpInv'
  BY <1>u, <1>4, <1>5, <1>1 DEF StoreIInv, OpInv, Adding, Emptied
<1>10. PlaceInv'
  <2>1. RowsNamed(tables', record', NoTable, op'.id, {})
    BY <1>0, <1>4, <1>5, <1>6 DEF Placed, RowsNamed
  <2>2. RecordsPlaced(tables', record', NoTable, {})
    BY <1>0, <1>5, <1>6 DEF Placed, RecordsPlaced
  <2>3. DeadEmpty(tables')
    BY <1>0, <1>4, <1>5 DEF Placed, DeadEmpty
  <2> QED BY <1>0, <2>1, <2>2, <2>3 DEF PlaceInv, Placed
<1>11. ASSUME NoWrap, CountInv, RefInv
       PROVE  CountInv' /\ RefInv'
  <2>1. fast[Slot(t)] + 1 <= MaxChanges
    BY <1>u, SlotInRange, FastNat, ReferencesAssumption
  <2>2. op'.kind \notin {"on_add", "on_move"} /\ op'.table = t
    BY <1>u
  <2>3. /\ tables'[t].version = (tables[t].version + 1) % VersionLimit
        /\ tables'[t].alive /\ tables'[t].gen = tables[t].gen
    BY <1>3, <1>4, <1>5
  <2>4. \A u \in Tables : u # t => Same(u)
    BY <1>u, <1>0, <1>5, <1>6 DEF Same, Settled
  <2> QED BY <1>u, <1>8, <1>11, <2>1, <2>2, <2>3, <2>4, OneAdvanced
<1> QED BY <1>8, <1>9, <1>10, <1>11 DEF Keeps, StoreIInv

(* flecs_table_fini of a table without rows.                               *)
LEMMA TableDeletedKeeps ==
    ASSUME StoreIInv, NEW t \in Tables, t # Root, tables[t].rows = <<>>,
           op.kind \in {"idle", "cleared", "merged"}, op.kind # "idle" => op.table = t,
           NoWrap /\ CountInv => Room(t),
           tables' = [tables EXCEPT ![t] = Fini(@)], fast' = Increment(fast, t, 2), op' = Idle,
           record' = record, own' = own, ref' = ref, app' = app
    PROVE  Keeps
<1>1. /\ tables \in [Tables -> TableType] /\ tables[t] \in TableType /\ Len(tables[t].rows) = 0
      /\ Root \in Tables
  BY SlotInRange DEF StoreIInv, Types
<1>0. /\ NewAt = NoTable /\ Out = {} /\ NewAt' = NoTable /\ Out' = {} /\ NoTable \notin Tables
      /\ Placed(tables, record, NoTable, op.id, {}) /\ op'.kind = "idle"
  BY SlotInRange DEF NewAt, Out, Adding, Idle, StoreIInv, PlaceInv
<1>2. PICK n \in TableType : /\ tables' = [tables EXCEPT ![t] = n]
                            /\ n.version = 1 /\ ~n.alive /\ n.gen = tables[t].gen + 1
                            /\ n.rows = <<>> /\ Len(n.rows) = 0
  BY <1>1, FiniTable
<1>3. tables' \in [Tables -> TableType] /\ \A u \in Tables : tables'[u] = IF u = t THEN n ELSE tables[u]
  BY <1>1, <1>2
<1>4. fast' \in [0 .. FastSlots - 1 -> 0 .. FastLimit - 1]
  BY IncrementType DEF StoreIInv
<1>5. Types'
  BY <1>1, <1>3, <1>4 DEF StoreIInv, Types, Windows, Idle
<1>6. OpInv'
  BY <1>1, <1>2, <1>3 DEF StoreIInv, OpInv, Adding, Emptied, Idle
<1>7. PlaceInv'
  <2>1. RowsNamed(tables', record, NoTable, op'.id, {})
    BY <1>0, <1>2, <1>3 DEF Placed, RowsNamed
  <2>2. RecordsPlaced(tables', record, NoTable, {})
    BY <1>0, <1>1, <1>3 DEF Placed, RecordsPlaced
  <2>3. DeadEmpty(tables')
    BY <1>0, <1>2, <1>3 DEF Placed, DeadEmpty
  <2> QED BY <1>0, <2>1, <2>2, <2>3 DEF PlaceInv, Placed
<1>8. ASSUME NoWrap, CountInv, RefInv
      PROVE  CountInv' /\ RefInv'
  <2>1. fast[Slot(t)] + 2 <= MaxChanges
    BY <1>8 DEF Room
  <2>2. op'.kind \notin {"on_add", "on_move"} /\ ~Emptied'
    BY DEF Idle, Emptied
  <2>3. tables'[t].version = 1 /\ tables'[t].gen = tables[t].gen + 1
    BY <1>2, <1>3
  <2>4. \A u \in Tables : u # t => Same(u)
    BY <1>0, <1>3 DEF Same, Settled
  <2> QED BY <1>5, <1>8, <2>1, <2>2, <2>3, <2>4, OneAdvanced
<1> QED BY <1>5, <1>6, <1>7, <1>8 DEF Keeps, StoreIInv

(* flecs_component_release_tables.                                         *)
LEMMA ReleaseTableKeeps ==
    ASSUME StoreIInv, ReleaseTable, app' = app
    PROVE  Keeps
<1> PICK t : t = op.table
  OBVIOUS
<1>1. /\ t \in Tables /\ t # Root /\ tables[t].rows = <<>> /\ op.kind \in {"cleared", "merged"}
      /\ CountInv => Room(t)
  BY DEF ReleaseTable, StoreIInv, Types, OpInv, Emptied, CountInv
<1>2. /\ tables' = [tables EXCEPT ![t] = Fini(@)] /\ fast' = Increment(fast, t, 2) /\ op' = Idle
      /\ record' = record /\ own' = own /\ ref' = ref
  BY DEF ReleaseTable
<1> QED BY <1>1, <1>2, TableDeletedKeeps

(* ecs_delete_empty_tables.                                                *)
LEMMA DeleteEmptyTableKeeps ==
    ASSUME StoreIInv, NEW t \in Tables, DeleteEmptyTable(t), app' = app
    PROVE  Keeps
<1>1. /\ t # Root /\ tables[t].rows = <<>> /\ op.kind = "idle" /\ Room(t)
      /\ tables' = [tables EXCEPT ![t] = Fini(@)] /\ fast' = Increment(fast, t, 2) /\ op' = Idle
      /\ record' = record /\ own' = own /\ ref' = ref
  BY DEF DeleteEmptyTable, Idle
<1> QED BY <1>1, TableDeletedKeeps

(* flecs_table_merge.                                                      *)
LEMMA MergeTableKeeps ==
    ASSUME StoreIInv, NEW t \in Tables, NEW d \in Tables, MergeTable(t, d), app' = app
    PROVE  Keeps
<1>u. /\ op = Idle /\ op' = [kind |-> "merged", id |-> Root, table |-> t]
      /\ t # Root /\ t # d /\ tables[d].alive /\ tables[t].rows # <<>>
      /\ fast[Slot(t)] + 3 <= MaxChanges /\ Room(d)
      /\ fast' = Increment(fast, d, 1) /\ own' = own /\ ref' = ref
  BY DEF MergeTable
<1>1. /\ tables \in [Tables -> TableType] /\ record \in [Ids -> RecordType]
      /\ tables[t] \in TableType /\ tables[t].rows \in Seq(Ids) /\ Root \in Tables
      /\ tables[d] \in TableType /\ tables[d].rows \in Seq(Ids) 
  <2>1. tables \in [Tables -> TableType] /\ record \in [Ids -> RecordType] /\ Root \in Tables
    BY SlotInRange DEF StoreIInv, Types
  <2>2. tables[t] \in TableType /\ tables[d] \in TableType
    BY <2>1
  <2>3. tables[t].rows \in Seq(Ids) /\ tables[d].rows \in Seq(Ids)
    BY <2>2 DEF TableType
  <2> QED BY <2>1, <2>2, <2>3
<1>0. /\ NewAt = NoTable /\ Out = {} /\ NewAt' = NoTable /\ Out' = {} /\ NoTable \notin Tables
      /\ Placed(tables, record, NoTable, op.id, {}) /\ op.kind = "idle"
  BY <1>u, SlotInRange DEF NewAt, Out, Adding, Idle, StoreIInv, PlaceInv
<1>n. PICK n \in Nat : n = Len(tables[d].rows)
  BY <1>1
<1>l. PICK l \in Nat : l = Len(tables[t].rows)
  BY <1>1
<1>2. PICK both : /\ both = MergedRows(t, d) /\ both \in Seq(Ids)
                  /\ Len(both) = n + l
                  /\ \A k \in 1 .. n + l :
                       both[k] = IF k <= n THEN tables[d].rows[k] ELSE tables[t].rows[k - n]
  <2>1. PICK p, q \in Seq(Ids) : p = tables[d].rows /\ q = tables[t].rows
    BY <1>1
  <2>2. PICK both : both = p \o q
    OBVIOUS
  <2>3. /\ both \in Seq(Ids) /\ Len(both) = Len(p) + Len(q)
        /\ \A k \in 1 .. Len(p) + Len(q) : both[k] = IF k <= Len(p) THEN p[k] ELSE q[k - Len(p)]
    BY <2>2, ConcatProperties
  <2>4. both = MergedRows(t, d)
    BY <2>1, <2>2 DEF MergedRows
  <2>5. n = Len(p) /\ l = Len(q)
    BY <1>n, <1>l, <2>1
  <2> QED BY <2>1, <2>3, <2>4, <2>5
<1>3. PICK m \in MergedMemory(t, d) :
         tables' = [tables EXCEPT ![d] = Merged(@, MergedRows(t, d), m), ![t] = Drained(@)]
  BY DEF MergeTable
<1>4. PICK x \in TableType : /\ x = Merged(tables[d], both, m)
                            /\ x.version = (tables[d].version + 1) % VersionLimit
                            /\ x.alive = tables[d].alive /\ x.gen = tables[d].gen
                            /\ x.rows = both
  <2>1. PICK v : v = Versioned(tables[d], 1)
    OBVIOUS
  <2>2. /\ v \in TableType /\ v.version = (tables[d].version + 1) % VersionLimit
        /\ v.alive = tables[d].alive /\ v.gen = tables[d].gen
    BY <1>1, <2>1, VersionedTable
  <2>3. m.buffer \in Nat /\ m.spare \in BOOLEAN
    BY MergedMemoryType DEF StoreIInv
  <2>4. PICK x : x = [v EXCEPT !.rows = both, !.buffer = m.buffer, !.spare = m.spare]
    OBVIOUS
  <2>5. /\ x \in TableType /\ x.version = v.version /\ x.alive = v.alive /\ x.gen = v.gen
        /\ x.rows = both
    BY <1>2, <2>2, <2>3, <2>4 DEF TableType
  <2>6. x = Merged(tables[d], both, m)
    BY <2>1, <2>4 DEF Merged
  <2> QED BY <2>2, <2>5, <2>6
<1>5. PICK y \in TableType : /\ y = Drained(tables[t])
                            /\ y.version = tables[t].version
                            /\ y.alive = tables[t].alive /\ y.gen = tables[t].gen
                            /\ y.rows = <<>> /\ Len(y.rows) = 0
  <2>1. <<>> \in Seq(Ids) /\ Len(<<>>) = 0
    OBVIOUS
  <2>2. PICK y : y = Drained(tables[t])
    OBVIOUS
  <2>3. y \in TableType
    BY <1>1, <2>1, <2>2 DEF Drained, TableType
  <2>4. /\ y.version = tables[t].version /\ y.alive = tables[t].alive
        /\ y.gen = tables[t].gen /\ y.rows = <<>>
    BY <1>1, <2>2 DEF Drained, TableType
  <2> QED BY <2>1, <2>2, <2>3, <2>4
<1>6. /\ tables' \in [Tables -> TableType] /\ tables'[d] = x /\ tables'[t] = y
      /\ \A u \in Tables : u # t /\ u # d => tables'[u] = tables[u]
  <2>1. tables' = [tables EXCEPT ![d] = x, ![t] = y]
    BY <1>u, <1>1, <1>2, <1>3, <1>4, <1>5
  <2> QED BY <1>u, <1>1, <2>1
<1>7. /\ record' \in [Ids -> RecordType]
      /\ \A i \in Ids : /\ record[i].table = t =>
                             record'[i].table = d /\ record'[i].row = n + record[i].row
                        /\ record[i].table # t => record'[i] = record[i]
  <2>1. record' = [i \in Ids |-> IF record[i].table = t
                                 THEN [record[i] EXCEPT !.table = d, !.row = n + @]
                                 ELSE record[i]]
    BY <1>n DEF MergeTable
  <2>2. ASSUME NEW q \in RecordType
        PROVE  /\ [q EXCEPT !.table = d, !.row = n + @] \in RecordType
               /\ [q EXCEPT !.table = d, !.row = n + @].table = d
               /\ [q EXCEPT !.table = d, !.row = n + @].row = n + q.row
    <3>1. n + q.row \in Nat
      BY <1>1 DEF RecordType
    <3> QED BY <3>1 DEF RecordType
  <2> QED BY <1>1, <2>1, <2>2
<1>8. fast' \in [0 .. FastSlots - 1 -> 0 .. FastLimit - 1]
  BY <1>u, IncrementType DEF StoreIInv
<1>9. Types'
  BY <1>u, <1>1, <1>6, <1>7, <1>8 DEF StoreIInv, Types, Windows
<1>10. OpInv'
  <2>1. tables'[Root].alive /\ tables'[Root].gen = 0
    BY <1>u, <1>1, <1>4, <1>6 DEF StoreIInv, OpInv
  <2> QED BY <1>u, <1>5, <1>6, <2>1 DEF OpInv, Adding, Emptied
<1>11. PlaceInv'
  <2>1. RowsNamed(tables', record', NoTable, op'.id, {})
    <3> SUFFICES ASSUME NEW u \in Tables, NEW k \in 1 .. Len(tables'[u].rows)
                 PROVE  /\ tables'[u].rows[k] \in Ids
                        /\ record'[tables'[u].rows[k]].table = u
                        /\ record'[tables'[u].rows[k]].row = k
      BY <1>0 DEF RowsNamed
    <3>0. \A v \in Tables : \A q \in 1 .. Len(tables[v].rows) :
             /\ tables[v].rows[q] \in Ids
             /\ record[tables[v].rows[q]].table = v /\ record[tables[v].rows[q]].row = q
      BY <1>0 DEF Placed, RowsNamed
    <3>1. CASE u = t
      BY <1>5, <1>6, <3>1
    <3>2. CASE u = d
      <4>1. k \in 1 .. n + l /\ tables'[u].rows[k] = both[k]
        BY <1>2, <1>4, <1>6, <3>2
      <4>2. CASE k <= n
        <5>1. k \in 1 .. Len(tables[d].rows) /\ both[k] = tables[d].rows[k]
          <6>1. k \in 1 .. n
            BY <4>1, <4>2
          <6> QED BY <1>n, <1>2, <4>1, <4>2, <6>1
        <5>2. both[k] \in Ids /\ record[both[k]].table = d /\ record[both[k]].row = k
          BY <3>0, <5>1
        <5> QED BY <1>u, <1>7, <3>2, <4>1, <5>2
      <4>3. CASE ~(k <= n)
        <5>1. k - n \in 1 .. Len(tables[t].rows) /\ both[k] = tables[t].rows[k - n]
          <6>1. k - n \in 1 .. l
            BY <4>1, <4>3
          <6> QED BY <1>l, <1>2, <4>1, <4>3, <6>1
        <5>2. k = n + (k - n)
          BY <4>1
        <5>3. /\ both[k] \in Ids
              /\ record[both[k]].table = t /\ record[both[k]].row = k - n
          BY <3>0, <5>1
        <5> QED BY <1>7, <3>2, <4>1, <5>2, <5>3
      <4> QED BY <4>2, <4>3
    <3>3. CASE u # t /\ u # d
      BY <1>6, <1>7, <3>0, <3>3
    <3> QED BY <3>1, <3>2, <3>3
  <2>2. RecordsPlaced(tables', record', NoTable, {})
    <3> SUFFICES ASSUME NEW j \in Ids, record'[j].table # NoTable
                 PROVE  LET u == record'[j].table
                        IN  /\ u \in Tables /\ tables'[u].alive
                            /\ record'[j].row \in 1 .. Len(tables'[u].rows)
                            /\ tables'[u].rows[record'[j].row] = j
      BY <1>0 DEF RecordsPlaced
    <3> PICK u : u = record[j].table
      OBVIOUS
    <3> PICK q : q = record[j].row
      OBVIOUS
    <3>1. /\ u \in Tables /\ tables[u].alive /\ q \in 1 .. Len(tables[u].rows)
          /\ tables[u].rows[q] = j
      BY <1>0, <1>7 DEF Placed, RecordsPlaced
    <3>2. CASE u = t
      <4>1. /\ n + q \in 1 .. n + l /\ ~(n + q <= n) /\ (n + q) - n = q
        <5>1. q \in 1 .. l
          BY <1>l, <3>1, <3>2
        <5> QED BY <5>1
      <4>2. both[n + q] = j
        BY <1>2, <3>1, <3>2, <4>1
      <4>3. record'[j].table = d /\ record'[j].row = n + q
        BY <1>7, <3>2
      <4>4. d \in Tables /\ tables'[d].alive /\ tables'[d].rows = both /\ Len(both) = n + l
        BY <1>u, <1>2, <1>4, <1>6, Zenon
      <4> QED BY <4>1, <4>2, <4>3, <4>4, Zenon
    <3>3. CASE u = d
      <4>1. q \in 1 .. n + l /\ q <= n
        <5>1. q \in 1 .. n
          BY <1>n, <3>1, <3>3
        <5> QED BY <5>1
      <4>2. both[q] = j
        BY <1>2, <3>1, <3>3, <4>1
      <4>3. record'[j].table = d /\ record'[j].row = q
        BY <1>u, <1>7, <3>3
      <4>4. d \in Tables /\ tables'[d].alive /\ tables'[d].rows = both /\ Len(both) = n + l
        BY <1>u, <1>2, <1>4, <1>6, Zenon
      <4> QED BY <4>1, <4>2, <4>3, <4>4, Zenon
    <3>4. CASE u # t /\ u # d
      BY <1>6, <1>7, <3>1, <3>4
    <3> QED BY <3>2, <3>3, <3>4
  <2>3. DeadEmpty(tables')
    BY <1>u, <1>0, <1>4, <1>5, <1>6 DEF Placed, DeadEmpty
  <2> QED BY <1>0, <2>1, <2>2, <2>3 DEF PlaceInv, Placed
<1>12. ASSUME NoWrap, CountInv, RefInv
       PROVE  CountInv' /\ RefInv'
  <2>1. fast[Slot(d)] + 1 <= MaxChanges
    BY <1>u, SlotInRange, FastNat, ReferencesAssumption DEF Room
  <2>2. op'.kind \notin {"on_add", "on_move"} /\ op'.table = t
    BY <1>u
  <2>3. /\ tables'[d].version = (tables[d].version + 1) % VersionLimit
        /\ tables'[d].alive /\ tables'[d].gen = tables[d].gen
    BY <1>u, <1>4, <1>6
  <2>4. Pending(t) /\ tables'[t].alive = tables[t].alive
    BY <1>u, <1>5, <1>6 DEF Pending, Settled
  <2>5. \A u \in Tables : u # t /\ u # d => Same(u)
    BY <1>u, <1>0, <1>6, <1>7 DEF Same, Settled
  <2>6. \A u \in Tables : u # d =>
           Same(u) \/ (Pending(u) /\ tables'[u].alive = tables[u].alive)
    BY <2>4, <2>5
  <2> QED BY <1>u, <1>9, <1>12, <2>1, <2>2, <2>3, <2>6, OneAdvanced
<1> QED BY <1>9, <1>10, <1>11, <1>12 DEF Keeps, StoreIInv

(* flecs_table_swap.                                                       *)
LEMMA SwapRowsKeeps ==
    ASSUME StoreIInv, NEW t \in Tables, NEW j \in DOMAIN tables[t].rows,
           NEW k \in DOMAIN tables[t].rows, SwapRows(t, j, k), app' = app
    PROVE  Keeps
<1> PICK rows : rows = tables[t].rows
  OBVIOUS
<1>u. /\ op = Idle /\ op' = op /\ j < k /\ Room(t)
      /\ fast' = Increment(fast, t, 1) /\ own' = own /\ ref' = ref
  BY DEF SwapRows
<1>1. /\ tables \in [Tables -> TableType] /\ record \in [Ids -> RecordType]
      /\ tables[t] \in TableType /\ rows \in Seq(Ids) /\ Root \in Tables
      /\ j \in 1 .. Len(rows) /\ k \in 1 .. Len(rows) /\ j # k
  <2>1. /\ tables \in [Tables -> TableType] /\ record \in [Ids -> RecordType]
        /\ tables[t] \in TableType /\ rows \in Seq(Ids) /\ Root \in Tables
    BY SlotInRange DEF StoreIInv, Types, TableType
  <2>2. j \in 1 .. Len(rows) /\ k \in 1 .. Len(rows)
    BY <2>1
  <2> QED BY <1>u, <2>1, <2>2
<1>0. /\ NewAt = NoTable /\ Out = {} /\ NewAt' = NoTable /\ Out' = {} /\ NoTable \notin Tables
      /\ Placed(tables, record, NoTable, op.id, {}) /\ op.kind = "idle"
  BY <1>u, SlotInRange DEF NewAt, Out, Adding, Idle, StoreIInv, PlaceInv
<1>2. \A q \in 1 .. Len(rows) : /\ rows[q] \in Ids /\ record[rows[q]].table = t
                                /\ record[rows[q]].row = q
  BY <1>0 DEF Placed, RowsNamed
<1>3. tables[t].alive /\ rows[j] # rows[k]
  <2>1. rows # <<>>
    BY <1>1
  <2>2. rows[j] # rows[k]
    BY <1>1, <1>2
  <2> QED BY <1>0, <2>1, <2>2 DEF Placed, DeadEmpty
<1>4. PICK sw : /\ sw = [rows EXCEPT ![j] = rows[k], ![k] = rows[j]]
                /\ sw \in Seq(Ids) /\ Len(sw) = Len(rows)
                /\ \A q \in 1 .. Len(rows) :
                     sw[q] = IF q = j THEN rows[k] ELSE IF q = k THEN rows[j] ELSE rows[q]
  <2>1. rows \in [1 .. Len(rows) -> Ids] /\ Len(rows) \in Nat
    BY <1>1
  <2>2. PICK sw : sw = [rows EXCEPT ![j] = rows[k], ![k] = rows[j]]
    OBVIOUS
  <2>3. /\ sw \in [1 .. Len(rows) -> Ids]
        /\ \A q \in 1 .. Len(rows) :
             sw[q] = IF q = j THEN rows[k] ELSE IF q = k THEN rows[j] ELSE rows[q]
    BY <1>1, <2>1, <2>2
  <2>4. sw \in Seq(Ids) /\ Len(sw) = Len(rows)
    BY <2>1, <2>3
  <2> QED BY <2>2, <2>3, <2>4, ZenonT(30)
<1>5. PICK n \in TableType : /\ tables' = [tables EXCEPT ![t] = n]
                            /\ n.version = (tables[t].version + 1) % VersionLimit
                            /\ n.alive = tables[t].alive /\ n.gen = tables[t].gen
                            /\ n.rows = sw
  <2>1. PICK v : v = Versioned(tables[t], 1)
    OBVIOUS
  <2>2. /\ v \in TableType /\ v.version = (tables[t].version + 1) % VersionLimit
        /\ v.alive = tables[t].alive /\ v.gen = tables[t].gen
    BY <1>1, <2>1, VersionedTable
  <2>3. Swapped(tables[t], j, k) = [v EXCEPT !.rows = sw]
    BY <1>4, <2>1 DEF Swapped
  <2>4. PICK n : n = [v EXCEPT !.rows = sw]
    OBVIOUS
  <2>5. /\ n \in TableType /\ n.version = v.version /\ n.alive = v.alive /\ n.gen = v.gen
        /\ n.rows = sw
    BY <1>4, <2>2, <2>4 DEF TableType
  <2>6. tables' = [tables EXCEPT ![t] = Swapped(tables[t], j, k)]
    BY DEF SwapRows
  <2> QED BY <2>2, <2>3, <2>4, <2>5, <2>6
<1>6. tables' \in [Tables -> TableType] /\ \A u \in Tables : tables'[u] = IF u = t THEN n ELSE tables[u]
  BY <1>1, <1>5
<1>7. /\ record' \in [Ids -> RecordType]
      /\ \A i \in Ids :
            /\ record'[i].table = record[i].table /\ record'[i].gen = record[i].gen
            /\ record'[i].row = IF i = rows[j] THEN k ELSE IF i = rows[k] THEN j
                                ELSE record[i].row
            /\ record[i].table # t => record'[i] = record[i]
  <2>1. PICK q : q = [record EXCEPT ![rows[j]].row = k]
    OBVIOUS
  <2>2. rows[j] \in Ids /\ rows[k] \in Ids /\ j \in Nat /\ k \in Nat
    BY <1>1, <1>2
  <2>3. /\ q \in [Ids -> RecordType]
        /\ \A i \in Ids :
            /\ q[i].table = record[i].table /\ q[i].gen = record[i].gen
            /\ q[i].row = IF i = rows[j] THEN k ELSE record[i].row
            /\ i # rows[j] => q[i] = record[i]
    BY <1>1, <2>1, <2>2, ZenonT(30) DEF RecordType
  <2>4. record' = [q EXCEPT ![rows[k]].row = j]
    BY <2>1 DEF SwapRows
  <2>5. PICK p : p = [q EXCEPT ![rows[k]].row = j]
    OBVIOUS
  <2>6. /\ p \in [Ids -> RecordType]
        /\ \A i \in Ids :
            /\ p[i].table = q[i].table /\ p[i].gen = q[i].gen
            /\ p[i].row = IF i = rows[k] THEN j ELSE q[i].row
            /\ i # rows[k] => p[i] = q[i]
    BY <2>2, <2>3, <2>5 DEF RecordType
  <2>7. record' = p
    BY <2>4, <2>5
  <2>8. \A i \in Ids : record[i].table # t => i # rows[j] /\ i # rows[k]
    BY <1>1, <1>2
  <2> QED BY <1>3, <2>2, <2>3, <2>6, <2>7, <2>8
<1>8. fast' \in [0 .. FastSlots - 1 -> 0 .. FastLimit - 1]
  BY <1>u, IncrementType DEF StoreIInv
<1>9. Types'
  BY <1>u, <1>1, <1>6, <1>7, <1>8 DEF StoreIInv, Types, Windows
<1>10. OpInv'
  BY <1>u, <1>1, <1>5, <1>6 DEF StoreIInv, OpInv, Adding, Emptied, Idle
<1>11. PlaceInv'
  <2>1. RowsNamed(tables', record', NoTable, op'.id, {})
    <3> SUFFICES ASSUME NEW u \in Tables, NEW q \in 1 .. Len(tables'[u].rows)
                 PROVE  /\ tables'[u].rows[q] \in Ids
                        /\ record'[tables'[u].rows[q]].table = u
                        /\ record'[tables'[u].rows[q]].row = q
      BY <1>0 DEF RowsNamed
    <3>1. CASE u = t
      <4>1. q \in 1 .. Len(rows) /\ tables'[u].rows = sw
        BY <1>4, <1>5, <1>6, <3>1
      <4>2. CASE q = j
        <5>1. /\ sw[q] = rows[k] /\ rows[k] \in Ids /\ record[rows[k]].table = t
              /\ rows[k] # rows[j]
          BY <1>1, <1>2, <1>3, <1>4, <4>1, <4>2
        <5>2. record'[rows[k]].table = t /\ record'[rows[k]].row = j
          BY <1>7, <5>1
        <5> QED BY <3>1, <4>1, <4>2, <5>1, <5>2
      <4>3. CASE q = k
        <5>1. sw[q] = rows[j] /\ rows[j] \in Ids /\ record[rows[j]].table = t
          BY <1>1, <1>2, <1>4, <4>1, <4>3
        <5>2. record'[rows[j]].table = t /\ record'[rows[j]].row = k
          BY <1>7, <5>1
        <5> QED BY <3>1, <4>1, <4>3, <5>1, <5>2
      <4>4. CASE q # j /\ q # k
        <5>1. sw[q] = rows[q] /\ rows[q] # rows[j] /\ rows[q] # rows[k]
          BY <1>1, <1>2, <1>4, <4>1, <4>4
        <5> QED BY <1>2, <1>7, <3>1, <4>1, <5>1
      <4> QED BY <4>2, <4>3, <4>4
    <3>2. CASE u # t
      <4>1. tables'[u].rows = tables[u].rows
        BY <1>6, <3>2
      <4>2. PICK e : e = tables[u].rows[q]
        OBVIOUS
      <4>3. e \in Ids /\ record[e].table = u /\ record[e].row = q
        BY <1>0, <4>1, <4>2 DEF Placed, RowsNamed
      <4>4. record'[e] = record[e]
        BY <1>7, <3>2, <4>3
      <4>5. tables'[u].rows[q] = e
        BY <4>1, <4>2
      <4>6. record'[e].table = u /\ record'[e].row = q
        BY <4>3, <4>4
      <4> QED BY <4>3, <4>5, <4>6
    <3> QED BY <3>1, <3>2
  <2>2. RecordsPlaced(tables', record', NoTable, {})
    <3> SUFFICES ASSUME NEW e \in Ids, record'[e].table # NoTable
                 PROVE  LET u == record'[e].table
                        IN  /\ u \in Tables /\ tables'[u].alive
                            /\ record'[e].row \in 1 .. Len(tables'[u].rows)
                            /\ tables'[u].rows[record'[e].row] = e
      BY <1>0 DEF RecordsPlaced
    <3> PICK u : u = record[e].table
      OBVIOUS
    <3> PICK q : q = record[e].row
      OBVIOUS
    <3>1. /\ u \in Tables /\ tables[u].alive /\ q \in 1 .. Len(tables[u].rows)
          /\ tables[u].rows[q] = e /\ record'[e].table = u
      BY <1>0, <1>7 DEF Placed, RecordsPlaced
    <3>2. CASE u = t
      <4>1. q \in 1 .. Len(rows) /\ rows[q] = e
        BY <3>1, <3>2
      <4>2. PICK p \in 1 .. Len(rows) : record'[e].row = p /\ sw[p] = e
        <5>1. CASE q = j
          BY <1>1, <1>4, <1>7, <4>1, <5>1
        <5>2. CASE q = k
          BY <1>1, <1>3, <1>4, <1>7, <4>1, <5>2
        <5>3. CASE q # j /\ q # k
          <6>1. e # rows[j] /\ e # rows[k]
            BY <1>1, <1>2, <4>1, <5>3
          <6> QED BY <1>4, <1>7, <4>1, <5>3, <6>1
        <5> QED BY <5>1, <5>2, <5>3
      <4> QED BY <1>4, <1>5, <1>6, <3>1, <3>2, <4>2
    <3>3. CASE u # t
      BY <1>6, <1>7, <3>1, <3>3
    <3> QED BY <3>2, <3>3
  <2>3. DeadEmpty(tables')
    BY <1>0, <1>3, <1>5, <1>6 DEF Placed, DeadEmpty
  <2> QED BY <1>0, <2>1, <2>2, <2>3 DEF PlaceInv, Placed
<1>12. ASSUME NoWrap, CountInv, RefInv
       PROVE  CountInv' /\ RefInv'
  <2>1. fast[Slot(t)] + 1 <= MaxChanges
    BY <1>u, SlotInRange, FastNat, ReferencesAssumption DEF Room
  <2>2. op'.kind \notin {"on_add", "on_move"} /\ ~Emptied'
    BY <1>u DEF Idle, Emptied
  <2>3. /\ tables'[t].version = (tables[t].version + 1) % VersionLimit
        /\ tables'[t].alive /\ tables'[t].gen = tables[t].gen
    BY <1>3, <1>5, <1>6
  <2>4. \A u \in Tables : u # t => Same(u)
    BY <1>u, <1>0, <1>6, <1>7 DEF Same, Settled
  <2> QED BY <1>u, <1>9, <1>12, <2>1, <2>2, <2>3, <2>4, OneAdvanced
<1> QED BY <1>9, <1>10, <1>11, <1>12 DEF Keeps, StoreIInv

(* ecs_make_alive.                                                         *)
LEMMA MakeAliveKeeps ==
    ASSUME StoreIInv, NEW i \in Ids, NEW g \in 0 .. MaxGen, NEW m \in Memory(Root),
           MakeAlive(i, g, m), app' = app
    PROVE  Keeps
<1> PICK t : t = Root
  OBVIOUS
<1>u. /\ op = Idle /\ op' = op /\ record[i].table = NoTable /\ Room(t)
      /\ record' = [record EXCEPT ![i] = [gen |-> g, table |-> t, row |-> Len(tables[t].rows) + 1]]
      /\ fast' = Increment(fast, t, 1) /\ own' = own /\ ref' = ref
  BY DEF MakeAlive
<1>1. /\ tables \in [Tables -> TableType] /\ record \in [Ids -> RecordType] /\ t \in Tables
      /\ tables[t] \in TableType /\ tables[t].rows \in Seq(Ids) /\ tables[t].alive
  BY SlotInRange DEF StoreIInv, Types, TableType, OpInv
<1>0. /\ NewAt = NoTable /\ Out = {} /\ NewAt' = NoTable /\ Out' = {} /\ NoTable \notin Tables
      /\ Placed(tables, record, NoTable, op.id, {}) /\ op.kind = "idle" /\ t # NoTable
  BY <1>u, <1>1, SlotInRange DEF NewAt, Out, Adding, Idle, StoreIInv, PlaceInv
<1>2. PICK n \in TableType : /\ tables' = [tables EXCEPT ![t] = n]
                            /\ n.version = (tables[t].version + 1) % VersionLimit
                            /\ n.alive = tables[t].alive
                            /\ n.gen = tables[t].gen /\ n.rows = Append(tables[t].rows, i)
  <2>1. PICK x : x = Grown(tables[t], i, m)
    OBVIOUS
  <2>2. /\ x \in TableType /\ x.version = tables[t].version /\ x.alive = tables[t].alive
        /\ x.gen = tables[t].gen /\ x.rows = Append(tables[t].rows, i)
    <3>1. m.buffer \in Nat /\ m.spare \in BOOLEAN
      BY <1>1, MemoryType DEF StoreIInv
    <3>2. PICK tab \in TableType : tab = tables[t]
      BY <1>1
    <3>3. /\ Grown(tab, i, m) \in TableType
          /\ Grown(tab, i, m).version = tab.version
          /\ Grown(tab, i, m).alive = tab.alive /\ Grown(tab, i, m).gen = tab.gen
          /\ Grown(tab, i, m).rows = Append(tab.rows, i)
      BY <3>1, GrownTable
    <3> QED BY <2>1, <3>2, <3>3
  <2>3. tables' = [tables EXCEPT ![t] = Versioned(x, 1)]
    BY <2>1 DEF MakeAlive
  <2>4. PICK n : n = Versioned(x, 1)
    OBVIOUS
  <2>5. /\ n \in TableType /\ n.version = (x.version + 1) % VersionLimit
        /\ n.alive = x.alive /\ n.gen = x.gen /\ n.rows = x.rows
    BY <2>2, <2>4, VersionedTable
  <2> QED BY <2>2, <2>3, <2>4, <2>5
<1>3. tables' \in [Tables -> TableType] /\ \A u \in Tables : tables'[u] = IF u = t THEN n ELSE tables[u]
  BY <1>1, <1>2
<1>4. /\ record' \in [Ids -> RecordType]
      /\ record'[i].table = t /\ record'[i].row = Len(tables[t].rows) + 1
      /\ \A j \in Ids : j # i => record'[j] = record[j]
  <2>1. PICK q : q = [gen |-> g, table |-> t, row |-> Len(tables[t].rows) + 1]
    OBVIOUS
  <2>2. q \in RecordType /\ q.table = t /\ q.row = Len(tables[t].rows) + 1
    BY <1>1, <2>1 DEF RecordType
  <2>3. record' = [record EXCEPT ![i] = q]
    BY <1>u, <2>1
  <2> QED BY <1>1, <2>2, <2>3
<1>5. fast' \in [0 .. FastSlots - 1 -> 0 .. FastLimit - 1]
  BY <1>u, <1>1, IncrementType DEF StoreIInv
<1>6. Types'
  BY <1>u, <1>3, <1>4, <1>5 DEF StoreIInv, Types, Windows
<1>7. OpInv'
  BY <1>u, <1>1, <1>2, <1>3 DEF StoreIInv, OpInv, Adding, Emptied, Idle
<1>8. PlaceInv'
  <2>1. Appends(tables, tables', record, record', t, i)
    BY <1>u, <1>0, <1>1, <1>2, <1>3, <1>4 DEF Appends
  <2>2. Placed(tables', record', t, i, {i})
    BY <2>1, RowAppended
  <2>3. n.rows \in Seq(Ids) /\ Len(n.rows) = Len(tables[t].rows) + 1
    <3>1. PICK a : a = Append(tables[t].rows, i)
      OBVIOUS
    <3>2. a \in Seq(Ids) /\ Len(a) = Len(tables[t].rows) + 1
      BY <1>1, <3>1, AppendProperties
    <3> QED BY <1>2, <3>1, <3>2
  <2>4. Takes(tables', tables', record', record', t, i)
    BY <1>1, <1>2, <1>3, <1>4, <2>2, <2>3 DEF Takes
  <2>5. Placed(tables', record', NoTable, op'.id, {})
    BY <2>4, RowTaken
  <2> QED BY <1>0, <2>5 DEF PlaceInv
<1>9. ASSUME NoWrap, CountInv, RefInv
      PROVE  CountInv' /\ RefInv'
  <2>1. fast[Slot(t)] + 1 <= MaxChanges
    BY <1>u, <1>1, SlotInRange, FastNat, ReferencesAssumption DEF Room
  <2>2. op'.kind \notin {"on_add", "on_move"} /\ ~Emptied'
    BY <1>u DEF Idle, Emptied
  <2>3. /\ tables'[t].version = (tables[t].version + 1) % VersionLimit
        /\ tables'[t].alive /\ tables'[t].gen = tables[t].gen
    BY <1>1, <1>2, <1>3
  <2>4. \A u \in Tables : u # t => Same(u)
    BY <1>u, <1>0, <1>3, <1>4 DEF Same, Settled
  <2> QED BY <1>u, <1>1, <1>6, <1>9, <2>1, <2>2, <2>3, <2>4, OneAdvanced
<1> QED BY <1>6, <1>7, <1>8, <1>9 DEF Keeps, StoreIInv

(* ecs_set_version: applications that call it are not promised anything.   *)
LEMMA SetVersionKeeps ==
    ASSUME StoreIInv, NEW i \in Ids, NEW g \in 0 .. MaxGen, SetVersion(i, g), app' = app
    PROVE  Keeps
<1>u. /\ op = Idle /\ op' = op /\ "set_version" \in app
      /\ record' = [record EXCEPT ![i].gen = g]
      /\ tables' = tables /\ fast' = fast /\ own' = own /\ ref' = ref
  BY DEF SetVersion
<1>1. /\ record' \in [Ids -> RecordType]
      /\ \A j \in Ids : record'[j].table = record[j].table /\ record'[j].row = record[j].row
  BY <1>u, ZenonT(30) DEF StoreIInv, Types, RecordType
<1>2. Types'
  BY <1>u, <1>1 DEF StoreIInv, Types
<1>3. OpInv'
  BY <1>u DEF StoreIInv, OpInv, Adding, Emptied, Idle
<1>0. /\ NewAt = NoTable /\ Out = {} /\ NewAt' = NoTable /\ Out' = {} /\ NoTable \notin Tables
      /\ Placed(tables, record, NoTable, op.id, {})
  BY <1>u, SlotInRange DEF NewAt, Out, Adding, Idle, StoreIInv, PlaceInv
<1>4. PlaceInv'
  <2>1. RowsNamed(tables, record', NoTable, op'.id, {})
    BY <1>0, <1>1 DEF Placed, RowsNamed
  <2>2. RecordsPlaced(tables, record', NoTable, {})
    BY <1>0, <1>1 DEF Placed, RecordsPlaced
  <2> QED BY <1>u, <1>0, <2>1, <2>2 DEF PlaceInv, Placed
<1>5. CountInv => CountInv'
  BY <1>u, CountsSame DEF Idle
<1>6. RefInv'
  BY <1>u DEF RefInv
<1> QED BY <1>2, <1>3, <1>4, <1>5, <1>6 DEF Keeps, StoreIInv

(* Steps that change neither tables nor records.                           *)
LEMMA StoreSame ==
    ASSUME StoreIInv, tables' = tables, fast' = fast, record' = record, op' = op, app' = app,
           own' \in [Ids -> Nat \X Nat], ref' \in [Refs -> RefType],
           \A r \in Refs : ref'[r] # NoRef => ref'[r].entity \in Ids \X (0 .. MaxGen)
    PROVE  StoreIInv' /\ (CountInv => CountInv')
<1>1. Types'
  BY DEF StoreIInv, Types
<1>2. OpInv'
  BY DEF StoreIInv, OpInv, Adding, Emptied
<1>3. PlaceInv'
  BY DEF StoreIInv, PlaceInv, NewAt, Out, Adding
<1>4. CountInv => CountInv'
  BY DEF CountInv, Room, Emptied
<1> QED BY <1>1, <1>2, <1>3, <1>4 DEF StoreIInv

(* flecs_component_sparse_insert and _remove: no promise is made to an     *)
(* application with components outside of tables.                          *)
LEMMA SparseKeeps ==
    ASSUME StoreIInv, NEW i \in Ids, SparseAdd(i) \/ SparseRemove(i), app' = app
    PROVE  Keeps
<1>1. /\ tables' = tables /\ fast' = fast /\ record' = record /\ op' = op /\ ref' = ref
  BY DEF SparseAdd, SparseRemove
<1>2. own' \in [Ids -> Nat \X Nat]
  <2>1. CASE SparseAdd(i)
    <3>1. PICK b \in Nat : b = Unused(1)
      BY UnusedIsName DEF StoreIInv
    <3>2. own' = [own EXCEPT ![i] = <<b, 0>>]
      BY <2>1, <3>1 DEF SparseAdd
    <3> QED BY <3>2 DEF StoreIInv, Types
  <2>2. CASE SparseRemove(i)
    BY <2>2 DEF SparseRemove, StoreIInv, Types, Null
  <2> QED BY <2>1, <2>2
<1>3. ref' \in [Refs -> RefType] /\ \A r \in Refs : ref'[r] # NoRef => ref'[r].entity \in Ids \X (0 .. MaxGen)
  BY <1>1 DEF StoreIInv, Types
<1>4. StoreIInv' /\ (CountInv => CountInv')
  BY <1>1, <1>2, <1>3, StoreSame
<1>5. ASSUME CountInv, RefInv PROVE RefInv'
  <2>1. \A u \in Tables : Same(u)
    BY <1>1 DEF Same, Settled, Out
  <2>2. \A s \in 0 .. FastSlots - 1 : fast[s] <= fast'[s]
    BY <1>1, FastNat
  <2> QED BY <1>1, <1>4, <1>5, <2>1, <2>2, RefsKept DEF StoreIInv
<1> QED BY <1>4, <1>5 DEF Keeps

(* ecs_shrink: a step that deletes some tables without rows and shrinks    *)
(* others, with as many increments of their slots.                         *)
Shrinks(empty, spare, added) ==
    /\ empty \subseteq Tables /\ spare \subseteq Tables /\ empty \cap spare = {}
    /\ \A t \in empty : t # Root /\ tables[t].alive /\ tables[t].rows = <<>>
    /\ \A t \in spare : tables[t].alive
    /\ \A s \in 0 .. FastSlots - 1 : added[s] \in Nat /\ fast[s] + added[s] <= MaxChanges
    /\ \A t \in empty \cup spare : added[Slot(t)] >= 1
    /\ tables' = [t \in Tables |->
                    IF t \in empty THEN Fini(tables[t])
                    ELSE IF t \in spare THEN Shrunk(tables[t], Unused(t + 1))
                    ELSE tables[t]]
    /\ fast' = [s \in 0 .. FastSlots - 1 |-> (fast[s] + added[s]) % FastLimit]
    /\ op = Idle /\ record' = record /\ own' = own /\ ref' = ref /\ op' = op

(* The step of ecs_shrink is one of those.                                 *)
LEMMA ShrinkShrinks ==
    ASSUME StoreIInv, Shrink
    PROVE  \E empty, spare, added : Shrinks(empty, spare, added)
<1> DEFINE empty == {t \in Tables \ {Root} : tables[t].alive /\ tables[t].rows = <<>>}
           spare == {t \in Tables \ empty : tables[t].alive /\ tables[t].spare}
           In(S, s) == {t \in S : Slot(t) = s}
           Sum(s) == Cardinality(In(spare, s)) + 2 * Cardinality(In(empty, s))
           added == [s \in 0 .. FastSlots - 1 |-> Sum(s)]
<1>1. IsFiniteSet(Tables)
  BY ReferencesAssumption, FS_Interval DEF Tables
<1>2. ASSUME NEW S \in SUBSET Tables, NEW s
      PROVE  /\ Cardinality(In(S, s)) \in Nat
             /\ In(S, s) # {} => Cardinality(In(S, s)) >= 1
  <2>1. In(S, s) \in SUBSET Tables
    OBVIOUS
  <2>2. IsFiniteSet(In(S, s))
    BY <1>1, <2>1, FS_Subset
  <2> HIDE DEF In
  <2>3. Cardinality(In(S, s)) \in Nat
    BY <2>2, FS_CardinalityType
  <2>4. In(S, s) # {} => Cardinality(In(S, s)) # 0
    BY <2>2, FS_EmptySet
  <2> QED BY <2>3, <2>4
<1>3. empty \in SUBSET Tables /\ spare \in SUBSET Tables
  OBVIOUS
<1>4. ASSUME NEW s PROVE Sum(s) \in Nat
  <2> PICK c, e : c = Cardinality(In(spare, s)) /\ e = Cardinality(In(empty, s))
    OBVIOUS
  <2> HIDE DEF In, spare, empty
  <2>1. c \in Nat /\ e \in Nat
    BY <1>2, <1>3
  <2>2. c + 2 * e \in Nat
    BY <2>1
  <2> QED BY <2>2
<1>5. ASSUME NEW t \in empty \cup spare PROVE Sum(Slot(t)) >= 1
  <2> DEFINE c == Cardinality(In(spare, Slot(t)))
             e == Cardinality(In(empty, Slot(t)))
  <2>1. c \in Nat /\ e \in Nat
    BY <1>2, <1>3
  <2>2. t \in In(spare, Slot(t)) \/ t \in In(empty, Slot(t))
    OBVIOUS
  <2>3. c >= 1 \/ e >= 1
    BY <1>2, <1>3, <2>2
  <2> HIDE DEF c, e
  <2>4. c + 2 * e >= 1
    BY <2>1, <2>3
  <2> QED BY <2>4 DEF c, e
<1>6. /\ op = Idle /\ record' = record /\ own' = own /\ ref' = ref /\ op' = op
      /\ \A s \in DOMAIN fast : fast[s] + Sum(s) <= MaxChanges
      /\ tables' = [t \in Tables |->
                      IF t \in empty THEN Fini(tables[t])
                      ELSE IF t \in spare THEN Shrunk(tables[t], Unused(t + 1))
                      ELSE tables[t]]
      /\ fast' = [s \in DOMAIN fast |-> (fast[s] + Sum(s)) % FastLimit]
  BY DEF Shrink
<1>7. DOMAIN fast = 0 .. FastSlots - 1
  BY DEF StoreIInv, Types
<1>8. \A t \in empty \cup spare : Slot(t) \in 0 .. FastSlots - 1
  BY SlotInRange
<1> HIDE DEF Sum
<1>9. /\ \A s \in 0 .. FastSlots - 1 : added[s] = Sum(s)
      /\ fast' = [s \in 0 .. FastSlots - 1 |-> (fast[s] + added[s]) % FastLimit]
  BY <1>6, <1>7
<1>10. \A t \in empty \cup spare : added[Slot(t)] >= 1
  BY <1>5, <1>8, <1>9
<1> HIDE DEF added
<1>11. Shrinks(empty, spare, added)
  BY <1>4, <1>6, <1>7, <1>9, <1>10 DEF Shrinks
<1> QED BY <1>11

(* ecs_shrink.                                                             *)
LEMMA ShrinkKeeps ==
    ASSUME StoreIInv, Shrink, app' = app
    PROVE  Keeps
<1>0. PICK empty, spare, added : Shrinks(empty, spare, added)
  BY ShrinkShrinks
<1>1. /\ tables \in [Tables -> TableType] /\ Root \in Tables
      /\ \A s \in 0 .. FastSlots - 1 : fast[s] \in Nat
      /\ \A t \in Tables : /\ tables[t] \in TableType
                          /\ tables[t].gen \in Nat /\ tables[t].version \in Nat
  <2>1. tables \in [Tables -> TableType]
    BY DEF StoreIInv, Types
  <2>2. \A t \in Tables : tables[t] \in TableType
    BY <2>1
  <2>3. \A tab \in TableType : tab.gen \in Nat /\ tab.version \in Nat
    BY ReferencesAssumption DEF TableType
  <2> QED BY <2>1, <2>2, <2>3, SlotInRange, FastNat
<1>u. /\ empty \subseteq Tables /\ spare \subseteq Tables /\ empty \cap spare = {}
      /\ \A t \in empty : t # Root /\ tables[t].alive /\ tables[t].rows = <<>>
      /\ \A t \in spare : tables[t].alive
      /\ op = Idle /\ record' = record /\ own' = own /\ ref' = ref /\ op' = op
  BY <1>0 DEF Shrinks
<1>2. /\ tables' \in [Tables -> TableType]
      /\ \A t \in empty : /\ tables'[t].version = 1 /\ tables'[t].gen = tables[t].gen + 1
                          /\ tables'[t].rows = <<>> /\ ~tables'[t].alive
      /\ \A t \in spare : /\ tables'[t].version = (tables[t].version + 1) % VersionLimit
                          /\ tables'[t].gen = tables[t].gen /\ tables'[t].rows = tables[t].rows
                          /\ tables'[t].alive = tables[t].alive
      /\ \A t \in Tables : t \notin empty /\ t \notin spare => tables'[t] = tables[t]
  <2>1. ASSUME NEW t \in Tables
        PROVE  /\ Shrunk(tables[t], Unused(t + 1)) \in TableType
               /\ Shrunk(tables[t], Unused(t + 1)).version = (tables[t].version + 1) % VersionLimit
               /\ Shrunk(tables[t], Unused(t + 1)).gen = tables[t].gen
               /\ Shrunk(tables[t], Unused(t + 1)).rows = tables[t].rows
               /\ Shrunk(tables[t], Unused(t + 1)).alive = tables[t].alive
    <3>1. t + 1 \in Nat \ {0}
      BY ReferencesAssumption DEF Tables
    <3>2. PICK b \in Nat : b = Unused(t + 1)
      BY <3>1, UnusedIsName DEF StoreIInv
    <3> PICK tab \in TableType : tab = tables[t]
      BY <1>1
    <3>3. PICK v : v = Versioned(tab, 1)
      OBVIOUS
    <3>4. /\ v \in TableType /\ v.version = (tab.version + 1) % VersionLimit
          /\ v.alive = tab.alive /\ v.gen = tab.gen /\ v.rows = tab.rows
      BY <3>3, VersionedTable
    <3> PICK c \in Nat : c = IF tab.column THEN b ELSE 0
      OBVIOUS
    <3>5. Shrunk(tab, b) = [v EXCEPT !.buffer = c, !.spare = FALSE]
      BY <3>3 DEF Shrunk
    <3>6. PICK n : n = [v EXCEPT !.buffer = c, !.spare = FALSE]
      OBVIOUS
    <3>7. /\ n \in TableType /\ n.version = v.version /\ n.alive = v.alive /\ n.gen = v.gen
          /\ n.rows = v.rows
      BY <3>4, <3>6 DEF TableType
    <3> QED BY <3>2, <3>4, <3>5, <3>6, <3>7
  <2>2. tables' = [t \in Tables |->
                    IF t \in empty THEN Fini(tables[t])
                    ELSE IF t \in spare THEN Shrunk(tables[t], Unused(t + 1))
                    ELSE tables[t]]
    BY <1>0 DEF Shrinks
  <2>3. \A t \in Tables : /\ Fini(tables[t]) \in TableType
                          /\ Fini(tables[t]).version = 1 /\ ~Fini(tables[t]).alive
                          /\ Fini(tables[t]).gen = tables[t].gen + 1 /\ Fini(tables[t]).rows = <<>>
    BY <1>1, FiniTable
  <2> QED BY <1>1, <1>u, <2>1, <2>2, <2>3
<1>3. fast' \in [0 .. FastSlots - 1 -> 0 .. FastLimit - 1]
  <2>1. \A s \in 0 .. FastSlots - 1 : (fast[s] + added[s]) % FastLimit \in 0 .. FastLimit - 1
    BY <1>0, <1>1, ReferencesAssumption DEF Shrinks
  <2> QED BY <1>0, <2>1 DEF Shrinks
<1>4. Types'
  BY <1>u, <1>2, <1>3 DEF StoreIInv, Types
<1>5. OpInv'
  BY <1>u, <1>1, <1>2 DEF StoreIInv, OpInv, Adding, Emptied, Idle
<1>6. /\ NewAt = NoTable /\ Out = {} /\ NewAt' = NoTable /\ Out' = {} /\ NoTable \notin Tables
      /\ Placed(tables, record, NoTable, op.id, {})
  BY <1>u, SlotInRange DEF NewAt, Out, Adding, Idle, StoreIInv, PlaceInv
<1>7. PlaceInv'
  <2>1. \A t \in Tables : tables'[t].rows = tables[t].rows
    BY <1>u, <1>2
  <2>2. \A t \in Tables : t \notin empty => tables'[t].alive = tables[t].alive
    BY <1>2
  <2>3. RowsNamed(tables', record, NoTable, op'.id, {})
    BY <1>6, <2>1 DEF Placed, RowsNamed
  <2>4. Len(<<>>) = 0
    OBVIOUS
  <2>5. \A t \in empty : 1 .. Len(tables[t].rows) = {}
    BY <1>u, <2>4
  <2>6. RecordsPlaced(tables', record, NoTable, {})
    BY <1>6, <2>1, <2>2, <2>5 DEF Placed, RecordsPlaced
  <2>7. DeadEmpty(tables')
    BY <1>u, <1>6, <2>1, <2>2 DEF Placed, DeadEmpty
  <2> QED BY <1>u, <1>6, <2>3, <2>6, <2>7 DEF PlaceInv, Placed
<1>8. ASSUME NoWrap, CountInv, RefInv
      PROVE  CountInv' /\ RefInv'
  <2>1. \A s \in 0 .. FastSlots - 1 : /\ added[s] \in Nat /\ fast[s] + added[s] <= MaxChanges
                                      /\ fast'[s] = fast[s] + added[s]
    <3>1. ASSUME NEW s \in 0 .. FastSlots - 1
          PROVE  (fast[s] + added[s]) % FastLimit = fast[s] + added[s]
      <4>1. fast[s] + added[s] \in Nat /\ fast[s] + added[s] <= MaxChanges
        BY <1>0, <1>1 DEF Shrinks
      <4> QED BY <4>1, <1>8, ReferencesAssumption DEF NoWrap
    <3> QED BY <1>0, <3>1 DEF Shrinks
  <2>2. \A t \in Tables : /\ Slot(t) \in 0 .. FastSlots - 1
                          /\ t \in empty \cup spare => added[Slot(t)] >= 1
    BY <1>0, SlotInRange DEF Shrinks
  <2>3. \A t \in spare : (tables[t].version + 1) % VersionLimit = tables[t].version + 1
    <3> TAKE t \in spare
    <3>1. fast[Slot(t)] + 1 <= MaxChanges
      BY <1>1, <1>u, <2>1, <2>2, ReferencesAssumption
    <3> QED BY <1>8, <1>u, <3>1, VersionIncremented DEF StoreIInv
  <2>4. \A s \in 0 .. FastSlots - 1 : fast[s] <= fast'[s] /\ fast'[s] <= MaxChanges
    BY <1>1, <2>1
  <2>5. ASSUME NEW t \in Tables
        PROVE  /\ tables'[t].version >= 1 /\ tables'[t].version <= fast'[Slot(t)] + 1
               /\ ~tables'[t].alive => tables'[t].version = 1
    <3>1. /\ tables[t].version >= 1 /\ tables[t].version <= fast[Slot(t)] + 1
          /\ ~tables[t].alive => tables[t].version = 1
      BY <1>8 DEF CountInv
    <3>2. /\ fast[Slot(t)] \in Nat /\ added[Slot(t)] \in Nat
          /\ fast'[Slot(t)] = fast[Slot(t)] + added[Slot(t)] /\ tables[t].version \in Nat
      BY <1>1, <2>1, <2>2
    <3>3. CASE t \in empty
      BY <1>2, <3>2, <3>3
    <3>4. CASE t \in spare
      <4>1. tables'[t].version = tables[t].version + 1 /\ tables'[t].alive /\ added[Slot(t)] >= 1
        BY <1>u, <1>2, <2>2, <2>3, <3>4
      <4> QED BY <3>1, <3>2, <4>1
    <3>5. CASE t \notin empty /\ t \notin spare
      BY <1>2, <3>1, <3>2, <3>5
    <3> QED BY <3>3, <3>4, <3>5
  <2>6. fast'[Slot(Root)] >= 1
    BY <1>1, <1>8, <2>1, SlotInRange DEF CountInv
  <2>7. CountInv'
    BY <1>u, <2>4, <2>5, <2>6 DEF CountInv, Emptied, Idle
  <2>8. \A t \in empty \cup spare : Advanced(t)
    <3> TAKE t \in empty \cup spare
    <3>1. t \in Tables
      BY <1>u
    <3>2. fast[Slot(t)] < fast'[Slot(t)]
      BY <1>1, <2>1, <2>2, <3>1
    <3>3. CASE t \in empty
      BY <1>1, <1>2, <3>1, <3>2, <3>3 DEF Advanced
    <3>4. CASE t \in spare
      BY <1>1, <1>2, <2>3, <3>1, <3>2, <3>4 DEF Advanced
    <3> QED BY <3>3, <3>4
  <2>9. \A t \in Tables : t \notin empty /\ t \notin spare => Same(t)
    BY <1>u, <1>2, <1>6 DEF Same, Settled
  <2>10. \A t \in Tables : Same(t) \/ Advanced(t)
    BY <2>8, <2>9
  <2>11. RefInv'
    BY <1>u, <1>4, <1>8, <2>4, <2>10, RefsKept
  <2> QED BY <2>7, <2>11
<1> QED BY <1>4, <1>5, <1>7, <1>8 DEF Keeps, StoreIInv

-----------------------------------------------------------------------------
(* The operations on references.                                           *)

(* The address of a component is one.                                      *)
LEMMA ComponentType ==
    ASSUME Types, NEW i \in Ids, record[i].table # NoTable
    PROVE  Component(i) \in Nat \X Nat
<1>1. record[i].table \in Tables /\ record[i].row \in Nat
  BY DEF Types, RecordType
<1>2. tables[record[i].table].buffer \in Nat /\ own[i] \in Nat \X Nat
  BY <1>1 DEF Types, TableType
<1> QED BY <1>1, <1>2 DEF Component, Null

(* ecs_ref_init_id.                                                        *)
LEMMA NewRefType ==
    ASSUME Types, NEW i \in Ids, record[i].table # NoTable
    PROVE  NewRef(i) \in RefType /\ NewRef(i).entity \in Ids \X (0 .. MaxGen)
<1> PICK t : t = record[i].table
  OBVIOUS
<1>1. t \in Tables /\ record[i].gen \in 0 .. MaxGen
  BY DEF Types, RecordType
<1>2. /\ tables[t].gen \in Nat /\ tables[t].version \in 0 .. VersionLimit - 1
      /\ fast[Slot(t)] \in 0 .. FastLimit - 1
  BY <1>1, SlotInRange DEF Types, TableType
<1>3. Component(i) \in Nat \X Nat
  BY ComponentType
<1> QED BY <1>1, <1>2, <1>3 DEF NewRef, RefType, Handle, TableId

(* What the inductive invariant says of one reference.                     *)
GoodRef(x) ==
    x # NoRef =>
        /\ Behind(x)
        /\ x.fast = FastOf(x.table_id) => Current(x)
        /\ Current(x) /\ Settled(x.table_id[1]) => Good(x)

(* Between operations, before the old row of a moved entity goes and after *)
(* a table is cleared, the record of every entity names its row.           *)
LEMMA UsesSettled ==
    ASSUME InApplication, app \subseteq {"idle", "on_move", "cleared"}
    PROVE  Out = {} /\ \A t : Settled(t)
BY DEF InApplication, Out, Settled

(* A new reference is good.                                                *)
LEMMA NewRefGood ==
    ASSUME StoreIInv, NEW i \in Ids, record[i].table # NoTable, Out = {}
    PROVE  GoodRef(NewRef(i))
<1> PICK t : t = record[i].table
  OBVIOUS
<1>1. /\ t \in Tables /\ tables[t].gen \in Nat /\ tables[t].version \in Nat
      /\ fast[Slot(t)] \in Nat
  <2>1. record[i] \in RecordType
    BY DEF StoreIInv, Types
  <2>2. t \in Tables
    BY <2>1 DEF RecordType
  <2>3. tables[t] \in TableType
    BY <2>2 DEF StoreIInv, Types
  <2>4. tables[t].gen \in Nat /\ tables[t].version \in 0 .. VersionLimit - 1
    BY <2>3 DEF TableType
  <2> QED BY <2>2, <2>4, SlotInRange, FastNat, ReferencesAssumption
<1> PICK x : x = NewRef(i)
  OBVIOUS
<1>2. /\ x.entity = <<i, record[i].gen>> /\ x.table_id = <<t, tables[t].gen>>
      /\ x.fast = fast[Slot(t)] /\ x.version = tables[t].version /\ x.ptr = Component(i)
  BY DEF NewRef, Handle, TableId
<1>3. x.entity[1] = i /\ x.entity[2] = record[i].gen
      /\ x.table_id[1] = t /\ x.table_id[2] = tables[t].gen
  BY <1>2
<1>4. Behind(x)
  BY <1>1, <1>2, <1>3 DEF Behind
<1>5. Current(x)
  BY <1>2, <1>3 DEF Current, TableId
<1>6. Good(x)
  BY <1>2, <1>3 DEF Good, IsAlive
<1> QED BY <1>4, <1>5, <1>6 DEF GoodRef

(* ecs_ref_update: the reference stays one, of the same entity.            *)
LEMMA UpdatedType ==
    ASSUME Types, NEW x \in RefType, x.entity \in Ids \X (0 .. MaxGen)
    PROVE  /\ Updated(x) \in RefType
           /\ Updated(x).entity \in Ids \X (0 .. MaxGen)
<1> PICK i : i = x.entity[1]
  OBVIOUS
<1>1. i \in Ids /\ x.table_id \in Tables \X Nat
  BY DEF RefType
<1>2. CASE x.fast = FastOf(x.table_id)
  BY <1>2 DEF Updated
<1>3. CASE x.fast # FastOf(x.table_id) /\ ~IsAlive(x.entity)
  <2>1. Updated(x) = [NoRef EXCEPT !.entity = x.entity]
    BY <1>3 DEF Updated
  <2>2. /\ 0 \in 0 .. FastLimit - 1 /\ 0 \in 0 .. VersionLimit - 1
        /\ Null \in Tables \X Nat /\ Null \in Nat \X Nat
    BY SlotInRange, ReferencesAssumption DEF Null, Root
  <2> QED BY <2>1, <2>2 DEF NoRef, RefType
<1>4. CASE x.fast # FastOf(x.table_id) /\ IsAlive(x.entity)
  <2>1. record[i].table # NoTable
    BY <1>4 DEF IsAlive
  <2>2. CASE Updated(x) = NewRef(i)
    BY <1>1, <2>1, <2>2, NewRefType
  <2>3. CASE Updated(x) = [x EXCEPT !.fast = FastOf(x.table_id)]
    <3>1. FastOf(x.table_id) \in 0 .. FastLimit - 1
      BY <1>1, SlotInRange DEF FastOf, Types
    <3> QED BY <2>3, <3>1 DEF RefType
  <2> QED BY <1>4, <2>2, <2>3 DEF Updated
<1> QED BY <1>2, <1>3, <1>4

(* It becomes one that is good, and that gives what ecs_get gives.         *)
LEMMA UpdatedGood ==
    ASSUME StoreIInv, CountInv, InApplication, app \subseteq {"idle", "on_move", "cleared"},
           NEW x \in RefType, x.entity \in Ids \X (0 .. MaxGen), GoodRef(x), x # NoRef
    PROVE  GoodRef(Updated(x)) /\ Updated(x).ptr = Get(x.entity)
<1> PICK i : i = x.entity[1]
  OBVIOUS
<1> PICK t : t = x.table_id[1]
  OBVIOUS
<1>1. /\ i \in Ids /\ t \in Tables /\ x.table_id = <<t, x.table_id[2]>>
      /\ Slot(t) \in 0 .. FastSlots - 1 /\ fast[Slot(t)] \in Nat
  BY SlotInRange, FastNat DEF RefType
<1>2. Out = {} /\ \A u : Settled(u)
  BY UsesSettled
<1>3. /\ Behind(x)
      /\ x.fast = FastOf(x.table_id) => Current(x)
      /\ Current(x) => Good(x)
  BY <1>2 DEF GoodRef
<1>4. CASE x.fast = FastOf(x.table_id)
  <2>1. Updated(x) = x
    BY <1>4 DEF Updated
  <2>2. Good(x)
    BY <1>3, <1>4
  <2> QED BY <2>1, <2>2 DEF Good, Get
<1>5. CASE x.fast # FastOf(x.table_id) /\ ~IsAlive(x.entity)
  <2> PICK y : y = Updated(x)
    OBVIOUS
  <2>1. y = [NoRef EXCEPT !.entity = x.entity]
    BY <1>5 DEF Updated
  <2>2. y.table_id = <<0, 0>> /\ y.fast = 0 /\ y.version = 0 /\ y.ptr = Null
    BY <2>1 DEF NoRef, Null
  <2>3. /\ tables[Root].version \in Nat /\ tables[Root].version >= 1
        /\ fast[Slot(Root)] \in Nat /\ fast[Slot(Root)] >= 1 /\ tables[Root].gen = 0
    <3>1. tables[Root] \in TableType
      BY SlotInRange DEF StoreIInv, Types
    <3>2. tables[Root].version \in 0 .. VersionLimit - 1
      BY <3>1 DEF TableType
    <3>3. tables[Root].version >= 1 /\ fast[Slot(Root)] >= 1 /\ tables[Root].gen = 0
      BY SlotInRange DEF CountInv, StoreIInv, OpInv
    <3> QED BY <3>2, <3>3, SlotInRange, FastNat, ReferencesAssumption
  <2>4. Behind(y)
    BY <2>2, <2>3 DEF Behind, Root
  <2>5. y.fast # FastOf(y.table_id)
    BY <2>2, <2>3 DEF FastOf, Root
  <2>6. ~Current(y)
    BY <2>2, <2>3 DEF Current, Root
  <2> QED BY <1>5, <2>2, <2>4, <2>5, <2>6 DEF GoodRef, Get
<1>6. CASE x.fast # FastOf(x.table_id) /\ IsAlive(x.entity)
  <2>1. record[i].table # NoTable
    BY <1>6 DEF IsAlive
  <2>2. Get(x.entity) = Component(i)
    BY <1>6 DEF Get
  <2>3. CASE Updated(x) = NewRef(i)
    <3>1. GoodRef(NewRef(i))
      BY <1>1, <1>2, <2>1, NewRefGood
    <3>2. NewRef(i).ptr = Component(i)
      BY DEF NewRef
    <3> QED BY <2>2, <2>3, <3>1, <3>2
  <2>4. CASE /\ Updated(x) = [x EXCEPT !.fast = FastOf(x.table_id)]
             /\ x.table_id = TableId(record[i].table) /\ x.version = tables[record[i].table].version
    <3> PICK y : y = Updated(x)
      OBVIOUS
    <3>1. /\ y.entity = x.entity /\ y.table_id = x.table_id /\ y.version = x.version
          /\ y.ptr = x.ptr /\ y.fast = fast[Slot(t)]
      BY <2>4 DEF RefType, FastOf
    <3>2. Current(x)
      BY <1>1, <2>4 DEF Current, TableId
    <3>3. Current(y)
      BY <3>1, <3>2 DEF Current
    <3>4. Behind(y)
      BY <1>1, <1>3, <3>1 DEF Behind
    <3>5. Good(x)
      BY <1>3, <3>2
    <3>6. Good(y)
      BY <3>1, <3>5 DEF Good
    <3> QED BY <2>2, <3>1, <3>3, <3>4, <3>5, <3>6 DEF GoodRef, Good
  <2> QED BY <1>6, <2>3, <2>4 DEF Updated
<1> QED BY <1>4, <1>5, <1>6

(* ecs_ref_init_id and ecs_ref_get_id, while the storage stays as it is.   *)
LEMMA RefStored ==
    ASSUME StoreIInv, NEW r \in Refs, NEW y \in RefType, y.entity \in Ids \X (0 .. MaxGen),
           app \subseteq {"idle", "on_move", "cleared"} /\ CountInv /\ RefInv => GoodRef(y),
           ref' = [ref EXCEPT ![r] = y], app' = app,
           tables' = tables, fast' = fast, record' = record, own' = own, op' = op
    PROVE  Keeps
<1>1. /\ ref' \in [Refs -> RefType] /\ own' \in [Ids -> Nat \X Nat]
      /\ \A s \in Refs : ref'[s] # NoRef => ref'[s].entity \in Ids \X (0 .. MaxGen)
      /\ \A s \in Refs : ref'[s] = IF s = r THEN y ELSE ref[s]
  BY DEF StoreIInv, Types
<1>2. StoreIInv' /\ (CountInv => CountInv')
  BY <1>1, StoreSame
<1>3. ASSUME CountInv, RefInv, app \subseteq {"idle", "on_move", "cleared"}
      PROVE  \A s \in Refs : GoodRef(ref'[s])
  BY <1>1, <1>3 DEF RefInv, GoodRef
<1>4. ASSUME NEW s \in Refs, GoodRef(ref'[s])
      PROVE  ref'[s] # NoRef =>
                /\ Behind(ref[s])'
                /\ ref'[s].fast = FastOf(ref[s].table_id)' => Current(ref[s])'
                /\ Current(ref[s])' /\ Settled(ref[s].table_id[1])' => Good(ref[s])'
  <2> PICK x : x = ref'[s]
    OBVIOUS
  <2> PICK t : t = x.table_id[1]
    OBVIOUS
  <2>1. /\ Out' = Out /\ Component(x.entity[1])' = Component(x.entity[1])
        /\ TableId(t)' = TableId(t) /\ Settled(t)' = Settled(t)
        /\ FastOf(x.table_id)' = FastOf(x.table_id)
        /\ IsAlive(x.entity)' = IsAlive(x.entity)
    BY DEF Out, Component, TableId, Settled, FastOf, IsAlive
  <2> HIDE DEF Out, Component, TableId, Settled, FastOf, IsAlive
  <2>2. Behind(x)' = Behind(x) /\ Current(x)' = Current(x) /\ Good(x)' = Good(x)
    BY <2>1 DEF Behind, Current, Good
  <2>3. x # NoRef =>
            /\ Behind(x)'
            /\ x.fast = FastOf(x.table_id)' => Current(x)'
            /\ Current(x)' /\ Settled(x.table_id[1])' => Good(x)'
    BY <1>4, <2>1, <2>2 DEF GoodRef
  <2>4. Behind(ref[s])' = Behind(x)'
    BY DEF Behind
  <2>5. Current(ref[s])' = Current(x)'
    BY DEF Current, TableId
  <2>6. Good(ref[s])' = Good(x)'
    BY DEF Good, IsAlive, Component
  <2>7. FastOf(ref[s].table_id)' = FastOf(x.table_id)' /\ Settled(ref[s].table_id[1])' = Settled(x.table_id[1])'
    BY DEF FastOf, Settled
  <2> QED BY <2>3, <2>4, <2>5, <2>6, <2>7
<1>5. CountInv /\ RefInv => RefInv'
  BY <1>3, <1>4 DEF RefInv
<1> QED BY <1>2, <1>5 DEF Keeps

(* ecs_ref_init_id stores a new reference.                                 *)
LEMMA RefInitKeeps ==
    ASSUME StoreIInv, NEW r \in Refs, NEW i \in Ids, RefInit(r, i), app' = app
    PROVE  Keeps
<1>1. /\ InApplication /\ record[i].table # NoTable /\ ref' = [ref EXCEPT ![r] = NewRef(i)]
      /\ tables' = tables /\ fast' = fast /\ record' = record /\ own' = own /\ op' = op
  BY DEF RefInit
<1> PICK y : y = NewRef(i)
  OBVIOUS
<1>2. y \in RefType /\ y.entity \in Ids \X (0 .. MaxGen)
  BY <1>1, NewRefType DEF StoreIInv
<1>3. app \subseteq {"idle", "on_move", "cleared"} => GoodRef(y)
  BY <1>1, UsesSettled, NewRefGood
<1> QED BY <1>1, <1>2, <1>3, RefStored

(* ecs_ref_get_id updates the reference it is called with.                 *)
LEMMA RefGetKeeps ==
    ASSUME StoreIInv, NEW r \in Refs, RefGet(r), app' = app
    PROVE  Keeps
<1>1. /\ InApplication /\ ref[r] # NoRef /\ ref' = [ref EXCEPT ![r] = Updated(ref[r])]
      /\ tables' = tables /\ fast' = fast /\ record' = record /\ own' = own /\ op' = op
  BY DEF RefGet
<1> PICK x \in RefType : x = ref[r]
  BY DEF StoreIInv, Types
<1> PICK y : y = Updated(x)
  OBVIOUS
<1>2. x.entity \in Ids \X (0 .. MaxGen) /\ x # NoRef
  BY <1>1 DEF StoreIInv, Types
<1>3. y \in RefType /\ y.entity \in Ids \X (0 .. MaxGen)
  BY <1>2, UpdatedType DEF StoreIInv
<1>4. ASSUME app \subseteq {"idle", "on_move", "cleared"}, CountInv, RefInv PROVE GoodRef(y)
  <2>1. GoodRef(x)
    BY <1>4 DEF RefInv, GoodRef
  <2> QED BY <1>1, <1>2, <1>4, <2>1, UpdatedGood
<1> QED BY <1>1, <1>3, <1>4, RefStored

-----------------------------------------------------------------------------
(* Before the first operation the root table is there, and nothing else.   *)
LEMMA InitKeeps ==
    ASSUME Init
    PROVE  IInv
<1>1. \A t \in Tables : /\ tables[t] \in TableType /\ tables[t].version = 1
                        /\ tables[t].gen = 0 /\ tables[t].rows = <<>>
                        /\ tables[t].alive = (t = Root)
  <2>1. EmptyTable(0, FALSE) \in TableType /\ EmptyTable(0, FALSE).version = 1
        /\ EmptyTable(0, FALSE).gen = 0 /\ EmptyTable(0, FALSE).rows = <<>>
    BY NewTable
  <2> PICK e : e = EmptyTable(0, FALSE)
    OBVIOUS
  <2>2. \A t \in Tables : tables[t] = [e EXCEPT !.alive = (t = Root)]
    BY DEF Init
  <2> TAKE t \in Tables
  <2> PICK b \in BOOLEAN : b = (t = Root)
    OBVIOUS
  <2> PICK tab : tab = [e EXCEPT !.alive = b]
    OBVIOUS
  <2>3. /\ tab \in TableType /\ tab.version = 1 /\ tab.gen = 0 /\ tab.rows = <<>>
        /\ tab.alive = b
    BY <2>1 DEF TableType
  <2>4. tables[t] = tab
    BY <2>2
  <2> QED BY <2>3, <2>4
<1>2. Root \in Tables /\ NoTable \notin Tables /\ Slot(Root) = 0 /\ 0 \in 0 .. FastSlots - 1
  BY SlotInRange
<1>3. /\ fast \in [0 .. FastSlots - 1 -> 0 .. FastLimit - 1]
      /\ fast[0] = 1 /\ \A s \in 0 .. FastSlots - 1 : fast[s] \in {0, 1}
  BY <1>2, ReferencesAssumption DEF Init, Root
<1>4. /\ op = Idle /\ ref = [r \in Refs |-> NoRef] /\ app \in Applications
      /\ own \in [Ids -> Nat \X Nat]
  BY DEF Init, Null
<1>5. record \in [Ids -> RecordType] /\ \A i \in Ids : record[i].table = NoTable
  <2>1. 0 \in 0 .. MaxGen
    BY ReferencesAssumption
  <2>2. [gen |-> 0, table |-> NoTable, row |-> 0] \in RecordType
    BY <2>1 DEF RecordType
  <2> QED BY <2>2 DEF Init
<1>6. NoRef \in RefType
  BY <1>2, ReferencesAssumption DEF NoRef, RefType, Null, Root
<1>7. Types
  <2>1. op \in [kind : Windows, id : Ids \cup {Root}, table : Tables]
    BY <1>2, <1>4 DEF Idle, Windows
  <2>2. tables \in [Tables -> TableType]
    BY <1>1 DEF Init
  <2> QED BY <1>3, <1>4, <1>5, <1>6, <2>1, <2>2 DEF Types
<1>8. OpInv
  BY <1>1, <1>2, <1>4 DEF OpInv, Adding, Emptied, Idle
<1>9. PlaceInv
  <2>1. NewAt = NoTable
    BY <1>4 DEF NewAt, Adding, Idle
  <2>2. Len(<<>>) = 0
    OBVIOUS
  <2>3. \A t \in Tables : 1 .. Len(tables[t].rows) = {}
    BY <1>1, <2>2
  <2> QED BY <1>1, <1>5, <2>1, <2>3 DEF PlaceInv, Placed, RowsNamed, RecordsPlaced, DeadEmpty
<1>10. CountInv
  <2>1. \A s \in 0 .. FastSlots - 1 : fast[s] \in Nat /\ fast[s] <= MaxChanges
    BY <1>3, ReferencesAssumption
  <2>2. \A t \in Tables : tables[t].version <= fast[Slot(t)] + 1
    <3> TAKE t \in Tables
    <3>1. Slot(t) \in 0 .. FastSlots - 1
      BY SlotInRange
    <3>2. fast[Slot(t)] \in Nat
      BY <2>1, <3>1
    <3> QED BY <1>1, <3>2
  <2>3. op.kind = "idle"
    BY <1>4 DEF Idle
  <2> QED BY <1>1, <1>2, <1>3, <2>1, <2>2, <2>3 DEF CountInv, Emptied
<1>11. RefInv
  BY <1>4 DEF RefInv
<1> QED BY <1>7, <1>8, <1>9, <1>10, <1>11 DEF IInv, StoreIInv

(* Every step keeps the invariant.                                         *)
LEMMA NextKeeps ==
    ASSUME StoreIInv, [Next]_vars
    PROVE  Keeps
<1>1. CASE UNCHANGED vars
  <2>1. /\ tables' = tables /\ fast' = fast /\ record' = record /\ own' = own
        /\ ref' = ref /\ op' = op /\ app' = app
    BY <1>1 DEF vars
  <2>2. /\ ref' \in [Refs -> RefType] /\ own' \in [Ids -> Nat \X Nat]
        /\ \A r \in Refs : ref'[r] # NoRef => ref'[r].entity \in Ids \X (0 .. MaxGen)
    BY <2>1 DEF StoreIInv, Types
  <2>3. StoreIInv' /\ (CountInv => CountInv')
    BY <2>1, <2>2, StoreSame
  <2>4. \A t \in Tables : Same(t)
    BY <2>1 DEF Same, Settled, Out
  <2>5. \A s \in 0 .. FastSlots - 1 : fast[s] <= fast'[s]
    BY <2>1, FastNat
  <2>6. CountInv /\ RefInv => RefInv'
    BY <2>1, <2>3, <2>4, <2>5, RefsKept DEF StoreIInv
  <2> QED BY <2>3, <2>6 DEF Keeps
<1>2. CASE Next
  <2>0. app' = app
    BY <1>2 DEF Next
  <2>1. ASSUME NEW i \in Ids, NEW t \in Tables, NEW m \in Memory(t), NewAppend(i, t, m)
        PROVE  Keeps
    BY <2>0, <2>1, NewAppendKeeps
  <2>2. ASSUME NEW i \in Ids, NEW t \in Tables, NEW m \in Memory(t), MoveAppend(i, t, m)
        PROVE  Keeps
    BY <2>0, <2>2, MoveAppendKeeps
  <2>3. ASSUME NewDone PROVE Keeps
    BY <2>0, <2>3, NewDoneKeeps
  <2>4. ASSUME MoveDone PROVE Keeps
    BY <2>0, <2>4, MoveDoneKeeps
  <2>5. ASSUME DeleteDone PROVE Keeps
    BY <2>0, <2>5, DeleteDoneKeeps
  <2>6. ASSUME NEW i \in Ids, DeleteRow(i) PROVE Keeps
    BY <2>0, <2>6, DeleteRowKeeps
  <2>7. ASSUME NEW i \in Ids, SparseAdd(i) \/ SparseRemove(i) PROVE Keeps
    BY <2>0, <2>7, SparseKeeps
  <2>8. ASSUME NEW i \in Ids, NEW g \in 0 .. MaxGen, SetVersion(i, g) PROVE Keeps
    BY <2>0, <2>8, SetVersionKeeps
  <2>9. ASSUME NEW i \in Ids, NEW g \in 0 .. MaxGen, NEW m \in Memory(Root), MakeAlive(i, g, m)
        PROVE  Keeps
    BY <2>0, <2>9, MakeAliveKeeps
  <2>10. ASSUME NEW t \in Tables, NEW column \in BOOLEAN, CreateTable(t, column) PROVE Keeps
    BY <2>0, <2>10, CreateTableKeeps
  <2>11. ASSUME NEW t \in Tables, ClearTable(t) PROVE Keeps
    BY <2>0, <2>11, ClearTableKeeps
  <2>12. ASSUME NEW t \in Tables, DeleteEmptyTable(t) PROVE Keeps
    BY <2>0, <2>12, DeleteEmptyTableKeeps
  <2>13. ASSUME NEW t \in Tables, NEW d \in Tables, MergeTable(t, d) PROVE Keeps
    BY <2>0, <2>13, MergeTableKeeps
  <2>14. ASSUME ReleaseTable PROVE Keeps
    BY <2>0, <2>14, ReleaseTableKeeps
  <2>15. ASSUME Shrink PROVE Keeps
    BY <2>0, <2>15, ShrinkKeeps
  <2>16. ASSUME NEW t \in Tables, NEW j \in DOMAIN tables[t].rows,
                NEW k \in DOMAIN tables[t].rows, SwapRows(t, j, k)
         PROVE  Keeps
    BY <2>0, <2>16, SwapRowsKeeps
  <2>17. ASSUME NEW r \in Refs, RefGet(r) PROVE Keeps
    BY <2>0, <2>17, RefGetKeeps
  <2>18. ASSUME NEW r \in Refs, NEW i \in Ids, RefInit(r, i) PROVE Keeps
    BY <2>0, <2>18, RefInitKeeps
  <2>19. EntityStep => Keeps
    BY <2>1, <2>2, <2>3, <2>4, <2>5, <2>6, <2>7, <2>8, <2>9 DEF EntityStep
  <2>20. TableStep => Keeps
    BY <2>10, <2>11, <2>12, <2>13, <2>14, <2>15, <2>16 DEF TableStep
  <2>21. RefStep => Keeps
    BY <2>17, <2>18 DEF RefStep
  <2> QED BY <1>2, <2>19, <2>20, <2>21 DEF Next
<1> QED BY <1>1, <1>2

(* Between operations the records agree with the rows, so the storage is   *)
(* well-formed.                                                            *)
LEMMA PlacedMatches ==
    ASSUME StoreIInv
    PROVE  StoreInv
<1>1. TypeOK
  <2>1. \A r \in Refs : ref[r] \in RefType
    BY DEF StoreIInv, Types
  <2> QED BY <2>1 DEF TypeOK, StoreIInv, Types, TableType, RecordType, RefType
<1>2. RecordsMatchRows
  <2> SUFFICES ASSUME op = Idle
               PROVE  /\ \A t \in Tables : \A k \in DOMAIN tables[t].rows :
                            /\ record[tables[t].rows[k]].table = t
                            /\ record[tables[t].rows[k]].row = k
                      /\ \A i \in Ids : record[i].table # NoTable =>
                            /\ tables[record[i].table].alive
                            /\ record[i].row \in DOMAIN tables[record[i].table].rows
    BY DEF RecordsMatchRows
  <2>1. NewAt = NoTable /\ Out = {} /\ NoTable \notin Tables
    BY SlotInRange DEF NewAt, Out, Adding, Idle
  <2>2. \A t \in Tables : DOMAIN tables[t].rows = 1 .. Len(tables[t].rows)
    <3>1. \A t \in Tables : tables[t] \in TableType
      BY DEF StoreIInv, Types
    <3> QED BY <3>1 DEF TableType
  <2>3. RowsNamed(tables, record, NoTable, op.id, {}) /\ RecordsPlaced(tables, record, NoTable, {})
    BY <2>1 DEF StoreIInv, PlaceInv, Placed
  <2> QED BY <2>1, <2>2, <2>3 DEF RowsNamed, RecordsPlaced
<1> QED BY <1>1, <1>2 DEF StoreInv

(* Between operations every entity is at the row of the table that its     *)
(* record names, and nowhere else, for any number of tables, slots,        *)
(* entities and references and whatever the application does in callbacks; *)
(* also once counters have wrapped (flecs_table_delete, flecs_table_swap,  *)
(* flecs_table_merge).                                                     *)
THEOREM StoreCorrect == Spec => []StoreInv
<1>1. Init => StoreIInv
  BY InitKeeps DEF IInv
<1>2. StoreIInv /\ [Next]_vars => StoreIInv'
  BY NextKeeps DEF Keeps
<1>3. StoreIInv => StoreInv
  BY PlacedMatches
<1> QED BY <1>1, <1>2, <1>3, PTL DEF Spec

(* A reference that is fetched gives what ecs_get gives, for an            *)
(* application that uses references between operations, when a component   *)
(* is moved and when a table is cleared, as long as no counter wraps       *)
(* (ecs_ref_get_id, ecs_ref_update).                                       *)
THEOREM RefGetCorrect ==
    ASSUME NoWrap
    PROVE  Spec => []RefGetExact
<1>1. Init => IInv
  BY InitKeeps
<1>2. IInv /\ [Next]_vars => IInv'
  BY NextKeeps DEF Keeps, IInv
<1>3. IInv => RefGetExact
  <2> SUFFICES ASSUME IInv, app \subseteq {"idle", "on_move", "cleared"}, InApplication,
                      NEW r \in Refs, ref[r] # NoRef
               PROVE  Updated(ref[r]).ptr = Get(ref[r].entity)
    BY DEF RefGetExact, RefGetAlways
  <2>1. ref[r] \in RefType /\ ref[r].entity \in Ids \X (0 .. MaxGen)
    BY DEF IInv, StoreIInv, Types
  <2>2. GoodRef(ref[r])
    BY DEF IInv, RefInv, GoodRef
  <2> QED BY <2>1, <2>2, UpdatedGood DEF IInv
<1> QED BY <1>1, <1>2, <1>3, PTL DEF Spec
=============================================================================
