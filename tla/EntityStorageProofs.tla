------------------------ MODULE EntityStorageProofs ------------------------
(***************************************************************************)
(* Proofs about the archetype storage, for any ids, generations,           *)
(* components and values. The operations of the entity index enter only    *)
(* through what they do to the set of alive handles, which the lemmas of   *)
(* EntityIndexProofs give; the operations on tables are lemmas about a     *)
(* store and the set of entities it holds.                                 *)
(***************************************************************************)
EXTENDS EntityStorage, SequenceTheorems, WellFoundedInduction, TLAPS

IXP == INSTANCE EntityIndexProofs WITH dead <- {}

(* The representation invariant of the index.                              *)
Good(ix) == ix \in IX!IndexType /\ IX!Linked(ix) /\ IX!Bounded(ix)

-----------------------------------------------------------------------------
(* What the operations of the index do to the set of alive handles.        *)

(* The handles of the index are those its proofs are about.                *)
LEMMA SameSets ==
    /\ IX!Ids = IXP!Ids /\ IX!EntityIds = IXP!EntityIds /\ IX!Entities = IXP!Entities
BY DEF IX!Entities, IXP!Entities, IX!EntityIds, IXP!EntityIds, IX!Ids, IXP!Ids,
       IX!Gens, IXP!Gens

(* So are its queries.                                                     *)
LEMMA SameQueries ==
    ASSUME NEW ix
    PROVE  /\ Good(ix) <=> IXP!Good(ix)
           /\ \A id : /\ IX!Exists(ix, id) <=> IXP!Exists(ix, id)
                      /\ IX!IdIsAlive(ix, id) <=> IXP!IdIsAlive(ix, id)
                      /\ IX!Entry(ix, id) = IXP!Entry(ix, id)
<1>1. Good(ix) <=> IXP!Good(ix)
  BY DEF Good, IXP!Good, IX!IndexType, IXP!IndexType, IX!Linked, IXP!Linked, IX!Bounded,
         IXP!Bounded, IX!Exists, IXP!Exists, IX!Entry, IXP!Entry, IX!Count, IXP!Count,
         IX!Ids, IXP!Ids, IX!Handles, IXP!Handles, IX!Gens, IXP!Gens
<1> QED BY <1>1 DEF IX!Exists, IXP!Exists, IX!IdIsAlive, IXP!IdIsAlive, IX!Entry, IXP!Entry

(* And its operations.                                                     *)
LEMMA SameOperations ==
    ASSUME NEW ix, NEW e
    PROVE  /\ IX!Ensure(ix, e) = IXP!Ensure(ix, e)
           /\ IX!Remove(ix, e) = IXP!Remove(ix, e)
           /\ IX!MakeAlive(ix, e) = IXP!MakeAlive(ix, e)
           /\ IX!GenerationInc(e) = IXP!GenerationInc(e)
<1>1. IX!Ensure(ix, e) = IXP!Ensure(ix, e)
  BY DEF IX!Ensure, IXP!Ensure, IX!IdIsAlive, IXP!IdIsAlive, IX!Exists, IXP!Exists,
         IX!Swap2, IXP!Swap2, IX!MaxOf, IXP!MaxOf
<1>2. IX!GenerationInc(e) = IXP!GenerationInc(e)
  BY DEF IX!GenerationInc, IXP!GenerationInc
<1>3. IX!Remove(ix, e) = IXP!Remove(ix, e)
  BY <1>2 DEF IX!Remove, IXP!Remove, IX!Swap2, IXP!Swap2
<1>4. IX!MakeAlive(ix, e) = IXP!MakeAlive(ix, e)
  BY DEF IX!MakeAlive, IXP!MakeAlive, IX!Exists, IXP!Exists
<1> QED BY <1>1, <1>2, <1>3, <1>4

(* And the creation of ids.                                                *)
LEMMA SameCreation ==
    ASSUME NEW ix, NEW n
    PROVE  /\ IX!NewIds(ix, n) = IXP!NewIds(ix, n)
           /\ IX!FreshNeeded(ix, n) = IXP!FreshNeeded(ix, n)
           /\ IX!NewId(ix) = IXP!NewId(ix)
           /\ IX!CanRecycle(ix) <=> IXP!CanRecycle(ix)
<1>1. IX!FreshNeeded(ix, n) = IXP!FreshNeeded(ix, n)
  BY DEF IX!FreshNeeded, IXP!FreshNeeded, IX!MaxOf, IXP!MaxOf, IX!Count, IXP!Count
<1>2. IX!NewIds(ix, n) = IXP!NewIds(ix, n)
  BY <1>1 DEF IX!NewIds, IXP!NewIds, IX!Ids, IXP!Ids
<1>3. IX!CanRecycle(ix) <=> IXP!CanRecycle(ix)
  BY DEF IX!CanRecycle, IXP!CanRecycle, IX!Count, IXP!Count
<1>4. IX!NewId(ix) = IXP!NewId(ix)
  BY <1>3 DEF IX!NewId, IXP!NewId, IX!FreshId, IXP!FreshId
<1> QED BY <1>1, <1>2, <1>3, <1>4

(* Alive ids and alive handles correspond.                                 *)
LEMMA AliveFacts ==
    ASSUME NEW ix, Good(ix)
    PROVE  /\ \A id \in IX!Ids : IX!IdIsAlive(ix, id) =>
                 /\ id \in IX!EntityIds
                 /\ IX!Entry(ix, id) \in AliveEntities(ix)
                 /\ IX!Entry(ix, id).id = id
           /\ \A e \in AliveEntities(ix) :
                 /\ e \in IX!Entities /\ e.id \in IX!EntityIds /\ e.id \in IX!Ids
                 /\ IX!IdIsAlive(ix, e.id)
                 /\ IX!Entry(ix, e.id) = e
           /\ \A e \in IX!Entities : IX!IsAlive(ix, e) <=> e \in AliveEntities(ix)
<1>0. IXP!Good(ix)
  BY SameQueries
<1>1. ASSUME NEW id \in IX!Ids, IX!IdIsAlive(ix, id)
      PROVE  /\ id \in IX!EntityIds /\ IX!Entry(ix, id).id = id
             /\ IX!Entry(ix, id) \in IX!Entities
             /\ IX!Entry(ix, id) \in AliveEntities(ix)
  <2>1. ix.record[id] # 0 /\ ix.dense \in Seq(IX!Handles) /\ ix.record \in [IX!Ids -> Nat]
    BY <1>1 DEF IX!IdIsAlive, IX!Exists, Good, IX!IndexType
  <2>2. ix.record[id] \in 1..Len(ix.dense) /\ IX!Entry(ix, id).id = id /\ id # 0
    BY <2>1 DEF Good, IX!Linked, IX!Bounded, IX!Exists
  <2>3. IX!Entry(ix, id) \in IX!Handles
    BY <2>1, <2>2, ElementOfSeq DEF IX!Entry
  <2>4. IX!Entry(ix, id) \in IX!Entities /\ id \in IX!EntityIds
    BY <2>2, <2>3 DEF IX!Handles, IX!Entities, IX!EntityIds
  <2> QED BY <1>1, <2>2, <2>4 DEF AliveEntities, AliveIds
<1>2. ASSUME NEW e \in AliveEntities(ix)
      PROVE  /\ e \in IX!Entities /\ e.id \in IX!EntityIds /\ e.id \in IX!Ids
             /\ IX!IdIsAlive(ix, e.id) /\ IX!Entry(ix, e.id) = e
  <2>1. PICK id \in IX!EntityIds : IX!IdIsAlive(ix, id) /\ e = IX!Entry(ix, id)
    BY DEF AliveEntities, AliveIds
  <2>2. id \in IX!Ids
    BY DEF IX!EntityIds
  <2> QED BY <1>1, <2>1, <2>2
<1>3. \A e \in IX!Entities : e.id \in IX!Ids
  BY DEF IX!Entities, IX!EntityIds
<1> QED BY <1>1, <1>2, <1>3 DEF IX!IsAlive

(* An operation that leaves all ids but one alone.                         *)
LEMMA OneIdChanges ==
    ASSUME NEW ix, NEW iy, NEW k, Good(ix), Good(iy),
           \A id \in IX!Ids : id # k =>
              /\ IX!IdIsAlive(iy, id) <=> IX!IdIsAlive(ix, id)
              /\ IX!IdIsAlive(ix, id) => IX!Entry(iy, id) = IX!Entry(ix, id),
           k \in IX!Ids
    PROVE  /\ IX!IdIsAlive(iy, k) =>
                 AliveEntities(iy) = {f \in AliveEntities(ix) : f.id # k} \cup {IX!Entry(iy, k)}
           /\ ~IX!IdIsAlive(iy, k) =>
                 AliveEntities(iy) = {f \in AliveEntities(ix) : f.id # k}
<1>1. \A f : f \in AliveEntities(iy) /\ f.id # k => f \in AliveEntities(ix)
  BY AliveFacts
<1>2. \A f \in AliveEntities(ix) : f.id # k => f \in AliveEntities(iy)
  BY AliveFacts
<1>3. \A f \in AliveEntities(iy) : f.id = k => IX!IdIsAlive(iy, k) /\ f = IX!Entry(iy, k)
  BY AliveFacts
<1>4. IX!IdIsAlive(iy, k) => IX!Entry(iy, k) \in AliveEntities(iy)
  BY AliveFacts
<1> QED BY <1>1, <1>2, <1>3, <1>4

(* flecs_entity_index_ensure adds a handle.                                *)
LEMMA EnsureAdds ==
    ASSUME NEW ix, Good(ix), NEW e \in IX!Entities, ~IX!IdIsAlive(ix, e.id)
    PROVE  /\ Good(IX!Ensure(ix, e))
           /\ AliveEntities(IX!Ensure(ix, e)) = AliveEntities(ix) \cup {e}
           /\ \A f \in AliveEntities(ix) : f.id # e.id
<1> DEFINE iy == IX!Ensure(ix, e)
<1>0. e.id \in IX!Ids
  BY DEF IX!Entities, IX!EntityIds
<1>1. IXP!Good(ix) /\ e \in IXP!Entities /\ ~IXP!IdIsAlive(ix, e.id)
  BY SameSets, SameQueries
<1>2. /\ IXP!Good(iy) /\ IXP!IdIsAlive(iy, e.id) /\ IXP!Entry(iy, e.id) = e
      /\ \A id \in IXP!Ids : id # e.id => IXP!SameAt(ix, iy, id)
  BY <1>1, SameOperations, IXP!EnsureEffect, MaxIdAssumption, GenCountAssumption
<1>3. /\ Good(iy) /\ IX!IdIsAlive(iy, e.id) /\ IX!Entry(iy, e.id) = e
      /\ \A id \in IX!Ids : id # e.id =>
              /\ IX!IdIsAlive(iy, id) <=> IX!IdIsAlive(ix, id)
              /\ IX!IdIsAlive(ix, id) => IX!Entry(iy, id) = IX!Entry(ix, id)
  <2> HIDE DEF iy
  <2> QED BY <1>2, SameSets, SameQueries DEF IXP!SameAt, IXP!IdIsAlive
<1>4. \A f \in AliveEntities(ix) : f.id # e.id
  BY AliveFacts
<1>5. AliveEntities(iy) = {f \in AliveEntities(ix) : f.id # e.id} \cup {e}
  <2> HIDE DEF iy
  <2> QED BY <1>0, <1>3, OneIdChanges
<1> QED BY <1>3, <1>4, <1>5

(* flecs_entity_index_remove takes a handle away.                          *)
LEMMA RemoveTakes ==
    ASSUME NEW ix, Good(ix), NEW e \in AliveEntities(ix)
    PROVE  /\ Good(IX!Remove(ix, e))
           /\ AliveEntities(IX!Remove(ix, e)) = AliveEntities(ix) \ {e}
<1> DEFINE iy == IX!Remove(ix, e)
<1>0. e \in IX!Entities /\ e.id \in IX!Ids /\ IX!IdIsAlive(ix, e.id) /\ IX!Entry(ix, e.id) = e
  BY AliveFacts
<1>1. IXP!Good(ix) /\ e \in IXP!Entities /\ IXP!IsAlive(ix, e)
  BY <1>0, SameSets, SameQueries DEF IXP!IsAlive
<1>2. /\ IXP!Good(iy) /\ ~IXP!IdIsAlive(iy, e.id)
      /\ \A id \in IXP!Ids : id # e.id => IXP!SameAt(ix, iy, id)
  BY <1>1, SameOperations, IXP!RemoveEffect, MaxIdAssumption, GenCountAssumption
<1>3. /\ Good(iy) /\ ~IX!IdIsAlive(iy, e.id)
      /\ \A id \in IX!Ids : id # e.id =>
              /\ IX!IdIsAlive(iy, id) <=> IX!IdIsAlive(ix, id)
              /\ IX!IdIsAlive(ix, id) => IX!Entry(iy, id) = IX!Entry(ix, id)
  <2> HIDE DEF iy
  <2> QED BY <1>2, SameSets, SameQueries DEF IXP!SameAt, IXP!IdIsAlive
<1>4. \A f \in AliveEntities(ix) : f.id = e.id => f = e
  BY <1>0, AliveFacts
<1>5. AliveEntities(iy) = {f \in AliveEntities(ix) : f.id # e.id}
  <2> HIDE DEF iy
  <2> QED BY <1>0, <1>3, OneIdChanges
<1> QED BY <1>3, <1>4, <1>5

(* flecs_entity_index_make_alive replaces the handle of an alive id, and   *)
(* changes no handle if the id is dead.                                    *)
LEMMA MakeAliveReplaces ==
    ASSUME NEW ix, Good(ix), NEW e \in IX!Entities, IX!Exists(ix, e.id)
    PROVE  LET iy == IX!MakeAlive(ix, e)
           IN  /\ Good(iy)
               /\ IX!IdIsAlive(iy, e.id) <=> IX!IdIsAlive(ix, e.id)
               /\ IX!IdIsAlive(ix, e.id) =>
                     AliveEntities(iy) = {f \in AliveEntities(ix) : f.id # e.id} \cup {e}
               /\ ~IX!IdIsAlive(ix, e.id) => AliveEntities(iy) = AliveEntities(ix)
<1> DEFINE iy == IX!MakeAlive(ix, e)
<1>0. e.id \in IX!Ids
  BY DEF IX!Entities, IX!EntityIds
<1>1. IXP!Good(ix) /\ e \in IXP!Entities /\ IXP!Exists(ix, e.id)
  BY SameSets, SameQueries
<1>2. /\ IXP!Good(iy) /\ (IXP!IdIsAlive(iy, e.id) <=> IXP!IdIsAlive(ix, e.id))
      /\ IXP!Entry(iy, e.id) = e
      /\ \A id \in IXP!Ids : id # e.id => IXP!SameAt(ix, iy, id)
  BY <1>1, SameOperations, IXP!MakeAliveEffect, MaxIdAssumption, GenCountAssumption
<1>3. /\ Good(iy) /\ (IX!IdIsAlive(iy, e.id) <=> IX!IdIsAlive(ix, e.id))
      /\ IX!Entry(iy, e.id) = e
      /\ \A id \in IX!Ids : id # e.id =>
              /\ IX!IdIsAlive(iy, id) <=> IX!IdIsAlive(ix, id)
              /\ IX!IdIsAlive(ix, id) => IX!Entry(iy, id) = IX!Entry(ix, id)
  <2> HIDE DEF iy
  <2> QED BY <1>2, SameSets, SameQueries DEF IXP!SameAt, IXP!IdIsAlive
<1>4. ~IX!IdIsAlive(ix, e.id) => \A f \in AliveEntities(ix) : f.id # e.id
  BY AliveFacts
<1>5. /\ IX!IdIsAlive(iy, e.id) =>
            AliveEntities(iy) = {f \in AliveEntities(ix) : f.id # e.id} \cup {e}
      /\ ~IX!IdIsAlive(iy, e.id) =>
            AliveEntities(iy) = {f \in AliveEntities(ix) : f.id # e.id}
  <2> HIDE DEF iy
  <2> QED BY <1>0, <1>3, OneIdChanges
<1> QED BY <1>3, <1>4, <1>5

(* The handles that flecs_entity_index_new_ids returns.                    *)
Block(ix, iy) == SubSeq(iy.dense, ix.alive_count, iy.alive_count - 1)

(* flecs_entity_index_new_ids adds a block of handles with ids that were   *)
(* not alive, all different.                                               *)
LEMMA NewIdsAdd ==
    ASSUME NEW ix, Good(ix), NEW n \in Nat \ {0},
           ix.max_id + IX!FreshNeeded(ix, n) <= MaxId
    PROVE  LET iy == IX!NewIds(ix, n)
               es == Block(ix, iy)
           IN  /\ Good(iy)
               /\ es \in Seq(IX!Entities) /\ Len(es) = n
               /\ \A k \in 1..n : es[k] = iy.dense[ix.alive_count + k - 1]
               /\ \A j, k \in 1..n : es[j].id = es[k].id => j = k
               /\ \A k \in 1..n : \A f \in AliveEntities(ix) : f.id # es[k].id
               /\ AliveEntities(iy) = AliveEntities(ix) \cup {es[k] : k \in 1..n}
<1> DEFINE iy == IX!NewIds(ix, n)
           es == Block(ix, iy)
           a  == ix.alive_count
<1>1. IXP!Good(ix) /\ ix.max_id + IXP!FreshNeeded(ix, n) <= MaxId
  BY SameQueries, SameCreation
<1>2. /\ IXP!Good(iy)
      /\ \A id \in IXP!Ids :
           /\ IXP!Exists(ix, id) => IXP!Exists(iy, id) /\ IXP!Entry(iy, id) = IXP!Entry(ix, id)
           /\ id \in IXP!Created(ix, iy, n) => id # 0 /\ ~IXP!IdIsAlive(ix, id)
           /\ IXP!IdIsAlive(iy, id) <=>
                 (IXP!IdIsAlive(ix, id) \/ id \in IXP!Created(ix, iy, n))
  BY <1>1, SameCreation, IXP!NewIdsEffect, MaxIdAssumption, GenCountAssumption
<1>3. /\ Good(iy)
      /\ \A id \in IX!Ids :
           /\ IX!IdIsAlive(ix, id) => IX!Entry(iy, id) = IX!Entry(ix, id)
           /\ id \in IXP!Created(ix, iy, n) => id # 0 /\ ~IX!IdIsAlive(ix, id)
           /\ IX!IdIsAlive(iy, id) <=>
                 (IX!IdIsAlive(ix, id) \/ id \in IXP!Created(ix, iy, n))
  <2> HIDE DEF iy
  <2> QED BY <1>2, SameSets, SameQueries DEF IXP!IdIsAlive
<1>4. iy.alive_count = a + n
  BY DEF IX!NewIds
<1> HIDE DEF iy
<1>5. /\ a \in Nat /\ a >= 1
      /\ iy.dense \in Seq(IX!Handles) /\ Len(iy.dense) \in Nat
      /\ a + n <= Len(iy.dense) + 1
      /\ iy.record \in [IX!Ids -> Nat]
  <2>1. a \in Nat /\ a >= 1
    BY DEF Good, IX!IndexType, IX!Bounded, IX!Count
  <2>2. iy.dense \in Seq(IX!Handles) /\ iy.record \in [IX!Ids -> Nat]
    BY <1>3 DEF Good, IX!IndexType
  <2>3. a + n \in 1..(Len(iy.dense) + 1)
    BY <1>3, <1>4 DEF Good, IX!Bounded, IX!Count
  <2> QED BY <2>1, <2>2, <2>3, LenProperties
<1>6. \A k \in 1..n : /\ a + k - 1 \in 1..Len(iy.dense)
                      /\ iy.dense[a + k - 1] \in IX!Handles
                      /\ iy.record[iy.dense[a + k - 1].id] = a + k - 1
  <2> TAKE k \in 1..n
  <2>1. a + k - 1 \in 1..Len(iy.dense)
    BY <1>5
  <2> QED BY <1>3, <1>5, <2>1, ElementOfSeq DEF Good, IX!Linked
<1>7. \A k \in 1..n : /\ iy.dense[a + k - 1].id \in IX!Ids
                      /\ iy.dense[a + k - 1].id \in IXP!Created(ix, iy, n)
                      /\ iy.dense[a + k - 1] \in IX!Entities
  <2> TAKE k \in 1..n
  <2>1. iy.dense[a + k - 1].id \in IX!Ids
    BY <1>6 DEF IX!Handles
  <2>2. iy.dense[a + k - 1].id \in IXP!Created(ix, iy, n)
    BY <1>5, <1>6, <2>1, SameSets DEF IXP!Created
  <2> QED BY <1>3, <1>6, <2>1, <2>2 DEF IX!Handles, IX!Entities, IX!EntityIds
<1>8. /\ es \in Seq(IX!Entities) /\ Len(es) = n
      /\ \A k \in 1..n : es[k] = iy.dense[a + k - 1]
  <2>1. \A i \in a..(a + n - 1) : iy.dense[i] \in IX!Entities
    <3> TAKE i \in a..(a + n - 1)
    <3>1. i - a + 1 \in 1..n /\ a + (i - a + 1) - 1 = i
      BY <1>5, SMTT(30)
    <3> QED BY <1>7, <3>1
  <2>2. es = SubSeq(iy.dense, a, a + n - 1)
    <3>1. iy.alive_count - 1 = a + n - 1
      BY <1>4, <1>5
    <3>2. es = SubSeq(iy.dense, a, iy.alive_count - 1)
      BY DEF Block
    <3> QED BY <3>1, <3>2, Zenon
  <2>3. a \in Int /\ a + n - 1 \in Int /\ a <= a + n - 1 /\ (a + n - 1) - a + 1 = n
    BY <1>5
  <2> HIDE DEF es, a
  <2>4. SubSeq(iy.dense, a, a + n - 1) \in Seq(IX!Entities) /\ Len(SubSeq(iy.dense, a, a + n - 1)) = n
    BY <1>5, <2>1, <2>3, SubSeqProperties
  <2>5. \A k \in 1..n : SubSeq(iy.dense, a, a + n - 1)[k] = iy.dense[a + k - 1]
    BY <1>5, <2>1, <2>3, SubSeqProperties
  <2> QED BY <2>2, <2>4, <2>5
<1> HIDE DEF es
<1>9. \A j, k \in 1..n : es[j].id = es[k].id => j = k
  <2> TAKE j, k \in 1..n
  <2>1. /\ iy.record[iy.dense[a + j - 1].id] = a + j - 1
        /\ iy.record[iy.dense[a + k - 1].id] = a + k - 1
    BY <1>6
  <2>2. es[j] = iy.dense[a + j - 1] /\ es[k] = iy.dense[a + k - 1]
    BY <1>8
  <2> QED BY <1>5, <2>1, <2>2
<1>10. \A k \in 1..n : /\ es[k] \in AliveEntities(iy)
                       /\ \A f \in AliveEntities(ix) : f.id # es[k].id
  <2> TAKE k \in 1..n
  <2>1. es[k].id \in IX!Ids /\ es[k].id \in IXP!Created(ix, iy, n)
    BY <1>7, <1>8
  <2>2. IX!IdIsAlive(iy, es[k].id) /\ ~IX!IdIsAlive(ix, es[k].id)
    BY <1>3, <2>1
  <2>3. IX!Entry(iy, es[k].id) = es[k]
    BY <1>6, <1>8 DEF IX!Entry
  <2> QED BY <1>3, <2>1, <2>2, <2>3, AliveFacts
<1>11. \A f \in AliveEntities(ix) : f \in AliveEntities(iy)
  <2> TAKE f \in AliveEntities(ix)
  <2>1. f.id \in IX!Ids /\ IX!IdIsAlive(ix, f.id) /\ IX!Entry(ix, f.id) = f
    BY AliveFacts
  <2> QED BY <1>3, <2>1, AliveFacts
<1>12. \A f \in AliveEntities(iy) : f \in AliveEntities(ix) \/ \E k \in 1..n : f = es[k]
  <2> TAKE f \in AliveEntities(iy)
  <2>1. f.id \in IX!Ids /\ IX!IdIsAlive(iy, f.id) /\ IX!Entry(iy, f.id) = f
    BY <1>3, AliveFacts
  <2>2. CASE IX!IdIsAlive(ix, f.id)
    BY <1>3, <2>1, <2>2, AliveFacts
  <2>3. CASE f.id \in IXP!Created(ix, iy, n)
    <3>1. iy.record[f.id] >= a /\ iy.record[f.id] < a + n /\ iy.record[f.id] \in Nat
      BY <1>5, <2>1, <2>3 DEF IXP!Created
    <3>2. f = iy.dense[iy.record[f.id]] /\ a \in Nat
      BY <1>5, <2>1 DEF IX!Entry
    <3>3. PICK r : r = iy.record[f.id]
      OBVIOUS
    <3>4. r \in Nat /\ r >= a /\ r < a + n /\ f = iy.dense[r]
      BY <3>1, <3>2, <3>3
    <3> HIDE DEF a
    <3>5. r - a + 1 \in 1..n /\ a + (r - a + 1) - 1 = r
      BY <3>2, <3>4
    <3> QED BY <1>8, <3>4, <3>5
  <2> QED BY <1>3, <2>1, <2>2, <2>3
<1>13. AliveEntities(iy) = AliveEntities(ix) \cup {es[k] : k \in 1..n}
  BY <1>10, <1>11, <1>12
<1> QED BY <1>3, <1>8, <1>9, <1>10, <1>13 DEF iy, es

(* flecs_entity_index_new_id adds one handle.                              *)
LEMMA NewIdAdds ==
    ASSUME NEW ix, Good(ix), IX!CanRecycle(ix) \/ ix.max_id < MaxId
    PROVE  LET iy == IX!NewId(ix)
               e  == iy.dense[ix.alive_count]
           IN  /\ Good(iy)
               /\ e \in IX!Entities
               /\ \A f \in AliveEntities(ix) : f.id # e.id
               /\ AliveEntities(iy) = AliveEntities(ix) \cup {e}
<1> DEFINE iy == IX!NewIds(ix, 1)
           e  == iy.dense[ix.alive_count]
           es == Block(ix, iy)
<1>1. IXP!Good(ix) /\ (IXP!CanRecycle(ix) \/ ix.max_id < MaxId)
  BY SameQueries, SameCreation
<1>2. IX!NewId(ix) = iy /\ ix.max_id + IX!FreshNeeded(ix, 1) <= MaxId
  BY <1>1, SameCreation, IXP!GoodIsSound, IXP!NewIdIsNewIds, MaxIdAssumption, GenCountAssumption
<1>3. /\ Good(iy)
      /\ es \in Seq(IX!Entities) /\ Len(es) = 1
      /\ es[1] = iy.dense[ix.alive_count + 1 - 1]
      /\ \A f \in AliveEntities(ix) : f.id # es[1].id
      /\ AliveEntities(iy) = AliveEntities(ix) \cup {es[k] : k \in 1..1}
  <2>1. 1 \in Nat \ {0} /\ 1 \in 1..1
    OBVIOUS
  <2>2. /\ Good(iy)
        /\ es \in Seq(IX!Entities) /\ Len(es) = 1
        /\ \A k \in 1..1 : es[k] = iy.dense[ix.alive_count + k - 1]
        /\ \A k \in 1..1 : \A f \in AliveEntities(ix) : f.id # es[k].id
        /\ AliveEntities(iy) = AliveEntities(ix) \cup {es[k] : k \in 1..1}
    BY <1>2, <2>1, NewIdsAdd, Zenon
  <2> HIDE DEF iy, es
  <2> QED BY <2>1, <2>2
<1>4. ix.alive_count + 1 - 1 = ix.alive_count
  BY DEF Good, IX!IndexType
<1>5. es[1] \in IX!Entities
  BY <1>3, ElementOfSeq
<1>6. {es[k] : k \in 1..1} = {es[1]}
  OBVIOUS
<1> HIDE DEF iy, es
<1> QED BY <1>2, <1>3, <1>4, <1>5, <1>6

-----------------------------------------------------------------------------
(* Stores. tb and rc are the tables and the records, H the entities that   *)
(* are in them. An operation that moves or deletes an entity leaves a row  *)
(* behind, the hole, before it takes it out.                               *)

HandleSet(H) == /\ H \subseteq IX!Entities
                /\ \A e, f \in H : e.id = f.id => e = f

Typed(tb, rc) == /\ tb = [T \in Types |-> tb[T]]
                 /\ \A T \in Types : tb[T] \in Seq(RowType(T))
                 /\ rc \in [IX!Ids -> [table : Types, row : Nat]]

(* The record of each entity names its row, and each row is named by the   *)
(* record of its entity. Row r0 of table T0 is the hole; row 0 is none.    *)
Linked(tb, rc, H, T0, r0) ==
    /\ \A e \in H :
          /\ rc[e.id].row \in 1..Len(tb[rc[e.id].table])
          /\ rc[e.id].table # T0 \/ rc[e.id].row # r0
          /\ tb[rc[e.id].table][rc[e.id].row].entity = e
    /\ \A T \in Types : \A i \in 1..Len(tb[T]) : T # T0 \/ i # r0 =>
          /\ tb[T][i].entity \in H
          /\ rc[tb[T][i].entity.id] = [table |-> T, row |-> i]

(* Other ids have no row.                                                  *)
Cleared(rc, H) == \A id \in IX!Ids : rc[id].row > 0 => \E e \in H : e.id = id

(* What the store says of each entity.                                     *)
View(tb, rc, H) ==
    [e \in H |-> [type |-> rc[e.id].table, val |-> tb[rc[e.id].table][rc[e.id].row].val]]

(* Types of what a typed store holds.                                      *)
LEMMA TypedFacts ==
    ASSUME NEW tb, NEW rc, Typed(tb, rc)
    PROVE  /\ \A T \in Types : /\ tb[T] \in Seq(RowType(T)) /\ Len(tb[T]) \in Nat
                               /\ DOMAIN tb[T] = 1..Len(tb[T])
                               /\ \A i \in 1..Len(tb[T]) :
                                     /\ tb[T][i] \in RowType(T)
                                     /\ tb[T][i].entity \in IX!Entities
                                     /\ tb[T][i].type = T
                                     /\ tb[T][i].val \in [T \cap Data -> Values]
           /\ \A id \in IX!Ids : rc[id].table \in Types /\ rc[id].row \in Nat
           /\ \A e \in IX!Entities : e.id \in IX!Ids
           /\ DOMAIN tb = Types
<1>1. \A T \in Types : /\ Len(tb[T]) \in Nat /\ DOMAIN tb[T] = 1..Len(tb[T])
                       /\ \A i \in 1..Len(tb[T]) : tb[T][i] \in RowType(T)
  BY ElementOfSeq, LenProperties DEF Typed
<1>2. \A T \in Types : \A i \in 1..Len(tb[T]) : /\ tb[T][i].entity \in IX!Entities
                                                /\ tb[T][i].type = T
                                                /\ tb[T][i].val \in [T \cap Data -> Values]
  BY <1>1 DEF RowType
<1>3. \A e \in IX!Entities : e.id \in IX!Ids
  BY DEF IX!Entities, IX!EntityIds
<1> QED BY <1>1, <1>2, <1>3 DEF Typed

(* An entity that is taken out of the set leaves its row as a hole.        *)
LEMMA DropLinked ==
    ASSUME NEW tb, NEW rc, NEW H, Typed(tb, rc), HandleSet(H), Linked(tb, rc, H, {}, 0),
           NEW e \in H
    PROVE  /\ Linked(tb, rc, H \ {e}, rc[e.id].table, rc[e.id].row)
           /\ HandleSet(H \ {e})
           /\ rc[e.id].table \in Types
           /\ rc[e.id].row \in 1..Len(tb[rc[e.id].table])
<1>1. rc[e.id].table \in Types /\ rc[e.id].row \in 1..Len(tb[rc[e.id].table])
  BY TypedFacts DEF Linked, HandleSet
<1>2. ASSUME NEW f \in H \ {e}
      PROVE  rc[f.id].table # rc[e.id].table \/ rc[f.id].row # rc[e.id].row
  BY DEF Linked
<1>3. ASSUME NEW T \in Types, NEW i \in 1..Len(tb[T]), T # rc[e.id].table \/ i # rc[e.id].row
      PROVE  tb[T][i].entity \in H \ {e} /\ rc[tb[T][i].entity.id] = [table |-> T, row |-> i]
  <2>1. i # 0
    BY TypedFacts
  <2>2. tb[T][i].entity \in H /\ rc[tb[T][i].entity.id] = [table |-> T, row |-> i]
    BY <2>1 DEF Linked
  <2> QED BY <1>3, <2>2
<1> QED BY <1>1, <1>2, <1>3 DEF Linked, HandleSet

(* flecs_table_append of an entity that is not in the set.                 *)
Appended(tb, rc, H, T0, r0, T, e, v, s) ==
    /\ Typed(s.tables, s.record)
    /\ HandleSet(H \cup {e})
    /\ Linked(s.tables, s.record, H \cup {e}, T0, r0)
    /\ r0 \in 0..Len(s.tables[T0])
    /\ \A i \in 1..Len(tb[T0]) : i \in 1..Len(s.tables[T0])
    /\ \A id \in IX!Ids : id # e.id => s.record[id] = rc[id]
    /\ View(s.tables, s.record, H \cup {e}) =
          [f \in H \cup {e} |-> IF f = e THEN [type |-> T, val |-> v]
                                ELSE View(tb, rc, H)[f]]

(* flecs_table_append adds the entity and no other changes.                *)
LEMMA AppendLinked ==
    ASSUME NEW tb, NEW rc, NEW H, NEW T0 \in Types, NEW r0 \in 0..Len(tb[T0]),
           Typed(tb, rc), HandleSet(H), Linked(tb, rc, H, T0, r0),
           NEW T \in Types, NEW e \in IX!Entities, \A f \in H : f.id # e.id,
           NEW v \in [T \cap Data -> Values]
    PROVE  Appended(tb, rc, H, T0, r0, T, e, v, TableAppend([tables |-> tb, record |-> rc], T, e, v))
<1> DEFINE n   == Len(tb[T]) + 1
           r   == Row(e, T, v)
           tb2 == [tb EXCEPT ![T] = Append(@, r)]
           rc2 == [rc EXCEPT ![e.id] = [table |-> T, row |-> n]]
<1>0. e.id \in IX!Ids /\ n \in Nat /\ n > 0 /\ tb[T] \in Seq(RowType(T)) /\ DOMAIN tb = Types
  BY TypedFacts
<1>1. r \in RowType(T) /\ r.entity = e /\ r.val = v
  BY DEF Row, RowType
<1>2. /\ tb2[T] = Append(tb[T], r) /\ tb2[T] \in Seq(RowType(T)) /\ Len(tb2[T]) = n
      /\ tb2[T][n] = r /\ \A i \in 1..Len(tb[T]) : tb2[T][i] = tb[T][i]
      /\ \A U \in Types : U # T => tb2[U] = tb[U]
  <2>1. tb2[T] = Append(tb[T], r) /\ \A U \in Types : U # T => tb2[U] = tb[U]
    BY <1>0
  <2> HIDE DEF tb2, r
  <2> QED BY <1>0, <1>1, <2>1, AppendProperties
<1>3. /\ rc2 \in [IX!Ids -> [table : Types, row : Nat]]
      /\ rc2[e.id] = [table |-> T, row |-> n]
      /\ \A id \in IX!Ids : id # e.id => rc2[id] = rc[id]
  BY <1>0 DEF Typed
<1>4. tb2 = [U \in Types |-> tb2[U]]
  BY <1>0 DEF Typed
<1> HIDE DEF tb2, rc2, r, n
<1>5. Typed(tb2, rc2)
  BY <1>2, <1>3, <1>4 DEF Typed
<1>6. HandleSet(H \cup {e})
  BY DEF HandleSet
<1>7. ASSUME NEW f \in H
      PROVE  /\ rc2[f.id] = rc[f.id] /\ rc[f.id].table \in Types
             /\ rc[f.id].row \in 1..Len(tb[rc[f.id].table])
             /\ rc[f.id].row \in 1..Len(tb2[rc[f.id].table])
             /\ tb2[rc[f.id].table][rc[f.id].row] = tb[rc[f.id].table][rc[f.id].row]
  <2>1. f.id \in IX!Ids /\ rc2[f.id] = rc[f.id] /\ rc[f.id].table \in Types
    BY <1>3, TypedFacts DEF HandleSet
  <2>2. rc[f.id].row \in 1..Len(tb[rc[f.id].table])
    BY DEF Linked
  <2>3. CASE rc[f.id].table = T
    BY <1>0, <1>2, <2>1, <2>2, <2>3, TypedFacts DEF n
  <2>4. CASE rc[f.id].table # T
    BY <1>2, <2>1, <2>2, <2>4
  <2> QED BY <2>1, <2>2, <2>3, <2>4
<1>8. n # r0 \/ T # T0
  BY <1>0, TypedFacts DEF n
<1>9. Linked(tb2, rc2, H \cup {e}, T0, r0)
  <2>1. ASSUME NEW f \in H \cup {e}
        PROVE  /\ rc2[f.id].row \in 1..Len(tb2[rc2[f.id].table])
               /\ rc2[f.id].table # T0 \/ rc2[f.id].row # r0
               /\ tb2[rc2[f.id].table][rc2[f.id].row].entity = f
    <3>1. CASE f = e
      BY <1>0, <1>1, <1>2, <1>3, <1>8, <3>1
    <3>2. CASE f \in H
      <4>1. /\ rc[f.id].table # T0 \/ rc[f.id].row # r0
            /\ tb[rc[f.id].table][rc[f.id].row].entity = f
        BY <3>2 DEF Linked
      <4> QED BY ONLY <1>7, <3>2, <4>1
    <3> QED BY <3>1, <3>2
  <2>2. ASSUME NEW U \in Types, NEW i \in 1..Len(tb2[U]), U # T0 \/ i # r0
        PROVE  /\ tb2[U][i].entity \in H \cup {e}
               /\ rc2[tb2[U][i].entity.id] = [table |-> U, row |-> i]
    <3>1. CASE U = T /\ i = n
      BY <1>1, <1>2, <1>3, <3>1
    <3>2. CASE ~(U = T /\ i = n)
      <4>1. i \in 1..Len(tb[U]) /\ tb2[U][i] = tb[U][i]
        BY <1>0, <1>2, <3>2, TypedFacts DEF n
      <4>2. tb[U][i].entity \in H /\ rc[tb[U][i].entity.id] = [table |-> U, row |-> i]
        BY <2>2, <4>1 DEF Linked
      <4> QED BY <1>7, <4>1, <4>2
    <3> QED BY <3>1, <3>2
  <2> QED BY <2>1, <2>2 DEF Linked
<1>10. /\ r0 \in 0..Len(tb2[T0])
       /\ \A i \in 1..Len(tb[T0]) : i \in 1..Len(tb2[T0])
  BY <1>0, <1>2, TypedFacts DEF n
<1>11. View(tb2, rc2, H \cup {e}) =
          [f \in H \cup {e} |-> IF f = e THEN [type |-> T, val |-> v] ELSE View(tb, rc, H)[f]]
  <2>1. ASSUME NEW f \in H \cup {e}
        PROVE  [type |-> rc2[f.id].table, val |-> tb2[rc2[f.id].table][rc2[f.id].row].val]
                  = IF f = e THEN [type |-> T, val |-> v] ELSE View(tb, rc, H)[f]
    <3>1. CASE f = e
      BY <1>1, <1>2, <1>3, <3>1
    <3>2. CASE f # e
      BY <1>7, <3>2 DEF View
    <3> QED BY <3>1, <3>2
  <2> QED BY <2>1 DEF View
<1>12. TableAppend([tables |-> tb, record |-> rc], T, e, v) = [tables |-> tb2, record |-> rc2]
  BY DEF TableAppend, tb2, rc2, r, n
<1> QED BY <1>3, <1>5, <1>6, <1>9, <1>10, <1>11, <1>12 DEF Appended

(* flecs_table_delete closes the hole: the entity of the last row gets the *)
(* place, and no entity loses anything.                                    *)
Deleted(tb, rc, H, s) ==
    /\ Typed(s.tables, s.record)
    /\ Linked(s.tables, s.record, H, {}, 0)
    /\ \A id \in IX!Ids : (\A f \in H : f.id # id) => s.record[id] = rc[id]
    /\ View(s.tables, s.record, H) = View(tb, rc, H)

(* flecs_table_delete keeps records and rows in agreement.                 *)
LEMMA DeleteLinked ==
    ASSUME NEW tb, NEW rc, NEW H, NEW T0 \in Types, NEW r0 \in 1..Len(tb[T0]),
           Typed(tb, rc), HandleSet(H), Linked(tb, rc, H, T0, r0)
    PROVE  Deleted(tb, rc, H, TableDelete([tables |-> tb, record |-> rc], T0, r0))
<1> DEFINE last  == Len(tb[T0])
           moved == tb[T0][last].entity
           rows  == [tb[T0] EXCEPT ![r0] = tb[T0][last]]
           less  == SubSeq(rows, 1, last - 1)
           tb2   == [tb EXCEPT ![T0] = less]
           rc2   == IF r0 # last THEN [rc EXCEPT ![moved.id].row = r0] ELSE rc
<1>0. /\ last \in Nat /\ r0 \in Nat /\ r0 >= 1 /\ r0 <= last /\ last \in 1..last
      /\ tb[T0] \in Seq(RowType(T0)) /\ DOMAIN tb = Types
      /\ tb[T0][last] \in RowType(T0) /\ moved \in IX!Entities /\ moved.id \in IX!Ids
  <2>1. last \in Nat /\ tb[T0] \in Seq(RowType(T0)) /\ DOMAIN tb = Types
    BY TypedFacts
  <2>2. r0 \in Nat /\ r0 >= 1 /\ r0 <= last /\ last \in 1..last
    BY <2>1
  <2> QED BY <2>1, <2>2, TypedFacts
<1>1. /\ less \in Seq(RowType(T0)) /\ Len(less) = last - 1
      /\ \A i \in 1..(last - 1) : less[i] = IF i = r0 THEN tb[T0][last] ELSE tb[T0][i]
  <2>1. /\ rows \in Seq(RowType(T0)) /\ Len(rows) = last
        /\ \A j \in 1..last : rows[j] = IF j = r0 THEN tb[T0][last] ELSE tb[T0][j]
    <3> HIDE DEF last
    <3> QED BY <1>0, ExceptSeq DEF last
  <2>2. \A i \in 1..(last - 1) : i \in 1..last /\ rows[i] \in RowType(T0)
    <3> HIDE DEF last, rows
    <3> QED BY <1>0, <2>1, ElementOfSeq
  <2>3. 1 \in Int /\ last - 1 \in Int /\ (1 <= last - 1 => (last - 1) - 1 + 1 = last - 1)
    BY <1>0
  <2> HIDE DEF last, rows
  <2>4. less \in Seq(RowType(T0)) /\ Len(less) = IF 1 <= last - 1 THEN (last - 1) - 1 + 1 ELSE 0
    BY <2>2, <2>3, SubSeqProperties
  <2>5. \A i \in 1..(last - 1) : less[i] = rows[i]
    BY <2>2, <2>3, SubSeqProperties
  <2> QED BY <1>0, <2>1, <2>2, <2>3, <2>4, <2>5
<1>2. tb2[T0] = less /\ \A U \in Types : U # T0 => tb2[U] = tb[U]
  BY <1>0
<1>3. tb2 = [U \in Types |-> tb2[U]]
  BY <1>0 DEF Typed
<1>4. /\ rc2 \in [IX!Ids -> [table : Types, row : Nat]]
      /\ \A id \in IX!Ids : rc2[id].table = rc[id].table
      /\ \A id \in IX!Ids : ~(r0 # last /\ id = moved.id) => rc2[id] = rc[id]
      /\ r0 # last => rc2[moved.id].row = r0
  BY <1>0, ZenonT(30) DEF Typed
<1>5. r0 # last => moved \in H /\ rc[moved.id] = [table |-> T0, row |-> last]
  BY <1>0 DEF Linked
<1> HIDE DEF tb2, rc2, less, rows, moved, last
<1>6. Typed(tb2, rc2)
  BY <1>1, <1>2, <1>3, <1>4 DEF Typed
(* Where each entity is now, with its row.                                 *)
<1>7. ASSUME NEW f \in H
      PROVE  /\ rc2[f.id].table = rc[f.id].table /\ rc[f.id].table \in Types
             /\ rc2[f.id].row \in 1..Len(tb2[rc[f.id].table])
             /\ tb2[rc[f.id].table][rc2[f.id].row] = tb[rc[f.id].table][rc[f.id].row]
  <2>0. f.id \in IX!Ids /\ rc[f.id].table \in Types /\ rc2[f.id].table = rc[f.id].table
    BY <1>4, TypedFacts DEF HandleSet
  <2>1. rc[f.id].row \in 1..Len(tb[rc[f.id].table]) /\ (rc[f.id].table # T0 \/ rc[f.id].row # r0)
    BY DEF Linked
  <2>2. CASE r0 # last /\ f = moved
    <3>1. rc[f.id].table = T0 /\ rc[f.id].row = last /\ rc2[f.id].row = r0
      BY <1>4, <1>5, <2>2
    <3>2. r0 \in 1..(last - 1)
      BY <1>0, <2>2
    <3> QED BY <1>1, <1>2, <2>0, <3>1, <3>2
  <2>3. CASE ~(r0 # last /\ f = moved) /\ rc[f.id].table = T0
    <3>1. f.id = moved.id /\ r0 # last => f = moved
      BY <1>5 DEF HandleSet
    <3>2. rc2[f.id] = rc[f.id]
      BY <1>4, <2>0, <2>3, <3>1
    <3>3. rc[f.id].row # last
      <4>1. tb[T0][rc[f.id].row].entity = f
        BY <2>3 DEF Linked
      <4> QED BY <2>1, <2>3, <4>1 DEF moved
    <3>4. rc[f.id].row \in 1..(last - 1) /\ rc[f.id].row # r0
      BY <1>0, <2>1, <2>3, <3>3 DEF last
    <3> QED BY <1>1, <1>2, <2>0, <2>3, <3>2, <3>4
  <2>4. CASE rc[f.id].table # T0
    <3>1. ~(r0 # last /\ f.id = moved.id)
      BY <1>5, <2>4
    <3> QED BY <1>2, <1>4, <2>0, <2>1, <2>4, <3>1
  <2> QED BY <2>2, <2>3, <2>4
<1>8. ASSUME NEW U \in Types, NEW i \in 1..Len(tb2[U])
      PROVE  tb2[U][i].entity \in H /\ rc2[tb2[U][i].entity.id] = [table |-> U, row |-> i]
  <2>1. CASE U = T0 /\ i = r0
    <3>1. r0 # last /\ r0 \in 1..(last - 1) /\ tb2[U][i].entity = moved
      BY <1>0, <1>1, <1>2, <2>1 DEF moved
    <3>2. rc2[moved.id] \in [table : Types, row : Nat] /\ rc2[moved.id].table = T0
      BY <1>0, <1>4, <1>5, <3>1
    <3> QED BY <1>4, <1>5, <2>1, <3>1, <3>2
  <2>2. CASE ~(U = T0 /\ i = r0)
    <3>1. i \in 1..Len(tb[U]) /\ tb2[U][i] = tb[U][i] /\ ~(U = T0 /\ i = last)
      BY <1>0, <1>1, <1>2, <2>2 DEF last
    <3>2. tb[U][i].entity \in H /\ rc[tb[U][i].entity.id] = [table |-> U, row |-> i]
      BY <2>2, <3>1 DEF Linked
    <3>3. ~(r0 # last /\ tb[U][i].entity.id = moved.id)
      BY <1>5, <3>1, <3>2
    <3>4. tb[U][i].entity.id \in IX!Ids
      BY <3>1, TypedFacts
    <3> QED BY <1>4, <3>1, <3>2, <3>3, <3>4
  <2> QED BY <2>1, <2>2
<1>9. Linked(tb2, rc2, H, {}, 0)
  <2>1. ASSUME NEW f \in H
        PROVE  /\ rc2[f.id].row \in 1..Len(tb2[rc2[f.id].table])
               /\ rc2[f.id].table # {} \/ rc2[f.id].row # 0
               /\ tb2[rc2[f.id].table][rc2[f.id].row].entity = f
    <3>1. tb[rc[f.id].table][rc[f.id].row].entity = f
      BY DEF Linked
    <3>2. rc2[f.id].row # 0
      BY <1>6, <1>7, TypedFacts
    <3> QED BY <1>7, <3>1, <3>2
  <2> QED BY <1>8, <2>1 DEF Linked
<1>10. \A id \in IX!Ids : (\A f \in H : f.id # id) => rc2[id] = rc[id]
  BY <1>4, <1>5
<1>11. View(tb2, rc2, H) = View(tb, rc, H)
  BY <1>7 DEF View
<1>12. TableDelete([tables |-> tb, record |-> rc], T0, r0) = [tables |-> tb2, record |-> rc2]
  BY DEF TableDelete, tb2, rc2, less, rows, moved, last
<1> QED BY <1>6, <1>9, <1>10, <1>11, <1>12 DEF Deleted

(* flecs_table_appendn of entities that are not in the set.                *)
AppendedN(tb, rc, H, T, es, v, s) ==
    LET E == {es[k] : k \in 1..Len(es)}
    IN  /\ Typed(s.tables, s.record)
        /\ HandleSet(H \cup E)
        /\ Linked(s.tables, s.record, H \cup E, {}, 0)
        /\ \A id \in IX!Ids : (\A f \in E : f.id # id) => s.record[id] = rc[id]
        /\ View(s.tables, s.record, H \cup E) =
              [f \in H \cup E |-> IF f \in E THEN [type |-> T, val |-> v]
                                  ELSE View(tb, rc, H)[f]]

(* flecs_table_appendn adds the entities and no other changes.             *)
LEMMA AppendNLinked ==
    ASSUME NEW tb, NEW rc, NEW H, Typed(tb, rc), HandleSet(H), Linked(tb, rc, H, {}, 0),
           NEW T \in Types, NEW v \in [T \cap Data -> Values],
           NEW es \in Seq(IX!Entities),
           \A j, k \in 1..Len(es) : es[j].id = es[k].id => j = k,
           \A k \in 1..Len(es) : \A f \in H : f.id # es[k].id
    PROVE  AppendedN(tb, rc, H, T, es, v, TableAppendN([tables |-> tb, record |-> rc], T, es, v))
<1> DEFINE m    == Len(es)
           n    == Len(tb[T])
           E    == {es[k] : k \in 1..m}
           rows == [k \in 1..m |-> Row(es[k], T, v)]
           pos(id) == CHOOSE k \in 1..m : es[k].id = id
           tb2  == [tb EXCEPT ![T] = @ \o rows]
           rc2  == [id \in IX!Ids |-> IF \E k \in 1..m : es[k].id = id
                                      THEN [table |-> T, row |-> n + pos(id)] ELSE rc[id]]
<1>0. /\ n \in Nat /\ m \in Nat /\ tb[T] \in Seq(RowType(T)) /\ DOMAIN tb = Types
      /\ \A k \in 1..m : es[k] \in IX!Entities /\ es[k].id \in IX!Ids
  BY TypedFacts, LenProperties, ElementOfSeq
<1>1. \A k \in 1..m : pos(es[k].id) = k
  OBVIOUS
<1>2. rows \in Seq(RowType(T)) /\ Len(rows) = m /\ \A k \in 1..m : rows[k] = Row(es[k], T, v)
  <2>1. \A k \in 1..m : Row(es[k], T, v) \in RowType(T)
    BY <1>0 DEF Row, RowType
  <2>2. rows \in [1..m -> RowType(T)]
    BY <2>1
  <2> HIDE DEF m
  <2> QED BY <1>0, <2>2
<1>3. /\ tb2[T] = tb[T] \o rows /\ \A U \in Types : U # T => tb2[U] = tb[U]
      /\ tb2 = [U \in Types |-> tb2[U]]
  BY <1>0 DEF Typed
<1> HIDE DEF rows, pos
<1>4. /\ tb2[T] \in Seq(RowType(T)) /\ Len(tb2[T]) = n + m
      /\ \A i \in 1..n : tb2[T][i] = tb[T][i]
      /\ \A k \in 1..m : tb2[T][n + k] = Row(es[k], T, v)
  <2>1. tb[T] \o rows \in Seq(RowType(T)) /\ Len(tb[T] \o rows) = n + m
    <3>1. tb[T] \o rows \in Seq(RowType(T))
      BY <1>0, <1>2, ConcatProperties
    <3>2. Len(tb[T] \o rows) = Len(tb[T]) + Len(rows)
      <4>1. tb[T] \in Seq(RowType(T)) /\ rows \in Seq(RowType(T))
        BY <1>0, <1>2
      <4> QED BY <4>1, ConcatProperties
    <3> QED BY <1>2, <3>1, <3>2
  <2>2. \A i \in 1..(n + m) : (tb[T] \o rows)[i] = IF i <= n THEN tb[T][i] ELSE rows[i - n]
    BY <1>0, <1>2, ConcatProperties
  <2>3. \A i \in 1..n : i \in 1..(n + m) /\ i <= n
    BY <1>0
  <2>4. \A k \in 1..m : n + k \in 1..(n + m) /\ ~(n + k <= n) /\ (n + k) - n = k
    BY <1>0
  <2> HIDE DEF tb2, n, m
  <2> QED BY <1>2, <1>3, <2>1, <2>2, <2>3, <2>4
<1>5. /\ \A k \in 1..m : rc2[es[k].id] = [table |-> T, row |-> n + k]
      /\ \A id \in IX!Ids : (\A k \in 1..m : es[k].id # id) => rc2[id] = rc[id]
      /\ rc2 \in [IX!Ids -> [table : Types, row : Nat]]
  <2>1. \A k \in 1..m : rc2[es[k].id] = [table |-> T, row |-> n + k]
    <3> TAKE k \in 1..m
    <3>1. es[k].id \in IX!Ids /\ pos(es[k].id) = k
      BY <1>0, <1>1
    <3> HIDE DEF m, n
    <3> QED BY <3>1
  <2>2. \A id \in IX!Ids : (\A k \in 1..m : es[k].id # id) => rc2[id] = rc[id]
    OBVIOUS
  <2>3. \A id \in IX!Ids : rc2[id] \in [table : Types, row : Nat]
    <3> TAKE id \in IX!Ids
    <3>1. CASE \E k \in 1..m : es[k].id = id
      <4>1. PICK k \in 1..m : es[k].id = id
        BY <3>1
      <4>2. n + k \in Nat
        BY <1>0
      <4> QED BY <2>1, <4>1, <4>2
    <3>2. CASE ~ \E k \in 1..m : es[k].id = id
      BY <2>2, <3>2 DEF Typed
    <3> QED BY <3>1, <3>2
  <2>4. rc2 = [id \in IX!Ids |-> rc2[id]]
    OBVIOUS
  <2> HIDE DEF rc2
  <2> QED BY <2>1, <2>2, <2>3, <2>4
<1>6. TableAppendN([tables |-> tb, record |-> rc], T, es, v) = [tables |-> tb2, record |-> rc2]
  BY DEF TableAppendN, tb2, rc2, rows, n, m, pos
<1> HIDE DEF tb2, rc2, n, m
<1>7. Typed(tb2, rc2)
  BY <1>3, <1>4, <1>5 DEF Typed
<1>8. HandleSet(H \cup E)
  BY <1>0 DEF HandleSet, m
<1>9. \A k \in 1..m : /\ Row(es[k], T, v).entity = es[k] /\ Row(es[k], T, v).val = v
                      /\ n + k \in 1..Len(tb2[T]) /\ n + k # 0
  BY <1>0, <1>4 DEF Row
<1>10. ASSUME NEW f \in H
       PROVE  /\ rc2[f.id] = rc[f.id] /\ rc[f.id].table \in Types
              /\ rc[f.id].row \in 1..Len(tb[rc[f.id].table])
              /\ rc[f.id].row \in 1..Len(tb2[rc[f.id].table])
              /\ tb2[rc[f.id].table][rc[f.id].row] = tb[rc[f.id].table][rc[f.id].row]
              /\ f \notin E
  <2>1. f.id \in IX!Ids /\ rc[f.id].table \in Types
    BY TypedFacts DEF HandleSet
  <2>2. rc2[f.id] = rc[f.id] /\ f \notin E
    BY <1>5, <2>1 DEF m
  <2>3. rc[f.id].row \in 1..Len(tb[rc[f.id].table])
    BY DEF Linked
  <2>4. CASE rc[f.id].table = T
    BY <1>0, <1>4, <2>1, <2>2, <2>3, <2>4 DEF n
  <2>5. CASE rc[f.id].table # T
    BY <1>3, <2>1, <2>2, <2>3, <2>5
  <2> QED BY <2>1, <2>2, <2>3, <2>4, <2>5
<1>11. Linked(tb2, rc2, H \cup E, {}, 0)
  <2>1. ASSUME NEW f \in H \cup E
        PROVE  /\ rc2[f.id].row \in 1..Len(tb2[rc2[f.id].table])
               /\ rc2[f.id].table # {} \/ rc2[f.id].row # 0
               /\ tb2[rc2[f.id].table][rc2[f.id].row].entity = f
    <3>1. CASE f \in E
      <4>1. PICK k \in 1..m : f = es[k]
        BY <3>1
      <4>2. rc2[f.id] = [table |-> T, row |-> n + k]
        BY <1>5, <4>1, Zenon
      <4>3. tb2[T][n + k].entity = f
        BY <1>4, <1>9, <4>1
      <4> QED BY <1>9, <4>2, <4>3
    <3>2. CASE f \in H
      <4>1. rc[f.id].row # 0
        BY <1>10, <3>2, TypedFacts
      <4>2. tb[rc[f.id].table][rc[f.id].row].entity = f
        BY <3>2 DEF Linked
      <4> HIDE DEF E
      <4> QED BY <1>10, <3>2, <4>1, <4>2
    <3> QED BY <3>1, <3>2
  <2>2. ASSUME NEW U \in Types, NEW i \in 1..Len(tb2[U])
        PROVE  /\ tb2[U][i].entity \in H \cup E
               /\ rc2[tb2[U][i].entity.id] = [table |-> U, row |-> i]
    <3>1. CASE U = T /\ i > n
      <4>1. i - n \in 1..m /\ n + (i - n) = i
        BY <1>0, <1>4, <3>1
      <4> QED BY <1>4, <1>5, <1>9, <3>1, <4>1
    <3>2. CASE ~(U = T /\ i > n)
      <4>1. i \in 1..Len(tb[U]) /\ tb2[U][i] = tb[U][i] /\ i # 0
        BY <1>0, <1>3, <1>4, <3>2, TypedFacts DEF n
      <4>2. tb[U][i].entity \in H /\ rc[tb[U][i].entity.id] = [table |-> U, row |-> i]
        BY <4>1 DEF Linked
      <4> QED BY <1>10, <4>1, <4>2
    <3> QED BY <3>1, <3>2
  <2> QED BY <2>1, <2>2 DEF Linked
<1>12. View(tb2, rc2, H \cup E) =
          [f \in H \cup E |-> IF f \in E THEN [type |-> T, val |-> v] ELSE View(tb, rc, H)[f]]
  <2>1. ASSUME NEW f \in H \cup E
        PROVE  [type |-> rc2[f.id].table, val |-> tb2[rc2[f.id].table][rc2[f.id].row].val]
                  = IF f \in E THEN [type |-> T, val |-> v] ELSE View(tb, rc, H)[f]
    <3>1. CASE f \in E
      <4>1. PICK k \in 1..m : f = es[k]
        BY <3>1
      <4>2. rc2[f.id] = [table |-> T, row |-> n + k]
        BY <1>5, <4>1, Zenon
      <4>3. tb2[T][n + k].val = v
        BY <1>4, <1>9, <4>1
      <4> QED BY <3>1, <4>2, <4>3
    <3>2. CASE f \notin E
      BY <1>10, <3>2 DEF View
    <3> QED BY <3>1, <3>2
  <2> HIDE DEF E
  <2> QED BY <2>1 DEF View
<1>13. \A id \in IX!Ids : (\A f \in E : f.id # id) => rc2[id] = rc[id]
  BY <1>5
<1> QED BY <1>6, <1>7, <1>8, <1>11, <1>12, <1>13 DEF AppendedN, m

(* An entity x with other components keeps the values it can keep.         *)
Retyped(x, T) == [type |-> T, val |-> MovedValues(x, T)]

(* The values of an entity of the store, and of its row.                   *)
RowFacts(tb, rc, H, e, U, i) ==
    /\ View(tb, rc, H)[e] = [type |-> U, val |-> tb[U][i].val]
    /\ U \in Types /\ i \in 1..Len(tb[U]) /\ e.id \in IX!Ids
    /\ tb[U][i] \in RowType(U) /\ tb[U][i].entity = e /\ tb[U][i].type = U
    /\ tb[U][i].val \in [U \cap Data -> Values]

(* The row an alive entity names has the columns of its table.             *)
LEMMA ViewFacts ==
    ASSUME NEW tb, NEW rc, NEW H, Typed(tb, rc), HandleSet(H), Linked(tb, rc, H, {}, 0),
           NEW e \in H, NEW U, U = rc[e.id].table, NEW i, i = rc[e.id].row
    PROVE  RowFacts(tb, rc, H, e, U, i)
<1>1. e.id \in IX!Ids /\ U \in Types
  BY TypedFacts DEF HandleSet
<1>2. i \in 1..Len(tb[U])
  BY DEF Linked
<1>3. tb[U][i].entity = e
  BY DEF Linked
<1>4. tb[U][i] \in RowType(U) /\ tb[U][i].type = U
  <2>1. tb[U][i] \in RowType(U)
    BY <1>1, <1>2, TypedFacts
  <2>2. tb[U][i].type = U
    BY <2>1 DEF RowType
  <2> QED BY <2>1, <2>2
<1>5. tb[U][i].val \in [U \cap Data -> Values]
  BY <1>1, <1>2, TypedFacts
<1>6. View(tb, rc, H)[e] = [type |-> U, val |-> tb[U][i].val]
  BY DEF View
<1> QED BY <1>1, <1>2, <1>3, <1>4, <1>5, <1>6, Zenon DEF RowFacts

(* Moved values have the columns of the new table.                         *)
LEMMA MovedType ==
    ASSUME NEW U \in Types, NEW T \in Types, NEW x, x.type = U, x.val \in [U \cap Data -> Values]
    PROVE  /\ MovedValues(x, T) \in [T \cap Data -> Values]
           /\ MovedValues(x, U) = x.val
<1>1. \A c \in T \cap Data : (IF c \in x.type THEN x.val[c] ELSE Default) \in Values
  BY DefaultAssumption
<1>2. \A c \in U \cap Data : (IF c \in x.type THEN x.val[c] ELSE Default) = x.val[c]
  OBVIOUS
<1> QED BY <1>1, <1>2 DEF MovedValues

(* flecs_commit moves the entity with its values and no other.             *)
Committed(tb, rc, H, e, T, s) ==
    /\ s = [tables |-> s.tables, record |-> s.record]
    /\ Typed(s.tables, s.record)
    /\ Linked(s.tables, s.record, H, {}, 0)
    /\ \A id \in IX!Ids : (\A f \in H : f.id # id) => s.record[id] = rc[id]
    /\ s.record[e.id].table = T
    /\ View(s.tables, s.record, H) =
          [f \in H |-> IF f = e THEN Retyped(View(tb, rc, H)[e], T)
                       ELSE View(tb, rc, H)[f]]

(* flecs_commit changes the components of one entity only.                 *)
LEMMA CommitLinked ==
    ASSUME NEW tb, NEW rc, NEW H, Typed(tb, rc), HandleSet(H), Linked(tb, rc, H, {}, 0),
           NEW e \in H, NEW T \in Types
    PROVE  Committed(tb, rc, H, e, T, Commit([tables |-> tb, record |-> rc], e, T))
<1> DEFINE s0 == [tables |-> tb, record |-> rc]
           x  == View(tb, rc, H)[e]
           U  == rc[e.id].table
           i  == rc[e.id].row
<1>0. /\ x = [type |-> tb[U][i].type, val |-> tb[U][i].val]
      /\ x.type = U /\ U \in Types /\ x.val \in [U \cap Data -> Values]
      /\ i \in 1..Len(tb[U]) /\ e.id \in IX!Ids
  <2>0. U = rc[e.id].table /\ i = rc[e.id].row
    OBVIOUS
  <2> HIDE DEF U, i
  <2>1. RowFacts(tb, rc, H, e, U, i)
    BY <2>0, ViewFacts, Zenon
  <2>2. /\ x = [type |-> U, val |-> tb[U][i].val]
        /\ U \in Types /\ i \in 1..Len(tb[U]) /\ e.id \in IX!Ids
        /\ tb[U][i].type = U /\ tb[U][i].val \in [U \cap Data -> Values]
    BY <2>1, Zenon DEF RowFacts
  <2> HIDE DEF x
  <2> QED BY <2>2
<1>1. CASE U = T
  <2>1. Commit(s0, e, T) = s0
    BY <1>1 DEF Commit
  <2>2. Retyped(x, T) = x
    <3>1. x = [type |-> x.type, val |-> x.val]
      BY <1>0
    <3> HIDE DEF x
    <3> QED BY <1>0, <1>1, <3>1, MovedType DEF Retyped
  <2>3. View(tb, rc, H) = [f \in H |-> IF f = e THEN Retyped(x, T) ELSE View(tb, rc, H)[f]]
    <3> HIDE DEF x
    <3>1. \A f \in H : View(tb, rc, H)[f] = IF f = e THEN Retyped(x, T) ELSE View(tb, rc, H)[f]
      BY <2>2 DEF x
    <3>2. View(tb, rc, H) = [f \in H |-> View(tb, rc, H)[f]]
      BY DEF View
    <3> QED BY <3>1, <3>2
  <2> QED BY <1>1, <2>1, <2>3 DEF Committed
<1>2. CASE U # T
  <2> DEFINE H0 == H \ {e}
             v  == MovedValues(tb[U][i], T)
             s1 == TableAppend(s0, T, e, v)
             s2 == TableDelete(s1, U, i)
  <2>1. v = MovedValues(x, T) /\ v \in [T \cap Data -> Values]
    <3>1. MovedValues(x, T) = MovedValues(tb[U][i], T)
      <4> HIDE DEF x, U, i
      <4>1. x.type = tb[U][i].type /\ x.val = tb[U][i].val
        BY <1>0
      <4> QED BY <4>1 DEF MovedValues
    <3>2. x.type = U /\ U \in Types /\ x.val \in [U \cap Data -> Values]
      BY <1>0, Zenon
    <3>3. MovedValues(x, T) \in [T \cap Data -> Values]
      <4> HIDE DEF x, U, i
      <4> QED BY <3>2, MovedType, ZenonT(30)
    <3> QED BY <3>1, <3>3, Zenon
  <2>2. Linked(tb, rc, H0, U, i) /\ HandleSet(H0) /\ e \in IX!Entities /\ \A f \in H0 : f.id # e.id
    BY DropLinked DEF HandleSet
  <2>3. i \in 0..Len(tb[U]) /\ H0 \cup {e} = H
    <3>1. H0 \cup {e} = H
      OBVIOUS
    <3>2. Len(tb[U]) \in Nat /\ i \in 1..Len(tb[U])
      BY <1>0, TypedFacts, Zenon
    <3> HIDE DEF U, i, H0
    <3> QED BY <3>1, <3>2
  <2> HIDE DEF v, U, i, x
  <2>4. /\ Typed(s1.tables, s1.record)
        /\ Linked(s1.tables, s1.record, H, U, i)
        /\ i \in 1..Len(s1.tables[U])
        /\ \A id \in IX!Ids : id # e.id => s1.record[id] = rc[id]
        /\ View(s1.tables, s1.record, H) =
              [f \in H |-> IF f = e THEN [type |-> T, val |-> v] ELSE View(tb, rc, H0)[f]]
    <3> HIDE DEF H0
    <3>1. /\ Typed(s1.tables, s1.record)
          /\ Linked(s1.tables, s1.record, H0 \cup {e}, U, i)
          /\ \A j \in 1..Len(tb[U]) : j \in 1..Len(s1.tables[U])
          /\ \A id \in IX!Ids : id # e.id => s1.record[id] = rc[id]
          /\ View(s1.tables, s1.record, H0 \cup {e}) =
                [f \in H0 \cup {e} |-> IF f = e THEN [type |-> T, val |-> v]
                                       ELSE View(tb, rc, H0)[f]]
      <4>1. Appended(tb, rc, H0, U, i, T, e, v, s1)
        BY <1>0, <2>1, <2>2, <2>3, AppendLinked, Zenon
      <4> HIDE DEF s1
      <4> QED BY <4>1, Zenon DEF Appended
    <3> HIDE DEF s1
    <3> QED BY <1>0, <2>3, <3>1, Zenon
  <2>5. s1 = [tables |-> s1.tables, record |-> s1.record]
    BY DEF TableAppend
  <2> HIDE DEF s1
  <2>6. /\ Typed(s2.tables, s2.record)
        /\ Linked(s2.tables, s2.record, H, {}, 0)
        /\ \A id \in IX!Ids : (\A f \in H : f.id # id) => s2.record[id] = s1.record[id]
        /\ View(s2.tables, s2.record, H) = View(s1.tables, s1.record, H)
    <3> DEFINE s3 == TableDelete([tables |-> s1.tables, record |-> s1.record], U, i)
    <3>1. /\ Typed(s3.tables, s3.record)
          /\ Linked(s3.tables, s3.record, H, {}, 0)
          /\ \A id \in IX!Ids : (\A f \in H : f.id # id) => s3.record[id] = s1.record[id]
          /\ View(s3.tables, s3.record, H) = View(s1.tables, s1.record, H)
      <4>1. Deleted(s1.tables, s1.record, H, s3)
        BY <1>0, <2>4, DeleteLinked, Zenon
      <4> HIDE DEF s3
      <4> QED BY <4>1, Zenon DEF Deleted
    <3>2. s3 = s2
      BY <2>5, Zenon
    <3> QED BY <3>1, <3>2, Zenon
  <2>7. s2 = [tables |-> s2.tables, record |-> s2.record]
    BY DEF TableDelete
  <2>8. Commit(s0, e, T) = s2
    BY <1>2, <2>5 DEF Commit, MoveEntity, s1, v, U, i
  <2> HIDE DEF s2
  <2>9. \A id \in IX!Ids : (\A f \in H : f.id # id) => s2.record[id] = rc[id]
    BY <2>4, <2>6
  <2>10. \A f \in H0 : View(tb, rc, H0)[f] = View(tb, rc, H)[f]
    BY DEF View
  <2>11. View(s2.tables, s2.record, H) =
            [f \in H |-> IF f = e THEN Retyped(x, T) ELSE View(tb, rc, H)[f]]
    <3>1. Retyped(x, T) = [type |-> T, val |-> v]
      BY <2>1 DEF Retyped
    <3>2. \A f \in H : (IF f = e THEN [type |-> T, val |-> v] ELSE View(tb, rc, H0)[f])
                        = IF f = e THEN Retyped(x, T) ELSE View(tb, rc, H)[f]
      BY <2>10, <3>1
    <3> QED BY <2>4, <2>6, <3>2
  <2>12. s2.record[e.id].table = T
    <3>1. View(s2.tables, s2.record, H)[e].type = T
      BY <2>11 DEF Retyped
    <3> QED BY <3>1 DEF View
  <2> QED BY <2>6, <2>7, <2>8, <2>9, <2>11, <2>12 DEF Committed, x
<1> QED BY <1>1, <1>2

(* Writing a value changes the value of that entity and no other.          *)
Written(tb, rc, H, e, c, v, s) ==
    LET x == View(tb, rc, H)[e]
    IN  /\ Typed(s.tables, s.record)
        /\ Linked(s.tables, s.record, H, {}, 0)
        /\ s.record = rc
        /\ View(s.tables, s.record, H) =
              [f \in H |-> IF f = e THEN [x EXCEPT !.val[c] = v]
                           ELSE View(tb, rc, H)[f]]

(* Writing a value keeps records and rows in agreement.                    *)
LEMMA WriteLinked ==
    ASSUME NEW tb, NEW rc, NEW H, Typed(tb, rc), HandleSet(H), Linked(tb, rc, H, {}, 0),
           NEW e \in H, NEW c \in Data, c \in rc[e.id].table, NEW v \in Values
    PROVE  Written(tb, rc, H, e, c, v, WriteValue([tables |-> tb, record |-> rc], e, c, v))
<1> DEFINE x   == View(tb, rc, H)[e]
           U   == rc[e.id].table
           i   == rc[e.id].row
           old == tb[U][i]
           new == [old EXCEPT !.val[c] = v]
           tb2 == [tb EXCEPT ![U][i].val[c] = v]
<1>0. /\ x = [type |-> old.type, val |-> old.val] /\ old \in RowType(U) /\ old.entity = e
      /\ U \in Types /\ i \in 1..Len(tb[U]) /\ e.id \in IX!Ids
      /\ tb[U] \in Seq(RowType(U)) /\ DOMAIN tb = Types
  <2>0. U = rc[e.id].table /\ i = rc[e.id].row
    OBVIOUS
  <2> HIDE DEF U, i
  <2>1. RowFacts(tb, rc, H, e, U, i)
    BY <2>0, ViewFacts, Zenon
  <2>2. /\ x = [type |-> U, val |-> old.val] /\ old \in RowType(U) /\ old.entity = e
        /\ old.type = U /\ U \in Types /\ i \in 1..Len(tb[U]) /\ e.id \in IX!Ids
    BY <2>1, Zenon DEF RowFacts
  <2> HIDE DEF x, old
  <2> QED BY <2>2, TypedFacts
<1>1. /\ new \in RowType(U) /\ new.entity = e /\ new.type = old.type
      /\ new.val = [old.val EXCEPT ![c] = v]
  BY <1>0 DEF RowType
<1>2. /\ tb2 = [tb EXCEPT ![U] = [@ EXCEPT ![i] = new]]
      /\ WriteValue([tables |-> tb, record |-> rc], e, c, v) = [tables |-> tb2, record |-> rc]
  <2>1. tb2 = [tb EXCEPT ![U] = [@ EXCEPT ![i] = new]]
    OBVIOUS
  <2>2. WriteValue([tables |-> tb, record |-> rc], e, c, v) = [tables |-> tb2, record |-> rc]
    <3> DEFINE s0 == [tables |-> tb, record |-> rc]
    <3>1. s0.tables = tb /\ s0.record = rc
      OBVIOUS
    <3>2. \A X : [s0 EXCEPT !.tables = X] = [tables |-> X, record |-> rc]
      OBVIOUS
    <3> HIDE DEF s0
    <3>3. WriteValue(s0, e, c, v) = [s0 EXCEPT !.tables = tb2]
      BY <3>1, Zenon DEF WriteValue
    <3> QED BY <3>2, <3>3 DEF s0
  <2> QED BY <2>1, <2>2
<1>3. /\ tb2[U] = [tb[U] EXCEPT ![i] = new] /\ \A T \in Types : T # U => tb2[T] = tb[T]
      /\ tb2 = [T \in Types |-> tb2[T]]
  BY <1>0 DEF Typed
<1> HIDE DEF new, tb2
<1>4. /\ tb2[U] \in Seq(RowType(U)) /\ Len(tb2[U]) = Len(tb[U])
      /\ \A j \in 1..Len(tb[U]) : tb2[U][j] = IF j = i THEN new ELSE tb[U][j]
  <2> HIDE DEF U, i
  <2> QED BY <1>0, <1>1, <1>3, ExceptSeq
<1>5. Typed(tb2, rc)
  BY <1>3, <1>4 DEF Typed
<1>6. \A T \in Types : /\ Len(tb2[T]) = Len(tb[T])
                       /\ \A j \in 1..Len(tb[T]) :
                             /\ tb2[T][j].entity = tb[T][j].entity
                             /\ ~(T = U /\ j = i) => tb2[T][j] = tb[T][j]
  <2> TAKE T \in Types
  <2>1. CASE T = U
    <3>1. new.entity = tb[U][i].entity
      BY <1>0, <1>1
    <3> HIDE DEF U, i
    <3> QED BY <1>4, <2>1, <3>1
  <2>2. CASE T # U
    BY <1>3, <2>2
  <2> QED BY <2>1, <2>2
<1>7. \A f \in H : rc[f.id].table \in Types
  BY TypedFacts DEF HandleSet
<1>8. Linked(tb2, rc, H, {}, 0)
  <2>1. ASSUME NEW f \in H
        PROVE  /\ rc[f.id].row \in 1..Len(tb2[rc[f.id].table])
               /\ rc[f.id].table # {} \/ rc[f.id].row # 0
               /\ tb2[rc[f.id].table][rc[f.id].row].entity = f
    <3>1. /\ rc[f.id].row \in 1..Len(tb[rc[f.id].table])
          /\ rc[f.id].table # {} \/ rc[f.id].row # 0
          /\ tb[rc[f.id].table][rc[f.id].row].entity = f
      BY Zenon DEF Linked
    <3> QED BY <1>6, <1>7, <3>1, Zenon
  <2>2. ASSUME NEW T \in Types, NEW j \in 1..Len(tb2[T]), T # {} \/ j # 0
        PROVE  tb2[T][j].entity \in H /\ rc[tb2[T][j].entity.id] = [table |-> T, row |-> j]
    <3>1. j \in 1..Len(tb[T]) /\ tb2[T][j].entity = tb[T][j].entity
      BY <1>6
    <3> QED BY <2>2, <3>1 DEF Linked
  <2> QED BY <2>1, <2>2 DEF Linked
<1>9. ASSUME NEW f \in H
      PROVE  [type |-> rc[f.id].table, val |-> tb2[rc[f.id].table][rc[f.id].row].val]
                = IF f = e THEN [x EXCEPT !.val[c] = v] ELSE View(tb, rc, H)[f]
  <2>1. CASE f = e
    <3>1. [x EXCEPT !.val[c] = v] = [type |-> U, val |-> new.val]
      <4>1. old.type = U
        BY <1>0 DEF RowType
      <4>2. [x EXCEPT !.val[c] = v] = [type |-> old.type, val |-> [old.val EXCEPT ![c] = v]]
        <5> HIDE DEF x, old
        <5> QED BY <1>0
      <4> QED BY <1>1, <4>1, <4>2
    <3>2. tb2[U][i].val = new.val
      BY <1>0, <1>4
    <3> QED BY <2>1, <3>1, <3>2
  <2>2. CASE f # e
    <3>1. /\ rc[f.id].row \in 1..Len(tb[rc[f.id].table])
          /\ tb[rc[f.id].table][rc[f.id].row].entity = f
      BY DEF Linked
    <3>2. ~(rc[f.id].table = U /\ rc[f.id].row = i)
      BY <1>0, <2>2, <3>1
    <3>3. tb2[rc[f.id].table][rc[f.id].row] = tb[rc[f.id].table][rc[f.id].row]
      BY <1>6, <1>7, <3>1, <3>2
    <3> QED BY <2>2, <3>3 DEF View
  <2> QED BY <2>1, <2>2
<1>10. View(tb2, rc, H) =
          [f \in H |-> IF f = e THEN [x EXCEPT !.val[c] = v] ELSE View(tb, rc, H)[f]]
  <2> HIDE DEF x
  <2> QED BY <1>9 DEF View
<1> DEFINE s == [tables |-> tb2, record |-> rc]
<1>11. s.tables = tb2 /\ s.record = rc
  OBVIOUS
<1> HIDE DEF s
<1>12. Written(tb, rc, H, e, c, v, s)
  BY <1>5, <1>8, <1>10, <1>11, Zenon DEF Written
<1> QED BY <1>2, <1>12, Zenon DEF s

-----------------------------------------------------------------------------
(* The inductive invariant: the index is well-formed, and the store holds  *)
(* exactly the entities that are alive in it.                              *)

Holds(tb, rc, H) == /\ Typed(tb, rc) /\ HandleSet(H)
                    /\ Linked(tb, rc, H, {}, 0) /\ Cleared(rc, H)

Living == AliveEntities(index)

SInv == Good(index) /\ Holds(tables, record, Living)

(* What an application sees is the view of the alive entities.             *)
LEMMA ShownIsView ==
    /\ Shown = View(tables, record, Living)
    /\ Shown' = View(tables', record', Living')
    /\ DOMAIN Shown = Living
    /\ Abs!Alive = Living
BY DEF Shown, View, RowOf, Living, Abs!Alive

(* What an application sees is a function of the alive entities.           *)
LEMMA ShownMaps == Shown = [e \in Living |-> Shown[e]]
BY DEF Shown, Living

(* Handles of alive entities have different ids.                           *)
LEMMA AliveHandles ==
    ASSUME NEW ix, Good(ix)
    PROVE  HandleSet(AliveEntities(ix))
<1>1. \A e, f \in AliveEntities(ix) : e.id = f.id => e = f
  BY AliveFacts
<1>2. AliveEntities(ix) \subseteq IX!Entities
  BY AliveFacts
<1> QED BY <1>1, <1>2 DEF HandleSet

(* Steps of the abstract store, seen in the concrete one.                  *)
LEMMA DestroyStep ==
    ASSUME SInv, NEW e \in Living, Shown' = [f \in Living \ {e} |-> Shown[f]]
    PROVE  Abs!StoreNext
<1>1. Abs!Destroy({e})
  BY ShownIsView, Zenon DEF Abs!Destroy
<1> QED BY <1>1, ShownIsView, Zenon DEF Abs!StoreNext

(* All entities with a component go.                                       *)
LEMMA DestroyAllStep ==
    ASSUME SInv, NEW c \in Comps,
           Shown' = [f \in {h \in Living : c \notin record[h.id].table} |-> Shown[f]]
    PROVE  Abs!StoreNext
<1> DEFINE E == {e \in Abs!Alive : c \in Shown[e].type}
<1>1. \A e \in Living : Shown[e].type = record[e.id].table
  BY DEF Shown, Living
<1>2. {h \in Living : c \notin record[h.id].table} = Abs!Alive \ E
  BY <1>1, ShownIsView
<1>3. Abs!Destroy(E)
  BY <1>2, Zenon DEF Abs!Destroy
<1> QED BY <1>3, Zenon DEF Abs!StoreNext

(* An entity gets other components.                                        *)
LEMMA RetypeStep ==
    ASSUME SInv, NEW e \in Living, NEW T \in Types,
           Shown' = [f \in Living |-> IF f = e THEN Retyped(Shown[e], T) ELSE Shown[f]]
    PROVE  Abs!StoreNext
<1>1. Shown' = [Shown EXCEPT ![e] = Retyped(Shown[e], T)]
  BY ShownIsView, ShownMaps
<1>2. Retyped(Shown[e], T) = Abs!Retype(Shown[e], T)
  BY DEF Retyped, MovedValues, Abs!Retype, Abs!WithValues
<1>3. Abs!Change(e, Abs!Retype(Shown[e], T))
  BY <1>1, <1>2, Zenon DEF Abs!Change
<1> QED BY <1>3, ShownIsView, Zenon DEF Abs!StoreNext, Types

(* An entity gets a value, and its component if it is missing.             *)
LEMMA SetStep ==
    ASSUME SInv, NEW e \in Living, NEW c \in Data, NEW v \in Values,
           Shown' = [f \in Living |->
                       IF f = e THEN [Retyped(Shown[e], Shown[e].type \cup {c}) EXCEPT !.val[c] = v]
                       ELSE Shown[f]]
    PROVE  Abs!StoreNext
<1> DEFINE x == Abs!Retype(Shown[e], Shown[e].type \cup {c})
           y == [x EXCEPT !.val[c] = v]
<1>1. x = Retyped(Shown[e], Shown[e].type \cup {c})
  BY DEF Retyped, MovedValues, Abs!Retype, Abs!WithValues
<1>2. Shown' = [Shown EXCEPT ![e] = y]
  <2> HIDE DEF x
  <2>1. Shown' = [f \in Living |-> IF f = e THEN y ELSE Shown[f]]
    BY <1>1
  <2> HIDE DEF y
  <2> QED BY <2>1, ShownIsView, ShownMaps
<1>3. Abs!Change(e, y)
  BY <1>2, Zenon DEF Abs!Change
<1> QED BY <1>3, ShownIsView, Zenon DEF Abs!StoreNext

(* An entity gets another version.                                         *)
LEMMA ReversionStep ==
    ASSUME SInv, NEW e \in Living, NEW f \in IX!Entities, e.id = f.id,
           Shown' = [h \in (Living \ {e}) \cup {f} |-> IF h = f THEN Shown[e] ELSE Shown[h]]
    PROVE  Abs!StoreNext
<1>1. Abs!Reversion(e, f)
  BY ShownIsView, Zenon DEF Abs!Reversion, Abs!SameId
<1> QED BY <1>1, ShownIsView, Zenon DEF Abs!StoreNext

(* A component is removed from all entities.                               *)
LEMMA RemoveAllStep ==
    ASSUME SInv, NEW c \in Comps,
           Shown' = [e \in Living |-> Retyped(Shown[e], Shown[e].type \ {c})]
    PROVE  Abs!StoreNext
<1>1. \A e \in Living : Retyped(Shown[e], Shown[e].type \ {c}) =
                        Abs!Retype(Shown[e], Shown[e].type \ {c})
  BY DEF Retyped, MovedValues, Abs!Retype, Abs!WithValues
<1>2. Shown' = [e \in Living |-> Abs!Retype(Shown[e], Shown[e].type \ {c})]
  BY <1>1
<1>3. Abs!RemoveFromAll(c)
  BY <1>2, ShownIsView, Zenon DEF Abs!RemoveFromAll
<1> QED BY <1>3, Zenon DEF Abs!StoreNext

-----------------------------------------------------------------------------
(* Each operation keeps the invariant and is a step of the abstract store. *)

Refines == SInv' /\ (Abs!StoreNext \/ Shown' = Shown)

(* Entities E come to life with a row each, in table T with values v.      *)
Adds(E, T, v) ==
    /\ Good(index') /\ Living' = Living \cup E
    /\ Typed(tables', record') /\ HandleSet(Living \cup E)
    /\ Linked(tables', record', Living \cup E, {}, 0)
    /\ \A e \in E : \A f \in Living : f.id # e.id
    /\ \A id \in IX!Ids : (\A f \in E : f.id # id) => record'[id] = record[id]
    /\ View(tables', record', Living \cup E) =
          [f \in Living \cup E |-> IF f \in E THEN [type |-> T, val |-> v]
                                   ELSE View(tables, record, Living)[f]]

(* That is a creation in the abstract store.                               *)
LEMMA CreateRefines ==
    ASSUME SInv, NEW E, NEW T \in Types, NEW v \in [T \cap Data -> Values], Adds(E, T, v)
    PROVE  Refines
<1> USE DEF Adds
<1>1. Cleared(record', Living \cup E)
  <2> SUFFICES ASSUME NEW id \in IX!Ids, record'[id].row > 0
               PROVE  \E e \in Living \cup E : e.id = id
    BY DEF Cleared
  <2> QED BY DEF SInv, Holds, Cleared
<1>2. SInv'
  BY <1>1 DEF SInv, Holds
<1>3. Shown' = [f \in Living \cup E |-> IF f \in E THEN [type |-> T, val |-> v] ELSE Shown[f]]
  BY ShownIsView, Zenon
<1>4. E \in SUBSET Abs!Unused /\ \A e, f \in E : e.id = f.id => e = f
  BY ShownIsView DEF HandleSet, Abs!Unused, Abs!SameId
<1>5. Abs!Create(E, [type |-> T, val |-> v])
  BY <1>3, <1>4, ShownIsView, Zenon DEF Abs!Create, Abs!SameId
<1>6. Abs!StoreNext
  BY <1>4, <1>5 DEF Abs!StoreNext, Abs!WithValues, Types
<1> QED BY <1>2, <1>6 DEF Refines

(* A component that is constructed has its default value.                  *)
LEMMA ConstructedType ==
    ASSUME NEW T
    PROVE  Constructed(T) \in [T \cap Data -> Values]
BY DefaultAssumption DEF Constructed

(* One entity that comes to life, appended to a table.                     *)
LEMMA AppendRefines ==
    ASSUME SInv, NEW e \in IX!Entities, NEW T \in Types, NEW v \in [T \cap Data -> Values],
           Good(index'), Living' = Living \cup {e}, \A f \in Living : f.id # e.id,
           tables' = TableAppend(Store, T, e, v).tables,
           record' = TableAppend(Store, T, e, v).record
    PROVE  Refines
<1>1. {} \in Types /\ 0 \in 0..Len(tables[{}])
  <2>1. {} \in Types
    BY DEF Types
  <2>2. Len(tables[{}]) \in Nat
    BY <2>1, TypedFacts DEF SInv, Holds
  <2> QED BY <2>1, <2>2
<1> DEFINE s == TableAppend(Store, T, e, v)
<1>2. Appended(tables, record, Living, {}, 0, T, e, v, s)
  BY <1>1, AppendLinked, Zenon DEF SInv, Holds, Store
<1>3. tables' = s.tables /\ record' = s.record
  OBVIOUS
<1> HIDE DEF s
<1>4. /\ Typed(tables', record') /\ HandleSet(Living \cup {e})
      /\ Linked(tables', record', Living \cup {e}, {}, 0)
      /\ \A id \in IX!Ids : id # e.id => record'[id] = record[id]
      /\ View(tables', record', Living \cup {e}) =
            [f \in Living \cup {e} |-> IF f = e THEN [type |-> T, val |-> v]
                                       ELSE View(tables, record, Living)[f]]
  BY <1>2, <1>3, Zenon DEF Appended
<1> DEFINE E == {e}
<1>5. \A f : f \in E <=> f = e
  OBVIOUS
<1> HIDE DEF E
<1>6. View(tables', record', Living \cup E) =
            [f \in Living \cup E |-> IF f \in E THEN [type |-> T, val |-> v]
                                     ELSE View(tables, record, Living)[f]]
  BY <1>4, <1>5 DEF E
<1>7. Adds(E, T, v)
  BY <1>4, <1>5, <1>6 DEF Adds, E
<1> QED BY <1>7, CreateRefines

(* ecs_new, ecs_new_w_table.                                               *)
LEMMA NewRefines ==
    ASSUME SInv, NEW T \in Types, EcsNew(T)
    PROVE  Refines
<1>1. PICK e : e = index'.dense[index.alive_count]
  OBVIOUS
<1>2. /\ Good(index') /\ e \in IX!Entities
      /\ \A f \in Living : f.id # e.id
      /\ Living' = Living \cup {e}
  BY <1>1, NewIdAdds DEF SInv, EcsNew, Living
<1>3. /\ tables' = TableAppend(Store, T, e, Constructed(T)).tables
      /\ record' = TableAppend(Store, T, e, Constructed(T)).record
  BY <1>1, Zenon DEF EcsNew, Becomes
<1> QED BY <1>2, <1>3, ConstructedType, AppendRefines, Zenon

(* ecs_make_alive.                                                         *)
LEMMA MakeAliveRefines ==
    ASSUME SInv, NEW e \in IX!Entities, EcsMakeAlive(e)
    PROVE  Refines
<1>1. PICK ix : ix = IX!MakeAlive(index, e)
  OBVIOUS
<1>2. Good(index) /\ ~IX!IdIsAlive(index, e.id) /\ index' = IX!Ensure(ix, e)
  BY <1>1 DEF SInv, EcsMakeAlive
<1>3. Good(ix) /\ ~IX!IdIsAlive(ix, e.id) /\ AliveEntities(ix) = Living
  <2>1. CASE IX!Exists(index, e.id)
    BY <1>1, <1>2, <2>1, MakeAliveReplaces DEF Living
  <2>2. CASE ~IX!Exists(index, e.id)
    <3>1. ix = index
      BY <1>1, <2>2 DEF IX!MakeAlive
    <3> QED BY <1>2, <3>1 DEF Living
  <2> QED BY <2>1, <2>2
<1>4. /\ Good(index') /\ Living' = Living \cup {e} /\ \A f \in Living : f.id # e.id
  BY <1>2, <1>3, EnsureAdds DEF Living
<1>5. /\ tables' = TableAppend(Store, root, e, Constructed(root)).tables
      /\ record' = TableAppend(Store, root, e, Constructed(root)).record
  BY Zenon DEF EcsMakeAlive, Becomes
<1>6. root \in Types
  BY DEF root, Types
<1> QED BY <1>4, <1>5, <1>6, ConstructedType, AppendRefines, Zenon

(* Several entities that come to life, appended to a table.                *)
LEMMA AppendNRefines ==
    ASSUME SInv, NEW T \in Types, NEW v \in [T \cap Data -> Values], NEW es \in Seq(IX!Entities),
           \A j, k \in 1..Len(es) : es[j].id = es[k].id => j = k,
           \A k \in 1..Len(es) : \A f \in Living : f.id # es[k].id,
           Good(index'), Living' = Living \cup {es[k] : k \in 1..Len(es)},
           tables' = TableAppendN(Store, T, es, v).tables,
           record' = TableAppendN(Store, T, es, v).record
    PROVE  Refines
<1> DEFINE s == TableAppendN(Store, T, es, v)
           E == {es[k] : k \in 1..Len(es)}
<1>1. AppendedN(tables, record, Living, T, es, v, s)
  BY AppendNLinked, Zenon DEF SInv, Holds, Store
<1>2. tables' = s.tables /\ record' = s.record
  OBVIOUS
<1> HIDE DEF s
<1>3. /\ Typed(tables', record') /\ HandleSet(Living \cup E)
      /\ Linked(tables', record', Living \cup E, {}, 0)
      /\ \A id \in IX!Ids : (\A f \in E : f.id # id) => record'[id] = record[id]
      /\ View(tables', record', Living \cup E) =
            [f \in Living \cup E |-> IF f \in E THEN [type |-> T, val |-> v]
                                     ELSE View(tables, record, Living)[f]]
  BY <1>1, <1>2, Zenon DEF AppendedN
<1>4. /\ Living' = Living \cup E
      /\ \A e \in E : \A f \in Living : f.id # e.id
  OBVIOUS
<1> HIDE DEF E
<1>5. Adds(E, T, v)
  BY <1>3, <1>4, Zenon DEF Adds
<1> QED BY <1>5, CreateRefines

(* ecs_bulk_new.                                                           *)
LEMMA BulkNewRefines ==
    ASSUME SInv, NEW n \in Nat \ {0}, NEW T \in Types, NEW v \in [T \cap Data -> Values],
           EcsBulkNew(n, T, v)
    PROVE  Refines
<1>1. PICK es : es = Block(index, index')
  OBVIOUS
<1>2. /\ Good(index')
      /\ es \in Seq(IX!Entities) /\ Len(es) = n
      /\ \A j, k \in 1..n : es[j].id = es[k].id => j = k
      /\ \A k \in 1..n : \A f \in Living : f.id # es[k].id
      /\ Living' = Living \cup {es[k] : k \in 1..n}
  BY <1>1, NewIdsAdd, SMTT(30) DEF SInv, EcsBulkNew, Living
<1>3. /\ tables' = TableAppendN(Store, T, es, v).tables
      /\ record' = TableAppendN(Store, T, es, v).record
  BY <1>1, Zenon DEF EcsBulkNew, Becomes, Block
<1> QED BY <1>2, <1>3, AppendNRefines

(* ecs_bulk_init with a caller-provided id.                                *)
LEMMA BulkInitRefines ==
    ASSUME SInv, NEW e \in IX!Entities, NEW T \in Types, NEW v \in [T \cap Data -> Values],
           EcsBulkInit(e, T, v)
    PROVE  Refines
<1> DEFINE es == <<e>>
<1>1. /\ es \in Seq(IX!Entities) /\ Len(es) = 1 /\ es[1] = e
      /\ {es[k] : k \in 1..Len(es)} = {e}
  OBVIOUS
<1>2. /\ Good(index') /\ Living' = Living \cup {e} /\ \A f \in Living : f.id # e.id
  BY EnsureAdds DEF SInv, EcsBulkInit, Living
<1>3. /\ tables' = TableAppendN(Store, T, es, v).tables
      /\ record' = TableAppendN(Store, T, es, v).record
  BY Zenon DEF EcsBulkInit, Becomes
<1> HIDE DEF es
<1>4. /\ \A j, k \in 1..Len(es) : es[j].id = es[k].id => j = k
      /\ \A k \in 1..Len(es) : \A f \in Living : f.id # es[k].id
  BY <1>1, <1>2
<1> QED BY <1>1, <1>2, <1>3, <1>4, AppendNRefines, Zenon

(* The components of an entity change: ecs_add_id, ecs_remove_id, ecs_clear.*)
LEMMA CommitRefines ==
    ASSUME SInv, NEW e \in IX!Entities, IsAlive(e), NEW T \in Types,
           tables' = Commit(Store, e, T).tables, record' = Commit(Store, e, T).record,
           index' = index
    PROVE  Refines
<1>1. e \in Living /\ Living' = Living
  BY AliveFacts DEF SInv, IsAlive, Living
<1> DEFINE s == Commit(Store, e, T)
<1>2. Committed(tables, record, Living, e, T, s)
  BY <1>1, CommitLinked, Zenon DEF SInv, Holds, Store
<1>3. tables' = s.tables /\ record' = s.record
  OBVIOUS
<1> HIDE DEF s
<1>4. /\ Typed(tables', record') /\ Linked(tables', record', Living, {}, 0)
      /\ \A id \in IX!Ids : (\A f \in Living : f.id # id) => record'[id] = record[id]
      /\ View(tables', record', Living) =
            [f \in Living |-> IF f = e THEN Retyped(View(tables, record, Living)[e], T)
                              ELSE View(tables, record, Living)[f]]
  BY <1>2, <1>3, Zenon DEF Committed
<1>5. Cleared(record', Living)
  BY <1>4 DEF SInv, Holds, Cleared
<1>6. SInv'
  BY <1>1, <1>4, <1>5 DEF SInv, Holds
<1>7. Shown' = [f \in Living |-> IF f = e THEN Retyped(Shown[e], T) ELSE Shown[f]]
  BY <1>1, <1>4, ShownIsView, Zenon
<1>8. Abs!StoreNext
  BY <1>1, <1>7, RetypeStep, Zenon
<1> QED BY <1>6, <1>8 DEF Refines

(* The table of an entity is a set of components.                          *)
LEMMA TableIsType ==
    ASSUME SInv, NEW e \in IX!Entities
    PROVE  record[e.id].table \in Types
BY TypedFacts DEF SInv, Holds

(* ecs_add_id and ecs_remove_id.                                           *)
LEMMA AddRefines ==
    ASSUME SInv, NEW e \in IX!Entities, NEW c \in Comps, EcsAdd(e, c) \/ EcsRemove(e, c)
    PROVE  Refines
<1>1. record[e.id].table \cup {c} \in Types /\ record[e.id].table \ {c} \in Types
  BY TableIsType DEF Types
<1>2. CASE EcsAdd(e, c)
  BY <1>1, <1>2, CommitRefines, Zenon DEF EcsAdd, Becomes
<1>3. CASE EcsRemove(e, c)
  BY <1>1, <1>3, CommitRefines, Zenon DEF EcsRemove, Becomes
<1> QED BY <1>2, <1>3

(* ecs_clear.                                                              *)
LEMMA ClearRefines ==
    ASSUME SInv, NEW e \in IX!Entities, EcsClear(e)
    PROVE  Refines
<1>1. root \in Types
  BY DEF root, Types
<1> QED BY <1>1, CommitRefines, Zenon DEF EcsClear, Becomes

(* ecs_set_id.                                                             *)
LEMMA SetRefines ==
    ASSUME SInv, NEW e \in IX!Entities, NEW c \in Data, NEW v \in Values, EcsSet(e, c, v)
    PROVE  Refines
<1>1. e \in Living /\ Living' = Living /\ index' = index
  BY AliveFacts DEF SInv, IsAlive, Living, EcsSet
<1>2. PICK T : T = record[e.id].table \cup {c}
  OBVIOUS
<1>3. T \in Types /\ c \in T
  BY <1>2, TableIsType, DataAssumption DEF Types
<1> DEFINE s == Commit(Store, e, T)
<1>4. Committed(tables, record, Living, e, T, s)
  BY <1>1, <1>3, CommitLinked, Zenon DEF SInv, Holds, Store
<1>5. tables' = WriteValue(s, e, c, v).tables /\ record' = WriteValue(s, e, c, v).record
  BY <1>2, Zenon DEF EcsSet, Becomes
<1> HIDE DEF s
<1> DEFINE tb == s.tables
           rc == s.record
<1>6. /\ Typed(tb, rc) /\ Linked(tb, rc, Living, {}, 0)
      /\ \A id \in IX!Ids : (\A f \in Living : f.id # id) => rc[id] = record[id]
      /\ rc[e.id].table = T /\ s = [tables |-> tb, record |-> rc]
      /\ View(tb, rc, Living) =
            [f \in Living |-> IF f = e THEN Retyped(View(tables, record, Living)[e], T)
                              ELSE View(tables, record, Living)[f]]
  BY <1>4, Zenon DEF Committed
<1> HIDE DEF tb, rc
<1> DEFINE w == WriteValue(s, e, c, v)
<1>7. Written(tb, rc, Living, e, c, v, w)
  <2>1. Written(tb, rc, Living, e, c, v, WriteValue([tables |-> tb, record |-> rc], e, c, v))
    BY <1>1, <1>3, <1>6, WriteLinked, Zenon DEF SInv, Holds
  <2> QED BY <1>6, <2>1, Zenon
<1>8. tables' = w.tables /\ record' = w.record
  BY <1>5
<1> HIDE DEF w
<1> DEFINE x == View(tb, rc, Living)[e]
<1>9. /\ Typed(tables', record') /\ Linked(tables', record', Living, {}, 0) /\ record' = rc
      /\ View(tables', record', Living) =
            [f \in Living |-> IF f = e THEN [x EXCEPT !.val[c] = v]
                              ELSE View(tb, rc, Living)[f]]
  BY <1>7, <1>8, Zenon DEF Written
<1>10. Cleared(record', Living)
  BY <1>6, <1>9 DEF SInv, Holds, Cleared
<1>11. SInv'
  BY <1>1, <1>9, <1>10 DEF SInv, Holds
<1>12. Shown[e].type = record[e.id].table
  BY <1>1 DEF Shown, Living
<1>13. x = Retyped(Shown[e], Shown[e].type \cup {c})
  BY <1>1, <1>2, <1>6, <1>12, ShownIsView
<1>14. \A f \in Living : f # e => View(tb, rc, Living)[f] = Shown[f]
  BY <1>6, ShownIsView
<1> DEFINE y == [Retyped(Shown[e], Shown[e].type \cup {c}) EXCEPT !.val[c] = v]
<1>15. [x EXCEPT !.val[c] = v] = y
  <2> HIDE DEF x
  <2> QED BY <1>13, Zenon
<1> HIDE DEF x, y
<1>16. Shown' = [f \in Living |-> IF f = e THEN y ELSE Shown[f]]
  <2>1. Shown' = [f \in Living |-> IF f = e THEN [x EXCEPT !.val[c] = v]
                                   ELSE View(tb, rc, Living)[f]]
    BY <1>1, <1>9, ShownIsView, Zenon
  <2>2. \A f \in Living : (IF f = e THEN [x EXCEPT !.val[c] = v] ELSE View(tb, rc, Living)[f])
                           = IF f = e THEN y ELSE Shown[f]
    BY <1>14, <1>15
  <2> HIDE DEF Shown
  <2> QED BY <2>1, <2>2
<1>17. Abs!StoreNext
  BY <1>1, <1>16, SetStep, Zenon DEF y
<1> QED BY <1>11, <1>17 DEF Refines

(* flecs_entity_index_remove clears the record of an entity that is not in *)
(* the set.                                                                *)
Unlinked(tb, rc, H, e, rd) ==
    /\ Typed(tb, rd) /\ Linked(tb, rd, H, {}, 0)
    /\ rd[e.id].row = 0 /\ \A id \in IX!Ids : id # e.id => rd[id] = rc[id]
    /\ View(tb, rd, H) = View(tb, rc, H)

(* Clearing that record disturbs no other entity.                          *)
LEMMA ClearLinked ==
    ASSUME NEW tb, NEW rc, NEW H, NEW e \in IX!Entities, Typed(tb, rc), HandleSet(H),
           Linked(tb, rc, H, {}, 0), \A f \in H : f.id # e.id,
           NEW rd, rd = [rc EXCEPT ![e.id] = NoRecord]
    PROVE  Unlinked(tb, rc, H, e, rd)
<1>1. e.id \in IX!Ids /\ rc \in [IX!Ids -> [table : Types, row : Nat]]
  BY TypedFacts DEF Typed
<1>2. NoRecord \in [table : Types, row : Nat] /\ NoRecord.row = 0
  BY DEF NoRecord, Types
<1>3. rd \in [IX!Ids -> [table : Types, row : Nat]] /\ rd[e.id] = NoRecord
  BY <1>1, <1>2
<1>4. \A id \in IX!Ids : id # e.id => rd[id] = rc[id]
  BY <1>1
<1>5. \A f \in H : rd[f.id] = rc[f.id]
  BY <1>1, <1>4, TypedFacts DEF HandleSet
<1>6. Typed(tb, rd)
  BY <1>3 DEF Typed
<1>7. Linked(tb, rd, H, {}, 0)
  BY <1>5 DEF Linked
<1>8. View(tb, rd, H) = View(tb, rc, H)
  BY <1>5 DEF View
<1> QED BY <1>2, <1>3, <1>4, <1>6, <1>7, <1>8 DEF Unlinked

(* ecs_delete.                                                             *)
LEMMA DeleteRefines ==
    ASSUME SInv, NEW e \in IX!Entities, EcsDelete(e)
    PROVE  Refines
<1>1. e \in Living
  BY AliveFacts DEF SInv, IsAlive, Living, EcsDelete
<1>2. Good(index') /\ Living' = Living \ {e}
  BY <1>1, RemoveTakes DEF SInv, EcsDelete, Living
<1> DEFINE H == Living \ {e}
<1>3. PICK T, i : T = record[e.id].table /\ i = record[e.id].row
  OBVIOUS
<1>4. /\ Linked(tables, record, H, T, i) /\ HandleSet(H)
      /\ T \in Types /\ i \in 1..Len(tables[T])
  BY <1>1, <1>3, DropLinked DEF SInv, Holds
<1>5. \A f \in H : f.id # e.id
  BY <1>1 DEF SInv, Holds, HandleSet
<1> DEFINE s == TableDelete(Store, T, i)
<1> HIDE DEF H
<1>6. Deleted(tables, record, H, s)
  BY <1>4, DeleteLinked, Zenon DEF SInv, Holds, Store
<1>7. tables' = s.tables /\ record' = [s.record EXCEPT ![e.id] = NoRecord]
  <2>1. s = [tables |-> s.tables, record |-> s.record]
    BY DEF TableDelete
  <2>2. tables' = ClearRecord(s, e).tables /\ record' = ClearRecord(s, e).record
    BY <1>3, Zenon DEF EcsDelete, Becomes
  <2> HIDE DEF s
  <2> QED BY <2>1, <2>2 DEF ClearRecord
<1> HIDE DEF s
<1>8. /\ Typed(s.tables, s.record) /\ Linked(s.tables, s.record, H, {}, 0)
      /\ \A id \in IX!Ids : (\A f \in H : f.id # id) => s.record[id] = record[id]
      /\ View(s.tables, s.record, H) = View(tables, record, H)
  BY <1>6, Zenon DEF Deleted
<1>9. /\ Typed(tables', record') /\ Linked(tables', record', H, {}, 0)
      /\ record'[e.id].row = 0
      /\ \A id \in IX!Ids : id # e.id => record'[id] = s.record[id]
      /\ View(tables', record', H) = View(s.tables, s.record, H)
  <2>1. Unlinked(s.tables, s.record, H, e, record')
    BY <1>4, <1>5, <1>7, <1>8, ClearLinked, Zenon
  <2> QED BY <1>7, <2>1, Zenon DEF Unlinked
<1>10. Cleared(record', H)
  <2> SUFFICES ASSUME NEW id \in IX!Ids, record'[id].row > 0, \A f \in H : f.id # id
               PROVE  FALSE
    BY DEF Cleared
  <2>1. id # e.id /\ record'[id] = record[id]
    BY <1>8, <1>9
  <2>2. PICK f \in Living : f.id = id
    BY <2>1 DEF SInv, Holds, Cleared
  <2> QED BY <2>1, <2>2 DEF H
<1>11. SInv'
  BY <1>2, <1>4, <1>9, <1>10 DEF SInv, Holds, H
<1>12. \A f \in H : View(tables, record, H)[f] = View(tables, record, Living)[f]
  BY DEF View, H
<1>13. View(tables, record, H) = [f \in H |-> Shown[f]]
  BY <1>12, ShownIsView DEF View
<1>14. Shown' = [f \in Living \ {e} |-> Shown[f]]
  BY <1>2, <1>8, <1>9, <1>13, ShownIsView, Zenon DEF H
<1>15. Abs!StoreNext
  BY <1>1, <1>14, DestroyStep, Zenon
<1> QED BY <1>11, <1>15 DEF Refines

(* One row of a typed table is replaced.                                   *)
Replaced(tb, rc, U, i, new, td) ==
    /\ Typed(td, rc)
    /\ \A T \in Types : Len(td[T]) = Len(tb[T])
    /\ \A T \in Types : \A j \in 1..Len(tb[T]) :
          td[T][j] = IF T = U /\ j = i THEN new ELSE tb[T][j]

(* Replacing a row keeps the types and all other rows.                     *)
LEMMA ReplaceRow ==
    ASSUME NEW tb, NEW rc, Typed(tb, rc), NEW U \in Types, NEW i \in 1..Len(tb[U]),
           NEW new \in RowType(U), NEW td, td = [tb EXCEPT ![U] = [@ EXCEPT ![i] = new]]
    PROVE  Replaced(tb, rc, U, i, new, td)
<1>1. /\ td[U] = [tb[U] EXCEPT ![i] = new] /\ \A T \in Types : T # U => td[T] = tb[T]
      /\ td = [T \in Types |-> td[T]]
  BY DEF Typed
<1>2. tb[U] \in Seq(RowType(U))
  BY DEF Typed
<1>3. /\ td[U] \in Seq(RowType(U)) /\ Len(td[U]) = Len(tb[U])
      /\ \A j \in 1..Len(tb[U]) : td[U][j] = IF j = i THEN new ELSE tb[U][j]
  BY <1>1, <1>2, ExceptSeq
<1>4. Typed(td, rc)
  BY <1>1, <1>3 DEF Typed
<1>5. \A T \in Types : Len(td[T]) = Len(tb[T])
  BY <1>1, <1>3
<1>6. \A T \in Types : \A j \in 1..Len(tb[T]) :
         td[T][j] = IF T = U /\ j = i THEN new ELSE tb[T][j]
  BY <1>1, <1>3
<1> QED BY <1>4, <1>5, <1>6 DEF Replaced

(* ecs_set_version.                                                        *)
LEMMA SetVersionRefines ==
    ASSUME SInv, NEW e \in IX!Entities, EcsSetVersion(e)
    PROVE  Refines
<1>0. Good(index) /\ IX!Exists(index, e.id) /\ index' = IX!MakeAlive(index, e) /\ e.id \in IX!Ids
  BY DEF SInv, EcsSetVersion, IX!Entities, IX!EntityIds
<1>1. CASE ~IX!IdIsAlive(index, e.id)
  <2>1. Good(index') /\ Living' = Living
    BY <1>0, <1>1, MakeAliveReplaces DEF Living
  <2>2. tables' = tables /\ record' = record
    BY <1>1 DEF EcsSetVersion
  <2>3. SInv'
    BY <2>1, <2>2 DEF SInv, Holds
  <2>4. Shown' = Shown
    BY <2>1, <2>2, ShownIsView, Zenon
  <2> QED BY <2>3, <2>4 DEF Refines
<1>2. CASE IX!IdIsAlive(index, e.id)
  <2>1. PICK f : f = IX!Entry(index, e.id)
    OBVIOUS
  <2>2. f \in Living /\ f.id = e.id
    BY <1>0, <1>2, <2>1, AliveFacts DEF Living
  <2>3. PICK U, i : U = record[f.id].table /\ i = record[f.id].row
    OBVIOUS
  <2>4. RowFacts(tables, record, Living, f, U, i)
    BY <2>2, <2>3, ViewFacts, Zenon DEF SInv, Holds
  <2>5. /\ U \in Types /\ i \in 1..Len(tables[U]) /\ tables[U][i] \in RowType(U)
        /\ tables[U][i].entity = f
    BY <2>4, Zenon DEF RowFacts
  <2> DEFINE new == [tables[U][i] EXCEPT !.entity = e]
             H2  == (Living \ {f}) \cup {e}
  <2>6. i > 0
    BY <2>5, TypedFacts DEF SInv, Holds
  <2>7. tables' = [tables EXCEPT ![U] = [@ EXCEPT ![i] = new]] /\ record' = record
    BY <1>2, <2>2, <2>3, <2>6 DEF EcsSetVersion, InTable
  <2>8. new \in RowType(U) /\ new.entity = e /\ new.val = tables[U][i].val
    BY <2>5 DEF RowType
  <2>9. /\ Good(index')
        /\ AliveEntities(index') = {g \in AliveEntities(index) : g.id # e.id} \cup {e}
    BY <1>0, <1>2, MakeAliveReplaces
  <2>10. Living' = H2
    BY <2>2, <2>9 DEF Living, SInv, Holds, HandleSet
  <2>11. HandleSet(H2)
    BY <2>9, <2>10, AliveHandles DEF Living
  <2> HIDE DEF new
  <2>12. /\ Typed(tables', record)
         /\ \A T \in Types : Len(tables'[T]) = Len(tables[T])
         /\ \A T \in Types : \A j \in 1..Len(tables[T]) :
               tables'[T][j] = IF T = U /\ j = i THEN new ELSE tables[T][j]
    <3>1. Replaced(tables, record, U, i, new, tables')
      BY <2>5, <2>7, <2>8, ReplaceRow, Zenon DEF SInv, Holds
    <3> QED BY <3>1, Zenon DEF Replaced
  <2>13. Typed(tables', record')
    BY <2>7, <2>12
  <2>14. ASSUME NEW g \in Living, g # f
         PROVE  /\ record[g.id].table \in Types
                /\ record[g.id].row \in 1..Len(tables[record[g.id].table])
                /\ tables[record[g.id].table][record[g.id].row].entity = g
                /\ ~(record[g.id].table = U /\ record[g.id].row = i)
                /\ tables'[record[g.id].table][record[g.id].row] =
                     tables[record[g.id].table][record[g.id].row]
    <3>1. record[g.id].table \in Types
      BY TypedFacts DEF SInv, Holds, HandleSet
    <3>2. /\ record[g.id].row \in 1..Len(tables[record[g.id].table])
          /\ tables[record[g.id].table][record[g.id].row].entity = g
      BY DEF SInv, Holds, Linked
    <3>3. ~(record[g.id].table = U /\ record[g.id].row = i)
      BY <2>5, <2>14, <3>2
    <3> QED BY <2>12, <3>1, <3>2, <3>3
  <2>15. tables'[U][i] = new
    BY <2>5, <2>12
  <2>16. Linked(tables', record', H2, {}, 0)
    <3>1. ASSUME NEW g \in H2
          PROVE  /\ record[g.id].row \in 1..Len(tables'[record[g.id].table])
                 /\ record[g.id].table # {} \/ record[g.id].row # 0
                 /\ tables'[record[g.id].table][record[g.id].row].entity = g
      <4>1. CASE g = e
        <5>1. record[g.id].table = U /\ record[g.id].row = i
          BY <2>2, <2>3, <4>1
        <5>2. i \in 1..Len(tables'[U]) /\ i # 0
          BY <2>5, <2>6, <2>12
        <5>3. tables'[U][i].entity = g
          BY <2>8, <2>15, <4>1
        <5> QED BY <5>1, <5>2, <5>3, Zenon
      <4>2. CASE g \in Living /\ g # f
        <5>1. record[g.id].row # 0
          BY <2>14, <4>2, TypedFacts DEF SInv, Holds
        <5> QED BY <2>12, <2>14, <4>2, <5>1
      <4> QED BY <4>1, <4>2
    <3>2. ASSUME NEW T \in Types, NEW j \in 1..Len(tables'[T])
          PROVE  /\ tables'[T][j].entity \in H2
                 /\ record[tables'[T][j].entity.id] = [table |-> T, row |-> j]
      <4>1. j \in 1..Len(tables[T]) /\ j # 0
        BY <2>12, TypedFacts DEF SInv, Holds
      <4>2. /\ tables[T][j].entity \in Living
            /\ record[tables[T][j].entity.id] = [table |-> T, row |-> j]
        BY <4>1 DEF SInv, Holds, Linked
      <4>3. CASE T = U /\ j = i
        BY <2>2, <2>5, <2>8, <2>15, <4>2, <4>3
      <4>4. CASE ~(T = U /\ j = i)
        <5>1. tables'[T][j] = tables[T][j]
          BY <2>12, <4>1, <4>4
        <5>2. tables[T][j].entity # f
          BY <2>3, <4>2, <4>4
        <5> QED BY <4>2, <5>1, <5>2
      <4> QED BY <4>3, <4>4
    <3> QED BY <2>7, <3>1, <3>2 DEF Linked
  <2>17. Cleared(record', H2)
    BY <2>2, <2>7 DEF SInv, Holds, Cleared
  <2>18. SInv'
    BY <2>9, <2>10, <2>11, <2>13, <2>16, <2>17 DEF SInv, Holds
  <2>19. Shown' = [h \in H2 |-> IF h = e THEN Shown[f] ELSE Shown[h]]
    <3>1. ASSUME NEW h \in H2
          PROVE  [type |-> record[h.id].table,
                  val |-> tables'[record[h.id].table][record[h.id].row].val]
                   = IF h = e THEN Shown[f] ELSE Shown[h]
      <4>1. CASE h = e
        <5>1. Shown[f] = [type |-> U, val |-> tables[U][i].val]
          BY <2>4, ShownIsView, Zenon DEF RowFacts
        <5> QED BY <2>2, <2>3, <2>8, <2>15, <4>1, <5>1
      <4>2. CASE h # e
        <5>1. Shown[h] = [type |-> record[h.id].table,
                          val |-> tables[record[h.id].table][record[h.id].row].val]
          BY <4>2, ShownIsView DEF View
        <5> QED BY <2>14, <4>2, <5>1
      <4> QED BY <4>1, <4>2
    <3>2. Shown' = View(tables', record, H2)
      BY <2>7, <2>10, ShownIsView, Zenon
    <3> HIDE DEF H2
    <3> QED BY <3>1, <3>2 DEF View
  <2>20. Abs!StoreNext
    BY <2>2, <2>19, ReversionStep, Zenon
  <2> QED BY <2>18, <2>20 DEF Refines
<1> QED BY <1>1, <1>2

(* flecs_table_swap.                                                       *)
LEMMA SwapRefines ==
    ASSUME SInv, NEW T \in Types, NEW i \in 1..Len(tables[T]), NEW j \in 1..Len(tables[T]),
           i < j, SwapRows(T, i, j)
    PROVE  Refines
<1>0. Typed(tables, record) /\ HandleSet(Living) /\ Linked(tables, record, Living, {}, 0)
  BY DEF SInv, Holds
<1>1. PICK r, q : r = tables[T][i] /\ q = tables[T][j]
  OBVIOUS
<1>2. PICK td : td = [tables EXCEPT ![T] = [@ EXCEPT ![i] = q]]
  OBVIOUS
<1>3. i # 0 /\ j # 0 /\ i # j /\ i \in Nat /\ j \in Nat /\ Len(tables[T]) \in Nat
  BY <1>0, TypedFacts
<1>4. /\ r \in RowType(T) /\ q \in RowType(T) /\ r.entity \in Living /\ q.entity \in Living
      /\ record[r.entity.id] = [table |-> T, row |-> i]
      /\ record[q.entity.id] = [table |-> T, row |-> j]
  <2>1. r \in RowType(T) /\ q \in RowType(T)
    BY <1>0, <1>1, TypedFacts
  <2>2. r.entity \in Living /\ record[r.entity.id] = [table |-> T, row |-> i]
    BY <1>0, <1>1, <1>3 DEF Linked
  <2>3. q.entity \in Living /\ record[q.entity.id] = [table |-> T, row |-> j]
    BY <1>0, <1>1, <1>3 DEF Linked
  <2> QED BY <2>1, <2>2, <2>3
<1>5. PICK a, b : a = r.entity.id /\ b = q.entity.id
  OBVIOUS
<1>6. a # b /\ a \in IX!Ids /\ b \in IX!Ids
  <2>1. a # b
    BY <1>3, <1>4, <1>5
  <2>2. a \in IX!Ids /\ b \in IX!Ids
    BY <1>0, <1>4, <1>5, TypedFacts DEF HandleSet
  <2> QED BY <2>1, <2>2
<1>7. /\ Typed(td, record)
      /\ \A U \in Types : Len(td[U]) = Len(tables[U])
      /\ \A U \in Types : \A k \in 1..Len(tables[U]) :
            td[U][k] = IF U = T /\ k = i THEN q ELSE tables[U][k]
  <2>1. Replaced(tables, record, T, i, q, td)
    BY <1>0, <1>2, <1>4, ReplaceRow, Zenon
  <2> QED BY <2>1, Zenon DEF Replaced
<1>8. tables' = [td EXCEPT ![T] = [@ EXCEPT ![j] = r]]
  <2>1. tables' = [[tables EXCEPT ![T] = [@ EXCEPT ![i] = q]] EXCEPT ![T] = [@ EXCEPT ![j] = r]]
    BY <1>1, Zenon DEF SwapRows
  <2> QED BY <1>2, <2>1, Zenon
<1>9. /\ Typed(tables', record)
      /\ \A U \in Types : Len(tables'[U]) = Len(tables[U])
      /\ \A U \in Types : \A k \in 1..Len(tables[U]) :
            tables'[U][k] = IF U = T /\ k = j THEN r
                            ELSE IF U = T /\ k = i THEN q ELSE tables[U][k]
  <2>1. j \in 1..Len(td[T])
    BY <1>7
  <2>2. Replaced(td, record, T, j, r, tables')
    BY <1>4, <1>7, <1>8, <2>1, ReplaceRow, Zenon
  <2>3. /\ Typed(tables', record)
        /\ \A U \in Types : Len(tables'[U]) = Len(td[U])
        /\ \A U \in Types : \A k \in 1..Len(td[U]) :
              tables'[U][k] = IF U = T /\ k = j THEN r ELSE td[U][k]
    BY <2>2, Zenon DEF Replaced
  <2>4. \A U \in Types : Len(tables'[U]) = Len(tables[U])
    BY <1>7, <2>3, Zenon
  <2>5. ASSUME NEW U \in Types, NEW k \in 1..Len(tables[U])
        PROVE  tables'[U][k] = IF U = T /\ k = j THEN r
                               ELSE IF U = T /\ k = i THEN q ELSE tables[U][k]
    <3>1. k \in 1..Len(td[U])
      BY <1>7, Zenon
    <3>2. tables'[U][k] = IF U = T /\ k = j THEN r ELSE td[U][k]
      BY <2>3, <3>1, Zenon
    <3>3. td[U][k] = IF U = T /\ k = i THEN q ELSE tables[U][k]
      BY <1>7, Zenon
    <3> QED BY <3>2, <3>3
  <2> QED BY <2>3, <2>4, <2>5
<1>10. record' = [record EXCEPT ![a].row = j, ![b].row = i]
  BY <1>1, <1>5, Zenon DEF SwapRows
<1>11. record \in [IX!Ids -> [table : Types, row : Nat]]
  BY <1>0 DEF Typed
<1>12. /\ record' \in [IX!Ids -> [table : Types, row : Nat]]
       /\ record'[a] = [table |-> T, row |-> j] /\ record'[b] = [table |-> T, row |-> i]
       /\ \A id \in IX!Ids : id # a /\ id # b => record'[id] = record[id]
  <2>1. record[a] = [table |-> T, row |-> i] /\ record[b] = [table |-> T, row |-> j]
    BY <1>4, <1>5
  <2>2. record' \in [IX!Ids -> [table : Types, row : Nat]]
    BY <1>3, <1>6, <1>10, <1>11
  <2>3. record'[a] = [table |-> T, row |-> j]
    BY <1>6, <1>10, <1>11, <2>1
  <2>4. record'[b] = [table |-> T, row |-> i]
    BY <1>6, <1>10, <1>11, <2>1
  <2>5. \A id \in IX!Ids : id # a /\ id # b => record'[id] = record[id]
    BY <1>6, <1>10, <1>11
  <2> QED BY <2>2, <2>3, <2>4, <2>5
<1>13. Typed(tables', record')
  BY <1>9, <1>12 DEF Typed
<1>14. tables'[T][i] = q /\ tables'[T][j] = r
  BY <1>3, <1>9
<1>15. ASSUME NEW g \in Living
       PROVE  /\ record'[g.id].table \in Types
              /\ record'[g.id].row \in 1..Len(tables[record'[g.id].table])
              /\ record'[g.id].row # 0
              /\ record'[g.id].table = record[g.id].table
              /\ tables'[record'[g.id].table][record'[g.id].row] =
                   tables[record[g.id].table][record[g.id].row]
              /\ tables[record[g.id].table][record[g.id].row].entity = g
  <2>1. g.id \in IX!Ids
    BY <1>0, TypedFacts DEF HandleSet
  <2>2. /\ record[g.id].table \in Types /\ record[g.id].row \in Nat
        /\ record[g.id].row \in 1..Len(tables[record[g.id].table])
        /\ tables[record[g.id].table][record[g.id].row].entity = g
    BY <1>0, <2>1, TypedFacts DEF Linked
  <2>3. CASE g.id = a
    <3>1. record'[g.id].table = T /\ record'[g.id].row = j
      BY <1>12, <2>3
    <3>2. record[g.id].table = T /\ record[g.id].row = i
      BY <1>4, <1>5, <2>3
    <3>3. tables'[T][j] = tables[T][i]
      BY <1>1, <1>14
    <3>4. j # 0 /\ j \in 1..Len(tables[T]) /\ T \in Types
      BY <1>3
    <3> QED BY <2>2, <3>1, <3>2, <3>3, <3>4, Zenon
  <2>4. CASE g.id = b
    <3>1. record'[g.id].table = T /\ record'[g.id].row = i
      BY <1>12, <2>4
    <3>2. record[g.id].table = T /\ record[g.id].row = j
      BY <1>4, <1>5, <2>4
    <3>3. tables'[T][i] = tables[T][j]
      BY <1>1, <1>14
    <3>4. i # 0 /\ i \in 1..Len(tables[T]) /\ T \in Types
      BY <1>3
    <3> QED BY <2>2, <3>1, <3>2, <3>3, <3>4, Zenon
  <2>5. CASE g.id # a /\ g.id # b
    <3>1. record'[g.id] = record[g.id]
      BY <1>12, <2>1, <2>5
    <3>2. ~(record[g.id].table = T /\ record[g.id].row = i)
      BY <1>1, <1>5, <2>2, <2>5
    <3>3. ~(record[g.id].table = T /\ record[g.id].row = j)
      BY <1>1, <1>5, <2>2, <2>5
    <3>4. tables'[record[g.id].table][record[g.id].row] =
            tables[record[g.id].table][record[g.id].row]
      BY <1>9, <2>2, <3>2, <3>3
    <3>5. record[g.id].row # 0
      BY <1>0, <2>2, TypedFacts
    <3> QED BY <2>2, <3>1, <3>4, <3>5
  <2> QED BY <2>3, <2>4, <2>5
<1>16. Linked(tables', record', Living, {}, 0)
  <2>1. ASSUME NEW g \in Living
        PROVE  /\ record'[g.id].row \in 1..Len(tables'[record'[g.id].table])
               /\ record'[g.id].table # {} \/ record'[g.id].row # 0
               /\ tables'[record'[g.id].table][record'[g.id].row].entity = g
    BY <1>9, <1>15
  <2>2. ASSUME NEW U \in Types, NEW k \in 1..Len(tables'[U])
        PROVE  /\ tables'[U][k].entity \in Living
               /\ record'[tables'[U][k].entity.id] = [table |-> U, row |-> k]
    <3>1. k \in 1..Len(tables[U]) /\ k # 0
      BY <1>0, <1>9, TypedFacts
    <3>2. CASE U = T /\ k = i
      BY <1>4, <1>5, <1>12, <1>14, <3>2
    <3>3. CASE U = T /\ k = j
      BY <1>4, <1>5, <1>12, <1>14, <3>3
    <3>4. CASE ~(U = T /\ k = i) /\ ~(U = T /\ k = j)
      <4>1. tables'[U][k] = tables[U][k]
        BY <1>9, <3>1, <3>4
      <4>2. /\ tables[U][k].entity \in Living
            /\ record[tables[U][k].entity.id] = [table |-> U, row |-> k]
        BY <1>0, <3>1 DEF Linked
      <4>3. tables[U][k].entity.id # a /\ tables[U][k].entity.id # b
        BY <1>4, <1>5, <3>4, <4>2
      <4>4. tables[U][k].entity.id \in IX!Ids
        BY <1>0, <4>2, TypedFacts DEF HandleSet
      <4> QED BY <1>12, <4>1, <4>2, <4>3, <4>4
    <3> QED BY <3>2, <3>3, <3>4
  <2> QED BY <2>1, <2>2 DEF Linked
<1>17. Living' = Living /\ index' = index
  <2>1. index' = index
    BY Zenon DEF SwapRows
  <2> QED BY <2>1 DEF Living
<1>18. Cleared(record', Living)
  <2> SUFFICES ASSUME NEW id \in IX!Ids, record'[id].row > 0
               PROVE  \E e \in Living : e.id = id
    BY DEF Cleared
  <2>1. CASE id = a \/ id = b
    BY <1>4, <1>5, <2>1
  <2>2. CASE id # a /\ id # b
    BY <1>12, <2>2 DEF SInv, Holds, Cleared
  <2> QED BY <2>1, <2>2
<1>19. SInv'
  BY <1>0, <1>13, <1>16, <1>17, <1>18 DEF SInv, Holds
<1>20. View(tables', record', Living) = View(tables, record, Living)
  BY <1>15 DEF View
<1>21. Shown' = Shown
  BY <1>17, <1>20, ShownIsView, Zenon
<1> QED BY <1>19, <1>21 DEF Refines

(* A row that flecs_table_merge moves to table T.                          *)
Merged(r, T) == Row(r.entity, T, MovedValues(r, T))

(* A merged row has the columns of its new table.                          *)
LEMMA MergedFacts ==
    ASSUME NEW T \in Types, NEW U \in Types, NEW r \in RowType(U)
    PROVE  /\ Merged(r, T) \in RowType(T)
           /\ Merged(r, T).entity = r.entity
           /\ Merged(r, T).val = MovedValues(r, T)
<1>1. r.type = U /\ r.val \in [U \cap Data -> Values] /\ r.entity \in IX!Entities
  BY DEF RowType
<1>2. MovedValues(r, T) \in [T \cap Data -> Values]
  BY <1>1, MovedType
<1> QED BY <1>1, <1>2 DEF Merged, Row, RowType

(* ecs_remove_all.                                                         *)
LEMMA RemoveAllRefines ==
    ASSUME SInv, NEW c \in Comps, EcsRemoveAll(c)
    PROVE  Refines
<1>0. Typed(tables, record) /\ HandleSet(Living) /\ Linked(tables, record, Living, {}, 0)
  BY DEF SInv, Holds
<1> DEFINE rest(T)  == [i \in 1..Len(tables[T \cup {c}]) |-> Merged(tables[T \cup {c}][i], T)]
           newtb    == [T \in Types |-> IF c \in T THEN <<>> ELSE tables[T] \o rest(T)]
<1>1. tables' = newtb
  BY Zenon DEF EcsRemoveAll, Merged
<1>2. \A T \in Types : T \cup {c} \in Types /\ T \ {c} \in Types
  BY DEF Types
<1>3. \A T \in Types : /\ Len(tables[T]) \in Nat /\ tables[T] \in Seq(RowType(T))
                       /\ \A i \in 1..Len(tables[T]) : tables[T][i] \in RowType(T)
  BY <1>0, TypedFacts
<1>a. \A n, m \in Nat : /\ \A i \in 1..m : n + i \in 1..(n + m) /\ n + i # 0
                        /\ \A i \in 1..n : i \in 1..(n + m)
  OBVIOUS
<1>4. ASSUME NEW T \in Types, c \notin T
      PROVE  /\ tables'[T] \in Seq(RowType(T))
             /\ Len(tables'[T]) = Len(tables[T]) + Len(tables[T \cup {c}])
             /\ \A k \in 1..Len(tables[T]) : tables'[T][k] = tables[T][k]
             /\ \A i \in 1..Len(tables[T \cup {c}]) :
                   tables'[T][Len(tables[T]) + i] = Merged(tables[T \cup {c}][i], T)
  <2> DEFINE P == T \cup {c}
             n == Len(tables[T])
             m == Len(tables[P])
  <2>1. n \in Nat /\ m \in Nat /\ tables[T] \in Seq(RowType(T)) /\ P \in Types
    BY <1>2, <1>3
  <2>2. \A i \in 1..m : Merged(tables[P][i], T) \in RowType(T)
    <3>1. \A i \in 1..m : tables[P][i] \in RowType(P)
      BY <1>3, <2>1
    <3> HIDE DEF P
    <3> QED BY <2>1, <3>1, MergedFacts
  <2>3. rest(T) = [i \in 1..m |-> Merged(tables[P][i], T)]
    OBVIOUS
  <2> HIDE DEF P, n, m, rest
  <2>4. /\ rest(T) \in Seq(RowType(T)) /\ Len(rest(T)) = m
        /\ \A i \in 1..m : rest(T)[i] = Merged(tables[P][i], T)
    BY <2>1, <2>2, <2>3
  <2> DEFINE cat == tables[T] \o rest(T)
  <2>5. tables'[T] = cat
    BY <1>1, <1>4
  <2>6. /\ cat \in Seq(RowType(T)) /\ Len(cat) = n + m
        /\ \A k \in 1..(n + m) : cat[k] = IF k <= n THEN tables[T][k] ELSE rest(T)[k - n]
    BY <2>1, <2>4, ConcatProperties DEF n
  <2> HIDE DEF cat
  <2>7. \A k \in 1..n : k \in 1..(n + m) /\ k <= n
    BY <2>1
  <2>8. \A i \in 1..m : n + i \in 1..(n + m) /\ ~(n + i <= n) /\ n + i - n = i
    BY <2>1
  <2>9. \A k \in 1..n : tables'[T][k] = tables[T][k]
    BY <2>5, <2>6, <2>7
  <2>10. \A i \in 1..m : tables'[T][n + i] = Merged(tables[P][i], T)
    <3>1. ASSUME NEW i \in 1..m
          PROVE  cat[n + i] = Merged(tables[P][i], T)
      <4>1. PICK k : k = n + i
        OBVIOUS
      <4>2. k \in 1..(n + m) /\ ~(k <= n) /\ k - n = i
        BY <2>1, <4>1
      <4>3. cat[k] = rest(T)[k - n]
        BY <2>6, <4>2, Zenon
      <4>4. cat[k] = rest(T)[i]
        BY <4>2, <4>3, Zenon
      <4> QED BY <2>4, <4>1, <4>4, Zenon
    <3> QED BY <2>5, <3>1, Zenon
  <2> QED BY <2>5, <2>6, <2>9, <2>10 DEF n, m, P
<1>5. ASSUME NEW T \in Types, c \in T
      PROVE  tables'[T] = <<>> /\ tables'[T] \in Seq(RowType(T)) /\ Len(tables'[T]) = 0
  <2>1. tables'[T] = <<>>
    BY <1>1, <1>5
  <2> QED BY <2>1
<1> HIDE DEF newtb, rest
<1>6. /\ record' \in [IX!Ids -> [table : Types, row : Nat]]
      /\ \A id \in IX!Ids :
            /\ record[id].row > 0 /\ c \in record[id].table =>
                  record'[id] = [table |-> record[id].table \ {c},
                                 row |-> Len(tables[record[id].table \ {c}]) + record[id].row]
            /\ ~(record[id].row > 0 /\ c \in record[id].table) => record'[id] = record[id]
  <2>1. \A id \in IX!Ids : /\ record[id] \in [table : Types, row : Nat]
                           /\ record[id].table \in Types /\ record[id].row \in Nat
    BY <1>0 DEF Typed
  <2>2. \A id \in IX!Ids :
          [table |-> record[id].table \ {c},
           row |-> Len(tables[record[id].table \ {c}]) + record[id].row]
            \in [table : Types, row : Nat]
    <3> TAKE id \in IX!Ids
    <3>1. PICK V, n : V = record[id].table \ {c} /\ n = Len(tables[V]) + record[id].row
      OBVIOUS
    <3>2. V \in Types
      BY <1>2, <2>1, <3>1
    <3>3. n \in Nat
      BY <1>3, <2>1, <3>1, <3>2
    <3>4. [table |-> V, row |-> n] \in [table : Types, row : Nat]
      BY <3>2, <3>3
    <3> QED BY <3>1, <3>4, Zenon
  <2>3. record' = [id \in IX!Ids |->
                     IF record[id].row > 0 /\ c \in record[id].table
                     THEN [table |-> record[id].table \ {c},
                           row |-> Len(tables[record[id].table \ {c}]) + record[id].row]
                     ELSE record[id]]
    BY Zenon DEF EcsRemoveAll, MergedRow
  <2> QED BY <2>1, <2>2, <2>3
<1>7. Typed(tables', record')
  <2>1. tables' = [T \in Types |-> tables'[T]]
    BY <1>1 DEF newtb
  <2> QED BY <1>4, <1>5, <1>6, <2>1 DEF Typed
<1>8. ASSUME NEW g \in Living
      PROVE  LET V == record'[g.id].table
                 k == record'[g.id].row
             IN  /\ V = record[g.id].table \ {c} /\ V \in Types
                 /\ k \in 1..Len(tables'[V]) /\ k # 0
                 /\ tables'[V][k].entity = g
                 /\ [type |-> V, val |-> tables'[V][k].val]
                      = Retyped(View(tables, record, Living)[g], V)
  <2>1. PICK U, i : U = record[g.id].table /\ i = record[g.id].row
    OBVIOUS
  <2>2. RowFacts(tables, record, Living, g, U, i)
    BY <1>0, <2>1, ViewFacts, Zenon
  <2>3. /\ View(tables, record, Living)[g] = [type |-> U, val |-> tables[U][i].val]
        /\ U \in Types /\ i \in 1..Len(tables[U]) /\ g.id \in IX!Ids
        /\ tables[U][i] \in RowType(U) /\ tables[U][i].entity = g /\ tables[U][i].type = U
        /\ tables[U][i].val \in [U \cap Data -> Values]
    BY <2>2, Zenon DEF RowFacts
  <2>4. i \in Nat /\ i > 0 /\ Len(tables[U]) \in Nat
    BY <1>3, <2>3
  <2> DEFINE V == U \ {c}
  <2>5. V \in Types /\ c \notin V /\ Len(tables[V]) \in Nat
    BY <1>2, <1>3, <2>3
  <2>6. \A x : x.type = U /\ x.val = tables[U][i].val =>
                  MovedValues(x, V) = MovedValues(tables[U][i], V)
    BY <2>3 DEF MovedValues
  <2>7. Retyped(View(tables, record, Living)[g], V) =
           [type |-> V, val |-> MovedValues(tables[U][i], V)]
    <3>1. PICK x : x = View(tables, record, Living)[g]
      OBVIOUS
    <3>2. x.type = U /\ x.val = tables[U][i].val
      BY <2>3, <3>1
    <3> HIDE DEF V
    <3> QED BY <2>6, <3>1, <3>2 DEF Retyped
  <2>8. CASE c \in U
    <3>1. V \cup {c} = U
      BY <2>8
    <3>2. record'[g.id] = [table |-> V, row |-> Len(tables[V]) + i]
      BY <1>6, <2>1, <2>3, <2>4, <2>8
    <3> HIDE DEF V
    <3>3. /\ Len(tables'[V]) = Len(tables[V]) + Len(tables[U])
          /\ tables'[V][Len(tables[V]) + i] = Merged(tables[U][i], V)
      BY <1>4, <2>3, <2>5, <3>1
    <3>4. Len(tables[V]) + i \in 1..Len(tables'[V]) /\ Len(tables[V]) + i # 0
      BY <1>a, <2>3, <2>4, <2>5, <3>3, Zenon
    <3>5. /\ Merged(tables[U][i], V).entity = g
          /\ Merged(tables[U][i], V).val = MovedValues(tables[U][i], V)
      BY <2>3, <2>5, MergedFacts
    <3>6. record'[g.id].table = V /\ record'[g.id].row = Len(tables[V]) + i
      BY <3>2
    <3>7. record[g.id].table \ {c} = V
      BY <2>1 DEF V
    <3> QED BY <2>5, <2>7, <3>3, <3>4, <3>5, <3>6, <3>7, Zenon
  <2>9. CASE c \notin U
    <3>1. V = U
      BY <2>9
    <3>2. record'[g.id].table = U /\ record'[g.id].row = i
      BY <1>6, <2>1, <2>3, <2>9
    <3> HIDE DEF V
    <3>3. tables'[U][i] = tables[U][i] /\ i \in 1..Len(tables'[U])
      <4>1. Len(tables[U \cup {c}]) \in Nat
        BY <1>2, <1>3, <2>3
      <4>2. tables'[U][i] = tables[U][i] /\ Len(tables'[U]) = Len(tables[U]) + Len(tables[U \cup {c}])
        BY <1>4, <2>3, <2>9
      <4>3. PICK n, m : n = Len(tables[U]) /\ m = Len(tables[U \cup {c}])
        OBVIOUS
      <4>4. i \in 1..n /\ n \in Nat /\ m \in Nat
        BY <2>3, <2>4, <4>1, <4>3, Zenon
      <4>5. i \in 1..(n + m)
        BY <4>4
      <4> QED BY <4>2, <4>3, <4>5, Zenon
    <3>4. MovedValues(tables[U][i], U) = tables[U][i].val
      BY <2>3, MovedType
    <3>5. record[g.id].table \ {c} = V
      BY <2>1 DEF V
    <3>6. i # 0
      BY <2>4
    <3> QED BY <2>3, <2>5, <2>7, <3>1, <3>2, <3>3, <3>4, <3>5, <3>6, Zenon
  <2> QED BY <2>8, <2>9
<1>9. ASSUME NEW T \in Types, NEW k \in 1..Len(tables'[T])
      PROVE  /\ tables'[T][k].entity \in Living
             /\ record'[tables'[T][k].entity.id] = [table |-> T, row |-> k]
  <2>1. c \notin T
    BY <1>5
  <2> DEFINE P == T \cup {c}
             n == Len(tables[T])
             m == Len(tables[P])
  <2>2. n \in Nat /\ m \in Nat /\ P \in Types /\ P \ {c} = T /\ c \in P
    BY <1>2, <1>3, <2>1
  <2>3. k \in 1..(n + m)
    BY <1>4, <2>1
  <2>4. \A h \in Living : h.id \in IX!Ids
    BY <1>0, TypedFacts DEF HandleSet
  <2>5. CASE k <= n
    <3>1. k \in 1..Len(tables[T]) /\ k # 0
      BY <2>2, <2>3, <2>5
    <3>2. tables'[T][k] = tables[T][k]
      BY <1>4, <2>1, <3>1
    <3>3. /\ tables[T][k].entity \in Living
          /\ record[tables[T][k].entity.id] = [table |-> T, row |-> k]
      BY <1>0, <3>1 DEF Linked
    <3>4. record'[tables[T][k].entity.id] = record[tables[T][k].entity.id]
      <4>1. tables[T][k].entity.id \in IX!Ids /\ c \notin record[tables[T][k].entity.id].table
        BY <2>1, <2>4, <3>3
      <4> QED BY <1>6, <4>1, Zenon
    <3> QED BY <3>2, <3>3, <3>4, Zenon
  <2>6. CASE k > n
    <3>1. PICK i \in 1..m : k = n + i /\ i # 0 /\ i > 0
      <4> HIDE DEF n, m
      <4>1. k - n \in 1..m /\ k = n + (k - n) /\ k - n # 0 /\ k - n > 0
        BY <2>2, <2>3, <2>6
      <4> QED BY <4>1
    <3>2. tables'[T][k] = Merged(tables[P][i], T)
      BY <1>4, <2>1, <3>1
    <3>3. tables[P][i] \in RowType(P)
      BY <1>3, <2>2
    <3> HIDE DEF P
    <3>4. /\ tables[P][i].entity \in Living
          /\ record[tables[P][i].entity.id] = [table |-> P, row |-> i]
      BY <1>0, <2>2, <3>1 DEF Linked
    <3>5. tables'[T][k].entity = tables[P][i].entity
      BY <2>2, <3>2, <3>3, MergedFacts
    <3>6. record'[tables[P][i].entity.id] = [table |-> T, row |-> n + i]
      <4>1. PICK id : id = tables[P][i].entity.id
        OBVIOUS
      <4>2. id \in IX!Ids /\ record[id].table = P /\ record[id].row = i
        BY <2>4, <3>4, <4>1
      <4>3. record'[id] = [table |-> record[id].table \ {c},
                           row |-> Len(tables[record[id].table \ {c}]) + record[id].row]
        BY <1>6, <2>2, <3>1, <4>2
      <4> QED BY <2>2, <4>1, <4>2, <4>3
    <3> QED BY <3>1, <3>4, <3>5, <3>6
  <2> QED BY <2>2, <2>3, <2>5, <2>6
<1>10. Linked(tables', record', Living, {}, 0)
  <2>1. \A g \in Living : /\ record'[g.id].row \in 1..Len(tables'[record'[g.id].table])
                          /\ record'[g.id].table # {} \/ record'[g.id].row # 0
                          /\ tables'[record'[g.id].table][record'[g.id].row].entity = g
    BY <1>8, Zenon
  <2> QED BY <1>9, <2>1, Zenon DEF Linked
<1>11. Living' = Living /\ index' = index
  <2>1. index' = index
    BY Zenon DEF EcsRemoveAll
  <2> QED BY <2>1 DEF Living
<1>12. Cleared(record', Living)
  <2> SUFFICES ASSUME NEW id \in IX!Ids, record'[id].row > 0
               PROVE  \E e \in Living : e.id = id
    BY DEF Cleared
  <2>1. record[id].row > 0
    BY <1>6
  <2> QED BY <2>1 DEF SInv, Holds, Cleared
<1>13. SInv'
  BY <1>0, <1>7, <1>10, <1>11, <1>12 DEF SInv, Holds
<1>14. \A g \in Living : Shown[g].type = record[g.id].table
  BY DEF Shown, Living
<1>15. Shown' = [g \in Living |-> Retyped(Shown[g], Shown[g].type \ {c})]
  <2>1. ASSUME NEW g \in Living
        PROVE  [type |-> record'[g.id].table,
                val |-> tables'[record'[g.id].table][record'[g.id].row].val]
                 = Retyped(Shown[g], Shown[g].type \ {c})
    <3>1. PICK V : V = record'[g.id].table
      OBVIOUS
    <3>2. /\ V = Shown[g].type \ {c}
          /\ [type |-> V, val |-> tables'[V][record'[g.id].row].val]
               = Retyped(View(tables, record, Living)[g], V)
      BY <1>8, <1>14, <3>1, Zenon
    <3>3. View(tables, record, Living)[g] = Shown[g]
      BY ShownIsView, Zenon
    <3> QED BY <3>1, <3>2, <3>3, Zenon
  <2>2. Shown' = View(tables', record', Living)
    BY <1>11, ShownIsView, Zenon
  <2> QED BY <2>1, <2>2 DEF View
<1>16. Abs!StoreNext
  BY <1>15, RemoveAllStep, Zenon
<1> QED BY <1>13, <1>16 DEF Refines

(* A nonempty set of numbers has a least one: what holds of the first k    *)
(* removals is shown for the least k for which it might fail.              *)
LEMMA Least ==
    ASSUME NEW S \in SUBSET Nat, S # {}
    PROVE  \E m \in S : \A k \in S : m <= k
<1> DEFINE Less == {ss \in Nat \X Nat : ss[1] < ss[2]}
<1>1. IsWellFoundedOn(Less, Nat)
  BY NatLessThanWellFounded, Zenon DEF OpToRel
<1>2. PICK x \in S : \A y \in S : ~(<<y, x>> \in Less)
  BY <1>1, WFMin, Zenon
<1>3. ASSUME NEW k \in S PROVE x <= k
  <2>1. x \in Nat /\ k \in Nat /\ <<k, x>> \in Nat \X Nat
    OBVIOUS
  <2>2. k < x => <<k, x>> \in Less
    BY <2>1
  <2> QED BY <1>2, <2>1, <2>2
<1> QED BY <1>3

(* The removals from an index ix, one after the other.                     *)
IsRemovals(ix, n, es, f) ==
    f = [k \in 0..n |-> IF k = 0 THEN ix ELSE IX!Remove(f[k - 1], es[k])]

(* There is a function of the removals.                                    *)
LEMMA RemovalsExist ==
    ASSUME NEW ix, NEW es, NEW n \in Nat
    PROVE  \E f : IsRemovals(ix, n, es, f)
<1> DEFINE S == {m \in Nat : ~ \E f : IsRemovals(ix, m, es, f)}
<1> SUFFICES ASSUME S # {} PROVE FALSE
  OBVIOUS
<1>1. PICK m \in S : \A k \in S : m <= k
  <2>1. S \in SUBSET Nat
    OBVIOUS
  <2> HIDE DEF S
  <2> QED BY <2>1, Least
<1>2. CASE m = 0
  <2> DEFINE f == [k \in 0..0 |-> ix]
  <2>1. IsRemovals(ix, 0, es, f)
    BY DEF IsRemovals
  <2> QED BY <1>2, <2>1
<1>3. CASE m # 0
  <2>1. m - 1 \in Nat /\ m - 1 \notin S
    BY <1>1, <1>3
  <2>2. PICK f : IsRemovals(ix, m - 1, es, f)
    BY <2>1
  <2> DEFINE h == [k \in 0..m |-> IF k = 0 THEN ix ELSE IX!Remove(f[k - 1], es[k])]
  <2>3. \A k \in 0..(m - 1) : h[k] = f[k]
    BY <2>1, <2>2 DEF IsRemovals
  <2>4. \A k \in 0..m : k # 0 => k - 1 \in 0..(m - 1)
    BY <2>1
  <2>5. IsRemovals(ix, m, es, h)
    BY <2>3, <2>4 DEF IsRemovals
  <2> QED BY <2>5
<1> QED BY <1>2, <1>3

(* The recursive definition of the model has that function.                *)
LEMMA RemovalsFacts ==
    ASSUME NEW n \in Nat, NEW es
    PROVE  IsRemovals(index, n, es, Removals(n, es))
<1>1. Removals(n, es) = CHOOSE f : IsRemovals(index, n, es, f)
  BY DEF Removals, IsRemovals
<1> QED BY <1>1, RemovalsExist, Zenon

(* The entities that are alive after k removals of different ones.         *)
LEMMA RemovalsTake ==
    ASSUME NEW ix, Good(ix), NEW n \in Nat, NEW es, NEW f, IsRemovals(ix, n, es, f),
           \A k \in 1..n : es[k] \in AliveEntities(ix),
           \A j, k \in 1..n : es[j] = es[k] => j = k
    PROVE  /\ Good(f[n])
           /\ AliveEntities(f[n]) = AliveEntities(ix) \ {es[k] : k \in 1..n}
<1> DEFINE H(k) == AliveEntities(ix) \ {es[j] : j \in 1..k}
           P(k) == Good(f[k]) /\ AliveEntities(f[k]) = H(k)
           S    == {k \in Nat : k <= n /\ ~P(k)}
<1>1. /\ f[0] = ix
      /\ \A k \in 1..n : f[k] = IX!Remove(f[k - 1], es[k])
  BY DEF IsRemovals
<1>2. ASSUME S # {} PROVE FALSE
  <2>1. PICK m \in S : \A k \in S : m <= k
    <3>1. S \in SUBSET Nat
      OBVIOUS
    <3> HIDE DEF S
    <3> QED BY <1>2, <3>1, Least
  <2>2. m \in Nat /\ m <= n /\ ~P(m)
    OBVIOUS
  <2>3. CASE m = 0
    <3>1. H(0) = AliveEntities(ix)
      OBVIOUS
    <3> HIDE DEF H
    <3> QED BY <1>1, <2>2, <2>3, <3>1
  <2>4. CASE m # 0
    <3>1. m - 1 \in Nat /\ m - 1 <= n /\ ~(m <= m - 1) /\ m \in 1..n
      BY <2>2, <2>4
    <3>2. P(m - 1)
      BY <2>1, <3>1
    <3>3. es[m] \in H(m - 1)
      <4>1. \A j \in 1..(m - 1) : j \in 1..n /\ j # m
        BY <2>2, <3>1
      <4> QED BY <3>1, <4>1
    <3>4. H(m) = H(m - 1) \ {es[m]}
      <4>1. 1..m = (1..(m - 1)) \cup {m}
        BY <2>2, <3>1
      <4> QED BY <4>1
    <3> HIDE DEF H
    <3>5. f[m] = IX!Remove(f[m - 1], es[m])
      BY <1>1, <3>1
    <3>6. Good(f[m]) /\ AliveEntities(f[m]) = AliveEntities(f[m - 1]) \ {es[m]}
      BY <3>2, <3>3, <3>5, RemoveTakes
    <3> QED BY <2>2, <3>2, <3>4, <3>6
  <2> QED BY <2>3, <2>4
<1>3. P(n)
  <2>1. n <= n
    OBVIOUS
  <2> HIDE DEF P
  <2> QED BY <1>2, <2>1
<1> QED BY <1>3

(* ecs_delete_with.                                                        *)
LEMMA DeleteWithRefines ==
    ASSUME SInv, NEW c \in Comps, EcsDeleteWith(c)
    PROVE  Refines
<1> DEFINE H2 == {h \in Living : c \notin record[h.id].table}
<1>0. /\ Typed(tables, record) /\ HandleSet(Living) /\ Linked(tables, record, Living, {}, 0)
      /\ Good(index)
  BY DEF SInv, Holds
<1>1. Good(index') /\ Living' = H2
  <2>1. PICK n \in 0..MaxId : \E es \in Bijection(1..n, With(c)) :
           TableByTable(n, es) /\ index' = Removals(n, es)[n]
    BY Zenon DEF EcsDeleteWith
  <2>2. PICK es \in Bijection(1..n, With(c)) : index' = Removals(n, es)[n]
    BY <2>1
  <2>3. n \in Nat
    BY MaxIdAssumption
  <2>4. /\ es \in [1..n -> With(c)] /\ \A j, k \in 1..n : es[j] = es[k] => j = k
        /\ \A h \in With(c) : \E k \in 1..n : es[k] = h
    BY DEF Bijection, Injection, Surjection, IsInjective
  <2>5. With(c) = {h \in Living : c \in record[h.id].table}
    BY DEF With, Living
  <2>6. {es[k] : k \in 1..n} = With(c)
    BY <2>4
  <2>7. \A k \in 1..n : es[k] \in AliveEntities(index)
    BY <2>4, <2>5 DEF Living
  <2>8. PICK f : f = Removals(n, es) /\ IsRemovals(index, n, es, f)
    BY <2>3, RemovalsFacts
  <2>9. /\ Good(f[n])
        /\ AliveEntities(f[n]) = AliveEntities(index) \ {es[k] : k \in 1..n}
    BY <1>0, <2>3, <2>4, <2>7, <2>8, RemovalsTake
  <2>10. AliveEntities(index') = AliveEntities(index) \ With(c)
    BY <2>2, <2>6, <2>8, <2>9
  <2> QED BY <2>2, <2>5, <2>8, <2>9, <2>10 DEF Living
<1>2. HandleSet(H2)
  BY <1>0 DEF HandleSet
<1>3. /\ tables' = [T \in Types |-> IF c \in T THEN <<>> ELSE tables[T]]
      /\ record' = [id \in IX!Ids |-> IF c \in record[id].table THEN NoRecord ELSE record[id]]
  BY Zenon DEF EcsDeleteWith
<1>4. \A T \in Types : /\ c \in T => tables'[T] = <<>>
                       /\ c \notin T => tables'[T] = tables[T]
  BY <1>3
<1>5. \A id \in IX!Ids : /\ c \in record[id].table => record'[id] = NoRecord
                         /\ c \notin record[id].table => record'[id] = record[id]
  BY <1>3
<1>6. NoRecord \in [table : Types, row : Nat] /\ NoRecord.row = 0
  BY DEF NoRecord, Types
<1>7. Typed(tables', record')
  <2>1. ASSUME NEW T \in Types PROVE tables'[T] \in Seq(RowType(T))
    <3>1. tables[T] \in Seq(RowType(T))
      BY <1>0 DEF Typed
    <3>2. << >> \in Seq(RowType(T))
      OBVIOUS
    <3> QED BY <1>4, <3>1, <3>2, Zenon
  <2>2. record' \in [IX!Ids -> [table : Types, row : Nat]]
    BY <1>0, <1>3, <1>6 DEF Typed
  <2>3. tables' = [T \in Types |-> tables'[T]]
    BY <1>3
  <2> QED BY <2>1, <2>2, <2>3 DEF Typed
<1>8. ASSUME NEW h \in H2
      PROVE  /\ record'[h.id] = record[h.id]
             /\ tables'[record[h.id].table] = tables[record[h.id].table]
  <2>1. h.id \in IX!Ids /\ record[h.id].table \in Types
    BY <1>0, TypedFacts DEF HandleSet
  <2> QED BY <1>4, <1>5, <2>1
<1>9. Linked(tables', record', H2, {}, 0)
  <2>1. ASSUME NEW h \in H2
        PROVE  /\ record'[h.id].row \in 1..Len(tables'[record'[h.id].table])
               /\ record'[h.id].table # {} \/ record'[h.id].row # 0
               /\ tables'[record'[h.id].table][record'[h.id].row].entity = h
    <3>1. /\ record[h.id].row \in 1..Len(tables[record[h.id].table])
          /\ record[h.id].table # {} \/ record[h.id].row # 0
          /\ tables[record[h.id].table][record[h.id].row].entity = h
      BY <1>0 DEF Linked
    <3> QED BY <1>8, <3>1
  <2>2. ASSUME NEW T \in Types, NEW k \in 1..Len(tables'[T])
        PROVE  /\ tables'[T][k].entity \in H2
               /\ record'[tables'[T][k].entity.id] = [table |-> T, row |-> k]
    <3>1. c \notin T /\ tables'[T] = tables[T]
      BY <1>4
    <3>2. k \in 1..Len(tables[T]) /\ k # 0
      BY <1>0, <3>1, TypedFacts
    <3>3. /\ tables[T][k].entity \in Living
          /\ record[tables[T][k].entity.id] = [table |-> T, row |-> k]
      BY <1>0, <3>2 DEF Linked
    <3>4. tables[T][k].entity \in H2
      BY <3>1, <3>3
    <3> HIDE DEF H2
    <3> QED BY <1>8, <3>1, <3>3, <3>4
  <2> HIDE DEF H2
  <2> QED BY <2>1, <2>2 DEF Linked
<1>10. Cleared(record', H2)
  <2> SUFFICES ASSUME NEW id \in IX!Ids, record'[id].row > 0
               PROVE  \E e \in H2 : e.id = id
    BY DEF Cleared
  <2>1. c \notin record[id].table /\ record[id].row > 0
    BY <1>5, <1>6
  <2>2. PICK e \in Living : e.id = id
    BY <2>1 DEF SInv, Holds, Cleared
  <2> QED BY <2>1, <2>2
<1>11. SInv'
  BY <1>1, <1>2, <1>7, <1>9, <1>10 DEF SInv, Holds
<1>12. Shown' = [f \in H2 |-> Shown[f]]
  <2>1. ASSUME NEW f \in H2
        PROVE  [type |-> record'[f.id].table,
                val |-> tables'[record'[f.id].table][record'[f.id].row].val] = Shown[f]
    <3>1. Shown[f] = [type |-> record[f.id].table,
                      val |-> tables[record[f.id].table][record[f.id].row].val]
      BY ShownIsView DEF View
    <3> HIDE DEF H2
    <3> QED BY <1>8, <3>1, Zenon
  <2>2. Shown' = View(tables', record', H2)
    BY <1>1, ShownIsView, Zenon
  <2> HIDE DEF H2
  <2> QED BY <2>1, <2>2 DEF View
<1>13. Abs!StoreNext
  BY <1>12, DestroyAllStep, Zenon
<1> QED BY <1>11, <1>13 DEF Refines

-----------------------------------------------------------------------------
(* The theorems.                                                           *)

(* An empty world satisfies the invariant.                                 *)
LEMMA StorageInit == Init => SInv /\ Abs!StoreInit
<1> SUFFICES ASSUME Init PROVE SInv /\ Abs!StoreInit
  OBVIOUS
<1>1. Good(index)
  <2>1. IXP!Init
    BY SameSets DEF Init, IXP!Init, IX!EmptyIndex, IXP!EmptyIndex
  <2>2. IXP!IInv
    BY <2>1, MaxIdAssumption, GenCountAssumption, IXP!InitInv
  <2> QED BY <2>2, SameQueries DEF IXP!IInv
<1>2. Living = {}
  BY DEF Init, Living, AliveEntities, AliveIds, IX!IdIsAlive, IX!Exists, IX!EmptyIndex,
         IX!EntityIds
<1>3. Typed(tables, record)
  <2>1. \A T \in Types : tables[T] \in Seq(RowType(T))
    BY DEF Init
  <2>2. record \in [IX!Ids -> [table : Types, row : Nat]]
    BY DEF Init, NoRecord, Types
  <2>3. tables = [T \in Types |-> tables[T]]
    BY DEF Init
  <2> QED BY <2>1, <2>2, <2>3 DEF Typed
<1>4. \A T \in Types : Len(tables[T]) = 0
  BY DEF Init
<1>5. Linked(tables, record, {}, {}, 0)
  BY <1>4 DEF Linked
<1>6. HandleSet({}) /\ Cleared(record, {})
  BY DEF Init, NoRecord, HandleSet, Cleared
<1>7. SInv
  BY <1>1, <1>2, <1>3, <1>5, <1>6 DEF SInv, Holds
<1>8. Abs!StoreInit
  BY <1>2 DEF Abs!StoreInit, Shown, Living
<1> QED BY <1>7, <1>8

(* Every step keeps the invariant and is one of the abstract store.        *)
LEMMA StorageNext ==
    ASSUME SInv, [Next]_vars
    PROVE  SInv' /\ (Abs!StoreNext \/ Shown' = Shown)
<1>1. ASSUME NEW T \in Types, EcsNew(T) PROVE Refines
  BY <1>1, NewRefines
<1>2. ASSUME NEW T \in Types, NEW v \in [T \cap Data -> Values], NEW n \in 1..MaxId,
             EcsBulkNew(n, T, v)
      PROVE  Refines
  <2>1. n \in Nat \ {0}
    BY MaxIdAssumption
  <2> QED BY <1>2, <2>1, BulkNewRefines
<1>3. ASSUME NEW T \in Types, NEW v \in [T \cap Data -> Values], NEW e \in IX!Entities,
             EcsBulkInit(e, T, v)
      PROVE  Refines
  BY <1>3, BulkInitRefines
<1>4. ASSUME NEW T \in Types, NEW i \in 1..Len(tables[T]), NEW j \in 1..Len(tables[T]),
             i < j, SwapRows(T, i, j)
      PROVE  Refines
  BY <1>4, SwapRefines
<1>5. ASSUME NEW e \in IX!Entities, EcsMakeAlive(e) PROVE Refines
  BY <1>5, MakeAliveRefines
<1>6. ASSUME NEW e \in IX!Entities, EcsSetVersion(e) PROVE Refines
  BY <1>6, SetVersionRefines
<1>7. ASSUME NEW e \in IX!Entities, EcsClear(e) PROVE Refines
  BY <1>7, ClearRefines
<1>8. ASSUME NEW e \in IX!Entities, EcsDelete(e) PROVE Refines
  BY <1>8, DeleteRefines
<1>9. ASSUME NEW e \in IX!Entities, NEW c \in Comps, EcsAdd(e, c) \/ EcsRemove(e, c)
      PROVE  Refines
  BY <1>9, AddRefines
<1>10. ASSUME NEW e \in IX!Entities, NEW c \in Data, NEW v \in Values, EcsSet(e, c, v)
       PROVE  Refines
  BY <1>10, SetRefines
<1>11. ASSUME NEW c \in Comps, EcsRemoveAll(c) PROVE Refines
  BY <1>11, RemoveAllRefines
<1>12. ASSUME NEW c \in Comps, EcsDeleteWith(c) PROVE Refines
  BY <1>12, DeleteWithRefines
<1>13. CASE UNCHANGED vars
  <2>1. index' = index /\ tables' = tables /\ record' = record
    BY <1>13 DEF vars
  <2>2. Living' = Living
    BY <2>1 DEF Living
  <2>3. SInv'
    BY <2>1, <2>2 DEF SInv
  <2>4. Shown' = Shown
    BY <2>1, <2>2, ShownIsView
  <2> QED BY <2>3, <2>4
<1>14. CASE Next
  <2>1. Refines
    BY <1>1, <1>2, <1>3, <1>4, <1>5, <1>6, <1>7, <1>8, <1>9, <1>10, <1>11, <1>12, <1>14,
       Zenon DEF Next
  <2> QED BY <2>1 DEF Refines
<1> QED BY <1>13, <1>14

(* The invariant is the one the runs check.                                *)
LEMMA SInvImplies == SInv => StorageInv
<1> SUFFICES ASSUME SInv PROVE StorageInv
  OBVIOUS
<1>0. /\ Typed(tables, record) /\ HandleSet(Living) /\ Linked(tables, record, Living, {}, 0)
      /\ Good(index) /\ Cleared(record, Living)
  BY DEF SInv, Holds
<1>1. TypeOK
  BY <1>0 DEF TypeOK, Good, Typed
<1>2. ASSUME NEW id \in IX!Ids
      PROVE  (record[id].row > 0) <=> IX!IdIsAlive(index, id)
  <2>1. ASSUME record[id].row > 0 PROVE IX!IdIsAlive(index, id)
    <3>1. PICK e \in Living : e.id = id
      BY <1>0, <2>1 DEF Cleared
    <3> QED BY <1>0, <3>1, AliveFacts DEF Living
  <2>2. ASSUME IX!IdIsAlive(index, id) PROVE record[id].row > 0
    <3>1. PICK e \in Living : e.id = id
      BY <1>0, <2>2, AliveFacts DEF Living
    <3>2. record[e.id].row \in 1..Len(tables[record[e.id].table])
      BY <1>0 DEF Linked
    <3>3. record[e.id].table \in Types /\ record[e.id].row \in Nat
      BY <1>0, TypedFacts DEF HandleSet
    <3>4. Len(tables[record[e.id].table]) \in Nat
      BY <1>0, <3>3, TypedFacts
    <3> QED BY <3>1, <3>2, <3>3, <3>4
  <2> QED BY <2>1, <2>2
<1>3. ASSUME NEW e \in AliveEntities(index)
      PROVE  record[e.id].row \in 1..Len(tables[record[e.id].table]) /\ RowOf(e).entity = e
  BY <1>0 DEF Linked, Living, RowOf
<1>4. ASSUME NEW T \in Types, NEW i \in 1..Len(tables[T])
      PROVE  /\ IsAlive(tables[T][i].entity)
             /\ record[tables[T][i].entity.id] = [table |-> T, row |-> i]
  <2>1. i # 0
    BY <1>0, TypedFacts
  <2>2. /\ tables[T][i].entity \in Living
        /\ record[tables[T][i].entity.id] = [table |-> T, row |-> i]
    BY <1>0, <2>1 DEF Linked
  <2> QED BY <1>0, <2>2, AliveFacts DEF IsAlive, Living
<1>5. RecordsMatchRows
  BY <1>2, <1>3, <1>4 DEF RecordsMatchRows
<1> QED BY <1>1, <1>5 DEF StorageInv

(* Records and rows agree after every operation, for any number of ids,    *)
(* components and values (entity.c, table.c).                              *)
THEOREM StorageCorrect == Spec => []StorageInv
<1>1. Init => SInv
  BY StorageInit
<1>2. SInv /\ [Next]_vars => SInv'
  BY StorageNext
<1> QED BY <1>1, <1>2, SInvImplies, PTL DEF Spec

(* The tables implement the abstract store: the values of an entity follow *)
(* it wherever its row goes, and no operation on an entity is visible in   *)
(* another one.                                                            *)
THEOREM StoreRefined == Spec => ImplementsStore
<1>1. Init => SInv /\ Abs!StoreInit
  BY StorageInit
<1>2. SInv /\ [Next]_vars => SInv' /\ [Abs!StoreNext]_Shown
  BY StorageNext
<1> QED BY <1>1, <1>2, PTL DEF Spec, ImplementsStore, Abs!StoreSpec
=============================================================================
