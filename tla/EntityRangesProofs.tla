------------------------- MODULE EntityRangesProofs -------------------------
(***************************************************************************)
(* Proofs about the entity index with ranges, for any id space and any     *)
(* ranges that do not overlap, of an application that lays no range over   *)
(* ids in use and revives no id that an inactive range has recycled, until *)
(* ecs_bulk_new runs over the end of a range. Such an index is no longer   *)
(* bounded by max_id, so the lemmas of EntityIndexProofs for sound indexes *)
(* are used.                                                               *)
(***************************************************************************)
EXTENDS EntityRanges, SequenceTheorems, TLAPS

IXP == INSTANCE EntityIndexProofs

(* An index with its array and its records linked.                         *)
Sound(ix) == /\ ix \in IX!IndexType
             /\ IX!Linked(ix)
             /\ ix.alive_count \in 1..IX!Count(ix)
             /\ ~IX!Exists(ix, 0)

(* The id exists and is not alive: it can be recycled.                     *)
IsDead(ix, id) == IX!Exists(ix, id) /\ ~IX!IdIsAlive(ix, id)

(* iy says of id what ix says of it.                                       *)
SameAt(ix, iy, id) ==
    /\ IX!Exists(iy, id) <=> IX!Exists(ix, id)
    /\ IX!IdIsAlive(iy, id) <=> IX!IdIsAlive(ix, id)
    /\ IX!Exists(ix, id) => IX!Entry(iy, id) = IX!Entry(ix, id)

-----------------------------------------------------------------------------
(* The index of the ranges is the one EntityIndexProofs is about.          *)
LEMMA SameSets ==
    /\ IX!Ids = IXP!Ids /\ IX!EntityIds = IXP!EntityIds /\ IX!Entities = IXP!Entities
    /\ IX!Handles = IXP!Handles
BY DEF IX!Entities, IXP!Entities, IX!EntityIds, IXP!EntityIds, IX!Ids, IXP!Ids,
       IX!Gens, IXP!Gens, IX!Handles, IXP!Handles

LEMMA SameQueries ==
    ASSUME NEW ix
    PROVE  /\ Sound(ix) <=> IXP!Sound(ix)
           /\ \A id : /\ IX!Exists(ix, id) <=> IXP!Exists(ix, id)
                      /\ IX!IdIsAlive(ix, id) <=> IXP!IdIsAlive(ix, id)
                      /\ IX!Entry(ix, id) = IXP!Entry(ix, id)
           /\ \A e : IX!IsAlive(ix, e) <=> IXP!IsAlive(ix, e)
           /\ \A iy, id : SameAt(ix, iy, id) <=> IXP!SameAt(ix, iy, id)
<1>1. Sound(ix) <=> IXP!Sound(ix)
  BY DEF Sound, IXP!Sound, IX!IndexType, IXP!IndexType, IX!Linked, IXP!Linked,
         IX!Exists, IXP!Exists, IX!Entry, IXP!Entry, IX!Count, IXP!Count,
         IX!Ids, IXP!Ids, IX!Handles, IXP!Handles, IX!Gens, IXP!Gens
<1>2. \A iy, id : /\ IX!Exists(iy, id) <=> IXP!Exists(iy, id)
                  /\ IX!IdIsAlive(iy, id) <=> IXP!IdIsAlive(iy, id)
                  /\ IX!Entry(iy, id) = IXP!Entry(iy, id)
  BY DEF IX!Exists, IXP!Exists, IX!IdIsAlive, IXP!IdIsAlive, IX!Entry, IXP!Entry
<1> QED BY <1>1, <1>2 DEF SameAt, IXP!SameAt, IX!IsAlive, IXP!IsAlive

LEMMA SameOperations ==
    ASSUME NEW ix, NEW e
    PROVE  /\ IX!Ensure(ix, e) = IXP!Ensure(ix, e)
           /\ IX!Remove(ix, e) = IXP!Remove(ix, e)
           /\ IX!MakeAlive(ix, e) = IXP!MakeAlive(ix, e)
           /\ IX!GenerationInc(e) = IXP!GenerationInc(e)
<1>1. IX!Ensure(ix, e) = IXP!Ensure(ix, e)
  BY DEF IX!Ensure, IXP!Ensure, IX!IdIsAlive, IXP!IdIsAlive, IX!Exists, IXP!Exists,
         IX!Swap2, IXP!Swap2, IX!MaxOf, IXP!MaxOf
<1>2. IX!GenerationInc(e) = IXP!GenerationInc(e)
  BY DEF IX!GenerationInc, IXP!GenerationInc
<1>3. IX!Remove(ix, e) = IXP!Remove(ix, e)
  BY <1>2 DEF IX!Remove, IXP!Remove, IX!Swap2, IXP!Swap2
<1>4. IX!MakeAlive(ix, e) = IXP!MakeAlive(ix, e)
  BY DEF IX!MakeAlive, IXP!MakeAlive, IX!Exists, IXP!Exists
<1> QED BY <1>1, <1>2, <1>3, <1>4

LEMMA SameCreation ==
    ASSUME NEW ix, NEW n
    PROVE  /\ IX!NewIds(ix, n) = IXP!NewIds(ix, n)
           /\ IX!FreshNeeded(ix, n) = IXP!FreshNeeded(ix, n)
           /\ IX!NewId(ix) = IXP!NewId(ix)
           /\ IX!CanRecycle(ix) <=> IXP!CanRecycle(ix)
           /\ \A iy : IXP!Created(ix, iy, n) =
                 {id \in IX!Ids : /\ iy.record[id] >= ix.alive_count
                                  /\ iy.record[id] < ix.alive_count + n}
<1>1. IX!FreshNeeded(ix, n) = IXP!FreshNeeded(ix, n)
  BY DEF IX!FreshNeeded, IXP!FreshNeeded, IX!MaxOf, IXP!MaxOf, IX!Count, IXP!Count
<1>2. IX!NewIds(ix, n) = IXP!NewIds(ix, n)
  BY <1>1 DEF IX!NewIds, IXP!NewIds, IX!Ids, IXP!Ids
<1>3. IX!CanRecycle(ix) <=> IXP!CanRecycle(ix)
  BY DEF IX!CanRecycle, IXP!CanRecycle, IX!Count, IXP!Count
<1>4. IX!NewId(ix) = IXP!NewId(ix)
  BY <1>3 DEF IX!NewId, IXP!NewId, IX!FreshId, IXP!FreshId
<1> QED BY <1>1, <1>2, <1>3, <1>4, SameSets DEF IXP!Created

-----------------------------------------------------------------------------
(* Facts about ids and handles.                                            *)
LEMMA IdFacts ==
    /\ MaxId \in Nat /\ MaxId > 0 /\ GenCount \in Nat /\ GenCount > 0
    /\ \A id : id \in IX!Ids <=> id \in Int /\ 0 <= id /\ id <= MaxId
    /\ \A id : id \in IX!EntityIds <=> id \in Int /\ 1 <= id /\ id <= MaxId
    /\ \A e \in IX!Entities : /\ e.id \in IX!Ids /\ e.id \in IX!EntityIds /\ e.id # 0
                              /\ e.gen \in Int /\ 0 <= e.gen /\ e.gen < GenCount
    /\ \A h \in IX!Handles : h.id \in IX!Ids /\ (h.id # 0 => h \in IX!Entities)
BY MaxIdAssumption, GenCountAssumption
   DEF IX!Entities, IX!EntityIds, IX!Ids, IX!Gens, IX!Handles

(* The next version of a handle.                                           *)
LEMMA GenerationIncFacts ==
    ASSUME NEW e \in IX!Entities
    PROVE  /\ IX!GenerationInc(e) \in IX!Entities
           /\ IX!GenerationInc(e).id = e.id
           /\ e.gen # GenCount - 1 => IX!GenerationInc(e).gen = e.gen + 1
<1>1. CASE e.gen = GenCount - 1
  <2>1. IX!GenerationInc(e) = [id |-> e.id, gen |-> 0]
    BY <1>1 DEF IX!GenerationInc, IX!Entities
  <2> QED BY <1>1, <2>1, IdFacts DEF IX!Entities, IX!Gens
<1>2. CASE e.gen # GenCount - 1
  <2>1. IX!GenerationInc(e) = [id |-> e.id, gen |-> e.gen + 1]
    BY <1>2 DEF IX!GenerationInc, IX!Entities
  <2> QED BY <1>2, <2>1, IdFacts DEF IX!Entities, IX!Gens
<1> QED BY <1>1, <1>2

(* What a sound index is made of.                                          *)
LEMMA SoundFacts ==
    ASSUME NEW ix, Sound(ix)
    PROVE  /\ ix.dense \in Seq(IX!Handles) /\ Len(ix.dense) \in Nat
           /\ ix.record \in [IX!Ids -> Nat]
           /\ ix.alive_count \in Nat /\ ix.alive_count >= 1
           /\ ix.alive_count <= Len(ix.dense) + 1
           /\ ix.max_id \in IX!Ids
           /\ \A i \in 1..Len(ix.dense) : /\ ix.dense[i] \in IX!Entities
                                          /\ ix.dense[i].id \in IX!Ids
                                          /\ ix.record[ix.dense[i].id] = i
           /\ \A id \in IX!Ids : ix.record[id] # 0 =>
                 /\ ix.record[id] \in 1..Len(ix.dense)
                 /\ ix.dense[ix.record[id]].id = id
           /\ ix.record[0] = 0
<1>1. IXP!Sound(ix)
  BY SameQueries
<1>2. /\ ix.dense \in Seq(IX!Handles) /\ Len(ix.dense) \in Nat
      /\ ix.record \in [IX!Ids -> Nat]
      /\ ix.alive_count \in Nat /\ ix.alive_count >= 1
      /\ ix.alive_count <= Len(ix.dense) + 1
      /\ ix.max_id \in IX!Ids
      /\ \A i \in 1..Len(ix.dense) : /\ ix.dense[i] \in IX!Handles
                                     /\ ix.dense[i].id \in IX!Ids
                                     /\ ix.record[ix.dense[i].id] = i
      /\ \A id \in IX!Ids : ix.record[id] # 0 =>
            /\ ix.record[id] \in 1..Len(ix.dense)
            /\ ix.dense[ix.record[id]].id = id
      /\ ix.record[0] = 0
  BY <1>1, IXP!SoundFacts, SameSets, MaxIdAssumption, GenCountAssumption
<1>3. \A i \in 1..Len(ix.dense) : ix.dense[i].id # 0
  BY <1>2
<1> QED BY <1>2, <1>3, IdFacts

-----------------------------------------------------------------------------
(* The dead part of the dense array, which a switch of ranges takes out.   *)
Gone(ix) == SubSeq(ix.dense, ix.alive_count, Len(ix.dense))

(* It holds the ids that exist and are not alive, each once.               *)
LEMMA GoneFacts ==
    ASSUME NEW ix, Sound(ix)
    PROVE  /\ Gone(ix) \in Seq(IX!Entities)
           /\ Len(Gone(ix)) = Len(ix.dense) + 1 - ix.alive_count
           /\ \A k \in 1..Len(Gone(ix)) :
                 /\ Gone(ix)[k] = ix.dense[ix.alive_count + k - 1]
                 /\ ix.record[Gone(ix)[k].id] = ix.alive_count + k - 1
                 /\ IsDead(ix, Gone(ix)[k].id)
                 /\ IX!Entry(ix, Gone(ix)[k].id) = Gone(ix)[k]
           /\ \A id \in IX!Ids : IsDead(ix, id) =>
                 \E k \in 1..Len(Gone(ix)) : Gone(ix)[k].id = id
           /\ \A j, k \in 1..Len(Gone(ix)) : Gone(ix)[j].id = Gone(ix)[k].id => j = k
<1> DEFINE a == ix.alive_count
           L == Len(ix.dense)
           g == Gone(ix)
<1>1. /\ L \in Nat /\ a \in Nat /\ a >= 1 /\ a <= L + 1
      /\ \A i \in 1..L : ix.dense[i] \in IX!Entities /\ ix.record[ix.dense[i].id] = i
      /\ \A id \in IX!Ids : ix.record[id] # 0 =>
            ix.record[id] \in 1..L /\ ix.dense[ix.record[id]].id = id
  BY SoundFacts
<1>2. \A i \in a..L : ix.dense[i] \in IX!Entities
  BY <1>1
<1> HIDE DEF a, L
<1>3. /\ g \in Seq(IX!Entities)
      /\ Len(g) = IF a <= L THEN L - a + 1 ELSE 0
      /\ \A k \in 1..L - a + 1 : g[k] = ix.dense[a + k - 1]
  <2>1. a \in Int /\ L \in Int
    BY <1>1
  <2>2. g = SubSeq(ix.dense, a, L)
    BY DEF Gone, a, L
  <2> QED BY <1>2, <2>1, <2>2, SubSeqProperties
<1> HIDE DEF g
<1>4. Len(g) = L + 1 - a
  BY <1>1, <1>3
<1>5. ASSUME NEW k \in 1..Len(g)
      PROVE  /\ g[k] = ix.dense[a + k - 1] /\ a + k - 1 \in 1..L
             /\ ix.record[g[k].id] = a + k - 1
  <2>1. k \in 1..L - a + 1 /\ a + k - 1 \in 1..L
    BY <1>1, <1>4
  <2> QED BY <2>1, <1>1, <1>3
<1>6. ASSUME NEW k \in 1..Len(g)
      PROVE  IsDead(ix, g[k].id) /\ IX!Entry(ix, g[k].id) = g[k]
  <2>1. a + k - 1 # 0 /\ ~(a + k - 1 < a)
    BY <1>1, <1>4
  <2> QED BY <2>1, <1>5 DEF IsDead, IX!Exists, IX!IdIsAlive, IX!Entry, a
<1>7. ASSUME NEW id \in IX!Ids, IsDead(ix, id)
      PROVE  \E k \in 1..Len(g) : g[k].id = id
  <2>1. ix.record[id] # 0 /\ ~(ix.record[id] < a)
    BY <1>7 DEF IsDead, IX!Exists, IX!IdIsAlive, a
  <2>2. ix.record[id] \in 1..L /\ ix.dense[ix.record[id]].id = id
    BY <1>1, <2>1
  <2>3. /\ ix.record[id] - a + 1 \in 1..Len(g)
        /\ a + (ix.record[id] - a + 1) - 1 = ix.record[id]
    <3> PICK r : r = ix.record[id]
      OBVIOUS
    <3>1. r \in 1..L /\ ~(r < a) /\ a \in Int /\ L \in Int
      BY <1>1, <2>1, <2>2
    <3>2. r - a + 1 \in 1..(L + 1 - a) /\ a + (r - a + 1) - 1 = r
      BY ONLY <3>1
    <3> QED BY <1>4, <3>2
  <2>4. g[ix.record[id] - a + 1].id = id
    BY <1>5, <2>2, <2>3
  <2> QED BY <2>3, <2>4
<1>8. ASSUME NEW j \in 1..Len(g), NEW k \in 1..Len(g), g[j].id = g[k].id
      PROVE  j = k
  <2>1. a + j - 1 = a + k - 1
    BY <1>5, <1>8
  <2> QED BY <2>1, <1>1, <1>4
<1> QED BY <1>3, <1>4, <1>5, <1>6, <1>7, <1>8 DEF g, a, L

(* remove_not_alive: the id of the first dead entry leaves the index, and  *)
(* no other id changes, although the last entry takes its place.           *)
LEMMA RemoveNotAliveEffect ==
    ASSUME NEW ix, Sound(ix), NEW x \in IX!EntityIds,
           IX!Exists(ix, x), ix.record[x] = ix.alive_count
    PROVE  /\ Sound(RemoveNotAlive(ix, x))
           /\ ~IX!Exists(RemoveNotAlive(ix, x), x)
           /\ RemoveNotAlive(ix, x).max_id = ix.max_id
           /\ \A id \in IX!Ids : id # x => SameAt(ix, RemoveNotAlive(ix, x), id)
<1> DEFINE iy == RemoveNotAlive(ix, x)
           a == ix.alive_count
           L == Len(ix.dense)
           w == ix.dense[L]
           full == [ix.dense EXCEPT ![a] = w]
<1>1. /\ ix.dense \in Seq(IX!Handles) /\ ix.record \in [IX!Ids -> Nat]
      /\ L \in Nat /\ a \in Nat /\ a >= 1 /\ a <= L + 1 /\ ix.max_id \in IX!Ids
      /\ \A i \in 1..L : /\ ix.dense[i] \in IX!Handles /\ ix.dense[i].id \in IX!Ids
                         /\ ix.record[ix.dense[i].id] = i
      /\ \A id \in IX!Ids : ix.record[id] # 0 =>
            ix.record[id] \in 1..L /\ ix.dense[ix.record[id]].id = id
      /\ ix.record[0] = 0
  <2>1. IXP!Sound(ix)
    BY SameQueries
  <2>2. /\ ix.dense \in Seq(IX!Handles) /\ ix.record \in [IX!Ids -> Nat]
        /\ ix.alive_count \in Nat /\ ix.alive_count >= 1
        /\ Len(ix.dense) \in Nat /\ ix.alive_count <= Len(ix.dense) + 1
        /\ ix.max_id \in IX!Ids /\ ix.record[0] = 0
    BY ONLY <2>1, IXP!SoundFacts, SameSets, MaxIdAssumption, GenCountAssumption
  <2>3. /\ \A i \in 1..Len(ix.dense) : /\ ix.dense[i] \in IX!Handles
                                       /\ ix.dense[i].id \in IX!Ids
                                       /\ ix.record[ix.dense[i].id] = i
        /\ \A id \in IX!Ids : ix.record[id] # 0 =>
              ix.record[id] \in 1..Len(ix.dense) /\ ix.dense[ix.record[id]].id = id
    BY ONLY <2>1, IXP!SoundFacts, SameSets, MaxIdAssumption, GenCountAssumption
  <2> QED BY <2>2, <2>3, Zenon
<1>2. x \in IX!Ids /\ x # 0 /\ a \in 1..L /\ ix.dense[a].id = x
  BY <1>1, IdFacts DEF IX!Exists
<1>3. L \in 1..L /\ w \in IX!Handles /\ w.id \in IX!Ids /\ ix.record[w.id] = L
  BY <1>1, <1>2
<1>4. /\ iy.dense = SubSeq(full, 1, L - 1)
      /\ iy.record = [ix.record EXCEPT ![w.id] = a, ![x] = 0]
      /\ iy.alive_count = a /\ iy.max_id = ix.max_id
      /\ iy = [dense |-> iy.dense, record |-> iy.record,
               alive_count |-> iy.alive_count, max_id |-> iy.max_id]
  BY DEF RemoveNotAlive, IX!Swap2
<1>5. /\ full \in Seq(IX!Handles) /\ Len(full) = L
      /\ \A k \in 1..L : full[k] = IF k = a THEN w ELSE ix.dense[k]
  <2> HIDE DEF w
  <2> QED BY <1>1, <1>2, <1>3, ExceptSeq
<1> HIDE DEF iy, a, L, w, full
<1>6. /\ iy.dense \in Seq(IX!Handles) /\ Len(iy.dense) = L - 1
      /\ \A k \in 1..(L - 1) : iy.dense[k] = IF k = a THEN w ELSE ix.dense[k]
  <2>1. \A i \in 1..(L - 1) : full[i] \in IX!Handles
    BY <1>1, <1>3, <1>5
  <2>2. /\ SubSeq(full, 1, L - 1) \in Seq(IX!Handles)
        /\ Len(SubSeq(full, 1, L - 1)) = IF 1 <= L - 1 THEN (L - 1) - 1 + 1 ELSE 0
        /\ \A i \in 1..(L - 1) - 1 + 1 : SubSeq(full, 1, L - 1)[i] = full[1 + i - 1]
    <3>1. 1 \in Int /\ L - 1 \in Int
      BY <1>1
    <3> QED BY <3>1, <2>1, SubSeqProperties
  <2>3. \A i \in 1..(L - 1) : i \in 1..(L - 1) - 1 + 1 /\ 1 + i - 1 = i /\ i \in 1..L
    BY <1>1
  <2> QED BY <1>2, <1>4, <1>5, <2>2, <2>3
<1>7. /\ iy.record \in [IX!Ids -> Nat]
      /\ \A id \in IX!Ids : iy.record[id] =
            IF id = x THEN 0 ELSE IF id = w.id THEN a ELSE ix.record[id]
  <2>1. /\ ix.record \in [IX!Ids -> Nat] /\ a \in Nat
        /\ x \in IX!Ids /\ w.id \in IX!Ids
        /\ iy.record = [ix.record EXCEPT ![w.id] = a, ![x] = 0]
    BY <1>1, <1>2, <1>3, <1>4
  <2> QED BY ONLY <2>1
<1>8. iy \in IX!IndexType
  BY <1>1, <1>4, <1>6, <1>7 DEF IX!IndexType
<1>9. w.id = x <=> a = L
  BY <1>1, <1>2, <1>3 DEF w
<1>10. ASSUME NEW k \in 1..(L - 1) PROVE iy.record[iy.dense[k].id] = k
  <2>1. CASE k = a
    BY <2>1, <1>1, <1>3, <1>6, <1>7, <1>9
  <2>2. CASE k # a
    <3>1. iy.dense[k] = ix.dense[k] /\ k \in 1..L /\ k # L
      BY <2>2, <1>1, <1>6
    <3>2. ix.dense[k].id \in IX!Ids /\ ix.record[ix.dense[k].id] = k
      BY <3>1, <1>1
    <3>3. ix.dense[k].id # x /\ ix.dense[k].id # w.id
      BY <2>2, <3>1, <3>2, <1>2, <1>1, <1>3
    <3> QED BY <3>1, <3>2, <3>3, <1>7
  <2> QED BY <2>1, <2>2
<1>11. ASSUME NEW id \in IX!Ids, id # x, ix.record[id] # 0
       PROVE  /\ iy.record[id] \in 1..(L - 1)
              /\ iy.dense[iy.record[id]] = ix.dense[ix.record[id]]
              /\ iy.record[id] < a <=> ix.record[id] < a
  <2>1. /\ ix.record[id] \in 1..L /\ ix.dense[ix.record[id]].id = id
        /\ ix.record[id] # a
    BY <1>1, <1>2, <1>11
  <2>2. CASE id = w.id
    <3>1. iy.record[id] = a /\ ix.record[id] = L /\ a # L
      BY <2>2, <1>3, <1>7, <1>9, <1>11
    <3>2. a \in 1..(L - 1) /\ ~(L < a)
      BY <3>1, <1>1, <1>2
    <3> QED BY <3>1, <3>2, <1>6 DEF w
  <2>3. CASE id # w.id
    <3>1. iy.record[id] = ix.record[id]
      BY <2>3, <1>7, <1>11
    <3>2. ix.record[id] # L
      BY <2>1, <2>3 DEF w
    <3>3. ix.record[id] \in 1..(L - 1)
      BY <2>1, <3>2, <1>1
    <3> QED BY <2>1, <3>1, <3>3, <1>6
  <2> QED BY <2>2, <2>3
<1>12. ASSUME NEW id \in IX!Ids PROVE iy.record[id] # 0 <=> id # x /\ ix.record[id] # 0
  <2>1. a # 0
    BY <1>1
  <2>2. id = w.id => ix.record[id] # 0
    BY <1>1, <1>2, <1>3
  <2> QED BY <2>1, <2>2, <1>7
<1>13. \A id \in IX!Ids : iy.record[id] # 0 =>
          iy.record[id] \in 1..(L - 1) /\ iy.dense[iy.record[id]].id = id
  BY <1>1, <1>11, <1>12
<1>14. Sound(iy)
  <2>1. IX!Linked(iy)
    BY <1>6, <1>10, <1>13 DEF IX!Linked, IX!Exists, IX!Entry
  <2>2. iy.alive_count \in 1..IX!Count(iy)
    BY <1>1, <1>2, <1>4, <1>6 DEF IX!Count
  <2>3. ~IX!Exists(iy, 0)
    <3>1. 0 \in IX!Ids
      BY ONLY IdFacts
    <3>2. ix.record[0] = 0
      BY ONLY <1>1
    <3> QED BY ONLY <3>1, <3>2, <1>12 DEF IX!Exists
  <2> QED BY <1>8, <2>1, <2>2, <2>3 DEF Sound
<1>15. ~IX!Exists(iy, x)
  BY <1>2, <1>12 DEF IX!Exists
<1>16. ASSUME NEW id \in IX!Ids, id # x PROVE SameAt(ix, iy, id)
  <2>1. iy.record[id] # 0 <=> ix.record[id] # 0
    BY <1>12, <1>16
  <2>2. ix.record[id] # 0 => iy.dense[iy.record[id]] = ix.dense[ix.record[id]]
    BY <1>11, <1>16
  <2>3. ix.record[id] # 0 => (iy.record[id] < a <=> ix.record[id] < a)
    BY <1>11, <1>16
  <2>4. iy.alive_count = a /\ ix.alive_count = a
    BY <1>4 DEF a
  <2> QED BY <2>1, <2>2, <2>3, <2>4 DEF SameAt, IX!Exists, IX!IdIsAlive, IX!Entry
<1> QED BY <1>4, <1>14, <1>15, <1>16 DEF iy

(* The index after a switch of ranges that loads these ids and this cur.   *)
Reload(ix, loaded, cur) ==
    [dense       |-> SubSeq(ix.dense, 1, ix.alive_count - 1) \o loaded,
     record      |-> [id \in IX!Ids |->
                        IF \E k \in DOMAIN loaded : loaded[k].id = id
                        THEN ix.alive_count - 1
                               + (CHOOSE k \in DOMAIN loaded : loaded[k].id = id)
                        ELSE IF \E k \in DOMAIN Gone(ix) : Gone(ix)[k].id = id
                        THEN 0 ELSE ix.record[id]],
     alive_count |-> ix.alive_count,
     max_id      |-> cur]

(* The ids of a recycled list.                                             *)
Lists(s, id) == \E k \in 1..Len(s) : s[k].id = id

(* A switch of ranges leaves the alive ids as they are; dead ones are the  *)
(* ids it has loaded, provided that these are not alive and not twice in   *)
(* the list.                                                               *)
LEMMA ReloadEffect ==
    ASSUME NEW ix, Sound(ix), NEW s \in Seq(IX!Entities), NEW cur \in IX!Ids,
           \A k \in 1..Len(s) : ~IX!IdIsAlive(ix, s[k].id),
           \A j, k \in 1..Len(s) : s[j].id = s[k].id => j = k
    PROVE  /\ Sound(Reload(ix, s, cur))
           /\ Reload(ix, s, cur).max_id = cur
           /\ \A id \in IX!Ids :
                 /\ IX!IdIsAlive(Reload(ix, s, cur), id) <=> IX!IdIsAlive(ix, id)
                 /\ IX!IdIsAlive(ix, id) =>
                       IX!Entry(Reload(ix, s, cur), id) = IX!Entry(ix, id)
                 /\ IsDead(Reload(ix, s, cur), id) <=> Lists(s, id)
           /\ \A k \in 1..Len(s) : IX!Entry(Reload(ix, s, cur), s[k].id) = s[k]
<1> DEFINE iy == Reload(ix, s, cur)
           p  == ix.alive_count - 1
           n  == Len(s)
           g  == Gone(ix)
           at(id) == CHOOSE k \in DOMAIN s : s[k].id = id
           front == SubSeq(ix.dense, 1, p)
<1>1. /\ ix.dense \in Seq(IX!Handles) /\ ix.record \in [IX!Ids -> Nat]
      /\ Len(ix.dense) \in Nat /\ p \in Nat /\ p <= Len(ix.dense)
      /\ ix.alive_count = p + 1
      /\ \A i \in 1..Len(ix.dense) : /\ ix.dense[i] \in IX!Entities /\ ix.dense[i].id \in IX!Ids
                                     /\ ix.record[ix.dense[i].id] = i
      /\ \A id \in IX!Ids : ix.record[id] # 0 =>
            ix.record[id] \in 1..Len(ix.dense) /\ ix.dense[ix.record[id]].id = id
      /\ ix.record[0] = 0
  BY SoundFacts
<1>2. /\ n \in Nat /\ DOMAIN s = 1..n
      /\ \A k \in 1..n : s[k] \in IX!Entities /\ s[k].id \in IX!Ids /\ s[k].id # 0
  BY LenProperties, ElementOfSeq, IdFacts
<1>3. /\ g \in Seq(IX!Entities) /\ DOMAIN g = 1..Len(g)
      /\ \A k \in 1..Len(g) : IsDead(ix, g[k].id)
      /\ \A id \in IX!Ids : IsDead(ix, id) => \E k \in 1..Len(g) : g[k].id = id
  BY GoneFacts, LenProperties
<1>4. /\ iy.dense = front \o s
      /\ iy.record = [id \in IX!Ids |->
                        IF \E k \in DOMAIN s : s[k].id = id THEN p + at(id)
                        ELSE IF \E k \in DOMAIN g : g[k].id = id THEN 0 ELSE ix.record[id]]
      /\ iy.alive_count = p + 1 /\ iy.max_id = cur
      /\ iy = [dense |-> iy.dense, record |-> iy.record,
               alive_count |-> iy.alive_count, max_id |-> iy.max_id]
  BY <1>1 DEF Reload
<1>5. \A k \in 1..n : at(s[k].id) = k
  <2> SUFFICES ASSUME NEW k \in 1..n PROVE at(s[k].id) = k
    OBVIOUS
  <2>1. at(s[k].id) \in 1..n /\ s[at(s[k].id)].id = s[k].id
    BY <1>2
  <2> QED BY <2>1
<1> HIDE DEF iy, p, n, g, at, front
<1>6. /\ front \in Seq(IX!Handles) /\ Len(front) = p
      /\ \A k \in 1..p : front[k] = ix.dense[k]
  <2>1. \A i \in 1..p : ix.dense[i] \in IX!Handles
    <3>1. \A i \in 1..p : i \in 1..Len(ix.dense)
      BY <1>1
    <3> QED BY <3>1, <1>1, ElementOfSeq
  <2>2. 1 \in Int /\ p \in Int
    BY <1>1
  <2>3. /\ front \in Seq(IX!Handles)
        /\ Len(front) = IF 1 <= p THEN p - 1 + 1 ELSE 0
        /\ \A i \in 1..p - 1 + 1 : front[i] = ix.dense[1 + i - 1]
    BY <2>1, <2>2, SubSeqProperties DEF front
  <2>4. \A i \in 1..p : i \in 1..p - 1 + 1 /\ 1 + i - 1 = i
    BY <1>1
  <2> QED BY <2>3, <2>4, <1>1
<1>7. /\ iy.dense \in Seq(IX!Handles) /\ Len(iy.dense) = p + n
      /\ \A k \in 1..p : iy.dense[k] = ix.dense[k]
      /\ \A k \in 1..n : iy.dense[p + k] = s[k]
  <2>1. s \in Seq(IX!Handles)
    <3>1. IX!Entities \subseteq IX!Handles
      BY DEF IX!Entities, IX!Handles, IX!EntityIds
    <3> QED BY <3>1, SeqMonotonic
  <2>2. /\ iy.dense \in Seq(IX!Handles) /\ Len(iy.dense) = p + n
        /\ \A k \in 1..p + n : iy.dense[k] = IF k <= p THEN front[k] ELSE s[k - p]
    <3>1. /\ front \o s \in Seq(IX!Handles)
          /\ Len(front \o s) = Len(front) + Len(s)
          /\ \A k \in 1..Len(front) + Len(s) : (front \o s)[k] =
                IF k <= Len(front) THEN front[k] ELSE s[k - Len(front)]
      <4>1. front \in Seq(IX!Handles)
        BY ONLY <1>6
      <4> QED BY ONLY <2>1, <4>1, ConcatProperties
    <3>2. iy.dense = front \o s
      BY ONLY <1>4
    <3>3. Len(front) = p
      BY ONLY <1>6
    <3> QED BY ONLY <3>1, <3>2, <3>3 DEF n
  <2>3. ASSUME NEW k \in 1..p PROVE iy.dense[k] = ix.dense[k]
    <3>1. k \in 1..p + n /\ k <= p
      BY <1>1, <1>2
    <3> QED BY <3>1, <2>2, <1>6
  <2>4. ASSUME NEW k \in 1..n PROVE iy.dense[p + k] = s[k]
    <3>1. p + k \in 1..p + n /\ ~(p + k <= p) /\ (p + k) - p = k
      BY <1>1, <1>2
    <3> QED BY <3>1, <2>2
  <2> QED BY <2>2, <2>3, <2>4
<1>8. ASSUME NEW id \in IX!Ids
      PROVE  /\ (\E k \in DOMAIN s : s[k].id = id) <=> Lists(s, id)
             /\ (\E k \in DOMAIN g : g[k].id = id) <=> IsDead(ix, id)
             /\ IX!IdIsAlive(ix, id) <=> ix.record[id] # 0 /\ ix.record[id] < p + 1
             /\ IsDead(ix, id) <=> ix.record[id] # 0 /\ ~(ix.record[id] < p + 1)
             /\ Lists(s, id) => ~IX!IdIsAlive(ix, id)
  <2>1. (\E k \in DOMAIN s : s[k].id = id) <=> Lists(s, id)
    BY <1>2 DEF Lists, n
  <2>2. (\E k \in DOMAIN g : g[k].id = id) <=> IsDead(ix, id)
    BY <1>3
  <2>3. Lists(s, id) => ~IX!IdIsAlive(ix, id)
    BY DEF Lists
  <2> QED BY <1>1, <2>1, <2>2, <2>3 DEF IsDead, IX!IdIsAlive, IX!Exists
<1>9. ASSUME NEW id \in IX!Ids
      PROVE  /\ Lists(s, id) => \E k \in 1..n : s[k].id = id /\ iy.record[id] = p + k
             /\ IX!IdIsAlive(ix, id) => iy.record[id] = ix.record[id]
             /\ ~Lists(s, id) /\ ~IX!IdIsAlive(ix, id) => iy.record[id] = 0
  <2>1. iy.record[id] = IF Lists(s, id) THEN p + at(id)
                        ELSE IF IsDead(ix, id) THEN 0 ELSE ix.record[id]
    BY <1>4, <1>8
  <2>2. CASE Lists(s, id)
    <3>1. PICK k \in 1..n : s[k].id = id
      BY <2>2 DEF Lists, n
    <3> QED BY <2>1, <2>2, <3>1, <1>5, <1>8
  <2>3. CASE ~Lists(s, id)
    <3>1. ix.record[id] = 0 \/ IX!IdIsAlive(ix, id) \/ IsDead(ix, id)
      BY <1>8
    <3>2. IX!IdIsAlive(ix, id) => ~IsDead(ix, id)
      BY DEF IsDead
    <3> QED BY <2>1, <2>3, <3>1, <3>2
  <2> QED BY <2>2, <2>3
<1>10. ASSUME NEW k \in 1..n PROVE iy.record[s[k].id] = p + k
  <2>1. s[k].id \in IX!Ids /\ Lists(s, s[k].id)
    BY <1>2 DEF Lists, n
  <2>2. PICK j \in 1..n : s[j].id = s[k].id /\ iy.record[s[k].id] = p + j
    BY <2>1, <1>9
  <2> QED BY <2>2 DEF n
<1>11. ASSUME NEW id \in IX!Ids, IX!IdIsAlive(ix, id)
       PROVE  /\ iy.record[id] = ix.record[id] /\ ix.record[id] \in 1..p
              /\ iy.dense[iy.record[id]] = ix.dense[ix.record[id]]
              /\ ix.dense[ix.record[id]].id = id
  <2>1. ix.record[id] \in 1..p /\ ix.dense[ix.record[id]].id = id
    BY <1>1, <1>8, <1>11
  <2> QED BY <2>1, <1>7, <1>9, <1>11
<1>12. iy.record \in [IX!Ids -> Nat]
  <2>1. \A id \in IX!Ids : iy.record[id] \in Nat
    <3> SUFFICES ASSUME NEW id \in IX!Ids PROVE iy.record[id] \in Nat
      OBVIOUS
    <3>1. CASE Lists(s, id)
      <4>1. PICK k \in 1..n : iy.record[id] = p + k
        BY <3>1, <1>9
      <4> QED BY <4>1, <1>1, <1>2
    <3>2. CASE IX!IdIsAlive(ix, id)
      BY <3>2, <1>1, <1>11
    <3> QED BY <3>1, <3>2, <1>9
  <2> QED BY <2>1, <1>4
<1>13. iy \in IX!IndexType
  <2>1. iy.alive_count \in Nat /\ iy.max_id \in IX!Ids
    BY <1>1, <1>4
  <2>2. /\ iy.dense \in Seq(IX!Handles) /\ iy.record \in [IX!Ids -> Nat]
        /\ iy = [dense |-> iy.dense, record |-> iy.record,
                 alive_count |-> iy.alive_count, max_id |-> iy.max_id]
    BY ONLY <1>4, <1>7, <1>12
  <2> QED BY ONLY <2>1, <2>2 DEF IX!IndexType
<1>14. ASSUME NEW k \in 1..Len(iy.dense) PROVE iy.record[iy.dense[k].id] = k
  <2>1. CASE k \in 1..p
    <3>1. /\ iy.dense[k] = ix.dense[k] /\ ix.dense[k].id \in IX!Ids
          /\ ix.record[ix.dense[k].id] = k
      BY <2>1, <1>1, <1>7
    <3>2. IX!IdIsAlive(ix, ix.dense[k].id)
      <4>1. k # 0 /\ k < p + 1
        BY <2>1, <1>1
      <4> QED BY <3>1, <4>1, <1>8
    <3>3. iy.record[ix.dense[k].id] = ix.record[ix.dense[k].id]
      BY ONLY <3>1, <3>2, <1>9
    <3> QED BY <3>1, <3>3
  <2>2. CASE k \notin 1..p
    <3>1. k - p \in 1..n /\ p + (k - p) = k
      BY <2>2, <1>1, <1>2, <1>7
    <3>2. iy.dense[p + (k - p)] = s[k - p] /\ iy.record[s[k - p].id] = p + (k - p)
      BY <3>1, <1>7, <1>10
    <3> QED BY <3>1, <3>2
  <2> QED BY <2>1, <2>2
<1>15. ASSUME NEW id \in IX!Ids, iy.record[id] # 0
       PROVE  iy.record[id] \in 1..Len(iy.dense) /\ iy.dense[iy.record[id]].id = id
  <2>1. CASE Lists(s, id)
    <3>1. PICK k \in 1..n : s[k].id = id /\ iy.record[id] = p + k
      BY <2>1, <1>9
    <3>2. p + k \in 1..p + n
      BY <1>1, <1>2
    <3> QED BY <3>1, <3>2, <1>7
  <2>2. CASE IX!IdIsAlive(ix, id)
    <3>1. \A i \in 1..p : i \in 1..p + n
      BY <1>1, <1>2
    <3> QED BY <2>2, <3>1, <1>7, <1>11
  <2> QED BY <2>1, <2>2, <1>9, <1>15
<1>16. Sound(iy)
  <2>1. IX!Linked(iy)
    BY <1>14, <1>15 DEF IX!Linked, IX!Exists, IX!Entry
  <2>2. iy.alive_count \in 1..IX!Count(iy)
    BY <1>1, <1>2, <1>4, <1>7 DEF IX!Count
  <2>3. ~IX!Exists(iy, 0)
    <3>1. 0 \in IX!Ids /\ ~Lists(s, 0)
      BY <1>2, IdFacts DEF Lists, n
    <3>2. ~IX!IdIsAlive(ix, 0)
      BY <3>1, <1>1, <1>8
    <3> QED BY <3>1, <3>2, <1>9 DEF IX!Exists
  <2> QED BY <1>13, <2>1, <2>2, <2>3 DEF Sound
<1>17. ASSUME NEW id \in IX!Ids
       PROVE  /\ IX!IdIsAlive(iy, id) <=> IX!IdIsAlive(ix, id)
              /\ IX!IdIsAlive(ix, id) => IX!Entry(iy, id) = IX!Entry(ix, id)
              /\ IsDead(iy, id) <=> Lists(s, id)
  <2>0. /\ IX!Exists(iy, id) <=> iy.record[id] # 0
        /\ IX!IdIsAlive(iy, id) <=> iy.record[id] # 0 /\ iy.record[id] < p + 1
    BY <1>4 DEF IX!Exists, IX!IdIsAlive
  <2>1. CASE IX!IdIsAlive(ix, id)
    <3>1. iy.record[id] \in 1..p
      BY <2>1, <1>11
    <3>2. iy.record[id] # 0 /\ iy.record[id] < p + 1
      BY <3>1, <1>1
    <3>3. ~Lists(s, id)
      BY <2>1, <1>8
    <3>4. IX!Entry(iy, id) = IX!Entry(ix, id)
      BY <2>1, <1>11 DEF IX!Entry
    <3> QED BY <2>0, <2>1, <3>2, <3>3, <3>4 DEF IsDead
  <2>2. CASE Lists(s, id)
    <3>1. PICK k \in 1..n : s[k].id = id /\ iy.record[id] = p + k
      BY <2>2, <1>9
    <3>2. iy.record[id] # 0 /\ ~(iy.record[id] < p + 1)
      BY <3>1, <1>1, <1>2
    <3>3. ~IX!IdIsAlive(ix, id)
      BY <2>2, <1>8
    <3> QED BY <2>0, <2>2, <3>2, <3>3 DEF IsDead
  <2>3. CASE ~IX!IdIsAlive(ix, id) /\ ~Lists(s, id)
    BY <2>0, <2>3, <1>9 DEF IsDead
  <2> QED BY <2>1, <2>2, <2>3
<1>18. ASSUME NEW k \in 1..n PROVE IX!Entry(iy, s[k].id) = s[k]
  BY <1>7, <1>10 DEF IX!Entry
<1> QED BY <1>4, <1>16, <1>17, <1>18 DEF iy, n

(* new_ids, when the fresh ids are not in use: these and the old ones      *)
(* exist, and no id has died.                                              *)
LEMMA NewIdsEffect ==
    ASSUME NEW ix, Sound(ix), NEW n \in Nat \ {0}, NEW m, m = IX!FreshNeeded(ix, n),
           ix.max_id + m <= MaxId,
           \A id \in (ix.max_id + 1)..(ix.max_id + m) : ~IX!Exists(ix, id)
    PROVE  /\ Sound(IX!NewIds(ix, n))
           /\ IX!NewIds(ix, n).max_id = ix.max_id + m
           /\ \A id \in IX!Ids :
                 /\ IX!Exists(IX!NewIds(ix, n), id) <=>
                       IX!Exists(ix, id) \/ id \in (ix.max_id + 1)..(ix.max_id + m)
                 /\ IX!Exists(ix, id) => IX!Entry(IX!NewIds(ix, n), id) = IX!Entry(ix, id)
                 /\ IsDead(IX!NewIds(ix, n), id) => IsDead(ix, id)
<1> DEFINE iy == IX!NewIds(ix, n)
           B  == (ix.max_id + 1)..(ix.max_id + m)
           S  == IXP!Created(ix, IXP!NewIds(ix, n), n)
<1>1. m = IXP!FreshNeeded(ix, n) /\ iy = IXP!NewIds(ix, n)
  BY SameCreation
<1>2. B = IXP!Block(ix, n)
  BY <1>1 DEF IXP!Block
<1>3. /\ IXP!Sound(ix) /\ ix.max_id + IXP!FreshNeeded(ix, n) <= MaxId
      /\ \A id \in IXP!Block(ix, n) : ~IXP!Exists(ix, id)
  <2>1. \A id \in B : ~IXP!Exists(ix, id)
    BY SameQueries
  <2> QED BY <1>1, <1>2, <2>1, SameQueries
<1>4. /\ IXP!Sound(IXP!NewIds(ix, n))
      /\ \A id \in IXP!Ids :
           /\ IXP!Exists(ix, id) =>
                 /\ IXP!Exists(IXP!NewIds(ix, n), id)
                 /\ IXP!Entry(IXP!NewIds(ix, n), id) = IXP!Entry(ix, id)
           /\ IXP!Exists(IXP!NewIds(ix, n), id) => IXP!Exists(ix, id) \/ id \in S
           /\ id \in S => ~IXP!IdIsAlive(ix, id)
           /\ IXP!IdIsAlive(IXP!NewIds(ix, n), id) <=> (IXP!IdIsAlive(ix, id) \/ id \in S)
      /\ \A id \in IXP!Ids : IXP!Exists(IXP!NewIds(ix, n), id)
                               <=> IXP!Exists(ix, id) \/ id \in IXP!Block(ix, n)
  BY <1>3, IXP!NewIdsSound, MaxIdAssumption, GenCountAssumption
<1>5. iy.max_id = ix.max_id + m
  BY DEF IX!NewIds
<1> HIDE DEF iy, B, S
<1>6. Sound(iy)
  BY <1>1, <1>4, SameQueries
<1>7. ASSUME NEW id \in IX!Ids
      PROVE  /\ IX!Exists(iy, id) <=> IX!Exists(ix, id) \/ id \in B
             /\ IX!Exists(ix, id) => IX!Entry(iy, id) = IX!Entry(ix, id)
             /\ IsDead(iy, id) => IsDead(ix, id)
  <2>1. id \in IXP!Ids
    BY SameSets
  <2>2. /\ IXP!Exists(ix, id) <=> IX!Exists(ix, id)
        /\ IXP!IdIsAlive(ix, id) <=> IX!IdIsAlive(ix, id)
        /\ IXP!Entry(ix, id) = IX!Entry(ix, id)
        /\ IXP!Exists(IXP!NewIds(ix, n), id) <=> IX!Exists(iy, id)
        /\ IXP!IdIsAlive(IXP!NewIds(ix, n), id) <=> IX!IdIsAlive(iy, id)
        /\ IXP!Entry(IXP!NewIds(ix, n), id) = IX!Entry(iy, id)
    BY <1>1, SameQueries
  <2> QED BY <1>2, <1>4, <2>1, <2>2 DEF IsDead
<1> QED BY <1>5, <1>6, <1>7 DEF iy, B

(* ensure after make_alive: e is alive, and no other id changes.           *)
LEMMA ReviveEffect ==
    ASSUME NEW ix, Sound(ix), NEW e \in IX!Entities, ~IX!IdIsAlive(ix, e.id)
    PROVE  LET iy == IX!Ensure(IX!MakeAlive(ix, e), e)
           IN  /\ Sound(iy)
               /\ IX!IdIsAlive(iy, e.id) /\ IX!Exists(iy, e.id) /\ IX!Entry(iy, e.id) = e
               /\ iy.max_id = IF IX!Exists(ix, e.id) THEN ix.max_id
                              ELSE IX!MaxOf(e.id, ix.max_id)
               /\ \A id \in IX!Ids : id # e.id => SameAt(ix, iy, id)
<1> DEFINE im == IXP!MakeAlive(ix, e)
           iy == IXP!Ensure(im, e)
<1>1. e \in IXP!Entities /\ IXP!Sound(ix) /\ ~IXP!IdIsAlive(ix, e.id)
  BY SameSets, SameQueries
<1>2. /\ IXP!Sound(im) /\ im.max_id = ix.max_id
      /\ IXP!Exists(im, e.id) <=> IXP!Exists(ix, e.id)
      /\ ~IXP!IdIsAlive(im, e.id)
      /\ \A id \in IXP!Ids : id # e.id => IXP!SameAt(ix, im, id)
  BY <1>1, IXP!MakeAliveSound, MaxIdAssumption, GenCountAssumption
<1> HIDE DEF im
<1>3. /\ IXP!Sound(iy)
      /\ IXP!IdIsAlive(iy, e.id) /\ IXP!Exists(iy, e.id) /\ IXP!Entry(iy, e.id) = e
      /\ iy.max_id = IF IXP!Exists(im, e.id) THEN im.max_id ELSE IXP!MaxOf(e.id, im.max_id)
      /\ \A id \in IXP!Ids : id # e.id => IXP!SameAt(im, iy, id)
  BY <1>1, <1>2, IXP!EnsureSound, MaxIdAssumption, GenCountAssumption
<1>4. IX!Ensure(IX!MakeAlive(ix, e), e) = iy
  BY SameOperations DEF im
<1> HIDE DEF iy
<1>5. ASSUME NEW id \in IX!Ids, id # e.id PROVE SameAt(ix, iy, id)
  <2>1. id \in IXP!Ids
    BY SameSets
  <2>2. IXP!SameAt(ix, im, id) /\ IXP!SameAt(im, iy, id)
    BY <1>2, <1>3, <1>5, <2>1
  <2>3. IXP!SameAt(ix, iy, id)
    BY <2>2 DEF IXP!SameAt
  <2> QED BY <2>3, SameQueries
<1>6. IX!MaxOf(e.id, ix.max_id) = IXP!MaxOf(e.id, ix.max_id)
  BY DEF IX!MaxOf, IXP!MaxOf
<1>7. /\ Sound(iy) /\ IX!IdIsAlive(iy, e.id) /\ IX!Exists(iy, e.id) /\ IX!Entry(iy, e.id) = e
      /\ IXP!Exists(ix, e.id) <=> IX!Exists(ix, e.id)
  BY <1>3, SameQueries
<1> QED BY <1>2, <1>3, <1>4, <1>5, <1>6, <1>7

(* remove of an alive handle.                                              *)
LEMMA RemoveEffect ==
    ASSUME NEW ix, Sound(ix), NEW e \in IX!Entities, IX!IsAlive(ix, e)
    PROVE  LET iy == IX!Remove(ix, e)
           IN  /\ Sound(iy) /\ IsDead(iy, e.id)
               /\ IX!Entry(iy, e.id) = IX!GenerationInc(e)
               /\ iy.record[e.id] = iy.alive_count
               /\ iy.max_id = ix.max_id
               /\ \A id \in IX!Ids : id # e.id => SameAt(ix, iy, id)
<1> DEFINE iy == IXP!Remove(ix, e)
<1>1. e \in IXP!Entities /\ IXP!Sound(ix) /\ IXP!IsAlive(ix, e)
  BY SameSets, SameQueries
<1>2. /\ IXP!Sound(iy)
      /\ IXP!Exists(iy, e.id) /\ ~IXP!IdIsAlive(iy, e.id)
      /\ IXP!Entry(iy, e.id) = IXP!GenerationInc(e)
      /\ iy.record[e.id] = iy.alive_count
      /\ iy.max_id = ix.max_id
      /\ \A id \in IXP!Ids : id # e.id => IXP!SameAt(ix, iy, id)
  BY <1>1, IXP!RemoveSound, MaxIdAssumption, GenCountAssumption
<1>3. IX!Remove(ix, e) = iy /\ IX!GenerationInc(e) = IXP!GenerationInc(e)
  BY SameOperations
<1> HIDE DEF iy
<1>4. /\ Sound(iy) /\ IsDead(iy, e.id)
      /\ IX!Entry(iy, e.id) = IXP!Entry(iy, e.id)
  BY <1>2, SameQueries DEF IsDead
<1>5. ASSUME NEW id \in IX!Ids, id # e.id PROVE SameAt(ix, iy, id)
  BY <1>2, <1>5, SameSets, SameQueries
<1> QED BY <1>2, <1>3, <1>4, <1>5

-----------------------------------------------------------------------------
(* The inductive invariant, of an index ix, a history dd, ranges rs and    *)
(* the active one ac. RangesInv alone is not inductive: a switch would     *)
(* load what a list holds into the index, and the counter of the active    *)
(* range could lag behind its start.                                       *)

(* r is a range that starts at m; its counter is not before its start.     *)
RangeAt(r, m) ==
    /\ r = [min |-> m, max |-> r.max, cur |-> r.cur, recycled |-> r.recycled]
    /\ r.max \in IX!Ids /\ r.cur \in IX!Ids /\ r.cur >= m - 1
    /\ r.max = 0 \/ m <= r.max
    /\ r.recycled \in Seq(IX!Entities)

RangesAt(rs) == /\ rs = [m \in DOMAIN rs |-> rs[m]]
                /\ DOMAIN rs \subseteq IX!EntityIds
                /\ \A m \in DOMAIN rs : RangeAt(rs[m], m)

(* No id is in two ranges.                                                 *)
Disjoint(rs) == \A m, n \in DOMAIN rs : \A id \in IX!Ids :
                   InRange(rs[m], id) /\ InRange(rs[n], id) => m = n

(* Once there are ranges one is active. Its list is in the index, where it *)
(* is all that is not alive; its counter is max_id.                        *)
ActiveOk(ix, rs, ac) ==
    /\ ac = 0 <=> DOMAIN rs = {}
    /\ ac # 0 => /\ ac \in DOMAIN rs
                 /\ Len(rs[ac].recycled) = 0
                 /\ ix.max_id >= ac - 1
                 /\ \A id \in IX!Ids : IsDead(ix, id) => InRange(rs[ac], id)

(* A recycled list holds ids of its range that the index does not have and *)
(* that its counter has passed, each once.                                 *)
RecycledOk(ix, r) ==
    \A i \in 1..Len(r.recycled) :
       /\ InRange(r, r.recycled[i].id)
       /\ ~IX!Exists(ix, r.recycled[i].id)
       /\ r.recycled[i].id <= r.cur
       /\ \A j \in 1..Len(r.recycled) : r.recycled[j].id = r.recycled[i].id => i = j

(* The counter of a range has passed every id of it in the index.          *)
Counter(ix, rs, ac, m) == IF m = ac THEN ix.max_id ELSE rs[m].cur

CountersOk(ix, rs, ac) ==
    /\ ac = 0 => \A id \in IX!Ids : IX!Exists(ix, id) => id <= ix.max_id
    /\ \A m \in DOMAIN rs : \A id \in IX!Ids :
          IX!Exists(ix, id) /\ InRange(rs[m], id) => id <= Counter(ix, rs, ac, m)

(* Why a deleted handle stays dead: the index or a recycled list is ahead  *)
(* of it, or its id left the index for good.                               *)
InList(s, h) == \E i \in 1..Len(s) : s[i].id = h.id /\ h.gen < s[i].gen

Behind(ix, rs, ac, h) ==
    \/ IX!Exists(ix, h.id) /\ h.gen < IX!Entry(ix, h.id).gen
    \/ \E m \in DOMAIN rs : InList(rs[m].recycled, h)
    \/ /\ ac # 0
       /\ ~IX!Exists(ix, h.id)
       /\ \A m \in DOMAIN rs : ~InRange(rs[m], h.id)

Good(ix, dd, rs, ac) ==
    /\ Sound(ix)
    /\ dd \subseteq IX!Entities
    /\ RangesAt(rs)
    /\ Disjoint(rs)
    /\ ActiveOk(ix, rs, ac)
    /\ \A m \in DOMAIN rs : RecycledOk(ix, rs[m])
    /\ CountersOk(ix, rs, ac)
    /\ \A h \in dd : Behind(ix, rs, ac, h)

IInv == Good(index, dead, ranges, active)

SafeInv == ~overran => IInv

(* What the definitions say of a range.                                    *)
LEMMA RangeFacts ==
    ASSUME NEW rs, RangesAt(rs), NEW m \in DOMAIN rs
    PROVE  /\ m \in IX!EntityIds /\ m \in IX!Ids /\ m \in Int /\ 1 <= m
           /\ rs[m].min = m /\ rs[m].max \in IX!Ids /\ rs[m].cur \in IX!Ids
           /\ rs[m].cur >= m - 1 /\ (rs[m].max = 0 \/ m <= rs[m].max)
           /\ rs[m].recycled \in Seq(IX!Entities)
           /\ Len(rs[m].recycled) \in Nat
           /\ DOMAIN rs[m].recycled = 1..Len(rs[m].recycled)
           /\ \A i \in 1..Len(rs[m].recycled) : rs[m].recycled[i] \in IX!Entities
<1>1. RangeAt(rs[m], m) /\ m \in IX!EntityIds
  BY DEF RangesAt
<1>2. rs[m].recycled \in Seq(IX!Entities)
  BY <1>1 DEF RangeAt
<1>3. rs[m].min = m
  BY <1>1 DEF RangeAt
<1>4. /\ rs[m].max \in IX!Ids /\ rs[m].cur \in IX!Ids
      /\ rs[m].cur >= m - 1 /\ (rs[m].max = 0 \/ m <= rs[m].max)
  BY <1>1 DEF RangeAt
<1>5. /\ Len(rs[m].recycled) \in Nat
      /\ DOMAIN rs[m].recycled = 1..Len(rs[m].recycled)
      /\ \A i \in 1..Len(rs[m].recycled) : rs[m].recycled[i] \in IX!Entities
  BY <1>2, LenProperties, ElementOfSeq
<1> QED BY <1>1, <1>2, <1>3, <1>4, <1>5, IdFacts

(* The largest id that may be issued, see Limit.                           *)
Top(rs, ac) == IF ac = 0 \/ rs[ac].max = 0 THEN MaxId ELSE rs[ac].max

(* The ids from max_id to there are not in use, and in the active range.   *)
LEMMA FreshFacts ==
    ASSUME NEW ix, NEW dd, NEW rs, NEW ac, Good(ix, dd, rs, ac)
    PROVE  /\ Top(rs, ac) \in Int /\ Top(rs, ac) <= MaxId
           /\ \A id \in IX!Ids : id > ix.max_id /\ id <= Top(rs, ac) =>
                 ~IX!Exists(ix, id) /\ (ac # 0 => InRange(rs[ac], id))
<1>1. CASE ac = 0
  <2>1. \A id \in IX!Ids : IX!Exists(ix, id) => id <= ix.max_id
    BY <1>1 DEF Good, CountersOk
  <2>2. ix.max_id \in IX!Ids
    BY SoundFacts DEF Good
  <2>3. Top(rs, ac) = MaxId
    BY <1>1 DEF Top
  <2> QED BY <1>1, <2>1, <2>2, <2>3, IdFacts
<1>2. CASE ac # 0
  <2>1. ac \in DOMAIN rs /\ ix.max_id >= ac - 1 /\ ix.max_id \in IX!Ids
    BY <1>2, SoundFacts DEF Good, ActiveOk
  <2>2. ac \in Int /\ 1 <= ac /\ rs[ac].min = ac /\ rs[ac].max \in IX!Ids
    BY <2>1, RangeFacts DEF Good
  <2>3. \A id \in IX!Ids : id > ix.max_id /\ id <= Top(rs, ac) => InRange(rs[ac], id)
    BY <1>2, <2>1, <2>2, IdFacts DEF Top, InRange
  <2>4. \A id \in IX!Ids : IX!Exists(ix, id) /\ InRange(rs[ac], id) => id <= ix.max_id
    BY <2>1 DEF Good, CountersOk, Counter
  <2>5. Top(rs, ac) \in Int /\ Top(rs, ac) <= MaxId
    BY <2>2, IdFacts DEF Top
  <2> QED BY <2>1, <2>3, <2>4, <2>5, IdFacts
<1> QED BY <1>1, <1>2

(* Creation of ids up to there.                                            *)
LEMMA CreateKeeps ==
    ASSUME NEW ix, NEW dd, NEW rs, NEW ac, Good(ix, dd, rs, ac),
           NEW n \in Nat \ {0}, NEW m, m = IX!FreshNeeded(ix, n),
           m = 0 \/ ix.max_id + m <= Top(rs, ac)
    PROVE  /\ Good(IX!NewIds(ix, n), dd, rs, ac)
           /\ \A id \in IX!Ids :
                 ~IX!IdIsAlive(ix, id) /\ IX!IdIsAlive(IX!NewIds(ix, n), id) =>
                    ac = 0 \/ InRange(rs[ac], id)
<1> DEFINE iy == IX!NewIds(ix, n)
           B  == (ix.max_id + 1)..(ix.max_id + m)
<1>0. /\ Sound(ix) /\ dd \subseteq IX!Entities /\ RangesAt(rs) /\ Disjoint(rs)
      /\ ActiveOk(ix, rs, ac) /\ CountersOk(ix, rs, ac)
      /\ \A k \in DOMAIN rs : RecycledOk(ix, rs[k])
      /\ \A h \in dd : Behind(ix, rs, ac, h)
  BY DEF Good
<1>1. ix.max_id \in Int /\ 0 <= ix.max_id /\ ix.max_id <= MaxId /\ m \in Nat
  <2>1. ix.alive_count \in Nat /\ Len(ix.dense) \in Nat /\ ix.max_id \in IX!Ids
    BY <1>0, SoundFacts
  <2>2. m \in Nat
    BY <2>1 DEF IX!FreshNeeded, IX!MaxOf, IX!Count
  <2> QED BY <2>1, <2>2, IdFacts
<1>2. ix.max_id + m <= MaxId
  <2>1. Top(rs, ac) \in Int /\ Top(rs, ac) <= MaxId
    BY FreshFacts
  <2> QED BY <1>1, <2>1, IdFacts
<1>3. ASSUME NEW id \in B
      PROVE  /\ id \in IX!Ids /\ ~IX!Exists(ix, id) /\ (ac # 0 => InRange(rs[ac], id))
             /\ id <= ix.max_id + m
  <2>1. id \in IX!Ids /\ id > ix.max_id /\ m # 0 /\ id <= ix.max_id + m
    BY <1>1, <1>2, IdFacts
  <2>2. id <= Top(rs, ac)
    BY <2>1, <1>1, FreshFacts, IdFacts
  <2> QED BY <2>1, <2>2, FreshFacts
<1>4. /\ Sound(iy) /\ iy.max_id = ix.max_id + m
      /\ \A id \in IX!Ids :
            /\ IX!Exists(iy, id) <=> IX!Exists(ix, id) \/ id \in B
            /\ IX!Exists(ix, id) => IX!Entry(iy, id) = IX!Entry(ix, id)
            /\ IsDead(iy, id) => IsDead(ix, id)
  BY <1>0, <1>2, <1>3, NewIdsEffect
<1> HIDE DEF iy, B
<1>5. ActiveOk(iy, rs, ac)
  <2>1. iy.max_id >= ix.max_id
    BY <1>1, <1>4
  <2>2. ac # 0 => iy.max_id >= ac - 1
    <3> SUFFICES ASSUME ac # 0 PROVE iy.max_id >= ac - 1
      OBVIOUS
    <3>1. ac \in DOMAIN rs /\ ix.max_id >= ac - 1
      BY <1>0 DEF ActiveOk
    <3> QED BY <2>1, <3>1, <1>0, <1>1, <1>4, RangeFacts
  <2> QED BY <2>2, <1>0, <1>4 DEF ActiveOk
<1>6. ASSUME NEW k \in DOMAIN rs PROVE RecycledOk(iy, rs[k])
  <2> SUFFICES ASSUME NEW i \in 1..Len(rs[k].recycled)
               PROVE  ~IX!Exists(iy, rs[k].recycled[i].id)
    BY <1>0 DEF RecycledOk
  <2> DEFINE id == rs[k].recycled[i].id
  <2>1. id \in IX!Ids /\ InRange(rs[k], id) /\ ~IX!Exists(ix, id)
    BY <1>0, RangeFacts, IdFacts DEF RecycledOk
  <2>2. id \notin B
    <3>1. SUFFICES ASSUME id \in B PROVE FALSE
      OBVIOUS
    <3>2. ac # 0
      BY <1>0 DEF ActiveOk
    <3>3. ac \in DOMAIN rs /\ InRange(rs[ac], id) /\ Len(rs[ac].recycled) = 0
      BY <3>1, <3>2, <1>0, <1>3 DEF ActiveOk
    <3>4. k = ac
      BY <2>1, <3>3, <1>0 DEF Disjoint
    <3> QED BY <3>3, <3>4
  <2> QED BY <2>1, <2>2, <1>4
<1>7. CountersOk(iy, rs, ac)
  <2>1. ASSUME NEW id \in IX!Ids, IX!Exists(iy, id) PROVE ac = 0 => id <= iy.max_id
    <3>1. ac = 0 /\ IX!Exists(ix, id) => id <= ix.max_id
      BY <1>0 DEF CountersOk
    <3> QED BY <2>1, <3>1, <1>1, <1>3, <1>4, IdFacts
  <2>2. ASSUME NEW k \in DOMAIN rs, NEW id \in IX!Ids, IX!Exists(iy, id), InRange(rs[k], id)
        PROVE  id <= Counter(iy, rs, ac, k)
    <3>1. CASE IX!Exists(ix, id)
      <4>1. id <= Counter(ix, rs, ac, k)
        BY <2>2, <3>1, <1>0 DEF CountersOk
      <4> QED BY <4>1, <1>1, <1>4, IdFacts DEF Counter
    <3>2. CASE ~IX!Exists(ix, id)
      <4>1. id \in B
        BY <2>2, <3>2, <1>4
      <4>2. ac # 0
        BY <2>2, <1>0 DEF ActiveOk
      <4>3. ac \in DOMAIN rs /\ InRange(rs[ac], id)
        BY <4>1, <4>2, <1>0, <1>3 DEF ActiveOk
      <4>4. k = ac
        BY <2>2, <4>3, <1>0 DEF Disjoint
      <4> QED BY <4>1, <4>4, <1>3, <1>4 DEF Counter
    <3> QED BY <3>1, <3>2
  <2> QED BY <2>1, <2>2 DEF CountersOk
<1>8. ASSUME NEW h \in dd PROVE Behind(iy, rs, ac, h)
  <2>1. h.id \in IX!Ids
    BY <1>0, IdFacts
  <2>2. CASE IX!Exists(ix, h.id) /\ h.gen < IX!Entry(ix, h.id).gen
    BY <2>1, <2>2, <1>4 DEF Behind
  <2>3. CASE \E k \in DOMAIN rs : InList(rs[k].recycled, h)
    BY <2>3 DEF Behind
  <2>4. CASE /\ ac # 0 /\ ~IX!Exists(ix, h.id)
             /\ \A k \in DOMAIN rs : ~InRange(rs[k], h.id)
    <3>1. h.id \notin B
      BY <2>4, <1>0, <1>3 DEF ActiveOk
    <3> QED BY <2>1, <2>4, <3>1, <1>4 DEF Behind
  <2> QED BY <2>2, <2>3, <2>4, <1>0 DEF Behind
<1>9. ASSUME NEW id \in IX!Ids, ~IX!IdIsAlive(ix, id), IX!IdIsAlive(iy, id), ac # 0
      PROVE  InRange(rs[ac], id)
  <2>1. IX!Exists(ix, id) \/ id \in B
    BY <1>4, <1>9 DEF IX!IdIsAlive
  <2>2. IX!Exists(ix, id) => IsDead(ix, id)
    BY <1>9 DEF IsDead
  <2> QED BY <2>1, <2>2, <1>0, <1>3, <1>9 DEF ActiveOk
<1> QED BY <1>0, <1>4, <1>5, <1>6, <1>7, <1>8, <1>9 DEF Good, iy

-----------------------------------------------------------------------------
(* Changes of one range.                                                   *)
LEMMA SetOne ==
    ASSUME NEW rs, RangesAt(rs), NEW m \in DOMAIN rs, NEW r, RangeAt(r, m),
           NEW rt, rt = [rs EXCEPT ![m] = r]
    PROVE  /\ RangesAt(rt)
           /\ DOMAIN rt = DOMAIN rs
           /\ rt[m] = r
           /\ \A k \in DOMAIN rs : k # m => rt[k] = rs[k]
<1>1. rs = [k \in DOMAIN rs |-> rs[k]]
  BY DEF RangesAt
<1>2. /\ rt = [k \in DOMAIN rs |-> IF k = m THEN r ELSE rs[k]]
      /\ DOMAIN rt = DOMAIN rs
  BY <1>1
<1>3. rt[m] = r /\ \A k \in DOMAIN rs : k # m => rt[k] = rs[k]
  BY <1>2
<1>4. rt = [k \in DOMAIN rt |-> rt[k]]
  BY <1>2
<1>5. \A k \in DOMAIN rt : RangeAt(rt[k], k)
  BY <1>2, <1>3 DEF RangesAt
<1>6. DOMAIN rt \subseteq IX!EntityIds
  BY <1>2 DEF RangesAt
<1> QED BY <1>2, <1>3, <1>4, <1>5, <1>6 DEF RangesAt

(* The range that is found for an id has the id.                           *)
LEMMA FindFacts ==
    ASSUME NEW rs, RangesAt(rs), NEW id
    PROVE  /\ FindRange(rs, id) = 0 => \A m \in DOMAIN rs : ~InRange(rs[m], id)
           /\ FindRange(rs, id) # 0 => /\ FindRange(rs, id) \in DOMAIN rs
                                       /\ InRange(rs[FindRange(rs, id)], id)
<1>1. 0 \notin DOMAIN rs
  BY IdFacts DEF RangesAt
<1>2. CASE \E m \in DOMAIN rs : InRange(rs[m], id)
  <2>1. FindRange(rs, id) = CHOOSE m \in DOMAIN rs : InRange(rs[m], id)
    BY <1>2 DEF FindRange
  <2>2. FindRange(rs, id) \in DOMAIN rs /\ InRange(rs[FindRange(rs, id)], id)
    BY <1>2, <2>1
  <2> QED BY <1>1, <2>2
<1>3. CASE ~\E m \in DOMAIN rs : InRange(rs[m], id)
  BY <1>3 DEF FindRange
<1> QED BY <1>2, <1>3

(* rt is rs up to the counters, of which none has gone back.               *)
Advanced(rs, rt) ==
    /\ RangesAt(rt)
    /\ DOMAIN rt = DOMAIN rs
    /\ \A m \in DOMAIN rs : /\ rt[m].min = rs[m].min /\ rt[m].max = rs[m].max
                            /\ rt[m].recycled = rs[m].recycled
                            /\ rt[m].cur >= rs[m].cur

LEMMA SameAdvanced == ASSUME NEW rs, RangesAt(rs) PROVE Advanced(rs, rs)
<1>1. \A m \in DOMAIN rs : rs[m].cur >= rs[m].cur
  BY RangeFacts, IdFacts
<1> QED BY <1>1 DEF Advanced

(* The counter of one range moves on.                                      *)
LEMMA AdvanceOne ==
    ASSUME NEW rs, RangesAt(rs), NEW m \in DOMAIN rs, NEW c \in IX!Ids, c >= rs[m].cur,
           NEW rt, rt = [rs EXCEPT ![m].cur = c]
    PROVE  Advanced(rs, rt) /\ rt[m].cur = c
<1> DEFINE r == [min |-> m, max |-> rs[m].max, cur |-> c, recycled |-> rs[m].recycled]
<1>0. /\ m \in Int /\ rs[m].max \in IX!Ids /\ rs[m].cur \in Int /\ rs[m].cur >= m - 1
      /\ (rs[m].max = 0 \/ m <= rs[m].max) /\ rs[m].recycled \in Seq(IX!Entities)
      /\ \A k \in DOMAIN rs : rs[k].min = k /\ rs[k].cur \in Int
  BY RangeFacts, IdFacts
<1>1. rs[m] = [min |-> m, max |-> rs[m].max, cur |-> rs[m].cur, recycled |-> rs[m].recycled]
  BY DEF RangesAt, RangeAt
<1>2. [rs[m] EXCEPT !.cur = c] = r
  BY <1>1
<1>3. rt = [rs EXCEPT ![m] = r]
  <2>1. rt = [rs EXCEPT ![m] = [rs[m] EXCEPT !.cur = c]]
    OBVIOUS
  <2> QED BY <2>1, <1>2
<1>4. r.min = m /\ r.max = rs[m].max /\ r.cur = c /\ r.recycled = rs[m].recycled
  OBVIOUS
<1>5. RangeAt(r, m)
  <2>1. c >= m - 1
    BY <1>0, IdFacts
  <2> QED BY <2>1, <1>0 DEF RangeAt
<1> HIDE DEF r
<1>6. /\ RangesAt(rt) /\ DOMAIN rt = DOMAIN rs /\ rt[m] = r
      /\ \A k \in DOMAIN rs : k # m => rt[k] = rs[k]
  <2>1. RangesAt(rs) /\ m \in DOMAIN rs
    OBVIOUS
  <2> QED BY ONLY <2>1, <1>3, <1>5, SetOne, Zenon
<1>7. \A k \in DOMAIN rs : rs[k].cur >= rs[k].cur
  BY <1>0
<1> QED BY <1>0, <1>4, <1>6, <1>7 DEF Advanced

(* An id that is in no recycled list becomes alive, and the counter of its *)
(* range has passed it.                                                    *)
LEMMA ReviveKeeps ==
    ASSUME NEW ix, NEW dd, NEW rs, NEW ac, Good(ix, dd, rs, ac),
           NEW e \in IX!Entities, NEW iy, NEW rt,
           \A m \in DOMAIN rs : ~Lists(rs[m].recycled, e.id),
           Sound(iy), iy.max_id >= ix.max_id,
           IX!IdIsAlive(iy, e.id), IX!Exists(iy, e.id), IX!Entry(iy, e.id) = e,
           \A id \in IX!Ids : id # e.id => SameAt(ix, iy, id),
           Advanced(rs, rt),
           ac = 0 => e.id <= iy.max_id,
           \A m \in DOMAIN rs : InRange(rs[m], e.id) => e.id <= Counter(iy, rt, ac, m)
    PROVE  Good(iy, {h \in dd : h.id # e.id \/ h.gen < e.gen}, rt, ac)
<1> DEFINE dn == {h \in dd : h.id # e.id \/ h.gen < e.gen}
<1>0. /\ Sound(ix) /\ dd \subseteq IX!Entities /\ RangesAt(rs) /\ Disjoint(rs)
      /\ ActiveOk(ix, rs, ac) /\ CountersOk(ix, rs, ac)
      /\ \A k \in DOMAIN rs : RecycledOk(ix, rs[k])
      /\ \A h \in dd : Behind(ix, rs, ac, h)
  BY DEF Good
<1>1. /\ RangesAt(rt) /\ DOMAIN rt = DOMAIN rs
      /\ \A m \in DOMAIN rs : /\ rt[m].recycled = rs[m].recycled /\ rt[m].cur >= rs[m].cur
                              /\ \A id : InRange(rt[m], id) <=> InRange(rs[m], id)
  BY DEF Advanced, InRange
<1>2. /\ e.id \in IX!Ids /\ ix.max_id \in IX!Ids /\ iy.max_id \in IX!Ids
  BY <1>0, SoundFacts, IdFacts
<1>3. \A id \in IX!Ids : id # e.id =>
         /\ IX!Exists(iy, id) <=> IX!Exists(ix, id)
         /\ IX!IdIsAlive(iy, id) <=> IX!IdIsAlive(ix, id)
         /\ IX!Exists(ix, id) => IX!Entry(iy, id) = IX!Entry(ix, id)
  BY DEF SameAt
<1>4. Disjoint(rt)
  BY <1>0, <1>1 DEF Disjoint
<1>5. ActiveOk(iy, rt, ac)
  <2>1. ac = 0 <=> DOMAIN rt = {}
    BY <1>0, <1>1 DEF ActiveOk
  <2>2. ASSUME ac # 0
        PROVE  /\ ac \in DOMAIN rt /\ Len(rt[ac].recycled) = 0
               /\ iy.max_id >= ac - 1
               /\ \A id \in IX!Ids : IsDead(iy, id) => InRange(rt[ac], id)
    <3>1. /\ ac \in DOMAIN rs /\ Len(rs[ac].recycled) = 0 /\ ix.max_id >= ac - 1
          /\ \A id \in IX!Ids : IsDead(ix, id) => InRange(rs[ac], id)
      BY <1>0, <2>2 DEF ActiveOk
    <3>2. ac \in Int
      BY <1>0, <3>1, RangeFacts
    <3>3. iy.max_id >= ac - 1
      BY <1>2, <3>1, <3>2, IdFacts
    <3>4. \A id \in IX!Ids : IsDead(iy, id) => IsDead(ix, id)
      BY <1>3 DEF IsDead
    <3> QED BY <1>1, <3>1, <3>3, <3>4
  <2> QED BY <2>1, <2>2 DEF ActiveOk
<1>6. ASSUME NEW m \in DOMAIN rt PROVE RecycledOk(iy, rt[m])
  <2> SUFFICES ASSUME NEW i \in 1..Len(rs[m].recycled)
               PROVE  /\ InRange(rt[m], rs[m].recycled[i].id)
                      /\ ~IX!Exists(iy, rs[m].recycled[i].id)
                      /\ rs[m].recycled[i].id <= rt[m].cur
                      /\ \A j \in 1..Len(rs[m].recycled) :
                            rs[m].recycled[j].id = rs[m].recycled[i].id => i = j
    BY <1>1 DEF RecycledOk
  <2>1. /\ InRange(rs[m], rs[m].recycled[i].id)
        /\ ~IX!Exists(ix, rs[m].recycled[i].id)
        /\ rs[m].recycled[i].id <= rs[m].cur
        /\ \A j \in 1..Len(rs[m].recycled) :
              rs[m].recycled[j].id = rs[m].recycled[i].id => i = j
    BY <1>0, <1>1 DEF RecycledOk
  <2>2. rs[m].recycled[i].id \in IX!Ids /\ rs[m].cur \in IX!Ids /\ rt[m].cur \in IX!Ids
    BY <1>0, <1>1, RangeFacts, IdFacts
  <2>3. rs[m].recycled[i].id # e.id
    BY <1>1 DEF Lists
  <2>4. rs[m].recycled[i].id <= rt[m].cur
    BY <1>1, <2>1, <2>2, IdFacts
  <2> QED BY <1>1, <1>3, <2>1, <2>2, <2>3, <2>4
<1>7. CountersOk(iy, rt, ac)
  <2>1. ASSUME ac = 0, NEW id \in IX!Ids, IX!Exists(iy, id) PROVE id <= iy.max_id
    <3>1. CASE id = e.id
      BY <2>1, <3>1
    <3>2. CASE id # e.id
      <4>1. id <= ix.max_id
        BY <1>0, <1>3, <2>1, <3>2 DEF CountersOk
      <4> QED BY <4>1, <1>2, IdFacts
    <3> QED BY <3>1, <3>2
  <2>2. ASSUME NEW m \in DOMAIN rt, NEW id \in IX!Ids, IX!Exists(iy, id), InRange(rt[m], id)
        PROVE  id <= Counter(iy, rt, ac, m)
    <3>1. CASE id = e.id
      BY <1>1, <2>2, <3>1
    <3>2. CASE id # e.id
      <4>1. id <= Counter(ix, rs, ac, m)
        BY <1>0, <1>1, <1>3, <2>2, <3>2 DEF CountersOk
      <4>2. rs[m].cur \in IX!Ids /\ rt[m].cur \in IX!Ids /\ rt[m].cur >= rs[m].cur
        BY <1>0, <1>1, RangeFacts
      <4> QED BY <4>1, <4>2, <1>2, IdFacts DEF Counter
    <3> QED BY <3>1, <3>2
  <2> QED BY <2>1, <2>2 DEF CountersOk
<1>8. ASSUME NEW h \in dn PROVE Behind(iy, rt, ac, h)
  <2>1. h \in dd /\ h.id \in IX!Ids /\ Behind(ix, rs, ac, h)
    BY <1>0, IdFacts
  <2>2. CASE h.id = e.id
    BY <2>2 DEF Behind
  <2>3. CASE h.id # e.id
    <3>1. CASE IX!Exists(ix, h.id) /\ h.gen < IX!Entry(ix, h.id).gen
      BY <2>1, <2>3, <3>1, <1>3 DEF Behind
    <3>2. CASE \E m \in DOMAIN rs : InList(rs[m].recycled, h)
      BY <3>2, <1>1 DEF Behind
    <3>3. CASE /\ ac # 0 /\ ~IX!Exists(ix, h.id)
               /\ \A m \in DOMAIN rs : ~InRange(rs[m], h.id)
      BY <2>1, <2>3, <3>3, <1>1, <1>3 DEF Behind
    <3> QED BY <2>1, <3>1, <3>2, <3>3 DEF Behind
  <2> QED BY <2>2, <2>3
<1>9. dn \subseteq IX!Entities
  BY <1>0
<1> HIDE DEF dn
<1>10. Good(iy, dn, rt, ac)
  BY <1>1, <1>4, <1>5, <1>6, <1>7, <1>8, <1>9 DEF Good
<1> QED BY <1>10 DEF dn

(* An index with another max_id.                                           *)
LEMMA SetMaxId ==
    ASSUME NEW ix, Sound(ix), NEW c \in IX!Ids, NEW iy, iy = [ix EXCEPT !.max_id = c]
    PROVE  /\ Sound(iy)
           /\ iy.max_id = c
           /\ \A id : /\ IX!Exists(iy, id) <=> IX!Exists(ix, id)
                      /\ IX!IdIsAlive(iy, id) <=> IX!IdIsAlive(ix, id)
                      /\ IX!Entry(iy, id) = IX!Entry(ix, id)
<1>1. ix \in IX!IndexType
  BY DEF Sound
<1>2. iy = [dense |-> ix.dense, record |-> ix.record,
            alive_count |-> ix.alive_count, max_id |-> c]
  BY <1>1 DEF IX!IndexType
<1>3. /\ iy.dense = ix.dense /\ iy.record = ix.record
      /\ iy.alive_count = ix.alive_count /\ iy.max_id = c
      /\ iy \in IX!IndexType
  BY <1>1, <1>2 DEF IX!IndexType
<1>4. \A id : /\ IX!Exists(iy, id) <=> IX!Exists(ix, id)
              /\ IX!IdIsAlive(iy, id) <=> IX!IdIsAlive(ix, id)
              /\ IX!Entry(iy, id) = IX!Entry(ix, id)
  BY <1>3 DEF IX!Exists, IX!IdIsAlive, IX!Entry
<1>5. Sound(iy)
  BY <1>3 DEF Sound, IX!Linked, IX!Count, IX!Exists, IX!Entry
<1> QED BY <1>3, <1>4, <1>5

(* ecs_make_alive keeps the invariant, unless an inactive range has        *)
(* recycled the id.                                                        *)
LEMMA MakeAliveInv ==
    ASSUME IInv, NEW e \in IX!Entities, EcsMakeAlive(e), "revive" \notin Careless
    PROVE  IInv'
<1> DEFINE iz == IX!Ensure(IX!MakeAlive(index, e), e)
           m  == FindRange(ranges, e.id)
           c  == IX!MaxOf(e.id, ranges[m].cur)
           out == OutOfActive(e.id) /\ ~IX!Exists(index, e.id)
<1>0. /\ Good(index, dead, ranges, active) /\ Sound(index) /\ RangesAt(ranges)
      /\ Disjoint(ranges) /\ ActiveOk(index, ranges, active)
      /\ CountersOk(index, ranges, active)
  BY DEF IInv, Good
<1>1. ~IX!IdIsAlive(index, e.id) /\ ~RecycledElsewhere(e.id) /\ OnEnsure(e)
      /\ dead' = {h \in dead : h.id # e.id \/ h.gen < e.gen} /\ active' = active
  BY DEF EcsMakeAlive, IX!Retake
<1>2. \A k \in DOMAIN ranges : ~Lists(ranges[k].recycled, e.id)
  BY <1>0, <1>1, RangeFacts DEF RecycledElsewhere, Recycled, Lists
<1>3. /\ Sound(iz) /\ IX!IdIsAlive(iz, e.id) /\ IX!Exists(iz, e.id) /\ IX!Entry(iz, e.id) = e
      /\ iz.max_id = IF IX!Exists(index, e.id) THEN index.max_id
                     ELSE IX!MaxOf(e.id, index.max_id)
      /\ \A id \in IX!Ids : id # e.id => SameAt(index, iz, id)
  BY <1>0, <1>1, ReviveEffect
<1>4. /\ out => /\ index' = [iz EXCEPT !.max_id = index.max_id]
                /\ ranges' = IF m = 0 THEN ranges ELSE [ranges EXCEPT ![m].cur = c]
      /\ ~out => index' = iz /\ ranges' = ranges
  BY <1>1 DEF OnEnsure
<1> HIDE DEF iz, m, c
<1>5. e.id \in IX!Ids /\ index.max_id \in IX!Ids /\ index.max_id \in Int
  BY <1>0, SoundFacts, IdFacts
<1>6. CASE out
  <2>1. /\ Sound(index') /\ index'.max_id = index.max_id
        /\ IX!IdIsAlive(index', e.id) /\ IX!Exists(index', e.id) /\ IX!Entry(index', e.id) = e
        /\ \A id \in IX!Ids : id # e.id => SameAt(index, index', id)
    <3>1. index' = [iz EXCEPT !.max_id = index.max_id]
      BY <1>4, <1>6
    <3>2. /\ Sound(index') /\ index'.max_id = index.max_id
          /\ \A id : /\ IX!Exists(index', id) <=> IX!Exists(iz, id)
                     /\ IX!IdIsAlive(index', id) <=> IX!IdIsAlive(iz, id)
                     /\ IX!Entry(index', id) = IX!Entry(iz, id)
      BY ONLY <1>3, <1>5, <3>1, SetMaxId
    <3> QED BY <3>2, <1>3 DEF SameAt
  <2>2. active # 0 /\ ~InRange(ranges[active], e.id)
    BY <1>6 DEF OutOfActive
  <2>3. CASE m = 0
    <3>1. \A k \in DOMAIN ranges : ~InRange(ranges[k], e.id)
      BY <1>0, <2>3, FindFacts DEF m
    <3>2. ranges' = ranges
      BY <1>4, <1>6, <2>3
    <3>3. Good(index', dead', ranges', active')
      BY <1>0, <1>1, <1>2, <1>5, <2>1, <2>2, <3>1, <3>2, ReviveKeeps, SameAdvanced
    <3> QED BY <3>3 DEF IInv
  <2>4. CASE m # 0
    <3>1. m \in DOMAIN ranges /\ InRange(ranges[m], e.id) /\ m # active
      BY <1>0, <2>2, <2>4, FindFacts DEF m
    <3>2. ranges[m].cur \in IX!Ids
      BY <1>0, <3>1, RangeFacts
    <3>3. c \in IX!Ids /\ c >= e.id /\ c >= ranges[m].cur
      BY <1>5, <3>2, IdFacts DEF c, IX!MaxOf
    <3>4. Advanced(ranges, ranges') /\ ranges'[m].cur = c
      BY <1>0, <1>4, <1>6, <2>4, <3>1, <3>3, AdvanceOne
    <3>5. ASSUME NEW k \in DOMAIN ranges, InRange(ranges[k], e.id)
          PROVE  e.id <= Counter(index', ranges', active, k)
      <4>1. k = m
        BY <1>0, <1>5, <3>1, <3>5 DEF Disjoint
      <4> QED BY <4>1, <3>1, <3>3, <3>4 DEF Counter
    <3>6. index'.max_id >= index.max_id
      BY <1>5, <2>1
    <3>7. Good(index', dead', ranges', active')
      BY <1>0, <1>1, <1>2, <2>1, <2>2, <3>4, <3>5, <3>6, ReviveKeeps
    <3> QED BY <3>7 DEF IInv
  <2> QED BY <2>3, <2>4
<1>7. CASE ~out
  <2>1. index' = iz /\ ranges' = ranges
    BY <1>4, <1>7
  <2>2. index'.max_id >= index.max_id
    BY <1>3, <1>5, <2>1, IdFacts DEF IX!MaxOf
  <2>3. active = 0 => e.id <= index'.max_id
    <3>1. CASE IX!Exists(index, e.id)
      BY <1>0, <1>3, <1>5, <2>1, <3>1 DEF CountersOk
    <3>2. CASE ~IX!Exists(index, e.id)
      BY <1>3, <1>5, <2>1, <3>2, IdFacts DEF IX!MaxOf
    <3> QED BY <3>1, <3>2
  <2>4. ASSUME NEW k \in DOMAIN ranges, InRange(ranges[k], e.id)
        PROVE  e.id <= Counter(index', ranges, active, k)
    <3>1. CASE IX!Exists(index, e.id)
      <4>1. e.id <= Counter(index, ranges, active, k)
        BY <1>0, <1>5, <2>4, <3>1 DEF CountersOk
      <4> QED BY <4>1, <3>1, <1>3, <2>1 DEF Counter
    <3>2. CASE ~IX!Exists(index, e.id)
      <4>1. active \in DOMAIN ranges /\ InRange(ranges[active], e.id)
        BY <1>0, <1>7, <2>4, <3>2 DEF ActiveOk, OutOfActive
      <4>2. k = active
        BY <1>0, <1>5, <2>4, <4>1 DEF Disjoint
      <4> QED BY <4>2, <3>2, <1>3, <1>5, <2>1, IdFacts DEF Counter, IX!MaxOf
    <3> QED BY <3>1, <3>2
  <2>5. Good(index', dead', ranges', active')
    BY <1>0, <1>1, <1>2, <1>3, <2>1, <2>2, <2>3, <2>4, ReviveKeeps, SameAdvanced
  <2> QED BY <2>5 DEF IInv
<1> QED BY <1>6, <1>7

-----------------------------------------------------------------------------
(* Deletion. The handles of e that were deleted before are behind e, so    *)
(* that all deleted ones are behind the next version of e.                 *)
LEMMA DeadVersions ==
    ASSUME NEW ix, NEW dd, NEW rs, NEW ac, Good(ix, dd, rs, ac),
           NEW e \in IX!Entities, IX!IsAlive(ix, e), NEW dn,
           dn = IF e.gen = GenCount - 1 THEN {h \in dd : h.id # e.id} ELSE dd \cup {e}
    PROVE  /\ dn \subseteq IX!Entities
           /\ \A h \in dn : h.id # e.id => h \in dd
           /\ \A h \in dn : h.id = e.id => h.gen < IX!GenerationInc(e).gen
<1>0. /\ RangesAt(rs) /\ dd \subseteq IX!Entities
      /\ IX!Exists(ix, e.id) /\ IX!Entry(ix, e.id) = e
  BY DEF Good, IX!IsAlive, IX!IdIsAlive
<1>1. ASSUME NEW h \in dd, h.id = e.id PROVE h.gen < e.gen
  <2>1. Behind(ix, rs, ac, h)
    BY DEF Good
  <2>2. ASSUME NEW m \in DOMAIN rs PROVE ~InList(rs[m].recycled, h)
    <3>1. RecycledOk(ix, rs[m])
      BY DEF Good
    <3> QED BY <3>1, <1>0, <1>1 DEF RecycledOk, InList
  <2> QED BY <2>1, <2>2, <1>0, <1>1 DEF Behind
<1>2. dn \subseteq IX!Entities
  BY <1>0
<1>3. \A h \in dn : h.id # e.id => h \in dd
  OBVIOUS
<1>4. ASSUME NEW h \in dn, h.id = e.id PROVE h.gen < IX!GenerationInc(e).gen
  <2>1. e.gen # GenCount - 1 /\ (h \in dd \/ h = e)
    BY <1>4
  <2>2. IX!GenerationInc(e).gen = e.gen + 1 /\ h.gen \in Int /\ e.gen \in Int
    BY <1>2, <2>1, GenerationIncFacts, IdFacts
  <2>3. h.gen < e.gen \/ h = e
    BY <1>1, <1>4, <2>1
  <2> QED BY <2>2, <2>3
<1> QED BY <1>2, <1>3, <1>4

(* An id of the active range, or when there is none, dies in the index.    *)
LEMMA DeleteHere ==
    ASSUME NEW ix, NEW dd, NEW rs, NEW ac, Good(ix, dd, rs, ac),
           NEW e \in IX!Entities, IX!IsAlive(ix, e),
           ac = 0 \/ InRange(rs[ac], e.id),
           NEW dn, dn \subseteq IX!Entities,
           \A h \in dn : h.id # e.id => h \in dd,
           \A h \in dn : h.id = e.id => h.gen < IX!GenerationInc(e).gen
    PROVE  Good(IX!Remove(ix, e), dn, rs, ac)
<1> DEFINE iy == IX!Remove(ix, e)
<1>0. /\ Sound(ix) /\ RangesAt(rs) /\ Disjoint(rs) /\ dd \subseteq IX!Entities
      /\ ActiveOk(ix, rs, ac) /\ CountersOk(ix, rs, ac)
      /\ \A k \in DOMAIN rs : RecycledOk(ix, rs[k])
      /\ \A h \in dd : Behind(ix, rs, ac, h)
  BY DEF Good
<1>1. /\ Sound(iy) /\ IsDead(iy, e.id) /\ IX!Entry(iy, e.id) = IX!GenerationInc(e)
      /\ iy.max_id = ix.max_id
      /\ \A id \in IX!Ids : id # e.id => SameAt(ix, iy, id)
  BY <1>0, RemoveEffect
<1> HIDE DEF iy
<1>2. e.id \in IX!Ids /\ IX!Exists(ix, e.id) /\ IX!Exists(iy, e.id)
  BY <1>1, IdFacts DEF IX!IsAlive, IX!IdIsAlive, IsDead
<1>3. \A id \in IX!Ids : /\ IX!Exists(iy, id) <=> IX!Exists(ix, id)
                         /\ IsDead(iy, id) => IsDead(ix, id) \/ id = e.id
                         /\ id # e.id /\ IX!Exists(ix, id) =>
                               IX!Entry(iy, id) = IX!Entry(ix, id)
  BY <1>1, <1>2 DEF SameAt, IsDead
<1>4. ActiveOk(iy, rs, ac)
  BY <1>0, <1>1, <1>3 DEF ActiveOk
<1>5. ASSUME NEW m \in DOMAIN rs PROVE RecycledOk(iy, rs[m])
  <2>1. \A i \in 1..Len(rs[m].recycled) : rs[m].recycled[i].id \in IX!Ids
    BY <1>0, RangeFacts, IdFacts
  <2> QED BY <2>1, <1>0, <1>3 DEF RecycledOk
<1>6. CountersOk(iy, rs, ac)
  BY <1>0, <1>1, <1>3 DEF CountersOk, Counter
<1>7. ASSUME NEW h \in dn PROVE Behind(iy, rs, ac, h)
  <2>1. h.id \in IX!Ids
    BY IdFacts
  <2>2. CASE h.id = e.id
    BY <2>2, <1>1, <1>2 DEF Behind
  <2>3. CASE h.id # e.id
    <3>1. Behind(ix, rs, ac, h)
      BY <2>3, <1>0
    <3> QED BY <2>1, <2>3, <3>1, <1>3 DEF Behind
  <2> QED BY <2>2, <2>3
<1> QED BY <1>0, <1>1, <1>4, <1>5, <1>6, <1>7 DEF Good, iy

(* rt is rs, but the range of e, if it has one, has recycled it.           *)
Handed(rs, rt, e) ==
    /\ RangesAt(rt)
    /\ DOMAIN rt = DOMAIN rs
    /\ \A k \in DOMAIN rs :
          /\ rt[k].min = rs[k].min /\ rt[k].max = rs[k].max /\ rt[k].cur = rs[k].cur
          /\ ~InRange(rs[k], e.id) => rt[k].recycled = rs[k].recycled
          /\ InRange(rs[k], e.id) =>
                /\ Len(rt[k].recycled) = Len(rs[k].recycled) + 1
                /\ rt[k].recycled[Len(rs[k].recycled) + 1] = IX!GenerationInc(e)
                /\ \A i \in 1..Len(rs[k].recycled) :
                      rt[k].recycled[i] = rs[k].recycled[i]

(* What flecs_entity_ranges_on_delete does to the ranges.                  *)
LEMMA HandOver ==
    ASSUME NEW rs, RangesAt(rs), Disjoint(rs), NEW e \in IX!Entities,
           NEW m, m = FindRange(rs, e.id), NEW rt,
           m = 0 => rt = rs,
           m # 0 => rt = [rs EXCEPT ![m].recycled = Append(@, IX!GenerationInc(e))]
    PROVE  Handed(rs, rt, e)
<1> DEFINE s == Append(rs[m].recycled, IX!GenerationInc(e))
           r == [min |-> m, max |-> rs[m].max, cur |-> rs[m].cur, recycled |-> s]
<1>1. CASE m = 0
  <2>1. \A k \in DOMAIN rs : ~InRange(rs[k], e.id)
    BY <1>1, FindFacts
  <2> QED BY <2>1, <1>1 DEF Handed
<1>2. CASE m # 0
  <2>1. m \in DOMAIN rs /\ InRange(rs[m], e.id)
    BY <1>2, FindFacts
  <2>2. /\ rs[m].recycled \in Seq(IX!Entities) /\ IX!GenerationInc(e) \in IX!Entities
        /\ rs[m].min = m /\ Len(rs[m].recycled) \in Nat
    BY <2>1, RangeFacts, GenerationIncFacts
  <2>3. /\ s \in Seq(IX!Entities) /\ Len(s) = Len(rs[m].recycled) + 1
        /\ s[Len(rs[m].recycled) + 1] = IX!GenerationInc(e)
        /\ \A i \in 1..Len(rs[m].recycled) : s[i] = rs[m].recycled[i]
    BY <2>2, AppendProperties
  <2> HIDE DEF s
  <2>4. rs[m] = [min |-> m, max |-> rs[m].max, cur |-> rs[m].cur,
                 recycled |-> rs[m].recycled]
    BY <2>1 DEF RangesAt, RangeAt
  <2>5. [rs[m] EXCEPT !.recycled = s] = r
    BY <2>4
  <2>6. rt = [rs EXCEPT ![m] = r]
    <3>1. rt = [rs EXCEPT ![m] = [rs[m] EXCEPT !.recycled = s]]
      BY <1>2 DEF s
    <3> QED BY <3>1, <2>5
  <2>7. r.min = m /\ r.max = rs[m].max /\ r.cur = rs[m].cur /\ r.recycled = s
    OBVIOUS
  <2>8. RangeAt(r, m)
    <3>1. /\ rs[m].max \in IX!Ids /\ rs[m].cur \in IX!Ids /\ rs[m].cur >= m - 1
          /\ (rs[m].max = 0 \/ m <= rs[m].max)
      BY <2>1, RangeFacts
    <3> QED BY <3>1, <2>3 DEF RangeAt
  <2> HIDE DEF r
  <2>9. /\ RangesAt(rt) /\ DOMAIN rt = DOMAIN rs /\ rt[m] = r
        /\ \A k \in DOMAIN rs : k # m => rt[k] = rs[k]
    <3>1. RangesAt(rs)
      OBVIOUS
    <3> QED BY ONLY <3>1, <2>1, <2>6, <2>8, SetOne, Zenon
  <2>10. \A k \in DOMAIN rs : InRange(rs[k], e.id) => k = m
    BY <2>1, IdFacts DEF Disjoint
  <2> QED BY <2>1, <2>2, <2>3, <2>7, <2>9, <2>10 DEF Handed
<1> QED BY <1>1, <1>2

(* An id outside of the active range leaves the index for its own range.   *)
LEMMA DeleteThere ==
    ASSUME NEW ix, NEW dd, NEW rs, NEW ac, Good(ix, dd, rs, ac),
           NEW e \in IX!Entities, IX!IsAlive(ix, e),
           ac # 0, ~InRange(rs[ac], e.id),
           NEW iy, Sound(iy), ~IX!Exists(iy, e.id), iy.max_id = ix.max_id,
           \A id \in IX!Ids : id # e.id => SameAt(ix, iy, id),
           NEW rt, Handed(rs, rt, e),
           NEW dn, dn \subseteq IX!Entities,
           \A h \in dn : h.id # e.id => h \in dd,
           \A h \in dn : h.id = e.id => h.gen < IX!GenerationInc(e).gen
    PROVE  Good(iy, dn, rt, ac)
<1>0. /\ Sound(ix) /\ RangesAt(rs) /\ Disjoint(rs) /\ dd \subseteq IX!Entities
      /\ ActiveOk(ix, rs, ac) /\ CountersOk(ix, rs, ac)
      /\ \A k \in DOMAIN rs : RecycledOk(ix, rs[k])
      /\ \A h \in dd : Behind(ix, rs, ac, h)
  BY DEF Good
<1>1. /\ e.id \in IX!Ids /\ IX!Exists(ix, e.id)
      /\ IX!GenerationInc(e) \in IX!Entities /\ IX!GenerationInc(e).id = e.id
  BY IdFacts, GenerationIncFacts DEF IX!IsAlive, IX!IdIsAlive
<1>2. /\ RangesAt(rt) /\ DOMAIN rt = DOMAIN rs
      /\ \A k \in DOMAIN rs : /\ rt[k].cur = rs[k].cur
                              /\ \A id : InRange(rt[k], id) <=> InRange(rs[k], id)
  BY DEF Handed, InRange
<1>3. \A id \in IX!Ids :
         /\ IX!Exists(iy, id) <=> id # e.id /\ IX!Exists(ix, id)
         /\ IsDead(iy, id) => IsDead(ix, id)
         /\ IX!Exists(iy, id) => IX!Entry(iy, id) = IX!Entry(ix, id)
  BY DEF SameAt, IsDead
<1>4. Disjoint(rt)
  BY <1>0, <1>2 DEF Disjoint
<1>5. ActiveOk(iy, rt, ac)
  <2>1. ac \in DOMAIN rs /\ rt[ac].recycled = rs[ac].recycled
    BY <1>0 DEF ActiveOk, Handed
  <2> QED BY <2>1, <1>0, <1>2, <1>3 DEF ActiveOk
<1>6. ASSUME NEW k \in DOMAIN rt PROVE RecycledOk(iy, rt[k])
  <2> DEFINE n == Len(rs[k].recycled)
             s == rs[k].recycled
             t == rt[k].recycled
  <2>0. n \in Nat /\ \A i \in 1..n : s[i].id \in IX!Ids
    BY <1>0, <1>2, RangeFacts, IdFacts
  <2>1. \A i \in 1..n : /\ InRange(rt[k], s[i].id)
                        /\ ~IX!Exists(ix, s[i].id) /\ ~IX!Exists(iy, s[i].id)
                        /\ s[i].id # e.id
                        /\ s[i].id <= rt[k].cur
                        /\ \A j \in 1..n : s[j].id = s[i].id => i = j
    <3>1. RecycledOk(ix, rs[k])
      BY <1>0, <1>2
    <3> QED BY <3>1, <2>0, <1>1, <1>2, <1>3 DEF RecycledOk
  <2>2. CASE ~InRange(rs[k], e.id)
    <3>1. t = s
      BY <2>2, <1>2 DEF Handed
    <3> QED BY <3>1, <2>1 DEF RecycledOk
  <2>3. CASE InRange(rs[k], e.id)
    <3>1. /\ Len(t) = n + 1 /\ t[n + 1] = IX!GenerationInc(e)
          /\ \A i \in 1..n : t[i] = s[i]
      BY <2>3, <1>2 DEF Handed
    <3>2. /\ InRange(rt[k], e.id) /\ ~IX!Exists(iy, e.id)
      BY <2>3, <1>2
    <3>3. e.id <= rt[k].cur
      <4>1. k # ac
        BY <2>3
      <4>2. e.id <= Counter(ix, rs, ac, k)
        BY <2>3, <1>0, <1>1, <1>2 DEF CountersOk
      <4> QED BY <4>1, <4>2, <1>2 DEF Counter
    <3>4. \A i \in 1..(n + 1) : i \in 1..n \/ i = n + 1
      BY <2>0
    <3> HIDE DEF n, s, t
    <3>5. ASSUME NEW i \in 1..(n + 1)
          PROVE  /\ InRange(rt[k], t[i].id) /\ ~IX!Exists(iy, t[i].id)
                 /\ t[i].id <= rt[k].cur
                 /\ \A j \in 1..(n + 1) : t[j].id = t[i].id => i = j
      <4>1. CASE i = n + 1
        BY <4>1, <3>1, <3>2, <3>3, <3>4, <2>1, <1>1
      <4>2. CASE i \in 1..n
        BY <4>2, <3>1, <3>4, <2>1, <1>1
      <4> QED BY <4>1, <4>2, <3>4
    <3> QED BY <3>1, <3>5 DEF RecycledOk, t
  <2> QED BY <2>2, <2>3
<1>7. CountersOk(iy, rt, ac)
  <2>1. ASSUME NEW k \in DOMAIN rt, NEW id \in IX!Ids, IX!Exists(iy, id), InRange(rt[k], id)
        PROVE  id <= Counter(iy, rt, ac, k)
    <3>1. id <= Counter(ix, rs, ac, k)
      BY <2>1, <1>0, <1>2, <1>3 DEF CountersOk
    <3> QED BY <3>1, <1>2 DEF Counter
  <2> QED BY <2>1 DEF CountersOk
<1>8. ASSUME NEW h \in dn PROVE Behind(iy, rt, ac, h)
  <2>1. h.id \in IX!Ids
    BY IdFacts
  <2>2. CASE h.id = e.id
    <3>1. CASE \E k \in DOMAIN rs : InRange(rs[k], e.id)
      <4>1. PICK k \in DOMAIN rs : InRange(rs[k], e.id)
        BY <3>1
      <4>2. /\ Len(rt[k].recycled) = Len(rs[k].recycled) + 1
            /\ rt[k].recycled[Len(rs[k].recycled) + 1] = IX!GenerationInc(e)
            /\ Len(rs[k].recycled) \in Nat
        BY <4>1, <1>0, RangeFacts DEF Handed
      <4>3. Len(rs[k].recycled) + 1 \in 1..Len(rt[k].recycled)
        BY <4>2
      <4>4. InList(rt[k].recycled, h)
        BY <4>2, <4>3, <2>2, <1>1 DEF InList
      <4> QED BY <4>4, <1>2 DEF Behind
    <3>2. CASE ~\E k \in DOMAIN rs : InRange(rs[k], e.id)
      BY <3>2, <2>2, <1>2 DEF Behind
    <3> QED BY <3>1, <3>2
  <2>3. CASE h.id # e.id
    <3>1. Behind(ix, rs, ac, h)
      BY <2>3, <1>0
    <3>2. CASE IX!Exists(ix, h.id) /\ h.gen < IX!Entry(ix, h.id).gen
      BY <2>1, <2>3, <3>2, <1>3 DEF Behind
    <3>3. CASE \E k \in DOMAIN rs : InList(rs[k].recycled, h)
      <4>1. PICK k \in DOMAIN rs : InList(rs[k].recycled, h)
        BY <3>3
      <4>2. InList(rt[k].recycled, h)
        <5>1. CASE ~InRange(rs[k], e.id)
          BY <4>1, <5>1 DEF Handed
        <5>2. CASE InRange(rs[k], e.id)
          <6>1. PICK i \in 1..Len(rs[k].recycled) :
                   rs[k].recycled[i].id = h.id /\ h.gen < rs[k].recycled[i].gen
            BY <4>1 DEF InList
          <6>2. /\ Len(rt[k].recycled) = Len(rs[k].recycled) + 1
                /\ rt[k].recycled[i] = rs[k].recycled[i]
                /\ Len(rs[k].recycled) \in Nat
            BY <5>2, <1>0, RangeFacts DEF Handed
          <6>3. i \in 1..Len(rt[k].recycled)
            BY <6>2
          <6> QED BY <6>1, <6>2, <6>3 DEF InList
        <5> QED BY <5>1, <5>2
      <4> QED BY <4>2, <1>2 DEF Behind
    <3>4. CASE /\ ac # 0 /\ ~IX!Exists(ix, h.id)
               /\ \A k \in DOMAIN rs : ~InRange(rs[k], h.id)
      BY <2>1, <2>3, <3>4, <1>2, <1>3 DEF Behind
    <3> QED BY <3>1, <3>2, <3>3, <3>4 DEF Behind
  <2> QED BY <2>2, <2>3
<1> QED BY <1>2, <1>4, <1>5, <1>6, <1>7, <1>8 DEF Good

(* ecs_delete keeps the invariant.                                         *)
LEMMA DeleteInv ==
    ASSUME IInv, NEW e \in IX!Entities, EcsDelete(e)
    PROVE  IInv'
<1> DEFINE ix == IX!Remove(index, e)
           m  == FindRange(ranges, e.id)
<1>0. /\ Good(index, dead, ranges, active) /\ Sound(index) /\ RangesAt(ranges)
      /\ Disjoint(ranges)
  BY DEF IInv, Good
<1>1. /\ IX!IsAlive(index, e) /\ OnDelete(e) /\ active' = active
      /\ dead' = IF e.gen = GenCount - 1 THEN {h \in dead : h.id # e.id} ELSE dead \cup {e}
  BY DEF EcsDelete
<1>2. /\ dead' \subseteq IX!Entities
      /\ \A h \in dead' : h.id # e.id => h \in dead
      /\ \A h \in dead' : h.id = e.id => h.gen < IX!GenerationInc(e).gen
  BY <1>0, <1>1, DeadVersions
<1>3. CASE ~OutOfActive(e.id)
  <2>1. index' = ix /\ ranges' = ranges /\ (active = 0 \/ InRange(ranges[active], e.id))
    BY <1>1, <1>3 DEF OnDelete, OutOfActive
  <2>2. Good(ix, dead', ranges, active)
    BY <1>0, <1>1, <1>2, <2>1, DeleteHere
  <2> QED BY <2>1, <2>2, <1>1 DEF IInv
<1>4. CASE OutOfActive(e.id)
  <2>1. /\ index' = RemoveNotAlive(ix, e.id)
        /\ ranges' = IF m = 0 THEN ranges
                     ELSE [ranges EXCEPT ![m].recycled = Append(@, IX!GenerationInc(e))]
        /\ active # 0 /\ ~InRange(ranges[active], e.id)
    BY <1>1, <1>4 DEF OnDelete, OutOfActive
  <2>2. /\ Sound(ix) /\ IX!Exists(ix, e.id) /\ ix.record[e.id] = ix.alive_count
        /\ ix.max_id = index.max_id
        /\ \A id \in IX!Ids : id # e.id => SameAt(index, ix, id)
    BY <1>0, <1>1, RemoveEffect DEF IsDead
  <2> HIDE DEF ix, m
  <2>3. /\ Sound(index') /\ ~IX!Exists(index', e.id) /\ index'.max_id = ix.max_id
        /\ \A id \in IX!Ids : id # e.id => SameAt(ix, index', id)
    BY <2>1, <2>2, IdFacts, RemoveNotAliveEffect
  <2>4. \A id \in IX!Ids : id # e.id => SameAt(index, index', id)
    BY <2>2, <2>3 DEF SameAt
  <2>5. Handed(ranges, ranges', e)
    BY <1>0, <2>1, HandOver DEF m
  <2>6. Good(index', dead', ranges', active)
    BY <1>0, <1>1, <1>2, <2>1, <2>2, <2>3, <2>4, <2>5, DeleteThere
  <2> QED BY <2>6, <1>1 DEF IInv
<1> QED BY <1>3, <1>4

-----------------------------------------------------------------------------
(* Switches. The ids that range k has to recycle, wherever they are kept.  *)
Held(ix, rs, ac, k) == IF k = ac THEN Gone(ix) ELSE rs[k].recycled

LEMMA HeldFacts ==
    ASSUME NEW ix, NEW dd, NEW rs, NEW ac, Good(ix, dd, rs, ac), ac # 0,
           NEW k \in DOMAIN rs, NEW s, s = Held(ix, rs, ac, k)
    PROVE  /\ s \in Seq(IX!Entities) /\ Len(s) \in Nat
           /\ \A i \in 1..Len(s) :
                 /\ s[i].id \in IX!Ids
                 /\ InRange(rs[k], s[i].id)
                 /\ ~IX!IdIsAlive(ix, s[i].id)
                 /\ s[i].id <= Counter(ix, rs, ac, k)
                 /\ \A j \in 1..Len(s) : s[j].id = s[i].id => i = j
           /\ Counter(ix, rs, ac, k) \in IX!Ids
           /\ Counter(ix, rs, ac, k) >= k - 1
<1>0. /\ Sound(ix) /\ RangesAt(rs) /\ ActiveOk(ix, rs, ac) /\ CountersOk(ix, rs, ac)
      /\ RecycledOk(ix, rs[k])
  BY DEF Good
<1>1. CASE k = ac
  <2>1. s = Gone(ix) /\ Counter(ix, rs, ac, k) = ix.max_id
    BY <1>1 DEF Held, Counter
  <2>2. /\ s \in Seq(IX!Entities) /\ Len(s) \in Nat
        /\ \A i \in 1..Len(s) : s[i].id \in IX!Ids
    BY <1>0, <2>1, GoneFacts, LenProperties, ElementOfSeq, IdFacts
  <2>3. /\ \A i \in 1..Len(s) : IsDead(ix, s[i].id)
        /\ \A i, j \in 1..Len(s) : s[i].id = s[j].id => i = j
    BY <1>0, <2>1, GoneFacts
  <2>4. \A id \in IX!Ids : IsDead(ix, id) => InRange(rs[k], id) /\ id <= ix.max_id
    <3>1. \A id \in IX!Ids : IsDead(ix, id) => InRange(rs[k], id)
      BY <1>0, <1>1 DEF ActiveOk
    <3>2. \A id \in IX!Ids : IX!Exists(ix, id) /\ InRange(rs[k], id) => id <= ix.max_id
      BY <1>0, <1>1 DEF CountersOk, Counter
    <3> QED BY <3>1, <3>2 DEF IsDead
  <2>5. ix.max_id \in IX!Ids /\ ix.max_id >= k - 1
    BY <1>0, <1>1, SoundFacts DEF ActiveOk
  <2> QED BY <2>1, <2>2, <2>3, <2>4, <2>5 DEF IsDead
<1>2. CASE k # ac
  <2>1. s = rs[k].recycled /\ Counter(ix, rs, ac, k) = rs[k].cur
    BY <1>2 DEF Held, Counter
  <2>2. /\ s \in Seq(IX!Entities) /\ Len(s) \in Nat
        /\ \A i \in 1..Len(s) : s[i].id \in IX!Ids
        /\ rs[k].cur \in IX!Ids /\ rs[k].cur >= k - 1
    BY <1>0, <2>1, RangeFacts, IdFacts
  <2> QED BY <1>0, <2>1, <2>2 DEF RecycledOk, IX!IdIsAlive
<1> QED BY <1>1, <1>2

(* A deleted handle is behind an alive entry or what a range holds.        *)
LEMMA BehindHeld ==
    ASSUME NEW ix, NEW dd, NEW rs, NEW ac, Good(ix, dd, rs, ac), ac # 0, NEW h \in dd
    PROVE  \/ IX!IdIsAlive(ix, h.id) /\ h.gen < IX!Entry(ix, h.id).gen
           \/ \E k \in DOMAIN rs : InList(Held(ix, rs, ac, k), h)
           \/ ~IX!Exists(ix, h.id) /\ \A k \in DOMAIN rs : ~InRange(rs[k], h.id)
<1>0. /\ Sound(ix) /\ RangesAt(rs) /\ ActiveOk(ix, rs, ac) /\ Behind(ix, rs, ac, h)
      /\ h.id \in IX!Ids
  BY IdFacts DEF Good
<1>1. CASE IX!Exists(ix, h.id) /\ h.gen < IX!Entry(ix, h.id).gen
  <2>1. CASE IX!IdIsAlive(ix, h.id)
    BY <1>1, <2>1
  <2>2. CASE ~IX!IdIsAlive(ix, h.id)
    <3>1. IsDead(ix, h.id)
      BY <1>1, <2>2 DEF IsDead
    <3>2. PICK i \in 1..Len(Gone(ix)) : Gone(ix)[i].id = h.id
      BY <1>0, <3>1, GoneFacts
    <3>3. Gone(ix)[i] = IX!Entry(ix, h.id)
      BY <1>0, <3>2, GoneFacts
    <3>4. InList(Gone(ix), h)
      BY <1>1, <3>2, <3>3 DEF InList
    <3>5. ac \in DOMAIN rs /\ Held(ix, rs, ac, ac) = Gone(ix)
      BY <1>0 DEF ActiveOk, Held
    <3> QED BY <3>4, <3>5
  <2> QED BY <2>1, <2>2
<1>2. CASE \E k \in DOMAIN rs : InList(rs[k].recycled, h)
  <2>1. PICK k \in DOMAIN rs : InList(rs[k].recycled, h)
    BY <1>2
  <2>2. k # ac
    BY <1>0, <2>1 DEF ActiveOk, InList
  <2>3. Held(ix, rs, ac, k) = rs[k].recycled
    BY <2>2 DEF Held
  <2> QED BY <2>1, <2>3
<1>3. CASE ~IX!Exists(ix, h.id) /\ \A k \in DOMAIN rs : ~InRange(rs[k], h.id)
  BY <1>3
<1> QED BY <1>0, <1>1, <1>2, <1>3 DEF Behind

(* rt is rs after the switch from range ac to m: each range but m has its  *)
(* counter and what it holds.                                              *)
Switched(ix, rs, ac, rt, m) ==
    /\ RangesAt(rt)
    /\ DOMAIN rt = DOMAIN rs
    /\ \A k \in DOMAIN rs :
          /\ rt[k].min = rs[k].min /\ rt[k].max = rs[k].max
          /\ rt[k].cur = Counter(ix, rs, ac, k)
          /\ rt[k].recycled = IF k = m THEN <<>> ELSE Held(ix, rs, ac, k)

LEMMA SwitchKeeps ==
    ASSUME NEW ix, NEW dd, NEW rs, NEW ac, Good(ix, dd, rs, ac), ac # 0,
           NEW m \in DOMAIN rs, NEW rt, Switched(ix, rs, ac, rt, m),
           NEW iy, iy = Reload(ix, Held(ix, rs, ac, m), Counter(ix, rs, ac, m))
    PROVE  Good(iy, dd, rt, m)
<1> DEFINE s == Held(ix, rs, ac, m)
           c == Counter(ix, rs, ac, m)
<1>0. /\ Sound(ix) /\ RangesAt(rs) /\ Disjoint(rs) /\ dd \subseteq IX!Entities
      /\ ActiveOk(ix, rs, ac) /\ CountersOk(ix, rs, ac)
  BY DEF Good
<1>1. /\ s \in Seq(IX!Entities) /\ Len(s) \in Nat /\ c \in IX!Ids /\ c >= m - 1
      /\ \A i \in 1..Len(s) : /\ s[i].id \in IX!Ids
                              /\ InRange(rs[m], s[i].id)
                              /\ ~IX!IdIsAlive(ix, s[i].id)
                              /\ s[i].id <= c
                              /\ \A j \in 1..Len(s) : s[j].id = s[i].id => i = j
  BY HeldFacts
<1> HIDE DEF s, c
<1>2. /\ Sound(iy) /\ iy.max_id = c
      /\ \A id \in IX!Ids : /\ IX!IdIsAlive(iy, id) <=> IX!IdIsAlive(ix, id)
                            /\ IX!IdIsAlive(ix, id) =>
                                  IX!Entry(iy, id) = IX!Entry(ix, id)
                            /\ IsDead(iy, id) <=> Lists(s, id)
      /\ \A i \in 1..Len(s) : IX!Entry(iy, s[i].id) = s[i]
  <2>1. iy = Reload(ix, s, c)
    BY DEF s, c
  <2>2. /\ \A i \in 1..Len(s) : ~IX!IdIsAlive(ix, s[i].id)
        /\ \A i, j \in 1..Len(s) : s[i].id = s[j].id => i = j
    BY <1>1
  <2> QED BY <1>0, <1>1, <2>1, <2>2, ReloadEffect
<1>3. \A id \in IX!Ids : IX!Exists(iy, id) <=> IX!IdIsAlive(ix, id) \/ Lists(s, id)
  BY <1>2 DEF IsDead, IX!IdIsAlive
<1>4. \A id \in IX!Ids : Lists(s, id) => InRange(rs[m], id) /\ id <= c
  BY <1>1 DEF Lists
<1>5. /\ RangesAt(rt) /\ DOMAIN rt = DOMAIN rs /\ rt[m].recycled = <<>>
      /\ \A k \in DOMAIN rs :
            /\ rt[k].cur = Counter(ix, rs, ac, k)
            /\ k # m => rt[k].recycled = Held(ix, rs, ac, k)
            /\ \A id : InRange(rt[k], id) <=> InRange(rs[k], id)
  BY DEF Switched, InRange
<1>6. Disjoint(rt)
  BY <1>0, <1>5 DEF Disjoint
<1>7. ActiveOk(iy, rt, m)
  <2>1. m # 0
    BY <1>0, RangeFacts
  <2> QED BY <2>1, <1>1, <1>2, <1>4, <1>5 DEF ActiveOk
<1>8. ASSUME NEW k \in DOMAIN rt PROVE RecycledOk(iy, rt[k])
  <2>1. CASE k = m
    BY <2>1, <1>5 DEF RecycledOk
  <2>2. CASE k # m
    <3> DEFINE t == Held(ix, rs, ac, k)
    <3>1. rt[k].recycled = t /\ rt[k].cur = Counter(ix, rs, ac, k) /\ k \in DOMAIN rs
      BY <2>2, <1>5
    <3>2. \A i \in 1..Len(t) : /\ t[i].id \in IX!Ids
                               /\ InRange(rs[k], t[i].id)
                               /\ ~IX!IdIsAlive(ix, t[i].id)
                               /\ t[i].id <= rt[k].cur
                               /\ \A j \in 1..Len(t) : t[j].id = t[i].id => i = j
      BY <3>1, HeldFacts
    <3> HIDE DEF t
    <3>3. ASSUME NEW i \in 1..Len(t) PROVE ~IX!Exists(iy, t[i].id)
      <4>1. ~Lists(s, t[i].id)
        BY <2>2, <3>1, <3>2, <1>0, <1>4 DEF Disjoint
      <4> QED BY <4>1, <3>2, <1>3
    <3> QED BY <3>1, <3>2, <3>3, <1>5 DEF RecycledOk
  <2> QED BY <2>1, <2>2
<1>9. CountersOk(iy, rt, m)
  <2>1. ASSUME NEW k \in DOMAIN rt, NEW id \in IX!Ids, IX!Exists(iy, id), InRange(rt[k], id)
        PROVE  id <= Counter(iy, rt, m, k)
    <3>1. Counter(iy, rt, m, k) = Counter(ix, rs, ac, k)
      BY <1>2, <1>5 DEF Counter, c
    <3>2. CASE IX!IdIsAlive(ix, id)
      BY <2>1, <3>1, <3>2, <1>0, <1>5 DEF CountersOk, IX!IdIsAlive
    <3>3. CASE Lists(s, id)
      <4>1. k = m
        BY <2>1, <3>3, <1>0, <1>4, <1>5 DEF Disjoint
      <4> QED BY <4>1, <3>1, <3>3, <1>4 DEF c
    <3> QED BY <2>1, <3>2, <3>3, <1>3
  <2>2. m # 0
    BY <1>0, RangeFacts
  <2> QED BY <2>1, <2>2 DEF CountersOk
<1>10. ASSUME NEW h \in dd PROVE Behind(iy, rt, m, h)
  <2>0. h.id \in IX!Ids /\ m # 0
    BY <1>0, RangeFacts, IdFacts
  <2>1. CASE IX!IdIsAlive(ix, h.id) /\ h.gen < IX!Entry(ix, h.id).gen
    BY <2>0, <2>1, <1>2, <1>3 DEF Behind
  <2>2. CASE \E k \in DOMAIN rs : InList(Held(ix, rs, ac, k), h)
    <3>1. PICK k \in DOMAIN rs : InList(Held(ix, rs, ac, k), h)
      BY <2>2
    <3>2. CASE k = m
      <4>1. PICK i \in 1..Len(s) : s[i].id = h.id /\ h.gen < s[i].gen
        BY <3>1, <3>2 DEF InList, s
      <4>2. IX!Entry(iy, h.id) = s[i] /\ Lists(s, h.id)
        BY <4>1, <1>2 DEF Lists
      <4> QED BY <2>0, <4>1, <4>2, <1>3 DEF Behind
    <3>3. CASE k # m
      BY <3>1, <3>3, <1>5 DEF Behind
    <3> QED BY <3>2, <3>3
  <2>3. CASE ~IX!Exists(ix, h.id) /\ \A k \in DOMAIN rs : ~InRange(rs[k], h.id)
    <3>1. ~IX!Exists(iy, h.id)
      BY <2>0, <2>3, <1>3, <1>4 DEF IX!IdIsAlive
    <3> QED BY <2>0, <2>3, <3>1, <1>5 DEF Behind
  <2> QED BY <2>1, <2>2, <2>3, BehindHeld
<1> QED BY <1>0, <1>2, <1>5, <1>6, <1>7, <1>8, <1>9, <1>10 DEF Good

(* flecs_entity_index_set_range saves the previous range, then reloads.    *)
Saved(ix, rs, ac) ==
    IF ac = 0 THEN rs
    ELSE [rs EXCEPT ![ac] = [min |-> @.min, max |-> @.max,
                             cur |-> ix.max_id, recycled |-> Gone(ix)]]

LEMMA SetRangeReloads ==
    ASSUME NEW ix, NEW rs, NEW ac, NEW m
    PROVE  SetRange(ix, rs, ac, m) =
              [index  |-> Reload(ix, Saved(ix, rs, ac)[m].recycled, Saved(ix, rs, ac)[m].cur),
               ranges |-> [Saved(ix, rs, ac) EXCEPT ![m].recycled = <<>>]]
BY DEF SetRange, Reload, Saved, Gone

(* rt is rs, but the list of range m has been loaded.                      *)
Loaded(rs, rt, m) ==
    /\ RangesAt(rt) /\ DOMAIN rt = DOMAIN rs
    /\ \A k \in DOMAIN rs :
          /\ rt[k].min = rs[k].min /\ rt[k].max = rs[k].max /\ rt[k].cur = rs[k].cur
          /\ rt[k].recycled = IF k = m THEN <<>> ELSE rs[k].recycled

LEMMA LoadOne ==
    ASSUME NEW rs, RangesAt(rs), NEW m \in DOMAIN rs,
           NEW rt, rt = [rs EXCEPT ![m].recycled = <<>>]
    PROVE  Loaded(rs, rt, m)
<1> DEFINE r == [min |-> m, max |-> rs[m].max, cur |-> rs[m].cur, recycled |-> <<>>]
<1>1. RangeAt(rs[m], m) /\ rs[m].min = m
  BY RangeFacts DEF RangesAt
<1>2. RangeAt(r, m)
  <2>1. <<>> \in Seq(IX!Entities)
    BY EmptySeq
  <2> QED BY <2>1, <1>1 DEF RangeAt
<1>3. rt = [rs EXCEPT ![m] = r]
  <2>1. rs[m] = [min |-> m, max |-> rs[m].max, cur |-> rs[m].cur, recycled |-> rs[m].recycled]
    BY <1>1 DEF RangeAt
  <2>2. [rs[m] EXCEPT !.recycled = <<>>] = r
    BY <2>1
  <2>3. rt = [rs EXCEPT ![m] = [rs[m] EXCEPT !.recycled = <<>>]]
    OBVIOUS
  <2> QED BY <2>2, <2>3
<1>4. r.min = m /\ r.max = rs[m].max /\ r.cur = rs[m].cur /\ r.recycled = <<>>
  OBVIOUS
<1> HIDE DEF r
<1>5. /\ RangesAt(rt) /\ DOMAIN rt = DOMAIN rs /\ rt[m] = r
      /\ \A k \in DOMAIN rs : k # m => rt[k] = rs[k]
  <2>1. RangesAt(rs) /\ m \in DOMAIN rs
    OBVIOUS
  <2> QED BY ONLY <2>1, <1>2, <1>3, SetOne, Zenon
<1> QED BY <1>1, <1>4, <1>5 DEF Loaded

(* What flecs_entity_index_set_range does to the ranges, the previous one  *)
(* first.                                                                  *)
LEMMA SetRangeEffect ==
    ASSUME NEW ix, NEW dd, NEW rs, NEW ac, Good(ix, dd, rs, ac), ac # 0,
           NEW m \in DOMAIN rs
    PROVE  /\ SetRange(ix, rs, ac, m).index =
                 Reload(ix, Held(ix, rs, ac, m), Counter(ix, rs, ac, m))
           /\ Switched(ix, rs, ac, SetRange(ix, rs, ac, m).ranges, m)
<1> DEFINE r1 == [min |-> ac, max |-> rs[ac].max, cur |-> ix.max_id, recycled |-> Gone(ix)]
           saved == [rs EXCEPT ![ac] = r1]
<1>0. Sound(ix) /\ RangesAt(rs) /\ ac \in DOMAIN rs /\ ix.max_id >= ac - 1
  BY DEF Good, ActiveOk
<1>1. RangeAt(r1, ac) /\ rs[ac].min = ac /\ rs[m].min = m
  <2>1. /\ rs[ac].max \in IX!Ids /\ (rs[ac].max = 0 \/ ac <= rs[ac].max)
        /\ rs[ac].min = ac /\ rs[m].min = m
    BY <1>0, RangeFacts
  <2>2. ix.max_id \in IX!Ids /\ Gone(ix) \in Seq(IX!Entities)
    BY <1>0, SoundFacts, GoneFacts
  <2> QED BY <2>1, <2>2, <1>0 DEF RangeAt
<1>2. r1.min = ac /\ r1.max = rs[ac].max /\ r1.cur = ix.max_id /\ r1.recycled = Gone(ix)
  OBVIOUS
<1>3. /\ saved = [rs EXCEPT ![ac] = r1]
      /\ SetRange(ix, rs, ac, m) =
            [index |-> Reload(ix, saved[m].recycled, saved[m].cur),
             ranges |-> [saved EXCEPT ![m].recycled = <<>>]]
  <2>1. Saved(ix, rs, ac) = saved
    <3>1. rs[ac].min = ac /\ ac # 0
      BY <1>1
    <3> QED BY ONLY <3>1 DEF Saved
  <2> QED BY <2>1, SetRangeReloads
<1> HIDE DEF r1, saved
<1>4. /\ RangesAt(saved) /\ DOMAIN saved = DOMAIN rs /\ saved[ac] = r1
      /\ \A k \in DOMAIN rs : k # ac => saved[k] = rs[k]
  <2>1. RangesAt(rs)
    BY <1>0
  <2> QED BY ONLY <2>1, <1>0, <1>1, <1>3, SetOne, Zenon
<1>5. \A k \in DOMAIN rs : /\ saved[k].min = rs[k].min /\ saved[k].max = rs[k].max
                           /\ saved[k].cur = Counter(ix, rs, ac, k)
                           /\ saved[k].recycled = Held(ix, rs, ac, k)
  BY <1>1, <1>2, <1>4 DEF Counter, Held
<1> DEFINE rt == [saved EXCEPT ![m].recycled = <<>>]
<1>6. rt = [saved EXCEPT ![m].recycled = <<>>]
  OBVIOUS
<1> HIDE DEF rt
<1>7. Loaded(saved, rt, m)
  <2>1. m \in DOMAIN saved /\ RangesAt(saved)
    BY <1>4
  <2> QED BY ONLY <2>1, <1>6, LoadOne, Zenon
<1>8. Switched(ix, rs, ac, rt, m)
  BY <1>4, <1>5, <1>7 DEF Switched, Loaded
<1>9. /\ SetRange(ix, rs, ac, m).index = Reload(ix, saved[m].recycled, saved[m].cur)
       /\ SetRange(ix, rs, ac, m).ranges = rt
  <2> HIDE DEF Reload
  <2> QED BY ONLY <1>3, <1>6
<1>10. saved[m].recycled = Held(ix, rs, ac, m) /\ saved[m].cur = Counter(ix, rs, ac, m)
  BY <1>5
<1> QED BY ONLY <1>8, <1>9, <1>10

(* ecs_entity_range_set keeps the invariant.                               *)
LEMMA RangeSetInv ==
    ASSUME IInv, NEW m \in IX!EntityIds, EcsRangeSet(m)
    PROVE  IInv'
<1>1. /\ Good(index, dead, ranges, active) /\ m \in DOMAIN ranges
      /\ index' = SetRange(index, ranges, active, m).index
      /\ ranges' = SetRange(index, ranges, active, m).ranges
      /\ active' = m /\ dead' = dead
  BY DEF IInv, EcsRangeSet
<1>2. active # 0
  BY <1>1 DEF Good, ActiveOk
<1>3. /\ index' = Reload(index, Held(index, ranges, active, m),
                         Counter(index, ranges, active, m))
      /\ Switched(index, ranges, active, ranges', m)
  BY <1>1, <1>2, SetRangeEffect
<1>4. Good(index', dead, ranges', m)
  BY <1>1, <1>2, <1>3, SwitchKeeps
<1> QED BY <1>1, <1>4 DEF IInv

-----------------------------------------------------------------------------
(* New ranges. A later one is laid over ids that the index and the history *)
(* know nothing of.                                                        *)
LEMMA LayKeeps ==
    ASSUME NEW ix, NEW dd, NEW rs, NEW ac, Good(ix, dd, rs, ac), ac # 0,
           NEW m \in IX!EntityIds, NEW r, RangeAt(r, m), Len(r.recycled) = 0,
           \A k \in DOMAIN rs : \A id \in IX!Ids : ~(InRange(rs[k], id) /\ InRange(r, id)),
           \A id \in IX!Ids : InRange(r, id) =>
              ~IX!IdIsAlive(ix, id) /\ \A h \in dd : h.id # id,
           NEW rt, rt = [k \in {m} \cup DOMAIN rs |-> IF k = m THEN r ELSE rs[k]]
    PROVE  Good(ix, dd, rt, ac)
<1>0. /\ Sound(ix) /\ RangesAt(rs) /\ Disjoint(rs) /\ dd \subseteq IX!Entities
      /\ ActiveOk(ix, rs, ac) /\ CountersOk(ix, rs, ac)
      /\ \A k \in DOMAIN rs : RecycledOk(ix, rs[k])
      /\ \A h \in dd : Behind(ix, rs, ac, h)
  BY DEF Good
<1>1. m \notin DOMAIN rs
  <2>1. r.min = m /\ (r.max = 0 \/ m <= r.max) /\ m \in IX!Ids /\ m \in Int
    BY IdFacts DEF RangeAt
  <2>2. InRange(r, m)
    BY <2>1 DEF InRange
  <2>3. ASSUME m \in DOMAIN rs PROVE InRange(rs[m], m)
    BY <1>0, <2>1, <2>3, RangeFacts DEF InRange
  <2> QED BY <2>1, <2>2, <2>3
<1>2. /\ DOMAIN rt = {m} \cup DOMAIN rs /\ rt[m] = r
      /\ \A k \in DOMAIN rs : rt[k] = rs[k]
  BY <1>1
<1>3. RangesAt(rt)
  <2>1. rt = [k \in DOMAIN rt |-> rt[k]]
    OBVIOUS
  <2> QED BY <2>1, <1>0, <1>2 DEF RangesAt
<1>4. Disjoint(rt)
  BY <1>0, <1>2 DEF Disjoint
<1>5. ActiveOk(ix, rt, ac)
  BY <1>0, <1>2 DEF ActiveOk
<1>6. \A k \in DOMAIN rt : RecycledOk(ix, rt[k])
  BY <1>0, <1>2 DEF RecycledOk
<1>7. CountersOk(ix, rt, ac)
  <2>1. ASSUME NEW id \in IX!Ids, InRange(r, id) PROVE ~IX!Exists(ix, id)
    <3>1. ac \in DOMAIN rs /\ (IsDead(ix, id) => InRange(rs[ac], id))
      BY <1>0 DEF ActiveOk
    <3> QED BY <2>1, <3>1 DEF IsDead
  <2>2. ASSUME NEW k \in DOMAIN rt, NEW id \in IX!Ids, IX!Exists(ix, id), InRange(rt[k], id)
        PROVE  id <= Counter(ix, rt, ac, k)
    <3>1. k \in DOMAIN rs /\ rt[k] = rs[k]
      BY <2>1, <2>2, <1>2
    <3> QED BY <2>2, <3>1, <1>0 DEF CountersOk, Counter
  <2> QED BY <2>2 DEF CountersOk
<1>8. ASSUME NEW h \in dd PROVE Behind(ix, rt, ac, h)
  <2>1. h.id \in IX!Ids /\ Behind(ix, rs, ac, h)
    BY <1>0, IdFacts
  <2>2. ~InRange(r, h.id)
    BY <2>1
  <2> QED BY <2>1, <2>2, <1>2 DEF Behind
<1> QED BY <1>0, <1>3, <1>4, <1>5, <1>6, <1>7, <1>8 DEF Good

(* The first one is 1, or has a default range 1 below it, which becomes    *)
(* active: no other has an id that is in use.                              *)
LEMMA FirstKeeps ==
    ASSUME NEW ix, NEW dd, NEW rs, NEW ac, Good(ix, dd, rs, ac), DOMAIN rs = {},
           ~IX!CanRecycle(ix),
           NEW rt, RangesAt(rt), Disjoint(rt), 1 \in DOMAIN rt,
           \A k \in DOMAIN rt : Len(rt[k].recycled) = 0,
           \A k \in DOMAIN rt : k # 1 =>
              \A id \in IX!Ids : InRange(rt[k], id) => id > ix.max_id,
           NEW iy, iy = Reload(ix, <<>>, ix.max_id)
    PROVE  Good(iy, dd, rt, 1)
<1>0. /\ Sound(ix) /\ ac = 0 /\ dd \subseteq IX!Entities /\ ix.max_id \in IX!Ids
      /\ \A id \in IX!Ids : IX!Exists(ix, id) => id <= ix.max_id
      /\ \A h \in dd : Behind(ix, rs, ac, h)
  BY SoundFacts DEF Good, ActiveOk, CountersOk
<1>1. \A id \in IX!Ids : IX!Exists(ix, id) => IX!IdIsAlive(ix, id)
  <2>1. Len(ix.dense) < ix.alive_count
    BY <1>0, SoundFacts DEF IX!CanRecycle, IX!Count
  <2>2. ASSUME NEW id \in IX!Ids, IX!Exists(ix, id) PROVE ix.record[id] < ix.alive_count
    <3>1. ix.record[id] \in 1..Len(ix.dense) /\ ix.alive_count \in Nat /\ Len(ix.dense) \in Nat
      BY <1>0, <2>2, SoundFacts DEF IX!Exists
    <3> QED BY <2>1, <3>1
  <2> QED BY <2>2 DEF IX!IdIsAlive
<1>2. /\ Sound(iy) /\ iy.max_id = ix.max_id
      /\ \A id \in IX!Ids : /\ IX!IdIsAlive(iy, id) <=> IX!IdIsAlive(ix, id)
                            /\ IX!IdIsAlive(ix, id) =>
                                  IX!Entry(iy, id) = IX!Entry(ix, id)
                            /\ ~IsDead(iy, id)
  <2> DEFINE s == <<>>
  <2>0. s \in Seq(IX!Entities)
    BY EmptySeq
  <2>1. Len(s) = 0 /\ iy = Reload(ix, s, ix.max_id)
    BY EmptySeq
  <2> HIDE DEF s
  <2>2. /\ \A k \in 1..Len(s) : ~IX!IdIsAlive(ix, s[k].id)
        /\ \A j, k \in 1..Len(s) : s[j].id = s[k].id => j = k
    BY <2>1
  <2>3. /\ Sound(iy) /\ iy.max_id = ix.max_id
        /\ \A id \in IX!Ids :
              /\ IX!IdIsAlive(iy, id) <=> IX!IdIsAlive(ix, id)
              /\ IX!IdIsAlive(ix, id) => IX!Entry(iy, id) = IX!Entry(ix, id)
              /\ IsDead(iy, id) <=> Lists(s, id)
    <3> DEFINE c == ix.max_id
               iz == Reload(ix, s, c)
    <3>1. Sound(ix) /\ c \in IX!Ids
      BY <1>0
    <3> HIDE DEF c
    <3>2. /\ Sound(iz) /\ iz.max_id = c
          /\ \A id \in IX!Ids :
                /\ IX!IdIsAlive(iz, id) <=> IX!IdIsAlive(ix, id)
                /\ IX!IdIsAlive(ix, id) => IX!Entry(iz, id) = IX!Entry(ix, id)
                /\ IsDead(iz, id) <=> Lists(s, id)
      BY ONLY <2>0, <2>2, <3>1, ReloadEffect
    <3> QED BY <2>1, <3>2 DEF c
  <2>4. \A id : ~Lists(s, id)
    BY <2>1 DEF Lists
  <2> QED BY <2>3, <2>4
<1>3. \A id \in IX!Ids : IX!Exists(iy, id) <=> IX!Exists(ix, id)
  BY <1>1, <1>2 DEF IsDead, IX!IdIsAlive
<1>4. ActiveOk(iy, rt, 1)
  BY <1>0, <1>2, IdFacts DEF ActiveOk
<1>5. \A k \in DOMAIN rt : RecycledOk(iy, rt[k])
  BY DEF RecycledOk
<1>6. CountersOk(iy, rt, 1)
  <2>1. ASSUME NEW k \in DOMAIN rt, NEW id \in IX!Ids, IX!Exists(iy, id), InRange(rt[k], id)
        PROVE  id <= Counter(iy, rt, 1, k)
    <3>1. id <= ix.max_id /\ id \in Int /\ ix.max_id \in Int
      BY <2>1, <1>0, <1>3, IdFacts
    <3>2. k = 1
      BY <2>1, <3>1
    <3> QED BY <3>1, <3>2, <1>2 DEF Counter
  <2> QED BY <2>1 DEF CountersOk
<1>7. ASSUME NEW h \in dd PROVE Behind(iy, rt, 1, h)
  <2>1. h.id \in IX!Ids
    BY <1>0, IdFacts
  <2>2. IX!Exists(ix, h.id) /\ h.gen < IX!Entry(ix, h.id).gen
    BY <1>0 DEF Behind
  <2> QED BY <2>1, <2>2, <1>1, <1>2, <1>3 DEF Behind
<1> QED BY <1>0, <1>2, <1>4, <1>5, <1>6, <1>7 DEF Good

(* ecs_entity_range_new keeps the invariant.                               *)
LEMMA RangeNewInv ==
    ASSUME IInv, NEW min \in IX!EntityIds, NEW max \in IX!Ids, EcsRangeNew(min, max),
           "cover" \notin Careless
    PROVE  IInv'
<1>0. /\ Good(index, dead, ranges, active) /\ Sound(index) /\ RangesAt(ranges)
      /\ Disjoint(ranges) /\ dead \subseteq IX!Entities
      /\ active = 0 <=> DOMAIN ranges = {}
      /\ index.max_id \in IX!Ids
  BY SoundFacts DEF IInv, Good, ActiveOk
<1>1. /\ max = 0 \/ max >= min
      /\ ~IX!CanRecycle(index)
      /\ \A m \in DOMAIN ranges : ~Overlap(ranges[m], min, max)
      /\ dead' = dead
  BY DEF EcsRangeNew
<1>2. min \in Int /\ 1 <= min /\ min <= MaxId /\ max \in Int /\ <<>> \in Seq(IX!Entities)
  BY IdFacts, EmptySeq
<1>3. ASSUME NEW c \in IX!Ids, c >= min - 1
      PROVE  RangeAt(NewRange(min, max, c), min) /\ Len(NewRange(min, max, c).recycled) = 0
  <2>1. NewRange(min, max, c) = [min |-> min, max |-> max, cur |-> c, recycled |-> <<>>]
    BY DEF NewRange
  <2>2. /\ NewRange(min, max, c).max = max /\ NewRange(min, max, c).cur = c
        /\ NewRange(min, max, c).recycled = <<>>
    BY <2>1
  <2> QED BY <2>1, <2>2, <1>1, <1>2, <1>3, EmptySeq DEF RangeAt
<1>4. \A c, id : InRange(NewRange(min, max, c), id) <=> id >= min /\ (max = 0 \/ id <= max)
  BY DEF NewRange, InRange
<1>5. CASE DOMAIN ranges = {}
  <2> DEFINE r  == NewRange(min, max, IF min = 1 THEN index.max_id ELSE min - 1)
             r1 == NewRange(1, min - 1, index.max_id)
             rs == [m \in {min} \cup {1} |-> IF m = min THEN r ELSE r1]
  <2>1. /\ index' = SetRange(index, rs, 0, 1).index
        /\ ranges' = SetRange(index, rs, 0, 1).ranges
        /\ active' = 1
        /\ min # 1 => min - 1 >= index.max_id
    BY <1>5 DEF EcsRangeNew
  <2>2. /\ RangeAt(r, min) /\ Len(r.recycled) = 0
        /\ min = 1 => r.cur = index.max_id
        /\ \A id : InRange(r, id) <=> id >= min /\ (max = 0 \/ id <= max)
    <3>1. CASE min = 1
      <4>1. index.max_id >= min - 1 /\ r = NewRange(min, max, index.max_id)
        BY <3>1, <1>0, IdFacts
      <4> QED BY <4>1, <1>0, <1>3, <1>4 DEF NewRange
    <3>2. CASE min # 1
      <4>1. min - 1 \in IX!Ids /\ min - 1 >= min - 1 /\ r = NewRange(min, max, min - 1)
        BY <3>2, <1>2, IdFacts
      <4> QED BY <4>1, <3>2, <1>3, <1>4
    <3> QED BY <3>1, <3>2
  <2>3. ASSUME min # 1
        PROVE  /\ RangeAt(r1, 1) /\ Len(r1.recycled) = 0 /\ r1.cur = index.max_id
               /\ \A id : InRange(r1, id) => id <= min - 1
    <3>1. r1 = [min |-> 1, max |-> min - 1, cur |-> index.max_id, recycled |-> <<>>]
      BY DEF NewRange
    <3>2. r1.max = min - 1 /\ r1.cur = index.max_id /\ r1.recycled = <<>>
      BY <3>1
    <3>3. /\ min - 1 \in IX!Ids /\ 1 <= min - 1 /\ min - 1 # 0
          /\ index.max_id \in IX!Ids /\ index.max_id >= 1 - 1
      BY <2>3, <1>0, <1>2, IdFacts
    <3> HIDE DEF r1
    <3>4. RangeAt(r1, 1)
      BY <3>1, <3>2, <3>3, EmptySeq DEF RangeAt
    <3> QED BY <3>2, <3>3, <3>4, EmptySeq DEF InRange
  <2> HIDE DEF r, r1
  <2>4. /\ DOMAIN rs = {min} \cup {1} /\ rs[min] = r /\ (min # 1 => rs[1] = r1)
        /\ rs = [m \in DOMAIN rs |-> rs[m]]
    OBVIOUS
  <2> HIDE DEF rs
  <2>5. RangesAt(rs) /\ 1 \in DOMAIN rs
    <3>1. 1 \in IX!EntityIds
      BY <1>2, IdFacts
    <3> QED BY <3>1, <2>2, <2>3, <2>4 DEF RangesAt
  <2>6. rs[1].cur = index.max_id /\ \A k \in DOMAIN rs : Len(rs[k].recycled) = 0
    BY <2>2, <2>3, <2>4
  <2>7. ASSUME NEW k \in DOMAIN rs, k # 1
        PROVE  \A id \in IX!Ids : InRange(rs[k], id) => id > index.max_id
    <3>1. k = min /\ min - 1 >= index.max_id
      BY <2>1, <2>4, <2>7
    <3> QED BY <3>1, <1>0, <1>2, <2>2, <2>4, IdFacts
  <2>8. Disjoint(rs)
    <3>1. ASSUME NEW id \in IX!Ids, min # 1 PROVE ~(InRange(rs[1], id) /\ InRange(rs[min], id))
      BY <3>1, <1>2, <2>2, <2>3, <2>4, IdFacts
    <3> QED BY <3>1, <2>4 DEF Disjoint
  <2>9. SetRange(index, rs, 0, 1) =
           [index |-> Reload(index, rs[1].recycled, rs[1].cur),
            ranges |-> [rs EXCEPT ![1].recycled = <<>>]]
    <3>1. Saved(index, rs, 0) = rs
      BY DEF Saved
    <3> QED BY <3>1, SetRangeReloads
  <2>10. ranges' = [rs EXCEPT ![1].recycled = <<>>]
    <3> DEFINE rt == [rs EXCEPT ![1].recycled = <<>>]
               iy == Reload(index, rs[1].recycled, rs[1].cur)
    <3>1. SetRange(index, rs, 0, 1) = [index |-> iy, ranges |-> rt]
      BY <2>9
    <3> HIDE DEF rt, iy
    <3>2. ranges' = rt
      BY ONLY <2>1, <3>1
    <3> QED BY <3>2 DEF rt
  <2>11. rs[1].recycled = <<>>
    <3>1. rs[1].recycled \in Seq(IX!Entities)
      BY <2>5, RangeFacts
    <3> QED BY <3>1, <2>5, <2>6, EmptySeq
  <2>12. index' = Reload(index, <<>>, index.max_id)
    <3> HIDE DEF Reload
    <3>1. index' = Reload(index, rs[1].recycled, rs[1].cur)
      BY ONLY <2>1, <2>9
    <3> QED BY ONLY <3>1, <2>6, <2>11
  <2>13. Loaded(rs, ranges', 1)
    BY ONLY <2>5, <2>10, LoadOne, Zenon
  <2>14. /\ RangesAt(ranges') /\ 1 \in DOMAIN ranges'
         /\ \A k \in DOMAIN ranges' : Len(ranges'[k].recycled) = 0
         /\ DOMAIN ranges' = DOMAIN rs
         /\ \A k \in DOMAIN rs : \A id : InRange(ranges'[k], id) <=> InRange(rs[k], id)
    BY <2>5, <2>6, <2>11, <2>13 DEF Loaded, InRange
  <2>15. Disjoint(ranges')
    BY <2>8, <2>14 DEF Disjoint
  <2>16. Good(index', dead, ranges', 1)
    BY <1>0, <1>1, <1>5, <2>7, <2>12, <2>14, <2>15, FirstKeeps
  <2> QED BY <2>1, <2>16, <1>1 DEF IInv
<1>6. CASE DOMAIN ranges # {}
  <2> DEFINE r == NewRange(min, max, min - 1)
  <2>1. /\ index' = index /\ active' = active
        /\ ranges' = [m \in {min} \cup DOMAIN ranges |-> IF m = min THEN r ELSE ranges[m]]
        /\ \A id \in IX!EntityIds : InRange(NewRange(min, max, 0), id) => ~Taken(id)
    BY <1>6 DEF EcsRangeNew
  <2>2. RangeAt(r, min) /\ Len(r.recycled) = 0
    <3>1. min - 1 \in IX!Ids /\ min - 1 >= min - 1
      BY <1>2, IdFacts
    <3> QED BY <3>1, <1>3
  <2> HIDE DEF r
  <2>3. \A id : InRange(r, id) <=> id >= min /\ (max = 0 \/ id <= max)
    BY <1>4 DEF r
  <2>4. ASSUME NEW k \in DOMAIN ranges, NEW id \in IX!Ids
        PROVE  ~(InRange(ranges[k], id) /\ InRange(r, id))
    <3>1. /\ ranges[k].min \in Int /\ ranges[k].max \in Int
          /\ ~Overlap(ranges[k], min, max)
      BY <1>0, <1>1, RangeFacts, IdFacts
    <3> QED BY <3>1, <1>2, <2>3, IdFacts DEF Overlap, InRange
  <2>5. ASSUME NEW id \in IX!Ids, InRange(r, id)
        PROVE  ~IX!IdIsAlive(index, id) /\ \A h \in dead : h.id # id
    <3>1. id \in IX!EntityIds
      BY <1>2, <2>3, <2>5, IdFacts
    <3>2. ~Taken(id)
      BY <3>1, <2>1, <2>3, <2>5, <1>4
    <3> QED BY <3>2 DEF Taken
  <2>6. active # 0
    BY <1>0, <1>6
  <2>7. Good(index, dead, ranges', active)
    BY <1>0, <2>1, <2>2, <2>4, <2>5, <2>6, LayKeeps
  <2> QED BY <2>1, <2>7, <1>1 DEF IInv
<1> QED BY <1>5, <1>6

-----------------------------------------------------------------------------
(* ecs_new keeps the invariant, and what it makes alive is in the active   *)
(* range.                                                                  *)
LEMMA LimitIsTop == Limit = Top(ranges, active)
BY DEF Limit, Top

LEMMA NewInv ==
    ASSUME IInv, EcsNew
    PROVE  /\ IInv'
           /\ \A id \in IX!Ids :
                 ~IX!IdIsAlive(index, id) /\ IX!IdIsAlive(index', id) =>
                    active = 0 \/ InRange(ranges[active], id)
<1> DEFINE m == IX!FreshNeeded(index, 1)
<1>0. /\ Good(index, dead, ranges, active) /\ Sound(index)
      /\ dead' = dead /\ ranges' = ranges /\ active' = active
      /\ index' = IX!NewId(index)
      /\ IX!CanRecycle(index) \/ index.max_id < Limit
  BY DEF IInv, Good, EcsNew
<1>1. /\ index.max_id \in Int /\ Limit \in Int /\ Limit <= MaxId /\ MaxId \in Nat
      /\ index.alive_count \in Nat /\ Len(index.dense) \in Nat
      /\ index.alive_count <= Len(index.dense) + 1
  BY <1>0, SoundFacts, FreshFacts, LimitIsTop, IdFacts
<1>2. index' = IX!NewIds(index, 1)
  <2>1. /\ IXP!Sound(index)
        /\ IXP!CanRecycle(index) \/ index.max_id < MaxId
    <3>1. IX!CanRecycle(index) \/ index.max_id < MaxId
      BY <1>0, <1>1
    <3> QED BY <3>1, <1>0, SameQueries, SameCreation
  <2>2. IXP!NewId(index) = IXP!NewIds(index, 1)
    BY <2>1, IXP!NewIdIsNewIds, MaxIdAssumption, GenCountAssumption
  <2>3. IX!NewId(index) = IXP!NewId(index)
    BY SameCreation
  <2>4. IX!NewIds(index, 1) = IXP!NewIds(index, 1)
    BY SameCreation
  <2> QED BY <2>2, <2>3, <2>4, <1>0
<1>3. m = 0 \/ index.max_id + m <= Top(ranges, active)
  <2>1. CASE IX!CanRecycle(index)
    BY <2>1, <1>1 DEF IX!CanRecycle, IX!FreshNeeded, IX!MaxOf, IX!Count
  <2>2. CASE ~IX!CanRecycle(index)
    <3>1. m = 1
      BY <2>2, <1>1 DEF IX!CanRecycle, IX!FreshNeeded, IX!MaxOf, IX!Count
    <3> QED BY <2>2, <3>1, <1>0, <1>1, LimitIsTop
  <2> QED BY <2>1, <2>2
<1> HIDE DEF m
<1>4. m = IX!FreshNeeded(index, 1)
  BY DEF m
<1>5. /\ Good(IX!NewIds(index, 1), dead, ranges, active)
      /\ \A id \in IX!Ids :
            ~IX!IdIsAlive(index, id) /\ IX!IdIsAlive(IX!NewIds(index, 1), id) =>
               active = 0 \/ InRange(ranges[active], id)
  BY <1>0, <1>3, <1>4, CreateKeeps
<1> QED BY <1>0, <1>2, <1>5 DEF IInv

(* ecs_bulk_new keeps the invariant unless it runs over the end.           *)
LEMMA BulkNewInv ==
    ASSUME IInv, NEW n \in 1..MaxId, EcsBulkNew(n), ~overran'
    PROVE  IInv'
<1> DEFINE m == IX!FreshNeeded(index, n)
<1>1. /\ Good(index, dead, ranges, active) /\ Sound(index)
      /\ dead' = dead /\ ranges' = ranges /\ active' = active
      /\ index' = IX!NewIds(index, n)
      /\ n \in Nat \ {0}
  BY IdFacts DEF IInv, Good, EcsBulkNew
<1>2. index.max_id + m <= Top(ranges, active)
  <2>1. index'.max_id = index.max_id + m
    BY <1>1 DEF IX!NewIds
  <2>2. ~(index'.max_id > Limit)
    BY DEF EcsBulkNew
  <2>3. index.max_id \in Int /\ Limit \in Int /\ m \in Int
    <3>1. /\ index.alive_count \in Nat /\ Len(index.dense) \in Nat
          /\ index.max_id \in IX!Ids
      BY <1>1, SoundFacts
    <3>2. m \in Int
      BY <1>1, <3>1 DEF IX!FreshNeeded, IX!MaxOf, IX!Count
    <3> QED BY <1>1, <3>1, <3>2, FreshFacts, LimitIsTop, IdFacts
  <2> QED BY <2>1, <2>2, <2>3, LimitIsTop
<1> HIDE DEF m
<1>3. m = IX!FreshNeeded(index, n)
  BY DEF m
<1>4. Good(IX!NewIds(index, n), dead, ranges, active)
  BY <1>1, <1>2, <1>3, CreateKeeps
<1> QED BY <1>1, <1>4 DEF IInv

(* What it makes alive outside of the active range is behind its end, when *)
(* all that is dead and all fresh ids up to the end are in use.            *)
LEMMA BulkLeaves ==
    ASSUME IInv, NEW n \in 1..MaxId, EcsBulkNew(n), NEW id \in Issued, OutOfActive(id)
    PROVE  id > Limit /\ overran' /\ ~IX!CanRecycle(index')
<1> DEFINE m == IX!FreshNeeded(index, n)
           B == (index.max_id + 1)..(index.max_id + m)
<1>1. /\ Sound(index) /\ ActiveOk(index, ranges, active)
      /\ active # 0 /\ ~InRange(ranges[active], id)
      /\ id \in IX!Ids /\ ~IX!IdIsAlive(index, id) /\ IX!IdIsAlive(index', id)
      /\ index' = IX!NewIds(index, n)
      /\ overran' = (overran \/ index'.max_id > Limit)
      /\ n \in Nat \ {0}
  BY IdFacts DEF IInv, Good, OutOfActive, Issued, EcsBulkNew
<1>2. /\ index.alive_count \in Nat /\ Len(index.dense) \in Nat
      /\ index.max_id \in Int /\ Limit \in Int /\ id \in Int
      /\ index.dense \in Seq(IX!Handles)
  <2>1. Limit \in Int
    BY FreshFacts, LimitIsTop DEF IInv
  <2> QED BY <1>1, <2>1, SoundFacts, IdFacts
<1>3. m \in Nat /\ (m # 0 => m = index.alive_count + n - (Len(index.dense) + 1))
  BY <1>1, <1>2 DEF IX!FreshNeeded, IX!MaxOf, IX!Count
<1>4. /\ index'.max_id = index.max_id + m
      /\ index'.alive_count = index.alive_count + n
      /\ index'.dense = index.dense \o [k \in 1..m |-> [id |-> index.max_id + k, gen |-> 0]]
      /\ id \notin B => index'.record[id] = index.record[id]
  BY <1>1 DEF IX!NewIds
<1>5. id \in B
  <2>1. SUFFICES ASSUME id \notin B PROVE FALSE
    OBVIOUS
  <2>2. index'.record[id] = index.record[id]
    BY <1>4, <2>1
  <2>3. IsDead(index, id)
    BY <1>1, <2>2 DEF IsDead, IX!IdIsAlive, IX!Exists
  <2> QED BY <1>1, <2>3 DEF ActiveOk
<1> HIDE DEF m
<1>6. id > index.max_id /\ id <= index.max_id + m /\ m # 0
  BY <1>2, <1>3, <1>5
<1>7. id > Limit
  <2>1. \A i \in IX!Ids : i > index.max_id /\ i <= Limit /\ active # 0 =>
                             InRange(ranges[active], i)
    BY FreshFacts, LimitIsTop DEF IInv
  <2> QED BY <1>1, <1>2, <1>6, <2>1
<1>8. overran'
  <2>1. index'.max_id > Limit
    BY <1>2, <1>3, <1>4, <1>6, <1>7
  <2>2. overran' = (overran \/ index'.max_id > Limit)
    BY DEF EcsBulkNew
  <2> QED BY <2>1, <2>2, Zenon
<1>9. ~IX!CanRecycle(index')
  <2>1. Len(index'.dense) = Len(index.dense) + m
    BY <1>2, <1>3, <1>4
  <2>2. Len(index'.dense) + 1 = index'.alive_count
    <3> PICK c, l : c = index.alive_count /\ l = Len(index.dense)
      OBVIOUS
    <3>1. c \in Nat /\ l \in Nat /\ n \in Nat /\ m = c + n - (l + 1)
      BY <1>1, <1>2, <1>3, <1>6
    <3>2. l + m + 1 = c + n
      BY ONLY <3>1
    <3> QED BY <1>4, <2>1, <3>2
  <2>3. Len(index'.dense) \in Nat
    BY <1>2, <1>3, <2>1
  <2> QED BY ONLY <2>2, <2>3 DEF IX!CanRecycle, IX!Count
<1> QED BY <1>7, <1>8, <1>9

-----------------------------------------------------------------------------
(* The invariant holds initially and is kept by every step.                *)
LEMMA InitInv == Init => IInv
<1> SUFFICES ASSUME Init PROVE IInv
  OBVIOUS
<1>0. index = IX!EmptyIndex /\ dead = {} /\ ranges = <<>> /\ active = 0
  BY DEF Init
<1>1. /\ index.dense = <<>> /\ index.record = [id \in IX!Ids |-> 0]
      /\ index.alive_count = 1 /\ index.max_id = 0
      /\ index = [dense |-> index.dense, record |-> index.record,
                  alive_count |-> index.alive_count, max_id |-> index.max_id]
  BY <1>0 DEF IX!EmptyIndex
<1>2. /\ index.dense \in Seq(IX!Handles) /\ Len(index.dense) = 0
      /\ \A id \in IX!Ids : index.record[id] = 0
      /\ 0 \in IX!Ids
  BY <1>1, EmptySeq, IdFacts
<1>3. Sound(index)
  <2>1. index \in IX!IndexType
    BY <1>1, <1>2 DEF IX!IndexType
  <2>2. IX!Linked(index)
    BY <1>1, <1>2 DEF IX!Linked, IX!Exists
  <2>3. index.alive_count \in 1..IX!Count(index) /\ ~IX!Exists(index, 0)
    BY <1>1, <1>2 DEF IX!Count, IX!Exists
  <2> QED BY <2>1, <2>2, <2>3 DEF Sound
<1>4. DOMAIN ranges = {} /\ ranges = [m \in DOMAIN ranges |-> ranges[m]]
  BY <1>0
<1>5. RangesAt(ranges) /\ Disjoint(ranges) /\ ActiveOk(index, ranges, active)
  BY <1>0, <1>4 DEF RangesAt, Disjoint, ActiveOk
<1>6. CountersOk(index, ranges, active)
  BY <1>0, <1>2, <1>4 DEF CountersOk, IX!Exists
<1> QED BY <1>0, <1>3, <1>4, <1>5, <1>6 DEF IInv, Good

LEMMA NextInv ==
    ASSUME Careless = {}
    PROVE  SafeInv /\ [Next]_vars => SafeInv'
<1>0. "cover" \notin Careless /\ "revive" \notin Careless
  OBVIOUS
<1> SUFFICES ASSUME SafeInv, [Next]_vars, ~overran' PROVE IInv'
  BY DEF SafeInv
<1>1. ~overran
  BY DEF Next, vars, EcsRangeNew, EcsRangeSet, EcsNew, EcsBulkNew, EcsMakeAlive, EcsDelete
<1>2. IInv
  BY <1>1 DEF SafeInv
<1>3. ASSUME NEW min \in IX!EntityIds, NEW max \in IX!Ids, EcsRangeNew(min, max)
      PROVE  IInv'
  BY <1>0, <1>2, <1>3, RangeNewInv
<1>4. ASSUME NEW m \in IX!EntityIds, EcsRangeSet(m) PROVE IInv'
  BY <1>2, <1>4, RangeSetInv
<1>5. ASSUME EcsNew PROVE IInv'
  BY <1>2, <1>5, NewInv
<1>6. ASSUME NEW n \in 1..MaxId, EcsBulkNew(n) PROVE IInv'
  BY <1>2, <1>6, BulkNewInv
<1>7. ASSUME NEW e \in IX!Entities, EcsMakeAlive(e) PROVE IInv'
  BY <1>0, <1>2, <1>7, MakeAliveInv
<1>8. ASSUME NEW e \in IX!Entities, EcsDelete(e) PROVE IInv'
  BY <1>2, <1>8, DeleteInv
<1>9. CASE UNCHANGED vars
  BY <1>2, <1>9 DEF vars, IInv
<1> QED BY <1>3, <1>4, <1>5, <1>6, <1>7, <1>8, <1>9 DEF Next

LEMMA Invariance ==
    ASSUME Careless = {}
    PROVE  Spec => []SafeInv
<1>1. SafeInv /\ [Next]_vars => SafeInv'
  BY NextInv
<1>2. Init => SafeInv
  BY InitInv DEF SafeInv
<1> QED BY <1>1, <1>2, PTL DEF Spec

-----------------------------------------------------------------------------
(* What the invariant says of the properties.                              *)
LEMMA OnePlaceFacts == IInv => OnePlace
<1> SUFFICES ASSUME IInv PROVE OnePlace
  OBVIOUS
<1>1. /\ IX!Linked(index) /\ RangesAt(ranges)
      /\ \A m \in DOMAIN ranges : RecycledOk(index, ranges[m])
  BY DEF IInv, Good, Sound
<1> QED BY <1>1, RangeFacts DEF OnePlace, RecycledOk

LEMMA FreshIsFreshFacts == IInv => FreshIsFresh
<1> SUFFICES ASSUME IInv PROVE FreshIsFresh
  OBVIOUS
<1>0. /\ RangesAt(ranges) /\ ActiveOk(index, ranges, active)
      /\ CountersOk(index, ranges, active)
  BY DEF IInv, Good
<1>1. ASSUME NEW id \in IX!EntityIds, NEW m, m = FindRange(ranges, id),
             IX!Exists(index, id), active = 0 \/ m # 0
      PROVE  id <= IF m = active THEN index.max_id ELSE ranges[m].cur
  <2>1. id \in IX!Ids
    BY IdFacts
  <2>2. CASE m = 0
    <3>1. active = 0
      BY <1>1, <2>2
    <3> QED BY <1>0, <1>1, <2>1, <2>2, <3>1 DEF CountersOk
  <2>3. CASE m # 0
    <3>1. m \in DOMAIN ranges /\ InRange(ranges[m], id)
      BY <1>0, <1>1, <2>3, FindFacts
    <3> QED BY <1>0, <1>1, <2>1, <3>1 DEF CountersOk, Counter
  <2> QED BY <2>2, <2>3
<1> QED BY <1>1 DEF FreshIsFresh

LEMMA StaysDeadFacts == IInv => DeletedStaysDead
<1> SUFFICES ASSUME IInv, NEW h \in dead PROVE ~IX!IsAlive(index, h)
  BY DEF DeletedStaysDead, IX!DeletedStaysDead
<1>0. /\ dead \subseteq IX!Entities /\ Behind(index, ranges, active, h)
      /\ \A m \in DOMAIN ranges : RecycledOk(index, ranges[m])
  BY DEF IInv, Good
<1>1. h \in IX!Entities /\ h.gen \in Int
  BY <1>0, IdFacts
<1>2. CASE h.gen < IX!Entry(index, h.id).gen
  BY <1>1, <1>2 DEF IX!IsAlive
<1>3. CASE \E m \in DOMAIN ranges : InList(ranges[m].recycled, h)
  <2>1. ~IX!Exists(index, h.id)
    BY <1>0, <1>3 DEF InList, RecycledOk
  <2> QED BY <2>1 DEF IX!IsAlive, IX!IdIsAlive
<1>4. CASE ~IX!Exists(index, h.id)
  BY <1>4 DEF IX!IsAlive, IX!IdIsAlive
<1> QED BY <1>0, <1>2, <1>3, <1>4 DEF Behind

LEMMA TypeFacts == IInv => TypeOK
<1> SUFFICES ASSUME IInv PROVE TypeOK
  OBVIOUS
<1>1. /\ Sound(index) /\ dead \subseteq IX!Entities /\ RangesAt(ranges)
      /\ ActiveOk(index, ranges, active)
  BY DEF IInv, Good
<1>2. IX!TypeOK
  BY <1>1 DEF IX!TypeOK, Sound
<1>3. active \in {0} \cup DOMAIN ranges
  BY <1>1 DEF ActiveOk
<1>4. \A m \in DOMAIN ranges :
         /\ ranges[m].min = m /\ ranges[m].max \in IX!Ids /\ ranges[m].cur \in IX!Ids
         /\ ranges[m].recycled \in Seq(IX!Entities)
  BY <1>1, RangeFacts
<1> QED BY <1>2, <1>3, <1>4 DEF TypeOK

(* Whatever ranges are made and switched to, an id is in one place, the    *)
(* counter of its range has passed it, and a deleted handle stays dead,    *)
(* until ecs_bulk_new runs over the end of a range, of an application that *)
(* refrains from the two careless calls.                                   *)
THEOREM RangesCorrect ==
    ASSUME Careless = {}
    PROVE  Spec => []RangesInv
<1>1. SafeInv => RangesInv
  BY OnePlaceFacts, FreshIsFreshFacts, StaysDeadFacts, TypeFacts DEF RangesInv, SafeInv
<1> QED BY <1>1, Invariance, PTL

(* The assertion of flecs_entity_index_new_id does not fail until then:    *)
(* the next fresh id of the active range, up to its end, is not in use.    *)
THEOREM NewIdsUnused ==
    ASSUME Careless = {}
    PROVE  Spec => []NewIdUnused
<1>1. SafeInv => NewIdUnused
  <2> SUFFICES ASSUME IInv, index.max_id < Limit
               PROVE  ~IX!Exists(index, IX!FreshId(index))
    BY DEF NewIdUnused, SafeInv
  <2>1. /\ Good(index, dead, ranges, active) /\ index.max_id \in IX!Ids
    BY SoundFacts DEF IInv, Good
  <2>2. /\ Limit \in Int /\ Limit <= MaxId
        /\ \A id \in IX!Ids : id > index.max_id /\ id <= Limit => ~IX!Exists(index, id)
    BY <2>1, FreshFacts, LimitIsTop
  <2>3. /\ IX!FreshId(index) = index.max_id + 1 /\ index.max_id + 1 \in IX!Ids
        /\ index.max_id + 1 > index.max_id /\ index.max_id + 1 <= Limit
    BY <2>1, <2>2, IdFacts DEF IX!FreshId
  <2> QED BY <2>2, <2>3
<1> QED BY <1>1, Invariance, PTL

(* What ecs_new makes alive while a range is active is in that range, be   *)
(* it fresh or recycled; ecs_bulk_new, which does not look at the end,     *)
(* goes over it, and not before the range has been used up.                *)
THEOREM IssuedIdsInRange ==
    ASSUME Careless = {}
    PROVE  Spec => IssuedInRange
<1> DEFINE A == ~overran =>
                   /\ EcsNew => \A id \in Issued : ~OutOfActive(id)
                   /\ \A n \in 1..MaxId : EcsBulkNew(n) =>
                         \A id \in Issued : OutOfActive(id) =>
                            /\ id > Limit /\ overran'
                            /\ ~IX!CanRecycle(index')
<1>1. SafeInv /\ [Next]_vars => [A]_vars
  <2> SUFFICES ASSUME SafeInv, ~overran PROVE A
    OBVIOUS
  <2>1. IInv
    BY DEF SafeInv
  <2>2. ASSUME EcsNew, NEW id \in Issued PROVE ~OutOfActive(id)
    <3>1. id \in IX!Ids /\ ~IX!IdIsAlive(index, id) /\ IX!IdIsAlive(index', id)
      BY <2>2, IdFacts DEF Issued
    <3>2. active = 0 \/ InRange(ranges[active], id)
      BY <2>1, <2>2, <3>1, NewInv
    <3> QED BY <3>2 DEF OutOfActive
  <2>3. ASSUME NEW n \in 1..MaxId, EcsBulkNew(n), NEW id \in Issued, OutOfActive(id)
        PROVE  id > Limit /\ overran' /\ ~IX!CanRecycle(index')
    BY <2>1, <2>3, BulkLeaves
  <2> QED BY <2>2, <2>3
<1>2. Spec => [][A]_vars
  BY <1>1, Invariance, PTL DEF Spec
<1> QED BY <1>2 DEF IssuedInRange

(* The assertion of flecs_entity_index_set_range does not fail until then: *)
(* the ids that a switch loads are of no alive entity.                     *)
THEOREM LoadedIdsAreDead ==
    ASSUME Careless = {}
    PROVE  Spec => LoadedAreDead
<1> DEFINE A == \A m \in DOMAIN ranges : ~overran /\ EcsRangeSet(m) =>
                   \A id \in Recycled(m) : ~IX!IdIsAlive(index, id)
<1>1. SafeInv /\ [Next]_vars => [A]_vars
  <2> SUFFICES ASSUME IInv, NEW m \in DOMAIN ranges, NEW id \in Recycled(m)
               PROVE  ~IX!IdIsAlive(index, id)
    BY DEF SafeInv
  <2>1. RangesAt(ranges) /\ RecycledOk(index, ranges[m])
    BY DEF IInv, Good
  <2>2. PICK i \in 1..Len(ranges[m].recycled) : id = ranges[m].recycled[i].id
    BY <2>1, RangeFacts DEF Recycled
  <2> QED BY <2>1, <2>2 DEF RecycledOk, IX!IdIsAlive
<1>2. Spec => [][A]_vars
  BY <1>1, Invariance, PTL DEF Spec
<1> QED BY <1>2 DEF LoadedAreDead
=============================================================================
