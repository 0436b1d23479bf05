------------------------- MODULE EntityIndexProofs -------------------------
(***************************************************************************)
(* Proofs about the entity index, for every size of the id space and every *)
(* number of generations. Each operation on the dense array gets a lemma   *)
(* that says what it does to the table "id -> unused, alive or dead, with  *)
(* which handle", and that it keeps the array and the records linked. The  *)
(* theorems about behaviours follow from these lemmas alone.               *)
(***************************************************************************)
EXTENDS EntityIndex, SequenceTheorems, TLAPS

Good(ix) == ix \in IndexType /\ Linked(ix) /\ Bounded(ix)

(* The same without the bound max_id on the ids in use, which an index     *)
(* with entity ranges does not have.                                       *)
Sound(ix) == /\ ix \in IndexType
             /\ Linked(ix)
             /\ ix.alive_count \in 1..Count(ix)
             /\ ~Exists(ix, 0)

(* iy says of id what ix says of it.                                       *)
SameAt(ix, iy, id) ==
    /\ Exists(iy, id) <=> Exists(ix, id)
    /\ IdIsAlive(iy, id) <=> IdIsAlive(ix, id)
    /\ Exists(ix, id) => Entry(iy, id) = Entry(ix, id)

-----------------------------------------------------------------------------
(* Sequence t is sequence s with two entries written, the second last.     *)
Wrote(t, s, i, a, j, b) ==
    /\ t \in Seq(Handles) /\ Len(t) = Len(s)
    /\ t[j] = b
    /\ i # j => t[i] = a
    /\ \A k \in 1..Len(s) : k # i /\ k # j => t[k] = s[k]

(* Writing two entries of a sequence: type, length and contents.           *)
LEMMA Swap2Seq ==
    ASSUME NEW s \in Seq(Handles), NEW i \in 1..Len(s), NEW j \in 1..Len(s),
           NEW a \in Handles, NEW b \in Handles
    PROVE  Wrote(Swap2(s, i, a, j, b), s, i, a, j, b)
BY ExceptSeq DEF Swap2, Wrote

(* Facts about a linked index used by every operation.                     *)
LEMMA SoundFacts ==
    ASSUME NEW ix, Sound(ix)
    PROVE  /\ ix.dense \in Seq(Handles) /\ Len(ix.dense) \in Nat
           /\ ix.record \in [Ids -> Nat]
           /\ ix.alive_count \in Nat /\ ix.alive_count >= 1
           /\ ix.alive_count <= Len(ix.dense) + 1
           /\ ix.max_id \in Ids
           /\ \A i \in 1..Len(ix.dense) : /\ ix.dense[i] \in Handles
                                          /\ ix.dense[i].id \in Ids
                                          /\ ix.record[ix.dense[i].id] = i
           /\ \A id \in Ids : ix.record[id] # 0 =>
                 /\ ix.record[id] \in 1..Len(ix.dense)
                 /\ ix.dense[ix.record[id]].id = id
           /\ ix.record[0] = 0
<1>1. /\ ix.dense \in Seq(Handles) /\ ix.record \in [Ids -> Nat]
      /\ ix.alive_count \in Nat /\ ix.max_id \in Ids
  BY DEF Sound, IndexType
<1>2. Len(ix.dense) \in Nat
  BY <1>1, LenProperties
<1>3. ix.alive_count >= 1 /\ ix.alive_count <= Len(ix.dense) + 1
  BY <1>1, <1>2 DEF Sound, Count
<1>4. \A i \in 1..Len(ix.dense) : ix.dense[i] \in Handles
  BY <1>1, ElementOfSeq
<1>5. \A h \in Handles : h.id \in Ids
  BY DEF Handles
<1>6. \A i \in 1..Len(ix.dense) : ix.record[ix.dense[i].id] = i
  BY DEF Sound, Linked
<1>7. \A id \in Ids : ix.record[id] # 0 =>
         /\ ix.record[id] \in 1..Len(ix.dense)
         /\ ix.dense[ix.record[id]].id = id
  BY DEF Sound, Linked, Exists, Entry
<1>8. ix.record[0] = 0
  BY DEF Sound, Exists
<1> QED BY <1>1, <1>2, <1>3, <1>4, <1>5, <1>6, <1>7, <1>8

(* A good index is a sound one in which max_id bounds the ids in use.      *)
LEMMA GoodIsSound ==
    ASSUME NEW ix
    PROVE  Good(ix) <=> Sound(ix) /\ \A id \in Ids : Exists(ix, id) => id <= ix.max_id
BY DEF Good, Sound, Bounded

LEMMA GoodFacts ==
    ASSUME NEW ix, Good(ix)
    PROVE  /\ ix.dense \in Seq(Handles) /\ Len(ix.dense) \in Nat
           /\ ix.record \in [Ids -> Nat]
           /\ ix.alive_count \in Nat /\ ix.alive_count >= 1
           /\ ix.alive_count <= Len(ix.dense) + 1
           /\ ix.max_id \in Ids
           /\ \A i \in 1..Len(ix.dense) : /\ ix.dense[i] \in Handles
                                          /\ ix.dense[i].id \in Ids
                                          /\ ix.record[ix.dense[i].id] = i
           /\ \A id \in Ids : ix.record[id] # 0 =>
                 /\ ix.record[id] \in 1..Len(ix.dense)
                 /\ ix.dense[ix.record[id]].id = id
                 /\ id <= ix.max_id
           /\ ix.record[0] = 0
<1>1. Sound(ix) /\ \A id \in Ids : ix.record[id] # 0 => id <= ix.max_id
  BY GoodIsSound DEF Exists
<1> QED BY <1>1, SoundFacts

(* ensure on an id that is not alive: the id becomes alive with the given  *)
(* generation and no other id changes, although up to two entries move.    *)
LEMMA EnsureEffect ==
    ASSUME NEW ix, Good(ix), NEW e \in Entities, ~IdIsAlive(ix, e.id)
    PROVE  /\ Good(Ensure(ix, e))
           /\ IdIsAlive(Ensure(ix, e), e.id)
           /\ Exists(Ensure(ix, e), e.id)
           /\ Entry(Ensure(ix, e), e.id) = e
           /\ \A id \in Ids : id # e.id => SameAt(ix, Ensure(ix, e), id)
<1> DEFINE iy == Ensure(ix, e)
           ids == IF Exists(ix, e.id) THEN ix.dense ELSE Append(ix.dense, e)
           d == IF Exists(ix, e.id) THEN ix.record[e.id] ELSE Len(ids)
           a == ix.alive_count
           s == ids[a]
<1>0. MaxId \in Nat /\ GenCount \in Nat
  BY MaxIdAssumption, GenCountAssumption
<1>1. /\ e \in Handles /\ e.id \in Ids /\ e.id # 0
  BY <1>0 DEF Entities, EntityIds, Handles, Ids
<1>2. /\ ids \in Seq(Handles) /\ Len(ids) \in Nat
      /\ Len(ids) = IF Exists(ix, e.id) THEN Len(ix.dense) ELSE Len(ix.dense) + 1
      /\ \A k \in 1..Len(ix.dense) : ids[k] = ix.dense[k]
      /\ ~Exists(ix, e.id) => ids[Len(ids)] = e
      /\ d \in 1..Len(ids) /\ ids[d].id = e.id
      /\ a \in 1..Len(ids) /\ a <= d
  BY <1>1, GoodFacts, LenProperties DEF IdIsAlive, Exists
<1>3. /\ s \in Handles /\ s.id \in Ids
      /\ s.id = e.id <=> a = d
      /\ s.id # e.id => a <= Len(ix.dense) /\ ix.record[s.id] = a
  <2>0. /\ Len(ix.dense) \in Nat /\ a \in Nat /\ a >= 1 /\ a <= Len(ix.dense) + 1
        /\ \A i \in 1..Len(ix.dense) : ix.record[ix.dense[i].id] = i
    BY GoodFacts
  <2>1. s \in Handles
    BY <1>2, ElementOfSeq
  <2>2. s.id \in Ids
    BY <2>1 DEF Handles
  <2>3. CASE a <= Len(ix.dense)
    <3>0. a \in 1..Len(ix.dense)
      BY <2>0, <2>3
    <3>1. s = ix.dense[a] /\ ix.record[s.id] = a
      BY ONLY <1>2, <2>0, <3>0
    <3>2. a = d => s.id = e.id
      BY <1>2
    <3>3. s.id = e.id => a = d
      <4>1. CASE Exists(ix, e.id)
        BY <3>1, <4>1
      <4>2. CASE ~Exists(ix, e.id)
        BY <1>2, <3>1, <4>2 DEF Exists
      <4> QED BY <4>1, <4>2
    <3> QED BY <2>1, <2>2, <2>3, <3>1, <3>2, <3>3
  <2>4. CASE a > Len(ix.dense)
    <3>1. a = Len(ix.dense) + 1
      BY <2>0, <2>4
    <3>2. ~Exists(ix, e.id)
      BY <1>2, <2>0, <3>1
    <3>3. Len(ids) = a /\ d = a /\ s = e
      BY <1>2, <3>1, <3>2
    <3> QED BY <2>1, <2>2, <3>3
  <2>5. a <= Len(ix.dense) \/ a > Len(ix.dense)
    BY <2>0
  <2> QED BY <2>3, <2>4, <2>5
<1>4. /\ iy.dense = Swap2(ids, d, s, a, e)
      /\ iy.record = Swap2(ix.record, s.id, d, e.id, a)
      /\ iy.alive_count = a + 1
      /\ iy.max_id = IF Exists(ix, e.id) THEN ix.max_id ELSE MaxOf(e.id, ix.max_id)
      /\ iy = [dense |-> iy.dense, record |-> iy.record,
               alive_count |-> iy.alive_count, max_id |-> iy.max_id]
  BY DEF Ensure
<1> HIDE DEF iy, ids, d, a, s
<1>5. /\ iy.dense \in Seq(Handles) /\ Len(iy.dense) = Len(ids)
      /\ \A k \in 1..Len(ids) : iy.dense[k] =
            IF k = a THEN e ELSE IF k = d THEN s ELSE ids[k]
  <2>1. ids \in Seq(Handles) /\ d \in 1..Len(ids) /\ a \in 1..Len(ids)
    BY <1>2
  <2>2. s \in Handles /\ e \in Handles
    BY <1>1, <1>3
  <2>3. iy.dense = Swap2(ids, d, s, a, e)
    BY <1>4
  <2>4. Wrote(Swap2(ids, d, s, a, e), ids, d, s, a, e)
    BY <2>1, <2>2, Swap2Seq
  <2> QED BY <2>3, <2>4 DEF Wrote
<1>6. /\ iy.record \in [Ids -> Nat]
      /\ \A k \in Ids : iy.record[k] =
            IF k = e.id THEN a ELSE IF k = s.id THEN d ELSE ix.record[k]
  <2>1. a \in Nat /\ d \in Nat
    BY <1>2
  <2>2. ix.record \in [Ids -> Nat]
    BY GoodFacts
  <2>3. iy.record = Swap2(ix.record, s.id, d, e.id, a)
    BY <1>4
  <2>4. e.id \in Ids /\ s.id \in Ids
    BY <1>1, <1>3
  <2> QED BY <2>1, <2>2, <2>3, <2>4 DEF Swap2
<1>7. iy.max_id \in Ids /\ iy.max_id >= e.id /\ iy.max_id >= ix.max_id
  BY <1>0, <1>1, <1>4, GoodFacts DEF MaxOf, Ids, Exists
<1>8. iy \in IndexType
  <2>1. iy.alive_count \in Nat
    BY <1>2, <1>4
  <2> QED BY <1>4, <1>5, <1>6, <1>7, <2>1 DEF IndexType
<1>9. \A k \in 1..Len(iy.dense) : iy.record[iy.dense[k].id] = k
  <2> SUFFICES ASSUME NEW k \in 1..Len(iy.dense)
               PROVE  iy.record[iy.dense[k].id] = k
    OBVIOUS
  <2>1. CASE k = a
    BY <2>1, <1>1, <1>2, <1>5, <1>6
  <2>2. CASE k = d /\ k # a
    BY <2>2, <1>2, <1>3, <1>5, <1>6
  <2>3. CASE k # d /\ k # a
    <3>1. k \in 1..Len(ix.dense)
      BY <2>3, <1>2, <1>5, GoodFacts DEF d
    <3>2. iy.dense[k] = ix.dense[k]
      BY <3>1, <2>3, <1>2, <1>5
    <3>3. ix.dense[k].id \in Ids /\ ix.record[ix.dense[k].id] = k
      BY <3>1, GoodFacts
    <3>4. ix.dense[k].id # e.id
      BY <3>1, <3>3, <2>3, GoodFacts DEF d, Exists
    <3>5. ix.dense[k].id # s.id
      BY <3>3, <3>4, <1>3, <2>3
    <3> QED BY <3>2, <3>3, <3>4, <3>5, <1>6
  <2> QED BY <2>1, <2>2, <2>3
<1>10. \A id \in Ids : iy.record[id] # 0 =>
          iy.record[id] \in 1..Len(iy.dense) /\ iy.dense[iy.record[id]].id = id
  <2> SUFFICES ASSUME NEW id \in Ids, iy.record[id] # 0
               PROVE  iy.record[id] \in 1..Len(iy.dense) /\ iy.dense[iy.record[id]].id = id
    OBVIOUS
  <2>1. CASE id = e.id
    BY <2>1, <1>2, <1>5, <1>6
  <2>2. CASE id = s.id /\ id # e.id
    BY <2>2, <1>2, <1>3, <1>5, <1>6
  <2>3. CASE id # s.id /\ id # e.id
    <3>1. iy.record[id] = ix.record[id]
      BY <2>3, <1>6
    <3>2. ix.record[id] \in 1..Len(ix.dense) /\ ix.dense[ix.record[id]].id = id
      BY <3>1, GoodFacts
    <3>3. ix.record[id] # a /\ ix.record[id] # d
      BY <3>2, <2>3, <1>2 DEF s
    <3>4. ix.record[id] \in 1..Len(ids)
      BY <3>2, <1>2, GoodFacts
    <3>5. iy.dense[ix.record[id]] = ix.dense[ix.record[id]]
      BY <3>2, <3>3, <3>4, <1>2, <1>5
    <3> QED BY <3>1, <3>2, <3>4, <3>5, <1>5
  <2> QED BY <2>1, <2>2, <2>3
<1>11. \A id \in Ids : id # e.id =>
          /\ (iy.record[id] # 0) <=> (ix.record[id] # 0)
          /\ (iy.record[id] # 0 /\ iy.record[id] < a + 1)
               <=> (ix.record[id] # 0 /\ ix.record[id] < a)
          /\ ix.record[id] # 0 => iy.dense[iy.record[id]] = ix.dense[ix.record[id]]
  <2> SUFFICES ASSUME NEW id \in Ids, id # e.id
               PROVE  /\ (iy.record[id] # 0) <=> (ix.record[id] # 0)
                      /\ (iy.record[id] # 0 /\ iy.record[id] < a + 1)
                           <=> (ix.record[id] # 0 /\ ix.record[id] < a)
                      /\ ix.record[id] # 0 =>
                           iy.dense[iy.record[id]] = ix.dense[ix.record[id]]
    OBVIOUS
  <2>1. CASE id = s.id
    <3>1. iy.record[id] = d /\ ix.record[id] = a /\ a < d
      BY <2>1, <1>2, <1>3, <1>6
    <3>2. iy.dense[d] = ix.dense[a]
      BY <3>1, <2>1, <1>2, <1>3, <1>5 DEF s
    <3> QED BY <3>1, <3>2, <1>2
  <2>2. CASE id # s.id
    <3>1. iy.record[id] = ix.record[id]
      BY <2>2, <1>6
    <3>2. CASE ix.record[id] = 0
      BY <3>1, <3>2
    <3>3. CASE ix.record[id] # 0
      <4>1. ix.record[id] \in 1..Len(ix.dense) /\ ix.dense[ix.record[id]].id = id
        BY <3>3, GoodFacts
      <4>2. ix.record[id] # a /\ ix.record[id] # d
        BY <4>1, <2>2, <1>2 DEF s
      <4>3. iy.dense[ix.record[id]] = ix.dense[ix.record[id]]
        <5>1. ix.record[id] \in 1..Len(ids)
          BY <4>1, <1>2, GoodFacts
        <5> QED BY <5>1, <4>1, <4>2, <1>2, <1>5
      <4> QED BY <3>1, <4>1, <4>2, <4>3, <1>2
    <3> QED BY <3>2, <3>3
  <2> QED BY <2>1, <2>2
<1>12. Good(iy)
  <2>1. Linked(iy)
    BY <1>9, <1>10 DEF Linked, Exists, Entry
  <2>2. iy.alive_count \in 1..Count(iy)
    BY <1>2, <1>4, <1>5 DEF Count
  <2>3. \A id \in Ids : Exists(iy, id) => id <= iy.max_id
    BY <1>0, <1>7, <1>11, GoodFacts DEF Exists, Ids
  <2>4. ~Exists(iy, 0)
    BY <1>0, <1>1, <1>11, GoodFacts DEF Exists, Ids
  <2> QED BY <1>8, <2>1, <2>2, <2>3, <2>4 DEF Good, Bounded
<1>13. IdIsAlive(iy, e.id) /\ Exists(iy, e.id) /\ Entry(iy, e.id) = e
  BY <1>1, <1>2, <1>4, <1>5, <1>6 DEF IdIsAlive, Exists, Entry
<1>14. \A id \in Ids : id # e.id => SameAt(ix, iy, id)
  BY <1>4, <1>11 DEF SameAt, IdIsAlive, Exists, Entry, a
<1> QED BY <1>12, <1>13, <1>14 DEF iy

(* remove of an alive handle: the id is dead, stored with the next         *)
(* generation, and no other id changes.                                    *)
LEMMA RemoveEffect ==
    ASSUME NEW ix, Good(ix), NEW e \in Entities, IsAlive(ix, e)
    PROVE  /\ Good(Remove(ix, e))
           /\ Exists(Remove(ix, e), e.id)
           /\ ~IdIsAlive(Remove(ix, e), e.id)
           /\ Entry(Remove(ix, e), e.id) = GenerationInc(e)
           /\ \A id \in Ids : id # e.id => SameAt(ix, Remove(ix, e), id)
<1> DEFINE iy == Remove(ix, e)
           d == ix.record[e.id]
           i == ix.alive_count - 1
           s == ix.dense[i]
           n == GenerationInc(e)
<1>0. MaxId \in Nat /\ GenCount \in Nat /\ GenCount > 0
  BY MaxIdAssumption, GenCountAssumption
<1>1. /\ e \in Handles /\ e.id \in Ids /\ e.id # 0
  BY <1>0 DEF Entities, EntityIds, Handles, Ids
<1>2. n \in Handles /\ n.id = e.id
  BY <1>0, <1>1 DEF GenerationInc, Handles, Gens
<1>3. /\ d \in 1..Len(ix.dense) /\ i \in 1..Len(ix.dense) /\ d <= i
      /\ ix.dense[d].id = e.id
  BY <1>1, GoodFacts DEF IsAlive, IdIsAlive, Exists
<1>4. /\ s \in Handles /\ s.id \in Ids /\ ix.record[s.id] = i
      /\ s.id = e.id <=> i = d
  BY <1>1, <1>3, GoodFacts
<1>5. /\ iy.dense = Swap2(ix.dense, d, s, i, n)
      /\ iy.record = Swap2(ix.record, s.id, d, e.id, i)
      /\ iy.alive_count = i
      /\ iy.max_id = ix.max_id
      /\ iy = [dense |-> iy.dense, record |-> iy.record,
               alive_count |-> iy.alive_count, max_id |-> iy.max_id]
  BY DEF Remove
<1> HIDE DEF iy, d, i, s, n
<1>6. /\ iy.dense \in Seq(Handles) /\ Len(iy.dense) = Len(ix.dense)
      /\ \A k \in 1..Len(ix.dense) : iy.dense[k] =
            IF k = i THEN n ELSE IF k = d THEN s ELSE ix.dense[k]
  <2>1. ix.dense \in Seq(Handles)
    BY GoodFacts
  <2>2. /\ iy.dense \in Seq(Handles) /\ Len(iy.dense) = Len(ix.dense)
        /\ iy.dense[i] = n
        /\ d # i => iy.dense[d] = s
        /\ \A k \in 1..Len(ix.dense) : k # d /\ k # i => iy.dense[k] = ix.dense[k]
    <3> DEFINE ids == ix.dense
    <3> HIDE DEF ids
    <3>1. iy.dense = Swap2(ids, d, s, i, n)
      BY <1>5 DEF ids
    <3>2. ids \in Seq(Handles) /\ d \in 1..Len(ids) /\ i \in 1..Len(ids)
      BY <1>3, <2>1 DEF ids
    <3>3. s \in Handles /\ n \in Handles
      BY <1>2, <1>4
    <3>4. Wrote(Swap2(ids, d, s, i, n), ids, d, s, i, n)
      BY <3>2, <3>3, Swap2Seq
    <3> QED BY <3>1, <3>4 DEF ids, Wrote
  <2> QED BY <2>2
<1>7. /\ iy.record \in [Ids -> Nat]
      /\ \A k \in Ids : iy.record[k] =
            IF k = e.id THEN i ELSE IF k = s.id THEN d ELSE ix.record[k]
  <2>1. i \in Nat /\ d \in Nat /\ ix.record \in [Ids -> Nat]
    BY <1>3, GoodFacts
  <2>2. iy.record = Swap2(ix.record, s.id, d, e.id, i)
    BY <1>5
  <2>3. e.id \in Ids /\ s.id \in Ids
    BY <1>1, <1>4
  <2> QED BY <2>1, <2>2, <2>3 DEF Swap2
<1>8. iy \in IndexType
  <2>1. iy.alive_count \in Nat /\ iy.max_id \in Ids
    BY <1>3, <1>5, GoodFacts
  <2> QED BY <1>5, <1>6, <1>7, <2>1 DEF IndexType
<1>9. \A k \in 1..Len(iy.dense) : iy.record[iy.dense[k].id] = k
  <2> SUFFICES ASSUME NEW k \in 1..Len(iy.dense)
               PROVE  iy.record[iy.dense[k].id] = k
    OBVIOUS
  <2>1. CASE k = i
    BY <2>1, <1>1, <1>2, <1>3, <1>6, <1>7
  <2>2. CASE k = d /\ k # i
    BY <2>2, <1>3, <1>4, <1>6, <1>7
  <2>3. CASE k # d /\ k # i
    <3>1. iy.dense[k] = ix.dense[k]
      BY <2>3, <1>6
    <3>2. ix.dense[k].id \in Ids /\ ix.record[ix.dense[k].id] = k
      BY <1>6, GoodFacts
    <3>3. ix.dense[k].id # e.id /\ ix.dense[k].id # s.id
      BY <3>2, <2>3, <1>4 DEF d
    <3> QED BY <3>1, <3>2, <3>3, <1>7
  <2> QED BY <2>1, <2>2, <2>3
<1>10. \A id \in Ids : id # e.id =>
          /\ (iy.record[id] # 0) <=> (ix.record[id] # 0)
          /\ (iy.record[id] # 0 /\ iy.record[id] < i)
               <=> (ix.record[id] # 0 /\ ix.record[id] < i + 1)
          /\ ix.record[id] # 0 => /\ iy.record[id] \in 1..Len(ix.dense)
                                 /\ iy.dense[iy.record[id]] = ix.dense[ix.record[id]]
  <2> SUFFICES ASSUME NEW id \in Ids, id # e.id
               PROVE  /\ (iy.record[id] # 0) <=> (ix.record[id] # 0)
                      /\ (iy.record[id] # 0 /\ iy.record[id] < i)
                           <=> (ix.record[id] # 0 /\ ix.record[id] < i + 1)
                      /\ ix.record[id] # 0 =>
                           /\ iy.record[id] \in 1..Len(ix.dense)
                           /\ iy.dense[iy.record[id]] = ix.dense[ix.record[id]]
    OBVIOUS
  <2>1. CASE id = s.id
    <3>1. iy.record[id] = d /\ ix.record[id] = i /\ d < i
      BY <2>1, <1>3, <1>4, <1>7
    <3>2. iy.dense[d] = ix.dense[i]
      BY <3>1, <1>3, <1>6 DEF s
    <3> QED BY <3>1, <3>2, <1>3
  <2>2. CASE id # s.id
    <3>1. iy.record[id] = ix.record[id]
      BY <2>2, <1>7
    <3>2. CASE ix.record[id] = 0
      BY <3>1, <3>2
    <3>3. CASE ix.record[id] # 0
      <4>1. ix.record[id] \in 1..Len(ix.dense) /\ ix.dense[ix.record[id]].id = id
        BY <3>3, GoodFacts
      <4>2. ix.record[id] # i /\ ix.record[id] # d
        BY <4>1, <2>2, <1>3 DEF s
      <4>3. iy.dense[ix.record[id]] = ix.dense[ix.record[id]]
        BY <4>1, <4>2, <1>6
      <4> QED BY <3>1, <4>1, <4>2, <4>3, <1>3
    <3> QED BY <3>2, <3>3
  <2> QED BY <2>1, <2>2
<1>11. iy.record[e.id] = i /\ iy.dense[i] = n
  BY <1>1, <1>3, <1>6, <1>7
<1>12. Good(iy)
  <2>1. \A id \in Ids : iy.record[id] # 0 =>
           iy.record[id] \in 1..Len(iy.dense) /\ iy.dense[iy.record[id]].id = id
    <3> SUFFICES ASSUME NEW id \in Ids, iy.record[id] # 0
                 PROVE  iy.record[id] \in 1..Len(iy.dense) /\ iy.dense[iy.record[id]].id = id
      OBVIOUS
    <3>1. CASE id = e.id
      BY <3>1, <1>2, <1>3, <1>6, <1>11
    <3>2. CASE id # e.id
      BY <3>2, <1>6, <1>10, GoodFacts
    <3> QED BY <3>1, <3>2
  <2>2. iy.alive_count \in 1..Count(iy)
    BY <1>3, <1>5, <1>6, GoodFacts DEF Count
  <2>3. \A id \in Ids : iy.record[id] # 0 => id <= iy.max_id
    <3> SUFFICES ASSUME NEW id \in Ids, iy.record[id] # 0 PROVE id <= iy.max_id
      OBVIOUS
    <3>1. ix.record[id] # 0
      <4>1. ix.record[e.id] # 0
        BY <1>3 DEF d
      <4> QED BY <4>1, <1>10
    <3> QED BY <3>1, <1>5, GoodFacts
  <2>4. iy.record[0] = 0
    <3>1. 0 \in Ids
      BY <1>0 DEF Ids
    <3> QED BY <3>1, <1>1, <1>10, GoodFacts
  <2> QED BY <1>8, <1>9, <2>1, <2>2, <2>3, <2>4 DEF Good, Linked, Bounded, Exists, Entry
<1>13. \A id \in Ids : id # e.id => SameAt(ix, iy, id)
  <2>1. ix.alive_count = i + 1
    BY GoodFacts DEF i
  <2> QED BY <2>1, <1>5, <1>10 DEF SameAt, IdIsAlive, Exists, Entry
<1>14. Exists(iy, e.id) /\ ~IdIsAlive(iy, e.id) /\ Entry(iy, e.id) = n
  BY <1>3, <1>5, <1>11 DEF IdIsAlive, Exists, Entry
<1> QED BY <1>12, <1>13, <1>14 DEF iy, n

(* make_alive on an id that exists replaces its handle and nothing else.   *)
LEMMA MakeAliveEffect ==
    ASSUME NEW ix, Good(ix), NEW e \in Entities, Exists(ix, e.id)
    PROVE  /\ Good(MakeAlive(ix, e))
           /\ Exists(MakeAlive(ix, e), e.id)
           /\ IdIsAlive(MakeAlive(ix, e), e.id) <=> IdIsAlive(ix, e.id)
           /\ Entry(MakeAlive(ix, e), e.id) = e
           /\ \A id \in Ids : id # e.id => SameAt(ix, MakeAlive(ix, e), id)
<1> DEFINE iy == MakeAlive(ix, e)
           d == ix.record[e.id]
<1>1. /\ e \in Handles /\ e.id \in Ids
  BY DEF Entities, EntityIds, Handles
<1>2. d \in 1..Len(ix.dense) /\ ix.dense[d].id = e.id /\ d # 0
  BY <1>1, GoodFacts DEF Exists
<1>3. /\ iy.dense = [ix.dense EXCEPT ![d] = e]
      /\ iy.record = ix.record /\ iy.alive_count = ix.alive_count
      /\ iy.max_id = ix.max_id
      /\ iy = [dense |-> iy.dense, record |-> iy.record,
               alive_count |-> iy.alive_count, max_id |-> iy.max_id]
  BY DEF MakeAlive, Good, IndexType
<1> HIDE DEF iy, d
<1>4. /\ iy.dense \in Seq(Handles) /\ Len(iy.dense) = Len(ix.dense)
      /\ \A k \in 1..Len(ix.dense) : iy.dense[k] = IF k = d THEN e ELSE ix.dense[k]
  <2>1. ix.dense \in Seq(Handles)
    BY GoodFacts
  <2>2. iy.dense = [ix.dense EXCEPT ![d] = e]
    BY <1>3
  <2> QED BY <1>1, <1>2, <2>1, <2>2, ExceptSeq
<1>5. iy \in IndexType
  BY <1>3, <1>4, GoodFacts DEF IndexType
<1>6. \A k \in 1..Len(iy.dense) : iy.dense[k].id = ix.dense[k].id
  BY <1>2, <1>4
<1>7. Good(iy)
  BY <1>3, <1>4, <1>5, <1>6, GoodFacts DEF Good, Linked, Bounded, Exists, Entry, Count
<1>8. \A id \in Ids : id # e.id => SameAt(ix, iy, id)
  <2> SUFFICES ASSUME NEW id \in Ids, id # e.id, ix.record[id] # 0
               PROVE  iy.dense[ix.record[id]] = ix.dense[ix.record[id]]
    BY <1>3 DEF SameAt, IdIsAlive, Exists, Entry
  <2>1. ix.record[id] \in 1..Len(ix.dense) /\ ix.record[id] # d
    BY <1>2, GoodFacts
  <2> QED BY <2>1, <1>4
<1>9. /\ Exists(iy, e.id) /\ (IdIsAlive(iy, e.id) <=> IdIsAlive(ix, e.id))
      /\ Entry(iy, e.id) = e
  BY <1>2, <1>3, <1>4 DEF IdIsAlive, Exists, Entry, d
<1> QED BY <1>7, <1>8, <1>9 DEF iy

(* The ids that new_ids(n) makes alive: the entries of iy from the old     *)
(* alive count on.                                                         *)
Created(ix, iy, n) ==
    {id \in Ids : /\ iy.record[id] >= ix.alive_count
                  /\ iy.record[id] < ix.alive_count + n}

(* The ids that new_ids(n) takes for the first time.                       *)
Block(ix, n) == (ix.max_id + 1)..(ix.max_id + FreshNeeded(ix, n))

(* new_ids: exactly the ids of the new block become alive; dead ids keep   *)
(* the generation they were stored with, fresh ids have generation 0, and  *)
(* fresh ids are only taken when every dead id is. The fresh ids must not  *)
(* be in use: max_id need not bound the ids that are.                      *)
LEMMA NewIdsSound ==
    ASSUME NEW ix, Sound(ix), NEW n \in Nat \ {0},
           ix.max_id + FreshNeeded(ix, n) <= MaxId,
           \A id \in Block(ix, n) : ~Exists(ix, id)
    PROVE  LET iy == NewIds(ix, n)
               S  == Created(ix, iy, n)
           IN  /\ Sound(iy)
               /\ \A id \in Ids :
                    /\ Exists(ix, id) => Exists(iy, id) /\ Entry(iy, id) = Entry(ix, id)
                    /\ Exists(iy, id) /\ ~Exists(ix, id) => Entry(iy, id).gen = 0
                    /\ Exists(iy, id) => Exists(ix, id) \/ id \in S
                    /\ id \in S => id # 0 /\ Exists(iy, id) /\ ~IdIsAlive(ix, id)
                    /\ IdIsAlive(iy, id) <=> (IdIsAlive(ix, id) \/ id \in S)
               /\ \A id \in Ids : Exists(iy, id) <=> Exists(ix, id) \/ id \in Block(ix, n)
               /\ \/ \A id \in S : Exists(ix, id)
                  \/ \A id \in Ids : Exists(ix, id) /\ ~IdIsAlive(ix, id) => id \in S
<1> DEFINE iy == NewIds(ix, n)
           S  == Created(ix, iy, n)
           m  == FreshNeeded(ix, n)
           L  == Len(ix.dense)
           M  == ix.max_id
           a  == ix.alive_count
           fresh == [k \in 1..m |-> [id |-> M + k, gen |-> 0]]
<1>0. MaxId \in Nat /\ GenCount \in Nat /\ GenCount > 0
  BY MaxIdAssumption, GenCountAssumption
<1>1. /\ L \in Nat /\ M \in Nat /\ a \in Nat /\ a >= 1 /\ a <= L + 1 /\ M <= MaxId
  BY <1>0, SoundFacts DEF Ids
<1>2. /\ m \in Nat /\ a + n <= L + 1 + m
      /\ m = 0 \/ a + n = L + 1 + m
      /\ M + m <= MaxId
  <2>1. m = IF a + n - (L + 1) > 0 THEN a + n - (L + 1) ELSE 0
    BY DEF FreshNeeded, MaxOf, Count
  <2>2. M + m <= MaxId
    OBVIOUS
  <2> HIDE DEF m, M, L, a
  <2> QED BY <1>1, <2>1, <2>2
<1>3. /\ iy.dense = ix.dense \o fresh
      /\ iy.record = [id \in Ids |-> IF id \in (M + 1)..(M + m)
                                    THEN L + id - M ELSE ix.record[id]]
      /\ iy.alive_count = a + n
      /\ iy.max_id = M + m
      /\ iy = [dense |-> iy.dense, record |-> iy.record,
               alive_count |-> iy.alive_count, max_id |-> iy.max_id]
  BY DEF NewIds
<1>4. /\ fresh \in Seq(Handles) /\ Len(fresh) = m
      /\ \A k \in 1..m : fresh[k] = [id |-> M + k, gen |-> 0]
  <2> HIDE DEF m, L, M, a
  <2>1. \A k \in 1..m : [id |-> M + k, gen |-> 0] \in Handles
    BY <1>0, <1>1, <1>2 DEF Handles, Ids, Gens
  <2>2. fresh \in [1..m -> Handles]
    BY <2>1
  <2>3. fresh \in Seq(Handles)
    BY <2>2, <1>2, SeqDef
  <2> QED BY <2>2, <2>3, <1>2, LenProperties
<1> HIDE DEF iy, m, L, M, a, fresh
<1>5. /\ iy.dense \in Seq(Handles) /\ Len(iy.dense) = L + m
      /\ \A k \in 1..L : iy.dense[k] = ix.dense[k]
      /\ \A k \in 1..m : iy.dense[L + k] = [id |-> M + k, gen |-> 0]
  <2>1. ix.dense \in Seq(Handles) /\ L = Len(ix.dense)
    BY SoundFacts DEF L
  <2>2. /\ iy.dense \in Seq(Handles) /\ Len(iy.dense) = L + m
        /\ \A k \in 1..(L + m) : iy.dense[k] = IF k <= L THEN ix.dense[k] ELSE fresh[k - L]
    <3>1. /\ ix.dense \o fresh \in Seq(Handles)
          /\ Len(ix.dense \o fresh) = Len(ix.dense) + Len(fresh)
          /\ \A k \in 1..(Len(ix.dense) + Len(fresh)) : (ix.dense \o fresh)[k] =
                IF k <= Len(ix.dense) THEN ix.dense[k] ELSE fresh[k - Len(ix.dense)]
      BY <2>1, <1>4, ConcatProperties
    <3>2. iy.dense = ix.dense \o fresh /\ Len(fresh) = m /\ L = Len(ix.dense)
      BY <2>1, <1>3, <1>4
    <3> QED BY <3>1, <3>2
  <2>3. ASSUME NEW k \in 1..m PROVE iy.dense[L + k] = [id |-> M + k, gen |-> 0]
    <3>1. L + k \in 1..(L + m) /\ ~(L + k <= L) /\ (L + k) - L = k
      BY <1>1, <1>2
    <3> QED BY <3>1, <2>2, <1>4
  <2>4. ASSUME NEW k \in 1..L PROVE iy.dense[k] = ix.dense[k]
    <3>1. k \in 1..(L + m) /\ k <= L
      BY <1>1, <1>2
    <3> QED BY <3>1, <2>2
  <2> QED BY <2>2, <2>3, <2>4
<1>6. \A id \in Ids : ix.record[id] # 0 =>
         /\ ix.record[id] \in 1..L /\ ix.dense[ix.record[id]].id = id
         /\ id \notin (M + 1)..(M + m)
  <2>1. \A id \in (M + 1)..(M + m) : ix.record[id] = 0
    BY DEF Block, Exists, M, m
  <2> QED BY <2>1, SoundFacts DEF L
<1>7. /\ iy.record \in [Ids -> Nat]
      /\ \A id \in Ids : id \in (M + 1)..(M + m) =>
            iy.record[id] = L + id - M /\ ix.record[id] = 0
      /\ \A id \in Ids : id \notin (M + 1)..(M + m) => iy.record[id] = ix.record[id]
  <2>1. ix.record \in [Ids -> Nat]
    BY SoundFacts
  <2>2. \A id \in Ids : id \in (M + 1)..(M + m) => L + id - M \in Nat /\ ix.record[id] = 0
    BY <1>0, <1>1, <1>2, <1>6 DEF Ids
  <2> QED BY <2>1, <2>2, <1>3
<1>8. \A k \in 1..m : M + k \in Ids /\ M + k \in (M + 1)..(M + m) /\ iy.record[M + k] = L + k
  <2> SUFFICES ASSUME NEW k \in 1..m
               PROVE  M + k \in Ids /\ M + k \in (M + 1)..(M + m) /\ iy.record[M + k] = L + k
    OBVIOUS
  <2>1. M + k \in Ids /\ M + k \in (M + 1)..(M + m)
    BY <1>0, <1>1, <1>2 DEF Ids
  <2>2. iy.record[M + k] = L + (M + k) - M
    BY <2>1, <1>7
  <2> QED BY <2>1, <2>2, <1>1
<1>9. \A k \in 1..Len(iy.dense) : iy.record[iy.dense[k].id] = k
  <2> SUFFICES ASSUME NEW k \in 1..(L + m) PROVE iy.record[iy.dense[k].id] = k
    BY <1>5
  <2>1. CASE k \in 1..L
    <3>1. ix.dense[k].id \in Ids /\ ix.record[ix.dense[k].id] = k
      BY <2>1, SoundFacts DEF L
    <3>2. ix.dense[k].id \notin (M + 1)..(M + m)
      BY <3>1, <2>1, <1>1, <1>2, <1>6 DEF Ids
    <3> QED BY <2>1, <3>1, <3>2, <1>5, <1>7
  <2>2. CASE k \notin 1..L
    <3>1. k - L \in 1..m /\ L + (k - L) = k
      BY <2>2, <1>1, <1>2
    <3>2. iy.dense[L + (k - L)] = [id |-> M + (k - L), gen |-> 0]
      BY <3>1, <1>5
    <3>3. iy.dense[k].id = M + (k - L)
      BY <3>1, <3>2
    <3> QED BY <3>1, <3>3, <1>8
  <2> QED BY <2>1, <2>2
<1>10. \A id \in Ids : iy.record[id] # 0 =>
          /\ iy.record[id] \in 1..(L + m)
          /\ iy.dense[iy.record[id]].id = id
          /\ ix.record[id] # 0 => iy.record[id] = ix.record[id]
          /\ ix.record[id] # 0 => iy.dense[iy.record[id]] = ix.dense[ix.record[id]]
          /\ ix.record[id] = 0 => iy.dense[iy.record[id]].gen = 0
          /\ ix.record[id] = 0 => iy.record[id] > L /\ id \in (M + 1)..(M + m)
  <2> SUFFICES ASSUME NEW id \in Ids, iy.record[id] # 0
               PROVE  /\ iy.record[id] \in 1..(L + m)
                      /\ iy.dense[iy.record[id]].id = id
                      /\ ix.record[id] # 0 => iy.record[id] = ix.record[id]
                      /\ ix.record[id] # 0 =>
                            iy.dense[iy.record[id]] = ix.dense[ix.record[id]]
                      /\ ix.record[id] = 0 => iy.dense[iy.record[id]].gen = 0
                      /\ ix.record[id] = 0 => iy.record[id] > L /\ id \in (M + 1)..(M + m)
    OBVIOUS
  <2>1. CASE id \in (M + 1)..(M + m)
    <3>1. id - M \in 1..m /\ L + (id - M) = L + id - M /\ M + (id - M) = id
      BY <2>1, <1>1, <1>2
    <3>2. iy.record[id] = L + (id - M) /\ ix.record[id] = 0
      BY <2>1, <3>1, <1>7
    <3>3. iy.dense[L + (id - M)] = [id |-> M + (id - M), gen |-> 0]
      BY <3>1, <1>5
    <3>4. iy.dense[iy.record[id]] = [id |-> id, gen |-> 0]
      BY <3>1, <3>2, <3>3
    <3>5. iy.record[id] \in 1..(L + m) /\ iy.record[id] > L
      BY <3>1, <3>2, <1>1, <1>2
    <3> QED BY <2>1, <3>1, <3>2, <3>4, <3>5
  <2>2. CASE id \notin (M + 1)..(M + m)
    <3>1. iy.record[id] = ix.record[id]
      BY <2>2, <1>7
    <3>2. ix.record[id] \in 1..L /\ ix.dense[ix.record[id]].id = id
      BY <3>1, <1>6
    <3>3. iy.dense[ix.record[id]] = ix.dense[ix.record[id]]
      BY <3>2, <1>5
    <3> QED BY <3>1, <3>2, <3>3, <1>1, <1>2
  <2> QED BY <2>1, <2>2
<1>11. \A id \in Ids : iy.record[id] # 0 <=> ix.record[id] # 0 \/ id \in (M + 1)..(M + m)
  <2>1. \A id \in Ids : id \in (M + 1)..(M + m) => iy.record[id] # 0
    BY <1>1, <1>2, <1>7 DEF Ids
  <2> QED BY <2>1, <1>7
<1>12. Sound(iy)
  <2>1. iy \in IndexType
    <3>1. iy.alive_count \in Nat /\ iy.max_id \in Ids
      BY <1>0, <1>1, <1>2, <1>3 DEF Ids
    <3> QED BY <3>1, <1>3, <1>5, <1>7 DEF IndexType
  <2>2. iy.alive_count \in 1..Count(iy)
    BY <1>1, <1>2, <1>3, <1>5 DEF Count
  <2>3. iy.record[0] = 0
    <3>1. 0 \in Ids /\ 0 \notin (M + 1)..(M + m)
      BY <1>0, <1>1, <1>2 DEF Ids
    <3> QED BY <3>1, <1>7, SoundFacts
  <2> QED BY <1>5, <1>9, <1>10, <2>1, <2>2, <2>3 DEF Sound, Linked, Exists, Entry
<1>13. ASSUME NEW id \in Ids
       PROVE  id \in S <=> iy.record[id] >= a /\ iy.record[id] < a + n
  BY DEF Created, a
<1>14. ASSUME NEW id \in Ids
       PROVE  /\ Exists(ix, id) => Exists(iy, id) /\ Entry(iy, id) = Entry(ix, id)
              /\ Exists(iy, id) /\ ~Exists(ix, id) => Entry(iy, id).gen = 0
              /\ Exists(iy, id) => Exists(ix, id) \/ id \in S
              /\ id \in S => id # 0 /\ Exists(iy, id) /\ ~IdIsAlive(ix, id)
              /\ IdIsAlive(iy, id) <=> (IdIsAlive(ix, id) \/ id \in S)
  <2>1. Exists(ix, id) => Exists(iy, id) /\ Entry(iy, id) = Entry(ix, id)
    BY <1>10, <1>11 DEF Exists, Entry
  <2>2. Exists(iy, id) /\ ~Exists(ix, id) => Entry(iy, id).gen = 0
    BY <1>10 DEF Exists, Entry
  <2>3. iy.record[id] # 0 /\ ix.record[id] = 0 => iy.record[id] >= a /\ iy.record[id] < a + n
    <3> SUFFICES ASSUME iy.record[id] # 0, ix.record[id] = 0
                 PROVE  iy.record[id] >= a /\ iy.record[id] < a + n
      OBVIOUS
    <3>1. iy.record[id] \in 1..(L + m) /\ iy.record[id] > L
      BY <1>10
    <3>2. m # 0
      BY <3>1, <1>1, <1>2
    <3> QED BY <3>1, <3>2, <1>1, <1>2
  <2>4. iy.record[id] \in Nat /\ ix.record[id] \in Nat
        /\ (ix.record[id] # 0 => iy.record[id] = ix.record[id])
    BY <1>7, <1>10, <1>11, SoundFacts
  <2>5. id \in S => id # 0
    <3>1. ASSUME id = 0 PROVE iy.record[id] = 0
      BY <3>1, <1>12, SoundFacts
    <3> QED BY <3>1, <1>1, <1>13
  <2>6. id \in S => Exists(iy, id) /\ ~IdIsAlive(ix, id)
    BY <2>4, <1>1, <1>13 DEF Exists, IdIsAlive, a
  <2>7. IdIsAlive(iy, id) <=> (IdIsAlive(ix, id) \/ id \in S)
    <3>1. IdIsAlive(iy, id) <=> iy.record[id] # 0 /\ iy.record[id] < a + n
      BY <1>3 DEF IdIsAlive, Exists
    <3>2. IdIsAlive(ix, id) <=> ix.record[id] # 0 /\ ix.record[id] < a
      BY DEF IdIsAlive, Exists, a
    <3> QED BY <3>1, <3>2, <2>3, <2>4, <1>1, <1>13
  <2> QED BY <2>1, <2>2, <2>3, <2>5, <2>6, <2>7, <1>13 DEF Exists
<1>15. \/ \A id \in S : Exists(ix, id)
       \/ \A id \in Ids : Exists(ix, id) /\ ~IdIsAlive(ix, id) => id \in S
  <2>1. CASE m = 0
    <3> SUFFICES ASSUME NEW id \in Ids, id \in S PROVE ix.record[id] # 0
      BY DEF Created, Exists
    <3>1. iy.record[id] = ix.record[id] /\ iy.record[id] >= a
      BY <2>1, <1>1, <1>7, <1>13
    <3> QED BY <3>1, <1>1
  <2>2. CASE m # 0
    <3> SUFFICES ASSUME NEW id \in Ids, ix.record[id] # 0, ~(ix.record[id] < a)
                 PROVE  id \in S
      BY DEF Exists, IdIsAlive, a
    <3>1. iy.record[id] = ix.record[id] /\ ix.record[id] \in 1..L
      BY <1>6, <1>10, <1>11
    <3> QED BY <3>1, <2>2, <1>1, <1>2, <1>13
  <2> QED BY <2>1, <2>2
<1>16. ASSUME NEW id \in Ids PROVE Exists(iy, id) <=> Exists(ix, id) \/ id \in Block(ix, n)
  BY <1>11 DEF Exists, Block, M, m
<1> QED BY <1>12, <1>14, <1>15, <1>16 DEF iy

(* When max_id bounds the ids in use the fresh ids are not, and it goes on *)
(* bounding them.                                                          *)
LEMMA NewIdsEffect ==
    ASSUME NEW ix, Good(ix), NEW n \in Nat \ {0},
           ix.max_id + FreshNeeded(ix, n) <= MaxId
    PROVE  LET iy == NewIds(ix, n)
               S  == Created(ix, iy, n)
           IN  /\ Good(iy)
               /\ \A id \in Ids :
                    /\ Exists(ix, id) => Exists(iy, id) /\ Entry(iy, id) = Entry(ix, id)
                    /\ Exists(iy, id) /\ ~Exists(ix, id) => Entry(iy, id).gen = 0
                    /\ Exists(iy, id) => Exists(ix, id) \/ id \in S
                    /\ id \in S => id # 0 /\ Exists(iy, id) /\ ~IdIsAlive(ix, id)
                    /\ IdIsAlive(iy, id) <=> (IdIsAlive(ix, id) \/ id \in S)
               /\ \/ \A id \in S : Exists(ix, id)
                  \/ \A id \in Ids : Exists(ix, id) /\ ~IdIsAlive(ix, id) => id \in S
<1> DEFINE iy == NewIds(ix, n)
           S  == Created(ix, iy, n)
           m  == FreshNeeded(ix, n)
           M  == ix.max_id
<1>0. MaxId \in Nat
  BY MaxIdAssumption
<1>1. Sound(ix) /\ \A id \in Ids : Exists(ix, id) => id <= M
  BY GoodIsSound
<1>2. M \in Nat /\ m \in Int /\ m >= 0 /\ M + m <= MaxId
  <2>1. ix.alive_count \in Nat /\ Len(ix.dense) \in Nat /\ ix.max_id \in Nat
    BY <1>0, GoodFacts DEF Ids
  <2> QED BY <2>1 DEF FreshNeeded, MaxOf, Count
<1>3. iy.max_id = M + m
  BY DEF NewIds
<1>4. Block(ix, n) = (M + 1)..(M + m)
  BY DEF Block
<1> HIDE DEF iy, m, M
<1>5. \A id \in Block(ix, n) : id \in Ids /\ ~Exists(ix, id) /\ id <= M + m
  BY <1>0, <1>1, <1>2, <1>4 DEF Ids
<1>6. /\ Sound(iy)
      /\ \A id \in Ids :
           /\ Exists(ix, id) => Exists(iy, id) /\ Entry(iy, id) = Entry(ix, id)
           /\ Exists(iy, id) /\ ~Exists(ix, id) => Entry(iy, id).gen = 0
           /\ Exists(iy, id) => Exists(ix, id) \/ id \in S
           /\ id \in S => id # 0 /\ Exists(iy, id) /\ ~IdIsAlive(ix, id)
           /\ IdIsAlive(iy, id) <=> (IdIsAlive(ix, id) \/ id \in S)
      /\ \A id \in Ids : Exists(iy, id) <=> Exists(ix, id) \/ id \in Block(ix, n)
      /\ \/ \A id \in S : Exists(ix, id)
         \/ \A id \in Ids : Exists(ix, id) /\ ~IdIsAlive(ix, id) => id \in S
  BY <1>1, <1>5, NewIdsSound DEF iy
<1>7. Good(iy)
  <2>1. \A id \in Ids : Exists(iy, id) => id <= M + m
    BY <1>0, <1>1, <1>2, <1>5, <1>6 DEF Ids
  <2> QED BY <2>1, <1>3, <1>6, GoodIsSound
<1> QED BY <1>6, <1>7 DEF iy


(* new_id is new_ids(1), as long as max_id does not wrap.                  *)
LEMMA NewIdIsNewIds ==
    ASSUME NEW ix, Sound(ix), CanRecycle(ix) \/ ix.max_id < MaxId
    PROVE  /\ NewId(ix) = NewIds(ix, 1)
           /\ ix.max_id + FreshNeeded(ix, 1) <= MaxId
<1>0. MaxId \in Nat
  BY MaxIdAssumption
<1>1. /\ ix.max_id \in Nat /\ ix.max_id <= MaxId
      /\ ix.alive_count \in Nat /\ Len(ix.dense) \in Nat
      /\ ix.alive_count <= Len(ix.dense) + 1
      /\ ix.record \in [Ids -> Nat] /\ ix.dense \in Seq(Handles)
  BY <1>0, SoundFacts DEF Ids
<1> DEFINE fresh(m) == [k \in 1..m |-> [id |-> ix.max_id + k, gen |-> 0]]
           record(m) == [id \in Ids |-> IF id \in (ix.max_id + 1)..(ix.max_id + m)
                                        THEN Len(ix.dense) + id - ix.max_id
                                        ELSE ix.record[id]]
<1>2. \A m : FreshNeeded(ix, 1) = m =>
         NewIds(ix, 1) = [dense |-> ix.dense \o fresh(m), record |-> record(m),
                          alive_count |-> ix.alive_count + 1,
                          max_id |-> ix.max_id + m]
  BY DEF NewIds
<1>3. CASE CanRecycle(ix)
  <2>1. FreshNeeded(ix, 1) = 0
    BY <1>1, <1>3 DEF CanRecycle, Count, FreshNeeded, MaxOf
  <2>2. ix.dense \o fresh(0) = ix.dense
    <3>1. fresh(0) = << >>
      OBVIOUS
    <3> QED BY <3>1, <1>1, ConcatEmptySeq
  <2>3. record(0) = ix.record
    <3>1. \A id \in Ids : id \notin (ix.max_id + 1)..(ix.max_id + 0)
      BY <1>0, <1>1 DEF Ids
    <3>2. record(0) = [id \in Ids |-> ix.record[id]]
      BY <3>1
    <3>3. ix.record = [id \in Ids |-> ix.record[id]]
      BY <1>1
    <3> QED BY <3>2, <3>3
  <2>4. NewIds(ix, 1) = [dense |-> ix.dense, record |-> ix.record,
                         alive_count |-> ix.alive_count + 1, max_id |-> ix.max_id]
    <3> HIDE DEF fresh, record
    <3>1. NewIds(ix, 1) = [dense |-> ix.dense \o fresh(0), record |-> record(0),
                           alive_count |-> ix.alive_count + 1,
                           max_id |-> ix.max_id + 0]
      BY <1>2, <2>1
    <3>2. ix.max_id + 0 = ix.max_id
      BY <1>1
    <3> QED BY <2>2, <2>3, <3>1, <3>2
  <2>5. NewId(ix) = [dense |-> ix.dense, record |-> ix.record,
                     alive_count |-> ix.alive_count + 1, max_id |-> ix.max_id]
    BY <1>3 DEF NewId, Sound, IndexType
  <2> QED BY <2>1, <2>4, <2>5, <1>1
<1>4. CASE ~CanRecycle(ix)
  <2>1. FreshNeeded(ix, 1) = 1 /\ ix.alive_count = Len(ix.dense) + 1
    BY <1>1, <1>4 DEF CanRecycle, Count, FreshNeeded, MaxOf
  <2>2. FreshId(ix) = ix.max_id + 1 /\ FreshId(ix) \in Ids
    BY <1>0, <1>1, <1>4 DEF FreshId, Ids
  <2>3. ix.dense \o fresh(1) = Append(ix.dense, [id |-> ix.max_id + 1, gen |-> 0])
    <3>1. fresh(1) = << [id |-> ix.max_id + 1, gen |-> 0] >>
      BY <1>1
    <3> QED BY <3>1, <1>1
  <2>4. record(1) = [ix.record EXCEPT ![ix.max_id + 1] = ix.alive_count]
    <3>1. \A id \in Ids : record(1)[id] = IF id = ix.max_id + 1 THEN ix.alive_count
                                           ELSE ix.record[id]
      <4>1. \A id \in Ids : id \in (ix.max_id + 1)..(ix.max_id + 1) <=> id = ix.max_id + 1
        BY <1>1 DEF Ids
      <4>2. Len(ix.dense) + (ix.max_id + 1) - ix.max_id = ix.alive_count
        BY <1>1, <2>1
      <4> QED BY <4>1, <4>2
    <3>2. ix.max_id + 1 \in Ids
      BY <2>2
    <3> QED BY <1>1, <3>1, <3>2
  <2>5. NewIds(ix, 1) = [dense |-> Append(ix.dense, [id |-> ix.max_id + 1, gen |-> 0]),
                         record |-> [ix.record EXCEPT ![ix.max_id + 1] = ix.alive_count],
                         alive_count |-> ix.alive_count + 1, max_id |-> ix.max_id + 1]
    <3> HIDE DEF fresh, record
    <3> QED BY <1>2, <2>1, <2>3, <2>4
  <2>6. NewId(ix) = NewIds(ix, 1)
    BY <1>4, <2>2, <2>5 DEF NewId
  <2> QED BY <1>0, <1>1, <1>4, <2>1, <2>6
<1> QED BY <1>3, <1>4

-----------------------------------------------------------------------------
(* The same effects on an index that is sound only. None of the operations *)
(* reads max_id but to raise it, so they do to ix what they do to Raise(ix),*)
(* the index with the largest max_id, which is good.                       *)
Raise(ix) == [ix EXCEPT !.max_id = MaxId]

(* ix and iy differ at most in max_id.                                     *)
Agree(ix, iy) == /\ iy.dense = ix.dense
                 /\ iy.record = ix.record
                 /\ iy.alive_count = ix.alive_count

(* The queries do not read max_id.                                         *)
LEMMA AgreeQueries ==
    ASSUME NEW ix, NEW iy, Agree(ix, iy)
    PROVE  \A id : /\ Exists(iy, id) <=> Exists(ix, id)
                   /\ IdIsAlive(iy, id) <=> IdIsAlive(ix, id)
                   /\ Entry(iy, id) = Entry(ix, id)
BY DEF Agree, Exists, IdIsAlive, Entry

(* A sound index with the largest max_id is good.                          *)
LEMMA RaiseGood ==
    ASSUME NEW ix, Sound(ix)
    PROVE  Good(Raise(ix)) /\ Agree(ix, Raise(ix)) /\ Raise(ix).max_id = MaxId
<1> DEFINE iy == Raise(ix)
<1>0. MaxId \in Nat
  BY MaxIdAssumption
<1>1. ix \in IndexType
  BY DEF Sound
<1>2. /\ iy.dense = ix.dense /\ iy.record = ix.record
      /\ iy.alive_count = ix.alive_count /\ iy.max_id = MaxId
      /\ iy \in IndexType
  <2>1. MaxId \in Ids
    BY <1>0 DEF Ids
  <2>2. iy = [dense |-> ix.dense, record |-> ix.record,
              alive_count |-> ix.alive_count, max_id |-> MaxId]
    BY <1>1 DEF Raise, IndexType
  <2> HIDE DEF iy
  <2> QED BY <1>1, <2>1, <2>2 DEF IndexType
<1> HIDE DEF iy
<1>3. Agree(ix, iy)
  BY <1>2 DEF Agree
<1>4. Sound(iy)
  BY <1>2 DEF Sound, Linked, Count, Exists, Entry
<1>5. \A id \in Ids : id <= iy.max_id
  BY <1>0, <1>2 DEF Ids
<1> QED BY <1>2, <1>3, <1>4, <1>5, GoodIsSound DEF iy

(* And whatever agrees with a good index is sound.                         *)
LEMMA AgreeSound ==
    ASSUME NEW iz, Good(iz), NEW iy, Agree(iy, iz), iy.max_id \in Ids,
           iy = [dense |-> iy.dense, record |-> iy.record,
                 alive_count |-> iy.alive_count, max_id |-> iy.max_id]
    PROVE  Sound(iy)
<1>1. iy \in IndexType
  BY GoodFacts DEF Agree, IndexType
<1> QED BY <1>1, GoodIsSound DEF Agree, Sound, Linked, Count, Exists, Entry

(* ensure, on a sound index.                                               *)
LEMMA EnsureSound ==
    ASSUME NEW ix, Sound(ix), NEW e \in Entities, ~IdIsAlive(ix, e.id)
    PROVE  LET iy == Ensure(ix, e)
           IN  /\ Sound(iy)
               /\ IdIsAlive(iy, e.id) /\ Exists(iy, e.id) /\ Entry(iy, e.id) = e
               /\ iy.max_id = IF Exists(ix, e.id) THEN ix.max_id ELSE MaxOf(e.id, ix.max_id)
               /\ \A id \in Ids : id # e.id => SameAt(ix, iy, id)
<1> DEFINE iy == Ensure(ix, e)
           ir == Raise(ix)
           iz == Ensure(ir, e)
<1>1. Good(ir) /\ Agree(ix, ir) /\ ~IdIsAlive(ir, e.id)
  BY RaiseGood, AgreeQueries
<1>2. /\ Good(iz) /\ IdIsAlive(iz, e.id) /\ Exists(iz, e.id) /\ Entry(iz, e.id) = e
      /\ \A id \in Ids : id # e.id => SameAt(ir, iz, id)
  BY <1>1, EnsureEffect
<1>3. /\ iy.max_id = IF Exists(ix, e.id) THEN ix.max_id ELSE MaxOf(e.id, ix.max_id)
      /\ iy = [dense |-> iy.dense, record |-> iy.record,
               alive_count |-> iy.alive_count, max_id |-> iy.max_id]
  BY DEF Ensure
<1>4. Agree(iy, iz)
  BY <1>1 DEF Agree, Ensure, Exists, IdIsAlive
<1> HIDE DEF iy, ir, iz
<1>5. iy.max_id \in Ids
  BY <1>3, SoundFacts DEF MaxOf, Entities, EntityIds
<1>6. Sound(iy)
  BY <1>2, <1>3, <1>4, <1>5, AgreeSound
<1>7. ASSUME NEW id \in Ids, id # e.id PROVE SameAt(ix, iy, id)
  BY <1>1, <1>2, <1>4, <1>7, AgreeQueries DEF SameAt
<1>8. IdIsAlive(iy, e.id) /\ Exists(iy, e.id) /\ Entry(iy, e.id) = e
  BY <1>2, <1>4, AgreeQueries
<1> QED BY <1>3, <1>6, <1>7, <1>8 DEF iy

(* remove, on a sound index. The entry becomes the first dead one.         *)
LEMMA RemoveSound ==
    ASSUME NEW ix, Sound(ix), NEW e \in Entities, IsAlive(ix, e)
    PROVE  LET iy == Remove(ix, e)
           IN  /\ Sound(iy)
               /\ Exists(iy, e.id) /\ ~IdIsAlive(iy, e.id)
               /\ Entry(iy, e.id) = GenerationInc(e)
               /\ iy.record[e.id] = iy.alive_count
               /\ iy.max_id = ix.max_id
               /\ \A id \in Ids : id # e.id => SameAt(ix, iy, id)
<1> DEFINE iy == Remove(ix, e)
           ir == Raise(ix)
           iz == Remove(ir, e)
<1>1. Good(ir) /\ Agree(ix, ir) /\ IsAlive(ir, e)
  BY RaiseGood, AgreeQueries DEF IsAlive
<1>2. /\ Good(iz) /\ Exists(iz, e.id) /\ ~IdIsAlive(iz, e.id)
      /\ Entry(iz, e.id) = GenerationInc(e)
      /\ \A id \in Ids : id # e.id => SameAt(ir, iz, id)
  BY <1>1, RemoveEffect
<1>3. /\ iy.max_id = ix.max_id
      /\ iy = [dense |-> iy.dense, record |-> iy.record,
               alive_count |-> iy.alive_count, max_id |-> iy.max_id]
  BY DEF Remove
<1>4. Agree(iy, iz)
  BY <1>1 DEF Agree, Remove
<1>5. iy.record[e.id] = iy.alive_count
  <2>1. e.id \in Ids /\ ix.record \in [Ids -> Nat]
    BY SoundFacts DEF Entities, EntityIds
  <2> QED BY <2>1 DEF Remove, Swap2
<1> HIDE DEF iy, ir, iz
<1>6. Sound(iy)
  BY <1>2, <1>3, <1>4, SoundFacts, AgreeSound
<1>7. ASSUME NEW id \in Ids, id # e.id PROVE SameAt(ix, iy, id)
  BY <1>1, <1>2, <1>4, <1>7, AgreeQueries DEF SameAt
<1>8. Exists(iy, e.id) /\ ~IdIsAlive(iy, e.id) /\ Entry(iy, e.id) = GenerationInc(e)
  BY <1>2, <1>4, AgreeQueries
<1> QED BY <1>3, <1>5, <1>6, <1>7, <1>8 DEF iy

(* make_alive, on a sound index.                                           *)
LEMMA MakeAliveSound ==
    ASSUME NEW ix, Sound(ix), NEW e \in Entities, ~IdIsAlive(ix, e.id)
    PROVE  LET iy == MakeAlive(ix, e)
           IN  /\ Sound(iy) /\ iy.max_id = ix.max_id
               /\ Exists(iy, e.id) <=> Exists(ix, e.id)
               /\ ~IdIsAlive(iy, e.id)
               /\ \A id \in Ids : id # e.id => SameAt(ix, iy, id)
<1> DEFINE iy == MakeAlive(ix, e)
           ir == Raise(ix)
           iz == MakeAlive(ir, e)
<1>1. CASE ~Exists(ix, e.id)
  BY <1>1 DEF MakeAlive, SameAt
<1>2. CASE Exists(ix, e.id)
  <2>1. Good(ir) /\ Agree(ix, ir) /\ Exists(ir, e.id) /\ ~IdIsAlive(ir, e.id)
    BY <1>2, RaiseGood, AgreeQueries
  <2>2. /\ Good(iz) /\ Exists(iz, e.id) /\ ~IdIsAlive(iz, e.id)
        /\ \A id \in Ids : id # e.id => SameAt(ir, iz, id)
    BY <2>1, MakeAliveEffect
  <2>3. /\ iy.dense = [ix.dense EXCEPT ![ix.record[e.id]] = e]
        /\ iy.record = ix.record /\ iy.alive_count = ix.alive_count
        /\ iy.max_id = ix.max_id
        /\ iy = [dense |-> iy.dense, record |-> iy.record,
                 alive_count |-> iy.alive_count, max_id |-> iy.max_id]
    BY <1>2 DEF MakeAlive, Sound, IndexType
  <2>4. /\ iz.dense = [ir.dense EXCEPT ![ir.record[e.id]] = e]
        /\ iz.record = ir.record /\ iz.alive_count = ir.alive_count
    BY <2>1 DEF MakeAlive, Good, IndexType
  <2> HIDE DEF iy, ir, iz
  <2>5. Agree(iy, iz)
    BY <2>1, <2>3, <2>4 DEF Agree
  <2>6. Sound(iy)
    BY <2>2, <2>3, <2>5, SoundFacts, AgreeSound
  <2>7. ASSUME NEW id \in Ids, id # e.id PROVE SameAt(ix, iy, id)
    BY <2>1, <2>2, <2>5, <2>7, AgreeQueries DEF SameAt
  <2>8. Exists(iy, e.id) /\ ~IdIsAlive(iy, e.id)
    BY <2>2, <2>5, AgreeQueries
  <2> QED BY <1>2, <2>3, <2>6, <2>7, <2>8 DEF iy
<1> QED BY <1>1, <1>2

-----------------------------------------------------------------------------
(* The inductive invariant. Coherence is inductive by the lemmas above;    *)
(* that deleted handles stay dead needs the reason why: the entry of an id *)
(* is always ahead of every handle of it that was deleted.                 *)
DeadBehind == \A h \in dead : Exists(index, h.id) /\ h.gen < Entry(index, h.id).gen

IInv == Good(index) /\ dead \in SUBSET Entities /\ DeadBehind

(* Facts about handles used in the steps.                                  *)
LEMMA HandleFacts ==
    /\ GenCount \in Nat /\ GenCount > 0
    /\ \A e \in Entities : /\ e.id \in Ids /\ e.id \in EntityIds /\ e.id # 0
                           /\ e.gen \in Int /\ e.gen >= 0 /\ e.gen < GenCount
    /\ EntityIds \subseteq Ids
BY MaxIdAssumption, GenCountAssumption DEF Entities, EntityIds, Ids, Gens

(* The initial index is empty.                                             *)
LEMMA InitInv == Init => IInv
<1> SUFFICES ASSUME Init PROVE IInv
  OBVIOUS
<1>0. MaxId \in Nat
  BY MaxIdAssumption
<1>1. index.dense = << >> /\ index.record = [id \in Ids |-> 0]
      /\ index.alive_count = 1 /\ index.max_id = 0 /\ dead = {}
  BY DEF Init, EmptyIndex
<1>2. index \in IndexType
  <2>1. << >> \in Seq(Handles)
    BY EmptySeq
  <2> QED BY <2>1, <1>0 DEF Init, EmptyIndex, IndexType, Ids
<1>3. Len(index.dense) = 0
  BY <1>1
<1>4. Linked(index) /\ Bounded(index)
  BY <1>0, <1>1, <1>3 DEF Linked, Bounded, Exists, Count, Ids
<1> QED BY <1>1, <1>2, <1>4 DEF IInv, Good, DeadBehind

(* When an operation leaves every id but e.id alone and stores e or its    *)
(* successor for e.id, deleted handles of other ids stay behind.           *)
LEMMA OthersBehind ==
    ASSUME NEW iy, NEW e \in Entities, IInv,
           \A id \in Ids : id # e.id => SameAt(index, iy, id)
    PROVE  \A h \in dead : h.id # e.id =>
              Exists(iy, h.id) /\ h.gen < Entry(iy, h.id).gen
BY HandleFacts DEF IInv, DeadBehind, SameAt

(* Creation, from the effect of new_ids.                                   *)
LEMMA CreateInv ==
    ASSUME IInv, NEW n \in Nat \ {0},
           index.max_id + FreshNeeded(index, n) <= MaxId,
           index' = NewIds(index, n), UNCHANGED dead
    PROVE  IInv'
<1>1. /\ Good(index')
      /\ \A id \in Ids : Exists(index, id) =>
            Exists(index', id) /\ Entry(index', id) = Entry(index, id)
  BY NewIdsEffect DEF IInv
<1>2. \A h \in dead' : Exists(index', h.id) /\ h.gen < Entry(index', h.id).gen
  BY <1>1, HandleFacts DEF IInv, DeadBehind
<1> QED BY <1>1, <1>2 DEF IInv, DeadBehind

(* Bringing an id that is not alive to life with an explicit generation.   *)
LEMMA ReviveInv ==
    ASSUME IInv, NEW e \in Entities, NEW ix, Good(ix), ~IdIsAlive(ix, e.id),
           \A id \in Ids : id # e.id => SameAt(index, ix, id),
           index' = Ensure(ix, e), Retake(e)
    PROVE  IInv'
<1>1. /\ Good(index') /\ Exists(index', e.id) /\ Entry(index', e.id) = e
      /\ \A id \in Ids : id # e.id => SameAt(ix, index', id)
  BY EnsureEffect
<1>2. \A id \in Ids : id # e.id => SameAt(index, index', id)
  BY <1>1 DEF SameAt
<1>3. \A h \in dead : h.id # e.id => Exists(index', h.id) /\ h.gen < Entry(index', h.id).gen
  BY <1>2, OthersBehind
<1>4. \A h \in dead' : h \in dead /\ (h.id # e.id \/ h.gen < e.gen)
  BY DEF Retake
<1>5. \A h \in dead' : Exists(index', h.id) /\ h.gen < Entry(index', h.id).gen
  BY <1>1, <1>3, <1>4
<1>6. dead' \in SUBSET Entities
  BY DEF Retake, IInv
<1> QED BY <1>1, <1>5, <1>6 DEF IInv, DeadBehind

(* Every step keeps the invariant.                                         *)
LEMMA NextInv == IInv /\ [Next]_vars => IInv'
<1> SUFFICES ASSUME IInv, [Next]_vars PROVE IInv'
  OBVIOUS
<1>0. Good(index) /\ dead \in SUBSET Entities /\ DeadBehind
  BY DEF IInv
<1>1. CASE EcsNew
  <2>1. /\ index' = NewIds(index, 1)
        /\ index.max_id + FreshNeeded(index, 1) <= MaxId
    BY <1>0, <1>1, GoodIsSound, NewIdIsNewIds DEF EcsNew
  <2> QED BY <2>1, <1>1, CreateInv DEF EcsNew
<1>2. ASSUME NEW n \in 1..MaxId, EcsBulkNew(n) PROVE IInv'
  <2>1. n \in Nat \ {0}
    BY MaxIdAssumption
  <2> QED BY <2>1, <1>2, CreateInv DEF EcsBulkNew
<1>3. ASSUME NEW e \in Entities, EcsEnsure(e) PROVE IInv'
  <2>1. \A id \in Ids : id # e.id => SameAt(index, index, id)
    BY DEF SameAt
  <2> QED BY <1>0, <1>3, <2>1, ReviveInv DEF EcsEnsure
<1>4. ASSUME NEW e \in Entities, EcsMakeAlive(e) PROVE IInv'
  <2> DEFINE ix == MakeAlive(index, e)
  <2>1. /\ Good(ix) /\ ~IdIsAlive(ix, e.id)
        /\ \A id \in Ids : id # e.id => SameAt(index, ix, id)
    <3>1. CASE Exists(index, e.id)
      BY <1>0, <1>4, <3>1, MakeAliveEffect DEF EcsMakeAlive
    <3>2. CASE ~Exists(index, e.id)
      BY <1>0, <1>4, <3>2 DEF EcsMakeAlive, MakeAlive, SameAt
    <3> QED BY <3>1, <3>2
  <2>2. index' = Ensure(ix, e) /\ Retake(e)
    BY <1>4 DEF EcsMakeAlive
  <2> HIDE DEF ix
  <2> QED BY <2>1, <2>2, ReviveInv
<1>5. ASSUME NEW e \in Entities, EcsSetVersion(e) PROVE IInv'
  <2>1. /\ Good(index') /\ Exists(index', e.id) /\ Entry(index', e.id) = e
        /\ \A id \in Ids : id # e.id => SameAt(index, index', id)
    BY <1>0, <1>5, MakeAliveEffect DEF EcsSetVersion
  <2>2. \A h \in dead : h.id # e.id => Exists(index', h.id) /\ h.gen < Entry(index', h.id).gen
    BY <2>1, OthersBehind
  <2>3. \A h \in dead' : h \in dead /\ (h.id # e.id \/ h.gen < e.gen)
    BY <1>5 DEF EcsSetVersion, Retake
  <2>4. \A h \in dead' : Exists(index', h.id) /\ h.gen < Entry(index', h.id).gen
    BY <2>1, <2>2, <2>3
  <2>5. dead' \in SUBSET Entities
    BY <1>0, <2>3
  <2> QED BY <2>1, <2>4, <2>5 DEF IInv, DeadBehind
<1>6. ASSUME NEW e \in Entities, EcsDelete(e) PROVE IInv'
  <2>1. /\ Good(index') /\ Exists(index', e.id)
        /\ Entry(index', e.id) = GenerationInc(e)
        /\ \A id \in Ids : id # e.id => SameAt(index, index', id)
    BY <1>0, <1>6, RemoveEffect DEF EcsDelete
  <2>2. \A h \in dead : h.id # e.id => Exists(index', h.id) /\ h.gen < Entry(index', h.id).gen
    BY <2>1, OthersBehind
  <2>3. Entry(index, e.id) = e
    BY <1>6 DEF EcsDelete, IsAlive
  <2>4. CASE e.gen = GenCount - 1
    <3>1. dead' = {h \in dead : h.id # e.id}
      BY <2>4, <1>6 DEF EcsDelete
    <3>2. \A h \in dead' : Exists(index', h.id) /\ h.gen < Entry(index', h.id).gen
      BY <3>1, <2>2
    <3> QED BY <3>1, <3>2, <2>1, <1>0 DEF IInv, DeadBehind
  <2>5. CASE e.gen # GenCount - 1
    <3>1. dead' = dead \cup {e}
      BY <2>5, <1>6 DEF EcsDelete
    <3>2. Entry(index', e.id).gen = e.gen + 1
      <4>1. GenerationInc(e) = [e EXCEPT !.gen = e.gen + 1]
        BY <2>5 DEF GenerationInc
      <4> QED BY <4>1, <2>1 DEF Entities
    <3>3. \A h \in dead' : h.id = e.id => h.gen < e.gen + 1
      BY <1>0, <2>3, <3>1, HandleFacts DEF DeadBehind
    <3>4. \A h \in dead' : Exists(index', h.id) /\ h.gen < Entry(index', h.id).gen
      BY <3>1, <3>2, <3>3, <2>1, <2>2
    <3> QED BY <3>1, <3>4, <2>1, <1>0 DEF IInv, DeadBehind
  <2> QED BY <2>4, <2>5
<1>7. CASE UNCHANGED vars
  BY <1>0, <1>7 DEF vars, IInv, DeadBehind
<1> QED BY <1>1, <1>2, <1>3, <1>4, <1>5, <1>6, <1>7 DEF Next

(* The invariant holds throughout.                                         *)
LEMMA Invariance == Spec => []IInv
BY InitInv, NextInv, PTL DEF Spec

(* The index always has its type.                                          *)
THEOREM TypeCorrect == Spec => []TypeOK
<1>1. IInv => TypeOK
  BY DEF IInv, Good, TypeOK
<1> QED BY <1>1, Invariance, PTL

(* Dense array and records of the entity index stay linked, whatever       *)
(* sequence of operations is applied to it.                                *)
THEOREM Coherence == Spec => []IndexCoherent
<1>1. IInv => IndexCoherent
  BY DEF IInv, Good, IndexCoherent
<1> QED BY <1>1, Invariance, PTL

(* No operation brings a deleted handle back to life by accident.          *)
THEOREM NoResurrection == Spec => []DeletedStaysDead
<1>1. IInv => DeletedStaysDead
  BY HandleFacts DEF IInv, DeadBehind, DeletedStaysDead, IsAlive
<1> QED BY <1>1, Invariance, PTL

-----------------------------------------------------------------------------
(* Refinement. The mapping reads the status and the version of an id off   *)
(* the dense array; the effect lemmas are exactly what the abstract        *)
(* actions say.                                                            *)

(* An operation that only touches id k, seen through the mapping.          *)
LEMMA StatusOfSame ==
    ASSUME NEW k, \A id \in Ids : id # k => SameAt(index, index', id)
    PROVE  \A id \in EntityIds : id # k => Status(id)' = Status(id) /\ Version(id)' = Version(id)
BY HandleFacts DEF SameAt, Status, Version

(* Every step of the index is a step of the abstract table, or leaves it   *)
(* as it is.                                                               *)
LEMMA StepRefines == IInv /\ [Next]_vars => [Abs!Next]_(Abs!hvars)
<1> SUFFICES ASSUME IInv, [Next]_vars PROVE [Abs!Next]_(Abs!hvars)
  OBVIOUS
<1> DEFINE st == [id \in EntityIds |-> Status(id)]
           ve == [id \in EntityIds |-> Version(id)]
<1>0. Good(index)
  BY DEF IInv
<1>1. ASSUME NEW n \in Nat \ {0}, index.max_id + FreshNeeded(index, n) <= MaxId,
             index' = NewIds(index, n)
      PROVE  Abs!Next
  <2> DEFINE S == Created(index, index', n)
  <2>1. /\ \A id \in Ids :
             /\ Exists(index, id) => Exists(index', id) /\ Entry(index', id) = Entry(index, id)
             /\ Exists(index', id) /\ ~Exists(index, id) => Entry(index', id).gen = 0
             /\ Exists(index', id) => Exists(index, id) \/ id \in S
             /\ id \in S => id # 0 /\ Exists(index', id) /\ ~IdIsAlive(index, id)
             /\ IdIsAlive(index', id) <=> (IdIsAlive(index, id) \/ id \in S)
        /\ \/ \A id \in S : Exists(index, id)
           \/ \A id \in Ids : Exists(index, id) /\ ~IdIsAlive(index, id) => id \in S
    BY <1>0, <1>1, NewIdsEffect
  <2>2. S \subseteq EntityIds
    BY <2>1 DEF Created, EntityIds
  <2> HIDE DEF S
  <2>3. \A id \in EntityIds : /\ Status(id)' = IF id \in S THEN "alive" ELSE Status(id)
                              /\ Version(id)' = Version(id)
    BY <2>1, HandleFacts DEF Status, Version
  <2>4. \A id \in EntityIds :
           /\ st[id] = "dead" <=> Exists(index, id) /\ ~IdIsAlive(index, id)
           /\ st[id] = "unused" <=> ~Exists(index, id)
    BY DEF Status, IdIsAlive
  <2>5. S \subseteq Abs!Dead \/ (Abs!Dead \subseteq S /\ S \subseteq Abs!Dead \cup Abs!Unused)
    BY <2>1, <2>2, <2>4, HandleFacts DEF Abs!Dead, Abs!Unused, Abs!EntityIds, EntityIds, Ids
  <2>6. EntityIds = Abs!EntityIds
    BY MaxIdAssumption DEF EntityIds, Ids, Abs!EntityIds
  <2>7. /\ st' = [id \in Abs!EntityIds |-> IF id \in S THEN "alive" ELSE st[id]]
        /\ ve' = ve
    BY <2>3, <2>6
  <2>8. Abs!Create(S)
    BY <2>5, <2>7 DEF Abs!Create
  <2> QED BY <2>2, <2>6, <2>8 DEF Abs!Next
<1>2. ASSUME NEW e \in Entities, ~IdIsAlive(index, e.id), IdIsAlive(index', e.id),
             Exists(index', e.id), Entry(index', e.id) = e,
             \A id \in Ids : id # e.id => SameAt(index, index', id)
      PROVE  Abs!Next
  <2>1. \A id \in EntityIds : id # e.id => Status(id)' = Status(id) /\ Version(id)' = Version(id)
    BY <1>2, StatusOfSame
  <2>2. Status(e.id)' = "alive" /\ Version(e.id)' = e.gen /\ Status(e.id) # "alive"
    BY <1>2 DEF Status, Version
  <2>3. /\ st' = [st EXCEPT ![e.id] = "alive"]
        /\ ve' = [ve EXCEPT ![e.id] = e.gen]
        /\ st[e.id] # "alive"
    BY <2>1, <2>2, HandleFacts
  <2>4. Abs!Revive(e.id, e.gen)
    BY <2>3 DEF Abs!Revive
  <2>5. e.id \in Abs!EntityIds /\ e.gen \in Abs!Versions
    BY MaxIdAssumption DEF Entities, EntityIds, Ids, Gens, Abs!EntityIds, Abs!Versions
  <2> QED BY <2>4, <2>5 DEF Abs!Next
<1>3. CASE EcsNew
  BY <1>0, <1>1, <1>3, GoodIsSound, NewIdIsNewIds DEF EcsNew
<1>4. ASSUME NEW n \in 1..MaxId, EcsBulkNew(n) PROVE Abs!Next
  <2>1. n \in Nat \ {0}
    BY MaxIdAssumption
  <2> QED BY <2>1, <1>1, <1>4 DEF EcsBulkNew
<1>5. ASSUME NEW e \in Entities, EcsEnsure(e) PROVE Abs!Next
  BY <1>0, <1>2, <1>5, EnsureEffect DEF EcsEnsure
<1>6. ASSUME NEW e \in Entities, EcsMakeAlive(e) PROVE Abs!Next
  <2> DEFINE ix == MakeAlive(index, e)
  <2>1. /\ Good(ix) /\ ~IdIsAlive(ix, e.id)
        /\ \A id \in Ids : id # e.id => SameAt(index, ix, id)
    <3>1. CASE Exists(index, e.id)
      BY <1>0, <1>6, <3>1, MakeAliveEffect DEF EcsMakeAlive
    <3>2. CASE ~Exists(index, e.id)
      BY <1>0, <1>6, <3>2 DEF EcsMakeAlive, MakeAlive, SameAt
    <3> QED BY <3>1, <3>2
  <2>2. index' = Ensure(ix, e) /\ ~IdIsAlive(index, e.id)
    BY <1>6 DEF EcsMakeAlive
  <2> HIDE DEF ix
  <2>3. /\ IdIsAlive(index', e.id) /\ Exists(index', e.id) /\ Entry(index', e.id) = e
        /\ \A id \in Ids : id # e.id => SameAt(ix, index', id)
    BY <2>1, <2>2, EnsureEffect
  <2>4. \A id \in Ids : id # e.id => SameAt(index, index', id)
    BY <2>1, <2>3 DEF SameAt
  <2> QED BY <1>2, <2>2, <2>3, <2>4
<1>7. ASSUME NEW e \in Entities, EcsSetVersion(e) PROVE Abs!Next
  <2>1. /\ Exists(index, e.id) /\ Exists(index', e.id) /\ Entry(index', e.id) = e
        /\ IdIsAlive(index', e.id) <=> IdIsAlive(index, e.id)
        /\ \A id \in Ids : id # e.id => SameAt(index, index', id)
    BY <1>0, <1>7, MakeAliveEffect DEF EcsSetVersion
  <2>2. \A id \in EntityIds : id # e.id => Status(id)' = Status(id) /\ Version(id)' = Version(id)
    BY <2>1, StatusOfSame
  <2>3. Status(e.id)' = Status(e.id) /\ Status(e.id) # "unused" /\ Version(e.id)' = e.gen
    BY <2>1 DEF Status, Version
  <2>4. st' = st /\ ve' = [ve EXCEPT ![e.id] = e.gen] /\ st[e.id] # "unused"
    BY <2>2, <2>3, HandleFacts
  <2>5. Abs!Override(e.id, e.gen)
    BY <2>4 DEF Abs!Override
  <2>6. e.id \in Abs!EntityIds /\ e.gen \in Abs!Versions
    BY MaxIdAssumption DEF Entities, EntityIds, Ids, Gens, Abs!EntityIds, Abs!Versions
  <2> QED BY <2>5, <2>6 DEF Abs!Next
<1>8. ASSUME NEW e \in Entities, EcsDelete(e) PROVE Abs!Next
  <2>1. /\ IsAlive(index, e) /\ Exists(index', e.id) /\ ~IdIsAlive(index', e.id)
        /\ Entry(index', e.id) = GenerationInc(e)
        /\ \A id \in Ids : id # e.id => SameAt(index, index', id)
    BY <1>0, <1>8, RemoveEffect DEF EcsDelete
  <2>2. \A id \in EntityIds : id # e.id => Status(id)' = Status(id) /\ Version(id)' = Version(id)
    BY <2>1, StatusOfSame
  <2>3. GenerationInc(e).gen = IF e.gen = GenCount - 1 THEN 0 ELSE e.gen + 1
    BY DEF GenerationInc, Entities
  <2>4. /\ Status(e.id) = "alive" /\ Status(e.id)' = "dead" /\ Version(e.id) = e.gen
        /\ Version(e.id)' = IF e.gen = GenCount - 1 THEN 0 ELSE e.gen + 1
    BY <2>1, <2>3 DEF Status, Version, IsAlive, IdIsAlive
  <2>5. /\ st' = [st EXCEPT ![e.id] = "dead"]
        /\ ve' = [ve EXCEPT ![e.id] = IF e.gen = GenCount - 1 THEN 0 ELSE e.gen + 1]
        /\ st[e.id] = "alive" /\ ve[e.id] = e.gen
    BY <2>2, <2>4, HandleFacts
  <2>6. Abs!Delete(e.id, e.gen)
    BY <2>5 DEF Abs!Delete
  <2>7. e.id \in Abs!EntityIds /\ e.gen \in Abs!Versions
    BY MaxIdAssumption DEF Entities, EntityIds, Ids, Gens, Abs!EntityIds, Abs!Versions
  <2> QED BY <2>6, <2>7 DEF Abs!Next
<1>9. CASE UNCHANGED vars
  <2>1. index' = index
    BY <1>9 DEF vars
  <2>2. \A id \in EntityIds : Status(id)' = Status(id) /\ Version(id)' = Version(id)
    BY <2>1 DEF Status, Version
  <2>3. UNCHANGED Abs!hvars
    BY <2>2 DEF Abs!hvars
  <2> QED BY <2>3
<1> QED BY <1>3, <1>4, <1>5, <1>6, <1>7, <1>8, <1>9 DEF Next

(* The entity index implements the abstract table of handles.              *)
THEOREM Refinement == Spec => ImplementsHandles
<1>1. Init => Abs!Init
  <2> SUFFICES ASSUME Init PROVE Abs!Init
    OBVIOUS
  <2>1. \A id \in EntityIds : Status(id) = "unused" /\ Version(id) = 0
    BY HandleFacts DEF Init, EmptyIndex, Status, Version, IdIsAlive, Exists
  <2>2. EntityIds = Abs!EntityIds
    BY MaxIdAssumption DEF EntityIds, Ids, Abs!EntityIds
  <2> QED BY <2>1, <2>2 DEF Abs!Init
<1> QED BY <1>1, StepRefines, Invariance, PTL DEF Spec, ImplementsHandles, Abs!Spec
=============================================================================
