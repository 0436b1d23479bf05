-------------------------- MODULE IterStackProofs ---------------------------
(***************************************************************************)
(* Proofs about IterStack, for any number of iterators, pages and sizes,   *)
(* where only the innermost iterator allocates while it is advanced: the   *)
(* memory of an unfinished iterator stays below the stack pointer, the     *)
(* stack is empty when all are finished, and the iterators have an arena.  *)
(*                                                                         *)
(* The argument: cursors are in the order of their positions, the first    *)
(* one is at the bottom, and what an iterator was given is below every     *)
(* cursor that comes after its own. A cursor that is dropped comes after   *)
(* the cursors of all unfinished iterators.                                *)
(***************************************************************************)
EXTENDS IterStack, SequenceTheorems, FiniteSetTheorems, NaturalsInduction,
        WellFoundedInduction, TLAPS

Cursor == [it : Iters, page : Page, sp : 0..PageSize, is_free : BOOLEAN]

(* Places on the stack, ordered by page and by stack pointer.              *)
Before(p, a, q, b) == p < q \/ (p = q /\ a < b)
Beneath(b, q, a) == b.page < q \/ (b.page = q /\ b.to <= a)
Above(b, q, a) == b.page > q \/ (b.page = q /\ b.from >= a)

(* A stack that has a page, and what happens to it when memory is taken.   *)
Stacks == [pages : Nat, tail : Nat, sp : [Page -> 0..PageSize]]
Stack(s) ==
    /\ s \in Stacks
    /\ s.pages <= MaxPages /\ s.tail >= 1 /\ s.tail <= s.pages

Grown(s, t) == \/ s.tail < t.tail
               \/ s.tail = t.tail /\ s.sp[s.tail] <= t.sp[t.tail]

(* The cursors cs, in order, on a stack whose top is at t, a.              *)
Ordered(cs, t, a) ==
    /\ \A j, k \in 1..Len(cs) :
          j < k => Before(cs[j].page, cs[j].sp, cs[k].page, cs[k].sp)
    /\ \A k \in 1..Len(cs) : Before(cs[k].page, cs[k].sp, t, a)
    /\ cs # <<>> => cs[1].page = 1 /\ cs[1].sp = 0
    /\ cs = <<>> => t = 0 \/ (t = 1 /\ a = 0)

(* Every iterator of lv, and no other, has one active cursor.              *)
Owned(cs, lv) ==
    /\ \A i \in lv : \E k \in 1..Len(cs) : cs[k].it = i /\ ~cs[k].is_free
    /\ \A k \in 1..Len(cs) : ~cs[k].is_free => cs[k].it \in lv
    /\ \A j, k \in 1..Len(cs) :
          ~cs[j].is_free /\ ~cs[k].is_free /\ cs[j].it = cs[k].it => j = k

(* The memory of an iterator is below the top and the later cursors.       *)
Kept(cs, m, t, a) ==
    \A k \in 1..Len(cs) : ~cs[k].is_free =>
        \A n \in 1..Len(m[cs[k].it]) :
            /\ Beneath(m[cs[k].it][n], t, a)
            /\ \A l \in 1..Len(cs) :
                  k < l => Beneath(m[cs[k].it][n], cs[l].page, cs[l].sp)

(* The large allocations of the iterators, numbered.                       *)
Parts(L) == {x \in Iters \X Nat : x[2] >= 1 /\ x[2] <= L[x[1]]}

TopSp == IF tail_page = 0 THEN 0 ELSE sp[tail_page]

Counts ==
    /\ IsFiniteSet(live) /\ cursor_count = Cardinality(live)
    /\ IsFiniteSet(Parts(large)) /\ oversized_count = Cardinality(Parts(large))
    /\ \A i \in Iters \ live : mem[i] = <<>> /\ large[i] = 0

IInv ==
    /\ TypeOK /\ asserted = TRUE /\ TailIsActive
    /\ Ordered(cursors, tail_page, TopSp)
    /\ Owned(cursors, live)
    /\ Kept(cursors, mem, tail_page, TopSp)
    /\ Counts

(* Aligning moves up.                                                      *)
LEMMA AlignedUp ==
    ASSUME NEW n \in Nat, NEW a \in Nat \ {0}
    PROVE  Aligned(n, a) \in Nat /\ Aligned(n, a) >= n
BY DEF Aligned

(* The top of a stack.                                                     *)
LEMMA TopOf ==
    ASSUME NEW s, Stack(s)
    PROVE  s.tail \in Page /\ s.tail \in Nat /\ s.sp[s.tail] \in Nat /\ s.sp[s.tail] \in 0..PageSize
<1>1. s.tail \in Nat /\ s.pages \in Nat /\ s.sp \in [Page -> 0..PageSize]
  BY DEF Stack, Stacks
<1>2. s.tail \in Page
  BY <1>1, StackAssumption DEF Stack, Page
<1> QED BY <1>1, <1>2, StackAssumption

(* flecs_stack_alloc gives a block between the old and the new top.        *)
LEMMA AllocTakes ==
    ASSUME NEW s, Stack(s), s.tail + 1 <= MaxPages,
           NEW size \in Nat \ {0}, size <= PageSize, NEW align \in Nat \ {0}
    PROVE  LET a == Alloc(s, size, align)
           IN  /\ Stack(a.stack) /\ a.stack.tail <= s.tail + 1
               /\ Grown(s, a.stack) /\ a.block \in Block
               /\ Above(a.block, s.tail, s.sp[s.tail])
               /\ Beneath(a.block, a.stack.tail, a.stack.sp[a.stack.tail])
               /\ Before(s.tail, s.sp[s.tail], a.stack.tail, a.stack.sp[a.stack.tail])
<1>1. PICK t \in Nat : t = s.tail
  BY DEF Stack, Stacks
<1>2. PICK n \in Nat : n = s.pages
  BY DEF Stack, Stacks
<1>3. PICK f \in [Page -> 0..PageSize] : f = s.sp
  BY DEF Stack, Stacks
<1>4. t >= 1 /\ t <= n /\ n <= MaxPages /\ t + 1 <= MaxPages /\ t \in Page /\ t + 1 \in Page
  BY <1>1, <1>2, StackAssumption DEF Stack, Page
<1>5. f[t] \in Nat /\ f[t] <= PageSize
  BY <1>4, StackAssumption
<1>6. PICK from \in Nat : from = Aligned(f[t], align) /\ from >= f[t]
  BY <1>5, AlignedUp
<1>7. EnsurePage(s) = s
  BY <1>1, <1>4 DEF EnsurePage
<1>8. CASE from + size <= PageSize
  <2>1. Alloc(s, size, align) =
          [stack |-> [pages |-> IF t > n THEN t ELSE n, tail |-> t,
                      sp |-> [f EXCEPT ![t] = from + size]],
           block |-> [page |-> t, from |-> from, to |-> from + size]]
    BY <1>1, <1>2, <1>3, <1>6, <1>7, <1>8 DEF Alloc
  <2>2. PICK g : g = [f EXCEPT ![t] = from + size]
    OBVIOUS
  <2>3. g \in [Page -> 0..PageSize] /\ g[t] = from + size
    BY <1>4, <1>6, <1>8, <2>2, StackAssumption
  <2>4. PICK a : a = Alloc(s, size, align)
    OBVIOUS
  <2>m. PICK m : m = IF t > n THEN t ELSE n
    OBVIOUS
  <2>n. m = n
    BY <1>4, <2>m
  <2>p. /\ a.stack = [pages |-> m, tail |-> t, sp |-> g]
        /\ a.block = [page |-> t, from |-> from, to |-> from + size]
    BY <2>1, <2>2, <2>4, <2>m
  <2>5. /\ a.stack = [pages |-> n, tail |-> t, sp |-> g]
        /\ a.block = [page |-> t, from |-> from, to |-> from + size]
    BY <2>n, <2>p
  <2>6. a.block \in Block
    BY <1>4, <1>6, <1>8, <2>5, StackAssumption DEF Block
  <2>7. Stack(a.stack)
    BY <1>4, <2>3, <2>5 DEF Stack, Stacks
  <2> QED BY <1>1, <1>3, <1>4, <1>5, <1>6, <2>3, <2>4, <2>5, <2>6, <2>7
        DEF Grown, Above, Beneath, Before
<1>9. CASE ~(from + size <= PageSize)
  <2>1. Alloc(s, size, align) =
          [stack |-> [pages |-> IF t + 1 > n THEN t + 1 ELSE n, tail |-> t + 1,
                      sp |-> [f EXCEPT ![t + 1] = 0 + size]],
           block |-> [page |-> t + 1, from |-> 0, to |-> 0 + size]]
    BY <1>1, <1>2, <1>3, <1>6, <1>7, <1>9 DEF Alloc
  <2>2. PICK g : g = [f EXCEPT ![t + 1] = 0 + size]
    OBVIOUS
  <2>3. g \in [Page -> 0..PageSize] /\ g[t + 1] = size
    BY <1>4, <2>2, StackAssumption
  <2>4. PICK a : a = Alloc(s, size, align)
    OBVIOUS
  <2>5. PICK m : m = IF t + 1 > n THEN t + 1 ELSE n
    OBVIOUS
  <2>6. m \in Nat /\ m <= MaxPages /\ t + 1 <= m
    BY <1>4, <2>5
  <2>7. /\ a.stack = [pages |-> m, tail |-> t + 1, sp |-> g]
        /\ a.block = [page |-> t + 1, from |-> 0, to |-> size]
    BY <2>1, <2>2, <2>4, <2>5
  <2>8. a.block \in Block
    BY <1>4, <2>7, StackAssumption DEF Block
  <2>9. Stack(a.stack)
    BY <1>4, <2>3, <2>6, <2>7 DEF Stack, Stacks
  <2> QED BY <1>1, <1>3, <1>4, <1>5, <2>3, <2>4, <2>7, <2>8, <2>9
        DEF Grown, Above, Beneath, Before
<1> QED BY <1>8, <1>9

(* A new cursor has the position of the old top, and a block above it.     *)
LEMMA GetCursorTakes ==
    ASSUME NEW n \in Nat, NEW t \in Nat, NEW f \in [Page -> 0..PageSize], NEW i,
           n <= MaxPages, t <= n, t + 1 <= MaxPages
    PROVE  LET c == GetCursor([pages |-> n, tail |-> t, sp |-> f], i)
               q == IF t = 0 THEN 1 ELSE t
               a == IF t = 0 THEN 0 ELSE f[t]
           IN  /\ Stack(c.stack) /\ c.stack.tail <= t + 1 /\ c.block \in Block
               /\ c.cursor = [it |-> i, page |-> q, sp |-> a, is_free |-> FALSE]
               /\ q \in Page /\ a \in 0..PageSize
               /\ Above(c.block, q, a)
               /\ Beneath(c.block, c.stack.tail, c.stack.sp[c.stack.tail])
               /\ Before(q, a, c.stack.tail, c.stack.sp[c.stack.tail])
<1>1. PICK s0 : s0 = [pages |-> n, tail |-> t, sp |-> f]
  OBVIOUS
<1>2. PICK s : s = EnsurePage(s0)
  OBVIOUS
<1>3. CASE t # 0
  <2>1. s = s0 /\ s.tail = t /\ s.sp = f
    BY <1>1, <1>2, <1>3 DEF EnsurePage
  <2>2. Stack(s) /\ s.tail + 1 <= MaxPages
    BY <1>1, <1>3, <2>1 DEF Stack, Stacks
  <2>3. PICK b : b = Alloc(s, CursorSize, 1)
    OBVIOUS
  <2>4. CursorSize \in Nat \ {0} /\ CursorSize <= PageSize /\ 1 \in Nat \ {0}
    BY StackAssumption DEF CursorSize
  <2>5. /\ Stack(b.stack) /\ b.stack.tail <= s.tail + 1 /\ b.block \in Block
        /\ Above(b.block, s.tail, s.sp[s.tail])
        /\ Beneath(b.block, b.stack.tail, b.stack.sp[b.stack.tail])
        /\ Before(s.tail, s.sp[s.tail], b.stack.tail, b.stack.sp[b.stack.tail])
    BY <2>2, <2>3, <2>4, AllocTakes
  <2>6. PICK c : c = GetCursor(s0, i)
    OBVIOUS
  <2>7. /\ c.stack = b.stack /\ c.block = b.block
        /\ c.cursor = [it |-> i, page |-> s.tail, sp |-> s.sp[s.tail], is_free |-> FALSE]
    BY <1>2, <2>3, <2>6 DEF GetCursor
  <2>8. t \in Page /\ f[t] \in 0..PageSize
    BY <1>3, StackAssumption DEF Page
  <2> QED BY <1>1, <1>3, <2>1, <2>5, <2>6, <2>7, <2>8
<1>4. CASE t = 0
  <2>1. 1 \in Page
    BY StackAssumption DEF Page
  <2>2. PICK g : g = [f EXCEPT ![1] = 0]
    OBVIOUS
  <2>3. g \in [Page -> 0..PageSize] /\ g[1] = 0
    BY <2>1, <2>2, StackAssumption
  <2>4. s = [pages |-> 1, tail |-> 1, sp |-> g]
    BY <1>1, <1>2, <1>4, <2>2 DEF EnsurePage
  <2>5. PICK b : b = Alloc(s, CursorSize, 1)
    OBVIOUS
  <2>6. EnsurePage(s) = s
    BY <2>4 DEF EnsurePage
  <2>7. Aligned(0, 1) = 0
    BY DEF Aligned
  <2>8. b = [stack |-> [pages |-> IF 1 > 1 THEN 1 ELSE 1, tail |-> 1,
                        sp |-> [g EXCEPT ![1] = 0 + 1]],
             block |-> [page |-> 1, from |-> 0, to |-> 0 + 1]]
    BY <2>3, <2>4, <2>5, <2>6, <2>7, StackAssumption DEF Alloc, CursorSize
  <2>9. PICK h : h = [g EXCEPT ![1] = 1]
    OBVIOUS
  <2>10. h \in [Page -> 0..PageSize] /\ h[1] = 1
    BY <2>1, <2>3, <2>9, StackAssumption
  <2>11. /\ b.stack = [pages |-> 1, tail |-> 1, sp |-> h]
         /\ b.block = [page |-> 1, from |-> 0, to |-> 1]
    BY <2>8, <2>9
  <2>12. Stack(b.stack)
    BY <2>10, <2>11, StackAssumption DEF Stack, Stacks
  <2>13. b.block \in Block
    BY <2>1, <2>11, StackAssumption DEF Block
  <2>14. PICK c : c = GetCursor(s0, i)
    OBVIOUS
  <2>15. /\ c.stack = b.stack /\ c.block = b.block
         /\ c.cursor = [it |-> i, page |-> s.tail, sp |-> s.sp[s.tail], is_free |-> FALSE]
    BY <1>2, <2>5, <2>14 DEF GetCursor
  <2>16. c.cursor = [it |-> i, page |-> 1, sp |-> 0, is_free |-> FALSE]
    BY <2>3, <2>4, <2>15
  <2>17. 0 \in 0..PageSize
    BY StackAssumption
  <2> QED BY <1>1, <1>4, <2>1, <2>10, <2>11, <2>12, <2>13, <2>14, <2>15, <2>16, <2>17
        DEF Above, Beneath, Before
<1> QED BY <1>3, <1>4

(* A nonempty set of numbers has a least one.                              *)
LEMMA Least ==
    ASSUME NEW S \in SUBSET Nat, S # {}
    PROVE  \E m \in S : \A k \in S : m <= k
<1> DEFINE Less == {ss \in Nat \X Nat : ss[1] < ss[2]}
<1>1. IsWellFoundedOn(Less, Nat)
  BY NatLessThanWellFounded, Zenon DEF OpToRel
<1>2. PICK x \in S : \A y \in S : ~(<<y, x>> \in Less)
  BY <1>1, WFMin, Zenon
<1>3. ASSUME NEW k \in S PROVE x <= k
  <2>1. x \in Nat /\ k \in Nat /\ <<k, x>> \in Nat \X Nat
    OBVIOUS
  <2>2. k < x => <<k, x>> \in Less
    BY <2>1
  <2> QED BY <1>2, <2>1, <2>2
<1> QED BY <1>3

(* The states of the stack while n requests are served, one by one.        *)
IsServed(s, rs, n, f) ==
    f = [k \in 0..n |-> IF k = 0 THEN [stack |-> s, blocks |-> <<>>, large |-> 0]
                        ELSE Serve(f[k - 1], rs[k])]

(* There are such states.                                                  *)
LEMMA ServedExist ==
    ASSUME NEW s, NEW rs, NEW n \in Nat
    PROVE  \E f : IsServed(s, rs, n, f)
<1> DEFINE S == {m \in Nat : ~ \E f : IsServed(s, rs, m, f)}
           base == [stack |-> s, blocks |-> <<>>, large |-> 0]
<1> SUFFICES ASSUME S # {} PROVE FALSE
  OBVIOUS
<1>1. PICK m \in S : \A k \in S : m <= k
  <2>1. S \in SUBSET Nat
    OBVIOUS
  <2> HIDE DEF S
  <2> QED BY <2>1, Least
<1>2. CASE m = 0
  <2> DEFINE f == [k \in 0..0 |-> base]
  <2>1. IsServed(s, rs, 0, f)
    BY DEF IsServed
  <2> QED BY <1>2, <2>1
<1>3. CASE m # 0
  <2>1. m - 1 \in Nat /\ m - 1 \notin S
    BY <1>1, <1>3
  <2>2. PICK f : IsServed(s, rs, m - 1, f)
    BY <2>1
  <2> DEFINE h == [k \in 0..m |-> IF k = 0 THEN base ELSE Serve(f[k - 1], rs[k])]
  <2>3. \A k \in 0..(m - 1) : h[k] = f[k]
    BY <2>1, <2>2 DEF IsServed
  <2>4. \A k \in 0..m : k # 0 => k - 1 \in 0..(m - 1)
    BY <2>1
  <2>5. IsServed(s, rs, m, h)
    BY <2>3, <2>4 DEF IsServed
  <2> QED BY <2>5
<1> QED BY <1>2, <1>3

(* The recursive definition of the model has them.                         *)
LEMMA ServedFacts ==
    ASSUME NEW s, NEW rs, Len(rs) \in Nat
    PROVE  IsServed(s, rs, Len(rs), Served(s, rs))
<1>1. PICK n \in Nat : n = Len(rs)
  OBVIOUS
<1>2. Served(s, rs) = CHOOSE f : IsServed(s, rs, n, f)
  BY <1>1 DEF Served, IsServed
<1> QED BY <1>1, <1>2, ServedExist, Zenon

(* What k requests can have done to a stack s.                             *)
Given(s, x, k) ==
    /\ x \in [stack : Stacks, blocks : Seq(Block), large : Nat]
    /\ Stack(x.stack) /\ x.stack.tail <= s.tail + k /\ Grown(s, x.stack)
    /\ \A j \in 1..Len(x.blocks) :
          /\ Above(x.blocks[j], s.tail, s.sp[s.tail])
          /\ Beneath(x.blocks[j], x.stack.tail, x.stack.sp[x.stack.tail])

(* One more request.                                                       *)
LEMMA ServeGives ==
    ASSUME NEW s, Stack(s), NEW x, NEW k \in Nat, Given(s, x, k),
           s.tail + k + 1 <= MaxPages, NEW r \in Requests
    PROVE  Given(s, Serve(x, r), k + 1)
<1>1. s \in Stacks /\ s.tail \in Nat /\ s.sp[s.tail] \in Nat
  BY TopOf DEF Stack
<1>2. CASE TooLarge(r)
  <2>1. PICK y : y = Serve(x, r)
    OBVIOUS
  <2>2. y = [x EXCEPT !.large = @ + 1]
    BY <1>2, <2>1 DEF Serve
  <2>3. y \in [stack : Stacks, blocks : Seq(Block), large : Nat]
    BY <2>2, SMTT(30) DEF Given
  <2>4. y.stack = x.stack /\ y.blocks = x.blocks
    BY <2>2 DEF Given
  <2>5. x.stack.tail \in Nat
    BY TopOf DEF Given
  <2>6. y.stack.tail <= s.tail + (k + 1)
    BY <1>1, <2>4, <2>5 DEF Given
  <2> QED BY <2>1, <2>3, <2>4, <2>6 DEF Given
<1>3. CASE ~TooLarge(r)
  <2>1. r[1] \in Nat \ {0} /\ r[1] <= PageSize /\ r[2] \in Nat \ {0}
    <3>1. r[1] \in Sizes /\ r[2] \in Aligns
      BY DEF Requests
    <3>2. r[1] \in Nat \ {0} /\ r[2] \in Nat \ {0}
      BY <3>1, StackAssumption
    <3> QED BY <1>3, <3>2, StackAssumption DEF TooLarge
  <2>2. PICK t : t = x.stack
    OBVIOUS
  <2>3. Stack(t) /\ t.tail \in Nat /\ t.tail <= s.tail + k /\ Grown(s, t)
    BY <2>2, TopOf DEF Given
  <2>4. t.tail + 1 <= MaxPages
    BY <1>1, <2>3, StackAssumption
  <2>5. PICK a : a = Alloc(t, r[1], r[2])
    OBVIOUS
  <2>6. /\ Stack(a.stack) /\ a.stack.tail <= t.tail + 1
        /\ Grown(t, a.stack) /\ a.block \in Block
        /\ Above(a.block, t.tail, t.sp[t.tail])
        /\ Beneath(a.block, a.stack.tail, a.stack.sp[a.stack.tail])
    BY <2>1, <2>3, <2>4, <2>5, AllocTakes
  <2>7. PICK y : y = Serve(x, r)
    OBVIOUS
  <2>8. y = [x EXCEPT !.stack = a.stack, !.blocks = Append(@, a.block)]
    BY <1>3, <2>2, <2>5, <2>7 DEF Serve
  <2>9. /\ x \in [stack : Stacks, blocks : Seq(Block), large : Nat]
        /\ x.blocks \in Seq(Block)
    BY DEF Given
  <2>10. a.stack \in Stacks
    BY <2>6 DEF Stack, Stacks
  <2>11. y.stack = a.stack /\ y.blocks = Append(x.blocks, a.block)
    BY <2>8, <2>9
  <2>12. Append(x.blocks, a.block) \in Seq(Block)
    BY <2>6, <2>9
  <2>13. y \in [stack : Stacks, blocks : Seq(Block), large : Nat]
    BY <2>8, <2>9, <2>10, <2>12
  <2>14. PICK p \in Nat, u \in Nat : p = s.tail /\ u = s.sp[s.tail]
    BY <1>1
  <2>15. PICK q \in Nat, v \in Nat : q = t.tail /\ v = t.sp[t.tail]
    BY <2>3, TopOf
  <2>16. PICK z \in Nat, w \in Nat : z = a.stack.tail /\ w = a.stack.sp[a.stack.tail]
    BY <2>6, TopOf
  <2>17. /\ p < q \/ (p = q /\ u <= v)
         /\ q < z \/ (q = z /\ v <= w)
         /\ q <= p + k /\ z <= q + 1
    BY <2>3, <2>6, <2>14, <2>15, <2>16 DEF Grown
  <2>18. y.stack.tail <= s.tail + (k + 1) /\ Grown(s, y.stack)
    <3>1. z <= p + (k + 1) /\ (p < z \/ (p = z /\ u <= w))
      BY <2>17
    <3> QED BY <2>11, <2>14, <2>16, <3>1 DEF Grown
  <2>19. ASSUME NEW j \in 1..Len(y.blocks)
         PROVE  Above(y.blocks[j], p, u) /\ Beneath(y.blocks[j], z, w)
    <3>1. PICK b : b = y.blocks[j]
      OBVIOUS
    <3>2. b \in Block /\ b.page \in Nat /\ b.from \in Nat /\ b.to \in Nat
      <4>1. b \in Block
        BY <2>11, <2>12, <3>1
      <4> QED BY <4>1, StackAssumption DEF Block, Page
    <3>3. CASE j = Len(x.blocks) + 1
      <4>1. b = a.block
        BY <2>9, <2>11, <3>1, <3>3
      <4>2. Above(b, q, v) /\ Beneath(b, z, w)
        BY <2>6, <2>15, <2>16, <4>1
      <4> QED BY <2>17, <3>1, <3>2, <4>2, SMTT(30) DEF Above
    <3>4. CASE j # Len(x.blocks) + 1
      <4>1. j \in 1..Len(x.blocks) /\ b = x.blocks[j]
        BY <2>9, <2>11, <3>1, <3>4
      <4>2. Above(b, p, u) /\ Beneath(b, q, v)
        BY <2>2, <2>14, <2>15, <4>1 DEF Given
      <4> QED BY <2>17, <3>1, <3>2, <4>2, SMTT(30) DEF Beneath
    <3> QED BY <3>3, <3>4
  <2> QED BY <2>6, <2>7, <2>11, <2>13, <2>14, <2>16, <2>18, <2>19 DEF Given
<1> QED BY <1>2, <1>3

(* All the requests of an iterator.                                        *)
LEMMA ServeAllGives ==
    ASSUME NEW s, Stack(s), NEW n \in Nat, NEW rs \in [1..n -> Requests],
           s.tail + n <= MaxPages
    PROVE  Given(s, ServeAll(s, rs), n)
<1> DEFINE S == {k \in Nat : k <= n /\ ~Given(s, Served(s, rs)[k], k)}
<1>1. rs \in Seq(Requests) /\ Len(rs) = n
  OBVIOUS
<1>2. PICK f : f = Served(s, rs) /\ IsServed(s, rs, n, f)
  BY <1>1, ServedFacts
<1>3. /\ f[0] = [stack |-> s, blocks |-> <<>>, large |-> 0]
      /\ \A k \in 1..n : f[k] = Serve(f[k - 1], rs[k])
  BY <1>2 DEF IsServed
<1>4. ASSUME S # {} PROVE FALSE
  <2>1. PICK m \in S : \A k \in S : m <= k
    <3>1. S \in SUBSET Nat
      OBVIOUS
    <3> HIDE DEF S
    <3> QED BY <1>4, <3>1, Least
  <2>2. m \in Nat /\ m <= n /\ ~Given(s, f[m], m)
    BY <1>2
  <2>3. CASE m = 0
    <3>1. s \in Stacks /\ s.tail \in Nat /\ s.sp[s.tail] \in Nat
      BY TopOf DEF Stack
    <3>2. PICK x : x = f[0]
      OBVIOUS
    <3>3. /\ x \in [stack : Stacks, blocks : Seq(Block), large : Nat]
          /\ x.stack = s /\ Len(x.blocks) = 0
      BY <1>3, <3>1, <3>2
    <3>4. Grown(s, s) /\ s.tail <= s.tail + 0
      BY <3>1 DEF Grown
    <3>5. Given(s, x, 0)
      BY <3>3, <3>4 DEF Given
    <3> QED BY <2>2, <2>3, <3>2, <3>5
  <2>4. CASE m # 0
    <3>1. PICK k \in Nat : m = k + 1
      BY <2>2, <2>4
    <3>2. k <= n /\ ~(m <= k) /\ m \in 1..n /\ m - 1 = k
      BY <2>2, <3>1
    <3>3. Given(s, f[k], k)
      BY <1>2, <2>1, <3>2
    <3>4. f[m] = Serve(f[k], rs[m]) /\ rs[m] \in Requests
      BY <1>3, <3>2
    <3>5. s.tail + k + 1 <= MaxPages
      BY <2>2, <3>1, StackAssumption DEF Stack, Stacks
    <3>6. Given(s, f[m], k + 1)
      BY <3>3, <3>4, <3>5, ServeGives
    <3> QED BY <2>2, <3>1, <3>6
  <2> QED BY <2>3, <2>4
<1>5. n <= n
  OBVIOUS
<1> QED BY <1>1, <1>4, <1>5 DEF ServeAll

-----------------------------------------------------------------------------
(* What the type of cursors says about one of them.                        *)
LEMMA CursorFacts ==
    ASSUME NEW cs \in Seq(Cursor), NEW k \in 1..Len(cs)
    PROVE  /\ cs[k] \in Cursor /\ cs[k].page \in Nat /\ cs[k].sp \in Nat
           /\ cs[k].page >= 1 /\ cs[k].page \in Page /\ cs[k].it \in Iters
<1>1. cs[k] \in Cursor
  OBVIOUS
<1> QED BY <1>1, StackAssumption DEF Cursor, Page

(* A cursor that is taken comes after the others.                          *)
LEMMA AppendOrdered ==
    ASSUME NEW cs \in Seq(Cursor), NEW t \in Nat, NEW a \in Nat, Ordered(cs, t, a),
           NEW c \in Cursor, t = 0 => c.page = 1 /\ c.sp = 0,
           t # 0 => c.page = t /\ c.sp = a,
           NEW t2 \in Nat, NEW a2 \in Nat, Before(c.page, c.sp, t2, a2)
    PROVE  Ordered(Append(cs, c), t2, a2)
<1>1. PICK n \in Nat : n = Len(cs)
  OBVIOUS
<1>2. PICK ds : ds = Append(cs, c)
  OBVIOUS
<1>3. /\ Len(ds) = n + 1 /\ ds[n + 1] = c /\ ds # <<>>
      /\ \A k \in 1..n : ds[k] = cs[k]
  BY <1>1, <1>2
<1>4. c.page \in Nat /\ c.sp \in Nat
  BY StackAssumption DEF Cursor, Page
<1>5. ASSUME NEW k \in 1..n
      PROVE  /\ Before(cs[k].page, cs[k].sp, c.page, c.sp)
             /\ Before(cs[k].page, cs[k].sp, t2, a2)
  <2>1. PICK p \in Nat, u \in Nat : p = cs[k].page /\ u = cs[k].sp /\ p >= 1
    BY <1>1, CursorFacts
  <2>2. Before(p, u, t, a)
    BY <1>1, <2>1 DEF Ordered
  <2>3. t # 0 /\ c.page = t /\ c.sp = a
    BY <2>1, <2>2 DEF Before
  <2>4. Before(p, u, c.page, c.sp)
    BY <2>2, <2>3
  <2>5. Before(p, u, t2, a2)
    BY <1>4, <2>1, <2>4, SMTT(30) DEF Before
  <2> QED BY <2>1, <2>4, <2>5
<1>6. ASSUME NEW j \in 1..(n + 1), NEW k \in 1..(n + 1), j < k
      PROVE  Before(ds[j].page, ds[j].sp, ds[k].page, ds[k].sp)
  <2>1. j \in 1..n /\ ds[j] = cs[j]
    BY <1>1, <1>3, <1>6
  <2>2. CASE k = n + 1
    BY <1>3, <1>5, <2>1, <2>2
  <2>3. CASE k # n + 1
    <3>1. k \in 1..n /\ ds[k] = cs[k]
      BY <1>1, <1>3, <2>3
    <3> QED BY <1>1, <1>6, <2>1, <3>1 DEF Ordered
  <2> QED BY <2>2, <2>3
<1>7. ASSUME NEW k \in 1..(n + 1)
      PROVE  Before(ds[k].page, ds[k].sp, t2, a2)
  <2>1. k = n + 1 \/ k \in 1..n
    BY <1>1
  <2> QED BY <1>3, <1>5, <2>1
<1>8. ds[1].page = 1 /\ ds[1].sp = 0
  <2>1. CASE n = 0
    <3>1. cs = <<>>
      BY <1>1, <2>1, EmptySeq
    <3>2. ds[1] = c
      BY <1>3, <2>1
    <3> QED BY <3>1, <3>2 DEF Ordered
  <2>2. CASE n # 0
    <3>1. 1 \in 1..n /\ cs # <<>>
      BY <1>1, <2>2
    <3> QED BY <1>3, <3>1 DEF Ordered
  <2> QED BY <2>1, <2>2
<1> QED BY <1>2, <1>3, <1>6, <1>7, <1>8 DEF Ordered

(* More memory leaves the cursors in order.                                *)
LEMMA GrowOrdered ==
    ASSUME NEW cs \in Seq(Cursor), cs # <<>>, NEW t \in Nat, NEW a \in Nat, Ordered(cs, t, a),
           NEW t2 \in Nat, NEW a2 \in Nat, t < t2 \/ (t = t2 /\ a <= a2)
    PROVE  Ordered(cs, t2, a2)
<1>1. ASSUME NEW k \in 1..Len(cs)
      PROVE  Before(cs[k].page, cs[k].sp, t2, a2)
  <2>1. PICK p \in Nat, u \in Nat : p = cs[k].page /\ u = cs[k].sp
    BY CursorFacts
  <2>2. Before(p, u, t, a)
    BY <2>1 DEF Ordered
  <2>3. Before(p, u, t2, a2)
    BY <2>2 DEF Before
  <2> QED BY <2>1, <2>3
<1> QED BY <1>1 DEF Ordered

(* The cursors before number f, with the top where cursor f was taken.     *)
LEMMA CutOrdered ==
    ASSUME NEW cs \in Seq(Cursor), NEW t, NEW a, Ordered(cs, t, a), NEW f \in 1..Len(cs)
    PROVE  Ordered(SubSeq(cs, 1, f - 1), cs[f].page, cs[f].sp)
<1>1. PICK n \in Nat : n = f - 1 /\ n < f /\ n < Len(cs) /\ n + 1 = f
  OBVIOUS
<1>2. PICK ds : ds = SubSeq(cs, 1, n)
  OBVIOUS
<1>3. /\ ds \in Seq(Cursor) /\ Len(ds) = n /\ \A k \in 1..n : ds[k] = cs[k]
      /\ \A k \in 1..n : k \in 1..Len(cs) /\ k < f
  BY <1>1, <1>2
<1>4. \A j, k \in 1..n : j < k => Before(ds[j].page, ds[j].sp, ds[k].page, ds[k].sp)
  BY <1>3 DEF Ordered
<1>5. \A k \in 1..n : Before(ds[k].page, ds[k].sp, cs[f].page, cs[f].sp)
  BY <1>3 DEF Ordered
<1>6. ds # <<>> => ds[1].page = 1 /\ ds[1].sp = 0
  <2>1. ASSUME ds # <<>> PROVE 1 \in 1..n /\ cs # <<>>
    BY <1>1, <1>3, <2>1
  <2> QED BY <1>3, <2>1 DEF Ordered
<1>7. ds = <<>> => cs[f].page = 1 /\ cs[f].sp = 0
  <2>1. ASSUME ds = <<>> PROVE f = 1 /\ cs # <<>>
    BY <1>1, <1>3, <2>1
  <2> QED BY <2>1 DEF Ordered
<1> QED BY <1>1, <1>2, <1>3, <1>4, <1>5, <1>6, <1>7 DEF Ordered

(* What the type of the memory says about one block.                       *)
LEMMA BlockFacts ==
    ASSUME NEW bs \in Seq(Block), NEW n \in 1..Len(bs)
    PROVE  /\ bs[n] \in Block /\ bs[n].page \in Nat /\ bs[n].page >= 1
           /\ bs[n].from \in Nat /\ bs[n].to \in Nat
<1>1. bs[n] \in Block
  OBVIOUS
<1> QED BY <1>1, StackAssumption DEF Block, Page

(* A block that is below a place is below every later one.                 *)
LEMMA BeneathLater ==
    ASSUME NEW b, b.page \in Nat, b.to \in Nat, NEW t \in Nat, NEW a \in Nat, Beneath(b, t, a),
           NEW t2 \in Nat, NEW a2 \in Nat, t < t2 \/ (t = t2 /\ a <= a2)
    PROVE  Beneath(b, t2, a2)
<1>1. PICK p \in Nat, u \in Nat : p = b.page /\ u = b.to
  OBVIOUS
<1>2. p < t \/ (p = t /\ u <= a)
  BY <1>1 DEF Beneath
<1>3. p < t2 \/ (p = t2 /\ u <= a2)
  BY <1>2
<1> QED BY <1>1, <1>3 DEF Beneath

(* The new iterator has the new cursor.                                    *)
LEMMA AppendOwned ==
    ASSUME NEW cs \in Seq(Cursor), NEW lv, Owned(cs, lv), NEW i, i \notin lv,
           NEW c \in Cursor, c.it = i, c.is_free = FALSE
    PROVE  Owned(Append(cs, c), lv \cup {i})
<1>1. PICK n \in Nat : n = Len(cs)
  OBVIOUS
<1>2. PICK ds : ds = Append(cs, c)
  OBVIOUS
<1>3. Len(ds) = n + 1 /\ ds[n + 1] = c /\ n + 1 \in 1..(n + 1)
  BY <1>1, <1>2
<1>4. \A k \in 1..n : ds[k] = cs[k] /\ k \in 1..(n + 1)
  BY <1>1, <1>2
<1>5. \A k \in 1..(n + 1) : k = n + 1 \/ k \in 1..n
  BY <1>1
<1>6. \A j \in lv \cup {i} : \E k \in 1..(n + 1) : ds[k].it = j /\ ~ds[k].is_free
  <2>1. ASSUME NEW j \in lv PROVE \E k \in 1..(n + 1) : ds[k].it = j /\ ~ds[k].is_free
    <3>1. PICK k \in 1..n : cs[k].it = j /\ ~cs[k].is_free
      BY <1>1 DEF Owned
    <3> QED BY <1>4, <3>1
  <2> QED BY <1>3, <2>1
<1>7. \A k \in 1..(n + 1) : ~ds[k].is_free => ds[k].it \in lv \cup {i}
  BY <1>1, <1>3, <1>4, <1>5 DEF Owned
<1>8. ASSUME NEW j \in 1..(n + 1), NEW k \in 1..(n + 1),
             ~ds[j].is_free, ~ds[k].is_free, ds[j].it = ds[k].it
      PROVE  j = k
  <2>1. \A l \in 1..n : ~ds[l].is_free => ds[l].it # i
    BY <1>1, <1>4 DEF Owned
  <2>2. ds[n + 1].it = i
    BY <1>3
  <2> QED BY <1>1, <1>4, <1>5, <1>8, <2>1, <2>2 DEF Owned
<1> QED BY <1>2, <1>3, <1>6, <1>7, <1>8 DEF Owned

(* Memory that is taken with a new cursor.                                 *)
LEMMA AppendKept ==
    ASSUME NEW cs \in Seq(Cursor), NEW m \in [Iters -> Seq(Block)],
           NEW t \in Nat, NEW a \in Nat, Ordered(cs, t, a), Kept(cs, m, t, a),
           NEW lv, Owned(cs, lv), NEW i \in Iters, i \notin lv,
           NEW c \in Cursor, c.it = i, t # 0 => c.page = t /\ c.sp = a,
           NEW t2 \in Nat, NEW a2 \in Nat, Before(c.page, c.sp, t2, a2),
           NEW bs \in Seq(Block), \A n \in 1..Len(bs) : Beneath(bs[n], t2, a2)
    PROVE  Kept(Append(cs, c), [m EXCEPT ![i] = bs], t2, a2)
<1>1. PICK n \in Nat : n = Len(cs)
  OBVIOUS
<1>2. PICK ds : ds = Append(cs, c)
  OBVIOUS
<1>3. Len(ds) = n + 1 /\ ds[n + 1] = c
  BY <1>1, <1>2
<1>4. \A k \in 1..n : ds[k] = cs[k]
  BY <1>1, <1>2
<1>5. PICK m2 : m2 = [m EXCEPT ![i] = bs]
  OBVIOUS
<1>6. m2[i] = bs /\ \A j \in Iters : j # i => m2[j] = m[j]
  BY <1>5
<1>7. ASSUME NEW k \in 1..(n + 1), ~ds[k].is_free, NEW x \in 1..Len(m2[ds[k].it])
      PROVE  /\ Beneath(m2[ds[k].it][x], t2, a2)
             /\ \A l \in 1..(n + 1) : k < l => Beneath(m2[ds[k].it][x], ds[l].page, ds[l].sp)
  <2>1. CASE k = n + 1
    <3>1. m2[ds[k].it] = bs
      BY <1>3, <1>6, <2>1
    <3>2. \A l \in 1..(n + 1) : ~(k < l)
      BY <1>1, <2>1
    <3> QED BY <1>7, <3>1, <3>2
  <2>2. CASE k # n + 1
    <3>1. k \in 1..n /\ ds[k] = cs[k] /\ k \in 1..Len(cs)
      BY <1>1, <1>4, <2>2
    <3>2. cs[k].it \in lv /\ cs[k].it \in Iters
      BY <1>7, <3>1, CursorFacts DEF Owned
    <3>3. m2[ds[k].it] = m[cs[k].it] /\ m[cs[k].it] \in Seq(Block)
      BY <1>6, <3>1, <3>2
    <3>4. PICK b : b = m[cs[k].it][x]
      OBVIOUS
    <3>5. x \in 1..Len(m[cs[k].it])
      BY <1>7, <3>3
    <3>6. b.page \in Nat /\ b.to \in Nat
      BY <3>3, <3>4, <3>5, BlockFacts
    <3>7. /\ Beneath(b, t, a)
          /\ \A l \in 1..Len(cs) : k < l => Beneath(b, cs[l].page, cs[l].sp)
      BY <1>7, <3>1, <3>4, <3>5 DEF Kept
    <3>8. t # 0
      <4>1. Before(cs[k].page, cs[k].sp, t, a)
        BY <3>1 DEF Ordered
      <4>2. cs[k].page \in Nat /\ cs[k].page >= 1
        BY <3>1, CursorFacts
      <4> QED BY <4>1, <4>2 DEF Before
    <3>9. Beneath(b, c.page, c.sp)
      BY <3>7, <3>8
    <3>10. Beneath(b, t2, a2)
      <4>1. t < t2 \/ (t = t2 /\ a <= a2)
        BY <3>8 DEF Before
      <4> QED BY <3>6, <3>7, <4>1, BeneathLater
    <3>11. ASSUME NEW l \in 1..(n + 1), k < l
           PROVE  Beneath(b, ds[l].page, ds[l].sp)
      <4>1. CASE l = n + 1
        BY <1>3, <3>9, <4>1
      <4>2. CASE l # n + 1
        <5>1. l \in 1..n /\ l \in 1..Len(cs) /\ ds[l] = cs[l]
          BY <1>1, <1>4, <4>2
        <5> QED BY <3>7, <3>11, <5>1
      <4> QED BY <4>1, <4>2
    <3> QED BY <3>3, <3>4, <3>10, <3>11
  <2> QED BY <2>1, <2>2
<1> QED BY <1>2, <1>3, <1>5, <1>7 DEF Kept

(* Memory that the owner of the last cursor takes.                         *)
LEMMA GrowKept ==
    ASSUME NEW cs \in Seq(Cursor), NEW m \in [Iters -> Seq(Block)],
           NEW t \in Nat, NEW a \in Nat, Kept(cs, m, t, a),
           NEW lv, Owned(cs, lv), NEW n \in Nat, n = Len(cs), n >= 1,
           NEW i \in Iters, cs[n].it = i, ~cs[n].is_free,
           NEW t2 \in Nat, NEW a2 \in Nat, t < t2 \/ (t = t2 /\ a <= a2),
           NEW bs \in Seq(Block), \A x \in 1..Len(bs) : Beneath(bs[x], t2, a2)
    PROVE  Kept(cs, [m EXCEPT ![i] = m[i] \o bs], t2, a2)
<1>1. PICK m2 : m2 = [m EXCEPT ![i] = m[i] \o bs]
  OBVIOUS
<1>2. m2[i] = m[i] \o bs /\ \A j \in Iters : j # i => m2[j] = m[j]
  BY <1>1
<1>3. ASSUME NEW k \in 1..n, ~cs[k].is_free, NEW x \in 1..Len(m[cs[k].it])
      PROVE  /\ Beneath(m[cs[k].it][x], t2, a2)
             /\ \A l \in 1..n : k < l => Beneath(m[cs[k].it][x], cs[l].page, cs[l].sp)
  <2>1. cs[k].it \in Iters /\ m[cs[k].it] \in Seq(Block)
    BY CursorFacts
  <2>2. PICK b : b = m[cs[k].it][x]
    OBVIOUS
  <2>3. b.page \in Nat /\ b.to \in Nat
    BY <2>1, <2>2, BlockFacts
  <2>4. /\ Beneath(b, t, a)
        /\ \A l \in 1..n : k < l => Beneath(b, cs[l].page, cs[l].sp)
    BY <1>3, <2>2 DEF Kept
  <2>5. Beneath(b, t2, a2)
    BY <2>3, <2>4, BeneathLater
  <2> QED BY <2>2, <2>4, <2>5
<1>4. n \in 1..n /\ \A l \in 1..n : ~(n < l)
  OBVIOUS
<1>5. ASSUME NEW k \in 1..n, ~cs[k].is_free, NEW x \in 1..Len(m2[cs[k].it])
      PROVE  /\ Beneath(m2[cs[k].it][x], t2, a2)
             /\ \A l \in 1..n : k < l => Beneath(m2[cs[k].it][x], cs[l].page, cs[l].sp)
  <2>1. CASE k = n
    <3>1. m2[cs[k].it] = m[i] \o bs /\ m[i] \in Seq(Block)
      BY <1>2, <2>1
    <3>2. PICK e \in Nat : e = Len(m[i])
      BY <3>1, LenProperties
    <3>d. PICK d \in Nat : d = Len(bs)
      BY LenProperties
    <3>3. x \in 1..(e + d)
      BY <1>5, <3>1, <3>2, <3>d
    <3>4. CASE x <= e
      <4>1. x \in 1..e /\ (m[i] \o bs)[x] = m[i][x]
        BY <3>1, <3>2, <3>d, <3>3, <3>4
      <4> QED BY <1>3, <1>4, <2>1, <3>1, <3>2, <4>1
    <3>5. CASE ~(x <= e)
      <4>1. x - e \in 1..d /\ (m[i] \o bs)[x] = bs[x - e]
        BY <3>1, <3>2, <3>d, <3>3, <3>5
      <4> QED BY <1>4, <2>1, <3>1, <3>2, <3>d, <4>1
    <3> QED BY <3>4, <3>5
  <2>2. CASE k # n
    <3>1. cs[k].it # i
      BY <1>4, <1>5, <2>2 DEF Owned
    <3>2. m2[cs[k].it] = m[cs[k].it]
      BY <1>2, <3>1, CursorFacts
    <3> QED BY <1>3, <1>5, <3>2
  <2> QED BY <2>1, <2>2
<1> QED BY <1>1, <1>5 DEF Kept

(* A cursor is marked as free.                                             *)
LEMMA FreeFacts ==
    ASSUME NEW cs \in Seq(Cursor), NEW c \in 1..Len(cs)
    PROVE  LET ds == [cs EXCEPT ![c].is_free = TRUE]
           IN  /\ ds \in Seq(Cursor) /\ Len(ds) = Len(cs) /\ ds[c].is_free
               /\ \A k \in 1..Len(cs) : /\ k # c => ds[k] = cs[k]
                                          /\ ds[k].page = cs[k].page /\ ds[k].sp = cs[k].sp
<1>1. PICK ds : ds = [cs EXCEPT ![c].is_free = TRUE]
  OBVIOUS
<1>2. PICK x : x = [cs[c] EXCEPT !.is_free = TRUE]
  OBVIOUS
<1>3. cs[c] \in Cursor
  OBVIOUS
<1>4. x \in Cursor /\ x.is_free /\ x.page = cs[c].page /\ x.sp = cs[c].sp
  BY <1>2, <1>3 DEF Cursor
<1>5. ds = [cs EXCEPT ![c] = x]
  BY <1>1, <1>2
<1>6. ds \in Seq(Cursor) /\ Len(ds) = Len(cs) /\ ds[c] = x
  BY <1>4, <1>5, ExceptSeq
<1>7. \A k \in 1..Len(cs) : k # c => ds[k] = cs[k]
  BY <1>5
<1> QED BY <1>1, <1>4, <1>6, <1>7

(* The iterator of that cursor is finished.                                *)
LEMMA FreeOwned ==
    ASSUME NEW cs \in Seq(Cursor), NEW lv, Owned(cs, lv), NEW c \in 1..Len(cs), ~cs[c].is_free
    PROVE  Owned([cs EXCEPT ![c].is_free = TRUE], lv \ {cs[c].it})
<1>1. PICK n \in Nat : n = Len(cs)
  OBVIOUS
<1>2. PICK ds : ds = [cs EXCEPT ![c].is_free = TRUE]
  OBVIOUS
<1>3. Len(ds) = n /\ ds[c].is_free /\ \A k \in 1..n : k # c => ds[k] = cs[k]
  BY <1>1, <1>2, FreeFacts
<1>4. \A k \in 1..n : ~ds[k].is_free => k # c /\ ds[k] = cs[k]
  BY <1>3
<1>5. PICK i : i = cs[c].it
  OBVIOUS
<1>6. \A k \in 1..n : ~ds[k].is_free => ds[k].it \in lv /\ ds[k].it # i
  BY <1>1, <1>4, <1>5 DEF Owned
<1>7. ASSUME NEW j \in lv \ {i} PROVE \E k \in 1..n : ds[k].it = j /\ ~ds[k].is_free
  <2>1. PICK k \in 1..n : cs[k].it = j /\ ~cs[k].is_free
    BY <1>1 DEF Owned
  <2>2. k # c
    BY <1>5, <1>7, <2>1
  <2> QED BY <1>3, <2>1, <2>2
<1>8. \A j, k \in 1..n : ~ds[j].is_free /\ ~ds[k].is_free /\ ds[j].it = ds[k].it => j = k
  BY <1>1, <1>4 DEF Owned
<1> QED BY <1>2, <1>3, <1>5, <1>6, <1>7, <1>8 DEF Owned

(* The memory of the others is where it was.                               *)
LEMMA FreeKept ==
    ASSUME NEW cs \in Seq(Cursor), NEW m \in [Iters -> Seq(Block)], NEW t, NEW a,
           Kept(cs, m, t, a), NEW lv, Owned(cs, lv),
           NEW c \in 1..Len(cs), ~cs[c].is_free, NEW i, i = cs[c].it
    PROVE  Kept([cs EXCEPT ![c].is_free = TRUE], [m EXCEPT ![i] = <<>>], t, a)
<1>1. PICK n \in Nat : n = Len(cs)
  OBVIOUS
<1>2. PICK ds : ds = [cs EXCEPT ![c].is_free = TRUE]
  OBVIOUS
<1>3. /\ Len(ds) = n /\ ds[c].is_free
      /\ \A k \in 1..n : /\ k # c => ds[k] = cs[k]
                           /\ ds[k].page = cs[k].page /\ ds[k].sp = cs[k].sp
  BY <1>1, <1>2, FreeFacts
<1>4. \A k \in 1..n : ~ds[k].is_free => k # c /\ ds[k] = cs[k]
  BY <1>3
<1>5. PICK m2 : m2 = [m EXCEPT ![i] = <<>>]
  OBVIOUS
<1>6. ASSUME NEW k \in 1..n, ~ds[k].is_free, NEW x \in 1..Len(m2[ds[k].it])
      PROVE  /\ Beneath(m2[ds[k].it][x], t, a)
             /\ \A l \in 1..n : k < l => Beneath(m2[ds[k].it][x], ds[l].page, ds[l].sp)
  <2>1. ds[k] = cs[k] /\ ~cs[k].is_free /\ cs[k].it # i
    BY <1>1, <1>4, <1>6 DEF Owned
  <2>2. cs[k].it \in Iters
    BY <1>1, CursorFacts
  <2>3. m2[ds[k].it] = m[cs[k].it]
    BY <1>5, <2>1, <2>2
  <2>4. x \in 1..Len(m[cs[k].it])
    BY <1>6, <2>3
  <2>5. PICK b : b = m[cs[k].it][x]
    OBVIOUS
  <2>6. /\ Beneath(b, t, a)
        /\ \A l \in 1..n : k < l => Beneath(b, cs[l].page, cs[l].sp)
    BY <1>1, <2>1, <2>4, <2>5 DEF Kept
  <2>7. m2[ds[k].it][x] = b
    BY <2>3, <2>5
  <2>8. ASSUME NEW l \in 1..n, k < l PROVE Beneath(b, ds[l].page, ds[l].sp)
    <3>1. ds[l].page = cs[l].page /\ ds[l].sp = cs[l].sp
      BY <1>1, <1>2, FreeFacts
    <3>2. Beneath(b, cs[l].page, cs[l].sp)
      BY <2>6, <2>8
    <3> QED BY <3>1, <3>2
  <2> QED BY <2>6, <2>7, <2>8
<1> QED BY <1>2, <1>3, <1>5, <1>6 DEF Kept

(* Positions are what they were.                                           *)
LEMMA FreeOrdered ==
    ASSUME NEW cs \in Seq(Cursor), NEW t, NEW a, Ordered(cs, t, a), NEW c \in 1..Len(cs)
    PROVE  Ordered([cs EXCEPT ![c].is_free = TRUE], t, a)
<1>1. PICK n \in Nat : n = Len(cs)
  OBVIOUS
<1>2. PICK ds : ds = [cs EXCEPT ![c].is_free = TRUE]
  OBVIOUS
<1>3. /\ ds \in Seq(Cursor) /\ Len(ds) = n
      /\ \A k \in 1..n : ds[k].page = cs[k].page /\ ds[k].sp = cs[k].sp
  BY <1>1, <1>2, FreeFacts
<1>4. \A j, k \in 1..n : j < k => Before(ds[j].page, ds[j].sp, ds[k].page, ds[k].sp)
  BY <1>1, <1>3 DEF Ordered
<1>5. \A k \in 1..n : Before(ds[k].page, ds[k].sp, t, a)
  BY <1>1, <1>3 DEF Ordered
<1>6. n # 0 /\ 1 \in 1..n
  BY <1>1
<1>7. ds # <<>> /\ cs # <<>>
  BY <1>1, <1>3, <1>6
<1>8. ds[1].page = 1 /\ ds[1].sp = 0
  BY <1>3, <1>6, <1>7 DEF Ordered
<1> QED BY <1>2, <1>3, <1>4, <1>5, <1>7, <1>8 DEF Ordered

(* Cursors that are free can be dropped from the end.                      *)
LEMMA CutOwned ==
    ASSUME NEW cs \in Seq(Cursor), NEW lv, Owned(cs, lv), NEW f \in 1..Len(cs),
           \A j \in f..Len(cs) : cs[j].is_free
    PROVE  Owned(SubSeq(cs, 1, f - 1), lv)
<1>1. PICK n \in Nat : n = f - 1 /\ n < Len(cs) /\ n + 1 = f
  OBVIOUS
<1>2. PICK ds : ds = SubSeq(cs, 1, n)
  OBVIOUS
<1>3. /\ Len(ds) = n /\ \A k \in 1..n : ds[k] = cs[k] /\ k \in 1..Len(cs)
  BY <1>1, <1>2
<1>4. ASSUME NEW i \in lv PROVE \E k \in 1..n : ds[k].it = i /\ ~ds[k].is_free
  <2>1. PICK k \in 1..Len(cs) : cs[k].it = i /\ ~cs[k].is_free
    BY DEF Owned
  <2>2. k \notin f..Len(cs)
    BY <2>1
  <2>3. k \in 1..n
    BY <1>1, <2>2
  <2> QED BY <1>3, <2>1, <2>3
<1>5. \A k \in 1..n : ~ds[k].is_free => ds[k].it \in lv
  BY <1>3 DEF Owned
<1>6. \A j, k \in 1..n : ~ds[j].is_free /\ ~ds[k].is_free /\ ds[j].it = ds[k].it => j = k
  BY <1>3 DEF Owned
<1> QED BY <1>1, <1>2, <1>3, <1>4, <1>5, <1>6 DEF Owned

(* The memory of the cursors before them is below the new top.             *)
LEMMA CutKept ==
    ASSUME NEW cs \in Seq(Cursor), NEW m, NEW t, NEW a, Kept(cs, m, t, a), NEW f \in 1..Len(cs)
    PROVE  Kept(SubSeq(cs, 1, f - 1), m, cs[f].page, cs[f].sp)
<1>1. PICK n \in Nat : n = f - 1 /\ n < f /\ n < Len(cs)
  OBVIOUS
<1>2. PICK ds : ds = SubSeq(cs, 1, n)
  OBVIOUS
<1>3. /\ Len(ds) = n
      /\ \A k \in 1..n : ds[k] = cs[k] /\ k \in 1..Len(cs) /\ k < f
  BY <1>1, <1>2
<1>4. ASSUME NEW k \in 1..n, ~ds[k].is_free, NEW x \in 1..Len(m[ds[k].it])
      PROVE  /\ Beneath(m[ds[k].it][x], cs[f].page, cs[f].sp)
             /\ \A l \in 1..n : k < l => Beneath(m[ds[k].it][x], ds[l].page, ds[l].sp)
  <2>1. ds[k] = cs[k] /\ k \in 1..Len(cs) /\ k < f /\ ~cs[k].is_free
    BY <1>3, <1>4
  <2>2. PICK b : b = m[cs[k].it][x]
    OBVIOUS
  <2>3. \A l \in 1..Len(cs) : k < l => Beneath(b, cs[l].page, cs[l].sp)
    BY <1>4, <2>1, <2>2 DEF Kept
  <2> QED BY <1>3, <2>1, <2>2, <2>3
<1> QED BY <1>1, <1>2, <1>3, <1>4 DEF Kept

(* The loop of flecs_stack_restore_cursor ends at a cursor that is free,   *)
(* as are the later ones, and has an active one before it, or none.        *)
LEMMA DroppedFacts ==
    ASSUME NEW cs \in Seq(Cursor), NEW n \in Nat, n = Len(cs), n >= 1, cs[n].is_free
    PROVE  LET f == FirstDropped(cs)
           IN  /\ f \in 1..n /\ \A j \in f..n : cs[j].is_free
               /\ f > 1 => ~cs[f - 1].is_free
<1> DEFINE S == {k \in Nat : k >= 1 /\ k <= n /\ \A j \in k..n : cs[j].is_free}
<1>1. n \in S
  OBVIOUS
<1>2. PICK x \in S : \A k \in S : x <= k
  <2>1. S \in SUBSET Nat /\ S # {}
    BY <1>1
  <2> HIDE DEF S
  <2> QED BY <2>1, Least
<1>3. x \in 1..n /\ \A j \in x..n : cs[j].is_free
  OBVIOUS
<1>4. ASSUME x > 1, cs[x - 1].is_free PROVE FALSE
  <2>1. \A j \in (x - 1)..n : j = x - 1 \/ j \in x..n
    BY <1>3
  <2>2. \A j \in (x - 1)..n : cs[j].is_free
    BY <1>3, <1>4, <2>1
  <2>3. x - 1 \in S
    BY <1>3, <1>4, <2>2
  <2>4. x <= x - 1
    BY <1>2, <2>3
  <2> QED BY <1>3, <2>4
<1>5. DOMAIN cs = 1..n
  OBVIOUS
<1>6. \E k \in DOMAIN cs : (\A j \in k..Len(cs) : cs[j].is_free) /\ (k > 1 => ~cs[k - 1].is_free)
  BY <1>3, <1>4, <1>5
<1>7. PICK f : f = FirstDropped(cs)
  OBVIOUS
<1>8. f \in DOMAIN cs /\ (\A j \in f..Len(cs) : cs[j].is_free) /\ (f > 1 => ~cs[f - 1].is_free)
  BY <1>6, <1>7, Zenon DEF FirstDropped
<1> QED BY <1>5, <1>7, <1>8

(* The large allocations of one iterator and those of the others.          *)
LEMMA PartsOf ==
    ASSUME NEW L \in [Iters -> Nat], NEW i \in Iters,
           NEW B, B = {x \in Parts(L) : x[1] # i}, IsFiniteSet(B)
    PROVE  IsFiniteSet(Parts(L)) /\ Cardinality(Parts(L)) = Cardinality(B) + L[i]
<1>1. PICK n \in Nat : n = L[i]
  OBVIOUS
<1>2. IsFiniteSet(1..n) /\ Cardinality(1..n) = n
  BY FS_Interval
<1>3. IsFiniteSet({i}) /\ Cardinality({i}) = 1
  BY FS_Singleton
<1>4. PICK P : P = {i} \X (1..n)
  OBVIOUS
<1>5. IsFiniteSet(P) /\ Cardinality(P) = 1 * n
  BY <1>2, <1>3, <1>4, FS_Product, SMTT(30)
<1>6. Parts(L) = B \cup P
  BY <1>1, <1>4 DEF Parts
<1>7. B \cap P = {}
  BY <1>4
<1>8. /\ IsFiniteSet(B \cup P)
      /\ Cardinality(B \cup P) = Cardinality(B) + Cardinality(P) - Cardinality(B \cap P)
  BY <1>5, FS_Union
<1>9. Cardinality(B) \in Nat /\ Cardinality(B \cap P) = 0
  BY <1>7, FS_CardinalityType, FS_EmptySet
<1>10. PICK c \in Nat : c = Cardinality(B)
  BY <1>9
<1>11. Cardinality(P) = n
  BY <1>5
<1>12. Cardinality(B \cup P) = c + n
  BY <1>8, <1>9, <1>10, <1>11
<1> QED BY <1>1, <1>6, <1>8, <1>10, <1>12

Differ(L, M, i) == \A j \in Iters : j # i => M[j] = L[j]

(* One iterator gets another number of them.                               *)
LEMMA PartsChange ==
    ASSUME NEW L \in [Iters -> Nat], IsFiniteSet(Parts(L)), NEW i \in Iters,
           NEW M \in [Iters -> Nat], Differ(L, M, i)
    PROVE  /\ IsFiniteSet(Parts(M))
           /\ Cardinality(Parts(M)) = Cardinality(Parts(L)) - L[i] + M[i]
           /\ Cardinality(Parts(L)) - L[i] \in Nat
<1>2. \A j \in Iters : j # i => M[j] = L[j]
  BY DEF Differ
<1>3. PICK B : B = {x \in Parts(L) : x[1] # i}
  OBVIOUS
<1>4. IsFiniteSet(B)
  BY <1>3, FS_Subset
<1>5. B = {x \in Parts(M) : x[1] # i}
  BY <1>2, <1>3 DEF Parts
<1>6. Cardinality(Parts(L)) = Cardinality(B) + L[i]
  BY <1>3, <1>4, PartsOf
<1>7. IsFiniteSet(Parts(M)) /\ Cardinality(Parts(M)) = Cardinality(B) + M[i]
  BY <1>2, <1>4, <1>5, PartsOf
<1>8. Cardinality(B) \in Nat /\ L[i] \in Nat
  BY <1>4, FS_CardinalityType
<1> QED BY <1>6, <1>7, <1>8

(* No iterator has one.                                                    *)
LEMMA NoParts ==
    ASSUME NEW L \in [Iters -> Nat], \A i \in Iters : L[i] = 0
    PROVE  IsFiniteSet(Parts(L)) /\ Cardinality(Parts(L)) = 0
<1>1. Parts(L) = {}
  BY DEF Parts
<1> QED BY <1>1, FS_EmptySet

-----------------------------------------------------------------------------
(* The types of the state, one by one.                                     *)
LEMMA TypeFacts ==
    ASSUME IInv
    PROVE  /\ pages \in Nat /\ tail_page \in Nat /\ TopSp \in Nat
           /\ pages <= MaxPages /\ tail_page <= pages
           /\ sp \in [Page -> 0..PageSize] /\ cursors \in Seq(Cursor)
           /\ mem \in [Iters -> Seq(Block)] /\ large \in [Iters -> Nat]
           /\ late \in [Iters -> 0..MaxLate] /\ live \subseteq Iters
<1>1. /\ pages \in 0..MaxPages /\ tail_page \in 0..pages
      /\ sp \in [Page -> 0..PageSize] /\ cursors \in Seq(Cursor)
      /\ mem \in [Iters -> Seq(Block)] /\ large \in [Iters -> Nat]
      /\ late \in [Iters -> 0..MaxLate] /\ live \subseteq Iters
  BY DEF IInv, TypeOK, Cursor
<1>2. pages \in Nat /\ tail_page \in Nat /\ pages <= MaxPages /\ tail_page <= pages
  BY <1>1, StackAssumption
<1>3. TopSp \in Nat
  <2>1. CASE tail_page = 0
    BY <2>1 DEF TopSp
  <2>2. CASE tail_page # 0
    <3>1. tail_page \in Page
      BY <1>2, <2>2, StackAssumption DEF Page
    <3>2. sp[tail_page] \in 0..PageSize
      BY <1>1, <3>1
    <3> QED BY <2>2, <3>2, StackAssumption DEF TopSp
  <2> QED BY <2>1, <2>2
<1> QED BY <1>1, <1>2, <1>3

(* All memory in use is below the top.                                     *)
LEMMA AllBeneath ==
    ASSUME IInv, NEW j \in Iters, NEW x \in 1..Len(mem[j])
    PROVE  Beneath(mem[j][x], tail_page, TopSp) /\ j \in live
<1>1. j \in live
  <2>1. ASSUME j \notin live PROVE FALSE
    <3>1. mem[j] = <<>>
      BY <2>1 DEF IInv, Counts
    <3>2. Len(mem[j]) = 0
      BY <3>1
    <3> QED BY <3>2
  <2> QED BY <2>1
<1>2. PICK k \in 1..Len(cursors) : cursors[k].it = j /\ ~cursors[k].is_free
  BY <1>1 DEF IInv, Owned
<1> QED BY <1>1, <1>2 DEF IInv, Kept

Cells(b) == {b.page} \X (b.from..(b.to - 1))

(* The units of a memory m.                                                *)
Units(m) == [i \in Iters |-> UNION {Cells(b) : b \in ToSet(m[i])}]

(* A unit of an iterator is in one of its blocks.                          *)
LEMMA UnitsOf ==
    ASSUME NEW m \in [Iters -> Seq(Block)], NEW i \in Iters, NEW x
    PROVE  x \in Units(m)[i] <=> \E n \in 1..Len(m[i]) : x \in Cells(m[i][n])
<1>1. m[i] \in Seq(Block)
  OBVIOUS
<1>2. DOMAIN m[i] = 1..Len(m[i])
  BY <1>1, LenProperties
<1>3. ToSet(m[i]) = {m[i][n] : n \in 1..Len(m[i])}
  BY <1>2 DEF ToSet
<1>4. Units(m)[i] = UNION {Cells(b) : b \in ToSet(m[i])}
  BY DEF Units
<1> QED BY <1>3, <1>4

(* A block above a place and one below it have no unit in common.          *)
LEMMA Apart ==
    ASSUME NEW b \in Block, NEW d \in Block, NEW t \in Nat, NEW a \in Nat,
           Beneath(b, t, a), Above(d, t, a), NEW x, x \in Cells(b), x \in Cells(d)
    PROVE  FALSE
<1>1. PICK p \in Nat, u \in Nat : p = b.page /\ u = b.to
  BY StackAssumption DEF Block, Page
<1>2. PICK q \in Nat, v \in Nat : q = d.page /\ v = d.from
  BY StackAssumption DEF Block, Page
<1>3. b.from \in Int /\ d.to \in Int
  BY StackAssumption DEF Block
<1>4. x[1] = p /\ x[2] \in Int /\ x[2] <= u - 1
  BY <1>1, <1>3 DEF Cells
<1>5. x[1] = q /\ x[2] >= v
  BY <1>2, <1>3 DEF Cells
<1>6. p < t \/ (p = t /\ u <= a)
  BY <1>1 DEF Beneath
<1>7. q > t \/ (q = t /\ v >= a)
  BY <1>2 DEF Above
<1> QED BY <1>4, <1>5, <1>6, <1>7

(* Blocks above a place that all memory in use is below are new memory.    *)
LEMMA TakeStep ==
    ASSUME NEW i \in Iters, NEW t \in Nat, NEW a \in Nat, NEW bs \in Seq(Block),
           mem \in [Iters -> Seq(Block)], mem' = [mem EXCEPT ![i] = mem[i] \o bs],
           \A j \in Iters : \A x \in 1..Len(mem[j]) : Beneath(mem[j][x], t, a),
           \A x \in 1..Len(bs) : Above(bs[x], t, a)
    PROVE  Memory!Take(i)
<1>1. Held = Units(mem) /\ Held' = Units(mem')
  BY DEF Held, Units, Cells
<1>2. PICK m2 : m2 = mem'
  OBVIOUS
<1>3. mem[i] \in Seq(Block) /\ mem[i] \o bs \in Seq(Block)
  BY ConcatProperties
<1>4. m2 \in [Iters -> Seq(Block)] /\ m2[i] = mem[i] \o bs
  BY <1>2, <1>3
<1>5. \A j \in Iters : j # i => m2[j] = mem[j]
  BY <1>2
<1>6. PICK e \in Nat : e = Len(mem[i])
  BY <1>3, LenProperties
<1>7. PICK d \in Nat : d = Len(bs)
  BY LenProperties
<1>8. /\ Len(m2[i]) = e + d
      /\ \A x \in 1..e : m2[i][x] = mem[i][x]
      /\ \A x \in 1..d : m2[i][e + x] = bs[x]
  BY <1>3, <1>4, <1>6, <1>7, ConcatProperties
<1>9. ASSUME NEW x, x \in Units(mem)[i] PROVE x \in Units(m2)[i]
  <2>1. PICK k \in 1..e : x \in Cells(mem[i][k])
    BY <1>6, <1>9, UnitsOf
  <2>2. k \in 1..Len(m2[i]) /\ m2[i][k] = mem[i][k]
    BY <1>8
  <2> QED BY <1>4, <2>1, <2>2, UnitsOf
<1>10. ASSUME NEW x, x \in Units(m2)[i], x \notin Units(mem)[i]
       PROVE  \E k \in 1..d : x \in Cells(bs[k])
  <2>1. PICK k \in 1..(e + d) : x \in Cells(m2[i][k])
    BY <1>4, <1>8, <1>10, UnitsOf
  <2>2. CASE k <= e
    <3>1. k \in 1..e /\ m2[i][k] = mem[i][k]
      BY <1>8, <2>2
    <3>2. x \in Units(mem)[i]
      BY <1>6, <2>1, <3>1, UnitsOf
    <3> QED BY <1>10, <3>2
  <2>3. CASE ~(k <= e)
    <3>1. k - e \in 1..d /\ e + (k - e) = k
      BY <2>3
    <3>2. m2[i][k] = bs[k - e]
      BY <1>8, <3>1
    <3> QED BY <2>1, <3>1, <3>2
  <2> QED BY <2>2, <2>3
<1>11. ASSUME NEW j \in Iters, NEW x, x \in Units(mem)[j], x \in Units(m2)[i], x \notin Units(mem)[i]
       PROVE  FALSE
  <2>1. PICK k \in 1..d : x \in Cells(bs[k])
    BY <1>10, <1>11
  <2>2. PICK l \in 1..Len(mem[j]) : x \in Cells(mem[j][l])
    BY <1>11, UnitsOf
  <2>3. Beneath(mem[j][l], t, a) /\ Above(bs[k], t, a)
    BY <1>7
  <2>4. mem[j] \in Seq(Block)
    OBVIOUS
  <2>5. mem[j][l] \in Block /\ bs[k] \in Block
    BY <1>7, <2>4, BlockFacts
  <2> QED BY <2>1, <2>2, <2>3, <2>5, Apart
<1>12. PICK h : h = Units(mem)
  OBVIOUS
<1>13. PICK h2 : h2 = Units(m2)
  OBVIOUS
<1>14. h2 = [h EXCEPT ![i] = h[i] \cup (h2[i] \ h[i])]
  <2>1. h = [j \in Iters |-> h[j]] /\ h2 = [j \in Iters |-> h2[j]]
    BY <1>12, <1>13 DEF Units
  <2>2. \A j \in Iters : j # i => h2[j] = h[j]
    BY <1>5, <1>12, <1>13 DEF Units
  <2>3. h[i] \cup (h2[i] \ h[i]) = h2[i]
    BY <1>9, <1>12, <1>13
  <2>4. PICK y : y = h[i] \cup (h2[i] \ h[i])
    OBVIOUS
  <2>5. PICK g : g = [h EXCEPT ![i] = y]
    OBVIOUS
  <2>6. g = [j \in Iters |-> IF j = i THEN y ELSE h[j]]
    BY <2>1, <2>5
  <2>7. g = h2
    BY <2>1, <2>2, <2>3, <2>4, <2>6
  <2> QED BY <2>4, <2>5, <2>7
<1>15. \A j \in Iters : h[j] \cap (h2[i] \ h[i]) = {}
  BY <1>11, <1>12, <1>13
<1>16. Held = h /\ Held' = h2
  BY <1>1, <1>2, <1>12, <1>13
<1> QED BY <1>14, <1>15, <1>16 DEF Memory!Take

(* A block that is above a place is above every earlier one.               *)
LEMMA AboveEarlier ==
    ASSUME NEW b, b.page \in Nat, b.from \in Nat, NEW t \in Nat, NEW a \in Nat, Above(b, t, a),
           NEW q \in Nat, NEW u \in Nat, q < t \/ (q = t /\ u <= a)
    PROVE  Above(b, q, u)
<1>1. PICK p \in Nat, v \in Nat : p = b.page /\ v = b.from
  OBVIOUS
<1>2. p > t \/ (p = t /\ v >= a)
  BY <1>1 DEF Above
<1>3. p > q \/ (p = q /\ v >= u)
  BY <1>2
<1> QED BY <1>1, <1>3 DEF Above

(* The types after a step that sets the stack to v.                        *)
LEMMA StackTypes ==
    ASSUME NEW v, Stack(v), SetStack(v)
    PROVE  /\ pages' \in 0..MaxPages /\ tail_page' \in 0..pages' /\ sp' \in [Page -> 0..PageSize]
           /\ tail_page' \in Nat /\ TopSp' \in Nat /\ tail_page' # 0
           /\ tail_page' = v.tail /\ TopSp' = v.sp[v.tail]
<1>1. v.pages \in Nat /\ v.tail \in Nat /\ v.sp \in [Page -> 0..PageSize]
  BY DEF Stack, Stacks
<1>2. v.pages <= MaxPages /\ v.tail >= 1 /\ v.tail <= v.pages
  BY DEF Stack
<1>3. pages' = v.pages /\ tail_page' = v.tail /\ sp' = v.sp
  BY DEF SetStack
<1>4. pages' \in 0..MaxPages /\ tail_page' \in 0..pages' /\ tail_page' # 0
  BY <1>1, <1>2, <1>3, StackAssumption
<1>5. TopSp' = v.sp[v.tail]
  BY <1>3, <1>4 DEF TopSp
<1> QED BY <1>1, <1>3, <1>4, <1>5, TopOf

(* A new iterator (flecs_iter_init).                                       *)
LEMMA IterInitKeeps ==
    ASSUME IInv, NEW i \in Iters, NEW n \in Nat, NEW rs \in [1..n -> Requests], IterInit(i, rs)
    PROVE  IInv' /\ Memory!Take(i)
<1>1. PICK c : c = GetCursor(stack, i)
  OBVIOUS
<1>2. PICK v : v = ServeAll(c.stack, rs)
  OBVIOUS
<1>3. /\ i \notin live /\ Room(rs) /\ SetStack(v.stack)
      /\ cursors' = Append(cursors, c.cursor)
      /\ mem' = [mem EXCEPT ![i] = <<c.block>> \o v.blocks]
      /\ large' = [large EXCEPT ![i] = v.large]
      /\ oversized_count' = oversized_count + v.large
      /\ cursor_count' = cursor_count + 1
      /\ live' = live \cup {i} /\ late' = late /\ asserted' = asserted
  BY <1>1, <1>2 DEF IterInit
<1>4. PICK t \in Nat, a \in Nat : t = tail_page /\ a = TopSp
  BY TypeFacts
<1>5. Len(rs) = n /\ t + n + 1 <= MaxPages
  BY <1>3, <1>4 DEF Room
<1>6. PICK q : q = IF t = 0 THEN 1 ELSE t
  OBVIOUS
<1>7. PICK u : u = IF t = 0 THEN 0 ELSE sp[t]
  OBVIOUS
<1>8. u = a
  BY <1>4, <1>7 DEF TopSp
<1>9. /\ Stack(c.stack) /\ c.stack.tail <= t + 1 /\ c.block \in Block
      /\ c.cursor = [it |-> i, page |-> q, sp |-> u, is_free |-> FALSE]
      /\ q \in Page /\ u \in 0..PageSize
      /\ Above(c.block, q, u)
      /\ Beneath(c.block, c.stack.tail, c.stack.sp[c.stack.tail])
      /\ Before(q, u, c.stack.tail, c.stack.sp[c.stack.tail])
  <2>1. t + 1 <= MaxPages
    BY <1>5, StackAssumption
  <2>2. stack = [pages |-> pages, tail |-> t, sp |-> sp]
    BY <1>4 DEF stack
  <2>3. /\ pages \in Nat /\ sp \in [Page -> 0..PageSize] /\ pages <= MaxPages /\ t <= pages
    BY <1>4, TypeFacts
  <2> QED BY <1>1, <1>6, <1>7, <2>1, <2>2, <2>3, GetCursorTakes
<1>10. PICK z \in Nat, w \in Nat : z = c.stack.tail /\ w = c.stack.sp[c.stack.tail]
  BY <1>9, TopOf
<1>11. Given(c.stack, v, n)
  <2>1. c.stack.tail + n <= MaxPages
    BY <1>5, <1>9, <1>10, StackAssumption
  <2> QED BY <1>2, <1>9, <2>1, ServeAllGives
<1>12. /\ v \in [stack : Stacks, blocks : Seq(Block), large : Nat]
       /\ Stack(v.stack) /\ Grown(c.stack, v.stack)
       /\ \A j \in 1..Len(v.blocks) :
             /\ Above(v.blocks[j], z, w)
             /\ Beneath(v.blocks[j], v.stack.tail, v.stack.sp[v.stack.tail])
  BY <1>10, <1>11 DEF Given
<1>13. v.blocks \in Seq(Block) /\ v.large \in Nat
  BY <1>12
<1>14. /\ pages' \in 0..MaxPages /\ tail_page' \in 0..pages' /\ sp' \in [Page -> 0..PageSize]
       /\ tail_page' \in Nat /\ TopSp' \in Nat /\ tail_page' # 0
       /\ tail_page' = v.stack.tail /\ TopSp' = v.stack.sp[v.stack.tail]
  BY <1>3, <1>12, StackTypes
<1>15. PICK t2 \in Nat, a2 \in Nat : t2 = tail_page' /\ a2 = TopSp'
  BY <1>14
<1>16. z < t2 \/ (z = t2 /\ w <= a2)
  BY <1>10, <1>12, <1>14, <1>15 DEF Grown
<1>17. q \in Nat /\ u \in Nat
  BY <1>9, StackAssumption DEF Page
<1>18. q < z \/ (q = z /\ u < w)
  BY <1>9, <1>10 DEF Before
<1>19. Before(q, u, t2, a2)
  BY <1>16, <1>17, <1>18 DEF Before
<1>20. PICK bs : bs = <<c.block>> \o v.blocks
  OBVIOUS
<1>21. PICK d \in Nat : d = Len(v.blocks)
  BY <1>13, LenProperties
<1>22. /\ bs \in Seq(Block) /\ Len(bs) = d + 1 /\ bs[1] = c.block
       /\ \A x \in 2..(d + 1) : bs[x] = v.blocks[x - 1]
  BY <1>9, <1>13, <1>20, <1>21
<1>23. ASSUME NEW x \in 1..(d + 1)
       PROVE  Above(bs[x], q, u) /\ Beneath(bs[x], t2, a2)
  <2>1. PICK b : b = bs[x]
    OBVIOUS
  <2>2. b.page \in Nat /\ b.from \in Nat /\ b.to \in Nat
    BY <1>22, <2>1, BlockFacts
  <2>3. CASE x = 1
    <3>1. Above(b, q, u) /\ Beneath(b, z, w)
      BY <1>9, <1>10, <1>22, <2>1, <2>3
    <3>2. Beneath(b, t2, a2)
      BY <1>16, <2>2, <3>1, BeneathLater
    <3> QED BY <2>1, <3>1, <3>2
  <2>4. CASE x # 1
    <3>1. x \in 2..(d + 1) /\ x - 1 \in 1..d
      BY <2>4
    <3>2. b = v.blocks[x - 1]
      BY <1>22, <2>1, <3>1
    <3>3. Above(b, z, w) /\ Beneath(b, t2, a2)
      BY <1>12, <1>14, <1>15, <1>21, <3>1, <3>2
    <3>4. Above(b, q, u)
      BY <1>17, <1>18, <2>2, <3>3, AboveEarlier
    <3> QED BY <2>1, <3>3, <3>4
  <2> QED BY <2>3, <2>4
<1>24. PICK k : k = c.cursor
  OBVIOUS
<1>25. k \in Cursor /\ k.it = i /\ k.page = q /\ k.sp = u /\ k.is_free = FALSE
  BY <1>9, <1>24 DEF Cursor
<1>26. (t = 0 => k.page = 1 /\ k.sp = 0) /\ (t # 0 => k.page = t /\ k.sp = a)
  BY <1>6, <1>7, <1>8, <1>25
<1>27. /\ cursors \in Seq(Cursor) /\ mem \in [Iters -> Seq(Block)] /\ large \in [Iters -> Nat]
       /\ live \subseteq Iters /\ late \in [Iters -> 0..MaxLate]
  BY TypeFacts
<1>28. Ordered(cursors', tail_page', TopSp')
  <2>1. Ordered(cursors, t, a)
    BY <1>4 DEF IInv
  <2>2. Ordered(Append(cursors, k), t2, a2)
    BY <1>19, <1>25, <1>26, <1>27, <2>1, AppendOrdered
  <2> QED BY <1>3, <1>15, <1>24, <2>2
<1>29. Owned(cursors', live')
  <2>1. Owned(cursors, live)
    BY DEF IInv
  <2>2. Owned(Append(cursors, k), live \cup {i})
    BY <1>3, <1>25, <1>27, <2>1, AppendOwned
  <2> QED BY <1>3, <1>24, <2>2
<1>30. Kept(cursors', mem', tail_page', TopSp')
  <2>1. Ordered(cursors, t, a) /\ Kept(cursors, mem, t, a) /\ Owned(cursors, live)
    BY <1>4 DEF IInv
  <2>2. Before(k.page, k.sp, t2, a2)
    BY <1>19, <1>25
  <2>3. \A x \in 1..Len(bs) : Beneath(bs[x], t2, a2)
    BY <1>22, <1>23
  <2>4. Kept(Append(cursors, k), [mem EXCEPT ![i] = bs], t2, a2)
    BY <1>3, <1>22, <1>25, <1>26, <1>27, <2>1, <2>2, <2>3, AppendKept, ZenonT(30)
  <2> QED BY <1>3, <1>15, <1>20, <1>24, <2>4
<1>31. TailIsActive'
  <2>1. Len(Append(cursors, k)) = Len(cursors) + 1
    BY <1>25, <1>27
  <2>2. Append(cursors, k)[Len(cursors) + 1] = k
    BY <1>25, <1>27
  <2>3. Last(cursors') = k
    BY <1>3, <1>24, <2>1, <2>2 DEF Last
  <2> QED BY <1>25, <2>3 DEF TailIsActive
<1>32. large[i] = 0 /\ mem[i] = <<>>
  BY <1>3 DEF IInv, Counts
<1>33. Counts'
  <2>1. IsFiniteSet(live') /\ cursor_count' = Cardinality(live')
    <3>1. IsFiniteSet(live) /\ cursor_count = Cardinality(live)
      BY DEF IInv, Counts
    <3>2. IsFiniteSet(live \cup {i}) /\ Cardinality(live \cup {i}) = Cardinality(live) + 1
      BY <1>3, <3>1, FS_AddElement
    <3> QED BY <1>3, <3>1, <3>2
  <2>2. IsFiniteSet(Parts(large')) /\ oversized_count' = Cardinality(Parts(large'))
    <3>1. IsFiniteSet(Parts(large)) /\ oversized_count = Cardinality(Parts(large))
      BY DEF IInv, Counts
    <3>2. PICK L : L = large'
      OBVIOUS
    <3>l. L = [large EXCEPT ![i] = v.large]
      BY <1>3, <3>2
    <3>3. /\ IsFiniteSet(Parts(L))
          /\ Cardinality(Parts(L)) = Cardinality(Parts(large)) - large[i] + v.large
      <4>1. PICK K : K = large
        OBVIOUS
      <4>2. PICK y : y = v.large
        OBVIOUS
      <4>3. /\ K \in [Iters -> Nat] /\ IsFiniteSet(Parts(K)) /\ L \in [Iters -> Nat]
            /\ Differ(K, L, i) /\ L[i] = y
        BY <1>13, <1>27, <3>1, <3>l, <4>1, <4>2 DEF Differ
      <4>4. /\ IsFiniteSet(Parts(L))
            /\ Cardinality(Parts(L)) = Cardinality(Parts(K)) - K[i] + y
        BY <4>3, PartsChange
      <4> QED BY <4>1, <4>2, <4>4
    <3>4. Cardinality(Parts(large)) \in Nat
      BY <3>1, FS_CardinalityType
    <3>5. Cardinality(Parts(L)) = Cardinality(Parts(large)) + v.large
      BY <1>13, <1>32, <3>3, <3>4
    <3> QED BY <1>3, <3>1, <3>2, <3>3, <3>5
  <2>3. \A j \in Iters \ live' : mem'[j] = <<>> /\ large'[j] = 0
    <3>1. \A j \in Iters \ live : mem[j] = <<>> /\ large[j] = 0
      BY DEF IInv, Counts
    <3> QED BY <1>3, <1>27, <3>1
  <2>4. Parts(large)' = Parts(large')
    BY DEF Parts
  <2> QED BY <2>1, <2>2, <2>3, <2>4 DEF Counts
<1>34. TypeOK'
  <2>1. cursors' \in Seq(Cursor)
    BY <1>3, <1>24, <1>25, <1>27
  <2>2. mem' \in [Iters -> Seq(Block)]
    BY <1>3, <1>20, <1>22, <1>27
  <2>3. large' \in [Iters -> Nat]
    BY <1>3, <1>13, <1>27
  <2>4. live' \subseteq Iters /\ late' \in [Iters -> 0..MaxLate]
    BY <1>3, <1>27
  <2>5. cursor_count' \in Nat /\ oversized_count' \in Nat
    BY <1>33, FS_CardinalityType DEF Counts
  <2>6. asserted' \in BOOLEAN
    BY <1>3 DEF IInv
  <2> QED BY <1>14, <2>1, <2>2, <2>3, <2>4, <2>5, <2>6 DEF TypeOK, Cursor
<1>35. IInv'
  BY <1>3, <1>28, <1>29, <1>30, <1>31, <1>33, <1>34 DEF IInv
<1>36. Memory!Take(i)
  <2>1. mem[i] \o bs = bs
    BY <1>22, <1>32
  <2>2. mem' = [mem EXCEPT ![i] = mem[i] \o bs]
    BY <1>3, <1>20, <2>1
  <2>3. \A x \in 1..Len(bs) : Above(bs[x], q, u)
    BY <1>22, <1>23
  <2>4. ASSUME NEW j \in Iters, NEW x \in 1..Len(mem[j]) PROVE Beneath(mem[j][x], q, u)
    <3>1. Beneath(mem[j][x], t, a)
      BY <1>4, AllBeneath
    <3>2. mem[j] \in Seq(Block)
      BY <1>27
    <3>3. mem[j][x].page \in Nat /\ mem[j][x].page >= 1
      BY <3>2, BlockFacts
    <3>4. t # 0
      BY <3>1, <3>3 DEF Beneath
    <3> QED BY <1>6, <1>8, <3>1, <3>4
  <2> QED BY <1>17, <1>22, <1>27, <2>2, <2>3, <2>4, TakeStep
<1> QED BY <1>35, <1>36

(* The innermost iterator allocates (flecs_iter_calloc).                   *)
LEMMA IterCallocKeeps ==
    ASSUME IInv, LateAnywhere = FALSE, NEW i \in Iters, NEW r \in Requests, IterCalloc(i, r)
    PROVE  IInv' /\ Memory!Take(i)
<1>1. PICK v : v = ServeAll(stack, <<r>>)
  OBVIOUS
<1>2. /\ i \in live /\ Last(cursors).it = i /\ late[i] < MaxLate /\ Room(<<r>>)
      /\ SetStack(v.stack)
      /\ mem' = [mem EXCEPT ![i] = mem[i] \o v.blocks]
      /\ large' = [large EXCEPT ![i] = large[i] + v.large]
      /\ oversized_count' = oversized_count + v.large
      /\ late' = [late EXCEPT ![i] = late[i] + 1]
      /\ cursors' = cursors /\ cursor_count' = cursor_count /\ live' = live
      /\ asserted' = asserted
  BY <1>1 DEF IterCalloc, Innermost
<1>3. /\ cursors \in Seq(Cursor) /\ mem \in [Iters -> Seq(Block)] /\ large \in [Iters -> Nat]
      /\ live \subseteq Iters /\ late \in [Iters -> 0..MaxLate]
  BY TypeFacts
<1>4. PICK t \in Nat, a \in Nat : t = tail_page /\ a = TopSp
  BY TypeFacts
<1>5. PICK n \in Nat : n = Len(cursors)
  BY <1>3, LenProperties
<1>6. cursors # <<>> /\ n >= 1 /\ n \in 1..Len(cursors)
  <2>1. PICK k \in 1..Len(cursors) : cursors[k].it = i
    BY <1>2 DEF IInv, Owned
  <2>2. n >= 1 /\ n \in 1..n
    BY <1>5, <2>1
  <2>3. cursors # <<>>
    BY <1>3, <1>5, <2>2, EmptySeq
  <2> QED BY <1>5, <2>2, <2>3
<1>7. cursors[n].it = i /\ ~cursors[n].is_free
  <2>1. Last(cursors) = cursors[n]
    BY <1>5 DEF Last
  <2> QED BY <1>2, <1>6, <2>1 DEF IInv, TailIsActive
<1>8. t >= 1 /\ a = sp[t]
  <2>1. Before(cursors[n].page, cursors[n].sp, t, a)
    BY <1>4, <1>6 DEF IInv, Ordered
  <2>2. cursors[n].page \in Nat /\ cursors[n].page >= 1
    BY <1>3, <1>6, CursorFacts
  <2>3. t >= 1
    BY <2>1, <2>2 DEF Before
  <2> QED BY <1>4, <2>3 DEF TopSp
<1>9. PICK s : s = stack
  OBVIOUS
<1>10. s.tail = t /\ s.sp[s.tail] = a /\ Stack(s)
  <2>1. s = [pages |-> pages, tail |-> t, sp |-> sp]
    BY <1>4, <1>9 DEF stack
  <2>2. pages \in Nat /\ sp \in [Page -> 0..PageSize] /\ pages <= MaxPages /\ t <= pages
    BY <1>4, TypeFacts
  <2>3. Stack(s)
    BY <1>8, <2>1, <2>2 DEF Stack, Stacks
  <2> QED BY <1>8, <2>1, <2>3
<1>11. Given(s, v, 1)
  <2>1. <<r>> \in [1..1 -> Requests] /\ Len(<<r>>) = 1
    OBVIOUS
  <2>2. s.tail + 1 <= MaxPages
    BY <1>2, <1>4, <1>10, <2>1, StackAssumption DEF Room
  <2> QED BY <1>1, <1>9, <1>10, <2>1, <2>2, ServeAllGives
<1>12. /\ v \in [stack : Stacks, blocks : Seq(Block), large : Nat]
       /\ Stack(v.stack) /\ Grown(s, v.stack)
       /\ \A j \in 1..Len(v.blocks) :
             /\ Above(v.blocks[j], t, a)
             /\ Beneath(v.blocks[j], v.stack.tail, v.stack.sp[v.stack.tail])
  BY <1>10, <1>11 DEF Given
<1>13. v.blocks \in Seq(Block) /\ v.large \in Nat
  BY <1>12
<1>14. /\ pages' \in 0..MaxPages /\ tail_page' \in 0..pages' /\ sp' \in [Page -> 0..PageSize]
       /\ tail_page' \in Nat /\ TopSp' \in Nat
       /\ tail_page' = v.stack.tail /\ TopSp' = v.stack.sp[v.stack.tail]
  BY <1>2, <1>12, StackTypes
<1>15. PICK t2 \in Nat, a2 \in Nat : t2 = tail_page' /\ a2 = TopSp'
  BY <1>14
<1>16. t < t2 \/ (t = t2 /\ a <= a2)
  BY <1>10, <1>12, <1>14, <1>15 DEF Grown
<1>17. PICK bs \in Seq(Block) : bs = v.blocks
  BY <1>13
<1>18. Ordered(cursors', tail_page', TopSp')
  <2>1. Ordered(cursors, t, a)
    BY <1>4 DEF IInv
  <2>2. Ordered(cursors, t2, a2)
    BY <1>3, <1>6, <1>16, <2>1, GrowOrdered
  <2> QED BY <1>2, <1>15, <2>2
<1>19. Owned(cursors', live')
  BY <1>2 DEF IInv
<1>20. Kept(cursors', mem', tail_page', TopSp')
  <2>1. Kept(cursors, mem, t, a) /\ Owned(cursors, live)
    BY <1>4 DEF IInv
  <2>2. \A x \in 1..Len(bs) : Beneath(bs[x], t2, a2)
    BY <1>12, <1>14, <1>15, <1>17
  <2>3. Kept(cursors, [mem EXCEPT ![i] = mem[i] \o bs], t2, a2)
    BY <1>3, <1>5, <1>6, <1>7, <1>16, <2>1, <2>2, GrowKept
  <2> QED BY <1>2, <1>15, <1>17, <2>3
<1>21. TailIsActive'
  BY <1>2 DEF IInv, TailIsActive, Last
<1>22. Counts'
  <2>1. IsFiniteSet(live') /\ cursor_count' = Cardinality(live')
    BY <1>2 DEF IInv, Counts
  <2>2. IsFiniteSet(Parts(large')) /\ oversized_count' = Cardinality(Parts(large'))
    <3>1. IsFiniteSet(Parts(large)) /\ oversized_count = Cardinality(Parts(large))
      BY DEF IInv, Counts
    <3>2. PICK L : L = large'
      OBVIOUS
    <3>3. PICK x \in Nat : x = large[i] + v.large
      BY <1>3, <1>13
    <3>4. L = [large EXCEPT ![i] = x]
      BY <1>2, <3>2, <3>3
    <3>5. /\ IsFiniteSet(Parts(L))
          /\ Cardinality(Parts(L)) = Cardinality(Parts(large)) - large[i] + x
      <4>1. L \in [Iters -> Nat] /\ Differ(large, L, i) /\ L[i] = x
        BY <1>3, <3>4 DEF Differ
      <4> QED BY <1>3, <3>1, <4>1, PartsChange
    <3>6. Cardinality(Parts(large)) \in Nat /\ large[i] \in Nat
      BY <1>3, <3>1, FS_CardinalityType
    <3>7. Cardinality(Parts(L)) = Cardinality(Parts(large)) + v.large
      BY <1>13, <3>3, <3>5, <3>6
    <3> QED BY <1>2, <3>1, <3>2, <3>5, <3>7
  <2>3. \A j \in Iters \ live' : mem'[j] = <<>> /\ large'[j] = 0
    <3>1. \A j \in Iters \ live : mem[j] = <<>> /\ large[j] = 0
      BY DEF IInv, Counts
    <3> QED BY <1>2, <1>3, <3>1
  <2>4. Parts(large)' = Parts(large')
    BY DEF Parts
  <2> QED BY <2>1, <2>2, <2>3, <2>4 DEF Counts
<1>23. TypeOK'
  <2>1. mem' \in [Iters -> Seq(Block)]
    <3>1. mem[i] \in Seq(Block)
      BY <1>3
    <3>2. mem[i] \o v.blocks \in Seq(Block)
      BY <1>13, <3>1, ConcatProperties
    <3> QED BY <1>2, <1>3, <3>2
  <2>2. large' \in [Iters -> Nat]
    BY <1>2, <1>3, <1>13
  <2>3. late' \in [Iters -> 0..MaxLate]
    <3>1. late[i] + 1 \in 0..MaxLate
      BY <1>2, <1>3, StackAssumption
    <3> QED BY <1>2, <1>3, <3>1
  <2>4. cursor_count' \in Nat /\ oversized_count' \in Nat
    BY <1>22, FS_CardinalityType DEF Counts
  <2>5. asserted' \in BOOLEAN
    BY <1>2 DEF IInv
  <2> QED BY <1>2, <1>3, <1>14, <2>1, <2>2, <2>3, <2>4, <2>5 DEF TypeOK, Cursor
<1>24. IInv'
  BY <1>2, <1>18, <1>19, <1>20, <1>21, <1>22, <1>23 DEF IInv
<1>25. Memory!Take(i)
  <2>1. mem' = [mem EXCEPT ![i] = mem[i] \o bs]
    BY <1>2, <1>17
  <2>2. \A x \in 1..Len(bs) : Above(bs[x], t, a)
    BY <1>12, <1>17
  <2>3. \A j \in Iters : \A x \in 1..Len(mem[j]) : Beneath(mem[j][x], t, a)
    BY <1>4, AllBeneath
  <2> QED BY <1>3, <2>1, <2>2, <2>3, TakeStep
<1> QED BY <1>24, <1>25

(* An iterator that is finished gives up its memory.                       *)
LEMMA ReleaseStep ==
    ASSUME NEW i \in Iters, mem \in [Iters -> Seq(Block)], mem' = [mem EXCEPT ![i] = <<>>]
    PROVE  Memory!Release(i)
<1>1. PICK m2 : m2 = mem'
  OBVIOUS
<1>2. m2 = [mem EXCEPT ![i] = <<>>]
  BY <1>1
<1>3. <<>> \in Seq(Block) /\ Len(<<>>) = 0
  OBVIOUS
<1>4. m2 \in [Iters -> Seq(Block)]
  BY <1>2, <1>3
<1>5. m2[i] = <<>> /\ \A j \in Iters : j # i => m2[j] = mem[j]
  BY <1>2
<1>6. Units(m2)[i] = {}
  <2>1. ASSUME NEW x, x \in Units(m2)[i] PROVE FALSE
    <3>1. PICK k \in 1..Len(m2[i]) : x \in Cells(m2[i][k])
      BY <1>4, <2>1, UnitsOf
    <3> QED BY <1>3, <1>5, <3>1
  <2> QED BY <2>1
<1>7. \A j \in Iters : j # i => Units(m2)[j] = Units(mem)[j]
  BY <1>5 DEF Units
<1>8. PICK h : h = Units(mem)
  OBVIOUS
<1>9. PICK h2 : h2 = Units(m2)
  OBVIOUS
<1>10. h = [j \in Iters |-> h[j]] /\ h2 = [j \in Iters |-> h2[j]]
  BY <1>8, <1>9 DEF Units
<1>11. h2 = [h EXCEPT ![i] = {}]
  <2>1. PICK g : g = [h EXCEPT ![i] = {}]
    OBVIOUS
  <2>2. g = [j \in Iters |-> IF j = i THEN {} ELSE h[j]]
    BY <1>10, <2>1
  <2>3. g = h2
    BY <1>6, <1>7, <1>8, <1>9, <1>10, <2>2
  <2> QED BY <2>1, <2>3
<1>12. Held = Units(mem) /\ Held' = Units(mem')
  BY DEF Held, Units, Cells
<1> QED BY <1>1, <1>8, <1>9, <1>11, <1>12 DEF Memory!Release

(* An iterator is finished (flecs_stack_restore_cursor).                   *)
LEMMA IterFiniKeeps ==
    ASSUME IInv, NEW i \in Iters, IterFini(i)
    PROVE  IInv' /\ Memory!Release(i)
<1>1. /\ cursors \in Seq(Cursor) /\ mem \in [Iters -> Seq(Block)] /\ large \in [Iters -> Nat]
      /\ live \subseteq Iters /\ late \in [Iters -> 0..MaxLate]
      /\ pages \in Nat /\ pages <= MaxPages /\ tail_page <= pages
      /\ sp \in [Page -> 0..PageSize]
  BY TypeFacts
<1>2. PICK t \in Nat, a \in Nat : t = tail_page /\ a = TopSp
  BY TypeFacts
<1>3. PICK n \in Nat : n = Len(cursors)
  BY <1>1, LenProperties
<1>4. PICK c : c = CursorOf(i)
  OBVIOUS
<1>5. PICK cs : cs = [cursors EXCEPT ![c].is_free = TRUE]
  OBVIOUS
<1>6. /\ i \in live /\ cursor_count' = cursor_count - 1 /\ Restore(c, cs)
      /\ large' = [large EXCEPT ![i] = 0] /\ oversized_count' = oversized_count - large[i]
      /\ mem' = [mem EXCEPT ![i] = <<>>] /\ late' = [late EXCEPT ![i] = 0]
      /\ live' = live \ {i} /\ pages' = pages
  BY <1>4, <1>5 DEF IterFini, ReleaseLarge
<1>7. c \in 1..n /\ cursors[c].it = i /\ ~cursors[c].is_free
  <2>1. DOMAIN cursors = 1..n
    BY <1>1, <1>3, LenProperties
  <2>2. \E k \in DOMAIN cursors : cursors[k].it = i /\ ~cursors[k].is_free
    BY <1>3, <1>6, <2>1 DEF IInv, Owned
  <2>3. c \in DOMAIN cursors /\ cursors[c].it = i /\ ~cursors[c].is_free
    BY <1>4, <2>2, Zenon DEF CursorOf
  <2> QED BY <2>1, <2>3
<1>8. /\ cs \in Seq(Cursor) /\ Len(cs) = n /\ cs[c].is_free
      /\ \A k \in 1..n : k # c => cs[k] = cursors[k]
  <2>1. c \in 1..Len(cursors)
    BY <1>3, <1>7
  <2>2. cs \in Seq(Cursor) /\ Len(cs) = Len(cursors) /\ cs[c].is_free
    BY <1>1, <1>5, <2>1, FreeFacts
  <2>3. \A k \in 1..Len(cursors) : k # c => cs[k] = cursors[k]
    BY <1>1, <1>5, <2>1, FreeFacts
  <2> QED BY <1>3, <2>2, <2>3
<1>9. Ordered(cs, t, a)
  <2>1. Ordered(cursors, t, a)
    BY <1>2 DEF IInv
  <2> QED BY <1>1, <1>3, <1>5, <1>7, <2>1, FreeOrdered
<1>10. Owned(cs, live')
  <2>1. Owned(cursors, live)
    BY DEF IInv
  <2>2. Owned(cs, live \ {cursors[c].it})
    BY <1>1, <1>3, <1>5, <1>7, <2>1, FreeOwned
  <2> QED BY <1>6, <1>7, <2>2
<1>11. Kept(cs, mem', t, a)
  <2>1. Kept(cursors, mem, t, a) /\ Owned(cursors, live)
    BY <1>2 DEF IInv
  <2>2. Kept(cs, [mem EXCEPT ![i] = <<>>], t, a)
    BY <1>1, <1>3, <1>5, <1>7, <2>1, FreeKept
  <2> QED BY <1>6, <2>2
<1>12. Counts'
  <2>1. IsFiniteSet(live') /\ cursor_count' = Cardinality(live')
    <3>1. IsFiniteSet(live) /\ cursor_count = Cardinality(live)
      BY DEF IInv, Counts
    <3>2. IsFiniteSet(live \ {i}) /\ Cardinality(live \ {i}) = Cardinality(live) - 1
      BY <1>6, <3>1, FS_RemoveElement
    <3> QED BY <1>6, <3>1, <3>2
  <2>2. IsFiniteSet(Parts(large')) /\ oversized_count' = Cardinality(Parts(large'))
    <3>1. IsFiniteSet(Parts(large)) /\ oversized_count = Cardinality(Parts(large))
      BY DEF IInv, Counts
    <3>2. PICK L : L = large'
      OBVIOUS
    <3>3. L \in [Iters -> Nat] /\ Differ(large, L, i) /\ L[i] = 0
      BY <1>1, <1>6, <3>2 DEF Differ
    <3>4. /\ IsFiniteSet(Parts(L))
          /\ Cardinality(Parts(L)) = Cardinality(Parts(large)) - large[i] + L[i]
      BY <1>1, <3>1, <3>3, PartsChange
    <3>5. Cardinality(Parts(large)) \in Nat /\ large[i] \in Nat
      BY <1>1, <3>1, FS_CardinalityType
    <3>6. Cardinality(Parts(L)) = Cardinality(Parts(large)) - large[i]
      BY <3>3, <3>4, <3>5
    <3> QED BY <1>6, <3>1, <3>2, <3>4, <3>6
  <2>3. \A j \in Iters \ live' : mem'[j] = <<>> /\ large'[j] = 0
    <3>1. \A j \in Iters \ live : mem[j] = <<>> /\ large[j] = 0
      BY DEF IInv, Counts
    <3> QED BY <1>1, <1>6, <3>1
  <2>4. Parts(large)' = Parts(large')
    BY DEF Parts
  <2> QED BY <2>1, <2>2, <2>3, <2>4 DEF Counts
<1>13. large' \in [Iters -> Nat] /\ mem' \in [Iters -> Seq(Block)] /\ live' \subseteq Iters
  BY <1>1, <1>6
<1>14. late' \in [Iters -> 0..MaxLate]
  BY <1>1, <1>6, StackAssumption
<1>15. cursor_count' \in Nat /\ oversized_count' \in Nat
  BY <1>12, FS_CardinalityType DEF Counts
<1>r. Memory!Release(i)
  BY <1>1, <1>6, ReleaseStep
<1>16. CASE c # n
  <2>1. cursors' = cs /\ tail_page' = tail_page /\ sp' = sp /\ asserted' = asserted
    BY <1>6, <1>8, <1>16 DEF Restore
  <2>2. TopSp' = TopSp
    BY <2>1 DEF TopSp
  <2>3. TailIsActive'
    <3>1. n \in 1..n /\ cs[n] = cursors[n] /\ cursors # <<>>
      BY <1>1, <1>3, <1>7, <1>8, <1>16
    <3>2. Last(cursors) = cursors[n] /\ Last(cursors') = cs[n]
      BY <1>3, <1>8, <2>1 DEF Last
    <3> QED BY <3>1, <3>2 DEF IInv, TailIsActive
  <2>4. TypeOK'
    <3>1. pages' \in 0..MaxPages /\ tail_page' \in 0..pages' /\ sp' \in [Page -> 0..PageSize]
      BY <1>6, <2>1 DEF IInv, TypeOK
    <3>2. asserted' \in BOOLEAN
      BY <2>1 DEF IInv
    <3> QED BY <1>8, <1>13, <1>14, <1>15, <2>1, <3>1, <3>2 DEF TypeOK, Cursor
  <2>5. asserted' = TRUE
    BY <2>1 DEF IInv
  <2>6. /\ Ordered(cursors', tail_page', TopSp') /\ Owned(cursors', live')
        /\ Kept(cursors', mem', tail_page', TopSp')
    BY <1>2, <1>9, <1>10, <1>11, <2>1, <2>2
  <2> QED BY <1>12, <1>r, <2>3, <2>4, <2>5, <2>6 DEF IInv
<1>17. CASE c = n
  <2>1. PICK f : f = FirstDropped(cs)
    OBVIOUS
  <2>2. f \in 1..n /\ (\A j \in f..n : cs[j].is_free) /\ (f > 1 => ~cs[f - 1].is_free)
    BY <1>7, <1>8, <1>17, <2>1, DroppedFacts
  <2>3. PICK q \in Nat, u \in Nat : q = cs[f].page /\ u = cs[f].sp /\ q >= 1
    BY <1>8, <2>2, CursorFacts
  <2>4. q \in Page /\ u \in 0..PageSize
    <3>1. cs[f] \in Cursor
      BY <1>8, <2>2, CursorFacts
    <3> QED BY <2>3, <3>1 DEF Cursor
  <2>5. PICK ds : ds = SubSeq(cs, 1, f - 1)
    OBVIOUS
  <2>6. /\ cursors' = ds /\ tail_page' = q /\ sp' = [sp EXCEPT ![q] = u]
        /\ asserted' = (/\ asserted
                        /\ (cursor_count' = 0) = (tail_page' = 1 /\ sp'[1] = 0)
                        /\ cursor_count' = 0 => oversized_count' = 0)
    BY <1>6, <1>8, <1>17, <2>1, <2>3, <2>5 DEF Restore, Drop
  <2>7. sp' \in [Page -> 0..PageSize] /\ sp'[q] = u
    BY <1>1, <2>4, <2>6
  <2>8. TopSp' = u
    BY <2>3, <2>6, <2>7 DEF TopSp
  <2>9. PICK k \in Nat : k = f - 1 /\ k < n
    BY <2>2
  <2>10. ds \in Seq(Cursor) /\ Len(ds) = k /\ \A j \in 1..k : ds[j] = cs[j]
    BY <1>8, <2>5, <2>9
  <2>11. Ordered(ds, q, u)
    BY <1>8, <1>9, <2>2, <2>3, <2>5, CutOrdered
  <2>12. Owned(ds, live')
    BY <1>8, <1>10, <2>2, <2>5, CutOwned
  <2>13. Kept(ds, mem', q, u)
    BY <1>8, <1>11, <2>2, <2>3, <2>5, CutKept
  <2>14. TailIsActive'
    <3>1. ASSUME ds # <<>> PROVE ~Last(ds).is_free
      <4>1. k # 0
        BY <2>10, <3>1, EmptySeq
      <4>2. f > 1 /\ k \in 1..k
        BY <2>2, <2>9, <4>1
      <4>3. Last(ds) = cs[k]
        BY <2>10, <4>2 DEF Last
      <4> QED BY <2>2, <2>9, <4>2, <4>3
    <3> QED BY <2>6, <3>1 DEF TailIsActive
  <2>15. live' = {} <=> ds = <<>>
    <3>1. ASSUME live' = {} PROVE ds = <<>>
      <4>1. ASSUME ds # <<>> PROVE FALSE
        <5>1. k # 0
          BY <2>10, <4>1, EmptySeq
        <5>2. k \in 1..k /\ f > 1
          BY <2>2, <2>9, <5>1
        <5>3. ds[k] = cs[k] /\ ~cs[k].is_free
          BY <2>2, <2>9, <2>10, <5>2
        <5>4. ds[k].it \in live'
          BY <2>10, <2>12, <5>2, <5>3 DEF Owned
        <5> QED BY <3>1, <5>4
      <4> QED BY <4>1
    <3>2. ASSUME ds = <<>> PROVE live' = {}
      <4>1. Len(ds) = 0
        BY <3>2
      <4> QED BY <2>12, <4>1 DEF Owned
    <3> QED BY <3>1, <3>2
  <2>16. cursor_count' = 0 <=> live' = {}
    BY <1>12, FS_EmptySet DEF Counts
  <2>17. (q = 1 /\ u = 0) <=> ds = <<>>
    <3>1. ds = <<>> => q = 1 /\ u = 0
      BY <2>3, <2>11 DEF Ordered
    <3>2. ASSUME q = 1, u = 0, ds # <<>> PROVE FALSE
      <4>1. 1 \in 1..Len(ds)
        <5>1. k # 0
          BY <2>10, <3>2, EmptySeq
        <5> QED BY <2>10, <5>1
      <4>2. ds[1].page = 1 /\ ds[1].sp = 0 /\ Before(ds[1].page, ds[1].sp, q, u)
        BY <2>11, <3>2, <4>1 DEF Ordered
      <4> QED BY <3>2, <4>2 DEF Before
    <3> QED BY <3>1, <3>2
  <2>18. (tail_page' = 1 /\ sp'[1] = 0) <=> ds = <<>>
    BY <2>6, <2>7, <2>17
  <2>19. live' = {} => oversized_count' = 0
    <3>1. ASSUME live' = {} PROVE oversized_count' = 0
      <4>1. PICK L : L = large'
        OBVIOUS
      <4>2. L \in [Iters -> Nat] /\ \A j \in Iters : L[j] = 0
        BY <1>12, <1>13, <3>1, <4>1 DEF Counts
      <4>3. Cardinality(Parts(L)) = 0
        BY <4>2, NoParts
      <4>4. oversized_count' = Cardinality(Parts(large)')
        BY <1>12 DEF Counts
      <4>5. Parts(large)' = Parts(L)
        BY <4>1 DEF Parts
      <4> QED BY <4>3, <4>4, <4>5
    <3> QED BY <3>1
  <2>20. asserted' = TRUE
    <3>1. (cursor_count' = 0) = (tail_page' = 1 /\ sp'[1] = 0)
      BY <2>15, <2>16, <2>18
    <3>2. cursor_count' = 0 => oversized_count' = 0
      BY <2>16, <2>19
    <3>3. asserted = TRUE
      BY DEF IInv
    <3> QED BY <2>6, <3>1, <3>2, <3>3
  <2>21. TypeOK'
    <3>1. q <= t
      <4>1. Before(q, u, t, a)
        BY <1>8, <1>9, <2>2, <2>3 DEF Ordered
      <4> QED BY <4>1 DEF Before
    <3>2. pages' \in 0..MaxPages /\ tail_page' \in 0..pages'
      BY <1>1, <1>2, <1>6, <2>6, <3>1, StackAssumption
    <3>3. asserted' \in BOOLEAN
      BY <2>20
    <3>4. cursors' \in Seq(Cursor)
      BY <2>6, <2>10
    <3> QED BY <1>13, <1>14, <1>15, <2>7, <3>2, <3>3, <3>4 DEF TypeOK, Cursor
  <2>22. /\ Ordered(cursors', tail_page', TopSp') /\ Owned(cursors', live')
         /\ Kept(cursors', mem', tail_page', TopSp')
    BY <2>6, <2>8, <2>11, <2>12, <2>13
  <2> QED BY <1>12, <1>r, <2>14, <2>20, <2>21, <2>22 DEF IInv
<1> QED BY <1>16, <1>17

-----------------------------------------------------------------------------
(* It holds at the start, when nothing is held.                            *)
LEMMA StackInit == Init => IInv /\ Memory!ArenaInit
<1> SUFFICES ASSUME Init PROVE IInv /\ Memory!ArenaInit
  OBVIOUS
<1>1. /\ pages = 0 /\ tail_page = 0 /\ sp = [p \in Page |-> 0] /\ cursors = <<>>
      /\ cursor_count = 0 /\ oversized_count = 0
      /\ mem = [i \in Iters |-> <<>>] /\ large = [i \in Iters |-> 0]
      /\ late = [i \in Iters |-> 0] /\ live = {} /\ asserted = TRUE
  BY DEF Init
<1>2. TypeOK
  <2>1. <<>> \in Seq(Block) /\ cursors \in Seq(Cursor)
    BY <1>1
  <2>2. mem \in [Iters -> Seq(Block)] /\ large \in [Iters -> Nat]
    BY <1>1, <2>1
  <2>3. late \in [Iters -> 0..MaxLate] /\ sp \in [Page -> 0..PageSize]
    BY <1>1, StackAssumption
  <2> QED BY <1>1, <2>1, <2>2, <2>3, StackAssumption DEF TypeOK, Cursor
<1>3. TopSp = 0 /\ Len(cursors) = 0
  BY <1>1 DEF TopSp
<1>4. Ordered(cursors, tail_page, TopSp) /\ TailIsActive
  BY <1>1, <1>3 DEF Ordered, TailIsActive
<1>5. Owned(cursors, live) /\ Kept(cursors, mem, tail_page, TopSp)
  BY <1>1, <1>3 DEF Owned, Kept
<1>6. Counts
  <2>1. large \in [Iters -> Nat] /\ \A i \in Iters : large[i] = 0
    BY <1>1
  <2>2. IsFiniteSet(Parts(large)) /\ Cardinality(Parts(large)) = 0
    BY <2>1, NoParts
  <2> QED BY <1>1, <2>2, FS_EmptySet DEF Counts
<1>7. Memory!ArenaInit
  <2>1. Held = Units(mem)
    BY DEF Held, Units, Cells
  <2>2. mem \in [Iters -> Seq(Block)] /\ \A i \in Iters : mem[i] = <<>>
    BY <1>1
  <2>3. ASSUME NEW i \in Iters PROVE Units(mem)[i] = {}
    <3>1. Len(mem[i]) = 0
      BY <2>2
    <3>2. \A x : x \notin Units(mem)[i]
      BY <2>2, <3>1, UnitsOf
    <3> QED BY <3>2
  <2>4. Units(mem) = [i \in Iters |-> Units(mem)[i]]
    BY DEF Units
  <2>5. Units(mem) = [i \in Iters |-> {}]
    BY <2>3, <2>4
  <2> QED BY <2>1, <2>5 DEF Memory!ArenaInit
<1> QED BY <1>1, <1>2, <1>4, <1>5, <1>6, <1>7 DEF IInv

(* Every step keeps it and is a step of the arena.                         *)
LEMMA StackNext ==
    ASSUME LateAnywhere = FALSE, IInv, [Next]_vars
    PROVE  IInv' /\ [Memory!ArenaNext]_Held
<1>1. CASE UNCHANGED vars
  <2>1. /\ pages' = pages /\ tail_page' = tail_page /\ sp' = sp /\ cursors' = cursors
        /\ cursor_count' = cursor_count /\ oversized_count' = oversized_count
        /\ mem' = mem /\ large' = large /\ late' = late /\ live' = live
        /\ asserted' = asserted
    BY <1>1 DEF vars
  <2>2. TypeOK' /\ TopSp' = TopSp /\ TailIsActive' /\ asserted' = TRUE
    BY <2>1 DEF IInv, TypeOK, TopSp, TailIsActive, Last
  <2>3. Parts(large)' = Parts(large)
    BY <2>1 DEF Parts
  <2>4. Counts'
    BY <2>1, <2>3 DEF IInv, Counts
  <2>5. /\ Ordered(cursors', tail_page', TopSp') /\ Owned(cursors', live')
        /\ Kept(cursors', mem', tail_page', TopSp')
    BY <2>1, <2>2 DEF IInv
  <2>6. IInv'
    BY <2>2, <2>4, <2>5 DEF IInv
  <2>7. Held' = Held
    BY <2>1 DEF Held
  <2> QED BY <2>6, <2>7
<1>2. CASE Next
  <2>1. PICK i \in Iters :
          \/ \E n \in 0..MaxInit : \E rs \in [1..n -> Requests] : IterInit(i, rs)
          \/ \E r \in Requests : IterCalloc(i, r)
          \/ IterFini(i)
    BY <1>2, Zenon DEF Next
  <2>2. CASE \E n \in 0..MaxInit : \E rs \in [1..n -> Requests] : IterInit(i, rs)
    <3>1. PICK n \in 0..MaxInit : \E rs \in [1..n -> Requests] : IterInit(i, rs)
      BY <2>2
    <3>2. PICK rs \in [1..n -> Requests] : IterInit(i, rs)
      BY <3>1
    <3>3. n \in Nat
      BY StackAssumption
    <3> QED BY <3>2, <3>3, IterInitKeeps DEF Memory!ArenaNext
  <2>3. CASE \E r \in Requests : IterCalloc(i, r)
    BY <2>3, IterCallocKeeps DEF Memory!ArenaNext
  <2>4. CASE IterFini(i)
    BY <2>4, IterFiniKeeps DEF Memory!ArenaNext
  <2> QED BY <2>1, <2>2, <2>3, <2>4
<1> QED BY <1>1, <1>2

(* It implies the invariants of the stack.                                 *)
LEMMA IInvImplies == IInv => StackInv /\ NothingLeft
<1> SUFFICES ASSUME IInv PROVE StackInv /\ NothingLeft
  OBVIOUS
<1>1. TypeOK /\ AssertionsHold /\ TailIsActive
  BY DEF IInv, AssertionsHold
<1>2. MemoryKept
  <2>1. ASSUME NEW i \in live, NEW b \in ToSet(mem[i])
        PROVE  \/ b.page < tail_page
               \/ b.page = tail_page /\ b.to <= sp[tail_page]
    <3>1. i \in Iters /\ mem[i] \in Seq(Block)
      BY TypeFacts
    <3>2. PICK x \in 1..Len(mem[i]) : b = mem[i][x]
      BY <2>1, <3>1, LenProperties DEF ToSet
    <3>3. Beneath(b, tail_page, TopSp)
      BY <3>1, <3>2, AllBeneath
    <3>4. b.page \in Nat /\ b.page >= 1
      BY <3>1, <3>2, BlockFacts
    <3>5. tail_page \in Nat
      BY TypeFacts
    <3>6. tail_page # 0
      BY <3>3, <3>4, <3>5 DEF Beneath
    <3>7. TopSp = sp[tail_page]
      BY <3>6 DEF TopSp
    <3> QED BY <3>3, <3>7 DEF Beneath
  <2> QED BY <2>1 DEF MemoryKept
<1>3. NothingLeft
  <2>1. ASSUME live = {}
        PROVE  /\ tail_page = 0 \/ (tail_page = 1 /\ sp[1] = 0)
               /\ cursors = <<>> /\ cursor_count = 0 /\ oversized_count = 0
    <3>1. cursors \in Seq(Cursor) /\ large \in [Iters -> Nat]
      BY TypeFacts
    <3>2. cursors = <<>>
      <4>1. ASSUME cursors # <<>> PROVE FALSE
        <5>1. PICK n \in Nat : n = Len(cursors)
          BY <3>1, LenProperties
        <5>2. n # 0
          BY <3>1, <4>1, <5>1, EmptySeq
        <5>3. n \in 1..n
          BY <5>2
        <5>4. ~cursors[n].is_free
          BY <4>1, <5>1 DEF IInv, TailIsActive, Last
        <5>5. cursors[n].it \in live
          BY <5>1, <5>3, <5>4 DEF IInv, Owned
        <5> QED BY <2>1, <5>5
      <4> QED BY <4>1
    <3>3. tail_page = 0 \/ (tail_page = 1 /\ TopSp = 0)
      BY <3>2 DEF IInv, Ordered
    <3>4. tail_page = 1 => TopSp = sp[1]
      BY DEF TopSp
    <3>5. cursor_count = 0
      BY <2>1, FS_EmptySet DEF IInv, Counts
    <3>6. \A i \in Iters : large[i] = 0
      BY <2>1 DEF IInv, Counts
    <3>7. oversized_count = 0
      BY <3>1, <3>6, NoParts DEF IInv, Counts
    <3> QED BY <3>2, <3>3, <3>4, <3>5, <3>7
  <2> QED BY <2>1 DEF NothingLeft
<1> QED BY <1>1, <1>2, <1>3 DEF StackInv

(* Iterators that are finished in any order leave the memory of the others *)
(* alone, the last cursor is active and the assertions of                  *)
(* flecs_stack_restore_cursor hold.                                        *)
THEOREM StackCorrect ==
    ASSUME LateAnywhere = FALSE
    PROVE  Spec => []StackInv
<1>1. Init => IInv
  BY StackInit
<1>2. IInv /\ [Next]_vars => IInv'
  BY StackNext
<1>3. IInv => StackInv
  BY IInvImplies
<1> QED BY <1>1, <1>2, <1>3, PTL DEF Spec

(* When all iterators are finished the stack is as it was at the start.    *)
THEOREM StackEmptied ==
    ASSUME LateAnywhere = FALSE
    PROVE  Spec => []NothingLeft
<1>1. Init => IInv
  BY StackInit
<1>2. IInv /\ [Next]_vars => IInv'
  BY StackNext
<1>3. IInv => NothingLeft
  BY IInvImplies
<1> QED BY <1>1, <1>2, <1>3, PTL DEF Spec

(* The stack implements an arena: iterators get memory that nobody holds,  *)
(* and keep it until they are finished.                                    *)
THEOREM ArenaRefined ==
    ASSUME LateAnywhere = FALSE
    PROVE  Spec => OwnMemory
<1>1. Init => IInv /\ Memory!ArenaInit
  BY StackInit
<1>2. IInv /\ [Next]_vars => IInv' /\ [Memory!ArenaNext]_Held
  BY StackNext
<1> QED BY <1>1, <1>2, PTL DEF Spec, OwnMemory, Memory!ArenaSpec
=============================================================================
