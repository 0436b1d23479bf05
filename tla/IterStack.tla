----------------------------- MODULE IterStack -----------------------------
(***************************************************************************)
(* The stack allocator (datastructures/stack_allocator.c) as iterators use *)
(* it (iter.c): an iterator takes a cursor when it is created, allocates   *)
(* its arrays behind it, may allocate more while it is advanced, and       *)
(* restores the cursor when it is finished. Iterators of one stage share   *)
(* one stack and can be finished in any order; a cursor that is not the    *)
(* last one is only marked, and its memory goes with the last one.         *)
(*                                                                         *)
(* Memory is counted in units: a page has PageSize of them, the units of   *)
(* the stack are numbered across pages, and a cursor takes one unit. The   *)
(* list of cursors, linked from the last to the first, is a sequence.      *)
(***************************************************************************)
EXTENDS Integers, Sequences, FiniteSets, SequencesExt

CONSTANTS
    Iters,           \* iterators
    PageSize,        \* FLECS_STACK_PAGE_SIZE
    MaxPages,        \* bound on the pages of the stack
    Sizes,           \* sizes of allocations
    Aligns,          \* their alignments
    MaxInit,         \* bound on the arrays of a new iterator
    MaxLate,         \* bound on the allocations of an advanced iterator
    LateAnywhere     \* whether an iterator can allocate when it is not the
                     \* last one that was created

ASSUME StackAssumption ==
    /\ PageSize \in Nat \ {0} /\ MaxPages \in Nat \ {0}
    /\ Sizes \subseteq Nat \ {0} /\ Aligns \subseteq Nat \ {0}
    /\ MaxInit \in Nat /\ MaxLate \in Nat
    /\ LateAnywhere \in BOOLEAN

VARIABLES
    pages,           \* number of pages allocated
    tail_page,       \* index of the page allocations come from; 0: none
    sp,              \* stack pointer of each page
    cursors,         \* the cursors, the tail cursor last
    cursor_count,    \* debug count of active cursors
    oversized_count, \* debug count of allocations larger than a page
    mem,             \* the blocks an iterator was given, as [page, from, to]
    large,           \* the number of larger allocations it holds
    late,            \* allocations it made while it was advanced
    live,            \* iterators that were created and not finished
    asserted         \* FALSE once an assertion failed

vars == <<pages, tail_page, sp, cursors, cursor_count, oversized_count, mem,
          large, late, live, asserted>>

stack == [pages |-> pages, tail |-> tail_page, sp |-> sp]

Page == 1..MaxPages

Aligned(n, align) == ((n + align - 1) \div align) * align

(***************************************************************************)
(* flecs_stack_alloc and flecs_stack_get_cursor on a stack s. An           *)
(* allocation that does not fit in what is left of the page goes to the    *)
(* next page, which may be there from earlier.                             *)
(***************************************************************************)
\* The page list is created by whoever comes first.
EnsurePage(s) == IF s.tail # 0 THEN s
                 ELSE [pages |-> 1, tail |-> 1, sp |-> [s.sp EXCEPT ![1] = 0]]

Alloc(s0, size, align) ==
    LET s == EnsurePage(s0)
        from == Aligned(s.sp[s.tail], align)
        fits == from + size <= PageSize
        p == IF fits THEN s.tail ELSE s.tail + 1
        f == IF fits THEN from ELSE 0
    IN [stack |-> [pages |-> IF p > s.pages THEN p ELSE s.pages, tail |-> p,
                   sp |-> [s.sp EXCEPT ![p] = f + size]],
        block |-> [page |-> p, from |-> f, to |-> f + size]]

\* The size of a cursor, and its position: where the stack was before it.
CursorSize == 1

GetCursor(s0, i) ==
    LET s == EnsurePage(s0)
        a == Alloc(s, CursorSize, 1)
    IN [stack |-> a.stack, block |-> a.block,
        cursor |-> [it |-> i, page |-> s.tail, sp |-> s.sp[s.tail],
                    is_free |-> FALSE]]

\* A request: an allocation larger than a page does not touch the stack.
Requests == Sizes \X Aligns

TooLarge(r) == r[1] > PageSize

\* Serve a request: the stack and the blocks handed out so far.
Serve(acc, r) ==
    IF TooLarge(r) THEN [acc EXCEPT !.large = @ + 1]
    ELSE LET a == Alloc(acc.stack, r[1], r[2])
         IN [acc EXCEPT !.stack = a.stack, !.blocks = Append(@, a.block)]

\* After the first k requests, for every k.
Served(s, rs) ==
    LET served[k \in 0..Len(rs)] ==
            IF k = 0 THEN [stack |-> s, blocks |-> <<>>, large |-> 0]
            ELSE Serve(served[k - 1], rs[k])
    IN  served

ServeAll(s, rs) == Served(s, rs)[Len(rs)]

SetStack(s) == pages' = s.pages /\ tail_page' = s.tail /\ sp' = s.sp

\* Bound: the requests leave room on the pages of the instance.
Room(rs) == tail_page + Len(rs) + 1 <= MaxPages

----------------------------------------------------------------------------
Init ==
    /\ pages = 0 /\ tail_page = 0
    /\ sp = [p \in Page |-> 0]
    /\ cursors = <<>>
    /\ cursor_count = 0 /\ oversized_count = 0
    /\ mem = [i \in Iters |-> <<>>]
    /\ large = [i \in Iters |-> 0]
    /\ late = [i \in Iters |-> 0]
    /\ live = {}
    /\ asserted = TRUE

(***************************************************************************)
(* A new iterator: its cursor, then its arrays (flecs_iter_init and        *)
(* flecs_query_iter).                                                      *)
(***************************************************************************)
IterInit(i, rs) ==
    /\ i \notin live
    /\ Room(rs)
    /\ LET c == GetCursor(stack, i)
           served == ServeAll(c.stack, rs)
       IN /\ SetStack(served.stack)
          /\ cursors' = Append(cursors, c.cursor)
          /\ mem' = [mem EXCEPT ![i] = <<c.block>> \o served.blocks]
          /\ large' = [large EXCEPT ![i] = served.large]
          /\ oversized_count' = oversized_count + served.large
    /\ cursor_count' = cursor_count + 1
    /\ live' = live \cup {i}
    /\ UNCHANGED <<late, asserted>>

\* The last iterator that was created and not finished.
Innermost(i) == i \in live /\ Last(cursors).it = i

(***************************************************************************)
(* An iterator that is advanced allocates (flecs_iter_calloc): the arrays  *)
(* of a search over sparse components at the first ecs_query_next, entries *)
(* of the cache for upward traversal at any of them.                       *)
(***************************************************************************)
IterCalloc(i, r) ==
    /\ i \in live
    /\ LateAnywhere \/ Innermost(i)
    /\ late[i] < MaxLate
    /\ Room(<<r>>)
    /\ LET served == ServeAll(stack, <<r>>)
       IN /\ SetStack(served.stack)
          /\ mem' = [mem EXCEPT ![i] = @ \o served.blocks]
          /\ large' = [large EXCEPT ![i] = @ + served.large]
          /\ oversized_count' = oversized_count + served.large
    /\ late' = [late EXCEPT ![i] = @ + 1]
    /\ UNCHANGED <<cursors, cursor_count, live, asserted>>

(***************************************************************************)
(* flecs_stack_restore_cursor. The cursors that are dropped with the last  *)
(* one are the free ones right before it.                                  *)
(***************************************************************************)
CursorOf(i) == CHOOSE k \in DOMAIN cursors :
                   cursors[k].it = i /\ ~cursors[k].is_free

\* Faulty variant: only the last cursor is dropped.
FirstDroppedLastOnly(cs) == Len(cs)

\* Faulty variant: an active cursor between free ones is dropped as well.
FirstDroppedAnyFree(cs) == CHOOSE k \in DOMAIN cs :
                               /\ cs[k].is_free
                               /\ \A j \in 1..(k - 1) : ~cs[j].is_free

FirstDropped(cs) ==
    CHOOSE k \in DOMAIN cs : /\ \A j \in k..Len(cs) : cs[j].is_free
                             /\ k > 1 => ~cs[k - 1].is_free

\* flecs_iter_free of the arrays of an iterator.
ReleaseLarge(i) ==
    /\ large' = [large EXCEPT ![i] = 0]
    /\ oversized_count' = oversized_count - large[i]

\* Drop the cursors from position k and free the memory behind it.
Drop(cs, k) ==
    /\ cursors' = SubSeq(cs, 1, k - 1)
    /\ tail_page' = cs[k].page
    /\ sp' = [sp EXCEPT ![cs[k].page] = cs[k].sp]
    /\ asserted' = (/\ asserted
                    /\ (cursor_count' = 0) = (tail_page' = 1 /\ sp'[1] = 0)
                    /\ cursor_count' = 0 => oversized_count' = 0)

\* Faulty variant: memory is freed although later cursors are active.
RestoreAnywhere(c, cs) == Drop(cs, c)

Restore(c, cs) ==
    IF c # Len(cs) THEN /\ cursors' = cs
                        /\ UNCHANGED <<tail_page, sp, asserted>>
    ELSE Drop(cs, FirstDropped(cs))

\* ecs_iter_fini and flecs_query_iter_fini.
IterFini(i) ==
    /\ i \in live
    /\ cursor_count' = cursor_count - 1
    /\ ReleaseLarge(i)
    /\ LET c == CursorOf(i)
       IN Restore(c, [cursors EXCEPT ![c].is_free = TRUE])
    /\ mem' = [mem EXCEPT ![i] = <<>>]
    /\ late' = [late EXCEPT ![i] = 0]
    /\ live' = live \ {i}
    /\ UNCHANGED pages

Next == \E i \in Iters :
            \/ \E n \in 0..MaxInit : \E rs \in [1..n -> Requests] : IterInit(i, rs)
            \/ \E r \in Requests : IterCalloc(i, r)
            \/ IterFini(i)

Symmetry == Permutations(Iters)

Spec == Init /\ [][Next]_vars

----------------------------------------------------------------------------
Block == [page : Page, from : 0..PageSize, to : 0..PageSize]

\* Every variable has its type, and no stack pointer leaves its page.
TypeOK ==
    /\ pages \in 0..MaxPages /\ tail_page \in 0..pages
    /\ sp \in [Page -> 0..PageSize]
    /\ cursors \in Seq([it : Iters, page : Page, sp : 0..PageSize,
                        is_free : BOOLEAN])
    /\ cursor_count \in Nat /\ oversized_count \in Nat
    /\ mem \in [Iters -> Seq(Block)]
    /\ large \in [Iters -> Nat] /\ late \in [Iters -> 0..MaxLate]
    /\ live \subseteq Iters
    /\ asserted \in BOOLEAN

\* The assertions of flecs_stack_restore_cursor hold: with the last active
\* cursor everything on the stack is gone, the large allocations included,
\* and before that something is left.
AssertionsHold == asserted

\* Memory of an unfinished iterator is below the stack pointer, where no
\* later allocation can get it: finishing the iterators around it, in
\* whatever order, does not free it.
MemoryKept ==
    \A i \in live : \A b \in ToSet(mem[i]) :
        \/ b.page < tail_page
        \/ b.page = tail_page /\ b.to <= sp[tail_page]

\* When all iterators are finished the stack is as it was at the start, as
\* flecs_stack_fini asserts at the end of a stage.
NothingLeft ==
    live = {} => /\ tail_page = 0 \/ (tail_page = 1 /\ sp[1] = 0)
                 /\ cursors = <<>> /\ cursor_count = 0 /\ oversized_count = 0

\* An active cursor is the last one, or there is none: what a finished
\* iterator held does not outlive the iterators created after it.
TailIsActive == cursors # <<>> => ~Last(cursors).is_free

\* The stack is in order whichever iterators are open: assertions hold, the
\* last cursor is active and the memory in use is below the stack pointer.
StackInv == TypeOK /\ AssertionsHold /\ TailIsActive /\ MemoryKept

\* The units that an iterator was given.
Held == [i \in Iters |->
            UNION {{b.page} \X (b.from..(b.to - 1)) : b \in ToSet(mem[i])}]

Memory == INSTANCE Arena WITH Owners <- Iters, held <- Held

\* Iterators get memory that no unfinished iterator has, and keep it until
\* they are finished (Iter_interleaved_iter and Basic_iter_interleaved).
OwnMemory == Memory!ArenaSpec
=============================================================================
