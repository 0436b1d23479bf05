----------------------------- MODULE IterChain -----------------------------
(***************************************************************************)
(* Chained iterators (iter.c): a paged iterator gives the entities of the  *)
(* iterator below it from an offset up to a limit, and a worker iterator   *)
(* gives each of a number of workers its share of every result. They can   *)
(* be put on top of each other; the query iterator at the bottom holds the *)
(* resources and has to be finished once. A system that runs on all stages *)
(* has a worker iterator per stage (addons/system/system.c).               *)
(*                                                                         *)
(* A result of the query is a range of rows of a table, a batch of a list  *)
(* of entities without a table (a search over sparse components), or the   *)
(* single empty result of a query that only has fixed sources. An entity   *)
(* is the number of the result and the row it is in.                       *)
(***************************************************************************)
EXTENDS Integers, Sequences, FiniteSets, SequencesExt

CONSTANTS
    Chains,          \* chains of iterators, the one on the query first
    Workers,         \* number of workers; stage_count for systems
    MaxResults,      \* bound on the results of the query
    MaxCount,        \* bound on the entities of a result
    Batch,           \* FLECS_QUERY_SPARSE_BATCH_SIZE
    Firsts,          \* rows where a result can start in its table
    OffsetOnOffset,  \* whether a page with an offset can be put on results
                     \* that do not start at the first row of a table
    UnlimitedOnEmpty,\* whether a page without a limit can be put on a query
                     \* that matches empty tables
    SharedBatches,   \* whether pages of batches can be divided over workers
    TermlessThreads  \* whether a system without terms can be multi threaded

ASSUME ChainAssumption ==
    /\ Workers \in Nat \ {0} /\ MaxResults \in Nat /\ MaxCount \in Nat
    /\ Batch \in Nat \ {0} /\ Firsts \subseteq Nat
    /\ {OffsetOnOffset, UnlimitedOnEmpty, SharedBatches,
        TermlessThreads} \subseteq BOOLEAN

VARIABLES
    results,         \* what the query yields; empty if it has no terms
    terms,           \* whether the query has terms
    chain,           \* the iterators as they were created
    links,           \* the same with what they have left
    worker,          \* the worker that iterates now
    at,              \* results that its query iterator has yielded
    it,              \* the ecs_iter_t that the links hand upwards
    level,           \* who runs: 0 the query iterator, k link k, or User
    finis,           \* how often the query iterator was finished
    got,             \* what the worker has received
    all,             \* what earlier workers have received
    status           \* of the worker: "open", "ended" or "closed"

vars == <<results, terms, chain, links, worker, at, it, level, finis, got, all,
          status>>

User == -1
NoLimit == 0
Task == -1           \* the row of the result of a query with fixed sources

Page(offset, limit) == [kind |-> "page", offset |-> offset, limit |-> limit,
                        remaining |-> limit]
WorkerLink == [kind |-> "worker"]

----------------------------------------------------------------------------
(***************************************************************************)
(* Results: a part of a table, a batch, or the result of a task.           *)
(***************************************************************************)
Result(n, table, first, count) ==
    [res |-> n, table |-> table, offset |-> first, count |-> count,
     entities |-> first]

TableResults(n) == {Result(n, TRUE, f, c) : f \in Firsts, c \in 0..MaxCount}

\* Only the last batch can be smaller than the others.
Batches(len, last) == [n \in 1..len |->
                          Result(n, FALSE, 0, IF n = len THEN last ELSE Batch)]

QueryResults ==
    UNION {{rs \in [1..len -> UNION {TableResults(n) : n \in 1..len}] :
                \A n \in 1..len : rs[n].res = n} : len \in 0..MaxResults}
    \cup {Batches(len, last) : len \in 1..MaxResults, last \in 1..Batch}
    \cup {<<Result(1, FALSE, 0, 0)>>}

HasOffset(l) == l.kind = "page" /\ l.offset > 0

\* A page with an offset gets results that do not start at row 0.
PageOverOffset(rs, ls) ==
    /\ \E n \in DOMAIN rs : rs[n].table
    /\ \E k \in DOMAIN ls :
           /\ HasOffset(ls[k])
           /\ \/ \E n \in DOMAIN rs : rs[n].offset > 0
              \/ \E j \in 1..(k - 1) : ls[j].kind = "worker" \/ HasOffset(ls[j])

\* A page without a limit gets the empty tables of the query.
UnlimitedOverEmpty(rs, ls) ==
    /\ \E n \in DOMAIN rs : rs[n].table /\ rs[n].count = 0
    /\ ls # <<>> /\ ls[1].kind = "page" /\ ls[1].limit = NoLimit

\* A worker that divides pages: its results depend on those of the page.
DividesPages(ls) == \E j, k \in DOMAIN ls :
                        j < k /\ ls[j].kind = "page" /\ ls[k].kind = "worker"

\* Several batches, of which a page can make a small one.
SharesBatches(rs, ls) == /\ Len(rs) > 1 /\ ~rs[1].table
                         /\ DividesPages(ls)

IsThreaded(ls) == \E k \in DOMAIN ls : ls[k].kind = "worker"

----------------------------------------------------------------------------
Init ==
    /\ chain \in Chains /\ links = chain
    /\ \/ /\ terms = TRUE
          /\ results \in QueryResults
          /\ OffsetOnOffset \/ ~PageOverOffset(results, links)
          /\ UnlimitedOnEmpty \/ ~UnlimitedOverEmpty(results, links)
          /\ SharedBatches \/ ~SharesBatches(results, links)
       \/ /\ terms = FALSE
          /\ results = <<>>
          /\ TermlessThreads \/ ~IsThreaded(links)
          /\ \A k \in DOMAIN links : links[k] = WorkerLink
    /\ worker = 0 /\ at = 0 /\ finis = 0
    /\ it = Result(0, FALSE, 0, 0)
    /\ level = User
    /\ got = <<>> /\ all = <<>>
    /\ status = "open"

\* The iterator i on top returned true.
Yield(k, i) == /\ it' = i
               /\ level' = IF k < Len(links) THEN k + 1 ELSE User
               /\ got' = IF k < Len(links) THEN got
                         ELSE IF ~i.table /\ i.count = 0
                         THEN Append(got, <<i.res, Task>>)
                         ELSE got \o [n \in 1..i.count |->
                                         <<i.res, i.entities + n - 1>>]
               /\ UNCHANGED <<finis, status>>

\* A link asks the iterator below it for more. All of them ask in turn.
Again == level' = 0 /\ UNCHANGED <<it, finis, got, status>>

\* ecs_iter_next returns false to the one on top, which does the same.
ReturnFalse == /\ level' = User /\ status' = "ended"
               /\ UNCHANGED <<it, got>>

\* ecs_iter_fini of a chained iterator finishes the ones below it.
FiniChain == finis' = finis + 1

\* ecs_iter_next of the iterator on top: it is called down to the query.
CallNext ==
    /\ terms /\ status = "open" /\ level = User
    /\ level' = 0
    /\ UNCHANGED <<results, terms, chain, links, worker, at, it, finis, got, all, status>>

\* Faulty variant: an empty result is yielded again.
QueryNextStays ==
    /\ level = 0
    /\ \/ /\ at < Len(results)
          /\ at' = IF results[at + 1].count = 0 THEN at ELSE at + 1
          /\ Yield(0, results[at + 1])
       \/ /\ at = Len(results)
          /\ ReturnFalse
          /\ FiniChain
          /\ UNCHANGED at
    /\ UNCHANGED <<results, terms, chain, links, worker, all>>

\* ecs_query_next: a result, or the end, where it finishes itself.
QueryNext ==
    /\ level = 0
    /\ \/ /\ at < Len(results)
          /\ at' = at + 1
          /\ Yield(0, results[at + 1])
       \/ /\ at = Len(results)
          /\ ReturnFalse
          /\ FiniChain
          /\ UNCHANGED at
    /\ UNCHANGED <<results, terms, chain, links, worker, all>>

(***************************************************************************)
(* ecs_page_next on a result i of the iterator below.                      *)
(***************************************************************************)
\* Apply the limit to a result.
TakeLimit(l, i) ==
    IF l.remaining > i.count
    THEN [l |-> [l EXCEPT !.remaining = @ - i.count], i |-> i]
    ELSE [l |-> [l EXCEPT !.remaining = 0], i |-> [i EXCEPT !.count = l.remaining]]

\* Faulty variant: the offset is not used up by the first result it is applied to.
SkipOffsetKeeps(l, i) ==
    [l |-> l,
     i |-> [i EXCEPT !.offset = l.offset, !.count = @ - l.offset,
                     !.entities = IF i.table THEN l.offset ELSE @ + l.offset]]

\* Apply the offset to a result that has more entities.
SkipOffset(l, i) ==
    [l |-> [l EXCEPT !.offset = 0],
     i |-> [i EXCEPT !.offset = l.offset, !.count = @ - l.offset,
                     !.entities = IF i.table THEN l.offset ELSE @ + l.offset]]

SetLink(k, l) == links' = [links EXCEPT ![k] = l]

\* Faulty variant: the iterator below is left as it is when the limit is hit.
LimitHitKeepsChain(k) == /\ ReturnFalse
                         /\ UNCHANGED <<links, finis>>

\* The limit is hit and there is more: nobody else finishes the chain.
LimitHit(k) == /\ ReturnFalse
               /\ FiniChain
               /\ UNCHANGED links

PageNext(k) ==
    LET l == links[k]
        s == IF l.offset > 0 THEN SkipOffset(l, it) ELSE [l |-> l, i |-> it]
        t == TakeLimit(s.l, s.i)
    IN /\ level = k /\ l.kind = "page"
       /\ \/ /\ ~it.table /\ it.count = 0               \* task query
             /\ Yield(k, it)
             /\ UNCHANGED links
          \/ /\ it.table \/ it.count > 0
             /\ \/ /\ l.offset = 0 /\ l.limit = NoLimit
                   /\ IF it.count > 0 THEN Yield(k, it)
                      ELSE ReturnFalse /\ UNCHANGED finis   \* depleted
                   /\ UNCHANGED links
                \/ /\ l.offset > it.count
                   /\ SetLink(k, [l EXCEPT !.offset = @ - it.count])
                   /\ Again
                \/ /\ l.offset <= it.count
                   /\ l.offset > 0 \/ l.limit # NoLimit
                   /\ \/ /\ l.remaining > 0
                         /\ SetLink(k, t.l)
                         /\ IF t.i.count > 0 THEN Yield(k, t.i) ELSE Again
                      \/ /\ l.remaining = 0 /\ l.limit # NoLimit
                         /\ LimitHit(k)
                      \/ /\ l.limit = NoLimit
                         /\ SetLink(k, s.l)
                         /\ IF s.i.count > 0 THEN Yield(k, s.i) ELSE Again
       /\ UNCHANGED <<results, terms, chain, worker, at, all>>

(***************************************************************************)
(* ecs_worker_next: the entities of a result are divided evenly, and the   *)
(* first workers take one more each of what is left over.                  *)
(***************************************************************************)
\* Faulty variant: the start of a share is not moved by what earlier workers took more.
ShareOverlaps(n, w) ==
    LET rest == n % Workers
    IN [first |-> (n \div Workers) * w,
        count |-> (n \div Workers) + IF w < rest THEN 1 ELSE 0]

Share(n, w) ==
    LET per_worker == n \div Workers
        rest == n % Workers
    IN [first |-> per_worker * w + IF w < rest THEN w ELSE rest,
        count |-> per_worker + IF w < rest THEN 1 ELSE 0]

WorkerNext(k) ==
    LET share == Share(it.count, worker)
    IN /\ level = k /\ links[k].kind = "worker"
       /\ \/ /\ share.count = 0 /\ ~it.table
             /\ IF worker = 0 THEN Yield(k, it)
                ELSE ReturnFalse /\ FiniChain
          \/ /\ share.count = 0 /\ it.table
             /\ Again
          \/ /\ share.count > 0
             /\ Yield(k, [it EXCEPT !.offset = @ + share.first,
                                    !.count = share.count,
                                    !.entities = IF it.table
                                        THEN it.offset + share.first
                                        ELSE @ + share.first])
       /\ UNCHANGED <<results, terms, chain, links, worker, at, all>>

\* ecs_iter_fini of the iterator on top, before the end is reached.
IterFini ==
    /\ terms /\ status = "open" /\ level = User
    /\ FiniChain
    /\ status' = "closed"
    /\ UNCHANGED <<results, terms, chain, links, worker, at, it, level, got, all>>

\* flecs_run_system for a system without terms: the callback is called with
\* the query iterator, which is finished after it.
RunTask ==
    /\ ~terms /\ status = "open"
    /\ got' = <<<<0, Task>>>>
    /\ FiniChain
    /\ status' = "ended"
    /\ UNCHANGED <<results, terms, chain, links, worker, at, it, level, all>>

\* The next worker has an iterator of its own on the same results. The order
\* does not matter: workers only read.
NextWorker ==
    /\ status = "ended"
    /\ IsThreaded(chain) /\ worker < Workers - 1
    /\ worker' = worker + 1
    /\ all' = all \o got
    /\ links' = chain
    /\ at' = 0 /\ finis' = 0 /\ got' = <<>> /\ status' = "open"
    /\ UNCHANGED <<results, terms, chain, it, level>>

Running == QueryNext \/ \E k \in DOMAIN links : PageNext(k) \/ WorkerNext(k)

Next == CallNext \/ Running \/ IterFini \/ RunTask \/ NextWorker

\* A call of next runs until it returns.
Spec == Init /\ [][Next]_vars /\ WF_vars(Running)

----------------------------------------------------------------------------
Iter == [res : 0..MaxResults, table : BOOLEAN, offset : Nat, count : Nat,
         entities : Nat]

\* Every variable has its type: offsets, counts and limits never go below 0.
TypeOK ==
    /\ results \in Seq(Iter) /\ terms \in BOOLEAN
    /\ chain \in Chains /\ Len(links) = Len(chain)
    /\ \A k \in DOMAIN links :
           links[k].kind = "page" => /\ links[k].offset \in 0..chain[k].offset
                                     /\ links[k].remaining \in 0..chain[k].limit
    /\ worker \in 0..(Workers - 1)
    /\ at \in 0..Len(results)
    /\ it \in Iter
    /\ level \in {User} \cup 0..Len(links)
    /\ finis \in Nat
    /\ got \in Seq(Nat \X (Nat \cup {Task})) /\ all \in Seq(Nat \X (Nat \cup {Task}))
    /\ status \in {"open", "ended", "closed"}

(***************************************************************************)
(* What a chain promises, as a sequence of results with their entities.    *)
(***************************************************************************)
Entities(r) == IF ~r.table /\ r.count = 0 THEN <<<<r.res, Task>>>>
               ELSE [n \in 1..r.count |-> <<r.res, r.entities + n - 1>>]

IsTask(pieces) == \E n \in DOMAIN pieces : pieces[n] = <<<<1, Task>>>>

\* At most limit entities, from the one at the offset on.
PageRef(pieces, l) ==
    LET flat == FlattenSeq(pieces)
        end == IF l.limit = NoLimit \/ l.offset + l.limit > Len(flat)
               THEN Len(flat) ELSE l.offset + l.limit
    IN IF IsTask(pieces) THEN pieces ELSE <<SubSeq(flat, l.offset + 1, end)>>

\* Shares of n entities start where the share of the worker before ends, and
\* none is larger than the one before or smaller by more than one.
StartOf(n, w) == CHOOSE f \in [0..Workers -> 0..n] :
                     /\ f[0] = 0 /\ f[Workers] = n
                     /\ \A v \in 1..Workers : f[v - 1] <= f[v]
                     /\ \A u, v \in 1..Workers : u < v =>
                            f[u] - f[u - 1] - (f[v] - f[v - 1]) \in {0, 1}

ShareRef(pieces, w) ==
    [n \in DOMAIN pieces |->
        IF IsTask(pieces) THEN IF w = 0 THEN pieces[n] ELSE <<>>
        ELSE LET f == StartOf(Len(pieces[n]), w)
             IN SubSeq(pieces[n], f[w] + 1, f[w + 1])]

ChainRef(ls, w) ==
    FoldLeft(LAMBDA pieces, l : IF l.kind = "page" THEN PageRef(pieces, l)
                                ELSE ShareRef(pieces, w),
             [n \in DOMAIN results |-> Entities(results[n])], ls)

\* A chain of pages over shares of a query hands out the entities from its
\* offsets up to its limits, in order, wherever the results of the query
\* begin and end (flecs.h, ecs_page_iter).
ResultsExact ==
    status = "ended" /\ terms /\ ~DividesPages(chain)
        => got = FlattenSeq(ChainRef(chain, worker))

\* Workers that divide a query or a page of it get every entity once between
\* them, and a task is run once (flecs.h, ecs_worker_iter; Systems.md).
EachOnce ==
    status = "ended" /\ worker = Workers - 1 /\ IsThreaded(chain)
                     /\ Last(chain).kind = "worker"
        => LET expected == IF terms THEN FlattenSeq(ChainRef(Front(chain), 0))
                           ELSE <<<<0, Task>>>>
               received == all \o got
           IN /\ Len(received) = Len(expected)
              /\ ToSet(received) = ToSet(expected)

\* The query iterator is finished once: by itself, by the page or share that
\* stops before its end, or by the caller who stops earlier.
FinishedOnce == finis = IF status = "open" THEN 0 ELSE 1

\* What the links have left is within what they were given, and resources
\* are released exactly once.
ChainInv == TypeOK /\ FinishedOnce

\* A call of next comes back: links that skip results do not skip forever.
NextReturns == level = 0 ~> level = User
=============================================================================
