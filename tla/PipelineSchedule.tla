-------------------------- MODULE PipelineSchedule --------------------------
(* How a pipeline turns its systems into operations, batches of systems    *)
(* with a merge after each (flecs_pipeline_build), and how it goes on in   *)
(* the middle of a frame when a merge changed the systems                  *)
(* (addons/pipeline/pipeline.c). WorkerSync models the threads that run    *)
(* one operation; here running one is a single step.                       *)
EXTENDS Integers, Sequences, SequencesExt

CONSTANTS
    Pipelines,   \* sequences of systems, given by their terms and flags, in
                 \* the order of the pipeline query
    Careless     \* calls of the application that upset the schedule

(* "disable": every system that ran so far is disabled in mid-frame.       *)
(* "rerun": systems change during a second run of the pipeline in a frame. *)
(* "aperiodic": EcsAperiodicEmptyQueries while a query has empty tables.   *)
ASSUME CarelessAssumption == Careless \subseteq {"disable", "rerun", "aperiodic"}

VARIABLES
    kind,     \* terms and flags of each system
    enabled,  \* systems that the pipeline query matches
    tables,   \* systems whose query has a table in its cache
    matched,  \* systems whose query has an entity in one of those tables
    active,   \* systems without the Empty tag
    dirty,    \* the match count of the pipeline query is not pq->match_count
    pq,       \* ecs_pipeline_state_t
    ran,      \* systems whose last_frame is the current frame
    phase,    \* "idle", "run" (ecs_run_pipeline) or "progress" (ecs_progress)
    due,      \* history: systems enabled and active since the run began
    log,      \* history: the batches of this run, each with its flags
    fresh     \* history: no system had run in the frame when the run began

Systems == DOMAIN kind

queries == <<tables, matched, active>>
vars == <<kind, enabled, queries, dirty, pq, ran, phase, due, log, fresh>>

Null == 0

-----------------------------------------------------------------------------
(* Ids are <<component>> or <<relationship, target>>; 0 is a wildcard.     *)

AnyId == <<0>>
IsWildcard(id) == \E i \in DOMAIN id : id[i] = 0

(* ecs_id_match; only an id of the same shape matches a wildcard.           *)
Matches(id, pattern) ==
    Len(id) = Len(pattern) /\ \A i \in DOMAIN id : pattern[i] \in {0, id[i]}

(* ecs_write_state_t: ids that commands of the current batch may change.   *)
NoWrites == [barrier |-> FALSE, ids |-> {}]

(* flecs_pipeline_get_write_state.                                         *)
Staged(ws, id) ==
    \/ ws.barrier
    \/ id = AnyId /\ ws.ids # {}
    \/ \E w \in ws.ids : IF IsWildcard(w) THEN Matches(id, w) ELSE Matches(w, id)

(* flecs_pipeline_set_write_state.                                         *)
SetStaged(ws, id) ==
    IF id = AnyId THEN [ws EXCEPT !.barrier = TRUE] ELSE [ws EXCEPT !.ids = @ \cup {id}]

(* The access a term stands for when the application states none.          *)
InOut(t) == IF t.inout # "default" THEN t.inout
            ELSE CASE t.src = "none"  -> "none"
                   [] t.src = "fixed" -> "in"
                   [] t.src = "this"  -> "inout"

(* A term by which a system says that it enqueues commands for the id.     *)
Writes(t) == /\ InOut(t) \in {"out", "inout"}
             /\ t.src # "this" \/ (t.not /\ InOut(t) = "out")

(* A term that is matched with, or read from, the main storage.            *)
Reads(t) == /\ t.inout # "filter"
            /\ t.src = "this" \/ InOut(t) \in {"in", "inout"}

(* flecs_pipeline_check_terms: terms of $this first. A write is recorded   *)
(* unless the term on $this already asked for a merge.                     *)
CheckTerms(k, is_active, ws) ==
    LET this == SelectSeq(k.terms, LAMBDA t : t.src = "this")
        others == SelectSeq(k.terms, LAMBDA t : t.src # "this")
        Step(acc, t) ==
            LET hit == Reads(t) /\ Staged(acc.ws, t.id)
            IN  [merge |-> acc.merge \/ hit,
                 ws |-> IF Writes(t) /\ is_active /\ ~(hit /\ t.src = "this")
                        THEN SetStaged(acc.ws, t.id) ELSE acc.ws]
    IN  FoldLeft(Step, [merge |-> FALSE, ws |-> ws], this \o others)

-----------------------------------------------------------------------------
(* flecs_pipeline_build.                                                   *)

NewOp(offset) == [offset |-> offset, count |-> 0, mt |-> FALSE, imm |-> FALSE]

Build0 == [ws |-> NoWrites, ops |-> <<>>, systems |-> <<>>,
           mt |-> FALSE, imm |-> FALSE, first |-> TRUE, sound |-> TRUE]

(* Faulty variant of Reevaluate: the writes of the system are forgotten.   *)
ReevaluateNothing(k, is_active) == [merge |-> FALSE, ws |-> NoWrites]

(* The terms of a system that follows a merge; an inactive one writes      *)
(* nothing.                                                                *)
Reevaluate(k, is_active) ==
    IF is_active THEN CheckTerms(k, TRUE, NoWrites) ELSE [merge |-> FALSE, ws |-> NoWrites]

(* Faulty variant of AddSystem: a change of flags ends no operation.       *)
AddSystemKeepsOp(b, s, is_active) ==
    LET k == kind[s]
        check == CheckTerms(k, is_active, b.ws)
        ops == IF b.ops = <<>> \/ (check.merge /\ Last(b.ops).count > 0)
               THEN Append(b.ops, NewOp(Len(b.systems))) ELSE b.ops
        n == Len(ops)
    IN  [b EXCEPT !.ws = IF check.merge THEN CheckTerms(k, is_active, NoWrites).ws ELSE check.ws,
                  !.ops = IF is_active THEN [ops EXCEPT ![n].count = @ + 1,
                              ![n].mt = IF ops[n].count = 0 THEN k.mt ELSE @,
                              ![n].imm = IF ops[n].count = 0 THEN k.imm ELSE @] ELSE ops,
                  !.systems = IF is_active THEN Append(@, s) ELSE @]

(* The operation for the next system: a new one after a merge, unless the  *)
(* last one is still empty.                                                *)
OpsFor(b, merge) ==
    IF b.ops = <<>> \/ (merge /\ Last(b.ops).count > 0)
    THEN Append(b.ops, NewOp(Len(b.systems))) ELSE b.ops

(* The flags of an operation are those of its first system.                *)
AddTo(op, mt, imm) ==
    [op EXCEPT !.count = @ + 1, !.mt = IF op.count > 0 THEN @ ELSE mt,
               !.imm = IF op.count > 0 THEN @ ELSE imm]

(* One iteration of the loop over the systems that the query matches. An   *)
(* inactive system is not run, and its writes do not count, but it ends an *)
(* operation if what it reads was written.                                 *)
AddSystem(b, s, is_active) ==
    LET k == kind[s]
        check == CheckTerms(k, is_active, b.ws)
        mt == IF is_active THEN k.mt ELSE b.mt
        imm == IF is_active THEN k.imm ELSE b.imm
        merge == \/ check.merge \/ imm
                 \/ is_active /\ ~b.first /\ <<k.mt, k.imm>> # <<b.mt, b.imm>>
        again == Reevaluate(k, is_active)
        Placed(ops) == IF is_active THEN [ops EXCEPT ![Len(ops)] = AddTo(@, mt, imm)] ELSE ops
    IN  [ws |-> IF merge THEN again.ws ELSE check.ws,
         ops |-> Placed(OpsFor(b, merge)),
         systems |-> IF is_active THEN Append(b.systems, s) ELSE b.systems,
         mt |-> mt, imm |-> imm, first |-> b.first /\ ~is_active,
         sound |-> b.sound /\ ~(merge /\ again.merge)]

(* Faulty variant of Resume: goes on where it was in the old schedule.     *)
ResumeInPlace(q, sys, ops, rn) == [op |-> q.cur_op, i |-> q.cur_i]

(* Where the schedule continues: after the last of the systems that has    *)
(* run in this frame. If none has, the pointer stays what it was.          *)
Resume(q, sys, ops, rn) ==
    LET done == {i \in DOMAIN sys : sys[i] \in rn}
        at == CHOOSE i \in done : \A j \in done : j <= i
        next == {n \in DOMAIN ops : ops[n].offset + ops[n].count > at}
    IN  IF done = {} THEN [op |-> q.cur_op, i |-> q.cur_i]
        ELSE IF next = {} THEN [op |-> Null, i |-> 0]
        ELSE [op |-> CHOOSE n \in next : \A m \in next : n <= m, i |-> at - 1]

(* An operation without systems at the end is dropped.                     *)
Trimmed(ops) ==
    IF Len(ops) > 1 /\ Last(ops).count = 0 THEN Front(ops) ELSE ops

(* The operations follow each other.                                       *)
Tiled(ops) ==
    \A m \in DOMAIN ops :
        ops[m].offset = IF m = 1 THEN 0 ELSE ops[m - 1].offset + ops[m - 1].count

(* b is stored, with operations ops and position at. The array is reused:  *)
(* what is past the count remains. sound records the assertions on the way.*)
Store(q, b, ops, at) ==
    [ops |-> b.ops \o SubSeq(q.ops, Len(b.ops) + 1, Len(q.ops)), count |-> Len(ops),
     systems |-> b.systems, cur_op |-> at.op, cur_i |-> at.i,
     sound |-> q.sound /\ b.sound /\ Tiled(ops) /\ (ops # <<>> => at.op <= Len(ops))]

(* The systems en are matched, those in act are active and those in rn ran *)
(* in this frame.                                                          *)
Build(q, en, act, rn) ==
    LET Add(b, s) == AddSystem(b, s, s \in act)
        Stored(b) == Store(q, b, Trimmed(b.ops), Resume(q, b.systems, Trimmed(b.ops), rn))
    IN  Stored(FoldLeft(Add, Build0, SetToSortSeq(en, <)))

(* Faulty variant of NextSystem: an operation without systems is not left. *)
NextSystemNotEmpty(q) ==
    IF q.cur_op = Null \/ q.ops[q.cur_op].count = 0 THEN q
    ELSE LET end == q.ops[q.cur_op].offset + q.ops[q.cur_op].count
             next == IF q.cur_op + 1 > q.count THEN Null ELSE q.cur_op + 1
         IN  [q EXCEPT !.cur_i = @ + 1, !.cur_op = IF q.cur_i + 1 < end THEN @ ELSE next]

(* flecs_pipeline_next_system.                                             *)
NextSystem(q) ==
    IF q.cur_op = Null THEN q
    ELSE LET end == q.ops[q.cur_op].offset + q.ops[q.cur_op].count
             next == IF q.cur_op + 1 > q.count THEN Null ELSE q.cur_op + 1
         IN  [q EXCEPT !.cur_i = @ + 1, !.cur_op = IF q.cur_i + 1 < end THEN @ ELSE next]

(* The start of the schedule.                                              *)
First(q) == [q EXCEPT !.cur_op = IF q.ops = <<>> THEN Null ELSE 1, !.cur_i = 0]

(* flecs_pipeline_update with the systems as they are after the merge.     *)
Update(q, start_of_frame, stale) ==
    LET built == IF stale THEN Build(q, enabled', active', ran') ELSE q
    IN  IF start_of_frame THEN First(built) ELSE NextSystem(built)

-----------------------------------------------------------------------------
(* What the application, or the merge of its commands, does to systems.    *)

(* A task has no entities to match: its query is always true.              *)
IsTask(s) == \A n \in DOMAIN kind[s].terms : kind[s].terms[n].src # "this"

(* ecs_enable.                                                             *)
Enable(s) == s \notin enabled /\ enabled' = enabled \cup {s} /\ UNCHANGED queries
Disable(s) == s \in enabled /\ enabled' = enabled \ {s} /\ UNCHANGED queries

(* The query of a system gets an entity. flecs_query_cache_add_table takes *)
(* the Empty tag off with the first table of the cache.                    *)
Match(s) ==
    /\ ~IsTask(s) /\ s \notin matched
    /\ matched' = matched \cup {s}
    /\ tables' = tables \cup {s}
    /\ active' = IF s \in tables THEN active ELSE active \cup {s}
    /\ UNCHANGED enabled

(* The last entity goes; its table stays, and the system stays active, so  *)
(* that a run takes no notice: it happens between runs.                    *)
Unmatch(s) == s \in matched /\ matched' = matched \ {s} /\ UNCHANGED <<enabled, tables, active>>

Change == \E s \in Systems : Enable(s) \/ Disable(s) \/ Match(s)

(* The pipeline query sorts its tables again, which counts as a match.     *)
Touched == <<enabled', enabled' \cap active'>> # <<enabled, enabled \cap active>>

Idle == phase = "idle" /\ UNCHANGED <<kind, pq, ran, phase, due, log, fresh>>

AppChange == Idle /\ (Change \/ \E s \in Systems : Unmatch(s)) /\ dirty' = (dirty \/ Touched)

(* ecs_delete_empty_tables; tables of the pipeline query can be among them.*)
DeleteEmptyTables ==
    /\ Idle
    /\ tables # matched
    /\ tables' = matched
    /\ dirty' \in {dirty, TRUE}
    /\ UNCHANGED <<enabled, matched, active>>

(* ecs_run_aperiodic with EcsAperiodicEmptyQueries.                        *)
ProcessEmptyQueries ==
    /\ Idle
    /\ tables = matched \/ "aperiodic" \in Careless
    /\ active' = {s \in active : IsTask(s) \/ s \in matched}
    /\ UNCHANGED <<enabled, tables, matched>>
    /\ dirty' = (dirty \/ Touched)

(* ecs_frame_end, by an application that runs its pipelines itself.        *)
FrameEnd ==
    /\ phase = "idle" /\ ran # {}
    /\ ran' = {}
    /\ UNCHANGED <<kind, enabled, queries, dirty, pq, phase, due, log, fresh>>

-----------------------------------------------------------------------------
(* flecs_run_pipeline.                                                     *)

(* Before the first operation. Without memory for operations the build     *)
(* returns before it stores the match count.                               *)
Start(p) ==
    /\ phase = "idle"
    /\ phase' = p
    /\ UNCHANGED <<kind, enabled, queries, ran>>
    /\ pq' = Update(pq, TRUE, dirty)
    /\ dirty' = (dirty /\ pq'.ops = <<>>)
    /\ due' = enabled \cap active
    /\ log' = <<>>
    /\ fresh' = (ran = {})

ecs_run_pipeline == Start("run")
ecs_progress == Start("progress")

(* The loop finds no system left for its operation.                        *)
SkipOp ==
    /\ phase # "idle" /\ pq.cur_op # Null
    /\ pq.cur_i = Len(pq.systems)
    /\ UNCHANGED <<kind, enabled, queries, dirty, ran, phase, due, log, fresh>>
    /\ pq' = Update(pq, FALSE, dirty)

(* flecs_run_pipeline_ops: the systems that run from cur_i on, and the     *)
(* index with which it returns.                                            *)
Batch ==
    LET op == pq.ops[pq.cur_op]
        stop == op.offset + op.count - 1
        n == Len(pq.systems)
        full == stop \in pq.cur_i..(n - 1)
    IN  [systems |-> SubSeq(pq.systems, pq.cur_i + 1, IF full THEN stop + 1 ELSE n),
         mt |-> op.mt, imm |-> op.imm,
         i |-> IF full THEN stop ELSE IF pq.cur_i > n THEN pq.cur_i ELSE n]

(* One operation: its systems run, their commands are merged, at most one  *)
(* of them about systems, and the schedule is brought up to date.          *)
RunOp ==
    /\ phase # "idle" /\ pq.cur_op # Null
    /\ pq.cur_i # Len(pq.systems)
    /\ UNCHANGED <<kind, phase, fresh>>
    /\ ran' = ran \cup ToSet(Batch.systems)
    /\ log' = Append(log, Batch)
    /\ UNCHANGED <<enabled, queries>> \/ (Batch.systems # <<>> /\ Change)
    /\ Touched => /\ fresh \/ "rerun" \in Careless
                  /\ ran' \cap enabled' # {} \/ "disable" \in Careless
    /\ due' = due \cap enabled' \cap active'
    /\ pq' = Update([pq EXCEPT !.cur_i = Batch.i], FALSE, dirty \/ Touched)
    /\ dirty' = FALSE

(* The run is over; ecs_progress also ends the frame. Memory past a count  *)
(* above 0 is not read by a later run before it is written.                *)
Finish ==
    /\ phase # "idle" /\ pq.cur_op = Null
    /\ phase' = "idle"
    /\ ran' = IF phase = "progress" THEN {} ELSE ran
    /\ pq' = [pq EXCEPT !.ops = IF pq.count > 0 THEN SubSeq(@, 1, pq.count) ELSE @, !.cur_i = 0]
    /\ due' = {} /\ log' = <<>> /\ fresh' = TRUE
    /\ UNCHANGED <<kind, enabled, queries, dirty>>

(* flecs_pipeline_init, with systems that have no entities yet.            *)
Init ==
    /\ kind \in Pipelines
    /\ enabled = Systems
    /\ tables = {} /\ matched = {}
    /\ active = {s \in Systems : IsTask(s)}
    /\ dirty = TRUE
    /\ pq = [ops |-> <<>>, count |-> 0, systems |-> <<>>,
             cur_op |-> Null, cur_i |-> 0, sound |-> TRUE]
    /\ ran = {} /\ phase = "idle" /\ due = {} /\ log = <<>> /\ fresh = TRUE

App == AppChange \/ DeleteEmptyTables \/ ProcessEmptyQueries \/ FrameEnd

Run == SkipOp \/ RunOp \/ Finish

Next == App \/ ecs_run_pipeline \/ ecs_progress \/ Run

(* A run goes on until it is over: it is a loop of the main thread.        *)
Spec == Init /\ [][Next]_vars /\ WF_vars(Run)

-----------------------------------------------------------------------------
(* Properties.                                                             *)

(* Types, and the position is in the schedule: an operation that exists,   *)
(* and a system of that operation (flecs_pipeline_next_system).            *)
TypeOK ==
    /\ kind \in Pipelines
    /\ matched \subseteq tables /\ tables \subseteq Systems
    /\ enabled \subseteq Systems /\ active \subseteq Systems /\ ran \subseteq Systems
    /\ dirty \in BOOLEAN /\ fresh \in BOOLEAN /\ phase \in {"idle", "run", "progress"}
    /\ pq.cur_op \in 0..Len(pq.ops)
    /\ phase # "idle" /\ pq.cur_op # Null /\ pq.systems # <<>> =>
          /\ pq.cur_op <= pq.count
          /\ pq.cur_i - pq.ops[pq.cur_op].offset \in 0..(pq.ops[pq.cur_op].count - 1)

(* Two ids overlap if some component or pair is matched by both.           *)
Overlap(a, b) ==
    \/ AnyId \in {a, b}
    \/ Len(a) = Len(b) /\ \A i \in DOMAIN a : a[i] = b[i] \/ 0 \in {a[i], b[i]}

(* Commands that system s enqueues can be for what system t reads.         *)
Feeds(s, t) ==
    \E w \in ToSet(kind[s].terms), r \in ToSet(kind[t].terms) :
        Writes(w) /\ Reads(r) /\ Overlap(w.id, r.id)

(* A system never reads in the batch in which commands for what it reads   *)
(* are enqueued by an earlier system: there is a merge between the two, in *)
(* whatever way the schedule was rebuilt on the way (the write state of    *)
(* flecs_pipeline_build).                                                  *)
SyncBeforeRead ==
    \A n \in DOMAIN log :
        LET sys == log[n].systems
        IN  \A j \in DOMAIN sys : \A i \in 1..(j - 1) : ~Feeds(sys[i], sys[j])

(* A system runs with workers, or with direct access to the world, exactly *)
(* if it asked for it, and alone if it has direct access (the flags of an  *)
(* operation are those of its first system).                               *)
RanAsDeclared ==
    \A n \in DOMAIN log : LET sys == log[n].systems IN
        /\ \A i \in DOMAIN sys : kind[sys[i]].mt = log[n].mt /\ kind[sys[i]].imm = log[n].imm
        /\ log[n].imm => Len(sys) <= 1

(* The systems of a run so far.                                            *)
RanNow == FlattenSeq([n \in DOMAIN log |-> log[n].systems])

(* A run goes through its systems in order, none of them twice, although   *)
(* merges change the systems and the schedule is rebuilt in the middle;    *)
(* when it is over every system that was enabled and active all along has  *)
(* run (flecs_pipeline_build's resume, flecs_pipeline_next_system).        *)
RunsOnce ==
    /\ \A j \in DOMAIN RanNow : \A i \in 1..(j - 1) : RanNow[i] < RanNow[j]
    /\ phase # "idle" /\ pq.cur_op = Null => due \subseteq ToSet(RanNow)

(* The assertions of flecs_pipeline_build hold: no second merge for one    *)
(* system, operations that follow each other, a position in the schedule.  *)
AssertionsHold == pq.sound

(* A system with entities to run for is active: its Empty tag went when    *)
(* the query became non-empty.                                             *)
NonEmptyIsActive == matched \subseteq active

(* The schedule, the position in it and the Empty tags are right between   *)
(* any two steps (flecs_pipeline_build, flecs_pipeline_next_system).       *)
ScheduleInv == TypeOK /\ AssertionsHold /\ NonEmptyIsActive

(* A run of the pipeline ends, also when its merges change systems.        *)
RunEnds == (phase # "idle") ~> (phase = "idle")
=============================================================================
