------------------------------ MODULE Commands ------------------------------
(***************************************************************************)
(* Deferred operations (src/commands.c, src/stage.c). While a stage is     *)
(* deferred, operations become commands in its queue. When deferring ends  *)
(* the queue is flushed: the commands of an entity are batched, so that it *)
(* moves between tables once, and what observers enqueue meanwhile goes to *)
(* the stage's second queue, which is flushed next.                        *)
(*                                                                         *)
(* The storage is what EcsStore says of it: ents[id] is alive or not, has  *)
(* a version, components and values; a component that is missing has the   *)
(* value Default. Positions in a queue start at 1, 0 is "none" (in the     *)
(* code they start at 0, and an entry's first is -1 for "none").           *)
(***************************************************************************)
EXTENDS Integers, Sequences, SequencesExt

CONSTANTS Ids, MaxGen,          \* entity ids; bound on versions
          Comps, Data,          \* component ids, the ones that have a size
          NonTrivial,           \* components with hooks or OnSet observers
          Values, Default,
          NoComp, NoValue,      \* cmd->id == 0, cmd->is._1.value == NULL
          stage_count,          \* world->stage_count
          MaxDefer,             \* bound on nested deferring
          MaxIssued,            \* bound on the operations called
          Kinds,                \* what is called on a deferred stage
          ImmediateKinds,       \* what is called while calls are not deferred
          Reactions,            \* what observers call while stage 0 is flushed
          NestedReactions       \* what they call in the middle of an operation

ASSUME CommandsAssumption == /\ NonTrivial \subseteq Data /\ Data \subseteq Comps
                             /\ Default \in Values /\ NoValue \notin Values
                             /\ NoComp \notin Comps
                             /\ stage_count \in Nat \ {0}

Stages == 0..(stage_count - 1)
Handles == [id : Ids, gen : 0..MaxGen]
NoEntity == [id |-> NoComp, gen |-> -1]

VARIABLES
    ents,          \* the storage
    stage,         \* ecs_stage_t: defer, cmd, cmd_stack, cmd_flushing
    flush,         \* where flecs_defer_end is: phase, queue, position, and
                   \* whether the batch at that position adds components
    readonly,      \* EcsWorldReadonly
    merging,       \* next stage that ecs_readonly_end has to merge
    pending,       \* value of a component that was just added, to be written
    began,         \* history, per stage: the storage when the flush under way
                   \* began, its calls, and those of flushes that interrupted it
    issued         \* number of operations called

vars == <<ents, stage, flush, readonly, merging, pending, began,
          issued>>

-----------------------------------------------------------------------------
(* The storage.                                                            *)

IsAlive(w, e) == e.gen >= 0 /\ w[e.id].alive /\ w[e.id].gen = e.gen
AliveHandles(w) == {e \in Handles : IsAlive(w, e)}
Has(w, e, c) == IsAlive(w, e) /\ c \in w[e.id].type

WithType(x, T) ==
    [x EXCEPT !.type = T,
              !.val = [c \in Data |-> IF c \in T THEN @[c] ELSE Default]]

Retype(w, e, T) == [w EXCEPT ![e.id] = WithType(@, T)]

Write(w, e, c, v) == [w EXCEPT ![e.id].val[c] = v]

Gone(x) == [alive |-> FALSE, gen |-> x.gen + 1, type |-> {},
            val |-> [c \in Data |-> Default]]

(* An operation on the storage. It is ignored if the entity is not alive.  *)
Apply(w, o) ==
    LET T == w[o.e.id].type
    IN CASE o.kind = "RemoveAll" ->
              [id \in Ids |-> WithType(w[id], w[id].type \ {o.c})]
         [] o.kind = "DeleteWith" ->
              [id \in Ids |-> IF o.c \in w[id].type THEN Gone(w[id]) ELSE w[id]]
         [] o.kind \notin {"RemoveAll", "DeleteWith"} /\ ~IsAlive(w, o.e) -> w
         [] OTHER ->
              CASE o.kind \in {"Add", "AddModified"} -> Retype(w, o.e, T \cup {o.c})
                [] o.kind = "Remove" -> Retype(w, o.e, T \ {o.c})
                [] o.kind = "Clear" -> Retype(w, o.e, {})
                [] o.kind = "Delete" -> [w EXCEPT ![o.e.id] = Gone(@)]
                [] o.kind \in {"Set", "Ensure"} ->
                     Write(Retype(w, o.e, T \cup {o.c}), o.e, o.c, o.v)
                [] o.kind \in {"Modified", "Skip"} -> w

(* The operations of kinds K that can be called on storage w. Ensure       *)
(* returns a pointer: the caller is taken to write a value through it.     *)
Op(k, e, c, v) == [kind |-> k, e |-> e, c |-> c, v |-> v]

Ops(K, w) ==
    LET E == AliveHandles(w)
    IN  {Op(k, e, c, NoValue) : k \in K \cap {"Add", "Remove"}, e \in E, c \in Comps}
          \cup {Op(k, e, NoComp, NoValue) : k \in K \cap {"Clear", "Delete"}, e \in E}
          \cup {Op(k, e, c, v) : k \in K \cap {"Set", "Ensure"}, e \in E,
                                 c \in Data, v \in Values}
          \cup {Op(k, NoEntity, c, NoValue) :
                   k \in K \cap {"RemoveAll", "DeleteWith"}, c \in Comps}

-----------------------------------------------------------------------------
(* A queue: ecs_commands_t, with the history of the calls that filled it.  *)

NoEntry == [first |-> 0, last |-> 0]
EmptyQueue == [queue |-> <<>>, entries |-> [id \in Ids |-> NoEntry],
               log |-> <<>>, mixed |-> FALSE]

Batched(cmd) == cmd.kind \notin {"RemoveAll", "DeleteWith"}

(* flecs_cmd_new, for commands that do not name an entity.                 *)
CmdNew(b, cmd) == [b EXCEPT !.queue = Append(@, cmd)]

(* Faulty variant of CmdNewBatched: the entry of an older version of the   *)
(* entity is taken for the entity's own.                                   *)
CmdNewBatchedAnyVersion(b, cmd) ==
    LET id    == cmd.e.id
        cur   == Len(b.queue) + 1
        entry == b.entries[id]
        known == entry.first # 0
        next  == IF entry.last = entry.first THEN -cur ELSE cur
    IN  [b EXCEPT !.queue = Append(IF known THEN [@ EXCEPT ![entry.last].next = next]
                                   ELSE @, [cmd EXCEPT !.owner = ~known]),
                  !.entries[id] = [first |-> IF known THEN entry.first ELSE cur,
                                   last |-> cur]]

(* flecs_cmd_new_batched: commands for the same entity, and version, form  *)
(* a list. The sign of next marks the first one of a list of several; the  *)
(* first one owns the entry.                                               *)
CmdNewBatched(b, cmd) ==
    LET id    == cmd.e.id
        cur   == Len(b.queue) + 1
        entry == b.entries[id]
        known == entry.first # 0 /\ b.queue[entry.last].e = cmd.e
        next  == IF entry.last = entry.first THEN -cur ELSE cur
    IN  [b EXCEPT !.queue = Append(IF known THEN [@ EXCEPT ![entry.last].next = next]
                                   ELSE @, [cmd EXCEPT !.owner = ~known]),
                  !.entries[id] = [first |-> IF known THEN entry.first ELSE cur,
                                   last |-> cur]]

Following(cmd) == IF cmd.next < 0 THEN -cmd.next ELSE cmd.next

(* The positions of the list that begins at position i.                    *)
Chain(q, i) ==
    LET from[k \in 1..Len(q)] ==
          <<k>> \o IF q[k].next = 0 THEN <<>> ELSE from[Following(q[k])]
    IN  from[i]

(* Faulty variant of FindCmdValue: a remove does not end the value's life. *)
FindCmdValueRemoved(b, e, c) ==
    LET entry == b.entries[e.id]
        step(p, i) == LET cmd == b.queue[i]
                      IN  IF cmd.kind \in {"Set", "Ensure"} /\ cmd.c = c THEN i
                          ELSE p
    IN  IF entry.first = 0 \/ b.queue[entry.last].e # e THEN 0
        ELSE FoldLeft(step, 0, Chain(b.queue, entry.first))

(* flecs_defer_find_cmd_value: the queued command that holds the current   *)
(* value of the component, if there is one.                                *)
FindCmdValue(b, e, c) ==
    LET entry == b.entries[e.id]
        step(p, i) == LET cmd == b.queue[i]
                      IN  CASE cmd.kind \in {"Set", "Ensure"} /\ cmd.c = c -> i
                            [] \/ cmd.kind = "Remove" /\ cmd.c = c
                               \/ cmd.kind \in {"Clear", "Delete"} -> 0
                            [] OTHER -> p
    IN  IF entry.first = 0 \/ b.queue[entry.last].e # e THEN 0
        ELSE FoldLeft(step, 0, Chain(b.queue, entry.first))

(* Set writes to a component that exists if there is one stage, ensure     *)
(* returns a pointer to it in any case.                                    *)
Direct(w, o) == /\ Has(w, o.e, o.c)
                /\ o.kind = "Ensure" \/ (o.kind = "Set" /\ stage_count = 1)

(* The command for a call.                                                 *)
CmdFor(w, o) ==
    LET set  == IF o.c \in NonTrivial THEN "Set" ELSE "Ensure"
        kind == CASE o.kind = "Set" /\ ~Direct(w, o) -> set
                  [] o.kind = "Set" /\ Direct(w, o) ->
                       IF set = "Set" THEN "AddModified" ELSE "Add"
                  [] o.kind = "Ensure" /\ Direct(w, o) -> "Add"
                  [] OTHER -> o.kind
    IN  [kind |-> kind, e |-> o.e, c |-> o.c,
         v |-> IF kind \in {"Set", "Ensure"} THEN o.v ELSE NoValue,
         next |-> 0, owner |-> FALSE]

(* flecs_defer_add, _remove, _clear, _delete, _set, _ensure and            *)
(* _on_delete_action: the queue after call o. An ensure of a component     *)
(* that is only in the queue writes to the value there.                    *)
Defer(b, w, o) ==
    LET p == IF o.kind = "Ensure" /\ ~Direct(w, o) THEN FindCmdValue(b, o.e, o.c) ELSE 0
        logged == [b EXCEPT !.log = Append(@, o)]
    IN  IF p # 0 THEN [logged EXCEPT !.queue[p].v = o.v]
        ELSE IF Batched(o) THEN CmdNewBatched(logged, CmdFor(w, o))
        ELSE CmdNew(logged, CmdFor(w, o))

Put(st, s, w, o) == [st EXCEPT ![s].cmd_stack[st[s].cmd] = Defer(@, w, o)]

-----------------------------------------------------------------------------
(* Who is running. A flush of stage 0 can happen in the middle of a flush  *)
(* of another stage, never the other way around.                           *)

Idle(s) == flush[s].phase = "idle"
Quiet == /\ \A s \in Stages : Idle(s)
         /\ pending = {}
         /\ merging = stage_count
Top(s) == ~Idle(s) /\ (s = 0 \/ (Idle(0) /\ pending = {}))

NoFlush == [phase |-> "idle", buf |-> 1, pos |-> 0, added |-> FALSE]
NotBegun == [world |-> <<>>, log |-> <<>>, nested |-> <<>>, mixed |-> FALSE]
Flushing(s) == began[s] # NotBegun
AtHead == [NoFlush EXCEPT !.phase = "head"]

(* Operations on the world defer stage 0 while they run. Ending that       *)
(* flushes stage 0 unless it is being flushed already.                     *)
InnerEnd(f) == IF stage[0].cmd_flushing THEN f ELSE [f EXCEPT ![0] = AtHead]

(* Observers of a change from w1 to w2 may enqueue an operation: K says    *)
(* which. They run before a component goes away and after it was added.    *)
(* They do not take away a component that is being set: the check of       *)
(* dst.ptr in flecs_set_id_move aborts the program.                        *)
Changed(w1, w2) == \E id \in Ids : w1[id].type # w2[id].type

Takes(o, p) == o.kind \in {"Remove", "Clear"} /\ o.e = p.e /\ o.c \in {p.c, NoComp}

React(event, w1, st) ==
    LET K == IF stage[0].cmd_flushing THEN Reactions ELSE NestedReactions
    IN  \/ stage' = st /\ UNCHANGED issued
        \/ /\ event /\ issued < MaxIssued
           /\ \E o \in Ops(K, w1) : /\ \A p \in pending' : ~Takes(o, p)
                                    /\ stage' = Put(st, 0, w1, o)
           /\ issued' = issued + 1

-----------------------------------------------------------------------------
(* Calls.                                                                  *)

CanCall == Quiet /\ issued < MaxIssued

(* ecs_new takes effect immediately, deferred or not. MaxGen bounds how    *)
(* often an id is used.                                                    *)
EcsNew(id) ==
    /\ Quiet /\ ~readonly
    /\ ~ents[id].alive /\ ents[id].gen <= MaxGen
    /\ ents' = [ents EXCEPT ![id].alive = TRUE]
    /\ UNCHANGED <<stage, flush, readonly, merging, pending, began, issued>>

(* A call on a deferred stage.                                             *)
Enqueue(s, o) ==
    /\ CanCall
    /\ stage[s].defer > 0
    /\ stage' = Put(stage, s, ents, o)
    /\ ents' = IF Direct(ents, o) THEN Write(ents, o.e, o.c, o.v) ELSE ents
    /\ issued' = issued + 1
    /\ UNCHANGED <<flush, readonly, merging, pending, began>>

(* A call on the world while it is not deferred. A component that has to   *)
(* be added first is given its value after the commands of observers ran   *)
(* (flecs_ensure). Then deferring ends.                                    *)
Immediate(o) ==
    /\ CanCall /\ stage[0].defer = 0
    /\ LET adds == o.kind \in {"Set", "Ensure"} /\ ~Has(ents, o.e, o.c)
       IN  /\ pending' = IF adds THEN {o} ELSE {}
           /\ ents' = Apply(ents, IF adds THEN [o EXCEPT !.kind = "Add"] ELSE o)
    /\ flush' = InnerEnd(flush)
    /\ React(Changed(ents, ents'), ents, stage)
    /\ UNCHANGED <<readonly, merging, began>>

(* There is a pointer to write to only if the component is still there.    *)
WritePending ==
    /\ pending # {} /\ Idle(0)
    /\ \E o \in pending : /\ Has(ents, o.e, o.c)
                         /\ ents' = Write(ents, o.e, o.c, o.v)
    /\ pending' = {}
    /\ flush' = InnerEnd(flush)
    /\ UNCHANGED <<stage, readonly, merging, began, issued>>

(* A call while deferring is suspended: nothing is enqueued or flushed.    *)
(* Observers do nothing here that the caller could not do next.            *)
Suspended(o) ==
    /\ CanCall /\ stage[0].defer < 0
    /\ ents' = Apply(ents, o)
    /\ LET b == stage[0].cmd
       IN  stage' = [stage EXCEPT ![0].cmd_stack[b].mixed =
                        stage[0].cmd_stack[b].queue # <<>>]
    /\ issued' = issued + 1
    /\ UNCHANGED <<flush, readonly, merging, pending, began>>

(* ecs_defer_begin.                                                        *)
DeferBegin(s) ==
    /\ Quiet
    /\ s = 0 \/ readonly
    /\ stage[s].defer \in 0..(MaxDefer - 1)
    /\ stage' = [stage EXCEPT ![s].defer = @ + 1]
    /\ UNCHANGED <<ents, flush, readonly, merging, pending, began,
                   issued>>

(* flecs_defer_end, up to its loop.                                        *)
DeferEnd(s) ==
    /\ stage[s].defer > 0
    /\ stage' = [stage EXCEPT ![s].defer = @ - 1]
    /\ flush' = IF stage[s].defer = 1 /\ ~stage[s].cmd_flushing
                THEN [flush EXCEPT ![s] = AtHead] ELSE flush

(* ecs_defer_end. In readonly mode the last one belongs to the merge.      *)
EcsDeferEnd(s) ==
    /\ Quiet
    /\ readonly => stage[s].defer > 1
    /\ DeferEnd(s)
    /\ UNCHANGED <<ents, readonly, merging, pending, began, issued>>

(* ecs_defer_suspend and ecs_defer_resume.                                 *)
DeferSuspend ==
    /\ Quiet /\ ~readonly
    /\ stage[0].defer > 0
    /\ stage' = [stage EXCEPT ![0].defer = -@]
    /\ UNCHANGED <<ents, flush, readonly, merging, pending, began,
                   issued>>

DeferResume ==
    /\ Quiet
    /\ stage[0].defer < 0
    /\ stage' = [stage EXCEPT ![0].defer = -@]
    /\ UNCHANGED <<ents, flush, readonly, merging, pending, began,
                   issued>>

(* ecs_readonly_begin: every stage is deferred. In a world with one stage  *)
(* this is what ecs_defer_begin and ecs_defer_end do.                      *)
ReadonlyBegin ==
    /\ Quiet /\ ~readonly /\ stage_count > 1
    /\ \A s \in Stages : stage[s].defer = 0
    /\ readonly' = TRUE
    /\ stage' = [s \in Stages |-> [stage[s] EXCEPT !.defer = 1]]
    /\ UNCHANGED <<ents, flush, merging, pending, began, issued>>

(* ecs_readonly_end: the stages are merged one after the other. All        *)
(* sections that a stage's user opened are closed by then.                 *)
ReadonlyEnd ==
    /\ Quiet /\ readonly
    /\ \A s \in Stages : stage[s].defer <= 1
    /\ readonly' = FALSE
    /\ merging' = 0
    /\ UNCHANGED <<ents, stage, flush, pending, began, issued>>

MergeStage ==
    /\ merging < stage_count
    /\ \A s \in Stages : Idle(s)
    /\ pending = {}
    /\ DeferEnd(merging)
    /\ merging' = merging + 1
    /\ UNCHANGED <<ents, readonly, pending, began, issued>>

-----------------------------------------------------------------------------
(* The loop of flecs_defer_end for stage s.                                *)

Queue(s) == stage[s].cmd_stack[flush[s].buf].queue
Cmd(s) == Queue(s)[flush[s].pos]
InLoop(s) == Top(s) /\ flush[s].phase # "head"
Left(s) == flush[s].pos <= Len(Queue(s))

(* Enqueue to the other queue from here on. Stop if this one is empty.     *)
FlushBegin(s) ==
    /\ Top(s) /\ flush[s].phase = "head"
    /\ LET b == stage[s].cmd
           q == stage[s].cmd_stack[b]
           more == q.queue # <<>>
       IN  /\ stage' = [stage EXCEPT ![s].cmd = 3 - b, ![s].cmd_flushing = more]
           /\ flush' = [flush EXCEPT ![s] =
                 IF more THEN [NoFlush EXCEPT !.phase = "next", !.buf = b, !.pos = 1]
                 ELSE NoFlush]
           /\ began' = IF more
                       THEN [t \in Stages |->
                               IF t = s THEN [world |-> ents, log |-> q.log,
                                              nested |-> <<>>, mixed |-> q.mixed]
                               ELSE IF Flushing(t) THEN [began[t] EXCEPT !.nested = @ \o q.log]
                               ELSE NotBegun]
                       ELSE began
    /\ UNCHANGED <<ents, readonly, merging, pending, issued>>

(* flecs_cmd_batch_for_entity looks at the commands of a list up to the    *)
(* first delete.                                                           *)
BatchPositions(s) ==
    LET q == Queue(s)
        up(P, i) == IF P # <<>> /\ q[Last(P)].kind = "Delete" THEN P ELSE Append(P, i)
    IN  FoldLeft(up, <<>>, Chain(q, flush[s].pos))

(* Faulty variant of BatchType: a remove does not undo an add before it.   *)
BatchTypeKeepsAdded(s) ==
    LET step(T, i) ==
          LET cmd == Queue(s)[i]
          IN  CASE cmd.kind \in {"Add", "AddModified", "Set", "Ensure"} -> T \cup {cmd.c}
                [] cmd.kind = "Clear" -> {}
                [] OTHER -> T
    IN  FoldLeft(step, ents[Cmd(s).e.id].type, BatchPositions(s))

(* The table that the commands lead to.                                    *)
BatchType(s) ==
    LET step(T, i) ==
          LET cmd == Queue(s)[i]
          IN  CASE cmd.kind \in {"Add", "AddModified", "Set", "Ensure"} -> T \cup {cmd.c}
                [] cmd.kind = "Remove" -> T \ {cmd.c}
                [] cmd.kind = "Clear" -> {}
                [] OTHER -> T
    IN  FoldLeft(step, ents[Cmd(s).e.id].type, BatchPositions(s))

(* What is left to do for a command once it is part of a batch.            *)
BatchedKind(k) == CASE k = "AddModified" -> "Modified"
                    [] k \in {"Add", "Remove", "Clear"} -> "Skip"
                    [] OTHER -> k

(* First half of a batch: the entity moves to its new table.               *)
BatchCommit(s) ==
    /\ UNCHANGED <<readonly, merging, pending, began>>
    /\ InLoop(s) /\ Left(s) /\ flush[s].phase = "next"
    /\ Cmd(s).next < 0 /\ IsAlive(ents, Cmd(s).e)
    /\ ents' = Retype(ents, Cmd(s).e, BatchType(s))
    /\ LET P == Range(BatchPositions(s))
           batched == [stage EXCEPT ![s].cmd_stack[flush[s].buf].queue =
             [i \in DOMAIN @ |-> IF i \in P THEN [@[i] EXCEPT !.kind = BatchedKind(@)]
                                 ELSE @[i]]]
       IN  React(ents[Cmd(s).e.id].type \ BatchType(s) # {}, ents, batched)
    /\ flush' = InnerEnd([flush EXCEPT
         ![s].phase = "committed",
         ![s].added = BatchType(s) \ ents[Cmd(s).e.id].type # {}])

(* Faulty variant of BatchValues: the values are written last to first.    *)
BatchValuesReversed(s) ==
    /\ UNCHANGED <<readonly, merging, pending, began>>
    /\ InLoop(s) /\ flush[s].phase = "committed"
    /\ LET q    == Queue(s)
           e    == Cmd(s).e
           sets == SelectSeq(Reverse(BatchPositions(s)),
                             LAMBDA i : q[i].kind \in {"Set", "Ensure"})
           put(w, i) == IF Has(w, e, q[i].c) THEN Write(w, e, q[i].c, q[i].v) ELSE w
       IN  /\ ents' = FoldLeft(put, ents, sets)
           /\ React(TRUE, ents, [stage EXCEPT ![s].cmd_stack[flush[s].buf].queue =
                [i \in DOMAIN q |-> IF i \notin Range(sets) THEN q[i]
                                    ELSE [q[i] EXCEPT !.kind = "Skip", !.v = NoValue]]])
    /\ flush' = InnerEnd([flush EXCEPT ![s].phase = "batched"])

(* Second half: the values go from the commands to the components, unless  *)
(* a later command removed the component. Then OnAdd observers run.        *)
BatchValues(s) ==
    /\ UNCHANGED <<readonly, merging, pending, began>>
    /\ InLoop(s) /\ flush[s].phase = "committed"
    /\ IsAlive(ents, Cmd(s).e)
    /\ LET q    == Queue(s)
           e    == Cmd(s).e
           sets == SelectSeq(BatchPositions(s),
                             LAMBDA i : q[i].kind \in {"Set", "Ensure"})
           put(w, i) == IF Has(w, e, q[i].c) THEN Write(w, e, q[i].c, q[i].v) ELSE w
           done(cmd) == [cmd EXCEPT
             !.kind = IF @ = "Set" /\ Has(ents, e, cmd.c) THEN "Modified" ELSE "Skip",
             !.v = IF Has(ents, e, cmd.c) THEN NoValue ELSE @]
       IN  /\ ents' = FoldLeft(put, ents, sets)
           /\ React(flush[s].added, ents,
                    [stage EXCEPT ![s].cmd_stack[flush[s].buf].queue =
                       [i \in DOMAIN q |-> IF i \in Range(sets) THEN done(q[i])
                                           ELSE q[i]]])
    /\ LET after == [flush EXCEPT ![s].phase = "batched"]
       IN  flush' = IF flush[s].added THEN InnerEnd(after) ELSE after

(* cmd->entry->first = -1                                                  *)
Invalidated(s) ==
    IF Cmd(s).owner
    THEN [stage EXCEPT ![s].cmd_stack[flush[s].buf].entries[Cmd(s).e.id] = NoEntry]
    ELSE stage

(* Run the command, or discard it if there is nothing left to do or its    *)
(* entity is not alive.                                                    *)
ExecCmd(s) ==
    /\ InLoop(s) /\ Left(s)
    /\ \/ flush[s].phase = "batched"
       \/ flush[s].phase = "next" /\ ~(Cmd(s).next < 0 /\ IsAlive(ents, Cmd(s).e))
    /\ LET cmd == Cmd(s)
           discard == cmd.kind = "Skip" \/ (Batched(cmd) /\ ~IsAlive(ents, cmd.e))
           adds == /\ ~discard /\ cmd.kind \in {"Set", "Ensure"}
                   /\ ~Has(ents, cmd.e, cmd.c) /\ ~stage[0].cmd_flushing
           after == [flush EXCEPT ![s] = [@ EXCEPT !.phase = "next", !.pos = @ + 1,
                                                   !.added = FALSE]]
           event == ~discard /\ (Changed(ents, ents') \/ cmd.kind \in {"Set", "Modified"})
       IN  /\ pending' = IF adds THEN {Op(cmd.kind, cmd.e, cmd.c, cmd.v)} ELSE {}
           /\ ents' = IF discard THEN ents
                      ELSE Apply(ents, [kind |-> IF adds THEN "Add" ELSE cmd.kind,
                                        e |-> cmd.e, c |-> cmd.c, v |-> cmd.v])
           /\ flush' = IF discard THEN after ELSE InnerEnd(after)
           /\ React(event, ents, Invalidated(s))
    /\ UNCHANGED <<readonly, merging, began>>

(* Faulty variant of FlushEnd: the queue is not cleared.                   *)
FlushEndKeepsQueue(s) ==
    /\ InLoop(s) /\ ~Left(s)
    /\ stage' = [stage EXCEPT ![s].cmd_flushing = FALSE]
    /\ flush' = [flush EXCEPT ![s] = AtHead]
    /\ UNCHANGED <<ents, readonly, merging, pending, began, issued>>

(* The queue is done: clear it and look at the other one.                  *)
FlushEnd(s) ==
    /\ InLoop(s) /\ ~Left(s)
    /\ stage' = [stage EXCEPT
         ![s].cmd_flushing = FALSE,
         ![s].cmd_stack[flush[s].buf] =
            [@ EXCEPT !.queue = <<>>, !.log = <<>>, !.mixed = FALSE]]
    /\ flush' = [flush EXCEPT ![s] = AtHead]
    /\ began' = [began EXCEPT ![s] = NotBegun]
    /\ UNCHANGED <<ents, readonly, merging, pending, issued>>

-----------------------------------------------------------------------------
(* At the start some entities exist, with no components or with all of     *)
(* them, of value Default.                                                 *)
Init ==
    /\ \E alive \in SUBSET Ids, T \in {{}, Comps} :
         ents = [id \in Ids |-> [alive |-> id \in alive, gen |-> 0,
                                 type |-> IF id \in alive THEN T ELSE {},
                                 val |-> [c \in Data |-> Default]]]
    /\ stage = [s \in Stages |-> [defer |-> 0, cmd |-> 1, cmd_flushing |-> FALSE,
                                  cmd_stack |-> <<EmptyQueue, EmptyQueue>>]]
    /\ flush = [s \in Stages |-> NoFlush]
    /\ readonly = FALSE
    /\ merging = stage_count
    /\ pending = {}
    /\ began = [s \in Stages |-> NotBegun]
    /\ issued = 0

(* What runs without another call.                                         *)
Step == \/ MergeStage
        \/ WritePending
        \/ \E s \in Stages : \/ FlushBegin(s) \/ BatchCommit(s) \/ BatchValues(s)
                             \/ ExecCmd(s) \/ FlushEnd(s)

Next == \/ Step
        \/ \E id \in Ids : EcsNew(id)
        \/ \E o \in Ops(Kinds, ents), s \in Stages : Enqueue(s, o)
        \/ \E o \in Ops(ImmediateKinds, ents) : Immediate(o) \/ Suspended(o)
        \/ \E s \in Stages : DeferBegin(s) \/ EcsDeferEnd(s)
        \/ DeferSuspend \/ DeferResume
        \/ ReadonlyBegin \/ ReadonlyEnd

Spec == Init /\ [][Next]_vars

(* A flush goes on until it is done.                                       *)
LiveSpec == Spec /\ WF_vars(Step)

Symmetry == Permutations(Ids)

-----------------------------------------------------------------------------
(* Properties.                                                             *)

CmdKinds == {"Add", "Remove", "Set", "Ensure", "Modified", "AddModified",
             "Delete", "Clear", "RemoveAll", "DeleteWith", "Skip"}

(* Types. A stage is deferred at most as deep as calls and the merge can   *)
(* make it.                                                                *)
TypeOK ==
    /\ ents \in [Ids -> [alive : BOOLEAN, gen : 0..(MaxGen + 1),
                         type : SUBSET Comps, val : [Data -> Values]]]
    /\ merging \in 0..stage_count
    /\ readonly \in BOOLEAN /\ issued \in 0..MaxIssued
    /\ \A s \in Stages :
         /\ stage[s].defer \in -MaxDefer..MaxDefer
         /\ stage[s].cmd \in 1..2 /\ stage[s].cmd_flushing \in BOOLEAN
         /\ flush[s].phase \in {"idle", "head", "next", "committed", "batched"}
         /\ \A b \in 1..2 : \A i \in DOMAIN stage[s].cmd_stack[b].queue :
              stage[s].cmd_stack[b].queue[i].kind \in CmdKinds

(* Nothing is appended to a queue while it is flushed: flecs_defer_end     *)
(* keeps a pointer to its array. A flush is not entered twice.             *)
FlushedQueueIsClosed ==
    \A s \in Stages :
       stage[s].cmd_flushing <=> flush[s].phase \in {"next", "committed", "batched"}
         /\ stage[s].cmd # flush[s].buf

(* In a queue that is not being flushed, the entry of an id describes the  *)
(* list of its last version: it begins at first, ends at last, has the     *)
(* commands for that version in the order of the calls, and only a first   *)
(* command that has a successor is marked. An empty queue has no entries.  *)
EntriesMatchQueue ==
    \A s \in Stages, b \in 1..2 :
      LET q == stage[s].cmd_stack[b].queue
          entries == stage[s].cmd_stack[b].entries
          For(id) == {i \in DOMAIN q : Batched(q[i]) /\ q[i].e.id = id}
      IN  ~(stage[s].cmd_flushing /\ flush[s].buf = b) =>
            \A id \in Ids :
              /\ entries[id].first = 0 <=> For(id) = {}
              /\ entries[id].first # 0 =>
                   LET chain == Chain(q, entries[id].first)
                   IN  /\ Last(chain) = entries[id].last
                       /\ \A i \in For(id) : i <= entries[id].last
                       /\ Range(chain) = {i \in For(id) : /\ i >= entries[id].first
                                                          /\ q[i].e = q[Last(chain)].e}
                       /\ \A i \in Range(chain) :
                            q[i].next < 0 <=> /\ i = entries[id].first
                                              /\ i # entries[id].last

(* The queues of all stages are well-formed, whatever was enqueued and     *)
(* flushed, and by whom (commands.c).                                      *)
QueueInv == TypeOK /\ FlushedQueueIsClosed /\ EntriesMatchQueue

(* A flush that is done.                                                   *)
JustFlushed(s) == Flushing(s) /\ Top(s) /\ flush[s].phase = "next" /\ ~Left(s)

(* What the world becomes when two lists of calls are made on it, in any   *)
(* order that keeps the order of each list.                                *)
Outcomes(w, log, nested) ==
    LET after[p \in (0..Len(log)) \X (0..Len(nested))] ==
          LET i == p[1]  j == p[2]
          IN  IF i = 0 /\ j = 0 THEN {w}
              ELSE {Apply(x, log[i]) : x \in IF i = 0 THEN {} ELSE after[<<i - 1, j>>]}
                     \cup {Apply(x, nested[j]) : x \in IF j = 0 THEN {} ELSE after[<<i, j - 1>>]}
    IN  after[<<Len(log), Len(nested)>>]

(* Batching does not change the outcome: after a flush the entities that   *)
(* are alive and their components are the ones that the same calls, made   *)
(* one by one on the world as it was, would have led to. If the flush was  *)
(* interrupted, in the middle of a batch too, by flushes of what observers *)
(* had enqueued, their calls took effect somewhere in between, in order:   *)
(* none of them is undone by the rest of the batch, or lost.               *)
SameAsSequential ==
    \A s \in Stages : JustFlushed(s) =>
      \E w \in Outcomes(began[s].world, began[s].log, began[s].nested) :
         \A id \in Ids : /\ ents[id].alive = w[id].alive
                         /\ ents[id].gen = w[id].gen
                         /\ ents[id].type = w[id].type

(* Values: a component has the value of the last call that wrote it, if it *)
(* was not removed later, and the value it had if no call concerned it.    *)
(* Nothing is said of a component that was removed and added again, as     *)
(* batching cancels that (comment at commands.c:280), and of calls made    *)
(* while deferring was suspended and the queue was not empty.              *)
LastWriteWins ==
    \A s \in Stages : JustFlushed(s) /\ ~began[s].mixed =>
      \A e \in AliveHandles(ents), c \in Data :
        LET log == began[s].log
            touches(i) == /\ log[i].e = e
                          /\ \/ log[i].kind = "Clear"
                             \/ log[i].c = c /\ log[i].kind \in {"Set", "Ensure", "Remove"}
            T == {i \in DOMAIN log : touches(i)}
            last == CHOOSE i \in T : \A j \in T : j <= i
        IN  Has(ents, e, c) =>
              IF T = {} THEN Has(began[s].world, e, c) =>
                                ents[e.id].val[c] = began[s].world[e.id].val[c]
              ELSE log[last].v # NoValue => ents[e.id].val[c] = log[last].v

(* The assertion r->table != NULL after a batch: the entity is still in a  *)
(* table when the values are written. It is not if a flush of stage 0 in   *)
(* the middle of the batch of another stage deletes it.                    *)
TargetsPresent ==
    \A s \in Stages : flush[s].phase = "committed" /\ Top(s) => IsAlive(ents, Cmd(s).e)

(* Every flush and every merge ends: commands that observers enqueue on    *)
(* the way are not left behind.                                            *)
FlushesEnd == ~Quiet ~> Quiet /\ \A s \in Stages : stage[s].defer = 0 =>
                   \A b \in 1..2 : stage[s].cmd_stack[b].queue = <<>>
=============================================================================
