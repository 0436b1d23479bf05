----------------------------- MODULE WorkerSync -----------------------------
(***************************************************************************)
(* How the main thread and the worker threads of a world run a pipeline    *)
(* together (src/addons/pipeline/worker.c and the loop of                  *)
(* flecs_run_pipeline in src/addons/pipeline/pipeline.c).                  *)
(*                                                                         *)
(* Every section under sync_mutex is one step; a wait on a condition       *)
(* variable is two, one that goes to sleep and releases the mutex and one  *)
(* that takes it again. world->flags is read and written outside the       *)
(* mutex, so those accesses are steps of their own. A thread that sleeps   *)
(* on worker_cond is at "asleep", one that was woken at "woken".           *)
(***************************************************************************)
EXTENDS Integers, FiniteSets

CONSTANTS MaxWorkers,   \* bound on the number of worker threads
          MaxOps        \* bound on the operations of a pipeline

ASSUME MaxWorkersAssumption == MaxWorkers \in Nat \ {0}
ASSUME MaxOpsAssumption == MaxOps \in Nat

Workers == 1..MaxWorkers     \* stage i is the stage of worker i
Stages == 0..MaxWorkers      \* stage 0 is the main thread's

VARIABLES
    mpc,               \* where the main thread is
    pc,                \* where each worker thread is
    thread,            \* workers whose stage has a thread handle
    stage_count,       \* world->stage_count
    saved,             \* stage_count put aside while startup systems run
    primitives,        \* worker_cond, sync_cond and sync_mutex
    use_tasks,         \* world->workers_use_task_api
    request,           \* arguments of the ecs_set_threads call in progress
    workers_running, workers_waiting,
    quit,              \* EcsWorldQuitWorkers
    readonly,          \* EcsWorldReadonly
    multi_threaded,    \* EcsWorldMultiThreaded
    first_frame,       \* info.frame_count_total == 0
    op,                \* pq->cur_op
    ops_left,          \* operations after op in this run of the pipeline
    queue,             \* stages with commands in their queue
    ran                \* history: times each stage ran since the last signal

config == <<thread, stage_count, saved, primitives, use_tasks, request>>
sync   == <<workers_running, workers_waiting, quit>>
world  == <<readonly, multi_threaded, first_frame, op, ops_left>>
vars   == <<mpc, pc, config, sync, world, queue, ran>>

(* A system is multi-threaded or immediate, not both (system.h).           *)
OpKinds == {[multi |-> TRUE,  immediate |-> FALSE],
            [multi |-> FALSE, immediate |-> FALSE],
            [multi |-> FALSE, immediate |-> TRUE]}
NoOp == [multi |-> FALSE, immediate |-> FALSE]

NoRequest == [threads |-> -1, tasks |-> FALSE]

Team == 1..(stage_count - 1)            \* the workers of the current stages

-----------------------------------------------------------------------------
(* Worker thread w: flecs_worker.                                          *)

(* Register as running; sleep until the main thread signals, unless it     *)
(* already asked to quit.                                                  *)
WorkerStart(w) ==
    /\ pc[w] = "start"
    /\ workers_running' = workers_running + 1
    /\ pc' = [pc EXCEPT ![w] = IF quit THEN "check" ELSE "asleep"]
    /\ UNCHANGED <<mpc, config, workers_waiting, quit, world, queue, ran>>

(* Take sync_mutex again after a wakeup, and release it.                   *)
WorkerWake(w) ==
    /\ pc[w] = "woken"
    /\ pc' = [pc EXCEPT ![w] = "check"]
    /\ UNCHANGED <<mpc, config, sync, world, queue, ran>>

(* The loop condition, read without the mutex.                             *)
WorkerLoop(w) ==
    /\ pc[w] = "check"
    /\ pc' = [pc EXCEPT ![w] = IF quit THEN "leave" ELSE "run"]
    /\ UNCHANGED <<mpc, config, sync, world, queue, ran>>

(* flecs_run_pipeline_ops for the worker's stage. The systems may enqueue  *)
(* commands in the stage.                                                  *)
WorkerRun(w) ==
    /\ pc[w] = "run"
    /\ pc' = [pc EXCEPT ![w] = "sync"]
    /\ ran' = [ran EXCEPT ![w] = @ + 1]
    /\ queue' \in {queue, queue \cup {w}}
    /\ UNCHANGED <<mpc, config, sync, world>>

(* Faulty variant of WorkerSync: signal when the first worker is done.     *)
WorkerSyncEarly(w) ==
    /\ pc[w] = "sync"
    /\ pc' = [pc EXCEPT ![w] = "asleep"]
    /\ workers_waiting' = workers_waiting + 1
    /\ mpc' = IF mpc = "syncwait" THEN "synced" ELSE mpc
    /\ UNCHANGED <<config, workers_running, quit, world, queue, ran>>

(* flecs_sync_worker: the last worker to arrive signals the main thread.   *)
(* The worker then sleeps until the next signal.                           *)
WorkerSync(w) ==
    /\ pc[w] = "sync"
    /\ IF stage_count <= 1
       THEN /\ pc' = [pc EXCEPT ![w] = "check"]
            /\ UNCHANGED <<mpc, workers_waiting>>
       ELSE /\ pc' = [pc EXCEPT ![w] = "asleep"]
            /\ workers_waiting' = workers_waiting + 1
            /\ mpc' = IF workers_waiting' = stage_count - 1 /\ mpc = "syncwait"
                      THEN "synced" ELSE mpc
    /\ UNCHANGED <<config, workers_running, quit, world, queue, ran>>

WorkerLeave(w) ==
    /\ pc[w] = "leave"
    /\ pc' = [pc EXCEPT ![w] = "ended"]
    /\ workers_running' = workers_running - 1
    /\ UNCHANGED <<mpc, config, workers_waiting, quit, world, queue, ran>>

(* A condition variable wakes a thread that nobody signalled.              *)
SpuriousWakeup ==
    /\ \/ \E w \in Workers : /\ pc[w] = "asleep"
                             /\ pc' = [pc EXCEPT ![w] = "woken"]
                             /\ UNCHANGED mpc
       \/ /\ mpc = "syncwait"
          /\ mpc' = "synced"
          /\ UNCHANGED pc
    /\ UNCHANGED <<config, sync, world, queue, ran>>

-----------------------------------------------------------------------------
(* Main thread: running a pipeline.                                        *)

(* ecs_set_stage_count and flecs_create_worker_threads.                    *)
StartThreads(n) ==
    /\ thread' = 1..(n - 1)
    /\ pc' = [w \in Workers |-> IF w < n THEN "start" ELSE pc[w]]

(* flecs_run_pipeline, from the top: update the pipeline. The systems, and *)
(* so the operations, may be different each time it is updated.            *)
PickOps(n) == \/ op' = NoOp /\ ops_left' = -1            \* pq->cur_op == NULL
              \/ n >= 0 /\ op' \in OpKinds /\ ops_left' \in 0..n

(* ecs_progress begins. In the first frame startup systems, if there are   *)
(* any, run first, with the stage count set to 1.                          *)
Progress ==
    /\ mpc = "idle"
    /\ first_frame' = FALSE
    /\ \/ /\ mpc' = "frame"
          /\ UNCHANGED <<stage_count, saved, op, ops_left>>
       \/ /\ first_frame
          /\ mpc' = "op"
          /\ saved' = stage_count
          /\ stage_count' = 1
          /\ PickOps(MaxOps - 1)
    /\ UNCHANGED <<pc, thread, primitives, use_tasks, request, sync, readonly,
                   multi_threaded, queue, ran>>

(* ecs_run_pipeline: the same frame, without startup systems.              *)
RunPipeline ==
    /\ mpc = "idle"
    /\ mpc' = "frame"
    /\ UNCHANGED <<pc, config, sync, world, queue, ran>>

(* Task threads are created at the beginning of each frame.                *)
FrameBegin ==
    /\ mpc = "frame"
    /\ mpc' = "ready"
    /\ IF use_tasks THEN StartThreads(stage_count) ELSE UNCHANGED <<thread, pc>>
    /\ UNCHANGED <<stage_count, saved, primitives, use_tasks, request, sync,
                   world, queue, ran>>

(* flecs_wait_for_workers: spin until every worker is running. Then update *)
(* the pipeline.                                                           *)
WaitForWorkers ==
    /\ mpc = "ready"
    /\ stage_count <= 1 \/ workers_running = stage_count - 1
    /\ mpc' = "op"
    /\ PickOps(MaxOps - 1)
    /\ UNCHANGED <<pc, config, sync, readonly, multi_threaded, first_frame,
                   queue, ran>>

(* The world counts as multi-threaded as soon as there is a worker_cond.   *)
OpMultiThreaded == primitives # "null" /\ op.multi

(* Enter readonly mode or begin deferring, set EcsWorldMultiThreaded.      *)
OpBegin ==
    /\ mpc = "op"
    /\ ops_left >= 0
    /\ mpc' = IF OpMultiThreaded THEN "signal" ELSE "run"
    /\ readonly' = ~op.immediate
    /\ multi_threaded' = OpMultiThreaded
    /\ UNCHANGED <<pc, config, sync, first_frame, op, ops_left, queue, ran>>

(* Faulty variant of SignalWorkers: pthread_cond_signal, not broadcast.    *)
SignalOneWorker ==
    /\ mpc = "signal"
    /\ mpc' = "run"
    /\ IF stage_count <= 1
       THEN UNCHANGED <<pc, ran>>
       ELSE /\ ran' = [s \in Stages |-> 0]
            /\ \E v \in Workers :
                 /\ pc[v] = "asleep"
                 /\ pc' = [pc EXCEPT ![v] = "woken"]
    /\ UNCHANGED <<config, sync, world, queue>>

(* flecs_signal_workers: wake every thread that sleeps on worker_cond.     *)
WakeAll == pc' = [w \in Workers |-> IF pc[w] = "asleep" THEN "woken" ELSE pc[w]]

SignalWorkers ==
    /\ mpc = "signal"
    /\ mpc' = "run"
    /\ IF stage_count <= 1
       THEN UNCHANGED <<pc, ran>>
       ELSE WakeAll /\ ran' = [s \in Stages |-> 0]
    /\ UNCHANGED <<config, sync, world, queue>>

(* flecs_run_pipeline_ops for stage 0.                                     *)
MainRun ==
    /\ mpc = "run"
    /\ mpc' = IF OpMultiThreaded THEN "sync" ELSE "merge"
    /\ ran' = IF OpMultiThreaded /\ stage_count > 1
              THEN [ran EXCEPT ![0] = @ + 1] ELSE ran
    /\ queue' \in {queue, queue \cup {0}}
    /\ UNCHANGED <<pc, config, sync, world>>

(* flecs_wait_for_sync: sleep if a worker is still busy. There is one      *)
(* wait, not a loop around it.                                             *)
WaitForSync ==
    /\ mpc = "sync"
    /\ mpc' = IF stage_count <= 1 THEN "merge"
              ELSE IF workers_waiting = stage_count - 1 THEN "synced"
              ELSE "syncwait"
    /\ UNCHANGED <<pc, config, sync, world, queue, ran>>

Synced ==
    /\ mpc = "synced"
    /\ mpc' = "merge"
    /\ workers_waiting' = 0
    /\ UNCHANGED <<pc, config, workers_running, quit, world, queue, ran>>

(* Faulty variant of Merge: only the main stage is merged.                 *)
MergeMainOnly ==
    /\ mpc = "merge"
    /\ mpc' = "op"
    /\ readonly' = FALSE
    /\ multi_threaded' = FALSE
    /\ queue' = queue \ {0}
    /\ PickOps(ops_left - 1)
    /\ UNCHANGED <<pc, config, sync, first_frame, ran>>

(* ecs_readonly_end merges every stage, flecs_defer_end the main stage.    *)
(* Then the pipeline is updated and moves to the next operation, if any.   *)
Merge ==
    /\ mpc = "merge"
    /\ mpc' = "op"
    /\ readonly' = FALSE
    /\ multi_threaded' = (multi_threaded /\ op.immediate)
    /\ queue' = queue \ (IF op.immediate THEN {0} ELSE 0..(stage_count - 1))
    /\ PickOps(ops_left - 1)
    /\ UNCHANGED <<pc, config, sync, first_frame, ran>>

(* The pipeline is done. After startup systems the stage count is restored *)
(* and the frame goes on; at the end of a frame task threads are joined.   *)
PipelineEnd ==
    /\ mpc = "op"
    /\ ops_left < 0
    /\ IF saved > 0
       THEN /\ mpc' = "frame"
            /\ stage_count' = saved
            /\ saved' = 0
       ELSE /\ mpc' = IF use_tasks /\ thread # {} THEN "joinready" ELSE "idle"
            /\ UNCHANGED <<stage_count, saved>>
    /\ UNCHANGED <<pc, thread, primitives, use_tasks, request, sync, world,
                   queue, ran>>

-----------------------------------------------------------------------------
(* Main thread: configuring and stopping threads.                          *)

(* ecs_set_threads and ecs_set_task_threads; at the end of the world       *)
(* FlecsPipelineFini calls ecs_set_threads(world, 0).                      *)
SetThreads(n, tasks) ==
    /\ mpc = "idle"
    /\ n # stage_count \/ tasks # use_tasks
    /\ request' = [threads |-> n, tasks |-> tasks]
    /\ mpc' = IF thread # {} THEN "joinready" ELSE "resize"
    /\ UNCHANGED <<pc, thread, stage_count, saved, primitives, use_tasks, sync,
                   world, queue, ran>>

(* flecs_join_worker_threads: wait until all threads run, then set the     *)
(* quit flag, outside the mutex.                                           *)
JoinReady ==
    /\ mpc = "joinready"
    /\ workers_running = stage_count - 1
    /\ mpc' = "quitting"
    /\ quit' = TRUE
    /\ UNCHANGED <<pc, config, workers_running, workers_waiting, world, queue,
                   ran>>

JoinSignal ==
    /\ mpc = "quitting"
    /\ mpc' = "join"
    /\ WakeAll
    /\ UNCHANGED <<config, sync, world, queue, ran>>

(* Every thread has ended: take back the handles and the quit flag.        *)
JoinThreads ==
    /\ mpc = "join"
    /\ \A w \in thread : pc[w] = "ended"
    /\ mpc' = IF request # NoRequest THEN "resize" ELSE "idle"
    /\ thread' = {}
    /\ pc' = [w \in Workers |-> IF w \in thread THEN "none" ELSE pc[w]]
    /\ quit' = FALSE
    /\ UNCHANGED <<stage_count, saved, primitives, use_tasks, request,
                   workers_running, workers_waiting, world, queue, ran>>

(* The rest of flecs_set_threads_internal: the primitives are freed, their *)
(* fields keep the freed values. With more than one thread there are new   *)
(* ones, and new stages.                                                   *)
Resize ==
    /\ mpc = "resize"
    /\ mpc' = "idle"
    /\ use_tasks' = request.tasks
    /\ request' = NoRequest
    /\ IF request.threads > 1
       THEN /\ primitives' = "live"
            /\ stage_count' = request.threads
            /\ IF request.tasks THEN UNCHANGED <<thread, pc>>
               ELSE StartThreads(request.threads)
       ELSE /\ primitives' = IF stage_count > 1 THEN "freed" ELSE primitives
            /\ stage_count' = 1
            /\ UNCHANGED <<thread, pc>>
    /\ UNCHANGED <<saved, sync, world, queue, ran>>

-----------------------------------------------------------------------------
Init == /\ mpc = "idle"
        /\ pc = [w \in Workers |-> "none"]
        /\ thread = {}
        /\ stage_count = 1
        /\ saved = 0
        /\ primitives = "null"
        /\ use_tasks = FALSE
        /\ request = NoRequest
        /\ workers_running = 0 /\ workers_waiting = 0 /\ quit = FALSE
        /\ readonly = FALSE /\ multi_threaded = FALSE
        /\ first_frame = TRUE
        /\ op = NoOp /\ ops_left = -1
        /\ queue = {}
        /\ ran = [s \in Stages |-> 0]

WorkerStep(w) == \/ WorkerStart(w) \/ WorkerWake(w) \/ WorkerLoop(w)
                 \/ WorkerRun(w) \/ WorkerSync(w) \/ WorkerLeave(w)

(* The steps the main thread takes on its own inside a call.               *)
MainStep == \/ FrameBegin \/ WaitForWorkers \/ OpBegin \/ SignalWorkers
            \/ MainRun \/ WaitForSync \/ Synced \/ Merge \/ PipelineEnd
            \/ JoinReady \/ JoinSignal \/ JoinThreads \/ Resize

Next == \/ MainStep
        \/ \E w \in Workers : WorkerStep(w)
        \/ Progress
        \/ RunPipeline
        \/ \E n \in 0..(MaxWorkers + 1), tasks \in BOOLEAN : SetThreads(n, tasks)

(* The operating system runs every thread that can run, systems return,    *)
(* and no thread is starved of sync_mutex. The application need not call   *)
(* anything.                                                               *)
Fairness == WF_vars(MainStep) /\ \A w \in Workers : WF_vars(WorkerStep(w))

Spec == Init /\ [][Next]_vars
LiveSpec == Spec /\ Fairness

(* The same system on condition variables that may wake a thread nobody    *)
(* signalled, as POSIX allows.                                             *)
SpuriousSpec == Init /\ [][Next \/ SpuriousWakeup]_vars

-----------------------------------------------------------------------------
(* Properties.                                                             *)

(* Types. The counters stay between zero and the number of workers.        *)
TypeOK ==
    /\ mpc \in {"idle", "frame", "ready", "op", "signal", "run", "sync",
                "syncwait", "synced", "merge", "joinready", "quitting", "join",
                "resize"}
    /\ pc \in [Workers -> {"none", "start", "asleep", "woken", "check", "run",
                           "sync", "leave", "ended"}]
    /\ thread \in SUBSET Workers
    /\ stage_count \in 1..(MaxWorkers + 1)
    /\ saved \in 0..(MaxWorkers + 1)
    /\ primitives \in {"null", "live", "freed"}
    /\ use_tasks \in BOOLEAN
    /\ request \in [threads : -1..(MaxWorkers + 1), tasks : BOOLEAN]
    /\ workers_running \in 0..MaxWorkers
    /\ workers_waiting \in 0..MaxWorkers
    /\ {quit, readonly, multi_threaded, first_frame} \subseteq BOOLEAN
    /\ op \in OpKinds
    /\ ops_left \in -1..(MaxOps - 1)
    /\ queue \in SUBSET Stages
    /\ ran \in [Stages -> 0..1]

(* The assertions on the counters: all workers wait when the main thread   *)
(* leaves its wait (worker.c:154), none does when an operation begins      *)
(* (pipeline.c:630), and none runs after a join (worker.c:219).            *)
SyncAssertions ==
    /\ mpc = "synced" => workers_waiting = stage_count - 1
    /\ mpc = "op" => workers_waiting = 0
    /\ mpc = "resize" => workers_running = 0

(* The main thread's wait_for_sync assertion on its own: it is signalled   *)
(* only when all workers are waiting.                                      *)
SignalledOnlyWhenSynced == mpc = "synced" => workers_waiting = stage_count - 1

(* While the main thread may change the world (it updates the pipeline,    *)
(* merges, or is back in the application) no worker is between the start   *)
(* of its loop body and its next wait.                                     *)
MainHasWorldAlone ==
    mpc \notin {"run", "sync", "syncwait", "quitting", "join"} =>
        \A w \in Workers : pc[w] \in {"none", "start", "asleep"}

(* A signal finds every worker asleep on worker_cond: none can miss it and *)
(* sleep through the operation, however late it was scheduled.             *)
SignalReachesAll ==
    mpc = "signal" /\ stage_count > 1 =>
        \A w \in Team : w \in thread /\ pc[w] = "asleep"

(* The mutex and condition variables are not freed, or replaced, under a   *)
(* thread that still has to use them.                                      *)
PrimitivesLive ==
    /\ \A w \in Workers : pc[w] \notin {"none", "ended"} => primitives = "live"
    /\ mpc \in {"synced", "syncwait", "joinready", "quitting"} =>
          primitives = "live"
    /\ mpc = "resize" => \A w \in Workers : pc[w] = "none"

(* What the two sides rely on at the mutex, taken together: the assertions *)
(* hold, a signal reaches every worker, and nobody uses a mutex or a       *)
(* condition variable that is gone (worker.c).                             *)
SyncInv == TypeOK /\ SyncAssertions /\ SignalReachesAll /\ PrimitivesLive

(* Commands enqueued by a worker are merged at the end of the operation    *)
(* that enqueued them: no queue has commands when the next one begins, or  *)
(* when stages are freed.                                                  *)
CommandsMerged ==
    /\ mpc \notin {"run", "sync", "syncwait", "synced", "merge"} => queue = {}
    /\ \A s \in queue : s < stage_count

(* Refinement: an operation that is run multi-threaded is a fork and a     *)
(* join of all stages.                                                     *)
Parallel == /\ mpc \in {"run", "sync", "syncwait", "synced"}
            /\ OpMultiThreaded
            /\ stage_count > 1

FJ == INSTANCE ForkJoin
        WITH team <- IF Parallel THEN 0..(stage_count - 1) ELSE {}, ran <- ran

(* Every stage runs every multi-threaded operation exactly once, between   *)
(* the main thread's signal and the end of its wait, and no worker ever    *)
(* runs anything at another time.                                          *)
ImplementsForkJoin == FJ!FJSpec

(* A call of ecs_progress, ecs_run_pipeline or ecs_set_threads returns: no *)
(* thread waits forever for a signal that is not coming.                   *)
CallsReturn == mpc # "idle" ~> mpc = "idle"

(* The world is in multi-threaded mode only while it is configured with    *)
(* more than one thread: in single-threaded mode systems may create        *)
(* entities (flecs.h:2128).                                                *)
MultiThreadedIsConfigured == multi_threaded => stage_count > 1 \/ saved > 1
=============================================================================
