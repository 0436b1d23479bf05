-------------------------- MODULE WorkerSyncProofs --------------------------
(***************************************************************************)
(* Proofs about the threads of a pipeline, for any number of workers and   *)
(* operations. The two counters under sync_mutex are the sizes of two sets *)
(* of workers; where every worker can be follows from where the main       *)
(* thread is.                                                              *)
(***************************************************************************)
EXTENDS WorkerSync, FiniteSetTheorems, TLAPS

(* The stage count of the configuration, also while it is put aside.       *)
Full == IF saved > 0 THEN saved ELSE stage_count

(* Workers that have entered their loop and not left it.                   *)
Running == {w \in Workers : pc[w] \in {"asleep", "woken", "check", "run", "sync", "leave"}}

(* In a parallel phase: workers that are done and sleep.                   *)
Done == {w \in Workers : pc[w] = "asleep"}

InOp == {"signal", "run", "sync", "syncwait", "synced", "merge"}
Joining == {"joinready", "quitting", "join"}

(* Threads exist for all stages or for none: worker threads between two    *)
(* configurations, task threads during a frame.                            *)
ThreadsInv ==
    /\ \A w \in Workers : w \in thread <=> pc[w] # "none"
    /\ thread \in {{}, 1..(Full - 1)}
    /\ ~use_tasks /\ mpc # "resize" => thread = 1..(Full - 1)
    /\ use_tasks /\ (mpc \in {"idle", "frame"} \/ saved > 0) => thread = {}
    /\ use_tasks /\ saved = 0 /\ mpc \in {"ready", "op"} \cup InOp => thread = 1..(Full - 1)
    /\ mpc = "resize" => thread = {}
    /\ mpc \in Joining => thread # {}

(* What the calls of the main thread have set up on the way.               *)
ConfigInv ==
    /\ saved > 0 => stage_count = 1 /\ mpc \in {"op", "signal", "run", "sync", "merge"}
    /\ Full > 1 => primitives = "live"
    /\ request # NoRequest => mpc \in Joining \cup {"resize"}
    /\ mpc \in Joining /\ ~use_tasks => request # NoRequest
    /\ mpc \in {"signal", "sync", "syncwait", "synced"} => OpMultiThreaded
    /\ mpc \in {"syncwait", "synced"} => stage_count > 1
    /\ mpc \in InOp => ops_left >= 0
    /\ quit <=> mpc \in {"quitting", "join"}

(* Where the workers are.                                                  *)
PlacesInv ==
    \A w \in thread :
        /\ mpc \in {"idle", "frame", "ready", "joinready"} => pc[w] \in {"start", "asleep"}
        /\ mpc \in {"op", "signal", "merge"} \/ (mpc \in {"run", "sync"} /\ ~Parallel) =>
              pc[w] = "asleep" \/ (saved > 0 /\ pc[w] = "start")
        /\ Parallel /\ ran[w] = 0 => pc[w] \in {"woken", "check", "run"}
        /\ Parallel /\ ran[w] # 0 => pc[w] \in {"sync", "asleep"}
        /\ mpc = "quitting" => pc[w] = "asleep"
        /\ mpc = "join" => pc[w] \in {"woken", "check", "leave", "ended"}

(* The counters.                                                           *)
CountersInv ==
    /\ workers_running = Cardinality(Running)
    /\ workers_waiting = IF Parallel THEN Cardinality(Done) ELSE 0
    /\ mpc = "synced" => workers_waiting = stage_count - 1

(* The history of a parallel phase.                                        *)
RanInv ==
    Parallel => /\ ran[0] = IF mpc = "run" THEN 0 ELSE 1
                /\ \A s \in Stages : s >= stage_count => ran[s] = 0

(* Queues are filled by the stages that run the operation.                 *)
QueueInv ==
    /\ mpc \notin {"run", "sync", "syncwait", "synced", "merge"} => queue = {}
    /\ queue \subseteq IF OpMultiThreaded THEN 0..(stage_count - 1) ELSE {0}

IInv == TypeOK /\ ThreadsInv /\ ConfigInv /\ PlacesInv /\ CountersInv /\ RanInv /\ QueueInv

-----------------------------------------------------------------------------
(* A set of workers is finite and no larger than the bound.                *)
LEMMA WorkerSets ==
    ASSUME NEW S \in SUBSET Workers
    PROVE  IsFiniteSet(S) /\ Cardinality(S) \in 0..MaxWorkers
<1>1. IsFiniteSet(Workers) /\ Cardinality(Workers) = MaxWorkers
  BY MaxWorkersAssumption, FS_Interval DEF Workers
<1>2. IsFiniteSet(S) /\ Cardinality(S) <= MaxWorkers
  BY <1>1, FS_Subset
<1> QED BY <1>2, FS_CardinalityType, MaxWorkersAssumption

(* n of the first n workers are all of them.                               *)
LEMMA AllOfThem ==
    ASSUME NEW n \in Nat, NEW S \in SUBSET (1..n), Cardinality(S) = n
    PROVE  S = 1..n
<1>1. IsFiniteSet(1..n) /\ Cardinality(1..n) = n
  BY FS_Interval
<1> QED BY <1>1, FS_Subset

(* If the counter says that as many workers run as there are, all do.      *)
LEMMA AllRunning ==
    ASSUME IInv, thread = 1..(stage_count - 1), workers_running = stage_count - 1
    PROVE  thread = Running
<1>1. Running \subseteq 1..(stage_count - 1)
  BY DEF IInv, ThreadsInv, Running
<1>2. stage_count - 1 \in Nat
  BY DEF IInv, TypeOK
<1>3. Cardinality(Running) = stage_count - 1
  BY DEF IInv, CountersInv
<1> QED BY <1>1, <1>2, <1>3, AllOfThem

(* Likewise for those that wait for the end of an operation.               *)
LEMMA AllDone ==
    ASSUME IInv, Parallel, workers_waiting = stage_count - 1
    PROVE  thread = Done /\ thread = 1..(stage_count - 1)
<1>1. thread = 1..(stage_count - 1)
  BY DEF IInv, TypeOK, ThreadsInv, ConfigInv, Full, Parallel, InOp
<1>2. Done \subseteq 1..(stage_count - 1)
  BY <1>1 DEF IInv, ThreadsInv, Done
<1> QED BY <1>1, <1>2, AllOfThem, MaxWorkersAssumption DEF IInv, TypeOK, CountersInv

(* The choice of operations keeps their types.                             *)
LEMMA PickOpsTypes ==
    ASSUME NEW n \in -1..(MaxOps - 1), PickOps(n)
    PROVE  op' \in OpKinds /\ ops_left' \in -1..(MaxOps - 1)
BY MaxOpsAssumption DEF PickOps, OpKinds, NoOp

(* A worker registers: the running workers gain it.                        *)
LEMMA WorkerStartKeeps ==
    ASSUME IInv, NEW w \in Workers, WorkerStart(w)
    PROVE  IInv'
<1> USE MaxWorkersAssumption, MaxOpsAssumption
    DEF IInv, config, sync, world, Workers, Stages, Full, InOp, Joining, OpMultiThreaded, Parallel
<1>1. ThreadsInv'
  BY DEF WorkerStart, TypeOK, ThreadsInv, ConfigInv
<1>2. ConfigInv'
  BY DEF WorkerStart, TypeOK, ThreadsInv, ConfigInv, PlacesInv
<1>3. PlacesInv'
  BY DEF WorkerStart, TypeOK, ThreadsInv, ConfigInv, PlacesInv
<1>4. CountersInv'
  <2>1. Running' = Running \cup {w} /\ w \notin Running
    BY DEF WorkerStart, TypeOK, ThreadsInv, ConfigInv, PlacesInv, Running
  <2>2. Cardinality(Running') = Cardinality(Running) + 1
    BY <2>1, WorkerSets, FS_AddElement DEF Running
  <2>3. ~Parallel /\ ~Parallel'
    BY DEF WorkerStart, TypeOK, ThreadsInv, ConfigInv, PlacesInv
  <2> QED BY <2>2, <2>3 DEF WorkerStart, CountersInv, ConfigInv
<1>5. RanInv'
  BY DEF WorkerStart, TypeOK, ThreadsInv, ConfigInv, RanInv
<1>6. QueueInv'
  BY DEF WorkerStart, TypeOK, ThreadsInv, ConfigInv, QueueInv
<1>7. TypeOK'
  BY <1>4, WorkerSets DEF WorkerStart, TypeOK, CountersInv, Running, Done, PlacesInv, ConfigInv
<1> QED BY <1>1, <1>2, <1>3, <1>4, <1>5, <1>6, <1>7

(* A woken worker takes the mutex and lets it go.                          *)
LEMMA WorkerWakeKeeps ==
    ASSUME IInv, NEW w \in Workers, WorkerWake(w)
    PROVE  IInv'
<1> USE MaxWorkersAssumption, MaxOpsAssumption
    DEF IInv, config, sync, world, Workers, Stages, Full, InOp, Joining, OpMultiThreaded, Parallel
<1>1. ThreadsInv'
  BY DEF WorkerWake, TypeOK, ThreadsInv, ConfigInv
<1>2. ConfigInv'
  BY DEF WorkerWake, TypeOK, ThreadsInv, ConfigInv, PlacesInv
<1>3. PlacesInv'
  BY DEF WorkerWake, TypeOK, ThreadsInv, ConfigInv, PlacesInv
<1>4. CountersInv'
  <2>1. Running' = Running /\ Done' = Done
    BY DEF WorkerWake, TypeOK, ThreadsInv, ConfigInv, PlacesInv, Running, Done
  <2> QED BY <2>1 DEF WorkerWake, TypeOK, ThreadsInv, ConfigInv, PlacesInv, CountersInv
<1>5. RanInv'
  BY DEF WorkerWake, TypeOK, ThreadsInv, ConfigInv, RanInv
<1>6. QueueInv'
  BY DEF WorkerWake, TypeOK, ThreadsInv, ConfigInv, QueueInv
<1>7. TypeOK'
  BY <1>4, WorkerSets DEF WorkerWake, TypeOK, CountersInv, Running, Done, PlacesInv, ConfigInv
<1> QED BY <1>1, <1>2, <1>3, <1>4, <1>5, <1>6, <1>7

(* A worker reads the quit flag: it is set only when it must leave.        *)
LEMMA WorkerLoopKeeps ==
    ASSUME IInv, NEW w \in Workers, WorkerLoop(w)
    PROVE  IInv'
<1> USE MaxWorkersAssumption, MaxOpsAssumption
    DEF IInv, config, sync, world, Workers, Stages, Full, InOp, Joining, OpMultiThreaded, Parallel
<1>1. ThreadsInv'
  BY DEF WorkerLoop, TypeOK, ThreadsInv, ConfigInv
<1>2. ConfigInv'
  BY DEF WorkerLoop, TypeOK, ThreadsInv, ConfigInv, PlacesInv
<1>3. PlacesInv'
  BY DEF WorkerLoop, TypeOK, ThreadsInv, ConfigInv, PlacesInv
<1>4. CountersInv'
  <2>1. Running' = Running /\ Done' = Done
    BY DEF WorkerLoop, TypeOK, ThreadsInv, ConfigInv, PlacesInv, Running, Done
  <2> QED BY <2>1 DEF WorkerLoop, TypeOK, ThreadsInv, ConfigInv, PlacesInv, CountersInv
<1>5. RanInv'
  BY DEF WorkerLoop, TypeOK, ThreadsInv, ConfigInv, RanInv
<1>6. QueueInv'
  BY DEF WorkerLoop, TypeOK, ThreadsInv, ConfigInv, QueueInv
<1>7. TypeOK'
  BY <1>4, WorkerSets DEF WorkerLoop, TypeOK, CountersInv, Running, Done, PlacesInv, ConfigInv
<1> QED BY <1>1, <1>2, <1>3, <1>4, <1>5, <1>6, <1>7

(* A worker runs its stage, once, and only in a parallel phase.            *)
LEMMA WorkerRunKeeps ==
    ASSUME IInv, NEW w \in Workers, WorkerRun(w)
    PROVE  IInv'
<1> USE MaxWorkersAssumption, MaxOpsAssumption
    DEF IInv, config, sync, world, Workers, Stages, Full, InOp, Joining, OpMultiThreaded, Parallel
<1>1. ThreadsInv'
  BY DEF WorkerRun, TypeOK, ThreadsInv, ConfigInv
<1>2. ConfigInv'
  BY DEF WorkerRun, TypeOK, ThreadsInv, ConfigInv, PlacesInv
<1>3. PlacesInv'
  BY DEF WorkerRun, TypeOK, ThreadsInv, ConfigInv, PlacesInv
<1>4. CountersInv'
  <2>1. Running' = Running /\ Done' = Done
    BY DEF WorkerRun, TypeOK, ThreadsInv, ConfigInv, PlacesInv, Running, Done
  <2> QED BY <2>1 DEF WorkerRun, TypeOK, ThreadsInv, ConfigInv, PlacesInv, CountersInv
<1>5. RanInv'
  BY DEF WorkerRun, TypeOK, ThreadsInv, ConfigInv, RanInv
<1>6. QueueInv'
  <2>1. Parallel /\ w \in thread
    BY DEF WorkerRun, TypeOK, ThreadsInv, ConfigInv, PlacesInv
  <2>2. w \in 0..(stage_count - 1)
    BY <2>1 DEF TypeOK, ThreadsInv, ConfigInv
  <2> QED BY <2>1, <2>2 DEF WorkerRun, TypeOK, QueueInv
<1>7. TypeOK'
  <2>1. ran[w] = 0
    BY DEF WorkerRun, TypeOK, ThreadsInv, ConfigInv, PlacesInv
  <2> QED BY <2>1 DEF WorkerRun, TypeOK
<1> QED BY <1>1, <1>2, <1>3, <1>4, <1>5, <1>6, <1>7

(* A worker reports: the waiting workers gain it.                          *)
LEMMA WorkerSyncKeeps ==
    ASSUME IInv, NEW w \in Workers, WorkerSync(w)
    PROVE  IInv'
<1> USE MaxWorkersAssumption, MaxOpsAssumption
    DEF IInv, config, sync, world, Workers, Stages, Full, InOp, Joining, OpMultiThreaded, Parallel
<1>1. ThreadsInv'
  <2>1. Parallel
    BY DEF WorkerSync, TypeOK, ThreadsInv, ConfigInv, PlacesInv
  <2> QED BY <2>1 DEF WorkerSync, TypeOK, ThreadsInv, ConfigInv, PlacesInv
<1>2. ConfigInv'
  BY DEF WorkerSync, TypeOK, ThreadsInv, ConfigInv, PlacesInv
<1>3. PlacesInv'
  BY SMTT(30) DEF WorkerSync, TypeOK, ThreadsInv, ConfigInv, PlacesInv
<1>4. CountersInv'
  <2>1. Parallel /\ Parallel'
    BY DEF WorkerSync, TypeOK, ThreadsInv, ConfigInv, PlacesInv
  <2>2. Running' = Running /\ Done' = Done \cup {w} /\ w \notin Done
    BY <2>1 DEF WorkerSync, TypeOK, ThreadsInv, ConfigInv, PlacesInv, Running, Done
  <2>3. Cardinality(Done') = Cardinality(Done) + 1
    BY <2>2, WorkerSets, FS_AddElement DEF Done
  <2>4. workers_waiting' = Cardinality(Done')
    <3>1. stage_count > 1 /\ workers_waiting = Cardinality(Done)
      BY <2>1 DEF CountersInv
    <3>2. workers_waiting' = workers_waiting + 1
      BY <3>1 DEF WorkerSync, TypeOK
    <3> QED BY <2>3, <3>1, <3>2
  <2>5. mpc' = "synced" => workers_waiting' = stage_count' - 1
    <3>1. mpc = "synced" => FALSE
      <4>1. mpc = "synced" => thread = Done
        BY <2>1, AllDone DEF CountersInv
      <4> QED BY <2>1, <2>2, <4>1 DEF WorkerSync, TypeOK, ThreadsInv
    <3> QED BY <2>1, <3>1 DEF WorkerSync
  <2> QED BY <2>1, <2>2, <2>4, <2>5 DEF WorkerSync, CountersInv
<1>5. RanInv'
  BY DEF WorkerSync, TypeOK, ThreadsInv, ConfigInv, RanInv
<1>6. QueueInv'
  BY DEF WorkerSync, TypeOK, ThreadsInv, ConfigInv, QueueInv
<1>7. TypeOK'
  BY <1>4, WorkerSets, SMTT(30) DEF WorkerSync, TypeOK, CountersInv, Running, Done, PlacesInv, ConfigInv
<1> QED BY <1>1, <1>2, <1>3, <1>4, <1>5, <1>6, <1>7

(* A worker leaves: the running workers lose it.                           *)
LEMMA WorkerLeaveKeeps ==
    ASSUME IInv, NEW w \in Workers, WorkerLeave(w)
    PROVE  IInv'
<1> USE MaxWorkersAssumption, MaxOpsAssumption
    DEF IInv, config, sync, world, Workers, Stages, Full, InOp, Joining, OpMultiThreaded, Parallel
<1>1. ThreadsInv'
  BY DEF WorkerLeave, TypeOK, ThreadsInv, ConfigInv
<1>2. ConfigInv'
  BY DEF WorkerLeave, TypeOK, ThreadsInv, ConfigInv, PlacesInv
<1>3. PlacesInv'
  BY DEF WorkerLeave, TypeOK, ThreadsInv, ConfigInv, PlacesInv
<1>4. CountersInv'
  <2>1. Running' = Running \ {w} /\ w \in Running
    BY DEF WorkerLeave, TypeOK, ThreadsInv, ConfigInv, PlacesInv, Running
  <2>2. Cardinality(Running') = Cardinality(Running) - 1
    <3>1. IsFiniteSet(Running)
      BY WorkerSets DEF Running
    <3> QED BY <2>1, <3>1, FS_RemoveElement
  <2>3. ~Parallel /\ ~Parallel'
    BY DEF WorkerLeave, TypeOK, ThreadsInv, ConfigInv, PlacesInv
  <2> QED BY <2>2, <2>3 DEF WorkerLeave, CountersInv
<1>5. RanInv'
  BY DEF WorkerLeave, TypeOK, ThreadsInv, ConfigInv, RanInv
<1>6. QueueInv'
  BY DEF WorkerLeave, TypeOK, ThreadsInv, ConfigInv, QueueInv
<1>7. TypeOK'
  BY <1>4, WorkerSets DEF WorkerLeave, TypeOK, CountersInv, Running, Done, PlacesInv, ConfigInv
<1> QED BY <1>1, <1>2, <1>3, <1>4, <1>5, <1>6, <1>7

(* Task threads start at the beginning of a frame.                         *)
LEMMA FrameBeginKeeps ==
    ASSUME IInv, FrameBegin
    PROVE  IInv'
<1> USE MaxWorkersAssumption, MaxOpsAssumption
    DEF IInv, config, sync, world, Workers, Stages, Full, InOp, Joining, OpMultiThreaded, Parallel
<1>1. ThreadsInv'
  BY SMTT(30) DEF FrameBegin, StartThreads, TypeOK, ThreadsInv, ConfigInv
<1>2. ConfigInv'
  BY DEF FrameBegin, StartThreads, TypeOK, ThreadsInv, ConfigInv, PlacesInv
<1>3. PlacesInv'
  BY DEF FrameBegin, StartThreads, TypeOK, ThreadsInv, ConfigInv, PlacesInv
<1>4. CountersInv'
  <2>1. Running' = Running
    BY DEF FrameBegin, StartThreads, TypeOK, ThreadsInv, ConfigInv, PlacesInv, Running
  <2> QED BY <2>1 DEF FrameBegin, TypeOK, CountersInv
<1>5. RanInv'
  BY DEF FrameBegin, StartThreads, TypeOK, ThreadsInv, ConfigInv, RanInv
<1>6. QueueInv'
  BY DEF FrameBegin, StartThreads, TypeOK, ThreadsInv, ConfigInv, QueueInv
<1>7. TypeOK'
  <2>1. thread' \in SUBSET Workers
    <3>1. stage_count \in 0..(MaxWorkers + 1) /\ thread \subseteq Workers
      BY DEF TypeOK
    <3>2. 1..(stage_count - 1) \subseteq 1..MaxWorkers
      BY <3>1
    <3>3. thread' = thread \/ thread' = 1..(stage_count - 1)
      BY DEF FrameBegin, StartThreads
    <3> QED BY <3>1, <3>2, <3>3
  <2>2. pc' \in [Workers -> {"none", "start", "asleep", "woken", "check", "run", "sync",
                            "leave", "ended"}]
    BY DEF FrameBegin, StartThreads, TypeOK
  <2> QED BY <2>1, <2>2 DEF FrameBegin, TypeOK
<1> QED BY <1>1, <1>2, <1>3, <1>4, <1>5, <1>6, <1>7

(* The spin ends when every worker sleeps on worker_cond.                  *)
LEMMA WaitForWorkersKeeps ==
    ASSUME IInv, WaitForWorkers
    PROVE  IInv'
<1> USE MaxWorkersAssumption, MaxOpsAssumption
    DEF IInv, config, sync, world, Workers, Stages, Full, InOp, Joining, OpMultiThreaded, Parallel
<1>1. ThreadsInv'
  BY DEF WaitForWorkers, PickOps, TypeOK, ThreadsInv, ConfigInv
<1>2. ConfigInv'
  BY DEF WaitForWorkers, PickOps, TypeOK, ThreadsInv, ConfigInv, PlacesInv
<1>3. PlacesInv'
  <2>1. thread = 1..(stage_count - 1) /\ saved = 0
    BY DEF WaitForWorkers, TypeOK, ThreadsInv, ConfigInv, PlacesInv
  <2>2. stage_count > 1 => thread = Running
    BY <2>1, AllRunning DEF WaitForWorkers, TypeOK
  <2>3. \A w \in thread : pc[w] = "asleep"
    BY <2>1, <2>2 DEF WaitForWorkers, TypeOK, PlacesInv, Running
  <2> QED BY <2>1, <2>3 DEF WaitForWorkers, TypeOK, PlacesInv
<1>4. CountersInv'
  BY DEF WaitForWorkers, PickOps, TypeOK, ThreadsInv, ConfigInv, PlacesInv, CountersInv, Running, Done
<1>5. RanInv'
  BY DEF WaitForWorkers, PickOps, TypeOK, ThreadsInv, ConfigInv, RanInv
<1>6. QueueInv'
  BY DEF WaitForWorkers, PickOps, TypeOK, ThreadsInv, ConfigInv, QueueInv
<1>7. TypeOK'
  <2>1. op' \in OpKinds /\ ops_left' \in -1..(MaxOps - 1)
    BY PickOpsTypes DEF WaitForWorkers
  <2> QED BY <2>1 DEF WaitForWorkers, TypeOK
<1> QED BY <1>1, <1>2, <1>3, <1>4, <1>5, <1>6, <1>7

(* An operation begins, in a serial phase.                                 *)
LEMMA OpBeginKeeps ==
    ASSUME IInv, OpBegin
    PROVE  IInv'
<1> USE MaxWorkersAssumption, MaxOpsAssumption
    DEF IInv, config, sync, world, Workers, Stages, Full, InOp, Joining, OpMultiThreaded, Parallel
<1>1. ThreadsInv'
  BY DEF OpBegin, TypeOK, ThreadsInv, ConfigInv
<1>2. ConfigInv'
  BY DEF OpBegin, TypeOK, ThreadsInv, ConfigInv, PlacesInv
<1>3. PlacesInv'
  BY DEF OpBegin, TypeOK, ThreadsInv, ConfigInv, PlacesInv
<1>4. CountersInv'
  BY DEF OpBegin, TypeOK, ThreadsInv, ConfigInv, PlacesInv, CountersInv, Running, Done
<1>5. RanInv'
  BY DEF OpBegin, TypeOK, ThreadsInv, ConfigInv, RanInv
<1>6. QueueInv'
  BY DEF OpBegin, TypeOK, ThreadsInv, ConfigInv, QueueInv
<1>7. TypeOK'
  BY <1>4, WorkerSets DEF OpBegin, TypeOK, CountersInv, Running, Done, PlacesInv, ConfigInv
<1> QED BY <1>1, <1>2, <1>3, <1>4, <1>5, <1>6, <1>7

(* The signal finds every worker asleep, and wakes it.                     *)
LEMMA SignalWorkersKeeps ==
    ASSUME IInv, SignalWorkers
    PROVE  IInv'
<1> USE MaxWorkersAssumption, MaxOpsAssumption
    DEF IInv, config, sync, world, Workers, Stages, Full, InOp, Joining, OpMultiThreaded, Parallel
<1>1. ThreadsInv'
  BY DEF SignalWorkers, WakeAll, TypeOK, ThreadsInv, ConfigInv, PlacesInv
<1>2. ConfigInv'
  BY DEF SignalWorkers, WakeAll, TypeOK, ThreadsInv, ConfigInv, PlacesInv
<1>3. PlacesInv'
  BY DEF SignalWorkers, WakeAll, TypeOK, ThreadsInv, ConfigInv, PlacesInv
<1>4. CountersInv'
  <2>1. Running' = Running
    BY DEF SignalWorkers, WakeAll, TypeOK, Running
  <2>2. Parallel' => Done' = {}
    BY DEF SignalWorkers, WakeAll, TypeOK, ThreadsInv, ConfigInv, PlacesInv, Done
  <2> QED BY <2>1, <2>2, FS_EmptySet DEF SignalWorkers, TypeOK, ThreadsInv, ConfigInv, PlacesInv, CountersInv
<1>5. RanInv'
  BY DEF SignalWorkers, WakeAll, TypeOK, ThreadsInv, ConfigInv, RanInv
<1>6. QueueInv'
  BY DEF SignalWorkers, WakeAll, TypeOK, ThreadsInv, ConfigInv, QueueInv
<1>7. TypeOK'
  BY <1>4, WorkerSets DEF SignalWorkers, WakeAll, TypeOK, CountersInv, Running, Done, PlacesInv, ConfigInv
<1> QED BY <1>1, <1>2, <1>3, <1>4, <1>5, <1>6, <1>7

(* The main thread runs stage 0, once.                                     *)
LEMMA MainRunKeeps ==
    ASSUME IInv, MainRun
    PROVE  IInv'
<1> USE MaxWorkersAssumption, MaxOpsAssumption
    DEF IInv, config, sync, world, Workers, Stages, Full, InOp, Joining, OpMultiThreaded, Parallel
<1>1. ThreadsInv'
  BY DEF MainRun, TypeOK, ThreadsInv, ConfigInv
<1>2. ConfigInv'
  BY DEF MainRun, TypeOK, ThreadsInv, ConfigInv, PlacesInv
<1>3. PlacesInv'
  BY DEF MainRun, TypeOK, ThreadsInv, ConfigInv, PlacesInv
<1>4. CountersInv'
  BY DEF MainRun, TypeOK, ThreadsInv, ConfigInv, PlacesInv, CountersInv, Running, Done
<1>5. RanInv'
  BY DEF MainRun, TypeOK, ThreadsInv, ConfigInv, RanInv
<1>6. QueueInv'
  BY DEF MainRun, TypeOK, ThreadsInv, ConfigInv, QueueInv
<1>7. TypeOK'
  <2>1. ran' \in [Stages -> 0..1]
    <3>1. 0 \in Stages
      OBVIOUS
    <3>2. Parallel => ran[0] = 0
      BY DEF MainRun, RanInv
    <3>3. CASE OpMultiThreaded /\ stage_count > 1
      BY <3>1, <3>2, <3>3 DEF MainRun, TypeOK
    <3>4. CASE ~(OpMultiThreaded /\ stage_count > 1)
      BY <3>4 DEF MainRun, TypeOK
    <3> QED BY <3>3, <3>4
  <2>2. queue' \in SUBSET Stages
    BY DEF MainRun, TypeOK
  <2> QED BY <2>1, <2>2 DEF MainRun, TypeOK
<1> QED BY <1>1, <1>2, <1>3, <1>4, <1>5, <1>6, <1>7

(* The main thread looks at the counter, and sleeps or goes on.            *)
LEMMA WaitForSyncKeeps ==
    ASSUME IInv, WaitForSync
    PROVE  IInv'
<1> USE MaxWorkersAssumption, MaxOpsAssumption
    DEF IInv, config, sync, world, Workers, Stages, Full, InOp, Joining, OpMultiThreaded, Parallel
<1>1. ThreadsInv'
  BY DEF WaitForSync, TypeOK, ThreadsInv, ConfigInv
<1>2. ConfigInv'
  BY DEF WaitForSync, TypeOK, ThreadsInv, ConfigInv, PlacesInv
<1>3. PlacesInv'
  BY DEF WaitForSync, TypeOK, ThreadsInv, ConfigInv, PlacesInv
<1>4. CountersInv'
  BY DEF WaitForSync, TypeOK, ThreadsInv, ConfigInv, PlacesInv, CountersInv, Running, Done
<1>5. RanInv'
  BY DEF WaitForSync, TypeOK, ThreadsInv, ConfigInv, RanInv
<1>6. QueueInv'
  BY DEF WaitForSync, TypeOK, ThreadsInv, ConfigInv, QueueInv
<1>7. TypeOK'
  BY <1>4, WorkerSets DEF WaitForSync, TypeOK, CountersInv, Running, Done, PlacesInv, ConfigInv
<1> QED BY <1>1, <1>2, <1>3, <1>4, <1>5, <1>6, <1>7

(* The main thread goes on when all workers sleep again.                   *)
LEMMA SyncedKeeps ==
    ASSUME IInv, Synced
    PROVE  IInv'
<1> USE MaxWorkersAssumption, MaxOpsAssumption
    DEF IInv, config, sync, world, Workers, Stages, Full, InOp, Joining, OpMultiThreaded, Parallel
<1>1. ThreadsInv'
  BY DEF Synced, TypeOK, ThreadsInv, ConfigInv
<1>2. ConfigInv'
  BY DEF Synced, TypeOK, ThreadsInv, ConfigInv, PlacesInv
<1>3. PlacesInv'
  <2>1. thread = Done
    BY AllDone DEF Synced, TypeOK, ConfigInv, CountersInv
  <2> QED BY <2>1 DEF Synced, TypeOK, ThreadsInv, ConfigInv, PlacesInv, Done
<1>4. CountersInv'
  BY DEF Synced, TypeOK, ThreadsInv, ConfigInv, PlacesInv, CountersInv, Running, Done
<1>5. RanInv'
  BY DEF Synced, TypeOK, ThreadsInv, ConfigInv, RanInv
<1>6. QueueInv'
  BY DEF Synced, TypeOK, ThreadsInv, ConfigInv, QueueInv
<1>7. TypeOK'
  BY <1>4, WorkerSets DEF Synced, TypeOK, CountersInv, Running, Done, PlacesInv, ConfigInv
<1> QED BY <1>1, <1>2, <1>3, <1>4, <1>5, <1>6, <1>7

(* The merge empties every queue the operation has filled.                 *)
LEMMA MergeKeeps ==
    ASSUME IInv, Merge
    PROVE  IInv'
<1> USE MaxWorkersAssumption, MaxOpsAssumption
    DEF IInv, config, sync, world, Workers, Stages, Full, InOp, Joining, OpMultiThreaded, Parallel
<1>1. ThreadsInv'
  BY DEF Merge, PickOps, TypeOK, ThreadsInv, ConfigInv
<1>2. ConfigInv'
  BY DEF Merge, PickOps, TypeOK, ThreadsInv, ConfigInv, PlacesInv
<1>3. PlacesInv'
  BY DEF Merge, PickOps, TypeOK, ThreadsInv, ConfigInv, PlacesInv
<1>4. CountersInv'
  BY DEF Merge, PickOps, TypeOK, ThreadsInv, ConfigInv, PlacesInv, CountersInv, Running, Done
<1>5. RanInv'
  BY DEF Merge, PickOps, TypeOK, ThreadsInv, ConfigInv, RanInv
<1>6. QueueInv'
  <2>1. op.immediate => ~op.multi
    BY DEF TypeOK, OpKinds
  <2>2. queue' = {}
    BY <2>1 DEF Merge, TypeOK, QueueInv
  <2> QED BY <2>2 DEF Merge, QueueInv
<1>7. TypeOK'
  <2>1. op' \in OpKinds /\ ops_left' \in -1..(MaxOps - 1)
    BY PickOpsTypes DEF Merge, TypeOK, ConfigInv
  <2> QED BY <2>1 DEF Merge, TypeOK
<1> QED BY <1>1, <1>2, <1>3, <1>4, <1>5, <1>6, <1>7

(* The pipeline ends, or the startup systems do.                           *)
LEMMA PipelineEndKeeps ==
    ASSUME IInv, PipelineEnd
    PROVE  IInv'
<1> USE MaxWorkersAssumption, MaxOpsAssumption
    DEF IInv, config, sync, world, Workers, Stages, Full, InOp, Joining, OpMultiThreaded, Parallel
<1>1. ThreadsInv'
  BY DEF PipelineEnd, TypeOK, ThreadsInv, ConfigInv
<1>2. ConfigInv'
  BY DEF PipelineEnd, TypeOK, ThreadsInv, ConfigInv, PlacesInv
<1>3. PlacesInv'
  BY DEF PipelineEnd, TypeOK, ThreadsInv, ConfigInv, PlacesInv
<1>4. CountersInv'
  BY DEF PipelineEnd, TypeOK, ThreadsInv, ConfigInv, PlacesInv, CountersInv, Running, Done
<1>5. RanInv'
  BY DEF PipelineEnd, TypeOK, ThreadsInv, ConfigInv, RanInv
<1>6. QueueInv'
  BY DEF PipelineEnd, TypeOK, ThreadsInv, ConfigInv, QueueInv
<1>7. TypeOK'
  BY <1>4, WorkerSets DEF PipelineEnd, TypeOK, CountersInv, Running, Done, PlacesInv, ConfigInv
<1> QED BY <1>1, <1>2, <1>3, <1>4, <1>5, <1>6, <1>7

(* The quit flag is set when every worker sleeps.                          *)
LEMMA JoinReadyKeeps ==
    ASSUME IInv, JoinReady
    PROVE  IInv'
<1> USE MaxWorkersAssumption, MaxOpsAssumption
    DEF IInv, config, sync, world, Workers, Stages, Full, InOp, Joining, OpMultiThreaded, Parallel
<1>1. ThreadsInv'
  BY DEF JoinReady, TypeOK, ThreadsInv, ConfigInv
<1>2. ConfigInv'
  BY DEF JoinReady, TypeOK, ThreadsInv, ConfigInv, PlacesInv
<1>3. PlacesInv'
  <2>1. thread = 1..(stage_count - 1)
    BY DEF JoinReady, TypeOK, ThreadsInv, ConfigInv, PlacesInv
  <2>2. thread = Running
    BY <2>1, AllRunning DEF JoinReady
  <2> QED BY <2>2 DEF JoinReady, TypeOK, ThreadsInv, ConfigInv, PlacesInv, Running
<1>4. CountersInv'
  BY DEF JoinReady, TypeOK, ThreadsInv, ConfigInv, PlacesInv, CountersInv, Running, Done
<1>5. RanInv'
  BY DEF JoinReady, TypeOK, ThreadsInv, ConfigInv, RanInv
<1>6. QueueInv'
  BY DEF JoinReady, TypeOK, ThreadsInv, ConfigInv, QueueInv
<1>7. TypeOK'
  BY <1>4, WorkerSets DEF JoinReady, TypeOK, CountersInv, Running, Done, PlacesInv, ConfigInv
<1> QED BY <1>1, <1>2, <1>3, <1>4, <1>5, <1>6, <1>7

(* The quit signal wakes every worker.                                     *)
LEMMA JoinSignalKeeps ==
    ASSUME IInv, JoinSignal
    PROVE  IInv'
<1> USE MaxWorkersAssumption, MaxOpsAssumption
    DEF IInv, config, sync, world, Workers, Stages, Full, InOp, Joining, OpMultiThreaded, Parallel
<1>1. ThreadsInv'
  BY DEF JoinSignal, WakeAll, TypeOK, ThreadsInv, ConfigInv
<1>2. ConfigInv'
  BY DEF JoinSignal, WakeAll, TypeOK, ThreadsInv, ConfigInv, PlacesInv
<1>3. PlacesInv'
  BY DEF JoinSignal, WakeAll, TypeOK, ThreadsInv, ConfigInv, PlacesInv
<1>4. CountersInv'
  BY DEF JoinSignal, WakeAll, TypeOK, ThreadsInv, ConfigInv, PlacesInv, CountersInv, Running, Done
<1>5. RanInv'
  BY DEF JoinSignal, WakeAll, TypeOK, ThreadsInv, ConfigInv, RanInv
<1>6. QueueInv'
  BY DEF JoinSignal, WakeAll, TypeOK, ThreadsInv, ConfigInv, QueueInv
<1>7. TypeOK'
  BY <1>4, WorkerSets DEF JoinSignal, WakeAll, TypeOK, CountersInv, Running, Done, PlacesInv, ConfigInv
<1> QED BY <1>1, <1>2, <1>3, <1>4, <1>5, <1>6, <1>7

(* The join ends when every worker has left.                               *)
LEMMA JoinThreadsKeeps ==
    ASSUME IInv, JoinThreads
    PROVE  IInv'
<1> USE MaxWorkersAssumption, MaxOpsAssumption
    DEF IInv, config, sync, world, Workers, Stages, Full, InOp, Joining, OpMultiThreaded, Parallel
<1>1. ThreadsInv'
  BY DEF JoinThreads, TypeOK, ThreadsInv, ConfigInv
<1>2. ConfigInv'
  BY DEF JoinThreads, TypeOK, ThreadsInv, ConfigInv, PlacesInv
<1>3. PlacesInv'
  BY DEF JoinThreads, TypeOK, ThreadsInv, ConfigInv, PlacesInv
<1>4. CountersInv'
  BY DEF JoinThreads, TypeOK, ThreadsInv, ConfigInv, PlacesInv, CountersInv, Running, Done
<1>5. RanInv'
  BY DEF JoinThreads, TypeOK, ThreadsInv, ConfigInv, RanInv
<1>6. QueueInv'
  BY DEF JoinThreads, TypeOK, ThreadsInv, ConfigInv, QueueInv
<1>7. TypeOK'
  BY <1>4, WorkerSets DEF JoinThreads, TypeOK, CountersInv, Running, Done, PlacesInv, ConfigInv
<1> QED BY <1>1, <1>2, <1>3, <1>4, <1>5, <1>6, <1>7

(* A configuration changes when there are no threads.                      *)
LEMMA ResizeKeeps ==
    ASSUME IInv, Resize
    PROVE  IInv'
<1> USE MaxWorkersAssumption, MaxOpsAssumption
    DEF IInv, config, sync, world, Workers, Stages, Full, InOp, Joining, OpMultiThreaded, Parallel
<1>0. saved = 0 /\ thread = {} /\ \A w \in Workers : pc[w] = "none"
  BY DEF Resize, TypeOK, ThreadsInv, ConfigInv, PlacesInv
<1>1. ThreadsInv'
  <2>1. CASE request.threads > 1 /\ ~request.tasks
    BY <1>0, <2>1 DEF Resize, StartThreads, TypeOK, ThreadsInv
  <2>2. CASE request.threads > 1 /\ request.tasks
    BY <1>0, <2>2 DEF Resize, TypeOK, ThreadsInv
  <2>3. CASE ~(request.threads > 1)
    BY <1>0, <2>3 DEF Resize, TypeOK, ThreadsInv
  <2> QED BY <2>1, <2>2, <2>3
<1>2. ConfigInv'
  BY DEF Resize, StartThreads, TypeOK, ThreadsInv, ConfigInv, PlacesInv
<1>3. PlacesInv'
  BY <1>0 DEF Resize, StartThreads, TypeOK, PlacesInv
<1>4. CountersInv'
  <2>1. Running' = Running
    BY <1>0 DEF Resize, StartThreads, TypeOK, Running
  <2> QED BY <2>1 DEF Resize, TypeOK, CountersInv
<1>5. RanInv'
  BY DEF Resize, StartThreads, TypeOK, ThreadsInv, ConfigInv, RanInv
<1>6. QueueInv'
  BY DEF Resize, StartThreads, TypeOK, ThreadsInv, ConfigInv, QueueInv
<1>7. TypeOK'
  BY <1>0 DEF Resize, StartThreads, TypeOK, NoRequest
<1> QED BY <1>1, <1>2, <1>3, <1>4, <1>5, <1>6, <1>7

(* A frame begins, or the startup systems do.                              *)
LEMMA ProgressKeeps ==
    ASSUME IInv, Progress
    PROVE  IInv'
<1> USE MaxWorkersAssumption, MaxOpsAssumption
    DEF IInv, config, sync, world, Workers, Stages, Full, InOp, Joining, OpMultiThreaded, Parallel
<1>1. ThreadsInv'
  BY DEF Progress, PickOps, TypeOK, ThreadsInv, ConfigInv
<1>2. ConfigInv'
  BY DEF Progress, PickOps, TypeOK, ThreadsInv, ConfigInv, PlacesInv
<1>3. PlacesInv'
  BY DEF Progress, PickOps, TypeOK, ThreadsInv, ConfigInv, PlacesInv
<1>4. CountersInv'
  BY DEF Progress, PickOps, TypeOK, ThreadsInv, ConfigInv, PlacesInv, CountersInv, Running, Done
<1>5. RanInv'
  BY DEF Progress, PickOps, TypeOK, ThreadsInv, ConfigInv, RanInv
<1>6. QueueInv'
  BY DEF Progress, PickOps, TypeOK, ThreadsInv, ConfigInv, QueueInv
<1>7. TypeOK'
  <2>1. op' \in OpKinds /\ ops_left' \in -1..(MaxOps - 1)
    BY PickOpsTypes DEF Progress, TypeOK
  <2>2. stage_count' \in 1..(MaxWorkers + 1) /\ saved' \in 0..(MaxWorkers + 1)
    BY DEF Progress, TypeOK
  <2>3. mpc' \in {"frame", "op"} /\ first_frame' = FALSE
    BY DEF Progress
  <2> QED BY <2>1, <2>2, <2>3 DEF Progress, TypeOK
<1> QED BY <1>1, <1>2, <1>3, <1>4, <1>5, <1>6, <1>7

(* A frame begins.                                                         *)
LEMMA RunPipelineKeeps ==
    ASSUME IInv, RunPipeline
    PROVE  IInv'
<1> USE MaxWorkersAssumption, MaxOpsAssumption
    DEF IInv, config, sync, world, Workers, Stages, Full, InOp, Joining, OpMultiThreaded, Parallel
<1>1. ThreadsInv'
  BY DEF RunPipeline, TypeOK, ThreadsInv, ConfigInv
<1>2. ConfigInv'
  BY DEF RunPipeline, TypeOK, ThreadsInv, ConfigInv, PlacesInv
<1>3. PlacesInv'
  BY DEF RunPipeline, TypeOK, ThreadsInv, ConfigInv, PlacesInv
<1>4. CountersInv'
  BY DEF RunPipeline, TypeOK, ThreadsInv, ConfigInv, PlacesInv, CountersInv, Running, Done
<1>5. RanInv'
  BY DEF RunPipeline, TypeOK, ThreadsInv, ConfigInv, RanInv
<1>6. QueueInv'
  BY DEF RunPipeline, TypeOK, ThreadsInv, ConfigInv, QueueInv
<1>7. TypeOK'
  BY <1>4, WorkerSets DEF RunPipeline, TypeOK, CountersInv, Running, Done, PlacesInv, ConfigInv
<1> QED BY <1>1, <1>2, <1>3, <1>4, <1>5, <1>6, <1>7

(* A new configuration is asked for between frames.                        *)
LEMMA SetThreadsKeeps ==
    ASSUME IInv, NEW n \in 0..(MaxWorkers + 1), NEW tasks \in BOOLEAN, SetThreads(n, tasks)
    PROVE  IInv'
<1> USE MaxWorkersAssumption, MaxOpsAssumption
    DEF IInv, config, sync, world, Workers, Stages, Full, InOp, Joining, OpMultiThreaded, Parallel
<1>1. ThreadsInv'
  BY DEF SetThreads, TypeOK, ThreadsInv, ConfigInv
<1>2. ConfigInv'
  BY DEF SetThreads, NoRequest, TypeOK, ThreadsInv, ConfigInv, PlacesInv
<1>3. PlacesInv'
  BY DEF SetThreads, TypeOK, ThreadsInv, ConfigInv, PlacesInv
<1>4. CountersInv'
  BY DEF SetThreads, TypeOK, ThreadsInv, ConfigInv, PlacesInv, CountersInv, Running, Done
<1>5. RanInv'
  BY DEF SetThreads, TypeOK, ThreadsInv, ConfigInv, RanInv
<1>6. QueueInv'
  BY DEF SetThreads, TypeOK, ThreadsInv, ConfigInv, QueueInv
<1>7. TypeOK'
  BY <1>4, WorkerSets DEF SetThreads, TypeOK, CountersInv, Running, Done, PlacesInv, ConfigInv
<1> QED BY <1>1, <1>2, <1>3, <1>4, <1>5, <1>6, <1>7

-----------------------------------------------------------------------------
(* The world starts without threads.                                       *)
LEMMA InitInv == Init => IInv
<1> SUFFICES ASSUME Init PROVE IInv
  OBVIOUS
<1> USE MaxWorkersAssumption, MaxOpsAssumption
    DEF Init, Workers, Stages, Full, InOp, Joining, OpMultiThreaded, Parallel, NoOp, OpKinds
<1>1. TypeOK
  <2>1. stage_count \in 1..(MaxWorkers + 1) /\ saved \in 0..(MaxWorkers + 1)
    OBVIOUS
  <2>2. workers_running \in 0..MaxWorkers /\ workers_waiting \in 0..MaxWorkers
    OBVIOUS
  <2>3. request \in [threads : -1..(MaxWorkers + 1), tasks : BOOLEAN]
    BY DEF NoRequest
  <2>4. ops_left \in -1..(MaxOps - 1)
    OBVIOUS
  <2>5. ran \in [Stages -> 0..1]
    OBVIOUS
  <2> QED BY <2>1, <2>2, <2>3, <2>4, <2>5 DEF TypeOK
<1>2. ThreadsInv /\ ConfigInv /\ PlacesInv /\ RanInv /\ QueueInv
  BY DEF ThreadsInv, ConfigInv, PlacesInv, RanInv, QueueInv
<1>3. CountersInv
  <2>1. Running = {}
    BY DEF Running
  <2> QED BY <2>1, FS_EmptySet DEF CountersInv
<1> QED BY <1>1, <1>2, <1>3 DEF IInv

(* Nothing the main thread or a worker does breaks the invariant.          *)
LEMMA NextKeeps == IInv /\ [Next]_vars => IInv'
<1> SUFFICES ASSUME IInv, [Next]_vars PROVE IInv'
  OBVIOUS
<1>1. CASE MainStep
  BY <1>1, FrameBeginKeeps, WaitForWorkersKeeps, OpBeginKeeps, SignalWorkersKeeps,
     MainRunKeeps, WaitForSyncKeeps, SyncedKeeps, MergeKeeps, PipelineEndKeeps,
     JoinReadyKeeps, JoinSignalKeeps, JoinThreadsKeeps, ResizeKeeps
  DEF MainStep
<1>2. ASSUME NEW w \in Workers, WorkerStep(w) PROVE IInv'
  BY <1>2, WorkerStartKeeps, WorkerWakeKeeps, WorkerLoopKeeps, WorkerRunKeeps,
     WorkerSyncKeeps, WorkerLeaveKeeps
  DEF WorkerStep
<1>3. CASE Progress
  BY <1>3, ProgressKeeps
<1>4. CASE RunPipeline
  BY <1>4, RunPipelineKeeps
<1>5. ASSUME NEW n \in 0..(MaxWorkers + 1), NEW tasks \in BOOLEAN, SetThreads(n, tasks)
      PROVE  IInv'
  BY <1>5, SetThreadsKeeps
<1>6. CASE UNCHANGED vars
  BY <1>6 DEF vars, config, sync, world, IInv, TypeOK, ThreadsInv, ConfigInv, PlacesInv,
     CountersInv, RanInv, QueueInv, Full, Running, Done, Parallel, OpMultiThreaded
<1> QED BY <1>1, <1>2, <1>3, <1>4, <1>5, <1>6 DEF Next

(* The invariant holds in every reachable state.                           *)
LEMMA Invariant == Spec => []IInv
BY InitInv, NextKeeps, PTL DEF Spec

(* What the two sides rely on at the mutex, for any number of workers: the *)
(* assertions of worker.c on its counters hold, a signal finds every       *)
(* worker asleep, and the primitives are live under whoever uses them.     *)
THEOREM SyncCorrect == Spec => []SyncInv
<1>1. IInv => SyncInv
  <2> SUFFICES ASSUME IInv PROVE SyncInv
    OBVIOUS
  <2> USE MaxWorkersAssumption
      DEF IInv, Workers, Full, InOp, Joining, OpMultiThreaded, Parallel
  <2>1. SyncAssertions
    <3>1. mpc = "resize" => Running = {}
      BY DEF ThreadsInv, Running
    <3> QED BY <3>1, FS_EmptySet DEF SyncAssertions, CountersInv
  <2>2. SignalReachesAll
    BY DEF SignalReachesAll, Team, TypeOK, ThreadsInv, ConfigInv, PlacesInv
  <2>3. PrimitivesLive
    <3>1. thread # {} => primitives = "live"
      <4>1. Full \in Nat
        BY DEF TypeOK
      <4>2. thread # {} => Full > 1
        BY <4>1 DEF ThreadsInv
      <4> QED BY <4>2 DEF ConfigInv
    <3> QED BY <3>1 DEF PrimitivesLive, TypeOK, ThreadsInv, ConfigInv
  <2> QED BY <2>1, <2>2, <2>3 DEF SyncInv
<1> QED BY <1>1, Invariant, PTL

(* While the main thread may change the world, no worker is in its loop    *)
(* body (flecs_run_pipeline, flecs_worker).                                *)
THEOREM WorldAlone == Spec => []MainHasWorldAlone
<1>1. IInv => MainHasWorldAlone
  <2> SUFFICES ASSUME IInv, mpc \notin {"run", "sync", "syncwait", "quitting", "join"},
                      NEW w \in Workers
               PROVE  pc[w] \in {"none", "start", "asleep"}
    BY DEF MainHasWorldAlone
  <2>1. CASE mpc = "synced"
    <3>1. Parallel /\ workers_waiting = stage_count - 1
      BY <2>1 DEF IInv, ConfigInv, CountersInv, Parallel
    <3>2. w \in thread => pc[w] = "asleep"
      BY <3>1, AllDone DEF Done
    <3> QED BY <3>2 DEF IInv, ThreadsInv
  <2>2. CASE mpc # "synced"
    <3>1. w \in thread => pc[w] \in {"start", "asleep"}
      BY <2>2 DEF IInv, TypeOK, ThreadsInv, PlacesInv
    <3> QED BY <3>1 DEF IInv, ThreadsInv
  <2> QED BY <2>1, <2>2
<1> QED BY <1>1, Invariant, PTL

(* The commands of every stage are merged at the end of the operation that *)
(* enqueued them, and no stage is dropped with commands in its queue.      *)
THEOREM AllMerged == Spec => []CommandsMerged
<1>1. IInv => CommandsMerged
  BY DEF IInv, TypeOK, QueueInv, CommandsMerged
<1> QED BY <1>1, Invariant, PTL

-----------------------------------------------------------------------------
(* Steps of the implementation as steps of the fork and join.              *)

Members == IF Parallel THEN 0..(stage_count - 1) ELSE {}

(* A signal to the workers of a multi-threaded world forks; to nobody, it  *)
(* changes nothing.                                                        *)
LEMMA SignalForks ==
    ASSUME IInv, SignalWorkers
    PROVE  (\E T \in SUBSET Stages : FJ!Fork(T)) \/ UNCHANGED <<Members, ran>>
<1> USE DEF IInv, config, sync, world, OpMultiThreaded, Parallel, Members
<1>1. CASE stage_count > 1
  <2>1. 0..(stage_count - 1) \in SUBSET Stages
    BY MaxWorkersAssumption DEF TypeOK, Stages
  <2>2. FJ!Fork(0..(stage_count - 1))
    BY <1>1 DEF SignalWorkers, TypeOK, ConfigInv, FJ!Fork
  <2> QED BY <2>1, <2>2
<1>2. CASE stage_count <= 1
  BY <1>2 DEF SignalWorkers, TypeOK
<1> QED BY <1>1, <1>2 DEF TypeOK

(* A worker's run is the work of its stage.                                *)
LEMMA WorkerRunWorks ==
    ASSUME IInv, NEW w \in Workers, WorkerRun(w)
    PROVE  \E s \in Stages : FJ!Work(s)
<1> USE DEF IInv, config, sync, world, OpMultiThreaded, Parallel, Members
<1>1. Parallel /\ w \in thread
  BY DEF WorkerRun, TypeOK, ThreadsInv, ConfigInv, PlacesInv
<1>2. ran[w] = 0
  BY <1>1 DEF WorkerRun, TypeOK, PlacesInv
<1>3. w \in 0..(stage_count - 1) /\ w \in Stages
  BY <1>1, MaxWorkersAssumption DEF TypeOK, ThreadsInv, ConfigInv, Full, Workers, Stages
<1>4. FJ!Work(w)
  BY <1>1, <1>2, <1>3 DEF WorkerRun, FJ!Work
<1> QED BY <1>3, <1>4

(* The main thread's run is the work of stage 0, in a parallel phase.      *)
LEMMA MainRunWorks ==
    ASSUME IInv, MainRun
    PROVE  (\E s \in Stages : FJ!Work(s)) \/ UNCHANGED <<Members, ran>>
<1> USE DEF IInv, config, sync, world, OpMultiThreaded, Parallel, Members
<1>1. CASE Parallel
  <2>1. 0 \in 0..(stage_count - 1) /\ 0 \in Stages
    BY MaxWorkersAssumption DEF TypeOK, Stages
  <2>2. ran[0] = 0
    BY <1>1 DEF MainRun, RanInv
  <2>3. FJ!Work(0)
    BY <1>1, <2>1, <2>2 DEF MainRun, FJ!Work
  <2> QED BY <2>1, <2>3
<1>2. CASE ~Parallel
  BY <1>2 DEF MainRun
<1> QED BY <1>1, <1>2

(* The end of the main thread's wait joins a team that is done.            *)
LEMMA SyncedJoins ==
    ASSUME IInv, Synced
    PROVE  FJ!Join
<1> USE DEF IInv, config, sync, world, OpMultiThreaded, Members
<1>1. Parallel /\ workers_waiting = stage_count - 1
  BY DEF Synced, ConfigInv, CountersInv, Parallel
<1>2. thread = Done /\ thread = 1..(stage_count - 1)
  BY <1>1, AllDone
<1>3. \A s \in Stages : ran[s] = IF s \in 0..(stage_count - 1) THEN 1 ELSE 0
  <2> TAKE s \in Stages
  <2>1. CASE s = 0
    BY <1>1, <2>1 DEF Synced, TypeOK, RanInv
  <2>2. CASE s \in thread
    <3>1. pc[s] = "asleep"
      BY <1>2, <2>2 DEF Done
    <3>2. ran[s] # 0
      BY <1>1, <2>2, <3>1 DEF PlacesInv
    <3>3. ran[s] \in 0..1
      BY DEF TypeOK
    <3> QED BY <1>2, <2>2, <3>2, <3>3 DEF TypeOK
  <2>3. CASE s >= stage_count
    BY <1>1, <2>3 DEF TypeOK, RanInv, Stages
  <2> QED BY <1>2, <2>1, <2>2, <2>3, MaxWorkersAssumption DEF TypeOK, Stages
<1>4. ~Parallel' /\ UNCHANGED ran
  BY DEF Synced, Parallel
<1>5. 0 \in 0..(stage_count - 1)
  BY MaxWorkersAssumption DEF TypeOK
<1> QED BY <1>1, <1>3, <1>4, <1>5 DEF FJ!Join

(* No other step is seen by the fork and join.                             *)
LEMMA OthersStutter ==
    ASSUME IInv,
           \/ \E w \in Workers : \/ WorkerStart(w) \/ WorkerWake(w) \/ WorkerLoop(w)
                                 \/ WorkerSync(w) \/ WorkerLeave(w)
           \/ FrameBegin \/ WaitForWorkers \/ OpBegin \/ WaitForSync \/ Merge
           \/ PipelineEnd \/ JoinReady \/ JoinSignal \/ JoinThreads \/ Resize
           \/ Progress \/ RunPipeline
           \/ \E n \in 0..(MaxWorkers + 1), tasks \in BOOLEAN : SetThreads(n, tasks)
           \/ UNCHANGED vars
    PROVE  UNCHANGED <<Members, ran>>
<1> USE DEF IInv, config, sync, world, OpMultiThreaded, Parallel, Members
<1>1. ASSUME NEW w \in Workers,
             \/ WorkerStart(w) \/ WorkerWake(w) \/ WorkerLoop(w) \/ WorkerLeave(w)
      PROVE  UNCHANGED <<Members, ran>>
  BY <1>1 DEF WorkerStart, WorkerWake, WorkerLoop, WorkerLeave
<1>2. ASSUME NEW w \in Workers, WorkerSync(w)
      PROVE  UNCHANGED <<Members, ran>>
  BY <1>2 DEF WorkerSync
<1>3. CASE FrameBegin \/ WaitForWorkers \/ OpBegin \/ WaitForSync \/ Merge
  BY <1>3 DEF FrameBegin, WaitForWorkers, OpBegin, WaitForSync, Merge, ConfigInv, TypeOK
<1>4. CASE PipelineEnd \/ JoinReady \/ JoinSignal \/ JoinThreads \/ Resize
  BY <1>4 DEF PipelineEnd, JoinReady, JoinSignal, JoinThreads, Resize
<1>5. CASE Progress \/ RunPipeline
  BY <1>5 DEF Progress, RunPipeline
<1>6. ASSUME NEW n \in 0..(MaxWorkers + 1), NEW tasks \in BOOLEAN, SetThreads(n, tasks)
      PROVE  UNCHANGED <<Members, ran>>
  BY <1>6 DEF SetThreads
<1>7. CASE UNCHANGED vars
  BY <1>7 DEF vars
<1> QED BY <1>1, <1>2, <1>3, <1>4, <1>5, <1>6, <1>7

(* Every step is a step of the fork and join, or not seen by it.           *)
LEMMA StepRefines == IInv /\ [Next]_vars => [FJ!FJNext]_(FJ!fjvars)
<1> SUFFICES ASSUME IInv, [Next]_vars
             PROVE  FJ!FJNext \/ UNCHANGED <<Members, ran>>
  BY DEF FJ!fjvars, Members
<1>1. CASE SignalWorkers
  BY <1>1, SignalForks DEF FJ!FJNext
<1>2. ASSUME NEW w \in Workers, WorkerRun(w) PROVE FJ!FJNext
  BY <1>2, WorkerRunWorks DEF FJ!FJNext
<1>3. CASE MainRun
  BY <1>3, MainRunWorks DEF FJ!FJNext
<1>4. CASE Synced
  BY <1>4, SyncedJoins DEF FJ!FJNext
<1> QED BY <1>1, <1>2, <1>3, <1>4, OthersStutter DEF Next, MainStep, WorkerStep

(* An operation that is run multi-threaded is a fork and a join of all     *)
(* stages: each runs it exactly once between the main thread's signal and  *)
(* the end of its wait, and no worker ever runs at another time.           *)
THEOREM ForkJoinRefined == Spec => ImplementsForkJoin
<1>1. Init => FJ!FJInit
  BY DEF Init, FJ!FJInit, Parallel
<1> QED BY <1>1, Invariant, StepRefines, PTL DEF Spec, ImplementsForkJoin, FJ!FJSpec
=============================================================================
