------------------------------ MODULE ForkJoin ------------------------------
(***************************************************************************)
(* What running a multi-threaded pipeline operation promises: the world    *)
(* alternates between serial phases, in which the main thread has it for   *)
(* itself, and parallel phases, in which every stage of a fixed team runs  *)
(* the operation exactly once. A parallel phase ends when the whole team   *)
(* is done, and not before.                                                *)
(***************************************************************************)
EXTENDS Naturals

CONSTANT Stages      \* 0 is the main thread's stage

VARIABLES
    team,            \* the stages that run the operation; {} in a serial phase
    ran              \* how often each stage has run since the last fork

fjvars == <<team, ran>>

FJInit == /\ team = {}
          /\ ran = [s \in Stages |-> 0]

Fork(T) == /\ team = {}
           /\ team' = T
           /\ ran' = [s \in Stages |-> 0]

Work(s) == /\ s \in team
           /\ ran[s] = 0
           /\ ran' = [ran EXCEPT ![s] = 1]
           /\ UNCHANGED team

Join == /\ team # {}
        /\ \A s \in Stages : ran[s] = IF s \in team THEN 1 ELSE 0
        /\ team' = {}
        /\ UNCHANGED ran

FJNext == \/ \E T \in SUBSET Stages : Fork(T)
          \/ \E s \in Stages : Work(s)
          \/ Join

FJSpec == FJInit /\ [][FJNext]_fjvars
=============================================================================
