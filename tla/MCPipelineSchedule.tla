------------------------- MODULE MCPipelineSchedule -------------------------
(* Pipelines for PipelineSchedule.                                         *)
EXTENDS PipelineSchedule

Term(id, src, inout) == [id |-> id, src |-> src, inout |-> inout, not |-> FALSE]
System(terms) == [terms |-> terms, mt |-> FALSE, imm |-> FALSE]

C == <<1>>
RT == <<2, 3>>
RX == <<2, 0>>
XT == <<0, 3>>

(* C, [out] !C, and [out] C().                                             *)
Reader == System(<<Term(C, "this", "default")>>)
Adder == System(<<[Term(C, "this", "out") EXCEPT !.not = TRUE]>>)
Writer == System(<<Term(C, "none", "out")>>)
ParallelReader == [Reader EXCEPT !.mt = TRUE]
Immediate == [System(<<>>) EXCEPT !.imm = TRUE]

(* Schedules with merges for reads, for threads and for direct access.     *)
Kinds == {Reader, Writer, ParallelReader, Immediate}

(* Writes and reads of a pair, of its relationship with any target and of  *)
(* any id at all; of a component on a fixed source; and a filter.          *)
IdKinds ==
    {System(<<Term(id, src, inout)>>) : <<id, src, inout>> \in
        {<<RT, "none", "out">>, <<RX, "this", "in">>, <<RX, "none", "out">>, <<RT, "this", "in">>,
         <<AnyId, "none", "out">>, <<AnyId, "none", "in">>,
         <<C, "fixed", "inout">>, <<C, "fixed", "default">>, <<C, "this", "filter">>}}
    \cup {Adder, [Writer EXCEPT !.mt = TRUE]}

(* Three systems, where something can be to be merged after the first; and *)
(* any two systems with those ids.                                         *)
MCPipelines == {Writer, Immediate} \X Kinds \X {Reader, Writer, ParallelReader}
               \cup IdKinds \X IdKinds

ThreeSystems == [1..3 -> Kinds]
OneSystem == [1..1 -> Kinds]
(* A write of R with any target and a read of any relationship with T.     *)
CrossPipelines == {<<System(<<Term(RX, "none", "out")>>), System(<<Term(XT, "this", "in")>>)>>}
(* [out] C(), [in] C() in one system.                                      *)
OwnPipelines == {<<System(<<Term(C, "none", "out"), Term(C, "none", "in")>>)>>}
=============================================================================
