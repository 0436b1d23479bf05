---------------------------- MODULE MCIterChain ----------------------------
(***************************************************************************)
(* Chains for TLC: every page with the given offsets and limits, shares,   *)
(* and each of them on top of another.                                     *)
(***************************************************************************)
EXTENDS IterChain

CONSTANTS Offsets, Limits

Pages == {Page(o, l) : o \in Offsets, l \in Limits}

\* The chains of one and two iterators, and the query iterator by itself.
AllChains == {<<>>, <<WorkerLink>>} \cup {<<p>> : p \in Pages}
             \cup {<<p, q>> : p, q \in Pages}
             \cup {<<p, WorkerLink>> : p \in Pages}
             \cup {<<WorkerLink, p>> : p \in Pages}
=============================================================================
