---------------------------- MODULE EntityHandles ----------------------------
(***************************************************************************)
(* What the entity index promises its users, without dense arrays, records *)
(* or swaps: every id is unused, alive or dead, and carries one version.   *)
(* A handle (id, version) is alive when its id is alive and the versions   *)
(* agree. Deleting a handle makes its id dead under the next version;      *)
(* creating entities reuses dead ids before it touches unused ones.        *)
(***************************************************************************)
EXTENDS Integers, FiniteSets

CONSTANTS MaxId,      \* UINT32_MAX: the largest entity id
          GenCount    \* 2^16: the number of versions an id can have

VARIABLES status,     \* status[id]: is the id unused, alive or dead
          version     \* version[id]: the version the id has, or will be given

hvars == <<status, version>>

EntityIds == 1..MaxId
Versions == 0..(GenCount - 1)
Dead == {id \in EntityIds : status[id] = "dead"}
Unused == {id \in EntityIds : status[id] = "unused"}

Init == /\ status = [id \in EntityIds |-> "unused"]
        /\ version = [id \in EntityIds |-> 0]

(* Creation takes dead ids while there are any, and only then unused ids.  *)
Create(S) ==
    /\ S \subseteq Dead \/ (Dead \subseteq S /\ S \subseteq Dead \cup Unused)
    /\ status' = [id \in EntityIds |-> IF id \in S THEN "alive" ELSE status[id]]
    /\ UNCHANGED version

(* An application may bring an id to life itself, with a version it picks. *)
Revive(id, v) ==
    /\ status[id] # "alive"
    /\ status' = [status EXCEPT ![id] = "alive"]
    /\ version' = [version EXCEPT ![id] = v]

(* An application may override the version of an id that is in use.        *)
Override(id, v) ==
    /\ status[id] # "unused"
    /\ version' = [version EXCEPT ![id] = v]
    /\ UNCHANGED status

(* Only the handle with the current version can delete the entity.         *)
Delete(id, v) ==
    /\ status[id] = "alive"
    /\ version[id] = v
    /\ status' = [status EXCEPT ![id] = "dead"]
    /\ version' = [version EXCEPT ![id] = IF v = GenCount - 1 THEN 0 ELSE v + 1]

Next == \/ \E S \in SUBSET EntityIds : Create(S)
        \/ \E id \in EntityIds, v \in Versions :
              Revive(id, v) \/ Override(id, v) \/ Delete(id, v)

Spec == Init /\ [][Next]_hvars
=============================================================================
