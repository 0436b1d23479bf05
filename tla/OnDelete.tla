------------------------------ MODULE OnDelete -------------------------------
(***************************************************************************)
(* Cleanup when something that other entities refer to is deleted          *)
(* (src/on_delete.c, ecs_delete in src/entity.c). An id is <<c>> for a     *)
(* component or tag c and <<r, t>> for a pair; a pattern may have the      *)
(* wildcard 0 in a pair. flecs_on_delete marks component records and       *)
(* tables, depth first, then empties the tables of every marked record and *)
(* releases the records.                                                   *)
(*                                                                         *)
(* A table is the set of its ids with the traits its entities have, and is *)
(* not empty; empty tables are only freed. Prefab tables, sparse and       *)
(* non-fragmenting components are left out.                                *)
(***************************************************************************)
EXTENDS Integers, Sequences, SequencesExt, FiniteSets, FiniteSetsExt

CONSTANTS Entities,      \* entities, ordered as their ids are
          Tags, Rels, Targets,   \* those used as tag, relationship and target
          Actions,       \* cleanup actions that are configured
          MaxAdds,       \* bound on additions
          Reactive       \* whether OnRemove observers add ids

ASSUME EntitiesAssumption == Entities \subseteq Nat \ {0} /\ IsFiniteSet(Entities)
ASSUME IdsAssumption == Tags \cup Rels \cup Targets \subseteq Entities
ASSUME ActionsAssumption == Actions \subseteq {"Remove", "Delete", "Panic"}
ASSUME ReactiveAssumption == Reactive \in BOOLEAN

Ids == {<<c>> : c \in Tags} \cup (Rels \X Targets)

VARIABLES
    alive,      \* entities that are alive
    type,       \* ids of each entity
    on_delete,  \* (OnDelete, action) of an entity, "None" if it has none
    on_target,  \* (OnDeleteTarget, action) of an entity
    adds,       \* number of additions so far
    frames,     \* calls of ecs_delete, innermost first: entity, ids to clean up
    marked,     \* store.marked_ids: pattern and action
    tables,     \* tables with EcsTableMarkedForDelete
    stack,      \* what flecs_component_mark_for_delete has yet to visit
    phase,      \* of flecs_on_delete: "idle", "mark", "clear" or "panic"
    cmds,       \* adds that observers enqueued
    readded,    \* history: the ones that were executed
    before,     \* history: the store when flecs_on_delete was called
    began       \* history: the store when ecs_delete was called

store == <<alive, type, on_delete, on_target>>
queue == <<cmds, readded>>
vars == <<store, adds, frames, marked, tables, stack, phase, queue, before, began>>

-----------------------------------------------------------------------------
(* Patterns, tables and policies.                                          *)

Matches(p, id) == Len(p) = Len(id) /\ \A i \in DOMAIN p : p[i] \in {0, id[i]}

Table(e) == [ids |-> type[e], on_delete |-> on_delete[e], on_target |-> on_target[e]]
Rows(t) == {e \in alive : Table(e) = t}
TablesWith(p) == {t \in {Table(e) : e \in alive} : \E id \in t.ids : Matches(p, id)}

(* The pairs of a table that match p, in the order of its type.            *)
InOrder(ids) == SetToSortSeq(ids, LAMBDA a, b : a[1] < b[1])

(* Faulty variant of DeleteAction: the last pair decides.                  *)
DeleteActionLast(t, p, action) ==
    LET pairs == InOrder({id \in t.ids : Matches(p, id)})
    IN  IF action # "None" \/ p[1] # 0 THEN action
        ELSE on_target[Last(pairs)[1]]

(* flecs_get_delete_action: without an explicit action the relationships   *)
(* of a deleted target decide, Delete before the others, else the last.    *)
DeleteAction(t, p, action) ==
    LET pairs == InOrder({id \in t.ids : Matches(p, id)})
        acts  == [i \in DOMAIN pairs |-> on_target[pairs[i][1]]]
    IN  IF action # "None" \/ p[1] # 0 THEN action
        ELSE IF "Delete" \in Range(acts) THEN "Delete" ELSE Last(acts)

(* What cleanup is about when e is deleted: <<pattern, action>>.           *)
AsTarget(e) == <<<<0, e>>, "None">>
AsId(e) == <<<<e>>, on_delete[e]>>
AsRelationship(e) == <<<<e, 0>>, on_delete[e]>>

(* The ones in use: what the flags EcsEntityIsTarget and EcsEntityIsId of  *)
(* the entity's record and the lookup of the component record leave.       *)
Used(calls) == SelectSeq(calls, LAMBDA call : TablesWith(call[1]) # {})

-----------------------------------------------------------------------------
(* The application.                                                        *)

Init == /\ alive = Entities
        /\ type = [e \in Entities |-> {}]
        /\ on_delete = [e \in Entities |-> "None"]
        /\ on_target = [e \in Entities |-> "None"]
        /\ adds = 0
        /\ frames = <<>>
        /\ marked = <<>>
        /\ tables = {}
        /\ stack = <<>>
        /\ phase = "idle"
        /\ cmds = <<>>
        /\ readded = {}
        /\ before = <<>>
        /\ began = <<>>

Parts(id) == {id[i] : i \in DOMAIN id}

Application == frames = <<>> /\ phase = "idle"
Cleanup == <<alive, frames, marked, tables, stack, phase, queue, before, began>>

(* ecs_add_id, of an id whose parts are alive.                             *)
EcsAdd(e, id) ==
    /\ Application
    /\ adds < MaxAdds
    /\ {e} \cup Parts(id) \subseteq alive
    /\ id \notin type[e]
    /\ type' = [type EXCEPT ![e] = @ \cup {id}]
    /\ adds' = adds + 1
    /\ UNCHANGED <<on_delete, on_target, Cleanup>>

(* Adding (OnDelete, a) or (OnDeleteTarget, a), before the entity is used: *)
(* flags of records and of the entity's table follow (bootstrap.c).        *)
EcsAddPolicy(e, a) ==
    /\ Application
    /\ adds < MaxAdds
    /\ \A x \in alive, id \in Ids : id \in type[x] => id[1] # e
    /\ \/ /\ e \in Tags \cup Rels
          /\ on_delete[e] = "None"
          /\ on_delete' = [on_delete EXCEPT ![e] = a]
          /\ UNCHANGED on_target
       \/ /\ e \in Rels
          /\ on_target[e] = "None"
          /\ on_target' = [on_target EXCEPT ![e] = a]
          /\ UNCHANGED on_delete
    /\ adds' = adds + 1
    /\ UNCHANGED <<type, Cleanup>>

(* Faulty variant of DeleteCalls: pairs with e as relationship stay.       *)
DeleteCallsNoPairs(e) == Used(<<AsTarget(e), AsId(e)>>)

(* The calls of flecs_on_delete that ecs_delete makes for entity e.        *)
DeleteCalls(e) == Used(<<AsTarget(e), AsId(e), AsRelationship(e)>>)

Frame(e) == [entity |-> e, calls |-> DeleteCalls(e)]

(* ecs_delete: an entity with (OnDelete, Panic) is not deleted.            *)
EcsDelete(e) ==
    /\ Application
    /\ e \in alive
    /\ on_delete[e] # "Panic"
    /\ frames' = <<Frame(e)>>
    /\ began' = [alive |-> alive, type |-> type]
    /\ UNCHANGED <<store, adds, marked, tables, stack, phase, queue, before>>

(* ecs_delete_with and ecs_remove_all: one call with an explicit action.   *)
(* The frame has no entity of its own.                                     *)
EcsOnDelete(id, action) ==
    /\ Application
    /\ frames' = <<[entity |-> 0, calls |-> <<<<id, action>>>>]>>
    /\ began' = [alive |-> alive, type |-> type]
    /\ UNCHANGED <<store, adds, marked, tables, stack, phase, queue, before>>

-----------------------------------------------------------------------------
(* flecs_on_delete.                                                        *)

Snapshot == [alive |-> alive, type |-> type, call |-> Head(frames).calls[1]]

(* flecs_on_delete_mark: nothing to do without tables for the id.          *)
OnDeleteBegin ==
    /\ phase = "idle"
    /\ frames # <<>>
    /\ Head(frames).calls # <<>>
    /\ LET call == Head(frames).calls[1]
       IN  CASE TablesWith(call[1]) = {} ->
                  /\ frames' = [frames EXCEPT ![1].calls = Tail(@)]
                  /\ UNCHANGED <<stack, phase, before>>
             [] TablesWith(call[1]) # {} /\ call[2] = "Panic" ->
                  phase' = "panic" /\ UNCHANGED <<frames, stack, before>>
             [] OTHER ->
                  /\ stack' = <<<<"record", call>>>>
                  /\ phase' = "mark"
                  /\ before' = Snapshot
                  /\ UNCHANGED frames
    /\ UNCHANGED <<store, adds, marked, tables, queue, began>>

MarkedPatterns == {marked[i][1] : i \in DOMAIN marked}

(* flecs_component_mark_for_delete: push the record, then visit its tables *)
(* in the order of its cache.                                              *)
MarkRecord ==
    /\ phase = "mark"
    /\ stack # <<>>
    /\ Head(stack)[1] = "record"
    /\ LET call == Head(stack)[2]
       IN  IF call[1] \in MarkedPatterns
           THEN stack' = Tail(stack) /\ UNCHANGED marked
           ELSE \E order \in SetToSeqs(TablesWith(call[1])) :
                   /\ stack' = [i \in DOMAIN order |-> <<"table", call, order[i]>>]
                               \o Tail(stack)
                   /\ marked' = Append(marked, call)
    /\ UNCHANGED <<store, adds, frames, tables, phase, queue, before, began>>

(* flecs_target_mark_for_delete for each entity of a table.                *)
TargetMarks(es) ==
    LET calls == Used(FlattenSeq([i \in DOMAIN es |->
                    <<AsId(es[i]), AsRelationship(es[i]), AsTarget(es[i])>>]))
    IN  [i \in DOMAIN calls |-> <<"record", calls[i]>>]

(* The body of its loop over tables: a table whose entities are to be      *)
(* deleted is marked, and what refers to them is visited at once.          *)
MarkTable ==
    /\ phase = "mark"
    /\ stack # <<>>
    /\ Head(stack)[1] = "table"
    /\ LET call == Head(stack)[2]
           t    == Head(stack)[3]
           act  == DeleteAction(t, call[1], call[2])
       IN  CASE t \notin tables /\ act = "Delete" ->
                  /\ tables' = tables \cup {t}
                  /\ \E es \in SetToSeqs(Rows(t)) :
                        stack' = TargetMarks(es) \o Tail(stack)
                  /\ UNCHANGED phase
             [] t \notin tables /\ act = "Panic" ->
                  phase' = "panic" /\ UNCHANGED <<stack, tables>>
             [] OTHER ->
                  stack' = Tail(stack) /\ UNCHANGED <<tables, phase>>
    /\ UNCHANGED <<store, adds, frames, marked, queue, before, began>>

MarkEnd == /\ phase = "mark"
           /\ stack = <<>>
           /\ phase' = "clear"
           /\ UNCHANGED <<store, adds, frames, marked, tables, stack, queue, before, began>>

(* Faulty variant of RemoveFromTable: wildcards are compared as ids.       *)
RemoveFromTableExact(t) ==
    type' = [e \in Entities |->
               IF e \in Rows(t) THEN type[e] \ MarkedPatterns ELSE type[e]]

(* flecs_remove_from_table: all entities of the table lose every id that   *)
(* is marked, whichever record brought us here.                            *)
RemoveFromTable(t) ==
    type' = [e \in Entities |->
               IF e \in Rows(t)
               THEN {id \in type[e] : \A p \in MarkedPatterns : ~Matches(p, id)}
               ELSE type[e]]

(* An OnRemove observer enqueues an add. The bound: once in a behaviour,   *)
(* after which adds is beyond MaxAdds.                                     *)
React == \/ UNCHANGED queue
         \/ \E e \in alive, id \in Ids :
               /\ Reactive
               /\ cmds = <<>> /\ adds <= MaxAdds
               /\ id \notin type[e]
               /\ cmds' = <<<<e, id>>>>
               /\ UNCHANGED readded

(* flecs_on_delete_clear_entities: from the last marked record to the      *)
(* first, empty the tables that have it.                                   *)
ClearTable ==
    /\ phase = "clear"
    /\ marked # <<>>
    /\ \E t \in TablesWith(Last(marked)[1]) :
          IF Last(marked)[2] = "Remove" \/ t \notin tables
          THEN RemoveFromTable(t) /\ UNCHANGED <<alive, on_delete, on_target>>
          ELSE /\ alive' = alive \ Rows(t)
               /\ type' = [e \in Entities |-> IF e \in Rows(t) THEN {} ELSE type[e]]
               /\ UNCHANGED <<on_delete, on_target>>
    /\ React
    /\ UNCHANGED <<adds, frames, marked, tables, stack, phase, before, began>>

(* The record is done. Dropping it from the list is the index of the loop  *)
(* going down; the ids to remove are those still listed: the tables of the *)
(* ones that are not have been emptied.                                    *)
ClearRecord ==
    /\ phase = "clear"
    /\ marked # <<>>
    /\ TablesWith(Last(marked)[1]) = {}
    /\ marked' = Front(marked)
    /\ UNCHANGED <<store, adds, frames, tables, stack, phase, queue, before, began>>

(* flecs_on_delete_clear_ids releases the records and their empty tables.  *)
OnDeleteEnd ==
    /\ phase = "clear"
    /\ marked = <<>>
    /\ tables' = {}
    /\ phase' = "idle"
    /\ frames' = [frames EXCEPT ![1].calls = Tail(@)]
    /\ before' = <<>>
    /\ UNCHANGED <<store, adds, marked, stack, queue, began>>

-----------------------------------------------------------------------------
(* The rest of ecs_delete.                                                 *)

AtMerge == phase = "idle" /\ frames # <<>> /\ Head(frames).calls = <<>>

(* Flushing what observers enqueued, before the entity itself goes (or     *)
(* when deferring ends). flecs_remove_invalid drops an id with a deleted   *)
(* part, and deletes the entity if the policy for targets says so.         *)
Merge ==
    /\ AtMerge
    /\ cmds # <<>>
    /\ cmds' = Tail(cmds)
    /\ LET e  == Head(cmds)[1]
           id == Head(cmds)[2]
       IN  CASE e \in alive /\ Parts(id) \subseteq alive ->
                  /\ type' = [type EXCEPT ![e] = @ \cup {id}]
                  /\ readded' = readded \cup {Head(cmds)}
                  /\ UNCHANGED frames
             [] e \in alive /\ Len(id) = 2 /\ id[1] \in alive /\ id[2] \notin alive
                            /\ on_target[id[1]] = "Delete" ->
                  frames' = <<Frame(e)>> \o frames /\ UNCHANGED <<type, readded>>
             [] OTHER -> UNCHANGED <<type, frames, readded>>
    /\ adds' = MaxAdds + 1
    /\ UNCHANGED <<alive, on_delete, on_target, marked, tables, stack, phase, before, began>>

(* The entity's own row and its handle, unless it was part of a cycle.     *)
DeleteRow ==
    /\ AtMerge
    /\ cmds = <<>>
    /\ LET e == Head(frames).entity
       IN  /\ alive' = alive \ {e}
           /\ type' = IF e \in Entities THEN [type EXCEPT ![e] = {}] ELSE type
    /\ frames' = Tail(frames)
    /\ began' = IF Len(frames) = 1 THEN <<>> ELSE began
    /\ UNCHANGED <<on_delete, on_target, adds, marked, tables, stack, phase, queue, before>>

Step == \/ OnDeleteBegin \/ MarkRecord \/ MarkTable \/ MarkEnd
        \/ ClearTable \/ ClearRecord \/ OnDeleteEnd \/ Merge \/ DeleteRow

Next == \/ \E e \in Entities, id \in Ids : EcsAdd(e, id)
        \/ \E e \in Entities, a \in Actions : EcsAddPolicy(e, a)
        \/ \E e \in Entities : EcsDelete(e)
        \/ \E id \in Ids, a \in {"Remove", "Delete"} : EcsOnDelete(id, a)
        \/ Step

Spec == Init /\ [][Next]_vars /\ WF_vars(Step)

-----------------------------------------------------------------------------
(* Properties.                                                             *)

(* Types of the store and of the cleanup in progress.                      *)
TypeOK == /\ alive \subseteq Entities
          /\ type \in [Entities -> SUBSET Ids]
          /\ {on_delete, on_target} \subseteq [Entities -> Actions \cup {"None"}]
          /\ adds \in 0..(MaxAdds + 1)
          /\ phase \in {"idle", "mark", "clear", "panic"}
          /\ phase = "idle" => marked = <<>> /\ tables = {} /\ stack = <<>>
          /\ phase \in {"mark", "clear"} => frames # <<>>
          /\ \A i \in DOMAIN cmds : cmds[i] \in Entities \X Ids
          /\ readded \subseteq Entities \X Ids

Dangling == {<<e, id>> \in alive \X Ids : id \in type[e] /\ ~(Parts(id) \subseteq alive)}

(* After a delete, whatever cascades and cycles it went through, no entity *)
(* has a component, pair or target that is not alive, except for what an   *)
(* observer added in the middle of the cleanup.                            *)
NoDangling == Application => Dangling \subseteq readded

(* Nothing of a cleanup is left when it is over: no marks, no work, and no *)
(* reference to what it deleted (on_delete.c).                             *)
CleanupInv == TypeOK /\ NoDangling

(* "Any cleanup policy provides this guarantee": without that exception.   *)
NoReferenceLeft == Application => Dangling = {}

(* The policies read as rules: an entity goes if an id it has in store b   *)
(* says so of what is in D.                                                *)
Follows(b, D, e) ==
    \E id \in b.type[e] :
       \/ id[1] \in D /\ on_delete[id[1]] = "Delete"
       \/ Len(id) = 2 /\ id[2] \in D /\ on_target[id[1]] = "Delete"

(* The smallest set that contains S and what has to go with it.            *)
Closure(b, S) ==
    LET Closed == {D \in SUBSET b.alive :
                     S \subseteq D /\ \A e \in b.alive : Follows(b, D, e) => e \in D}
    IN  {e \in b.alive : \A D \in Closed : e \in D}

(* What a call of flecs_on_delete is about to delete.                      *)
Seeds(b) ==
    {e \in b.alive : \E id \in b.type[e] :
        /\ Matches(b.call[1], id)
        /\ \/ b.call[2] = "Delete"
           \/ b.call[2] = "None" /\ b.call[1][1] = 0 /\ on_target[id[1]] = "Delete"}

(* One call of flecs_on_delete deletes exactly the closure of the policies *)
(* over the tables it found, in whatever order it met them, and the others *)
(* lose exactly the ids that refer to something that went.                 *)
CallHonoursPolicies ==
    [][OnDeleteEnd =>
         LET D == Closure(before, Seeds(before))
         IN  /\ alive = before.alive \ D
             /\ \A e \in alive :
                   type[e] = {id \in before.type[e] :
                                ~Matches(before.call[1], id) /\ Parts(id) \cap D = {}}]_vars

(* Marking and clearing end although references may form cycles.           *)
CleanupEnds == frames # <<>> ~> (frames = <<>> \/ phase = "panic")

(* "Policies apply to both regular and pair instances, so to all entities  *)
(* with T as well as" pairs of it: all that ecs_delete has to take along.   *)
DeleteHonoursPolicies ==
    [][DeleteRow /\ Len(frames) = 1 /\ Head(frames).entity # 0 =>
         alive' = began.alive \ Closure(began, {Head(frames).entity})]_vars

(* "Panic: throw a fatal error": no target of a relationship with the      *)
(* policy (OnDeleteTarget, Panic) is deleted while an entity has the pair. *)
PanicHonoured ==
    [][DeleteRow /\ Len(frames) = 1 =>
         \A e \in alive' : \A id \in began.type[e] :
            Len(id) = 2 /\ id[2] \notin alive' => on_target[id[1]] # "Panic"]_vars
=============================================================================
