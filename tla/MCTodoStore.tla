---------------------------- MODULE MCTodoStore ----------------------------
(* Small instances of TodoStore: two columns, one of them NOT NULL. *)
EXTENDS TodoRefinement, TLC

CONSTANTS title, text,   \* columns
          x, y           \* values

MCFields == {title, text}
MCValues == {x, y}
MCRequired == {title}

Row(t, d) == [f \in MCFields |-> IF f = title THEN t ELSE d]
MCSeeded == <<Row(x, x)>>
Set(f, v) == [g \in {f} |-> v]
NoPatch == [g \in {} |-> x]

Posts == {[op |-> "create", id |-> 0, patch |-> Row(y, Null)]}
Gets(ids) == [op : {"get"}, id : ids, patch : {NoPatch}]
Deletes(ids) == [op : {"delete"}, id : ids, patch : {NoPatch}]
Puts(ids, patches) == [op : {"update"}, id : ids, patch : patches]

\* A new title; the stored title (no net change) with a new text; a null title.
Bodies == {Set(title, y), Row(x, y), Set(title, Null)}

\* Id 3 is beyond the column's range when MaxId = 2.
SafetyCalls == Posts \cup Gets({1, 3}) \cup Deletes({1, 2}) \cup Puts({1}, Bodies)

Symmetry == Permutations(Requests)
=============================================================================
