----------------------------- MODULE MCTodoPool -----------------------------
(* The small instances of MCTodoStore, over a pool, and the refinement. *)
EXTENDS TodoPool, MCTodoStore

\* Writers of one row, creates beside them.
PoolCalls == Posts \cup Puts({1}, {Set(title, y)})
=============================================================================
