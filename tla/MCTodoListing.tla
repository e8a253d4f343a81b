--------------------------- MODULE MCTodoListing ---------------------------
(* TodoListing with the todos t1 .. t5, of which the first three exist. *)
EXTENDS TodoListing

CONSTANTS t1, t2, t3, t4, t5

MCTodos == {t1, t2, t3, t4, t5}
MCSeeded == {t1, t2, t3}

\* Created one after the other, and by one transaction of the seed script.
Apart == [t \in MCSeeded |-> CASE t = t1 -> 1 [] t = t2 -> 2 [] t = t3 -> 3]
Together == [t \in MCSeeded |-> 1]
=============================================================================
