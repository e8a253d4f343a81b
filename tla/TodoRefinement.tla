--------------------------- MODULE TodoRefinement ---------------------------
(***************************************************************************)
(* TodoStore implements AtomicTodos.  The instant at which a write takes   *)
(* effect is the server's commit; the instant of a refusal is the read     *)
(* that the refusal rests on.                                              *)
(***************************************************************************)
EXTENDS TodoStore

AbstractAsk ==
    [r \in Requests |->
        [op |-> call[r].op,
         id |-> IF call[r].op = "create" THEN 0 ELSE Id(r),
         patch |-> call[r].patch]]

AbstractMade ==
    [r \in Requests |->
        IF call[r].op = "create" /\ tx[r] = "committed" THEN Id(r) ELSE 0]

VerdictOf(r) ==
    IF tx[r] = "committed" THEN "applied"
    ELSE IF outcome[r] = "ok" THEN "served"
    ELSE IF outcome[r] = "not_found" THEN "missing"
    ELSE IF outcome[r] = "conflict" THEN "refused"
    ELSE IF tx[r] = "aborted" \/ (Gone(r) /\ tx[r] # "sent") THEN "failed"
    ELSE "open"

AnswerOf(r) ==
    IF pc[r] # "done" THEN "none"
    ELSE IF outcome[r] \in {"persistence_error", "internal_error"} THEN "error"
    ELSE outcome[r]

Atomic ==
    INSTANCE AtomicTodos WITH
        ask <- AbstractAsk,
        todos <- table,
        made <- AbstractMade,
        verdict <- [r \in Requests |-> VerdictOf(r)],
        answer <- [r \in Requests |-> AnswerOf(r)]

\* The interleaved, failing, lock-based handlers are indistinguishable, in the
\* table and in their answers, from requests that take effect at one instant.
ImplementsAtomicTodos == Atomic!ASpec
=============================================================================
