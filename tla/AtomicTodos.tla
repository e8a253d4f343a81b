---------------------------- MODULE AtomicTodos ----------------------------
(***************************************************************************)
(* What the todo API promises its clients: each request takes effect at    *)
(* one instant, on the todos as they are at that instant, at most once,    *)
(* and its answer fits the effect.  There are no transactions, locks or    *)
(* connections here; TodoStore is the code that keeps this promise.        *)
(*                                                                         *)
(* An "error" answer (a 500) promises nothing: the request may have taken  *)
(* effect, may take it later, or never.                                    *)
(***************************************************************************)
EXTENDS Integers, Sequences

CONSTANTS Requests, MaxId, Fields, Required, Null, Calls, Seeded, NoRow

VARIABLES ask,       \* request -> what it asks for: [op, id, patch]
          todos,     \* id -> row or NoRow
          made,      \* request -> the id it created, 0 before
          verdict,   \* request -> what became of it
          answer     \* request -> what its client was told

avars == <<ask, todos, made, verdict, answer>>

TodoIds == 1 .. MaxId

AInit ==
    /\ ask \in [Requests -> Calls]
    /\ todos = [i \in TodoIds |-> IF i <= Len(Seeded) THEN Seeded[i] ELSE NoRow]
    /\ made = [r \in Requests |-> 0]
    /\ verdict = [r \in Requests |-> "open"]
    /\ answer = [r \in Requests |-> "none"]

Exists(id) == id \in TodoIds /\ todos[id] # NoRow

Patched(row, patch) ==
    [f \in Fields |-> IF f \in DOMAIN patch THEN patch[f] ELSE row[f]]

Breaks(patch) == \E f \in DOMAIN patch : f \in Required /\ patch[f] = Null

\* r, still open and asking for op, is settled by the verdict v.
Settle(r, op, v) ==
    /\ ask[r].op = op
    /\ verdict[r] = "open"
    /\ verdict' = [verdict EXCEPT ![r] = v]
    /\ UNCHANGED <<ask, answer>>

\* A create takes an id no todo ever had.
Create(r) ==
    /\ Settle(r, "create", "applied")
    /\ \E i \in TodoIds :
          /\ i > Len(Seeded)
          /\ \A s \in Requests : made[s] # i
          /\ made' = [made EXCEPT ![r] = i]
          /\ todos' = [todos EXCEPT ![i] = ask[r].patch]

Update(r) ==
    /\ Settle(r, "update", "applied")
    /\ Exists(ask[r].id)
    /\ ~ Breaks(ask[r].patch)
    /\ todos' = [todos EXCEPT ![ask[r].id] = Patched(@, ask[r].patch)]
    /\ UNCHANGED made

Delete(r) ==
    /\ Settle(r, "delete", "applied")
    /\ Exists(ask[r].id)
    /\ todos' = [todos EXCEPT ![ask[r].id] = NoRow]
    /\ UNCHANGED made

\* A GET of a todo that exists.
Serve(r) ==
    /\ Settle(r, "get", "served")
    /\ Exists(ask[r].id)
    /\ UNCHANGED <<todos, made>>

Miss(r) ==
    /\ \E op \in {"get", "update", "delete"} : Settle(r, op, "missing")
    /\ ~ Exists(ask[r].id)
    /\ UNCHANGED <<todos, made>>

Refuse(r) ==
    /\ Settle(r, "update", "refused")
    /\ Exists(ask[r].id)
    /\ Breaks(ask[r].patch)
    /\ UNCHANGED <<todos, made>>

\* A request without an effect may fail for reasons of its own, and say so.
Fail(r) ==
    /\ verdict[r] \in {"open", "served", "missing", "refused"}
    /\ verdict' = [verdict EXCEPT ![r] = "failed"]
    /\ answer' \in {answer, [answer EXCEPT ![r] = "error"]}
    /\ answer[r] # "none" => answer' = answer
    /\ UNCHANGED <<ask, todos, made>>

\* The answers that fit a verdict; an "error" may hide an effect.
Fits(v, a) ==
    \/ v \in {"applied", "served"} /\ a = "ok"
    \/ v = "missing" /\ a = "not_found"
    \/ v = "refused" /\ a = "conflict"
    \/ v \in {"open", "applied", "served", "failed"} /\ a = "error"

Tell(r) ==
    /\ answer[r] = "none"
    /\ \E a \in {"ok", "not_found", "conflict", "error"} :
          /\ Fits(verdict[r], a)
          /\ answer' = [answer EXCEPT ![r] = a]
    /\ UNCHANGED <<ask, todos, made, verdict>>

ANext == \E r \in Requests :
            \/ Create(r) \/ Update(r) \/ Delete(r) \/ Serve(r)
            \/ Miss(r) \/ Refuse(r) \/ Fail(r) \/ Tell(r)

ASpec == AInit /\ [][ANext]_avars
=============================================================================
