----------------------------- MODULE TodoStore -----------------------------
(***************************************************************************)
(* Todo requests against the todos table.                                  *)
(*                                                                         *)
(* Every request runs the router, service and repository code of one       *)
(* operation (app/api/v1/routers/todos.py, app/modules/todos/service.py,   *)
(* app/modules/todos/repository.py) over one AsyncSession (get_db).  The   *)
(* code awaits at each database round trip, so one action is one round     *)
(* trip, and requests of one replica, or of several, interleave there.     *)
(* PostgreSQL is the environment: READ COMMITTED, row locks taken by       *)
(* SELECT ... FOR UPDATE, a sequence for the ids, transactions that the    *)
(* server commits or aborts whatever became of the client.                 *)
(*                                                                         *)
(* Timestamps are left to another module; a row is a function from its     *)
(* columns to values, a PUT body a partial one (exclude_unset=True).       *)
(***************************************************************************)
EXTENDS Integers, Sequences

CONSTANTS Requests,   \* the requests that may ever be made
          MaxId,      \* largest id the int4 column and its sequence can hold
          Fields,     \* title, description, is_completed
          Values,     \* what a column can hold
          Null,
          Required,   \* the NOT NULL columns
          Calls,      \* what clients may ask: [op, id, patch]
          Seeded,     \* the rows that exist at first, ids 1 .. Len(Seeded)
          Faults,     \* which of "statement", "connection", "crash",
                      \* "telemetry" may go wrong in this instance
          NoRow, Nobody

Ids == 1 .. MaxId
Ops == {"create", "get", "update", "delete"}
Rows == [Fields -> Values \cup {Null}]
StoredRows == {row \in Rows : \A f \in Required : row[f] # Null}
PartialRows == UNION {[D -> Values \cup {Null}] : D \in SUBSET Fields}
Outcomes == {"none", "ok", "not_found", "conflict",
             "persistence_error", "internal_error"}

ASSUME MaxIdAssumption == MaxId \in Nat
ASSUME NullAssumption == /\ Null \notin Values
                         /\ NoRow \notin Rows
                         /\ Nobody \notin Requests
ASSUME FieldsAssumption == Required \subseteq Fields
ASSUME SeededAssumption == Seeded \in Seq(StoredRows) /\ Len(Seeded) <= MaxId
ASSUME CallsAssumption ==
    /\ Calls \subseteq [op : Ops, id : Nat, patch : PartialRows]
    /\ \A c \in Calls : c.op = "create" => c.id = 0 /\ c.patch \in StoredRows
    /\ \A c \in Calls : c.op # "create" => c.id > 0   \* others behave like a free id

VARIABLES
    table,     \* committed contents: id -> row or NoRow
    nextId,    \* next value of the id sequence
    lock,      \* id -> request whose transaction holds the row lock
    tx,        \* request -> state of its writing transaction at the server
    pc,        \* request -> the await its handler is at
    call,      \* request -> operation, id and body (id of a create: RETURNING)
    loaded,    \* request -> the ORM instance as last loaded
    outcome    \* request -> what the handler answers (its answer once "done")

dbVars == <<table, nextId, lock, tx>>
vars == <<table, nextId, lock, tx, pc, call, loaded, outcome>>

PCs == {"idle", "select", "flush", "commit", "acking", "refresh", "emit",
        "rollback", "done", "crashed"}
TxStates == {"none", "open", "sent", "committed", "aborted"}

TypeOK ==
    /\ table \in [Ids -> StoredRows \cup {NoRow}]
    /\ nextId \in 1 .. MaxId + 1
    /\ lock \in [Ids -> Requests \cup {Nobody}]
    /\ tx \in [Requests -> TxStates]
    /\ pc \in [Requests -> PCs]
    /\ call \in [Requests -> [op : Ops, id : Nat, patch : PartialRows]]
    /\ \A r \in Requests : call[r].op = "create" => call[r].patch \in StoredRows
    /\ loaded \in [Requests -> StoredRows \cup {NoRow}]
    /\ outcome \in [Requests -> Outcomes]

Init ==
    /\ table = [i \in Ids |-> IF i <= Len(Seeded) THEN Seeded[i] ELSE NoRow]
    /\ nextId = Len(Seeded) + 1
    /\ lock = [i \in Ids |-> Nobody]
    /\ tx = [r \in Requests |-> "none"]
    /\ pc = [r \in Requests |-> "idle"]
    /\ call \in [Requests -> Calls]
    /\ loaded = [r \in Requests |-> NoRow]
    /\ outcome = [r \in Requests |-> "none"]

-----------------------------------------------------------------------------
(* Columns.                                                                *)

\* The columns SQLAlchemy writes for the attributes set from the patch: those
\* whose value differs from the loaded one.
NetChange(row, patch) ==
    [f \in {g \in DOMAIN patch : patch[g] # row[g]} |-> patch[f]]

Overlay(row, patch) ==
    [f \in Fields |-> IF f \in DOMAIN patch THEN patch[f] ELSE row[f]]

\* Mutant: the columns accept null.
NothingBreaks(row, patch) == FALSE

\* PostgreSQL refuses the UPDATE: a NOT NULL column is set to null.
BreaksNotNull(row, patch) ==
    \E f \in DOMAIN NetChange(row, patch) : f \in Required /\ patch[f] = Null

-----------------------------------------------------------------------------
(* Steps of a request's handler.                                           *)

Await(r, from, to) == pc[r] = from /\ pc' = [pc EXCEPT ![r] = to]
Answer(r, what) == outcome' = [outcome EXCEPT ![r] = what]

Id(r) == call[r].id

\* The request reaches its handler with a validated path and body.
Receive(r) ==
    /\ Await(r, "idle", IF call[r].op = "create" THEN "flush" ELSE "select")
    /\ UNCHANGED <<dbVars, call, loaded, outcome>>

\* session.get: a plain read, which row locks do not hold up.
Get(r) ==
    /\ Await(r, "select", "emit")
    /\ call[r].op = "get"
    /\ Id(r) \in Ids
    /\ loaded' = [loaded EXCEPT ![r] = table[Id(r)]]
    /\ Answer(r, IF table[Id(r)] = NoRow THEN "not_found" ELSE "ok")
    /\ UNCHANGED <<dbVars, call>>

\* SELECT ... FOR UPDATE finds no row: NotFoundError.
SelectNothing(r) ==
    /\ Await(r, "select", "emit")
    /\ call[r].op \in {"update", "delete"}
    /\ Id(r) \in Ids
    /\ table[Id(r)] = NoRow
    /\ Answer(r, "not_found")
    /\ UNCHANGED <<dbVars, call, loaded>>

\* Mutant: a plain SELECT before the write.
SelectWithoutLock(r) ==
    /\ Await(r, "select", "flush")
    /\ call[r].op \in {"update", "delete"}
    /\ Id(r) \in Ids
    /\ table[Id(r)] # NoRow
    /\ tx' = [tx EXCEPT ![r] = "open"]
    /\ loaded' = [loaded EXCEPT ![r] = table[Id(r)]]
    /\ UNCHANGED <<table, nextId, lock, call, outcome>>

\* SELECT ... FOR UPDATE waits for the row's lock, takes it, and loads the
\* row's latest committed version.
SelectForUpdate(r) ==
    /\ Await(r, "select", "flush")
    /\ call[r].op \in {"update", "delete"}
    /\ Id(r) \in Ids
    /\ table[Id(r)] # NoRow
    /\ lock[Id(r)] = Nobody
    /\ lock' = [lock EXCEPT ![Id(r)] = r]
    /\ tx' = [tx EXCEPT ![r] = "open"]
    /\ loaded' = [loaded EXCEPT ![r] = table[Id(r)]]
    /\ UNCHANGED <<table, nextId, call, outcome>>

\* The driver cannot encode an id beyond int4: the error is raised by a
\* statement outside any try and reaches the fallback handler.
SelectOutOfRange(r) ==
    /\ Await(r, "select", "done")
    /\ Id(r) \notin Ids
    /\ Answer(r, "internal_error")
    /\ UNCHANGED <<dbVars, call, loaded>>

InsertAt(r, i) ==
    /\ Await(r, "flush", "commit")
    /\ call[r].op = "create"
    /\ i \in Ids
    /\ call' = [call EXCEPT ![r] =
                  [op |-> "create", id |-> i, patch |-> call[r].patch]]
    /\ tx' = [tx EXCEPT ![r] = "open"]
    /\ UNCHANGED <<table, lock, loaded, outcome>>

\* Mutant: the id is one more than the largest in the table.
InsertAfterLast(r) ==
    /\ InsertAt(r, IF \E i \in Ids : table[i] # NoRow
                     THEN 1 + CHOOSE i \in Ids :
                            /\ table[i] # NoRow
                            /\ \A j \in Ids : table[j] # NoRow => j <= i
                     ELSE 1)
    /\ nextId' = nextId

\* Mutant: two transactions may be given the same id.
InsertNotAdvancing(r) == InsertAt(r, nextId) /\ nextId' = nextId

\* INSERT ... RETURNING id takes the sequence's next value, for good.
Insert(r) == InsertAt(r, nextId) /\ nextId' = nextId + 1

\* The sequence is exhausted: not an IntegrityError.
InsertWithoutId(r) ==
    /\ Await(r, "flush", "rollback")
    /\ call[r].op = "create"
    /\ nextId \notin Ids
    /\ tx' = [tx EXCEPT ![r] = "open"]
    /\ Answer(r, "persistence_error")
    /\ UNCHANGED <<table, nextId, lock, call, loaded>>

\* UPDATE of the changed columns, or DELETE, of the locked row; either is
\* invisible to others until the commit.
FlushChange(r) ==
    /\ Await(r, "flush", "commit")
    /\ call[r].op # "create"
    /\ ~ (call[r].op = "update" /\ BreaksNotNull(loaded[r], call[r].patch))
    /\ UNCHANGED <<dbVars, call, loaded, outcome>>

\* IntegrityError: rolled back and raised as ConflictError.
FlushConflict(r) ==
    /\ Await(r, "flush", "rollback")
    /\ call[r].op = "update"
    /\ BreaksNotNull(loaded[r], call[r].patch)
    /\ Answer(r, "conflict")
    /\ UNCHANGED <<dbVars, call, loaded>>

SendCommit(r) ==
    /\ Await(r, "commit", "acking")
    /\ tx' = [tx EXCEPT ![r] = "sent"]
    /\ UNCHANGED <<table, nextId, lock, call, loaded, outcome>>

\* Mutant: session.commit() is called without await.
CommitNotAwaited(r) ==
    /\ tx[r] \in {"sent", "committed"}
    /\ Await(r, "acking", "emit")
    /\ Answer(r, "ok")
    /\ UNCHANGED <<dbVars, call, loaded>>

\* COMMIT returned.  create and update go on to session.refresh.
CommitDone(r) ==
    /\ tx[r] = "committed"
    /\ \/ /\ call[r].op = "delete"
          /\ Await(r, "acking", "emit")
          /\ Answer(r, "ok")
       \/ /\ call[r].op # "delete"
          /\ Await(r, "acking", "refresh")
          /\ UNCHANGED outcome
    /\ UNCHANGED <<dbVars, call, loaded>>

\* COMMIT reported an error: the server had given the transaction up.
CommitRefused(r) ==
    /\ Await(r, "acking", "rollback")
    /\ tx[r] = "aborted"
    /\ Answer(r, "persistence_error")
    /\ UNCHANGED <<dbVars, call, loaded>>

\* session.refresh re-reads the row in a new transaction.
Refresh(r) ==
    /\ Await(r, "refresh", "emit")
    /\ table[Id(r)] # NoRow
    /\ loaded' = [loaded EXCEPT ![r] = table[Id(r)]]
    /\ Answer(r, "ok")
    /\ UNCHANGED <<dbVars, call>>

\* The row is gone: InvalidRequestError, which the except clause of the write
\* takes for a failure of the write.
RefreshFindsNothing(r) ==
    /\ Await(r, "refresh", "rollback")
    /\ table[Id(r)] = NoRow
    /\ Answer(r, "persistence_error")
    /\ UNCHANGED <<dbVars, call, loaded>>

\* The locks that remain when r's transaction ends.
Unlock(r) == [i \in Ids |-> IF lock[i] = r THEN Nobody ELSE lock[i]]

\* Mutant: a write that failed is tried again.
RollbackAndRetry(r) ==
    /\ Await(r, "rollback", "flush")
    /\ tx' = [tx EXCEPT ![r] = IF @ = "open" THEN "aborted" ELSE @]
    /\ lock' = Unlock(r)
    /\ UNCHANGED <<table, nextId, call, loaded, outcome>>

\* session.rollback, then the ConflictError or PersistenceError is raised.
Rollback(r) ==
    /\ Await(r, "rollback", "done")
    /\ tx' = [tx EXCEPT ![r] = IF @ = "open" THEN "aborted" ELSE @]
    /\ lock' = Unlock(r)
    /\ UNCHANGED <<table, nextId, call, loaded, outcome>>

\* record_todo_operation_metric and emit_business_event, then the answer.
Emit(r) ==
    /\ Await(r, "emit", "done")
    /\ UNCHANGED <<dbVars, call, loaded, outcome>>

-----------------------------------------------------------------------------
(* What can go wrong under a handler.                                      *)

\* Exceptions other than URLError, TimeoutError and ValueError leave
\* _send_custom_event (a connection reset while the response is read).
EmitEscapes(r) ==
    /\ "telemetry" \in Faults
    /\ Await(r, "emit", "done")
    /\ Answer(r, "internal_error")
    /\ UNCHANGED <<dbVars, call, loaded>>

\* A statement fails on a live connection (a timeout, a server error, no
\* connection for the refresh in pool_timeout).
StatementFails(r) ==
    /\ "statement" \in Faults
    /\ \/ Await(r, "select", "done") /\ Answer(r, "internal_error")
       \/ Await(r, "flush", "rollback") /\ Answer(r, "persistence_error")
       \/ Await(r, "refresh", "rollback") /\ Answer(r, "persistence_error")
    /\ UNCHANGED <<dbVars, call, loaded>>

\* The connection breaks and the handler sees an exception; the server's
\* transaction is left to the server.  An OSError of the driver is not a
\* SQLAlchemyError: it passes the except clauses.
LoseConnection(r) ==
    /\ "connection" \in Faults
    /\ \/ /\ pc[r] \in {"select", "rollback"}
          /\ Answer(r, "internal_error")
       \/ /\ pc[r] \in {"flush", "commit", "acking", "refresh"}
          /\ \E e \in {"persistence_error", "internal_error"} : Answer(r, e)
    /\ pc' = [pc EXCEPT ![r] = "done"]
    /\ UNCHANGED <<dbVars, call, loaded>>

\* The replica that runs r stops.
Crash(r) ==
    /\ "crash" \in Faults
    /\ pc[r] \notin {"idle", "done", "crashed"}
    /\ pc' = [pc EXCEPT ![r] = "crashed"]
    /\ UNCHANGED <<dbVars, call, loaded, outcome>>

-----------------------------------------------------------------------------
(* Steps of the database server.                                           *)

\* What the table holds for the row of r once r's transaction is committed.
Written(r) ==
    IF call[r].op = "create" THEN call[r].patch
    ELSE IF call[r].op = "update" /\ table[Id(r)] # NoRow
           THEN Overlay(table[Id(r)], NetChange(loaded[r], call[r].patch))
    ELSE NoRow

ServerCommits(r) ==
    /\ tx[r] = "sent"
    /\ tx' = [tx EXCEPT ![r] = "committed"]
    /\ table' = [table EXCEPT ![Id(r)] = Written(r)]
    /\ lock' = Unlock(r)
    /\ UNCHANGED <<nextId, pc, call, loaded, outcome>>

\* The server gives up a transaction whose COMMIT it cannot do.
ServerRefuses(r) ==
    /\ "statement" \in Faults
    /\ tx[r] = "sent"
    /\ tx' = [tx EXCEPT ![r] = "aborted"]
    /\ lock' = Unlock(r)
    /\ UNCHANGED <<table, nextId, pc, call, loaded, outcome>>

Reap(r) ==
    /\ tx[r] = "open"
    /\ tx' = [tx EXCEPT ![r] = "aborted"]
    /\ lock' = Unlock(r)
    /\ UNCHANGED <<table, nextId, pc, call, loaded, outcome>>

\* get_db closes the session, or the server notices that the client of an open
\* transaction is gone.
ServerReaps(r) == pc[r] \in {"done", "crashed"} /\ Reap(r)

-----------------------------------------------------------------------------

HandlerStep(r) ==
    \/ Get(r) \/ SelectNothing(r) \/ SelectForUpdate(r) \/ SelectOutOfRange(r)
    \/ Insert(r) \/ InsertWithoutId(r) \/ FlushChange(r) \/ FlushConflict(r)
    \/ SendCommit(r) \/ CommitDone(r) \/ CommitRefused(r)
    \/ Refresh(r) \/ RefreshFindsNothing(r) \/ Rollback(r) \/ Emit(r)

Fault(r) == EmitEscapes(r) \/ StatementFails(r) \/ LoseConnection(r) \/ Crash(r)

ServerStep(r) == ServerCommits(r) \/ ServerRefuses(r) \/ ServerReaps(r)

Step(r) == Receive(r) \/ HandlerStep(r) \/ Fault(r) \/ ServerStep(r)

Next == \E r \in Requests : Step(r)

Spec == Init /\ [][Next]_vars

-----------------------------------------------------------------------------
(* Properties.                                                             *)

Writes == {"update", "delete"}
Gone(r) == pc[r] \in {"done", "crashed"}

\* Between SELECT ... FOR UPDATE and the end of the transaction the row in the
\* table is the row the handler loaded: nobody else changes or deletes it, so
\* the net change computed from the loaded row is right when it commits.
LoadedRowIsCurrent ==
    \A r \in Requests : tx[r] \in {"open", "sent"} /\ call[r].op \in Writes =>
        /\ lock[Id(r)] = r
        /\ table[Id(r)] # NoRow
        /\ table[Id(r)] = loaded[r]

\* The answer tells what happened to the data: a write answered with success
\* is committed whatever failed meanwhile, and a request answered 404 or 409
\* has changed nothing and never will.
AnswersAreTrue ==
    \A r \in Requests :
        /\ outcome[r] = "ok" /\ call[r].op # "get" => tx[r] = "committed"
        /\ outcome[r] \in {"not_found", "conflict"} => tx[r] \notin {"sent", "committed"}

\* A deleted todo stays deleted: its id is never handed out again, so a second
\* DELETE or a GET of it answers 404.
DeletedStaysGone ==
    \A r \in Requests : tx[r] = "committed" /\ call[r].op = "delete"
        => table[Id(r)] = NoRow

\* Concurrent creates are given ids of their own, and a created todo exists
\* until a DELETE of it commits.
CreatedUntilDeleted ==
    \A r \in Requests : tx[r] = "committed" /\ call[r].op = "create" =>
        /\ \A s \in Requests \ {r} :
              call[s].op = "create" /\ tx[s] # "none" => Id(s) # Id(r)
        /\ table[Id(r)] = NoRow =>
              \E s \in Requests : /\ tx[s] = "committed"
                                  /\ call[s].op = "delete"
                                  /\ Id(s) = Id(r)

-----------------------------------------------------------------------------
(* The inductive invariant behind the properties above.                    *)

\* A lock belongs to a transaction that is still to end, on the row of its
\* request: no return of the repository, no failure and no crash leaves a row
\* locked for good.
LocksHaveOwners ==
    \A i \in Ids : lock[i] # Nobody =>
        /\ tx[lock[i]] \in {"open", "sent"}
        /\ call[lock[i]].op \in Writes
        /\ Id(lock[i]) = i

\* How far r's handler is tells how far its transaction can be.
Phase(r) ==
    /\ pc[r] \in {"idle", "select"} => tx[r] = "none"
    /\ pc[r] = "select" => call[r].op # "create"
    /\ pc[r] = "flush" => tx[r] = IF call[r].op = "create" THEN "none" ELSE "open"
    /\ pc[r] = "commit" => tx[r] = "open"
    /\ pc[r] = "acking" => tx[r] \in {"sent", "committed", "aborted"}
    /\ pc[r] = "refresh" => tx[r] = "committed"
    /\ tx[r] = "sent" => pc[r] \in {"acking", "done", "crashed"}
    /\ call[r].op = "get" =>
          tx[r] = "none" /\ pc[r] \in {"idle", "select", "emit", "done", "crashed"}
    /\ pc[r] \in {"idle", "select", "flush", "commit", "acking", "refresh"}
          => outcome[r] = "none"
    /\ outcome[r] = "not_found" =>
          tx[r] = "none" /\ pc[r] \in {"emit", "done", "crashed"}
    /\ outcome[r] = "conflict" =>
          tx[r] \in {"open", "aborted"} /\ pc[r] \in {"rollback", "done", "crashed"}
    /\ outcome[r] = "ok" /\ call[r].op # "get" => tx[r] = "committed"
    /\ (pc[r] = "commit" \/ tx[r] = "sent") /\ call[r].op = "update"
          => ~ BreaksNotNull(loaded[r], call[r].patch)

\* What the sequence has given out: r's id, once it has one, is r's alone.
Numbering(r) ==
    /\ call[r].op = "create" =>
          /\ Id(r) < nextId
          /\ tx[r] = "none" => Id(r) = 0
          /\ pc[r] = "commit" \/ tx[r] \in {"sent", "committed"} => Id(r) \in Ids
          /\ Id(r) # 0 /\ tx[r] # "committed" => table[Id(r)] = NoRow
          /\ \A s \in Requests \ {r} :
                call[s].op = "create" /\ Id(s) = Id(r) => Id(r) = 0
          /\ \A s \in Requests :
                /\ call[s].op = "delete" /\ tx[s] = "committed"
                /\ Id(r) # 0 /\ tx[r] # "committed"
                => Id(s) # Id(r)
    /\ call[r].op \in Writes /\ tx[r] # "none" => Id(r) \in Ids /\ Id(r) < nextId

IInv ==
    /\ TypeOK
    /\ LocksHaveOwners
    /\ LoadedRowIsCurrent
    /\ \A i \in Ids : table[i] # NoRow => i < nextId
    /\ \A r \in Requests : Phase(r) /\ Numbering(r)
    /\ DeletedStaysGone
    /\ CreatedUntilDeleted

-----------------------------------------------------------------------------
(* A property of steps.                                                    *)

\* No update is lost: a committed change of an existing row is exactly some
\* PUT's body over the row as the commit finds it, every other column intact.
NoLostUpdate ==
    [][\A i \in Ids : table[i] # NoRow /\ table'[i] \notin {NoRow, table[i]} =>
          \E r \in Requests : /\ call[r].op = "update"
                              /\ Id(r) = i
                              /\ tx[r] = "sent" /\ tx'[r] = "committed"
                              /\ table'[i] = Overlay(table[i], call[r].patch)]_vars

-----------------------------------------------------------------------------
(* What the repository says of the program, and the program does not do.   *)

\* "Failed to create todo" (repository.py:50) and "Failed to update todo"
\* (:76): a write answered with persistence_error was not made.
FailedWriteLeavesNothing ==
    \A r \in Requests : pc[r] = "done" /\ outcome[r] = "persistence_error"
        => tx[r] # "committed"

=============================================================================
