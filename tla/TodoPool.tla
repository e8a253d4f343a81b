------------------------------ MODULE TodoPool ------------------------------
(***************************************************************************)
(* The requests of one replica over its bounded connection pool.           *)
(*                                                                         *)
(* The AsyncSession of a request takes a connection from the engine's pool *)
(* at its first statement, gives it back at commit or rollback, takes      *)
(* another for session.refresh, and gives that back when get_db closes the *)
(* session, after the handler is through.  With pool_size + max_overflow   *)
(* connections out, a request waits for pool_timeout and then fails.       *)
(*                                                                         *)
(* Every step is a step of TodoStore or leaves it alone.  The pool is gone *)
(* with its process, so only requests of other replicas, which have pools  *)
(* of their own, may crash here.                                           *)
(***************************************************************************)
EXTENDS TodoStore, FiniteSets

CONSTANTS Local,      \* the requests of this replica
          Capacity    \* DATABASE_POOL_SIZE + DATABASE_MAX_OVERFLOW

ASSUME LocalAssumption == Local \subseteq Requests /\ IsFiniteSet(Local)
ASSUME CapacityAssumption == Capacity \in Nat \ {0}
ASSUME TimeOutsHappen == "statement" \in Faults

VARIABLE conn    \* local request -> its session's connection: "none", "held", or
                 \* "broken", which still counts until the session lets it go

poolVars == <<vars, conn>>

Holders == {r \in Local : conn[r] # "none"}
Full == Cardinality(Holders) >= Capacity

PoolInit == Init /\ conn = [r \in Local |-> "none"]

Becomes(r, c) == conn' = [conn EXCEPT ![r] = c]

\* The next thing r does is the first statement of a transaction.
Begins(r) ==
    \/ pc[r] \in {"select", "refresh"}
    \/ pc[r] = "flush" /\ call[r].op = "create"

CheckOut(r) ==
    /\ Begins(r)
    /\ conn[r] = "none"
    /\ ~ Full
    /\ Becomes(r, "held")
    /\ UNCHANGED vars

\* No connection came back in pool_timeout: sqlalchemy.exc.TimeoutError, which
\* the try around commit and refresh takes for a failure of the write.
TimeOut(r) ==
    /\ Begins(r)
    /\ conn[r] = "none"
    /\ Full
    /\ StatementFails(r)
    /\ UNCHANGED conn

\* Mutant: the session gives its connection back when it sends the COMMIT.
EndsTransactionEarly(r) == pc[r] \in {"rollback", "commit"}

\* Commit and rollback give the connection back.
EndsTransaction(r) ==
    pc[r] = "rollback" \/ (pc[r] = "acking" /\ tx[r] = "committed")

\* The handler goes on; its statements need a connection.
Run(r) ==
    /\ Begins(r) => conn[r] = "held"
    /\ HandlerStep(r)
    /\ Becomes(r, IF EndsTransaction(r) THEN "none" ELSE conn[r])

\* What fails under the handler on a working connection.
Fail(r) ==
    /\ Begins(r) => conn[r] = "held"
    /\ StatementFails(r) \/ EmitEscapes(r)
    /\ UNCHANGED conn

\* A connection breaks, or a new one cannot be made.
Break(r) ==
    /\ conn[r] = "held" \/ (Begins(r) /\ ~ Full)
    /\ LoseConnection(r)
    /\ Becomes(r, IF conn[r] = "held" THEN "broken" ELSE "none")

\* Mutant: get_db closes the session only after success.
CloseOnSuccess(r) ==
    /\ pc[r] = "done"
    /\ conn[r] # "none"
    /\ outcome[r] = "ok"
    /\ Becomes(r, "none")
    /\ UNCHANGED vars

\* The end of get_db's async with: an open transaction is rolled back before
\* the connection goes back; a broken connection is dropped.
Close(r) ==
    /\ pc[r] = "done"
    /\ conn[r] # "none"
    /\ Becomes(r, "none")
    /\ IF conn[r] = "held" /\ tx[r] = "open" THEN ServerReaps(r) ELSE UNCHANGED vars

\* The server ends a transaction whose client is gone by itself.
Server(r) ==
    /\ ServerCommits(r) \/ ServerRefuses(r) \/ (conn[r] # "held" /\ ServerReaps(r))
    /\ UNCHANGED conn

PoolStep(r) == CheckOut(r) \/ TimeOut(r) \/ Run(r) \/ Close(r) \/ Server(r)

Elsewhere(r) == Step(r) /\ UNCHANGED conn

PoolNext ==
    \/ \E r \in Local :
          \/ Receive(r) /\ UNCHANGED conn
          \/ PoolStep(r) \/ Fail(r) \/ Break(r)
    \/ \E r \in Requests \ Local : Elsewhere(r)

PoolSpec == PoolInit /\ [][PoolNext]_poolVars

\* What goes on without a client and without a fault.
Progress ==
    \/ \E r \in Local : PoolStep(r)
    \/ \E r \in Requests \ Local : (HandlerStep(r) \/ ServerStep(r)) /\ UNCHANGED conn

\* The event loop comes back to every request, pool_timeout is finite, and the
\* server ends each transaction.  Every step brings its request nearer to the
\* end (NearerToTheEnd), so no request can be passed over for ever by the
\* others' steps.
PoolFairSpec == PoolSpec /\ WF_poolVars(Progress)

-----------------------------------------------------------------------------
(* Properties.                                                             *)

\* A request that waits for a connection keeps no row from others and has no
\* open transaction, so a full pool and the row locks cannot wait for each
\* other; what is out is within the pool's size, and a handler in the middle
\* of a transaction has its connection.
NoHoldAndWait ==
    \A r \in Local : Begins(r) /\ conn[r] = "none" =>
        /\ tx[r] \notin {"open", "sent"}
        /\ \A i \in Ids : lock[i] # r

PoolInv ==
    /\ conn \in [Local -> {"none", "held", "broken"}]
    /\ Cardinality(Holders) <= Capacity
    /\ \A r \in Local :
          /\ conn[r] = "broken" => pc[r] = "done"
          /\ pc[r] = "idle" => conn[r] = "none"
          /\ pc[r] \in {"commit", "acking"} => conn[r] = "held"
          /\ pc[r] = "flush" /\ call[r].op # "create" => conn[r] = "held"
    /\ NoHoldAndWait

\* How many steps a handler, its connection and its transaction have before
\* them at most.
StagesLeft(at) ==
    CASE at = "idle" -> 8
      [] at = "select" -> 7
      [] at = "flush" -> 6
      [] at = "commit" -> 5
      [] at = "acking" -> 4
      [] at = "refresh" -> 3
      [] at = "rollback" -> 2
      [] at = "emit" -> 1
      [] OTHER -> 0

ConnectionLeft(r) == IF r \in Local /\ (Gone(r) <=> conn[r] # "none") THEN 1 ELSE 0

TransactionLeft(r) == IF tx[r] \in {"open", "sent"} THEN 1 ELSE 0

StepsLeft(r) == 3 * StagesLeft(pc[r]) + ConnectionLeft(r) + TransactionLeft(r)

OnlyNearer(r) ==
    /\ StepsLeft(r)' < StepsLeft(r)
    /\ \A s \in Requests \ {r} : StepsLeft(s)' = StepsLeft(s)

\* Each step, a failing one too, brings one request nearer to its end and
\* throws no other back: no write is tried twice, no connection is taken for
\* nothing, and no request makes others begin anew.
NearerToTheEnd ==
    [][\E r \in Requests : OnlyNearer(r)]_poolVars

\* Every request that reaches its handler is answered unless its replica
\* stops, and every connection comes back to the pool, however full the pool,
\* whoever holds the row and whatever fails.
RequestsEndAndConnectionsReturn ==
    \A r \in Requests :
        pc[r] # "idle" ~> Gone(r) /\ (r \in Local => conn[r] = "none")
=============================================================================
