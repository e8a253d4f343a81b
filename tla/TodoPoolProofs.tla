--------------------------- MODULE TodoPoolProofs ---------------------------
(* Proofs about TodoPool, for any pool size, requests and faults. *)
EXTENDS TodoPool, TodoRefinementProofs, FiniteSetTheorems

\* The steps of a local request, one by one.
LocalStep(r) ==
    \/ Receive(r) /\ UNCHANGED conn
    \/ PoolStep(r) \/ Fail(r) \/ Break(r)

\* Each step over the pool is a step of the store or leaves it alone.
LEMMA StoreStep ==
    ASSUME [PoolNext]_poolVars
    PROVE  [Next]_vars
  <1>1. ASSUME NEW r \in Local, LocalStep(r) PROVE [Next]_vars
    <2>1. r \in Requests
      BY LocalAssumption
    <2>2. Step(r) \/ UNCHANGED vars
      BY <1>1 DEF LocalStep, PoolStep, Fail, Break, CheckOut, TimeOut, Run, Close, Server,
            Step, Fault, ServerStep
    <2>. QED
      BY <2>1, <2>2 DEF Next
  <1>2. ASSUME NEW r \in Requests \ Local, Elsewhere(r) PROVE Next
    BY <1>2 DEF Elsewhere, Next
  <1>. QED
    BY <1>1, <1>2 DEF PoolNext, LocalStep, poolVars

\* A step of one request leaves the handlers of the others where they are.
LEMMA OthersStay ==
    ASSUME IInv, NEW r \in Requests, Step(r)
    PROVE  /\ \A s \in Requests \ {r} : pc'[s] = pc[s] /\ call'[s] = call[s]
           /\ call'[r].op = call[r].op
  <1>. USE DEF IInv, TypeOK, Await, dbVars
  <1>1. pc \in [Requests -> PCs] /\ call \in [Requests -> [op : Ops, id : Nat, patch : PartialRows]]
    OBVIOUS
  <1>2. CASE Receive(r) \/ HandlerStep(r)
    <2>1. CASE Insert(r)
      BY <1>1, <2>1 DEF Insert, InsertAt
    <2>. QED
      BY <1>1, <1>2, <2>1 DEF Receive, HandlerStep, Get, SelectNothing, SelectForUpdate,
            SelectOutOfRange, InsertWithoutId, FlushChange, FlushConflict, SendCommit,
            CommitDone, CommitRefused, Refresh, RefreshFindsNothing, Rollback, Emit
  <1>3. CASE Fault(r) \/ ServerStep(r)
    BY <1>1, <1>3 DEF Fault, EmitEscapes, StatementFails, LoseConnection, Crash,
          ServerStep, ServerCommits, ServerRefuses, ServerReaps, Reap
  <1>. QED
    BY <1>2, <1>3 DEF Step

\* What a handler that is where it is has of the pool.
ConnFits(r) ==
    /\ conn[r] = "broken" => pc[r] = "done"
    /\ pc[r] = "idle" => conn[r] = "none"
    /\ pc[r] \in {"commit", "acking"} => conn[r] = "held"
    /\ pc[r] = "flush" /\ call[r].op # "create" => conn[r] = "held"

ConnTypes == conn \in [Local -> {"none", "held", "broken"}]

\* Lock owners are in a transaction, and no transaction begins inside one.
LEMMA WaitersHoldNothing == IInv => NoHoldAndWait
  <1>. SUFFICES ASSUME IInv, NEW r \in Local, Begins(r)
                PROVE  /\ tx[r] \notin {"open", "sent"}
                       /\ \A i \in Ids : lock[i] # r
    BY DEF NoHoldAndWait
  <1>1. r \in Requests /\ r # Nobody
    BY LocalAssumption, NullAssumption
  <1>2. tx[r] \notin {"open", "sent"}
    BY <1>1 DEF IInv, Phase, Begins
  <1>. QED
    BY <1>1, <1>2 DEF IInv, LocksHaveOwners

\* No step takes a connection out of a full pool.
LEMMA PoolStaysBounded ==
    ASSUME ConnTypes, Cardinality(Holders) <= Capacity,
           NEW r \in Local, NEW c \in {"none", "held", "broken"}, Becomes(r, c),
           c = "none" \/ conn[r] # "none" \/ ~ Full
    PROVE  ConnTypes' /\ Cardinality(Holders') <= Capacity
  <1>. USE DEF ConnTypes, Becomes
  <1>1. IsFiniteSet(Holders)
    BY LocalAssumption, FS_Subset DEF Holders
  <1>2. Cardinality(Holders) \in Nat
    BY <1>1, FS_CardinalityType
  <1>3. CASE c = "none"
    <2>1. Holders' \in SUBSET Holders
      BY <1>3 DEF Holders
    <2>2. IsFiniteSet(Holders') /\ Cardinality(Holders') <= Cardinality(Holders)
      BY <1>1, <2>1, FS_Subset
    <2>3. Cardinality(Holders') \in Nat
      BY <2>2, FS_CardinalityType
    <2>. QED
      BY <1>2, <2>2, <2>3, CapacityAssumption
  <1>4. CASE c # "none"
    <2>1. Holders' = Holders \cup {r}
      BY <1>4 DEF Holders
    <2>2. Cardinality(Holders') = IF r \in Holders THEN Cardinality(Holders)
                                                   ELSE Cardinality(Holders) + 1
      BY <1>1, <2>1, FS_AddElement
    <2>3. r \in Holders \/ ~ Full
      BY <1>4 DEF Holders
    <2>. QED
      BY <1>2, <2>2, <2>3, CapacityAssumption DEF Full
  <1>. QED
    BY <1>3, <1>4

\* What a local step does to its own connection.
LEMMA OwnConnection ==
    ASSUME IInv, ConnTypes, NEW r \in Local, ConnFits(r), LocalStep(r)
    PROVE  /\ ConnFits(r)'
           /\ \E c \in {"none", "held", "broken"} :
                 /\ Becomes(r, c)
                 /\ c = "none" \/ conn[r] # "none" \/ ~ Full
  <1>. USE DEF Await, ConnTypes, Becomes, ConnFits, dbVars
  <1>1. r \in Requests
    BY LocalAssumption
  <1>2. /\ pc \in [Requests -> PCs] /\ pc[r] \in PCs
        /\ call \in [Requests -> [op : Ops, id : Nat, patch : PartialRows]]
    BY <1>1 DEF IInv, TypeOK
  <1>3. CASE Receive(r) /\ UNCHANGED conn
    BY <1>1, <1>2, <1>3 DEF Receive
  <1>4. CASE CheckOut(r)
    BY <1>4 DEF CheckOut, vars, Begins
  <1>5. CASE TimeOut(r) \/ Fail(r)
    BY <1>1, <1>2, <1>5 DEF TimeOut, Fail, StatementFails, EmitEscapes
  <1>6. CASE Server(r)
    BY <1>1, <1>2, <1>6 DEF Server, ServerCommits, ServerRefuses, ServerReaps, Reap
  <1>7. CASE Close(r)
    BY <1>1, <1>2, <1>7 DEF Close, vars, ServerReaps, Reap
  <1>8. CASE Break(r)
    <2>1. pc'[r] = "done"
      BY <1>1, <1>2, <1>8 DEF Break, LoseConnection
    <2>2. ConnFits(r)'
      BY <2>1
    <2>3. CASE conn[r] = "held"
      BY <1>8, <2>2, <2>3 DEF Break
    <2>4. CASE conn[r] # "held"
      BY <1>8, <2>2, <2>4 DEF Break
    <2>. QED
      BY <2>3, <2>4
  <1>9. CASE Run(r)
    <2>1. CASE EndsTransaction(r)
      <3>1. pc'[r] \in {"done", "emit", "refresh"}
        BY <1>1, <1>2, <1>9, <2>1 DEF Run, EndsTransaction, HandlerStep, Get, SelectNothing,
              SelectForUpdate, SelectOutOfRange, Insert, InsertAt, InsertWithoutId, FlushChange,
              FlushConflict, SendCommit, CommitDone, CommitRefused, Refresh,
              RefreshFindsNothing, Rollback, Emit
      <3>. QED
        BY <1>9, <2>1, <3>1 DEF Run
    <2>2. CASE ~ EndsTransaction(r)
      <3>1. conn'[r] = conn[r] /\ Becomes(r, conn[r])
        BY <1>9, <2>2 DEF Run
      <3>2. conn[r] # "broken" /\ pc'[r] # "idle"
        BY <1>1, <1>2, <1>9 DEF Run, HandlerStep, Get, SelectNothing, SelectForUpdate,
              SelectOutOfRange, Insert, InsertAt, InsertWithoutId, FlushChange,
              FlushConflict, SendCommit, CommitDone, CommitRefused, Refresh,
              RefreshFindsNothing, Rollback, Emit
      <3>3. pc'[r] \in {"commit", "acking"} \/ (pc'[r] = "flush" /\ call[r].op # "create")
              => conn[r] = "held"
        BY <1>1, <1>2, <1>9 DEF Run, Begins, HandlerStep, Get, SelectNothing, SelectForUpdate,
              SelectOutOfRange, Insert, InsertAt, InsertWithoutId, FlushChange,
              FlushConflict, SendCommit, CommitDone, CommitRefused, Refresh,
              RefreshFindsNothing, Rollback, Emit
      <3>4. call'[r].op = call[r].op
        BY <1>1, <1>9, OthersStay DEF Run, Step
      <3>. QED
        BY <3>1, <3>2, <3>3, <3>4
    <2>. QED
      BY <2>1, <2>2
  <1>. QED
    BY <1>3, <1>4, <1>5, <1>6, <1>7, <1>8, <1>9 DEF LocalStep, PoolStep

LEMMA PoolNextInv == IInv /\ PoolInv /\ [PoolNext]_poolVars => IInv' /\ PoolInv'
  <1>. SUFFICES ASSUME IInv, PoolInv, [PoolNext]_poolVars PROVE IInv' /\ PoolInv'
    OBVIOUS
  <1>1. IInv'
    BY StoreStep, NextIInv
  <1>2. NoHoldAndWait'
    BY <1>1, WaitersHoldNothing, PTL
  <1>3. /\ ConnTypes /\ Cardinality(Holders) <= Capacity
        /\ \A s \in Local : ConnFits(s)
    BY DEF PoolInv, ConnTypes, ConnFits
  <1>4. /\ ConnTypes' /\ Cardinality(Holders') <= Capacity
        /\ \A s \in Local : ConnFits(s)'
    <2>1. ASSUME NEW r \in Local, LocalStep(r)
          PROVE  /\ ConnTypes' /\ Cardinality(Holders') <= Capacity
                 /\ \A s \in Local : ConnFits(s)'
      <3>1. PICK c \in {"none", "held", "broken"} :
               /\ Becomes(r, c)
               /\ c = "none" \/ conn[r] # "none" \/ ~ Full
        BY <1>3, <2>1, OwnConnection
      <3>2. ConnTypes' /\ Cardinality(Holders') <= Capacity
        BY <1>3, <3>1, PoolStaysBounded
      <3>3. ConnFits(r)'
        BY <1>3, <2>1, OwnConnection
      <3>4. ASSUME NEW s \in Local \ {r} PROVE ConnFits(s)'
        <4>1. pc'[s] = pc[s] /\ call'[s] = call[s]
          <5>1. Step(r) \/ UNCHANGED vars
            BY <2>1 DEF LocalStep, PoolStep, Fail, Break, CheckOut, TimeOut, Run, Close,
                  Server, Step, Fault, ServerStep
          <5>2. s \in Requests \ {r} /\ r \in Requests
            BY LocalAssumption
          <5>. QED
            BY <5>1, <5>2, OthersStay DEF vars
        <4>2. conn'[s] = conn[s]
          BY <1>3, <3>1 DEF ConnTypes, Becomes
        <4>. QED
          BY <1>3, <4>1, <4>2 DEF ConnFits
      <3>. QED
        BY <3>2, <3>3, <3>4
    <2>2. ASSUME UNCHANGED conn, \A s \in Local : pc'[s] = pc[s] /\ call'[s] = call[s]
          PROVE  /\ ConnTypes' /\ Cardinality(Holders') <= Capacity
                 /\ \A s \in Local : ConnFits(s)'
      BY <1>3, <2>2 DEF ConnTypes, ConnFits, Holders
    <2>3. ASSUME NEW r \in Requests \ Local, Elsewhere(r)
          PROVE  UNCHANGED conn /\ \A s \in Local : pc'[s] = pc[s] /\ call'[s] = call[s]
      BY <2>3, LocalAssumption, OthersStay DEF Elsewhere
    <2>4. CASE UNCHANGED poolVars
      BY <2>2, <2>4 DEF poolVars, vars
    <2>. QED
      BY <2>1, <2>2, <2>3, <2>4 DEF PoolNext, LocalStep
  <1>. QED
    BY <1>1, <1>2, <1>4 DEF PoolInv, ConnTypes, ConnFits

LEMMA PoolInitInv == PoolInit => PoolInv
  <1>. SUFFICES ASSUME PoolInit PROVE PoolInv
    OBVIOUS
  <1>1. NoHoldAndWait
    BY InitIInv, WaitersHoldNothing DEF PoolInit
  <1>2. Holders = {}
    BY DEF PoolInit, Holders
  <1>3. Cardinality(Holders) <= Capacity
    BY <1>2, FS_EmptySet, CapacityAssumption
  <1>4. \A r \in Local : pc[r] = "idle" /\ conn[r] = "none"
    BY LocalAssumption DEF PoolInit, Init
  <1>. QED
    BY <1>1, <1>3, <1>4 DEF PoolInv, PoolInit

\* Over a pool of any size the requests behave as TodoStore says, so that what
\* is proved of the store, its refinement of AtomicTodos included, holds for
\* replicas whose pools run dry.
THEOREM PoolKeepsTheStore == PoolSpec => Spec
  <1>1. PoolInit => Init
    BY DEF PoolInit
  <1>2. [PoolNext]_poolVars => [Next]_vars
    BY StoreStep
  <1>. QED
    BY <1>1, <1>2, PTL DEF PoolSpec, Spec

\* A replica whose pool runs dry still gives each request its effect at one
\* instant or not at all, and answers truthfully.
THEOREM PoolImplements == PoolSpec => ImplementsAtomicTodos
  BY PoolKeepsTheStore, Implementation

\* A request that waits for a connection between its statements overwrites no
\* update of another, and its timeout is never told as a success, nor a write
\* that was made as a 404 or a 409.
THEOREM PoolKeepsPromises == PoolSpec => []AnswersAreTrue /\ NoLostUpdate
  BY PoolKeepsTheStore, AnswersHold, UpdatesAreNotLost

\* The pool never gives out more than it has, a handler in a transaction has
\* its connection, and who waits for one holds no row.
THEOREM PoolIsSafe == PoolSpec => []PoolInv
  <1>1. PoolInit => IInv /\ PoolInv
    BY PoolInitInv, InitIInv DEF PoolInit
  <1>. QED
    BY <1>1, PoolNextInv, PTL DEF PoolSpec

-----------------------------------------------------------------------------
(* How much is left to do.                                                 *)

\* Steps are counted by a natural number.
LEMMA StepsAreCounted == \A r \in Requests : StepsLeft(r) \in Nat
  BY DEF StepsLeft, StagesLeft, ConnectionLeft, TransactionLeft

\* A step of r as a request of the store.
LEMMA StepAdvances ==
    ASSUME IInv, NEW r \in Requests, Step(r)
    PROVE  /\ pc'[r] # pc[r] => StagesLeft(pc'[r]) < StagesLeft(pc[r])
           /\ pc'[r] = pc[r] => tx[r] \in {"open", "sent"} /\ TransactionLeft(r)' = 0
           /\ \A s \in Requests \ {r} : tx'[s] = tx[s]
  <1>. USE DEF IInv, TypeOK, Await, dbVars, StagesLeft, TransactionLeft
  <1>1. CASE Receive(r)
    BY <1>1 DEF Receive
  <1>2. CASE Get(r) \/ SelectNothing(r) \/ SelectForUpdate(r) \/ SelectOutOfRange(r)
    BY <1>2 DEF Get, SelectNothing, SelectForUpdate, SelectOutOfRange
  <1>3. CASE Insert(r) \/ InsertWithoutId(r) \/ FlushChange(r) \/ FlushConflict(r)
    BY <1>3 DEF Insert, InsertAt, InsertWithoutId, FlushChange, FlushConflict
  <1>4. CASE SendCommit(r) \/ CommitDone(r) \/ CommitRefused(r)
    BY <1>4 DEF SendCommit, CommitDone, CommitRefused
  <1>5. CASE Refresh(r) \/ RefreshFindsNothing(r) \/ Rollback(r) \/ Emit(r)
    BY <1>5 DEF Refresh, RefreshFindsNothing, Rollback, Emit
  <1>6. CASE EmitEscapes(r) \/ StatementFails(r)
    BY <1>6 DEF EmitEscapes, StatementFails
  <1>7. CASE LoseConnection(r)
    BY <1>7 DEF LoseConnection
  <1>8. CASE Crash(r)
    BY <1>8 DEF Crash, PCs
  <1>9. CASE ServerStep(r)
    BY <1>9 DEF ServerStep, ServerCommits, ServerRefuses, ServerReaps, Reap
  <1>. QED
    BY <1>1, <1>2, <1>3, <1>4, <1>5, <1>6, <1>7, <1>8, <1>9 DEF Step, HandlerStep, Fault

\* A handler that takes a step, or loses its connection, is not where it was.
LEMMA HandlerMoves ==
    ASSUME IInv, NEW r \in Requests, HandlerStep(r) \/ LoseConnection(r)
    PROVE  pc'[r] # pc[r]
  BY DEF IInv, TypeOK, Await, HandlerStep, Get, SelectNothing, SelectForUpdate,
         SelectOutOfRange, Insert, InsertAt, InsertWithoutId, FlushChange, FlushConflict,
         SendCommit, CommitDone, CommitRefused, Refresh, RefreshFindsNothing, Rollback,
         Emit, LoseConnection

\* A step of a handler is worth more than a connection and a transaction.
LEMMA StageCovers ==
    ASSUME NEW r \in Requests, StagesLeft(pc'[r]) < StagesLeft(pc[r])
    PROVE  StepsLeft(r)' < StepsLeft(r)
  BY DEF StepsLeft, StagesLeft, ConnectionLeft, TransactionLeft

\* A local request, its connection included.
LEMMA LocalNearer ==
    ASSUME IInv, ConnTypes, NEW r \in Local, LocalStep(r)
    PROVE  OnlyNearer(r)
  <1>0. r \in Requests
    BY LocalAssumption
  <1>1. \A s \in Local \ {r} : conn'[s] = conn[s]
    BY DEF ConnTypes, LocalStep, PoolStep, Fail, Break, CheckOut, TimeOut, Run, Close,
           Server, Becomes
  <1>2. CASE UNCHANGED vars
    <2>1. CheckOut(r) \/ Close(r)
      <3>1. ~ Step(r)
        BY <1>0, <1>2, StepAdvances DEF vars, TransactionLeft
      <3>. QED
        BY <3>1 DEF LocalStep, PoolStep, Fail, Break, TimeOut, Run, Server, Step, Fault,
              ServerStep
    <2>2. ConnectionLeft(r) = 1 /\ ConnectionLeft(r)' = 0
      <3>1. CASE CheckOut(r)
        BY <1>2, <3>1 DEF CheckOut, Begins, Becomes, ConnTypes, ConnectionLeft, Gone, vars
      <3>2. CASE Close(r)
        BY <1>2, <3>2 DEF Close, Becomes, ConnTypes, ConnectionLeft, Gone, vars
      <3>. QED
        BY <2>1, <3>1, <3>2
    <2>3. StepsLeft(r)' < StepsLeft(r)
      <3>. DEFINE n == StagesLeft(pc[r])
      <3>1. n \in Nat /\ n' = n /\ TransactionLeft(r) \in Nat
              /\ TransactionLeft(r)' = TransactionLeft(r)
        BY <1>2 DEF StagesLeft, TransactionLeft, vars
      <3>. QED
        BY <2>2, <3>1 DEF StepsLeft
    <2>4. \A s \in Requests \ {r} : StepsLeft(s)' = StepsLeft(s)
      BY <1>1, <1>2 DEF StepsLeft, ConnectionLeft, TransactionLeft, Gone, vars
    <2>. QED
      BY <2>3, <2>4 DEF OnlyNearer
  <1>3. CASE Step(r)
    <2>1. \A s \in Requests \ {r} : StepsLeft(s)' = StepsLeft(s)
      BY <1>0, <1>1, <1>3, OthersStay, StepAdvances
      DEF StepsLeft, ConnectionLeft, TransactionLeft, Gone
    <2>2. CASE pc'[r] = pc[r]
      <3>1. TransactionLeft(r) = 1 /\ TransactionLeft(r)' = 0
        BY <1>0, <1>3, <2>2, StepAdvances DEF TransactionLeft
      <3>2. ConnectionLeft(r) \in Nat /\ ConnectionLeft(r)' \in Nat
              /\ ConnectionLeft(r)' <= ConnectionLeft(r)
        <4>1. CASE Close(r)
          BY <2>2, <4>1 DEF Close, Becomes, ConnTypes, ConnectionLeft, Gone
        <4>2. CASE conn' = conn
          BY <2>2, <4>2 DEF ConnectionLeft, Gone
        <4>3. CASE CheckOut(r)
          BY <1>0, <1>3, <3>1, <4>3 DEF CheckOut, vars, TransactionLeft
        <4>4. ~ (Run(r) \/ Break(r))
          BY <1>0, <2>2, HandlerMoves DEF Run, Break, IInv, TypeOK
        <4>. QED
          BY <4>1, <4>2, <4>3, <4>4 DEF LocalStep, PoolStep, Fail, TimeOut, Server
      <3>3. StagesLeft(pc[r]) \in Nat /\ StagesLeft(pc'[r]) = StagesLeft(pc[r])
        BY <2>2 DEF StagesLeft
      <3>. QED
        BY <2>1, <3>1, <3>2, <3>3 DEF StepsLeft, OnlyNearer
    <2>3. CASE pc'[r] # pc[r]
      BY <1>0, <1>3, <2>1, <2>3, StepAdvances, StageCovers DEF OnlyNearer
    <2>. QED
      BY <2>2, <2>3
  <1>4. Step(r) \/ UNCHANGED vars
    BY <1>0 DEF LocalStep, PoolStep, Fail, Break, CheckOut, TimeOut, Run, Close, Server,
          Step, Fault, ServerStep
  <1>. QED
    BY <1>2, <1>3, <1>4

\* Every step, whoever takes it and whatever fails, uses up one of the steps
\* its request has before it (25 at most, when it arrives), for a pool of any
\* size and any requests beside it.
THEOREM RequestsAreShort == PoolSpec => NearerToTheEnd
  <1>1. ASSUME IInv, PoolInv, [PoolNext]_poolVars
        PROVE  [\E r \in Requests : OnlyNearer(r)]_poolVars
    <2>1. ConnTypes
      BY <1>1 DEF PoolInv, ConnTypes
    <2>2. ASSUME NEW r \in Local, LocalStep(r) PROVE \E s \in Requests : OnlyNearer(s)
      BY <1>1, <2>1, <2>2, LocalNearer, LocalAssumption
    <2>3. ASSUME NEW r \in Requests \ Local, Elsewhere(r) PROVE OnlyNearer(r)
      <3>1. Step(r) /\ conn' = conn
        BY <2>3 DEF Elsewhere
      <3>2. \A s \in Requests \ {r} : StepsLeft(s)' = StepsLeft(s)
        BY <1>1, <3>1, OthersStay, StepAdvances
        DEF StepsLeft, ConnectionLeft, TransactionLeft, Gone
      <3>3. StepsLeft(r)' < StepsLeft(r)
        <4>1. CASE pc'[r] # pc[r]
          BY <1>1, <3>1, <4>1, StepAdvances, StageCovers
        <4>2. CASE pc'[r] = pc[r]
          BY <1>1, <3>1, <4>2, StepAdvances
          DEF StepsLeft, StagesLeft, ConnectionLeft, TransactionLeft
        <4>. QED
          BY <4>1, <4>2
      <3>. QED
        BY <3>2, <3>3 DEF OnlyNearer
    <2>. QED
      BY <1>1, <2>2, <2>3 DEF PoolNext, LocalStep
  <1>2. PoolInit => IInv /\ PoolInv
    BY PoolInitInv, InitIInv DEF PoolInit
  <1>3. IInv /\ PoolInv /\ [PoolNext]_poolVars => [\E r \in Requests : OnlyNearer(r)]_poolVars
    BY <1>1
  <1>. QED
    BY <1>2, <1>3, PoolNextInv, PTL DEF PoolSpec, NearerToTheEnd
=============================================================================
