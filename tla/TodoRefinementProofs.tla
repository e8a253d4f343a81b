------------------------ MODULE TodoRefinementProofs ------------------------
(* Proof that TodoStore implements AtomicTodos, for any number of requests, *)
(* ids, columns and values, any calls and any faults.                       *)
EXTENDS TodoRefinement, TodoStoreProofs

-----------------------------------------------------------------------------
(* What the mapping needs to know beside IInv.                             *)

\* Which answers a handler can hold where it is, and that the ids of created
\* todos are not those of seeded ones.
Placed(r) ==
    /\ pc[r] = "rollback" => outcome[r] \in {"conflict", "persistence_error"}
    /\ pc[r] = "emit" => outcome[r] \in {"ok", "not_found"}
    /\ pc[r] = "done" => outcome[r] # "none"
    /\ outcome[r] = "ok" => pc[r] \in {"emit", "done", "crashed"}
    /\ call[r].op = "create" /\ Id(r) # 0 => Id(r) > Len(Seeded)

RInv == IInv /\ nextId > Len(Seeded) /\ \A r \in Requests : Placed(r)

LEMMA InitRInv == Init => RInv
  <1>. SUFFICES ASSUME Init PROVE RInv
    OBVIOUS
  <1>1. IInv
    BY InitIInv
  <1>2. nextId > Len(Seeded)
    BY SeededAssumption DEF Init
  <1>3. \A r \in Requests : Placed(r)
    BY CallsAssumption DEF Init, Placed, Id
  <1>. QED
    BY <1>1, <1>2, <1>3 DEF RInv

LEMMA NextRInv == RInv /\ [Next]_vars => RInv'
  <1>. SUFFICES ASSUME RInv, [Next]_vars PROVE RInv'
    OBVIOUS
  <1>1. IInv'
    BY NextIInv DEF RInv
  <1>2. CASE UNCHANGED vars
    BY <1>1, <1>2 DEF RInv, Placed, vars, Id
  <1>3. ASSUME NEW r \in Requests, Step(r)
        PROVE  nextId' > Len(Seeded) /\ \A s \in Requests : Placed(s)'
    <2>. USE DEF RInv, IInv, TypeOK, Placed, Await, Answer, dbVars, Id
    <2>0. Len(Seeded) \in Nat
      BY SeededAssumption
    <2>1. CASE Receive(r)
      BY <1>3, <2>1 DEF Receive, Phase
    <2>2. CASE HandlerStep(r)
      <3>1. CASE Get(r) \/ SelectNothing(r) \/ SelectForUpdate(r) \/ SelectOutOfRange(r)
        BY <1>3, <3>1 DEF Get, SelectNothing, SelectForUpdate, SelectOutOfRange, Phase
      <3>2. CASE Insert(r)
        BY <1>3, <2>0, <3>2 DEF Insert, InsertAt, Phase, Ids
      <3>3. CASE InsertWithoutId(r) \/ FlushChange(r) \/ FlushConflict(r)
        BY <1>3, <3>3 DEF InsertWithoutId, FlushChange, FlushConflict, Phase
      <3>4. CASE SendCommit(r) \/ CommitDone(r) \/ CommitRefused(r)
        BY <1>3, <3>4 DEF SendCommit, CommitDone, CommitRefused, Phase
      <3>5. CASE Refresh(r) \/ RefreshFindsNothing(r) \/ Rollback(r) \/ Emit(r)
        BY <1>3, <3>5 DEF Refresh, RefreshFindsNothing, Rollback, Emit, Phase
      <3>. QED
        BY <2>2, <3>1, <3>2, <3>3, <3>4, <3>5 DEF HandlerStep
    <2>3. CASE Fault(r)
      BY <1>3, <2>3 DEF Fault, EmitEscapes, StatementFails, LoseConnection, Crash, Phase
    <2>4. CASE ServerStep(r)
      BY <1>3, <2>4 DEF ServerStep, ServerCommits, ServerRefuses, ServerReaps, Reap
    <2>. QED
      BY <1>3, <2>1, <2>2, <2>3, <2>4 DEF Step
  <1>. QED
    BY <1>1, <1>2, <1>3 DEF RInv, Next

-----------------------------------------------------------------------------
(* What a step means to the abstract request.                              *)

\* r has the same verdict and the same answer.
Kept(r) == VerdictOf(r)' = VerdictOf(r) /\ AnswerOf(r)' = AnswerOf(r)

\* r's client gets an answer that fits the verdict.
Told(r) ==
    /\ AnswerOf(r) = "none"
    /\ VerdictOf(r)' = VerdictOf(r)
    /\ AnswerOf(r)' \in {"ok", "not_found", "conflict", "error"}
    /\ Atomic!Fits(VerdictOf(r), AnswerOf(r)')

\* r, which has had no effect, fails, and may tell.
Failed(r) ==
    /\ VerdictOf(r) \in {"open", "served", "missing", "refused"}
    /\ VerdictOf(r)' = "failed"
    /\ \/ AnswerOf(r)' = AnswerOf(r)
       \/ AnswerOf(r) = "none" /\ AnswerOf(r)' = "error"

\* r settles with verdict v.
Settled(r, v) ==
    /\ VerdictOf(r) = "open"
    /\ VerdictOf(r)' = v
    /\ AnswerOf(r)' = AnswerOf(r)

\* A step of r leaves what the mapping says of other requests.
Alone(r) ==
    /\ AbstractAsk' = AbstractAsk
    /\ \A s \in Requests \ {r} : Kept(s) /\ AbstractMade'[s] = AbstractMade[s]

LEMMA StepAlone ==
    ASSUME RInv, NEW r \in Requests, Step(r)
    PROVE  Alone(r)
  <1>. USE DEF RInv, IInv, TypeOK, Await, Answer, dbVars, Id
  <1>1. \A s \in Requests \ {r} : /\ pc'[s] = pc[s] /\ tx'[s] = tx[s]
                                  /\ call'[s] = call[s] /\ outcome'[s] = outcome[s]
    <2>1. CASE Receive(r)
      BY <2>1 DEF Receive
    <2>2. CASE HandlerStep(r)
      BY <2>2 DEF HandlerStep, Get, SelectNothing, SelectForUpdate, SelectOutOfRange,
                  Insert, InsertAt, InsertWithoutId, FlushChange, FlushConflict,
                  SendCommit, CommitDone, CommitRefused, Refresh,
                  RefreshFindsNothing, Rollback, Emit
    <2>3. CASE Fault(r)
      BY <2>3 DEF Fault, EmitEscapes, StatementFails, LoseConnection, Crash
    <2>4. CASE ServerStep(r)
      BY <2>4 DEF ServerStep, ServerCommits, ServerRefuses, ServerReaps, Reap
    <2>. QED
      BY <2>1, <2>2, <2>3, <2>4 DEF Step
  <1>2. /\ call'[r].op = call[r].op /\ call'[r].patch = call[r].patch
        /\ call[r].op # "create" => call'[r] = call[r]
    <2>1. CASE call' = call
      BY <2>1
    <2>2. CASE Insert(r)
      BY <2>2 DEF Insert, InsertAt
    <2>3. call' = call \/ Insert(r)
      BY DEF Step, Receive, HandlerStep, Get, SelectNothing, SelectForUpdate,
             SelectOutOfRange, InsertWithoutId, FlushChange, FlushConflict,
             SendCommit, CommitDone, CommitRefused, Refresh,
             RefreshFindsNothing, Rollback, Emit, Fault, EmitEscapes,
             StatementFails, LoseConnection, Crash, ServerStep, ServerCommits,
             ServerRefuses, ServerReaps, Reap
    <2>. QED
      BY <2>1, <2>2, <2>3
  <1>3. AbstractAsk' = AbstractAsk
    BY <1>1, <1>2 DEF AbstractAsk
  <1>4. ASSUME NEW s \in Requests \ {r}
        PROVE  Kept(s) /\ AbstractMade'[s] = AbstractMade[s]
    BY <1>1, <1>4 DEF Kept, VerdictOf, AnswerOf, Gone, AbstractMade
  <1>. QED
    BY <1>3, <1>4 DEF Alone

-----------------------------------------------------------------------------
(* From one request to the abstract state.                                 *)

LEMMA LiftKept ==
    ASSUME NEW r \in Requests, Alone(r), Kept(r), UNCHANGED table,
           AbstractMade' = AbstractMade
    PROVE  UNCHANGED Atomic!avars
  BY DEF Alone, Kept, Atomic!avars

LEMMA LiftTold ==
    ASSUME NEW r \in Requests, Alone(r), Told(r), UNCHANGED table,
           AbstractMade' = AbstractMade
    PROVE  Atomic!Tell(r)
  BY DEF Alone, Kept, Told, Atomic!Tell

LEMMA LiftFailed ==
    ASSUME NEW r \in Requests, Alone(r), Failed(r), UNCHANGED table,
           AbstractMade' = AbstractMade
    PROVE  Atomic!Fail(r)
  BY DEF Alone, Kept, Failed, Atomic!Fail

LEMMA LiftSettled ==
    ASSUME NEW r \in Requests, Alone(r), NEW op, NEW v, Settled(r, v),
           call[r].op = op
    PROVE  Atomic!Settle(r, op, v)
  BY DEF Alone, Kept, Settled, Atomic!Settle, AbstractAsk

-----------------------------------------------------------------------------
(* Every step but Get, SelectNothing, FlushConflict and ServerCommits.     *)

Unsettling(r) == Kept(r) \/ Told(r) \/ Failed(r)

LEMMA Reading ==
    ASSUME RInv, NEW r \in Requests,
           Receive(r) \/ SelectForUpdate(r) \/ SelectOutOfRange(r)
    PROVE  Unsettling(r)
  <1>. USE DEF RInv, IInv, TypeOK, Phase, Placed, Await, Answer, dbVars,
               Unsettling, Kept, Told, Failed, VerdictOf, AnswerOf, Gone
  <1>1. CASE Receive(r)
    BY <1>1 DEF Receive
  <1>2. CASE SelectForUpdate(r)
    BY <1>2 DEF SelectForUpdate
  <1>3. CASE SelectOutOfRange(r)
    BY <1>3 DEF SelectOutOfRange
  <1>. QED
    BY <1>1, <1>2, <1>3

LEMMA Writing ==
    ASSUME RInv, NEW r \in Requests,
           \/ Insert(r) \/ InsertWithoutId(r) \/ FlushChange(r) \/ SendCommit(r)
           \/ CommitDone(r) \/ CommitRefused(r) \/ Refresh(r) \/ RefreshFindsNothing(r)
    PROVE  Kept(r)
  <1>. USE DEF RInv, IInv, TypeOK, Phase, Placed, Await, Answer, dbVars,
               Kept, VerdictOf, AnswerOf, Gone
  <1>1. CASE Insert(r)
    BY <1>1 DEF Insert, InsertAt
  <1>2. CASE InsertWithoutId(r)
    BY <1>2 DEF InsertWithoutId
  <1>3. CASE FlushChange(r)
    BY <1>3 DEF FlushChange
  <1>4. CASE SendCommit(r)
    BY <1>4 DEF SendCommit
  <1>5. CASE CommitDone(r)
    BY <1>5 DEF CommitDone
  <1>6. CASE CommitRefused(r)
    BY <1>6 DEF CommitRefused
  <1>7. CASE Refresh(r)
    BY <1>7 DEF Refresh
  <1>8. CASE RefreshFindsNothing(r)
    BY <1>8 DEF RefreshFindsNothing
  <1>. QED
    BY <1>1, <1>2, <1>3, <1>4, <1>5, <1>6, <1>7, <1>8

LEMMA Ending ==
    ASSUME RInv, NEW r \in Requests, Rollback(r) \/ Emit(r) \/ EmitEscapes(r)
    PROVE  Unsettling(r)
  <1>. USE DEF RInv, IInv, TypeOK, Phase, Placed, Await, Answer, dbVars, Ops, TxStates,
               Unsettling, Kept, Told, Failed, VerdictOf, AnswerOf, Gone, Atomic!Fits
  <1>1. CASE Rollback(r)
    BY <1>1 DEF Rollback
  <1>2. CASE Emit(r)
    BY <1>2 DEF Emit
  <1>3. CASE EmitEscapes(r)
    BY <1>3 DEF EmitEscapes
  <1>. QED
    BY <1>1, <1>2, <1>3

LEMMA Failing ==
    ASSUME RInv, NEW r \in Requests,
           \/ StatementFails(r) \/ LoseConnection(r) \/ Crash(r)
           \/ ServerRefuses(r) \/ ServerReaps(r)
    PROVE  Unsettling(r)
  <1>. USE DEF RInv, IInv, TypeOK, Phase, Placed, Await, Answer, dbVars, TxStates, Outcomes, PCs,
               Unsettling, Kept, Told, Failed, VerdictOf, AnswerOf, Gone, Atomic!Fits
  <1>1. CASE StatementFails(r)
    BY <1>1 DEF StatementFails
  <1>2. CASE LoseConnection(r)
    BY <1>2 DEF LoseConnection
  <1>3. CASE Crash(r)
    BY <1>3 DEF Crash
  <1>4. CASE ServerRefuses(r)
    BY <1>4 DEF ServerRefuses
  <1>5. CASE ServerReaps(r)
    BY <1>5 DEF ServerReaps, Reap
  <1>. QED
    BY <1>1, <1>2, <1>3, <1>4, <1>5

-----------------------------------------------------------------------------
(* The steps that settle a request.                                        *)

\* Only a commit of a create gives an abstract request its id.
LEMMA MadeAtCommit ==
    ASSUME RInv, NEW r \in Requests, Step(r), ~ ServerCommits(r)
    PROVE  AbstractMade' = AbstractMade
  <1>. USE DEF RInv, IInv, TypeOK, Await, Answer, dbVars
  <1>1. /\ call'[r].op = call[r].op
        /\ tx'[r] = "committed" <=> tx[r] = "committed"
        /\ tx[r] = "committed" => Id(r)' = Id(r)
    <2>1. CASE Receive(r)
      BY <2>1 DEF Receive, Id
    <2>2. CASE HandlerStep(r)
      BY <2>2 DEF HandlerStep, Get, SelectNothing, SelectForUpdate, SelectOutOfRange,
                  Insert, InsertAt, InsertWithoutId, FlushChange, FlushConflict,
                  SendCommit, CommitDone, CommitRefused, Refresh,
                  RefreshFindsNothing, Rollback, Emit, Phase, Id
    <2>3. CASE Fault(r)
      BY <2>3 DEF Fault, EmitEscapes, StatementFails, LoseConnection, Crash, Id
    <2>4. CASE ServerRefuses(r) \/ ServerReaps(r)
      BY <2>4 DEF ServerRefuses, ServerReaps, Reap, Id
    <2>. QED
      BY <2>1, <2>2, <2>3, <2>4 DEF Step, ServerStep
  <1>2. AbstractMade'[r] = AbstractMade[r]
    BY <1>1 DEF AbstractMade
  <1>. QED
    BY <1>2, StepAlone DEF Alone, AbstractMade

LEMMA Reads ==
    ASSUME RInv, NEW r \in Requests, Alone(r), Get(r) \/ SelectNothing(r),
           AbstractMade' = AbstractMade
    PROVE  Atomic!Serve(r) \/ Atomic!Miss(r)
  <1>. USE DEF RInv, IInv, TypeOK, Phase, Await, Answer, dbVars
  <1>1. Atomic!Exists(AbstractAsk[r].id) <=> table[Id(r)] # NoRow
    BY DEF Get, SelectNothing, Atomic!Exists, Atomic!TodoIds, AbstractAsk, Id, Ids
  <1>2. CASE table[Id(r)] # NoRow
    <2>1. Get(r)
      BY <1>2 DEF SelectNothing
    <2>2. Settled(r, "served")
      BY <1>2, <2>1 DEF Get, Settled, VerdictOf, AnswerOf, Gone
    <2>3. Atomic!Settle(r, "get", "served")
      BY <2>1, <2>2, LiftSettled DEF Get
    <2>. QED
      BY <1>1, <1>2, <2>1, <2>3 DEF Atomic!Serve, Get
  <1>3. CASE table[Id(r)] = NoRow
    <2>1. Settled(r, "missing")
      BY <1>3 DEF Get, SelectNothing, Settled, VerdictOf, AnswerOf, Gone
    <2>2. call[r].op \in {"get", "update", "delete"}
      BY DEF Get, SelectNothing
    <2>3. \E op \in {"get", "update", "delete"} : Atomic!Settle(r, op, "missing")
      BY <2>1, <2>2, LiftSettled
    <2>. QED
      BY <1>1, <1>3, <2>3 DEF Atomic!Miss, Get, SelectNothing
  <1>. QED
    BY <1>2, <1>3

LEMMA Refuses ==
    ASSUME RInv, NEW r \in Requests, Alone(r), FlushConflict(r),
           AbstractMade' = AbstractMade
    PROVE  Atomic!Refuse(r)
  <1>. USE DEF RInv, IInv, TypeOK, Phase, Await, Answer, dbVars
  <1>1. Settled(r, "refused")
    BY DEF FlushConflict, Settled, VerdictOf, AnswerOf, Gone
  <1>2. Atomic!Settle(r, "update", "refused")
    BY <1>1, LiftSettled DEF FlushConflict
  <1>3. Atomic!Exists(AbstractAsk[r].id)
    BY DEF FlushConflict, Atomic!Exists, Atomic!TodoIds, AbstractAsk, Ids, Id,
           LoadedRowIsCurrent, Writes, Numbering
  <1>4. Atomic!Breaks(AbstractAsk[r].patch)
    BY DEF FlushConflict, Atomic!Breaks, AbstractAsk, BreaksNotNull, NetChange
  <1>. QED
    BY <1>2, <1>3, <1>4 DEF Atomic!Refuse, FlushConflict

LEMMA Commits ==
    ASSUME RInv, NEW r \in Requests, Alone(r), ServerCommits(r)
    PROVE  Atomic!Create(r) \/ Atomic!Update(r) \/ Atomic!Delete(r)
  <1>. USE DEF RInv, IInv, TypeOK
  <1>1. /\ Id(r) \in Ids
        /\ call[r].op \in {"create", "update", "delete"}
        /\ call[r].op \in {"create", "update"} => Written(r) \in StoredRows
        /\ call[r].op = "delete" => Written(r) = NoRow
        /\ call[r].op = "update" => Written(r) = Overlay(table[Id(r)], call[r].patch)
    BY WrittenRow DEF ServerCommits
  <1>2. table' = [table EXCEPT ![Id(r)] = Written(r)]
    BY DEF ServerCommits
  <1>3. Settled(r, "applied")
    BY <1>1 DEF ServerCommits, Settled, VerdictOf, AnswerOf, Gone, Phase
  <1>4. CASE call[r].op = "create"
    <2>1. Atomic!Settle(r, "create", "applied")
      BY <1>3, <1>4, LiftSettled
    <2>2. Id(r) \in Atomic!TodoIds /\ Id(r) > Len(Seeded)
      BY <1>1, <1>4, SeededAssumption DEF Atomic!TodoIds, Ids, Placed
    <2>3. \A s \in Requests : AbstractMade[s] # Id(r)
      <3>1. AbstractMade[r] # Id(r)
        BY <2>2, SeededAssumption DEF AbstractMade, ServerCommits
      <3>2. ASSUME NEW s \in Requests \ {r} PROVE AbstractMade[s] # Id(r)
        BY <1>1, <1>4, <3>2, MaxIdAssumption DEF AbstractMade, Numbering, Ids
      <3>. QED
        BY <3>1, <3>2
    <2>4. AbstractMade' = [AbstractMade EXCEPT ![r] = Id(r)]
      BY <1>4 DEF Alone, AbstractMade, ServerCommits, Id
    <2>5. table' = [table EXCEPT ![Id(r)] = AbstractAsk[r].patch]
      BY <1>2, <1>4 DEF Written, AbstractAsk
    <2>. QED
      BY <2>1, <2>2, <2>3, <2>4, <2>5 DEF Atomic!Create
  <1>5. ASSUME call[r].op # "create" PROVE UNCHANGED AbstractMade /\ AbstractAsk[r].id = Id(r)
    BY <1>5 DEF Alone, AbstractMade, ServerCommits, Id, AbstractAsk
  <1>6. CASE call[r].op = "update"
    <2>1. Atomic!Settle(r, "update", "applied")
      BY <1>3, <1>6, LiftSettled
    <2>2. table[Id(r)] # NoRow /\ table[Id(r)] = loaded[r]
      BY <1>6 DEF LoadedRowIsCurrent, Writes, ServerCommits
    <2>3. Atomic!Exists(AbstractAsk[r].id)
      BY <1>1, <1>5, <1>6, <2>2 DEF Atomic!Exists, Atomic!TodoIds, Ids
    <2>4. ~ Atomic!Breaks(AbstractAsk[r].patch)
      <3>1. ~ BreaksNotNull(loaded[r], call[r].patch)
        BY <1>6 DEF Phase, ServerCommits
      <3>2. loaded[r] \in StoredRows
        BY <2>2
      <3>3. call[r].patch \in PartialRows
        OBVIOUS
      <3>. QED
        BY <3>1, <3>2, <3>3
           DEF Atomic!Breaks, AbstractAsk, BreaksNotNull, NetChange, StoredRows, PartialRows
    <2>5. Atomic!Patched(table[Id(r)], AbstractAsk[r].patch) = Written(r)
      BY <1>1, <1>6 DEF Atomic!Patched, AbstractAsk, Overlay
    <2>. QED
      BY <1>1, <1>2, <1>5, <1>6, <2>1, <2>3, <2>4, <2>5 DEF Atomic!Update
  <1>7. CASE call[r].op = "delete"
    <2>1. Atomic!Settle(r, "delete", "applied")
      BY <1>3, <1>7, LiftSettled
    <2>2. Atomic!Exists(AbstractAsk[r].id)
      BY <1>1, <1>5, <1>7 DEF Atomic!Exists, Atomic!TodoIds, Ids,
         LoadedRowIsCurrent, Writes, ServerCommits
    <2>. QED
      BY <1>1, <1>2, <1>5, <1>7, <2>1, <2>2 DEF Atomic!Delete
  <1>. QED
    BY <1>1, <1>4, <1>6, <1>7

-----------------------------------------------------------------------------

LEMMA StepMaps ==
    ASSUME RInv, NEW r \in Requests, Step(r)
    PROVE  [Atomic!ANext]_(Atomic!avars)
  <1>1. Alone(r)
    BY StepAlone
  <1>2. CASE ServerCommits(r)
    BY <1>1, <1>2, Commits DEF Atomic!ANext
  <1>3. CASE ~ ServerCommits(r)
    <2>1. AbstractMade' = AbstractMade
      BY <1>3, MadeAtCommit
    <2>2. CASE Get(r) \/ SelectNothing(r)
      BY <1>1, <2>1, <2>2, Reads DEF Atomic!ANext
    <2>3. CASE FlushConflict(r)
      BY <1>1, <2>1, <2>3, Refuses DEF Atomic!ANext
    <2>4. CASE ~ (Get(r) \/ SelectNothing(r) \/ FlushConflict(r))
      <3>1. UNCHANGED table
        BY <1>3 DEF Step, Receive, HandlerStep, Get, SelectNothing, SelectForUpdate,
               SelectOutOfRange, Insert, InsertAt, InsertWithoutId, FlushChange,
               FlushConflict, SendCommit, CommitDone, CommitRefused, Refresh,
               RefreshFindsNothing, Rollback, Emit, Fault, EmitEscapes,
               StatementFails, LoseConnection, Crash, ServerStep,
               ServerRefuses, ServerReaps, Reap, dbVars
      <3>2. Unsettling(r)
        BY <1>3, <2>4, Reading, Writing, Ending, Failing
           DEF Unsettling, Step, HandlerStep, Fault, ServerStep
      <3>. QED
        BY <1>1, <2>1, <3>1, <3>2, LiftKept, LiftTold, LiftFailed
           DEF Unsettling, Atomic!ANext
    <2>. QED
      BY <2>2, <2>3, <2>4
  <1>. QED
    BY <1>2, <1>3

LEMMA InitMaps == Init => Atomic!AInit
  <1>. SUFFICES ASSUME Init PROVE Atomic!AInit
    OBVIOUS
  <1>1. AbstractAsk \in [Requests -> Calls]
    BY CallsAssumption DEF Init, AbstractAsk, Id
  <1>2. table = [i \in Atomic!TodoIds |-> IF i <= Len(Seeded) THEN Seeded[i] ELSE NoRow]
    BY DEF Init, Atomic!TodoIds, Ids
  <1>3. AbstractMade = [r \in Requests |-> 0]
    BY DEF Init, AbstractMade
  <1>4. \A r \in Requests : VerdictOf(r) = "open" /\ AnswerOf(r) = "none"
    BY DEF Init, VerdictOf, AnswerOf, Gone
  <1>. QED
    BY <1>1, <1>2, <1>3, <1>4 DEF Atomic!AInit

\* Whatever requests interleave and whatever fails, the API behaves like one
\* whose requests each take effect at one instant, on the todos as they are at
\* that instant, and at most once.
THEOREM Implementation == Spec => ImplementsAtomicTodos
  <1>1. RInv /\ [Next]_vars => [Atomic!ANext]_(Atomic!avars)
    <2>. SUFFICES ASSUME RInv, [Next]_vars PROVE [Atomic!ANext]_(Atomic!avars)
      OBVIOUS
    <2>1. CASE UNCHANGED vars
      BY <2>1 DEF vars, Atomic!avars, AbstractAsk, AbstractMade, VerdictOf,
                  AnswerOf, Gone, Id
    <2>2. CASE Next
      BY <2>2, StepMaps DEF Next
    <2>. QED
      BY <2>1, <2>2
  <1>. QED
    BY <1>1, InitMaps, InitRInv, NextRInv, PTL
       DEF Spec, ImplementsAtomicTodos, Atomic!ASpec
=============================================================================
