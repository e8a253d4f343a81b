-------------------------- MODULE TodoStoreProofs --------------------------
(* Proofs about TodoStore, for any number of requests, ids, columns and     *)
(* values, any calls and any faults.                                        *)
EXTENDS TodoStore, TLAPS

-----------------------------------------------------------------------------
(* Columns.                                                                *)

\* A patch that breaks no NOT NULL column turns a storable row into one.
LEMMA OverlayType ==
    ASSUME NEW row \in StoredRows, NEW patch \in PartialRows,
           ~ BreaksNotNull(row, patch)
    PROVE  Overlay(row, NetChange(row, patch)) \in StoredRows
  <1>1. PICK D \in SUBSET Fields : patch \in [D -> Values \cup {Null}]
    BY DEF PartialRows
  <1>2. row \in Rows /\ \A f \in Required : row[f] # Null
    BY DEF StoredRows
  <1>. DEFINE o == Overlay(row, NetChange(row, patch))
  <1>3. o \in Rows
    BY <1>1, <1>2 DEF Rows, Overlay, NetChange
  <1>4. ASSUME NEW f \in Required PROVE o[f] # Null
    BY <1>1, <1>2, <1>4, FieldsAssumption DEF Overlay, NetChange, BreaksNotNull
  <1>. QED
    BY <1>3, <1>4 DEF StoredRows

\* Writing only the attributes that changed has the effect of writing the
\* whole patch, when the row is still the one that was loaded.
LEMMA NetChangeSuffices ==
    ASSUME NEW row \in StoredRows, NEW patch \in PartialRows
    PROVE  Overlay(row, NetChange(row, patch)) = Overlay(row, patch)
  <1>1. PICK D \in SUBSET Fields : patch \in [D -> Values \cup {Null}]
    BY DEF PartialRows
  <1>. QED
    BY <1>1 DEF Overlay, NetChange, StoredRows, Rows

-----------------------------------------------------------------------------
(* Types.                                                                  *)

LEMMA InitType == Init => TypeOK
  <1>. SUFFICES ASSUME Init PROVE TypeOK
    OBVIOUS
  <1>1. table \in [Ids -> StoredRows \cup {NoRow}]
    BY SeededAssumption, MaxIdAssumption DEF Init, Ids
  <1>2. nextId \in 1 .. MaxId + 1
    BY SeededAssumption, MaxIdAssumption DEF Init
  <1>3. call \in [Requests -> [op : Ops, id : Nat, patch : PartialRows]]
    BY CallsAssumption DEF Init
  <1>4. \A r \in Requests : call[r].op = "create" => call[r].patch \in StoredRows
    BY CallsAssumption DEF Init
  <1>. QED
    BY <1>1, <1>2, <1>3, <1>4 DEF Init, TypeOK, TxStates, PCs, Outcomes

\* What a commit writes: a storable row for a create and an update, whose net
\* change is taken on the row the table still holds; nothing for a delete.
LEMMA WrittenRow ==
    ASSUME IInv, NEW r \in Requests, tx[r] = "sent"
    PROVE  /\ Id(r) \in Ids
           /\ call[r].op \in {"create", "update", "delete"}
           /\ call[r].op \in {"create", "update"} => Written(r) \in StoredRows
           /\ call[r].op = "delete" => Written(r) = NoRow
           /\ call[r].op = "update" => Written(r) = Overlay(table[Id(r)], call[r].patch)
  <1>. USE DEF IInv, TypeOK, Id
  <1>1. Id(r) \in Ids /\ call[r].op \in {"create", "update", "delete"}
    BY DEF Phase, Numbering, Writes, Ops
  <1>2. CASE call[r].op = "create"
    BY <1>1, <1>2 DEF Written
  <1>3. CASE call[r].op = "update"
    <2>1. ~ BreaksNotNull(loaded[r], call[r].patch)
      BY <1>3 DEF Phase
    <2>2. table[Id(r)] = loaded[r] /\ loaded[r] \in StoredRows
      BY <1>3 DEF LoadedRowIsCurrent, Writes
    <2>. QED
      <3>1. table[Id(r)] # NoRow
        BY <1>3 DEF LoadedRowIsCurrent, Writes
      <3>2. Written(r) = Overlay(table[Id(r)], NetChange(loaded[r], call[r].patch))
        BY <1>3, <3>1 DEF Written
      <3>. QED
        BY <1>1, <1>3, <2>1, <2>2, <3>2, OverlayType, NetChangeSuffices
  <1>4. CASE call[r].op = "delete"
    BY <1>1, <1>4 DEF Written
  <1>. QED
    BY <1>1, <1>2, <1>3, <1>4

\* A storable row is not NoRow.
LEMMA StoredIsRow == NoRow \notin StoredRows
  BY NullAssumption DEF StoredRows

\* Every step keeps the types.
LEMMA TypeStep ==
    ASSUME IInv, NEW r \in Requests, Step(r)
    PROVE  TypeOK'
  <1>. USE DEF IInv, TypeOK, Await, Answer, dbVars, Id, PCs, TxStates, Outcomes, Unlock
  <1>1. CASE Receive(r)
    BY <1>1 DEF Receive
  <1>2. CASE Get(r)
    BY <1>2 DEF Get
  <1>3. CASE SelectNothing(r)
    BY <1>3 DEF SelectNothing
  <1>4. CASE SelectForUpdate(r)
    BY <1>4 DEF SelectForUpdate
  <1>5. CASE SelectOutOfRange(r)
    BY <1>5 DEF SelectOutOfRange
  <1>6. CASE Insert(r)
    <2>1. nextId' \in 1 .. MaxId + 1
      BY <1>6, MaxIdAssumption DEF Insert, InsertAt, Ids
    <2>2. call' \in [Requests -> [op : Ops, id : Nat, patch : PartialRows]]
      BY <1>6 DEF Insert, InsertAt, Ids
    <2>3. \A s \in Requests : call'[s].op = "create" => call'[s].patch \in StoredRows
      BY <1>6 DEF Insert, InsertAt
    <2>. QED
      BY <1>6, <2>1, <2>2, <2>3 DEF Insert, InsertAt
  <1>7. CASE InsertWithoutId(r)
    BY <1>7 DEF InsertWithoutId
  <1>8. CASE FlushChange(r)
    BY <1>8 DEF FlushChange
  <1>9. CASE FlushConflict(r)
    BY <1>9 DEF FlushConflict
  <1>10. CASE SendCommit(r)
    BY <1>10 DEF SendCommit
  <1>11. CASE CommitDone(r)
    BY <1>11 DEF CommitDone
  <1>12. CASE CommitRefused(r)
    BY <1>12 DEF CommitRefused
  <1>13. CASE Refresh(r)
    BY <1>13 DEF Refresh, Phase, Numbering, Ops, Writes
  <1>14. CASE RefreshFindsNothing(r)
    BY <1>14 DEF RefreshFindsNothing
  <1>15. CASE Rollback(r)
    BY <1>15 DEF Rollback
  <1>16. CASE Emit(r)
    BY <1>16 DEF Emit
  <1>17. CASE EmitEscapes(r)
    BY <1>17 DEF EmitEscapes
  <1>18. CASE StatementFails(r)
    BY <1>18 DEF StatementFails
  <1>19. CASE LoseConnection(r)
    BY <1>19 DEF LoseConnection
  <1>20. CASE Crash(r)
    BY <1>20 DEF Crash
  <1>21. CASE ServerCommits(r)
    <2>1. table' \in [Ids -> StoredRows \cup {NoRow}]
      BY <1>21, WrittenRow DEF ServerCommits
    <2>. QED
      BY <1>21, <2>1 DEF ServerCommits
  <1>22. CASE ServerRefuses(r)
    BY <1>22 DEF ServerRefuses
  <1>23. CASE ServerReaps(r)
    BY <1>23 DEF ServerReaps, Reap
  <1>. QED
    BY <1>1, <1>2, <1>3, <1>4, <1>5, <1>6, <1>7, <1>8, <1>9, <1>10, <1>11, <1>12,
       <1>13, <1>14, <1>15, <1>16, <1>17, <1>18, <1>19, <1>20, <1>21, <1>22, <1>23
       DEF Step, HandlerStep, Fault, ServerStep

-----------------------------------------------------------------------------
(* The parts of the inductive invariant, step by step.                     *)

\* Locks: taken by the opening statement, dropped with the transaction.
LEMMA LockStep ==
    ASSUME IInv, NEW r \in Requests, Step(r)
    PROVE  LocksHaveOwners'
  <1>. USE DEF IInv, TypeOK, Await, Answer, dbVars, Id, Unlock, LocksHaveOwners, Phase, Numbering, Writes
  <1>1. CASE Receive(r)
    BY <1>1 DEF Receive
  <1>2. CASE Get(r)
    BY <1>2 DEF Get
  <1>3. CASE SelectNothing(r)
    BY <1>3 DEF SelectNothing
  <1>4. CASE SelectForUpdate(r)
    BY <1>4 DEF SelectForUpdate
  <1>5. CASE SelectOutOfRange(r)
    BY <1>5 DEF SelectOutOfRange
  <1>6. CASE Insert(r)
    BY <1>6 DEF Insert, InsertAt
  <1>7. CASE InsertWithoutId(r)
    BY <1>7 DEF InsertWithoutId
  <1>8. CASE FlushChange(r)
    BY <1>8 DEF FlushChange
  <1>9. CASE FlushConflict(r)
    BY <1>9 DEF FlushConflict
  <1>10. CASE SendCommit(r)
    BY <1>10 DEF SendCommit
  <1>11. CASE CommitDone(r)
    BY <1>11 DEF CommitDone
  <1>12. CASE CommitRefused(r)
    BY <1>12 DEF CommitRefused
  <1>13. CASE Refresh(r)
    BY <1>13 DEF Refresh
  <1>14. CASE RefreshFindsNothing(r)
    BY <1>14 DEF RefreshFindsNothing
  <1>15. CASE Rollback(r)
    BY <1>15 DEF Rollback
  <1>16. CASE Emit(r)
    BY <1>16 DEF Emit
  <1>17. CASE EmitEscapes(r)
    BY <1>17 DEF EmitEscapes
  <1>18. CASE StatementFails(r)
    BY <1>18 DEF StatementFails
  <1>19. CASE LoseConnection(r)
    BY <1>19 DEF LoseConnection
  <1>20. CASE Crash(r)
    BY <1>20 DEF Crash
  <1>21. CASE ServerCommits(r)
    BY <1>21 DEF ServerCommits
  <1>22. CASE ServerRefuses(r)
    BY <1>22 DEF ServerRefuses
  <1>23. CASE ServerReaps(r)
    BY <1>23 DEF ServerReaps, Reap
  <1>. QED
    BY <1>1, <1>2, <1>3, <1>4, <1>5, <1>6, <1>7, <1>8, <1>9, <1>10, <1>11, <1>12,
       <1>13, <1>14, <1>15, <1>16, <1>17, <1>18, <1>19, <1>20, <1>21, <1>22, <1>23
       DEF Step, HandlerStep, Fault, ServerStep

\* Nobody writes a row that is locked but the lock's owner.
LEMMA LoadedStep ==
    ASSUME IInv, NEW r \in Requests, Step(r)
    PROVE  LoadedRowIsCurrent'
  <1>. USE DEF IInv, TypeOK, Await, Answer, dbVars, Id, Unlock,
               LocksHaveOwners, LoadedRowIsCurrent, Phase, Numbering, Writes
  <1>1. CASE Receive(r)
    BY <1>1 DEF Receive
  <1>2. CASE Get(r)
    BY <1>2 DEF Get
  <1>3. CASE SelectNothing(r)
    BY <1>3 DEF SelectNothing
  <1>4. CASE SelectForUpdate(r)
    <2>. SUFFICES ASSUME NEW s \in Requests,
                         tx'[s] \in {"open", "sent"}, call'[s].op \in Writes
                  PROVE  /\ lock'[Id(s)] = s
                         /\ table'[Id(s)] # NoRow
                         /\ table'[Id(s)] = loaded'[s]
      BY <1>4 DEF SelectForUpdate
    <2>1. CASE s = r
      BY <1>4, <2>1 DEF SelectForUpdate
    <2>2. CASE s # r
      BY <1>4, <2>2, NullAssumption DEF SelectForUpdate
    <2>. QED
      BY <2>1, <2>2
  <1>5. CASE SelectOutOfRange(r)
    BY <1>5 DEF SelectOutOfRange
  <1>6. CASE Insert(r)
    BY <1>6 DEF Insert, InsertAt
  <1>7. CASE InsertWithoutId(r)
    BY <1>7 DEF InsertWithoutId
  <1>8. CASE FlushChange(r)
    BY <1>8 DEF FlushChange
  <1>9. CASE FlushConflict(r)
    BY <1>9 DEF FlushConflict
  <1>10. CASE SendCommit(r)
    BY <1>10 DEF SendCommit
  <1>11. CASE CommitDone(r)
    BY <1>11 DEF CommitDone
  <1>12. CASE CommitRefused(r)
    BY <1>12 DEF CommitRefused
  <1>13. CASE Refresh(r)
    BY <1>13 DEF Refresh
  <1>14. CASE RefreshFindsNothing(r)
    BY <1>14 DEF RefreshFindsNothing
  <1>15. CASE Rollback(r)
    BY <1>15 DEF Rollback
  <1>16. CASE Emit(r)
    BY <1>16 DEF Emit
  <1>17. CASE EmitEscapes(r)
    BY <1>17 DEF EmitEscapes
  <1>18. CASE StatementFails(r)
    BY <1>18 DEF StatementFails
  <1>19. CASE LoseConnection(r)
    BY <1>19 DEF LoseConnection
  <1>20. CASE Crash(r)
    BY <1>20 DEF Crash
  <1>21. CASE ServerCommits(r)
    <2>. SUFFICES ASSUME NEW s \in Requests,
                         tx'[s] \in {"open", "sent"}, call'[s].op \in Writes
                  PROVE  /\ lock'[Id(s)] = s
                         /\ table'[Id(s)] # NoRow
                         /\ table'[Id(s)] = loaded'[s]
      BY <1>21 DEF ServerCommits
    <2>1. s # r /\ lock[Id(s)] = s /\ table[Id(s)] # NoRow /\ table[Id(s)] = loaded[s]
      BY <1>21 DEF ServerCommits
    <2>2. Id(s) \in Ids
      BY <1>21, <2>1 DEF ServerCommits
    <2>3. Id(s) # Id(r)
      <3>1. CASE call[r].op = "create"
        BY <1>21, <3>1, <2>1, WrittenRow DEF ServerCommits, Ids
      <3>2. CASE call[r].op # "create"
        BY <1>21, <3>2, <2>1, WrittenRow DEF ServerCommits
      <3>. QED
        BY <3>1, <3>2
    <2>. QED
      BY <1>21, <2>1, <2>2, <2>3 DEF ServerCommits
  <1>22. CASE ServerRefuses(r)
    BY <1>22 DEF ServerRefuses
  <1>23. CASE ServerReaps(r)
    BY <1>23 DEF ServerReaps, Reap
  <1>. QED
    BY <1>1, <1>2, <1>3, <1>4, <1>5, <1>6, <1>7, <1>8, <1>9, <1>10, <1>11, <1>12,
       <1>13, <1>14, <1>15, <1>16, <1>17, <1>18, <1>19, <1>20, <1>21, <1>22, <1>23
       DEF Step, HandlerStep, Fault, ServerStep

\* Handlers and transactions move together.
LEMMA PhaseStep ==
    ASSUME IInv, NEW r \in Requests, Step(r)
    PROVE  (\A s \in Requests : Phase(s))'
  <1>. USE DEF IInv, TypeOK, Await, Answer, dbVars, Id, Unlock, Phase, Writes
  <1>1. CASE Receive(r)
    BY <1>1 DEF Receive
  <1>2. CASE Get(r)
    BY <1>2 DEF Get
  <1>3. CASE SelectNothing(r)
    BY <1>3 DEF SelectNothing
  <1>4. CASE SelectForUpdate(r)
    BY <1>4 DEF SelectForUpdate
  <1>5. CASE SelectOutOfRange(r)
    BY <1>5 DEF SelectOutOfRange
  <1>6. CASE Insert(r)
    BY <1>6 DEF Insert, InsertAt
  <1>7. CASE InsertWithoutId(r)
    BY <1>7 DEF InsertWithoutId
  <1>8. CASE FlushChange(r)
    BY <1>8 DEF FlushChange
  <1>9. CASE FlushConflict(r)
    BY <1>9 DEF FlushConflict
  <1>10. CASE SendCommit(r)
    BY <1>10 DEF SendCommit
  <1>11. CASE CommitDone(r)
    BY <1>11 DEF CommitDone
  <1>12. CASE CommitRefused(r)
    BY <1>12 DEF CommitRefused
  <1>13. CASE Refresh(r)
    BY <1>13 DEF Refresh
  <1>14. CASE RefreshFindsNothing(r)
    BY <1>14 DEF RefreshFindsNothing
  <1>15. CASE Rollback(r)
    BY <1>15 DEF Rollback
  <1>16. CASE Emit(r)
    BY <1>16 DEF Emit
  <1>17. CASE EmitEscapes(r)
    BY <1>17 DEF EmitEscapes
  <1>18. CASE StatementFails(r)
    BY <1>18 DEF StatementFails
  <1>19. CASE LoseConnection(r)
    BY <1>19 DEF LoseConnection
  <1>20. CASE Crash(r)
    BY <1>20 DEF Crash
  <1>21. CASE ServerCommits(r)
    BY <1>21 DEF ServerCommits
  <1>22. CASE ServerRefuses(r)
    BY <1>22 DEF ServerRefuses
  <1>23. CASE ServerReaps(r)
    BY <1>23 DEF ServerReaps, Reap
  <1>. QED
    BY <1>1, <1>2, <1>3, <1>4, <1>5, <1>6, <1>7, <1>8, <1>9, <1>10, <1>11, <1>12,
       <1>13, <1>14, <1>15, <1>16, <1>17, <1>18, <1>19, <1>20, <1>21, <1>22, <1>23
       DEF Step, HandlerStep, Fault, ServerStep

\* Ids are handed out once.
LEMMA NumberingStep ==
    ASSUME IInv, NEW r \in Requests, Step(r)
    PROVE  (\A s \in Requests : Numbering(s))'
  <1>. USE DEF IInv, TypeOK, Await, Answer, dbVars, Id, Unlock,
               Phase, Numbering, Writes, DeletedStaysGone, LoadedRowIsCurrent, Ids
  <1>1. CASE Receive(r)
    BY <1>1 DEF Receive
  <1>2. CASE Get(r)
    BY <1>2 DEF Get
  <1>3. CASE SelectNothing(r)
    BY <1>3 DEF SelectNothing
  <1>4. CASE SelectForUpdate(r)
    BY <1>4 DEF SelectForUpdate
  <1>5. CASE SelectOutOfRange(r)
    BY <1>5 DEF SelectOutOfRange
  <1>6. CASE Insert(r)
    BY <1>6 DEF Insert, InsertAt
  <1>7. CASE InsertWithoutId(r)
    BY <1>7 DEF InsertWithoutId
  <1>8. CASE FlushChange(r)
    BY <1>8 DEF FlushChange
  <1>9. CASE FlushConflict(r)
    BY <1>9 DEF FlushConflict
  <1>10. CASE SendCommit(r)
    BY <1>10 DEF SendCommit
  <1>11. CASE CommitDone(r)
    BY <1>11 DEF CommitDone
  <1>12. CASE CommitRefused(r)
    BY <1>12 DEF CommitRefused
  <1>13. CASE Refresh(r)
    BY <1>13 DEF Refresh
  <1>14. CASE RefreshFindsNothing(r)
    BY <1>14 DEF RefreshFindsNothing
  <1>15. CASE Rollback(r)
    BY <1>15 DEF Rollback
  <1>16. CASE Emit(r)
    BY <1>16 DEF Emit
  <1>17. CASE EmitEscapes(r)
    BY <1>17 DEF EmitEscapes
  <1>18. CASE StatementFails(r)
    BY <1>18 DEF StatementFails
  <1>19. CASE LoseConnection(r)
    BY <1>19 DEF LoseConnection
  <1>20. CASE Crash(r)
    BY <1>20 DEF Crash
  <1>21. CASE ServerCommits(r)
    <2>. SUFFICES ASSUME NEW s \in Requests PROVE Numbering(s)'
      OBVIOUS
    <2>1. Id(r) \in Ids /\ Id(r) # 0
      BY <1>21, WrittenRow DEF ServerCommits
    <2>2. /\ call' = call /\ nextId' = nextId /\ pc' = pc
          /\ tx'[r] = "committed" /\ tx[r] = "sent"
          /\ \A q \in Requests \ {r} : tx'[q] = tx[q]
          /\ \A i \in Ids \ {Id(r)} : table'[i] = table[i]
      BY <1>21 DEF ServerCommits
    <2>3. CASE s = r
      BY <2>1, <2>2, <2>3
    <2>4. CASE s # r /\ call[s].op = "create"
      <3>1. Id(s) # 0 /\ tx[s] # "committed" => Id(s) # Id(r)
        <4>1. CASE call[r].op = "create"
          BY <2>1, <2>4, <4>1
        <4>2. CASE call[r].op # "create"
          BY <1>21, <2>1, <2>4, <4>2, WrittenRow DEF ServerCommits
        <4>. QED
          BY <4>1, <4>2
      <3>2. Id(s) # 0 => Id(s) \in Ids
        BY <2>4, MaxIdAssumption
      <3>3. Id(s) # 0 /\ tx'[s] # "committed" => table'[Id(s)] = NoRow
        BY <2>2, <2>4, <3>1, <3>2
      <3>4. ASSUME NEW q \in Requests, call[q].op = "delete", tx'[q] = "committed",
                   Id(s) # 0, tx'[s] # "committed"
            PROVE  Id(q) # Id(s)
        <4>1. CASE q = r
          BY <2>2, <2>4, <3>1, <3>4, <4>1
        <4>2. CASE q # r
          BY <2>2, <2>4, <3>4, <4>2
        <4>. QED
          BY <4>1, <4>2
      <3>5. \A q \in Requests \ {s} : call[q].op = "create" /\ Id(q) = Id(s) => Id(s) = 0
        BY <2>4
      <3>. QED
        BY <2>2, <2>4, <3>3, <3>4, <3>5
    <2>5. CASE s # r /\ call[s].op # "create"
      BY <2>1, <2>2, <2>5
    <2>. QED
      BY <2>3, <2>4, <2>5
  <1>22. CASE ServerRefuses(r)
    BY <1>22 DEF ServerRefuses
  <1>23. CASE ServerReaps(r)
    BY <1>23 DEF ServerReaps, Reap
  <1>. QED
    BY <1>1, <1>2, <1>3, <1>4, <1>5, <1>6, <1>7, <1>8, <1>9, <1>10, <1>11, <1>12,
       <1>13, <1>14, <1>15, <1>16, <1>17, <1>18, <1>19, <1>20, <1>21, <1>22, <1>23
       DEF Step, HandlerStep, Fault, ServerStep

\* No todo has an id the sequence has yet to give.
LEMMA BoundStep ==
    ASSUME IInv, NEW r \in Requests, Step(r)
    PROVE  (\A i \in Ids : table[i] # NoRow => i < nextId)'
  <1>. USE DEF IInv, TypeOK, Await, Answer, dbVars, Id, Unlock, Phase, Numbering, Ids
  <1>1. CASE UNCHANGED <<table, nextId>>
    BY <1>1
  <1>2. CASE Insert(r)
    BY <1>2 DEF Insert, InsertAt
  <1>3. CASE ServerCommits(r)
    <2>1. Id(r) \in Ids /\ Id(r) < nextId
      BY <1>3, WrittenRow DEF ServerCommits, Writes
    <2>. QED
      BY <1>3, <2>1 DEF ServerCommits
  <1>. QED
    BY <1>1, <1>2, <1>3
       DEF Step, HandlerStep, Fault, ServerStep, Receive, Get, SelectNothing, SelectForUpdate, SelectOutOfRange, InsertWithoutId,
           FlushChange, FlushConflict, SendCommit, CommitDone, CommitRefused, Refresh,
           RefreshFindsNothing, Rollback, Emit, EmitEscapes, StatementFails, LoseConnection,
           Crash, ServerRefuses, ServerReaps, Reap

\* A deleted row is not written again.
LEMMA DeletedStep ==
    ASSUME IInv, NEW r \in Requests, Step(r)
    PROVE  DeletedStaysGone'
  <1>. USE DEF IInv, TypeOK, Await, Answer, dbVars, Id, Unlock,
               Phase, Numbering, Ids, DeletedStaysGone, Writes
  <1>1. CASE UNCHANGED <<table, nextId, tx, call>>
    BY <1>1
  <1>2. CASE SelectForUpdate(r)
    BY <1>2 DEF SelectForUpdate
  <1>3. CASE Insert(r)
    BY <1>3 DEF Insert, InsertAt
  <1>4. CASE InsertWithoutId(r)
    BY <1>4 DEF InsertWithoutId
  <1>5. CASE SendCommit(r)
    BY <1>5 DEF SendCommit
  <1>6. CASE Rollback(r)
    BY <1>6 DEF Rollback
  <1>7. CASE ServerCommits(r)
    <2>. SUFFICES ASSUME NEW s \in Requests,
                         tx'[s] = "committed", call'[s].op = "delete"
                  PROVE  table'[Id(s)] = NoRow
      BY <1>7 DEF ServerCommits
    <2>1. CASE s = r
      BY <1>7, <2>1, WrittenRow DEF ServerCommits
    <2>2. CASE s # r
      <3>1. table[Id(s)] = NoRow /\ tx[s] = "committed" /\ Id(s) \in Ids
        BY <1>7, <2>2 DEF ServerCommits
      <3>2. CASE call[r].op = "create"
        <4>1. Id(r) # 0 /\ tx[r] = "sent"
          BY <1>7, WrittenRow DEF ServerCommits
        <4>2. Id(s) # Id(r)
          BY <1>7, <4>1, <3>1, <3>2 DEF ServerCommits
        <4>. QED
          BY <1>7, <2>2, <3>1, <4>2 DEF ServerCommits
      <3>3. CASE call[r].op # "create"
        <4>1. table[Id(r)] # NoRow \/ call[r].op = "delete"
          BY <1>7, <3>3, WrittenRow DEF ServerCommits, LoadedRowIsCurrent
        <4>. QED
          BY <1>7, <2>2, <3>1, <3>3, <4>1, WrittenRow DEF ServerCommits
      <3>. QED
        BY <3>2, <3>3
    <2>. QED
      BY <2>1, <2>2
  <1>8. CASE ServerRefuses(r)
    BY <1>8 DEF ServerRefuses
  <1>9. CASE ServerReaps(r)
    BY <1>9 DEF ServerReaps, Reap
  <1>. QED
    BY <1>1, <1>2, <1>3, <1>4, <1>5, <1>6, <1>7, <1>8, <1>9
       DEF Step, HandlerStep, Fault, ServerStep, Receive, Get, SelectNothing, SelectOutOfRange, FlushChange, FlushConflict,
           CommitDone, CommitRefused, Refresh, RefreshFindsNothing, Emit, EmitEscapes,
           StatementFails, LoseConnection, Crash

\* Created todos while the table stays as it is and only r, which does not
\* commit, moves: r's id is none, the one it had, or a fresh one.
LEMMA CreatedKept ==
    ASSUME IInv, NEW r \in Requests,
           table' = table,
           \A s \in Requests \ {r} : call'[s] = call[s] /\ tx'[s] = tx[s],
           tx[r] # "committed", tx'[r] # "committed",
           call'[r].op = call[r].op,
           call[r].op = "create" =>
              \/ call'[r].id \in {0, nextId}
              \/ call'[r].id = call[r].id /\ tx[r] # "none"
    PROVE  CreatedUntilDeleted'
  <1>. USE DEF IInv, CreatedUntilDeleted, Id
  <1>. SUFFICES ASSUME NEW q \in Requests, tx'[q] = "committed", call'[q].op = "create"
                PROVE  /\ \A s \in Requests \ {q} :
                            call'[s].op = "create" /\ tx'[s] # "none"
                               => call'[s].id # call'[q].id
                       /\ table'[call'[q].id] = NoRow =>
                             \E s \in Requests : /\ tx'[s] = "committed"
                                                 /\ call'[s].op = "delete"
                                                 /\ call'[s].id = call'[q].id
    OBVIOUS
  <1>1. q # r /\ call'[q] = call[q] /\ tx[q] = "committed"
    OBVIOUS
  <1>2. call[q].id \in Ids /\ call[q].id < nextId /\ call[q].id # 0
    BY <1>1 DEF Numbering, Ids
  <1>3. ASSUME NEW s \in Requests \ {q}, call'[s].op = "create", tx'[s] # "none"
        PROVE  call'[s].id # call'[q].id
    <2>1. CASE s = r
      BY <1>1, <1>2, <1>3, <2>1 DEF TypeOK
    <2>2. CASE s # r
      BY <1>1, <1>3, <2>2
    <2>. QED
      BY <2>1, <2>2
  <1>4. ASSUME table'[call'[q].id] = NoRow
        PROVE  \E s \in Requests : /\ tx'[s] = "committed"
                                   /\ call'[s].op = "delete"
                                   /\ call'[s].id = call'[q].id
    <2>1. PICK s \in Requests : /\ tx[s] = "committed"
                               /\ call[s].op = "delete"
                               /\ call[s].id = call[q].id
      BY <1>1, <1>4
    <2>. QED
      BY <1>1, <2>1
  <1>. QED
    BY <1>3, <1>4

\* A created todo is there until a delete of it commits.
LEMMA CreatedStep ==
    ASSUME IInv, NEW r \in Requests, Step(r)
    PROVE  CreatedUntilDeleted'
  <1>. USE DEF IInv, TypeOK, Await, Answer, dbVars, Id, Unlock, Phase, Numbering, Writes
  <1>1. CASE UNCHANGED <<table, nextId, tx, call>>
    BY <1>1 DEF CreatedUntilDeleted
  <1>2. CASE SelectForUpdate(r)
    BY <1>2, CreatedKept DEF SelectForUpdate
  <1>3. CASE Insert(r)
    BY <1>3, CreatedKept DEF Insert, InsertAt
  <1>4. CASE InsertWithoutId(r)
    BY <1>4, CreatedKept DEF InsertWithoutId
  <1>5. CASE SendCommit(r)
    BY <1>5, CreatedKept DEF SendCommit
  <1>6. CASE Rollback(r)
    <2>1. CASE tx[r] = "open"
      BY <1>6, <2>1, CreatedKept DEF Rollback
    <2>2. CASE tx[r] # "open"
      <3>1. tx' = tx
        BY <1>6, <2>2 DEF Rollback
      <3>. QED
        BY <1>6, <3>1 DEF Rollback, CreatedUntilDeleted
    <2>. QED
      BY <2>1, <2>2
  <1>7. CASE ServerCommits(r)
    <2>. SUFFICES ASSUME NEW q \in Requests, tx'[q] = "committed", call[q].op = "create"
                  PROVE  /\ \A s \in Requests \ {q} :
                              call[s].op = "create" /\ tx'[s] # "none" => Id(s) # Id(q)
                         /\ table'[Id(q)] = NoRow =>
                               \E s \in Requests : /\ tx'[s] = "committed"
                                                   /\ call[s].op = "delete"
                                                   /\ Id(s) = Id(q)
      BY <1>7 DEF ServerCommits, CreatedUntilDeleted
    <2>1. Id(q) \in Ids /\ Id(q) # 0 /\ tx[r] = "sent" /\ tx' = [tx EXCEPT ![r] = "committed"]
      BY <1>7, WrittenRow DEF ServerCommits, Ids
    <2>2. \A s \in Requests \ {q} :
             call[s].op = "create" /\ tx'[s] # "none" => Id(s) # Id(q)
      BY <2>1
    <2>3. ASSUME table'[Id(q)] = NoRow
          PROVE  \E s \in Requests : /\ tx'[s] = "committed"
                                     /\ call[s].op = "delete"
                                     /\ Id(s) = Id(q)
      <3>1. CASE Id(r) = Id(q)
        <4>1. Written(r) = NoRow
          BY <1>7, <2>1, <2>3, <3>1 DEF ServerCommits
        <4>2. call[r].op = "delete"
          BY <2>1, <4>1, WrittenRow, StoredIsRow
        <4>. QED
          BY <2>1, <3>1, <4>2
      <3>2. CASE Id(r) # Id(q)
        <4>1. table[Id(q)] = NoRow /\ q # r
          BY <1>7, <2>1, <2>3, <3>2 DEF ServerCommits
        <4>2. tx[q] = "committed"
          BY <2>1, <4>1
        <4>3. PICK s \in Requests : /\ tx[s] = "committed"
                                   /\ call[s].op = "delete"
                                   /\ Id(s) = Id(q)
          BY <4>1, <4>2 DEF CreatedUntilDeleted
        <4>. QED
          BY <2>1, <4>3
      <3>. QED
        BY <3>1, <3>2
    <2>. QED
      BY <2>2, <2>3
  <1>8. CASE ServerRefuses(r)
    BY <1>8, CreatedKept DEF ServerRefuses
  <1>9. CASE ServerReaps(r)
    BY <1>9, CreatedKept DEF ServerReaps, Reap
  <1>. QED
    BY <1>1, <1>2, <1>3, <1>4, <1>5, <1>6, <1>7, <1>8, <1>9
       DEF Step, HandlerStep, Fault, ServerStep, Receive, Get, SelectNothing, SelectOutOfRange, FlushChange, FlushConflict,
           CommitDone, CommitRefused, Refresh, RefreshFindsNothing, Emit, EmitEscapes,
           StatementFails, LoseConnection, Crash

-----------------------------------------------------------------------------
(* Theorems.                                                               *)

LEMMA InitIInv == Init => IInv
  <1>. SUFFICES ASSUME Init PROVE IInv
    OBVIOUS
  <1>1. TypeOK
    BY InitType
  <1>2. LocksHaveOwners /\ LoadedRowIsCurrent /\ DeletedStaysGone /\ CreatedUntilDeleted
    BY DEF Init, LocksHaveOwners, LoadedRowIsCurrent, DeletedStaysGone, CreatedUntilDeleted
  <1>3. \A i \in Ids : table[i] # NoRow => i < nextId
    BY SeededAssumption DEF Init, Ids
  <1>4. ASSUME NEW r \in Requests PROVE Phase(r)
    BY DEF Init, Phase
  <1>5. ASSUME NEW r \in Requests PROVE Numbering(r)
    <2>1. call[r] \in Calls /\ tx[r] = "none" /\ pc[r] = "idle"
      BY DEF Init
    <2>2. call[r].op = "create" => Id(r) = 0
      BY <2>1, CallsAssumption DEF Id
    <2>3. 0 < nextId
      BY SeededAssumption DEF Init
    <2>4. \A s \in Requests : tx[s] = "none"
      BY DEF Init
    <2>. QED
      BY <2>1, <2>2, <2>3, <2>4 DEF Numbering
  <1>. QED
    BY <1>1, <1>2, <1>3, <1>4, <1>5 DEF IInv

LEMMA NextIInv == IInv /\ [Next]_vars => IInv'
  <1>. SUFFICES ASSUME IInv, [Next]_vars PROVE IInv'
    OBVIOUS
  <1>1. ASSUME NEW r \in Requests, Step(r) PROVE IInv'
    BY <1>1, TypeStep, LockStep, LoadedStep, PhaseStep, NumberingStep, BoundStep,
       DeletedStep, CreatedStep DEF IInv
  <1>2. CASE UNCHANGED vars
    <2>. USE <1>2 DEF vars, IInv, Id
    <2>1. TypeOK' /\ LocksHaveOwners' /\ LoadedRowIsCurrent'
      BY DEF TypeOK, LocksHaveOwners, LoadedRowIsCurrent
    <2>2. (\A i \in Ids : table[i] # NoRow => i < nextId)'
      OBVIOUS
    <2>3. (\A r \in Requests : Phase(r) /\ Numbering(r))'
      BY DEF Phase, Numbering
    <2>4. DeletedStaysGone' /\ CreatedUntilDeleted'
      BY DEF DeletedStaysGone, CreatedUntilDeleted
    <2>. QED
      BY <2>1, <2>2, <2>3, <2>4
  <1>. QED
    BY <1>1, <1>2 DEF Next, Step

\* The inductive invariant holds in every behaviour of the requests, faults
\* included.
THEOREM Inductive == Spec => []IInv
  BY InitIInv, NextIInv, PTL DEF Spec

\* Every variable has its type; in particular the table never holds null in a
\* NOT NULL column, whatever bodies clients send.
THEOREM TypeCorrect == Spec => []TypeOK
  <1>1. IInv => TypeOK
    BY DEF IInv
  <1>. QED
    BY <1>1, Inductive, PTL

\* The row a handler has locked is the row it loaded, until its transaction ends.
THEOREM LoadedRowStaysCurrent == Spec => []LoadedRowIsCurrent
  <1>1. IInv => LoadedRowIsCurrent
    BY DEF IInv
  <1>. QED
    BY <1>1, Inductive, PTL

\* A 2xx answer to a write means it is committed; a 404 or 409 that it is not
\* and never will be.
THEOREM AnswersHold == Spec => []AnswersAreTrue
  <1>1. IInv => AnswersAreTrue
    BY DEF IInv, Phase, AnswersAreTrue
  <1>. QED
    BY <1>1, Inductive, PTL

\* A deleted todo never comes back, and its id is not given to another todo.
THEOREM DeletesAreFinal == Spec => []DeletedStaysGone
  <1>1. IInv => DeletedStaysGone
    BY DEF IInv
  <1>. QED
    BY <1>1, Inductive, PTL

\* Creates have ids of their own, and what they created stays until deleted.
THEOREM CreatesLast == Spec => []CreatedUntilDeleted
  <1>1. IInv => CreatedUntilDeleted
    BY DEF IInv
  <1>. QED
    BY <1>1, Inductive, PTL

\* A commit that changes an existing row puts some PUT's body over the row as
\* it is at that moment: no concurrent update is overwritten.
THEOREM UpdatesAreNotLost == Spec => NoLostUpdate
  <1>. DEFINE Change(i) ==
          table[i] # NoRow /\ table'[i] \notin {NoRow, table[i]} =>
          \E r \in Requests : /\ call[r].op = "update"
                              /\ Id(r) = i
                              /\ tx[r] = "sent" /\ tx'[r] = "committed"
                              /\ table'[i] = Overlay(table[i], call[r].patch)
  <1>1. ASSUME IInv, [Next]_vars PROVE [\A i \in Ids : Change(i)]_vars
    <2>1. CASE UNCHANGED table
      BY <2>1
    <2>2. ASSUME NEW r \in Requests, ServerCommits(r), NEW i \in Ids
          PROVE  Change(i)
      <3>. USE <1>1, <2>2 DEF IInv, TypeOK
      <3>1. tx[r] = "sent" /\ tx'[r] = "committed" /\ table' = [table EXCEPT ![Id(r)] = Written(r)]
        BY <2>2 DEF ServerCommits
      <3>2. CASE i # Id(r)
        BY <3>1, <3>2
      <3>3. CASE i = Id(r)
        <4>1. table'[i] = Written(r)
          BY <3>1, <3>3
        <4>2. CASE call[r].op = "create"
          <5>1. table[i] = NoRow
            BY <3>1, <3>3, <4>2, WrittenRow DEF Numbering, Ids
          <5>. QED
            BY <5>1
        <4>3. CASE call[r].op = "update"
          BY <3>1, <3>3, <4>1, <4>3, WrittenRow
        <4>4. CASE call[r].op = "delete"
          BY <3>1, <4>1, <4>4, WrittenRow
        <4>. QED
          BY <3>1, <4>2, <4>3, <4>4, WrittenRow
      <3>. QED
        BY <3>2, <3>3
    <2>3. UNCHANGED table \/ \E r \in Requests : ServerCommits(r)
      BY <1>1 DEF Next, Step, vars, dbVars, HandlerStep, Fault, ServerStep, Receive, Get,
         SelectNothing, SelectForUpdate, SelectOutOfRange, Insert, InsertAt, InsertWithoutId,
         FlushChange, FlushConflict, SendCommit, CommitDone, CommitRefused, Refresh,
         RefreshFindsNothing, Rollback, Emit, EmitEscapes, StatementFails,
         LoseConnection, Crash, ServerRefuses, ServerReaps, Reap
    <2>. QED
      BY <1>1, <2>1, <2>2, <2>3
  <1>. QED
    BY <1>1, Inductive, PTL DEF Spec, NoLostUpdate
=============================================================================
