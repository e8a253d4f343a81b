------------------------- MODULE TodoListingProofs -------------------------
(***************************************************************************)
(* Proofs about TodoListing, for any todos, page size and clock.  The heart *)
(* is how one commit and one delete move the others' places in the list.   *)
(***************************************************************************)
EXTENDS TodoListing, FiniteSetTheorems, TLAPS

-----------------------------------------------------------------------------
(* Counting todos.                                                         *)

LEMMA Countable ==
    ASSUME NEW S \in SUBSET Todos
    PROVE  IsFiniteSet(S) /\ Cardinality(S) \in Nat
  BY ListingAssumption, FS_Subset, FS_CardinalityType

LEMMA PartIsNoLarger ==
    ASSUME NEW S \in SUBSET Todos, NEW P \in SUBSET S
    PROVE  /\ Cardinality(P) <= Cardinality(S)
           /\ Cardinality(P) = Cardinality(S) => P = S
  BY Countable, FS_Subset

LEMMA OneMore ==
    ASSUME NEW S \in SUBSET Todos, NEW t \in Todos, t \notin S
    PROVE  Cardinality(S \cup {t}) = Cardinality(S) + 1
  BY Countable, FS_AddElement

LEMMA AtMostOneMore ==
    ASSUME NEW S \in SUBSET Todos, NEW U \in SUBSET Todos,
           \A x, y \in U \ S : x = y
    PROVE  Cardinality(U) <= Cardinality(S) + 1
  <1>1. CASE U \subseteq S
    BY <1>1, Countable, PartIsNoLarger
  <1>2. ASSUME NEW x \in U \ S PROVE Cardinality(U) <= Cardinality(S) + 1
    <2>1. S \cup {x} \in SUBSET Todos /\ U \in SUBSET (S \cup {x})
      BY <1>2
    <2>2. Cardinality(U) <= Cardinality(S \cup {x})
      BY <2>1, PartIsNoLarger
    <2>. QED
      BY <1>2, <2>2, OneMore
  <1>. QED
    BY <1>1, <1>2

LEMMA TheRest ==
    ASSUME NEW S \in SUBSET Todos, NEW P \in SUBSET S
    PROVE  Cardinality(S \ P) = Cardinality(S) - Cardinality(P)
  <1>1. S \cap P = P /\ IsFiniteSet(S)
    BY Countable
  <1>2. Cardinality(S \ P) = Cardinality(S) - Cardinality(S \cap P)
    BY <1>1, FS_Difference
  <1>. QED
    BY <1>1, <1>2

-----------------------------------------------------------------------------
(* Places in the list.                                                     *)

LEMMA RankType ==
    ASSUME NEW t
    PROVE  Above(t) \in SUBSET Live /\ Live \in SUBSET Todos /\ Rank(t) \in Nat
  <1>1. Above(t) \in SUBSET Live /\ Live \in SUBSET Todos
    BY DEF Above, Live
  <1>. QED
    BY <1>1, Countable DEF Rank

LEMMA NewerIsBefore ==
    ASSUME TypeOK, NEW x \in Live, NEW y \in Live, created[x] > created[y]
    PROVE  Rank(x) + 1 <= Rank(y)
  <1>. x \in Todos /\ y \in Todos /\ created[x] \in Int /\ created[y] \in Int
    BY DEF TypeOK, Live
  <1>1. x \notin Above(x) /\ Above(x) \cup {x} \in SUBSET Above(y)
    <2>1. \A u \in Live : created[u] \in Int
      BY DEF TypeOK, Live
    <2>. QED
      BY <2>1 DEF Above
  <1>2. Cardinality(Above(x) \cup {x}) <= Cardinality(Above(y))
    BY <1>1, RankType, PartIsNoLarger
  <1>. QED
    BY <1>1, <1>2, RankType, OneMore DEF Rank

\* Without ties no two todos share a place.
LEMMA PlacesDiffer ==
    ASSUME TypeOK, History, NoTies, NEW x \in Live, NEW y \in Live, Rank(x) = Rank(y)
    PROVE  x = y
  <1>. SUFFICES ASSUME x # y PROVE FALSE
    OBVIOUS
  <1>1. /\ x \in Todos /\ y \in Todos
        /\ created[x] \in Int /\ created[y] \in Int
        /\ created[x] # 0
    BY DEF TypeOK, Live, History
  <1>2. created[x] > created[y] \/ created[y] > created[x]
    BY <1>1 DEF NoTies
  <1>. QED
    BY <1>2, NewerIsBefore, RankType

\* Without ties the first n rows are those of the first n places.
LEMMA FirstPlaces ==
    ASSUME TypeOK, History, NoTies, NEW n \in Nat, NEW first \in Newest(n), NEW t \in Live
    PROVE  t \in first <=> Rank(t) < n
  <1>1. /\ first \in SUBSET Live /\ Live \in SUBSET Todos
        /\ Cardinality(first) \in Nat /\ Cardinality(Live) \in Nat
        /\ Cardinality(first) = Smaller(n, Cardinality(Live))
        /\ \A f \in first, u \in Live \ first : created[f] >= created[u]
    BY RankType, Countable DEF Newest
  <1>2. \A u \in Live : u \in Todos /\ created[u] \in Int /\ created[u] # 0
    BY DEF TypeOK, Live, History
  <1>3. ASSUME t \in first PROVE Rank(t) < n
    <2>1. Above(t) \in SUBSET (first \ {t})
      BY <1>1, <1>2, <1>3 DEF Above
    <2>2. Cardinality(first \ {t}) = Cardinality(first) - 1
      BY <1>1, <1>3, Countable, FS_RemoveElement
    <2>3. Rank(t) <= Cardinality(first \ {t})
      BY <1>1, <2>1, PartIsNoLarger DEF Rank
    <2>. QED
      BY <1>1, <2>2, <2>3, RankType DEF Smaller
  <1>4. ASSUME t \notin first PROVE ~ (Rank(t) < n)
    <2>1. first \in SUBSET Above(t)
      BY <1>1, <1>2, <1>4 DEF NoTies, Above
    <2>2. Cardinality(first) <= Rank(t)
      BY <2>1, RankType, PartIsNoLarger DEF Rank
    <2>3. Cardinality(first) # Cardinality(Live)
      BY <1>1, <1>4, PartIsNoLarger
    <2>. QED
      BY <1>1, <2>2, <2>3, RankType DEF Smaller
  <1>. QED
    BY <1>3, <1>4

-----------------------------------------------------------------------------
(* How writers move the places.                                            *)

\* A commit puts one todo into the list: the others stay or step back by one.
LEMMA CommitMoves ==
    ASSUME TypeOK, History, NEW t \in Todos, CommitCreate(t)
    PROVE  /\ t \notin Live /\ Live' = Live \cup {t} /\ t \notin atStart /\ t \notin lost
           /\ \A x \in Live : Rank(x) <= Rank(x)' /\ Rank(x)' <= Rank(x) + 1
  <1>1. /\ status[t] = "open" /\ status' = [status EXCEPT ![t] = "live"]
        /\ created' = created
    BY DEF CommitCreate, Become
  <1>2. t \notin Live /\ Live' = Live \cup {t}
    BY <1>1 DEF TypeOK, Live
  <1>3. t \notin atStart /\ t \notin lost
    BY <1>1 DEF History
  <1>4. ASSUME NEW x \in Live PROVE Rank(x) <= Rank(x)' /\ Rank(x)' <= Rank(x) + 1
    <2>1. Above(x) \in SUBSET Todos /\ Above(x)' \in SUBSET Todos
      BY <1>2, RankType DEF Above
    <2>2. Above(x) \in SUBSET Above(x)' /\ \A u, v \in Above(x)' \ Above(x) : u = v
      BY <1>1, <1>2 DEF Above
    <2>. QED
      BY <2>1, <2>2, PartIsNoLarger, AtMostOneMore DEF Rank
  <1>. QED
    BY <1>2, <1>3, <1>4

\* A delete takes one todo out: the others stay or step forward by one.
LEMMA DeleteMoves ==
    ASSUME TypeOK, History, NEW t \in Todos, Delete(t)
    PROVE  /\ t \in Live /\ Live' = Live \ {t} /\ t \notin lost /\ lost' = lost \cup {t}
           /\ \A x \in Live : Rank(x)' <= Rank(x) /\ Rank(x) <= Rank(x)' + 1
  <1>1. /\ status[t] = "live" /\ status' = [status EXCEPT ![t] = "gone"]
        /\ created' = created /\ lost' = lost \cup {t}
    BY DEF Delete, Become
  <1>2. t \in Live /\ Live' = Live \ {t} /\ t \notin lost
    BY <1>1 DEF TypeOK, Live, History
  <1>4. ASSUME NEW x \in Live PROVE Rank(x)' <= Rank(x) /\ Rank(x) <= Rank(x)' + 1
    <2>1. Above(x) \in SUBSET Todos /\ Above(x)' \in SUBSET Todos
      BY <1>2, RankType DEF Above
    <2>2. Above(x)' \in SUBSET Above(x) /\ \A u, v \in Above(x) \ Above(x)' : u = v
      BY <1>1, <1>2 DEF Above
    <2>. QED
      BY <2>1, <2>2, PartIsNoLarger, AtMostOneMore DEF Rank
  <1>. QED
    BY <1>1, <1>2, <1>4

LEMMA CommitKeepsEdge ==
    ASSUME TypeOK, TypeOK', History, NoTies, NEW t \in Todos, CommitCreate(t),
           NEW shown \in SUBSET Todos, t \notin shown, NEW b \in Nat, OneEach(shown, b)
    PROVE  OneEach(shown, b)'
  <1>1. /\ t \notin Live /\ Live' = Live \cup {t} /\ t \notin atStart /\ t \notin lost
        /\ \A x \in Live : Rank(x) <= Rank(x)' /\ Rank(x)' <= Rank(x) + 1
        /\ atStart' = atStart /\ lost' = lost
    BY CommitMoves DEF CommitCreate, walkVars
  <1>2. \A x : Rank(x) \in Nat /\ Live \in SUBSET Todos
    BY RankType
  <1>3. \A x \in Live : Rank(x)' \in Nat
    <2>1. ASSUME NEW x \in Live PROVE Above(x)' \in SUBSET Todos
      BY DEF Above, Live
    <2>. QED
      BY <2>1, Countable DEF Rank
  <1>4. Cardinality(Missed(shown, b)') <= Cardinality(lost')
    <2>1. Missed(shown, b) \in SUBSET Todos /\ lost \in SUBSET Todos
      BY <1>2 DEF Missed, TypeOK
    <2>2. Missed(shown, b)' \in SUBSET Missed(shown, b)
      BY <1>1, <1>2, <1>3 DEF Missed
    <2>3. Missed(shown, b)' \in SUBSET Todos
      BY <2>1, <2>2
    <2>. QED
      BY <1>1, <2>1, <2>2, <2>3, PartIsNoLarger, Countable DEF OneEach
  <1>5. Cardinality(Repeated(shown, b)') <= Cardinality(Born')
    <2>1. /\ Repeated(shown, b) \in SUBSET Todos /\ Repeated(shown, b)' \in SUBSET Todos
          /\ Born \in SUBSET Todos
      BY <1>2 DEF Repeated, TypeOK, Born
    <2>2. Born' = Born \cup {t} /\ t \notin Born
      BY <1>1 DEF Born
    <2>3. ASSUME NEW x \in Repeated(shown, b)' \ Repeated(shown, b)
          PROVE  x \in Live /\ Rank(x) = b - 1
      BY <1>1, <1>2, <1>3 DEF Repeated
    <2>4. \A x, y \in Repeated(shown, b)' \ Repeated(shown, b) : x = y
      BY <2>3, PlacesDiffer
    <2>5. Cardinality(Repeated(shown, b)') <= Cardinality(Repeated(shown, b)) + 1
      BY <2>1, <2>4, AtMostOneMore
    <2>6. Cardinality(Born') = Cardinality(Born) + 1
      BY <2>1, <2>2, OneMore
    <2>. QED
      BY <2>1, <2>5, <2>6, Countable DEF OneEach
  <1>. QED
    BY <1>4, <1>5 DEF OneEach

LEMMA DeleteKeepsEdge ==
    ASSUME TypeOK, TypeOK', History, NoTies, NEW t \in Todos, Delete(t),
           NEW shown \in SUBSET Todos, NEW b \in Nat, OneEach(shown, b)
    PROVE  OneEach(shown, b)'
  <1>1. /\ t \in Live /\ Live' = Live \ {t} /\ t \notin lost /\ lost' = lost \cup {t}
        /\ \A x \in Live : Rank(x)' <= Rank(x) /\ Rank(x) <= Rank(x)' + 1
        /\ atStart' = atStart
    BY DeleteMoves DEF Delete, walkVars
  <1>2. \A x : Rank(x) \in Nat /\ Live \in SUBSET Todos
    BY RankType
  <1>3. \A x \in Live : Rank(x)' \in Nat
    <2>1. ASSUME NEW x \in Live PROVE Above(x)' \in SUBSET Todos
      BY DEF Above, Live
    <2>. QED
      BY <2>1, Countable DEF Rank
  <1>4. Cardinality(Missed(shown, b)') <= Cardinality(lost')
    <2>1. /\ Missed(shown, b) \in SUBSET Todos /\ Missed(shown, b)' \in SUBSET Todos
          /\ lost \in SUBSET Todos
      BY <1>1, <1>2 DEF Missed, TypeOK
    <2>2. ASSUME NEW x \in Missed(shown, b)' \ Missed(shown, b)
          PROVE  x \in Live /\ Rank(x) = b
      BY <1>1, <1>2, <1>3 DEF Missed
    <2>3. \A x, y \in Missed(shown, b)' \ Missed(shown, b) : x = y
      BY <2>2, PlacesDiffer
    <2>4. Cardinality(Missed(shown, b)') <= Cardinality(Missed(shown, b)) + 1
      BY <2>1, <2>3, AtMostOneMore
    <2>5. Cardinality(lost') = Cardinality(lost) + 1
      BY <1>1, <2>1, OneMore
    <2>. QED
      BY <2>1, <2>4, <2>5, Countable DEF OneEach
  <1>5. Cardinality(Repeated(shown, b)') <= Cardinality(Born')
    <2>1. Repeated(shown, b) \in SUBSET Todos /\ Born' = Born
      BY <1>1, <1>2 DEF Repeated, Born
    <2>2. Repeated(shown, b)' \in SUBSET Repeated(shown, b)
      BY <1>1, <1>2, <1>3 DEF Repeated
    <2>3. Born \in SUBSET Todos /\ Repeated(shown, b)' \in SUBSET Todos
      BY <1>2, <2>1, <2>2 DEF TypeOK, Born
    <2>. QED
      BY <2>1, <2>2, <2>3, PartIsNoLarger, Countable DEF OneEach
  <1>. QED
    BY <1>4, <1>5 DEF OneEach

\* A step that neither commits nor deletes moves nobody.
LEMMA OthersKeepEdge ==
    ASSUME Live' = Live, \A x \in Live : created'[x] = created[x],
           atStart' = atStart, lost' = lost,
           NEW shown, NEW b, OneEach(shown, b)
    PROVE  OneEach(shown, b)'
  <1>1. \A x \in Live : Rank(x)' = Rank(x)
    BY DEF Rank, Above
  <1>2. Missed(shown, b)' = Missed(shown, b)
    BY <1>1 DEF Missed
  <1>3. Repeated(shown, b)' = Repeated(shown, b)
    BY <1>1 DEF Repeated
  <1>. QED
    BY <1>2, <1>3 DEF OneEach, Born

-----------------------------------------------------------------------------
(* How the walk moves its edge.                                            *)

\* A page shows all that lies between the old edge and the new one.
LEMMA PageMovesEdge ==
    ASSUME TypeOK, History, NoTies, OneEach(seen, offset),
           NEW skipped \in Newest(offset), NEW upto \in Newest(offset + Limit)
    PROVE  /\ OneEach(seen \cup (upto \ skipped), offset + Limit)
           /\ Cardinality((upto \ skipped) \cap seen) <= Cardinality(Born)
  <1>. DEFINE shown == seen \cup (upto \ skipped)
  <1>1. offset \in Nat /\ offset + Limit \in Nat /\ offset <= offset + Limit
    BY ListingAssumption DEF TypeOK
  <1>2. \A t \in Live : /\ t \in skipped <=> Rank(t) < offset
                        /\ t \in upto <=> Rank(t) < offset + Limit
    BY <1>1, FirstPlaces
  <1>3. upto \in SUBSET Live /\ skipped \in SUBSET Live /\ Live \in SUBSET Todos
    BY RankType DEF Newest
  <1>4. \A t : Rank(t) \in Nat
    BY RankType
  <1>5. /\ Missed(seen, offset) \in SUBSET Todos
        /\ Repeated(seen, offset) \in SUBSET Todos
        /\ lost \in SUBSET Todos /\ Born \in SUBSET Todos
    BY <1>3 DEF Missed, Repeated, TypeOK, Born
  <1>6. Missed(shown, offset + Limit) \in SUBSET Missed(seen, offset)
    BY <1>2, <1>3 DEF Missed
  <1>7. Repeated(shown, offset + Limit) \in SUBSET Repeated(seen, offset)
    BY <1>1, <1>2, <1>3, <1>4 DEF Repeated
  <1>8. (upto \ skipped) \cap seen \in SUBSET Repeated(seen, offset)
    BY <1>1, <1>2, <1>3, <1>4 DEF Repeated
  <1>9. /\ Missed(shown, offset + Limit) \in SUBSET Todos
        /\ Repeated(shown, offset + Limit) \in SUBSET Todos
        /\ (upto \ skipped) \cap seen \in SUBSET Todos
    BY <1>5, <1>6, <1>7, <1>8
  <1>10. /\ Cardinality(Missed(shown, offset + Limit)) <= Cardinality(Missed(seen, offset))
         /\ Cardinality(Repeated(shown, offset + Limit)) <= Cardinality(Repeated(seen, offset))
         /\ Cardinality((upto \ skipped) \cap seen) <= Cardinality(Repeated(seen, offset))
    BY <1>5, <1>6, <1>7, <1>8, PartIsNoLarger
  <1>11. /\ Cardinality(Missed(shown, offset + Limit)) \in Nat
         /\ Cardinality(Repeated(shown, offset + Limit)) \in Nat
         /\ Cardinality((upto \ skipped) \cap seen) \in Nat
         /\ Cardinality(Missed(seen, offset)) \in Nat /\ Cardinality(lost) \in Nat
         /\ Cardinality(Repeated(seen, offset)) \in Nat /\ Cardinality(Born) \in Nat
    BY <1>5, <1>9, Countable
  <1>. QED
    BY <1>10, <1>11 DEF OneEach

\* A page with items in it starts at a place that exists.
LEMMA PageFits ==
    ASSUME TypeOK, NEW skipped \in Newest(offset), NEW upto \in Newest(offset + Limit),
           skipped \in SUBSET upto, upto \ skipped # {}
    PROVE  Cardinality(Live) >= offset + Cardinality(upto \ skipped)
  <1>1. /\ upto \in SUBSET Live /\ Live \in SUBSET Todos
        /\ Cardinality(skipped) = Smaller(offset, Cardinality(Live))
    BY RankType DEF Newest
  <1>2. /\ Cardinality(upto) <= Cardinality(Live)
        /\ Cardinality(upto \ skipped) = Cardinality(upto) - Cardinality(skipped)
        /\ Cardinality(skipped) <= Cardinality(upto)
        /\ Cardinality(skipped) # Cardinality(upto)
    BY <1>1, PartIsNoLarger, TheRest
  <1>3. /\ Cardinality(Live) \in Nat /\ Cardinality(upto) \in Nat
        /\ Cardinality(skipped) \in Nat /\ offset \in Nat
    BY <1>1, Countable DEF TypeOK
  <1>. QED
    BY <1>1, <1>2, <1>3 DEF Smaller

-----------------------------------------------------------------------------
(* The invariant, part by part.                                            *)

Writer(t) == BeginCreate(t) \/ CommitCreate(t) \/ RollbackCreate(t) \/ Delete(t)
Walking == List \/ Count \/ Fail \/ AskNext \/ End

LEMMA NextSplit ==
    ASSUME [Next]_vars
    PROVE  Tick \/ (\E t \in Todos : Writer(t)) \/ Walking \/ UNCHANGED vars
  BY DEF Next, Writer, Walking

\* No writer touches the walk, the walk touches no todo.
LEMMA Frames ==
    /\ \A t \in Todos : Writer(t) => UNCHANGED <<now, walkVars>>
    /\ Walking => UNCHANGED <<now, todoVars, lost, atStart>>
    /\ Tick \/ UNCHANGED vars => UNCHANGED <<todoVars, walkVars, lost>>
  BY DEF Writer, BeginCreate, CommitCreate, RollbackCreate, Delete, Walking, List, Count,
         Fail, AskNext, End, Tick, vars, todoVars

LEMMA InitInv == Init => WalkInv
  <1>. SUFFICES ASSUME Init PROVE WalkInv
    OBVIOUS
  <1>1. Live = Seeded /\ Seeded \in SUBSET Todos
    BY ListingAssumption DEF Init, Live
  <1>2. TypeOK
    <2>1. \A t \in Seeded : SeedTimes[t] \in 0 .. MaxTime
      BY ListingAssumption
    <2>. QED
      BY <1>1, <2>1, ListingAssumption DEF Init, TypeOK
  <1>3. History
    <2>1. \A t \in Seeded : SeedTimes[t] # 0
      BY ListingAssumption
    <2>. QED
      BY <1>1, <2>1 DEF Init, History
  <1>4. OneEach(seen, offset)
    <2>1. Missed(seen, offset) = {} /\ Repeated(seen, offset) = {}
      BY RankType DEF Init, Missed, Repeated
    <2>2. lost \in SUBSET Todos /\ Born \in SUBSET Todos
      BY <1>1, <1>2 DEF TypeOK, Born
    <2>. QED
      BY <2>1, <2>2, Countable, FS_EmptySet DEF OneEach
  <1>. QED
    BY <1>2, <1>3, <1>4
       DEF Init, WalkInv, PageFitsList, TotalReachesPage, Edges, AllPlacesPassed, AllShown,
           InsertsRepeatOneEach

LEMMA NextType == TypeOK /\ [Next]_vars => TypeOK'
  <1>. SUFFICES ASSUME TypeOK, [Next]_vars PROVE TypeOK'
    OBVIOUS
  <1>. USE DEF TypeOK, todoVars, walkVars
  <1>1. CASE Tick \/ UNCHANGED vars
    BY <1>1, ListingAssumption DEF Tick, vars
  <1>2. ASSUME NEW t \in Todos, Writer(t) PROVE TypeOK'
    BY <1>2 DEF Writer, BeginCreate, CommitCreate, RollbackCreate, Delete, Become
  <1>3. CASE List
    BY <1>3 DEF List, Newest, Live
  <1>4. CASE Count
    <2>1. Cardinality(Live) \in Nat
      BY RankType, Countable
    <2>. QED
      BY <1>4, <2>1 DEF Count
  <1>5. CASE Fail \/ AskNext \/ End
    BY <1>5, ListingAssumption DEF Fail, AskNext, End
  <1>. QED
    BY <1>1, <1>2, <1>3, <1>4, <1>5, NextSplit DEF Walking

LEMMA NextHistory == TypeOK /\ History /\ [Next]_vars => History'
  <1>. SUFFICES ASSUME TypeOK, History, [Next]_vars PROVE History'
    OBVIOUS
  <1>. USE DEF TypeOK, History, todoVars, walkVars
  <1>1. CASE Tick \/ UNCHANGED vars
    BY <1>1, Frames
  <1>2. ASSUME NEW t \in Todos, Writer(t) PROVE History'
    BY <1>2 DEF Writer, BeginCreate, CommitCreate, RollbackCreate, Delete, Become
  <1>3. CASE Walking
    <2>1. seen' \cup page' \subseteq seen \cup page \cup Live
      BY <1>3 DEF Walking, List, Count, Fail, AskNext, End, Newest
    <2>2. \A t \in Live : status[t] = "live"
      BY DEF Live
    <2>. QED
      BY <1>3, <2>1, <2>2, Frames
  <1>. QED
    BY <1>1, <1>2, <1>3, NextSplit

\* created_at never changes once it is there, so neither do ties go away.
LEMMA TiesStay == TypeOK /\ History /\ [Next]_vars /\ NoTies' => NoTies
  <1>. SUFFICES ASSUME TypeOK, History, [Next]_vars, NoTies' PROVE NoTies
    OBVIOUS
  <1>1. \A t \in Todos : created[t] # 0 => created'[t] = created[t]
    <2>1. CASE created' = created
      BY <2>1
    <2>2. ASSUME NEW t \in Todos, BeginCreate(t)
          PROVE  \A u \in Todos : created[u] # 0 => created'[u] = created[u]
      BY <2>2 DEF BeginCreate, Become, TypeOK, History
    <2>. QED
      BY <2>1, <2>2, NextSplit, Frames
         DEF Writer, CommitCreate, RollbackCreate, Delete, todoVars
  <1>2. ASSUME NEW t \in Todos, NEW u \in Todos, t # u, created[t] # 0
        PROVE  created[t] # created[u]
    <2>1. created'[t] = created[t] /\ created'[t] # created'[u]
      BY <1>1, <1>2 DEF NoTies
    <2>. QED
      BY <1>1, <1>2, <2>1
  <1>. QED
    BY <1>2 DEF NoTies

LEMMA WriterKeepsEdge ==
    ASSUME TypeOK, TypeOK', History, NoTies, NEW t \in Todos, Writer(t),
           NEW shown \in SUBSET Todos, \A x \in shown : status[x] \in {"live", "gone"},
           NEW b \in Nat, OneEach(shown, b)
    PROVE  OneEach(shown, b)'
  <1>1. CASE CommitCreate(t)
    <2>1. t \notin shown
      BY <1>1 DEF CommitCreate, Become
    <2>. QED
      BY <1>1, <2>1, CommitKeepsEdge
  <1>2. CASE Delete(t)
    BY <1>2, DeleteKeepsEdge
  <1>3. CASE BeginCreate(t) \/ RollbackCreate(t)
    <2>1. /\ Live' = Live /\ \A x \in Live : created'[x] = created[x]
          /\ atStart' = atStart /\ lost' = lost
      BY <1>3 DEF BeginCreate, RollbackCreate, Become, TypeOK, Live, walkVars
    <2>. QED
      BY <2>1, OthersKeepEdge
  <1>. QED
    BY <1>1, <1>2, <1>3 DEF Writer

LEMMA WalkKeepsEdge ==
    ASSUME Walking \/ Tick \/ UNCHANGED vars, NEW shown, NEW b, OneEach(shown, b)
    PROVE  OneEach(shown, b)'
  <1>1. created' = created /\ Live' = Live /\ atStart' = atStart /\ lost' = lost
    BY Frames DEF todoVars, walkVars, Live
  <1>. QED
    BY <1>1, OthersKeepEdge

\* Writers only add to what is or was in the list.
LEMMA WriterCounts ==
    ASSUME TypeOK, TypeOK', History, NEW t \in Todos, Writer(t)
    PROVE  /\ Cardinality(Live) + Cardinality(lost) <= Cardinality(Live') + Cardinality(lost')
           /\ lost \in SUBSET lost' /\ lost' \in SUBSET Todos
           /\ Cardinality(lost) <= Cardinality(lost')
           /\ Born \in SUBSET Born' /\ Born' \in SUBSET Todos
           /\ Cardinality(Born) <= Cardinality(Born')
  <1>1. /\ Live \in SUBSET Todos /\ lost \in SUBSET Todos /\ lost' \in SUBSET Todos
        /\ Live' \in SUBSET Todos /\ atStart' = atStart
    BY Frames, RankType DEF TypeOK, Live, walkVars
  <1>2. /\ Cardinality(Live) \in Nat /\ Cardinality(lost) \in Nat
        /\ Cardinality(Live') \in Nat /\ Cardinality(lost') \in Nat
    BY <1>1, Countable
  <1>3. /\ Cardinality(Live) + Cardinality(lost) <= Cardinality(Live') + Cardinality(lost')
        /\ lost \in SUBSET lost' /\ Live \cup lost \in SUBSET (Live' \cup lost')
    <2>1. CASE CommitCreate(t)
      <3>1. t \notin Live /\ Live' = Live \cup {t} /\ lost' = lost
        BY <2>1, CommitMoves DEF CommitCreate
      <3>2. Cardinality(Live') = Cardinality(Live) + 1
        BY <1>1, <3>1, OneMore
      <3>. QED
        BY <1>2, <3>1, <3>2
    <2>2. CASE Delete(t)
      <3>1. /\ t \in Live /\ Live' = Live \ {t} /\ t \notin lost /\ lost' = lost \cup {t}
        BY <2>2, DeleteMoves
      <3>2. Cardinality(lost') = Cardinality(lost) + 1
        BY <1>1, <3>1, OneMore
      <3>3. Cardinality(Live') = Cardinality(Live) - 1
        BY <1>1, <3>1, Countable, FS_RemoveElement
      <3>. QED
        BY <1>2, <3>1, <3>2, <3>3
    <2>3. CASE BeginCreate(t) \/ RollbackCreate(t)
      <3>1. Live' = Live /\ lost' = lost
        BY <2>3 DEF BeginCreate, RollbackCreate, Become, TypeOK, Live
      <3>. QED
        BY <1>2, <3>1
    <2>. QED
      BY <2>1, <2>2, <2>3 DEF Writer
  <1>4. Born \in SUBSET Born' /\ Born' \in SUBSET Todos
    BY <1>1, <1>3 DEF Born
  <1>. QED
    BY <1>1, <1>3, <1>4, PartIsNoLarger

LEMMA NextTotal ==
    ASSUME WalkInv, TypeOK', [Next]_vars
    PROVE  PageFitsList' /\ TotalReachesPage'
  <1>. USE DEF PageFitsList, TotalReachesPage
  <1>1. /\ offset \in Nat /\ total \in Nat /\ page \in SUBSET Todos /\ lost \in SUBSET Todos
        /\ page' \in SUBSET Todos /\ lost' \in SUBSET Todos
        /\ Live \in SUBSET Todos /\ Live' \in SUBSET Todos
        /\ PageFitsList /\ TotalReachesPage
    BY RankType DEF WalkInv, TypeOK, Live
  <1>2. /\ Cardinality(page) \in Nat /\ Cardinality(lost) \in Nat
        /\ Cardinality(page') \in Nat /\ Cardinality(lost') \in Nat
        /\ Cardinality(Live) \in Nat /\ Cardinality(Live') \in Nat
    BY <1>1, Countable
  <1>3. CASE Tick \/ UNCHANGED vars
    <2>1. UNCHANGED <<walk, page, offset, total, lost>> /\ Live' = Live
      BY <1>3, Frames DEF todoVars, walkVars, Live
    <2>. QED
      BY <1>1, <2>1
  <1>4. ASSUME NEW t \in Todos, Writer(t) PROVE PageFitsList' /\ TotalReachesPage'
    <2>1. UNCHANGED <<walk, page, offset, total>>
      BY <1>4, Frames DEF walkVars
    <2>2. /\ Cardinality(Live) + Cardinality(lost) <= Cardinality(Live') + Cardinality(lost')
          /\ Cardinality(lost) <= Cardinality(lost')
      BY <1>4, WriterCounts DEF WalkInv
    <2>. QED
      BY <1>1, <1>2, <2>1, <2>2
  <1>5. CASE List
    <2>1. PICK skipped \in Newest(offset), upto \in Newest(offset + Limit) :
             skipped \subseteq upto /\ page' = upto \ skipped
      BY <1>5 DEF List
    <2>2. page' # {} => Cardinality(Live) >= offset + Cardinality(page')
      BY <2>1, PageFits DEF WalkInv
    <2>3. walk' = "counting" /\ offset' = offset /\ Live' = Live /\ lost' = lost
      BY <1>5 DEF List, Live, todoVars
    <2>. QED
      BY <1>1, <1>2, <2>2, <2>3
  <1>6. CASE Count
    <2>1. /\ walk = "counting" /\ walk' = "answered" /\ total' = Cardinality(Live)
          /\ UNCHANGED <<offset, page, lost>>
      BY <1>6 DEF Count
    <2>. QED
      BY <1>1, <1>2, <2>1
  <1>7. CASE Fail \/ AskNext \/ End
    BY <1>7 DEF Fail, AskNext, End
  <1>. QED
    BY <1>3, <1>4, <1>5, <1>6, <1>7, NextSplit DEF Walking

LEMMA NextEdges ==
    ASSUME WalkInv, TypeOK', [Next]_vars, NoTies'
    PROVE  Edges'
  <1>1. /\ TypeOK /\ History /\ NoTies /\ Edges
        /\ offset \in Nat /\ offset + Limit \in Nat
        /\ seen \in SUBSET Todos /\ seen \cup page \in SUBSET Todos
        /\ \A x \in seen \cup page : status[x] \in {"live", "gone"}
    BY TiesStay, ListingAssumption DEF WalkInv, TypeOK, History
  <1>2. ASSUME NEW t \in Todos, Writer(t) PROVE Edges'
    <2>1. PICK s, p, a, b : s = seen /\ p = seen \cup page /\ a = offset /\ b = offset + Limit
      OBVIOUS
    <2>2. seen' = s /\ (seen \cup page)' = p /\ offset' = a /\ (offset + Limit)' = b
          /\ walk' = walk
      BY <1>2, <2>1, Frames DEF walkVars
    <2>3. /\ OneEach(s, a) => OneEach(s, a)'
          /\ OneEach(p, b) => OneEach(p, b)'
          /\ OneEach(s, b) => OneEach(s, b)'
      BY <1>1, <1>2, <2>1, WriterKeepsEdge
    <2>. QED
      BY <1>1, <2>1, <2>2, <2>3 DEF Edges
  <1>3. CASE Tick \/ UNCHANGED vars
    <2>1. PICK s, p, a, b : s = seen /\ p = seen \cup page /\ a = offset /\ b = offset + Limit
      OBVIOUS
    <2>2. seen' = s /\ (seen \cup page)' = p /\ offset' = a /\ (offset + Limit)' = b
          /\ walk' = walk
      BY <1>3, <2>1, Frames DEF walkVars
    <2>3. /\ OneEach(s, a) => OneEach(s, a)'
          /\ OneEach(p, b) => OneEach(p, b)'
          /\ OneEach(s, b) => OneEach(s, b)'
      BY <1>3, WalkKeepsEdge
    <2>. QED
      BY <1>1, <2>1, <2>2, <2>3 DEF Edges
  <1>4. CASE List
    <2>1. PICK skipped \in Newest(offset), upto \in Newest(offset + Limit) :
             page' = upto \ skipped
      BY <1>4 DEF List
    <2>2. PICK s, p, a, b :
             /\ s = seen /\ p = seen \cup (upto \ skipped)
             /\ a = offset /\ b = offset + Limit
      OBVIOUS
    <2>3. /\ seen' = s /\ (seen \cup page)' = p /\ offset' = a /\ (offset + Limit)' = b
          /\ walk = "asking" /\ walk' = "counting"
      BY <1>4, <2>1, <2>2 DEF List
    <2>4. OneEach(s, a) /\ OneEach(p, b)
      BY <1>1, <2>2, <2>3, PageMovesEdge DEF Edges
    <2>5. OneEach(s, a)' /\ OneEach(p, b)'
      BY <1>4, <2>4, WalkKeepsEdge DEF Walking
    <2>. QED
      BY <2>3, <2>5 DEF Edges
  <1>5. CASE Count
    <2>1. PICK p, b : p = seen \cup page /\ b = offset + Limit
      OBVIOUS
    <2>2. seen' = p /\ (offset + Limit)' = b /\ walk = "counting" /\ walk' = "answered"
      BY <1>5, <2>1 DEF Count
    <2>3. OneEach(p, b)'
      BY <1>1, <1>5, <2>1, <2>2, WalkKeepsEdge DEF Edges, Walking
    <2>. QED
      BY <2>2, <2>3 DEF Edges
  <1>6. CASE Fail
    <2>1. PICK s, a : s = seen /\ a = offset
      OBVIOUS
    <2>2. seen' = s /\ offset' = a /\ walk \in {"asking", "counting"} /\ walk' = "asking"
      BY <1>6, <2>1 DEF Fail
    <2>3. OneEach(s, a)'
      BY <1>1, <1>6, <2>1, <2>2, WalkKeepsEdge DEF Edges, Walking
    <2>. QED
      BY <2>2, <2>3 DEF Edges
  <1>7. CASE AskNext
    <2>1. PICK s, b : s = seen /\ b = offset + Limit
      OBVIOUS
    <2>2. seen' = s /\ offset' = b /\ walk = "answered" /\ walk' = "asking"
      BY <1>7, <2>1 DEF AskNext
    <2>3. OneEach(s, b)'
      BY <1>1, <1>7, <2>1, <2>2, WalkKeepsEdge DEF Edges, Walking
    <2>. QED
      BY <2>2, <2>3 DEF Edges
  <1>8. CASE End
    BY <1>8 DEF End, Edges
  <1>. QED
    BY <1>2, <1>3, <1>4, <1>5, <1>6, <1>7, <1>8, NextSplit DEF Walking

\* Once the count has been reached, what was never shown lies before the edge.
LEMMA CountedIsPassed ==
    ASSUME TypeOK, History, OneEach(seen \cup page, offset + Limit),
           offset + Limit >= Cardinality(Live)
    PROVE  Cardinality(atStart \ (seen \cup page \cup lost)) <= Cardinality(lost)
  <1>1. Live \in SUBSET Todos /\ offset \in Nat /\ Limit \in Nat
    BY RankType, ListingAssumption DEF TypeOK
  <1>2. ASSUME NEW x \in Live PROVE Rank(x) < Cardinality(Live)
    <2>1. Above(x) \in SUBSET (Live \ {x})
      BY <1>2 DEF Above, Live, TypeOK
    <2>2. Cardinality(Live \ {x}) = Cardinality(Live) - 1
      BY <1>1, <1>2, Countable, FS_RemoveElement
    <2>3. Rank(x) <= Cardinality(Live \ {x})
      BY <1>1, <2>1, PartIsNoLarger DEF Rank
    <2>. QED
      BY <1>1, <2>2, <2>3, RankType, Countable
  <1>3. atStart \ (seen \cup page \cup lost) \in SUBSET Missed(seen \cup page, offset + Limit)
    <2>1. ASSUME NEW x \in atStart, x \notin lost PROVE x \in Live
      BY <2>1 DEF History, TypeOK, Live
    <2>2. \A x \in Live : Rank(x) < offset + Limit
      BY <1>1, <1>2, RankType, Countable
    <2>. QED
      BY <2>1, <2>2 DEF Missed
  <1>4. Missed(seen \cup page, offset + Limit) \in SUBSET Todos /\ lost \in SUBSET Todos
    BY <1>1 DEF Missed, TypeOK
  <1>5. atStart \ (seen \cup page \cup lost) \in SUBSET Todos
    BY DEF TypeOK
  <1>6. Cardinality(atStart \ (seen \cup page \cup lost))
            <= Cardinality(Missed(seen \cup page, offset + Limit))
    BY <1>3, <1>4, PartIsNoLarger
  <1>7. Cardinality(Missed(seen \cup page, offset + Limit)) <= Cardinality(lost)
    BY DEF OneEach
  <1>8. Cardinality(atStart \ (seen \cup page \cup lost)) \in Nat
    BY <1>5, Countable
  <1>9. Cardinality(Missed(seen \cup page, offset + Limit)) \in Nat /\ Cardinality(lost) \in Nat
    BY <1>4, Countable
  <1>. QED
    BY <1>6, <1>7, <1>8, <1>9

LEMMA NextShown ==
    ASSUME WalkInv, TypeOK', [Next]_vars, NoTies'
    PROVE  AllShown'
  <1>. USE DEF AllShown, AllPlacesPassed
  <1>1. /\ TypeOK /\ History /\ NoTies /\ Edges /\ AllShown
        /\ atStart \in SUBSET Todos /\ lost \in SUBSET Todos
    BY TiesStay DEF WalkInv, TypeOK
  <1>2. ASSUME NEW t \in Todos, Writer(t) PROVE AllShown'
    <2>1. UNCHANGED <<walk, offset, total, seen, atStart>>
      BY <1>2, Frames DEF walkVars
    <2>2. /\ lost \in SUBSET lost' /\ lost' \in SUBSET Todos
          /\ Cardinality(lost) <= Cardinality(lost')
      BY <1>1, <1>2, WriterCounts
    <2>3. Cardinality(atStart \ (seen \cup lost')) <= Cardinality(atStart \ (seen \cup lost))
      <3>1. /\ atStart \ (seen \cup lost) \in SUBSET Todos
            /\ atStart \ (seen \cup lost') \in SUBSET (atStart \ (seen \cup lost))
        BY <1>1, <2>2
      <3>. QED
        BY <3>1, PartIsNoLarger
    <2>4. /\ atStart \ (seen \cup lost) \in SUBSET Todos
          /\ atStart \ (seen \cup lost') \in SUBSET Todos
      BY <1>1
    <2>. QED
      BY <1>1, <2>1, <2>2, <2>3, <2>4, Countable
  <1>3. CASE Count
    <2>1. /\ walk = "counting" /\ walk' = "answered" /\ total' = Cardinality(Live)
          /\ seen' = seen \cup page /\ UNCHANGED <<offset, atStart, lost>>
      BY <1>3 DEF Count
    <2>2. offset + Limit >= Cardinality(Live)
          => Cardinality(atStart \ (seen \cup page \cup lost)) <= Cardinality(lost)
      BY <1>1, <2>1, CountedIsPassed DEF Edges
    <2>. QED
      BY <2>1, <2>2
  <1>4. CASE End
    BY <1>1, <1>4 DEF End
  <1>5. CASE List \/ Fail \/ AskNext
    BY <1>5 DEF List, Fail, AskNext
  <1>6. CASE Tick \/ UNCHANGED vars
    BY <1>1, <1>6, Frames DEF walkVars
  <1>. QED
    BY <1>2, <1>3, <1>4, <1>5, <1>6, NextSplit DEF Walking

LEMMA NextRepeats ==
    ASSUME WalkInv, TypeOK', [Next]_vars
    PROVE  InsertsRepeatOneEach'
  <1>. SUFFICES ASSUME walk' = "counting", NoTies'
                PROVE  Cardinality(page' \cap seen') <= Cardinality(Born')
    BY DEF InsertsRepeatOneEach
  <1>1. TypeOK /\ History /\ NoTies /\ Edges /\ InsertsRepeatOneEach
    BY TiesStay DEF WalkInv
  <1>2. ASSUME NEW t \in Todos, Writer(t)
        PROVE  Cardinality(page' \cap seen') <= Cardinality(Born')
    <2>1. UNCHANGED <<walk, page, seen>>
      BY <1>2, Frames DEF walkVars
    <2>2. /\ Cardinality(Born) <= Cardinality(Born')
          /\ Born \in SUBSET Todos /\ Born' \in SUBSET Todos
      BY <1>1, <1>2, WriterCounts
    <2>3. page \cap seen \in SUBSET Todos
      BY <1>1 DEF TypeOK
    <2>. QED
      BY <1>1, <2>1, <2>2, <2>3, Countable DEF InsertsRepeatOneEach
  <1>3. CASE List
    <2>1. PICK skipped \in Newest(offset), upto \in Newest(offset + Limit) :
             page' = upto \ skipped
      BY <1>3 DEF List
    <2>2. OneEach(seen, offset) /\ seen' = seen /\ Born' = Born
      BY <1>1, <1>3 DEF List, Edges, Born, Live, todoVars
    <2>. QED
      BY <1>1, <2>1, <2>2, PageMovesEdge
  <1>4. CASE Tick \/ UNCHANGED vars
    <2>1. UNCHANGED <<walk, page, seen>> /\ Born' = Born
      BY <1>4, Frames DEF todoVars, walkVars, Born, Live
    <2>. QED
      BY <1>1, <2>1 DEF InsertsRepeatOneEach
  <1>5. ~ (Count \/ Fail \/ AskNext \/ End)
    BY DEF Count, Fail, AskNext, End
  <1>. QED
    BY <1>2, <1>3, <1>4, <1>5, NextSplit DEF Walking

LEMMA NextInv == WalkInv /\ [Next]_vars => WalkInv'
  <1>. SUFFICES ASSUME WalkInv, [Next]_vars PROVE WalkInv'
    OBVIOUS
  <1>1. TypeOK' /\ History'
    BY NextType, NextHistory DEF WalkInv
  <1>2. PageFitsList' /\ TotalReachesPage'
    BY <1>1, NextTotal
  <1>3. NoTies' => Edges' /\ AllShown'
    BY <1>1, NextEdges, NextShown
  <1>4. InsertsRepeatOneEach'
    BY <1>1, NextRepeats
  <1>. QED
    BY <1>1, <1>2, <1>3, <1>4 DEF WalkInv

-----------------------------------------------------------------------------
(* The theorems.                                                           *)

\* The walk's invariant: the edge of the pages shown misses one todo for each
\* delete and repeats one for each commit, at most.
THEOREM Inductive == Spec => []WalkInv
  BY InitInv, NextInv, PTL DEF Spec

\* A client that trusts the total never stops before a page it was not shown,
\* but for todos deleted on the way: for any number of todos and page size.
THEOREM TotalIsEnough == Spec => []TotalReachesPage
  <1>1. WalkInv => TotalReachesPage
    BY DEF WalkInv
  <1>. QED
    BY <1>1, Inductive, PTL

\* A walk over todos created at different times misses at most one todo per
\* delete, whatever is committed, in any order, while it goes on.
THEOREM DeletesHideFew == Spec => []DeletesHideOneEach
  <1>1. WalkInv => DeletesHideOneEach
    BY DEF WalkInv, AllShown, AllPlacesPassed, DeletesHideOneEach
  <1>. QED
    BY <1>1, Inductive, PTL

\* Such a walk shows an item again only for todos committed on the way.
THEOREM InsertsRepeatFew == Spec => []InsertsRepeatOneEach
  <1>1. WalkInv => InsertsRepeatOneEach
    BY DEF WalkInv
  <1>. QED
    BY <1>1, Inductive, PTL
=============================================================================
