---------------------------- MODULE TodoListing ----------------------------
(***************************************************************************)
(* GET /todos: a client walks through the pages while todos come and go.   *)
(*                                                                         *)
(* A list request is two statements, the page (TodoRepository.list) and    *)
(* the total (TodoRepository.count), each of which sees what is committed  *)
(* when it runs (READ COMMITTED).  The page is cut out of the todos in     *)
(* descending order of created_at; todos with equal created_at come in any *)
(* order, another one at every statement.  created_at is the start of the  *)
(* creating transaction, which may commit after a later one.               *)
(***************************************************************************)
EXTENDS Integers, FiniteSets

CONSTANTS Todos,      \* the todos that may ever exist
          Seeded,     \* those that exist at first
          SeedTimes,  \* their created_at
          Limit,      \* limit of every request of the walk
          MaxTime,    \* bound of the clock
          MayDelete   \* do clients delete in this instance?

ASSUME ListingAssumption ==
    /\ IsFiniteSet(Todos) /\ Seeded \subseteq Todos
    /\ MaxTime \in Nat \ {0}
    /\ SeedTimes \in [Seeded -> 1 .. MaxTime]
    /\ Limit \in Nat \ {0}
    /\ MayDelete \in BOOLEAN

VARIABLES
    now,
    status,    \* todo -> "unborn", "open" (its INSERT not committed), "live", "gone"
    created,   \* todo -> created_at, 0 before its INSERT
    walk,      \* "asking", "counting" (between the two statements), "answered", "ended"
    offset,
    page,      \* the items of the request
    total,     \* the total of the last answer
    seen,      \* the items of the walk's answers
    atStart,   \* the todos that were there when the walk began
    lost       \* the todos deleted since

todoVars == <<status, created>>
walkVars == <<walk, offset, page, total, seen, atStart>>
vars == <<now, todoVars, walkVars, lost>>

Live == {t \in Todos : status[t] = "live"}

TypeOK ==
    /\ now \in 1 .. MaxTime
    /\ status \in [Todos -> {"unborn", "open", "live", "gone"}]
    /\ created \in [Todos -> 0 .. MaxTime]
    /\ walk \in {"asking", "counting", "answered", "ended"}
    /\ offset \in Nat
    /\ total \in Nat
    /\ {page, seen, atStart, lost} \subseteq SUBSET Todos

Init ==
    /\ now \in 1 .. MaxTime
    /\ \A t \in Seeded : SeedTimes[t] <= now
    /\ status = [t \in Todos |-> IF t \in Seeded THEN "live" ELSE "unborn"]
    /\ created = [t \in Todos |-> IF t \in Seeded THEN SeedTimes[t] ELSE 0]
    /\ walk = "asking"
    /\ offset = 0
    /\ page = {}
    /\ total = 0
    /\ seen = {}
    /\ atStart = Seeded
    /\ lost = {}

-----------------------------------------------------------------------------
(* The writers.                                                            *)

Tick ==
    /\ now < MaxTime
    /\ now' = now + 1
    /\ UNCHANGED <<todoVars, walkVars, lost>>

Become(t, from, to) ==
    /\ status[t] = from
    /\ status' = [status EXCEPT ![t] = to]

\* A POST's transaction begins: DEFAULT now() is fixed here.
BeginCreate(t) ==
    /\ Become(t, "unborn", "open")
    /\ created' = [created EXCEPT ![t] = now]
    /\ UNCHANGED <<now, walkVars, lost>>

CommitCreate(t) ==
    /\ Become(t, "open", "live")
    /\ UNCHANGED <<now, created, walkVars, lost>>

RollbackCreate(t) ==
    /\ Become(t, "open", "gone")
    /\ UNCHANGED <<now, created, walkVars, lost>>

Delete(t) ==
    /\ MayDelete
    /\ Become(t, "live", "gone")
    /\ lost' = lost \cup {t}
    /\ UNCHANGED <<now, created, walkVars>>

-----------------------------------------------------------------------------
(* The list request.                                                       *)

Smaller(a, b) == IF a < b THEN a ELSE b

\* Mutant: no ORDER BY.
AnyFirst(n) ==
    {first \in SUBSET Live : Cardinality(first) = Smaller(n, Cardinality(Live))}

\* What the first n rows may be: ORDER BY created_at DESC leaves ties open.
Newest(n) ==
    {first \in SUBSET Live :
        /\ Cardinality(first) = Smaller(n, Cardinality(Live))
        /\ \A t \in first, u \in Live \ first : created[t] >= created[u]}

\* The first statement: LIMIT and OFFSET.
List ==
    /\ walk = "asking"
    /\ walk' = "counting"
    /\ \E skipped \in Newest(offset), upto \in Newest(offset + Limit) :
          /\ skipped \subseteq upto
          /\ page' = upto \ skipped
    /\ UNCHANGED <<now, todoVars, offset, total, seen, atStart, lost>>

\* Mutant: the total is the number of todos behind the offset.
CountRest ==
    /\ walk = "counting"
    /\ walk' = "answered"
    /\ total' = Cardinality(Live) - offset
    /\ seen' = seen \cup page
    /\ UNCHANGED <<now, todoVars, offset, page, atStart, lost>>

\* The second statement, and the answer.
Count ==
    /\ walk = "counting"
    /\ walk' = "answered"
    /\ total' = Cardinality(Live)
    /\ seen' = seen \cup page
    /\ UNCHANGED <<now, todoVars, offset, page, atStart, lost>>

\* Either statement fails: internal_error, and the client asks again.
Fail ==
    /\ walk \in {"asking", "counting"}
    /\ walk' = "asking"
    /\ page' = {}
    /\ UNCHANGED <<now, todoVars, offset, total, seen, atStart, lost>>

-----------------------------------------------------------------------------
(* The client: the next offset until the total is reached.                 *)

AskNext ==
    /\ walk = "answered"
    /\ offset + Limit < total
    /\ walk' = "asking"
    /\ offset' = offset + Limit
    /\ page' = {}
    /\ UNCHANGED <<now, todoVars, total, seen, atStart, lost>>

End ==
    /\ walk = "answered"
    /\ offset + Limit >= total
    /\ walk' = "ended"
    /\ UNCHANGED <<now, todoVars, offset, page, total, seen, atStart, lost>>

Next ==
    \/ Tick
    \/ \E t \in Todos : BeginCreate(t) \/ CommitCreate(t) \/ RollbackCreate(t) \/ Delete(t)
    \/ List \/ Count \/ Fail \/ AskNext \/ End

Spec == Init /\ [][Next]_vars

-----------------------------------------------------------------------------
(* Properties.                                                             *)

\* No two todos were created at one time.
NoTies == \A t, u \in Todos : t # u /\ created[t] # 0 => created[t] # created[u]

\* The todos committed since the walk began.
Born == (Live \cup lost) \ atStart

\* The total of an answer reaches up to the last item of its page, except for
\* todos deleted since: what commits between the two statements cannot make a
\* client stop before a page it has not seen.
TotalReachesPage ==
    walk = "answered" /\ page # {}
        => total + Cardinality(lost) >= offset + Cardinality(page)

\* Where no two todos were created at one time, a walk that has ended has
\* shown every todo that was there from its start to its end, but for one per
\* todo deleted on the way: new todos, also those that commit late and land in
\* the middle of the order, hide nothing.
DeletesHideOneEach ==
    walk = "ended" /\ NoTies
        => Cardinality(atStart \ (seen \cup lost)) <= Cardinality(lost)

\* Where no two todos were created at one time, a page repeats what the walk
\* has shown only if todos were committed on the way, and then one item for each
\* of them at most: neither deletes nor failed and repeated requests do.
InsertsRepeatOneEach ==
    walk = "counting" /\ NoTies => Cardinality(page \cap seen) <= Cardinality(Born)

-----------------------------------------------------------------------------
(* The inductive invariant behind the three.                               *)

\* The place of t in the list, counted from 0, where there are no ties.
Above(t) == {u \in Live : created[u] > created[t]}
Rank(t) == Cardinality(Above(t))

\* What a client who was shown the todos "shown" has missed of the first b
\* places, and what will be shown to it again behind them.
Missed(shown, b) == {t \in (atStart \cap Live) \ shown : Rank(t) < b}
Repeated(shown, b) == {t \in shown \cap Live : Rank(t) >= b}

\* A delete lets one item slip over the edge of a page, a commit pushes one back.
OneEach(shown, b) ==
    /\ Cardinality(Missed(shown, b)) <= Cardinality(lost)
    /\ Cardinality(Repeated(shown, b)) <= Cardinality(Born)

\* created_at is set once, and nothing goes but into "lost".
History ==
    /\ \A t \in Todos : created[t] = 0 <=> status[t] = "unborn"
    /\ \A t \in atStart \cup seen \cup page : status[t] \in {"live", "gone"}
    /\ \A t \in lost : status[t] = "gone"
    /\ \A t \in atStart : status[t] = "gone" => t \in lost

\* What has been counted still covers the page that is about to be answered.
PageFitsList ==
    walk = "counting" /\ page # {} =>
        Cardinality(Live) + Cardinality(lost) >= offset + Cardinality(page)

\* The edge the walk has reached; until a page is answered, the one before it
\* counts too, since the walk may have to ask for the page again.
Edges ==
    /\ walk \in {"asking", "counting"} => OneEach(seen, offset)
    /\ walk = "counting" => OneEach(seen \cup page, offset + Limit)
    /\ walk = "answered" => OneEach(seen, offset + Limit)

AllPlacesPassed ==
    walk = "ended" \/ (walk = "answered" /\ offset + Limit >= total)

AllShown ==
    AllPlacesPassed => Cardinality(atStart \ (seen \cup lost)) <= Cardinality(lost)

WalkInv ==
    /\ TypeOK
    /\ History
    /\ PageFitsList
    /\ TotalReachesPage
    /\ NoTies => Edges /\ AllShown
    /\ InsertsRepeatOneEach

-----------------------------------------------------------------------------
(* What the repository says of the program, and the program does not do.   *)

\* "Ensure different items" (tests/test_todos.py:110): the pages of a walk
\* have no item in common, as long as nobody writes.
PagesAreDisjoint ==
    walk = "counting" /\ Live = atStart => page \cap seen = {}
=============================================================================
