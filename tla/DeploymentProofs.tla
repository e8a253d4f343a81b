-------------------------- MODULE DeploymentProofs --------------------------
(***************************************************************************)
(* DeployInv is inductive.  With it: a completed run leaves the service    *)
(* usable, and the samples are seeded together, for any machines, samples, *)
(* failures and repetitions.                                               *)
(***************************************************************************)
EXTENDS Deployment, TLAPS

USE DEF Latest, Kinds, Rights

\* The samples have titles, and there is one at least.
LEMMA SamplesHaveTitles ==
    /\ Len(Samples) \in Nat \ {0}
    /\ \A i \in 1 .. Len(Samples) : Samples[i] \in Titles
    /\ \A t \in Titles : \E i \in 1 .. Len(Samples) : Samples[i] = t
  <1>1. Samples \in Seq(Titles) /\ Samples # << >>  BY SamplesAssumption
  <1>2. Len(Samples) \in Nat \ {0}  BY <1>1
  <1>3. QED  BY <1>2 DEF Titles

\* Nothing has been done, or the first revision is there.
LEMMA Initially == Init => DeployInv
  <1> SUFFICES ASSUME Init PROVE DeployInv  OBVIOUS
  <1>1. TypeOK
    <2>1. looked \in [Machines -> 0 .. Len(Samples) - 1]
      BY SamplesHaveTitles DEF Init
    <2>2. /\ roles \subseteq {"admin", "runtime"} /\ rights \subseteq Rights
          /\ defaults \subseteq Kinds /\ version \in 0 .. Latest
      BY DEF Init
    <2>3. at \in [Machines -> Steps]
      BY DEF Init, Steps
    <2>4. runs \in [Machines -> 0 .. MaxRuns] /\ failures \in 0 .. MaxFailures
      BY BoundsAssumption DEF Init
    <2>5. /\ schema = version /\ serving \in BOOLEAN /\ hasty \in BOOLEAN
          /\ over \in [Machines -> BOOLEAN] /\ full \in [Machines -> BOOLEAN]
      BY DEF Init
    <2>6. /\ copies \in [Titles -> Nat] /\ seen \in [Machines -> 0 .. Latest]
          /\ pending \in [Machines -> SUBSET Titles]
      BY DEF Init
    <2>7. QED  BY <2>1, <2>2, <2>3, <2>4, <2>5, <2>6 DEF TypeOK
  <1>2. ASSUME NEW m \in Machines
        PROVE  ~ full[m] /\ at[m] \notin Script /\ ~ over[m] /\ LookedFor(m)
    BY DEF Init, Script, LookedFor
  <1>3. schema > 0 /\ ~ hasty => Kinds \subseteq rights
    BY DEF Init
  <1>4. QED  BY <1>1, <1>2, <1>3 DEF DeployInv

\* What a machine has done stays done while another one, or a client, acts.
LEMMA OthersUndoNothing ==
    ASSUME DeployInv, NEW n \in Machines,
           roles \subseteq roles', rights \subseteq rights', defaults \subseteq defaults',
           serving => serving', schema' \in {schema, Latest},
           at'[n] = at[n], full'[n] = full[n], over'[n] = over[n]
    PROVE  /\ full'[n] => DoneSoFar(n)'
           /\ at'[n] \in Script => full'[n]
           /\ over'[n] => schema' > 0
  <1>1. schema \in 0 .. Latest  BY DEF DeployInv, TypeOK
  <1>3. full[n] => DoneSoFar(n)  BY DEF DeployInv
  <1>4. full'[n] => DoneSoFar(n)'
    BY <1>1, <1>3 DEF DoneSoFar, Script
  <1>5. QED  BY <1>1, <1>4 DEF DeployInv

LEMMA OthersLeaveTheSearch ==
    ASSUME DeployInv, NEW n \in Machines,
           at'[n] = at[n], looked'[n] = looked[n], pending'[n] = pending[n],
           \A t \in Titles \ ClientTitles : copies[t] > 0 => copies'[t] > 0
    PROVE  LookedFor(n)'
  BY SamplesHaveTitles DEF DeployInv, LookedFor

-----------------------------------------------------------------------------
(* Runs.                                                                   *)

LEMMA BeginOK ==
    ASSUME DeployInv, NEW m \in Machines, NEW step \in {"admin", "deploy"}, Begin(m, step)
    PROVE  DeployInv'
  <1>1. TypeOK'
    <2>1. at' \in [Machines -> Steps]
      BY DEF DeployInv, TypeOK, Begin, Steps, Script
    <2>2. runs' \in [Machines -> 0 .. MaxRuns]
      <3>1. MaxRuns \in Nat /\ runs \in [Machines -> 0 .. MaxRuns]
        BY BoundsAssumption DEF DeployInv, TypeOK
      <3>2. CASE runs' = runs
        BY <3>1, <3>2
      <3>3. CASE runs[m] < MaxRuns /\ runs' = [runs EXCEPT ![m] = @ + 1]
        BY <3>1, <3>3
      <3>4. QED  BY <3>2, <3>3 DEF Begin
    <2>3. QED
      BY <2>1, <2>2 DEF DeployInv, TypeOK, Begin, grantVars, schemaVars, seedVars
  <1>2. ASSUME NEW n \in Machines, n # m
        PROVE  /\ full'[n] => DoneSoFar(n)'
               /\ at'[n] \in Script => full'[n]
               /\ over'[n] => schema' > 0
               /\ LookedFor(n)'
    <2>1. at'[n] = at[n] /\ full'[n] = full[n] /\ over'[n] = over[n]
      BY <1>2 DEF DeployInv, TypeOK, Begin
    <2>2. QED
      BY <2>1, OthersUndoNothing, OthersLeaveTheSearch
      DEF Begin, grantVars, schemaVars, seedVars
  <1>3. /\ at'[m] = step
        /\ full'[m] = (step = "admin")
        /\ over'[m] => schema > 0
    BY DEF DeployInv, TypeOK, Begin
  <1>4. full'[m] => DoneSoFar(m)'
    BY <1>3 DEF DoneSoFar, Script
  <1>5. at'[m] \in Script => full'[m]
    BY <1>3 DEF Script
  <1>6. LookedFor(m)'
    BY <1>3 DEF LookedFor
  <1>7. schema' > 0 /\ ~ hasty' => Kinds \subseteq rights'
    BY DEF DeployInv, Begin, grantVars, schemaVars
  <1>8. over'[m] => schema' > 0
    BY <1>3 DEF Begin, schemaVars
  <1>9. QED  BY <1>1, <1>2, <1>4, <1>5, <1>6, <1>7, <1>8 DEF DeployInv

LEMMA ForgottenOK ==
    ASSUME TypeOK, NEW m \in Machines, Forgotten(m)
    PROVE  /\ seen' \in [Machines -> 0 .. Latest]
           /\ looked' \in [Machines -> 0 .. Len(Samples) - 1] /\ looked'[m] = 0
           /\ pending' \in [Machines -> SUBSET Titles]
           /\ \A n \in Machines \ {m} :
                 seen'[n] = seen[n] /\ looked'[n] = looked[n] /\ pending'[n] = pending[n]
  <1>1. 0 \in 0 .. Len(Samples) - 1  BY SamplesHaveTitles
  <1>2. QED  BY <1>1 DEF TypeOK, Forgotten

LEMMA FailOK ==
    ASSUME DeployInv, NEW m \in Machines, Fail(m)
    PROVE  DeployInv'
  <1>1. at' = [at EXCEPT ![m] = "failed"]  BY DEF Fail
  <1>2. at' \in [Machines -> Steps] /\ at'[m] = "failed"
    BY <1>1 DEF DeployInv, TypeOK, Steps
  <1>3. failures' \in 0 .. MaxFailures
    BY BoundsAssumption DEF DeployInv, TypeOK, Fail
  <1>4. TypeOK'
    BY <1>2, <1>3, ForgottenOK DEF DeployInv, TypeOK, Fail, grantVars, schemaVars, runVars
  <1>5. ASSUME NEW n \in Machines, n # m
        PROVE  /\ full'[n] => DoneSoFar(n)'
               /\ at'[n] \in Script => full'[n]
               /\ over'[n] => schema' > 0
               /\ LookedFor(n)'
    BY <1>1, <1>5, ForgottenOK, OthersUndoNothing, OthersLeaveTheSearch
    DEF DeployInv, TypeOK, Fail, grantVars, schemaVars, runVars
  <1>6. DoneSoFar(m)' /\ at'[m] \notin Script /\ LookedFor(m)'
    BY <1>2 DEF DoneSoFar, Script, LookedFor
  <1>7. QED
    BY <1>4, <1>5, <1>6 DEF DeployInv, Fail, grantVars, schemaVars, runVars

-----------------------------------------------------------------------------
(* The steps of a run.  Each leaves its machine somewhere, and says there  *)
(* what it has added to what was done before.                              *)

LEMMA GoOK ==
    ASSUME TypeOK, NEW m \in Machines, NEW from, NEW to \in Steps, Go(m, from, to)
    PROVE  /\ at' \in [Machines -> Steps]
           /\ at[m] = from /\ at'[m] = to
           /\ \A n \in Machines \ {m} : at'[n] = at[n]
  BY DEF TypeOK, Go

\* A step of m that undoes nothing keeps the invariant, if it keeps the types
\* and what the invariant says of m.
LEMMA OneActs ==
    ASSUME DeployInv, TypeOK', NEW m \in Machines,
           over' = over, full' = full,
           \A n \in Machines \ {m} :
               at'[n] = at[n] /\ looked'[n] = looked[n] /\ pending'[n] = pending[n],
           roles \subseteq roles', rights \subseteq rights', defaults \subseteq defaults',
           serving => serving', schema' \in {schema, Latest},
           \A t \in Titles \ ClientTitles : copies[t] > 0 => copies'[t] > 0,
           full[m] => DoneSoFar(m)', at'[m] \in Script => full[m], LookedFor(m)',
           schema' > 0 /\ ~ hasty' => Kinds \subseteq rights'
    PROVE  DeployInv'
  <1>1. ASSUME NEW n \in Machines, n # m
        PROVE  /\ full'[n] => DoneSoFar(n)'
               /\ at'[n] \in Script => full'[n]
               /\ over'[n] => schema' > 0
               /\ LookedFor(n)'
    BY <1>1, OthersUndoNothing, OthersLeaveTheSearch
  <1>2. over'[m] => schema' > 0
    BY DEF DeployInv, TypeOK
  <1>3. QED
    BY <1>1, <1>2 DEF DeployInv

\* A statement of the psql script takes its machine to the next one, and adds
\* to what there is.
LEMMA GrantStep ==
    ASSUME DeployInv, NEW m \in Machines, NEW from \in Script,
           NEW to \in Script \cup {"deploy"}, Go(m, from, to), Granting,
           roles' \subseteq {"admin", "runtime"}, rights' \subseteq Rights,
           defaults' \subseteq Kinds,
           roles \subseteq roles', rights \subseteq rights', defaults \subseteq defaults',
           full[m] => DoneSoFar(m)'
    PROVE  DeployInv'
  <1>1. to \in Steps  BY DEF Steps
  <1>2. /\ at' \in [Machines -> Steps] /\ at[m] = from /\ at'[m] = to
        /\ \A n \in Machines \ {m} : at'[n] = at[n]
    BY <1>1, GoOK DEF DeployInv
  <1>3. /\ serving' = serving /\ schema' = schema /\ version' = version /\ hasty' = hasty
        /\ copies' = copies /\ over' = over /\ full' = full /\ runs' = runs /\ seen' = seen
        /\ looked' = looked /\ pending' = pending /\ failures' = failures
    BY DEF Granting, schemaVars, runVars, seedVars
  <1>4. TypeOK'
    BY <1>2, <1>3 DEF DeployInv, TypeOK
  <1>5. full[m]
    BY <1>2 DEF DeployInv
  <1>6. LookedFor(m)'
    BY <1>2 DEF LookedFor, Script
  <1>7. schema' > 0 /\ ~ hasty' => Kinds \subseteq rights'
    BY <1>3 DEF DeployInv
  <1>8. QED
    BY <1>2, <1>3, <1>4, <1>5, <1>6, <1>7, OneActs

LEMMA ScriptOK ==
    ASSUME DeployInv, NEW m \in Machines,
           \/ EnsureAdmin(m) \/ CreatePrincipal(m) \/ GrantAccess(m)
           \/ GrantAll(m) \/ SetDefaults(m)
    PROVE  DeployInv'
  <1>1. /\ roles \subseteq {"admin", "runtime"} /\ rights \subseteq Rights
        /\ defaults \subseteq Kinds
        /\ at \in [Machines -> Steps]
        /\ full[m] => DoneSoFar(m)
        /\ over[m] => schema > 0
    BY DEF DeployInv, TypeOK
  <1>2. Granting => over' = over /\ schema' = schema /\ serving' = serving
    BY DEF Granting, runVars, schemaVars
  <1>3. CASE EnsureAdmin(m)
    <2>1. at'[m] = "principal"
      BY <1>1, <1>3 DEF EnsureAdmin, Go
    <2>2. DoneSoFar(m)'
      BY <2>1 DEF DoneSoFar, Script
    <2>3. QED
      BY <1>1, <1>3, <2>2, GrantStep DEF EnsureAdmin, Script
  <1>4. CASE CreatePrincipal(m)
    <2>1. at'[m] = "access" /\ "runtime" \in roles'
      BY <1>1, <1>4 DEF CreatePrincipal, Go
    <2>2. DoneSoFar(m)'
      BY <2>1 DEF DoneSoFar, Script
    <2>3. QED
      BY <1>1, <1>4, <2>2, GrantStep DEF CreatePrincipal, Script
  <1>5. CASE GrantAccess(m)
    <2>1. at[m] = "access" /\ at'[m] = "tables" /\ roles' = roles /\ "access" \in rights'
      BY <1>1, <1>5 DEF GrantAccess, Go
    <2>2. full[m] => DoneSoFar(m)'
      BY <1>1, <2>1 DEF DoneSoFar, Script
    <2>3. QED
      BY <1>1, <1>5, <2>2, GrantStep DEF GrantAccess, Script
  <1>6. CASE GrantAll(m)
    <2> DEFINE next(kind) == IF kind = "tables" THEN "sequences" ELSE "default_tables"
    <2>1. PICK kind \in Kinds : Go(m, kind, next(kind))
                             /\ rights' = rights \cup IF schema > 0 THEN {kind} ELSE {}
      BY <1>6 DEF GrantAll
    <2>2. at[m] = kind /\ at'[m] = next(kind) /\ roles' = roles /\ Granting
      BY <1>1, <1>6, <2>1 DEF GrantAll, Go
    <2>3. CASE kind = "tables"
      <3>1. full[m] => DoneSoFar(m)'
        BY <1>1, <1>2, <2>1, <2>2, <2>3 DEF DoneSoFar, Script
      <3>2. QED
        BY <1>1, <1>6, <2>1, <2>3, <3>1, GrantStep DEF GrantAll, Script
    <2>4. CASE kind = "sequences"
      <3>1. full[m] => DoneSoFar(m)'
        BY <1>1, <1>2, <2>1, <2>2, <2>4 DEF DoneSoFar, Script
      <3>2. QED
        BY <1>1, <1>6, <2>1, <2>4, <3>1, GrantStep DEF GrantAll, Script
    <2>5. QED  BY <2>3, <2>4
  <1>7. CASE SetDefaults(m)
    <2>1. roles' = roles /\ rights' = rights /\ Granting
      BY <1>7 DEF SetDefaults
    <2>2. CASE Go(m, "default_tables", "default_sequences")
               /\ defaults' = defaults \cup {"tables"}
      <3>1. at[m] = "default_tables" /\ at'[m] = "default_sequences"
        BY <1>1, <2>2 DEF Go
      <3>2. full[m] => DoneSoFar(m)'
        BY <1>1, <1>2, <2>1, <2>2, <3>1 DEF DoneSoFar, Script
      <3>3. QED
        BY <1>1, <2>1, <2>2, <3>2, GrantStep DEF Script
    <2>3. CASE Go(m, "default_sequences", "deploy")
               /\ defaults' = defaults \cup {"sequences"}
      <3>1. at[m] = "default_sequences" /\ at'[m] = "deploy"
        BY <1>1, <2>3 DEF Go
      <3>2. full[m] => DoneSoFar(m)'
        BY <1>1, <1>2, <2>1, <2>3, <3>1 DEF DoneSoFar, Script
      <3>3. QED
        BY <1>1, <2>1, <2>3, <3>2, GrantStep DEF Script
    <2>4. QED  BY <1>7, <2>2, <2>3 DEF SetDefaults
  <1>8. QED  BY <1>3, <1>4, <1>5, <1>6, <1>7

-----------------------------------------------------------------------------
(* azd deploy, the upgrade and the seed run.                               *)

LEMMA DeployOK ==
    ASSUME DeployInv, NEW m \in Machines, Deploy(m) \/ ReadVersion(m)
    PROVE  DeployInv'
  <1> DEFINE to == IF at[m] = "deploy" THEN "migrate"
                   ELSE IF "admin" \in roles THEN "upgrade" ELSE "failed"
  <1>1. to \in Steps  BY DEF Steps
  <1>2. Go(m, at[m], to) /\ at[m] \in {"deploy", "migrate"}
    BY DEF Deploy, ReadVersion, Go
  <1>3. /\ at' \in [Machines -> Steps] /\ at'[m] = to
        /\ \A n \in Machines \ {m} : at'[n] = at[n]
    BY <1>1, <1>2, GoOK DEF DeployInv
  <1>4. /\ UNCHANGED <<grantVars, schemaVars, copies, runVars, seedVars, failures>>
        /\ serving' \in BOOLEAN /\ (serving => serving')
        /\ at[m] = "deploy" => serving'
        /\ seen' \in [Machines -> 0 .. Latest]
    <2>1. TypeOK  BY DEF DeployInv
    <2>2. CASE Deploy(m)
      BY <2>1, <2>2 DEF Deploy, TypeOK, seedVars
    <2>3. CASE ReadVersion(m)
      <3>1. version \in 0 .. Latest /\ seen' = [seen EXCEPT ![m] = version]
        BY <2>1, <2>3 DEF ReadVersion, TypeOK
      <3>2. seen' \in [Machines -> 0 .. Latest]
        BY <2>1, <3>1 DEF TypeOK
      <3>3. at[m] = "migrate" /\ serving' = serving
        BY <2>3 DEF ReadVersion, Go
      <3>4. QED  BY <2>1, <2>3, <3>2, <3>3 DEF ReadVersion, TypeOK
    <2>4. QED  BY <2>2, <2>3
  <1>5. TypeOK'
    BY <1>3, <1>4 DEF DeployInv, TypeOK, grantVars, schemaVars, runVars, seedVars
  <1>6. full[m] => DoneSoFar(m)'
    <2>1. full[m] => DoneSoFar(m)  BY DEF DeployInv
    <2>2. roles' = roles /\ rights' = rights /\ defaults' = defaults /\ over' = over
      BY <1>4 DEF grantVars, runVars
    <2>3. CASE at[m] = "deploy"
      BY <1>3, <1>4, <2>1, <2>2, <2>3 DEF DoneSoFar, Script
    <2>4. CASE at[m] = "migrate"
      BY <1>3, <1>4, <2>1, <2>2, <2>4 DEF DoneSoFar, Script
    <2>5. QED  BY <1>2, <2>3, <2>4
  <1>7. at'[m] \notin Script /\ LookedFor(m)'
    BY <1>2, <1>3 DEF Script, LookedFor
  <1>8. QED
    BY <1>3, <1>4, <1>5, <1>6, <1>7, OneActs
    DEF DeployInv, grantVars, schemaVars, runVars, seedVars

\* A table that a full run makes is given what the defaults say; a table that
\* is there already keeps what it has.
LEMMA UpgradeOK ==
    ASSUME DeployInv, NEW m \in Machines, Upgrade(m)
    PROVE  DeployInv'
  <1>1. at[m] = "upgrade" /\ Forgotten(m) /\ Migrating
    BY DEF Upgrade
  <1>2. \/ Go(m, "upgrade", "look") /\ Upgraded(m, Latest)
        \/ Go(m, "upgrade", "failed") /\ UNCHANGED <<rights, schemaVars>>
    BY DEF Upgrade
  <1>3. /\ at' \in [Machines -> Steps]
        /\ at'[m] = "look" \/ at'[m] = "failed"
        /\ \A n \in Machines \ {m} : at'[n] = at[n]
    BY <1>2, GoOK DEF DeployInv, Steps
  <1>4. /\ schema \in 0 .. Latest /\ schema = version
        /\ rights \subseteq Rights /\ defaults \subseteq Kinds
        /\ full[m] => DoneSoFar(m)
        /\ schema > 0 /\ ~ hasty => Kinds \subseteq rights
    BY DEF DeployInv, TypeOK
  <1>5. /\ schema' \in {schema, Latest} /\ schema' = version'
        /\ hasty' \in BOOLEAN /\ rights \subseteq rights' /\ rights' \subseteq Rights
    BY <1>2, <1>4 DEF Upgraded, DeployInv, TypeOK, schemaVars
  <1>6. /\ roles' = roles /\ defaults' = defaults /\ serving' = serving /\ copies' = copies
        /\ over' = over /\ full' = full /\ runs' = runs /\ failures' = failures
    BY <1>1 DEF Migrating, runVars
  <1>7. TypeOK'
    <2>1. TypeOK  BY DEF DeployInv
    <2>2. /\ seen' \in [Machines -> 0 .. Latest]
          /\ looked' \in [Machines -> 0 .. Len(Samples) - 1]
          /\ pending' \in [Machines -> SUBSET Titles]
      BY <1>1, <2>1, ForgottenOK
    <2>3. QED  BY <1>3, <1>4, <1>5, <1>6, <2>1, <2>2 DEF TypeOK
  <1>8. full[m] => DoneSoFar(m)'
    <2>1. CASE at'[m] = "look"
      <3>1. schema' = Latest
        BY <1>2, <1>3, <2>1, GoOK DEF Upgraded, DeployInv, Steps
      <3>2. QED  BY <1>1, <1>4, <1>5, <1>6, <2>1, <3>1 DEF DoneSoFar, Script
    <2>2. CASE at'[m] = "failed"
      BY <2>2 DEF DoneSoFar, Script
    <2>3. QED  BY <1>3, <2>1, <2>2
  <1>9. LookedFor(m)'
    BY <1>1, <1>3, ForgottenOK DEF LookedFor, DeployInv
  <1>10. schema' > 0 /\ ~ hasty' => Kinds \subseteq rights'
    <2>1. CASE Upgraded(m, Latest) /\ schema = 0 /\ full[m]
      <3>1. defaults = Kinds
        BY <1>1, <1>4, <2>1 DEF DoneSoFar, Script
      <3>2. QED  BY <2>1, <3>1 DEF Upgraded
    <2>2. CASE Upgraded(m, Latest) /\ ~ (schema = 0 /\ full[m])
      <3>1. ~ hasty' => ~ hasty /\ schema # 0
        BY <2>2 DEF Upgraded
      <3>2. QED  BY <1>4, <1>5, <3>1
    <2>3. CASE UNCHANGED <<rights, schemaVars>>
      BY <1>4, <2>3 DEF schemaVars
    <2>4. QED  BY <1>2, <2>1, <2>2, <2>3
  <1>11. QED
    <2>1. \A n \in Machines \ {m} : looked'[n] = looked[n] /\ pending'[n] = pending[n]
      BY <1>1, ForgottenOK DEF DeployInv
    <2>2. at'[m] \notin Script  BY <1>3 DEF Script
    <2>3. QED  BY <1>3, <1>5, <1>6, <1>7, <1>8, <1>9, <1>10, <2>1, <2>2, OneActs

LEMMA LookOK ==
    ASSUME DeployInv, NEW m \in Machines, Look(m)
    PROVE  DeployInv'
  <1> DEFINE title == Samples[looked[m] + 1]
             new == pending[m] \cup IF copies[title] = 0 THEN {title} ELSE {}
             last == looked[m] + 1 = Len(Samples)
             to == IF last THEN "commit" ELSE "look"
  <1>1. TypeOK /\ LookedFor(m) /\ at[m] = "look" /\ (full[m] => DoneSoFar(m))
    BY DEF DeployInv, Look
  <1>2. looked[m] + 1 \in 1 .. Len(Samples) /\ title \in Titles
    BY <1>1, SamplesHaveTitles DEF TypeOK
  <1>3. /\ copies' = copies /\ UNCHANGED <<grantVars, serving, schemaVars, runVars, failures>>
    BY DEF Look, Seeding
  <1>4. ASSUME at'[m] \in {"refused", "done", "commit", "look"}, TypeOK',
               \A n \in Machines \ {m} :
                   at'[n] = at[n] /\ looked'[n] = looked[n] /\ pending'[n] = pending[n],
               LookedFor(m)'
        PROVE  DeployInv'
    <2>1. full[m] => DoneSoFar(m)'
      BY <1>1, <1>3, <1>4 DEF DoneSoFar, Script, grantVars, schemaVars, runVars
    <2>2. at'[m] \notin Script  BY <1>4 DEF Script
    <2>3. QED
      BY <1>3, <1>4, <2>1, <2>2, OneActs DEF DeployInv, grantVars, schemaVars, runVars
  <1>5. ASSUME NEW end \in {"refused", "done"}, Go(m, "look", end), Forgotten(m)
        PROVE  DeployInv'
    <2>1. /\ at' \in [Machines -> Steps] /\ at'[m] = end
          /\ \A n \in Machines \ {m} : at'[n] = at[n]
      BY <1>1, <1>5, GoOK DEF Steps
    <2>2. TypeOK'
      BY <1>1, <1>3, <1>5, <2>1, ForgottenOK DEF TypeOK, grantVars, schemaVars, runVars
    <2>3. LookedFor(m)'
      BY <2>1 DEF LookedFor
    <2>4. QED  BY <1>1, <1>4, <1>5, <2>1, <2>2, <2>3, ForgottenOK
  <1>6. ASSUME Go(m, "look", to), UNCHANGED seen,
               looked' = [looked EXCEPT ![m] = IF last THEN 0 ELSE @ + 1],
               pending' = [pending EXCEPT ![m] = new]
        PROVE  DeployInv'
    <2>1. /\ at' \in [Machines -> Steps] /\ at'[m] = to
          /\ \A n \in Machines \ {m} : at'[n] = at[n]
      BY <1>1, <1>6, GoOK DEF Steps
    <2>2. /\ looked' \in [Machines -> 0 .. Len(Samples) - 1]
          /\ looked'[m] = IF last THEN 0 ELSE looked[m] + 1
      <3>1. (IF last THEN 0 ELSE looked[m] + 1) \in 0 .. Len(Samples) - 1
        BY <1>1, <1>2, SamplesHaveTitles DEF TypeOK
      <3>2. QED  BY <1>1, <1>6, <3>1 DEF TypeOK
    <2>3. pending' \in [Machines -> SUBSET Titles] /\ pending'[m] = new
      BY <1>1, <1>2, <1>6 DEF TypeOK
    <2>4. TypeOK'
      BY <1>1, <1>3, <1>6, <2>1, <2>2, <2>3 DEF TypeOK, grantVars, schemaVars, runVars
    <2>5. LookedFor(m)'
      <3> SUFFICES ASSUME NEW i \in 1 .. Len(Samples), Samples[i] \notin ClientTitles,
                          last \/ i <= looked[m] + 1
                   PROVE  Samples[i] \in pending'[m] \/ copies'[Samples[i]] > 0
        BY <1>1, <2>1, <2>2 DEF LookedFor, TypeOK
      <3>1. CASE i <= looked[m]
        BY <1>1, <1>3, <2>3, <3>1 DEF LookedFor
      <3>2. CASE i = looked[m] + 1
        <4>1. copies[title] \in Nat  BY <1>1, <1>2 DEF TypeOK
        <4>2. QED  BY <1>3, <2>3, <3>2, <4>1
      <3>3. QED  BY <1>1, <3>1, <3>2 DEF TypeOK
    <2>6. \A n \in Machines \ {m} : looked'[n] = looked[n] /\ pending'[n] = pending[n]
      BY <1>1, <1>6 DEF TypeOK
    <2>7. QED  BY <1>4, <2>1, <2>4, <2>5, <2>6
  <1>7. QED
    BY <1>5, <1>6 DEF Look

LEMMA CommitOK ==
    ASSUME DeployInv, NEW m \in Machines, CommitSeed(m)
    PROVE  DeployInv'
  <1>1. TypeOK /\ (full[m] => DoneSoFar(m))
    BY DEF DeployInv
  <1>2. /\ at' \in [Machines -> Steps] /\ at[m] = "commit" /\ at'[m] = "done"
        /\ \A n \in Machines \ {m} : at'[n] = at[n]
    BY <1>1, GoOK DEF CommitSeed, Steps
  <1>3. UNCHANGED <<grantVars, serving, schemaVars, runVars, failures>> /\ Forgotten(m)
    BY DEF CommitSeed, Seeding
  <1>4. /\ copies' \in [Titles -> Nat]
        /\ \A t \in Titles : copies[t] > 0 => copies'[t] > 0
    BY <1>1 DEF CommitSeed, TypeOK
  <1>5. TypeOK'
    BY <1>1, <1>2, <1>3, <1>4, ForgottenOK DEF TypeOK, grantVars, schemaVars, runVars
  <1>6. full[m] => DoneSoFar(m)'
    BY <1>1, <1>2, <1>3 DEF DoneSoFar, Script, grantVars, schemaVars, runVars
  <1>7. at'[m] \notin Script /\ LookedFor(m)'
    BY <1>2 DEF Script, LookedFor
  <1>8. \A n \in Machines \ {m} : looked'[n] = looked[n] /\ pending'[n] = pending[n]
    BY <1>1, <1>3, ForgottenOK
  <1>9. QED
    BY <1>2, <1>3, <1>4, <1>5, <1>6, <1>7, <1>8, OneActs
    DEF DeployInv, grantVars, schemaVars, runVars

\* Clients touch titles that LookedFor does not speak of.
LEMMA ClientOK ==
    ASSUME DeployInv, Client
    PROVE  DeployInv'
  <1>1. PICK t \in ClientTitles :
            \/ copies' = [copies EXCEPT ![t] = @ + 1]
            \/ copies[t] > 0 /\ copies' = [copies EXCEPT ![t] = @ - 1]
    BY DEF Client
  <1>2. /\ copies' \in [Titles -> Nat]
        /\ \A u \in Titles \ ClientTitles : copies'[u] = copies[u]
    <2>1. copies \in [Titles -> Nat]  BY DEF DeployInv, TypeOK
    <2>2. CASE t \in Titles
      <3>1. copies[t] \in Nat  BY <2>1, <2>2
      <3>2. CASE copies' = [copies EXCEPT ![t] = @ + 1]
        <4>1. copies[t] + 1 \in Nat  BY <3>1
        <4>2. QED  BY <2>1, <3>2, <4>1
      <3>3. CASE copies[t] > 0 /\ copies' = [copies EXCEPT ![t] = @ - 1]
        <4>1. copies[t] - 1 \in Nat  BY <3>1, <3>3
        <4>2. QED  BY <2>1, <3>3, <4>1
      <3>4. QED  BY <1>1, <3>2, <3>3
    <2>3. CASE t \notin Titles
      <3>1. copies' = copies  BY <1>1, <2>1, <2>3
      <3>2. QED  BY <2>1, <3>1
    <2>4. QED  BY <2>2, <2>3
  <1>3. UNCHANGED <<grantVars, serving, schemaVars, at, runVars, seen, seedVars, failures>>
    BY DEF Client
  <1>4. TypeOK'
    BY <1>2, <1>3 DEF DeployInv, TypeOK, grantVars, schemaVars, runVars, seedVars
  <1>5. ASSUME NEW n \in Machines
        PROVE  /\ full'[n] => DoneSoFar(n)'
               /\ at'[n] \in Script => full'[n]
               /\ over'[n] => schema' > 0
               /\ LookedFor(n)'
    BY <1>2, <1>3, OthersUndoNothing, OthersLeaveTheSearch
    DEF grantVars, schemaVars, runVars, seedVars
  <1>6. QED
    BY <1>3, <1>4, <1>5 DEF DeployInv, grantVars, schemaVars

-----------------------------------------------------------------------------
(* The theorems.                                                           *)

LEMMA EveryStep == DeployInv /\ [Next]_vars => DeployInv'
  <1> SUFFICES ASSUME DeployInv, [Next]_vars PROVE DeployInv'
    OBVIOUS
  <1>1. CASE Client  BY <1>1, ClientOK
  <1>2. ASSUME NEW m \in Machines, Up(m) \/ DeployOnly(m)
        PROVE  DeployInv'
    BY <1>2, BeginOK DEF Up, DeployOnly
  <1>3. ASSUME NEW m \in Machines, Fail(m)
        PROVE  DeployInv'
    BY <1>3, FailOK
  <1>4. ASSUME NEW m \in Machines, HookStep(m)
        PROVE  DeployInv'
    BY <1>4, ScriptOK, DeployOK, UpgradeOK, LookOK, CommitOK DEF HookStep
  <1>5. CASE UNCHANGED vars
    <2>1. TypeOK'
      BY <1>5 DEF DeployInv, TypeOK, vars, grantVars, schemaVars, runVars, seedVars
    <2>2. ASSUME NEW n \in Machines
          PROVE  /\ full'[n] => DoneSoFar(n)'
                 /\ at'[n] \in Script => full'[n]
                 /\ over'[n] => schema' > 0
                 /\ LookedFor(n)'
      BY <1>5, OthersUndoNothing, OthersLeaveTheSearch
      DEF vars, grantVars, schemaVars, runVars, seedVars
    <2>3. QED
      BY <1>5, <2>1, <2>2 DEF DeployInv, vars, grantVars, schemaVars
  <1>6. QED  BY <1>1, <1>2, <1>3, <1>4, <1>5 DEF Next

\* The schema is what alembic believes it is, and what a run has done stays
\* done, whatever fails and whoever else deploys.
THEOREM Inductive == Spec => []DeployInv
  <1>1. Init => DeployInv  BY Initially
  <1>2. DeployInv /\ [Next]_vars => DeployInv'  BY EveryStep
  <1>3. QED  BY <1>1, <1>2, PTL DEF Spec

\* A completed run that made the grants leaves a service that can use its
\* table, but for a table that an "azd deploy" made meanwhile.
THEOREM DoneIsUsable == Spec => []DoneMeansUsable
  <1>1. DeployInv => DoneMeansUsable
    <2> SUFFICES ASSUME DeployInv, NEW m \in Machines,
                        at[m] = "done", full[m], over[m] \/ ~ hasty
                 PROVE  Usable /\ schema = Latest
      BY DEF DoneMeansUsable
    <2>1. DoneSoFar(m) /\ rights \subseteq Rights /\ (schema > 0 /\ ~ hasty => Kinds \subseteq rights)
      BY DEF DeployInv, TypeOK
    <2>2. /\ "runtime" \in roles /\ "access" \in rights /\ serving /\ schema = Latest
          /\ over[m] => Kinds \subseteq rights
      BY <2>1 DEF DoneSoFar, Script
    <2>3. Kinds \subseteq rights
      <3>1. CASE over[m]  BY <2>2, <3>1
      <3>2. CASE ~ over[m]
        <4>1. ~ hasty /\ schema > 0  BY <2>2, <3>2
        <4>2. QED  BY <2>1, <4>1
      <3>3. QED  BY <3>1, <3>2
    <2>4. rights = Rights  BY <2>1, <2>2, <2>3
    <2>5. QED  BY <2>2, <2>4 DEF Usable
  <1>2. QED  BY <1>1, Inductive, PTL

\* The samples that clients leave alone are in the table together or not at
\* all, whatever seed runs fail or overlap.
THEOREM SamplesGoTogether == Spec => []SeededTogether
  <1>1. Init => SeededTogether
    BY DEF Init, SeededTogether
  <1>2. DeployInv /\ SeededTogether /\ [Next]_vars => SeededTogether'
    <2> SUFFICES ASSUME DeployInv, SeededTogether, [Next]_vars,
                        NEW t \in Titles \ ClientTitles, NEW u \in Titles \ ClientTitles,
                        copies'[t] > 0
                 PROVE  copies'[u] > 0
      BY DEF SeededTogether
    <2>1. copies \in [Titles -> Nat]  BY DEF DeployInv, TypeOK
    <2>2. CASE copies'[t] = copies[t] /\ copies'[u] = copies[u]
      BY <2>2 DEF SeededTogether
    <2>3. ASSUME NEW m \in Machines, CommitSeed(m)
          PROVE  copies'[u] > 0
      <3>1. PICK i \in 1 .. Len(Samples) : Samples[i] = u
        BY SamplesHaveTitles
      <3>2. u \in pending[m] \/ copies[u] > 0
        BY <2>3, <3>1 DEF DeployInv, LookedFor, CommitSeed, Go
      <3>3. QED  BY <2>1, <2>3, <3>2 DEF CommitSeed
    <2>4. CASE Client
      BY <2>1, <2>2, <2>4 DEF Client
    <2>5. ASSUME NEW m \in Machines, ~ CommitSeed(m),
                 Up(m) \/ DeployOnly(m) \/ HookStep(m) \/ Fail(m)
          PROVE  copies' = copies
      BY <2>5 DEF Up, DeployOnly, Begin, Fail, HookStep, EnsureAdmin, CreatePrincipal,
         GrantAccess, GrantAll, SetDefaults, Granting, Deploy, ReadVersion, Upgrade,
         Migrating, Look
    <2>6. CASE UNCHANGED vars
      BY <2>2, <2>6 DEF vars
    <2>7. QED  BY <2>2, <2>3, <2>4, <2>5, <2>6 DEF Next
  <1>3. QED  BY <1>1, <1>2, Inductive, PTL DEF Spec
=============================================================================
