----------------------------- MODULE Deployment -----------------------------
(***************************************************************************)
(* From provisioned resources to a working service: postprovision.sh makes *)
(* the runtime identity and its grants, azd deploys the new revision,      *)
(* run_migrations.sh upgrades the schema and runs seed_data.py.            *)
(*                                                                         *)
(* Several machines may do this for one environment.  Any step may fail    *)
(* and the run be repeated from the start; "azd deploy" leaves the first   *)
(* hook out.  Each statement of the psql script commits by itself, the     *)
(* upgrade is one transaction, and so is what a seed run inserts.          *)
(* Meanwhile clients use the service, and may use the sample titles.       *)
(***************************************************************************)
EXTENDS Integers, Sequences

CONSTANTS Machines,
          Samples,       \* the titles of SAMPLE_TODOS, in order
          ClientTitles,  \* those that clients create and delete, too
          MaxCopies,     \* bound: todos of one title
          MaxRuns,       \* bound: runs begun by a machine that has finished one
          MaxFailures    \* bound: steps that fail

Titles == {Samples[i] : i \in 1 .. Len(Samples)}
Latest == 2     \* revisions: the table, then its trigger
Kinds == {"tables", "sequences"}
Rights == {"access"} \cup Kinds

ASSUME SamplesAssumption ==
    /\ Samples \in Seq(Titles) /\ Samples # << >>
    /\ \A i, j \in 1 .. Len(Samples) : i # j => Samples[i] # Samples[j]
ASSUME BoundsAssumption ==
    MaxCopies \in Nat /\ MaxRuns \in Nat /\ MaxFailures \in Nat

VARIABLES
    roles,      \* database roles: "admin", "runtime"
    rights,     \* what the runtime role may use
    defaults,   \* the kinds of object it will be given when they are made
    serving,    \* the new revision of the service is up
    schema,     \* the DDL of how many revisions is there
    version,    \* what alembic_version says
    copies,     \* title -> todos of that title
    at,         \* machine -> the step it is at
    over,       \* machine -> its run makes the grants, over an existing table
    full,       \* machine -> its run makes the grants
    seen,       \* machine -> the version its upgrade has read
    looked,     \* machine -> samples its seed run has looked for
    pending,    \* machine -> samples it will insert
    hasty,      \* the table was made by an "azd deploy"
    runs, failures

grantVars == <<roles, rights, defaults>>
schemaVars == <<schema, version, hasty>>
seedVars == <<looked, pending>>
runVars == <<over, full, runs>>
vars == <<grantVars, serving, schemaVars, copies, at, runVars, seen, seedVars, failures>>

Script == {"admin", "principal", "access", "tables", "sequences",
           "default_tables", "default_sequences"}
Steps == Script \cup {"idle", "deploy", "migrate", "upgrade", "look", "commit",
                      "done", "failed", "refused"}

\* Nothing is there yet, or the first revision has been deployed before.
Init ==
    /\ \E old \in BOOLEAN :
          /\ roles = IF old THEN {"admin", "runtime"} ELSE {}
          /\ rights = IF old THEN Rights ELSE {}
          /\ defaults = IF old THEN Kinds ELSE {}
          /\ version = IF old THEN 1 ELSE 0
    /\ schema = version
    /\ serving = FALSE
    /\ copies = [t \in Titles |-> 0]
    /\ at = [m \in Machines |-> "idle"]
    /\ over = [m \in Machines |-> FALSE]
    /\ full = [m \in Machines |-> FALSE]
    /\ seen = [m \in Machines |-> 0]
    /\ looked = [m \in Machines |-> 0]
    /\ pending = [m \in Machines |-> {}]
    /\ hasty = FALSE
    /\ runs = [m \in Machines |-> 0]
    /\ failures = 0

-----------------------------------------------------------------------------
(* Runs.                                                                   *)

Go(m, from, to) == at[m] = from /\ at' = [at EXCEPT ![m] = to]

\* An azd up that has failed is repeated; anything else a machine may be told
\* to do is told it at most MaxRuns times.
Begin(m, step) ==
    /\ at[m] \in {"idle", "failed", "refused", "done"}
    /\ IF step = "admin" /\ at[m] # "done"
         THEN UNCHANGED runs
         ELSE runs[m] < MaxRuns /\ runs' = [runs EXCEPT ![m] = @ + 1]
    /\ at' = [at EXCEPT ![m] = step]
    /\ full' = [full EXCEPT ![m] = step = "admin"]
    /\ over' = [over EXCEPT ![m] = step = "admin" /\ schema > 0]
    /\ UNCHANGED <<grantVars, serving, schemaVars, copies, seen, seedVars, failures>>

\* azd up; azd deploy.
Up(m) == Begin(m, "admin")
DeployOnly(m) == Begin(m, "deploy")

\* What the processes of m's run remember is gone with them.
Forgotten(m) ==
    /\ seen' = [seen EXCEPT ![m] = 0]
    /\ looked' = [looked EXCEPT ![m] = 0]
    /\ pending' = [pending EXCEPT ![m] = {}]

\* set -e, continueOnError: false.
Fail(m) ==
    /\ at[m] \notin {"idle", "failed", "refused", "done"}
    /\ failures < MaxFailures
    /\ failures' = failures + 1
    /\ at' = [at EXCEPT ![m] = "failed"]
    /\ Forgotten(m)
    /\ UNCHANGED <<grantVars, serving, schemaVars, copies, runVars>>

-----------------------------------------------------------------------------
(* postprovision.sh.                                                       *)

Granting == UNCHANGED <<serving, schemaVars, copies, runVars, seen, seedVars, failures>>

EnsureAdmin(m) ==
    /\ Go(m, "admin", "principal")
    /\ roles' = roles \cup {"admin"}
    /\ Granting /\ UNCHANGED <<rights, defaults>>

\* Mutant: without IF NOT EXISTS.
CreatePrincipalAnyway(m) ==
    /\ Go(m, "principal", IF "runtime" \in roles THEN "failed" ELSE "access")
    /\ roles' = roles \cup {"runtime"}
    /\ Granting /\ UNCHANGED <<rights, defaults>>

CreatePrincipal(m) ==
    /\ Go(m, "principal", "access")
    /\ roles' = roles \cup {"runtime"}
    /\ Granting /\ UNCHANGED <<rights, defaults>>

GrantAccess(m) ==
    /\ Go(m, "access", "tables")
    /\ rights' = rights \cup {"access"}
    /\ Granting /\ UNCHANGED <<roles, defaults>>

\* GRANT ... ON ALL TABLES, ON ALL SEQUENCES: on those there are.
GrantAll(m) ==
    /\ \E kind \in Kinds :
          /\ Go(m, kind, IF kind = "tables" THEN "sequences" ELSE "default_tables")
          /\ rights' = rights \cup IF schema > 0 THEN {kind} ELSE {}
    /\ Granting /\ UNCHANGED <<roles, defaults>>

\* Mutant: sequences are forgotten.
SetDefaultsOfTables(m) ==
    /\ \/ Go(m, "default_tables", "default_sequences")
       \/ Go(m, "default_sequences", "deploy")
    /\ defaults' = defaults \cup {"tables"}
    /\ Granting /\ UNCHANGED <<roles, rights>>

\* ALTER DEFAULT PRIVILEGES, which acts on what is made later.
SetDefaults(m) ==
    /\ \/ /\ Go(m, "default_tables", "default_sequences")
          /\ defaults' = defaults \cup {"tables"}
       \/ /\ Go(m, "default_sequences", "deploy")
          /\ defaults' = defaults \cup {"sequences"}
    /\ Granting /\ UNCHANGED <<roles, rights>>

-----------------------------------------------------------------------------
(* azd deploy and run_migrations.sh.                                       *)

\* The new revision serves before the postdeploy hook has begun.
Deploy(m) ==
    /\ Go(m, "deploy", "migrate")
    /\ serving' = TRUE
    /\ UNCHANGED <<grantVars, schemaVars, copies, runVars, seen, seedVars, failures>>

\* The hook logs in as the admin.
ReadVersion(m) ==
    /\ Go(m, "migrate", IF "admin" \in roles THEN "upgrade" ELSE "failed")
    /\ seen' = [seen EXCEPT ![m] = version]
    /\ UNCHANGED <<grantVars, serving, schemaVars, copies, runVars, seedVars, failures>>

\* What a run of the missing revisions leaves, its objects made by the admin.
Upgraded(m, stamp) ==
    /\ schema' = Latest
    /\ version' = stamp
    /\ rights' = rights \cup IF schema = 0 THEN defaults ELSE {}
    /\ hasty' = (hasty \/ (schema = 0 /\ ~ full[m]))

Migrating == UNCHANGED <<roles, defaults, serving, copies, runVars, failures>>

\* Mutant: the DDL is committed before its version is.
UpgradeByParts(m) ==
    /\ at[m] = "upgrade"
    /\ Forgotten(m)
    /\ Migrating
    /\ IF schema = seen[m]
         THEN \/ Go(m, "upgrade", "look") /\ Upgraded(m, Latest)
              \/ Go(m, "upgrade", "failed") /\ Upgraded(m, version)
         ELSE Go(m, "upgrade", "failed") /\ UNCHANGED <<rights, schemaVars>>

\* alembic upgrade head: all missing revisions and the version in one
\* transaction; it fails on objects another run has made meanwhile.
Upgrade(m) ==
    /\ at[m] = "upgrade"
    /\ Forgotten(m)
    /\ Migrating
    /\ IF schema = seen[m]
         THEN Go(m, "upgrade", "look") /\ Upgraded(m, Latest)
         ELSE Go(m, "upgrade", "failed") /\ UNCHANGED <<rights, schemaVars>>

Seeding == UNCHANGED <<grantVars, serving, schemaVars, runVars, failures>>

\* The SELECT by title of the next sample, and one_or_none().  After the last
\* one there is something to commit, or nothing to do.
Look(m) ==
    /\ at[m] = "look"
    /\ LET title == Samples[looked[m] + 1]
           new == pending[m] \cup IF copies[title] = 0 THEN {title} ELSE {}
           last == looked[m] + 1 = Len(Samples)
       IN
       \/ copies[title] > 1 /\ Go(m, "look", "refused") /\ Forgotten(m)
       \/ copies[title] <= 1 /\ last /\ new = {} /\ Go(m, "look", "done") /\ Forgotten(m)
       \/ /\ copies[title] <= 1 /\ ~ (last /\ new = {})
          /\ Go(m, "look", IF last THEN "commit" ELSE "look")
          /\ looked' = [looked EXCEPT ![m] = IF last THEN 0 ELSE @ + 1]
          /\ pending' = [pending EXCEPT ![m] = new]
          /\ UNCHANGED seen
    /\ UNCHANGED copies /\ Seeding

\* Mutant: each record is committed by itself.
CommitOneByOne(m) ==
    /\ at[m] = "commit"
    /\ \E t \in pending[m] :
          /\ copies[t] < MaxCopies
          /\ copies' = [copies EXCEPT ![t] = @ + 1]
          /\ pending' = [pending EXCEPT ![m] = @ \ {t}]
          /\ at' = [at EXCEPT ![m] = IF pending[m] = {t} THEN "done" ELSE @]
    /\ UNCHANGED <<seen, looked>> /\ Seeding

CommitSeed(m) ==
    /\ \A t \in pending[m] : copies[t] < MaxCopies
    /\ Go(m, "commit", "done")
    /\ copies' = [t \in Titles |-> copies[t] + IF t \in pending[m] THEN 1 ELSE 0]
    /\ Forgotten(m)
    /\ Seeding

-----------------------------------------------------------------------------
(* The service.                                                            *)

Usable == serving /\ "runtime" \in roles /\ rights = Rights /\ schema > 0

\* A client creates a todo of a sample title, or deletes one.
Client ==
    /\ Usable
    /\ \E t \in ClientTitles :
          \/ /\ copies[t] < MaxCopies
             /\ copies' = [copies EXCEPT ![t] = @ + 1]
          \/ /\ copies[t] > 0
             /\ copies' = [copies EXCEPT ![t] = @ - 1]
    /\ UNCHANGED <<grantVars, serving, schemaVars, at, runVars, seen, seedVars, failures>>

HookStep(m) ==
    \/ EnsureAdmin(m) \/ CreatePrincipal(m) \/ GrantAccess(m) \/ GrantAll(m)
    \/ SetDefaults(m) \/ Deploy(m) \/ ReadVersion(m) \/ Upgrade(m)
    \/ Look(m) \/ CommitSeed(m)

Next ==
    \/ \E m \in Machines : Up(m) \/ DeployOnly(m) \/ HookStep(m) \/ Fail(m)
    \/ Client

Spec == Init /\ [][Next]_vars

\* Commands end, and a run that has failed is repeated.
FairSpec ==
    /\ Spec
    /\ \A m \in Machines :
          /\ WF_vars(HookStep(m))
          /\ WF_vars(at[m] \in {"failed", "refused"} /\ Up(m))

-----------------------------------------------------------------------------
(* Properties.                                                             *)

\* Types, and: the schema is what alembic believes it is, whatever stopped, so
\* that the next upgrade can run.
TypeOK ==
    /\ roles \subseteq {"admin", "runtime"}
    /\ rights \subseteq Rights
    /\ defaults \subseteq Kinds
    /\ serving \in BOOLEAN /\ hasty \in BOOLEAN
    /\ schema \in 0 .. Latest
    /\ version \in 0 .. Latest
    /\ copies \in [Titles -> Nat]
    /\ at \in [Machines -> Steps]
    /\ over \in [Machines -> BOOLEAN] /\ full \in [Machines -> BOOLEAN]
    /\ seen \in [Machines -> 0 .. Latest]
    /\ looked \in [Machines -> 0 .. Len(Samples) - 1]
    /\ pending \in [Machines -> SUBSET Titles]
    /\ runs \in [Machines -> 0 .. MaxRuns]
    /\ failures \in 0 .. MaxFailures
    /\ schema = version

\* When a run that made the grants is done, the service works: the runtime
\* identity may use table and sequence, and the schema is there, whichever
\* machine made what and whatever failed before.  Excepted is a table that
\* an "azd deploy" made while the grants were under way, until the next full
\* run.
DoneMeansUsable ==
    \A m \in Machines :
        at[m] = "done" /\ full[m] /\ (over[m] \/ ~ hasty) => Usable /\ schema = Latest

\* Why it holds: what m's run has done when it is past some steps, and what a
\* table that a full run has made is given.
DoneSoFar(m) ==
    LET Past(steps) ==
            at[m] \notin {"idle", "failed", "refused", "admin", "principal"} \cup steps
    IN /\ Past({}) => "runtime" \in roles
       /\ Past({"access"}) => "access" \in rights
       /\ Past({"access", "tables"}) /\ over[m] => "tables" \in rights
       /\ Past({"access", "tables", "sequences"}) /\ over[m] => "sequences" \in rights
       /\ Past(Script \ {"default_sequences"}) => "tables" \in defaults
       /\ Past(Script) => "sequences" \in defaults
       /\ Past(Script \cup {"deploy"}) => serving
       /\ Past(Script \cup {"deploy", "migrate", "upgrade"}) => schema = Latest

\* What m's seed run has looked for, and nobody can have deleted meanwhile, is
\* in the table or about to be.
LookedFor(m) ==
    \A i \in 1 .. Len(Samples) :
        /\ Samples[i] \notin ClientTitles
        /\ at[m] = "commit" \/ (at[m] = "look" /\ i <= looked[m])
        => Samples[i] \in pending[m] \/ copies[Samples[i]] > 0

DeployInv ==
    /\ TypeOK
    /\ \A m \in Machines :
          /\ full[m] => DoneSoFar(m)
          /\ at[m] \in Script => full[m]
          /\ over[m] => schema > 0
          /\ LookedFor(m)
    /\ schema > 0 /\ ~ hasty => Kinds \subseteq rights

\* The samples are seeded together or not at all: no failure leaves some of
\* those clients leave alone without the others.
SeededTogether ==
    \A t, u \in Titles \ ClientTitles : copies[t] > 0 => copies[u] > 0

\* A revision that serves gets the schema it needs, even while every seed run
\* fails: migration comes before seeding, and no failure blocks it for good.
RevisionGetsItsSchema == serving ~> version = Latest

\* A run that was begun is completed in the end, unless there are two todos of
\* one sample title.
EveryRunCompletes ==
    [](\A t \in Titles : copies[t] <= 1) =>
        \A m \in Machines : at[m] = "admin" ~> at[m] = "done"

-----------------------------------------------------------------------------
(* What the repository says of the program, and the program does not do.   *)

\* "run migrations, seed data (idempotent)" (README.md:40): a seed run succeeds
\* on whatever earlier runs have left.
SeedIsIdempotent == \A m \in Machines : at[m] # "refused"
=============================================================================
