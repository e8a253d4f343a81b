---------------------------- MODULE Provisioning ----------------------------
(***************************************************************************)
(* The pre-provision hook (infra/hooks/preprovision.sh): it finds or       *)
(* creates the two app registrations of an environment, gives them roles,  *)
(* principals, assignments and a secret, and writes the results into the   *)
(* azd environment, which is kept on the machine that runs it.             *)
(*                                                                         *)
(* Each step is one call of az or azd.  Most failures end the hook (set    *)
(* -e); it is then run again, by hand, from the start.  Where set -e does  *)
(* not reach (a command substitution, a condition), a failure goes on      *)
(* unnoticed.  Two machines may provision the same environment at once.    *)
(*                                                                         *)
(* The roles Todos.Read and Todos.Write are patched together and have one  *)
(* id here; the id a machine generates is named after the machine.         *)
(***************************************************************************)
EXTENDS Integers, Sequences, FiniteSets

CONSTANTS Machines,
          MaxSetbacks, \* bound on failures and on runs after a completed one
          Noticed,     \* failures that end the hook may happen
          Unnoticed,   \* failures that do not end it may happen
          None

ASSUME BoundsAssumption ==
    /\ IsFiniteSet(Machines) /\ None \notin Machines
    /\ MaxSetbacks \in Nat
    /\ {Noticed, Unnoticed} \subseteq BOOLEAN

VARIABLES
    \* the directory
    roles,      \* API registrations of the name, in order: id of their roles
    secrets,    \* client registrations of the name, in order: their secrets
    uris,       \* API registrations with an identifier URI
    principals, \* <<"api", a>> and <<"client", c>> with a service principal
    granted,    \* <<client, api, role>> assignments
    issued,     \* secrets issued so far
    \* the machines
    env,        \* machine -> what its azd environment holds
    pc,         \* machine -> the call its hook is at
    run,        \* machine -> shell variables of its hook
    faults,     \* failures and interruptions so far
    reruns      \* runs begun after a completed one so far

directory == <<roles, secrets, uris, principals, granted, issued>>
counters == <<faults, reruns>>
vars == <<directory, env, pc, run, counters>>

NoEnv == [api |-> 0, client |-> 0, secret |-> 0, role |-> None]
NoRun == [api |-> 0, client |-> 0, secret |-> 0, role |-> None, known |-> NoEnv,
          apiSp |-> FALSE, clientSp |-> FALSE, unnoticed |-> FALSE]

Calls == {"list_apis", "create_api", "set_uri", "show_roles", "patch_roles",
          "read_back", "list_clients", "create_client", "api_sp", "client_sp",
          "assign_read", "assign_write", "secret", "save_api", "save_client",
          "save_secret", "save_roles"}

Init ==
    /\ roles = <<>> /\ secrets = <<>>
    /\ uris = {} /\ principals = {} /\ granted = {}
    /\ issued = 0
    /\ env = [m \in Machines |-> NoEnv]
    /\ pc = [m \in Machines |-> "idle"]
    /\ run = [m \in Machines |-> NoRun]
    /\ faults = 0 /\ reruns = 0

-----------------------------------------------------------------------------

Go(m, from, to) == pc[m] = from /\ pc' = [pc EXCEPT ![m] = to]
Learn(m, variable, value) == run' = [run EXCEPT ![m][variable] = value]
Save(m, key, value) == env' = [env EXCEPT ![m][key] = value]

\* The hook's process ends, and its shell variables with it.
Quit(m, from) ==
    /\ Go(m, from, "idle")
    /\ run' = [run EXCEPT ![m] = NoRun]
    /\ UNCHANGED <<directory, env>>

\* One more failure that the hook does not notice.
Overlook ==
    /\ Unnoticed
    /\ faults + reruns < MaxSetbacks
    /\ faults' = faults + 1
    /\ UNCHANGED reruns

\* The hook starts and reads the azd environment.
Begin(m, from) ==
    /\ Go(m, from, "list_apis")
    /\ run' = [run EXCEPT ![m] = [NoRun EXCEPT !.known = env[m]]]
    /\ UNCHANGED <<directory, env>>

Start(m) == Begin(m, "idle") /\ UNCHANGED counters

\* Provisioning once more after a completed run.
Rerun(m) ==
    /\ faults + reruns < MaxSetbacks
    /\ Begin(m, "done")
    /\ reruns' = reruns + 1
    /\ UNCHANGED faults

\* azd env get-values fails: the environment counts as empty.
StartBlind(m) ==
    /\ Go(m, "idle", "list_apis")
    /\ run' = [run EXCEPT ![m] = NoRun]
    /\ Overlook
    /\ UNCHANGED <<directory, env>>

-----------------------------------------------------------------------------
(* The API registration and its roles.                                     *)

\* az ad app list: any of several registrations of the name comes first.
FindApi(m) ==
    /\ Go(m, "list_apis", "set_uri")
    /\ \E a \in DOMAIN roles : Learn(m, "api", a)
    /\ UNCHANGED <<directory, env, counters>>

\* Mutant: only what the azd environment names is taken to exist.
FindNoSavedApi(m) ==
    /\ run[m].known.api = 0
    /\ Go(m, "list_apis", "create_api")
    /\ UNCHANGED <<directory, env, run, counters>>

FindNoApi(m) ==
    /\ roles = <<>>
    /\ Go(m, "list_apis", "create_api")
    /\ UNCHANGED <<directory, env, run, counters>>

CreateApi(m) ==
    /\ Go(m, "create_api", "set_uri")
    /\ roles' = Append(roles, None)
    /\ Learn(m, "api", Len(roles'))
    /\ UNCHANGED <<secrets, uris, principals, granted, issued, env, counters>>

SetUri(m) ==
    /\ Go(m, "set_uri", "show_roles")
    /\ uris' = uris \cup {run[m].api}
    /\ UNCHANGED <<roles, secrets, principals, granted, issued, env, run, counters>>

FirstOf(a, b) == IF a # None THEN a ELSE b

\* Mutant: the machine's own id goes before that of the registration.
PatchOwnId(m) == FirstOf(run[m].known.role, m)

\* The id in the PATCH: a role the registration has stays as it is; a new one
\* gets the id of the azd environment, or a random one.
PatchId(m) ==
    FirstOf(roles[run[m].api], FirstOf(run[m].known.role, m))

ShowRoles(m) ==
    /\ Go(m, "show_roles", "patch_roles")
    /\ Learn(m, "role", PatchId(m))
    /\ UNCHANGED <<directory, env, counters>>

\* PATCH .../applications: the directory does not let an enabled role go.
PatchRoles(m) ==
    /\ Go(m, "patch_roles", "read_back")
    /\ roles[run[m].api] \in {None, run[m].role}
    /\ roles' = [roles EXCEPT ![run[m].api] = run[m].role]
    /\ UNCHANGED <<secrets, uris, principals, granted, issued, env, run, counters>>

\* Roles that were added since they were shown: five attempts, then set -e.
PatchRejected(m) ==
    /\ Quit(m, "patch_roles")
    /\ roles[run[m].api] \notin {None, run[m].role}
    /\ UNCHANGED counters

ReadBackRoles(m) ==
    /\ Go(m, "read_back", "list_clients")
    /\ Learn(m, "role", roles[run[m].api])
    /\ UNCHANGED <<directory, env, counters>>

-----------------------------------------------------------------------------
(* The client registration, the principals and the assignments.            *)

FindClient(m) ==
    /\ Go(m, "list_clients", "api_sp")
    /\ \E c \in DOMAIN secrets : Learn(m, "client", c)
    /\ UNCHANGED <<directory, env, counters>>

\* Mutant: an empty list is taken for a registration.
FindNoClientAndGoOn(m) ==
    /\ secrets = <<>>
    /\ Go(m, "list_clients", "api_sp")
    /\ UNCHANGED <<directory, env, run, counters>>

FindNoClient(m) ==
    /\ secrets = <<>>
    /\ Go(m, "list_clients", "create_client")
    /\ UNCHANGED <<directory, env, run, counters>>

CreateClient(m) ==
    /\ Go(m, "create_client", "api_sp")
    /\ secrets' = Append(secrets, {})
    /\ Learn(m, "client", Len(secrets'))
    /\ UNCHANGED <<roles, uris, principals, granted, issued, env, counters>>

\* ensure_sp, in a command substitution: when creating or showing the principal
\* fails, its object id is empty and the hook goes on.
EnsureSp(m, from, to, app, flag) ==
    /\ Go(m, from, to)
    /\ \/ principals' = principals \cup {app} /\ Learn(m, flag, TRUE) /\ UNCHANGED counters
       \/ principals' \in {principals, principals \cup {app}}
          /\ run' = [run EXCEPT ![m].unnoticed = TRUE] /\ Overlook
    /\ UNCHANGED <<roles, secrets, uris, granted, issued, env>>

ApiSp(m) == EnsureSp(m, "api_sp", "client_sp", <<"api", run[m].api>>, "apiSp")
ClientSp(m) == EnsureSp(m, "client_sp", "assign_read", <<"client", run[m].client>>, "clientSp")

Grant(m, role) == <<run[m].client, run[m].api, role>>

Assign(m, from, to, role) ==
    /\ Go(m, from, to)
    /\ run[m].apiSp /\ run[m].clientSp
    /\ granted' = granted \cup {Grant(m, role)}
    /\ UNCHANGED <<roles, secrets, uris, principals, issued, env, run, counters>>

\* The GET fails, or asks about an empty id: its empty answer is not "0", and
\* retry, in whose condition set -e is off, counts the call as done.
AssignSkipped(m, from, to) ==
    /\ Go(m, from, to)
    /\ \/ ~ run[m].clientSp /\ UNCHANGED counters
       \/ run[m].clientSp /\ Overlook
    /\ run' = [run EXCEPT ![m].unnoticed = TRUE]
    /\ UNCHANGED <<directory, env>>

\* The POST asks for a resource without an id: five attempts, then set -e.
AssignRejected(m, from) ==
    /\ run[m].clientSp /\ ~ run[m].apiSp
    /\ Quit(m, from)
    /\ UNCHANGED counters

AssignRead(m) ==
    \/ Assign(m, "assign_read", "assign_write", "read")
    \/ AssignSkipped(m, "assign_read", "assign_write")
    \/ AssignRejected(m, "assign_read")

\* Mutant: the GET counts any assignment to the API.
AssignWriteIfNone(m) ==
    \/ /\ Grant(m, "read") \notin granted
       /\ Assign(m, "assign_write", "secret", "write")
    \/ /\ Grant(m, "read") \in granted
       /\ Go(m, "assign_write", "secret")
       /\ UNCHANGED <<directory, env, run, counters>>

AssignWrite(m) ==
    \/ Assign(m, "assign_write", "secret", "write")
    \/ AssignSkipped(m, "assign_write", "secret")
    \/ AssignRejected(m, "assign_write")

-----------------------------------------------------------------------------
(* The secret, and the azd environment.                                    *)

\* Mutant: every run asks for a secret.
SecretMissing(m) == TRUE

\* The environment has no secret for this client.
SecretUnknown(m) == run[m].known.client # run[m].client \/ run[m].known.secret = 0

\* The environment's secret is kept if it was saved with the same client id.
KeepSecret(m) ==
    /\ ~ SecretUnknown(m)
    /\ Go(m, "secret", "save_api")
    /\ Learn(m, "secret", run[m].known.secret)
    /\ UNCHANGED <<directory, env, counters>>

\* Mutant: credential reset without --append.
WithoutAppend(old, new) == {new}

\* credential reset --append adds a secret to those of the client.
WithSecret(old, new) == old \cup {new}

NewSecret(m) ==
    /\ SecretUnknown(m)
    /\ Go(m, "secret", "save_api")
    /\ issued' = issued + 1
    /\ secrets' = [secrets EXCEPT ![run[m].client] = WithSecret(@, issued')]
    /\ Learn(m, "secret", issued')
    /\ UNCHANGED <<roles, uris, principals, granted, env, counters>>

\* azd env set, one key after the other.
SaveKey(m, from, to, key) ==
    /\ Go(m, from, to)
    /\ Save(m, key, run[m][key])
    /\ UNCHANGED <<directory, run, counters>>

SaveAudience(m) == SaveKey(m, "save_api", "save_client", "api")
SaveClient(m) == SaveKey(m, "save_client", "save_secret", "client")
SaveSecret(m) == SaveKey(m, "save_secret", "save_roles", "secret")

\* The last one.  Of the run only its having overlooked a failure is kept.
SaveRoles(m) ==
    /\ Go(m, "save_roles", "done")
    /\ Save(m, "role", run[m].role)
    /\ run' = [run EXCEPT ![m] = [NoRun EXCEPT !.unnoticed = run[m].unnoticed]]
    /\ UNCHANGED <<directory, counters>>

\* A call fails where set -e sees it, or the hook is interrupted.
Stop(m) ==
    /\ Noticed
    /\ faults + reruns < MaxSetbacks
    /\ \E call \in Calls : Quit(m, call)
    /\ faults' = faults + 1
    /\ UNCHANGED reruns

-----------------------------------------------------------------------------

HookStep(m) ==
    \/ FindApi(m) \/ FindNoApi(m) \/ CreateApi(m) \/ SetUri(m)
    \/ ShowRoles(m) \/ PatchRoles(m) \/ PatchRejected(m) \/ ReadBackRoles(m)
    \/ FindClient(m) \/ FindNoClient(m) \/ CreateClient(m)
    \/ ApiSp(m) \/ ClientSp(m) \/ AssignRead(m) \/ AssignWrite(m)
    \/ KeepSecret(m) \/ NewSecret(m)
    \/ SaveAudience(m) \/ SaveClient(m) \/ SaveSecret(m) \/ SaveRoles(m)

Next == \E m \in Machines :
            Start(m) \/ StartBlind(m) \/ Rerun(m) \/ HookStep(m) \/ Stop(m)

Spec == Init /\ [][Next]_vars

\* Every call returns, and a hook that ended early is run again.
FairSpec == Spec /\ \A m \in Machines : WF_vars(Start(m)) /\ WF_vars(HookStep(m))

-----------------------------------------------------------------------------
(* Properties.                                                             *)

EnvValues == [api : 0 .. Len(roles), client : 0 .. Len(secrets),
              secret : 0 .. issued, role : Machines \cup {None}]

RunValues == [api : 0 .. Len(roles), client : 0 .. Len(secrets),
              secret : 0 .. issued, role : Machines \cup {None}, known : EnvValues,
              apiSp : BOOLEAN, clientSp : BOOLEAN, unnoticed : BOOLEAN]

TypeOK ==
    /\ roles \in Seq(Machines \cup {None})
    /\ secrets \in Seq(SUBSET Nat)
    /\ issued \in Nat
    /\ \A c \in DOMAIN secrets : secrets[c] \subseteq 1 .. issued
    /\ uris \subseteq DOMAIN roles
    /\ principals \subseteq ({"api"} \X (DOMAIN roles)) \cup ({"client"} \X (DOMAIN secrets))
    /\ granted \subseteq (DOMAIN secrets) \X (DOMAIN roles) \X {"read", "write"}
    /\ env \in [Machines -> EnvValues]
    /\ run \in [Machines -> RunValues]
    /\ pc \in [Machines -> Calls \cup {"idle", "done"}]
    /\ {faults, reruns, faults + reruns} \subseteq 0 .. MaxSetbacks

\* Interrupted and repeated runs find what they created: there is never more
\* than one registration for each machine, so one in all unless two machines
\* begin at once.
RegistrationsAreFew ==
    /\ Len(roles) <= Cardinality(Machines)
    /\ Len(secrets) <= Cardinality(Machines)

\* What m's environment names works together: the registrations have their
\* principals, URI, roles and both assignments, and the secret is the client's.
\* (Two clients of one name are a case of their own: a run that stops between
\* saving the id and the secret leaves a pair that KeepSecret then trusts.)
Ready(m) ==
    /\ env[m].api \in uris
    /\ roles[env[m].api] = env[m].role
    /\ {<<"api", env[m].api>>, <<"client", env[m].client>>} \subseteq principals
    /\ {<<env[m].client, env[m].api, role>> : role \in {"read", "write"}} \subseteq granted
    /\ Len(secrets) = 1 => env[m].secret \in secrets[env[m].client]

\* However runs were interrupted and machines interleaved, a run that completes
\* without a failure it overlooked leaves an environment that is ready.
DoneMeansReady ==
    \A m \in Machines : pc[m] = "done" /\ ~ run[m].unnoticed => Ready(m)

\* A secret that some environment holds stays valid, whoever provisions.
SecretsKept ==
    \A m \in Machines : env[m].secret # 0 =>
        \E c \in DOMAIN secrets : env[m].secret \in secrets[c]

\* Repeated runs issue no further secrets: each machine needs one, and each
\* failure may strand one.
SecretsDoNotPileUp ==
    Len(secrets) = 1 => issued <= Cardinality(Machines) + faults

\* Why these four hold.  What the variables of a run stand for, by the call
\* it is at.
Saving == {"save_api", "save_client", "save_secret", "save_roles"}

ApiKnown(m) ==
    LET r == run[m]
        Past(calls) == pc[m] \notin {"idle", "done", "list_apis", "create_api"} \cup calls
    IN /\ Past({}) => r.api \in DOMAIN roles
       /\ Past({"set_uri"}) => r.api \in uris
       /\ Past({"set_uri", "show_roles"}) => r.role # None
       /\ Past({"set_uri", "show_roles", "patch_roles"}) => roles[r.api] # None
       /\ Past({"set_uri", "show_roles", "patch_roles", "read_back"})
            => roles[r.api] = r.role

ClientKnown(m) ==
    LET r == run[m]
        Past(calls) == pc[m] \in calls \cup Saving
    IN /\ Past({"api_sp", "client_sp", "assign_read", "assign_write", "secret"})
            => r.client \in DOMAIN secrets
       /\ r.apiSp => <<"api", r.api>> \in principals
            /\ Past({"client_sp", "assign_read", "assign_write", "secret"})
       /\ r.clientSp => <<"client", r.client>> \in principals
            /\ Past({"assign_read", "assign_write", "secret"})
       /\ Past({"client_sp", "assign_read", "assign_write", "secret"})
            => r.apiSp \/ r.unnoticed
       /\ Past({"assign_read", "assign_write", "secret"}) => r.clientSp \/ r.unnoticed
       /\ Past({"assign_write", "secret"}) => Grant(m, "read") \in granted \/ r.unnoticed
       /\ Past({"secret"}) => Grant(m, "write") \in granted \/ r.unnoticed

\* A secret is valid for some client, and for the one of c if there is one.
Valid(secret) == \E c \in DOMAIN secrets : secret \in secrets[c]
Fits(secret, c) == Len(secrets) = 1 => secret \in secrets[c]

SecretKnown(m) ==
    LET r == run[m] IN
    /\ env[m].secret # 0 => Valid(env[m].secret)
    /\ r.known \in {env[m], NoEnv} \/ pc[m] \in Saving
    /\ r.known.secret # 0 => Valid(r.known.secret)
    /\ pc[m] \in Saving => Valid(r.secret) /\ Fits(r.secret, r.client)

\* What has been saved, in the end all of it.
Saved(m) ==
    /\ pc[m] \in Saving \ {"save_api"} => env[m].api = run[m].api
    /\ pc[m] \in {"save_secret", "save_roles"} => env[m].client = run[m].client
    /\ pc[m] = "save_roles" => env[m].secret = run[m].secret
    /\ pc[m] = "done" =>
          /\ env[m].role # None
          /\ ~ run[m].unnoticed => Ready(m)

\* m needs no further secret if there is one client.
Holds(m) ==
    \/ pc[m] \in Saving
    \/ pc[m] \in {"idle", "done"} /\ env[m].client = 1 /\ env[m].secret # 0
    \/ /\ pc[m] \notin {"idle", "done"}
       /\ run[m].known.client = 1 /\ run[m].known.secret # 0

HookInv ==
    /\ TypeOK
    /\ \A m \in Machines :
          ApiKnown(m) /\ ClientKnown(m) /\ SecretKnown(m) /\ Saved(m)
    /\ Len(roles) + Cardinality({m \in Machines : pc[m] = "create_api"})
          <= Cardinality(Machines)
    /\ Len(secrets) + Cardinality({m \in Machines : pc[m] = "create_client"})
          <= Cardinality(Machines)
    /\ secrets = << >> => issued = 0
    /\ Len(secrets) = 1 => issued <= Cardinality({m \in Machines : Holds(m)}) + faults

\* When failures end, a hook that is run again completes: no state it can have
\* left behind, on this machine or by another one, makes it fail for good.
EveryMachineFinishes == \A m \in Machines : pc[m] # "done" ~> pc[m] = "done"

\* "Ensures required Entra identities and app registrations are available"
\* (infra/bicep/README.md:66), and "Pre-Provision Hook: Complete"
\* (preprovision.sh:245): a completed run has done its work.
CompleteMeansReady == \A m \in Machines : pc[m] = "done" => Ready(m)
=============================================================================
