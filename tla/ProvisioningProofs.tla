------------------------- MODULE ProvisioningProofs -------------------------
(***************************************************************************)
(* HookInv is inductive.  With it: runs of the pre-provision hook find     *)
(* what earlier ones made, keep the secrets of others and, completed,      *)
(* leave an environment that is ready, for any machines and setbacks.      *)
(***************************************************************************)
EXTENDS Provisioning, FiniteSetTheorems, SequenceTheorems, TLAPS

Directory ==
    /\ roles \in Seq(Machines \cup {None})
    /\ secrets \in Seq(SUBSET Nat)
    /\ issued \in Nat
    /\ \A c \in DOMAIN secrets : secrets[c] \subseteq 1 .. issued
    /\ uris \subseteq DOMAIN roles
    /\ principals \subseteq ({"api"} \X (DOMAIN roles)) \cup ({"client"} \X (DOMAIN secrets))
    /\ granted \subseteq (DOMAIN secrets) \X (DOMAIN roles) \X {"read", "write"}

MachineOK(m) ==
    /\ env[m] \in EnvValues
    /\ run[m] \in RunValues
    /\ pc[m] \in Calls \cup {"idle", "done"}
    /\ ApiKnown(m) /\ ClientKnown(m) /\ SecretKnown(m) /\ Saved(m)

\* The directory only grows, and roles that are there stay.
Grows ==
    /\ Len(roles) <= Len(roles')
    /\ \A a \in DOMAIN roles : roles[a] # None => roles'[a] = roles[a]
    /\ Len(secrets) <= Len(secrets')
    /\ \A c \in DOMAIN secrets : secrets[c] \subseteq secrets'[c]
    /\ uris \subseteq uris' /\ principals \subseteq principals' /\ granted \subseteq granted'
    /\ issued <= issued'

LEMMA DirectoryFacts ==
    ASSUME Directory
    PROVE  /\ Len(roles) \in Nat /\ DOMAIN roles = 1 .. Len(roles)
           /\ Len(secrets) \in Nat /\ DOMAIN secrets = 1 .. Len(secrets)
           /\ \A a \in DOMAIN roles : roles[a] \in Machines \cup {None}
           /\ \A c \in DOMAIN secrets : secrets[c] \in SUBSET Nat
  BY DEF Directory

LEMMA Unchanged ==
    ASSUME Directory, UNCHANGED directory
    PROVE  Directory' /\ Grows
  <1>1. /\ roles' = roles /\ secrets' = secrets /\ uris' = uris
        /\ principals' = principals /\ granted' = granted /\ issued' = issued
    BY DEF directory
  <1>2. Directory'  BY <1>1 DEF Directory
  <1>3. Len(roles) <= Len(roles') /\ Len(secrets) <= Len(secrets') /\ issued <= issued'
    BY <1>1, DirectoryFacts DEF Directory
  <1>4. QED  BY <1>1, <1>2, <1>3 DEF Grows

-----------------------------------------------------------------------------
(* What is true of a machine stays true while the directory grows.         *)

LEMMA ValuesGrow ==
    ASSUME Directory, Directory', Grows
    PROVE  /\ DOMAIN roles \subseteq DOMAIN roles'
           /\ DOMAIN secrets \subseteq DOMAIN secrets'
           /\ EnvValues \subseteq EnvValues'
           /\ RunValues \subseteq RunValues'
           /\ \A secret : Valid(secret) => Valid(secret)'
           /\ \A secret : \A c \in DOMAIN secrets : Fits(secret, c) => Fits(secret, c)'
  <1>1. /\ Len(roles) \in Nat /\ DOMAIN roles = 1 .. Len(roles)
        /\ Len(secrets) \in Nat /\ DOMAIN secrets = 1 .. Len(secrets)
        /\ Len(roles') \in Nat /\ DOMAIN roles' = 1 .. Len(roles')
        /\ Len(secrets') \in Nat /\ DOMAIN secrets' = 1 .. Len(secrets')
        /\ issued \in Nat /\ issued' \in Nat
    BY DirectoryFacts DEF Directory
  <1>2. DOMAIN roles \subseteq DOMAIN roles' /\ DOMAIN secrets \subseteq DOMAIN secrets'
    BY <1>1 DEF Grows
  <1>3. /\ 0 .. Len(roles) \subseteq 0 .. Len(roles')
        /\ 0 .. Len(secrets) \subseteq 0 .. Len(secrets')
        /\ 0 .. issued \subseteq 0 .. issued'
    BY <1>1 DEF Grows
  <1>4. EnvValues \subseteq EnvValues'
    BY <1>3 DEF EnvValues
  <1>5. RunValues \subseteq RunValues'
    BY <1>3, <1>4 DEF RunValues
  <1>6. \A secret : Valid(secret) => Valid(secret)'
    BY <1>2 DEF Valid, Grows
  <1>7. \A secret : \A c \in DOMAIN secrets : Fits(secret, c) => Fits(secret, c)'
    BY <1>1 DEF Fits, Grows
  <1>8. QED  BY <1>2, <1>4, <1>5, <1>6, <1>7

LEMMA OthersKeep ==
    ASSUME Directory, Directory', Grows, NEW n \in Machines, MachineOK(n),
           pc'[n] = pc[n], env'[n] = env[n], run'[n] = run[n]
    PROVE  MachineOK(n)'
  <1>1. /\ env'[n] \in EnvValues' /\ run'[n] \in RunValues'
        /\ pc'[n] \in Calls \cup {"idle", "done"}
    BY ValuesGrow DEF MachineOK
  <1>2. ApiKnown(n)'
    BY ValuesGrow DEF MachineOK, ApiKnown, Grows, Saving
  <1>3. ClientKnown(n)'
    BY ValuesGrow DEF MachineOK, ClientKnown, Grows, Grant, Saving
  <1>4. SecretKnown(n)'
    <2>1. pc[n] \in Saving => run[n].client \in DOMAIN secrets
      BY DEF MachineOK, ClientKnown
    <2>2. QED  BY <2>1, ValuesGrow DEF MachineOK, SecretKnown
  <1>5. Saved(n)'
    <2>1. CASE pc[n] = "done" /\ ~ run[n].unnoticed
      <3>1. env[n].role # None /\ Ready(n)
        BY <2>1 DEF MachineOK, Saved
      <3>2. env[n].api \in DOMAIN roles /\ roles[env[n].api] # None
        BY <3>1 DEF Ready, Directory
      <3>3. env[n].client \in DOMAIN secrets
        BY <3>1 DEF Ready, Directory
      <3>4. Fits(env[n].secret, env[n].client)'
        BY <3>1, <3>3, ValuesGrow DEF Ready, Fits
      <3>5. Ready(n)'
        BY <3>1, <3>2, <3>4 DEF Ready, Grows, Fits
      <3>6. QED  BY <2>1, <3>1, <3>5 DEF Saved, Saving
    <2>2. CASE ~ (pc[n] = "done" /\ ~ run[n].unnoticed)
      BY <2>2 DEF MachineOK, Saved
    <2>3. QED  BY <2>1, <2>2
  <1>6. QED  BY <1>1, <1>2, <1>3, <1>4, <1>5 DEF MachineOK

-----------------------------------------------------------------------------
(* A step of one machine.                                                  *)

Alone(m) ==
    /\ \E to \in Calls \cup {"idle", "done"} : pc' = [pc EXCEPT ![m] = to]
    /\ env' = env \/ \E e : env' = [env EXCEPT ![m] = e]
    /\ run' = run \/ \E r : run' = [run EXCEPT ![m] = r]

Machinery ==
    /\ TypeOK
    /\ Directory
    /\ \A m \in Machines : MachineOK(m)

LEMMA HaveMachinery == HookInv => Machinery
  BY DEF HookInv, Machinery, TypeOK, Directory, MachineOK

\* What has to be shown of the step.
LEMMA OneActs ==
    ASSUME Machinery, NEW m \in Machines, Alone(m), Directory', Grows, MachineOK(m)',
           {faults', reruns', faults' + reruns'} \subseteq 0 .. MaxSetbacks
    PROVE  Machinery'
  <1>1. /\ pc \in [Machines -> Calls \cup {"idle", "done"}]
        /\ env \in [Machines -> EnvValues] /\ run \in [Machines -> RunValues]
    BY DEF Machinery, TypeOK
  <1>2. \A n \in Machines \ {m} : pc'[n] = pc[n] /\ env'[n] = env[n] /\ run'[n] = run[n]
    BY <1>1 DEF Alone
  <1>3. \A n \in Machines : MachineOK(n)'
    BY <1>2, OthersKeep DEF Machinery
  <1>4. DOMAIN pc' = Machines /\ DOMAIN env' = Machines /\ DOMAIN run' = Machines
    BY <1>1 DEF Alone
  <1>5. pc' = [n \in Machines |-> pc'[n]] /\ env' = [n \in Machines |-> env'[n]]
        /\ run' = [n \in Machines |-> run'[n]]
    BY <1>1 DEF Alone
  <1>6. /\ pc' \in [Machines -> Calls \cup {"idle", "done"}]
        /\ env' \in [Machines -> EnvValues'] /\ run' \in [Machines -> RunValues']
    BY <1>3, <1>5 DEF MachineOK
  <1>7. TypeOK'
    BY <1>6 DEF TypeOK, Directory
  <1>8. QED  BY <1>3, <1>7 DEF Machinery

\* Steps between two calls keep what is known of the parts they do not touch.
Early == {"idle", "done", "list_apis", "create_api"}

LEMMA ApiStays ==
    ASSUME Directory, Directory', Grows, NEW m \in Machines, MachineOK(m),
           run'[m].api = run[m].api, run'[m].role = run[m].role,
           pc[m] \notin Early \cup {"set_uri", "show_roles", "patch_roles", "read_back"}
    PROVE  ApiKnown(m)'
  BY ValuesGrow DEF MachineOK, ApiKnown, Grows, Early

LEMMA SecretStays ==
    ASSUME Directory, Directory', Grows, NEW m \in Machines, MachineOK(m),
           env'[m] = env[m], run'[m].known = run[m].known,
           pc[m] \notin Saving, pc'[m] \notin Saving
    PROVE  SecretKnown(m)'
  BY ValuesGrow DEF MachineOK, SecretKnown

LEMMA NothingSaved ==
    ASSUME NEW m \in Machines, pc'[m] \notin Saving \cup {"done"}
    PROVE  Saved(m)'
  BY DEF Saved, Saving

LEMMA NoClientYet ==
    ASSUME NEW m \in Machines, MachineOK(m),
           pc'[m] \notin {"api_sp", "client_sp", "assign_read", "assign_write", "secret"}
                       \cup Saving,
           pc[m] \notin {"client_sp", "assign_read", "assign_write", "secret"} \cup Saving,
           run'[m].apiSp = run[m].apiSp, run'[m].clientSp = run[m].clientSp
    PROVE  ClientKnown(m)'
  BY DEF MachineOK, ClientKnown

-----------------------------------------------------------------------------
(* Beginning and ending.                                                   *)

LEMMA NoRunOK ==
    ASSUME Directory
    PROVE  /\ NoEnv \in EnvValues /\ NoRun \in RunValues
           /\ \A e \in EnvValues : [NoRun EXCEPT !.known = e] \in RunValues
           /\ \A b \in BOOLEAN : [NoRun EXCEPT !.unnoticed = b] \in RunValues
  <1>1. 0 \in 0 .. Len(roles) /\ 0 \in 0 .. Len(secrets) /\ 0 \in 0 .. issued
    BY DirectoryFacts DEF Directory
  <1>2. NoEnv \in EnvValues  BY <1>1 DEF NoEnv, EnvValues
  <1>3. NoRun \in RunValues  BY <1>1, <1>2 DEF NoRun, RunValues
  <1>4. \A e \in EnvValues : [NoRun EXCEPT !.known = e] \in RunValues
    BY <1>1 DEF NoRun, RunValues
  <1>5. \A b \in BOOLEAN : [NoRun EXCEPT !.unnoticed = b] \in RunValues
    BY <1>1, <1>2 DEF NoRun, RunValues
  <1>6. QED  BY <1>2, <1>3, <1>4, <1>5

\* The hook is at its first call, or gone, and knows nothing but the azd
\* environment.
LEMMA FreshRun ==
    ASSUME Machinery, NEW m \in Machines, UNCHANGED <<directory, env>>,
           NEW to \in {"idle", "list_apis"}, pc' = [pc EXCEPT ![m] = to],
           \/ run' = [run EXCEPT ![m] = NoRun]
           \/ run' = [run EXCEPT ![m] = [NoRun EXCEPT !.known = env[m]]],
           {faults', reruns', faults' + reruns'} \subseteq 0 .. MaxSetbacks
    PROVE  Machinery'
  <1>1. /\ Directory' /\ Grows /\ env' = env
        /\ pc \in [Machines -> Calls \cup {"idle", "done"}]
        /\ run \in [Machines -> RunValues] /\ env[m] \in EnvValues
        /\ MachineOK(m)
    BY Unchanged DEF Machinery, TypeOK
  <1>2. /\ pc'[m] = to
        /\ run'[m] \in {NoRun, [NoRun EXCEPT !.known = env[m]]}
    BY <1>1
  <1>3. /\ run'[m].known \in {NoEnv, env[m]} /\ ~ run'[m].apiSp /\ ~ run'[m].clientSp
        /\ run'[m] \in RunValues
    <2>1. CASE run'[m] = NoRun
      BY <2>1, NoRunOK DEF NoRun, Machinery
    <2>2. CASE run'[m] = [NoRun EXCEPT !.known = env[m]]
      <3>1. run'[m] \in RunValues
        BY <1>1, <2>2, NoRunOK DEF Machinery
      <3>2. QED  BY <2>2, <3>1 DEF NoRun
    <2>3. QED  BY <1>2, <2>1, <2>2
  <1>4. run'[m] \in RunValues' /\ env'[m] \in EnvValues'
    BY <1>1, <1>3, ValuesGrow DEF Machinery
  <1>5. ApiKnown(m)' /\ ClientKnown(m)' /\ Saved(m)'
    BY <1>2, <1>3 DEF ApiKnown, ClientKnown, Saved, Saving
  <1>6. SecretKnown(m)'
    <2>1. NoEnv.secret = 0  BY DEF NoEnv
    <2>2. env[m].secret # 0 => Valid(env[m].secret)'
      BY <1>1, ValuesGrow DEF Machinery, MachineOK, SecretKnown
    <2>3. QED  BY <1>1, <1>2, <1>3, <2>1, <2>2 DEF SecretKnown, Saving
  <1>7. MachineOK(m)'
    BY <1>2, <1>4, <1>5, <1>6 DEF MachineOK, Calls
  <1>8. Alone(m)
    BY <1>1 DEF Alone, Calls
  <1>9. QED  BY <1>1, <1>7, <1>8, OneActs

LEMMA BoundedSetbacks ==
    ASSUME TypeOK
    PROVE  /\ {faults, reruns, faults + reruns} \subseteq 0 .. MaxSetbacks
           /\ faults \in Nat /\ reruns \in Nat
           /\ faults + reruns < MaxSetbacks =>
                 /\ {faults + 1, reruns, (faults + 1) + reruns} \subseteq 0 .. MaxSetbacks
                 /\ {faults, reruns + 1, faults + (reruns + 1)} \subseteq 0 .. MaxSetbacks
  BY BoundsAssumption DEF TypeOK

LEMMA BeginOK ==
    ASSUME Machinery, NEW m \in Machines, Start(m) \/ StartBlind(m) \/ Rerun(m) \/ Stop(m)
    PROVE  Machinery'
  <1>1. TypeOK  BY DEF Machinery
  <1>2. CASE Start(m)
    BY <1>1, <1>2, FreshRun, BoundedSetbacks DEF Start, Begin, Go, counters
  <1>3. CASE StartBlind(m)
    BY <1>1, <1>3, FreshRun, BoundedSetbacks DEF StartBlind, Go, Overlook
  <1>4. CASE Rerun(m)
    BY <1>1, <1>4, FreshRun, BoundedSetbacks DEF Rerun, Begin, Go
  <1>5. CASE Stop(m)
    BY <1>1, <1>5, FreshRun, BoundedSetbacks DEF Stop, Quit, Go
  <1>6. QED  BY <1>2, <1>3, <1>4, <1>5

-----------------------------------------------------------------------------
(* The API registration.                                                   *)

LEMMA FindApiOK ==
    ASSUME Machinery, NEW m \in Machines, FindApi(m) \/ FindNoApi(m)
    PROVE  Machinery'
  <1>1. /\ Directory' /\ Grows /\ env' = env /\ faults' = faults /\ reruns' = reruns
        /\ pc \in [Machines -> Calls \cup {"idle", "done"}]
        /\ run \in [Machines -> RunValues] /\ MachineOK(m)
    BY Unchanged DEF FindApi, FindNoApi, counters, Machinery, TypeOK
  <1>2. CASE FindApi(m)
    <2>1. pc' = [pc EXCEPT ![m] = "set_uri"] /\ pc[m] = "list_apis"
      BY <1>2 DEF FindApi, Go
    <2>2. PICK a \in DOMAIN roles : Learn(m, "api", a)
      BY <1>2 DEF FindApi
    <2>3. /\ run'[m] = [run[m] EXCEPT !.api = a] /\ run'[m].api = a
          /\ run'[m].known = run[m].known
          /\ run'[m].apiSp = run[m].apiSp /\ run'[m].clientSp = run[m].clientSp
          /\ \E r : run' = [run EXCEPT ![m] = r]
      <3>1. run' = [run EXCEPT ![m] = [run[m] EXCEPT !.api = a]]
        BY <2>2 DEF Learn
      <3>2. run[m] \in RunValues  BY <1>1
      <3>3. QED  BY <1>1, <3>1, <3>2 DEF RunValues
    <2>4. run'[m] \in RunValues
      <3>1. a \in 0 .. Len(roles)  BY <2>2, DirectoryFacts DEF Machinery
      <3>2. QED  BY <1>1, <2>3, <3>1 DEF RunValues
    <2>5. ApiKnown(m)'
      BY <1>1, <2>1, <2>3, ValuesGrow DEF ApiKnown, Machinery
    <2>6. ClientKnown(m)' /\ SecretKnown(m)' /\ Saved(m)'
      BY <1>1, <2>1, <2>3, NoClientYet, SecretStays, NothingSaved DEF Machinery, Saving
    <2>7. MachineOK(m)'
      BY <1>1, <2>1, <2>4, <2>5, <2>6, ValuesGrow DEF MachineOK, Calls, Machinery
    <2>8. Alone(m)
      BY <1>1, <2>1, <2>3 DEF Alone, Calls
    <2>9. QED  BY <1>1, <2>7, <2>8, OneActs DEF Machinery, TypeOK
  <1>3. CASE FindNoApi(m)
    <2>1. pc' = [pc EXCEPT ![m] = "create_api"] /\ pc[m] = "list_apis" /\ run' = run
      BY <1>3 DEF FindNoApi, Go
    <2>2. ApiKnown(m)'
      BY <1>1, <2>1 DEF ApiKnown
    <2>3. ClientKnown(m)' /\ SecretKnown(m)' /\ Saved(m)'
      BY <1>1, <2>1, NoClientYet, SecretStays, NothingSaved DEF Machinery, Saving
    <2>4. MachineOK(m)'
      BY <1>1, <2>1, <2>2, <2>3, ValuesGrow DEF MachineOK, Calls, Machinery
    <2>5. Alone(m)
      BY <1>1, <2>1 DEF Alone, Calls
    <2>6. QED  BY <1>1, <2>4, <2>5, OneActs DEF Machinery, TypeOK
  <1>4. QED  BY <1>2, <1>3

LEMMA CreateApiOK ==
    ASSUME Machinery, NEW m \in Machines, CreateApi(m)
    PROVE  Machinery' /\ Len(roles') = Len(roles) + 1
  <1>1. /\ Directory /\ MachineOK(m)
        /\ pc \in [Machines -> Calls \cup {"idle", "done"}]
        /\ run \in [Machines -> RunValues]
    BY DEF Machinery, TypeOK
  <1>2. /\ pc' = [pc EXCEPT ![m] = "set_uri"] /\ pc[m] = "create_api"
        /\ roles' = Append(roles, None) /\ Learn(m, "api", Len(roles'))
        /\ env' = env /\ faults' = faults /\ reruns' = reruns
        /\ secrets' = secrets /\ uris' = uris /\ principals' = principals
        /\ granted' = granted /\ issued' = issued
    BY DEF CreateApi, Go, counters
  <1>3. /\ roles' \in Seq(Machines \cup {None}) /\ Len(roles') = Len(roles) + 1
        /\ DOMAIN roles \subseteq DOMAIN roles' /\ Len(roles') \in DOMAIN roles'
        /\ \A a \in DOMAIN roles : roles'[a] = roles[a]
        /\ Len(roles) \in Nat
    BY <1>1, <1>2 DEF Directory
  <1>4. Directory' /\ Grows
    <2>1. Directory'
      BY <1>1, <1>2, <1>3, DirectoryFacts DEF Directory
    <2>2. Len(roles) <= Len(roles') /\ Len(secrets) <= Len(secrets') /\ issued <= issued'
      BY <1>1, <1>2, <1>3, DirectoryFacts DEF Directory
    <2>3. QED  BY <1>1, <1>2, <1>3, <2>1, <2>2 DEF Grows
  <1>5. /\ run'[m] = [run[m] EXCEPT !.api = Len(roles')] /\ run'[m].api = Len(roles')
        /\ run'[m].known = run[m].known
        /\ run'[m].apiSp = run[m].apiSp /\ run'[m].clientSp = run[m].clientSp
        /\ \E r : run' = [run EXCEPT ![m] = r]
    <2>1. run' = [run EXCEPT ![m] = [run[m] EXCEPT !.api = Len(roles')]]
      BY <1>2 DEF Learn
    <2>2. run \in [Machines -> RunValues] /\ run[m] \in RunValues
      BY <1>1
    <2>3. QED  BY <2>1, <2>2 DEF RunValues
  <1>6. run'[m] \in RunValues'
    <2>1. Len(roles') \in 0 .. Len(roles')  BY <1>3
    <2>2. run[m] \in RunValues'  BY <1>1, <1>4, ValuesGrow
    <2>3. QED  BY <1>5, <2>1, <2>2 DEF RunValues
  <1>7. ApiKnown(m)'
    BY <1>1, <1>2, <1>3, <1>5 DEF ApiKnown
  <1>8. ClientKnown(m)' /\ SecretKnown(m)' /\ Saved(m)'
    BY <1>1, <1>2, <1>4, <1>5, NoClientYet, SecretStays, NothingSaved DEF Saving
  <1>9. MachineOK(m)'
    BY <1>1, <1>2, <1>4, <1>6, <1>7, <1>8, ValuesGrow DEF MachineOK, Calls
  <1>10. Alone(m)
    BY <1>2, <1>5 DEF Alone, Calls
  <1>11. QED  BY <1>2, <1>3, <1>4, <1>9, <1>10, OneActs DEF Machinery, TypeOK

\* A step between two calls before the saving: what is left to show of it.
LEMMA Between ==
    ASSUME Machinery, NEW m \in Machines, Directory', Grows, env' = env,
           {faults', reruns', faults' + reruns'} \subseteq 0 .. MaxSetbacks,
           pc[m] \notin Saving, NEW to \in Calls \ Saving, pc' = [pc EXCEPT ![m] = to],
           run' = run \/ \E r : run' = [run EXCEPT ![m] = r],
           run'[m] \in RunValues', run'[m].known = run[m].known,
           ApiKnown(m)', ClientKnown(m)'
    PROVE  Machinery'
  <1>1. /\ Directory /\ MachineOK(m)
        /\ pc \in [Machines -> Calls \cup {"idle", "done"}]
    BY DEF Machinery, TypeOK
  <1>2. pc'[m] = to  BY <1>1
  <1>3. to # "done"  BY DEF Calls
  <1>4. SecretKnown(m)' /\ Saved(m)'
    BY <1>1, <1>2, <1>3, SecretStays, NothingSaved
  <1>5. MachineOK(m)'
    BY <1>1, <1>2, <1>4, ValuesGrow DEF MachineOK
  <1>6. Alone(m)
    BY DEF Alone
  <1>7. QED  BY <1>5, <1>6, OneActs

LEMMA SetUriOK ==
    ASSUME Machinery, NEW m \in Machines, SetUri(m)
    PROVE  Machinery'
  <1>1. /\ Directory /\ MachineOK(m) /\ run[m] \in RunValues
        /\ pc \in [Machines -> Calls \cup {"idle", "done"}]
    BY DEF Machinery, MachineOK, TypeOK
  <1>2. /\ pc' = [pc EXCEPT ![m] = "show_roles"] /\ pc[m] = "set_uri"
        /\ uris' = uris \cup {run[m].api} /\ run' = run /\ env' = env
        /\ faults' = faults /\ reruns' = reruns
        /\ roles' = roles /\ secrets' = secrets /\ principals' = principals
        /\ granted' = granted /\ issued' = issued
    BY DEF SetUri, Go, counters
  <1>3. run[m].api \in DOMAIN roles
    BY <1>1, <1>2 DEF MachineOK, ApiKnown
  <1>4. Directory' /\ Grows
    <2>1. Directory'
      BY <1>1, <1>2, <1>3, DirectoryFacts DEF Directory
    <2>2. Len(roles) <= Len(roles') /\ Len(secrets) <= Len(secrets') /\ issued <= issued'
      BY <1>1, <1>2, <1>3, DirectoryFacts DEF Directory
    <2>3. QED  BY <1>1, <1>2, <1>3, <2>1, <2>2 DEF Grows
  <1>5. ApiKnown(m)' /\ ClientKnown(m)' /\ run'[m] \in RunValues'
    BY <1>1, <1>2, <1>3, <1>4, NoClientYet, ValuesGrow DEF ApiKnown, Saving
  <1>6. QED
    BY <1>2, <1>4, <1>5, Between DEF Machinery, TypeOK, Calls, Saving

LEMMA ShowRolesOK ==
    ASSUME Machinery, NEW m \in Machines, ShowRoles(m)
    PROVE  Machinery'
  <1>1. /\ Directory /\ Directory' /\ Grows /\ MachineOK(m) /\ run[m] \in RunValues
        /\ pc \in [Machines -> Calls \cup {"idle", "done"}]
        /\ run \in [Machines -> RunValues]
    BY Unchanged DEF ShowRoles, Machinery, MachineOK, TypeOK
  <1>2. /\ pc' = [pc EXCEPT ![m] = "patch_roles"] /\ pc[m] = "show_roles"
        /\ Learn(m, "role", PatchId(m)) /\ env' = env /\ roles' = roles /\ uris' = uris
        /\ faults' = faults /\ reruns' = reruns
    BY DEF ShowRoles, Go, counters, directory
  <1>3. run[m].api \in DOMAIN roles /\ run[m].api \in uris
    BY <1>1, <1>2 DEF MachineOK, ApiKnown
  <1>4. PatchId(m) \in Machines
    <2>1. roles[run[m].api] \in Machines \cup {None}
      BY <1>1, <1>3, DirectoryFacts
    <2>2. run[m].known.role \in Machines \cup {None}
      BY <1>1 DEF RunValues, EnvValues
    <2>3. QED  BY <2>1, <2>2 DEF PatchId, FirstOf
  <1>5. /\ run'[m] = [run[m] EXCEPT !.role = PatchId(m)] /\ run'[m].role = PatchId(m)
        /\ run'[m].api = run[m].api /\ run'[m].known = run[m].known
        /\ run'[m].apiSp = run[m].apiSp /\ run'[m].clientSp = run[m].clientSp
        /\ \E r : run' = [run EXCEPT ![m] = r]
    <2>1. run' = [run EXCEPT ![m] = [run[m] EXCEPT !.role = PatchId(m)]]
      BY <1>2 DEF Learn
    <2>2. run \in [Machines -> RunValues] /\ run[m] \in RunValues
      BY <1>1
    <2>3. QED  BY <2>1, <2>2 DEF RunValues
  <1>6. run'[m] \in RunValues'
    <2>1. run[m] \in RunValues'  BY <1>1, ValuesGrow
    <2>2. QED  BY <1>4, <1>5, <2>1 DEF RunValues
  <1>7. ApiKnown(m)'
    BY <1>1, <1>2, <1>3, <1>4, <1>5, BoundsAssumption DEF ApiKnown
  <1>8. ClientKnown(m)'
    BY <1>1, <1>2, <1>5, NoClientYet DEF Saving
  <1>9. QED
    BY <1>1, <1>2, <1>5, <1>6, <1>7, <1>8, Between DEF Machinery, TypeOK, Calls, Saving

LEMMA PatchRolesOK ==
    ASSUME Machinery, NEW m \in Machines, PatchRoles(m)
    PROVE  Machinery' /\ Len(roles') = Len(roles)
  <1>1. /\ Directory /\ MachineOK(m) /\ run[m] \in RunValues
        /\ pc \in [Machines -> Calls \cup {"idle", "done"}]
    BY DEF Machinery, MachineOK, TypeOK
  <1>2. /\ pc' = [pc EXCEPT ![m] = "read_back"] /\ pc[m] = "patch_roles"
        /\ roles[run[m].api] \in {None, run[m].role}
        /\ roles' = [roles EXCEPT ![run[m].api] = run[m].role]
        /\ run' = run /\ env' = env /\ faults' = faults /\ reruns' = reruns
        /\ secrets' = secrets /\ uris' = uris /\ principals' = principals
        /\ granted' = granted /\ issued' = issued
    BY DEF PatchRoles, Go, counters
  <1>3. run[m].api \in DOMAIN roles /\ run[m].api \in uris /\ run[m].role # None
    BY <1>1, <1>2 DEF MachineOK, ApiKnown
  <1>4. run[m].role \in Machines \cup {None}
    BY <1>1 DEF RunValues
  <1>5. /\ roles' \in Seq(Machines \cup {None}) /\ Len(roles') = Len(roles)
        /\ DOMAIN roles' = DOMAIN roles
        /\ roles'[run[m].api] = run[m].role
        /\ \A a \in DOMAIN roles : a # run[m].api => roles'[a] = roles[a]
    BY <1>1, <1>2, <1>3, <1>4 DEF Directory
  <1>6. Directory' /\ Grows
    <2>1. Directory'
      BY <1>1, <1>2, <1>5, DirectoryFacts DEF Directory
    <2>2. Len(roles) <= Len(roles') /\ Len(secrets) <= Len(secrets') /\ issued <= issued'
      BY <1>1, <1>2, <1>5, DirectoryFacts DEF Directory
    <2>3. QED  BY <1>1, <1>2, <1>5, <2>1, <2>2 DEF Grows
  <1>7. ApiKnown(m)' /\ ClientKnown(m)' /\ run'[m] \in RunValues'
    BY <1>1, <1>2, <1>3, <1>5, <1>6, NoClientYet, ValuesGrow DEF ApiKnown, Saving
  <1>8. Machinery'
    BY <1>2, <1>6, <1>7, Between DEF Machinery, TypeOK, Calls, Saving
  <1>9. QED  BY <1>5, <1>8

LEMMA QuitOK ==
    ASSUME Machinery, NEW m \in Machines, NEW from, Quit(m, from), UNCHANGED counters
    PROVE  Machinery'
  BY FreshRun, BoundedSetbacks DEF Quit, Go, counters, Machinery

LEMMA ReadBackOK ==
    ASSUME Machinery, NEW m \in Machines, ReadBackRoles(m)
    PROVE  Machinery'
  <1>1. /\ Directory /\ Directory' /\ Grows /\ MachineOK(m) /\ run[m] \in RunValues
        /\ pc \in [Machines -> Calls \cup {"idle", "done"}]
        /\ run \in [Machines -> RunValues]
    BY Unchanged DEF ReadBackRoles, Machinery, MachineOK, TypeOK
  <1>2. /\ pc' = [pc EXCEPT ![m] = "list_clients"] /\ pc[m] = "read_back"
        /\ Learn(m, "role", roles[run[m].api]) /\ env' = env
        /\ roles' = roles /\ uris' = uris /\ faults' = faults /\ reruns' = reruns
    BY DEF ReadBackRoles, Go, counters, directory
  <1>3. /\ run[m].api \in DOMAIN roles /\ run[m].api \in uris
        /\ roles[run[m].api] # None
    BY <1>1, <1>2 DEF MachineOK, ApiKnown
  <1>4. /\ run'[m] = [run[m] EXCEPT !.role = roles[run[m].api]]
        /\ run'[m].role = roles[run[m].api]
        /\ run'[m].api = run[m].api /\ run'[m].known = run[m].known
        /\ run'[m].apiSp = run[m].apiSp /\ run'[m].clientSp = run[m].clientSp
        /\ \E r : run' = [run EXCEPT ![m] = r]
    <2>1. run' = [run EXCEPT ![m] = [run[m] EXCEPT !.role = roles[run[m].api]]]
      BY <1>2 DEF Learn
    <2>2. run \in [Machines -> RunValues] /\ run[m] \in RunValues
      BY <1>1
    <2>3. QED  BY <2>1, <2>2 DEF RunValues
  <1>5. run'[m] \in RunValues'
    <2>1. run[m] \in RunValues'  BY <1>1, ValuesGrow
    <2>2. roles[run[m].api] \in Machines \cup {None}  BY <1>1, <1>3, DirectoryFacts
    <2>3. QED  BY <1>4, <2>1, <2>2 DEF RunValues
  <1>6. ApiKnown(m)' /\ ClientKnown(m)'
    BY <1>1, <1>2, <1>3, <1>4, NoClientYet DEF ApiKnown, Saving
  <1>7. QED
    BY <1>1, <1>2, <1>4, <1>5, <1>6, Between DEF Machinery, TypeOK, Calls, Saving

-----------------------------------------------------------------------------
(* The client registration, the principals and the assignments.            *)

LEMMA FindClientOK ==
    ASSUME Machinery, NEW m \in Machines, FindClient(m) \/ FindNoClient(m)
    PROVE  Machinery'
  <1>1. /\ Directory /\ Directory' /\ Grows /\ MachineOK(m) /\ run[m] \in RunValues
        /\ pc \in [Machines -> Calls \cup {"idle", "done"}]
        /\ run \in [Machines -> RunValues]
        /\ env' = env /\ faults' = faults /\ reruns' = reruns /\ secrets' = secrets
    BY Unchanged DEF FindClient, FindNoClient, Machinery, MachineOK, TypeOK, counters,
                     directory
  <1>2. CASE FindClient(m)
    <2>1. pc' = [pc EXCEPT ![m] = "api_sp"] /\ pc[m] = "list_clients"
      BY <1>2 DEF FindClient, Go
    <2>2. PICK c \in DOMAIN secrets : Learn(m, "client", c)
      BY <1>2 DEF FindClient
    <2>3. /\ run'[m] = [run[m] EXCEPT !.client = c] /\ run'[m].client = c
          /\ run'[m].api = run[m].api /\ run'[m].role = run[m].role
          /\ run'[m].known = run[m].known
          /\ run'[m].apiSp = run[m].apiSp /\ run'[m].clientSp = run[m].clientSp
          /\ \E r : run' = [run EXCEPT ![m] = r]
      <3>1. run' = [run EXCEPT ![m] = [run[m] EXCEPT !.client = c]]
        BY <2>2 DEF Learn
      <3>2. QED  BY <1>1, <3>1 DEF RunValues
    <2>4. run'[m] \in RunValues'
      <3>1. c \in 0 .. Len(secrets')  BY <1>1, <2>2, DirectoryFacts
      <3>2. run[m] \in RunValues'  BY <1>1, ValuesGrow
      <3>3. QED  BY <2>3, <3>1, <3>2 DEF RunValues
    <2>5. ApiKnown(m)'
      BY <1>1, <2>1, <2>3, ApiStays DEF Early
    <2>6. ClientKnown(m)'
      BY <1>1, <2>1, <2>2, <2>3 DEF MachineOK, ClientKnown, Saving
    <2>7. QED
      BY <1>1, <2>1, <2>3, <2>4, <2>5, <2>6, Between DEF Machinery, TypeOK, Calls, Saving
  <1>3. CASE FindNoClient(m)
    <2>1. pc' = [pc EXCEPT ![m] = "create_client"] /\ pc[m] = "list_clients" /\ run' = run
      BY <1>3 DEF FindNoClient, Go
    <2>2. ApiKnown(m)' /\ ClientKnown(m)' /\ run'[m] \in RunValues'
      BY <1>1, <2>1, ApiStays, NoClientYet, ValuesGrow DEF Early, Saving
    <2>3. QED
      BY <1>1, <2>1, <2>2, Between DEF Machinery, TypeOK, Calls, Saving
  <1>4. QED  BY <1>2, <1>3

LEMMA CreateClientOK ==
    ASSUME Machinery, NEW m \in Machines, CreateClient(m)
    PROVE  Machinery' /\ Len(secrets') = Len(secrets) + 1
  <1>1. /\ Directory /\ MachineOK(m) /\ run[m] \in RunValues
        /\ pc \in [Machines -> Calls \cup {"idle", "done"}]
        /\ run \in [Machines -> RunValues]
    BY DEF Machinery, MachineOK, TypeOK
  <1>2. /\ pc' = [pc EXCEPT ![m] = "api_sp"] /\ pc[m] = "create_client"
        /\ secrets' = Append(secrets, {}) /\ Learn(m, "client", Len(secrets'))
        /\ env' = env /\ faults' = faults /\ reruns' = reruns
        /\ roles' = roles /\ uris' = uris /\ principals' = principals
        /\ granted' = granted /\ issued' = issued
    BY DEF CreateClient, Go, counters
  <1>3. /\ secrets' \in Seq(SUBSET Nat) /\ Len(secrets') = Len(secrets) + 1
        /\ DOMAIN secrets \subseteq DOMAIN secrets' /\ Len(secrets') \in DOMAIN secrets'
        /\ \A c \in DOMAIN secrets : secrets'[c] = secrets[c]
        /\ \A c \in DOMAIN secrets' : secrets'[c] \subseteq 1 .. issued
        /\ Len(secrets) \in Nat
    <2>1. {} \in SUBSET Nat  OBVIOUS
    <2>2. /\ secrets' \in Seq(SUBSET Nat) /\ Len(secrets') = Len(secrets) + 1
          /\ Len(secrets) \in Nat /\ DOMAIN secrets = 1 .. Len(secrets)
          /\ DOMAIN secrets' = 1 .. Len(secrets')
      BY <1>1, <1>2, <2>1 DEF Directory
    <2>3. /\ \A c \in DOMAIN secrets : secrets'[c] = secrets[c]
          /\ secrets'[Len(secrets) + 1] = {}
      BY <1>1, <1>2, <2>1 DEF Directory
    <2>4. \A c \in DOMAIN secrets : secrets[c] \subseteq 1 .. issued
      BY <1>1 DEF Directory
    <2>5. \A c \in DOMAIN secrets' : c \in DOMAIN secrets \/ c = Len(secrets) + 1
      BY <2>2
    <2>6. QED  BY <2>2, <2>3, <2>4, <2>5
  <1>4. Directory' /\ Grows
    <2>1. DOMAIN secrets \subseteq DOMAIN secrets'  BY <1>3
    <2>2. Directory'
      BY <1>1, <1>2, <1>3, <2>1 DEF Directory
    <2>3. QED  BY <1>1, <1>2, <1>3, <2>2, DirectoryFacts DEF Directory, Grows
  <1>5. /\ run'[m] = [run[m] EXCEPT !.client = Len(secrets')]
        /\ run'[m].client = Len(secrets')
        /\ run'[m].api = run[m].api /\ run'[m].role = run[m].role
        /\ run'[m].known = run[m].known
        /\ run'[m].apiSp = run[m].apiSp /\ run'[m].clientSp = run[m].clientSp
        /\ \E r : run' = [run EXCEPT ![m] = r]
    <2>1. run' = [run EXCEPT ![m] = [run[m] EXCEPT !.client = Len(secrets')]]
      BY <1>2 DEF Learn
    <2>2. run \in [Machines -> RunValues] /\ run[m] \in RunValues
      BY <1>1
    <2>3. QED  BY <2>1, <2>2 DEF RunValues
  <1>6. run'[m] \in RunValues'
    <2>1. Len(secrets') \in 0 .. Len(secrets')  BY <1>3
    <2>2. run[m] \in RunValues'  BY <1>1, <1>4, ValuesGrow
    <2>3. QED  BY <1>5, <2>1, <2>2 DEF RunValues
  <1>7. ApiKnown(m)'
    BY <1>1, <1>2, <1>4, <1>5, ApiStays DEF Early
  <1>8. ClientKnown(m)'
    BY <1>1, <1>2, <1>3, <1>5 DEF MachineOK, ClientKnown, Saving
  <1>9. Machinery'
    BY <1>1, <1>2, <1>4, <1>5, <1>6, <1>7, <1>8, Between
       DEF Machinery, TypeOK, Calls, Saving
  <1>10. QED  BY <1>3, <1>9

LEMMA ApiSpOK ==
    ASSUME Machinery, NEW m \in Machines, ApiSp(m)
    PROVE  Machinery'
  <1>1. /\ Directory /\ MachineOK(m) /\ run[m] \in RunValues
        /\ pc \in [Machines -> Calls \cup {"idle", "done"}]
        /\ run \in [Machines -> RunValues]
    BY DEF Machinery, MachineOK, TypeOK
  <1>2. /\ pc' = [pc EXCEPT ![m] = "client_sp"] /\ pc[m] = "api_sp"
        /\ env' = env /\ roles' = roles /\ secrets' = secrets /\ uris' = uris
        /\ granted' = granted /\ issued' = issued
        /\ {faults', reruns', faults' + reruns'} \subseteq 0 .. MaxSetbacks
        /\ principals' \in {principals, principals \cup {<<"api", run[m].api>>}}
    BY BoundedSetbacks DEF ApiSp, EnsureSp, Go, Overlook, counters, Machinery
  <1>3. \/ Learn(m, "apiSp", TRUE) /\ <<"api", run[m].api>> \in principals'
        \/ Learn(m, "unnoticed", TRUE)
    BY DEF ApiSp, EnsureSp, Learn
  <1>4. run[m].api \in DOMAIN roles /\ run[m].client \in DOMAIN secrets
        /\ ~ run[m].apiSp /\ ~ run[m].clientSp
    BY <1>1, <1>2 DEF MachineOK, ApiKnown, ClientKnown, Saving
  <1>5. Directory' /\ Grows
    <2>1. Directory'
      <3>1. <<"api", run[m].api>> \in {"api"} \X (DOMAIN roles)
        BY <1>4
      <3>2. principals \subseteq ({"api"} \X (DOMAIN roles)) \cup ({"client"} \X (DOMAIN secrets))
        BY <1>1 DEF Directory
      <3>3. principals' \subseteq ({"api"} \X (DOMAIN roles)) \cup ({"client"} \X (DOMAIN secrets))
        BY <1>2, <3>1, <3>2, Zenon
      <3>4. QED  BY <1>1, <1>2, <3>3 DEF Directory
    <2>2. Len(roles) <= Len(roles') /\ Len(secrets) <= Len(secrets') /\ issued <= issued'
      BY <1>1, <1>2, <1>4, DirectoryFacts DEF Directory
    <2>3. QED  BY <1>1, <1>2, <1>4, <2>1, <2>2 DEF Grows
  <1>6. /\ run'[m].api = run[m].api /\ run'[m].role = run[m].role
        /\ run'[m].client = run[m].client /\ run'[m].known = run[m].known
        /\ run'[m].clientSp = run[m].clientSp
        /\ run'[m].apiSp => <<"api", run[m].api>> \in principals'
        /\ run'[m].apiSp \/ run'[m].unnoticed
        /\ run'[m] \in RunValues
        /\ \E r : run' = [run EXCEPT ![m] = r]
    <2>1. CASE Learn(m, "apiSp", TRUE) /\ <<"api", run[m].api>> \in principals'
      <3>1. run' = [run EXCEPT ![m] = [run[m] EXCEPT !.apiSp = TRUE]]
        BY <2>1 DEF Learn
      <3>2. run \in [Machines -> RunValues] /\ run[m] \in RunValues
        BY <1>1
      <3>3. QED  BY <2>1, <3>1, <3>2 DEF RunValues
    <2>2. CASE Learn(m, "unnoticed", TRUE)
      <3>1. run' = [run EXCEPT ![m] = [run[m] EXCEPT !.unnoticed = TRUE]]
        BY <2>2 DEF Learn
      <3>2. run \in [Machines -> RunValues] /\ run[m] \in RunValues
        BY <1>1
      <3>3. QED  BY <1>4, <3>1, <3>2 DEF RunValues
    <2>3. QED  BY <1>3, <2>1, <2>2
  <1>7. ApiKnown(m)' /\ run'[m] \in RunValues'
    BY <1>1, <1>2, <1>5, <1>6, ApiStays, ValuesGrow DEF Early
  <1>8. ClientKnown(m)'
    BY <1>1, <1>2, <1>4, <1>6 DEF ClientKnown, Saving
  <1>9. QED
    BY <1>2, <1>5, <1>6, <1>7, <1>8, Between DEF Calls, Saving

LEMMA ClientSpOK ==
    ASSUME Machinery, NEW m \in Machines, ClientSp(m)
    PROVE  Machinery'
  <1>1. /\ Directory /\ MachineOK(m) /\ run[m] \in RunValues
        /\ pc \in [Machines -> Calls \cup {"idle", "done"}]
        /\ run \in [Machines -> RunValues]
    BY DEF Machinery, MachineOK, TypeOK
  <1>2. /\ pc' = [pc EXCEPT ![m] = "assign_read"] /\ pc[m] = "client_sp"
        /\ env' = env /\ roles' = roles /\ secrets' = secrets /\ uris' = uris
        /\ granted' = granted /\ issued' = issued
        /\ {faults', reruns', faults' + reruns'} \subseteq 0 .. MaxSetbacks
        /\ principals' \in {principals, principals \cup {<<"client", run[m].client>>}}
    BY BoundedSetbacks DEF ClientSp, EnsureSp, Go, Overlook, counters, Machinery
  <1>3. \/ Learn(m, "clientSp", TRUE) /\ <<"client", run[m].client>> \in principals'
        \/ Learn(m, "unnoticed", TRUE)
    BY DEF ClientSp, EnsureSp, Learn
  <1>4. run[m].api \in DOMAIN roles /\ run[m].client \in DOMAIN secrets
        /\ ~ run[m].clientSp /\ (run[m].apiSp \/ run[m].unnoticed)
    BY <1>1, <1>2 DEF MachineOK, ApiKnown, ClientKnown, Saving
  <1>5. Directory' /\ Grows
    <2>1. Directory'
      <3>1. <<"client", run[m].client>> \in {"client"} \X (DOMAIN secrets)
        BY <1>4
      <3>2. principals \subseteq ({"api"} \X (DOMAIN roles)) \cup ({"client"} \X (DOMAIN secrets))
        BY <1>1 DEF Directory
      <3>3. principals' \subseteq ({"api"} \X (DOMAIN roles)) \cup ({"client"} \X (DOMAIN secrets))
        BY <1>2, <3>1, <3>2, Zenon
      <3>4. QED  BY <1>1, <1>2, <3>3 DEF Directory
    <2>2. Len(roles) <= Len(roles') /\ Len(secrets) <= Len(secrets') /\ issued <= issued'
      BY <1>1, <1>2, <1>4, DirectoryFacts DEF Directory
    <2>3. QED  BY <1>1, <1>2, <1>4, <2>1, <2>2 DEF Grows
  <1>6. /\ run'[m].api = run[m].api /\ run'[m].role = run[m].role
        /\ run'[m].client = run[m].client /\ run'[m].known = run[m].known
        /\ run'[m].apiSp = run[m].apiSp
        /\ run[m].unnoticed => run'[m].unnoticed
        /\ run'[m].clientSp => <<"client", run[m].client>> \in principals'
        /\ run'[m].clientSp \/ run'[m].unnoticed
        /\ run'[m] \in RunValues
        /\ \E r : run' = [run EXCEPT ![m] = r]
    <2>1. CASE Learn(m, "clientSp", TRUE) /\ <<"client", run[m].client>> \in principals'
      <3>1. run' = [run EXCEPT ![m] = [run[m] EXCEPT !.clientSp = TRUE]]
        BY <2>1 DEF Learn
      <3>2. run \in [Machines -> RunValues] /\ run[m] \in RunValues
        BY <1>1
      <3>3. QED  BY <2>1, <3>1, <3>2 DEF RunValues
    <2>2. CASE Learn(m, "unnoticed", TRUE)
      <3>1. run' = [run EXCEPT ![m] = [run[m] EXCEPT !.unnoticed = TRUE]]
        BY <2>2 DEF Learn
      <3>2. run \in [Machines -> RunValues] /\ run[m] \in RunValues
        BY <1>1
      <3>3. QED  BY <1>4, <3>1, <3>2 DEF RunValues
    <2>3. QED  BY <1>3, <2>1, <2>2
  <1>7. ApiKnown(m)' /\ run'[m] \in RunValues'
    BY <1>1, <1>2, <1>5, <1>6, ApiStays, ValuesGrow DEF Early
  <1>8. ClientKnown(m)'
    BY <1>1, <1>2, <1>4, <1>5, <1>6 DEF MachineOK, ClientKnown, Saving, Grows
  <1>9. QED
    BY <1>2, <1>5, <1>6, <1>7, <1>8, Between DEF Calls, Saving

LEMMA AssignOK ==
    ASSUME Machinery, NEW m \in Machines, NEW from, NEW to, NEW role,
           \/ from = "assign_read" /\ to = "assign_write" /\ role = "read"
           \/ from = "assign_write" /\ to = "secret" /\ role = "write",
           Assign(m, from, to, role) \/ AssignSkipped(m, from, to)
    PROVE  Machinery'
  <1>1. /\ Directory /\ MachineOK(m) /\ run[m] \in RunValues
        /\ pc \in [Machines -> Calls \cup {"idle", "done"}]
        /\ run \in [Machines -> RunValues]
    BY DEF Machinery, MachineOK, TypeOK
  <1>2. /\ pc' = [pc EXCEPT ![m] = to] /\ pc[m] = from
        /\ env' = env /\ roles' = roles /\ secrets' = secrets /\ uris' = uris
        /\ principals' = principals /\ issued' = issued
        /\ granted' \in {granted, granted \cup {Grant(m, role)}}
        /\ {faults', reruns', faults' + reruns'} \subseteq 0 .. MaxSetbacks
    BY BoundedSetbacks DEF Assign, AssignSkipped, Go, Overlook, counters, directory, Machinery
  <1>3. \/ run' = run /\ Grant(m, role) \in granted'
        \/ run' = [run EXCEPT ![m] = [run[m] EXCEPT !.unnoticed = TRUE]]
    BY DEF Assign, AssignSkipped
  <1>4. run[m].api \in DOMAIN roles /\ run[m].client \in DOMAIN secrets
    BY <1>1, <1>2 DEF MachineOK, ApiKnown, ClientKnown, Saving
  <1>5. Directory' /\ Grows
    <2>1. Grant(m, role) \in (DOMAIN secrets) \X (DOMAIN roles) \X {"read", "write"}
      BY <1>4 DEF Grant
    <2>2. Directory'
      BY <1>1, <1>2, <2>1 DEF Directory
    <2>3. Grows
      BY <1>1, <1>2, DirectoryFacts DEF Directory, Grows
    <2>4. QED  BY <2>2, <2>3
  <1>6. /\ run'[m].api = run[m].api /\ run'[m].role = run[m].role
        /\ run'[m].client = run[m].client /\ run'[m].known = run[m].known
        /\ run'[m].apiSp = run[m].apiSp /\ run'[m].clientSp = run[m].clientSp
        /\ run[m].unnoticed => run'[m].unnoticed
        /\ Grant(m, role) \in granted' \/ run'[m].unnoticed
        /\ run'[m] \in RunValues
        /\ run' = run \/ \E r : run' = [run EXCEPT ![m] = r]
    <2>1. CASE run' = run /\ Grant(m, role) \in granted'
      BY <1>1, <2>1
    <2>2. CASE run' = [run EXCEPT ![m] = [run[m] EXCEPT !.unnoticed = TRUE]]
      BY <1>1, <2>2 DEF RunValues
    <2>3. QED  BY <1>3, <2>1, <2>2
  <1>7. ApiKnown(m)' /\ run'[m] \in RunValues'
    BY <1>1, <1>2, <1>5, <1>6, ApiStays, ValuesGrow DEF Early
  <1>8. ClientKnown(m)'
    BY <1>1, <1>2, <1>4, <1>5, <1>6 DEF MachineOK, ClientKnown, Saving, Grows, Grant
  <1>9. QED
    BY <1>2, <1>5, <1>6, <1>7, <1>8, Between DEF Calls, Saving

LEMMA AssignmentsOK ==
    ASSUME Machinery, NEW m \in Machines, AssignRead(m) \/ AssignWrite(m)
    PROVE  Machinery'
  BY AssignOK, QuitOK DEF AssignRead, AssignWrite, AssignRejected

-----------------------------------------------------------------------------
(* The secret and the azd environment.                                     *)

LEMMA KeepSecretOK ==
    ASSUME Machinery, NEW m \in Machines, KeepSecret(m)
    PROVE  Machinery'
  <1>1. /\ Directory /\ Directory' /\ Grows /\ MachineOK(m) /\ run[m] \in RunValues
        /\ pc \in [Machines -> Calls \cup {"idle", "done"}]
        /\ run \in [Machines -> RunValues]
    BY Unchanged DEF KeepSecret, Machinery, MachineOK, TypeOK
  <1>2. /\ pc' = [pc EXCEPT ![m] = "save_api"] /\ pc[m] = "secret"
        /\ run[m].known.client = run[m].client /\ run[m].known.secret # 0
        /\ run' = [run EXCEPT ![m] = [run[m] EXCEPT !.secret = run[m].known.secret]]
        /\ env' = env /\ roles' = roles /\ secrets' = secrets /\ uris' = uris
        /\ principals' = principals /\ granted' = granted
        /\ faults' = faults /\ reruns' = reruns
    BY DEF KeepSecret, Go, Learn, SecretUnknown, counters, directory
  <1>3. /\ run'[m].api = run[m].api /\ run'[m].role = run[m].role
        /\ run'[m].client = run[m].client /\ run'[m].known = run[m].known
        /\ run'[m].apiSp = run[m].apiSp /\ run'[m].clientSp = run[m].clientSp
        /\ run'[m].unnoticed = run[m].unnoticed
        /\ run'[m].secret = run[m].known.secret
        /\ run'[m] \in RunValues
    <2>1. run[m].known.secret \in 0 .. issued
      BY <1>1 DEF RunValues, EnvValues
    <2>2. QED  BY <1>1, <1>2, <2>1 DEF RunValues
  <1>4. Valid(run[m].known.secret) /\ Fits(run[m].known.secret, run[m].client)
    <2>1. Valid(run[m].known.secret)
      BY <1>1, <1>2 DEF MachineOK, SecretKnown
    <2>2. run[m].client \in DOMAIN secrets
      BY <1>1, <1>2 DEF MachineOK, ClientKnown
    <2>3. QED  BY <1>1, <2>1, <2>2, DirectoryFacts DEF Valid, Fits
  <1>5. ApiKnown(m)'
    BY <1>1, <1>2, <1>3, ApiStays DEF Early
  <1>6. ClientKnown(m)'
    BY <1>1, <1>2, <1>3 DEF MachineOK, ClientKnown, Saving, Grant
  <1>7. SecretKnown(m)' /\ Saved(m)'
    BY <1>1, <1>2, <1>3, <1>4 DEF MachineOK, SecretKnown, Saved, Saving, Valid, Fits
  <1>8. MachineOK(m)'
    BY <1>1, <1>2, <1>3, <1>5, <1>6, <1>7, ValuesGrow DEF MachineOK, Calls
  <1>9. Alone(m)
    BY <1>2 DEF Alone, Calls
  <1>10. QED  BY <1>1, <1>2, <1>8, <1>9, OneActs DEF Machinery, TypeOK

LEMMA NewSecretOK ==
    ASSUME Machinery, NEW m \in Machines, NewSecret(m)
    PROVE  Machinery' /\ Len(secrets') = Len(secrets)
  <1>1. /\ Directory /\ MachineOK(m) /\ run[m] \in RunValues
        /\ pc \in [Machines -> Calls \cup {"idle", "done"}]
        /\ run \in [Machines -> RunValues]
    BY DEF Machinery, MachineOK, TypeOK
  <1>2. /\ pc' = [pc EXCEPT ![m] = "save_api"] /\ pc[m] = "secret"
        /\ issued' = issued + 1
        /\ secrets' = [secrets EXCEPT ![run[m].client] =
                                          secrets[run[m].client] \cup {issued + 1}]
        /\ run' = [run EXCEPT ![m] = [run[m] EXCEPT !.secret = issued + 1]]
        /\ env' = env /\ roles' = roles /\ uris' = uris
        /\ principals' = principals /\ granted' = granted
        /\ faults' = faults /\ reruns' = reruns
    BY DEF NewSecret, Go, Learn, WithSecret, counters
  <1>3. run[m].client \in DOMAIN secrets
    BY <1>1, <1>2 DEF MachineOK, ClientKnown
  <1>4. /\ secrets' \in Seq(SUBSET Nat) /\ Len(secrets') = Len(secrets)
        /\ DOMAIN secrets' = DOMAIN secrets
        /\ issued + 1 \in secrets'[run[m].client]
        /\ \A c \in DOMAIN secrets : secrets[c] \subseteq secrets'[c]
        /\ \A c \in DOMAIN secrets : secrets'[c] \subseteq 1 .. issued + 1
    <2>1. issued \in Nat /\ secrets \in Seq(SUBSET Nat)
          /\ \A c \in DOMAIN secrets : secrets[c] \subseteq 1 .. issued
      BY <1>1 DEF Directory
    <2>2. secrets[run[m].client] \cup {issued + 1} \in SUBSET Nat
      BY <1>1, <1>3, <2>1, DirectoryFacts
    <2>3. /\ secrets' \in Seq(SUBSET Nat) /\ Len(secrets') = Len(secrets)
          /\ DOMAIN secrets' = DOMAIN secrets
      BY <1>2, <1>3, <2>1, <2>2
    <2>4. /\ secrets'[run[m].client] = secrets[run[m].client] \cup {issued + 1}
          /\ \A c \in DOMAIN secrets : c # run[m].client => secrets'[c] = secrets[c]
      BY <1>2, <1>3, <2>1
    <2>5. 1 .. issued \subseteq 1 .. issued + 1 /\ issued + 1 \in 1 .. issued + 1
      BY <2>1
    <2>6. QED  BY <1>3, <2>1, <2>3, <2>4, <2>5
  <1>5. Directory' /\ Grows
    <2>1. Directory'
      BY <1>1, <1>2, <1>4 DEF Directory
    <2>2. QED  BY <1>1, <1>2, <1>4, <2>1, DirectoryFacts DEF Directory, Grows
  <1>6. /\ run'[m].api = run[m].api /\ run'[m].role = run[m].role
        /\ run'[m].client = run[m].client /\ run'[m].known = run[m].known
        /\ run'[m].apiSp = run[m].apiSp /\ run'[m].clientSp = run[m].clientSp
        /\ run'[m].unnoticed = run[m].unnoticed
        /\ run'[m].secret = issued + 1
        /\ run'[m] \in RunValues'
    <2>1. run[m] \in RunValues'  BY <1>1, <1>5, ValuesGrow
    <2>2. issued + 1 \in 0 .. issued'  BY <1>1, <1>2 DEF Directory
    <2>3. QED  BY <1>1, <1>2, <2>1, <2>2 DEF RunValues
  <1>7. ApiKnown(m)'
    BY <1>1, <1>2, <1>5, <1>6, ApiStays DEF Early
  <1>8. ClientKnown(m)'
    BY <1>1, <1>2, <1>4, <1>6 DEF MachineOK, ClientKnown, Saving, Grant
  <1>9. SecretKnown(m)' /\ Saved(m)'
    <2>1. \A secret : Valid(secret) => Valid(secret)'
      BY <1>1, <1>5, ValuesGrow
    <2>2. /\ env'[m].secret # 0 => Valid(env[m].secret)'
          /\ run'[m].known.secret # 0 => Valid(run[m].known.secret)'
      BY <1>1, <1>2, <1>6, <2>1 DEF MachineOK, SecretKnown
    <2>3. Valid(run[m].secret)' /\ Fits(run[m].secret, run[m].client)'
      BY <1>3, <1>4, <1>6 DEF Valid, Fits
    <2>4. QED
      BY <1>1, <1>2, <1>6, <2>2, <2>3 DEF SecretKnown, Saved, Saving
  <1>10. MachineOK(m)'
    BY <1>1, <1>2, <1>5, <1>6, <1>7, <1>8, <1>9, ValuesGrow DEF MachineOK, Calls
  <1>11. Alone(m)
    BY <1>2 DEF Alone, Calls
  <1>12. QED  BY <1>2, <1>4, <1>5, <1>10, <1>11, OneActs DEF Machinery, TypeOK

LEMMA SaveOK ==
    ASSUME Machinery, NEW m \in Machines, SaveAudience(m) \/ SaveClient(m) \/ SaveSecret(m)
    PROVE  Machinery'
  <1>1. /\ Directory /\ Directory' /\ Grows /\ MachineOK(m) /\ run[m] \in RunValues
        /\ pc \in [Machines -> Calls \cup {"idle", "done"}]
        /\ env \in [Machines -> EnvValues] /\ env[m] \in EnvValues
        /\ run' = run /\ faults' = faults /\ reruns' = reruns /\ UNCHANGED directory
    BY Unchanged DEF SaveAudience, SaveClient, SaveSecret, SaveKey, Machinery, MachineOK,
                     TypeOK, counters
  <1>2. pc[m] \in Saving /\ pc'[m] \in Saving
    BY <1>1 DEF SaveAudience, SaveClient, SaveSecret, SaveKey, Go, Saving
  <1>3. /\ run[m].api \in 0 .. Len(roles) /\ run[m].client \in 0 .. Len(secrets)
        /\ run[m].secret \in 0 .. issued
    BY <1>1 DEF RunValues
  <1>4. /\ \E to \in Calls : pc' = [pc EXCEPT ![m] = to]
        /\ \E e \in EnvValues : env' = [env EXCEPT ![m] = e]
        /\ env'[m].secret \in {env[m].secret, run[m].secret}
        /\ Saved(m)'
    <2>1. CASE SaveAudience(m)
      <3>1. /\ pc' = [pc EXCEPT ![m] = "save_client"]
            /\ env' = [env EXCEPT ![m] = [env[m] EXCEPT !.api = run[m].api]]
        BY <2>1 DEF SaveAudience, SaveKey, Go, Save
      <3>2. [env[m] EXCEPT !.api = run[m].api] \in EnvValues
        BY <1>1, <1>3 DEF EnvValues
      <3>3. env'[m].api = run[m].api /\ env'[m].secret = env[m].secret
        BY <1>1, <3>1 DEF EnvValues
      <3>4. QED  BY <1>1, <3>1, <3>2, <3>3 DEF Saved, Saving, Calls
    <2>2. CASE SaveClient(m)
      <3>1. /\ pc' = [pc EXCEPT ![m] = "save_secret"] /\ pc[m] = "save_client"
            /\ env' = [env EXCEPT ![m] = [env[m] EXCEPT !.client = run[m].client]]
        BY <2>2 DEF SaveClient, SaveKey, Go, Save
      <3>2. [env[m] EXCEPT !.client = run[m].client] \in EnvValues
        BY <1>1, <1>3 DEF EnvValues
      <3>3. /\ env'[m].api = env[m].api /\ env'[m].client = run[m].client
            /\ env'[m].secret = env[m].secret
        BY <1>1, <3>1 DEF EnvValues
      <3>4. env[m].api = run[m].api
        BY <1>1, <3>1 DEF MachineOK, Saved, Saving
      <3>5. QED  BY <1>1, <3>1, <3>2, <3>3, <3>4 DEF Saved, Saving, Calls
    <2>3. CASE SaveSecret(m)
      <3>1. /\ pc' = [pc EXCEPT ![m] = "save_roles"] /\ pc[m] = "save_secret"
            /\ env' = [env EXCEPT ![m] = [env[m] EXCEPT !.secret = run[m].secret]]
        BY <2>3 DEF SaveSecret, SaveKey, Go, Save
      <3>2. [env[m] EXCEPT !.secret = run[m].secret] \in EnvValues
        BY <1>1, <1>3 DEF EnvValues
      <3>3. /\ env'[m].api = env[m].api /\ env'[m].client = env[m].client
            /\ env'[m].secret = run[m].secret
        BY <1>1, <3>1 DEF EnvValues
      <3>4. env[m].api = run[m].api /\ env[m].client = run[m].client
        BY <1>1, <3>1 DEF MachineOK, Saved, Saving
      <3>5. QED  BY <1>1, <3>1, <3>2, <3>3, <3>4 DEF Saved, Saving, Calls
    <2>4. QED  BY <2>1, <2>2, <2>3
  <1>5. env'[m] \in EnvValues' /\ run'[m] \in RunValues'
    <2>1. env'[m] \in EnvValues  BY <1>1, <1>4
    <2>2. QED  BY <1>1, <2>1, ValuesGrow
  <1>6. ApiKnown(m)'
    BY <1>1, <1>2, ApiStays DEF Early, Saving
  <1>7. ClientKnown(m)'
    BY <1>1, <1>2 DEF MachineOK, ClientKnown, Saving, Grant, directory
  <1>8. SecretKnown(m)'
    <2>1. \A secret : Valid(secret) => Valid(secret)'
      BY <1>1, ValuesGrow
    <2>2. Valid(run[m].secret) /\ Fits(run[m].secret, run[m].client)
          /\ (env[m].secret # 0 => Valid(env[m].secret))
          /\ (run[m].known.secret # 0 => Valid(run[m].known.secret))
      BY <1>1, <1>2 DEF MachineOK, SecretKnown
    <2>3. Fits(run[m].secret, run[m].client)'
      BY <1>1, <2>2 DEF Fits, directory
    <2>4. QED  BY <1>1, <1>2, <1>4, <2>1, <2>2, <2>3 DEF SecretKnown
  <1>9. MachineOK(m)'
    BY <1>1, <1>2, <1>4, <1>5, <1>6, <1>7, <1>8 DEF MachineOK, Saving, Calls
  <1>10. Alone(m)
    BY <1>1, <1>4 DEF Alone
  <1>11. QED  BY <1>1, <1>9, <1>10, OneActs DEF Machinery, TypeOK

\* The last call: whatever the run did not overlook is there.
LEMMA SaveRolesOK ==
    ASSUME Machinery, NEW m \in Machines, SaveRoles(m)
    PROVE  Machinery'
  <1>1. /\ Directory /\ Directory' /\ Grows /\ MachineOK(m) /\ run[m] \in RunValues
        /\ pc \in [Machines -> Calls \cup {"idle", "done"}]
        /\ env \in [Machines -> EnvValues] /\ env[m] \in EnvValues
        /\ run \in [Machines -> RunValues]
    BY Unchanged DEF SaveRoles, Machinery, MachineOK, TypeOK
  <1>2. /\ pc' = [pc EXCEPT ![m] = "done"] /\ pc[m] = "save_roles"
        /\ env' = [env EXCEPT ![m] = [env[m] EXCEPT !.role = run[m].role]]
        /\ run' = [run EXCEPT ![m] = [NoRun EXCEPT !.unnoticed = run[m].unnoticed]]
        /\ roles' = roles /\ secrets' = secrets /\ uris' = uris
        /\ principals' = principals /\ granted' = granted /\ issued' = issued
        /\ faults' = faults /\ reruns' = reruns
    BY DEF SaveRoles, Go, Save, counters, directory
  <1>3. /\ env'[m].role = run[m].role /\ env'[m].api = env[m].api
        /\ env'[m].client = env[m].client /\ env'[m].secret = env[m].secret
        /\ env'[m] \in EnvValues
    <2>1. run[m].role \in Machines \cup {None}
      BY <1>1 DEF RunValues
    <2>2. QED  BY <1>1, <1>2, <2>1 DEF EnvValues
  <1>4. /\ run'[m].unnoticed = run[m].unnoticed /\ run'[m].known = NoEnv
        /\ ~ run'[m].apiSp /\ ~ run'[m].clientSp
        /\ run'[m] \in RunValues
    <2>1. run[m].unnoticed \in BOOLEAN
      BY <1>1 DEF RunValues
    <2>2. run'[m] = [NoRun EXCEPT !.unnoticed = run[m].unnoticed]
      BY <1>1, <1>2
    <2>3. run'[m] \in RunValues
      BY <1>1, <2>1, <2>2, NoRunOK
    <2>4. QED  BY <2>2, <2>3 DEF NoRun
  <1>5. env'[m] \in EnvValues' /\ run'[m] \in RunValues'
    BY <1>1, <1>3, <1>4, ValuesGrow
  <1>6. /\ run[m].api \in uris /\ run[m].role # None /\ roles[run[m].api] = run[m].role
    BY <1>1, <1>2 DEF MachineOK, ApiKnown
  <1>7. run[m].unnoticed
        \/ /\ <<"api", run[m].api>> \in principals
           /\ <<"client", run[m].client>> \in principals
           /\ Grant(m, "read") \in granted /\ Grant(m, "write") \in granted
    BY <1>1, <1>2 DEF MachineOK, ClientKnown, Saving
  <1>8. /\ env[m].api = run[m].api /\ env[m].client = run[m].client
        /\ env[m].secret = run[m].secret
    BY <1>1, <1>2 DEF MachineOK, Saved, Saving
  <1>9. /\ Fits(env[m].secret, env[m].client)
        /\ env[m].secret # 0 => Valid(env[m].secret)
    BY <1>1, <1>2, <1>8 DEF MachineOK, SecretKnown, Saving
  <1>10. Saved(m)'
    <2>1. ~ run[m].unnoticed => Ready(m)'
      BY <1>2, <1>3, <1>6, <1>7, <1>8, <1>9 DEF Ready, Grant, Fits
    <2>2. QED  BY <1>1, <1>2, <1>3, <1>4, <1>6, <2>1 DEF Saved, Saving
  <1>11. ApiKnown(m)' /\ ClientKnown(m)'
    BY <1>1, <1>2, <1>4 DEF ApiKnown, ClientKnown, Saving
  <1>12. SecretKnown(m)'
    <2>1. NoEnv.secret = 0  BY DEF NoEnv
    <2>2. QED
      BY <1>1, <1>2, <1>3, <1>4, <1>9, <2>1 DEF SecretKnown, Saving, Valid
  <1>13. MachineOK(m)'
    BY <1>1, <1>2, <1>5, <1>10, <1>11, <1>12 DEF MachineOK
  <1>14. Alone(m)
    BY <1>2 DEF Alone
  <1>15. QED  BY <1>1, <1>2, <1>13, <1>14, OneActs DEF Machinery, TypeOK

LEMMA StepOK ==
    ASSUME Machinery, [Next]_vars
    PROVE  Machinery'
  <1>1. ASSUME NEW m \in Machines,
               Start(m) \/ StartBlind(m) \/ Rerun(m) \/ HookStep(m) \/ Stop(m)
        PROVE  Machinery'
    <2>1. CASE Start(m) \/ StartBlind(m) \/ Rerun(m) \/ Stop(m)
      BY <2>1, BeginOK
    <2>2. CASE \/ FindApi(m) \/ FindNoApi(m) \/ CreateApi(m) \/ SetUri(m)
               \/ ShowRoles(m) \/ PatchRoles(m) \/ PatchRejected(m) \/ ReadBackRoles(m)
      BY <2>2, FindApiOK, CreateApiOK, SetUriOK, ShowRolesOK, PatchRolesOK, QuitOK, ReadBackOK
         DEF PatchRejected
    <2>3. CASE \/ FindClient(m) \/ FindNoClient(m) \/ CreateClient(m)
               \/ ApiSp(m) \/ ClientSp(m) \/ AssignRead(m) \/ AssignWrite(m)
      BY <2>3, FindClientOK, CreateClientOK, ApiSpOK, ClientSpOK, AssignmentsOK
    <2>4. CASE \/ KeepSecret(m) \/ NewSecret(m)
               \/ SaveAudience(m) \/ SaveClient(m) \/ SaveSecret(m) \/ SaveRoles(m)
      BY <2>4, KeepSecretOK, NewSecretOK, SaveOK, SaveRolesOK
    <2>5. QED  BY <1>1, <2>1, <2>2, <2>3, <2>4 DEF HookStep
  <1>2. CASE UNCHANGED vars
    <2>1. /\ pc' = pc /\ env' = env /\ run' = run /\ faults' = faults /\ reruns' = reruns
          /\ UNCHANGED directory
      BY <1>2 DEF vars, counters
    <2>2. /\ Directory' /\ Grows
          /\ \A m \in Machines : MachineOK(m)'
      BY <2>1, Unchanged, OthersKeep DEF Machinery
    <2>3. TypeOK'
      BY <2>1 DEF Machinery, TypeOK, directory, EnvValues, RunValues
    <2>4. QED  BY <2>2, <2>3 DEF Machinery
  <1>3. QED  BY <1>1, <1>2 DEF Next

-----------------------------------------------------------------------------
(* How many registrations and secrets there are.                           *)

Creating(call) == {m \in Machines : pc[m] = call}
Holders == {m \in Machines : Holds(m)}

FewRegistrations ==
    /\ Len(roles) + Cardinality(Creating("create_api")) <= Cardinality(Machines)
    /\ Len(secrets) + Cardinality(Creating("create_client")) <= Cardinality(Machines)

FewSecrets ==
    /\ secrets = << >> => issued = 0
    /\ Len(secrets) = 1 => issued <= Cardinality(Holders) + faults

LEMMA HookInvParts ==
    /\ HookInv <=> Machinery /\ FewRegistrations /\ FewSecrets
    /\ HookInv' <=> Machinery' /\ FewRegistrations' /\ FewSecrets'
  BY DEF HookInv, Machinery, TypeOK, Directory, MachineOK, FewRegistrations, FewSecrets,
         Creating, Holders

LEMMA Finite ==
    ASSUME NEW S, S \subseteq Machines
    PROVE  /\ IsFiniteSet(S) /\ Cardinality(S) \in Nat /\ Cardinality(Machines) \in Nat
           /\ Cardinality(S) <= Cardinality(Machines)
           /\ \A R \in SUBSET S : Cardinality(R) <= Cardinality(S)
           /\ \A m \in S : Cardinality(S \ {m}) = Cardinality(S) - 1
  BY BoundsAssumption, FS_Subset, FS_CardinalityType, FS_RemoveElement

\* What each step does to the counts.
Counts(m) ==
    /\ Alone(m)
    /\ \/ Len(roles') = Len(roles) /\ pc'[m] # "create_api"
       \/ FindNoApi(m) \/ CreateApi(m)
    /\ \/ Len(secrets') = Len(secrets) /\ pc'[m] # "create_client"
       \/ FindNoClient(m) \/ CreateClient(m)
    /\ \/ issued' = issued /\ (secrets' = secrets \/ CreateClient(m))
       \/ NewSecret(m)
    /\ Len(secrets) = 1 /\ Holds(m) => Holds(m)' \/ faults' = faults + 1
    /\ faults' \in {faults, faults + 1}

LEMMA FewStay ==
    ASSUME Machinery, Machinery', FewRegistrations, FewSecrets, NEW m \in Machines, Counts(m)
    PROVE  FewRegistrations' /\ FewSecrets'
  <1>1. /\ Directory /\ Directory' /\ faults \in Nat /\ MachineOK(m)
        /\ pc \in [Machines -> Calls \cup {"idle", "done"}]
        /\ env \in [Machines -> EnvValues] /\ run \in [Machines -> RunValues]
    BY BoundedSetbacks DEF Machinery, TypeOK
  <1>2. \A n \in Machines \ {m} : pc'[n] = pc[n] /\ env'[n] = env[n] /\ run'[n] = run[n]
    BY <1>1 DEF Counts, Alone
  <1>3. \A call : Creating(call)' \ {m} = Creating(call) \ {m}
    BY <1>2 DEF Creating
  <1>4. ASSUME NEW call, pc'[m] # call
        PROVE  /\ Cardinality(Creating(call)') <= Cardinality(Creating(call))
               /\ pc[m] = call => Cardinality(Creating(call)') + 1 <= Cardinality(Creating(call))
    <2>1. Creating(call)' \subseteq Creating(call) \ {m}
      BY <1>3, <1>4 DEF Creating
    <2>2. Creating(call) \subseteq Machines
      BY DEF Creating
    <2>3. pc[m] = call => Creating(call)' \subseteq Creating(call) \ {m} /\ m \in Creating(call)
      BY <2>1 DEF Creating
    <2>4. Creating(call)' \in SUBSET Creating(call)
      BY <2>1
    <2>5. Cardinality(Creating(call)') <= Cardinality(Creating(call))
      BY <2>2, <2>4, Finite
    <2>6. CASE pc[m] = call
      <3>1. Cardinality(Creating(call) \ {m}) = Cardinality(Creating(call)) - 1
        BY <2>2, <2>3, <2>6, Finite
      <3>2. Creating(call) \ {m} \subseteq Machines
        BY <2>2
      <3>3. Cardinality(Creating(call)') <= Cardinality(Creating(call) \ {m})
        BY <2>1, <3>2, Finite
      <3>4. /\ Cardinality(Creating(call)) \in Nat
            /\ Cardinality(Creating(call)') \in Nat
        <4>1. Creating(call)' \subseteq Machines  BY <2>1, <2>2
        <4>2. QED  BY <2>2, <4>1, Finite
      <3>5. QED  BY <2>5, <3>1, <3>3, <3>4
    <2>7. QED  BY <2>5, <2>6
  <1>5. \A call : /\ Creating(call) \subseteq Machines /\ Creating(call)' \subseteq Machines
                  /\ Cardinality(Creating(call)) \in Nat
                  /\ Cardinality(Creating(call)') \in Nat
                  /\ Cardinality(Creating(call)') <= Cardinality(Machines)
                  /\ Cardinality(Machines) \in Nat
    <2>1. \A call : Creating(call) \subseteq Machines /\ Creating(call)' \subseteq Machines
      BY DEF Creating
    <2>2. QED  BY <2>1, Finite
  <1>6. FewRegistrations'
    <2>1. Len(roles') + Cardinality(Creating("create_api")') <= Cardinality(Machines)
      <3>1. CASE Len(roles') = Len(roles) /\ pc'[m] # "create_api"
        BY <1>1, <1>4, <1>5, <3>1, DirectoryFacts DEF FewRegistrations
      <3>2. CASE FindNoApi(m)
        <4>1. Len(roles') = 0
          BY <3>2 DEF FindNoApi, directory
        <4>2. QED  BY <1>5, <4>1
      <3>3. CASE CreateApi(m)
        <4>1. Len(roles') = Len(roles) + 1
          BY <3>3, CreateApiOK
        <4>2. pc[m] = "create_api" /\ pc'[m] # "create_api"
          BY <1>1, <3>3 DEF CreateApi, Go
        <4>3. QED
          BY <1>1, <1>4, <1>5, <4>1, <4>2, DirectoryFacts DEF FewRegistrations
      <3>4. QED  BY <3>1, <3>2, <3>3 DEF Counts
    <2>2. Len(secrets') + Cardinality(Creating("create_client")') <= Cardinality(Machines)
      <3>1. CASE Len(secrets') = Len(secrets) /\ pc'[m] # "create_client"
        BY <1>1, <1>4, <1>5, <3>1, DirectoryFacts DEF FewRegistrations
      <3>2. CASE FindNoClient(m)
        <4>1. Len(secrets') = 0
          BY <3>2 DEF FindNoClient, directory
        <4>2. QED  BY <1>5, <4>1
      <3>3. CASE CreateClient(m)
        <4>1. Len(secrets') = Len(secrets) + 1
          BY <3>3, CreateClientOK
        <4>2. pc[m] = "create_client" /\ pc'[m] # "create_client"
          BY <1>1, <3>3 DEF CreateClient, Go
        <4>3. QED
          BY <1>1, <1>4, <1>5, <4>1, <4>2, DirectoryFacts DEF FewRegistrations
      <3>4. QED  BY <3>1, <3>2, <3>3 DEF Counts
    <2>3. QED  BY <2>1, <2>2 DEF FewRegistrations
  <1>7. /\ Holders \subseteq Machines /\ Holders' \subseteq Machines
        /\ Holders \ {m} \subseteq Holders'
    BY <1>2 DEF Holders, Holds
  <1>8. /\ Cardinality(Holders) \in Nat /\ Cardinality(Holders') \in Nat
        /\ Cardinality(Holders) - 1 <= Cardinality(Holders')
        /\ (Holds(m) => Holds(m)') => Cardinality(Holders) <= Cardinality(Holders')
        /\ ~ Holds(m) /\ Holds(m)' => Cardinality(Holders) + 1 <= Cardinality(Holders')
    <2>1. Cardinality(Holders) \in Nat /\ Cardinality(Holders') \in Nat
      BY <1>7, Finite
    <2>2. Cardinality(Holders) - 1 <= Cardinality(Holders \ {m})
          /\ Cardinality(Holders \ {m}) <= Cardinality(Holders')
      <3>1. Cardinality(Holders \ {m}) <= Cardinality(Holders')
        BY <1>7, Finite
      <3>2. CASE m \in Holders
        BY <1>7, <2>1, <3>1, <3>2, Finite
      <3>3. CASE m \notin Holders
        <4>1. Holders \ {m} = Holders  BY <3>3
        <4>2. QED  BY <2>1, <3>1, <4>1
      <3>4. QED  BY <3>2, <3>3
    <2>3. ASSUME Holds(m) => Holds(m)'
          PROVE  Cardinality(Holders) <= Cardinality(Holders')
      <3>1. Holders \in SUBSET Holders'
        BY <1>7, <2>3 DEF Holders
      <3>2. QED  BY <1>7, <3>1, Finite
    <2>4. ASSUME ~ Holds(m), Holds(m)'
          PROVE  Cardinality(Holders) + 1 <= Cardinality(Holders')
      <3>1. m \in Holders' /\ Holders \in SUBSET (Holders' \ {m})
        BY <1>7, <2>4 DEF Holders
      <3>2. Holders' \ {m} \subseteq Machines
        BY <1>7
      <3>3. Cardinality(Holders) <= Cardinality(Holders' \ {m})
        BY <3>1, <3>2, Finite
      <3>4. Cardinality(Holders' \ {m}) = Cardinality(Holders') - 1
        BY <1>7, <3>1, Finite
      <3>5. QED  BY <2>1, <3>3, <3>4
    <2>5. Cardinality(Holders \ {m}) \in Nat
      <3>1. Holders \ {m} \subseteq Machines  BY <1>7
      <3>2. QED  BY <3>1, Finite
    <2>6. Cardinality(Holders) - 1 <= Cardinality(Holders')
      BY <2>1, <2>2, <2>5
    <2>7. QED  BY <2>1, <2>3, <2>4, <2>6
  <1>9. FewSecrets'
    <2>1. CASE NewSecret(m)
      <3>1. /\ Len(secrets') = Len(secrets) /\ issued' = issued + 1 /\ issued \in Nat
            /\ pc[m] = "secret" /\ pc'[m] = "save_api" /\ faults' = faults
            /\ run[m].known.client # run[m].client \/ run[m].known.secret = 0
        BY <1>1, <2>1, NewSecretOK DEF NewSecret, Go, SecretUnknown, counters, Directory
      <3>2. run[m].client \in DOMAIN secrets
        BY <1>1, <3>1 DEF MachineOK, ClientKnown
      <3>3. secrets' # << >>
        BY <1>1, <3>1, <3>2, DirectoryFacts DEF Directory
      <3>4. ASSUME Len(secrets) = 1
            PROVE  issued' <= Cardinality(Holders') + faults'
        <4>1. run[m].client = 1
          BY <1>1, <3>2, <3>4, DirectoryFacts
        <4>2. ~ Holds(m) /\ Holds(m)'
          BY <3>1, <4>1 DEF Holds, Saving
        <4>3. issued <= Cardinality(Holders) + faults
          BY <3>4 DEF FewSecrets
        <4>4. Cardinality(Holders) + 1 <= Cardinality(Holders')
          BY <1>8, <4>2
        <4>5. QED  BY <1>1, <1>8, <3>1, <4>3, <4>4
      <3>5. QED  BY <3>1, <3>3, <3>4 DEF FewSecrets
    <2>2. CASE issued' = issued /\ secrets' = secrets
      <3>1. ASSUME Len(secrets) = 1
            PROVE  issued' <= Cardinality(Holders') + faults'
        <4>1. issued <= Cardinality(Holders) + faults /\ issued \in Nat
          BY <1>1, <3>1 DEF FewSecrets, Directory
        <4>2. (Holds(m) => Holds(m)') \/ faults' = faults + 1
          BY <3>1 DEF Counts
        <4>3. faults' \in {faults, faults + 1}
          BY DEF Counts
        <4>4. QED  BY <1>1, <1>8, <2>2, <4>1, <4>2, <4>3
      <3>2. QED  BY <2>2, <3>1 DEF FewSecrets
    <2>3. CASE issued' = issued /\ CreateClient(m)
      <3>1. Len(secrets') = Len(secrets) + 1 /\ Len(secrets) \in Nat /\ faults' = faults
        BY <1>1, <2>3, CreateClientOK, DirectoryFacts DEF CreateClient, counters
      <3>2. secrets' # << >>
        BY <1>1, <3>1 DEF Directory
      <3>3. Len(secrets') = 1 => issued = 0
        <4>1. Len(secrets) = 0 => secrets = << >>
          BY <1>1 DEF Directory
        <4>2. QED  BY <3>1, <4>1 DEF FewSecrets
      <3>4. QED  BY <1>1, <1>8, <2>3, <3>1, <3>2, <3>3 DEF FewSecrets
    <2>4. QED  BY <2>1, <2>2, <2>3 DEF Counts
  <1>10. QED  BY <1>6, <1>9

\* Between two calls a machine keeps what it read of its azd environment.
LEMMA CallKeepsHolding ==
    ASSUME run \in [Machines -> RunValues], NEW m \in Machines,
           pc \in [Machines -> Calls \cup {"idle", "done"}],
           pc[m] \in Calls, NEW to \in Calls, pc' = [pc EXCEPT ![m] = to],
           env' = env, run'[m].known = run[m].known, pc[m] \notin Saving \/ to \in Saving
    PROVE  Holds(m) => Holds(m)'
  <1>1. pc'[m] = to  OBVIOUS
  <1>2. "idle" \notin Calls /\ "done" \notin Calls  BY DEF Calls
  <1>3. QED  BY <1>1, <1>2 DEF Holds

\* The calls before the saving.
Calling(m) ==
    /\ pc[m] \in Calls \ Saving
    /\ \E to \in Calls : pc' = [pc EXCEPT ![m] = to]
    /\ pc'[m] # "create_api" \/ FindNoApi(m)
    /\ pc'[m] # "create_client" \/ FindNoClient(m)
    /\ env' = env
    /\ run' = run \/ \E r : run' = [run EXCEPT ![m] = r] /\ r.known = run[m].known
    /\ faults' \in {faults, faults + 1}

LEMMA ApiCalls ==
    ASSUME Machinery, NEW m \in Machines,
           \/ FindApi(m) \/ FindNoApi(m) \/ CreateApi(m) \/ SetUri(m)
           \/ ShowRoles(m) \/ PatchRoles(m) \/ ReadBackRoles(m)
    PROVE  /\ Calling(m) /\ issued' = issued /\ secrets' = secrets
           /\ Len(roles') = Len(roles) \/ CreateApi(m)
  <1>1. /\ pc \in [Machines -> Calls \cup {"idle", "done"}]
        /\ run \in [Machines -> RunValues] /\ run[m] \in RunValues
    BY DEF Machinery, TypeOK
  <1>2. CASE FindApi(m)
    <2>1. PICK a : run' = [run EXCEPT ![m] = [run[m] EXCEPT !.api = a]]
      BY <1>2 DEF FindApi, Learn
    <2>2. [run[m] EXCEPT !.api = a].known = run[m].known
      BY <1>1 DEF RunValues
    <2>3. QED  BY <1>1, <1>2, <2>1, <2>2
       DEF FindApi, Go, Calling, Calls, Saving, directory, counters
  <1>3. CASE FindNoApi(m)
    BY <1>1, <1>3 DEF FindNoApi, Go, Calling, Calls, Saving, directory, counters
  <1>4. CASE CreateApi(m)
    <2>1. PICK a : run' = [run EXCEPT ![m] = [run[m] EXCEPT !.api = a]]
      BY <1>4 DEF CreateApi, Learn
    <2>2. [run[m] EXCEPT !.api = a].known = run[m].known
      BY <1>1 DEF RunValues
    <2>3. QED  BY <1>1, <1>4, <2>1, <2>2
       DEF CreateApi, Go, Calling, Calls, Saving, counters
  <1>5. CASE SetUri(m)
    BY <1>1, <1>5 DEF SetUri, Go, Calling, Calls, Saving, counters
  <1>6. CASE ShowRoles(m)
    <2>1. PICK id : run' = [run EXCEPT ![m] = [run[m] EXCEPT !.role = id]]
      BY <1>6 DEF ShowRoles, Learn
    <2>2. [run[m] EXCEPT !.role = id].known = run[m].known
      BY <1>1 DEF RunValues
    <2>3. QED  BY <1>1, <1>6, <2>1, <2>2
       DEF ShowRoles, Go, Calling, Calls, Saving, directory, counters
  <1>7. CASE PatchRoles(m)
    <2>1. Len(roles') = Len(roles)
      BY <1>7, PatchRolesOK
    <2>2. QED  BY <1>1, <1>7, <2>1 DEF PatchRoles, Go, Calling, Calls, Saving, counters
  <1>8. CASE ReadBackRoles(m)
    <2>1. PICK id : run' = [run EXCEPT ![m] = [run[m] EXCEPT !.role = id]]
      BY <1>8 DEF ReadBackRoles, Learn
    <2>2. [run[m] EXCEPT !.role = id].known = run[m].known
      BY <1>1 DEF RunValues
    <2>3. QED  BY <1>1, <1>8, <2>1, <2>2
       DEF ReadBackRoles, Go, Calling, Calls, Saving, directory, counters
  <1>9. QED  BY <1>2, <1>3, <1>4, <1>5, <1>6, <1>7, <1>8

LEMMA ClientCalls ==
    ASSUME Machinery, NEW m \in Machines,
           \/ FindClient(m) \/ FindNoClient(m) \/ CreateClient(m) \/ ApiSp(m) \/ ClientSp(m)
           \/ Assign(m, "assign_read", "assign_write", "read")
           \/ Assign(m, "assign_write", "secret", "write")
           \/ AssignSkipped(m, "assign_read", "assign_write")
           \/ AssignSkipped(m, "assign_write", "secret")
    PROVE  /\ Calling(m) /\ issued' = issued /\ roles' = roles
           /\ secrets' = secrets \/ CreateClient(m)
  <1>1. /\ pc \in [Machines -> Calls \cup {"idle", "done"}]
        /\ run \in [Machines -> RunValues] /\ run[m] \in RunValues
    BY DEF Machinery, TypeOK
  <1>2. [run[m] EXCEPT !.unnoticed = TRUE].known = run[m].known
    BY <1>1 DEF RunValues
  <1>3. CASE FindClient(m)
    <2>1. PICK c : run' = [run EXCEPT ![m] = [run[m] EXCEPT !.client = c]]
      BY <1>3 DEF FindClient, Learn
    <2>2. [run[m] EXCEPT !.client = c].known = run[m].known
      BY <1>1 DEF RunValues
    <2>3. QED  BY <1>1, <1>3, <2>1, <2>2
       DEF FindClient, Go, Calling, Calls, Saving, directory, counters
  <1>4. CASE FindNoClient(m)
    BY <1>1, <1>4 DEF FindNoClient, Go, Calling, Calls, Saving, directory, counters
  <1>5. CASE CreateClient(m)
    <2>1. PICK c : run' = [run EXCEPT ![m] = [run[m] EXCEPT !.client = c]]
      BY <1>5 DEF CreateClient, Learn
    <2>2. [run[m] EXCEPT !.client = c].known = run[m].known
      BY <1>1 DEF RunValues
    <2>3. QED  BY <1>1, <1>5, <2>1, <2>2
       DEF CreateClient, Go, Calling, Calls, Saving, counters
  <1>6. CASE ApiSp(m)
    <2>1. \/ run' = [run EXCEPT ![m] = [run[m] EXCEPT !.apiSp = TRUE]]
          \/ run' = [run EXCEPT ![m] = [run[m] EXCEPT !.unnoticed = TRUE]]
      BY <1>6 DEF ApiSp, EnsureSp, Learn
    <2>2. [run[m] EXCEPT !.apiSp = TRUE].known = run[m].known
      BY <1>1 DEF RunValues
    <2>3. \E r : run' = [run EXCEPT ![m] = r] /\ r.known = run[m].known
      BY <1>2, <2>1, <2>2
    <2>4. faults' \in {faults, faults + 1}
      BY <1>6 DEF ApiSp, EnsureSp, Overlook, counters
    <2>5. QED  BY <1>1, <1>6, <2>3, <2>4 DEF ApiSp, EnsureSp, Go, Calling, Calls, Saving
  <1>7. CASE ClientSp(m)
    <2>1. \/ run' = [run EXCEPT ![m] = [run[m] EXCEPT !.clientSp = TRUE]]
          \/ run' = [run EXCEPT ![m] = [run[m] EXCEPT !.unnoticed = TRUE]]
      BY <1>7 DEF ClientSp, EnsureSp, Learn
    <2>2. [run[m] EXCEPT !.clientSp = TRUE].known = run[m].known
      BY <1>1 DEF RunValues
    <2>3. \E r : run' = [run EXCEPT ![m] = r] /\ r.known = run[m].known
      BY <1>2, <2>1, <2>2
    <2>4. faults' \in {faults, faults + 1}
      BY <1>7 DEF ClientSp, EnsureSp, Overlook, counters
    <2>5. QED  BY <1>1, <1>7, <2>3, <2>4 DEF ClientSp, EnsureSp, Go, Calling, Calls, Saving
  <1>8. CASE \/ Assign(m, "assign_read", "assign_write", "read")
             \/ Assign(m, "assign_write", "secret", "write")
    BY <1>1, <1>8 DEF Assign, Go, Calling, Calls, Saving, counters
  <1>9. CASE \/ AssignSkipped(m, "assign_read", "assign_write")
             \/ AssignSkipped(m, "assign_write", "secret")
    <2>1. \E r : run' = [run EXCEPT ![m] = r] /\ r.known = run[m].known
      BY <1>2, <1>9 DEF AssignSkipped
    <2>2. faults' \in {faults, faults + 1}
      BY <1>9 DEF AssignSkipped, Overlook, counters
    <2>3. QED
      BY <1>1, <1>9, <2>1, <2>2 DEF AssignSkipped, Go, Calling, Calls, Saving, directory
  <1>10. QED  BY <1>3, <1>4, <1>5, <1>6, <1>7, <1>8, <1>9

LEMMA SecretCalls ==
    ASSUME Machinery, NEW m \in Machines, KeepSecret(m) \/ NewSecret(m)
    PROVE  /\ Calling(m) /\ roles' = roles
           /\ \/ issued' = issued /\ secrets' = secrets
              \/ NewSecret(m) /\ Len(secrets') = Len(secrets)
  <1>1. /\ pc \in [Machines -> Calls \cup {"idle", "done"}]
        /\ run \in [Machines -> RunValues] /\ run[m] \in RunValues
    BY DEF Machinery, TypeOK
  <1>2. PICK v : run' = [run EXCEPT ![m] = [run[m] EXCEPT !.secret = v]]
    BY DEF KeepSecret, NewSecret, Learn
  <1>3. [run[m] EXCEPT !.secret = v].known = run[m].known
    BY <1>1 DEF RunValues
  <1>4. CASE KeepSecret(m)
    BY <1>1, <1>2, <1>3, <1>4 DEF KeepSecret, Go, Calling, Calls, Saving, directory, counters
  <1>5. CASE NewSecret(m)
    BY <1>1, <1>2, <1>3, <1>5, NewSecretOK
       DEF NewSecret, Go, Calling, Calls, Saving, counters
  <1>6. QED  BY <1>4, <1>5

LEMMA CallCounts ==
    ASSUME Machinery, NEW m \in Machines, Calling(m),
           Len(roles') = Len(roles) \/ CreateApi(m),
           Len(secrets') = Len(secrets) \/ CreateClient(m),
           (issued' = issued /\ (secrets' = secrets \/ CreateClient(m))) \/ NewSecret(m)
    PROVE  Counts(m)
  <1>1. /\ pc \in [Machines -> Calls \cup {"idle", "done"}]
        /\ run \in [Machines -> RunValues]
    BY DEF Machinery, TypeOK
  <1>2. run'[m].known = run[m].known
    BY <1>1 DEF Calling
  <1>3. Holds(m) => Holds(m)'
    BY <1>1, <1>2, CallKeepsHolding DEF Calling
  <1>4. Alone(m)
    BY DEF Calling, Alone
  <1>5. CreateApi(m) => pc'[m] # "create_api"
    BY <1>1 DEF CreateApi, Go
  <1>6. CreateClient(m) => pc'[m] # "create_client"
    BY <1>1 DEF CreateClient, Go
  <1>7. QED  BY <1>3, <1>4, <1>5, <1>6 DEF Calling, Counts

-----------------------------------------------------------------------------
(* Beginning, quitting and saving.                                         *)

\* Nothing is created, and no run is in the middle of its calls afterwards.
LEMMA OtherCounts ==
    ASSUME Machinery, NEW m \in Machines, UNCHANGED directory, Alone(m),
           pc'[m] \notin {"create_api", "create_client"},
           Len(secrets) = 1 /\ Holds(m) => Holds(m)' \/ faults' = faults + 1,
           faults' \in {faults, faults + 1}
    PROVE  Counts(m)
  BY DEF Counts, directory

LEMMA BeginCounts ==
    ASSUME Machinery, NEW m \in Machines, Start(m) \/ StartBlind(m) \/ Rerun(m) \/ Stop(m)
    PROVE  Counts(m)
  <1>1. /\ pc \in [Machines -> Calls \cup {"idle", "done"}]
        /\ run \in [Machines -> RunValues]
    BY DEF Machinery, TypeOK
  <1>2. CASE Start(m) \/ Rerun(m)
    <2>1. /\ pc[m] \in {"idle", "done"} /\ pc' = [pc EXCEPT ![m] = "list_apis"]
          /\ run' = [run EXCEPT ![m] = [NoRun EXCEPT !.known = env[m]]]
          /\ env' = env /\ faults' = faults /\ UNCHANGED directory
      BY <1>2 DEF Start, Rerun, Begin, Go, counters
    <2>2. run'[m].known = env[m]
      BY <1>1, <2>1 DEF NoRun
    <2>3. Holds(m) => Holds(m)'
      BY <1>1, <2>1, <2>2 DEF Holds, Saving
    <2>4. QED  BY <1>1, <2>1, <2>3, OtherCounts DEF Alone, Calls
  <1>3. CASE StartBlind(m) \/ Stop(m)
    <2>1. /\ \E to \in {"idle", "list_apis"} : pc' = [pc EXCEPT ![m] = to]
          /\ run' = [run EXCEPT ![m] = NoRun]
          /\ env' = env /\ faults' = faults + 1 /\ UNCHANGED directory
      BY <1>3 DEF StartBlind, Stop, Quit, Go, Overlook
    <2>2. QED  BY <1>1, <2>1, OtherCounts DEF Alone, Calls
  <1>4. QED  BY <1>2, <1>3

LEMMA QuitCounts ==
    ASSUME Machinery, NEW m \in Machines, NEW from \in Calls \ Saving, Quit(m, from),
           UNCHANGED counters
    PROVE  Counts(m)
  <1>1. /\ pc \in [Machines -> Calls \cup {"idle", "done"}] /\ MachineOK(m)
        /\ run \in [Machines -> RunValues]
    BY DEF Machinery, TypeOK
  <1>2. /\ pc' = [pc EXCEPT ![m] = "idle"] /\ pc[m] = from
        /\ run' = [run EXCEPT ![m] = NoRun]
        /\ env' = env /\ faults' = faults /\ UNCHANGED directory
    BY DEF Quit, Go, counters
  <1>3. from \notin {"idle", "done"}
    BY DEF Calls
  <1>4. run[m].known \in {env[m], NoEnv} /\ NoEnv.secret = 0
    BY <1>1, <1>2 DEF MachineOK, SecretKnown, NoEnv
  <1>5. Holds(m) => Holds(m)'
    BY <1>1, <1>2, <1>3, <1>4 DEF Holds
  <1>6. QED  BY <1>1, <1>2, <1>5, OtherCounts DEF Alone, Calls

LEMMA SaveCounts ==
    ASSUME Machinery, NEW m \in Machines,
           SaveAudience(m) \/ SaveClient(m) \/ SaveSecret(m) \/ SaveRoles(m)
    PROVE  Counts(m)
  <1>1. /\ pc \in [Machines -> Calls \cup {"idle", "done"}] /\ MachineOK(m) /\ Directory
        /\ run \in [Machines -> RunValues] /\ env \in [Machines -> EnvValues]
    BY DEF Machinery, TypeOK
  <1>2. CASE SaveAudience(m) \/ SaveClient(m) \/ SaveSecret(m)
    <2>1. /\ pc'[m] \in Saving /\ \E to \in Calls : pc' = [pc EXCEPT ![m] = to]
          /\ run' = run /\ faults' = faults /\ UNCHANGED directory
      BY <1>1, <1>2 DEF SaveAudience, SaveClient, SaveSecret, SaveKey, Go, Saving, Calls,
                        counters
    <2>2. \E e : env' = [env EXCEPT ![m] = e]
      BY <1>2 DEF SaveAudience, SaveClient, SaveSecret, SaveKey, Save
    <2>3. Holds(m)'
      BY <2>1 DEF Holds
    <2>4. Alone(m)
      BY <2>1, <2>2 DEF Alone
    <2>5. QED  BY <2>1, <2>3, <2>4, OtherCounts DEF Saving
  <1>3. CASE SaveRoles(m)
    <2>1. /\ pc' = [pc EXCEPT ![m] = "done"] /\ pc[m] = "save_roles"
          /\ env' = [env EXCEPT ![m] = [env[m] EXCEPT !.role = run[m].role]]
          /\ \E r : run' = [run EXCEPT ![m] = r]
          /\ faults' = faults /\ UNCHANGED directory
      BY <1>3 DEF SaveRoles, Go, Save, counters
    <2>2. env'[m].client = env[m].client /\ env'[m].secret = env[m].secret
      BY <1>1, <2>1 DEF EnvValues
    <2>3. /\ env[m].client = run[m].client /\ env[m].secret = run[m].secret
          /\ run[m].client \in DOMAIN secrets /\ Valid(run[m].secret)
      BY <1>1, <2>1 DEF MachineOK, Saved, ClientKnown, SecretKnown, Saving
    <2>4. env[m].secret # 0
      <3>1. PICK c \in DOMAIN secrets : run[m].secret \in secrets[c]
        BY <2>3 DEF Valid
      <3>2. run[m].secret \in 1 .. issued
        BY <1>1, <3>1 DEF Directory
      <3>3. QED  BY <1>1, <2>3, <3>2 DEF Directory
    <2>5. Len(secrets) = 1 => env[m].client = 1
      BY <1>1, <2>3, DirectoryFacts
    <2>6. Len(secrets) = 1 => Holds(m)'
      BY <1>1, <2>1, <2>2, <2>4, <2>5 DEF Holds
    <2>7. QED  BY <1>1, <2>1, <2>6, OtherCounts DEF Alone
  <1>4. QED  BY <1>2, <1>3

-----------------------------------------------------------------------------

LEMMA Initially == Init => HookInv
  <1>1. SUFFICES ASSUME Init PROVE HookInv
    OBVIOUS
  <1>2. roles = << >> /\ secrets = << >> /\ issued = 0 /\ faults = 0 /\ reruns = 0
        /\ Len(roles) = 0 /\ Len(secrets) = 0
    BY <1>1 DEF Init
  <1>3. Directory
    BY <1>1, <1>2 DEF Init, Directory
  <1>4. \A m \in Machines : pc[m] = "idle" /\ env[m] = NoEnv /\ run[m] = NoRun
    BY <1>1 DEF Init
  <1>5. NoEnv \in EnvValues /\ NoRun \in RunValues
    BY <1>3, NoRunOK
  <1>6. NoEnv.secret = 0 /\ NoRun.known = NoEnv /\ ~ NoRun.apiSp /\ ~ NoRun.clientSp
    BY DEF NoEnv, NoRun
  <1>7. \A m \in Machines : MachineOK(m)
    BY <1>4, <1>5, <1>6 DEF MachineOK, ApiKnown, ClientKnown, SecretKnown, Saved, Saving
  <1>8. TypeOK
    <2>1. {faults, reruns, faults + reruns} \subseteq 0 .. MaxSetbacks
      BY <1>2, BoundsAssumption
    <2>2. /\ env \in [Machines -> EnvValues] /\ run \in [Machines -> RunValues]
          /\ pc \in [Machines -> Calls \cup {"idle", "done"}]
      BY <1>1, <1>5 DEF Init
    <2>3. QED  BY <1>3, <2>1, <2>2 DEF TypeOK, Directory
  <1>9. FewRegistrations /\ FewSecrets
    <2>1. /\ Creating("create_api") = {} /\ Creating("create_client") = {}
      BY <1>4 DEF Creating
    <2>2. /\ Cardinality(Creating("create_api")) = 0
          /\ Cardinality(Creating("create_client")) = 0
          /\ Cardinality(Machines) \in Nat
      BY <2>1, FS_EmptySet, Finite
    <2>3. FewRegistrations
      BY <1>2, <2>2 DEF FewRegistrations
    <2>4. FewSecrets
      BY <1>2 DEF FewSecrets
    <2>5. QED  BY <2>3, <2>4
  <1>10. QED  BY <1>3, <1>7, <1>8, <1>9, HookInvParts DEF Machinery

LEMMA Preserved == HookInv /\ [Next]_vars => HookInv'
  <1>1. SUFFICES ASSUME HookInv, [Next]_vars PROVE HookInv'
    OBVIOUS
  <1>2. Machinery /\ FewRegistrations /\ FewSecrets /\ Machinery'
    BY <1>1, HookInvParts, StepOK
  <1>3. ASSUME NEW m \in Machines,
               Start(m) \/ StartBlind(m) \/ Rerun(m) \/ HookStep(m) \/ Stop(m)
        PROVE  Counts(m)
    <2>1. CASE Start(m) \/ StartBlind(m) \/ Rerun(m) \/ Stop(m)
      BY <1>2, <2>1, BeginCounts
    <2>2. CASE \/ FindApi(m) \/ FindNoApi(m) \/ CreateApi(m) \/ SetUri(m)
               \/ ShowRoles(m) \/ PatchRoles(m) \/ ReadBackRoles(m)
      BY <1>2, <2>2, ApiCalls, CallCounts
    <2>3. CASE PatchRejected(m)
      BY <1>2, <2>3, QuitCounts DEF PatchRejected, Calls, Saving
    <2>4. CASE FindClient(m) \/ FindNoClient(m) \/ CreateClient(m) \/ ApiSp(m) \/ ClientSp(m)
      BY <1>2, <2>4, ClientCalls, CallCounts
    <2>5. CASE AssignRead(m) \/ AssignWrite(m)
      <3>1. CASE \/ AssignRejected(m, "assign_read") \/ AssignRejected(m, "assign_write")
        BY <1>2, <3>1, QuitCounts DEF AssignRejected, Calls, Saving
      <3>2. CASE \/ Assign(m, "assign_read", "assign_write", "read")
                 \/ Assign(m, "assign_write", "secret", "write")
                 \/ AssignSkipped(m, "assign_read", "assign_write")
                 \/ AssignSkipped(m, "assign_write", "secret")
        BY <1>2, <3>2, ClientCalls, CallCounts
      <3>3. QED  BY <2>5, <3>1, <3>2 DEF AssignRead, AssignWrite
    <2>6. CASE KeepSecret(m) \/ NewSecret(m)
      BY <1>2, <2>6, SecretCalls, CallCounts
    <2>7. CASE SaveAudience(m) \/ SaveClient(m) \/ SaveSecret(m) \/ SaveRoles(m)
      BY <1>2, <2>7, SaveCounts
    <2>8. QED  BY <1>3, <2>1, <2>2, <2>3, <2>4, <2>5, <2>6, <2>7 DEF HookStep
  <1>4. CASE \E m \in Machines : Counts(m)
    BY <1>2, <1>4, FewStay, HookInvParts
  <1>5. CASE UNCHANGED vars
    <2>1. FewRegistrations' /\ FewSecrets'
      BY <1>2, <1>5 DEF vars, directory, counters, FewRegistrations, FewSecrets, Creating,
                        Holders, Holds
    <2>2. QED  BY <1>2, <2>1, HookInvParts
  <1>6. QED  BY <1>1, <1>3, <1>4, <1>5 DEF Next

\* However runs of preprovision.sh are interrupted, repeated and interleaved,
\* its shell variables stand for what is in the directory, and what it has
\* saved is what it found or made.
THEOREM Inductive == Spec => []HookInv
  BY Initially, Preserved, PTL DEF Spec

\* The lists of registrations are consulted before one is made: there is never
\* more than one API and one client registration for each machine.
THEOREM FewAreMade == Spec => []RegistrationsAreFew
  <1>1. HookInv => RegistrationsAreFew
    <2>1. SUFFICES ASSUME HookInv PROVE RegistrationsAreFew
      OBVIOUS
    <2>2. Machinery /\ FewRegistrations
      BY <2>1, HookInvParts
    <2>3. /\ Creating("create_api") \subseteq Machines
          /\ Creating("create_client") \subseteq Machines
      BY DEF Creating
    <2>4. /\ Cardinality(Creating("create_api")) \in Nat
          /\ Cardinality(Creating("create_client")) \in Nat
          /\ Cardinality(Machines) \in Nat
      BY <2>3, Finite
    <2>5. QED
      BY <2>2, <2>4, DirectoryFacts DEF Machinery, FewRegistrations, RegistrationsAreFew
  <1>2. QED  BY <1>1, Inductive, PTL

\* A run that completes, and overlooked no failure, leaves registrations,
\* principals, roles, assignments and a secret that fit one another.
THEOREM DoneIsReady == Spec => []DoneMeansReady
  <1>1. HookInv => DoneMeansReady
    BY DEF HookInv, Saved, DoneMeansReady
  <1>2. QED  BY <1>1, Inductive, PTL

\* credential reset --append: a secret some environment holds stays valid.
THEOREM SecretsStay == Spec => []SecretsKept
  <1>1. HookInv => SecretsKept
    BY DEF HookInv, SecretKnown, Valid, SecretsKept
  <1>2. QED  BY <1>1, Inductive, PTL

\* The secret of the azd environment is used again: with one client, there are
\* no more secrets than machines and failures.
THEOREM SecretsAreFew == Spec => []SecretsDoNotPileUp
  <1>1. HookInv => SecretsDoNotPileUp
    <2>1. SUFFICES ASSUME HookInv, Len(secrets) = 1
                   PROVE  issued <= Cardinality(Machines) + faults
      BY DEF SecretsDoNotPileUp
    <2>2. Machinery /\ issued <= Cardinality(Holders) + faults
      BY <2>1, HookInvParts DEF FewSecrets
    <2>3. Holders \subseteq Machines
      BY DEF Holders
    <2>4. /\ Cardinality(Holders) \in Nat /\ Cardinality(Machines) \in Nat
          /\ Cardinality(Holders) <= Cardinality(Machines)
      BY <2>3, Finite
    <2>5. faults \in Nat /\ issued \in Nat
      BY <2>2, BoundedSetbacks DEF Machinery, Directory
    <2>6. QED  BY <2>2, <2>4, <2>5
  <1>2. QED  BY <1>1, Inductive, PTL
=============================================================================
