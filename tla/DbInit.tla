-------------------------------- MODULE DbInit --------------------------------
(***************************************************************************)
(* scripts/init-db and the Jobs that run it: every release revision starts *)
(* a Job that creates the databases and their users in Postgres, with the  *)
(* passwords of the secrets that the same revision's hooks have applied    *)
(* (HookSecrets).  Postgres is external: it refuses to create what exists  *)
(* and keeps its data over a reinstallation.                               *)
(***************************************************************************)
EXTENDS HookSecrets

CONSTANTS
    Dbs,                \* the databases of the Job, in the script's order
    PasswordOf,         \* per database: the secret with its user's password
    Ulid,               \* does the script end with create_ulid_func?
    ConnectAttempts,    \* 200 in the code
    BackoffLimit,       \* 6, Kubernetes' default
    MaxPodFaults        \* bound: killed pods and failing statements

Databases == {Dbs[n] : n \in 1 .. Len(Dbs)}
\* A Job's name contains the revision whose templates rendered it.
Jobs == 1 .. MaxRevisions

ASSUME DbInitAssumption ==
    /\ Len(Dbs) \in Nat \ {0}
    /\ PasswordOf \in [Databases -> Names]
    /\ \A d \in Databases : Kind[PasswordOf[d]] = "kept"
    /\ Ulid \in BOOLEAN
    /\ ConnectAttempts \in Nat \ {0} /\ BackoffLimit \in Nat

VARIABLES
    pg,         \* is Postgres reachable?
    role,       \* per database: its user's password, or None without a user
    db,         \* per database: "absent", "created" or "ready"
    ulid,       \* does the ulid function exist?
    current,    \* the Job of the manifest that was applied last
    pc,         \* per Job: what its pod does next
    env,        \* per Job: the passwords in its pod's environment
    attempt,    \* per Job: pods started
    tries,      \* per Job: attempts to connect
    idx,        \* per Job: position in Dbs
    podFaults

postgres == <<pg, role, db, ulid>>
pods == <<pc, env, attempt, tries, idx>>
dbVars == <<postgres, pods, current, podFaults>>
vars == <<helm, dbVars>>

Script == {"connect", "userExists", "createUser", "databaseExists",
           "createDatabase", "connectDb", "extensions", "ulid"}
Live(j) == pc[j] \in Script \cup {"starting", "backoff"}
Db(j) == Dbs[idx[j]]

Init == /\ HelmInit
        /\ pg = FALSE
        /\ role = [d \in Databases |-> None]
        /\ db = [d \in Databases |-> "absent"]
        /\ ulid = FALSE
        /\ current = 0
        /\ pc = [j \in Jobs |-> "none"]
        /\ env = [j \in Jobs |-> [d \in Databases |-> None]]
        /\ attempt = [j \in Jobs |-> 0]
        /\ tries = [j \in Jobs |-> 0]
        /\ idx = [j \in Jobs |-> 1]
        /\ podFaults = 0

-----------------------------------------------------------------------------
(* Helm and the Job controller.                                            *)

HelmStep == (Command \/ HooksStep) /\ UNCHANGED dbVars

\* Helm fails or is stopped after the hooks, before the Job.
DeployFails == ApplyResources /\ UNCHANGED dbVars

\* After the hooks, the Job of the manifest; one that still exists under its
\* name (a rollback) is left alone.
Deploy ==
    /\ ApplyResources
    /\ current' = rendered.revision
    /\ IF pc[current'] \in {"none", "deleted"}
       THEN /\ pc' = [pc EXCEPT ![current'] = "starting"]
            /\ attempt' = [attempt EXCEPT ![current'] = 1]
       ELSE UNCHANGED <<pc, attempt>>
    /\ UNCHANGED <<postgres, env, tries, idx, podFaults>>

\* Helm then deletes the Jobs that are not in the manifest; until their pods
\* are gone they run beside the new one.
HelmDeletesJob(j) ==
    /\ j # current
    /\ Live(j) \/ pc[j] \in {"done", "failed"}
    /\ pc' = [pc EXCEPT ![j] = "deleted"]
    /\ UNCHANGED <<helm, postgres, env, attempt, tries, idx, current, podFaults>>

\* helm uninstall deletes the Jobs and stops Postgres; its volume stays.
UninstallAll ==
    /\ Uninstall
    /\ pc' = [j \in Jobs |-> IF pc[j] = "none" THEN "none" ELSE "deleted"]
    /\ pg' = FALSE
    /\ UNCHANGED <<role, db, ulid, env, attempt, tries, idx, current, podFaults>>

PostgresStarts ==
    /\ ~pg /\ history # << >>
    /\ pg' = TRUE
    /\ UNCHANGED <<helm, role, db, ulid, pods, current, podFaults>>

\* The container starts once the secrets of its environment exist.
StartContainer(j) ==
    /\ pc[j] = "starting"
    /\ \A d \in Databases : stored[PasswordOf[d]] # None
    /\ env' = [env EXCEPT ![j] = [d \in Databases |-> stored[PasswordOf[d]]]]
    /\ pc' = [pc EXCEPT ![j] = "connect"]
    /\ tries' = [tries EXCEPT ![j] = 0]
    /\ idx' = [idx EXCEPT ![j] = 1]
    /\ UNCHANGED <<helm, postgres, attempt, current, podFaults>>

\* Where a pod ends with an exception (restartPolicy Never).  (Mutant: the Job
\* is not retried.)
RaisedForGood(j) == "failed"
Raised(j) == IF attempt[j] <= BackoffLimit THEN "backoff" ELSE "failed"
Raise(j) == pc' = [pc EXCEPT ![j] = Raised(j)]

\* The controller replaces it.
RestartPod(j) ==
    /\ pc[j] = "backoff"
    /\ pc' = [pc EXCEPT ![j] = "starting"]
    /\ attempt' = [attempt EXCEPT ![j] = @ + 1]
    /\ UNCHANGED <<helm, postgres, env, tries, idx, current, podFaults>>

\* The pod is killed, or a statement or connection fails (but see
\* UlidStatementFails).
Crash(j) ==
    /\ pc[j] \in Script
    /\ podFaults < MaxPodFaults
    /\ podFaults' = podFaults + 1
    /\ Raise(j)
    /\ UNCHANGED <<helm, postgres, env, attempt, tries, idx, current>>

-----------------------------------------------------------------------------
(* The script.                                                             *)

GoTo(j, l) == pc' = [pc EXCEPT ![j] = l]

\* What no step of the script changes.
Rest == <<helm, pg, env, attempt, current, podFaults>>

\* Mutant: failed attempts are not counted.
ConnectUncounted(j, from, to) ==
    /\ pc[j] = from
    /\ IF pg THEN GoTo(j, to) ELSE UNCHANGED pc
    /\ UNCHANGED <<Rest, role, db, ulid, idx, tries>>

\* get_db_connection: one attempt; after the last one it raises.
Connect(j, from, to) ==
    /\ pc[j] = from
    /\ IF pg THEN GoTo(j, to) /\ tries' = [tries EXCEPT ![j] = 0]
       ELSE /\ tries' = [tries EXCEPT ![j] = @ + 1]
            /\ IF tries'[j] < ConnectAttempts THEN UNCHANGED pc ELSE Raise(j)
    /\ UNCHANGED <<Rest, role, db, ulid, idx>>

\* CREATE EXTENSION IF NOT EXISTS and GRANT do not mind what exists, but what
\* is being written: of several pods that work on a database the first goes
\* on, each other one may raise (unique violation, "tuple concurrently
\* updated") or run after it.
Racing(j) == {i \in Jobs \ {j} : /\ pc[j] = "extensions" /\ pc[i] = "extensions"
                                 /\ Db(i) = Db(j)}
GoFirst(j, l) ==
    \E losers \in SUBSET Racing(j) :
        pc' = [i \in Jobs |-> IF i = j THEN l
                              ELSE IF i \in losers THEN Raised(i) ELSE pc[i]]

\* The script goes on with its next database, and then with the function.
NextDatabase(j) ==
    IF idx[j] < Len(Dbs)
    THEN idx' = [idx EXCEPT ![j] = @ + 1] /\ GoFirst(j, "userExists")
    ELSE GoFirst(j, IF Ulid THEN "ulid" ELSE "done") /\ UNCHANGED idx

\* user_exists.  (Mutant: an existing user is taken for an initialised
\* database.)
UserExistsSkips(j) ==
    /\ pc[j] = "userExists"
    /\ IF role[Db(j)] = None THEN GoTo(j, "createUser") /\ UNCHANGED idx
                             ELSE NextDatabase(j)
    /\ UNCHANGED <<Rest, role, db, ulid, tries>>
UserExists(j) ==
    /\ pc[j] = "userExists"
    /\ GoTo(j, IF role[Db(j)] = None THEN "createUser" ELSE "databaseExists")
    /\ UNCHANGED <<Rest, role, db, ulid, tries, idx>>

\* CREATE USER.  (Mutant: an existing user gets the password; the statement
\* is not executed.)
CreateUserOrAlter(j) ==
    /\ pc[j] = "createUser"
    /\ role' = [role EXCEPT ![Db(j)] = env[j][Db(j)]]
    /\ GoTo(j, "databaseExists")
    /\ UNCHANGED <<Rest, db, ulid, tries, idx>>
CreateUserSkipped(j) ==
    /\ pc[j] = "createUser"
    /\ GoTo(j, "databaseExists")
    /\ UNCHANGED <<Rest, role, db, ulid, tries, idx>>
CreateUser(j) ==
    /\ pc[j] = "createUser"
    /\ IF role[Db(j)] = None
       THEN role' = [role EXCEPT ![Db(j)] = env[j][Db(j)]] /\ GoTo(j, "databaseExists")
       ELSE Raise(j) /\ UNCHANGED role
    /\ UNCHANGED <<Rest, db, ulid, tries, idx>>

\* database_exists
DatabaseExists(j) ==
    /\ pc[j] = "databaseExists"
    /\ GoTo(j, IF db[Db(j)] = "absent" THEN "createDatabase" ELSE "connectDb")
    /\ UNCHANGED <<Rest, role, db, ulid, tries, idx>>

\* CREATE DATABASE ... WITH OWNER
CreateDatabase(j) ==
    /\ pc[j] = "createDatabase"
    /\ IF db[Db(j)] = "absent"
       THEN db' = [db EXCEPT ![Db(j)] = "created"] /\ GoTo(j, "connectDb")
       ELSE Raise(j) /\ UNCHANGED db
    /\ UNCHANGED <<Rest, role, ulid, tries, idx>>

\* set_extensions_and_roles; the next database follows.
SetExtensionsAndRoles(j) ==
    /\ pc[j] = "extensions"
    /\ db' = [db EXCEPT ![Db(j)] = "ready"]
    /\ NextDatabase(j)
    /\ UNCHANGED <<Rest, role, ulid, tries>>

\* create_ulid_func: CREATE OR REPLACE, run by psql.
CreateUlidFunc(j) ==
    /\ pc[j] = "ulid"
    /\ ulid' = TRUE
    /\ GoTo(j, "done")
    /\ UNCHANGED <<Rest, role, db, tries, idx>>

\* psql, which is not told to stop on errors, exits with 0 when the statement
\* fails; the script goes on.  (If it fails because another pod was faster,
\* the function is there as if it had succeeded.)
UlidStatementFails(j) ==
    /\ pc[j] = "ulid"
    /\ podFaults < MaxPodFaults
    /\ podFaults' = podFaults + 1
    /\ GoTo(j, "done")
    /\ UNCHANGED <<helm, postgres, env, attempt, tries, idx, current>>

-----------------------------------------------------------------------------
ScriptStep(j) ==
    \/ Connect(j, "connect", "userExists") \/ Connect(j, "connectDb", "extensions")
    \/ UserExists(j) \/ CreateUser(j) \/ DatabaseExists(j) \/ CreateDatabase(j)
    \/ SetExtensionsAndRoles(j) \/ CreateUlidFunc(j)

PodStep(j) == StartContainer(j) \/ RestartPod(j) \/ ScriptStep(j)

Next == \/ HelmStep \/ Deploy \/ DeployFails \/ UninstallAll \/ PostgresStarts
        \/ \E j \in Jobs : \/ PodStep(j) \/ Crash(j) \/ UlidStatementFails(j)
                           \/ HelmDeletesJob(j)

\* Helm's commands end, pods run and failed pods are replaced; Postgres need
\* not come up and nobody has to deploy.
Fairness == /\ WF_vars((HooksStep /\ UNCHANGED dbVars) \/ Deploy \/ DeployFails)
            /\ \A j \in Jobs : WF_vars(PodStep(j))

Spec == Init /\ [][Next]_vars /\ Fairness

-----------------------------------------------------------------------------
(* Properties.                                                             *)

\* Types: attempts and positions stay within their limits; a database does
\* not exist without its owner.
TypeOK ==
    /\ HelmTypeOK
    /\ \A d \in Databases : db[d] # "absent" => role[d] # None
    /\ \A j \in Jobs :
        /\ Live(j) \/ pc[j] \in {"none", "done", "failed", "deleted"}
        /\ attempt[j] \in 0 .. BackoffLimit + 1
        /\ idx[j] \in 1 .. Len(Dbs)
        /\ pc[j] \in Script => tries[j] \in 0 .. ConnectAttempts - 1
        /\ pc[j] \in Script => \A d \in Databases : env[j][d] # None

\* A Job that succeeds leaves every database with its user, extensions and
\* grants, also beside the Job of another revision and after pods that died
\* between any two of its statements.
DoneMeansReady ==
    \A j \in Jobs : pc[j] = "done" =>
        \A d \in Databases : role[d] # None /\ db[d] = "ready"

\* "The helm chart cannot update this password in Postgres once it has been
\* created for the first time" (values.yaml:24): not when Helm lost the
\* secret, and pods of two revisions carry different passwords.
PasswordWrittenOnce ==
    [][ \A d \in Databases : role[d] # None => role'[d] = role[d] ]_vars

\* No hook of Helm has been interrupted (UpgradeKeepsSecrets fails otherwise).
Uninterrupted == helmFaults = 0

\* The services can log in: the secret they mount opens the database its
\* user was created with, over upgrades with other values, rollbacks, failed
\* deployments, a new installation on the old volume, overlapping Jobs and
\* dying pods.
SecretOpensDatabase ==
    Uninterrupted =>
        \A d \in Databases :
            role[d] # None => stored[PasswordOf[d]] \in {None, role[d]}

\* Every Job ends, also when Postgres never comes up.
JobsTerminate ==
    \A j \in Jobs : Live(j) /\ Uninterrupted ~> ~Live(j) \/ ~Uninterrupted

\* With Postgres up the retries are enough for the remaining faults and for
\* the statements that fail because another Job was faster: at most one per
\* user, one per database, and for its extensions one per other Job.
Conflicts == (MaxRevisions + 1) * Len(Dbs)
JobSucceeds ==
    \A j \in Jobs :
        ( /\ Live(j) /\ pg /\ Uninterrupted
          /\ attempt[j] + (MaxPodFaults - podFaults) + Conflicts <= BackoffLimit )
            ~> pc[j] \in {"done", "deleted"} \/ ~Uninterrupted
=============================================================================
