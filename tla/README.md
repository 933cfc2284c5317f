# A verification project for the Renku platform's deployment logic

This directory holds TLA+ modules about the repository `renku`, TLC
configurations that model-check them, and TLAPS proofs. It is written for a
reader who has the repository at hand; paths are relative to its root.

The repository contains no service code. Renku's services (data service, secrets
storage, gateway, UI, Keycloak, Postgres) are built elsewhere. What this
repository decides is how an installation comes into being and changes: the Helm
chart, the hook and Job manifests, and the programs in `scripts/` that those
Jobs run. This is a distributed system of its own: Helm, the Job controller,
several pods of several revisions, the Kubernetes API, Keycloak and Postgres act
on shared state with no transactions, each of them can fail between any two
calls, and what goes wrong is usually a lost key or a locked-out service.

## 1. Inventory

| Component | State | Operations | Interacts with |
|---|---|---|---|
| platform-init (`scripts/platform-init`, `setup-job-platform-init.yaml`) | four Kubernetes secrets: RSA private key and previous key, public key, encryption key, internal signing key | install, rotate, publish, create symmetric keys | hook Job of every revision; data service and secrets storage mount what it writes |
| key rotation (`values.yaml.changelog.md`, Deployments of data service and secrets storage) | keys the pods started with, user secrets, rotation state | deploy, restart, save, re-encrypt, report | operator, platform-init, the two services |
| generated secrets (`templates/*secret*.yaml`, `_helpers.tpl`) | database, Keycloak and gateway secrets, internal CA and certificate | lookup, render, delete and create as a hook, record and re-apply a revision | Helm; all pods mount them |
| init-db (`scripts/init-db`, `setup-job-*-db*.yaml`) | databases, users, grants, one function in Postgres | create user, create database, extensions and grants | one Job per revision; passwords from the generated secrets |
| init-realm (`scripts/init-realm`, `setup-job-keycloak-realms.yaml`) | realm, roles, OIDC clients and their roles, demo user in Keycloak | probe, log in, create, compare, delete and recreate, grant | one Job per revision; admin secret |
| harbor-init (`scripts/harbor-init`) | project, robot account and its secret in Harbor | authenticate, find or create project, find or create robot, set secret | run by hand, and again after a failure |
| redirects from migrations (`scripts/generate-redirects-from-migrations`) | redirects of the data service | list, collect paths, filter, ask, create | run by hand; GitLab and Renku APIs, people who migrate and rename projects |
| load tests (`load-tests`, `helm-chart/load-tests`) | sessions and projects of test users | start, poll, delete | deployed services |
| others: service Deployments, ingress, network policies, RBAC; CA bundle script; Postgres migrations; SSH host keys; acceptance tests; documentation, images, CI | none that changes by logic of this repository | - | - |

What is hard in each of them, and what makes it correct:

- **platform-init** reads, decides and writes in separate API calls. A pod can die
  between any two and is replaced by one that reads what its predecessor left; a
  Job's name is random (`setup-job-platform-init.yaml:4`), so a Job that outlived
  Helm's timeout runs beside the next one. A failed read looks like an absent
  secret. Correct means: keys are never overwritten except by a rotation that
  keeps the old one, the previous key differs from the current one, nothing is
  published that was not stored, a Job that succeeds has done what its
  configuration says, and every Job ends.
- **key rotation** spans an operator, a Job and two services which read their keys
  at start only. Correct means: every user secret can be opened with a stored
  key, and a rotation that was deployed comes to its end.
- **generated secrets** are hooks with Helm's default policy `before-hook-creation`:
  every revision deletes and recreates them, and their random values exist nowhere
  else. Correct means: a password, once generated, survives upgrades, rollbacks
  and reinstallation, and the certificate fits its CA.
- **init-db** checks and then creates, beside Jobs of other revisions, with
  passwords a pod took from a secret that may be replaced meanwhile. Correct
  means: success leaves everything in place, the deployed password opens the
  database, retries are enough.
- **init-realm** deletes and recreates clients, one call at a time. Correct means:
  success leaves exactly the revision's clients and roles, matching clients are
  not touched although Keycloak returns them in another form than they were sent,
  privileges of two revisions do not mix, no client is lost between two Jobs that
  succeed, every Job ends.
- **harbor-init** and **redirects** are programs an administrator runs once and, when
  they fail, again, possibly two of them at once. The first ends at any failure; the
  second goes on with an empty answer and waits for a person in between. Correct
  means: a rerun repairs what a failed run left, and nothing a failed run leaves
  is wrong.

`PROJECT.json` lists the hazards, each at the line where it bites, with the
properties that cover it.

## 2. Modules

    KeyRing            abstract: what the key material may do
      ^ implemented by (refinement checked by TLC and proved)
    PlatformInit       platform-init.py and its hook Job
      ^ EXTENDS        ^ EXTENDS
    SecretsRotation    PlatformInitProofs      (theorems)
      ^ EXTENDS        ^ EXTENDS
          SecretsRotationProofs                (theorems)
    ClientConfig       OIDC clients: environment, objects sent and returned, comparison
      ^ EXTENDS        ^ EXTENDS
    RealmInit          ClientConfigProofs      (theorems)
      ^ EXTENDS        ^ EXTENDS
          RealmInitProofs                      (theorems; RealmInit: init-realm.py, its Job)
    HookSecrets        generated secrets and Helm's hooks  <- HookSecretsProofs
      ^ EXTENDS                                                   ^ EXTENDS
    DbInit             init-db and its Job, after the hooks  <- DbInitProofs
                       of the same revision
    HarborInit         harbor-init.go          <- HarborInitProofs (theorems)
    Redirects          generate-redirects      <- RedirectsProofs (theorems)

`MCxxx.tla` gives the constants of module `xxx` their values; `MCxxx_Run.cfg`
is one run; `MCAdminTools` holds HarborInit and Redirects, which share nothing: a
behaviour of it is one of the one or the other. An operator whose comment begins with "Mutant" is a plausible bug
in the definition after it; no specification uses it.

### PlatformInit

`privKey` and `prevKey` are the two entries of the private key secret, `pubKey` is
the private key whose public half is published, `encKey` and `authnKey` the two
symmetric keys. At the beginning there is nothing, or a key pair of `Installed`. Per Job, `pc` is the API call its pod makes next, `cfg` its
environment, `key` the value of `secret_service_private_key` in memory, `attempt`
the number of pods. There is one action per API call, and what the script computes
between two calls belongs to the call before it: `ReadPrivateKey` is
`set_secret_service_secrets` up to its branch, including the checks of a rotation
and of a mismatch; `PatchPrivateKey`, `CreatePrivateKey`, `ReadPublicKey`,
`PatchPublicKey`, `CreatePublicKey`, `ReadEncryptionKey`, `CreateEncryptionKey`,
`ReadAuthnKey`, `CreateAuthnKey` follow, and `Exit`: until then a pod may die with everything
done. `Raise` is any exception: the pod ends, and the Job
controller replaces it (`RestartPod`) until the backoff limit. `Crash` is a pod
that is killed or an API call that fails; a failed read that the script takes for
an absent secret is part of the read actions. An RSA key pair is one value, so
"the halves match" is `pubKey = privKey`; a generated key is named by the Job and
pod that made it, so no two are equal. The release's Jobs have random names and no
identity beyond that: `NextJob` fixes which of them comes next, which loses no
behaviour up to renaming.

### SecretsRotation

Extends PlatformInit by the operator (`Deploy`, who follows the documented
procedure), the two services with the keys they were started with, and user
secrets, each represented by the key that opens it. The services' code is external:
they are modelled from the secrets their Deployments mount and from the changelog's
description of the rotation. `Strict` strengthens the documented procedure.

### ClientConfig and RealmInit

ClientConfig holds pure operators. `FromEnv`, `GitlabFromEnv` and `AlertmanagerFromEnv` are
the clients an environment describes, `Valid` the checks of `__post_init__`, `ToDict`
(with `GetKeycloakPayload` and `ProtocolMappers`) the object that is sent, key by key.
`Stored` and `Listed` are what Keycloak (external) makes of it: defaults for what is
missing, booleans in attributes and mappers quoted, ids in the mappers, lists in another
order, the secret apart. `Existing` is what the script undoes of that, and
`CheckExisting` its comparison. `SameClient` is what the comparison is to find out, and
`Comparable` the values of which it can: the flow keys are sent, no attribute is a string
that reads as a boolean, and exactly the public clients have no secret. Keycloak's own additional attributes are left out: the
comparison reads the whole of `attributes`, so with any of them every run would
recreate the client. `base_url` has no trailing slash.

RealmInit keeps Keycloak's `phase`, the steps of the realm in place, per client the
object Keycloak has, its id and roles, and the demo user. One action per call that
changes Keycloak or that depends on what another caller may have changed: a client is
listed (`ListClients`), its secret (`GetSecret`), roles (`ReadRoles`) and realm roles
(`ReadRealmRoles`) are read, and after its creation its service account is looked up
(`GetServiceAccount`), each by the id that was listed or returned, which another Job may
have deleted in between. Each Keycloak call answers by the state (409 for what exists, 404
for an id that is gone). `DefaultRealmRoles` are the realm roles Keycloak gives to every new
user, hence to every new service account. What the script asks for (`Matches`: exactly the
wanted roles) and what a client just created has (`AsCreated`: those and the default ones)
are therefore two things, which is why a client with
credentials that does not name the default roles is recreated every time (section 4).
The instances configure the clients as `setup-job-keycloak-realms.yaml` does: the CLI's
public client with the device flow, the notebooks' with lists an operator extends, the
data service with roles in realm-management, GitLab and Alertmanager as optional ones
(the chart switches GitLab off; the script still supports it).

### HookSecrets

`Render` is the template: a configured value where the template takes it (`FromValues`),
else the deployed value if it is kept (`Keeps`), else a random one. A secret is of one of
three kinds. "kept": the deployed value comes first, and a configured one counts only
without it (databases, Keycloak, the CA). "signed": the certificate, which is kept only together with
its CA. "configured": the configured value comes first and the deployed one is looked up
only without it (client secrets and key in `gateway/secret.yaml:3-37`,
`alertmanager-webhook-secret.yaml:4-14`). `Upgrade` and `Rollback` render or re-apply a
manifest, `DeleteOld` and `CreateNew` apply one hook after another, `HelmFails`
stops in between and undoes nothing, `Uninstall` leaves hook resources. A random
value is the number of the revision that generated it. A name stands for one key of a
Secret: the gateway's Secret has keys of two kinds, so its keys are names of their own,
which Helm applies one after the other instead of at once.

### DbInit

After the hooks, `Deploy` creates the Job of the manifest. Its pod takes the
passwords at its start (`env`) and goes through the statements of the script:
`Connect`, `UserExists`, `CreateUser`, `DatabaseExists`, `CreateDatabase`, `Connect`,
`SetExtensionsAndRoles` per database, then `CreateUlidFunc`. Postgres refuses to
create what exists and keeps its volume over `helm uninstall`. The extensions and grants are
written "if not exists", but two transactions that write the same catalog rows at once
make one of them fail: of the pods at that point (`Racing`) the first goes on and each other
one may raise (`GoFirst`). `CREATE OR REPLACE FUNCTION` may fail too; that is
`UlidStatementFails`, because psql, which runs it, then ends with 0.

### HarborInit

`projects` are the projects the search finds (the one asked for, one of a similar
name), `robot` the account of the full name, with its secret, whether its permissions
name the project and whether it is on the first page. One action per request;
`Fail` is a request that fails, `Answered` one that is carried out although the program
does not live to see the answer. The unread id of a robot whose answer cannot be
parsed is 0. An unreadable project list ends the program with exit code 0
(`pc = "returned"`).

### Redirects

`path` and `had` are GitLab's, `migrated` and `redirects` Renku's. Per invocation, `listed`,
`found` and `new` are the lists of the three passes, `at` the pass; `asked` and `clean` are
history. One action per request, each answered or failed; a failed read of a path is
the empty path, a failed lookup "no redirect", and what fails may have been carried
out. `Prompt` is the question; `Migrate` and `Rename` go on all the time.

## 3. Runs

| Run | Instance | Shows |
|---|---|---|
| `platform_overlap` | 2 overlapping Jobs on an empty namespace or on an installed key, 10 configurations, 6 retries (the real number), 1 fault | types; `PrevDiffers`, `PublishedAfterStored`, `StoredKeysUsable`, `SymmetricKeysWrittenOnce` under every interleaving, two rotations of one key among them; every Job ends; the key a sound rotation starts from does not stay (`RotationApplied`); a Job without configured key succeeds or meets the stored empty key |
| `platform_serial` | 3 Jobs in sequence, 10 configurations, 1 retry, 2 faults | refinement of `KeyRing`; `SuccessMeansConfiguredKey`; `PairMatchesAtRest` before the first fault |
| `rotation_strict` | 4 revisions: install and up to two rotations, 1 user secret, 1 fault | no secret is lost when a rotation begins after the data service was restarted; once both services run with the new keys, whoever restarted them, it ends although secrets are saved meanwhile |
| `realm_serial` | 2 revisions, 6 sets of values (3 refused), 5 clients, 2 retries, 1 fault | success leaves clients as freshly created (`AsCreated`) and open to the asked flow only; matching clients untouched; Jobs end and, with valid values and Keycloak up, succeed |
| `realm_overlap` | 2 overlapping Jobs, 3 sets of values, 3 clients, 1 fault | no client has roles of another revision than its data; Jobs that succeed leave no client missing |
| `db_jobs` | 3 secrets, 3 revisions, 2 databases, 1 retry, 1 interrupted hook, 1 dying pod | success means ready; the secret opens the database; passwords are written once; CA and certificate fit |
| `db_live` | 2 revisions, 1 database (as in each of the chart's Jobs), 6 retries, 1 dying pod | Jobs end, and succeed with Postgres up, although they may lose every race with each other |
| `admin_tools` | harbor-init: 2 invocations, 2 secrets, 2 failures, every initial Harbor; redirects: 2 invocations, 2 projects, 3 paths, 2 renamings, 1 failure | the robot has a given secret; a rerun succeeds; redirects are sound; a run without failures covers all it was told of |
| `platform_lost_public_key` | 2 Jobs, 1 fault | finding 1 |
| `rotation_no_restart` | 2 revisions, no fault | finding 2 |
| `realm_demo_user` | 2 Jobs, 1 fault | finding 3 |
| `secrets_interrupted` | a database secret and the gateway's, 3 revisions, 1 interrupted hook | finding 4 |

**Bounds.** `MaxFaults`, `MaxPodFaults`: the hazards are a failure at one place
followed by a retry that works; two faults reach a second failure during the
recovery of the first. `Jobs`, `MaxRevisions`: two are needed for a race, three for
an install, a rotation (or rollback) and its aftermath, four for a second rotation
after a finished one. Two overlapping
platform-init Jobs rotate at the same time only if there is a key already: from an empty
namespace one of them has to install. Hence `Installed`: an earlier revision's Job may have
published its key and ended with its retries spent (the third Job of such a history).
Then both Jobs can rotate that key, in the same or different directions, or one can rotate it to
the empty string beside one that has no key configured. `MaxRenames`: two let one project give up a path and another
take it. The retry loops of init-realm (60 probes, 31 attempts) and init-db (200
attempts) are bounded by 2 (by 1 where two Jobs overlap) because the body is the same in every
round; TypeOK covers their off-by-one. `BackoffLimit` is 6 (Kubernetes' default)
where liveness depends on it, 2 instead of 12 for the realm: the property
relates the remaining faults to the remaining retries, not to the number. In `db_live` the six
retries must cover, beside the fault, the `Conflicts` with other Jobs: one at the user, one at the
database, and one per other revision at the extensions; with two revisions and one
database that is three.
The realm runs give Keycloak a default role no client asks for. A client with credentials then never
`Matches`, so `MatchingClientUntouched` is about the clients without, and
`SuccessMeansReconciled` about both.
The configurations contain what an operator may deploy: nothing, a key, a rotation
in both directions, empty strings, a string that is no key, a rotation without a
key or to the same key.

**Fairness.** Weak fairness per Job for its pod's steps and restarts: Kubernetes
schedules pods and replaces failed ones, and no step waits for another Job. For
DbInit also for a Helm command underway; not for new commands, nor for Postgres or
Keycloak coming up, which is why the properties state it as a premise. In
SecretsRotation, pods start once their secrets exist and the re-encryption goes
on; later restarts are possible at any time and never fair, because nothing in the
chart causes them. `RotationFinishes` therefore begins where both services run with the new
keys. A started harbor-init goes on to its end; the steps of the redirect
program, which waits for a person, are not fair. Faults, saves and deployments are never fair.

**Deadlock.** Jobs and releases are finite: when all Jobs have ended and the bound
on revisions is reached, nothing is left to do. All cfgs therefore say
`CHECK_DEADLOCK FALSE`; that nothing stops earlier is what `JobsTerminate` says.

## 4. Findings

1. `platform_lost_public_key`. The public key is written only on the branches that
   write the private key (`platform-init.py:208`). A pod that fails between the
   writes is replaced by one that finds the private key, takes no branch, and the
   Job succeeds without a matching public key.
2. `rotation_no_restart`. The checksum that should restart secrets storage is
   rendered only inside `with .Values.secretsStorage.podAnnotations`
   (`secrets-storage/deployment.yaml:25`), which is
   empty by default. A revision that changes only keys starts no rotation. Nor is the
   data service restarted when the public key changes (its only checksum, at
   `data-service/deployment.yaml:28`, is of the session environment), so after the rotation is
   reported as finished it may save a secret under the old key, and the next rotation
   drops that key: with `Strict = FALSE`, the procedure as documented, `NoSecretLost`
   is violated.
3. `realm_demo_user`. The demo user and its password are two calls; a retry finds the
   user and sets no password.
4. `secrets_interrupted`. A hook secret is deleted before it is recreated; if Helm
   fails in between, in any revision after the first, the secret that existed is gone, and the
   next upgrade generates another password than the
   database has, although `values.yaml:157` says it is not re-generated. The property is
   about what upgrades render. A rollback renders nothing: one to a revision that recorded
   another value (the first, if its hook failed and the second generated a new one) brings
   that value back, which the model allows and the property exempts.
The models also contain behaviour that no run states as a property, because it
would only fail:

- The realm roles of a service account must equal the wanted ones (`init-realm.py:144`), but
  Keycloak gives every new one the realm's default role and the script takes none away. A
  client with client credentials that does not name it, as the chart's do not, is
  "modified" for ever: with `--force` every Job deletes and recreates it.
- `psql -f` without `ON_ERROR_STOP` ends with 0 when a statement fails (`utils.py:44`): the
  Job logs "Created the ulid generation function" (`:48`) and succeeds without it
  (`UlidStatementFails`).
- A configured string that is no RSA key is stored before it is parsed
  (`platform-init.py:177`); its first pod fails, the retry finds it in place and
  succeeds (`values.yaml:13` asks for a PEM key). `KeysParse` exempts it.
- An empty `secretServicePrivateKey` installs a generated key, and every later
  revision fails with a mismatch (`platform-init.py:212`;
  `values.yaml.changelog.md:253` says it may be left empty).
- A stored private key that is the empty string (a rotation can put it there) is falsy at
  `platform-init.py:208`: every pod of a later Job without a rotation tries to create
  the secret, is refused with 409, and the Job fails. `UnconfiguredJobSucceeds` says so
  explicitly (`privKey = Empty`), and `platform_overlap` reaches it:
  without that disjunct TLC finds the violation.
- Redeploying the values of a finished rotation fails the hook
  (`platform-init.py:126`; `values.yaml.changelog.md:230-231`).
- The realm Job of a superseded revision may delete a client that the newest one
  has found in place, and be removed before it recreates it (`init-realm.py:156`).
- A certificate that is lost without its CA is signed by a CA that is not stored
  (`secret-renku-internal-tls.yaml:15-19`); `db_jobs` loses only the CA.
- A GitLab call that fails yields a redirect from `/projects/` itself, which no later
  run removes (`generate-redirect-utils.go:94`); `RedirectsSound` only ties it to a
  failure. A redirect that exists is taken for the one wanted, also when it leads to
  another project that had the path before (`:184`): `CleanRunCoversMigrations`
  exempts that.
- harbor-init takes any project the search finds for its own (`harbor-init.go:148`) and
  reads the first page of robots only (`:187`); in both cases no rerun succeeds, which
  `RerunSucceeds` exempts. It ends with exit code 0 when the project list cannot be
  read (`:152`).
- A pod whose secret is lost waits for it (`StartContainer`), which is why the
  liveness of DbInit is stated for uninterrupted hooks.

## 5. Proofs

`PlatformInitProofs` proves, for every set of Jobs, configurations and keys, every
backoff limit and number of faults:

| Theorem | Statement |
|---|---|
| `TypeCorrect` | `Spec => []TypeOK` |
| `PrevAlwaysDiffers` | `Spec => []PrevDiffers` |
| `PublishedAlwaysStored` | `Spec => []PublishedAfterStored` |
| `StoredAlwaysUsable` | `Spec => []StoredKeysUsable` |
| `WrittenOnce` | `Spec => SymmetricKeysWrittenOnce` |
| `Refinement` | `~Overlap` implies `Spec => ImplementsKeyRing` |
| `SuccessConfigured` | `~Overlap` implies `Spec => SuccessMeansConfiguredKey` |
| `PairMatches` | `~Overlap` implies `Spec => []PairMatchesAtRest` |

They assume `ConstantsAssumption` of PlatformInit: the kinds of strings are
disjoint and configurations are well-typed; TLC evaluates it in every run of the
module. The argument: none of the properties is inductive, because what a call
may write depends on what its pod checked at an earlier call. `PodsInv` states what
a pod knows at each call (a pod about to patch holds its configured key, which
differs from the configured previous one; a pod that publishes holds a key that
was stored), `StoreInv` relates the secrets to the history of stored keys.
`SourceInv` says where the string a pod holds comes from (its values or
`KeyToInstall`). `Inv == TypeOK /\ PodsInv /\ StoreInv` is inductive and needs no assumption on
overlap: a patch of a stale pod still writes a previous key that differs from the
new one, since both come from its own configuration. The last three theorems do need
Jobs in sequence: `SerialInv` adds that at most one Job is live and that
what its pod read is still there when it writes. With overlap, two rotations
from the same key may record a previous key that has already been replaced, so the
refinement is false there.

`HarborInitProofs` proves `GivenSecretStays`: `Spec => []RobotHasGivenSecret`, for every
set of invocations and secrets and every number of failures, from `NoneAssumption`
(None is neither a secret nor a robot). It adds to the property that an invocation
that makes requests has read its flags, and that a robot is only created while there
is none.

`RedirectsProofs` proves `RedirectsStaySound`: `Spec => []RedirectsSound`, for every set
of invocations, projects and paths and every number of renamings and failures,
assuming that no path is empty and that projects can have different paths. The
invariant carries the property through the lists: every description in `found` or `new`
names a path its project has had, or is empty and its invocation marked. What a
project has had only grows and a mark stays (`Growing`), so the wait for a person and
the steps of others make no description wrong (`StaysSound`).

`CleanRunCovers` is `Spec => []CleanRunCoversMigrations` under the same assumptions. `CoverInv` says
where a project is that a clean invocation was told of: in one of its three lists, or
led to from one of its paths. A redirect is never taken back (`CoveredStays`), so each
pass only has to hand on what it takes from its list (`KeptPending`).

`SecretsRotationProofs` proves `SecretsNeverLost`: `RotationSpec => []NoSecretLost`, given
`~Overlap` and `Strict`, for any user secrets, keys, retries and faults. An operator may
configure an old key again, so nothing can be told from a key alone; the invariant
follows the running pods instead. Every secret and service uses one of the two stored
keys (`KeysInUse`), what is reported as finished is finished (`Reported`), and when a Job
is about to rotate the key away everything is under the current one (`Ready`).
`RotationRefinement` carries the refinement over to the composition: `RotationSpec =>
ImplementsKeyRing`, given `~Overlap` alone, because the steps of operator and services
leave the variables of PlatformInit as they are.

`ClientConfigProofs` proves `ComparisonIsExact`: for all values v and w of a client that are
`Comparable` and of the same kind, what Keycloak returns for w, with the script's repairs,
differs from what is sent for v if and only if Keycloak would make another client of v.
It follows the keys of the object: which are sent and kept (`KeptForm`), that the repairs undo
the quoting (of a `Plain` object) and the ids of the mappers, that reversing a list keeps its
bag. Nothing is assumed of the values beyond `Comparable`; the hypotheses are needed, as
the hazards at `utils.py:55` and `init-realm.py:112` show. `KeptFlows` is the lemma that the stored
client has exactly the flow it is configured with.

`RealmInitProofs` proves three theorems for any Jobs that overlap, clients, roles, retries and
faults, from the assumptions of RealmInit:

- `NoMixedPrivilegesHolds`. A pod grants roles to the id it has seen, so the invariant
  says that this id is either the client the pod created or no client's any more
  (`Granted`), and that no two granting pods hold the same id (`DistinctIds`).
- `TypeCorrect`, with the bounds of the retry loops (`RealmBounds`).
- `ClientsSurvive`: when the current revision's Job and all others have ended well, no
  client is missing. A pod that is past a client (`Served`) may lose it again to
  another Job; the invariant (`PutBack`) says that then some Job still has to serve it
  (`Owes`). `EntryAssumption` says that None is no client of Keycloak.

Three more are for Jobs in sequence (`~Overlap`), where what a pod has read is still so when it
acts on it:

- `MatchingUntouched`: `Spec => MatchingClientUntouched`, if the values of every client are
  comparable (`ComparableValues`). The invariant (`Judged`) says what a pod knows of the client
  it works on: before it looks at the roles, whether the data differ, by `ComparisonIsExact`;
  before it deletes, that the client does not match; before it creates, that it is gone.
- `SuccessReconciles`: `Spec => SuccessMeansReconciled`, with `--force` (without it the script
  only warns), `ComparableValues`, and `AvailableRoles`: the roles a service account is to
  have exist in Keycloak, as the chart's do. The roles Keycloak gives by itself may be any:
  the claim is that a client is as it would be just created, so with them. The
  invariant (`Achieved`) says that every client the pod is past is as wanted (`Settled`),
  and that the one it grants roles to is as it created it (`Fresh`); for a client that
  was left alone it follows from the comparison, which then has found the default roles among
  the wanted ones. That a pod only touches the client it works on (`OnlyItsClient`) takes that no
  client is listed twice (`ConstantsAssumption`).
- `DemoUserReady`: `Spec => DemoUserHasPassword` if no pod is killed (`MaxFaults = 0`). It
  confines finding 3, where one killed pod violates the property: failed attempts alone,
  over any number of revisions, do not.

`MCRealmInit` assumes `ComparableValues` and `AvailableRoles`, so TLC evaluates them for the
values of the runs; `Judged` and `Achieved` were invariants of `realm_serial` before they were
proved.

`HookSecretsProofs` proves `UninterruptedUpgradesKeep`: while no hook was interrupted, every
upgrade renders the first value of every secret that is not of the kind "configured" (the
property of finding 4), over any upgrades, rollbacks and reinstallations, for every order of
hooks and all values. All manifests then hold the same such secrets (`Same`), because an
upgrade renders what it finds and all of it is there (`Complete`).

`DbInitProofs` builds on it, and proves `SecretsOpenDatabases`, `DoneIsReady`,
`PasswordIsWrittenOnce` and `TypeCorrect` for all databases, secrets, revisions, retries and
faults, assuming that database passwords are secrets of the kind "kept"
(`DbInitAssumption`), as in their templates. What a pod relies on (`PodOK`) speaks only of facts no other pod can undo: a
user keeps its password and a ready database stays ready (`Grow`). So each action
re-establishes it for its own pod only, and overlapping Jobs need no case of their own.
`CertificateIsSigned` is `Spec => []CertificateSignedByCA` under `SafeInterruptions` (HookSecrets): no
value configures the CA or the certificate, and Helm stops before it touches the two, after
it has replaced both, or when it has just deleted the CA. The templates give the first;
the second is the limit of what they promise, because a certificate that is lost alone is
signed by a CA that is not stored (section 4). The invariant (`PairInv`) says that a CA has its
certificates with it (`Matched`) in every recorded manifest and, wherever Helm may stop, in
the cluster.

**Only model-checked:** liveness (`JobsTerminate`, `UnconfiguredJobSucceeds`, `RotationApplied`,
`RotationFinishes`, `JobSucceeds`, `RerunSucceeds`), because the prover does not handle
fairness and ENABLED. Every other property of a passing run is a theorem.

## 6. Not modelled

- The load tests: generators of requests against deployed services whose code is
  elsewhere; what they poll and retry keeps no state of the system.
- `ScanCredentials` and the flags of the two administrators' programs beyond their being
  given.
- The services' own code, Keycloak, Postgres, Kubernetes and Helm: external; modelled
  by how this repository uses them. Kubernetes' back-off delays and Helm's timeout
  are nondeterminism.
- The migration of Keycloak's secret keys to their newer names. The redis password, a
  secret of the kind "configured" that no run names.
- A realm whose default roles change while it runs: `DefaultRealmRoles` is a constant, any set.
- `gitlab_db_init.py`: no template runs it (line 86 joins two URIs by a missing
  comma). `generate-ssh-host-keys.py` prints keys once (it ignores its `--filename`,
  line 39). `psql` scripts of the Postgres migration, static manifests,
  CI, documentation: no state that this repository's logic changes.

## 7. Plan

Done: every module of the table above, its runs, and the proofs of section 5.

What would come next, in this order:

- One abstract specification of a release (hooks, platform-init, then the Jobs) that
  PlatformInit, HookSecrets and DbInit implement together.
- An abstract specification of reconciliation (a realm that matches the newest successful
  revision) that RealmInit implements with Jobs in sequence, from `Judged` and `Achieved`.
- The load tests' start and poll loops, if their session model is wanted here.
