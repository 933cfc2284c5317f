------------------------------ MODULE RealmInit ------------------------------
(***************************************************************************)
(* scripts/init-realm/init-realm.py (with utils.py) and the Job that runs  *)
(* it: every release revision renders a Job that reconciles the Keycloak   *)
(* realm, its roles, the OIDC clients and the demo user with the values of *)
(* that revision.  One action per call that changes Keycloak or depends on *)
(* what another caller may have changed.  Keycloak itself is external: it  *)
(* refuses what exists already (409) and what is gone (404).               *)
(***************************************************************************)
EXTENDS Integers, Sequences, ClientConfig

CONSTANTS
    Jobs,               \* the Jobs of the release's revisions
    Deployments,        \* the values of a revision, by a name for them
    ClientOrder,        \* the clients in the order of OIDCClientsConfig.to_list,
                        \* then the optional ones
    CoreClients,        \* those of OIDCClientsConfig
    ManagementRoles,    \* roles of the realm-management client
    DefaultRealmRoles,  \* realm roles Keycloak gives to every new user
    ForceClients,       \* --force
    TlsRetries,         \* 60 in the code
    TokenAttempts,      \* 31 in the code
    BackoffLimit,       \* 12 in the Job
    Overlap,            \* may a Job start while another one is unfinished?
    MaxFaults           \* bound: killed pods and failing calls

\* The realm, its two event settings and the two realm roles, in order; each
\* step leaves alone what exists.
RealmSteps == <<"realm", "userEvents", "adminEvents",
                "renku-admin", "alertmanager-webhook">>
RealmRoles == {"renku-admin", "alertmanager-webhook"}

Clients == {ClientOrder[n] : n \in 1 .. Len(ClientOrder)}
DemoUser == {"no", "yes", "noPassword"}

ASSUME ConstantsAssumption ==
    /\ Len(ClientOrder) \in Nat \ {0}
    /\ \A m, n \in 1 .. Len(ClientOrder) : ClientOrder[m] = ClientOrder[n] => m = n
    /\ CoreClients \subseteq Clients
    /\ None \notin DOMAIN Deployments
    /\ ForceClients \in BOOLEAN /\ Overlap \in BOOLEAN
    /\ TlsRetries \in Nat \ {0} /\ TokenAttempts \in Nat \ {0}
    /\ BackoffLimit \in Nat /\ MaxFaults \in Nat
    /\ \A d \in DOMAIN Deployments :
            /\ DOMAIN Deployments[d].clients = Clients
            /\ Deployments[d].demo \in DemoUser

VARIABLES
    phase,      \* of Keycloak: "down", "starting" (answers 503), "ready"
    realm,      \* the steps of RealmSteps that are in place
    kc,         \* per client: None, or what is stored of it, its id and
                \* the roles granted to its service account
    user,       \* the demo user: "absent", "created" (no password), "ready"
    nextId,     \* the id Keycloak gives to the next client
    pc,         \* per Job: what its pod does next
    cfg,        \* per Job: the name of the values in its environment
    attempt,    \* per Job: pods started
    tries,      \* per Job: probes of the loop it is in
    idx,        \* per Job: position in RealmSteps or ClientOrder
    seen,       \* per Job: the id of the client it works on
    changed,    \* per Job: that client's data, or the roles read, differ
    latest,     \* the Job of the newest revision
    faults      \* failures injected so far

keycloak == <<phase, realm, kc, user, nextId>>
pods == <<pc, cfg, attempt, tries, idx, seen, changed>>
vars == <<keycloak, pods, latest, faults>>

Script == {"tls", "token", "realm", "list", "secret", "roles", "realmRoles",
           "delete", "create", "account", "assign", "assignRealm", "users",
           "createUser", "setPassword"}
Live(j) == pc[j] \in Script \cup {"backoff"}
Finished(j) == pc[j] \in {"done", "failed", "deleted"}

\* The client a pod works on, and what its values want of it.
Client(j) == ClientOrder[idx[j]]
Wanted(j) == Deployments[cfg[j]].clients[Client(j)]

\* What a revision's Job sends for a client, and what Keycloak makes of it.
Sent == [d \in DOMAIN Deployments |->
            [c \in Clients |->
                IF Deployments[d].clients[c] = None THEN None
                ELSE ToDict(Deployments[d].clients[c])]]
Kept == [d \in DOMAIN Deployments |->
            [c \in Clients |->
                IF Deployments[d].clients[c] = None THEN None
                ELSE Stored(Sent[d][c])]]
Credentials(w) == w.oauth_flow = "client_credentials"

\* What Keycloak has of a client.
AllRoles == ManagementRoles \cup DefaultRealmRoles \cup RealmRoles
Entries == [stored : {Kept[d][c] : d \in DOMAIN Deployments, c \in Clients},
            id : Int, roles : SUBSET AllRoles, realmRoles : SUBSET AllRoles]

ASSUME EntryAssumption == None \notin Entries

Init == /\ phase \in {"down", "starting", "ready"}
        /\ realm = {}
        /\ kc = [c \in Clients |-> None]
        /\ user = "absent"
        /\ nextId = 1
        /\ pc = [j \in Jobs |-> "new"]
        /\ cfg = [j \in Jobs |-> None]
        /\ attempt = [j \in Jobs |-> 0]
        /\ tries = [j \in Jobs |-> 0]
        /\ idx = [j \in Jobs |-> 1]
        /\ seen = [j \in Jobs |-> 0]
        /\ changed = [j \in Jobs |-> FALSE]
        /\ latest = None
        /\ faults = 0

-----------------------------------------------------------------------------
(* Helm, the Job controller and Keycloak's availability.                   *)

KeycloakStarts ==
    /\ phase # "ready"
    /\ phase' = IF phase = "down" THEN "starting" ELSE "ready"
    /\ UNCHANGED <<realm, kc, user, nextId, pods, latest, faults>>

\* The Jobs are interchangeable: the next revision takes any new one.
NextJob == CHOOSE j \in Jobs : pc[j] = "new"

StartJob(j, d) ==
    /\ pc[j] = "new" /\ j = NextJob
    /\ Overlap \/ \A i \in Jobs : ~Live(i)
    /\ pc' = [pc EXCEPT ![j] = "tls"]
    /\ attempt' = [attempt EXCEPT ![j] = 1]
    /\ tries' = [tries EXCEPT ![j] = 1]
    /\ cfg' = [cfg EXCEPT ![j] = d]
    /\ latest' = j
    /\ UNCHANGED <<keycloak, idx, seen, changed, faults>>

\* Helm removes the Job of a superseded revision, and with it its pod.
HelmDeletesJob(j) ==
    /\ Live(j)
    /\ j # latest
    /\ pc' = [pc EXCEPT ![j] = "deleted"]
    /\ UNCHANGED <<keycloak, cfg, attempt, tries, idx, seen, changed, latest,
                   faults>>

\* Mutant: the Job is not retried.
RaiseForGood(j) == pc' = [pc EXCEPT ![j] = "failed"]

\* The pod ends with an exception or exit(1).
Raise(j) == pc' = [pc EXCEPT ![j] = IF attempt[j] <= BackoffLimit
                                    THEN "backoff" ELSE "failed"]

\* Mutant: the next pod goes on after the client the last one worked on.
RestartPodResumes(j) ==
    /\ pc[j] = "backoff"
    /\ pc' = [pc EXCEPT ![j] = IF idx[j] < Len(ClientOrder)
                               THEN "list" ELSE "users"]
    /\ idx' = [idx EXCEPT ![j] = IF @ < Len(ClientOrder) THEN @ + 1 ELSE @]
    /\ attempt' = [attempt EXCEPT ![j] = @ + 1]
    /\ UNCHANGED <<keycloak, cfg, tries, seen, changed, latest, faults>>

RestartPod(j) ==
    /\ pc[j] = "backoff"
    /\ pc' = [pc EXCEPT ![j] = "tls"]
    /\ attempt' = [attempt EXCEPT ![j] = @ + 1]
    /\ tries' = [tries EXCEPT ![j] = 1]
    /\ UNCHANGED <<keycloak, cfg, idx, seen, changed, latest, faults>>

Crash(j) == /\ pc[j] \in Script
            /\ faults < MaxFaults
            /\ faults' = faults + 1
            /\ Raise(j)
            /\ UNCHANGED <<keycloak, cfg, attempt, tries, idx, seen, changed,
                           latest>>

-----------------------------------------------------------------------------
(* The script.                                                             *)

GoTo(j, l) == pc' = [pc EXCEPT ![j] = l]

\* Mutant: one probe too many.
WaitForTlsOffByOne(j) ==
    /\ pc[j] = "tls"
    /\ \/ /\ phase # "down"
          /\ GoTo(j, "token")
          /\ tries' = [tries EXCEPT ![j] = 0]
       \/ /\ phase = "down" /\ tries[j] > TlsRetries
          /\ Raise(j)
          /\ UNCHANGED tries
       \/ /\ phase = "down" /\ tries[j] <= TlsRetries
          /\ tries' = [tries EXCEPT ![j] = @ + 1]
          /\ UNCHANGED pc
    /\ UNCHANGED <<keycloak, cfg, attempt, idx, seen, changed, latest, faults>>

\* _wait_for_tls: one probe.
WaitForTls(j) ==
    /\ pc[j] = "tls"
    /\ \/ /\ phase # "down"
          /\ GoTo(j, "token")
          /\ tries' = [tries EXCEPT ![j] = 0]
       \/ /\ phase = "down" /\ tries[j] >= TlsRetries
          /\ Raise(j)
          /\ UNCHANGED tries
       \/ /\ phase = "down" /\ tries[j] < TlsRetries
          /\ tries' = [tries EXCEPT ![j] = @ + 1]
          /\ UNCHANGED pc
    /\ UNCHANGED <<keycloak, cfg, attempt, idx, seen, changed, latest, faults>>

\* Mutant: failed attempts are not counted.
GetTokenUncounted(j) ==
    /\ pc[j] = "token"
    /\ IF phase = "ready"
       THEN GoTo(j, "realm") /\ idx' = [idx EXCEPT ![j] = 1]
       ELSE UNCHANGED <<pc, idx>>
    /\ UNCHANGED <<keycloak, cfg, attempt, tries, seen, changed, latest,
                   faults>>

\* The token loop: one attempt; exit(1) after the last one.
GetToken(j) ==
    /\ pc[j] = "token"
    /\ \/ /\ phase = "ready"
          /\ GoTo(j, "realm")
          /\ idx' = [idx EXCEPT ![j] = 1]
          /\ UNCHANGED tries
       \/ /\ phase # "ready"
          /\ tries' = [tries EXCEPT ![j] = @ + 1]
          /\ IF tries'[j] < TokenAttempts THEN UNCHANGED pc ELSE Raise(j)
          /\ UNCHANGED idx
    /\ UNCHANGED <<keycloak, cfg, attempt, seen, changed, latest, faults>>

\* OIDCClientsConfig.from_env validates the six core clients at once; the
\* optional ones are validated when their turn comes.
CoreClientsValid(j) ==
    \A c \in CoreClients : Valid(Deployments[cfg[j]].clients[c])

\* create_realm, update_realm, create_realm_role: each leaves alone what is
\* there.
ConfigureRealm(j) ==
    /\ pc[j] = "realm"
    /\ realm' = realm \cup {RealmSteps[idx[j]]}
    /\ IF idx[j] < Len(RealmSteps)
       THEN idx' = [idx EXCEPT ![j] = @ + 1] /\ UNCHANGED pc
       ELSE /\ idx' = [idx EXCEPT ![j] = 1]
            /\ IF CoreClientsValid(j) THEN GoTo(j, "list") ELSE Raise(j)
    /\ UNCHANGED <<phase, kc, user, nextId, cfg, attempt, tries, seen, changed,
                   latest, faults>>

\* The loop over the clients goes on with the next one, then the demo user.
NextClient(j) ==
    IF idx[j] < Len(ClientOrder)
    THEN idx' = [idx EXCEPT ![j] = @ + 1] /\ GoTo(j, "list")
    ELSE GoTo(j, "users") /\ UNCHANGED idx

\* After the comparison: nothing to do, or delete and create again.
Decide(j, differs) ==
    IF ForceClients /\ differs THEN GoTo(j, "delete") /\ UNCHANGED idx
                               ELSE NextClient(j)

\* A client of the list of get_clients, with the secret that
\* get_client_secrets returns (a public client has none).
Fetched(c) ==
    LET stored == kc[c].stored
    IN  Existing(Listed(stored),
                 IF "secret" \in DOMAIN stored THEN stored.secret ELSE None)

\* The head of _check_and_create_client: get_clients.
ListClients(j) ==
    /\ pc[j] = "list"
    /\ \/ /\ Wanted(j) = None
          /\ NextClient(j)
          /\ UNCHANGED seen
       \/ /\ Wanted(j) # None /\ ~Valid(Wanted(j))
          /\ Raise(j)
          /\ UNCHANGED <<idx, seen>>
       \/ /\ Wanted(j) # None /\ Valid(Wanted(j))
          /\ kc[Client(j)] = None
          /\ GoTo(j, "create")
          /\ UNCHANGED <<idx, seen>>
       \/ /\ Wanted(j) # None /\ Valid(Wanted(j))
          /\ kc[Client(j)] # None
          /\ seen' = [seen EXCEPT ![j] = kc[Client(j)].id]
          /\ GoTo(j, "secret")
          /\ UNCHANGED idx
    /\ UNCHANGED <<keycloak, cfg, attempt, tries, changed, latest, faults>>

\* The client a pod has seen is still there, as it was: only its roles change.
StillThere(j) == kc[Client(j)] # None /\ kc[Client(j)].id = seen[j]

\* get_client_secrets and the comparison of the data.
GetSecret(j) ==
    /\ pc[j] = "secret"
    /\ \/ /\ StillThere(j)
          /\ \E existing \in {Fetched(Client(j))} :
                changed' = [changed EXCEPT
                    ![j] = CheckExisting(existing, Sent[cfg[j]][Client(j)])]
          /\ IF Credentials(Wanted(j)) THEN GoTo(j, "roles") /\ UNCHANGED idx
                                      ELSE Decide(j, changed'[j])
       \/ /\ ~StillThere(j)
          /\ Raise(j)
          /\ UNCHANGED <<idx, changed>>
    /\ UNCHANGED <<keycloak, cfg, attempt, tries, seen, latest, faults>>

\* The roles of a client's service account; one that is gone (404) has none.
GrantedRoles(j) == IF StillThere(j) THEN kc[Client(j)].roles ELSE {}
GrantedRealmRoles(j) == IF StillThere(j) THEN kc[Client(j)].realmRoles ELSE {}

\* Both sets are compared with the wanted ones.  (Mutant: the realm roles are
\* not.)
RolesDiffer(j) == GrantedRoles(j) # Wanted(j).service_account_roles
RealmRolesDifferNever(j) == FALSE
RealmRolesDiffer(j) == GrantedRealmRoles(j) # Wanted(j).service_account_realm_roles

\* get_client_roles_of_user
ReadRoles(j) ==
    /\ pc[j] = "roles"
    /\ changed' = [changed EXCEPT ![j] = @ \/ RolesDiffer(j)]
    /\ GoTo(j, "realmRoles")
    /\ UNCHANGED <<keycloak, cfg, attempt, tries, idx, seen, latest, faults>>

\* get_realm_roles_of_user
ReadRealmRoles(j) ==
    /\ pc[j] = "realmRoles"
    /\ Decide(j, changed[j] \/ RealmRolesDiffer(j))
    /\ UNCHANGED <<keycloak, cfg, attempt, tries, seen, changed, latest, faults>>

\* delete_client by the id that was listed.
DeleteClient(j) ==
    /\ pc[j] = "delete"
    /\ \/ /\ StillThere(j)
          /\ kc' = [kc EXCEPT ![Client(j)] = None]
          /\ GoTo(j, "create")
       \/ /\ ~StillThere(j)
          /\ Raise(j)
          /\ UNCHANGED kc
    /\ UNCHANGED <<phase, realm, user, nextId, cfg, attempt, tries, idx, seen,
                   changed, latest, faults>>

\* create_client: Keycloak gives a service account the default roles.
CreateClient(j) ==
    /\ pc[j] = "create"
    /\ \/ /\ kc[Client(j)] = None
          /\ kc' = [kc EXCEPT ![Client(j)] =
                [stored |-> Kept[cfg[j]][Client(j)], id |-> nextId,
                 roles |-> {},
                 realmRoles |-> IF Credentials(Wanted(j))
                                THEN DefaultRealmRoles ELSE {}]]
          /\ nextId' = nextId + 1
          /\ seen' = [seen EXCEPT ![j] = nextId]
          /\ IF Credentials(Wanted(j)) THEN GoTo(j, "account") /\ UNCHANGED idx
                                      ELSE NextClient(j)
       \/ /\ kc[Client(j)] # None
          /\ Raise(j)
          /\ UNCHANGED <<kc, nextId, idx, seen>>
    /\ UNCHANGED <<phase, realm, user, cfg, attempt, tries, changed, latest,
                   faults>>

\* get_client_service_account_user for the new id.
GetServiceAccount(j) ==
    /\ pc[j] = "account"
    /\ IF StillThere(j) THEN GoTo(j, "assign") ELSE Raise(j)
    /\ UNCHANGED <<keycloak, cfg, attempt, tries, idx, seen, changed, latest,
                   faults>>

\* Mutant: the roles go to whatever client has the name now.
GrantByName(j, entry, granted, l) ==
    /\ IF kc[Client(j)] = None THEN Raise(j) ELSE GoTo(j, l)
    /\ kc' = IF kc[Client(j)] = None THEN kc
             ELSE [kc EXCEPT ![Client(j)][entry] = @ \cup granted]

\* Grants roles to the service account of the client with the seen id.
Grant(j, entry, granted, l) ==
    \/ /\ StillThere(j)
       /\ kc' = [kc EXCEPT ![Client(j)][entry] = @ \cup granted]
       /\ GoTo(j, l)
    \/ /\ ~StillThere(j)
       /\ Raise(j)
       /\ UNCHANGED kc

\* assign_client_role: roles that Keycloak does not know are left out.
AssignClientRoles(j) ==
    /\ pc[j] = "assign"
    /\ IF Wanted(j).service_account_roles = {}
       THEN GoTo(j, "assignRealm") /\ UNCHANGED kc
       ELSE Grant(j, "roles",
                  Wanted(j).service_account_roles \cap ManagementRoles,
                  "assignRealm")
    /\ UNCHANGED <<phase, realm, user, nextId, cfg, attempt, tries, idx, seen,
                   changed, latest, faults>>

\* assign_realm_roles, likewise.
AssignRealmRoles(j) ==
    LET wanted == Wanted(j).service_account_realm_roles
        KnownRealmRoles == DefaultRealmRoles \cup (realm \cap RealmRoles)
    IN  /\ pc[j] = "assignRealm"
        /\ \/ /\ wanted = {}
              /\ NextClient(j)
              /\ UNCHANGED kc
           \/ /\ wanted # {} /\ StillThere(j)
              /\ kc' = [kc EXCEPT ![Client(j)].realmRoles =
                            @ \cup (wanted \cap KnownRealmRoles)]
              /\ NextClient(j)
           \/ /\ wanted # {} /\ ~StillThere(j)
              /\ Raise(j)
              /\ UNCHANGED <<kc, idx>>
        /\ UNCHANGED <<phase, realm, user, nextId, cfg, attempt, tries, seen,
                       changed, latest, faults>>

\* DemoUserConfig and the lookup in _check_and_create_user: a user that
\* exists is only compared.
ListUsers(j) ==
    /\ pc[j] = "users"
    /\ CASE Deployments[cfg[j]].demo = "noPassword" -> Raise(j)
         [] Deployments[cfg[j]].demo = "no" -> GoTo(j, "done")
         [] OTHER -> GoTo(j, IF user = "absent" THEN "createUser" ELSE "done")
    /\ UNCHANGED <<keycloak, cfg, attempt, tries, idx, seen, changed, latest,
                   faults>>

CreateUser(j) ==
    /\ pc[j] = "createUser"
    /\ \/ user = "absent" /\ user' = "created" /\ GoTo(j, "setPassword")
       \/ user # "absent" /\ Raise(j) /\ UNCHANGED user
    /\ UNCHANGED <<phase, realm, kc, nextId, cfg, attempt, tries, idx, seen,
                   changed, latest, faults>>

SetPassword(j) ==
    /\ pc[j] = "setPassword"
    /\ user' = "ready"
    /\ GoTo(j, "done")
    /\ UNCHANGED <<phase, realm, kc, nextId, cfg, attempt, tries, idx, seen,
                   changed, latest, faults>>

-----------------------------------------------------------------------------
ScriptStep(j) ==
    \/ WaitForTls(j) \/ GetToken(j) \/ ConfigureRealm(j)
    \/ ListClients(j) \/ GetSecret(j) \/ ReadRoles(j) \/ ReadRealmRoles(j)
    \/ DeleteClient(j) \/ CreateClient(j) \/ GetServiceAccount(j)
    \/ AssignClientRoles(j) \/ AssignRealmRoles(j)
    \/ ListUsers(j) \/ CreateUser(j) \/ SetPassword(j)

Next == \/ KeycloakStarts
        \/ \E j \in Jobs : \/ \E d \in DOMAIN Deployments : StartJob(j, d)
                           \/ ScriptStep(j)
                           \/ RestartPod(j)
                           \/ Crash(j)
                           \/ HelmDeletesJob(j)

\* Pods run and failed pods are replaced; Keycloak need not come up.
Fairness == \A j \in Jobs : WF_vars(ScriptStep(j) \/ RestartPod(j))

Spec == Init /\ [][Next]_vars /\ Fairness

-----------------------------------------------------------------------------
(* Properties.                                                             *)

\* Types: positions stay within the lists they index, the probes within the
\* limits of their loops, the pods within the Job's retries.
TypeOK ==
    /\ realm \subseteq {RealmSteps[n] : n \in 1 .. Len(RealmSteps)}
    /\ user \in {"absent", "created", "ready"}
    /\ \A j \in Jobs :
        /\ Live(j) \/ Finished(j) \/ pc[j] = "new"
        /\ attempt[j] \in 0 .. BackoffLimit + 1
        /\ pc[j] = "tls" => tries[j] \in 1 .. TlsRetries
        /\ pc[j] = "token" => tries[j] \in 0 .. TokenAttempts - 1
        /\ pc[j] = "realm" => idx[j] \in 1 .. Len(RealmSteps)
        /\ pc[j] \in {"list", "secret", "roles", "realmRoles", "delete",
                      "create", "account", "assign", "assignRealm"}
                => idx[j] \in 1 .. Len(ClientOrder)

\* What the script asks of a client: the data and exactly the roles of its
\* values.
Matches(c, d) ==
    LET w == Deployments[d].clients[c]
    IN  /\ kc[c] # None
        /\ SameClient(kc[c].stored, Kept[d][c])
        /\ Credentials(w) => /\ kc[c].roles = w.service_account_roles
                             /\ kc[c].realmRoles = w.service_account_realm_roles

\* What a client is when it has just been created: its service account also
\* has the roles Keycloak gives to every user.
AsCreated(c, d) ==
    LET w == Deployments[d].clients[c]
    IN  /\ kc[c] # None
        /\ SameClient(kc[c].stored, Kept[d][c])
        /\ Credentials(w) =>
                /\ kc[c].roles = w.service_account_roles
                /\ kc[c].realmRoles =
                        DefaultRealmRoles \cup w.service_account_realm_roles

\* The clients a Job's revision asks for; the optional ones may be None.
Asked(j) == Deployments[cfg[j]].clients

\* The flows Keycloak accepts from a client.
EnabledFlows(stored) ==
    {flow \in Flows :
        CASE flow = "authorization_code" -> stored.standardFlowEnabled
          [] flow = "client_credentials" -> stored.serviceAccountsEnabled
          [] OTHER -> /\ DeviceGrant \in DOMAIN stored.attributes
                      /\ stored.attributes[DeviceGrant] = "true"}

\* When a Job succeeds every client its revision asks for is in Keycloak as
\* if it had just been created from that revision's values, with its roles,
\* none of another revision and only the flow it asks for, whatever an earlier
\* revision or a killed pod left behind (Jobs in sequence, --force).
SuccessMeansReconciled ==
    [][ \A j \in Jobs : pc[j] # "done" /\ pc'[j] = "done" =>
            \A c \in Clients : Asked(j)[c] # None =>
                /\ AsCreated(c, cfg[j])'
                /\ EnabledFlows(kc'[c].stored) = {Asked(j)[c].oauth_flow} ]_vars

\* A Job never touches a client that is as its revision wants it, although
\* Keycloak returns it in another form than it was sent, so tokens and
\* sessions survive a redeployment and a retry (Jobs in sequence).
MatchingClientUntouched ==
    [][ \A j \in Jobs, c \in Clients :
            \/ kc'[c] = kc[c]
            \/ ~Live(j) \/ Asked(j)[c] = None
            \/ ~Matches(c, cfg[j]) ]_vars

\* The values of each client are such that the comparison can judge them.
ComparableValues ==
    \A c \in Clients, d \in DOMAIN Deployments :
        LET w == Deployments[d].clients[c]
        IN  w # None /\ Valid(w) =>
                /\ Comparable(w)
                /\ \A e \in DOMAIN Deployments :
                        LET v == Deployments[e].clients[c]
                        IN  v # None /\ Valid(v) => v.kind = w.kind

\* The roles a service account is to have can be granted.
AvailableRoles ==
    \A c \in Clients, d \in DOMAIN Deployments :
        LET w == Deployments[d].clients[c]
        IN  w # None /\ Valid(w) /\ Credentials(w) =>
                /\ w.service_account_roles \subseteq ManagementRoles
                /\ w.service_account_realm_roles
                        \subseteq DefaultRealmRoles \cup RealmRoles

\* A client never has roles that come from another revision than its data,
\* also when Jobs delete, create and grant in between each other's steps.
NoMixedPrivileges ==
    \A c \in Clients : kc[c] # None =>
        \E j \in Jobs :
            /\ cfg[j] # None /\ Asked(j)[c] # None
            /\ kc[c].stored = Kept[cfg[j]][c]
            /\ kc[c].roles \subseteq Asked(j)[c].service_account_roles
            /\ kc[c].realmRoles \subseteq DefaultRealmRoles \cup
                    Asked(j)[c].service_account_realm_roles

\* A client that the finished Job of the newest revision asked for is missing
\* only while, or because, another Job that took it away has not succeeded:
\* a Job that succeeds has put back whatever it or its earlier pods deleted,
\* also next to another Job.
ClientsSurviveOverlap ==
    \A c \in Clients :
        ( /\ latest # None /\ pc[latest] = "done" /\ Asked(latest)[c] # None
          /\ \A j \in Jobs : pc[j] \in {"new", "done"} )
            => kc[c] # None

\* Every Job ends, also when Keycloak never comes up.
JobsTerminate == \A j \in Jobs : Live(j) ~> Finished(j)

\* With Keycloak up and fewer faults to come than retries left, a Job with
\* valid values succeeds (Jobs in sequence).
ValidValues(c) ==
    /\ \A client \in Clients :
            c.clients[client] # None => Valid(c.clients[client])
    /\ c.demo # "noPassword"
JobSucceeds ==
    \A j \in Jobs :
        ( /\ Live(j) /\ phase = "ready" /\ ValidValues(Deployments[cfg[j]])
          /\ attempt[j] + (MaxFaults - faults) <= BackoffLimit )
            ~> pc[j] = "done"

\* "A demo user is required to be created but its password is not defined."
\* (utils.py:19): a demo user that is created has a password.
DemoUserHasPassword ==
    [][ \A j \in Jobs :
            pc[j] # "done" /\ pc'[j] = "done" /\ Deployments[cfg[j]].demo = "yes"
                => user' = "ready" ]_vars
=============================================================================
