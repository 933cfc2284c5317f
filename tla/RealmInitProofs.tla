--------------------------- MODULE RealmInitProofs ---------------------------
(***************************************************************************)
(* Theorems about RealmInit, for every set of Jobs, revisions, clients and *)
(* roles, any number of retries and faults, and Jobs that overlap.         *)
(*                                                                         *)
(* NoMixedPrivileges is not inductive alone: a pod grants roles to the     *)
(* client whose id it has seen, so the proof needs that this is the very   *)
(* client the pod created (Granted), and that no two pods hold the same id *)
(* at that point (DistinctIds), because Keycloak never gives an id twice.  *)
(*                                                                         *)
(* What a pod knows of its client (Judged) and what it has brought about   *)
(* (Achieved) is for Jobs in sequence, and rests on the theorem of         *)
(* ClientConfigProofs that the comparison is exact.                        *)
(***************************************************************************)
EXTENDS RealmInit, ClientConfigProofs, TLAPS

Granting == {"account", "assign", "assignRealm"}
Working == {"secret", "roles", "realmRoles", "delete", "create"} \cup Granting
Placed == {"list"} \cup Working
Labels == Script \cup {"new", "backoff", "done", "failed", "deleted"}

\* The steps in which a pod only reads what Keycloak has of its client, and
\* those in which it works on a client.
ReadStep(j) == GetSecret(j) \/ ReadRoles(j) \/ ReadRealmRoles(j)
               \/ GetServiceAccount(j)
ClientStep(j) == \/ ListClients(j) \/ ReadStep(j) \/ DeleteClient(j)
                 \/ CreateClient(j) \/ AssignClientRoles(j) \/ AssignRealmRoles(j)

LEMMA ReadStepMoves ==
  ASSUME NEW i \in Jobs, ReadStep(i)
  PROVE  /\ pc[i] \in {"secret", "roles", "realmRoles", "account"}
         /\ UNCHANGED <<keycloak, cfg, attempt, tries, seen, latest, faults>>
         /\ \/ Raise(i) /\ UNCHANGED idx
            \/ /\ UNCHANGED idx
               /\ \E l \in {"roles", "realmRoles", "delete"} : GoTo(i, l)
            \/ pc[i] # "account" /\ NextClient(i)
            \/ pc[i] = "account" /\ GoTo(i, "assign") /\ UNCHANGED idx
<1>1. CASE GetSecret(i)
  BY <1>1 DEF GetSecret, Decide
<1>2. CASE ReadRoles(i) \/ ReadRealmRoles(i)
  BY <1>2 DEF ReadRoles, ReadRealmRoles, Decide
<1>3. CASE GetServiceAccount(i)
  BY <1>3 DEF GetServiceAccount
<1> QED
  BY <1>1, <1>2, <1>3 DEF ReadStep

IsEntry(e) == e = [stored |-> e.stored, id |-> e.id, roles |-> e.roles,
                   realmRoles |-> e.realmRoles]

RealmTypeOK ==
    /\ kc = [c \in Clients |-> kc[c]]
    /\ \A c \in Clients : kc[c] # None => IsEntry(kc[c])
    /\ pc \in [Jobs -> Labels]
    /\ cfg \in [Jobs -> DOMAIN Deployments \cup {None}]
    /\ idx \in [Jobs -> Nat \ {0}]
    /\ seen \in [Jobs -> Int]
    /\ nextId \in Int

\* Every id in use, or in a pod's memory, has been given.
GivenIds == /\ \A c \in Clients : kc[c] # None => kc[c].id \in Int /\ kc[c].id < nextId
            /\ \A j \in Jobs : seen[j] < nextId

Configured == \A j \in Jobs : /\ pc[j] = "new" => cfg[j] = None
                              /\ pc[j] # "new" => cfg[j] # None
                              /\ pc[j] \in Placed => Client(j) \in Clients
                              /\ pc[j] \in Working => Wanted(j) # None

\* A client e that is w's, as revision d wants it, with no more than its roles.
Fits(e, d, c) ==
    /\ e.stored = Kept[d][c]
    /\ e.roles \subseteq Deployments[d].clients[c].service_account_roles
    /\ e.realmRoles \subseteq DefaultRealmRoles \cup
            Deployments[d].clients[c].service_account_realm_roles

\* The client a pod grants roles to is the one it created.
Granted == \A j \in Jobs :
    pc[j] \in Granting /\ Client(j) \in Clients /\ StillThere(j)
        => Fits(kc[Client(j)], cfg[j], Client(j))

DistinctIds == \A j, k \in Jobs :
    j # k /\ pc[j] \in Granting /\ pc[k] \in Granting => seen[j] # seen[k]

\* NoMixedPrivileges, in terms of Fits.
EveryClientFits ==
    \A c \in Clients : kc[c] # None =>
        \E j \in Jobs : /\ cfg[j] # None
                        /\ Deployments[cfg[j]].clients[c] # None
                        /\ Fits(kc[c], cfg[j], c)

Inv == RealmTypeOK /\ GivenIds /\ Configured /\ Granted /\ DistinctIds
       /\ EveryClientFits

LEMMA InitInv == Init => Inv
<1> SUFFICES ASSUME Init PROVE Inv
  OBVIOUS
<1>1. RealmTypeOK
  BY DEF Init, RealmTypeOK, Labels
<1>2. GivenIds /\ Configured /\ Granted /\ DistinctIds /\ EveryClientFits
  BY SMT DEF Init, GivenIds, Configured, Granted, DistinctIds, EveryClientFits,
             Placed, Working, Granting
<1> QED
  BY <1>1, <1>2 DEF Inv

-----------------------------------------------------------------------------
(* Steps that leave Keycloak's clients alone.                              *)

\* A pod goes on to something else than granting roles.
LEMMA MoveInv ==
  ASSUME Inv, NEW i \in Jobs, pc[i] # "new", UNCHANGED <<kc, nextId, cfg>>,
         NEW l \in Labels \ (Granting \cup {"new"}),
         pc' = [pc EXCEPT ![i] = l],
         idx' \in [Jobs -> Nat \ {0}], \A j \in Jobs \ {i} : idx'[j] = idx[j],
         seen' \in [Jobs -> Int], \A j \in Jobs \ {i} : seen'[j] = seen[j],
         seen'[i] < nextId,
         l \in Placed => Client(i)' \in Clients,
         l \in Working => Wanted(i)' # None
  PROVE  Inv'
<1>1. RealmTypeOK'
  BY DEF Inv, RealmTypeOK
<1>2. /\ pc'[i] = l
      /\ \A j \in Jobs \ {i} : pc'[j] = pc[j]
  BY DEF Inv, RealmTypeOK
<1>3. GivenIds'
  BY <1>2 DEF Inv, GivenIds
<1>4. Configured'
  BY <1>2 DEF Inv, Configured, Wanted, Client
<1>5. Granted'
  <2> SUFFICES ASSUME NEW j \in Jobs, pc'[j] \in Granting, Client(j)' \in Clients,
                      StillThere(j)'
               PROVE  Fits(kc'[Client(j)'], cfg'[j], Client(j)')
    BY DEF Granted, Fits, StillThere, Client
  <2>1. j # i /\ pc'[j] = pc[j]
    BY <1>2
  <2>2. Client(j)' = Client(j) /\ (StillThere(j)' <=> StillThere(j))
    BY <2>1 DEF Client, StillThere
  <2> QED
    BY <2>1, <2>2 DEF Inv, Granted
<1>6. DistinctIds'
  <2> SUFFICES ASSUME NEW j \in Jobs, NEW k \in Jobs, j # k,
                      pc'[j] \in Granting, pc'[k] \in Granting
               PROVE  seen'[j] # seen'[k]
    BY DEF DistinctIds
  <2>1. j # i /\ k # i
    BY <1>2
  <2> QED
    BY <1>2, <2>1 DEF Inv, DistinctIds
<1>7. EveryClientFits'
  BY DEF Inv, EveryClientFits, Fits
<1> QED
  BY <1>1, <1>3, <1>4, <1>5, <1>6, <1>7 DEF Inv

\* A pod raises, or is killed.
LEMMA RaiseInv ==
  ASSUME Inv, NEW i \in Jobs, pc[i] # "new", Raise(i),
         UNCHANGED <<kc, nextId, cfg, idx, seen>>
  PROVE  Inv'
<1>1. PICK l \in {"backoff", "failed"} : pc' = [pc EXCEPT ![i] = l]
  BY DEF Raise
<1>2. /\ idx' \in [Jobs -> Nat \ {0}] /\ seen' \in [Jobs -> Int]
      /\ seen'[i] < nextId
  BY DEF Inv, RealmTypeOK, GivenIds
<1>3. l \in Labels \ (Granting \cup {"new"}) /\ l \notin Placed /\ l \notin Working
  BY <1>1 DEF Labels, Granting, Script, Placed, Working
<1> QED
  BY <1>1, <1>2, <1>3, MoveInv

\* A pod goes on to a point where it needs no client, or the same client.
LEMMA GoInv ==
  ASSUME Inv, NEW i \in Jobs, pc[i] # "new",
         NEW l \in Labels \ (Granting \cup {"new"}), GoTo(i, l),
         UNCHANGED <<kc, nextId, cfg, idx, seen>>,
         l \in Placed => Client(i) \in Clients,
         l \in Working => Wanted(i) # None
  PROVE  Inv'
<1>1. pc' = [pc EXCEPT ![i] = l]
  BY DEF GoTo
<1>2. /\ idx' \in [Jobs -> Nat \ {0}] /\ seen' \in [Jobs -> Int]
      /\ seen'[i] < nextId
  BY DEF Inv, RealmTypeOK, GivenIds
<1>3. /\ l \in Placed => Client(i)' \in Clients
      /\ l \in Working => Wanted(i)' # None
  BY DEF Wanted, Client
<1> QED
  BY <1>1, <1>2, <1>3, MoveInv

\* A pod goes on to the next client, or the demo user.
LEMMA NextClientPc ==
  ASSUME Inv, NEW i \in Jobs, NextClient(i)
  PROVE  /\ idx' \in [Jobs -> Nat \ {0}]
         /\ \A j \in Jobs \ {i} : idx'[j] = idx[j]
         /\ \E l \in {"list", "users"} :
                /\ pc' = [pc EXCEPT ![i] = l]
                /\ l = "list" => Client(i)' \in Clients
<1>1. idx \in [Jobs -> Nat \ {0}]
  BY DEF Inv, RealmTypeOK
<1>2. CASE idx[i] < Len(ClientOrder)
  <2>1. /\ idx' = [idx EXCEPT ![i] = idx[i] + 1]
        /\ pc' = [pc EXCEPT ![i] = "list"]
    BY <1>2 DEF NextClient, GoTo
  <2>2. Client(i)' \in Clients
    BY <1>1, <1>2, <2>1, ConstantsAssumption DEF Client, Clients
  <2> QED
    BY <1>1, <2>1, <2>2
<1>3. CASE ~(idx[i] < Len(ClientOrder))
  BY <1>1, <1>3 DEF NextClient, GoTo
<1> QED
  BY <1>2, <1>3

LEMMA NextClientInv ==
  ASSUME Inv, NEW i \in Jobs, pc[i] # "new", NextClient(i),
         UNCHANGED <<kc, nextId, cfg>>,
         seen' \in [Jobs -> Int], \A j \in Jobs \ {i} : seen'[j] = seen[j],
         seen'[i] < nextId
  PROVE  Inv'
<1>1. PICK l \in {"list", "users"} :
         /\ pc' = [pc EXCEPT ![i] = l]
         /\ l = "list" => Client(i)' \in Clients
  BY NextClientPc
<1>2. /\ l \in Labels \ (Granting \cup {"new"}) /\ l \notin Working
      /\ l \in Placed => l = "list"
  BY <1>1 DEF Labels, Granting, Script, Placed, Working
<1>3. /\ l \in Placed => Client(i)' \in Clients
      /\ l \in Working => Wanted(i)' # None
  BY <1>1, <1>2
<1>4. /\ idx' \in [Jobs -> Nat \ {0}]
      /\ \A j \in Jobs \ {i} : idx'[j] = idx[j]
  BY NextClientPc
<1> QED
  BY <1>1, <1>2, <1>3, <1>4, MoveInv

-----------------------------------------------------------------------------
(* Steps that change a client.                                             *)

\* Roles are granted to the client a pod created: what is stored for it goes
\* from kc[Client(i)] to e, and it still fits the pod's revision.
LEMMA GrantInv ==
  ASSUME Inv, NEW i \in Jobs, pc[i] \in Granting, Client(i) \in Clients,
         StillThere(i), NEW e, IsEntry(e), e.id = kc[Client(i)].id,
         Fits(e, cfg[i], Client(i)),
         kc' = [kc EXCEPT ![Client(i)] = e],
         UNCHANGED <<nextId, cfg, seen>>,
         idx' \in [Jobs -> Nat \ {0}], \A j \in Jobs \ {i} : idx'[j] = idx[j],
         NEW l \in Labels \ {"new"}, pc' = [pc EXCEPT ![i] = l],
         l \in Granting => idx'[i] = idx[i],
         l \in Working => l \in Granting,
         l \in Placed => Client(i)' \in Clients
  PROVE  Inv'
<1> DEFINE c == Client(i)
<1>1. RealmTypeOK'
  BY DEF Inv, RealmTypeOK
<1>2. /\ pc'[i] = l
      /\ \A j \in Jobs \ {i} : pc'[j] = pc[j]
  BY DEF Inv, RealmTypeOK
<1>3. /\ kc'[c] = e
      /\ \A d \in Clients \ {c} : kc'[d] = kc[d]
  BY DEF Inv, RealmTypeOK
<1>4. kc[c] # None /\ kc[c].id = seen[i]
  BY DEF StillThere
<1>5. GivenIds'
  BY <1>3, <1>4 DEF Inv, GivenIds
<1>6. Configured'
  <2>1. ASSUME NEW j \in Jobs
        PROVE  /\ pc'[j] = "new" => cfg'[j] = None
               /\ pc'[j] # "new" => cfg'[j] # None
               /\ pc'[j] \in Placed => Client(j)' \in Clients
               /\ pc'[j] \in Working => Wanted(j)' # None
    <3>1. CASE j = i
      BY <1>2, <3>1 DEF Inv, Configured, Wanted, Client, Working, Granting
    <3>2. CASE j # i
      BY <1>2, <3>2 DEF Inv, Configured, Wanted, Client
    <3> QED
      BY <3>1, <3>2
  <2> QED
    BY <2>1 DEF Configured, Wanted, Client
<1>7. Granted'
  <2> SUFFICES ASSUME NEW j \in Jobs, pc'[j] \in Granting, Client(j)' \in Clients,
                      StillThere(j)'
               PROVE  Fits(kc'[Client(j)'], cfg'[j], Client(j)')
    BY DEF Granted, Fits, StillThere, Client
  <2>1. CASE j = i
    BY <1>2, <1>3, <2>1 DEF Client
  <2>2. CASE j # i
    <3>1. pc[j] \in Granting /\ Client(j)' = Client(j)
      BY <1>2, <2>2 DEF Client
    <3>2. seen[j] # seen[i]
      BY <2>2, <3>1 DEF Inv, DistinctIds
    <3>3. Client(j) # c
      BY <1>3, <1>4, <3>1, <3>2 DEF StillThere
    <3> QED
      BY <1>3, <3>1, <3>3 DEF Inv, Granted, StillThere
  <2> QED
    BY <2>1, <2>2
<1>8. DistinctIds'
  <2> SUFFICES ASSUME NEW j \in Jobs, NEW k \in Jobs, j # k,
                      pc'[j] \in Granting, pc'[k] \in Granting
               PROVE  seen'[j] # seen'[k]
    BY DEF DistinctIds
  <2> QED
    BY <1>2 DEF Inv, DistinctIds
<1>9. EveryClientFits'
  <2> SUFFICES ASSUME NEW d \in Clients, kc'[d] # None
               PROVE  \E j \in Jobs : /\ cfg[j] # None
                                      /\ Deployments[cfg[j]].clients[d] # None
                                      /\ Fits(kc'[d], cfg[j], d)
    BY DEF EveryClientFits, Fits
  <2>1. CASE d = c
    BY <1>3, <2>1 DEF Inv, Configured, Granting, Working, Wanted
  <2>2. CASE d # c
    BY <1>3, <2>2 DEF Inv, EveryClientFits
  <2> QED
    BY <2>1, <2>2
<1> QED
  BY <1>1, <1>5, <1>6, <1>7, <1>8, <1>9 DEF Inv

LEMMA StartJobInv ==
  ASSUME Inv, NEW i \in Jobs, NEW d \in DOMAIN Deployments, StartJob(i, d)
  PROVE  Inv'
<1> USE DEF StartJob, keycloak
<1>1. RealmTypeOK'
  BY DEF Inv, RealmTypeOK, Labels, Script
<1>2. /\ pc'[i] = "tls" /\ cfg'[i] = d /\ d # None
      /\ \A j \in Jobs \ {i} : pc'[j] = pc[j] /\ cfg'[j] = cfg[j]
  BY ConstantsAssumption DEF Inv, RealmTypeOK
<1>3. GivenIds'
  BY DEF Inv, GivenIds
<1>4. Configured'
  BY <1>2 DEF Inv, Configured, Wanted, Client, Placed, Working, Granting
<1>5. Granted'
  <2> SUFFICES ASSUME NEW j \in Jobs, pc'[j] \in Granting, Client(j)' \in Clients,
                      StillThere(j)'
               PROVE  Fits(kc'[Client(j)'], cfg'[j], Client(j)')
    BY DEF Granted, Fits, StillThere, Client
  <2>1. j # i
    BY <1>2 DEF Granting
  <2> QED
    BY <1>2, <2>1 DEF Inv, Granted, StillThere, Client
<1>6. DistinctIds'
  <2> SUFFICES ASSUME NEW j \in Jobs, NEW k \in Jobs, j # k,
                      pc'[j] \in Granting, pc'[k] \in Granting
               PROVE  seen'[j] # seen'[k]
    BY DEF DistinctIds
  <2>1. j # i /\ k # i
    BY <1>2 DEF Granting
  <2> QED
    BY <1>2, <2>1 DEF Inv, DistinctIds
<1>7. EveryClientFits'
  <2> SUFFICES ASSUME NEW c \in Clients, kc[c] # None
               PROVE  \E j \in Jobs : /\ cfg'[j] # None
                                      /\ Deployments[cfg'[j]].clients[c] # None
                                      /\ Fits(kc[c], cfg'[j], c)
    BY DEF EveryClientFits, Fits
  <2>1. PICK j \in Jobs : /\ cfg[j] # None
                          /\ Deployments[cfg[j]].clients[c] # None
                          /\ Fits(kc[c], cfg[j], c)
    BY DEF Inv, EveryClientFits
  <2>2. j # i
    BY <2>1 DEF Inv, Configured
  <2> QED
    BY <1>2, <2>1, <2>2
<1> QED
  BY <1>1, <1>3, <1>4, <1>5, <1>6, <1>7 DEF Inv

\* A client is deleted: nothing is asked of a client that is not there.
LEMMA DeleteInv ==
  ASSUME Inv, NEW i \in Jobs, pc[i] = "delete", StillThere(i),
         kc' = [kc EXCEPT ![Client(i)] = None], GoTo(i, "create"),
         UNCHANGED <<nextId, cfg, idx, seen>>
  PROVE  Inv'
<1>1. RealmTypeOK'
  BY DEF Inv, RealmTypeOK, GoTo, Labels, Script, IsEntry
<1>2. /\ pc'[i] = "create"
      /\ \A j \in Jobs \ {i} : pc'[j] = pc[j]
  BY DEF Inv, RealmTypeOK, GoTo
<1>3. \A c \in Clients : kc'[c] = kc[c] \/ kc'[c] = None
  BY DEF Inv, RealmTypeOK
<1>4. GivenIds'
  BY <1>3 DEF Inv, GivenIds
<1>5. Configured'
  BY <1>2 DEF Inv, Configured, Wanted, Client, Placed, Working, Granting
<1>6. Granted'
  <2> SUFFICES ASSUME NEW j \in Jobs, pc'[j] \in Granting, Client(j)' \in Clients,
                      StillThere(j)'
               PROVE  Fits(kc'[Client(j)'], cfg'[j], Client(j)')
    BY DEF Granted, Fits, StillThere, Client
  <2>1. j # i
    BY <1>2 DEF Granting
  <2>2. Client(j)' = Client(j) /\ kc'[Client(j)] = kc[Client(j)]
    BY <1>3 DEF Client, StillThere
  <2> QED
    BY <1>2, <2>1, <2>2 DEF Inv, Granted, StillThere
<1>7. DistinctIds'
  <2> SUFFICES ASSUME NEW j \in Jobs, NEW k \in Jobs, j # k,
                      pc'[j] \in Granting, pc'[k] \in Granting
               PROVE  seen'[j] # seen'[k]
    BY DEF DistinctIds
  <2>1. j # i /\ k # i
    BY <1>2 DEF Granting
  <2> QED
    BY <1>2, <2>1 DEF Inv, DistinctIds
<1>8. EveryClientFits'
  BY <1>3 DEF Inv, EveryClientFits, Fits
<1> QED
  BY <1>1, <1>4, <1>5, <1>6, <1>7, <1>8 DEF Inv

\* A client is created with an id no pod has seen, from the pod's revision.
LEMMA CreateInv ==
  ASSUME Inv, NEW i \in Jobs, pc[i] = "create",
         NEW e, IsEntry(e), e.id = nextId,
         Fits(e, cfg[i], Client(i)),
         kc' = [kc EXCEPT ![Client(i)] = e],
         nextId' = nextId + 1, cfg' = cfg,
         seen' = [seen EXCEPT ![i] = nextId],
         idx' \in [Jobs -> Nat \ {0}], \A j \in Jobs \ {i} : idx'[j] = idx[j],
         NEW l \in {"account", "list", "users"}, pc' = [pc EXCEPT ![i] = l],
         l = "account" => idx'[i] = idx[i],
         l = "list" => Client(i)' \in Clients
  PROVE  Inv'
<1> DEFINE c == Client(i)
<1>1. RealmTypeOK'
  BY DEF Inv, RealmTypeOK, Labels, Script
<1>2. /\ pc'[i] = l /\ seen'[i] = nextId
      /\ \A j \in Jobs \ {i} : pc'[j] = pc[j] /\ seen'[j] = seen[j]
  BY DEF Inv, RealmTypeOK
<1>3. /\ \A d \in Clients : d = c => kc'[d] = e
      /\ \A d \in Clients \ {c} : kc'[d] = kc[d]
  BY DEF Inv, RealmTypeOK
<1>4. nextId \in Int /\ \A j \in Jobs : seen[j] \in Int /\ seen[j] < nextId
  BY DEF Inv, RealmTypeOK, GivenIds
<1>5. GivenIds'
  <2>1. \A j \in Jobs : seen'[j] < nextId'
    BY <1>2, <1>4
  <2>2. ASSUME NEW d \in Clients, kc'[d] # None
        PROVE  kc'[d].id \in Int /\ kc'[d].id < nextId'
    <3>1. CASE d = c
      BY <1>3, <1>4, <3>1
    <3>2. CASE d # c
      BY <1>3, <1>4, <2>2, <3>2 DEF Inv, GivenIds
    <3> QED
      BY <3>1, <3>2
  <2> QED
    BY <2>1, <2>2 DEF GivenIds
<1>6. Wanted(i) # None /\ cfg[i] # None /\ Client(i) \in Clients
  BY DEF Inv, Configured, Placed, Working
<1>7. Configured'
  <2>1. ASSUME NEW j \in Jobs
        PROVE  /\ pc'[j] = "new" => cfg'[j] = None
               /\ pc'[j] # "new" => cfg'[j] # None
               /\ pc'[j] \in Placed => Client(j)' \in Clients
               /\ pc'[j] \in Working => Wanted(j)' # None
    <3>1. CASE j = i
      BY <1>2, <1>6, <3>1 DEF Wanted, Client, Placed, Working, Granting
    <3>2. CASE j # i
      BY <1>2, <3>2 DEF Inv, Configured, Wanted, Client
    <3> QED
      BY <3>1, <3>2
  <2> QED
    BY <2>1 DEF Configured
<1>8. Granted'
  <2> SUFFICES ASSUME NEW j \in Jobs, pc'[j] \in Granting, Client(j)' \in Clients,
                      StillThere(j)'
               PROVE  Fits(kc'[Client(j)'], cfg'[j], Client(j)')
    BY DEF Granted, Fits, StillThere, Client
  <2>1. CASE j = i
    BY <1>2, <1>3, <2>1 DEF Client, Granting
  <2>2. CASE j # i
    <3>1. pc[j] \in Granting /\ Client(j)' = Client(j) /\ seen'[j] = seen[j]
      BY <1>2, <2>2 DEF Client
    <3>2. Client(j) # c
      BY <1>3, <1>4, <3>1 DEF StillThere
    <3> QED
      BY <1>3, <3>1, <3>2 DEF Inv, Granted, StillThere
  <2> QED
    BY <2>1, <2>2
<1>9. DistinctIds'
  <2> SUFFICES ASSUME NEW j \in Jobs, NEW k \in Jobs, j # k,
                      pc'[j] \in Granting, pc'[k] \in Granting
               PROVE  seen'[j] # seen'[k]
    BY DEF DistinctIds
  <2>1. CASE j = i
    BY <1>2, <1>4, <2>1
  <2>2. CASE k = i
    BY <1>2, <1>4, <2>2
  <2>3. CASE j # i /\ k # i
    BY <1>2, <2>3 DEF Inv, DistinctIds
  <2> QED
    BY <2>1, <2>2, <2>3
<1>10. EveryClientFits'
  <2> SUFFICES ASSUME NEW d \in Clients, kc'[d] # None
               PROVE  \E j \in Jobs : /\ cfg[j] # None
                                      /\ Deployments[cfg[j]].clients[d] # None
                                      /\ Fits(kc'[d], cfg[j], d)
    BY DEF EveryClientFits, Fits
  <2>1. CASE d = c
    BY <1>3, <1>6, <2>1 DEF Wanted
  <2>2. CASE d # c
    BY <1>3, <2>2 DEF Inv, EveryClientFits
  <2> QED
    BY <2>1, <2>2
<1> QED
  BY <1>1, <1>5, <1>7, <1>8, <1>9, <1>10 DEF Inv

-----------------------------------------------------------------------------
(* One lemma per action that reaches one of these steps in several ways.   *)

LEMMA WaitForTlsInv ==
  ASSUME Inv, NEW i \in Jobs, WaitForTls(i)
  PROVE  Inv'
<1> USE DEF WaitForTls, keycloak
<1>1. pc[i] # "new"
  OBVIOUS
<1>2. CASE GoTo(i, "token")
  <2>1. "token" \in Labels \ (Granting \cup {"new"}) /\ "token" \notin Placed
    BY DEF Labels, Script, Placed, Working, Granting
  <2> QED
    BY <1>1, <1>2, <2>1, GoInv DEF Placed
<1>3. CASE Raise(i)
  BY <1>1, <1>3, RaiseInv
<1>4. CASE UNCHANGED pc
  BY <1>4 DEF Inv, RealmTypeOK, GivenIds, Configured, Granted, DistinctIds,
              EveryClientFits, Fits, Wanted, Client, StillThere
<1> QED
  BY <1>2, <1>3, <1>4

LEMMA GetTokenInv ==
  ASSUME Inv, NEW i \in Jobs, GetToken(i)
  PROVE  Inv'
<1> USE DEF GetToken, keycloak
<1>1. pc[i] # "new"
  OBVIOUS
<1>2. CASE GoTo(i, "realm") /\ idx' = [idx EXCEPT ![i] = 1]
  <2>1. "realm" \in Labels \ (Granting \cup {"new"}) /\ "realm" \notin Placed
    BY DEF Labels, Script, Placed, Working, Granting
  <2>2. /\ idx' \in [Jobs -> Nat \ {0}] /\ seen' \in [Jobs -> Int]
        /\ \A j \in Jobs \ {i} : idx'[j] = idx[j]
        /\ seen'[i] < nextId
    BY <1>2 DEF Inv, RealmTypeOK, GivenIds
  <2> QED
    BY <1>1, <1>2, <2>1, <2>2, MoveInv DEF GoTo, Placed
<1>3. CASE Raise(i) /\ UNCHANGED idx
  BY <1>1, <1>3, RaiseInv
<1>4. CASE UNCHANGED <<pc, idx>>
  BY <1>4 DEF Inv, RealmTypeOK, GivenIds, Configured, Granted, DistinctIds,
              EveryClientFits, Fits, Wanted, Client, StillThere
<1> QED
  BY <1>2, <1>3, <1>4

LEMMA ConfigureRealmInv ==
  ASSUME Inv, NEW i \in Jobs, ConfigureRealm(i)
  PROVE  Inv'
<1> USE DEF ConfigureRealm
<1>1. pc \in [Jobs -> Labels] /\ idx \in [Jobs -> Nat \ {0}] /\ pc[i] = "realm"
  BY DEF Inv, RealmTypeOK
<1>2. /\ idx' \in [Jobs -> Nat \ {0}] /\ seen' \in [Jobs -> Int]
      /\ \A j \in Jobs \ {i} : idx'[j] = idx[j]
      /\ seen'[i] < nextId
  <2>1. seen' \in [Jobs -> Int] /\ seen'[i] < nextId
    BY DEF Inv, RealmTypeOK, GivenIds
  <2>2. \E n \in Int : idx' = [idx EXCEPT ![i] = n]
    BY <1>1
  <2> QED
    BY <1>1, <2>1, <2>2
<1>3. PICK l \in {"realm", "list", "backoff", "failed"} :
         /\ pc' = [pc EXCEPT ![i] = l]
         /\ l = "list" => idx'[i] = 1
  <2>1. CASE idx[i] < Len(RealmSteps)
    <3>1. pc' = [pc EXCEPT ![i] = "realm"]
      BY <1>1, <2>1
    <3> QED
      BY <3>1
  <2>2. CASE ~(idx[i] < Len(RealmSteps))
    BY <1>1, <2>2 DEF GoTo, Raise
  <2> QED
    BY <2>1, <2>2
<1>4. /\ l \in Labels \ (Granting \cup {"new"}) /\ l \notin Working
      /\ l \in Placed => l = "list"
  BY DEF Labels, Script, Placed, Working, Granting
<1>5. l = "list" => Client(i)' \in Clients
  BY <1>3, ConstantsAssumption DEF Client, Clients
<1> QED
  BY <1>1, <1>2, <1>3, <1>4, <1>5, MoveInv

LEMMA ListClientsInv ==
  ASSUME Inv, NEW i \in Jobs, ListClients(i)
  PROVE  Inv'
<1> USE DEF ListClients, keycloak
<1>1. pc[i] = "list" /\ Client(i) \in Clients /\ UNCHANGED <<kc, nextId, cfg>>
  BY DEF Inv, Configured, Placed
<1>2. ASSUME UNCHANGED seen
      PROVE  /\ seen' \in [Jobs -> Int] /\ seen'[i] < nextId
             /\ \A j \in Jobs \ {i} : seen'[j] = seen[j]
  BY <1>2 DEF Inv, RealmTypeOK, GivenIds
<1>3. CASE NextClient(i) /\ UNCHANGED seen
  BY <1>1, <1>2, <1>3, NextClientInv
<1>4. CASE Raise(i) /\ UNCHANGED <<idx, seen>>
  BY <1>1, <1>4, RaiseInv
<1>5. CASE Wanted(i) # None /\ GoTo(i, "create") /\ UNCHANGED <<idx, seen>>
  <2>1. "create" \in Labels \ (Granting \cup {"new"})
    BY DEF Labels, Script, Granting
  <2> QED
    BY <1>1, <1>5, <2>1, GoInv
<1>6. CASE /\ Wanted(i) # None /\ kc[Client(i)] # None
           /\ seen' = [seen EXCEPT ![i] = kc[Client(i)].id]
           /\ GoTo(i, "secret") /\ UNCHANGED idx
  <2>1. kc[Client(i)].id \in Int /\ kc[Client(i)].id < nextId
    BY <1>1, <1>6 DEF Inv, GivenIds
  <2>2. /\ seen' \in [Jobs -> Int] /\ seen'[i] < nextId
        /\ \A j \in Jobs \ {i} : seen'[j] = seen[j]
    BY <1>6, <2>1 DEF Inv, RealmTypeOK
  <2>3. pc' = [pc EXCEPT ![i] = "secret"] /\ idx' \in [Jobs -> Nat \ {0}]
    BY <1>6 DEF GoTo, Inv, RealmTypeOK
  <2>4. /\ "secret" \in Labels \ (Granting \cup {"new"})
        /\ Wanted(i)' # None /\ Client(i)' \in Clients
    BY <1>1, <1>6 DEF Labels, Granting, Script, Wanted, Client
  <2> QED
    BY <1>1, <1>6, <2>2, <2>3, <2>4, MoveInv
<1> QED
  BY <1>3, <1>4, <1>5, <1>6

\* A pod goes on to another step of granting roles to its client.
LEMMA GrantingInv ==
  ASSUME Inv, NEW i \in Jobs, pc[i] \in Granting, NEW l \in Granting, GoTo(i, l),
         UNCHANGED <<kc, nextId, cfg, idx, seen>>
  PROVE  Inv'
<1>1. \A j \in Jobs : /\ pc'[j] \in Granting <=> pc[j] \in Granting
                      /\ pc'[j] \in Working <=> pc[j] \in Working
                      /\ pc'[j] \in Placed <=> pc[j] \in Placed
                      /\ pc'[j] = "new" <=> pc[j] = "new"
  BY DEF GoTo, Inv, RealmTypeOK, Placed, Working, Granting
<1>2. RealmTypeOK'
  BY DEF GoTo, Inv, RealmTypeOK, Labels, Script, Granting
<1>3. GivenIds' /\ DistinctIds' /\ EveryClientFits'
  BY <1>1 DEF Inv, GivenIds, DistinctIds, EveryClientFits, Fits
<1>4. Configured'
  BY <1>1 DEF Inv, Configured, Wanted, Client
<1>5. Granted'
  BY <1>1 DEF Inv, Granted, Fits, StillThere, Client
<1> QED
  BY <1>2, <1>3, <1>4, <1>5 DEF Inv

LEMMA ReadStepInv ==
  ASSUME Inv, NEW i \in Jobs, ReadStep(i)
  PROVE  Inv'
<1>1. /\ pc[i] \in {"secret", "roles", "realmRoles", "account"}
      /\ UNCHANGED <<kc, nextId, cfg, seen>>
  BY ReadStepMoves DEF keycloak
<1>2. pc[i] # "new" /\ Client(i) \in Clients /\ Wanted(i) # None
  BY <1>1 DEF Inv, Configured, Placed, Working, Granting
<1>3. CASE Raise(i) /\ UNCHANGED idx
  BY <1>1, <1>2, <1>3, RaiseInv
<1>4. ASSUME NEW l \in {"roles", "realmRoles", "delete"}, GoTo(i, l), UNCHANGED idx
      PROVE  Inv'
  <2>1. l \in Labels \ (Granting \cup {"new"})
    BY DEF Labels, Script, Granting
  <2> QED
    BY <1>1, <1>2, <1>4, <2>1, GoInv
<1>5. CASE NextClient(i)
  <2>1. /\ seen' \in [Jobs -> Int] /\ seen'[i] < nextId
        /\ \A j \in Jobs \ {i} : seen'[j] = seen[j]
    BY <1>1 DEF Inv, RealmTypeOK, GivenIds
  <2> QED
    BY <1>1, <1>2, <1>5, <2>1, NextClientInv
<1>6. CASE pc[i] = "account" /\ GoTo(i, "assign") /\ UNCHANGED idx
  BY <1>1, <1>6, GrantingInv DEF Granting
<1> QED
  BY <1>3, <1>4, <1>5, <1>6, ReadStepMoves

LEMMA DeleteClientInv ==
  ASSUME Inv, NEW i \in Jobs, DeleteClient(i)
  PROVE  Inv'
<1> USE DEF DeleteClient
<1>1. CASE StillThere(i)
  BY <1>1, DeleteInv DEF Raise
<1>2. CASE ~StillThere(i)
  BY <1>2, RaiseInv
<1> QED
  BY <1>1, <1>2

LEMMA CreateClientInv ==
  ASSUME Inv, NEW i \in Jobs, CreateClient(i)
  PROVE  Inv'
<1> USE DEF CreateClient
<1>1. CASE kc[Client(i)] # None
  BY <1>1, RaiseInv
<1>2. CASE kc[Client(i)] = None
  <2> DEFINE r == IF Credentials(Wanted(i)) THEN DefaultRealmRoles ELSE {}
             e == [stored |-> Kept[cfg[i]][Client(i)], id |-> nextId,
                   roles |-> {}, realmRoles |-> r]
  <2>1. /\ kc' = [kc EXCEPT ![Client(i)] = e]
        /\ nextId' = nextId + 1 /\ cfg' = cfg
        /\ seen' = [seen EXCEPT ![i] = nextId]
    BY <1>2
  <2>2. IsEntry(e) /\ e.id = nextId
    BY DEF IsEntry
  <2>3. Fits(e, cfg[i], Client(i))
    BY DEF Fits
  <2>4. CASE GoTo(i, "account") /\ UNCHANGED idx
    <3>1. pc' = [pc EXCEPT ![i] = "account"] /\ idx' \in [Jobs -> Nat \ {0}]
      BY <2>4 DEF GoTo, Inv, RealmTypeOK
    <3> HIDE DEF e
    <3> QED
      BY <2>1, <2>2, <2>3, <2>4, <3>1, CreateInv
  <2>5. CASE NextClient(i)
    <3>1. PICK l \in {"list", "users"} :
                /\ pc' = [pc EXCEPT ![i] = l]
                /\ l = "list" => Client(i)' \in Clients
      BY <2>5, NextClientPc
    <3>2. /\ idx' \in [Jobs -> Nat \ {0}]
          /\ \A j \in Jobs \ {i} : idx'[j] = idx[j]
      BY <2>5, NextClientPc
    <3> HIDE DEF e
    <3> QED
      BY <2>1, <2>2, <2>3, <3>1, <3>2, CreateInv
  <2> QED
    BY <1>2, <2>4, <2>5
<1> QED
  BY <1>1, <1>2

\* What granting changes of a client's entry.
LEMMA GrantedEntry ==
  ASSUME NEW x, IsEntry(x), NEW g
  PROVE  /\ [x EXCEPT !.roles = @ \cup g] =
              [stored |-> x.stored, id |-> x.id, roles |-> x.roles \cup g,
               realmRoles |-> x.realmRoles]
         /\ [x EXCEPT !.realmRoles = @ \cup g] =
              [stored |-> x.stored, id |-> x.id, roles |-> x.roles,
               realmRoles |-> x.realmRoles \cup g]
<1> DEFINE Entry(a, b, c, d) ==
        [stored |-> a, id |-> b, roles |-> c, realmRoles |-> d]
<1>1. PICK a, b, c, d : x = Entry(a, b, c, d)
  BY DEF IsEntry
<1>2. [Entry(a, b, c, d) EXCEPT !.roles = @ \cup g] = Entry(a, b, c \cup g, d)
  OBVIOUS
<1>3. [Entry(a, b, c, d) EXCEPT !.realmRoles = @ \cup g] =
        Entry(a, b, c, d \cup g)
  OBVIOUS
<1>4. x.stored = a /\ x.id = b /\ x.roles = c /\ x.realmRoles = d
  BY <1>1
<1> QED
  BY <1>1, <1>2, <1>3, <1>4

LEMMA AssignClientRolesInv ==
  ASSUME Inv, NEW i \in Jobs, AssignClientRoles(i)
  PROVE  Inv'
<1> DEFINE g == Wanted(i).service_account_roles \cap ManagementRoles
           x == kc[Client(i)]
           e == [stored |-> x.stored, id |-> x.id, roles |-> x.roles \cup g,
                 realmRoles |-> x.realmRoles]
<1>1. /\ pc[i] = "assign" /\ Client(i) \in Clients /\ cfg[i] # None
      /\ UNCHANGED <<nextId, cfg, idx, seen>>
  BY DEF AssignClientRoles, Inv, Configured, Placed, Working, Granting
<1>2. /\ idx' \in [Jobs -> Nat \ {0}]
      /\ \A j \in Jobs \ {i} : idx'[j] = idx[j]
  BY <1>1 DEF Inv, RealmTypeOK
<1>3. CASE ~StillThere(i) /\ Raise(i) /\ UNCHANGED kc
  BY <1>1, <1>3, RaiseInv
<1>4. CASE GoTo(i, "assignRealm") /\ UNCHANGED kc
  BY <1>1, <1>4, GrantingInv DEF Granting
<1>5. CASE /\ StillThere(i) /\ GoTo(i, "assignRealm")
           /\ kc' = [kc EXCEPT ![Client(i)]["roles"] = @ \cup g]
  <2>1. IsEntry(kc[Client(i)]) /\ Fits(kc[Client(i)], cfg[i], Client(i))
    BY <1>1, <1>5 DEF Inv, RealmTypeOK, StillThere, Granted, Granting
  <2>2. /\ kc' = [kc EXCEPT ![Client(i)] = e]
        /\ IsEntry(e) /\ e.id = kc[Client(i)].id
        /\ Fits(e, cfg[i], Client(i))
    <3>1. kc' = [kc EXCEPT ![Client(i)] = [x EXCEPT !.roles = @ \cup g]]
      BY <1>1, <1>5 DEF Inv, RealmTypeOK
    <3>2. [x EXCEPT !.roles = @ \cup g] = e
      BY <2>1, GrantedEntry
    <3>3. IsEntry(e)
      BY DEF IsEntry
    <3>4. Fits(e, cfg[i], Client(i))
      BY <2>1 DEF Fits, Wanted
    <3> QED
      BY <3>1, <3>2, <3>3, <3>4
  <2>3. /\ pc' = [pc EXCEPT ![i] = "assignRealm"]
        /\ "assignRealm" \in Labels \ {"new"} /\ "assignRealm" \in Granting
        /\ "assignRealm" \in Working
        /\ Client(i)' \in Clients
        /\ pc[i] \in Granting
    BY <1>1, <1>5 DEF GoTo, Labels, Script, Working, Granting, Client
  <2> HIDE DEF e
  <2> QED
    BY <1>1, <1>2, <1>5, <2>2, <2>3, GrantInv
<1> QED
  BY <1>3, <1>4, <1>5 DEF AssignClientRoles, Grant

LEMMA AssignRealmRolesInv ==
  ASSUME Inv, NEW i \in Jobs, AssignRealmRoles(i)
  PROVE  Inv'
<1> DEFINE wanted == Wanted(i).service_account_realm_roles
           g == wanted \cap (DefaultRealmRoles \cup (realm \cap RealmRoles))
           x == kc[Client(i)]
           e == [stored |-> x.stored, id |-> x.id, roles |-> x.roles,
                 realmRoles |-> x.realmRoles \cup g]
<1>1. /\ pc[i] = "assignRealm" /\ Client(i) \in Clients
      /\ UNCHANGED <<nextId, cfg, seen>>
  BY DEF AssignRealmRoles, Inv, Configured, Placed, Working, Granting
<1>2. CASE ~StillThere(i) /\ Raise(i) /\ UNCHANGED <<kc, idx>>
  BY <1>1, <1>2, RaiseInv
<1>3. CASE NextClient(i) /\ UNCHANGED kc
  <2>1. /\ seen' \in [Jobs -> Int] /\ seen'[i] < nextId
        /\ \A j \in Jobs \ {i} : seen'[j] = seen[j]
    BY <1>1 DEF Inv, RealmTypeOK, GivenIds
  <2> QED
    BY <1>1, <1>3, <2>1, NextClientInv
<1>4. CASE /\ StillThere(i) /\ NextClient(i)
           /\ kc' = [kc EXCEPT ![Client(i)].realmRoles = @ \cup g]
  <2>1. IsEntry(kc[Client(i)]) /\ Fits(kc[Client(i)], cfg[i], Client(i))
    BY <1>1, <1>4 DEF Inv, RealmTypeOK, StillThere, Granted, Granting
  <2>2. /\ kc' = [kc EXCEPT ![Client(i)] = e]
        /\ IsEntry(e) /\ e.id = kc[Client(i)].id
        /\ Fits(e, cfg[i], Client(i))
    <3>1. kc' = [kc EXCEPT ![Client(i)] = [x EXCEPT !.realmRoles = @ \cup g]]
      BY <1>1, <1>4 DEF Inv, RealmTypeOK
    <3>2. [x EXCEPT !.realmRoles = @ \cup g] = e
      BY <2>1, GrantedEntry
    <3>3. IsEntry(e)
      BY DEF IsEntry
    <3>4. Fits(e, cfg[i], Client(i))
      BY <2>1 DEF Fits, Wanted
    <3> QED
      BY <3>1, <3>2, <3>3, <3>4
  <2>3. PICK l \in {"list", "users"} :
            /\ pc' = [pc EXCEPT ![i] = l]
            /\ l = "list" => Client(i)' \in Clients
    BY <1>4, NextClientPc
  <2>4. /\ idx' \in [Jobs -> Nat \ {0}]
        /\ \A j \in Jobs \ {i} : idx'[j] = idx[j]
    BY <1>4, NextClientPc
  <2>5. /\ l \in Labels \ {"new"} /\ l \notin Working /\ l \notin Granting
        /\ l \in Placed => Client(i)' \in Clients
        /\ pc[i] \in Granting
    BY <1>1, <2>3 DEF Labels, Script, Placed, Working, Granting
  <2> HIDE DEF e
  <2> QED
    BY <1>1, <1>4, <2>2, <2>3, <2>4, <2>5, GrantInv
<1> QED
  BY <1>2, <1>3, <1>4 DEF AssignRealmRoles

LEMMA UserStepsInv ==
  ASSUME Inv, NEW i \in Jobs, ListUsers(i) \/ CreateUser(i) \/ SetPassword(i)
  PROVE  Inv'
<1>1. pc[i] # "new" /\ UNCHANGED <<kc, nextId, cfg, idx, seen>>
  BY DEF ListUsers, CreateUser, SetPassword, keycloak
<1>2. \/ Raise(i)
      \/ \E l \in {"createUser", "setPassword", "done"} : GoTo(i, l)
  BY DEF ListUsers, CreateUser, SetPassword
<1>3. \A l \in {"createUser", "setPassword", "done"} :
         l \in Labels \ (Granting \cup {"new"}) /\ l \notin Placed /\ l \notin Working
  BY DEF Labels, Script, Placed, Working, Granting
<1>4. CASE Raise(i)
  BY <1>1, <1>4, RaiseInv
<1>5. ASSUME NEW l \in {"createUser", "setPassword", "done"}, GoTo(i, l)
      PROVE  Inv'
  BY <1>1, <1>3, <1>5, GoInv
<1> QED
  BY <1>2, <1>4, <1>5

\* The pods that end, by themselves or not, and those that begin again.
LEMMA PodStepsInv ==
  ASSUME Inv, NEW i \in Jobs, RestartPod(i) \/ Crash(i) \/ HelmDeletesJob(i)
  PROVE  Inv'
<1>1. pc[i] # "new" /\ UNCHANGED <<kc, nextId, cfg, idx, seen>>
  BY DEF RestartPod, Crash, HelmDeletesJob, Live, Script, keycloak
<1>2. Raise(i) \/ \E l \in {"tls", "deleted"} : GoTo(i, l)
  BY DEF RestartPod, Crash, HelmDeletesJob, GoTo
<1>3. \A l \in {"tls", "deleted"} :
         l \in Labels \ (Granting \cup {"new"}) /\ l \notin Placed /\ l \notin Working
  BY DEF Labels, Script, Placed, Working, Granting
<1>4. CASE Raise(i)
  BY <1>1, <1>4, RaiseInv
<1>5. ASSUME NEW l \in {"tls", "deleted"}, GoTo(i, l)
      PROVE  Inv'
  BY <1>1, <1>3, <1>5, GoInv
<1> QED
  BY <1>2, <1>4, <1>5

-----------------------------------------------------------------------------

\* The clients, the pods' positions and their memory stay as they are when
\* Keycloak starts, and in a stuttering step.
LEMMA UnchangedInv ==
  ASSUME Inv, UNCHANGED <<kc, nextId, pc, cfg, idx, seen>>
  PROVE  Inv'
BY DEF Inv, RealmTypeOK, GivenIds, Configured, Granted, DistinctIds,
       EveryClientFits, Fits, Wanted, Client, StillThere

LEMMA NextInv == Inv /\ [Next]_vars => Inv'
<1> SUFFICES ASSUME Inv, [Next]_vars PROVE Inv'
  OBVIOUS
<1>1. CASE KeycloakStarts
  BY <1>1, UnchangedInv DEF KeycloakStarts, pods
<1>2. CASE UNCHANGED vars
  BY <1>2, UnchangedInv DEF vars, keycloak, pods
<1>3. ASSUME NEW i \in Jobs, NEW d \in DOMAIN Deployments, StartJob(i, d)
      PROVE  Inv'
  BY <1>3, StartJobInv
<1>4. ASSUME NEW i \in Jobs, ScriptStep(i)
      PROVE  Inv'
  BY <1>4, WaitForTlsInv, GetTokenInv, ConfigureRealmInv, ListClientsInv,
     ReadStepInv, DeleteClientInv, CreateClientInv, AssignClientRolesInv,
     AssignRealmRolesInv, UserStepsInv DEF ScriptStep, ReadStep
<1>5. ASSUME NEW i \in Jobs, RestartPod(i) \/ Crash(i) \/ HelmDeletesJob(i)
      PROVE  Inv'
  BY <1>5, PodStepsInv
<1> QED
  BY <1>1, <1>2, <1>3, <1>4, <1>5 DEF Next

\* A client in Keycloak never has roles of another revision than its data,
\* however many Jobs delete, create and grant between each other's steps.
THEOREM NoMixedPrivilegesHolds == Spec => []NoMixedPrivileges
<1>1. Inv => NoMixedPrivileges
  BY DEF Inv, EveryClientFits, NoMixedPrivileges, Fits, Asked
<1> QED
  BY <1>1, InitInv, NextInv, PTL DEF Spec
-----------------------------------------------------------------------------
(* Types.                                                                  *)

PodBound(j) ==
    /\ pc[j] = "backoff" => attempt[j] <= BackoffLimit
    /\ pc[j] = "tls" => tries[j] \in 1 .. TlsRetries
    /\ pc[j] = "token" => tries[j] \in 0 .. TokenAttempts - 1
    /\ pc[j] = "realm" => idx[j] \in 1 .. Len(RealmSteps)
    /\ pc[j] \in Placed => idx[j] \in 1 .. Len(ClientOrder)

RealmBounds ==
    /\ realm \subseteq {RealmSteps[n] : n \in 1 .. Len(RealmSteps)}
    /\ user \in {"absent", "created", "ready"}
    /\ attempt \in [Jobs -> 0 .. BackoffLimit + 1]
    /\ tries \in [Jobs -> Int]
    /\ \A j \in Jobs : PodBound(j)

LEMMA InitBounds == Init => RealmBounds
BY ConstantsAssumption DEF Init, RealmBounds, PodBound, Placed, Working, Granting

\* One pod takes a step.
LEMMA PodBounds ==
  ASSUME RealmBounds, NEW i \in Jobs, PodBound(i)',
         \A j \in Jobs \ {i} : /\ pc'[j] = pc[j] /\ idx'[j] = idx[j]
                               /\ attempt'[j] = attempt[j] /\ tries'[j] = tries[j],
         realm' \subseteq {RealmSteps[n] : n \in 1 .. Len(RealmSteps)},
         user' \in {"absent", "created", "ready"},
         attempt' \in [Jobs -> 0 .. BackoffLimit + 1], tries' \in [Jobs -> Int]
  PROVE  RealmBounds'
<1>1. ASSUME NEW j \in Jobs PROVE PodBound(j)'
  <2>1. CASE j = i
    BY <2>1
  <2>2. CASE j # i
    BY <2>2 DEF RealmBounds, PodBound
  <2> QED
    BY <2>1, <2>2
<1> QED
  BY <1>1 DEF RealmBounds

\* The pod goes on in its list of clients, leaves it, or raises.
LEMMA ListBounds ==
  ASSUME Inv, RealmBounds, NEW i \in Jobs, UNCHANGED <<realm, attempt, tries>>,
         user' \in {"absent", "created", "ready"},
         \/ Raise(i) /\ UNCHANGED idx
         \/ pc[i] \in Placed /\ NextClient(i)
         \/ /\ UNCHANGED idx
            /\ \E l \in Working \cup {"users", "createUser", "setPassword",
                                      "done", "deleted"} :
                    /\ pc' = [pc EXCEPT ![i] = l]
                    /\ l \in Working => pc[i] \in Placed
  PROVE  RealmBounds'
<1>1. /\ pc \in [Jobs -> Labels] /\ idx \in [Jobs -> Nat \ {0}]
      /\ Len(ClientOrder) \in Nat \ {0}
  BY ConstantsAssumption DEF Inv, RealmTypeOK
<1>2. \A j \in Jobs \ {i} : pc'[j] = pc[j] /\ idx'[j] = idx[j]
  BY <1>1 DEF Raise, NextClient, GoTo
<1>3. PodBound(i)'
  <2>1. CASE Raise(i) /\ UNCHANGED idx
    <3>1. pc'[i] = IF attempt[i] <= BackoffLimit THEN "backoff" ELSE "failed"
      BY <1>1, <2>1 DEF Raise
    <3> QED
      BY <3>1 DEF PodBound, Placed, Working, Granting
  <2>2. CASE pc[i] \in Placed /\ NextClient(i)
    <3>1. idx[i] \in 1 .. Len(ClientOrder)
      BY <2>2 DEF RealmBounds, PodBound
    <3>2. \/ pc'[i] = "list" /\ idx'[i] = idx[i] + 1 /\ idx[i] < Len(ClientOrder)
          \/ pc'[i] = "users"
      BY <1>1, <2>2 DEF NextClient, GoTo
    <3>3. pc'[i] \in Placed => idx'[i] \in 1 .. Len(ClientOrder)
      BY <1>1, <3>1, <3>2 DEF Placed, Working, Granting
    <3> QED
      BY <3>2, <3>3 DEF PodBound
  <2>3. ASSUME UNCHANGED idx,
               NEW l \in Working \cup {"users", "createUser", "setPassword",
                                       "done", "deleted"},
               pc' = [pc EXCEPT ![i] = l], l \in Working => pc[i] \in Placed
        PROVE  PodBound(i)'
    <3>1. pc'[i] = l /\ l \notin {"backoff", "tls", "token", "realm"}
      BY <1>1, <2>3 DEF Working, Granting
    <3>2. l \in Placed => idx[i] \in 1 .. Len(ClientOrder)
      BY <2>3 DEF RealmBounds, PodBound, Placed, Working, Granting
    <3> QED
      BY <2>3, <3>1, <3>2 DEF PodBound
  <2> QED
    BY <2>1, <2>2, <2>3
<1> QED
  BY <1>2, <1>3, PodBounds DEF RealmBounds

LEMMA WaitBounds ==
  ASSUME Inv, RealmBounds, NEW i \in Jobs, WaitForTls(i) \/ GetToken(i)
  PROVE  RealmBounds'
<1>1. /\ pc \in [Jobs -> Labels] /\ idx \in [Jobs -> Nat \ {0}]
      /\ tries \in [Jobs -> Int] /\ tries[i] \in Int
      /\ UNCHANGED <<realm, user, attempt>>
  BY DEF Inv, RealmTypeOK, RealmBounds, WaitForTls, GetToken, keycloak
<1>2. /\ \A j \in Jobs \ {i} : /\ pc'[j] = pc[j] /\ idx'[j] = idx[j]
                               /\ tries'[j] = tries[j]
      /\ tries' \in [Jobs -> Int]
  <2>1. CASE WaitForTls(i)
    BY <1>1, <2>1 DEF WaitForTls, GoTo, Raise
  <2>2. CASE GetToken(i)
    BY <1>1, <2>2 DEF GetToken, GoTo, Raise
  <2> QED
    BY <2>1, <2>2
<1>3. CASE Raise(i)
  BY <1>1, <1>2, <1>3, PodBounds
     DEF Raise, RealmBounds, PodBound, Placed, Working, Granting
<1>4. CASE WaitForTls(i) /\ ~Raise(i)
  <2>1. \/ pc'[i] = "token" /\ tries'[i] = 0
        \/ /\ pc'[i] = "tls" /\ tries'[i] = tries[i] + 1
           /\ tries[i] < TlsRetries /\ tries[i] \in 1 .. TlsRetries
    BY <1>1, <1>4 DEF WaitForTls, GoTo, RealmBounds, PodBound
  <2>2. PodBound(i)'
    BY <2>1, ConstantsAssumption DEF PodBound, Placed, Working, Granting
  <2> QED
    BY <1>1, <1>2, <2>2, PodBounds DEF RealmBounds
<1>5. CASE GetToken(i) /\ ~Raise(i)
  <2>1. \/ pc'[i] = "realm" /\ idx'[i] = 1
        \/ /\ pc'[i] = "token" /\ tries'[i] = tries[i] + 1
           /\ tries'[i] < TokenAttempts /\ tries[i] \in 0 .. TokenAttempts - 1
    BY <1>1, <1>5 DEF GetToken, GoTo, RealmBounds, PodBound
  <2>2. Len(RealmSteps) = 5
    BY DEF RealmSteps
  <2>3. PodBound(i)'
    BY <2>1, <2>2, ConstantsAssumption DEF PodBound, Placed, Working, Granting
  <2> QED
    BY <1>1, <1>2, <2>3, PodBounds DEF RealmBounds
<1> QED
  BY <1>3, <1>4, <1>5

LEMMA ConfigureRealmBounds ==
  ASSUME Inv, RealmBounds, NEW i \in Jobs, ConfigureRealm(i)
  PROVE  RealmBounds'
<1>1. /\ pc \in [Jobs -> Labels] /\ idx \in [Jobs -> Nat \ {0}]
      /\ pc[i] = "realm" /\ idx[i] \in 1 .. Len(RealmSteps)
      /\ UNCHANGED <<user, attempt, tries>>
      /\ Len(RealmSteps) = 5
  BY DEF Inv, RealmTypeOK, RealmBounds, PodBound, ConfigureRealm, RealmSteps
<1>2. realm' = realm \cup {RealmSteps[idx[i]]}
  BY DEF ConfigureRealm
<1>3. realm' \subseteq {RealmSteps[n] : n \in 1 .. Len(RealmSteps)}
  BY <1>1, <1>2 DEF RealmBounds
<1>4. \A j \in Jobs \ {i} : pc'[j] = pc[j] /\ idx'[j] = idx[j]
  BY <1>1 DEF ConfigureRealm, GoTo, Raise
<1>5. \/ pc'[i] = "realm" /\ idx'[i] = idx[i] + 1 /\ idx[i] < Len(RealmSteps)
      \/ pc'[i] = "list" /\ idx'[i] = 1
      \/ pc'[i] = "backoff" /\ attempt[i] <= BackoffLimit
      \/ pc'[i] = "failed"
  BY <1>1 DEF ConfigureRealm, GoTo, Raise
<1>6. PodBound(i)'
  BY <1>1, <1>5, ConstantsAssumption DEF PodBound, Placed, Working, Granting
<1> QED
  BY <1>1, <1>3, <1>4, <1>6, PodBounds DEF RealmBounds

LEMMA ClientStepsBounds ==
  ASSUME Inv, RealmBounds, NEW i \in Jobs, ClientStep(i)
  PROVE  RealmBounds'
<1>1. UNCHANGED <<realm, user, attempt, tries>> /\ pc[i] \in Placed
  <2>1. CASE ReadStep(i)
    BY <2>1, ReadStepMoves DEF keycloak, Placed, Working, Granting
  <2>2. CASE ~ReadStep(i)
    BY <2>2 DEF ClientStep, ListClients, DeleteClient, CreateClient,
       AssignClientRoles, AssignRealmRoles, keycloak, Placed, Working, Granting
  <2> QED
    BY <2>1, <2>2
<1>2. \/ Raise(i) /\ UNCHANGED idx
      \/ NextClient(i)
      \/ \E l \in Working : GoTo(i, l) /\ UNCHANGED idx
  <2>1. CASE ListClients(i)
    BY <2>1 DEF ListClients, Working
  <2>2. CASE ReadStep(i)
    BY <2>2, ReadStepMoves DEF Working, Granting
  <2>3. CASE DeleteClient(i) \/ CreateClient(i)
    BY <2>3 DEF DeleteClient, CreateClient, Working, Granting
  <2>4. CASE AssignClientRoles(i) \/ AssignRealmRoles(i)
    BY <2>4 DEF AssignClientRoles, AssignRealmRoles, Grant, Working, Granting
  <2> QED
    BY <2>1, <2>2, <2>3, <2>4 DEF ClientStep
<1> QED
  BY <1>1, <1>2, ListBounds DEF GoTo, RealmBounds

LEMMA UserStepsBounds ==
  ASSUME Inv, RealmBounds, NEW i \in Jobs,
         \/ ListUsers(i) \/ CreateUser(i) \/ SetPassword(i) \/ Crash(i)
         \/ HelmDeletesJob(i)
  PROVE  RealmBounds'
<1>1. /\ UNCHANGED <<realm, attempt, tries, idx>>
      /\ user' \in {"absent", "created", "ready"}
  BY DEF ListUsers, CreateUser, SetPassword, Crash, HelmDeletesJob, keycloak,
     RealmBounds
<1>2. \/ Raise(i)
      \/ \E l \in {"createUser", "setPassword", "done", "deleted"} :
            pc' = [pc EXCEPT ![i] = l]
  BY DEF ListUsers, CreateUser, SetPassword, Crash, HelmDeletesJob, GoTo
<1>3. {"createUser", "setPassword", "done", "deleted"} \cap Working = {}
  BY DEF Working, Granting
<1> QED
  BY <1>1, <1>2, <1>3, ListBounds

LEMMA PodStartsBounds ==
  ASSUME Inv, RealmBounds, NEW i \in Jobs,
         RestartPod(i) \/ \E d \in DOMAIN Deployments : StartJob(i, d)
  PROVE  RealmBounds'
<1>1. /\ UNCHANGED <<realm, user, idx>>
      /\ pc' = [pc EXCEPT ![i] = "tls"]
      /\ tries' = [tries EXCEPT ![i] = 1]
      /\ \E n \in 0 .. BackoffLimit + 1 : attempt' = [attempt EXCEPT ![i] = n]
  <2>1. CASE RestartPod(i)
    <3>1. attempt[i] \in 0 .. BackoffLimit + 1 /\ attempt[i] <= BackoffLimit
      BY <2>1 DEF RestartPod, RealmBounds, PodBound
    <3>2. attempt[i] + 1 \in 0 .. BackoffLimit + 1
      BY <3>1, ConstantsAssumption
    <3> QED
      BY <2>1, <3>2 DEF RestartPod, keycloak
  <2>2. CASE \E d \in DOMAIN Deployments : StartJob(i, d)
    <3>1. 1 \in 0 .. BackoffLimit + 1
      BY ConstantsAssumption
    <3> QED
      BY <2>2, <3>1 DEF StartJob, keycloak
  <2> QED
    BY <2>1, <2>2
<1>2. /\ attempt' \in [Jobs -> 0 .. BackoffLimit + 1]
      /\ tries' \in [Jobs -> Int]
      /\ pc'[i] = "tls" /\ tries'[i] = 1
      /\ \A j \in Jobs \ {i} : /\ pc'[j] = pc[j] /\ attempt'[j] = attempt[j]
                               /\ tries'[j] = tries[j]
  BY <1>1 DEF Inv, RealmTypeOK, RealmBounds
<1>3. PodBound(i)'
  BY <1>2, ConstantsAssumption DEF PodBound, Placed, Working, Granting
<1> QED
  BY <1>1, <1>2, <1>3, PodBounds DEF RealmBounds

LEMMA BoundsNext == Inv /\ RealmBounds /\ [Next]_vars => RealmBounds'
<1> SUFFICES ASSUME Inv, RealmBounds, [Next]_vars PROVE RealmBounds'
  OBVIOUS
<1>1. CASE KeycloakStarts \/ UNCHANGED vars
  BY <1>1 DEF KeycloakStarts, vars, keycloak, pods, RealmBounds, PodBound
<1>2. ASSUME NEW i \in Jobs, ScriptStep(i) PROVE RealmBounds'
  BY <1>2, WaitBounds, ConfigureRealmBounds, ClientStepsBounds, UserStepsBounds
     DEF ScriptStep, ClientStep, ReadStep
<1>3. ASSUME NEW i \in Jobs,
             \/ RestartPod(i) \/ Crash(i) \/ HelmDeletesJob(i)
             \/ \E d \in DOMAIN Deployments : StartJob(i, d)
      PROVE  RealmBounds'
  BY <1>3, PodStartsBounds, UserStepsBounds
<1> QED
  BY <1>1, <1>2, <1>3 DEF Next

\* The script never leaves the lists it goes through nor probes more often
\* than it means to, and no Job has more pods than its limit.
THEOREM TypeCorrect == Spec => []TypeOK
<1>1. Inv /\ RealmBounds => TypeOK
  <2> SUFFICES ASSUME Inv, RealmBounds PROVE TypeOK
    OBVIOUS
  <2>1. ASSUME NEW j \in Jobs
        PROVE  /\ Live(j) \/ Finished(j) \/ pc[j] = "new"
               /\ attempt[j] \in 0 .. BackoffLimit + 1
    BY DEF Inv, RealmTypeOK, RealmBounds, Labels, Live, Finished
  <2> QED
    BY <2>1 DEF TypeOK, RealmBounds, PodBound, Placed, Working, Granting
<1> QED
  BY <1>1, InitInv, NextInv, InitBounds, BoundsNext, PTL DEF Spec
-----------------------------------------------------------------------------
(* Clients survive.  A pod has served the client at position n when it is  *)
(* past it, or when it has created it or found it in place; a revision     *)
(* owes a client it asks for and has not served, now or (after a failure)  *)
(* for good.  Whoever takes a client away owes it.                         *)

Positions == 1 .. Len(ClientOrder)
Serving == {"secret", "roles", "realmRoles"} \cup Granting

Served(j, n) ==
    \/ pc[j] \in {"users", "createUser", "setPassword", "done"}
    \/ pc[j] \in Placed /\ n < idx[j]
    \/ pc[j] \in Serving /\ n = idx[j]
AskedAt(j, n) ==
    cfg[j] # None /\ Deployments[cfg[j]].clients[ClientOrder[n]] # None
Owes(j, n) == pc[j] # "new" /\ AskedAt(j, n) /\ ~Served(j, n)

SomeoneOwes(c) == \E k \in Jobs, m \in Positions : ClientOrder[m] = c /\ Owes(k, m)

PutBack == \A j \in Jobs, n \in Positions :
    Served(j, n) /\ AskedAt(j, n) /\ kc[ClientOrder[n]] = None
        => SomeoneOwes(ClientOrder[n])

Typed == \A c \in Clients : kc[c] # None => kc[c] \in Entries

\* One pod takes a step: it serves nothing that is missing, and owes what it
\* takes away.
LEMMA PutBackStep ==
  ASSUME Inv, PutBack, NEW i \in Jobs, pc[i] # "new", pc'[i] # "new", cfg' = cfg,
         \A j \in Jobs \ {i} : pc'[j] = pc[j] /\ idx'[j] = idx[j],
         \A n \in Positions :
            Served(i, n)' /\ AskedAt(i, n) /\ kc'[ClientOrder[n]] = None
                => Served(i, n),
         \A c \in Clients : kc'[c] = None =>
            kc[c] = None \/ \E m \in Positions : ClientOrder[m] = c /\ Owes(i, m)'
  PROVE  PutBack'
<1> SUFFICES ASSUME NEW j \in Jobs, NEW n \in Positions, Served(j, n)',
                    AskedAt(j, n)', kc'[ClientOrder[n]] = None
             PROVE  \E k \in Jobs, m \in Positions :
                        ClientOrder[m] = ClientOrder[n] /\ Owes(k, m)'
  BY DEF PutBack, SomeoneOwes, Owes, AskedAt, Served
<1>1. ClientOrder[n] \in Clients
  BY DEF Positions, Clients
<1>2. CASE \E m \in Positions : ClientOrder[m] = ClientOrder[n] /\ Owes(i, m)'
  BY <1>2
<1>3. CASE kc[ClientOrder[n]] = None
  <2>1. Served(j, n) /\ AskedAt(j, n)
    <3>1. AskedAt(j, n) /\ kc'[ClientOrder[n]] = None
      BY DEF AskedAt
    <3>2. CASE j = i
      BY <3>1, <3>2 DEF Served, AskedAt
    <3>3. CASE j # i
      BY <3>1, <3>3 DEF Served
    <3> QED
      BY <3>1, <3>2, <3>3
  <2>2. PICK k \in Jobs, m \in Positions :
                ClientOrder[m] = ClientOrder[n] /\ Owes(k, m)
    BY <1>3, <2>1 DEF PutBack, SomeoneOwes
  <2>3. Owes(k, m)'
    <3>1. CASE k = i
      BY <2>2, <3>1 DEF Owes, AskedAt
    <3>2. CASE k # i
      BY <2>2, <3>2 DEF Owes, AskedAt, Served
    <3> QED
      BY <3>1, <3>2
  <2> QED
    BY <2>2, <2>3
<1> QED
  BY <1>1, <1>2, <1>3

\* A pod moves and changes no client.
LEMMA PutBackMove ==
  ASSUME Inv, PutBack, NEW i \in Jobs, pc[i] # "new", pc'[i] # "new",
         UNCHANGED <<cfg, kc>>,
         \A j \in Jobs \ {i} : pc'[j] = pc[j] /\ idx'[j] = idx[j],
         \A n \in Positions :
            Served(i, n)' /\ AskedAt(i, n) /\ kc[ClientOrder[n]] = None
                => Served(i, n)
  PROVE  PutBack'
BY PutBackStep

LEMMA RaisePutBack ==
  ASSUME Inv, PutBack, NEW i \in Jobs, pc[i] # "new", Raise(i),
         UNCHANGED <<cfg, kc, idx>>
  PROVE  PutBack'
<1>1. /\ pc'[i] \in {"backoff", "failed"}
      /\ \A j \in Jobs \ {i} : pc'[j] = pc[j]
  BY DEF Raise, Inv, RealmTypeOK
<1>2. \A n \in Positions : ~Served(i, n)'
  BY <1>1 DEF Served, Serving, Placed, Working, Granting
<1> QED
  BY <1>1, <1>2, PutBackMove

\* What NextClient adds to what the pod has served is the client it was at.
LEMMA NextClientServes ==
  ASSUME Inv, RealmBounds, NEW i \in Jobs, pc[i] \in Placed, NextClient(i),
         NEW n \in Positions, Served(i, n)'
  PROVE  Served(i, n) \/ n = idx[i]
<1>1. /\ pc \in [Jobs -> Labels] /\ idx \in [Jobs -> Nat \ {0}]
      /\ idx[i] \in 1 .. Len(ClientOrder) /\ Len(ClientOrder) \in Nat
  BY ConstantsAssumption DEF Inv, RealmTypeOK, RealmBounds, PodBound
<1>2. CASE idx[i] < Len(ClientOrder)
  <2>1. pc'[i] = "list" /\ idx'[i] = idx[i] + 1
    BY <1>1, <1>2 DEF NextClient, GoTo
  <2>2. n < idx[i] + 1
    BY <2>1 DEF Served, Serving, Granting
  <2> QED
    BY <1>1, <2>2 DEF Served, Serving, Granting, Positions
<1>3. CASE ~(idx[i] < Len(ClientOrder))
  BY <1>1, <1>3 DEF Served, Serving, Granting, Positions
<1> QED
  BY <1>2, <1>3

\* The list goes on: the client was served already, is not asked for, or is
\* in Keycloak.
LEMMA NextClientPutBack ==
  ASSUME Inv, RealmBounds, PutBack, NEW i \in Jobs, pc[i] \in Placed,
         NextClient(i), cfg' = cfg,
         \A c \in Clients : kc'[c] = None => kc[c] = None,
         Served(i, idx[i]) \/ Wanted(i) = None \/ kc'[Client(i)] # None
  PROVE  PutBack'
<1>1. /\ pc[i] # "new" /\ pc'[i] # "new"
      /\ \A j \in Jobs \ {i} : pc'[j] = pc[j] /\ idx'[j] = idx[j]
  BY DEF NextClient, GoTo, Inv, RealmTypeOK, Placed, Working, Granting
<1>2. ASSUME NEW n \in Positions, Served(i, n)', AskedAt(i, n),
             kc'[ClientOrder[n]] = None
      PROVE  Served(i, n)
  BY <1>2, NextClientServes DEF AskedAt, Wanted, Client
<1> QED
  BY <1>1, <1>2, PutBackStep

\* A pod stays at its client.
LEMMA StayPutBack ==
  ASSUME Inv, PutBack, NEW i \in Jobs, pc[i] \in Placed,
         NEW l \in Working, GoTo(i, l), UNCHANGED <<cfg, kc, idx>>,
         \/ l \in {"delete", "create"}
         \/ kc[Client(i)] # None
         \/ Served(i, idx[i])
  PROVE  PutBack'
<1>1. /\ pc[i] # "new" /\ pc'[i] = l /\ l # "new"
      /\ \A j \in Jobs \ {i} : pc'[j] = pc[j]
  BY DEF GoTo, Inv, RealmTypeOK, Placed, Working, Granting
<1>2. ASSUME NEW n \in Positions, Served(i, n)', kc[ClientOrder[n]] = None
      PROVE  Served(i, n)
  <2>1. n < idx[i] \/ (n = idx[i] /\ l \in Serving)
    BY <1>1, <1>2 DEF Served, Serving, Working, Granting
  <2> QED
    BY <1>2, <2>1 DEF Served, Serving, Granting, Client
<1> QED
  BY <1>1, <1>2, PutBackMove

LEMMA ListClientsPutBack ==
  ASSUME Inv, RealmBounds, PutBack, NEW i \in Jobs, ListClients(i)
  PROVE  PutBack'
<1>1. /\ pc[i] = "list" /\ pc[i] # "new" /\ pc[i] \in Placed
      /\ UNCHANGED <<cfg, kc>>
      /\ {"create", "secret"} \subseteq Working
  BY DEF ListClients, keycloak, Placed, Working
<1>2. CASE Wanted(i) = None /\ NextClient(i)
  BY <1>1, <1>2, NextClientPutBack
<1>3. CASE Raise(i) /\ UNCHANGED idx
  BY <1>1, <1>3, RaisePutBack
<1>4. CASE GoTo(i, "create") /\ UNCHANGED idx
  BY <1>1, <1>4, StayPutBack
<1>5. CASE kc[Client(i)] # None /\ GoTo(i, "secret") /\ UNCHANGED idx
  BY <1>1, <1>5, StayPutBack
<1> QED
  BY <1>2, <1>3, <1>4, <1>5 DEF ListClients

LEMMA ReadStepPutBack ==
  ASSUME Inv, RealmBounds, PutBack, NEW i \in Jobs, ReadStep(i)
  PROVE  PutBack'
<1>1. pc[i] \in {"secret", "roles", "realmRoles", "account"} /\ UNCHANGED <<cfg, kc>>
  BY ReadStepMoves DEF keycloak
<1>2. pc[i] # "new" /\ pc[i] \in Placed /\ Served(i, idx[i])
  BY <1>1 DEF Placed, Working, Granting, Served, Serving
<1>3. CASE Raise(i) /\ UNCHANGED idx
  BY <1>1, <1>2, <1>3, RaisePutBack
<1>4. CASE NextClient(i)
  BY <1>1, <1>2, <1>4, NextClientPutBack
<1>5. ASSUME NEW l \in Working, GoTo(i, l), UNCHANGED idx
      PROVE  PutBack'
  BY <1>1, <1>2, <1>5, StayPutBack
<1> QED
  BY <1>3, <1>4, <1>5, ReadStepMoves DEF Working, Granting

\* The client that goes is owed by the pod that takes it away.
LEMMA DeleteClientPutBack ==
  ASSUME Inv, RealmBounds, PutBack, NEW i \in Jobs, DeleteClient(i)
  PROVE  PutBack'
<1>1. /\ pc[i] = "delete" /\ pc[i] # "new" /\ UNCHANGED <<cfg, idx>>
      /\ pc \in [Jobs -> Labels] /\ idx[i] \in Positions
      /\ cfg[i] # None /\ Wanted(i) # None
  BY DEF DeleteClient, Inv, RealmTypeOK, Configured, RealmBounds, PodBound,
     Placed, Working, Positions
<1>2. CASE StillThere(i)
  <2>1. /\ pc'[i] = "create"
        /\ \A j \in Jobs \ {i} : pc'[j] = pc[j]
        /\ kc' = [kc EXCEPT ![Client(i)] = None]
    BY <1>1, <1>2 DEF DeleteClient, GoTo
  <2>2. Owes(i, idx[i])' /\ ClientOrder[idx[i]] = Client(i)
    BY <1>1, <2>1 DEF Owes, AskedAt, Served, Serving, Wanted, Client, Placed, Working,
       Granting, Positions
  <2>3. \A n \in Positions : Served(i, n)' => Served(i, n)
    BY <1>1, <2>1 DEF Served, Serving, Placed, Working, Granting
  <2>4. \A c \in Clients : kc'[c] = None => kc[c] = None \/ c = Client(i)
    BY <2>1 DEF Inv, RealmTypeOK
  <2>5. \A c \in Clients : kc'[c] = None =>
            kc[c] = None \/ \E m \in Positions : ClientOrder[m] = c /\ Owes(i, m)'
    BY <1>1, <2>2, <2>4 DEF Owes, AskedAt, Served
  <2> QED
    BY <1>1, <2>1, <2>3, <2>5, PutBackStep
<1>3. CASE ~StillThere(i)
  BY <1>1, <1>3, RaisePutBack DEF DeleteClient
<1> QED
  BY <1>2, <1>3

LEMMA CreateClientPutBack ==
  ASSUME Inv, RealmBounds, PutBack, Typed, NEW i \in Jobs, CreateClient(i)
  PROVE  PutBack' /\ Typed'
<1>1. /\ pc[i] = "create" /\ pc[i] # "new" /\ pc[i] \in Placed /\ cfg' = cfg
      /\ pc \in [Jobs -> Labels] /\ Client(i) \in Clients
      /\ cfg[i] \in DOMAIN Deployments /\ nextId \in Int
      /\ kc = [c \in Clients |-> kc[c]]
  BY DEF CreateClient, Inv, RealmTypeOK, Configured, Placed, Working
<1>2. CASE kc[Client(i)] # None
  BY <1>1, <1>2, RaisePutBack DEF CreateClient, Typed
<1>3. CASE kc[Client(i)] = None
  <2> DEFINE r == IF Credentials(Wanted(i)) THEN DefaultRealmRoles ELSE {}
             e == [stored |-> Kept[cfg[i]][Client(i)], id |-> nextId,
                   roles |-> {}, realmRoles |-> r]
  <2>1. kc' = [kc EXCEPT ![Client(i)] = e]
    BY <1>3 DEF CreateClient
  <2>2. e \in Entries
    <3>1. r \in SUBSET AllRoles /\ {} \in SUBSET AllRoles
      BY DEF AllRoles
    <3>2. Kept[cfg[i]][Client(i)] \in
            {Kept[d][c] : d \in DOMAIN Deployments, c \in Clients}
      BY <1>1
    <3> QED
      BY <1>1, <3>1, <3>2 DEF Entries
  <2> HIDE DEF e
  <2>3. /\ kc'[Client(i)] = e /\ e # None
        /\ \A c \in Clients \ {Client(i)} : kc'[c] = kc[c]
    BY <1>1, <2>1, <2>2, EntryAssumption
  <2>4. Typed'
    BY <2>2, <2>3 DEF Typed
  <2>5. \A c \in Clients : kc'[c] = None => kc[c] = None
    BY <1>3, <2>3
  <2>6. CASE NextClient(i)
    BY <1>1, <2>3, <2>4, <2>5, <2>6, NextClientPutBack
  <2>7. CASE GoTo(i, "account") /\ UNCHANGED idx
    <3>1. pc'[i] = "account" /\ \A j \in Jobs \ {i} : pc'[j] = pc[j]
      BY <1>1, <2>7 DEF GoTo
    <3>2. ASSUME NEW n \in Positions, Served(i, n)', kc'[ClientOrder[n]] = None
          PROVE  Served(i, n)
      BY <1>1, <2>3, <2>7, <3>1, <3>2 DEF Served, Serving, Granting, Client
    <3> QED
      BY <1>1, <2>4, <2>5, <2>7, <3>1, <3>2, PutBackStep
  <2> QED
    BY <1>3, <2>6, <2>7 DEF CreateClient
<1> QED
  BY <1>2, <1>3

\* Granting roles leaves a client a client.
LEMMA GrantTyped ==
  ASSUME Inv, Typed, NEW i \in Jobs, StillThere(i), Client(i) \in Clients,
         NEW g \in SUBSET AllRoles,
         \/ kc' = [kc EXCEPT ![Client(i)].roles = @ \cup g]
         \/ kc' = [kc EXCEPT ![Client(i)].realmRoles = @ \cup g]
  PROVE  /\ Typed'
         /\ \A c \in Clients : kc'[c] = None => kc[c] = None
<1> DEFINE x == kc[Client(i)]
<1>1. kc = [c \in Clients |-> kc[c]] /\ x \in Entries /\ IsEntry(x)
  BY DEF Inv, RealmTypeOK, Typed, StillThere
<1>2. \E e : /\ kc' = [kc EXCEPT ![Client(i)] = e]
             /\ e \in {[x EXCEPT !.roles = @ \cup g],
                       [x EXCEPT !.realmRoles = @ \cup g]}
  BY <1>1
<1>3. PICK e : /\ kc' = [kc EXCEPT ![Client(i)] = e]
               /\ e \in {[x EXCEPT !.roles = @ \cup g],
                         [x EXCEPT !.realmRoles = @ \cup g]}
  BY <1>2
<1>4. /\ x.roles \cup g \in SUBSET AllRoles
      /\ x.realmRoles \cup g \in SUBSET AllRoles
  BY <1>1 DEF Entries
<1>5. e \in Entries
  BY <1>1, <1>3, <1>4, GrantedEntry DEF Entries
<1>6. kc'[Client(i)] = e /\ \A c \in Clients \ {Client(i)} : kc'[c] = kc[c]
  BY <1>1, <1>3
<1> QED
  BY <1>5, <1>6, EntryAssumption DEF Typed

LEMMA AssignPutBack ==
  ASSUME Inv, RealmBounds, PutBack, Typed, NEW i \in Jobs,
         AssignClientRoles(i) \/ AssignRealmRoles(i)
  PROVE  PutBack' /\ Typed'
<1>1. /\ pc[i] \in {"assign", "assignRealm"} /\ pc[i] # "new" /\ pc[i] \in Placed
      /\ cfg' = cfg /\ Client(i) \in Clients /\ Served(i, idx[i])
  BY DEF AssignClientRoles, AssignRealmRoles, Inv, Configured, Placed, Working,
     Granting, Served, Serving
<1>2. CASE Raise(i) /\ UNCHANGED <<kc, idx>>
  BY <1>1, <1>2, RaisePutBack DEF Typed
<1>3. /\ Typed'
      /\ \A c \in Clients : kc'[c] = None => kc[c] = None
  <2>1. CASE UNCHANGED kc
    BY <2>1 DEF Typed
  <2>2. CASE AssignClientRoles(i) /\ ~UNCHANGED kc
    <3>1. /\ StillThere(i)
          /\ kc' = [kc EXCEPT ![Client(i)]["roles"] = @ \cup
                        (Wanted(i).service_account_roles \cap ManagementRoles)]
      BY <2>2 DEF AssignClientRoles, Grant
    <3>2. Wanted(i).service_account_roles \cap ManagementRoles \in SUBSET AllRoles
      BY DEF AllRoles
    <3> QED
      BY <1>1, <3>1, <3>2, GrantTyped
  <2>3. CASE AssignRealmRoles(i) /\ ~UNCHANGED kc
    <3> DEFINE g == Wanted(i).service_account_realm_roles \cap
                        (DefaultRealmRoles \cup (realm \cap RealmRoles))
    <3>1. /\ StillThere(i)
          /\ kc' = [kc EXCEPT ![Client(i)].realmRoles = @ \cup g]
      BY <2>3 DEF AssignRealmRoles
    <3>2. g \in SUBSET AllRoles
      BY DEF AllRoles
    <3> QED
      BY <1>1, <3>1, <3>2, GrantTyped
  <2> QED
    BY <2>1, <2>2, <2>3
<1>4. CASE NextClient(i)
  BY <1>1, <1>3, <1>4, NextClientPutBack
<1>5. CASE GoTo(i, "assignRealm") /\ UNCHANGED idx
  <2>1. /\ pc'[i] = "assignRealm" /\ pc'[i] # "new"
        /\ \A j \in Jobs \ {i} : pc'[j] = pc[j]
    BY <1>5 DEF GoTo, Inv, RealmTypeOK
  <2>2. \A n \in Positions : Served(i, n)' => Served(i, n)
    BY <1>1, <1>5, <2>1 DEF Served, Serving, Placed, Working, Granting
  <2> QED
    BY <1>1, <1>3, <1>5, <2>1, <2>2, PutBackStep
<1> QED
  BY <1>2, <1>4, <1>5 DEF AssignClientRoles, AssignRealmRoles, Grant

\* Steps before the clients, behind them, and of the Job controller.
LEMMA OtherStepsPutBack ==
  ASSUME Inv, RealmBounds, PutBack, NEW i \in Jobs,
         \/ WaitForTls(i) \/ GetToken(i) \/ ConfigureRealm(i)
         \/ ListUsers(i) \/ CreateUser(i) \/ SetPassword(i)
         \/ RestartPod(i) \/ Crash(i) \/ HelmDeletesJob(i)
  PROVE  PutBack'
<1>1. pc[i] # "new" /\ UNCHANGED <<cfg, kc>> /\ pc \in [Jobs -> Labels]
  BY DEF WaitForTls, GetToken, ConfigureRealm, ListUsers, CreateUser, SetPassword,
     RestartPod, Crash, HelmDeletesJob, Live, Script, keycloak, Inv, RealmTypeOK
<1>2. /\ \A j \in Jobs \ {i} : pc'[j] = pc[j] /\ idx'[j] = idx[j]
      /\ \/ pc'[i] \in {"backoff", "failed", "tls", "token", "realm", "deleted"}
         \/ pc'[i] = "list" /\ idx'[i] = 1
         \/ /\ pc[i] \in {"users", "createUser", "setPassword"}
            /\ pc'[i] \in {"createUser", "setPassword", "done"}
  <2>1. idx \in [Jobs -> Nat \ {0}]
    BY DEF Inv, RealmTypeOK
  <2>2. CASE WaitForTls(i) \/ GetToken(i)
    BY <1>1, <2>1, <2>2 DEF WaitForTls, GetToken, GoTo, Raise
  <2>3. CASE ConfigureRealm(i)
    BY <1>1, <2>1, <2>3 DEF ConfigureRealm, GoTo, Raise
  <2>4. CASE ListUsers(i) \/ CreateUser(i) \/ SetPassword(i)
    BY <1>1, <2>1, <2>4 DEF ListUsers, CreateUser, SetPassword, GoTo, Raise
  <2>5. CASE RestartPod(i) \/ Crash(i) \/ HelmDeletesJob(i)
    BY <1>1, <2>1, <2>5 DEF RestartPod, Crash, HelmDeletesJob, Raise
  <2> QED
    BY <2>2, <2>3, <2>4, <2>5
<1>3. pc'[i] # "new"
  BY <1>2
<1>4. \A n \in Positions : Served(i, n)' => Served(i, n)
  BY <1>2 DEF Served, Serving, Positions, Placed, Working, Granting
<1> QED
  BY <1>1, <1>2, <1>3, <1>4, PutBackMove

LEMMA StartJobPutBack ==
  ASSUME Inv, PutBack, NEW i \in Jobs, NEW d \in DOMAIN Deployments, StartJob(i, d)
  PROVE  PutBack'
<1>1. /\ pc[i] = "new" /\ pc'[i] = "tls"
      /\ \A j \in Jobs \ {i} : pc'[j] = pc[j] /\ cfg'[j] = cfg[j]
      /\ UNCHANGED <<kc, idx>>
  BY DEF StartJob, keycloak, Inv, RealmTypeOK
<1> SUFFICES ASSUME NEW j \in Jobs, NEW n \in Positions, Served(j, n)',
                    AskedAt(j, n)', kc[ClientOrder[n]] = None
             PROVE  \E k \in Jobs, m \in Positions :
                        ClientOrder[m] = ClientOrder[n] /\ Owes(k, m)'
  BY <1>1 DEF PutBack, SomeoneOwes, Owes, AskedAt, Served
<1>2. j # i
  BY <1>1 DEF Served, Serving, Placed, Working, Granting
<1>3. Served(j, n) /\ AskedAt(j, n)
  BY <1>1, <1>2 DEF Served, AskedAt
<1>4. PICK k \in Jobs, m \in Positions :
            ClientOrder[m] = ClientOrder[n] /\ Owes(k, m)
  BY <1>3 DEF PutBack, SomeoneOwes
<1>5. k # i
  BY <1>1, <1>4 DEF Owes
<1> QED
  BY <1>1, <1>4, <1>5 DEF Owes, AskedAt, Served

LEMMA PutBackNext ==
  Inv /\ RealmBounds /\ PutBack /\ Typed /\ [Next]_vars => PutBack' /\ Typed'
<1> SUFFICES ASSUME Inv, RealmBounds, PutBack, Typed, [Next]_vars
             PROVE  PutBack' /\ Typed'
  OBVIOUS
<1>1. CASE UNCHANGED <<kc, pc, cfg, idx>>
  BY <1>1 DEF PutBack, SomeoneOwes, Owes, AskedAt, Served, Typed
<1>2. CASE KeycloakStarts \/ UNCHANGED vars
  BY <1>1, <1>2 DEF KeycloakStarts, vars, keycloak, pods
<1>3. ASSUME NEW i \in Jobs, NEW d \in DOMAIN Deployments, StartJob(i, d)
      PROVE  PutBack' /\ Typed'
  BY <1>3, StartJobPutBack DEF StartJob, keycloak, Typed
<1>4. ASSUME NEW i \in Jobs,
             \/ WaitForTls(i) \/ GetToken(i) \/ ConfigureRealm(i)
             \/ ListUsers(i) \/ CreateUser(i) \/ SetPassword(i)
             \/ RestartPod(i) \/ Crash(i) \/ HelmDeletesJob(i)
      PROVE  PutBack' /\ Typed'
  <2>1. kc' = kc
    BY <1>4 DEF WaitForTls, GetToken, ConfigureRealm, ListUsers, CreateUser,
       SetPassword, RestartPod, Crash, HelmDeletesJob, keycloak
  <2> QED
    BY <1>4, <2>1, OtherStepsPutBack DEF Typed
<1>5. ASSUME NEW i \in Jobs, ListClients(i) \/ ReadStep(i) \/ DeleteClient(i)
      PROVE  PutBack' /\ Typed'
  <2>1. \A c \in Clients : kc'[c] = kc[c] \/ kc'[c] = None
    <3>1. CASE ReadStep(i)
      BY <3>1, ReadStepMoves DEF keycloak
    <3>2. CASE ListClients(i) \/ DeleteClient(i)
      BY <3>2 DEF ListClients, DeleteClient, keycloak, Inv, RealmTypeOK
    <3> QED
      BY <1>5, <3>1, <3>2
  <2> QED
    BY <1>5, <2>1, ListClientsPutBack, ReadStepPutBack, DeleteClientPutBack
       DEF Typed
<1>6. ASSUME NEW i \in Jobs,
             CreateClient(i) \/ AssignClientRoles(i) \/ AssignRealmRoles(i)
      PROVE  PutBack' /\ Typed'
  BY <1>6, CreateClientPutBack, AssignPutBack
<1> QED
  BY <1>2, <1>3, <1>4, <1>5, <1>6 DEF Next, ScriptStep, ReadStep

LatestIsJob == latest \in Jobs \cup {None}

LEMMA LatestNext == LatestIsJob /\ [Next]_vars => LatestIsJob'
<1> SUFFICES ASSUME LatestIsJob, [Next]_vars, latest' # latest
             PROVE  latest' \in Jobs
  BY DEF LatestIsJob
<1>1. ~UNCHANGED vars
  BY DEF vars
<1>2. ASSUME NEW i \in Jobs, ScriptStep(i) PROVE FALSE
  <2>1. ~ReadStep(i)
    BY ReadStepMoves
  <2> QED
    BY <1>2, <2>1 DEF ScriptStep, ReadStep, WaitForTls, GetToken, ConfigureRealm,
       ListClients, DeleteClient, CreateClient, AssignClientRoles,
       AssignRealmRoles, ListUsers, CreateUser, SetPassword
<1> QED
  BY <1>1, <1>2 DEF Next, KeycloakStarts, StartJob, RestartPod, Crash, HelmDeletesJob

\* When the newest revision's Job has succeeded, and so has every other one,
\* no client that it asked for is missing, although Jobs that overlap delete
\* and recreate clients between each other's steps.
THEOREM ClientsSurvive == Spec => []ClientsSurviveOverlap
<1>1. Init => PutBack /\ Typed /\ LatestIsJob
  BY DEF Init, PutBack, AskedAt, Typed, LatestIsJob
<1>2. Inv /\ PutBack /\ LatestIsJob => ClientsSurviveOverlap
  <2> SUFFICES ASSUME Inv, PutBack, LatestIsJob, NEW c \in Clients,
                      latest # None, pc[latest] = "done",
                      Asked(latest)[c] # None,
                      \A j \in Jobs : pc[j] \in {"new", "done"}
               PROVE  kc[c] # None
    BY DEF ClientsSurviveOverlap
  <2>1. PICK n \in Positions : ClientOrder[n] = c
    BY DEF Clients, Positions
  <2>2. Served(latest, n) /\ latest \in Jobs
    BY DEF Served, LatestIsJob
  <2>3. ~SomeoneOwes(c)
    BY DEF SomeoneOwes, Owes, Served
  <2> QED
    BY <2>1, <2>2, <2>3 DEF PutBack, AskedAt, Asked, Inv, Configured
<1> QED
  BY <1>1, <1>2, InitInv, NextInv, InitBounds, BoundsNext, PutBackNext,
     LatestNext, PTL DEF Spec

-----------------------------------------------------------------------------
(* Jobs in sequence.  What a pod has read is still so when it acts on it,  *)
(* because no other pod is at work; and what it has read of a client says  *)
(* what it means to, because the comparison is exact.                      *)

Asks(d, c) == Deployments[d].clients[c]
Usable(d, c) == Asks(d, c) # None /\ Valid(Asks(d, c))

Alone == \A i, j \in Jobs : Live(i) /\ Live(j) => i = j

\* What is stored of a client was sent by some revision; a service account
\* never loses the roles Keycloak has given it.
FromValues ==
    \A c \in Clients : kc[c] # None =>
        \E d \in DOMAIN Deployments :
            /\ Usable(d, c) /\ kc[c].stored = Kept[d][c]
            /\ Credentials(Asks(d, c)) => DefaultRealmRoles \subseteq kc[c].realmRoles

\* The client a pod works on has the data its revision wants.
SameData(j) == SameClient(kc[Client(j)].stored, Kept[cfg[j]][Client(j)])

\* What pod j knows of its client: how it differs, that it must go, or that it is gone.
Judged(j) ==
    /\ pc[j] \in Working => Usable(cfg[j], Client(j))
    /\ pc[j] \in {"roles", "realmRoles"} \cup Granting => Credentials(Wanted(j))
    /\ pc[j] \in {"secret", "roles", "realmRoles"} => StillThere(j)
    /\ pc[j] = "roles" => (changed[j] <=> ~SameData(j))
    /\ pc[j] = "realmRoles" => (changed[j] <=> ~(SameData(j) /\ ~RolesDiffer(j)))
    /\ pc[j] = "delete" => ~Matches(Client(j), cfg[j])
    /\ pc[j] = "create" => kc[Client(j)] = None

JudgeInv == Alone /\ FromValues /\ \A j \in Jobs : Judged(j)

ChangedTyped == changed = [j \in Jobs |-> changed[j]]

LEMMA AloneMove ==
  ASSUME Inv, Alone, NEW i \in Jobs, Live(i),
         \A j \in Jobs \ {i} : pc'[j] = pc[j]
  PROVE  /\ Alone'
         /\ \A j \in Jobs \ {i} : ~Live(j) /\ ~Live(j)'
BY DEF Alone, Live

\* The step of the pod at work: only what it knows itself can change.
LEMMA JudgeMove ==
  ASSUME Inv, JudgeInv, NEW i \in Jobs, Live(i),
         \A j \in Jobs \ {i} : pc'[j] = pc[j],
         FromValues', Judged(i)'
  PROVE  JudgeInv'
<1>1. Alone' /\ \A j \in Jobs \ {i} : ~Live(j)'
  BY AloneMove DEF JudgeInv
<1>2. ASSUME NEW j \in Jobs \ {i}
      PROVE  Judged(j)'
  BY <1>1 DEF Judged, Live, Script, Working, Granting
<1> QED
  BY <1>1, <1>2 DEF JudgeInv

\* A pod that works on no client knows nothing of one.
LEMMA JudgeRest ==
  ASSUME Inv, JudgeInv, NEW i \in Jobs, Live(i), kc' = kc,
         \A j \in Jobs \ {i} : pc'[j] = pc[j], pc'[i] \notin Working
  PROVE  JudgeInv'
<1>1. FromValues'
  BY DEF JudgeInv, FromValues
<1>2. Judged(i)'
  BY DEF Judged, Working
<1> QED
  BY <1>1, <1>2, JudgeMove

LEMMA RaiseMove ==
  ASSUME Inv, NEW i \in Jobs, Raise(i)
  PROVE  /\ pc'[i] \in {"backoff", "failed"}
         /\ \A j \in Jobs \ {i} : pc'[j] = pc[j]
BY DEF Raise, Inv, RealmTypeOK

LEMMA GoMove ==
  ASSUME Inv, NEW i \in Jobs, NEW l, GoTo(i, l)
  PROVE  /\ pc'[i] = l
         /\ \A j \in Jobs \ {i} : pc'[j] = pc[j]
BY DEF GoTo, Inv, RealmTypeOK

LEMMA NextClientMove ==
  ASSUME Inv, NEW i \in Jobs, NextClient(i)
  PROVE  /\ pc'[i] \in {"list", "users"}
         /\ \A j \in Jobs \ {i} : pc'[j] = pc[j]
BY NextClientPc DEF Inv, RealmTypeOK

LEMMA JudgeRaise ==
  ASSUME Inv, JudgeInv, NEW i \in Jobs, Live(i), Raise(i), kc' = kc
  PROVE  JudgeInv'
BY RaiseMove, JudgeRest DEF Working, Granting

LEMMA JudgeNextClient ==
  ASSUME Inv, JudgeInv, NEW i \in Jobs, Live(i), NextClient(i), kc' = kc
  PROVE  JudgeInv'
BY NextClientMove, JudgeRest DEF Working, Granting

LEMMA JudgeDecide ==
  ASSUME Inv, JudgeInv, NEW i \in Jobs, Live(i), NEW differs,
         Decide(i, differs), UNCHANGED <<kc, cfg>>,
         Usable(cfg[i], Client(i)),
         differs => ~Matches(Client(i), cfg[i])
  PROVE  JudgeInv'
<1>1. CASE NextClient(i)
  BY <1>1, JudgeNextClient
<1>2. CASE differs /\ GoTo(i, "delete") /\ UNCHANGED idx
  <2>1. pc'[i] = "delete" /\ \A j \in Jobs \ {i} : pc'[j] = pc[j]
    BY <1>2, GoMove
  <2>2. FromValues'
    BY DEF JudgeInv, FromValues
  <2>3. Judged(i)'
    BY <1>2, <2>1 DEF Judged, Granting, Usable, Asks, Client, Matches
  <2> QED
    BY <2>1, <2>2, <2>3, JudgeMove
<1> QED
  BY <1>1, <1>2 DEF Decide

\* The comparison decides whether the client is the one the revision wants.
LEMMA JudgedRightly ==
  ASSUME ComparableValues, FromValues, NEW c \in Clients, kc[c] # None,
         NEW d \in DOMAIN Deployments, Usable(d, c)
  PROVE  CheckExisting(Fetched(c), Sent[d][c])
            <=> ~SameClient(kc[c].stored, Kept[d][c])
<1>1. PICK e \in DOMAIN Deployments : Usable(e, c) /\ kc[c].stored = Kept[e][c]
  BY DEF FromValues
<1> DEFINE w == Asks(e, c)
           v == Asks(d, c)
           f == kc[c].stored
<1>2. Comparable(w) /\ Comparable(v) /\ w.kind = v.kind
  BY <1>1 DEF ComparableValues, Usable, Asks
<1>3. /\ f = Stored(ToDict(w))
      /\ Kept[d][c] = Stored(ToDict(v)) /\ Sent[d][c] = ToDict(v)
  BY <1>1 DEF Kept, Sent, Usable, Asks
<1>4. Fetched(c) = Existing(Listed(f), SecretOf(f))
  BY DEF Fetched, SecretOf
<1> HIDE DEF w, v, f
<1>5. CheckExisting(Existing(Listed(f), SecretOf(f)), ToDict(v))
        <=> ~SameClient(f, Stored(ToDict(v)))
  BY <1>2, <1>3, ComparisonIsExact
<1> QED
  BY <1>3, <1>4, <1>5 DEF f

LEMMA ListClientsJudges ==
  ASSUME Inv, JudgeInv, NEW i \in Jobs, ListClients(i)
  PROVE  JudgeInv'
<1>1. /\ pc[i] = "list" /\ Live(i) /\ Client(i) \in Clients
      /\ UNCHANGED <<kc, cfg>> /\ cfg[i] \in DOMAIN Deployments
  BY DEF ListClients, keycloak, Live, Script, Inv, Configured, RealmTypeOK, Placed
<1>2. CASE NextClient(i)
  BY <1>1, <1>2, JudgeNextClient
<1>3. CASE Raise(i)
  BY <1>1, <1>3, JudgeRaise
<1>4. FromValues'
  BY <1>1 DEF JudgeInv, FromValues
<1>5. ASSUME Wanted(i) # None, Valid(Wanted(i))
      PROVE  Usable(cfg[i], Client(i))
  BY <1>5 DEF Usable, Asks, Wanted
<1>6. CASE /\ Wanted(i) # None /\ Valid(Wanted(i)) /\ kc[Client(i)] = None
           /\ GoTo(i, "create") /\ UNCHANGED idx
  <2>1. pc'[i] = "create" /\ \A j \in Jobs \ {i} : pc'[j] = pc[j]
    BY <1>6, GoMove
  <2>2. Judged(i)'
    BY <1>1, <1>5, <1>6, <2>1 DEF Judged, Granting, Usable, Asks, Client
  <2> QED
    BY <1>1, <1>4, <2>1, <2>2, JudgeMove
<1>7. CASE /\ Wanted(i) # None /\ Valid(Wanted(i)) /\ kc[Client(i)] # None
           /\ seen' = [seen EXCEPT ![i] = kc[Client(i)].id]
           /\ GoTo(i, "secret") /\ UNCHANGED idx
  <2>1. pc'[i] = "secret" /\ \A j \in Jobs \ {i} : pc'[j] = pc[j]
    BY <1>7, GoMove
  <2>2. seen'[i] = kc[Client(i)].id
    BY <1>7 DEF Inv, RealmTypeOK
  <2>3. StillThere(i)' /\ Usable(cfg'[i], Client(i)')
    BY <1>1, <1>5, <1>7, <2>2 DEF StillThere, Client
  <2>4. Judged(i)'
    BY <2>1, <2>3 DEF Judged, Granting
  <2> QED
    BY <1>1, <1>4, <2>1, <2>4, JudgeMove
<1> QED
  BY <1>1, <1>2, <1>3, <1>6, <1>7 DEF ListClients

\* What GetSecret finds out of the client that is still there.
LEMMA SecretTells ==
  ASSUME ComparableValues, Inv, ChangedTyped, JudgeInv, NEW i \in Jobs, GetSecret(i)
  PROVE  /\ pc[i] = "secret" /\ Live(i) /\ StillThere(i) /\ UNCHANGED <<kc, cfg, seen>>
         /\ Client(i) \in Clients /\ Usable(cfg[i], Client(i))
         /\ changed'[i] <=> ~SameData(i)
         /\ IF Credentials(Wanted(i)) THEN GoTo(i, "roles") /\ UNCHANGED idx
                                      ELSE Decide(i, changed'[i])
<1>1. /\ pc[i] = "secret" /\ Live(i) /\ UNCHANGED <<kc, cfg, seen>>
      /\ Client(i) \in Clients /\ cfg[i] \in DOMAIN Deployments
  BY DEF GetSecret, keycloak, Live, Script, Inv, Configured, RealmTypeOK, Placed,
     Working
<1>2. StillThere(i) /\ Usable(cfg[i], Client(i))
  BY <1>1 DEF JudgeInv, Judged, Working
<1> DEFINE judged == CheckExisting(Fetched(Client(i)), Sent[cfg[i]][Client(i)])
<1>3. /\ changed' = [changed EXCEPT ![i] = judged]
      /\ IF Credentials(Wanted(i)) THEN GoTo(i, "roles") /\ UNCHANGED idx
                                   ELSE Decide(i, changed'[i])
  BY <1>2 DEF GetSecret
<1>4. changed'[i] = judged
  BY <1>3 DEF ChangedTyped
<1>5. judged <=> ~SameData(i)
  BY <1>1, <1>2, JudgedRightly DEF JudgeInv, SameData, StillThere
<1> QED
  BY <1>1, <1>2, <1>3, <1>4, <1>5

LEMMA GetSecretJudges ==
  ASSUME ComparableValues, Inv, ChangedTyped, JudgeInv, NEW i \in Jobs, GetSecret(i)
  PROVE  JudgeInv'
<1>1. /\ Live(i) /\ StillThere(i) /\ UNCHANGED <<kc, cfg, seen>>
      /\ Client(i) \in Clients /\ Usable(cfg[i], Client(i))
      /\ changed'[i] <=> ~SameData(i)
  BY SecretTells
<1>2. CASE Credentials(Wanted(i)) /\ GoTo(i, "roles") /\ UNCHANGED idx
  <2>1. pc'[i] = "roles" /\ \A j \in Jobs \ {i} : pc'[j] = pc[j]
    BY <1>2, GoMove
  <2>2. /\ Client(i)' = Client(i) /\ Wanted(i)' = Wanted(i)
        /\ SameData(i)' <=> SameData(i)
        /\ StillThere(i)' <=> StillThere(i)
    BY <1>1, <1>2 DEF Client, Wanted, SameData, StillThere
  <2>3. Usable(cfg'[i], Client(i)')
    BY <1>1, <2>2
  <2>4. Judged(i)'
    BY <1>1, <1>2, <2>1, <2>2, <2>3 DEF Judged
  <2>5. FromValues'
    BY <1>1 DEF JudgeInv, FromValues
  <2> QED
    BY <1>1, <2>1, <2>4, <2>5, JudgeMove
<1>3. CASE Decide(i, changed'[i])
  BY <1>1, <1>3, JudgeDecide DEF Matches, SameData
<1> QED
  BY <1>2, <1>3, SecretTells

LEMMA ReadRolesJudges ==
  ASSUME Inv, ChangedTyped, JudgeInv, NEW i \in Jobs, ReadRoles(i)
  PROVE  JudgeInv'
<1>1. /\ pc[i] = "roles" /\ Live(i) /\ UNCHANGED <<kc, cfg, idx, seen>>
      /\ GoTo(i, "realmRoles")
      /\ changed' = [changed EXCEPT ![i] = changed[i] \/ RolesDiffer(i)]
  BY DEF ReadRoles, keycloak, Live, Script
<1>2. /\ Usable(cfg[i], Client(i)) /\ StillThere(i) /\ Credentials(Wanted(i))
      /\ changed[i] <=> ~SameData(i)
  BY <1>1 DEF JudgeInv, Judged, Working
<1>3. changed'[i] <=> ~(SameData(i) /\ ~RolesDiffer(i))
  BY <1>1, <1>2 DEF ChangedTyped
<1>4. /\ Client(i)' = Client(i) /\ Wanted(i)' = Wanted(i)
      /\ SameData(i)' <=> SameData(i)
      /\ StillThere(i)' <=> StillThere(i)
      /\ RolesDiffer(i)' <=> RolesDiffer(i)
  BY <1>1 DEF Client, Wanted, SameData, StillThere, RolesDiffer, GrantedRoles
<1>5. pc'[i] = "realmRoles" /\ \A j \in Jobs \ {i} : pc'[j] = pc[j]
  BY <1>1, GoMove
<1>6. Usable(cfg'[i], Client(i)')
  BY <1>1, <1>2, <1>4
<1>7. Judged(i)'
  BY <1>2, <1>3, <1>4, <1>5, <1>6 DEF Judged
<1>8. FromValues'
  BY <1>1 DEF JudgeInv, FromValues
<1> QED
  BY <1>1, <1>5, <1>7, <1>8, JudgeMove

LEMMA ReadRealmRolesJudges ==
  ASSUME Inv, JudgeInv, NEW i \in Jobs, ReadRealmRoles(i)
  PROVE  JudgeInv'
<1>1. /\ pc[i] = "realmRoles" /\ Live(i) /\ UNCHANGED <<kc, cfg>>
      /\ Decide(i, changed[i] \/ RealmRolesDiffer(i))
  BY DEF ReadRealmRoles, keycloak, Live, Script
<1>2. /\ Usable(cfg[i], Client(i)) /\ StillThere(i) /\ Credentials(Wanted(i))
      /\ changed[i] <=> ~(SameData(i) /\ ~RolesDiffer(i))
  BY <1>1 DEF JudgeInv, Judged, Working
<1>3. changed[i] \/ RealmRolesDiffer(i) => ~Matches(Client(i), cfg[i])
  BY <1>2 DEF Matches, Wanted, SameData, RolesDiffer, GrantedRoles,
     RealmRolesDiffer, GrantedRealmRoles
<1> QED
  BY <1>1, <1>2, <1>3, JudgeDecide

LEMMA GetServiceAccountJudges ==
  ASSUME Inv, JudgeInv, NEW i \in Jobs, GetServiceAccount(i)
  PROVE  JudgeInv'
<1>1. pc[i] = "account" /\ Live(i) /\ UNCHANGED <<kc, cfg, idx>>
  BY DEF GetServiceAccount, keycloak, Live, Script
<1>2. CASE GoTo(i, "assign")
  <2>1. Usable(cfg[i], Client(i)) /\ Credentials(Wanted(i))
    BY <1>1 DEF JudgeInv, Judged, Working, Granting
  <2>2. pc'[i] = "assign" /\ \A j \in Jobs \ {i} : pc'[j] = pc[j]
    BY <1>2, GoMove
  <2>3. Judged(i)'
    BY <1>1, <2>1, <2>2 DEF Judged, Client, Wanted, Usable, Asks
  <2>4. FromValues'
    BY <1>1 DEF JudgeInv, FromValues
  <2> QED
    BY <1>1, <2>2, <2>3, <2>4, JudgeMove
<1>3. CASE Raise(i)
  BY <1>1, <1>3, JudgeRaise
<1> QED
  BY <1>2, <1>3 DEF GetServiceAccount

LEMMA DeleteClientJudges ==
  ASSUME Inv, JudgeInv, NEW i \in Jobs, DeleteClient(i)
  PROVE  JudgeInv'
<1>1. /\ pc[i] = "delete" /\ Live(i) /\ UNCHANGED <<cfg, idx>>
      /\ Client(i) \in Clients /\ Usable(cfg[i], Client(i))
  BY DEF DeleteClient, Live, Script, Inv, Configured, Placed, Working, JudgeInv,
     Judged
<1>2. CASE StillThere(i)
  <2>1. /\ kc' = [kc EXCEPT ![Client(i)] = None] /\ GoTo(i, "create")
    BY <1>2 DEF DeleteClient
  <2>2. pc'[i] = "create" /\ \A j \in Jobs \ {i} : pc'[j] = pc[j]
    BY <2>1, GoMove
  <2>3. kc'[Client(i)] = None /\ \A c \in Clients : kc'[c] = kc[c] \/ kc'[c] = None
    BY <1>1, <2>1 DEF Inv, RealmTypeOK
  <2>4. FromValues'
    BY <2>3 DEF JudgeInv, FromValues
  <2>5. Judged(i)'
    BY <1>1, <2>2, <2>3 DEF Judged, Granting, Client, Usable, Asks
  <2> QED
    BY <1>1, <2>2, <2>4, <2>5, JudgeMove
<1>3. CASE ~StillThere(i)
  BY <1>1, <1>3, JudgeRaise DEF DeleteClient
<1> QED
  BY <1>2, <1>3

LEMMA CreateClientJudges ==
  ASSUME Inv, JudgeInv, NEW i \in Jobs, CreateClient(i)
  PROVE  JudgeInv'
<1>1. /\ pc[i] = "create" /\ Live(i) /\ cfg' = cfg /\ Client(i) \in Clients
      /\ Usable(cfg[i], Client(i)) /\ cfg[i] \in DOMAIN Deployments
  BY DEF CreateClient, Live, Script, Inv, RealmTypeOK, Configured, Placed, Working,
     JudgeInv, Judged
<1>2. CASE kc[Client(i)] # None
  BY <1>1, <1>2, JudgeRaise DEF CreateClient
<1>3. CASE kc[Client(i)] = None
  <2> DEFINE e == [stored |-> Kept[cfg[i]][Client(i)], id |-> nextId,
                   roles |-> {},
                   realmRoles |-> IF Credentials(Wanted(i))
                                  THEN DefaultRealmRoles ELSE {}]
  <2>1. kc' = [kc EXCEPT ![Client(i)] = e]
    BY <1>3 DEF CreateClient
  <2>2. /\ e.stored = Kept[cfg[i]][Client(i)]
        /\ Credentials(Wanted(i)) => e.realmRoles = DefaultRealmRoles
    OBVIOUS
  <2> HIDE DEF e
  <2>3. FromValues'
    <3> SUFFICES ASSUME NEW c \in Clients, kc'[c] # None
                 PROVE  \E d \in DOMAIN Deployments :
                            /\ Usable(d, c) /\ kc'[c].stored = Kept[d][c]
                            /\ Credentials(Asks(d, c)) =>
                                    DefaultRealmRoles \subseteq kc'[c].realmRoles
      BY DEF FromValues, Usable, Asks, Credentials
    <3>1. CASE c = Client(i)
      <4>1. kc'[c] = e
        BY <1>1, <2>1, <3>1 DEF Inv, RealmTypeOK
      <4>2. Credentials(Asks(cfg[i], c)) => DefaultRealmRoles \subseteq e.realmRoles
        BY <2>2, <3>1 DEF Asks, Wanted
      <4> QED
        BY <1>1, <2>2, <3>1, <4>1, <4>2
    <3>2. CASE c # Client(i)
      <4>1. kc'[c] = kc[c]
        BY <2>1, <3>2 DEF Inv, RealmTypeOK
      <4> QED
        BY <4>1 DEF JudgeInv, FromValues
    <3> QED
      BY <3>1, <3>2
  <2>4. CASE NextClient(i)
    <3>1. pc'[i] \in {"list", "users"} /\ \A j \in Jobs \ {i} : pc'[j] = pc[j]
      BY <2>4, NextClientMove
    <3>2. Judged(i)'
      BY <3>1 DEF Judged, Working, Granting
    <3> QED
      BY <1>1, <2>3, <3>1, <3>2, JudgeMove
  <2>5. CASE Credentials(Wanted(i)) /\ GoTo(i, "account") /\ UNCHANGED idx
    <3>1. pc'[i] = "account" /\ \A j \in Jobs \ {i} : pc'[j] = pc[j]
      BY <2>5, GoMove
    <3>2. Judged(i)'
      BY <1>1, <1>3, <2>5, <3>1 DEF CreateClient, Judged, Client, Wanted, Usable,
         Asks, Granting
    <3> QED
      BY <1>1, <2>3, <3>1, <3>2, JudgeMove
  <2> QED
    BY <1>3, <2>4, <2>5 DEF CreateClient
<1> QED
  BY <1>2, <1>3

\* What a pod makes of the client it grants roles to.
WithRoles(x, g, h) == [stored |-> x.stored, id |-> x.id, roles |-> x.roles \cup g,
                       realmRoles |-> x.realmRoles \cup h]

LEMMA AssignClientEffect ==
  ASSUME Inv, NEW i \in Jobs, AssignClientRoles(i), StillThere(i)
  PROVE  /\ GoTo(i, "assignRealm")
         /\ kc' = [kc EXCEPT ![Client(i)] = WithRoles(kc[Client(i)],
                        Wanted(i).service_account_roles \cap ManagementRoles, {})]
<1> DEFINE x == kc[Client(i)]
           g == Wanted(i).service_account_roles \cap ManagementRoles
<1>1. /\ Client(i) \in Clients /\ IsEntry(x) /\ kc = [c \in Clients |-> kc[c]]
      /\ GoTo(i, "assignRealm")
  BY DEF AssignClientRoles, Grant, Inv, RealmTypeOK, Configured, Placed, Working,
     Granting, StillThere
<1>2. CASE Wanted(i).service_account_roles = {}
  <2>1. g = {} /\ kc' = kc
    BY <1>2 DEF AssignClientRoles
  <2>2. WithRoles(x, {}, {}) = x
    BY <1>1 DEF IsEntry, WithRoles
  <2>3. [kc EXCEPT ![Client(i)] = x] = kc
    BY <1>1
  <2> QED
    BY <1>1, <2>1, <2>2, <2>3
<1>3. CASE Wanted(i).service_account_roles # {}
  <2>1. kc' = [kc EXCEPT ![Client(i)]["roles"] = @ \cup g]
    BY <1>3 DEF AssignClientRoles, Grant
  <2>2. kc' = [kc EXCEPT ![Client(i)] = [x EXCEPT !.roles = @ \cup g]]
    BY <1>1, <2>1
  <2>3. [x EXCEPT !.roles = @ \cup g] = WithRoles(x, g, {})
    BY <1>1, GrantedEntry DEF WithRoles
  <2> QED
    BY <1>1, <2>2, <2>3
<1> QED
  BY <1>2, <1>3

LEMMA AssignRealmEffect ==
  ASSUME Inv, NEW i \in Jobs, AssignRealmRoles(i), StillThere(i)
  PROVE  /\ NextClient(i)
         /\ kc' = [kc EXCEPT ![Client(i)] = WithRoles(kc[Client(i)], {},
                        Wanted(i).service_account_realm_roles \cap
                            (DefaultRealmRoles \cup (realm \cap RealmRoles)))]
<1> DEFINE x == kc[Client(i)]
           g == Wanted(i).service_account_realm_roles \cap
                    (DefaultRealmRoles \cup (realm \cap RealmRoles))
<1>1. /\ Client(i) \in Clients /\ IsEntry(x) /\ kc = [c \in Clients |-> kc[c]]
      /\ NextClient(i)
  BY DEF AssignRealmRoles, Inv, RealmTypeOK, Configured, Placed, Working,
     Granting, StillThere
<1>2. CASE Wanted(i).service_account_realm_roles = {}
  <2>1. g = {} /\ kc' = kc
    BY <1>2 DEF AssignRealmRoles
  <2>2. WithRoles(x, {}, {}) = x
    BY <1>1 DEF IsEntry, WithRoles
  <2>3. [kc EXCEPT ![Client(i)] = x] = kc
    BY <1>1
  <2> QED
    BY <1>1, <2>1, <2>2, <2>3
<1>3. CASE Wanted(i).service_account_realm_roles # {}
  <2>1. kc' = [kc EXCEPT ![Client(i)].realmRoles = @ \cup g]
    BY <1>3 DEF AssignRealmRoles
  <2>2. kc' = [kc EXCEPT ![Client(i)] = [x EXCEPT !.realmRoles = @ \cup g]]
    BY <1>1, <2>1
  <2>3. [x EXCEPT !.realmRoles = @ \cup g] = WithRoles(x, {}, g)
    <3> HIDE DEF x, g
    <3>1. [x EXCEPT !.realmRoles = @ \cup g] =
              [stored |-> x.stored, id |-> x.id, roles |-> x.roles,
               realmRoles |-> x.realmRoles \cup g]
      BY <1>1, GrantedEntry
    <3>2. x.roles \cup {} = x.roles
      OBVIOUS
    <3> QED
      BY <3>1, <3>2 DEF WithRoles
  <2> QED
    BY <1>1, <2>2, <2>3
<1> QED
  BY <1>2, <1>3

\* A pod that finds its client gone grants nothing.
LEMMA AssignNothing ==
  ASSUME NEW i \in Jobs, AssignClientRoles(i) \/ AssignRealmRoles(i), ~StillThere(i)
  PROVE  /\ UNCHANGED kc
         /\ \/ Raise(i) \/ NextClient(i)
            \/ GoTo(i, "assignRealm") /\ UNCHANGED idx
BY DEF AssignClientRoles, AssignRealmRoles, Grant

LEMMA AssignJudges ==
  ASSUME Inv, JudgeInv, NEW i \in Jobs, AssignClientRoles(i) \/ AssignRealmRoles(i)
  PROVE  JudgeInv'
<1>1. /\ Live(i) /\ cfg' = cfg /\ Client(i) \in Clients
      /\ Usable(cfg[i], Client(i)) /\ Credentials(Wanted(i))
      /\ AssignClientRoles(i) => UNCHANGED idx
  BY DEF AssignClientRoles, AssignRealmRoles, Live, Script, Inv, Configured,
     Placed, Working, Granting, JudgeInv, Judged
<1>2. /\ \A c \in Clients : kc'[c] = kc[c] \/
            /\ kc[c] # None /\ kc'[c].stored = kc[c].stored
            /\ kc[c].realmRoles \subseteq kc'[c].realmRoles
      /\ \/ Raise(i) /\ UNCHANGED kc
         \/ NextClient(i)
         \/ GoTo(i, "assignRealm") /\ UNCHANGED idx
  <2>1. CASE ~StillThere(i)
    BY <2>1, AssignNothing
  <2>2. CASE StillThere(i)
    <3>1. PICK g, h : kc' = [kc EXCEPT ![Client(i)] = WithRoles(kc[Client(i)], g, h)]
      BY <2>2, AssignClientEffect, AssignRealmEffect
    <3> DEFINE e == WithRoles(kc[Client(i)], g, h)
    <3>2. /\ e.stored = kc[Client(i)].stored
          /\ kc[Client(i)].realmRoles \subseteq e.realmRoles
      BY DEF WithRoles
    <3>3. kc' = [kc EXCEPT ![Client(i)] = e]
      BY <3>1
    <3> HIDE DEF e
    <3>4. \A c \in Clients : kc'[c] = kc[c] \/
            /\ kc[c] # None /\ kc'[c].stored = kc[c].stored
            /\ kc[c].realmRoles \subseteq kc'[c].realmRoles
      BY <1>1, <2>2, <3>2, <3>3 DEF Inv, RealmTypeOK, StillThere
    <3> QED
      BY <1>1, <2>2, <3>4, AssignClientEffect, AssignRealmEffect
  <2> QED
    BY <2>1, <2>2
<1>3. FromValues'
  <2> SUFFICES ASSUME NEW c \in Clients, kc'[c] # None
               PROVE  \E d \in DOMAIN Deployments :
                            /\ Usable(d, c) /\ kc'[c].stored = Kept[d][c]
                            /\ Credentials(Asks(d, c)) =>
                                    DefaultRealmRoles \subseteq kc'[c].realmRoles
    BY DEF FromValues, Usable, Asks, Credentials
  <2>1. kc[c] # None /\ kc'[c].stored = kc[c].stored
        /\ kc[c].realmRoles \subseteq kc'[c].realmRoles
    BY <1>2
  <2>2. PICK d \in DOMAIN Deployments :
                /\ Usable(d, c) /\ kc[c].stored = Kept[d][c]
                /\ Credentials(Asks(d, c)) =>
                        DefaultRealmRoles \subseteq kc[c].realmRoles
    BY <2>1 DEF JudgeInv, FromValues
  <2>3. Credentials(Asks(d, c)) => DefaultRealmRoles \subseteq kc'[c].realmRoles
    BY <2>1, <2>2
  <2> QED
    BY <2>1, <2>2, <2>3
<1>4. CASE Raise(i) /\ UNCHANGED kc
  BY <1>1, <1>4, JudgeRaise
<1>5. CASE NextClient(i)
  <2>1. pc'[i] \in {"list", "users"} /\ \A j \in Jobs \ {i} : pc'[j] = pc[j]
    BY <1>5, NextClientMove
  <2>2. Judged(i)'
    BY <2>1 DEF Judged, Working, Granting
  <2> QED
    BY <1>1, <1>3, <2>1, <2>2, JudgeMove
<1>6. CASE GoTo(i, "assignRealm") /\ UNCHANGED idx
  <2>1. pc'[i] = "assignRealm" /\ \A j \in Jobs \ {i} : pc'[j] = pc[j]
    BY <1>6, GoMove
  <2>2. Judged(i)'
    BY <1>1, <1>6, <2>1 DEF Judged, Client, Wanted, Usable, Asks
  <2> QED
    BY <1>1, <1>3, <2>1, <2>2, JudgeMove
<1> QED
  BY <1>2, <1>4, <1>5, <1>6

\* Where a pod goes in its other steps, none of which changes a client.
LEMMA OtherStepsMove ==
  ASSUME Inv, NEW i \in Jobs,
         \/ WaitForTls(i) \/ GetToken(i) \/ ConfigureRealm(i)
         \/ ListUsers(i) \/ CreateUser(i) \/ SetPassword(i)
         \/ RestartPod(i) \/ Crash(i) \/ HelmDeletesJob(i)
  PROVE  /\ Live(i) /\ UNCHANGED <<kc, cfg, changed>>
         /\ \A j \in Jobs \ {i} : pc'[j] = pc[j]
         /\ \/ pc'[i] \in {"backoff", "failed", "tls", "token", "realm", "deleted"}
            \/ pc'[i] = "list" /\ ConfigureRealm(i)
            \/ pc'[i] = "createUser" /\ pc[i] = "users"
            \/ pc'[i] = "setPassword" /\ pc[i] = "createUser"
            \/ pc'[i] = "done" /\ pc[i] \in {"users", "setPassword"}
<1>1. pc \in [Jobs -> Labels]
  BY DEF Inv, RealmTypeOK
<1>2. CASE WaitForTls(i) \/ GetToken(i)
  BY <1>1, <1>2 DEF WaitForTls, GetToken, GoTo, Raise, Live, Script, keycloak
<1>3. CASE ConfigureRealm(i)
  BY <1>1, <1>3 DEF ConfigureRealm, GoTo, Raise, Live, Script
<1>4. CASE ListUsers(i) \/ CreateUser(i) \/ SetPassword(i)
  BY <1>1, <1>4 DEF ListUsers, CreateUser, SetPassword, GoTo, Raise, Live, Script,
     keycloak
<1>5. CASE RestartPod(i) \/ Crash(i) \/ HelmDeletesJob(i)
  BY <1>1, <1>5 DEF RestartPod, Crash, HelmDeletesJob, Raise, Live, Script, keycloak
<1> QED
  BY <1>2, <1>3, <1>4, <1>5

LEMMA OtherStepsJudge ==
  ASSUME Inv, JudgeInv, NEW i \in Jobs,
         \/ WaitForTls(i) \/ GetToken(i) \/ ConfigureRealm(i)
         \/ ListUsers(i) \/ CreateUser(i) \/ SetPassword(i)
         \/ RestartPod(i) \/ Crash(i) \/ HelmDeletesJob(i)
  PROVE  JudgeInv'
BY OtherStepsMove, JudgeRest DEF Working, Granting

\* A Job starts when no other one is at work.
LEMMA StartJobJudges ==
  ASSUME ~Overlap, Inv, JudgeInv, NEW i \in Jobs, NEW d \in DOMAIN Deployments,
         StartJob(i, d)
  PROVE  JudgeInv'
<1>1. /\ pc'[i] = "tls" /\ UNCHANGED kc
      /\ \A j \in Jobs \ {i} : ~Live(j) /\ pc'[j] = pc[j]
  BY DEF StartJob, keycloak, Inv, RealmTypeOK
<1>2. Alone'
  BY <1>1 DEF Alone, Live
<1>3. FromValues'
  BY <1>1 DEF JudgeInv, FromValues
<1>4. \A j \in Jobs : pc'[j] \notin Working
  BY <1>1 DEF Live, Script, Working, Granting
<1>5. \A j \in Jobs : Judged(j)'
  BY <1>4 DEF Judged, Working
<1> QED
  BY <1>2, <1>3, <1>5 DEF JudgeInv

LEMMA ChangedNext == ChangedTyped /\ [Next]_vars => ChangedTyped'
<1> SUFFICES ASSUME ChangedTyped, [Next]_vars PROVE ChangedTyped'
  OBVIOUS
<1>1. CASE UNCHANGED changed
  BY <1>1 DEF ChangedTyped
<1>2. ASSUME NEW i \in Jobs, GetSecret(i) \/ ReadRoles(i), ~UNCHANGED changed
      PROVE  ChangedTyped'
  <2>1. PICK b : changed' = [changed EXCEPT ![i] = b]
    BY <1>2 DEF GetSecret, ReadRoles
  <2> QED
    BY <2>1 DEF ChangedTyped
<1>3. ASSUME NEW i \in Jobs, ScriptStep(i), ~GetSecret(i), ~ReadRoles(i)
      PROVE  UNCHANGED changed
  BY <1>3 DEF ScriptStep, WaitForTls, GetToken, ConfigureRealm, ListClients,
     ReadRealmRoles, GetServiceAccount, DeleteClient, CreateClient,
     AssignClientRoles, AssignRealmRoles, ListUsers, CreateUser, SetPassword
<1> QED
  BY <1>1, <1>2, <1>3 DEF Next, KeycloakStarts, StartJob, RestartPod, Crash,
     HelmDeletesJob, vars, pods

LEMMA JudgeNext ==
  ~Overlap /\ ComparableValues =>
     (Inv /\ ChangedTyped /\ JudgeInv /\ [Next]_vars => JudgeInv')
<1> SUFFICES ASSUME ~Overlap, ComparableValues, Inv, ChangedTyped, JudgeInv,
                    [Next]_vars
             PROVE  JudgeInv'
  OBVIOUS
<1>1. CASE UNCHANGED <<kc, pods>>
  BY <1>1 DEF pods, JudgeInv, Alone, Live, FromValues, Judged, StillThere, Client,
     Wanted, Matches, Usable, Asks, Credentials, SameData, RolesDiffer, GrantedRoles
<1>2. CASE KeycloakStarts \/ UNCHANGED vars
  BY <1>1, <1>2 DEF KeycloakStarts, vars, keycloak
<1>3. ASSUME NEW i \in Jobs, NEW d \in DOMAIN Deployments, StartJob(i, d)
      PROVE  JudgeInv'
  BY <1>3, StartJobJudges
<1>4. ASSUME NEW i \in Jobs,
             ScriptStep(i) \/ RestartPod(i) \/ Crash(i) \/ HelmDeletesJob(i)
      PROVE  JudgeInv'
  BY <1>4, OtherStepsJudge, ListClientsJudges, GetSecretJudges, ReadRolesJudges,
     ReadRealmRolesJudges, GetServiceAccountJudges, DeleteClientJudges, CreateClientJudges, AssignJudges DEF ScriptStep
<1> QED
  BY <1>2, <1>3, <1>4 DEF Next

PodStep(i) == ScriptStep(i) \/ RestartPod(i) \/ Crash(i) \/ HelmDeletesJob(i)

\* The pod at work leaves a client alone that is as its revision wants it.
LEMMA MatchStays ==
  ASSUME Inv, JudgeInv, NEW i \in Jobs, PodStep(i),
         NEW c \in Clients, Matches(c, cfg[i])
  PROVE  kc'[c] = kc[c]
<1>1. CASE DeleteClient(i)
  <2>1. ~Matches(Client(i), cfg[i])
    BY <1>1 DEF DeleteClient, JudgeInv, Judged
  <2> QED
    BY <1>1, <2>1 DEF DeleteClient, Inv, RealmTypeOK
<1>2. CASE CreateClient(i)
  <2>1. kc[c] # None
    BY DEF Matches
  <2>2. kc = [d \in Clients |-> kc[d]]
    BY DEF Inv, RealmTypeOK
  <2>3. CASE kc[Client(i)] = None
    <3>1. PICK e : kc' = [kc EXCEPT ![Client(i)] = e]
      BY <1>2, <2>3 DEF CreateClient
    <3> QED
      BY <2>1, <2>2, <2>3, <3>1
  <2>4. CASE kc[Client(i)] # None
    BY <1>2, <2>4 DEF CreateClient
  <2> QED
    BY <2>3, <2>4
<1>3. CASE AssignClientRoles(i) \/ AssignRealmRoles(i)
  <2>1. CASE ~StillThere(i)
    BY <1>3, <2>1, AssignNothing
  <2>2. CASE StillThere(i)
    <3> DEFINE x == kc[Client(i)]
               w == Wanted(i)
    <3>1. /\ Client(i) \in Clients /\ IsEntry(x) /\ kc = [d \in Clients |-> kc[d]]
          /\ Credentials(w)
      BY <1>3, <2>2 DEF AssignClientRoles, AssignRealmRoles, Inv, RealmTypeOK,
         Configured, Placed, Working, Granting, StillThere, JudgeInv, Judged
    <3>2. PICK g, h : /\ kc' = [kc EXCEPT ![Client(i)] = WithRoles(x, g, h)]
                      /\ g \subseteq w.service_account_roles
                      /\ h \subseteq w.service_account_realm_roles
      <4> DEFINE a == w.service_account_roles \cap ManagementRoles
                 b == w.service_account_realm_roles \cap
                        (DefaultRealmRoles \cup (realm \cap RealmRoles))
      <4>1. /\ a \subseteq w.service_account_roles
            /\ {} \subseteq w.service_account_roles
            /\ b \subseteq w.service_account_realm_roles
            /\ {} \subseteq w.service_account_realm_roles
        OBVIOUS
      <4>2. \/ kc' = [kc EXCEPT ![Client(i)] = WithRoles(x, a, {})]
            \/ kc' = [kc EXCEPT ![Client(i)] = WithRoles(x, {}, b)]
        BY <1>3, <2>2, AssignClientEffect, AssignRealmEffect
      <4> HIDE DEF a, b, x, w
      <4> QED
        BY <4>1, <4>2
    <3>3. CASE c = Client(i)
      <4>1. /\ x.roles = w.service_account_roles
            /\ x.realmRoles = w.service_account_realm_roles
        BY <3>1, <3>3 DEF Matches, Wanted
      <4>2. x.roles \cup g = x.roles /\ x.realmRoles \cup h = x.realmRoles
        BY <3>2, <4>1
      <4>3. WithRoles(x, g, h) = x
        BY <3>1, <4>2 DEF WithRoles, IsEntry
      <4> QED
        BY <3>1, <3>2, <3>3, <4>3
    <3>4. CASE c # Client(i)
      BY <3>1, <3>2, <3>4
    <3> QED
      BY <3>3, <3>4
  <2> QED
    BY <2>1, <2>2
<1>4. CASE ListClients(i) \/ ReadStep(i)
  BY <1>4, ReadStepMoves DEF ListClients, keycloak
<1> QED
  BY <1>1, <1>2, <1>3, <1>4, OtherStepsMove DEF PodStep, ScriptStep, ReadStep

LEMMA InitJudges == Init => ChangedTyped /\ JudgeInv
BY DEF Init, ChangedTyped, JudgeInv, Alone, Live, Script, FromValues, Judged,
       Working, Granting

LEMMA PodIsLive ==
  ASSUME NEW i \in Jobs, PodStep(i)
  PROVE  Live(i) /\ cfg' = cfg
<1>1. CASE ReadStep(i)
  BY <1>1, ReadStepMoves DEF Live, Script
<1>2. CASE ~ReadStep(i)
  BY <1>2 DEF PodStep, ScriptStep, ReadStep, Live, Script, RestartPod, Crash,
     HelmDeletesJob, WaitForTls, GetToken, ConfigureRealm, ListClients,
     DeleteClient, CreateClient, AssignClientRoles, AssignRealmRoles,
     ListUsers, CreateUser, SetPassword
<1> QED
  BY <1>1, <1>2

\* With Jobs in sequence and values the comparison can judge, no Job ever
\* touches a client that is as its revision wants it: the comparison finds no
\* difference in what Keycloak made of the same values, and nobody changes the
\* client between the comparison and what follows from it.
THEOREM MatchingUntouched ==
  ~Overlap /\ ComparableValues => (Spec => MatchingClientUntouched)
<1> SUFFICES ASSUME ~Overlap, ComparableValues PROVE Spec => MatchingClientUntouched
  OBVIOUS
<1> DEFINE J == Inv /\ ChangedTyped /\ JudgeInv
           A == \A j \in Jobs, c \in Clients :
                    \/ kc'[c] = kc[c]
                    \/ ~Live(j) \/ Asked(j)[c] = None
                    \/ ~Matches(c, cfg[j])
<1>1. Init => J
  BY InitInv, InitJudges
<1>2. J /\ [Next]_vars => J'
  BY NextInv, ChangedNext, JudgeNext
<1>3. J /\ [Next]_vars => A
  <2> SUFFICES ASSUME J, [Next]_vars, NEW j \in Jobs, NEW c \in Clients,
                      Live(j), Matches(c, cfg[j])
               PROVE  kc'[c] = kc[c]
    OBVIOUS
  <2>1. CASE \E i \in Jobs : PodStep(i)
    <3>1. PICK i \in Jobs : PodStep(i)
      BY <2>1
    <3>2. i = j
      BY <3>1, PodIsLive DEF JudgeInv, Alone
    <3> QED
      BY <3>1, <3>2, MatchStays
  <2>2. CASE ~\E i \in Jobs : PodStep(i)
    BY <2>2 DEF PodStep, Next, KeycloakStarts, StartJob, vars, keycloak
  <2> QED
    BY <2>1, <2>2
<1>4. [][A]_vars => MatchingClientUntouched
  BY PTL DEF MatchingClientUntouched
<1> QED
  BY <1>1, <1>2, <1>3, <1>4, PTL DEF Spec
-----------------------------------------------------------------------------
(* A Job that succeeds.  Once the pod is past a client, that client is as  *)
(* its revision creates it, and stays so: a pod changes no client but the  *)
(* one it is at, and it never comes back to a client it is past.           *)

Settled(c, d) == Asks(d, c) # None => Valid(Asks(d, c)) /\ AsCreated(c, d)

\* The client a pod grants roles to is the one it created, as it created it.
Fresh(j) ==
    /\ StillThere(j)
    /\ kc[Client(j)].stored = Kept[cfg[j]][Client(j)]
    /\ kc[Client(j)].roles = IF pc[j] = "assignRealm"
                             THEN Wanted(j).service_account_roles ELSE {}
    /\ kc[Client(j)].realmRoles = DefaultRealmRoles

\* What pod j has brought about.
Achieved(j) ==
    /\ pc[j] = "realm" =>
        \A n \in 1 .. Len(RealmSteps) : n < idx[j] => RealmSteps[n] \in realm
    /\ pc[j] \in Placed =>
        /\ RealmRoles \subseteq realm
        /\ \A n \in Positions : n < idx[j] => Settled(ClientOrder[n], cfg[j])
    /\ pc[j] \in Granting => Fresh(j)
    /\ pc[j] \in {"users", "createUser", "setPassword"} =>
        \A c \in Clients : Settled(c, cfg[j])

Achieving == \A j \in Jobs : Achieved(j)

LEMMA AchievedMove ==
  ASSUME JudgeInv, Achieving, NEW i \in Jobs, Live(i), Inv,
         \A j \in Jobs \ {i} : pc'[j] = pc[j],
         Achieved(i)'
  PROVE  Achieving'
<1>1. \A j \in Jobs \ {i} : ~Live(j)'
  BY AloneMove DEF JudgeInv
<1>2. ASSUME NEW j \in Jobs \ {i}
      PROVE  Achieved(j)'
  BY <1>1 DEF Achieved, Live, Script, Placed, Working, Granting
<1> QED
  BY <1>2 DEF Achieving

LEMMA OnlyItsClient ==
  ASSUME Inv, NEW i \in Jobs, PodStep(i), NEW c \in Clients, c # Client(i)
  PROVE  kc'[c] = kc[c]
<1>1. kc = [d \in Clients |-> kc[d]]
  BY DEF Inv, RealmTypeOK
<1>2. CASE DeleteClient(i) \/ CreateClient(i)
  BY <1>1, <1>2 DEF DeleteClient, CreateClient
<1>3. CASE AssignClientRoles(i) \/ AssignRealmRoles(i)
  <2>1. CASE ~StillThere(i)
    BY <1>3, <2>1, AssignNothing
  <2>2. CASE StillThere(i)
    <3>1. PICK g, h : kc' = [kc EXCEPT ![Client(i)] = WithRoles(kc[Client(i)], g, h)]
      BY <1>3, <2>2, AssignClientEffect, AssignRealmEffect
    <3> QED
      BY <1>1, <3>1
  <2> QED
    BY <2>1, <2>2
<1>4. CASE ListClients(i) \/ ReadStep(i)
  BY <1>4, ReadStepMoves DEF ListClients, keycloak
<1> QED
  BY <1>2, <1>3, <1>4, OtherStepsMove DEF PodStep, ScriptStep, ReadStep

LEMMA SettledStays ==
  ASSUME Inv, NEW i \in Jobs, PodStep(i), NEW c \in Clients,
         Settled(c, cfg[i]), kc' = kc \/ c # Client(i)
  PROVE  Settled(c, cfg[i])'
<1>1. cfg'[i] = cfg[i] /\ kc'[c] = kc[c]
  BY PodIsLive, OnlyItsClient
<1> QED
  BY <1>1 DEF Settled, Asks, AsCreated

\* The clients a pod is past are none of them the one it is at.
LEMMA PastStays ==
  ASSUME Inv, Achieving, NEW i \in Jobs, PodStep(i), pc[i] \in Placed,
         NEW n \in Positions, n < idx[i], idx[i] \in Positions
  PROVE  Settled(ClientOrder[n], cfg[i])'
<1>1. ClientOrder[n] \in Clients /\ Settled(ClientOrder[n], cfg[i])
  BY DEF Achieving, Achieved, Positions, Clients
<1>2. ClientOrder[n] # Client(i)
  BY ConstantsAssumption DEF Client, Positions
<1> QED
  BY <1>1, <1>2, SettledStays

\* A pod that begins again, or ends without success, claims nothing.
LEMMA AchievedRest ==
  ASSUME Inv, JudgeInv, Achieving, NEW i \in Jobs, Live(i),
         \A j \in Jobs \ {i} : pc'[j] = pc[j],
         pc'[i] \in {"backoff", "failed", "tls", "token", "deleted", "done"}
  PROVE  Achieving'
<1>1. Achieved(i)'
  BY DEF Achieved, Placed, Working, Granting
<1> QED
  BY <1>1, AchievedMove

LEMMA RaiseAchieved ==
  ASSUME Inv, JudgeInv, Achieving, NEW i \in Jobs, Live(i), Raise(i)
  PROVE  Achieving'
BY RaiseMove, AchievedRest

\* A pod stays at its client.
LEMMA StayAchieved ==
  ASSUME Inv, RealmBounds, JudgeInv, Achieving, NEW i \in Jobs, PodStep(i),
         pc[i] \in Placed,
         NEW l \in Placed, GoTo(i, l), UNCHANGED <<idx, realm>>,
         l \in Granting => Fresh(i)'
  PROVE  Achieving'
<1>1. Live(i) /\ pc'[i] = l /\ \A j \in Jobs \ {i} : pc'[j] = pc[j]
  BY PodIsLive, GoMove
<1>2. ASSUME NEW n \in Positions, n < idx'[i]
      PROVE  Settled(ClientOrder[n], cfg[i])'
  <2>1. idx[i] \in Positions
    BY DEF RealmBounds, PodBound, Positions
  <2> QED
    BY <1>2, <2>1, PastStays
<1>3. RealmRoles \subseteq realm'
  BY DEF Achieving, Achieved
<1>4. Achieved(i)'
  BY <1>1, <1>2, <1>3 DEF Achieved, Placed, Working, Granting
<1> QED
  BY <1>1, <1>4, AchievedMove

\* A pod leaves its client as its revision wants it.
LEMMA NextClientAchieved ==
  ASSUME Inv, RealmBounds, JudgeInv, Achieving, NEW i \in Jobs, PodStep(i),
         pc[i] \in Placed, NextClient(i), realm' = realm,
         NEW c \in Clients, c = Client(i), Settled(c, cfg[i])'
  PROVE  Achieving'
<1>1. Live(i) /\ \A j \in Jobs \ {i} : pc'[j] = pc[j]
  BY PodIsLive, NextClientMove
<1>2. /\ idx \in [Jobs -> Nat \ {0}] /\ Len(ClientOrder) \in Nat
      /\ pc \in [Jobs -> Labels]
  BY ConstantsAssumption DEF Inv, RealmTypeOK
<1>3. ASSUME NEW n \in Positions, n <= idx[i]
      PROVE  Settled(ClientOrder[n], cfg[i])'
  <2>1. CASE n < idx[i]
    <3>1. idx[i] \in Positions
      BY DEF RealmBounds, PodBound, Positions
    <3> QED
      BY <2>1, <3>1, PastStays
  <2>2. CASE n = idx[i]
    <3>1. ClientOrder[n] = c
      BY <2>2 DEF Client
    <3> QED
      BY <3>1
  <2> QED
    BY <1>2, <1>3, <2>1, <2>2 DEF Positions
<1>4. RealmRoles \subseteq realm'
  BY DEF Achieving, Achieved
<1>5. CASE idx[i] < Len(ClientOrder)
  <2>1. pc'[i] = "list" /\ idx'[i] = idx[i] + 1
    BY <1>2, <1>5 DEF NextClient, GoTo
  <2>2. \A n \in Positions : n < idx'[i] => n <= idx[i]
    BY <1>2, <2>1 DEF Positions
  <2>3. Achieved(i)'
    BY <1>3, <1>4, <2>1, <2>2 DEF Achieved, Granting
  <2> QED
    BY <1>1, <2>3, AchievedMove
<1>6. CASE ~(idx[i] < Len(ClientOrder))
  <2>1. pc'[i] = "users"
    BY <1>2, <1>6 DEF NextClient, GoTo
  <2>2. \A n \in Positions : n <= idx[i]
    BY <1>2, <1>6 DEF Positions
  <2>3. ASSUME NEW d \in Clients
        PROVE  Settled(d, cfg[i])'
    <3>1. PICK n \in Positions : ClientOrder[n] = d
      BY DEF Clients, Positions
    <3> QED
      BY <1>3, <2>2, <3>1
  <2>4. Achieved(i)'
    BY <2>1, <2>3 DEF Achieved, Placed, Working, Granting
  <2> QED
    BY <1>1, <2>4, AchievedMove
<1> QED
  BY <1>5, <1>6

LEMMA DecideAchieved ==
  ASSUME Inv, RealmBounds, JudgeInv, Achieving, ForceClients, NEW i \in Jobs, PodStep(i),
         pc[i] \in Placed, NEW differs, Decide(i, differs),
         UNCHANGED <<kc, realm>>,
         Client(i) \in Clients, Usable(cfg[i], Client(i)),
         ~differs => AsCreated(Client(i), cfg[i])
  PROVE  Achieving'
<1>1. CASE GoTo(i, "delete") /\ UNCHANGED idx
  BY <1>1, StayAchieved DEF Placed, Working, Granting
<1>2. CASE ~differs /\ NextClient(i)
  <2>1. PICK c \in Clients : c = Client(i)
    OBVIOUS
  <2>2. Settled(c, cfg[i])
    BY <1>2, <2>1 DEF Settled, Usable
  <2>3. Settled(c, cfg[i])'
    BY <2>2, SettledStays
  <2> QED
    BY <1>2, <2>1, <2>3, NextClientAchieved
<1> QED
  BY <1>1, <1>2 DEF Decide

LEMMA ListClientsAchieved ==
  ASSUME Inv, RealmBounds, JudgeInv, Achieving, NEW i \in Jobs, ListClients(i)
  PROVE  Achieving'
<1>1. /\ pc[i] = "list" /\ pc[i] \in Placed /\ Live(i) /\ PodStep(i)
      /\ Client(i) \in Clients /\ UNCHANGED <<kc, cfg, realm>>
  BY DEF ListClients, keycloak, Live, Script, PodStep, ScriptStep, Inv, Configured,
     Placed
<1>2. CASE Wanted(i) = None /\ NextClient(i)
  <2>1. PICK c \in Clients : c = Client(i)
    BY <1>1
  <2>2. Settled(c, cfg[i])'
    BY <1>1, <1>2, <2>1 DEF Settled, Asks, Wanted
  <2> QED
    BY <1>1, <1>2, <2>1, <2>2, NextClientAchieved
<1>3. CASE Raise(i)
  BY <1>1, <1>3, RaiseAchieved
<1>4. CASE /\ UNCHANGED idx
           /\ GoTo(i, "create") \/ GoTo(i, "secret")
  BY <1>1, <1>4, StayAchieved DEF Placed, Working, Granting
<1> QED
  BY <1>2, <1>3, <1>4 DEF ListClients

\* A public client has no roles to be granted.
LEMMA GetSecretAchieved ==
  ASSUME ComparableValues, ForceClients, Inv, RealmBounds, ChangedTyped, JudgeInv,
         Achieving, NEW i \in Jobs, GetSecret(i)
  PROVE  Achieving'
<1>1. /\ pc[i] = "secret" /\ StillThere(i) /\ UNCHANGED <<kc, cfg, seen>>
      /\ Client(i) \in Clients /\ Usable(cfg[i], Client(i))
      /\ changed'[i] <=> ~SameData(i)
  BY SecretTells
<1>2. pc[i] \in Placed /\ PodStep(i) /\ realm' = realm
  BY <1>1 DEF GetSecret, keycloak, PodStep, ScriptStep, Placed, Working
<1>3. CASE GoTo(i, "roles") /\ UNCHANGED idx
  BY <1>1, <1>2, <1>3, StayAchieved DEF Placed, Working, Granting
<1>4. CASE ~Credentials(Wanted(i)) /\ Decide(i, changed'[i])
  <2>1. ~changed'[i] => AsCreated(Client(i), cfg[i])
    BY <1>1, <1>4 DEF AsCreated, Wanted, SameData, StillThere
  <2> QED
    BY <1>1, <1>2, <1>4, <2>1, DecideAchieved
<1> QED
  BY <1>3, <1>4, SecretTells

LEMMA ReadRolesAchieved ==
  ASSUME Inv, RealmBounds, JudgeInv, Achieving, NEW i \in Jobs, ReadRoles(i)
  PROVE  Achieving'
<1>1. /\ pc[i] \in Placed /\ PodStep(i) /\ UNCHANGED <<idx, realm>>
      /\ GoTo(i, "realmRoles")
  BY DEF ReadRoles, keycloak, PodStep, ScriptStep, Placed, Working
<1> QED
  BY <1>1, StayAchieved DEF Placed, Working, Granting

\* A client whose data asks for a service account has one with the roles that
\* Keycloak gives to every user.
LEMMA HasDefaults ==
  ASSUME ComparableValues, FromValues, NEW c \in Clients, kc[c] # None,
         NEW d \in DOMAIN Deployments, Usable(d, c), Credentials(Asks(d, c)),
         SameClient(kc[c].stored, Kept[d][c])
  PROVE  DefaultRealmRoles \subseteq kc[c].realmRoles
<1>1. PICK e \in DOMAIN Deployments :
            /\ Usable(e, c) /\ kc[c].stored = Kept[e][c]
            /\ Credentials(Asks(e, c)) => DefaultRealmRoles \subseteq kc[c].realmRoles
  BY DEF FromValues
<1> DEFINE w == Asks(e, c)
           v == Asks(d, c)
           f == kc[c].stored
           g == Kept[d][c]
<1>2. Comparable(w) /\ Comparable(v)
  BY <1>1 DEF ComparableValues, Usable, Asks
<1>3. f = Stored(ToDict(w)) /\ g = Stored(ToDict(v))
  BY <1>1 DEF Kept, Sent, Usable, Asks
<1>4. SameClient(f, g) /\ v.oauth_flow = "client_credentials"
  BY DEF Credentials
<1> HIDE DEF w, v, f, g
<1>5. /\ f.serviceAccountsEnabled = (w.oauth_flow = "client_credentials")
      /\ g.serviceAccountsEnabled = (v.oauth_flow = "client_credentials")
      /\ "serviceAccountsEnabled" \in DOMAIN g
  BY <1>2, <1>3, KeptFlows
<1>6. f.serviceAccountsEnabled = g.serviceAccountsEnabled
  BY <1>4, <1>5 DEF SameClient, Alike, ListKeys
<1>7. Credentials(w)
  BY <1>4, <1>5, <1>6 DEF Credentials
<1> QED
  BY <1>1, <1>7 DEF w

\* A client whose roles are exactly the wanted ones has them all, those of
\* every user included.
LEMMA ReadRealmRolesAchieved ==
  ASSUME ComparableValues, ForceClients, Inv, RealmBounds, JudgeInv, Achieving,
         NEW i \in Jobs, ReadRealmRoles(i)
  PROVE  Achieving'
<1>1. /\ pc[i] = "realmRoles" /\ pc[i] \in Placed /\ PodStep(i)
      /\ Client(i) \in Clients /\ cfg[i] \in DOMAIN Deployments
      /\ UNCHANGED <<kc, cfg, realm>>
      /\ Decide(i, changed[i] \/ RealmRolesDiffer(i))
  BY DEF ReadRealmRoles, keycloak, PodStep, ScriptStep, Inv, RealmTypeOK,
     Configured, Placed, Working
<1>2. /\ Usable(cfg[i], Client(i)) /\ StillThere(i) /\ Credentials(Wanted(i))
      /\ changed[i] <=> ~(SameData(i) /\ ~RolesDiffer(i))
  BY <1>1 DEF JudgeInv, Judged, Working
<1>3. ASSUME ~(changed[i] \/ RealmRolesDiffer(i))
      PROVE  AsCreated(Client(i), cfg[i])
  <2> DEFINE x == kc[Client(i)]
             w == Wanted(i)
  <2>1. /\ x # None /\ SameClient(x.stored, Kept[cfg[i]][Client(i)])
        /\ x.roles = w.service_account_roles
        /\ x.realmRoles = w.service_account_realm_roles
        /\ w = Asks(cfg[i], Client(i))
    BY <1>2, <1>3 DEF SameData, RolesDiffer, RealmRolesDiffer, GrantedRoles,
       GrantedRealmRoles, StillThere, Wanted, Asks
  <2>2. DefaultRealmRoles \subseteq x.realmRoles
    BY <1>1, <1>2, <2>1, HasDefaults DEF JudgeInv
  <2>3. x.realmRoles = DefaultRealmRoles \cup w.service_account_realm_roles
    BY <2>1, <2>2
  <2> QED
    BY <2>1, <2>3 DEF AsCreated, Asks
<1> QED
  BY <1>1, <1>2, <1>3, DecideAchieved

LEMMA GetServiceAccountAchieved ==
  ASSUME Inv, RealmBounds, JudgeInv, Achieving, NEW i \in Jobs, GetServiceAccount(i)
  PROVE  Achieving'
<1>1. /\ pc[i] = "account" /\ pc[i] \in Placed /\ pc[i] \in Granting /\ Live(i)
      /\ PodStep(i) /\ UNCHANGED <<kc, cfg, seen, idx, realm>>
  BY DEF GetServiceAccount, keycloak, PodStep, ScriptStep, Placed, Working,
     Granting, Live, Script
<1>2. CASE GoTo(i, "assign")
  <2>1. Fresh(i) /\ pc'[i] = "assign"
    BY <1>1, <1>2, GoMove DEF Achieving, Achieved
  <2>2. Fresh(i)'
    BY <1>1, <2>1 DEF Fresh, StillThere, Client, Wanted
  <2> QED
    BY <1>1, <1>2, <2>2, StayAchieved DEF Placed, Working, Granting
<1>3. CASE Raise(i)
  BY <1>1, <1>3, RaiseAchieved
<1> QED
  BY <1>2, <1>3 DEF GetServiceAccount

LEMMA DeleteClientAchieved ==
  ASSUME Inv, RealmBounds, JudgeInv, Achieving, NEW i \in Jobs, DeleteClient(i)
  PROVE  Achieving'
<1>1. /\ pc[i] \in Placed /\ Live(i) /\ PodStep(i) /\ UNCHANGED <<idx, realm>>
  BY DEF DeleteClient, Placed, Working, Live, Script, PodStep, ScriptStep
<1>2. CASE GoTo(i, "create")
  BY <1>1, <1>2, StayAchieved DEF Placed, Working, Granting
<1>3. CASE Raise(i)
  BY <1>1, <1>3, RaiseAchieved
<1> QED
  BY <1>2, <1>3 DEF DeleteClient

\* A client that has just been created is the one its revision wants, but for
\* its roles.
LEMMA CreateClientAchieved ==
  ASSUME Inv, RealmBounds, JudgeInv, Achieving, NEW i \in Jobs, CreateClient(i)
  PROVE  Achieving'
<1>1. /\ pc[i] = "create" /\ pc[i] \in Placed /\ Live(i) /\ PodStep(i)
      /\ UNCHANGED <<cfg, realm>>
      /\ Client(i) \in Clients /\ kc = [c \in Clients |-> kc[c]]
      /\ seen \in [Jobs -> Int] /\ nextId \in Int
      /\ cfg[i] \in DOMAIN Deployments
      /\ Usable(cfg[i], Client(i)) /\ Wanted(i) = Asks(cfg[i], Client(i))
  BY DEF CreateClient, Placed, Working, Live, Script, PodStep, ScriptStep, Inv,
     RealmTypeOK, Configured, JudgeInv, Judged, Wanted, Asks
<1>2. CASE Raise(i)
  BY <1>1, <1>2, RaiseAchieved
<1>3. CASE kc[Client(i)] = None
  <2> DEFINE r == IF Credentials(Wanted(i)) THEN DefaultRealmRoles ELSE {}
             k == Kept[cfg[i]][Client(i)]
             e == [stored |-> k, id |-> nextId, roles |-> {}, realmRoles |-> r]
  <2>1. kc' = [kc EXCEPT ![Client(i)] = e] /\ seen' = [seen EXCEPT ![i] = nextId]
    BY <1>3 DEF CreateClient
  <2>2. e.stored = k /\ e.id = nextId /\ e.roles = {} /\ e.realmRoles = r
    OBVIOUS
  <2> HIDE DEF e
  <2>3. kc'[Client(i)] = e /\ seen'[i] = nextId
    BY <1>1, <2>1
  <2>4. e # None
    <3>1. r \in SUBSET AllRoles /\ {} \in SUBSET AllRoles
      BY DEF AllRoles
    <3>2. k \in {Kept[d][c] : d \in DOMAIN Deployments, c \in Clients}
      BY <1>1
    <3>3. e \in Entries
      BY <1>1, <3>1, <3>2 DEF e, Entries
    <3> QED
      BY <3>3, EntryAssumption
  <2>5. CASE ~Credentials(Wanted(i)) /\ NextClient(i)
    <3>1. PICK c \in Clients : c = Client(i)
      BY <1>1
    <3>2. SameClient(k, k)
      BY DEF SameClient, Alike
    <3>3. Settled(c, cfg[i])'
      BY <1>1, <2>2, <2>3, <2>4, <2>5, <3>1, <3>2
         DEF Settled, Usable, Asks, AsCreated, Credentials
    <3> QED
      BY <1>1, <2>5, <3>1, <3>3, NextClientAchieved
  <2>6. CASE Credentials(Wanted(i)) /\ GoTo(i, "account") /\ UNCHANGED idx
    <3>1. pc'[i] = "account"
      BY <2>6, GoMove
    <3>2. Client(i)' = Client(i) /\ cfg'[i] = cfg[i]
      BY <1>1, <2>6 DEF Client
    <3>3. Fresh(i)'
      BY <2>2, <2>3, <2>4, <2>6, <3>1, <3>2 DEF Fresh, StillThere
    <3> QED
      BY <1>1, <2>6, <3>3, StayAchieved DEF Placed, Working, Granting
  <2> QED
    BY <1>3, <2>5, <2>6 DEF CreateClient
<1> QED
  BY <1>2, <1>3 DEF CreateClient

\* The roles a pod works with are those it can grant.
LEMMA RolesAvailable ==
  ASSUME AvailableRoles, Inv, JudgeInv, NEW i \in Jobs, pc[i] \in Granting
  PROVE  /\ Client(i) \in Clients /\ Usable(cfg[i], Client(i))
         /\ Credentials(Wanted(i)) /\ Wanted(i) = Asks(cfg[i], Client(i))
         /\ Wanted(i).service_account_roles \subseteq ManagementRoles
         /\ Wanted(i).service_account_realm_roles
                \subseteq DefaultRealmRoles \cup RealmRoles
<1>1. /\ Client(i) \in Clients /\ Usable(cfg[i], Client(i))
      /\ Credentials(Wanted(i)) /\ cfg[i] \in DOMAIN Deployments
      /\ Wanted(i) = Asks(cfg[i], Client(i))
  BY DEF Inv, RealmTypeOK, Configured, Placed, Working, Granting, JudgeInv,
     Judged, Wanted, Asks
<1> QED
  BY <1>1 DEF AvailableRoles, Usable, Asks

LEMMA AssignClientRolesAchieved ==
  ASSUME AvailableRoles, Inv, RealmBounds, JudgeInv, Typed, Achieving,
         NEW i \in Jobs, AssignClientRoles(i)
  PROVE  Achieving'
<1> DEFINE x == kc[Client(i)]
           g == Wanted(i).service_account_roles
           e == WithRoles(x, g \cap ManagementRoles, {})
<1>1. /\ pc[i] = "assign" /\ pc[i] \in Granting /\ pc[i] \in Placed /\ PodStep(i)
      /\ UNCHANGED <<cfg, idx, seen, realm>>
      /\ kc = [c \in Clients |-> kc[c]]
  BY DEF AssignClientRoles, PodStep, ScriptStep, Placed, Working, Granting, Inv,
     RealmTypeOK
<1>2. Fresh(i) /\ StillThere(i)
  BY <1>1 DEF Achieving, Achieved, Fresh
<1>3. GoTo(i, "assignRealm") /\ kc' = [kc EXCEPT ![Client(i)] = e]
  BY <1>2, AssignClientEffect
<1>4. Client(i) \in Clients /\ g \subseteq ManagementRoles
  BY <1>1, RolesAvailable
<1>5. /\ x.stored = Kept[cfg[i]][Client(i)] /\ x.id = seen[i] /\ x.roles = {}
      /\ x.realmRoles = DefaultRealmRoles
  BY <1>1, <1>2 DEF Fresh, StillThere
<1>6. /\ e.stored = x.stored /\ e.id = x.id /\ e.roles = g
      /\ e.realmRoles = DefaultRealmRoles
  BY <1>4, <1>5 DEF WithRoles
<1>7. e # None
  <2>1. x \in Entries
    BY <1>2, <1>4 DEF Typed, StillThere
  <2>2. x.roles \cup (g \cap ManagementRoles) \in SUBSET AllRoles
    BY <2>1 DEF Entries, AllRoles
  <2>3. x.realmRoles \cup {} \in SUBSET AllRoles
    BY <2>1 DEF Entries
  <2>4. e \in Entries
    BY <2>1, <2>2, <2>3 DEF WithRoles, Entries
  <2> QED
    BY <2>4, EntryAssumption
<1> HIDE DEF e
<1>8. Fresh(i)'
  <2>1. pc'[i] = "assignRealm" /\ kc'[Client(i)] = e /\ Client(i)' = Client(i)
    BY <1>1, <1>3, <1>4, GoMove DEF Client
  <2>2. Wanted(i)' = Wanted(i)
    BY <1>1 DEF Wanted, Client
  <2> QED
    BY <1>1, <1>5, <1>6, <1>7, <2>1, <2>2 DEF Fresh, StillThere
<1> QED
  BY <1>1, <1>3, <1>8, StayAchieved DEF Placed, Working, Granting

LEMMA AssignRealmRolesAchieved ==
  ASSUME AvailableRoles, Inv, RealmBounds, JudgeInv, Typed, Achieving,
         NEW i \in Jobs, AssignRealmRoles(i)
  PROVE  Achieving'
<1> DEFINE x == kc[Client(i)]
           g == Wanted(i).service_account_realm_roles
           h == g \cap (DefaultRealmRoles \cup (realm \cap RealmRoles))
           e == WithRoles(x, {}, h)
<1>1. /\ pc[i] = "assignRealm" /\ pc[i] \in Granting /\ pc[i] \in Placed
      /\ PodStep(i) /\ UNCHANGED <<cfg, realm>>
      /\ kc = [c \in Clients |-> kc[c]]
  BY DEF AssignRealmRoles, PodStep, ScriptStep, Placed, Working, Granting, Inv,
     RealmTypeOK
<1>2. Fresh(i) /\ StillThere(i) /\ RealmRoles \subseteq realm
  BY <1>1 DEF Achieving, Achieved, Fresh
<1>3. NextClient(i) /\ kc' = [kc EXCEPT ![Client(i)] = e]
  BY <1>2, AssignRealmEffect
<1>4. /\ Client(i) \in Clients /\ Usable(cfg[i], Client(i))
      /\ Wanted(i) = Asks(cfg[i], Client(i))
      /\ g \subseteq DefaultRealmRoles \cup RealmRoles
  BY <1>1, RolesAvailable
<1>5. /\ x.stored = Kept[cfg[i]][Client(i)]
      /\ x.roles = Wanted(i).service_account_roles
      /\ x.realmRoles = DefaultRealmRoles
  BY <1>1, <1>2 DEF Fresh
<1>6. /\ e.stored = x.stored /\ e.roles = x.roles
      /\ e.realmRoles = DefaultRealmRoles \cup g
  <2>1. x.realmRoles \cup h = DefaultRealmRoles \cup g /\ x.roles \cup {} = x.roles
    BY <1>2, <1>4, <1>5
  <2> HIDE DEF g, h
  <2> QED
    BY <2>1 DEF WithRoles
<1>7. e # None
  <2>1. x \in Entries
    BY <1>2, <1>4 DEF Typed, StillThere
  <2>2. x.realmRoles \cup h \in SUBSET AllRoles
    BY <2>1 DEF Entries, AllRoles
  <2>3. x.roles \cup {} \in SUBSET AllRoles
    BY <2>1 DEF Entries
  <2>4. e \in Entries
    BY <2>1, <2>2, <2>3 DEF WithRoles, Entries
  <2> QED
    BY <2>4, EntryAssumption
<1> HIDE DEF e, x
<1>8. PICK c \in Clients : c = Client(i)
  BY <1>4
<1>9. kc'[c] = e
  BY <1>1, <1>3, <1>8
<1>10. SameClient(x.stored, Kept[cfg[i]][c])
  BY <1>5, <1>8 DEF SameClient, Alike
<1>11. Settled(c, cfg[i])'
  BY <1>1, <1>4, <1>5, <1>6, <1>7, <1>8, <1>9, <1>10
     DEF Settled, Usable, Asks, AsCreated
<1> QED
  BY <1>1, <1>3, <1>8, <1>11, NextClientAchieved

LEMMA ConfigureRealmAchieved ==
  ASSUME Inv, JudgeInv, Achieving, NEW i \in Jobs, ConfigureRealm(i)
  PROVE  Achieving'
<1>1. /\ pc[i] = "realm" /\ Live(i) /\ idx \in [Jobs -> Nat \ {0}]
      /\ pc \in [Jobs -> Labels]
      /\ realm' = realm \cup {RealmSteps[idx[i]]}
      /\ Len(RealmSteps) = 5
      /\ \A j \in Jobs \ {i} : pc'[j] = pc[j]
  BY OtherStepsMove DEF ConfigureRealm, Inv, RealmTypeOK, RealmSteps
<1>2. ASSUME NEW n \in 1 .. 5, n <= idx[i]
      PROVE  RealmSteps[n] \in realm'
  BY <1>1, <1>2 DEF Achieving, Achieved
<1>3. CASE idx[i] < Len(RealmSteps)
  <2>1. pc'[i] = "realm" /\ idx'[i] = idx[i] + 1
    BY <1>1, <1>3 DEF ConfigureRealm
  <2>2. Achieved(i)'
    BY <1>1, <1>2, <2>1 DEF Achieved, Placed, Working, Granting
  <2> QED
    BY <1>1, <2>2, AchievedMove
<1>4. CASE ~(idx[i] < Len(RealmSteps)) /\ Raise(i)
  BY <1>1, <1>4, RaiseAchieved
<1>5. CASE ~(idx[i] < Len(RealmSteps)) /\ idx' = [idx EXCEPT ![i] = 1]
           /\ GoTo(i, "list")
  <2>1. pc'[i] = "list" /\ idx'[i] = 1
    BY <1>1, <1>5, GoMove
  <2>2. RealmSteps[4] \in realm' /\ RealmSteps[5] \in realm'
    BY <1>1, <1>2, <1>5
  <2>3. RealmRoles \subseteq realm'
    BY <2>2 DEF RealmRoles, RealmSteps
  <2>4. Achieved(i)'
    BY <2>1, <2>3 DEF Achieved, Granting, Positions
  <2> QED
    BY <1>1, <2>4, AchievedMove
<1> QED
  BY <1>3, <1>4, <1>5 DEF ConfigureRealm

LEMMA OtherStepsAchieved ==
  ASSUME Inv, JudgeInv, Achieving, NEW i \in Jobs,
         \/ WaitForTls(i) \/ GetToken(i)
         \/ ListUsers(i) \/ CreateUser(i) \/ SetPassword(i)
         \/ RestartPod(i) \/ Crash(i) \/ HelmDeletesJob(i)
  PROVE  Achieving'
<1>1. /\ Live(i) /\ \A j \in Jobs \ {i} : pc'[j] = pc[j]
      /\ PodStep(i) /\ pc \in [Jobs -> Labels] /\ kc' = kc
  BY OtherStepsMove DEF PodStep, ScriptStep, Inv, RealmTypeOK
<1>2. CASE pc'[i] \in {"backoff", "failed", "tls", "token", "deleted", "done"}
  BY <1>1, <1>2, AchievedRest
<1>3. CASE pc'[i] = "realm" /\ GetToken(i)
  <2>1. idx'[i] = 1
    BY <1>1, <1>3 DEF GetToken, Raise, Inv, RealmTypeOK
  <2>2. Achieved(i)'
    BY <1>3, <2>1 DEF Achieved, Placed, Working, Granting
  <2> QED
    BY <1>1, <2>2, AchievedMove
<1>4. CASE /\ pc'[i] \in {"createUser", "setPassword"}
           /\ pc[i] \in {"users", "createUser"}
  <2>1. ASSUME NEW c \in Clients
        PROVE  Settled(c, cfg[i])'
    BY <1>1, <1>4, SettledStays DEF Achieving, Achieved
  <2>2. Achieved(i)'
    BY <1>4, <2>1 DEF Achieved, Placed, Working, Granting
  <2> QED
    BY <1>1, <2>2, AchievedMove
<1>5. pc'[i] = "realm" => GetToken(i)
  <2>1. CASE WaitForTls(i)
    BY <1>1, <2>1 DEF WaitForTls, GoTo, Raise
  <2>2. CASE ListUsers(i) \/ CreateUser(i) \/ SetPassword(i)
    BY <1>1, <2>2 DEF ListUsers, CreateUser, SetPassword, GoTo, Raise
  <2>3. CASE RestartPod(i) \/ Crash(i) \/ HelmDeletesJob(i)
    BY <1>1, <2>3 DEF RestartPod, Crash, HelmDeletesJob, Raise
  <2> QED
    BY <2>1, <2>2, <2>3
<1>6. pc'[i] = "list" => FALSE
  <2>1. CASE WaitForTls(i) \/ GetToken(i)
    BY <1>1, <2>1 DEF WaitForTls, GetToken, GoTo, Raise
  <2>2. CASE ListUsers(i) \/ CreateUser(i) \/ SetPassword(i)
    BY <1>1, <2>2 DEF ListUsers, CreateUser, SetPassword, GoTo, Raise
  <2>3. CASE RestartPod(i) \/ Crash(i) \/ HelmDeletesJob(i)
    BY <1>1, <2>3 DEF RestartPod, Crash, HelmDeletesJob, Raise
  <2> QED
    BY <2>1, <2>2, <2>3
<1> QED
  BY <1>2, <1>3, <1>4, <1>5, <1>6, OtherStepsMove

LEMMA AchievedNext ==
  ~Overlap /\ ForceClients /\ ComparableValues /\ AvailableRoles =>
     (Inv /\ RealmBounds /\ ChangedTyped /\ JudgeInv /\ Typed /\ Achieving
        /\ [Next]_vars => Achieving')
<1> SUFFICES ASSUME ~Overlap, ForceClients, ComparableValues, AvailableRoles,
                    Inv, RealmBounds, ChangedTyped, JudgeInv, Typed, Achieving,
                    [Next]_vars
             PROVE  Achieving'
  OBVIOUS
<1>1. CASE UNCHANGED <<realm, kc, pods>>
  BY <1>1 DEF pods, Achieving, Achieved, Fresh, Settled, StillThere, Client,
     Wanted, AsCreated, Asks
<1>2. CASE KeycloakStarts \/ UNCHANGED vars
  BY <1>1, <1>2 DEF KeycloakStarts, vars, keycloak
<1>3. ASSUME NEW i \in Jobs, NEW d \in DOMAIN Deployments, StartJob(i, d)
      PROVE  Achieving'
  <2>1. \A j \in Jobs : pc'[j] = "tls" \/ ~Live(j)'
    BY <1>3 DEF StartJob, Inv, RealmTypeOK, Live
  <2> QED
    BY <2>1 DEF Achieving, Achieved, Live, Script, Placed, Working, Granting
<1>4. ASSUME NEW i \in Jobs, PodStep(i)
      PROVE  Achieving'
  BY <1>4, OtherStepsAchieved, ConfigureRealmAchieved, ListClientsAchieved,
     GetSecretAchieved, ReadRolesAchieved, ReadRealmRolesAchieved,
     GetServiceAccountAchieved, DeleteClientAchieved, CreateClientAchieved,
     AssignClientRolesAchieved, AssignRealmRolesAchieved DEF PodStep, ScriptStep
<1> QED
  BY <1>2, <1>3, <1>4 DEF Next, PodStep

\* Keycloak accepts exactly the wanted flow of a client with the wanted data.
LEMMA WantedFlow ==
  ASSUME ComparableValues, NEW c \in Clients, NEW d \in DOMAIN Deployments,
         Usable(d, c), AsCreated(c, d)
  PROVE  EnabledFlows(kc[c].stored) = {Asks(d, c).oauth_flow}
<1> DEFINE f == kc[c].stored
           g == Kept[d][c]
           w == Asks(d, c)
<1>1. SameClient(f, g) /\ Comparable(w) /\ w.oauth_flow \in Flows
  <2>1. SameClient(f, g)
    BY DEF AsCreated
  <2>2. Comparable(w) /\ w.oauth_flow \in Flows
    BY DEF ComparableValues, Usable, Asks, Valid
  <2> QED
    BY <2>1, <2>2
<1>2. g = Stored(ToDict(w))
  BY DEF Kept, Sent, Usable, Asks
<1> HIDE DEF f, g, w
<1>3. /\ g.standardFlowEnabled = (w.oauth_flow = "authorization_code")
      /\ g.serviceAccountsEnabled = (w.oauth_flow = "client_credentials")
      /\ DeviceGrant \in DOMAIN g.attributes /\ g.attributes[DeviceGrant] = "true"
             <=> w.oauth_flow = "device"
      /\ {"standardFlowEnabled", "serviceAccountsEnabled", "attributes"}
             \subseteq DOMAIN g
  BY <1>1, <1>2, KeptFlows
<1>4. /\ f.standardFlowEnabled = g.standardFlowEnabled
      /\ f.serviceAccountsEnabled = g.serviceAccountsEnabled
      /\ f.attributes = g.attributes
  BY <1>1, <1>3 DEF SameClient, Alike, ListKeys
<1>5. EnabledFlows(f) = {w.oauth_flow}
  BY <1>1, <1>3, <1>4 DEF EnabledFlows, Flows
<1> QED
  BY <1>5 DEF f, w

\* A pod at a client does not end with success.
LEMMA ClientStepsMove ==
  ASSUME Inv, NEW i \in Jobs, ClientStep(i)
  PROVE  pc'[i] # "done" /\ \A j \in Jobs \ {i} : pc'[j] = pc[j]
<1>1. CASE Raise(i)
  BY <1>1, RaiseMove
<1>2. CASE NextClient(i)
  BY <1>2, NextClientMove
<1>3. CASE \E l \in Working : GoTo(i, l)
  BY <1>3, GoMove DEF Working, Granting
<1>4. CASE ReadStep(i)
  BY <1>1, <1>2, <1>3, <1>4, ReadStepMoves DEF Working, Granting
<1> QED
  BY <1>1, <1>2, <1>3, <1>4 DEF ClientStep, ListClients, DeleteClient,
     CreateClient, AssignClientRoles, AssignRealmRoles, Grant, Working, Granting

LEMMA DoneMove ==
  ASSUME Inv, [Next]_vars, NEW j \in Jobs, pc[j] # "done", pc'[j] = "done"
  PROVE  pc[j] \in {"users", "setPassword"} /\ UNCHANGED <<kc, cfg>>
<1>1. ASSUME NEW i \in Jobs, PodStep(i)
      PROVE  pc[j] \in {"users", "setPassword"} /\ UNCHANGED <<kc, cfg>>
  <2>1. CASE ClientStep(i)
    BY <2>1, ClientStepsMove
  <2>2. CASE \/ WaitForTls(i) \/ GetToken(i) \/ ConfigureRealm(i)
             \/ ListUsers(i) \/ CreateUser(i) \/ SetPassword(i)
             \/ RestartPod(i) \/ Crash(i) \/ HelmDeletesJob(i)
    BY <2>2, OtherStepsMove
  <2> QED
    BY <1>1, <2>1, <2>2 DEF PodStep, ScriptStep, ClientStep, ReadStep
<1>2. ASSUME NEW i \in Jobs, NEW d \in DOMAIN Deployments, StartJob(i, d)
      PROVE  FALSE
  BY <1>2 DEF StartJob, Inv, RealmTypeOK
<1> QED
  BY <1>1, <1>2 DEF Next, PodStep, KeycloakStarts, vars, pods

\* With Jobs in sequence and --force, values the comparison can judge and
\* roles that exist in Keycloak, every Job that succeeds leaves every client
\* its revision asks for as if it had just been created from its values: its
\* flow, its roles and those Keycloak gives to every service account, and no
\* others, whatever earlier revisions, failed attempts and killed pods left
\* behind and whichever roles Keycloak gives by itself.
THEOREM SuccessReconciles ==
  ~Overlap /\ ForceClients /\ ComparableValues /\ AvailableRoles =>
     (Spec => SuccessMeansReconciled)
<1> SUFFICES ASSUME ~Overlap, ForceClients, ComparableValues, AvailableRoles
             PROVE  Spec => SuccessMeansReconciled
  OBVIOUS
<1> DEFINE J == /\ Inv /\ RealmBounds /\ PutBack /\ Typed
                /\ ChangedTyped /\ JudgeInv /\ Achieving
           A == \A j \in Jobs : pc[j] # "done" /\ pc'[j] = "done" =>
                    \A c \in Clients : Asked(j)[c] # None =>
                        /\ AsCreated(c, cfg[j])'
                        /\ EnabledFlows(kc'[c].stored) = {Asked(j)[c].oauth_flow}
<1>1. Init => J
  <2>1. Init => PutBack /\ Typed
    BY DEF Init, PutBack, AskedAt, Typed
  <2>2. Init => Achieving
    BY DEF Init, Achieving, Achieved, Placed, Working, Granting
  <2> QED
    BY <2>1, <2>2, InitInv, InitBounds, InitJudges
<1>2. J /\ [Next]_vars => J'
  BY NextInv, BoundsNext, PutBackNext, ChangedNext, JudgeNext, AchievedNext
<1>3. J /\ [Next]_vars => A
  <2> SUFFICES ASSUME J, [Next]_vars, NEW j \in Jobs, pc[j] # "done",
                      pc'[j] = "done", NEW c \in Clients, Asked(j)[c] # None
               PROVE  /\ AsCreated(c, cfg[j])'
                      /\ EnabledFlows(kc'[c].stored) = {Asked(j)[c].oauth_flow}
    OBVIOUS
  <2>1. /\ pc[j] \in {"users", "setPassword"} /\ UNCHANGED <<kc, cfg>>
    BY DoneMove
  <2>2. Usable(cfg[j], c) /\ AsCreated(c, cfg[j]) /\ cfg[j] \in DOMAIN Deployments
    BY <2>1 DEF Achieving, Achieved, Settled, Usable, Asks, Asked, Inv,
       RealmTypeOK, Configured
  <2>3. AsCreated(c, cfg[j])'
    BY <2>1, <2>2 DEF AsCreated
  <2>4. EnabledFlows(kc[c].stored) = {Asks(cfg[j], c).oauth_flow}
    BY <2>2, WantedFlow
  <2> QED
    BY <2>1, <2>3, <2>4 DEF Asked, Asks
<1>4. [][A]_vars => SuccessMeansReconciled
  BY PTL DEF SuccessMeansReconciled
<1> QED
  BY <1>1, <1>2, <1>3, <1>4, PTL DEF Spec

-----------------------------------------------------------------------------
(* The demo user.  Its password is set by a call of its own, and a user    *)
(* that exists is not looked at again: only a pod that dies between the    *)
(* two calls leaves it without one.                                        *)

DemoStates == {"absent", "created", "ready"}
DemoInv == /\ faults = 0
           /\ user \in DemoStates
           /\ \A j \in Jobs : Live(j) => j = latest
           /\ user = "created" => \E j \in Jobs : pc[j] = "setPassword"

\* What the steps of a pod that is not killed do to the demo user.
LEMMA UserStep ==
  ASSUME Inv, NEW i \in Jobs, ScriptStep(i) \/ RestartPod(i)
  PROVE  /\ Live(i) /\ UNCHANGED <<latest, faults>>
         /\ \A j \in Jobs \ {i} : pc'[j] = pc[j]
         /\ \/ user' = user /\ pc[i] # "setPassword"
            \/ user' = "created" /\ pc'[i] = "setPassword"
            \/ user' = "ready"
<1>1. CASE ClientStep(i)
  <2>1. Live(i) /\ \A j \in Jobs \ {i} : pc'[j] = pc[j]
    BY <1>1, ClientStepsMove, PodIsLive DEF PodStep, ScriptStep, ClientStep, ReadStep
  <2>2. UNCHANGED <<latest, faults, user>> /\ pc[i] # "setPassword"
    <3>1. CASE ReadStep(i)
      BY <3>1, ReadStepMoves DEF keycloak
    <3>2. CASE ~ReadStep(i)
      BY <1>1, <3>2 DEF ClientStep, ListClients, DeleteClient, CreateClient,
         AssignClientRoles, AssignRealmRoles, keycloak
    <3> QED
      BY <3>1, <3>2
  <2> QED
    BY <2>1, <2>2
<1>2. CASE \/ WaitForTls(i) \/ GetToken(i) \/ ConfigureRealm(i)
           \/ ListUsers(i) \/ CreateUser(i) \/ SetPassword(i) \/ RestartPod(i)
  <2>1. Live(i) /\ \A j \in Jobs \ {i} : pc'[j] = pc[j]
    BY <1>2, OtherStepsMove
  <2>2. UNCHANGED <<latest, faults>>
    BY <1>2 DEF WaitForTls, GetToken, ConfigureRealm, ListUsers, CreateUser,
       SetPassword, RestartPod
  <2>3. CASE \/ WaitForTls(i) \/ GetToken(i) \/ ConfigureRealm(i)
             \/ ListUsers(i) \/ RestartPod(i)
    <3>1. user' = user /\ pc[i] # "setPassword"
      BY <2>3 DEF WaitForTls, GetToken, ConfigureRealm, ListUsers, RestartPod,
         keycloak
    <3> QED
      BY <2>1, <2>2, <3>1
  <2>4. CASE CreateUser(i)
    <3>1. \/ user' = user /\ pc[i] # "setPassword"
          \/ user' = "created" /\ pc'[i] = "setPassword"
      BY <2>4, GoMove DEF CreateUser
    <3> QED
      BY <2>1, <2>2, <3>1
  <2>5. CASE SetPassword(i)
    BY <2>1, <2>2, <2>5 DEF SetPassword
  <2> QED
    BY <1>2, <2>3, <2>4, <2>5
<1> QED
  BY <1>1, <1>2 DEF ScriptStep, ClientStep, ReadStep

LEMMA DemoNext ==
  ~Overlap /\ MaxFaults = 0 => (Inv /\ DemoInv /\ [Next]_vars => DemoInv')
<1> SUFFICES ASSUME ~Overlap, MaxFaults = 0, Inv, DemoInv, [Next]_vars
             PROVE  DemoInv'
  OBVIOUS
<1>1. CASE UNCHANGED <<user, faults, latest, pc>>
  BY <1>1 DEF DemoInv, Live
<1>2. CASE KeycloakStarts \/ UNCHANGED vars
  BY <1>1, <1>2 DEF KeycloakStarts, vars, keycloak, pods
<1>3. ASSUME NEW i \in Jobs, NEW d \in DOMAIN Deployments, StartJob(i, d)
      PROVE  DemoInv'
  <2>1. /\ \A j \in Jobs : ~Live(j)
        /\ \A j \in Jobs \ {i} : pc'[j] = pc[j]
        /\ latest' = i /\ UNCHANGED <<user, faults>>
    BY <1>3 DEF StartJob, keycloak, Inv, RealmTypeOK
  <2>2. user # "created"
    BY <2>1 DEF DemoInv, Live, Script
  <2> QED
    BY <2>1, <2>2 DEF DemoInv, Live
<1>4. ASSUME NEW i \in Jobs, ScriptStep(i) \/ RestartPod(i)
      PROVE  DemoInv'
  <2>1. /\ Live(i) /\ UNCHANGED <<latest, faults>>
        /\ \A j \in Jobs \ {i} : pc'[j] = pc[j]
        /\ \/ user' = user /\ pc[i] # "setPassword"
           \/ user' = "created" /\ pc'[i] = "setPassword"
           \/ user' = "ready"
    BY <1>4, UserStep
  <2>2. \A j \in Jobs : Live(j)' => j = latest'
    BY <2>1 DEF DemoInv, Live
  <2>3. user = "created" => pc[i] = "setPassword"
    BY <2>1 DEF DemoInv, Live, Script
  <2> QED
    BY <2>1, <2>2, <2>3 DEF DemoInv, DemoStates
<1>5. ASSUME NEW i \in Jobs, Crash(i) \/ HelmDeletesJob(i)
      PROVE  FALSE
  BY <1>5 DEF Crash, HelmDeletesJob, DemoInv
<1> QED
  BY <1>2, <1>3, <1>4, <1>5 DEF Next

\* A Job ends with success in one of the two steps about the demo user.
LEMMA DoneBy ==
  ASSUME Inv, [Next]_vars, NEW j \in Jobs, pc[j] # "done", pc'[j] = "done"
  PROVE  ListUsers(j) \/ SetPassword(j)
<1>1. ASSUME NEW i \in Jobs, PodStep(i)
      PROVE  ListUsers(j) \/ SetPassword(j)
  <2>1. CASE ClientStep(i)
    BY <2>1, ClientStepsMove
  <2>2. CASE \/ WaitForTls(i) \/ GetToken(i) \/ ConfigureRealm(i) \/ CreateUser(i)
             \/ RestartPod(i) \/ Crash(i) \/ HelmDeletesJob(i)
    <3>1. pc[i] \notin {"users", "setPassword"} \/ Crash(i) \/ HelmDeletesJob(i)
      BY <2>2 DEF WaitForTls, GetToken, ConfigureRealm, CreateUser, RestartPod
    <3>2. Crash(i) \/ HelmDeletesJob(i) => pc'[i] # "done"
      BY DEF Crash, Raise, HelmDeletesJob, Inv, RealmTypeOK
    <3> QED
      BY <2>2, <3>1, <3>2, OtherStepsMove
  <2>3. CASE ListUsers(i) \/ SetPassword(i)
    BY <2>3, OtherStepsMove
  <2> QED
    BY <1>1, <2>1, <2>2, <2>3 DEF PodStep, ScriptStep, ClientStep, ReadStep
<1>2. ASSUME NEW i \in Jobs, NEW d \in DOMAIN Deployments, StartJob(i, d)
      PROVE  FALSE
  BY <1>2 DEF StartJob, Inv, RealmTypeOK
<1> QED
  BY <1>1, <1>2 DEF Next, PodStep, KeycloakStarts, vars, pods

\* With Jobs in sequence and no pod killed, every Job that succeeds with the
\* demo user enabled leaves it with a password, over any number of revisions
\* and failed attempts: a missing one takes a killed pod, or Jobs that overlap.
THEOREM DemoUserReady ==
  ~Overlap /\ MaxFaults = 0 => (Spec => DemoUserHasPassword)
<1> SUFFICES ASSUME ~Overlap, MaxFaults = 0 PROVE Spec => DemoUserHasPassword
  OBVIOUS
<1> DEFINE J == Inv /\ DemoInv
           A == \A j \in Jobs :
                    pc[j] # "done" /\ pc'[j] = "done"
                        /\ Deployments[cfg[j]].demo = "yes" => user' = "ready"
<1>1. Init => J
  BY InitInv DEF Init, DemoInv, DemoStates, Live, Script
<1>2. J /\ [Next]_vars => J'
  BY NextInv, DemoNext
<1>3. J /\ [Next]_vars => A
  <2> SUFFICES ASSUME J, [Next]_vars, NEW j \in Jobs, pc[j] # "done",
                      pc'[j] = "done", Deployments[cfg[j]].demo = "yes"
               PROVE  user' = "ready"
    OBVIOUS
  <2>1. ListUsers(j) \/ SetPassword(j)
    BY DoneBy
  <2>2. CASE ListUsers(j)
    <3>1. user # "absent" /\ user' = user
      BY <2>2, GoMove DEF ListUsers, keycloak
    <3>2. user # "created"
      BY <2>2 DEF ListUsers, DemoInv, Live, Script
    <3> QED
      BY <3>1, <3>2 DEF DemoInv, DemoStates
  <2>3. CASE SetPassword(j)
    BY <2>3 DEF SetPassword
  <2> QED
    BY <2>1, <2>2, <2>3
<1>4. [][A]_vars => DemoUserHasPassword
  BY PTL DEF DemoUserHasPassword
<1> QED
  BY <1>1, <1>2, <1>3, <1>4, PTL DEF Spec
=============================================================================
