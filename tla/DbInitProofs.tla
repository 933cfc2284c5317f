------------------------------ MODULE DbInitProofs ------------------------------
(***************************************************************************)
(* Theorems about DbInit with the Helm it runs under, for all databases,   *)
(* secrets, revisions, retries and faults, and Jobs that overlap.          *)
(*                                                                         *)
(* What a pod may rely on (PodOK) only speaks of facts that no other pod   *)
(* can undo: a user keeps its password, a ready database stays ready       *)
(* (Grow).  So each action has to re-establish PodOK for its own pod only. *)
(***************************************************************************)
EXTENDS DbInit, HookSecretsProofs

Labels == Script \cup {"none", "starting", "backoff", "done", "failed", "deleted"}
\* The pod has seen the user of the database it works on, or created it.
Owning == {"databaseExists", "createDatabase", "connectDb", "extensions"}

DbTypes ==
    /\ role \in [Databases -> SecretValues]
    /\ db \in [Databases -> {"absent", "created", "ready"}]
    /\ pc \in [Jobs -> Labels]
    /\ env \in [Jobs -> [Databases -> SecretValues]]
    /\ idx \in [Jobs -> 1 .. Len(Dbs)]

Good(d) == role[d] # None /\ db[d] = "ready"

PodOK(j) ==
    /\ pc[j] \in Script => /\ \A d \in Databases : env[j][d] # None
                           /\ \A n \in 1 .. idx[j] - 1 : Good(Dbs[n])
    /\ pc[j] \in Owning => role[Db(j)] # None
    /\ pc[j] \in {"ulid", "done"} => \A d \in Databases : Good(d)

\* Users and pods have the first value of their secret.
Passwords == \A d \in Databases :
    /\ role[d] \in {None, original[PasswordOf[d]]}
    /\ \A j \in Jobs : env[j][d] \in {None, original[PasswordOf[d]]}

DbInv == DbTypes /\ (\A j \in Jobs : PodOK(j)) /\ (helmFaults = 0 => Passwords)

\* What no step takes back.
Grow == \A d \in Databases : /\ role[d] # None => role'[d] = role[d]
                             /\ db[d] = "ready" => db'[d] = "ready"

LEMMA DbInitInv == Init => DbInv
<1> SUFFICES ASSUME Init PROVE DbInv
  OBVIOUS
<1> USE DEF Init
<1>1. DbTypes
  <2>1. None \in SecretValues /\ 1 \in 1 .. Len(Dbs) /\ "none" \in Labels
    BY DbInitAssumption DEF SecretValues, Labels
  <2>2. role \in [Databases -> SecretValues]
    BY <2>1
  <2>3. env \in [Jobs -> [Databases -> SecretValues]]
    BY <2>1
  <2> QED
    BY <2>1, <2>2, <2>3 DEF DbTypes
<1>2. \A j \in Jobs : PodOK(j)
  BY DEF PodOK, Script, Owning
<1>3. Passwords
  BY DEF Passwords
<1> QED
  BY <1>1, <1>2, <1>3 DEF DbInv

LEMMA DbIsDatabase == DbTypes => \A j \in Jobs : Db(j) \in Databases
BY DEF DbTypes, Db, Databases

\* A pod that does nothing loses nothing.
LEMMA FrameOK ==
  ASSUME DbTypes, Grow, NEW j \in Jobs, PodOK(j),
         pc'[j] = pc[j], idx'[j] = idx[j], env'[j] = env[j]
  PROVE  PodOK(j)'
<1>1. \A d \in Databases : Good(d) => Good(d)'
  BY DEF Grow, Good
<1>2. \A n \in 1 .. idx[j] - 1 : Dbs[n] \in Databases
  BY DbInitAssumption DEF DbTypes, Databases
<1>3. Db(j)' = Db(j) /\ Db(j) \in Databases
  BY DbIsDatabase DEF Db
<1>4. ASSUME pc'[j] \in Script
      PROVE  /\ \A d \in Databases : env'[j][d] # None
             /\ \A n \in 1 .. idx'[j] - 1 : Good(Dbs[n])'
  BY <1>1, <1>2, <1>4 DEF PodOK
<1>5. pc'[j] \in Owning => role'[Db(j)'] # None
  BY <1>3 DEF PodOK, Grow
<1>6. pc'[j] \in {"ulid", "done"} => \A d \in Databases : Good(d)'
  BY <1>1 DEF PodOK
<1> QED
  BY <1>4, <1>5, <1>6 DEF PodOK

LEMMA IdleOK ==
  ASSUME NEW j \in Jobs, pc'[j] \notin Script \cup {"done"}
  PROVE  PodOK(j)'
BY DEF PodOK, Script, Owning

\* The other pods are where they were, or one has lost a race.
Beside(i) == \A j \in Jobs \ {i} :
    /\ pc'[j] = pc[j] \/ pc'[j] \in {"backoff", "failed"}
    /\ idx'[j] = idx[j] /\ env'[j] = env[j]

\* One pod takes a step.
LEMMA PodInv ==
  ASSUME DbInv, UNCHANGED helm, NEW i \in Jobs, DbTypes', Grow, PodOK(i)',
         Beside(i), helmFaults = 0 => Passwords'
  PROVE  DbInv'
<1>1. ASSUME NEW j \in Jobs PROVE PodOK(j)'
  <2>1. CASE j = i
    BY <2>1
  <2>2. CASE j # i /\ pc'[j] = pc[j]
    BY <2>2, FrameOK DEF DbInv, Beside
  <2>3. CASE pc'[j] \in {"backoff", "failed"}
    BY <2>3, IdleOK DEF Script
  <2> QED
    BY <2>1, <2>2, <2>3 DEF Beside
<1> QED
  BY <1>1 DEF DbInv, helm

\* A pod that goes on without writing anything.
LEMMA MoveInv ==
  ASSUME DbInv, UNCHANGED <<helm, role, db, env, idx>>, NEW i \in Jobs,
         NEW l \in Labels, pc' = [pc EXCEPT ![i] = l], PodOK(i)'
  PROVE  DbInv'
<1>1. DbTypes'
  BY DEF DbInv, DbTypes
<1>2. Grow
  BY DEF Grow
<1>3. Beside(i)
  BY DEF DbInv, DbTypes, Beside
<1>4. helmFaults = 0 => Passwords'
  BY DEF DbInv, Passwords, helm
<1> QED
  BY <1>1, <1>2, <1>3, <1>4, PodInv

LEMMA RaiseInv ==
  ASSUME DbInv, UNCHANGED <<helm, role, db, env, idx>>, NEW i \in Jobs,
         Raise(i)
  PROVE  DbInv'
<1>1. PICK l \in {"backoff", "failed"} : pc' = [pc EXCEPT ![i] = l]
  BY DEF Raise, Raised
<1>2. l \in Labels /\ l \notin Script \cup {"done"}
  BY DEF Labels, Script
<1>3. PodOK(i)'
  BY <1>1, <1>2, IdleOK DEF DbInv, DbTypes
<1> QED
  BY <1>1, <1>2, <1>3, MoveInv

\* The script goes on to a point where it relies on no more than before, or
\* on the user that it has found.
LEMMA GoInv ==
  ASSUME DbInv, UNCHANGED <<helm, role, db, env, idx>>, NEW i \in Jobs,
         pc[i] \in Script, NEW l \in Script \ {"ulid"}, GoTo(i, l),
         l \in Owning => role[Db(i)] # None
  PROVE  DbInv'
<1>1. pc' = [pc EXCEPT ![i] = l] /\ pc'[i] = l /\ l \in Labels
  BY DEF GoTo, DbInv, DbTypes, Labels
<1>2. PodOK(i)'
  BY <1>1 DEF DbInv, PodOK, Good, Db, Script
<1> QED
  BY <1>1, <1>2, MoveInv

-----------------------------------------------------------------------------
(* The script.                                                             *)

LEMMA ConnectInv ==
  ASSUME DbInv, NEW i \in Jobs,
         \/ Connect(i, "connect", "userExists")
         \/ Connect(i, "connectDb", "extensions")
  PROVE  DbInv'
<1>1. /\ UNCHANGED <<helm, role, db, env, idx>>
      /\ pc[i] \in {"connect", "connectDb"}
      /\ \/ pc[i] = "connect" /\ GoTo(i, "userExists")
         \/ pc[i] = "connectDb" /\ GoTo(i, "extensions")
         \/ UNCHANGED pc
         \/ Raise(i)
  BY DEF Connect, Rest
<1>2. CASE pc[i] = "connect" /\ GoTo(i, "userExists")
  <2>1. "userExists" \in Script \ {"ulid"} /\ "userExists" \notin Owning
        /\ pc[i] \in Script
    BY <1>2 DEF Script, Owning
  <2> QED
    BY <1>1, <1>2, <2>1, GoInv
<1>3. CASE pc[i] = "connectDb" /\ GoTo(i, "extensions")
  <2>1. "extensions" \in Script \ {"ulid"} /\ pc[i] \in Script
    BY <1>3 DEF Script
  <2>2. role[Db(i)] # None
    BY <1>3 DEF DbInv, PodOK, Owning
  <2> QED
    BY <1>1, <1>3, <2>1, <2>2, GoInv
<1>4. CASE UNCHANGED pc
  BY <1>1, <1>4 DEF DbInv, DbTypes, PodOK, Good, Db, Passwords, helm
<1>5. CASE Raise(i)
  BY <1>1, <1>5, RaiseInv
<1> QED
  BY <1>1, <1>2, <1>3, <1>4, <1>5

LEMMA UserExistsInv ==
  ASSUME DbInv, NEW i \in Jobs, UserExists(i)
  PROVE  DbInv'
<1>1. /\ UNCHANGED <<helm, role, db, env, idx>>
      /\ pc[i] \in Script
      /\ {"createUser", "databaseExists"} \subseteq Script \ {"ulid"}
      /\ "createUser" \notin Owning
  BY DEF UserExists, Rest, Script, Owning
<1>2. CASE role[Db(i)] = None
  BY <1>1, <1>2, GoInv DEF UserExists
<1>3. CASE role[Db(i)] # None
  BY <1>1, <1>3, GoInv DEF UserExists
<1> QED
  BY <1>2, <1>3

LEMMA DatabaseExistsInv ==
  ASSUME DbInv, NEW i \in Jobs, DatabaseExists(i)
  PROVE  DbInv'
<1>1. /\ UNCHANGED <<helm, role, db, env, idx>>
      /\ pc[i] = "databaseExists" /\ pc[i] \in Script
      /\ {"createDatabase", "connectDb"} \subseteq Script \ {"ulid"}
  BY DEF DatabaseExists, Rest, Script
<1>2. role[Db(i)] # None
  BY <1>1 DEF DbInv, PodOK, Owning
<1>3. CASE db[Db(i)] = "absent"
  BY <1>1, <1>2, <1>3, GoInv DEF DatabaseExists
<1>4. CASE db[Db(i)] # "absent"
  BY <1>1, <1>2, <1>4, GoInv DEF DatabaseExists
<1> QED
  BY <1>3, <1>4

\* A user gets the password in the pod's environment, once.
LEMMA CreateUserInv ==
  ASSUME DbInv, NEW i \in Jobs, CreateUser(i)
  PROVE  DbInv'
<1>1. CASE role[Db(i)] # None
  BY <1>1, RaiseInv DEF CreateUser, Rest
<1>2. CASE role[Db(i)] = None
  <2> DEFINE d == Db(i)
  <2>1. /\ d \in Databases /\ pc[i] = "createUser" /\ pc[i] \in Script
        /\ role' = [role EXCEPT ![d] = env[i][d]]
        /\ pc' = [pc EXCEPT ![i] = "databaseExists"]
        /\ UNCHANGED <<helm, db, env, idx>>
    BY <1>2, DbIsDatabase DEF CreateUser, Rest, GoTo, DbInv, Script
  <2>2. /\ role'[d] = env[i][d]
        /\ \A c \in Databases \ {d} : role'[c] = role[c]
        /\ pc'[i] = "databaseExists"
        /\ \A j \in Jobs \ {i} : pc'[j] = pc[j]
    BY <2>1 DEF DbInv, DbTypes
  <2>3. env[i][d] # None
    BY <2>1 DEF DbInv, PodOK
  <2>4. DbTypes'
    <3>1. role' \in [Databases -> SecretValues]
      BY <2>1 DEF DbInv, DbTypes
    <3>2. pc' \in [Jobs -> Labels]
      BY <2>1 DEF DbInv, DbTypes, Labels, Script
    <3> QED
      BY <2>1, <3>1, <3>2 DEF DbInv, DbTypes
  <2>5. Grow
    BY <1>2, <2>1, <2>2 DEF Grow
  <2>6. PodOK(i)'
    <3>4. \A n \in 1 .. idx[i] - 1 : Dbs[n] \in Databases
      BY DbInitAssumption DEF DbInv, DbTypes, Databases
    <3>1. /\ \A c \in Databases : env'[i][c] # None
          /\ \A n \in 1 .. idx[i] - 1 : Good(Dbs[n]) /\ Dbs[n] \in Databases
      BY <2>1, <3>4 DEF DbInv, PodOK
    <3>2. \A n \in 1 .. idx'[i] - 1 : Good(Dbs[n])'
      BY <2>1, <2>5, <3>1 DEF Grow, Good
    <3>3. role'[Db(i)'] # None
      BY <2>1, <2>2, <2>3 DEF Db
    <3> QED
      BY <2>2, <3>1, <3>2, <3>3 DEF PodOK
  <2>7. helmFaults = 0 => Passwords'
    BY <2>1, <2>2 DEF DbInv, Passwords, helm
  <2>8. Beside(i)
    BY <2>1, <2>2 DEF Beside
  <2> QED
    BY <2>1, <2>4, <2>5, <2>6, <2>7, <2>8, PodInv
<1> QED
  BY <1>1, <1>2

LEMMA CreateDatabaseInv ==
  ASSUME DbInv, NEW i \in Jobs, CreateDatabase(i)
  PROVE  DbInv'
<1>1. CASE db[Db(i)] # "absent"
  BY <1>1, RaiseInv DEF CreateDatabase, Rest
<1>2. CASE db[Db(i)] = "absent"
  <2> DEFINE d == Db(i)
  <2>1. /\ d \in Databases /\ pc[i] = "createDatabase" /\ pc[i] \in Script
        /\ db' = [db EXCEPT ![d] = "created"]
        /\ pc' = [pc EXCEPT ![i] = "connectDb"]
        /\ UNCHANGED <<helm, role, env, idx>>
    BY <1>2, DbIsDatabase DEF CreateDatabase, Rest, GoTo, DbInv, Script
  <2>2. /\ \A c \in Databases \ {d} : db'[c] = db[c]
        /\ pc'[i] = "connectDb"
        /\ \A j \in Jobs \ {i} : pc'[j] = pc[j]
    BY <2>1 DEF DbInv, DbTypes
  <2>3. DbTypes'
    BY <2>1 DEF DbInv, DbTypes, Labels, Script
  <2>4. Grow
    BY <1>2, <2>1, <2>2 DEF Grow
  <2>5. PodOK(i)'
    <3>1. /\ \A c \in Databases : env'[i][c] # None
          /\ \A n \in 1 .. idx[i] - 1 : Good(Dbs[n])
          /\ \A n \in 1 .. idx[i] - 1 : Dbs[n] \in Databases
          /\ role[d] # None
      BY <2>1, DbInitAssumption DEF DbInv, DbTypes, PodOK, Databases, Owning
    <3>2. \A n \in 1 .. idx'[i] - 1 : Good(Dbs[n])'
      BY <2>1, <2>4, <3>1 DEF Grow, Good
    <3>3. role'[Db(i)'] # None
      BY <2>1, <3>1 DEF Db
    <3> QED
      BY <2>2, <3>1, <3>2, <3>3 DEF PodOK
  <2>6. helmFaults = 0 => Passwords'
    BY <2>1 DEF DbInv, Passwords, helm
  <2>7. Beside(i)
    BY <2>1, <2>2 DEF Beside
  <2> QED
    BY <2>1, <2>3, <2>4, <2>5, <2>6, <2>7, PodInv
<1> QED
  BY <1>1, <1>2

LEMMA GoFirstPods ==
  ASSUME DbTypes, NEW i \in Jobs, NEW l \in Labels, GoFirst(i, l)
  PROVE  /\ pc' \in [Jobs -> Labels] /\ pc'[i] = l
         /\ \A j \in Jobs \ {i} : \/ pc'[j] = pc[j]
                                  \/ /\ pc'[j] = Raised(j)
                                     /\ pc'[j] \in {"backoff", "failed"}
<1>1. \A j \in Jobs : Raised(j) \in {"backoff", "failed"} /\ Raised(j) \in Labels
  BY DEF Raised, Labels
<1>2. PICK losers \in SUBSET Racing(i) :
        pc' = [j \in Jobs |-> IF j = i THEN l
                              ELSE IF j \in losers THEN Raised(j) ELSE pc[j]]
  BY DEF GoFirst
<1> QED
  BY <1>1, <1>2 DEF DbTypes

\* The database the pod works on is ready; behind the last one, all are.
LEMMA SetExtensionsAndRolesInv ==
  ASSUME DbInv, NEW i \in Jobs, SetExtensionsAndRoles(i)
  PROVE  DbInv'
<1> DEFINE d == Db(i)
<1>1. /\ d \in Databases /\ pc[i] = "extensions" /\ pc[i] \in Script
      /\ db' = [db EXCEPT ![d] = "ready"]
      /\ NextDatabase(i)
      /\ UNCHANGED <<helm, role, env>>
      /\ idx[i] \in 1 .. Len(Dbs) /\ idx \in [Jobs -> 1 .. Len(Dbs)]
      /\ pc \in [Jobs -> Labels]
  BY DbIsDatabase DEF SetExtensionsAndRoles, Rest, DbInv, DbTypes, Script
<1>2. /\ db' \in [Databases -> {"absent", "created", "ready"}]
      /\ db'[d] = "ready"
      /\ \A c \in Databases \ {d} : db'[c] = db[c]
  BY <1>1 DEF DbInv, DbTypes
<1>3. Grow
  BY <1>1, <1>2 DEF Grow
<1>4. \A n \in 1 .. idx[i] : Good(Dbs[n])'
  <2>1. /\ \A n \in 1 .. idx[i] - 1 : Good(Dbs[n]) /\ Dbs[n] \in Databases
        /\ role[d] # None
    BY <1>1, DbInitAssumption DEF DbInv, PodOK, Databases, Owning
  <2>2. \A n \in 1 .. idx[i] - 1 : Good(Dbs[n])'
    BY <1>1, <1>3, <2>1 DEF Grow, Good
  <2>3. role'[Dbs[idx[i]]] # None /\ db'[Dbs[idx[i]]] = "ready"
    BY <1>1, <1>2, <2>1 DEF Db
  <2> QED
    BY <1>1, <2>2, <2>3 DEF Good
<1>5. \A c \in Databases : env[i][c] # None
  BY <1>1 DEF DbInv, PodOK
<1>6. helmFaults = 0 => Passwords'
  BY <1>1 DEF DbInv, Passwords, helm
<1>7. CASE idx[i] < Len(Dbs)
  <2>1. /\ idx' = [idx EXCEPT ![i] = idx[i] + 1]
        /\ GoFirst(i, "userExists") /\ "userExists" \in Labels /\ DbTypes
    BY <1>1, <1>7 DEF NextDatabase, DbInv, Labels, Script
  <2>2. /\ idx'[i] = idx[i] + 1 /\ pc'[i] = "userExists"
        /\ idx' \in [Jobs -> 1 .. Len(Dbs)] /\ pc' \in [Jobs -> Labels]
        /\ \A j \in Jobs \ {i} : /\ pc'[j] = pc[j] \/ pc'[j] \in {"backoff", "failed"}
                                 /\ idx'[j] = idx[j]
    BY <1>1, <1>7, <2>1, GoFirstPods, DbInitAssumption
  <2>3. DbTypes'
    BY <1>1, <1>2, <2>2 DEF DbInv, DbTypes
  <2>4. \A n \in 1 .. idx'[i] - 1 : Good(Dbs[n])'
    BY <1>1, <1>4, <2>2
  <2>5. PodOK(i)'
    BY <1>1, <1>5, <2>2, <2>4 DEF PodOK, Owning
  <2>6. Beside(i)
    BY <1>1, <2>2 DEF Beside
  <2> QED
    BY <1>1, <1>3, <1>6, <2>3, <2>5, <2>6, PodInv
<1>8. CASE ~(idx[i] < Len(Dbs))
  <2>1. PICK l \in {"ulid", "done"} : GoFirst(i, l) /\ l \in Labels /\ DbTypes
    BY <1>1, <1>8, DbInitAssumption DEF NextDatabase, DbInv, Labels, Script
  <2>2. idx' = idx /\ idx[i] = Len(Dbs)
    BY <1>1, <1>8, DbInitAssumption DEF NextDatabase
  <2>3. pc'[i] = l /\ pc' \in [Jobs -> Labels]
        /\ \A j \in Jobs \ {i} : pc'[j] = pc[j] \/ pc'[j] \in {"backoff", "failed"}
    BY <2>1, GoFirstPods
  <2>4. DbTypes'
    BY <1>1, <1>2, <2>2, <2>3 DEF DbInv, DbTypes
  <2>5. \A c \in Databases : Good(c)'
    BY <1>4, <2>2 DEF Databases
  <2>6. \A n \in 1 .. idx'[i] - 1 : Good(Dbs[n])'
    BY <1>1, <1>4, <2>2
  <2>7. PodOK(i)'
    BY <1>1, <1>5, <2>1, <2>3, <2>5, <2>6 DEF PodOK, Owning
  <2>8. Beside(i)
    BY <1>1, <2>2, <2>3 DEF Beside
  <2> QED
    BY <1>1, <1>3, <1>6, <2>4, <2>7, <2>8, PodInv
<1> QED
  BY <1>7, <1>8

\* The Job is done, with the function or without.
LEMMA UlidInv ==
  ASSUME DbInv, NEW i \in Jobs, CreateUlidFunc(i) \/ UlidStatementFails(i)
  PROVE  DbInv'
<1>1. /\ pc[i] = "ulid" /\ pc' = [pc EXCEPT ![i] = "done"]
      /\ UNCHANGED <<helm, role, db, env, idx>>
  BY DEF CreateUlidFunc, UlidStatementFails, Rest, GoTo, postgres
<1>2. pc'[i] = "done" /\ "done" \in Labels
  BY <1>1 DEF DbInv, DbTypes, Labels
<1>3. PodOK(i)'
  BY <1>1, <1>2 DEF DbInv, PodOK, Good, Script, Owning
<1> QED
  BY <1>1, <1>2, <1>3, MoveInv

-----------------------------------------------------------------------------
(* Pods, Helm and Postgres.                                                *)

\* The container gets the secrets' values, all of them there.
LEMMA StartContainerInv ==
  ASSUME HelmInv, DbInv, NEW i \in Jobs, StartContainer(i)
  PROVE  DbInv'
<1> DEFINE e == [d \in Databases |-> stored[PasswordOf[d]]]
<1>1. /\ env' = [env EXCEPT ![i] = e]
      /\ pc' = [pc EXCEPT ![i] = "connect"]
      /\ idx' = [idx EXCEPT ![i] = 1]
      /\ \A d \in Databases : stored[PasswordOf[d]] # None
      /\ UNCHANGED <<helm, role, db>>
  BY DEF StartContainer, postgres
<1>2. e \in [Databases -> SecretValues]
  BY DbInitAssumption DEF HelmInv, HelmTypes
<1>3. /\ env'[i] = e /\ pc'[i] = "connect" /\ idx'[i] = 1
      /\ Beside(i)
  BY <1>1 DEF DbInv, DbTypes, Beside
<1>4. DbTypes'
  <2>1. env' \in [Jobs -> [Databases -> SecretValues]]
    BY <1>1, <1>2 DEF DbInv, DbTypes
  <2>2. /\ pc' \in [Jobs -> Labels]
        /\ idx' \in [Jobs -> 1 .. Len(Dbs)]
    BY <1>1, DbInitAssumption DEF DbInv, DbTypes, Labels, Script
  <2> QED
    BY <1>1, <2>1, <2>2 DEF DbInv, DbTypes
<1>5. Grow
  BY <1>1 DEF Grow
<1>6. PodOK(i)'
  <2>1. \A d \in Databases : env'[i][d] # None
    BY <1>1, <1>3
  <2> QED
    BY <1>3, <2>1 DEF PodOK, Owning
<1>7. ASSUME helmFaults = 0 PROVE Passwords'
  <2>1. \A d \in Databases : e[d] \in {None, original[PasswordOf[d]]}
    BY <1>7, DbInitAssumption DEF HelmInv, Complete, Fixed
  <2>2. Passwords
    BY <1>7 DEF DbInv
  <2>3. original' = original
    BY <1>1 DEF helm
  <2> QED
    BY <1>1, <1>3, <2>1, <2>2, <2>3 DEF Passwords
<1> QED
  BY <1>1, <1>3, <1>4, <1>5, <1>6, <1>7, PodInv

LEMMA PodEndsInv ==
  ASSUME DbInv, NEW i \in Jobs, RestartPod(i) \/ Crash(i) \/ HelmDeletesJob(i)
  PROVE  DbInv'
<1>1. UNCHANGED <<helm, role, db, env, idx>>
  BY DEF RestartPod, Crash, HelmDeletesJob, postgres
<1>2. Raise(i) \/ \E l \in {"starting", "deleted"} : pc' = [pc EXCEPT ![i] = l]
  BY DEF RestartPod, Crash, HelmDeletesJob
<1>3. CASE Raise(i)
  BY <1>1, <1>3, RaiseInv
<1>4. ASSUME NEW l \in {"starting", "deleted"}, pc' = [pc EXCEPT ![i] = l]
      PROVE  DbInv'
  <2>1. l \in Labels /\ l \notin Script \cup {"done"}
    BY DEF Labels, Script
  <2>2. PodOK(i)'
    BY <1>4, <2>1, IdleOK DEF DbInv, DbTypes
  <2> QED
    BY <1>1, <1>4, <2>1, <2>2, MoveInv
<1> QED
  BY <1>2, <1>3, <1>4

\* Helm never takes the first value of a secret back.
LEMMA HelmKeepsOriginal ==
  ASSUME HelmInv, Command \/ HooksStep
  PROVE  /\ helmFaults' = 0 => helmFaults = 0
         /\ \A s \in Names : original[s] # None => original'[s] = original[s]
<1>1. CASE Command
  BY <1>1 DEF Command, Upgrade, Rollback, Apply
<1>2. CASE DeleteOld
  BY <1>2 DEF DeleteOld
<1>3. CASE HelmFails
  BY <1>3 DEF HelmFails, HelmInv, HelmTypes
<1>4. CASE CreateNew
  BY <1>4 DEF CreateNew, HelmInv, HelmTypes
<1> QED
  BY <1>1, <1>2, <1>3, <1>4 DEF HooksStep

LEMMA HelmStepInv ==
  ASSUME HelmInv, DbInv, HelmStep
  PROVE  DbInv'
<1>1. UNCHANGED <<role, db, pc, env, idx>>
  BY DEF HelmStep, dbVars, postgres, pods
<1>2. DbTypes' /\ \A j \in Jobs : PodOK(j)'
  BY <1>1 DEF DbInv, DbTypes, PodOK, Good, Db
<1>3. ASSUME helmFaults' = 0 PROVE Passwords'
  <2>1. /\ Passwords
        /\ \A s \in Names : original[s] # None => original'[s] = original[s]
    BY <1>3, HelmKeepsOriginal DEF HelmStep, DbInv
  <2>2. \A d \in Databases : PasswordOf[d] \in Names
    BY DbInitAssumption
  <2> QED
    BY <1>1, <2>1, <2>2 DEF Passwords
<1> QED
  BY <1>2, <1>3 DEF DbInv

LEMMA DeployInv ==
  ASSUME DbInv, Deploy
  PROVE  DbInv'
<1>1. /\ UNCHANGED <<role, db, env, idx, original, helmFaults>>
      /\ \/ pc' = [pc EXCEPT ![current'] = "starting"]
         \/ pc' = pc
  BY DEF Deploy, ApplyResources, postgres
<1>2. DbTypes'
  BY <1>1 DEF DbInv, DbTypes, Labels
<1>3. ASSUME NEW j \in Jobs PROVE PodOK(j)'
  <2>1. pc'[j] = pc[j] \/ pc'[j] = "starting"
    BY <1>1 DEF DbInv, DbTypes
  <2>2. CASE pc'[j] = pc[j]
    BY <1>1, <2>2, FrameOK DEF DbInv, Grow
  <2>3. CASE pc'[j] = "starting"
    BY <2>3, IdleOK DEF Script
  <2> QED
    BY <2>1, <2>2, <2>3
<1> QED
  BY <1>1, <1>2, <1>3 DEF DbInv, Passwords

LEMMA UninstallAllInv ==
  ASSUME DbInv, UninstallAll
  PROVE  DbInv'
<1>1. /\ UNCHANGED <<role, db, env, idx, original, helmFaults>>
      /\ pc' = [j \in Jobs |-> IF pc[j] = "none" THEN "none" ELSE "deleted"]
  BY DEF UninstallAll, Uninstall
<1>2. DbTypes'
  BY <1>1 DEF DbInv, DbTypes, Labels
<1>3. \A j \in Jobs : PodOK(j)'
  BY <1>1, IdleOK DEF Script
<1> QED
  BY <1>1, <1>2, <1>3 DEF DbInv, Passwords

LEMMA RestInv ==
  ASSUME DbInv, UNCHANGED <<role, db, pc, env, idx, original, helmFaults>>
  PROVE  DbInv'
BY DEF DbInv, DbTypes, PodOK, Good, Db, Passwords

-----------------------------------------------------------------------------
Inv == HelmInv /\ DbInv

LEMMA InitInv == Init => Inv
BY HelmInitInv, DbInitInv DEF Inv, Init

\* Whatever happens in a step, Helm takes one of its own or stutters.
LEMMA HelmTakesItsSteps == [Next]_vars => [HelmNext]_helm
<1> SUFFICES ASSUME [Next]_vars PROVE HelmNext \/ UNCHANGED helm
  OBVIOUS
<1>1. CASE HelmStep \/ Deploy \/ DeployFails \/ UninstallAll
  BY <1>1 DEF HelmStep, Deploy, DeployFails, UninstallAll, HelmNext
<1>2. ASSUME NEW j \in Jobs, \/ PodStep(j) \/ Crash(j) \/ UlidStatementFails(j)
                             \/ HelmDeletesJob(j)
      PROVE  UNCHANGED helm
  BY <1>2 DEF PodStep, Crash, UlidStatementFails, HelmDeletesJob, StartContainer, RestartPod,
     ScriptStep, Connect, UserExists, CreateUser, DatabaseExists,
     CreateDatabase, SetExtensionsAndRoles, CreateUlidFunc, Rest
<1> QED
  BY <1>1, <1>2 DEF Next, vars, PostgresStarts

LEMMA HelmInvNext == HelmInv /\ [Next]_vars => HelmInv'
BY HelmTakesItsSteps, HelmNextInv

LEMMA DbInvNext == HelmInv /\ DbInv /\ [Next]_vars => DbInv'
<1> SUFFICES ASSUME HelmInv, DbInv, [Next]_vars PROVE DbInv'
  OBVIOUS
<1>1. CASE HelmStep
  BY <1>1, HelmStepInv
<1>2. CASE Deploy
  BY <1>2, DeployInv
<1>3. CASE DeployFails
  BY <1>3, RestInv DEF DeployFails, ApplyResources, dbVars, postgres, pods
<1>4. CASE UninstallAll
  BY <1>4, UninstallAllInv
<1>5. CASE PostgresStarts
  BY <1>5, RestInv DEF PostgresStarts, helm, pods
<1>6. CASE UNCHANGED vars
  BY <1>6, RestInv DEF vars, helm, dbVars, postgres, pods
<1>7. ASSUME NEW j \in Jobs, PodStep(j) PROVE DbInv'
  BY <1>7, StartContainerInv, PodEndsInv, ConnectInv, UserExistsInv,
     CreateUserInv, DatabaseExistsInv, CreateDatabaseInv,
     SetExtensionsAndRolesInv, UlidInv DEF PodStep, ScriptStep
<1>8. ASSUME NEW j \in Jobs, Crash(j) \/ UlidStatementFails(j) \/ HelmDeletesJob(j)
      PROVE  DbInv'
  BY <1>8, PodEndsInv, UlidInv
<1> QED
  BY <1>1, <1>2, <1>3, <1>4, <1>5, <1>6, <1>7, <1>8 DEF Next

LEMMA NextInv == Inv /\ [Next]_vars => Inv'
BY HelmInvNext, DbInvNext DEF Inv

\* A secret that exists opens the database its user was created with: over
\* upgrades, rollbacks, failed deployments, installations on the old volume,
\* overlapping Jobs and dying pods.
THEOREM SecretsOpenDatabases == Spec => []SecretOpensDatabase
<1>1. Inv => SecretOpensDatabase
  <2> SUFFICES ASSUME Inv, helmFaults = 0, NEW d \in Databases, role[d] # None
               PROVE  stored[PasswordOf[d]] \in {None, role[d]}
    BY DEF SecretOpensDatabase, Uninterrupted
  <2>1. role[d] = original[PasswordOf[d]] /\ PasswordOf[d] \in Fixed
    BY DbInitAssumption DEF Inv, DbInv, Passwords, Fixed
  <2> QED
    BY <2>1 DEF Inv, HelmInv, Complete
<1> QED
  BY <1>1, InitInv, NextInv, PTL DEF Spec

\* A Job that succeeds leaves every database with its user, extensions and
\* grants, however many Jobs and pods ran beside it.
THEOREM DoneIsReady == Spec => []DoneMeansReady
<1>1. Inv => DoneMeansReady
  BY DEF Inv, DbInv, PodOK, Good, DoneMeansReady
<1> QED
  BY <1>1, InitInv, NextInv, PTL DEF Spec

\* values.yaml:24 for every step of Helm, the pods and Postgres: a password is
\* never changed, not even by a pod that carries another one.
THEOREM PasswordIsWrittenOnce == Spec => PasswordWrittenOnce
<1> DEFINE Written == \A d \in Databases : role[d] # None => role'[d] = role[d]
<1>1. Inv /\ [Next]_vars => Written
  <2> SUFFICES ASSUME Inv, [Next]_vars PROVE Written
    OBVIOUS
  <2>1. ASSUME NEW j \in Jobs, CreateUser(j) PROVE Written
    BY <2>1, DbIsDatabase DEF CreateUser, Inv, DbInv, DbTypes
  <2>2. ASSUME NEW j \in Jobs, PodStep(j), ~CreateUser(j) PROVE UNCHANGED role
    BY <2>2 DEF PodStep, StartContainer, RestartPod, ScriptStep, Connect,
       UserExists, DatabaseExists, CreateDatabase, SetExtensionsAndRoles,
       CreateUlidFunc, postgres
  <2>3. ASSUME NEW j \in Jobs, Crash(j) \/ UlidStatementFails(j) \/ HelmDeletesJob(j)
        PROVE  UNCHANGED role
    BY <2>3 DEF Crash, UlidStatementFails, HelmDeletesJob, postgres
  <2>4. CASE \/ HelmStep \/ Deploy \/ DeployFails \/ UninstallAll
             \/ PostgresStarts \/ UNCHANGED vars
    BY <2>4 DEF HelmStep, Deploy, DeployFails, UninstallAll, PostgresStarts,
       vars, dbVars, postgres
  <2> QED
    BY <2>1, <2>2, <2>3, <2>4 DEF Next
<1>2. Inv /\ Inv' /\ [Next]_vars => [Written]_vars
  BY <1>1
<1> QED
  BY <1>2, InitInv, NextInv, PTL DEF Spec, PasswordWrittenOnce

-----------------------------------------------------------------------------
(* Types and bounds.                                                       *)

PodBounds ==
    /\ attempt \in [Jobs -> 0 .. BackoffLimit + 1]
    /\ tries \in [Jobs -> Int]
    /\ \A j \in Jobs :
        /\ pc[j] = "backoff" => attempt[j] <= BackoffLimit
        /\ pc[j] \in Script => tries[j] \in 0 .. ConnectAttempts - 1

\* A database does not exist without its owner.
Owned == \A d \in Databases : db[d] # "absent" => role[d] # None

LEMMA InitBounds == Init => PodBounds /\ Owned
BY DbInitAssumption DEF Init, PodBounds, Owned, Script

\* A pod goes on, with as many attempts and tries as before.
LEMMA GoBounds ==
  ASSUME DbTypes, PodBounds, NEW i \in Jobs, UNCHANGED <<attempt, tries>>,
         \/ Raise(i)
         \/ \E l \in Labels \ {"backoff"} :
                /\ pc' = [pc EXCEPT ![i] = l] \/ GoFirst(i, l)
                /\ l \in Script => pc[i] \in Script
  PROVE  PodBounds'
<1>1. ASSUME NEW j \in Jobs, pc'[j] = Raised(j)
      PROVE  /\ pc'[j] = "backoff" => attempt'[j] <= BackoffLimit
             /\ pc'[j] \notin Script
  BY <1>1 DEF Raised, Script
<1>2. CASE Raise(i)
  <2>1. pc'[i] = Raised(i) /\ \A j \in Jobs \ {i} : pc'[j] = pc[j]
    BY <1>2 DEF Raise, DbTypes
  <2> QED
    BY <1>1, <2>1 DEF PodBounds
<1>3. ASSUME NEW l \in Labels \ {"backoff"}, l \in Script => pc[i] \in Script,
             pc' = [pc EXCEPT ![i] = l] \/ GoFirst(i, l)
      PROVE  PodBounds'
  <2>1. pc'[i] = l /\ \A j \in Jobs \ {i} : pc'[j] = pc[j] \/ pc'[j] = Raised(j)
    BY <1>3, GoFirstPods DEF DbTypes
  <2> QED
    BY <1>1, <1>3, <2>1 DEF PodBounds
<1> QED
  BY <1>2, <1>3

LEMMA ConnectBounds ==
  ASSUME DbTypes, PodBounds, NEW i \in Jobs,
         \/ Connect(i, "connect", "userExists")
         \/ Connect(i, "connectDb", "extensions")
  PROVE  PodBounds'
<1>1. PICK l \in {"userExists", "extensions"} :
        \/ pg /\ GoTo(i, l) /\ tries' = [tries EXCEPT ![i] = 0]
        \/ /\ tries' = [tries EXCEPT ![i] = tries[i] + 1]
           /\ IF tries'[i] < ConnectAttempts THEN UNCHANGED pc ELSE Raise(i)
  BY DEF Connect
<1>2. UNCHANGED attempt /\ pc[i] \in Script
  BY DEF Connect, Rest, Script
<1>3. CASE pg /\ GoTo(i, l) /\ tries' = [tries EXCEPT ![i] = 0]
  <2>1. /\ pc'[i] = l /\ tries'[i] = 0 /\ l # "backoff"
        /\ \A j \in Jobs \ {i} : pc'[j] = pc[j] /\ tries'[j] = tries[j]
    BY <1>3 DEF GoTo, DbTypes, PodBounds
  <2>2. /\ 0 \in 0 .. ConnectAttempts - 1
        /\ tries' \in [Jobs -> Int] /\ attempt' = attempt
    BY <1>2, <1>3, DbInitAssumption DEF PodBounds
  <2>3. ASSUME NEW j \in Jobs
        PROVE  /\ pc'[j] = "backoff" => attempt'[j] <= BackoffLimit
               /\ pc'[j] \in Script => tries'[j] \in 0 .. ConnectAttempts - 1
    <3>1. CASE j = i
      BY <2>1, <2>2, <3>1
    <3>2. CASE j # i
      BY <2>1, <2>2, <3>2 DEF PodBounds
    <3> QED
      BY <3>1, <3>2
  <2> QED
    BY <2>2, <2>3 DEF PodBounds
<1>4. CASE /\ tries' = [tries EXCEPT ![i] = tries[i] + 1]
           /\ IF tries'[i] < ConnectAttempts THEN UNCHANGED pc ELSE Raise(i)
  <2>1. /\ tries'[i] = tries[i] + 1 /\ tries' \in [Jobs -> Int]
        /\ \A j \in Jobs \ {i} : tries'[j] = tries[j]
    BY <1>4 DEF PodBounds
  <2>2. CASE tries'[i] < ConnectAttempts /\ UNCHANGED pc
    <3>1. tries[i] \in 0 .. ConnectAttempts - 1
      BY <1>2 DEF PodBounds
    <3>2. tries'[i] \in 0 .. ConnectAttempts - 1
      BY <2>1, <2>2, <3>1, DbInitAssumption
    <3> QED
      BY <1>2, <2>1, <2>2, <3>2 DEF PodBounds
  <2>3. CASE Raise(i)
    <3>1. /\ pc'[i] = IF attempt[i] <= BackoffLimit THEN "backoff" ELSE "failed"
          /\ \A j \in Jobs \ {i} : pc'[j] = pc[j]
      BY <2>3 DEF Raise, Raised, DbTypes
    <3>2. pc'[i] \notin Script
      BY <3>1 DEF Script
    <3> QED
      BY <1>2, <2>1, <3>1, <3>2 DEF PodBounds
  <2> QED
    BY <1>4, <2>2, <2>3
<1> QED
  BY <1>1, <1>3, <1>4

LEMMA ScriptBounds ==
  ASSUME DbTypes, PodBounds, NEW i \in Jobs, ScriptStep(i)
  PROVE  PodBounds'
<1>1. CASE Connect(i, "connect", "userExists") \/ Connect(i, "connectDb", "extensions")
  BY <1>1, ConnectBounds
<1>2. CASE \/ UserExists(i) \/ CreateUser(i) \/ DatabaseExists(i)
           \/ CreateDatabase(i) \/ SetExtensionsAndRoles(i) \/ CreateUlidFunc(i)
  <2>1. UNCHANGED <<attempt, tries>> /\ pc[i] \in Script
    BY <1>2 DEF UserExists, CreateUser, DatabaseExists, CreateDatabase,
       SetExtensionsAndRoles, CreateUlidFunc, Rest, Script
  <2>2. \/ Raise(i)
        \/ \E l \in Script \cup {"done"} : \/ pc' = [pc EXCEPT ![i] = l]
                                           \/ GoFirst(i, l)
    BY <1>2 DEF UserExists, CreateUser, DatabaseExists, CreateDatabase,
       SetExtensionsAndRoles, CreateUlidFunc, NextDatabase, GoTo, Script
  <2>3. Script \cup {"done"} \subseteq Labels \ {"backoff"}
    BY DEF Labels, Script
  <2> QED
    BY <2>1, <2>2, <2>3, GoBounds
<1> QED
  BY <1>1, <1>2 DEF ScriptStep

LEMMA StartBounds ==
  ASSUME DbTypes, PodBounds, NEW i \in Jobs, StartContainer(i) \/ RestartPod(i)
  PROVE  PodBounds'
<1>1. CASE StartContainer(i)
  <2>1. /\ pc' = [pc EXCEPT ![i] = "connect"] /\ tries' = [tries EXCEPT ![i] = 0]
        /\ UNCHANGED attempt
    BY <1>1 DEF StartContainer
  <2>2. /\ pc'[i] = "connect" /\ tries'[i] = 0
        /\ \A j \in Jobs \ {i} : pc'[j] = pc[j] /\ tries'[j] = tries[j]
    BY <2>1 DEF DbTypes, PodBounds
  <2> QED
    BY <2>1, <2>2, DbInitAssumption DEF PodBounds
<1>2. CASE RestartPod(i)
  <2>1. /\ pc' = [pc EXCEPT ![i] = "starting"] /\ UNCHANGED tries
        /\ attempt' = [attempt EXCEPT ![i] = attempt[i] + 1]
        /\ attempt[i] <= BackoffLimit
    BY <1>2 DEF RestartPod, PodBounds
  <2>2. /\ pc'[i] = "starting" /\ "starting" \notin Script
        /\ \A j \in Jobs \ {i} : pc'[j] = pc[j] /\ attempt'[j] = attempt[j]
    BY <2>1 DEF DbTypes, PodBounds, Script
  <2>3. attempt' \in [Jobs -> 0 .. BackoffLimit + 1]
    BY <2>1, DbInitAssumption DEF PodBounds
  <2> QED
    BY <2>1, <2>2, <2>3 DEF PodBounds
<1> QED
  BY <1>1, <1>2

LEMMA PodBoundsNext == DbTypes /\ PodBounds /\ [Next]_vars => PodBounds'
<1> SUFFICES ASSUME DbTypes, PodBounds, [Next]_vars PROVE PodBounds'
  OBVIOUS
<1>1. CASE UNCHANGED <<pc, attempt, tries>>
  BY <1>1 DEF PodBounds
<1>2. CASE HelmStep \/ DeployFails \/ PostgresStarts \/ UNCHANGED vars
  BY <1>1, <1>2 DEF HelmStep, DeployFails, PostgresStarts, vars, dbVars, pods
<1>3. CASE Deploy
  <2>1. /\ UNCHANGED tries
        /\ \/ UNCHANGED <<pc, attempt>>
           \/ /\ pc' = [pc EXCEPT ![current'] = "starting"]
              /\ attempt' = [attempt EXCEPT ![current'] = 1]
    BY <1>3 DEF Deploy
  <2>2. \A j \in Jobs : \/ pc'[j] = pc[j] /\ attempt'[j] = attempt[j]
                        \/ pc'[j] = "starting"
    BY <2>1 DEF DbTypes, PodBounds
  <2>3. attempt' \in [Jobs -> 0 .. BackoffLimit + 1] /\ "starting" \notin Script
    BY <2>1, DbInitAssumption DEF PodBounds, Script
  <2> QED
    BY <2>1, <2>2, <2>3 DEF PodBounds
<1>4. CASE UninstallAll
  BY <1>4 DEF UninstallAll, PodBounds, Script
<1>5. ASSUME NEW j \in Jobs, PodStep(j) PROVE PodBounds'
  BY <1>5, StartBounds, ScriptBounds DEF PodStep
<1>6. ASSUME NEW j \in Jobs, Crash(j) \/ UlidStatementFails(j) PROVE PodBounds'
  <2>1. "done" \in Labels \ {"backoff"} /\ "done" \notin Script
    BY DEF Labels, Script
  <2> QED
    BY <1>6, <2>1, GoBounds DEF Crash, UlidStatementFails, GoTo
<1>7. ASSUME NEW j \in Jobs, HelmDeletesJob(j) PROVE PodBounds'
  <2>1. "deleted" \in Labels \ {"backoff"} /\ "deleted" \notin Script
    BY DEF Labels, Script
  <2> QED
    BY <1>7, <2>1, GoBounds DEF HelmDeletesJob
<1> QED
  BY <1>2, <1>3, <1>4, <1>5, <1>6, <1>7 DEF Next

LEMMA OwnedNext == DbInv /\ Owned /\ [Next]_vars => Owned'
<1> SUFFICES ASSUME DbInv, Owned, [Next]_vars PROVE Owned'
  OBVIOUS
<1>1. CASE UNCHANGED <<role, db>>
  BY <1>1 DEF Owned
<1>2. ASSUME NEW i \in Jobs, CreateUser(i) PROVE Owned'
  <2>1. UNCHANGED db /\ Db(i) \in Databases /\ env[i][Db(i)] # None
    BY <1>2, DbIsDatabase DEF CreateUser, DbInv, PodOK, Script
  <2> QED
    BY <1>2, <2>1 DEF CreateUser, Owned, DbInv, DbTypes
<1>3. ASSUME NEW i \in Jobs, CreateDatabase(i) \/ SetExtensionsAndRoles(i)
      PROVE  Owned'
  <2>1. UNCHANGED role /\ Db(i) \in Databases /\ role[Db(i)] # None
    BY <1>3, DbIsDatabase DEF CreateDatabase, SetExtensionsAndRoles, Rest, DbInv,
       PodOK, Owning
  <2> QED
    BY <1>3, <2>1 DEF CreateDatabase, SetExtensionsAndRoles, Owned, DbInv, DbTypes
<1>4. ASSUME NEW i \in Jobs, \/ PodStep(i) \/ Crash(i) \/ UlidStatementFails(i)
                             \/ HelmDeletesJob(i)
      PROVE  Owned'
  <2>1. CASE \/ StartContainer(i) \/ RestartPod(i) \/ UserExists(i)
             \/ DatabaseExists(i) \/ CreateUlidFunc(i) \/ Crash(i)
             \/ UlidStatementFails(i)
             \/ HelmDeletesJob(i) \/ Connect(i, "connect", "userExists")
             \/ Connect(i, "connectDb", "extensions")
    BY <1>1, <2>1 DEF StartContainer, RestartPod, UserExists, DatabaseExists,
       CreateUlidFunc, UlidStatementFails, Crash, HelmDeletesJob, Connect, Rest,
       postgres
  <2> QED
    BY <1>2, <1>3, <1>4, <2>1 DEF PodStep, ScriptStep
<1> QED
  BY <1>1, <1>4 DEF Next, HelmStep, Deploy, DeployFails, UninstallAll,
     PostgresStarts, vars, dbVars, postgres

\* Helm's part of a step.
LEMMA HelmBoundsNext == HelmTypes /\ HelmBounds /\ [Next]_vars => HelmBounds'
<1> SUFFICES ASSUME HelmTypes, HelmBounds, [Next]_vars PROVE HelmBounds'
  OBVIOUS
<1>1. CASE UNCHANGED helm
  BY <1>1 DEF helm, HelmBounds, UsedValues
<1>2. CASE HelmStep \/ Deploy \/ DeployFails \/ UninstallAll
  BY <1>2, CommandBounds, HooksStepBounds
     DEF HelmStep, Deploy, DeployFails, UninstallAll
<1>3. ASSUME NEW j \in Jobs, \/ PodStep(j) \/ Crash(j) \/ UlidStatementFails(j)
                             \/ HelmDeletesJob(j)
      PROVE  UNCHANGED helm
  BY <1>3 DEF PodStep, Crash, UlidStatementFails, HelmDeletesJob, StartContainer, RestartPod,
     ScriptStep, Connect, UserExists, CreateUser, DatabaseExists,
     CreateDatabase, SetExtensionsAndRoles, CreateUlidFunc, Rest
<1> QED
  BY <1>1, <1>2, <1>3 DEF Next, vars, PostgresStarts

\* Attempts and positions stay within their limits, a pod that works has all
\* its passwords, and no database is without its owner.
THEOREM TypeCorrect == Spec => []TypeOK
<1> DEFINE Bounds == HelmBounds /\ PodBounds /\ Owned
<1>1. Init => Bounds
  BY InitBounds, HelmInitBounds DEF Init
<1>2. Inv /\ Bounds /\ [Next]_vars => Bounds'
  BY HelmBoundsNext, PodBoundsNext, OwnedNext DEF Inv, HelmInv, DbInv
<1>3. Inv /\ Bounds => TypeOK
  <2> SUFFICES ASSUME Inv, Bounds PROVE TypeOK
    OBVIOUS
  <2>1. HelmTypeOK
    BY BoundsAreTypes DEF Inv, HelmInv
  <2>2. ASSUME NEW j \in Jobs
        PROVE  /\ Live(j) \/ pc[j] \in {"none", "done", "failed", "deleted"}
               /\ attempt[j] \in 0 .. BackoffLimit + 1
               /\ idx[j] \in 1 .. Len(Dbs)
               /\ pc[j] \in Script => tries[j] \in 0 .. ConnectAttempts - 1
               /\ pc[j] \in Script => \A d \in Databases : env[j][d] # None
    BY DEF Inv, DbInv, DbTypes, PodOK, PodBounds, Labels, Live
  <2> QED
    BY <2>1, <2>2 DEF TypeOK, Owned
<1> QED
  BY <1>1, <1>2, <1>3, InitInv, NextInv, PTL DEF Spec

\* The certificate is signed by the CA that is there, over upgrades,
\* rollbacks, failed deployments and new installations, and when Helm loses
\* the CA: it must only not stop between the two (SafeInterruptions).
THEOREM CertificateIsSigned ==
  SafeInterruptions => (Spec => []CertificateSignedByCA)
<1> SUFFICES ASSUME SafeInterruptions PROVE Spec => []CertificateSignedByCA
  OBVIOUS
<1>1. Init => PairInv
  BY PairInit DEF Init
<1>2. Inv /\ PairInv /\ [Next]_vars => PairInv'
  BY HelmTakesItsSteps, PairNext DEF Inv, HelmInv
<1> QED
  BY <1>1, <1>2, MatchedIsSigned, InitInv, NextInv, PTL DEF Spec
=============================================================================
