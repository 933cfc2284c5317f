-------------------------- MODULE PlatformInitProofs --------------------------
(***************************************************************************)
(* Theorems about PlatformInit, for every set of Jobs, configurations and  *)
(* keys, every backoff limit and every number of faults.                   *)
(*                                                                         *)
(* TypeOK is not inductive alone (a generated key is named by the number   *)
(* of the pod, which must be in range), nor are PrevDiffers and            *)
(* PublishedAfterStored (they depend on what a pod checked at its read).   *)
(* Inv adds what a pod knows when it makes its next call; SerialInv adds   *)
(* what remains true because no other Job writes in between.               *)
(***************************************************************************)
EXTENDS PlatformInit, TLAPS

Inv == TypeOK /\ PodsInv /\ StoreInv

\* What may be there at the beginning: nothing, or a key that parses.
LEMMA InstalledKeys ==
  Init => /\ privKey \in ValidKeys \cup {None} /\ pubKey = privKey
          /\ ValidKeys \subseteq Strings /\ None \notin Strings
          /\ stored \subseteq ValidKeys
          /\ privKey # None => privKey \in stored /\ Parses(privKey)
  BY ConstantsAssumption DEF Init, Parses, Strings

LEMMA InitInv == Init => Inv
<1> SUFFICES ASSUME Init PROVE Inv
  OBVIOUS
<1>1. TypeOK
  <2>1. /\ {privKey, prevKey, pubKey, encKey, authnKey} \subseteq Value
        /\ stored \subseteq Strings
    BY InstalledKeys DEF Init, Value
  <2>2. NoConfig \in ConfigType
    BY DEF NoConfig, ConfigType, Value
  <2> QED
    BY <2>1, <2>2, ConstantsAssumption DEF Init, TypeOK, Value
<1>2. PodsInv
  <2>1. \A j \in Jobs : /\ pc[j] = "new" /\ attempt[j] = 0
                         /\ ~Truthy(cfg[j].priv) /\ ~Publishing(j)
    BY DEF Init, NoConfig, Truthy, Publishing
  <2> QED
    BY <2>1 DEF PodsInv
<1>3. StoreInv
  BY InstalledKeys DEF Init, StoreInv
<1> QED
  BY <1>1, <1>2, <1>3 DEF Inv

LEMMA TypeStep == Inv /\ [Next]_vars => TypeOK'
<1> SUFFICES ASSUME Inv, [Next]_vars PROVE TypeOK'
  OBVIOUS
<1> USE ConstantsAssumption
    DEF Inv, TypeOK, PodsInv, secrets, Generated, Strings, Value,
        ConfigType, Calls, Truthy, Publishing
<1>1. ASSUME NEW j \in Jobs, NEW c \in Configs, StartJob(j, c)
      PROVE  TypeOK'
  BY <1>1, SMTT(30) DEF StartJob
<1>2. ASSUME NEW j \in Jobs, RestartPod(j)
      PROVE  TypeOK'
  BY <1>2, SMTT(30) DEF RestartPod
<1>3. ASSUME NEW j \in Jobs, Crash(j)
      PROVE  TypeOK'
  BY <1>3, SMTT(30) DEF Crash, Raise
<1>4. ASSUME NEW j \in Jobs, ReadPrivateKey(j)
      PROVE  TypeOK'
  BY <1>4, SMTT(30) DEF ReadPrivateKey, ReadSecret, RotationRefused,
                        Mismatch, Raise, GoTo, KeyToInstall,
                        GeneratedKey
<1>5. ASSUME NEW j \in Jobs, PatchPrivateKey(j)
      PROVE  TypeOK'
  BY <1>5, SMTT(30) DEF PatchPrivateKey, GoTo
<1>6. ASSUME NEW j \in Jobs, CreatePrivateKey(j)
      PROVE  TypeOK'
  BY <1>6, SMTT(30) DEF CreatePrivateKey, GoTo, Raise
<1>7. ASSUME NEW j \in Jobs, ReadPublicKey(j)
      PROVE  TypeOK'
  BY <1>7, SMTT(30) DEF ReadPublicKey, ReadSecret, GoTo, Raise
<1>8. ASSUME NEW j \in Jobs, CreatePublicKey(j)
      PROVE  TypeOK'
  <2>1. key[j] \in Value /\ attempt[j] \in 0 .. BackoffLimit + 1
    OBVIOUS
  <2>2. CASE pubKey = None
    BY <1>8, <2>1, <2>2, SMTT(30) DEF CreatePublicKey, GoTo
  <2>3. CASE pubKey # None
    BY <1>8, <2>1, <2>3, SMTT(30) DEF CreatePublicKey, Raise
  <2> QED
    BY <2>2, <2>3
<1>9. ASSUME NEW j \in Jobs, PatchPublicKey(j)
      PROVE  TypeOK'
  BY <1>9, SMTT(30) DEF PatchPublicKey, GoTo
<1>10. ASSUME NEW j \in Jobs, ReadEncryptionKey(j)
      PROVE  TypeOK'
  BY <1>10, SMTT(30) DEF ReadEncryptionKey, ReadSecret, GoTo
<1>11. ASSUME NEW j \in Jobs, CreateEncryptionKey(j)
      PROVE  TypeOK'
  <2>1. attempt[j] \in 1 .. BackoffLimit + 1 /\ cfg[j].enc \in Value
    BY <1>11, SMTT(30) DEF CreateEncryptionKey
  <2>2. Provisioned(j, cfg[j].enc) \in Strings
    BY <2>1, SMTT(30) DEF Provisioned, GeneratedKey
  <2>3. CASE encKey = None
    BY <1>11, <2>2, <2>3, SMTT(30) DEF CreateEncryptionKey, GoTo
  <2>4. CASE encKey # None
    <3>1. /\ pc' = [pc EXCEPT ![j] = IF attempt[j] <= BackoffLimit
                                     THEN "backoff" ELSE "failed"]
          /\ UNCHANGED <<secrets, cfg, key, attempt, faults>>
      BY <1>11, <2>4 DEF CreateEncryptionKey, Raise
    <3> QED
      BY <3>1, SMTT(30)
  <2> QED
    BY <2>3, <2>4
<1>12. ASSUME NEW j \in Jobs, ReadAuthnKey(j)
      PROVE  TypeOK'
  BY <1>12, SMTT(30) DEF ReadAuthnKey, ReadSecret, GoTo
<1>13. ASSUME NEW j \in Jobs, CreateAuthnKey(j)
      PROVE  TypeOK'
  <2>1. attempt[j] \in 1 .. BackoffLimit + 1 /\ cfg[j].authn \in Value
    BY <1>13, SMTT(30) DEF CreateAuthnKey
  <2>2. Provisioned(j, cfg[j].authn) \in Strings
    BY <2>1, SMTT(30) DEF Provisioned, GeneratedKey
  <2>3. CASE authnKey = None
    BY <1>13, <2>2, <2>3, SMTT(30) DEF CreateAuthnKey, GoTo
  <2>4. CASE authnKey # None
    <3>1. /\ pc' = [pc EXCEPT ![j] = IF attempt[j] <= BackoffLimit
                                     THEN "backoff" ELSE "failed"]
          /\ UNCHANGED <<secrets, cfg, key, attempt, faults>>
      BY <1>13, <2>4 DEF CreateAuthnKey, Raise
    <3> QED
      BY <3>1, SMTT(30)
  <2> QED
    BY <2>3, <2>4
<1>14. ASSUME NEW j \in Jobs, Exit(j)
       PROVE  TypeOK'
  BY <1>14, SMTT(30) DEF Exit, GoTo
<1>15. CASE UNCHANGED vars
  BY <1>15, SMTT(30) DEF vars, secrets, pods, Live, PastPrivateKey
<1> QED
  BY <1>1, <1>2, <1>3, <1>4, <1>5, <1>6, <1>7, <1>8,
     <1>9, <1>10, <1>11, <1>12, <1>13, <1>14, <1>15
     DEF Next, Script

LEMMA PodsStep == Inv /\ [Next]_vars => PodsInv'
<1> SUFFICES ASSUME Inv, [Next]_vars PROVE PodsInv'
  OBVIOUS
<1> USE ConstantsAssumption
    DEF Inv, TypeOK, PodsInv, StoreInv, secrets, Generated, Strings, Value,
        ConfigType, Calls, Truthy, Publishing
<1>1. ASSUME NEW j \in Jobs, NEW c \in Configs, StartJob(j, c)
      PROVE  PodsInv'
  BY <1>1, SMTT(30) DEF StartJob
<1>2. ASSUME NEW j \in Jobs, RestartPod(j)
      PROVE  PodsInv'
  BY <1>2, SMTT(30) DEF RestartPod
<1>3. ASSUME NEW j \in Jobs, Crash(j)
      PROVE  PodsInv'
  BY <1>3, SMTT(30) DEF Crash, Raise
<1>4. ASSUME NEW j \in Jobs, ReadPrivateKey(j)
      PROVE  PodsInv'
  <2>1. /\ attempt[j] \in 1 .. BackoffLimit + 1
        /\ cfg[j].priv \in Value
        /\ GeneratedKey(j, attempt[j]) \in Generated
        /\ stored' = stored
    BY <1>4, SMTT(30) DEF ReadPrivateKey, GeneratedKey
  <2>2. ASSUME Raise(j)
        PROVE  PodsInv'
    BY <1>4, <2>1, <2>2, SMTT(30) DEF Raise
  <2>3. ASSUME NEW existing, Truthy(cfg[j].prev),
               ~RotationRefused(cfg[j], existing),
               GoTo(j, "patchPriv"), UNCHANGED key
        PROVE  PodsInv'
    <3>1. cfg[j].priv \notin {None, cfg[j].prev} /\ cfg[j].prev # None
      BY <2>3 DEF RotationRefused
    <3>2. key[j] = cfg[j].priv
      BY <1>4 DEF ReadPrivateKey
    <3>3. pc' = [pc EXCEPT ![j] = "patchPriv"]
          /\ UNCHANGED <<cfg, attempt, key, stored>>
      BY <2>1, <2>3 DEF GoTo
    <3> QED
      BY <1>4, <2>1, <3>1, <3>2, <3>3, SMTT(30) DEF ReadPrivateKey
  <2>4. ASSUME GoTo(j, "createPriv"),
               key' = [key EXCEPT ![j] = KeyToInstall(j)]
        PROVE  PodsInv'
    BY <1>4, <2>1, <2>4, SMTT(30) DEF ReadPrivateKey, GoTo, KeyToInstall
  <2>5. ASSUME GoTo(j, "readEnc"), UNCHANGED key
        PROVE  PodsInv'
    BY <1>4, <2>1, <2>5, SMTT(30) DEF ReadPrivateKey, GoTo
  <2> QED
    BY <1>4, <2>2, <2>3, <2>4, <2>5 DEF ReadPrivateKey
<1>5. ASSUME NEW j \in Jobs, PatchPrivateKey(j)
      PROVE  PodsInv'
  BY <1>5, SMTT(30) DEF PatchPrivateKey, GoTo
<1>6. ASSUME NEW j \in Jobs, CreatePrivateKey(j)
      PROVE  PodsInv'
  BY <1>6, SMTT(30) DEF CreatePrivateKey, GoTo, Raise
<1>7. ASSUME NEW j \in Jobs, ReadPublicKey(j)
      PROVE  PodsInv'
  BY <1>7, SMTT(30) DEF ReadPublicKey, ReadSecret, GoTo, Raise
<1>8. ASSUME NEW j \in Jobs, CreatePublicKey(j)
      PROVE  PodsInv'
  BY <1>8, SMTT(30) DEF CreatePublicKey, GoTo, Raise
<1>9. ASSUME NEW j \in Jobs, PatchPublicKey(j)
      PROVE  PodsInv'
  BY <1>9, SMTT(30) DEF PatchPublicKey, GoTo
<1>10. ASSUME NEW j \in Jobs, ReadEncryptionKey(j)
      PROVE  PodsInv'
  BY <1>10, SMTT(30) DEF ReadEncryptionKey, ReadSecret, GoTo
<1>11. ASSUME NEW j \in Jobs, CreateEncryptionKey(j)
      PROVE  PodsInv'
  BY <1>11, SMTT(30) DEF CreateEncryptionKey, Provisioned, GeneratedKey,
                         GoTo, Raise
<1>12. ASSUME NEW j \in Jobs, ReadAuthnKey(j)
      PROVE  PodsInv'
  BY <1>12, SMTT(30) DEF ReadAuthnKey, ReadSecret, GoTo
<1>13. ASSUME NEW j \in Jobs, CreateAuthnKey(j)
      PROVE  PodsInv'
  BY <1>13, SMTT(30) DEF CreateAuthnKey, Provisioned, GeneratedKey, GoTo,
                         Raise
<1>14. ASSUME NEW j \in Jobs, Exit(j)
       PROVE  PodsInv'
  BY <1>14, SMTT(30) DEF Exit, GoTo
<1>15. CASE UNCHANGED vars
  BY <1>15, SMTT(30) DEF vars, secrets, pods, Live, PastPrivateKey
<1> QED
  BY <1>1, <1>2, <1>3, <1>4, <1>5, <1>6, <1>7, <1>8,
     <1>9, <1>10, <1>11, <1>12, <1>13, <1>14, <1>15
     DEF Next, Script

LEMMA StoreStep == Inv /\ [Next]_vars => StoreInv'
<1> SUFFICES ASSUME Inv, [Next]_vars PROVE StoreInv'
  OBVIOUS
<1> USE ConstantsAssumption
    DEF Inv, TypeOK, PodsInv, StoreInv, secrets, Generated, Strings, Value,
        ConfigType, Calls, Truthy, Publishing
<1>1. ASSUME NEW j \in Jobs, NEW c \in Configs, StartJob(j, c)
      PROVE  StoreInv'
  BY <1>1, SMTT(30) DEF StartJob
<1>2. ASSUME NEW j \in Jobs, RestartPod(j)
      PROVE  StoreInv'
  BY <1>2, SMTT(30) DEF RestartPod
<1>3. ASSUME NEW j \in Jobs, Crash(j)
      PROVE  StoreInv'
  BY <1>3, SMTT(30) DEF Crash, Raise
<1>4. ASSUME NEW j \in Jobs, ReadPrivateKey(j)
      PROVE  StoreInv'
  BY <1>4, SMTT(30) DEF ReadPrivateKey, ReadSecret, RotationRefused,
                        Mismatch, Raise, GoTo, KeyToInstall,
                        GeneratedKey
<1>5. ASSUME NEW j \in Jobs, PatchPrivateKey(j)
      PROVE  StoreInv'
  BY <1>5, SMTT(30) DEF PatchPrivateKey, GoTo
<1>6. ASSUME NEW j \in Jobs, CreatePrivateKey(j)
      PROVE  StoreInv'
  BY <1>6, SMTT(30) DEF CreatePrivateKey, GoTo, Raise
<1>7. ASSUME NEW j \in Jobs, ReadPublicKey(j)
      PROVE  StoreInv'
  BY <1>7, SMTT(30) DEF ReadPublicKey, ReadSecret, GoTo, Raise
<1>8. ASSUME NEW j \in Jobs, CreatePublicKey(j)
      PROVE  StoreInv'
  BY <1>8, SMTT(30) DEF CreatePublicKey, GoTo, Raise
<1>9. ASSUME NEW j \in Jobs, PatchPublicKey(j)
      PROVE  StoreInv'
  BY <1>9, SMTT(30) DEF PatchPublicKey, GoTo
<1>10. ASSUME NEW j \in Jobs, ReadEncryptionKey(j)
      PROVE  StoreInv'
  BY <1>10, SMTT(30) DEF ReadEncryptionKey, ReadSecret, GoTo
<1>11. ASSUME NEW j \in Jobs, CreateEncryptionKey(j)
      PROVE  StoreInv'
  BY <1>11, SMTT(30) DEF CreateEncryptionKey, Provisioned, GeneratedKey,
                         GoTo, Raise
<1>12. ASSUME NEW j \in Jobs, ReadAuthnKey(j)
      PROVE  StoreInv'
  BY <1>12, SMTT(30) DEF ReadAuthnKey, ReadSecret, GoTo
<1>13. ASSUME NEW j \in Jobs, CreateAuthnKey(j)
      PROVE  StoreInv'
  BY <1>13, SMTT(30) DEF CreateAuthnKey, Provisioned, GeneratedKey, GoTo,
                         Raise
<1>14. ASSUME NEW j \in Jobs, Exit(j)
       PROVE  StoreInv'
  BY <1>14, SMTT(30) DEF Exit, GoTo
<1>15. CASE UNCHANGED vars
  BY <1>15, SMTT(30) DEF vars, secrets, pods, Live, PastPrivateKey
<1> QED
  BY <1>1, <1>2, <1>3, <1>4, <1>5, <1>6, <1>7, <1>8,
     <1>9, <1>10, <1>11, <1>12, <1>13, <1>14, <1>15
     DEF Next, Script

LEMMA InvAlways == Spec => []Inv
<1>1. Inv /\ [Next]_vars => Inv'
  BY TypeStep, PodsStep, StoreStep DEF Inv
<1> QED
  BY InitInv, <1>1, PTL DEF Spec

\* Every entry keeps its type, and the Job controller never starts more than
\* BackoffLimit + 1 pods of a Job.
THEOREM TypeCorrect == Spec => []TypeOK
<1>1. Inv => TypeOK
  BY DEF Inv
<1> QED
  BY InvAlways, <1>1, PTL

\* A recorded previous key differs from the current one, however rotations
\* of overlapping Jobs interleave (setup_private_key_rotation's checks).
THEOREM PrevAlwaysDiffers == Spec => []PrevDiffers
<1>1. Inv => PrevDiffers
  BY DEF Inv, StoreInv, PrevDiffers
<1> QED
  BY InvAlways, <1>1, PTL

\* A public key is published only for a private key that has been stored,
\* with overlapping Jobs and with pods killed between the two writes.
THEOREM PublishedAlwaysStored == Spec => []PublishedAfterStored
<1>1. Inv => PublishedAfterStored
  BY DEF Inv, StoreInv, PublishedAfterStored
<1> QED
  BY InvAlways, <1>1, PTL

\* The values of a Job that has started never change.
LEMMA ConfigStays ==
    Inv /\ [Next]_vars =>
        \A i \in Jobs : pc[i] # "new" => cfg'[i] = cfg[i] /\ pc'[i] # "new"
<1> SUFFICES ASSUME Inv, [Next]_vars, NEW i \in Jobs, pc[i] # "new"
             PROVE  cfg'[i] = cfg[i] /\ pc'[i] # "new"
  OBVIOUS
<1> USE DEF Inv, TypeOK
<1>1. ASSUME NEW j \in Jobs, NEW c \in Configs, StartJob(j, c)
      PROVE  cfg'[i] = cfg[i] /\ pc'[i] # "new"
  BY <1>1, SMTT(30) DEF StartJob
<1>2. ASSUME NEW j \in Jobs, RestartPod(j) \/ Crash(j)
      PROVE  cfg'[i] = cfg[i] /\ pc'[i] # "new"
  BY <1>2, SMTT(30) DEF RestartPod, Crash, Raise
<1>3. ASSUME NEW j \in Jobs,
             \/ ReadPrivateKey(j) \/ PatchPrivateKey(j)
             \/ CreatePrivateKey(j) \/ ReadPublicKey(j) \/ CreatePublicKey(j)
      PROVE  cfg'[i] = cfg[i] /\ pc'[i] # "new"
  BY <1>3, SMTT(30) DEF ReadPrivateKey, PatchPrivateKey, CreatePrivateKey,
                        ReadPublicKey, CreatePublicKey, Raise, GoTo
<1>4. ASSUME NEW j \in Jobs,
             \/ PatchPublicKey(j) \/ ReadEncryptionKey(j)
             \/ CreateEncryptionKey(j) \/ ReadAuthnKey(j) \/ CreateAuthnKey(j)
             \/ Exit(j)
      PROVE  cfg'[i] = cfg[i] /\ pc'[i] # "new"
  BY <1>4, SMTT(30) DEF PatchPublicKey, ReadEncryptionKey,
                        CreateEncryptionKey, ReadAuthnKey, CreateAuthnKey,
                        Exit, Raise, GoTo
<1>5. CASE UNCHANGED vars
  BY <1>5 DEF vars, pods
<1> QED
  BY <1>1, <1>2, <1>3, <1>4, <1>5 DEF Next, Script

LEMMA SourceStep == Inv /\ SourceInv /\ [Next]_vars => SourceInv'
<1> SUFFICES ASSUME Inv, SourceInv, [Next]_vars PROVE SourceInv'
  OBVIOUS
<1> USE DEF Inv, TypeOK, PodsInv, SourceInv
<1>1. ASSUME NEW j \in Jobs, NEW c \in Configs, StartJob(j, c)
      PROVE  SourceInv'
  BY <1>1, SMTT(30) DEF StartJob
<1>2. ASSUME NEW j \in Jobs, ReadPrivateKey(j)
      PROVE  SourceInv'
  <2>1. /\ attempt[j] \in 1 .. BackoffLimit + 1
        /\ GeneratedKey(j, attempt[j]) \in Generated
        /\ key[j] = cfg[j].priv
    BY <1>2, ConstantsAssumption, SMTT(30)
       DEF ReadPrivateKey, GeneratedKey, Generated
  <2>2. \/ KeyToInstall(j) \in Generated
        \/ KeyToInstall(j) = cfg[j].priv /\ KeyToInstall(j) # Empty
    BY <2>1 DEF KeyToInstall, Truthy
  <2> QED
    BY <1>2, <2>1, <2>2, SMTT(30) DEF ReadPrivateKey, GoTo, Raise
<1>3. ASSUME NEW j \in Jobs,
             \/ PatchPrivateKey(j) \/ CreatePrivateKey(j)
             \/ ReadPublicKey(j) \/ CreatePublicKey(j) \/ PatchPublicKey(j)
      PROVE  SourceInv'
  BY <1>3, SMTT(30) DEF PatchPrivateKey, CreatePrivateKey, ReadPublicKey,
                        CreatePublicKey, PatchPublicKey, Raise, GoTo
<1>4. ASSUME NEW j \in Jobs,
             \/ ReadEncryptionKey(j) \/ CreateEncryptionKey(j)
             \/ ReadAuthnKey(j) \/ CreateAuthnKey(j) \/ Exit(j)
             \/ RestartPod(j) \/ Crash(j)
      PROVE  SourceInv'
  BY <1>4, SMTT(30) DEF ReadEncryptionKey, CreateEncryptionKey, ReadAuthnKey,
                        CreateAuthnKey, Exit, RestartPod, Crash, Raise, GoTo
<1>5. CASE UNCHANGED vars
  BY <1>5 DEF vars, pods
<1> QED
  BY <1>1, <1>2, <1>3, <1>4, <1>5 DEF Next, Script

LEMMA UsableStep ==
    Inv /\ SourceInv /\ StoredKeysUsable /\ [Next]_vars => StoredKeysUsable'
<1> SUFFICES ASSUME Inv, SourceInv, StoredKeysUsable, [Next]_vars,
                    NEW k \in stored'
             PROVE  \/ Parses(k)
                    \/ \E j \in Jobs : /\ cfg'[j].priv = k
                                       /\ k = Empty => Truthy(cfg'[j].prev)
  BY DEF StoredKeysUsable, Parses
<1>1. CASE k \in stored
  <2>1. CASE Parses(k)
    BY <2>1
  <2>2. CASE ~Parses(k)
    <3>1. PICK j \in Jobs : /\ cfg[j].priv = k
                            /\ k = Empty => Truthy(cfg[j].prev)
      BY <1>1, <2>2 DEF StoredKeysUsable
    <3>2. k # None
      BY <1>1, ConstantsAssumption DEF Inv, TypeOK
    <3>3. pc[j] # "new"
      BY <3>1, <3>2 DEF SourceInv, NoConfig
    <3> QED
      BY <3>1, <3>3, ConfigStays
  <2> QED
    BY <2>1, <2>2
<1>2. CASE k \notin stored
  <2>1. PICK j \in Jobs : \/ PatchPrivateKey(j) /\ k = cfg[j].priv
                          \/ CreatePrivateKey(j) /\ k = key[j]
    <3>1. stored' # stored
      BY <1>2
    <3> QED
      BY <1>2, <3>1
         DEF Next, Script, StartJob, RestartPod, Crash, ReadPrivateKey,
             PatchPrivateKey, CreatePrivateKey, ReadPublicKey,
             CreatePublicKey, PatchPublicKey, ReadEncryptionKey,
             CreateEncryptionKey, ReadAuthnKey, CreateAuthnKey, Exit,
             secrets, vars
  <2>2. pc[j] # "new" /\ cfg'[j] = cfg[j]
    BY <2>1, ConfigStays DEF PatchPrivateKey, CreatePrivateKey
  <2>3. CASE PatchPrivateKey(j) /\ k = cfg[j].priv
    BY <2>2, <2>3 DEF PatchPrivateKey, SourceInv
  <2>4. CASE CreatePrivateKey(j) /\ k = key[j]
    BY <2>2, <2>4 DEF CreatePrivateKey, SourceInv, Parses
  <2> QED
    BY <2>1, <2>3, <2>4
<1> QED
  BY <1>1, <1>2

\* A stored private key that cannot be used is one that a revision's values
\* name, and the empty string gets there only as the new key of a rotation:
\* initialize_private_key generates a key instead.
THEOREM StoredAlwaysUsable == Spec => []StoredKeysUsable
<1>1. Init => SourceInv /\ StoredKeysUsable
  BY InstalledKeys DEF Init, SourceInv, StoredKeysUsable, Parses
<1>2. Inv /\ SourceInv /\ StoredKeysUsable /\ [Next]_vars
        => (SourceInv /\ StoredKeysUsable)'
  BY SourceStep, UsableStep
<1> QED
  BY InvAlways, <1>1, <1>2, PTL DEF Spec

LEMMA WriteOnceStep ==
    [Next]_vars => /\ encKey # None => encKey' = encKey
                   /\ authnKey # None => authnKey' = authnKey
<1> SUFFICES ASSUME [Next]_vars
             PROVE  /\ encKey # None => encKey' = encKey
                    /\ authnKey # None => authnKey' = authnKey
  OBVIOUS
<1>1. CASE UNCHANGED vars
  BY <1>1 DEF vars, secrets
<1>2. ASSUME NEW j \in Jobs, CreateEncryptionKey(j)
      PROVE  authnKey' = authnKey /\ (encKey # None => encKey' = encKey)
  BY <1>2 DEF CreateEncryptionKey
<1>3. ASSUME NEW j \in Jobs, CreateAuthnKey(j)
      PROVE  encKey' = encKey /\ (authnKey # None => authnKey' = authnKey)
  BY <1>3 DEF CreateAuthnKey
<1>4. ASSUME NEW j \in Jobs, Script(j),
             ~CreateEncryptionKey(j), ~CreateAuthnKey(j)
      PROVE  encKey' = encKey /\ authnKey' = authnKey
  BY <1>4 DEF Script, ReadPrivateKey, PatchPrivateKey, CreatePrivateKey,
              ReadPublicKey, CreatePublicKey, PatchPublicKey,
              ReadEncryptionKey, ReadAuthnKey, Exit, secrets
<1>5. ASSUME NEW j \in Jobs, NEW c \in Configs,
             StartJob(j, c) \/ RestartPod(j) \/ Crash(j)
      PROVE  encKey' = encKey /\ authnKey' = authnKey
  BY <1>5 DEF StartJob, RestartPod, Crash, secrets
<1>6. ASSUME NEW j \in Jobs, RestartPod(j) \/ Crash(j)
      PROVE  encKey' = encKey /\ authnKey' = authnKey
  BY <1>6 DEF RestartPod, Crash, secrets
<1> QED
  BY <1>1, <1>2, <1>3, <1>4, <1>5, <1>6 DEF Next

\* Neither symmetric key of the data service is ever replaced, although a
\* failed read looks like an absent key (the create call refuses).
THEOREM WrittenOnce == Spec => SymmetricKeysWrittenOnce
  BY WriteOnceStep, PTL DEF Spec, SymmetricKeysWrittenOnce

-----------------------------------------------------------------------------
(* Jobs in sequence.                                                       *)

LEMMA SerialStep ==
    ASSUME ~Overlap
    PROVE  Inv /\ SerialInv /\ [Next]_vars => SerialInv'
<1> SUFFICES ASSUME Inv, SerialInv, [Next]_vars PROVE SerialInv'
  OBVIOUS
<1> USE ConstantsAssumption
    DEF Inv, TypeOK, PodsInv, StoreInv, SerialInv, Live, PastPrivateKey,
        secrets, Generated, Strings, Value, ConfigType, Calls, Truthy,
        Publishing
<1>1. ASSUME NEW j \in Jobs, NEW c \in Configs, StartJob(j, c)
      PROVE  SerialInv'
  BY <1>1, SMTT(30) DEF StartJob
<1>2. ASSUME NEW j \in Jobs, RestartPod(j)
      PROVE  SerialInv'
  BY <1>2, SMTT(30) DEF RestartPod
<1>3. ASSUME NEW j \in Jobs, Crash(j)
      PROVE  SerialInv'
  BY <1>3, SMTT(30) DEF Crash, Raise
<1>4. ASSUME NEW j \in Jobs, ReadPrivateKey(j)
      PROVE  SerialInv'
  BY <1>4, SMTT(30) DEF ReadPrivateKey, ReadSecret, RotationRefused,
                        Mismatch, Raise, GoTo, KeyToInstall,
                        GeneratedKey
<1>5. ASSUME NEW j \in Jobs, PatchPrivateKey(j)
      PROVE  SerialInv'
  BY <1>5, SMTT(30) DEF PatchPrivateKey, GoTo
<1>6. ASSUME NEW j \in Jobs, CreatePrivateKey(j)
      PROVE  SerialInv'
  BY <1>6, SMTT(30) DEF CreatePrivateKey, GoTo, Raise
<1>7. ASSUME NEW j \in Jobs, ReadPublicKey(j)
      PROVE  SerialInv'
  BY <1>7, SMTT(30) DEF ReadPublicKey, ReadSecret, GoTo, Raise
<1>8. ASSUME NEW j \in Jobs, CreatePublicKey(j)
      PROVE  SerialInv'
  BY <1>8, SMTT(30) DEF CreatePublicKey, GoTo, Raise
<1>9. ASSUME NEW j \in Jobs, PatchPublicKey(j)
      PROVE  SerialInv'
  BY <1>9, SMTT(30) DEF PatchPublicKey, GoTo
<1>10. ASSUME NEW j \in Jobs, ReadEncryptionKey(j)
      PROVE  SerialInv'
  BY <1>10, SMTT(30) DEF ReadEncryptionKey, ReadSecret, GoTo
<1>11. ASSUME NEW j \in Jobs, CreateEncryptionKey(j)
      PROVE  SerialInv'
  BY <1>11, SMTT(30) DEF CreateEncryptionKey, Provisioned, GeneratedKey,
                         GoTo, Raise
<1>12. ASSUME NEW j \in Jobs, ReadAuthnKey(j)
      PROVE  SerialInv'
  BY <1>12, SMTT(30) DEF ReadAuthnKey, ReadSecret, GoTo
<1>13. ASSUME NEW j \in Jobs, CreateAuthnKey(j)
      PROVE  SerialInv'
  BY <1>13, SMTT(30) DEF CreateAuthnKey, Provisioned, GeneratedKey, GoTo,
                         Raise
<1>14. ASSUME NEW j \in Jobs, Exit(j)
       PROVE  SerialInv'
  BY <1>14, SMTT(30) DEF Exit, GoTo
<1>15. CASE UNCHANGED vars
  BY <1>15, SMTT(30) DEF vars, secrets, pods, Live, PastPrivateKey
<1> QED
  BY <1>1, <1>2, <1>3, <1>4, <1>5, <1>6, <1>7, <1>8,
     <1>9, <1>10, <1>11, <1>12, <1>13, <1>14, <1>15
     DEF Next, Script

LEMMA SerialAlways == ASSUME ~Overlap PROVE Spec => [](Inv /\ SerialInv)
<1>1. Init => SerialInv
  BY DEF Init, SerialInv, Live, Publishing, PastPrivateKey, Calls
<1>2. Inv /\ SerialInv /\ [Next]_vars => (Inv /\ SerialInv)'
  BY TypeStep, PodsStep, StoreStep, SerialStep DEF Inv
<1> QED
  BY InitInv, <1>1, <1>2, PTL DEF Spec

LEMMA RingStep ==
    ASSUME ~Overlap
    PROVE  Inv /\ Inv' /\ SerialInv /\ [Next]_vars => [Ring!Next]_(Ring!ring)
<1> SUFFICES ASSUME Inv, Inv', SerialInv, [Next]_vars
             PROVE  [Ring!Next]_(Ring!ring)
  OBVIOUS
<1> USE ConstantsAssumption DEF Inv, TypeOK, PodsInv, StoreInv, SerialInv
<1> DEFINE ring == <<privKey, prevKey, pubKey, encKey, authnKey>>
<1>1. ASSUME NEW j \in Jobs, PatchPrivateKey(j)
      PROVE  privKey' \in Strings /\ Ring!Rotate(privKey')
  BY <1>1, SMTT(30)
     DEF PatchPrivateKey, Ring!Rotate, ConfigType, Value, Publishing, Calls
<1>2. ASSUME NEW j \in Jobs, CreatePrivateKey(j), privKey = None
      PROVE  privKey' \in Strings /\ Ring!Install(privKey')
  BY <1>2, SMTT(30)
     DEF CreatePrivateKey, Ring!Install, Value, Truthy, Strings
<1>3. ASSUME NEW j \in Jobs, CreatePublicKey(j) \/ PatchPublicKey(j),
             pubKey' # pubKey
      PROVE  Ring!Publish
  <2>1. pubKey' = key[j] /\ Publishing(j)
    BY <1>3 DEF CreatePublicKey, PatchPublicKey, Publishing
  <2>2. key[j] = privKey /\ key[j] # None
    BY <2>1, SMTT(30) DEF Strings
  <2> QED
    BY <1>3, <2>1, <2>2 DEF CreatePublicKey, PatchPublicKey, Ring!Publish
<1>4. ASSUME NEW j \in Jobs, CreateEncryptionKey(j), encKey = None
      PROVE  encKey' \in Strings /\ Ring!SetEncryptionKey(encKey')
  BY <1>4, SMTT(30) DEF CreateEncryptionKey, Provisioned,
                           GeneratedKey, Value, Strings, Generated,
                           ConfigType, Calls, Ring!SetEncryptionKey
<1>5. ASSUME NEW j \in Jobs, CreateAuthnKey(j), authnKey = None
      PROVE  authnKey' \in Strings /\ Ring!SetAuthnKey(authnKey')
  BY <1>5, SMTT(30) DEF CreateAuthnKey, Provisioned, GeneratedKey,
                           Value, Strings, Generated, ConfigType, Calls,
                           Ring!SetAuthnKey
<1>6. CASE UNCHANGED ring
  BY <1>6 DEF Ring!ring
<1>7. ASSUME NEW j \in Jobs, Script(j) PROVE [Ring!Next]_(Ring!ring)
  <2>1. CASE PatchPrivateKey(j)
    BY <2>1, <1>1 DEF Ring!Next
  <2>2. CASE CreatePrivateKey(j)
    BY <2>2, <1>2, <1>6 DEF CreatePrivateKey, Ring!Next
  <2>3. CASE CreatePublicKey(j) \/ PatchPublicKey(j)
    BY <2>3, <1>3, <1>6 DEF CreatePublicKey, PatchPublicKey, Ring!Next
  <2>4. CASE CreateEncryptionKey(j)
    BY <2>4, <1>4, <1>6 DEF CreateEncryptionKey, Ring!Next
  <2>5. CASE CreateAuthnKey(j)
    BY <2>5, <1>5, <1>6 DEF CreateAuthnKey, Ring!Next
  <2>6. CASE \/ ReadPrivateKey(j) \/ ReadPublicKey(j)
             \/ ReadEncryptionKey(j) \/ ReadAuthnKey(j) \/ Exit(j)
    BY <2>6, <1>6 DEF ReadPrivateKey, ReadPublicKey, ReadEncryptionKey,
                      ReadAuthnKey, Exit, secrets
  <2> QED
    BY <1>7, <2>1, <2>2, <2>3, <2>4, <2>5, <2>6 DEF Script
<1>8. ASSUME NEW j \in Jobs, NEW c \in Configs,
             StartJob(j, c) \/ RestartPod(j) \/ Crash(j)
      PROVE  UNCHANGED ring
  BY <1>8 DEF StartJob, RestartPod, Crash, secrets
<1>9. CASE UNCHANGED vars
  BY <1>6, <1>9 DEF vars, secrets
<1>10. ASSUME NEW j \in Jobs, RestartPod(j) \/ Crash(j)
       PROVE  UNCHANGED ring
  BY <1>10 DEF RestartPod, Crash, secrets
<1> QED
  BY <1>6, <1>7, <1>8, <1>9, <1>10 DEF Next

\* With Jobs in sequence the script implements the key ring: the stored
\* private key is only ever replaced together with keeping it as the previous
\* key, and the published key is taken from the stored one, whatever reads
\* fail and wherever pods die.
THEOREM Refinement == ASSUME ~Overlap PROVE Spec => ImplementsKeyRing
<1>1. Init => Ring!Init
  BY InstalledKeys DEF Init, Ring!Init
<1> QED
  BY <1>1, RingStep, InvAlways, SerialAlways, PTL
     DEF Spec, ImplementsKeyRing, Ring!Spec

LEMMA ConfiguredStep ==
    Inv /\ SerialInv /\ [Next]_vars =>
        \A j \in Jobs : pc[j] # "done" /\ pc'[j] = "done" /\ Truthy(cfg[j].priv)
                            => privKey' = cfg[j].priv
<1> SUFFICES ASSUME Inv, SerialInv, [Next]_vars, NEW i \in Jobs,
                    pc[i] # "done", pc'[i] = "done", Truthy(cfg[i].priv)
             PROVE  privKey' = cfg[i].priv
  OBVIOUS
<1>1. Exit(i)
  <2> USE DEF Inv, TypeOK
  <2>1. ASSUME NEW j \in Jobs, NEW c \in Configs,
               \/ StartJob(j, c) \/ RestartPod(j) \/ Crash(j)
        PROVE  FALSE
    BY <2>1, SMTT(30) DEF StartJob, RestartPod, Crash, Raise
  <2>2. ASSUME NEW j \in Jobs,
               \/ ReadPrivateKey(j) \/ PatchPrivateKey(j)
               \/ CreatePrivateKey(j) \/ ReadPublicKey(j)
        PROVE  FALSE
    BY <2>2, SMTT(30) DEF ReadPrivateKey, PatchPrivateKey, CreatePrivateKey,
                          ReadPublicKey, Raise, GoTo
  <2>3. ASSUME NEW j \in Jobs,
               \/ CreatePublicKey(j) \/ PatchPublicKey(j)
               \/ ReadEncryptionKey(j) \/ CreateEncryptionKey(j)
        PROVE  FALSE
    BY <2>3, SMTT(30) DEF CreatePublicKey, PatchPublicKey, ReadEncryptionKey,
                          CreateEncryptionKey, Raise, GoTo
  <2>4. ASSUME NEW j \in Jobs, ReadAuthnKey(j) \/ CreateAuthnKey(j)
        PROVE  FALSE
    BY <2>4, SMTT(30) DEF ReadAuthnKey, CreateAuthnKey, Raise, GoTo
  <2>5. ASSUME NEW j \in Jobs, RestartPod(j) \/ Crash(j)
        PROVE  FALSE
    BY <2>5, SMTT(30) DEF RestartPod, Crash, Raise
  <2>6. ASSUME NEW j \in Jobs, Exit(j) PROVE j = i
    BY <2>6, SMTT(30) DEF Exit, GoTo
  <2>7. ~UNCHANGED vars
    BY DEF vars, pods
  <2> QED
    BY <2>1, <2>2, <2>3, <2>4, <2>5, <2>6, <2>7 DEF Next, Script
<1>2. PastPrivateKey(i) /\ privKey' = privKey
  BY <1>1 DEF Exit, PastPrivateKey, Calls, secrets
<1> QED
  BY <1>2 DEF SerialInv

\* A Job in sequence that succeeds leaves the private key it configures.
THEOREM SuccessConfigured ==
    ASSUME ~Overlap PROVE Spec => SuccessMeansConfiguredKey
  BY ConfiguredStep, SerialAlways, PTL DEF Spec, SuccessMeansConfiguredKey

\* Without faults a pod that has changed the private key goes on to publish
\* it: its key parses, and what it reads of the public key is true.
PairInv ==
    faults = 0 /\ KeysParse =>
        /\ pubKey = privKey \/ \E j \in Jobs : Publishing(j)
        /\ \A j \in Jobs : /\ pc[j] = "createPub" => pubKey = None
                           /\ Publishing(j) => Parses(key[j])

\* A pod that is not about to publish, and does not touch the key pair.
LEMMA AsidePair ==
  ASSUME Inv, PairInv, NEW j \in Jobs, ~Publishing(j), NEW l,
         pc' = [pc EXCEPT ![j] = l],
         l \notin {"readPub", "createPub", "patchPub"},
         UNCHANGED <<privKey, pubKey>>,
         \A i \in Jobs \ {j} : key'[i] = key[i],
         faults' = 0 /\ KeysParse' => faults = 0 /\ KeysParse
  PROVE  PairInv'
<1>1. /\ ~Publishing(j)'
      /\ \A i \in Jobs \ {j} : pc'[i] = pc[i] /\ (Publishing(i)' <=> Publishing(i))
      /\ pc'[j] # "createPub"
  BY DEF Inv, TypeOK, Publishing
<1> QED
  BY <1>1 DEF PairInv, Parses

LEMMA PairStep ==
  ASSUME ~Overlap, Inv, SerialInv, SourceInv, PairInv, [Next]_vars
  PROVE  PairInv'
<1>1. faults' = 0 /\ KeysParse' => faults = 0 /\ KeysParse
  <2>1. faults' = 0 => faults = 0
    BY DEF Inv, TypeOK, Next, Script, StartJob, RestartPod, Crash,
       ReadPrivateKey, PatchPrivateKey, CreatePrivateKey, ReadPublicKey,
       CreatePublicKey, PatchPublicKey, ReadEncryptionKey,
       CreateEncryptionKey, ReadAuthnKey, CreateAuthnKey, Exit,
       ReadSecret, vars
  <2>2. KeysParse' => KeysParse
    BY ConfigStays DEF KeysParse, SourceInv, NoConfig
  <2> QED
    BY <2>1, <2>2
<1>2. CASE UNCHANGED vars
  BY <1>1, <1>2 DEF vars, secrets, pods, PairInv, Publishing, Parses, KeysParse
<1>3. ASSUME NEW j \in Jobs, NEW c \in Configs, StartJob(j, c)
      PROVE  PairInv'
  BY <1>1, <1>3, AsidePair DEF StartJob, Publishing, secrets, Inv, TypeOK
<1>4. ASSUME NEW j \in Jobs, RestartPod(j) PROVE PairInv'
  BY <1>1, <1>4, AsidePair DEF RestartPod, Publishing, secrets, Inv, TypeOK
<1>5. ASSUME NEW j \in Jobs, Crash(j) PROVE PairInv'
  BY <1>5 DEF Crash, PairInv, Inv, TypeOK
<1>6. ASSUME NEW j \in Jobs, ReadPrivateKey(j) PROVE PairInv'
  <2>1. PICK l \in {"patchPriv", "createPriv", "readEnc", "backoff", "failed"} :
           pc' = [pc EXCEPT ![j] = l]
    BY <1>6 DEF ReadPrivateKey, Raise, GoTo
  <2>2. \A i \in Jobs \ {j} : key'[i] = key[i]
    BY <1>6 DEF ReadPrivateKey, Raise, Inv, TypeOK
  <2>3. ~Publishing(j) /\ UNCHANGED <<privKey, pubKey>>
    BY <1>6 DEF ReadPrivateKey, Publishing, secrets
  <2> QED
    BY <1>1, <2>1, <2>2, <2>3, AsidePair
<1>7. ASSUME NEW j \in Jobs,
             \/ ReadEncryptionKey(j) \/ CreateEncryptionKey(j)
             \/ ReadAuthnKey(j) \/ CreateAuthnKey(j) \/ Exit(j)
             \/ CreatePrivateKey(j) /\ privKey # None
      PROVE  PairInv'
  <2>1. PICK l \in {"createEnc", "readAuthn", "createAuthn", "exit", "done",
                    "backoff", "failed"} : pc' = [pc EXCEPT ![j] = l]
    BY <1>7 DEF ReadEncryptionKey, CreateEncryptionKey, ReadAuthnKey,
       CreateAuthnKey, Exit, CreatePrivateKey, Raise, GoTo
  <2>2. ~Publishing(j) /\ UNCHANGED <<privKey, pubKey, key>>
    BY <1>7 DEF ReadEncryptionKey, CreateEncryptionKey, ReadAuthnKey,
       CreateAuthnKey, Exit, CreatePrivateKey, Raise, GoTo, Publishing, secrets
  <2> QED
    BY <1>1, <2>1, <2>2, AsidePair
<1>8. ASSUME NEW j \in Jobs,
             PatchPrivateKey(j) \/ (CreatePrivateKey(j) /\ privKey = None)
      PROVE  PairInv'
  <2>1. /\ pc' = [pc EXCEPT ![j] = "readPub"]
        /\ UNCHANGED <<key, cfg, pubKey>>
        /\ pc[j] \in {"patchPriv", "createPriv"}
    BY <1>8 DEF PatchPrivateKey, CreatePrivateKey, GoTo
  <2>2. Live(j) /\ \A i \in Jobs : Live(i) => i = j
    BY <2>1 DEF Live, Calls, SerialInv
  <2>3. pc'[j] = "readPub" /\ \A i \in Jobs \ {j} : ~Publishing(i)'
    BY <2>1, <2>2 DEF Live, Calls, Publishing, Inv, TypeOK
  <2>4. KeysParse => Parses(key[j])
    <3>1. key[j] \in Generated \/ (key[j] = cfg[j].priv /\ key[j] # None)
      BY <2>1 DEF Inv, PodsInv, SourceInv, Truthy
    <3> QED
      BY <3>1 DEF KeysParse, Parses
  <2> QED
    BY <1>1, <2>1, <2>3, <2>4 DEF PairInv, Publishing, Parses
<1>9. ASSUME NEW j \in Jobs,
             ReadPublicKey(j) \/ CreatePublicKey(j) \/ PatchPublicKey(j),
             faults' = 0, KeysParse'
      PROVE  PairInv'
  <2>1. faults = 0 /\ KeysParse /\ Publishing(j)
    BY <1>1, <1>9 DEF ReadPublicKey, CreatePublicKey, PatchPublicKey, Publishing
  <2>2. \A i \in Jobs \ {j} : ~Publishing(i)
    BY <2>1 DEF Live, Calls, SerialInv, Publishing
  <2>3. Parses(key[j]) /\ key[j] = privKey
    BY <2>1 DEF PairInv, SerialInv
  <2>4. CASE ReadPublicKey(j)
    <3>1. /\ UNCHANGED <<privKey, pubKey, key>>
          /\ \/ pc' = [pc EXCEPT ![j] = "patchPub"]
             \/ pc' = [pc EXCEPT ![j] = "createPub"] /\ pubKey = None
      BY <1>9, <2>1, <2>3, <2>4
         DEF ReadPublicKey, ReadSecret, GoTo, secrets, Inv, TypeOK
    <3>2. pc'[j] \in {"createPub", "patchPub"}
      BY <3>1 DEF Inv, TypeOK
    <3>3. \A i \in Jobs \ {j} : ~Publishing(i)'
      BY <2>2, <3>1 DEF Publishing, Inv, TypeOK
    <3>4. pc'[j] = "createPub" => pubKey = None
      BY <3>1 DEF Inv, TypeOK
    <3> QED
      BY <2>3, <3>1, <3>2, <3>3, <3>4 DEF PairInv, Publishing, Parses
  <2>5. CASE CreatePublicKey(j) \/ PatchPublicKey(j)
    <3>1. pc[j] = "createPub" => pubKey = None
      BY <2>1 DEF PairInv
    <3>2. /\ pubKey' = privKey /\ UNCHANGED <<privKey, key>>
          /\ pc' = [pc EXCEPT ![j] = "readEnc"]
      BY <2>3, <2>5, <3>1 DEF CreatePublicKey, PatchPublicKey, GoTo
    <3>3. \A i \in Jobs : ~Publishing(i)'
      BY <2>2, <3>2 DEF Publishing, Inv, TypeOK
    <3> QED
      BY <3>2, <3>3 DEF PairInv, Publishing
  <2> QED
    BY <1>9, <2>4, <2>5
<1>10. ASSUME NEW j \in Jobs,
              ReadPublicKey(j) \/ CreatePublicKey(j) \/ PatchPublicKey(j)
       PROVE  PairInv'
  <2>1. CASE faults' = 0 /\ KeysParse'
    BY <1>9, <1>10, <2>1
  <2>2. CASE ~(faults' = 0 /\ KeysParse')
    BY <2>2 DEF PairInv
  <2> QED
    BY <2>1, <2>2
<1> QED
  BY <1>2, <1>3, <1>4, <1>5, <1>6, <1>7, <1>8, <1>10 DEF Next, Script

\* Without faults, and with keys that parse, the published key belongs to the
\* stored one whenever no Job is running: a Job that was refused has changed
\* neither, one that changed the private key has published it.
THEOREM PairMatches == ASSUME ~Overlap PROVE Spec => []PairMatchesAtRest
<1>1. Init => SourceInv /\ PairInv
  BY DEF Init, SourceInv, PairInv, Publishing
<1>2. Inv /\ SerialInv /\ SourceInv /\ PairInv /\ [Next]_vars
        => (SourceInv /\ PairInv)'
  BY SourceStep, PairStep
<1>3. PairInv => PairMatchesAtRest
  BY DEF PairInv, PairMatchesAtRest, AtRest, Live, Publishing, Calls
<1> QED
  BY <1>1, <1>2, <1>3, SerialAlways, PTL DEF Spec
=============================================================================
