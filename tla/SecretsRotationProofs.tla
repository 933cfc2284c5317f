------------------------- MODULE SecretsRotationProofs -------------------------
(***************************************************************************)
(* Theorems about SecretsRotation, for all user secrets, configurations,   *)
(* keys, retries and faults: hook Jobs in sequence, and an operator who    *)
(* waits for a rotation that began with the data service on the new key.   *)
(*                                                                         *)
(* Keys may come back, so nothing can be told from a key alone.  The proof *)
(* follows the running pods: between two rotations secrets storage and the *)
(* data service must have been restarted (KeysInUse, Reported), so when a  *)
(* rotation is pending everything is under the current key (Ready).        *)
(***************************************************************************)
EXTENDS SecretsRotation, PlatformInitProofs

\* A Job that may still rotate the stored key away.
Pending(j) == Live(j) /\ Truthy(cfg[j].prev) /\ privKey # cfg[j].priv

Current == {None, privKey}
Ready == /\ {pubKey, dsPub, ssPriv} \subseteq Current
         /\ \A s \in Secrets : lock[s] \in Current

\* Everybody uses one of the two stored keys, and whoever uses the current
\* one has started after the rotation to it.
KeysInUse ==
    /\ {pubKey, dsPub, ssPriv} \subseteq {None, privKey, prevKey}
    /\ \A s \in Secrets : lock[s] \in {None, privKey, prevKey}
    /\ dsPub # None /\ dsPub = privKey => pubKey = privKey
    /\ ssPriv # None /\ ssPriv = privKey => /\ ssPrev = prevKey
                                            /\ clean => dsPub = privKey

\* What the reported end of a rotation means.
Reported ==
    /\ rotation # "none" => ssPrev # None /\ ssPriv # None
    /\ rotation = "finished" /\ ssPriv = privKey /\ clean =>
            \A s \in Secrets : lock[s] # ssPrev

RotationInv == /\ lock = [s \in Secrets |-> lock[s]]
               /\ KeysInUse /\ Reported
               /\ (\E j \in Jobs : Pending(j)) => Ready

PlatformInv == Inv /\ SerialInv /\ SourceInv

LEMMA PlatformStep ==
  ASSUME ~Overlap, PlatformInv, [RotationNext]_allVars
  PROVE  PlatformInv' /\ [Next]_vars
<1>1. [Next]_vars
  BY DEF RotationNext, HookStep, HookFault, Deploy, StartDataService,
         StartSecretsStorage, SaveSecret, Reencryption, RotateSecret,
         FinishRotation, allVars, Next
<1>2. Inv'
  BY <1>1, TypeStep, PodsStep, StoreStep DEF PlatformInv, Inv
<1> QED
  BY <1>1, <1>2, SerialStep, SourceStep DEF PlatformInv

LEMMA RotationInitInv == RotationInit => PlatformInv /\ RotationInv
<1> SUFFICES ASSUME RotationInit PROVE PlatformInv /\ RotationInv
  OBVIOUS
<1>1. Init => SerialInv /\ SourceInv
  BY DEF Init, SerialInv, SourceInv, Live, Publishing, PastPrivateKey, Calls
<1>2. PlatformInv
  BY <1>1, InitInv DEF RotationInit, PlatformInv
<1>3. RotationInv
  BY DEF RotationInit, Init, RotationInv, KeysInUse, Reported, Pending, Live,
         Calls
<1> QED
  BY <1>2, <1>3

\* How a step of a hook Job changes the keys.
LEMMA KeyStep ==
  ASSUME PlatformInv, Inv', NEW j \in Jobs,
         Script(j) \/ RestartPod(j) \/ Crash(j)
  PROVE  \/ UNCHANGED <<privKey, prevKey, pubKey>>
         \/ /\ privKey = None /\ privKey' # None
            /\ UNCHANGED <<prevKey, pubKey>>
         \/ /\ privKey # None /\ pubKey' = privKey
            /\ UNCHANGED <<privKey, prevKey>>
         \/ /\ Pending(j) /\ privKey # None
            /\ privKey' = cfg[j].priv /\ privKey' # None
            /\ prevKey' = privKey /\ UNCHANGED pubKey
<1>1. CASE CreatePrivateKey(j)
  <2>1. key[j] # None
    BY <1>1 DEF CreatePrivateKey, PlatformInv, Inv, PodsInv, Truthy
  <2> QED
    BY <1>1, <2>1 DEF CreatePrivateKey
<1>2. CASE PatchPrivateKey(j)
  <2>1. /\ privKey = cfg[j].prev /\ privKey # None
        /\ cfg[j].priv \notin {None, cfg[j].prev}
        /\ Truthy(cfg[j].prev)
    BY <1>2 DEF PatchPrivateKey, PlatformInv, Inv, PodsInv, StoreInv,
                SerialInv, SourceInv
  <2>2. Live(j)
    BY <1>2 DEF PatchPrivateKey, Live, Calls
  <2> QED
    BY <1>2, <2>1, <2>2 DEF PatchPrivateKey, Pending
<1>3. CASE CreatePublicKey(j) \/ PatchPublicKey(j)
  <2>1. Publishing(j)
    BY <1>3 DEF CreatePublicKey, PatchPublicKey, Publishing
  <2>2. key[j] = privKey /\ key[j] \in stored
    BY <2>1 DEF PlatformInv, Inv, PodsInv, SerialInv
  <2>3. privKey # None
    BY <2>2, ConstantsAssumption DEF PlatformInv, Inv, TypeOK
  <2> QED
    BY <1>3, <2>2, <2>3 DEF CreatePublicKey, PatchPublicKey
<1>4. CASE \/ RestartPod(j) \/ Crash(j) \/ ReadPrivateKey(j)
           \/ ReadPublicKey(j) \/ ReadEncryptionKey(j)
           \/ CreateEncryptionKey(j) \/ ReadAuthnKey(j) \/ CreateAuthnKey(j)
           \/ Exit(j)
  BY <1>4 DEF RestartPod, Crash, ReadPrivateKey, ReadPublicKey,
     ReadEncryptionKey, CreateEncryptionKey, ReadAuthnKey, CreateAuthnKey,
     Exit, secrets
<1> QED
  BY <1>1, <1>2, <1>3, <1>4 DEF Script

\* It starts no other Job, and changes nobody's configuration.
LEMMA LiveStep ==
  ASSUME PlatformInv, NEW j \in Jobs, Script(j) \/ RestartPod(j) \/ Crash(j)
  PROVE  \A i \in Jobs : Live(i)' => Live(i) /\ cfg'[i] = cfg[i]
<1>1. /\ Live(j) /\ cfg' = cfg
      /\ \A i \in Jobs \ {j} : pc'[i] = pc[i]
  <2> USE DEF PlatformInv, Inv, TypeOK, Live, Calls
  <2>1. CASE \/ ReadPrivateKey(j) \/ PatchPrivateKey(j) \/ CreatePrivateKey(j)
             \/ ReadPublicKey(j) \/ CreatePublicKey(j)
    BY <2>1, SMTT(30) DEF ReadPrivateKey, PatchPrivateKey, CreatePrivateKey,
       ReadPublicKey, CreatePublicKey, Raise, GoTo
  <2>2. CASE \/ PatchPublicKey(j) \/ ReadEncryptionKey(j)
             \/ CreateEncryptionKey(j) \/ ReadAuthnKey(j) \/ CreateAuthnKey(j)
             \/ Exit(j)
    BY <2>2, SMTT(30) DEF PatchPublicKey, ReadEncryptionKey,
       CreateEncryptionKey, ReadAuthnKey, CreateAuthnKey, Exit, Raise, GoTo
  <2>3. CASE RestartPod(j) \/ Crash(j)
    BY <2>3, SMTT(30) DEF RestartPod, Crash, Raise
  <2> QED
    BY <2>1, <2>2, <2>3 DEF Script
<1> QED
  BY <1>1 DEF Live

LEMMA HookInv ==
  ASSUME PlatformInv, Inv', RotationInv, NEW j \in Jobs,
         Script(j) \/ RestartPod(j) \/ Crash(j), UNCHANGED services
  PROVE  RotationInv'
<1> USE DEF services
<1>1. ASSUME NEW i \in Jobs, Pending(i)'
      PROVE  Live(i) /\ Truthy(cfg[i].prev) /\ cfg'[i] = cfg[i]
  BY <1>1, LiveStep DEF Pending, Truthy
<1>2. /\ prevKey # None => privKey # None
      /\ privKey = None => prevKey = None
  BY DEF PlatformInv, Inv, StoreInv
<1>3. CASE UNCHANGED <<privKey, prevKey, pubKey>>
  BY <1>1, <1>3 DEF RotationInv, KeysInUse, Reported, Ready, Current, Pending
<1>4. CASE privKey = None /\ privKey' # None /\ UNCHANGED <<prevKey, pubKey>>
  BY <1>2, <1>4 DEF RotationInv, KeysInUse, Reported, Ready, Current
<1>5. CASE privKey # None /\ pubKey' = privKey /\ UNCHANGED <<privKey, prevKey>>
  BY <1>1, <1>5 DEF RotationInv, KeysInUse, Reported, Ready, Current, Pending
<1>6. CASE /\ Pending(j) /\ privKey # None
           /\ privKey' = cfg[j].priv /\ privKey' # None
           /\ prevKey' = privKey /\ UNCHANGED pubKey
  <2>1. Ready /\ privKey' # privKey
    BY <1>6 DEF RotationInv, Pending
  <2>2. \A i \in Jobs : ~Pending(i)'
    <3> SUFFICES ASSUME NEW i \in Jobs, Pending(i)' PROVE FALSE
      OBVIOUS
    <3>1. i = j
      BY <1>1, <1>6 DEF Pending, PlatformInv, SerialInv
    <3> QED
      BY <1>1, <1>6, <3>1 DEF Pending
  <2>3. KeysInUse' /\ Reported'
    BY <1>6, <2>1 DEF RotationInv, KeysInUse, Reported, Ready, Current
  <2> QED
    BY <2>2, <2>3 DEF RotationInv
<1> QED
  BY <1>3, <1>4, <1>5, <1>6, KeyStep

LEMMA SettledReady ==
  ASSUME Strict, PlatformInv, RotationInv, Settled
  PROVE  Ready
BY DEF Settled, RotationInv, KeysInUse, Reported, Ready, Current, PlatformInv,
       Inv, StoreInv

LEMMA DeployInv ==
  ASSUME Strict, PlatformInv, RotationInv, NEW j \in Jobs, NEW c \in Configs,
         Deploy(j, c)
  PROVE  RotationInv'
<1>1. /\ UNCHANGED <<services, secrets>>
      /\ pc' = [pc EXCEPT ![j] = "readPriv"]
      /\ cfg' = [cfg EXCEPT ![j] = c]
      /\ Truthy(c.prev) => Settled
  BY DEF Deploy, StartJob
<1>2. Ready' <=> Ready
  BY <1>1 DEF services, secrets, Ready, Current
<1>3. ASSUME NEW i \in Jobs, Pending(i)'
      PROVE  Ready
  <2>1. CASE i = j
    <3>1. cfg'[j] = c
      BY <1>1 DEF PlatformInv, Inv, TypeOK
    <3> QED
      BY <1>1, <1>3, <2>1, <3>1, SettledReady DEF Pending, Truthy
  <2>2. CASE i # j
    <3>1. Pending(i)
      BY <1>1, <1>3, <2>2 DEF Pending, Live, Truthy, secrets, PlatformInv, Inv,
                             TypeOK
    <3> QED
      BY <3>1 DEF RotationInv
  <2> QED
    BY <2>1, <2>2
<1> QED
  BY <1>1, <1>2, <1>3 DEF RotationInv, KeysInUse, Reported, services, secrets

\* The services' own steps leave the keys and the Jobs alone.
LEMMA ServiceInv ==
  ASSUME PlatformInv, RotationInv, UNCHANGED vars,
         \/ StartDataService \/ StartSecretsStorage
         \/ \E s \in Secrets : SaveSecret(s)
         \/ Reencryption
  PROVE  RotationInv'
<1> USE DEF vars, secrets, pods
<1>1. \A j \in Jobs : Pending(j)' <=> Pending(j)
  BY DEF Pending, Live, Truthy
<1>2. prevKey # None => prevKey # privKey
  BY DEF PlatformInv, Inv, StoreInv
<1>3. CASE StartDataService
  BY <1>1, <1>3 DEF StartDataService, RotationInv, KeysInUse, Reported, Ready,
                    Current
<1>4. CASE StartSecretsStorage
  BY <1>1, <1>4 DEF StartSecretsStorage, RotationInv, KeysInUse, Reported,
                    Ready, Current
<1>5. ASSUME NEW s \in Secrets, SaveSecret(s) PROVE RotationInv'
  BY <1>1, <1>2, <1>5 DEF SaveSecret, RotationInv, KeysInUse, Reported, Ready,
                          Current
<1>6. ASSUME NEW s \in Secrets, RotateSecret(s) PROVE RotationInv'
  BY <1>1, <1>6 DEF RotateSecret, RotationInv, KeysInUse, Reported, Ready,
                    Current
<1>7. CASE FinishRotation
  BY <1>1, <1>7 DEF FinishRotation, RotationInv, KeysInUse, Reported, Ready,
                    Current
<1> QED
  BY <1>3, <1>4, <1>5, <1>6, <1>7 DEF Reencryption

LEMMA RotationInvStep ==
  ASSUME ~Overlap, Strict, PlatformInv, RotationInv, [RotationNext]_allVars
  PROVE  PlatformInv' /\ RotationInv'
<1>1. PlatformInv' /\ Inv'
  BY PlatformStep DEF PlatformInv
<1>2. ASSUME NEW j \in Jobs, HookStep(j) \/ HookFault(j)
      PROVE  RotationInv'
  BY <1>1, <1>2, HookInv DEF HookStep, HookFault
<1>3. ASSUME NEW j \in Jobs, NEW c \in Configs, Deploy(j, c)
      PROVE  RotationInv'
  BY <1>3, DeployInv
<1>4. CASE \/ StartDataService \/ StartSecretsStorage
           \/ \E s \in Secrets : SaveSecret(s)
           \/ Reencryption
  <2>1. UNCHANGED vars
    BY <1>4 DEF StartDataService, StartSecretsStorage, SaveSecret,
       Reencryption, RotateSecret, FinishRotation
  <2> QED
    BY <1>1, <1>4, <2>1, ServiceInv
<1>5. CASE UNCHANGED allVars
  BY <1>1, <1>5 DEF allVars, vars, secrets, pods, services, RotationInv, KeysInUse,
     Reported, Ready, Current, Pending, Live, Truthy
<1> QED
  BY <1>1, <1>2, <1>3, <1>4, <1>5 DEF RotationNext

\* Every user secret can be opened with a stored key, at any time of any
\* number of rotations, with pods of the hook that fail and are retried and
\* services that restart whenever they like.
THEOREM SecretsNeverLost ==
  ASSUME ~Overlap, Strict
  PROVE  RotationSpec => []NoSecretLost
<1>1. PlatformInv /\ RotationInv => NoSecretLost
  BY DEF RotationInv, KeysInUse, NoSecretLost
<1>2. PlatformInv /\ RotationInv /\ [RotationNext]_allVars
        => (PlatformInv /\ RotationInv)'
  BY RotationInvStep
<1> QED
  BY <1>1, <1>2, RotationInitInv, PTL DEF RotationSpec

\* With Jobs in sequence the hook implements the abstract key ring also next
\* to the services and an operator who deploys new values, and begins
\* rotations, whenever they like: the key it rotates away is always kept as
\* the previous one, and what is published is always the key that is stored.
THEOREM RotationRefinement ==
  ASSUME ~Overlap
  PROVE  RotationSpec => ImplementsKeyRing
<1>1. RotationInit => PlatformInv /\ Ring!Init
  BY RotationInitInv, InstalledKeys DEF RotationInit, Init, Ring!Init
<1>2. PlatformInv /\ [RotationNext]_allVars => PlatformInv'
  BY PlatformStep
<1>3. PlatformInv /\ PlatformInv' /\ [RotationNext]_allVars
        => [Ring!Next]_(Ring!ring)
  BY PlatformStep, RingStep DEF PlatformInv
<1> QED
  BY <1>1, <1>2, <1>3, PTL DEF RotationSpec, ImplementsKeyRing, Ring!Spec
=============================================================================
