---------------------------- MODULE PlatformInit ----------------------------
(***************************************************************************)
(* scripts/platform-init/platform-init.py and the Helm hook Job that runs  *)
(* it (setup-job-platform-init.yaml): every release revision renders a new *)
(* Job, whose pod reads its configuration from the environment and brings  *)
(* four Kubernetes secrets in line with it, one API call at a time.  A pod *)
(* that raises is replaced by the Job controller until the backoff limit.  *)
(*                                                                         *)
(* One action per Kubernetes API call; what the script computes between    *)
(* two calls belongs to the call before it.  Every exception ends the pod  *)
(* (the script catches none but those of a read).                          *)
(***************************************************************************)
EXTENDS Integers

CONSTANTS
    Jobs,           \* the hook Jobs of the release's revisions
    Configs,        \* platformConfig values the operator may deploy
    Keys,           \* the key strings that occur in configurations
    ValidKeys,      \* those of Keys that parse as an RSA key in PEM
    Installed,      \* the private keys that may be there at the beginning
    Empty,          \* the empty string
    None,           \* Python's None; an entry or secret that is absent
    Overlap,        \* may a Job start while another one is unfinished?
    BackoffLimit,   \* retries of a failed pod (Kubernetes' default is 6)
    MaxFaults       \* bound: failed reads, failed writes and killed pods

\* The key that the attempt-th pod of Job j generates, never seen before.
GeneratedKey(j, n) == <<j, n>>
Generated == Jobs \X (1 .. BackoffLimit + 1)

Strings == Keys \cup Generated \cup {Empty}
Value == Strings \cup {None}
ConfigType == [priv : Value, prev : Value, enc : Value, authn : Value]

ASSUME ConstantsAssumption ==
    /\ None \notin Strings
    /\ Empty \notin Keys \cup Generated
    /\ Keys \cap Generated = {}
    /\ ValidKeys \subseteq Keys
    /\ Installed \subseteq ValidKeys \cup {None}
    /\ Configs \subseteq ConfigType
    /\ Overlap \in BOOLEAN
    /\ BackoffLimit \in Nat
    /\ MaxFaults \in Nat

VARIABLES
    privKey, prevKey,   \* the two entries of the private key secret
    pubKey,             \* the private key whose public half is published
    encKey,             \* the data service's encryption key
    authnKey,           \* the data service's internal signing key
    stored,             \* history: every private key ever stored
    pc,                 \* per Job: the API call its pod makes next
    cfg,                \* per Job: the configuration in its environment
    key,                \* per Job: secret_service_private_key in memory
    attempt,            \* per Job: pods started
    faults              \* failures injected so far

secrets == <<privKey, prevKey, pubKey, encKey, authnKey, stored>>
pods == <<pc, cfg, key, attempt>>
vars == <<secrets, pods, faults>>

\* Python truthiness of an optional string.
Truthy(v) == v \notin {None, Empty}

\* load_pem_private_key succeeds.
Parses(k) == k \in ValidKeys \cup Generated

Calls == {"readPriv", "patchPriv", "createPriv", "readPub", "patchPub",
          "createPub", "readEnc", "createEnc", "readAuthn", "createAuthn",
          "exit"}
Finished(j) == pc[j] \in {"done", "failed"}
Live(j) == pc[j] \in Calls \cup {"backoff"}

NoConfig == [priv |-> None, prev |-> None, enc |-> None, authn |-> None]

\* An empty namespace, or one in which the Job of an earlier revision has
\* published its key pair and then ended with its retries spent.
Init == /\ privKey \in Installed
        /\ pubKey = privKey
        /\ stored = {privKey} \ {None}
        /\ prevKey = None /\ encKey = None /\ authnKey = None
        /\ pc = [j \in Jobs |-> "new"]
        /\ cfg = [j \in Jobs |-> NoConfig]
        /\ key = [j \in Jobs |-> None]
        /\ attempt = [j \in Jobs |-> 0]
        /\ faults = 0

-----------------------------------------------------------------------------
(* Helm and the Job controller.                                            *)

\* The Jobs are interchangeable: the next revision takes any new one.
NextJob == CHOOSE j \in Jobs : pc[j] = "new"

\* Helm renders the Job of a revision with the operator's configuration.
\* The Job's name is random, so one that outlived Helm's timeout remains.
StartJob(j, c) ==
    /\ pc[j] = "new" /\ j = NextJob
    /\ Overlap \/ \A i \in Jobs : ~Live(i)
    /\ pc' = [pc EXCEPT ![j] = "readPriv"]
    /\ cfg' = [cfg EXCEPT ![j] = c]
    /\ key' = [key EXCEPT ![j] = c.priv]
    /\ attempt' = [attempt EXCEPT ![j] = 1]
    /\ UNCHANGED <<secrets, faults>>

\* The pod of Job j makes API call l next.
GoTo(j, l) == /\ pc' = [pc EXCEPT ![j] = l]
              /\ UNCHANGED <<cfg, attempt>>

\* Mutants: one pod too many; no second pod at all.
RaiseOffByOne(j) ==
    /\ pc' = [pc EXCEPT ![j] = IF attempt[j] <= BackoffLimit + 1
                               THEN "backoff" ELSE "failed"]
    /\ UNCHANGED <<cfg, key, attempt>>
RaiseForGood(j) ==
    /\ pc' = [pc EXCEPT ![j] = "failed"]
    /\ UNCHANGED <<cfg, key, attempt>>

\* The pod ends with an exception; the Job fails once its retries are spent.
Raise(j) ==
    /\ pc' = [pc EXCEPT ![j] = IF attempt[j] <= BackoffLimit
                               THEN "backoff" ELSE "failed"]
    /\ UNCHANGED <<cfg, key, attempt>>

\* Mutant: the retries are not counted.
RestartPodUncounted(j) ==
    /\ pc[j] = "backoff"
    /\ pc' = [pc EXCEPT ![j] = "readPriv"]
    /\ key' = [key EXCEPT ![j] = cfg[j].priv]
    /\ UNCHANGED <<secrets, cfg, attempt, faults>>

\* A new pod starts from the environment: what was generated is forgotten.
RestartPod(j) ==
    /\ pc[j] = "backoff"
    /\ pc' = [pc EXCEPT ![j] = "readPriv"]
    /\ key' = [key EXCEPT ![j] = cfg[j].priv]
    /\ attempt' = [attempt EXCEPT ![j] = @ + 1]
    /\ UNCHANGED <<secrets, cfg, faults>>

\* The pod is killed, or the call it is about to make returns an error; a
\* call that is carried out and whose answer is lost fails one step later.
Crash(j) == /\ pc[j] \in Calls
            /\ faults < MaxFaults
            /\ faults' = faults + 1
            /\ Raise(j)
            /\ UNCHANGED secrets

-----------------------------------------------------------------------------
(* The script.                                                             *)

\* _get_k8s_secret returns v: any API error reads as an absent entry.
ReadSecret(entry, v) ==
    \/ v = entry /\ UNCHANGED faults
    \/ v = None /\ entry # None /\ faults < MaxFaults /\ faults' = faults + 1

\* Mutants: a check of the rotation is dropped, or made of the wrong key.
RotationRefusedSwapped(c, existing) ==
    \/ existing = None
    \/ existing = c.prev
    \/ c.prev # existing
    \/ c.priv = None
RotationRefusedNotPrev(c, existing) ==
    existing = None \/ existing = c.priv \/ c.priv = None

\* setup_private_key_rotation raises before it writes; .encode() of a
\* missing new key does so too.
RotationRefused(c, existing) ==
    \/ existing = None
    \/ existing = c.priv
    \/ c.prev # existing
    \/ c.priv = None

\* Mutant: another key in the configuration goes unnoticed.
MismatchIgnored(c, existing) == FALSE

\* A configured key that differs from the stored one, without a rotation.
Mismatch(c, existing) == c.priv # None /\ existing # c.priv

\* Mutant: the empty string counts as a configured key.
KeyToInstallNotNone(j) ==
    IF key[j] # None THEN key[j] ELSE GeneratedKey(j, attempt[j])

\* initialize_private_key: without a configured key one is generated.
KeyToInstall(j) ==
    IF Truthy(key[j]) THEN key[j] ELSE GeneratedKey(j, attempt[j])

\* set_secret_service_secrets: reads the private key and takes a branch.
ReadPrivateKey(j) ==
    /\ pc[j] = "readPriv"
    /\ UNCHANGED secrets
    /\ \E existing \in {privKey, None} :
        /\ ReadSecret(privKey, existing)
        /\ \/ /\ Truthy(cfg[j].prev)
              /\ RotationRefused(cfg[j], existing)
              /\ Raise(j)
           \/ /\ Truthy(cfg[j].prev)
              /\ ~RotationRefused(cfg[j], existing)
              /\ GoTo(j, "patchPriv")
              /\ UNCHANGED key
           \/ /\ ~Truthy(cfg[j].prev)
              /\ ~Truthy(existing)
              /\ key' = [key EXCEPT ![j] = KeyToInstall(j)]
              /\ GoTo(j, "createPriv")
           \/ /\ ~Truthy(cfg[j].prev)
              /\ Truthy(existing)
              /\ Mismatch(cfg[j], existing)
              /\ Raise(j)
           \/ /\ ~Truthy(cfg[j].prev)
              /\ Truthy(existing)
              /\ ~Mismatch(cfg[j], existing)
              /\ GoTo(j, "readEnc")
              /\ UNCHANGED key

\* Mutant: the stored key is recorded as the previous one.
PatchPrivateKeyStored(j) ==
    /\ pc[j] = "patchPriv"
    /\ privKey' = cfg[j].priv
    /\ prevKey' = privKey
    /\ stored' = stored \cup {cfg[j].priv}
    /\ GoTo(j, "readPub")
    /\ UNCHANGED <<pubKey, encKey, authnKey, key, faults>>

\* setup_private_key_rotation: both entries in one patch.
PatchPrivateKey(j) ==
    /\ pc[j] = "patchPriv"
    /\ privKey' = cfg[j].priv
    /\ prevKey' = cfg[j].prev
    /\ stored' = stored \cup {cfg[j].priv}
    /\ GoTo(j, "readPub")
    /\ UNCHANGED <<pubKey, encKey, authnKey, key, faults>>

\* Mutant: "already exists" counts as success.
CreatePrivateKeyConflictIgnored(j) ==
    /\ pc[j] = "createPriv"
    /\ privKey' = IF privKey = None THEN key[j] ELSE privKey
    /\ stored' = stored \cup {privKey'}
    /\ GoTo(j, "readPub")
    /\ UNCHANGED <<prevKey, pubKey, encKey, authnKey, key, faults>>

\* initialize_private_key: the API refuses to create what exists (409).
CreatePrivateKey(j) ==
    /\ pc[j] = "createPriv"
    /\ \/ /\ privKey = None
          /\ privKey' = key[j]
          /\ stored' = stored \cup {key[j]}
          /\ GoTo(j, "readPub")
          /\ UNCHANGED key
       \/ /\ privKey # None
          /\ Raise(j)
          /\ UNCHANGED <<privKey, stored>>
    /\ UNCHANGED <<prevKey, pubKey, encKey, authnKey, faults>>

\* set_public_key: the key is parsed only now, after it has been stored.
ReadPublicKey(j) ==
    /\ pc[j] = "readPub"
    /\ \E existing \in {pubKey, None} :
        /\ ReadSecret(pubKey, existing)
        /\ \/ /\ ~Parses(key[j])
              /\ Raise(j)
           \/ /\ Parses(key[j])
              /\ GoTo(j, IF existing = None THEN "createPub" ELSE "patchPub")
              /\ UNCHANGED key
    /\ UNCHANGED secrets

CreatePublicKey(j) ==
    /\ pc[j] = "createPub"
    /\ \/ /\ pubKey = None
          /\ pubKey' = key[j]
          /\ GoTo(j, "readEnc")
          /\ UNCHANGED key
       \/ /\ pubKey # None
          /\ Raise(j)
          /\ UNCHANGED pubKey
    /\ UNCHANGED <<privKey, prevKey, encKey, authnKey, stored, faults>>

\* Mutant: an existing public key is kept.
PatchPublicKeySkipped(j) ==
    /\ pc[j] = "patchPub"
    /\ GoTo(j, "readEnc")
    /\ UNCHANGED <<secrets, key, faults>>

PatchPublicKey(j) ==
    /\ pc[j] = "patchPub"
    /\ pubKey' = key[j]
    /\ GoTo(j, "readEnc")
    /\ UNCHANGED <<privKey, prevKey, encKey, authnKey, stored, key, faults>>

\* init_secret_and_data_service_encryption: an existing key stays, even
\* when the configuration names another one.
ReadEncryptionKey(j) ==
    /\ pc[j] = "readEnc"
    /\ \E existing \in {encKey, None} :
        /\ ReadSecret(encKey, existing)
        /\ GoTo(j, IF existing = None THEN "createEnc" ELSE "readAuthn")
    /\ UNCHANGED <<secrets, key>>

\* The configured key, or a generated one.
Provisioned(j, configured) ==
    IF configured = None THEN GeneratedKey(j, attempt[j]) ELSE configured

\* Mutant: create or replace.
CreateEncryptionKeyUpsert(j) ==
    /\ pc[j] = "createEnc"
    /\ encKey' = Provisioned(j, cfg[j].enc)
    /\ GoTo(j, "readAuthn")
    /\ UNCHANGED <<privKey, prevKey, pubKey, authnKey, stored, key, faults>>

CreateEncryptionKey(j) ==
    /\ pc[j] = "createEnc"
    /\ \/ /\ encKey = None
          /\ encKey' = Provisioned(j, cfg[j].enc)
          /\ GoTo(j, "readAuthn")
          /\ UNCHANGED key
       \/ /\ encKey # None
          /\ Raise(j)
          /\ UNCHANGED encKey
    /\ UNCHANGED <<privKey, prevKey, pubKey, authnKey, stored, faults>>

\* init_data_service_internal_authentication_secret_key
ReadAuthnKey(j) ==
    /\ pc[j] = "readAuthn"
    /\ \E existing \in {authnKey, None} :
        /\ ReadSecret(authnKey, existing)
        /\ GoTo(j, IF existing = None THEN "createAuthn" ELSE "exit")
    /\ UNCHANGED <<secrets, key>>

CreateAuthnKey(j) ==
    /\ pc[j] = "createAuthn"
    /\ \/ /\ authnKey = None
          /\ authnKey' = Provisioned(j, cfg[j].authn)
          /\ GoTo(j, "exit")
          /\ UNCHANGED key
       \/ /\ authnKey # None
          /\ Raise(j)
          /\ UNCHANGED authnKey
    /\ UNCHANGED <<privKey, prevKey, pubKey, encKey, stored, faults>>

\* main returns and the process exits: the Job has succeeded.
Exit(j) == /\ pc[j] = "exit"
           /\ GoTo(j, "done")
           /\ UNCHANGED <<secrets, key, faults>>

-----------------------------------------------------------------------------
\* main(): the calls of one pod, in the order of pc.
Script(j) == \/ ReadPrivateKey(j)
             \/ PatchPrivateKey(j) \/ CreatePrivateKey(j)
             \/ ReadPublicKey(j) \/ CreatePublicKey(j) \/ PatchPublicKey(j)
             \/ ReadEncryptionKey(j) \/ CreateEncryptionKey(j)
             \/ ReadAuthnKey(j) \/ CreateAuthnKey(j)
             \/ Exit(j)

Next == \E j \in Jobs : \/ \E c \in Configs : StartJob(j, c)
                        \/ Script(j)
                        \/ RestartPod(j)
                        \/ Crash(j)

\* A scheduled pod runs on and the Job controller replaces failed pods;
\* nobody has to deploy another revision, and no fault has to happen.
Fairness == \A j \in Jobs : WF_vars(Script(j) \/ RestartPod(j))

Spec == Init /\ [][Next]_vars /\ Fairness

-----------------------------------------------------------------------------
(* Properties.                                                             *)

\* Types: the range of every entry, and that the Job controller starts at
\* most BackoffLimit + 1 pods for a Job.
TypeOK ==
    /\ {privKey, prevKey, pubKey, encKey, authnKey} \subseteq Value
    /\ stored \subseteq Strings
    /\ pc \in [Jobs -> Calls \cup {"new", "backoff", "done", "failed"}]
    /\ cfg \in [Jobs -> ConfigType]
    /\ key \in [Jobs -> Value]
    /\ attempt \in [Jobs -> 0 .. BackoffLimit + 1]
    /\ faults \in 0 .. MaxFaults

\* A recorded previous key is never the current one, so secrets storage can
\* tell what is to be re-encrypted: also when two rotations of overlapping
\* Jobs are interleaved between their read and their patch.
PrevDiffers == prevKey # None => prevKey # privKey

\* The public key secret never gets ahead of the private key secret: nobody
\* encrypts with a key whose private half was never stored, not even when
\* two first installations race or a pod dies between the two writes; and
\* what is published is a real key, although the script parses the private
\* key only after it has stored it.
PublishedAfterStored == pubKey # None => pubKey \in stored /\ Parses(pubKey)

\* A private key is stored that cannot be used only if a revision's values
\* name exactly that string, and the empty string only if they name it as
\* the new key of a rotation: two checks of the option tell the empty string
\* from None, one does not.
StoredKeysUsable ==
    \A k \in stored :
        \/ Parses(k)
        \/ \E j \in Jobs : /\ cfg[j].priv = k
                           /\ k = Empty => Truthy(cfg[j].prev)

\* The data at rest stays readable: neither symmetric key is replaced once
\* it exists, although a failed read makes the script believe it is absent.
SymmetricKeysWrittenOnce ==
    [][ /\ encKey # None => encKey' = encKey
        /\ authnKey # None => authnKey' = authnKey ]_vars

\* A Job that succeeds leaves the private key its configuration names (if
\* it names one), whichever pods of it failed before.  Jobs in sequence.
SuccessMeansConfiguredKey ==
    [][ \A j \in Jobs :
          pc[j] # "done" /\ pc'[j] = "done" /\ Truthy(cfg[j].priv)
              => privKey' = cfg[j].priv ]_vars

\* With Jobs in sequence the secrets behave as the key ring.
Ring == INSTANCE KeyRing WITH
            Material <- Strings, Absent <- None,
            priv <- privKey, prev <- prevKey, pub <- pubKey,
            enc <- encKey, authn <- authnKey
ImplementsKeyRing == Ring!Spec

\* Whenever no Job is running, the two halves of the key pair match.  Jobs
\* in sequence, as long as no fault has happened and with keys that parse.
AtRest == \A j \in Jobs : ~Live(j)
KeysParse == \A j \in Jobs : cfg[j].priv \in ValidKeys \cup {None}
PairMatchesAtRest == faults = 0 /\ AtRest /\ KeysParse => pubKey = privKey

\* Every Job comes to an end: retries are bounded, no pod waits for another.
JobsTerminate == \A j \in Jobs : Live(j) ~> Finished(j)

\* A Job that asks for nothing in particular (no private key configured, no
\* rotation) succeeds within its retries despite the faults and the
\* conflicts with overlapping Jobs: unless a rotation to the empty string
\* has left a key that is stored and yet counts as absent, which the Job
\* then tries to create until its retries are spent.
UnconfiguredJobSucceeds ==
    \A j \in Jobs :
        Live(j) /\ cfg[j].priv = None /\ ~Truthy(cfg[j].prev)
            ~> pc[j] = "done" \/ privKey = Empty

\* A sound rotation away from the stored key takes effect: while its pod has
\* not patched the secret and the key it rotates from is the stored one, the
\* read may fail, the pod may die and other Jobs may install or rotate at the
\* same time, but the key does not stay.
RotationApplied ==
    \A j \in Jobs :
        ( /\ pc[j] \in {"readPriv", "patchPriv"}
          /\ Truthy(cfg[j].priv) /\ Truthy(cfg[j].prev)
          /\ cfg[j].priv # cfg[j].prev /\ privKey = cfg[j].prev
          /\ attempt[j] + (MaxFaults - faults) <= BackoffLimit + 1 )
            ~> privKey # cfg[j].prev

-----------------------------------------------------------------------------
(* Inductive invariants, for the proofs.                                   *)

Publishing(j) == pc[j] \in {"readPub", "createPub", "patchPub"}
PastPrivateKey(j) == pc[j] \in Calls \ {"readPriv", "patchPriv", "createPriv"}

\* What a pod knows at the call it makes next.
PodsInv ==
    \A j \in Jobs :
        /\ pc[j] = "new" <=> attempt[j] = 0
        /\ pc[j] = "backoff" => attempt[j] <= BackoffLimit
        /\ pc[j] = "readPriv" \/ Truthy(cfg[j].priv) => key[j] = cfg[j].priv
        /\ pc[j] = "patchPriv" => /\ key[j] = cfg[j].priv
                                  /\ cfg[j].priv \notin {None, cfg[j].prev}
                                  /\ cfg[j].prev # None
        /\ pc[j] = "createPriv" => Truthy(key[j])
        /\ Publishing(j) => key[j] \in stored
        /\ pc[j] \in {"createPub", "patchPub"} => Parses(key[j])

\* The stored keys: the previous one is recorded beside a current one.
StoreInv ==
    /\ privKey # None => privKey \in stored
    /\ prevKey # None => privKey \notin {None, prevKey}
    /\ pubKey # None => pubKey \in stored /\ Parses(pubKey)
    /\ \A j \in Jobs : pc[j] = "patchPriv" => privKey # None

\* Where the key comes from that a pod is about to store.
SourceInv ==
    \A j \in Jobs :
        /\ pc[j] = "new" => cfg[j] = NoConfig
        /\ pc[j] = "createPriv" =>
                key[j] \in Generated \/ (key[j] = cfg[j].priv /\ key[j] # Empty)
        /\ pc[j] = "patchPriv" => Truthy(cfg[j].prev)

\* With Jobs in sequence what a pod read stays true until it writes.
SerialInv ==
    /\ \A i, j \in Jobs : Live(i) /\ Live(j) => i = j
    /\ \A j \in Jobs :
        /\ pc[j] = "patchPriv" => privKey = cfg[j].prev
        /\ Publishing(j) => key[j] = privKey
        /\ PastPrivateKey(j) /\ Truthy(cfg[j].priv) => privKey = cfg[j].priv

-----------------------------------------------------------------------------
(* What the repository says and the script does not do (violation runs).   *)

\* "Initialize private and public key for secrets storage service."
\* (platform-init.py:198): when a Job succeeds, the two match.
SuccessMeansPair ==
    [][ \A j \in Jobs : pc[j] # "done" /\ pc'[j] = "done"
                          => pubKey' = privKey' ]_vars
=============================================================================
