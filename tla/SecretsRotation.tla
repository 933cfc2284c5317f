--------------------------- MODULE SecretsRotation ---------------------------
(***************************************************************************)
(* The rotation of the secrets storage key as a whole: the operator who    *)
(* deploys revisions (values.yaml.changelog.md, 0.54.0), the hook Job      *)
(* (PlatformInit) and the two services whose Deployments mount the secrets *)
(* it writes.  The data service encrypts user secrets with the public key  *)
(* its pod was started with; secrets storage decrypts them with its        *)
(* private key and, when it was started with a previous one, re-encrypts   *)
(* what it finds under that.  The services' own code is not part of the    *)
(* repository: they are modelled from their Deployments and the changelog. *)
(***************************************************************************)
EXTENDS PlatformInit

CONSTANTS
    Secrets,    \* user secrets
    Strict      \* FALSE: the operator waits for secrets_rotation_state to be
                \* finished, as documented.  TRUE: for a rotation that began
                \* after the data service was restarted with the new key.

ASSUME StrictAssumption == Strict \in BOOLEAN

VARIABLES
    lock,       \* per user secret: the private key that opens it, or None
    dsPub,      \* the public key of the running data service
    ssPriv,     \* the keys of the running secrets storage
    ssPrev,
    rotation,   \* secrets_rotation_state
    clean       \* the data service had the current key when it began

services == <<lock, dsPub, ssPriv, ssPrev, rotation, clean>>
allVars == <<vars, services>>

RotationInit == /\ Init
                /\ lock = [s \in Secrets |-> None]
                /\ dsPub = None /\ ssPriv = None /\ ssPrev = None
                /\ rotation = "none"
                /\ clean = FALSE

\* Nothing the operator has to wait for.  (Mutant: the report is not read.)
SettledUnread == prevKey = None \/ ssPriv = privKey
Settled == \/ prevKey = None
           \/ /\ ssPriv = privKey
              /\ rotation = "finished"
              /\ Strict => clean

\* The operator deploys a revision; a rotation only when none is underway.
Deploy(j, c) == /\ Truthy(c.prev) => Settled
                /\ StartJob(j, c)
                /\ UNCHANGED services

\* The Job of the hook goes on, with its retries and faults.
HookStep(j) == (Script(j) \/ RestartPod(j)) /\ UNCHANGED services
HookFault(j) == Crash(j) /\ UNCHANGED services

\* A pod of the data service starts (or is rescheduled): its three secrets
\* must exist.  It keeps the key it was started with.
StartDataService ==
    /\ pubKey # None /\ encKey # None /\ authnKey # None
    /\ dsPub' = pubKey
    /\ UNCHANGED <<vars, lock, ssPriv, ssPrev, rotation, clean>>

\* A pod of secrets storage starts: with a previous key it has work to do.
\* (Mutant: the previous key is not in its environment.)
StartWithoutPrevious ==
    /\ privKey # None
    /\ ssPriv' = privKey
    /\ ssPrev' = None
    /\ rotation' = "none"
    /\ clean' = (dsPub = privKey)
    /\ UNCHANGED <<vars, lock, dsPub>>
StartSecretsStorage ==
    /\ privKey # None
    /\ ssPriv' = privKey
    /\ ssPrev' = prevKey
    /\ rotation' = IF prevKey = None THEN "none" ELSE "running"
    /\ clean' = (dsPub = privKey)
    /\ UNCHANGED <<vars, lock, dsPub>>

\* A user saves a secret.
SaveSecret(s) ==
    /\ dsPub # None
    /\ lock' = [lock EXCEPT ![s] = dsPub]
    /\ UNCHANGED <<vars, dsPub, ssPriv, ssPrev, rotation, clean>>

\* Secrets storage re-encrypts a secret.
RotateSecret(s) ==
    /\ rotation = "running"
    /\ lock[s] = ssPrev
    /\ lock' = [lock EXCEPT ![s] = ssPriv]
    /\ UNCHANGED <<vars, dsPub, ssPriv, ssPrev, rotation, clean>>

FinishRotation ==
    /\ rotation = "running"
    /\ \A s \in Secrets : lock[s] # ssPrev
    /\ rotation' = "finished"
    /\ UNCHANGED <<vars, lock, dsPub, ssPriv, ssPrev, clean>>

Reencryption == FinishRotation \/ \E s \in Secrets : RotateSecret(s)

RotationNext ==
    \/ \E j \in Jobs : HookStep(j) \/ HookFault(j) \/ \E c \in Configs : Deploy(j, c)
    \/ StartDataService
    \/ StartSecretsStorage
    \/ \E s \in Secrets : SaveSecret(s)
    \/ Reencryption

\* The installation starts the pods of both Deployments.  Nothing has to
\* restart them: an upgrade that only changes platformConfig leaves their
\* templates as they are, so no fairness is assumed for later starts.
RotationFairness ==
    /\ \A j \in Jobs : WF_allVars(HookStep(j))
    /\ WF_allVars(Reencryption)
    /\ WF_allVars(StartDataService /\ dsPub = None)
    /\ WF_allVars(StartSecretsStorage /\ ssPriv = None)

RotationSpec == RotationInit /\ [][RotationNext]_allVars /\ RotationFairness

-----------------------------------------------------------------------------
\* No user secret is lost: every one can be opened with a stored key.  The
\* rotations, the saves and the pods' restarts happen at any time.
NoSecretLost ==
    \A s \in Secrets : lock[s] \in {None, privKey, prevKey}

\* Once both services have been restarted with the rotated key, whoever has
\* done it, secrets storage reports the end of the rotation, in spite of the
\* secrets that are saved and the pods that are restarted meanwhile; or it
\* had reported it before such a restart, and the next rotation has begun.
RotationFinishes ==
    prevKey # None /\ ssPriv = privKey /\ dsPub = privKey
        ~> rotation = "finished" \/ privKey # ssPriv

\* "checksum/privateKey" (secrets-storage/deployment.yaml:27) and "Without
\* this the pod will not restart when the secret values change"
\* (data-service/deployment.yaml:27): a deployed rotation reaches secrets
\* storage, also when nothing but the keys has changed.
RotationReachesStorage ==
    prevKey # None ~> ssPrev # None
=============================================================================
