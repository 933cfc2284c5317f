----------------------------- MODULE HookSecrets -----------------------------
(***************************************************************************)
(* The secrets the Helm chart generates: templates that look the deployed  *)
(* secret up and otherwise render a random value, applied by Helm as       *)
(* pre-install, pre-upgrade and pre-rollback hooks.  A hook without a      *)
(* delete policy is deleted and created again, so for a moment the secret  *)
(* exists in the rendered manifest only.  Helm is external: it applies the *)
(* hooks in order, records every revision and re-applies a recorded one on *)
(* a rollback.                                                             *)
(***************************************************************************)
EXTENDS Integers, Sequences

CONSTANTS
    HookOrder,      \* the secrets in the order in which Helm applies them
    Kind,           \* per secret: "kept", "signed" or "configured" (Render)
    CA,             \* the certificate authority that signs the certificate
    Values,         \* values an operator may set: per secret one, or None
    FailAt,         \* the hooks <<"delete" or "create", secret>> where Helm
                    \* may fail
    MaxRevisions,   \* bound: revisions of the release
    MaxFaults,      \* bound: interrupted hooks
    None

Names == {HookOrder[n] : n \in 1 .. Len(HookOrder)}

ASSUME KindAssumption ==
    /\ None \notin Nat
    /\ Len(HookOrder) \in Nat \ {0} /\ MaxRevisions \in Nat
    /\ Kind \in [Names -> {"kept", "signed", "configured"}]
    /\ (\E s \in Names : Kind[s] = "signed") => CA \in Names /\ Kind[CA] = "kept"

VARIABLES
    stored,     \* per secret: its value in the namespace, or None
    rendered,   \* the manifest Helm is applying: its revision and secrets
    stage,      \* of Helm: "idle", "delete", "create" or "apply"
    pos,        \* position in HookOrder
    history,    \* the manifests of the release's recorded revisions
    revision,   \* number of revisions so far
    helmFaults, \* hooks that were interrupted so far
    original    \* history variable: the first value of each secret

helm == <<stored, rendered, stage, pos, history, revision, helmFaults, original>>

NoManifest == [revision |-> 0, secrets |-> [s \in Names |-> None]]

HelmInit == /\ stored = [s \in Names |-> None]
            /\ rendered = NoManifest
            /\ stage = "idle"
            /\ pos = 1
            /\ history = << >>
            /\ revision = 0
            /\ helmFaults = 0
            /\ original = [s \in Names |-> None]

\* Mutant: the certificate is looked up on its own.
KeepsAlone(s) == stored[s] # None

\* There is a deployed value to keep: not that of a certificate without its CA.
Keeps(s) == stored[s] # None /\ (Kind[s] = "signed" => stored[CA] # None)

\* The configured value is rendered: for the gateway's and Alertmanager's
\* client secrets always, otherwise only if there is none to keep.
\* (Mutant: always.)
FromValuesAlways(s, values) == values[s] # None
FromValues(s, values) ==
    values[s] # None /\ (Kind[s] = "configured" \/ ~Keeps(s))

\* Without either, a random one; a certificate is then signed by the CA that
\* is generated in the same rendering.
Render(values) ==
    [s \in Names |-> IF FromValues(s, values) THEN values[s]
                     ELSE IF Keeps(s) THEN stored[s] ELSE revision + 1]

-----------------------------------------------------------------------------
Apply(manifest) == /\ rendered' = manifest
                   /\ history' = Append(history, manifest)
                   /\ revision' = revision + 1
                   /\ stage' = "delete"
                   /\ pos' = 1
                   /\ UNCHANGED <<stored, helmFaults, original>>

\* helm install or helm upgrade.
Upgrade(values) ==
    /\ stage = "idle" /\ revision < MaxRevisions
    /\ Apply([revision |-> revision + 1, secrets |-> Render(values)])

\* helm rollback: no template is rendered.
Rollback(n) ==
    /\ stage = "idle" /\ revision < MaxRevisions
    /\ n \in 1 .. Len(history) - 1
    /\ Apply(history[n])

\* helm uninstall: hook resources are not part of the release, they stay.
Uninstall ==
    /\ stage = "idle" /\ history # << >>
    /\ history' = << >>
    /\ UNCHANGED <<stored, rendered, stage, pos, revision, helmFaults, original>>

Hook == HookOrder[pos]

DeleteOld ==
    /\ stage = "delete"
    /\ stored' = [stored EXCEPT ![Hook] = None]
    /\ stage' = "create"
    /\ UNCHANGED <<rendered, pos, history, revision, helmFaults, original>>

\* Mutant: one hook too many.
CreateNewOffByOne ==
    /\ stage = "create"
    /\ stored' = [stored EXCEPT ![Hook] = rendered.secrets[Hook]]
    /\ original' = [original EXCEPT
                        ![Hook] = IF @ = None THEN rendered.secrets[Hook] ELSE @]
    /\ IF pos <= Len(HookOrder) THEN pos' = pos + 1 /\ stage' = "delete"
                                ELSE stage' = "apply" /\ UNCHANGED pos
    /\ UNCHANGED <<rendered, history, revision, helmFaults>>
CreateNew ==
    /\ stage = "create"
    /\ stored' = [stored EXCEPT ![Hook] = rendered.secrets[Hook]]
    /\ original' = [original EXCEPT
                        ![Hook] = IF @ = None THEN rendered.secrets[Hook] ELSE @]
    /\ IF pos < Len(HookOrder) THEN pos' = pos + 1 /\ stage' = "delete"
                               ELSE stage' = "apply" /\ UNCHANGED pos
    /\ UNCHANGED <<rendered, history, revision, helmFaults>>

\* The release's other resources follow, all of them or some.
ApplyResources ==
    /\ stage = "apply"
    /\ stage' = "idle"
    /\ UNCHANGED <<stored, rendered, pos, history, revision, helmFaults,
                   original>>

\* The API call of a hook fails or Helm is stopped; it undoes nothing.
HelmFails ==
    /\ helmFaults < MaxFaults
    /\ stage \in {"delete", "create"} /\ <<stage, Hook>> \in FailAt
    /\ helmFaults' = helmFaults + 1
    /\ stage' = "idle"
    /\ UNCHANGED <<stored, rendered, pos, history, revision, original>>

HooksStep == DeleteOld \/ CreateNew \/ HelmFails
Command == \/ \E values \in Values : Upgrade(values)
           \/ \E n \in 1 .. MaxRevisions : Rollback(n)

HelmNext == Command \/ Uninstall \/ HooksStep \/ ApplyResources
HelmSpec == HelmInit /\ [][HelmNext]_helm

-----------------------------------------------------------------------------
(* Properties.                                                             *)

\* Types: a secret has a configured value or the number of the revision that
\* generated it; every recorded manifest has a value for every secret.
HelmTypeOK ==
    LET Generated == 1 .. revision
        Configured == (UNION {{v[s] : s \in Names} : v \in Values}) \ {None}
    IN /\ stage \in {"idle", "delete", "create", "apply"}
       /\ pos \in 1 .. Len(HookOrder)
       /\ Len(history) <= revision /\ revision <= MaxRevisions
       /\ \A s \in Names :
            /\ stored[s] \in Generated \cup Configured \cup {None}
            /\ \A n \in 1 .. Len(history) :
                    history[n].secrets[s] \in Generated \cup Configured

\* "The secret is not re-generated or modified in any way if it already
\* exists" (values.yaml:157): once a secret has its first value, an upgrade
\* (whose manifest is of its own revision, unlike a rollback's) renders that
\* value again, whatever the values say.
Fixed == {s \in Names : Kind[s] # "configured"}
UpgradeKeepsSecrets ==
    rendered.revision = revision =>
        \A s \in Fixed : original[s] \in {None, rendered.secrets[s]}

\* The internal certificate is signed by the CA the pods trust, whenever Helm
\* has stopped: a CA that was lost takes its certificate with it.
CertificateSignedByCA ==
    stage = "idle" =>
        \A s \in Names :
            Kind[s] = "signed" /\ stored[s] # None /\ stored[CA] # None
                => stored[s] = stored[CA]

\* What that takes.  The templates let no value configure the CA or the
\* certificate, and Helm is interrupted before it touches the two, after it
\* has replaced both, or when it has just deleted the CA.
Signed(s) == s \in Names /\ Kind[s] = "signed"
PairPositions == {n \in 1 .. Len(HookOrder) :
                    HookOrder[n] = CA \/ Signed(HookOrder[n])}
SafeInterruptions ==
    /\ \A m, n \in 1 .. Len(HookOrder) : HookOrder[m] = HookOrder[n] => m = n
    /\ \A values \in Values, n \in PairPositions : values[HookOrder[n]] = None
    /\ \A n \in 1 .. Len(HookOrder), s \in {"delete", "create"} :
        <<s, HookOrder[n]>> \in FailAt =>
            \/ \A m \in PairPositions : n < m \/ (n = m /\ s = "delete")
            \/ \A m \in PairPositions : n > m
            \/ s = "create" /\ HookOrder[n] = CA
=============================================================================
