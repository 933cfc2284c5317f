--------------------------- MODULE HookSecretsProofs ---------------------------
(***************************************************************************)
(* Theorems about HookSecrets, for every set of generated secrets, every   *)
(* order of their hooks, all values an operator may set and any number of  *)
(* revisions: as long as no hook is interrupted, an upgrade renders the    *)
(* first value of a secret again, unless values may configure it anew      *)
(* (Fixed).  All manifests then agree on these secrets (Same): an upgrade  *)
(* renders what it finds, because all of it is there (Complete).           *)
(***************************************************************************)
EXTENDS HookSecrets, TLAPS

Positions == 1 .. Len(HookOrder)
SecretValues == Nat \cup {None} \cup UNION {{v[s] : s \in Names} : v \in Values}
Manifests == [revision : Nat, secrets : [Names -> SecretValues]]

HelmTypes ==
    /\ stored \in [Names -> SecretValues]
    /\ original \in [Names -> SecretValues]
    /\ rendered \in Manifests
    /\ history \in Seq(Manifests)
    /\ stage \in {"idle", "delete", "create", "apply"}
    /\ pos \in Positions
    /\ revision \in Nat
    /\ helmFaults \in Nat

\* Before the first revision there is nothing.
Nothing == revision = 0 => /\ stage = "idle" /\ history = << >>
                           /\ \A s \in Fixed : original[s] = None

Agree(f, g) == \A s \in Fixed : f[s] = g[s]

\* All recorded manifests have the secrets of the one applied last, and these
\* are the first values of the secrets.
Same == /\ \A n \in 1 .. Len(history) : Agree(history[n].secrets, rendered.secrets)
        /\ revision # 0 => \A s \in Fixed : rendered.secrets[s] # None
        /\ \A s \in Fixed : original[s] \in {None, rendered.secrets[s]}

\* Only the hook that is being replaced is missing.
Complete ==
    /\ \A s \in Fixed : \/ stored[s] = original[s]
                        \/ stage = "create" /\ s = Hook /\ stored[s] = None
    /\ stage \in {"delete", "create"} =>
            \A n \in 1 .. pos - 1 :
                HookOrder[n] \in Fixed => original[HookOrder[n]] # None
    /\ stage = "apply" \/ (stage = "idle" /\ revision # 0) =>
            \A s \in Fixed : original[s] # None

HelmInv == HelmTypes /\ (helmFaults = 0 => Nothing /\ Same /\ Complete)

LEMMA HelmInitInv == HelmInit => HelmInv
<1> SUFFICES ASSUME HelmInit PROVE HelmInv
  OBVIOUS
<1>1. HelmTypes
  BY KindAssumption DEF HelmInit, HelmTypes, NoManifest, Manifests,
     SecretValues, Positions
<1>2. Nothing /\ Same /\ Complete
  BY DEF HelmInit, Nothing, Same, Agree, Complete, NoManifest, Fixed
<1> QED
  BY <1>1, <1>2 DEF HelmInv

\* A manifest whose secrets are those of the last one, or the first manifest.
LEMMA ApplyInv ==
  ASSUME HelmInv, stage = "idle", NEW m \in Manifests, Apply(m),
         helmFaults = 0 =>
            /\ \A s \in Fixed : m.secrets[s] # None
            /\ revision # 0 => Agree(m.secrets, rendered.secrets)
  PROVE  HelmInv'
<1> USE DEF Apply
<1>1. HelmTypes'
  BY KindAssumption DEF HelmInv, HelmTypes, Positions
<1>2. CASE helmFaults = 0
  <2>1. revision \in Nat /\ history \in Seq(Manifests) /\ pos' = 1
    BY DEF HelmInv, HelmTypes
  <2>2. Nothing'
    BY <2>1 DEF Nothing
  <2>3. \A n \in 1 .. Len(history') : Agree(history'[n].secrets, m.secrets)
    <3>1. CASE revision = 0
      BY <1>2, <2>1, <3>1 DEF HelmInv, Nothing, Agree
    <3>2. CASE revision # 0
      BY <1>2, <2>1, <3>2 DEF HelmInv, Same, Agree
    <3> QED
      BY <3>1, <3>2
  <2>4. \A s \in Fixed : original[s] \in {None, m.secrets[s]}
    BY <1>2 DEF HelmInv, Nothing, Same, Agree
  <2>5. Same'
    BY <1>2, <2>3, <2>4 DEF Same, Agree
  <2>6. Complete'
    BY <1>2, <2>1 DEF HelmInv, Complete
  <2> QED
    BY <1>1, <2>2, <2>5, <2>6 DEF HelmInv
<1>3. CASE helmFaults # 0
  BY <1>1, <1>3 DEF HelmInv
<1> QED
  BY <1>2, <1>3

LEMMA UpgradeInv ==
  ASSUME HelmInv, NEW values \in Values, Upgrade(values)
  PROVE  HelmInv'
<1> DEFINE m == [revision |-> revision + 1, secrets |-> Render(values)]
<1>1. stage = "idle" /\ Apply(m) /\ revision \in Nat
  BY DEF Upgrade, HelmInv, HelmTypes
<1>2. \A s \in Names : Render(values)[s] \in SecretValues
  BY <1>1 DEF Render, FromValues, SecretValues, HelmInv, HelmTypes
<1>3. m \in Manifests
  BY <1>1, <1>2 DEF Manifests, Render
<1>4. \A s \in Fixed : m.secrets[s] # None
  BY <1>1, KindAssumption DEF Render, FromValues, Keeps, Fixed
<1>5. ASSUME helmFaults = 0, revision # 0
      PROVE  Agree(m.secrets, rendered.secrets)
  <2>1. \A s \in Fixed : stored[s] = rendered.secrets[s] /\ stored[s] # None
    BY <1>1, <1>5 DEF HelmInv, Complete, Same
  <2>2. \A s \in Fixed : Keeps(s) /\ ~FromValues(s, values)
    BY <2>1, KindAssumption DEF Keeps, FromValues, Fixed
  <2> QED
    BY <2>1, <2>2 DEF Render, Agree, Fixed
<1> HIDE DEF m
<1> QED
  BY <1>1, <1>3, <1>4, <1>5, ApplyInv

LEMMA RollbackInv ==
  ASSUME HelmInv, NEW n \in Nat, Rollback(n)
  PROVE  HelmInv'
<1>1. /\ stage = "idle" /\ n \in 1 .. Len(history) /\ Apply(history[n])
      /\ history \in Seq(Manifests)
  BY DEF Rollback, HelmInv, HelmTypes
<1>2. history[n] \in Manifests
  BY <1>1
<1>3. ASSUME helmFaults = 0
      PROVE  /\ revision # 0
             /\ Agree(history[n].secrets, rendered.secrets)
             /\ \A s \in Fixed : rendered.secrets[s] # None
  BY <1>1, <1>3 DEF HelmInv, Nothing, Same
<1>4. helmFaults = 0 => \A s \in Fixed : history[n].secrets[s] # None
  BY <1>3 DEF Agree
<1> QED
  BY <1>1, <1>2, <1>3, <1>4, ApplyInv

LEMMA UninstallInv ==
  ASSUME HelmInv, Uninstall
  PROVE  HelmInv'
<1> USE DEF Uninstall
<1>1. HelmTypes'
  BY DEF HelmInv, HelmTypes
<1>2. CASE helmFaults = 0
  BY <1>1, <1>2 DEF HelmInv, Nothing, Same, Complete, Hook
<1>3. CASE helmFaults # 0
  BY <1>1, <1>3 DEF HelmInv
<1> QED
  BY <1>2, <1>3

LEMMA HookIsName == HelmTypes => Hook \in Names
BY DEF HelmTypes, Hook, Names, Positions

LEMMA DeleteOldInv ==
  ASSUME HelmInv, DeleteOld
  PROVE  HelmInv'
<1> USE DEF DeleteOld
<1>1. HelmTypes'
  BY DEF HelmInv, HelmTypes, SecretValues
<1>2. CASE helmFaults = 0
  <2>1. Nothing' /\ Same'
    BY <1>2 DEF HelmInv, Nothing, Same
  <2>2. Complete'
    BY <1>2, HookIsName DEF HelmInv, HelmTypes, Complete, Hook
  <2> QED
    BY <1>1, <2>1, <2>2 DEF HelmInv
<1>3. CASE helmFaults # 0
  BY <1>1, <1>3 DEF HelmInv
<1> QED
  BY <1>2, <1>3

LEMMA CreateNewInv ==
  ASSUME HelmInv, CreateNew
  PROVE  HelmInv'
<1> DEFINE v == rendered.secrets[Hook]
<1>1. /\ Hook \in Names /\ v \in SecretValues /\ revision' = revision
      /\ stage = "create" /\ UNCHANGED <<rendered, history, helmFaults>>
  BY HookIsName DEF CreateNew, HelmInv, HelmTypes, Manifests
<1>2. /\ stored' = [stored EXCEPT ![Hook] = v]
      /\ original' = [original EXCEPT
                        ![Hook] = IF original[Hook] = None THEN v ELSE original[Hook]]
  BY DEF CreateNew
<1>3. HelmTypes'
  <2>1. stored' \in [Names -> SecretValues] /\ original' \in [Names -> SecretValues]
    BY <1>1, <1>2 DEF HelmInv, HelmTypes
  <2>2. pos' \in Positions /\ stage' \in {"delete", "apply"}
    BY KindAssumption DEF CreateNew, HelmInv, HelmTypes, Positions
  <2> QED
    BY <1>1, <2>1, <2>2 DEF HelmInv, HelmTypes
<1>4. CASE helmFaults = 0
  <2>1. revision # 0 /\ (Hook \in Fixed => v # None /\ original[Hook] \in {None, v})
    BY <1>1, <1>4 DEF HelmInv, Nothing, Same
  <2>2. /\ stored'[Hook] = v
        /\ Hook \in Fixed => original'[Hook] = v
        /\ \A s \in Names \ {Hook} : /\ stored'[s] = stored[s]
                                     /\ original'[s] = original[s]
    BY <1>1, <1>2, <2>1 DEF HelmInv, HelmTypes
  <2>3. \A s \in Fixed \ {Hook} : s \in Names /\ stored[s] = original[s]
    BY <1>1, <1>4 DEF HelmInv, Complete, Fixed
  <2>4. \A s \in Fixed : /\ stored'[s] = original'[s]
                         /\ original'[s] \in {None, rendered.secrets[s]}
                         /\ original[s] # None => original'[s] # None
    BY <1>4, <2>1, <2>2, <2>3 DEF HelmInv, Same
  <2>5. Nothing' /\ Same'
    BY <1>1, <1>4, <2>1, <2>4 DEF HelmInv, Nothing, Same, Agree
  <2>6. \A n \in 1 .. pos :
            HookOrder[n] \in Fixed => original'[HookOrder[n]] # None
    <3> SUFFICES ASSUME NEW n \in 1 .. pos, HookOrder[n] \in Fixed
                 PROVE  original'[HookOrder[n]] # None
      OBVIOUS
    <3>1. pos \in Positions
      BY DEF HelmInv, HelmTypes
    <3>2. CASE n = pos
      BY <2>1, <2>2, <3>2 DEF Hook
    <3>3. CASE n # pos
      BY <1>1, <1>4, <2>4, <3>1, <3>3 DEF HelmInv, Complete, Positions
    <3> QED
      BY <3>2, <3>3
  <2>7. Complete'
    <3>1. CASE pos < Len(HookOrder)
      <4>1. pos' = pos + 1 /\ stage' = "delete" /\ pos \in Positions
        BY <3>1 DEF CreateNew, HelmInv, HelmTypes
      <4> QED
        BY <2>4, <2>6, <4>1 DEF Complete, Positions
    <3>2. CASE ~(pos < Len(HookOrder))
      <4>1. stage' = "apply" /\ pos = Len(HookOrder)
        BY <3>2, KindAssumption DEF CreateNew, HelmInv, HelmTypes, Positions
      <4>2. \A s \in Fixed : original'[s] # None
        BY <2>6, <4>1 DEF Names, Fixed
      <4> QED
        BY <2>4, <4>1, <4>2 DEF Complete
    <3> QED
      BY <3>1, <3>2
  <2> QED
    BY <1>3, <2>5, <2>7 DEF HelmInv
<1>5. CASE helmFaults # 0
  BY <1>1, <1>3, <1>5 DEF HelmInv
<1> QED
  BY <1>4, <1>5

LEMMA ApplyResourcesInv ==
  ASSUME HelmInv, ApplyResources
  PROVE  HelmInv'
<1> USE DEF ApplyResources
<1>1. HelmTypes'
  BY DEF HelmInv, HelmTypes
<1>2. CASE helmFaults = 0
  BY <1>1, <1>2 DEF HelmInv, Nothing, Same, Complete
<1>3. CASE helmFaults # 0
  BY <1>1, <1>3 DEF HelmInv
<1> QED
  BY <1>2, <1>3

LEMMA HelmFailsInv ==
  ASSUME HelmInv, HelmFails
  PROVE  HelmInv'
BY DEF HelmFails, HelmInv, HelmTypes

LEMMA CommandInv ==
  ASSUME HelmInv, Command
  PROVE  HelmInv'
BY UpgradeInv, RollbackInv DEF Command

LEMMA HooksStepInv ==
  ASSUME HelmInv, HooksStep
  PROVE  HelmInv'
BY DeleteOldInv, CreateNewInv, HelmFailsInv DEF HooksStep

LEMMA HelmNextInv == HelmInv /\ [HelmNext]_helm => HelmInv'
<1> SUFFICES ASSUME HelmInv, [HelmNext]_helm PROVE HelmInv'
  OBVIOUS
<1>1. CASE UNCHANGED helm
  BY <1>1 DEF helm, HelmInv, HelmTypes, Nothing, Same, Complete, Hook
<1> QED
  BY <1>1, CommandInv, UninstallInv, HooksStepInv, ApplyResourcesInv
     DEF HelmNext

\* The promise of values.yaml:157 holds while no hook is interrupted: however
\* often Helm has upgraded, rolled back and installed again, an upgrade renders
\* the first value of every secret that values cannot configure anew.
THEOREM UninterruptedUpgradesKeep ==
  HelmSpec => [](helmFaults = 0 => UpgradeKeepsSecrets)
<1>1. HelmInv => (helmFaults = 0 => UpgradeKeepsSecrets)
  BY DEF HelmInv, Same, UpgradeKeepsSecrets
<1> QED
  BY <1>1, HelmNextInv, HelmInitInv, PTL DEF HelmSpec
-----------------------------------------------------------------------------
(* Types.                                                                  *)

ConfiguredValues == (UNION {{v[s] : s \in Names} : v \in Values}) \ {None}
UsedValues == (1 .. revision) \cup ConfiguredValues

HelmBounds ==
    /\ Len(history) <= revision /\ revision <= MaxRevisions
    /\ \A s \in Names : /\ stored[s] \in UsedValues \cup {None}
                        /\ rendered.secrets[s] \in UsedValues \cup {None}
                        /\ \A n \in 1 .. Len(history) :
                                history[n].secrets[s] \in UsedValues

LEMMA HelmInitBounds == HelmInit => HelmBounds
BY KindAssumption DEF HelmInit, HelmBounds, NoManifest

LEMMA ApplyBounds ==
  ASSUME HelmTypes, HelmBounds, revision < MaxRevisions, NEW m \in Manifests,
         Apply(m), \A s \in Names : m.secrets[s] \in UsedValues \cup {revision + 1}
  PROVE  HelmBounds'
<1>1. /\ revision' = revision + 1 /\ revision \in Nat
      /\ history \in Seq(Manifests) /\ history' = Append(history, m)
      /\ rendered' = m /\ stored' = stored
  BY DEF Apply, HelmTypes
<1>2. UsedValues \cup {revision + 1} = UsedValues'
  BY <1>1 DEF UsedValues, ConfiguredValues
<1>3. Len(history') <= revision' /\ revision' <= MaxRevisions
  BY <1>1, KindAssumption DEF HelmBounds
<1>4. ASSUME NEW s \in Names
      PROVE  /\ stored'[s] \in UsedValues' \cup {None}
             /\ rendered'.secrets[s] \in UsedValues' \cup {None}
             /\ \A n \in 1 .. Len(history') :
                    history'[n].secrets[s] \in UsedValues'
  <2>1. \A n \in 1 .. Len(history') :
            history'[n] = IF n <= Len(history) THEN history[n] ELSE m
    BY <1>1
  <2>2. \A n \in 1 .. Len(history) : history[n].secrets[s] \in UsedValues
    BY DEF HelmBounds
  <2> QED
    BY <1>1, <1>2, <2>1, <2>2 DEF HelmBounds
<1> QED
  BY <1>3, <1>4 DEF HelmBounds

LEMMA CommandBounds ==
  ASSUME HelmTypes, HelmBounds, Command
  PROVE  HelmBounds'
<1>1. ASSUME NEW values \in Values, Upgrade(values)
      PROVE  HelmBounds'
  <2> DEFINE m == [revision |-> revision + 1, secrets |-> Render(values)]
  <2>1. revision < MaxRevisions /\ Apply(m) /\ revision \in Nat
    BY <1>1 DEF Upgrade, HelmTypes
  <2>2. \A s \in Names : values[s] # None => values[s] \in ConfiguredValues
    BY DEF ConfiguredValues
  <2>3. \A s \in Names : Render(values)[s] \in UsedValues \cup {revision + 1}
    BY <2>2 DEF Render, FromValues, Keeps, HelmBounds, UsedValues
  <2>4. \A s \in Names : Render(values)[s] \in SecretValues
    BY <2>1 DEF Render, FromValues, SecretValues, HelmTypes
  <2>5. m \in Manifests
    BY <2>1, <2>4 DEF Manifests, Render
  <2> HIDE DEF m
  <2>6. m.secrets = Render(values)
    BY DEF m
  <2> QED
    BY <2>1, <2>3, <2>5, <2>6, ApplyBounds
<1>2. ASSUME NEW n \in Nat, Rollback(n)
      PROVE  HelmBounds'
  <2>1. /\ revision < MaxRevisions /\ Apply(history[n])
        /\ n \in 1 .. Len(history) /\ history \in Seq(Manifests)
    BY <1>2 DEF Rollback, HelmTypes
  <2>2. history[n] \in Manifests
    BY <2>1
  <2>3. \A s \in Names : history[n].secrets[s] \in UsedValues
    BY <2>1 DEF HelmBounds
  <2> QED
    BY <2>1, <2>2, <2>3, ApplyBounds
<1> QED
  BY <1>1, <1>2 DEF Command

LEMMA HooksStepBounds ==
  ASSUME HelmTypes, HelmBounds, HooksStep \/ Uninstall \/ ApplyResources
  PROVE  HelmBounds'
<1>1. UNCHANGED <<rendered, revision>> /\ UsedValues' = UsedValues
  BY DEF HooksStep, DeleteOld, CreateNew, HelmFails, Uninstall, ApplyResources,
     UsedValues
<1>2. /\ \/ history' = history
         \/ history' = << >>
      /\ Len(history') <= revision
      /\ \A s \in Names, n \in 1 .. Len(history') :
            history'[n].secrets[s] \in UsedValues
  BY DEF HooksStep, DeleteOld, CreateNew, HelmFails, Uninstall, ApplyResources,
     HelmTypes, HelmBounds
<1>3. \A s \in Names : stored'[s] \in {stored[s], rendered.secrets[s], None}
  BY DEF HooksStep, DeleteOld, CreateNew, HelmFails, Uninstall, ApplyResources,
     HelmTypes
<1> QED
  BY <1>1, <1>2, <1>3 DEF HelmBounds

LEMMA BoundsAreTypes == HelmTypes /\ HelmBounds => HelmTypeOK
BY DEF HelmTypes, HelmBounds, HelmTypeOK, UsedValues, ConfiguredValues, Positions
-----------------------------------------------------------------------------
(* The certificate and its CA.                                             *)

\* A CA has its certificates with it.
Matched(f) == f[CA] # None => \A s \in Names : Signed(s) => f[s] = f[CA]

\* Whenever Helm may stop, what is there is matched: the hooks are still
\* before the two secrets, or past them and then these are the manifest's.
PairInv ==
    /\ Matched(rendered.secrets)
    /\ \A n \in 1 .. Len(history) : Matched(history[n].secrets)
    /\ stage = "idle" => Matched(stored)
    /\ stage \in {"delete", "create"} =>
        /\ \A n \in 1 .. pos - 1 :
                stored[HookOrder[n]] = rendered.secrets[HookOrder[n]]
        /\ stage = "create" => stored[Hook] = None
        /\ (\A m \in PairPositions : pos < m \/ (pos = m /\ stage = "delete"))
                => Matched(stored)
    /\ stage = "apply" => \A s \in Names : stored[s] = rendered.secrets[s]

\* Both secrets have a position in the order of the hooks.
LEMMA PairHasPositions ==
  ASSUME NEW s, Signed(s)
  PROVE  /\ \E n \in PairPositions : HookOrder[n] = s
         /\ \E n \in PairPositions : HookOrder[n] = CA
         /\ CA \in Names
BY KindAssumption DEF Signed, PairPositions, Names

\* Matched only looks at these positions.
LEMMA MatchedAtPositions ==
  ASSUME NEW f, NEW g, Matched(f),
         \A n \in PairPositions : g[HookOrder[n]] = f[HookOrder[n]]
  PROVE  Matched(g)
BY PairHasPositions DEF Matched

LEMMA PairInit == HelmInit => PairInv
<1>1. Matched([s \in Names |-> None])
  BY PairHasPositions DEF Matched
<1> QED
  BY <1>1 DEF HelmInit, PairInv, NoManifest

\* What the templates render is matched: the CA and the certificate are kept
\* together or generated together.
LEMMA RenderMatched ==
  ASSUME SafeInterruptions, Matched(stored), NEW values \in Values
  PROVE  Matched(Render(values))
<1> SUFFICES ASSUME NEW s \in Names, Signed(s)
             PROVE  Render(values)[s] = Render(values)[CA]
  BY DEF Matched
<1>1. CA \in Names /\ values[s] = None /\ values[CA] = None
  <2>1. \A n \in PairPositions : values[HookOrder[n]] = None
    BY DEF SafeInterruptions
  <2>2. /\ \E n \in PairPositions : HookOrder[n] = s
        /\ \E n \in PairPositions : HookOrder[n] = CA
        /\ CA \in Names
    BY PairHasPositions
  <2> QED
    BY <2>1, <2>2
<1>2. CASE stored[CA] = None
  BY <1>1, <1>2 DEF Render, FromValues, Keeps, Signed
<1>3. CASE stored[CA] # None
  BY <1>1, <1>3 DEF Render, FromValues, Keeps, Signed, Matched
<1> QED
  BY <1>2, <1>3

LEMMA CommandPair ==
  ASSUME SafeInterruptions, HelmTypes, PairInv, Command
  PROVE  PairInv'
<1>1. ASSUME NEW m, stage = "idle", Apply(m), Matched(m.secrets)
      PROVE  PairInv'
  <2>1. /\ rendered' = m /\ history' = Append(history, m) /\ stage' = "delete"
        /\ pos' = 1 /\ stored' = stored /\ Matched(stored)
        /\ history \in Seq(Manifests)
    BY <1>1 DEF Apply, PairInv, HelmTypes
  <2>2. ASSUME NEW n \in 1 .. Len(history')
        PROVE  Matched(history'[n].secrets)
    <3>1. history'[n] = IF n <= Len(history) THEN history[n] ELSE m
      BY <2>1
    <3> QED
      BY <1>1, <2>1, <3>1 DEF PairInv
  <2>3. Matched(stored)'
    BY <2>1 DEF Matched, Signed
  <2> QED
    BY <1>1, <2>1, <2>2, <2>3 DEF PairInv, Matched, Signed
<1>2. ASSUME NEW values \in Values, Upgrade(values)
      PROVE  PairInv'
  <2> DEFINE m == [revision |-> revision + 1, secrets |-> Render(values)]
  <2>1. stage = "idle" /\ Apply(m) /\ m.secrets = Render(values)
    BY <1>2 DEF Upgrade
  <2>2. Matched(m.secrets)
    BY <2>1, RenderMatched DEF PairInv
  <2> HIDE DEF m
  <2> QED
    BY <1>1, <2>1, <2>2
<1>3. ASSUME NEW n \in Nat, Rollback(n)
      PROVE  PairInv'
  BY <1>1, <1>3 DEF Rollback, PairInv, HelmTypes
<1> QED
  BY <1>2, <1>3 DEF Command

LEMMA DeleteOldPair ==
  ASSUME SafeInterruptions, HelmTypes, PairInv, DeleteOld
  PROVE  PairInv'
<1>1. /\ stage = "delete" /\ stage' = "create" /\ pos \in Positions
      /\ stored' = [stored EXCEPT ![Hook] = None] /\ Hook \in Names
      /\ stored \in [Names -> SecretValues]
      /\ UNCHANGED <<rendered, pos, history>>
  BY HookIsName DEF DeleteOld, HelmTypes
<1>2. ASSUME NEW n \in Positions, n # pos
      PROVE  stored'[HookOrder[n]] = stored[HookOrder[n]]
  BY <1>1, <1>2 DEF SafeInterruptions, Hook, Positions, Names
<1>3. \A n \in 1 .. pos - 1 :
        stored'[HookOrder[n]] = rendered.secrets[HookOrder[n]]
  BY <1>1, <1>2 DEF PairInv, Positions
<1>4. stored'[Hook] = None
  BY <1>1
<1>5. ASSUME \A m \in PairPositions : pos < m
      PROVE  Matched(stored')
  <2>1. Matched(stored)
    BY <1>1, <1>5 DEF PairInv
  <2>2. \A n \in PairPositions : stored'[HookOrder[n]] = stored[HookOrder[n]]
    BY <1>1, <1>2, <1>5 DEF PairPositions, Positions
  <2> QED
    BY <2>1, <2>2, MatchedAtPositions
<1> QED
  BY <1>1, <1>3, <1>4, <1>5 DEF PairInv, Hook, Matched, Signed

LEMMA CreateNewPair ==
  ASSUME SafeInterruptions, HelmTypes, PairInv, CreateNew
  PROVE  PairInv'
<1>1. /\ stage = "create" /\ pos \in Positions /\ Hook \in Names
      /\ stored' = [stored EXCEPT ![Hook] = rendered.secrets[Hook]]
      /\ stored \in [Names -> SecretValues]
      /\ UNCHANGED <<rendered, history>>
  BY HookIsName DEF CreateNew, HelmTypes
<1>2. ASSUME NEW n \in Positions, n # pos
      PROVE  stored'[HookOrder[n]] = stored[HookOrder[n]]
  BY <1>1, <1>2 DEF SafeInterruptions, Hook, Positions, Names
<1>3. ASSUME NEW n \in 1 .. pos
      PROVE  stored'[HookOrder[n]] = rendered.secrets[HookOrder[n]]
  <2>1. CASE n = pos
    BY <1>1, <2>1 DEF Hook
  <2>2. CASE n # pos
    BY <1>1, <1>2, <2>2 DEF PairInv, Positions
  <2> QED
    BY <2>1, <2>2
<1>4. CASE pos < Len(HookOrder)
  <2>1. pos' = pos + 1 /\ stage' = "delete"
    BY <1>4 DEF CreateNew
  <2>2. ASSUME \A m \in PairPositions : pos' <= m
        PROVE  Matched(stored')
    <3>1. \A m \in PairPositions : pos < m
      BY <1>1, <2>1, <2>2 DEF PairPositions, Positions
    <3>2. Matched(stored)
      BY <1>1, <3>1 DEF PairInv
    <3>3. \A n \in PairPositions : stored'[HookOrder[n]] = stored[HookOrder[n]]
      BY <1>1, <1>2, <3>1 DEF PairPositions, Positions
    <3> QED
      BY <3>2, <3>3, MatchedAtPositions
  <2>3. ASSUME \A m \in PairPositions : pos' < m \/ (pos' = m /\ stage' = "delete")
        PROVE  \A m \in PairPositions : pos' <= m
    BY <1>1, <2>1, <2>3 DEF PairPositions, Positions
  <2> QED
    BY <1>1, <1>3, <2>1, <2>2, <2>3 DEF PairInv, Positions, Matched, Signed
<1>5. CASE ~(pos < Len(HookOrder))
  <2>1. stage' = "apply" /\ pos = Len(HookOrder)
    BY <1>1, <1>5, KindAssumption DEF CreateNew, Positions
  <2>2. \A s \in Names : stored'[s] = rendered.secrets[s]
    BY <1>3, <2>1 DEF Names
  <2> QED
    BY <1>1, <2>1, <2>2 DEF PairInv, Matched, Signed
<1> QED
  BY <1>4, <1>5

\* The three kinds of safe interruptions.
LEMMA HelmFailsPair ==
  ASSUME SafeInterruptions, HelmTypes, PairInv, HelmFails
  PROVE  PairInv'
<1>1. /\ stage \in {"delete", "create"} /\ <<stage, Hook>> \in FailAt
      /\ stage' = "idle" /\ UNCHANGED <<stored, rendered, history>>
      /\ pos \in Positions
  BY DEF HelmFails, HelmTypes
<1>2. Matched(stored)
  <2>1. CASE \A m \in PairPositions : pos < m \/ (pos = m /\ stage = "delete")
    BY <1>1, <2>1 DEF PairInv
  <2>2. CASE \A m \in PairPositions : pos > m
    <3>1. \A n \in PairPositions :
            stored[HookOrder[n]] = rendered.secrets[HookOrder[n]]
      BY <1>1, <2>2 DEF PairInv, PairPositions, Positions
    <3> QED
      BY <3>1, MatchedAtPositions DEF PairInv
  <2>3. CASE stage = "create" /\ Hook = CA
    BY <1>1, <2>3 DEF PairInv, Matched
  <2> QED
    BY <1>1, <2>1, <2>2, <2>3 DEF SafeInterruptions, Hook, Positions
<1> QED
  BY <1>1, <1>2 DEF PairInv, Matched, Signed

LEMMA PairNext ==
  ASSUME SafeInterruptions, HelmTypes, PairInv, [HelmNext]_helm
  PROVE  PairInv'
<1>1. CASE UNCHANGED helm
  BY <1>1 DEF helm, PairInv, Hook, Matched, Signed
<1>2. CASE Uninstall
  BY <1>2 DEF Uninstall, PairInv, Hook, Matched, Signed
<1>3. CASE ApplyResources
  <2>1. /\ stage = "apply" /\ stage' = "idle"
        /\ UNCHANGED <<stored, rendered, history>>
    BY <1>3 DEF ApplyResources
  <2>2. Matched(stored)
    BY <2>1, PairHasPositions DEF PairInv, Matched
  <2> QED
    BY <2>1, <2>2 DEF PairInv, Matched, Signed
<1> QED
  BY <1>1, <1>2, <1>3, CommandPair, DeleteOldPair, CreateNewPair, HelmFailsPair
     DEF HelmNext, HooksStep

LEMMA MatchedIsSigned == PairInv => CertificateSignedByCA
BY DEF PairInv, Matched, CertificateSignedByCA, Signed
=============================================================================
