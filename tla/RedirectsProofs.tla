--------------------------- MODULE RedirectsProofs ---------------------------
(***************************************************************************)
(* Theorems about Redirects, for every set of invocations, projects and    *)
(* paths, and every number of failures and renamings.                      *)
(*                                                                         *)
(* RedirectsSound holds because every description that the program carries *)
(* from one pass to the next is sound in the same sense: its path is one   *)
(* that its project has had, or empty because a request of this invocation *)
(* failed.  Paths a project has had are not forgotten, and an invocation   *)
(* that failed stays one, so neither the wait for a person nor the steps   *)
(* of others can make a description wrong.                                 *)
(*                                                                         *)
(* CleanRunCoversMigrations holds because what a clean invocation was told *)
(* of stays in one of its lists until a redirect covers it (CoverInv).     *)
(***************************************************************************)
EXTENDS Redirects, TLAPS

Description == (Paths \cup {Empty}) \X Migrations

RedirectTypeOK ==
    /\ migrated \in Seq(Migrations)
    /\ path \in [Migrations -> Paths]
    /\ had \in [Migrations -> SUBSET Paths]
    /\ redirects \in [Paths \cup {Empty} -> Migrations \cup {NoProject}]
    /\ listed \in [Sessions -> Seq(Migrations)]
    /\ found \in [Sessions -> Seq(Description)]
    /\ new \in [Sessions -> Seq(Description)]
    /\ clean \in [Sessions -> BOOLEAN]

\* A description d of an invocation with the mark c, where h is what the
\* projects have had; and a list of them.
Sound(h, c, d) == /\ d[1] # Empty => d[1] \in h[d[2]]
                  /\ d[1] = Empty => ~c
SoundList(h, c, list) == \A n \in 1 .. Len(list) : Sound(h, c, list[n])

Inv == /\ RedirectTypeOK
       /\ \A v \in Migrations : path[v] \in had[v]
       /\ \A i \in Sessions : /\ SoundList(had, clean[i], found[i])
                          /\ SoundList(had, clean[i], new[i])
       /\ RedirectsSound

-----------------------------------------------------------------------------
(* Lists.                                                                  *)

LEMMA HeadTail ==
  ASSUME NEW S, NEW s \in Seq(S), s # <<>>
  PROVE  /\ Head(s) = s[1] /\ Head(s) \in S
         /\ Tail(s) \in Seq(S) /\ Len(s) >= 1 /\ Len(Tail(s)) = Len(s) - 1
         /\ \A n \in 1 .. Len(Tail(s)) : Tail(s)[n] = s[n + 1]
  BY SMT

LEMMA Appended ==
  ASSUME NEW S, NEW s \in Seq(S), NEW e \in S
  PROVE  /\ Append(s, e) \in Seq(S)
         /\ \A n \in 1 .. Len(Append(s, e)) :
                Append(s, e)[n] = e \/ (n \in 1 .. Len(s) /\ Append(s, e)[n] = s[n])
  BY SMT

LEMMA SoundTail ==
  ASSUME NEW h, NEW c, NEW s \in Seq(Description), s # <<>>,
         SoundList(h, c, s)
  PROVE  /\ Head(s) \in Description /\ Sound(h, c, Head(s))
         /\ Tail(s) \in Seq(Description) /\ SoundList(h, c, Tail(s))
  BY HeadTail, SMT DEF SoundList

LEMMA SoundAppend ==
  ASSUME NEW h, NEW c, NEW s \in Seq(Description), NEW d \in Description,
         SoundList(h, c, s), Sound(h, c, d)
  PROVE  /\ Append(s, d) \in Seq(Description)
         /\ SoundList(h, c, Append(s, d))
  BY Appended, SMT DEF SoundList

\* What is sound stays so while renamings and failures add up.
LEMMA StaysSound ==
  ASSUME NEW h, NEW c, NEW h2, NEW c2, NEW s \in Seq(Description),
         \A v \in Migrations : h[v] \subseteq h2[v], ~c => ~c2,
         SoundList(h, c, s)
  PROVE  SoundList(h2, c2, s)
<1> SUFFICES ASSUME NEW n \in 1 .. Len(s) PROVE Sound(h2, c2, s[n])
  BY DEF SoundList
<1>1. s[n] \in Description /\ Sound(h, c, s[n])
  BY SMT DEF SoundList
<1> QED
  BY <1>1 DEF Sound, Description

LEMMA InitInv == RedirectInit => Inv
<1> SUFFICES ASSUME RedirectInit PROVE Inv
  OBVIOUS
<1>1. path \in [Migrations -> Paths]
  BY PathsAssumption DEF RedirectInit
<1>2. \A S : <<>> \in Seq(S)
  BY SMT
<1>3. \A v \in Migrations : path[v] \in had[v] /\ had[v] \subseteq Paths
  BY <1>1 DEF RedirectInit
<1>4. had \in [Migrations -> SUBSET Paths]
  BY <1>1, <1>3 DEF RedirectInit
<1>5. RedirectTypeOK
  BY <1>1, <1>2, <1>4 DEF RedirectInit, RedirectTypeOK
<1>6. ASSUME NEW i \in Sessions
      PROVE  SoundList(had, clean[i], found[i]) /\ SoundList(had, clean[i], new[i])
  <2>1. found[i] = <<>> /\ new[i] = <<>>
    BY DEF RedirectInit
  <2>2. SoundList(had, clean[i], <<>>)
    BY SMT DEF SoundList
  <2> QED
    BY <2>1, <2>2
<1>7. RedirectsSound
  BY DEF RedirectInit, RedirectsSound
<1> QED
  BY <1>3, <1>5, <1>6, <1>7 DEF Inv

-----------------------------------------------------------------------------
(* The steps.  Most keep the redirects and what a project has had.         *)

Growing == /\ \A v \in Migrations : had[v] \subseteq had'[v]
           /\ \A i \in Sessions : ~clean[i] => ~clean'[i]

\* Nothing that is sound becomes unsound.
LEMMA KeptLists ==
  ASSUME Inv, Growing, NEW k \in Sessions
  PROVE  /\ SoundList(had', clean'[k], found[k])
         /\ SoundList(had', clean'[k], new[k])
<1>1. found[k] \in Seq(Description) /\ new[k] \in Seq(Description)
  BY DEF Inv, RedirectTypeOK
<1>2. SoundList(had, clean[k], found[k]) /\ SoundList(had, clean[k], new[k])
  BY DEF Inv
<1> QED
  BY <1>1, <1>2, StaysSound DEF Growing

LEMMA KeptRedirects ==
  ASSUME Inv, Growing, UNCHANGED redirects
  PROVE  RedirectsSound'
  BY DEF Inv, RedirectTypeOK, RedirectsSound, Growing

\* A step that leaves the redirects and every list in place.
LEMMA KeptInv ==
  ASSUME Inv, RedirectTypeOK', Growing, UNCHANGED <<redirects, found, new>>,
         \A v \in Migrations : path'[v] \in had'[v]
  PROVE  Inv'
<1>1. \A k \in Sessions : /\ SoundList(had', clean'[k], found'[k])
                     /\ SoundList(had', clean'[k], new'[k])
  BY KeptLists
<1> QED
  BY <1>1, KeptRedirects DEF Inv

LEMMA MigrateInv ==
  ASSUME Inv, NEW v \in Migrations, Migrate(v)
  PROVE  Inv'
<1>1. migrated' \in Seq(Migrations)
  BY Appended DEF Inv, RedirectTypeOK, Migrate
<1>2. RedirectTypeOK'
  BY <1>1 DEF Inv, RedirectTypeOK, Migrate
<1>3. Growing /\ \A w \in Migrations : path'[w] \in had'[w]
  BY DEF Inv, Growing, Migrate
<1> QED
  BY <1>2, <1>3, KeptInv DEF Migrate

LEMMA RenameInv ==
  ASSUME Inv, NEW v \in Migrations, NEW p \in Paths, Rename(v, p)
  PROVE  Inv'
<1>1. /\ path' = [path EXCEPT ![v] = p]
      /\ had' = [had EXCEPT ![v] = had[v] \cup {p}]
      /\ UNCHANGED <<migrated, redirects, at, listed, found, new, asked,
                     clean, failures>>
  BY DEF Rename
<1>2. path \in [Migrations -> Paths] /\ had \in [Migrations -> SUBSET Paths]
  BY DEF Inv, RedirectTypeOK
<1>3. path' \in [Migrations -> Paths] /\ had' \in [Migrations -> SUBSET Paths]
  BY <1>1, <1>2
<1>4. RedirectTypeOK'
  BY <1>1, <1>3 DEF Inv, RedirectTypeOK
<1>5. Growing /\ \A w \in Migrations : path'[w] \in had'[w]
  BY <1>1, <1>2 DEF Inv, Growing
<1> QED
  BY <1>1, <1>4, <1>5, KeptInv

-----------------------------------------------------------------------------
(* The program.                                                            *)

\* An answer leaves the marks of failures as they are, a failure sets one.
LEMMA Marks ==
  ASSUME Inv, NEW i \in Sessions, Answer(i) \/ Failure(i), UNCHANGED world
  PROVE  /\ clean' \in [Sessions -> BOOLEAN]
         /\ Growing
         /\ Failure(i) => ~clean'[i]
         /\ \A v \in Migrations : path'[v] \in had'[v]
  BY DEF Inv, RedirectTypeOK, Answer, Failure, Growing, world

LEMMA ListInv ==
  ASSUME Inv, NEW i \in Sessions, ListMigratedProjects(i)
  PROVE  Inv'
<1>1. /\ Answer(i) \/ Failure(i)
      /\ UNCHANGED <<world, found, new>>
      /\ listed' = [listed EXCEPT ![i] = migrated] \/ listed' = listed
  BY DEF ListMigratedProjects
<1>2. RedirectTypeOK'
  BY <1>1, Marks DEF Inv, RedirectTypeOK, world
<1> QED
  BY <1>1, <1>2, Marks, KeptInv DEF world

LEMMA RetrieveInv ==
  ASSUME Inv, NEW i \in Sessions,
         RetrieveGitLabProjectIdentifier(i)
  PROVE  Inv'
<1> DEFINE v == Head(listed[i])
<1>1. PICK p : /\ found' = [found EXCEPT ![i] = Append(found[i], <<p, v>>)]
               /\ \/ Answer(i) /\ p = path[v]
                  \/ Failure(i) /\ p = Empty
  BY DEF RetrieveGitLabProjectIdentifier
<1>2. /\ listed[i] # <<>>
      /\ listed' = [listed EXCEPT ![i] = Tail(listed[i])]
      /\ UNCHANGED <<world, new>>
  BY DEF RetrieveGitLabProjectIdentifier
<1>3. listed[i] \in Seq(Migrations) /\ found[i] \in Seq(Description)
  BY DEF Inv, RedirectTypeOK
<1>4. v \in Migrations /\ Tail(listed[i]) \in Seq(Migrations)
  BY <1>2, <1>3, HeadTail
<1>5. /\ path[v] \in Paths /\ path[v] \in had[v] /\ UNCHANGED had
  BY <1>2, <1>4 DEF Inv, RedirectTypeOK, world
<1>6. <<p, v>> \in Description
  BY <1>1, <1>4, <1>5 DEF Description
<1>7. Append(found[i], <<p, v>>) \in Seq(Description)
  BY <1>3, <1>6, Appended
<1>8. RedirectTypeOK'
  BY <1>1, <1>2, <1>4, <1>7, Marks DEF Inv, RedirectTypeOK, world
<1>9. SoundList(had', clean'[i], found'[i])
  <2>1. Sound(had', clean'[i], <<p, v>>)
    <3>1. CASE Answer(i) /\ p = path[v]
      BY <1>5, <3>1, PathsAssumption DEF Sound
    <3>2. CASE Failure(i) /\ p = Empty
      BY <1>2, <3>2, Marks DEF Sound
    <3> QED
      BY <1>1, <3>1, <3>2
  <2>2. SoundList(had', clean'[i], Append(found[i], <<p, v>>))
    BY <1>1, <1>2, <1>3, <1>6, <2>1, Marks, KeptLists, SoundAppend
  <2> QED
    BY <1>1, <2>2 DEF Inv, RedirectTypeOK
<1>10. \A k \in Sessions : /\ SoundList(had', clean'[k], found'[k])
                       /\ SoundList(had', clean'[k], new'[k])
  BY <1>1, <1>2, <1>9, Marks, KeptLists DEF Inv, RedirectTypeOK
<1>11. RedirectsSound' /\ \A w \in Migrations : path'[w] \in had'[w]
  BY <1>1, <1>2, Marks, KeptRedirects DEF world
<1> QED
  BY <1>8, <1>10, <1>11 DEF Inv

LEMMA FilterInv ==
  ASSUME Inv, NEW i \in Sessions, FilterToUnregistered(i)
  PROVE  Inv'
<1>1. /\ found[i] # <<>>
      /\ found' = [found EXCEPT ![i] = Tail(found[i])]
      /\ \/ new' = new
         \/ new' = [new EXCEPT ![i] = Append(new[i], Head(found[i]))]
      /\ Answer(i) \/ Failure(i)
      /\ UNCHANGED <<world, listed>>
  BY DEF FilterToUnregistered
<1>2. found[i] \in Seq(Description) /\ new[i] \in Seq(Description)
  BY DEF Inv, RedirectTypeOK
<1>3. /\ SoundList(had', clean'[i], found[i])
      /\ SoundList(had', clean'[i], new[i])
  BY <1>1, Marks, KeptLists
<1>4. /\ Head(found[i]) \in Description
      /\ Sound(had', clean'[i], Head(found[i]))
      /\ Tail(found[i]) \in Seq(Description)
      /\ SoundList(had', clean'[i], Tail(found[i]))
  BY <1>1, <1>2, <1>3, SoundTail
<1>5. /\ Append(new[i], Head(found[i])) \in Seq(Description)
      /\ SoundList(had', clean'[i], Append(new[i], Head(found[i])))
  BY <1>2, <1>3, <1>4, SoundAppend
<1>6. RedirectTypeOK'
  BY <1>1, <1>4, <1>5, Marks DEF Inv, RedirectTypeOK, world
<1>7. \A k \in Sessions : /\ SoundList(had', clean'[k], found'[k])
                      /\ SoundList(had', clean'[k], new'[k])
  BY <1>1, <1>3, <1>4, <1>5, Marks, KeptLists DEF Inv, RedirectTypeOK
<1>8. RedirectsSound' /\ \A w \in Migrations : path'[w] \in had'[w]
  BY <1>1, Marks, KeptRedirects DEF world
<1> QED
  BY <1>6, <1>7, <1>8 DEF Inv

LEMMA CreateInv ==
  ASSUME Inv, NEW i \in Sessions, CreateRedirect(i)
  PROVE  Inv'
<1> DEFINE d == Head(new[i])
<1>1. /\ new[i] # <<>>
      /\ new' = [new EXCEPT ![i] = Tail(new[i])]
      /\ \/ redirects' = redirects
         \/ redirects' = [redirects EXCEPT ![d[1]] = d[2]]
      /\ Answer(i) \/ Failure(i)
      /\ UNCHANGED <<migrated, path, had, listed, found>>
  BY DEF CreateRedirect, Target
<1>2. /\ clean' \in [Sessions -> BOOLEAN]
      /\ Growing
      /\ \A v \in Migrations : path'[v] \in had'[v]
  BY <1>1 DEF Inv, RedirectTypeOK, Answer, Failure, Growing
<1>3. new[i] \in Seq(Description)
  BY DEF Inv, RedirectTypeOK
<1>4. /\ d \in Description /\ Sound(had', clean'[i], d)
      /\ Tail(new[i]) \in Seq(Description)
      /\ SoundList(had', clean'[i], Tail(new[i]))
  BY <1>1, <1>2, <1>3, KeptLists, SoundTail
<1>5. /\ d[1] \in Paths \cup {Empty} /\ d[2] \in Migrations
      /\ d[1] # Empty => d[1] \in had'[d[2]]
      /\ d[1] = Empty => ~clean'[i]
  BY <1>4 DEF Description, Sound
<1>6. RedirectTypeOK'
  BY <1>1, <1>2, <1>4, <1>5 DEF Inv, RedirectTypeOK
<1>7. \A k \in Sessions : /\ SoundList(had', clean'[k], found'[k])
                      /\ SoundList(had', clean'[k], new'[k])
  BY <1>1, <1>2, <1>4, KeptLists DEF Inv, RedirectTypeOK
<1>8. RedirectsSound'
  <2>1. CASE redirects' = redirects
    BY <1>2, <2>1, KeptRedirects
  <2>2. CASE redirects' = [redirects EXCEPT ![d[1]] = d[2]]
    <3>1. \A p \in Paths : redirects'[p] # NoProject => p \in had'[redirects'[p]]
      <4> SUFFICES ASSUME NEW p \in Paths, redirects'[p] # NoProject
                   PROVE  p \in had'[redirects'[p]]
        OBVIOUS
      <4>1. CASE p = d[1]
        BY <1>5, <2>2, <4>1, PathsAssumption DEF Inv, RedirectTypeOK
      <4>2. CASE p # d[1]
        BY <1>1, <2>2, <4>2 DEF Inv, RedirectTypeOK, RedirectsSound
      <4> QED
        BY <4>1, <4>2
    <3>2. redirects'[Empty] # NoProject => \E k \in Sessions : ~clean'[k]
      BY <1>2, <1>5, <2>2 DEF Inv, RedirectTypeOK, RedirectsSound, Growing
    <3> QED
      BY <3>1, <3>2 DEF RedirectsSound
  <2> QED
    BY <1>1, <2>1, <2>2
<1> QED
  BY <1>2, <1>6, <1>7, <1>8 DEF Inv

LEMMA StepInv == Inv /\ [RedirectNext]_redirectVars => Inv'
<1> SUFFICES ASSUME Inv, [RedirectNext]_redirectVars PROVE Inv'
  OBVIOUS
<1>1. ASSUME UNCHANGED <<world, listed, found, new, clean>> PROVE Inv'
  BY <1>1 DEF world, Inv, RedirectTypeOK, RedirectsSound
<1>2. ASSUME NEW i \in Sessions, Prompt(i) \/ Finish(i) PROVE Inv'
  BY <1>1, <1>2 DEF Prompt, Finish
<1>3. CASE UNCHANGED redirectVars
  BY <1>1, <1>3 DEF redirectVars, world
<1> QED
  BY <1>2, <1>3, MigrateInv, RenameInv, ListInv, RetrieveInv, FilterInv,
     CreateInv DEF RedirectNext, Step

\* A redirect always leads from a path to a project that has had it, and
\* only a failed request leads to one from /projects/ itself.
THEOREM RedirectsStaySound == RedirectSpec => []RedirectsSound
<1>1. Inv => RedirectsSound
  BY DEF Inv
<1> QED
  BY InitInv, StepInv, <1>1, PTL DEF RedirectSpec
-----------------------------------------------------------------------------
(* Coverage.  A project that a clean invocation was told of is somewhere   *)
(* in its lists until one of the project's paths has a redirect, and then  *)
(* it keeps it.                                                            *)

Listed(s, v) == \E n \in 1 .. Len(s) : s[n] = v
Described(s, v) == \E n \in 1 .. Len(s) : s[n][2] = v
Pending(i, v) == \/ Listed(listed[i], v)
                 \/ Described(found[i], v) \/ Described(new[i], v)
Covered(v) == \E p \in had[v] : redirects[p] # NoProject

Told(i) == clean[i] => \A k \in 1 .. Len(asked[i]) :
                Covered(asked[i][k]) \/ Pending(i, asked[i][k])
Emptied(i) == /\ at[i] \in {"create", "done"} => listed[i] = <<>> /\ found[i] = <<>>
              /\ at[i] = "done" => new[i] = <<>>

CoverInv ==
    /\ asked \in [Sessions -> Seq(Migrations)]
    /\ at \in [Sessions -> {"start", "collect", "create", "done", "aborted"}]
    /\ \A i \in Sessions : Told(i) /\ Emptied(i)

LEMMA InitCover == RedirectInit => CoverInv
<1> SUFFICES ASSUME RedirectInit PROVE CoverInv
  OBVIOUS
<1>1. \A S : <<>> \in Seq(S)
  BY SMT
<1>2. asked \in [Sessions -> Seq(Migrations)]
  BY <1>1 DEF RedirectInit
<1>3. \A i \in Sessions : asked[i] = <<>> /\ at[i] = "start"
  BY DEF RedirectInit
<1>4. \A i \in Sessions : Told(i) /\ Emptied(i)
  <2> SUFFICES ASSUME NEW i \in Sessions PROVE Told(i) /\ Emptied(i)
    OBVIOUS
  <2>1. Len(asked[i]) = 0
    BY <1>3, SMT
  <2>2. 1 .. Len(asked[i]) = {}
    BY <2>1, SMT
  <2>3. Told(i)
    BY <2>2 DEF Told
  <2>4. Emptied(i)
    BY <1>3 DEF Emptied
  <2> QED
    BY <2>3, <2>4
<1> QED
  BY <1>2, <1>4 DEF CoverInv, RedirectInit

\* A redirect is never taken back, nor forgotten a path.
LEMMA CoveredStays ==
  ASSUME Inv, [RedirectNext]_redirectVars, NEW v \in Migrations, Covered(v)
  PROVE  Covered(v)'
<1>1. PICK p \in had[v] : redirects[p] # NoProject
  BY DEF Covered
<1>2. had[v] \subseteq had'[v] /\ p \in Paths
  <2>1. had \in [Migrations -> SUBSET Paths]
    BY DEF Inv, RedirectTypeOK
  <2>2. ASSUME NEW w \in Migrations, NEW q \in Paths, Rename(w, q)
        PROVE  had[v] \subseteq had'[v]
    BY <2>1, <2>2 DEF Rename
  <2>3. ASSUME NEW i \in Sessions, Step(i) PROVE had' = had
    BY <2>3 DEF Step, ListMigratedProjects, RetrieveGitLabProjectIdentifier,
       FilterToUnregistered, Prompt, CreateRedirect, Finish, world
  <2> QED
    BY <2>1, <2>2, <2>3 DEF RedirectNext, Migrate, redirectVars, world
<1>3. redirects'[p] # NoProject
  <2>1. redirects \in [Paths \cup {Empty} -> Migrations \cup {NoProject}]
    BY DEF Inv, RedirectTypeOK
  <2>2. ASSUME NEW i \in Sessions, CreateRedirect(i)
        PROVE  redirects'[p] # NoProject
    <3>1. \/ redirects' = redirects
          \/ /\ redirects' = [redirects EXCEPT ![Head(new[i])[1]] = Target(i)]
             /\ redirects[Head(new[i])[1]] = NoProject
      BY <2>2 DEF CreateRedirect
    <3> QED
      BY <1>1, <1>2, <2>1, <3>1
  <2>3. ASSUME NEW i \in Sessions, Step(i), ~CreateRedirect(i)
        PROVE  redirects' = redirects
    BY <2>3 DEF Step, ListMigratedProjects, RetrieveGitLabProjectIdentifier,
       FilterToUnregistered, Prompt, Finish, world
  <2> QED
    BY <1>1, <2>2, <2>3 DEF RedirectNext, Migrate, Rename, redirectVars, world
<1> QED
  BY <1>2, <1>3 DEF Covered

\* One invocation takes a step.
LEMMA CoverStep ==
  ASSUME Inv, CoverInv, [RedirectNext]_redirectVars, NEW i \in Sessions,
         \A k \in Sessions \ {i} :
            /\ asked'[k] = asked[k] /\ listed'[k] = listed[k]
            /\ found'[k] = found[k] /\ new'[k] = new[k]
            /\ at'[k] = at[k] /\ clean'[k] = clean[k],
         asked' \in [Sessions -> Seq(Migrations)],
         at' \in [Sessions -> {"start", "collect", "create", "done", "aborted"}],
         Told(i)', Emptied(i)'
  PROVE  CoverInv'
<1>1. ASSUME NEW k \in Sessions \ {i} PROVE Told(k)' /\ Emptied(k)'
  <2>1. ASSUME clean[k], NEW n \in 1 .. Len(asked[k])
        PROVE  Covered(asked[k][n])' \/ Pending(k, asked[k][n])'
    <3>1. asked[k] \in Seq(Migrations) /\ asked[k][n] \in Migrations
      BY SMT DEF CoverInv
    <3>2. Covered(asked[k][n]) \/ Pending(k, asked[k][n])
      BY <2>1 DEF CoverInv, Told
    <3>3. CASE Covered(asked[k][n])
      <4> DEFINE v == asked[k][n]
      <4>1. v \in Migrations /\ Covered(v)
        BY <3>1, <3>3
      <4>2. ASSUME NEW u \in Migrations, Covered(u)
            PROVE  \E p \in had'[u] : redirects'[p] # NoProject
        BY <4>2, CoveredStays DEF Covered
      <4> QED
        BY <1>1, <4>1, <4>2 DEF Covered
    <3>4. CASE Pending(k, asked[k][n])
      BY <1>1, <3>4 DEF Pending
    <3> QED
      BY <3>2, <3>3, <3>4
  <2>2. Emptied(k)'
    BY DEF CoverInv, Emptied
  <2> QED
    BY <2>1, <2>2 DEF Told, Covered, Pending
<1>2. \A k \in Sessions : Told(k)' /\ Emptied(k)'
  <2> SUFFICES ASSUME NEW k \in Sessions PROVE Told(k)' /\ Emptied(k)'
    OBVIOUS
  <2>1. CASE k = i
    BY <2>1
  <2>2. CASE k # i
    BY <1>1, <2>2
  <2> QED
    BY <2>1, <2>2
<1> QED
  BY <1>2 DEF CoverInv

LEMMA AppendDescribed ==
  ASSUME NEW s \in Seq(Description), NEW e \in Description
  PROVE  /\ \A u : Described(s, u) => Described(Append(s, e), u)
         /\ Described(Append(s, e), e[2])
<1> DEFINE t == Append(s, e)
<1>1. /\ Len(s) \in Nat /\ Len(t) = Len(s) + 1
      /\ \A n \in 1 .. Len(s) : t[n] = s[n]
      /\ t[Len(s) + 1] = e
  BY SMT
<1> HIDE DEF t
<1>2. ASSUME NEW u, Described(s, u) PROVE Described(t, u)
  <2>1. PICK n \in 1 .. Len(s) : s[n][2] = u
    BY <1>2 DEF Described
  <2>2. n \in 1 .. Len(t) /\ t[n] = s[n]
    BY <1>1
  <2> QED
    BY <2>1, <2>2 DEF Described
<1>3. Described(t, e[2])
  <2>1. Len(s) + 1 \in 1 .. Len(t) /\ t[Len(s) + 1][2] = e[2]
    BY <1>1
  <2> QED
    BY <2>1 DEF Described
<1> QED
  BY <1>2, <1>3 DEF t

LEMMA TailDescribed ==
  ASSUME NEW s \in Seq(Description), s # <<>>, NEW u, Described(s, u)
  PROVE  u = Head(s)[2] \/ Described(Tail(s), u)
<1>1. PICK n \in 1 .. Len(s) : s[n][2] = u
  BY DEF Described
<1>2. /\ Head(s) = s[1] /\ Len(s) \in Nat /\ Len(Tail(s)) = Len(s) - 1
      /\ \A m \in 1 .. Len(Tail(s)) : Tail(s)[m] = s[m + 1]
  BY HeadTail
<1>3. CASE n = 1
  BY <1>1, <1>2, <1>3
<1>4. CASE n # 1
  <2>1. n - 1 \in 1 .. Len(Tail(s)) /\ (n - 1) + 1 = n
    BY <1>2, <1>4
  <2>2. Tail(s)[n - 1] = s[n]
    BY <1>2, <2>1
  <2> QED
    BY <1>1, <2>1, <2>2 DEF Described
<1> QED
  BY <1>3, <1>4

\* An invocation that goes on without losing anything from its lists.
LEMMA KeptPending ==
  ASSUME Inv, CoverInv, [RedirectNext]_redirectVars, NEW i \in Sessions,
         asked'[i] = asked[i], clean'[i] => clean[i],
         \A v \in Migrations : Pending(i, v) => Pending(i, v)' \/ Covered(v)'
  PROVE  Told(i)'
<1> SUFFICES ASSUME clean[i], NEW n \in 1 .. Len(asked[i])
             PROVE  Covered(asked[i][n])' \/ Pending(i, asked[i][n])'
  BY DEF Told, Covered, Pending
<1>1. PICK v \in Migrations : v = asked[i][n]
  BY SMT DEF CoverInv
<1>2. Covered(v) \/ Pending(i, v)
  BY <1>1 DEF CoverInv, Told
<1>3. Covered(v)' \/ Pending(i, v)'
  BY <1>2, CoveredStays
<1> QED
  BY <1>1, <1>3 DEF Covered, Pending

LEMMA ListCover ==
  ASSUME Inv, CoverInv, NEW i \in Sessions, ListMigratedProjects(i)
  PROVE  CoverInv'
<1>1. [RedirectNext]_redirectVars
  BY DEF RedirectNext, Step
<1>2. /\ at[i] = "start" /\ at' = [at EXCEPT ![i] = "collect"]
      /\ UNCHANGED <<world, found, new>>
      /\ \/ /\ UNCHANGED clean
            /\ listed' = [listed EXCEPT ![i] = migrated]
            /\ asked' = [asked EXCEPT ![i] = migrated]
         \/ /\ clean' = [clean EXCEPT ![i] = FALSE]
            /\ UNCHANGED <<listed, asked>>
  BY DEF ListMigratedProjects, Answer, Failure, Continue
<1>3. /\ migrated \in Seq(Migrations) /\ clean \in [Sessions -> BOOLEAN]
      /\ listed \in [Sessions -> Seq(Migrations)]
      /\ asked \in [Sessions -> Seq(Migrations)]
      /\ at \in [Sessions -> {"start", "collect", "create", "done", "aborted"}]
  BY DEF Inv, RedirectTypeOK, CoverInv
<1>4. Emptied(i)'
  BY <1>2, <1>3 DEF Emptied
<1>5. Told(i)'
  <2>1. CASE clean' = [clean EXCEPT ![i] = FALSE]
    BY <1>3, <2>1 DEF Told
  <2>2. CASE listed' = [listed EXCEPT ![i] = migrated]
             /\ asked' = [asked EXCEPT ![i] = migrated]
    <3>1. asked'[i] = migrated /\ listed'[i] = migrated
      BY <1>3, <2>2
    <3> QED
      BY <3>1 DEF Told, Pending, Listed
  <2> QED
    BY <1>2, <2>1, <2>2
<1>6. /\ asked' \in [Sessions -> Seq(Migrations)]
      /\ at' \in [Sessions -> {"start", "collect", "create", "done", "aborted"}]
  BY <1>2, <1>3
<1>7. \A k \in Sessions \ {i} :
        /\ asked'[k] = asked[k] /\ listed'[k] = listed[k]
        /\ found'[k] = found[k] /\ new'[k] = new[k]
        /\ at'[k] = at[k] /\ clean'[k] = clean[k]
  BY <1>2, <1>3
<1> QED
  BY <1>1, <1>4, <1>5, <1>6, <1>7, CoverStep

\* The path of the next project is read: the project moves to found.
LEMMA RetrieveCover ==
  ASSUME Inv, CoverInv, NEW i \in Sessions, RetrieveGitLabProjectIdentifier(i)
  PROVE  CoverInv'
<1>0. PICK v : v = Head(listed[i])
  OBVIOUS
<1>1. [RedirectNext]_redirectVars
  BY DEF RedirectNext, Step
<1>2. /\ at[i] = "collect" /\ listed[i] # <<>>
      /\ UNCHANGED <<world, at, new, asked>>
      /\ listed' = [listed EXCEPT ![i] = Tail(listed[i])]
      /\ \/ UNCHANGED clean
         \/ clean' = [clean EXCEPT ![i] = FALSE]
  BY DEF RetrieveGitLabProjectIdentifier, Answer, Failure
<1>3. PICK p \in Paths \cup {Empty} :
        found' = [found EXCEPT ![i] = Append(found[i], <<p, v>>)]
  <2>1. v \in Migrations /\ path \in [Migrations -> Paths]
    BY <1>0, <1>2, HeadTail DEF Inv, RedirectTypeOK
  <2> QED
    BY <1>0, <2>1 DEF RetrieveGitLabProjectIdentifier
<1>4. /\ listed \in [Sessions -> Seq(Migrations)]
      /\ found \in [Sessions -> Seq(Description)]
      /\ clean \in [Sessions -> BOOLEAN]
  BY DEF Inv, RedirectTypeOK
<1>5. /\ listed'[i] = Tail(listed[i]) /\ listed[i] \in Seq(Migrations)
      /\ found'[i] = Append(found[i], <<p, v>>) /\ found[i] \in Seq(Description)
      /\ new'[i] = new[i]
  BY <1>2, <1>3, <1>4
<1>6. ASSUME NEW u \in Migrations, Listed(listed[i], u)
      PROVE  u = v \/ Listed(Tail(listed[i]), u)
  <2>1. PICK n \in 1 .. Len(listed[i]) : listed[i][n] = u
    BY <1>6 DEF Listed
  <2>2. CASE n = 1
    BY <1>0, <1>2, <1>5, <2>1, <2>2, HeadTail
  <2>3. CASE n # 1
    <3>1. /\ n - 1 \in 1 .. Len(Tail(listed[i]))
          /\ Tail(listed[i])[n - 1] = listed[i][(n - 1) + 1]
          /\ (n - 1) + 1 = n
      BY <1>2, <1>5, <2>3, HeadTail
    <3> QED
      BY <2>1, <3>1 DEF Listed
  <2> QED
    BY <2>2, <2>3
<1>7. /\ \A u \in Migrations : Described(found[i], u) => Described(found'[i], u)
      /\ Described(found'[i], v)
  <2>1. v \in Migrations
    BY <1>0, <1>2, <1>5, HeadTail
  <2>2. PICK e : e = <<p, v>>
    OBVIOUS
  <2>3. e \in Description /\ e[2] = v
    BY <1>3, <2>1, <2>2 DEF Description
  <2>4. found'[i] = Append(found[i], e)
    BY <1>5, <2>2
  <2> QED
    BY <1>5, <2>3, <2>4, AppendDescribed
<1>8. \A u \in Migrations : Pending(i, u) => Pending(i, u)'
  BY <1>5, <1>6, <1>7 DEF Pending
<1>9. Told(i)'
  BY <1>1, <1>2, <1>4, <1>8, KeptPending
<1>10. Emptied(i)'
  BY <1>2 DEF Emptied
<1>11. \A k \in Sessions \ {i} :
        /\ asked'[k] = asked[k] /\ listed'[k] = listed[k]
        /\ found'[k] = found[k] /\ new'[k] = new[k]
        /\ at'[k] = at[k] /\ clean'[k] = clean[k]
  BY <1>2, <1>3, <1>4
<1> QED
  BY <1>1, <1>2, <1>9, <1>10, <1>11, CoverStep DEF CoverInv

\* A description is dropped only when its path has a redirect.
LEMMA FilterCover ==
  ASSUME Inv, CoverInv, NEW i \in Sessions, FilterToUnregistered(i)
  PROVE  CoverInv'
<1>0. PICK d : d = Head(found[i])
  OBVIOUS
<1>1. [RedirectNext]_redirectVars
  BY DEF RedirectNext, Step
<1>2. /\ at[i] = "collect" /\ found[i] # <<>>
      /\ UNCHANGED <<world, at, listed, asked>>
      /\ found' = [found EXCEPT ![i] = Tail(found[i])]
      /\ \/ UNCHANGED clean
         \/ clean' = [clean EXCEPT ![i] = FALSE]
      /\ \/ redirects[d[1]] # NoProject /\ new' = new /\ clean' = clean
         \/ new' = [new EXCEPT ![i] = Append(new[i], d)]
  BY <1>0 DEF FilterToUnregistered, Answer, Failure
<1>3. /\ found \in [Sessions -> Seq(Description)]
      /\ new \in [Sessions -> Seq(Description)]
      /\ clean \in [Sessions -> BOOLEAN]
  BY DEF Inv, RedirectTypeOK
<1>4. /\ found'[i] = Tail(found[i]) /\ found[i] \in Seq(Description)
      /\ new[i] \in Seq(Description) /\ listed'[i] = listed[i]
      /\ d \in Description
  BY <1>0, <1>2, <1>3, HeadTail
<1>5. \A u \in Migrations : Described(found[i], u) =>
            u = d[2] \/ Described(found'[i], u)
  BY <1>0, <1>2, <1>4, TailDescribed
<1>6. ASSUME clean' = [clean EXCEPT ![i] = FALSE] PROVE Told(i)'
  BY <1>3, <1>6 DEF Told
<1>7. ASSUME new' = [new EXCEPT ![i] = Append(new[i], d)], clean' = clean
      PROVE  Told(i)'
  <2>1. new'[i] = Append(new[i], d)
    BY <1>3, <1>7
  <2>2. /\ \A u \in Migrations : Described(new[i], u) => Described(new'[i], u)
        /\ Described(new'[i], d[2])
    BY <1>4, <2>1, AppendDescribed
  <2>3. \A u \in Migrations : Pending(i, u) => Pending(i, u)'
    BY <1>4, <1>5, <2>2 DEF Pending
  <2>4. Told(i)'
    BY <1>1, <1>2, <1>7, <2>3, KeptPending
  <2> QED
    BY <2>4
<1>8. ASSUME redirects[d[1]] # NoProject, new' = new, clean' = clean
      PROVE  Told(i)'
  <2>1. clean[i] => Covered(d[2])'
    <3> SUFFICES ASSUME clean[i] PROVE Covered(d[2])'
      OBVIOUS
    <3>1. Sound(had, clean[i], d)
      BY <1>0, <1>2, <1>4, SoundTail DEF Inv
    <3>2. d[1] \in had[d[2]]
      BY <3>1 DEF Sound
    <3>3. had' = had /\ redirects' = redirects
      BY <1>2 DEF world
    <3> QED
      BY <1>8, <3>2, <3>3 DEF Covered
  <2>2. CASE clean[i]
    <3>1. \A u \in Migrations : Pending(i, u) => Pending(i, u)' \/ Covered(u)'
      <4> SUFFICES ASSUME NEW u \in Migrations, Pending(i, u), ~Pending(i, u)'
                   PROVE  Covered(u)'
        OBVIOUS
      <4>1. u = d[2]
        BY <1>4, <1>5, <1>8 DEF Pending
      <4> QED
        BY <2>1, <2>2, <4>1 DEF Covered
    <3> QED
      BY <1>1, <1>2, <1>8, <3>1, KeptPending
  <2>3. CASE ~clean[i]
    BY <1>8, <2>3 DEF Told
  <2> QED
    BY <2>2, <2>3
<1>9. Told(i)'
  BY <1>2, <1>6, <1>7, <1>8
<1>10. Emptied(i)'
  BY <1>2 DEF Emptied
<1>11. \A k \in Sessions \ {i} :
        /\ asked'[k] = asked[k] /\ listed'[k] = listed[k]
        /\ found'[k] = found[k] /\ new'[k] = new[k]
        /\ at'[k] = at[k] /\ clean'[k] = clean[k]
  BY <1>2, <1>3
<1> QED
  BY <1>1, <1>2, <1>9, <1>10, <1>11, CoverStep DEF CoverInv

\* A description leaves the last list when its path has a redirect.
LEMMA CreateCover ==
  ASSUME Inv, CoverInv, NEW i \in Sessions, CreateRedirect(i)
  PROVE  CoverInv'
<1>0. PICK d : d = Head(new[i])
  OBVIOUS
<1>1. [RedirectNext]_redirectVars
  BY DEF RedirectNext, Step
<1>2. /\ at[i] = "create" /\ new[i] # <<>>
      /\ UNCHANGED <<had, at, listed, found, asked>>
      /\ new' = [new EXCEPT ![i] = Tail(new[i])]
      /\ \/ UNCHANGED clean
         \/ clean' = [clean EXCEPT ![i] = FALSE]
  BY DEF CreateRedirect, Answer, Failure
<1>3. /\ new \in [Sessions -> Seq(Description)]
      /\ clean \in [Sessions -> BOOLEAN]
      /\ redirects \in [Paths \cup {Empty} -> Migrations \cup {NoProject}]
  BY DEF Inv, RedirectTypeOK
<1>4. /\ new'[i] = Tail(new[i]) /\ new[i] \in Seq(Description)
      /\ d \in Description /\ listed'[i] = listed[i] /\ found'[i] = found[i]
      /\ d[1] \in Paths \cup {Empty} /\ d[2] \in Migrations
  <2>1. new'[i] = Tail(new[i]) /\ new[i] \in Seq(Description) /\ d \in Description
    BY <1>0, <1>2, <1>3, HeadTail
  <2> QED
    BY <1>2, <2>1 DEF Description
<1>5. \A u \in Migrations : Described(new[i], u) =>
            u = d[2] \/ Described(new'[i], u)
  BY <1>0, <1>2, <1>4, TailDescribed
<1>6. clean'[i] => clean[i] /\ Covered(d[2])'
  <2> SUFFICES ASSUME clean'[i] PROVE clean[i] /\ Covered(d[2])'
    OBVIOUS
  <2>1. clean[i] /\ clean' = clean
    BY <1>2, <1>3
  <2>2. ~Failure(i)
    BY <1>3 DEF Failure
  <2>3. redirects'[d[1]] # NoProject
    <3>1. \/ redirects' = [redirects EXCEPT ![d[1]] = d[2]]
          \/ redirects' = redirects /\ redirects[d[1]] # NoProject
      BY <1>0, <2>2 DEF CreateRedirect, Target
    <3> QED
      BY <1>3, <1>4, <3>1, PathsAssumption
  <2>4. Sound(had, clean[i], d)
    BY <1>0, <1>2, <1>4, SoundTail DEF Inv
  <2>5. d[1] \in had'[d[2]]
    BY <1>2, <2>1, <2>4 DEF Sound
  <2> QED
    BY <2>1, <2>3, <2>5 DEF Covered
<1>7. Told(i)'
  <2>1. CASE clean'[i]
    <3>1. \A u \in Migrations : Pending(i, u) => Pending(i, u)' \/ Covered(u)'
      <4> SUFFICES ASSUME NEW u \in Migrations, Pending(i, u), ~Pending(i, u)'
                   PROVE  Covered(u)'
        OBVIOUS
      <4>1. u = d[2]
        BY <1>4, <1>5 DEF Pending
      <4> QED
        BY <1>6, <2>1, <4>1 DEF Covered
    <3> QED
      BY <1>1, <1>2, <1>6, <3>1, KeptPending
  <2>2. CASE ~clean'[i]
    BY <2>2 DEF Told
  <2> QED
    BY <2>1, <2>2
<1>8. Emptied(i)'
  BY <1>2 DEF CoverInv, Emptied
<1>9. \A k \in Sessions \ {i} :
        /\ asked'[k] = asked[k] /\ listed'[k] = listed[k]
        /\ found'[k] = found[k] /\ new'[k] = new[k]
        /\ at'[k] = at[k] /\ clean'[k] = clean[k]
  BY <1>2, <1>3
<1> QED
  BY <1>1, <1>2, <1>7, <1>8, <1>9, CoverStep DEF CoverInv

LEMMA PromptCover ==
  ASSUME Inv, CoverInv, NEW i \in Sessions, Prompt(i) \/ Finish(i)
  PROVE  CoverInv'
<1>1. [RedirectNext]_redirectVars
  BY DEF RedirectNext, Step
<1>2. /\ UNCHANGED <<world, listed, found, new, asked, clean>>
      /\ at \in [Sessions -> {"start", "collect", "create", "done", "aborted"}]
      /\ \E l \in {"done", "create", "aborted"} : at' = [at EXCEPT ![i] = l]
  BY DEF Prompt, Finish, Continue, CoverInv
<1>3. /\ at' \in [Sessions -> {"start", "collect", "create", "done", "aborted"}]
      /\ \A k \in Sessions \ {i} : at'[k] = at[k]
  BY <1>2
<1>4. listed[i] = <<>> /\ found[i] = <<>> /\ (at'[i] = "done" => new[i] = <<>>)
  <2>1. CASE Prompt(i)
    BY <1>2, <2>1 DEF Prompt, Continue
  <2>2. CASE Finish(i)
    BY <2>2 DEF Finish, CoverInv, Emptied
  <2> QED
    BY <2>1, <2>2
<1>5. Emptied(i)'
  BY <1>2, <1>4 DEF Emptied
<1>6. Told(i)'
  BY <1>2 DEF world, CoverInv, Told, Covered, Pending
<1> QED
  BY <1>1, <1>2, <1>3, <1>5, <1>6, CoverStep DEF CoverInv

LEMMA PeopleCover ==
  ASSUME Inv, CoverInv, [RedirectNext]_redirectVars,
         UNCHANGED <<at, listed, found, new, asked, clean>>
  PROVE  CoverInv'
<1>1. ASSUME NEW i \in Sessions PROVE Told(i)' /\ Emptied(i)'
  <2>1. \A v \in Migrations : Pending(i, v) => Pending(i, v)'
    BY DEF Pending
  <2>2. Told(i)'
    BY <2>1, KeptPending
  <2> QED
    BY <2>2 DEF CoverInv, Emptied
<1> QED
  BY <1>1 DEF CoverInv

LEMMA CoverNext == Inv /\ CoverInv /\ [RedirectNext]_redirectVars => CoverInv'
<1> SUFFICES ASSUME Inv, CoverInv, [RedirectNext]_redirectVars PROVE CoverInv'
  OBVIOUS
<1>1. ASSUME NEW v \in Migrations, Migrate(v) PROVE CoverInv'
  BY <1>1, PeopleCover DEF Migrate
<1>2. ASSUME NEW v \in Migrations, NEW p \in Paths, Rename(v, p) PROVE CoverInv'
  BY <1>2, PeopleCover DEF Rename
<1>3. CASE UNCHANGED redirectVars
  BY <1>3, PeopleCover DEF redirectVars
<1>4. ASSUME NEW i \in Sessions, Step(i) PROVE CoverInv'
  BY <1>4, ListCover, RetrieveCover, FilterCover, CreateCover, PromptCover
     DEF Step
<1> QED
  BY <1>1, <1>2, <1>3, <1>4 DEF RedirectNext

\* An invocation of which no request failed leaves none of the projects it
\* was told of without a redirect from one of its paths, whatever others do
\* meanwhile and failed invocations did before.
THEOREM CleanRunCovers == RedirectSpec => []CleanRunCoversMigrations
<1>1. Inv /\ CoverInv => CleanRunCoversMigrations
  <2> SUFFICES ASSUME Inv, CoverInv, NEW i \in Sessions, at[i] = "done", clean[i],
                      NEW k \in 1 .. Len(asked[i])
               PROVE  \E p \in had[asked[i][k]] :
                        /\ redirects[p] # NoProject
                        /\ \/ redirects[p] = asked[i][k]
                           \/ p \in had[redirects[p]]
    BY DEF CleanRunCoversMigrations
  <2>1. asked[i][k] \in Migrations
    BY SMT DEF CoverInv
  <2>2. ~Pending(i, asked[i][k])
    <3>1. listed[i] = <<>> /\ found[i] = <<>> /\ new[i] = <<>>
      BY DEF CoverInv, Emptied
    <3>2. Len(<<>>) = 0
      OBVIOUS
    <3>3. Len(listed[i]) = 0 /\ Len(found[i]) = 0 /\ Len(new[i]) = 0
      BY <3>1, <3>2
    <3> QED
      BY <3>3 DEF Pending, Listed, Described
  <2>3. Covered(asked[i][k])
    BY <2>2 DEF CoverInv, Told
  <2>4. \A p \in had[asked[i][k]] : p \in Paths
    BY <2>1 DEF Inv, RedirectTypeOK
  <2> QED
    BY <2>3, <2>4 DEF Covered, Inv, RedirectsSound
<1> QED
  BY <1>1, InitInv, StepInv, InitCover, CoverNext, PTL DEF RedirectSpec
=============================================================================
