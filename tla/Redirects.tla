------------------------------ MODULE Redirects ------------------------------
(***************************************************************************)
(* scripts/generate-redirects-from-migrations: before GitLab goes away, an *)
(* administrator runs the program to redirect /projects/<path in GitLab>   *)
(* to the Renku project each GitLab project was migrated into.             *)
(*                                                                         *)
(* One action per request.  Any request may fail; the program prints the   *)
(* failure and goes on with an empty answer.  Between the list it shows    *)
(* and the redirects it creates it waits for a person, while people rename *)
(* and migrate projects.  GitLab and the Renku API are external: the API   *)
(* lists migrations in the order they were made and refuses a redirect     *)
(* whose source exists.                                                    *)
(***************************************************************************)
EXTENDS Integers, Sequences

CONSTANTS
    Sessions,    \* the invocations of the program
    Migrations,  \* the GitLab projects migrated or to be migrated
    Paths,       \* the paths a project may have
    MaxFailures, \* bound: failing requests
    MaxRenames,  \* bound: renamings
    NoProject    \* where a path without a redirect leads

\* The path of a GitLab project that could not be read.
Empty == ""

\* Every path has a name; at first every project can have one of its own.
ASSUME PathsAssumption ==
    /\ Empty \notin Paths
    /\ NoProject \notin Migrations
    /\ \E p \in [Migrations -> Paths] :
          \A v, w \in Migrations : p[v] = p[w] => v = w

VARIABLES
    \* GitLab and Renku
    migrated,   \* the migrated projects, in the order of their migration
    path,       \* per project: its path
    had,        \* per project: the paths it has had
    redirects,  \* per source path: NoProject, or the project it leads to
    renames,    \* renamings so far
    \* the program
    at,         \* per invocation: what it does next
    listed,     \* per invocation: the migrated projects it has still to ask for
    found,      \* per invocation: descriptions <<path, project>> to look up
    new,        \* per invocation: descriptions without a redirect
    asked,      \* per invocation: the migrated projects it was told of
    clean,      \* per invocation: none of its requests failed
    failures    \* failed requests so far

world == <<migrated, path, had, redirects, renames>>
redirectVars == <<world, at, listed, found, new, asked, clean, failures>>

\* Which project has which path at first does not matter.
RedirectInit ==
    /\ migrated = <<>>
    /\ path = CHOOSE p \in [Migrations -> Paths] :
                  \A v, w \in Migrations : p[v] = p[w] => v = w
    /\ had = [v \in Migrations |-> {path[v]}]
    /\ redirects = [p \in Paths \cup {Empty} |-> NoProject]
    /\ renames = 0
    /\ at = [i \in Sessions |-> "start"]
    /\ listed = [i \in Sessions |-> <<>>]
    /\ found = [i \in Sessions |-> <<>>]
    /\ new = [i \in Sessions |-> <<>>]
    /\ asked = [i \in Sessions |-> <<>>]
    /\ clean = [i \in Sessions |-> TRUE]
    /\ failures = 0

-----------------------------------------------------------------------------
(* People.                                                                 *)

Migrate(v) ==
    /\ \A k \in 1 .. Len(migrated) : migrated[k] # v
    /\ migrated' = Append(migrated, v)
    /\ UNCHANGED <<path, had, redirects, renames,
                   at, listed, found, new, asked, clean, failures>>

\* A path that was given up may be taken by another project.
Rename(v, p) ==
    /\ renames < MaxRenames
    /\ \A w \in Migrations : path[w] # p
    /\ path' = [path EXCEPT ![v] = p]
    /\ had' = [had EXCEPT ![v] = @ \cup {p}]
    /\ renames' = renames + 1
    /\ UNCHANGED <<migrated, redirects,
                   at, listed, found, new, asked, clean, failures>>

-----------------------------------------------------------------------------
(* The program.                                                            *)

Continue(i, l) == at' = [at EXCEPT ![i] = l]

\* A request of invocation i is answered, or it fails.
Answer(i) == UNCHANGED <<clean, failures>>
Failure(i) == /\ failures < MaxFailures
              /\ failures' = failures + 1
              /\ clean' = [clean EXCEPT ![i] = FALSE]

ListMigratedProjects(i) ==
    /\ at[i] = "start"
    /\ \/ /\ Answer(i)
          /\ listed' = [listed EXCEPT ![i] = migrated]
          /\ asked' = [asked EXCEPT ![i] = migrated]
       \/ /\ Failure(i)
          /\ UNCHANGED <<listed, asked>>
    /\ Continue(i, "collect")
    /\ UNCHANGED <<world, found, new>>

RetrieveGitLabProjectIdentifier(i) ==
    /\ at[i] = "collect" /\ listed[i] # <<>>
    /\ LET v == Head(listed[i])
           Describe(p) == found' = [found EXCEPT ![i] = Append(@, <<p, v>>)]
       IN  \/ Answer(i) /\ Describe(path[v])
           \/ Failure(i) /\ Describe(Empty)
    /\ listed' = [listed EXCEPT ![i] = Tail(@)]
    /\ UNCHANGED <<world, at, new, asked>>

\* Mutant: the first redirect that exists ends the loop.
FilterToUnregisteredStops(i) ==
    /\ at[i] = "collect" /\ listed[i] = <<>> /\ found[i] # <<>>
    /\ \/ /\ redirects[Head(found[i])[1]] # NoProject /\ Answer(i)
          /\ found' = [found EXCEPT ![i] = <<>>]
          /\ UNCHANGED new
       \/ /\ \/ redirects[Head(found[i])[1]] = NoProject /\ Answer(i)
             \/ Failure(i)
          /\ found' = [found EXCEPT ![i] = Tail(@)]
          /\ new' = [new EXCEPT ![i] = Append(@, Head(found[i]))]
    /\ UNCHANGED <<world, at, listed, asked>>

\* HasExistingRedirect: every failure counts as "no".
FilterToUnregistered(i) ==
    /\ at[i] = "collect" /\ listed[i] = <<>> /\ found[i] # <<>>
    /\ found' = [found EXCEPT ![i] = Tail(@)]
    /\ \/ /\ redirects[Head(found[i])[1]] # NoProject /\ Answer(i)
          /\ UNCHANGED new
       \/ /\ \/ redirects[Head(found[i])[1]] = NoProject /\ Answer(i)
             \/ Failure(i)
          /\ new' = [new EXCEPT ![i] = Append(@, Head(found[i]))]
    /\ UNCHANGED <<world, at, listed, asked>>

\* "No new redirects to create", or a question that a person answers.
Prompt(i) ==
    /\ at[i] = "collect" /\ listed[i] = <<>> /\ found[i] = <<>>
    /\ \/ new[i] = <<>> /\ Continue(i, "done")
       \/ new[i] # <<>> /\ (Continue(i, "create") \/ Continue(i, "aborted"))
    /\ UNCHANGED <<world, listed, found, new, asked, clean, failures>>

\* Mutant: the target is looked up by its position in the unfiltered list.
TargetByPosition(i) == asked[i][1 + Len(asked[i]) - Len(new[i])]

Target(i) == Head(new[i])[2]

\* What fails may have been carried out.
CreateRedirect(i) ==
    /\ at[i] = "create" /\ new[i] # <<>>
    /\ LET source == Head(new[i])[1]
       IN  \/ /\ redirects[source] = NoProject
              /\ Answer(i) \/ Failure(i)
              /\ redirects' = [redirects EXCEPT ![source] = Target(i)]
           \/ /\ IF redirects[source] # NoProject THEN Answer(i) ELSE Failure(i)
              /\ UNCHANGED redirects
    /\ new' = [new EXCEPT ![i] = Tail(@)]
    /\ UNCHANGED <<migrated, path, had, renames, at, listed, found, asked>>

Finish(i) ==
    /\ at[i] = "create" /\ new[i] = <<>>
    /\ Continue(i, "done")
    /\ UNCHANGED <<world, listed, found, new, asked, clean, failures>>

Step(i) == \/ ListMigratedProjects(i) \/ RetrieveGitLabProjectIdentifier(i)
           \/ FilterToUnregistered(i) \/ Prompt(i)
           \/ CreateRedirect(i) \/ Finish(i)

RedirectNext ==
    \/ \E v \in Migrations : Migrate(v)
    \/ \E v \in Migrations, p \in Paths : Rename(v, p)
    \/ \E i \in Sessions : Step(i)

RedirectSpec == RedirectInit /\ [][RedirectNext]_redirectVars

-----------------------------------------------------------------------------
(* Properties.                                                             *)

\* A redirect leads from a path to a project that has had that path, through
\* failures, renamings while the program waits for its answer, and other
\* invocations at the same time; the redirect of /projects/ itself is the
\* mark of a failed request.
RedirectsSound ==
    /\ \A p \in Paths : redirects[p] # NoProject => p \in had[redirects[p]]
    /\ redirects[Empty] # NoProject => \E i \in Sessions : ~clean[i]

\* An invocation of which no request failed has covered all it was told of,
\* whatever failed invocations left behind before it and others do
\* meanwhile: every project is led to from one of its paths, unless another
\* project has had that path too (a redirect that exists is not looked at).
CleanRunCoversMigrations ==
    \A i \in Sessions : at[i] = "done" /\ clean[i] =>
        \A k \in 1 .. Len(asked[i]) : \E p \in had[asked[i][k]] :
            /\ redirects[p] # NoProject
            /\ \/ redirects[p] = asked[i][k]
               \/ p \in had[redirects[p]]
=============================================================================
