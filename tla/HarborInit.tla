------------------------------ MODULE HarborInit ------------------------------
(***************************************************************************)
(* scripts/harbor-init/harbor-init.go: an administrator runs it by hand to *)
(* have a project in a Harbor registry and, in it, a robot account with a  *)
(* secret of the administrator's choice.  Every failure ends the program;  *)
(* the remedy is to run it again ("The script is idem-potent", README.md). *)
(*                                                                         *)
(* One action per request.  Harbor is external: it searches projects by a  *)
(* part of their name, lists robots a page at a time, gives a new robot a  *)
(* secret of its own, and refuses to create what exists.                   *)
(***************************************************************************)
EXTENDS Integers

CONSTANTS
    Runs,       \* the invocations of the program
    Secrets,    \* the --secret flags they may be given
    MaxFaults,  \* bound: failing requests and killed programs
    None

\* The robot accounts that Harbor can hold under the name.
HarborSecret == "chosen by Harbor"
Accounts == [id : Int, secret : Secrets \cup {HarborSecret},
             permitted : BOOLEAN, firstPage : BOOLEAN]

ASSUME NoneAssumption == None \notin Secrets /\ None \notin Accounts

VARIABLES
    projects,   \* the projects whose name contains the one asked for
    robot,      \* None, or the robot account of that name
    nextId,     \* the id Harbor gives to the next robot
    pc,         \* per invocation: the request it makes next
    secret,     \* per invocation: --secret
    robotId,    \* per invocation: the robot it is to update
    faults      \* failures so far

harbor == <<projects, robot, nextId>>
vars == <<harbor, pc, secret, robotId, faults>>

Own == "renku-build"
Similar == "renku-build-old"

Requests == {"authenticate", "getProject", "createProject", "getRobots",
             "createRobot", "setSecret"}
Live(i) == pc[i] \in Requests

\* A Harbor that may have a project of a similar name, an earlier robot, one
\* whose permissions name another project, or one beyond the first page.
Robots == [id : {1}, secret : {HarborSecret}, permitted : BOOLEAN,
           firstPage : BOOLEAN]
Init == /\ projects \in SUBSET {Own, Similar}
        /\ robot \in IF Own \in projects THEN Robots \cup {None} ELSE {None}
        /\ nextId = 2
        /\ pc = [i \in Runs |-> "new"]
        /\ secret = [i \in Runs |-> None]
        /\ robotId = [i \in Runs |-> None]
        /\ faults = 0

GoTo(i, l) == pc' = [pc EXCEPT ![i] = l]

\* main reads its flags; with one of them empty it makes no request.
Run(i, s) ==
    /\ pc[i] = "new"
    /\ secret' = [secret EXCEPT ![i] = s]
    /\ GoTo(i, "authenticate")
    /\ UNCHANGED <<harbor, robotId, faults>>

-----------------------------------------------------------------------------
(* The requests.                                                           *)

\* logger.Fatal at a request that fails, or whose answer is lost; the
\* program may as well be killed.
Fail(i) == /\ Live(i)
           /\ faults < MaxFaults
           /\ faults' = faults + 1
           /\ GoTo(i, "fatal")
           /\ UNCHANGED <<harbor, secret, robotId>>

\* The request is carried out although the program does not live to see it.
Answered(i, l) == \/ GoTo(i, l) /\ UNCHANGED faults
                  \/ /\ faults < MaxFaults /\ faults' = faults + 1
                     /\ GoTo(i, "fatal")

Authenticate(i) ==
    /\ pc[i] = "authenticate"
    /\ GoTo(i, "getProject")
    /\ UNCHANGED <<harbor, secret, robotId, faults>>

\* Any project of the search counts; an answer other than 200 or one that
\* is no JSON ends the program with exit code 0.
GetProject(i) ==
    /\ pc[i] = "getProject"
    /\ \/ /\ GoTo(i, IF projects = {} THEN "createProject" ELSE "getRobots")
          /\ UNCHANGED faults
       \/ /\ faults < MaxFaults /\ faults' = faults + 1
          /\ GoTo(i, "returned")
    /\ UNCHANGED <<harbor, secret, robotId>>

CreateProject(i) ==
    /\ pc[i] = "createProject"
    /\ \/ /\ Own \notin projects
          /\ projects' = projects \cup {Own}
          /\ Answered(i, "getRobots")
       \/ /\ Own \in projects
          /\ GoTo(i, "fatal")
          /\ UNCHANGED <<projects, faults>>
    /\ UNCHANGED <<robot, nextId, secret, robotId>>

\* Mutant: the bare name is compared with the one Harbor prefixes.
FoundByBareName == FALSE

\* The robot of the full name with a permission for the project.
Found == robot # None /\ robot.firstPage /\ robot.permitted

GetRobots(i) ==
    /\ pc[i] = "getRobots"
    /\ \/ /\ Own \notin projects
          /\ GoTo(i, "fatal")
          /\ UNCHANGED robotId
       \/ /\ Own \in projects /\ Found
          /\ robotId' = [robotId EXCEPT ![i] = robot.id]
          /\ GoTo(i, "setSecret")
       \/ /\ Own \in projects /\ ~Found
          /\ robotId' = [robotId EXCEPT ![i] = None]
          /\ GoTo(i, "createRobot")
    /\ UNCHANGED <<harbor, secret, faults>>

\* Mutant: a robot of that name is replaced.
CreateRobotAnew(i) ==
    /\ pc[i] = "createRobot"
    /\ robot' = [id |-> nextId, secret |-> HarborSecret, permitted |-> TRUE,
                 firstPage |-> TRUE]
    /\ nextId' = nextId + 1
    /\ robotId' = [robotId EXCEPT ![i] = nextId]
    /\ Answered(i, "setSecret")
    /\ UNCHANGED <<projects, secret>>

\* The answer carries the new id; if it cannot be read the id is 0, which
\* no robot has (the error of Unmarshal is not looked at).
CreateRobot(i) ==
    /\ pc[i] = "createRobot"
    /\ \/ /\ robot = None
          /\ robot' = [id |-> nextId, secret |-> HarborSecret,
                       permitted |-> TRUE, firstPage |-> TRUE]
          /\ nextId' = nextId + 1
          /\ \/ /\ robotId' = [robotId EXCEPT ![i] = nextId]
                /\ Answered(i, "setSecret")
             \/ /\ faults < MaxFaults /\ faults' = faults + 1
                /\ robotId' = [robotId EXCEPT ![i] = 0]
                /\ GoTo(i, "setSecret")
       \/ /\ robot # None
          /\ GoTo(i, "fatal")
          /\ UNCHANGED <<robot, nextId, robotId, faults>>
    /\ UNCHANGED <<projects, secret>>

SetSecret(i) ==
    /\ pc[i] = "setSecret"
    /\ \/ /\ robot # None /\ robot.id = robotId[i]
          /\ robot' = [robot EXCEPT !.secret = secret[i]]
          /\ Answered(i, "done")
       \/ /\ robot = None \/ robot.id # robotId[i]
          /\ GoTo(i, "fatal")
          /\ UNCHANGED <<robot, faults>>
    /\ UNCHANGED <<projects, nextId, secret, robotId>>

Request(i) == \/ Authenticate(i) \/ GetProject(i) \/ CreateProject(i)
              \/ GetRobots(i) \/ CreateRobot(i) \/ SetSecret(i)

Next == \E i \in Runs : \/ \E s \in Secrets : Run(i, s)
                        \/ Request(i)
                        \/ Fail(i)

\* A started program runs on; nobody has to start one.
Fairness == \A i \in Runs : WF_vars(Request(i))

Spec == Init /\ [][Next]_vars /\ Fairness

-----------------------------------------------------------------------------
(* Properties.                                                             *)

\* Once an invocation has succeeded the robot account's secret is one that
\* an administrator gave, and never again the one Harbor made up, whatever
\* other invocations do at the same time and wherever they end.
RobotHasGivenSecret ==
    (\E i \in Runs : pc[i] = "done") =>
        /\ robot # None
        /\ \E i \in Runs : secret[i] # None /\ robot.secret = secret[i]

\* "The script is idem-potent": an invocation that is alone and meets no
\* more failures succeeds, wherever an earlier one ended (also between the
\* creation of the robot and the setting of its secret), unless the search
\* finds another project only, or the robot is not where the script looks.
Alone(i) == \A k \in Runs \ {i} : ~Live(k)
Reachable == /\ Own \in projects \/ projects = {}
             /\ robot # None => robot.firstPage /\ robot.permitted
RerunSucceeds ==
    \A i \in Runs :
        pc[i] = "authenticate" /\ Alone(i) /\ Reachable /\ faults = MaxFaults
            ~> pc[i] = "done" \/ ~Alone(i)
=============================================================================
