--------------------------- MODULE HarborInitProofs ---------------------------
(***************************************************************************)
(* Theorems about HarborInit, for every set of invocations and secrets and *)
(* every number of failures.                                               *)
(*                                                                         *)
(* RobotHasGivenSecret is not inductive alone: that no later request puts  *)
(* the secret made up by Harbor back depends on a robot being created only *)
(* while there is none, and that an invocation sets a secret it was given  *)
(* on the flags being read before the first request.                       *)
(***************************************************************************)
EXTENDS HarborInit, TLAPS

Labels == Requests \cup {"new", "done", "fatal", "returned"}

HarborTypeOK ==
    /\ robot = None \/ robot \in Accounts
    /\ pc \in [Runs -> Labels]
    /\ secret \in [Runs -> Secrets \cup {None}]

\* An invocation that makes requests has read its flags.
FlagsRead == \A i \in Runs : /\ pc[i] = "new" => secret[i] = None
                             /\ pc[i] # "new" => secret[i] \in Secrets

Inv == HarborTypeOK /\ FlagsRead /\ nextId \in Int /\ RobotHasGivenSecret

LEMMA InitInv == Init => Inv
<1> SUFFICES ASSUME Init PROVE Inv
  OBVIOUS
<1>1. robot = None \/ robot \in Accounts
  <2>1. robot = None \/ robot \in Robots
    BY DEF Init
  <2>2. Robots \subseteq Accounts
    BY SMT DEF Robots, Accounts
  <2> QED
    BY <2>1, <2>2
<1>2. pc \in [Runs -> Labels] /\ secret \in [Runs -> Secrets \cup {None}]
  BY DEF Init, Labels
<1>3. FlagsRead /\ nextId \in Int /\ RobotHasGivenSecret
  BY SMT DEF Init, FlagsRead, RobotHasGivenSecret
<1> QED
  BY <1>1, <1>2, <1>3 DEF Inv, HarborTypeOK

\* A request that leaves the robot alone only moves its invocation on.
LEMMA MoveInv ==
  ASSUME Inv, NEW i \in Runs, pc[i] # "new",
         NEW l \in Labels \ {"new", "done"}, pc' = [pc EXCEPT ![i] = l],
         UNCHANGED <<robot, nextId, secret>>
  PROVE  Inv'
  BY SMTT(30) DEF Inv, HarborTypeOK, FlagsRead, RobotHasGivenSecret

LEMMA RunInv ==
  ASSUME Inv, NEW i \in Runs, NEW s \in Secrets, Run(i, s)
  PROVE  Inv'
<1>1. /\ pc[i] = "new" /\ pc' = [pc EXCEPT ![i] = "authenticate"]
      /\ secret' = [secret EXCEPT ![i] = s]
      /\ UNCHANGED <<robot, nextId>>
  BY DEF Run, GoTo, harbor
<1> QED
  BY <1>1, NoneAssumption, SMTT(30)
     DEF Inv, HarborTypeOK, FlagsRead, RobotHasGivenSecret, Labels, Requests

LEMMA CreateInv ==
  ASSUME Inv, NEW i \in Runs, CreateRobot(i)
  PROVE  Inv'
<1>1. pc[i] = "createRobot" /\ UNCHANGED secret
  BY DEF CreateRobot
<1>2. CASE robot # None
  <2>1. pc' = [pc EXCEPT ![i] = "fatal"] /\ UNCHANGED <<robot, nextId>>
    BY <1>2 DEF CreateRobot, GoTo
  <2> QED
    BY <1>1, <2>1, MoveInv DEF Labels
<1>3. CASE robot = None
  <2>1. /\ robot' = [id |-> nextId, secret |-> HarborSecret,
                     permitted |-> TRUE, firstPage |-> TRUE]
        /\ nextId' = nextId + 1
        /\ \/ pc' = [pc EXCEPT ![i] = "setSecret"]
           \/ pc' = [pc EXCEPT ![i] = "fatal"]
    BY <1>3 DEF CreateRobot, GoTo, Answered
  <2>2. \A k \in Runs : pc[k] # "done"
    BY <1>3 DEF Inv, RobotHasGivenSecret
  <2>3. \A k \in Runs : pc'[k] # "done"
    BY <2>1, <2>2 DEF Inv, HarborTypeOK
  <2>4. nextId' \in Int /\ robot' \in Accounts
    BY <2>1, SMT DEF Inv, Accounts
  <2>5. pc' \in [Runs -> Labels] /\ FlagsRead'
    BY <1>1, <2>1, SMT DEF Inv, HarborTypeOK, FlagsRead, Labels, Requests
  <2> QED
    BY <1>1, <2>3, <2>4, <2>5 DEF Inv, HarborTypeOK, RobotHasGivenSecret
<1> QED
  BY <1>2, <1>3

LEMMA SetSecretInv ==
  ASSUME Inv, NEW i \in Runs, SetSecret(i)
  PROVE  Inv'
<1>1. pc[i] = "setSecret" /\ UNCHANGED <<nextId, secret>>
  BY DEF SetSecret
<1>2. CASE robot # None /\ robot.id = robotId[i]
  <2>1. /\ robot' = [robot EXCEPT !.secret = secret[i]]
        /\ \/ pc' = [pc EXCEPT ![i] = "done"]
           \/ pc' = [pc EXCEPT ![i] = "fatal"]
    BY <1>2 DEF SetSecret, GoTo, Answered
  <2>2. secret[i] \in Secrets
    BY <1>1 DEF Inv, FlagsRead
  <2>3. robot' \in Accounts /\ robot'.secret = secret[i]
    BY <1>2, <2>1, <2>2, SMT DEF Inv, HarborTypeOK, Accounts
  <2>4. robot' # None
    BY <2>3, NoneAssumption
  <2>5. pc' \in [Runs -> Labels] /\ FlagsRead'
    BY <1>1, <2>1, SMT DEF Inv, HarborTypeOK, FlagsRead, Labels, Requests
  <2>6. secret[i] # None
    BY <2>2, NoneAssumption
  <2> QED
    BY <1>1, <2>3, <2>4, <2>5, <2>6
       DEF Inv, HarborTypeOK, RobotHasGivenSecret
<1>3. CASE ~(robot # None /\ robot.id = robotId[i])
  <2>1. pc' = [pc EXCEPT ![i] = "fatal"] /\ UNCHANGED robot
    BY <1>3 DEF SetSecret, GoTo
  <2> QED
    BY <1>1, <2>1, MoveInv DEF Labels
<1> QED
  BY <1>2, <1>3

LEMMA StepInv == Inv /\ [Next]_vars => Inv'
<1> SUFFICES ASSUME Inv, [Next]_vars PROVE Inv'
  OBVIOUS
<1>1. ASSUME NEW i \in Runs, NEW s \in Secrets, Run(i, s) PROVE Inv'
  BY <1>1, RunInv
<1>2. ASSUME NEW i \in Runs, Authenticate(i) PROVE Inv'
  BY <1>2, MoveInv DEF Authenticate, GoTo, harbor, Labels, Requests
<1>3. ASSUME NEW i \in Runs, GetProject(i) PROVE Inv'
  <2>1. /\ pc[i] = "getProject" /\ UNCHANGED <<robot, nextId, secret>>
        /\ \E l \in {"createProject", "getRobots", "returned"} :
              pc' = [pc EXCEPT ![i] = l]
    BY <1>3 DEF GetProject, GoTo, harbor
  <2> QED
    BY <2>1, MoveInv DEF Labels, Requests
<1>4. ASSUME NEW i \in Runs, CreateProject(i) PROVE Inv'
  <2>1. /\ pc[i] = "createProject" /\ UNCHANGED <<robot, nextId, secret>>
        /\ \E l \in {"getRobots", "fatal"} : pc' = [pc EXCEPT ![i] = l]
    BY <1>4 DEF CreateProject, Answered, GoTo
  <2> QED
    BY <2>1, MoveInv DEF Labels, Requests
<1>5. ASSUME NEW i \in Runs, GetRobots(i) PROVE Inv'
  <2>1. /\ pc[i] = "getRobots" /\ UNCHANGED <<robot, nextId, secret>>
        /\ \E l \in {"fatal", "setSecret", "createRobot"} :
              pc' = [pc EXCEPT ![i] = l]
    BY <1>5 DEF GetRobots, GoTo, harbor
  <2> QED
    BY <2>1, MoveInv DEF Labels, Requests
<1>6. ASSUME NEW i \in Runs, Fail(i) PROVE Inv'
  <2>1. /\ pc[i] # "new" /\ UNCHANGED <<robot, nextId, secret>>
        /\ pc' = [pc EXCEPT ![i] = "fatal"]
    BY <1>6 DEF Fail, Live, Requests, GoTo, harbor
  <2> QED
    BY <2>1, MoveInv DEF Labels
<1>7. CASE UNCHANGED vars
  BY <1>7 DEF vars, harbor, Inv, HarborTypeOK, FlagsRead, RobotHasGivenSecret
<1> QED
  BY <1>1, <1>2, <1>3, <1>4, <1>5, <1>6, <1>7, CreateInv, SetSecretInv
     DEF Next, Request

\* Whatever happens beside it and wherever it ends, the program never leaves
\* the robot account with the secret Harbor made up once an invocation of it
\* has succeeded.
THEOREM GivenSecretStays == Spec => []RobotHasGivenSecret
<1>1. Inv => RobotHasGivenSecret
  BY DEF Inv
<1> QED
  BY InitInv, StepInv, <1>1, PTL DEF Spec
=============================================================================
