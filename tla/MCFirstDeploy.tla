--------------------------- MODULE MCFirstDeploy ---------------------------
(***************************************************************************)
(* What must arrive in the end: a first deploy at an ended status, an      *)
(* approved code at the agent that polls for it, one poll at a time.  They *)
(* share no state, so a behaviour is one of the two and the variables of   *)
(* the other stay where they begin.                                        *)
(***************************************************************************)
EXTENDS FirstDeploy

CONSTANTS r1, r2, k1, k2, t1, t2, ana, Local, NoOne, NoCode, NoToken

VARIABLES
  which, \* whose behaviour it is
  clock, login, allowlist, row, holder, poll, opened, mintedFor, grants, handed

Rails == [Gemfile |-> "user", Package |-> "no", Dockerfile |-> "no", deploy |-> "no"]
Trees0 == {Rails, [Rails EXCEPT !.Dockerfile = "user"], [Rails EXCEPT !.Gemfile = "no"]}
Names == <<"WEBO_DEPLOY_TOKEN", "TS_OAUTH_SECRET">>

Flow == INSTANCE DeviceFlow WITH
  Codes <- {k1, k2}, Tokens <- {t1, t2}, People <- {ana}, Requests <- {r1}, Faults <- {},
  TTL <- 1, MaxClock <- 4

flowVars == <<clock, login, allowlist, row, holder, poll, opened, mintedFor, grants, handed>>

\* DeviceFlow's fairness.
FlowFairness ==
  /\ \A c \in {k1, k2} : WF_flowVars(Flow!PollStatus(r1, c))
  /\ WF_flowVars(\E t \in {t1, t2} : Flow!PollInsert(r1, t))
  /\ WF_flowVars(Flow!PollMark(r1)) /\ WF_flowVars(Flow!PollAnswer(r1))

DeployRests == Init /\ commits[1].tree = Rails
FlowRests == Flow!Init /\ ~login /\ allowlist = {}

MCInit ==
  \/ which = "deploy" /\ Init /\ FlowRests
  \/ which = "flow" /\ Flow!Init /\ DeployRests

DeployStep == which = "deploy" /\ Next /\ UNCHANGED flowVars
FlowStep == which = "flow" /\ Flow!Next /\ UNCHANGED vars

MCSpec ==
  /\ MCInit /\ [][UNCHANGED which /\ (DeployStep \/ FlowStep)]_<<which, vars, flowVars>>
  /\ Fairness /\ FlowFairness

\* One poll at a time implements the abstract handover.
KeepsThePromise == Flow!KeepsThePromise

\* An approved code that is polled for is handed over, unless it was pruned first.
ApprovedIsDelivered == Flow!ApprovedIsDelivered
=============================================================================
