------------------------------ MODULE MCAccess ------------------------------
(***************************************************************************)
(* What is asked of the panel: by people with a session, by agents with a  *)
(* token, and of a project's database.  They share no state, so a          *)
(* behaviour is one of the three and the variables of the others stay      *)
(* where they begin.                                                       *)
(***************************************************************************)
EXTENDS Sessions, Agent, Console, TLC

CONSTANTS k1, ana, bo, one, two

VARIABLE which \* whose behaviour it is

\* Two requests, two calls or two files.
Symmetry == Permutations({one, two})

SessionsRest == SessionsInit /\ clerk = [kind \in Kinds |-> {}]
AgentRests == AgentInit /\ things = {"volume"}
ConsoleRests == ConsoleInit /\ current = "none" /\ \A store \in Stores : base[store] = Missing

Init ==
  \/ which = "sessions" /\ SessionsInit /\ AgentRests /\ ConsoleRests
  \/ which = "agent" /\ AgentInit /\ SessionsRest /\ ConsoleRests
  \/ which = "console" /\ ConsoleInit /\ SessionsRest /\ AgentRests

SessionsStep == which = "sessions" /\ SessionsNext /\ UNCHANGED <<which, agentVars, consoleVars>>
AgentStep == which = "agent" /\ AgentNext /\ UNCHANGED <<which, sessionsVars, consoleVars>>
ConsoleStep == which = "console" /\ ConsoleNext /\ UNCHANGED <<which, sessionsVars, agentVars>>

Spec ==
  Init /\ [][SessionsStep \/ AgentStep \/ ConsoleStep]_<<which, sessionsVars, agentVars, consoleVars>>
=============================================================================
