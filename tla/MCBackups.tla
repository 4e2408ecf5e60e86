----------------------------- MODULE MCBackups -----------------------------
(* Backups on a small instance.                                             *)
EXTENDS Backups, TLC

CONSTANTS agent, a

\* An agent, or the panel, takes dumps, runs statements and restores, one at a
\* time; what a request that hung up left running goes on beside the next.
MayDo == agent :> {"create", "query", "restore"} @@ Daily :> {"daily"}
=============================================================================
