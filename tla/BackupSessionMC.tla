-------------------------- MODULE BackupSessionMC --------------------------
(***************************************************************************)
(* Values for the constants of BackupSession.                              *)
(***************************************************************************)
EXTENDS BackupSession, TLC

CONSTANTS t1, u1

OwnUser == [t \in Conns |-> {u1}]
Exact == {<<n, n>> : n \in Names}
AllFaults == FaultKinds
=============================================================================
