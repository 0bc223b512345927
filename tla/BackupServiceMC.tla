-------------------------- MODULE BackupServiceMC --------------------------
(***************************************************************************)
(* Values for the constants of BackupService.                              *)
(***************************************************************************)
EXTENDS BackupStore, TLC

CONSTANTS t1, t2, u1, u2, f, g

\* Any connection carries the requests of any user.
AnyUser == [t \in Conns |-> Users]

\* Each connection carries the requests of one user of its own.
OwnUser == [t \in Conns |-> IF t = t1 THEN {u1} ELSE {u2}]

Exact == {<<n, n>> : n \in Names}

\* f is a prefix of g, as `report` is of `report.txt`.
Prefix == Exact \cup (({f} \X {g}) \cap (Names \X Names))

AllFaults == FaultKinds

Symmetric == Permutations(Conns) \cup Permutations(Contents)

\* With Exact, names are interchangeable as well.
SymmetricNames == Symmetric \cup Permutations(Names)
=============================================================================
