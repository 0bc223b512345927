--------------------------- MODULE RegistrationMC ---------------------------
(* Constants for TLC.                                                      *)
EXTENDS Registration, TLC

CONSTANTS t1, t2, ann, bob, k1, k2, i1, i2

\* Each name on a connection of its own.
Apart == t1 :> {ann} @@ t2 :> {bob}

\* Two connections that carry the same name.
Together == t1 :> {ann} @@ t2 :> {ann}

\* Connections that carry the same name, and public keys, are interchangeable.
Symmetry == Permutations({t1, t2}) \cup Permutations({k1, k2})

AllFaults == {"db", "disk", "send", "crash"}
=============================================================================
