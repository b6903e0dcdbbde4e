-------------------------- MODULE MCRepositoryLease --------------------------
(* Instances of RepositoryLease for TLC.                                   *)
EXTENDS RepositoryLease, TLC

CONSTANTS r1, r2, r3, t1, p, q

\* r1, r2 and the try_acquire t1 share a process, r3 is alone in another.
TwoProcesses == (r1 :> p) @@ (r2 :> p) @@ (t1 :> p) @@ (r3 :> q)

ThreeCalls == (r1 :> p) @@ (r2 :> p) @@ (r3 :> q)

OneProcess == (r1 :> p) @@ (r2 :> p)
=============================================================================
