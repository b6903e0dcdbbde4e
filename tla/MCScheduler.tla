----------------------------- MODULE MCScheduler -----------------------------
(* Instances of Scheduler for TLC.                                         *)
EXTENDS Scheduler, TLC

CONSTANTS a, b, c, d

\* a and c are free; d waits for a and is never dispatched.
Fork == (a :> {}) @@ (c :> {}) @@ (d :> {a})

ForkSeed ==
  [t \in Tasks |-> IF t = d THEN "Unverified" ELSE "Planned"]

\* c waits for both a and b.
Join2 == (a :> {}) @@ (b :> {}) @@ (c :> {a, b})

Free == (a :> {}) @@ (b :> {})

AllPlanned == [t \in Tasks |-> "Planned"]
=============================================================================
