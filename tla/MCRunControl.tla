---------------------------- MODULE MCRunControl -----------------------------
(* Instances of RunControl for TLC.  Commands are interchangeable but for  *)
(* what they request, so one order of each mix is enough.                  *)
EXTENDS RunControl, Sequences

CONSTANTS r1, r2

Mix(kinds, runs) == [c \in Commands |-> [kind |-> kinds[c], run |-> runs[c]]]

Order == <<"start", "pause", "cancel", "retry", "reset">>

Place(k) == CHOOSE i \in 1..5 : Order[i] = k

OneRun == <<r1, r1, r1, r1>>

\* Two commands of r1 and one of r2.
TwoRuns == <<r1, r1, r2>>

Sorted(kinds, n) == \A i, j \in 1..n : i < j => Place(kinds[i]) <= Place(kinds[j])

\* Any three commands of one run, and any two of one run and one of another.
AnyThree ==
  LET kinds == [Commands -> CommandKinds] IN
  {Mix(k, OneRun) : k \in {x \in kinds : Sorted(x, 3)}}
    \cup {Mix(k, TwoRuns) : k \in {x \in kinds : Sorted(x, 2)}}

\* Started, paused, resumed while it drains, cancelled.
ResumeCancelled == {Mix(<<"start", "pause", "start", "cancel">>, OneRun)}

\* Cancelled, retried, cancelled again.
RetryCancelled == {Mix(<<"cancel", "retry", "cancel">>, OneRun)}

\* A run starts, another is reset, the first is cancelled.
ResetBesideStart == {Mix(<<"start", "cancel", "reset">>, <<r1, r1, r2>>)}
=============================================================================
