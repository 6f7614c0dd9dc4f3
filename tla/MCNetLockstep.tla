---------------------------- MODULE MCNetLockstep ---------------------------
EXTENDS NetLockstep, TLC

\* Every player presses something else on every frame.
DistinctInputs == [c \in Client |-> [n \in 0 .. MaxFrame |-> {1 + c + 2 * n}]]

\* The throttles a run may use.
SkipOnly == {-1}
PadOnly == {1}
=============================================================================
