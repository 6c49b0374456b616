------------------------ MODULE MCVarianceAccumulator ------------------------
(***************************************************************************)
(* Small instances of VarianceAccumulator for TLC.                         *)
(***************************************************************************)
EXTENDS VarianceAccumulator

\* Distinguishes any two of the prices used, and is zero for equal ones.
MCSquaredReturn(previous, price) == (price - previous) * (price - previous)

Round(at, answer) == [at |-> at, answer |-> answer, whole |-> TRUE]

\* One phase with a round before the window.
OneRound == << <<Round(1, 1)>> >>

\* A phase with a history long enough for probes to overshoot.
LongPhase == << <<Round(1, 1), Round(1, 2), Round(1, 3)>> >>

\* A new phase starts empty.
FreshPhases == { <<>> }

\* A new phase may also come with rounds of its aggregator's own history,
\* older and newer than the window's start.
AnyPhases == { <<>>, <<Round(1, 3), Round(4, 2)>>, <<Round(4, 3)>> }
=============================================================================
