------------------------ MODULE MCRepetitionPolling ------------------------
EXTENDS RepetitionPolling

\* Two repetitions in one play, or in two: the second finds the host as an
\* abandoned runner of the first left it.
OnePlay == <<1, 1>>
TwoPlays == <<1, 2>>

\* Two repetitions of a workload, or one that a resumed run does again.
Distinct == <<1, 2>>
Repeated == <<1, 1>>

\* Bound: no stop, no poll that times out, and a stream that holds what one
\* runner that finishes writes: the runner of the first play is abandoned with
\* its host.
Abandoned == ~stop /\ pc # "stopping" /\ ~late /\ Len(stream) <= 6
=============================================================================
