------------------------- MODULE MCSchedulerLease -------------------------
(* Model-checking instance of SchedulerLease: two schedulers on one host,  *)
(* one on another.                                                         *)
EXTENDS SchedulerLease, TLC

CONSTANTS i1, i2, i3

\* The job clock is ahead of the first host's and behind the second's, and the
\* clocks of the hosts differ.
MCJobClock == i1 :> 1 @@ i2 :> 1 @@ i3 :> 0
MCLocalClock == i1 :> 0 @@ i2 :> 0 @@ i3 :> 1

\* The script runs on the first host: the scheduler of the other is dead to it.
MCViews == {{i1, i2}}

MCHost == i1 :> "h1" @@ i2 :> "h1" @@ i3 :> "h2"

\* The two schedulers of the first host are interchangeable.
Symmetry == Permutations({i1, i2})
=============================================================================
