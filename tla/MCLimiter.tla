------------------------------ MODULE MCLimiter -----------------------------
(* Small instances of Limiter: jobs of two priorities and two weights. *)
EXTENDS Limiter

ThreeJobs == 1..3
ThreePriorities == <<1, 1, 2>>
ThreeWeights == <<1, 2, 1>>

FourJobs == 1..4
FourPriorities == <<1, 2, 1, 3>>
FourWeights == <<1, 2, 1, 1>>
=============================================================================
