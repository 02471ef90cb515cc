------------------------------ MODULE MCTimer ------------------------------
(* An instance of Timer for TLC: the builds that read the clock in         *)
(* different ways ("tick64" reads it as "posix" does), a counter that      *)
(* wraps within the time of the run, intervals of zero and of two.         *)
EXTENDS Timer

Readings == AllBuilds \ {"tick64"}
=============================================================================
