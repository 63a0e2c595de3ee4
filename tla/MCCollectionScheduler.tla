------------------------ MODULE MCCollectionScheduler ------------------------
(***************************************************************************)
(* CollectionScheduler for TLC: the installations that are checked.        *)
(***************************************************************************)
EXTENDS CollectionScheduler, TLC

CONSTANTS a, b, j1, j2, s1, s2

OneModule  == j1 :> a @@ j2 :> a
TwoModules == j1 :> a @@ j2 :> b
OwnJobs    == s1 :> j1 @@ s2 :> j2
SharedJob  == s1 :> j1 @@ s2 :> j1

\* Two jobs of one module, whose collections project onto each other's subscription,
\* and a subscription gate that is switched.
Racing ==
    [module |-> OneModule, job |-> OwnJobs, authorized |-> {}, pausable |-> {a}, stoppable |-> {},
     page |-> 2, global |-> 2, perModule |-> 2, moves |-> 3, commits |-> 2, faults |-> 0]

\* Two subscriptions of one Grant on one job, in a module that is stopped and started.
Sharing ==
    [module |-> OneModule, job |-> SharedJob, authorized |-> {j1}, pausable |-> {}, stoppable |-> {a},
     page |-> 2, global |-> 2, perModule |-> 2, moves |-> 4, commits |-> 1, faults |-> 1]

\* A module that is paused beside one that is not, one task at a time.
Pausing ==
    [module |-> TwoModules, job |-> OwnJobs, authorized |-> {}, pausable |-> {a}, stoppable |-> {},
     page |-> 2, global |-> 1, perModule |-> 1, moves |-> 3, commits |-> 1, faults |-> 1]

\* One module is stopped while a job of the other is due.
Stopping ==
    [module |-> TwoModules, job |-> OwnJobs, authorized |-> {}, pausable |-> {}, stoppable |-> {a},
     page |-> 2, global |-> 2, perModule |-> 2, moves |-> 3, commits |-> 2, faults |-> 0]

MCSites  == {Racing, Sharing, Pausing}
StopSites == {Stopping}
=============================================================================
