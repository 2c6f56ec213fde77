------------------------------- MODULE WorkerJobs -------------------------------
(***************************************************************************)
(* The two sweeps in the one pool of worker processes: that of PeerFleet   *)
(* over the peers, and that of HealthSweep over the services.  A job waits *)
(* in the broker until a process is free.                                  *)
(***************************************************************************)
EXTENDS PeerFleet

CONSTANTS
    Service,  \* identities of services
    Pool      \* number of worker processes

ASSUME PoolAssumption == Pool \in Nat \ {0}

VARIABLES services, sweep

Health == INSTANCE HealthSweep

all == <<vars, services, sweep>>

Running == (IF task[Worker].pc # "idle" THEN 1 ELSE 0)
           + (IF Health!Busy THEN 1 ELSE 0)

\* A step of one component, with at most as many jobs as processes after it.
FleetStep(A)  == A /\ UNCHANGED <<services, sweep>> /\ Running' <= Pool
HealthStep(A) == A /\ UNCHANGED vars /\ Running' <= Pool

JobsInit == Init /\ Health!Init
JobsNext == FleetStep(Next) \/ HealthStep(Health!Next)

\* Beat queues both jobs for ever and the broker keeps their order; a staleness
\* sweep that is cut off is tried again, and not every one is.  Of the health
\* sweep only what its timeouts bring about: one that hangs has the process for
\* as long as the endpoint likes, and no time limit of Celery ends it.
JobsSpec == /\ JobsInit /\ [][JobsNext]_all
            /\ SF_all(FleetStep(BeginSweep))
            /\ SF_all(FleetStep(SelectPeers)) /\ SF_all(FleetStep(CommitSweep))
            /\ SF_all(HealthStep(Health!BeginSweep))
            /\ WF_all(HealthStep(Health!EndSweep))

\* The mark of a peer settles (PeerFleet) although the sweep that clears it
\* waits for the process of the other: if that one does not hang for ever.
MarkSettles == Health!NoneHangsForever => StatusSettles

\* The health sweep gets its turn beside the other one (HealthSweep).
ServicesWatched == Health!ServicesWatched
=================================================================================
