------------------------------- MODULE HealthSweep -------------------------------
(***************************************************************************)
(* The health checks of services: the worker's periodic sweep              *)
(* (tasks/jobs.py, services/health/checker.py) over a table of services    *)
(* that requests change meanwhile (api/v1/services.py).                    *)
(*                                                                         *)
(* A row of health_checks has a soft target_id, is never changed and read  *)
(* by no handler here: what counts is whether one is committed.            *)
(***************************************************************************)
CONSTANT Service   \* identities of services

VARIABLES
    services,  \* the committed services: what a probe would come to
    sweep      \* the transaction of the worker

health == <<services, sweep>>

(* A service is disabled, or its probe has a result (green, yellow or red), *)
(* or it raises what the checker does not catch: httpx.InvalidURL for a     *)
(* path without its slash, OverflowError for a port beyond 65535.  Or it    *)
(* hangs: the five seconds that httpx is given bound each read, not the     *)
(* response, and an endpoint that goes on sending is read to its end.       *)
Probe == {"off", "result", "raises", "hangs"}

\* read: the services of the sweep; bad, hung: those whose probe raises or
\* hangs; a sweep that is over leaves how it has ended.
Sweep == [pc   : {"busy", "committed", "raised", "cut"},
          read : SUBSET Service, bad : SUBSET Service, hung : SUBSET Service]

Ended(how) == [pc |-> how, read |-> {}, bad |-> {}, hung |-> {}]

Busy == sweep.pc = "busy"

Init == /\ services = [v \in {} |-> "off"]
        /\ sweep = Ended("committed")

Put(f, k, v) == [x \in DOMAIN f \cup {k} |-> IF x = k THEN v ELSE f[x]]
Fresh(v)     == v \notin DOMAIN services \cup sweep.read

\* A new service is enabled.
CreateService ==
    /\ \E v \in Service, x \in Probe \ {"off"} :
         Fresh(v) /\ services' = Put(services, v, x)
    /\ UNCHANGED sweep

\* PATCH of the columns that the probe depends on, which nothing validates, or
\* the endpoint changes its ways.
UpdateService ==
    /\ \E v \in DOMAIN services, x \in Probe :
         services' = [services EXCEPT ![v] = x]
    /\ UNCHANGED sweep

\* The copy is disabled.
CloneService ==
    /\ DOMAIN services # {}
    /\ \E v \in Service : Fresh(v) /\ services' = Put(services, v, "off")
    /\ UNCHANGED sweep

\* Alone, or with its site.
DeleteServices ==
    /\ \E V \in SUBSET DOMAIN services :
         services' = [v \in DOMAIN services \ V |-> services[v]]
    /\ UNCHANGED sweep

\* The services a sweep is about.
Selected == {v \in DOMAIN services : services[v] # "off"}

\* Celery beat, every two minutes.  What is probed are the rows as read here.
BeginSweep ==
    /\ ~Busy
    /\ sweep' = [pc |-> "busy", read |-> Selected,
                 bad  |-> {v \in Selected : services[v] = "raises"},
                 hung |-> {v \in Selected : services[v] = "hangs"}]
    /\ UNCHANGED services

\* Mutant: health_checks.target_id with a foreign key to services.
RaisesOnDeleted == sweep.bad # {} \/ ~(sweep.read \subseteq DOMAIN services)

\* An exception comes out of the sweep.
Raises == sweep.bad # {}

\* Each probe has had its result, its timeout or the end of its response: one
\* commit, of all rows.
CommitSweep ==
    /\ Busy /\ ~Raises
    /\ sweep' = Ended("committed")
    /\ UNCHANGED services

\* A probe raises: no row is committed, for any service.
RaiseSweep ==
    /\ Busy /\ Raises
    /\ sweep' = Ended("raised")
    /\ UNCHANGED services

\* What the timeouts of connect and read, of 5 and 3 seconds, bring about; of a
\* response without end they say nothing.
EndSweep == sweep.hung = {} /\ (CommitSweep \/ RaiseSweep)

\* The worker is stopped, or loses its connection.
CutSweep ==
    /\ Busy
    /\ sweep' = Ended("cut")
    /\ UNCHANGED services

Next == \/ CreateService \/ UpdateService \/ CloneService \/ DeleteServices
        \/ BeginSweep \/ CommitSweep \/ RaiseSweep \/ CutSweep

Enabled(v) == v \in DOMAIN services /\ services[v] # "off"

\* No sweep hangs for ever: its endpoints end their responses, or the worker
\* is restarted.  Nothing in the code sees to it: the task has no time limit.
NoneHangsForever == []<>(sweep.hung = {})

\* A service that stays enabled is checked again and again, whatever else is
\* created, edited or deleted under the sweeps: once no enabled service makes
\* its probe raise and none makes it hang for ever, since one of them is
\* enough to lose the results of all, and the worker is no longer cut off.
ServicesWatched ==
    /\ <>[](\A v \in Service : Enabled(v) => services[v] # "raises")
    /\ NoneHangsForever
    /\ <>[][~CutSweep]_health
    => \A v \in Service :
         <>[]Enabled(v) => []<><<CommitSweep /\ v \in sweep.read>>_health
==================================================================================
