----------------------------- MODULE MCDelivery -----------------------------
(***************************************************************************)
(* The retried work of the background worker: the deliveries of one user,  *)
(* or the metrics of one account.  They share no state, and one of them is *)
(* at rest throughout.                                                     *)
(***************************************************************************)
EXTENDS Delivery, TLC

CONSTANTS d1, failed, s1, s2,
          p1, p2, Gone, BatchSize, MaxBackoff

VARIABLES work, rank, since, failures, pass, hour, blocked, connected

OneType == [d \in {d1} |-> failed]

\* A post of the last day and an older one.
Metrics == INSTANCE AnalyticsSync WITH
  Posts <- {p1, p2}, Cadence <- (p1 :> 1) @@ (p2 :> 2), age <- since

metrics == <<rank, since, failures, pass, hour, blocked, connected>>

MCInit ==
  /\ work \in {"deliveries", "metrics"}
  /\ Init /\ Metrics!Init

MCNext ==
  /\ UNCHANGED work
  /\ \/ work = "deliveries" /\ Next /\ UNCHANGED metrics
     \/ work = "metrics" /\ Metrics!Next /\ UNCHANGED vars

\* The fairness of the one that is at work.
MCFairness ==
  /\ \A d \in Deliveries : /\ WF_vars(work = "deliveries" /\ Sending(d))
                           /\ WF_vars(work = "deliveries" /\ BackoffEnds(d))
  /\ WF_vars(work = "deliveries" /\ \E s \in Sweeps : StartSweep(s))
  /\ \A s \in Sweeps : WF_vars(work = "deliveries" /\ Sweeping(s))
  /\ WF_vars(work = "deliveries" /\ Tick)
  /\ WF_metrics(work = "metrics" /\ Metrics!Tick)
  /\ SF_metrics(work = "metrics" /\ Metrics!Answer("hourly"))

MCSpec == MCInit /\ [][MCNext]_<<work, vars, metrics>> /\ MCFairness

-----------------------------------------------------------------------------
(* The property of the metrics, stated and explained in AnalyticsSync.     *)

EveryPostIsReached == Metrics!EveryPostIsReached
=============================================================================
