------------------------------- MODULE Scaling -------------------------------
(* The scaling policy of the Global Controller for one agent.  Every poll records a
   sample of the agent, and then the policy reads the last samples and changes the
   desired count, which the reconciler follows.  A reload of the config sets the desired
   count back to the configured one, also between the two (SIGHUP interrupts the poll).

   A load is how the policy's metric compares with its two thresholds: "steady" is between
   them, or no number at all.  A poll that raises before its end records nothing, and the policy
   then reads the samples of earlier polls.  Bounds: one agent, MaxReloads reloads,
   MaxFailures such polls, a policy that is not edited; counts up to MaxDesired.  *)
EXTENDS Integers, Sequences

CONSTANTS Window, MinReplicas, MaxReplicas, Configured, MaxDesired, MaxReloads, MaxFailures

VARIABLES
    desired,  \* {agent}:desired in Redis
    running,  \* replicas with metrics that do not drain
    samples,  \* newest first
    polled,   \* whether a poll waits for the policy
    reloads, failures,
    fresh,    \* whether that poll recorded a sample
    since     \* polls since the policy last took a step; a reload it has not sampled starts it anew

vars == <<desired, running, samples, polled, reloads, failures, fresh, since>>

Counts == 0..MaxDesired

\* What a rate or an average over two polls comes to.
Loads == {"low", "steady", "high"}

ScalingTypeOK ==
    /\ desired \in Counts /\ running \in Counts
    /\ samples \in UNION {[1..n -> [expected : Counts, running : Counts, load : Loads]] : n \in 0..Window}
    /\ polled \in BOOLEAN /\ fresh \in BOOLEAN
    /\ reloads \in 0..MaxReloads /\ failures \in 0..MaxFailures /\ since \in 0..Window

ScalingInit ==
    /\ desired = Configured /\ running = Configured
    /\ samples = <<>> /\ polled = FALSE /\ fresh = FALSE
    /\ reloads = 0 /\ failures = 0 /\ since = Window

\* _poll_controllers counts the replicas whose metrics it could read.
Answering == {n \in Counts : n <= running}

\* contract.push keeps the newest ones.
Push(sample) ==
    samples' = SubSeq(<<sample>> \o samples, 1, IF Len(samples) < Window THEN Len(samples) + 1 ELSE Window)

\* _record_agent_samples.
Sample ==
    /\ ~polled /\ polled' = TRUE /\ fresh' = TRUE
    /\ \E load \in Loads, n \in Answering :
          Push([expected |-> desired, running |-> n, load |-> load])
    /\ since' = IF since = Window THEN Window ELSE since + 1
    /\ UNCHANGED <<desired, running, reloads, failures>>

\* _poll_controllers raises: run logs it and goes on to the policy.
FailPoll ==
    /\ ~polled /\ polled' = TRUE /\ fresh' = FALSE
    /\ failures < MaxFailures /\ failures' = failures + 1
    /\ UNCHANGED <<desired, running, samples, reloads, since>>

Current == samples[1].expected

\* Mutant of Settled: every sample has what it expects, whichever count that is.
SettledEach == Len(samples) = Window /\ \A i \in 1..Window : samples[i].running = samples[i].expected

\* A full window at one steady count doubles as the cooldown after the last change.
Settled ==
    /\ Len(samples) = Window
    /\ \A i \in 1..Window : samples[i].expected = Current /\ samples[i].running = Current

All(load) == \A i \in 1..Window : samples[i].load = load

\* _decide: back inside the bounds first, then one step when every sample breaches.
Delta ==
    IF Current < MinReplicas THEN MinReplicas - Current
    ELSE IF Current > MaxReplicas THEN MaxReplicas - Current
    ELSE IF ~Settled THEN 0
    ELSE IF All("high") /\ Current < MaxReplicas THEN 1
    ELSE IF All("low") /\ Current > MinReplicas THEN -1 ELSE 0

Bounded(n) == IF n < 0 THEN 0 ELSE IF n > MaxDesired THEN MaxDesired ELSE n

\* policy_error: an invalid policy changes nothing.
ValidPolicy == MinReplicas >= 1 /\ MinReplicas <= MaxReplicas

\* _apply_scaling adds the change to the count there is now, and set_desired keeps it
\* from going below zero.
Apply ==
    /\ polled /\ polled' = FALSE
    /\ desired' = Bounded(desired + IF ValidPolicy /\ samples # <<>> THEN Delta ELSE 0)
    /\ since' = IF desired' = desired THEN since ELSE IF desired = Current THEN 0 ELSE Window
    /\ fresh' = FALSE
    /\ UNCHANGED <<running, samples, reloads, failures>>

\* reload_config, _apply_configured_replicas.
Reload ==
    /\ reloads < MaxReloads /\ reloads' = reloads + 1
    /\ desired' = Configured /\ since' = Window
    /\ UNCHANGED <<running, samples, polled, failures, fresh>>

\* A replica starts, stops, or falls out by itself.
Reconcile ==
    /\ running' \in {running - 1, running + 1} \cap Counts
    /\ running' > running => running < desired
    /\ UNCHANGED <<desired, samples, polled, reloads, failures, fresh, since>>

(******************************* specification ********************************)
ScalingNext == Sample \/ FailPoll \/ Apply \/ Reload \/ Reconcile

ScalingSpec == ScalingInit /\ [][ScalingNext]_vars

(********************************* properties *********************************)
InBounds(n) == n \in MinReplicas..MaxReplicas
Steps == polled /\ ~polled' /\ desired' # desired

\* _decide, "doubles as the cooldown": two steps of the policy inside its bounds are a full
\* window of samples apart, unless a reload came between them or the poll recorded nothing.
CoolsDown == [][Steps /\ fresh /\ InBounds(Current) => since >= Window]_vars
=============================================================================
