------------------------------ MODULE JobLifecycle ------------------------------
(* What the control plane promises whoever submits jobs, and nothing of how:  *)
(* the state a job shows and how many of its attempts have failed.  Several    *)
(* jobs may move at once, because one worker sync commits many events.        *)
EXTENDS Integers

CONSTANTS
    Jobs,
    Budget      \* Jobs -> the attempts a job may use

VARIABLES
    state,      \* what the job shows
    failures    \* failed attempts so far

Init ==
    /\ state = [j \in Jobs |-> "absent"]
    /\ failures = [j \in Jobs |-> 0]

Submit(j) ==
    /\ state[j] = "absent"
    /\ state' = [state EXCEPT ![j] = "queued"]
    /\ UNCHANGED failures

\* A job is canceled at once or, when a worker holds it, starts to be.
Cancel(j) ==
    /\ state[j] \in {"queued", "running"}
    /\ \E s \in {"canceling", "canceled"} : state' = [state EXCEPT ![j] = s]
    /\ UNCHANGED failures

\* What one sync may do to a job: s and f become t and g.
Progress(s, f, t, g, budget) ==
    \/ t = s /\ g = f
    \/ s = "canceling" /\ t = "canceled" /\ g = f
    \/ s = "queued" /\ t = "running" /\ g = f
    \/ /\ s \in {"queued", "running"}
       /\ \/ t = "succeeded" /\ g = f
          \/ t = "queued" /\ g = f + 1 /\ g < budget
          \/ t = "failed" /\ g = f + 1 /\ g = budget

Report ==
    /\ DOMAIN state' = Jobs /\ DOMAIN failures' = Jobs
    /\ \A j \in Jobs :
           Progress(state[j], failures[j], state'[j], failures'[j], Budget[j])

Next ==
    \/ \E j \in Jobs : Submit(j) \/ Cancel(j)
    \/ Report

Spec == Init /\ [][Next]_<<state, failures>>
=============================================================================
