----------------------------- MODULE MCHealthHooks -----------------------------
(* Instances of HealthHooks for TLC. *)
EXTENDS HealthHooks, Sequences

Policy(kind, window) == [kind |-> kind, window |-> window, mode |-> "max", delta |-> 1]

\* One policy of each kind.
AllPolicies == <<Policy("periodic", Second), Policy("metric_stalled", Second),
                 Policy("finished", Second)>>
=============================================================================
