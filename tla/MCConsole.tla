------------------------------- MODULE MCConsole -------------------------------
(* An instance of Console for TLC: a job with two attempts and a policy that fires
   when one ends, and a worker that runs one attempt at a time. *)
EXTENDS Console

OneJob ==
    [j \in Jobs |->
        [project |-> "p", labels |-> << >>, priority |-> 0, maxAttempts |-> 2,
         resources |-> [cpu |-> 0, memory |-> 0, gpus |-> << >>],
         metrics |-> [loss |-> "number"],
         health |-> <<[kind |-> "finished", target |-> "hook"]>>]]

OneWorker ==
    [w \in Workers |->
        [cpu |-> 0, memory |-> 0, gpuCount |-> 0, gpuSharedSlots |-> 0,
         maxParallel |-> 0, labels |-> << >>, projects |-> {"p"}]]

\* Two sessions, one of which may expire while the other begins; a page needs one.
Logins == [get |-> 0, wait |-> 0, browser |-> 1, visitor |-> 2]

OnePoint == {[name |-> "loss", unit |-> TRUE]}
=============================================================================
