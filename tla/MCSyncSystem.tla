------------------------------ MODULE MCSyncSystem ------------------------------
(* Instances of SyncSystem for TLC. *)
EXTENDS SyncSystem

OneSpec ==
    [project |-> "p", labels |-> << >>, priority |-> 0, maxAttempts |-> 1,
     resources |-> [cpu |-> 0, memory |-> 0, gpus |-> << >>],
     metrics |-> [loss |-> "percent"], health |-> << >>]

OneTry  == [j \in Jobs |-> OneSpec]
TwoTries == [j \in Jobs |-> [OneSpec EXCEPT !.maxAttempts = 2]]

\* A worker that leaves its parallelism to the default of one.
OneSlot ==
    [w \in Workers |->
        [cpu |-> 0, memory |-> 0, gpuCount |-> 0, gpuSharedSlots |-> 0,
         maxParallel |-> 0, labels |-> << >>, projects |-> {"p"}]]

\* Metric lines: none, a declared metric in range, one out of range, all that are
\* accepted and one longer than 1 MiB, that one alone.
NoLines     == {}
GoodLines   == {[name |-> "loss", unit |-> TRUE]}
OutOfRange  == {[name |-> "loss", unit |-> FALSE]}
AllLines    == GoodLines \cup {SystemSample, TooLong}
LongLines   == {TooLong}

\* The worker numbers its events; ids carry that number.
WorkerIds == Workers \X Seqs

Faultless == [timeout |-> 0, crash |-> 0, reboot |-> 0, server |-> 0]
OneTimeout == [Faultless EXCEPT !.timeout = 1]
Lossy     == [Faultless EXCEPT !.timeout = 1, !.server = 1]
Crashing  == [Faultless EXCEPT !.crash = 1]
Restarting == [Crashing EXCEPT !.timeout = 1, !.reboot = 1]
=============================================================================
