----------------------- MODULE MCClusterDescription -----------------------
(* Small instances of the cluster description for TLC.                      *)
EXTENDS ClusterDescription

CONSTANTS n1, n2, b1, b2

State(true, cpu, memory) == [true |-> true, cpu |-> cpu, memory |-> memory]

\* Ready; ready and short of memory, with part of a core; not ready.
ThreeStates == {State(<<"Ready">>, 4000, 16423848),
                State(<<"MemoryPressure", "Ready">>, 7910, 4096),
                State(<<"DiskPressure">>, 2000, 2047)}
First == [n \in Nodes |-> IF n = n1 THEN State(<<"Ready">>, 4000, 16423848)
                          ELSE Missing]

\* The limits are not whole numbers of cores, Mi and Gi.
Limits == [cpu |-> 2500, memory |-> 600 * 1024 + 512, storage |-> 20 * 1024 + 1,
           claims |-> 30]
TwoQuotas == {[cpus |-> 1000, memory |-> 256, storage |-> 10],
              [cpus |-> 1250, memory |-> 300, storage |-> 5]}
=============================================================================
