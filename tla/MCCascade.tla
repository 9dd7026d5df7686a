----------------------------- MODULE MCCascade -----------------------------
(* Instances of Cascade for TLC.  The jobs there can be are named one by    *)
(* one: in the run, a job has one job to queue for each of its nodes, and    *)
(* finds it again when it reads a page a second time.                        *)
EXTENDS Cascade, Integers, TLC

\* A folder and a query, which both have the permission item 2.
Small == 1 :> {} @@ 2 :> {1, 3} @@ 3 :> {}

\* A folder with two folders or files.
TwoItems == 1 :> {} @@ 2 :> {1} @@ 3 :> {1}

\* A job's number is that of the job above it, if there is one, and its node's: 12 is
\* the job of node 2 that job 1 queues.
JobTargets == [j \in Jobs |-> j % 10]
JobParents == [j \in Jobs |-> j \div 10]
JobsAbove == [j \in Jobs |-> {j \div 10, j \div 100} \ {0}]
=============================================================================
