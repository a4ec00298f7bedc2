------------------------ MODULE MCMemcachedThreads --------------------------
(* Settings of the small instance of MemcachedThreads.                     *)
EXTENDS MemcachedThreads

\* One worker for all connections, and two with room for one conn.
SmallSettings ==
  {[num_threads |-> 1, maxconns |-> 1024, maxconns_fast |-> FALSE, reqs_per_event |-> 1],
   [num_threads |-> 2, maxconns |-> 12, maxconns_fast |-> TRUE, reqs_per_event |-> 1]}

\* Two workers get a connection each; one worker gets two, and three commands
\* and a half on one of them.
SmallArrivals == <<2, 2>>
SmallBytes == <<7, 0>>
=============================================================================
