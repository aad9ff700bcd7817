------------------------------ MODULE MCThread ------------------------------
(***************************************************************************)
(* Two processes.  Process 1 handles signal 1 (EVENT) and queues signal 2; *)
(* process 2 has no handler, so its EVENT signal 1 is queued, and aborts   *)
(* on signal 2.                                                            *)
(***************************************************************************)
EXTENDS Thread

MCPolicy == [p \in Procs |->
               IF p = 1 THEN [s \in Sigs |-> IF s = 1 THEN "EVENT" ELSE "QUEUE"]
                        ELSE [s \in Sigs |-> IF s = 1 THEN "EVENT" ELSE "ABORT"]]

====
