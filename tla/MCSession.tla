------------------------------ MODULE MCSession ------------------------------
(***************************************************************************)
(* Session for TLC: the clients of the runs, by the calls they make besides *)
(* submits.  The queues hold one item (QueueCapa = 1), so that every stage  *)
(* meets a full and an empty queue.                                         *)
(***************************************************************************)
EXTENDS Session

Anything == AllCalls
Polling  == {"isDone", "pollText", "pollPcm"}
PollingOrCancel == Polling \cup {"cancel"}
=============================================================================
