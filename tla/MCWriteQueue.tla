---------------------------- MODULE MCWriteQueue -----------------------------
(* The write queue with a small pool of web server threads.                *)
EXTENDS WriteQueue
==============================================================================
