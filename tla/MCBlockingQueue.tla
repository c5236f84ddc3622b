-------------------------- MODULE MCBlockingQueue --------------------------
(* A small instance of BlockingQueue.  It is also checked for liveness, so  *)
(* its threads and items are not declared symmetric.                        *)
EXTENDS BlockingQueue
=============================================================================
