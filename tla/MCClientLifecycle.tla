-------------------------- MODULE MCClientLifecycle --------------------------
(* One Client whose outgoing queue holds a single message, so that callbacks  *)
(* do block in it.                                                            *)
EXTENDS ClientLifecycle
=============================================================================
