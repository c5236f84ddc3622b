----------------------------- MODULE MCSafeUMap -----------------------------
(* A small instance of SafeUMap.  It is also checked for liveness, so its   *)
(* threads, keys and objects are not declared symmetric.                    *)
EXTENDS SafeUMap
=============================================================================
