---------------------------- MODULE MCSemaphore ----------------------------
(***************************************************************************)
(* A few calls on fewer slots; the cfgs give the constants their values.    *)
(***************************************************************************)
EXTENDS Semaphore
=============================================================================
