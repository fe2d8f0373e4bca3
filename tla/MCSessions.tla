----------------------------- MODULE MCSessions -----------------------------
(* A small instance of Sessions alone for TLC, to check liveness.          *)
EXTENDS Sessions
=============================================================================
