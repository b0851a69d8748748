------------------------------ MODULE MCSxQueue ------------------------------
(***************************************************************************)
(* The linked list on a small instance.  Every queue of the pipe has one   *)
(* thread that pushes and one that pulls and asks for the length; here     *)
(* either thread makes any call.  A heap of three nodes lets the list be   *)
(* empty, hold one node and hold several, with a node waiting outside it,  *)
(* and lets freed nodes be allocated again.                                *)
(***************************************************************************)
EXTENDS SxQueue
=============================================================================
