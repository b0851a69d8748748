--------------------------- MODULE MCAudioScheduler ---------------------------
(***************************************************************************)
(* The audio scheduler on a small instance.  Times are in half slices      *)
(* (5 ms), so the latency can lie between two slices as in the code.  The  *)
(* scheduler starts with three slices and fills the component up to three; *)
(* the component may lag by one.  The five buffers are just enough.  Seven *)
(* slices let it stop and start a second time and use every buffer.  The   *)
(* decoder stops after the last slice, so the run does not check for       *)
(* deadlock.                                                               *)
(***************************************************************************)
EXTENDS AudioScheduler
=============================================================================
