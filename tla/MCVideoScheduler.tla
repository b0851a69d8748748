-------------------------- MODULE MCVideoScheduler --------------------------
(***************************************************************************)
(* VideoScheduler on a small instance: three slices for two places in      *)
(* SLICE_READY and three hardware buffers, one slice needing two of them.  *)
(***************************************************************************)
EXTENDS VideoScheduler

SliceParts == <<1, 2, 1>>
=============================================================================
