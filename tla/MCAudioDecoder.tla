---------------------------- MODULE MCAudioDecoder ----------------------------
(***************************************************************************)
(* The audio decoder on a small instance.  Three slices of three units, in *)
(* datagrams of one to three units: a slice can lose its beginning, its    *)
(* middle or its end between two others.  Sequence numbers modulo 3 wrap   *)
(* inside and between slices; up to two datagrams in a row are lost or     *)
(* carry video.  The source stops after the last slice, so the runs do not *)
(* check for deadlock.                                                     *)
(***************************************************************************)
EXTENDS AudioDecoder
=============================================================================
