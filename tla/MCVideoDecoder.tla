--------------------------- MODULE MCVideoDecoder ---------------------------
(***************************************************************************)
(* The slice assembly on a small instance.  Three slices of up to three    *)
(* datagrams: a slice can lose its beginning, its middle or its end, and   *)
(* still be preceded or followed by an intact one.  With counters modulo 3 *)
(* and datagrams of one or two TS packets the counter wraps inside a slice *)
(* and between slices; up to two TS packets in a row are lost.  The source *)
(* stops after the last slice, so the runs do not check for deadlock.      *)
(***************************************************************************)
EXTENDS VideoDecoder
=============================================================================
