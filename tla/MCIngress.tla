------------------------------- MODULE MCIngress -------------------------------
(***************************************************************************)
(* Ingress on a small instance: video behind a clock reference, a clock    *)
(* reference behind video, one of time 0, audio, TS packets of no medium,  *)
(* and a datagram that is an RTP header only.                              *)
(***************************************************************************)
EXTENDS Ingress

Video    == [pid |-> "video", ms |-> 0]
Audio    == [pid |-> "audio", ms |-> 0]
Other    == [pid |-> "other", ms |-> 0]
Clock(t) == [pid |-> "pcr", ms |-> t]

Stream == {<<Clock(1), Video>>, <<Video, Clock(2)>>, <<Clock(0), Audio>>, <<Other>>}

StreamAndEmpty == Stream \cup {<<>>}
=============================================================================
