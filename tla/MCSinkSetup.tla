----------------------------- MODULE MCSinkSetup -----------------------------
(***************************************************************************)
(* The start-up with the components and ports the sinks create.            *)
(***************************************************************************)
EXTENDS SinkSetup

SinkPorts ==
    [c \in Components |->
        CASE c = "video_decode"                         -> {"130", "131"}
          [] c = "video_scheduler"                      -> {"10", "11", "12"}
          [] c = "video_render"                         -> {"90"}
          [] c \in {audio_render(i) : i \in AudioSinks} -> {"100", "101"}
          [] OTHER                                      -> {"80"}]

SinkClientOf ==
    [c \in Components |->
        CASE c \in {audio_render(1), audio_clock(1)} -> "audio"
          [] c \in {audio_render(2), audio_clock(2)} -> "audio again"
          [] OTHER                                   -> "video"]

SinkInputPort ==
    [c \in Components |->
        CASE c = "video_decode"                         -> "130"
          [] c \in {audio_render(i) : i \in AudioSinks} -> "100"
          [] OTHER                                      -> None]

SinkOutputPort ==
    [c \in Components |-> IF c = "video_decode" THEN "131" ELSE None]
=============================================================================
