------------------------------ MODULE SinkSetup ------------------------------
(***************************************************************************)
(* How the program starts: main() initialises every part, which creates    *)
(* the hardware components of the video sink and, twice, those of the      *)
(* audio sink; then it opens every part, that is, creates their threads.   *)
(* After that the video scheduler thread connects the decoder component to *)
(* the scheduler component when the format of the stream is known.         *)
(***************************************************************************)
EXTENDS IlClient

VARIABLES
    initialised,    \* the parts whose initialisation has begun
    opened,         \* the threads created
    port_setting_changed

program == <<initialised, opened, port_setting_changed>>
vars    == <<ilvars, program>>

\* The components of the sinks.  The audio sink is initialised twice, and each time
\* creates its own; the second time the pointer to the first is overwritten.
AudioSinks == {1, 2}
audio_render(i) == IF i = 1 THEN "audio_render" ELSE "audio_render again"
audio_clock(i)  == IF i = 1 THEN "audio_clock" ELSE "audio_clock again"

ASSUME SinkComponents ==
    /\ {"video_decode", "video_render", "video_clock", "video_scheduler"} \subseteq Components
    /\ {"130", "131"} \subseteq Ports["video_decode"] /\ InputPort["video_decode"] = "130"
    /\ "80" \in Ports["video_clock"] /\ {"10", "12"} \subseteq Ports["video_scheduler"]
    /\ \A i \in AudioSinks :
        /\ {audio_render(i), audio_clock(i)} \subseteq Components
        /\ {"100", "101"} \subseteq Ports[audio_render(i)] /\ InputPort[audio_render(i)] = "100"
        /\ "80" \in Ports[audio_clock(i)]

DecodeToScheduler == <<<<"video_decode", "131">>, <<"video_scheduler", "10">>>>
ClockToScheduler  == <<<<"video_clock", "80">>, <<"video_scheduler", "12">>>>
ClockToRender(i)  == <<<<audio_clock(i), "80">>, <<audio_render(i), "101">>>>

Setting   == <<Step("configure", None, None, None)>> \o Demand

(***************************************************************************)
(* The sinks                                                               *)
(***************************************************************************)
Create(c) == CreateComponent(c) \o Demand

\* Whether the state changes work is not looked at.
sx_video_sink_init ==
    <<Step("OMX_Init", None, None, None)>> \o Demand
        \o Create("video_decode") \o Create("video_render") \o Create("video_clock") \o Setting
        \o Create("video_scheduler")
        \o SetupTunnel(ClockToScheduler) \o Demand
        \o ChangeState("video_clock", "Executing")
        \o Setting
        \o ChangeState("video_decode", "Idle")
        \o Setting
        \o EnablePortBuffers("video_decode", "130") \o Demand
        \o ChangeState("video_decode", "Executing")

\* If the buffers cannot be had, what was created is given back; the clock still
\* executes then, and its tunnel is still there.
audioplay_create(i) ==
    LET render == audio_render(i)
    IN  <<Step("OMX_Init", None, None, None)>> \o Demand
            \o Create(render) \o Create(audio_clock(i)) \o Setting
            \o SetupTunnel(ClockToRender(i)) \o Demand
            \o ChangeState(audio_clock(i), "Executing")
            \o Setting
            \o ChangeState(render, "Idle")
            \o EnablePortBuffers(render, "100")
            \o IfOk(ChangeState(render, "Executing") \o Return(0),
                    ChangeState(render, "Loaded")
                        \o CleanupComponents(render) \o CleanupComponents(audio_clock(i))
                        \o <<Step("OMX_Deinit", None, None, None)>> \o Demand \o Return(-1))

\* audioplay_set_dest() is one more setting.
sx_audio_sink_init(i) == audioplay_create(i) \o Demand \o Setting

(***************************************************************************)
(* mgmt_sys                                                                *)
(***************************************************************************)
Parts == <<"pipe", "data", "m2ts_decoder", "video_decoder", "video_scheduler",
           "audio_decoder", "audio_scheduler">>

Threads == <<"pkt_rv", "pkt_process", "video_decoder", "video_scheduler", "slice_packing",
             "pcr_update", "audio_decoder", "audio_scheduler", "mgmt_sys">>

mgmt_sys_init == [i \in DOMAIN Parts |-> Step("call", None, Parts[i], None)]
mgmt_sys_open == [i \in DOMAIN Threads |-> Step("open", None, Threads[i], None)]

\* What the initialisation of a part does to the hardware, and the socket; the queues
\* and the variables of the decoders are set at once.
Body(part) ==
    CASE part = "data"            -> Setting
      [] part = "video_scheduler" -> sx_video_sink_init
      [] part = "audio_decoder"   -> sx_audio_sink_init(1)
      [] part = "audio_scheduler" -> sx_audio_sink_init(2)
      [] OTHER                    -> <<>>

Init ==
    /\ InitIlClient
    /\ todo = mgmt_sys_init \o mgmt_sys_open
    /\ initialised = {} /\ opened = {} /\ port_setting_changed = FALSE

Initialise ==
    /\ At("call")
    /\ todo' = Body(Head(todo).a) \o Tail(todo)
    /\ initialised' = initialised \cup {Head(todo).a}
    /\ UNCHANGED <<ret, status, library, components, opened, port_setting_changed>>

\* The last thread is the one main() shall wait for.
sx_thread_create ==
    /\ At("open")
    /\ opened' = opened \cup {Head(todo).a}
    /\ todo' = Tail(todo)
    /\ status' = IF Tail(todo) = <<>> THEN "running" ELSE status
    /\ UNCHANGED <<ret, library, components, initialised, port_setting_changed>>

\* sx_thread_join() gets the address of the thread id where the id is due.  What
\* pthread_join() does with it is undefined: it may wait, or return at once; then
\* main() returns and the process ends.
sx_thread_join ==
    /\ status = "running"
    /\ status' = "exited" /\ todo' = <<>>
    /\ UNCHANGED <<ret, library, components, program>>

\* sx_video_sink_buf_set(), by the video scheduler thread: the first time the decoder
\* has reported its format the tunnel is set up.
sx_video_sink_buf_set ==
    /\ status = "running" /\ todo = <<>>
    /\ todo' = IF port_setting_changed THEN <<>>
               ELSE RemoveEvent("video_decode", Changed("131"))
                        \o IfOk(<<Step("settings", None, None, None)>>, <<>>)
    /\ UNCHANGED <<ret, status, library, components, program>>

\* The assertion after the set-up assigns 0 to rc: it fails, whatever came of the tunnel.
SettingsChanged ==
    /\ At("settings")
    /\ port_setting_changed' = TRUE
    /\ todo' = SetupTunnel(DecodeToScheduler) \o Return(-1) \o Demand
    /\ UNCHANGED <<ret, status, library, components, initialised, opened>>

Main ==
    \/ Thread /\ UNCHANGED program
    \/ Initialise \/ sx_thread_create \/ SettingsChanged

Next ==
    \/ Main \/ sx_thread_join \/ sx_video_sink_buf_set
    \/ \E c \in Components : Hardware(c) /\ UNCHANGED program

\* The threads run, and the hardware carries out what it can.
Fairness ==
    /\ WF_vars(Main)
    /\ \A c \in Components : WF_vars(Alive /\ Serve(c) /\ UNCHANGED program)

Spec == Init /\ [][Next]_vars /\ Fairness

------------------------------------------------------------------------------
(***************************************************************************)
(* Correctness                                                             *)
(***************************************************************************)
Events ==
    (UNION {{Done(cmd, x) : x \in States \cup UNION {Ports[c] : c \in Components}} :
               cmd \in {"StateSet", "PortEnable", "PortDisable"}})
        \cup {Failure(why) : why \in {"SameState", "IncorrectStateTransition",
                                      "InsufficientResources"}}
        \cup {Unpopulated, Corrupt} \cup {Changed(p) : p \in UNION {Ports[c] : c \in Components}}

TypeOK ==
    /\ ret \in {0, -1, -2, -5} /\ status \in {"starting", "running", "aborted", "exited"}
    /\ \A c \in Components :
        /\ ToSet(list[c]) \subseteq Events
        /\ flags[c] \subseteq {"StateSet", "PortEnable", "PortDisable", "Error",
                               "ParameterChanged"}
        /\ related[c] \in Components \cup {None}
        /\ in_list[c] \in 0..used[c] /\ used[c] \in 0..NumBufs
        /\ cstate[c] \in States
        /\ \A i \in DOMAIN cmds[c] : Done(cmds[c][i].cmd, cmds[c][i].x) \in Events
    /\ error_mask \subseteq Components
    /\ coreInit \in 0..3
    /\ enabled \subseteq PortPairs
    /\ peer \in [PortPairs -> PortPairs \cup {NoPort}]
    /\ faults \in 0..MaxFaults /\ reports \in 0..MaxReports
    /\ initialised \subseteq ToSet(Parts) /\ opened \subseteq ToSet(Threads)
    /\ port_setting_changed \in BOOLEAN

\* The assertion of ilclient_event_handler() holds: however often the components
\* report, and whatever the program leaves on the lists, removing the duplicates
\* leaves a cell for the next event of any component (ilclient.c:1425-1454).
EventLeft == \A c \in Components : Spare(c) > 0

Connected(t) == peer[t[1]] = t[2] /\ peer[t[2]] = t[1] /\ {t[1], t[2]} \subseteq enabled

\* As soon as the first thread exists everything it may use is there: the parts are
\* initialised, the clocks connected, and all buffers of the decoder and of both
\* audio renderers on their lists.  The components execute if nothing has failed;
\* as the results of the state changes are ignored, any may be left idle otherwise
\* (sx_mgmt_sys.c:28-86, sx_video_sink.c:108-183, sx_audio_sink.c:162-270).
UpWhenOpen ==
    LET clocks == {"video_clock"} \cup {audio_clock(i) : i \in AudioSinks}
        sinks  == {"video_decode"} \cup {audio_render(i) : i \in AudioSinks}
    IN  opened # {} =>
            /\ initialised = ToSet(Parts)
            /\ Connected(ClockToScheduler) /\ \A i \in AudioSinks : Connected(ClockToRender(i))
            /\ \A c \in sinks : <<c, InputPort[c]>> \in enabled /\ in_list[c] = NumBufs
            /\ \A c \in clocks \cup sinks :
                /\ cstate[c] \in {"Idle", "Executing"}
                /\ faults = 0 => cstate[c] = "Executing"
                /\ ~port_setting_changed => cmds[c] = <<>>

=============================================================================
