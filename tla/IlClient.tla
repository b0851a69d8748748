------------------------------- MODULE IlClient -------------------------------
(***************************************************************************)
(* The helper library ilclient, its core ilcore, and the hardware          *)
(* components behind them.                                                 *)
(*                                                                         *)
(* One thread uses the library.  A function of the library is a sequence   *)
(* of steps; todo is what the thread still has to execute, its own program *)
(* followed by that of its callers, and ret the value returned last.  The  *)
(* components carry out their commands meanwhile and report to             *)
(* ilclient_event_handler(), which the event lock makes one step; so it    *)
(* does each scan of an event list.  The flags that end a wait are not     *)
(* under that lock.                                                        *)
(*                                                                         *)
(* The components are external.  A port enabled on a component that is     *)
(* not loaded is enabled once it has its buffers: those of the client, or  *)
(* of the port it is tunnelled to.  Any command may be refused, and any    *)
(* call of the core that returns a status may fail, MaxFaults times in all.*)
(***************************************************************************)
EXTENDS Integers, Sequences, FiniteSets, SequencesExt

CONSTANTS
    Components,     \* the components the program creates
    Ports,          \* the ports of each
    ClientOf,       \* the client structure each belongs to
    InputPort,      \* of each, the port with buffers of the client
    OutputPort,     \* of each, the port whose format depends on the stream
    None,           \* no component, no port
    NumEvents,      \* NUM_EVENTS (100)
    NumBufs,        \* buffers of an input port
    MaxFaults,      \* bound: refused commands and failing calls
    MaxReports      \* bound: events components report on their own

ASSUME IlClientAssumption ==
    /\ NumEvents \in Nat /\ NumBufs \in Nat \ {0}
    /\ MaxFaults \in Nat /\ MaxReports \in Nat
    /\ IsFiniteSet(Components) /\ None \notin Components
    /\ \A c \in Components :
        IsFiniteSet(Ports[c]) /\ OutputPort[c] \in Ports[c] \cup {None}

VARIABLES
    todo, ret, status,          \* the thread: steps left, value returned, its end
    list, flags,                \* of each component: event list (newest first), event group
    error_mask,                 \* components whose error_mask hides PortUnpopulated
    related,                    \* the component to be told of a failure
    in_list,                    \* buffers on its in_list
    coreInit,                   \* initialisations of the core
    cstate, enabled, peer,      \* components: state, enabled ports, tunnels
    used,                       \* buffers allocated for the input port
    cmds,                       \* commands not carried out yet
    faults, reports             \* bounds used up

thread     == <<todo, ret, status>>
library    == <<list, flags, error_mask, related, in_list, coreInit>>
components == <<cstate, enabled, peer, used, cmds, faults, reports>>
ilvars     == <<thread, library, components>>

States == {"none", "Loaded", "Idle", "Executing"}
PortPairs == UNION {{c} \X Ports[c] : c \in Components}
NoPort == <<None, None>>

InitIlClient ==
    /\ ret = 0 /\ status = "starting"
    /\ list = [c \in Components |-> <<>>]
    /\ flags = [c \in Components |-> {}]
    /\ error_mask = {}
    /\ related = [c \in Components |-> None]
    /\ in_list = [c \in Components |-> 0]
    /\ coreInit = 0
    /\ cstate = [c \in Components |-> "none"]
    /\ enabled = {}
    /\ peer = [p \in PortPairs |-> NoPort]
    /\ used = [c \in Components |-> 0]
    /\ cmds = [c \in Components |-> <<>>]
    /\ faults = 0 /\ reports = 0

(***************************************************************************)
(* Events                                                                  *)
(***************************************************************************)
Done(cmd, x)  == <<"CmdComplete", cmd, x>>
Failure(why)  == <<"Error", why, "1">>      \* nData2 = 1: it ends a command
Unpopulated   == <<"Error", "PortUnpopulated", "1">>
Changed(port) == <<"PortSettingsChanged", port, "0">>
Corrupt       == <<"Error", "StreamCorrupt", "0">>

IsError(ev)   == ev[1] = "Error"
EndsByError(ev) == IsError(ev) /\ ev[3] = "1"

\* The errors of the model are among those the handler knows; its default, for any
\* other, is vc_assert(0) (ilclient.c:1566-1570).
FlagOf(ev) ==
    CASE ev[1] = "CmdComplete"         -> ev[2]
      [] ev[1] = "Error"               -> "Error"
      [] ev[1] = "PortSettingsChanged" -> "ParameterChanged"

\* Mutation: duplicates stay on the list.
PurgedNone(c) == list[c]

\* The list of c without the duplicates: the newest of equal events stays.
Purged(c) ==
    LET events == list[c]
        kept   == {i \in DOMAIN events : \A j \in 1..(i - 1) : events[j] # events[i]}
        Nth(n) == CHOOSE i \in kept : Cardinality(kept \cap 1..i) = n
    IN  [n \in 1..Cardinality(kept) |-> events[Nth(n)]]

\* Cells on the spare list of the client of c, once the list of c is purged.
Spare(c) ==
    LET others == {d \in Components \ {c} : ClientOf[d] = ClientOf[c]}
    IN  NumEvents - Len(Purged(c))
            - Cardinality(UNION {{d} \X DOMAIN list[d] : d \in others})

\* Component c reports ev.  A masked error is not queued; one that ends a command
\* wakes the component that waits for another one, too.
ilclient_event_handler(c, ev) ==
    LET masked == ev = Unpopulated /\ c \in error_mask
        woken  == (IF masked THEN {} ELSE {c} \X {FlagOf(ev)})
                    \cup (IF EndsByError(ev) THEN {<<related[c], "Error">>} ELSE {})
    IN  /\ Spare(c) > 0
        /\ list' = [list EXCEPT ![c] = (IF masked THEN <<>> ELSE <<ev>>) \o Purged(c)]
        /\ flags' = [d \in Components |-> flags[d] \cup {f \in {FlagOf(ev), "Error"} :
                                                            <<d, f>> \in woken}]
        /\ UNCHANGED <<thread, error_mask, related, in_list, coreInit>>

(***************************************************************************)
(* The components                                                          *)
(***************************************************************************)
Pending(c, cmd, x) == \E i \in DOMAIN cmds[c] : cmds[c][i].cmd = cmd /\ cmds[c][i].x = x

Populated(c, p) ==
    LET q == peer[<<c, p>>]
    IN  IF q = NoPort THEN used[c] = NumBufs
        ELSE q \in enabled /\ cstate[q[1]] # "Loaded"

\* Command k can be carried out; a loaded component cannot be told to execute.
Ready(c, k) ==
    CASE k.cmd = "StateSet" ->
             /\ k.x = "Idle" /\ cstate[c] = "Loaded" =>
                    \A p \in Ports[c] : <<c, p>> \in enabled => Populated(c, p)
             /\ k.x = "Loaded" => <<c, InputPort[c]>> \notin enabled
             /\ k.x = "Executing" => cstate[c] # "Loaded"
      [] k.cmd = "PortEnable"  -> cstate[c] = "Loaded" \/ Populated(c, k.x)
      [] k.cmd = "PortDisable" -> k.x = InputPort[c] => used[c] = 0

SameState(c, k) == IF k.cmd = "StateSet" THEN cstate[c] = k.x ELSE k.same

Answers(c, ev) ==
    /\ cmds' = [cmds EXCEPT ![c] = Tail(@)]
    /\ ilclient_event_handler(c, ev)

Carry(c) ==
    LET k == Head(cmds[c])
    IN  /\ k.cmd = "StateSet" => ~SameState(c, k)
        /\ Ready(c, k)
        /\ cstate' = IF k.cmd = "StateSet" THEN [cstate EXCEPT ![c] = k.x] ELSE cstate
        /\ Answers(c, Done(k.cmd, k.x))
        /\ UNCHANGED <<enabled, peer, used, faults, reports>>

\* There is nothing to do.
Reject(c) ==
    LET k == Head(cmds[c])
    IN  /\ SameState(c, k)
        /\ Answers(c, Failure("SameState"))
        /\ UNCHANGED <<cstate, enabled, peer, used, faults, reports>>

\* A port that waits for its buffers is disabled again: the enabling ends, one way or
\* the other.
Cancel(c) ==
    LET k == Head(cmds[c])
    IN  /\ k.cmd = "PortEnable" /\ Pending(c, "PortDisable", k.x)
        /\ \E ev \in {Done(k.cmd, k.x), Failure("IncorrectStateTransition")} : Answers(c, ev)
        /\ UNCHANGED <<cstate, enabled, peer, used, faults, reports>>

Refuse(c) ==
    LET k == Head(cmds[c])
    IN  /\ faults < MaxFaults
        /\ faults' = faults + 1
        /\ enabled' = IF k.cmd = "PortEnable" THEN enabled \ {<<c, k.x>>} ELSE enabled
        /\ Answers(c, Failure("InsufficientResources"))
        /\ UNCHANGED <<cstate, peer, used, reports>>

\* A port that is being disabled has lost the buffers of its tunnel; a decoder that
\* executes finds the format of its stream, or an error in it.
Report(c) ==
    /\ reports < MaxReports
    /\ reports' = reports + 1
    /\ \/ /\ cmds[c] # <<>> /\ Head(cmds[c]).cmd = "PortDisable" /\ cstate[c] # "Loaded"
          /\ ilclient_event_handler(c, Unpopulated)
       \/ /\ cstate[c] = "Executing" /\ OutputPort[c] # None
          /\ \E ev \in {Corrupt, Changed(OutputPort[c])} : ilclient_event_handler(c, ev)
    /\ UNCHANGED <<cstate, enabled, peer, used, cmds, faults>>

Serve(c) == cmds[c] # <<>> /\ (Carry(c) \/ Reject(c) \/ Cancel(c) \/ Refuse(c))

(***************************************************************************)
(* The steps of the thread                                                 *)
(***************************************************************************)
Step(op, c, a, x) == [op |-> op, c |-> c, a |-> a, x |-> x]

If(kind, of, yes, no) == <<[op |-> "if", kind |-> kind, of |-> of, yes |-> yes, no |-> no]>>
IfOk(yes, no) == If("returned", 0, yes, no)
Return(r)     == <<Step("return", None, r, None)>>
Demand        == <<Step("assert", None, None, None)>>
Send(c, cmd, x) == <<Step("send", c, cmd, x)>>
RemoveError(c, which) == <<Step("remove", c, which, None)>>
RemoveEvent(c, ev)    == <<Step("remove", c, "event", ev)>>

WaitForCommand(c, cmd, x) ==
    <<[op |-> "await", c |-> c, a |-> cmd, x |-> x, other |-> None]>>


\* While it waits for c, it also learns of a failure of other.
WaitForEither(c, cmd, x, other) ==
    <<Step("relate", other, None, c),
      [op |-> "await", c |-> c, a |-> cmd, x |-> x, other |-> other],
      Step("relate", other, None, None)>>

DisablePort(c, p) == Send(c, "PortDisable", p) \o WaitForCommand(c, "PortDisable", p) \o Demand

\* The loop over the ports of a component that is created.
DisableAll ==
    /\ todo # <<>> /\ Head(todo).op = "disable all"
    /\ LET s == Head(todo)
           p == CHOOSE p \in s.x : TRUE
       IN  todo' = (IF s.x = {} THEN <<>>
                    ELSE DisablePort(s.c, p) \o <<[s EXCEPT !.x = @ \ {p}]>>) \o Tail(todo)
    /\ UNCHANGED <<ret, status, library, components>>

Branch ==
    /\ todo # <<>> /\ Head(todo).op = "if"
    /\ LET s == Head(todo)
           holds == CASE s.kind = "returned" -> ret = s.of
                      [] s.kind = "loaded"   -> cstate[s.of] = "Loaded"
                      [] s.kind = "idle"     -> cstate[s.of] \in {"Idle", "Executing"}
                      [] s.kind = "enabled"  -> s.of \in enabled
       IN  todo' = (IF holds THEN s.yes ELSE s.no) \o Tail(todo)
    /\ UNCHANGED <<ret, status, library, components>>

At(op) == todo # <<>> /\ Head(todo).op = op

\* The head of todo is done and has returned r.
Returns(r) ==
    /\ todo' = Tail(todo)
    /\ ret' = r
    /\ UNCHANGED status

ReturnValue ==
    /\ At("return") /\ Returns(Head(todo).a)
    /\ UNCHANGED <<library, components>>

\* assert(rc == 0), and vc_assert(0) after a call that failed.
CheckResult ==
    /\ At("assert")
    /\ todo' = IF ret = 0 THEN Tail(todo) ELSE <<>>
    /\ status' = IF ret = 0 THEN status ELSE "aborted"
    /\ UNCHANGED <<ret, library, components>>

\* A call of the core that the model does not look into: it works or fails.
Configure ==
    /\ At("configure")
    /\ \E r \in {0, -1} :
        /\ r = -1 => faults < MaxFaults
        /\ faults' = faults - r
        /\ Returns(r)
    /\ UNCHANGED <<library, cstate, enabled, peer, used, cmds, reports>>

\* OMX_SendCommand(): the port counts as enabled or disabled from now on.
SendCommand ==
    /\ At("send")
    /\ LET s == Head(todo)
           port == <<s.c, s.x>>
       IN  /\ enabled' = CASE s.a = "PortEnable"  -> enabled \cup {port}
                           [] s.a = "PortDisable" -> enabled \ {port}
                           [] OTHER               -> enabled
           /\ cmds' = [cmds EXCEPT ![s.c] = Append(@, [cmd |-> s.a, x |-> s.x,
                        same |-> s.a = "PortDisable" /\ port \notin enabled])]
    /\ Returns(ret)
    /\ UNCHANGED <<library, cstate, peer, used, faults, reports>>

Becomes(op) ==
    /\ todo' = <<[Head(todo) EXCEPT !.op = op]>> \o Tail(todo)
    /\ UNCHANGED <<ret, status>>

Unlink(c, i) == list' = [list EXCEPT ![c] = RemoveAt(@, i)]
Clear(c, fs) == flags' = [flags EXCEPT ![c] = @ \ fs]

\* ilclient_wait_for_command_complete_dual(): under the event lock it looks for the end
\* of the command, and for a command of the other component that has failed.  The code
\* clears the flag of the command only when it waits.  A flag left from before would
\* make a later wait look once more and wait again; the model leaves that out.
ScanForCommand ==
    /\ At("await")
    /\ LET s == Head(todo)
           i == SelectInSeq(list[s.c], LAMBDA ev : ev = Done(s.a, s.x) \/ EndsByError(ev))
           ev == list[s.c][i]
       IN  \/ /\ i # 0
              /\ Unlink(s.c, i)
              /\ Clear(s.c, IF IsError(ev) THEN {s.a, "Error"} ELSE {s.a})
              /\ Returns(IF ev = Done(s.a, s.x) \/ ev = Failure("SameState") THEN 0 ELSE -1)
           \/ /\ i = 0
              /\ IF s.other # None /\ \E e \in ToSet(list[s.other]) : EndsByError(e)
                 THEN Returns(-2)
                 ELSE Becomes("blocked")
              /\ Clear(s.c, {s.a})
              /\ UNCHANGED list
    /\ UNCHANGED <<error_mask, related, in_list, coreInit, components>>

\* The wait for the event flags is over: it looks again.
Woken ==
    /\ At("blocked")
    /\ LET s == Head(todo)
           mask == {s.a, "Error"}
       IN  /\ flags[s.c] \cap mask # {}
           /\ Clear(s.c, mask)
    /\ Becomes("await")
    /\ UNCHANGED <<list, error_mask, related, in_list, coreInit, components>>

\* ilclient_wait_for_event(), for the end of a command or any error.  As nothing looks
\* at its result, the model has only that it waits for one of the two.
ilclient_wait_for_event ==
    /\ At("expect")
    /\ LET s == Head(todo)
           i == SelectInSeq(list[s.c], LAMBDA ev : ev = Done(s.a, s.x))
       IN  IF i # 0
           THEN Unlink(s.c, i) /\ Returns(0) /\ Clear(s.c, {s.a})
           ELSE /\ \E ev \in ToSet(list[s.c]) : IsError(ev)
                /\ Returns(-2) /\ Clear(s.c, {s.a, "Error"})
                /\ UNCHANGED list
    /\ UNCHANGED <<error_mask, related, in_list, coreInit, components>>

\* ilclient_remove_event(): the newest event that fits; 0 or -1.
ilclient_remove_event ==
    /\ At("remove")
    /\ LET s == Head(todo)
           i == SelectInSeq(list[s.c], LAMBDA ev :
                    CASE s.a = "any error"    -> IsError(ev)
                      [] s.a = "ending error" -> EndsByError(ev)
                      [] s.a = "event"        -> ev = s.x)
       IN  IF i = 0
           THEN Returns(-1) /\ UNCHANGED <<list, flags>>
           ELSE /\ Returns(0) /\ Unlink(s.c, i)
                /\ Clear(s.c, IF s.a = "event" THEN {} ELSE {"Error"})
    /\ UNCHANGED <<error_mask, related, in_list, coreInit, components>>

MaskErrors ==
    /\ At("mask")
    /\ LET s == Head(todo) IN error_mask' = IF s.a THEN error_mask \cup s.c ELSE error_mask \ s.c
    /\ Returns(ret)
    /\ UNCHANGED <<list, flags, related, in_list, coreInit, components>>

Relate ==
    /\ At("relate")
    /\ related' = [related EXCEPT ![Head(todo).c] = Head(todo).x]
    /\ Returns(ret)
    /\ UNCHANGED <<list, flags, error_mask, in_list, coreInit, components>>

\* Mutation: the loop takes one buffer too many.
UseBuffersOneMore ==
    /\ At("use")
    /\ used' = [used EXCEPT ![Head(todo).c] = @ + NumBufs + 1]
    /\ in_list' = [in_list EXCEPT ![Head(todo).c] = @ + NumBufs + 1]
    /\ Returns(0)
    /\ UNCHANGED <<list, flags, error_mask, related, coreInit, cstate, enabled, peer, cmds,
                   faults, reports>>

\* The loop of OMX_UseBuffer() in ilclient_enable_port_buffers(), which ends at the
\* first buffer that cannot be had; then the buffers are put on in_list.
UseBuffers ==
    /\ At("use")
    /\ \E n \in 0..NumBufs :
        /\ n < NumBufs => faults < MaxFaults
        /\ faults' = IF n < NumBufs THEN faults + 1 ELSE faults
        /\ used' = [used EXCEPT ![Head(todo).c] = @ + n]
        /\ in_list' = [in_list EXCEPT ![Head(todo).c] = @ + n]
        /\ Returns(IF n < NumBufs THEN -1 ELSE 0)
    /\ UNCHANGED <<list, flags, error_mask, related, coreInit, cstate, enabled, peer, cmds, reports>>

\* ilclient_disable_port_buffers(), its loop: the buffers of in_list are freed ...
FreeBuffers ==
    /\ At("free")
    /\ LET s == Head(todo)
           left == s.a - in_list[s.c]
       IN  /\ used' = [used EXCEPT ![s.c] = @ - in_list[s.c]]
           /\ in_list' = [in_list EXCEPT ![s.c] = 0]
           /\ todo' = (IF left = 0 THEN WaitForCommand(s.c, "PortDisable", s.x) \o Demand
                                   ELSE <<Step("wait buffers", s.c, left, s.x)>>) \o Tail(todo)
    /\ UNCHANGED <<ret, status, list, flags, error_mask, related, coreInit, cstate, enabled,
                   peer, cmds, faults, reports>>

\* ... and as long as some are missing it waits, until the command has ended.
WokenForBuffers ==
    /\ At("wait buffers")
    /\ LET s == Head(todo)
           set == flags[s.c] \cap {"PortDisable", "Error"}
           again == <<Step("free", s.c, s.a, s.x)>>
           disabled == IF "PortDisable" \notin set THEN again
                       ELSE RemoveEvent(s.c, Done("PortDisable", s.x)) \o IfOk(<<>>, again)
       IN  /\ set # {}
           /\ Clear(s.c, set)
           /\ todo' = (IF "Error" \notin set THEN disabled
                       ELSE RemoveError(s.c, "ending error") \o IfOk(<<>>, disabled)) \o Tail(todo)
    /\ UNCHANGED <<ret, status, list, error_mask, related, in_list, coreInit, components>>

\* OMX_Init() connects to the hardware the first time; OMX_Deinit() undoes one of them.
OMX_Init ==
    /\ At("OMX_Init")
    /\ \/ /\ coreInit = 0 /\ faults < MaxFaults
          /\ faults' = faults + 1
          /\ Returns(-1) /\ UNCHANGED coreInit
       \/ /\ coreInit' = coreInit + 1
          /\ Returns(0) /\ UNCHANGED faults
    /\ UNCHANGED <<list, flags, error_mask, related, in_list, cstate, enabled, peer, used, cmds,
                   reports>>

OMX_Deinit ==
    /\ At("OMX_Deinit")
    /\ coreInit' = IF coreInit = 0 THEN 0 ELSE coreInit - 1
    /\ Returns(IF coreInit = 0 THEN -1 ELSE 0)
    /\ UNCHANGED <<list, flags, error_mask, related, in_list, components>>

\* OMX_GetHandle() makes a component in the Loaded state, with every port enabled.
OMX_GetHandle ==
    /\ At("OMX_GetHandle")
    /\ LET c == Head(todo).c
       IN  \/ /\ coreInit > 0
              /\ cstate' = [cstate EXCEPT ![c] = "Loaded"]
              /\ enabled' = enabled \cup {c} \X Ports[c]
              /\ Returns(0) /\ UNCHANGED faults
           \/ /\ coreInit = 0 \/ faults < MaxFaults
              /\ faults' = IF coreInit = 0 THEN faults ELSE faults + 1
              /\ Returns(-1) /\ UNCHANGED <<cstate, enabled>>
    /\ UNCHANGED <<library, peer, used, cmds, reports>>

\* OMX_FreeHandle(): a component that is not in the Loaded state may object.
OMX_FreeHandle ==
    /\ At("OMX_FreeHandle")
    /\ LET c == Head(todo).c
       IN  \/ /\ cstate' = [cstate EXCEPT ![c] = "none"]
              /\ enabled' = enabled \ ({c} \X Ports[c])
              /\ cmds' = [cmds EXCEPT ![c] = <<>>]
              /\ Returns(0)
           \/ /\ cstate[c] # "Loaded"
              /\ Returns(-1) /\ UNCHANGED <<cstate, enabled, cmds>>
    /\ UNCHANGED <<library, peer, used, faults, reports>>

\* OMX_SetupTunnel() asks both sides, and the first again if the second refuses.
OMX_SetupTunnel ==
    /\ At("OMX_SetupTunnel")
    /\ LET s == Head(todo)
       IN  \/ /\ peer' = [p \in PortPairs |-> IF p = s.a THEN s.x
                                              ELSE IF p = s.x THEN s.a ELSE peer[p]]
              /\ Returns(0) /\ UNCHANGED faults
           \/ /\ s.x # NoPort /\ faults < MaxFaults
              /\ faults' = faults + 1
              /\ Returns(-1) /\ UNCHANGED peer
    /\ UNCHANGED <<library, cstate, enabled, used, cmds, reports>>

ilclient_return_events ==
    /\ At("return events")
    /\ list' = [list EXCEPT ![Head(todo).c] = <<>>]
    /\ Returns(ret)
    /\ UNCHANGED <<flags, error_mask, related, in_list, coreInit, components>>

Thread ==
    \/ Branch \/ DisableAll \/ ReturnValue \/ CheckResult \/ Configure \/ SendCommand
    \/ ScanForCommand \/ Woken \/ ilclient_wait_for_event \/ WokenForBuffers
    \/ ilclient_remove_event \/ MaskErrors \/ Relate \/ UseBuffers \/ FreeBuffers
    \/ OMX_Init \/ OMX_Deinit \/ OMX_GetHandle \/ OMX_FreeHandle \/ OMX_SetupTunnel
    \/ ilclient_return_events

Alive == status \notin {"aborted", "exited"}
Hardware(c) == Alive /\ (Serve(c) \/ Report(c))

(***************************************************************************)
(* The functions of the library                                            *)
(***************************************************************************)
CreateComponent(c) ==
    <<Step("OMX_GetHandle", c, None, None)>>
        \o IfOk(<<Step("disable all", c, None, Ports[c])>> \o Return(0), <<>>)

ChangeState(c, s) ==
    Send(c, "StateSet", s) \o WaitForCommand(c, "StateSet", s)
        \o IfOk(<<>>, RemoveError(c, "any error") \o Return(-1))

\* The ports of tunnel t, which leads from t[1] to t[2].
DisableTunnel(t) ==
    LET both == {t[1][1], t[2][1]}
        Each(prog(_)) == prog(t[1]) \o prog(t[2])
    IN  <<Step("mask", both, TRUE, None)>>
            \o Each(LAMBDA q : Send(q[1], "PortDisable", q[2]))
            \o Each(LAMBDA q : WaitForCommand(q[1], "PortDisable", q[2]) \o Demand)
            \o <<Step("mask", both, FALSE, None)>>

\* Both ports are enabled.  A sink that is loaded goes idle, so that the ports can
\* exchange buffers; then a failure of the source must end the wait for the sink.
EnableTunnel(t) ==
    LET source == t[1][1]
        sink   == t[2][1]
        failed == DisablePort(source, t[1][2]) \o Return(-1)
        populated ==
            WaitForCommand(source, "PortEnable", t[1][2])
                \o IfOk(<<>>, DisablePort(sink, t[2][2]) \o Return(-1))
        loaded ==
            WaitForCommand(sink, "PortEnable", t[2][2])
                \o IfOk(Send(sink, "StateSet", "Idle")
                            \o WaitForEither(sink, "StateSet", "Idle", source)
                            \o IfOk(populated,
                                    If("returned", -2,
                                       WaitForCommand(source, "PortEnable", t[1][2])
                                           \o DisablePort(sink, t[2][2]), <<>>) \o failed),
                        failed)
        running ==
            WaitForCommand(sink, "PortEnable", t[2][2])
                \o IfOk(populated,
                        DisablePort(source, t[1][2])
                            \o <<Step("expect", source, "PortEnable", t[1][2])>> \o Return(-1))
    IN  Send(source, "PortEnable", t[1][2]) \o Send(sink, "PortEnable", t[2][2])
            \o If("loaded", sink, loaded, running)

\* With timeout 0 it does not wait for the settings of the source port to change.
SetupTunnel(t) ==
    LET source == t[1][1]
        sink   == t[2][1]
        Connect(p, q) == <<Step("OMX_SetupTunnel", None, p, q)>>
        undone == Connect(t[1], NoPort) \o Demand \o Connect(t[2], NoPort) \o Demand
        connected ==
            DisableTunnel(t) \o Connect(t[1], t[2])
                \o IfOk(EnableTunnel(t)
                            \o IfOk(<<>>, undone \o RemoveError(sink, "any error")
                                              \o RemoveError(source, "any error") \o Return(-5)),
                        undone \o Return(-5))
    IN  If("loaded", source, ChangeState(source, "Idle") \o IfOk(connected, Return(-2)), connected)

DisablePortBuffers(c, p) ==
    If("enabled", <<c, p>>,
       Send(c, "PortDisable", p) \o <<Step("free", c, NumBufs, p)>>, <<>>)

\* Mutation: the end of the command is not waited for.
EnablePortBuffersNoWait(c, p) ==
    Send(c, "PortEnable", p) \o <<Step("use", c, None, p)>>
        \o IfOk(<<>>, DisablePortBuffers(c, p) \o RemoveError(c, "ending error") \o Return(-1))

EnablePortBuffers(c, p) ==
    LET failed == DisablePortBuffers(c, p) \o RemoveError(c, "ending error") \o Return(-1)
        enable == Send(c, "PortEnable", p) \o <<Step("use", c, None, p)>>
                      \o IfOk(WaitForCommand(c, "PortEnable", p) \o IfOk(<<>>, failed), failed)
    IN  If("enabled", <<c, p>>, Return(-1), If("idle", c, enable, Return(-1)))

\* What it does to one component of the list.
CleanupComponents(c) ==
    <<Step("return events", c, None, None), Step("OMX_FreeHandle", c, None, None)>> \o Demand
=============================================================================
