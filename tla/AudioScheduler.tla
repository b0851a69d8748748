---------------------------- MODULE AudioScheduler ----------------------------
(***************************************************************************)
(* The thread of mgmt_audio_scheduler with the audio sink behind it: it    *)
(* waits until enough slices are there, then copies slice by slice into    *)
(* hardware buffers and submits them, so much at a time that the component *)
(* holds the audio of a fixed time, until nothing is left anywhere.        *)
(*                                                                         *)
(* The decoder thread puts the slices 1, 2, 3, ... on the queue; module    *)
(* AudioDecoder shows that each is whole, which assert(copy_index == 1920) *)
(* relies on.  The component is external: it takes a submitted buffer in   *)
(* some time later and only then counts its audio in the latency it        *)
(* reports, gives the buffer back before it has played all of it, and      *)
(* plays in the order of submission.                                       *)
(***************************************************************************)
EXTENDS Integers, Sequences, FiniteSets

CONSTANTS
    SliceMs,        \* time a slice plays (10 ms)
    Delay,          \* SX_SYSTEM_DELAY_MS (100 ms)
    Half,           \* step of the speed thresholds (50 ms)
    Target,         \* audio the component shall hold (200 ms)
    NumBufs,        \* hardware buffers (AUDIO_NUM_BUF = 100)
    MaxLag,         \* buffers the component may not have taken in when it is asked
    MaxSlices       \* bound: slices the decoder puts

ASSUME SchedulerAssumption ==
    /\ SliceMs \in Nat \ {0} /\ Delay \in Nat /\ Half \in Nat \ {0}
    /\ Target \in Nat
    /\ NumBufs \in Nat \ {0} /\ MaxLag \in Nat /\ MaxSlices \in Nat

\* What the number of buffers has to be for the assertion in
\* sx_audio_sink_buffer_get() to hold: the code has 100 for 200 ms.
ASSUME BuffersAssumption ==
    NumBufs >= ((Target + SliceMs - 1) \div SliceMs) + 1 + MaxLag

VARIABLES
    sent, sliceq,       \* slices put so far; the queue LPCM_SLICE
    state,              \* f_cblk.state
    playback_speed,     \* the static variable of audio_scheduler_slice_dump()
    pc,                 \* where the thread is
    data_left, slices_to_queue, desc, buf,      \* its locals
    scale,              \* the time scale of the hardware clock
    in_list,            \* audio_render->in_list, empty buffers
    user_buffer_list,   \* st->user_buffer_list, buffers being filled
    content,            \* the slice in each buffer
    submitted, taken,   \* buffers with the component: not yet taken in, taken in
    playing, head_ms,   \* slices it counts, and what is left of the first
    played              \* slices it has played (history)

sink      == <<in_list, user_buffer_list, content>>
component == <<submitted, taken, playing, head_ms, played>>
locals    == <<data_left, slices_to_queue, desc, buf>>
vars      == <<sent, sliceq, state, playback_speed, pc, locals, scale, sink, component>>

Bufs == 1..NumBufs
Slices == 1..MaxSlices
Speed == {"slow", "normal", "fast"}

Init ==
    /\ sent = 0 /\ sliceq = <<>>
    /\ state = "inactive" /\ playback_speed = "normal" /\ pc = "idle"
    /\ data_left = 0 /\ slices_to_queue = 0 /\ desc = 0 /\ buf = 0
    /\ scale = "normal"
    /\ in_list = [i \in Bufs |-> i]
    /\ user_buffer_list = <<>>
    /\ content = [b \in Bufs |-> 0]
    /\ submitted = <<>> /\ taken = <<>>
    /\ playing = <<>> /\ head_ms = SliceMs
    /\ played = <<>>

\* The audio decoder thread puts a slice on LPCM_SLICE.
DecoderPuts ==
    /\ sent < MaxSlices
    /\ sent' = sent + 1
    /\ sliceq' = Append(sliceq, sent + 1)
    /\ UNCHANGED <<state, playback_speed, pc, locals, scale, sink, component>>

(***************************************************************************)
(* One iteration of audio_scheduler_thread()                               *)
(***************************************************************************)

\* Inactive: it starts with more than Delay of slices in the queue.
Activate ==
    /\ pc = "idle" /\ state = "inactive"
    /\ Len(sliceq) > Delay \div SliceMs
    /\ state' = "active"
    /\ UNCHANGED <<sent, sliceq, playback_speed, pc, locals, scale, sink, component>>

\* Active: the length of the queue is read first ...
ReadLeft ==
    /\ pc = "idle" /\ state = "active"
    /\ data_left' = Len(sliceq) * SliceMs
    /\ pc' = "queued"
    /\ UNCHANGED <<sent, sliceq, state, playback_speed, slices_to_queue, desc, buf, scale,
                   sink, component>>

\* sx_audio_sink_ms_left_get(): the latency the component reports.  It answers in
\* time, that is with at most MaxLag buffers it has not taken in.
MsLeft == IF playing = <<>> THEN 0 ELSE (Len(playing) - 1) * SliceMs + head_ms
Answers == Len(submitted) <= MaxLag

\* Mutation: it stops as soon as the component has nothing to play.
DecideUnqueued ==
    /\ pc = "queued" /\ Answers
    /\ IF MsLeft = 0
       THEN /\ state' = "inactive" /\ pc' = "idle"
            /\ UNCHANGED slices_to_queue
       ELSE /\ pc' = IF MsLeft < Target THEN "pull" ELSE "idle"
            /\ slices_to_queue' = (Target - MsLeft + SliceMs) \div SliceMs
            /\ UNCHANGED state
    /\ data_left' = 0
    /\ UNCHANGED <<sent, sliceq, playback_speed, desc, buf, scale, sink, component>>

\* Mutation: one slice more is asked for.
DecideOneMore ==
    /\ pc = "queued" /\ Answers
    /\ IF data_left + MsLeft = 0
       THEN /\ state' = "inactive" /\ pc' = "idle"
            /\ UNCHANGED slices_to_queue
       ELSE IF MsLeft < Target
       THEN /\ pc' = "pull"
            /\ slices_to_queue' = (Target - MsLeft + 2 * SliceMs) \div SliceMs
            /\ UNCHANGED state
       ELSE /\ pc' = "idle"
            /\ UNCHANGED <<state, slices_to_queue>>
    /\ data_left' = 0
    /\ UNCHANGED <<sent, sliceq, playback_speed, desc, buf, scale, sink, component>>

\* ... then the latency; with nothing left anywhere it stops, with too little in the
\* component it fills up.
Decide ==
    /\ pc = "queued" /\ Answers
    /\ IF data_left + MsLeft = 0
       THEN /\ state' = "inactive" /\ pc' = "idle"
            /\ UNCHANGED slices_to_queue
       ELSE IF MsLeft < Target
       THEN /\ pc' = "pull"
            /\ slices_to_queue' = (Target - MsLeft + SliceMs) \div SliceMs
            /\ UNCHANGED state
       ELSE /\ pc' = "idle"
            /\ UNCHANGED <<state, slices_to_queue>>
    /\ data_left' = 0
    /\ UNCHANGED <<sent, sliceq, playback_speed, desc, buf, scale, sink, component>>

\* sx_pipe_get(), and the head of the loop.
Pull ==
    /\ pc = "pull"
    /\ IF sliceq = <<>> \/ slices_to_queue = 0
       THEN /\ pc' = "idle" /\ slices_to_queue' = 0
            /\ UNCHANGED <<sliceq, desc>>
       ELSE /\ desc' = Head(sliceq) /\ sliceq' = Tail(sliceq)
            /\ slices_to_queue' = slices_to_queue - 1
            /\ pc' = "total"
    /\ UNCHANGED <<sent, state, playback_speed, data_left, buf, scale, sink, component>>

(***************************************************************************)
(* audio_scheduler_slice_dump()                                            *)
(***************************************************************************)

\* audio_total_remaining_ms() reads the queue before the latency, too.
ReadTotal ==
    /\ pc = "total"
    /\ data_left' = Len(sliceq) * SliceMs
    /\ pc' = "speed"
    /\ UNCHANGED <<sent, sliceq, state, playback_speed, slices_to_queue, desc, buf, scale,
                   sink, component>>

\* The speed that ms left in all call for.
Demanded(ms) ==
    CASE ms > 2 * Half + Delay -> "fast"
      [] ms < Half + Delay     -> "slow"
      [] OTHER                 -> "normal"

\* The clock is set when the demanded speed is not the one set last.
AdjustSpeed ==
    /\ pc = "speed" /\ Answers
    /\ LET speed == Demanded(data_left + MsLeft)
       IN  /\ scale' = IF playback_speed # speed THEN speed ELSE scale
           /\ playback_speed' = speed
    /\ data_left' = 0
    /\ pc' = "get"
    /\ UNCHANGED <<sent, sliceq, state, slices_to_queue, desc, buf, sink, component>>

\* Mutation: the header is not unlinked from in_list.
GetInputBufferStays == buf' = Head(in_list) /\ UNCHANGED in_list

\* The oldest of the free headers is unlinked.
ilclient_get_input_buffer == buf' = Head(in_list) /\ in_list' = Tail(in_list)

\* The payload of each datagram of the slice is copied behind the last, the chain is
\* released, and the samples are converted in place.  It fills the buffer, as the
\* assertion at line 212 says, when the decoder handed on a whole slice
\* (AudioDecoder.SlicesWhole) whose first TS packet has no adaptation field: here that
\* field is taken off (lines 169-190), by the decoder it is not.
CopySlice(b) == content' = [content EXCEPT ![b] = desc]

\* sx_audio_sink_buffer_get() puts the header on the user list.  The call does not
\* wait: BufferThere is its assertion.
GetBuffer ==
    /\ pc = "get" /\ in_list # <<>>
    /\ ilclient_get_input_buffer
    /\ user_buffer_list' = <<Head(in_list)>> \o user_buffer_list
    /\ CopySlice(Head(in_list))
    /\ pc' = "set"
    /\ UNCHANGED <<sent, sliceq, state, playback_speed, data_left, slices_to_queue, desc,
                   scale, component>>

\* Mutation: the header found stays on the user list.
PlayBufferStaysListed ==
    /\ pc = "set" /\ user_buffer_list # <<>>
    /\ submitted' = Append(submitted, user_buffer_list[Len(user_buffer_list)])
    /\ desc' = 0 /\ buf' = 0
    /\ pc' = "pull"
    /\ UNCHANGED <<sent, sliceq, state, playback_speed, data_left, slices_to_queue, scale,
                   in_list, user_buffer_list, content, taken, playing, head_ms, played>>

\* audioplay_play_buffer().  The search for the header of buf stops at the first one
\* that is large enough, and all are: it is always the head of the user list.
PlayBuffer ==
    /\ pc = "set" /\ user_buffer_list # <<>>
    /\ user_buffer_list' = Tail(user_buffer_list)
    /\ submitted' = Append(submitted, Head(user_buffer_list))
    /\ desc' = 0 /\ buf' = 0
    /\ pc' = "pull"
    /\ UNCHANGED <<sent, sliceq, state, playback_speed, data_left, slices_to_queue, scale,
                   in_list, content, taken, playing, head_ms, played>>

Scheduler ==
    \/ Activate \/ ReadLeft \/ Decide \/ Pull
    \/ ReadTotal \/ AdjustSpeed \/ GetBuffer \/ PlayBuffer

(***************************************************************************)
(* The audio_render component                                              *)
(***************************************************************************)
thread == <<sent, sliceq, state, playback_speed, pc, locals, scale>>

TakeIn ==
    /\ submitted # <<>>
    /\ submitted' = Tail(submitted)
    /\ taken' = Append(taken, Head(submitted))
    /\ playing' = Append(playing, content[Head(submitted)])
    /\ UNCHANGED <<thread, sink, head_ms, played>>

\* The callback ilclient_empty_buffer_done() appends the buffer to in_list.
EmptyBufferDone ==
    /\ taken # <<>>
    /\ taken' = Tail(taken)
    /\ in_list' = Append(in_list, Head(taken))
    /\ UNCHANGED <<thread, user_buffer_list, content, submitted, playing, head_ms, played>>

Play ==
    /\ playing # <<>>
    /\ IF head_ms > 1
       THEN /\ head_ms' = head_ms - 1
            /\ UNCHANGED <<playing, played>>
       ELSE /\ Len(taken) < Len(playing)
            /\ head_ms' = SliceMs
            /\ playing' = Tail(playing)
            /\ played' = Append(played, Head(playing))
    /\ UNCHANGED <<thread, sink, submitted, taken>>

Next == DecoderPuts \/ Scheduler \/ TakeIn \/ EmptyBufferDone \/ Play

\* The thread wakes up every 5 ms for ever, and the component keeps working.
Fairness ==
    /\ WF_vars(Scheduler)
    /\ WF_vars(TakeIn) /\ WF_vars(EmptyBufferDone) /\ WF_vars(Play)

Spec == Init /\ [][Next]_vars /\ Fairness

------------------------------------------------------------------------------
(***************************************************************************)
(* Correctness                                                             *)
(***************************************************************************)
TypeOK ==
    /\ sent \in 0..MaxSlices /\ sliceq \in Seq(Slices)
    /\ state \in {"inactive", "active"}
    /\ playback_speed \in Speed /\ scale \in Speed
    /\ pc \in {"idle", "queued", "pull", "total", "speed", "get", "set"}
    /\ data_left \in Nat /\ slices_to_queue \in 0..((Target \div SliceMs) + 1)
    /\ desc \in 0..MaxSlices /\ buf \in 0..NumBufs
    /\ in_list \in Seq(Bufs) /\ user_buffer_list \in Seq(Bufs)
    /\ content \in [Bufs -> 0..MaxSlices]
    /\ submitted \in Seq(Bufs) /\ taken \in Seq(Bufs)
    /\ playing \in Seq(0..MaxSlices) /\ played \in Seq(0..MaxSlices)
    /\ head_ms \in 1..SliceMs

Elements(seq) == {seq[i] : i \in 1..Len(seq)}

\* Every hardware buffer is on one list, once: free, being filled, or with the
\* component.  The thread fills the buffer that audioplay_play_buffer() then finds,
\* although the search accepts any (sx_audio_sink.c:432-451, 488-505).
BufferInOnePlace ==
    LET all == in_list \o user_buffer_list \o submitted \o taken
    IN  /\ Len(all) = NumBufs
        /\ Elements(all) = Bufs
        /\ user_buffer_list = IF pc = "set" THEN <<buf>> ELSE <<>>

InHand == IF pc \in {"total", "speed", "get"} THEN <<desc>> ELSE <<>>

Contents(bufs) == [i \in 1..Len(bufs) |-> content[bufs[i]]]

\* Every slice is played once and in order: those played, counted, submitted, being
\* copied and waiting are 1, 2, 3, ... in this order.  No buffer is refilled before
\* the component has taken its slice in (sx_mgmt_audio_scheduler.c:139-218,
\* sx_audio_sink.c:471-517, ilclient.c:1653-1683).
PlayedInOrder ==
    played \o playing \o Contents(submitted) \o Contents(user_buffer_list)
        \o InHand \o sliceq = [i \in 1..sent |-> i]

\* assert(buf != NULL) of sx_audio_sink_buffer_get() holds: how much the thread puts,
\* from one reading of the latency, is within what the buffers allow even if the
\* component had not counted MaxLag of them (sx_mgmt_audio_scheduler.c:251-262,
\* sx_audio_sink.c:458-465).
BufferThere == pc = "get" => in_list # <<>>

\* Once more slices wait than the delay calls for, each of them is played: the
\* thread starts, fills up again before the component has nothing left, and does not
\* stop over them (sx_mgmt_audio_scheduler.c:230-269).  Fewer may wait for ever.
EverySlicePlayed ==
    \A n \in Slices :
        Len(sliceq) > Delay \div SliceMs /\ n \in Elements(sliceq)
            ~> n \in Elements(played)
=============================================================================
