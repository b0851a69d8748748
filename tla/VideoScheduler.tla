---------------------------- MODULE VideoScheduler ----------------------------
(***************************************************************************)
(* The three threads of mgmt_video_scheduler and the video sink they share *)
(* with the OMX video decoder component.                                   *)
(*                                                                         *)
(*   slice_packing_thread   copies slices from the SLICE queue into        *)
(*                          hardware buffers, onto the SLICE_READY queue   *)
(*   pcr_update_thread      keeps f_cblk.curr_time, an estimate of the     *)
(*                          source's clock, from the PCR queue             *)
(*   video_scheduler_thread holds the oldest ready slice until its time    *)
(*                          has come and submits its buffers               *)
(*                                                                         *)
(* External: the threads that feed SLICE and PCR, the two clocks (which    *)
(* run at one rate, so one variable stands for both), and the component,   *)
(* which gives buffers back with empty_buffer_done and reports the change  *)
(* of its port settings once.  How many buffers a slice fills (copying     *)
(* starts a new one when 81920 bytes would overflow) is its sender's       *)
(* choice; the presentation time of a slice is its number.                 *)
(***************************************************************************)
EXTENDS Integers, Sequences, FiniteSets

CONSTANTS
    Pool,           \* input buffers of the component
    Limit,          \* slices in SLICE_READY, at most (10)
    Delay,          \* SX_SYSTEM_AUDIO_SOURCE_DELAY_MS + SX_SYSTEM_DELAY_MS
    TimeMod,        \* values of a UINT64 of milliseconds
    Parts,          \* Parts[i]: hardware buffers the i-th slice fills
    Garbage,        \* what an uninitialised difference of two UINT64 may be
    MaxLag,         \* age of a PCR when it arrives, at most
    MaxPcrs,        \* bound: PCRs sent
    MaxTime,        \* bound: when the clocks stop
    NULL            \* no descriptor

ASSUME SchedulerAssumption ==
    /\ Pool \in Nat \ {0} /\ Limit \in Nat \ {0} /\ TimeMod \in Nat \ {0}
    /\ Delay \in Nat /\ MaxLag \in Nat /\ MaxPcrs \in Nat /\ MaxTime \in Nat
    /\ Parts \in Seq(Nat \ {0})
    /\ MaxTime < TimeMod
    /\ Garbage \subseteq 0..(TimeMod - 1)

VARIABLES
    now,            \* what gettimeofday() and the source's clock read
    sent, pcrs,     \* slices and PCRs sent so far
    sliceq, pcrq, ready,    \* the queues SLICE, PCR and SLICE_READY
    \* slice_packing_thread
    packer_pc, slice_to_dump,
    packing,        \* the slice being copied, with its buffers so far
    \* pcr_update_thread
    pcr_pc,
    pcr_offset,     \* pcr_time - pcr_received_time
    pcr_now,        \* its local curr_time, 0 while it is dead
    pcr_seen,       \* history: pcr_offset comes from a PCR
    \* f_cblk
    curr_time,
    synced,         \* history: curr_time comes from a PCR and did not underflow
    \* video_scheduler_thread
    scheduler_pc,
    desc,           \* the slice held, or NULL
    trusted,        \* history: synced when the time was last read
    \* the sink
    in_list,        \* free buffers, oldest first
    content,        \* the slice each buffer was last filled from, and its part
    submitted,      \* buffers the component has not given back, oldest first
    port,           \* the port-settings event: "none", "pending"
    first_packet,
    rendered,       \* history: what was submitted, in order
    aborted         \* an assertion failed: the process is gone

packer    == <<packer_pc, slice_to_dump, packing>>
pcr       == <<pcr_pc, pcr_offset, pcr_now, pcr_seen, curr_time, synced>>
scheduler == <<scheduler_pc, desc, trusted>>
sink      == <<in_list, content, submitted, port, first_packet, rendered>>
queues    == <<sliceq, pcrq, ready>>
outside   == <<now, sent, pcrs>>
vars == <<outside, queues, packer, pcr, scheduler, sink, aborted>>

Buffers == 1..Pool
Slice == [timestamp : Nat, parts : Nat \ {0}, bufs : Seq(Buffers)]

ASSUME NullAssumption == NULL \notin Slice

\* The local variables of pcr_update_thread() are uninitialised.
Init ==
    /\ now = 0 /\ sent = 0 /\ pcrs = 0
    /\ sliceq = <<>> /\ pcrq = <<>> /\ ready = <<>>
    /\ packer_pc = "poll" /\ slice_to_dump = 0 /\ packing = NULL
    /\ pcr_pc = "poll" /\ pcr_offset \in Garbage /\ pcr_now = 0
    /\ pcr_seen = FALSE /\ curr_time = 0 /\ synced = FALSE
    /\ scheduler_pc = "fetch" /\ desc = NULL /\ trusted = FALSE
    /\ in_list = [i \in 1..Pool |-> i]
    /\ content = [b \in Buffers |-> <<0, 0>>]
    /\ submitted = <<>> /\ port = "none" /\ first_packet = TRUE
    /\ rendered = <<>>
    /\ aborted = FALSE

(***************************************************************************)
(* The outside                                                             *)
(***************************************************************************)
Tick ==
    /\ ~aborted
    /\ now < MaxTime
    /\ now' = now + 1
    /\ UNCHANGED <<sent, pcrs, queues, packer, pcr, scheduler, sink, aborted>>

SendSlice ==
    /\ ~aborted
    /\ sent < Len(Parts)
    /\ sent' = sent + 1
    /\ sliceq' = Append(sliceq, [timestamp |-> sent + 1,
                                parts     |-> Parts[sent + 1],
                                bufs      |-> <<>>])
    /\ UNCHANGED <<now, pcrs, pcrq, ready, packer, pcr, scheduler, sink, aborted>>

SendPcr(lag) ==
    /\ ~aborted
    /\ pcrs < MaxPcrs
    /\ lag <= now
    /\ pcrs' = pcrs + 1
    /\ pcrq' = Append(pcrq, now - lag)
    /\ UNCHANGED <<now, sent, sliceq, ready, packer, pcr, scheduler, sink, aborted>>

\* empty_buffer_done: the component gives its oldest buffer back.
BufferDone ==
    /\ ~aborted
    /\ submitted # <<>>
    /\ submitted' = Tail(submitted)
    /\ in_list' = Append(in_list, Head(submitted))
    /\ UNCHANGED <<outside, queues, packer, pcr, scheduler, content, port,
                   first_packet, rendered, aborted>>

\* The component has decoded enough to know its output format.
PortSettingsChanged ==
    /\ ~aborted
    /\ port = "none" /\ rendered # <<>>
    /\ port' = "pending"
    /\ UNCHANGED <<outside, queues, packer, pcr, scheduler, in_list, content,
                   submitted, first_packet, rendered, aborted>>

(***************************************************************************)
(* slice_packing_thread()                                                  *)
(***************************************************************************)
\* Mutation: what is ready already is not deducted.
PackerPollLimit ==
    /\ ~aborted
    /\ packer_pc = "poll"
    /\ Len(ready) < Limit
    /\ slice_to_dump' = Limit
    /\ packer_pc' = "get"
    /\ UNCHANGED <<outside, queues, packing, pcr, scheduler, sink, aborted>>

\* The length is read once; the slices that may be dumped are counted down
\* from it.
PackerPoll ==
    /\ ~aborted
    /\ packer_pc = "poll"
    /\ Len(ready) < Limit
    /\ slice_to_dump' = Limit - Len(ready)
    /\ packer_pc' = "get"
    /\ UNCHANGED <<outside, queues, packing, pcr, scheduler, sink, aborted>>

PackerGetNone ==
    /\ ~aborted
    /\ packer_pc = "get" /\ sliceq = <<>>
    /\ packer_pc' = "poll"
    /\ UNCHANGED <<outside, queues, slice_to_dump, packing, pcr, scheduler,
                   sink, aborted>>

PackerGet ==
    /\ ~aborted
    /\ packer_pc = "get" /\ sliceq # <<>>
    /\ packing' = Head(sliceq)
    /\ sliceq' = Tail(sliceq)
    /\ packer_pc' = "fill"
    /\ UNCHANGED <<outside, pcrq, ready, slice_to_dump, pcr, scheduler, sink,
                   aborted>>

\* Mutation: the buffer is used but stays in the list of free buffers.
PackerFillNoUnlink ==
    /\ ~aborted
    /\ packer_pc = "fill" /\ Len(packing.bufs) < packing.parts
    /\ in_list # <<>>
    /\ packing' = [packing EXCEPT !.bufs = Append(@, Head(in_list))]
    /\ content' = [content EXCEPT ![Head(in_list)] =
                      <<packing.timestamp, Len(packing.bufs) + 1>>]
    /\ UNCHANGED <<outside, queues, packer_pc, slice_to_dump, pcr, scheduler,
                   in_list, submitted, port, first_packet, rendered, aborted>>

\* sx_video_sink_buf_get() does not wait: without a free buffer the assertion
\* on its result fails.
PackerFill ==
    /\ ~aborted
    /\ packer_pc = "fill" /\ Len(packing.bufs) < packing.parts
    /\ in_list # <<>>
    /\ packing' = [packing EXCEPT !.bufs = Append(@, Head(in_list))]
    /\ content' = [content EXCEPT ![Head(in_list)] =
                      <<packing.timestamp, Len(packing.bufs) + 1>>]
    /\ in_list' = Tail(in_list)
    /\ UNCHANGED <<outside, queues, packer_pc, slice_to_dump, pcr, scheduler,
                   submitted, port, first_packet, rendered, aborted>>

PackerFails ==
    /\ ~aborted
    /\ packer_pc = "fill" /\ Len(packing.bufs) < packing.parts
    /\ in_list = <<>>
    /\ aborted' = TRUE
    /\ UNCHANGED <<outside, queues, packer, pcr, scheduler, sink>>

\* Mutation: the count of slices that may be dumped runs one past zero.
PackerPutOneMore ==
    /\ ~aborted
    /\ packer_pc = "fill" /\ Len(packing.bufs) = packing.parts
    /\ ready' = Append(ready, packing)
    /\ packing' = NULL
    /\ slice_to_dump' = slice_to_dump - 1
    /\ packer_pc' = IF slice_to_dump >= 0 THEN "get" ELSE "poll"
    /\ UNCHANGED <<outside, sliceq, pcrq, pcr, scheduler, sink, aborted>>

\* Mutation: the slice is put as soon as one buffer of it is full.
PackerPutEarly ==
    /\ ~aborted
    /\ packer_pc = "fill" /\ packing.bufs # <<>>
    /\ ready' = Append(ready, packing)
    /\ packing' = NULL
    /\ slice_to_dump' = slice_to_dump - 1
    /\ packer_pc' = IF slice_to_dump > 1 THEN "get" ELSE "poll"
    /\ UNCHANGED <<outside, sliceq, pcrq, pcr, scheduler, sink, aborted>>

PackerPut ==
    /\ ~aborted
    /\ packer_pc = "fill" /\ Len(packing.bufs) = packing.parts
    /\ ready' = Append(ready, packing)
    /\ packing' = NULL
    /\ slice_to_dump' = slice_to_dump - 1
    /\ packer_pc' = IF slice_to_dump > 1 THEN "get" ELSE "poll"
    /\ UNCHANGED <<outside, sliceq, pcrq, pcr, scheduler, sink, aborted>>

(***************************************************************************)
(* pcr_update_thread()                                                     *)
(***************************************************************************)
\* The clock is read when a PCR is taken, and again in every iteration.
PcrReceive ==
    /\ ~aborted
    /\ pcr_pc = "poll" /\ pcrq # <<>>
    /\ pcr_offset' = Head(pcrq) - now
    /\ pcr_seen' = TRUE
    /\ pcrq' = Tail(pcrq)
    /\ pcr_pc' = "read"
    /\ UNCHANGED <<outside, sliceq, ready, packer, pcr_now, curr_time, synced,
                   scheduler, sink, aborted>>

PcrNone ==
    /\ ~aborted
    /\ pcr_pc = "poll" /\ pcrq = <<>>
    /\ pcr_pc' = "read"
    /\ UNCHANGED <<outside, queues, packer, pcr_offset, pcr_now, pcr_seen, curr_time,
                   synced, scheduler, sink, aborted>>

PcrRead ==
    /\ ~aborted
    /\ pcr_pc = "read"
    /\ pcr_now' = now
    /\ pcr_pc' = "store"
    /\ UNCHANGED <<outside, queues, packer, pcr_offset, pcr_seen, curr_time, synced,
                   scheduler, sink, aborted>>

\* Mutation: the delay of the system is not taken off.
PcrStoreNoDelay ==
    /\ ~aborted
    /\ pcr_pc = "store"
    /\ LET time == pcr_offset + pcr_now
       IN  /\ curr_time' = time % TimeMod
           /\ synced' = (pcr_seen /\ time >= 0)
    /\ pcr_pc' = "poll"
    /\ pcr_now' = 0
    /\ UNCHANGED <<outside, queues, packer, pcr_offset, pcr_seen, scheduler,
                   sink, aborted>>

\* In the arithmetic of UINT64, under f_cblk.lock.
PcrStore ==
    /\ ~aborted
    /\ pcr_pc = "store"
    /\ LET time == pcr_offset + pcr_now - Delay
       IN  /\ curr_time' = time % TimeMod
           /\ synced' = (pcr_seen /\ time >= 0)
    /\ pcr_pc' = "poll"
    /\ pcr_now' = 0
    /\ UNCHANGED <<outside, queues, packer, pcr_offset, pcr_seen, scheduler,
                   sink, aborted>>

(***************************************************************************)
(* video_scheduler_thread()                                                *)
(***************************************************************************)
SchedulerGet ==
    /\ ~aborted
    /\ scheduler_pc = "fetch" /\ ready # <<>>
    /\ desc' = Head(ready)
    /\ ready' = Tail(ready)
    /\ scheduler_pc' = "check"
    /\ UNCHANGED <<outside, sliceq, pcrq, packer, pcr, trusted, sink, aborted>>

\* Mutation: a slice is presented only in the very millisecond after its time.
SchedulerPresentExactly ==
    /\ ~aborted
    /\ scheduler_pc = "check"
    /\ curr_time = desc.timestamp + 1
    /\ trusted' = synced
    /\ scheduler_pc' = "submit"
    /\ UNCHANGED <<outside, queues, packer, pcr, desc, sink, aborted>>

\* estimated_source_time_get(); if it is too early, the descriptor is held and
\* checked again in the next iteration.
SchedulerPresent ==
    /\ ~aborted
    /\ scheduler_pc = "check"
    /\ curr_time > desc.timestamp
    /\ trusted' = synced
    /\ scheduler_pc' = "submit"
    /\ UNCHANGED <<outside, queues, packer, pcr, desc, sink, aborted>>

\* sx_video_sink_buf_set() of the next buffer; after the last the descriptor
\* is freed.  OMX_EmptyThisBuffer() is taken to succeed.
SchedulerSubmit ==
    /\ ~aborted
    /\ scheduler_pc = "submit" /\ port = "none"
    /\ LET b == Head(desc.bufs)
           rest == Tail(desc.bufs)
       IN  /\ submitted' = Append(submitted, b)
           /\ rendered' = Append(rendered, [slice |-> desc.timestamp,
                                            data  |-> content[b],
                                            start |-> first_packet])
           /\ desc' = IF rest = <<>> THEN NULL ELSE [desc EXCEPT !.bufs = rest]
           /\ scheduler_pc' = IF rest = <<>> THEN "fetch" ELSE "submit"
    /\ first_packet' = FALSE
    /\ UNCHANGED <<outside, queues, packer, pcr, trusted, in_list, content, port,
                   aborted>>

\* The first call after the port-settings event sets up the tunnel and then
\* executes assert(rc = 0), an assignment whose value is 0.
SchedulerFails ==
    /\ ~aborted
    /\ scheduler_pc = "submit" /\ port = "pending"
    /\ aborted' = TRUE
    /\ UNCHANGED <<outside, queues, packer, pcr, scheduler, sink>>

Outside ==
    \/ Tick
    \/ SendSlice
    \/ \E lag \in 0..MaxLag : SendPcr(lag)
    \/ PortSettingsChanged

Packer == PackerPoll \/ PackerGetNone \/ PackerGet \/ PackerFill
             \/ PackerFails \/ PackerPut
PcrUpdate == PcrReceive \/ PcrNone \/ PcrRead \/ PcrStore
Scheduler == SchedulerGet \/ SchedulerPresent \/ SchedulerSubmit \/ SchedulerFails

Next == Outside \/ BufferDone \/ Packer \/ PcrUpdate \/ Scheduler

\* Each thread polls for ever, and the component works off what it is given.
Fairness ==
    /\ WF_vars(Packer)
    /\ WF_vars(PcrUpdate)
    /\ WF_vars(Scheduler)
    /\ WF_vars(BufferDone)

Spec == Init /\ [][Next]_vars
FairSpec == Spec /\ Fairness

------------------------------------------------------------------------------
(***************************************************************************)
(* Correctness                                                             *)
(***************************************************************************)
TypeOK ==
    /\ now \in Nat /\ sent \in Nat /\ pcrs \in Nat
    /\ pcr_now \in Nat /\ slice_to_dump \in Nat
    /\ pcr_offset \in Int
    /\ curr_time \in 0..(TimeMod - 1)
    /\ sliceq \in Seq(Slice) /\ ready \in Seq(Slice)
    /\ pcrq \in Seq(Nat)
    /\ packer_pc \in {"poll", "get", "fill"}
    /\ packer_pc = "fill" <=> packing # NULL
    /\ packing # NULL => packing \in Slice
    /\ pcr_pc \in {"poll", "read", "store"}
    /\ scheduler_pc \in {"fetch", "check", "submit"}
    /\ scheduler_pc = "fetch" <=> desc = NULL
    /\ desc # NULL => desc \in Slice /\ desc.bufs # <<>>
    /\ in_list \in Seq(Buffers) /\ submitted \in Seq(Buffers)
    /\ content \in [Buffers -> Nat \X Nat]
    /\ port \in {"none", "pending"}
    /\ pcr_seen \in BOOLEAN /\ synced \in BOOLEAN /\ trusted \in BOOLEAN
    /\ first_packet \in BOOLEAN /\ aborted \in BOOLEAN

\* SLICE_READY never holds more than Limit slices, although the packing thread
\* reads the length once, without a lock held, and puts up to Limit - len
\* slices afterwards (sx_mgmt_video_scheduler.c:196-219).
ReadyBounded ==
    /\ Len(ready) <= Limit
    /\ packer_pc # "poll" => Len(ready) + slice_to_dump <= Limit

BufsOf(slice) == IF slice = NULL THEN <<>> ELSE slice.bufs

\* The buffers that are free, with the component, and in the chain of each slice.
Chains == <<in_list, submitted, BufsOf(packing), BufsOf(desc)>>
              \o [i \in 1..Len(ready) |-> ready[i].bufs]

Places(b) ==
    LET C == Chains
    IN  {p \in (1..Len(C)) \X (1..Pool) : p[2] <= Len(C[p[1]]) /\ C[p[1]][p[2]] = b}

\* A hardware buffer is in one place at a time: free, being filled, filled and
\* waiting, about to be submitted, or with the component.  None is lost and
\* none is filled again while it is in use
\* (sx_mgmt_video_scheduler.c:75-79, 148-152, 339-349).
BufferInOnePlace == \A b \in Buffers : \E place \in Places(b) : Places(b) = {place}

\* The component receives the slices in the order they were put on SLICE, none
\* before all parts of the one before it, its buffers in the order they were filled
\* and with the data they were filled with; only the very first is marked as the start
\* (sx_mgmt_video_scheduler.c:158-185, 338-349, sx_video_sink.c:239-243).
RenderedInOrder ==
    \A i \in 1..Len(rendered) :
        /\ rendered[i].data[1] = rendered[i].slice
        /\ rendered[i].start = (i = 1)
        /\ i = 1 => rendered[i].data = <<1, 1>>
        /\ i > 1 => \/ /\ rendered[i].slice = rendered[i - 1].slice
                       /\ rendered[i].data[2] = rendered[i - 1].data[2] + 1
                    \/ /\ rendered[i].slice = rendered[i - 1].slice + 1
                       /\ rendered[i].data[2] = 1
                       /\ rendered[i - 1].data[2] = Parts[rendered[i - 1].slice]

\* Once a PCR has arrived and unless the subtraction of the delays underflowed,
\* no slice is approved before the source's clock is Delay past its time: a
\* stale curr_time, a late PCR or a slow thread can only make it later
\* (sx_mgmt_video_scheduler.c:254-279, 328-336).
NeverEarlyWhenSynced ==
    scheduler_pc = "submit" /\ trusted => now - Delay > desc.timestamp

\* If the estimated time passes the time of every slice for good, whatever was
\* put on SLICE reaches the component: no thread waits for another for ever,
\* though the packing thread stops while SLICE_READY is full
\* (sx_mgmt_video_scheduler.c:192-225, 308-361).
Drained ==
    <>[](curr_time > Len(Parts)) =>
        []<>(\/ aborted
             \/ sliceq = <<>> /\ packing = NULL /\ ready = <<>> /\ desc = NULL)

(***************************************************************************)
(* What the code takes for granted and does not ensure                     *)
(***************************************************************************)

\* "record its PTS, know when to render this slice"
\* (sx_mgmt_video_decoder.c:384-385): no slice is approved before its time.
NeverEarly == scheduler_pc = "submit" => now - Delay > desc.timestamp
=============================================================================
