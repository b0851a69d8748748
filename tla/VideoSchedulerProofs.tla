------------------------- MODULE VideoSchedulerProofs -------------------------
(***************************************************************************)
(* The video scheduler for any number of hardware buffers, any limit, any  *)
(* slices, delays and clock: SLICE_READY stays bounded; once the clock of  *)
(* the source is known, no slice is approved before its time; every buffer *)
(* is in one place; and the component receives the slices whole, in order. *)
(***************************************************************************)
EXTENDS VideoScheduler, FiniteSetTheorems, ProofLemmas

\* A thread that is past its poll may still put at least one slice.
MayPut == packer_pc # "poll" => slice_to_dump >= 1

\* A slice that is ready fills at least one buffer.
ReadyFilled == \A i \in 1..Len(ready) : ready[i].bufs # <<>>

\* No reading of a clock is ahead of the clock, and neither is what is computed
\* from readings: the PCRs on their way, the offset taken from one, the local
\* time, and f_cblk.curr_time, which is Delay behind.
ClockBehind ==
    /\ now <= MaxTime
    /\ \A i \in 1..Len(pcrq) : pcrq[i] <= now
    /\ pcr_seen => pcr_offset <= 0
    /\ pcr_now <= now
    /\ synced => curr_time + Delay <= now

IInv ==
    /\ TypeOK
    /\ MayPut
    /\ ReadyFilled
    /\ ReadyBounded
    /\ ClockBehind
    /\ NeverEarlyWhenSynced

LEMMA ModRange ==
  ASSUME NEW a \in Int, NEW b \in Nat \ {0}
  PROVE  /\ a % b \in 0..(b - 1)
         /\ a \in 0..(b - 1) => a % b = a
OBVIOUS

LEMMA InitInv == Init => IInv
<1> SUFFICES ASSUME Init PROVE IInv
  OBVIOUS
<1>1. <<>> \in Seq(Slice) /\ <<>> \in Seq(Nat) /\ <<>> \in Seq(Buffers)
  BY EmptySeq
<1>2. in_list \in Seq(Buffers)
  <2>1. Pool \in Nat
    BY SchedulerAssumption
  <2>2. in_list \in [1..Pool -> Buffers]
    BY DEF Init, Buffers
  <2> QED
    BY <2>1, <2>2, SeqDef
<1>3. pcr_offset \in Int /\ 0 \in 0..(TimeMod - 1)
  BY SchedulerAssumption DEF Init
<1>4. TypeOK
  BY <1>1, <1>2, <1>3 DEF Init, TypeOK
<1>5. MayPut /\ ReadyFilled /\ ReadyBounded /\ ClockBehind /\ NeverEarlyWhenSynced
  BY SchedulerAssumption, EmptySeq
     DEF Init, MayPut, ReadyFilled, ReadyBounded, ClockBehind, NeverEarlyWhenSynced
<1> QED
  BY <1>4, <1>5 DEF IInv

\* What the clocks and the senders outside do.
LEMMA OutsideInv ==
  ASSUME IInv, Outside
  PROVE  IInv'
<1> USE DEF IInv
<1>1. CASE Tick
  <2>1. TypeOK'
    BY <1>1 DEF Tick, TypeOK, queues, packer, pcr, scheduler, sink
  <2>2. MayPut' /\ ReadyFilled' /\ ReadyBounded'
    BY <1>1 DEF Tick, MayPut, ReadyFilled, ReadyBounded, queues, packer
  <2>3. ClockBehind' /\ NeverEarlyWhenSynced'
    BY <1>1, SchedulerAssumption
       DEF Tick, TypeOK, ClockBehind, NeverEarlyWhenSynced, queues, pcr, scheduler,
           Slice
  <2> QED
    BY <2>1, <2>2, <2>3
<1>2. CASE SendSlice
  <2>1. /\ sent' = sent + 1
        /\ \E n \in Nat \ {0} :
              sliceq' = Append(sliceq, [timestamp |-> sent + 1, parts |-> n,
                                        bufs |-> <<>>])
    <3>1. sent + 1 \in 1..Len(Parts)
      BY <1>2, SchedulerAssumption DEF SendSlice, TypeOK
    <3>2. Parts[sent + 1] \in Nat \ {0}
      BY <3>1, SchedulerAssumption, ElementOfSeq
    <3> QED
      BY <1>2, <3>2 DEF SendSlice
  <2>2. sliceq' \in Seq(Slice)
    BY <2>1, Appended, EmptySeq DEF TypeOK, Slice
  <2>3. TypeOK'
    BY <1>2, <2>1, <2>2 DEF SendSlice, TypeOK, packer, pcr, scheduler, sink
  <2> QED
    BY <1>2, <2>3
       DEF SendSlice, MayPut, ReadyFilled, ReadyBounded, ClockBehind,
           NeverEarlyWhenSynced, packer, pcr, scheduler
<1>3. ASSUME NEW lag \in 0..MaxLag, SendPcr(lag)
      PROVE  IInv'
  <2>1. now - lag \in Nat /\ now - lag <= now
    BY <1>3, SchedulerAssumption DEF SendPcr, TypeOK
  <2>2. /\ pcrq' \in Seq(Nat)
        /\ Len(pcrq') = Len(pcrq) + 1
        /\ pcrq'[Len(pcrq) + 1] = now - lag
        /\ \A i \in 1..Len(pcrq) : pcrq'[i] = pcrq[i]
    BY <1>3, <2>1, Appended DEF SendPcr, TypeOK
  <2>3. \A i \in 1..Len(pcrq') : pcrq'[i] <= now
    <3>1. Len(pcrq) \in Nat
      BY LenProperties DEF TypeOK
    <3> QED
      BY <2>1, <2>2, <3>1 DEF ClockBehind
  <2>4. TypeOK'
    BY <1>3, <2>2 DEF SendPcr, TypeOK, packer, pcr, scheduler, sink
  <2> QED
    BY <1>3, <2>3, <2>4
       DEF SendPcr, MayPut, ReadyFilled, ReadyBounded, ClockBehind,
           NeverEarlyWhenSynced, packer, pcr, scheduler
<1>4. CASE PortSettingsChanged
  BY <1>4
     DEF PortSettingsChanged, TypeOK, MayPut, ReadyFilled, ReadyBounded,
         ClockBehind, NeverEarlyWhenSynced, outside, queues, packer, pcr, scheduler
<1> QED
  BY <1>1, <1>2, <1>3, <1>4 DEF Outside

LEMMA BufferDoneInv ==
  ASSUME IInv, BufferDone
  PROVE  IInv'
<1> USE DEF IInv
<1>1. in_list' \in Seq(Buffers) /\ submitted' \in Seq(Buffers)
  BY HeadTail, Appended DEF BufferDone, TypeOK
<1>2. TypeOK'
  BY <1>1 DEF BufferDone, TypeOK, outside, queues, packer, pcr, scheduler
<1> QED
  BY <1>2
     DEF BufferDone, MayPut, ReadyFilled, ReadyBounded, ClockBehind,
         NeverEarlyWhenSynced, outside, queues, packer, pcr, scheduler

\* slice_packing_thread(): it changes neither the clocks nor what the scheduler
\* thread holds.
LEMMA PackerInv ==
  ASSUME IInv, Packer
  PROVE  IInv'
<1> USE DEF IInv
<1>1. ClockBehind' /\ NeverEarlyWhenSynced'
  BY DEF Packer, PackerPoll, PackerGetNone, PackerGet, PackerFill, PackerFails,
         PackerPut, ClockBehind, NeverEarlyWhenSynced, outside, queues, pcr, scheduler
<1>2. Len(ready) \in Nat
  BY LenProperties DEF TypeOK
<1>3. CASE PackerPoll
  <2>1. /\ slice_to_dump' \in Nat /\ slice_to_dump' >= 1
        /\ Len(ready) + slice_to_dump' <= Limit
    BY <1>2, <1>3, SchedulerAssumption DEF PackerPoll
  <2>2. TypeOK'
    BY <1>3, <2>1 DEF PackerPoll, TypeOK, outside, queues, pcr, scheduler, sink
  <2>3. MayPut' /\ ReadyFilled' /\ ReadyBounded'
    BY <1>3, <2>1 DEF PackerPoll, MayPut, ReadyFilled, ReadyBounded, queues
  <2> QED
    BY <1>1, <2>2, <2>3
<1>4. CASE PackerGetNone
  BY <1>1, <1>2, <1>4
     DEF PackerGetNone, TypeOK, MayPut, ReadyFilled, ReadyBounded, outside, queues,
         pcr, scheduler, sink
<1>5. CASE PackerGet
  <2>1. packing' \in Slice /\ packing' # NULL /\ sliceq' \in Seq(Slice)
    BY <1>5, HeadTail, NullAssumption DEF PackerGet, TypeOK
  <2>2. TypeOK'
    BY <1>5, <2>1 DEF PackerGet, TypeOK, outside, pcr, scheduler, sink
  <2> QED
    BY <1>1, <1>5, <2>2 DEF PackerGet, MayPut, ReadyFilled, ReadyBounded
<1>6. CASE PackerFill
  <2>1. /\ packing \in Slice
        /\ Head(in_list) \in Buffers
        /\ in_list' \in Seq(Buffers)
    BY <1>6, HeadTail DEF PackerFill, TypeOK
  <2>2. packing' \in Slice /\ packing' # NULL
    <3>1. Append(packing.bufs, Head(in_list)) \in Seq(Buffers)
      BY <2>1, Appended DEF Slice
    <3>2. packing' = [packing EXCEPT !.bufs = Append(packing.bufs, Head(in_list))]
      BY <1>6 DEF PackerFill
    <3> QED
      BY <2>1, <3>1, <3>2, NullAssumption DEF Slice
  <2>3. content' \in [Buffers -> Nat \X Nat]
    <3>1. packing.timestamp \in Nat /\ Len(packing.bufs) + 1 \in Nat
      BY <2>1, LenProperties DEF Slice
    <3>2. content' = [content EXCEPT ![Head(in_list)] =
                         <<packing.timestamp, Len(packing.bufs) + 1>>]
      BY <1>6 DEF PackerFill
    <3> QED
      BY <2>1, <3>1, <3>2 DEF TypeOK
  <2>4. TypeOK'
    BY <1>6, <2>1, <2>2, <2>3 DEF PackerFill, TypeOK, outside, queues, pcr, scheduler
  <2> QED
    BY <1>1, <1>6, <2>4 DEF PackerFill, MayPut, ReadyFilled, ReadyBounded, queues
<1>7. CASE PackerFails
  BY <1>1, <1>7
     DEF PackerFails, TypeOK, MayPut, ReadyFilled, ReadyBounded, outside, queues,
         packer, pcr, scheduler, sink
<1>8. CASE PackerPut
  <2>1. packing \in Slice /\ packing.bufs # <<>>
    BY <1>8, EmptySeq DEF PackerPut, TypeOK, Slice
  <2>2. /\ ready' \in Seq(Slice)
        /\ Len(ready') = Len(ready) + 1
        /\ ready'[Len(ready) + 1] = packing
        /\ \A i \in 1..Len(ready) : ready'[i] = ready[i]
    BY <1>8, <2>1, Appended DEF PackerPut, TypeOK
  <2>3. ReadyFilled'
    BY <1>2, <2>1, <2>2 DEF ReadyFilled
  <2>4. slice_to_dump \in Nat /\ slice_to_dump >= 1
    BY <1>8 DEF PackerPut, MayPut, TypeOK
  <2>5. TypeOK' /\ MayPut' /\ ReadyBounded'
    BY <1>2, <1>8, <2>2, <2>4, SchedulerAssumption
       DEF PackerPut, TypeOK, MayPut, ReadyBounded, outside, pcr, scheduler, sink
  <2> QED
    BY <1>1, <2>3, <2>5
<1> QED
  BY <1>3, <1>4, <1>5, <1>6, <1>7, <1>8 DEF Packer

\* pcr_update_thread(): what it computes from its readings stays behind the clock.
LEMMA PcrUpdateInv ==
  ASSUME IInv, PcrUpdate
  PROVE  IInv'
<1> USE DEF IInv
<1>1. MayPut' /\ ReadyFilled' /\ ReadyBounded' /\ NeverEarlyWhenSynced'
  BY DEF PcrUpdate, PcrReceive, PcrNone, PcrRead, PcrStore, MayPut, ReadyFilled,
         ReadyBounded, NeverEarlyWhenSynced, outside, queues, packer, scheduler
<1>2. CASE PcrReceive
  <2>1. /\ Head(pcrq) \in Nat /\ Head(pcrq) <= now
        /\ pcrq' \in Seq(Nat)
        /\ \A i \in 1..Len(pcrq') : pcrq'[i] <= now
    <3>1. pcrq \in Seq(Nat) /\ pcrq # <<>> /\ pcrq' = Tail(pcrq)
      BY <1>2 DEF PcrReceive, TypeOK
    <3> QED
      BY <3>1, HeadTail DEF ClockBehind
  <2>2. ClockBehind'
    BY <1>2, <2>1 DEF PcrReceive, TypeOK, ClockBehind, outside
  <2>3. TypeOK'
    BY <1>2, <2>1 DEF PcrReceive, TypeOK, outside, packer, scheduler, sink
  <2> QED
    BY <1>1, <2>2, <2>3
<1>3. CASE PcrNone
  BY <1>1, <1>3
     DEF PcrNone, TypeOK, ClockBehind, outside, queues, packer, scheduler, sink
<1>5. CASE PcrRead
  BY <1>1, <1>5
     DEF PcrRead, TypeOK, ClockBehind, outside, queues, packer, scheduler, sink
<1>4. CASE PcrStore
  <2> DEFINE time == pcr_offset + pcr_now - Delay
  <2>1. /\ curr_time' = time % TimeMod
        /\ synced' = (pcr_seen /\ time >= 0)
    BY <1>4 DEF PcrStore
  <2>2. time \in Int /\ TimeMod \in Nat \ {0} /\ Delay \in Nat
    BY SchedulerAssumption DEF TypeOK
  <2>3. curr_time' \in 0..(TimeMod - 1)
    BY <2>1, <2>2, ModRange
  <2>4. ASSUME synced' PROVE curr_time' + Delay <= now
    <3>0. pcr_seen /\ time >= 0
      BY <2>1, <2>4
    <3>1. time + Delay <= now /\ time \in 0..(TimeMod - 1)
      BY <2>2, <3>0, SchedulerAssumption DEF TypeOK, ClockBehind
    <3>2. curr_time' = time
      BY <2>1, <2>2, <3>1, ModRange
    <3> QED
      BY <3>1, <3>2
  <2>5. ClockBehind'
    <3>1. now' = now /\ pcrq' = pcrq /\ pcr_offset' = pcr_offset
          /\ pcr_seen' = pcr_seen /\ pcr_now' = 0
      BY <1>4 DEF PcrStore, outside, queues
    <3> QED
      BY <3>1, <2>4 DEF ClockBehind, TypeOK
  <2>6. synced' \in BOOLEAN
    BY <2>1, <2>2 DEF TypeOK
  <2>7. TypeOK'
    BY <1>4, <2>3, <2>6
       DEF PcrStore, TypeOK, outside, queues, packer, scheduler, sink
  <2> QED
    BY <1>1, <2>5, <2>7
<1> QED
  BY <1>2, <1>3, <1>4, <1>5 DEF PcrUpdate

\* video_scheduler_thread(): it only takes from SLICE_READY, and it approves a
\* slice on a time that is behind the clock.
LEMMA SchedulerInv ==
  ASSUME IInv, Scheduler
  PROVE  IInv'
<1> USE DEF IInv
<1>1. ClockBehind'
  BY DEF Scheduler, SchedulerGet, SchedulerPresent, SchedulerSubmit, SchedulerFails,
         ClockBehind, outside, queues, pcr
<1>2. CASE SchedulerGet
  <2>1. /\ desc' = ready[1] /\ desc' \in Slice /\ desc' # NULL
        /\ ready' \in Seq(Slice)
        /\ Len(ready) \in Nat /\ Len(ready') = Len(ready) - 1
        /\ \A i \in 1..Len(ready') : ready'[i] = ready[i + 1]
        /\ 1 \in 1..Len(ready)
        /\ \A i \in 1..Len(ready') : i + 1 \in 1..Len(ready)
    <3>1. ready \in Seq(Slice) /\ ready # <<>>
      BY <1>2 DEF SchedulerGet, TypeOK
    <3>2. desc' = Head(ready) /\ ready' = Tail(ready)
      BY <1>2 DEF SchedulerGet
    <3> QED
      BY <3>1, <3>2, HeadTail, NullAssumption
  <2>2. desc'.bufs # <<>>
    BY <2>1 DEF ReadyFilled
  <2>3. ReadyFilled'
    BY <2>1 DEF ReadyFilled
  <2>4. TypeOK'
    BY <1>2, <2>1, <2>2 DEF SchedulerGet, TypeOK, outside, packer, pcr, sink
  <2>5. MayPut' /\ ReadyBounded' /\ NeverEarlyWhenSynced'
    BY <1>2, <2>1, SchedulerAssumption
       DEF SchedulerGet, TypeOK, MayPut, ReadyBounded, NeverEarlyWhenSynced, packer
  <2> QED
    BY <1>1, <2>3, <2>4, <2>5
<1>3. CASE SchedulerPresent
  <2>1. TypeOK'
    BY <1>3 DEF SchedulerPresent, TypeOK, outside, queues, packer, pcr, sink
  <2>2. NeverEarlyWhenSynced'
    <3>1. desc \in Slice /\ desc' = desc /\ now' = now /\ trusted' = synced
          /\ curr_time > desc.timestamp
      BY <1>3 DEF SchedulerPresent, TypeOK, outside
    <3>2. desc.timestamp \in Nat /\ curr_time \in Nat /\ now \in Nat /\ Delay \in Nat
      BY <3>1, SchedulerAssumption DEF TypeOK, Slice
    <3> QED
      BY <3>1, <3>2 DEF NeverEarlyWhenSynced, ClockBehind
  <2> QED
    BY <1>1, <1>3, <2>1, <2>2
       DEF SchedulerPresent, MayPut, ReadyFilled, ReadyBounded, queues, packer
<1>4. CASE SchedulerSubmit
  <2> DEFINE rest == Tail(desc.bufs)
  <2>1. /\ desc \in Slice /\ desc.bufs \in Seq(Buffers) /\ desc.bufs # <<>>
    BY <1>4 DEF SchedulerSubmit, TypeOK, Slice
  <2>2. Head(desc.bufs) \in Buffers /\ rest \in Seq(Buffers)
    BY <2>1, HeadTail
  <2>3. /\ submitted' = Append(submitted, Head(desc.bufs))
        /\ desc' = IF rest = <<>> THEN NULL ELSE [desc EXCEPT !.bufs = rest]
        /\ scheduler_pc' = IF rest = <<>> THEN "fetch" ELSE "submit"
        /\ first_packet' = FALSE
        /\ UNCHANGED <<outside, queues, packer, pcr, trusted, in_list, content,
                       port, aborted>>
    BY <1>4 DEF SchedulerSubmit
  <2>4. submitted' \in Seq(Buffers)
    BY <2>2, <2>3, Appended DEF TypeOK
  <2>5. rest # <<>> =>
           /\ desc' \in Slice /\ desc'.bufs # <<>> /\ desc' # NULL
           /\ desc'.timestamp = desc.timestamp
    BY <2>1, <2>2, <2>3, NullAssumption DEF Slice
  <2>6. TypeOK'
    BY <2>3, <2>4, <2>5 DEF TypeOK, outside, queues, packer, pcr
  <2>7. NeverEarlyWhenSynced'
    BY <1>4, <2>3, <2>5 DEF SchedulerSubmit, NeverEarlyWhenSynced, outside
  <2> QED
    BY <1>1, <2>3, <2>6, <2>7 DEF MayPut, ReadyFilled, ReadyBounded, queues, packer
<1>5. CASE SchedulerFails
  BY <1>1, <1>5
     DEF SchedulerFails, TypeOK, MayPut, ReadyFilled, ReadyBounded,
         NeverEarlyWhenSynced, outside, queues, packer, pcr, scheduler, sink
<1> QED
  BY <1>2, <1>3, <1>4, <1>5 DEF Scheduler

LEMMA StepInv == IInv /\ [Next]_vars => IInv'
<1> SUFFICES ASSUME IInv, [Next]_vars PROVE IInv'
  OBVIOUS
<1>1. CASE UNCHANGED vars
  BY <1>1
     DEF IInv, TypeOK, MayPut, ReadyFilled, ReadyBounded, ClockBehind,
         NeverEarlyWhenSynced, vars, outside, queues, packer, pcr, scheduler, sink
<1> QED
  BY <1>1, OutsideInv, BufferDoneInv, PackerInv, PcrUpdateInv, SchedulerInv DEF Next

\* The inductive invariant, of every reachable state.
THEOREM Invariance == Spec => []IInv
BY InitInv, StepInv, PTL DEF Spec

\* The variables of the three threads, the queues and the sink keep their types;
\* slice_to_dump never goes below zero.
THEOREM TypeCorrect == Spec => []TypeOK
BY Invariance, PTL DEF IInv

\* SLICE_READY never holds more than Limit slices, although its length is read
\* once for several puts (sx_mgmt_video_scheduler.c:196-219).
THEOREM ReadyBoundedCorrect == Spec => []ReadyBounded
BY Invariance, PTL DEF IInv

\* A slice approved on a synchronised clock is at least Delay past its time
\* (sx_mgmt_video_scheduler.c:254-279, 328-336).
THEOREM NeverEarlyCorrect == Spec => []NeverEarlyWhenSynced
BY Invariance, PTL DEF IInv

------------------------------------------------------------------------------
(***************************************************************************)
(* A hardware buffer is in one place                                       *)
(***************************************************************************)
\* Every buffer is in one of the chains C, once.
OneEach(C) ==
    /\ \A k, l \in 1..Len(C) : \A i \in 1..Len(C[k]), j \in 1..Len(C[l]) :
          C[k][i] = C[l][j] => k = l /\ i = j
    /\ \A b \in Buffers : \E k \in 1..Len(C) : \E i \in 1..Len(C[k]) : C[k][i] = b

Chained == Seq(Seq(Buffers))

\* The chains as the state has them: the four of one thread each, then those ready.
ChainsOf(free, with, pack, hold, rdy) ==
    <<free, with, pack, hold>> \o [i \in 1..Len(rdy) |-> rdy[i].bufs]

AreChains(C, free, with, pack, hold, rdy) ==
    /\ C \in Chained /\ Len(rdy) \in Nat /\ Len(C) = 4 + Len(rdy)
    /\ C[1] = free /\ C[2] = with /\ C[3] = pack /\ C[4] = hold
    /\ \A k \in 5..Len(C) : k - 4 \in 1..Len(rdy) /\ C[k] = rdy[k - 4].bufs

LEMMA ChainsAre ==
  ASSUME NEW free \in Seq(Buffers), NEW with \in Seq(Buffers), NEW pack \in Seq(Buffers),
         NEW hold \in Seq(Buffers), NEW rdy \in Seq(Slice)
  PROVE  AreChains(ChainsOf(free, with, pack, hold, rdy), free, with, pack, hold, rdy)
<1> DEFINE four == <<free, with, pack, hold>>
           more == [i \in 1..Len(rdy) |-> rdy[i].bufs]
<1>1. Len(rdy) \in Nat /\ \A i \in 1..Len(rdy) : rdy[i] \in Slice
  BY LenProperties, ElementOfSeq
<1>2. four \in Seq(Seq(Buffers)) /\ Len(four) = 4
  OBVIOUS
<1>3. more \in Seq(Seq(Buffers)) /\ Len(more) = Len(rdy)
  <2>1. \A i \in 1..Len(rdy) : rdy[i].bufs \in Seq(Buffers)
    BY <1>1 DEF Slice
  <2> QED
    BY <1>1, <2>1, IsASeq
<1> DEFINE C == four \o more
<1>4. /\ C \in Seq(Seq(Buffers)) /\ Len(C) = 4 + Len(rdy)
      /\ \A k \in 1..(4 + Len(rdy)) : C[k] = IF k <= 4 THEN four[k] ELSE more[k - 4]
  BY <1>2, <1>3, ConcatProperties
<1>5. /\ C[1] = four[1] /\ C[2] = four[2] /\ C[3] = four[3] /\ C[4] = four[4]
  <2>1. /\ 1 \in 1..(4 + Len(rdy)) /\ 2 \in 1..(4 + Len(rdy))
        /\ 3 \in 1..(4 + Len(rdy)) /\ 4 \in 1..(4 + Len(rdy))
    BY <1>1
  <2> QED
    BY <1>4, <2>1
<1>6. ASSUME NEW k \in 5..(4 + Len(rdy))
      PROVE  k - 4 \in 1..Len(rdy) /\ C[k] = rdy[k - 4].bufs
  <2>1. k - 4 \in 1..Len(rdy) /\ k \in 1..(4 + Len(rdy)) /\ ~(k <= 4)
    BY <1>1
  <2> QED
    BY <1>4, <2>1
<1> QED
  BY <1>1, <1>4, <1>5, <1>6 DEF AreChains, ChainsOf, Chained

LEMMA Position ==
  \A n \in Nat : \A i \in 1..n : i \in Nat \ {0}
OBVIOUS

\* The first buffer of one chain becomes the last of another.
LEMMA HandedOver ==
  ASSUME NEW C \in Chained, NEW D \in Chained, Len(D) = Len(C),
         NEW a \in 1..Len(C), NEW z \in 1..Len(C), a # z, C[a] # <<>>,
         D[a] = Tail(C[a]), D[z] = Append(C[z], Head(C[a])),
         \A k \in 1..Len(C) : k # a /\ k # z => D[k] = C[k],
         OneEach(C)
  PROVE  OneEach(D)
<1> DEFINE From(k, i, p, q) ==
             \/ k = z /\ i = Len(C[z]) + 1 /\ p = a /\ q = 1
             \/ k = a /\ p = a /\ q = i + 1
             \/ k # a /\ ~(k = z /\ i = Len(C[z]) + 1) /\ p = k /\ q = i
<1>1. \A k \in 1..Len(C) : C[k] \in Seq(Buffers) /\ Len(C[k]) \in Nat
  BY ElementOfSeq, LenProperties DEF Chained
<1>2. /\ Head(C[a]) = C[a][1] /\ Head(C[a]) \in Buffers
      /\ Len(C[a]) \in Nat \ {0} /\ Len(D[a]) = Len(C[a]) - 1
      /\ \A i \in 1..(Len(C[a]) - 1) : D[a][i] = C[a][i + 1]
  BY <1>1, HeadTail
<1>3. /\ Len(D[z]) = Len(C[z]) + 1 /\ D[z][Len(C[z]) + 1] = C[a][1]
      /\ \A i \in 1..Len(C[z]) : D[z][i] = C[z][i]
  BY <1>1, <1>2, Appended
<1>4. ASSUME NEW k \in 1..Len(D), NEW i \in 1..Len(D[k])
      PROVE  \E p \in 1..Len(C) : \E q \in 1..Len(C[p]) :
                 From(k, i, p, q) /\ C[p][q] = D[k][i]
  <2>1. CASE k = z /\ i = Len(C[z]) + 1
    <3>1. 1 \in 1..Len(C[a]) /\ From(k, i, a, 1)
      BY <1>2, <2>1
    <3>2. C[a][1] = D[k][i]
      BY <1>3, <2>1
    <3> QED
      BY <3>1, <3>2
  <2>2. CASE k = a
    <3>1. i \in 1..(Len(C[a]) - 1)
      BY <1>2, <2>2
    <3>2. i + 1 \in 1..Len(C[a]) /\ From(k, i, a, i + 1)
      BY <1>2, <2>2, <3>1
    <3>3. C[a][i + 1] = D[k][i]
      BY <1>2, <2>2, <3>1
    <3> QED
      BY <3>2, <3>3
  <2>3. CASE k # a /\ ~(k = z /\ i = Len(C[z]) + 1)
    <3>1. k = z => i \in 1..Len(C[z])
      BY <1>1, <1>3, <2>3
    <3>2. From(k, i, k, i) /\ k \in 1..Len(C)
      BY <2>3
    <3>3. i \in 1..Len(C[k]) /\ C[k][i] = D[k][i]
      BY <1>3, <2>3, <3>1, <3>2
    <3> QED
      BY <3>2, <3>3
  <2> QED
    BY <2>1, <2>2, <2>3
<1>5. ASSUME NEW k \in 1..Len(D), NEW i \in 1..Len(D[k]),
             NEW l \in 1..Len(D), NEW j \in 1..Len(D[l]), D[k][i] = D[l][j]
      PROVE  k = l /\ i = j
  <2> HIDE DEF From
  <2>1. PICK k1 \in 1..Len(C) : \E i1 \in 1..Len(C[k1]) :
            From(k, i, k1, i1) /\ C[k1][i1] = D[k][i]
    BY <1>4
  <2>2. PICK i1 \in 1..Len(C[k1]) : From(k, i, k1, i1) /\ C[k1][i1] = D[k][i]
    BY <2>1
  <2>3. PICK l1 \in 1..Len(C) : \E j1 \in 1..Len(C[l1]) :
            From(l, j, l1, j1) /\ C[l1][j1] = D[l][j]
    BY <1>4
  <2>4. PICK j1 \in 1..Len(C[l1]) : From(l, j, l1, j1) /\ C[l1][j1] = D[l][j]
    BY <2>3
  <2>5. C[k1][i1] = C[l1][j1]
    BY <1>5, <2>2, <2>4
  <2>6. k1 = l1 /\ i1 = j1
    <3>1. \A m, n \in 1..Len(C) : \A x \in 1..Len(C[m]), y \in 1..Len(C[n]) :
             C[m][x] = C[n][y] => m = n /\ x = y
      BY DEF OneEach
    <3>2. /\ k1 \in 1..Len(C) /\ i1 \in 1..Len(C[k1])
          /\ l1 \in 1..Len(C) /\ j1 \in 1..Len(C[l1])
      BY <2>1, <2>2, <2>3, <2>4
    <3>3. \A x \in 1..Len(C[k1]), y \in 1..Len(C[l1]) :
             C[k1][x] = C[l1][y] => k1 = l1 /\ x = y
      BY <3>1, <3>2
    <3> QED
      BY <2>5, <3>2, <3>3
  <2>7. i \in Nat \ {0} /\ j \in Nat \ {0}
    <3>1. Len(D[k]) \in Nat /\ Len(D[l]) \in Nat
      BY <1>5, ElementOfSeq, LenProperties DEF Chained
    <3>2. i \in 1..Len(D[k]) /\ j \in 1..Len(D[l])
      BY <1>5
    <3> QED
      BY <3>1, <3>2, Position, Zenon
  <2>8. From(k, i, k1, i1) /\ From(l, j, k1, i1)
    BY <2>2, <2>4, <2>6
  <2> QED
    BY <2>7, <2>8 DEF From
<1>6. ASSUME NEW b \in Buffers
      PROVE  \E k \in 1..Len(D) : \E i \in 1..Len(D[k]) : D[k][i] = b
  <2>1. PICK k \in 1..Len(C) : \E i \in 1..Len(C[k]) : C[k][i] = b
    BY DEF OneEach
  <2>2. PICK i \in 1..Len(C[k]) : C[k][i] = b
    BY <2>1
  <2>3. CASE k = a /\ i = 1
    <3>1. Len(C[z]) + 1 \in 1..Len(D[z])
      BY <1>1, <1>3
    <3> QED
      BY <1>3, <2>2, <2>3, <3>1
  <2>4. CASE k = a /\ i # 1
    <3>1. i - 1 \in 1..(Len(C[a]) - 1) /\ (i - 1) + 1 = i
      BY <1>2, <2>2, <2>4
    <3>2. D[a][i - 1] = b
      BY <1>2, <2>2, <2>4, <3>1
    <3> QED
      BY <1>2, <3>1, <3>2
  <2>5. CASE k = z
    <3>1. i \in 1..Len(D[z])
      BY <1>1, <1>3, <2>2, <2>5
    <3> QED
      BY <1>3, <2>2, <2>5, <3>1
  <2>6. CASE k # a /\ k # z
    BY <2>2, <2>6
  <2> QED
    BY <2>3, <2>4, <2>5, <2>6
<1> HIDE DEF From
<1> QED
  BY <1>5, <1>6 DEF OneEach

\* Chains change their places but not what is in them.
LEMMA Renumbered ==
  ASSUME NEW C \in Chained, NEW D \in Chained, NEW h \in [1..Len(D) -> Int],
         \A k \in 1..Len(D) : D[k] # <<>> => h[k] \in 1..Len(C) /\ D[k] = C[h[k]],
         \A k, l \in 1..Len(D) : D[k] # <<>> /\ D[l] # <<>> /\ h[k] = h[l] => k = l,
         \A l \in 1..Len(C) : C[l] # <<>> => \E k \in 1..Len(D) : D[k] = C[l],
         OneEach(C)
  PROVE  OneEach(D)
<1>1. ASSUME NEW E \in Chained, NEW k \in 1..Len(E), NEW i \in 1..Len(E[k])
      PROVE  E[k] # <<>>
  <2>1. E[k] \in Seq(Buffers)
    BY ElementOfSeq DEF Chained
  <2> QED
    BY <2>1, EmptySeq
<1>2. ASSUME NEW k \in 1..Len(D), NEW i \in 1..Len(D[k]),
             NEW l \in 1..Len(D), NEW j \in 1..Len(D[l]), D[k][i] = D[l][j]
      PROVE  k = l /\ i = j
  <2>1. D[k] # <<>> /\ D[l] # <<>>
    BY <1>1
  <2>2. /\ h[k] \in 1..Len(C) /\ D[k] = C[h[k]]
        /\ h[l] \in 1..Len(C) /\ D[l] = C[h[l]]
    BY <2>1
  <2>3. h[k] = h[l] /\ i = j
    BY <1>2, <2>2 DEF OneEach
  <2> QED
    BY <2>1, <2>3
<1>3. ASSUME NEW b \in Buffers
      PROVE  \E k \in 1..Len(D) : \E i \in 1..Len(D[k]) : D[k][i] = b
  <2>1. PICK l \in 1..Len(C) : \E i \in 1..Len(C[l]) : C[l][i] = b
    BY DEF OneEach
  <2>2. C[l] # <<>>
    BY <1>1, <2>1
  <2> QED
    BY <2>1, <2>2
<1> QED
  BY <1>2, <1>3 DEF OneEach

LEMMA BufsOfType ==
  ASSUME NEW s, s # NULL => s \in Slice
  PROVE  BufsOf(s) \in Seq(Buffers)
BY EmptySeq DEF BufsOf, Slice

\* The chains of a state, and those of the next one.
LEMMA TheChains ==
  ASSUME TypeOK
  PROVE  AreChains(Chains, in_list, submitted, BufsOf(packing), BufsOf(desc), ready)
<1>1. /\ BufsOf(packing) \in Seq(Buffers) /\ BufsOf(desc) \in Seq(Buffers)
      /\ in_list \in Seq(Buffers) /\ submitted \in Seq(Buffers) /\ ready \in Seq(Slice)
  BY BufsOfType DEF TypeOK
<1>2. Chains = ChainsOf(in_list, submitted, BufsOf(packing), BufsOf(desc), ready)
  BY DEF Chains, ChainsOf
<1> QED
  BY <1>1, <1>2, ChainsAre

LEMMA TheNextChains ==
  ASSUME TypeOK'
  PROVE  AreChains(Chains', in_list', submitted', BufsOf(packing'), BufsOf(desc'),
                   ready')
<1>1. /\ BufsOf(packing') \in Seq(Buffers) /\ BufsOf(desc') \in Seq(Buffers)
      /\ in_list' \in Seq(Buffers) /\ submitted' \in Seq(Buffers)
      /\ ready' \in Seq(Slice)
  BY BufsOfType DEF TypeOK
<1>2. Chains' = ChainsOf(in_list', submitted', BufsOf(packing'), BufsOf(desc'), ready')
  BY DEF Chains, ChainsOf, BufsOf
<1> QED
  BY <1>1, <1>2, ChainsAre

\* A slice that waits to be packed has no buffers yet.
Unpacked == \A i \in 1..Len(sliceq) : sliceq[i].bufs = <<>>

Placed == OneEach(Chains)

\* A buffer goes from the front of chain a to the back of chain z: given back,
\* filled, or submitted.
LEMMA Handing ==
  ASSUME IInv, IInv', Placed, ready' = ready,
         NEW a \in 1..4, NEW z \in 1..4, a # z, Chains[a] # <<>>,
         Chains'[a] = Tail(Chains[a]),
         Chains'[z] = Append(Chains[z], Head(Chains[a])),
         \A k \in 1..4 : k # a /\ k # z => Chains'[k] = Chains[k]
  PROVE  Placed'
<1> DEFINE C == Chains
           D == Chains'
<1>1. /\ C \in Chained /\ D \in Chained /\ Len(ready) \in Nat
      /\ Len(C) = 4 + Len(ready) /\ Len(D) = Len(C)
      /\ \A k \in 5..Len(C) : C[k] = ready[k - 4].bufs /\ D[k] = ready[k - 4].bufs
  BY TheChains, TheNextChains DEF IInv, AreChains
<1>2. /\ C[a] # <<>> /\ D[a] = Tail(C[a]) /\ D[z] = Append(C[z], Head(C[a]))
      /\ \A k \in 1..4 : k # a /\ k # z => D[k] = C[k]
  OBVIOUS
<1>3. OneEach(C)
  BY DEF Placed
<1>4. OneEach(D) => Placed'
  BY DEF Placed, OneEach, Buffers
<1> HIDE DEF C, D
<1>5. a \in 1..Len(C) /\ z \in 1..Len(C)
  BY <1>1
<1>6. ASSUME NEW k \in 1..Len(C), k # a, k # z PROVE D[k] = C[k]
  <2>1. k \in 1..4 \/ k \in 5..Len(C)
    BY <1>1, <1>6
  <2> QED
    BY <1>1, <1>2, <1>6, <2>1
<1>7. \A k \in 1..Len(C) : k # a /\ k # z => D[k] = C[k]
  BY <1>6
<1>8. /\ C \in Chained /\ D \in Chained /\ Len(D) = Len(C)
      /\ a \in 1..Len(C) /\ z \in 1..Len(C) /\ a # z /\ C[a] # <<>>
      /\ D[a] = Tail(C[a]) /\ D[z] = Append(C[z], Head(C[a]))
  BY <1>1, <1>2, <1>5
<1>9. OneEach(D)
  BY <1>3, <1>7, <1>8, HandedOver
<1> QED
  BY <1>4, <1>9

LEMMA InitPlaced == Init => Placed /\ Unpacked
<1> SUFFICES ASSUME Init PROVE Placed /\ Unpacked
  OBVIOUS
<1> DEFINE C == Chains
<1>1. AreChains(C, in_list, submitted, BufsOf(packing), BufsOf(desc), ready)
  BY InitInv, TheChains DEF IInv
<1>2. /\ in_list = [i \in 1..Pool |-> i] /\ submitted = <<>> /\ BufsOf(packing) = <<>>
      /\ BufsOf(desc) = <<>> /\ Len(ready) = 0 /\ Pool \in Nat \ {0}
  BY SchedulerAssumption DEF Init, BufsOf
<1>3. Len(C) = 4 /\ C[1] = in_list /\ C[2] = <<>> /\ C[3] = <<>> /\ C[4] = <<>>
  BY <1>1, <1>2 DEF AreChains
<1>4. Len(in_list) = Pool
  BY <1>2
<1> HIDE DEF C
<1>5. ASSUME NEW k \in 1..Len(C), NEW i \in 1..Len(C[k])
      PROVE  k = 1 /\ i \in 1..Pool /\ C[k][i] = i
  <2>1. k = 1 \/ k = 2 \/ k = 3 \/ k = 4
    BY <1>3, <1>5
  <2>2. Len(<<>>) = 0
    OBVIOUS
  <2>3. k = 1
    BY <1>3, <1>5, <2>1, <2>2
  <2> QED
    BY <1>2, <1>3, <1>4, <1>5, <2>3
<1>6. ASSUME NEW b \in Buffers
      PROVE  1 \in 1..Len(C) /\ b \in 1..Len(C[1]) /\ C[1][b] = b
  BY <1>2, <1>3, <1>4 DEF Buffers
<1>7. OneEach(C)
  BY <1>5, <1>6 DEF OneEach
<1> QED
  BY <1>7 DEF Placed, C, Init, Unpacked

LEMMA StepUnpacked ==
  ASSUME IInv, IInv', Unpacked, [Next]_vars
  PROVE  Unpacked'
<1> USE DEF Unpacked
<1>1. CASE SendSlice
  <2> DEFINE e == [timestamp |-> sent + 1, parts |-> Parts[sent + 1], bufs |-> <<>>]
  <2>1. sliceq' = Append(sliceq, e) /\ e.bufs = <<>> /\ sliceq \in Seq(Slice)
    BY <1>1 DEF SendSlice, IInv, TypeOK
  <2> HIDE DEF e
  <2>2. /\ Len(sliceq) \in Nat /\ Len(sliceq') = Len(sliceq) + 1
        /\ sliceq'[Len(sliceq) + 1] = e
        /\ \A i \in 1..Len(sliceq) : sliceq'[i] = sliceq[i]
    BY <2>1, AppendProperties, LenProperties
  <2> QED
    BY <2>1, <2>2
<1>2. CASE PackerGet
  <2>1. sliceq \in Seq(Slice) /\ sliceq # <<>> /\ sliceq' = Tail(sliceq)
    BY <1>2 DEF PackerGet, IInv, TypeOK
  <2> QED
    BY <2>1, HeadTail
<1>3. ASSUME ~SendSlice, ~PackerGet PROVE sliceq' = sliceq
  BY <1>3
     DEF Next, Outside, Packer, PcrUpdate, Scheduler, Tick, SendPcr,
         PortSettingsChanged, BufferDone, PackerPoll, PackerGetNone, PackerFill,
         PackerFails, PackerPut, PcrReceive, PcrNone, PcrRead, PcrStore, SchedulerGet,
         SchedulerPresent, SchedulerSubmit, SchedulerFails, vars, queues
<1> QED
  BY <1>1, <1>2, <1>3

LEMMA SameChains ==
  ASSUME Placed, in_list' = in_list, submitted' = submitted, ready' = ready,
         BufsOf(packing') = BufsOf(packing), BufsOf(desc') = BufsOf(desc)
  PROVE  Placed'
<1>1. Chains' = Chains
  BY DEF Chains, BufsOf
<1> QED
  BY <1>1 DEF Placed, OneEach, Buffers

LEMMA StepPlaced ==
  ASSUME IInv, IInv', Unpacked, Placed, [Next]_vars
  PROVE  Placed'
<1> DEFINE C == Chains
           D == Chains'
<1>1. /\ AreChains(C, in_list, submitted, BufsOf(packing), BufsOf(desc), ready)
      /\ AreChains(D, in_list', submitted', BufsOf(packing'), BufsOf(desc'), ready')
  BY TheChains, TheNextChains DEF IInv
<1>2. /\ C[1] = in_list /\ C[2] = submitted /\ C[3] = BufsOf(packing)
      /\ C[4] = BufsOf(desc)
      /\ D[1] = in_list' /\ D[2] = submitted' /\ D[3] = BufsOf(packing')
      /\ D[4] = BufsOf(desc')
  BY <1>1 DEF AreChains
<1>3. CASE BufferDone
  <2>1. /\ submitted # <<>> /\ submitted' = Tail(submitted)
        /\ in_list' = Append(in_list, Head(submitted))
        /\ packing' = packing /\ desc' = desc /\ ready' = ready
    BY <1>3 DEF BufferDone, queues, packer, scheduler
  <2>2. /\ C[2] # <<>> /\ D[2] = Tail(C[2]) /\ D[1] = Append(C[1], Head(C[2]))
        /\ D[3] = C[3] /\ D[4] = C[4]
    BY <1>2, <2>1
  <2>3. /\ 2 \in 1..4 /\ 1 \in 1..4 /\ 2 # 1
        /\ \A k \in 1..4 : k # 2 /\ k # 1 => D[k] = C[k]
    BY <2>2
  <2> QED
    BY <2>1, <2>2, <2>3, Handing
<1>4. CASE PackerFill
  <2>1. /\ in_list # <<>> /\ in_list' = Tail(in_list)
        /\ packing \in Slice /\ packing # NULL
        /\ packing' = [packing EXCEPT !.bufs = Append(packing.bufs, Head(in_list))]
        /\ submitted' = submitted /\ desc' = desc /\ ready' = ready
    BY <1>4 DEF PackerFill, IInv, TypeOK, queues, scheduler
  <2>2. BufsOf(packing') = Append(BufsOf(packing), Head(in_list))
    <3>1. packing' \in Slice
      BY <1>4, <2>1 DEF PackerFill, IInv, TypeOK
    <3>2. packing' # NULL
      BY <3>1, NullAssumption
    <3> QED
      BY <2>1, <3>2 DEF BufsOf, Slice
  <2>3. /\ C[1] # <<>> /\ D[1] = Tail(C[1]) /\ D[3] = Append(C[3], Head(C[1]))
        /\ D[2] = C[2] /\ D[4] = C[4]
    BY <1>2, <2>1, <2>2
  <2>4. /\ 1 \in 1..4 /\ 3 \in 1..4 /\ 1 # 3
        /\ \A k \in 1..4 : k # 1 /\ k # 3 => D[k] = C[k]
    BY <2>3
  <2> QED
    BY <2>1, <2>3, <2>4, Handing
<1>5. CASE SchedulerSubmit
  <2>1. /\ desc \in Slice /\ desc # NULL /\ desc.bufs # <<>>
        /\ submitted' = Append(submitted, Head(desc.bufs))
        /\ desc' = IF Tail(desc.bufs) = <<>> THEN NULL
                   ELSE [desc EXCEPT !.bufs = Tail(desc.bufs)]
        /\ in_list' = in_list /\ packing' = packing /\ ready' = ready
    BY <1>5 DEF SchedulerSubmit, IInv, TypeOK, queues, packer
  <2>2. BufsOf(desc') = Tail(BufsOf(desc))
    <3>1. CASE Tail(desc.bufs) = <<>>
      BY <2>1, <3>1 DEF BufsOf
    <3>2. CASE Tail(desc.bufs) # <<>>
      <4>1. Tail(desc.bufs) \in Seq(Buffers)
        BY <2>1, HeadTail DEF Slice
      <4>2. desc' \in Slice /\ desc'.bufs = Tail(desc.bufs)
        BY <2>1, <3>2, <4>1 DEF Slice
      <4> QED
        BY <2>1, <4>2, NullAssumption DEF BufsOf
    <3> QED
      BY <3>1, <3>2
  <2>3. /\ C[4] # <<>> /\ D[4] = Tail(C[4]) /\ D[2] = Append(C[2], Head(C[4]))
        /\ D[1] = C[1] /\ D[3] = C[3]
    BY <1>2, <2>1, <2>2 DEF BufsOf
  <2>4. /\ 4 \in 1..4 /\ 2 \in 1..4 /\ 4 # 2
        /\ \A k \in 1..4 : k # 4 /\ k # 2 => D[k] = C[k]
    BY <2>3
  <2> QED
    BY <2>1, <2>3, <2>4, Handing
<1>6. CASE PackerGet
  <2>1. /\ sliceq \in Seq(Slice) /\ sliceq # <<>> /\ packing = NULL
        /\ packing' = Head(sliceq) /\ packing' # NULL
        /\ in_list' = in_list /\ submitted' = submitted /\ desc' = desc
        /\ ready' = ready
    BY <1>6 DEF PackerGet, IInv, TypeOK, scheduler, sink
  <2>2. BufsOf(packing') = BufsOf(packing)
    BY <2>1, HeadTail DEF BufsOf, Unpacked
  <2> QED
    BY <2>1, <2>2, SameChains
<1>7. CASE PackerPut
  <2> DEFINE n == Len(ready)
             h == [k \in 1..Len(D) |-> IF k = n + 5 THEN 3 ELSE k]
  <2>1. /\ packing \in Slice /\ packing # NULL /\ packing' = NULL
        /\ ready \in Seq(Slice) /\ ready' = Append(ready, packing)
        /\ in_list' = in_list /\ submitted' = submitted /\ desc' = desc
    BY <1>7 DEF PackerPut, IInv, TypeOK, scheduler, sink
  <2>2. /\ n \in Nat /\ Len(ready') = n + 1 /\ ready'[n + 1] = packing
        /\ \A i \in 1..n : ready'[i] = ready[i]
    BY <2>1, Appended
  <2>3. /\ C \in Chained /\ D \in Chained /\ Len(C) = n + 4 /\ Len(D) = n + 5
        /\ \A k \in 5..(n + 4) : C[k] = ready[k - 4].bufs
        /\ \A k \in 5..(n + 5) : D[k] = ready'[k - 4].bufs
    BY <1>1, <2>2 DEF AreChains
  <2>4. D[1] = C[1] /\ D[2] = C[2] /\ D[3] = <<>> /\ D[4] = C[4] /\ C[3] = packing.bufs
    BY <1>2, <2>1 DEF BufsOf
  <2>5. D[n + 5] = C[3]
    <3>1. n + 5 \in 5..(n + 5) /\ (n + 5) - 4 = n + 1
      BY <2>2
    <3> QED
      BY <2>2, <2>3, <2>4, <3>1
  <2>6. ASSUME NEW k \in 5..(n + 4) PROVE D[k] = C[k]
    <3>1. k - 4 \in 1..n /\ k \in 5..(n + 5)
      BY <2>2
    <3> QED
      BY <2>2, <2>3, <3>1
  <2>7. Placed => OneEach(C)
    BY DEF Placed
  <2>8. OneEach(D) => Placed'
    BY DEF Placed, OneEach, Buffers
  <2> HIDE DEF n, C, D
  <2>9. h \in [1..Len(D) -> Int]
    BY <2>2, <2>3
  <2>10. ASSUME NEW k \in 1..Len(D), D[k] # <<>>
         PROVE  h[k] \in 1..Len(C) /\ D[k] = C[h[k]] /\ k # 3
    <3>1. k # 3
      BY <2>4, <2>10
    <3>2. CASE k = n + 5
      BY <2>2, <2>3, <2>5, <3>1, <3>2
    <3>3. CASE k # n + 5
      <4>1. k \in 1..(n + 4) /\ (k \in 5..(n + 4) \/ k = 1 \/ k = 2 \/ k = 4)
        BY <2>2, <2>3, <3>1, <3>3
      <4> QED
        BY <2>3, <2>4, <2>6, <3>1, <3>3, <4>1
    <3> QED
      BY <3>2, <3>3
  <2>11. ASSUME NEW k \in 1..Len(D), NEW l \in 1..Len(D), D[k] # <<>>, D[l] # <<>>,
                h[k] = h[l]
         PROVE  k = l
    BY <2>2, <2>3, <2>10, <2>11
  <2>12. ASSUME NEW l \in 1..Len(C) PROVE \E k \in 1..Len(D) : D[k] = C[l]
    <3>1. n + 5 \in 1..Len(D) /\ l \in 1..Len(D)
      BY <2>2, <2>3
    <3>2. l = 3 \/ l \in 5..(n + 4) \/ l = 1 \/ l = 2 \/ l = 4
      BY <2>2, <2>3
    <3> QED
      BY <2>4, <2>5, <2>6, <3>1, <3>2
  <2> HIDE DEF h
  <2>13. OneEach(C)
    BY <2>7
  <2>14. /\ \A k \in 1..Len(D) : D[k] # <<>> => h[k] \in 1..Len(C) /\ D[k] = C[h[k]]
         /\ \A k, l \in 1..Len(D) :
               D[k] # <<>> /\ D[l] # <<>> /\ h[k] = h[l] => k = l
         /\ \A l \in 1..Len(C) : C[l] # <<>> => \E k \in 1..Len(D) : D[k] = C[l]
    BY <2>10, <2>11, <2>12
  <2>15. OneEach(D)
    BY <2>3, <2>9, <2>13, <2>14, Renumbered
  <2> QED
    BY <2>8, <2>15
<1>8. CASE SchedulerGet
  <2> DEFINE n == Len(ready)
             h == [k \in 1..Len(D) |-> IF k >= 4 THEN k + 1 ELSE k]
  <2>1. /\ desc = NULL /\ desc' = Head(ready) /\ desc' # NULL
        /\ ready \in Seq(Slice) /\ ready # <<>> /\ ready' = Tail(ready)
        /\ in_list' = in_list /\ submitted' = submitted /\ packing' = packing
    BY <1>8 DEF SchedulerGet, IInv, TypeOK, packer, sink
  <2>2. /\ n \in Nat \ {0} /\ Len(ready') = n - 1 /\ Head(ready) = ready[1]
        /\ \A i \in 1..(n - 1) : ready'[i] = ready[i + 1]
    BY <2>1, HeadTail
  <2>3. /\ C \in Chained /\ D \in Chained /\ Len(C) = n + 4 /\ Len(D) = n + 3
        /\ \A k \in 5..(n + 4) : C[k] = ready[k - 4].bufs
        /\ \A k \in 5..(n + 3) : D[k] = ready'[k - 4].bufs
    BY <1>1, <2>2 DEF AreChains
  <2>4. D[1] = C[1] /\ D[2] = C[2] /\ D[3] = C[3] /\ D[4] = ready[1].bufs /\ C[4] = <<>>
    BY <1>2, <2>1, <2>2 DEF BufsOf
  <2>5. D[4] = C[5]
    <3>1. 5 \in 5..(n + 4) /\ 5 - 4 = 1
      BY <2>2
    <3> QED
      BY <2>3, <2>4, <3>1
  <2>6. ASSUME NEW k \in 5..(n + 3) PROVE D[k] = C[k + 1]
    <3>1. k - 4 \in 1..(n - 1) /\ k + 1 \in 5..(n + 4) /\ (k - 4) + 1 = (k + 1) - 4
      BY <2>2
    <3>2. D[k] = ready'[k - 4].bufs
      BY <2>3
    <3>3. ready'[k - 4] = ready[(k + 1) - 4]
      BY <2>2, <3>1
    <3>4. C[k + 1] = ready[(k + 1) - 4].bufs
      BY <2>3, <3>1
    <3> QED
      BY <3>2, <3>3, <3>4
  <2>7. Placed => OneEach(C)
    BY DEF Placed
  <2>8. OneEach(D) => Placed'
    BY DEF Placed, OneEach, Buffers
  <2> HIDE DEF n, C, D
  <2>9. h \in [1..Len(D) -> Int]
    BY <2>2, <2>3
  <2>10. ASSUME NEW k \in 1..Len(D)
         PROVE  h[k] \in 1..Len(C) /\ D[k] = C[h[k]]
    <3>1. k \in 5..(n + 3) \/ k = 1 \/ k = 2 \/ k = 3 \/ k = 4
      BY <2>2, <2>3
    <3>2. CASE k \in 5..(n + 3)
      <4>1. h[k] = k + 1 /\ k + 1 \in 1..(n + 4)
        BY <2>2, <3>2
      <4> QED
        BY <2>3, <2>6, <3>2, <4>1
    <3>3. CASE k = 4
      BY <2>2, <2>3, <2>5, <3>3
    <3>4. CASE k = 1 \/ k = 2 \/ k = 3
      BY <2>2, <2>3, <2>4, <3>4
    <3> QED
      BY <3>1, <3>2, <3>3, <3>4
  <2>11. ASSUME NEW k \in 1..Len(D), NEW l \in 1..Len(D), h[k] = h[l]
         PROVE  k = l
    BY <2>2, <2>3, <2>11
  <2>12. ASSUME NEW l \in 1..Len(C), C[l] # <<>>
         PROVE  \E k \in 1..Len(D) : D[k] = C[l]
    <3>1. l \in 6..(n + 4) \/ l = 1 \/ l = 2 \/ l = 3 \/ l = 5
      BY <2>2, <2>3, <2>4, <2>12
    <3>2. CASE l \in 6..(n + 4)
      <4>1. l - 1 \in 5..(n + 3) /\ l - 1 \in 1..Len(D) /\ (l - 1) + 1 = l
        BY <2>2, <2>3, <3>2
      <4> QED
        BY <2>6, <4>1
    <3>3. CASE l = 1 \/ l = 2 \/ l = 3 \/ l = 5
      <4>1. 1 \in 1..Len(D) /\ 2 \in 1..Len(D) /\ 3 \in 1..Len(D) /\ 4 \in 1..Len(D)
        BY <2>2, <2>3
      <4> QED
        BY <2>4, <2>5, <3>3, <4>1
    <3> QED
      BY <3>1, <3>2, <3>3
  <2> HIDE DEF h
  <2>13. OneEach(C)
    BY <2>7
  <2>14. /\ \A k \in 1..Len(D) : D[k] # <<>> => h[k] \in 1..Len(C) /\ D[k] = C[h[k]]
         /\ \A k, l \in 1..Len(D) :
               D[k] # <<>> /\ D[l] # <<>> /\ h[k] = h[l] => k = l
         /\ \A l \in 1..Len(C) : C[l] # <<>> => \E k \in 1..Len(D) : D[k] = C[l]
    BY <2>10, <2>11, <2>12
  <2>15. OneEach(D)
    BY <2>3, <2>9, <2>13, <2>14, Renumbered
  <2> QED
    BY <2>8, <2>15
<1>9. ASSUME ~BufferDone, ~PackerFill, ~SchedulerSubmit, ~PackerGet, ~PackerPut,
             ~SchedulerGet
      PROVE  UNCHANGED <<in_list, submitted, packing, desc, ready>>
  BY <1>9
     DEF Next, Outside, Packer, PcrUpdate, Scheduler, Tick, SendSlice, SendPcr,
         PortSettingsChanged, PackerPoll, PackerGetNone, PackerFails, PcrReceive,
         PcrNone, PcrRead, PcrStore, SchedulerPresent, SchedulerFails, vars, queues, packer,
         scheduler, sink
<1> QED
  BY <1>3, <1>4, <1>5, <1>6, <1>7, <1>8, <1>9, SameChains

\* No chain is longer than there are buffers.
LEMMA WithinPool ==
  ASSUME NEW C \in Chained, OneEach(C), NEW k \in 1..Len(C)
  PROVE  Len(C[k]) \in 0..Pool
<1>1. C[k] \in Seq(Buffers) /\ Len(C[k]) \in Nat
  BY ElementOfSeq, LenProperties DEF Chained
<1>2. C[k] \in Injection(1..Len(C[k]), Buffers)
  <2>1. C[k] \in [1..Len(C[k]) -> Buffers]
    BY <1>1, LenProperties
  <2>2. \A i, j \in 1..Len(C[k]) : C[k][i] = C[k][j] => i = j
    BY DEF OneEach
  <2> QED
    BY <2>1, <2>2 DEF Injection, IsInjective
<1>3. /\ IsFiniteSet(Buffers) /\ Cardinality(Buffers) = Pool
      /\ Cardinality(1..Len(C[k])) = Len(C[k])
  BY <1>1, FS_Interval, SchedulerAssumption DEF Buffers
<1>4. Cardinality(1..Len(C[k])) <= Cardinality(Buffers)
  BY <1>2, <1>3, FS_Injection
<1> QED
  BY <1>1, <1>3, <1>4, SchedulerAssumption

LEMMA PlacesOf ==
  ASSUME IInv, Placed
  PROVE  BufferInOnePlace
<1> DEFINE C == Chains
<1>1. C \in Chained /\ OneEach(C)
  BY TheChains DEF IInv, AreChains, Placed
<1>2. \A b : Places(b) = {p \in (1..Len(C)) \X (1..Pool) :
                              p[2] <= Len(C[p[1]]) /\ C[p[1]][p[2]] = b}
  BY DEF Places
<1> HIDE DEF C
<1> SUFFICES ASSUME NEW b \in Buffers
             PROVE  \E place \in Places(b) : Places(b) = {place}
  BY DEF BufferInOnePlace
<1>3. PICK k \in 1..Len(C) : \E i \in 1..Len(C[k]) : C[k][i] = b
  BY <1>1 DEF OneEach
<1>4. PICK i \in 1..Len(C[k]) : C[k][i] = b
  BY <1>3
<1>5. i \in 1..Pool /\ i <= Len(C[k])
  <2>1. Len(C[k]) \in 0..Pool
    BY <1>1, <1>3, WithinPool
  <2> QED
    BY <1>4, <2>1, SchedulerAssumption
<1>6. <<k, i>> \in Places(b)
  BY <1>2, <1>3, <1>4, <1>5
<1>7. ASSUME NEW q \in Places(b) PROVE q = <<k, i>>
  <2>1. PICK l \in 1..Len(C), j \in 1..Pool :
            q = <<l, j>> /\ j <= Len(C[l]) /\ C[l][j] = b
    BY <1>2, <1>7
  <2>2. Len(C[l]) \in 0..Pool
    BY <1>1, <2>1, WithinPool
  <2>3. j \in 1..Len(C[l])
    BY <2>1, <2>2, SchedulerAssumption
  <2>4. l = k /\ j = i
    BY <1>1, <1>3, <1>4, <2>1, <2>3 DEF OneEach
  <2> QED
    BY <2>1, <2>4
<1> QED
  BY <1>6, <1>7

\* The invariant of what follows: every buffer is in one place, once.
THEOREM InPlace == Spec => [](IInv /\ Unpacked /\ Placed)
<1>1. IInv /\ Unpacked /\ Placed /\ [Next]_vars => (IInv /\ Unpacked /\ Placed)'
  BY StepInv, StepUnpacked, StepPlaced
<1> QED
  BY <1>1, InitInv, InitPlaced, PTL DEF Spec

\* No hardware buffer is lost, in two places, or filled again while it is in use,
\* for any number of them (sx_mgmt_video_scheduler.c:75-79, 148-152, 339-349).
THEOREM BufferInOnePlaceCorrect == Spec => []BufferInOnePlace
BY InPlace, PlacesOf, PTL

------------------------------------------------------------------------------
(***************************************************************************)
(* The component receives the slices in order                              *)
(***************************************************************************)
Submission == [slice : Nat, data : Nat \X Nat, start : BOOLEAN]

\* The slice and the part that were submitted last.
LastSlice == IF rendered = <<>> THEN 0 ELSE rendered[Len(rendered)].slice
LastPart == IF rendered = <<>> THEN 0 ELSE rendered[Len(rendered)].data[2]

\* The slice the scheduler thread has come to.
Current == IF desc = NULL THEN LastSlice ELSE desc.timestamp

\* The buffers of a slice of which k parts have been submitted.
Holds(slice, k) ==
    \A j \in 1..Len(slice.bufs) : content[slice.bufs[j]] = <<slice.timestamp, k + j>>

\* Every slice has its own parts in its buffers; the one held is the next after what
\* was submitted, or the rest of that.
Filled ==
    /\ packing # NULL => Holds(packing, 0)
    /\ \A i \in 1..Len(ready) : Holds(ready[i], 0)
    /\ desc # NULL =>
          \/ desc.timestamp = LastSlice + 1 /\ Holds(desc, 0)
          \/ rendered # <<>> /\ desc.timestamp = LastSlice /\ Holds(desc, LastPart)

\* From the component back to the sender the slices are numbered onwards.
Numbered ==
    /\ \A i \in 1..Len(ready) : ready[i].timestamp = Current + i
    /\ packing # NULL => packing.timestamp = Current + Len(ready) + 1
    /\ \A i \in 1..Len(sliceq) : sliceq[i].timestamp = sent - Len(sliceq) + i
    /\ sent = Len(sliceq) + Current + Len(ready) + IF packing = NULL THEN 0 ELSE 1

Submitted ==
    /\ rendered \in Seq(Submission)
    /\ first_packet = (rendered = <<>>)

Ordered == Submitted /\ Filled /\ Numbered /\ RenderedInOrder

\* What was submitted ends with the last part of a slice.
EndsWhole == rendered # <<>> => LastPart = Parts[LastSlice]

\* A slice on its way to be packed has its number of parts with it, and one that is
\* ready has all of them; what is left of the slice held is what is not submitted.
Whole ==
    /\ \A i \in 1..Len(sliceq) : sliceq[i].parts = Parts[sliceq[i].timestamp]
    /\ packing # NULL => packing.parts = Parts[packing.timestamp]
    /\ \A i \in 1..Len(ready) : Len(ready[i].bufs) = Parts[ready[i].timestamp]
    /\ desc = NULL => EndsWhole
    /\ desc # NULL =>
          \/ /\ desc.timestamp = LastSlice + 1 /\ EndsWhole
             /\ Len(desc.bufs) = Parts[desc.timestamp]
          \/ desc.timestamp = LastSlice /\ LastPart + Len(desc.bufs) = Parts[LastSlice]

LEMMA InitOrdered == Init => Ordered
<1> SUFFICES ASSUME Init PROVE Ordered
  OBVIOUS
<1>1. /\ sliceq = <<>> /\ ready = <<>> /\ rendered = <<>> /\ sent = 0
      /\ packing = NULL /\ desc = NULL /\ first_packet = TRUE
  BY DEF Init
<1>2. Len(sliceq) = 0 /\ Len(ready) = 0 /\ Len(rendered) = 0
  BY <1>1
<1>3. Submitted
  BY <1>1, EmptySeq DEF Submitted
<1>4. Filled
  BY <1>1, <1>2 DEF Filled
<1>5. Current = 0
  BY <1>1 DEF Current, LastSlice
<1>6. Numbered
  BY <1>1, <1>2, <1>5 DEF Numbered
<1>7. RenderedInOrder
  BY <1>2 DEF RenderedInOrder
<1> QED
  BY <1>3, <1>4, <1>6, <1>7 DEF Ordered

LEMMA LastType ==
  ASSUME TypeOK, Submitted
  PROVE  /\ LastSlice \in Nat /\ LastPart \in Nat /\ Current \in Nat
         /\ Len(ready) \in Nat /\ Len(sliceq) \in Nat /\ sent \in Nat
         /\ Len(rendered) \in Nat
<1>1. Len(rendered) \in Nat /\ Len(ready) \in Nat /\ Len(sliceq) \in Nat /\ sent \in Nat
  BY LenProperties DEF TypeOK, Submitted
<1>2. rendered # <<>> => rendered[Len(rendered)] \in Submission
  BY LastOf DEF Submitted
<1>3. LastSlice \in Nat /\ LastPart \in Nat
  BY <1>2 DEF LastSlice, LastPart, Submission
<1>4. Current \in Nat
  BY <1>3 DEF Current, TypeOK, Slice
<1> QED
  BY <1>1, <1>3, <1>4

\* A free buffer is none of those that hold something yet to be submitted.
LEMMA FreeIsFree ==
  ASSUME IInv, Placed, in_list # <<>>
  PROVE  /\ packing # NULL =>
               \A j \in 1..Len(packing.bufs) : packing.bufs[j] # Head(in_list)
         /\ desc # NULL => \A j \in 1..Len(desc.bufs) : desc.bufs[j] # Head(in_list)
         /\ \A i \in 1..Len(ready) :
               \A j \in 1..Len(ready[i].bufs) : ready[i].bufs[j] # Head(in_list)
<1> DEFINE C == Chains
<1>1. AreChains(C, in_list, submitted, BufsOf(packing), BufsOf(desc), ready)
  BY TheChains DEF IInv
<1>2. OneEach(C)
  BY DEF Placed
<1>3. in_list \in Seq(Buffers)
  BY DEF IInv, TypeOK
<1> HIDE DEF C
<1>4. /\ Head(in_list) = C[1][1] /\ 1 \in 1..Len(C[1])
      /\ Len(ready) \in Nat /\ Len(C) = 4 + Len(ready)
      /\ C[3] = BufsOf(packing) /\ C[4] = BufsOf(desc)
      /\ \A k \in 5..Len(C) : C[k] = ready[k - 4].bufs
  BY <1>1, <1>3, HeadTail DEF AreChains
<1>5. ASSUME NEW k \in 2..Len(C), NEW j \in 1..Len(C[k]) PROVE C[k][j] # C[1][1]
  <2>1. k \in 1..Len(C) /\ 1 \in 1..Len(C) /\ k # 1
    BY <1>4, <1>5
  <2> QED
    BY <1>2, <1>4, <1>5, <2>1 DEF OneEach
<1>6. ASSUME NEW i \in 1..Len(ready), NEW j \in 1..Len(ready[i].bufs)
      PROVE  ready[i].bufs[j] # C[1][1]
  <2>1. i + 4 \in 5..Len(C) /\ i + 4 \in 2..Len(C) /\ (i + 4) - 4 = i
    BY <1>4, <1>6
  <2>2. C[i + 4] = ready[i].bufs
    BY <1>4, <2>1
  <2> QED
    BY <1>5, <1>6, <2>1, <2>2
<1>7. 3 \in 2..Len(C) /\ 4 \in 2..Len(C)
  BY <1>4
<1>8. packing # NULL => C[3] = packing.bufs
  BY <1>4 DEF BufsOf
<1>9. desc # NULL => C[4] = desc.bufs
  BY <1>4 DEF BufsOf
<1> QED
  BY <1>4, <1>5, <1>6, <1>7, <1>8, <1>9

\* What the senders and the packing thread do.
LEMMA PackingOrdered ==
  ASSUME IInv, IInv', Unpacked, Placed, Ordered,
         SendSlice \/ PackerGet \/ PackerFill \/ PackerPut
  PROVE  Ordered'
<1> USE DEF Ordered
<1>1. /\ rendered' = rendered /\ first_packet' = first_packet /\ desc' = desc
  BY DEF SendSlice, PackerGet, PackerFill, PackerPut, scheduler, sink
<1>2. /\ Submitted' /\ RenderedInOrder'
      /\ LastSlice' = LastSlice /\ LastPart' = LastPart /\ Current' = Current
  BY <1>1 DEF Submitted, RenderedInOrder, LastSlice, LastPart, Current
<1>3. /\ LastSlice \in Nat /\ LastPart \in Nat /\ Current \in Nat
      /\ Len(ready) \in Nat /\ Len(sliceq) \in Nat /\ sent \in Nat
  BY LastType DEF IInv
<1>4. ready \in Seq(Slice) /\ sliceq \in Seq(Slice)
  BY DEF IInv, TypeOK
<1>5. CASE SendSlice
  <2> DEFINE e == [timestamp |-> sent + 1, parts |-> Parts[sent + 1], bufs |-> <<>>]
  <2>1. /\ sliceq' = Append(sliceq, e) /\ e.timestamp = sent + 1 /\ sent' = sent + 1
        /\ ready' = ready /\ packing' = packing /\ content' = content
    BY <1>5 DEF SendSlice, packer, sink
  <2> HIDE DEF e
  <2>2. /\ Len(sliceq') = Len(sliceq) + 1 /\ sliceq'[Len(sliceq) + 1] = e
        /\ \A i \in 1..Len(sliceq) : sliceq'[i] = sliceq[i]
    BY <1>4, <2>1, AppendProperties
  <2>3. ASSUME NEW i \in 1..Len(sliceq')
        PROVE  sliceq'[i].timestamp = sent' - Len(sliceq') + i
    <3>1. i \in 1..Len(sliceq) \/ i = Len(sliceq) + 1
      BY <1>3, <2>2
    <3> QED
      BY <1>3, <2>1, <2>2, <3>1 DEF Numbered
  <2>4. Numbered'
    BY <1>2, <1>3, <2>1, <2>2, <2>3 DEF Numbered
  <2>5. Filled'
    BY <1>1, <1>2, <2>1 DEF Filled, Holds
  <2> QED
    BY <1>2, <2>4, <2>5
<1>6. CASE PackerGet
  <2>1. /\ sliceq # <<>> /\ packing = NULL /\ packing' = Head(sliceq) /\ packing' # NULL
        /\ sliceq' = Tail(sliceq) /\ sent' = sent
        /\ ready' = ready /\ content' = content
    BY <1>6 DEF PackerGet, IInv, TypeOK, outside, sink
  <2>2. /\ packing' = sliceq[1] /\ 1 \in 1..Len(sliceq) /\ Len(sliceq') = Len(sliceq) - 1
        /\ \A i \in 1..Len(sliceq') : sliceq'[i] = sliceq[i + 1] /\ i + 1 \in 1..Len(sliceq)
    BY <1>4, <2>1, HeadTail
  <2>3. packing'.bufs = <<>> /\ packing'.timestamp = sent - Len(sliceq) + 1
    BY <2>2 DEF Unpacked, Numbered
  <2>4. Numbered'
    <3>1. packing'.timestamp = Current' + Len(ready') + 1
      BY <1>2, <1>3, <2>1, <2>3 DEF Numbered
    <3>2. ASSUME NEW i \in 1..Len(sliceq')
          PROVE  sliceq'[i].timestamp = sent' - Len(sliceq') + i
      <4>1. sliceq[i + 1].timestamp = sent - Len(sliceq) + (i + 1)
        BY <2>2, <3>2 DEF Numbered
      <4> QED
        BY <1>3, <2>1, <2>2, <4>1
    <3>3. sent' = Len(sliceq') + Current' + Len(ready') + 1
      BY <1>2, <1>3, <2>1, <2>2 DEF Numbered
    <3> QED
      BY <1>2, <2>1, <3>1, <3>2, <3>3 DEF Numbered
  <2>5. Filled'
    <3>1. Len(packing'.bufs) = 0
      BY <2>3
    <3>2. Holds(packing, 0)'
      BY <3>1 DEF Holds
    <3>3. \A i \in 1..Len(ready) : \A j \in 1..Len(ready[i].bufs) :
             content'[ready[i].bufs[j]] = <<ready[i].timestamp, 0 + j>>
      BY <2>1 DEF Filled, Holds
    <3>4. \A i \in 1..Len(ready') : Holds(ready[i], 0)'
      BY <2>1, <3>3 DEF Holds
    <3>5. desc' # NULL =>
             \/ desc'.timestamp = LastSlice' + 1 /\ Holds(desc, 0)'
             \/ rendered' # <<>> /\ desc'.timestamp = LastSlice' /\ Holds(desc, LastPart)'
      BY <1>1, <1>2, <2>1 DEF Filled, Holds
    <3> QED
      BY <3>2, <3>4, <3>5 DEF Filled
  <2> QED
    BY <1>2, <2>4, <2>5
<1>7. CASE PackerFill
  <2> DEFINE f == Head(in_list)
  <2>1. /\ in_list # <<>> /\ packing \in Slice /\ packing # NULL /\ f \in Buffers
        /\ packing' = [packing EXCEPT !.bufs = Append(packing.bufs, f)]
        /\ content' = [content EXCEPT ![f] = <<packing.timestamp, Len(packing.bufs) + 1>>]
        /\ content \in [Buffers -> Nat \X Nat]
        /\ sliceq' = sliceq /\ ready' = ready /\ sent' = sent
    BY <1>7, HeadTail DEF PackerFill, IInv, TypeOK, queues, outside
  <2>2. /\ packing' # NULL /\ packing'.timestamp = packing.timestamp
        /\ packing'.bufs = Append(packing.bufs, f) /\ packing.bufs \in Seq(Buffers)
    <3>1. packing' # NULL
      BY <1>7, NullAssumption DEF PackerFill, IInv, TypeOK
    <3> QED
      BY <2>1, <3>1 DEF Slice
  <2>3. /\ \A j \in 1..Len(packing.bufs) : packing.bufs[j] # f
        /\ desc # NULL => \A j \in 1..Len(desc.bufs) : desc.bufs[j] # f
        /\ \A i \in 1..Len(ready) :
               \A j \in 1..Len(ready[i].bufs) : ready[i].bufs[j] # f
    BY <2>1, FreeIsFree
  <2> HIDE DEF f
  <2>4. content'[f] = <<packing.timestamp, Len(packing.bufs) + 1>>
    BY <2>1
  <2>5. ASSUME NEW s \in Slice, \A j \in 1..Len(s.bufs) : s.bufs[j] # f
        PROVE  \A j \in 1..Len(s.bufs) : content'[s.bufs[j]] = content[s.bufs[j]]
    <3>1. \A j \in 1..Len(s.bufs) : s.bufs[j] \in Buffers
      BY ElementOfSeq DEF Slice
    <3> QED
      BY <2>1, <2>5, <3>1
  <2>6. ASSUME NEW j \in 1..Len(packing'.bufs)
        PROVE  content'[packing'.bufs[j]] = <<packing'.timestamp, 0 + j>>
    <3>1. /\ Len(packing.bufs) \in Nat /\ Len(packing'.bufs) = Len(packing.bufs) + 1
          /\ packing'.bufs[Len(packing.bufs) + 1] = f
          /\ \A i \in 1..Len(packing.bufs) : packing'.bufs[i] = packing.bufs[i]
      BY <2>1, <2>2, Appended
    <3>2. CASE j = Len(packing.bufs) + 1
      BY <2>2, <2>4, <3>1, <3>2
    <3>3. CASE j \in 1..Len(packing.bufs)
      <4>1. content'[packing.bufs[j]] = content[packing.bufs[j]]
        BY <2>1, <2>3, <2>5, <3>3
      <4>2. content[packing.bufs[j]] = <<packing.timestamp, 0 + j>>
        BY <2>1, <3>3 DEF Filled, Holds
      <4> QED
        BY <2>2, <3>1, <3>3, <4>1, <4>2
    <3> QED
      BY <2>6, <3>1, <3>2, <3>3
  <2>7. ASSUME NEW i \in 1..Len(ready), NEW j \in 1..Len(ready[i].bufs)
        PROVE  content'[ready[i].bufs[j]] = content[ready[i].bufs[j]]
    <3>1. ready[i] \in Slice
      BY <1>4, <2>7, ElementOfSeq
    <3> QED
      BY <2>3, <2>5, <2>7, <3>1
  <2>8. desc # NULL =>
           \A j \in 1..Len(desc.bufs) : content'[desc.bufs[j]] = content[desc.bufs[j]]
    BY <2>3, <2>5 DEF IInv, TypeOK
  <2>9. Filled'
    <3>1. Holds(packing, 0)'
      BY <2>6 DEF Holds
    <3>0. ASSUME NEW i \in 1..Len(ready), NEW j \in 1..Len(ready[i].bufs)
          PROVE  content'[ready[i].bufs[j]] = <<ready[i].timestamp, 0 + j>>
      <4>1. content[ready[i].bufs[j]] = <<ready[i].timestamp, 0 + j>>
        BY <3>0 DEF Filled, Holds
      <4> QED
        BY <2>7, <3>0, <4>1
    <3>2. \A i \in 1..Len(ready') : Holds(ready[i], 0)'
      BY <2>1, <3>0 DEF Holds
    <3>3. desc' # NULL =>
             \/ desc'.timestamp = LastSlice' + 1 /\ Holds(desc, 0)'
             \/ rendered' # <<>> /\ desc'.timestamp = LastSlice' /\ Holds(desc, LastPart)'
      BY <1>1, <1>2, <2>8 DEF Filled, Holds
    <3> QED
      BY <3>1, <3>2, <3>3 DEF Filled
  <2>10. Numbered'
    BY <1>2, <2>1, <2>2 DEF Numbered
  <2> QED
    BY <1>2, <2>9, <2>10
<1>8. CASE PackerPut
  <2>1. /\ packing \in Slice /\ packing # NULL /\ packing' = NULL
        /\ ready' = Append(ready, packing) /\ sliceq' = sliceq /\ sent' = sent
        /\ content' = content
    BY <1>8 DEF PackerPut, IInv, TypeOK, outside, sink
  <2>2. /\ Len(ready') = Len(ready) + 1 /\ ready'[Len(ready) + 1] = packing
        /\ \A i \in 1..Len(ready) : ready'[i] = ready[i]
        /\ \A i \in 1..Len(ready') : i \in 1..Len(ready) \/ i = Len(ready) + 1
    BY <1>3, <1>4, <2>1, Appended
  <2>3. Filled'
    <3>0. ASSUME NEW i \in 1..Len(ready'), NEW j \in 1..Len(ready'[i].bufs)
          PROVE  content'[ready'[i].bufs[j]] = <<ready'[i].timestamp, 0 + j>>
      <4>1. CASE i \in 1..Len(ready)
        <5>1. ready'[i] = ready[i]
          BY <2>2, <4>1
        <5>2. Holds(ready[i], 0)
          BY <4>1 DEF Filled
        <5> QED
          BY <2>1, <3>0, <5>1, <5>2 DEF Holds
      <4>2. CASE i = Len(ready) + 1
        <5>1. ready'[i] = packing
          BY <2>2, <4>2
        <5>2. Holds(packing, 0)
          BY <2>1 DEF Filled
        <5> QED
          BY <2>1, <3>0, <5>1, <5>2 DEF Holds
      <4> QED
        BY <2>2, <3>0, <4>1, <4>2
    <3>1. \A i \in 1..Len(ready') : Holds(ready[i], 0)'
      BY <3>0 DEF Holds
    <3>2. desc' # NULL =>
             \/ desc'.timestamp = LastSlice' + 1 /\ Holds(desc, 0)'
             \/ rendered' # <<>> /\ desc'.timestamp = LastSlice' /\ Holds(desc, LastPart)'
      BY <1>1, <1>2, <2>1 DEF Filled, Holds
    <3> QED
      BY <2>1, <3>1, <3>2 DEF Filled
  <2>4. Numbered'
    <3>1. ASSUME NEW i \in 1..Len(ready')
          PROVE  ready'[i].timestamp = Current' + i
      <4>1. CASE i \in 1..Len(ready)
        BY <1>2, <2>2, <4>1 DEF Numbered
      <4>2. CASE i = Len(ready) + 1
        BY <1>2, <1>3, <2>1, <2>2, <4>2 DEF Numbered
      <4> QED
        BY <2>2, <3>1, <4>1, <4>2
    <3>2. sent' = Len(sliceq') + Current' + Len(ready') + 0
      BY <1>2, <1>3, <2>1, <2>2 DEF Numbered
    <3> QED
      BY <1>2, <2>1, <3>1, <3>2 DEF Numbered
  <2> QED
    BY <1>2, <2>3, <2>4
<1> QED
  BY <1>5, <1>6, <1>7, <1>8

\* The scheduler thread takes the next slice.
LEMMA GettingOrdered ==
  ASSUME IInv, IInv', Ordered, SchedulerGet
  PROVE  Ordered'
<1> USE DEF Ordered
<1>1. /\ desc = NULL /\ desc' = Head(ready) /\ desc' # NULL
      /\ ready \in Seq(Slice) /\ ready # <<>> /\ ready' = Tail(ready)
      /\ rendered' = rendered /\ first_packet' = first_packet /\ content' = content
      /\ sliceq' = sliceq /\ packing' = packing /\ sent' = sent
  BY DEF SchedulerGet, IInv, TypeOK, packer, sink, outside
<1>2. /\ Submitted' /\ RenderedInOrder' /\ LastSlice' = LastSlice /\ LastPart' = LastPart
  BY <1>1 DEF Submitted, RenderedInOrder, LastSlice, LastPart
<1>3. /\ LastSlice \in Nat /\ Current \in Nat /\ Len(ready) \in Nat
      /\ Len(sliceq) \in Nat /\ sent \in Nat
  BY LastType DEF IInv
<1>4. /\ desc' = ready[1] /\ 1 \in 1..Len(ready) /\ Len(ready') = Len(ready) - 1
      /\ \A i \in 1..Len(ready') : ready'[i] = ready[i + 1] /\ i + 1 \in 1..Len(ready)
  BY <1>1, HeadTail
<1>5. Current = LastSlice /\ desc'.timestamp = Current + 1 /\ Current' = Current + 1
  BY <1>1, <1>4 DEF Current, Numbered
<1>6. Filled'
  <2>1. \A i \in 1..Len(ready') : Holds(ready[i], 0)'
    <3>1. ASSUME NEW i \in 1..Len(ready'), NEW j \in 1..Len(ready'[i].bufs)
          PROVE  content'[ready'[i].bufs[j]] = <<ready'[i].timestamp, 0 + j>>
      <4>1. ready'[i] = ready[i + 1] /\ Holds(ready[i + 1], 0)
        BY <1>4, <3>1 DEF Filled
      <4> QED
        BY <1>1, <3>1, <4>1 DEF Holds
    <3> QED
      BY <3>1 DEF Holds
  <2>2. Holds(desc, 0)'
    <3>1. Holds(ready[1], 0)
      BY <1>4 DEF Filled
    <3> QED
      BY <1>1, <1>4, <3>1 DEF Holds
  <2>3. packing' # NULL => Holds(packing, 0)'
    BY <1>1 DEF Filled, Holds
  <2> QED
    BY <1>2, <1>5, <2>1, <2>2, <2>3 DEF Filled
<1>7. Numbered'
  <2>1. ASSUME NEW i \in 1..Len(ready') PROVE ready'[i].timestamp = Current' + i
    <3>1. ready[i + 1].timestamp = Current + (i + 1)
      BY <1>4, <2>1 DEF Numbered
    <3> QED
      BY <1>3, <1>4, <1>5, <2>1, <3>1
  <2>2. packing' # NULL => packing'.timestamp = Current' + Len(ready') + 1
    BY <1>1, <1>3, <1>4, <1>5 DEF Numbered
  <2>3. Len(sliceq) + Current + Len(ready) = Len(sliceq') + Current' + Len(ready')
    BY <1>1, <1>3, <1>4, <1>5
  <2> QED
    BY <1>1, <1>3, <2>1, <2>2, <2>3 DEF Numbered
<1> QED
  BY <1>2, <1>6, <1>7

\* The scheduler thread submits the next buffer of the slice it holds.
LEMMA SubmittingOrdered ==
  ASSUME IInv, IInv', Ordered, Whole, SchedulerSubmit
  PROVE  Ordered'
<1> USE DEF Ordered
<1> DEFINE b == Head(desc.bufs)
           rest == Tail(desc.bufs)
           e == [slice |-> desc.timestamp, data |-> content[b], start |-> first_packet]
<1>1. /\ desc \in Slice /\ desc # NULL /\ desc.bufs # <<>>
      /\ content \in [Buffers -> Nat \X Nat] /\ first_packet \in BOOLEAN
      /\ rendered' = Append(rendered, e)
      /\ desc' = IF rest = <<>> THEN NULL ELSE [desc EXCEPT !.bufs = rest]
      /\ first_packet' = FALSE /\ ready' = ready /\ content' = content
      /\ sliceq' = sliceq /\ packing' = packing /\ sent' = sent
  BY DEF SchedulerSubmit, IInv, TypeOK, packer, queues, outside
<1>2. /\ desc.timestamp \in Nat /\ desc.bufs \in Seq(Buffers)
  BY <1>1 DEF Slice
<1>3. /\ b \in Buffers /\ b = desc.bufs[1] /\ 1 \in 1..Len(desc.bufs)
      /\ rest \in Seq(Buffers)
      /\ \A j \in 1..Len(rest) : rest[j] = desc.bufs[j + 1] /\ j + 1 \in 1..Len(desc.bufs)
  BY <1>1, <1>2, HeadTail
<1>4. e \in Submission /\ e.slice = desc.timestamp /\ e.data = content[b]
      /\ e.start = first_packet
  BY <1>1, <1>2, <1>3 DEF Submission
<1>5. rest # <<>> => /\ desc' # NULL /\ desc'.timestamp = desc.timestamp
                     /\ desc'.bufs = rest
  <2>1. rest # <<>> => [desc EXCEPT !.bufs = rest] \in Slice
    BY <1>1, <1>3 DEF Slice
  <2> QED
    BY <1>1, <2>1, NullAssumption DEF Slice
<1> HIDE DEF b, rest, e
<1>6. /\ rendered \in Seq(Submission) /\ rendered' \in Seq(Submission)
      /\ rendered' # <<>> /\ Len(rendered) \in Nat
      /\ Len(rendered') = Len(rendered) + 1 /\ rendered'[Len(rendered) + 1] = e
      /\ \A i \in 1..Len(rendered) : rendered'[i] = rendered[i]
  BY <1>1, <1>4, Appended DEF Submitted
<1>7. LastSlice' = desc.timestamp /\ LastPart' = content[b][2]
  BY <1>4, <1>6 DEF LastSlice, LastPart
<1>8. Current = desc.timestamp /\ Current' = desc.timestamp
  BY <1>1, <1>5, <1>7 DEF Current
<1>9. Submitted'
  BY <1>1, <1>6 DEF Submitted
<1>10. /\ LastSlice \in Nat /\ LastPart \in Nat
  BY LastType DEF IInv
<1>11. \/ desc.timestamp = LastSlice + 1 /\ Holds(desc, 0)
       \/ rendered # <<>> /\ desc.timestamp = LastSlice /\ Holds(desc, LastPart)
  BY <1>1 DEF Filled
<1>12. ASSUME NEW k \in Nat, Holds(desc, k)
       PROVE  /\ content[b] = <<desc.timestamp, k + 1>>
              /\ LastPart' = k + 1
              /\ rest # <<>> => Holds(desc, LastPart)'
  <2>1. content[b] = <<desc.timestamp, k + 1>>
    BY <1>3, <1>12 DEF Holds
  <2>2. LastPart' = k + 1
    BY <1>7, <2>1
  <2>3. ASSUME NEW j \in 1..Len(rest)
        PROVE  content[rest[j]] = <<desc.timestamp, (k + 1) + j>>
    <3>1. content[desc.bufs[j + 1]] = <<desc.timestamp, k + (j + 1)>>
      BY <1>3, <1>12, <2>3 DEF Holds
    <3>2. Len(rest) \in Nat
      BY <1>3, LenProperties
    <3>3. k + (j + 1) = (k + 1) + j
      BY <1>12, <2>3, <3>2
    <3> QED
      BY <1>3, <2>3, <3>1, <3>3
  <2>4. rest # <<>> => Holds(desc, LastPart)'
    BY <1>1, <1>5, <2>2, <2>3 DEF Holds
  <2> QED
    BY <2>1, <2>2, <2>4
<1>13. Filled'
  <2>1. desc' # NULL => rest # <<>>
    BY <1>1
  <2>2. desc' # NULL => Holds(desc, LastPart)'
    BY <1>10, <1>11, <1>12, <2>1
  <2>3. desc' # NULL => desc'.timestamp = LastSlice'
    BY <1>5, <1>7, <2>1
  <2>4. packing' # NULL => Holds(packing, 0)'
    BY <1>1 DEF Filled, Holds
  <2>5. \A i \in 1..Len(ready') : Holds(ready[i], 0)'
    <3>1. \A i \in 1..Len(ready) : \A j \in 1..Len(ready[i].bufs) :
             content'[ready[i].bufs[j]] = <<ready[i].timestamp, 0 + j>>
      BY <1>1 DEF Filled, Holds
    <3> QED
      BY <1>1, <3>1 DEF Holds
  <2> QED
    BY <1>6, <2>2, <2>3, <2>4, <2>5 DEF Filled
<1>14. Numbered'
  BY <1>1, <1>8 DEF Numbered
<1>15. RenderedInOrder'
  <2> DEFINE n == Len(rendered)
             Right(i) == /\ rendered'[i].data[1] = rendered'[i].slice
                         /\ rendered'[i].start = (i = 1)
                         /\ i = 1 => rendered'[i].data = <<1, 1>>
                         /\ i > 1 => \/ /\ rendered'[i].slice = rendered'[i - 1].slice
                                        /\ rendered'[i].data[2]
                                               = rendered'[i - 1].data[2] + 1
                                     \/ /\ rendered'[i].slice
                                               = rendered'[i - 1].slice + 1
                                        /\ rendered'[i].data[2] = 1
                                        /\ rendered'[i - 1].data[2]
                                               = Parts[rendered'[i - 1].slice]
  <2>1. ASSUME NEW i \in 1..n PROVE Right(i)
    <3>1. rendered'[i] = rendered[i]
      BY <1>6
    <3>2. i > 1 => i - 1 \in 1..n /\ rendered'[i - 1] = rendered[i - 1]
      BY <1>6
    <3> QED
      BY <3>1, <3>2 DEF RenderedInOrder
  <2>2. Right(n + 1)
    <3>1. rendered = <<>> <=> n = 0
      BY <1>6, EmptySeq
    <3>2. first_packet = (n + 1 = 1)
      BY <1>6, <3>1 DEF Submitted
    <3>3. n # 0 => /\ (n + 1) - 1 = n /\ rendered'[n] = rendered[n]
                   /\ LastSlice = rendered'[n].slice /\ LastPart = rendered'[n].data[2]
      <4>1. n # 0 => n \in 1..n
        BY <1>6
      <4> QED
        BY <1>6, <3>1, <4>1 DEF LastSlice, LastPart
    <3>4. n = 0 => LastSlice = 0
      BY <3>1 DEF LastSlice
    <3>5. rendered'[n + 1] = e
      BY <1>6
    <3>6. CASE desc.timestamp = LastSlice + 1 /\ Holds(desc, 0)
      <4>1. e.data = <<desc.timestamp, 1>>
        BY <1>4, <1>12, <3>6
      <4>2. n + 1 = 1 => desc.timestamp = 1
        BY <1>6, <3>4, <3>6
      <4>3. n + 1 > 1 => rendered'[n + 1].slice = rendered'[(n + 1) - 1].slice + 1
                         /\ rendered'[n + 1].data[2] = 1
        BY <1>4, <1>6, <3>3, <3>5, <3>6, <4>1
      <4>4. n + 1 > 1 => rendered'[(n + 1) - 1].data[2]
                            = Parts[rendered'[(n + 1) - 1].slice]
        <5>1. desc.timestamp # LastSlice
          BY <1>10, <3>6
        <5>2. EndsWhole
          BY <1>1, <5>1 DEF Whole
        <5>3. n # 0 => LastPart = Parts[LastSlice]
          BY <3>1, <5>2 DEF EndsWhole
        <5> QED
          BY <1>6, <3>3, <5>3
      <4> QED
        BY <1>4, <3>2, <3>5, <4>1, <4>2, <4>3, <4>4
    <3>7. CASE rendered # <<>> /\ desc.timestamp = LastSlice /\ Holds(desc, LastPart)
      <4>1. e.data = <<desc.timestamp, LastPart + 1>>
        BY <1>4, <1>10, <1>12, <3>7
      <4>2. n # 0 /\ n + 1 # 1
        BY <1>6, <3>1, <3>7
      <4>3. /\ rendered'[n + 1].slice = rendered'[(n + 1) - 1].slice
            /\ rendered'[n + 1].data[2] = rendered'[(n + 1) - 1].data[2] + 1
        BY <1>4, <3>3, <3>5, <3>7, <4>1, <4>2
      <4> QED
        BY <1>4, <3>2, <3>5, <4>1, <4>2, <4>3
    <3> QED
      BY <1>11, <3>6, <3>7
  <2> HIDE DEF Right
  <2>3. \A i \in 1..Len(rendered') : Right(i)
    <3>1. \A i \in 1..Len(rendered') : i \in 1..n \/ i = n + 1
      BY <1>6
    <3> QED
      BY <2>1, <2>2, <3>1
  <2> QED
    BY <2>3 DEF RenderedInOrder, Right
<1> QED
  BY <1>9, <1>13, <1>14, <1>15

LEMMA StepOrdered ==
  ASSUME IInv, IInv', Unpacked, Placed, Ordered, Whole, [Next]_vars
  PROVE  Ordered'
<1>1. CASE SendSlice \/ PackerGet \/ PackerFill \/ PackerPut
  BY <1>1, PackingOrdered
<1>2. CASE SchedulerGet
  BY <1>2, GettingOrdered
<1>3. CASE SchedulerSubmit
  BY <1>3, SubmittingOrdered
<1>4. ASSUME ~SendSlice, ~PackerGet, ~PackerFill, ~PackerPut, ~SchedulerGet,
             ~SchedulerSubmit
      PROVE  Ordered'
  <2>1. UNCHANGED <<sent, sliceq, ready, packing, desc, content, first_packet, rendered>>
    BY <1>4
       DEF Next, Outside, Packer, PcrUpdate, Scheduler, Tick, SendPcr,
           PortSettingsChanged, BufferDone, PackerPoll, PackerGetNone, PackerFails,
           PcrReceive, PcrNone, PcrRead, PcrStore, SchedulerPresent, SchedulerFails, vars,
           outside, queues, packer, scheduler, sink
  <2>2. Submitted' /\ RenderedInOrder' /\ Numbered'
    BY <2>1 DEF Ordered, Submitted, RenderedInOrder, Numbered, Current, LastSlice
  <2>3. Filled'
    BY <2>1 DEF Ordered, Filled, Holds, LastSlice, LastPart
  <2> QED
    BY <2>2, <2>3 DEF Ordered
<1> QED
  BY <1>1, <1>2, <1>3, <1>4

LEMMA InitWhole == Init => Whole
<1> SUFFICES ASSUME Init PROVE Whole
  OBVIOUS
<1>1. Len(sliceq) = 0 /\ Len(ready) = 0
  BY DEF Init
<1> QED
  BY <1>1 DEF Init, Whole, EndsWhole

\* What the senders and the packing thread do to the parts: a slice is put on
\* SLICE_READY when it has all of them.
LEMMA PackingWhole ==
  ASSUME IInv, Ordered, Whole, SendSlice \/ PackerGet \/ PackerFill \/ PackerPut
  PROVE  Whole'
<1>1. /\ rendered' = rendered /\ desc' = desc
      /\ LastSlice' = LastSlice /\ LastPart' = LastPart
  BY DEF SendSlice, PackerGet, PackerFill, PackerPut, scheduler, sink, LastSlice,
         LastPart
<1>2. /\ desc' = NULL => EndsWhole'
      /\ desc' # NULL =>
            \/ /\ desc'.timestamp = LastSlice' + 1 /\ EndsWhole'
               /\ Len(desc'.bufs) = Parts[desc'.timestamp]
            \/ /\ desc'.timestamp = LastSlice'
               /\ LastPart' + Len(desc'.bufs) = Parts[LastSlice']
  BY <1>1 DEF Whole, EndsWhole
<1>3. ready \in Seq(Slice) /\ sliceq \in Seq(Slice)
  BY DEF IInv, TypeOK
<1>4. CASE SendSlice
  <2> DEFINE e == [timestamp |-> sent + 1, parts |-> Parts[sent + 1], bufs |-> <<>>]
  <2>1. /\ sliceq' = Append(sliceq, e) /\ e.parts = Parts[e.timestamp]
        /\ ready' = ready /\ packing' = packing
    BY <1>4 DEF SendSlice, packer
  <2> HIDE DEF e
  <2>2. /\ Len(sliceq) \in Nat /\ Len(sliceq') = Len(sliceq) + 1
        /\ sliceq'[Len(sliceq) + 1] = e
        /\ \A i \in 1..Len(sliceq) : sliceq'[i] = sliceq[i]
    BY <1>3, <2>1, AppendProperties, LenProperties
  <2>3. ASSUME NEW i \in 1..Len(sliceq')
        PROVE  sliceq'[i].parts = Parts[sliceq'[i].timestamp]
    <3>1. i \in 1..Len(sliceq) \/ i = Len(sliceq) + 1
      BY <2>2
    <3>2. CASE i \in 1..Len(sliceq)
      BY <2>2, <3>2 DEF Whole
    <3>3. CASE i = Len(sliceq) + 1
      BY <2>1, <2>2, <3>3
    <3> QED
      BY <3>1, <3>2, <3>3
  <2> QED
    BY <1>2, <2>1, <2>3 DEF Whole
<1>5. CASE PackerGet
  <2>1. /\ sliceq # <<>> /\ packing' = Head(sliceq)
        /\ sliceq' = Tail(sliceq) /\ ready' = ready
    BY <1>5 DEF PackerGet
  <2>2. /\ packing' = sliceq[1] /\ 1 \in 1..Len(sliceq)
        /\ \A i \in 1..Len(sliceq') : sliceq'[i] = sliceq[i + 1] /\ i + 1 \in 1..Len(sliceq)
    BY <1>3, <2>1, HeadTail
  <2>3. packing'.parts = Parts[packing'.timestamp]
    BY <2>2 DEF Whole
  <2>4. \A i \in 1..Len(sliceq') : sliceq'[i].parts = Parts[sliceq'[i].timestamp]
    BY <2>2 DEF Whole
  <2> QED
    BY <1>2, <2>1, <2>3, <2>4 DEF Whole
<1>6. CASE PackerFill
  <2>1. /\ packing \in Slice /\ packing # NULL
        /\ packing' = [packing EXCEPT !.bufs = Append(packing.bufs, Head(in_list))]
        /\ sliceq' = sliceq /\ ready' = ready
    BY <1>6 DEF PackerFill, IInv, TypeOK, queues
  <2>2. packing'.parts = packing.parts /\ packing'.timestamp = packing.timestamp
    BY <2>1 DEF Slice
  <2>3. packing'.parts = Parts[packing'.timestamp]
    BY <2>1, <2>2 DEF Whole
  <2> QED
    BY <1>2, <2>1, <2>3 DEF Whole
<1>7. CASE PackerPut
  <2>1. /\ packing \in Slice /\ packing # NULL /\ packing' = NULL
        /\ Len(packing.bufs) = packing.parts
        /\ ready' = Append(ready, packing) /\ sliceq' = sliceq
    BY <1>7 DEF PackerPut, IInv, TypeOK
  <2>2. /\ Len(ready) \in Nat /\ Len(ready') = Len(ready) + 1
        /\ ready'[Len(ready) + 1] = packing
        /\ \A i \in 1..Len(ready) : ready'[i] = ready[i]
    BY <1>3, <2>1, Appended
  <2>3. ASSUME NEW i \in 1..Len(ready')
        PROVE  Len(ready'[i].bufs) = Parts[ready'[i].timestamp]
    <3>1. i \in 1..Len(ready) \/ i = Len(ready) + 1
      BY <2>2
    <3>2. CASE i \in 1..Len(ready)
      BY <2>2, <3>2 DEF Whole
    <3>3. CASE i = Len(ready) + 1
      BY <2>1, <2>2, <3>3 DEF Whole
    <3> QED
      BY <3>1, <3>2, <3>3
  <2> QED
    BY <1>2, <2>1, <2>3 DEF Whole
<1> QED
  BY <1>4, <1>5, <1>6, <1>7

LEMMA GettingWhole ==
  ASSUME IInv, Ordered, Whole, SchedulerGet
  PROVE  Whole'
<1>1. /\ desc = NULL /\ desc' = Head(ready)
      /\ ready \in Seq(Slice) /\ ready # <<>> /\ ready' = Tail(ready)
      /\ rendered' = rendered /\ sliceq' = sliceq /\ packing' = packing
  BY DEF SchedulerGet, IInv, TypeOK, packer, sink
<1>2. LastSlice' = LastSlice /\ LastPart' = LastPart
  BY <1>1 DEF LastSlice, LastPart
<1>3. /\ desc' = ready[1] /\ 1 \in 1..Len(ready)
      /\ \A i \in 1..Len(ready') : ready'[i] = ready[i + 1] /\ i + 1 \in 1..Len(ready)
  BY <1>1, HeadTail
<1>4. desc'.timestamp = LastSlice' + 1
  BY <1>1, <1>2, <1>3 DEF Ordered, Numbered, Current
<1>5. Len(desc'.bufs) = Parts[desc'.timestamp]
  BY <1>3 DEF Whole
<1>6. EndsWhole'
  BY <1>1, <1>2 DEF Whole, EndsWhole
<1>7. \A i \in 1..Len(ready') : Len(ready'[i].bufs) = Parts[ready'[i].timestamp]
  BY <1>3 DEF Whole
<1> QED
  BY <1>1, <1>4, <1>5, <1>6, <1>7 DEF Whole

\* With the buffer submitted its part is, and the buffers left are one fewer.
LEMMA SubmittingWhole ==
  ASSUME IInv, Ordered, Whole, SchedulerSubmit
  PROVE  Whole'
<1> DEFINE b == Head(desc.bufs)
           rest == Tail(desc.bufs)
           e == [slice |-> desc.timestamp, data |-> content[b], start |-> first_packet]
<1>1. /\ desc \in Slice /\ desc # NULL /\ desc.bufs # <<>>
      /\ content \in [Buffers -> Nat \X Nat] /\ first_packet \in BOOLEAN
      /\ rendered' = Append(rendered, e)
      /\ desc' = IF rest = <<>> THEN NULL ELSE [desc EXCEPT !.bufs = rest]
      /\ ready' = ready /\ sliceq' = sliceq /\ packing' = packing
  BY DEF SchedulerSubmit, IInv, TypeOK, packer, queues
<1>2. desc.timestamp \in Nat /\ desc.bufs \in Seq(Buffers)
  BY <1>1 DEF Slice
<1>3. /\ b \in Buffers /\ b = desc.bufs[1] /\ 1 \in 1..Len(desc.bufs)
      /\ rest \in Seq(Buffers)
      /\ Len(desc.bufs) \in Nat /\ Len(rest) = Len(desc.bufs) - 1
  BY <1>1, <1>2, HeadTail
<1>4. e \in Submission /\ e.slice = desc.timestamp /\ e.data = content[b]
  BY <1>1, <1>2, <1>3 DEF Submission
<1>5. rest # <<>> => desc'.timestamp = desc.timestamp /\ desc'.bufs = rest
  BY <1>1, <1>3 DEF Slice
<1> HIDE DEF b, rest, e
<1>6. rest = <<>> => Len(rest) = 0
  OBVIOUS
<1>7. LastSlice' = desc.timestamp /\ LastPart' = content[b][2]
  <2>1. rendered \in Seq(Submission)
    BY DEF Ordered, Submitted
  <2>2. /\ rendered' # <<>> /\ rendered'[Len(rendered')] = e
    BY <1>1, <1>4, <2>1, Appended
  <2> QED
    BY <1>4, <2>2 DEF LastSlice, LastPart
<1>8. /\ LastSlice \in Nat /\ LastPart \in Nat
  BY LastType DEF IInv, Ordered
<1>9. PICK k \in Nat : Holds(desc, k) /\ k + Len(desc.bufs) = Parts[desc.timestamp]
  <2>1. CASE desc.timestamp = LastSlice + 1 /\ Holds(desc, 0)
    <3>1. Len(desc.bufs) = Parts[desc.timestamp]
      BY <1>1, <1>8, <2>1 DEF Whole
    <3> QED
      BY <1>3, <2>1, <3>1
  <2>2. CASE desc.timestamp = LastSlice /\ Holds(desc, LastPart)
    <3>1. LastPart + Len(desc.bufs) = Parts[desc.timestamp]
      BY <1>1, <1>8, <2>2 DEF Whole
    <3> QED
      BY <1>8, <2>2, <3>1
  <2> QED
    BY <1>1, <2>1, <2>2 DEF Ordered, Filled
<1>10. LastPart' = k + 1
  <2>1. content[b] = <<desc.timestamp, k + 1>>
    BY <1>3, <1>9 DEF Holds
  <2> QED
    BY <1>7, <2>1
<1>11. LastPart' + Len(rest) = Parts[LastSlice']
  <2>1. (k + 1) + Len(rest) = k + Len(desc.bufs)
    <3>1. \A l, m \in Nat : m = l - 1 => (k + 1) + m = k + l
      OBVIOUS
    <3>2. Len(rest) \in Nat /\ Len(desc.bufs) \in Nat /\ Len(rest) = Len(desc.bufs) - 1
      BY <1>3, LenProperties
    <3> QED
      BY <3>1, <3>2
  <2>2. k + Len(desc.bufs) = Parts[LastSlice']
    BY <1>7, <1>9
  <2> QED
    BY <1>10, <2>1, <2>2
<1>12. desc' = NULL => EndsWhole'
  <2>1. rest = <<>> => LastPart' = Parts[LastSlice']
    BY <1>6, <1>9, <1>10, <1>11
  <2>2. rest # <<>> => desc' # NULL
    <3>1. rest # <<>> => [desc EXCEPT !.bufs = rest] \in Slice
      BY <1>1, <1>3 DEF Slice
    <3> QED
      BY <1>1, <3>1, NullAssumption
  <2> QED
    BY <2>1, <2>2 DEF EndsWhole
<1>13. desc' # NULL => /\ desc'.timestamp = LastSlice'
                       /\ LastPart' + Len(desc'.bufs) = Parts[LastSlice']
  BY <1>1, <1>5, <1>7, <1>11
<1> QED
  BY <1>1, <1>12, <1>13 DEF Whole

LEMMA StepWhole ==
  ASSUME IInv, Ordered, Whole, [Next]_vars
  PROVE  Whole'
<1>1. CASE SendSlice \/ PackerGet \/ PackerFill \/ PackerPut
  BY <1>1, PackingWhole
<1>2. CASE SchedulerGet
  BY <1>2, GettingWhole
<1>3. CASE SchedulerSubmit
  BY <1>3, SubmittingWhole
<1>4. ASSUME ~SendSlice, ~PackerGet, ~PackerFill, ~PackerPut, ~SchedulerGet,
             ~SchedulerSubmit
      PROVE  Whole'
  <2>1. UNCHANGED <<sliceq, ready, packing, desc, rendered>>
    BY <1>4
       DEF Next, Outside, Packer, PcrUpdate, Scheduler, Tick, SendPcr,
           PortSettingsChanged, BufferDone, PackerPoll, PackerGetNone, PackerFails,
           PcrReceive, PcrNone, PcrRead, PcrStore, SchedulerPresent, SchedulerFails,
           vars, outside, queues, packer, scheduler, sink
  <2> QED
    BY <2>1 DEF Whole, EndsWhole, LastSlice, LastPart
<1> QED
  BY <1>1, <1>2, <1>3, <1>4

\* The component receives every slice in order, all its parts before the first of the
\* next, with the data its buffers were filled with, for any slices and any number of
\* buffers
\* (sx_mgmt_video_scheduler.c:158-185, 338-349, sx_video_sink.c:239-243).
THEOREM RenderedInOrderCorrect == Spec => []RenderedInOrder
<1> DEFINE Inv == IInv /\ Unpacked /\ Placed /\ Ordered /\ Whole
<1>1. Inv /\ [Next]_vars => Inv'
  BY StepInv, StepUnpacked, StepPlaced, StepOrdered, StepWhole
<1>2. Init => Inv
  BY InitInv, InitPlaced, InitOrdered, InitWhole
<1>3. Inv => RenderedInOrder
  BY DEF Ordered
<1> HIDE DEF Inv
<1> QED
  BY <1>1, <1>2, <1>3, PTL DEF Spec
=============================================================================
