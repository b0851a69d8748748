----------------------------- MODULE VideoDecoder -----------------------------
(***************************************************************************)
(* The thread of mgmt_video_decoder: it takes datagrams with video from    *)
(* the VIDEO_PKT queue, finds slice starts, chains the datagrams of a      *)
(* slice while the continuity counters of their MPEG2-TS packets follow    *)
(* one another, and puts a finished chain, behind a header with its        *)
(* presentation time, on the SLICE queue.                                  *)
(*                                                                         *)
(* The source is external.  It numbers its video TS packets 0, 1, 2, ...;  *)
(* the continuity counter of a TS packet is its number modulo CCMod.  A    *)
(* datagram carries 1..MaxTs consecutive TS packets of one slice, and a    *)
(* slice starts a datagram.  Datagrams are lost on the way, not reordered. *)
(* The presentation time of a slice is abstracted to its number.           *)
(* A descriptor is told by the datagram it holds.  Its data_len is the     *)
(* datagram's length, as sx_desc.h says; module Ingress is about that.     *)
(***************************************************************************)
EXTENDS Integers, Sequences

CONSTANTS
    CCMod,          \* values of a continuity counter (16, from the mask 0x0F)
    MaxTs,          \* TS packets in a datagram, at most
    MaxGap,         \* TS packets lost in a row, at most
    MaxSlices,      \* bound: slices the source sends
    MaxDatagrams,   \* bound: datagrams of one slice
    MaxBacklog      \* bound: datagrams waiting in the VIDEO_PKT queue

ASSUME DecoderAssumption ==
    /\ CCMod \in Nat \ {0}
    /\ MaxTs \in Nat \ {0}
    /\ MaxGap \in 0..(CCMod - 1)
    /\ MaxSlices \in Nat /\ MaxDatagrams \in Nat /\ MaxBacklog \in Nat

VARIABLES
    \* the source and the way to the VIDEO_PKT queue
    sent,           \* TS packets sent
    begin,          \* begin[s]: the number of the first TS packet of slice s
    datagrams,      \* datagrams sent of the slice being sent
    gap,            \* TS packets lost since the last datagram that arrived
    lost,           \* the datagrams lost (history)
    pktq,           \* the queue VIDEO_PKT
    \* f_cblk, private to the decoder thread
    look_for_new_slice, last_cc, slice_pkt_count, slice_pts_ms, slice_count,
    slice_chain,    \* the descriptors from slice_chain.head to .tail
    \* what becomes of the descriptors
    sliceq,         \* the queue SLICE: all that was put there
    freed,          \* descriptors released with sx_desc_put()
    leaked          \* descriptors the thread let go of without releasing them

source  == <<sent, begin, datagrams, gap, lost>>
decoder == <<look_for_new_slice, last_cc, slice_pkt_count, slice_pts_ms,
             slice_count, slice_chain>>
vars    == <<source, pktq, decoder, sliceq, freed, leaked>>

\* A datagram as slice_start_find() and m2ts_data_interpret() see it: whether a slice
\* starts in it, and the numbers of its TS packets with video, from ts on.  It is well
\* formed, so the assertions of the two walks hold: on the length (lines 68, 75, 217,
\* 222), and on a TS packet that has no payload (261).
Packet == [slice : Nat \ {0}, start : BOOLEAN, ts : Nat, n : 1..MaxTs]

Elements(seq) == {seq[i] : i \in 1..Len(seq)}

\* Mutation: the counter is taken without its mask.
CCEndUnmasked(p) == p.ts + p.n - 1

CCStart(p) == p.ts % CCMod
CCEnd(p)   == (p.ts + p.n - 1) % CCMod

Init ==
    /\ sent = 0 /\ begin = <<>> /\ datagrams = 0 /\ gap = 0 /\ lost = {}
    /\ pktq = <<>>
    /\ look_for_new_slice = TRUE
    /\ last_cc = 0 /\ slice_pkt_count = 0 /\ slice_pts_ms = 0 /\ slice_count = 0
    /\ slice_chain = <<>>
    /\ sliceq = <<>> /\ freed = {} /\ leaked = {}

(***************************************************************************)
(* The source sends a datagram, which arrives or is lost.                  *)
(***************************************************************************)
Deliver(p) ==
    /\ Len(pktq) < MaxBacklog
    /\ pktq' = Append(pktq, p)
    /\ gap' = 0
    /\ UNCHANGED lost

Lose(p) ==
    /\ gap + p.n <= MaxGap
    /\ gap' = gap + p.n
    /\ lost' = lost \cup {p}
    /\ UNCHANGED pktq

SendStart(n) ==
    /\ Len(begin) < MaxSlices
    /\ begin' = Append(begin, sent)
    /\ datagrams' = 1
    /\ sent' = sent + n
    /\ LET p == [slice |-> Len(begin) + 1, start |-> TRUE, ts |-> sent, n |-> n]
       IN  Deliver(p) \/ Lose(p)
    /\ UNCHANGED <<decoder, sliceq, freed, leaked>>

SendMore(n) ==
    /\ datagrams \in 1..(MaxDatagrams - 1)
    /\ datagrams' = datagrams + 1
    /\ sent' = sent + n
    /\ LET p == [slice |-> Len(begin), start |-> FALSE, ts |-> sent, n |-> n]
       IN  Deliver(p) \/ Lose(p)
    /\ UNCHANGED <<begin, decoder, sliceq, freed, leaked>>

(***************************************************************************)
(* One iteration of video_decoder_thread(): it pulls a descriptor and      *)
(* disposes of it.  Nothing else touches f_cblk.                           *)
(***************************************************************************)
Pull ==
    /\ pktq # <<>>
    /\ pktq' = Tail(pktq)

desc == Head(pktq)

\* Still looking for a slice start and this is none: "goto cleanup".
Skip ==
    /\ Pull
    /\ look_for_new_slice /\ ~desc.start
    /\ leaked' = leaked \cup {desc}
    /\ UNCHANGED <<source, decoder, sliceq, freed>>

\* video_decoder_slice_dump(slice_pts_ms, slice_chain_get())
Dump ==
    sliceq' = Append(sliceq, [timestamp |-> slice_pts_ms, chain |-> slice_chain])

\* Mutation: the new presentation time overwrites the old one before the dump.
StartSliceStampFirst ==
    /\ Pull
    /\ desc.start
    /\ look_for_new_slice' = FALSE
    /\ slice_pts_ms' = desc.slice
    /\ sliceq' = IF slice_pkt_count > 0
                 THEN Append(sliceq, [timestamp |-> desc.slice, chain |-> slice_chain])
                 ELSE sliceq
    /\ slice_count' = slice_count + 1
    /\ last_cc' = CCEnd(desc)
    /\ slice_chain' = <<desc>>
    /\ slice_pkt_count' = 1
    /\ UNCHANGED <<source, freed, leaked>>

\* Mutation: only the first slice of all sets the presentation time.
StartSliceStampOnce ==
    /\ Pull
    /\ desc.start
    /\ look_for_new_slice' = FALSE
    /\ IF slice_pkt_count > 0 THEN Dump ELSE UNCHANGED sliceq
    /\ slice_pts_ms' = IF slice_count = 0 THEN desc.slice ELSE slice_pts_ms
    /\ slice_count' = slice_count + 1
    /\ last_cc' = CCEnd(desc)
    /\ slice_chain' = <<desc>>
    /\ slice_pkt_count' = 1
    /\ UNCHANGED <<source, freed, leaked>>

\* Mutation: the start that ends the search is not itself chained.
StartSliceDiscard ==
    /\ Pull
    /\ desc.start
    /\ look_for_new_slice' = FALSE
    /\ IF slice_pkt_count > 0 THEN Dump ELSE UNCHANGED sliceq
    /\ slice_pts_ms' = desc.slice
    /\ slice_count' = slice_count + 1
    /\ last_cc' = CCEnd(desc)
    /\ slice_chain' = IF look_for_new_slice THEN <<>> ELSE <<desc>>
    /\ slice_pkt_count' = IF look_for_new_slice THEN 0 ELSE 1
    /\ UNCHANGED <<source, freed, leaked>>

\* A slice start ends the chain under way, if any, and begins a new one.
StartSlice ==
    /\ Pull
    /\ desc.start
    /\ look_for_new_slice' = FALSE
    /\ IF slice_pkt_count > 0 THEN Dump ELSE UNCHANGED sliceq
    /\ slice_pts_ms' = IF slice_count = 0 \/ slice_pkt_count > 0
                       THEN desc.slice ELSE slice_pts_ms
    /\ slice_count' = slice_count + 1
    /\ last_cc' = CCEnd(desc)
    /\ slice_chain' = <<desc>>
    /\ slice_pkt_count' = 1
    /\ UNCHANGED <<source, freed, leaked>>

\* Mutation: the successor of the last counter does not wrap around.
ContinuousNoWrap == slice_pkt_count = 0 \/ last_cc + 1 = CCStart(desc)

Continuous == slice_pkt_count = 0 \/ (last_cc + 1) % CCMod = CCStart(desc)

\* A datagram that continues the chain.
Extend ==
    /\ Pull
    /\ ~look_for_new_slice /\ ~desc.start
    /\ Continuous
    /\ last_cc' = CCEnd(desc)
    /\ slice_chain' = Append(slice_chain, desc)
    /\ slice_pkt_count' = slice_pkt_count + 1
    /\ UNCHANGED <<source, look_for_new_slice, slice_pts_ms, slice_count,
                   sliceq, freed, leaked>>

\* Mutation: after a drop the next datagram may begin a chain.
BreakKeepGoing ==
    /\ Pull
    /\ ~look_for_new_slice /\ ~desc.start
    /\ ~Continuous
    /\ freed' = freed \cup Elements(slice_chain)
    /\ slice_chain' = <<>>
    /\ slice_pkt_count' = 0
    /\ leaked' = leaked \cup {desc}
    /\ UNCHANGED <<source, look_for_new_slice, last_cc, slice_pts_ms,
                   slice_count, sliceq>>

\* Mutation: the chain is released but its head and tail are kept.
BreakKeepChain ==
    /\ Pull
    /\ ~look_for_new_slice /\ ~desc.start
    /\ ~Continuous
    /\ freed' = freed \cup Elements(slice_chain)
    /\ look_for_new_slice' = TRUE
    /\ slice_pkt_count' = 0
    /\ leaked' = leaked \cup {desc}
    /\ UNCHANGED <<source, last_cc, slice_pts_ms, slice_count, slice_chain,
                   sliceq>>

\* slice_drop(): a counter is missing, the chain is released.  The datagram
\* that showed it is let go.
Break ==
    /\ Pull
    /\ ~look_for_new_slice /\ ~desc.start
    /\ ~Continuous
    /\ freed' = freed \cup Elements(slice_chain)
    /\ slice_chain' = <<>>
    /\ look_for_new_slice' = TRUE
    /\ slice_pkt_count' = 0
    /\ leaked' = leaked \cup {desc}
    /\ UNCHANGED <<source, last_cc, slice_pts_ms, slice_count, sliceq>>

Decode == Skip \/ StartSlice \/ Extend \/ Break

Next ==
    \/ \E n \in 1..MaxTs : SendStart(n) \/ SendMore(n)
    \/ Decode

\* The thread polls the queue for ever (its usleep(8 * 1000) only delays it);
\* the source owes nothing.
Fairness == WF_vars(Decode)

Spec == Init /\ [][Next]_vars
FairSpec == Spec /\ Fairness

------------------------------------------------------------------------------
(***************************************************************************)
(* Correctness                                                             *)
(***************************************************************************)
TypeOK ==
    /\ sent \in Nat /\ datagrams \in Nat /\ gap \in Nat
    /\ begin \in Seq(Nat)
    /\ lost \subseteq Packet /\ freed \subseteq Packet /\ leaked \subseteq Packet
    /\ pktq \in Seq(Packet) /\ slice_chain \in Seq(Packet)
    /\ look_for_new_slice \in BOOLEAN
    /\ last_cc \in 0..(CCMod - 1)
    /\ slice_pkt_count \in Nat /\ slice_pts_ms \in Nat /\ slice_count \in Nat
    /\ sliceq \in Seq([timestamp : Nat, chain : Seq(Packet)])

\* A chain is the beginning of one slice without a hole.
UnbrokenPrefix(chain) ==
    /\ chain[1].start
    /\ \A i \in 2..Len(chain) :
          /\ ~chain[i].start
          /\ chain[i].slice = chain[i - 1].slice
          /\ chain[i].ts = chain[i - 1].ts + chain[i - 1].n

\* Whatever was lost on the way, the chain being built and every chain handed
\* to the scheduler begin with the slice's first datagram and go on without a
\* hole, as long as fewer than CCMod TS packets are lost in a row.  slice_drop()
\* and the dump never see an empty chain: slice_pkt_count is its length
\* (sx_mgmt_video_decoder.c:369-455).
ChainsUnbroken ==
    /\ slice_pkt_count = Len(slice_chain)
    /\ look_for_new_slice => slice_chain = <<>>
    /\ slice_chain # <<>> => UnbrokenPrefix(slice_chain)
    /\ \A i \in 1..Len(sliceq) :
          sliceq[i].chain # <<>> /\ UnbrokenPrefix(sliceq[i].chain)

\* The chain holds all of slice s: it ends where slice s + 1 begins.
WholeSlice(chain, s) ==
    LET last == chain[Len(chain)]
    IN  /\ chain[1].ts = begin[s]
        /\ last.ts + last.n = begin[s + 1]

Arrived(s) == \A p \in lost : p.slice # s

StartTaken(s) ==
    /\ \A p \in lost \cup Elements(pktq) : ~(p.start /\ p.slice = s)

\* A slice none of whose datagrams was lost is handed on whole, once the first
\* datagram of the next slice has been taken from the queue: losses in earlier
\* slices and the wrap-around of the counter do not cost it
\* (sx_mgmt_video_decoder.c:394-455).
IntactSliceDelivered ==
    \A s \in 1..(Len(begin) - 1) :
        Arrived(s) /\ StartTaken(s + 1) =>
            \E i \in 1..Len(sliceq) : WholeSlice(sliceq[i].chain, s)

\* The presentation times on the SLICE queue increase strictly, also when slices
\* in between were dropped: the scheduler, which waits for the time of the slice
\* it holds, never holds up a slice that is due
\* (sx_mgmt_video_decoder.c:397-411, sx_mgmt_video_scheduler.c:317-336).
TimestampsIncrease ==
    \A i, j \in 1..Len(sliceq) :
        i < j => sliceq[i].timestamp < sliceq[j].timestamp

\* A slice never carries the presentation time of a later one, and carries that of
\* an earlier one only if a datagram between the two was lost
\* (sx_mgmt_video_decoder.c:406-411).
WrongStampOnlyAfterLoss ==
    \A i \in 1..Len(sliceq) :
        LET slice == sliceq[i].chain[1].slice
        IN  /\ sliceq[i].timestamp <= slice
            /\ sliceq[i].timestamp # slice =>
                  \E p \in lost : p.slice \in sliceq[i].timestamp..slice

\* A descriptor has one owner: the queue it waits in, the chain under way, one
\* chain handed on, or nobody any more.  Nothing released is still reachable
\* (sx_mgmt_video_decoder.c:156-189, 305-315).
OneOwner ==
    LET chains == {sliceq[i].chain : i \in 1..Len(sliceq)}
        handedOn == UNION {Elements(c) : c \in chains}
    IN  /\ freed \cap leaked = {}
        /\ (freed \cup leaked) \cap Elements(pktq) = {}
        /\ Elements(slice_chain) \cap (freed \cup leaked \cup Elements(pktq)) = {}
        /\ handedOn \cap (freed \cup leaked \cup Elements(pktq)
                          \cup Elements(slice_chain)) = {}
        /\ \A i, j \in 1..Len(sliceq) : i # j =>
              Elements(sliceq[i].chain) \cap Elements(sliceq[j].chain) = {}

\* A slice start that reaches the queue always begins a chain of its slice: the
\* decoder cannot stay in its search, nor in an old slice, past a start
\* (sx_mgmt_video_decoder.c:369-378, 394-417).
StartsBeginChains ==
    \A s \in 1..MaxSlices :
        (\E p \in Elements(pktq) : p.start /\ p.slice = s)
            ~> slice_chain # <<>> /\ slice_chain[1].slice = s

(***************************************************************************)
(* What the comments of the code say and the code does not do              *)
(***************************************************************************)

\* "find slice start ... record its PTS, know when to render this slice"
\* (sx_mgmt_video_decoder.c:384-385): every slice carries its own time.
OwnTimestamp ==
    \A i \in 1..Len(sliceq) :
        sliceq[i].timestamp = sliceq[i].chain[1].slice

\* "find the other slice-start, means that old slice chain is complete"
\* (sx_mgmt_video_decoder.c:325): what is dumped is a whole slice.
DumpedComplete ==
    \A i \in 1..Len(sliceq) :
        WholeSlice(sliceq[i].chain, sliceq[i].chain[1].slice)
=============================================================================
