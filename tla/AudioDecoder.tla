----------------------------- MODULE AudioDecoder -----------------------------
(***************************************************************************)
(* The thread of mgmt_audio_decoder: it takes datagrams with audio from    *)
(* the LPCM queue, collects the datagrams of a slice from its start until  *)
(* the length announced there is reached, as long as the RTP sequence      *)
(* numbers follow one another, and puts the chain on the LPCM_SLICE queue. *)
(*                                                                         *)
(* The source is external.  It numbers all its datagrams, also those with  *)
(* video, which never reach this queue.  A slice has PesLen units of       *)
(* payload, starts a datagram, and a datagram carries units of one slice.  *)
(* Datagrams are lost on the way, not reordered.  Slices of unknown length *)
(* (pes_len = -14) are not sent.                                           *)
(***************************************************************************)
EXTENDS Integers, Sequences

CONSTANTS
    PesLen,         \* units of payload in a slice (1920 bytes)
    SeqNums,        \* values of an RTP sequence number (2^16)
    MaxGap,         \* datagrams between two that arrive, at most
    MaxSlices,      \* bound: slices the source sends
    MaxVideo,       \* bound: datagrams with video the source sends
    MaxBacklog      \* bound: datagrams waiting in the LPCM queue

ASSUME DecoderAssumption ==
    /\ PesLen \in Nat \ {0}
    /\ SeqNums \in Nat \ {0}
    /\ MaxGap \in 0..(SeqNums - 1)
    /\ MaxSlices \in Nat /\ MaxVideo \in Nat /\ MaxBacklog \in Nat

VARIABLES
    \* the source and the way to the LPCM queue
    sent,           \* datagrams sent, of either medium
    videos,         \* those with video
    slice, units,   \* the slice being sent and the units of it sent
    gap,            \* datagrams since the last one that reached the queue
    arrived, lost,  \* datagrams with audio that arrived, that were lost (history)
    lpcmq,          \* the queue LPCM
    \* f_cblk, private to the decoder thread
    look_for_new_slice, continue_current_slice, pes_len, pes_curr_byte_count,
    last_seq_num,
    slice_chain,    \* the descriptors from slice_chain.head to .tail
    \* what becomes of the descriptors
    sliceq,         \* the queue LPCM_SLICE: all chains that were put there
    freed,          \* descriptors released with sx_desc_put()
    leaked          \* descriptors the thread let go of without releasing them

source  == <<sent, videos, slice, units, gap, arrived, lost>>
decoder == <<look_for_new_slice, continue_current_slice, pes_len,
             pes_curr_byte_count, last_seq_num, slice_chain>>
vars    == <<source, lpcmq, decoder, sliceq, freed, leaked>>

\* A datagram: its number, its slice, the units of the slice before it, and its
\* own, which pes_payload_size() counts.  For a TS packet that starts a PES it counts
\* 184 - 20 bytes whatever its adaptation field takes (lines 154-162); that the count
\* is exact is the assertion on the announced length (104), which is read at a fixed
\* place and found only without such a field.  Datagrams are well formed, so that the
\* assertions at 138, 145, 159 and 171 hold.
Packet == [num : Nat, slice : Nat \ {0}, at : 0..(PesLen - 1), n : 1..PesLen]

Seq16(p) == p.num % SeqNums
IsStart(p) == p.at = 0
End(p) == p.at + p.n

Init ==
    /\ sent = 0 /\ videos = 0 /\ slice = 0 /\ units = PesLen /\ gap = 0
    /\ arrived = {} /\ lost = {}
    /\ lpcmq = <<>>
    /\ look_for_new_slice = TRUE /\ continue_current_slice = FALSE
    /\ pes_len = 0 /\ pes_curr_byte_count = 0 /\ last_seq_num = 0
    /\ slice_chain = <<>>
    /\ sliceq = <<>> /\ freed = {} /\ leaked = {}

(***************************************************************************)
(* The source sends a datagram; one with audio arrives or is lost.         *)
(***************************************************************************)
SendVideo ==
    /\ videos < MaxVideo /\ gap < MaxGap
    /\ videos' = videos + 1
    /\ sent' = sent + 1
    /\ gap' = gap + 1
    /\ UNCHANGED <<slice, units, arrived, lost, lpcmq, decoder, sliceq, freed, leaked>>

Deliver(p) ==
    /\ Len(lpcmq) < MaxBacklog
    /\ lpcmq' = Append(lpcmq, p)
    /\ arrived' = arrived \cup {p}
    /\ gap' = 0
    /\ UNCHANGED lost

Lose(p) ==
    /\ gap < MaxGap
    /\ gap' = gap + 1
    /\ lost' = lost \cup {p}
    /\ UNCHANGED <<lpcmq, arrived>>

SendAudio(n) ==
    /\ IF units < PesLen
       THEN /\ units + n <= PesLen
            /\ units' = units + n
            /\ slice' = slice
       ELSE /\ slice < MaxSlices
            /\ units' = n
            /\ slice' = slice + 1
    /\ sent' = sent + 1
    /\ LET p == [num |-> sent, slice |-> slice', at |-> units' - n, n |-> n]
       IN  Deliver(p) \/ Lose(p)
    /\ UNCHANGED <<videos, decoder, sliceq, freed, leaked>>

(***************************************************************************)
(* One iteration of audio_decoder_thread().  Nothing else touches f_cblk.  *)
(***************************************************************************)
Pull ==
    /\ lpcmq # <<>>
    /\ lpcmq' = Tail(lpcmq)

desc == Head(lpcmq)

\* Still looking for a slice start and this is none.
Skip ==
    /\ Pull
    /\ look_for_new_slice /\ ~IsStart(desc)
    /\ leaked' = leaked \cup {desc}
    /\ UNCHANGED <<source, decoder, sliceq, freed>>

\* Mutation: slice_get() does not reset the head.
AddKeepsHead(count, len) ==
    /\ pes_curr_byte_count' = count + desc.n
    /\ last_seq_num' = Seq16(desc)
    /\ LET chain == Append(slice_chain, desc)
           complete == count + desc.n = len
       IN  /\ slice_chain' = chain
           /\ sliceq' = IF complete THEN Append(sliceq, chain) ELSE sliceq
           /\ look_for_new_slice' = complete
           /\ continue_current_slice' = ~complete

\* Mutation: the cached number is the count of datagrams, not cut to 16 bits.
AddLongNumber(count, len) ==
    /\ pes_curr_byte_count' = count + desc.n
    /\ last_seq_num' = desc.num
    /\ LET chain == Append(slice_chain, desc)
           complete == count + desc.n = len
       IN  /\ slice_chain' = IF complete THEN <<>> ELSE chain
           /\ sliceq' = IF complete THEN Append(sliceq, chain) ELSE sliceq
           /\ look_for_new_slice' = complete
           /\ continue_current_slice' = ~complete

\* Takes the datagram into the chain, count units of the slice having come before
\* it and len being announced; a complete chain is handed on.
Add(count, len) ==
    /\ pes_curr_byte_count' = count + desc.n
    /\ last_seq_num' = Seq16(desc)
    /\ LET chain == Append(slice_chain, desc)
           complete == count + desc.n = len
       IN  /\ slice_chain' = IF complete THEN <<>> ELSE chain
           /\ sliceq' = IF complete THEN Append(sliceq, chain) ELSE sliceq
           /\ look_for_new_slice' = complete
           /\ continue_current_slice' = ~complete

\* Mutation: the count of the last slice is carried on.
StartKeepsCount ==
    /\ Pull
    /\ look_for_new_slice /\ IsStart(desc)
    /\ pes_len' = PesLen
    /\ Add(pes_curr_byte_count, PesLen)
    /\ UNCHANGED <<source, freed, leaked>>

\* A slice start while looking for one.  last_seq_num is set to the predecessor
\* of its number, so the comparison that follows in the code succeeds.
Start ==
    /\ Pull
    /\ look_for_new_slice /\ IsStart(desc)
    /\ pes_len' = PesLen
    /\ Add(0, PesLen)
    /\ UNCHANGED <<source, freed, leaked>>

\* Mutation: a greater number is taken for the next one.
FollowsOrSkips == Seq16(desc) >= last_seq_num + 1

\* Mutation: the cached number is taken for the one expected.
FollowsSame == Seq16(desc) = last_seq_num

\* A 16-bit number is compared with a successor in 32 bits.
Follows == Seq16(desc) = last_seq_num + 1

Continue ==
    /\ Pull
    /\ continue_current_slice
    /\ Follows
    /\ Add(pes_curr_byte_count, pes_len)
    /\ UNCHANGED <<source, pes_len, freed, leaked>>

\* Mutation: the chain is released but its head and tail are kept.
DropKeepsChain ==
    /\ Pull
    /\ continue_current_slice
    /\ ~Follows
    /\ freed' = freed \cup {slice_chain[i] : i \in 1..Len(slice_chain)}
    /\ continue_current_slice' = FALSE
    /\ look_for_new_slice' = TRUE
    /\ leaked' = leaked \cup {desc}
    /\ UNCHANGED <<source, pes_len, pes_curr_byte_count, last_seq_num, slice_chain,
                   sliceq>>

\* slice_drop().  The datagram that showed the loss is let go, also if it starts a
\* slice.
Drop ==
    /\ Pull
    /\ continue_current_slice
    /\ ~Follows
    /\ freed' = freed \cup {slice_chain[i] : i \in 1..Len(slice_chain)}
    /\ slice_chain' = <<>>
    /\ continue_current_slice' = FALSE
    /\ look_for_new_slice' = TRUE
    /\ leaked' = leaked \cup {desc}
    /\ UNCHANGED <<source, pes_len, pes_curr_byte_count, last_seq_num, sliceq>>

Decode == Skip \/ Start \/ Continue \/ Drop

Next ==
    \/ SendVideo
    \/ \E n \in 1..PesLen : SendAudio(n)
    \/ Decode

Spec == Init /\ [][Next]_vars

------------------------------------------------------------------------------
(***************************************************************************)
(* Correctness                                                             *)
(***************************************************************************)
TypeOK ==
    /\ sent \in Nat /\ videos \in Nat /\ slice \in Nat /\ units \in 0..PesLen
    /\ gap \in 0..MaxGap
    /\ arrived \subseteq Packet /\ lost \subseteq Packet
    /\ freed \subseteq Packet /\ leaked \subseteq Packet
    /\ lpcmq \in Seq(Packet) /\ slice_chain \in Seq(Packet)
    /\ look_for_new_slice \in BOOLEAN /\ continue_current_slice \in BOOLEAN
    /\ pes_len \in {0, PesLen} /\ pes_curr_byte_count \in 0..PesLen
    /\ last_seq_num \in 0..(SeqNums - 1)
    /\ sliceq \in Seq(Seq(Packet))

\* A chain is the beginning of one slice without a hole.
UnbrokenPrefix(chain) ==
    /\ IsStart(chain[1])
    /\ \A i \in 2..Len(chain) :
          /\ chain[i].slice = chain[i - 1].slice
          /\ chain[i].at = End(chain[i - 1])

\* Every chain handed on is one whole slice; the chain under way is the beginning
\* of one, not empty (slice_drop() asserts that), and pes_curr_byte_count is its
\* length (sx_mgmt_audio_decoder.c:285-336).
SlicesWhole ==
    /\ \A i \in 1..Len(sliceq) :
          LET chain == sliceq[i]
          IN  UnbrokenPrefix(chain) /\ End(chain[Len(chain)]) = PesLen
    /\ look_for_new_slice = ~continue_current_slice
    /\ continue_current_slice =>
          /\ slice_chain # <<>>
          /\ UnbrokenPrefix(slice_chain)
          /\ pes_curr_byte_count = End(slice_chain[Len(slice_chain)])
    /\ look_for_new_slice => slice_chain = <<>>

\* assert(f_cblk.pes_curr_byte_count <= f_cblk.pes_len): what is added never makes
\* the slice too long, although nothing but the sequence number tells that it
\* belongs to the slice (sx_mgmt_audio_decoder.c:306-323).
NoOverrun ==
    continue_current_slice /\ lpcmq # <<>> /\ Follows =>
        pes_curr_byte_count + desc.n <= pes_len

\* Slices are played in the order they were sent, none of them twice
\* (sx_mgmt_audio_decoder.c:232-253, 329-335).
SlicesInOrder ==
    \A i, j \in 1..Len(sliceq) : i < j => sliceq[i][1].slice < sliceq[j][1].slice

Of(s) == {p \in arrived : p.slice = s}

EndArrived(s) == \E p \in Of(s) : End(p) = PesLen

\* All of slice s arrived, numbered without a gap and without a wrap-around.
Intact(s) ==
    /\ EndArrived(s)
    /\ \A p \in Of(s) :
          \/ IsStart(p)
          \/ \E q \in Of(s) : End(q) = p.at /\ Seq16(p) = Seq16(q) + 1

\* An intact slice is handed on if the last datagram of the slice before arrived:
\* the losses of earlier slices then show before it starts, and the decoder is
\* looking for its start (sx_mgmt_audio_decoder.c:285-312).
IntactSliceDelivered ==
    \A s \in 1..slice :
        /\ Intact(s)
        /\ s > 1 => EndArrived(s - 1)
        /\ \A i \in 1..Len(lpcmq) : lpcmq[i].slice # s
        => \E i \in 1..Len(sliceq) : sliceq[i][1].slice = s

Elements(seq) == {seq[i] : i \in 1..Len(seq)}

\* A descriptor that arrived has one owner: the queue it waits in, the chain under
\* way, one chain handed on, or nobody any more; nothing released is still
\* reachable (sx_mgmt_audio_decoder.c:189-242).
OneOwner ==
    LET chains == {Elements(sliceq[i]) : i \in 1..Len(sliceq)}
        owners == chains \cup {freed, leaked, Elements(lpcmq), Elements(slice_chain)}
    IN  /\ \A p \in arrived : \E o \in owners : p \in o
        /\ \A o1, o2 \in owners : o1 # o2 => o1 \cap o2 = {}
        /\ \A i, j \in 1..Len(sliceq) : i # j => sliceq[i] # sliceq[j]

(***************************************************************************)
(* What the comments of the code say and the code does not do              *)
(***************************************************************************)

\* "If loss pkt, and then give up this slice" (sx_mgmt_audio_decoder.c:308): no
\* slice is given up unless a datagram was lost.
GivenUpOnlyAfterLoss == freed # {} => lost # {}
=============================================================================
