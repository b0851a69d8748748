-------------------------------- MODULE Ingress --------------------------------
(***************************************************************************)
(* The two threads every datagram passes first.                            *)
(*                                                                         *)
(*   pkt_rv_thread       (mgmt_data) receives a datagram, checks its RTP   *)
(*                       sequence number and puts it on the PKT queue      *)
(*   pkt_process_thread  (mgmt_m2ts_decoder) puts the clock reference of a *)
(*                       datagram on the PCR queue and the datagram itself *)
(*                       on the queue of its medium, or releases it        *)
(*                                                                         *)
(* External: the source, which numbers its datagrams, and the network,     *)
(* which loses some.  A TS packet is told by its PID and, for the PID of   *)
(* the clock, the time it carries.                                         *)
(*                                                                         *)
(* DataLen(n) is what ends up in sSX_DESC.data_len for a datagram of n     *)
(* bytes: the code's value is CodeLen, the one that the definition of      *)
(* sSX_DESC promises and all three decoders need is ContractLen.           *)
(***************************************************************************)
EXTENDS Integers, Sequences, SequencesExt

CONSTANTS
    DataLen(_),
    Payloads,       \* what a datagram may carry: sequences of TS packets
    SeqNums,        \* values of an RTP sequence number (2^16)
    MaxGap,         \* datagrams lost in a row, at most
    MaxSent         \* bound: datagrams sent

Pids == {"pcr", "video", "audio", "other"}
Ts == [pid : Pids, ms : Nat]

ASSUME IngressAssumption ==
    /\ Payloads \subseteq Seq(Ts)
    /\ SeqNums \in Nat \ {0}
    /\ MaxGap \in 0..(SeqNums - 1)
    /\ MaxSent \in Nat

VARIABLES
    sent,           \* datagrams sent
    gap,            \* datagrams lost since the last one that was received
    arrived,        \* the numbers of the datagrams received (history)
    last_seq_num,   \* of pkt_rv_thread
    reported,       \* the datagrams at which it printed a loss
    pktq,           \* the queue PKT
    process_pc, desc,       \* of pkt_process_thread
    pcrq, videoq, lpcmq,    \* all that was put on PCR, VIDEO_PKT and LPCM
    released,       \* the descriptors released
    aborted         \* an assertion failed or exit() was called

network  == <<sent, gap, arrived>>
receiver == <<last_seq_num, reported>>
outputs  == <<pcrq, videoq, lpcmq, released>>
vars == <<network, receiver, pktq, process_pc, desc, outputs, aborted>>

RtpHdr == 12
TsSize == 188
Bytes(payload) == RtpHdr + TsSize * Len(payload)

ASSUME LengthAssumption ==
    \A payload \in Payloads : DataLen(Bytes(payload)) \in 0..Bytes(payload)

(***************************************************************************)
(* The length of a datagram on its way to data_len.                        *)
(***************************************************************************)
ContractLen(n) == n

\* In sx_udp_recv() the comparison binds stronger than the assignment: what is
\* stored is whether recvfrom() failed.
RecvLen(n) == IF n < 0 THEN 1 ELSE 0

\* data_len is a UINT8.
CodeLen(n) == RecvLen(n) % 256

\* last_seq_num is uninitialised.
Init ==
    /\ sent = 0 /\ gap = 0 /\ arrived = {}
    /\ last_seq_num \in 0..(SeqNums - 1) /\ reported = {}
    /\ pktq = <<>>
    /\ process_pc = "get" /\ desc = <<>>
    /\ pcrq = <<>> /\ videoq = <<>> /\ lpcmq = <<>> /\ released = <<>>
    /\ aborted = FALSE

Lose ==
    /\ ~aborted
    /\ sent < MaxSent /\ gap < MaxGap
    /\ sent' = sent + 1
    /\ gap' = gap + 1
    /\ UNCHANGED <<arrived, receiver, pktq, process_pc, desc, outputs, aborted>>

(***************************************************************************)
(* pkt_rv_thread()                                                         *)
(***************************************************************************)
\* Mutation: the successor of the last number is not cut to 16 bits.
MissingNoWrap(curr_seq_num) == last_seq_num + 1 # curr_seq_num

Missing(curr_seq_num) == (last_seq_num + 1) % SeqNums # curr_seq_num

\* Mutation: the cached number is a count that is not cut to 16 bits.
ReceiveCount(payload) ==
    /\ ~aborted
    /\ sent < MaxSent
    /\ sent' = sent + 1
    /\ gap' = 0
    /\ arrived' = arrived \cup {sent'}
    /\ reported' = IF Missing(sent' % SeqNums) THEN reported \cup {sent'} ELSE reported
    /\ last_seq_num' = sent'
    /\ pktq' = Append(pktq, [num |-> sent', data |-> payload,
                             data_len |-> DataLen(Bytes(payload))])
    /\ UNCHANGED <<process_pc, desc, outputs, aborted>>

Receive(payload) ==
    /\ ~aborted
    /\ sent < MaxSent
    /\ sent' = sent + 1
    /\ gap' = 0
    /\ arrived' = arrived \cup {sent'}
    /\ LET curr_seq_num == sent' % SeqNums
       IN  /\ reported' = IF Missing(curr_seq_num) THEN reported \cup {sent'}
                                                   ELSE reported
           /\ last_seq_num' = curr_seq_num
    /\ pktq' = Append(pktq, [num |-> sent', data |-> payload,
                             data_len |-> DataLen(Bytes(payload))])
    /\ UNCHANGED <<process_pc, desc, outputs, aborted>>

\* recvfrom() fails: exit(1).
ReceiveFails ==
    /\ ~aborted
    /\ aborted' = TRUE
    /\ UNCHANGED <<network, receiver, pktq, process_pc, desc, outputs>>

(***************************************************************************)
(* pkt_process_thread()                                                    *)
(***************************************************************************)
\* The assertions before the walks over the TS packets.
Walkable(d) ==
    /\ d.data_len > RtpHdr
    /\ (d.data_len - RtpHdr) % TsSize = 0

\* The TS packets that are walked over.
Walked(d) == SubSeq(d.data, 1, (d.data_len - RtpHdr) \div TsSize)

\* Mutation: only the first TS packet is looked at.
PcrOfFirst(d) ==
    IF Walked(d)[1].pid = "pcr" THEN Walked(d)[1].ms ELSE 0

\* The time of the first clock reference, 0 if there is none.
pcr_get(d) ==
    LET at == SelectInSeq(Walked(d), LAMBDA ts : ts.pid = "pcr")
    IN  IF at = 0 THEN 0 ELSE Walked(d)[at].ms

\* Mutation: the last TS packet is not looked at.
TypeSkipsLast(d) ==
    LET walked == SubSeq(Walked(d), 1, Len(Walked(d)) - 1)
        at == SelectInSeq(walked, LAMBDA ts : ts.pid \in {"video", "audio"})
    IN  IF at = 0 THEN "null" ELSE walked[at].pid

pkt_type_get(d) ==
    LET at == SelectInSeq(Walked(d), LAMBDA ts : ts.pid \in {"video", "audio"})
    IN  IF at = 0 THEN "null" ELSE Walked(d)[at].pid

ProcessGet ==
    /\ ~aborted
    /\ process_pc = "get" /\ pktq # <<>>
    /\ Walkable(Head(pktq))
    /\ desc' = <<Head(pktq)>>
    /\ pktq' = Tail(pktq)
    /\ process_pc' = "pcr"
    /\ UNCHANGED <<network, receiver, outputs, aborted>>

ProcessFails ==
    /\ ~aborted
    /\ process_pc = "get" /\ pktq # <<>>
    /\ ~Walkable(Head(pktq))
    /\ aborted' = TRUE
    /\ UNCHANGED <<network, receiver, pktq, process_pc, desc, outputs>>

ProcessPcr ==
    /\ ~aborted
    /\ process_pc = "pcr"
    /\ pcrq' = IF pcr_get(desc[1]) > 0
               THEN Append(pcrq, [num |-> desc[1].num, ms |-> pcr_get(desc[1])])
               ELSE pcrq
    /\ process_pc' = "media"
    /\ UNCHANGED <<network, receiver, pktq, desc, videoq, lpcmq, released, aborted>>

ProcessVideo ==
    /\ ~aborted
    /\ process_pc = "media" /\ pkt_type_get(desc[1]) = "video"
    /\ videoq' = Append(videoq, desc[1])
    /\ desc' = <<>>
    /\ process_pc' = "get"
    /\ UNCHANGED <<network, receiver, pktq, pcrq, lpcmq, released, aborted>>

ProcessAudio ==
    /\ ~aborted
    /\ process_pc = "media" /\ pkt_type_get(desc[1]) = "audio"
    /\ lpcmq' = Append(lpcmq, desc[1])
    /\ desc' = <<>>
    /\ process_pc' = "get"
    /\ UNCHANGED <<network, receiver, pktq, pcrq, videoq, released, aborted>>

\* Mutation: the thread ends at a datagram without a medium.
ProcessNullReturns ==
    /\ ~aborted
    /\ process_pc = "media" /\ pkt_type_get(desc[1]) = "null"
    /\ released' = Append(released, desc[1])
    /\ desc' = <<>>
    /\ process_pc' = "ended"
    /\ UNCHANGED <<network, receiver, pktq, pcrq, videoq, lpcmq, aborted>>

ProcessNull ==
    /\ ~aborted
    /\ process_pc = "media" /\ pkt_type_get(desc[1]) = "null"
    /\ released' = Append(released, desc[1])
    /\ desc' = <<>>
    /\ process_pc' = "get"
    /\ UNCHANGED <<network, receiver, pktq, pcrq, videoq, lpcmq, aborted>>

Process == ProcessGet \/ ProcessFails \/ ProcessPcr
              \/ ProcessVideo \/ ProcessAudio \/ ProcessNull

Next ==
    \/ Lose
    \/ \E payload \in Payloads : Receive(payload)
    \/ ReceiveFails
    \/ Process

\* The processing thread polls its queue for ever; the source owes nothing.
Fairness == WF_vars(Process)

Spec == Init /\ [][Next]_vars
FairSpec == Spec /\ Fairness

------------------------------------------------------------------------------
(***************************************************************************)
(* Correctness                                                             *)
(***************************************************************************)
Descriptor == {d \in [num : Nat \ {0}, data : Payloads, data_len : Nat] :
                  d.data_len <= Bytes(d.data)}

TypeOK ==
    /\ sent \in Nat /\ gap \in 0..MaxGap
    /\ arrived \subseteq 1..sent /\ reported \subseteq arrived
    /\ last_seq_num \in 0..(SeqNums - 1)
    /\ pktq \in Seq(Descriptor)
    /\ process_pc \in {"get", "pcr", "media"}
    /\ desc \in Seq(Descriptor) /\ Len(desc) = (IF process_pc = "get" THEN 0 ELSE 1)
    /\ pcrq \in Seq([num : Nat \ {0}, ms : Nat])
    /\ videoq \in Seq(Descriptor) /\ lpcmq \in Seq(Descriptor)
    /\ released \in Seq(Descriptor)
    /\ aborted \in BOOLEAN

\* A loss is reported at a datagram if and only if its predecessor did not arrive,
\* also where the 16-bit number wraps around; nothing is promised for the first
\* datagram of all, which is compared with an uninitialised number
\* (sx_mgmt_data.c:61-70).
LossReported ==
    \A n \in arrived :
        (\E m \in arrived : m < n) => (n \in reported <=> n - 1 \notin arrived)

\* Where a descriptor can be.
Holders == <<pktq, desc, videoq, lpcmq, released>>

Places(n) == {p \in (1..Len(Holders)) \X (1..MaxSent) :
                 /\ p[2] <= Len(Holders[p[1]])
                 /\ Holders[p[1]][p[2]].num = n}

\* No datagram is leaked, released while it is queued, or seen by both decoders.
InOnePlace ==
    \A n \in arrived : \E place \in Places(n) : Places(n) = {place}

Increasing(seq) == \A i, j \in 1..Len(seq) : i < j => seq[i].num < seq[j].num

Carries(d, pid) == \E i \in 1..Len(d.data) : d.data[i].pid = pid

Elements(seq) == {seq[i] : i \in 1..Len(seq)}

\* Each queue keeps the order of sending, no datagram with video or audio is
\* released, and none without is passed on.
MediaSorted ==
    /\ Increasing(videoq) /\ Increasing(lpcmq)
    /\ \A d \in Elements(videoq) : Carries(d, "video")
    /\ \A d \in Elements(lpcmq) : Carries(d, "audio")
    /\ \A d \in Elements(released) : ~Carries(d, "video") /\ ~Carries(d, "audio")

\* A datagram that arrived is in one place at a time: waiting, being processed, on
\* the queue of one medium, or released; and it is the right one, whichever TS
\* packet the medium is in: the decoders see all the media of the datagrams that
\* carry one medium, in order (sx_mgmt_data.c:73-78,
\* sx_mgmt_m2ts_decoder.c:111-149, 194-218).
Dispatched == InOnePlace /\ MediaSorted

\* Before a datagram reaches a decoder, the clock reference it carries, and every
\* one that arrived before, is on the PCR queue, in the order of sending: a slice
\* is never ahead of the clock it is scheduled by.  A time of 0 is taken for none
\* (sx_mgmt_m2ts_decoder.c:176-194).
ClockAhead ==
    /\ Increasing(pcrq)
    /\ \A d \in Elements(videoq \o lpcmq \o released) :
          (\E i \in 1..Len(d.data) : d.data[i].pid = "pcr" /\ d.data[i].ms > 0)
              => \E e \in Elements(pcrq) : e.num = d.num

\* Every datagram that arrives is handed on or released in the end, unless the
\* process ends before (sx_mgmt_m2ts_decoder.c:164-222).
EveryDatagramProcessed ==
    \A n \in 1..MaxSent :
        n \in arrived ~>
            aborted \/ \E d \in Elements(videoq \o lpcmq \o released) : d.num = n

(***************************************************************************)
(* What the code states and does not ensure                                *)
(***************************************************************************)

\* "data_len will equcal packet length" (sx_desc.h:8): no datagram with TS packets
\* fails an assertion on its length (sx_mgmt_m2ts_decoder.c:174).
LengthKept ==
    \A d \in Elements(pktq) : d.data # <<>> => Walkable(d)
=============================================================================
