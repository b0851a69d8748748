-------------------------- MODULE AudioDecoderProofs --------------------------
(***************************************************************************)
(* The audio decoder for slices of any length and any modulus: as long as  *)
(* fewer datagrams are missing in a row than there are sequence numbers,   *)
(* what is handed on is whole slices, in order, and what is added never    *)
(* makes a slice too long.  The second half follows every datagram: what   *)
(* was taken is held in one place, and an intact slice is handed on.       *)
(***************************************************************************)
EXTENDS AudioDecoder, ProofLemmas

\* q was sent after p.
Before(p, q) ==
    /\ p.num < q.num
    /\ p.slice <= q.slice
    /\ p.slice = q.slice => End(p) <= q.at

\* Nothing that arrived was sent between p and q, and with no datagram missing q
\* goes on where p ends.
NextTo(p, q) ==
    /\ q.num <= p.num + MaxGap + 1
    /\ q.num = p.num + 1 =>
           IF End(p) = PesLen THEN IsStart(q)
                              ELSE q.slice = p.slice /\ q.at = End(p)

Sent(p) ==
    /\ p.num < sent
    /\ p.slice <= slice
    /\ p.slice = slice => End(p) <= units
    /\ End(p) <= PesLen

\* p is the last datagram that arrived.
Latest(p) ==
    /\ sent = p.num + gap + 1
    /\ gap = 0 => slice = p.slice /\ units = End(p)

\* The queue holds the stream in order.
Stream ==
    /\ slice = 0 => units = PesLen
    /\ \A i \in 1..Len(lpcmq) : Sent(lpcmq[i])
    /\ \A i, j \in 1..Len(lpcmq) : i < j => Before(lpcmq[i], lpcmq[j])
    /\ \A i \in 1..(Len(lpcmq) - 1) : NextTo(lpcmq[i], lpcmq[i + 1])
    /\ lpcmq # <<>> => Latest(lpcmq[Len(lpcmq)])

\* The chain under way is incomplete and lies before the queue.
Junction ==
    continue_current_slice =>
        LET last == slice_chain[Len(slice_chain)]
        IN  /\ slice_chain # <<>>
            /\ Sent(last) /\ last.slice = slice_chain[1].slice
            /\ End(last) < PesLen /\ pes_len = PesLen
            /\ last_seq_num = Seq16(last)
            /\ \A i \in 1..Len(lpcmq) : Before(last, lpcmq[i])
            /\ lpcmq # <<>> => NextTo(last, lpcmq[1])
            /\ lpcmq = <<>> => Latest(last)

\* The slices handed on are over: what is under way or still to come is of later
\* ones.
HandedOn ==
    \A i \in 1..Len(sliceq) :
        LET s == sliceq[i][1].slice
        IN  /\ sliceq[i] # <<>>
            /\ s <= slice /\ (s = slice => units = PesLen)
            /\ \A j \in 1..Len(lpcmq) : s < lpcmq[j].slice
            /\ slice_chain # <<>> => s < slice_chain[1].slice

IInv == TypeOK /\ Stream /\ Junction /\ HandedOn /\ SlicesWhole /\ SlicesInOrder

\* The test of the decoder on two datagrams of which one is next to arrive after the
\* other: a number that is the successor in 32 bits is the successor in the stream.
LEMMA NumbersTell ==
  ASSUME NEW p \in Packet, NEW q \in Packet, Before(p, q), NextTo(p, q),
         Seq16(q) = Seq16(p) + 1
  PROVE  q.num = p.num + 1
<1> DEFINE a == p.num
           b == q.num
<1>1. /\ a \in Nat /\ b \in Nat /\ SeqNums \in Nat \ {0} /\ MaxGap \in Nat
      /\ MaxGap < SeqNums
  BY DecoderAssumption DEF Packet
<1>2. b % SeqNums = (a % SeqNums) + 1
  BY DEF Seq16
<1>3. a < b /\ b <= a + MaxGap + 1
  BY DEF Before, NextTo
<1> HIDE DEF a, b
<1>4. a \in Int /\ b \in Int /\ a + 1 \in Int
  BY <1>1
<1>5. b % SeqNums \in 0..(SeqNums - 1)
  BY <1>1, <1>4, DivMod
<1>6. (b % SeqNums) % SeqNums = b % SeqNums
  <2> DEFINE r == b % SeqNums
  <2>1. r \in 0..(SeqNums - 1)
    BY <1>5
  <2> HIDE DEF r
  <2>2. r % SeqNums = r
    BY <1>1, <2>1
  <2> QED
    BY <2>2 DEF r
<1>7. ((a % SeqNums) + 1) % SeqNums = (a + 1) % SeqNums
  BY <1>1, <1>4, Successor
<1>8. (a + 1) % SeqNums = b % SeqNums
  BY <1>2, <1>6, <1>7
<1>9. a + 1 <= b /\ b < a + 1 + SeqNums
  BY <1>1, <1>3
<1>10. a + 1 = b
  BY <1>1, <1>4, <1>8, <1>9, SameResidue
<1> QED
  BY <1>10 DEF a, b

LEMMA PacketParts ==
  ASSUME NEW p \in Packet
  PROVE  /\ p.num \in Nat /\ p.slice \in Nat \ {0} /\ p.at \in Nat /\ p.at < PesLen
         /\ p.n \in Nat \ {0} /\ End(p) \in Nat /\ PesLen \in Nat \ {0}
         /\ Seq16(p) \in 0..(SeqNums - 1)
<1>1. /\ p.num \in Nat /\ p.slice \in Nat \ {0} /\ p.at \in Nat /\ p.at < PesLen
      /\ p.n \in Nat \ {0} /\ PesLen \in Nat \ {0}
  BY DecoderAssumption DEF Packet
<1>2. p.at + p.n \in Nat
  BY <1>1
<1>3. p.num % SeqNums \in 0..(SeqNums - 1)
  <2>1. p.num \in Int /\ SeqNums \in Nat \ {0}
    BY <1>1, DecoderAssumption
  <2> QED
    BY <2>1, DivMod
<1> QED
  BY <1>1, <1>2, <1>3 DEF End, Seq16

LEMMA InitInv == Init => IInv
<1> SUFFICES ASSUME Init PROVE IInv
  OBVIOUS
<1>1. /\ <<>> \in Seq(Packet) /\ <<>> \in Seq(Seq(Packet)) /\ Len(<<>>) = 0
      /\ 1..Len(<<>>) = {}
  BY EmptySeq
<1>2. /\ PesLen \in 0..PesLen /\ 0 \in 0..PesLen /\ 0 \in 0..MaxGap
      /\ 0 \in 0..(SeqNums - 1) /\ 0 \in Nat
  BY DecoderAssumption
<1>3. TypeOK
  BY <1>1, <1>2 DEF Init, TypeOK
<1>4. Stream
  <2>1. lpcmq = <<>> /\ units = PesLen /\ 1..(Len(lpcmq) - 1) = {} /\ 1..Len(lpcmq) = {}
    BY <1>1 DEF Init
  <2> QED
    BY <2>1 DEF Stream
<1>5. Junction
  BY DEF Init, Junction
<1>6. HandedOn /\ SlicesWhole /\ SlicesInOrder
  <2>1. /\ sliceq = <<>> /\ 1..Len(sliceq) = {} /\ slice_chain = <<>>
        /\ look_for_new_slice = TRUE /\ continue_current_slice = FALSE
    BY <1>1 DEF Init
  <2> QED
    BY <2>1 DEF HandedOn, SlicesWhole, SlicesInOrder
<1> QED
  BY <1>3, <1>4, <1>5, <1>6 DEF IInv

------------------------------------------------------------------------------
(***************************************************************************)
(* The source                                                              *)
(***************************************************************************)

\* Datagrams sent before the next one, p, are before it; what is next to arrive after
\* the latest is p.
LEMMA AfterSent ==
  ASSUME IInv, NEW p \in Packet, p.num = sent, p.slice = slice', End(p) = units',
         \/ slice' = slice /\ p.at = units
         \/ slice' = slice + 1 /\ p.at = 0 /\ units = PesLen,
         units' <= PesLen, sent' = sent + 1
  PROVE  /\ \A q \in Packet : Sent(q) => Before(q, p) /\ Sent(q)'
         /\ \A q \in Packet : Latest(q) => NextTo(q, p)
         /\ Sent(p)'
         /\ slice' # 0
         /\ \A s \in Nat : s <= slice /\ (s = slice => units = PesLen) => s < slice'
<1>1. /\ sent \in Nat /\ slice \in Nat /\ units \in 0..PesLen /\ gap \in 0..MaxGap
      /\ MaxGap \in Nat
  BY DecoderAssumption DEF IInv, TypeOK
<1>2. /\ p.num \in Nat /\ p.slice \in Nat \ {0} /\ p.at \in Nat /\ p.at < PesLen
      /\ p.n \in Nat \ {0} /\ End(p) \in Nat /\ PesLen \in Nat \ {0}
      /\ End(p) = p.at + p.n
  BY PacketParts DEF End
<1>3. ASSUME NEW q \in Packet, Sent(q) PROVE Before(q, p) /\ Sent(q)'
  <2>1. q.slice \in Nat /\ q.num \in Nat /\ End(q) \in Nat
    BY PacketParts
  <2>2. Before(q, p)
    BY <1>1, <1>2, <1>3, <2>1 DEF Before, Sent
  <2>3. Sent(q)'
    BY <1>1, <1>2, <1>3, <2>1 DEF Sent
  <2> QED
    BY <2>2, <2>3
<1>4. ASSUME NEW q \in Packet, Latest(q) PROVE NextTo(q, p)
  <2>1. q.slice \in Nat /\ q.num \in Nat /\ End(q) \in Nat
    BY PacketParts
  <2> QED
    BY <1>1, <1>2, <1>4, <2>1 DEF NextTo, Latest, IsStart
<1>5. Sent(p)'
  BY <1>1, <1>2 DEF Sent
<1>6. slice' # 0 /\ \A s \in Nat : s <= slice /\ (s = slice => units = PesLen) => s < slice'
  BY <1>1, <1>2
<1> QED
  BY <1>3, <1>4, <1>5, <1>6

LEMMA FirstOfChains ==
  ASSUME IInv, NEW i \in 1..Len(sliceq)
  PROVE  /\ sliceq[i] \in Seq(Packet) /\ sliceq[i] # <<>>
         /\ sliceq[i][1] \in Packet /\ sliceq[i][1].slice \in Nat
<1>1. sliceq[i] \in Seq(Packet)
  BY ElementOfSeq DEF IInv, TypeOK
<1>2. sliceq[i] # <<>>
  BY DEF IInv, HandedOn
<1>3. sliceq[i][1] \in Packet
  BY <1>1, <1>2, LastOf
<1> QED
  BY <1>1, <1>2, <1>3, PacketParts

\* A datagram with audio goes its way.
LEMMA Arrival ==
  ASSUME IInv, NEW p \in Packet, Deliver(p) \/ Lose(p),
         p.num = sent, p.slice = slice', End(p) = units',
         \/ slice' = slice /\ p.at = units
         \/ slice' = slice + 1 /\ p.at = 0 /\ units = PesLen,
         units' \in 0..PesLen, slice' \in Nat, sent' = sent + 1,
         UNCHANGED <<videos, decoder, sliceq, freed, leaked>>
  PROVE  IInv'
<1> USE DEF IInv
<1>1. /\ sent \in Nat /\ gap \in 0..MaxGap /\ MaxGap \in Nat /\ units \in 0..PesLen
      /\ slice \in Nat /\ PesLen \in Nat \ {0}
  BY DecoderAssumption DEF TypeOK
<1>2. UNCHANGED <<look_for_new_slice, continue_current_slice, pes_len,
                  pes_curr_byte_count, last_seq_num, slice_chain, sliceq, videos,
                  freed, leaked>>
  BY DEF decoder
<1>3. /\ \A q \in Packet : Sent(q) => Before(q, p) /\ Sent(q)'
      /\ \A q \in Packet : Latest(q) => NextTo(q, p)
      /\ Sent(p)'
      /\ slice' # 0
      /\ \A s \in Nat : s <= slice /\ (s = slice => units = PesLen) => s < slice'
  <2>1. units' <= PesLen
    BY <1>1
  <2> QED
    BY <2>1, AfterSent
<1>4. SlicesWhole' /\ SlicesInOrder'
  BY <1>2 DEF SlicesWhole, SlicesInOrder, UnbrokenPrefix
<1>5. ASSUME NEW i \in 1..Len(sliceq) PROVE sliceq[i][1].slice < slice'
  <2>1. sliceq[i][1].slice \in Nat
    BY FirstOfChains
  <2> QED
    BY <1>3, <2>1 DEF HandedOn
<1>6. ASSUME NEW s \in Nat, s < slice' PROVE s <= slice' /\ s # slice'
  BY <1>6
<1>7. CASE Deliver(p)
  <2>1. /\ lpcmq' \in Seq(Packet) /\ lpcmq' # <<>>
        /\ Len(lpcmq) \in Nat /\ Len(lpcmq') = Len(lpcmq) + 1
        /\ lpcmq'[Len(lpcmq) + 1] = p
        /\ \A i \in 1..Len(lpcmq) : lpcmq'[i] = lpcmq[i] /\ lpcmq[i] \in Packet
    <3>1. lpcmq \in Seq(Packet) /\ lpcmq' = Append(lpcmq, p)
      BY <1>7 DEF Deliver, TypeOK
    <3>2. \A i \in 1..Len(lpcmq) : lpcmq[i] \in Packet
      BY <3>1, ElementOfSeq
    <3> QED
      BY <3>1, <3>2, Appended
  <2>2. gap' = 0 /\ lost' = lost /\ arrived' = arrived \cup {p}
    BY <1>7 DEF Deliver
  <2>3. TypeOK'
    <3>1. arrived' \subseteq Packet
      BY <2>2 DEF TypeOK
    <3>2. sent' \in Nat /\ gap' \in 0..MaxGap
      BY <1>1, <2>2
    <3> QED
      BY <1>2, <2>1, <2>2, <3>1, <3>2 DEF TypeOK
  <2>4. Latest(p)'
    BY <1>1, <2>2 DEF Latest
  <2>5. ASSUME NEW i \in 1..Len(lpcmq')
        PROVE  i = Len(lpcmq) + 1 \/ i \in 1..Len(lpcmq)
    BY <2>1
  <2>6. \A i \in 1..Len(lpcmq') : Sent(lpcmq[i])'
    <3>1. TAKE i \in 1..Len(lpcmq')
    <3>2. CASE i = Len(lpcmq) + 1
      <4>1. Sent(lpcmq[i])' <=> Sent(p)'
        BY <2>1, <3>2 DEF Sent
      <4> QED
        BY <1>3, <4>1
    <3>3. CASE i \in 1..Len(lpcmq)
      <4>1. lpcmq[i] \in Packet /\ Sent(lpcmq[i])
        BY <2>1, <3>3 DEF Stream
      <4>2. lpcmq'[i] = lpcmq[i]
        BY <2>1, <3>3
      <4>3. \A q \in Packet : Sent(q) =>
               /\ q.num < sent' /\ q.slice <= slice'
               /\ q.slice = slice' => End(q) <= units'
               /\ End(q) <= PesLen
        BY <1>3 DEF Sent
      <4> QED
        BY <4>1, <4>2, <4>3 DEF Sent
    <3> QED
      BY <2>5, <3>2, <3>3
  <2>7. \A i, j \in 1..Len(lpcmq') : i < j => Before(lpcmq'[i], lpcmq'[j])
    <3>1. TAKE i, j \in 1..Len(lpcmq')
    <3>2. HAVE i < j
    <3>3. i \in 1..Len(lpcmq)
      BY <2>1, <3>2
    <3>4. CASE j \in 1..Len(lpcmq)
      BY <2>1, <3>2, <3>3, <3>4 DEF Stream
    <3>5. CASE j = Len(lpcmq) + 1
      <4>1. lpcmq[i] \in Packet /\ Sent(lpcmq[i]) /\ lpcmq'[i] = lpcmq[i]
        BY <2>1, <3>3 DEF Stream
      <4> QED
        BY <1>3, <2>1, <3>5, <4>1
    <3> QED
      BY <2>5, <3>4, <3>5
  <2>8. \A i \in 1..(Len(lpcmq') - 1) : NextTo(lpcmq'[i], lpcmq'[i + 1])
    <3>1. TAKE i \in 1..(Len(lpcmq') - 1)
    <3>2. CASE i < Len(lpcmq)
      <4>1. i \in 1..(Len(lpcmq) - 1) /\ i \in 1..Len(lpcmq) /\ i + 1 \in 1..Len(lpcmq)
        BY <2>1, <3>1, <3>2
      <4>2. lpcmq'[i] = lpcmq[i] /\ lpcmq'[i + 1] = lpcmq[i + 1]
        BY <2>1, <4>1
      <4> QED
        BY <4>1, <4>2 DEF Stream
    <3>3. CASE i = Len(lpcmq)
      <4>1. lpcmq # <<>> /\ i \in 1..Len(lpcmq)
        BY <2>1, <3>1, <3>3, EmptySeq
      <4>2. lpcmq'[i] = lpcmq[i] /\ lpcmq[i] \in Packet /\ Latest(lpcmq[i])
        BY <2>1, <3>3, <4>1 DEF Stream
      <4> QED
        BY <1>3, <2>1, <3>3, <4>2
    <3> QED
      BY <2>1, <3>1, <3>2, <3>3
  <2>9. Stream'
    <3>1. lpcmq'[Len(lpcmq')] = p
      BY <2>1
    <3>2. Latest(lpcmq[Len(lpcmq)])'
      BY <2>4, <3>1 DEF Latest
    <3> QED
      BY <1>3, <2>6, <2>7, <2>8, <3>2 DEF Stream
  <2>10. Junction'
    <3> DEFINE last == slice_chain[Len(slice_chain)]
    <3> SUFFICES ASSUME continue_current_slice
                 PROVE  /\ Sent(last)'
                        /\ \A i \in 1..Len(lpcmq') : Before(last, lpcmq'[i])
                        /\ NextTo(last, lpcmq'[1])
      BY <1>2, <2>1 DEF Junction
    <3>1. slice_chain # <<>> /\ last \in Packet /\ Sent(last)
      BY LastOf DEF Junction, TypeOK
    <3>2. \A i \in 1..Len(lpcmq) : Before(last, lpcmq[i])
      BY DEF Junction
    <3>3. Sent(last)' /\ Before(last, p)
      BY <1>2, <1>3, <3>1
    <3>4. NextTo(last, lpcmq'[1])
      <4>1. CASE lpcmq = <<>>
        <5>1. lpcmq'[1] = p
          BY <2>1, <4>1, EmptySeq
        <5>2. Latest(last)
          BY <4>1 DEF Junction
        <5> QED
          BY <1>3, <3>1, <5>1, <5>2
      <4>2. CASE lpcmq # <<>>
        <5>1. lpcmq'[1] = lpcmq[1]
          BY <2>1, <4>2, LastOf DEF TypeOK
        <5> QED
          BY <4>2, <5>1 DEF Junction
      <4> QED
        BY <4>1, <4>2
    <3> HIDE DEF last
    <3>5. ASSUME NEW i \in 1..Len(lpcmq') PROVE Before(last, lpcmq'[i])
      BY <2>1, <2>5, <3>2, <3>3
    <3> QED
      BY <3>3, <3>4, <3>5
  <2>11. HandedOn'
    <3> SUFFICES ASSUME NEW i \in 1..Len(sliceq)
                 PROVE  /\ sliceq[i][1].slice <= slice'
                        /\ sliceq[i][1].slice # slice'
                        /\ \A j \in 1..Len(lpcmq') : sliceq[i][1].slice < lpcmq'[j].slice
      BY <1>2 DEF HandedOn
    <3>1. sliceq[i][1].slice \in Nat /\ sliceq[i][1].slice < slice'
      BY <1>5, FirstOfChains
    <3>2. ASSUME NEW j \in 1..Len(lpcmq') PROVE sliceq[i][1].slice < lpcmq'[j].slice
      BY <2>1, <2>5, <3>1 DEF HandedOn
    <3> QED
      BY <1>6, <3>1, <3>2
  <2> QED
    BY <1>4, <2>3, <2>9, <2>10, <2>11
<1>8. CASE Lose(p)
  <2>1. /\ gap' = gap + 1 /\ gap' \in 0..MaxGap /\ gap' # 0
        /\ lost' = lost \cup {p} /\ lpcmq' = lpcmq /\ arrived' = arrived
    BY <1>1, <1>8 DEF Lose
  <2>2. TypeOK'
    <3>1. lost' \subseteq Packet
      BY <2>1 DEF TypeOK
    <3>2. sent' \in Nat
      BY <1>1
    <3> QED
      BY <1>2, <2>1, <3>1, <3>2 DEF TypeOK
  <2>3. ASSUME NEW q \in Packet, Latest(q) PROVE Latest(q)'
    <3>1. q.num \in Nat
      BY PacketParts
    <3> QED
      BY <1>1, <2>1, <2>3, <3>1 DEF Latest
  <2>4. Stream'
    <3>1. \A i \in 1..Len(lpcmq) : lpcmq[i] \in Packet
      BY ElementOfSeq DEF TypeOK
    <3>2. \A i \in 1..Len(lpcmq) : Sent(lpcmq[i])'
      BY <1>3, <2>1, <3>1 DEF Stream
    <3>3. lpcmq # <<>> => Latest(lpcmq[Len(lpcmq)])'
      BY <2>1, <2>3, LastOf DEF Stream, TypeOK
    <3> QED
      BY <1>3, <2>1, <3>2, <3>3 DEF Stream
  <2>5. Junction'
    <3> SUFFICES ASSUME continue_current_slice
                 PROVE  /\ Sent(slice_chain[Len(slice_chain)])'
                        /\ lpcmq = <<>> => Latest(slice_chain[Len(slice_chain)])'
      BY <1>2, <2>1 DEF Junction
    <3>1. /\ slice_chain[Len(slice_chain)] \in Packet
          /\ Sent(slice_chain[Len(slice_chain)])
          /\ lpcmq = <<>> => Latest(slice_chain[Len(slice_chain)])
      BY LastOf DEF Junction, TypeOK
    <3> QED
      BY <1>2, <1>3, <2>1, <2>3, <3>1
  <2>6. HandedOn'
    <3> SUFFICES ASSUME NEW i \in 1..Len(sliceq)
                 PROVE  sliceq[i][1].slice <= slice' /\ sliceq[i][1].slice # slice'
      BY <1>2, <2>1 DEF HandedOn
    <3> QED
      BY <1>5, <1>6, FirstOfChains
  <2> QED
    BY <1>4, <2>2, <2>4, <2>5, <2>6
<1> QED
  BY <1>7, <1>8

LEMMA SendAudioInv ==
  ASSUME IInv, NEW n \in 1..PesLen, SendAudio(n)
  PROVE  IInv'
<1>1. /\ sent \in Nat /\ slice \in Nat /\ units \in 0..PesLen /\ PesLen \in Nat \ {0}
  BY DecoderAssumption DEF IInv, TypeOK
<1>2. /\ \/ slice' = slice /\ units' = units + n /\ units < PesLen
         \/ slice' = slice + 1 /\ units' = n /\ units = PesLen
      /\ units' \in 1..PesLen /\ units' - n \in 0..(PesLen - 1)
      /\ units' - n + n = units'
      /\ sent' = sent + 1
      /\ UNCHANGED <<videos, decoder, sliceq, freed, leaked>>
  BY <1>1 DEF SendAudio
<1>3. slice' \in Nat \ {0}
  <2>1. slice = 0 => units = PesLen
    BY DEF IInv, Stream
  <2> QED
    BY <1>1, <1>2, <2>1
<1> DEFINE p == [num |-> sent, slice |-> slice', at |-> units' - n, n |-> n]
<1>4. p \in Packet
  BY <1>1, <1>2, <1>3 DEF Packet
<1>5. Deliver(p) \/ Lose(p)
  BY DEF SendAudio
<1>6. p.num = sent /\ p.slice = slice' /\ p.at = units' - n /\ End(p) = units'
  BY <1>2 DEF End
<1> HIDE DEF p
<1>7. \/ slice' = slice /\ p.at = units
      \/ slice' = slice + 1 /\ p.at = 0 /\ units = PesLen
  <2>1. (units + n) - n = units /\ n - n = 0
    BY <1>1
  <2> QED
    BY <1>2, <1>6, <2>1
<1> QED
  BY <1>1, <1>2, <1>3, <1>4, <1>5, <1>6, <1>7, Arrival

\* A datagram with video takes a number and nothing else.
LEMMA SendVideoInv ==
  ASSUME IInv, SendVideo
  PROVE  IInv'
<1> USE DEF IInv
<1>1. /\ UNCHANGED <<slice, units, arrived, lost, lpcmq, sliceq, freed, leaked,
                     look_for_new_slice, continue_current_slice, pes_len,
                     pes_curr_byte_count, last_seq_num, slice_chain>>
      /\ sent' = sent + 1 /\ gap' = gap + 1 /\ videos' = videos + 1 /\ gap < MaxGap
      /\ sent \in Nat /\ videos \in Nat /\ gap \in 0..MaxGap /\ MaxGap \in Nat
  BY DecoderAssumption DEF SendVideo, decoder, TypeOK
<1>2. sent' \in Nat /\ videos' \in Nat /\ gap' \in 0..MaxGap /\ gap' # 0
  BY <1>1
<1>3. TypeOK'
  BY <1>1, <1>2 DEF TypeOK
<1>4. ASSUME NEW q \in Packet, Sent(q) PROVE Sent(q)'
  <2>1. q.num \in Nat
    BY PacketParts
  <2> QED
    BY <1>1, <1>4, <2>1 DEF Sent
<1>5. ASSUME NEW q \in Packet, Latest(q) PROVE Latest(q)'
  <2>1. q.num \in Nat
    BY PacketParts
  <2> QED
    BY <1>1, <1>2, <1>5, <2>1 DEF Latest
<1>6. Stream'
  <2>1. \A i \in 1..Len(lpcmq) : lpcmq[i] \in Packet
    BY ElementOfSeq DEF TypeOK
  <2>2. \A i \in 1..Len(lpcmq) : Sent(lpcmq[i])'
    BY <1>1, <1>4, <2>1 DEF Stream
  <2>3. lpcmq # <<>> => Latest(lpcmq[Len(lpcmq)])'
    BY <1>1, <1>5, LastOf DEF Stream, TypeOK
  <2> QED
    BY <1>1, <2>2, <2>3 DEF Stream
<1>7. Junction'
  <2> SUFFICES ASSUME continue_current_slice
               PROVE  /\ Sent(slice_chain[Len(slice_chain)])'
                      /\ lpcmq = <<>> => Latest(slice_chain[Len(slice_chain)])'
    BY <1>1 DEF Junction
  <2>1. /\ slice_chain[Len(slice_chain)] \in Packet
        /\ Sent(slice_chain[Len(slice_chain)])
        /\ lpcmq = <<>> => Latest(slice_chain[Len(slice_chain)])
    BY LastOf DEF Junction, TypeOK
  <2> QED
    BY <1>1, <1>4, <1>5, <2>1
<1>8. HandedOn' /\ SlicesWhole' /\ SlicesInOrder'
  BY <1>1 DEF HandedOn, SlicesWhole, SlicesInOrder, UnbrokenPrefix
<1> QED
  BY <1>3, <1>6, <1>7, <1>8

------------------------------------------------------------------------------
(***************************************************************************)
(* The decoder.  Taking a datagram off the queue keeps the order of what   *)
(* is left, and brings the datagram to the junction.                       *)
(***************************************************************************)
LEMMA PullKeeps ==
  ASSUME IInv, Pull, UNCHANGED source, NEW d, d = desc
  PROVE  /\ d \in Packet
         /\ lpcmq' \in Seq(Packet)
         /\ Stream'
         /\ Sent(d)'
         /\ \A i \in 1..Len(lpcmq') : lpcmq'[i] \in Packet /\ Before(d, lpcmq'[i])
         /\ lpcmq' # <<>> => NextTo(d, lpcmq'[1])
         /\ lpcmq' = <<>> => Latest(d)'
         /\ continue_current_slice => /\ Before(slice_chain[Len(slice_chain)], d)
                                      /\ NextTo(slice_chain[Len(slice_chain)], d)
         /\ \A i \in 1..Len(sliceq) :
               /\ sliceq[i][1].slice < d.slice
               /\ \A j \in 1..Len(lpcmq') : sliceq[i][1].slice < lpcmq'[j].slice
<1> USE DEF IInv
<1>1. /\ lpcmq \in Seq(Packet) /\ lpcmq # <<>> /\ lpcmq' = Tail(lpcmq)
      /\ sent' = sent /\ slice' = slice /\ units' = units /\ gap' = gap
  BY DEF Pull, TypeOK, source
<1>2. /\ d \in Packet /\ d = lpcmq[1]
      /\ lpcmq' \in Seq(Packet)
      /\ Len(lpcmq) \in Nat \ {0}
      /\ Len(lpcmq') = Len(lpcmq) - 1
      /\ 1 \in 1..Len(lpcmq)
      /\ \A i \in 1..Len(lpcmq') : lpcmq'[i] = lpcmq[i + 1] /\ i + 1 \in 1..Len(lpcmq)
  BY <1>1, HeadTail DEF desc
<1>3. \A q : (Latest(q)' <=> Latest(q)) /\ (Sent(q)' <=> Sent(q))
  BY <1>1 DEF Latest, Sent
<1>4. \A i \in 1..Len(lpcmq') : lpcmq'[i] \in Packet /\ Before(d, lpcmq'[i])
  <2>1. TAKE i \in 1..Len(lpcmq')
  <2>2. 1 < i + 1
    BY <1>2
  <2>3. Before(lpcmq[1], lpcmq[i + 1])
    BY <1>2, <2>2 DEF Stream
  <2>4. lpcmq'[i] \in Packet
    BY <1>2, ElementOfSeq
  <2> QED
    BY <1>2, <2>3, <2>4
<1>5. ASSUME lpcmq' # <<>>
      PROVE  /\ NextTo(d, lpcmq'[1])
             /\ Latest(lpcmq[Len(lpcmq)])'
  <2>1. Len(lpcmq') \in Nat \ {0}
    BY <1>2, <1>5, HeadTail
  <2>2. 1 \in 1..(Len(lpcmq) - 1) /\ 1 \in 1..Len(lpcmq') /\ 1 + 1 = 2
    BY <1>2, <2>1
  <2>3. lpcmq'[1] = lpcmq[1 + 1]
    BY <1>2, <2>2
  <2>4. NextTo(lpcmq[1], lpcmq[1 + 1])
    BY <2>2 DEF Stream
  <2>5. lpcmq'[Len(lpcmq')] = lpcmq[Len(lpcmq)]
    BY <1>2, <2>1
  <2>6. Latest(lpcmq[Len(lpcmq)])
    BY <1>1 DEF Stream
  <2>7. Latest(lpcmq[Len(lpcmq)])'
    BY <1>1, <2>5, <2>6 DEF Latest
  <2> QED
    BY <1>2, <2>3, <2>4, <2>7
<1>6. ASSUME NEW i \in 1..(Len(lpcmq') - 1)
      PROVE  NextTo(lpcmq'[i], lpcmq'[i + 1])
  <2>1. i + 1 \in 1..(Len(lpcmq) - 1)
    BY <1>2
  <2>2. lpcmq'[i] = lpcmq[i + 1] /\ lpcmq'[i + 1] = lpcmq[(i + 1) + 1]
    BY <1>2
  <2> QED
    BY <2>1, <2>2 DEF Stream
<1>7. ASSUME NEW i \in 1..Len(lpcmq'), NEW j \in 1..Len(lpcmq'), i < j
      PROVE  Before(lpcmq'[i], lpcmq'[j])
  <2>1. i + 1 < j + 1
    BY <1>2, <1>7
  <2>2. Before(lpcmq[i + 1], lpcmq[j + 1])
    BY <1>2, <2>1 DEF Stream
  <2> QED
    BY <1>2, <2>2
<1>8. ASSUME NEW i \in 1..Len(lpcmq') PROVE Sent(lpcmq[i])'
  <2>1. Sent(lpcmq[i + 1]) /\ lpcmq'[i] = lpcmq[i + 1]
    BY <1>2 DEF Stream
  <2> QED
    BY <1>1, <2>1 DEF Sent
<1>9. Stream'
  <2>1. slice' = 0 => units' = PesLen
    BY <1>1 DEF Stream
  <2> QED
    BY <1>5, <1>6, <1>7, <1>8, <2>1 DEF Stream
<1>10. Sent(d)'
  BY <1>2, <1>3 DEF Stream
<1>11. ASSUME lpcmq' = <<>> PROVE Latest(d)'
  <2>1. Len(lpcmq) = 1
    BY <1>2, <1>11, EmptySeq
  <2> QED
    BY <1>1, <1>2, <1>3, <2>1 DEF Stream
<1>12. ASSUME continue_current_slice
       PROVE  /\ Before(slice_chain[Len(slice_chain)], d)
              /\ NextTo(slice_chain[Len(slice_chain)], d)
  BY <1>1, <1>2, <1>12 DEF Junction
<1>13. ASSUME NEW i \in 1..Len(sliceq)
       PROVE  /\ sliceq[i][1].slice < d.slice
              /\ \A j \in 1..Len(lpcmq') : sliceq[i][1].slice < lpcmq'[j].slice
  BY <1>2 DEF HandedOn
<1> QED
  BY <1>2, <1>4, <1>5, <1>9, <1>10, <1>11, <1>12, <1>13

LEMMA SkipInv ==
  ASSUME IInv, Skip
  PROVE  IInv'
<1> USE DEF IInv
<1> PICK d : d = desc
  OBVIOUS
<1>1. /\ look_for_new_slice /\ leaked' = leaked \cup {d}
      /\ UNCHANGED <<sent, videos, slice, units, gap, arrived, lost,
                     look_for_new_slice, continue_current_slice, pes_len,
                     pes_curr_byte_count, last_seq_num, slice_chain, sliceq, freed>>
      /\ Pull /\ UNCHANGED source
  BY DEF Skip, source, decoder
<1>2. /\ d \in Packet /\ lpcmq' \in Seq(Packet) /\ Stream'
      /\ \A i \in 1..Len(sliceq) :
            \A j \in 1..Len(lpcmq') : sliceq[i][1].slice < lpcmq'[j].slice
  BY <1>1, PullKeeps
<1>3. leaked' \subseteq Packet
  BY <1>1, <1>2 DEF TypeOK
<1>4. TypeOK'
  BY <1>1, <1>2, <1>3 DEF TypeOK
<1>5. ~continue_current_slice'
  BY <1>1 DEF SlicesWhole, TypeOK
<1>6. Junction' /\ SlicesWhole' /\ SlicesInOrder'
  BY <1>1, <1>5 DEF Junction, SlicesWhole, SlicesInOrder, UnbrokenPrefix
<1>7. HandedOn'
  BY <1>1, <1>2 DEF HandedOn
<1> QED
  BY <1>2, <1>4, <1>6, <1>7

LEMMA DropInv ==
  ASSUME IInv, Drop
  PROVE  IInv'
<1> USE DEF IInv
<1> PICK d : d = desc
  OBVIOUS
<1>1. /\ freed' = freed \cup {slice_chain[i] : i \in 1..Len(slice_chain)}
      /\ slice_chain' = <<>> /\ look_for_new_slice' = TRUE
      /\ continue_current_slice' = FALSE
      /\ leaked' = leaked \cup {d}
      /\ UNCHANGED <<sent, videos, slice, units, gap, arrived, lost, pes_len,
                     pes_curr_byte_count, last_seq_num, sliceq>>
      /\ Pull /\ UNCHANGED source
  BY DEF Drop, source
<1>2. /\ d \in Packet /\ lpcmq' \in Seq(Packet) /\ Stream'
      /\ \A i \in 1..Len(sliceq) :
            \A j \in 1..Len(lpcmq') : sliceq[i][1].slice < lpcmq'[j].slice
  BY <1>1, PullKeeps
<1>3. leaked' \subseteq Packet
  BY <1>1, <1>2 DEF TypeOK
<1>4. freed' \subseteq Packet
  <2>1. freed \subseteq Packet /\ slice_chain \in Seq(Packet)
    BY DEF TypeOK
  <2>2. \A i \in 1..Len(slice_chain) : slice_chain[i] \in Packet
    BY <2>1, ElementOfSeq
  <2> DEFINE chain == {slice_chain[i] : i \in 1..Len(slice_chain)}
  <2>3. ASSUME NEW p \in chain PROVE p \in Packet
    <3>1. PICK i \in 1..Len(slice_chain) : p = slice_chain[i]
      OBVIOUS
    <3> QED
      BY <2>2, <3>1
  <2>4. freed' = freed \cup chain
    BY <1>1
  <2> HIDE DEF chain
  <2> QED
    BY <2>1, <2>3, <2>4
<1>5. TypeOK'
  BY <1>1, <1>2, <1>3, <1>4, EmptySeq DEF TypeOK
<1>6. Junction' /\ SlicesWhole' /\ SlicesInOrder'
  BY <1>1 DEF Junction, SlicesWhole, SlicesInOrder, UnbrokenPrefix
<1>7. HandedOn'
  BY <1>1, <1>2 DEF HandedOn
<1> QED
  BY <1>2, <1>5, <1>6, <1>7

\* d goes on the chain: it is taken at its place in the slice and the chain remains
\* the beginning of that slice.
LEMMA AddInv ==
  ASSUME IInv, Pull, UNCHANGED <<source, freed, leaked>>, pes_len' = PesLen,
         NEW d, d = desc, Add(d.at, PesLen),
         NEW chain \in Seq(Packet), chain = Append(slice_chain, d),
         UnbrokenPrefix(chain), chain[1].slice = d.slice
  PROVE  IInv'
<1> USE DEF IInv
<1>1. /\ d \in Packet /\ lpcmq' \in Seq(Packet) /\ Stream' /\ Sent(d)'
      /\ \A i \in 1..Len(lpcmq') : lpcmq'[i] \in Packet /\ Before(d, lpcmq'[i])
      /\ lpcmq' # <<>> => NextTo(d, lpcmq'[1])
      /\ lpcmq' = <<>> => Latest(d)'
      /\ \A i \in 1..Len(sliceq) :
            /\ sliceq[i][1].slice < d.slice
            /\ \A j \in 1..Len(lpcmq') : sliceq[i][1].slice < lpcmq'[j].slice
  BY PullKeeps DEF source
<1>2. /\ UNCHANGED <<sent, videos, slice, units, gap, arrived, lost, freed, leaked>>
      /\ slice \in Nat /\ units \in 0..PesLen
  BY DEF source, TypeOK
<1>3. /\ pes_curr_byte_count' = End(d) /\ last_seq_num' = Seq16(d)
      /\ slice_chain' = IF End(d) = PesLen THEN <<>> ELSE chain
      /\ sliceq' = IF End(d) = PesLen THEN Append(sliceq, chain) ELSE sliceq
      /\ look_for_new_slice' = (End(d) = PesLen)
      /\ continue_current_slice' = ~(End(d) = PesLen)
  BY DEF Add, End
<1>4. /\ d.slice \in Nat \ {0} /\ End(d) \in 0..PesLen
      /\ Seq16(d) \in 0..(SeqNums - 1) /\ PesLen \in Nat \ {0}
      /\ d.slice <= slice
      /\ d.slice = slice => End(d) <= units
  <2>1. /\ d.slice \in Nat \ {0} /\ End(d) \in Nat /\ PesLen \in Nat \ {0}
        /\ Seq16(d) \in 0..(SeqNums - 1)
    BY <1>1, PacketParts
  <2>2. /\ d.slice <= slice
        /\ d.slice = slice => End(d) <= units
        /\ End(d) <= PesLen
    BY <1>1, <1>2 DEF Sent
  <2> QED
    BY <2>1, <2>2
<1>5. /\ Len(slice_chain) \in Nat /\ chain # <<>>
      /\ Len(chain) = Len(slice_chain) + 1 /\ chain[Len(chain)] = d
  BY <1>1, Appended DEF TypeOK
<1>6. CASE End(d) = PesLen
  <2>1. /\ slice_chain' = <<>> /\ sliceq' = Append(sliceq, chain)
        /\ look_for_new_slice' = TRUE /\ continue_current_slice' = FALSE
    BY <1>3, <1>6
  <2>2. /\ sliceq' \in Seq(Seq(Packet)) /\ Len(sliceq) \in Nat
        /\ Len(sliceq') = Len(sliceq) + 1
        /\ sliceq'[Len(sliceq) + 1] = chain
        /\ \A i \in 1..Len(sliceq) : sliceq'[i] = sliceq[i]
    BY <2>1, Appended DEF TypeOK
  <2>3. ASSUME NEW i \in 1..Len(sliceq')
        PROVE  i = Len(sliceq) + 1 \/ i \in 1..Len(sliceq)
    BY <2>2
  <2>4. TypeOK'
    BY <1>1, <1>2, <1>3, <1>4, <2>1, <2>2, EmptySeq DEF TypeOK
  <2>5. Junction'
    BY <2>1 DEF Junction
  <2>6. HandedOn'
    <3> SUFFICES ASSUME NEW i \in 1..Len(sliceq')
                 PROVE  /\ sliceq'[i] # <<>>
                        /\ sliceq'[i][1].slice <= slice
                        /\ sliceq'[i][1].slice = slice => units = PesLen
                        /\ \A j \in 1..Len(lpcmq') : sliceq'[i][1].slice < lpcmq'[j].slice
      BY <1>2, <2>1 DEF HandedOn
    <3>1. CASE i \in 1..Len(sliceq)
      BY <1>1, <2>2, <3>1 DEF HandedOn
    <3>2. CASE i = Len(sliceq) + 1
      <4>1. sliceq'[i] # <<>> /\ sliceq'[i][1].slice = d.slice
        BY <1>5, <2>2, <3>2
      <4>2. d.slice = slice => units = PesLen
        BY <1>2, <1>4, <1>6
      <4>3. ASSUME NEW j \in 1..Len(lpcmq') PROVE d.slice < lpcmq'[j].slice
        <5> DEFINE q == lpcmq'[j]
        <5>1. q \in Packet /\ Before(d, q)
          BY <1>1
        <5> HIDE DEF q
        <5>2. q.slice \in Nat /\ q.at < PesLen /\ q.at \in Nat
          BY <5>1, PacketParts
        <5>3. d.slice < q.slice
          BY <1>4, <1>6, <5>1, <5>2 DEF Before
        <5> QED
          BY <5>3 DEF q
      <4> QED
        BY <1>4, <4>1, <4>2, <4>3
    <3> QED
      BY <2>3, <3>1, <3>2
  <2>7. SlicesWhole'
    <3>1. ASSUME NEW i \in 1..Len(sliceq')
          PROVE  /\ UnbrokenPrefix(sliceq'[i])
                 /\ End(sliceq'[i][Len(sliceq'[i])]) = PesLen
      <4>1. CASE i \in 1..Len(sliceq)
        BY <2>2, <4>1 DEF SlicesWhole
      <4>2. CASE i = Len(sliceq) + 1
        BY <1>5, <1>6, <2>2, <4>2
      <4> QED
        BY <2>3, <4>1, <4>2
    <3> QED
      BY <2>1, <3>1 DEF SlicesWhole
  <2>8. SlicesInOrder'
    <3> SUFFICES ASSUME NEW i \in 1..Len(sliceq'), NEW j \in 1..Len(sliceq'), i < j
                 PROVE  sliceq'[i][1].slice < sliceq'[j][1].slice
      BY DEF SlicesInOrder
    <3>1. i \in 1..Len(sliceq)
      BY <2>2
    <3>2. CASE j \in 1..Len(sliceq)
      BY <2>2, <3>1, <3>2 DEF SlicesInOrder
    <3>3. CASE j = Len(sliceq) + 1
      BY <1>1, <2>2, <3>1, <3>3
    <3> QED
      BY <2>3, <3>2, <3>3
  <2> QED
    BY <1>1, <2>4, <2>5, <2>6, <2>7, <2>8
<1>7. CASE End(d) # PesLen
  <2>1. /\ slice_chain' = chain /\ sliceq' = sliceq
        /\ look_for_new_slice' = FALSE /\ continue_current_slice' = TRUE
    BY <1>3, <1>7
  <2>2. TypeOK'
    BY <1>1, <1>2, <1>3, <1>4, <2>1 DEF TypeOK
  <2>3. Junction'
    <3>1. slice_chain'[Len(slice_chain')] = d /\ slice_chain' # <<>>
          /\ d.slice = slice_chain'[1].slice
      BY <1>5, <2>1
    <3>2. End(d) < PesLen
      BY <1>4, <1>7
    <3>3. /\ Sent(slice_chain[Len(slice_chain)])'
          /\ lpcmq' = <<>> => Latest(slice_chain[Len(slice_chain)])'
      BY <1>1, <3>1 DEF Sent, Latest
    <3> QED
      BY <1>1, <1>3, <3>1, <3>2, <3>3 DEF Junction
  <2>4. HandedOn'
    BY <1>1, <1>2, <2>1 DEF HandedOn
  <2>5. SlicesWhole'
    BY <1>3, <1>5, <2>1 DEF SlicesWhole, UnbrokenPrefix
  <2>6. SlicesInOrder'
    BY <2>1 DEF SlicesInOrder
  <2> QED
    BY <1>1, <2>2, <2>3, <2>4, <2>5, <2>6
<1> QED
  BY <1>6, <1>7

LEMMA StartInv ==
  ASSUME IInv, Start
  PROVE  IInv'
<1> USE DEF IInv
<1> PICK d : d = desc
  OBVIOUS
<1>1. /\ look_for_new_slice /\ IsStart(d) /\ pes_len' = PesLen /\ Add(0, PesLen)
      /\ Pull /\ UNCHANGED <<source, freed, leaked>>
  BY DEF Start
<1>2. d \in Packet
  BY <1>1, PullKeeps
<1>3. d.at = 0 /\ slice_chain = <<>>
  BY <1>1 DEF IsStart, SlicesWhole
<1> DEFINE chain == Append(slice_chain, d)
<1>4. chain \in Seq(Packet) /\ Len(chain) = 1 /\ chain[1] = d
  BY <1>2, <1>3, Appended, EmptySeq
<1>5. UnbrokenPrefix(chain) /\ chain[1].slice = d.slice
  BY <1>1, <1>4 DEF UnbrokenPrefix
<1>6. Add(d.at, PesLen)
  BY <1>1, <1>3
<1> HIDE DEF chain
<1> QED
  BY <1>1, <1>4, <1>5, <1>6, AddInv DEF chain

\* A datagram that passes the test of the numbers goes on where the chain ends.
LEMMA GoesOn ==
  ASSUME IInv, lpcmq # <<>>, continue_current_slice, Follows, NEW d, d = desc
  PROVE  /\ d \in Packet
         /\ pes_len = PesLen /\ d.at = pes_curr_byte_count
         /\ d.slice = slice_chain[Len(slice_chain)].slice
         /\ d.at = End(slice_chain[Len(slice_chain)])
         /\ End(d) <= PesLen
<1> USE DEF IInv
<1> DEFINE last == slice_chain[Len(slice_chain)]
<1>1. d \in Packet /\ d = lpcmq[1] /\ 1 \in 1..Len(lpcmq)
  BY HeadTail DEF desc, TypeOK
<1>2. Sent(d) /\ Before(last, d) /\ NextTo(last, d)
  BY <1>1 DEF Stream, Junction
<1>3. /\ last \in Packet /\ last_seq_num = Seq16(last) /\ End(last) < PesLen
      /\ pes_len = PesLen /\ pes_curr_byte_count = End(last)
  BY LastOf DEF Junction, SlicesWhole, TypeOK
<1>4. Seq16(d) = Seq16(last) + 1
  BY <1>3 DEF Follows
<1> HIDE DEF last
<1>5. d.num = last.num + 1
  BY <1>1, <1>2, <1>3, <1>4, NumbersTell
<1>6. End(last) \in Nat /\ PesLen \in Nat
  BY <1>3, PacketParts
<1>7. d.slice = last.slice /\ d.at = End(last)
  BY <1>2, <1>3, <1>5, <1>6 DEF NextTo
<1>8. End(d) <= PesLen
  BY <1>2 DEF Sent
<1> QED
  BY <1>1, <1>3, <1>7, <1>8 DEF last

LEMMA ContinueInv ==
  ASSUME IInv, Continue
  PROVE  IInv'
<1> USE DEF IInv
<1> PICK d : d = desc
  OBVIOUS
<1>1. /\ continue_current_slice /\ Follows /\ pes_len' = pes_len
      /\ Add(pes_curr_byte_count, pes_len)
      /\ Pull /\ lpcmq # <<>> /\ UNCHANGED <<source, freed, leaked>>
  BY DEF Continue, Pull
<1> DEFINE last == slice_chain[Len(slice_chain)]
           chain == Append(slice_chain, d)
<1>2. /\ d \in Packet /\ pes_len = PesLen /\ d.at = pes_curr_byte_count
      /\ d.slice = last.slice /\ d.at = End(last)
  BY <1>1, GoesOn
<1>3. /\ slice_chain \in Seq(Packet) /\ slice_chain # <<>>
      /\ Len(slice_chain) \in Nat \ {0}
      /\ last.slice = slice_chain[1].slice /\ UnbrokenPrefix(slice_chain)
  BY <1>1, LastOf DEF Junction, SlicesWhole, TypeOK
<1>4. /\ chain \in Seq(Packet) /\ Len(chain) = Len(slice_chain) + 1
      /\ chain[Len(slice_chain) + 1] = d
      /\ \A i \in 1..Len(slice_chain) : chain[i] = slice_chain[i]
  BY <1>2, <1>3, Appended
<1> HIDE DEF last, chain
<1>5. chain[1] = slice_chain[1]
  BY <1>3, <1>4
<1>6. UnbrokenPrefix(chain)
  <2>1. IsStart(chain[1])
    BY <1>3, <1>5 DEF UnbrokenPrefix
  <2>2. ASSUME NEW i \in 2..Len(chain)
        PROVE  /\ chain[i].slice = chain[i - 1].slice
               /\ chain[i].at = End(chain[i - 1])
    <3>1. CASE i = Len(slice_chain) + 1
      <4>1. chain[i] = d /\ chain[i - 1] = last
        BY <1>3, <1>4, <3>1 DEF last
      <4> QED
        BY <1>2, <4>1
    <3>2. CASE i \in 2..Len(slice_chain)
      <4>1. chain[i] = slice_chain[i] /\ chain[i - 1] = slice_chain[i - 1]
        BY <1>3, <1>4, <3>2
      <4> QED
        BY <1>3, <3>2, <4>1 DEF UnbrokenPrefix
    <3> QED
      BY <1>3, <1>4, <3>1, <3>2
  <2> QED
    BY <2>1, <2>2 DEF UnbrokenPrefix
<1>7. Add(d.at, PesLen) /\ pes_len' = PesLen
  BY <1>1, <1>2
<1>8. chain[1].slice = d.slice
  BY <1>2, <1>3, <1>5
<1> QED
  BY <1>1, <1>4, <1>6, <1>7, <1>8, AddInv DEF chain

LEMMA StepInv == IInv /\ [Next]_vars => IInv'
<1> SUFFICES ASSUME IInv, [Next]_vars PROVE IInv'
  OBVIOUS
<1>1. CASE UNCHANGED vars
  BY <1>1
     DEF IInv, TypeOK, Stream, Junction, HandedOn, SlicesWhole, SlicesInOrder,
         UnbrokenPrefix, Sent, Latest, vars, source, decoder
<1>2. CASE Decode
  BY <1>2, SkipInv, StartInv, ContinueInv, DropInv DEF Decode
<1> QED
  BY <1>1, <1>2, SendVideoInv, SendAudioInv DEF Next

\* The inductive invariant of what is said of chains.
THEOREM Invariance == Spec => []IInv
BY InitInv, StepInv, PTL DEF Spec

\* What the source, the queues and the decoder hold keeps its type; the cached
\* sequence number stays one of 16 bits.
THEOREM TypeCorrect == Spec => []TypeOK
BY Invariance, PTL DEF IInv

\* Whatever is lost, as long as fewer datagrams are missing in a row than there are
\* sequence numbers, what is handed on is whole slices
\* (sx_mgmt_audio_decoder.c:285-336).
THEOREM SlicesWholeCorrect == Spec => []SlicesWhole
BY Invariance, PTL DEF IInv

\* ... in the order they were sent, none twice (sx_mgmt_audio_decoder.c:329-335).
THEOREM SlicesInOrderCorrect == Spec => []SlicesInOrder
BY Invariance, PTL DEF IInv

\* The assertion that a slice never gets too long holds: what passes the test of the
\* numbers goes on where the chain ends, and a datagram ends inside its slice
\* (sx_mgmt_audio_decoder.c:323).
THEOREM NoOverrunCorrect == Spec => []NoOverrun
<1>1. IInv => NoOverrun
  <2> SUFFICES ASSUME IInv, continue_current_slice, lpcmq # <<>>, Follows
               PROVE  pes_curr_byte_count + desc.n <= pes_len
    BY DEF NoOverrun
  <2>1. /\ desc \in Packet /\ pes_len = PesLen /\ desc.at = pes_curr_byte_count
        /\ End(desc) <= PesLen
    BY GoesOn
  <2> QED
    BY <2>1 DEF End
<1> QED
  BY <1>1, Invariance, PTL

------------------------------------------------------------------------------
(***************************************************************************)
(* The steps, in the terms of the proofs below                             *)
(***************************************************************************)
\* The source sends p, which arrives or not.
Sends(p) ==
    /\ p \in Packet
    /\ p.num = sent /\ sent' = sent + 1 /\ p.slice = slice'
    /\ \A q \in Packet : Sent(q) => Before(q, p) /\ Sent(q)'
    /\ Sent(p)'
    /\ slice' \in slice..(slice + 1)
    /\ \/ arrived' = arrived \cup {p} /\ lpcmq' = Append(lpcmq, p)
       \/ UNCHANGED <<arrived, lpcmq>>
    /\ UNCHANGED <<continue_current_slice, slice_chain, sliceq, freed, leaked>>

\* The decoder takes d, and
Takes(d) ==
    /\ d \in Packet /\ d = lpcmq[1] /\ 1 \in 1..Len(lpcmq)
    /\ Len(lpcmq') = Len(lpcmq) - 1
    /\ \A i \in 1..Len(lpcmq') : lpcmq'[i] = lpcmq[i + 1]
    /\ Sent(d)
    /\ continue_current_slice => Before(slice_chain[Len(slice_chain)], d)
    /\ UNCHANGED <<sent, slice, units, arrived>>

\* ... lets it go, as it is searching,
Skips(d) ==
    /\ ~continue_current_slice /\ ~continue_current_slice' /\ ~IsStart(d)
    /\ leaked' = leaked \cup {d}
    /\ UNCHANGED <<slice_chain, sliceq, freed>>

\* ... chains it,
Adds(d) ==
    LET chain == Append(slice_chain, d)
        complete == End(d) = PesLen
    IN  /\ chain[1].slice = d.slice
        /\ slice_chain' = IF complete THEN <<>> ELSE chain
        /\ sliceq' = IF complete THEN Append(sliceq, chain) ELSE sliceq
        /\ continue_current_slice' = ~complete
        /\ UNCHANGED <<freed, leaked>>

\* ... or drops the chain because of it.
Drops(d) ==
    /\ continue_current_slice /\ ~continue_current_slice'
    /\ Seq16(d) # Seq16(slice_chain[Len(slice_chain)]) + 1
    /\ freed' = freed \cup Elements(slice_chain)
    /\ slice_chain' = <<>>
    /\ leaked' = leaked \cup {d}
    /\ UNCHANGED sliceq

LEMMA Sending ==
  ASSUME IInv, NEW n \in 1..PesLen, SendAudio(n)
  PROVE  \E p \in Packet : Sends(p)
<1>1. /\ sent \in Nat /\ slice \in Nat /\ units \in 0..PesLen /\ PesLen \in Nat \ {0}
  BY DecoderAssumption DEF IInv, TypeOK
<1>2. /\ \/ slice' = slice /\ units' = units + n /\ units < PesLen
         \/ slice' = slice + 1 /\ units' = n /\ units = PesLen
      /\ units' \in 1..PesLen /\ units' - n \in 0..(PesLen - 1)
      /\ units' - n + n = units' /\ units' <= PesLen
      /\ slice' \in slice..(slice + 1)
      /\ sent' = sent + 1
      /\ UNCHANGED <<continue_current_slice, slice_chain, sliceq, freed, leaked>>
  BY <1>1 DEF SendAudio, decoder
<1>3. slice' \in Nat \ {0}
  <2>1. slice = 0 => units = PesLen
    BY DEF IInv, Stream
  <2> QED
    BY <1>1, <1>2, <2>1
<1> PICK p : p = [num |-> sent, slice |-> slice', at |-> units' - n, n |-> n]
  OBVIOUS
<1>4. p \in Packet
  BY <1>1, <1>2, <1>3 DEF Packet
<1>5. \/ arrived' = arrived \cup {p} /\ lpcmq' = Append(lpcmq, p)
      \/ UNCHANGED <<arrived, lpcmq>>
  BY DEF SendAudio, Deliver, Lose
<1>6. p.num = sent /\ p.slice = slice' /\ p.at = units' - n /\ End(p) = units'
  BY <1>2 DEF End
<1>7. \/ slice' = slice /\ p.at = units
      \/ slice' = slice + 1 /\ p.at = 0 /\ units = PesLen
  <2>1. (units + n) - n = units /\ n - n = 0
    BY <1>1
  <2> QED
    BY <1>2, <1>6, <2>1
<1>8. /\ \A q \in Packet : Sent(q) => Before(q, p) /\ Sent(q)'
      /\ Sent(p)'
  BY <1>2, <1>4, <1>6, <1>7, AfterSent
<1> QED
  BY <1>2, <1>4, <1>5, <1>6, <1>8 DEF Sends

LEMMA Decoding ==
  ASSUME IInv, Decode
  PROVE  \E d \in Packet : Takes(d) /\ (Skips(d) \/ Adds(d) \/ Drops(d))
<1> PICK d : d = desc
  OBVIOUS
<1> DEFINE last == slice_chain[Len(slice_chain)]
<1>1. Pull /\ UNCHANGED source
  BY DEF Decode, Skip, Start, Continue, Drop
<1>2. /\ d \in Packet
      /\ continue_current_slice => Before(last, d)
  BY <1>1, PullKeeps
<1>3. /\ d = lpcmq[1] /\ 1 \in 1..Len(lpcmq) /\ Len(lpcmq') = Len(lpcmq) - 1
      /\ \A i \in 1..Len(lpcmq') : lpcmq'[i] = lpcmq[i + 1]
  BY <1>1, HeadTail DEF Pull, desc, IInv, TypeOK
<1>4. Takes(d)
  BY <1>1, <1>2, <1>3 DEF Takes, source, IInv, Stream
<1>5. /\ slice_chain \in Seq(Packet)
      /\ look_for_new_slice = ~continue_current_slice
      /\ look_for_new_slice => slice_chain = <<>>
      /\ continue_current_slice =>
            /\ slice_chain # <<>> /\ last_seq_num = Seq16(last)
            /\ last.slice = slice_chain[1].slice
      /\ look_for_new_slice \in BOOLEAN /\ continue_current_slice \in BOOLEAN
  BY DEF IInv, TypeOK, SlicesWhole, Junction
<1>6. CASE Skip
  <2>1. Skips(d)
    BY <1>5, <1>6 DEF Skip, Skips, decoder
  <2> QED
    BY <1>2, <1>4, <2>1
<1>7. CASE Start
  <2>1. /\ slice_chain = <<>> /\ IsStart(d) /\ Add(0, PesLen)
        /\ UNCHANGED <<freed, leaked>>
    BY <1>5, <1>7 DEF Start
  <2>2. Append(slice_chain, d)[1] = d
    BY <1>2, <2>1, Appended, EmptySeq
  <2>3. (0 + d.n = PesLen) <=> (End(d) = PesLen)
    BY <1>2, <2>1, PacketParts DEF IsStart, End
  <2>4. Adds(d)
    BY <2>1, <2>2, <2>3 DEF Add, Adds
  <2> QED
    BY <1>2, <1>4, <2>4
<1>8. CASE Continue
  <2>1. /\ continue_current_slice /\ Follows /\ lpcmq # <<>>
        /\ Add(pes_curr_byte_count, pes_len) /\ UNCHANGED <<freed, leaked>>
    BY <1>8 DEF Continue, Pull
  <2>2. /\ pes_len = PesLen /\ d.at = pes_curr_byte_count /\ d.slice = last.slice
    BY <2>1, GoesOn
  <2>3. Append(slice_chain, d)[1] = slice_chain[1]
    BY <1>2, <1>5, <2>1, Appended, HeadTail
  <2>4. Adds(d)
    BY <1>5, <2>1, <2>2, <2>3 DEF Add, Adds, End
  <2> QED
    BY <1>2, <1>4, <2>4
<1>9. CASE Drop
  <2>1. Drops(d)
    BY <1>5, <1>9 DEF Drop, Drops, Follows, Elements
  <2> QED
    BY <1>2, <1>4, <2>1
<1> QED
  BY <1>6, <1>7, <1>8, <1>9 DEF Decode

------------------------------------------------------------------------------
(***************************************************************************)
(* The order of the stream                                                 *)
(***************************************************************************)
\* All that was put on the LPCM_SLICE queue, and all that was taken from LPCM.
Passed == UNION {Elements(sliceq[k]) : k \in 1..Len(sliceq)}
Gone == freed \cup leaked \cup Elements(slice_chain) \cup Passed

\* What arrived was taken from the queue or is in it, where it comes after all that
\* was taken; the chain under way ends with what was taken last.
Order ==
    /\ arrived = Gone \cup Elements(lpcmq)
    /\ \A p \in arrived : Sent(p)
    /\ \A p, q \in arrived : p.num < q.num => Before(p, q)
    /\ \A p, q \in arrived : p.num = q.num => p = q
    /\ \A p \in Gone : \A i \in 1..Len(lpcmq) : p.num < lpcmq[i].num
    /\ continue_current_slice =>
          \A p \in Gone : p.num <= slice_chain[Len(slice_chain)].num

\* A complete chain is the last of those handed on.
LEMMA AddFacts ==
  ASSUME IInv, NEW d \in Packet, Adds(d)
  PROVE  /\ Append(slice_chain, d) \in Seq(Packet)
         /\ Elements(Append(slice_chain, d)) = Elements(slice_chain) \cup {d}
         /\ IF End(d) = PesLen
            THEN /\ slice_chain' = <<>> /\ ~continue_current_slice'
                 /\ Len(sliceq) \in Nat /\ Len(sliceq') = Len(sliceq) + 1
                 /\ \A k \in 1..Len(sliceq) : sliceq'[k] = sliceq[k]
                 /\ sliceq'[Len(sliceq) + 1] = Append(slice_chain, d)
            ELSE /\ slice_chain' = Append(slice_chain, d) /\ continue_current_slice'
                 /\ slice_chain'[Len(slice_chain')] = d
                 /\ sliceq' = sliceq
         /\ Append(slice_chain, d)[1].slice = d.slice
         /\ UNCHANGED <<freed, leaked>>
<1>1. slice_chain \in Seq(Packet) /\ sliceq \in Seq(Seq(Packet))
  BY DEF IInv, TypeOK
<1>2. PICK chain : chain = Append(slice_chain, d)
  OBVIOUS
<1>3. chain \in Seq(Packet) /\ chain[Len(chain)] = d
  BY <1>1, <1>2, Appended
<1>4. Elements(chain) = Elements(slice_chain) \cup {d}
  BY <1>1, <1>2, AppendMembers DEF Elements
<1>5. CASE End(d) = PesLen
  <2>1. sliceq' = Append(sliceq, chain)
    BY <1>2, <1>5 DEF Adds
  <2>2. /\ Len(sliceq) \in Nat /\ Len(sliceq') = Len(sliceq) + 1
        /\ \A k \in 1..Len(sliceq) : sliceq'[k] = sliceq[k]
        /\ sliceq'[Len(sliceq) + 1] = chain
    BY <1>1, <1>3, <2>1, Appended
  <2> QED
    BY <1>2, <1>3, <1>4, <1>5, <2>2 DEF Adds
<1>6. CASE End(d) # PesLen
  BY <1>2, <1>3, <1>4, <1>6 DEF Adds
<1> QED
  BY <1>5, <1>6

\* What was chained is handed on, or is being chained.
LEMMA PassedGrows ==
  ASSUME IInv, NEW d \in Packet, Adds(d)
  PROVE  IF End(d) = PesLen
         THEN /\ Passed' = Passed \cup Elements(slice_chain) \cup {d}
              /\ Elements(slice_chain)' = {}
         ELSE /\ Passed' = Passed
              /\ Elements(slice_chain)' = Elements(slice_chain) \cup {d}
<1> PICK chain : chain = Append(slice_chain, d)
  OBVIOUS
<1>1. Elements(chain) = Elements(slice_chain) \cup {d}
  BY AddFacts
<1>2. CASE End(d) # PesLen
  <2>1. sliceq' = sliceq /\ slice_chain' = chain
    BY <1>2, AddFacts
  <2> QED
    BY <1>1, <1>2, <2>1 DEF Passed, Elements
<1>3. CASE End(d) = PesLen
  <2>1. /\ Len(sliceq) \in Nat /\ Len(sliceq') = Len(sliceq) + 1
        /\ \A k \in 1..Len(sliceq) : sliceq'[k] = sliceq[k]
        /\ sliceq'[Len(sliceq) + 1] = chain
        /\ slice_chain' = <<>>
    BY <1>3, AddFacts
  <2>2. 1..Len(sliceq') = (1..Len(sliceq)) \cup {Len(sliceq) + 1}
    BY <2>1
  <2>3. ASSUME NEW p \in Passed' PROVE p \in Passed \cup Elements(chain)
    <3>1. PICK k \in 1..Len(sliceq') : p \in Elements(sliceq'[k])
      BY <2>3 DEF Passed, Elements
    <3> QED
      BY <2>1, <2>2, <3>1 DEF Passed
  <2>4. ASSUME NEW p \in Passed PROVE p \in Passed'
    <3>1. PICK k \in 1..Len(sliceq) : p \in Elements(sliceq[k])
      BY <2>4 DEF Passed
    <3>2. k \in 1..Len(sliceq') /\ p \in Elements(sliceq'[k])
      BY <2>1, <2>2, <3>1
    <3> QED
      BY <3>2 DEF Passed, Elements
  <2>5. ASSUME NEW p \in Elements(chain) PROVE p \in Passed'
    <3>1. /\ Len(sliceq) + 1 \in 1..Len(sliceq')
          /\ p \in Elements(sliceq'[Len(sliceq) + 1])
      BY <2>1, <2>2, <2>5
    <3> QED
      BY <3>1 DEF Passed, Elements
  <2>6. Elements(slice_chain)' = {}
    BY <2>1, EmptySeq DEF Elements
  <2> QED
    BY <1>1, <1>3, <2>3, <2>4, <2>5, <2>6
<1> QED
  BY <1>2, <1>3

LEMMA GoneGrows ==
  ASSUME IInv, NEW d \in Packet, Skips(d) \/ Adds(d) \/ Drops(d)
  PROVE  Gone' = Gone \cup {d}
<1>1. CASE Skips(d)
  <2>1. Passed' = Passed /\ Elements(slice_chain)' = Elements(slice_chain)
    BY <1>1 DEF Skips, Passed, Elements
  <2> QED
    BY <1>1, <2>1 DEF Skips, Gone
<1>2. CASE Adds(d)
  <2>1. freed' = freed /\ leaked' = leaked
    BY <1>2 DEF Adds
  <2> QED
    BY <1>2, <2>1, PassedGrows DEF Gone
<1>3. CASE Drops(d)
  <2>1. Passed' = Passed /\ Elements(slice_chain)' = {}
    BY <1>3, EmptySeq DEF Drops, Passed, Elements
  <2> QED
    BY <1>3, <2>1 DEF Drops, Gone
<1> QED
  BY <1>1, <1>2, <1>3

LEMMA OrderSend ==
  ASSUME IInv, Order, NEW p \in Packet, Sends(p)
  PROVE  Order'
<1>1. UNCHANGED <<continue_current_slice, slice_chain, sliceq, freed, leaked>>
  BY DEF Sends
<1>2. Gone' = Gone
  BY <1>1 DEF Gone, Passed, Elements
<1>3. lpcmq \in Seq(Packet) /\ arrived \subseteq Packet /\ sent \in Nat
  BY DEF IInv, TypeOK
<1>4. ASSUME NEW q \in arrived PROVE q \in Packet /\ Sent(q)' /\ Before(q, p) /\ q.num < p.num
  BY <1>3, <1>4 DEF Order, Sends, Before
<1>5. CASE UNCHANGED <<arrived, lpcmq>>
  <2>1. \A q \in arrived' : Sent(q)'
    BY <1>4, <1>5
  <2> QED
    BY <1>1, <1>2, <1>5, <2>1 DEF Order, Elements, Sent
<1>6. CASE arrived' = arrived \cup {p} /\ lpcmq' = Append(lpcmq, p)
  <2>1. /\ Len(lpcmq) \in Nat /\ Len(lpcmq') = Len(lpcmq) + 1
        /\ lpcmq'[Len(lpcmq) + 1] = p
        /\ \A i \in 1..Len(lpcmq) : lpcmq'[i] = lpcmq[i]
    BY <1>3, <1>6, Appended
  <2>2. Elements(lpcmq)' = Elements(lpcmq) \cup {p}
    BY <1>3, <1>6, AppendMembers DEF Elements
  <2>3. arrived' = Gone' \cup Elements(lpcmq)'
    BY <1>2, <1>6, <2>2 DEF Order
  <2>4. \A q \in arrived' : Sent(q)'
    BY <1>4, <1>6 DEF Sends
  <2>5. \A q \in arrived : q.num \in Nat
    BY <1>3, PacketParts
  <2>6. p.num \in Nat
    BY PacketParts
  <2>7. ASSUME NEW q \in arrived', NEW r \in arrived', q.num < r.num
        PROVE  Before(q, r)
    <3>1. CASE q \in arrived /\ r \in arrived
      BY <2>7, <3>1 DEF Order
    <3>2. CASE q \in arrived /\ r = p
      BY <1>4, <3>2
    <3>3. CASE q = p
      BY <1>4, <1>6, <2>5, <2>6, <2>7, <3>3
    <3> QED
      BY <1>6, <2>7, <3>1, <3>2, <3>3
  <2>8. ASSUME NEW q \in arrived', NEW r \in arrived', q.num = r.num
        PROVE  q = r
    <3>1. CASE q \in arrived /\ r \in arrived
      BY <2>8, <3>1 DEF Order
    <3>2. CASE q = p \/ r = p
      BY <1>4, <1>6, <2>5, <2>6, <2>8, <3>2
    <3> QED
      BY <1>6, <2>8, <3>1, <3>2
  <2>9. ASSUME NEW q \in Gone, NEW i \in 1..Len(lpcmq') PROVE q.num < lpcmq'[i].num
    <3>1. i \in 1..Len(lpcmq) \/ i = Len(lpcmq) + 1
      BY <2>1, <2>9
    <3>2. q \in arrived
      BY <2>9 DEF Order
    <3> QED
      BY <1>4, <2>1, <2>9, <3>1, <3>2 DEF Order
  <2> QED
    BY <1>1, <1>2, <2>3, <2>4, <2>7, <2>8, <2>9 DEF Order, Elements, Sent
<1> QED
  BY <1>5, <1>6 DEF Sends

LEMMA OrderTake ==
  ASSUME IInv, Order, NEW d \in Packet, Takes(d), Skips(d) \/ Adds(d) \/ Drops(d)
  PROVE  Order'
<1>1. Gone' = Gone \cup {d}
  BY GoneGrows
<1>2. lpcmq \in Seq(Packet) /\ Len(lpcmq) \in Nat
  BY LenProperties DEF IInv, TypeOK
<1>3. /\ d = lpcmq[1] /\ 1 \in 1..Len(lpcmq) /\ Len(lpcmq') = Len(lpcmq) - 1
      /\ \A i \in 1..Len(lpcmq') : lpcmq'[i] = lpcmq[i + 1]
      /\ UNCHANGED <<sent, slice, units, arrived>>
  BY DEF Takes
<1>4. \A i \in 1..Len(lpcmq') : i + 1 \in 1..Len(lpcmq) /\ i + 1 > 1
  BY <1>2, <1>3
<1>5. Elements(lpcmq) = {d} \cup Elements(lpcmq)'
  <2>1. ASSUME NEW p \in Elements(lpcmq) PROVE p \in {d} \cup Elements(lpcmq)'
    <3>1. PICK i \in 1..Len(lpcmq) : p = lpcmq[i]
      BY <2>1 DEF Elements
    <3>2. i = 1 \/ (i - 1 \in 1..Len(lpcmq') /\ (i - 1) + 1 = i)
      BY <1>2, <1>3, <3>1
    <3> QED
      BY <1>3, <3>1, <3>2 DEF Elements
  <2>2. ASSUME NEW p \in Elements(lpcmq)' PROVE p \in Elements(lpcmq)
    <3>1. PICK i \in 1..Len(lpcmq') : p = lpcmq'[i]
      BY <2>2 DEF Elements
    <3> QED
      BY <1>3, <1>4, <3>1 DEF Elements
  <2>3. d \in Elements(lpcmq)
    BY <1>3 DEF Elements
  <2> QED
    BY <2>1, <2>2, <2>3
<1>6. arrived' = Gone' \cup Elements(lpcmq)'
  BY <1>1, <1>3, <1>5 DEF Order
<1>7. ASSUME NEW p \in Gone', NEW i \in 1..Len(lpcmq') PROVE p.num < lpcmq'[i].num
  <2>1. CASE p \in Gone
    BY <1>3, <1>4, <1>7, <2>1 DEF Order
  <2>2. CASE p = d
    BY <1>3, <1>4, <1>7, <2>2 DEF IInv, Stream, Before
  <2> QED
    BY <1>1, <1>7, <2>1, <2>2
<1>8. ASSUME continue_current_slice', NEW p \in Gone'
      PROVE  p.num <= slice_chain'[Len(slice_chain')].num
  <2>1. slice_chain'[Len(slice_chain')] = d
    BY <1>8, AddFacts DEF Skips, Drops
  <2>2. d.num \in Nat
    BY PacketParts
  <2>3. CASE p \in Gone
    <3>1. p \in Packet
      BY <2>3 DEF Order, IInv, TypeOK
    <3>2. p.num < d.num /\ p.num \in Nat
      BY <1>3, <2>3, <3>1, PacketParts DEF Order
    <3> QED
      BY <2>1, <2>2, <3>2
  <2>4. CASE p = d
    BY <2>1, <2>2, <2>4
  <2> QED
    BY <1>1, <1>8, <2>3, <2>4
<1> QED
  BY <1>3, <1>6, <1>7, <1>8 DEF Order, Elements, Sent

------------------------------------------------------------------------------
(***************************************************************************)
(* What was taken is held in one place                                     *)
(***************************************************************************)
Apart ==
    /\ freed \cap leaked = {}
    /\ Elements(slice_chain) \cap (freed \cup leaked) = {}
    /\ Passed \cap (freed \cup leaked \cup Elements(slice_chain)) = {}
    /\ \A i, j \in 1..Len(sliceq) : i # j =>
          Elements(sliceq[i]) \cap Elements(sliceq[j]) = {}

LEMMA NotYetGone ==
  ASSUME IInv, Order
  PROVE  Gone \cap Elements(lpcmq) = {}
<1>1. ASSUME NEW p \in Gone, p \in Elements(lpcmq) PROVE FALSE
  <2>1. PICK i \in 1..Len(lpcmq) : p = lpcmq[i]
    BY <1>1 DEF Elements
  <2>2. p \in Packet
    BY <1>1 DEF Order, IInv, TypeOK
  <2>3. p.num < p.num /\ p.num \in Nat
    BY <1>1, <2>1, <2>2, PacketParts DEF Order
  <2> QED
    BY <2>3
<1> QED
  BY <1>1

LEMMA ApartStays ==
  ASSUME Apart, UNCHANGED <<slice_chain, sliceq, freed, leaked>>
  PROVE  Apart'
<1>1. /\ Passed' = Passed /\ Elements(slice_chain)' = Elements(slice_chain)
      /\ freed' = freed /\ leaked' = leaked /\ sliceq' = sliceq
  BY DEF Passed, Elements
<1>2. \A i, j \in 1..Len(sliceq') : i # j =>
          Elements(sliceq'[i]) \cap Elements(sliceq'[j]) = {}
  BY <1>1 DEF Apart
<1>3. /\ freed' \cap leaked' = {}
      /\ Elements(slice_chain)' \cap (freed' \cup leaked') = {}
      /\ Passed' \cap (freed' \cup leaked' \cup Elements(slice_chain)') = {}
  BY <1>1 DEF Apart
<1> QED
  BY <1>2, <1>3 DEF Apart, Elements

LEMMA ApartTake ==
  ASSUME IInv, Order, Apart, NEW d \in Packet, Takes(d),
         Skips(d) \/ Adds(d) \/ Drops(d)
  PROVE  Apart'
<1>1. d \notin freed \cup leaked \cup Elements(slice_chain) \cup Passed
  <2>1. d \in Elements(lpcmq)
    BY DEF Takes, Elements
  <2> QED
    BY <2>1, NotYetGone DEF Gone
<1>2. /\ freed \cap leaked = {}
      /\ Elements(slice_chain) \cap (freed \cup leaked) = {}
      /\ Passed \cap (freed \cup leaked \cup Elements(slice_chain)) = {}
  BY DEF Apart
<1>3. /\ freed' \cap leaked' = {}
      /\ Elements(slice_chain)' \cap (freed' \cup leaked') = {}
      /\ Passed' \cap (freed' \cup leaked' \cup Elements(slice_chain)') = {}
  <2>1. CASE Skips(d)
    <3>1. /\ Passed' = Passed /\ Elements(slice_chain)' = Elements(slice_chain)
          /\ freed' = freed /\ leaked' = leaked \cup {d}
      BY <2>1 DEF Skips, Passed, Elements
    <3> QED
      BY <1>1, <1>2, <3>1
  <2>2. CASE Drops(d)
    <3>1. /\ Passed' = Passed /\ Elements(slice_chain)' = {}
          /\ freed' = freed \cup Elements(slice_chain) /\ leaked' = leaked \cup {d}
      BY <2>2, EmptySeq DEF Drops, Passed, Elements
    <3> QED
      BY <1>1, <1>2, <3>1
  <2>3. CASE Adds(d)
    <3>1. freed' = freed /\ leaked' = leaked
      BY <2>3 DEF Adds
    <3>2. CASE End(d) = PesLen
      <4>1. /\ Passed' = Passed \cup Elements(slice_chain) \cup {d}
            /\ Elements(slice_chain)' = {}
        BY <2>3, <3>2, PassedGrows
      <4> QED
        BY <1>1, <1>2, <3>1, <4>1
    <3>3. CASE End(d) # PesLen
      <4>1. /\ Passed' = Passed
            /\ Elements(slice_chain)' = Elements(slice_chain) \cup {d}
        BY <2>3, <3>3, PassedGrows
      <4> QED
        BY <1>1, <1>2, <3>1, <4>1
    <3> QED
      BY <3>2, <3>3
  <2> QED
    BY <2>1, <2>2, <2>3
<1>4. ASSUME NEW i \in 1..Len(sliceq'), NEW j \in 1..Len(sliceq'), i # j
      PROVE  Elements(sliceq'[i]) \cap Elements(sliceq'[j]) = {}
  <2>1. CASE sliceq' = sliceq
    BY <1>4, <2>1 DEF Apart
  <2>2. CASE Adds(d) /\ End(d) = PesLen
    <3> PICK chain : chain = Append(slice_chain, d)
      OBVIOUS
    <3>1. /\ Len(sliceq) \in Nat /\ Len(sliceq') = Len(sliceq) + 1
          /\ \A k \in 1..Len(sliceq) : sliceq'[k] = sliceq[k]
          /\ sliceq'[Len(sliceq) + 1] = chain
          /\ Elements(chain) = Elements(slice_chain) \cup {d}
      BY <2>2, AddFacts
    <3>2. ASSUME NEW k \in 1..Len(sliceq)
          PROVE  Elements(sliceq[k]) \cap Elements(chain) = {}
      <4>1. Elements(sliceq[k]) \subseteq Passed
        BY <3>2 DEF Passed
      <4> QED
        BY <1>1, <1>2, <3>1, <4>1
    <3>3. ASSUME NEW k \in 1..Len(sliceq')
          PROVE  k \in 1..Len(sliceq) \/ k = Len(sliceq) + 1
      BY <3>1
    <3>4. CASE i \in 1..Len(sliceq) /\ j \in 1..Len(sliceq)
      BY <1>4, <3>1, <3>4 DEF Apart
    <3>5. CASE i \in 1..Len(sliceq) /\ j = Len(sliceq) + 1
      BY <3>1, <3>2, <3>5
    <3>6. CASE i = Len(sliceq) + 1 /\ j \in 1..Len(sliceq)
      BY <3>1, <3>2, <3>6
    <3> QED
      BY <1>4, <3>3, <3>4, <3>5, <3>6
  <2> QED
    BY <2>1, <2>2, AddFacts DEF Skips, Drops
<1> QED
  BY <1>3, <1>4 DEF Apart, Elements

LEMMA ApartOwner ==
  ASSUME IInv, Order, Apart
  PROVE  OneOwner
<1> DEFINE chains == {Elements(sliceq[i]) : i \in 1..Len(sliceq)}
           owners == chains \cup {freed, leaked, Elements(lpcmq), Elements(slice_chain)}
<1>1. Gone \cap Elements(lpcmq) = {}
  BY NotYetGone
<1>2. Passed = UNION chains
  BY DEF Passed
<1>3. ASSUME NEW p \in arrived PROVE \E o \in owners : p \in o
  <2>1. \/ p \in freed \/ p \in leaked \/ p \in Elements(lpcmq)
        \/ p \in Elements(slice_chain) \/ \E c \in chains : p \in c
    BY <1>2, <1>3 DEF Order, Gone
  <2> QED
    BY <2>1
<1>4. ASSUME NEW c1 \in chains, NEW c2 \in chains, c1 # c2 PROVE c1 \cap c2 = {}
  <2>1. PICK i \in 1..Len(sliceq) : c1 = Elements(sliceq[i])
    BY <1>4
  <2>2. PICK j \in 1..Len(sliceq) : c2 = Elements(sliceq[j])
    BY <1>4
  <2> QED
    BY <1>4, <2>1, <2>2 DEF Apart
<1>5. ASSUME NEW c \in chains
      PROVE  c \cap (freed \cup leaked \cup Elements(lpcmq) \cup Elements(slice_chain)) = {}
  <2>1. c \subseteq Passed /\ Passed \subseteq Gone
    BY <1>2, <1>5 DEF Gone
  <2> QED
    BY <1>1, <2>1 DEF Apart
<1>6. /\ freed \cap leaked = {}
      /\ Elements(slice_chain) \cap (freed \cup leaked \cup Elements(lpcmq)) = {}
      /\ (freed \cup leaked) \cap Elements(lpcmq) = {}
  BY <1>1 DEF Apart, Gone
<1> HIDE DEF chains
<1>7. \A o1, o2 \in owners : o1 # o2 => o1 \cap o2 = {}
  BY <1>4, <1>5, <1>6
<1>8. ASSUME NEW i \in 1..Len(sliceq), NEW j \in 1..Len(sliceq), i # j
      PROVE  sliceq[i] # sliceq[j]
  <2>1. /\ sliceq[i][1].slice \in Nat /\ sliceq[j][1].slice \in Nat
        /\ i < j \/ j < i
    BY <1>8, FirstOfChains
  <2> QED
    BY <1>8, <2>1 DEF IInv, SlicesInOrder
<1> QED
  BY <1>3, <1>7, <1>8 DEF OneOwner, chains

------------------------------------------------------------------------------
(***************************************************************************)
(* An intact slice is handed on                                            *)
(***************************************************************************)
Linked(s) ==
    \A p \in Of(s) :
        \/ IsStart(p)
        \/ \E q \in Of(s) : End(q) = p.at /\ Seq16(p) = Seq16(q) + 1

\* The decoder is to meet slice s while it is searching, and has met no gap in it.
Due(s) == (s = 1 \/ EndArrived(s - 1)) /\ Linked(s)

Handed(s) == \E i \in 1..Len(sliceq) : sliceq[i][1].slice = s

\* What becomes of a slice that is due and was begun: it is being chained or was
\* handed on, or its end is missing.
Begun(s) ==
    \/ continue_current_slice /\ slice_chain[1].slice = s
    \/ Handed(s)
    \/ slice > s /\ ~EndArrived(s)

Kept == \A s \in 1..slice : \A p \in Of(s) \cap Gone : Due(s) => Begun(s)

\* What was taken before the last of the chain under way is before it in the stream,
\* and the last datagram of a slice that was taken is of an earlier one.
LEMMA ChainLast ==
  ASSUME IInv, Order, continue_current_slice, NEW last,
         last = slice_chain[Len(slice_chain)]
  PROVE  /\ last \in Packet /\ last.slice = slice_chain[1].slice
         /\ End(last) < PesLen
         /\ \A p \in Gone : p = last \/ Before(p, last)
         /\ \A p \in Gone : End(p) = PesLen => p.slice < last.slice
<1>1. /\ slice_chain # <<>> /\ slice_chain \in Seq(Packet)
      /\ last.slice = slice_chain[1].slice /\ End(last) < PesLen
  BY DEF IInv, TypeOK, Junction
<1>2. last \in Packet /\ Len(slice_chain) \in 1..Len(slice_chain)
  BY <1>1, LastOf
<1>3. last \in Gone /\ Gone \subseteq arrived /\ arrived \subseteq Packet
  BY <1>2 DEF Gone, Elements, Order, IInv, TypeOK
<1>4. ASSUME NEW p \in Gone PROVE p = last \/ Before(p, last)
  <2>1. p.num <= last.num /\ p.num \in Nat /\ last.num \in Nat
    BY <1>2, <1>3, <1>4, PacketParts DEF Order
  <2>2. p.num < last.num \/ p.num = last.num
    BY <2>1
  <2> QED
    BY <1>3, <1>4, <2>2 DEF Order
<1>5. ASSUME NEW p \in Gone, End(p) = PesLen PROVE p.slice < last.slice
  <2>1. p # last
    BY <1>1, <1>2, <1>5, PacketParts
  <2>2. Before(p, last)
    BY <1>4, <1>5, <2>1
  <2>3. /\ p.slice \in Nat /\ last.slice \in Nat /\ last.at \in Nat
        /\ last.at < PesLen /\ PesLen \in Nat
    BY <1>2, <1>3, <1>5, PacketParts
  <2> QED
    BY <1>5, <2>2, <2>3 DEF Before
<1> QED
  BY <1>1, <1>2, <1>4, <1>5

\* What arrived and is not after d in the stream was taken before it.
LEMMA TakenBefore ==
  ASSUME IInv, Order, NEW d \in Packet, Takes(d), NEW q \in arrived, q # d,
         ~Before(d, q)
  PROVE  q \in Gone /\ Before(q, d)
<1>1. d \in Elements(lpcmq) /\ d \in arrived /\ q \in Packet
  BY DEF Takes, Elements, Order, IInv, TypeOK
<1>2. q.num \in Nat /\ d.num \in Nat
  BY <1>1, PacketParts
<1>3. q.num < d.num
  <2>1. q.num # d.num /\ ~(d.num < q.num)
    BY <1>1 DEF Order
  <2> QED
    BY <1>2, <2>1
<1>4. Before(q, d)
  BY <1>1, <1>3 DEF Order
<1>5. q \notin Elements(lpcmq)
  <2> SUFFICES ASSUME NEW i \in 1..Len(lpcmq), q = lpcmq[i] PROVE FALSE
    BY DEF Elements
  <2>1. i # 1 /\ 1 < i /\ 1 \in 1..Len(lpcmq) /\ d = lpcmq[1]
    BY DEF Takes
  <2> QED
    BY <2>1 DEF IInv, Stream
<1> QED
  BY <1>4, <1>5 DEF Order

\* The predecessor of d in a slice without a gap.
LEMMA LinkTaken ==
  ASSUME IInv, Order, NEW d \in Packet, Takes(d), ~IsStart(d), Linked(d.slice)
  PROVE  \E q \in Of(d.slice) \cap Gone :
            End(q) = d.at /\ Seq16(d) = Seq16(q) + 1
<1>1. d \in arrived /\ d \in Of(d.slice)
  BY DEF Takes, Elements, Order, Of
<1>2. PICK q \in Of(d.slice) : End(q) = d.at /\ Seq16(d) = Seq16(q) + 1
  BY <1>1 DEF Linked
<1>3. q \in arrived /\ q \in Packet /\ q.slice = d.slice
  BY DEF Of, IInv, TypeOK
<1>4. /\ d.at \in Nat /\ d.n \in Nat \ {0} /\ q.at \in Nat /\ q.n \in Nat \ {0}
  BY <1>3, PacketParts
<1>5. q # d /\ ~Before(d, q)
  BY <1>2, <1>3, <1>4 DEF Before, End
<1>6. q \in Gone
  BY <1>3, <1>5, TakenBefore
<1> QED
  BY <1>2, <1>6

\* A chained datagram's slice is begun.
LEMMA AddBegins ==
  ASSUME IInv, NEW d \in Packet, Adds(d)
  PROVE  Begun(d.slice)'
<1>1. CASE End(d) = PesLen
  <2>1. /\ Len(sliceq) \in Nat /\ Len(sliceq') = Len(sliceq) + 1
        /\ sliceq'[Len(sliceq) + 1][1].slice = d.slice
    BY <1>1, AddFacts
  <2>2. Len(sliceq) + 1 \in 1..Len(sliceq')
    BY <2>1
  <2> QED
    BY <2>1, <2>2 DEF Begun, Handed
<1>2. CASE End(d) # PesLen
  <2>1. continue_current_slice' /\ slice_chain'[1].slice = d.slice
    BY <1>2, AddFacts
  <2> QED
    BY <2>1 DEF Begun
<1> QED
  BY <1>1, <1>2

LEMMA HandedStays ==
  ASSUME IInv, NEW d \in Packet, Skips(d) \/ Adds(d) \/ Drops(d), NEW s, Handed(s)
  PROVE  Handed(s)'
<1>1. PICK i \in 1..Len(sliceq) : sliceq[i][1].slice = s
  BY DEF Handed
<1>2. CASE sliceq' = sliceq
  BY <1>2 DEF Handed
<1>3. CASE Adds(d) /\ End(d) = PesLen
  <2>1. /\ Len(sliceq) \in Nat /\ Len(sliceq') = Len(sliceq) + 1
        /\ sliceq'[i] = sliceq[i]
    BY <1>3, AddFacts
  <2>2. i \in 1..Len(sliceq')
    BY <2>1
  <2> QED
    BY <1>1, <2>1, <2>2 DEF Handed
<1> QED
  BY <1>2, <1>3, AddFacts DEF Skips, Drops

\* A slice that was begun stays so, whatever is taken.
LEMMA BegunStays ==
  ASSUME IInv, Order, NEW d \in Packet, Takes(d), Skips(d) \/ Adds(d) \/ Drops(d),
         NEW s \in Nat \ {0}, Linked(s), Begun(s)
  PROVE  Begun(s)'
<1>1. UNCHANGED <<slice, arrived>> /\ slice \in Nat
  BY DEF Takes, IInv, TypeOK
<1>2. CASE Handed(s)
  BY <1>2, HandedStays DEF Begun
<1>3. CASE slice > s /\ ~EndArrived(s)
  BY <1>1, <1>3 DEF Begun, EndArrived, Of
<1>4. CASE continue_current_slice /\ slice_chain[1].slice = s
  <2> PICK last : last = slice_chain[Len(slice_chain)]
    OBVIOUS
  <2>1. /\ last \in Packet /\ last.slice = s /\ Before(last, d)
        /\ \A p \in Gone : p = last \/ Before(p, last)
        /\ \A p \in Gone : End(p) = PesLen => p.slice < last.slice
    BY <1>4, ChainLast DEF Takes
  <2>2. /\ d.slice \in Nat /\ d.at \in Nat /\ d.n \in Nat \ {0}
        /\ last.at \in Nat /\ last.n \in Nat \ {0} /\ d.slice >= s
        /\ s \in Nat
    BY <2>1, PacketParts DEF Before
  <2>3. CASE Skips(d)
    BY <1>4, <2>3 DEF Skips
  <2>4. CASE Adds(d) /\ d.slice = s
    BY <2>4, AddBegins
  <2>5. CASE Adds(d) /\ d.slice # s
    <3>1. Append(slice_chain, d)[1] = slice_chain[1]
      <4>1. slice_chain \in Seq(Packet) /\ slice_chain # <<>>
        BY <1>4 DEF IInv, TypeOK, Junction
      <4> QED
        BY <4>1, Appended, HeadTail
    <3> QED
      BY <1>4, <2>5, <3>1 DEF Adds
  <2>6. CASE Drops(d) /\ d.slice = s
    <3>1. ~IsStart(d)
      BY <2>1, <2>2, <2>6 DEF Before, IsStart, End
    <3>2. PICK q \in Of(s) \cap Gone : End(q) = d.at /\ Seq16(d) = Seq16(q) + 1
      BY <2>6, <3>1, LinkTaken
    <3>3. q \in Packet /\ q.slice = s
      BY DEF Of, IInv, TypeOK
    <3>4. q # last
      BY <2>6, <3>2 DEF Drops
    <3>5. Before(q, last)
      BY <2>1, <3>4
    <3>6. End(q) <= last.at /\ End(last) <= d.at
      BY <2>1, <2>6, <3>3, <3>5 DEF Before
    <3> QED
      BY <2>2, <3>2, <3>6 DEF End
  <2>7. CASE Drops(d) /\ d.slice # s
    <3>1. slice > s
      <4>1. d.slice <= slice
        BY DEF Takes, Sent
      <4> QED
        BY <1>1, <2>2, <2>7, <4>1
    <3>2. ~EndArrived(s)
      <4> SUFFICES ASSUME NEW e \in Of(s), End(e) = PesLen PROVE FALSE
        BY DEF EndArrived
      <4>1. e \in arrived /\ e \in Packet /\ e.slice = s
        BY DEF Of, IInv, TypeOK
      <4>2. e # d /\ ~Before(d, e)
        BY <2>2, <2>7, <4>1 DEF Before
      <4>3. e \in Gone
        BY <4>1, <4>2, TakenBefore
      <4>4. e.slice < last.slice
        BY <2>1, <4>3
      <4> QED
        BY <2>1, <2>2, <4>1, <4>4
    <3> QED
      BY <1>1, <3>1, <3>2 DEF Begun, EndArrived, Of
  <2> QED
    BY <2>3, <2>4, <2>5, <2>6, <2>7
<1> QED
  BY <1>2, <1>3, <1>4 DEF Begun

\* The decoder is searching when it meets the start of a slice that is due.
LEMMA StartMet ==
  ASSUME IInv, Order, NEW d \in Packet, Takes(d), IsStart(d), Due(d.slice)
  PROVE  ~continue_current_slice
<1> SUFFICES ASSUME continue_current_slice PROVE FALSE
  OBVIOUS
<1> PICK last : last = slice_chain[Len(slice_chain)]
  OBVIOUS
<1>1. /\ last \in Packet /\ Before(last, d)
      /\ \A p \in Gone : End(p) = PesLen => p.slice < last.slice
  BY ChainLast DEF Takes
<1>2. /\ d.slice \in Nat \ {0} /\ last.slice \in Nat \ {0} /\ d.at = 0
      /\ last.at \in Nat /\ last.n \in Nat \ {0}
  BY <1>1, PacketParts DEF IsStart
<1>3. last.slice < d.slice
  BY <1>1, <1>2 DEF Before, End
<1>4. d.slice # 1
  BY <1>2, <1>3
<1>5. PICK e \in Of(d.slice - 1) : End(e) = PesLen
  BY <1>4 DEF Due, EndArrived
<1>6. e \in arrived /\ e \in Packet /\ e.slice = d.slice - 1
  BY DEF Of, IInv, TypeOK
<1>7. e # d /\ ~Before(d, e)
  BY <1>2, <1>6 DEF Before
<1>8. e \in Gone
  BY <1>6, <1>7, TakenBefore
<1>9. e.slice < last.slice
  BY <1>1, <1>5, <1>8
<1> QED
  BY <1>2, <1>3, <1>6, <1>9

LEMMA KeptTake ==
  ASSUME IInv, Order, Kept, NEW d \in Packet, Takes(d),
         Skips(d) \/ Adds(d) \/ Drops(d)
  PROVE  Kept'
<1>1. UNCHANGED <<slice, arrived>> /\ slice \in Nat
  BY DEF Takes, IInv, TypeOK
<1>2. Gone' = Gone \cup {d}
  BY GoneGrows
<1>3. ASSUME NEW s \in 1..slice, NEW p \in Of(s) \cap Gone, Due(s)
      PROVE  Begun(s)'
  <2>1. Begun(s) /\ Linked(s) /\ s \in Nat \ {0}
    BY <1>3 DEF Kept, Due
  <2> QED
    BY <2>1, BegunStays
<1>4. ASSUME d.slice \in 1..slice, Due(d.slice)
      PROVE  Begun(d.slice)'
  <2>1. CASE IsStart(d)
    <3>1. Adds(d)
      BY <1>4, <2>1, StartMet DEF Skips, Drops
    <3> QED
      BY <3>1, AddBegins
  <2>2. CASE ~IsStart(d)
    <3>1. PICK q \in Of(d.slice) \cap Gone : End(q) = d.at
      BY <1>4, <2>2, LinkTaken DEF Due
    <3> QED
      BY <1>3, <1>4, <3>1
  <2> QED
    BY <2>1, <2>2
<1>5. ASSUME NEW s \in 1..slice, NEW p \in Of(s) \cap Gone', Due(s)
      PROVE  Begun(s)'
  <2>1. CASE p \in Gone
    BY <1>3, <1>5, <2>1
  <2>2. CASE p = d
    <3>1. d.slice = s
      BY <1>5, <2>2 DEF Of
    <3> QED
      BY <1>4, <1>5, <3>1
  <2> QED
    BY <1>2, <1>5, <2>1, <2>2
<1>6. ASSUME NEW s PROVE Of(s)' = Of(s) /\ Due(s)' = Due(s)
  BY <1>1 DEF Of, Due, EndArrived, Linked
<1> QED
  BY <1>1, <1>5, <1>6 DEF Kept

LEMMA KeptSend ==
  ASSUME IInv, Order, Kept, NEW p \in Packet, Sends(p)
  PROVE  Kept'
<1>1. /\ UNCHANGED <<continue_current_slice, slice_chain, sliceq, freed, leaked>>
      /\ slice \in Nat /\ slice' \in slice..(slice + 1)
      /\ p.slice = slice'
      /\ arrived \subseteq arrived' /\ arrived' \subseteq arrived \cup {p}
      /\ arrived \subseteq Packet
  BY DEF Sends, IInv, TypeOK
<1>2. Gone' = Gone /\ Gone \subseteq arrived
  BY <1>1 DEF Gone, Passed, Elements, Order
<1>3. ASSUME NEW q \in arrived PROVE q \in Packet /\ Before(q, p) /\ q.slice <= slice
  BY <1>1, <1>3 DEF Order, Sends, Sent
<1>4. ASSUME NEW s \in 1..slice', NEW q \in Of(s)' \cap Gone, Due(s)'
      PROVE  Begun(s)'
  <2>1. /\ q \in arrived /\ q.slice = s /\ q \in Of(s) /\ s \in 1..slice
    BY <1>1, <1>2, <1>3, <1>4 DEF Of
  <2>2. ASSUME NEW t \in Nat, t < s, EndArrived(t)' PROVE EndArrived(t)
    BY <1>1, <2>1, <2>2 DEF EndArrived, Of
  <2>3. Linked(s)
    <3> SUFFICES ASSUME NEW x \in Of(s), ~IsStart(x)
                 PROVE  \E y \in Of(s) : End(y) = x.at /\ Seq16(x) = Seq16(y) + 1
      BY DEF Linked
    <3>1. x \in Of(s)' /\ x \in arrived /\ x.slice = s
      BY <1>1 DEF Of
    <3>2. PICK y \in Of(s)' : End(y) = x.at /\ Seq16(x) = Seq16(y) + 1
      BY <1>4, <3>1 DEF Due, Linked
    <3>3. y # p
      <4> SUFFICES ASSUME y = p PROVE FALSE
        OBVIOUS
      <4>1. Before(x, p) /\ p.slice = s
        BY <1>3, <3>1 DEF Of
      <4>2. End(x) <= p.at /\ x.at \in Nat /\ x.n \in Nat \ {0} /\ p.at \in Nat
            /\ p.n \in Nat \ {0} /\ x \in Packet
        BY <1>3, <3>1, <4>1, PacketParts DEF Before
      <4> QED
        BY <3>2, <4>2 DEF End
    <3>4. y \in Of(s)
      BY <1>1, <3>3 DEF Of
    <3> QED
      BY <3>2, <3>4
  <2>4. Due(s)
    <3>1. s - 1 \in Nat /\ s - 1 < s
      BY <2>1
    <3>2. s = 1 \/ EndArrived(s - 1)'
      BY <1>4 DEF Due
    <3> QED
      BY <2>2, <2>3, <3>1, <3>2 DEF Due
  <2>5. Begun(s)
    BY <1>4, <2>1, <2>4 DEF Kept
  <2>6. ASSUME slice > s, ~EndArrived(s) PROVE slice' > s /\ ~EndArrived(s)'
    <3>1. p.slice > s
      BY <1>1, <2>1, <2>6
    <3> QED
      BY <1>1, <2>1, <2>6, <3>1 DEF EndArrived, Of
  <2> QED
    BY <1>1, <2>5, <2>6 DEF Begun, Handed
<1> QED
  BY <1>2, <1>4 DEF Kept

LEMMA IntactDelivered ==
  ASSUME IInv, Order, Kept
  PROVE  IntactSliceDelivered
<1> SUFFICES ASSUME NEW s \in 1..slice, Intact(s), s > 1 => EndArrived(s - 1),
                    \A i \in 1..Len(lpcmq) : lpcmq[i].slice # s
             PROVE  \E i \in 1..Len(sliceq) : sliceq[i][1].slice = s
  BY DEF IntactSliceDelivered
<1>1. PICK e \in Of(s) : End(e) = PesLen
  BY DEF Intact, EndArrived
<1>2. e \in arrived /\ e.slice = s
  BY DEF Of
<1>3. e \in Gone
  BY <1>2 DEF Order, Elements
<1>4. Due(s)
  <2>1. s = 1 \/ s > 1
    BY DEF IInv, TypeOK
  <2> QED
    BY <2>1 DEF Due, Linked, Intact
<1>5. Begun(s)
  BY <1>3, <1>4 DEF Kept
<1>6. ~(continue_current_slice /\ slice_chain[1].slice = s)
  <2> SUFFICES ASSUME continue_current_slice, slice_chain[1].slice = s PROVE FALSE
    OBVIOUS
  <2> PICK last : last = slice_chain[Len(slice_chain)]
    OBVIOUS
  <2>1. last.slice = s /\ e.slice < last.slice
    BY <1>1, <1>3, ChainLast
  <2>2. s \in Nat
    BY DEF IInv, TypeOK
  <2> QED
    BY <1>2, <2>1, <2>2
<1>7. EndArrived(s)
  BY DEF Intact
<1> QED
  BY <1>5, <1>6, <1>7 DEF Begun, Handed

------------------------------------------------------------------------------
(***************************************************************************)
(* All of it together                                                      *)
(***************************************************************************)
Whole == IInv /\ Order /\ Apart /\ Kept

LEMMA WholeInit == Init => Whole
<1> SUFFICES ASSUME Init PROVE Whole
  OBVIOUS
<1>1. IInv
  BY InitInv
<1>2. /\ sliceq = <<>> /\ lpcmq = <<>> /\ slice_chain = <<>> /\ slice = 0
      /\ freed = {} /\ leaked = {} /\ arrived = {} /\ ~continue_current_slice
      /\ Len(sliceq) = 0 /\ Len(lpcmq) = 0 /\ Len(slice_chain) = 0
  BY EmptySeq DEF Init
<1>3. 1..0 = {}
  OBVIOUS
<1>4. Passed = {} /\ Elements(slice_chain) = {} /\ Elements(lpcmq) = {} /\ Gone = {}
  BY <1>2, <1>3 DEF Passed, Elements, Gone
<1>5. Order /\ Apart
  BY <1>2, <1>3, <1>4 DEF Order, Apart
<1>6. Kept
  BY <1>2, <1>3 DEF Kept
<1> QED
  BY <1>1, <1>5, <1>6 DEF Whole

LEMMA WholeStep == Whole /\ [Next]_vars => Whole'
<1> SUFFICES ASSUME Whole, [Next]_vars PROVE Whole'
  OBVIOUS
<1>1. IInv'
  BY StepInv DEF Whole
<1>2. CASE UNCHANGED vars \/ SendVideo
  <2>1. /\ UNCHANGED <<slice, units, arrived, lpcmq, continue_current_slice,
                       slice_chain, sliceq, freed, leaked>>
        /\ sent \in Nat /\ sent' \in {sent, sent + 1} /\ arrived \subseteq Packet
    BY <1>2 DEF vars, source, decoder, SendVideo, Whole, IInv, TypeOK
  <2>2. Gone' = Gone
    BY <2>1 DEF Gone, Passed, Elements
  <2>3. ASSUME NEW p \in arrived PROVE Sent(p)'
    <3>1. Sent(p) /\ p.num \in Nat
      BY <2>1, <2>3, PacketParts DEF Whole, Order
    <3> QED
      BY <2>1, <3>1 DEF Sent
  <2>4. Order'
    BY <2>1, <2>2, <2>3 DEF Whole, Order, Elements, Sent
  <2>5. Apart'
    BY <2>1, ApartStays DEF Whole
  <2>6. Kept'
    BY <2>1, <2>2 DEF Whole, Kept, Of, Due, Linked, EndArrived, Begun, Handed
  <2> QED
    BY <1>1, <2>4, <2>5, <2>6 DEF Whole
<1>3. CASE \E n \in 1..PesLen : SendAudio(n)
  <2>1. PICK p \in Packet : Sends(p)
    BY <1>3, Sending DEF Whole
  <2>2. UNCHANGED <<slice_chain, sliceq, freed, leaked>>
    BY <2>1 DEF Sends
  <2> QED
    BY <1>1, <2>1, <2>2, OrderSend, ApartStays, KeptSend DEF Whole
<1>4. CASE Decode
  <2>1. PICK d \in Packet : Takes(d) /\ (Skips(d) \/ Adds(d) \/ Drops(d))
    BY <1>4, Decoding DEF Whole
  <2> QED
    BY <1>1, <2>1, OrderTake, ApartTake, KeptTake DEF Whole
<1> QED
  BY <1>2, <1>3, <1>4 DEF Next

\* The invariant of what follows: the order of the stream, who holds what, and what
\* becomes of every slice that is due.
THEOREM Wholeness == Spec => []Whole
BY WholeInit, WholeStep, PTL DEF Spec

\* A datagram that arrived is in one place: what waits in the queue was sent later
\* than all that was taken (sx_mgmt_audio_decoder.c:189-242).
THEOREM OneOwnerCorrect == Spec => []OneOwner
<1>1. Whole => OneOwner
  BY ApartOwner DEF Whole
<1> QED
  BY <1>1, Wholeness, PTL

\* An intact slice is handed on if the end of the slice before arrived
\* (sx_mgmt_audio_decoder.c:285-312).
THEOREM IntactSliceDeliveredCorrect == Spec => []IntactSliceDelivered
<1>1. Whole => IntactSliceDelivered
  BY IntactDelivered DEF Whole
<1> QED
  BY <1>1, Wholeness, PTL
=============================================================================
