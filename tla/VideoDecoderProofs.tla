-------------------------- MODULE VideoDecoderProofs --------------------------
(***************************************************************************)
(* The video decoder for any number of slices and datagrams of any size:   *)
(* as long as fewer TS packets are lost in a row than a continuity counter *)
(* has values, comparing counters is as good as comparing positions in the *)
(* stream, and every chain is the unbroken beginning of one slice.  The    *)
(* second half follows every datagram: what is missing was lost, what was  *)
(* taken is held in one place, and a slice without a loss is handed on.    *)
(***************************************************************************)
EXTENDS VideoDecoder, ProofLemmas

End(p) == p.ts + p.n

\* q may come after p in the VIDEO_PKT queue: not many TS packets are missing
\* in between, and with none missing q goes on with p's slice or starts one.
Follows(p, q) ==
    /\ End(p) <= q.ts
    /\ q.ts <= End(p) + MaxGap
    /\ q.ts = End(p) /\ ~q.start => q.slice = p.slice

\* p is the last datagram that arrived.
Latest(p) ==
    /\ End(p) + gap = sent
    /\ gap = 0 => p.slice = Len(begin)

\* The queue, and the chain under way before it, hold the stream in order.
Stream ==
    /\ gap <= MaxGap
    /\ datagrams # 0 => Len(begin) # 0
    /\ \A i \in 1..(Len(pktq) - 1) : Follows(pktq[i], pktq[i + 1])
    /\ pktq # <<>> => Latest(pktq[Len(pktq)])

Junction ==
    ~look_for_new_slice =>
        /\ slice_chain # <<>>
        /\ last_cc = CCEnd(slice_chain[Len(slice_chain)])
        /\ pktq # <<>> => Follows(slice_chain[Len(slice_chain)], pktq[1])
        /\ pktq = <<>> => Latest(slice_chain[Len(slice_chain)])

IInv ==
    /\ TypeOK
    /\ Stream
    /\ Junction
    /\ ChainsUnbroken

------------------------------------------------------------------------------
\* The test of the decoder on two datagrams that follow one another in the queue
\* tells whether one ends where the other begins.
LEMMA CountersTell ==
  ASSUME NEW p \in Packet, NEW q \in Packet, Follows(p, q),
         (CCEnd(p) + 1) % CCMod = CCStart(q)
  PROVE  q.ts = End(p)
<1>1. /\ p.ts \in Nat /\ p.n \in Nat /\ q.ts \in Nat
      /\ CCMod \in Nat \ {0} /\ MaxGap \in Nat /\ MaxGap < CCMod
  BY DecoderAssumption DEF Packet
<1>2. End(p) - 1 \in Int /\ End(p) \in Int /\ (End(p) - 1) + 1 = End(p)
  BY <1>1 DEF End
<1>3. CCEnd(p) = (End(p) - 1) % CCMod
  BY <1>1 DEF CCEnd, End
<1>4. (CCEnd(p) + 1) % CCMod = End(p) % CCMod
  BY <1>1, <1>2, <1>3, Successor
<1>5. End(p) % CCMod = q.ts % CCMod
  BY <1>4 DEF CCStart
<1>6. End(p) <= q.ts /\ q.ts < End(p) + CCMod
  BY <1>1, <1>2 DEF Follows
<1> QED
  BY <1>1, <1>2, <1>5, <1>6, SameResidue

------------------------------------------------------------------------------
LEMMA InitInv == Init => IInv
<1> SUFFICES ASSUME Init PROVE IInv
  OBVIOUS
<1>1. /\ <<>> \in Seq(Nat) /\ <<>> \in Seq(Packet)
      /\ <<>> \in Seq([timestamp : Nat, chain : Seq(Packet)])
      /\ 0 \in 0..(CCMod - 1)
  BY EmptySeq, DecoderAssumption
<1>2. TypeOK
  BY <1>1 DEF Init, TypeOK
<1>3. Stream /\ Junction /\ ChainsUnbroken
  BY EmptySeq, DecoderAssumption DEF Init, Stream, Junction, ChainsUnbroken
<1> QED
  BY <1>2, <1>3 DEF IInv

\* What the source sends next may come after the last datagram that arrived.
LEMMA NextFollows ==
  ASSUME IInv, NEW p \in Packet, NEW q \in Packet, Latest(p),
         q.ts = sent, ~q.start => q.slice = Len(begin)
  PROVE  Follows(p, q)
<1>1. p.ts \in Nat /\ p.n \in Nat /\ sent \in Nat /\ gap \in Nat /\ MaxGap \in Nat
  BY DecoderAssumption DEF Packet, IInv, TypeOK
<1> QED
  BY <1>1 DEF Follows, Latest, End, IInv, Stream

\* The way of a datagram to the queue.  b is begin after it was sent.
LEMMA Arrival ==
  ASSUME IInv, NEW p \in Packet, Deliver(p) \/ Lose(p),
         p.ts = sent, ~p.start => p.slice = Len(begin),
         p.slice = Len(begin'), Len(begin') # 0,
         begin' = begin \/ p.start,
         begin' \in Seq(Nat), datagrams' \in Nat, sent' = sent + p.n,
         UNCHANGED <<decoder, sliceq, freed, leaked>>
  PROVE  IInv'
<1> USE DEF IInv
<1>1. /\ p.n \in Nat \ {0} /\ p.ts \in Nat /\ sent \in Nat /\ gap \in Nat
      /\ MaxGap \in Nat
  BY DecoderAssumption DEF Packet, TypeOK
<1>2. /\ UNCHANGED <<look_for_new_slice, last_cc, slice_pkt_count, slice_pts_ms,
                     slice_count, slice_chain, sliceq, freed, leaked>>
      /\ sent' \in Nat
  BY <1>1 DEF decoder
<1>5. ChainsUnbroken'
  BY <1>2 DEF ChainsUnbroken
<1>3. CASE Deliver(p)
  <2>1. /\ pktq' \in Seq(Packet) /\ pktq' # <<>>
        /\ Len(pktq) \in Nat /\ Len(pktq') = Len(pktq) + 1
        /\ pktq'[Len(pktq) + 1] = p
        /\ \A i \in 1..Len(pktq) : pktq'[i] = pktq[i]
    BY <1>3, Appended DEF Deliver, TypeOK
  <2>2. gap' = 0 /\ lost' = lost
    BY <1>3 DEF Deliver
  <2>3. TypeOK'
    BY <1>2, <2>1, <2>2 DEF TypeOK
  <2>4. Latest(p)'
    BY <1>1, <2>2 DEF Latest, End
  <2>5. ASSUME pktq # <<>> PROVE Follows(pktq[Len(pktq)], p)
    <3>1. pktq[Len(pktq)] \in Packet /\ Latest(pktq[Len(pktq)])
      BY <2>5, LastOf DEF TypeOK, Stream
    <3> QED
      BY <3>1, NextFollows
  <2>6. \A i \in 1..(Len(pktq') - 1) : Follows(pktq'[i], pktq'[i + 1])
    <3>1. TAKE i \in 1..(Len(pktq') - 1)
    <3>2. CASE i < Len(pktq)
      <4>1. i \in 1..(Len(pktq) - 1) /\ i \in 1..Len(pktq) /\ i + 1 \in 1..Len(pktq)
        BY <2>1, <3>1, <3>2
      <4>2. pktq'[i] = pktq[i] /\ pktq'[i + 1] = pktq[i + 1]
        BY <2>1, <4>1
      <4> QED
        BY <4>1, <4>2 DEF Stream
    <3>3. CASE i = Len(pktq)
      <4>1. pktq # <<>>
        BY <2>1, <3>1, <3>3, EmptySeq
      <4> QED
        BY <2>1, <2>5, <3>3, <4>1
    <3> QED
      BY <2>1, <3>1, <3>2, <3>3
  <2>7. Stream'
    BY <1>1, <2>1, <2>2, <2>4, <2>6 DEF Stream
  <2>8. Junction'
    <3> SUFFICES ASSUME ~look_for_new_slice
                 PROVE  Follows(slice_chain[Len(slice_chain)], pktq'[1])
      BY <1>2, <2>1 DEF Junction
    <3>1. slice_chain # <<>> /\ slice_chain[Len(slice_chain)] \in Packet
      BY LastOf DEF Junction, TypeOK
    <3>2. CASE pktq = <<>>
      <4>1. pktq'[1] = p
        BY <2>1, <3>2, EmptySeq
      <4> QED
        BY <3>1, <3>2, <4>1, NextFollows DEF Junction
    <3>3. CASE pktq # <<>>
      <4>1. pktq'[1] = pktq[1]
        BY <2>1, <3>3, LastOf DEF TypeOK
      <4> QED
        BY <3>3, <4>1 DEF Junction
    <3> QED
      BY <3>2, <3>3
  <2> QED
    BY <1>5, <2>3, <2>7, <2>8
<1>4. CASE Lose(p)
  <2>1. /\ gap' = gap + p.n /\ gap' <= MaxGap /\ gap' # 0
        /\ lost' = lost \cup {p} /\ pktq' = pktq
    BY <1>1, <1>4 DEF Lose
  <2>2. TypeOK'
    <3>1. gap' \in Nat
      BY <1>1, <2>1
    <3>2. lost' \subseteq Packet
      <4>1. lost \subseteq Packet
        BY DEF TypeOK
      <4> QED
        BY <2>1, <4>1
    <3> QED
      BY <1>2, <2>1, <3>1, <3>2 DEF TypeOK
  <2>3. ASSUME NEW q \in Packet, Latest(q) PROVE Latest(q)'
    BY <1>1, <2>1, <2>3 DEF Latest, End, Packet
  <2>4. Stream'
    BY <2>1, <2>3, LastOf DEF Stream, TypeOK
  <2>5. Junction'
    BY <1>2, <2>1, <2>3, LastOf DEF Junction, TypeOK
  <2> QED
    BY <1>5, <2>2, <2>4, <2>5
<1> QED
  BY <1>3, <1>4

LEMMA SendInv ==
  ASSUME IInv, NEW n \in 1..MaxTs, SendStart(n) \/ SendMore(n)
  PROVE  IInv'
<1>1. MaxTs \in Nat /\ sent \in Nat /\ begin \in Seq(Nat) /\ Len(begin) \in Nat
  BY DecoderAssumption, LenProperties DEF IInv, TypeOK
<1>2. CASE SendStart(n)
  <2> DEFINE p == [slice |-> Len(begin) + 1, start |-> TRUE, ts |-> sent, n |-> n]
  <2>1. p \in Packet
    BY <1>1 DEF Packet
  <2>2. begin' \in Seq(Nat) /\ Len(begin') = Len(begin) + 1
    BY <1>1, <1>2, Appended DEF SendStart
  <2>3. /\ Deliver(p) \/ Lose(p)
        /\ sent' = sent + n /\ datagrams' = 1
        /\ UNCHANGED <<decoder, sliceq, freed, leaked>>
    BY <1>2 DEF SendStart
  <2>4. /\ p.ts = sent /\ p.start /\ p.n = n /\ p.slice = Len(begin')
    BY <2>2
  <2> HIDE DEF p
  <2> QED
    BY <1>1, <2>1, <2>2, <2>3, <2>4, Arrival
<1>3. CASE SendMore(n)
  <2> DEFINE p == [slice |-> Len(begin), start |-> FALSE, ts |-> sent, n |-> n]
  <2>1. /\ Deliver(p) \/ Lose(p)
        /\ sent' = sent + n /\ begin' = begin /\ datagrams' \in Nat
        /\ datagrams # 0
        /\ UNCHANGED <<decoder, sliceq, freed, leaked>>
    BY <1>3, DecoderAssumption DEF SendMore, IInv, TypeOK
  <2>2. Len(begin) # 0
    BY <2>1 DEF IInv, Stream
  <2>3. p \in Packet
    BY <1>1, <2>2 DEF Packet
  <2>4. /\ p.ts = sent /\ p.n = n /\ p.slice = Len(begin)
    OBVIOUS
  <2> HIDE DEF p
  <2> QED
    BY <1>1, <2>1, <2>2, <2>3, <2>4, Arrival
<1> QED
  BY <1>2, <1>3

------------------------------------------------------------------------------
(***************************************************************************)
(* The decoder.  Taking a datagram off the queue keeps the order of what   *)
(* is left, and brings the datagram to the junction.                       *)
(***************************************************************************)
LEMMA PullKeeps ==
  ASSUME IInv, Pull, UNCHANGED source, NEW d, d = desc
  PROVE  /\ d \in Packet
         /\ pktq' \in Seq(Packet)
         /\ Stream'
         /\ pktq' # <<>> => Follows(d, pktq'[1])
         /\ pktq' = <<>> => Latest(d)'
         /\ ~look_for_new_slice => Follows(slice_chain[Len(slice_chain)], d)
<1> USE DEF IInv
<1>1. /\ pktq \in Seq(Packet) /\ pktq # <<>> /\ pktq' = Tail(pktq)
      /\ sent' = sent /\ begin' = begin /\ gap' = gap /\ datagrams' = datagrams
  BY DEF Pull, TypeOK, source
<1>2. /\ d \in Packet /\ d = pktq[1]
      /\ pktq' \in Seq(Packet)
      /\ Len(pktq) \in Nat \ {0}
      /\ Len(pktq') = Len(pktq) - 1
      /\ \A i \in 1..Len(pktq') : pktq'[i] = pktq[i + 1]
  BY <1>1, HeadTail DEF desc
<1>3. \A q : Latest(q)' <=> Latest(q)
  BY <1>1 DEF Latest
<1>4. ASSUME pktq' # <<>> PROVE Len(pktq') \in Nat \ {0}
  BY <1>2, <1>4, HeadTail
<1>5. ASSUME pktq' # <<>>
      PROVE  /\ Follows(d, pktq'[1])
             /\ Latest(pktq[Len(pktq)])'
  <2>1. Len(pktq') \in Nat \ {0}
    BY <1>4, <1>5
  <2>2. 1 \in 1..(Len(pktq) - 1) /\ pktq'[1] = pktq[2]
    BY <1>2, <2>1
  <2>3. pktq'[Len(pktq')] = pktq[Len(pktq)]
    BY <1>2, <2>1
  <2> QED
    BY <1>1, <1>2, <1>3, <2>2, <2>3 DEF Stream
<1>6. ASSUME NEW i \in 1..(Len(pktq') - 1)
      PROVE  Follows(pktq'[i], pktq'[i + 1])
  <2>1. i + 1 \in 1..(Len(pktq) - 1)
    BY <1>2
  <2>2. pktq'[i] = pktq[i + 1] /\ pktq'[i + 1] = pktq[(i + 1) + 1]
    BY <1>2
  <2> QED
    BY <2>1, <2>2 DEF Stream
<1>7. Stream'
  BY <1>1, <1>5, <1>6 DEF Stream
<1>8. ASSUME pktq' = <<>> PROVE Latest(d)'
  <2>1. Len(pktq) = 1
    BY <1>2, <1>8
  <2> QED
    BY <1>1, <1>2, <1>3, <2>1 DEF Stream
<1>9. ASSUME ~look_for_new_slice PROVE Follows(slice_chain[Len(slice_chain)], d)
  BY <1>1, <1>2, <1>9 DEF Junction
<1> QED
  BY <1>2, <1>5, <1>7, <1>8, <1>9

LEMMA SkipInv ==
  ASSUME IInv, Skip
  PROVE  IInv'
<1> USE DEF IInv
<1> PICK d : d = desc
  OBVIOUS
<1>1. /\ look_for_new_slice /\ leaked' = leaked \cup {d}
      /\ UNCHANGED <<sent, begin, datagrams, gap, lost, look_for_new_slice, last_cc,
                     slice_pkt_count, slice_pts_ms, slice_count, slice_chain,
                     sliceq, freed>>
      /\ Pull /\ UNCHANGED source
  BY DEF Skip, source, decoder
<1>2. d \in Packet /\ pktq' \in Seq(Packet) /\ Stream'
  BY <1>1, PullKeeps
<1>3. leaked' \subseteq Packet
  <2>1. leaked \subseteq Packet
    BY DEF TypeOK
  <2> QED
    BY <1>1, <1>2, <2>1
<1>4. TypeOK'
  BY <1>1, <1>2, <1>3 DEF TypeOK
<1>5. Junction' /\ ChainsUnbroken'
  BY <1>1 DEF Junction, ChainsUnbroken
<1> QED
  BY <1>2, <1>4, <1>5

LEMMA CCEndType ==
  ASSUME NEW p \in Packet
  PROVE  CCEnd(p) \in 0..(CCMod - 1)
<1>1. p.ts + p.n - 1 \in Int /\ CCMod \in Nat \ {0}
  BY DecoderAssumption DEF Packet
<1> QED
  BY <1>1, DivMod DEF CCEnd

LEMMA StartSliceInv ==
  ASSUME IInv, StartSlice
  PROVE  IInv'
<1> USE DEF IInv
<1> PICK d : d = desc
  OBVIOUS
<1>1. /\ d.start /\ look_for_new_slice' = FALSE
      /\ slice_chain' = <<d>> /\ slice_pkt_count' = 1
      /\ slice_count' = slice_count + 1 /\ last_cc' = CCEnd(d)
      /\ UNCHANGED <<sent, begin, datagrams, gap, lost, freed, leaked>>
      /\ Pull /\ UNCHANGED source
  BY DEF StartSlice, source
<1>2. /\ d \in Packet /\ pktq' \in Seq(Packet) /\ Stream'
      /\ pktq' # <<>> => Follows(d, pktq'[1])
      /\ pktq' = <<>> => Latest(d)'
  BY <1>1, PullKeeps
<1>3. /\ slice_chain' \in Seq(Packet) /\ slice_chain' # <<>>
      /\ Len(slice_chain') = 1 /\ slice_chain'[1] = d
  BY <1>1, <1>2, Single
<1>4. slice_pts_ms' \in Nat
  BY <1>2 DEF StartSlice, TypeOK, Packet
<1>5. \/ sliceq' = sliceq
      \/ /\ slice_chain # <<>>
         /\ sliceq' = Append(sliceq, [timestamp |-> slice_pts_ms,
                                      chain |-> slice_chain])
  BY EmptySeq DEF StartSlice, Dump, ChainsUnbroken
<1>6. /\ sliceq' \in Seq([timestamp : Nat, chain : Seq(Packet)])
      /\ \A i \in 1..Len(sliceq') :
            sliceq'[i].chain # <<>> /\ UnbrokenPrefix(sliceq'[i].chain)
  <2>1. CASE sliceq' = sliceq
    BY <2>1 DEF TypeOK, ChainsUnbroken
  <2>2. CASE /\ slice_chain # <<>>
             /\ sliceq' = Append(sliceq, [timestamp |-> slice_pts_ms,
                                          chain |-> slice_chain])
    <3> DEFINE s == [timestamp |-> slice_pts_ms, chain |-> slice_chain]
    <3>1. s \in [timestamp : Nat, chain : Seq(Packet)] /\ s.chain = slice_chain
      BY DEF TypeOK
    <3>2. UnbrokenPrefix(slice_chain)
      BY <2>2 DEF ChainsUnbroken
    <3> HIDE DEF s
    <3>3. /\ sliceq' \in Seq([timestamp : Nat, chain : Seq(Packet)])
          /\ Len(sliceq) \in Nat /\ Len(sliceq') = Len(sliceq) + 1
          /\ sliceq'[Len(sliceq) + 1] = s
          /\ \A i \in 1..Len(sliceq) : sliceq'[i] = sliceq[i]
      BY <2>2, <3>1, Appended DEF TypeOK, s
    <3>4. ASSUME NEW i \in 1..Len(sliceq')
          PROVE  sliceq'[i].chain # <<>> /\ UnbrokenPrefix(sliceq'[i].chain)
      <4>1. CASE i \in 1..Len(sliceq)
        BY <3>3, <4>1 DEF ChainsUnbroken
      <4>2. CASE i = Len(sliceq) + 1
        BY <2>2, <3>1, <3>2, <3>3, <4>2
      <4> QED
        BY <3>3, <4>1, <4>2
    <3> QED
      BY <3>3, <3>4
  <2> QED
    BY <1>5, <2>1, <2>2
<1>7. UnbrokenPrefix(slice_chain')
  BY <1>1, <1>3 DEF UnbrokenPrefix
<1>8. TypeOK'
  <2>1. last_cc' \in 0..(CCMod - 1)
    BY <1>1, <1>2, CCEndType
  <2>2. slice_count' \in Nat /\ slice_pkt_count' \in Nat
    BY <1>1 DEF TypeOK
  <2> QED
    BY <1>1, <1>2, <1>3, <1>4, <1>6, <2>1, <2>2 DEF TypeOK
<1>9. Junction'
  <2>1. slice_chain'[Len(slice_chain')] = d
    BY <1>1, <1>3
  <2> QED
    BY <1>1, <1>2, <1>3, <2>1 DEF Junction
<1>10. ChainsUnbroken'
  BY <1>1, <1>3, <1>6, <1>7 DEF ChainsUnbroken
<1> QED
  BY <1>2, <1>8, <1>9, <1>10

\* The datagram passes the test of the counters, so it continues the chain.
LEMMA ExtendInv ==
  ASSUME IInv, Extend
  PROVE  IInv'
<1> USE DEF IInv
<1> PICK d : d = desc
  OBVIOUS
<1> DEFINE last == slice_chain[Len(slice_chain)]
<1>1. /\ ~look_for_new_slice /\ ~d.start /\ Continuous
      /\ slice_chain' = Append(slice_chain, d)
      /\ slice_pkt_count' = slice_pkt_count + 1 /\ last_cc' = CCEnd(d)
      /\ UNCHANGED <<sent, begin, datagrams, gap, lost, look_for_new_slice,
                     slice_pts_ms, slice_count, sliceq, freed, leaked>>
      /\ Pull /\ UNCHANGED source
  BY DEF Extend, source
<1>2. /\ d \in Packet /\ pktq' \in Seq(Packet) /\ Stream'
      /\ pktq' # <<>> => Follows(d, pktq'[1])
      /\ pktq' = <<>> => Latest(d)'
      /\ Follows(last, d)
  BY <1>1, PullKeeps
<1>3. /\ slice_chain \in Seq(Packet) /\ slice_chain # <<>>
      /\ slice_pkt_count = Len(slice_chain)
      /\ last_cc = CCEnd(last)
      /\ last \in Packet /\ Len(slice_chain) \in Nat \ {0}
  BY <1>1, LastOf DEF Junction, TypeOK, ChainsUnbroken
<1>4. /\ slice_chain' \in Seq(Packet) /\ slice_chain' # <<>>
      /\ Len(slice_chain') = Len(slice_chain) + 1
      /\ slice_chain'[Len(slice_chain) + 1] = d
      /\ \A i \in 1..Len(slice_chain) : slice_chain'[i] = slice_chain[i]
  BY <1>1, <1>2, <1>3, Appended
<1>5. (CCEnd(last) + 1) % CCMod = CCStart(d)
  BY <1>1, <1>3 DEF Continuous
<1>6. d.ts = last.ts + last.n /\ d.slice = last.slice
  <2>1. d.ts = End(last)
    BY <1>2, <1>3, <1>5, CountersTell
  <2> QED
    BY <1>1, <1>2, <2>1 DEF Follows, End
<1> HIDE DEF last
<1>7. UnbrokenPrefix(slice_chain')
  <2>1. slice_chain'[1].start
    BY <1>3, <1>4 DEF ChainsUnbroken, UnbrokenPrefix
  <2>2. ASSUME NEW i \in 2..Len(slice_chain')
        PROVE  /\ ~slice_chain'[i].start
               /\ slice_chain'[i].slice = slice_chain'[i - 1].slice
               /\ slice_chain'[i].ts = slice_chain'[i - 1].ts + slice_chain'[i - 1].n
    <3>1. CASE i = Len(slice_chain) + 1
      <4>1. slice_chain'[i] = d /\ slice_chain'[i - 1] = last
        BY <1>3, <1>4, <3>1 DEF last
      <4> QED
        BY <1>1, <1>6, <4>1
    <3>2. CASE i \in 2..Len(slice_chain)
      <4>1. slice_chain'[i] = slice_chain[i] /\ slice_chain'[i - 1] = slice_chain[i - 1]
        BY <1>3, <1>4, <3>2
      <4> QED
        BY <1>3, <3>2, <4>1 DEF ChainsUnbroken, UnbrokenPrefix
    <3> QED
      BY <1>3, <1>4, <3>1, <3>2
  <2> QED
    BY <2>1, <2>2 DEF UnbrokenPrefix
<1>8. TypeOK'
  BY <1>1, <1>2, <1>3, <1>4, CCEndType DEF TypeOK
<1>9. Junction'
  <2>1. slice_chain'[Len(slice_chain')] = d
    BY <1>4
  <2> QED
    BY <1>1, <1>2, <1>4, <2>1 DEF Junction
<1>10. ChainsUnbroken'
  BY <1>1, <1>3, <1>4, <1>7 DEF ChainsUnbroken
<1> QED
  BY <1>2, <1>8, <1>9, <1>10

LEMMA BreakInv ==
  ASSUME IInv, Break
  PROVE  IInv'
<1> USE DEF IInv
<1> PICK d : d = desc
  OBVIOUS
<1>1. /\ freed' = freed \cup Elements(slice_chain)
      /\ slice_chain' = <<>> /\ look_for_new_slice' = TRUE /\ slice_pkt_count' = 0
      /\ leaked' = leaked \cup {d}
      /\ UNCHANGED <<sent, begin, datagrams, gap, lost, last_cc, slice_pts_ms,
                     slice_count, sliceq>>
      /\ Pull /\ UNCHANGED source
  BY DEF Break, source
<1>2. d \in Packet /\ pktq' \in Seq(Packet) /\ Stream'
  BY <1>1, PullKeeps
<1>3. leaked' \subseteq Packet
  <2>1. leaked \subseteq Packet
    BY DEF TypeOK
  <2> QED
    BY <1>1, <1>2, <2>1
<1>4. freed' \subseteq Packet
  <2>1. freed \subseteq Packet /\ slice_chain \in Seq(Packet)
    BY DEF TypeOK
  <2>2. Elements(slice_chain) \subseteq Packet
    BY <2>1, ElementOfSeq DEF Elements
  <2> QED
    BY <1>1, <2>1, <2>2
<1>5. TypeOK'
  BY <1>1, <1>2, <1>3, <1>4, EmptySeq DEF TypeOK
<1>6. Junction' /\ ChainsUnbroken'
  BY <1>1, EmptySeq DEF Junction, ChainsUnbroken
<1> QED
  BY <1>2, <1>5, <1>6

LEMMA StepInv == IInv /\ [Next]_vars => IInv'
<1> SUFFICES ASSUME IInv, [Next]_vars PROVE IInv'
  OBVIOUS
<1>1. CASE UNCHANGED vars
  BY <1>1
     DEF IInv, TypeOK, Stream, Junction, ChainsUnbroken, Latest, vars, source, decoder
<1>2. CASE Decode
  BY <1>2, SkipInv, StartSliceInv, ExtendInv, BreakInv DEF Decode
<1> QED
  BY <1>1, <1>2, SendInv DEF Next

\* The inductive invariant of what is said of chains.
THEOREM Invariance == Spec => []IInv
BY InitInv, StepInv, PTL DEF Spec

\* What the decoder, the queues and the source hold keeps its type; last_cc stays
\* within the range of a continuity counter.
THEOREM TypeCorrect == Spec => []TypeOK
BY Invariance, PTL DEF IInv

\* Whatever is lost, as long as it is fewer than CCMod TS packets in a row, the
\* chain under way and every chain handed on is the beginning of one slice
\* without a hole (sx_mgmt_video_decoder.c:369-455).
THEOREM ChainsUnbrokenCorrect == Spec => []ChainsUnbroken
BY Invariance, PTL DEF IInv

------------------------------------------------------------------------------
(***************************************************************************)
(* The steps, in the terms of the proofs below                             *)
(***************************************************************************)
\* The source sends p.
Sends(p) ==
    /\ p \in Packet
    /\ Deliver(p) \/ Lose(p)
    /\ p.ts = sent /\ sent' = sent + p.n
    /\ p.slice = Len(begin')
    /\ IF p.start THEN begin' = Append(begin, sent)
                  ELSE begin' = begin /\ Len(begin) # 0
    /\ UNCHANGED <<decoder, sliceq, freed, leaked>>

\* The decoder takes d, and
Takes(d) ==
    /\ Pull /\ d = desc
    /\ UNCHANGED <<sent, begin, datagrams, gap, lost>>

\* ... lets it go, as it is searching,
Skips(d) ==
    /\ ~d.start
    /\ leaked' = leaked \cup {d}
    /\ slice_chain = <<>> /\ UNCHANGED <<slice_chain, slice_pts_ms, slice_count>>
    /\ UNCHANGED <<sliceq, freed>>

\* ... begins a chain with it,
Begs(d) ==
    /\ d.start
    /\ IF slice_chain = <<>>
       THEN sliceq' = sliceq
       ELSE sliceq' = Append(sliceq, [timestamp |-> slice_pts_ms,
                                      chain |-> slice_chain])
    /\ slice_pts_ms' = IF slice_count = 0 \/ slice_chain # <<>>
                       THEN d.slice ELSE slice_pts_ms
    /\ slice_count' = slice_count + 1
    /\ slice_chain' = <<d>>
    /\ UNCHANGED <<freed, leaked>>

\* ... goes on with the chain,
Goes(d) ==
    /\ slice_chain # <<>> /\ ~d.start
    /\ d.ts = End(slice_chain[Len(slice_chain)])
    /\ d.slice = slice_chain[Len(slice_chain)].slice
    /\ slice_chain' = Append(slice_chain, d)
    /\ UNCHANGED <<slice_pts_ms, slice_count, sliceq, freed, leaked>>

\* ... or drops the chain because of it.
Drops(d) ==
    /\ slice_chain # <<>> /\ ~d.start
    /\ d.ts # End(slice_chain[Len(slice_chain)])
    /\ freed' = freed \cup Elements(slice_chain)
    /\ leaked' = leaked \cup {d}
    /\ slice_chain' = <<>>
    /\ UNCHANGED <<slice_pts_ms, slice_count, sliceq>>

LEMMA Sending ==
  ASSUME IInv, NEW n \in 1..MaxTs, SendStart(n) \/ SendMore(n)
  PROVE  \E p \in Packet : Sends(p)
<1>1. MaxTs \in Nat /\ sent \in Nat /\ begin \in Seq(Nat) /\ Len(begin) \in Nat
  BY DecoderAssumption, LenProperties DEF IInv, TypeOK
<1>2. CASE SendStart(n)
  <2> DEFINE p == [slice |-> Len(begin) + 1, start |-> TRUE, ts |-> sent, n |-> n]
  <2>1. p \in Packet
    BY <1>1 DEF Packet
  <2>2. begin' = Append(begin, sent) /\ Len(begin') = Len(begin) + 1
    BY <1>1, <1>2, Appended DEF SendStart
  <2>3. /\ Deliver(p) \/ Lose(p)
        /\ sent' = sent + n
        /\ UNCHANGED <<decoder, sliceq, freed, leaked>>
    BY <1>2 DEF SendStart
  <2>4. p.ts = sent /\ p.start /\ p.n = n /\ p.slice = Len(begin')
    BY <2>2
  <2> HIDE DEF p
  <2> QED
    BY <2>1, <2>2, <2>3, <2>4 DEF Sends
<1>3. CASE SendMore(n)
  <2> DEFINE p == [slice |-> Len(begin), start |-> FALSE, ts |-> sent, n |-> n]
  <2>1. /\ Deliver(p) \/ Lose(p)
        /\ sent' = sent + n /\ begin' = begin /\ datagrams # 0
        /\ UNCHANGED <<decoder, sliceq, freed, leaked>>
    BY <1>3, DecoderAssumption DEF SendMore, IInv, TypeOK
  <2>2. Len(begin) # 0
    BY <2>1 DEF IInv, Stream
  <2>3. p \in Packet
    BY <1>1, <2>2 DEF Packet
  <2>4. p.ts = sent /\ ~p.start /\ p.n = n /\ p.slice = Len(begin')
    BY <2>1
  <2> HIDE DEF p
  <2> QED
    BY <2>1, <2>2, <2>3, <2>4 DEF Sends
<1> QED
  BY <1>2, <1>3

LEMMA Decoding ==
  ASSUME IInv, Decode
  PROVE  \E d \in Packet : Takes(d) /\ (Skips(d) \/ Begs(d) \/ Goes(d) \/ Drops(d))
<1> USE DEF IInv
<1> PICK d : d = desc
  OBVIOUS
<1> DEFINE last == slice_chain[Len(slice_chain)]
<1>1. Pull /\ UNCHANGED source
  BY DEF Decode, Skip, StartSlice, Extend, Break
<1>2. d \in Packet /\ (~look_for_new_slice => Follows(last, d))
  BY <1>1, PullKeeps
<1>3. Takes(d)
  BY <1>1 DEF Takes, source
<1>4. /\ slice_chain \in Seq(Packet) /\ slice_pkt_count = Len(slice_chain)
      /\ look_for_new_slice => slice_chain = <<>>
      /\ ~look_for_new_slice => /\ slice_chain # <<>> /\ last_cc = CCEnd(last)
                                /\ last \in Packet /\ Len(slice_chain) \in Nat \ {0}
  BY LastOf DEF TypeOK, ChainsUnbroken, Junction
<1>5. CASE Skip
  BY <1>2, <1>3, <1>4, <1>5 DEF Skip, Skips, decoder
<1>6. CASE StartSlice
  <2>1. slice_pkt_count > 0 <=> slice_chain # <<>>
    BY <1>4, EmptySeq
  <2>2. Begs(d)
    BY <1>6, <2>1 DEF StartSlice, Begs, Dump
  <2> QED
    BY <1>2, <1>3, <2>2
<1>7. CASE Extend
  <2>1. ~look_for_new_slice /\ ~d.start /\ Continuous
    BY <1>7 DEF Extend
  <2>2. (CCEnd(last) + 1) % CCMod = CCStart(d)
    BY <1>4, <2>1 DEF Continuous
  <2>3. d.ts = End(last)
    BY <1>2, <1>4, <2>1, <2>2, CountersTell
  <2>4. d.slice = last.slice
    BY <1>2, <2>1, <2>3 DEF Follows
  <2>5. Goes(d)
    BY <1>4, <1>7, <2>1, <2>3, <2>4 DEF Extend, Goes
  <2> QED
    BY <1>2, <1>3, <2>5
<1>8. CASE Break
  <2>1. ~look_for_new_slice /\ ~d.start /\ ~Continuous
    BY <1>8 DEF Break
  <2>2. (CCEnd(last) + 1) % CCMod # CCStart(d)
    BY <1>4, <2>1 DEF Continuous
  <2>3. d.ts # End(last)
    <3>1. /\ last.ts + last.n - 1 \in Int /\ CCMod \in Nat \ {0}
          /\ (last.ts + last.n - 1) + 1 = End(last)
      BY <1>4, <2>1, DecoderAssumption DEF Packet, End
    <3>2. (CCEnd(last) + 1) % CCMod = End(last) % CCMod
      BY <3>1, Successor DEF CCEnd
    <3> QED
      BY <2>2, <3>2 DEF CCStart
  <2>4. Drops(d)
    BY <1>4, <1>8, <2>1, <2>3 DEF Break, Drops
  <2> QED
    BY <1>2, <1>3, <2>4
<1> QED
  BY <1>5, <1>6, <1>7, <1>8 DEF Decode

LEMMA SendFacts ==
  ASSUME IInv, NEW p \in Packet, Sends(p)
  PROVE  /\ Len(begin) \in Nat /\ sent \in Nat /\ p.n \in Nat \ {0}
         /\ begin \in Seq(Nat)
         /\ begin' = begin \/ p.start
         /\ Len(begin') = IF p.start THEN Len(begin) + 1 ELSE Len(begin)
         /\ \A i \in 1..Len(begin) : begin'[i] = begin[i]
         /\ p.start => begin'[Len(begin) + 1] = sent
         /\ Len(pktq) \in Nat /\ pktq \in Seq(Packet)
         /\ UNCHANGED <<slice_chain, slice_pts_ms, slice_count, sliceq, freed, leaked>>
         /\ \/ /\ lost' = lost /\ gap' = 0
               /\ pktq' = Append(pktq, p) /\ Len(pktq') = Len(pktq) + 1
               /\ pktq'[Len(pktq) + 1] = p
               /\ \A i \in 1..Len(pktq) : pktq'[i] = pktq[i]
            \/ /\ lost' = lost \cup {p} /\ gap' = gap + p.n /\ pktq' = pktq
<1>1. /\ Len(begin) \in Nat /\ sent \in Nat /\ p.n \in Nat \ {0}
      /\ begin \in Seq(Nat) /\ pktq \in Seq(Packet) /\ Len(pktq) \in Nat
  BY LenProperties, DecoderAssumption DEF IInv, TypeOK, Packet
<1>2. /\ p.start => /\ Len(begin') = Len(begin) + 1
                    /\ \A i \in 1..Len(begin) : begin'[i] = begin[i]
                    /\ begin'[Len(begin) + 1] = sent
      /\ ~p.start => begin' = begin
  <2>1. ASSUME p.start
        PROVE  /\ Len(begin') = Len(begin) + 1
               /\ \A i \in 1..Len(begin) : begin'[i] = begin[i]
               /\ begin'[Len(begin) + 1] = sent
    <3>1. begin' = Append(begin, sent)
      BY <2>1 DEF Sends
    <3> QED
      BY <1>1, <3>1, Appended
  <2> QED
    BY <2>1 DEF Sends
<1>3. CASE Deliver(p)
  <2>1. pktq' = Append(pktq, p) /\ gap' = 0 /\ lost' = lost
    BY <1>3 DEF Deliver
  <2>2. /\ Len(pktq') = Len(pktq) + 1 /\ pktq'[Len(pktq) + 1] = p
        /\ \A i \in 1..Len(pktq) : pktq'[i] = pktq[i]
    BY <1>1, <2>1, Appended
  <2> QED
    BY <1>1, <1>2, <2>1, <2>2 DEF Sends, decoder
<1>4. CASE Lose(p)
  BY <1>1, <1>2, <1>4 DEF Sends, Lose, decoder
<1> QED
  BY <1>3, <1>4 DEF Sends

LEMMA TakeFacts ==
  ASSUME IInv, NEW d \in Packet, Takes(d)
  PROVE  /\ pktq # <<>> /\ d = pktq[1] /\ 1 \in 1..Len(pktq)
         /\ Len(pktq) \in Nat \ {0} /\ Len(pktq') = Len(pktq) - 1
         /\ \A i \in 1..Len(pktq') : /\ pktq'[i] = pktq[i + 1]
                                     /\ i + 1 \in 1..Len(pktq) /\ i + 1 > 1
         /\ UNCHANGED <<sent, begin, gap, lost>>
<1>1. pktq \in Seq(Packet) /\ pktq # <<>> /\ pktq' = Tail(pktq) /\ d = Head(pktq)
  BY DEF Takes, Pull, desc, IInv, TypeOK
<1>2. /\ d = pktq[1] /\ 1 \in 1..Len(pktq)
      /\ Len(pktq) \in Nat \ {0} /\ Len(pktq') = Len(pktq) - 1
      /\ \A i \in 1..Len(pktq') : pktq'[i] = pktq[i + 1] /\ i + 1 \in 1..Len(pktq)
  BY <1>1, HeadTail
<1> QED
  BY <1>1, <1>2 DEF Takes

LEMMA ChainTypes ==
  ASSUME IInv
  PROVE  /\ \A i \in 1..Len(pktq) : pktq[i] \in Packet
         /\ \A i \in 1..Len(slice_chain) : slice_chain[i] \in Packet
         /\ \A k \in 1..Len(sliceq) : /\ sliceq[k].chain \in Seq(Packet)
                                      /\ sliceq[k].timestamp \in Nat
                                      /\ \A i \in 1..Len(sliceq[k].chain) :
                                            sliceq[k].chain[i] \in Packet
<1>1. /\ pktq \in Seq(Packet) /\ slice_chain \in Seq(Packet)
      /\ sliceq \in Seq([timestamp : Nat, chain : Seq(Packet)])
  BY DEF IInv, TypeOK
<1>2. ASSUME NEW k \in 1..Len(sliceq)
      PROVE  sliceq[k].chain \in Seq(Packet) /\ sliceq[k].timestamp \in Nat
  <2>1. sliceq[k] \in [timestamp : Nat, chain : Seq(Packet)]
    BY <1>1, <1>2, ElementOfSeq
  <2> QED
    BY <2>1
<1> QED
  BY <1>1, <1>2, ElementOfSeq

------------------------------------------------------------------------------
(***************************************************************************)
(* The order of the stream                                                 *)
(***************************************************************************)
\* p was sent before q: it is not of a later slice, and not of one q starts.
Precedes(p, q) ==
    /\ End(p) <= q.ts
    /\ p.slice <= q.slice
    /\ q.start => p.slice < q.slice

Sent(p) == End(p) <= sent /\ p.slice <= Len(begin)

\* All that was put on the SLICE queue, and all that was taken from VIDEO_PKT.
Passed == UNION {Elements(sliceq[k].chain) : k \in 1..Len(sliceq)}
Gone == freed \cup leaked \cup Elements(slice_chain) \cup Passed

\* What the queue holds was sent, and is in the order it was sent, after all that
\* was taken from it.
Order ==
    /\ \A i \in 1..Len(pktq) : Sent(pktq[i])
    /\ \A i, j \in 1..Len(pktq) : i < j => Precedes(pktq[i], pktq[j])
    /\ \A p \in Gone : Sent(p) /\ \A i \in 1..Len(pktq) : Precedes(p, pktq[i])

LEMMA GoneTypes ==
  ASSUME IInv
  PROVE  Gone \subseteq Packet
<1>1. freed \subseteq Packet /\ leaked \subseteq Packet
  BY DEF IInv, TypeOK
<1>2. Elements(slice_chain) \subseteq Packet
  BY ChainTypes DEF Elements
<1>3. Passed \subseteq Packet
  BY ChainTypes DEF Elements, Passed
<1> QED
  BY <1>1, <1>2, <1>3 DEF Gone

\* The chain that is dumped is the last of those handed on.
LEMMA DumpFacts ==
  ASSUME IInv, NEW d \in Packet, Begs(d), slice_chain # <<>>
  PROVE  /\ Len(sliceq) \in Nat /\ Len(sliceq') = Len(sliceq) + 1
         /\ \A k \in 1..Len(sliceq) : sliceq'[k] = sliceq[k]
         /\ sliceq'[Len(sliceq) + 1].chain = slice_chain
         /\ sliceq'[Len(sliceq) + 1].timestamp = slice_pts_ms
<1> DEFINE s == [timestamp |-> slice_pts_ms, chain |-> slice_chain]
<1>1. /\ s \in [timestamp : Nat, chain : Seq(Packet)]
      /\ s.chain = slice_chain /\ s.timestamp = slice_pts_ms
      /\ sliceq \in Seq([timestamp : Nat, chain : Seq(Packet)])
  BY DEF IInv, TypeOK
<1>2. sliceq' = Append(sliceq, s)
  BY DEF Begs
<1> HIDE DEF s
<1> QED
  BY <1>1, <1>2, Appended

LEMMA PassedGrows ==
  ASSUME IInv, NEW d \in Packet, Begs(d)
  PROVE  Passed' = Passed \cup Elements(slice_chain)
<1>1. CASE slice_chain = <<>>
  BY <1>1 DEF Begs, Passed, Elements
<1>2. CASE slice_chain # <<>>
  <2>1. /\ Len(sliceq) \in Nat /\ Len(sliceq') = Len(sliceq) + 1
        /\ \A k \in 1..Len(sliceq) : sliceq'[k] = sliceq[k]
        /\ sliceq'[Len(sliceq) + 1].chain = slice_chain
    BY <1>2, DumpFacts
  <2>2. 1..Len(sliceq') = (1..Len(sliceq)) \cup {Len(sliceq) + 1}
    BY <2>1
  <2>3. ASSUME NEW p \in Passed' PROVE p \in Passed \cup Elements(slice_chain)
    <3>1. PICK k \in 1..Len(sliceq') : p \in Elements(sliceq'[k].chain)
      BY <2>3 DEF Passed, Elements
    <3> QED
      BY <2>1, <2>2, <3>1 DEF Passed
  <2>4. ASSUME NEW p \in Passed PROVE p \in Passed'
    <3>1. PICK k \in 1..Len(sliceq) : p \in Elements(sliceq[k].chain)
      BY <2>4 DEF Passed
    <3>2. k \in 1..Len(sliceq') /\ p \in Elements(sliceq'[k].chain)
      BY <2>1, <2>2, <3>1
    <3> QED
      BY <3>2 DEF Passed, Elements
  <2>5. ASSUME NEW p \in Elements(slice_chain) PROVE p \in Passed'
    <3>1. /\ Len(sliceq) + 1 \in 1..Len(sliceq')
          /\ p \in Elements(sliceq'[Len(sliceq) + 1].chain)
      BY <2>1, <2>2, <2>5
    <3> QED
      BY <3>1 DEF Passed, Elements
  <2> QED
    BY <2>3, <2>4, <2>5
<1> QED
  BY <1>1, <1>2

LEMMA GoneGrows ==
  ASSUME IInv, NEW d \in Packet, Skips(d) \/ Begs(d) \/ Goes(d) \/ Drops(d)
  PROVE  Gone' \subseteq Gone \cup {d}
<1>1. slice_chain \in Seq(Packet) /\ Elements(<<>>) = {} /\ Elements(<<d>>) = {d}
  BY Single, EmptySeq DEF IInv, TypeOK, Elements
<1>2. CASE Skips(d)
  <2>1. Passed' = Passed /\ Elements(slice_chain)' = Elements(slice_chain)
    BY <1>2 DEF Skips, Passed, Elements
  <2> QED
    BY <1>2, <2>1 DEF Skips, Gone
<1>3. CASE Begs(d)
  <2>1. Elements(slice_chain)' = {d}
    BY <1>1, <1>3 DEF Begs, Elements
  <2> QED
    BY <1>3, <2>1, PassedGrows DEF Begs, Gone
<1>4. CASE Goes(d)
  <2>1. Passed' = Passed /\ Elements(slice_chain)' = Elements(slice_chain) \cup {d}
    BY <1>1, <1>4, AppendMembers DEF Goes, Passed, Elements
  <2> QED
    BY <1>4, <2>1 DEF Goes, Gone
<1>5. CASE Drops(d)
  <2>1. Passed' = Passed /\ Elements(slice_chain)' = {}
    BY <1>1, <1>5 DEF Drops, Passed, Elements
  <2> QED
    BY <1>5, <2>1 DEF Drops, Gone
<1> QED
  BY <1>2, <1>3, <1>4, <1>5

LEMMA SentStays ==
  ASSUME IInv, NEW p \in Packet, Sends(p), NEW q \in Packet, Sent(q)
  PROVE  Sent(q)' /\ Precedes(q, p)
<1>1. /\ Len(begin) \in Nat /\ sent \in Nat /\ p.n \in Nat \ {0}
      /\ Len(begin') = IF p.start THEN Len(begin) + 1 ELSE Len(begin)
  BY SendFacts
<1>2. p.ts = sent /\ sent' = sent + p.n /\ p.slice = Len(begin')
  BY DEF Sends
<1>3. End(q) \in Nat /\ q.slice \in Nat
  BY DecoderAssumption DEF Packet, End
<1> QED
  BY <1>1, <1>2, <1>3 DEF Sent, Precedes, End

LEMMA OrderSend ==
  ASSUME IInv, Order, NEW p \in Packet, Sends(p)
  PROVE  Order'
<1>1. Gone' = Gone
  <2>1. UNCHANGED <<slice_chain, sliceq, freed, leaked>>
    BY SendFacts
  <2> QED
    BY <2>1 DEF Gone, Passed, Elements
<1>2. Sent(p)'
  <2>1. p.ts = sent /\ sent' = sent + p.n /\ p.slice = Len(begin')
    BY DEF Sends
  <2>2. sent \in Nat /\ p.n \in Nat /\ Len(begin') \in Nat
    BY SendFacts
  <2> QED
    BY <2>1, <2>2 DEF Sent, End
<1>3. ASSUME NEW q \in Gone PROVE q \in Packet /\ Sent(q)' /\ Precedes(q, p)
  BY <1>3, GoneTypes, SentStays DEF Order
<1>4. ASSUME NEW i \in 1..Len(pktq)
      PROVE  pktq[i] \in Packet /\ Sent(pktq[i]) /\ Precedes(pktq[i], p)
  BY <1>4, ChainTypes, SentStays DEF Order
<1>5. ASSUME NEW q \in Packet, Sent(q) PROVE Sent(q)'
  BY <1>5, SentStays
<1>6. CASE pktq' = pktq
  <2>1. ASSUME NEW i \in 1..Len(pktq) PROVE (End(pktq[i]) <= sent /\ pktq[i].slice <= Len(begin))'
    <3>1. PICK q : q = pktq[i]
      OBVIOUS
    <3>2. q = pktq'[i] /\ Sent(q)'
      BY <1>4, <1>5, <1>6, <2>1, <3>1
    <3> QED
      BY <3>2 DEF Sent, End
  <2> QED
    BY <1>1, <1>3, <1>6, <2>1 DEF Order, Sent, Precedes, End
<1>7. CASE /\ Len(pktq') = Len(pktq) + 1 /\ pktq'[Len(pktq) + 1] = p
           /\ \A i \in 1..Len(pktq) : pktq'[i] = pktq[i]
  <2>0. Len(pktq) \in Nat
    BY SendFacts
  <2>1. ASSUME NEW i \in 1..Len(pktq') PROVE i \in 1..Len(pktq) \/ i = Len(pktq) + 1
    BY <1>7, <2>0
  <2>2. ASSUME NEW i \in 1..Len(pktq')
        PROVE  (End(pktq[i]) <= sent /\ pktq[i].slice <= Len(begin))'
    <3>1. PICK q : q = pktq'[i]
      OBVIOUS
    <3>2. Sent(q)'
      BY <1>2, <1>4, <1>5, <1>7, <2>1, <2>2, <3>1
    <3> QED
      BY <3>1, <3>2 DEF Sent, End
  <2>3. ASSUME NEW i \in 1..Len(pktq'), NEW j \in 1..Len(pktq'), i < j
        PROVE  Precedes(pktq'[i], pktq'[j])
    <3>1. i \in 1..Len(pktq)
      BY <1>7, <2>0, <2>1, <2>3
    <3>2. CASE j \in 1..Len(pktq)
      BY <1>7, <2>3, <3>1, <3>2 DEF Order
    <3>3. CASE j = Len(pktq) + 1
      BY <1>4, <1>7, <3>1, <3>3
    <3> QED
      BY <2>1, <2>3, <3>2, <3>3
  <2>4. ASSUME NEW q \in Gone, NEW i \in 1..Len(pktq') PROVE Precedes(q, pktq'[i])
    BY <1>3, <1>7, <2>1, <2>4 DEF Order
  <2> QED
    BY <1>1, <1>3, <2>2, <2>3, <2>4 DEF Order, Sent, Precedes, End
<1> QED
  BY <1>6, <1>7, SendFacts

LEMMA OrderTake ==
  ASSUME IInv, Order, NEW d \in Packet, Takes(d),
         Skips(d) \/ Begs(d) \/ Goes(d) \/ Drops(d)
  PROVE  Order'
<1>1. /\ d = pktq[1] /\ 1 \in 1..Len(pktq) /\ Len(pktq) \in Nat \ {0}
      /\ Len(pktq') = Len(pktq) - 1
      /\ \A i \in 1..Len(pktq') : /\ pktq'[i] = pktq[i + 1]
                                  /\ i + 1 \in 1..Len(pktq) /\ i + 1 > 1
      /\ UNCHANGED <<sent, begin>>
  BY TakeFacts
<1>2. Gone' \subseteq Gone \cup {d}
  BY GoneGrows
<1>3. ASSUME NEW q \in Gone'
      PROVE  Sent(q) /\ \A i \in 1..Len(pktq') : Precedes(q, pktq'[i])
  <2>1. CASE q \in Gone
    BY <1>1, <2>1 DEF Order
  <2>2. CASE q = d
    BY <1>1, <2>2 DEF Order
  <2> QED
    BY <1>2, <1>3, <2>1, <2>2
<1>4. ASSUME NEW i \in 1..Len(pktq') PROVE Sent(pktq'[i])
  BY <1>1, <1>4 DEF Order
<1>5. ASSUME NEW i \in 1..Len(pktq'), NEW j \in 1..Len(pktq'), i < j
      PROVE  Precedes(pktq'[i], pktq'[j])
  <2>1. i + 1 \in 1..Len(pktq) /\ j + 1 \in 1..Len(pktq) /\ i + 1 < j + 1
    BY <1>1, <1>5
  <2>2. Precedes(pktq[i + 1], pktq[j + 1])
    BY <2>1 DEF Order
  <2> QED
    BY <1>1, <1>5, <2>2
<1> QED
  BY <1>1, <1>3, <1>4, <1>5 DEF Order, Sent, Precedes, End

------------------------------------------------------------------------------
(***************************************************************************)
(* What was taken is held in one place: what is in the queue was sent      *)
(* later, so a datagram just taken is none of those taken before it.       *)
(***************************************************************************)
Apart ==
    /\ freed \cap leaked = {}
    /\ Elements(slice_chain) \cap (freed \cup leaked) = {}
    /\ Passed \cap (freed \cup leaked \cup Elements(slice_chain)) = {}
    /\ \A i, j \in 1..Len(sliceq) : i # j =>
          Elements(sliceq[i].chain) \cap Elements(sliceq[j].chain) = {}

LEMMA NotYetGone ==
  ASSUME IInv, Order
  PROVE  Gone \cap Elements(pktq) = {}
<1>1. ASSUME NEW p \in Gone, p \in Elements(pktq) PROVE FALSE
  <2>1. PICK i \in 1..Len(pktq) : p = pktq[i]
    BY <1>1 DEF Elements
  <2>2. p \in Packet /\ Precedes(p, p)
    BY <1>1, <2>1, GoneTypes DEF Order
  <2>3. p.ts \in Nat /\ p.n \in Nat \ {0}
    BY <2>2, DecoderAssumption DEF Packet
  <2> QED
    BY <2>2, <2>3 DEF Precedes, End
<1> QED
  BY <1>1

LEMMA ApartTake ==
  ASSUME IInv, Order, Apart, NEW d \in Packet, Takes(d),
         Skips(d) \/ Begs(d) \/ Goes(d) \/ Drops(d)
  PROVE  Apart'
<1>1. d \notin Gone
  <2>1. d = pktq[1] /\ 1 \in 1..Len(pktq)
    BY TakeFacts
  <2>2. d \in Elements(pktq)
    BY <2>1 DEF Elements
  <2> QED
    BY <2>2, NotYetGone
<1>2. slice_chain \in Seq(Packet) /\ Elements(<<>>) = {} /\ Elements(<<d>>) = {d}
  BY Single, EmptySeq DEF IInv, TypeOK, Elements
<1>3. CASE Skips(d)
  <2>1. /\ Passed' = Passed /\ Elements(slice_chain)' = Elements(slice_chain)
        /\ freed' = freed /\ leaked' = leaked \cup {d} /\ sliceq' = sliceq
    BY <1>3 DEF Skips, Passed, Elements
  <2>2. \A i, j \in 1..Len(sliceq') : i # j =>
            Elements(sliceq'[i].chain) \cap Elements(sliceq'[j].chain) = {}
    BY <2>1 DEF Apart
  <2>3. d \notin freed \cup leaked \cup Elements(slice_chain) \cup Passed
    BY <1>1 DEF Gone
  <2>4. /\ freed \cap leaked = {}
        /\ Elements(slice_chain) \cap (freed \cup leaked) = {}
        /\ Passed \cap (freed \cup leaked \cup Elements(slice_chain)) = {}
    BY DEF Apart
  <2>5. /\ freed' \cap leaked' = {}
        /\ Elements(slice_chain)' \cap (freed' \cup leaked') = {}
        /\ Passed' \cap (freed' \cup leaked' \cup Elements(slice_chain)') = {}
    BY <2>1, <2>3, <2>4
  <2> QED
    BY <2>2, <2>5 DEF Apart, Elements
<1>4. CASE Goes(d)
  <2>1. /\ Passed' = Passed /\ Elements(slice_chain)' = Elements(slice_chain) \cup {d}
        /\ freed' = freed /\ leaked' = leaked /\ sliceq' = sliceq
    BY <1>2, <1>4, AppendMembers DEF Goes, Passed, Elements
  <2>2. \A i, j \in 1..Len(sliceq') : i # j =>
            Elements(sliceq'[i].chain) \cap Elements(sliceq'[j].chain) = {}
    BY <2>1 DEF Apart
  <2>3. d \notin freed \cup leaked \cup Elements(slice_chain) \cup Passed
    BY <1>1 DEF Gone
  <2>4. /\ freed \cap leaked = {}
        /\ Elements(slice_chain) \cap (freed \cup leaked) = {}
        /\ Passed \cap (freed \cup leaked \cup Elements(slice_chain)) = {}
    BY DEF Apart
  <2>5. /\ freed' \cap leaked' = {}
        /\ Elements(slice_chain)' \cap (freed' \cup leaked') = {}
        /\ Passed' \cap (freed' \cup leaked' \cup Elements(slice_chain)') = {}
    BY <2>1, <2>3, <2>4
  <2> QED
    BY <2>2, <2>5 DEF Apart, Elements
<1>5. CASE Drops(d)
  <2>1. /\ Passed' = Passed /\ Elements(slice_chain)' = {}
        /\ freed' = freed \cup Elements(slice_chain)
        /\ leaked' = leaked \cup {d} /\ sliceq' = sliceq
    BY <1>2, <1>5 DEF Drops, Passed, Elements
  <2>2. \A i, j \in 1..Len(sliceq') : i # j =>
            Elements(sliceq'[i].chain) \cap Elements(sliceq'[j].chain) = {}
    BY <2>1 DEF Apart
  <2>3. d \notin freed \cup leaked \cup Elements(slice_chain) \cup Passed
    BY <1>1 DEF Gone
  <2>4. /\ freed \cap leaked = {}
        /\ Elements(slice_chain) \cap (freed \cup leaked) = {}
        /\ Passed \cap (freed \cup leaked \cup Elements(slice_chain)) = {}
    BY DEF Apart
  <2>5. /\ freed' \cap leaked' = {}
        /\ Elements(slice_chain)' \cap (freed' \cup leaked') = {}
        /\ Passed' \cap (freed' \cup leaked' \cup Elements(slice_chain)') = {}
    BY <2>1, <2>3, <2>4
  <2> QED
    BY <2>2, <2>5 DEF Apart, Elements
<1>6. CASE Begs(d)
  <2>1. /\ Elements(slice_chain)' = {d} /\ Passed' = Passed \cup Elements(slice_chain)
        /\ freed' = freed /\ leaked' = leaked
    BY <1>2, <1>6, PassedGrows DEF Begs, Elements
  <2>2. ASSUME NEW i \in 1..Len(sliceq'), NEW j \in 1..Len(sliceq'), i # j
        PROVE  Elements(sliceq'[i].chain) \cap Elements(sliceq'[j].chain) = {}
    <3>1. CASE slice_chain = <<>>
      BY <1>6, <2>2, <3>1 DEF Begs, Apart
    <3>2. CASE slice_chain # <<>>
      <4>1. /\ Len(sliceq) \in Nat /\ Len(sliceq') = Len(sliceq) + 1
            /\ \A k \in 1..Len(sliceq) : sliceq'[k] = sliceq[k]
            /\ sliceq'[Len(sliceq) + 1].chain = slice_chain
        BY <1>6, <3>2, DumpFacts
      <4>2. ASSUME NEW k \in 1..Len(sliceq)
            PROVE  Elements(sliceq[k].chain) \cap Elements(slice_chain) = {}
        <5>1. Elements(sliceq[k].chain) \subseteq Passed
          BY <4>2 DEF Passed
        <5> QED
          BY <5>1 DEF Apart
      <4>3. ASSUME NEW k \in 1..Len(sliceq') PROVE k \in 1..Len(sliceq) \/ k = Len(sliceq) + 1
        BY <4>1
      <4>4. CASE i \in 1..Len(sliceq) /\ j \in 1..Len(sliceq)
        BY <2>2, <4>1, <4>4 DEF Apart
      <4>5. CASE i \in 1..Len(sliceq) /\ j = Len(sliceq) + 1
        BY <4>1, <4>2, <4>5
      <4>6. CASE i = Len(sliceq) + 1 /\ j \in 1..Len(sliceq)
        BY <4>1, <4>2, <4>6
      <4> QED
        BY <2>2, <4>3, <4>4, <4>5, <4>6
    <3> QED
      BY <3>1, <3>2
  <2>3. d \notin freed \cup leaked \cup Elements(slice_chain) \cup Passed
    BY <1>1 DEF Gone
  <2>4. /\ freed \cap leaked = {}
        /\ Elements(slice_chain) \cap (freed \cup leaked) = {}
        /\ Passed \cap (freed \cup leaked \cup Elements(slice_chain)) = {}
    BY DEF Apart
  <2>5. /\ freed' \cap leaked' = {}
        /\ Elements(slice_chain)' \cap (freed' \cup leaked') = {}
        /\ Passed' \cap (freed' \cup leaked' \cup Elements(slice_chain)') = {}
    BY <2>1, <2>3, <2>4
  <2> QED
    BY <2>2, <2>5 DEF Apart, Elements
<1> QED
  BY <1>3, <1>4, <1>5, <1>6

LEMMA ApartStays ==
  ASSUME Apart, UNCHANGED <<slice_chain, sliceq, freed, leaked>>
  PROVE  Apart'
<1>1. /\ Passed' = Passed /\ Elements(slice_chain)' = Elements(slice_chain)
      /\ freed' = freed /\ leaked' = leaked /\ sliceq' = sliceq
  BY DEF Passed, Elements
<1>2. \A i, j \in 1..Len(sliceq') : i # j =>
          Elements(sliceq'[i].chain) \cap Elements(sliceq'[j].chain) = {}
  BY <1>1 DEF Apart
<1>3. /\ freed' \cap leaked' = {}
      /\ Elements(slice_chain)' \cap (freed' \cup leaked') = {}
      /\ Passed' \cap (freed' \cup leaked' \cup Elements(slice_chain)') = {}
  BY <1>1 DEF Apart
<1> QED
  BY <1>2, <1>3 DEF Apart, Elements

LEMMA ApartOwner ==
  ASSUME IInv, Order, Apart
  PROVE  OneOwner
<1> DEFINE chains == {sliceq[i].chain : i \in 1..Len(sliceq)}
           handedOn == UNION {Elements(c) : c \in chains}
<1>1. handedOn = Passed
  BY DEF Passed
<1>2. Gone \cap Elements(pktq) = {}
  BY NotYetGone
<1> HIDE DEF handedOn
<1>3. /\ freed \cap leaked = {}
      /\ (freed \cup leaked) \cap Elements(pktq) = {}
      /\ Elements(slice_chain) \cap (freed \cup leaked \cup Elements(pktq)) = {}
      /\ handedOn \cap (freed \cup leaked \cup Elements(pktq)
                          \cup Elements(slice_chain)) = {}
  BY <1>1, <1>2 DEF Apart, Gone
<1> QED
  BY <1>3 DEF OneOwner, Apart, handedOn

------------------------------------------------------------------------------
(***************************************************************************)
(* What is missing in the stream was lost                                  *)
(***************************************************************************)
LostOf(s) == \E l \in lost : l.slice = s
StartLost(s) == \E l \in lost : l.start /\ l.slice = s

\* What is missing between two datagrams that follow one another was lost.
Explains(p, q) ==
    /\ q.ts # End(p) /\ (q.slice = p.slice \/ (q.start /\ q.slice = p.slice + 1))
           => LostOf(p.slice)
    /\ q.slice > p.slice /\ ~(q.start /\ q.slice = p.slice + 1)
           => StartLost(p.slice + 1)

\* ... and behind the last one that arrived.
ExplainsGap(p) ==
    /\ gap # 0 /\ Len(begin) = p.slice => LostOf(p.slice)
    /\ Len(begin) > p.slice => StartLost(p.slice + 1)

Losses ==
    /\ \A i \in 1..(Len(pktq) - 1) : Explains(pktq[i], pktq[i + 1])
    /\ pktq # <<>> => ExplainsGap(pktq[Len(pktq)])
    /\ slice_chain # <<>> =>
          /\ pktq # <<>> => Explains(slice_chain[Len(slice_chain)], pktq[1])
          /\ pktq = <<>> => ExplainsGap(slice_chain[Len(slice_chain)])

\* After the last datagram that arrived, one more arrives,
LEMMA GapArrives ==
  ASSUME IInv, NEW p \in Packet, Sends(p), NEW q \in Packet, Latest(q), Sent(q),
         ExplainsGap(q), lost' = lost
  PROVE  Explains(q, p)'
<1>1. /\ Len(begin) \in Nat /\ sent \in Nat /\ p.n \in Nat \ {0}
      /\ Len(begin') = IF p.start THEN Len(begin) + 1 ELSE Len(begin)
  BY SendFacts
<1>2. p.ts = sent /\ p.slice = Len(begin')
  BY DEF Sends
<1>3. End(q) \in Nat /\ q.slice \in Nat /\ gap \in Nat
  BY DecoderAssumption DEF Packet, End, IInv, TypeOK
<1>4. p.ts # End(q) => gap # 0
  BY <1>2, <1>3 DEF Latest
<1>5. q.slice <= Len(begin)
  BY DEF Sent
<1>6. ASSUME p.ts # End(q), p.slice = q.slice \/ (p.start /\ p.slice = q.slice + 1)
      PROVE  LostOf(q.slice)
  <2>1. Len(begin) = q.slice
    BY <1>1, <1>2, <1>3, <1>5, <1>6
  <2> QED
    BY <1>4, <1>6, <2>1 DEF ExplainsGap
<1>7. ASSUME p.slice > q.slice, ~(p.start /\ p.slice = q.slice + 1)
      PROVE  StartLost(q.slice + 1)
  <2>1. Len(begin) > q.slice
    BY <1>1, <1>2, <1>3, <1>5, <1>7
  <2> QED
    BY <2>1 DEF ExplainsGap
<1> QED
  BY <1>6, <1>7 DEF Explains, LostOf, StartLost

\* ... or is lost.
LEMMA GapGrows ==
  ASSUME IInv, NEW p \in Packet, Sends(p), NEW q \in Packet, Sent(q),
         ExplainsGap(q), lost' = lost \cup {p}
  PROVE  ExplainsGap(q)'
<1>1. /\ Len(begin) \in Nat
      /\ Len(begin') = IF p.start THEN Len(begin) + 1 ELSE Len(begin)
  BY SendFacts
<1>2. p.slice = Len(begin') /\ p \in lost'
  BY DEF Sends
<1>3. q.slice \in Nat /\ q.slice <= Len(begin)
  BY DEF Packet, Sent
<1>4. ASSUME Len(begin') = q.slice PROVE LostOf(q.slice)'
  BY <1>2, <1>4 DEF LostOf
<1>5. ASSUME Len(begin') > q.slice PROVE StartLost(q.slice + 1)'
  <2>1. CASE Len(begin) > q.slice
    BY <2>1 DEF ExplainsGap, StartLost
  <2>2. CASE Len(begin) = q.slice
    <3>1. p.start /\ p.slice = q.slice + 1
      BY <1>1, <1>2, <1>3, <1>5, <2>2
    <3> QED
      BY <1>2, <3>1 DEF StartLost
  <2> QED
    BY <1>1, <1>3, <2>1, <2>2
<1> QED
  BY <1>4, <1>5 DEF ExplainsGap

LEMMA ExplainedStays ==
  ASSUME NEW p, NEW q, Explains(p, q), lost \subseteq lost'
  PROVE  Explains(p, q)'
BY DEF Explains, LostOf, StartLost

\* The last datagram that arrived is that of the queue, or of the chain.
LEMMA LastArrived ==
  ASSUME IInv, Order
  PROVE  /\ pktq # <<>> => /\ pktq[Len(pktq)] \in Packet
                           /\ Latest(pktq[Len(pktq)]) /\ Sent(pktq[Len(pktq)])
         /\ slice_chain # <<>> =>
                /\ slice_chain[Len(slice_chain)] \in Packet
                /\ slice_chain[Len(slice_chain)] \in Gone
                /\ Sent(slice_chain[Len(slice_chain)])
                /\ pktq = <<>> => Latest(slice_chain[Len(slice_chain)])
<1>1. ASSUME pktq # <<>>
      PROVE  /\ pktq[Len(pktq)] \in Packet
             /\ Latest(pktq[Len(pktq)]) /\ Sent(pktq[Len(pktq)])
  <2>1. pktq[Len(pktq)] \in Packet /\ Len(pktq) \in 1..Len(pktq)
    BY <1>1, LastOf DEF IInv, TypeOK
  <2> QED
    BY <1>1, <2>1 DEF IInv, Stream, Order
<1>2. ASSUME slice_chain # <<>>
      PROVE  /\ slice_chain[Len(slice_chain)] \in Packet
             /\ slice_chain[Len(slice_chain)] \in Gone
             /\ Sent(slice_chain[Len(slice_chain)])
             /\ pktq = <<>> => Latest(slice_chain[Len(slice_chain)])
  <2>1. /\ slice_chain[Len(slice_chain)] \in Packet
        /\ Len(slice_chain) \in 1..Len(slice_chain)
    BY <1>2, LastOf DEF IInv, TypeOK
  <2>2. slice_chain[Len(slice_chain)] \in Gone
    BY <2>1 DEF Gone, Elements
  <2>3. pktq = <<>> => Latest(slice_chain[Len(slice_chain)])
    BY <1>2 DEF IInv, ChainsUnbroken, Junction
  <2> QED
    BY <2>1, <2>2, <2>3 DEF Order
<1> QED
  BY <1>1, <1>2

LEMMA LossesSend ==
  ASSUME IInv, Order, Losses, NEW p \in Packet, Sends(p)
  PROVE  Losses'
<1>1. /\ Len(pktq) \in Nat /\ pktq \in Seq(Packet) /\ slice_chain' = slice_chain
      /\ slice_chain \in Seq(Packet)
      /\ p.slice = Len(begin')
  BY SendFacts DEF Sends, IInv, TypeOK
<1> DEFINE back == pktq[Len(pktq)]
           last == slice_chain[Len(slice_chain)]
<1>2. CASE lost' = lost /\ gap' = 0 /\ pktq' = Append(pktq, p)
  <2>1. /\ Len(pktq') = Len(pktq) + 1 /\ pktq'[Len(pktq) + 1] = p
        /\ \A i \in 1..Len(pktq) : pktq'[i] = pktq[i]
        /\ pktq' # <<>>
    BY <1>1, <1>2, Appended
  <2>2. ASSUME NEW i \in 1..(Len(pktq') - 1) PROVE (Explains(pktq[i], pktq[i + 1]))'
    <3>1. PICK q, r : q = pktq'[i] /\ r = pktq'[i + 1]
      OBVIOUS
    <3>2. CASE i < Len(pktq)
      <4>1. /\ i \in 1..(Len(pktq) - 1) /\ i \in 1..Len(pktq)
            /\ i + 1 \in 1..Len(pktq)
        BY <1>1, <2>1, <2>2, <3>2
      <4>2. Explains(q, r)
        BY <2>1, <3>1, <4>1 DEF Losses
      <4>3. Explains(q, r)'
        BY <1>2, <4>2, ExplainedStays
      <4> QED
        BY <3>1, <4>3 DEF Explains, LostOf, StartLost, End
    <3>3. CASE i = Len(pktq)
      <4>1. pktq # <<>> /\ q = back /\ r = p
        BY <1>1, <2>1, <2>2, <3>1, <3>3, EmptySeq
      <4>2. q \in Packet /\ Latest(q) /\ Sent(q) /\ ExplainsGap(q)
        BY <4>1, LastArrived DEF Losses
      <4>3. Explains(q, r)'
        BY <1>2, <4>1, <4>2, GapArrives
      <4> QED
        BY <3>1, <4>3 DEF Explains, LostOf, StartLost, End
    <3> QED
      BY <1>1, <2>1, <2>2, <3>2, <3>3
  <2>3. ExplainsGap(p)'
    <3>1. p.slice \in Nat
      BY DEF Packet
    <3> QED
      BY <1>1, <1>2, <3>1 DEF ExplainsGap
  <2>4. (ExplainsGap(pktq[Len(pktq)]))'
    BY <1>1, <2>1, <2>3 DEF ExplainsGap, LostOf, StartLost
  <2>5. ASSUME slice_chain # <<>>
        PROVE  (Explains(slice_chain[Len(slice_chain)], pktq[1]))'
    <3>1. PICK q, r : q = last /\ r = pktq'[1]
      OBVIOUS
    <3>2. q \in Packet /\ Sent(q) /\ (pktq = <<>> => Latest(q))
      BY <2>5, <3>1, LastArrived
    <3>3. CASE pktq # <<>>
      <4>1. r = pktq[1] /\ Explains(q, r)
        BY <1>1, <2>1, <2>5, <3>1, <3>3, LastOf DEF Losses
      <4>2. Explains(q, r)'
        BY <1>2, <4>1, ExplainedStays
      <4> QED
        BY <1>1, <3>1, <4>2 DEF Explains, LostOf, StartLost, End
    <3>4. CASE pktq = <<>>
      <4>1. r = p /\ ExplainsGap(q)
        BY <2>1, <2>5, <3>1, <3>4, EmptySeq DEF Losses
      <4>2. Explains(q, r)'
        BY <1>2, <3>2, <3>4, <4>1, GapArrives
      <4> QED
        BY <1>1, <3>1, <4>2 DEF Explains, LostOf, StartLost, End
    <3> QED
      BY <3>3, <3>4
  <2> QED
    BY <1>1, <2>1, <2>2, <2>4, <2>5 DEF Losses
<1>3. CASE lost' = lost \cup {p} /\ pktq' = pktq
  <2>1. ASSUME NEW i \in 1..(Len(pktq) - 1) PROVE (Explains(pktq[i], pktq[i + 1]))'
    <3>1. Explains(pktq[i], pktq[i + 1])
      BY <2>1 DEF Losses
    <3> QED
      BY <1>3, <3>1 DEF Explains, LostOf, StartLost, End
  <2>2. ASSUME pktq # <<>> PROVE (ExplainsGap(pktq[Len(pktq)]))'
    <3>1. PICK q : q = back
      OBVIOUS
    <3>2. q \in Packet /\ Sent(q) /\ ExplainsGap(q)
      BY <2>2, <3>1, LastArrived DEF Losses
    <3>3. ExplainsGap(q)'
      BY <1>3, <3>2, GapGrows
    <3> QED
      BY <1>3, <3>1, <3>3 DEF ExplainsGap, LostOf, StartLost
  <2>3. ASSUME slice_chain # <<>>, pktq # <<>>
        PROVE  (Explains(slice_chain[Len(slice_chain)], pktq[1]))'
    <3>1. Explains(last, pktq[1])
      BY <2>3 DEF Losses
    <3> QED
      BY <1>1, <1>3, <3>1 DEF Explains, LostOf, StartLost, End
  <2>4. ASSUME slice_chain # <<>>, pktq = <<>>
        PROVE  (ExplainsGap(slice_chain[Len(slice_chain)]))'
    <3>1. PICK q : q = last
      OBVIOUS
    <3>2. q \in Packet /\ Sent(q) /\ ExplainsGap(q)
      BY <2>4, <3>1, LastArrived DEF Losses
    <3>3. ExplainsGap(q)'
      BY <1>3, <3>2, GapGrows
    <3> QED
      BY <1>1, <3>1, <3>3 DEF ExplainsGap, LostOf, StartLost
  <2> QED
    BY <1>1, <1>3, <2>1, <2>2, <2>3, <2>4 DEF Losses
<1> QED
  BY <1>2, <1>3, SendFacts

\* The chain after d was taken: it ends with d, if there is one.
LEMMA ChainAfter ==
  ASSUME IInv, NEW d \in Packet, Skips(d) \/ Begs(d) \/ Goes(d) \/ Drops(d)
  PROVE  /\ slice_chain' # <<>> => slice_chain'[Len(slice_chain')] = d
         /\ Begs(d) => slice_chain' # <<>> /\ Len(slice_chain') = 1 /\ slice_chain'[1] = d
         /\ Goes(d) => /\ slice_chain' # <<>> /\ Len(slice_chain') = Len(slice_chain) + 1
                       /\ Len(slice_chain) \in Nat \ {0}
                       /\ slice_chain'[Len(slice_chain) + 1] = d
                       /\ \A i \in 1..Len(slice_chain) : slice_chain'[i] = slice_chain[i]
         /\ Skips(d) \/ Drops(d) => slice_chain' = <<>>
<1>1. slice_chain \in Seq(Packet)
  BY DEF IInv, TypeOK
<1>2. CASE Begs(d)
  BY <1>2, Single DEF Begs, Goes, Skips, Drops
<1>3. CASE Goes(d)
  <2>1. /\ slice_chain' # <<>> /\ Len(slice_chain') = Len(slice_chain) + 1
        /\ Len(slice_chain) \in Nat \ {0}
        /\ slice_chain'[Len(slice_chain) + 1] = d
        /\ \A i \in 1..Len(slice_chain) : slice_chain'[i] = slice_chain[i]
    BY <1>1, <1>3, Appended, HeadTail DEF Goes
  <2> QED
    BY <1>3, <2>1 DEF Begs, Goes, Skips, Drops
<1>4. CASE Skips(d)
  BY <1>4 DEF Begs, Goes, Skips, Drops
<1>5. CASE Drops(d)
  BY <1>5 DEF Begs, Goes, Skips, Drops
<1> QED
  BY <1>2, <1>3, <1>4, <1>5

LEMMA LossesTake ==
  ASSUME IInv, Order, Losses, NEW d \in Packet, Takes(d),
         Skips(d) \/ Begs(d) \/ Goes(d) \/ Drops(d)
  PROVE  Losses'
<1>1. /\ d = pktq[1] /\ pktq # <<>> /\ Len(pktq) \in Nat \ {0}
      /\ Len(pktq') = Len(pktq) - 1
      /\ \A i \in 1..Len(pktq') : pktq'[i] = pktq[i + 1]
      /\ begin' = begin /\ gap' = gap /\ lost' = lost
  BY TakeFacts
<1>2. pktq' \in Seq(Packet)
  BY HeadTail DEF Takes, Pull, IInv, TypeOK
<1>3. ASSUME NEW i \in 1..(Len(pktq') - 1) PROVE Explains(pktq'[i], pktq'[i + 1])
  <2>1. i + 1 \in 1..(Len(pktq) - 1) /\ i \in 1..Len(pktq') /\ i + 1 \in 1..Len(pktq')
    BY <1>1, <1>3
  <2>2. Explains(pktq[i + 1], pktq[(i + 1) + 1])
    BY <2>1 DEF Losses
  <2> QED
    BY <1>1, <2>1, <2>2
<1>4. ASSUME pktq' # <<>>
      PROVE  ExplainsGap(pktq'[Len(pktq')]) /\ Explains(d, pktq'[1])
  <2>1. Len(pktq') \in Nat \ {0} /\ Len(pktq') \in 1..Len(pktq') /\ 1 \in 1..Len(pktq')
    BY <1>2, <1>4, HeadTail
  <2>2. pktq'[Len(pktq')] = pktq[Len(pktq)] /\ pktq'[1] = pktq[2]
        /\ 1 \in 1..(Len(pktq) - 1)
    BY <1>1, <2>1
  <2>3. Explains(pktq[1], pktq[1 + 1])
    BY <2>2 DEF Losses
  <2> QED
    BY <1>1, <2>2, <2>3 DEF Losses
<1>5. ASSUME pktq' = <<>> PROVE ExplainsGap(d)
  <2>1. Len(pktq) = 1
    BY <1>1, <1>5
  <2> QED
    BY <1>1, <2>1 DEF Losses
<1>6. slice_chain' # <<>> => slice_chain'[Len(slice_chain')] = d
  BY ChainAfter
<1> QED
  BY <1>1, <1>3, <1>4, <1>5, <1>6 DEF Losses, Explains, ExplainsGap, LostOf, StartLost, End

------------------------------------------------------------------------------
(***************************************************************************)
(* A slice starts where its first datagram does, and a chain is of one     *)
(* slice                                                                   *)
(***************************************************************************)
Begins ==
    /\ \A i \in 1..Len(pktq) : pktq[i].start => pktq[i].ts = begin[pktq[i].slice]
    /\ \A i \in 1..Len(slice_chain) : slice_chain[i].slice = slice_chain[1].slice
    /\ slice_chain # <<>> => slice_chain[1].ts = begin[slice_chain[1].slice]

LEMMA BeginsSend ==
  ASSUME IInv, Order, Begins, NEW p \in Packet, Sends(p)
  PROVE  Begins'
<1>1. /\ Len(begin) \in Nat /\ Len(pktq) \in Nat
      /\ Len(begin') = IF p.start THEN Len(begin) + 1 ELSE Len(begin)
      /\ \A i \in 1..Len(begin) : begin'[i] = begin[i]
      /\ p.start => begin'[Len(begin) + 1] = sent
      /\ slice_chain' = slice_chain
      /\ p.slice = Len(begin') /\ p.ts = sent
  BY SendFacts DEF Sends
<1>2. ASSUME NEW i \in 1..Len(pktq), pktq[i].start
      PROVE  pktq[i].ts = begin'[pktq[i].slice]
  <2>1. pktq[i] \in Packet /\ Sent(pktq[i]) /\ pktq[i].ts = begin[pktq[i].slice]
    BY <1>2, ChainTypes DEF Order, Begins
  <2>2. pktq[i].slice \in 1..Len(begin)
    BY <1>1, <2>1 DEF Sent, Packet
  <2> QED
    BY <1>1, <2>1, <2>2
<1>3. ASSUME NEW i \in 1..Len(pktq'), pktq'[i].start
      PROVE  pktq'[i].ts = begin'[pktq'[i].slice]
  <2>1. CASE pktq' = pktq
    BY <1>2, <1>3, <2>1
  <2>2. CASE /\ Len(pktq') = Len(pktq) + 1 /\ pktq'[Len(pktq) + 1] = p
             /\ \A k \in 1..Len(pktq) : pktq'[k] = pktq[k]
    <3>1. i \in 1..Len(pktq) \/ i = Len(pktq) + 1
      BY <1>1, <1>3, <2>2
    <3>2. p.start => p.ts = begin'[p.slice]
      BY <1>1
    <3> QED
      BY <1>2, <1>3, <2>2, <3>1, <3>2
  <2> QED
    BY <2>1, <2>2, SendFacts
<1>4. ASSUME slice_chain # <<>> PROVE slice_chain[1].ts = begin'[slice_chain[1].slice]
  <2>1. 1 \in 1..Len(slice_chain) /\ slice_chain[1] \in Packet
    BY <1>4, HeadTail DEF IInv, TypeOK
  <2>2. Sent(slice_chain[1])
    BY <2>1 DEF Order, Gone, Elements
  <2>3. slice_chain[1].slice \in 1..Len(begin)
    BY <1>1, <2>1, <2>2 DEF Sent, Packet
  <2> QED
    BY <1>1, <1>4, <2>3 DEF Begins
<1> QED
  BY <1>1, <1>3, <1>4 DEF Begins

LEMMA BeginsTake ==
  ASSUME IInv, Begins, NEW d \in Packet, Takes(d),
         Skips(d) \/ Begs(d) \/ Goes(d) \/ Drops(d)
  PROVE  Begins'
<1>1. /\ d = pktq[1] /\ 1 \in 1..Len(pktq) /\ begin' = begin
      /\ \A i \in 1..Len(pktq') : pktq'[i] = pktq[i + 1] /\ i + 1 \in 1..Len(pktq)
  BY TakeFacts
<1>2. \A i \in 1..Len(pktq') : pktq'[i].start => pktq'[i].ts = begin[pktq'[i].slice]
  BY <1>1 DEF Begins
<1>3. CASE Skips(d) \/ Drops(d)
  <2>1. slice_chain' = <<>> /\ Len(slice_chain') = 0
    BY <1>3, ChainAfter, EmptySeq
  <2> QED
    BY <1>1, <1>2, <2>1 DEF Begins
<1>4. CASE Begs(d)
  <2>1. Len(slice_chain') = 1 /\ slice_chain'[1] = d /\ d.start
    BY <1>4, ChainAfter DEF Begs
  <2>2. d.ts = begin[d.slice]
    BY <1>1, <2>1 DEF Begins
  <2> QED
    BY <1>1, <1>2, <2>1, <2>2 DEF Begins
<1>5. CASE Goes(d)
  <2>1. /\ Len(slice_chain) \in Nat \ {0}
        /\ Len(slice_chain') = Len(slice_chain) + 1
        /\ slice_chain'[Len(slice_chain) + 1] = d
        /\ \A i \in 1..Len(slice_chain) : slice_chain'[i] = slice_chain[i]
        /\ slice_chain # <<>>
        /\ d.slice = slice_chain[Len(slice_chain)].slice
    BY <1>5, ChainAfter DEF Goes
  <2>2. 1 \in 1..Len(slice_chain) /\ Len(slice_chain) \in 1..Len(slice_chain)
    BY <2>1
  <2>3. d.slice = slice_chain[1].slice
    BY <2>1, <2>2 DEF Begins
  <2>4. ASSUME NEW i \in 1..Len(slice_chain')
        PROVE  slice_chain'[i].slice = slice_chain'[1].slice
    <3>1. i \in 1..Len(slice_chain) \/ i = Len(slice_chain) + 1
      BY <2>1, <2>4
    <3> QED
      BY <2>1, <2>2, <2>3, <3>1 DEF Begins
  <2>5. slice_chain'[1].ts = begin[slice_chain'[1].slice]
    BY <2>1, <2>2 DEF Begins
  <2> QED
    BY <1>1, <1>2, <2>4, <2>5 DEF Begins
<1> QED
  BY <1>3, <1>4, <1>5

\* Where the chain under way ends and the datagram taken begins.
LEMMA ChainMeets ==
  ASSUME IInv, Order, Losses, Begins, NEW d \in Packet, Takes(d), slice_chain # <<>>,
         NEW last, last = slice_chain[Len(slice_chain)]
  PROVE  /\ last \in Packet /\ slice_chain[1] \in Packet
         /\ slice_chain[1].slice = last.slice
         /\ Precedes(last, d) /\ Explains(last, d) /\ Sent(last)
<1>1. slice_chain \in Seq(Packet) /\ d = pktq[1] /\ 1 \in 1..Len(pktq) /\ pktq # <<>>
  BY TakeFacts DEF IInv, TypeOK
<1>2. /\ last \in Packet /\ slice_chain[1] \in Packet
      /\ Len(slice_chain) \in 1..Len(slice_chain)
  BY <1>1, LastOf
<1>3. slice_chain[1].slice = last.slice
  BY <1>2 DEF Begins
<1>4. last \in Gone
  BY LastArrived
<1> QED
  BY <1>1, <1>2, <1>3, <1>4 DEF Order, Losses

------------------------------------------------------------------------------
(***************************************************************************)
(* The presentation times                                                  *)
(***************************************************************************)
LostIn(r, s) == \E l \in lost : r <= l.slice /\ l.slice <= s

\* The presentation time is that of the chain under way, or an earlier one with a
\* loss in between; it is later than what was handed on and earlier than what is to
\* come.
Stamps ==
    /\ slice_count = 0 => sliceq = <<>> /\ slice_chain = <<>>
    /\ slice_pts_ms <= Len(begin)
    /\ \A i \in 1..Len(pktq) : pktq[i].start => slice_pts_ms < pktq[i].slice
    /\ \A i \in 1..Len(sliceq) : sliceq[i].timestamp < slice_pts_ms
    /\ slice_chain # <<>> =>
          /\ slice_pts_ms <= slice_chain[1].slice
          /\ slice_pts_ms # slice_chain[1].slice
                => LostIn(slice_pts_ms, slice_chain[1].slice)
    /\ slice_count # 0 /\ slice_chain = <<>> =>
          \E l \in lost : /\ slice_pts_ms <= l.slice /\ l.slice <= Len(begin)
                          /\ \A i \in 1..Len(pktq) : l.slice <= pktq[i].slice

LEMMA StampsSend ==
  ASSUME IInv, Order, Stamps, NEW p \in Packet, Sends(p)
  PROVE  Stamps'
<1>1. /\ Len(begin) \in Nat /\ Len(pktq) \in Nat
      /\ Len(begin') = IF p.start THEN Len(begin) + 1 ELSE Len(begin)
      /\ UNCHANGED <<slice_chain, slice_pts_ms, slice_count, sliceq>>
      /\ p.slice = Len(begin') /\ lost \subseteq lost'
      /\ slice_pts_ms \in Nat
      /\ lost \subseteq Packet
  BY SendFacts DEF Sends, IInv, TypeOK
<1>2. slice_pts_ms' <= Len(begin')
  BY <1>1 DEF Stamps
<1>3. ASSUME NEW i \in 1..Len(pktq')
      PROVE  \/ i \in 1..Len(pktq) /\ pktq'[i] = pktq[i]
             \/ pktq'[i] = p
  <2>1. CASE pktq' = pktq
    BY <1>3, <2>1
  <2>2. CASE /\ Len(pktq') = Len(pktq) + 1 /\ pktq'[Len(pktq) + 1] = p
             /\ \A k \in 1..Len(pktq) : pktq'[k] = pktq[k]
    <3>1. i \in 1..Len(pktq) \/ i = Len(pktq) + 1
      BY <1>1, <1>3, <2>2
    <3> QED
      BY <2>2, <3>1
  <2> QED
    BY <2>1, <2>2, SendFacts
<1>4. ASSUME NEW i \in 1..Len(pktq'), pktq'[i].start PROVE slice_pts_ms < pktq'[i].slice
  <2>1. p.start => slice_pts_ms < p.slice
    BY <1>1 DEF Stamps
  <2> QED
    BY <1>3, <1>4, <2>1 DEF Stamps
<1>5. ASSUME slice_chain # <<>>, slice_pts_ms # slice_chain[1].slice
      PROVE  LostIn(slice_pts_ms, slice_chain[1].slice)'
  <2>1. PICK l \in lost : slice_pts_ms <= l.slice /\ l.slice <= slice_chain[1].slice
    BY <1>5 DEF Stamps, LostIn
  <2> QED
    BY <1>1, <2>1 DEF LostIn
<1>6. ASSUME slice_count # 0, slice_chain = <<>>
      PROVE  \E l \in lost' : /\ slice_pts_ms <= l.slice /\ l.slice <= Len(begin')
                              /\ \A i \in 1..Len(pktq') : l.slice <= pktq'[i].slice
  <2>1. PICK l \in lost : /\ slice_pts_ms <= l.slice /\ l.slice <= Len(begin)
                          /\ \A i \in 1..Len(pktq) : l.slice <= pktq[i].slice
    BY <1>6 DEF Stamps
  <2>2. l \in lost' /\ l.slice \in Nat
    BY <1>1, <2>1 DEF Packet
  <2>3. l.slice <= Len(begin') /\ l.slice <= p.slice
    BY <1>1, <2>1, <2>2
  <2> QED
    BY <1>3, <2>1, <2>2, <2>3
<1> QED
  BY <1>1, <1>2, <1>4, <1>5, <1>6 DEF Stamps, LostIn

LEMMA StampsTake ==
  ASSUME IInv, Order, Losses, Begins, Stamps, NEW d \in Packet, Takes(d),
         Skips(d) \/ Begs(d) \/ Goes(d) \/ Drops(d)
  PROVE  Stamps'
<1>1. /\ d = pktq[1] /\ 1 \in 1..Len(pktq) /\ Len(pktq) \in Nat \ {0}
      /\ Len(pktq') = Len(pktq) - 1
      /\ \A i \in 1..Len(pktq') : /\ pktq'[i] = pktq[i + 1]
                                  /\ i + 1 \in 1..Len(pktq) /\ i + 1 > 1
      /\ UNCHANGED <<sent, begin, gap, lost>>
  BY TakeFacts
<1>2. /\ slice_pts_ms \in Nat /\ slice_count \in Nat /\ d.slice \in Nat
      /\ Len(begin) \in Nat /\ lost \subseteq Packet
  BY LenProperties DEF IInv, TypeOK, Packet
<1>3. ASSUME NEW i \in 1..Len(pktq')
      PROVE  /\ pktq'[i] \in Packet /\ Precedes(d, pktq'[i])
             /\ pktq'[i].slice \in Nat
             /\ pktq'[i].start => slice_pts_ms < pktq'[i].slice
  <2>1. pktq'[i] \in Packet
    BY <1>1, <1>3, ChainTypes
  <2> QED
    BY <1>1, <1>3, <2>1 DEF Order, Stamps, Packet
<1>4. CASE Skips(d)
  <2>1. UNCHANGED <<slice_chain, slice_pts_ms, slice_count, sliceq>> /\ slice_chain = <<>>
    BY <1>4 DEF Skips
  <2>2. ASSUME slice_count # 0
        PROVE  \E l \in lost : /\ slice_pts_ms <= l.slice /\ l.slice <= Len(begin)
                               /\ \A i \in 1..Len(pktq') : l.slice <= pktq'[i].slice
    BY <1>1, <2>1, <2>2 DEF Stamps
  <2> QED
    BY <1>1, <1>3, <2>1, <2>2 DEF Stamps
<1>5. CASE Begs(d)
  <2>1. /\ d.start /\ slice_count' # 0
        /\ slice_chain' # <<>> /\ Len(slice_chain') = 1 /\ slice_chain'[1] = d
    BY <1>2, <1>5, ChainAfter DEF Begs
  <2>2. Sent(d) /\ slice_pts_ms < d.slice
    BY <1>1, <2>1 DEF Order, Stamps
  <2>3. \A i \in 1..Len(pktq') : pktq'[i].start => d.slice < pktq'[i].slice
    BY <1>3 DEF Precedes
  <2>4. CASE slice_chain = <<>> /\ slice_count = 0
    <3>1. slice_pts_ms' = d.slice /\ sliceq' = <<>> /\ Len(sliceq') = 0
      BY <1>5, <2>4, EmptySeq DEF Begs, Stamps
    <3> QED
      BY <1>1, <1>2, <2>1, <2>2, <2>3, <3>1 DEF Stamps, Sent
  <2>5. CASE slice_chain = <<>> /\ slice_count # 0
    <3>1. slice_pts_ms' = slice_pts_ms /\ sliceq' = sliceq
      BY <1>5, <2>5 DEF Begs
    <3>2. LostIn(slice_pts_ms, d.slice)
      BY <1>1, <2>5 DEF Stamps, LostIn
    <3> QED
      BY <1>1, <1>2, <1>3, <2>1, <2>2, <3>1, <3>2 DEF Stamps, Sent, LostIn
  <2>6. CASE slice_chain # <<>>
    <3>1. slice_pts_ms' = d.slice
      BY <1>5, <2>6 DEF Begs
    <3>2. /\ Len(sliceq) \in Nat /\ Len(sliceq') = Len(sliceq) + 1
          /\ \A k \in 1..Len(sliceq) : sliceq'[k] = sliceq[k]
          /\ sliceq'[Len(sliceq) + 1].timestamp = slice_pts_ms
      BY <1>5, <2>6, DumpFacts
    <3>3. ASSUME NEW k \in 1..Len(sliceq') PROVE sliceq'[k].timestamp < d.slice
      <4>1. CASE k \in 1..Len(sliceq)
        <5>1. sliceq[k].timestamp \in Nat /\ sliceq[k].timestamp < slice_pts_ms
          BY <4>1, ChainTypes DEF Stamps
        <5> QED
          BY <1>2, <2>2, <3>2, <4>1, <5>1
      <4>2. CASE k = Len(sliceq) + 1
        BY <2>2, <3>2, <4>2
      <4> QED
        BY <3>2, <3>3, <4>1, <4>2
    <3> QED
      BY <1>1, <1>2, <2>1, <2>2, <2>3, <3>1, <3>3 DEF Stamps, Sent
  <2> QED
    BY <2>4, <2>5, <2>6
<1>6. CASE Goes(d)
  <2>1. /\ UNCHANGED <<slice_pts_ms, slice_count, sliceq>>
        /\ slice_chain # <<>> /\ slice_chain' # <<>> /\ slice_chain'[1] = slice_chain[1]
    BY <1>6, ChainAfter DEF Goes
  <2> QED
    BY <1>1, <1>3, <2>1 DEF Stamps, LostIn
<1>7. CASE Drops(d)
  <2> PICK last : last = slice_chain[Len(slice_chain)]
    OBVIOUS
  <2>1. /\ slice_chain # <<>> /\ ~d.start /\ d.ts # End(last) /\ slice_chain' = <<>>
        /\ UNCHANGED <<slice_pts_ms, slice_count, sliceq>>
    BY <1>7 DEF Drops
  <2>2. /\ last \in Packet /\ slice_chain[1].slice = last.slice
        /\ Precedes(last, d) /\ Explains(last, d) /\ Sent(last)
    BY <2>1, ChainMeets
  <2>3. last.slice \in Nat /\ last.slice <= d.slice /\ last.slice <= Len(begin)
    BY <2>2 DEF Precedes, Sent, Packet
  <2>4. slice_pts_ms <= last.slice
    BY <2>1, <2>2 DEF Stamps
  <2>5. d.slice <= Len(begin)
    BY <1>1 DEF Order, Sent
  <2>6. \E l \in lost : slice_pts_ms <= l.slice /\ l.slice <= d.slice
    <3>1. CASE slice_pts_ms # last.slice
      <4>1. PICK l \in lost : slice_pts_ms <= l.slice /\ l.slice <= last.slice
        BY <2>1, <2>2, <3>1 DEF Stamps, LostIn
      <4>2. l.slice \in Nat
        BY <1>2, <4>1 DEF Packet
      <4> QED
        BY <1>2, <2>3, <4>1, <4>2
    <3>2. CASE slice_pts_ms = last.slice /\ d.slice = last.slice
      BY <1>2, <2>1, <2>2, <3>2 DEF Explains, LostOf
    <3>3. CASE slice_pts_ms = last.slice /\ d.slice > last.slice
      <4>1. PICK l \in lost : l.slice = last.slice + 1
        BY <2>1, <2>2, <3>3 DEF Explains, StartLost
      <4> QED
        BY <1>2, <2>3, <3>3, <4>1
    <3> QED
      BY <1>2, <2>3, <3>1, <3>2, <3>3
  <2>7. PICK l \in lost : slice_pts_ms <= l.slice /\ l.slice <= d.slice
    BY <2>6
  <2>8. l.slice \in Nat
    BY <1>2, <2>7 DEF Packet
  <2>9. l.slice <= Len(begin) /\ \A i \in 1..Len(pktq') : l.slice <= pktq'[i].slice
    BY <1>2, <1>3, <2>5, <2>7, <2>8 DEF Precedes
  <2>10. /\ slice_count' = 0 => sliceq' = <<>> /\ slice_chain' = <<>>
         /\ slice_pts_ms' <= Len(begin')
         /\ \A i \in 1..Len(pktq') : pktq'[i].start => slice_pts_ms' < pktq'[i].slice
         /\ \A i \in 1..Len(sliceq') : sliceq'[i].timestamp < slice_pts_ms'
    BY <1>1, <1>3, <2>1 DEF Stamps
  <2> QED
    BY <1>1, <2>1, <2>7, <2>9, <2>10 DEF Stamps
<1> QED
  BY <1>4, <1>5, <1>6, <1>7

LEMMA StampedTake ==
  ASSUME IInv, Stamps, TimestampsIncrease, WrongStampOnlyAfterLoss,
         NEW d \in Packet, Takes(d), Skips(d) \/ Begs(d) \/ Goes(d) \/ Drops(d)
  PROVE  TimestampsIncrease' /\ WrongStampOnlyAfterLoss'
<1>1. lost' = lost
  BY TakeFacts
<1>2. CASE sliceq' = sliceq
  BY <1>1, <1>2 DEF TimestampsIncrease, WrongStampOnlyAfterLoss
<1>3. CASE Begs(d) /\ slice_chain # <<>>
  <2>1. /\ Len(sliceq) \in Nat /\ Len(sliceq') = Len(sliceq) + 1
        /\ \A k \in 1..Len(sliceq) : sliceq'[k] = sliceq[k]
        /\ sliceq'[Len(sliceq) + 1].chain = slice_chain
        /\ sliceq'[Len(sliceq) + 1].timestamp = slice_pts_ms
    BY <1>3, DumpFacts
  <2>2. ASSUME NEW k \in 1..Len(sliceq') PROVE k \in 1..Len(sliceq) \/ k = Len(sliceq) + 1
    BY <2>1
  <2>3. ASSUME NEW i \in 1..Len(sliceq'), NEW j \in 1..Len(sliceq'), i < j
        PROVE  sliceq'[i].timestamp < sliceq'[j].timestamp
    <3>1. i \in 1..Len(sliceq)
      BY <2>1, <2>3
    <3>2. CASE j \in 1..Len(sliceq)
      BY <2>1, <2>3, <3>1, <3>2 DEF TimestampsIncrease
    <3>3. CASE j = Len(sliceq) + 1
      BY <2>1, <3>1, <3>3 DEF Stamps
    <3> QED
      BY <2>2, <2>3, <3>2, <3>3
  <2>4. /\ slice_pts_ms <= slice_chain[1].slice
        /\ slice_pts_ms # slice_chain[1].slice =>
              \E p \in lost : p.slice \in slice_pts_ms..slice_chain[1].slice
    <3>1. slice_chain[1] \in Packet
      BY <1>3, LastOf DEF IInv, TypeOK
    <3>2. slice_pts_ms \in Nat /\ slice_chain[1].slice \in Nat /\ lost \subseteq Packet
      BY <3>1 DEF IInv, TypeOK, Packet
    <3>3. ASSUME slice_pts_ms # slice_chain[1].slice
          PROVE  \E p \in lost : p.slice \in slice_pts_ms..slice_chain[1].slice
      <4>1. PICK l \in lost : slice_pts_ms <= l.slice /\ l.slice <= slice_chain[1].slice
        BY <1>3, <3>3 DEF Stamps, LostIn
      <4>2. l.slice \in Nat
        BY <3>2, <4>1 DEF Packet
      <4> QED
        BY <3>2, <4>1, <4>2
    <3> QED
      BY <1>3, <3>3 DEF Stamps
  <2>5. ASSUME NEW i \in 1..Len(sliceq')
        PROVE  /\ sliceq'[i].timestamp <= sliceq'[i].chain[1].slice
               /\ sliceq'[i].timestamp # sliceq'[i].chain[1].slice =>
                     \E p \in lost : p.slice \in
                        sliceq'[i].timestamp..sliceq'[i].chain[1].slice
    <3>1. CASE i \in 1..Len(sliceq)
      BY <2>1, <3>1 DEF WrongStampOnlyAfterLoss
    <3>2. CASE i = Len(sliceq) + 1
      BY <2>1, <2>4, <3>2
    <3> QED
      BY <2>2, <2>5, <3>1, <3>2
  <2> QED
    BY <1>1, <2>3, <2>5 DEF TimestampsIncrease, WrongStampOnlyAfterLoss
<1> QED
  BY <1>2, <1>3 DEF Skips, Begs, Goes, Drops

------------------------------------------------------------------------------
(***************************************************************************)
(* An intact slice is handed on                                            *)
(***************************************************************************)
StartWaits(s) == \E i \in 1..Len(pktq) : pktq[i].start /\ pktq[i].slice = s

\* The first datagram of a slice is lost, waits, or was taken; then nothing earlier
\* waits or is being chained.
Starts ==
    \A s \in 1..Len(begin) :
        \/ StartLost(s)
        \/ StartWaits(s)
        \/ /\ \A i \in 1..Len(pktq) : pktq[i].slice >= s
           /\ slice_chain # <<>> => slice_chain[1].slice >= s

HandedOn(s) ==
    /\ s < Len(begin)
    /\ \E i \in 1..Len(sliceq) : WholeSlice(sliceq[i].chain, s)

Intact ==
    \A s \in 1..Len(begin) :
        \/ LostOf(s) \/ StartLost(s + 1)
        \/ StartWaits(s)
        \/ slice_chain # <<>> /\ slice_chain[1].slice = s
        \/ HandedOn(s)

\* How the queue grows when the source sends.
LEMMA QueueSend ==
  ASSUME IInv, NEW p \in Packet, Sends(p)
  PROVE  /\ \A i \in 1..Len(pktq) : i \in 1..Len(pktq') /\ pktq'[i] = pktq[i]
         /\ \A i \in 1..Len(pktq') : (i \in 1..Len(pktq) /\ pktq'[i] = pktq[i])
                                        \/ pktq'[i] = p
         /\ p \in lost' \/ \E i \in 1..Len(pktq') : pktq'[i] = p
         /\ lost \subseteq lost'
<1>1. CASE pktq' = pktq /\ lost' = lost \cup {p}
  BY <1>1
<1>2. CASE /\ Len(pktq') = Len(pktq) + 1 /\ pktq'[Len(pktq) + 1] = p
           /\ \A k \in 1..Len(pktq) : pktq'[k] = pktq[k]
           /\ lost' = lost
  <2>1. Len(pktq) \in Nat
    BY SendFacts
  <2>2. /\ \A i \in 1..Len(pktq) : i \in 1..Len(pktq')
        /\ \A i \in 1..Len(pktq') : i \in 1..Len(pktq) \/ i = Len(pktq) + 1
        /\ Len(pktq) + 1 \in 1..Len(pktq')
    BY <1>2, <2>1
  <2> QED
    BY <1>2, <2>2
<1> QED
  BY <1>1, <1>2, SendFacts

LEMMA StartsSend ==
  ASSUME IInv, Order, Starts, NEW p \in Packet, Sends(p)
  PROVE  Starts'
<1>1. /\ Len(begin) \in Nat /\ slice_chain' = slice_chain
      /\ Len(begin') = IF p.start THEN Len(begin) + 1 ELSE Len(begin)
      /\ p.slice = Len(begin')
  BY SendFacts DEF Sends
<1>2. ASSUME NEW s \in 1..Len(begin')
      PROVE  \/ StartLost(s)'
             \/ StartWaits(s)'
             \/ /\ \A i \in 1..Len(pktq') : pktq'[i].slice >= s
                /\ slice_chain' # <<>> => slice_chain'[1].slice >= s
  <2>1. CASE s \in 1..Len(begin)
    <3>1. CASE StartLost(s)
      BY <3>1, QueueSend DEF StartLost
    <3>2. CASE StartWaits(s)
      BY <3>2, QueueSend DEF StartWaits
    <3>3. CASE /\ \A i \in 1..Len(pktq) : pktq[i].slice >= s
               /\ slice_chain # <<>> => slice_chain[1].slice >= s
      <4>1. p.slice >= s
        BY <1>1, <2>1
      <4>2. \A i \in 1..Len(pktq') : pktq'[i].slice >= s
        BY <3>3, <4>1, QueueSend
      <4> QED
        BY <1>1, <3>3, <4>2
    <3> QED
      BY <2>1, <3>1, <3>2, <3>3 DEF Starts
  <2>2. CASE p.start /\ p.slice = s
    BY <2>2, QueueSend DEF StartLost, StartWaits
  <2> QED
    BY <1>1, <1>2, <2>1, <2>2
<1> QED
  BY <1>2 DEF Starts

LEMMA IntactSend ==
  ASSUME IInv, Order, Intact, NEW p \in Packet, Sends(p)
  PROVE  Intact'
<1>1. /\ Len(begin) \in Nat /\ slice_chain' = slice_chain /\ sliceq' = sliceq
      /\ Len(begin') = IF p.start THEN Len(begin) + 1 ELSE Len(begin)
      /\ \A i \in 1..Len(begin) : begin'[i] = begin[i]
      /\ p.slice = Len(begin')
  BY SendFacts DEF Sends
<1>2. ASSUME NEW s \in 1..Len(begin')
      PROVE  \/ LostOf(s)' \/ StartLost(s + 1)'
             \/ StartWaits(s)'
             \/ slice_chain' # <<>> /\ slice_chain'[1].slice = s
             \/ HandedOn(s)'
  <2>1. CASE s \in 1..Len(begin)
    <3>1. CASE LostOf(s) \/ StartLost(s + 1)
      BY <3>1, QueueSend DEF LostOf, StartLost
    <3>2. CASE StartWaits(s)
      BY <3>2, QueueSend DEF StartWaits
    <3>3. CASE slice_chain # <<>> /\ slice_chain[1].slice = s
      BY <1>1, <3>3
    <3>4. CASE HandedOn(s)
      <4>1. s + 1 \in 1..Len(begin) /\ s < Len(begin')
        BY <1>1, <2>1, <3>4 DEF HandedOn
      <4>2. begin'[s] = begin[s] /\ begin'[s + 1] = begin[s + 1]
        BY <1>1, <2>1, <4>1
      <4>3. PICK i \in 1..Len(sliceq) : WholeSlice(sliceq[i].chain, s)
        BY <3>4 DEF HandedOn
      <4>4. i \in 1..Len(sliceq') /\ (WholeSlice(sliceq[i].chain, s))'
        BY <1>1, <4>2, <4>3 DEF WholeSlice
      <4> QED
        BY <4>1, <4>4 DEF HandedOn
    <3> QED
      BY <2>1, <3>1, <3>2, <3>3, <3>4 DEF Intact
  <2>2. CASE p.start /\ p.slice = s
    BY <2>2, QueueSend DEF LostOf, StartWaits
  <2> QED
    BY <1>1, <1>2, <2>1, <2>2
<1> QED
  BY <1>2 DEF Intact

\* What waits in the queue when d was taken: d was it, or it waits still.
LEMMA WaitsTake ==
  ASSUME IInv, NEW d \in Packet, Takes(d), NEW s, StartWaits(s)
  PROVE  StartWaits(s)' \/ (d.start /\ d.slice = s)
<1>1. PICK i \in 1..Len(pktq) : pktq[i].start /\ pktq[i].slice = s
  BY DEF StartWaits
<1>2. /\ d = pktq[1] /\ Len(pktq) \in Nat \ {0} /\ Len(pktq') = Len(pktq) - 1
      /\ \A k \in 1..Len(pktq') : pktq'[k] = pktq[k + 1]
  BY TakeFacts
<1>3. CASE i = 1
  BY <1>1, <1>2, <1>3
<1>4. CASE i # 1
  <2>1. i - 1 \in 1..Len(pktq') /\ (i - 1) + 1 = i
    BY <1>1, <1>2, <1>4
  <2>2. pktq'[i - 1] = pktq[i]
    BY <1>2, <2>1
  <2> QED
    BY <1>1, <2>1, <2>2 DEF StartWaits
<1> QED
  BY <1>3, <1>4

LEMMA StartsTake ==
  ASSUME IInv, Order, Starts, NEW d \in Packet, Takes(d),
         Skips(d) \/ Begs(d) \/ Goes(d) \/ Drops(d)
  PROVE  Starts'
<1>1. /\ d = pktq[1] /\ 1 \in 1..Len(pktq)
      /\ \A i \in 1..Len(pktq') : /\ pktq'[i] = pktq[i + 1]
                                  /\ i + 1 \in 1..Len(pktq) /\ i + 1 > 1
      /\ begin' = begin /\ lost' = lost
  BY TakeFacts
<1>2. ASSUME NEW i \in 1..Len(pktq')
      PROVE  d.slice <= pktq'[i].slice /\ d.slice \in Nat /\ pktq'[i].slice \in Nat
  <2>1. pktq'[i] \in Packet
    BY <1>1, <1>2, ChainTypes
  <2>2. Precedes(d, pktq'[i])
    BY <1>1, <1>2 DEF Order
  <2> QED
    BY <2>1, <2>2 DEF Precedes, Packet
<1>3. ASSUME slice_chain' # <<>>
      PROVE  \/ slice_chain'[1] = d
             \/ slice_chain # <<>> /\ ~d.start /\ slice_chain'[1] = slice_chain[1]
  <2>1. CASE Begs(d)
    BY <2>1, ChainAfter
  <2>2. CASE Goes(d)
    <3>1. 1 \in 1..Len(slice_chain)
      BY <2>2, ChainAfter
    <3> QED
      BY <2>2, <3>1, ChainAfter DEF Goes
  <2> QED
    BY <1>3, <2>1, <2>2, ChainAfter
<1>4. ASSUME d.start PROVE slice_chain' # <<>> /\ slice_chain'[1] = d
  BY <1>4, ChainAfter DEF Skips, Goes, Drops
<1>5. ASSUME NEW s \in 1..Len(begin)
      PROVE  \/ StartLost(s)'
             \/ StartWaits(s)'
             \/ /\ \A i \in 1..Len(pktq') : pktq'[i].slice >= s
                /\ slice_chain' # <<>> => slice_chain'[1].slice >= s
  <2>1. CASE StartLost(s)
    BY <1>1, <2>1 DEF StartLost
  <2>2. CASE StartWaits(s)
    <3>1. CASE d.start /\ d.slice = s
      <4>1. slice_chain'[1].slice = s
        BY <1>4, <3>1
      <4>2. \A i \in 1..Len(pktq') : pktq'[i].slice >= s
        BY <1>2, <3>1
      <4> QED
        BY <1>5, <4>1, <4>2
    <3> QED
      BY <2>2, <3>1, WaitsTake
  <2>3. CASE /\ \A i \in 1..Len(pktq) : pktq[i].slice >= s
             /\ slice_chain # <<>> => slice_chain[1].slice >= s
    <3>1. d.slice >= s /\ \A i \in 1..Len(pktq') : pktq'[i].slice >= s
      BY <1>1, <2>3
    <3> QED
      BY <1>3, <2>3, <3>1
  <2> QED
    BY <2>1, <2>2, <2>3 DEF Starts
<1> QED
  BY <1>1, <1>5 DEF Starts

LEMMA IntactTake ==
  ASSUME IInv, Order, Losses, Begins, Intact, NEW d \in Packet, Takes(d),
         Skips(d) \/ Begs(d) \/ Goes(d) \/ Drops(d)
  PROVE  Intact'
<1>1. /\ d = pktq[1] /\ 1 \in 1..Len(pktq)
      /\ begin' = begin /\ lost' = lost
  BY TakeFacts
<1>2. ASSUME d.start PROVE slice_chain' # <<>> /\ slice_chain'[1] = d
  BY <1>2, ChainAfter DEF Skips, Goes, Drops
<1>3. ASSUME NEW s \in 1..Len(begin)
      PROVE  \/ LostOf(s) \/ StartLost(s + 1)
             \/ StartWaits(s)'
             \/ slice_chain' # <<>> /\ slice_chain'[1].slice = s
             \/ HandedOn(s)'
  <2>1. CASE StartWaits(s)
    <3>1. CASE d.start /\ d.slice = s
      BY <1>2, <3>1
    <3> QED
      BY <2>1, <3>1, WaitsTake
  <2>2. CASE slice_chain # <<>> /\ slice_chain[1].slice = s
    <3> PICK last : last = slice_chain[Len(slice_chain)]
      OBVIOUS
    <3>1. /\ last \in Packet /\ slice_chain[1] \in Packet
          /\ last.slice = s
          /\ Precedes(last, d) /\ Explains(last, d)
      BY <2>2, ChainMeets
    <3>2. s \in Nat /\ d.slice \in Nat /\ d.slice >= s
      BY <3>1 DEF Precedes, Packet
    <3>3. CASE Skips(d)
      BY <2>2, <3>3 DEF Skips
    <3>4. CASE Goes(d)
      <4>1. 1 \in 1..Len(slice_chain)
        BY <3>4, ChainAfter
      <4> QED
        BY <2>2, <3>4, <4>1, ChainAfter
    <3>5. CASE Drops(d)
      <4>1. ~d.start /\ d.ts # End(last)
        BY <3>5 DEF Drops
      <4> QED
        BY <3>1, <3>2, <4>1 DEF Explains
    <3>6. CASE Begs(d)
      <4>1. d.start /\ d.slice > s
        BY <3>1, <3>2, <3>6 DEF Begs, Precedes
      <4>2. CASE d.slice = s + 1 /\ d.ts = End(last)
        <5>1. d.ts = begin[d.slice] /\ Sent(d)
          BY <1>1, <4>1 DEF Begins, Order
        <5>2. s < Len(begin)
          BY <3>2, <4>2, <5>1, LenProperties DEF Sent, IInv, TypeOK
        <5>3. slice_chain[1].ts = begin[s]
          BY <2>2 DEF Begins
        <5>4. WholeSlice(slice_chain, s)
          BY <3>1, <4>2, <5>1, <5>3 DEF WholeSlice, End
        <5> PICK k : k = Len(sliceq) + 1
          OBVIOUS
        <5>5. /\ Len(sliceq) \in Nat /\ Len(sliceq') = k
              /\ sliceq'[k].chain = slice_chain
          BY <2>2, <3>6, DumpFacts
        <5>6. k \in 1..Len(sliceq')
          BY <5>5
        <5>7. (WholeSlice(sliceq[k].chain, s))'
          BY <1>1, <5>4, <5>5 DEF WholeSlice
        <5> QED
          BY <1>1, <5>2, <5>6, <5>7 DEF HandedOn
      <4> QED
        BY <3>1, <3>2, <4>1, <4>2 DEF Explains
    <3> QED
      BY <3>3, <3>4, <3>5, <3>6
  <2>3. CASE HandedOn(s)
    <3>1. PICK i \in 1..Len(sliceq) : WholeSlice(sliceq[i].chain, s)
      BY <2>3 DEF HandedOn
    <3>2. i \in 1..Len(sliceq') /\ sliceq'[i] = sliceq[i]
      <4>1. CASE sliceq' = sliceq
        BY <3>1, <4>1
      <4>2. CASE Begs(d) /\ slice_chain # <<>>
        <5>1. /\ Len(sliceq) \in Nat /\ Len(sliceq') = Len(sliceq) + 1
              /\ \A k \in 1..Len(sliceq) : sliceq'[k] = sliceq[k]
          BY <4>2, DumpFacts
        <5> QED
          BY <3>1, <5>1
      <4> QED
        BY <4>1, <4>2 DEF Skips, Begs, Goes, Drops
    <3>3. (WholeSlice(sliceq[i].chain, s))'
      BY <1>1, <3>1, <3>2 DEF WholeSlice
    <3> QED
      BY <1>1, <2>3, <3>2, <3>3 DEF HandedOn
  <2> QED
    BY <2>1, <2>2, <2>3 DEF Intact
<1> QED
  BY <1>1, <1>3 DEF Intact, LostOf, StartLost

LEMMA IntactDelivered ==
  ASSUME IInv, Starts, Intact
  PROVE  IntactSliceDelivered
<1>1. begin \in Seq(Nat) /\ Len(begin) \in Nat
  BY LenProperties DEF IInv, TypeOK
<1>2. ASSUME NEW s \in 1..(Len(begin) - 1), Arrived(s), StartTaken(s + 1)
      PROVE  \E i \in 1..Len(sliceq) : WholeSlice(sliceq[i].chain, s)
  <2>1. s \in 1..Len(begin) /\ s + 1 \in 1..Len(begin) /\ s \in Nat
    BY <1>1, <1>2
  <2>2. ~LostOf(s) /\ ~StartLost(s + 1) /\ ~StartWaits(s + 1)
    BY <1>2 DEF Arrived, StartTaken, LostOf, StartLost, StartWaits, Elements
  <2>3. /\ \A i \in 1..Len(pktq) : pktq[i].slice >= s + 1
        /\ slice_chain # <<>> => slice_chain[1].slice >= s + 1
    BY <2>1, <2>2 DEF Starts
  <2>4. ~StartWaits(s) /\ ~(slice_chain # <<>> /\ slice_chain[1].slice = s)
    BY <2>1, <2>3 DEF StartWaits
  <2> QED
    BY <2>1, <2>2, <2>4 DEF Intact, HandedOn
<1> QED
  BY <1>2 DEF IntactSliceDelivered

------------------------------------------------------------------------------
(***************************************************************************)
(* All of it together                                                      *)
(***************************************************************************)
Whole ==
    /\ IInv
    /\ Order /\ Apart
    /\ Losses /\ Begins
    /\ Stamps /\ TimestampsIncrease /\ WrongStampOnlyAfterLoss
    /\ Starts /\ Intact

LEMMA WholeInit == Init => Whole
<1> SUFFICES ASSUME Init PROVE Whole
  OBVIOUS
<1>1. IInv
  BY InitInv
<1>2. /\ sliceq = <<>> /\ pktq = <<>> /\ slice_chain = <<>> /\ begin = <<>>
      /\ freed = {} /\ leaked = {} /\ slice_pts_ms = 0 /\ slice_count = 0
      /\ Len(sliceq) = 0 /\ Len(pktq) = 0 /\ Len(slice_chain) = 0 /\ Len(begin) = 0
  BY EmptySeq DEF Init
<1>3. 1..0 = {} /\ 1..(0 - 1) = {}
  OBVIOUS
<1>4. Passed = {} /\ Elements(slice_chain) = {} /\ Gone = {}
  BY <1>2, <1>3 DEF Passed, Elements, Gone
<1>5. Order /\ Apart
  BY <1>2, <1>3, <1>4 DEF Order, Apart
<1>6. Losses /\ Begins
  BY <1>2, <1>3 DEF Losses, Begins
<1>7. Stamps /\ TimestampsIncrease /\ WrongStampOnlyAfterLoss
  BY <1>2, <1>3 DEF Stamps, TimestampsIncrease, WrongStampOnlyAfterLoss
<1>8. Starts /\ Intact
  BY <1>2, <1>3 DEF Starts, Intact
<1> QED
  BY <1>1, <1>5, <1>6, <1>7, <1>8 DEF Whole

LEMMA WholeStep == Whole /\ [Next]_vars => Whole'
<1> SUFFICES ASSUME Whole, [Next]_vars PROVE Whole'
  OBVIOUS
<1>1. IInv'
  BY StepInv DEF Whole
<1>2. CASE UNCHANGED vars
  <2>1. UNCHANGED <<sent, begin, gap, lost, pktq, slice_pts_ms, slice_count,
                    slice_chain, sliceq, freed, leaked>>
    BY <1>2 DEF vars, source, decoder
  <2>2. Gone' = Gone
    BY <2>1 DEF Gone, Passed, Elements
  <2>3. Order' /\ Apart'
    BY <2>1, <2>2, ApartStays DEF Whole, Order, Sent
  <2>4. Losses' /\ Begins'
    BY <2>1 DEF Whole, Losses, Begins, Explains, ExplainsGap, LostOf, StartLost
  <2>5. Stamps' /\ TimestampsIncrease' /\ WrongStampOnlyAfterLoss'
    BY <2>1 DEF Whole, Stamps, TimestampsIncrease, WrongStampOnlyAfterLoss, LostIn
  <2>6. Starts' /\ Intact'
    BY <2>1 DEF Whole, Starts, Intact, LostOf, StartLost, StartWaits, HandedOn,
                WholeSlice
  <2> QED
    BY <1>1, <2>3, <2>4, <2>5, <2>6 DEF Whole
<1>3. CASE \E n \in 1..MaxTs : SendStart(n) \/ SendMore(n)
  <2>1. PICK p \in Packet : Sends(p)
    BY <1>3, Sending DEF Whole
  <2>2. Order' /\ Losses' /\ Begins' /\ Stamps' /\ Starts' /\ Intact'
    BY <2>1, OrderSend, LossesSend, BeginsSend, StampsSend, StartsSend, IntactSend
       DEF Whole
  <2>3. UNCHANGED <<slice_chain, sliceq, freed, leaked>> /\ lost \subseteq lost'
    BY <2>1, SendFacts DEF Whole
  <2>4. Apart'
    BY <2>3, ApartStays DEF Whole
  <2>5. TimestampsIncrease' /\ WrongStampOnlyAfterLoss'
    BY <2>3 DEF Whole, TimestampsIncrease, WrongStampOnlyAfterLoss
  <2> QED
    BY <1>1, <2>2, <2>4, <2>5 DEF Whole
<1>4. CASE Decode
  <2>1. PICK d \in Packet : Takes(d) /\ (Skips(d) \/ Begs(d) \/ Goes(d) \/ Drops(d))
    BY <1>4, Decoding DEF Whole
  <2>2. Order' /\ Apart' /\ Losses' /\ Begins'
    BY <2>1, OrderTake, ApartTake, LossesTake, BeginsTake DEF Whole
  <2>3. Stamps' /\ TimestampsIncrease' /\ WrongStampOnlyAfterLoss'
    BY <2>1, StampsTake, StampedTake DEF Whole
  <2>4. Starts' /\ Intact'
    BY <2>1, StartsTake, IntactTake DEF Whole
  <2> QED
    BY <1>1, <2>2, <2>3, <2>4 DEF Whole
<1> QED
  BY <1>2, <1>3, <1>4 DEF Next

\* The invariant of what follows: the order of the stream, its losses, who holds
\* what, and what becomes of every slice.
THEOREM Wholeness == Spec => []Whole
BY WholeInit, WholeStep, PTL DEF Spec

\* A descriptor taken from the queue is in one place: what waits there was sent
\* later (sx_mgmt_video_decoder.c:156-189, 305-315).
THEOREM OneOwnerCorrect == Spec => []OneOwner
<1>1. Whole => OneOwner
  BY ApartOwner DEF Whole
<1> QED
  BY <1>1, Wholeness, PTL

\* The presentation times on the SLICE queue increase strictly
\* (sx_mgmt_video_decoder.c:397-411).
THEOREM TimestampsIncreaseCorrect == Spec => []TimestampsIncrease
BY Wholeness, PTL DEF Whole

\* A slice carries its own presentation time, or, after a loss, an earlier one
\* (sx_mgmt_video_decoder.c:406-411).
THEOREM WrongStampOnlyAfterLossCorrect == Spec => []WrongStampOnlyAfterLoss
BY Wholeness, PTL DEF Whole

\* A slice of which nothing was lost is handed on whole
\* (sx_mgmt_video_decoder.c:394-455).
THEOREM IntactSliceDeliveredCorrect == Spec => []IntactSliceDelivered
<1>1. Whole => IntactSliceDelivered
  BY IntactDelivered DEF Whole
<1> QED
  BY <1>1, Wholeness, PTL
=============================================================================
