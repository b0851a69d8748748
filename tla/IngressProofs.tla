----------------------------- MODULE IngressProofs -----------------------------
(***************************************************************************)
(* The way of the datagrams to the decoders, for any datagrams and any     *)
(* modulus: a loss is reported as long as fewer datagrams are lost in a    *)
(* row than there are sequence numbers, whatever the lengths are; and if   *)
(* data_len is the length of the datagram, every datagram ends in the      *)
(* right place, behind its clock reference.                                *)
(***************************************************************************)
EXTENDS Ingress, ProofLemmas, WellFoundedInduction, NaturalsInduction

\* The last datagram received, and what the receiver remembers of it.
Numbers ==
    arrived # {} =>
        /\ sent - gap \in arrived
        /\ \A n \in arrived : n <= sent - gap
        /\ last_seq_num = (sent - gap) % SeqNums

IInv == TypeOK /\ Numbers /\ LossReported

------------------------------------------------------------------------------
(***************************************************************************)
(* Sequence numbers                                                        *)
(***************************************************************************)

\* The test of the receiver, after gap datagrams were lost, tells whether there were
\* any.
LEMMA NumbersTell ==
  ASSUME NEW last \in Int, NEW g \in 0..MaxGap
  PROVE  ((last % SeqNums) + 1) % SeqNums # (last + g + 1) % SeqNums <=> g # 0
<1> DEFINE a == last + 1
           b == last + g + 1
<1>1. /\ SeqNums \in Nat \ {0} /\ MaxGap \in Nat /\ MaxGap < SeqNums /\ g \in Nat
      /\ a \in Int /\ b \in Int /\ a <= b /\ b < a + SeqNums
      /\ a = b <=> g = 0
  BY IngressAssumption
<1>2. ((last % SeqNums) + 1) % SeqNums = a % SeqNums
  BY <1>1, Successor
<1> HIDE DEF a, b
<1>3. a % SeqNums = b % SeqNums => a = b
  BY <1>1, SameResidue
<1>4. a % SeqNums = b % SeqNums <=> g = 0
  BY <1>1, <1>3
<1> QED
  BY <1>2, <1>4 DEF b

------------------------------------------------------------------------------
(***************************************************************************)
(* The walks over the TS packets of a datagram                             *)
(***************************************************************************)
LEMMA MinOf ==
  ASSUME NEW T, T \subseteq Nat, T # {}
  PROVE  Min(T) \in T /\ \A y \in T : Min(T) <= y
<1> DEFINE R == OpToRel(<, Nat)
<1>1. IsWellFoundedOn(R, Nat)
  BY NatLessThanWellFounded
<1> HIDE DEF R
<1>2. PICK x \in T : \A y \in T : ~ (<<y, x>> \in R)
  BY <1>1, WFMin
<1>3. ASSUME NEW y \in T PROVE x <= y
  <2>1. ~ (<<y, x>> \in {ss \in Nat \X Nat : ss[1] < ss[2]})
    BY <1>2 DEF R, OpToRel
  <2> QED
    BY <2>1
<1> QED
  BY <1>3 DEF Min

LEMMA WalkedParts ==
  ASSUME NEW d \in Descriptor
  PROVE  /\ d.num \in Nat \ {0} /\ d.data \in Seq(Ts) /\ Len(d.data) \in Nat
         /\ Walked(d) \in Seq(Ts) /\ Len(Walked(d)) \in Nat
         /\ Len(Walked(d)) <= Len(d.data)
         /\ \A i \in 1..Len(Walked(d)) : Walked(d)[i] = d.data[i] /\ Walked(d)[i] \in Ts
<1> DEFINE n == (d.data_len - RtpHdr) \div TsSize
<1>1. /\ d.num \in Nat \ {0} /\ d.data \in Seq(Ts) /\ d.data_len \in Nat
      /\ d.data_len <= RtpHdr + TsSize * Len(d.data)
  BY IngressAssumption DEF Descriptor, Bytes
<1>2. Len(d.data) \in Nat
  BY <1>1, LenProperties
<1>3. n \in Int /\ n <= Len(d.data)
  BY <1>1, <1>2 DEF RtpHdr, TsSize
<1> HIDE DEF n
<1>4. /\ SubSeq(d.data, 1, n) \in Seq(Ts)
      /\ Len(SubSeq(d.data, 1, n)) = IF 1 <= n THEN n - 1 + 1 ELSE 0
      /\ \A i \in 1..(n - 1 + 1) : SubSeq(d.data, 1, n)[i] = d.data[1 + i - 1]
  BY <1>1, <1>2, <1>3, SubSeqProperties
<1> DEFINE w == Walked(d)
<1>5. w = SubSeq(d.data, 1, n)
  BY DEF Walked, n
<1> HIDE DEF w
<1>6. /\ w \in Seq(Ts) /\ Len(w) \in Nat /\ Len(w) <= Len(d.data)
      /\ Len(w) = IF 1 <= n THEN n ELSE 0
  BY <1>2, <1>3, <1>4, <1>5
<1>7. ASSUME NEW i \in 1..Len(w) PROVE w[i] = d.data[i] /\ w[i] \in Ts
  <2>1. i \in 1..(n - 1 + 1) /\ 1 + i - 1 = i
    BY <1>3, <1>6
  <2>2. w[i] = d.data[i]
    BY <1>4, <1>5, <2>1
  <2> QED
    BY <1>6, <2>2, ElementOfSeq
<1> QED
  BY <1>1, <1>2, <1>6, <1>7 DEF w

LEMMA ClockType ==
  ASSUME NEW d \in Descriptor
  PROVE  pcr_get(d) \in Nat
<1> DEFINE I == {i \in 1..Len(Walked(d)) : Walked(d)[i].pid = "pcr"}
<1>1. pcr_get(d) = LET at == IF I # {} THEN Min(I) ELSE 0
                   IN  IF at = 0 THEN 0 ELSE Walked(d)[at].ms
  BY DEF pcr_get, SelectInSeq
<1>2. I \subseteq Nat /\ I \subseteq 1..Len(Walked(d))
  BY WalkedParts
<1>3. ASSUME NEW i \in 1..Len(Walked(d)) PROVE Walked(d)[i].ms \in Nat
  BY WalkedParts DEF Ts
<1> HIDE DEF I
<1>4. CASE I = {}
  BY <1>1, <1>4
<1>5. CASE I # {}
  BY <1>1, <1>2, <1>3, <1>5, MinOf
<1> QED
  BY <1>4, <1>5

------------------------------------------------------------------------------
(***************************************************************************)
(* Types and losses                                                        *)
(***************************************************************************)
LEMMA InitInv == Init => IInv
<1> SUFFICES ASSUME Init PROVE IInv
  OBVIOUS
<1>1. /\ <<>> \in Seq(Descriptor) /\ <<>> \in Seq([num : Nat \ {0}, ms : Nat])
      /\ Len(<<>>) = 0 /\ 0 \in 0..MaxGap /\ {} \subseteq 1..0 /\ 0 \in Nat
  BY EmptySeq, IngressAssumption
<1>2. TypeOK
  <2>1. desc \in Seq(Descriptor) /\ Len(desc) = IF process_pc = "get" THEN 0 ELSE 1
    BY <1>1 DEF Init
  <2>2. arrived \subseteq 1..sent /\ reported \subseteq arrived
    BY DEF Init
  <2> QED
    BY <1>1, <2>1, <2>2 DEF Init, TypeOK
<1>3. Numbers /\ LossReported
  BY DEF Init, Numbers, LossReported
<1> QED
  BY <1>2, <1>3 DEF IInv

LEMMA LoseInv ==
  ASSUME IInv, Lose
  PROVE  IInv'
<1> USE DEF IInv
<1>1. /\ sent' = sent + 1 /\ gap' = gap + 1 /\ gap < MaxGap
      /\ UNCHANGED <<arrived, last_seq_num, reported, pktq, process_pc, desc, pcrq,
                     videoq, lpcmq, released, aborted>>
      /\ sent \in Nat /\ gap \in 0..MaxGap /\ MaxGap \in Nat
      /\ arrived \subseteq 1..sent
  BY IngressAssumption DEF Lose, receiver, outputs, TypeOK
<1>2. /\ sent' \in Nat /\ gap' \in 0..MaxGap /\ sent' - gap' = sent - gap
      /\ 1..sent \subseteq 1..sent'
  BY <1>1
<1>3. TypeOK'
  BY <1>1, <1>2 DEF TypeOK
<1>4. Numbers' /\ LossReported'
  BY <1>1, <1>2 DEF Numbers, LossReported
<1> QED
  BY <1>3, <1>4

LEMMA ReceiveInv ==
  ASSUME IInv, NEW payload \in Payloads, Receive(payload)
  PROVE  IInv'
<1> USE DEF IInv
<1> DEFINE d == [num |-> sent', data |-> payload, data_len |-> DataLen(Bytes(payload))]
<1>1. /\ sent' = sent + 1 /\ gap' = 0 /\ arrived' = arrived \cup {sent'}
      /\ reported' = IF (last_seq_num + 1) % SeqNums # sent' % SeqNums
                     THEN reported \cup {sent'} ELSE reported
      /\ last_seq_num' = sent' % SeqNums
      /\ pktq' = Append(pktq, d)
      /\ UNCHANGED <<process_pc, desc, pcrq, videoq, lpcmq, released, aborted>>
  BY DEF Receive, Missing, outputs
<1>2. /\ sent \in Nat /\ sent' \in Nat /\ gap \in 0..MaxGap /\ MaxGap \in Nat
      /\ SeqNums \in Nat \ {0} /\ reported \subseteq arrived
  BY <1>1, IngressAssumption DEF TypeOK
<1>3. \A n \in arrived : n \in Nat /\ 1 <= n /\ n <= sent
  BY DEF TypeOK
<1>4. TypeOK'
  <2>1. d \in Descriptor
    <3> DEFINE l == DataLen(Bytes(payload))
               b == Bytes(payload)
    <3>1. l \in 0..b
      BY LengthAssumption
    <3>2. d = [num |-> sent', data |-> payload, data_len |-> l] /\ sent' \in Nat \ {0}
      BY <1>1, <1>2
    <3>3. Bytes(d.data) = b
      OBVIOUS
    <3> HIDE DEF l, b, d
    <3>4. l \in Nat /\ l <= b
      BY <3>1
    <3> QED
      BY <3>2, <3>3, <3>4 DEF Descriptor
  <2> HIDE DEF d
  <2>2. pktq' \in Seq(Descriptor)
    BY <1>1, <2>1, Appended DEF TypeOK
  <2>3. last_seq_num' \in 0..(SeqNums - 1)
    BY <1>1, <1>2, DivMod
  <2>4. arrived' \subseteq 1..sent' /\ reported' \subseteq arrived'
    BY <1>1, <1>2, <1>3
  <2>5. gap' \in 0..MaxGap
    BY <1>1, <1>2
  <2> QED
    BY <1>1, <1>2, <2>2, <2>3, <2>4, <2>5 DEF TypeOK
<1> HIDE DEF d
<1>5. Numbers'
  BY <1>1, <1>2, <1>3 DEF Numbers
<1>6. ASSUME arrived # {}
      PROVE  sent' \in reported' <=> sent \notin arrived
  <2>1. /\ sent - gap \in arrived /\ \A n \in arrived : n <= sent - gap
        /\ last_seq_num = (sent - gap) % SeqNums
    BY <1>6 DEF Numbers
  <2>2. sent \notin arrived <=> gap # 0
    BY <1>2, <2>1
  <2> DEFINE last == sent - gap
  <2>3. last \in Int /\ last + gap + 1 = sent'
    BY <1>1, <1>2
  <2>4. last_seq_num = last % SeqNums
    BY <2>1
  <2> HIDE DEF last
  <2>5. (last_seq_num + 1) % SeqNums # sent' % SeqNums <=> gap # 0
    BY <1>2, <2>3, <2>4, NumbersTell
  <2>6. sent' \notin reported
    BY <1>1, <1>2, <1>3
  <2> QED
    BY <1>1, <2>2, <2>5, <2>6
<1>7. LossReported'
  <2> SUFFICES ASSUME NEW n \in arrived', NEW m \in arrived', m < n
               PROVE  n \in reported' <=> n - 1 \notin arrived'
    BY DEF LossReported
  <2>1. CASE n = sent'
    <3>1. m \in arrived
      BY <1>1, <1>2, <2>1
    <3>2. n - 1 = sent /\ (sent \in arrived' <=> sent \in arrived)
      BY <1>1, <1>2, <2>1
    <3> QED
      BY <1>6, <2>1, <3>1, <3>2
  <2>2. CASE n # sent'
    <3>1. n \in arrived
      BY <1>1, <2>2
    <3>2. n \in Nat /\ n <= sent /\ m # sent'
      BY <1>1, <1>2, <1>3, <3>1
    <3>3. m \in arrived /\ n - 1 # sent'
      BY <1>1, <1>2, <3>2
    <3>4. n \in reported <=> n - 1 \notin arrived
      BY <3>1, <3>3 DEF LossReported
    <3> QED
      BY <1>1, <2>2, <3>3, <3>4
  <2> QED
    BY <2>1, <2>2
<1> QED
  BY <1>4, <1>5, <1>7

\* The processing thread.
LEMMA ProcessInv ==
  ASSUME IInv, ReceiveFails \/ Process
  PROVE  IInv'
<1> USE DEF IInv
<1>1. UNCHANGED <<sent, gap, arrived, last_seq_num, reported>>
  BY DEF ReceiveFails, Process, ProcessGet, ProcessFails, ProcessPcr, ProcessVideo,
         ProcessAudio, ProcessNull, network, receiver
<1>2. Numbers' /\ LossReported'
  BY <1>1 DEF Numbers, LossReported
<1>3. CASE ReceiveFails \/ ProcessFails
  <2>1. /\ aborted' = TRUE
        /\ UNCHANGED <<pktq, process_pc, desc, pcrq, videoq, lpcmq, released>>
    BY <1>3 DEF ReceiveFails, ProcessFails, outputs
  <2> QED
    BY <1>1, <1>2, <2>1 DEF TypeOK
<1>4. CASE ProcessGet
  <2>1. /\ pktq # <<>> /\ desc' = <<Head(pktq)>> /\ pktq' = Tail(pktq)
        /\ process_pc' = "pcr"
        /\ UNCHANGED <<pcrq, videoq, lpcmq, released, aborted>>
    BY <1>4 DEF ProcessGet, outputs
  <2>2. pktq' \in Seq(Descriptor) /\ Head(pktq) \in Descriptor
    BY <2>1, HeadTail DEF TypeOK
  <2>3. desc' \in Seq(Descriptor) /\ Len(desc') = 1
    BY <2>1, <2>2, Single
  <2> QED
    BY <1>1, <1>2, <2>1, <2>2, <2>3 DEF TypeOK
<1>5. ASSUME process_pc # "get"
      PROVE  /\ desc \in Seq(Descriptor) /\ desc # <<>> /\ Len(desc) = 1
             /\ desc[1] \in Descriptor
  <2>1. desc \in Seq(Descriptor) /\ Len(desc) = 1
    BY <1>5 DEF TypeOK
  <2>2. desc # <<>>
    <3>1. Len(<<>>) # 1
      BY EmptySeq
    <3> QED
      BY <2>1, <3>1
  <2> QED
    BY <2>1, <2>2, LastOf
<1>6. CASE ProcessPcr
  <2> DEFINE ms == pcr_get(desc[1])
             e == [num |-> desc[1].num, ms |-> ms]
  <2>1. /\ process_pc = "pcr" /\ process_pc' = "media"
        /\ pcrq' = IF ms > 0 THEN Append(pcrq, e) ELSE pcrq
        /\ UNCHANGED <<pktq, desc, videoq, lpcmq, released, aborted>>
    BY <1>6 DEF ProcessPcr
  <2>2. desc[1].num \in Nat \ {0} /\ ms \in Nat
    BY <1>5, <2>1, WalkedParts, ClockType
  <2> HIDE DEF ms
  <2>3. e \in [num : Nat \ {0}, ms : Nat]
    BY <2>2
  <2> HIDE DEF e
  <2> QED
    BY <1>1, <1>2, <2>1, <2>3, Appended DEF TypeOK
<1>7. CASE ProcessVideo
  BY <1>1, <1>2, <1>5, <1>7, Appended, EmptySeq DEF ProcessVideo, TypeOK
<1>8. CASE ProcessAudio
  BY <1>1, <1>2, <1>5, <1>8, Appended, EmptySeq DEF ProcessAudio, TypeOK
<1>9. CASE ProcessNull
  BY <1>1, <1>2, <1>5, <1>9, Appended, EmptySeq DEF ProcessNull, TypeOK
<1> QED
  BY <1>3, <1>4, <1>6, <1>7, <1>8, <1>9 DEF Process

LEMMA StepInv == IInv /\ [Next]_vars => IInv'
<1> SUFFICES ASSUME IInv, [Next]_vars PROVE IInv'
  OBVIOUS
<1>1. CASE UNCHANGED vars
  BY <1>1 DEF IInv, TypeOK, Numbers, LossReported, vars, network, receiver, outputs
<1> QED
  BY <1>1, LoseInv, ReceiveInv, ProcessInv DEF Next

\* The inductive invariant, of every reachable state.
THEOREM Invariance == Spec => []IInv
BY InitInv, StepInv, PTL DEF Spec

\* What the network, the queues and the two threads hold keeps its type; the receiver
\* remembers a 16-bit number.
THEOREM TypeCorrect == Spec => []TypeOK
BY Invariance, PTL DEF IInv

\* A loss is reported exactly where there is one, also at a wrap-around, for any
\* modulus greater than the longest gap (sx_mgmt_data.c:61-70).
THEOREM LossReportedCorrect == Spec => []LossReported
BY Invariance, PTL DEF IInv

------------------------------------------------------------------------------
(***************************************************************************)
(* Every datagram is in one place.                                         *)
(***************************************************************************)
Nums(seq) == {seq[i].num : i \in 1..Len(seq)}

\* The numbers in a queue increase, so the i-th is not below i.
Line(seq) ==
    /\ Increasing(seq)
    /\ \A i \in 1..Len(seq) : i <= seq[i].num

Done == Nums(videoq) \cup Nums(lpcmq) \cup Nums(released)

\* The queues hold what arrived in the order of sending, each datagram once.
Placed ==
    /\ sent <= MaxSent
    /\ Line(pktq) /\ Line(desc) /\ Line(videoq) /\ Line(lpcmq) /\ Line(released)
    /\ arrived = Nums(pktq) \cup Nums(desc) \cup Done
    /\ \A x \in Done : \A y \in Nums(desc) \cup Nums(pktq) : x < y
    /\ \A x \in Nums(desc) : \A y \in Nums(pktq) : x < y
    /\ Nums(videoq) \cap Nums(lpcmq) = {}
    /\ Nums(videoq) \cap Nums(released) = {}
    /\ Nums(lpcmq) \cap Nums(released) = {}

LEMMA NoNums == Nums(<<>>) = {} /\ Line(<<>>)
<1>1. 1..Len(<<>>) = {}
  BY EmptySeq
<1> QED
  BY <1>1 DEF Nums, Line, Increasing

LEMMA NumsMember ==
  ASSUME NEW S, \A x \in S : x.num \in Nat \ {0}, NEW s \in Seq(S)
  PROVE  /\ Nums(s) \subseteq Nat \ {0}
         /\ \A i \in 1..Len(s) : s[i].num \in Nums(s) /\ s[i].num \in Nat \ {0}
<1>1. \A i \in 1..Len(s) : s[i] \in S
  BY ElementOfSeq
<1>2. \A i \in 1..Len(s) : s[i].num \in Nums(s) /\ s[i].num \in Nat \ {0}
  BY <1>1 DEF Nums
<1>3. ASSUME NEW x \in Nums(s) PROVE x \in Nat \ {0}
  <2>1. PICK i \in 1..Len(s) : x = s[i].num
    BY DEF Nums
  <2> QED
    BY <1>2, <2>1
<1> QED
  BY <1>2, <1>3

LEMMA NumsAppend ==
  ASSUME NEW S, \A x \in S : x.num \in Nat \ {0}, NEW s \in Seq(S), NEW e \in S
  PROVE  /\ Nums(Append(s, e)) = Nums(s) \cup {e.num}
         /\ Line(s) /\ (\A x \in Nums(s) : x < e.num) => Line(Append(s, e))
<1> DEFINE t == Append(s, e)
<1>1. /\ Len(s) \in Nat /\ Len(t) = Len(s) + 1 /\ t[Len(s) + 1] = e
      /\ \A i \in 1..Len(s) : t[i] = s[i]
  BY Appended
<1> HIDE DEF t
<1>2. ASSUME NEW i \in 1..Len(t)
      PROVE  i \in 1..Len(s) \/ i = Len(s) + 1
  BY <1>1
<1>3. 1..Len(s) \subseteq 1..Len(t) /\ Len(s) + 1 \in 1..Len(t)
  BY <1>1
<1>4. Nums(t) = Nums(s) \cup {e.num}
  <2>1. ASSUME NEW x \in Nums(t) PROVE x \in Nums(s) \cup {e.num}
    <3>1. PICK i \in 1..Len(t) : x = t[i].num
      BY DEF Nums
    <3> QED
      BY <1>1, <1>2, <3>1 DEF Nums
  <2>2. ASSUME NEW x \in Nums(s) PROVE x \in Nums(t)
    <3>1. PICK i \in 1..Len(s) : x = s[i].num
      BY DEF Nums
    <3>2. i \in 1..Len(t) /\ x = t[i].num
      BY <1>1, <1>3, <3>1
    <3> QED
      BY <3>2 DEF Nums
  <2>3. e.num \in Nums(t)
    <3>1. e.num = t[Len(s) + 1].num
      BY <1>1
    <3> QED
      BY <1>3, <3>1 DEF Nums
  <2> QED
    BY <2>1, <2>2, <2>3
<1>5. ASSUME Line(s), \A x \in Nums(s) : x < e.num PROVE Line(t)
  <2>1. \A i \in 1..Len(s) : s[i].num \in Nums(s) /\ s[i].num \in Nat \ {0}
    BY NumsMember
  <2>2. Increasing(t)
    <3> SUFFICES ASSUME NEW i \in 1..Len(t), NEW j \in 1..Len(t), i < j
                 PROVE  t[i].num < t[j].num
      BY DEF Increasing
    <3>1. i \in 1..Len(s)
      BY <1>1, <1>2
    <3>2. CASE j \in 1..Len(s)
      BY <1>1, <1>5, <3>1, <3>2 DEF Line, Increasing
    <3>3. CASE j = Len(s) + 1
      BY <1>1, <1>5, <2>1, <3>1, <3>3
    <3> QED
      BY <1>2, <3>2, <3>3
  <2>3. ASSUME NEW i \in 1..Len(t) PROVE i <= t[i].num
    <3>1. CASE i \in 1..Len(s)
      BY <1>1, <1>5, <3>1 DEF Line
    <3>2. CASE i = Len(s) + 1 /\ Len(s) = 0
      BY <1>1, <3>2
    <3>3. CASE i = Len(s) + 1 /\ Len(s) # 0
      <4>1. Len(s) \in 1..Len(s)
        BY <1>1, <3>3
      <4>2. Len(s) <= s[Len(s)].num /\ s[Len(s)].num < e.num
        BY <1>5, <2>1, <4>1 DEF Line
      <4>3. s[Len(s)].num \in Nat /\ e.num \in Nat
        BY <2>1, <4>1
      <4> QED
        BY <1>1, <3>3, <4>2, <4>3
    <3> QED
      BY <1>1, <1>2, <3>1, <3>2, <3>3
  <2> QED
    BY <2>2, <2>3 DEF Line
<1> QED
  BY <1>4, <1>5 DEF t

LEMMA NumsTail ==
  ASSUME NEW S, \A x \in S : x.num \in Nat \ {0}, NEW s \in Seq(S), s # <<>>, Line(s)
  PROVE  /\ Nums(s) = {Head(s).num} \cup Nums(Tail(s))
         /\ Line(Tail(s))
         /\ \A x \in Nums(Tail(s)) : Head(s).num < x
<1> DEFINE t == Tail(s)
<1>1. /\ Len(s) \in Nat \ {0} /\ Len(t) = Len(s) - 1 /\ Head(s) = s[1]
      /\ 1 \in 1..Len(s)
      /\ \A i \in 1..Len(t) : t[i] = s[i + 1] /\ i + 1 \in 1..Len(s)
  BY HeadTail
<1> HIDE DEF t
<1>2. \A i \in 1..Len(s) : s[i].num \in Nat \ {0}
  BY NumsMember
<1>3. Nums(s) = {Head(s).num} \cup Nums(t)
  <2>1. ASSUME NEW x \in Nums(s) PROVE x \in {Head(s).num} \cup Nums(t)
    <3>1. PICK i \in 1..Len(s) : x = s[i].num
      BY DEF Nums
    <3>2. CASE i = 1
      BY <1>1, <3>1, <3>2
    <3>3. CASE i # 1
      <4>1. i - 1 \in 1..Len(t) /\ (i - 1) + 1 = i
        BY <1>1, <3>3
      <4>2. x = t[i - 1].num
        BY <1>1, <3>1, <4>1
      <4> QED
        BY <4>1, <4>2 DEF Nums
    <3> QED
      BY <3>2, <3>3
  <2>2. ASSUME NEW x \in Nums(t) PROVE x \in Nums(s)
    <3>1. PICK i \in 1..Len(t) : x = t[i].num
      BY DEF Nums
    <3>2. i + 1 \in 1..Len(s) /\ x = s[i + 1].num
      BY <1>1, <3>1
    <3> QED
      BY <3>2 DEF Nums
  <2>3. Head(s).num \in Nums(s)
    BY <1>1 DEF Nums
  <2> QED
    BY <2>1, <2>2, <2>3
<1>4. ASSUME NEW x \in Nums(t) PROVE Head(s).num < x
  <2>1. PICK i \in 1..Len(t) : x = t[i].num
    BY DEF Nums
  <2>2. 1 < i + 1
    BY <1>1
  <2> QED
    BY <1>1, <2>1, <2>2 DEF Line, Increasing
<1>5. Line(t)
  <2>1. ASSUME NEW i \in 1..Len(t), NEW j \in 1..Len(t), i < j
        PROVE  t[i].num < t[j].num
    <3>1. i + 1 < j + 1
      BY <1>1, <2>1
    <3> QED
      BY <1>1, <3>1 DEF Line, Increasing
  <2>2. ASSUME NEW i \in 1..Len(t) PROVE i <= t[i].num
    <3>1. i + 1 <= s[i + 1].num /\ t[i] = s[i + 1] /\ s[i + 1].num \in Nat
      BY <1>1, <1>2 DEF Line
    <3>2. i <= s[i + 1].num
      BY <1>1, <3>1
    <3> QED
      BY <3>1, <3>2
  <2> QED
    BY <2>1, <2>2 DEF Line, Increasing
<1> QED
  BY <1>3, <1>4, <1>5 DEF t

LEMMA DescriptorNum == \A d \in Descriptor : d.num \in Nat \ {0}
BY WalkedParts

LEMMA NumsOne ==
  ASSUME NEW S, \A x \in S : x.num \in Nat \ {0}, NEW s \in Seq(S), Len(s) = 1
  PROVE  s[1] \in S /\ Nums(s) = {s[1].num} /\ Line(s)
<1>1. s[1] \in S /\ 1 \in 1..Len(s)
  BY ElementOfSeq
<1>2. \A i \in 1..Len(s) : i = 1
  OBVIOUS
<1>3. Nums(s) = {s[1].num}
  BY <1>1, <1>2 DEF Nums
<1>4. s[1].num \in Nat \ {0}
  BY <1>1
<1>5. Line(s)
  BY <1>2, <1>4 DEF Line, Increasing
<1> QED
  BY <1>1, <1>3, <1>5

LEMMA InitPlaced == Init => Placed
<1> SUFFICES ASSUME Init PROVE Placed
  OBVIOUS
<1>1. /\ pktq = <<>> /\ desc = <<>> /\ videoq = <<>> /\ lpcmq = <<>> /\ released = <<>>
      /\ arrived = {} /\ sent = 0 /\ 0 <= MaxSent
  BY IngressAssumption DEF Init
<1> QED
  BY <1>1, NoNums DEF Placed, Done

LEMMA ReceivePlaced ==
  ASSUME IInv, Placed, NEW payload \in Payloads, Receive(payload)
  PROVE  Placed'
<1> DEFINE d == [num |-> sent', data |-> payload, data_len |-> DataLen(Bytes(payload))]
<1>1. /\ sent' = sent + 1 /\ sent' <= MaxSent /\ arrived' = arrived \cup {sent'}
      /\ pktq' = Append(pktq, d) /\ sent \in Nat
      /\ UNCHANGED <<desc, videoq, lpcmq, released>>
      /\ d.num = sent'
  BY IngressAssumption DEF Receive, outputs, IInv, TypeOK
<1> HIDE DEF d
<1>2. /\ pktq' \in Seq(Descriptor) /\ Len(pktq) \in Nat
      /\ Len(pktq') = Len(pktq) + 1 /\ pktq'[Len(pktq) + 1] = d
  <2>1. pktq' \in Seq(Descriptor)
    BY ReceiveInv DEF IInv, TypeOK
  <2> QED
    BY <1>1, <2>1, AppendProperties, LenProperties DEF IInv, TypeOK
<1>3. d \in Descriptor
  <2>1. Len(pktq) + 1 \in 1..Len(pktq')
    BY <1>2
  <2> QED
    BY <1>2, <2>1, ElementOfSeq
<1>4. \A n \in arrived : n < sent'
  BY <1>1 DEF IInv, TypeOK
<1>5. Nums(pktq) \subseteq arrived /\ Nums(desc) \subseteq arrived /\ Done \subseteq arrived
  BY DEF Placed
<1>6. Nums(pktq)' = Nums(pktq) \cup {sent'} /\ Line(pktq)'
  <2>1. /\ Nums(Append(pktq, d)) = Nums(pktq) \cup {sent'}
        /\ Line(Append(pktq, d))
    <3>1. pktq \in Seq(Descriptor) /\ Line(pktq) /\ d.num = sent'
      BY <1>1 DEF Placed, IInv, TypeOK
    <3>2. \A x \in Nums(pktq) : x < d.num
      BY <1>4, <1>5, <3>1
    <3>3. /\ Nums(Append(pktq, d)) = Nums(pktq) \cup {d.num}
          /\ Line(Append(pktq, d))
      BY <1>3, <3>1, <3>2, DescriptorNum, NumsAppend
    <3> QED
      BY <3>1, <3>3
  <2>2. Nums(pktq') = Nums(pktq)' /\ (Line(pktq') <=> Line(pktq)')
    BY DEF Nums, Line, Increasing
  <2> QED
    BY <1>1, <2>1, <2>2
<1>7. /\ Nums(desc)' = Nums(desc) /\ Done' = Done
      /\ Nums(videoq)' = Nums(videoq) /\ Nums(lpcmq)' = Nums(lpcmq)
      /\ Nums(released)' = Nums(released)
      /\ Line(desc)' /\ Line(videoq)' /\ Line(lpcmq)' /\ Line(released)'
  BY <1>1 DEF Nums, Done, Line, Increasing, Placed
<1>8. arrived' = (Nums(pktq) \cup Nums(desc) \cup Done)'
  BY <1>1, <1>6, <1>7 DEF Placed
<1>9. /\ \A x \in Done' : \A y \in Nums(desc)' \cup Nums(pktq)' : x < y
      /\ \A x \in Nums(desc)' : \A y \in Nums(pktq)' : x < y
  BY <1>4, <1>5, <1>6, <1>7 DEF Placed
<1> QED
  BY <1>1, <1>6, <1>7, <1>8, <1>9 DEF Placed

LEMMA GetPlaced ==
  ASSUME IInv, Placed, ProcessGet
  PROVE  Placed'
<1> DEFINE d == Head(pktq)
<1>1. /\ pktq # <<>> /\ pktq' = Tail(pktq) /\ desc' = <<d>> /\ desc = <<>>
      /\ UNCHANGED <<sent, arrived, videoq, lpcmq, released>>
      /\ pktq \in Seq(Descriptor)
  BY EmptySeq DEF ProcessGet, network, outputs, IInv, TypeOK
<1>2. d \in Descriptor
  BY <1>1, HeadTail
<1>3. /\ Nums(pktq) = {d.num} \cup Nums(pktq') /\ Line(pktq')
      /\ \A x \in Nums(pktq') : d.num < x
  BY <1>1, DescriptorNum, NumsTail DEF Placed
<1>4. Nums(desc') = {d.num} /\ Line(desc')
  <2>1. desc' \in Seq(Descriptor) /\ Len(desc') = 1 /\ desc'[1] = d
    BY <1>1, <1>2, Single
  <2> QED
    BY <2>1, DescriptorNum, NumsOne
<1> HIDE DEF d
<1>5. /\ Nums(pktq)' = Nums(pktq') /\ Nums(desc)' = Nums(desc')
      /\ Line(pktq)' /\ Line(desc)'
  BY <1>3, <1>4 DEF Nums, Line, Increasing
<1>6. /\ Done' = Done
      /\ Nums(videoq)' = Nums(videoq) /\ Nums(lpcmq)' = Nums(lpcmq)
      /\ Nums(released)' = Nums(released)
      /\ Line(videoq)' /\ Line(lpcmq)' /\ Line(released)'
  BY <1>1 DEF Nums, Done, Line, Increasing, Placed
<1>7. Nums(desc) = {}
  BY <1>1, NoNums
<1>8. arrived' = (Nums(pktq) \cup Nums(desc) \cup Done)'
  BY <1>1, <1>3, <1>4, <1>5, <1>6, <1>7 DEF Placed
<1>9. /\ \A x \in Done' : \A y \in Nums(desc)' \cup Nums(pktq)' : x < y
      /\ \A x \in Nums(desc)' : \A y \in Nums(pktq)' : x < y
  BY <1>3, <1>4, <1>5, <1>6 DEF Placed
<1> QED
  BY <1>1, <1>5, <1>6, <1>8, <1>9 DEF Placed

\* The datagram being processed goes to the end of one queue.
LEMMA DisposePlaced ==
  ASSUME IInv, Placed, ProcessVideo \/ ProcessAudio \/ ProcessNull
  PROVE  Placed'
<1> DEFINE d == desc[1]
<1>1. /\ desc \in Seq(Descriptor) /\ Len(desc) = 1 /\ desc' = <<>>
      /\ UNCHANGED <<sent, arrived, pktq>>
      /\ videoq \in Seq(Descriptor) /\ lpcmq \in Seq(Descriptor)
      /\ released \in Seq(Descriptor)
  BY DEF ProcessVideo, ProcessAudio, ProcessNull, network, IInv, TypeOK
<1>2. d \in Descriptor /\ Nums(desc) = {d.num}
  BY <1>1, DescriptorNum, NumsOne
<1>3. \/ videoq' = Append(videoq, d) /\ UNCHANGED <<lpcmq, released>>
      \/ lpcmq' = Append(lpcmq, d) /\ UNCHANGED <<videoq, released>>
      \/ released' = Append(released, d) /\ UNCHANGED <<videoq, lpcmq>>
  BY DEF ProcessVideo, ProcessAudio, ProcessNull
<1> HIDE DEF d
<1>4. /\ \A x \in Done : x < d.num
      /\ \A y \in Nums(pktq) : d.num < y
      /\ d.num \in Nat
  BY <1>2, DescriptorNum DEF Placed
<1>5. \A x \in Nums(videoq) \cup Nums(lpcmq) \cup Nums(released) : x < d.num /\ x # d.num
  <2>1. ASSUME NEW x \in Done PROVE x \in Nat
    BY <1>1, DescriptorNum, NumsMember DEF Done
  <2> QED
    BY <1>4, <2>1 DEF Done
<1>6. /\ Nums(pktq)' = Nums(pktq) /\ Nums(desc)' = {}
      /\ Line(pktq)' /\ Line(desc)'
  BY <1>1, NoNums DEF Nums, Line, Increasing, Placed
<1>7. ASSUME NEW s \in {videoq, lpcmq, released}
      PROVE  Nums(Append(s, d)) = Nums(s) \cup {d.num} /\ Line(Append(s, d))
  <2>1. s \in Seq(Descriptor) /\ Line(s) /\ \A x \in Nums(s) : x < d.num
    BY <1>1, <1>5 DEF Placed
  <2> QED
    BY <1>2, <2>1, DescriptorNum, NumsAppend
<1>8. /\ Nums(videoq)' = Nums(videoq') /\ (Line(videoq)' <=> Line(videoq'))
      /\ Nums(lpcmq)' = Nums(lpcmq') /\ (Line(lpcmq)' <=> Line(lpcmq'))
      /\ Nums(released)' = Nums(released') /\ (Line(released)' <=> Line(released'))
      /\ Done' = Nums(videoq') \cup Nums(lpcmq') \cup Nums(released')
  BY DEF Nums, Line, Increasing, Done
<1>9. /\ Line(videoq') /\ Line(lpcmq') /\ Line(released')
      /\ Done' = Done \cup {d.num}
      /\ Nums(videoq') \cap Nums(lpcmq') = {}
      /\ Nums(videoq') \cap Nums(released') = {}
      /\ Nums(lpcmq') \cap Nums(released') = {}
  <2>1. CASE videoq' = Append(videoq, d) /\ UNCHANGED <<lpcmq, released>>
    <3>1. Nums(videoq') = Nums(videoq) \cup {d.num} /\ Line(videoq')
      BY <1>7, <2>1
    <3> QED
      BY <1>5, <1>8, <2>1, <3>1 DEF Placed, Done
  <2>2. CASE lpcmq' = Append(lpcmq, d) /\ UNCHANGED <<videoq, released>>
    <3>1. Nums(lpcmq') = Nums(lpcmq) \cup {d.num} /\ Line(lpcmq')
      BY <1>7, <2>2
    <3> QED
      BY <1>5, <1>8, <2>2, <3>1 DEF Placed, Done
  <2>3. CASE released' = Append(released, d) /\ UNCHANGED <<videoq, lpcmq>>
    <3>1. Nums(released') = Nums(released) \cup {d.num} /\ Line(released')
      BY <1>7, <2>3
    <3> QED
      BY <1>5, <1>8, <2>3, <3>1 DEF Placed, Done
  <2> QED
    BY <1>3, <2>1, <2>2, <2>3
<1>10. arrived' = (Nums(pktq) \cup Nums(desc) \cup Done)'
  BY <1>1, <1>2, <1>6, <1>9 DEF Placed
<1>11. /\ \A x \in Done' : \A y \in Nums(desc)' \cup Nums(pktq)' : x < y
       /\ \A x \in Nums(desc)' : \A y \in Nums(pktq)' : x < y
  BY <1>4, <1>6, <1>9 DEF Placed
<1> QED
  BY <1>1, <1>6, <1>8, <1>9, <1>10, <1>11 DEF Placed

LEMMA StepPlaced == IInv /\ Placed /\ [Next]_vars => Placed'
<1> SUFFICES ASSUME IInv, Placed, [Next]_vars PROVE Placed'
  OBVIOUS
<1>1. CASE /\ UNCHANGED <<arrived, pktq, desc, videoq, lpcmq, released>>
           /\ sent' <= MaxSent
  <2>1. /\ Nums(pktq)' = Nums(pktq) /\ Nums(desc)' = Nums(desc)
        /\ Nums(videoq)' = Nums(videoq) /\ Nums(lpcmq)' = Nums(lpcmq)
        /\ Nums(released)' = Nums(released)
    BY <1>1 DEF Nums
  <2>2. /\ Line(pktq)' /\ Line(desc)' /\ Line(videoq)' /\ Line(lpcmq)'
        /\ Line(released)'
    BY <1>1 DEF Line, Increasing, Placed
  <2>3. Done' = Done
    BY <2>1 DEF Done
  <2> QED
    BY <1>1, <2>1, <2>2, <2>3 DEF Placed
<1>2. CASE UNCHANGED vars
  BY <1>1, <1>2 DEF vars, network, outputs, Placed
<1>3. CASE Lose
  <2>1. sent' <= MaxSent
    BY <1>3, IngressAssumption DEF Lose, IInv, TypeOK
  <2> QED
    BY <1>1, <1>3, <2>1 DEF Lose, outputs
<1>4. CASE ReceiveFails \/ ProcessFails \/ ProcessPcr
  BY <1>1, <1>4 DEF ReceiveFails, ProcessFails, ProcessPcr, network, outputs, Placed
<1> QED
  BY <1>2, <1>3, <1>4, ReceivePlaced, GetPlaced, DisposePlaced DEF Next, Process

LEMMA LenHolders ==
  /\ Len(Holders) = 5
  /\ \A k \in 1..5 : k = 1 \/ k = 2 \/ k = 3 \/ k = 4 \/ k = 5
  /\ Holders[1] = pktq /\ Holders[2] = desc /\ Holders[3] = videoq
  /\ Holders[4] = lpcmq /\ Holders[5] = released
BY DEF Holders

\* A datagram has a place, as its position in a queue is not above its number; and one
\* place only, as the numbers of a queue increase and no two queues share one.
LEMMA OnePlace ==
  ASSUME IInv, Placed
  PROVE  InOnePlace
<1> SUFFICES ASSUME NEW n \in arrived
             PROVE  \E place \in Places(n) : Places(n) = {place}
  BY DEF InOnePlace
<1> DEFINE H(k) == Holders[k]
<1>1. \A k \in 1..5 : H(k) \in Seq(Descriptor) /\ Line(H(k))
  BY LenHolders DEF Placed, IInv, TypeOK
<1>2. \A k, l \in 1..5 : n \in Nums(H(k)) /\ n \in Nums(H(l)) => k = l
  <2>1. n \in Nat
    BY DEF IInv, TypeOK
  <2> QED
    BY <2>1, LenHolders DEF Placed, Done
<1>3. PICK k \in 1..5 : n \in Nums(H(k))
  BY LenHolders DEF Placed, Done
<1>4. PICK i \in 1..Len(H(k)) : H(k)[i].num = n
  BY <1>3 DEF Nums
<1>5. n \in Nat /\ n <= MaxSent /\ MaxSent \in Nat
  BY IngressAssumption DEF Placed, IInv, TypeOK
<1>6. i \in 1..MaxSent
  <2>1. i <= n
    BY <1>1, <1>4 DEF Line
  <2>2. i \in Nat /\ i >= 1
    OBVIOUS
  <2> QED
    BY <1>5, <2>1, <2>2
<1>7. <<k, i>> \in Places(n)
  <2>1. Len(H(k)) \in Nat
    BY <1>1, LenProperties
  <2> QED
    BY <1>4, <1>6, <2>1, LenHolders DEF Places
<1>8. ASSUME NEW p \in Places(n) PROVE p = <<k, i>>
  <2>1. /\ p \in (1..5) \X (1..MaxSent) /\ p[2] <= Len(H(p[1]))
        /\ H(p[1])[p[2]].num = n
    BY LenHolders DEF Places
  <2>2. PICK l \in 1..5, j \in 1..MaxSent : p = <<l, j>>
    BY <2>1
  <2>3. Len(H(l)) \in Nat
    BY <1>1, LenProperties
  <2>4. j \in 1..Len(H(l)) /\ H(l)[j].num = n
    BY <2>1, <2>2, <2>3
  <2>5. l = k
    BY <1>2, <1>3, <2>4 DEF Nums
  <2>6. j = i
    <3>1. ~(i < j) /\ ~(j < i)
      <4>1. Increasing(H(k))
        BY <1>1 DEF Line
      <4>2. i < j => n < n
        BY <1>4, <2>4, <2>5, <4>1 DEF Increasing
      <4>3. j < i => n < n
        BY <1>4, <2>4, <2>5, <4>1 DEF Increasing
      <4> QED
        BY <1>5, <4>2, <4>3
    <3> QED
      BY <2>4, <3>1
  <2> QED
    BY <2>2, <2>5, <2>6
<1> QED
  BY <1>7, <1>8

------------------------------------------------------------------------------
(***************************************************************************)
(* Every datagram is in the right place, if data_len is its length.        *)
(***************************************************************************)
Honest == \A n \in Nat : DataLen(n) = n

Whole(d) == d.data_len = Bytes(d.data)

Kept ==
    /\ \A i \in 1..Len(pktq) : Whole(pktq[i])
    /\ \A i \in 1..Len(desc) : Whole(desc[i])

Sorted ==
    /\ \A d \in Elements(videoq) : Carries(d, "video")
    /\ \A d \in Elements(lpcmq) : Carries(d, "audio")
    /\ \A d \in Elements(released) : ~Carries(d, "video") /\ ~Carries(d, "audio")

\* Then the walks see all the TS packets.
LEMMA WalkedWhole ==
  ASSUME NEW d \in Descriptor, Whole(d)
  PROVE  Walked(d) = d.data
<1> DEFINE n == Len(d.data)
<1>1. d.data \in Seq(Ts) /\ n \in Nat
  BY WalkedParts
<1>2. d.data_len = 12 + 188 * n
  BY DEF Whole, Bytes, RtpHdr, TsSize
<1>3. SubSeq(d.data, 1, n) = d.data
  BY <1>1, SubSeqFull
<1> HIDE DEF n
<1>4. (d.data_len - 12) \div 188 = n
  BY <1>1, <1>2
<1> QED
  BY <1>3, <1>4 DEF Walked, RtpHdr, TsSize

LEMMA TypeTells ==
  ASSUME NEW d \in Descriptor, Whole(d)
  PROVE  /\ pkt_type_get(d) = "video" => Carries(d, "video")
         /\ pkt_type_get(d) = "audio" => Carries(d, "audio")
         /\ pkt_type_get(d) = "null" => ~Carries(d, "video") /\ ~Carries(d, "audio")
<1> DEFINE I == {i \in 1..Len(d.data) : d.data[i].pid \in {"video", "audio"}}
<1>1. pkt_type_get(d) = LET at == IF I # {} THEN Min(I) ELSE 0
                        IN  IF at = 0 THEN "null" ELSE d.data[at].pid
  BY WalkedWhole DEF pkt_type_get, SelectInSeq
<1>2. CASE I = {}
  <2>1. pkt_type_get(d) = "null"
    BY <1>1, <1>2
  <2>2. \A i \in 1..Len(d.data) : d.data[i].pid \notin {"video", "audio"}
    BY <1>2
  <2> QED
    BY <2>1, <2>2 DEF Carries
<1>3. CASE I # {}
  <2> DEFINE at == Min(I)
  <2>1. at \in I
    <3>1. I \subseteq Nat
      OBVIOUS
    <3> HIDE DEF I
    <3> QED
      BY <1>3, <3>1, MinOf
  <2>2. at \in 1..Len(d.data) /\ d.data[at].pid \in {"video", "audio"}
    BY <2>1
  <2> HIDE DEF I, at
  <2>3. at # 0
    BY <2>2
  <2>4. pkt_type_get(d) = d.data[at].pid
    BY <1>1, <1>3, <2>3 DEF at
  <2> QED
    BY <2>2, <2>4 DEF Carries
<1> QED
  BY <1>2, <1>3

LEMMA ElementsAppend ==
  ASSUME NEW S, NEW s \in Seq(S), NEW e \in S
  PROVE  Elements(Append(s, e)) = Elements(s) \cup {e}
BY AppendMembers DEF Elements

LEMMA InitSorted == Init => Kept /\ Sorted
<1> SUFFICES ASSUME Init PROVE Kept /\ Sorted
  OBVIOUS
<1>1. 1..Len(<<>>) = {}
  BY EmptySeq
<1> QED
  BY <1>1 DEF Init, Kept, Sorted, Elements

LEMMA StepSorted ==
  ASSUME Honest, IInv, Kept, Sorted, [Next]_vars
  PROVE  Kept' /\ Sorted'
<1>1. ASSUME UNCHANGED <<videoq, lpcmq, released>> PROVE Sorted'
  BY <1>1 DEF Sorted, Elements
<1>2. ASSUME UNCHANGED <<pktq, desc>> PROVE Kept'
  BY <1>2 DEF Kept, Whole
<1>3. CASE \/ UNCHANGED vars \/ Lose \/ ReceiveFails \/ ProcessFails \/ ProcessPcr
  BY <1>1, <1>2, <1>3
     DEF vars, outputs, Lose, ReceiveFails, ProcessFails, ProcessPcr
<1>4. ASSUME NEW payload \in Payloads, Receive(payload) PROVE Kept' /\ Sorted'
  <2> DEFINE d == [num |-> sent', data |-> payload,
                   data_len |-> DataLen(Bytes(payload))]
  <2>1. /\ pktq' = Append(pktq, d) /\ UNCHANGED <<desc, videoq, lpcmq, released>>
        /\ pktq \in Seq(Descriptor)
    BY <1>4 DEF Receive, outputs, IInv, TypeOK
  <2>2. Whole(d)
    <3>1. Bytes(payload) \in Nat
      <4>1. Len(payload) \in Nat
        BY IngressAssumption, LenProperties
      <4> QED
        BY <4>1 DEF Bytes, RtpHdr, TsSize
    <3> QED
      BY <3>1 DEF Whole, Honest
  <2> HIDE DEF d
  <2>3. /\ Len(pktq) \in Nat /\ Len(pktq') = Len(pktq) + 1
        /\ pktq'[Len(pktq) + 1] = d
        /\ \A i \in 1..Len(pktq) : pktq'[i] = pktq[i]
    BY <2>1, AppendProperties, LenProperties
  <2>4. \A i \in 1..Len(pktq') : Whole(pktq'[i])
    BY <2>2, <2>3 DEF Kept
  <2>5. Kept'
    BY <2>1, <2>4 DEF Kept, Whole
  <2> QED
    BY <1>1, <2>1, <2>5
<1>5. CASE ProcessGet
  <2>1. /\ pktq # <<>> /\ desc' = <<Head(pktq)>> /\ pktq' = Tail(pktq)
        /\ UNCHANGED <<videoq, lpcmq, released>>
        /\ pktq \in Seq(Descriptor)
    BY <1>5 DEF ProcessGet, outputs, IInv, TypeOK
  <2>2. /\ Head(pktq) = pktq[1] /\ 1 \in 1..Len(pktq)
        /\ \A i \in 1..Len(pktq') : pktq'[i] = pktq[i + 1] /\ i + 1 \in 1..Len(pktq)
        /\ Head(pktq) \in Descriptor
    BY <2>1, HeadTail
  <2>3. Len(desc') = 1 /\ desc'[1] = Head(pktq)
    BY <2>1, <2>2, Single
  <2>4. \A i \in 1..Len(pktq') : Whole(pktq'[i])
    BY <2>2 DEF Kept
  <2>5. \A i \in 1..Len(desc') : Whole(desc'[i])
    <3>1. \A i \in 1..Len(desc') : i = 1
      BY <2>3
    <3> QED
      BY <2>2, <2>3, <3>1 DEF Kept
  <2>6. Kept'
    BY <2>4, <2>5 DEF Kept, Whole
  <2> QED
    BY <1>1, <2>1, <2>6
<1>6. CASE ProcessVideo \/ ProcessAudio \/ ProcessNull
  <2> DEFINE d == desc[1]
  <2>1. /\ desc \in Seq(Descriptor) /\ Len(desc) = 1 /\ desc' = <<>> /\ pktq' = pktq
        /\ videoq \in Seq(Descriptor) /\ lpcmq \in Seq(Descriptor)
        /\ released \in Seq(Descriptor)
    BY <1>6 DEF ProcessVideo, ProcessAudio, ProcessNull, IInv, TypeOK
  <2>2. d \in Descriptor /\ Whole(d)
    <3>1. 1 \in 1..Len(desc)
      BY <2>1
    <3> QED
      BY <2>1, <3>1, ElementOfSeq DEF Kept
  <2>3. Kept'
    <3>1. 1..Len(desc') = {}
      BY <2>1, EmptySeq
    <3> QED
      BY <2>1, <3>1 DEF Kept, Whole
  <2>4. \/ /\ pkt_type_get(d) = "video"
           /\ videoq' = Append(videoq, d) /\ UNCHANGED <<lpcmq, released>>
        \/ /\ pkt_type_get(d) = "audio"
           /\ lpcmq' = Append(lpcmq, d) /\ UNCHANGED <<videoq, released>>
        \/ /\ pkt_type_get(d) = "null"
           /\ released' = Append(released, d) /\ UNCHANGED <<videoq, lpcmq>>
    BY <1>6 DEF ProcessVideo, ProcessAudio, ProcessNull
  <2> HIDE DEF d
  <2>5. Sorted'
    <3>1. CASE /\ pkt_type_get(d) = "video"
               /\ videoq' = Append(videoq, d) /\ UNCHANGED <<lpcmq, released>>
      <4>1. Elements(videoq)' = Elements(videoq) \cup {d}
        <5>1. Elements(Append(videoq, d)) = Elements(videoq) \cup {d}
          BY <2>1, <2>2, ElementsAppend
        <5> QED
          BY <3>1, <5>1 DEF Elements
      <4> QED
        BY <2>2, <3>1, <4>1, TypeTells DEF Sorted, Elements
    <3>2. CASE /\ pkt_type_get(d) = "audio"
               /\ lpcmq' = Append(lpcmq, d) /\ UNCHANGED <<videoq, released>>
      <4>1. Elements(lpcmq)' = Elements(lpcmq) \cup {d}
        <5>1. Elements(Append(lpcmq, d)) = Elements(lpcmq) \cup {d}
          BY <2>1, <2>2, ElementsAppend
        <5> QED
          BY <3>2, <5>1 DEF Elements
      <4> QED
        BY <2>2, <3>2, <4>1, TypeTells DEF Sorted, Elements
    <3>3. CASE /\ pkt_type_get(d) = "null"
               /\ released' = Append(released, d) /\ UNCHANGED <<videoq, lpcmq>>
      <4>1. Elements(released)' = Elements(released) \cup {d}
        <5>1. Elements(Append(released, d)) = Elements(released) \cup {d}
          BY <2>1, <2>2, ElementsAppend
        <5> QED
          BY <3>3, <5>1 DEF Elements
      <4> QED
        BY <2>2, <3>3, <4>1, TypeTells DEF Sorted, Elements
    <3> QED
      BY <2>4, <3>1, <3>2, <3>3
  <2> QED
    BY <2>3, <2>5
<1> QED
  BY <1>3, <1>4, <1>5, <1>6 DEF Next, Process

\* If data_len is the length of the datagram, each one that arrived is in one place,
\* and the right one, in the order of sending (sx_mgmt_data.c:73-78,
\* sx_mgmt_m2ts_decoder.c:111-149, 194-218).
THEOREM DispatchedCorrect ==
  ASSUME Honest
  PROVE  Spec => []Dispatched
<1> DEFINE Inv == IInv /\ Placed /\ Kept /\ Sorted
<1>1. Init => Inv
  BY InitInv, InitPlaced, InitSorted
<1>2. Inv /\ [Next]_vars => Inv'
  BY StepInv, StepPlaced, StepSorted
<1>3. Inv => Dispatched
  BY OnePlace DEF Dispatched, MediaSorted, Sorted, Placed, Line
<1> QED
  BY <1>1, <1>2, <1>3, PTL DEF Spec

------------------------------------------------------------------------------
(***************************************************************************)
(* Every datagram is behind its clock reference.                           *)
(***************************************************************************)

\* The clock references of one datagram agree.
OneClock ==
    \A payload \in Payloads : \A i, j \in 1..Len(payload) :
        payload[i].pid = "pcr" /\ payload[j].pid = "pcr"
            => payload[i].ms = payload[j].ms

\* d carries a clock reference other than 0.
Clocked(d) == \E i \in 1..Len(d.data) : d.data[i].pid = "pcr" /\ d.data[i].ms > 0

Clocks ==
    /\ Line(pcrq)
    /\ \A x \in Nums(pcrq) : x <= sent
    /\ \A x \in Nums(pcrq) : \A y \in Nums(pktq) : x < y
    /\ process_pc = "pcr" => \A x \in Nums(pcrq) : x < desc[1].num
    /\ process_pc = "media" /\ Clocked(desc[1]) => desc[1].num \in Nums(pcrq)
    /\ \A d \in Elements(videoq) \cup Elements(lpcmq) \cup Elements(released) :
          Clocked(d) => d.num \in Nums(pcrq)

LEMMA ClockTells ==
  ASSUME OneClock, NEW d \in Descriptor, Whole(d), Clocked(d)
  PROVE  pcr_get(d) > 0
<1> DEFINE I == {i \in 1..Len(d.data) : d.data[i].pid = "pcr"}
           at == Min(I)
<1>1. pcr_get(d) = LET first == IF I # {} THEN Min(I) ELSE 0
                   IN  IF first = 0 THEN 0 ELSE d.data[first].ms
  BY WalkedWhole DEF pcr_get, SelectInSeq
<1>2. PICK i \in 1..Len(d.data) : d.data[i].pid = "pcr" /\ d.data[i].ms > 0
  BY DEF Clocked
<1>3. I # {} /\ I \subseteq Nat
  BY <1>2
<1>4. at \in I
  <2> HIDE DEF I
  <2> QED
    BY <1>3, MinOf
<1>5. at \in 1..Len(d.data) /\ d.data[at].pid = "pcr"
  BY <1>4
<1> HIDE DEF I, at
<1>6. at # 0
  BY <1>5
<1>7. pcr_get(d) = d.data[at].ms
  BY <1>1, <1>3, <1>6 DEF at
<1>8. d.data \in Payloads
  BY DEF Descriptor
<1>9. d.data[at].ms = d.data[i].ms
  BY <1>2, <1>5, <1>8 DEF OneClock
<1> QED
  BY <1>2, <1>7, <1>9

LEMMA InitClocks == Init => Clocks
<1> SUFFICES ASSUME Init PROVE Clocks
  OBVIOUS
<1>1. /\ pcrq = <<>> /\ videoq = <<>> /\ lpcmq = <<>> /\ released = <<>>
      /\ process_pc = "get" /\ 1..Len(<<>>) = {}
  BY EmptySeq DEF Init
<1> QED
  BY <1>1, NoNums DEF Clocks, Elements

\* The process ends; the rest stays.
LEMMA SameClocks ==
  ASSUME Clocks, IInv,
         UNCHANGED <<pktq, process_pc, desc, pcrq, videoq, lpcmq, released>>,
         sent' = sent \/ sent' = sent + 1
  PROVE  Clocks'
<1>1. Nums(pcrq)' = Nums(pcrq) /\ Nums(pktq)' = Nums(pktq) /\ Line(pcrq)'
  BY DEF Clocks, Nums, Line, Increasing
<1>2. Nums(pcrq) \subseteq Nat
  <2>1. \A x \in [num : Nat \ {0}, ms : Nat] : x.num \in Nat \ {0}
    OBVIOUS
  <2> QED
    BY <2>1, NumsMember DEF IInv, TypeOK
<1>3. \A x \in Nums(pcrq)' : x <= sent'
  BY <1>1, <1>2 DEF Clocks, IInv, TypeOK
<1>4. process_pc' = "media" /\ Clocked(desc[1])' => desc'[1].num \in Nums(pcrq)'
  BY <1>1 DEF Clocks, Clocked
<1>5. \A d \in (Elements(videoq) \cup Elements(lpcmq) \cup Elements(released))' :
         Clocked(d) => d.num \in Nums(pcrq)'
  BY <1>1 DEF Clocks, Elements
<1> QED
  BY <1>1, <1>3, <1>4, <1>5 DEF Clocks

LEMMA ReceiveClocks ==
  ASSUME Clocks, IInv, NEW payload \in Payloads, Receive(payload)
  PROVE  Clocks'
<1> DEFINE d == [num |-> sent', data |-> payload, data_len |-> DataLen(Bytes(payload))]
<1>1. /\ sent' = sent + 1 /\ pktq' = Append(pktq, d) /\ d.num = sent'
      /\ UNCHANGED <<process_pc, desc, pcrq, videoq, lpcmq, released>>
      /\ pktq \in Seq(Descriptor) /\ sent \in Nat
  BY DEF Receive, outputs, IInv, TypeOK
<1> HIDE DEF d
<1>2. d \in Descriptor
  <2>1. pktq' \in Seq(Descriptor)
    BY ReceiveInv DEF IInv, TypeOK
  <2>2. /\ Len(pktq) \in Nat /\ Len(pktq') = Len(pktq) + 1
        /\ pktq'[Len(pktq) + 1] = d
    BY <1>1, AppendProperties, LenProperties
  <2>3. Len(pktq) + 1 \in 1..Len(pktq')
    BY <2>2
  <2> QED
    BY <2>1, <2>2, <2>3, ElementOfSeq
<1>3. Nums(pktq)' = Nums(pktq) \cup {sent'}
  <2>1. Nums(Append(pktq, d)) = Nums(pktq) \cup {d.num}
    BY <1>1, <1>2, DescriptorNum, NumsAppend
  <2> QED
    BY <1>1, <2>1 DEF Nums
<1>4. Nums(pcrq)' = Nums(pcrq) /\ Line(pcrq)'
  BY <1>1 DEF Clocks, Nums, Line, Increasing
<1>5. Nums(pcrq) \subseteq Nat
  <2>1. \A x \in [num : Nat \ {0}, ms : Nat] : x.num \in Nat \ {0}
    OBVIOUS
  <2> QED
    BY <2>1, NumsMember DEF IInv, TypeOK
<1>6. \A x \in Nums(pcrq)' : x <= sent' /\ \A y \in Nums(pktq)' : x < y
  BY <1>1, <1>3, <1>4, <1>5 DEF Clocks
<1>7. process_pc' = "media" /\ Clocked(desc[1])' => desc'[1].num \in Nums(pcrq)'
  BY <1>1, <1>4 DEF Clocks, Clocked
<1>8. \A e \in (Elements(videoq) \cup Elements(lpcmq) \cup Elements(released))' :
         Clocked(e) => e.num \in Nums(pcrq)'
  BY <1>1, <1>4 DEF Clocks, Elements
<1>9. process_pc' = "pcr" => \A x \in Nums(pcrq)' : x < desc'[1].num
  BY <1>1, <1>4 DEF Clocks
<1> QED
  BY <1>4, <1>6, <1>7, <1>8, <1>9 DEF Clocks

LEMMA GetClocks ==
  ASSUME Clocks, IInv, Placed, ProcessGet
  PROVE  Clocks'
<1> DEFINE d == Head(pktq)
<1>1. /\ pktq # <<>> /\ pktq' = Tail(pktq) /\ desc' = <<d>> /\ process_pc' = "pcr"
      /\ UNCHANGED <<sent, pcrq, videoq, lpcmq, released>>
      /\ pktq \in Seq(Descriptor)
  BY DEF ProcessGet, network, outputs, IInv, TypeOK
<1>2. d \in Descriptor /\ desc'[1] = d
  BY <1>1, HeadTail, Single
<1>3. Nums(pktq) = {d.num} \cup Nums(pktq')
  BY <1>1, DescriptorNum, NumsTail DEF Placed
<1> HIDE DEF d
<1>4. Nums(pcrq)' = Nums(pcrq) /\ Line(pcrq)' /\ Nums(pktq)' = Nums(pktq')
  BY <1>1 DEF Clocks, Nums, Line, Increasing
<1>5. \A x \in Nums(pcrq)' : x <= sent' /\ x < d.num /\ \A y \in Nums(pktq)' : x < y
  BY <1>1, <1>3, <1>4 DEF Clocks
<1>6. \A e \in (Elements(videoq) \cup Elements(lpcmq) \cup Elements(released))' :
         Clocked(e) => e.num \in Nums(pcrq)'
  BY <1>1, <1>4 DEF Clocks, Elements
<1> QED
  BY <1>1, <1>2, <1>4, <1>5, <1>6 DEF Clocks

LEMMA PcrClocks ==
  ASSUME OneClock, Clocks, IInv, Placed, Kept, ProcessPcr
  PROVE  Clocks'
<1> DEFINE d == desc[1]
           e == [num |-> d.num, ms |-> pcr_get(d)]
<1>1. /\ process_pc = "pcr" /\ process_pc' = "media"
      /\ pcrq' = IF pcr_get(d) > 0 THEN Append(pcrq, e) ELSE pcrq
      /\ UNCHANGED <<sent, pktq, desc, videoq, lpcmq, released>>
      /\ desc \in Seq(Descriptor) /\ Len(desc) = 1
      /\ pcrq \in Seq([num : Nat \ {0}, ms : Nat])
  BY DEF ProcessPcr, network, IInv, TypeOK
<1>2. d \in Descriptor /\ Nums(desc) = {d.num} /\ Whole(d)
  <2>1. 1 \in 1..Len(desc)
    BY <1>1
  <2> QED
    BY <1>1, <2>1, DescriptorNum, NumsOne DEF Kept
<1>3. /\ d.num \in Nat \ {0} /\ pcr_get(d) \in Nat
      /\ d.num <= sent
      /\ \A y \in Nums(pktq) : d.num < y
      /\ \A x \in Nums(pcrq) : x < d.num
  <2>1. d.num \in arrived
    BY <1>2 DEF Placed
  <2> QED
    BY <1>1, <1>2, <2>1, DescriptorNum, ClockType DEF Placed, Clocks, IInv, TypeOK
<1>4. e.num = d.num /\ e \in [num : Nat \ {0}, ms : Nat]
  BY <1>3
<1>5. Clocked(d) => pcr_get(d) > 0
  BY <1>2, ClockTells
<1> HIDE DEF d, e
<1>6. /\ Line(pcrq)'
      /\ Nums(pcrq)' = IF pcr_get(d) > 0 THEN Nums(pcrq) \cup {d.num} ELSE Nums(pcrq)
  <2>1. CASE pcr_get(d) > 0
    <3> DEFINE E == [num : Nat \ {0}, ms : Nat]
    <3>1. (\A x \in E : x.num \in Nat \ {0}) /\ pcrq \in Seq(E) /\ e \in E
      BY <1>1, <1>4
    <3> HIDE DEF E
    <3>2. Line(pcrq) /\ \A x \in Nums(pcrq) : x < e.num
      BY <1>3, <1>4 DEF Clocks
    <3>3. /\ Nums(Append(pcrq, e)) = Nums(pcrq) \cup {e.num}
          /\ Line(Append(pcrq, e))
      BY <3>1, <3>2, NumsAppend
    <3>4. Nums(pcrq)' = Nums(pcrq') /\ (Line(pcrq') <=> Line(pcrq)')
      BY DEF Nums, Line, Increasing
    <3> QED
      BY <1>1, <1>4, <2>1, <3>3, <3>4
  <2>2. CASE ~(pcr_get(d) > 0)
    BY <1>1, <2>2 DEF Clocks, Nums, Line, Increasing
  <2> QED
    BY <2>1, <2>2
<1>7. Nums(pktq)' = Nums(pktq) /\ desc'[1] = d /\ (Clocked(desc[1])' <=> Clocked(d))
  BY <1>1 DEF Nums, Clocked, d
<1>8. \A x \in Nums(pcrq)' : x <= sent' /\ \A y \in Nums(pktq)' : x < y
  BY <1>1, <1>3, <1>6, <1>7 DEF Clocks
<1>9. Clocked(desc[1])' => desc'[1].num \in Nums(pcrq)'
  BY <1>5, <1>6, <1>7
<1>10. \A f \in (Elements(videoq) \cup Elements(lpcmq) \cup Elements(released))' :
          Clocked(f) => f.num \in Nums(pcrq)'
  BY <1>1, <1>6 DEF Clocks, Elements
<1> QED
  BY <1>1, <1>6, <1>8, <1>9, <1>10 DEF Clocks

LEMMA DisposeClocks ==
  ASSUME Clocks, IInv, ProcessVideo \/ ProcessAudio \/ ProcessNull
  PROVE  Clocks'
<1> DEFINE d == desc[1]
<1>1. /\ process_pc = "media" /\ process_pc' = "get"
      /\ UNCHANGED <<sent, pktq, pcrq>>
      /\ desc \in Seq(Descriptor) /\ Len(desc) = 1
      /\ videoq \in Seq(Descriptor) /\ lpcmq \in Seq(Descriptor)
      /\ released \in Seq(Descriptor)
  BY DEF ProcessVideo, ProcessAudio, ProcessNull, network, IInv, TypeOK
<1>2. d \in Descriptor
  BY <1>1, DescriptorNum, NumsOne
<1>3. \/ videoq' = Append(videoq, d) /\ UNCHANGED <<lpcmq, released>>
      \/ lpcmq' = Append(lpcmq, d) /\ UNCHANGED <<videoq, released>>
      \/ released' = Append(released, d) /\ UNCHANGED <<videoq, lpcmq>>
  BY DEF ProcessVideo, ProcessAudio, ProcessNull
<1>4. Clocked(d) => d.num \in Nums(pcrq)
  BY <1>1 DEF Clocks
<1> HIDE DEF d
<1>5. ASSUME NEW s \in {videoq, lpcmq, released}
      PROVE  Elements(Append(s, d)) = Elements(s) \cup {d}
  BY <1>1, <1>2, ElementsAppend
<1>6. /\ Elements(videoq)' = Elements(videoq') /\ Elements(lpcmq)' = Elements(lpcmq')
      /\ Elements(released)' = Elements(released')
  BY DEF Elements
<1>7. (Elements(videoq) \cup Elements(lpcmq) \cup Elements(released))'
          = (Elements(videoq) \cup Elements(lpcmq) \cup Elements(released)) \cup {d}
  BY <1>3, <1>5, <1>6
<1>8. Nums(pcrq)' = Nums(pcrq) /\ Nums(pktq)' = Nums(pktq) /\ Line(pcrq)'
  BY <1>1 DEF Clocks, Nums, Line, Increasing
<1>9. \A f \in (Elements(videoq) \cup Elements(lpcmq) \cup Elements(released))' :
         Clocked(f) => f.num \in Nums(pcrq)'
  BY <1>4, <1>7, <1>8 DEF Clocks
<1> QED
  BY <1>1, <1>8, <1>9 DEF Clocks

LEMMA StepClocks ==
  ASSUME OneClock, IInv, Placed, Kept, Clocks, [Next]_vars
  PROVE  Clocks'
<1>1. CASE UNCHANGED vars \/ Lose \/ ReceiveFails \/ ProcessFails
  BY <1>1, SameClocks
     DEF vars, network, outputs, Lose, ReceiveFails, ProcessFails
<1> QED
  BY <1>1, ReceiveClocks, GetClocks, PcrClocks, DisposeClocks DEF Next, Process

LEMMA ElementsConcat ==
  ASSUME NEW S, NEW s \in Seq(S), NEW t \in Seq(S)
  PROVE  Elements(s \o t) \subseteq Elements(s) \cup Elements(t)
<1> DEFINE r == s \o t
<1>1. /\ Len(s) \in Nat /\ Len(t) \in Nat /\ Len(r) = Len(s) + Len(t)
      /\ \A i \in 1..Len(r) : r[i] = IF i <= Len(s) THEN s[i] ELSE t[i - Len(s)]
  BY ConcatProperties, LenProperties
<1> HIDE DEF r
<1>2. ASSUME NEW i \in 1..Len(r) PROVE r[i] \in Elements(s) \cup Elements(t)
  <2>1. CASE i <= Len(s)
    BY <1>1, <2>1 DEF Elements
  <2>2. CASE ~(i <= Len(s))
    <3>1. i - Len(s) \in 1..Len(t)
      BY <1>1, <2>2
    <3> QED
      BY <1>1, <2>2, <3>1 DEF Elements
  <2> QED
    BY <2>1, <2>2
<1>3. ASSUME NEW x \in Elements(r) PROVE x \in Elements(s) \cup Elements(t)
  <2>1. PICK i \in 1..Len(r) : x = r[i]
    BY DEF Elements
  <2> QED
    BY <1>2, <2>1
<1> QED
  BY <1>3 DEF r

\* If data_len is the length of the datagram and the clock references of one datagram
\* agree, no datagram passes its clock reference
\* (sx_mgmt_m2ts_decoder.c:176-194).
THEOREM ClockAheadCorrect ==
  ASSUME Honest, OneClock
  PROVE  Spec => []ClockAhead
<1> DEFINE Inv == IInv /\ Placed /\ Kept /\ Sorted /\ Clocks
<1>1. Init => Inv
  BY InitInv, InitPlaced, InitSorted, InitClocks
<1>2. Inv /\ [Next]_vars => Inv'
  BY StepInv, StepPlaced, StepSorted, StepClocks
<1>3. Inv => ClockAhead
  <2> SUFFICES ASSUME Inv,
                      NEW d \in Elements(videoq \o lpcmq \o released), Clocked(d)
               PROVE  \E e \in Elements(pcrq) : e.num = d.num
    BY DEF ClockAhead, Clocks, Line, Clocked
  <2>1. /\ videoq \in Seq(Descriptor) /\ lpcmq \in Seq(Descriptor)
        /\ released \in Seq(Descriptor)
    BY DEF IInv, TypeOK
  <2>2. videoq \o lpcmq \in Seq(Descriptor)
    BY <2>1, ConcatProperties
  <2>3. d \in Elements(videoq) \cup Elements(lpcmq) \cup Elements(released)
    BY <2>1, <2>2, ElementsConcat
  <2>4. d.num \in Nums(pcrq)
    BY <2>3 DEF Clocks
  <2> QED
    BY <2>4 DEF Nums, Elements
<1> QED
  BY <1>1, <1>2, <1>3, PTL DEF Spec
=============================================================================
