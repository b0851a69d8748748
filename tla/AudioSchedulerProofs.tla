------------------------- MODULE AudioSchedulerProofs -------------------------
(***************************************************************************)
(* The audio scheduler for any lengths of time, any number of hardware     *)
(* buffers the assumptions admit and any number of slices: a buffer is     *)
(* always there when the thread takes one, no buffer is lost or on two     *)
(* lists, and every slice goes to the component once, in order.            *)
(***************************************************************************)
EXTENDS AudioScheduler, FiniteSetTheorems, ProofLemmas

\* No buffer is lost, and only the one being filled is on the user list.
Counted ==
    /\ Len(in_list) + Len(user_buffer_list) + Len(submitted) + Len(taken) = NumBufs
    /\ user_buffer_list = IF pc = "set" THEN <<buf>> ELSE <<>>
    /\ Elements(in_list) \cup Elements(user_buffer_list)
           \cup Elements(submitted) \cup Elements(taken) = Bufs

\* A buffer the component holds and has taken in is one it has yet to play.
Behind == Len(taken) <= Len(playing)

\* The buffers with the component, and those the thread will still submit before it
\* asks for the latency again, are not more than there are.
Room ==
    LET held == Len(submitted) + Len(taken)
    IN  /\ pc = "pull" => held + slices_to_queue <= NumBufs
        /\ pc \in {"total", "speed", "get", "set"} =>
               held + 1 + slices_to_queue <= NumBufs

IInv == TypeOK /\ Counted /\ Behind /\ Room

LEMMA Filling ==
  ASSUME NEW T \in Nat, NEW S \in Nat \ {0}, NEW k \in Nat, NEW h \in 1..S,
         NEW M \in Nat, M = IF k = 0 THEN 0 ELSE (k - 1) * S + h, M < T
  PROVE  LET n == (T - M + S) \div S
         IN  /\ n \in 0..((T \div S) + 1)
             /\ n + k <= ((T + S - 1) \div S) + 1
<1> DEFINE a == T - M + S
           b == T + S - 1
           n == a \div S
           c == b \div S
           d == T \div S
<1>1. a \in Int /\ b \in Int
  OBVIOUS
<1>2. /\ n \in Int /\ c \in Int /\ d \in Int
      /\ S * n <= a /\ a < S * n + S
      /\ S * c <= b /\ b < S * c + S
      /\ S * d <= T /\ T < S * d + S
  <2>1. /\ n \in Int /\ a = S * n + (a % S) /\ a % S \in 0..(S - 1)
    BY <1>1, DivMod
  <2>2. /\ c \in Int /\ b = S * c + (b % S) /\ b % S \in 0..(S - 1)
    BY <1>1, DivMod
  <2>3. /\ d \in Int /\ T = S * d + (T % S) /\ T % S \in 0..(S - 1)
    BY DivMod
  <2> HIDE DEF a, b, n, c, d
  <2> QED
    BY <1>1, <2>1, <2>2, <2>3
<1> HIDE DEF n, c, d
<1>3. n >= 0
  <2>1. CASE n < 0
    <3>1. S * 0 >= S * n + S
      BY <1>2, <2>1, AtLeastOneMore
    <3> QED
      BY <1>2, <3>1
  <2> QED
    BY <1>2, <2>1
<1>4. n <= d + 1
  <2>1. CASE d + 1 < n
    <3>1. S * n >= S * (d + 1) + S
      BY <1>2, <2>1, AtLeastOneMore
    <3>2. S * (d + 1) = S * d + S
      BY <1>2
    <3> QED
      BY <1>2, <3>1, <3>2
  <2> QED
    BY <1>2, <2>1
<1>5. CASE k = 0
  <2>1. CASE c + 1 < n
    <3>1. S * n >= S * (c + 1) + S
      BY <1>2, <2>1, AtLeastOneMore
    <3>2. S * (c + 1) = S * c + S
      BY <1>2
    <3> QED
      BY <1>2, <1>5, <3>1, <3>2
  <2> QED
    BY <1>2, <1>3, <1>4, <1>5, <2>1 DEF n, c, d
<1>6. CASE k # 0
  <2>1. (k - 1) * S = S * (k - 1) /\ S * (n + (k - 1)) = S * n + S * (k - 1)
    BY <1>2
  <2>2. M >= S * (k - 1) + 1
    BY <1>6, <2>1
  <2>3. S * (n + (k - 1)) <= b
    BY <1>2, <2>1, <2>2
  <2>4. CASE c < n + (k - 1)
    <3>1. n + (k - 1) \in Int
      BY <1>2
    <3>2. S * (n + (k - 1)) >= S * c + S
      BY <1>2, <2>4, <3>1, AtLeastOneMore
    <3> QED
      BY <1>2, <2>3, <3>2
  <2> QED
    BY <1>2, <1>3, <1>4, <2>4 DEF n, c, d
<1> QED
  BY <1>5, <1>6

LEMMA MsLeftType ==
  ASSUME TypeOK
  PROVE  MsLeft \in Nat
<1>1. SliceMs \in Nat \ {0} /\ Len(playing) \in Nat /\ head_ms \in 1..SliceMs
  BY SchedulerAssumption, LenProperties DEF TypeOK
<1>2. playing # <<>> => Len(playing) - 1 \in Nat
  BY EmptySeq DEF TypeOK
<1>3. playing # <<>> => (Len(playing) - 1) * SliceMs \in Nat
  BY <1>1, <1>2
<1> QED
  BY <1>1, <1>3 DEF MsLeft

LEMMA NoElements ==
  /\ Elements(<<>>) = {} /\ Len(<<>>) = 0
  /\ \A e : Elements(<<e>>) = {e} /\ Len(<<e>>) = 1
BY DEF Elements

\* A buffer is taken from the front of a list, or put at its end.
LEMMA TakenFrom ==
  ASSUME NEW s \in Seq(Bufs), s # <<>>
  PROVE  /\ Head(s) \in Bufs /\ Tail(s) \in Seq(Bufs) /\ Len(s) \in Nat
         /\ Len(Tail(s)) = Len(s) - 1
         /\ Elements(s) = {Head(s)} \cup Elements(Tail(s))
<1>1. /\ Head(s) \in Bufs /\ Tail(s) \in Seq(Bufs) /\ Len(s) \in Nat
      /\ Len(Tail(s)) = Len(s) - 1
  BY HeadTail
<1> QED
  BY <1>1, HeadTailMembers DEF Elements

LEMMA PutBehind ==
  ASSUME NEW s \in Seq(Bufs), NEW b \in Bufs
  PROVE  /\ Append(s, b) \in Seq(Bufs) /\ Len(s) \in Nat
         /\ Len(Append(s, b)) = Len(s) + 1
         /\ Elements(Append(s, b)) = Elements(s) \cup {b}
<1>1. /\ Append(s, b) \in Seq(Bufs) /\ Len(s) \in Nat
      /\ Len(Append(s, b)) = Len(s) + 1
  BY Appended
<1> QED
  BY <1>1, AppendMembers DEF Elements

LEMMA InitInv == Init => IInv
<1> SUFFICES ASSUME Init PROVE IInv
  OBVIOUS
<1>1. /\ <<>> \in Seq(Slices) /\ <<>> \in Seq(Bufs) /\ <<>> \in Seq(0..MaxSlices)
      /\ Len(<<>>) = 0
  BY EmptySeq
<1>2. in_list \in Seq(Bufs) /\ Len(in_list) = NumBufs /\ Elements(in_list) = Bufs
  <2>1. NumBufs \in Nat /\ in_list \in [1..NumBufs -> Bufs]
    BY SchedulerAssumption DEF Init, Bufs
  <2>2. in_list \in Seq(Bufs)
    BY <2>1, SeqDef
  <2>3. Len(in_list) = NumBufs
    BY <2>1, <2>2, LenProperties
  <2> QED
    BY <2>2, <2>3 DEF Elements, Init, Bufs
<1>3. 0 \in 0..((Target \div SliceMs) + 1)
  BY SchedulerAssumption, DivMod
<1>4. TypeOK
  BY <1>1, <1>2, <1>3, SchedulerAssumption DEF Init, TypeOK, Speed
<1>5. Counted
  BY <1>1, <1>2, NoElements, SchedulerAssumption DEF Init, Counted
<1>6. Behind /\ Room
  BY <1>1 DEF Init, Behind, Room
<1> QED
  BY <1>4, <1>5, <1>6 DEF IInv

LEMMA DecoderPutsInv ==
  ASSUME IInv, DecoderPuts
  PROVE  IInv'
<1> USE DEF IInv
<1>1. sent + 1 \in Slices /\ sent' \in 0..MaxSlices
  BY SchedulerAssumption DEF DecoderPuts, TypeOK, Slices
<1>2. sliceq' \in Seq(Slices)
  BY <1>1, Appended DEF DecoderPuts, TypeOK
<1>3. TypeOK'
  BY <1>1, <1>2 DEF DecoderPuts, TypeOK, locals, sink, component
<1>4. (Counted /\ Behind /\ Room)'
  BY DEF DecoderPuts, Counted, Behind, Room, locals, sink, component
<1> QED
  BY <1>3, <1>4

LEMMA WatchInv ==
  ASSUME IInv, Activate \/ ReadLeft \/ ReadTotal \/ AdjustSpeed
  PROVE  IInv'
<1> USE DEF IInv
<1>1. Len(sliceq) * SliceMs \in Nat
  BY SchedulerAssumption, LenProperties DEF TypeOK
<1>2. \A ms : Demanded(ms) \in Speed
  BY DEF Demanded, Speed
<1>3. CASE Activate
  BY <1>3 DEF Activate, TypeOK, Counted, Behind, Room, locals, sink, component
<1>4. CASE ReadLeft
  BY <1>1, <1>4 DEF ReadLeft, TypeOK, Counted, Behind, Room, sink, component
<1>5. CASE ReadTotal
  BY <1>1, <1>5 DEF ReadTotal, TypeOK, Counted, Behind, Room, sink, component
<1>6. CASE AdjustSpeed
  <2>1. scale' \in Speed /\ playback_speed' \in Speed
    BY <1>2, <1>6 DEF AdjustSpeed, TypeOK
  <2> QED
    BY <1>6, <2>1 DEF AdjustSpeed, TypeOK, Counted, Behind, Room, sink, component
<1> QED
  BY <1>3, <1>4, <1>5, <1>6

\* What the thread asks for fits in the buffers the component has no use for.
LEMMA DecideInv ==
  ASSUME IInv, Decide
  PROVE  IInv'
<1> USE DEF IInv
<1>1. /\ MsLeft \in Nat /\ Len(playing) \in Nat /\ Len(submitted) \in Nat
      /\ Len(taken) \in Nat
  BY MsLeftType, LenProperties DEF TypeOK
<1>2. /\ SliceMs \in Nat \ {0} /\ Target \in Nat /\ head_ms \in 1..SliceMs
      /\ MaxLag \in Nat /\ NumBufs \in Nat
  BY SchedulerAssumption DEF TypeOK
<1>3. MsLeft = IF Len(playing) = 0 THEN 0 ELSE (Len(playing) - 1) * SliceMs + head_ms
  BY EmptySeq DEF MsLeft, TypeOK
<1> DEFINE n == (Target - MsLeft + SliceMs) \div SliceMs
           c == (Target + SliceMs - 1) \div SliceMs
<1>4. MsLeft < Target => /\ n \in 0..((Target \div SliceMs) + 1)
                         /\ n + Len(playing) <= c + 1
  BY <1>1, <1>2, <1>3, Filling
<1>5. Len(submitted) <= MaxLag /\ Len(taken) <= Len(playing)
  BY DEF Decide, Answers, Behind
<1>6. c \in Int /\ NumBufs >= c + 1 + MaxLag
  BY <1>2, DivMod, BuffersAssumption, Target + SliceMs - 1 \in Int
<1>7. \/ /\ pc' = "idle" /\ slices_to_queue' = slices_to_queue
      \/ /\ pc' = "pull" /\ slices_to_queue' = n /\ MsLeft < Target
  BY DEF Decide
<1> HIDE DEF n, c
<1>8. pc' = "pull" => /\ slices_to_queue' \in 0..((Target \div SliceMs) + 1)
                      /\ Len(submitted) + Len(taken) + slices_to_queue' <= NumBufs
  BY <1>1, <1>2, <1>4, <1>5, <1>6, <1>7
<1>9. slices_to_queue' \in 0..((Target \div SliceMs) + 1)
  BY <1>7, <1>8 DEF TypeOK
<1>10. pc = "queued" /\ pc' \in {"idle", "pull"} /\ state' \in {"inactive", "active"}
  BY <1>7 DEF Decide, TypeOK
<1>11. TypeOK'
  BY <1>9, <1>10 DEF Decide, TypeOK, sink, component
<1>12. Counted' /\ Behind'
  BY <1>10 DEF Decide, Counted, Behind, sink, component
<1>13. Room'
  BY <1>8, <1>10 DEF Decide, Room, sink, component
<1> QED
  BY <1>11, <1>12, <1>13

LEMMA PullInv ==
  ASSUME IInv, Pull
  PROVE  IInv'
<1> USE DEF IInv
<1>0. (Target \div SliceMs) + 1 \in Int
  BY SchedulerAssumption, DivMod
<1>1. slices_to_queue \in Nat /\ Len(submitted) \in Nat /\ Len(taken) \in Nat
  BY <1>0, LenProperties DEF TypeOK
<1>2. CASE sliceq = <<>> \/ slices_to_queue = 0
  <2>1. 0 \in 0..((Target \div SliceMs) + 1)
    BY <1>1, <1>0 DEF TypeOK
  <2> QED
    BY <1>2, <2>1 DEF Pull, TypeOK, Counted, Behind, Room, sink, component
<1>3. CASE ~(sliceq = <<>> \/ slices_to_queue = 0)
  <2>1. sliceq' \in Seq(Slices) /\ desc' \in 0..MaxSlices
    <3>1. Head(sliceq) \in Slices /\ Tail(sliceq) \in Seq(Slices)
      BY <1>3, HeadTail DEF TypeOK
    <3>2. Head(sliceq) \in 0..MaxSlices
      BY <3>1, SchedulerAssumption DEF Slices
    <3> QED
      BY <1>3, <3>1, <3>2 DEF Pull
  <2>2. /\ slices_to_queue' \in 0..((Target \div SliceMs) + 1)
        /\ slices_to_queue' + 1 = slices_to_queue
    BY <1>0, <1>3 DEF Pull, TypeOK
  <2>3. TypeOK'
    BY <1>3, <2>1, <2>2 DEF Pull, TypeOK, sink, component
  <2>4. Room'
    BY <1>1, <1>3, <2>2 DEF Pull, Room, sink, component
  <2> QED
    BY <1>3, <2>3, <2>4 DEF Pull, Counted, Behind, sink, component
<1> QED
  BY <1>2, <1>3

LEMMA GetBufferInv ==
  ASSUME IInv, GetBuffer
  PROVE  IInv'
<1> USE DEF IInv
<1> DEFINE h == Head(in_list)
<1>1. /\ h \in Bufs /\ Tail(in_list) \in Seq(Bufs)
      /\ Len(Tail(in_list)) = Len(in_list) - 1 /\ Len(in_list) \in Nat
      /\ Elements(in_list) = {h} \cup Elements(Tail(in_list))
  <2>1. in_list \in Seq(Bufs) /\ in_list # <<>>
    BY DEF GetBuffer, TypeOK
  <2> QED
    BY <2>1, TakenFrom
<1>2. /\ in_list' = Tail(in_list) /\ buf' = h /\ user_buffer_list' = <<h>>
      /\ content' = [content EXCEPT ![h] = desc]
  <2>1. user_buffer_list = <<>> /\ <<h>> \in Seq(Bufs)
    BY <1>1, Single DEF GetBuffer, Counted
  <2>2. user_buffer_list' = <<h>> \o <<>>
    BY <2>1 DEF GetBuffer
  <2> QED
    BY <2>1, <2>2, ConcatEmptySeq DEF GetBuffer, ilclient_get_input_buffer, CopySlice
<1>3. pc = "get" /\ pc' = "set" /\ user_buffer_list = <<>>
  BY DEF GetBuffer, Counted
<1> HIDE DEF h
<1>4. TypeOK'
  <2>1. <<h>> \in Seq(Bufs) /\ h \in 0..NumBufs
    BY <1>1, Single DEF Bufs
  <2>2. content' \in [Bufs -> 0..MaxSlices]
    BY <1>1, <1>2 DEF TypeOK
  <2> QED
    BY <1>1, <1>2, <1>3, <2>1, <2>2 DEF GetBuffer, TypeOK, component
<1>5. Counted'
  <2>1. Len(submitted) \in Nat /\ Len(taken) \in Nat
    BY LenProperties DEF TypeOK
  <2>2. submitted' = submitted /\ taken' = taken
    BY DEF GetBuffer, component
  <2>3. /\ Len(user_buffer_list') = 1 /\ Len(user_buffer_list) = 0
        /\ Elements(user_buffer_list') = {h} /\ Elements(user_buffer_list) = {}
    BY <1>2, <1>3, NoElements
  <2>4. Len(in_list') + Len(user_buffer_list') + Len(submitted') + Len(taken') = NumBufs
    BY <1>1, <1>2, <2>1, <2>2, <2>3 DEF Counted
  <2>5. Elements(in_list') \cup Elements(user_buffer_list')
            \cup Elements(submitted') \cup Elements(taken') = Bufs
    <3>1. {h} \cup Elements(Tail(in_list)) \cup {}
              \cup Elements(submitted) \cup Elements(taken) = Bufs
      BY <1>1, <2>3 DEF Counted
    <3> QED
      BY <1>2, <2>2, <2>3, <3>1
  <2> QED
    BY <1>2, <1>3, <2>4, <2>5 DEF Counted, Elements
<1>6. Behind' /\ Room'
  BY <1>3 DEF GetBuffer, Behind, Room, component
<1> QED
  BY <1>4, <1>5, <1>6

\* The header that is found is the one of the buffer that was filled.
LEMMA PlayBufferInv ==
  ASSUME IInv, PlayBuffer
  PROVE  IInv'
<1> USE DEF IInv
<1>1. pc = "set" /\ pc' = "pull" /\ user_buffer_list = <<buf>>
  BY DEF PlayBuffer, Counted
<1>2. buf \in Bufs
  <2>1. Head(user_buffer_list) \in Bufs
    BY HeadTail DEF PlayBuffer, TypeOK
  <2> QED
    BY <1>1, <2>1
<1>3. user_buffer_list' = <<>> /\ submitted' = Append(submitted, buf)
  BY <1>1 DEF PlayBuffer
<1>4. /\ submitted' \in Seq(Bufs) /\ Len(submitted') = Len(submitted) + 1
      /\ Elements(submitted') = Elements(submitted) \cup {buf}
  <2>1. submitted \in Seq(Bufs)
    BY DEF TypeOK
  <2> QED
    BY <1>2, <1>3, <2>1, PutBehind
<1>5. TypeOK'
  <2>1. <<>> \in Seq(Bufs) /\ 0 \in 0..MaxSlices /\ 0 \in 0..NumBufs
    BY EmptySeq, SchedulerAssumption
  <2> QED
    BY <1>1, <1>3, <1>4, <2>1 DEF PlayBuffer, TypeOK
<1>6. Counted'
  <2>1. /\ Len(submitted) \in Nat /\ Len(taken) \in Nat /\ Len(in_list) \in Nat
        /\ taken' = taken /\ in_list' = in_list
    BY LenProperties DEF PlayBuffer, TypeOK
  <2>2. /\ Len(user_buffer_list) = 1 /\ Len(user_buffer_list') = 0
        /\ Elements(user_buffer_list) = {buf} /\ Elements(user_buffer_list') = {}
    BY <1>1, <1>3, NoElements
  <2>3. Len(in_list') + Len(user_buffer_list') + Len(submitted') + Len(taken') = NumBufs
    BY <1>4, <2>1, <2>2 DEF Counted
  <2>4. Elements(in_list) \cup {buf} \cup Elements(submitted) \cup Elements(taken) = Bufs
    BY <2>2 DEF Counted
  <2>5. Elements(in_list') = Elements(in_list) /\ Elements(taken') = Elements(taken)
    BY <2>1
  <2>6. Elements(in_list') \cup Elements(user_buffer_list')
            \cup Elements(submitted') \cup Elements(taken') = Bufs
    BY <1>4, <2>2, <2>4, <2>5
  <2> QED
    BY <1>1, <1>3, <2>3, <2>6 DEF Counted
<1>7. Behind' /\ Room'
  <2>1. /\ Len(submitted) \in Nat /\ Len(taken) \in Nat
        /\ taken' = taken /\ slices_to_queue' = slices_to_queue
    BY LenProperties DEF PlayBuffer, TypeOK
  <2>2. slices_to_queue \in Int
    BY SchedulerAssumption, DivMod DEF TypeOK
  <2> QED
    BY <1>1, <1>4, <2>1, <2>2 DEF PlayBuffer, Behind, Room
<1> QED
  BY <1>5, <1>6, <1>7

LEMMA TakeInInv ==
  ASSUME IInv, TakeIn
  PROVE  IInv'
<1> USE DEF IInv
<1> DEFINE h == Head(submitted)
<1>1. submitted \in Seq(Bufs) /\ submitted # <<>> /\ taken \in Seq(Bufs)
  BY DEF TakeIn, TypeOK
<1>2. /\ h \in Bufs /\ submitted' \in Seq(Bufs) /\ Len(submitted) \in Nat
      /\ Len(submitted') = Len(submitted) - 1
      /\ Elements(submitted) = {h} \cup Elements(submitted')
  BY <1>1, TakenFrom DEF TakeIn
<1>3. /\ taken' \in Seq(Bufs) /\ Len(taken) \in Nat /\ Len(taken') = Len(taken) + 1
      /\ Elements(taken') = Elements(taken) \cup {h}
  BY <1>1, <1>2, PutBehind DEF TakeIn
<1>4. playing' \in Seq(0..MaxSlices) /\ Len(playing') = Len(playing) + 1
  <2>1. content[h] \in 0..MaxSlices
    BY <1>2 DEF TypeOK
  <2> QED
    BY <2>1, Appended DEF TakeIn, TypeOK
<1> HIDE DEF h
<1>5. TypeOK'
  BY <1>2, <1>3, <1>4 DEF TakeIn, TypeOK, thread, locals, sink
<1>6. /\ in_list' = in_list /\ user_buffer_list' = user_buffer_list
      /\ pc' = pc /\ buf' = buf /\ slices_to_queue' = slices_to_queue
  BY DEF TakeIn, thread, locals, sink
<1>7. Counted'
  <2>1. Len(in_list) \in Nat /\ Len(user_buffer_list) \in Nat
    BY LenProperties DEF TypeOK
  <2>2. Len(in_list') + Len(user_buffer_list') + Len(submitted') + Len(taken') = NumBufs
    <3>1. Len(in_list) + Len(user_buffer_list) + Len(submitted) + Len(taken) = NumBufs
      BY DEF Counted
    <3>2. Len(submitted') + Len(taken') = Len(submitted) + Len(taken)
      BY <1>2, <1>3
    <3>3. Len(submitted') \in Nat /\ Len(taken') \in Nat
      BY <1>2, <1>3, LenProperties
    <3> QED
      BY <1>2, <1>3, <1>6, <2>1, <3>1, <3>2, <3>3
  <2>3. Elements(in_list) \cup Elements(user_buffer_list)
            \cup Elements(submitted') \cup Elements(taken') = Bufs
    BY <1>2, <1>3 DEF Counted
  <2> QED
    BY <1>6, <2>2, <2>3 DEF Counted, Elements
<1>8. Behind'
  <2>1. Len(playing) \in Nat
    BY LenProperties DEF TypeOK
  <2> QED
    BY <1>3, <1>4, <2>1 DEF Behind
<1>9. Room'
  BY <1>2, <1>3, <1>6 DEF Room
<1> QED
  BY <1>5, <1>7, <1>8, <1>9

LEMMA EmptyBufferDoneInv ==
  ASSUME IInv, EmptyBufferDone
  PROVE  IInv'
<1> USE DEF IInv
<1> DEFINE h == Head(taken)
<1>1. taken \in Seq(Bufs) /\ taken # <<>> /\ in_list \in Seq(Bufs)
  BY DEF EmptyBufferDone, TypeOK
<1>2. /\ h \in Bufs /\ taken' \in Seq(Bufs) /\ Len(taken) \in Nat
      /\ Len(taken') = Len(taken) - 1
      /\ Elements(taken) = {h} \cup Elements(taken')
  BY <1>1, TakenFrom DEF EmptyBufferDone
<1>3. /\ in_list' \in Seq(Bufs) /\ Len(in_list) \in Nat
      /\ Len(in_list') = Len(in_list) + 1
      /\ Elements(in_list') = Elements(in_list) \cup {h}
  BY <1>1, <1>2, PutBehind DEF EmptyBufferDone
<1> HIDE DEF h
<1>4. TypeOK'
  BY <1>2, <1>3 DEF EmptyBufferDone, TypeOK, thread, locals
<1>5. /\ submitted' = submitted /\ user_buffer_list' = user_buffer_list
      /\ pc' = pc /\ buf' = buf /\ slices_to_queue' = slices_to_queue
      /\ playing' = playing
  BY DEF EmptyBufferDone, thread, locals
<1>6. Counted'
  <2>1. Len(submitted) \in Nat /\ Len(user_buffer_list) \in Nat
    BY LenProperties DEF TypeOK
  <2>2. Len(in_list') + Len(user_buffer_list') + Len(submitted') + Len(taken') = NumBufs
    BY <1>2, <1>3, <1>5, <2>1 DEF Counted
  <2>3. Elements(in_list') \cup Elements(user_buffer_list)
            \cup Elements(submitted) \cup Elements(taken') = Bufs
    BY <1>2, <1>3 DEF Counted
  <2> QED
    BY <1>5, <2>2, <2>3 DEF Counted, Elements
<1>7. Behind' /\ Room'
  <2>1. Len(submitted) \in Nat /\ Len(playing) \in Nat /\ slices_to_queue \in Int
    BY LenProperties, SchedulerAssumption, DivMod DEF TypeOK
  <2>2. NumBufs \in Nat
    BY SchedulerAssumption
  <2> QED
    BY <1>2, <1>5, <2>1, <2>2 DEF Behind, Room
<1> QED
  BY <1>4, <1>6, <1>7

LEMMA PlayInv ==
  ASSUME IInv, Play
  PROVE  IInv'
<1> USE DEF IInv
<1>1. Counted' /\ Room'
  BY DEF Play, Counted, Room, thread, locals, sink
<1>2. CASE head_ms > 1
  <2>1. head_ms' \in 1..SliceMs
    BY <1>2, SchedulerAssumption DEF Play, TypeOK
  <2> QED
    BY <1>1, <1>2, <2>1 DEF Play, TypeOK, Behind, thread, locals, sink
<1>3. CASE ~(head_ms > 1)
  <2>1. /\ playing \in Seq(0..MaxSlices) /\ playing # <<>>
        /\ played \in Seq(0..MaxSlices)
    BY DEF Play, TypeOK
  <2>2. /\ playing' \in Seq(0..MaxSlices) /\ Len(playing) \in Nat
        /\ Len(playing') = Len(playing) - 1
    BY <1>3, <2>1, HeadTail DEF Play
  <2>3. played' \in Seq(0..MaxSlices)
    <3>1. Head(playing) \in 0..MaxSlices
      BY <2>1, HeadTail
    <3>2. Append(played, Head(playing)) \in Seq(0..MaxSlices)
      BY <2>1, <3>1, Appended
    <3> QED
      BY <1>3, <3>2 DEF Play
  <2>4. head_ms' \in 1..SliceMs
    BY <1>3, SchedulerAssumption DEF Play
  <2>5. TypeOK'
    BY <1>3, <2>2, <2>3, <2>4 DEF Play, TypeOK, thread, locals, sink
  <2>6. Behind'
    <3>1. Len(taken) \in Nat
      BY LenProperties DEF TypeOK
    <3> QED
      BY <1>3, <2>2, <3>1 DEF Play, Behind
  <2> QED
    BY <1>1, <2>5, <2>6
<1> QED
  BY <1>2, <1>3

LEMMA StepInv == IInv /\ [Next]_vars => IInv'
<1> SUFFICES ASSUME IInv, [Next]_vars PROVE IInv'
  OBVIOUS
<1>1. CASE UNCHANGED vars
  BY <1>1 DEF vars, locals, sink, component, IInv, TypeOK, Counted, Behind, Room
<1> QED
  BY <1>1, DecoderPutsInv, WatchInv, DecideInv, PullInv, GetBufferInv, PlayBufferInv,
     TakeInInv, EmptyBufferDoneInv, PlayInv DEF Next, Scheduler

\* The inductive invariant, of every reachable state.
THEOREM Invariance == Spec => []IInv
<1>1. Init /\ [][Next]_vars => []IInv
  BY InitInv, StepInv, PTL
<1> QED
  BY <1>1, PTL DEF Spec

\* Every variable of the thread, the sink and the component keeps its type; in
\* particular never more than the target is asked for.
THEOREM TypeCorrect == Spec => []TypeOK
BY Invariance, PTL DEF IInv

\* The assertion of sx_audio_sink_buffer_get() holds: in_list is not empty when the
\* thread takes a buffer from it.
THEOREM BufferThereCorrect == Spec => []BufferThere
<1>1. IInv => BufferThere
  <2> SUFFICES ASSUME IInv, pc = "get" PROVE in_list # <<>>
    BY DEF BufferThere
  <2>1. /\ Len(submitted) \in Nat /\ Len(taken) \in Nat /\ slices_to_queue \in Int
        /\ slices_to_queue >= 0
    BY LenProperties, SchedulerAssumption, DivMod DEF IInv, TypeOK
  <2>2. Len(user_buffer_list) = 0
    BY NoElements DEF IInv, Counted
  <2>3. Len(in_list) + Len(submitted) + Len(taken) = NumBufs /\ Len(in_list) \in Nat
    BY <2>1, <2>2, LenProperties DEF IInv, TypeOK, Counted
  <2>4. Len(submitted) + Len(taken) + 1 + slices_to_queue <= NumBufs
    BY DEF IInv, Room
  <2>5. Len(in_list) # 0
    BY <2>1, <2>3, <2>4, SchedulerAssumption
  <2> QED
    BY <2>5, EmptySeq
<1> QED
  BY <1>1, Invariance, PTL

------------------------------------------------------------------------------
(***************************************************************************)
(* Every buffer is on one list, once                                       *)
(***************************************************************************)
LEMMA Together ==
  ASSUME NEW s \in Seq(Bufs), NEW t \in Seq(Bufs)
  PROVE  /\ s \o t \in Seq(Bufs) /\ Len(s \o t) = Len(s) + Len(t)
         /\ Elements(s \o t) = Elements(s) \cup Elements(t)
         /\ \A i \in 1..Len(s) : (s \o t)[i] = s[i]
         /\ \A i \in 1..Len(t) : (s \o t)[Len(s) + i] = t[i]
<1>1. Len(s) \in Nat /\ Len(t) \in Nat
  BY LenProperties
<1>2. /\ s \o t \in Seq(Bufs) /\ Len(s \o t) = Len(s) + Len(t)
      /\ \A i \in 1..Len(s) + Len(t) :
             (s \o t)[i] = IF i <= Len(s) THEN s[i] ELSE t[i - Len(s)]
  BY ConcatProperties
<1>3. \A i \in 1..Len(s) : (s \o t)[i] = s[i]
  BY <1>1, <1>2
<1>4. ASSUME NEW i \in 1..Len(t) PROVE (s \o t)[Len(s) + i] = t[i]
  <2>1. /\ Len(s) + i \in 1..Len(s) + Len(t) /\ ~(Len(s) + i <= Len(s))
        /\ (Len(s) + i) - Len(s) = i
    BY <1>1
  <2> QED
    BY <1>2, <2>1
<1>5. ASSUME NEW x \in Elements(s \o t) PROVE x \in Elements(s) \cup Elements(t)
  <2>1. PICK i \in 1..Len(s) + Len(t) : x = (s \o t)[i]
    BY <1>2 DEF Elements
  <2>2. i \in 1..Len(s) \/ (i - Len(s) \in 1..Len(t) /\ Len(s) + (i - Len(s)) = i)
    BY <1>1
  <2> QED
    BY <1>3, <1>4, <2>1, <2>2 DEF Elements
<1>6. ASSUME NEW x \in Elements(s) \cup Elements(t) PROVE x \in Elements(s \o t)
  <2>1. /\ \A i \in 1..Len(s) : i \in 1..Len(s \o t)
        /\ \A i \in 1..Len(t) : Len(s) + i \in 1..Len(s \o t)
    BY <1>1, <1>2
  <2> QED
    BY <1>3, <1>4, <1>6, <2>1 DEF Elements
<1> QED
  BY <1>2, <1>3, <1>4, <1>5, <1>6

Lists == in_list \o user_buffer_list \o submitted \o taken

LEMMA OnOneList ==
  ASSUME IInv
  PROVE  /\ Lists \in Seq(Bufs) /\ Len(Lists) = NumBufs /\ Elements(Lists) = Bufs
         /\ \A i, j \in 1..NumBufs : Lists[i] = Lists[j] => i = j
<1> DEFINE two == in_list \o user_buffer_list
           three == two \o submitted
<1>1. /\ in_list \in Seq(Bufs) /\ user_buffer_list \in Seq(Bufs)
      /\ submitted \in Seq(Bufs) /\ taken \in Seq(Bufs)
  BY DEF IInv, TypeOK
<1>2. /\ Len(in_list) \in Nat /\ Len(user_buffer_list) \in Nat
      /\ Len(submitted) \in Nat /\ Len(taken) \in Nat
  BY <1>1, LenProperties
<1>3. /\ two \in Seq(Bufs) /\ Len(two) = Len(in_list) + Len(user_buffer_list)
      /\ Elements(two) = Elements(in_list) \cup Elements(user_buffer_list)
  BY <1>1, Together
<1> HIDE DEF two
<1>4. /\ three \in Seq(Bufs) /\ Len(three) = Len(two) + Len(submitted)
      /\ Elements(three) = Elements(two) \cup Elements(submitted)
  BY <1>1, <1>3, Together
<1> HIDE DEF three
<1>5. Lists = three \o taken
  BY DEF Lists, two, three
<1>6. /\ Lists \in Seq(Bufs) /\ Len(Lists) = Len(three) + Len(taken)
      /\ Elements(Lists) = Elements(three) \cup Elements(taken)
  BY <1>1, <1>4, <1>5, Together
<1>7. Len(Lists) = NumBufs /\ Elements(Lists) = Bufs
  BY <1>3, <1>4, <1>6 DEF IInv, Counted
<1>8. Lists \in Surjection(1..NumBufs, Bufs)
  <2>1. Lists \in [1..NumBufs -> Bufs]
    BY <1>6, <1>7, LenProperties
  <2>2. \A b \in Bufs : \E i \in 1..NumBufs : Lists[i] = b
    BY <1>7 DEF Elements
  <2> QED
    BY <2>1, <2>2 DEF Surjection
<1>9. Lists \in Injection(1..NumBufs, Bufs)
  <2>1. IsFiniteSet(1..NumBufs)
    BY FS_Interval, SchedulerAssumption
  <2> QED
    BY <1>8, <2>1, FS_SurjSameCardinalityImpliesInj DEF Bufs
<1> QED
  BY <1>6, <1>7, <1>9 DEF Injection, IsInjective

\* No hardware buffer is lost or on two lists, for any number of them.
THEOREM BufferInOnePlaceCorrect == Spec => []BufferInOnePlace
<1>1. IInv => BufferInOnePlace
  BY OnOneList DEF BufferInOnePlace, Lists, IInv, Counted
<1> QED
  BY <1>1, Invariance, PTL

\* A free buffer is none of those the component has not taken in.
LEMMA FreeIsNotSubmitted ==
  ASSUME IInv, in_list # <<>>
  PROVE  \A i \in 1..Len(submitted) : submitted[i] # Head(in_list)
<1> DEFINE two == in_list \o user_buffer_list
           three == two \o submitted
<1>1. /\ in_list \in Seq(Bufs) /\ user_buffer_list \in Seq(Bufs)
      /\ submitted \in Seq(Bufs) /\ taken \in Seq(Bufs)
  BY DEF IInv, TypeOK
<1>2. /\ Len(in_list) \in Nat \ {0} /\ Head(in_list) = in_list[1]
      /\ Len(user_buffer_list) \in Nat /\ Len(submitted) \in Nat /\ Len(taken) \in Nat
  BY <1>1, HeadTail, LenProperties
<1>3. /\ two \in Seq(Bufs) /\ Len(two) = Len(in_list) + Len(user_buffer_list)
      /\ two[1] = in_list[1]
  BY <1>1, <1>2, Together
<1> HIDE DEF two
<1>4. /\ three \in Seq(Bufs) /\ Len(three) = Len(two) + Len(submitted)
      /\ three[1] = two[1]
      /\ \A i \in 1..Len(submitted) : three[Len(two) + i] = submitted[i]
  <2>1. 1 \in 1..Len(two)
    BY <1>2, <1>3
  <2> QED
    BY <1>1, <1>3, <2>1, Together
<1> HIDE DEF three
<1>5. Lists = three \o taken
  BY DEF Lists, two, three
<1>6. \A i \in 1..Len(three) : Lists[i] = three[i]
  BY <1>1, <1>4, <1>5, Together
<1>7. Len(Lists) = Len(three) + Len(taken) /\ Len(Lists) = NumBufs
  BY <1>1, <1>4, <1>5, OnOneList, Together
<1>8. ASSUME NEW i \in 1..Len(submitted) PROVE submitted[i] # Head(in_list)
  <2>1. /\ 1 \in 1..Len(three) /\ Len(two) + i \in 1..Len(three) /\ Len(two) + i # 1
        /\ 1 \in 1..NumBufs /\ Len(two) + i \in 1..NumBufs
    BY <1>2, <1>3, <1>4, <1>7
  <2>2. Lists[1] = Head(in_list) /\ Lists[Len(two) + i] = submitted[i]
    BY <1>2, <1>3, <1>4, <1>6, <2>1
  <2> QED
    BY <2>1, <2>2, OnOneList
<1> QED
  BY <1>8

------------------------------------------------------------------------------
(***************************************************************************)
(* Every slice is played once, in order                                    *)
(***************************************************************************)
Slice0 == 0..MaxSlices

LEMMA ContentsOf ==
  ASSUME content \in [Bufs -> Slice0], NEW bufs \in Seq(Bufs)
  PROVE  /\ Contents(bufs) \in Seq(Slice0) /\ Len(Contents(bufs)) = Len(bufs)
         /\ \A i \in 1..Len(bufs) : Contents(bufs)[i] = content[bufs[i]]
<1>1. Len(bufs) \in Nat /\ \A i \in 1..Len(bufs) : bufs[i] \in Bufs
  BY LenProperties, ElementOfSeq
<1>2. Contents(bufs) \in [1..Len(bufs) -> Slice0]
  BY <1>1 DEF Contents
<1>3. Contents(bufs) \in Seq(Slice0)
  BY <1>1, <1>2, SeqDef
<1>4. Len(Contents(bufs)) = Len(bufs)
  BY <1>1, <1>2, <1>3, LenProperties
<1> QED
  BY <1>3, <1>4 DEF Contents

LEMMA ContentsTail ==
  ASSUME content \in [Bufs -> Slice0], NEW bufs \in Seq(Bufs), bufs # <<>>
  PROVE  /\ Contents(bufs) # <<>> /\ Head(Contents(bufs)) = content[Head(bufs)]
         /\ Contents(Tail(bufs)) = Tail(Contents(bufs))
<1>1. /\ Head(bufs) = bufs[1] /\ Tail(bufs) \in Seq(Bufs) /\ Len(bufs) \in Nat \ {0}
      /\ Len(Tail(bufs)) = Len(bufs) - 1
      /\ \A i \in 1..(Len(bufs) - 1) : Tail(bufs)[i] = bufs[i + 1]
      /\ \A i \in 1..(Len(bufs) - 1) : i + 1 \in 1..Len(bufs)
  BY HeadTail
<1>2. /\ Contents(bufs) \in Seq(Slice0) /\ Len(Contents(bufs)) = Len(bufs)
      /\ \A i \in 1..Len(bufs) : Contents(bufs)[i] = content[bufs[i]]
  BY ContentsOf
<1>3. /\ Contents(Tail(bufs)) \in Seq(Slice0)
      /\ Len(Contents(Tail(bufs))) = Len(bufs) - 1
      /\ \A i \in 1..(Len(bufs) - 1) : Contents(Tail(bufs))[i] = content[Tail(bufs)[i]]
  BY <1>1, ContentsOf
<1>4. Contents(bufs) # <<>>
  BY <1>1, <1>2, EmptySeq
<1>5. /\ Head(Contents(bufs)) = Contents(bufs)[1]
      /\ Tail(Contents(bufs)) \in Seq(Slice0)
      /\ Len(Tail(Contents(bufs))) = Len(bufs) - 1
      /\ \A i \in 1..(Len(bufs) - 1) : Tail(Contents(bufs))[i] = Contents(bufs)[i + 1]
  BY <1>2, <1>4, HeadTail
<1>6. Contents(Tail(bufs)) = Tail(Contents(bufs))
  BY <1>1, <1>2, <1>3, <1>5, SeqEqual
<1>7. 1 \in 1..Len(bufs)
  BY <1>1
<1> QED
  BY <1>1, <1>2, <1>4, <1>5, <1>6, <1>7

LEMMA ContentsAppend ==
  ASSUME content \in [Bufs -> Slice0], NEW bufs \in Seq(Bufs), NEW b \in Bufs
  PROVE  Contents(Append(bufs, b)) = Append(Contents(bufs), content[b])
<1>1. /\ Append(bufs, b) \in Seq(Bufs) /\ Len(bufs) \in Nat
      /\ Len(Append(bufs, b)) = Len(bufs) + 1
      /\ Append(bufs, b)[Len(bufs) + 1] = b
      /\ \A i \in 1..Len(bufs) : Append(bufs, b)[i] = bufs[i]
  BY Appended
<1>2. /\ Contents(bufs) \in Seq(Slice0) /\ Len(Contents(bufs)) = Len(bufs)
      /\ \A i \in 1..Len(bufs) : Contents(bufs)[i] = content[bufs[i]]
  BY ContentsOf
<1> DEFINE l == Contents(Append(bufs, b))
           r == Append(Contents(bufs), content[b])
<1>3. /\ l \in Seq(Slice0) /\ Len(l) = Len(bufs) + 1
      /\ \A i \in 1..(Len(bufs) + 1) : l[i] = content[Append(bufs, b)[i]]
  BY <1>1, ContentsOf
<1>4. /\ r \in Seq(Slice0) /\ Len(r) = Len(bufs) + 1
      /\ r[Len(bufs) + 1] = content[b]
      /\ \A i \in 1..Len(bufs) : r[i] = Contents(bufs)[i]
  BY <1>2, Appended
<1> HIDE DEF l, r
<1>5. ASSUME NEW i \in 1..(Len(bufs) + 1) PROVE l[i] = r[i]
  <2>1. i \in 1..Len(bufs) \/ i = Len(bufs) + 1
    BY <1>1
  <2> QED
    BY <1>1, <1>2, <1>3, <1>4, <2>1
<1>6. l = r
  BY <1>3, <1>4, <1>5, SeqEqual
<1> QED
  BY <1>6 DEF l, r

LEMMA ContentsFew ==
  ASSUME content \in [Bufs -> Slice0]
  PROVE  /\ Contents(<<>>) = <<>>
         /\ \A b \in Bufs : Contents(<<b>>) = <<content[b]>>
<1>1. Contents(<<>>) = <<>>
  BY ContentsOf, EmptySeq
<1>2. ASSUME NEW b \in Bufs PROVE Contents(<<b>>) = <<content[b]>>
  <2>1. /\ <<b>> \in Seq(Bufs) /\ Len(<<b>>) = 1 /\ <<b>>[1] = b
        /\ content[b] \in Slice0
    BY <1>2, Single
  <2>2. /\ <<content[b]>> \in Seq(Slice0) /\ Len(<<content[b]>>) = 1
        /\ <<content[b]>>[1] = content[b]
    BY <2>1, Single
  <2>3. /\ Contents(<<b>>) \in Seq(Slice0) /\ Len(Contents(<<b>>)) = 1
        /\ Contents(<<b>>)[1] = content[b]
    <3>1. 1 \in 1..Len(<<b>>)
      BY <2>1
    <3> QED
      BY <2>1, <3>1, ContentsOf
  <2> QED
    BY <2>2, <2>3, SeqEqual
<1> QED
  BY <1>1, <1>2

\* The types of the parts of the line from the component to the queue.
LEMMA PartTypes ==
  ASSUME IInv
  PROVE  /\ content \in [Bufs -> Slice0]
         /\ played \in Seq(Slice0) /\ playing \in Seq(Slice0)
         /\ Contents(submitted) \in Seq(Slice0)
         /\ Contents(user_buffer_list) \in Seq(Slice0)
         /\ InHand \in Seq(Slice0) /\ sliceq \in Seq(Slice0)
         /\ \A s, t \in Seq(Slice0) : s \o t \in Seq(Slice0)
<1>1. /\ content \in [Bufs -> Slice0]
      /\ played \in Seq(Slice0) /\ playing \in Seq(Slice0)
      /\ submitted \in Seq(Bufs) /\ user_buffer_list \in Seq(Bufs)
      /\ desc \in Slice0 /\ sliceq \in Seq(Slices)
  BY DEF IInv, TypeOK, Slice0
<1>2. InHand \in Seq(Slice0)
  BY <1>1, EmptySeq, Single DEF InHand
<1>3. sliceq \in Seq(Slice0)
  <2>1. Slices \subseteq Slice0
    BY SchedulerAssumption DEF Slices, Slice0
  <2> QED
    BY <1>1, <2>1, SeqMonotonic
<1> QED
  BY <1>1, <1>2, <1>3, ContentsOf, ConcatProperties

\* Steps that leave every part of the line alone.
LEMMA SameLine ==
  ASSUME PlayedInOrder,
         UNCHANGED <<played, playing, content, submitted, user_buffer_list, InHand,
                     sliceq, sent>>
  PROVE  PlayedInOrder'
BY DEF PlayedInOrder, Contents

LEMMA DecoderPutsOrder ==
  ASSUME IInv, PlayedInOrder, DecoderPuts
  PROVE  PlayedInOrder'
<1> DEFINE ahead == played \o playing \o Contents(submitted)
                       \o Contents(user_buffer_list) \o InHand
<1>1. ahead \in Seq(Slice0)
  BY PartTypes
<1>2. ahead' = ahead
  BY DEF DecoderPuts, locals, sink, component, InHand, Contents
<1> HIDE DEF ahead
<1>3. sent + 1 \in Slice0 /\ sent \in Nat
  BY SchedulerAssumption DEF DecoderPuts, IInv, TypeOK, Slice0
<1>4. ahead \o sliceq = [i \in 1..sent |-> i]
  BY DEF PlayedInOrder, ahead
<1>5. ahead \o Append(sliceq, sent + 1) = Append(ahead \o sliceq, sent + 1)
  BY <1>1, <1>3, PartTypes, ConcatAppend
<1>6. Append([i \in 1..sent |-> i], sent + 1) = [i \in 1..(sent + 1) |-> i]
  <2> DEFINE l == Append([i \in 1..sent |-> i], sent + 1)
             r == [i \in 1..(sent + 1) |-> i]
             n == [i \in 1..sent |-> i]
  <2>1. n \in Seq(Nat) /\ Len(n) = sent /\ \A i \in 1..sent : n[i] = i
    BY <1>3, SeqDef, LenProperties
  <2>2. /\ l \in Seq(Nat) /\ Len(l) = sent + 1 /\ l[sent + 1] = sent + 1
        /\ \A i \in 1..sent : l[i] = i
    BY <1>3, <2>1, Appended
  <2>3. r \in Seq(Nat) /\ Len(r) = sent + 1 /\ \A i \in 1..(sent + 1) : r[i] = i
    BY <1>3, SeqDef, LenProperties
  <2> HIDE DEF l, r
  <2>4. \A i \in 1..(sent + 1) : l[i] = r[i]
    BY <1>3, <2>2, <2>3
  <2>5. l = r
    BY <2>2, <2>3, <2>4, SeqEqual
  <2> QED
    BY <2>5 DEF l, r
<1>7. sliceq' = Append(sliceq, sent + 1) /\ sent' = sent + 1
  BY DEF DecoderPuts
<1>8. ahead' \o sliceq' = [i \in 1..sent' |-> i]
  BY <1>2, <1>4, <1>5, <1>6, <1>7
<1> QED
  BY <1>8 DEF PlayedInOrder, ahead

\* The thread takes a slice from the queue into its hand.
LEMMA PullOrder ==
  ASSUME IInv, PlayedInOrder, Pull
  PROVE  PlayedInOrder'
<1> DEFINE ahead == played \o playing \o Contents(submitted)
                       \o Contents(user_buffer_list)
<1>1. ahead \in Seq(Slice0)
  BY PartTypes
<1>2. ahead' = ahead
  BY DEF Pull, sink, component, Contents
<1> HIDE DEF ahead
<1>3. InHand = <<>> /\ ahead \o InHand = ahead /\ sent' = sent
  BY <1>1, ConcatEmptySeq DEF Pull, InHand
<1>4. CASE sliceq = <<>> \/ slices_to_queue = 0
  BY <1>4, SameLine DEF Pull, InHand, sink, component
<1>5. CASE ~(sliceq = <<>> \/ slices_to_queue = 0)
  <2>1. /\ sliceq \in Seq(Slice0) /\ sliceq # <<>> /\ Head(sliceq) \in Slice0
    BY <1>5, PartTypes, HeadTail
  <2>2. InHand' = <<Head(sliceq)>> /\ sliceq' = Tail(sliceq)
    BY <1>5 DEF Pull, InHand
  <2>3. ahead \o <<Head(sliceq)>> = Append(ahead, Head(sliceq))
    BY <1>1, <2>1, AppendIsConcat
  <2>4. Append(ahead, Head(sliceq)) \o Tail(sliceq) = ahead \o sliceq
    BY <1>1, <2>1, Shift
  <2>5. (ahead' \o InHand') \o sliceq' = (ahead \o InHand) \o sliceq
    BY <1>2, <1>3, <2>2, <2>3, <2>4
  <2> QED
    BY <1>3, <2>5 DEF PlayedInOrder, ahead
<1> QED
  BY <1>4, <1>5

\* It copies the slice into a buffer nobody else holds.
LEMMA GetBufferOrder ==
  ASSUME IInv, PlayedInOrder, GetBuffer
  PROVE  PlayedInOrder'
<1> DEFINE h == Head(in_list)
           ahead == played \o playing \o Contents(submitted)
<1>1. ahead \in Seq(Slice0) /\ desc \in Slice0 /\ h \in Bufs
  BY PartTypes, TakenFrom DEF GetBuffer, IInv, TypeOK, Slice0
<1>2. /\ content' = [content EXCEPT ![h] = desc] /\ content \in [Bufs -> Slice0]
      /\ submitted' = submitted /\ submitted \in Seq(Bufs)
  BY PartTypes DEF GetBuffer, CopySlice, component, IInv, TypeOK
<1>3. Contents(submitted)' = Contents(submitted)
  <2>1. in_list # <<>>
    BY DEF GetBuffer
  <2>2. \A i \in 1..Len(submitted) : submitted[i] \in Bufs /\ submitted[i] # h
    BY <1>2, <2>1, FreeIsNotSubmitted, ElementOfSeq
  <2>3. \A i \in 1..Len(submitted) : content'[submitted[i]] = content[submitted[i]]
    BY <1>2, <2>2
  <2> QED
    BY <1>2, <2>3 DEF Contents
<1>4. ahead' = ahead
  BY <1>3 DEF GetBuffer, component
<1>5. user_buffer_list = <<>> /\ user_buffer_list' = <<h>>
  <2>1. user_buffer_list = <<>> /\ <<h>> \in Seq(Bufs)
    BY <1>1, Single DEF GetBuffer, IInv, Counted
  <2>2. user_buffer_list' = <<h>> \o <<>>
    BY <2>1 DEF GetBuffer
  <2> QED
    BY <2>1, <2>2, ConcatEmptySeq
<1>6. Contents(user_buffer_list) = <<>> /\ Contents(user_buffer_list)' = <<desc>>
  <2>1. content' \in [Bufs -> Slice0] /\ content'[h] = desc
    BY <1>1, <1>2
  <2>2. Contents(user_buffer_list)' = <<content'[h]>>
    <3>1. Len(<<h>>) = 1 /\ <<h>>[1] = h
      BY <1>1, Single
    <3>2. Contents(user_buffer_list)' = [i \in 1..1 |-> content'[h]]
      BY <1>5, <3>1 DEF Contents
    <3> QED
      BY <3>2
  <2>3. Contents(user_buffer_list) = <<>>
    BY <1>2, <1>5, ContentsFew
  <2> QED
    BY <2>1, <2>2, <2>3
<1>7. InHand = <<desc>> /\ InHand' = <<>>
  BY DEF GetBuffer, InHand
<1>8. <<desc>> \in Seq(Slice0) /\ ahead \o <<desc>> \in Seq(Slice0)
  BY <1>1, Single, ConcatProperties
<1> HIDE DEF ahead
<1>9. (ahead' \o Contents(user_buffer_list)') \o InHand'
          = (ahead \o Contents(user_buffer_list)) \o InHand
  BY <1>1, <1>4, <1>6, <1>7, <1>8, ConcatEmptySeq
<1>10. sliceq' = sliceq /\ sent' = sent
  BY DEF GetBuffer
<1> QED
  BY <1>9, <1>10 DEF PlayedInOrder, ahead

\* It submits the one buffer it has filled.
LEMMA PlayBufferOrder ==
  ASSUME IInv, PlayedInOrder, PlayBuffer
  PROVE  PlayedInOrder'
<1> DEFINE ahead == played \o playing
           given == Contents(submitted)
           filled == Contents(user_buffer_list)
<1>1. /\ ahead \in Seq(Slice0) /\ given \in Seq(Slice0) /\ content \in [Bufs -> Slice0]
      /\ InHand \in Seq(Slice0)
  BY PartTypes
<1>2. /\ user_buffer_list = <<buf>> /\ user_buffer_list' = <<>>
      /\ submitted' = Append(submitted, buf) /\ content' = content
      /\ buf \in Bufs /\ submitted \in Seq(Bufs)
  <2>1. user_buffer_list = <<buf>>
    BY DEF PlayBuffer, IInv, Counted
  <2>2. Head(user_buffer_list) \in Bufs
    BY TakenFrom DEF PlayBuffer, IInv, TypeOK
  <2> QED
    BY <2>1, <2>2 DEF PlayBuffer, IInv, TypeOK
<1>3. /\ Contents(submitted)' = Contents(Append(submitted, buf))
      /\ Contents(user_buffer_list)' = Contents(<<>>)
  BY <1>2 DEF Contents
<1>4. given' = Append(given, content[buf]) /\ filled' = <<>> /\ filled = <<content[buf]>>
  BY <1>1, <1>2, <1>3, ContentsAppend, ContentsFew
<1>5. InHand' = <<>> /\ InHand = <<>> /\ ahead' = ahead
  BY DEF PlayBuffer, InHand
<1>6. content[buf] \in Slice0
  BY <1>1, <1>2
<1> HIDE DEF ahead, given, filled
<1>7. (ahead' \o given') \o filled' = (ahead \o given) \o filled
  <2>1. ahead \o given \in Seq(Slice0) /\ ahead \o Append(given, content[buf]) \in Seq(Slice0)
    BY <1>1, <1>6, Appended, ConcatProperties
  <2>2. ahead \o Append(given, content[buf]) = (ahead \o given) \o <<content[buf]>>
    BY <1>1, <1>6, <2>1, ConcatAppend, AppendIsConcat
  <2>3. (ahead \o Append(given, content[buf])) \o <<>> = ahead \o Append(given, content[buf])
    BY <2>1, ConcatEmptySeq
  <2> QED
    BY <1>4, <1>5, <2>2, <2>3
<1>8. sliceq' = sliceq /\ sent' = sent
  BY DEF PlayBuffer
<1> QED
  BY <1>5, <1>7, <1>8 DEF PlayedInOrder, ahead, given, filled

\* The component takes in what was submitted first.
LEMMA TakeInOrder ==
  ASSUME IInv, PlayedInOrder, TakeIn
  PROVE  PlayedInOrder'
<1> DEFINE given == Contents(submitted)
           first == content[Head(submitted)]
<1>1. /\ played \in Seq(Slice0) /\ playing \in Seq(Slice0) /\ given \in Seq(Slice0)
      /\ content \in [Bufs -> Slice0]
  BY PartTypes
<1>2. submitted \in Seq(Bufs) /\ submitted # <<>> /\ submitted' = Tail(submitted)
  BY DEF TakeIn, IInv, TypeOK
<1>3. given # <<>> /\ Head(given) = first /\ Contents(Tail(submitted)) = Tail(given)
  BY <1>1, <1>2, ContentsTail
<1>4. content' = content /\ played' = played /\ playing' = Append(playing, first)
  BY DEF TakeIn, sink
<1>5. Contents(submitted)' = Contents(Tail(submitted))
  BY <1>2, <1>4 DEF Contents
<1>6. first \in Slice0
  BY <1>1, <1>2, TakenFrom
<1> HIDE DEF given, first
<1>7. /\ played \o playing \in Seq(Slice0)
      /\ played \o Append(playing, first) = Append(played \o playing, first)
  BY <1>1, <1>6, ConcatProperties, ConcatAppend
<1>8. Append(played \o playing, first) \o Tail(given) = (played \o playing) \o given
  <2> DEFINE counted == played \o playing
  <2>1. counted \in Seq(Slice0)
    BY <1>7
  <2> HIDE DEF counted
  <2>2. Append(counted, Head(given)) \o Tail(given) = counted \o given
    BY <1>1, <1>3, <2>1, Shift
  <2> QED
    BY <1>3, <2>2 DEF counted
<1>9. (played' \o playing') \o Contents(submitted)' = (played \o playing) \o given
  BY <1>3, <1>4, <1>5, <1>7, <1>8
<1>10. /\ Contents(user_buffer_list)' = Contents(user_buffer_list)
       /\ InHand' = InHand /\ sliceq' = sliceq /\ sent' = sent
  BY DEF TakeIn, thread, locals, sink, Contents, InHand
<1> QED
  BY <1>9, <1>10 DEF PlayedInOrder, given

LEMMA PlayOrder ==
  ASSUME IInv, PlayedInOrder, Play
  PROVE  PlayedInOrder'
<1>1. CASE head_ms > 1
  BY <1>1, SameLine DEF Play, thread, locals, sink, InHand
<1>2. CASE ~(head_ms > 1)
  <2>1. played' = Append(played, Head(playing)) /\ playing' = Tail(playing)
    BY <1>2 DEF Play
  <2>2. played' \o playing' = played \o playing
    BY <2>1, PartTypes, Shift DEF Play
  <2>3. /\ Contents(submitted)' = Contents(submitted)
        /\ Contents(user_buffer_list)' = Contents(user_buffer_list)
        /\ InHand' = InHand /\ sliceq' = sliceq /\ sent' = sent
    BY DEF Play, thread, locals, sink, Contents, InHand
  <2> QED
    BY <2>2, <2>3 DEF PlayedInOrder
<1> QED
  BY <1>1, <1>2

LEMMA StepOrder == IInv /\ PlayedInOrder /\ [Next]_vars => PlayedInOrder'
<1> SUFFICES ASSUME IInv, PlayedInOrder, [Next]_vars PROVE PlayedInOrder'
  OBVIOUS
<1>1. CASE UNCHANGED vars
  BY <1>1, SameLine DEF vars, locals, sink, component, InHand
<1>2. CASE Activate \/ ReadLeft \/ Decide \/ ReadTotal \/ AdjustSpeed
  BY <1>2, SameLine
     DEF Activate, ReadLeft, Decide, ReadTotal, AdjustSpeed, locals, sink, component, InHand
<1>3. CASE EmptyBufferDone
  BY <1>3, SameLine DEF EmptyBufferDone, thread, locals, InHand
<1> QED
  BY <1>1, <1>2, <1>3, DecoderPutsOrder, PullOrder, GetBufferOrder, PlayBufferOrder,
     TakeInOrder, PlayOrder DEF Next, Scheduler

LEMMA InitOrder == Init => PlayedInOrder
<1> SUFFICES ASSUME Init PROVE PlayedInOrder
  OBVIOUS
<1>1. content \in [Bufs -> Slice0] /\ <<>> \in Seq(Slice0)
  BY SchedulerAssumption, EmptySeq DEF Init, Slice0
<1>2. Contents(submitted) = <<>> /\ Contents(user_buffer_list) = <<>>
  BY <1>1, ContentsFew DEF Init
<1>3. <<>> \o <<>> = <<>>
  BY <1>1, ConcatEmptySeq
<1>4. [i \in 1..0 |-> i] = <<>>
  OBVIOUS
<1> QED
  BY <1>2, <1>3, <1>4 DEF PlayedInOrder, Init, InHand

\* Every slice the decoder puts is played, or on its way to being played, once and in
\* order: the queue, the copy, the submission and the component never overtake,
\* repeat or overwrite one another.
THEOREM PlayedInOrderCorrect == Spec => []PlayedInOrder
<1>1. Init /\ [][Next]_vars => []PlayedInOrder
  <2>1. IInv /\ PlayedInOrder /\ [Next]_vars => (IInv /\ PlayedInOrder)'
    BY StepInv, StepOrder
  <2> QED
    BY <2>1, InitInv, InitOrder, PTL
<1> QED
  BY <1>1, PTL DEF Spec
=============================================================================
