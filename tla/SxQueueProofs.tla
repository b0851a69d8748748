---------------------------- MODULE SxQueueProofs ----------------------------
(***************************************************************************)
(* The linked list of sx_queue.c is correct for any number of threads, any *)
(* data and any heap.  The three sequence facts below are all that is      *)
(* needed about Append and Tail; the invariant says what the mutex owner   *)
(* and the pushes that still wait for the mutex know of their nodes.       *)
(***************************************************************************)
EXTENDS SxQueue, SequenceTheorems, TLAPS

\* Exactly the thread between taking and releasing the mutex holds it.
LockHeld == \A t \in Threads : pc[t] \in Critical <=> lock = t

\* A push that has not linked its node yet has filled it in.
InFlight ==
    \A t \in Threads : Pushing(t) =>
        /\ node[t] \in Nodes
        /\ next[node[t]] = NULL
        /\ data[node[t]] = val[t]
        /\ val[t] \in Data

\* Between calls a thread keeps no argument and no result.
IdleClean == \A t \in Threads : pc[t] = "idle" => val[t] = NULL

LinkedData == \A i \in 1..Len(chain) : data[chain[i]] \in Data

\* len differs from the number of linked nodes only between the two writes of
\* the mutex owner's push or successful pull.
LenOwed ==
    /\ lock = NULL => len = Len(chain)
    /\ \A t \in Threads : lock = t =>
          /\ pc[t] = "push_len" => len + 1 = Len(chain)
          /\ pc[t] = "pull_len" /\ val[t] # NULL => len = Len(chain) + 1
          /\ pc[t] # "push_len" /\ ~(pc[t] = "pull_len" /\ val[t] # NULL)
                => len = Len(chain)

IInv ==
    /\ TypeOK
    /\ LockHeld
    /\ IdleClean
    /\ InFlight
    /\ LinkedData
    /\ LenOwed
    /\ ListShape
    /\ NodesAccounted

USE DEF Critical, Waiting, Locations, Goto, list, Pushing, Linked

LEMMA InitInv == Init => IInv
<1> SUFFICES ASSUME Init PROVE IInv
  OBVIOUS
<1>1. chain \in Seq(Nodes) /\ Len(chain) = 0
  BY EmptySeq DEF Init
<1>2. TypeOK
  BY <1>1, NullAssumption DEF Init, TypeOK
<1>3. LockHeld /\ IdleClean /\ InFlight /\ LinkedData /\ LenOwed
  BY <1>1, NullAssumption DEF Init, LockHeld, IdleClean, InFlight, LinkedData, LenOwed
<1>4. ListShape /\ NodesAccounted
  BY <1>1 DEF Init, ListShape, NodesAccounted
<1> QED
  BY <1>2, <1>3, <1>4 DEF IInv

LEMMA AcquireInv ==
  ASSUME IInv, NEW t \in Threads, Acquire(t)
  PROVE  IInv'
<1> USE DEF IInv
<1>1. TypeOK'
  BY DEF TypeOK, Acquire
<1>2. LockHeld'
  BY NullAssumption DEF TypeOK, LockHeld, Acquire
<1>3. IdleClean' /\ InFlight' /\ LinkedData'
  BY DEF TypeOK, IdleClean, InFlight, LinkedData, Acquire
<1>4. LenOwed'
  BY NullAssumption DEF TypeOK, LockHeld, LenOwed, Acquire
<1>5. ListShape'
  BY DEF TypeOK, ListShape, Acquire
<1>6. NodesAccounted'
  <2>1. /\ chain' = chain /\ heap' = heap /\ Linked' = Linked
        /\ \A u \in Threads : Pushing(u)' <=> Pushing(u)
        /\ \A u \in Threads : Pushing(u) => node'[u] = node[u]
    BY DEF TypeOK, Acquire
  <2> HIDE DEF Linked, Pushing
  <2> QED
    BY <2>1 DEF NodesAccounted
<1> QED
  BY <1>1, <1>2, <1>3, <1>4, <1>5, <1>6

LEMMA ReleaseInv ==
  ASSUME IInv, NEW t \in Threads, Release(t)
  PROVE  IInv'
<1> USE DEF IInv
<1>1. TypeOK'
  BY DEF TypeOK, Release
<1>2. LockHeld'
  BY NullAssumption DEF TypeOK, LockHeld, Release
<1>3. IdleClean' /\ InFlight' /\ LinkedData'
  BY DEF TypeOK, IdleClean, InFlight, LinkedData, Release
<1>4. LenOwed'
  BY NullAssumption DEF TypeOK, LockHeld, LenOwed, Release
<1>5. ListShape'
  BY DEF TypeOK, ListShape, Release
<1>6. NodesAccounted'
  <2>1. /\ chain' = chain /\ heap' = heap /\ Linked' = Linked
        /\ \A u \in Threads : Pushing(u)' <=> Pushing(u)
        /\ \A u \in Threads : Pushing(u) => node'[u] = node[u]
    BY DEF TypeOK, Release
  <2> HIDE DEF Linked, Pushing
  <2> QED
    BY <2>1 DEF NodesAccounted
<1> QED
  BY <1>1, <1>2, <1>3, <1>4, <1>5, <1>6

LEMMA PushCallInv ==
  ASSUME IInv, NEW t \in Threads, NEW d \in Data, PushCall(t, d)
  PROVE  IInv'
<1> USE DEF IInv
<1>1. PICK n \in Nodes \ heap :
        /\ heap' = heap \cup {n}
        /\ data' = [data EXCEPT ![n] = d]
        /\ next' = [next EXCEPT ![n] = NULL]
        /\ node' = [node EXCEPT ![t] = n]
  BY DEF PushCall
<1>2. /\ pc[t] = "idle" /\ pc' = [pc EXCEPT ![t] = "push_lock"]
      /\ val' = [val EXCEPT ![t] = d]
      /\ UNCHANGED <<head, tail, len, lock, chain>>
  BY DEF PushCall
<1>3. \A i \in 1..Len(chain) : chain[i] \in heap /\ chain[i] # n
  BY <1>1 DEF NodesAccounted
<1>4. \A u \in Threads : Pushing(u) => node[u] \in heap /\ node[u] # n
  BY <1>1 DEF NodesAccounted
<1>5. TypeOK'
  BY <1>1, <1>2 DEF TypeOK
<1>6. LockHeld'
  BY <1>2 DEF TypeOK, LockHeld
<1>7. IdleClean' /\ InFlight'
  BY <1>1, <1>2, <1>4 DEF TypeOK, IdleClean, InFlight
<1>8. LinkedData'
  BY <1>1, <1>2, <1>3 DEF TypeOK, LinkedData
<1>9. LenOwed'
  BY <1>2 DEF TypeOK, LockHeld, LenOwed
<1>10. ListShape'
  BY <1>1, <1>2, <1>3, LenProperties DEF TypeOK, ListShape
<1>11. NodesAccounted'
  <2>1. /\ heap' = heap \cup {n} /\ Linked' = Linked
        /\ Pushing(t)' /\ node'[t] = n /\ ~Pushing(t)
        /\ \A u \in Threads \ {t} :
              (Pushing(u)' <=> Pushing(u)) /\ node'[u] = node[u]
    BY <1>1, <1>2 DEF TypeOK
  <2>2. n \notin heap /\ n \notin Linked
    BY <1>1, <1>3
  <2> HIDE DEF Linked, Pushing
  <2> QED
    BY <1>4, <2>1, <2>2 DEF NodesAccounted
<1> QED
  BY <1>5, <1>6, <1>7, <1>8, <1>9, <1>10, <1>11

\* What is known of the node when the mutex owner links it behind the others.
LEMMA Linking ==
  ASSUME IInv, NEW t \in Threads, pc[t] = "push_link"
  PROVE  /\ node[t] \in Nodes /\ node[t] \in heap
         /\ node[t] # NULL
         /\ next[node[t]] = NULL
         /\ data[node[t]] \in Data
         /\ lock = t
         /\ len = Len(chain)
         /\ Len(chain) \in Nat
         /\ \A i \in 1..Len(chain) : chain[i] \in Nodes /\ chain[i] # node[t]
         /\ head = NULL <=> Len(chain) = 0
         /\ Append(chain, node[t]) \in Seq(Nodes)
         /\ Len(Append(chain, node[t])) = Len(chain) + 1
         /\ \A i \in 1..Len(chain) : Append(chain, node[t])[i] = chain[i]
         /\ Append(chain, node[t])[Len(chain) + 1] = node[t]
<1> USE DEF IInv
<1>1. node[t] \in Nodes /\ next[node[t]] = NULL /\ data[node[t]] \in Data
  BY DEF InFlight
<1>2. node[t] # NULL
  BY <1>1, NullAssumption
<1>3. chain \in Seq(Nodes)
  BY DEF TypeOK
<1>4. Len(chain) \in Nat /\ \A i \in 1..Len(chain) : chain[i] \in Nodes
  BY <1>3, LenProperties, ElementOfSeq
<1>5. node[t] \in heap /\ \A i \in 1..Len(chain) : chain[i] # node[t]
  BY DEF NodesAccounted
<1>6. lock = t
  BY DEF LockHeld
<1>7. len = Len(chain)
  BY <1>6 DEF LenOwed
<1>8. chain = <<>> <=> Len(chain) = 0
  BY <1>3, EmptySeq
<1>9. head = NULL <=> Len(chain) = 0
  BY <1>4, <1>8, NullAssumption DEF ListShape
<1>10. /\ Append(chain, node[t]) \in Seq(Nodes)
       /\ Len(Append(chain, node[t])) = Len(chain) + 1
       /\ \A i \in 1..Len(chain) : Append(chain, node[t])[i] = chain[i]
       /\ Append(chain, node[t])[Len(chain) + 1] = node[t]
  BY <1>1, <1>3, AppendProperties
<1> QED
  BY <1>1, <1>2, <1>4, <1>5, <1>6, <1>7, <1>9, <1>10

LEMMA PushFirstInv ==
  ASSUME IInv, NEW t \in Threads, PushFirst(t)
  PROVE  IInv'
<1> USE DEF IInv
<1>1. pc[t] = "push_link" /\ head = NULL
  BY DEF PushFirst
<1>2. Len(chain) = 0
  BY <1>1, Linking
<1>3. /\ chain' \in Seq(Nodes) /\ Len(chain') = 1 /\ chain'[1] = node[t]
      /\ chain' # <<>>
  BY <1>1, <1>2, Linking, EmptySeq DEF PushFirst
<1>4. TypeOK'
  BY <1>1, <1>3, Linking DEF TypeOK, PushFirst
<1>5. LockHeld'
  BY DEF TypeOK, LockHeld, PushFirst
<1>6. IdleClean' /\ InFlight' /\ LinkedData'
  BY <1>1, <1>3, Linking DEF TypeOK, IdleClean, InFlight, LinkedData, PushFirst
<1>7. LenOwed'
  BY <1>1, <1>2, <1>3, Linking, NullAssumption DEF TypeOK, LenOwed, PushFirst
<1>8. ListShape'
  BY <1>1, <1>3, Linking DEF ListShape, PushFirst
<1>9. NodesAccounted'
  BY <1>1, <1>2, <1>3, Linking DEF TypeOK, NodesAccounted, PushFirst
<1> QED
  BY <1>4, <1>5, <1>6, <1>7, <1>8, <1>9

LEMMA PushBehindInv ==
  ASSUME IInv, NEW t \in Threads, PushBehind(t)
  PROVE  IInv'
<1> USE DEF IInv
<1> DEFINE n == Len(chain)
<1>1. pc[t] = "push_link" /\ head # NULL
  BY DEF PushBehind
<1>2. n \in Nat /\ n > 0
  BY <1>1, Linking
<1>3. /\ chain' \in Seq(Nodes) /\ Len(chain') = n + 1 /\ chain' # <<>>
      /\ chain'[n + 1] = node[t]
      /\ \A i \in 1..n : chain'[i] = chain[i]
  BY <1>1, <1>2, Linking, EmptySeq DEF PushBehind
<1>4. tail = chain[n] /\ head = chain[1] /\ tail \in Nodes
  BY <1>1, <1>2, Linking, EmptySeq DEF ListShape, TypeOK
<1>5. /\ next' = [next EXCEPT ![tail] = node[t]] /\ tail' = node[t]
      /\ pc' = [pc EXCEPT ![t] = "push_len"]
      /\ UNCHANGED <<head, len, lock, data, heap, node, val>>
  BY DEF PushBehind
<1>6. TypeOK'
  BY <1>1, <1>3, <1>4, <1>5, Linking DEF TypeOK
<1>7. LockHeld'
  BY <1>1, <1>5 DEF TypeOK, LockHeld
<1>8. \A u \in Threads : Pushing(u) => node[u] # tail
  BY <1>2, <1>4 DEF NodesAccounted
<1>9. IdleClean' /\ InFlight'
  BY <1>1, <1>4, <1>5, <1>8 DEF TypeOK, IdleClean, InFlight
<1>10. LinkedData'
  BY <1>1, <1>2, <1>3, <1>5, Linking DEF TypeOK, LinkedData
<1>11. LenOwed'
  BY <1>1, <1>2, <1>3, <1>5, Linking, NullAssumption DEF TypeOK, LenOwed
<1>12. ListShape'
  <2>1. head' = chain'[1] /\ tail' = chain'[Len(chain')]
    BY <1>2, <1>3, <1>4, <1>5
  <2>2. next'[tail'] = NULL
    BY <1>1, <1>2, <1>4, <1>5, Linking DEF TypeOK
  <2>3. ASSUME NEW i \in 1..n PROVE next'[chain'[i]] = chain'[i + 1]
    <3>1. CASE i = n
      BY <3>1, <1>2, <1>3, <1>4, <1>5 DEF TypeOK
    <3>2. CASE i # n
      <4>1. chain[i] # tail /\ next[chain[i]] = chain[i + 1] /\ chain[i] \in Nodes
        BY <3>2, <1>2, <1>4, <1>1, Linking DEF ListShape
      <4> QED
        BY <4>1, <3>2, <1>2, <1>3, <1>5 DEF TypeOK
    <3> QED
      BY <3>1, <3>2
  <2>4. \A i, j \in 1..(n + 1) : chain'[i] = chain'[j] => i = j
    BY <1>1, <1>2, <1>3, Linking DEF ListShape
  <2> QED
    BY <1>2, <1>3, <2>1, <2>2, <2>3, <2>4 DEF ListShape
<1>13. NodesAccounted'
  <2>1. Linked' = Linked \cup {node[t]}
    BY <1>2, <1>3
  <2>2. ~Pushing(t)' /\ \A u \in Threads \ {t} : Pushing(u)' <=> Pushing(u)
    BY <1>5 DEF TypeOK
  <2>3. Pushing(t)
    BY <1>1
  <2> QED
    BY <1>5, <2>1, <2>2, <2>3 DEF NodesAccounted
<1> QED
  BY <1>6, <1>7, <1>9, <1>10, <1>11, <1>12, <1>13

LEMMA PushCountInv ==
  ASSUME IInv, NEW t \in Threads, PushCount(t)
  PROVE  IInv'
<1> USE DEF IInv
<1>1. TypeOK'
  BY NullAssumption DEF TypeOK, PushCount
<1>2. LockHeld'
  BY NullAssumption DEF TypeOK, LockHeld, PushCount
<1>3. IdleClean' /\ InFlight' /\ LinkedData'
  BY DEF TypeOK, IdleClean, InFlight, LinkedData, PushCount
<1>4. LenOwed'
  BY NullAssumption DEF TypeOK, LockHeld, LenOwed, PushCount
<1>5. ListShape'
  BY DEF TypeOK, ListShape, PushCount
<1>6. NodesAccounted'
  <2>1. /\ chain' = chain /\ heap' = heap /\ Linked' = Linked
        /\ \A u \in Threads : Pushing(u)' <=> Pushing(u)
        /\ \A u \in Threads : Pushing(u) => node'[u] = node[u]
    BY DEF TypeOK, PushCount
  <2> HIDE DEF Linked, Pushing
  <2> QED
    BY <2>1 DEF NodesAccounted
<1> QED
  BY <1>1, <1>2, <1>3, <1>4, <1>5, <1>6

LEMMA PullCallInv ==
  ASSUME IInv, NEW t \in Threads, PullCall(t)
  PROVE  IInv'
<1> USE DEF IInv
<1>1. TypeOK'
  BY NullAssumption DEF TypeOK, PullCall
<1>2. LockHeld'
  BY NullAssumption DEF TypeOK, LockHeld, PullCall
<1>3. IdleClean' /\ InFlight' /\ LinkedData'
  BY DEF TypeOK, IdleClean, InFlight, LinkedData, PullCall
<1>4. LenOwed'
  BY NullAssumption DEF TypeOK, LockHeld, LenOwed, PullCall
<1>5. ListShape'
  BY DEF TypeOK, ListShape, PullCall
<1>6. NodesAccounted'
  <2>1. /\ chain' = chain /\ heap' = heap /\ Linked' = Linked
        /\ \A u \in Threads : Pushing(u)' <=> Pushing(u)
        /\ \A u \in Threads : Pushing(u) => node'[u] = node[u]
    BY DEF TypeOK, PullCall
  <2> HIDE DEF Linked, Pushing
  <2> QED
    BY <2>1 DEF NodesAccounted
<1> QED
  BY <1>1, <1>2, <1>3, <1>4, <1>5, <1>6

LEMMA PullEmptyInv ==
  ASSUME IInv, NEW t \in Threads, PullEmpty(t)
  PROVE  IInv'
<1> USE DEF IInv
<1>1. TypeOK'
  BY NullAssumption DEF TypeOK, PullEmpty
<1>2. LockHeld'
  BY NullAssumption DEF TypeOK, LockHeld, PullEmpty
<1>3. IdleClean' /\ InFlight' /\ LinkedData'
  BY DEF TypeOK, IdleClean, InFlight, LinkedData, PullEmpty
<1>4. LenOwed'
  BY NullAssumption DEF TypeOK, LockHeld, LenOwed, PullEmpty
<1>5. ListShape'
  BY DEF TypeOK, ListShape, PullEmpty
<1>6. NodesAccounted'
  <2>1. /\ chain' = chain /\ heap' = heap /\ Linked' = Linked
        /\ \A u \in Threads : Pushing(u)' <=> Pushing(u)
        /\ \A u \in Threads : Pushing(u) => node'[u] = node[u]
    BY DEF TypeOK, PullEmpty
  <2> HIDE DEF Linked, Pushing
  <2> QED
    BY <2>1 DEF NodesAccounted
<1> QED
  BY <1>1, <1>2, <1>3, <1>4, <1>5, <1>6

LEMMA PullCountInv ==
  ASSUME IInv, NEW t \in Threads, PullCount(t)
  PROVE  IInv'
<1> USE DEF IInv
<1>0. val[t] # NULL => len \in Nat /\ len > 0
  BY LenProperties DEF TypeOK, LockHeld, LenOwed, PullCount
<1>1. TypeOK'
  BY <1>0 DEF TypeOK, PullCount
<1>2. LockHeld'
  BY NullAssumption DEF TypeOK, LockHeld, PullCount
<1>3. IdleClean' /\ InFlight' /\ LinkedData'
  BY DEF TypeOK, IdleClean, InFlight, LinkedData, PullCount
<1>4. LenOwed'
  BY NullAssumption DEF TypeOK, LockHeld, LenOwed, PullCount
<1>5. ListShape'
  BY DEF TypeOK, ListShape, PullCount
<1>6. NodesAccounted'
  <2>1. /\ chain' = chain /\ heap' = heap /\ Linked' = Linked
        /\ \A u \in Threads : Pushing(u)' <=> Pushing(u)
        /\ \A u \in Threads : Pushing(u) => node'[u] = node[u]
    BY DEF TypeOK, PullCount
  <2> HIDE DEF Linked, Pushing
  <2> QED
    BY <2>1 DEF NodesAccounted
<1> QED
  BY <1>1, <1>2, <1>3, <1>4, <1>5, <1>6

LEMMA LenCallInv ==
  ASSUME IInv, NEW t \in Threads, LenCall(t)
  PROVE  IInv'
<1> USE DEF IInv
<1>1. TypeOK'
  BY NullAssumption DEF TypeOK, LenCall
<1>2. LockHeld'
  BY NullAssumption DEF TypeOK, LockHeld, LenCall
<1>3. IdleClean' /\ InFlight' /\ LinkedData'
  BY DEF TypeOK, IdleClean, InFlight, LinkedData, LenCall
<1>4. LenOwed'
  BY NullAssumption DEF TypeOK, LockHeld, LenOwed, LenCall
<1>5. ListShape'
  BY DEF TypeOK, ListShape, LenCall
<1>6. NodesAccounted'
  <2>1. /\ chain' = chain /\ heap' = heap /\ Linked' = Linked
        /\ \A u \in Threads : Pushing(u)' <=> Pushing(u)
        /\ \A u \in Threads : Pushing(u) => node'[u] = node[u]
    BY DEF TypeOK, LenCall
  <2> HIDE DEF Linked, Pushing
  <2> QED
    BY <2>1 DEF NodesAccounted
<1> QED
  BY <1>1, <1>2, <1>3, <1>4, <1>5, <1>6

LEMMA LenReadInv ==
  ASSUME IInv, NEW t \in Threads, LenRead(t)
  PROVE  IInv'
<1> USE DEF IInv
<1>1. TypeOK'
  BY NullAssumption DEF TypeOK, LenRead
<1>2. LockHeld'
  BY NullAssumption DEF TypeOK, LockHeld, LenRead
<1>3. IdleClean' /\ InFlight' /\ LinkedData'
  BY DEF TypeOK, IdleClean, InFlight, LinkedData, LenRead
<1>4. LenOwed'
  BY NullAssumption DEF TypeOK, LockHeld, LenOwed, LenRead
<1>5. ListShape'
  BY DEF TypeOK, ListShape, LenRead
<1>6. NodesAccounted'
  <2>1. /\ chain' = chain /\ heap' = heap /\ Linked' = Linked
        /\ \A u \in Threads : Pushing(u)' <=> Pushing(u)
        /\ \A u \in Threads : Pushing(u) => node'[u] = node[u]
    BY DEF TypeOK, LenRead
  <2> HIDE DEF Linked, Pushing
  <2> QED
    BY <2>1 DEF NodesAccounted
<1> QED
  BY <1>1, <1>2, <1>3, <1>4, <1>5, <1>6

\* What the mutex owner knows when it takes the first node off the list.
LEMMA Unlinking ==
  ASSUME IInv, NEW t \in Threads, pc[t] = "pull_unlink", head # NULL
  PROVE  /\ lock = t
         /\ Len(chain) \in Nat /\ Len(chain) > 0
         /\ len = Len(chain)
         /\ head = chain[1] /\ tail = chain[Len(chain)]
         /\ head \in Nodes
         /\ data[head] \in Data /\ data[head] # NULL
         /\ \A i \in 1..Len(chain) : chain[i] \in Nodes
         /\ Tail(chain) \in Seq(Nodes)
         /\ Len(Tail(chain)) = Len(chain) - 1
         /\ \A i \in 1..(Len(chain) - 1) : Tail(chain)[i] = chain[i + 1]
<1> USE DEF IInv
<1>1. chain \in Seq(Nodes) /\ chain # <<>>
  BY DEF TypeOK, ListShape
<1>2. Len(chain) \in Nat /\ Len(chain) > 0
  BY <1>1, EmptySeq
<1>3. head = chain[1] /\ tail = chain[Len(chain)]
  BY <1>1 DEF ListShape
<1>4. \A i \in 1..Len(chain) : chain[i] \in Nodes
  BY <1>1, ElementOfSeq
<1>5. head \in Nodes
  BY <1>2, <1>3, <1>4
<1>6. data[head] \in Data /\ data[head] # NULL
  BY <1>2, <1>3, NullAssumption DEF LinkedData
<1>7. lock = t
  BY DEF LockHeld
<1>8. len = Len(chain)
  BY <1>7 DEF LenOwed
<1>9. /\ Tail(chain) \in Seq(Nodes)
      /\ Len(Tail(chain)) = Len(chain) - 1
      /\ \A i \in 1..(Len(chain) - 1) : Tail(chain)[i] = chain[i + 1]
  BY <1>1, <1>2, HeadTailProperties
<1> QED
  BY <1>2, <1>3, <1>4, <1>5, <1>6, <1>7, <1>8, <1>9

LEMMA PullOnlyInv ==
  ASSUME IInv, NEW t \in Threads, PullOnly(t)
  PROVE  IInv'
<1> USE DEF IInv
<1>1. pc[t] = "pull_unlink" /\ head # NULL /\ head = tail
  BY DEF PullOnly
<1>2. Len(chain) = 1
  <2>1. /\ Len(chain) \in Nat /\ Len(chain) > 0
        /\ chain[1] = chain[Len(chain)]
    BY <1>1, Unlinking
  <2>2. \A i, j \in 1..Len(chain) : chain[i] = chain[j] => i = j
    BY DEF ListShape
  <2>3. 1 \in 1..Len(chain) /\ Len(chain) \in 1..Len(chain)
    BY <2>1
  <2>4. 1 = Len(chain)
    BY <2>1, <2>2, <2>3, Zenon
  <2> QED
    BY <2>4
<1>3. chain' \in Seq(Nodes) /\ Len(chain') = 0 /\ chain' = <<>>
  BY <1>1, <1>2, Unlinking, EmptySeq DEF PullOnly
<1>4. /\ head' = NULL /\ tail' = NULL /\ heap' = heap \ {head}
      /\ pc' = [pc EXCEPT ![t] = "pull_len"]
      /\ val' = [val EXCEPT ![t] = data[head]]
      /\ UNCHANGED <<len, next, lock, data, node>>
  BY DEF PullOnly
<1>5. TypeOK'
  BY <1>1, <1>3, <1>4, Unlinking DEF TypeOK
<1>6. LockHeld'
  BY <1>1, <1>4 DEF TypeOK, LockHeld
<1>7. IdleClean' /\ InFlight' /\ LinkedData'
  BY <1>1, <1>3, <1>4 DEF TypeOK, IdleClean, InFlight, LinkedData
<1>8. LenOwed'
  BY <1>1, <1>2, <1>3, <1>4, Unlinking, NullAssumption DEF TypeOK, LenOwed
<1>9. ListShape'
  BY <1>3, <1>4 DEF ListShape
<1>10. NodesAccounted'
  <2>1. Linked = {head} /\ Linked' = {}
    BY <1>1, <1>2, <1>3, Unlinking
  <2>2. \A u \in Threads : Pushing(u)' <=> Pushing(u)
    BY <1>1, <1>4 DEF TypeOK
  <2> QED
    BY <1>4, <2>1, <2>2 DEF NodesAccounted
<1> QED
  BY <1>5, <1>6, <1>7, <1>8, <1>9, <1>10

LEMMA PullFirstInv ==
  ASSUME IInv, NEW t \in Threads, PullFirst(t)
  PROVE  IInv'
<1> USE DEF IInv
<1> DEFINE n == Len(chain)
<1>1. pc[t] = "pull_unlink" /\ head # NULL /\ head # tail
  BY DEF PullFirst
<1>2. n \in Nat /\ n > 1
  BY <1>1, Unlinking
<1>3. /\ chain' \in Seq(Nodes) /\ Len(chain') = n - 1 /\ chain' # <<>>
      /\ \A i \in 1..(n - 1) : chain'[i] = chain[i + 1]
  <2>1. chain' = Tail(chain)
    BY DEF PullFirst
  <2>2. /\ chain' \in Seq(Nodes) /\ Len(chain') = n - 1
        /\ \A i \in 1..(n - 1) : chain'[i] = chain[i + 1]
    BY <1>1, <2>1, Unlinking
  <2> QED
    BY <1>2, <2>2, EmptySeq
<1>4. /\ head' = next[head] /\ heap' = heap \ {head}
      /\ pc' = [pc EXCEPT ![t] = "pull_len"]
      /\ val' = [val EXCEPT ![t] = data[head]]
      /\ UNCHANGED <<tail, len, next, lock, data, node>>
  BY DEF PullFirst
<1>5. next[head] = chain[2] /\ chain[2] \in Nodes
  BY <1>1, <1>2, Unlinking DEF ListShape
<1>6. TypeOK'
  BY <1>1, <1>3, <1>4, <1>5, Unlinking DEF TypeOK
<1>7. LockHeld'
  BY <1>1, <1>4 DEF TypeOK, LockHeld
<1>8. IdleClean' /\ InFlight' /\ LinkedData'
  <2>1. IdleClean' /\ InFlight'
    BY <1>1, <1>4 DEF TypeOK, IdleClean, InFlight
  <2>2. \A i \in 1..(n - 1) : data[chain'[i]] \in Data
    BY <1>2, <1>3 DEF LinkedData
  <2> QED
    BY <1>3, <1>4, <2>1, <2>2 DEF LinkedData
<1>9. LenOwed'
  BY <1>1, <1>2, <1>3, <1>4, Unlinking, NullAssumption DEF TypeOK, LenOwed
<1>10. ListShape'
  <2>1. head' = chain'[1] /\ tail' = chain'[Len(chain')] /\ next'[tail'] = NULL
    BY <1>1, <1>2, <1>3, <1>4, <1>5, Unlinking DEF ListShape
  <2>2. \A i \in 1..(Len(chain') - 1) : next'[chain'[i]] = chain'[i + 1]
    BY <1>2, <1>3, <1>4 DEF ListShape
  <2>3. \A i, j \in 1..Len(chain') : chain'[i] = chain'[j] => i = j
    BY <1>2, <1>3 DEF ListShape
  <2> QED
    BY <1>3, <2>1, <2>2, <2>3 DEF ListShape
<1>11. NodesAccounted'
  <2>1. Linked' = Linked \ {head}
    <3>1. \A i \in 1..(n - 1) : chain'[i] \in Linked /\ chain'[i] # head
      BY <1>1, <1>2, <1>3, Unlinking DEF ListShape
    <3>2. ASSUME NEW i \in 1..n, chain[i] # head
          PROVE  \E j \in 1..(n - 1) : chain'[j] = chain[i]
      <4>1. i # 1
        BY <3>2, <1>1, Unlinking
      <4>2. i - 1 \in 1..(n - 1) /\ (i - 1) + 1 = i
        BY <4>1, <1>2
      <4>3. chain'[i - 1] = chain[i]
        BY <4>2, <1>3
      <4> QED
        BY <4>2, <4>3
    <3>3. Linked' = {chain'[j] : j \in 1..(n - 1)}
      BY <1>3
    <3>4. ASSUME NEW x \in Linked' PROVE x \in Linked \ {head}
      BY <3>1, <3>3
    <3>5. ASSUME NEW x \in Linked \ {head} PROVE x \in Linked'
      BY <3>2, <3>3
    <3> HIDE DEF Linked
    <3> QED
      BY <3>4, <3>5
  <2>2. \A u \in Threads : Pushing(u)' <=> Pushing(u)
    BY <1>1, <1>4 DEF TypeOK
  <2>3. head \in Linked
    BY <1>1, Unlinking
  <2> HIDE DEF Linked, Pushing
  <2> QED
    BY <1>4, <2>1, <2>2, <2>3 DEF NodesAccounted
<1> QED
  BY <1>6, <1>7, <1>8, <1>9, <1>10, <1>11

LEMMA StutterInv == IInv /\ UNCHANGED vars => IInv'
BY DEF IInv, TypeOK, LockHeld, IdleClean, InFlight, LinkedData, LenOwed, ListShape,
       NodesAccounted, vars

LEMMA NextInv == IInv /\ [Next]_vars => IInv'
<1> SUFFICES ASSUME IInv, [Next]_vars PROVE IInv'
  OBVIOUS
<1>1. CASE UNCHANGED vars
  BY <1>1, StutterInv
<1>2. ASSUME NEW t \in Threads, NEW d \in Data, PushCall(t, d) PROVE IInv'
  BY <1>2, PushCallInv
<1>3. ASSUME NEW t \in Threads, PullCall(t) \/ LenCall(t) PROVE IInv'
  BY <1>3, PullCallInv, LenCallInv
<1>4. ASSUME NEW t \in Threads, Step(t) PROVE IInv'
  <2>1. CASE Acquire(t) \/ LenRead(t) \/ Release(t)
    BY <2>1, AcquireInv, LenReadInv, ReleaseInv
  <2>2. CASE Push(t)
    BY <2>2, PushFirstInv, PushBehindInv, PushCountInv DEF Push
  <2>3. CASE Pull(t)
    BY <2>3, PullEmptyInv, PullOnlyInv, PullFirstInv, PullCountInv DEF Pull
  <2> QED
    BY <1>4, <2>1, <2>2, <2>3 DEF Step
<1> QED
  BY <1>1, <1>2, <1>3, <1>4 DEF Next

\* The invariant of every reachable state: lock discipline, list, length and
\* ownership of nodes together.
THEOREM Invariance == Spec => []IInv
BY InitInv, NextInv, PTL DEF Spec

\* Every variable keeps its type; in particular len never drops below zero
\* (sx_queue.c:152-154 decrements only for a node that was counted).
THEOREM TypeCorrect == Spec => []TypeOK
BY Invariance, PTL DEF IInv

\* The pointers always spell out the nodes linked, in order (sx_queue.c:69-81,
\* 112-148).
THEOREM ListCorrect == Spec => []ListShape
BY Invariance, PTL DEF IInv

\* No node is leaked, freed twice or used after it was freed (sx_queue.c:62,
\* 134, 147).
THEOREM MemoryCorrect == Spec => []NodesAccounted
BY Invariance, PTL DEF IInv

\* len is the number of nodes whenever nobody is between the two writes that
\* change both (sx_queue.c:85, 152-154, 182).
THEOREM LenCorrect == Spec => []LenExact
<1>1. IInv => LenExact
  BY DEF IInv, TypeOK, LenOwed, LenExact
<1> QED
  BY <1>1, Invariance, PTL

\* The assertions of sx_queue_pull() cannot fail (sx_queue.c:115, 127, 128).
THEOREM AssertionsCorrect == Spec => []AssertsHold
<1>1. IInv => AssertsHold
  <2> SUFFICES ASSUME IInv, NEW t \in Threads, pc[t] = "pull_unlink"
               PROVE  /\ head = NULL => tail = NULL
                      /\ head # NULL /\ head = tail =>
                            next[head] = NULL /\ next[tail] = NULL
    BY DEF AssertsHold
  <2>1. head = NULL => chain = <<>>
    <3>1. chain # <<>> => head \in Nodes
      BY EmptySeq, ElementOfSeq DEF IInv, TypeOK, ListShape
    <3> QED
      BY <3>1, NullAssumption
  <2> QED
    BY <2>1 DEF IInv, ListShape
<1> QED
  BY <1>1, Invariance, PTL

\* Two threads are never inside the queue at once.
THEOREM MutualExclusion ==
  Spec => [](\A t, u \in Threads :
                pc[t] \in Critical /\ pc[u] \in Critical => t = u)
<1>1. IInv => \A t, u \in Threads :
                pc[t] \in Critical /\ pc[u] \in Critical => t = u
  BY DEF IInv, LockHeld
<1> QED
  BY <1>1, Invariance, PTL

(***************************************************************************)
(* Refinement                                                              *)
(***************************************************************************)
\* A move of one thread's program counter moves its abstract phase only.
LEMMA PhaseStep ==
  ASSUME pc \in [Threads -> Locations], NEW t \in Threads, NEW l \in Locations,
         pc' = [pc EXCEPT ![t] = l]
  PROVE  Phase' = [Phase EXCEPT ![t] = PhaseOf(l)]
BY DEF Phase

LEMMA PhaseValues ==
  /\ PhaseOf("idle") = "idle"
  /\ PhaseOf("push_lock") = "push"   /\ PhaseOf("push_link") = "push"
  /\ PhaseOf("push_len") = "pushed"  /\ PhaseOf("push_unlock") = "pushed"
  /\ PhaseOf("pull_lock") = "pull"   /\ PhaseOf("pull_unlink") = "pull"
  /\ PhaseOf("pull_len") = "pulled"  /\ PhaseOf("pull_unlock") = "pulled"
  /\ PhaseOf("len_lock") = "count"   /\ PhaseOf("len_read") = "count"
  /\ PhaseOf("len_unlock") = "counted"
BY DEF PhaseOf

\* A step that changes neither the chain nor the data in it leaves the contents.
LEMMA ContentsSame ==
  ASSUME chain' = chain, \A i \in 1..Len(chain) : data'[chain[i]] = data[chain[i]]
  PROVE  Contents' = Contents
BY DEF Contents

\* A step of a thread that stays in its phase is invisible to the abstract queue.
LEMMA Invisible ==
  ASSUME IInv, NEW t \in Threads, NEW l \in Locations, Goto(t, l),
         PhaseOf(l) = PhaseOf(pc[t]), UNCHANGED <<chain, data, val>>
  PROVE  UNCHANGED Abstract!vars
<1>1. Contents' = Contents
  BY ContentsSame
<1>2. Phase' = [Phase EXCEPT ![t] = PhaseOf(l)]
  BY PhaseStep DEF IInv, TypeOK
<1>3. Phase' = Phase
  BY <1>2 DEF Phase
<1> QED
  BY <1>1, <1>3 DEF Abstract!vars

LEMMA ContentsSeq ==
  ASSUME IInv
  PROVE  /\ Contents \in Seq(Data)
         /\ Len(Contents) = Len(chain)
         /\ Len(chain) \in Nat
<1>1. chain \in Seq(Nodes) /\ Len(chain) \in Nat
  BY LenProperties DEF IInv, TypeOK
<1>2. \A i \in 1..Len(chain) : data[chain[i]] \in Data
  BY DEF IInv, LinkedData
<1> QED
  BY <1>1, <1>2 DEF Contents

LEMMA PushLinks ==
  ASSUME IInv, NEW t \in Threads, PushFirst(t) \/ PushBehind(t)
  PROVE  Abstract!Enqueue(t)
<1> DEFINE n == Len(chain)
<1>1. /\ pc[t] = "push_link" /\ pc' = [pc EXCEPT ![t] = "push_len"]
      /\ chain' = Append(chain, node[t])
      /\ UNCHANGED <<data, val>>
  BY DEF PushFirst, PushBehind
<1>2. data[node[t]] = val[t] /\ val[t] \in Data
  BY <1>1 DEF IInv, InFlight
<1>3. Phase[t] = "push" /\ Phase' = [Phase EXCEPT ![t] = "pushed"]
  BY <1>1, PhaseStep, PhaseValues DEF Phase, IInv, TypeOK
<1>4. Contents' = Append(Contents, val[t])
  <2>1. /\ Contents \in Seq(Data) /\ Len(Contents) = n /\ n \in Nat
    BY ContentsSeq
  <2>2. /\ Append(Contents, val[t]) \in Seq(Data)
        /\ Len(Append(Contents, val[t])) = n + 1
        /\ \A i \in 1..n : Append(Contents, val[t])[i] = Contents[i]
        /\ Append(Contents, val[t])[n + 1] = val[t]
    BY <1>2, <2>1, AppendProperties
  <2>3. /\ Len(chain') = n + 1 /\ chain'[n + 1] = node[t]
        /\ \A i \in 1..n : chain'[i] = chain[i]
    BY <1>1, Linking
  <2>4. Contents' = [i \in 1..(n + 1) |-> data[chain'[i]]]
    BY <1>1, <2>3 DEF Contents
  <2>5. Contents' \in Seq(Data) /\ Len(Contents') = n + 1
    BY <2>4, <2>3, <2>1, <1>2 DEF IInv, LinkedData
  <2>6. \A i \in 1..(n + 1) : Contents'[i] = Append(Contents, val[t])[i]
    <3> TAKE i \in 1..(n + 1)
    <3>1. CASE i = n + 1
      BY <3>1, <2>2, <2>3, <2>4, <1>2
    <3>2. CASE i # n + 1
      BY <3>2, <2>1, <2>2, <2>3, <2>4 DEF Contents
    <3> QED
      BY <3>1, <3>2
  <2> QED
    BY <2>2, <2>5, <2>6, SeqEqual
<1> QED
  BY <1>1, <1>3, <1>4 DEF Abstract!Enqueue

LEMMA PullUnlinks ==
  ASSUME IInv, NEW t \in Threads, PullEmpty(t) \/ PullOnly(t) \/ PullFirst(t)
  PROVE  Abstract!Dequeue(t)
<1> DEFINE n == Len(chain)
<1>1. /\ pc[t] = "pull_unlink" /\ pc' = [pc EXCEPT ![t] = "pull_len"]
      /\ UNCHANGED data
  BY DEF PullEmpty, PullOnly, PullFirst
<1>2. Phase[t] = "pull" /\ Phase' = [Phase EXCEPT ![t] = "pulled"]
  BY <1>1, PhaseStep, PhaseValues DEF Phase, IInv, TypeOK
<1>3. /\ Contents \in Seq(Data) /\ Len(Contents) = n /\ n \in Nat
  BY ContentsSeq
<1>4. CASE head = NULL
  <2>1. val' = [val EXCEPT ![t] = NULL] /\ chain' = chain
    BY <1>4 DEF PullEmpty, PullOnly, PullFirst
  <2>2. chain = <<>>
    BY <1>4, EmptySeq, ElementOfSeq, NullAssumption DEF IInv, TypeOK, ListShape
  <2>3. Contents = <<>>
    BY <2>2, <1>3, EmptySeq
  <2>4. Contents' = Contents
    BY <2>1, <1>1, ContentsSame
  <2> QED
    BY <1>2, <2>1, <2>3, <2>4 DEF Abstract!Dequeue
<1>5. CASE head # NULL
  <2>1. val' = [val EXCEPT ![t] = data[head]] /\ chain' = Tail(chain)
    BY <1>5 DEF PullEmpty, PullOnly, PullFirst
  <2>2. /\ n > 0 /\ head = chain[1] /\ Len(chain') = n - 1
        /\ \A i \in 1..(n - 1) : chain'[i] = chain[i + 1]
    BY <1>1, <1>5, <2>1, Unlinking
  <2>3. Contents # <<>> /\ Head(Contents) = data[head]
    BY <1>3, <2>2, EmptySeq DEF Contents
  <2>4. /\ Tail(Contents) \in Seq(Data) /\ Len(Tail(Contents)) = n - 1
        /\ \A i \in 1..(n - 1) : Tail(Contents)[i] = Contents[i + 1]
    BY <1>3, <2>3, HeadTailProperties
  <2>5. Contents' = [i \in 1..(n - 1) |-> data[chain[i + 1]]]
    BY <1>1, <2>2 DEF Contents
  <2>6. Contents' \in Seq(Data) /\ Len(Contents') = n - 1
    BY <2>5, <2>2, <1>3 DEF IInv, LinkedData
  <2>7. \A i \in 1..(n - 1) : Contents'[i] = Tail(Contents)[i]
    BY <1>3, <2>2, <2>4, <2>5 DEF Contents
  <2>8. Contents' = Tail(Contents)
    BY <2>4, <2>6, <2>7, SeqEqual
  <2> QED
    BY <1>2, <2>1, <2>3, <2>8 DEF Abstract!Dequeue
<1> QED
  BY <1>4, <1>5

LEMMA LenReads ==
  ASSUME IInv, NEW t \in Threads, LenRead(t)
  PROVE  Abstract!Count(t)
<1>1. /\ pc[t] = "len_read" /\ pc' = [pc EXCEPT ![t] = "len_unlock"]
      /\ val' = [val EXCEPT ![t] = len] /\ UNCHANGED <<chain, data>>
  BY DEF LenRead
<1>2. Phase[t] = "count" /\ Phase' = [Phase EXCEPT ![t] = "counted"]
  BY <1>1, PhaseStep, PhaseValues DEF Phase, IInv, TypeOK
<1>3. len = Len(Contents)
  BY <1>1, ContentsSeq DEF IInv, LockHeld, LenOwed
<1>4. Contents' = Contents
  BY <1>1, ContentsSame
<1> QED
  BY <1>1, <1>2, <1>3, <1>4 DEF Abstract!Count

LEMMA CallsBegin ==
  ASSUME IInv, NEW t \in Threads
  PROVE  /\ \A d \in Data : PushCall(t, d) => Abstract!Call(t, "push", d)
         /\ PullCall(t) => Abstract!Call(t, "pull", NULL)
         /\ LenCall(t) => Abstract!Call(t, "count", NULL)
<1>1. ASSUME NEW d \in Data, PushCall(t, d)
      PROVE  Abstract!Call(t, "push", d)
  <2>1. PICK n \in Nodes \ heap : data' = [data EXCEPT ![n] = d]
    BY <1>1 DEF PushCall
  <2>2. \A i \in 1..Len(chain) : chain[i] # n
    BY <2>1 DEF IInv, NodesAccounted
  <2>3. Contents' = Contents
    BY <1>1, <2>1, <2>2, ContentsSame, ElementOfSeq
       DEF PushCall, IInv, TypeOK
  <2>4. Phase[t] = "idle" /\ Phase' = [Phase EXCEPT ![t] = "push"]
    BY <1>1, PhaseStep, PhaseValues DEF Phase, PushCall, IInv, TypeOK
  <2> QED
    BY <1>1, <2>3, <2>4 DEF PushCall, Abstract!Call
<1>2. ASSUME PullCall(t) PROVE Abstract!Call(t, "pull", NULL)
  <2>1. /\ pc[t] = "idle" /\ pc' = [pc EXCEPT ![t] = "pull_lock"]
        /\ UNCHANGED <<chain, data, val>>
    BY <1>2 DEF PullCall
  <2>2. Contents' = Contents
    BY <2>1, ContentsSame
  <2>3. Phase[t] = "idle" /\ Phase' = [Phase EXCEPT ![t] = "pull"]
    BY <2>1, PhaseStep, PhaseValues DEF Phase, IInv, TypeOK
  <2>4. val' = [val EXCEPT ![t] = NULL]
    BY <2>1 DEF IInv, TypeOK, IdleClean
  <2> QED
    BY <2>2, <2>3, <2>4 DEF Abstract!Call
<1>3. ASSUME LenCall(t) PROVE Abstract!Call(t, "count", NULL)
  <2>1. /\ pc[t] = "idle" /\ pc' = [pc EXCEPT ![t] = "len_lock"]
        /\ UNCHANGED <<chain, data, val>>
    BY <1>3 DEF LenCall
  <2>2. Contents' = Contents
    BY <2>1, ContentsSame
  <2>3. Phase[t] = "idle" /\ Phase' = [Phase EXCEPT ![t] = "count"]
    BY <2>1, PhaseStep, PhaseValues DEF Phase, IInv, TypeOK
  <2>4. val' = [val EXCEPT ![t] = NULL]
    BY <2>1 DEF IInv, TypeOK, IdleClean
  <2> QED
    BY <2>2, <2>3, <2>4 DEF Abstract!Call
<1> QED
  BY <1>1, <1>2, <1>3

LEMMA Returns ==
  ASSUME IInv, NEW t \in Threads, Release(t)
  PROVE  Abstract!Return(t)
<1>1. /\ pc[t] \in {"push_unlock", "pull_unlock", "len_unlock"}
      /\ pc' = [pc EXCEPT ![t] = "idle"]
      /\ val' = [val EXCEPT ![t] = NULL] /\ UNCHANGED <<chain, data>>
  BY DEF Release
<1>2. /\ Phase[t] \in {"pushed", "pulled", "counted"}
      /\ Phase' = [Phase EXCEPT ![t] = "idle"]
  BY <1>1, PhaseStep, PhaseValues DEF Phase, IInv, TypeOK
<1>3. Contents' = Contents
  BY <1>1, ContentsSame
<1> QED
  BY <1>1, <1>2, <1>3 DEF Abstract!Return

\* The rest of a call's steps: they change neither the phase nor the contents.
LEMMA InvisibleSteps ==
  ASSUME IInv, NEW t \in Threads, Acquire(t) \/ PushCount(t) \/ PullCount(t)
  PROVE  UNCHANGED Abstract!vars
<1>1. CASE Acquire(t)
  BY <1>1, Invisible, PhaseValues DEF Acquire
<1>2. CASE PushCount(t)
  BY <1>2, Invisible, PhaseValues DEF PushCount
<1>3. CASE PullCount(t)
  BY <1>3, Invisible, PhaseValues DEF PullCount
<1> QED
  BY <1>1, <1>2, <1>3

LEMMA InitRefines == Init => Abstract!Init
<1> SUFFICES ASSUME Init PROVE Abstract!Init
  OBVIOUS
<1>1. Contents = <<>>
  BY DEF Init, Contents
<1>2. Phase = [t \in Threads |-> "idle"]
  BY PhaseValues DEF Init, Phase
<1> QED
  BY <1>1, <1>2 DEF Init, Abstract!Init

LEMMA StepRefines ==
  ASSUME IInv, [Next]_vars
  PROVE  [Abstract!Next]_(Abstract!vars)
<1>1. CASE UNCHANGED vars
  BY <1>1 DEF vars, Abstract!vars, Contents, Phase
<1>2. ASSUME NEW t \in Threads, NEW d \in Data, PushCall(t, d)
      PROVE  Abstract!Next
  BY <1>2, CallsBegin DEF Abstract!Next
<1>3. ASSUME NEW t \in Threads, PullCall(t) \/ LenCall(t)
      PROVE  Abstract!Next
  BY <1>3, CallsBegin DEF Abstract!Next
<1>4. ASSUME NEW t \in Threads, Step(t)
      PROVE  Abstract!Next \/ UNCHANGED Abstract!vars
  <2>1. CASE Acquire(t) \/ PushCount(t) \/ PullCount(t)
    BY <2>1, InvisibleSteps
  <2>2. CASE PushFirst(t) \/ PushBehind(t)
    BY <2>2, PushLinks DEF Abstract!Next
  <2>3. CASE PullEmpty(t) \/ PullOnly(t) \/ PullFirst(t)
    BY <2>3, PullUnlinks DEF Abstract!Next
  <2>4. CASE LenRead(t)
    BY <2>4, LenReads DEF Abstract!Next
  <2>5. CASE Release(t)
    BY <2>5, Returns DEF Abstract!Next
  <2> QED
    BY <1>4, <2>1, <2>2, <2>3, <2>4, <2>5 DEF Step, Push, Pull
<1> QED
  BY <1>1, <1>2, <1>3, <1>4 DEF Next

\* The list of sx_queue.c implements the abstract queue: every call takes effect
\* at one instant, first in, first out, nothing lost and nothing twice.
THEOREM Refinement == Spec => ImplementsFifo
BY InitRefines, StepRefines, Invariance, PTL
   DEF Spec, ImplementsFifo, Abstract!Spec
=============================================================================
