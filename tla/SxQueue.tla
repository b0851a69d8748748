------------------------------- MODULE SxQueue -------------------------------
(***************************************************************************)
(* common/src/sx_queue.c: the linked list through which every pair of      *)
(* threads of the sink communicates.  A push allocates and fills its node  *)
(* before it takes the queue's mutex, a pull frees the node it takes while *)
(* it holds it.  The steps of the calls of different threads interleave.   *)
(*                                                                         *)
(* malloc never fails, as the code assumes; Nodes bounds the heap.  len is *)
(* a UINT32 and a queue never holds 2^32 nodes, so it is a natural here.   *)
(***************************************************************************)
EXTENDS Naturals, Sequences

CONSTANTS
    Threads,    \* the threads that call this queue
    Data,       \* the data pointers pushed (push asserts they are not NULL)
    Nodes,      \* the addresses malloc may return for an sNODE
    NULL        \* the null pointer

ASSUME NullAssumption == NULL \notin Threads \cup Data \cup Nodes

VARIABLES
    head, tail,     \* sQUEUE.head and sQUEUE.tail
    len,            \* sQUEUE.len
    lock,           \* the thread that holds sQUEUE.lock, or NULL
    next, data,     \* the two fields of each sNODE
    heap,           \* the nodes that are allocated
    pc,             \* where each thread is in its current call
    node,           \* the node the thread is pushing, or NULL
    val,            \* the argument or the result of the call
    chain           \* history variable: the nodes linked, oldest first

list == <<head, tail, len, next, chain>>
vars == <<list, lock, data, heap, pc, node, val>>

Waiting  == {"push_lock", "pull_lock", "len_lock"}
Critical == {"push_link", "push_len", "push_unlock",
             "pull_unlink", "pull_len", "pull_unlock",
             "len_read", "len_unlock"}
Locations == {"idle"} \cup Waiting \cup Critical

Goto(t, l) == pc' = [pc EXCEPT ![t] = l]

Init ==
    /\ head = NULL /\ tail = NULL /\ len = 0
    /\ lock = NULL
    /\ next \in [Nodes -> {NULL}]
    /\ data \in [Nodes -> {NULL}]
    /\ heap = {}
    /\ pc = [t \in Threads |-> "idle"]
    /\ node = [t \in Threads |-> NULL]
    /\ val = [t \in Threads |-> NULL]
    /\ chain = <<>>

(***************************************************************************)
(* The mutex, as the three calls take and release it.                      *)
(***************************************************************************)
\* Mutation: the mutex is taken without waiting for its holder.
AcquireUnguarded(t) ==
    /\ lock' = t
    /\ \/ pc[t] = "push_lock" /\ Goto(t, "push_link")
       \/ pc[t] = "pull_lock" /\ Goto(t, "pull_unlink")
       \/ pc[t] = "len_lock"  /\ Goto(t, "len_read")
    /\ UNCHANGED <<list, data, heap, node, val>>

Acquire(t) ==
    /\ lock = NULL
    /\ lock' = t
    /\ \/ pc[t] = "push_lock" /\ Goto(t, "push_link")
       \/ pc[t] = "pull_lock" /\ Goto(t, "pull_unlink")
       \/ pc[t] = "len_lock"  /\ Goto(t, "len_read")
    /\ UNCHANGED <<list, data, heap, node, val>>

\* Mutation: a pull that finds the queue empty returns without unlocking.
ReleaseUnlessEmpty(t) ==
    /\ pc[t] \in {"push_unlock", "pull_unlock", "len_unlock"}
    /\ lock' = IF pc[t] = "pull_unlock" /\ val[t] = NULL THEN lock ELSE NULL
    /\ Goto(t, "idle")
    /\ node' = [node EXCEPT ![t] = NULL]
    /\ val' = [val EXCEPT ![t] = NULL]
    /\ UNCHANGED <<list, data, heap>>

Release(t) ==
    /\ pc[t] \in {"push_unlock", "pull_unlock", "len_unlock"}
    /\ lock' = NULL
    /\ Goto(t, "idle")
    /\ node' = [node EXCEPT ![t] = NULL]
    /\ val' = [val EXCEPT ![t] = NULL]
    /\ UNCHANGED <<list, data, heap>>

(***************************************************************************)
(* sx_queue_push()                                                         *)
(***************************************************************************)
PushCall(t, d) ==
    /\ pc[t] = "idle"
    /\ \E n \in Nodes \ heap :
          /\ heap' = heap \cup {n}
          /\ data' = [data EXCEPT ![n] = d]
          /\ next' = [next EXCEPT ![n] = NULL]
          /\ node' = [node EXCEPT ![t] = n]
    /\ val' = [val EXCEPT ![t] = d]
    /\ Goto(t, "push_lock")
    /\ UNCHANGED <<head, tail, len, lock, chain>>

\* Mutation: a push on the empty queue sets head only.
PushFirstHeadOnly(t) ==
    /\ pc[t] = "push_link" /\ head = NULL
    /\ head' = node[t]
    /\ chain' = Append(chain, node[t])
    /\ Goto(t, "push_len")
    /\ UNCHANGED <<tail, len, next, lock, data, heap, node, val>>

PushFirst(t) ==
    /\ pc[t] = "push_link" /\ head = NULL
    /\ head' = node[t]
    /\ tail' = node[t]
    /\ chain' = Append(chain, node[t])
    /\ Goto(t, "push_len")
    /\ UNCHANGED <<len, next, lock, data, heap, node, val>>

PushBehind(t) ==
    /\ pc[t] = "push_link" /\ head # NULL
    /\ next' = [next EXCEPT ![tail] = node[t]]
    /\ tail' = node[t]
    /\ chain' = Append(chain, node[t])
    /\ Goto(t, "push_len")
    /\ UNCHANGED <<head, len, lock, data, heap, node, val>>

PushCount(t) ==
    /\ pc[t] = "push_len"
    /\ len' = len + 1
    /\ Goto(t, "push_unlock")
    /\ UNCHANGED <<head, tail, next, chain, lock, data, heap, node, val>>

(***************************************************************************)
(* sx_queue_pull()                                                         *)
(***************************************************************************)
PullCall(t) ==
    /\ pc[t] = "idle"
    /\ Goto(t, "pull_lock")
    /\ UNCHANGED <<list, lock, data, heap, node, val>>

PullEmpty(t) ==
    /\ pc[t] = "pull_unlink" /\ head = NULL
    /\ val' = [val EXCEPT ![t] = NULL]
    /\ Goto(t, "pull_len")
    /\ UNCHANGED <<list, lock, data, heap, node>>

\* Mutation: taking the only node leaves tail on the freed node.
PullOnlyKeepTail(t) ==
    /\ pc[t] = "pull_unlink" /\ head # NULL /\ head = tail
    /\ val' = [val EXCEPT ![t] = data[head]]
    /\ heap' = heap \ {head}
    /\ head' = NULL
    /\ chain' = Tail(chain)
    /\ Goto(t, "pull_len")
    /\ UNCHANGED <<tail, len, next, lock, data, node>>

PullOnly(t) ==
    /\ pc[t] = "pull_unlink" /\ head # NULL /\ head = tail
    /\ val' = [val EXCEPT ![t] = data[head]]
    /\ heap' = heap \ {head}
    /\ head' = NULL
    /\ tail' = NULL
    /\ chain' = Tail(chain)
    /\ Goto(t, "pull_len")
    /\ UNCHANGED <<len, next, lock, data, node>>

\* Mutation: the node taken off a longer list is not freed.
PullFirstNoFree(t) ==
    /\ pc[t] = "pull_unlink" /\ head # NULL /\ head # tail
    /\ val' = [val EXCEPT ![t] = data[head]]
    /\ head' = next[head]
    /\ chain' = Tail(chain)
    /\ Goto(t, "pull_len")
    /\ UNCHANGED <<tail, len, next, lock, data, heap, node>>

PullFirst(t) ==
    /\ pc[t] = "pull_unlink" /\ head # NULL /\ head # tail
    /\ val' = [val EXCEPT ![t] = data[head]]
    /\ heap' = heap \ {head}
    /\ head' = next[head]
    /\ chain' = Tail(chain)
    /\ Goto(t, "pull_len")
    /\ UNCHANGED <<tail, len, next, lock, data, node>>

\* Mutation: len is decremented by a pull that returned nothing, too.
PullCountAlways(t) ==
    /\ pc[t] = "pull_len"
    /\ len' = len - 1
    /\ Goto(t, "pull_unlock")
    /\ UNCHANGED <<head, tail, next, chain, lock, data, heap, node, val>>

\* Mutation: a pull does not decrement len.
PullCountNever(t) ==
    /\ pc[t] = "pull_len"
    /\ Goto(t, "pull_unlock")
    /\ UNCHANGED <<list, lock, data, heap, node, val>>

PullCount(t) ==
    /\ pc[t] = "pull_len"
    /\ len' = IF val[t] # NULL THEN len - 1 ELSE len
    /\ Goto(t, "pull_unlock")
    /\ UNCHANGED <<head, tail, next, chain, lock, data, heap, node, val>>

(***************************************************************************)
(* sx_queue_len_get()                                                      *)
(***************************************************************************)
LenCall(t) ==
    /\ pc[t] = "idle"
    /\ Goto(t, "len_lock")
    /\ UNCHANGED <<list, lock, data, heap, node, val>>

LenRead(t) ==
    /\ pc[t] = "len_read"
    /\ val' = [val EXCEPT ![t] = len]
    /\ Goto(t, "len_unlock")
    /\ UNCHANGED <<list, lock, data, heap, node>>

Push(t) == PushFirst(t) \/ PushBehind(t) \/ PushCount(t)
Pull(t) == PullEmpty(t) \/ PullOnly(t) \/ PullFirst(t) \/ PullCount(t)

\* A step of a call that has begun.
Step(t) == Acquire(t) \/ Push(t) \/ Pull(t) \/ LenRead(t) \/ Release(t)

Next ==
    \E t \in Threads :
        \/ \E d \in Data : PushCall(t, d)
        \/ PullCall(t)
        \/ LenCall(t)
        \/ Step(t)

\* A thread inside the queue is never suspended for ever, and a mutex that
\* stays free is eventually taken by a thread that waits for it.  Whether a
\* call begins is up to the caller.
Fairness == \A t \in Threads : WF_vars(Step(t))

Spec == Init /\ [][Next]_vars
FairSpec == Spec /\ Fairness

------------------------------------------------------------------------------
(***************************************************************************)
(* Correctness                                                             *)
(***************************************************************************)
Linked == {chain[i] : i \in 1..Len(chain)}

Pushing(t) == pc[t] \in {"push_lock", "push_link"}

TypeOK ==
    /\ {head, tail} \subseteq Nodes \cup {NULL}
    /\ len \in Nat
    /\ lock \in Threads \cup {NULL}
    /\ next \in [Nodes -> Nodes \cup {NULL}]
    /\ data \in [Nodes -> Data \cup {NULL}]
    /\ heap \subseteq Nodes
    /\ pc \in [Threads -> Locations]
    /\ node \in [Threads -> Nodes \cup {NULL}]
    /\ val \in [Threads -> Data \cup {NULL} \cup Nat]
    /\ chain \in Seq(Nodes)

\* The pointers spell out the nodes linked so far, in the order they were
\* linked, without a repetition, whatever calls are under way: head is the
\* oldest node, each next field leads to the following one, tail is the last
\* (sx_queue.c:69-81 and 112-148).
ListShape ==
    /\ chain = <<>> => head = NULL /\ tail = NULL
    /\ chain # <<>> =>
          /\ head = chain[1]
          /\ tail = chain[Len(chain)]
          /\ next[tail] = NULL
    /\ \A i \in 1..(Len(chain) - 1) : next[chain[i]] = chain[i + 1]
    /\ \A i, j \in 1..Len(chain) : chain[i] = chain[j] => i = j

\* Whoever holds the mutex, or finds it free, reads a len that is the number
\* of nodes in the list (sx_queue.c:85, 152-154, 182), except between the two
\* writes of the call that is changing both.
LenExact ==
    \/ len = Len(chain)
    \/ \E t \in Threads :
          /\ lock = t
          /\ \/ pc[t] = "push_len" /\ len + 1 = Len(chain)
             \/ pc[t] = "pull_len" /\ val[t] # NULL /\ len = Len(chain) + 1

\* Every allocated node is in the list or owned by one push that has not
\* linked it yet, and the list holds no freed node: nothing is leaked, freed
\* twice or used after free (sx_queue.c:62, 134, 147).
NodesAccounted ==
    /\ \A n \in heap :
          n \in Linked \/ \E t \in Threads : Pushing(t) /\ node[t] = n
    /\ Linked \subseteq heap
    /\ \A t \in Threads : Pushing(t) => node[t] \in heap \ Linked
    /\ \A t, u \in Threads :
          Pushing(t) /\ Pushing(u) /\ node[t] = node[u] => t = u

\* None of the three assertions of sx_queue_pull() can fail
\* (sx_queue.c:115, 127, 128).
AssertsHold ==
    \A t \in Threads : pc[t] = "pull_unlink" =>
        /\ head = NULL => tail = NULL
        /\ head # NULL /\ head = tail => next[head] = NULL /\ next[tail] = NULL

\* The queue is a linearisable FIFO: a push takes effect when its node is
\* linked, a pull when its node is unlinked (or the list is seen to be
\* empty), a length request when len is read.
PhaseOf(l) ==
    CASE l = "idle" -> "idle"
      [] l \in {"push_lock", "push_link"} -> "push"
      [] l \in {"push_len", "push_unlock"} -> "pushed"
      [] l \in {"pull_lock", "pull_unlink"} -> "pull"
      [] l \in {"pull_len", "pull_unlock"} -> "pulled"
      [] l \in {"len_lock", "len_read"} -> "count"
      [] l = "len_unlock" -> "counted"

Contents == [i \in 1..Len(chain) |-> data[chain[i]]]
Phase == [t \in Threads |-> PhaseOf(pc[t])]

Abstract == INSTANCE Fifo WITH contents <- Contents, phase <- Phase

\* Every behaviour of the linked list is one of the abstract queue: no datum
\* is lost, duplicated or overtaken, a pull returns NULL only when the queue
\* is empty, and a length is that of the queue at some instant of the call.
ImplementsFifo == Abstract!Spec

\* The thread that holds the mutex gives it back, on every path through the
\* three calls (sx_queue.c:88, 156, 184): no caller can block all the others.
LockFreed == \A t \in Threads : lock = t ~> lock # t
=============================================================================
