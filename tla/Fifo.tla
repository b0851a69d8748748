-------------------------------- MODULE Fifo --------------------------------
(***************************************************************************)
(* What common/src/sx_queue.c promises its callers: a first-in first-out   *)
(* queue on which every call takes effect at one instant between its       *)
(* invocation and its return.  A call that pulls from an empty queue       *)
(* returns NULL at once; nobody ever waits for an element.                 *)
(***************************************************************************)
EXTENDS Naturals, Sequences

CONSTANTS
    Threads,    \* the threads that call the queue
    Data,       \* what is queued: pointers to descriptors, never NULL
    NULL        \* the null pointer

VARIABLES
    contents,   \* the data queued, oldest first
    phase,      \* how far the current call of each thread has come
    val         \* the argument or the result of that call

vars == <<contents, phase, val>>

Phases == {"idle", "push", "pushed", "pull", "pulled", "count", "counted"}

Init ==
    /\ contents = <<>>
    /\ phase = [t \in Threads |-> "idle"]
    /\ val = [t \in Threads |-> NULL]

Call(t, p, v) ==
    /\ phase[t] = "idle"
    /\ phase' = [phase EXCEPT ![t] = p]
    /\ val' = [val EXCEPT ![t] = v]
    /\ UNCHANGED contents

Enqueue(t) ==
    /\ phase[t] = "push"
    /\ phase' = [phase EXCEPT ![t] = "pushed"]
    /\ contents' = Append(contents, val[t])
    /\ UNCHANGED val

Dequeue(t) ==
    /\ phase[t] = "pull"
    /\ phase' = [phase EXCEPT ![t] = "pulled"]
    /\ \/ /\ contents = <<>>
          /\ val' = [val EXCEPT ![t] = NULL]
          /\ UNCHANGED contents
       \/ /\ contents # <<>>
          /\ val' = [val EXCEPT ![t] = Head(contents)]
          /\ contents' = Tail(contents)

Count(t) ==
    /\ phase[t] = "count"
    /\ phase' = [phase EXCEPT ![t] = "counted"]
    /\ val' = [val EXCEPT ![t] = Len(contents)]
    /\ UNCHANGED contents

Return(t) ==
    /\ phase[t] \in {"pushed", "pulled", "counted"}
    /\ phase' = [phase EXCEPT ![t] = "idle"]
    /\ val' = [val EXCEPT ![t] = NULL]
    /\ UNCHANGED contents

Next ==
    \E t \in Threads :
        \/ \E d \in Data : Call(t, "push", d)
        \/ Call(t, "pull", NULL)
        \/ Call(t, "count", NULL)
        \/ Enqueue(t)
        \/ Dequeue(t)
        \/ Count(t)
        \/ Return(t)

Spec == Init /\ [][Next]_vars
=============================================================================
