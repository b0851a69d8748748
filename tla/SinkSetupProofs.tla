---------------------------- MODULE SinkSetupProofs ----------------------------
(***************************************************************************)
(* Proofs about the start-up.                                              *)
(***************************************************************************)
EXTENDS SinkSetup, FiniteSetTheorems, ProofLemmas

------------------------------------------------------------------------------
(***************************************************************************)
(* A list without its duplicates.                                          *)
(***************************************************************************)
\* Purged(c) holds the events of the list of c, each once.
LEMMA PurgedOnce ==
  ASSUME NEW c, NEW R, list[c] \in Seq(R)
  PROVE  /\ Purged(c) \in Seq(R)
         /\ \A i \in DOMAIN Purged(c) : \E j \in DOMAIN list[c] : Purged(c)[i] = list[c][j]
         /\ \A j \in DOMAIN list[c] : \E i \in DOMAIN Purged(c) : Purged(c)[i] = list[c][j]
         /\ \A i, j \in DOMAIN Purged(c) : Purged(c)[i] = Purged(c)[j] => i = j
         /\ DOMAIN Purged(c) = 1..Len(Purged(c)) /\ Len(Purged(c)) \in Nat
<1> DEFINE e == list[c]
           K == {i \in DOMAIN e : \A j \in 1..(i - 1) : e[j] # e[i]}
           N(n) == CHOOSE i \in K : Cardinality(K \cap 1..i) = n
           P == [n \in 1..Cardinality(K) |-> e[N(n)]]
<1>1. Len(e) \in Nat /\ DOMAIN e = 1..Len(e) /\ \A i \in 1..Len(e) : e[i] \in R
  BY LenProperties, ElementOfSeq
<1>2. K \in SUBSET (1..Len(e))
  BY <1>1
<1>3. Purged(c) = P
  BY DEF Purged
<1> HIDE DEF K
<1>10. /\ IsFiniteSet(K) /\ Cardinality(K) \in Nat
       /\ \A i \in K : Cardinality(K \cap 1..i) \in 1..Cardinality(K)
       /\ \A i, j \in K : Cardinality(K \cap 1..i) = Cardinality(K \cap 1..j) => i = j
       /\ \A n \in 1..Cardinality(K) : \E i \in K : Cardinality(K \cap 1..i) = n
  <2> HIDE DEF e
  <2> DEFINE L == Len(e)
  <2>1. L \in Nat /\ K \in SUBSET (1..L)
    BY <1>1, <1>2
  <2> HIDE DEF L
  <2> QED
    BY <2>1, PositionsNumbered
<1>4. ASSUME NEW n \in 1..Cardinality(K)
      PROVE  N(n) \in K /\ Cardinality(K \cap 1..N(n)) = n
  <2>1. \E i \in K : Cardinality(K \cap 1..i) = n
    BY <1>10
  <2> QED
    BY <2>1
<1> HIDE DEF N
<1>5. Cardinality(K) \in Nat
  BY <1>10
<1>6. P \in Seq(R) /\ Len(P) = Cardinality(K) /\ DOMAIN P = 1..Cardinality(K)
  <2>1. \A n \in 1..Cardinality(K) : e[N(n)] \in R
    BY <1>1, <1>2, <1>4
  <2>2. P \in Seq(R)
    BY <1>5, <2>1, IsASeq
  <2>3. DOMAIN P = 1..Cardinality(K)
    OBVIOUS
  <2> HIDE DEF P
  <2>4. DOMAIN P = 1..Len(P) /\ Len(P) \in Nat
    BY <2>2, LenProperties
  <2>5. Len(P) = Cardinality(K)
    BY <1>5, <2>3, <2>4
  <2> QED
    BY <2>2, <2>3, <2>5
<1>7. ASSUME NEW j \in DOMAIN e
      PROVE  \E i \in DOMAIN P : P[i] = e[j]
  <2> DEFINE T == {i \in DOMAIN e : e[i] = e[j]}
  <2>1. T \in SUBSET Nat /\ T # {}
    BY <1>1
  <2>2. PICK m \in T : \A n \in T : m <= n
    BY <2>1, Least
  <2>3. m \in K /\ e[m] = e[j]
    BY <2>2, <1>1 DEF K
  <2>4. Cardinality(K \cap 1..m) \in 1..Cardinality(K)
    BY <1>10, <2>3
  <2>5. N(Cardinality(K \cap 1..m)) = m
    BY <1>10, <1>4, <2>3, <2>4
  <2> QED
    BY <1>6, <2>3, <2>4, <2>5
<1>8. ASSUME NEW i \in DOMAIN P
      PROVE  \E j \in DOMAIN e : P[i] = e[j]
  BY <1>1, <1>2, <1>4, <1>6
<1>9. ASSUME NEW i \in DOMAIN P, NEW j \in DOMAIN P, P[i] = P[j], i # j
      PROVE  FALSE
  <2>1. N(i) \in K /\ N(j) \in K /\ N(i) # N(j) /\ e[N(i)] = e[N(j)]
    BY <1>4, <1>6, <1>9
  <2>2. N(i) \in 1..Len(e) /\ N(j) \in 1..Len(e)
    BY <2>1, <1>2
  <2>3. N(i) \in 1..(N(j) - 1) \/ N(j) \in 1..(N(i) - 1)
    BY <1>1, <2>1, <2>2
  <2> QED
    BY <2>1, <2>3 DEF K
<1> HIDE DEF P
<1> QED
  BY <1>3, <1>5, <1>6, <1>7, <1>8, <1>9

------------------------------------------------------------------------------
(***************************************************************************)
(* Programs.  A program that stays within a scope w gives only the orders  *)
(* of w, creates and frees only the components in w.freed and frees only   *)
(* their buffers, connects only the ports in w.ports, and looks only at    *)
(* components in w.comps.                                                  *)
(***************************************************************************)
Cmds  == {"StateSet", "PortEnable", "PortDisable"}
Rets  == {0, -1, -2, -5}
Order(c, cmd, x) ==
    \/ cmd = "StateSet" /\ x \in {"Loaded", "Idle", "Executing"}
    \/ cmd \in {"PortEnable", "PortDisable"} /\ x \in Ports[c]

IsScope(w) ==
    /\ w.comps \subseteq Components /\ w.freed \subseteq w.comps
    /\ \A o \in w.orders : o[1] \in w.comps /\ Order(o[1], o[2], o[3])
    /\ \A p \in w.ports : p \in PortPairs /\ p[1] \in w.comps

\* Everything but a set of buffers.
Around(O) ==
    [comps  |-> O, freed |-> O,
     orders |-> {o \in O \X Cmds \X (States \cup UNION {Ports[c] : c \in O}) :
                     Order(o[1], o[2], o[3])},
     ports  |-> {p \in PortPairs : p[1] \in O}]

Plain(w, s) ==
    /\ s.op \in {"return", "assert", "configure", "OMX_Deinit", "await", "blocked", "send",
                 "expect", "remove", "free", "wait buffers", "OMX_FreeHandle",
                 "return events", "mask", "relate", "OMX_SetupTunnel",
                 "OMX_GetHandle", "disable all"}
    /\ s.op = "return" => s.a \in Rets
    /\ s.op \in {"await", "blocked"} =>
           /\ s.c \in w.comps
           /\ s = [op |-> s.op, c |-> s.c, a |-> s.a, x |-> s.x, other |-> s.other]
    /\ s.op = "send" => s.c \in w.comps /\ <<s.c, s.a, s.x>> \in w.orders
    /\ s.op \in {"expect", "remove", "return events"} => s.c \in w.comps
    /\ s.op \in {"free", "wait buffers", "OMX_FreeHandle", "OMX_GetHandle", "disable all"} =>
           s.c \in w.freed
    /\ s.op = "disable all" =>
           /\ s = Step("disable all", s.c, s.a, s.x)
           /\ \A p \in s.x : <<s.c, "PortDisable", p>> \in w.orders
    /\ s.op = "mask" => s.c \subseteq w.comps
    /\ s.op = "relate" => s.c \in w.comps /\ s.x \in w.comps \cup {None}
    /\ s.op = "OMX_SetupTunnel" => s.a \in w.ports /\ s.x \in w.ports \cup {NoPort}

Closed(w, S) ==
    \A s \in S : Plain(w, s) \/ (s.op = "if" /\ s.yes \in Seq(S) /\ s.no \in Seq(S))
Prog(w, x) == \E S : Closed(w, S) /\ x \in Seq(S)

LEMMA ClosedUnion ==
  ASSUME NEW w, NEW S, NEW T, Closed(w, S), Closed(w, T)
  PROVE  Closed(w, S \cup T)
<1>1. ASSUME NEW s \in S \cup T, s.op = "if", ~Plain(w, s)
      PROVE  s.yes \in Seq(S \cup T) /\ s.no \in Seq(S \cup T)
  <2>1. \E U \in {S, T} : s.yes \in Seq(U) /\ s.no \in Seq(U)
    BY <1>1 DEF Closed
  <2> QED
    BY <2>1, SeqMono
<1> QED
  BY <1>1 DEF Closed

LEMMA ProgSeq ==
  ASSUME NEW w, NEW x, Prog(w, x)
  PROVE  IsSeq(x)
BY DEF Prog, IsSeq

LEMMA ProgNone ==
  ASSUME NEW w
  PROVE  Prog(w, <<>>)
<1>1. Closed(w, {}) /\ <<>> \in Seq({})
  BY EmptySeq DEF Closed
<1> QED
  BY <1>1 DEF Prog

LEMMA ProgOne ==
  ASSUME NEW w, NEW s, Plain(w, s)
  PROVE  Prog(w, <<s>>)
<1>1. Closed(w, {s}) /\ <<s>> \in Seq({s})
  BY Single DEF Closed
<1> QED
  BY <1>1 DEF Prog

LEMMA ProgJoin ==
  ASSUME NEW w, NEW x, NEW y, Prog(w, x), Prog(w, y)
  PROVE  Prog(w, x \o y)
<1>1. PICK S : Closed(w, S) /\ x \in Seq(S)
  BY DEF Prog
<1>2. PICK T : Closed(w, T) /\ y \in Seq(T)
  BY DEF Prog
<1>3. x \in Seq(S \cup T) /\ y \in Seq(S \cup T)
  BY <1>1, <1>2, SeqMono
<1>4. x \o y \in Seq(S \cup T)
  BY <1>3
<1> QED
  BY <1>1, <1>2, <1>4, ClosedUnion DEF Prog

LEMMA ProgIf ==
  ASSUME NEW w, NEW kind, NEW of, NEW yes, NEW no, Prog(w, yes), Prog(w, no)
  PROVE  Prog(w, If(kind, of, yes, no))
<1> DEFINE s == [op |-> "if", kind |-> kind, of |-> of, yes |-> yes, no |-> no]
<1>1. PICK S : Closed(w, S) /\ yes \in Seq(S)
  BY DEF Prog
<1>2. PICK T : Closed(w, T) /\ no \in Seq(T)
  BY DEF Prog
<1>3. Closed(w, S \cup T)
  BY <1>1, <1>2, ClosedUnion
<1>4. /\ yes \in Seq((S \cup T) \cup {s}) /\ no \in Seq((S \cup T) \cup {s})
      /\ <<s>> \in Seq((S \cup T) \cup {s})
  BY <1>1, <1>2, SeqMono, Single
<1>5. s.op = "if" /\ s.yes = yes /\ s.no = no
  OBVIOUS
<1> HIDE DEF s
<1>6. ASSUME NEW u \in (S \cup T) \cup {s}, ~Plain(w, u)
      PROVE  u.op = "if" /\ u.yes \in Seq((S \cup T) \cup {s}) /\ u.no \in Seq((S \cup T) \cup {s})
  <2>1. CASE u = s
    BY <1>4, <1>5, <2>1
  <2>2. CASE u # s
    <3>1. u.op = "if" /\ u.yes \in Seq(S \cup T) /\ u.no \in Seq(S \cup T)
      BY <1>3, <1>6, <2>2 DEF Closed
    <3> QED
      BY <3>1, SeqMono
  <2> QED
    BY <2>1, <2>2
<1>7. Closed(w, (S \cup T) \cup {s})
  BY <1>6 DEF Closed
<1>8. Prog(w, <<s>>)
  BY <1>4, <1>7 DEF Prog
<1> QED
  BY <1>8 DEF s, If

\* The head of a program, and what follows it.
LEMMA ProgHead ==
  ASSUME NEW w, NEW x, Prog(w, x), x # <<>>
  PROVE  /\ Prog(w, Tail(x))
         /\ \/ Plain(w, Head(x))
            \/ Head(x).op = "if" /\ Prog(w, Head(x).yes) /\ Prog(w, Head(x).no)
<1>1. PICK S : Closed(w, S) /\ x \in Seq(S)
  BY DEF Prog
<1>2. Head(x) \in S /\ Tail(x) \in Seq(S)
  BY <1>1, HeadTail
<1>3. Plain(w, Head(x)) \/ (Head(x).op = "if" /\ Head(x).yes \in Seq(S) /\ Head(x).no \in Seq(S))
  BY <1>1, <1>2 DEF Closed
<1> QED
  BY <1>1, <1>2, <1>3 DEF Prog

\* The single steps.
LEMMA ProgSend ==
  ASSUME NEW w, NEW c \in w.comps, NEW cmd, NEW x, <<c, cmd, x>> \in w.orders
  PROVE  Prog(w, Send(c, cmd, x))
<1>1. Plain(w, Step("send", c, cmd, x))
  BY DEF Plain, Step
<1> QED
  BY <1>1, ProgOne DEF Send

LEMMA ProgWait ==
  ASSUME NEW w, NEW c \in w.comps, NEW cmd, NEW x
  PROVE  Prog(w, WaitForCommand(c, cmd, x))
<1>1. Plain(w, [op |-> "await", c |-> c, a |-> cmd, x |-> x, other |-> None])
  BY DEF Plain
<1> QED
  BY <1>1, ProgOne DEF WaitForCommand

LEMMA ProgDemand ==
  ASSUME NEW w
  PROVE  Prog(w, Demand)
<1>1. Plain(w, Step("assert", None, None, None))
  BY DEF Plain, Step
<1> QED
  BY <1>1, ProgOne DEF Demand

LEMMA ProgReturn ==
  ASSUME NEW w, NEW r \in Rets
  PROVE  Prog(w, Return(r))
<1>1. Plain(w, Step("return", None, r, None))
  BY DEF Plain, Step
<1> QED
  BY <1>1, ProgOne DEF Return

LEMMA ProgRemove ==
  ASSUME NEW w, NEW c \in w.comps, NEW which, NEW ev
  PROVE  Prog(w, RemoveError(c, which)) /\ Prog(w, RemoveEvent(c, ev))
<1>1. Plain(w, Step("remove", c, which, None)) /\ Plain(w, Step("remove", c, "event", ev))
  BY DEF Plain, Step
<1> QED
  BY <1>1, ProgOne DEF RemoveError, RemoveEvent

LEMMA ProgMask ==
  ASSUME NEW w, NEW C \in SUBSET w.comps, NEW on
  PROVE  Prog(w, <<Step("mask", C, on, None)>>)
<1>1. Plain(w, Step("mask", C, on, None))
  BY DEF Plain, Step
<1> QED
  BY <1>1, ProgOne

LEMMA ProgConnect ==
  ASSUME NEW w, NEW p \in w.ports, NEW q \in w.ports \cup {NoPort}
  PROVE  Prog(w, <<Step("OMX_SetupTunnel", None, p, q)>>)
<1>1. Plain(w, Step("OMX_SetupTunnel", None, p, q))
  BY DEF Plain, Step
<1> QED
  BY <1>1, ProgOne

LEMMA ProgExpect ==
  ASSUME NEW w, NEW c \in w.comps, NEW cmd, NEW x
  PROVE  Prog(w, <<Step("expect", c, cmd, x)>>)
<1>1. Plain(w, Step("expect", c, cmd, x))
  BY DEF Plain, Step
<1> QED
  BY <1>1, ProgOne

LEMMA ProgFree ==
  ASSUME NEW w, NEW c \in w.freed, NEW n, NEW x, NEW op \in {"free", "wait buffers"}
  PROVE  Prog(w, <<Step(op, c, n, x)>>)
<1>1. Plain(w, Step(op, c, n, x))
  BY DEF Plain, Step
<1> QED
  BY <1>1, ProgOne

LEMMA ProgWaitForEither ==
  ASSUME NEW w, NEW c \in w.comps, NEW cmd, NEW x, NEW other \in w.comps
  PROVE  Prog(w, WaitForEither(c, cmd, x, other))
<1>1. /\ Plain(w, Step("relate", other, None, c)) /\ Plain(w, Step("relate", other, None, None))
      /\ Plain(w, [op |-> "await", c |-> c, a |-> cmd, x |-> x, other |-> other])
  BY DEF Plain, Step
<1>2. /\ Prog(w, <<Step("relate", other, None, c)>>)
      /\ Prog(w, <<[op |-> "await", c |-> c, a |-> cmd, x |-> x, other |-> other]>>)
      /\ Prog(w, <<Step("relate", other, None, None)>>)
  BY <1>1, ProgOne
<1>3. Prog(w, <<Step("relate", other, None, c)>>
                  \o (<<[op |-> "await", c |-> c, a |-> cmd, x |-> x, other |-> other]>>
                      \o <<Step("relate", other, None, None)>>))
  BY <1>2, ProgJoin
<1> DEFINE a == Step("relate", other, None, c)
           b == [op |-> "await", c |-> c, a |-> cmd, x |-> x, other |-> other]
           d == Step("relate", other, None, None)
<1>4. <<a>> \o (<<b>> \o <<d>>) = <<a, b, d>>
  BY TwoThree
<1> QED
  BY <1>3, <1>4 DEF WaitForEither

\* The functions of the library.
LEMMA ProgDisablePort ==
  ASSUME NEW w, NEW c \in w.comps, NEW p, <<c, "PortDisable", p>> \in w.orders
  PROVE  Prog(w, DisablePort(c, p))
BY ProgSend, ProgWait, ProgDemand, ProgJoin DEF DisablePort

LEMMA ProgChangeState ==
  ASSUME NEW w, NEW c \in w.comps, NEW s, <<c, "StateSet", s>> \in w.orders
  PROVE  Prog(w, ChangeState(c, s))
<1>1. Prog(w, RemoveError(c, "any error") \o Return(-1)) /\ Prog(w, <<>>)
  BY ProgRemove, ProgReturn, ProgJoin, ProgNone DEF Rets
<1>2. Prog(w, IfOk(<<>>, RemoveError(c, "any error") \o Return(-1)))
  BY <1>1, ProgIf DEF IfOk
<1>3. Prog(w, Send(c, "StateSet", s) \o WaitForCommand(c, "StateSet", s))
  BY ProgSend, ProgWait, ProgJoin
<1> QED
  BY <1>2, <1>3, ProgJoin DEF ChangeState

LEMMA ProgDisablePortBuffers ==
  ASSUME NEW w, NEW c \in w.comps, c \in w.freed, NEW p, <<c, "PortDisable", p>> \in w.orders
  PROVE  Prog(w, DisablePortBuffers(c, p))
<1>1. Prog(w, Send(c, "PortDisable", p) \o <<Step("free", c, NumBufs, p)>>)
  BY ProgSend, ProgFree, ProgJoin
<1> QED
  BY <1>1, ProgNone, ProgIf DEF DisablePortBuffers

LEMMA ProgCleanup ==
  ASSUME NEW w, NEW c \in w.comps, c \in w.freed
  PROVE  Prog(w, CleanupComponents(c))
<1> DEFINE a == Step("return events", c, None, None)
           b == Step("OMX_FreeHandle", c, None, None)
<1>1. Plain(w, a) /\ Plain(w, b)
  BY DEF Plain, Step
<1> HIDE DEF a, b
<1>2. Prog(w, <<a>> \o <<b>>) /\ <<a>> \o <<b>> = <<a, b>>
  BY <1>1, ProgOne, ProgJoin, TwoThree
<1>3. Prog(w, <<a, b>> \o Demand)
  BY <1>2, ProgDemand, ProgJoin
<1> QED
  BY <1>3 DEF CleanupComponents, a, b

\* The parts of the programs that set up a tunnel.
EnableFailed(t) == DisablePort(t[1][1], t[1][2]) \o Return(-1)
EnablePopulated(t) ==
    WaitForCommand(t[1][1], "PortEnable", t[1][2])
        \o IfOk(<<>>, DisablePort(t[2][1], t[2][2]) \o Return(-1))
EnableEither(t) ==
    IfOk(EnablePopulated(t),
         If("returned", -2, WaitForCommand(t[1][1], "PortEnable", t[1][2])
                                \o DisablePort(t[2][1], t[2][2]), <<>>) \o EnableFailed(t))
EnableLoaded(t) ==
    WaitForCommand(t[2][1], "PortEnable", t[2][2])
        \o IfOk(Send(t[2][1], "StateSet", "Idle")
                    \o WaitForEither(t[2][1], "StateSet", "Idle", t[1][1])
                    \o EnableEither(t),
                EnableFailed(t))
EnableRunning(t) ==
    WaitForCommand(t[2][1], "PortEnable", t[2][2])
        \o IfOk(EnablePopulated(t),
                DisablePort(t[1][1], t[1][2])
                    \o <<Step("expect", t[1][1], "PortEnable", t[1][2])>> \o Return(-1))

LEMMA EnableParts ==
  ASSUME NEW t
  PROVE  EnableTunnel(t) = Send(t[1][1], "PortEnable", t[1][2])
                               \o Send(t[2][1], "PortEnable", t[2][2])
                               \o If("loaded", t[2][1], EnableLoaded(t), EnableRunning(t))
BY DEF EnableTunnel, EnableLoaded, EnableRunning, EnableEither, EnablePopulated, EnableFailed

Connect(p, q) == <<Step("OMX_SetupTunnel", None, p, q)>>
Undone(t) == Connect(t[1], NoPort) \o Demand \o Connect(t[2], NoPort) \o Demand
Forgotten(t) == RemoveError(t[2][1], "any error") \o RemoveError(t[1][1], "any error")
Enabling(t) ==
    EnableTunnel(t)
        \o IfOk(<<>>, Undone(t) \o RemoveError(t[2][1], "any error")
                          \o RemoveError(t[1][1], "any error") \o Return(-5))
Connecting(t) ==
    DisableTunnel(t) \o Connect(t[1], t[2]) \o IfOk(Enabling(t), Undone(t) \o Return(-5))

LEMMA SetupParts ==
  ASSUME NEW t
  PROVE  SetupTunnel(t) =
            If("loaded", t[1][1],
               ChangeState(t[1][1], "Idle") \o IfOk(Connecting(t), Return(-2)), Connecting(t))
BY DEF SetupTunnel, Connecting, Enabling, Undone, Connect

\* The scope w has what tunnel t needs.
HasTunnel(w, t) ==
    \A i \in {1, 2} :
        /\ t[i] \in w.ports /\ t[i][1] \in w.comps
        /\ <<t[i][1], "PortEnable", t[i][2]>> \in w.orders
        /\ <<t[i][1], "PortDisable", t[i][2]>> \in w.orders
        /\ <<t[i][1], "StateSet", "Idle">> \in w.orders \/ i = 1

LEMMA ProgDisableTunnel ==
  ASSUME NEW w, NEW t, HasTunnel(w, t)
  PROVE  Prog(w, DisableTunnel(t))
<1>1. /\ t[1][1] \in w.comps /\ <<t[1][1], "PortDisable", t[1][2]>> \in w.orders
      /\ t[2][1] \in w.comps /\ <<t[2][1], "PortDisable", t[2][2]>> \in w.orders
  BY DEF HasTunnel
<1>2. {t[1][1], t[2][1]} \in SUBSET w.comps
  BY <1>1
<1>3. /\ Prog(w, <<Step("mask", {t[1][1], t[2][1]}, TRUE, None)>>)
      /\ Prog(w, <<Step("mask", {t[1][1], t[2][1]}, FALSE, None)>>)
  BY <1>2, ProgMask
<1>4. Prog(w, Send(t[1][1], "PortDisable", t[1][2]) \o Send(t[2][1], "PortDisable", t[2][2]))
  BY <1>1, ProgSend, ProgJoin
<1>5. Prog(w, (WaitForCommand(t[1][1], "PortDisable", t[1][2]) \o Demand)
                  \o (WaitForCommand(t[2][1], "PortDisable", t[2][2]) \o Demand))
  BY <1>1, ProgWait, ProgDemand, ProgJoin
<1> QED
  BY <1>3, <1>4, <1>5, ProgJoin DEF DisableTunnel

LEMMA ProgEnableFailures ==
  ASSUME NEW w, NEW t, HasTunnel(w, t)
  PROVE  /\ Prog(w, DisablePort(t[1][1], t[1][2])) /\ Prog(w, DisablePort(t[2][1], t[2][2]))
         /\ Prog(w, EnableFailed(t))
         /\ Prog(w, If("returned", -2, WaitForCommand(t[1][1], "PortEnable", t[1][2])
                                           \o DisablePort(t[2][1], t[2][2]), <<>>))
         /\ Prog(w, DisablePort(t[1][1], t[1][2])
                    \o <<Step("expect", t[1][1], "PortEnable", t[1][2])>>)
         /\ Prog(w, Undone(t)) /\ Prog(w, Forgotten(t))
<1>1. /\ t[1][1] \in w.comps /\ <<t[1][1], "PortDisable", t[1][2]>> \in w.orders
      /\ t[2][1] \in w.comps /\ <<t[2][1], "PortDisable", t[2][2]>> \in w.orders
      /\ t[1] \in w.ports /\ t[2] \in w.ports
  BY DEF HasTunnel
<1>2. Prog(w, DisablePort(t[1][1], t[1][2])) /\ Prog(w, DisablePort(t[2][1], t[2][2]))
  BY <1>1, ProgDisablePort
<1>3. Prog(w, EnableFailed(t))
  BY <1>2, ProgReturn, ProgJoin DEF EnableFailed, Rets
<1>4. Prog(w, WaitForCommand(t[1][1], "PortEnable", t[1][2]) \o DisablePort(t[2][1], t[2][2]))
  BY <1>1, <1>2, ProgWait, ProgJoin
<1>5. Prog(w, If("returned", -2, WaitForCommand(t[1][1], "PortEnable", t[1][2])
                                     \o DisablePort(t[2][1], t[2][2]), <<>>))
  BY <1>4, ProgNone, ProgIf
<1>6. Prog(w, <<Step("expect", t[1][1], "PortEnable", t[1][2])>>)
  BY <1>1, ProgExpect
<1>7. Prog(w, Connect(t[1], NoPort)) /\ Prog(w, Connect(t[2], NoPort))
  BY <1>1, ProgConnect DEF Connect
<1>8. Prog(w, Undone(t))
  BY <1>7, ProgDemand, ProgJoin DEF Undone
<1>9. Prog(w, Forgotten(t))
  BY <1>1, ProgRemove, ProgJoin DEF Forgotten
<1> QED
  BY <1>2, <1>3, <1>5, <1>6, <1>8, <1>9, ProgJoin

LEMMA ProgEnableTunnel ==
  ASSUME NEW w, NEW t, HasTunnel(w, t)
  PROVE  Prog(w, EnableTunnel(t))
<1>1. /\ t[1][1] \in w.comps /\ <<t[1][1], "PortEnable", t[1][2]>> \in w.orders
      /\ t[2][1] \in w.comps /\ <<t[2][1], "PortEnable", t[2][2]>> \in w.orders
      /\ <<t[2][1], "StateSet", "Idle">> \in w.orders
  BY DEF HasTunnel
<1>2. Prog(w, Return(-1)) /\ Prog(w, <<>>)
  BY ProgReturn, ProgNone DEF Rets
<1>3. Prog(w, EnablePopulated(t))
  <2>1. Prog(w, IfOk(<<>>, DisablePort(t[2][1], t[2][2]) \o Return(-1)))
    BY <1>2, ProgEnableFailures, ProgJoin, ProgIf DEF IfOk
  <2> QED
    BY <1>1, <2>1, ProgWait, ProgJoin DEF EnablePopulated
<1>4. Prog(w, EnableEither(t))
  BY <1>3, ProgEnableFailures, ProgJoin, ProgIf DEF EnableEither, IfOk
<1>5. Prog(w, EnableLoaded(t))
  <2>1. Prog(w, Send(t[2][1], "StateSet", "Idle")
                    \o WaitForEither(t[2][1], "StateSet", "Idle", t[1][1]) \o EnableEither(t))
    BY <1>1, <1>4, ProgSend, ProgWaitForEither, ProgJoin
  <2> QED
    BY <1>1, <2>1, ProgEnableFailures, ProgIf, ProgWait, ProgJoin DEF EnableLoaded, IfOk
<1>6. Prog(w, EnableRunning(t))
  <2>1. Prog(w, DisablePort(t[1][1], t[1][2])
                    \o <<Step("expect", t[1][1], "PortEnable", t[1][2])>> \o Return(-1))
    BY <1>2, ProgEnableFailures, ProgJoin
  <2> QED
    BY <1>1, <1>3, <2>1, ProgIf, ProgWait, ProgJoin DEF EnableRunning, IfOk
<1>7. Prog(w, If("loaded", t[2][1], EnableLoaded(t), EnableRunning(t)))
  BY <1>5, <1>6, ProgIf
<1>8. Prog(w, Send(t[1][1], "PortEnable", t[1][2]) \o Send(t[2][1], "PortEnable", t[2][2]))
  BY <1>1, ProgSend, ProgJoin
<1> QED
  BY <1>7, <1>8, ProgJoin, EnableParts

LEMMA ProgConnecting ==
  ASSUME NEW w, NEW t, HasTunnel(w, t)
  PROVE  Prog(w, Enabling(t)) /\ Prog(w, Connecting(t))
<1>1. Prog(w, Return(-5)) /\ Prog(w, <<>>)
  BY ProgReturn, ProgNone DEF Rets
<1>2. t[1] \in w.ports /\ t[2] \in w.ports /\ t[1][1] \in w.comps /\ t[2][1] \in w.comps
  BY DEF HasTunnel
<1>3. Prog(w, Connect(t[1], t[2]))
  BY <1>2, ProgConnect DEF Connect
<1>4. Prog(w, Undone(t) \o RemoveError(t[2][1], "any error")
                  \o RemoveError(t[1][1], "any error") \o Return(-5))
  BY <1>1, <1>2, ProgEnableFailures, ProgRemove, ProgJoin
<1>5. Prog(w, IfOk(<<>>, Undone(t) \o RemoveError(t[2][1], "any error")
                          \o RemoveError(t[1][1], "any error") \o Return(-5)))
  BY <1>1, <1>4, ProgIf DEF IfOk
<1>6. Prog(w, Enabling(t))
  BY <1>5, ProgEnableTunnel, ProgJoin DEF Enabling
<1>7. Prog(w, IfOk(Enabling(t), Undone(t) \o Return(-5)))
  BY <1>1, <1>6, ProgEnableFailures, ProgJoin, ProgIf DEF IfOk
<1> QED
  BY <1>3, <1>6, <1>7, ProgDisableTunnel, ProgJoin DEF Connecting

------------------------------------------------------------------------------
(***************************************************************************)
(* Searching an event list, and taking an event off it.                    *)
(***************************************************************************)
LEMMA MinIn ==
  ASSUME NEW I \in SUBSET Nat, I # {}
  PROVE  Min(I) \in I /\ \A j \in I : Min(I) <= j
<1>1. \E m \in I : \A j \in I : m <= j
  BY Least
<1> QED
  BY <1>1 DEF Min

\* What the three searches find.
CommandAt(s, a, x) == SelectInSeq(s, LAMBDA ev : ev = Done(a, x) \/ EndsByError(ev))
EndAt(s, a, x) == SelectInSeq(s, LAMBDA ev : ev = Done(a, x))
EventAt(s, a, x) ==
    SelectInSeq(s, LAMBDA ev : CASE a = "any error"    -> IsError(ev)
                                 [] a = "ending error" -> EndsByError(ev)
                                 [] a = "event"        -> ev = x)

LEMMA FindsCommand ==
  ASSUME NEW R, NEW s \in Seq(R), NEW a, NEW x,
         NEW i, i = CommandAt(s, a, x)
  PROVE  \/ i = 0 /\ \A j \in 1..Len(s) : ~(s[j] = Done(a, x) \/ EndsByError(s[j]))
         \/ i \in 1..Len(s) /\ i # 0 /\ (s[i] = Done(a, x) \/ EndsByError(s[i]))
<1> DEFINE I == {j \in 1..Len(s) : s[j] = Done(a, x) \/ EndsByError(s[j])}
<1>1. i = IF I # {} THEN Min(I) ELSE 0
  BY DEF SelectInSeq, CommandAt, EndAt
<1>2. I # {} => Min(I) \in I
  <2>1. I \in SUBSET Nat
    BY LenProperties
  <2> HIDE DEF I
  <2> QED
    BY <2>1, MinIn
<1> QED
  BY <1>1, <1>2

LEMMA FindsEnd ==
  ASSUME NEW R, NEW s \in Seq(R), NEW a, NEW x,
         NEW i, i = EndAt(s, a, x)
  PROVE  \/ i = 0 /\ \A j \in 1..Len(s) : s[j] # Done(a, x)
         \/ i \in 1..Len(s) /\ i # 0 /\ s[i] = Done(a, x)
<1> DEFINE I == {j \in 1..Len(s) : s[j] = Done(a, x)}
<1>1. i = IF I # {} THEN Min(I) ELSE 0
  BY DEF SelectInSeq, CommandAt, EndAt
<1>2. I # {} => Min(I) \in I
  <2>1. I \in SUBSET Nat
    BY LenProperties
  <2> HIDE DEF I
  <2> QED
    BY <2>1, MinIn
<1> QED
  BY <1>1, <1>2

LEMMA FindsEvent ==
  ASSUME NEW R, NEW s \in Seq(R), NEW a, NEW x, NEW i, i = EventAt(s, a, x)
  PROVE  i = 0 \/ (i \in 1..Len(s) /\ i # 0)
<1> DEFINE T(ev) == CASE a = "any error"    -> IsError(ev)
                      [] a = "ending error" -> EndsByError(ev)
                      [] a = "event"        -> ev = x
           I == {j \in 1..Len(s) : T(s[j])}
           J == IF I # {} THEN Min(I) ELSE 0
<1>1. J = 0 \/ (J \in 1..Len(s) /\ J # 0)
  <2> HIDE DEF T
  <2>1. I \in SUBSET (1..Len(s)) /\ 0 \notin 1..Len(s)
    OBVIOUS
  <2>2. I \in SUBSET Nat
    BY LenProperties
  <2> HIDE DEF I
  <2>3. I # {} => Min(I) \in I
    BY <2>2, MinIn
  <2> QED
    BY <2>1, <2>3
<1>2. EventAt(s, a, x) = J
  BY DEF SelectInSeq, EventAt
<1> HIDE DEF J
<1> QED
  BY <1>1, <1>2, Zenon

LEMMA Unlinked ==
  ASSUME NEW R, NEW s \in Seq(R), NEW i \in 1..Len(s)
  PROVE  /\ RemoveAt(s, i) \in Seq(R)
         /\ Len(RemoveAt(s, i)) = Len(s) - 1
         /\ \A j \in 1..Len(RemoveAt(s, i)) :
                RemoveAt(s, i)[j] = IF j < i THEN s[j] ELSE s[j + 1]
<1> DEFINE a == SubSeq(s, 1, i - 1)
           b == SubSeq(s, i + 1, Len(s))
<1>1. Len(s) \in Nat
  BY LenProperties
<1>2. /\ a \in Seq(R) /\ Len(a) = i - 1 /\ \A j \in 1..(i - 1) : a[j] = s[j]
      /\ b \in Seq(R) /\ Len(b) = Len(s) - i /\ \A j \in 1..(Len(s) - i) : b[j] = s[j + i]
  <2>1. a \in Seq(R) /\ Len(a) = i - 1 /\ \A j \in 1..(i - 1) : a[j] = s[j]
    BY <1>1
  <2>2. b \in Seq(R) /\ Len(b) = Len(s) - i /\ \A j \in 1..(Len(s) - i) : b[j] = s[j + i]
    BY <1>1
  <2> QED
    BY <2>1, <2>2
<1>3. RemoveAt(s, i) = a \o b
  BY DEF RemoveAt
<1> HIDE DEF a, b
<1>4. a \o b \in Seq(R) /\ Len(a \o b) = Len(s) - 1
  <2>1. a \o b \in Seq(R) /\ Len(a \o b) = Len(a) + Len(b)
    BY <1>2, ConcatProperties
  <2> QED
    BY <1>1, <1>2, <2>1
<1>5. ASSUME NEW j \in 1..(Len(s) - 1)
      PROVE  (a \o b)[j] = IF j < i THEN s[j] ELSE s[j + 1]
  <2>1. (a \o b)[j] = IF j <= i - 1 THEN a[j] ELSE b[j - (i - 1)]
    <3>1. \A q \in 1..(Len(a) + Len(b)) :
              (a \o b)[q] = IF q <= Len(a) THEN a[q] ELSE b[q - Len(a)]
      BY <1>2, ConcatProperties
    <3>2. Len(a) = i - 1 /\ j \in 1..(Len(a) + Len(b))
      BY <1>1, <1>2
    <3> QED
      BY <3>1, <3>2
  <2>2. CASE j < i
    BY <1>1, <1>2, <2>1, <2>2
  <2>3. CASE ~(j < i)
    BY <1>1, <1>2, <2>1, <2>3
  <2> QED
    BY <2>2, <2>3
<1> QED
  BY <1>3, <1>4, <1>5

------------------------------------------------------------------------------
(***************************************************************************)
(* The types.                                                              *)
(***************************************************************************)
Flags == {"StateSet", "PortEnable", "PortDisable", "Error", "ParameterChanged"}

\* What component c can be told to do, and what it can report.
Command(c) == {k \in [cmd : Cmds, x : Ports[c] \cup States, same : BOOLEAN] :
                  Order(c, k.cmd, k.x)}
Repertoire(c) ==
    {Done("StateSet", s) : s \in {"Loaded", "Idle", "Executing"}}
        \cup {Done("PortEnable", p) : p \in Ports[c]}
        \cup {Done("PortDisable", p) : p \in Ports[c]}
        \cup {Failure("SameState"), Failure("IncorrectStateTransition"),
              Failure("InsufficientResources"), Unpopulated}
        \cup (IF OutputPort[c] = None THEN {} ELSE {Corrupt, Changed(OutputPort[c])})

TypedThread == ret \in Rets /\ status \in {"starting", "running", "aborted", "exited"}

TypedLibrary ==
    /\ list = [c \in Components |-> list[c]]
    /\ \A c \in Components : list[c] \in Seq(Repertoire(c))
    /\ flags \in [Components -> SUBSET Flags]
    /\ error_mask \in SUBSET Components
    /\ related \in [Components -> Components \cup {None}]
    /\ coreInit \in 0..3

TypedBuffers ==
    /\ in_list \in [Components -> Nat] /\ used \in [Components -> Nat]
    /\ \A c \in Components : in_list[c] <= used[c] /\ used[c] <= NumBufs

TypedComponents ==
    /\ cstate \in [Components -> States]
    /\ enabled \in SUBSET PortPairs
    /\ peer \in [PortPairs -> PortPairs \cup {NoPort}]
    /\ cmds = [c \in Components |-> cmds[c]]
    /\ \A c \in Components : cmds[c] \in Seq(Command(c))
    /\ faults \in 0..MaxFaults /\ reports \in 0..MaxReports

TypedProgram ==
    /\ initialised \in SUBSET ToSet(Parts) /\ opened \in SUBSET ToSet(Threads)
    /\ port_setting_changed \in BOOLEAN

Typed == TypedThread /\ TypedLibrary /\ TypedBuffers /\ TypedComponents /\ TypedProgram

\* The next step is one that keeps them.
All == Around(Components)
Special(s) ==
    \/ s.op \in {"if", "settings"}
    \/ s.op = "use" /\ s.c \in Components /\ used[s.c] = 0 /\ in_list[s.c] = 0
    \/ s.op = "OMX_Init" /\ coreInit \in 0..2
    \/ s.op = "call" /\ s.a \in ToSet(Parts)
    \/ s.op = "open" /\ s.a \in ToSet(Threads)
HeadOK == todo # <<>> => Plain(All, Head(todo)) \/ Special(Head(todo))

LEMMA AllScope == IsScope(All)
BY DEF IsScope, All, Around

LEMMA AllOrder ==
  ASSUME NEW c, NEW cmd, NEW x, <<c, cmd, x>> \in All.orders
  PROVE  c \in Components /\ Order(c, cmd, x) /\ Done(cmd, x) \in Repertoire(c)
         /\ \A b \in BOOLEAN : [cmd |-> cmd, x |-> x, same |-> b] \in Command(c)
<1>1. c \in Components /\ Order(c, cmd, x)
  BY DEF All, Around
<1>2. cmd \in Cmds /\ x \in Ports[c] \cup States
  BY <1>1 DEF Order, Cmds, States
<1>3. Done(cmd, x) \in Repertoire(c)
  BY <1>1 DEF Order, Repertoire
<1>4. ASSUME NEW b \in BOOLEAN
      PROVE  [cmd |-> cmd, x |-> x, same |-> b] \in Command(c)
  BY <1>1, <1>2 DEF Command
<1> QED
  BY <1>1, <1>3, <1>4

\* The first of the steps left determines what the thread does.
LEMMA Dispatch ==
  ASSUME Main
  PROVE  /\ todo # <<>>
         /\ Head(todo).op = "if" => Branch /\ UNCHANGED program
         /\ Head(todo).op = "disable all" => DisableAll /\ UNCHANGED program
         /\ Head(todo).op = "return" => ReturnValue /\ UNCHANGED program
         /\ Head(todo).op = "assert" => CheckResult /\ UNCHANGED program
         /\ Head(todo).op = "configure" => Configure /\ UNCHANGED program
         /\ Head(todo).op = "send" => SendCommand /\ UNCHANGED program
         /\ Head(todo).op = "await" => ScanForCommand /\ UNCHANGED program
         /\ Head(todo).op = "blocked" => Woken /\ UNCHANGED program
         /\ Head(todo).op = "expect" => ilclient_wait_for_event /\ UNCHANGED program
         /\ Head(todo).op = "wait buffers" => WokenForBuffers /\ UNCHANGED program
         /\ Head(todo).op = "remove" => ilclient_remove_event /\ UNCHANGED program
         /\ Head(todo).op = "mask" => MaskErrors /\ UNCHANGED program
         /\ Head(todo).op = "relate" => Relate /\ UNCHANGED program
         /\ Head(todo).op = "use" => UseBuffers /\ UNCHANGED program
         /\ Head(todo).op = "free" => FreeBuffers /\ UNCHANGED program
         /\ Head(todo).op = "OMX_Init" => OMX_Init /\ UNCHANGED program
         /\ Head(todo).op = "OMX_Deinit" => OMX_Deinit /\ UNCHANGED program
         /\ Head(todo).op = "OMX_GetHandle" => OMX_GetHandle /\ UNCHANGED program
         /\ Head(todo).op = "OMX_FreeHandle" => OMX_FreeHandle /\ UNCHANGED program
         /\ Head(todo).op = "OMX_SetupTunnel" => OMX_SetupTunnel /\ UNCHANGED program
         /\ Head(todo).op = "return events" => ilclient_return_events /\ UNCHANGED program
         /\ Head(todo).op = "call" => Initialise
         /\ Head(todo).op = "open" => sx_thread_create
         /\ Head(todo).op = "settings" => SettingsChanged
<1>10. Branch => todo # <<>> /\ Head(todo).op = "if"
  BY DEF Branch, At
<1>11. DisableAll => todo # <<>> /\ Head(todo).op = "disable all"
  BY DEF DisableAll, At
<1>12. ReturnValue => todo # <<>> /\ Head(todo).op = "return"
  BY DEF ReturnValue, At
<1>13. CheckResult => todo # <<>> /\ Head(todo).op = "assert"
  BY DEF CheckResult, At
<1>14. Configure => todo # <<>> /\ Head(todo).op = "configure"
  BY DEF Configure, At
<1>15. SendCommand => todo # <<>> /\ Head(todo).op = "send"
  BY DEF SendCommand, At
<1>16. ScanForCommand => todo # <<>> /\ Head(todo).op = "await"
  BY DEF ScanForCommand, At
<1>17. Woken => todo # <<>> /\ Head(todo).op = "blocked"
  BY DEF Woken, At
<1>18. ilclient_wait_for_event => todo # <<>> /\ Head(todo).op = "expect"
  BY DEF ilclient_wait_for_event, At
<1>19. WokenForBuffers => todo # <<>> /\ Head(todo).op = "wait buffers"
  BY DEF WokenForBuffers, At
<1>20. ilclient_remove_event => todo # <<>> /\ Head(todo).op = "remove"
  BY DEF ilclient_remove_event, At
<1>21. MaskErrors => todo # <<>> /\ Head(todo).op = "mask"
  BY DEF MaskErrors, At
<1>22. Relate => todo # <<>> /\ Head(todo).op = "relate"
  BY DEF Relate, At
<1>23. UseBuffers => todo # <<>> /\ Head(todo).op = "use"
  BY DEF UseBuffers, At
<1>24. FreeBuffers => todo # <<>> /\ Head(todo).op = "free"
  BY DEF FreeBuffers, At
<1>25. OMX_Init => todo # <<>> /\ Head(todo).op = "OMX_Init"
  BY DEF OMX_Init, At
<1>26. OMX_Deinit => todo # <<>> /\ Head(todo).op = "OMX_Deinit"
  BY DEF OMX_Deinit, At
<1>27. OMX_GetHandle => todo # <<>> /\ Head(todo).op = "OMX_GetHandle"
  BY DEF OMX_GetHandle, At
<1>28. OMX_FreeHandle => todo # <<>> /\ Head(todo).op = "OMX_FreeHandle"
  BY DEF OMX_FreeHandle, At
<1>29. OMX_SetupTunnel => todo # <<>> /\ Head(todo).op = "OMX_SetupTunnel"
  BY DEF OMX_SetupTunnel, At
<1>30. ilclient_return_events => todo # <<>> /\ Head(todo).op = "return events"
  BY DEF ilclient_return_events, At
<1>31. Initialise => todo # <<>> /\ Head(todo).op = "call"
  BY DEF Initialise, At
<1>32. sx_thread_create => todo # <<>> /\ Head(todo).op = "open"
  BY DEF sx_thread_create, At
<1>33. SettingsChanged => todo # <<>> /\ Head(todo).op = "settings"
  BY DEF SettingsChanged, At
<1>8. \/ UNCHANGED program /\ (
            \/ Branch \/ DisableAll \/ ReturnValue \/ CheckResult \/ Configure \/ SendCommand \/ ScanForCommand \/ Woken
            \/ ilclient_wait_for_event \/ WokenForBuffers \/ ilclient_remove_event \/ MaskErrors \/ Relate \/ UseBuffers
            \/ FreeBuffers \/ OMX_Init \/ OMX_Deinit \/ OMX_GetHandle \/ OMX_FreeHandle \/ OMX_SetupTunnel \/ ilclient_return_events)
      \/ Initialise \/ sx_thread_create \/ SettingsChanged
  BY DEF Main, Thread
<1> DEFINE h == Head(todo).op
<1>9. UNCHANGED program \/ h \in {"call", "open", "settings"}
  BY <1>8, <1>31, <1>32, <1>33
<1> QED
  BY <1>8, <1>9, <1>10, <1>11, <1>12, <1>13, <1>14, <1>15, <1>16, <1>17, <1>18, <1>19,
     <1>20, <1>21, <1>22, <1>23, <1>24, <1>25, <1>26, <1>27, <1>28, <1>29, <1>30, <1>31,
     <1>32, <1>33

\* What the thread does keeps the types.
LEMMA UnlinkTyped ==
  ASSUME TypedLibrary, NEW c \in Components, NEW i \in 1..Len(list[c]), Unlink(c, i)
  PROVE  /\ list' = [d \in Components |-> list'[d]]
         /\ \A d \in Components : list'[d] \in Seq(Repertoire(d))
         /\ list'[c] = RemoveAt(list[c], i)
         /\ \A d \in Components : d # c => list'[d] = list[d]
<1>1. list[c] \in Seq(Repertoire(c)) /\ list = [d \in Components |-> list[d]]
  BY DEF TypedLibrary
<1>2. RemoveAt(list[c], i) \in Seq(Repertoire(c))
  BY <1>1, Unlinked
<1>3. list' = [list EXCEPT ![c] = RemoveAt(@, i)]
  BY DEF Unlink
<1> DEFINE r == RemoveAt(list[c], i)
<1>4. list' = [d \in Components |-> IF d = c THEN r ELSE list[d]]
  BY <1>1, <1>3
<1> HIDE DEF r
<1>5. /\ list' = [d \in Components |-> list'[d]] /\ list'[c] = r
      /\ \A d \in Components : d # c => list'[d] = list[d]
  BY <1>4
<1>6. \A d \in Components : list'[d] \in Seq(Repertoire(d))
  BY <1>2, <1>5 DEF TypedLibrary, r
<1> QED
  BY <1>5, <1>6 DEF r

LEMMA ClearTyped ==
  ASSUME TypedLibrary, NEW c \in Components, NEW fs, Clear(c, fs)
  PROVE  flags' \in [Components -> SUBSET Flags]
BY DEF TypedLibrary, Clear

\* A search takes at most one event off the list, and clears flags.
LEMMA SearchStep ==
  ASSUME Typed, HeadOK, Main, Head(todo).op \in {"await", "expect", "remove"}
  PROVE  LET s == Head(todo)
         IN  /\ s.c \in Components
             /\ \/ UNCHANGED list
                \/ \E i \in 1..Len(list[s.c]) : Unlink(s.c, i)
             /\ UNCHANGED flags \/ \E fs : Clear(s.c, fs)
             /\ ret' \in Rets
             /\ UNCHANGED <<status, error_mask, related, in_list, coreInit, components, program>>
<1> DEFINE s == Head(todo)
<1>1. s.c \in Components /\ TypedThread
  BY Dispatch DEF HeadOK, Plain, Special, All, Around, Typed
<1>2. list[s.c] \in Seq(Repertoire(s.c))
  BY <1>1 DEF Typed, TypedLibrary
<1>3. CASE s.op = "await"
  <2> DEFINE i == CommandAt(list[s.c], s.a, s.x)
  <2>1. i = 0 \/ i \in 1..Len(list[s.c])
    BY <1>2, FindsCommand
  <2>2. ScanForCommand /\ UNCHANGED program
    BY <1>3, Dispatch
  <2> HIDE DEF i
  <2> QED
    BY <1>1, <2>1, <2>2 DEF ScanForCommand, Returns, Becomes, i, CommandAt, Rets, TypedThread
<1>4. CASE s.op = "expect"
  <2> DEFINE i == EndAt(list[s.c], s.a, s.x)
  <2>1. i = 0 \/ i \in 1..Len(list[s.c])
    BY <1>2, FindsEnd
  <2>2. ilclient_wait_for_event /\ UNCHANGED program
    BY <1>4, Dispatch
  <2> HIDE DEF i
  <2> QED
    BY <1>1, <2>1, <2>2 DEF ilclient_wait_for_event, Returns, i, EndAt, Rets
<1>5. CASE s.op = "remove"
  <2> DEFINE i == EventAt(list[s.c], s.a, s.x)
  <2>1. i = 0 \/ i \in 1..Len(list[s.c])
    BY <1>2, FindsEvent
  <2>2. ilclient_remove_event /\ UNCHANGED program
    BY <1>5, Dispatch
  <2>3. /\ IF i = 0 THEN Returns(-1) /\ UNCHANGED <<list, flags>>
           ELSE /\ Returns(0) /\ Unlink(s.c, i)
                /\ Clear(s.c, IF s.a = "event" THEN {} ELSE {"Error"})
        /\ UNCHANGED <<error_mask, related, in_list, coreInit, components>>
    BY <2>2 DEF ilclient_remove_event, EventAt
  <2> HIDE DEF i
  <2> QED
    BY <1>1, <2>1, <2>2, <2>3 DEF Returns, Rets
<1> QED
  BY <1>3, <1>4, <1>5

LEMMA MainTyped ==
  ASSUME Typed, HeadOK, Main
  PROVE  Typed'
<1> DEFINE s == Head(todo)
<1>1. todo # <<>> /\ (Plain(All, s) \/ Special(s))
  BY Dispatch DEF HeadOK
<1>2. All.comps = Components /\ All.freed = Components /\ All.ports \in SUBSET PortPairs
  BY DEF All, Around
<1>3. /\ TypedThread /\ TypedLibrary /\ TypedBuffers /\ TypedComponents /\ TypedProgram
      /\ NumBufs \in Nat \ {0} /\ MaxFaults \in Nat /\ MaxReports \in Nat
  BY IlClientAssumption DEF Typed
<1>4. CASE s.op \in {"if", "disable all"}
  <2>1. UNCHANGED <<ret, status, library, components, program>>
    BY <1>4, Dispatch DEF Branch, DisableAll
  <2> QED
    BY <1>3, <2>1 DEF Typed, TypedThread, TypedLibrary, TypedBuffers, TypedComponents,
       TypedProgram, library, components, program
<1>5. CASE s.op \in {"return", "assert"}
  <2>1. /\ ret' \in Rets /\ status' \in {"starting", "running", "aborted", "exited"}
        /\ UNCHANGED <<library, components, program>>
    BY <1>1, <1>3, <1>5, Dispatch
       DEF ReturnValue, CheckResult, Plain, Special, Returns, TypedThread
  <2> QED
    BY <1>3, <2>1 DEF Typed, TypedThread, TypedLibrary, TypedBuffers, TypedComponents,
       TypedProgram, library, components, program
<1>6. CASE s.op \in {"configure", "OMX_Deinit"}
  <2>1. /\ ret' \in Rets /\ status' = status /\ faults' \in 0..MaxFaults /\ coreInit' \in 0..3
        /\ UNCHANGED <<list, flags, error_mask, related, in_list, cstate, enabled, peer, used,
                       cmds, reports, program>>
    <3>1. CASE s.op = "configure"
      <4>1. Configure /\ UNCHANGED program
        BY <3>1, Dispatch
      <4> QED
        BY <1>3, <4>1 DEF Configure, Returns, Rets, TypedComponents, TypedLibrary, library
    <3>2. CASE s.op = "OMX_Deinit"
      <4>1. OMX_Deinit /\ UNCHANGED program
        BY <3>2, Dispatch
      <4> QED
        BY <1>3, <4>1 DEF OMX_Deinit, Returns, Rets, TypedComponents, TypedLibrary, components
    <3> QED
      BY <1>6, <3>1, <3>2
  <2> QED
    BY <1>3, <2>1 DEF Typed, TypedThread, TypedLibrary, TypedBuffers, TypedComponents,
       TypedProgram, program
<1>7. CASE s.op = "send"
  <2>1. SendCommand /\ UNCHANGED program /\ s.c \in Components /\ <<s.c, s.a, s.x>> \in All.orders
    BY <1>1, <1>2, <1>7, Dispatch DEF Plain, Special
  <2>2. Order(s.c, s.a, s.x) /\ \A b \in BOOLEAN : [cmd |-> s.a, x |-> s.x, same |-> b] \in Command(s.c)
    BY <2>1, AllOrder
  <2>3. enabled' \in SUBSET PortPairs
    BY <1>3, <2>1, <2>2 DEF SendCommand, TypedComponents, Order, PortPairs
  <2>4. /\ cmds' = [c \in Components |-> cmds'[c]]
        /\ \A c \in Components : cmds'[c] \in Seq(Command(c))
    <3> DEFINE k == [cmd |-> s.a, x |-> s.x,
                     same |-> s.a = "PortDisable" /\ <<s.c, s.x>> \notin enabled]
    <3>1. k \in Command(s.c) /\ cmds' = [cmds EXCEPT ![s.c] = Append(@, k)]
      BY <2>1, <2>2 DEF SendCommand
    <3> HIDE DEF k
    <3>2. Append(cmds[s.c], k) \in Seq(Command(s.c))
      BY <1>3, <2>1, <3>1 DEF TypedComponents
    <3>3. cmds' = [c \in Components |-> IF c = s.c THEN Append(cmds[s.c], k) ELSE cmds[c]]
      BY <1>3, <2>1, <3>1 DEF TypedComponents
    <3> HIDE DEF s
    <3> QED
      BY <1>3, <3>2, <3>3 DEF TypedComponents
  <2>5. UNCHANGED <<ret, status, library, cstate, peer, used, faults, reports, program>>
    BY <2>1 DEF SendCommand, Returns
  <2> QED
    BY <1>3, <2>3, <2>4, <2>5 DEF Typed, TypedThread, TypedLibrary, TypedBuffers,
       TypedComponents, TypedProgram, library, program
<1>8. CASE s.op \in {"await", "expect", "remove"}
  <2>1. /\ s.c \in Components
        /\ UNCHANGED list \/ \E i \in 1..Len(list[s.c]) : Unlink(s.c, i)
        /\ UNCHANGED flags \/ \E fs : Clear(s.c, fs)
        /\ ret' \in Rets
        /\ UNCHANGED <<status, error_mask, related, in_list, coreInit, components, program>>
    BY <1>8, SearchStep
  <2>2. /\ list' = [c \in Components |-> list'[c]]
        /\ \A c \in Components : list'[c] \in Seq(Repertoire(c))
    BY <1>3, <2>1, UnlinkTyped DEF TypedLibrary
  <2>3. flags' \in [Components -> SUBSET Flags]
    BY <1>3, <2>1, ClearTyped DEF TypedLibrary
  <2> QED
    BY <1>3, <2>1, <2>2, <2>3 DEF Typed, TypedThread, TypedLibrary, TypedBuffers,
       TypedComponents, TypedProgram, components, program
<1>9. CASE s.op \in {"blocked", "wait buffers"}
  <2>1. s.c \in Components
    BY <1>1, <1>2, <1>9 DEF Plain, Special
  <2>2. /\ \E fs : Clear(s.c, fs)
        /\ UNCHANGED <<ret, status, list, error_mask, related, in_list, coreInit, components,
                       program>>
    BY <1>9, Dispatch DEF Woken, WokenForBuffers, Becomes
  <2>3. flags' \in [Components -> SUBSET Flags]
    BY <1>3, <2>1, <2>2, ClearTyped
  <2> QED
    BY <1>3, <2>2, <2>3 DEF Typed, TypedThread, TypedLibrary, TypedBuffers,
       TypedComponents, TypedProgram, components, program
<1>10. CASE s.op \in {"mask", "relate"}
  <2>1. /\ s.op = "mask" => s.c \in SUBSET Components
        /\ s.op = "relate" => s.c \in Components /\ s.x \in Components \cup {None}
    BY <1>1, <1>2, <1>10 DEF Plain, Special
  <2>2. /\ error_mask' \in SUBSET Components
        /\ related' \in [Components -> Components \cup {None}]
        /\ UNCHANGED <<ret, status, list, flags, in_list, coreInit, components, program>>
    BY <1>3, <1>10, <2>1, Dispatch DEF MaskErrors, Relate, Returns, TypedLibrary
  <2> QED
    BY <1>3, <2>2 DEF Typed, TypedThread, TypedLibrary, TypedBuffers,
       TypedComponents, TypedProgram, components, program
<1>11. CASE s.op \in {"use", "free"}
  <2>1. /\ s.c \in Components
        /\ s.op = "use" => used[s.c] = 0 /\ in_list[s.c] = 0
    BY <1>1, <1>2, <1>11 DEF Plain, Special
  <2>2. /\ in_list' \in [Components -> Nat] /\ used' \in [Components -> Nat]
        /\ \A c \in Components : in_list'[c] <= used'[c] /\ used'[c] <= NumBufs
        /\ faults' \in 0..MaxFaults /\ ret' \in Rets
        /\ UNCHANGED <<status, list, flags, error_mask, related, coreInit, cstate, enabled, peer,
                       cmds, reports, program>>
    <3>1. CASE s.op = "use"
      <4>1. UseBuffers /\ UNCHANGED program
        BY <3>1, Dispatch
      <4>2. PICK n \in 0..NumBufs :
              /\ n < NumBufs => faults < MaxFaults
              /\ faults' = IF n < NumBufs THEN faults + 1 ELSE faults
              /\ used' = [used EXCEPT ![s.c] = @ + n]
              /\ in_list' = [in_list EXCEPT ![s.c] = @ + n]
              /\ Returns(IF n < NumBufs THEN -1 ELSE 0)
        BY <4>1 DEF UseBuffers
      <4> QED
        BY <1>3, <2>1, <3>1, <4>1, <4>2, SMTT(30)
           DEF UseBuffers, Returns, Rets, TypedBuffers, TypedComponents
    <3>2. CASE s.op = "free"
      <4>1. /\ used' = [used EXCEPT ![s.c] = @ - in_list[s.c]]
            /\ in_list' = [in_list EXCEPT ![s.c] = 0]
            /\ UNCHANGED <<ret, status, list, flags, error_mask, related, coreInit, cstate,
                           enabled, peer, cmds, faults, reports, program>>
        BY <3>2, Dispatch DEF FreeBuffers
      <4> QED
        BY <1>3, <2>1, <4>1 DEF TypedBuffers, TypedComponents, TypedThread
    <3> QED
      BY <1>11, <3>1, <3>2
  <2> QED
    BY <1>3, <2>2 DEF Typed, TypedThread, TypedLibrary, TypedBuffers,
       TypedComponents, TypedProgram, program
<1>12. CASE s.op = "OMX_Init"
  <2>1. coreInit \in 0..2
    BY <1>1, <1>12 DEF Plain, Special
  <2>2. /\ coreInit' \in 0..3 /\ faults' \in 0..MaxFaults /\ ret' \in Rets
        /\ UNCHANGED <<status, list, flags, error_mask, related, in_list, cstate, enabled, peer,
                       used, cmds, reports, program>>
    <3>1. OMX_Init /\ UNCHANGED program
      BY <1>12, Dispatch
    <3> QED
      BY <1>3, <2>1, <3>1 DEF OMX_Init, Returns, Rets, TypedComponents
  <2> QED
    BY <1>3, <2>2 DEF Typed, TypedThread, TypedLibrary, TypedBuffers,
       TypedComponents, TypedProgram, program
<1>13. CASE s.op \in {"OMX_GetHandle", "OMX_FreeHandle"}
  <2>1. s.c \in Components
    BY <1>1, <1>2, <1>13 DEF Plain, Special
  <2>2. /\ cstate' \in [Components -> States] /\ enabled' \in SUBSET PortPairs
        /\ faults' \in 0..MaxFaults /\ ret' \in Rets
        /\ UNCHANGED <<status, library, peer, used, reports, program>>
        /\ UNCHANGED cmds \/ cmds' = [cmds EXCEPT ![s.c] = <<>>]
    <3>1. CASE s.op = "OMX_GetHandle"
      <4>1. OMX_GetHandle /\ UNCHANGED program
        BY <3>1, Dispatch
      <4>2. {s.c} \X Ports[s.c] \in SUBSET PortPairs
        BY <2>1 DEF PortPairs
      <4>3. cstate' = cstate \/ cstate' = [cstate EXCEPT ![s.c] = "Loaded"]
        BY <4>1 DEF OMX_GetHandle
      <4>4. enabled' = enabled \/ enabled' = enabled \cup {s.c} \X Ports[s.c]
        BY <4>1 DEF OMX_GetHandle
      <4>5. /\ ret' \in {0, -1} /\ UNCHANGED <<status, library, peer, used, cmds, reports, program>>
            /\ faults' = faults \/ (faults' = faults + 1 /\ faults < MaxFaults)
        BY <4>1 DEF OMX_GetHandle, Returns
      <4> HIDE DEF s
      <4> QED
        BY <1>3, <4>2, <4>3, <4>4, <4>5 DEF Rets, TypedComponents, States
    <3>2. CASE s.op = "OMX_FreeHandle"
      <4>1. OMX_FreeHandle /\ UNCHANGED program
        BY <3>2, Dispatch
      <4> QED
        BY <1>3, <2>1, <4>1
           DEF OMX_FreeHandle, Returns, Rets, TypedComponents, States, PortPairs
    <3> QED
      BY <1>13, <3>1, <3>2
  <2>3. /\ cmds' = [c \in Components |-> cmds'[c]]
        /\ \A c \in Components : cmds'[c] \in Seq(Command(c))
    <3>1. <<>> \in Seq(Command(s.c))
      BY EmptySeq
    <3>2. cmds = [c \in Components |-> cmds[c]] /\ \A c \in Components : cmds[c] \in Seq(Command(c))
      BY <1>3 DEF TypedComponents
    <3>3. CASE UNCHANGED cmds
      BY <3>2, <3>3
    <3>4. CASE cmds' = [cmds EXCEPT ![s.c] = <<>>]
      <4>1. cmds' = [c \in Components |-> IF c = s.c THEN <<>> ELSE cmds[c]]
        BY <3>2, <3>4
      <4> HIDE DEF s
      <4> QED
        BY <3>1, <3>2, <4>1
    <3> QED
      BY <2>2, <3>3, <3>4
  <2> QED
    BY <1>3, <2>2, <2>3 DEF Typed, TypedThread, TypedLibrary, TypedBuffers,
       TypedComponents, TypedProgram, library, program
<1>14. CASE s.op = "OMX_SetupTunnel"
  <2>1. s.a \in PortPairs /\ s.x \in PortPairs \cup {NoPort}
    BY <1>1, <1>2, <1>14 DEF Plain, Special
  <2>2. /\ peer' \in [PortPairs -> PortPairs \cup {NoPort}]
        /\ faults' \in 0..MaxFaults /\ ret' \in Rets
        /\ UNCHANGED <<status, library, cstate, enabled, used, cmds, reports, program>>
    <3>1. OMX_SetupTunnel /\ UNCHANGED program
      BY <1>14, Dispatch
    <3> QED
      BY <1>3, <2>1, <3>1 DEF OMX_SetupTunnel, Returns, Rets, TypedComponents
  <2> QED
    BY <1>3, <2>2 DEF Typed, TypedThread, TypedLibrary, TypedBuffers,
       TypedComponents, TypedProgram, library, program
<1>15. CASE s.op = "return events"
  <2>1. s.c \in Components
    BY <1>1, <1>2, <1>15 DEF Plain, Special
  <2>2. /\ list' = [list EXCEPT ![s.c] = <<>>]
        /\ UNCHANGED <<ret, status, flags, error_mask, related, in_list, coreInit, components,
                       program>>
    BY <1>15, Dispatch DEF ilclient_return_events, Returns
  <2>3. /\ list' = [c \in Components |-> list'[c]]
        /\ \A c \in Components : list'[c] \in Seq(Repertoire(c))
    BY <1>3, <2>1, <2>2 DEF TypedLibrary
  <2> QED
    BY <1>3, <2>2, <2>3 DEF Typed, TypedThread, TypedLibrary, TypedBuffers,
       TypedComponents, TypedProgram, components, program
<1>16. CASE s.op \in {"call", "open", "settings"}
  <2>1. /\ s.op = "call" => s.a \in ToSet(Parts)
        /\ s.op = "open" => s.a \in ToSet(Threads)
    BY <1>1, <1>16 DEF Plain, Special
  <2>2. /\ initialised' \in SUBSET ToSet(Parts) /\ opened' \in SUBSET ToSet(Threads)
        /\ port_setting_changed' \in BOOLEAN
        /\ status' \in {"starting", "running", "aborted", "exited"}
        /\ UNCHANGED <<ret, library, components>>
    BY <1>3, <1>16, <2>1, Dispatch
       DEF Initialise, sx_thread_create, SettingsChanged, TypedProgram, TypedThread
  <2> QED
    BY <1>3, <2>2 DEF Typed, TypedThread, TypedLibrary, TypedBuffers,
       TypedComponents, TypedProgram, library, components
<1> QED
  BY <1>1, <1>4, <1>5, <1>6, <1>7, <1>8, <1>9, <1>10, <1>11, <1>12, <1>13, <1>14, <1>15, <1>16
     DEF Plain, Special

\* A report goes to the front of the list, unless it is hidden.
LEMMA EventTyped ==
  ASSUME Typed, NEW c \in Components, NEW ev \in Repertoire(c), ilclient_event_handler(c, ev)
  PROVE  /\ TypedLibrary'
         /\ \A d \in Components : d # c => list'[d] = list[d]
         /\ \/ list'[c] = <<>> \o Purged(c) /\ ev = Unpopulated /\ c \in error_mask
            \/ list'[c] = <<ev>> \o Purged(c) /\ ~(ev = Unpopulated /\ c \in error_mask)
         /\ UNCHANGED <<thread, error_mask, related, in_list, coreInit>>
<1> DEFINE front == IF ev = Unpopulated /\ c \in error_mask THEN <<>> ELSE <<ev>>
<1>1. TypedLibrary
  BY DEF Typed
<1>2. /\ list' = [list EXCEPT ![c] = front \o Purged(c)]
      /\ UNCHANGED <<thread, error_mask, related, in_list, coreInit>>
  BY DEF ilclient_event_handler
<1>3. front \in Seq(Repertoire(c))
  BY EmptySeq, Single
<1>4. Purged(c) \in Seq(Repertoire(c))
  <2>1. list[c] \in Seq(Repertoire(c))
    BY <1>1 DEF TypedLibrary
  <2> QED
    BY <2>1, PurgedOnce
<1>5. front \o Purged(c) \in Seq(Repertoire(c))
  BY <1>3, <1>4, ConcatProperties
<1>6. /\ list' = [d \in Components |-> list'[d]] /\ list'[c] = front \o Purged(c)
      /\ \A d \in Components : d # c => list'[d] = list[d]
  <2> HIDE DEF front
  <2>1. list' = [d \in Components |-> IF d = c THEN front \o Purged(c) ELSE list[d]]
    BY <1>1, <1>2 DEF TypedLibrary
  <2> QED
    BY <2>1
<1>7. \A d \in Components : list'[d] \in Seq(Repertoire(d))
  BY <1>1, <1>5, <1>6 DEF TypedLibrary
<1>8. flags' \in [Components -> SUBSET Flags]
  <2>1. FlagOf(ev) \in Flags
    BY DEF Repertoire, Done, Failure, Unpopulated, Corrupt, Changed, FlagOf, Flags
  <2>2. {FlagOf(ev), "Error"} \in SUBSET Flags
    BY <2>1 DEF Flags
  <2>3. \A d \in Components : flags[d] \in SUBSET Flags
    BY <1>1 DEF TypedLibrary
  <2> DEFINE woken == (IF ev = Unpopulated /\ c \in error_mask THEN {} ELSE {c} \X {FlagOf(ev)})
                          \cup (IF EndsByError(ev) THEN {<<related[c], "Error">>} ELSE {})
  <2>4. flags' = [d \in Components |-> flags[d] \cup {f \in {FlagOf(ev), "Error"} :
                                                          <<d, f>> \in woken}]
    BY DEF ilclient_event_handler
  <2> HIDE DEF woken
  <2> QED
    BY <2>2, <2>3, <2>4
<1>9. TypedLibrary'
  BY <1>1, <1>2, <1>6, <1>7, <1>8 DEF TypedLibrary
<1> QED
  BY <1>2, <1>6, <1>9

\* What a component does.
LEMMA HardwareTyped ==
  ASSUME Typed, NEW c \in Components, Serve(c) \/ Report(c), UNCHANGED program
  PROVE  Typed'
<1>1. /\ TypedThread /\ TypedLibrary /\ TypedBuffers /\ TypedComponents /\ TypedProgram
      /\ MaxFaults \in Nat /\ MaxReports \in Nat
  BY IlClientAssumption DEF Typed
<1> DEFINE k == Head(cmds[c])
<1>2. cmds[c] \in Seq(Command(c)) /\ cmds = [d \in Components |-> cmds[d]]
  BY <1>1 DEF TypedComponents
<1>3. ASSUME cmds[c] # <<>>
      PROVE  /\ k \in Command(c) /\ Done(k.cmd, k.x) \in Repertoire(c)
             /\ Tail(cmds[c]) \in Seq(Command(c))
             /\ k.cmd = "StateSet" => k.x \in States
  <2>1. k \in Command(c) /\ Tail(cmds[c]) \in Seq(Command(c))
    BY <1>2, <1>3, HeadTail
  <2>2. Order(c, k.cmd, k.x)
    BY <2>1 DEF Command
  <2> QED
    BY <2>1, <2>2 DEF Order, Repertoire, States
<1>4. ASSUME NEW ev \in Repertoire(c), Answers(c, ev), cmds[c] # <<>>,
             cstate' \in [Components -> States], enabled' \in SUBSET PortPairs,
             faults' \in 0..MaxFaults, UNCHANGED <<peer, used, reports>>
      PROVE  Typed'
  <2>1. TypedLibrary' /\ UNCHANGED <<thread, in_list>>
    BY <1>4, EventTyped DEF Answers
  <2>2. cmds' = [cmds EXCEPT ![c] = Tail(@)]
    BY <1>4 DEF Answers
  <2>3. cmds' = [d \in Components |-> IF d = c THEN Tail(cmds[c]) ELSE cmds[d]]
    BY <1>2, <2>2
  <2>4. cmds' = [d \in Components |-> cmds'[d]] /\ \A d \in Components : cmds'[d] \in Seq(Command(d))
    BY <1>1, <1>3, <1>4, <2>3 DEF TypedComponents
  <2> QED
    BY <1>1, <1>4, <2>1, <2>4 DEF Typed, TypedThread, TypedBuffers, TypedComponents,
       TypedProgram, thread, program
<1>5. CASE Serve(c)
  <2>1. CASE Carry(c)
    <3>1. cmds[c] # <<>>
      BY <1>5 DEF Serve
    <3>2. cstate' \in [Components -> States]
      BY <1>1, <1>3, <2>1, <3>1 DEF Carry, TypedComponents
    <3> QED
      BY <1>1, <1>3, <1>4, <2>1, <3>1, <3>2 DEF Carry, TypedComponents
  <2>2. CASE Reject(c) \/ Cancel(c) \/ Refuse(c)
    <3>1. cmds[c] # <<>>
      BY <1>5 DEF Serve
    <3>2. {Failure("SameState"), Failure("IncorrectStateTransition"), Failure("InsufficientResources")}
              \subseteq Repertoire(c)
      BY DEF Repertoire
    <3>3. \E ev \in Repertoire(c) : Answers(c, ev)
      BY <1>3, <2>2, <3>1, <3>2 DEF Reject, Cancel, Refuse
    <3>4. /\ cstate' \in [Components -> States] /\ enabled' \in SUBSET PortPairs
          /\ faults' \in 0..MaxFaults /\ UNCHANGED <<peer, used, reports>>
      BY <1>1, <2>2 DEF Reject, Cancel, Refuse, TypedComponents
    <3> QED
      BY <1>4, <3>1, <3>3, <3>4
  <2> QED
    BY <1>5, <2>1, <2>2 DEF Serve
<1>6. CASE Report(c)
  <2>1. Unpopulated \in Repertoire(c)
        /\ (OutputPort[c] # None => {Corrupt, Changed(OutputPort[c])} \subseteq Repertoire(c))
    BY DEF Repertoire
  <2>2. \E ev \in Repertoire(c) : ilclient_event_handler(c, ev)
    BY <1>6, <2>1 DEF Report
  <2>3. TypedLibrary' /\ UNCHANGED <<thread, in_list>>
    BY <2>2, EventTyped
  <2>4. reports' \in 0..MaxReports /\ UNCHANGED <<cstate, enabled, peer, used, cmds, faults>>
    BY <1>1, <1>6 DEF Report, TypedComponents
  <2> QED
    BY <1>1, <2>3, <2>4 DEF Typed, TypedThread, TypedBuffers, TypedComponents,
       TypedProgram, thread, program
<1> QED
  BY <1>5, <1>6

------------------------------------------------------------------------------
(***************************************************************************)
(* The cells of the event lists.  All but the newest event of a list are   *)
(* different, so that the list of a component is never longer than its     *)
(* repertoire, and one more.                                               *)
(***************************************************************************)
Spread ==
    \A c \in Components : \A i, j \in 2..Len(list[c]) : list[c][i] = list[c][j] => i = j

Client(c) == {d \in Components : ClientOf[d] = ClientOf[c]}

\* The cells suffice for one of each event of the components of a client, and one more
\* for each component.  The code has 100; the components of the video sink need 48.
EnoughCells ==
    \A c \in Components :
        NumEvents >= Cardinality(UNION {{d} \X Repertoire(d) : d \in Client(c)})
                         + Cardinality(Client(c))

LEMMA FiniteRepertoire ==
  ASSUME NEW c \in Components
  PROVE  IsFiniteSet(Repertoire(c))
<1> DEFINE En == {Done("PortEnable", p) : p \in Ports[c]}
           Dis == {Done("PortDisable", p) : p \in Ports[c]}
           f == [p \in Ports[c] |-> Done("PortEnable", p)]
           g == [p \in Ports[c] |-> Done("PortDisable", p)]
           St == {Done("StateSet", "Loaded"), Done("StateSet", "Idle"), Done("StateSet", "Executing"),
                  Failure("SameState"), Failure("IncorrectStateTransition"),
                  Failure("InsufficientResources"), Unpopulated, Corrupt, Changed(OutputPort[c])}
<1>1. IsFiniteSet(Ports[c])
  BY IlClientAssumption
<1>2. f \in Surjection(Ports[c], En) /\ g \in Surjection(Ports[c], Dis)
  BY DEF Surjection
<1>3. IsFiniteSet(En) /\ IsFiniteSet(Dis)
  <2> HIDE DEF f, g, En, Dis
  <2> QED
    BY <1>1, <1>2, FS_Surjection
<1>4. IsFiniteSet(St)
  <2> DEFINE e1 == Done("StateSet", "Loaded")
             e2 == Done("StateSet", "Idle")
             e3 == Done("StateSet", "Executing")
             e4 == Failure("SameState")
             e5 == Failure("IncorrectStateTransition")
             e6 == Failure("InsufficientResources")
             e7 == Unpopulated
             e8 == Corrupt
             e9 == Changed(OutputPort[c])
  <2> DEFINE S7 == (((((({} \cup {e1}) \cup {e2}) \cup {e3}) \cup {e4}) \cup {e5}) \cup {e6})
                      \cup {e7}
  <2>1. St = (S7 \cup {e8}) \cup {e9}
    OBVIOUS
  <2> HIDE DEF e1, e2, e3, e4, e5, e6, e7, e8, e9
  <2>2. ASSUME NEW S, NEW e, IsFiniteSet(S)
        PROVE  IsFiniteSet(S \cup {e})
    BY <2>2, FS_AddElement
  <2>3. IsFiniteSet((({} \cup {e1}) \cup {e2}) \cup {e3})
    BY <2>2, FS_EmptySet
  <2>4. IsFiniteSet((((({} \cup {e1}) \cup {e2}) \cup {e3}) \cup {e4}) \cup {e5})
    BY <2>2, <2>3
  <2>5. IsFiniteSet(S7)
    BY <2>2, <2>4
  <2> HIDE DEF S7
  <2>6. IsFiniteSet(S7 \cup {e8})
    BY <2>2, <2>5
  <2>7. IsFiniteSet((S7 \cup {e8}) \cup {e9})
    BY <2>2, <2>6
  <2> HIDE DEF St
  <2> QED
    BY <2>1, <2>7
<1>5. Repertoire(c) \in SUBSET (En \cup Dis \cup St)
  BY DEF Repertoire
<1> HIDE DEF En, Dis, St
<1>6. IsFiniteSet(En \cup Dis)
  BY <1>3, FS_Union
<1>7. IsFiniteSet(En \cup Dis \cup St)
  BY <1>4, <1>6, FS_Union
<1> QED
  BY <1>5, <1>7, FS_Subset

LEMMA FiniteClient ==
  ASSUME NEW c \in Components
  PROVE  /\ IsFiniteSet(UNION {{d} \X Repertoire(d) : d \in Client(c)})
         /\ IsFiniteSet(Client(c))
<1> DEFINE f == [d \in Client(c) |-> {d} \X Repertoire(d)]
           S == {{d} \X Repertoire(d) : d \in Client(c)}
<1>1. IsFiniteSet(Client(c))
  <2>1. Client(c) \in SUBSET Components
    BY DEF Client
  <2> QED
    BY <2>1, IlClientAssumption, FS_Subset
<1>2. f \in Surjection(Client(c), S)
  BY DEF Surjection
<1>3. ASSUME NEW T \in S
      PROVE  IsFiniteSet(T)
  <2>1. PICK d \in Client(c) : T = {d} \X Repertoire(d)
    OBVIOUS
  <2>2. IsFiniteSet({d}) /\ IsFiniteSet(Repertoire(d))
    BY FiniteRepertoire, FS_Singleton DEF Client
  <2> QED
    BY <2>1, <2>2, FS_Product
<1> HIDE DEF f, S
<1>4. IsFiniteSet(S)
  BY <1>1, <1>2, FS_Surjection
<1>5. IsFiniteSet(UNION S)
  BY <1>3, <1>4, FS_UNION
<1> QED
  BY <1>1, <1>5 DEF S

\* With that many cells there is one left.
LEMMA CellLeft ==
  ASSUME EnoughCells, TypedLibrary, Spread, NEW c \in Components
  PROVE  Spare(c) > 0
<1> DEFINE n == Len(Purged(c))
           B == Client(c)
           R == UNION {{d} \X Repertoire(d) : d \in B}
           O == B \ {c}
           A == UNION {{d} \X DOMAIN list[d] : d \in O}
           A1 == {<<d, 1>> : d \in O}
           A2 == UNION {{d} \X (2..Len(list[d])) : d \in O}
           P == {c} \X (1..n)
           f == [q \in P \cup A2 |-> IF q[1] = c THEN <<c, Purged(c)[q[2]]>>
                                                 ELSE <<q[1], list[q[1]][q[2]]>>]
<1>1. \A d \in Components :
         /\ list[d] \in Seq(Repertoire(d)) /\ Len(list[d]) \in Nat
         /\ DOMAIN list[d] = 1..Len(list[d])
         /\ \A i \in 1..Len(list[d]) : list[d][i] \in Repertoire(d)
  BY LenProperties, ElementOfSeq DEF TypedLibrary
<1>2. /\ Purged(c) \in Seq(Repertoire(c)) /\ n \in Nat /\ DOMAIN Purged(c) = 1..n
      /\ \A i \in 1..n : Purged(c)[i] \in Repertoire(c)
      /\ \A i, j \in 1..n : Purged(c)[i] = Purged(c)[j] => i = j
  BY <1>1, PurgedOnce, ElementOfSeq
<1>3. /\ IsFiniteSet(R) /\ Cardinality(R) \in Nat /\ IsFiniteSet(B) /\ Cardinality(B) \in Nat
      /\ NumEvents >= Cardinality(R) + Cardinality(B)
      /\ IsFiniteSet(O) /\ Cardinality(O) = Cardinality(B) - 1
      /\ c \in B /\ O \in SUBSET Components /\ B \in SUBSET Components
  <2>1. c \in B /\ O \in SUBSET Components /\ B \in SUBSET Components
    BY DEF Client
  <2>2. IsFiniteSet(R) /\ Cardinality(R) \in Nat /\ IsFiniteSet(B) /\ Cardinality(B) \in Nat
    BY FiniteClient, FS_CardinalityType
  <2>3. IsFiniteSet(O) /\ Cardinality(O) = Cardinality(B) - 1
    BY <2>1, <2>2, FS_RemoveElement
  <2> QED
    BY <2>1, <2>2, <2>3 DEF EnoughCells
<1>4. IsFiniteSet(P \cup A2) /\ Cardinality(P \cup A2) <= Cardinality(R)
  <2>1. ASSUME NEW q \in P \cup A2
        PROVE  /\ q = <<q[1], q[2]>> /\ f[q] \in R
               /\ q[1] = c => q[2] \in 1..n
               /\ q[1] # c => q[1] \in O /\ q[2] \in 2..Len(list[q[1]])
               /\ f[q] = IF q[1] = c THEN <<c, Purged(c)[q[2]]>> ELSE <<q[1], list[q[1]][q[2]]>>
    <3>1. CASE q \in P
      <4>1. q[1] = c /\ q[2] \in 1..n /\ q = <<q[1], q[2]>>
        BY <3>1
      <4>2. Purged(c)[q[2]] \in Repertoire(c)
        BY <1>2, <4>1
      <4> QED
        BY <1>3, <3>1, <4>1, <4>2
    <3>2. CASE q \in A2
      <4>1. q[1] \in O /\ q[2] \in 2..Len(list[q[1]]) /\ q = <<q[1], q[2]>>
        BY <3>2
      <4>2. list[q[1]][q[2]] \in Repertoire(q[1])
        BY <1>1, <1>3, <4>1
      <4> QED
        BY <1>3, <3>2, <4>1, <4>2
    <3> QED
      BY <3>1, <3>2
  <2>2. ASSUME NEW q \in P \cup A2, NEW r \in P \cup A2, f[q] = f[r]
        PROVE  q = r
    <3>1. q[1] = r[1] /\ f[q][2] = f[r][2]
      BY <2>1, <2>2
    <3>2. q[2] = r[2]
      <4>1. CASE q[1] = c
        BY <1>2, <2>1, <3>1, <4>1
      <4>2. CASE q[1] # c
        <5>1. q[1] \in Components /\ q[2] \in 2..Len(list[q[1]]) /\ r[2] \in 2..Len(list[q[1]])
          BY <1>3, <2>1, <3>1, <4>2
        <5>2. list[q[1]][q[2]] = list[q[1]][r[2]]
          BY <2>1, <3>1, <4>2
        <5> QED
          BY <5>1, <5>2 DEF Spread
      <4> QED
        BY <4>1, <4>2
    <3> QED
      BY <2>1, <3>1, <3>2
  <2>3. f \in Injection(P \cup A2, R)
    BY <2>1, <2>2 DEF Injection, IsInjective
  <2> HIDE DEF f, P, A2, R
  <2> QED
    BY <1>3, <2>3, FS_Injection
<1>5. IsFiniteSet(A1) /\ Cardinality(A1) <= Cardinality(O)
  <2> DEFINE g == [q \in A1 |-> q[1]]
  <2>1. g \in Injection(A1, O)
    BY DEF Injection, IsInjective
  <2> HIDE DEF g, A1, O
  <2> QED
    BY <1>3, <2>1, FS_Injection
<1>6. IsFiniteSet(P) /\ Cardinality(P) = n
  <2> DEFINE g == [i \in 1..n |-> <<c, i>>]
  <2>1. IsFiniteSet(1..n) /\ Cardinality(1..n) = n
    <3> HIDE DEF n
    <3> QED
      BY <1>2, FS_Interval
  <2>2. g \in Surjection(1..n, P) /\ g \in Injection(1..n, P)
    BY DEF Surjection, Injection, IsInjective
  <2> HIDE DEF g, P
  <2> QED
    BY <2>1, <2>2, FS_Surjection
<1>7. P \cap A2 = {}
  OBVIOUS
<1>8. A = A1 \cup A2 \/ A \in SUBSET (A1 \cup A2)
  <2>1. ASSUME NEW q \in A
        PROVE  q \in A1 \cup A2
    <3>1. PICK d \in O : q \in {d} \X DOMAIN list[d]
      BY <2>1
    <3>2. q = <<d, q[2]>> /\ q[2] \in 1..Len(list[d]) /\ Len(list[d]) \in Nat
      BY <1>1, <1>3, <3>1
    <3>3. q[2] = 1 \/ q[2] \in 2..Len(list[d])
      BY <3>2
    <3> QED
      BY <3>2, <3>3
  <2> QED
    BY <2>1
<1> HIDE DEF A, A1, A2, P, R, O, n, B, f
<1>9. IsFiniteSet(A2) /\ Cardinality(P) + Cardinality(A2) = Cardinality(P \cup A2)
      /\ Cardinality(A2) \in Nat
  <2>1. IsFiniteSet(A2)
    BY <1>4, FS_Subset
  <2>2. Cardinality(P \cup A2) = Cardinality(P) + Cardinality(A2) - Cardinality({})
    BY <1>6, <1>7, <2>1, FS_Union
  <2> QED
    BY <1>6, <1>2, <2>1, <2>2, FS_EmptySet, FS_CardinalityType
<1>10. IsFiniteSet(A) /\ Cardinality(A) <= Cardinality(A1) + Cardinality(A2) /\ Cardinality(A) \in Nat
  <2>1. IsFiniteSet(A1 \cup A2)
        /\ Cardinality(A1 \cup A2) = Cardinality(A1) + Cardinality(A2) - Cardinality(A1 \cap A2)
    BY <1>5, <1>9, FS_Union
  <2>2. IsFiniteSet(A1 \cap A2) /\ Cardinality(A1 \cap A2) \in Nat /\ Cardinality(A1) \in Nat
    BY <1>5, FS_Subset, FS_CardinalityType
  <2>3. A \in SUBSET (A1 \cup A2)
    BY <1>8
  <2>4. IsFiniteSet(A) /\ Cardinality(A) <= Cardinality(A1 \cup A2) /\ Cardinality(A) \in Nat
    BY <2>1, <2>3, FS_Subset, FS_CardinalityType
  <2> QED
    BY <1>9, <2>1, <2>2, <2>4
<1>11. Spare(c) = NumEvents - n - Cardinality(A)
  <2>1. {d \in Components \ {c} : ClientOf[d] = ClientOf[c]} = O
    BY DEF O, B, Client
  <2> QED
    BY <2>1 DEF Spare, A, n
<1>12. Cardinality(A1) \in Nat /\ Cardinality(O) \in Nat /\ Cardinality(P \cup A2) \in Nat
  BY <1>3, <1>4, <1>5, FS_CardinalityType
<1>13. n + Cardinality(A) <= Cardinality(R) + Cardinality(B) - 1
  BY <1>2, <1>3, <1>4, <1>5, <1>6, <1>9, <1>10, <1>12
<1> QED
  BY <1>2, <1>3, <1>10, <1>11, <1>13, IlClientAssumption

LEMMA SpreadMain ==
  ASSUME Typed, HeadOK, Main, Spread
  PROVE  Spread'
<1> DEFINE s == Head(todo)
<1>1. TypedLibrary /\ \A d \in Components : list[d] \in Seq(Repertoire(d)) /\ Len(list[d]) \in Nat
  BY LenProperties DEF Typed, TypedLibrary
<1>2. CASE s.op \in {"await", "expect", "remove"}
  <2>1. s.c \in Components /\ (UNCHANGED list \/ \E i \in 1..Len(list[s.c]) : Unlink(s.c, i))
    BY <1>2, SearchStep
  <2>2. ASSUME NEW i \in 1..Len(list[s.c]), Unlink(s.c, i)
        PROVE  Spread'
    <3>1. /\ list'[s.c] = RemoveAt(list[s.c], i)
          /\ \A d \in Components : d # s.c => list'[d] = list[d]
      BY <1>1, <2>1, <2>2, UnlinkTyped
    <3>2. /\ Len(RemoveAt(list[s.c], i)) = Len(list[s.c]) - 1
          /\ \A j \in 1..(Len(list[s.c]) - 1) :
                RemoveAt(list[s.c], i)[j] = IF j < i THEN list[s.c][j] ELSE list[s.c][j + 1]
      <4>1. list[s.c] \in Seq(Repertoire(s.c))
        BY <1>1, <2>1
      <4> QED
        BY <4>1, Unlinked
    <3>3. ASSUME NEW d \in Components, NEW j \in 2..Len(list'[d]), NEW m \in 2..Len(list'[d]),
                 list'[d][j] = list'[d][m]
          PROVE  j = m
      <4>1. CASE d # s.c
        BY <3>1, <3>3, <4>1 DEF Spread
      <4>2. CASE d = s.c
        <5> DEFINE up(n) == IF n < i THEN n ELSE n + 1
        <5>1. j \in 2..(Len(list[d]) - 1) /\ m \in 2..(Len(list[d]) - 1) /\ Len(list[d]) \in Nat
              /\ i \in 1..Len(list[d])
          BY <1>1, <2>1, <3>1, <3>2, <4>2
        <5>2. up(j) \in 2..Len(list[d]) /\ up(m) \in 2..Len(list[d])
          BY <5>1
        <5>3. list[d][up(j)] = list[d][up(m)]
          <6>1. /\ RemoveAt(list[d], i)[j] = list[d][up(j)]
                /\ RemoveAt(list[d], i)[m] = list[d][up(m)]
            BY <3>2, <4>2, <5>1
          <6> QED
            BY <3>1, <3>3, <4>2, <6>1
        <5>4. up(j) = up(m)
          BY <5>2, <5>3 DEF Spread
        <5> QED
          BY <5>1, <5>4
      <4> QED
        BY <4>1, <4>2
    <3> QED
      BY <3>3 DEF Spread
  <2> QED
    BY <2>1, <2>2 DEF Spread
<1>3. CASE s.op = "return events"
  <2>1. s.c \in Components /\ list' = [list EXCEPT ![s.c] = <<>>]
    BY <1>3, Dispatch DEF ilclient_return_events, HeadOK, Plain, Special, All, Around
  <2>2. ASSUME NEW d \in Components
        PROVE  list'[d] = IF d = s.c THEN <<>> ELSE list[d]
    BY <1>1, <2>1 DEF TypedLibrary
  <2> HIDE DEF s
  <2> QED
    BY <2>2 DEF Spread
<1>4. CASE s.op \notin {"await", "expect", "remove", "return events"}
  <2>1. UNCHANGED list
    <3>1. CASE s.op \in {"if", "disable all", "return", "assert", "configure", "send", "blocked"}
      BY <3>1, Dispatch DEF Branch, DisableAll, ReturnValue, CheckResult, Configure, SendCommand,
         Woken, library
    <3>2. CASE s.op \in {"wait buffers", "mask", "relate", "use", "free"}
      BY <3>2, Dispatch DEF WokenForBuffers, MaskErrors, Relate, UseBuffers, FreeBuffers
    <3>3. CASE s.op \in {"OMX_Init", "OMX_Deinit", "OMX_GetHandle", "OMX_FreeHandle",
                         "OMX_SetupTunnel"}
      BY <3>3, Dispatch DEF OMX_Init, OMX_Deinit, OMX_GetHandle, OMX_FreeHandle,
         OMX_SetupTunnel, library
    <3>4. CASE s.op \in {"call", "open", "settings"}
      BY <3>4, Dispatch DEF Initialise, sx_thread_create, SettingsChanged, library
    <3> QED
      BY <1>4, <3>1, <3>2, <3>3, <3>4, Dispatch DEF HeadOK, Plain, Special
  <2> QED
    BY <2>1 DEF Spread
<1> QED
  BY <1>2, <1>3, <1>4

LEMMA SpreadHardware ==
  ASSUME Typed, NEW c \in Components, Serve(c) \/ Report(c), UNCHANGED program, Spread
  PROVE  Spread'
<1>1. PICK ev : ilclient_event_handler(c, ev)
  BY DEF Serve, Report, Carry, Reject, Cancel, Refuse, Answers
<1> DEFINE front == IF ev = Unpopulated /\ c \in error_mask THEN <<>> ELSE <<ev>>
<1>2. list' = [list EXCEPT ![c] = front \o Purged(c)]
  BY <1>1 DEF ilclient_event_handler
<1>3. list = [d \in Components |-> list[d]] /\ \A d \in Components : list[d] \in Seq(Repertoire(d))
  BY DEF Typed, TypedLibrary
<1>4. /\ Purged(c) \in Seq(Repertoire(c))
      /\ \A i, j \in DOMAIN Purged(c) : Purged(c)[i] = Purged(c)[j] => i = j
      /\ DOMAIN Purged(c) = 1..Len(Purged(c)) /\ Len(Purged(c)) \in Nat
  <2>1. list[c] \in Seq(Repertoire(c))
    BY <1>3
  <2> QED
    BY <2>1, PurgedOnce
<1>5. front \in Seq({ev}) /\ Len(front) \in {0, 1}
  BY EmptySeq, Single
<1>6. /\ Len(front \o Purged(c)) = Len(front) + Len(Purged(c))
      /\ \A i \in 1..(Len(front) + Len(Purged(c))) :
             i > Len(front) => (front \o Purged(c))[i] = Purged(c)[i - Len(front)]
  <2> HIDE DEF front
  <2>1. front \in Seq({ev} \cup Repertoire(c)) /\ Purged(c) \in Seq({ev} \cup Repertoire(c))
    BY <1>4, <1>5, SeqMono
  <2> QED
    BY <1>5, <2>1, ConcatProperties
<1> HIDE DEF front
<1>7. ASSUME NEW d \in Components
      PROVE  list'[d] = IF d = c THEN front \o Purged(c) ELSE list[d]
  BY <1>2, <1>3
<1>8. ASSUME NEW i \in 2..Len(front \o Purged(c)), NEW j \in 2..Len(front \o Purged(c)),
             (front \o Purged(c))[i] = (front \o Purged(c))[j]
      PROVE  i = j
  <2>1. /\ i - Len(front) \in 1..Len(Purged(c)) /\ j - Len(front) \in 1..Len(Purged(c))
        /\ i > Len(front) /\ j > Len(front)
        /\ i \in 1..(Len(front) + Len(Purged(c))) /\ j \in 1..(Len(front) + Len(Purged(c)))
    <3> DEFINE n == Len(Purged(c))
               m == Len(front)
    <3>1. n \in Nat /\ m \in {0, 1} /\ Len(front \o Purged(c)) = m + n
      BY <1>4, <1>5, <1>6
    <3> HIDE DEF n, m
    <3>2. i \in 2..(m + n) /\ j \in 2..(m + n)
      BY <1>8, <3>1
    <3>3. i - m \in 1..n /\ j - m \in 1..n /\ i > m /\ j > m /\ i \in 1..(m + n) /\ j \in 1..(m + n)
      BY <3>1, <3>2
    <3> QED
      BY <3>3 DEF n, m
  <2>2. Purged(c)[i - Len(front)] = Purged(c)[j - Len(front)]
    BY <1>6, <1>8, <2>1
  <2>3. i - Len(front) = j - Len(front)
    BY <1>4, <2>1, <2>2
  <2> QED
    BY <1>5, <2>3
<1>9. ASSUME NEW d \in Components, NEW i \in 2..Len(list'[d]), NEW j \in 2..Len(list'[d]),
             list'[d][i] = list'[d][j]
      PROVE  i = j
  <2>1. CASE d = c
    BY <1>7, <1>8, <1>9, <2>1
  <2>2. CASE d # c
    BY <1>7, <1>9, <2>2 DEF Spread
  <2> QED
    BY <2>1, <2>2
<1> QED
  BY <1>9 DEF Spread

------------------------------------------------------------------------------
(***************************************************************************)
(* Orders and answers.  A component at rest has no order, and no answer on *)
(* its list; one that has been asked has either the order, or its answer,  *)
(* and what the answer says is so.                                         *)
(***************************************************************************)
IsAnswer(ev) == ev[1] = "CmdComplete" \/ EndsByError(ev)

NoAnswer(c) == \A i \in 1..Len(list[c]) : ~IsAnswer(list[c][i])
OneAnswer(c, ev) ==
    \E i \in 1..Len(list[c]) :
        /\ list[c][i] = ev /\ IsAnswer(ev)
        /\ \A j \in 1..Len(list[c]) : IsAnswer(list[c][j]) => j = i

Rest(c) == cmds[c] = <<>> /\ NoAnswer(c)

Says(c, cmd, x, ev) ==
    \/ /\ ev \in {Done(cmd, x), Failure("SameState")}
       /\ cmd = "StateSet" => cstate[c] = x
       /\ cmd = "PortEnable" => <<c, x>> \in enabled
    \/ ev = Failure("InsufficientResources") /\ faults > 0

Ordered(c, cmd, x) ==
    /\ Len(cmds[c]) = 1 /\ Head(cmds[c]).cmd = cmd /\ Head(cmds[c]).x = x
    /\ cmd = "PortEnable" => ~Head(cmds[c]).same /\ <<c, x>> \in enabled
    /\ NoAnswer(c)
Answered(c, cmd, x) == cmds[c] = <<>> /\ \E ev : OneAnswer(c, ev) /\ Says(c, cmd, x, ev)

Asked(c, cmd, x) ==
    /\ Ordered(c, cmd, x) \/ Answered(c, cmd, x)
    /\ cmd = "PortDisable" => cstate[c] = "Loaded" \/ c \in error_mask

\* What a report does to the answers on the list.
LEMMA Reported ==
  ASSUME Typed, NEW c \in Components, NEW ev \in Repertoire(c), ilclient_event_handler(c, ev)
  PROVE  LET shown == IsAnswer(ev) /\ ~(ev = Unpopulated /\ c \in error_mask)
         IN  /\ ~shown /\ NoAnswer(c) => NoAnswer(c)'
             /\ shown /\ NoAnswer(c) => OneAnswer(c, ev)'
             /\ \A e : ~shown /\ OneAnswer(c, e) => OneAnswer(c, e)'
<1> DEFINE hidden == ev = Unpopulated /\ c \in error_mask
           shown == IsAnswer(ev) /\ ~hidden
           P == Purged(c)
           n == Len(P)
<1>1. list[c] \in Seq(Repertoire(c)) /\ DOMAIN list[c] = 1..Len(list[c])
  BY LenProperties DEF Typed, TypedLibrary
<1>2. /\ P \in Seq(Repertoire(c))
      /\ \A i \in 1..n : \E j \in 1..Len(list[c]) : P[i] = list[c][j]
      /\ \A j \in 1..Len(list[c]) : \E i \in 1..n : P[i] = list[c][j]
      /\ \A i, j \in 1..n : P[i] = P[j] => i = j
      /\ n \in Nat
  <2>1. /\ Purged(c) \in Seq(Repertoire(c))
        /\ \A i \in DOMAIN Purged(c) : \E j \in DOMAIN list[c] : Purged(c)[i] = list[c][j]
        /\ \A j \in DOMAIN list[c] : \E i \in DOMAIN Purged(c) : Purged(c)[i] = list[c][j]
        /\ \A i, j \in DOMAIN Purged(c) : Purged(c)[i] = Purged(c)[j] => i = j
        /\ DOMAIN Purged(c) = 1..Len(Purged(c)) /\ Len(Purged(c)) \in Nat
    BY <1>1, PurgedOnce
  <2> HIDE DEF P
  <2> QED
    BY <1>1, <2>1 DEF P
<1> HIDE DEF P
<1>3. \/ hidden /\ list'[c] = <<>> \o P
      \/ ~hidden /\ list'[c] = <<ev>> \o P
  BY EventTyped DEF P
<1>4. hidden => Len(list'[c]) = n /\ \A i \in 1..n : list'[c][i] = P[i]
  BY <1>2, <1>3, ConcatEmptySeq
<1>5. ~hidden => /\ Len(list'[c]) = n + 1 /\ list'[c][1] = ev
                 /\ \A i \in 2..(n + 1) : list'[c][i] = P[i - 1]
  <2>1. SUFFICES ASSUME ~hidden
                 PROVE  /\ Len(list'[c]) = n + 1 /\ list'[c][1] = ev
                        /\ \A i \in 2..(n + 1) : list'[c][i] = P[i - 1]
    OBVIOUS
  <2>2. <<ev>> \in Seq(Repertoire(c)) /\ Len(<<ev>>) = 1 /\ <<ev>>[1] = ev
    BY Single
  <2>3. /\ Len(<<ev>> \o P) = 1 + n
        /\ \A i \in 1..(1 + n) : (<<ev>> \o P)[i] = IF i <= 1 THEN <<ev>>[i] ELSE P[i - 1]
    BY <1>2, <2>2, ConcatProperties
  <2> DEFINE q == <<ev>> \o P
  <2>4. list'[c] = q
    BY <1>3, <2>1
  <2> HIDE DEF q, hidden
  <2> QED
    BY <1>2, <2>2, <2>3, <2>4 DEF q
<1> HIDE DEF n
<1>6. ~shown /\ NoAnswer(c) => NoAnswer(c)'
  <2>1. SUFFICES ASSUME ~shown, NoAnswer(c), NEW i \in 1..Len(list'[c])
                 PROVE  ~IsAnswer(list'[c][i])
    BY DEF NoAnswer
  <2>2. \A j \in 1..n : ~IsAnswer(P[j])
    BY <1>2, <2>1 DEF NoAnswer
  <2>3. CASE hidden
    BY <1>4, <2>1, <2>2, <2>3
  <2>4. CASE ~hidden
    <3>1. i = 1 \/ (i \in 2..(n + 1) /\ i - 1 \in 1..n)
      BY <1>2, <1>5, <2>1, <2>4
    <3> QED
      BY <1>5, <2>1, <2>2, <2>4, <3>1
  <2> QED
    BY <2>3, <2>4
<1>7. shown /\ NoAnswer(c) => OneAnswer(c, ev)'
  <2>1. SUFFICES ASSUME shown, NoAnswer(c)
                 PROVE  /\ 1 \in 1..Len(list'[c]) /\ list'[c][1] = ev /\ IsAnswer(ev)
                        /\ \A j \in 1..Len(list'[c]) : IsAnswer(list'[c][j]) => j = 1
    BY DEF OneAnswer
  <2>2. \A j \in 1..n : ~IsAnswer(P[j])
    BY <1>2, <2>1 DEF NoAnswer
  <2>3. Len(list'[c]) = n + 1 /\ list'[c][1] = ev /\ IsAnswer(ev)
    BY <1>5, <2>1
  <2>4. ASSUME NEW j \in 1..Len(list'[c]), IsAnswer(list'[c][j]), j # 1
        PROVE  FALSE
    <3>1. j \in 2..(n + 1) /\ j - 1 \in 1..n
      BY <1>2, <2>3, <2>4
    <3> QED
      BY <1>5, <2>1, <2>2, <2>4, <3>1
  <2> QED
    BY <1>2, <2>3, <2>4
<1>8. ASSUME NEW e, ~shown, OneAnswer(c, e)
      PROVE  OneAnswer(c, e)'
  <2>1. PICK i \in 1..Len(list[c]) :
          /\ list[c][i] = e /\ IsAnswer(e)
          /\ \A j \in 1..Len(list[c]) : IsAnswer(list[c][j]) => j = i
    BY <1>8 DEF OneAnswer
  <2>2. PICK k \in 1..n : P[k] = e
    BY <1>2, <2>1
  <2>3. ASSUME NEW j \in 1..n, IsAnswer(P[j])
        PROVE  j = k
    <3>1. P[j] = e
      BY <1>2, <2>1, <2>3
    <3> QED
      BY <1>2, <2>2, <3>1
  <2>4. CASE hidden
    BY <1>4, <2>1, <2>2, <2>3, <2>4 DEF OneAnswer
  <2>5. CASE ~hidden
    <3>1. ~IsAnswer(ev)
      BY <1>8, <2>5
    <3>2. k + 1 \in 2..(n + 1) /\ Len(list'[c]) = n + 1 /\ list'[c][k + 1] = e
      <4>0. n \in Nat /\ k \in 1..n
        BY <1>2, <2>2
      <4>1. k + 1 \in 2..(n + 1) /\ (k + 1) - 1 = k
        BY <4>0
      <4>2. list'[c][k + 1] = P[(k + 1) - 1] /\ Len(list'[c]) = n + 1
        BY <1>5, <2>5, <4>1
      <4> QED
        BY <2>2, <4>1, <4>2
    <3>3. ASSUME NEW j \in 1..Len(list'[c]), IsAnswer(list'[c][j])
          PROVE  j = k + 1
      <4>1. j # 1
        BY <1>5, <2>5, <3>1, <3>3
      <4>2. j \in 2..(n + 1) /\ j - 1 \in 1..n
        BY <1>2, <3>2, <3>3, <4>1
      <4>3. j - 1 = k
        BY <1>5, <2>3, <2>5, <3>3, <4>2
      <4> QED
        BY <4>2, <4>3
    <3> QED
      BY <1>2, <2>1, <3>2, <3>3 DEF OneAnswer
  <2> QED
    BY <2>4, <2>5
<1> QED
  BY <1>6, <1>7, <1>8

\* What a component leaves alone.
Works(d) == Serve(d) \/ Report(d)

Untouched(c) ==
    /\ cmds'[c] = cmds[c] /\ list'[c] = list[c] /\ cstate'[c] = cstate[c]
    /\ \A p : <<c, p>> \in enabled' <=> <<c, p>> \in enabled

LEMMA OthersStill ==
  ASSUME Typed, NEW d \in Components, Works(d)
  PROVE  /\ UNCHANGED <<thread, error_mask, related, in_list, coreInit, peer, used>>
         /\ faults \in Nat /\ faults' \in Nat /\ faults' >= faults
         /\ \A c \in Components : c # d => Untouched(c)
<1>1. TypedLibrary /\ TypedComponents
  BY DEF Typed
<1>2. PICK ev : ilclient_event_handler(d, ev)
  BY DEF Works, Serve, Report, Carry, Reject, Cancel, Refuse, Answers
<1>3. /\ UNCHANGED <<thread, error_mask, related, in_list, coreInit>>
      /\ \A c \in Components : c # d => list'[c] = list[c]
  BY <1>1, <1>2 DEF ilclient_event_handler, TypedLibrary
<1>4. UNCHANGED <<peer, used>>
      /\ (cmds' = cmds \/ cmds' = [cmds EXCEPT ![d] = Tail(@)])
      /\ (cstate' = cstate \/ \E x : cstate' = [cstate EXCEPT ![d] = x])
      /\ (enabled' = enabled \/ \E p : enabled' = enabled \ {<<d, p>>})
      /\ (faults' = faults \/ faults' = faults + 1)
  BY DEF Works, Serve, Report, Carry, Reject, Cancel, Refuse, Answers
<1>5. faults \in Nat
  BY <1>1, IlClientAssumption DEF TypedComponents
<1>6. ASSUME NEW c \in Components, c # d
      PROVE  Untouched(c)
  <2>1. cmds'[c] = cmds[c] /\ cstate'[c] = cstate[c]
    BY <1>1, <1>4, <1>6 DEF TypedComponents
  <2>2. \A p : <<c, p>> \in enabled' <=> <<c, p>> \in enabled
    BY <1>4, <1>6
  <2> QED
    BY <1>3, <1>6, <2>1, <2>2 DEF Untouched
<1> QED
  BY <1>3, <1>4, <1>5, <1>6

LEMMA RestStable ==
  ASSUME Typed, NEW c \in Components, NEW d \in Components, Works(d), Rest(c)
  PROVE  /\ Rest(c)' /\ cstate'[c] = cstate[c]
         /\ \A p : <<c, p>> \in enabled' <=> <<c, p>> \in enabled
<1>1. CASE c # d
  BY <1>1, OthersStill DEF Untouched, Rest, NoAnswer
<1>2. CASE c = d
  <2>1. Report(c) /\ cmds[c] = <<>>
    BY <1>2 DEF Works, Serve, Rest
  <2>2. OutputPort[c] # None /\ (\E ev \in {Corrupt, Changed(OutputPort[c])} :
                                    ilclient_event_handler(c, ev))
        /\ UNCHANGED <<cstate, enabled, cmds>>
    BY <2>1 DEF Report
  <2>3. PICK ev \in {Corrupt, Changed(OutputPort[c])} : ilclient_event_handler(c, ev)
    BY <2>2
  <2>4. ev \in Repertoire(c) /\ ~IsAnswer(ev)
    BY <2>2 DEF Repertoire, IsAnswer, EndsByError, Corrupt, Changed
  <2>5. NoAnswer(c)'
    BY <2>3, <2>4, Reported DEF Rest
  <2> QED
    BY <2>1, <2>2, <2>5 DEF Rest
<1> QED
  BY <1>1, <1>2

LEMMA AskedStable ==
  ASSUME Typed, NEW c \in Components, NEW d \in Components, Works(d),
         NEW cmd, NEW x, Asked(c, cmd, x)
  PROVE  /\ Asked(c, cmd, x)'
         /\ cstate'[c] = cstate[c] \/ (cmd = "StateSet" /\ cstate'[c] = x)
         /\ \A p : (cmd = "PortEnable" => p # x) => (<<c, p>> \in enabled' <=> <<c, p>> \in enabled)
<1>1. /\ UNCHANGED <<thread, error_mask, related, in_list, coreInit, peer, used>>
      /\ faults \in Nat /\ faults' \in Nat /\ faults' >= faults
  BY OthersStill
<1>2. CASE c # d
  <2>1. Untouched(c)
    BY <1>2, OthersStill
  <2>2. Ordered(c, cmd, x) => Ordered(c, cmd, x)'
    BY <2>1 DEF Untouched, Ordered, NoAnswer
  <2>3. ASSUME NEW ev, OneAnswer(c, ev), Says(c, cmd, x, ev)
        PROVE  OneAnswer(c, ev)' /\ Says(c, cmd, x, ev)'
    <3>1. OneAnswer(c, ev)'
      BY <2>1, <2>3 DEF Untouched, OneAnswer
    <3>2. Says(c, cmd, x, ev)'
      BY <1>1, <2>1, <2>3 DEF Untouched, Says
    <3> QED
      BY <3>1, <3>2
  <2>4. Answered(c, cmd, x) => Answered(c, cmd, x)'
    BY <2>1, <2>3 DEF Untouched, Answered
  <2> QED
    BY <1>1, <2>1, <2>2, <2>4 DEF Untouched, Asked
<1>3. CASE c = d /\ Ordered(c, cmd, x)
  <2> DEFINE k == Head(cmds[c])
  <2>1. /\ cmds[c] \in Seq(Command(c)) /\ cmds = [e \in Components |-> cmds[e]]
        /\ cstate \in [Components -> States] /\ enabled \in SUBSET PortPairs
    BY DEF Typed, TypedComponents
  <2>2. /\ cmds[c] # <<>> /\ k \in Command(c) /\ Tail(cmds[c]) = <<>> /\ k.cmd = cmd /\ k.x = x
        /\ DOMAIN cmds[c] = {1} /\ cmds[c][1] = k /\ NoAnswer(c)
        /\ cmd = "PortEnable" => ~k.same /\ <<c, x>> \in enabled
    <3>1. Len(cmds[c]) = 1 /\ cmds[c] # <<>>
      BY <1>3, EmptySeq DEF Ordered
    <3>2. /\ k \in Command(c) /\ Tail(cmds[c]) \in Seq(Command(c)) /\ Len(Tail(cmds[c])) = 0
          /\ k = cmds[c][1]
      BY <2>1, <3>1, HeadTail
    <3>3. Tail(cmds[c]) = <<>>
      BY <3>2, EmptySeq
    <3>4. DOMAIN cmds[c] = {1}
      BY <2>1, <3>1, LenProperties
    <3> QED
      BY <1>3, <3>1, <3>2, <3>3, <3>4 DEF Ordered
  <2>3. Order(c, cmd, x) /\ Done(cmd, x) \in Repertoire(c)
    BY <2>2 DEF Command, Order, Repertoire
  <2>4. ASSUME NEW ev \in Repertoire(c), Answers(c, ev), IsAnswer(ev), ev # Unpopulated,
               Says(c, cmd, x, ev)'
        PROVE  Answered(c, cmd, x)'
    <3>1. OneAnswer(c, ev)'
      BY <2>2, <2>4, Reported DEF Answers
    <3>2. cmds'[c] = <<>>
      BY <2>1, <2>2, <2>4 DEF Answers
    <3> QED
      BY <2>4, <3>1, <3>2 DEF Answered
  <2>5. CASE Carry(c)
    <3>1. /\ Answers(c, Done(cmd, x)) /\ enabled' = enabled
          /\ cstate' = IF cmd = "StateSet" THEN [cstate EXCEPT ![c] = x] ELSE cstate
      BY <2>2, <2>5 DEF Carry
    <3>2. cstate'[c] = IF cmd = "StateSet" THEN x ELSE cstate[c]
      BY <2>1, <3>1
    <3>3. IsAnswer(Done(cmd, x)) /\ Done(cmd, x) # Unpopulated
      BY DEF IsAnswer, Done, Unpopulated
    <3>4. Says(c, cmd, x, Done(cmd, x))'
      BY <2>2, <3>1, <3>2 DEF Says
    <3>5. Answered(c, cmd, x)'
      BY <2>3, <2>4, <3>1, <3>3, <3>4
    <3> QED
      BY <1>1, <3>1, <3>2, <3>5 DEF Asked
  <2>6. CASE Reject(c)
    <3>1. Answers(c, Failure("SameState")) /\ UNCHANGED <<cstate, enabled>> /\ SameState(c, k)
      BY <2>6 DEF Reject
    <3>2. /\ IsAnswer(Failure("SameState")) /\ Failure("SameState") # Unpopulated
          /\ Failure("SameState") \in Repertoire(c)
      BY DEF IsAnswer, Failure, Unpopulated, EndsByError, IsError, Repertoire
    <3>3. Says(c, cmd, x, Failure("SameState"))'
      BY <2>2, <3>1 DEF Says, SameState
    <3>4. Answered(c, cmd, x)'
      BY <2>4, <3>1, <3>2, <3>3
    <3> QED
      BY <1>1, <3>1, <3>4 DEF Asked
  <2>7. ~Cancel(c)
    BY <2>2 DEF Cancel, Pending
  <2>8. CASE Refuse(c)
    <3>1. /\ Answers(c, Failure("InsufficientResources")) /\ UNCHANGED cstate
          /\ enabled' = IF cmd = "PortEnable" THEN enabled \ {<<c, x>>} ELSE enabled
          /\ faults' = faults + 1
      BY <2>2, <2>8 DEF Refuse
    <3>2. /\ IsAnswer(Failure("InsufficientResources"))
          /\ Failure("InsufficientResources") # Unpopulated
          /\ Failure("InsufficientResources") \in Repertoire(c)
      BY DEF IsAnswer, Failure, Unpopulated, EndsByError, IsError, Repertoire
    <3>3. Says(c, cmd, x, Failure("InsufficientResources"))'
      BY <1>1, <3>1 DEF Says
    <3>4. Answered(c, cmd, x)'
      BY <2>4, <3>1, <3>2, <3>3
    <3> QED
      BY <1>1, <3>1, <3>4 DEF Asked
  <2>9. CASE Report(c)
    <3>1. UNCHANGED <<cstate, enabled, cmds>>
      BY <2>9 DEF Report
    <3>2. PICK ev \in Repertoire(c) :
            /\ ilclient_event_handler(c, ev)
            /\ ~(IsAnswer(ev) /\ ~(ev = Unpopulated /\ c \in error_mask))
      <4>1. CASE /\ cmds[c] # <<>> /\ k.cmd = "PortDisable" /\ cstate[c] # "Loaded"
                 /\ ilclient_event_handler(c, Unpopulated)
        <5>1. c \in error_mask /\ Unpopulated \in Repertoire(c)
          BY <2>2, <4>1 DEF Asked, Repertoire
        <5> QED
          BY <4>1, <5>1
      <4>2. CASE /\ OutputPort[c] # None
                 /\ \E ev \in {Corrupt, Changed(OutputPort[c])} : ilclient_event_handler(c, ev)
        <5>1. PICK ev \in {Corrupt, Changed(OutputPort[c])} : ilclient_event_handler(c, ev)
          BY <4>2
        <5>2. ev \in Repertoire(c) /\ ~IsAnswer(ev)
          BY <4>2 DEF Repertoire, IsAnswer, EndsByError, Corrupt, Changed
        <5> QED
          BY <5>1, <5>2
      <4> QED
        BY <2>9, <4>1, <4>2 DEF Report
    <3>3. NoAnswer(c)'
      BY <2>2, <3>2, Reported
    <3>4. Ordered(c, cmd, x)'
      BY <1>3, <3>1, <3>3 DEF Ordered
    <3> QED
      BY <1>1, <3>1, <3>4 DEF Asked
  <2> QED
    BY <1>3, <2>5, <2>6, <2>7, <2>8, <2>9 DEF Works, Serve
<1>4. CASE c = d /\ Answered(c, cmd, x)
  <2>1. Report(c) /\ cmds[c] = <<>>
    BY <1>4 DEF Works, Serve, Answered
  <2>2. OutputPort[c] # None /\ (\E ev \in {Corrupt, Changed(OutputPort[c])} :
                                    ilclient_event_handler(c, ev))
        /\ UNCHANGED <<cstate, enabled, cmds, faults>>
    BY <2>1 DEF Report
  <2>3. PICK ev \in {Corrupt, Changed(OutputPort[c])} : ilclient_event_handler(c, ev)
    BY <2>2
  <2>4. ev \in Repertoire(c) /\ ~IsAnswer(ev)
    BY <2>2 DEF Repertoire, IsAnswer, EndsByError, Corrupt, Changed
  <2>5. PICK e : OneAnswer(c, e) /\ Says(c, cmd, x, e)
    BY <1>4 DEF Answered
  <2>6. OneAnswer(c, e)'
    BY <2>3, <2>4, <2>5, Reported
  <2>7. Says(c, cmd, x, e)'
    BY <2>2, <2>5 DEF Says
  <2>8. Answered(c, cmd, x)'
    BY <2>1, <2>2, <2>6, <2>7 DEF Answered
  <2> QED
    BY <1>1, <2>2, <2>8 DEF Asked
<1> QED
  BY <1>2, <1>3, <1>4 DEF Asked

------------------------------------------------------------------------------
(***************************************************************************)
(* A step of a program.                                                    *)
(***************************************************************************)
Fresh(c) == used[c] = 0 /\ in_list[c] = 0

\* What a step within scope w leaves alone.
Outside(w, c) ==
    /\ Untouched(c)
    /\ used'[c] = used[c] /\ in_list'[c] = in_list[c]
    /\ c \in error_mask' <=> c \in error_mask
Frame(w) ==
    /\ UNCHANGED program
    /\ coreInit' <= coreInit /\ coreInit' \in 0..3
    /\ faults' >= faults
    /\ \A c \in Components : c \notin w.comps => Outside(w, c)
    /\ \A c \in Components : Fresh(c) => Fresh(c)'
    /\ \A p \in PortPairs : p \notin w.ports => peer'[p] = peer[p]

LEMMA PlainAll ==
  ASSUME NEW w, IsScope(w), NEW s, Plain(w, s)
  PROVE  Plain(All, s)
<1>1. /\ All.comps = Components /\ All.freed = Components
      /\ w.comps \subseteq Components /\ w.freed \subseteq Components
      /\ All.ports = {p \in PortPairs : p[1] \in Components}
      /\ All.orders = {o \in Components \X Cmds \X (States \cup UNION {Ports[c] : c \in Components}) :
                     Order(o[1], o[2], o[3])}
  BY DEF All, Around, IsScope
<1>2. w.ports \subseteq All.ports
  BY <1>1 DEF IsScope
<1>3. ASSUME NEW c, NEW cmd, NEW x, <<c, cmd, x>> \in w.orders
      PROVE  <<c, cmd, x>> \in All.orders
  <2>1. c \in Components /\ Order(c, cmd, x)
    BY <1>1, <1>3 DEF IsScope
  <2>2. cmd \in Cmds /\ x \in Ports[c] \cup States
    BY <2>1 DEF Order, Cmds, States
  <2>3. Ports[c] \in {Ports[d] : d \in Components}
    BY <2>1
  <2>4. x \in States \cup UNION {Ports[d] : d \in Components}
    BY <2>2, <2>3
  <2> QED
    BY <1>1, <2>1, <2>2, <2>4
<1> HIDE DEF All
<1> QED
  BY <1>1, <1>2, <1>3 DEF Plain

LEMMA FrameStep ==
  ASSUME Typed, Main, NEW w, IsScope(w), Plain(w, Head(todo)) \/ Head(todo).op = "if"
  PROVE  Frame(w)
<1> DEFINE s == Head(todo)
<1>1. /\ TypedLibrary /\ TypedBuffers /\ TypedComponents
      /\ MaxFaults \in Nat /\ coreInit \in 0..3 /\ faults \in 0..MaxFaults
  BY IlClientAssumption DEF Typed, TypedLibrary, TypedComponents
<1>2. HeadOK /\ w.comps \subseteq Components /\ w.freed \subseteq w.comps /\ w.ports \subseteq PortPairs
  BY PlainAll DEF HeadOK, Special, IsScope
<1>3. UNCHANGED program
  BY Dispatch DEF Plain
<1>4. CASE s.op \in {"if", "return", "assert", "configure", "OMX_Deinit", "blocked", "wait buffers",
                     "relate"}
  <2>1. /\ UNCHANGED <<list, error_mask, in_list, cstate, enabled, peer, used, cmds>>
        /\ coreInit' <= coreInit /\ coreInit' \in 0..3 /\ faults' >= faults
    <3>1. CASE s.op \in {"if", "return", "assert", "blocked", "wait buffers", "relate"}
      <4>1. UNCHANGED <<list, error_mask, in_list, coreInit, components>>
        BY <3>1, Dispatch DEF Branch, ReturnValue, CheckResult, Woken, WokenForBuffers, Relate,
           library
      <4> QED
        BY <1>1, <4>1 DEF components
    <3>2. CASE s.op = "configure"
      <4>1. UNCHANGED <<library, cstate, enabled, peer, used, cmds>>
            /\ \E r \in {0, -1} : faults' = faults - r
        BY <3>2, Dispatch DEF Configure
      <4> QED
        BY <1>1, <4>1 DEF library
    <3>3. CASE s.op = "OMX_Deinit"
      <4>1. OMX_Deinit
        BY <3>3, Dispatch
      <4> QED
        BY <1>1, <4>1 DEF OMX_Deinit, components
    <3> QED
      BY <1>4, <3>1, <3>2, <3>3
  <2> QED
    BY <1>3, <2>1 DEF Frame, Outside, Untouched, Fresh
<1>5. CASE s.op = "send"
  <2>1. SendCommand /\ s.c \in w.comps /\ s.c \in Components
    BY <1>2, <1>5, Dispatch DEF Plain
  <2>2. /\ \A c \in Components : c # s.c => cmds'[c] = cmds[c]
        /\ \A c \in Components : c # s.c => \A p : <<c, p>> \in enabled' <=> <<c, p>> \in enabled
        /\ UNCHANGED <<library, cstate, peer, used, faults>>
    BY <1>1, <2>1 DEF SendCommand, TypedComponents
  <2> QED
    BY <1>1, <1>3, <2>1, <2>2 DEF Frame, Outside, Untouched, Fresh, library
<1>6. CASE s.op \in {"await", "expect", "remove", "return events"}
  <2>1. /\ s.c \in w.comps
        /\ UNCHANGED <<error_mask, in_list, coreInit, components>>
        /\ \A c \in Components : c # s.c => list'[c] = list[c]
    <3>1. CASE s.op \in {"await", "expect", "remove"}
      <4>1. /\ UNCHANGED list \/ \E i \in 1..Len(list[s.c]) : Unlink(s.c, i)
            /\ UNCHANGED <<error_mask, in_list, coreInit, components>>
        BY <1>2, <3>1, SearchStep
      <4>2. s.c \in w.comps
        BY <3>1 DEF Plain
      <4> QED
        BY <1>1, <1>2, <4>1, <4>2 DEF Unlink, TypedLibrary
    <3>2. CASE s.op = "return events"
      <4>1. ilclient_return_events /\ s.c \in w.comps
        BY <3>2, Dispatch DEF Plain
      <4> QED
        BY <1>1, <4>1 DEF ilclient_return_events, TypedLibrary
    <3> QED
      BY <1>6, <3>1, <3>2
  <2> QED
    BY <1>1, <1>3, <2>1 DEF Frame, Outside, Untouched, Fresh, components
<1>7. CASE s.op = "mask"
  <2>1. MaskErrors /\ s.c \subseteq w.comps
    BY <1>7, Dispatch DEF Plain
  <2>2. \A c \in Components : c \notin w.comps => (c \in error_mask' <=> c \in error_mask)
    BY <2>1 DEF MaskErrors
  <2>3. UNCHANGED <<list, in_list, coreInit, components>>
    BY <2>1 DEF MaskErrors
  <2> QED
    BY <1>1, <1>3, <2>2, <2>3 DEF Frame, Outside, Untouched, Fresh, components
<1>8. CASE s.op = "free"
  <2>1. s.c \in w.comps /\ s.c \in Components
    BY <1>2, <1>8 DEF Plain
  <2>2. /\ used' = [used EXCEPT ![s.c] = @ - in_list[s.c]]
        /\ in_list' = [in_list EXCEPT ![s.c] = 0]
        /\ UNCHANGED <<list, error_mask, coreInit, cstate, enabled, peer, cmds, faults>>
    BY <1>8, Dispatch DEF FreeBuffers
  <2>3. ASSUME NEW c \in Components
        PROVE  /\ c # s.c => used'[c] = used[c] /\ in_list'[c] = in_list[c]
               /\ Fresh(c) => Fresh(c)'
    BY <1>1, <2>1, <2>2 DEF Fresh, TypedBuffers
  <2> QED
    BY <1>1, <1>3, <2>1, <2>2, <2>3 DEF Frame, Outside, Untouched
<1>9. CASE s.op \in {"OMX_GetHandle", "OMX_FreeHandle", "disable all"}
  <2>1. s.c \in w.comps /\ s.c \in Components
    BY <1>2, <1>9 DEF Plain
  <2>2. /\ UNCHANGED <<library, peer, used>> /\ faults' >= faults
        /\ \A c \in Components : c # s.c => cstate'[c] = cstate[c] /\ cmds'[c] = cmds[c]
        /\ \A c \in Components : c # s.c => \A p : <<c, p>> \in enabled' <=> <<c, p>> \in enabled
    <3>1. CASE s.op = "OMX_GetHandle"
      <4>1. OMX_GetHandle
        BY <3>1, Dispatch
      <4>2. cstate' = cstate \/ cstate' = [cstate EXCEPT ![s.c] = "Loaded"]
        BY <4>1 DEF OMX_GetHandle
      <4>3. enabled' = enabled \/ enabled' = enabled \cup {s.c} \X Ports[s.c]
        BY <4>1 DEF OMX_GetHandle
      <4>4. UNCHANGED <<library, peer, used, cmds>> /\ (faults' = faults \/ faults' = faults + 1)
        BY <4>1 DEF OMX_GetHandle
      <4>5. \A c \in Components : c # s.c => cstate'[c] = cstate[c]
        BY <1>1, <4>2 DEF TypedComponents
      <4>6. \A c \in Components : c # s.c => \A p : <<c, p>> \in enabled' <=> <<c, p>> \in enabled
        <5> HIDE DEF s
        <5> QED
          BY <4>3
      <4> QED
        BY <1>1, <4>4, <4>5, <4>6
    <3>2. CASE s.op = "OMX_FreeHandle"
      <4>1. OMX_FreeHandle
        BY <3>2, Dispatch
      <4>2. cstate' = cstate \/ cstate' = [cstate EXCEPT ![s.c] = "none"]
        BY <4>1 DEF OMX_FreeHandle
      <4>3. enabled' = enabled \/ enabled' = enabled \ ({s.c} \X Ports[s.c])
        BY <4>1 DEF OMX_FreeHandle
      <4>4. cmds' = cmds \/ cmds' = [cmds EXCEPT ![s.c] = <<>>]
        BY <4>1 DEF OMX_FreeHandle
      <4>5. UNCHANGED <<library, peer, used, faults>>
        BY <4>1 DEF OMX_FreeHandle
      <4>6. \A c \in Components : c # s.c => cstate'[c] = cstate[c] /\ cmds'[c] = cmds[c]
        BY <1>1, <4>2, <4>4 DEF TypedComponents
      <4>7. \A c \in Components : c # s.c => \A p : <<c, p>> \in enabled' <=> <<c, p>> \in enabled
        <5> HIDE DEF s
        <5> QED
          BY <4>3
      <4> QED
        BY <1>1, <4>5, <4>6, <4>7
    <3>3. CASE s.op = "disable all"
      <4>1. UNCHANGED <<library, components>>
        BY <3>3, Dispatch DEF DisableAll
      <4> QED
        BY <1>1, <4>1 DEF components
    <3> QED
      BY <1>9, <3>1, <3>2, <3>3
  <2> QED
    BY <1>1, <1>3, <2>1, <2>2 DEF Frame, Outside, Untouched, Fresh, library
<1>10. CASE s.op = "OMX_SetupTunnel"
  <2>1. OMX_SetupTunnel /\ s.a \in w.ports /\ s.x \in w.ports \cup {NoPort}
    BY <1>10, Dispatch DEF Plain
  <2>2. UNCHANGED <<library, cstate, enabled, used, cmds>> /\ (faults' = faults \/ faults' = faults + 1)
    BY <2>1 DEF OMX_SetupTunnel
  <2>3. \/ peer' = peer
        \/ peer' = [p \in PortPairs |-> IF p = s.a THEN s.x ELSE IF p = s.x THEN s.a ELSE peer[p]]
    BY <2>1 DEF OMX_SetupTunnel
  <2>4. \A p \in PortPairs : p \notin w.ports => peer'[p] = peer[p]
    <3> HIDE DEF s
    <3>1. NoPort \notin PortPairs
      BY IlClientAssumption DEF NoPort, PortPairs
    <3> QED
      BY <2>1, <2>3, <3>1
  <2> QED
    BY <1>1, <1>3, <2>2, <2>4 DEF Frame, Outside, Untouched, Fresh, library
<1> QED
  BY <1>4, <1>5, <1>6, <1>7, <1>8, <1>9, <1>10 DEF Plain

LEMMA Altered ==
  ASSUME NEW op, NEW c, NEW a, NEW x, NEW other
  PROVE  \A o : [[op |-> op, c |-> c, a |-> a, x |-> x, other |-> other] EXCEPT !.op = o]
                      = [op |-> o, c |-> c, a |-> a, x |-> x, other |-> other]
OBVIOUS

LEMMA AlteredLoop ==
  ASSUME NEW s, NEW op, NEW c, NEW a, NEW x, NEW y, s = Step(op, c, a, x)
  PROVE  [s EXCEPT !.x = y] = Step(op, c, a, y)
BY DEF Step

\* A program is replaced by a shorter one, or by the body of a loop, in the same scope.
Continues(w, k) == status' = status /\ \E y : Prog(w, y) /\ todo' = y \o k
Aborts == todo' = <<>> /\ status' = "aborted" /\ ret # 0

LEMMA ProgStep ==
  ASSUME Typed, Main, NEW w, IsScope(w), NEW x, Prog(w, x), x # <<>>,
         NEW k, IsSeq(k), todo = x \o k
  PROVE  Frame(w) /\ HeadOK /\ (Continues(w, k) \/ Aborts)
<1> DEFINE s == Head(x)
           r == Tail(x)
<1>1. IsSeq(x)
  BY ProgSeq
<1>2. /\ Head(todo) = s /\ Tail(todo) = r \o k /\ IsSeq(r) /\ Prog(w, r)
      /\ Plain(w, s) \/ (s.op = "if" /\ Prog(w, s.yes) /\ Prog(w, s.no))
  BY <1>1, Split, ProgHead
<1>3. Frame(w) /\ HeadOK
  BY <1>2, FrameStep, PlainAll DEF HeadOK, Special
<1> HIDE DEF s, r
<1>4. ASSUME NEW y, Prog(w, y), todo' = y \o (r \o k), status' = status
      PROVE  Continues(w, k)
  <2>1. y \o (r \o k) = (y \o r) \o k
    <3>1. IsSeq(y) /\ IsSeq(r) /\ IsSeq(k)
      BY <1>2, <1>4, ProgSeq
    <3> QED
      BY <3>1, Assoc
  <2>2. Prog(w, y \o r)
    BY <1>2, <1>4, ProgJoin
  <2> QED
    BY <1>4, <2>1, <2>2 DEF Continues
<1>5. ASSUME todo' = r \o k, status' = status
      PROVE  Continues(w, k)
  BY <1>2, <1>5 DEF Continues
<1>6. w.freed \subseteq w.comps
  BY DEF IsScope
<1>7. CASE s.op = "if"
  <2>1. Branch
    BY <1>2, <1>7, Dispatch
  <2>2. /\ todo' = s.yes \o (r \o k) \/ todo' = s.no \o (r \o k)
        /\ status' = status
    BY <1>2, <2>1 DEF Branch
  <2>3. Prog(w, s.yes) /\ Prog(w, s.no)
    BY <1>2, <1>7 DEF Plain
  <2> QED
    BY <1>3, <1>4, <2>2, <2>3
<1>8. CASE s.op = "disable all"
  <2>1. /\ DisableAll /\ s.c \in w.comps /\ s.c \in w.freed /\ s = Step("disable all", s.c, s.a, s.x)
        /\ \A p \in s.x : <<s.c, "PortDisable", p>> \in w.orders
    BY <1>2, <1>6, <1>8, Dispatch DEF Plain
  <2> DEFINE p == CHOOSE p \in s.x : TRUE
             t == [s EXCEPT !.x = s.x \ {p}]
  <2>2. /\ todo' = (IF s.x = {} THEN <<>> ELSE DisablePort(s.c, p) \o <<t>>) \o (r \o k)
        /\ status' = status
    <3> DEFINE A(h) == IF h.x = {} THEN <<>>
                       ELSE DisablePort(h.c, CHOOSE q \in h.x : TRUE)
                            \o <<[h EXCEPT !.x = h.x \ {CHOOSE q \in h.x : TRUE}]>>
    <3>1. todo' = A(Head(todo)) \o Tail(todo) /\ status' = status
      BY <2>1 DEF DisableAll
    <3> HIDE DEF A
    <3>2. todo' = A(s) \o (r \o k)
      BY <1>2, <3>1
    <3> QED
      BY <3>1, <3>2 DEF A
  <2>3. CASE s.x = {}
    BY <1>3, <1>4, <2>2, <2>3, ProgNone
  <2>4. CASE s.x # {}
    <3>1. p \in s.x
      BY <2>4
    <3>2. t = Step("disable all", s.c, s.a, s.x \ {p})
      <4> DEFINE y == s.x \ {p}
                 c == s.c
                 a == s.a
                 z == s.x
                 op == "disable all"
      <4>2. s = Step(op, c, a, z)
        BY <2>1
      <4> HIDE DEF c, a, z, op
      <4> HIDE DEF y
      <4>1. [s EXCEPT !.x = y] = Step(op, c, a, y)
        <5> HIDE DEF p, t
        <5> QED
          BY <4>2, AlteredLoop
      <4> QED
        BY <4>1 DEF y, c, a, op
    <3> HIDE DEF p, t
    <3>3. Plain(w, t)
      BY <2>1, <3>2 DEF Plain, Step
    <3>4. Prog(w, DisablePort(s.c, p) \o <<t>>)
      BY <2>1, <3>1, <3>3, ProgDisablePort, ProgOne, ProgJoin
    <3> QED
      BY <1>3, <1>4, <2>2, <2>4, <3>4
  <2> QED
    BY <2>3, <2>4
<1>9. CASE s.op = "assert"
  <2>1. CheckResult
    BY <1>2, <1>9, Dispatch
  <2>2. CASE ret = 0
    BY <1>2, <1>3, <1>5, <2>1, <2>2 DEF CheckResult
  <2>3. CASE ret # 0
    BY <1>3, <2>1, <2>3 DEF CheckResult, Aborts
  <2> QED
    BY <2>2, <2>3
<1>10. CASE s.op \in {"await", "blocked"}
  <2>1. /\ s.c \in w.comps
        /\ s = [op |-> s.op, c |-> s.c, a |-> s.a, x |-> s.x, other |-> s.other]
    BY <1>2, <1>10 DEF Plain
  <2> DEFINE t(op) == [op |-> op, c |-> s.c, a |-> s.a, x |-> s.x, other |-> s.other]
  <2>2. \A op \in {"await", "blocked"} : [s EXCEPT !.op = op] = t(op) /\ Plain(w, t(op))
    <3> TAKE op \in {"await", "blocked"}
    <3>1. [s EXCEPT !.op = op] = t(op)
      <4>1. \A o : [[op |-> s.op, c |-> s.c, a |-> s.a, x |-> s.x, other |-> s.other] EXCEPT !.op = o]
                       = [op |-> o, c |-> s.c, a |-> s.a, x |-> s.x, other |-> s.other]
        BY Altered
      <4> QED
        BY <2>1, <4>1
    <3>2. Plain(w, t(op))
      BY <2>1 DEF Plain
    <3> QED
      BY <3>1, <3>2
  <2>3. /\ todo' = r \o k \/ \E op \in {"await", "blocked"} : todo' = <<[s EXCEPT !.op = op]>> \o (r \o k)
        /\ status' = status
    <3>1. CASE s.op = "await"
      BY <1>2, <3>1, Dispatch DEF ScanForCommand, Returns, Becomes
    <3>2. CASE s.op = "blocked"
      BY <1>2, <3>2, Dispatch DEF Woken, Becomes
    <3> QED
      BY <1>10, <3>1, <3>2
  <2>4. CASE todo' = r \o k
    BY <1>3, <1>5, <2>3, <2>4
  <2>5. CASE \E op \in {"await", "blocked"} : todo' = <<[s EXCEPT !.op = op]>> \o (r \o k)
    <3>1. PICK op \in {"await", "blocked"} : todo' = <<[s EXCEPT !.op = op]>> \o (r \o k)
      BY <2>5
    <3>2. Prog(w, <<[s EXCEPT !.op = op]>>)
      BY <2>2, <3>1, ProgOne
    <3> QED
      BY <1>3, <1>4, <2>3, <3>1, <3>2
  <2> QED
    BY <2>3, <2>4, <2>5
<1>11. CASE s.op = "free"
  <2>1. FreeBuffers /\ s.c \in w.freed /\ s.c \in w.comps
    BY <1>2, <1>6, <1>11, Dispatch DEF Plain
  <2> DEFINE left == s.a - in_list[s.c]
  <2>2. /\ todo' = (IF left = 0 THEN WaitForCommand(s.c, "PortDisable", s.x) \o Demand
                    ELSE <<Step("wait buffers", s.c, left, s.x)>>) \o (r \o k)
        /\ status' = status
    BY <1>2, <2>1 DEF FreeBuffers
  <2> HIDE DEF left
  <2>3. /\ Prog(w, WaitForCommand(s.c, "PortDisable", s.x) \o Demand)
        /\ Prog(w, <<Step("wait buffers", s.c, left, s.x)>>)
    BY <2>1, ProgWait, ProgDemand, ProgJoin, ProgFree
  <2> QED
    BY <1>3, <1>4, <2>2, <2>3
<1>12. CASE s.op = "wait buffers"
  <2>1. WokenForBuffers /\ s.c \in w.freed /\ s.c \in w.comps
    BY <1>2, <1>6, <1>12, Dispatch DEF Plain
  <2> DEFINE again == <<Step("free", s.c, s.a, s.x)>>
             taken == RemoveEvent(s.c, Done("PortDisable", s.x)) \o IfOk(<<>>, again)
             disabled == IF "PortDisable" \notin flags[s.c] \cap {"PortDisable", "Error"}
                         THEN again ELSE taken
             failed == RemoveError(s.c, "ending error") \o IfOk(<<>>, disabled)
  <2>2. todo' = disabled \o (r \o k) \/ todo' = failed \o (r \o k)
    BY <1>2, <2>1 DEF WokenForBuffers
  <2>3. status' = status
    BY <2>1 DEF WokenForBuffers
  <2>4. Prog(w, again) /\ Prog(w, <<>>)
    BY <2>1, ProgFree, ProgNone
  <2>5. Prog(w, taken)
    BY <2>1, <2>4, ProgRemove, ProgIf, ProgJoin DEF IfOk
  <2>6. Prog(w, disabled)
    BY <2>4, <2>5
  <2> HIDE DEF disabled
  <2>7. Prog(w, failed)
    BY <2>1, <2>4, <2>6, ProgRemove, ProgIf, ProgJoin DEF IfOk
  <2> QED
    BY <1>3, <1>4, <2>2, <2>3, <2>6, <2>7
<1>13. CASE s.op \in {"return", "configure", "OMX_Deinit", "send", "expect", "remove",
                      "OMX_FreeHandle", "return events", "mask", "relate", "OMX_SetupTunnel",
                      "OMX_GetHandle"}
  <2>1. todo' = r \o k /\ status' = status
    BY <1>2, <1>13, Dispatch
       DEF ReturnValue, Configure, OMX_Deinit, SendCommand, ilclient_wait_for_event,
           ilclient_remove_event, OMX_FreeHandle, ilclient_return_events, MaskErrors, Relate,
           OMX_SetupTunnel, OMX_GetHandle, Returns
  <2> QED
    BY <1>3, <1>5, <2>1
<1> QED
  BY <1>2, <1>7, <1>8, <1>9, <1>10, <1>11, <1>12, <1>13 DEF Plain

------------------------------------------------------------------------------
(***************************************************************************)
(* Where the program is: i of the calls of main() have begun, and x is     *)
(* left of the last one.                                                   *)
(***************************************************************************)
Calls    == mgmt_sys_init \o mgmt_sys_open
Later(i) == SubSeq(Calls, i + 1, 16)

LEMMA CallsAre ==
  /\ Len(Parts) = 7 /\ DOMAIN Parts = 1..7 /\ Len(Threads) = 9 /\ DOMAIN Threads = 1..9
  /\ IsSeq(Calls) /\ Len(Calls) = 16
  /\ \A i \in 1..7 : Calls[i] = Step("call", None, Parts[i], None) /\ Parts[i] \in ToSet(Parts)
  /\ \A i \in 8..16 : /\ Calls[i] = Step("open", None, Threads[i - 7], None)
                      /\ Threads[i - 7] \in ToSet(Threads)
<1>1. Len(Parts) = 7 /\ DOMAIN Parts = 1..7 /\ Len(Threads) = 9 /\ DOMAIN Threads = 1..9
  BY DEF Parts, Threads
<1>2. /\ \A i \in 1..7 : Parts[i] \in ToSet(Parts)
      /\ \A i \in 1..9 : Threads[i] \in ToSet(Threads)
  BY <1>1 DEF ToSet
<1> DEFINE S == {mgmt_sys_init[i] : i \in 1..7} \cup {mgmt_sys_open[i] : i \in 1..9}
<1>3. /\ \A i \in 1..7 : mgmt_sys_init[i] = Step("call", None, Parts[i], None)
      /\ \A i \in 1..9 : mgmt_sys_open[i] = Step("open", None, Threads[i], None)
      /\ mgmt_sys_init = [i \in 1..7 |-> mgmt_sys_init[i]]
      /\ mgmt_sys_open = [i \in 1..9 |-> mgmt_sys_open[i]]
  BY <1>1 DEF mgmt_sys_init, mgmt_sys_open
<1>4. mgmt_sys_init \in Seq(S) /\ mgmt_sys_open \in Seq(S)
  <2>1. /\ \A i \in 1..7 : mgmt_sys_init[i] \in S
        /\ \A i \in 1..9 : mgmt_sys_open[i] \in S
    OBVIOUS
  <2> HIDE DEF S
  <2> QED
    BY <1>3, <2>1, IsASeq
<1> HIDE DEF S
<1>5. Len(mgmt_sys_init) = 7 /\ Len(mgmt_sys_open) = 9
  <2>1. DOMAIN mgmt_sys_init = 1..7 /\ DOMAIN mgmt_sys_open = 1..9
    BY <1>3
  <2> QED
    BY <1>4, <2>1, LenProperties
<1>6. /\ Calls \in Seq(S) /\ Len(Calls) = 16
      /\ \A i \in 1..7 : Calls[i] = mgmt_sys_init[i]
      /\ \A i \in 1..9 : Calls[7 + i] = mgmt_sys_open[i]
  <2> DEFINE a == mgmt_sys_init
             b == mgmt_sys_open
  <2>1. a \in Seq(S) /\ b \in Seq(S) /\ Len(a) = 7 /\ Len(b) = 9 /\ Calls = a \o b
    BY <1>4, <1>5 DEF Calls
  <2> HIDE DEF a, b
  <2>2. /\ Calls \in Seq(S) /\ Len(Calls) = Len(a) + Len(b)
        /\ \A i \in 1..(Len(a) + Len(b)) : Calls[i] = IF i <= Len(a) THEN a[i] ELSE b[i - Len(a)]
    BY <2>1, ConcatProperties
  <2>3. /\ \A i \in 1..7 : i \in 1..(Len(a) + Len(b)) /\ i <= Len(a)
        /\ \A i \in 1..9 : /\ 7 + i \in 1..(Len(a) + Len(b)) /\ ~(7 + i <= Len(a))
                           /\ (7 + i) - Len(a) = i
    BY <2>1
  <2>4. /\ \A i \in 1..7 : Calls[i] = a[i]
        /\ \A i \in 1..9 : Calls[7 + i] = b[i]
    BY <2>2, <2>3
  <2>5. Calls \in Seq(S) /\ Len(Calls) = 16
    BY <2>1, <2>2
  <2>6. \A i \in 1..7 : Calls[i] = mgmt_sys_init[i]
    BY <2>4 DEF a
  <2>7. \A i \in 1..9 : Calls[7 + i] = mgmt_sys_open[i]
    BY <2>4 DEF b
  <2> QED
    BY <2>5, <2>6, <2>7
<1>7. ASSUME NEW i \in 8..16
      PROVE  /\ Calls[i] = Step("open", None, Threads[i - 7], None)
             /\ Threads[i - 7] \in ToSet(Threads)
  <2>1. i - 7 \in 1..9 /\ i = 7 + (i - 7)
    OBVIOUS
  <2> QED
    BY <1>2, <1>3, <1>6, <2>1
<1> QED
  BY <1>1, <1>2, <1>3, <1>6, <1>7 DEF IsSeq

LEMMA LaterCalls ==
  ASSUME NEW i \in 0..16
  PROVE  /\ IsSeq(Later(i)) /\ Later(0) = Calls /\ Later(16) = <<>>
         /\ i < 16 => /\ Later(i) # <<>> /\ i + 1 \in 0..16
                      /\ Head(Later(i)) = Calls[i + 1] /\ Tail(Later(i)) = Later(i + 1)
<1>1. PICK S : Calls \in Seq(S)
  BY CallsAre DEF IsSeq
<1>2. Len(Calls) = 16
  BY CallsAre
<1>3. \A j \in 0..16 : /\ Later(j) \in Seq(S) /\ Len(Later(j)) = 16 - j
                       /\ \A n \in 1..(16 - j) : Later(j)[n] = Calls[j + n]
  <2> TAKE j \in 0..16
  <2>1. \A n \in (j + 1)..16 : Calls[n] \in S
    <3>1. \A n \in (j + 1)..16 : n \in 1..Len(Calls)
      BY <1>2
    <3> QED
      BY <1>1, <3>1, ElementOfSeq
  <2> DEFINE m == j + 1
             z == 16
  <2>2. m \in Int /\ z \in Int /\ (m <= z \/ z - m + 1 = 0) /\ z - m + 1 = 16 - j
    OBVIOUS
  <2> HIDE DEF m, z
  <2>3. /\ SubSeq(Calls, m, z) \in Seq(S)
        /\ Len(SubSeq(Calls, m, z)) = IF m <= z THEN z - m + 1 ELSE 0
        /\ \A n \in 1..(z - m + 1) : SubSeq(Calls, m, z)[n] = Calls[m + n - 1]
    <3>1. \A n \in m..z : Calls[n] \in S
      BY <2>1 DEF m, z
    <3> QED
      BY <2>2, <3>1, SubSeqProperties
  <2>4. \A n \in 1..(16 - j) : m + n - 1 = j + n
    BY DEF m
  <2>5. Later(j) = SubSeq(Calls, m, z)
    BY DEF Later, m, z
  <2> QED
    BY <2>2, <2>3, <2>4, <2>5
<1>4. Later(16) = <<>>
  BY SubSeqEmpty DEF Later
<1>5. Later(0) = Calls
  <2> DEFINE s == Later(0)
             t == Calls
  <2>1. s \in Seq(S) /\ t \in Seq(S) /\ Len(s) = Len(t) /\ \A n \in 1..Len(s) : s[n] = t[n]
    <3>1. Later(0) \in Seq(S) /\ Len(Later(0)) = 16 /\ \A n \in 1..16 : Later(0)[n] = Calls[n]
      <4> DEFINE z == 0
      <4>1. z \in 0..16 /\ 16 - z = 16 /\ \A n \in 1..16 : z + n = n
        OBVIOUS
      <4> HIDE DEF z
      <4>2. Later(z) \in Seq(S) /\ Len(Later(z)) = 16 - z /\ \A n \in 1..(16 - z) : Later(z)[n] = Calls[z + n]
        BY <1>3, <4>1
      <4>3. Later(z) \in Seq(S) /\ Len(Later(z)) = 16 /\ \A n \in 1..16 : Later(z)[n] = Calls[n]
        BY <4>1, <4>2, SMTT(30)
      <4> QED
        BY <4>3 DEF z
    <3> QED
      BY <1>1, <1>2, <3>1
  <2> HIDE DEF s, t
  <2>2. s = t
    BY <2>1, SeqEqual
  <2> QED
    BY <2>2 DEF s, t
<1>6. ASSUME i < 16
      PROVE  /\ Later(i) # <<>> /\ i + 1 \in 0..16
             /\ Head(Later(i)) = Calls[i + 1] /\ Tail(Later(i)) = Later(i + 1)
  <2>0. /\ Later(i) \in Seq(S) /\ Len(Later(i)) = 16 - i
        /\ \A n \in 1..(16 - i) : Later(i)[n] = Calls[i + n]
    BY <1>3
  <2>1. Later(i) \in Seq(S) /\ Later(i) # <<>> /\ i + 1 \in 0..16
    BY <2>0, <1>6, EmptySeq
  <2>2. Head(Later(i)) = Calls[i + 1]
    BY <2>0, <1>6, <2>1, HeadTail
  <2> DEFINE s == Tail(Later(i))
             t == Later(i + 1)
  <2>3. s \in Seq(S) /\ t \in Seq(S) /\ Len(s) = Len(t) /\ \A n \in 1..Len(s) : s[n] = t[n]
    <3>1. /\ t \in Seq(S) /\ Len(t) = 16 - (i + 1)
          /\ \A n \in 1..(16 - (i + 1)) : t[n] = Calls[(i + 1) + n]
      BY <1>3, <2>1
    <3>2. s \in Seq(S) /\ Len(s) = 15 - i /\ \A n \in 1..(15 - i) : s[n] = Later(i)[n + 1]
      BY <2>0, <2>1, HeadTail
    <3>3. \A n \in 1..(15 - i) : s[n] = Calls[(i + 1) + n]
      <4>1. \A n \in 1..(15 - i) : n + 1 \in 1..(16 - i) /\ i + (n + 1) = (i + 1) + n
        OBVIOUS
      <4> QED
        BY <2>0, <3>2, <4>1
    <3>4. 16 - (i + 1) = 15 - i
      OBVIOUS
    <3> QED
      BY <3>1, <3>2, <3>3, <3>4
  <2> HIDE DEF s, t
  <2>4. s = t
    BY <2>3, SeqEqual
  <2> QED
    BY <2>1, <2>2, <2>4 DEF s, t
<1> QED
  BY <1>3, <1>4, <1>5, <1>6 DEF IsSeq

------------------------------------------------------------------------------
(***************************************************************************)
(* Every step of the program is known.                                     *)
(***************************************************************************)
LEMMA AllOrders ==
  ASSUME NEW c \in Components, NEW cmd, NEW x, Order(c, cmd, x)
  PROVE  <<c, cmd, x>> \in All.orders
<1>1. cmd \in Cmds /\ x \in Ports[c] \cup States
  BY DEF Order, Cmds, States
<1>2. Ports[c] \in {Ports[d] : d \in Components}
  OBVIOUS
<1>3. x \in States \cup UNION {Ports[d] : d \in Components}
  BY <1>1, <1>2
<1> QED
  BY <1>1, <1>3 DEF All, Around

LEMMA ProgSetting ==
  ASSUME NEW w
  PROVE  Prog(w, Setting)
<1>1. Plain(w, Step("configure", None, None, None))
  BY DEF Plain, Step
<1> QED
  BY <1>1, ProgOne, ProgDemand, ProgJoin DEF Setting

LEMMA ProgCreate ==
  ASSUME NEW c \in Components
  PROVE  Prog(All, Create(c))
<1> DEFINE a == Step("OMX_GetHandle", c, None, None)
           b == Step("disable all", c, None, Ports[c])
<1>1. All.comps = Components /\ All.freed = Components
  BY DEF All, Around
<1>2. \A p \in Ports[c] : <<c, "PortDisable", p>> \in All.orders
  BY AllOrders DEF Order
<1>3. Plain(All, a) /\ Plain(All, b)
  BY <1>1, <1>2 DEF Plain, Step
<1> HIDE DEF a, b
<1>4. Prog(All, <<b>> \o Return(0)) /\ Prog(All, <<>>)
  BY <1>3, ProgOne, ProgReturn, ProgNone, ProgJoin DEF Rets
<1>5. Prog(All, IfOk(<<b>> \o Return(0), <<>>))
  BY <1>4, ProgIf DEF IfOk
<1>6. Prog(All, CreateComponent(c))
  BY <1>3, <1>5, ProgOne, ProgJoin DEF CreateComponent, a, b
<1> QED
  BY <1>6, ProgDemand, ProgJoin DEF Create

LEMMA ProgSetupTunnel ==
  ASSUME NEW w, NEW t, HasTunnel(w, t), <<t[1][1], "StateSet", "Idle">> \in w.orders
  PROVE  Prog(w, SetupTunnel(t))
<1>1. t[1][1] \in w.comps
  BY DEF HasTunnel
<1>2. Prog(w, ChangeState(t[1][1], "Idle")) /\ Prog(w, Return(-2)) /\ Prog(w, Connecting(t))
  BY <1>1, ProgChangeState, ProgReturn, ProgConnecting DEF Rets
<1>3. Prog(w, ChangeState(t[1][1], "Idle") \o IfOk(Connecting(t), Return(-2)))
  BY <1>2, ProgIf, ProgJoin DEF IfOk
<1> QED
  BY <1>2, <1>3, ProgIf, SetupParts

LEMMA AllTunnel ==
  ASSUME NEW c \in Components, NEW d \in Components, NEW p \in Ports[c], NEW q \in Ports[d]
  PROVE  /\ HasTunnel(All, <<<<c, p>>, <<d, q>>>>)
         /\ Prog(All, SetupTunnel(<<<<c, p>>, <<d, q>>>>))
<1> DEFINE t == <<<<c, p>>, <<d, q>>>>
<1>1. All.comps = Components /\ All.ports = PortPairs
  BY DEF All, Around, PortPairs
<1>2. <<c, p>> \in PortPairs /\ <<d, q>> \in PortPairs
  BY DEF PortPairs
<1>3. /\ \A x \in Ports[c] : <<c, "PortEnable", x>> \in All.orders /\ <<c, "PortDisable", x>> \in All.orders
      /\ \A x \in Ports[d] : <<d, "PortEnable", x>> \in All.orders /\ <<d, "PortDisable", x>> \in All.orders
      /\ <<c, "StateSet", "Idle">> \in All.orders /\ <<d, "StateSet", "Idle">> \in All.orders
  BY AllOrders DEF Order
<1>4. t[1] = <<c, p>> /\ t[2] = <<d, q>> /\ t[1][1] = c /\ t[1][2] = p /\ t[2][1] = d /\ t[2][2] = q
  OBVIOUS
<1> HIDE DEF t
<1>5. HasTunnel(All, t)
  BY <1>1, <1>2, <1>3, <1>4 DEF HasTunnel
<1>6. Prog(All, SetupTunnel(t))
  BY <1>3, <1>4, <1>5, ProgSetupTunnel
<1> QED
  BY <1>5, <1>6 DEF t

\* The components of the sinks and their ports.
SinkOf(i) == IF i = 5 THEN "video_decode" ELSE audio_render(i - 5)

LEMMA SinkParts ==
  /\ \A i \in 5..7 : SinkOf(i) \in Components /\ InputPort[SinkOf(i)] \in Ports[SinkOf(i)]
  /\ \A i, j \in 5..7 : SinkOf(i) = SinkOf(j) => i = j
  /\ SinkOf(5) = "video_decode" /\ SinkOf(6) = audio_render(1) /\ SinkOf(7) = audio_render(2)
  /\ InputPort["video_decode"] = "130"
  /\ {"video_decode", "video_render", "video_clock", "video_scheduler"} \subseteq Components
  /\ {"130", "131"} \subseteq Ports["video_decode"]
  /\ "80" \in Ports["video_clock"] /\ {"10", "12"} \subseteq Ports["video_scheduler"]
  /\ \A i \in AudioSinks :
        /\ {audio_render(i), audio_clock(i)} \subseteq Components
        /\ {"100", "101"} \subseteq Ports[audio_render(i)] /\ InputPort[audio_render(i)] = "100"
        /\ "80" \in Ports[audio_clock(i)]
<1>1. /\ {"video_decode", "video_render", "video_clock", "video_scheduler"} \subseteq Components
      /\ {"130", "131"} \subseteq Ports["video_decode"] /\ InputPort["video_decode"] = "130"
      /\ "80" \in Ports["video_clock"] /\ {"10", "12"} \subseteq Ports["video_scheduler"]
      /\ \A i \in AudioSinks :
          /\ {audio_render(i), audio_clock(i)} \subseteq Components
          /\ {"100", "101"} \subseteq Ports[audio_render(i)] /\ InputPort[audio_render(i)] = "100"
          /\ "80" \in Ports[audio_clock(i)]
  BY SinkComponents
<1>2. SinkOf(5) = "video_decode" /\ SinkOf(6) = audio_render(1) /\ SinkOf(7) = audio_render(2)
  BY DEF SinkOf
<1>3. audio_render(1) = "audio_render" /\ audio_render(2) = "audio_render again" /\ AudioSinks = {1, 2}
  BY DEF audio_render, AudioSinks
<1>4. \A i \in 5..7 : i = 5 \/ i = 6 \/ i = 7
  OBVIOUS
<1>5. \A i \in 5..7 : SinkOf(i) \in Components /\ InputPort[SinkOf(i)] \in Ports[SinkOf(i)]
  BY <1>1, <1>2, <1>3, <1>4
<1>6. \A i, j \in 5..7 : SinkOf(i) = SinkOf(j) => i = j
  BY <1>2, <1>3, <1>4
<1> QED
  BY <1>1, <1>2, <1>5, <1>6

\* The parts of the program that fills a port with buffers.
EnableFailure(c, p) == DisablePortBuffers(c, p) \o RemoveError(c, "ending error") \o Return(-1)
EnableWait(c, p) ==
    IfOk(WaitForCommand(c, "PortEnable", p) \o IfOk(<<>>, EnableFailure(c, p)), EnableFailure(c, p))
UseAll(c, p) == <<Step("use", c, None, p)>> \o EnableWait(c, p)
EnableIdle(c, p) == If("idle", c, Send(c, "PortEnable", p) \o UseAll(c, p), Return(-1))

LEMMA ProgEnableWait ==
  ASSUME NEW w, NEW c \in w.comps, c \in w.freed, NEW p, <<c, "PortDisable", p>> \in w.orders
  PROVE  Prog(w, EnableFailure(c, p)) /\ Prog(w, EnableWait(c, p))
<1>1. Prog(w, EnableFailure(c, p))
  BY ProgDisablePortBuffers, ProgRemove, ProgReturn, ProgJoin DEF EnableFailure, Rets
<1>2. Prog(w, WaitForCommand(c, "PortEnable", p) \o IfOk(<<>>, EnableFailure(c, p)))
  BY <1>1, ProgNone, ProgIf, ProgWait, ProgJoin DEF IfOk
<1> QED
  BY <1>1, <1>2, ProgIf DEF EnableWait, IfOk

LEMMA BufferParts ==
  ASSUME NEW c, NEW p
  PROVE  EnablePortBuffers(c, p) = If("enabled", <<c, p>>, Return(-1), EnableIdle(c, p))
<1> DEFINE u == Step("use", c, None, p)
<1>1. IsSeq(Send(c, "PortEnable", p)) /\ IsSeq(<<u>>) /\ IsSeq(EnableWait(c, p))
  BY OneSeq DEF Send, EnableWait, IfOk, If
<1> HIDE DEF u
<1>2. (Send(c, "PortEnable", p) \o <<u>>) \o EnableWait(c, p)
          = Send(c, "PortEnable", p) \o (<<u>> \o EnableWait(c, p))
  BY <1>1, Assoc
<1> QED
  BY <1>2 DEF EnablePortBuffers, EnableIdle, UseAll, EnableWait, EnableFailure, u

\* A program that has yet to fill the port of c, and one that has to initialise the core.
Fills(c, p) == {EnablePortBuffers(c, p), EnableIdle(c, p), UseAll(c, p)}
Filling(c, x) ==
    \E y, z : /\ Prog(All, y) /\ Prog(All, z)
              /\ \E p \in Ports[c] : \E e \in Fills(c, p) : x = y \o (e \o z)
InitCore == <<Step("OMX_Init", None, None, None)>>
Starts(x) == \E y : Prog(All, y) /\ x = InitCore \o y
Starting(c, x) == \E y : Filling(c, y) /\ x = InitCore \o y

LEMMA FillsSeq ==
  ASSUME NEW c, NEW p, NEW e \in Fills(c, p)
  PROVE  IsSeq(e)
<1>1. /\ IsSeq(If("enabled", <<c, p>>, Return(-1), EnableIdle(c, p)))
      /\ IsSeq(EnableIdle(c, p)) /\ IsSeq(EnableWait(c, p)) /\ IsSeq(<<Step("use", c, None, p)>>)
  BY OneSeq DEF If, EnableIdle, EnableWait, IfOk
<1>2. IsSeq(UseAll(c, p))
  BY <1>1, JoinSeq DEF UseAll
<1> QED
  BY <1>1, <1>2, BufferParts DEF Fills

LEMMA FillingSeq ==
  ASSUME NEW c, NEW x, Filling(c, x)
  PROVE  IsSeq(x)
<1>1. PICK y, z : /\ Prog(All, y) /\ Prog(All, z)
                  /\ \E p \in Ports[c] : \E e \in Fills(c, p) : x = y \o (e \o z)
  BY DEF Filling
<1> QED
  BY <1>1, FillsSeq, ProgSeq, JoinSeq

LEMMA StartsMore ==
  /\ Starts(InitCore)
  /\ \A x, y : Starts(x) /\ Prog(All, y) => Starts(x \o y)
<1>1. IsSeq(InitCore) /\ InitCore \o <<>> = InitCore
  BY OneSeq, NoneJoin DEF InitCore
<1>2. ASSUME NEW x, NEW y, Starts(x), Prog(All, y)
      PROVE  Starts(x \o y)
  <2>1. PICK z : Prog(All, z) /\ x = InitCore \o z
    BY <1>2 DEF Starts
  <2>2. IsSeq(y) /\ IsSeq(z) /\ Prog(All, z \o y)
    BY <1>2, <2>1, ProgSeq, ProgJoin
  <2>3. (InitCore \o z) \o y = InitCore \o (z \o y)
    BY <1>1, <2>2, Assoc
  <2> QED
    BY <2>1, <2>2, <2>3 DEF Starts
<1>3. Starts(InitCore)
  BY <1>1, ProgNone DEF Starts
<1> QED
  BY <1>2, <1>3

LEMMA StartsFill ==
  ASSUME NEW c, NEW p \in Ports[c], NEW x, Starts(x)
  PROVE  Starting(c, x \o EnablePortBuffers(c, p))
<1>1. PICK y : Prog(All, y) /\ x = InitCore \o y
  BY DEF Starts
<1> DEFINE e == EnablePortBuffers(c, p)
<1>2. e \in Fills(c, p)
  BY DEF Fills
<1> HIDE DEF e
<1>3. IsSeq(InitCore) /\ IsSeq(y) /\ IsSeq(e) /\ Prog(All, <<>>) /\ e \o <<>> = e
  BY <1>1, <1>2, OneSeq, ProgSeq, FillsSeq, ProgNone, NoneJoin DEF InitCore
<1>4. (InitCore \o y) \o e = InitCore \o (y \o e)
  <2>1. Joined(InitCore, y, e)
    BY <1>3, AssocThree
  <2> QED
    BY <2>1 DEF Joined
<1>5. Filling(c, y \o e)
  BY <1>1, <1>2, <1>3 DEF Filling
<1> QED
  BY <1>1, <1>4, <1>5 DEF Starting, e

LEMMA StartingMore ==
  ASSUME NEW c, NEW x, Starting(c, x), NEW y, Prog(All, y)
  PROVE  Starting(c, x \o y)
<1>1. PICK f : Filling(c, f) /\ x = InitCore \o f
  BY DEF Starting
<1>2. PICK a, z : /\ Prog(All, a) /\ Prog(All, z)
                  /\ \E p \in Ports[c] : \E e \in Fills(c, p) : f = a \o (e \o z)
  BY <1>1 DEF Filling
<1>9. PICK p \in Ports[c] : \E e \in Fills(c, p) : f = a \o (e \o z)
  BY <1>2
<1>3. PICK e \in Fills(c, p) : f = a \o (e \o z)
  BY <1>9
<1>4. /\ IsSeq(InitCore) /\ IsSeq(f) /\ IsSeq(a) /\ IsSeq(e) /\ IsSeq(z) /\ IsSeq(y)
      /\ IsSeq(e \o z) /\ Prog(All, z \o y)
  <2>1. IsSeq(InitCore)
    BY OneSeq DEF InitCore
  <2>2. IsSeq(f) /\ IsSeq(a) /\ IsSeq(e) /\ IsSeq(z) /\ IsSeq(y)
    BY <1>1, <1>2, <1>3, ProgSeq, FillsSeq, FillingSeq
  <2> QED
    BY <1>2, <2>1, <2>2, JoinSeq, ProgJoin
<1>5. x \o y = InitCore \o (f \o y)
  <2>1. IsSeq(InitCore) /\ IsSeq(f) /\ IsSeq(y)
    BY <1>4
  <2>2. (InitCore \o f) \o y = InitCore \o (f \o y)
    BY <2>1, Assoc
  <2> QED
    BY <1>1, <2>2
<1>6. f \o y = a \o (e \o (z \o y))
  <2>1. (a \o (e \o z)) \o y = a \o ((e \o z) \o y)
    <3>1. IsSeq(a) /\ IsSeq(e \o z) /\ IsSeq(y)
      BY <1>4
    <3> QED
      BY <3>1, Assoc
  <2>2. (e \o z) \o y = e \o (z \o y)
    <3>1. IsSeq(e) /\ IsSeq(z) /\ IsSeq(y)
      BY <1>4
    <3> QED
      BY <3>1, Assoc
  <2> QED
    BY <1>3, <2>1, <2>2
<1>7. Filling(c, f \o y)
  BY <1>2, <1>9, <1>3, <1>4, <1>6 DEF Filling
<1> QED
  BY <1>5, <1>7 DEF Starting

LEMMA AllChange ==
  ASSUME NEW c \in Components, NEW s \in {"Loaded", "Idle", "Executing"}
  PROVE  Prog(All, ChangeState(c, s))
<1>1. c \in All.comps
  BY DEF All, Around
<1>2. <<c, "StateSet", s>> \in All.orders
  BY AllOrders DEF Order
<1> QED
  BY <1>1, <1>2, ProgChangeState

\* The initialisation of the sinks.
LEMMA VideoStarts == Starting("video_decode", sx_video_sink_init)
<1>1. /\ "video_decode" \in Components /\ "video_render" \in Components
      /\ "video_clock" \in Components /\ "video_scheduler" \in Components
      /\ "80" \in Ports["video_clock"] /\ "12" \in Ports["video_scheduler"]
      /\ "130" \in Ports["video_decode"]
  BY SinkParts
<1>2. Prog(All, Demand) /\ Prog(All, Setting)
  BY ProgDemand, ProgSetting
<1>3. /\ Prog(All, Create("video_decode")) /\ Prog(All, Create("video_render"))
      /\ Prog(All, Create("video_clock")) /\ Prog(All, Create("video_scheduler"))
  BY <1>1, ProgCreate
<1>4. Prog(All, SetupTunnel(ClockToScheduler))
  BY <1>1, AllTunnel DEF ClockToScheduler
<1>5. /\ Prog(All, ChangeState("video_clock", "Executing"))
      /\ Prog(All, ChangeState("video_decode", "Idle"))
      /\ Prog(All, ChangeState("video_decode", "Executing"))
  BY <1>1, AllChange
<1>6. Starts(InitCore \o Demand \o Create("video_decode") \o Create("video_render")
                 \o Create("video_clock") \o Setting)
  BY <1>2, <1>3, StartsMore
<1>7. Starts(InitCore \o Demand \o Create("video_decode") \o Create("video_render")
                 \o Create("video_clock") \o Setting \o Create("video_scheduler")
                 \o SetupTunnel(ClockToScheduler) \o Demand
                 \o ChangeState("video_clock", "Executing"))
  BY <1>2, <1>3, <1>4, <1>5, <1>6, StartsMore
<1>8. Starts(InitCore \o Demand \o Create("video_decode") \o Create("video_render")
                 \o Create("video_clock") \o Setting \o Create("video_scheduler")
                 \o SetupTunnel(ClockToScheduler) \o Demand
                 \o ChangeState("video_clock", "Executing") \o Setting
                 \o ChangeState("video_decode", "Idle") \o Setting)
  BY <1>2, <1>5, <1>7, StartsMore
<1>9. Starting("video_decode",
               InitCore \o Demand \o Create("video_decode") \o Create("video_render")
                 \o Create("video_clock") \o Setting \o Create("video_scheduler")
                 \o SetupTunnel(ClockToScheduler) \o Demand
                 \o ChangeState("video_clock", "Executing") \o Setting
                 \o ChangeState("video_decode", "Idle") \o Setting
                 \o EnablePortBuffers("video_decode", "130"))
  BY <1>1, <1>8, StartsFill
<1>10. Starting("video_decode",
                InitCore \o Demand \o Create("video_decode") \o Create("video_render")
                 \o Create("video_clock") \o Setting \o Create("video_scheduler")
                 \o SetupTunnel(ClockToScheduler) \o Demand
                 \o ChangeState("video_clock", "Executing") \o Setting
                 \o ChangeState("video_decode", "Idle") \o Setting
                 \o EnablePortBuffers("video_decode", "130") \o Demand
                 \o ChangeState("video_decode", "Executing"))
  BY <1>2, <1>5, <1>9, StartingMore
<1> QED
  BY <1>10 DEF sx_video_sink_init, InitCore

LEMMA AudioStarts ==
  ASSUME NEW i \in AudioSinks
  PROVE  Starting(audio_render(i), sx_audio_sink_init(i))
<1> DEFINE r == audio_render(i)
           c == audio_clock(i)
           t == ClockToRender(i)
           ok == ChangeState(r, "Executing") \o Return(0)
           no == ChangeState(r, "Loaded") \o CleanupComponents(r) \o CleanupComponents(c)
                     \o <<Step("OMX_Deinit", None, None, None)>> \o Demand \o Return(-1)
<1>1. /\ r \in Components /\ c \in Components
      /\ "80" \in Ports[c] /\ "101" \in Ports[r] /\ "100" \in Ports[r]
  BY SinkParts
<1>2. Prog(All, Demand) /\ Prog(All, Setting)
  BY ProgDemand, ProgSetting
<1>3. Prog(All, Create(r)) /\ Prog(All, Create(c))
  BY <1>1, ProgCreate
<1>4. Prog(All, SetupTunnel(t))
  <2> HIDE DEF r, c
  <2>1. t = <<<<c, "80">>, <<r, "101">>>>
    BY DEF ClockToRender, r, c
  <2> HIDE DEF t
  <2> QED
    BY <1>1, <2>1, AllTunnel
<1>5. /\ Prog(All, ChangeState(c, "Executing")) /\ Prog(All, ChangeState(r, "Idle"))
      /\ Prog(All, ChangeState(r, "Executing")) /\ Prog(All, ChangeState(r, "Loaded"))
  BY <1>1, AllChange
<1>6. Prog(All, IfOk(ok, no))
  <2>1. Prog(All, Return(0)) /\ Prog(All, Return(-1))
    BY ProgReturn DEF Rets
  <2>2. Prog(All, <<Step("OMX_Deinit", None, None, None)>>)
    <3>1. Plain(All, Step("OMX_Deinit", None, None, None))
      BY DEF Plain, Step
    <3> QED
      BY <3>1, ProgOne
  <2>3. Prog(All, CleanupComponents(r)) /\ Prog(All, CleanupComponents(c))
    <3>1. All.comps = Components /\ All.freed = Components
      BY DEF All, Around
    <3> QED
      BY <1>1, <3>1, ProgCleanup
  <2>4. Prog(All, ok) /\ Prog(All, no)
    BY <1>2, <1>5, <2>1, <2>2, <2>3, ProgJoin
  <2> QED
    BY <2>4, ProgIf DEF IfOk
<1> HIDE DEF r, c, t, ok, no
<1>7. Starts(InitCore \o Demand \o Create(r) \o Create(c) \o Setting \o SetupTunnel(t))
  BY <1>2, <1>3, <1>4, StartsMore
<1>8. Starts(InitCore \o Demand \o Create(r) \o Create(c) \o Setting \o SetupTunnel(t) \o Demand
                 \o ChangeState(c, "Executing") \o Setting \o ChangeState(r, "Idle"))
  BY <1>2, <1>5, <1>7, StartsMore
<1>9. Starting(r, InitCore \o Demand \o Create(r) \o Create(c) \o Setting \o SetupTunnel(t)
                 \o Demand \o ChangeState(c, "Executing") \o Setting \o ChangeState(r, "Idle")
                 \o EnablePortBuffers(r, "100"))
  BY <1>1, <1>8, StartsFill
<1>10. Starting(r, InitCore \o Demand \o Create(r) \o Create(c) \o Setting \o SetupTunnel(t)
                 \o Demand \o ChangeState(c, "Executing") \o Setting \o ChangeState(r, "Idle")
                 \o EnablePortBuffers(r, "100") \o IfOk(ok, no))
  BY <1>6, <1>9, StartingMore
<1>11. audioplay_create(i) = InitCore \o Demand \o Create(r) \o Create(c) \o Setting
                 \o SetupTunnel(t) \o Demand \o ChangeState(c, "Executing") \o Setting
                 \o ChangeState(r, "Idle") \o EnablePortBuffers(r, "100") \o IfOk(ok, no)
  BY DEF audioplay_create, InitCore, r, c, t, ok, no
<1>12. Starting(r, audioplay_create(i))
  BY <1>10, <1>11
<1>13. Starting(r, audioplay_create(i) \o Demand \o Setting)
  BY <1>2, <1>12, StartingMore
<1> QED
  BY <1>13 DEF sx_audio_sink_init, r

\* i calls have begun.  The core is initialised, and the port of a sink has buffers,
\* only when the call that does so has begun.
Bound(i) == IF i < 5 THEN 0 ELSE IF i > 7 THEN 3 ELSE i - 4
Noticed == <<Step("settings", None, None, None)>>
Notice  == IfOk(Noticed, <<>>)
Doing(i, x) ==
    \/ Prog(All, x)
    \/ /\ i \in 5..7 /\ Fresh(SinkOf(i))
       /\ Filling(SinkOf(i), x) \/ (coreInit <= i - 5 /\ Starting(SinkOf(i), x))
    \/ i = 16 /\ (x = Noticed \/ \E y : Prog(All, y) /\ x = y \o Notice)
Place(i, x) ==
    /\ todo = x \o Later(i)
    /\ coreInit <= Bound(i)
    /\ \A j \in 5..7 : j > i => Fresh(SinkOf(j))
    /\ Doing(i, x)
Control == \E i \in 0..16 : \E x : Place(i, x)

LEMMA StartingSeq ==
  ASSUME NEW c, NEW x, Starting(c, x)
  PROVE  \E y : Filling(c, y) /\ x = InitCore \o y /\ IsSeq(y) /\ IsSeq(x)
<1>1. PICK y : Filling(c, y) /\ x = InitCore \o y
  BY DEF Starting
<1>2. IsSeq(InitCore) /\ IsSeq(y)
  BY <1>1, FillingSeq, OneSeq DEF InitCore
<1> QED
  BY <1>1, <1>2, JoinSeq

\* The first step of a program that has yet to fill a port.
FillingParts(c, x, l, y, z, p, e) ==
    /\ p \in Ports[c] /\ e \in Fills(c, p)
    /\ Prog(All, y) /\ Prog(All, z) /\ x = y \o (e \o z)
    /\ IsSeq(y) /\ IsSeq(z) /\ IsSeq(e) /\ IsSeq(e \o z) /\ IsSeq((e \o z) \o l)
    /\ IsSeq(z \o l)
    /\ todo = y \o ((e \o z) \o l)
    /\ y = <<>> => todo = e \o (z \o l)

LEMMA FillingHead ==
  ASSUME NEW c, NEW x, Filling(c, x), NEW l, IsSeq(l), todo = x \o l
  PROVE  \E y, z, p, e : FillingParts(c, x, l, y, z, p, e)
<1>1. PICK y, z : /\ Prog(All, y) /\ Prog(All, z)
                  /\ \E p \in Ports[c] : \E e \in Fills(c, p) : x = y \o (e \o z)
  BY DEF Filling
<1>2. PICK p \in Ports[c] : \E e \in Fills(c, p) : x = y \o (e \o z)
  BY <1>1
<1>3. PICK e \in Fills(c, p) : x = y \o (e \o z)
  BY <1>2
<1>4. IsSeq(y) /\ IsSeq(z) /\ IsSeq(e)
  BY <1>1, ProgSeq, FillsSeq
<1> DEFINE u == e \o z
<1>5. IsSeq(u) /\ IsSeq(z \o l)
  BY <1>4, JoinSeq
<1>8. u \o l = e \o (z \o l)
  BY <1>4, Assoc
<1> HIDE DEF u
<1>6. IsSeq(u \o l)
  BY <1>5, JoinSeq
<1>7. (y \o u) \o l = y \o (u \o l)
  <2>1. Joined(y, u, l)
    BY <1>4, <1>5, AssocThree
  <2> QED
    BY <2>1 DEF Joined
<1>9. y = <<>> => y \o (u \o l) = u \o l
  BY <1>6, NoneJoin
<1>10. x = y \o u
  BY <1>3 DEF u
<1>11. todo = y \o (u \o l) /\ (y = <<>> => todo = e \o (z \o l))
  BY <1>7, <1>8, <1>9, <1>10
<1> QED
  BY <1>1, <1>2, <1>3, <1>4, <1>5, <1>6, <1>11 DEF FillingParts, u

LEMMA FillsHead ==
  ASSUME NEW c, NEW p, NEW e \in Fills(c, p), NEW l, IsSeq(l), todo = e \o l
  PROVE  /\ todo # <<>> /\ Head(todo).op \in {"if", "use"}
         /\ Head(todo).op = "use" =>
                /\ Head(todo) = Step("use", c, None, p) /\ e = UseAll(c, p)
                /\ Tail(todo) = EnableWait(c, p) \o l
         /\ Head(todo).op = "if" =>
                /\ Tail(todo) = l
                /\ Head(todo).no = Return(-1) \/ Head(todo).no = EnableIdle(c, p)
                /\ Head(todo).yes = Return(-1)
                       \/ Head(todo).yes = Send(c, "PortEnable", p) \o UseAll(c, p)
<1>1. CASE e = EnablePortBuffers(c, p)
  <2> DEFINE s == [op |-> "if", kind |-> "enabled", of |-> <<c, p>>, yes |-> Return(-1),
                   no |-> EnableIdle(c, p)]
  <2>1. todo = <<s>> \o l /\ s.op = "if" /\ s.no = EnableIdle(c, p) /\ s.yes = Return(-1)
    BY <1>1, BufferParts DEF If
  <2> HIDE DEF s
  <2> QED
    BY <2>1, Push
<1>2. CASE e = EnableIdle(c, p)
  <2> DEFINE s == [op |-> "if", kind |-> "idle", of |-> c,
                   yes |-> Send(c, "PortEnable", p) \o UseAll(c, p), no |-> Return(-1)]
  <2>1. todo = <<s>> \o l /\ s.op = "if" /\ s.no = Return(-1)
        /\ s.yes = Send(c, "PortEnable", p) \o UseAll(c, p)
    BY <1>2 DEF EnableIdle, If
  <2> HIDE DEF s
  <2> QED
    BY <2>1, Push
<1>3. CASE e = UseAll(c, p)
  <2> DEFINE s == Step("use", c, None, p)
  <2>1. IsSeq(<<s>>) /\ IsSeq(EnableWait(c, p))
    BY OneSeq DEF EnableWait, IfOk, If
  <2>2. IsSeq(EnableWait(c, p) \o l)
    BY <2>1, JoinSeq
  <2>3. todo = <<s>> \o (EnableWait(c, p) \o l) /\ s.op = "use"
    BY <1>3, <2>1, Assoc DEF UseAll, Step
  <2> HIDE DEF s
  <2>4. todo # <<>> /\ Head(todo) = s /\ Tail(todo) = EnableWait(c, p) \o l
    BY <2>2, <2>3, Push
  <2> QED
    BY <1>3, <2>3, <2>4 DEF s
<1> QED
  BY <1>1, <1>2, <1>3 DEF Fills

LEMMA PlaceSeq ==
  ASSUME NEW i \in 0..16, NEW x, Doing(i, x)
  PROVE  IsSeq(x) /\ IsSeq(Notice) /\ IsSeq(Noticed)
<1>1. IsSeq(Notice) /\ IsSeq(Noticed)
  BY OneSeq DEF Notice, Noticed, IfOk, If
<1>2. CASE Prog(All, x)
  BY <1>1, <1>2, ProgSeq
<1>3. CASE i \in 5..7 /\ (Filling(SinkOf(i), x) \/ Starting(SinkOf(i), x))
  BY <1>1, <1>3, FillingSeq, StartingSeq
<1>4. CASE x = Noticed \/ \E y : Prog(All, y) /\ x = y \o Notice
  BY <1>1, <1>4, ProgSeq, JoinSeq
<1> QED
  BY <1>2, <1>3, <1>4 DEF Doing

\* What the thread does next.
LEMMA ControlHead ==
  ASSUME Typed, Control
  PROVE  HeadOK
<1> SUFFICES ASSUME todo # <<>>
             PROVE  Plain(All, Head(todo)) \/ Special(Head(todo))
  BY DEF HeadOK
<1>0. PICK i \in 0..16 : \E x : Place(i, x)
  BY DEF Control
<1>1. PICK x : i \in 0..16 /\ Place(i, x)
  BY <1>0
<1>2. /\ IsSeq(x) /\ IsSeq(Later(i)) /\ IsSeq(Notice) /\ todo = x \o Later(i)
      /\ coreInit \in 0..3 /\ i \in 0..16
  BY <1>1, PlaceSeq, LaterCalls DEF Place, Typed, TypedLibrary
<1>3. ASSUME NEW y, NEW l, Prog(All, y), y # <<>>, IsSeq(l), todo = y \o l
      PROVE  Plain(All, Head(todo)) \/ Special(Head(todo))
  <2>1. Head(todo) = Head(y)
    BY <1>3, ProgSeq, Split
  <2> QED
    BY <1>3, <2>1, ProgHead DEF Special
<1>4. CASE Prog(All, x)
  <2>1. CASE x # <<>>
    BY <1>2, <1>3, <1>4, <2>1
  <2>2. CASE x = <<>>
    <3>1. todo = Later(i)
      BY <1>2, <2>2, NoneJoin
    <3>2. i < 16 /\ Head(todo) = Calls[i + 1]
      <4>1. i # 16
        BY <3>1, LaterCalls
      <4>2. i < 16
        BY <1>2, <4>1
      <4> QED
        BY <1>2, <3>1, <4>2, LaterCalls
    <3>3. CASE i + 1 \in 1..7
      <4>1. Head(todo) = Step("call", None, Parts[i + 1], None) /\ Parts[i + 1] \in ToSet(Parts)
        BY <3>2, <3>3, CallsAre
      <4> HIDE DEF Parts
      <4> QED
        BY <4>1 DEF Special, Step
    <3>4. CASE i + 1 \in 8..16
      <4>1. /\ Head(todo) = Step("open", None, Threads[(i + 1) - 7], None)
            /\ Threads[(i + 1) - 7] \in ToSet(Threads)
        BY <3>2, <3>4, CallsAre
      <4> QED
        BY <4>1 DEF Special, Step
    <3> QED
      BY <3>2, <3>3, <3>4
  <2> QED
    BY <2>1, <2>2
<1>5. CASE i \in 5..7 /\ Fresh(SinkOf(i)) /\ Filling(SinkOf(i), x)
  <2> DEFINE c == SinkOf(i)
             l == Later(i)
  <2>1. c \in Components /\ Fresh(c) /\ Filling(c, x) /\ IsSeq(l) /\ todo = x \o l
    BY <1>2, <1>5, SinkParts
  <2> HIDE DEF c, l
  <2>2. PICK y, z, p, e : FillingParts(c, x, l, y, z, p, e)
    BY <2>1, FillingHead
  <2>4. /\ Prog(All, y) /\ IsSeq((e \o z) \o l) /\ IsSeq(z \o l) /\ e \in Fills(c, p)
        /\ todo = y \o ((e \o z) \o l)
        /\ y = <<>> => todo = e \o (z \o l)
    BY <2>2 DEF FillingParts
  <2>5. CASE y # <<>>
    BY <1>3, <2>4, <2>5
  <2>6. CASE y = <<>>
    <3>1. Head(todo).op \in {"if", "use"} /\ (Head(todo).op = "use" => Head(todo) = Step("use", c, None, p))
      BY <2>4, <2>6, FillsHead
    <3> QED
      BY <2>1, <3>1 DEF Special, Fresh, Step
  <2> QED
    BY <2>5, <2>6
<1>6. CASE i \in 5..7 /\ coreInit <= i - 5 /\ Starting(SinkOf(i), x)
  <2>1. PICK y : x = InitCore \o y /\ IsSeq(y)
    BY <1>6, StartingSeq
  <2> DEFINE s == Step("OMX_Init", None, None, None)
  <2>2. x = <<s>> \o y /\ IsSeq(<<s>>) /\ s.op = "OMX_Init"
    BY <2>1, OneSeq DEF InitCore, Step
  <2> HIDE DEF s
  <2>3. x # <<>> /\ Head(x) = s
    BY <2>1, <2>2, Push
  <2>4. Head(todo) = s
    BY <1>2, <2>3, Split
  <2> QED
    BY <1>2, <1>6, <2>2, <2>4 DEF Special
<1>7. CASE x = Noticed
  <2> DEFINE s == Step("settings", None, None, None)
  <2>1. todo = <<s>> \o Later(i) /\ s.op = "settings"
    BY <1>2, <1>7 DEF Noticed, Step
  <2> HIDE DEF s
  <2> QED
    BY <1>2, <2>1, Push DEF Special
<1>8. CASE \E y : Prog(All, y) /\ x = y \o Notice
  <2>1. PICK y : Prog(All, y) /\ x = y \o Notice
    BY <1>8
  <2> DEFINE l == Notice \o Later(i)
  <2>2. IsSeq(y) /\ IsSeq(l) /\ todo = y \o l
    <3>1. IsSeq(y) /\ IsSeq(l)
      BY <1>2, <2>1, ProgSeq, JoinSeq
    <3>2. (y \o Notice) \o Later(i) = y \o l
      <4>1. IsSeq(y) /\ IsSeq(Notice) /\ IsSeq(Later(i))
        BY <1>2, <3>1
      <4> QED
        BY <4>1, Assoc
    <3> QED
      BY <1>2, <2>1, <3>1, <3>2
  <2>3. CASE y # <<>>
    BY <1>3, <2>1, <2>2, <2>3
  <2>4. CASE y = <<>>
    <3>1. todo = Notice \o Later(i)
      BY <2>2, <2>4, NoneJoin
    <3> DEFINE s == [op |-> "if", kind |-> "returned", of |-> 0, yes |-> Noticed, no |-> <<>>]
    <3>2. todo = <<s>> \o Later(i) /\ s.op = "if"
      BY <3>1 DEF Notice, IfOk, If
    <3> HIDE DEF s
    <3> QED
      BY <1>2, <3>2, Push DEF Special
  <2> QED
    BY <2>3, <2>4
<1> QED
  BY <1>1, <1>4, <1>5, <1>6, <1>7, <1>8 DEF Place, Doing

\* The bodies of the calls.
LEMMA BodyDoing ==
  ASSUME NEW i \in 1..7, coreInit <= Bound(i - 1), i \in 5..7 => Fresh(SinkOf(i))
  PROVE  Doing(i, Body(Parts[i])) /\ coreInit <= Bound(i - 1)
<1>1. /\ Parts[1] = "pipe" /\ Parts[2] = "data" /\ Parts[3] = "m2ts_decoder"
      /\ Parts[4] = "video_decoder" /\ Parts[5] = "video_scheduler"
      /\ Parts[6] = "audio_decoder" /\ Parts[7] = "audio_scheduler"
  BY DEF Parts
<1>2. i \in {1, 2, 3, 4} \/ i = 5 \/ i = 6 \/ i = 7
  OBVIOUS
<1>3. CASE i \in {1, 2, 3, 4}
  <2>1. Body(Parts[i]) = Setting \/ Body(Parts[i]) = <<>>
    <3>1. Parts[i] \in {"pipe", "data", "m2ts_decoder", "video_decoder"}
      BY <1>1, <1>3
    <3> HIDE DEF Parts
    <3> QED
      BY <3>1 DEF Body
  <2>2. Prog(All, Body(Parts[i]))
    BY <2>1, ProgSetting, ProgNone
  <2> QED
    BY <2>2 DEF Doing
<1>4. CASE i = 5
  <2>1. Body(Parts[i]) = sx_video_sink_init /\ coreInit <= i - 5
    BY <1>1, <1>4 DEF Body, Bound
  <2>2. Starting(SinkOf(i), Body(Parts[i]))
    BY <1>4, <2>1, VideoStarts, SinkParts
  <2> QED
    BY <1>4, <2>1, <2>2 DEF Doing
<1>5. CASE i = 6
  <2>1. Body(Parts[i]) = sx_audio_sink_init(1) /\ coreInit <= i - 5
    BY <1>1, <1>5 DEF Body, Bound
  <2>2. Starting(SinkOf(i), Body(Parts[i]))
    BY <1>5, <2>1, AudioStarts, SinkParts DEF AudioSinks
  <2> QED
    BY <1>5, <2>1, <2>2 DEF Doing
<1>6. CASE i = 7
  <2>1. Body(Parts[i]) = sx_audio_sink_init(2) /\ coreInit <= i - 5
    BY <1>1, <1>6 DEF Body, Bound
  <2>2. Starting(SinkOf(i), Body(Parts[i]))
    BY <1>6, <2>1, AudioStarts, SinkParts DEF AudioSinks
  <2> QED
    BY <1>6, <2>1, <2>2 DEF Doing
<1> QED
  BY <1>2, <1>3, <1>4, <1>5, <1>6

\* The thread stops.
LEMMA ControlEnd ==
  ASSUME Typed', todo' = <<>>
  PROVE  Control'
<1>1. /\ Prog(All, <<>>) /\ Later(16) = <<>> /\ 16 \in 0..16 /\ IsSeq(<<>>)
      /\ <<>> \o <<>> = <<>>
  <2>1. 16 \in 0..16
    OBVIOUS
  <2> QED
    BY <2>1, ProgNone, LaterCalls, NoneSeq, NoneJoin
<1>2. coreInit' <= Bound(16)
  BY DEF Typed, TypedLibrary, Bound
<1>3. \A j \in 5..7 : ~(j > 16)
  OBVIOUS
<1>4. Doing(16, <<>>)'
  BY <1>1 DEF Doing
<1>5. Place(16, <<>>)'
  BY <1>1, <1>2, <1>3, <1>4 DEF Place
<1> QED
  BY <1>1, <1>5 DEF Control

LEMMA ControlMain ==
  ASSUME Typed, Control, Main
  PROVE  Control'
<1>0. PICK i \in 0..16 : \E x : Place(i, x)
  BY DEF Control
<1>1. PICK x : i \in 0..16 /\ Place(i, x)
  BY <1>0
<1>2. HeadOK /\ Typed'
  BY ControlHead, MainTyped
<1> DEFINE L == Later(i)
<1>3. /\ IsSeq(x) /\ IsSeq(L) /\ IsSeq(Notice) /\ IsSeq(Noticed) /\ todo = x \o L
      /\ coreInit <= Bound(i) /\ \A j \in 5..7 : j > i => Fresh(SinkOf(j))
      /\ coreInit \in 0..3 /\ coreInit' \in 0..3 /\ Bound(i) \in Nat /\ i \in 0..16
  <2>1. i \in 0..16 /\ Doing(i, x) /\ todo = x \o L
        /\ coreInit <= Bound(i) /\ \A j \in 5..7 : j > i => Fresh(SinkOf(j))
    BY <1>1 DEF Place
  <2>2. IsSeq(x) /\ IsSeq(L) /\ IsSeq(Notice) /\ IsSeq(Noticed)
    BY <2>1, PlaceSeq, LaterCalls
  <2>3. coreInit \in 0..3 /\ coreInit' \in 0..3
    BY <1>2 DEF Typed, TypedLibrary
  <2>4. Bound(i) \in Nat
    BY <2>1 DEF Bound
  <2> QED
    BY <2>1, <2>2, <2>3, <2>4
<1>4. CASE todo' = <<>>
  BY <1>2, <1>4, ControlEnd
<1> HIDE DEF L
\* A step that leaves the same call.
<1>5. ASSUME NEW y, todo' = y \o L, Doing(i, y)', coreInit' <= Bound(i),
             \A j \in 5..7 : j > i => Fresh(SinkOf(j))'
      PROVE  Control'
  BY <1>3, <1>5 DEF Place, Control, L
<1>6. ASSUME NEW y, NEW k, Prog(All, y), y # <<>>, IsSeq(k), todo = y \o k, todo' # <<>>
      PROVE  /\ coreInit' <= coreInit /\ \A c \in Components : Fresh(c) => Fresh(c)'
             /\ \A j \in 5..7 : Fresh(SinkOf(j)) => Fresh(SinkOf(j))'
             /\ coreInit' <= Bound(i) /\ \A j \in 5..7 : j > i => Fresh(SinkOf(j))'
             /\ \E z : Prog(All, z) /\ IsSeq(z) /\ todo' = z \o k
  <2>1. Frame(All) /\ (Continues(All, k) \/ Aborts)
    BY <1>6, ProgStep, AllScope
  <2>2. /\ coreInit' <= coreInit /\ \A c \in Components : Fresh(c) => Fresh(c)'
    BY <2>1 DEF Frame
  <2>3. \A j \in 5..7 : SinkOf(j) \in Components
    BY SinkParts
  <2>4. \E z : Prog(All, z) /\ todo' = z \o k
    BY <1>6, <2>1 DEF Continues, Aborts
  <2>5. \A j \in 5..7 : Fresh(SinkOf(j)) => Fresh(SinkOf(j))'
    BY <2>2, <2>3 DEF Fresh
  <2>6. coreInit' <= Bound(i)
    BY <1>3, <2>2
  <2>7. \A j \in 5..7 : j > i => Fresh(SinkOf(j))'
    BY <1>3, <2>5
  <2> QED
    BY <2>2, <2>4, <2>5, <2>6, <2>7, ProgSeq
<1>7. CASE todo' # <<>> /\ Prog(All, x)
  <2>1. CASE x # <<>>
    BY <1>3, <1>5, <1>6, <1>7, <2>1 DEF Doing
  <2>2. CASE x = <<>>
    <3>1. todo = L /\ L = Later(i)
      BY <1>3, <2>2, NoneJoin DEF L
    <3>2. i < 16
      <4>1. i # 16
        BY <3>1, Dispatch, LaterCalls
      <4> QED
        BY <1>3, <4>1
    <3>3. Head(todo) = Calls[i + 1] /\ Tail(todo) = Later(i + 1) /\ i + 1 \in 0..16
          /\ IsSeq(Later(i + 1))
      BY <1>3, <3>1, <3>2, LaterCalls
    <3>4. ASSUME NEW y, todo' = y \o Later(i + 1), Doing(i + 1, y)',
                 UNCHANGED <<coreInit, used, in_list>>
          PROVE  Control'
      <4>1. Bound(i) <= Bound(i + 1) /\ Bound(i + 1) \in Nat /\ (\A j \in 5..7 : j > i + 1 => j > i)
        BY <1>3 DEF Bound
      <4>2. coreInit' <= Bound(i + 1) /\ \A j \in 5..7 : j > i + 1 => Fresh(SinkOf(j))'
        BY <1>3, <3>4, <4>1 DEF Fresh
      <4> QED
        BY <3>3, <3>4, <4>2 DEF Place, Control
    <3>5. CASE i + 1 \in 1..7
      <4> DEFINE n == i + 1
      <4>1. Head(todo) = Step("call", None, Parts[n], None)
        BY <3>3, <3>5, CallsAre
      <4>2. /\ todo' = Body(Parts[n]) \o Later(n)
            /\ UNCHANGED <<coreInit, used, in_list>>
        <5>1. Head(todo).op = "call" /\ Head(todo).a = Parts[n]
          BY <4>1 DEF Step
        <5>2. Initialise
          BY <5>1, Dispatch
        <5> QED
          BY <3>3, <5>1, <5>2 DEF Initialise, library, components
      <4>3. n \in 1..7 /\ n - 1 = i /\ (n \in 5..7 => n > i)
        BY <1>3, <3>5
      <4> HIDE DEF n
      <4>4. Doing(n, Body(Parts[n]))
        BY <1>3, <4>3, BodyDoing
      <4>5. Doing(n, Body(Parts[n]))'
        BY <4>2, <4>4 DEF Doing, Fresh
      <4> QED
        BY <3>4, <4>2, <4>5 DEF n
    <3>6. CASE i + 1 \in 8..16
      <4>1. Head(todo) = Step("open", None, Threads[(i + 1) - 7], None)
        BY <3>3, <3>6, CallsAre
      <4>2. todo' = Later(i + 1) /\ UNCHANGED <<coreInit, used, in_list>>
        <5>1. sx_thread_create
          <6>1. Head(todo).op = "open"
            BY <4>1 DEF Step
          <6> QED
            BY <6>1, Dispatch
        <5> QED
          BY <3>3, <5>1 DEF sx_thread_create, library, components
      <4>3. todo' = <<>> \o Later(i + 1)
        BY <3>3, <4>2, NoneJoin
      <4>4. Doing(i + 1, <<>>)'
        BY ProgNone DEF Doing
      <4> QED
        BY <3>4, <4>2, <4>3, <4>4
    <3> QED
      BY <1>3, <3>2, <3>5, <3>6
  <2> QED
    BY <2>1, <2>2
<1>8. CASE todo' # <<>> /\ i \in 5..7 /\ Fresh(SinkOf(i)) /\ Filling(SinkOf(i), x)
  <2> DEFINE c == SinkOf(i)
  <2>1. c \in Components /\ Filling(c, x)
    BY <1>8, SinkParts
  <2> HIDE DEF c
  <2>2. PICK y, z, p, e : FillingParts(c, x, L, y, z, p, e)
    BY <1>3, <2>1, FillingHead
  <2>3. /\ p \in Ports[c] /\ e \in Fills(c, p)
        /\ Prog(All, y) /\ Prog(All, z)
        /\ IsSeq(y) /\ IsSeq(z) /\ IsSeq(e) /\ IsSeq(e \o z) /\ IsSeq((e \o z) \o L)
        /\ IsSeq(z \o L)
        /\ todo = y \o ((e \o z) \o L)
        /\ y = <<>> => todo = e \o (z \o L)
    BY <2>2 DEF FillingParts
  <2>4. CASE y # <<>>
    <3> DEFINE u == e \o z
               k == u \o L
    <3>1. todo = y \o k /\ IsSeq(k) /\ IsSeq(u)
      BY <2>3
    <3> HIDE DEF k, u
    <3>2. PICK v : Prog(All, v) /\ IsSeq(v) /\ todo' = v \o k
      BY <1>6, <1>8, <2>3, <2>4, <3>1
    <3>3. v \o k = (v \o u) \o L
      <4>1. IsSeq(v) /\ IsSeq(u) /\ IsSeq(L)
        BY <1>3, <3>1, <3>2
      <4>2. Joined(v, u, L)
        BY <4>1, AssocThree
      <4> QED
        BY <4>2 DEF Joined, k
    <3>4. Filling(c, v \o u)
      BY <2>3, <3>2 DEF Filling, u
    <3>5. Doing(i, v \o u)'
      <4>1. Fresh(SinkOf(i))'
        BY <1>6, <1>8, <2>3, <2>4, <3>1
      <4> QED
        BY <1>8, <3>4, <4>1 DEF Doing, c
    <3>6. coreInit' <= Bound(i) /\ \A j \in 5..7 : j > i => Fresh(SinkOf(j))'
      BY <1>6, <1>8, <2>3, <2>4, <3>1
    <3> QED
      BY <1>5, <3>2, <3>3, <3>5, <3>6
  <2>5. CASE y = <<>>
    <3> DEFINE k == z \o L
    <3>1. todo = e \o k /\ IsSeq(k)
      BY <2>3, <2>5
    <3> HIDE DEF k
    <3>2. /\ Head(todo).op \in {"if", "use"}
          /\ Head(todo).op = "use" =>
                /\ Head(todo) = Step("use", c, None, p)
                /\ Tail(todo) = EnableWait(c, p) \o k
          /\ Head(todo).op = "if" =>
                /\ Tail(todo) = k
                /\ Head(todo).no = Return(-1) \/ Head(todo).no = EnableIdle(c, p)
                /\ Head(todo).yes = Return(-1)
                       \/ Head(todo).yes = Send(c, "PortEnable", p) \o UseAll(c, p)
      BY <2>3, <3>1, FillsHead, ZenonT(60)
    <3>3. c \in All.comps /\ c \in All.freed
      BY <2>1 DEF All, Around
    <3>4. <<c, "PortDisable", p>> \in All.orders /\ <<c, "PortEnable", p>> \in All.orders
      BY <2>1, <2>3, AllOrders DEF Order
    <3>5. Prog(All, EnableWait(c, p)) /\ Prog(All, Return(-1)) /\ Prog(All, Send(c, "PortEnable", p))
      BY <3>3, <3>4, ProgEnableWait, ProgReturn, ProgSend DEF Rets
    <3>6. IsSeq(EnableWait(c, p)) /\ IsSeq(Return(-1)) /\ IsSeq(Send(c, "PortEnable", p))
      BY <3>5, ProgSeq
    <3>7. CASE Head(todo).op = "if"
      <4>1. Branch
        BY <3>7, Dispatch
      <4>2. /\ todo' = Head(todo).yes \o Tail(todo) \/ todo' = Head(todo).no \o Tail(todo)
            /\ UNCHANGED <<coreInit, used, in_list>>
        BY <4>1 DEF Branch, library, components
      <4>3. /\ coreInit' <= Bound(i) /\ \A j \in 5..7 : j > i => Fresh(SinkOf(j))'
            /\ Fresh(SinkOf(i))'
        BY <1>3, <1>8, <4>2 DEF Fresh
      <4>4. CASE todo' = Return(-1) \o k
        <5>1. Return(-1) \o (z \o L) = (Return(-1) \o z) \o L
          <6>1. IsSeq(Return(-1)) /\ IsSeq(z) /\ IsSeq(L)
            BY <1>3, <2>3, <3>6
          <6>2. Joined(Return(-1), z, L)
            BY <6>1, AssocThree
          <6> QED
            BY <6>2 DEF Joined
        <5>2. Prog(All, Return(-1) \o z)
          BY <2>3, <3>5, ProgJoin
        <5> QED
          BY <1>5, <4>3, <4>4, <5>1, <5>2 DEF Doing, k
      <4>5. CASE todo' = EnableIdle(c, p) \o k
        <5> DEFINE f == EnableIdle(c, p)
        <5>1. f \in Fills(c, p) /\ IsSeq(f) /\ IsSeq(f \o z) /\ IsSeq((f \o z) \o L)
          <6>1. f \in Fills(c, p)
            BY DEF Fills
          <6>2. IsSeq(f)
            BY <6>1, FillsSeq
          <6>3. IsSeq(f \o z)
            BY <2>3, <6>2, JoinSeq
          <6> HIDE DEF f
          <6>4. IsSeq((f \o z) \o L)
            BY <1>3, <6>3, JoinSeq
          <6> QED
            BY <6>1, <6>2, <6>3, <6>4
        <5> HIDE DEF f
        <5>2. f \o (z \o L) = (f \o z) \o L
          <6>1. IsSeq(f) /\ IsSeq(z) /\ IsSeq(L)
            BY <1>3, <2>3, <5>1
          <6> QED
            BY <6>1, Assoc
        <5>3. <<>> \o (f \o z) = f \o z
          BY <5>1, NoneJoin
        <5>4. Filling(c, f \o z)
          BY <2>3, <5>1, <5>3, ProgNone DEF Filling
        <5>5. Doing(i, f \o z)'
          BY <1>8, <4>3, <5>4 DEF Doing, c
        <5> QED
          BY <1>5, <4>3, <4>5, <5>2, <5>5 DEF k, f
      <4>6. CASE todo' = (Send(c, "PortEnable", p) \o UseAll(c, p)) \o k
        <5> DEFINE f == UseAll(c, p)
                   s == Send(c, "PortEnable", p)
                   u == f \o z
        <5>1. f \in Fills(c, p)
          BY DEF Fills
        <5>2. IsSeq(f) /\ IsSeq(s)
          BY <3>6, <5>1, FillsSeq
        <5> HIDE DEF f, s
        <5>3. IsSeq(u) /\ IsSeq(k)
          BY <2>3, <3>1, <5>2, JoinSeq
        <5>4. (s \o f) \o k = s \o (f \o k)
          BY <5>2, <5>3, Assoc
        <5>5. f \o k = u \o L
          <6>1. IsSeq(f) /\ IsSeq(z) /\ IsSeq(L)
            BY <1>3, <2>3, <5>2
          <6> QED
            BY <6>1, Assoc DEF k
        <5> HIDE DEF u
        <5>6. s \o (u \o L) = (s \o u) \o L
          <6>1. IsSeq(s) /\ IsSeq(u) /\ IsSeq(L)
            BY <1>3, <5>2, <5>3
          <6> QED
            BY <6>1, Assoc
        <5>7. Filling(c, s \o u)
          BY <2>3, <3>5, <5>1 DEF Filling, s, u
        <5>8. Doing(i, s \o u)'
          BY <1>8, <4>3, <5>7 DEF Doing, c
        <5>9. todo' = (s \o u) \o L
          BY <4>6, <5>4, <5>5, <5>6 DEF s, f
        <5> QED
          BY <1>5, <4>3, <5>8, <5>9
      <4> QED
        BY <3>2, <3>7, <4>2, <4>4, <4>5, <4>6
    <3>8. CASE Head(todo).op = "use"
      <4>1. UseBuffers
        BY <3>8, Dispatch
      <4>2. Head(todo).c = c
        BY <3>2, <3>8 DEF Step
      <4>3. /\ todo' = EnableWait(c, p) \o k
            /\ UNCHANGED coreInit
            /\ \E n \in 0..NumBufs : used' = [used EXCEPT ![c] = @ + n]
                                  /\ in_list' = [in_list EXCEPT ![c] = @ + n]
        BY <3>2, <3>8, <4>1, <4>2 DEF UseBuffers, Returns
      <4>4. \A d \in Components : d # c => (Fresh(d) => Fresh(d)')
        <5>1. used \in [Components -> Nat] /\ in_list \in [Components -> Nat]
          BY DEF Typed, TypedBuffers
        <5> QED
          BY <4>3, <5>1 DEF Fresh
      <4>5. \A j \in 5..7 : j > i => Fresh(SinkOf(j))'
        <5>1. \A j \in 5..7 : j > i => SinkOf(j) # c /\ SinkOf(j) \in Components
          BY <1>3, <1>8, SinkParts DEF c
        <5>2. \A j \in 5..7 : j > i => Fresh(SinkOf(j))
          BY <1>3
        <5> QED
          BY <4>4, <5>1, <5>2 DEF Fresh
      <4>6. coreInit' <= Bound(i)
        BY <1>3, <4>3
      <4>7. EnableWait(c, p) \o (z \o L) = (EnableWait(c, p) \o z) \o L
        <5>1. IsSeq(EnableWait(c, p)) /\ IsSeq(z) /\ IsSeq(L)
          BY <1>3, <2>3, <3>6
        <5>2. Joined(EnableWait(c, p), z, L)
          BY <5>1, AssocThree
        <5> QED
          BY <5>2 DEF Joined
      <4>8. Prog(All, EnableWait(c, p) \o z)
        BY <2>3, <3>5, ProgJoin
      <4> QED
        BY <1>5, <4>3, <4>5, <4>6, <4>7, <4>8 DEF Doing, k
    <3> QED
      BY <3>2, <3>7, <3>8
  <2> QED
    BY <2>4, <2>5
<1>9. CASE i \in 5..7 /\ Fresh(SinkOf(i)) /\ coreInit <= i - 5 /\ Starting(SinkOf(i), x)
  <2>1. PICK y : Filling(SinkOf(i), y) /\ x = InitCore \o y /\ IsSeq(y)
    BY <1>9, StartingSeq
  <2> DEFINE s == Step("OMX_Init", None, None, None)
  <2>2. InitCore = <<s>> /\ s.op = "OMX_Init"
    BY DEF InitCore, Step
  <2> HIDE DEF s
  <2>3. IsSeq(InitCore) /\ IsSeq(y \o L)
    BY <1>3, <2>1, <2>2, OneSeq, JoinSeq
  <2>4. todo = <<s>> \o (y \o L)
    <3>1. IsSeq(InitCore) /\ IsSeq(y) /\ IsSeq(L)
      BY <1>3, <2>1, <2>3
    <3>2. (InitCore \o y) \o L = InitCore \o (y \o L)
      BY <3>1, Assoc
    <3> QED
      BY <1>3, <2>1, <2>2, <3>2
  <2>5. Head(todo) = s /\ Tail(todo) = y \o L
    BY <2>3, <2>4, Push
  <2>6. OMX_Init
    BY <2>2, <2>5, Dispatch
  <2>7. todo' = y \o L /\ UNCHANGED <<used, in_list>> /\ (coreInit' = coreInit \/ coreInit' = coreInit + 1)
    BY <2>5, <2>6 DEF OMX_Init, Returns
  <2>8. coreInit' <= Bound(i) /\ Fresh(SinkOf(i))' /\ \A j \in 5..7 : j > i => Fresh(SinkOf(j))'
    BY <1>3, <1>9, <2>7 DEF Fresh, Bound
  <2>9. Doing(i, y)'
    BY <1>9, <2>1, <2>8 DEF Doing
  <2> QED
    BY <1>5, <2>7, <2>8, <2>9
<1>10. CASE todo' # <<>> /\ i = 16 /\ (x = Noticed \/ \E y : Prog(All, y) /\ x = y \o Notice)
  <2>1. ASSUME NEW y, todo' = y \o L, Doing(i, y)'
        PROVE  Control'
    <3>1. \A j \in 5..7 : ~(j > i)
      BY <1>10
    <3>2. coreInit' <= Bound(i)
      BY <1>3, <1>10 DEF Bound
    <3> QED
      BY <1>5, <2>1, <3>1, <3>2
  <2>2. CASE x = Noticed
    <3> DEFINE s == Step("settings", None, None, None)
    <3>1. Noticed = <<s>> /\ s.op = "settings"
      BY DEF Noticed, Step
    <3> HIDE DEF s
    <3>2. Head(todo) = s /\ L = <<>>
      BY <1>3, <1>10, <2>2, <3>1, Push, LaterCalls DEF L
    <3>3. SettingsChanged
      BY <3>1, <3>2, Dispatch
    <3>4. todo' = SetupTunnel(DecodeToScheduler) \o Return(-1) \o Demand
      BY <3>3 DEF SettingsChanged
    <3>5. Prog(All, SetupTunnel(DecodeToScheduler) \o Return(-1) \o Demand)
      <4>1. Prog(All, SetupTunnel(DecodeToScheduler))
        BY AllTunnel, SinkParts DEF DecodeToScheduler
      <4> QED
        BY <4>1, ProgReturn, ProgDemand, ProgJoin DEF Rets
    <3> DEFINE y == SetupTunnel(DecodeToScheduler) \o Return(-1) \o Demand
    <3>6. todo' = y /\ Prog(All, y)
      BY <3>4, <3>5
    <3> HIDE DEF y
    <3>7. todo' = y \o L
      BY <3>2, <3>6, ProgSeq, NoneJoin
    <3> QED
      BY <2>1, <3>6, <3>7 DEF Doing
  <2>3. CASE \E y : Prog(All, y) /\ x = y \o Notice
    <3>1. PICK y : Prog(All, y) /\ x = y \o Notice
      BY <2>3
    <3> DEFINE k == Notice \o L
    <3>2. IsSeq(y) /\ IsSeq(k) /\ (y \o Notice) \o L = y \o (Notice \o L)
      <4>1. IsSeq(y) /\ IsSeq(Notice) /\ IsSeq(L)
        BY <1>3, <3>1, ProgSeq
      <4>2. (y \o Notice) \o L = y \o (Notice \o L)
        BY <4>1, Assoc
      <4> QED
        BY <4>1, <4>2, JoinSeq
    <3>3. todo = y \o k
      BY <1>3, <3>1, <3>2
    <3>4. CASE y # <<>>
      <4> HIDE DEF k
      <4>1. PICK z : Prog(All, z) /\ IsSeq(z) /\ todo' = z \o k
        BY <1>6, <1>10, <3>1, <3>2, <3>3, <3>4
      <4>2. z \o k = (z \o Notice) \o L
        <5>1. IsSeq(z) /\ IsSeq(Notice) /\ IsSeq(L)
          BY <1>3, <4>1
        <5>2. Joined(z, Notice, L)
          BY <5>1, AssocThree
        <5> QED
          BY <5>2 DEF Joined, k
      <4>3. Doing(i, z \o Notice)'
        BY <1>10, <4>1 DEF Doing
      <4> QED
        BY <2>1, <4>1, <4>2, <4>3
    <3>5. CASE y = <<>>
      <4> DEFINE s == [op |-> "if", kind |-> "returned", of |-> 0, yes |-> Noticed, no |-> <<>>]
      <4>1. todo = <<s>> \o L /\ s.op = "if" /\ s.yes = Noticed /\ s.no = <<>>
        <5>1. todo = k
          BY <3>2, <3>3, <3>5, NoneJoin
        <5> QED
          BY <5>1 DEF Notice, IfOk, If
      <4> HIDE DEF s
      <4>2. Head(todo) = s /\ Tail(todo) = L
        BY <1>3, <4>1, Push
      <4>3. Branch
        BY <4>1, <4>2, Dispatch
      <4>4. todo' = Noticed \o L \/ todo' = <<>> \o L
        BY <4>1, <4>2, <4>3 DEF Branch
      <4>5. Doing(i, Noticed)' /\ Doing(i, <<>>)'
        BY <1>10, ProgNone DEF Doing
      <4> QED
        BY <2>1, <4>4, <4>5
    <3> QED
      BY <3>4, <3>5
  <2> QED
    BY <1>10, <2>2, <2>3
<1> QED
  BY <1>1, <1>4, <1>7, <1>8, <1>9, <1>10 DEF Place, Doing

------------------------------------------------------------------------------
(***************************************************************************)
(* The invariant.                                                          *)
(***************************************************************************)
SetupInv == Typed /\ Spread /\ Control

LEMMA SetupInit ==
  ASSUME Init
  PROVE  SetupInv
<1>1. /\ \A c \in Components : list[c] = <<>> /\ cmds[c] = <<>>
      /\ list = [c \in Components |-> <<>>] /\ cmds = [c \in Components |-> <<>>]
      /\ used = [c \in Components |-> 0] /\ in_list = [c \in Components |-> 0]
      /\ coreInit = 0 /\ todo = Calls
  BY DEF Init, InitIlClient, Calls
<1>2. Typed
  <2>1. NumBufs \in Nat \ {0} /\ MaxFaults \in Nat /\ MaxReports \in Nat
    BY IlClientAssumption
  <2>2. TypedThread /\ TypedProgram
    BY DEF Init, InitIlClient, TypedThread, TypedProgram, Rets
  <2>3. TypedLibrary
    <3>1. \A c \in Components : list[c] \in Seq(Repertoire(c))
      BY <1>1, EmptySeq
    <3>2. flags \in [Components -> SUBSET Flags] /\ related \in [Components -> Components \cup {None}]
          /\ error_mask \in SUBSET Components
      BY DEF Init, InitIlClient
    <3> QED
      BY <1>1, <3>1, <3>2 DEF TypedLibrary
  <2>4. TypedBuffers
    BY <1>1, <2>1 DEF TypedBuffers
  <2>5. TypedComponents
    <3>1. \A c \in Components : cmds[c] \in Seq(Command(c))
      BY <1>1, EmptySeq
    <3>2. /\ cstate \in [Components -> States] /\ enabled \in SUBSET PortPairs
          /\ peer \in [PortPairs -> PortPairs \cup {NoPort}] /\ faults = 0 /\ reports = 0
      BY DEF Init, InitIlClient, States
    <3> QED
      BY <1>1, <2>1, <3>1, <3>2 DEF TypedComponents
  <2> QED
    BY <2>2, <2>3, <2>4, <2>5 DEF Typed
<1>3. Spread
  BY <1>1 DEF Spread
<1>4. Control
  <2>1. /\ 0 \in 0..16 /\ Later(0) = Calls /\ IsSeq(Calls)
    <3>1. 0 \in 0..16
      OBVIOUS
    <3> QED
      BY <3>1, LaterCalls, CallsAre
  <2>2. todo = <<>> \o Later(0)
    BY <1>1, <2>1, NoneJoin
  <2>3. \A j \in 5..7 : Fresh(SinkOf(j))
    <3>1. \A j \in 5..7 : SinkOf(j) \in Components
      BY SinkParts
    <3> QED
      BY <1>1, <3>1 DEF Fresh
  <2>4. Doing(0, <<>>)
    BY ProgNone DEF Doing
  <2>5. Place(0, <<>>)
    BY <1>1, <2>2, <2>3, <2>4 DEF Place, Bound
  <2> QED
    BY <2>1, <2>5 DEF Control
<1> QED
  BY <1>2, <1>3, <1>4 DEF SetupInv

\* The video scheduler thread looks whether the format of the stream is known.
LEMMA ControlNotice ==
  ASSUME Typed, sx_video_sink_buf_set
  PROVE  Control'
<1>1. Typed'
  BY DEF sx_video_sink_buf_set, Typed, TypedThread, TypedLibrary, TypedBuffers, TypedComponents,
     TypedProgram, library, components, program, Command, Repertoire, Order
<1> DEFINE y == RemoveEvent("video_decode", Changed("131"))
<1>2. todo' = <<>> \/ todo' = y \o Notice
  BY DEF sx_video_sink_buf_set, Notice, Noticed
<1>3. CASE todo' = y \o Notice
  <2>1. "video_decode" \in All.comps
    BY SinkParts DEF All, Around
  <2>2. Prog(All, y)
    BY <2>1, ProgRemove
  <2> HIDE DEF y
  <2>3. IsSeq(y \o Notice)
    <3>1. IsSeq(y) /\ IsSeq(Notice)
      BY <2>2, ProgSeq, OneSeq DEF Notice, IfOk, If
    <3> QED
      BY <3>1, JoinSeq
  <2> DEFINE x == y \o Notice
  <2>4. 16 \in 0..16 /\ Later(16) = <<>>
    <3>1. 16 \in 0..16
      OBVIOUS
    <3> QED
      BY <3>1, LaterCalls
  <2>5. todo' = x \o Later(16)
    <3> HIDE DEF x
    <3>1. x \o <<>> = x
      BY <2>3, NoneJoin DEF x
    <3> QED
      BY <1>3, <2>4, <3>1 DEF x
  <2>6. Doing(16, x)'
    BY <2>2 DEF Doing
  <2> HIDE DEF x
  <2>7. coreInit' <= Bound(16) /\ \A j \in 5..7 : ~(j > 16)
    BY <1>1 DEF Typed, TypedLibrary, Bound
  <2>8. Place(16, x)'
    BY <2>5, <2>6, <2>7 DEF Place
  <2> QED
    BY <2>4, <2>8 DEF Control
<1> QED
  BY <1>1, <1>2, <1>3, ControlEnd

LEMMA SetupStep ==
  ASSUME SetupInv, [Next]_vars
  PROVE  SetupInv'
<1>1. Typed /\ Spread /\ Control /\ HeadOK
  BY ControlHead DEF SetupInv
<1>2. CASE Main
  BY <1>1, <1>2, MainTyped, SpreadMain, ControlMain DEF SetupInv
\* These leave all but the thread as it is.
<1>3. ASSUME status' \in {"starting", "running", "aborted", "exited"},
             UNCHANGED <<ret, library, components, program>>
      PROVE  Typed' /\ Spread'
  BY <1>1, <1>3 DEF Typed, TypedThread, TypedLibrary, TypedBuffers, TypedComponents,
     TypedProgram, library, components, program, Command, Repertoire, Order, Spread
<1>4. CASE sx_thread_join
  <2>1. Typed' /\ Spread' /\ todo' = <<>>
    BY <1>3, <1>4 DEF sx_thread_join
  <2> QED
    BY <2>1, ControlEnd DEF SetupInv
<1>5. CASE sx_video_sink_buf_set
  <2>1. Typed' /\ Spread'
    BY <1>1, <1>3, <1>5 DEF sx_video_sink_buf_set, Typed, TypedThread
  <2> QED
    BY <1>1, <1>5, <2>1, ControlNotice DEF SetupInv
<1>6. CASE \E c \in Components : Hardware(c) /\ UNCHANGED program
  <2>1. PICK c \in Components : Works(c) /\ UNCHANGED program
    BY <1>6 DEF Hardware, Works
  <2>2. Typed' /\ Spread'
    BY <1>1, <2>1, HardwareTyped, SpreadHardware DEF Works
  <2>3. UNCHANGED <<todo, in_list, coreInit, used>>
    BY <1>1, <2>1, OthersStill DEF thread
  <2>4. Control'
    BY <1>1, <2>3 DEF Control, Place, Doing, Fresh
  <2> QED
    BY <2>2, <2>4 DEF SetupInv
<1>7. CASE UNCHANGED vars
  <2>1. UNCHANGED <<todo, ret, status, library, components, program>>
    BY <1>7 DEF vars, ilvars, thread
  <2>2. Typed' /\ Spread'
    BY <1>1, <1>3, <2>1 DEF Typed, TypedThread
  <2>3. Control'
    BY <1>1, <2>1 DEF Control, Place, Doing, Fresh, library, components
  <2> QED
    BY <2>2, <2>3 DEF SetupInv
<1> QED
  BY <1>2, <1>4, <1>5, <1>6, <1>7 DEF Next

THEOREM SetupInductive == Spec => []SetupInv
<1>1. Init => SetupInv
  BY SetupInit
<1>2. SetupInv /\ [Next]_vars => SetupInv'
  BY SetupStep
<1> QED
  BY <1>1, <1>2, PTL DEF Spec

\* What a component can be told and can report is an event of the program.
LEMMA RepertoireEvents ==
  ASSUME NEW c \in Components
  PROVE  /\ Repertoire(c) \subseteq Events
         /\ \A k \in Command(c) : Done(k.cmd, k.x) \in Events
<1>1. ASSUME NEW p \in Ports[c]
      PROVE  p \in UNION {Ports[d] : d \in Components}
  <2>1. Ports[c] \in {Ports[d] : d \in Components}
    OBVIOUS
  <2> QED
    BY <2>1
<1>2. ASSUME NEW cmd \in Cmds, NEW x, x \in States \cup Ports[c]
      PROVE  Done(cmd, x) \in Events
  <2>1. x \in States \cup UNION {Ports[d] : d \in Components}
    BY <1>1, <1>2
  <2> QED
    BY <2>1 DEF Events, Cmds
<1>3. OutputPort[c] # None => Changed(OutputPort[c]) \in Events
  <2>1. OutputPort[c] # None => OutputPort[c] \in Ports[c]
    BY IlClientAssumption
  <2> QED
    BY <1>1, <2>1 DEF Events
<1>4. /\ Failure("SameState") \in Events /\ Failure("IncorrectStateTransition") \in Events
      /\ Failure("InsufficientResources") \in Events /\ Unpopulated \in Events /\ Corrupt \in Events
  BY DEF Events
<1>5. /\ \A s \in {"Loaded", "Idle", "Executing"} : Done("StateSet", s) \in Events
      /\ \A p \in Ports[c] : Done("PortEnable", p) \in Events /\ Done("PortDisable", p) \in Events
  BY <1>2 DEF Cmds, States
<1>6. Repertoire(c) \subseteq Events
  BY <1>3, <1>4, <1>5 DEF Repertoire
<1>7. \A k \in Command(c) : Done(k.cmd, k.x) \in Events
  BY <1>2 DEF Command
<1> QED
  BY <1>6, <1>7

LEMMA TypedTypeOK ==
  ASSUME Typed
  PROVE  TypeOK
<1>1. TypedThread /\ TypedLibrary /\ TypedBuffers /\ TypedComponents /\ TypedProgram
  BY DEF Typed
<1>2. ASSUME NEW c \in Components
      PROVE  /\ ToSet(list[c]) \subseteq Events
             /\ flags[c] \subseteq {"StateSet", "PortEnable", "PortDisable", "Error",
                                    "ParameterChanged"}
             /\ related[c] \in Components \cup {None}
             /\ in_list[c] \in 0..used[c] /\ used[c] \in 0..NumBufs
             /\ cstate[c] \in States
             /\ \A i \in DOMAIN cmds[c] : Done(cmds[c][i].cmd, cmds[c][i].x) \in Events
  <2>1. ToSet(list[c]) \subseteq Repertoire(c)
    <3>1. list[c] \in Seq(Repertoire(c))
      BY <1>1 DEF TypedLibrary
    <3>2. \A i \in DOMAIN list[c] : list[c][i] \in Repertoire(c)
      BY <3>1, LenProperties, ElementOfSeq
    <3> QED
      BY <3>2 DEF ToSet
  <2>2. \A i \in DOMAIN cmds[c] : cmds[c][i] \in Command(c)
    <3>1. cmds[c] \in Seq(Command(c))
      BY <1>1 DEF TypedComponents
    <3> QED
      BY <3>1, LenProperties, ElementOfSeq
  <2>3. in_list[c] \in 0..used[c] /\ used[c] \in 0..NumBufs
    BY <1>1, IlClientAssumption DEF TypedBuffers
  <2>4. /\ flags[c] \subseteq Flags /\ related[c] \in Components \cup {None} /\ cstate[c] \in States
    BY <1>1 DEF TypedLibrary, TypedComponents
  <2> QED
    BY <2>1, <2>2, <2>3, <2>4, RepertoireEvents DEF Flags
<1> QED
  BY <1>1, <1>2 DEF TypeOK, TypedThread, TypedLibrary, TypedComponents, TypedProgram, Rets

\* TypeOK: whatever the components do, refuse or report, and wherever the program has
\* got to, the library hands out no buffer twice (in_list and used stay within the
\* buffers of the port), initialises the core at most three times, and keeps on its
\* lists only events of its components.
THEOREM TypeCorrect == Spec => []TypeOK
<1>1. SetupInv => TypeOK
  BY TypedTypeOK DEF SetupInv
<1> QED
  BY <1>1, SetupInductive, PTL

\* EventLeft: if the cells of each client suffice for one of each event its components
\* can report, and one more for each component, ilclient_event_handler() finds a cell
\* whenever it is called, and its assertion holds.  A list may hold an event twice,
\* but only until the next event comes.
THEOREM EventLeftCorrect ==
  ASSUME EnoughCells
  PROVE  Spec => []EventLeft
<1>1. SetupInv => EventLeft
  BY CellLeft DEF SetupInv, Typed, EventLeft
<1> QED
  BY <1>1, SetupInductive, PTL

------------------------------------------------------------------------------
(***************************************************************************)
(* What is known.  At each place of the start-up some facts hold: of a     *)
(* component that it is at rest, or what it has been asked; that it has    *)
(* been made, is up (idle or executing), is loaded, runs unless something  *)
(* has failed, is masked, has all its buffers; of a port that it is        *)
(* enabled, and which one it meets; which part has been initialised; and   *)
(* of the last call whether it worked.                                     *)
(***************************************************************************)
Fact(kind, c)      == <<kind, c, None, None>>
Resting(c)         == Fact("rest", c)
Asking(c, cmd, x)  == <<"asked", c, cmd, x>>
On(p)              == <<"on", p[1], p[2], None>>
Meets(p, q)        == <<"peer", p[1], p[2], q>>
Begun(part)        == <<"begun", None, part, None>>
Ok                 == Fact("ok", None)
Bad                == Fact("bad", None)

Holds(f) ==
    /\ f[1] = "rest"   => Rest(f[2])
    /\ f[1] = "asked"  => Asked(f[2], f[3], f[4])
    /\ f[1] = "made"   => cstate[f[2]] # "none"
    /\ f[1] = "up"     => cstate[f[2]] \in {"Idle", "Executing"}
    /\ f[1] = "loaded" => cstate[f[2]] = "Loaded"
    /\ f[1] = "ran"    => (faults = 0 => cstate[f[2]] = "Executing")
    /\ f[1] = "masked" => f[2] \in error_mask
    /\ f[1] = "full"   => in_list[f[2]] = NumBufs
    /\ f[1] = "on"     => <<f[2], f[3]>> \in enabled
    /\ f[1] = "peer"   => peer[<<f[2], f[3]>>] = f[4]
    /\ f[1] = "begun"  => f[3] \in initialised
    /\ f[1] = "ok"     => ret = 0
    /\ f[1] = "bad"    => ret # 0

\* What the start-up asks of a component.
Asks(c, cmd, x) == Order(c, cmd, x) /\ (cmd = "StateSet" => x # "Loaded")

\* Facts that the components cannot take away: each is at rest, or what it was asked
\* is known, and nothing that it may be about to change is.
Proper(a) ==
    /\ \A f \in a : f[1] \notin {"begun", "ok", "bad"} => f[2] \in Components
    /\ \A f \in a : f[1] = "peer" => <<f[2], f[3]>> \in PortPairs
    /\ \A c \in Components :
        Resting(c) \in a \/ \E cmd, x : Asking(c, cmd, x) \in a /\ Asks(c, cmd, x)
    /\ \A f \in a : f[1] = "on" => Asking(f[2], "PortEnable", f[3]) \notin a
    /\ \A f \in a : f[1] \in {"ran", "loaded"} => \A x : Asking(f[2], "StateSet", x) \notin a

LEMMA HardwareKeeps ==
  ASSUME Typed, NEW d \in Components, Works(d), UNCHANGED program,
         NEW a, Proper(a), \A f \in a : Holds(f)
  PROVE  \A f \in a : Holds(f)'
<1> SUFFICES ASSUME NEW f \in a
             PROVE  Holds(f)'
  OBVIOUS
<1> DEFINE c == f[2]
<1>1. /\ UNCHANGED <<ret, error_mask, in_list, peer, initialised>>
      /\ faults \in Nat /\ faults' \in Nat /\ faults' >= faults
  BY OthersStill DEF thread, program
<1>2. Holds(f)
  OBVIOUS
<1>3. CASE f[1] \notin {"rest", "asked", "made", "up", "loaded", "ran", "on"}
  BY <1>1, <1>2, <1>3 DEF Holds
<1>4. CASE f[1] \in {"rest", "asked", "made", "up", "loaded", "ran", "on"}
  <2>1. c \in Components
    BY <1>4 DEF Proper
  <2>2. CASE f[1] = "rest"
    <3>1. Rest(c)'
      BY <1>2, <2>1, <2>2, RestStable DEF Holds
    <3> QED
      BY <2>2, <3>1 DEF Holds
  <2>3. CASE f[1] = "asked"
    <3>1. Asked(f[2], f[3], f[4])'
      BY <1>2, <2>1, <2>3, AskedStable DEF Holds
    <3> QED
      BY <2>3, <3>1 DEF Holds
  <2>4. CASE f[1] \in {"made", "up", "loaded", "ran", "on"} /\ Resting(c) \in a
    <3>1. Rest(c)
      <4>1. Holds(Resting(c))
        BY <2>4
      <4> QED
        BY <4>1 DEF Holds, Resting, Fact
    <3>2. cstate'[c] = cstate[c] /\ \A p : <<c, p>> \in enabled' <=> <<c, p>> \in enabled
      BY <2>1, <3>1, RestStable
    <3> QED
      BY <1>1, <1>2, <2>4, <3>2 DEF Holds
  <2>5. CASE /\ f[1] \in {"made", "up", "loaded", "ran", "on"}
             /\ \E cmd, x : Asking(c, cmd, x) \in a /\ Asks(c, cmd, x)
    <3>1. PICK cmd, x : Asking(c, cmd, x) \in a /\ Asks(c, cmd, x)
      BY <2>5
    <3>2. Asked(c, cmd, x)
      <4>1. Holds(Asking(c, cmd, x))
        BY <3>1
      <4> QED
        BY <4>1 DEF Holds, Asking
    <3>3. /\ cstate'[c] = cstate[c] \/ (cmd = "StateSet" /\ cstate'[c] = x)
          /\ \A p : (cmd = "PortEnable" => p # x) => (<<c, p>> \in enabled' <=> <<c, p>> \in enabled)
      BY <2>1, <3>2, AskedStable
    <3>4. cmd = "StateSet" => x \in {"Idle", "Executing"}
      BY <3>1 DEF Asks, Order
    <3>5. f[1] = "on" => ~(cmd = "PortEnable" /\ f[3] = x)
      BY <3>1 DEF Proper
    <3>6. f[1] \in {"ran", "loaded"} => cmd # "StateSet"
      BY <3>1 DEF Proper
    <3> QED
      BY <1>1, <1>2, <2>5, <3>3, <3>4, <3>5, <3>6 DEF Holds
  <2> QED
    BY <1>4, <2>1, <2>2, <2>3, <2>4, <2>5 DEF Proper
<1> QED
  BY <1>3, <1>4

------------------------------------------------------------------------------
(***************************************************************************)
(* A start-up that is lost: a call has failed, and what is left ends with  *)
(* the assertion on its result.                                            *)
(***************************************************************************)
Failing == {r \in Rets : r # 0}
Demands(k) == \E m : IsSeq(m) /\ k = Demand \o m
Fails(k) ==
    \/ Demands(k)
    \/ \E a, y, m : \E r \in Failing :
        Prog(All, y) /\ Demands(m) /\ k = IfOk(a, y \o Return(r)) \o m
Doomed(k) ==
    \E y, m : \E r \in Failing : Prog(All, y) /\ Fails(m) /\ k = y \o (Return(r) \o m)

Lost(a, k) == Doomed(k) \/ (Bad \in a /\ Fails(k))
LostNow == Doomed(todo) \/ (ret # 0 /\ Fails(todo))

(***************************************************************************)
(* What is known after a step of the start-up, and what must be known      *)
(* before it.                                                              *)
(***************************************************************************)
Mute(a)     == {f \in a : f[1] \notin {"ok", "bad"}}
Worked(a)   == Mute(a) \cup {Ok}
Failed(a)   == Mute(a) \cup {Bad}

Sent(a, c, cmd, x) ==
    {f \in a : f[2] = c => /\ f[1] \notin {"rest", "asked"}
                           /\ cmd = "StateSet" => f[1] \notin {"ran", "loaded"}
                           /\ cmd # "StateSet" => ~(f[1] = "on" /\ f[3] = x)}
        \cup {Asking(c, cmd, x)}

Answer(a, c) == {f \in Mute(a) : f[2] = c => f[1] # "asked"} \cup {Resting(c)}
Reached(c, cmd, x) ==
    (IF cmd = "PortEnable" THEN {On(<<c, x>>)} ELSE {})
        \cup (IF cmd = "StateSet" THEN {Fact("up", c)} ELSE {})
        \cup (IF cmd = "StateSet" /\ x = "Executing" THEN {Fact("ran", c)} ELSE {})
Excused(c, cmd) == IF cmd = "StateSet" THEN {Fact("ran", c)} ELSE {}

Masked(a, C)   == a \cup {Fact("masked", c) : c \in C}
Unmasked(a, C) == {f \in a : f[2] \in C => f[1] \notin {"masked", "asked"}}

Made(a, c) ==
    {f \in a : f[2] = c => f[1] \notin {"asked", "up", "ran", "loaded"}}
        \cup {Fact("loaded", c), Fact("made", c)}

Met(a, p, q) ==
    {f \in a : f[1] = "peer" => <<f[2], f[3]>> \notin {p, q}} \cup {Meets(p, q), Meets(q, p)}

Filled(a, c) == a \cup {Fact("full", c)}
Unfilled(a, c) == {f \in a : f[2] = c => f[1] # "full"}

\* What must be known when the first thread is created.
Tunnel(i) == IF i = 5 THEN ClockToScheduler ELSE ClockToRender(i - 5)
ClockOf(i) == Tunnel(i)[1][1]
SinkFacts(i) ==
    LET t == Tunnel(i)
        c == SinkOf(i)
    IN  {Meets(t[1], t[2]), Meets(t[2], t[1]), On(t[1]), On(t[2]), On(<<c, InputPort[c]>>),
         Fact("full", c), Fact("up", c), Fact("ran", c),
         Fact("up", ClockOf(i)), Fact("ran", ClockOf(i))}
Quiet == {Resting(c) : c \in Components}
Goal ==
    Quiet \cup {Begun(part) : part \in ToSet(Parts)} \cup SinkFacts(5) \cup SinkFacts(6)
        \cup SinkFacts(7)

(***************************************************************************)
(* P is a set of pairs of facts and programs.  It is sound if from each of *)
(* them every step leads to another, or is lost.                           *)
(***************************************************************************)
Goes(P, a, k) == Lost(a, k) \/ \E b \in SUBSET a : <<b, k>> \in P

FitsBranch(P, a, s, r) ==
    /\ IsSeq(s.yes) /\ IsSeq(s.no)
    /\ s.kind \in {"returned", "loaded", "idle", "enabled"}
    /\ s.kind = "returned" =>
        /\ s.of = 0
        /\ Bad \in a \/ Goes(P, a \cup {Ok}, s.yes \o r)
        /\ Ok \in a \/ Goes(P, a \cup {Bad}, s.no \o r)
    /\ s.kind = "loaded" =>
        /\ s.of \in Components
        /\ Goes(P, a \cup {Fact("loaded", s.of)}, s.yes \o r)
        /\ Goes(P, IF Fact("made", s.of) \in a THEN a \cup {Fact("up", s.of)} ELSE a, s.no \o r)
    /\ s.kind = "idle" => /\ s.of \in Components
                          /\ Goes(P, a \cup {Fact("up", s.of)}, s.yes \o r)
                          /\ Goes(P, a, s.no \o r)
    /\ s.kind = "enabled" => Goes(P, a, s.yes \o r) /\ Goes(P, a, s.no \o r)

FitsSend(P, a, s, r) ==
    /\ Resting(s.c) \in a /\ Asks(s.c, s.a, s.x)
    /\ s.a = "PortDisable" => Fact("loaded", s.c) \in a \/ Fact("masked", s.c) \in a
    /\ Goes(P, Sent(a, s.c, s.a, s.x), r)

FitsWait(P, a, s, r) ==
    /\ Asking(s.c, s.a, s.x) \in a /\ Asks(s.c, s.a, s.x)
    /\ \A op \in {"await", "blocked"} : Goes(P, a, <<[s EXCEPT !.op = op]>> \o r)
    /\ Goes(P, Worked(Answer(a, s.c) \cup Reached(s.c, s.a, s.x)), r)
    /\ Goes(P, Failed(Answer(a, s.c) \cup Excused(s.c, s.a)), r)
    /\ s.other # None => Goes(P, Failed(a), r)

FitsEither(P, a, r) == Goes(P, Worked(a), r) /\ Goes(P, Failed(a), r)

FitsLoop(P, a, s, r) ==
    /\ s.x = {} => Goes(P, a, r)
    /\ s.x # {} => \E p \in s.x :
           /\ p = CHOOSE q \in s.x : TRUE
           /\ Goes(P, a, (DisablePort(s.c, p) \o <<[s EXCEPT !.x = @ \ {p}]>>) \o r)

FitsMask(P, a, s, r) ==
    /\ s.a \in BOOLEAN
    /\ s.a => Goes(P, Masked(a, s.c), r)
    /\ ~s.a => Goes(P, Unmasked(a, s.c), r)

FitsConnect(P, a, s, r) ==
    /\ s.a \in PortPairs /\ s.x \in PortPairs /\ s.a # s.x
    /\ Goes(P, Worked(Met(a, s.a, s.x)), r) /\ Goes(P, Failed(a), r)

FitsStep(P, a, s, r) ==
    /\ s.op \in {"if", "return", "assert", "configure", "OMX_Init", "remove", "send", "await",
                 "blocked", "disable all", "mask", "relate", "use", "OMX_GetHandle",
                 "OMX_SetupTunnel", "call", "open"}
    /\ s.op = "if" => FitsBranch(P, a, s, r)
    /\ s.op = "return" => Goes(P, IF s.a = 0 THEN Worked(a) ELSE Failed(a), r)
    /\ s.op = "assert" => Goes(P, Worked(a), r)
    /\ s.op \in {"configure", "OMX_Init", "remove"} => FitsEither(P, a, r)
    /\ s.op = "remove" => Resting(s.c) \in a
    /\ s.op = "send" => FitsSend(P, a, s, r)
    /\ s.op \in {"await", "blocked"} => FitsWait(P, a, s, r)
    /\ s.op = "disable all" => FitsLoop(P, a, s, r)
    /\ s.op = "mask" => FitsMask(P, a, s, r)
    /\ s.op = "relate" => Goes(P, a, r)
    /\ s.op = "use" => Goes(P, Worked(Filled(a, s.c)), r) /\ Goes(P, Failed(Unfilled(a, s.c)), r)
    /\ s.op = "OMX_GetHandle" =>
        Resting(s.c) \in a /\ Goes(P, Worked(Made(a, s.c)), r) /\ Goes(P, Failed(a), r)
    /\ s.op = "OMX_SetupTunnel" => FitsConnect(P, a, s, r)
    /\ s.op = "call" => Goes(P, a \cup {Begun(s.a)}, Body(s.a) \o r)
    /\ s.op = "open" => /\ Goal \subseteq a /\ (r = <<>> \/ Head(r).op = "open")
                        /\ \E b \in SUBSET a : <<b, r>> \in P

Fits(P, a, k) ==
    /\ IsSeq(k)
    /\ k = <<>> => Goal \subseteq a
    /\ k # <<>> => FitsStep(P, a, Head(k), Tail(k))

Sound(P) ==
    \A z \in P : /\ z = <<z[1], z[2]>>
                 /\ Proper(z[1]) /\ Fits(P, z[1], z[2])

Good(a, k) == \E P : Sound(P) /\ Goes(P, a, k)

LEMMA GoesMore ==
  ASSUME NEW P, NEW Q, P \subseteq Q, NEW a, NEW b, a \subseteq b, NEW k, Goes(P, a, k)
  PROVE  Goes(Q, b, k)
<1>1. Lost(a, k) => Lost(b, k)
  BY DEF Lost
<1> QED
  BY <1>1 DEF Goes

LEMMA FitsMore ==
  ASSUME NEW P, NEW Q, P \subseteq Q, NEW a, NEW k, Fits(P, a, k)
  PROVE  Fits(Q, a, k)
<1>1. \A b, m : Goes(P, b, m) => Goes(Q, b, m)
  BY GoesMore
<1> DEFINE s == Head(k)
           r == Tail(k)
<1> SUFFICES ASSUME k # <<>>
             PROVE  FitsStep(Q, a, s, r)
  BY DEF Fits
<1>2. FitsStep(P, a, s, r)
  BY DEF Fits
<1> HIDE DEF s, r
<1>3. s.op = "if" => FitsBranch(Q, a, s, r)
  BY <1>1, <1>2 DEF FitsStep, FitsBranch
<1>4. s.op = "send" => FitsSend(Q, a, s, r)
  BY <1>1, <1>2 DEF FitsStep, FitsSend
<1>5. s.op \in {"await", "blocked"} => FitsWait(Q, a, s, r)
  BY <1>1, <1>2 DEF FitsStep, FitsWait
<1>6. s.op = "disable all" => FitsLoop(Q, a, s, r)
  BY <1>1, <1>2 DEF FitsStep, FitsLoop
<1>7. s.op = "mask" => FitsMask(Q, a, s, r)
  BY <1>1, <1>2 DEF FitsStep, FitsMask
<1>8. s.op = "OMX_SetupTunnel" => FitsConnect(Q, a, s, r)
  BY <1>1, <1>2 DEF FitsStep, FitsConnect
<1>9. s.op \in {"configure", "OMX_Init", "remove"} => FitsEither(Q, a, r)
  BY <1>1, <1>2 DEF FitsStep, FitsEither
<1> QED
  BY <1>1, <1>2, <1>3, <1>4, <1>5, <1>6, <1>7, <1>8, <1>9 DEF FitsStep

LEMMA SoundUnion ==
  ASSUME NEW P, NEW Q, Sound(P), Sound(Q)
  PROVE  Sound(P \cup Q)
<1>1. ASSUME NEW z \in P \cup Q
      PROVE  /\ z = <<z[1], z[2]>>
             /\ Proper(z[1]) /\ Fits(P \cup Q, z[1], z[2])
  <2>1. \E R \in {P, Q} : z = <<z[1], z[2]>> /\ Proper(z[1]) /\ Fits(R, z[1], z[2])
    BY DEF Sound
  <2> QED
    BY <2>1, FitsMore
<1> QED
  BY <1>1 DEF Sound

LEMMA SoundMore ==
  ASSUME NEW P, Sound(P), NEW Q,
         \A z \in Q : z = <<z[1], z[2]>> /\ Proper(z[1]) /\ Fits(P \cup Q, z[1], z[2])
  PROVE  Sound(P \cup Q)
<1>1. ASSUME NEW z \in P
      PROVE  z = <<z[1], z[2]>> /\ Proper(z[1]) /\ Fits(P \cup Q, z[1], z[2])
  <2>1. z = <<z[1], z[2]>> /\ Proper(z[1]) /\ Fits(P, z[1], z[2])
    BY DEF Sound
  <2> QED
    BY <2>1, FitsMore
<1> QED
  BY <1>1 DEF Sound

\* One more place, from which every step leads to a place of P.
LEMMA GoodStep ==
  ASSUME NEW P, Sound(P), NEW a, NEW k, Proper(a), Fits(P, a, k)
  PROVE  Good(a, k)
<1> DEFINE z == <<a, k>>
           Q == {z}
<1>1. z = <<z[1], z[2]>> /\ Proper(z[1]) /\ Fits(P \cup Q, z[1], z[2])
  BY FitsMore
<1>2. Sound(P \cup Q)
  BY <1>1, SoundMore
<1>3. Goes(P \cup Q, a, k)
  BY DEF Goes
<1> QED
  BY <1>2, <1>3 DEF Good

LEMMA GoodMore ==
  ASSUME NEW a, NEW b, a \subseteq b, NEW k, Good(a, k)
  PROVE  Good(b, k)
BY GoesMore DEF Good

LEMMA GoodTwo ==
  ASSUME NEW a, NEW k, NEW b, NEW m, Good(a, k), Good(b, m)
  PROVE  \E P : Sound(P) /\ Goes(P, a, k) /\ Goes(P, b, m)
<1>1. PICK P : Sound(P) /\ Goes(P, a, k)
  BY DEF Good
<1>2. PICK Q : Sound(Q) /\ Goes(Q, b, m)
  BY DEF Good
<1>3. Sound(P \cup Q)
  BY <1>1, <1>2, SoundUnion
<1>4. Goes(P \cup Q, a, k) /\ Goes(P \cup Q, b, m)
  BY <1>1, <1>2, GoesMore
<1> QED
  BY <1>3, <1>4

------------------------------------------------------------------------------
(***************************************************************************)
(* What the steps do to what is known.                                     *)
(***************************************************************************)
LEMMA FactKept ==
  ASSUME NEW f, Holds(f), faults \in Nat, faults' \in Nat, faults' >= faults,
         f[1] = "begun" => initialised \subseteq initialised',
         f[1] \in {"ok", "bad"} => ret' = ret,
         f[1] = "peer" => peer'[<<f[2], f[3]>>] = peer[<<f[2], f[3]>>],
         f[1] \in {"rest", "asked"} => Untouched(f[2]),
         f[1] = "asked" => (f[2] \in error_mask => f[2] \in error_mask'),
         f[1] \in {"made", "up", "loaded", "ran"} => cstate'[f[2]] = cstate[f[2]],
         f[1] = "masked" => (f[2] \in error_mask => f[2] \in error_mask'),
         f[1] = "full" => in_list'[f[2]] = in_list[f[2]],
         f[1] = "on" => (<<f[2], f[3]>> \in enabled => <<f[2], f[3]>> \in enabled')
  PROVE  Holds(f)'
<1> DEFINE c == f[2]
<1>1. CASE f[1] = "rest"
  <2>1. Rest(c) /\ Untouched(c)
    BY <1>1 DEF Holds
  <2>2. Rest(c)'
    BY <2>1 DEF Rest, Untouched, NoAnswer
  <2> QED
    BY <1>1, <2>2 DEF Holds
<1>2. CASE f[1] = "asked"
  <2>1. Asked(c, f[3], f[4]) /\ Untouched(c) /\ (c \in error_mask => c \in error_mask')
    BY <1>2 DEF Holds
  <2> HIDE DEF c
  <2>2. Ordered(c, f[3], f[4]) => Ordered(c, f[3], f[4])'
    BY <2>1 DEF Ordered, Untouched, NoAnswer
  <2>3. Answered(c, f[3], f[4]) => Answered(c, f[3], f[4])'
    <3>1. ASSUME NEW ev, OneAnswer(c, ev), Says(c, f[3], f[4], ev)
          PROVE  OneAnswer(c, ev)' /\ Says(c, f[3], f[4], ev)'
      BY <2>1, <3>1 DEF OneAnswer, Says, Untouched
    <3> QED
      BY <2>1, <3>1 DEF Answered, Untouched
  <2>4. Asked(c, f[3], f[4])'
    BY <2>1, <2>2, <2>3 DEF Asked, Untouched
  <2> QED
    BY <1>2, <2>4 DEF Holds, c
<1>3. CASE f[1] \notin {"rest", "asked"}
  BY <1>3 DEF Holds
<1> QED
  BY <1>1, <1>2, <1>3

\* Nothing changes but the value of the last call, and the counter of the faults grows.
LEMMA MuteKept ==
  ASSUME UNCHANGED <<list, cmds, cstate, enabled, error_mask, in_list, peer, initialised>>,
         faults \in Nat, faults' \in Nat, faults' >= faults,
         NEW a, \A f \in a : Holds(f)
  PROVE  /\ \A f \in Mute(a) : Holds(f)'
         /\ ret' = 0 => \A f \in Worked(a) : Holds(f)'
         /\ ret' # 0 => \A f \in Failed(a) : Holds(f)'
         /\ ret' = ret => \A f \in a : Holds(f)'
<1>1. ASSUME NEW f \in a, f[1] \in {"ok", "bad"} => ret' = ret
      PROVE  Holds(f)'
  BY <1>1, FactKept DEF Untouched
<1>2. (ret' = 0 => Holds(Ok)') /\ (ret' # 0 => Holds(Bad)')
  BY DEF Holds, Ok, Bad, Fact
<1> QED
  BY <1>1, <1>2 DEF Mute, Worked, Failed

\* The step leads to another place of P, where what is known is so.
Leads(P) == \E b : Goes(P, b, todo') /\ \A f \in b : Holds(f)'

LEMMA FaultsAre ==
  ASSUME Typed
  PROVE  faults \in Nat /\ faults >= 0
BY IlClientAssumption DEF Typed, TypedComponents

LEMMA LeadsBranch ==
  ASSUME Typed, Main, NEW P, NEW a, \A f \in a : Holds(f),
         Head(todo).op = "if", FitsBranch(P, a, Head(todo), Tail(todo))
  PROVE  Leads(P) /\ status' = status /\ opened' = opened
<1> DEFINE s == Head(todo)
           r == Tail(todo)
<1>1. Branch /\ UNCHANGED program /\ todo # <<>>
  BY Dispatch
<1>2. /\ UNCHANGED <<ret, status, library, components>>
      /\ s.kind = "returned" => todo' = (IF ret = s.of THEN s.yes ELSE s.no) \o r
      /\ s.kind = "loaded" => todo' = (IF cstate[s.of] = "Loaded" THEN s.yes ELSE s.no) \o r
      /\ s.kind = "idle" =>
            todo' = (IF cstate[s.of] \in {"Idle", "Executing"} THEN s.yes ELSE s.no) \o r
      /\ s.kind = "enabled" => todo' = (IF s.of \in enabled THEN s.yes ELSE s.no) \o r
  BY <1>1 DEF Branch
<1> HIDE DEF s, r
<1>3. ASSUME NEW b, \A f \in b : Holds(f), Goes(P, b, todo')
      PROVE  Leads(P)
  <2>1. \A f \in b : Holds(f)'
    <3>1. /\ UNCHANGED <<list, cmds, cstate, enabled, error_mask, in_list, peer, initialised>>
          /\ UNCHANGED <<ret, faults>> /\ faults \in Nat
      BY <1>1, <1>2, FaultsAre DEF library, components, program
    <3> QED
      BY <1>3, <3>1, MuteKept
  <2> QED
    BY <1>3, <2>1 DEF Leads
<1>4. /\ FitsBranch(P, a, s, r)
      /\ s.kind \in {"returned", "loaded", "idle", "enabled"}
  BY DEF FitsBranch, s, r
<1>5. CASE s.kind = "returned"
  <2>1. s.of = 0
    BY <1>4, <1>5 DEF FitsBranch
  <2>2. CASE ret = 0
    <3>1. Bad \notin a
      BY <2>2 DEF Holds, Bad, Fact
    <3>2. Goes(P, a \cup {Ok}, s.yes \o r) /\ \A f \in a \cup {Ok} : Holds(f)
      BY <1>4, <1>5, <2>2, <3>1 DEF FitsBranch, Holds, Ok, Fact
    <3> QED
      BY <1>1, <1>2, <1>3, <1>5, <2>1, <2>2, <3>2 DEF program
  <2>3. CASE ret # 0
    <3>1. Ok \notin a
      BY <2>3 DEF Holds, Ok, Fact
    <3>2. Goes(P, a \cup {Bad}, s.no \o r) /\ \A f \in a \cup {Bad} : Holds(f)
      BY <1>4, <1>5, <2>3, <3>1 DEF FitsBranch, Holds, Bad, Fact
    <3> QED
      BY <1>1, <1>2, <1>3, <1>5, <2>1, <2>3, <3>2 DEF program
  <2> QED
    BY <2>2, <2>3
<1>6. CASE s.kind = "loaded"
  <2> DEFINE c == s.of
  <2>1. c \in Components /\ cstate[c] \in States
    BY <1>4, <1>6 DEF FitsBranch, Typed, TypedComponents
  <2>2. CASE cstate[c] = "Loaded"
    <3>1. Goes(P, a \cup {Fact("loaded", c)}, s.yes \o r)
          /\ \A f \in a \cup {Fact("loaded", c)} : Holds(f)
      BY <1>4, <1>6, <2>2 DEF FitsBranch, Holds, Fact
    <3> QED
      BY <1>1, <1>2, <1>3, <1>6, <2>2, <3>1 DEF program
  <2>3. CASE cstate[c] # "Loaded"
    <3> DEFINE b == IF Fact("made", c) \in a THEN a \cup {Fact("up", c)} ELSE a
    <3>1. Goes(P, b, s.no \o r)
      BY <1>4, <1>6, <2>3 DEF FitsBranch
    <3>2. Fact("made", c) \in a => Holds(Fact("up", c))
      <4>1. Fact("made", c) \in a => cstate[c] # "none"
        BY DEF Holds, Fact
      <4> QED
        BY <2>1, <2>3, <4>1 DEF Holds, Fact, States
    <3>3. \A f \in b : Holds(f)
      BY <3>2
    <3> HIDE DEF b
    <3> QED
      BY <1>1, <1>2, <1>3, <1>6, <2>3, <3>1, <3>3 DEF program
  <2> QED
    BY <2>2, <2>3
<1>7. CASE s.kind = "idle"
  <2> DEFINE c == s.of
  <2>2. CASE cstate[c] \in {"Idle", "Executing"}
    <3>1. Goes(P, a \cup {Fact("up", c)}, s.yes \o r)
          /\ \A f \in a \cup {Fact("up", c)} : Holds(f)
      BY <1>4, <1>7, <2>2 DEF FitsBranch, Holds, Fact
    <3> QED
      BY <1>1, <1>2, <1>3, <1>7, <2>2, <3>1 DEF program
  <2>3. CASE cstate[c] \notin {"Idle", "Executing"}
    BY <1>1, <1>2, <1>3, <1>4, <1>7, <2>3 DEF FitsBranch, program
  <2> QED
    BY <2>2, <2>3
<1>8. CASE s.kind = "enabled"
  BY <1>1, <1>2, <1>3, <1>4, <1>8 DEF FitsBranch, program
<1> QED
  BY <1>4, <1>5, <1>6, <1>7, <1>8

\* The steps that only return something.
LEMMA LeadsReturn ==
  ASSUME Typed, Main, NEW P, NEW a, \A f \in a : Holds(f),
         Head(todo).op \in {"return", "assert", "configure", "OMX_Init", "relate"},
         FitsStep(P, a, Head(todo), Tail(todo))
  PROVE  Aborts \/ (Leads(P) /\ status' = status /\ opened' = opened)
<1> DEFINE s == Head(todo)
           r == Tail(todo)
<1>1. UNCHANGED program /\ todo # <<>>
  BY Dispatch
<1>2. faults \in Nat /\ faults >= 0
  BY FaultsAre
<1>3. ASSUME UNCHANGED <<list, cmds, cstate, enabled, error_mask, in_list, peer>>,
             faults' \in Nat, faults' >= faults
      PROVE  /\ ret' = 0 => \A f \in Worked(a) : Holds(f)'
             /\ ret' # 0 => \A f \in Failed(a) : Holds(f)'
             /\ ret' = ret => \A f \in a : Holds(f)'
  BY <1>1, <1>2, <1>3, MuteKept DEF program
<1>4. CASE s.op = "return"
  <2>1. todo' = r /\ ret' = s.a /\ UNCHANGED <<status, library, components>>
    BY <1>4, Dispatch DEF ReturnValue, Returns
  <2>2. Goes(P, IF s.a = 0 THEN Worked(a) ELSE Failed(a), r)
    BY <1>4 DEF FitsStep
  <2> HIDE DEF s, r
  <2>3. \A f \in (IF s.a = 0 THEN Worked(a) ELSE Failed(a)) : Holds(f)'
    BY <1>2, <1>3, <2>1 DEF library, components
  <2> QED
    BY <1>1, <2>1, <2>2, <2>3 DEF Leads, program
<1>5. CASE s.op = "assert"
  <2>1. CheckResult
    BY <1>5, Dispatch
  <2>2. CASE ret = 0
    <3>1. todo' = r /\ UNCHANGED <<ret, status, library, components>>
      BY <2>1, <2>2 DEF CheckResult
    <3>2. Goes(P, Worked(a), r)
      BY <1>5 DEF FitsStep
    <3>3. \A f \in Worked(a) : Holds(f)'
      BY <1>2, <1>3, <2>2, <3>1 DEF library, components
    <3> HIDE DEF s, r
    <3> QED
      BY <1>1, <3>1, <3>2, <3>3 DEF Leads, program
  <2>3. CASE ret # 0
    BY <2>1, <2>3 DEF CheckResult, Aborts
  <2> QED
    BY <2>2, <2>3
<1>6. CASE s.op \in {"configure", "OMX_Init"}
  <2>1. /\ todo' = r /\ ret' \in {0, -1}
        /\ UNCHANGED <<status, list, cmds, cstate, enabled, error_mask, in_list, peer>>
        /\ faults' = faults \/ faults' = faults + 1
    <3>1. CASE s.op = "configure"
      <4>1. Configure
        BY <3>1, Dispatch
      <4>2. PICK e \in {0, -1} : faults' = faults - e /\ Returns(e)
        BY <4>1 DEF Configure
      <4> QED
        BY <1>2, <4>1, <4>2 DEF Configure, Returns, library
    <3>2. CASE s.op = "OMX_Init"
      <4>1. OMX_Init
        BY <3>2, Dispatch
      <4> QED
        BY <1>2, <4>1 DEF OMX_Init, Returns
    <3> QED
      BY <1>6, <3>1, <3>2
  <2>2. Goes(P, Worked(a), r) /\ Goes(P, Failed(a), r)
    BY <1>6 DEF FitsStep, FitsEither
  <2> HIDE DEF s, r
  <2>3. CASE ret' = 0
    BY <1>1, <1>2, <1>3, <2>1, <2>2, <2>3 DEF Leads, program
  <2>4. CASE ret' # 0
    BY <1>1, <1>2, <1>3, <2>1, <2>2, <2>4 DEF Leads, program
  <2> QED
    BY <2>3, <2>4
<1>7. CASE s.op = "relate"
  <2>1. /\ todo' = r /\ ret' = ret
        /\ UNCHANGED <<status, list, error_mask, in_list, components>>
    BY <1>7, Dispatch DEF Relate, Returns
  <2>2. Goes(P, a, r)
    BY <1>7 DEF FitsStep
  <2> HIDE DEF s, r
  <2> QED
    BY <1>1, <1>2, <1>3, <2>1, <2>2 DEF Leads, program, components
<1> QED
  BY <1>4, <1>5, <1>6, <1>7

\* A component at rest gets an order.
LEMMA LeadsSend ==
  ASSUME Typed, Main, NEW P, NEW a, Proper(a), \A f \in a : Holds(f),
         Head(todo).op = "send", FitsSend(P, a, Head(todo), Tail(todo))
  PROVE  Leads(P) /\ status' = status /\ opened' = opened
<1>0. PICK s, r : s = Head(todo) /\ r = Tail(todo)
  OBVIOUS
<1> DEFINE c == s.c
           cmd == s.a
           x == s.x
           e == IF cmd = "PortEnable" THEN enabled \cup {<<c, x>>}
                ELSE IF cmd = "PortDisable" THEN enabled \ {<<c, x>>} ELSE enabled
<1>1. UNCHANGED program /\ todo # <<>> /\ SendCommand
  BY Dispatch
<1>2. /\ Resting(c) \in a /\ Asks(c, cmd, x)
      /\ cmd = "PortDisable" => Fact("loaded", c) \in a \/ Fact("masked", c) \in a
      /\ Goes(P, Sent(a, c, cmd, x), r)
  BY <1>0 DEF FitsSend
<1>k. PICK k : k = [cmd |-> cmd, x |-> x, same |-> cmd = "PortDisable" /\ <<c, x>> \notin enabled]
  OBVIOUS
<1>3. /\ todo' = r /\ UNCHANGED <<ret, status, library, cstate, peer, used, faults>>
      /\ cmds' = [cmds EXCEPT ![c] = Append(cmds[c], k)]
      /\ enabled' = e
  <2>1. /\ todo' = r /\ UNCHANGED <<ret, status, library, cstate, peer, used, faults>>
        /\ cmds' = [cmds EXCEPT ![c] = Append(cmds[c], k)]
    BY <1>0, <1>1, <1>k DEF SendCommand, Returns
  <2>2. enabled' = CASE cmd = "PortEnable"  -> enabled \cup {<<c, x>>}
                     [] cmd = "PortDisable" -> enabled \ {<<c, x>>}
                     [] OTHER               -> enabled
    BY <1>0, <1>1 DEF SendCommand
  <2>3. enabled' = e
    BY <2>2, Zenon
  <2> QED
    BY <2>1, <2>3
<1>4. c \in Components /\ Rest(c)
  <2>1. Resting(c)[1] = "rest" /\ Resting(c)[2] = c /\ Holds(Resting(c))
    BY <1>2 DEF Resting, Fact
  <2> QED
    BY <1>2, <2>1 DEF Holds, Proper
<1> HIDE DEF c, cmd, x
<1>5. /\ cmds'[c] = <<k>> /\ \A d \in Components : d # c => cmds'[d] = cmds[d]
      /\ UNCHANGED <<list, error_mask, in_list, initialised>>
      /\ \A p : <<p[1], p[2]>> # <<c, x>> => (<<p[1], p[2]>> \in enabled' <=> <<p[1], p[2]>> \in enabled)
      /\ cmd = "PortEnable" => <<c, x>> \in enabled'
      /\ cmd = "StateSet" => enabled' = enabled
  <2>1. cmds[c] = <<>> /\ cmds = [d \in Components |-> cmds[d]]
    BY <1>4 DEF Rest, Typed, TypedComponents
  <2>2. Append(<<>>, k) = <<k>>
    OBVIOUS
  <2>3. cmds'[c] = <<k>> /\ \A d \in Components : d # c => cmds'[d] = cmds[d]
    BY <1>3, <1>4, <2>1, <2>2
  <2>4. cmd \in Cmds
    BY <1>2 DEF Asks, Order, Cmds
  <2> QED
    BY <1>1, <1>3, <2>3, <2>4 DEF library, program, Cmds
<1>6. Asked(c, cmd, x)'
  <2>1. Len(<<k>>) = 1 /\ Head(<<k>>) = k /\ k.cmd = cmd /\ k.x = x
    BY <1>k
  <2>5. cmd = "PortEnable" => k.same = FALSE
    BY <1>k
  <2>2. NoAnswer(c)'
    BY <1>4, <1>5 DEF Rest, NoAnswer
  <2>3. Ordered(c, cmd, x)'
    <3> DEFINE h == Head(cmds'[c])
    <3>1. Len(cmds'[c]) = 1 /\ h = k
      BY <1>5, <2>1
    <3> HIDE DEF h
    <3>2. h.cmd = cmd /\ h.x = x
      BY <2>1, <3>1
    <3>3. cmd = "PortEnable" => h.same = FALSE
      BY <2>5, <3>1, Zenon
    <3>4. cmd = "PortEnable" => ~h.same
      BY <3>3
    <3> USE DEF h
    <3> QED
      BY <1>5, <2>2, <3>1, <3>2, <3>4 DEF Ordered
  <2>4. cmd = "PortDisable" => cstate[c] = "Loaded" \/ c \in error_mask
    <3>1. Holds(Fact("loaded", c)) => cstate[c] = "Loaded"
      BY DEF Holds, Fact
    <3>2. Holds(Fact("masked", c)) => c \in error_mask
      BY DEF Holds, Fact
    <3> QED
      BY <1>2, <3>1, <3>2
  <2> QED
    BY <1>3, <1>5, <2>3, <2>4 DEF Asked
<1>7. ASSUME NEW f \in a, f[2] = c => f[1] \notin {"rest", "asked"},
             f[2] = c => (cmd # "StateSet" => ~(f[1] = "on" /\ f[3] = x))
      PROVE  Holds(f)'
  <2>1. faults \in Nat /\ Holds(f)
    BY FaultsAre
  <2>2. f[1] \in {"rest", "asked"} => Untouched(f[2])
    <3> SUFFICES ASSUME f[1] \in {"rest", "asked"}
                 PROVE  Untouched(f[2])
      OBVIOUS
    <3>1. f[2] # c
      BY <1>7
    <3>4. f[2] \in Components
      <4>1. f[1] \notin {"begun", "ok", "bad"}
        OBVIOUS
      <4> QED
        BY <1>7, <4>1 DEF Proper
    <3>2. \A p : <<f[2], p>> \in enabled' <=> <<f[2], p>> \in enabled
      <4> TAKE p
      <4>1. <<f[2], p>> # <<c, x>>
        BY <3>1
      <4> DEFINE q == <<f[2], p>>
      <4>2. q[1] = f[2] /\ q[2] = p
        OBVIOUS
      <4> HIDE DEF q
      <4> QED
        BY <1>5, <4>1, <4>2
    <3> QED
      BY <1>3, <1>5, <3>1, <3>2, <3>4 DEF Untouched
  <2>3. f[1] = "on" => (<<f[2], f[3]>> \in enabled => <<f[2], f[3]>> \in enabled')
    <3> SUFFICES ASSUME f[1] = "on"
                 PROVE  <<f[2], f[3]>> \in enabled => <<f[2], f[3]>> \in enabled'
      OBVIOUS
    <3>1. CASE cmd = "StateSet"
      BY <1>5, <3>1
    <3>2. CASE cmd # "StateSet"
      <4>1. <<f[2], f[3]>> # <<c, x>>
        BY <1>7, <3>2
      <4> DEFINE q == <<f[2], f[3]>>
      <4>2. q[1] = f[2] /\ q[2] = f[3]
        OBVIOUS
      <4> HIDE DEF q
      <4> QED
        BY <1>5, <4>1, <4>2
    <3> QED
      BY <3>1, <3>2
  <2> QED
    BY <1>3, <1>5, <2>1, <2>2, <2>3, FactKept
<1>8. \A f \in Sent(a, c, cmd, x) : Holds(f)'
  <2>1. Holds(Asking(c, cmd, x))'
    BY <1>6 DEF Holds, Asking
  <2> QED
    BY <1>7, <2>1 DEF Sent
<1> QED
  BY <1>1, <1>2, <1>3, <1>8 DEF Leads, program

\* Taking the only answer off a list leaves none.
LEMMA UnlinkAnswer ==
  ASSUME Typed, NEW c \in Components, NEW i \in 1..Len(list[c]), Unlink(c, i)
  PROVE  /\ NoAnswer(c) => NoAnswer(c)'
         /\ IsAnswer(list[c][i]) =>
                \A ev : OneAnswer(c, ev) => NoAnswer(c)' /\ ev = list[c][i]
         /\ \A d \in Components : d # c => list'[d] = list[d]
<1>1. TypedLibrary /\ list[c] \in Seq(Repertoire(c))
  BY DEF Typed, TypedLibrary
<1>2. list'[c] = RemoveAt(list[c], i) /\ \A d \in Components : d # c => list'[d] = list[d]
  BY <1>1, UnlinkTyped
<1>3. /\ Len(list'[c]) = Len(list[c]) - 1 /\ Len(list[c]) \in Nat
      /\ \A j \in 1..Len(list'[c]) : list'[c][j] = IF j < i THEN list[c][j] ELSE list[c][j + 1]
  BY <1>1, <1>2, Unlinked
<1>4. \A j \in 1..Len(list'[c]) : \E n \in 1..Len(list[c]) : n # i /\ list'[c][j] = list[c][n]
  <2> TAKE j \in 1..Len(list'[c])
  <2>1. CASE j < i
    BY <1>3, <2>1
  <2>2. CASE ~(j < i)
    <3>1. j + 1 \in 1..Len(list[c]) /\ j + 1 # i
      BY <1>3, <2>2
    <3> QED
      BY <1>3, <2>2, <3>1
  <2> QED
    BY <2>1, <2>2
<1>5. NoAnswer(c) => NoAnswer(c)'
  BY <1>4 DEF NoAnswer
<1>6. ASSUME IsAnswer(list[c][i]), NEW ev, OneAnswer(c, ev)
      PROVE  NoAnswer(c)' /\ ev = list[c][i]
  <2>1. PICK n \in 1..Len(list[c]) : /\ list[c][n] = ev
                                     /\ \A j \in 1..Len(list[c]) : IsAnswer(list[c][j]) => j = n
    BY <1>6 DEF OneAnswer
  <2>2. n = i
    BY <1>6, <2>1
  <2> QED
    BY <1>4, <2>1, <2>2 DEF NoAnswer
<1> QED
  BY <1>2, <1>5, <1>6

LEMMA LeadsWait ==
  ASSUME Typed, Main, NEW P, NEW a, Proper(a), \A f \in a : Holds(f),
         Head(todo).op \in {"await", "blocked"}, FitsWait(P, a, Head(todo), Tail(todo))
  PROVE  Leads(P) /\ status' = status /\ opened' = opened
<1>0. PICK s, r : s = Head(todo) /\ r = Tail(todo)
  OBVIOUS
<1> DEFINE c == s.c
           cmd == s.a
           x == s.x
<1>1. UNCHANGED program /\ todo # <<>>
  BY Dispatch
<1>2. /\ Asking(c, cmd, x) \in a /\ Asks(c, cmd, x)
      /\ \A op \in {"await", "blocked"} : Goes(P, a, <<[s EXCEPT !.op = op]>> \o r)
      /\ Goes(P, Worked(Answer(a, c) \cup Reached(c, cmd, x)), r)
      /\ Goes(P, Failed(Answer(a, c) \cup Excused(c, cmd)), r)
      /\ s.other # None => Goes(P, Failed(a), r)
  BY <1>0 DEF FitsWait
<1>3. c \in Components /\ Asked(c, cmd, x)
  <2>1. /\ Asking(c, cmd, x)[1] = "asked" /\ Asking(c, cmd, x)[2] = c
        /\ Asking(c, cmd, x)[3] = cmd /\ Asking(c, cmd, x)[4] = x
        /\ Holds(Asking(c, cmd, x))
    BY <1>2 DEF Asking
  <2>2. c \in Components
    <3>1. "asked" \notin {"begun", "ok", "bad"}
      OBVIOUS
    <3> QED
      BY <1>2, <2>1, <3>1 DEF Proper
  <2> QED
    BY <2>1, <2>2 DEF Holds
<1>4. faults \in Nat
  BY FaultsAre
<1>5. ASSUME UNCHANGED <<list, cmds, cstate, enabled, error_mask, in_list, peer, faults>>
      PROVE  /\ ret' # 0 => \A f \in Failed(a) : Holds(f)'
             /\ ret' = ret => \A f \in a : Holds(f)'
  BY <1>1, <1>4, <1>5, MuteKept DEF program
<1>6. CASE s.op = "blocked"
  <2>1. Woken
    BY <1>0, <1>6, Dispatch
  <2>2. /\ todo' = <<[s EXCEPT !.op = "await"]>> \o r
        /\ UNCHANGED <<ret, status, list, cmds, cstate, enabled, error_mask, in_list, peer, faults>>
    BY <1>0, <2>1 DEF Woken, Becomes, components
  <2>3. Goes(P, a, todo')
    BY <1>2, <2>2
  <2> QED
    BY <1>1, <1>5, <2>2, <2>3 DEF Leads, program
<1>7. CASE s.op = "await"
  <2>1. ScanForCommand
    BY <1>0, <1>7, Dispatch
  <2>2. PICK i : i = CommandAt(list[c], cmd, x)
    OBVIOUS
  <2>3. UNCHANGED <<status, cmds, cstate, enabled, error_mask, in_list, peer, faults>>
    BY <2>1 DEF ScanForCommand, Returns, Becomes, components
  <2>4. \/ /\ i # 0 /\ Unlink(c, i)
           /\ todo' = r
           /\ ret' = IF list[c][i] = Done(cmd, x) \/ list[c][i] = Failure("SameState")
                     THEN 0 ELSE -1
        \/ /\ i = 0 /\ UNCHANGED list
           /\ \/ s.other # None /\ todo' = r /\ ret' = -2
              \/ todo' = <<[s EXCEPT !.op = "blocked"]>> \o r /\ ret' = ret
    <3> DEFINE m == SelectInSeq(list[c], LAMBDA ev : ev = Done(cmd, x) \/ EndsByError(ev))
    <3>1. i = m
      BY <2>2 DEF CommandAt
    <3>2. \/ /\ m # 0 /\ Unlink(c, m)
             /\ Returns(IF list[c][m] = Done(cmd, x) \/ list[c][m] = Failure("SameState")
                        THEN 0 ELSE -1)
          \/ /\ m = 0 /\ UNCHANGED list
             /\ \/ s.other # None /\ Returns(-2)
                \/ Becomes("blocked")
      BY <1>0, <2>1 DEF ScanForCommand
    <3> HIDE DEF m
    <3> QED
      BY <1>0, <3>1, <3>2 DEF Returns, Becomes
  <2> HIDE DEF c, cmd, x
  <2>5. CASE i # 0
    <3>1. /\ Unlink(c, i) /\ todo' = r
          /\ ret' = IF list[c][i] = Done(cmd, x) \/ list[c][i] = Failure("SameState")
                    THEN 0 ELSE -1
      BY <2>4, <2>5
    <3>2. i \in 1..Len(list[c]) /\ (list[c][i] = Done(cmd, x) \/ EndsByError(list[c][i]))
      <4>1. list[c] \in Seq(Repertoire(c))
        BY <1>3 DEF Typed, TypedLibrary
      <4> QED
        BY <2>2, <2>5, <4>1, FindsCommand
    <3>3. IsAnswer(list[c][i])
      BY <3>2 DEF IsAnswer, Done
    <3>4. Answered(c, cmd, x)
      BY <1>3, <3>2, <3>3 DEF Asked, Ordered, NoAnswer
    <3>5. PICK ev : OneAnswer(c, ev) /\ Says(c, cmd, x, ev)
      BY <3>4 DEF Answered
    <3>6. /\ NoAnswer(c)' /\ ev = list[c][i]
          /\ \A d \in Components : d # c => list'[d] = list[d]
      BY <1>3, <3>1, <3>2, <3>3, <3>5, UnlinkAnswer
    <3>7. Rest(c)'
      BY <2>3, <3>4, <3>6 DEF Rest, Answered
    <3>8. \A f \in Mute(Answer(a, c)) : Holds(f)'
      <4>1. Holds(Resting(c))'
        BY <3>7 DEF Holds, Resting, Fact
      <4>2. ASSUME NEW f \in a, f[1] \notin {"ok", "bad"}, f[2] = c => f[1] # "asked",
                   f # Resting(c)
            PROVE  Holds(f)'
        <5>1. f[1] \in {"rest", "asked"} => Untouched(f[2])
          <6> SUFFICES ASSUME f[1] \in {"rest", "asked"}
                       PROVE  Untouched(f[2])
            OBVIOUS
          <6>1. f[2] \in Components
            <7>1. f[1] \notin {"begun", "ok", "bad"}
              OBVIOUS
            <7> QED
              BY <4>2, <7>1 DEF Proper
          <6>2. f[2] # c
            <7>1. CASE f[1] = "asked"
              BY <4>2, <7>1
            <7>2. CASE f[1] = "rest"
              <8>1. ~Rest(c)
                <9>1. \E j \in 1..Len(list[c]) : IsAnswer(list[c][j])
                  BY <3>2, <3>3
                <9> QED
                  BY <9>1 DEF Rest, NoAnswer
              <8>2. Holds(f)
                BY <4>2
              <8> QED
                BY <7>2, <8>1, <8>2 DEF Holds
            <7> QED
              BY <7>1, <7>2
          <6> QED
            BY <2>3, <3>6, <6>1, <6>2 DEF Untouched
        <5>2. Holds(f)
          BY <4>2
        <5>3. initialised' = initialised
          BY <1>1 DEF program
        <5> QED
          <6>1. faults' \in Nat /\ faults' >= faults
            BY <1>4, <2>3
          <6> QED
            BY <1>4, <2>3, <4>2, <5>1, <5>2, <5>3, <6>1, FactKept
      <4> QED
        BY <4>1, <4>2 DEF Answer, Mute
    <3>9. CASE ev \in {Done(cmd, x), Failure("SameState")}
      <4>1. ret' = 0
        BY <3>1, <3>6, <3>9
      <4>2. /\ cmd = "StateSet" => cstate[c] = x \/ faults > 0
            /\ cmd = "PortEnable" => <<c, x>> \in enabled \/ faults > 0
        BY <3>5 DEF Says
      <4>3. Failure("InsufficientResources") \notin {Done(cmd, x), Failure("SameState")}
        BY DEF Failure, Done
      <4>4. /\ cmd = "StateSet" => cstate[c] = x
            /\ cmd = "PortEnable" => <<c, x>> \in enabled
        BY <3>5, <3>9, <4>3 DEF Says
      <4>5. cmd = "StateSet" => x \in {"Idle", "Executing"}
        BY <1>2 DEF Asks, Order
      <4>6. \A f \in Reached(c, cmd, x) : Holds(f)'
        <5>1. cmd = "PortEnable" => Holds(On(<<c, x>>))'
          BY <2>3, <4>4 DEF Holds, On
        <5>2. cmd = "StateSet" => Holds(Fact("up", c))'
          BY <2>3, <4>4, <4>5 DEF Holds, Fact
        <5>3. cmd = "StateSet" /\ x = "Executing" => Holds(Fact("ran", c))'
          BY <2>3, <4>4 DEF Holds, Fact
        <5> QED
          BY <5>1, <5>2, <5>3 DEF Reached
      <4>7. Holds(Ok)'
        BY <4>1 DEF Holds, Ok, Fact
      <4>8. \A f \in Worked(Answer(a, c) \cup Reached(c, cmd, x)) : Holds(f)'
        BY <3>8, <4>6, <4>7 DEF Worked, Mute
      <4>9. Goes(P, Worked(Answer(a, c) \cup Reached(c, cmd, x)), todo')
        BY <1>2, <3>1 DEF c, cmd, x
      <4> QED
        BY <1>1, <2>3, <4>8, <4>9 DEF Leads, program
    <3>10. CASE ev \notin {Done(cmd, x), Failure("SameState")}
      <4>1. ret' = -1 /\ faults > 0
        BY <3>1, <3>5, <3>6, <3>10 DEF Says
      <4>2. \A f \in Excused(c, cmd) : Holds(f)'
        <5>1. Holds(Fact("ran", c))'
          <6>1. faults' # 0
            BY <1>4, <2>3, <4>1
          <6> QED
            BY <6>1 DEF Holds, Fact
        <5> QED
          BY <5>1 DEF Excused
      <4>3. Holds(Bad)'
        BY <4>1 DEF Holds, Bad, Fact
      <4>4. \A f \in Failed(Answer(a, c) \cup Excused(c, cmd)) : Holds(f)'
        BY <3>8, <4>2, <4>3 DEF Failed, Mute
      <4>5. Goes(P, Failed(Answer(a, c) \cup Excused(c, cmd)), todo')
        BY <1>2, <3>1 DEF c, cmd
      <4> QED
        BY <1>1, <2>3, <4>4, <4>5 DEF Leads, program
    <3> QED
      BY <3>9, <3>10
  <2>6. CASE i = 0
    <3>1. UNCHANGED list
      BY <2>4, <2>6
    <3>2. CASE s.other # None /\ todo' = r /\ ret' = -2
      BY <1>1, <1>2, <1>5, <2>3, <3>1, <3>2 DEF Leads, program
    <3>3. CASE todo' = <<[s EXCEPT !.op = "blocked"]>> \o r /\ ret' = ret
      <4>1. Goes(P, a, todo')
        BY <1>2, <3>3
      <4> QED
        BY <1>1, <1>5, <2>3, <3>1, <3>3, <4>1 DEF Leads, program
    <3> QED
      BY <2>4, <2>6, <3>2, <3>3
  <2> QED
    BY <2>5, <2>6
<1> QED
  BY <1>0, <1>6, <1>7

LEMMA RestNotAsked ==
  ASSUME NEW c, NEW cmd, NEW x, Rest(c)
  PROVE  ~Asked(c, cmd, x)
<1>1. ~Ordered(c, cmd, x)
  <2>1. Len(<<>>) = 0
    OBVIOUS
  <2> QED
    BY <2>1 DEF Rest, Ordered
<1>2. ~Answered(c, cmd, x)
  BY DEF Rest, NoAnswer, Answered, OneAnswer
<1> QED
  BY <1>1, <1>2 DEF Asked

LEMMA RemoveKeeps ==
  ASSUME Typed, HeadOK, Main, NEW a, Proper(a), \A f \in a : Holds(f),
         Head(todo).op = "remove", Resting(Head(todo).c) \in a
  PROVE  /\ UNCHANGED <<status, program>> /\ todo' = Tail(todo) /\ ret' \in {0, -1}
         /\ \A f \in Mute(a) : Holds(f)'
<1>0. PICK s, r : s = Head(todo) /\ r = Tail(todo)
  OBVIOUS
<1> DEFINE c == s.c
<1>1. UNCHANGED program /\ todo # <<>> /\ ilclient_remove_event
  BY Dispatch
<1>2. c \in Components /\ (UNCHANGED list \/ \E i \in 1..Len(list[c]) : Unlink(c, i))
      /\ UNCHANGED <<status, error_mask, related, in_list, coreInit, components>>
  BY <1>0, SearchStep
<1>3. todo' = r /\ ret' \in {0, -1}
  BY <1>0, <1>1 DEF ilclient_remove_event, Returns
<1>4. Rest(c)
  BY <1>0 DEF Holds, Resting, Fact
<1>5. faults \in Nat
  BY FaultsAre
<1>6. Rest(c)' /\ \A d \in Components : d # c => list'[d] = list[d]
  <2>1. CASE UNCHANGED list
    BY <1>2, <1>4, <2>1 DEF Rest, NoAnswer, components
  <2>2. CASE \E i \in 1..Len(list[c]) : Unlink(c, i)
    <3>1. NoAnswer(c)' /\ \A d \in Components : d # c => list'[d] = list[d]
      BY <1>2, <1>4, <2>2, UnlinkAnswer DEF Rest
    <3> QED
      BY <1>2, <1>4, <3>1 DEF Rest, components
  <2> QED
    BY <1>2, <2>1, <2>2
<1>7. UNCHANGED <<status, cmds, cstate, enabled, error_mask, in_list, peer, faults, initialised>>
  BY <1>1, <1>2 DEF components, program
<1> HIDE DEF c
<1>8. ASSUME NEW f \in Mute(a)
      PROVE  Holds(f)'
  <2>1. Holds(f) /\ f[1] \notin {"ok", "bad"} /\ f \in a
    BY DEF Mute
  <2>2. CASE f[1] = "rest" /\ f[2] = c
    BY <1>6, <2>2 DEF Holds
  <2>3. CASE f[1] = "asked" /\ f[2] = c
    BY <1>4, <2>1, <2>3, RestNotAsked DEF Holds
  <2>4. CASE f[1] \in {"rest", "asked"} => f[2] # c
    <3>1. f[1] \in {"rest", "asked"} => Untouched(f[2])
      <4>1. f[1] \in {"rest", "asked"} => f[2] \in Components
        BY <2>1 DEF Proper
      <4> QED
        BY <1>6, <1>7, <2>4, <4>1 DEF Untouched
    <3>2. faults' \in Nat /\ faults' >= faults
      BY <1>5, <1>7
    <3> QED
      BY <1>5, <1>7, <2>1, <3>1, <3>2, FactKept
  <2> QED
    BY <2>2, <2>3, <2>4
<1> QED
  BY <1>0, <1>1, <1>2, <1>3, <1>8 DEF c

LEMMA LeadsRemove ==
  ASSUME Typed, HeadOK, Main, NEW P, NEW a, Proper(a), \A f \in a : Holds(f),
         Head(todo).op = "remove", Resting(Head(todo).c) \in a, FitsEither(P, a, Tail(todo))
  PROVE  Leads(P) /\ status' = status /\ opened' = opened
<1>1. /\ UNCHANGED <<status, program>> /\ todo' = Tail(todo) /\ ret' \in {0, -1}
      /\ \A f \in Mute(a) : Holds(f)'
  BY RemoveKeeps
<1>2. CASE ret' = 0
  <2>1. \A f \in Worked(a) : Holds(f)'
    <3>1. Holds(Ok)'
      BY <1>2 DEF Holds, Ok, Fact
    <3> QED
      BY <1>1, <3>1 DEF Worked
  <2> QED
    BY <1>1, <2>1 DEF Leads, FitsEither, program
<1>3. CASE ret' = -1
  <2>1. \A f \in Failed(a) : Holds(f)'
    <3>1. Holds(Bad)'
      BY <1>3 DEF Holds, Bad, Fact
    <3> QED
      BY <1>1, <3>1 DEF Failed
  <2> QED
    BY <1>1, <2>1 DEF Leads, FitsEither, program
<1> QED
  BY <1>1, <1>2, <1>3

LEMMA TailSeq ==
  ASSUME NEW k, IsSeq(k), k # <<>>
  PROVE  IsSeq(Tail(k))
BY DEF IsSeq

LEMMA LeadsLoop ==
  ASSUME Typed, Main, NEW P, NEW a, \A f \in a : Holds(f),
         DisableAll, UNCHANGED program, FitsLoop(P, a, Head(todo), Tail(todo)), IsSeq(todo)
  PROVE  Leads(P) /\ status' = status /\ opened' = opened
<1>0. PICK s, r : s = Head(todo) /\ r = Tail(todo)
  OBVIOUS
<1>1. UNCHANGED program /\ todo # <<>> /\ DisableAll
  BY DEF DisableAll
<1>2. \A f \in a : Holds(f)'
  <2>1. /\ UNCHANGED <<ret, list, cmds, cstate, enabled, error_mask, in_list, peer, initialised>>
        /\ faults \in Nat /\ faults' \in Nat /\ faults' >= faults
    <3>1. UNCHANGED <<ret, list, cmds, cstate, enabled, error_mask, in_list, peer, initialised, faults>>
      BY <1>1 DEF DisableAll, library, components, program
    <3>2. faults' = faults /\ faults \in Nat
      BY <3>1, FaultsAre
    <3>3. faults' \in Nat /\ faults' >= faults
      BY <3>2
    <3> QED
      BY <3>1, <3>2, <3>3
  <2> QED
    BY <2>1, MuteKept
<1> DEFINE A(h) == IF h.x = {} THEN <<>>
                   ELSE DisablePort(h.c, CHOOSE q \in h.x : TRUE)
                        \o <<[h EXCEPT !.x = h.x \ {CHOOSE q \in h.x : TRUE}]>>
<1>3. todo' = A(Head(todo)) \o Tail(todo) /\ status' = status
  BY <1>1 DEF DisableAll
<1>4. todo' = A(s) \o r
  <2> HIDE DEF A
  <2> QED
    BY <1>0, <1>3
<1>5. Goes(P, a, todo')
  <2>1. CASE s.x = {}
    <3>1. IsSeq(r)
      BY <1>0, <1>1, TailSeq
    <3>2. <<>> \o r = r
      BY <3>1, NoneJoin
    <3> QED
      BY <1>0, <1>4, <2>1, <3>2 DEF FitsLoop
  <2>2. CASE s.x # {}
    <3>1. PICK p \in s.x :
            /\ p = CHOOSE q \in s.x : TRUE
            /\ Goes(P, a, (DisablePort(s.c, p) \o <<[s EXCEPT !.x = @ \ {p}]>>) \o r)
      BY <1>0, <2>2 DEF FitsLoop
    <3>2. A(s) = DisablePort(s.c, p) \o <<[s EXCEPT !.x = s.x \ {p}]>>
      BY <2>2, <3>1
    <3>3. Goes(P, a, (DisablePort(s.c, p) \o <<[s EXCEPT !.x = s.x \ {p}]>>) \o r)
      BY <3>1
    <3> HIDE DEF A
    <3> QED
      BY <1>4, <3>2, <3>3
  <2> QED
    BY <2>1, <2>2
<1> QED
  BY <1>1, <1>2, <1>3, <1>5 DEF Leads, program

LEMMA LeadsMask ==
  ASSUME Typed, Main, NEW P, NEW a, \A f \in a : Holds(f),
         Head(todo).op = "mask", FitsMask(P, a, Head(todo), Tail(todo))
  PROVE  Leads(P) /\ status' = status /\ opened' = opened
<1>0. PICK s, r : s = Head(todo) /\ r = Tail(todo)
  OBVIOUS
<1>1. UNCHANGED program /\ todo # <<>> /\ MaskErrors
  BY Dispatch
<1>2. /\ error_mask' = IF s.a THEN error_mask \cup s.c ELSE error_mask \ s.c
      /\ todo' = r
      /\ UNCHANGED <<ret, status, list, cmds, cstate, enabled, in_list, peer, initialised>>
      /\ UNCHANGED faults
  BY <1>0, <1>1 DEF MaskErrors, Returns, components, program
<1>3. faults \in Nat /\ faults' \in Nat /\ faults' >= faults
  BY <1>2, FaultsAre
<1>4. ASSUME NEW f \in a, f[1] \in {"masked", "asked"} => (f[2] \in error_mask => f[2] \in error_mask')
      PROVE  Holds(f)'
  BY <1>2, <1>3, <1>4, FactKept DEF Untouched
<1>5. s.a \in BOOLEAN /\ (s.a => Goes(P, Masked(a, s.c), r)) /\ (~s.a => Goes(P, Unmasked(a, s.c), r))
  BY <1>0 DEF FitsMask
<1>6. CASE s.a
  <2>1. error_mask' = error_mask \cup s.c
    BY <1>2, <1>6
  <2>2. \A c \in s.c : Holds(Fact("masked", c))'
    BY <2>1 DEF Holds, Fact
  <2>3. \A f \in Masked(a, s.c) : Holds(f)'
    BY <1>4, <2>1, <2>2 DEF Masked
  <2> QED
    BY <1>1, <1>2, <1>5, <1>6, <2>3 DEF Leads, program
<1>7. CASE ~s.a
  <2>1. error_mask' = error_mask \ s.c
    BY <1>2, <1>7
  <2>2. \A f \in Unmasked(a, s.c) : Holds(f)'
    BY <1>4, <2>1 DEF Unmasked
  <2> QED
    BY <1>1, <1>2, <1>5, <1>7, <2>2 DEF Leads, program
<1> QED
  BY <1>6, <1>7

LEMMA LeadsUse ==
  ASSUME Typed, HeadOK, Main, NEW P, NEW a, Proper(a), \A f \in a : Holds(f),
         Head(todo).op = "use",
         Goes(P, Worked(Filled(a, Head(todo).c)), Tail(todo)),
         Goes(P, Failed(Unfilled(a, Head(todo).c)), Tail(todo))
  PROVE  Leads(P) /\ status' = status /\ opened' = opened
<1>0. PICK s, r : s = Head(todo) /\ r = Tail(todo)
  OBVIOUS
<1> DEFINE c == s.c
<1>1. UNCHANGED program /\ todo # <<>> /\ UseBuffers
  BY Dispatch
<1>2. c \in Components /\ in_list[c] = 0
  BY <1>0, <1>1 DEF HeadOK, Plain, Special
<1>3. PICK n \in 0..NumBufs :
        /\ faults' = IF n < NumBufs THEN faults + 1 ELSE faults
        /\ in_list' = [in_list EXCEPT ![c] = @ + n]
        /\ Returns(IF n < NumBufs THEN -1 ELSE 0)
  BY <1>0, <1>1 DEF UseBuffers
<1>4. /\ UNCHANGED <<status, list, cmds, cstate, enabled, error_mask, peer, initialised>>
      /\ todo' = r /\ ret' = IF n < NumBufs THEN -1 ELSE 0
  BY <1>0, <1>1, <1>3 DEF UseBuffers, Returns, program
<1>5. faults' \in Nat /\ faults' >= faults /\ faults \in Nat
  BY <1>3, FaultsAre
<1>6. NumBufs \in Nat /\ n \in Nat /\ n <= NumBufs
  BY IlClientAssumption
<1>7. in_list'[c] = n /\ \A d \in Components : d # c => in_list'[d] = in_list[d]
  BY <1>2, <1>3, <1>6 DEF Typed, TypedBuffers
<1> HIDE DEF c
<1>8. ASSUME NEW f \in Mute(a), f[1] = "full" => f[2] # c
      PROVE  Holds(f)'
  <2>1. Holds(f) /\ f[1] \notin {"ok", "bad"}
    BY DEF Mute
  <2>2. f[1] = "full" => f[2] \in Components
    <3>1. f \in a
      BY DEF Mute
    <3> QED
      BY <3>1 DEF Proper
  <2> QED
    BY <1>4, <1>5, <1>7, <1>8, <2>1, <2>2, FactKept DEF Untouched
<1>9. CASE n < NumBufs
  <2>1. Holds(Bad)'
    BY <1>4, <1>9 DEF Holds, Bad, Fact
  <2>2. \A f \in Mute(Unfilled(a, c)) : f \in Mute(a) /\ (f[1] = "full" => f[2] # c)
    BY DEF Unfilled, Mute
  <2>3. \A f \in Failed(Unfilled(a, c)) : Holds(f)'
    BY <1>8, <2>1, <2>2 DEF Failed
  <2>4. Goes(P, Failed(Unfilled(a, c)), todo')
    BY <1>0, <1>4 DEF c
  <2> QED
    BY <1>1, <1>4, <2>3, <2>4 DEF Leads, program
<1>10. CASE n = NumBufs
  <2>1. Holds(Ok)'
    BY <1>4, <1>6, <1>10 DEF Holds, Ok, Fact
  <2>2. ASSUME NEW f, f[1] = "full", f[2] = c
        PROVE  Holds(f)'
    BY <1>7, <1>10, <2>2 DEF Holds
  <2>3. Fact("full", c)[1] = "full" /\ Fact("full", c)[2] = c
    BY DEF Fact
  <2>4. \A f \in Mute(Filled(a, c)) : f \in Mute(a) \/ f = Fact("full", c)
    BY DEF Filled, Mute
  <2>5. \A f \in Mute(Filled(a, c)) : Holds(f)'
    BY <1>8, <2>2, <2>3, <2>4
  <2>6. \A f \in Worked(Filled(a, c)) : Holds(f)'
    BY <2>1, <2>5 DEF Worked
  <2>7. Goes(P, Worked(Filled(a, c)), todo')
    BY <1>0, <1>4 DEF c
  <2> QED
    BY <1>1, <1>4, <2>6, <2>7 DEF Leads, program
<1> QED
  BY <1>6, <1>9, <1>10

LEMMA LeadsGetHandle ==
  ASSUME Typed, Main, NEW P, NEW a, Proper(a), \A f \in a : Holds(f),
         Head(todo).op = "OMX_GetHandle", Resting(Head(todo).c) \in a,
         Goes(P, Worked(Made(a, Head(todo).c)), Tail(todo)), Goes(P, Failed(a), Tail(todo))
  PROVE  Leads(P) /\ status' = status /\ opened' = opened
<1>0. PICK s, r : s = Head(todo) /\ r = Tail(todo)
  OBVIOUS
<1> DEFINE c == s.c
<1>1. UNCHANGED program /\ todo # <<>> /\ OMX_GetHandle
  BY Dispatch
<1>2. /\ UNCHANGED <<status, list, cmds, error_mask, in_list, peer, initialised>>
      /\ todo' = r
      /\ \/ /\ cstate' = [cstate EXCEPT ![c] = "Loaded"]
            /\ enabled' = enabled \cup {c} \X Ports[c]
            /\ ret' = 0 /\ UNCHANGED faults
         \/ /\ faults' = faults \/ faults' = faults + 1
            /\ ret' = -1 /\ UNCHANGED <<cstate, enabled>>
  BY <1>0, <1>1 DEF OMX_GetHandle, Returns, library, program
<1>3. faults \in Nat /\ faults' \in Nat /\ faults' >= faults
  BY <1>2, FaultsAre
<1>4. c \in Components /\ Rest(c)
  <2>1. Resting(c)[1] = "rest" /\ Resting(c)[2] = c /\ Holds(Resting(c)) /\ Resting(c) \in a
    BY <1>0 DEF Resting, Fact
  <2> QED
    BY <2>1 DEF Holds, Proper
<1> HIDE DEF c
<1>5. CASE ret' = 0
  <2>1. /\ cstate' = [cstate EXCEPT ![c] = "Loaded"]
        /\ enabled' = enabled \cup {c} \X Ports[c]
    BY <1>2, <1>5
  <2>2. cstate'[c] = "Loaded" /\ \A d \in Components : d # c => cstate'[d] = cstate[d]
    BY <1>4, <2>1 DEF Typed, TypedComponents
  <2>3. Holds(Fact("loaded", c))' /\ Holds(Fact("made", c))' /\ Holds(Ok)'
    BY <1>5, <2>2 DEF Holds, Fact, Ok
  <2>4. ASSUME NEW f \in a, f[1] \notin {"ok", "bad"},
               f[2] = c => f[1] \notin {"asked", "up", "ran", "loaded", "made"}
        PROVE  Holds(f)'
    <3>1. CASE f[1] = "rest" /\ f[2] = c
      BY <1>2, <1>4, <3>1 DEF Holds, Rest, NoAnswer
    <3>2. CASE f[1] \in {"rest", "asked", "made", "up", "ran", "loaded"} /\ f[2] # c
      <4>1. f[2] \in Components
        <5>1. f[1] \notin {"begun", "ok", "bad"}
          BY <3>2
        <5> QED
          BY <5>1 DEF Proper
      <4>2. cstate'[f[2]] = cstate[f[2]]
        BY <2>2, <3>2, <4>1
      <4>3. Untouched(f[2])
        <5>1. \A p : <<f[2], p>> \in enabled' <=> <<f[2], p>> \in enabled
          BY <2>1, <3>2
        <5> QED
          BY <1>2, <4>2, <5>1 DEF Untouched
      <4> QED
        BY <1>2, <1>3, <2>4, <3>2, <4>2, <4>3, FactKept
    <3>3. CASE f[1] \notin {"rest", "asked", "made", "up", "ran", "loaded"}
      BY <1>2, <1>3, <2>1, <2>4, <3>3, FactKept
    <3> QED
      BY <2>4, <3>1, <3>2, <3>3
  <2>5. \A f \in Worked(Made(a, c)) : Holds(f)'
    <3>1. ASSUME NEW f \in a, f[1] = "made", f[2] = c
          PROVE  Holds(f)'
      BY <2>2, <3>1 DEF Holds
    <3> QED
      BY <2>3, <2>4, <3>1 DEF Worked, Mute, Made
  <2>6. Goes(P, Worked(Made(a, c)), todo')
    BY <1>0, <1>2 DEF c
  <2> QED
    BY <1>1, <1>2, <2>5, <2>6 DEF Leads, program
<1>6. CASE ret' # 0
  <2>1. UNCHANGED <<cstate, enabled>>
    BY <1>2, <1>6
  <2>2. \A f \in Failed(a) : Holds(f)'
    BY <1>2, <1>3, <1>6, <2>1, MuteKept
  <2> QED
    BY <1>0, <1>1, <1>2, <2>2 DEF Leads, program
<1> QED
  BY <1>5, <1>6

LEMMA LeadsConnect ==
  ASSUME Typed, Main, NEW P, NEW a, Proper(a), \A f \in a : Holds(f),
         Head(todo).op = "OMX_SetupTunnel", FitsConnect(P, a, Head(todo), Tail(todo))
  PROVE  Leads(P) /\ status' = status /\ opened' = opened
<1>0. PICK s, r : s = Head(todo) /\ r = Tail(todo)
  OBVIOUS
<1> DEFINE p == s.a
           q == s.x
<1>1. UNCHANGED program /\ todo # <<>> /\ OMX_SetupTunnel
  BY Dispatch
<1>2. /\ UNCHANGED <<status, list, cmds, cstate, enabled, error_mask, in_list, initialised>>
      /\ todo' = r
      /\ \/ /\ peer' = [z \in PortPairs |-> IF z = p THEN q ELSE IF z = q THEN p ELSE peer[z]]
            /\ ret' = 0 /\ UNCHANGED faults
         \/ faults' = faults + 1 /\ ret' = -1 /\ UNCHANGED peer
  BY <1>0, <1>1 DEF OMX_SetupTunnel, Returns, library, program
<1>3. faults \in Nat /\ faults' \in Nat /\ faults' >= faults
  BY <1>2, FaultsAre
<1>4. p \in PortPairs /\ q \in PortPairs /\ p # q
      /\ Goes(P, Worked(Met(a, p, q)), r) /\ Goes(P, Failed(a), r)
  BY <1>0 DEF FitsConnect
<1>p. p = <<p[1], p[2]>> /\ q = <<q[1], q[2]>>
  BY <1>4 DEF PortPairs
<1> HIDE DEF p, q
<1>5. CASE ret' = 0
  <2>1. peer' = [z \in PortPairs |-> IF z = p THEN q ELSE IF z = q THEN p ELSE peer[z]]
    BY <1>2, <1>5
  <2>2. Holds(Meets(p, q))' /\ Holds(Meets(q, p))'
    <3>1. peer'[p] = q /\ peer'[q] = p
      BY <1>4, <2>1
    <3>2. peer'[<<p[1], p[2]>>] = q /\ peer'[<<q[1], q[2]>>] = p
      BY <1>p, <3>1
    <3> QED
      BY <3>2 DEF Holds, Meets
  <2>3. ASSUME NEW f \in a, f[1] \notin {"ok", "bad"},
               f[1] = "peer" => <<f[2], f[3]>> \notin {p, q}
        PROVE  Holds(f)'
    <3>1. f[1] = "peer" => peer'[<<f[2], f[3]>>] = peer[<<f[2], f[3]>>]
      <4>1. f[1] = "peer" => <<f[2], f[3]>> \in PortPairs
        BY <2>3 DEF Proper
      <4> QED
        BY <2>1, <2>3, <4>1
    <3> QED
      BY <1>2, <1>3, <2>3, <3>1, FactKept DEF Untouched
  <2>4. Holds(Ok)'
    BY <1>5 DEF Holds, Ok, Fact
  <2>5. \A f \in Worked(Met(a, p, q)) : Holds(f)'
    BY <2>2, <2>3, <2>4 DEF Worked, Mute, Met
  <2> QED
    BY <1>1, <1>2, <1>4, <2>5 DEF Leads, program
<1>6. CASE ret' # 0
  <2>1. UNCHANGED peer
    BY <1>2, <1>6
  <2>2. \A f \in Failed(a) : Holds(f)'
    BY <1>2, <1>3, <1>6, <2>1, MuteKept
  <2> QED
    BY <1>1, <1>2, <1>4, <2>2 DEF Leads, program
<1> QED
  BY <1>5, <1>6

LEMMA LeadsCall ==
  ASSUME Typed, Main, NEW P, NEW a, \A f \in a : Holds(f), Head(todo).op = "call",
         Goes(P, a \cup {Begun(Head(todo).a)}, Body(Head(todo).a) \o Tail(todo))
  PROVE  Leads(P) /\ status' = status /\ opened' = opened
<1>0. PICK s, r : s = Head(todo) /\ r = Tail(todo)
  OBVIOUS
<1>1. Initialise
  BY Dispatch
<1>2. /\ todo' = Body(s.a) \o r /\ initialised' = initialised \cup {s.a}
      /\ UNCHANGED <<ret, status, list, cmds, cstate, enabled, error_mask, in_list, peer, faults, opened>>
  BY <1>0, <1>1 DEF Initialise, library, components
<1>3. faults \in Nat /\ faults' \in Nat /\ faults' >= faults
  BY <1>2, FaultsAre
<1>4. \A f \in a : Holds(f)'
  BY <1>2, <1>3, FactKept DEF Untouched
<1>5. Holds(Begun(s.a))'
  BY <1>2 DEF Holds, Begun
<1>6. \A f \in a \cup {Begun(s.a)} : Holds(f)'
  BY <1>4, <1>5
<1> QED
  BY <1>0, <1>2, <1>6 DEF Leads

\* Every step but the creation of a thread.
LEMMA KnownStep ==
  ASSUME Typed, HeadOK, Main, IsSeq(todo), NEW P, NEW a, Proper(a), \A f \in a : Holds(f),
         FitsStep(P, a, Head(todo), Tail(todo)), Head(todo).op # "open"
  PROVE  Aborts \/ (Leads(P) /\ status' = status /\ opened' = opened)
<1> DEFINE s == Head(todo)
<1>1. CASE s.op = "if"
  BY <1>1, LeadsBranch DEF FitsStep
<1>2. CASE s.op \in {"return", "assert", "configure", "OMX_Init", "relate"}
  BY <1>2, LeadsReturn
<1>3. CASE s.op = "send"
  BY <1>3, LeadsSend DEF FitsStep
<1>4. CASE s.op \in {"await", "blocked"}
  BY <1>4, LeadsWait DEF FitsStep
<1>5. CASE s.op = "remove"
  BY <1>5, LeadsRemove DEF FitsStep
<1>6. CASE s.op = "disable all"
  BY <1>6, Dispatch, LeadsLoop DEF FitsStep
<1>7. CASE s.op = "mask"
  BY <1>7, LeadsMask DEF FitsStep
<1>8. CASE s.op = "use"
  BY <1>8, LeadsUse DEF FitsStep
<1>9. CASE s.op = "OMX_GetHandle"
  BY <1>9, LeadsGetHandle DEF FitsStep
<1>10. CASE s.op = "OMX_SetupTunnel"
  BY <1>10, LeadsConnect DEF FitsStep
<1>11. CASE s.op = "call"
  BY <1>11, LeadsCall DEF FitsStep
<1> QED
  BY <1>1, <1>2, <1>3, <1>4, <1>5, <1>6, <1>7, <1>8, <1>9, <1>10, <1>11 DEF FitsStep

\* A start-up that is lost stays so until it ends.
LEMMA FailsSeq ==
  ASSUME NEW k, Fails(k)
  PROVE  IsSeq(k)
<1>1. \A m : IsSeq(m) => IsSeq(Demand \o m)
  BY OneSeq, JoinSeq DEF Demand
<1>2. \A m : Demands(m) => IsSeq(m)
  BY <1>1 DEF Demands
<1>3. \A a, y, m : IsSeq(m) => IsSeq(IfOk(a, y) \o m)
  BY OneSeq, JoinSeq DEF IfOk, If
<1> QED
  BY <1>2, <1>3 DEF Fails

LEMMA ReturnSeq ==
  ASSUME NEW r, NEW m, IsSeq(m)
  PROVE  /\ IsSeq(Return(r)) /\ IsSeq(Return(r) \o m)
         /\ Return(r) \o m # <<>> /\ Head(Return(r) \o m) = Step("return", None, r, None)
         /\ Tail(Return(r) \o m) = m
<1> DEFINE s == Step("return", None, r, None)
<1>1. Return(r) = <<s>>
  BY DEF Return
<1> HIDE DEF s
<1>2. IsSeq(<<s>>)
  BY OneSeq
<1> QED
  BY <1>1, <1>2, Push DEF s

LEMMA LostStep ==
  ASSUME Typed, Main, LostNow
  PROVE  /\ opened' = opened
         /\ Aborts \/ (LostNow' /\ status' = status)
<1>1. CASE Doomed(todo)
  <2>0. PICK y, m : \E r \in Failing : Prog(All, y) /\ Fails(m) /\ todo = y \o (Return(r) \o m)
    BY <1>1 DEF Doomed
  <2>1. PICK r \in Failing : Prog(All, y) /\ Fails(m) /\ todo = y \o (Return(r) \o m)
    BY <2>0
  <2>2. IsSeq(m) /\ IsSeq(y)
    BY <2>1, FailsSeq, ProgSeq
  <2> DEFINE k == Return(r) \o m
  <2>3. IsSeq(k)
    BY <2>2, ReturnSeq
  <2>4. CASE y # <<>>
    <3> HIDE DEF k
    <3>1. Frame(All) /\ (Continues(All, k) \/ Aborts)
      BY <2>1, <2>3, <2>4, AllScope, ProgStep DEF k
    <3>2. Continues(All, k) => LostNow' /\ status' = status
      <4> SUFFICES ASSUME Continues(All, k)
                   PROVE  LostNow' /\ status' = status
        OBVIOUS
      <4>1. PICK z : Prog(All, z) /\ todo' = z \o k
        BY DEF Continues
      <4>2. Doomed(todo')
        BY <2>1, <4>1 DEF Doomed, k
      <4> QED
        BY <4>2 DEF Continues, LostNow, Doomed
    <3> QED
      BY <3>1, <3>2 DEF Frame, program
  <2>5. CASE y = <<>>
    <3>1. todo = k
      BY <2>1, <2>3, <2>5, NoneJoin
    <3>2. Head(todo) = Step("return", None, r, None) /\ Tail(todo) = m
      BY <2>2, <3>1, ReturnSeq
    <3>3. ReturnValue /\ UNCHANGED program
      <4>1. Head(todo).op = "return"
        BY <3>2 DEF Step
      <4> QED
        BY <4>1, Dispatch
    <3>4. todo' = m /\ ret' = r /\ status' = status
      BY <3>2, <3>3 DEF ReturnValue, Returns, Step
    <3>5. r # 0
      BY DEF Failing
    <3>6. Fails(todo)'
      <4>1. Fails(m) /\ todo' = m
        BY <2>1, <3>4
      <4> QED
        BY <4>1 DEF Fails, Demands
    <3>7. LostNow'
      BY <3>4, <3>5, <3>6 DEF LostNow
    <3> QED
      BY <3>3, <3>4, <3>7 DEF program
  <2> QED
    BY <2>4, <2>5
<1>2. CASE ret # 0 /\ Fails(todo)
  <2>1. CASE Demands(todo)
    <3>1. PICK m : IsSeq(m) /\ todo = Demand \o m
      BY <2>1 DEF Demands
    <3>2. Head(todo).op = "assert"
      <4> DEFINE s == Step("assert", None, None, None)
      <4>1. Demand = <<s>> /\ s.op = "assert"
        BY DEF Demand, Step
      <4> HIDE DEF s
      <4> QED
        BY <3>1, <4>1, Push
    <3>3. CheckResult /\ UNCHANGED program
      BY <3>2, Dispatch
    <3> QED
      BY <1>2, <3>3 DEF CheckResult, Aborts, program
  <2>2. CASE ~Demands(todo)
    <3>0. PICK a, y, m : \E r \in Failing :
            Prog(All, y) /\ Demands(m) /\ todo = IfOk(a, y \o Return(r)) \o m
      BY <1>2, <2>2 DEF Fails
    <3>1. PICK r \in Failing :
            Prog(All, y) /\ Demands(m) /\ todo = IfOk(a, y \o Return(r)) \o m
      BY <3>0
    <3> DEFINE n == y \o Return(r)
               s == [op |-> "if", kind |-> "returned", of |-> 0, yes |-> a, no |-> n]
    <3>2. IsSeq(m) /\ Fails(m)
      BY <3>1, FailsSeq DEF Fails
    <3>3. todo = <<s>> \o m /\ s.op = "if" /\ s.kind = "returned" /\ s.of = 0 /\ s.no = n
      BY <3>1 DEF IfOk, If
    <3> HIDE DEF s
    <3>4. Head(todo) = s /\ Tail(todo) = m
      BY <3>2, <3>3, Push
    <3>5. Branch /\ UNCHANGED program
      BY <3>3, <3>4, Dispatch
    <3>6. todo' = n \o m /\ status' = status
      <4>1. /\ todo' = (IF ret = s.of THEN s.yes ELSE s.no) \o m
            /\ UNCHANGED <<ret, status, library, components>>
        BY <3>3, <3>4, <3>5 DEF Branch
      <4> HIDE DEF n
      <4> QED
        BY <1>2, <3>3, <4>1
    <3>7. n \o m = y \o (Return(r) \o m)
      <4>1. IsSeq(y) /\ IsSeq(Return(r)) /\ IsSeq(m)
        BY <3>1, <3>2, ProgSeq, ReturnSeq
      <4> DEFINE z == Return(r)
      <4> HIDE DEF z
      <4>2. IsSeq(y) /\ IsSeq(z) /\ IsSeq(m)
        BY <4>1 DEF z
      <4>3. (y \o z) \o m = y \o (z \o m)
        <5>1. Joined(y, z, m)
          BY <4>2, AssocThree
        <5> QED
          BY <5>1 DEF Joined
      <4> QED
        BY <4>3 DEF z
    <3>8. Doomed(todo')
      BY <3>1, <3>2, <3>6, <3>7 DEF Doomed
    <3> QED
      BY <3>5, <3>6, <3>8 DEF LostNow, program, Doomed
  <2> QED
    BY <2>1, <2>2
<1> QED
  BY <1>1, <1>2 DEF LostNow

------------------------------------------------------------------------------
(***************************************************************************)
(* What must be known before each step.                                    *)
(***************************************************************************)
LEMMA GoodLost ==
  ASSUME NEW a, NEW k, Lost(a, k)
  PROVE  Good(a, k)
<1>1. Sound({}) /\ Goes({}, a, k)
  BY DEF Sound, Goes
<1> QED
  BY <1>1 DEF Good

\* A failure is returned, and its result is looked at.
LEMMA LostReturn ==
  ASSUME NEW a, NEW y, Prog(All, y), NEW r \in Failing, NEW k, Fails(k)
  PROVE  /\ Good(a, y \o (Return(r) \o k)) /\ Good(a, (y \o Return(r)) \o k)
         /\ Good(a, Return(r) \o k)
<1>1. \A z : Prog(All, z) => Good(a, z \o (Return(r) \o k))
  BY GoodLost DEF Lost, Doomed
<1>2. IsSeq(y) /\ IsSeq(Return(r)) /\ IsSeq(k) /\ IsSeq(Return(r) \o k)
  BY ProgSeq, FailsSeq, ReturnSeq
<1>3. (y \o Return(r)) \o k = y \o (Return(r) \o k)
  <2> DEFINE z == Return(r)
  <2>1. IsSeq(z)
    BY <1>2
  <2> HIDE DEF z
  <2>2. (y \o z) \o k = y \o (z \o k)
    <3>1. Joined(y, z, k)
      BY <1>2, <2>1, AssocThree
    <3> QED
      BY <3>1 DEF Joined
  <2> QED
    BY <2>2 DEF z
<1>4. <<>> \o (Return(r) \o k) = Return(r) \o k
  BY <1>2, NoneJoin
<1>5. Prog(All, <<>>)
  BY ProgNone
<1> QED
  BY <1>1, <1>3, <1>4, <1>5

LEMMA PlaceOf ==
  ASSUME NEW P, Sound(P), NEW a, Proper(a), NEW s, NEW k, IsSeq(k), FitsStep(P, a, s, k)
  PROVE  Good(a, <<s>> \o k)
<1>1. /\ <<s>> \o k # <<>> /\ Head(<<s>> \o k) = s /\ Tail(<<s>> \o k) = k
      /\ IsSeq(<<s>> \o k)
  BY Push
<1>2. Fits(P, a, <<s>> \o k)
  BY <1>1 DEF Fits
<1> QED
  BY <1>2, GoodStep

LEMMA GoodIn ==
  ASSUME NEW a, NEW k, Good(a, k)
  PROVE  \E P : Sound(P) /\ Goes(P, a, k)
BY DEF Good

LEMMA GoodReturn ==
  ASSUME NEW a, Proper(a), NEW k, IsSeq(k), Good(Worked(a), k)
  PROVE  Good(a, Return(0) \o k)
<1>1. PICK P : Sound(P) /\ Goes(P, Worked(a), k)
  BY GoodIn
<1> DEFINE s == Step("return", None, 0, None)
<1>2. FitsStep(P, a, s, k)
  BY <1>1 DEF FitsStep, Step
<1> HIDE DEF s
<1>3. Good(a, <<s>> \o k)
  BY <1>1, <1>2, PlaceOf
<1> QED
  BY <1>3 DEF s, Return

LEMMA GoodDemand ==
  ASSUME NEW a, Proper(a), NEW k, IsSeq(k), Good(Worked(a), k)
  PROVE  Good(a, Demand \o k)
<1>1. PICK P : Sound(P) /\ Goes(P, Worked(a), k)
  BY GoodIn
<1> DEFINE s == Step("assert", None, None, None)
<1>2. FitsStep(P, a, s, k)
  BY <1>1 DEF FitsStep, Step
<1> HIDE DEF s
<1>3. Good(a, <<s>> \o k)
  BY <1>1, <1>2, PlaceOf
<1> QED
  BY <1>3 DEF s, Demand

LEMMA GoodEither ==
  ASSUME NEW a, Proper(a), NEW s, NEW k, IsSeq(k), s.op \in {"configure", "OMX_Init", "remove"},
         s.op = "remove" => Resting(s.c) \in a, Good(Worked(a), k), Good(Failed(a), k)
  PROVE  Good(a, <<s>> \o k)
<1> DEFINE b == Worked(a)
           e == Failed(a)
<1>1. PICK P : Sound(P) /\ Goes(P, b, k) /\ Goes(P, e, k)
  <2> HIDE DEF b, e
  <2>1. Good(b, k) /\ Good(e, k)
    BY DEF b, e
  <2> QED
    BY <2>1, GoodTwo
<1>2. FitsStep(P, a, s, k)
  BY <1>1 DEF FitsStep, FitsEither
<1> QED
  BY <1>1, <1>2, PlaceOf

LEMMA GoodSend ==
  ASSUME NEW a, Proper(a), NEW c, NEW cmd, NEW x, NEW k, IsSeq(k),
         Resting(c) \in a, Asks(c, cmd, x),
         cmd = "PortDisable" => Fact("loaded", c) \in a \/ Fact("masked", c) \in a,
         Good(Sent(a, c, cmd, x), k)
  PROVE  Good(a, Send(c, cmd, x) \o k)
<1> DEFINE s == Step("send", c, cmd, x)
           b == Sent(a, c, cmd, x)
<1> HIDE DEF b
<1>1. PICK P : Sound(P) /\ Goes(P, b, k)
  BY GoodIn DEF b
<1>2. FitsStep(P, a, s, k)
  BY <1>1 DEF FitsStep, FitsSend, Step, b
<1> HIDE DEF s
<1>3. Good(a, <<s>> \o k)
  BY <1>1, <1>2, PlaceOf
<1> QED
  BY <1>3 DEF s, Send

\* The wait for an answer.
LEMMA GoodAwait ==
  ASSUME NEW a, Proper(a), NEW c, NEW cmd, NEW x, NEW other, NEW k, IsSeq(k),
         Asking(c, cmd, x) \in a, Asks(c, cmd, x),
         Good(Worked(Answer(a, c) \cup Reached(c, cmd, x)), k),
         Good(Failed(Answer(a, c) \cup Excused(c, cmd)), k),
         other # None => Good(Failed(a), k)
  PROVE  Good(a, <<[op |-> "await", c |-> c, a |-> cmd, x |-> x, other |-> other]>> \o k)
<1> DEFINE b == Worked(Answer(a, c) \cup Reached(c, cmd, x))
           e == Failed(Answer(a, c) \cup Excused(c, cmd))
           g == IF other = None THEN e ELSE Failed(a)
           t(op) == [op |-> op, c |-> c, a |-> cmd, x |-> x, other |-> other]
<1>1. Good(b, k) /\ Good(e, k) /\ Good(g, k) /\ (other # None => g = Failed(a))
  OBVIOUS
<1> HIDE DEF b, e, g
<1>2. PICK P : Sound(P) /\ Goes(P, b, k) /\ Goes(P, e, k) /\ Goes(P, g, k)
  <2>1. PICK P : Sound(P) /\ Goes(P, b, k) /\ Goes(P, e, k)
    BY <1>1, GoodTwo
  <2>2. PICK Q : Sound(Q) /\ Goes(Q, g, k)
    BY <1>1, GoodIn
  <2>3. Sound(P \cup Q)
    BY <2>1, <2>2, SoundUnion
  <2>4. Goes(P \cup Q, b, k) /\ Goes(P \cup Q, e, k) /\ Goes(P \cup Q, g, k)
    BY <2>1, <2>2, GoesMore
  <2> QED
    BY <2>3, <2>4
<1> DEFINE Q == {<<a, <<t(op)>> \o k>> : op \in {"await", "blocked"}}
<1>3. \A op, o : /\ t(op).op = op /\ t(op).c = c /\ t(op).a = cmd /\ t(op).x = x
                 /\ t(op).other = other /\ [t(op) EXCEPT !.op = o] = t(o)
  BY Altered
<1>4. \A op \in {"await", "blocked"} : Goes(P \cup Q, a, <<t(op)>> \o k)
  BY DEF Goes
<1>5. Goes(P \cup Q, b, k) /\ Goes(P \cup Q, e, k) /\ Goes(P \cup Q, g, k)
  BY <1>2, GoesMore
<1> HIDE DEF t
<1>6. ASSUME NEW op \in {"await", "blocked"}
      PROVE  Fits(P \cup Q, a, <<t(op)>> \o k)
  <2>1. /\ <<t(op)>> \o k # <<>> /\ Head(<<t(op)>> \o k) = t(op) /\ Tail(<<t(op)>> \o k) = k
        /\ IsSeq(<<t(op)>> \o k)
    BY Push
  <2>2. FitsWait(P \cup Q, a, t(op), k)
    <3> HIDE DEF Q
    <3> QED
      BY <1>1, <1>3, <1>4, <1>5 DEF FitsWait, b, e
  <2>3. t(op).op = op
    BY <1>3
  <2>4. FitsStep(P \cup Q, a, t(op), k)
    <3> HIDE DEF Q
    <3> QED
      BY <1>6, <2>2, <2>3 DEF FitsStep
  <2> QED
    BY <2>1, <2>4 DEF Fits
<1>7. ASSUME NEW z \in Q
      PROVE  z = <<z[1], z[2]>> /\ Proper(z[1]) /\ Fits(P \cup Q, z[1], z[2])
  <2>1. PICK op \in {"await", "blocked"} : z = <<a, <<t(op)>> \o k>>
    OBVIOUS
  <2>2. z[1] = a /\ z[2] = <<t(op)>> \o k /\ z = <<z[1], z[2]>>
    BY <2>1
  <2> HIDE DEF Q
  <2> QED
    BY <1>6, <2>1, <2>2
<1>8. Sound(P \cup Q)
  <2> HIDE DEF Q
  <2> QED
    BY <1>2, <1>7, SoundMore
<1>9. Good(a, <<t("await")>> \o k)
  BY <1>4, <1>8 DEF Good
<1> QED
  BY <1>9 DEF t

\* The branches.
LEMMA GoodIfOk ==
  ASSUME NEW a, Proper(a), NEW yes, NEW no, IsSeq(yes), IsSeq(no), NEW k, IsSeq(k),
         Bad \in a \/ Good(a \cup {Ok}, yes \o k),
         Ok \in a \/ Good(a \cup {Bad}, no \o k)
  PROVE  Good(a, IfOk(yes, no) \o k)
<1> DEFINE s == [op |-> "if", kind |-> "returned", of |-> 0, yes |-> yes, no |-> no]
           b == a \cup {Ok}
           e == a \cup {Bad}
           x == yes \o k
           y == no \o k
<1> HIDE DEF b, e, x, y
<1>1. PICK P : Sound(P) /\ (Bad \in a \/ Goes(P, b, x)) /\ (Ok \in a \/ Goes(P, e, y))
  <2>1. Sound({})
    BY DEF Sound
  <2>2. CASE Bad \in a /\ Ok \in a
    BY <2>1, <2>2
  <2>3. CASE Bad \in a /\ Good(e, y)
    BY <2>3, GoodIn
  <2>4. CASE Good(b, x) /\ Ok \in a
    BY <2>4, GoodIn
  <2>5. CASE Good(b, x) /\ Good(e, y)
    BY <2>5, GoodTwo
  <2> QED
    BY <2>2, <2>3, <2>4, <2>5 DEF b, e, x, y
<1>2. s.op = "if" /\ s.kind = "returned" /\ s.of = 0 /\ s.yes = yes /\ s.no = no
  OBVIOUS
<1> HIDE DEF s
<1>3. FitsBranch(P, a, s, k)
  BY <1>1, <1>2 DEF FitsBranch, b, e, x, y
<1>4. FitsStep(P, a, s, k)
  BY <1>2, <1>3 DEF FitsStep
<1>5. Good(a, <<s>> \o k)
  BY <1>1, <1>4, PlaceOf
<1> QED
  BY <1>5 DEF s, IfOk, If

LEMMA GoodIfState ==
  ASSUME NEW a, Proper(a), NEW yes, NEW no, IsSeq(yes), IsSeq(no), NEW k, IsSeq(k),
         NEW kind, NEW c,
         \/ /\ kind = "loaded" /\ c \in Components
            /\ Good(a \cup {Fact("loaded", c)}, yes \o k)
            /\ Good(IF Fact("made", c) \in a THEN a \cup {Fact("up", c)} ELSE a, no \o k)
         \/ /\ kind = "idle" /\ c \in Components
            /\ Good(a \cup {Fact("up", c)}, yes \o k) /\ Good(a, no \o k)
         \/ kind = "enabled" /\ Good(a, yes \o k) /\ Good(a, no \o k)
  PROVE  Good(a, If(kind, c, yes, no) \o k)
<1> DEFINE s == [op |-> "if", kind |-> kind, of |-> c, yes |-> yes, no |-> no]
           b == IF kind = "loaded" THEN a \cup {Fact("loaded", c)}
                ELSE IF kind = "idle" THEN a \cup {Fact("up", c)} ELSE a
           e == IF kind = "loaded" /\ Fact("made", c) \in a THEN a \cup {Fact("up", c)} ELSE a
           x == yes \o k
           y == no \o k
<1>0. Good(b, x) /\ Good(e, y)
  OBVIOUS
<1>b. /\ kind = "loaded" => b = a \cup {Fact("loaded", c)}
      /\ kind = "idle" => b = a \cup {Fact("up", c)}
      /\ kind = "enabled" => b = a
      /\ kind = "loaded" => e = (IF Fact("made", c) \in a THEN a \cup {Fact("up", c)} ELSE a)
      /\ kind \in {"idle", "enabled"} => e = a
  OBVIOUS
<1>k. /\ kind \in {"loaded", "idle", "enabled"}
      /\ kind # "enabled" => c \in Components
  OBVIOUS
<1> HIDE DEF b, e, x, y
<1>1. PICK P : Sound(P) /\ Goes(P, b, x) /\ Goes(P, e, y)
  BY <1>0, GoodTwo
<1>2. s.op = "if" /\ s.kind = kind /\ s.of = c /\ s.yes = yes /\ s.no = no
  OBVIOUS
<1> HIDE DEF s
<1>3. FitsBranch(P, a, s, k)
  <2>1. CASE kind = "loaded"
    BY <1>1, <1>2, <1>b, <1>k, <2>1 DEF FitsBranch, x, y
  <2>2. CASE kind = "idle"
    BY <1>1, <1>2, <1>b, <1>k, <2>2 DEF FitsBranch, x, y
  <2>3. CASE kind = "enabled"
    BY <1>1, <1>2, <1>b, <1>k, <2>3 DEF FitsBranch, x, y
  <2> QED
    BY <1>k, <2>1, <2>2, <2>3
<1>4. FitsStep(P, a, s, k)
  BY <1>2, <1>3 DEF FitsStep
<1>5. Good(a, <<s>> \o k)
  BY <1>1, <1>4, PlaceOf
<1> QED
  BY <1>5 DEF s, If

\* The other steps.
LEMMA GoodMask ==
  ASSUME NEW a, Proper(a), NEW C, NEW on \in BOOLEAN, NEW k, IsSeq(k),
         on => Good(Masked(a, C), k), ~on => Good(Unmasked(a, C), k)
  PROVE  Good(a, <<Step("mask", C, on, None)>> \o k)
<1> DEFINE s == Step("mask", C, on, None)
           b == IF on THEN Masked(a, C) ELSE Unmasked(a, C)
<1>0. Good(b, k) /\ (on => b = Masked(a, C)) /\ (~on => b = Unmasked(a, C))
  OBVIOUS
<1> HIDE DEF b
<1>1. PICK P : Sound(P) /\ Goes(P, b, k)
  BY <1>0, GoodIn
<1>2. s.op = "mask" /\ s.c = C /\ s.a = on
  BY DEF Step
<1> HIDE DEF s
<1>3. FitsMask(P, a, s, k)
  BY <1>0, <1>1, <1>2 DEF FitsMask
<1>4. FitsStep(P, a, s, k)
  BY <1>2, <1>3 DEF FitsStep
<1> QED
  BY <1>1, <1>4, PlaceOf DEF s

LEMMA GoodRelate ==
  ASSUME NEW a, Proper(a), NEW c, NEW x, NEW k, IsSeq(k), Good(a, k)
  PROVE  Good(a, <<Step("relate", c, None, x)>> \o k)
<1> DEFINE s == Step("relate", c, None, x)
<1>1. PICK P : Sound(P) /\ Goes(P, a, k)
  BY GoodIn
<1>2. FitsStep(P, a, s, k)
  BY <1>1 DEF FitsStep, Step
<1> HIDE DEF s
<1> QED
  BY <1>1, <1>2, PlaceOf DEF s

LEMMA GoodUse ==
  ASSUME NEW a, Proper(a), NEW c, NEW p, NEW k, IsSeq(k),
         Good(Worked(Filled(a, c)), k), Good(Failed(Unfilled(a, c)), k)
  PROVE  Good(a, <<Step("use", c, None, p)>> \o k)
<1> DEFINE s == Step("use", c, None, p)
           b == Worked(Filled(a, c))
           e == Failed(Unfilled(a, c))
<1>0. Good(b, k) /\ Good(e, k)
  OBVIOUS
<1> HIDE DEF b, e
<1>1. PICK P : Sound(P) /\ Goes(P, b, k) /\ Goes(P, e, k)
  BY <1>0, GoodTwo
<1>2. FitsStep(P, a, s, k)
  BY <1>1 DEF FitsStep, Step, b, e
<1> HIDE DEF s
<1> QED
  BY <1>1, <1>2, PlaceOf DEF s

LEMMA GoodGetHandle ==
  ASSUME NEW a, Proper(a), NEW c, NEW k, IsSeq(k), Resting(c) \in a,
         Good(Worked(Made(a, c)), k), Good(Failed(a), k)
  PROVE  Good(a, <<Step("OMX_GetHandle", c, None, None)>> \o k)
<1> DEFINE s == Step("OMX_GetHandle", c, None, None)
           b == Worked(Made(a, c))
           e == Failed(a)
<1>0. Good(b, k) /\ Good(e, k)
  OBVIOUS
<1> HIDE DEF b, e
<1>1. PICK P : Sound(P) /\ Goes(P, b, k) /\ Goes(P, e, k)
  BY <1>0, GoodTwo
<1>2. FitsStep(P, a, s, k)
  BY <1>1 DEF FitsStep, Step, b, e
<1> HIDE DEF s
<1> QED
  BY <1>1, <1>2, PlaceOf DEF s

LEMMA GoodConnect ==
  ASSUME NEW a, Proper(a), NEW p \in PortPairs, NEW q \in PortPairs, p # q, NEW k, IsSeq(k),
         Good(Worked(Met(a, p, q)), k), Good(Failed(a), k)
  PROVE  Good(a, Connect(p, q) \o k)
<1> DEFINE s == Step("OMX_SetupTunnel", None, p, q)
           b == Worked(Met(a, p, q))
           e == Failed(a)
<1>0. Good(b, k) /\ Good(e, k)
  OBVIOUS
<1> HIDE DEF b, e
<1>1. PICK P : Sound(P) /\ Goes(P, b, k) /\ Goes(P, e, k)
  BY <1>0, GoodTwo
<1>2. FitsConnect(P, a, s, k)
  BY <1>1 DEF FitsConnect, Step, b, e
<1>3. FitsStep(P, a, s, k)
  BY <1>2 DEF FitsStep, Step
<1> HIDE DEF s
<1>4. Good(a, <<s>> \o k)
  BY <1>1, <1>3, PlaceOf
<1> QED
  BY <1>4 DEF s, Connect

Loop(c, x) == Step("disable all", c, None, x)

LEMMA LoopShrinks ==
  ASSUME NEW c, NEW x, NEW y
  PROVE  [Loop(c, x) EXCEPT !.x = y] = Loop(c, y)
<1> DEFINE op == "disable all"
           a  == None
<1>1. \A z : Loop(c, z) = Step(op, c, a, z)
  BY DEF Loop
<1> HIDE DEF op, a
<1> QED
  BY <1>1 DEF Step

LEMMA GoodLoop ==
  ASSUME NEW a, Proper(a), NEW c, NEW x, NEW k, IsSeq(k),
         x = {} => Good(a, k),
         x # {} => \E p \in x : /\ p = CHOOSE q \in x : TRUE
                                /\ Good(a, (DisablePort(c, p) \o <<Loop(c, x \ {p})>>) \o k)
  PROVE  Good(a, <<Loop(c, x)>> \o k)
<1> DEFINE s == Loop(c, x)
<1>s. s.op = "disable all" /\ s.c = c /\ s.x = x
  BY DEF Loop, Step
<1>1. \A y : [s EXCEPT !.x = y] = Loop(c, y)
  BY LoopShrinks
<1>2. \E P : Sound(P) /\ FitsLoop(P, a, s, k)
  <2>1. CASE x = {}
    <3>1. PICK P : Sound(P) /\ Goes(P, a, k)
      BY <2>1, GoodIn
    <3> QED
      BY <1>s, <2>1, <3>1 DEF FitsLoop
  <2>2. CASE x # {}
    <3>1. PICK p \in x : /\ p = CHOOSE q \in x : TRUE
                         /\ Good(a, (DisablePort(c, p) \o <<Loop(c, x \ {p})>>) \o k)
      BY <2>2
    <3> DEFINE m == (DisablePort(c, p) \o <<Loop(c, x \ {p})>>) \o k
    <3>2. m = (DisablePort(s.c, p) \o <<[s EXCEPT !.x = s.x \ {p}]>>) \o k
      BY <1>s, <1>1
    <3> HIDE DEF m
    <3>3. PICK P : Sound(P) /\ Goes(P, a, m)
      BY <3>1, GoodIn DEF m
    <3> HIDE DEF s
    <3>4. FitsLoop(P, a, s, k)
      BY <1>s, <2>2, <3>1, <3>2, <3>3 DEF FitsLoop
    <3> QED
      BY <3>3, <3>4
  <2> QED
    BY <2>1, <2>2
<1>3. PICK P : Sound(P) /\ FitsLoop(P, a, s, k)
  BY <1>2
<1> HIDE DEF s
<1>4. FitsStep(P, a, s, k)
  BY <1>s, <1>3 DEF FitsStep
<1> QED
  BY <1>3, <1>4, PlaceOf DEF s

LEMMA GoodBegin ==
  ASSUME NEW a, Proper(a), NEW part, NEW k, IsSeq(k),
         Good(a \cup {Begun(part)}, Body(part) \o k)
  PROVE  Good(a, <<Step("call", None, part, None)>> \o k)
<1> DEFINE s == Step("call", None, part, None)
<1>1. PICK P : Sound(P) /\ Goes(P, a \cup {Begun(part)}, Body(part) \o k)
  BY GoodIn
<1>2. FitsStep(P, a, s, k)
  BY <1>1 DEF FitsStep, Step
<1> HIDE DEF s
<1> QED
  BY <1>1, <1>2, PlaceOf DEF s

------------------------------------------------------------------------------
(***************************************************************************)
(* The places at which the components of A have been asked something, all  *)
(* others are at rest, and the facts F are known.                          *)
(***************************************************************************)
Idle(A)     == {c \in Components : \A g \in A : g[2] # c}
State(A, F) == {Resting(c) : c \in Idle(A)} \cup (A \cup F)

Still(F) ==
    \A f \in F : /\ f[1] \notin {"rest", "asked", "ok", "bad"}
                 /\ f[1] # "begun" => f[2] \in Components
                 /\ f[1] = "peer" => <<f[2], f[3]>> \in PortPairs
Orders(A) ==
    /\ \A g \in A : /\ g = Asking(g[2], g[3], g[4]) /\ g[2] \in Components
                    /\ Asks(g[2], g[3], g[4])
    /\ \A g, h \in A : g[2] = h[2] => g = h
Apart(A, F) ==
    \A g \in A : \A f \in F :
        f[2] = g[2] => /\ ~(f[1] = "on" /\ g[3] # "StateSet" /\ f[3] = g[4])
                       /\ ~(f[1] \in {"ran", "loaded"} /\ g[3] = "StateSet")
Knows(A, F) == Still(F) /\ Orders(A) /\ Apart(A, F)

LEMMA StateProper ==
  ASSUME NEW A, NEW F, Knows(A, F)
  PROVE  /\ Proper(State(A, F)) /\ Proper(State(A, F) \cup {Ok})
         /\ Proper(State(A, F) \cup {Bad})
<1>1. ASSUME NEW a, State(A, F) \subseteq a, a \subseteq State(A, F) \cup {Ok, Bad}
      PROVE  Proper(a)
  <2>1. \A f \in a : \/ \E c \in Idle(A) : f = Resting(c)
                     \/ f \in A \/ f \in F \/ f \in {Ok, Bad}
    BY <1>1 DEF State
  <2>2. \A c : Resting(c)[1] = "rest" /\ Resting(c)[2] = c
    BY DEF Resting, Fact
  <2>3. \A g \in A : g[1] = "asked" /\ g[2] \in Components
    BY DEF Knows, Orders, Asking
  <2>4. Ok[1] = "ok" /\ Bad[1] = "bad"
    BY DEF Ok, Bad, Fact
  <2>5. \A f \in a : f[1] \notin {"begun", "ok", "bad"} => f[2] \in Components
    <3>1. ASSUME NEW f \in a, f[1] \notin {"begun", "ok", "bad"}
          PROVE  f[2] \in Components
      <4>1. \/ \E c \in Idle(A) : f = Resting(c)
            \/ f \in A \/ f \in F
        BY <2>1, <2>4, <3>1
      <4>2. CASE \E c \in Idle(A) : f = Resting(c)
        BY <2>2, <4>2 DEF Idle
      <4>3. CASE f \in A
        BY <2>3, <4>3
      <4>4. CASE f \in F
        BY <3>1, <4>4 DEF Knows, Still
      <4> QED
        BY <4>1, <4>2, <4>3, <4>4
    <3> QED
      BY <3>1
  <2>6. \A f \in a : f[1] \notin {"rest", "asked", "ok", "bad"} => f \in F
    BY <2>1, <2>2, <2>3, <2>4
  <2>7. \A f \in a : f[1] = "asked" => f \in A
    <3>1. \A f \in F : f[1] # "asked"
      BY DEF Knows, Still
    <3> QED
      BY <2>1, <2>2, <2>4, <3>1
  <2>8. \A f \in a : f[1] = "peer" => <<f[2], f[3]>> \in PortPairs
    BY <2>6 DEF Knows, Still
  <2>9. ASSUME NEW c \in Components
        PROVE  Resting(c) \in a \/ \E cmd, x : Asking(c, cmd, x) \in a /\ Asks(c, cmd, x)
    <3>1. CASE c \in Idle(A)
      BY <1>1, <3>1 DEF State
    <3>2. CASE c \notin Idle(A)
      <4>1. PICK g \in A : g[2] = c
        BY <3>2 DEF Idle
      <4>2. g \in a
        BY <1>1 DEF State
      <4> QED
        BY <4>1, <4>2 DEF Knows, Orders
    <3> QED
      BY <3>1, <3>2
  <2>10. \A c, cmd, x : /\ Asking(c, cmd, x)[1] = "asked" /\ Asking(c, cmd, x)[2] = c
                        /\ Asking(c, cmd, x)[3] = cmd /\ Asking(c, cmd, x)[4] = x
    BY DEF Asking
  <2>11. ASSUME NEW f \in a, f[1] = "on"
         PROVE  Asking(f[2], "PortEnable", f[3]) \notin a
    <3>1. f \in F
      BY <2>6, <2>11
    <3> DEFINE g == Asking(f[2], "PortEnable", f[3])
    <3>2. g[1] = "asked" /\ g[2] = f[2] /\ g[3] = "PortEnable" /\ g[4] = f[3]
      BY <2>10
    <3> HIDE DEF g
    <3>3. g \notin A
      BY <2>11, <3>1, <3>2 DEF Knows, Apart
    <3>4. g \notin a
      BY <2>7, <3>2, <3>3
    <3> QED
      BY <3>4 DEF g
  <2>12. ASSUME NEW f \in a, f[1] \in {"ran", "loaded"}, NEW x
         PROVE  Asking(f[2], "StateSet", x) \notin a
    <3>1. f \in F
      BY <2>6, <2>12
    <3> DEFINE g == Asking(f[2], "StateSet", x)
    <3>2. g[1] = "asked" /\ g[2] = f[2] /\ g[3] = "StateSet"
      BY <2>10
    <3> HIDE DEF g
    <3>3. g \notin A
      BY <2>12, <3>1, <3>2 DEF Knows, Apart
    <3>4. g \notin a
      BY <2>7, <3>2, <3>3
    <3> QED
      BY <3>4 DEF g
  <2> QED
    BY <2>5, <2>8, <2>9, <2>11, <2>12 DEF Proper
<1> QED
  BY <1>1

\* Knowing less.
LEMMA KnowsLess ==
  ASSUME NEW A, NEW F, Knows(A, F), NEW G, G \subseteq F
  PROVE  Knows(A, G) /\ State(A, G) \subseteq State(A, F)
BY DEF Knows, Still, Apart, State

LEMMA StateMute ==
  ASSUME NEW A, NEW F, Knows(A, F)
  PROVE  /\ State(A, F) \cup {Ok} \subseteq Worked(State(A, F))
         /\ State(A, F) \cup {Bad} \subseteq Failed(State(A, F))
         /\ State(A, F) \cup {Ok} \subseteq Worked(State(A, F) \cup {Ok})
         /\ State(A, F) \cup {Bad} \subseteq Failed(State(A, F) \cup {Ok})
<1>1. \A f \in State(A, F) : f[1] \notin {"ok", "bad"}
  <2>1. \A c : Resting(c)[1] = "rest"
    BY DEF Resting, Fact
  <2>2. \A g \in A : g[1] = "asked"
    BY DEF Knows, Orders, Asking
  <2>3. \A f \in F : f[1] \notin {"ok", "bad"}
    BY DEF Knows, Still
  <2> QED
    BY <2>1, <2>2, <2>3 DEF State
<1>2. State(A, F) \subseteq Mute(State(A, F)) /\ State(A, F) \subseteq Mute(State(A, F) \cup {Ok})
  BY <1>1 DEF Mute
<1> QED
  BY <1>2 DEF Worked, Failed

LEMMA StateSent ==
  ASSUME NEW A, NEW F, NEW c, NEW cmd, NEW x, Knows(A, F), c \in Idle(A),
         Knows(A \cup {Asking(c, cmd, x)}, F)
  PROVE  State(A \cup {Asking(c, cmd, x)}, F) \subseteq Sent(State(A, F), c, cmd, x)
<1> DEFINE g == Asking(c, cmd, x)
<1>1. g[1] = "asked" /\ g[2] = c /\ g[3] = cmd /\ g[4] = x
  BY DEF Asking
<1>2. g \in Sent(State(A, F), c, cmd, x)
  BY DEF Sent
<1> HIDE DEF g
<1>3. ASSUME NEW f \in State(A \cup {g}, F)
      PROVE  f = g \/ (f \in State(A, F) /\
                       (f[2] = c => /\ f[1] \notin {"rest", "asked"}
                                    /\ cmd = "StateSet" => f[1] \notin {"ran", "loaded"}
                                    /\ cmd # "StateSet" => ~(f[1] = "on" /\ f[3] = x)))
  <2>1. CASE \E d \in Idle(A \cup {g}) : f = Resting(d)
    <3>1. PICK d \in Idle(A \cup {g}) : f = Resting(d)
      BY <2>1
    <3>2. d \in Idle(A) /\ d # c /\ f[2] = d
      BY <1>1, <3>1 DEF Idle, Resting, Fact
    <3> QED
      BY <3>1, <3>2 DEF State
  <2>2. CASE f \in A
    <3>1. f[2] # c
      BY <2>2 DEF Idle
    <3> QED
      BY <2>2, <3>1 DEF State
  <2>3. CASE f \in F
    <3>1. f[1] \notin {"rest", "asked"}
      BY <2>3 DEF Knows, Still
    <3>2. f[2] = c => (cmd = "StateSet" => f[1] \notin {"ran", "loaded"})
      BY <1>1, <2>3 DEF Knows, Apart, g
    <3>3. f[2] = c => (cmd # "StateSet" => ~(f[1] = "on" /\ f[3] = x))
      BY <1>1, <2>3 DEF Knows, Apart, g
    <3> QED
      BY <2>3, <3>1, <3>2, <3>3 DEF State
  <2> QED
    BY <1>3, <2>1, <2>2, <2>3 DEF State
<1> QED
  BY <1>2, <1>3 DEF Sent, g

LEMMA StateAnswered ==
  ASSUME NEW A, NEW F, NEW c, NEW cmd, NEW x, Knows(A, F), Asking(c, cmd, x) \in A,
         NEW R, \A f \in R : f[1] \notin {"ok", "bad"}
  PROVE  /\ State(A \ {Asking(c, cmd, x)}, F \cup R) \cup {Ok}
                \subseteq Worked(Answer(State(A, F), c) \cup R)
         /\ State(A \ {Asking(c, cmd, x)}, F \cup R) \cup {Bad}
                \subseteq Failed(Answer(State(A, F), c) \cup R)
<1> DEFINE g == Asking(c, cmd, x)
           b == Answer(State(A, F), c)
<1>1. g[1] = "asked" /\ g[2] = c /\ g \in A
  BY DEF Asking
<1>2. \A d : Resting(d)[1] = "rest" /\ Resting(d)[2] = d
  BY DEF Resting, Fact
<1>3. \A f \in State(A, F) : f[1] \notin {"ok", "bad"}
  <2>1. \A f \in A : f[1] = "asked"
    BY DEF Knows, Orders, Asking
  <2>2. \A f \in F : f[1] \notin {"ok", "bad"}
    BY DEF Knows, Still
  <2> QED
    BY <1>2, <2>1, <2>2 DEF State
<1>4. b = {f \in State(A, F) : f[2] = c => f[1] # "asked"} \cup {Resting(c)}
  BY <1>3 DEF Answer, Mute
<1> HIDE DEF g, b
<1>5. \A f \in b : f[1] \notin {"ok", "bad"}
  BY <1>2, <1>3, <1>4
<1>6. State(A \ {g}, F \cup R) \subseteq b \cup R
  <2> SUFFICES ASSUME NEW f \in State(A \ {g}, F \cup R)
               PROVE  f \in b \cup R
    OBVIOUS
  <2>1. CASE \E d \in Idle(A \ {g}) : f = Resting(d)
    <3>1. PICK d \in Idle(A \ {g}) : f = Resting(d)
      BY <2>1
    <3>2. CASE d = c
      BY <1>4, <3>1, <3>2
    <3>3. CASE d # c
      <4>1. d \in Idle(A)
        BY <1>1, <3>3 DEF Idle
      <4> QED
        BY <1>2, <1>4, <3>1, <3>3, <4>1 DEF State
    <3> QED
      BY <3>2, <3>3
  <2>2. CASE f \in A \ {g}
    <3>1. f[2] # c
      BY <1>1, <2>2 DEF Knows, Orders
    <3> QED
      BY <1>4, <2>2, <3>1 DEF State
  <2>3. CASE f \in F
    <3>1. f[1] # "asked"
      BY <2>3 DEF Knows, Still
    <3> QED
      BY <1>4, <2>3, <3>1 DEF State
  <2> QED
    BY <2>1, <2>2, <2>3 DEF State
<1>7. b \cup R \subseteq Mute(b \cup R)
  BY <1>5 DEF Mute
<1> QED
  BY <1>6, <1>7 DEF Worked, Failed, g, b

\* A component is asked, and its answer is waited for.
LEMMA SendRule ==
  ASSUME NEW A, NEW F, NEW c, NEW cmd, NEW x, NEW k, IsSeq(k), Knows(A, F), c \in Idle(A),
         Knows(A \cup {Asking(c, cmd, x)}, F),
         cmd = "PortDisable" => Fact("loaded", c) \in F \/ Fact("masked", c) \in F,
         Good(State(A \cup {Asking(c, cmd, x)}, F), k)
  PROVE  Good(State(A, F), Send(c, cmd, x) \o k)
<1> DEFINE a == State(A, F)
           b == State(A \cup {Asking(c, cmd, x)}, F)
           e == Sent(a, c, cmd, x)
<1>1. b \subseteq e
  BY StateSent
<1>2. Good(b, k)
  OBVIOUS
<1>3. Good(e, k)
  <2> HIDE DEF b, e
  <2> QED
    BY <1>1, <1>2, GoodMore
<1>4. Proper(a) /\ Resting(c) \in a /\ F \subseteq a
  BY StateProper DEF State
<1>5. Asks(c, cmd, x)
  <2> DEFINE g == Asking(c, cmd, x)
  <2>1. g[2] = c /\ g[3] = cmd /\ g[4] = x
    BY DEF Asking
  <2> HIDE DEF g
  <2>2. Asks(g[2], g[3], g[4])
    BY DEF Knows, Orders, g
  <2> QED
    BY <2>1, <2>2
<1> HIDE DEF a
<1> QED
  BY <1>3, <1>4, <1>5, GoodSend DEF a

LEMMA ReachedIs ==
  ASSUME NEW c, NEW cmd, NEW x
  PROVE  /\ \A f \in Reached(c, cmd, x) : f[1] \notin {"ok", "bad"}
         /\ \A f \in Excused(c, cmd) : f[1] \notin {"ok", "bad"}
BY DEF Reached, Excused, On, Fact

LEMMA AwaitRule ==
  ASSUME NEW A, NEW F, NEW c, NEW cmd, NEW x, NEW other, NEW k, IsSeq(k), Knows(A, F),
         Asking(c, cmd, x) \in A,
         Good(State(A \ {Asking(c, cmd, x)}, F \cup Reached(c, cmd, x)) \cup {Ok}, k),
         Good(State(A \ {Asking(c, cmd, x)}, F \cup Excused(c, cmd)) \cup {Bad}, k),
         other # None => Good(State(A, F) \cup {Bad}, k)
  PROVE  Good(State(A, F), <<[op |-> "await", c |-> c, a |-> cmd, x |-> x, other |-> other]>> \o k)
<1> DEFINE a == State(A, F)
           b == State(A \ {Asking(c, cmd, x)}, F \cup Reached(c, cmd, x)) \cup {Ok}
           e == State(A \ {Asking(c, cmd, x)}, F \cup Excused(c, cmd)) \cup {Bad}
           h == State(A, F) \cup {Bad}
           b2 == Worked(Answer(a, c) \cup Reached(c, cmd, x))
           e2 == Failed(Answer(a, c) \cup Excused(c, cmd))
           h2 == Failed(a)
<1>1. b \subseteq b2 /\ e \subseteq e2 /\ h \subseteq h2
  BY ReachedIs, StateAnswered, StateMute
<1>2. Good(b, k) /\ Good(e, k) /\ (other # None => Good(h, k))
  OBVIOUS
<1>3. Good(b2, k) /\ Good(e2, k) /\ (other # None => Good(h2, k))
  <2> HIDE DEF b, e, h, b2, e2, h2
  <2> QED
    BY <1>1, <1>2, GoodMore
<1>4. Proper(a) /\ Asking(c, cmd, x) \in a
  BY StateProper DEF State
<1>5. Asks(c, cmd, x)
  <2> DEFINE g == Asking(c, cmd, x)
  <2>1. g[2] = c /\ g[3] = cmd /\ g[4] = x
    BY DEF Asking
  <2> HIDE DEF g
  <2>2. Asks(g[2], g[3], g[4])
    BY DEF Knows, Orders, g
  <2> QED
    BY <2>1, <2>2
<1> HIDE DEF a
<1> QED
  BY <1>3, <1>4, <1>5, GoodAwait DEF a

\* The wait for the command of one component.
LEMMA WaitRule ==
  ASSUME NEW A, NEW F, NEW c, NEW cmd, NEW x, NEW k, IsSeq(k), Knows(A, F),
         Asking(c, cmd, x) \in A,
         Good(State(A \ {Asking(c, cmd, x)}, F \cup Reached(c, cmd, x)) \cup {Ok}, k),
         Good(State(A \ {Asking(c, cmd, x)}, F \cup Excused(c, cmd)) \cup {Bad}, k)
  PROVE  Good(State(A, F), WaitForCommand(c, cmd, x) \o k)
BY AwaitRule DEF WaitForCommand

\* What follows a call, depending on whether it has worked.
LEMMA OkRule ==
  ASSUME NEW A, NEW F, Knows(A, F), NEW yes, NEW no, IsSeq(yes), IsSeq(no), NEW k, IsSeq(k)
  PROVE  /\ Good(State(A, F), yes \o k) => Good(State(A, F) \cup {Ok}, IfOk(yes, no) \o k)
         /\ Good(State(A, F), no \o k) => Good(State(A, F) \cup {Bad}, IfOk(yes, no) \o k)
         /\ Good(State(A, F), yes \o k) /\ Good(State(A, F), no \o k) =>
                Good(State(A, F), IfOk(yes, no) \o k)
<1> DEFINE a == State(A, F)
           x == yes \o k
           y == no \o k
<1>1. Proper(a) /\ Proper(a \cup {Ok}) /\ Proper(a \cup {Bad})
  BY StateProper
<1> HIDE DEF a
<1>2. /\ Good(a, x) => Good(a \cup {Ok}, x) /\ Good((a \cup {Ok}) \cup {Ok}, x)
      /\ Good(a, y) => Good(a \cup {Bad}, y) /\ Good((a \cup {Bad}) \cup {Bad}, y)
  <2> HIDE DEF x, y
  <2> QED
    BY GoodMore
<1>3. /\ Good(a, x) => Good(a \cup {Ok}, IfOk(yes, no) \o k)
      /\ Good(a, y) => Good(a \cup {Bad}, IfOk(yes, no) \o k)
      /\ Good(a, x) /\ Good(a, y) => Good(a, IfOk(yes, no) \o k)
  BY <1>1, <1>2, GoodIfOk
<1> QED
  BY <1>3 DEF a

LEMMA DemandRule ==
  ASSUME NEW A, NEW F, Knows(A, F), NEW k, IsSeq(k), Good(State(A, F), k)
  PROVE  /\ Good(State(A, F), Demand \o k) /\ Good(State(A, F) \cup {Ok}, Demand \o k)
         /\ Good(State(A, F) \cup {Bad}, Demand \o k)
         /\ Good(State(A, F), Return(0) \o k)
<1> DEFINE a == State(A, F)
<1>1. /\ Proper(a) /\ Proper(a \cup {Ok})
      /\ a \subseteq Worked(a) /\ a \subseteq Worked(a \cup {Ok})
  BY StateProper, StateMute
<1> HIDE DEF a
<1>2. Good(Worked(a), k) /\ Good(Worked(a \cup {Ok}), k)
  BY <1>1, GoodMore DEF a
<1>3. Demands(Demand \o k)
  BY DEF Demands
<1>4. Good(a \cup {Bad}, Demand \o k)
  BY <1>3, GoodLost DEF Lost, Fails
<1> QED
  BY <1>1, <1>2, <1>4, GoodDemand, GoodReturn DEF a

------------------------------------------------------------------------------
(***************************************************************************)
(* A program that leads from the places with A and F to those with B and   *)
(* G, whatever follows; or, if what follows demands that the call has      *)
(* worked, to those at which it has.                                       *)
(***************************************************************************)
Passes(A, F, x, B, G) ==
    /\ IsSeq(x) /\ Knows(B, G)
    /\ \A k : IsSeq(k) /\ Good(State(B, G), k) => Good(State(A, F), x \o k)
Yields(A, F, x, B, G) ==
    /\ IsSeq(x) /\ Knows(B, G)
    /\ \A k : Fails(k) /\ Good(State(B, G) \cup {Ok}, k) => Good(State(A, F), x \o k)

LEMMA PassJoin ==
  ASSUME NEW A, NEW F, NEW x, NEW B, NEW G, NEW y, NEW C, NEW H, Passes(A, F, x, B, G)
  PROVE  /\ Passes(B, G, y, C, H) => Passes(A, F, x \o y, C, H)
         /\ Yields(B, G, y, C, H) => Yields(A, F, x \o y, C, H)
<1>1. ASSUME IsSeq(y)
      PROVE  /\ IsSeq(x \o y)
             /\ \A k : IsSeq(k) => (x \o y) \o k = x \o (y \o k) /\ IsSeq(y \o k)
  <2>1. IsSeq(x)
    BY DEF Passes
  <2>2. ASSUME NEW k, IsSeq(k)
        PROVE  (x \o y) \o k = x \o (y \o k) /\ IsSeq(y \o k)
    <3>1. (x \o y) \o k = x \o (y \o k)
      BY <1>1, <2>1, <2>2, Assoc
    <3>2. IsSeq(y \o k)
      BY <1>1, <2>2, JoinSeq
    <3> QED
      BY <3>1, <3>2
  <2> QED
    BY <1>1, <2>1, <2>2, JoinSeq
<1>2. ASSUME Passes(B, G, y, C, H)
      PROVE  Passes(A, F, x \o y, C, H)
  <2>1. ASSUME NEW k, IsSeq(k), Good(State(C, H), k)
        PROVE  Good(State(A, F), (x \o y) \o k)
    <3>1. Good(State(B, G), y \o k)
      BY <1>2, <2>1 DEF Passes
    <3> QED
      BY <1>1, <1>2, <2>1, <3>1 DEF Passes
  <2> QED
    BY <1>1, <1>2, <2>1 DEF Passes
<1>3. ASSUME Yields(B, G, y, C, H)
      PROVE  Yields(A, F, x \o y, C, H)
  <2>1. ASSUME NEW k, Fails(k), Good(State(C, H) \cup {Ok}, k)
        PROVE  Good(State(A, F), (x \o y) \o k)
    <3>1. Good(State(B, G), y \o k) /\ IsSeq(k)
      BY <1>3, <2>1, FailsSeq DEF Yields
    <3> QED
      BY <1>1, <1>3, <2>1, <3>1 DEF Passes, Yields
  <2> QED
    BY <1>1, <1>3, <2>1 DEF Yields
<1> QED
  BY <1>2, <1>3

LEMMA YieldDemand ==
  ASSUME NEW A, NEW F, NEW x, NEW B, NEW G, Yields(A, F, x, B, G)
  PROVE  Passes(A, F, x \o Demand, B, G)
<1>1. IsSeq(x) /\ IsSeq(Demand) /\ IsSeq(x \o Demand) /\ Knows(B, G)
  BY OneSeq, JoinSeq DEF Yields, Demand
<1>2. ASSUME NEW k, IsSeq(k), Good(State(B, G), k)
      PROVE  Good(State(A, F), (x \o Demand) \o k)
  <2>1. Good(State(B, G) \cup {Ok}, Demand \o k)
    BY <1>1, <1>2, DemandRule
  <2>2. Fails(Demand \o k)
    BY <1>2 DEF Fails, Demands
  <2>3. Good(State(A, F), x \o (Demand \o k))
    BY <2>1, <2>2 DEF Yields
  <2>4. (x \o Demand) \o k = x \o (Demand \o k)
    <3> DEFINE z == Demand
    <3>1. IsSeq(z)
      BY <1>1
    <3> HIDE DEF z
    <3>2. (x \o z) \o k = x \o (z \o k)
      <4>1. Joined(x, z, k)
        BY <1>1, <1>2, <3>1, AssocThree
      <4> QED
        BY <4>1 DEF Joined
    <3> QED
      BY <3>2 DEF z
  <2> QED
    BY <2>3, <2>4
<1> QED
  BY <1>1, <1>2 DEF Passes

\* More may be known before, and less after.
LEMMA PassLess ==
  ASSUME NEW A, NEW F, NEW x, NEW B, NEW G, NEW F2, NEW G2, F \subseteq F2, G2 \subseteq G
  PROVE  /\ Passes(A, F, x, B, G) => Passes(A, F2, x, B, G2)
         /\ Yields(A, F, x, B, G) => Yields(A, F2, x, B, G2)
<1>1. State(A, F) \subseteq State(A, F2) /\ State(B, G2) \subseteq State(B, G)
      /\ State(B, G2) \cup {Ok} \subseteq State(B, G) \cup {Ok}
  BY DEF State
<1>2. Knows(B, G) => Knows(B, G2)
  BY KnowsLess
<1>3. ASSUME NEW k
      PROVE  /\ Good(State(A, F), k) => Good(State(A, F2), k)
             /\ Good(State(B, G2), k) => Good(State(B, G), k)
             /\ Good(State(B, G2) \cup {Ok}, k) => Good(State(B, G) \cup {Ok}, k)
  <2>1. ASSUME NEW d, NEW e, d \subseteq e, Good(d, k)
        PROVE  Good(e, k)
    BY <2>1, GoodMore
  <2> QED
    BY <1>1, <2>1
<1>4. ASSUME Passes(A, F, x, B, G)
      PROVE  Passes(A, F2, x, B, G2)
  <2>1. ASSUME NEW k, IsSeq(k), Good(State(B, G2), k)
        PROVE  Good(State(A, F2), x \o k)
    <3>1. Good(State(A, F), x \o k)
      BY <1>3, <1>4, <2>1 DEF Passes
    <3> QED
      BY <1>3, <3>1
  <2> QED
    BY <1>2, <1>4, <2>1 DEF Passes
<1>5. ASSUME Yields(A, F, x, B, G)
      PROVE  Yields(A, F2, x, B, G2)
  <2>1. ASSUME NEW k, Fails(k), Good(State(B, G2) \cup {Ok}, k)
        PROVE  Good(State(A, F2), x \o k)
    <3>1. Good(State(A, F), x \o k)
      BY <1>3, <1>5, <2>1 DEF Yields
    <3> QED
      BY <1>3, <3>1
  <2> QED
    BY <1>2, <1>5, <2>1 DEF Yields
<1> QED
  BY <1>4, <1>5

LEMMA PassSend ==
  ASSUME NEW A, NEW F, NEW c, NEW cmd, NEW x, Knows(A, F), c \in Idle(A),
         Knows(A \cup {Asking(c, cmd, x)}, F),
         cmd = "PortDisable" => Fact("loaded", c) \in F \/ Fact("masked", c) \in F
  PROVE  Passes(A, F, Send(c, cmd, x), A \cup {Asking(c, cmd, x)}, F)
BY OneSeq, SendRule DEF Passes, Send

\* What a step without effect on what is known leads to, and what it may fail with.
LEMMA PassSetting ==
  ASSUME NEW A, NEW F, Knows(A, F)
  PROVE  Passes(A, F, Setting, A, F) /\ Passes(A, F, InitCore \o Demand, A, F)
<1>1. ASSUME NEW s, s.op \in {"configure", "OMX_Init"}
      PROVE  Passes(A, F, <<s>> \o Demand, A, F)
  <2>1. IsSeq(<<s>>) /\ IsSeq(Demand) /\ IsSeq(<<s>> \o Demand)
    BY OneSeq, JoinSeq DEF Demand
  <2>2. ASSUME NEW k, IsSeq(k), Good(State(A, F), k)
        PROVE  Good(State(A, F), (<<s>> \o Demand) \o k)
    <3> DEFINE a == State(A, F)
               m == Demand \o k
               b == a \cup {Ok}
               e == a \cup {Bad}
               b2 == Worked(a)
               e2 == Failed(a)
    <3>1. Good(b, m) /\ Good(e, m) /\ b \subseteq b2 /\ e \subseteq e2 /\ Proper(a)
      BY <2>2, DemandRule, StateMute, StateProper
    <3>2. Good(b2, m) /\ Good(e2, m)
      <4> HIDE DEF b, e, b2, e2, m
      <4> QED
        BY <3>1, GoodMore
    <3>3. IsSeq(m) /\ (<<s>> \o Demand) \o k = <<s>> \o m
      <4> DEFINE y == <<s>>
                 z == Demand
      <4>1. IsSeq(y) /\ IsSeq(z)
        BY <2>1
      <4> HIDE DEF y, z
      <4>2. (y \o z) \o k = y \o (z \o k) /\ IsSeq(z \o k)
        BY <2>2, <4>1, Assoc, JoinSeq, SMTT(30)
      <4> QED
        BY <4>2 DEF y, z
    <3> HIDE DEF a, m
    <3>4. Good(a, <<s>> \o m)
      BY <1>1, <3>1, <3>2, <3>3, GoodEither
    <3> QED
      BY <3>3, <3>4 DEF a
  <2> QED
    BY <2>1, <2>2 DEF Passes
<1> DEFINE s1 == Step("configure", None, None, None)
           s2 == Step("OMX_Init", None, None, None)
<1>2. s1.op = "configure" /\ s2.op = "OMX_Init"
  BY DEF Step
<1> HIDE DEF s1, s2
<1>3. Passes(A, F, <<s1>> \o Demand, A, F) /\ Passes(A, F, <<s2>> \o Demand, A, F)
  BY <1>1, <1>2
<1> QED
  BY <1>3 DEF Setting, InitCore, s1, s2

------------------------------------------------------------------------------
\* The branch on a result that is known.
LEMMA KnownBranch ==
  ASSUME NEW A, NEW F, Knows(A, F), NEW yes, NEW no, IsSeq(yes), IsSeq(no), NEW k, IsSeq(k)
  PROVE  /\ Good(State(A, F) \cup {Ok}, yes \o k) =>
                Good(State(A, F) \cup {Ok}, IfOk(yes, no) \o k)
         /\ Good(State(A, F) \cup {Bad}, no \o k) =>
                Good(State(A, F) \cup {Bad}, IfOk(yes, no) \o k)
<1> DEFINE a == State(A, F) \cup {Ok}
           b == State(A, F) \cup {Bad}
<1>1. Proper(a) /\ Proper(b)
  BY StateProper
<1>2. a \cup {Ok} = a /\ b \cup {Bad} = b /\ Ok \in a /\ Bad \in b
  OBVIOUS
<1> HIDE DEF a, b
<1>3. /\ Good(a, yes \o k) => Good(a, IfOk(yes, no) \o k)
      /\ Good(b, no \o k) => Good(b, IfOk(yes, no) \o k)
  BY <1>1, <1>2, GoodIfOk
<1> QED
  BY <1>3 DEF a, b

\* A failure that is returned.
LEMMA FailedBranch ==
  ASSUME NEW A, NEW F, Knows(A, F), NEW yes, IsSeq(yes), NEW y, Prog(All, y), NEW r \in Failing,
         NEW k, Fails(k)
  PROVE  /\ Good(State(A, F) \cup {Bad}, IfOk(yes, y \o Return(r)) \o k)
         /\ Good(State(A, F) \cup {Bad}, IfOk(yes, Return(r)) \o k)
<1>1. IsSeq(k) /\ IsSeq(y) /\ IsSeq(Return(r)) /\ IsSeq(y \o Return(r))
  BY FailsSeq, ProgSeq, ReturnSeq, JoinSeq
<1>2. /\ Good(State(A, F) \cup {Bad}, (y \o Return(r)) \o k)
      /\ Good(State(A, F) \cup {Bad}, Return(r) \o k)
  BY LostReturn
<1> QED
  BY <1>1, <1>2, KnownBranch

LEMMA KnowsReached ==
  ASSUME NEW A, NEW F, NEW c, NEW cmd, NEW x, Knows(A, F), Asking(c, cmd, x) \in A
  PROVE  /\ Knows(A \ {Asking(c, cmd, x)}, F)
         /\ Knows(A \ {Asking(c, cmd, x)}, F \cup Reached(c, cmd, x))
         /\ Knows(A \ {Asking(c, cmd, x)}, F \cup Excused(c, cmd))
<1> DEFINE g == Asking(c, cmd, x)
<1>1. g \in A /\ g[2] = c /\ c \in Components
  <2>1. g \in A /\ g[2] = c
    BY DEF Asking
  <2> HIDE DEF g
  <2> QED
    BY <2>1 DEF Knows, Orders
<1> HIDE DEF g
<1>2. ASSUME NEW R, \A f \in R : /\ f[2] = c
                                 /\ f[1] \notin {"rest", "asked", "ok", "bad", "peer"}
      PROVE  Knows(A \ {g}, F \cup R)
  <2>1. Still(F \cup R) /\ Orders(A \ {g})
    BY <1>1, <1>2 DEF Knows, Still, Orders
  <2>2. \A h \in A \ {g} : h[2] # c
    BY <1>1 DEF Knows, Orders
  <2>3. Apart(A \ {g}, F \cup R)
    BY <1>2, <2>2 DEF Knows, Apart
  <2> QED
    BY <2>1, <2>3 DEF Knows
<1>3. \A f \in Reached(c, cmd, x) \cup Excused(c, cmd) :
        /\ f[2] = c /\ f[1] \notin {"rest", "asked", "ok", "bad", "peer"}
  BY DEF Reached, Excused, On, Fact
<1>4. Knows(A \ {g}, F \cup {})
  <2> DEFINE R == {}
  <2>1. \A f \in R : f[2] = c /\ f[1] \notin {"rest", "asked", "ok", "bad", "peer"}
    OBVIOUS
  <2> HIDE DEF R
  <2>2. Knows(A \ {g}, F \cup R)
    BY <1>2, <2>1
  <2> QED
    BY <2>2 DEF R
<1> QED
  BY <1>2, <1>3, <1>4 DEF g

\* The wait for an answer; its failure is looked at, or returned.
LEMMA YieldWait ==
  ASSUME NEW A, NEW F, NEW c, NEW cmd, NEW x, Knows(A, F), Asking(c, cmd, x) \in A
  PROVE  /\ Yields(A, F, WaitForCommand(c, cmd, x),
                   A \ {Asking(c, cmd, x)}, F \cup Reached(c, cmd, x))
         /\ \A y : \A r \in Failing : Prog(All, y) =>
                Yields(A, F, WaitForCommand(c, cmd, x) \o IfOk(<<>>, y \o Return(r)),
                       A \ {Asking(c, cmd, x)}, F \cup Reached(c, cmd, x))
<1> DEFINE B == A \ {Asking(c, cmd, x)}
           G == F \cup Reached(c, cmd, x)
           H == F \cup Excused(c, cmd)
           w == WaitForCommand(c, cmd, x)
<1>1. Knows(B, G) /\ Knows(B, H)
  BY KnowsReached
<1>2. \A k : IsSeq(k) /\ Good(State(B, G) \cup {Ok}, k) /\ Good(State(B, H) \cup {Bad}, k)
                => Good(State(A, F), w \o k)
  BY WaitRule
<1>3. IsSeq(w) /\ IsSeq(<<>>)
  BY OneSeq, NoneSeq DEF WaitForCommand
<1> HIDE DEF B, G, H, w
<1>4. ASSUME NEW k, Fails(k), Good(State(B, G) \cup {Ok}, k)
      PROVE  Good(State(A, F), w \o k)
  <2>1. Good(State(B, H) \cup {Bad}, k) /\ IsSeq(k)
    BY <1>4, FailsSeq, GoodLost DEF Lost
  <2> QED
    BY <1>2, <1>4, <2>1
<1>5. ASSUME NEW y, NEW r \in Failing, Prog(All, y)
      PROVE  Yields(A, F, w \o IfOk(<<>>, y \o Return(r)), B, G)
  <2> DEFINE d == IfOk(<<>>, y \o Return(r))
  <2>1. IsSeq(y \o Return(r)) /\ IsSeq(d)
    BY <1>5, ProgSeq, ReturnSeq, JoinSeq, OneSeq DEF IfOk, If
  <2>2. ASSUME NEW k, Fails(k), Good(State(B, G) \cup {Ok}, k)
        PROVE  Good(State(A, F), (w \o d) \o k)
    <3>1. IsSeq(k) /\ <<>> \o k = k
      BY <2>2, FailsSeq, NoneJoin
    <3>2. Good(State(B, G) \cup {Ok}, d \o k)
      BY <1>1, <1>3, <2>1, <2>2, <3>1, KnownBranch
    <3>3. Good(State(B, H) \cup {Bad}, d \o k)
      BY <1>1, <1>3, <1>5, <2>2, FailedBranch
    <3> HIDE DEF d
    <3>4. IsSeq(d \o k) /\ (w \o d) \o k = w \o (d \o k)
      <4>1. IsSeq(d \o k)
        BY <1>3, <2>1, <3>1, JoinSeq
      <4>2. Joined(w, d, k)
        BY <1>3, <2>1, <3>1, AssocThree
      <4> QED
        BY <4>1, <4>2 DEF Joined
    <3> QED
      BY <1>2, <3>2, <3>3, <3>4
  <2>3. IsSeq(w \o d)
    <3> HIDE DEF d
    <3> QED
      BY <1>3, <2>1, JoinSeq
  <2> QED
    BY <1>1, <2>2, <2>3 DEF Yields
<1>6. Yields(A, F, w, B, G)
  BY <1>1, <1>3, <1>4 DEF Yields
<1> QED
  BY <1>5, <1>6 DEF B, G, w

\* A port whose component is loaded or masked is disabled.
LEMMA KnowsAsked ==
  ASSUME NEW F, Still(F), NEW c \in Components, NEW cmd, NEW x, Asks(c, cmd, x),
         \A f \in F : f[2] = c => /\ cmd # "StateSet" => ~(f[1] = "on" /\ f[3] = x)
                                  /\ cmd = "StateSet" => f[1] \notin {"ran", "loaded"},
         NEW A, Knows(A, F), c \in Idle(A)
  PROVE  Knows(A \cup {Asking(c, cmd, x)}, F)
<1> DEFINE g == Asking(c, cmd, x)
<1>1. g[2] = c /\ g[3] = cmd /\ g[4] = x /\ g = Asking(g[2], g[3], g[4])
  BY DEF Asking
<1> HIDE DEF g
<1>2. Orders(A \cup {g})
  BY <1>1 DEF Knows, Orders, Idle
<1>3. Apart(A \cup {g}, F)
  BY <1>1 DEF Knows, Apart
<1> QED
  BY <1>2, <1>3 DEF Knows, g

LEMMA PassDisable ==
  ASSUME NEW F, Knows({}, F), NEW c \in Components, NEW p \in Ports[c],
         Fact("loaded", c) \in F \/ Fact("masked", c) \in F,
         \A f \in F : ~(f[2] = c /\ f[1] = "on" /\ f[3] = p)
  PROVE  Passes({}, F, DisablePort(c, p), {}, F)
<1> DEFINE cmd == "PortDisable"
           g == Asking(c, cmd, p)
           x == Send(c, cmd, p)
           w == WaitForCommand(c, cmd, p)
<1>1. Knows({} \cup {g}, F) /\ c \in Idle({})
  <2>1. c \in Idle({}) /\ Asks(c, cmd, p) /\ Still(F)
    BY DEF Idle, Asks, Order, Knows
  <2> QED
    BY <2>1, KnowsAsked
<1>2. Passes({}, F, x, {} \cup {g}, F)
  BY <1>1, PassSend
<1>3. Yields({} \cup {g}, F, w, ({} \cup {g}) \ {g}, F \cup Reached(c, cmd, p))
  BY <1>1, YieldWait
<1>4. ({} \cup {g}) \ {g} = {} /\ F \cup Reached(c, cmd, p) = F
  BY DEF Reached
<1>5. Passes({} \cup {g}, F, w \o Demand, {}, F)
  BY <1>3, <1>4, YieldDemand
<1> HIDE DEF g
<1>6. Passes({}, F, x \o (w \o Demand), {}, F)
  BY <1>2, <1>5, PassJoin
<1>7. IsSeq(x) /\ IsSeq(w) /\ IsSeq(Demand)
  BY OneSeq DEF Send, WaitForCommand, Demand
<1>8. DisablePort(c, p) = x \o (w \o Demand)
  <2> DEFINE d == Demand
  <2>1. DisablePort(c, p) = (x \o w) \o d /\ IsSeq(d)
    BY <1>7 DEF DisablePort
  <2> HIDE DEF x, w, d
  <2>2. (x \o w) \o d = x \o (w \o d)
    <3>1. Joined(x, w, d)
      BY <1>7, <2>1, AssocThree
    <3> QED
      BY <3>1 DEF Joined
  <2> QED
    BY <2>1, <2>2 DEF d
<1> QED
  BY <1>6, <1>8

------------------------------------------------------------------------------
Nested(x, y, z, k) == ((x \o y) \o z) \o k = x \o (y \o (z \o k))

LEMMA AssocFour ==
  ASSUME NEW x, NEW y, NEW z, NEW k, IsSeq(x), IsSeq(y), IsSeq(z), IsSeq(k)
  PROVE  Nested(x, y, z, k)
<1>1. IsSeq(x \o y) /\ IsSeq(z \o k)
  BY JoinSeq
<1> DEFINE u == x \o y
           v == z \o k
<1>2. (u \o z) \o k = u \o v
  <2>1. IsSeq(u)
    BY <1>1
  <2> HIDE DEF u
  <2>2. Joined(u, z, k)
    BY <2>1, AssocThree
  <2> QED
    BY <2>2 DEF Joined
<1>3. (x \o y) \o v = x \o (y \o v)
  <2>1. IsSeq(v)
    BY <1>1
  <2> HIDE DEF v
  <2>2. Joined(x, y, v)
    BY <2>1, AssocThree
  <2> QED
    BY <2>2 DEF Joined
<1>4. ((x \o y) \o z) \o k = x \o (y \o (z \o k))
  BY <1>2, <1>3
<1> QED
  BY <1>4, Zenon DEF Nested

LEMMA PassNothing ==
  ASSUME NEW A, NEW F, Knows(A, F)
  PROVE  Passes(A, F, <<>>, A, F)
BY NoneSeq, NoneJoin DEF Passes

\* The ports of a component that is loaded are disabled, in any order.
LEMMA PassLoop ==
  ASSUME NEW F, Knows({}, F), NEW c \in Components, Fact("loaded", c) \in F,
         \A f \in F : ~(f[2] = c /\ f[1] = "on")
  PROVE  Passes({}, F, <<Loop(c, Ports[c])>>, {}, F)
<1> DEFINE X == {x \in SUBSET Ports[c] : ~Passes({}, F, <<Loop(c, x)>>, {}, F)}
           T == {Cardinality(x) : x \in X}
<1>1. /\ \A x \in SUBSET Ports[c] : IsFiniteSet(x) /\ Cardinality(x) \in Nat
      /\ Proper(State({}, F))
  BY IlClientAssumption, FS_Subset, FS_CardinalityType, StateProper
<1> SUFFICES ASSUME X # {}
             PROVE  FALSE
  OBVIOUS
<1>2. T \in SUBSET Nat /\ T # {}
  BY <1>1
<1>3. PICK m \in T : \A n \in T : m <= n
  <2> HIDE DEF T
  <2> QED
    BY <1>2, Least
<1>4. PICK x \in X : Cardinality(x) = m
  BY DEF T
<1>5. x \in SUBSET Ports[c] /\ IsFiniteSet(x) /\ Cardinality(x) \in Nat
  BY <1>1
<1>6. ASSUME NEW k, IsSeq(k), Good(State({}, F), k)
      PROVE  Good(State({}, F), <<Loop(c, x)>> \o k)
  <2>1. CASE x = {}
    BY <1>1, <1>6, <2>1, GoodLoop
  <2>2. CASE x # {}
    <3>1. PICK p \in x : p = CHOOSE q \in x : TRUE
      BY <2>2
    <3>2. Cardinality(x \ {p}) = Cardinality(x) - 1 /\ x \ {p} \in SUBSET Ports[c]
      BY <1>5, FS_RemoveElement
    <3>3. x \ {p} \notin X
      <4>1. Cardinality(x \ {p}) \notin T
        <5> HIDE DEF T
        <5> QED
          BY <1>2, <1>3, <1>4, <1>5, <3>2
      <4> QED
        BY <4>1
    <3> DEFINE l == <<Loop(c, x \ {p})>>
               d == DisablePort(c, p)
    <3>4. Passes({}, F, l, {}, F)
      BY <3>2, <3>3
    <3>5. Passes({}, F, d, {}, F)
      BY <1>5, PassDisable
    <3> HIDE DEF l, d
    <3>6. Passes({}, F, d \o l, {}, F)
      BY <3>4, <3>5, PassJoin
    <3>7. Good(State({}, F), (d \o l) \o k)
      BY <1>6, <3>6 DEF Passes
    <3> QED
      BY <1>1, <1>6, <2>2, <3>1, <3>7, GoodLoop DEF l, d
  <2> QED
    BY <2>1, <2>2
<1>7. Passes({}, F, <<Loop(c, x)>>, {}, F)
  BY <1>6, OneSeq DEF Passes
<1> QED
  BY <1>4, <1>7

\* A component nothing is known of is made, with every port disabled.
LEMMA PassCreate ==
  ASSUME NEW F, Knows({}, F), NEW c \in Components, \A f \in F : f[2] # c
  PROVE  Passes({}, F, Create(c), {}, F \cup {Fact("made", c)})
<1> DEFINE h == <<Step("OMX_GetHandle", c, None, None)>>
           l == <<Loop(c, Ports[c])>>
           z == Return(0)
           i == IfOk(l \o z, <<>>)
           d == Demand
           G == F \cup {Fact("loaded", c), Fact("made", c)}
           G2 == F \cup {Fact("made", c)}
<1>1. IsSeq(h) /\ IsSeq(l) /\ IsSeq(z) /\ IsSeq(l \o z) /\ IsSeq(i) /\ IsSeq(d) /\ IsSeq(<<>>)
  BY OneSeq, JoinSeq, NoneSeq DEF Return, IfOk, If, Demand
<1>2. Create(c) = (h \o i) \o d
  BY DEF Create, CreateComponent, Loop
<1>3. /\ Fact("loaded", c)[1] = "loaded" /\ Fact("made", c)[1] = "made"
      /\ Fact("loaded", c)[2] = c /\ Fact("made", c)[2] = c
  BY DEF Fact
<1>4. Knows({}, G) /\ Knows({}, G2)
  <2> HIDE DEF i, h, l, z, d
  <2> QED
    BY <1>3 DEF Knows, Still, Orders, Apart
<1>5. Passes({}, G, l, {}, G)
  <2>1. \A f \in G : ~(f[2] = c /\ f[1] = "on")
    BY <1>3
  <2> HIDE DEF G
  <2>2. Fact("loaded", c) \in G
    BY DEF G
  <2> QED
    BY <1>4, <2>1, <2>2, PassLoop
<1>6. ASSUME NEW k, IsSeq(k), Good(State({}, G2), k)
      PROVE  Good(State({}, F), Create(c) \o k)
  <2> DEFINE m == d \o k
             a == State({}, F)
             b == State({}, G) \cup {Ok}
             e == State({}, F) \cup {Bad}
             b2 == Worked(Made(a, c))
             e2 == Failed(a)
  <2>1. Good(State({}, G2), m) /\ IsSeq(m)
    BY <1>1, <1>4, <1>6, DemandRule, JoinSeq DEF Demand
  <2>2. Good(State({}, G), m)
    <3>1. G2 \subseteq G
      OBVIOUS
    <3> DEFINE s == State({}, G2)
               t == State({}, G)
    <3>2. s \subseteq t
      BY <3>1 DEF State
    <3>3. Good(s, m)
      BY <2>1
    <3> HIDE DEF s, t, m
    <3>4. Good(t, m)
      BY <3>2, <3>3, GoodMore
    <3> QED
      BY <3>4 DEF t
  <2>3. Good(State({}, G), (l \o z) \o m)
    <3>1. Good(State({}, G), z \o m)
      <4> HIDE DEF m, G
      <4> QED
        BY <1>4, <2>1, <2>2, DemandRule
    <3>2. IsSeq(z \o m)
      BY <1>1, <2>1, JoinSeq
    <3>3. Good(State({}, G), l \o (z \o m))
      BY <1>5, <3>1, <3>2 DEF Passes
    <3> HIDE DEF l, z, m
    <3>4. (l \o z) \o m = l \o (z \o m)
      <4>1. Joined(l, z, m)
        BY <1>1, <2>1, AssocThree
      <4> QED
        BY <4>1 DEF Joined
    <3> QED
      BY <3>3, <3>4
  <2>4. Good(b, i \o m)
    <3>1. Good(State({}, G) \cup {Ok}, IfOk(l \o z, <<>>) \o m)
      <4> DEFINE y == l \o z
      <4>1. IsSeq(y) /\ Good(State({}, G), y \o m) /\ IsSeq(<<>>) /\ IsSeq(m)
        BY <1>1, <2>1, <2>3
      <4> HIDE DEF y, m, G
      <4>2. Good(State({}, G) \cup {Ok}, IfOk(y, <<>>) \o m)
        BY <1>4, <4>1, OkRule
      <4> QED
        BY <4>2 DEF y
    <3> QED
      BY <3>1
  <2>5. Good(e, i \o m)
    <3>1. Good(State({}, F) \cup {Bad}, m)
      <4>1. Demands(m)
        BY <1>6 DEF Demands
      <4> HIDE DEF m
      <4> QED
        BY <4>1, GoodLost DEF Lost, Fails
    <3>2. <<>> \o m = m
      BY <2>1, NoneJoin
    <3> DEFINE y == l \o z
    <3>3. IsSeq(y)
      BY <1>1
    <3> HIDE DEF y, m
    <3>4. Good(State({}, F) \cup {Bad}, IfOk(y, <<>>) \o m)
      BY <1>1, <2>1, <3>1, <3>2, <3>3, KnownBranch
    <3> QED
      BY <3>4 DEF y
  <2>6. b \subseteq b2 /\ e \subseteq e2
    <3>1. e \subseteq e2
      BY StateMute
    <3>2. \A f \in State({}, G) : f \in Made(a, c) /\ f[1] \notin {"ok", "bad"}
      <4>1. \A f \in {Resting(x) : x \in Idle({})} :
               f \in a /\ f[1] = "rest"
        BY DEF State, Resting, Fact
      <4>2. \A f \in F : f \in a /\ f[2] # c /\ f[1] \notin {"ok", "bad"}
        BY DEF State, Knows, Still
      <4>3. State({}, G) = {Resting(x) : x \in Idle({})}
                              \cup (F \cup {Fact("loaded", c), Fact("made", c)})
        BY DEF State
      <4> HIDE DEF a, G
      <4> QED
        BY <1>3, <4>1, <4>2, <4>3 DEF Made
    <3>3. b \subseteq b2
      BY <3>2 DEF Worked, Mute
    <3> QED
      BY <3>1, <3>3
  <2>7. Good(b2, i \o m) /\ Good(e2, i \o m)
    <3> HIDE DEF b, e, b2, e2, i, m
    <3> QED
      BY <2>4, <2>5, <2>6, GoodMore
  <2>8. Proper(a) /\ Resting(c) \in a
    BY StateProper DEF State, Idle
  <2>9. IsSeq(i \o m)
    BY <1>1, <2>1, JoinSeq
  <2>10. Good(a, h \o (i \o m))
    <3> HIDE DEF a, i, m
    <3> QED
      BY <2>7, <2>8, <2>9, GoodGetHandle
  <2>11. ((h \o i) \o d) \o k = h \o (i \o (d \o k))
    <3>1. IsSeq(h) /\ IsSeq(i) /\ IsSeq(d) /\ IsSeq(k)
      BY <1>1, <1>6
    <3> HIDE DEF h, i, d
    <3>2. Nested(h, i, d, k)
      BY <3>1, AssocFour
    <3> QED
      BY <3>2, Zenon DEF Nested
  <2> QED
    BY <1>2, <2>10, <2>11
<1>7. IsSeq(Create(c))
  BY <1>1, <1>2, JoinSeq
<1> QED
  BY <1>4, <1>6, <1>7 DEF Passes

------------------------------------------------------------------------------
\* Steps of which nothing is kept, or that say that the call has failed.
LEMMA FailRule ==
  ASSUME NEW A, NEW F, Knows(A, F), NEW k, IsSeq(k), NEW r \in Failing,
         Good(State(A, F) \cup {Bad}, k)
  PROVE  Good(State(A, F), Return(r) \o k)
<1> DEFINE a == State(A, F)
           b == a \cup {Bad}
           s == Step("return", None, r, None)
<1>1. Proper(a) /\ b \subseteq Failed(a) /\ Good(b, k)
  BY StateProper, StateMute
<1> HIDE DEF a, b
<1>2. PICK P : Sound(P) /\ Goes(P, b, k)
  BY <1>1, GoodIn
<1>3. Goes(P, Failed(a), k)
  BY <1>1, <1>2, GoesMore
<1>4. FitsStep(P, a, s, k)
  BY <1>3 DEF FitsStep, Step, Failing
<1> HIDE DEF s
<1>5. Good(a, <<s>> \o k)
  BY <1>1, <1>2, <1>4, PlaceOf
<1> QED
  BY <1>5 DEF a, s, Return

LEMMA RemoveRule ==
  ASSUME NEW A, NEW F, Knows(A, F), NEW k, IsSeq(k), NEW c \in Idle(A), NEW which, NEW ev,
         Good(State(A, F), k)
  PROVE  /\ Good(State(A, F), RemoveError(c, which) \o k)
         /\ Good(State(A, F), RemoveEvent(c, ev) \o k)
<1> DEFINE a == State(A, F)
           b == Worked(a)
           e == Failed(a)
<1>1. Proper(a) /\ a \subseteq b /\ a \subseteq e /\ Resting(c) \in a /\ Good(a, k)
  BY StateProper, StateMute DEF State
<1>2. Good(b, k) /\ Good(e, k)
  <2> HIDE DEF a, b, e
  <2> QED
    BY <1>1, GoodMore
<1>3. ASSUME NEW s, s.op = "remove", s.c = c
      PROVE  Good(a, <<s>> \o k)
  <2> HIDE DEF a
  <2> QED
    BY <1>1, <1>2, <1>3, GoodEither
<1> DEFINE s1 == Step("remove", c, which, None)
           s2 == Step("remove", c, "event", ev)
<1>4. s1.op = "remove" /\ s1.c = c /\ s2.op = "remove" /\ s2.c = c
  BY DEF Step
<1> HIDE DEF s1, s2
<1>5. Good(a, <<s1>> \o k) /\ Good(a, <<s2>> \o k)
  BY <1>3, <1>4
<1> QED
  BY <1>5 DEF RemoveError, RemoveEvent, s1, s2

\* A component of which it is not known whether it is loaded changes its state.
LEMMA ChangeRule ==
  ASSUME NEW F, Knows({}, F), NEW c \in Components, NEW s \in {"Idle", "Executing"},
         \A f \in F : f[2] = c => f[1] \notin {"ran", "loaded"}, NEW k, IsSeq(k),
         Good(State({}, F \cup Reached(c, "StateSet", s)) \cup {Ok}, k),
         Good(State({}, F \cup {Fact("ran", c)}) \cup {Bad}, k)
  PROVE  Good(State({}, F), ChangeState(c, s) \o k)
<1> DEFINE cmd == "StateSet"
           g == Asking(c, cmd, s)
           A == {} \cup {g}
           G == F \cup Reached(c, cmd, s)
           H == F \cup Excused(c, cmd)
           x == Send(c, cmd, s)
           w == WaitForCommand(c, cmd, s)
           e == RemoveError(c, "any error")
           q == Return(-1)
           y == e \o q
           i == IfOk(<<>>, y)
<1>1. H = F \cup {Fact("ran", c)}
  BY DEF Excused
<1>2. Knows(A, F) /\ c \in Idle({})
  <2>1. c \in Idle({}) /\ Asks(c, cmd, s) /\ Still(F)
    BY DEF Idle, Asks, Order, Knows
  <2> QED
    BY <2>1, KnowsAsked
<1>3. g \in A /\ A \ {g} = {}
  OBVIOUS
<1>4. Knows({}, G) /\ Knows({}, H)
  <2>1. Knows(A \ {g}, G) /\ Knows(A \ {g}, H)
    BY <1>2, KnowsReached
  <2> QED
    BY <1>3, <2>1
<1>5. IsSeq(x) /\ IsSeq(w) /\ IsSeq(e) /\ IsSeq(q) /\ IsSeq(y) /\ IsSeq(i) /\ IsSeq(<<>>)
  BY OneSeq, JoinSeq, NoneSeq DEF Send, WaitForCommand, RemoveError, Return, IfOk, If
<1>6. Good(State({}, G) \cup {Ok}, i \o k)
  <2>1. <<>> \o k = k
    BY NoneJoin
  <2> HIDE DEF y, G
  <2>2. Good(State({}, G) \cup {Ok}, k)
    BY DEF G
  <2> QED
    BY <1>4, <1>5, <2>1, <2>2, KnownBranch
<1>7. Good(State({}, H) \cup {Bad}, i \o k)
  <2>1. Good(State({}, H), q \o k)
    <3>1. Good(State({}, H) \cup {Bad}, k)
      BY <1>1
    <3> HIDE DEF H
    <3> QED
      BY <1>4, <3>1, FailRule DEF Failing, Rets
  <2>2. Good(State({}, H), e \o (q \o k))
    <3>1. IsSeq(q \o k)
      BY <1>5, JoinSeq
    <3> DEFINE m == q \o k
    <3> HIDE DEF H, m
    <3> QED
      BY <1>2, <1>4, <2>1, <3>1, RemoveRule DEF m
  <2>3. y \o k = e \o (q \o k)
    <3>1. IsSeq(e) /\ IsSeq(q)
      BY <1>5
    <3> HIDE DEF e, q
    <3>2. (e \o q) \o k = e \o (q \o k)
      <4>1. Joined(e, q, k)
        BY <3>1, AssocThree
      <4> QED
        BY <4>1 DEF Joined
    <3> QED
      BY <3>2
  <2>4. Good(State({}, H) \cup {Bad}, y \o k)
    <3> DEFINE a == State({}, H)
               b == a \cup {Bad}
               m == y \o k
    <3>1. Good(a, m) /\ a \subseteq b
      BY <2>2, <2>3
    <3> HIDE DEF a, b, m
    <3>2. Good(b, m)
      BY <3>1, GoodMore
    <3> QED
      BY <3>2 DEF a, b, m
  <2> HIDE DEF y, H
  <2> QED
    BY <1>4, <1>5, <2>4, KnownBranch
<1>8. Good(State(A, F), w \o (i \o k))
  <2>1. IsSeq(i \o k)
    BY <1>5, JoinSeq
  <2> DEFINE m == i \o k
  <2>2. /\ Good(State(A \ {g}, G) \cup {Ok}, m)
        /\ Good(State(A \ {g}, H) \cup {Bad}, m)
    BY <1>3, <1>6, <1>7
  <2> HIDE DEF m
  <2>3. Good(State(A, F), w \o m)
    BY <1>2, <1>3, <2>1, <2>2, WaitRule DEF m
  <2> QED
    BY <2>3 DEF m
<1>9. Good(State({}, F), x \o (w \o (i \o k)))
  <2>1. IsSeq(w \o (i \o k))
    BY <1>5, JoinSeq
  <2>2. Passes({}, F, x, A, F)
    BY <1>2, PassSend
  <2> QED
    BY <1>8, <2>1, <2>2 DEF Passes
<1>10. ((x \o w) \o i) \o k = x \o (w \o (i \o k))
  <2> HIDE DEF x, w, i
  <2>1. Nested(x, w, i, k)
    BY <1>5, AssocFour
  <2> QED
    BY <2>1, Zenon DEF Nested
<1> QED
  BY <1>9, <1>10 DEF ChangeState

\* If the result is not looked at, it is known that it executes unless something failed.
LEMMA PassChange ==
  ASSUME NEW F, Knows({}, F), NEW c \in Components, NEW s \in {"Idle", "Executing"},
         \A f \in F : f[2] = c => f[1] \notin {"ran", "loaded"}
  PROVE  /\ Passes({}, F, ChangeState(c, s), {}, F)
         /\ s = "Executing" => Passes({}, F, ChangeState(c, s), {}, F \cup {Fact("ran", c)})
<1>1. ASSUME NEW G, G = F \/ (s = "Executing" /\ G = F \cup {Fact("ran", c)})
      PROVE  Passes({}, F, ChangeState(c, s), {}, G)
  <2>1. Knows({}, G)
    BY <1>1 DEF Knows, Still, Orders, Apart, Fact
  <2>2. /\ G \subseteq F \cup Reached(c, "StateSet", s)
        /\ G \subseteq F \cup {Fact("ran", c)}
    BY <1>1 DEF Reached
  <2>3. IsSeq(ChangeState(c, s))
    BY OneSeq, JoinSeq DEF ChangeState, Send, WaitForCommand, IfOk, If
  <2>4. ASSUME NEW k, IsSeq(k), Good(State({}, G), k)
        PROVE  Good(State({}, F), ChangeState(c, s) \o k)
    <3> DEFINE a == State({}, G)
               b == State({}, F \cup Reached(c, "StateSet", s)) \cup {Ok}
               e == State({}, F \cup {Fact("ran", c)}) \cup {Bad}
    <3>1. a \subseteq b /\ a \subseteq e /\ Good(a, k)
      BY <2>2, <2>4 DEF State
    <3>2. Good(b, k) /\ Good(e, k)
      <4> HIDE DEF a, b, e
      <4> QED
        BY <3>1, GoodMore
    <3> QED
      BY <2>4, <3>2, ChangeRule
  <2> QED
    BY <2>1, <2>3, <2>4 DEF Passes
<1> QED
  BY <1>1

------------------------------------------------------------------------------
\* The buffers of a port.  If it works, the component is idle and has all of them.
LEMMA UseRule ==
  ASSUME NEW A, NEW F, NEW c \in Components, NEW p, Knows(A, F), NEW k, IsSeq(k),
         \A f \in F : f[2] = c => f[1] # "full",
         Good(State(A, F \cup {Fact("full", c)}) \cup {Ok}, k), Good(State(A, F) \cup {Bad}, k)
  PROVE  Good(State(A, F), <<Step("use", c, None, p)>> \o k)
<1> DEFINE G == F \cup {Fact("full", c)}
           a == State(A, F)
           b == State(A, G) \cup {Ok}
           e == a \cup {Bad}
           b2 == Worked(Filled(a, c))
           e2 == Failed(Unfilled(a, c))
<1>1. State(A, G) = a \cup {Fact("full", c)}
  BY DEF State
<1>2. b \subseteq b2
  <2>1. a \cup {Ok} \subseteq Worked(a)
    BY StateMute
  <2>2. Worked(Filled(a, c)) = Worked(a) \cup {Fact("full", c)}
    BY DEF Worked, Mute, Filled, Fact
  <2> HIDE DEF a, G
  <2> QED
    BY <1>1, <2>1, <2>2
<1>3. e \subseteq e2
  <2>1. \A f \in a : f[2] = c => f[1] # "full"
    <3>1. \A f \in A : f[1] = "asked"
      BY DEF Knows, Orders, Asking
    <3>2. \A x : Resting(x)[1] = "rest"
      BY DEF Resting, Fact
    <3> QED
      BY <3>1, <3>2 DEF State
  <2>2. a \cup {Bad} \subseteq Failed(a)
    BY StateMute
  <2> HIDE DEF a
  <2>3. Unfilled(a, c) = a
    BY <2>1 DEF Unfilled
  <2> QED
    BY <2>2, <2>3
<1>4. Good(b2, k) /\ Good(e2, k)
  <2>1. Good(b, k) /\ Good(e, k)
    OBVIOUS
  <2> HIDE DEF b, e, b2, e2
  <2> QED
    BY <1>2, <1>3, <2>1, GoodMore
<1>5. Proper(a)
  BY StateProper
<1> HIDE DEF a
<1>6. Good(a, <<Step("use", c, None, p)>> \o k)
  BY <1>4, <1>5, GoodUse
<1> QED
  BY <1>6 DEF a

LEMMA YieldBuffers ==
  ASSUME NEW F, Knows({}, F), NEW c \in Components, NEW p \in Ports[c],
         \A f \in F : f[2] = c => f[1] # "full" /\ ~(f[1] = "on" /\ f[3] = p)
  PROVE  Yields({}, F, EnablePortBuffers(c, p), {},
                F \cup {Fact("full", c), Fact("up", c), On(<<c, p>>)})
<1> DEFINE cmd == "PortEnable"
           g == Asking(c, cmd, p)
           A == {} \cup {g}
           F2 == F \cup {Fact("up", c)}
           F3 == F2 \cup {Fact("full", c)}
           G == F \cup {Fact("full", c), Fact("up", c), On(<<c, p>>)}
           x == Send(c, cmd, p)
           w == WaitForCommand(c, cmd, p)
           u == <<Step("use", c, None, p)>>
           y == DisablePortBuffers(c, p) \o RemoveError(c, "ending error")
           z == y \o Return(-1)
           v == w \o IfOk(<<>>, z)
           i == IfOk(v, z)
<1>1. Knows({}, F2) /\ Knows(A, F2) /\ Knows(A, F3) /\ c \in Idle({})
  <2>1. Knows({}, F2) /\ Knows({}, F3)
    BY DEF Knows, Still, Orders, Apart, Fact
  <2>2. Asks(c, cmd, p) /\ c \in Idle({})
    BY DEF Asks, Order, Idle
  <2>3. /\ \A f \in F2 : f[2] = c => ~(f[1] = "on" /\ f[3] = p)
        /\ \A f \in F3 : f[2] = c => ~(f[1] = "on" /\ f[3] = p)
    BY DEF Fact
  <2>4. Still(F2) /\ Still(F3)
    BY <2>1 DEF Knows
  <2> HIDE DEF F2, F3
  <2> QED
    BY <2>1, <2>2, <2>3, <2>4, KnowsAsked
<1>2. -1 \in Failing /\ Prog(All, y)
  <2>1. c \in All.comps /\ c \in All.freed /\ <<c, "PortDisable", p>> \in All.orders
    BY DEF All, Around, Order, Cmds
  <2>2. Prog(All, DisablePortBuffers(c, p)) /\ Prog(All, RemoveError(c, "ending error"))
    BY <2>1, ProgDisablePortBuffers, ProgRemove
  <2>3. Prog(All, y)
    BY <2>2, ProgJoin
  <2>4. -1 \in Failing
    BY DEF Failing, Rets
  <2> QED
    BY <2>3, <2>4
<1>3. /\ IsSeq(x) /\ IsSeq(w) /\ IsSeq(u) /\ IsSeq(y) /\ IsSeq(z) /\ IsSeq(v) /\ IsSeq(i)
      /\ IsSeq(<<>>) /\ IsSeq(Return(-1)) /\ IsSeq(u \o i) /\ IsSeq(x \o (u \o i))
  <2>1. IsSeq(x) /\ IsSeq(w) /\ IsSeq(u) /\ IsSeq(<<>>) /\ IsSeq(Return(-1))
    BY OneSeq, NoneSeq DEF Send, WaitForCommand, Return
  <2>2. IsSeq(y) /\ IsSeq(z)
    BY <1>2, <2>1, ProgSeq, JoinSeq
  <2>3. \A r, s : IsSeq(IfOk(r, s))
    BY OneSeq DEF IfOk, If
  <2>4. IsSeq(v) /\ IsSeq(i)
    BY <2>1, <2>3, JoinSeq
  <2>5. IsSeq(u \o i)
    <3> HIDE DEF u, i
    <3> QED
      BY <2>1, <2>4, JoinSeq
  <2>6. IsSeq(x \o (u \o i))
    <3> DEFINE m == u \o i
    <3> HIDE DEF x, m
    <3> QED
      BY <2>1, <2>5, JoinSeq DEF m
  <2> QED
    BY <2>1, <2>2, <2>4, <2>5, <2>6
<1>4. ASSUME NEW k, Fails(k), Good(State({}, G) \cup {Ok}, k)
      PROVE  Good(State({}, F), EnablePortBuffers(c, p) \o k)
  <2>1. IsSeq(k)
    BY <1>4, FailsSeq
  <2>2. Good(State(A, F3), v \o k)
    <3>1. Yields(A, F3, v, A \ {g}, F3 \cup Reached(c, cmd, p))
      <4> HIDE DEF y, F3
      <4> QED
        BY <1>1, <1>2, YieldWait
    <3>2. A \ {g} = {} /\ F3 \cup Reached(c, cmd, p) = G
      BY DEF Reached
    <3> QED
      BY <1>4, <3>1, <3>2 DEF Yields
  <2>3. Good(State(A, F3) \cup {Ok}, i \o k)
    <3> HIDE DEF v, z, F3, A
    <3> QED
      BY <1>1, <1>3, <2>1, <2>2, OkRule
  <2>4. Good(State(A, F2) \cup {Bad}, i \o k)
    <3> HIDE DEF v, y, F2, A
    <3> QED
      BY <1>1, <1>2, <1>3, <1>4, FailedBranch
  <2>5. Good(State(A, F2), u \o (i \o k))
    <3>1. IsSeq(i \o k)
      BY <1>3, <2>1, JoinSeq
    <3>2. \A f \in F2 : f[2] = c => f[1] # "full"
      BY DEF Fact
    <3> DEFINE m == i \o k
    <3>3. /\ Good(State(A, F2 \cup {Fact("full", c)}) \cup {Ok}, m)
          /\ Good(State(A, F2) \cup {Bad}, m) /\ IsSeq(m)
      BY <2>3, <2>4, <3>1
    <3> HIDE DEF m, F2, A
    <3>4. Good(State(A, F2), u \o m)
      BY <1>1, <3>2, <3>3, UseRule
    <3> QED
      BY <3>4 DEF m
  <2>6. Good(State({}, F2), x \o (u \o (i \o k)))
    <3>1. Passes({}, F2, x, A, F2)
      <4>1. Knows({} \cup {g}, F2)
        BY <1>1
      <4> HIDE DEF F2
      <4> QED
        BY <1>1, <4>1, PassSend
    <3>2. IsSeq(u \o (i \o k))
      <4>1. IsSeq(i \o k)
        BY <1>3, <2>1, JoinSeq
      <4> DEFINE m == i \o k
      <4> HIDE DEF m, u
      <4> QED
        BY <1>3, <4>1, JoinSeq DEF m
    <3> DEFINE m == u \o (i \o k)
    <3>3. Good(State(A, F2), m) /\ IsSeq(m)
      BY <2>5, <3>2
    <3> HIDE DEF m, x, A, F2
    <3>4. Good(State({}, F2), x \o m)
      BY <3>1, <3>3 DEF Passes
    <3> QED
      BY <3>4 DEF m
  <2>7. Good(State({}, F2), (x \o (u \o i)) \o k)
    <3>0. IsSeq(x) /\ IsSeq(u) /\ IsSeq(i) /\ IsSeq(u \o i)
      BY <1>3
    <3> HIDE DEF x, u, i
    <3>1. (u \o i) \o k = u \o (i \o k)
      <4>1. Joined(u, i, k)
        BY <2>1, <3>0, AssocThree
      <4> QED
        BY <4>1 DEF Joined
    <3> DEFINE m == u \o i
    <3>2. (x \o m) \o k = x \o (m \o k)
      <4>1. IsSeq(m)
        BY <3>0
      <4> HIDE DEF m
      <4>2. Joined(x, m, k)
        BY <2>1, <3>0, <4>1, AssocThree
      <4> QED
        BY <4>2 DEF Joined
    <3> QED
      BY <2>6, <3>1, <3>2
  <2>8. Good(State({}, F), Return(-1) \o k)
    BY <1>2, <1>4, ProgNone, LostReturn
  <2>9. Good(State({}, F), EnableIdle(c, p) \o k)
    <3> DEFINE q == x \o (u \o i)
               a == State({}, F)
    <3>1. EnableIdle(c, p) = If("idle", c, q, Return(-1))
      BY DEF EnableIdle, UseAll, EnableWait, EnableFailure
    <3>2. Good(a \cup {Fact("up", c)}, q \o k)
      <4>1. State({}, F2) = a \cup {Fact("up", c)}
        BY DEF State
      <4> QED
        BY <2>7, <4>1
    <3>3. Proper(a) /\ Good(a, Return(-1) \o k) /\ IsSeq(q) /\ IsSeq(Return(-1))
      BY <1>1, <1>3, <2>8, StateProper
    <3> HIDE DEF q, a
    <3>4. Good(a, If("idle", c, q, Return(-1)) \o k)
      BY <2>1, <3>2, <3>3, GoodIfState
    <3> QED
      BY <3>1, <3>4 DEF a
  <2>10. IsSeq(EnableIdle(c, p)) /\ IsSeq(Return(-1)) /\ Proper(State({}, F))
    BY <1>3, OneSeq, StateProper DEF EnableIdle, If
  <2>11. Good(State({}, F), If("enabled", <<c, p>>, Return(-1), EnableIdle(c, p)) \o k)
    <3> DEFINE a == State({}, F)
               q == EnableIdle(c, p)
    <3>1. Proper(a) /\ Good(a, Return(-1) \o k) /\ Good(a, q \o k) /\ IsSeq(q)
      BY <2>8, <2>9, <2>10
    <3> HIDE DEF a, q
    <3>2. Good(a, If("enabled", <<c, p>>, Return(-1), q) \o k)
      BY <2>1, <2>10, <3>1, GoodIfState
    <3> QED
      BY <3>2 DEF a, q
  <2> QED
    BY <2>11, BufferParts
<1>5. IsSeq(EnablePortBuffers(c, p))
  BY OneSeq, BufferParts DEF If
<1>6. Knows({}, G)
  <2>1. Knows({}, {} \cup G)
    BY DEF Knows, Still, Orders, Apart, Fact, On
  <2> QED
    BY <2>1
<1> QED
  BY <1>4, <1>5, <1>6 DEF Yields

------------------------------------------------------------------------------
(***************************************************************************)
(* The set-up of a tunnel between two components of which neither port is  *)
(* known to be enabled.                                                    *)
(***************************************************************************)
Between(t, F) ==
    /\ Knows({}, F)
    /\ \A i \in {1, 2} : /\ t[i] = <<t[i][1], t[i][2]>>
                         /\ t[i][1] \in Components /\ t[i][2] \in Ports[t[i][1]]
    /\ t[1][1] # t[2][1]
    /\ \A f \in F : \A i \in {1, 2} : f[2] = t[i][1] =>
           /\ f[1] \notin {"loaded", "masked", "ran"}
           /\ f[1] = "on" => f[3] # t[i][2]

LEMMA BetweenScope ==
  ASSUME NEW t, NEW F, Between(t, F)
  PROVE  HasTunnel(All, t)
<1>1. ASSUME NEW c \in Components, NEW p \in Ports[c], NEW cmd \in {"PortEnable", "PortDisable"}
      PROVE  <<c, cmd, p>> \in All.orders
  BY <1>1 DEF All, Around, Order, Cmds
<1>2. ASSUME NEW c \in Components
      PROVE  <<c, "StateSet", "Idle">> \in All.orders /\ c \in All.comps
  BY DEF All, Around, Order, Cmds, States
<1>3. ASSUME NEW c \in Components, NEW p \in Ports[c]
      PROVE  <<c, p>> \in All.ports
  BY <1>3 DEF All, Around, PortPairs
<1>4. \A i \in {1, 2} : /\ t[i] = <<t[i][1], t[i][2]>>
                        /\ t[i][1] \in Components /\ t[i][2] \in Ports[t[i][1]]
  BY DEF Between
<1> QED
  BY <1>1, <1>2, <1>3, <1>4 DEF HasTunnel

LEMMA PassMask ==
  ASSUME NEW F, Knows({}, F), NEW C \in SUBSET Components,
         \A f \in F : f[2] \in C => f[1] # "masked"
  PROVE  LET G == F \cup {Fact("masked", c) : c \in C}
         IN  /\ Passes({}, F, <<Step("mask", C, TRUE, None)>>, {}, G)
             /\ Passes({}, G, <<Step("mask", C, FALSE, None)>>, {}, F)
<1> DEFINE M == {Fact("masked", c) : c \in C}
           G == F \cup M
           a == State({}, F)
           b == State({}, G)
           x == <<Step("mask", C, TRUE, None)>>
           y == <<Step("mask", C, FALSE, None)>>
<1>1. \A f \in M : f[1] = "masked" /\ f[2] \in C
  BY DEF Fact
<1>2. Knows({}, G)
  <2> HIDE DEF M
  <2> QED
    BY <1>1 DEF Knows, Still, Orders, Apart
<1>3. Proper(a) /\ Proper(b) /\ IsSeq(x) /\ IsSeq(y)
  BY <1>2, StateProper, OneSeq
<1>4. b \subseteq Masked(a, C)
  BY DEF Masked, State
<1>5. a \subseteq Unmasked(b, C)
  <2>1. \A f \in a : f[2] \in C => f[1] \notin {"masked", "asked"}
    <3>1. \A c : Resting(c)[1] = "rest"
      BY DEF Resting, Fact
    <3>2. \A f \in F : f[1] # "asked" /\ (f[2] \in C => f[1] # "masked")
      BY DEF Knows, Still
    <3> QED
      BY <3>1, <3>2 DEF State
  <2>2. a \subseteq b
    BY DEF State
  <2> HIDE DEF a, b
  <2> QED
    BY <2>1, <2>2 DEF Unmasked
<1> HIDE DEF G
<1>6. ASSUME NEW k, IsSeq(k), Good(b, k)
      PROVE  Good(a, x \o k)
  <2> HIDE DEF a, b
  <2>1. Good(Masked(a, C), k)
    BY <1>4, <1>6, GoodMore
  <2> QED
    BY <1>3, <1>6, <2>1, GoodMask
<1>7. ASSUME NEW k, IsSeq(k), Good(a, k)
      PROVE  Good(b, y \o k)
  <2> HIDE DEF a, b
  <2>1. Good(Unmasked(b, C), k)
    BY <1>5, <1>7, GoodMore
  <2> QED
    BY <1>3, <1>7, <2>1, GoodMask
<1> QED
  BY <1>2, <1>3, <1>6, <1>7 DEF Passes, G

LEMMA PassDisableTunnel ==
  ASSUME NEW t, NEW F, Between(t, F)
  PROVE  Passes({}, F, DisableTunnel(t), {}, F)
<1> DEFINE cmd == "PortDisable"
           s == t[1][1]
           c == t[2][1]
           p == t[1][2]
           q == t[2][2]
           C == {s, c}
           G == F \cup {Fact("masked", d) : d \in C}
           g == Asking(s, cmd, p)
           h == Asking(c, cmd, q)
           A == {} \cup {g}
           B == A \cup {h}
           m1 == <<Step("mask", C, TRUE, None)>>
           m2 == <<Step("mask", C, FALSE, None)>>
           s1 == Send(s, cmd, p)
           s2 == Send(c, cmd, q)
           w1 == WaitForCommand(s, cmd, p) \o Demand
           w2 == WaitForCommand(c, cmd, q) \o Demand
<1>1. Passes({}, F, m1, {}, G) /\ Passes({}, G, m2, {}, F)
  <2>1. C \in SUBSET Components /\ \A f \in F : f[2] \in C => f[1] # "masked"
    BY DEF Between
  <2> HIDE DEF C
  <2> QED
    BY <2>1, PassMask DEF Between
<1>2. Knows({}, G)
  BY <1>1 DEF Passes
<1>3. /\ s \in Components /\ c \in Components /\ s # c /\ Asks(s, cmd, p) /\ Asks(c, cmd, q)
      /\ \A f \in G : f[2] = s => ~(f[1] = "on" /\ f[3] = p)
      /\ \A f \in G : f[2] = c => ~(f[1] = "on" /\ f[3] = q)
      /\ Fact("masked", s) \in G /\ Fact("masked", c) \in G /\ Still(G)
  BY <1>2 DEF Between, Asks, Order, Fact, Knows
<1>4. g[2] = s /\ h[2] = c /\ g # h /\ B \ {g} = {} \cup {h} /\ ({} \cup {h}) \ {h} = {}
  <2>1. g[2] = s /\ h[2] = c
    BY DEF Asking
  <2> HIDE DEF g, h
  <2> QED
    BY <1>3, <2>1
<1>5. Knows(A, G) /\ s \in Idle({})
  <2>1. s \in Idle({})
    BY <1>3 DEF Idle
  <2> HIDE DEF s, c, p, q, G, cmd
  <2> QED
    BY <1>2, <1>3, <2>1, KnowsAsked DEF cmd
<1>6. Knows(B, G) /\ c \in Idle(A)
  <2>1. c \in Idle(A)
    BY <1>3, <1>4 DEF Idle
  <2> HIDE DEF s, c, p, q, G, cmd, A
  <2> QED
    BY <1>3, <1>5, <2>1, KnowsAsked DEF cmd
<1>7. Passes({}, G, s1, A, G) /\ Passes(A, G, s2, B, G)
  <2> HIDE DEF s, c, p, q, G
  <2> QED
    BY <1>2, <1>3, <1>5, <1>6, PassSend
<1>8. G \cup Reached(s, cmd, p) = G /\ G \cup Reached(c, cmd, q) = G
  BY DEF Reached
<1>9. Passes(B, G, w1, {} \cup {h}, G)
  <2> HIDE DEF s, c, p, q, G
  <2>1. Yields(B, G, WaitForCommand(s, cmd, p), B \ {g}, G \cup Reached(s, cmd, p))
    BY <1>6, YieldWait
  <2> QED
    BY <1>4, <1>8, <2>1, YieldDemand
<1>10. Passes({} \cup {h}, G, w2, {}, G)
  <2>1. Knows({} \cup {h}, G)
    BY <1>9 DEF Passes
  <2> HIDE DEF s, c, p, q, G
  <2>2. Yields({} \cup {h}, G, WaitForCommand(c, cmd, q), ({} \cup {h}) \ {h},
               G \cup Reached(c, cmd, q))
    BY <2>1, YieldWait
  <2> QED
    BY <1>4, <1>8, <2>2, YieldDemand
<1> HIDE DEF m1, m2, s1, s2, w1, w2, G, A, B, h
<1>11. Passes({}, G, s1 \o s2, B, G) /\ Passes(B, G, w1 \o w2, {}, G)
  BY <1>7, <1>9, <1>10, PassJoin
<1>12. Passes({}, F, m1 \o (s1 \o s2), B, G)
  BY <1>1, <1>11, PassJoin
<1>13. Passes({}, F, (m1 \o (s1 \o s2)) \o (w1 \o w2), {}, G)
  BY <1>11, <1>12, PassJoin
<1>14. Passes({}, F, ((m1 \o (s1 \o s2)) \o (w1 \o w2)) \o m2, {}, F)
  BY <1>1, <1>13, PassJoin
<1>15. DisableTunnel(t) = ((m1 \o (s1 \o s2)) \o (w1 \o w2)) \o m2
  BY DEF DisableTunnel, m1, m2, s1, s2, w1, w2
<1> QED
  BY <1>14, <1>15

------------------------------------------------------------------------------
\* A wait whose failure is returned.
LEMMA TryYield ==
  ASSUME NEW A, NEW F, NEW c, NEW cmd, NEW x, Knows(A, F), Asking(c, cmd, x) \in A,
         NEW yes, NEW B, NEW G,
         Yields(A \ {Asking(c, cmd, x)}, F \cup Reached(c, cmd, x), yes, B, G),
         NEW y, Prog(All, y), NEW r \in Failing
  PROVE  Yields(A, F, WaitForCommand(c, cmd, x) \o IfOk(yes, y \o Return(r)), B, G)
<1> DEFINE C == A \ {Asking(c, cmd, x)}
           H == F \cup Reached(c, cmd, x)
           E == F \cup Excused(c, cmd)
           w == WaitForCommand(c, cmd, x)
           i == IfOk(yes, y \o Return(r))
<1>1. Knows(C, H) /\ Knows(C, E) /\ Yields(C, H, yes, B, G)
  BY KnowsReached
<1>2. \A k : IsSeq(k) /\ Good(State(C, H) \cup {Ok}, k) /\ Good(State(C, E) \cup {Bad}, k)
                => Good(State(A, F), w \o k)
  BY WaitRule
<1>3. IsSeq(w) /\ IsSeq(y \o Return(r)) /\ IsSeq(yes) /\ IsSeq(i)
  BY <1>1, ProgSeq, ReturnSeq, JoinSeq, OneSeq DEF WaitForCommand, IfOk, If, Yields
<1> HIDE DEF C, H, E
<1>4. ASSUME NEW k, Fails(k), Good(State(B, G) \cup {Ok}, k)
      PROVE  Good(State(A, F), (w \o i) \o k)
  <2>1. IsSeq(k) /\ Good(State(C, H), yes \o k)
    BY <1>1, <1>4, FailsSeq DEF Yields
  <2>2. Good(State(C, H) \cup {Ok}, i \o k)
    <3> DEFINE z == y \o Return(r)
    <3>1. IsSeq(z)
      BY <1>3
    <3> HIDE DEF z
    <3> QED
      BY <1>1, <1>3, <2>1, <3>1, OkRule
  <2>3. Good(State(C, E) \cup {Bad}, i \o k)
    BY <1>1, <1>3, <1>4, FailedBranch
  <2> HIDE DEF w, i
  <2>4. IsSeq(i \o k) /\ (w \o i) \o k = w \o (i \o k)
    <3>1. IsSeq(i \o k)
      BY <1>3, <2>1, JoinSeq
    <3>2. Joined(w, i, k)
      BY <1>3, <2>1, AssocThree
    <3> QED
      BY <3>1, <3>2 DEF Joined
  <2> QED
    BY <1>2, <2>2, <2>3, <2>4
<1>5. IsSeq(w \o i) /\ Knows(B, G)
  <2> HIDE DEF w, i
  <2> QED
    BY <1>1, <1>3, JoinSeq DEF Yields
<1> QED
  BY <1>4, <1>5 DEF Yields

LEMMA RelateRule ==
  ASSUME NEW A, NEW F, Knows(A, F), NEW c, NEW x, NEW k, IsSeq(k)
  PROVE  \A a \in {State(A, F), State(A, F) \cup {Ok}, State(A, F) \cup {Bad}} :
             Good(a, k) => Good(a, <<Step("relate", c, None, x)>> \o k)
<1> TAKE a \in {State(A, F), State(A, F) \cup {Ok}, State(A, F) \cup {Bad}}
<1>1. Proper(a)
  BY StateProper
<1> QED
  BY <1>1, GoodRelate

\* The sink answers for its state; or a failure of the source ends the wait.
LEMMA YieldEither ==
  ASSUME NEW A, NEW F, Knows(A, F), NEW c, NEW d \in Components, NEW g,
         g = Asking(c, "StateSet", "Idle"), g \in A,
         NEW yes, NEW B, NEW G, Yields(A \ {g}, F, yes, B, G),
         NEW y, Prog(All, y), NEW r \in Failing
  PROVE  Yields(A, F, WaitForEither(c, "StateSet", "Idle", d) \o IfOk(yes, y \o Return(r)), B, G)
<1> DEFINE cmd == "StateSet"
           x == "Idle"
           C == A \ {Asking(c, cmd, x)}
           H == F \cup Reached(c, cmd, x)
           E == F \cup Excused(c, cmd)
           u == <<Step("relate", d, None, c)>>
           w == <<[op |-> "await", c |-> c, a |-> cmd, x |-> x, other |-> d]>>
           v == <<Step("relate", d, None, None)>>
           i == IfOk(yes, y \o Return(r))
<1>1. Knows(C, H) /\ Knows(C, E) /\ Yields(C, H, yes, B, G)
  <2>1. Knows(C, H) /\ Knows(C, E)
    BY KnowsReached
  <2>2. F \subseteq H /\ G \subseteq G
    OBVIOUS
  <2> HIDE DEF H
  <2>3. Yields(C, H, yes, B, G)
    BY <2>2, PassLess
  <2> QED
    BY <2>1, <2>3
<1>2. /\ IsSeq(u) /\ IsSeq(w) /\ IsSeq(v) /\ IsSeq(y \o Return(r)) /\ IsSeq(yes) /\ IsSeq(i)
      /\ Knows(B, G)
  BY <1>1, ProgSeq, ReturnSeq, JoinSeq, OneSeq DEF IfOk, If, Yields
<1>3. ASSUME NEW k, Fails(k), Good(State(B, G) \cup {Ok}, k)
      PROVE  Good(State(A, F), u \o (w \o (v \o (i \o k))))
  <2>1. IsSeq(k) /\ Good(State(C, H), yes \o k)
    <3> HIDE DEF C, H
    <3> QED
      BY <1>1, <1>3, FailsSeq DEF Yields
  <2>2. Good(State(C, H) \cup {Ok}, i \o k)
    <3> DEFINE z == y \o Return(r)
    <3>1. IsSeq(z)
      BY <1>2
    <3> HIDE DEF z, C, H
    <3> QED
      BY <1>1, <1>2, <2>1, <3>1, OkRule
  <2>3. Good(State(C, E) \cup {Bad}, i \o k) /\ Good(State(A, F) \cup {Bad}, i \o k)
    <3> HIDE DEF C, E
    <3> QED
      BY <1>1, <1>2, <1>3, FailedBranch
  <2>4. IsSeq(i \o k)
    BY <1>2, <2>1, JoinSeq
  <2> DEFINE m == i \o k
  <2>5. /\ Good(State(C, H) \cup {Ok}, v \o m) /\ Good(State(C, E) \cup {Bad}, v \o m)
        /\ Good(State(A, F) \cup {Bad}, v \o m)
    <3>1. /\ Good(State(C, H) \cup {Ok}, m) /\ Good(State(C, E) \cup {Bad}, m)
          /\ Good(State(A, F) \cup {Bad}, m) /\ IsSeq(m)
      BY <2>2, <2>3, <2>4
    <3> HIDE DEF m, C, H, E
    <3> QED
      BY <1>1, <3>1, RelateRule
  <2>6. IsSeq(v \o m) /\ IsSeq(w \o (v \o m))
    <3>1. IsSeq(m)
      BY <2>4
    <3> HIDE DEF v, w, m
    <3> QED
      BY <1>2, <3>1, JoinSeq
  <2>7. Good(State(A, F), w \o (v \o m))
    <3> DEFINE n == v \o m
    <3>1. /\ Good(State(C, H) \cup {Ok}, n) /\ Good(State(C, E) \cup {Bad}, n)
          /\ Good(State(A, F) \cup {Bad}, n) /\ IsSeq(n)
      BY <2>5, <2>6
    <3>2. Asking(c, cmd, x) \in A
      OBVIOUS
    <3> HIDE DEF n, m, v, i
    <3>3. Good(State(A, F), w \o n)
      BY <3>1, <3>2, AwaitRule
    <3> QED
      BY <3>3 DEF n
  <2> DEFINE n == w \o (v \o m)
  <2>8. Good(State(A, F), u \o n)
    <3>1. Good(State(A, F), n) /\ IsSeq(n)
      BY <2>6, <2>7
    <3> HIDE DEF n
    <3> QED
      BY <3>1, RelateRule
  <2> QED
    BY <2>8
<1>4. WaitForEither(c, "StateSet", "Idle", d) = u \o (w \o v)
  <2> DEFINE p1 == Step("relate", d, None, c)
             p2 == [op |-> "await", c |-> c, a |-> cmd, x |-> x, other |-> d]
             p3 == Step("relate", d, None, None)
  <2>1. WaitForEither(c, "StateSet", "Idle", d) = <<p1, p2, p3>>
    BY DEF WaitForEither
  <2> HIDE DEF p1, p2, p3
  <2>2. <<p1>> \o (<<p2>> \o <<p3>>) = <<p1, p2, p3>>
    BY TwoThree
  <2> QED
    BY <2>1, <2>2 DEF p1, p2, p3
<1> HIDE DEF u, w, v, i
<1>5. ASSUME NEW k, IsSeq(k)
      PROVE  ((u \o (w \o v)) \o i) \o k = u \o (w \o (v \o (i \o k)))
  <2> DEFINE m == i \o k
             n == w \o v
  <2>1. IsSeq(m) /\ IsSeq(n)
    BY <1>2, <1>5, JoinSeq
  <2> HIDE DEF m, n
  <2>2. Nested(u, n, i, k)
    BY <1>2, <1>5, <2>1, AssocFour
  <2>3. ((u \o n) \o i) \o k = u \o (n \o (i \o k))
    BY <2>2, Zenon DEF Nested
  <2>4. (w \o v) \o m = w \o (v \o m)
    <3>1. Joined(w, v, m)
      BY <1>2, <2>1, AssocThree
    <3> QED
      BY <3>1 DEF Joined
  <2> QED
    BY <2>3, <2>4 DEF m, n
<1>6. IsSeq((u \o (w \o v)) \o i)
  BY <1>2, JoinSeq
<1>7. ASSUME NEW k, Fails(k), Good(State(B, G) \cup {Ok}, k)
      PROVE  Good(State(A, F), ((u \o (w \o v)) \o i) \o k)
  <2>1. IsSeq(k)
    BY <1>7, FailsSeq
  <2> QED
    BY <1>3, <1>5, <1>7, <2>1
<1>8. Yields(A, F, (u \o (w \o v)) \o i, B, G)
  BY <1>2, <1>6, <1>7 DEF Yields
<1> QED
  BY <1>4, <1>8 DEF i

------------------------------------------------------------------------------
\* Both ports have been asked to become enabled, and the answer of the sink comes first.
LEMMA YieldParts ==
  ASSUME NEW t, NEW F, Between(t, F),
         NEW A, NEW g, NEW h, g = Asking(t[1][1], "PortEnable", t[1][2]),
         h = Asking(t[2][1], "PortEnable", t[2][2]), A = {g, h}, Knows(A, F)
  PROVE  /\ Yields(A, F, EnableLoaded(t), {}, F \cup {On(t[1]), On(t[2])})
         /\ Yields(A, F, EnableRunning(t), {}, F \cup {On(t[1]), On(t[2])})
<1> DEFINE cmd == "PortEnable"
           s == t[1][1]
           c == t[2][1]
           p == t[1][2]
           q == t[2][2]
           H == F \cup {On(t[2])}
           G == F \cup {On(t[1]), On(t[2])}
           e1 == DisablePort(s, p)
           e2 == DisablePort(c, q)
           e3 == e1 \o <<Step("expect", s, cmd, p)>>
           e4 == If("returned", -2, WaitForCommand(s, cmd, p) \o e2, <<>>)
           r == Return(-1)
           ok == EnablePopulated(t)
           snd == Send(c, "StateSet", "Idle")
           both == WaitForEither(c, "StateSet", "Idle", s)
           eth == EnableEither(t)
<1>1. /\ s \in Components /\ c \in Components /\ s # c
      /\ t[1] = <<s, p>> /\ t[2] = <<c, q>>
      /\ \A f \in F : f[2] = c => f[1] \notin {"ran", "loaded"}
  BY DEF Between
<1>2. g[2] = s /\ h[2] = c /\ g # h /\ A \ {h} = {g} /\ {g} \ {g} = {} /\ g \in A /\ h \in A
  <2>1. g[2] = s /\ h[2] = c
    BY DEF Asking
  <2> HIDE DEF s, c
  <2> QED
    BY <1>1, <2>1
<1>3. /\ Reached(s, cmd, p) = {On(t[1])} /\ Reached(c, cmd, q) = {On(t[2])}
      /\ F \cup Reached(c, cmd, q) = H /\ H \cup Reached(s, cmd, p) = G
  <2>1. Reached(s, cmd, p) = {On(<<s, p>>)} /\ Reached(c, cmd, q) = {On(<<c, q>>)}
    BY DEF Reached
  <2>2. Reached(s, cmd, p) = {On(t[1])} /\ Reached(c, cmd, q) = {On(t[2])}
    BY <1>1, <2>1
  <2> QED
    BY <2>2
<1>4. /\ Prog(All, e1) /\ Prog(All, e2) /\ Prog(All, e3) /\ Prog(All, e4) /\ Prog(All, e4 \o e1)
      /\ -1 \in Failing
  <2>1. /\ Prog(All, e1) /\ Prog(All, e2) /\ Prog(All, e3) /\ Prog(All, e4)
    BY BetweenScope, ProgEnableFailures
  <2>2. Prog(All, e4 \o e1)
    <3> HIDE DEF e4, e1
    <3> QED
      BY <2>1, ProgJoin
  <2>3. -1 \in Failing
    BY DEF Failing, Rets
  <2> QED
    BY <2>1, <2>2, <2>3
<1>5. Knows({g}, H)
  <2>1. Knows(A \ {h}, F \cup Reached(c, cmd, q))
    BY <1>2, KnowsReached
  <2> QED
    BY <1>2, <1>3, <2>1
<1>6. Yields({g}, H, ok, {}, G)
  <2>1. Yields({g}, H, WaitForCommand(s, cmd, p) \o IfOk(<<>>, e2 \o Return(-1)),
               {g} \ {g}, H \cup Reached(s, cmd, p))
    <3>1. g = Asking(s, cmd, p) /\ g \in {g}
      OBVIOUS
    <3> HIDE DEF H, e2, s, p
    <3> QED
      BY <1>4, <1>5, <3>1, YieldWait
  <2> QED
    BY <1>2, <1>3, <2>1 DEF EnablePopulated
<1>7. Yields(A, F, EnableRunning(t), {}, G)
  <2>1. Yields(A \ {h}, F \cup Reached(c, cmd, q), ok, {}, G)
    BY <1>2, <1>3, <1>6
  <2>2. h = Asking(c, cmd, q)
    OBVIOUS
  <2> HIDE DEF ok, e3, G, c, q
  <2>3. Yields(A, F, WaitForCommand(c, cmd, q) \o IfOk(ok, e3 \o Return(-1)), {}, G)
    BY <1>2, <1>4, <2>1, <2>2, TryYield
  <2> QED
    BY <2>3 DEF EnableRunning, ok, e3, c, q
<1>8. Yields({g}, H, (snd \o both) \o eth, {}, G)
  <2> DEFINE a == Asking(c, "StateSet", "Idle")
             B == {g} \cup {a}
  <2>1. a # g /\ B \ {a} = {g} /\ a \in B /\ a[2] = c
    <3>1. a[2] = c
      BY DEF Asking
    <3> HIDE DEF a, c, s
    <3> QED
      BY <1>1, <1>2, <3>1
  <2>2. Knows(B, H) /\ c \in Idle({g})
    <3>1. c \in Idle({g}) /\ Asks(c, "StateSet", "Idle") /\ Still(H)
      BY <1>1, <1>2, <1>5 DEF Idle, Asks, Order, Knows
    <3>2. \A f \in H : f[2] = c => f[1] \notin {"ran", "loaded"}
      BY <1>1 DEF On
    <3> HIDE DEF H, c
    <3> QED
      BY <1>1, <1>5, <3>1, <3>2, KnowsAsked
  <2>3. Passes({g}, H, snd, B, H)
    <3> HIDE DEF H, c
    <3> QED
      BY <1>5, <2>2, PassSend
  <2>4. Yields(B, H, both \o eth, {}, G)
    <3> DEFINE y == e4 \o e1
    <3>1. Yields(B \ {a}, H, ok, {}, G)
      BY <1>6, <2>1
    <3>2. Prog(All, y) /\ a = Asking(c, "StateSet", "Idle")
      BY <1>4
    <3>3. eth = IfOk(ok, y \o Return(-1))
      <4>1. eth = IfOk(ok, e4 \o (e1 \o Return(-1)))
        BY DEF EnableEither, EnableFailed
      <4>2. IsSeq(e4) /\ IsSeq(e1) /\ IsSeq(r)
        BY <1>4, ProgSeq, ReturnSeq
      <4> HIDE DEF e4, e1, r
      <4>3. (e4 \o e1) \o r = e4 \o (e1 \o r)
        <5>1. Joined(e4, e1, r)
          BY <4>2, AssocThree
        <5> QED
          BY <5>1 DEF Joined
      <4> QED
        BY <4>1, <4>3 DEF r
    <3> HIDE DEF y, ok, eth, a, B, H, G, c, s
    <3>4. Yields(B, H, both \o IfOk(ok, y \o Return(-1)), {}, G)
      BY <1>1, <1>4, <2>1, <2>2, <3>1, <3>2, YieldEither
    <3> QED
      BY <3>3, <3>4
  <2>5. Yields({g}, H, snd \o (both \o eth), {}, G)
    <3> DEFINE m == both \o eth
    <3>1. Yields(B, H, m, {}, G)
      BY <2>4
    <3> HIDE DEF m, B, H, G, snd
    <3>2. Yields({g}, H, snd \o m, {}, G)
      BY <2>3, <3>1, PassJoin
    <3> QED
      BY <3>2 DEF m
  <2>6. IsSeq(snd) /\ IsSeq(both) /\ IsSeq(eth)
    <3>1. IsSeq(snd) /\ IsSeq(eth)
      BY OneSeq DEF Send, EnableEither, IfOk, If
    <3>2. Prog(All, both)
      BY <1>1, ProgWaitForEither DEF All, Around
    <3> QED
      BY <3>1, <3>2, ProgSeq
  <2> HIDE DEF snd, both, eth
  <2>7. (snd \o both) \o eth = snd \o (both \o eth)
    <3>1. Joined(snd, both, eth)
      BY <2>6, AssocThree
    <3> QED
      BY <3>1 DEF Joined
  <2> QED
    BY <2>5, <2>7
<1>9. Yields(A, F, EnableLoaded(t), {}, G)
  <2> DEFINE yes == (snd \o both) \o eth
  <2>1. Yields(A \ {h}, F \cup Reached(c, cmd, q), yes, {}, G)
    BY <1>2, <1>3, <1>8
  <2>2. h = Asking(c, cmd, q)
    OBVIOUS
  <2> HIDE DEF yes, e1, G, c, q
  <2>3. Yields(A, F, WaitForCommand(c, cmd, q) \o IfOk(yes, e1 \o Return(-1)), {}, G)
    BY <1>2, <1>4, <2>1, <2>2, TryYield
  <2> QED
    BY <2>3 DEF EnableLoaded, EnableFailed, yes, e1, c, q
<1> QED
  BY <1>7, <1>9

\* Which branch it takes depends on what is not known; both lead to the same.
LEMMA YieldEnable ==
  ASSUME NEW t, NEW F, Between(t, F)
  PROVE  Yields({}, F, EnableTunnel(t), {}, F \cup {On(t[1]), On(t[2])})
<1> DEFINE cmd == "PortEnable"
           s == t[1][1]
           c == t[2][1]
           p == t[1][2]
           q == t[2][2]
           G == F \cup {On(t[1]), On(t[2])}
           g == Asking(s, cmd, p)
           h == Asking(c, cmd, q)
           A == {} \cup {g}
           B == A \cup {h}
           x1 == Send(s, cmd, p)
           x2 == Send(c, cmd, q)
           yes == EnableLoaded(t)
           no == EnableRunning(t)
           i == If("loaded", c, yes, no)
<1>1. /\ s \in Components /\ c \in Components /\ s # c /\ Asks(s, cmd, p) /\ Asks(c, cmd, q)
      /\ \A f \in F : f[2] = s => ~(f[1] = "on" /\ f[3] = p)
      /\ \A f \in F : f[2] = c => ~(f[1] = "on" /\ f[3] = q)
      /\ Still(F) /\ Knows({}, F)
  BY DEF Between, Asks, Order, Knows
<1>2. g[2] = s /\ h[2] = c /\ B = {g, h} /\ s \in Idle({}) /\ c \in Idle(A)
  <2>1. g[2] = s /\ h[2] = c
    BY DEF Asking
  <2> HIDE DEF g, h, s, c
  <2> QED
    BY <1>1, <2>1 DEF Idle
<1>3. Knows(A, F)
  <2> HIDE DEF s, p, cmd
  <2> QED
    BY <1>1, <1>2, KnowsAsked DEF cmd
<1>4. Knows(B, F)
  <2> HIDE DEF c, q, cmd, A
  <2> QED
    BY <1>1, <1>2, <1>3, KnowsAsked DEF cmd
<1>5. Passes({}, F, x1, A, F) /\ Passes(A, F, x2, B, F)
  <2> HIDE DEF s, c, p, q
  <2> QED
    BY <1>1, <1>2, <1>3, <1>4, PassSend
<1>6. Yields(B, F, yes, {}, G) /\ Yields(B, F, no, {}, G)
  BY <1>2, <1>4, YieldParts
<1>7. Yields(B, F, i, {}, G)
  <2> HIDE DEF yes, no, B, G, c
  <2>1. ASSUME NEW k, Fails(k), Good(State({}, G) \cup {Ok}, k)
        PROVE  Good(State(B, F), i \o k)
    <3> DEFINE a == State(B, F)
               b == a \cup {Fact("loaded", c)}
               e == IF Fact("made", c) \in a THEN a \cup {Fact("up", c)} ELSE a
               m == yes \o k
               n == no \o k
    <3>1. Good(a, m) /\ Good(a, n) /\ IsSeq(k) /\ IsSeq(yes) /\ IsSeq(no) /\ Proper(a)
      BY <1>4, <1>6, <2>1, FailsSeq, StateProper DEF Yields
    <3>2. a \subseteq b /\ a \subseteq e
      OBVIOUS
    <3>3. Good(b, m) /\ Good(e, n)
      <4> HIDE DEF a, b, e, m, n
      <4> QED
        BY <3>1, <3>2, GoodMore
    <3> HIDE DEF a
    <3>4. Good(a, If("loaded", c, yes, no) \o k)
      BY <1>1, <3>1, <3>3, GoodIfState
    <3> QED
      BY <3>4 DEF a
  <2>2. IsSeq(i) /\ Knows({}, G)
    BY <1>6, OneSeq DEF If, Yields
  <2> QED
    BY <2>1, <2>2 DEF Yields
<1>8. EnableTunnel(t) = (x1 \o x2) \o i
  BY EnableParts
<1> HIDE DEF x1, x2, i, A, B, G
<1>9. Passes({}, F, x1 \o x2, B, F)
  BY <1>5, PassJoin
<1>10. Yields({}, F, (x1 \o x2) \o i, {}, G)
  BY <1>7, <1>9, PassJoin
<1> QED
  BY <1>8, <1>10 DEF G

------------------------------------------------------------------------------
LEMMA ConnectRule ==
  ASSUME NEW F, Knows({}, F), NEW p \in PortPairs, NEW q \in PortPairs, p # q,
         \A f \in F : f[1] = "peer" => <<f[2], f[3]>> \notin {p, q}, NEW k, IsSeq(k),
         Good(State({}, F \cup {Meets(p, q), Meets(q, p)}) \cup {Ok}, k),
         Good(State({}, F) \cup {Bad}, k)
  PROVE  Good(State({}, F), Connect(p, q) \o k)
<1> DEFINE M == {Meets(p, q), Meets(q, p)}
           a == State({}, F)
           b == State({}, F \cup M) \cup {Ok}
           e == a \cup {Bad}
           b2 == Worked(Met(a, p, q))
           e2 == Failed(a)
<1>1. \A f \in a : f[1] = "peer" => <<f[2], f[3]>> \notin {p, q}
  <2>1. \A c : Resting(c)[1] = "rest"
    BY DEF Resting, Fact
  <2> QED
    BY <2>1 DEF State
<1>2. Met(a, p, q) = a \cup M /\ State({}, F \cup M) = a \cup M
  <2>1. State({}, F \cup M) = a \cup M
    BY DEF State
  <2> HIDE DEF a
  <2> QED
    BY <1>1, <2>1 DEF Met
<1>3. a \cup {Ok} \subseteq Worked(a) /\ e \subseteq e2 /\ Proper(a)
  BY StateMute, StateProper
<1>4. b \subseteq b2
  <2>1. \A f \in M : f[1] \notin {"ok", "bad"}
    BY DEF Meets
  <2>2. Worked(a \cup M) = Worked(a) \cup M
    <3> HIDE DEF a, M
    <3> QED
      BY <2>1 DEF Worked, Mute
  <2> HIDE DEF a, M
  <2> QED
    BY <1>2, <1>3, <2>2
<1>5. Good(b, k) /\ Good(e, k)
  OBVIOUS
<1>6. Good(b2, k) /\ Good(e2, k)
  <2> HIDE DEF b, e, b2, e2
  <2> QED
    BY <1>3, <1>4, <1>5, GoodMore
<1> HIDE DEF a
<1>7. Good(a, Connect(p, q) \o k)
  BY <1>3, <1>6, GoodConnect
<1> QED
  BY <1>7 DEF a

\* The tunnel is connected, and both ports are enabled; the source is idle or executes.
Tied(t) == {Meets(t[1], t[2]), Meets(t[2], t[1]), On(t[1]), On(t[2])}
Apart2(t, F) == \A f \in F : f[1] = "peer" => <<f[2], f[3]>> \notin {t[1], t[2]}

LEMMA ConnectingRule ==
  ASSUME NEW t, NEW F, Between(t, F), Apart2(t, F), NEW k, Demands(k),
         Good(State({}, F \cup Tied(t)) \cup {Ok}, k)
  PROVE  Good(State({}, F), Connecting(t) \o k)
<1> DEFINE F2 == F \cup {Meets(t[1], t[2]), Meets(t[2], t[1])}
           G == F \cup Tied(t)
           x == DisableTunnel(t)
           y == Connect(t[1], t[2])
           r == Return(-5)
           e == EnableTunnel(t)
           d == Undone(t)
           z == (d \o RemoveError(t[2][1], "any error")) \o RemoveError(t[1][1], "any error")
           j == IfOk(<<>>, z \o r)
           i == IfOk(e \o j, d \o r)
<1>1. /\ t[1] \in PortPairs /\ t[2] \in PortPairs /\ t[1] # t[2]
      /\ t[1][1] \in Components /\ t[2][1] \in Components
      /\ t[1] = <<t[1][1], t[1][2]>> /\ t[2] = <<t[2][1], t[2][2]>>
  <2>1. \A n \in {1, 2} : /\ t[n] = <<t[n][1], t[n][2]>>
                          /\ t[n][1] \in Components /\ t[n][2] \in Ports[t[n][1]]
    BY DEF Between
  <2>2. \A c \in Components : \A p \in Ports[c] : <<c, p>> \in PortPairs
    BY DEF PortPairs
  <2>3. t[1] \in PortPairs /\ t[2] \in PortPairs
    BY <2>1, <2>2
  <2>4. t[1][1] # t[2][1]
    BY DEF Between
  <2> QED
    BY <2>1, <2>3, <2>4
<1>2. Between(t, F2)
  <2>1. \A f \in {Meets(t[1], t[2]), Meets(t[2], t[1])} :
          /\ f[1] = "peer" /\ f[2] \in Components /\ <<f[2], f[3]>> \in PortPairs
    BY <1>1 DEF Meets
  <2> DEFINE M == {Meets(t[1], t[2]), Meets(t[2], t[1])}
  <2> HIDE DEF M
  <2>2. \A f \in M : f[1] = "peer" /\ f[2] \in Components /\ <<f[2], f[3]>> \in PortPairs
    BY <2>1 DEF M
  <2>3. Knows({}, F \cup M)
    BY <2>2 DEF Between, Knows, Still, Orders, Apart
  <2>4. Between(t, F \cup M)
    BY <2>2, <2>3 DEF Between
  <2> QED
    BY <2>4 DEF M
<1>3. Knows({}, F) /\ Knows({}, F2)
  BY <1>2 DEF Between
<1>4. Prog(All, d) /\ Prog(All, z) /\ -5 \in Failing
  <2>1. Prog(All, d)
    BY BetweenScope, ProgEnableFailures
  <2>2. t[1][1] \in All.comps /\ t[2][1] \in All.comps
    BY <1>1 DEF All, Around
  <2>3. Prog(All, z)
    <3> HIDE DEF d
    <3> QED
      BY <2>1, <2>2, ProgRemove, ProgJoin
  <2>4. -5 \in Failing
    BY DEF Failing, Rets
  <2> QED
    BY <2>1, <2>3, <2>4
<1>5. Passes({}, F, x, {}, F) /\ Yields({}, F2, e, {}, F2 \cup {On(t[1]), On(t[2])})
  BY <1>2, PassDisableTunnel, YieldEnable
<1>6. F2 \cup {On(t[1]), On(t[2])} = G
  BY DEF Tied
<1>7. /\ IsSeq(k) /\ IsSeq(x) /\ IsSeq(y) /\ IsSeq(e) /\ IsSeq(d \o r) /\ IsSeq(z \o r)
      /\ IsSeq(j) /\ IsSeq(e \o j) /\ IsSeq(i) /\ IsSeq(<<>>) /\ Knows({}, G)
  <2>1. IsSeq(k) /\ IsSeq(x) /\ IsSeq(y) /\ IsSeq(e) /\ IsSeq(<<>>) /\ Knows({}, G)
    BY <1>5, <1>6, OneSeq, NoneSeq, FailsSeq DEF Passes, Yields, Connect, Fails
  <2>2. IsSeq(d) /\ IsSeq(z) /\ IsSeq(r)
    BY <1>4, ProgSeq, ReturnSeq
  <2>3. IsSeq(d \o r) /\ IsSeq(z \o r)
    <3> HIDE DEF d, z, r
    <3> QED
      BY <2>2, JoinSeq
  <2>4. IsSeq(j) /\ IsSeq(i)
    BY OneSeq DEF IfOk, If
  <2>5. IsSeq(e \o j)
    <3> HIDE DEF e, j
    <3> QED
      BY <2>1, <2>4, JoinSeq
  <2> QED
    BY <2>1, <2>3, <2>4, <2>5
<1>8. Good(State({}, F2), (e \o j) \o k)
  <2>1. Fails(j \o k)
    <3> HIDE DEF z
    <3> QED
      BY <1>4 DEF Fails
  <2>2. Good(State({}, G) \cup {Ok}, j \o k)
    <3>1. <<>> \o k = k
      BY <1>7, NoneJoin
    <3> DEFINE n == z \o r
    <3>2. IsSeq(n) /\ Good(State({}, G) \cup {Ok}, k)
      BY <1>7
    <3> HIDE DEF n, G
    <3> QED
      BY <1>7, <3>1, <3>2, KnownBranch DEF n
  <2>3. Good(State({}, F2), e \o (j \o k))
    <3> DEFINE m == j \o k
    <3>1. Fails(m) /\ Good(State({}, G) \cup {Ok}, m)
      BY <2>1, <2>2
    <3>2. Yields({}, F2, e, {}, G)
      BY <1>5, <1>6
    <3> HIDE DEF m, F2, G
    <3>3. Good(State({}, F2), e \o m)
      BY <3>1, <3>2 DEF Yields
    <3> QED
      BY <3>3 DEF m
  <2>4. IsSeq(e) /\ IsSeq(j) /\ IsSeq(k)
    BY <1>7
  <2> HIDE DEF e, j
  <2>5. (e \o j) \o k = e \o (j \o k)
    <3>1. Joined(e, j, k)
      BY <2>4, AssocThree
    <3> QED
      BY <3>1 DEF Joined
  <2> QED
    BY <2>3, <2>5
<1>9. Good(State({}, F2) \cup {Ok}, i \o k)
  <2> DEFINE m == e \o j
             n == d \o r
  <2>1. IsSeq(m) /\ IsSeq(n) /\ Good(State({}, F2), m \o k) /\ i = IfOk(m, n)
    BY <1>7, <1>8
  <2> HIDE DEF m, n, F2, i
  <2> QED
    BY <1>3, <1>7, <2>1, OkRule
<1>10. Good(State({}, F) \cup {Bad}, i \o k)
  <2> DEFINE m == e \o j
  <2>1. IsSeq(m) /\ i = IfOk(m, d \o Return(-5)) /\ Fails(k)
    BY <1>7 DEF Fails
  <2> HIDE DEF m, i, d
  <2> QED
    BY <1>3, <1>4, <2>1, FailedBranch
<1>11. Good(State({}, F), y \o (i \o k))
  <2> DEFINE m == i \o k
  <2>1. IsSeq(m) /\ Good(State({}, F2) \cup {Ok}, m) /\ Good(State({}, F) \cup {Bad}, m)
    <3>1. IsSeq(i \o k)
      <4>1. IsSeq(i)
        BY <1>7
      <4> HIDE DEF i
      <4> QED
        BY <1>7, <4>1, JoinSeq
    <3> QED
      BY <1>9, <1>10, <3>1
  <2> HIDE DEF m, i
  <2>2. Good(State({}, F), y \o m)
    BY <1>1, <1>3, <2>1, ConnectRule DEF Apart2
  <2> QED
    BY <2>2 DEF m
<1>12. Good(State({}, F), x \o (y \o (i \o k)))
  <2>1. IsSeq(y \o (i \o k))
    <3>1. IsSeq(i)
      BY <1>7
    <3> HIDE DEF i, y
    <3> QED
      BY <1>7, <3>1, JoinSeq
  <2> DEFINE m == y \o (i \o k)
  <2>2. IsSeq(m) /\ Good(State({}, F), m)
    BY <1>11, <2>1
  <2> HIDE DEF m
  <2>3. Good(State({}, F), x \o m)
    BY <1>5, <2>2 DEF Passes
  <2> QED
    BY <2>3 DEF m
<1>13. ((x \o y) \o i) \o k = x \o (y \o (i \o k))
  <2>1. IsSeq(x) /\ IsSeq(y) /\ IsSeq(i) /\ IsSeq(k)
    BY <1>7
  <2> HIDE DEF x, y, i
  <2>2. Nested(x, y, i, k)
    BY <2>1, AssocFour
  <2> QED
    BY <2>2, Zenon DEF Nested
<1>14. Connecting(t) = (x \o y) \o i
  BY DEF Connecting, Enabling
<1> QED
  BY <1>12, <1>13, <1>14

LEMMA PassSetup ==
  ASSUME NEW t, NEW F, Between(t, F), Apart2(t, F), Fact("made", t[1][1]) \in F
  PROVE  Passes({}, F, SetupTunnel(t) \o Demand, {},
                F \cup (Tied(t) \cup {Fact("up", t[1][1])}))
<1> DEFINE s == t[1][1]
           F2 == F \cup {Fact("up", s)}
           G == F \cup (Tied(t) \cup {Fact("up", s)})
           c == Connecting(t)
           x == ChangeState(s, "Idle")
           r == Return(-2)
           i == IfOk(c, r)
           yes == x \o i
           d == Demand
<1>1. s \in Components /\ \A f \in F : f[2] = s => f[1] \notin {"ran", "loaded"}
  BY DEF Between
<1>2. Knows({}, F) /\ Knows({}, F2) /\ Between(t, F2) /\ Apart2(t, F2)
  <2> DEFINE f == Fact("up", s)
  <2>1. f[1] = "up" /\ f[2] = s
    BY DEF Fact
  <2> HIDE DEF f
  <2>2. Knows({}, F) /\ Knows({}, F \cup {f})
    BY <1>1, <2>1 DEF Between, Knows, Still, Orders, Apart
  <2>3. Between(t, F \cup {f})
    BY <2>1, <2>2 DEF Between
  <2>4. Apart2(t, F \cup {f})
    BY <2>1 DEF Apart2
  <2> QED
    BY <2>2, <2>3, <2>4 DEF f
<1>3. F2 \cup Tied(t) = G /\ Reached(s, "StateSet", "Idle") = {Fact("up", s)}
  BY DEF Reached
<1>4. Knows({}, G)
  <2>1. \A f \in Tied(t) : /\ f[1] \notin {"rest", "asked", "ok", "bad", "begun"}
                           /\ f[2] \in Components
                           /\ f[1] = "peer" => <<f[2], f[3]>> \in PortPairs
    <3>1. \A j \in {1, 2} : /\ t[j] = <<t[j][1], t[j][2]>>
                            /\ t[j][1] \in Components /\ t[j][2] \in Ports[t[j][1]]
      BY DEF Between
    <3>2. \A b \in Components : \A p \in Ports[b] : <<b, p>> \in PortPairs
      BY DEF PortPairs
    <3> QED
      BY <3>1, <3>2 DEF Tied, Meets, On
  <2>2. Still(F2 \cup Tied(t))
    <3> HIDE DEF F2
    <3> QED
      BY <1>2, <2>1 DEF Knows, Still
  <2>3. Still(G)
    BY <1>3, <2>2
  <2> HIDE DEF G
  <2> QED
    BY <2>3 DEF Knows, Orders, Apart
<1>5. /\ IsSeq(c) /\ IsSeq(r) /\ IsSeq(i) /\ IsSeq(x) /\ IsSeq(yes) /\ IsSeq(d)
      /\ IsSeq(SetupTunnel(t)) /\ IsSeq(SetupTunnel(t) \o d)
  <2>1. IsSeq(c) /\ IsSeq(r) /\ IsSeq(i) /\ IsSeq(d)
    BY BetweenScope, ProgConnecting, ProgSeq, OneSeq DEF Return, IfOk, If, Demand
  <2>2. IsSeq(x)
    <3>1. s \in All.comps /\ <<s, "StateSet", "Idle">> \in All.orders
      BY <1>1 DEF All, Around, Order, Cmds, States
    <3> QED
      BY <3>1, ProgChangeState, ProgSeq
  <2>3. IsSeq(yes)
    <3> HIDE DEF x, i
    <3> QED
      BY <2>1, <2>2, JoinSeq
  <2>4. IsSeq(SetupTunnel(t))
    BY SetupParts, OneSeq DEF If
  <2>5. IsSeq(SetupTunnel(t) \o d)
    <3> DEFINE y == SetupTunnel(t)
    <3> HIDE DEF y, d
    <3> QED
      BY <2>1, <2>4, JoinSeq DEF y
  <2> QED
    BY <2>1, <2>2, <2>3, <2>4, <2>5
<1>6. ASSUME NEW k, IsSeq(k), Good(State({}, G), k)
      PROVE  Good(State({}, F), SetupTunnel(t) \o (d \o k))
  <2> DEFINE m == d \o k
  <2>1. Demands(m) /\ Good(State({}, G) \cup {Ok}, m) /\ IsSeq(m)
    <3>1. Demands(m)
      BY <1>6 DEF Demands
    <3>2. Good(State({}, G) \cup {Ok}, m)
      <4> HIDE DEF G
      <4> QED
        BY <1>4, <1>6, DemandRule
    <3>3. IsSeq(m)
      <4> HIDE DEF d
      <4> QED
        BY <1>5, <1>6, JoinSeq
    <3> QED
      BY <3>1, <3>2, <3>3
  <2> HIDE DEF m
  <2>2. Good(State({}, F2), c \o m)
    <3>1. Good(State({}, F2 \cup Tied(t)) \cup {Ok}, m)
      BY <1>3, <2>1
    <3> HIDE DEF F2
    <3> QED
      BY <1>2, <2>1, <3>1, ConnectingRule
  <2>3. Good(State({}, F), yes \o m)
    <3>1. Good(State({}, F2) \cup {Ok}, i \o m)
      <4> HIDE DEF c, r, F2
      <4> QED
        BY <1>2, <1>5, <2>1, <2>2, OkRule
    <3>2. Good(State({}, F \cup {Fact("ran", s)}) \cup {Bad}, i \o m)
      <4>1. Fails(m) /\ -2 \in Failing
        BY <2>1 DEF Fails, Failing, Rets
      <4>2. Knows({}, F \cup {Fact("ran", s)})
        BY <1>1, <1>2 DEF Knows, Still, Orders, Apart, Fact
      <4> HIDE DEF c
      <4> QED
        BY <1>5, <4>1, <4>2, ProgNone, FailedBranch
    <3>3. Good(State({}, F), x \o (i \o m))
      <4> DEFINE n == i \o m
      <4>1. /\ Good(State({}, F \cup Reached(s, "StateSet", "Idle")) \cup {Ok}, n)
            /\ Good(State({}, F \cup {Fact("ran", s)}) \cup {Bad}, n)
        BY <1>3, <3>1, <3>2
      <4>2. IsSeq(n)
        <5>1. IsSeq(i)
          BY <1>5
        <5> HIDE DEF i
        <5> QED
          BY <2>1, <5>1, JoinSeq
      <4> HIDE DEF n, s
      <4>3. Good(State({}, F), x \o n)
        BY <1>1, <1>2, <4>1, <4>2, ChangeRule
      <4> QED
        BY <4>3 DEF n
    <3>4. IsSeq(x) /\ IsSeq(i) /\ IsSeq(m)
      BY <1>5, <2>1
    <3> HIDE DEF x, i
    <3>5. (x \o i) \o m = x \o (i \o m)
      <4>1. Joined(x, i, m)
        BY <3>4, AssocThree
      <4> QED
        BY <4>1 DEF Joined
    <3> QED
      BY <3>3, <3>5
  <2>4. Good(State({}, F), If("loaded", s, yes, c) \o m)
    <3> DEFINE a == State({}, F)
               b == a \cup {Fact("loaded", s)}
               y == yes \o m
               e == a \cup {Fact("up", s)}
    <3>1. Good(a, y) /\ a \subseteq b /\ Proper(a) /\ Fact("made", s) \in a
      BY <1>2, <2>3, StateProper DEF State
    <3>2. Good(b, y)
      <4> HIDE DEF a, b, y
      <4> QED
        BY <3>1, GoodMore
    <3>3. Good(e, c \o m)
      <4>1. State({}, F2) = e
        BY DEF State
      <4> QED
        BY <2>2, <4>1
    <3>4. Good(IF Fact("made", s) \in a THEN a \cup {Fact("up", s)} ELSE a, c \o m)
      BY <3>1, <3>3
    <3> HIDE DEF a, yes, c, s
    <3>5. Good(a, If("loaded", s, yes, c) \o m)
      BY <1>1, <1>5, <2>1, <3>1, <3>2, <3>4, GoodIfState
    <3> QED
      BY <3>5 DEF a
  <2> QED
    BY <2>4, SetupParts DEF m
<1>7. ASSUME NEW k, IsSeq(k), Good(State({}, G), k)
      PROVE  Good(State({}, F), (SetupTunnel(t) \o d) \o k)
  <2> DEFINE y == SetupTunnel(t)
  <2>1. IsSeq(y) /\ IsSeq(d) /\ Good(State({}, F), y \o (d \o k))
    BY <1>5, <1>6, <1>7
  <2> HIDE DEF y, d
  <2>2. (y \o d) \o k = y \o (d \o k)
    <3>1. Joined(y, d, k)
      BY <1>7, <2>1, AssocThree
    <3> QED
      BY <3>1 DEF Joined
  <2>3. Good(State({}, F), (y \o d) \o k)
    BY <2>1, <2>2
  <2> QED
    BY <2>3 DEF y
<1> QED
  BY <1>4, <1>5, <1>7 DEF Passes

------------------------------------------------------------------------------
(***************************************************************************)
(* The initialisation of the sinks.                                        *)
(***************************************************************************)
LEMMA JoinTwo ==
  ASSUME NEW A, NEW E, NEW x, NEW B, NEW F, NEW y, NEW z, NEW C, NEW G,
         Passes(A, E, x, B, F), Passes(B, F, y \o z, C, G), IsSeq(y), IsSeq(z)
  PROVE  Passes(A, E, (x \o y) \o z, C, G)
<1>1. Passes(A, E, x \o (y \o z), C, G)
  BY PassJoin
<1>2. IsSeq(x)
  BY DEF Passes
<1>3. (x \o y) \o z = x \o (y \o z)
  BY <1>2, Assoc
<1> QED
  BY <1>1, <1>3

\* A clock is connected and told to execute.
LEMMA PassTunnel ==
  ASSUME NEW E, NEW x, NEW F, Passes({}, E, x, {}, F), NEW t, Between(t, F), Apart2(t, F),
         Fact("made", t[1][1]) \in F
  PROVE  Passes({}, E,
                x \o SetupTunnel(t) \o Demand \o ChangeState(t[1][1], "Executing") \o Setting,
                {}, F \cup (Tied(t) \cup {Fact("up", t[1][1]), Fact("ran", t[1][1])}))
<1> DEFINE k == t[1][1]
           T == SetupTunnel(t)
           G == F \cup (Tied(t) \cup {Fact("up", k)})
           H == G \cup {Fact("ran", k)}
           d == Demand
           ch == ChangeState(k, "Executing")
           st == Setting
<1>1. IsSeq(T) /\ IsSeq(d) /\ k \in Components
  <2>1. IsSeq(T) /\ IsSeq(d)
    BY SetupParts, OneSeq DEF If, Demand
  <2> QED
    BY <2>1 DEF Between
<1>2. Passes({}, F, T \o d, {}, G)
  BY PassSetup
<1>3. \A f \in G : f[2] = k => f[1] \notin {"ran", "loaded"}
  <2>1. \A f \in Tied(t) \cup {Fact("up", k)} : f[1] \notin {"ran", "loaded"}
    BY DEF Tied, Meets, On, Fact
  <2>2. \A f \in F : f[2] = k => f[1] \notin {"ran", "loaded"}
    BY DEF Between
  <2> QED
    BY <2>1, <2>2
<1>4. H = F \cup (Tied(t) \cup {Fact("up", t[1][1]), Fact("ran", t[1][1])})
  OBVIOUS
<1> HIDE DEF T, d, G
<1>5. Passes({}, E, (x \o T) \o d, {}, G)
  BY <1>1, <1>2, JoinTwo
<1> HIDE DEF k
<1>6. Passes({}, G, ch, {}, H)
  BY <1>1, <1>2, <1>3, PassChange DEF Passes
<1> HIDE DEF ch, H
<1>7. Passes({}, E, (x \o T) \o d \o ch, {}, H)
  <2> DEFINE y == (x \o T) \o d
  <2>1. Passes({}, E, y, {}, G)
    BY <1>5
  <2> HIDE DEF y
  <2>2. Passes({}, E, y \o ch, {}, H)
    BY <1>6, <2>1, PassJoin
  <2> QED
    BY <2>2 DEF y
<1>8. Passes({}, H, st, {}, H)
  <2>1. Knows({}, H)
    BY <1>6 DEF Passes
  <2> QED
    BY <2>1, PassSetting
<1> HIDE DEF st
<1>9. Passes({}, E, (x \o T) \o d \o ch \o st, {}, H)
  <2> DEFINE y == (x \o T) \o d \o ch
  <2>1. Passes({}, E, y, {}, H)
    BY <1>7
  <2> HIDE DEF y
  <2>2. Passes({}, E, y \o st, {}, H)
    BY <1>8, <2>1, PassJoin
  <2> QED
    BY <2>2 DEF y
<1> QED
  BY <1>4, <1>9 DEF T, d, ch, st, k

\* The port of a renderer is filled and the renderer told to execute, or all is given
\* back, and that fails.
LEMMA PassFill ==
  ASSUME NEW F, Knows({}, F), NEW c \in Components, NEW p \in Ports[c],
         \A f \in F : f[2] = c => /\ f[1] \notin {"full", "ran", "loaded"}
                                  /\ ~(f[1] = "on" /\ f[3] = p),
         NEW y, Prog(All, y)
  PROVE  Passes({}, F,
                EnablePortBuffers(c, p)
                    \o IfOk(ChangeState(c, "Executing") \o Return(0), y \o Return(-1)) \o Demand,
                {}, F \cup {Fact("full", c), Fact("up", c), On(<<c, p>>), Fact("ran", c)})
<1> DEFINE e == EnablePortBuffers(c, p)
           ch == ChangeState(c, "Executing")
           z == Return(0)
           yes == ch \o z
           no == y \o Return(-1)
           i == IfOk(yes, no)
           d == Demand
           G == F \cup {Fact("full", c), Fact("up", c), On(<<c, p>>)}
           H == G \cup {Fact("ran", c)}
<1>1. Yields({}, F, e, {}, G)
  BY YieldBuffers
<1>2. Knows({}, G) /\ IsSeq(e)
  BY <1>1 DEF Yields
<1>3. Passes({}, G, ch, {}, H)
  <2>1. \A f \in G : f[2] = c => f[1] \notin {"ran", "loaded"}
    BY DEF Fact, On
  <2> HIDE DEF G, ch
  <2> QED
    BY <1>2, <2>1, PassChange DEF ch
<1>4. Knows({}, H) /\ IsSeq(ch)
  BY <1>3 DEF Passes
<1>5. IsSeq(z) /\ IsSeq(yes) /\ IsSeq(no) /\ IsSeq(i) /\ IsSeq(d)
  <2>1. IsSeq(z) /\ IsSeq(Return(-1)) /\ IsSeq(y) /\ IsSeq(i) /\ IsSeq(d)
    BY ReturnSeq, ProgSeq, OneSeq DEF IfOk, If, Demand
  <2> HIDE DEF ch, z
  <2> QED
    BY <1>4, <2>1, JoinSeq
<1>6. ASSUME NEW k, IsSeq(k), Good(State({}, H), k)
      PROVE  Good(State({}, F), (e \o i \o d) \o k)
  <2> DEFINE m == d \o k
  <2>1. IsSeq(m) /\ Good(State({}, H), m) /\ Demands(m)
    <3>1. IsSeq(m)
      BY <1>5, <1>6, JoinSeq
    <3>2. Demands(m)
      BY <1>6 DEF Demands
    <3> HIDE DEF H
    <3>3. Good(State({}, H), m)
      BY <1>4, <1>6, DemandRule
    <3> QED
      BY <3>1, <3>2, <3>3
  <2> HIDE DEF m
  <2>2. Good(State({}, G), yes \o m)
    <3>1. Good(State({}, H), z \o m)
      <4> HIDE DEF H
      <4> QED
        BY <1>4, <2>1, DemandRule
    <3>2. IsSeq(z \o m)
      <4> HIDE DEF z
      <4> QED
        BY <1>5, <2>1, JoinSeq
    <3> HIDE DEF H, G, ch, z
    <3>3. Good(State({}, G), ch \o (z \o m))
      BY <1>3, <3>1, <3>2 DEF Passes
    <3>4. (ch \o z) \o m = ch \o (z \o m)
      <4>1. Joined(ch, z, m)
        BY <1>4, <1>5, <2>1, AssocThree
      <4> QED
        BY <4>1 DEF Joined
    <3> QED
      BY <3>3, <3>4
  <2>3. Good(State({}, G) \cup {Ok}, i \o m) /\ Fails(i \o m)
    <3>1. Good(State({}, G) \cup {Ok}, i \o m)
      <4> HIDE DEF G, yes, no
      <4> QED
        BY <1>2, <1>5, <2>1, <2>2, OkRule
    <3>2. -1 \in Failing
      BY DEF Failing, Rets
    <3>3. Fails(i \o m)
      <4> HIDE DEF yes
      <4> QED
        BY <2>1, <3>2 DEF Fails
    <3> QED
      BY <3>1, <3>3
  <2>4. Good(State({}, F), e \o (i \o m))
    <3> DEFINE n == i \o m
    <3>1. Good(State({}, G) \cup {Ok}, n) /\ Fails(n)
      BY <2>3
    <3> HIDE DEF n, G, e
    <3>2. Good(State({}, F), e \o n)
      BY <1>1, <3>1 DEF Yields
    <3> QED
      BY <3>2 DEF n
  <2>5. IsSeq(e) /\ IsSeq(i) /\ IsSeq(d) /\ IsSeq(k)
    BY <1>2, <1>5, <1>6
  <2> HIDE DEF e, i, d
  <2>6. Nested(e, i, d, k)
    BY <2>5, AssocFour
  <2>7. ((e \o i) \o d) \o k = e \o (i \o (d \o k))
    BY <2>6, Zenon DEF Nested
  <2> QED
    BY <2>4, <2>7 DEF m
<1>7. IsSeq(e \o i \o d)
  <2>1. IsSeq(e) /\ IsSeq(i) /\ IsSeq(d)
    BY <1>2, <1>5
  <2> HIDE DEF e, i, d
  <2> QED
    BY <2>1, JoinSeq
<1>8. H = F \cup {Fact("full", c), Fact("up", c), On(<<c, p>>), Fact("ran", c)}
  OBVIOUS
<1>9. Passes({}, F, e \o i \o d, {}, H)
  <2> HIDE DEF e, i, d, H
  <2> QED
    BY <1>4, <1>6, <1>7 DEF Passes
<1> QED
  BY <1>8, <1>9

\* Nothing is known of the components of C.
Foreign(F, C) == \A f \in F : f[2] \notin C

VideoComponents    == {"video_decode", "video_render", "video_clock", "video_scheduler"}
AudioComponents(i) == {audio_render(i), audio_clock(i)}

LEMMA SinkTunnels ==
  /\ ClockToScheduler = <<<<"video_clock", "80">>, <<"video_scheduler", "12">>>>
  /\ \A i \in AudioSinks : /\ ClockToRender(i) = <<<<audio_clock(i), "80">>, <<audio_render(i), "101">>>>
                           /\ audio_clock(i) # audio_render(i)
                           /\ AudioComponents(i) \subseteq Components
                           /\ AudioComponents(i) \cap VideoComponents = {}
  /\ AudioComponents(1) \cap AudioComponents(2) = {}
  /\ VideoComponents \subseteq Components
<1>1. /\ audio_render(1) = "audio_render" /\ audio_render(2) = "audio_render again"
      /\ audio_clock(1) = "audio_clock" /\ audio_clock(2) = "audio_clock again"
  BY DEF audio_render, audio_clock
<1>2. AudioComponents(1) = {"audio_render", "audio_clock"}
      /\ AudioComponents(2) = {"audio_render again", "audio_clock again"}
  BY <1>1 DEF AudioComponents
<1>3. /\ AudioComponents(1) \cap VideoComponents = {} /\ AudioComponents(2) \cap VideoComponents = {}
      /\ AudioComponents(1) \cap AudioComponents(2) = {}
      /\ audio_clock(1) # audio_render(1) /\ audio_clock(2) # audio_render(2)
  BY <1>1, <1>2 DEF VideoComponents
<1>4. /\ VideoComponents \subseteq Components
      /\ \A i \in AudioSinks : audio_render(i) \in Components /\ audio_clock(i) \in Components
  BY SinkParts DEF VideoComponents
<1>5. \A i \in AudioSinks : AudioComponents(i) \subseteq Components
  BY <1>4 DEF AudioComponents
<1> QED
  BY <1>3, <1>4, <1>5 DEF AudioSinks, ClockToScheduler, ClockToRender

\* The facts of a clock that is connected, and of the sink.
Clocked(t) == Tied(t) \cup {Fact("up", t[1][1]), Fact("ran", t[1][1])}
Supplied(c, p) == {Fact("full", c), Fact("up", c), On(<<c, p>>), Fact("ran", c)}

LEMMA SinkFactsAre ==
  /\ SinkFacts(5) = Clocked(ClockToScheduler) \cup Supplied("video_decode", "130")
  /\ \A i \in AudioSinks :
        SinkFacts(i + 5) = Clocked(ClockToRender(i)) \cup Supplied(audio_render(i), "100")
<1>1. /\ Tunnel(5) = ClockToScheduler /\ SinkOf(5) = "video_decode"
      /\ InputPort["video_decode"] = "130" /\ ClockOf(5) = ClockToScheduler[1][1]
  BY SinkParts DEF Tunnel, ClockOf
<1>2. ASSUME NEW i \in AudioSinks
      PROVE  /\ Tunnel(i + 5) = ClockToRender(i) /\ SinkOf(i + 5) = audio_render(i)
             /\ InputPort[audio_render(i)] = "100" /\ ClockOf(i + 5) = ClockToRender(i)[1][1]
  <2>1. i + 5 # 5 /\ (i + 5) - 5 = i
    BY DEF AudioSinks
  <2>2. InputPort[audio_render(i)] = "100"
    BY SinkParts
  <2> QED
    BY <2>1, <2>2 DEF Tunnel, ClockOf, SinkOf
<1>3. ASSUME NEW j, NEW t, NEW c, NEW p, Tunnel(j) = t, SinkOf(j) = c, InputPort[c] = p,
             ClockOf(j) = t[1][1]
      PROVE  SinkFacts(j) = Clocked(t) \cup Supplied(c, p)
  BY <1>3 DEF SinkFacts, Clocked, Tied, Supplied
<1> QED
  BY <1>1, <1>2, <1>3

\* One more component is created.
LEMMA MoreMade ==
  ASSUME NEW E, NEW x, NEW F, Passes({}, E, x, {}, F), NEW c \in Components, Foreign(F, {c})
  PROVE  /\ Passes({}, E, x \o Create(c), {}, F \cup {Fact("made", c)})
         /\ Passes({}, E, x \o Create(c) \o Setting, {}, F \cup {Fact("made", c)})
<1> DEFINE G == F \cup {Fact("made", c)}
           y == x \o Create(c)
<1>1. Passes({}, F, Create(c), {}, G)
  BY PassCreate DEF Foreign, Passes
<1> HIDE DEF G
<1>2. Passes({}, E, y, {}, G)
  BY <1>1, PassJoin
<1>3. Passes({}, G, Setting, {}, G)
  BY <1>1, PassSetting DEF Passes
<1> HIDE DEF y
<1>4. Passes({}, E, y \o Setting, {}, G)
  BY <1>2, <1>3, PassJoin
<1> QED
  BY <1>2, <1>4 DEF G, y

LEMMA MoreSetting ==
  ASSUME NEW E, NEW x, NEW F, Passes({}, E, x, {}, F)
  PROVE  Passes({}, E, x \o Setting, {}, F)
BY PassSetting, PassJoin DEF Passes

LEMMA MoreIdle ==
  ASSUME NEW E, NEW x, NEW F, Passes({}, E, x, {}, F), NEW c \in Components,
         \A f \in F : f[2] = c => f[1] \notin {"ran", "loaded"}
  PROVE  Passes({}, E, x \o ChangeState(c, "Idle"), {}, F)
BY PassChange, PassJoin DEF Passes

LEMMA AudioPasses ==
  ASSUME NEW F, Knows({}, F), NEW i \in AudioSinks, Foreign(F, AudioComponents(i))
  PROVE  Passes({}, F, sx_audio_sink_init(i), {}, F \cup SinkFacts(i + 5))
<1> DEFINE r == audio_render(i)
           c == audio_clock(i)
           t == ClockToRender(i)
           y == ChangeState(r, "Loaded") \o CleanupComponents(r) \o CleanupComponents(c)
                     \o <<Step("OMX_Deinit", None, None, None)>> \o Demand
           F1 == F \cup {Fact("made", r)}
           F2 == F1 \cup {Fact("made", c)}
           F3 == F2 \cup Clocked(t)
           F4 == F3 \cup Supplied(r, "100")
           x1 == InitCore \o Demand \o Create(r) \o Create(c) \o Setting
           x2 == x1 \o SetupTunnel(t) \o Demand \o ChangeState(c, "Executing") \o Setting
           e == EnablePortBuffers(r, "100")
           j == IfOk(ChangeState(r, "Executing") \o Return(0), y \o Return(-1))
<1>1. /\ r \in Components /\ c \in Components /\ r # c
      /\ "80" \in Ports[c] /\ "101" \in Ports[r] /\ "100" \in Ports[r]
      /\ t = <<<<c, "80">>, <<r, "101">>>>
  BY SinkParts, SinkTunnels
<1>2. Foreign(F, {r}) /\ Foreign(F, {c})
  BY DEF Foreign, AudioComponents
<1>3. Prog(All, y)
  <2>1. Prog(All, <<Step("OMX_Deinit", None, None, None)>>)
    <3>1. Plain(All, Step("OMX_Deinit", None, None, None))
      BY DEF Plain, Step
    <3> QED
      BY <3>1, ProgOne
  <2>2. Prog(All, CleanupComponents(r)) /\ Prog(All, CleanupComponents(c))
    <3>1. All.comps = Components /\ All.freed = Components
      BY DEF All, Around
    <3> QED
      BY <1>1, <3>1, ProgCleanup
  <2>3. Prog(All, ChangeState(r, "Loaded")) /\ Prog(All, Demand)
    BY <1>1, AllChange, ProgDemand
  <2> QED
    BY <2>1, <2>2, <2>3, ProgJoin
<1>4. /\ sx_audio_sink_init(i) = x2 \o ChangeState(r, "Idle") \o e \o j \o Demand \o Setting
      /\ F \cup SinkFacts(i + 5) \subseteq F4
  <2>1. sx_audio_sink_init(i) = x2 \o ChangeState(r, "Idle") \o e \o j \o Demand \o Setting
    <3>1. /\ ChangeState(r, "Loaded") \o CleanupComponents(r) \o CleanupComponents(c)
               \o <<Step("OMX_Deinit", None, None, None)>> \o Demand \o Return(-1) = y \o Return(-1)
      OBVIOUS
    <3> QED
      BY DEF sx_audio_sink_init, audioplay_create, InitCore
  <2>2. SinkFacts(i + 5) = Clocked(t) \cup Supplied(r, "100")
    BY SinkFactsAre
  <2> QED
    BY <2>1, <2>2
<1> HIDE DEF r, c, t, y
<1>5. Passes({}, F, x1, {}, F2)
  <2>1. Passes({}, F, InitCore \o Demand, {}, F)
    BY PassSetting
  <2>2. Passes({}, F, InitCore \o Demand \o Create(r), {}, F1)
    BY <1>1, <1>2, <2>1, MoreMade
  <2>3. Foreign(F1, {c})
    BY <1>1, <1>2 DEF Foreign, Fact
  <2> HIDE DEF F1
  <2> QED
    BY <1>1, <2>2, <2>3, MoreMade
<1>6. Passes({}, F, x2, {}, F3)
  <2>1. Knows({}, F2)
    BY <1>5 DEF Passes
  <2>2. t[1] = <<c, "80">> /\ t[2] = <<r, "101">>
    BY <1>1
  <2>3. \A f \in F2 : f[2] \in {c, r} => f[1] = "made"
    BY <1>2 DEF Foreign, Fact
  <2>4. Fact("made", t[1][1]) \in F2
    BY <2>2
  <2> HIDE DEF F2, x1
  <2>5. Between(t, F2)
    <3>1. \A k \in {1, 2} : t[k] = <<c, "80">> \/ t[k] = <<r, "101">>
      BY <2>2
    <3>2. \A k \in {1, 2} : /\ t[k] = <<t[k][1], t[k][2]>>
                            /\ t[k][1] \in Components /\ t[k][2] \in Ports[t[k][1]]
                            /\ t[k][1] \in {c, r}
      BY <1>1, <3>1
    <3>3. t[1][1] # t[2][1]
      BY <1>1, <2>2
    <3> QED
      BY <2>1, <2>3, <3>2, <3>3 DEF Between
  <2>6. Apart2(t, F2)
    BY <2>2, <2>3 DEF Apart2
  <2>7. Passes({}, F, x1 \o SetupTunnel(t) \o Demand \o ChangeState(t[1][1], "Executing") \o Setting,
               {}, F2 \cup (Tied(t) \cup {Fact("up", t[1][1]), Fact("ran", t[1][1])}))
    BY <1>5, <2>4, <2>5, <2>6, PassTunnel
  <2>8. t[1][1] = c
    BY <2>2
  <2> QED
    BY <2>7, <2>8 DEF Clocked
<1>7. \A f \in F3 : f[2] = r => /\ f[1] \notin {"full", "ran", "loaded"}
                                /\ ~(f[1] = "on" /\ f[3] = "100")
  <2>1. \A f \in F2 : f[2] = r => f[1] = "made"
    BY <1>1, <1>2 DEF Foreign, Fact
  <2>2. \A f \in Clocked(t) : f[2] = r => /\ f[1] \notin {"full", "ran", "loaded"}
                                          /\ ~(f[1] = "on" /\ f[3] = "100")
    BY <1>1 DEF Clocked, Tied, Meets, On, Fact
  <2> QED
    BY <2>1, <2>2
<1> HIDE DEF F3, x2
<1>8. Knows({}, F3)
  BY <1>6 DEF Passes
<1>9. Passes({}, F, x2 \o ChangeState(r, "Idle"), {}, F3)
  BY <1>1, <1>6, <1>7, MoreIdle
<1>10. Passes({}, F3, e \o j \o Demand, {}, F4) /\ IsSeq(e) /\ IsSeq(j) /\ IsSeq(Demand)
  <2>1. Passes({}, F3, e \o j \o Demand, {}, F4)
    BY <1>1, <1>3, <1>7, <1>8, PassFill DEF Supplied
  <2>2. IsSeq(e)
    BY BufferParts, OneSeq DEF If
  <2> QED
    BY <2>1, <2>2, OneSeq DEF IfOk, If, Demand
<1>11. Passes({}, F, x2 \o ChangeState(r, "Idle") \o e \o j \o Demand, {}, F4)
  <2> DEFINE x == x2 \o ChangeState(r, "Idle")
             d == Demand
             u == e \o j
  <2>1. Passes({}, F, x, {}, F3) /\ IsSeq(d)
    BY <1>9, <1>10
  <2> HIDE DEF x, e, j, d, F4
  <2>2. IsSeq(u) /\ Passes({}, F3, u \o d, {}, F4)
    BY <1>10, JoinSeq DEF d
  <2>3. Passes({}, F, x \o (u \o d), {}, F4)
    BY <2>1, <2>2, PassJoin
  <2>4. IsSeq(x)
    BY <2>1 DEF Passes
  <2>5. ((x \o e) \o j) \o d = x \o (u \o d)
    <3>1. Nested(x, e, j, d)
      BY <1>10, <2>1, <2>4, AssocFour
    <3>2. (e \o j) \o d = e \o (j \o d)
      <4>1. Joined(e, j, d)
        BY <1>10, <2>1, AssocThree
      <4> QED
        BY <4>1 DEF Joined
    <3>3. ((x \o e) \o j) \o d = x \o (e \o (j \o d))
      BY <3>1, Zenon DEF Nested
    <3> QED
      BY <3>2, <3>3
  <2> QED
    BY <2>3, <2>5 DEF x, d
<1>12. Passes({}, F, x2 \o ChangeState(r, "Idle") \o e \o j \o Demand \o Setting, {}, F4)
  <2> DEFINE x == x2 \o ChangeState(r, "Idle") \o e \o j \o Demand
  <2>1. Passes({}, F, x, {}, F4)
    BY <1>11
  <2> HIDE DEF x, F4
  <2>2. Passes({}, F, x \o Setting, {}, F4)
    BY <2>1, MoreSetting
  <2> QED
    BY <2>2 DEF x
<1>13. Passes({}, F, sx_audio_sink_init(i), {}, F4)
  BY <1>4, <1>12
<1> HIDE DEF F4
<1> QED
  BY <1>4, <1>13, PassLess

LEMMA VideoPasses ==
  ASSUME NEW F, Knows({}, F), Foreign(F, VideoComponents)
  PROVE  Passes({}, F, sx_video_sink_init, {}, F \cup SinkFacts(5))
<1> DEFINE d == "video_decode"
           r == "video_render"
           c == "video_clock"
           s == "video_scheduler"
           t == ClockToScheduler
           F1 == F \cup {Fact("made", d)}
           F2 == F1 \cup {Fact("made", r)}
           F3 == F2 \cup {Fact("made", c)}
           F4 == F3 \cup {Fact("made", s)}
           F5 == F4 \cup Clocked(t)
           F6 == F5 \cup {Fact("full", d), Fact("up", d), On(<<d, "130">>)}
           F7 == F6 \cup {Fact("ran", d)}
           x1 == InitCore \o Demand \o Create(d) \o Create(r) \o Create(c) \o Setting \o Create(s)
           x2 == x1 \o SetupTunnel(t) \o Demand \o ChangeState(c, "Executing") \o Setting
           x3 == x2 \o ChangeState(d, "Idle") \o Setting
           e == EnablePortBuffers(d, "130")
           ch == ChangeState(d, "Executing")
<1>1. /\ {d, r, c, s} \subseteq Components
      /\ d # r /\ d # c /\ d # s /\ r # c /\ r # s /\ c # s
      /\ "130" \in Ports[d] /\ "80" \in Ports[c] /\ "12" \in Ports[s]
      /\ t = <<<<c, "80">>, <<s, "12">>>>
  BY SinkParts, SinkTunnels
<1>2. \A f \in F : f[2] \notin {d, r, c, s}
  BY DEF Foreign, VideoComponents
<1>3. sx_video_sink_init = x3 \o e \o Demand \o ch
  BY DEF sx_video_sink_init, InitCore
<1>4. F \cup SinkFacts(5) \subseteq F7
  <2>1. SinkFacts(5) = Clocked(t) \cup Supplied(d, "130")
    BY SinkFactsAre
  <2> QED
    BY <2>1 DEF Supplied
<1> HIDE DEF d, r, c, s, t
<1>5. Passes({}, F, x1, {}, F4)
  <2>1. Passes({}, F, InitCore \o Demand, {}, F)
    BY PassSetting
  <2>2. Foreign(F, {d}) /\ Foreign(F1, {r}) /\ Foreign(F2, {c}) /\ Foreign(F3, {s})
    BY <1>1, <1>2 DEF Foreign, Fact
  <2>3. Passes({}, F, InitCore \o Demand \o Create(d), {}, F1)
    BY <1>1, <2>1, <2>2, MoreMade
  <2> HIDE DEF F1
  <2>4. Passes({}, F, InitCore \o Demand \o Create(d) \o Create(r), {}, F2)
    BY <1>1, <2>2, <2>3, MoreMade
  <2> HIDE DEF F2
  <2>5. Passes({}, F, InitCore \o Demand \o Create(d) \o Create(r) \o Create(c) \o Setting, {}, F3)
    BY <1>1, <2>2, <2>4, MoreMade
  <2> HIDE DEF F3
  <2> QED
    BY <1>1, <2>2, <2>5, MoreMade
<1>6. Passes({}, F, x2, {}, F5)
  <2>1. Knows({}, F4)
    BY <1>5 DEF Passes
  <2>2. t[1] = <<c, "80">> /\ t[2] = <<s, "12">>
    BY <1>1
  <2>3. \A f \in F4 : f[2] \in {c, s} => f[1] = "made"
    BY <1>2 DEF Fact
  <2>4. Fact("made", t[1][1]) \in F4
    BY <2>2
  <2> HIDE DEF F4, x1
  <2>5. Between(t, F4)
    <3>1. \A k \in {1, 2} : t[k] = <<c, "80">> \/ t[k] = <<s, "12">>
      BY <2>2
    <3>2. \A k \in {1, 2} : /\ t[k] = <<t[k][1], t[k][2]>>
                            /\ t[k][1] \in Components /\ t[k][2] \in Ports[t[k][1]]
                            /\ t[k][1] \in {c, s}
      BY <1>1, <3>1
    <3>3. t[1][1] # t[2][1]
      BY <1>1, <2>2
    <3> QED
      BY <2>1, <2>3, <3>2, <3>3 DEF Between
  <2>6. Apart2(t, F4)
    BY <2>2, <2>3 DEF Apart2
  <2>7. Passes({}, F, x1 \o SetupTunnel(t) \o Demand \o ChangeState(t[1][1], "Executing") \o Setting,
               {}, F4 \cup (Tied(t) \cup {Fact("up", t[1][1]), Fact("ran", t[1][1])}))
    BY <1>5, <2>4, <2>5, <2>6, PassTunnel
  <2>8. t[1][1] = c
    BY <2>2
  <2> QED
    BY <2>7, <2>8 DEF Clocked
<1>7. \A f \in F5 : f[2] = d => f[1] = "made"
  <2>1. \A f \in F4 : f[2] = d => f[1] = "made"
    BY <1>2 DEF Fact
  <2>2. \A f \in Clocked(t) : f[2] \in {c, s}
    BY <1>1 DEF Clocked, Tied, Meets, On, Fact
  <2> QED
    BY <1>1, <2>1, <2>2
<1> HIDE DEF F5, x2
<1>8. Passes({}, F, x3, {}, F5)
  <2> DEFINE y == x2 \o ChangeState(d, "Idle")
  <2>1. Passes({}, F, y, {}, F5)
    BY <1>1, <1>6, <1>7, MoreIdle
  <2> HIDE DEF y
  <2>2. Passes({}, F, y \o Setting, {}, F5)
    BY <2>1, MoreSetting
  <2> QED
    BY <2>2 DEF y
<1> HIDE DEF x3
<1>9. Passes({}, F, x3 \o e \o Demand, {}, F6)
  <2>1. Knows({}, F5)
    BY <1>8 DEF Passes
  <2>2. Yields({}, F5, e, {}, F6)
    BY <1>1, <1>7, <2>1, YieldBuffers
  <2>3. IsSeq(e) /\ IsSeq(Demand)
    BY <2>2, OneSeq DEF Yields, Demand
  <2> HIDE DEF e, F6
  <2>4. Passes({}, F5, e \o Demand, {}, F6)
    BY <2>2, YieldDemand
  <2> QED
    BY <1>8, <2>3, <2>4, JoinTwo
<1>10. \A f \in F6 : f[2] = d => f[1] \notin {"ran", "loaded"}
  BY <1>7 DEF Fact, On
<1> HIDE DEF F6
<1>11. Passes({}, F, x3 \o e \o Demand \o ch, {}, F7)
  <2> DEFINE y == x3 \o e \o Demand
  <2>1. Passes({}, F, y, {}, F6)
    BY <1>9
  <2> HIDE DEF y
  <2>2. Knows({}, F6)
    BY <2>1 DEF Passes
  <2>3. Passes({}, F6, ch, {}, F7)
    BY <1>1, <1>10, <2>2, PassChange
  <2> HIDE DEF ch, F7
  <2>4. Passes({}, F, y \o ch, {}, F7)
    BY <2>1, <2>3, PassJoin
  <2> QED
    BY <2>4 DEF y
<1>12. Passes({}, F, sx_video_sink_init, {}, F7)
  BY <1>3, <1>11
<1> HIDE DEF F7
<1> QED
  BY <1>4, <1>12, PassLess

\* A part is initialised.
LEMMA PassPart ==
  ASSUME NEW F, Knows({}, F), NEW part, NEW G,
         Passes({}, F \cup {Begun(part)}, Body(part), {}, G)
  PROVE  Passes({}, F, <<Step("call", None, part, None)>>, {}, G)
<1> DEFINE s == <<Step("call", None, part, None)>>
           H == F \cup {Begun(part)}
           b == Body(part)
<1>1. IsSeq(s) /\ IsSeq(b) /\ Knows({}, G)
  BY OneSeq DEF Passes
<1>2. Proper(State({}, F)) /\ State({}, H) = State({}, F) \cup {Begun(part)}
  BY StateProper DEF State
<1>3. ASSUME NEW k, IsSeq(k), Good(State({}, G), k)
      PROVE  Good(State({}, F), s \o k)
  <2>1. Good(State({}, H), b \o k)
    BY <1>3 DEF Passes
  <2>2. Good(State({}, F) \cup {Begun(part)}, Body(part) \o k)
    BY <1>2, <2>1
  <2> HIDE DEF H, b
  <2> QED
    BY <1>2, <1>3, <2>2, GoodBegin
<1> QED
  BY <1>1, <1>3 DEF Passes

------------------------------------------------------------------------------
(***************************************************************************)
(* The whole start-up: what is known when i parts have been initialised.   *)
(***************************************************************************)
Sinks(i) == {f \in SinkFacts(5) \cup SinkFacts(6) \cup SinkFacts(7) :
                \E j \in 5..7 : j <= i /\ f \in SinkFacts(j)}
Known(i) == {Begun(Parts[j]) : j \in 1..i} \cup Sinks(i)

LEMMA SinksMore ==
  ASSUME NEW i \in 1..7
  PROVE  /\ i < 5 => Sinks(i) = {}
         /\ i >= 5 => Sinks(i) = Sinks(i - 1) \cup SinkFacts(i)
         /\ Sinks(7) = SinkFacts(5) \cup SinkFacts(6) \cup SinkFacts(7)
<1>1. ASSUME NEW f
      PROVE  f \in Sinks(i) <=> \E j \in 5..7 : j <= i /\ f \in SinkFacts(j)
  <2>1. \A j \in 5..7 : j = 5 \/ j = 6 \/ j = 7
    OBVIOUS
  <2> QED
    BY <2>1 DEF Sinks
<1>2. ASSUME NEW f
      PROVE  f \in Sinks(i - 1) <=> \E j \in 5..7 : j <= i - 1 /\ f \in SinkFacts(j)
  <2>1. \A j \in 5..7 : j = 5 \/ j = 6 \/ j = 7
    OBVIOUS
  <2> QED
    BY <2>1 DEF Sinks
<1>3. \A j \in 5..7 : j <= i <=> (j <= i - 1 \/ j = i)
  OBVIOUS
<1>4. i < 5 => \A j \in 5..7 : ~(j <= i)
  OBVIOUS
<1>5. i >= 5 => i \in 5..7
  OBVIOUS
<1>6. Sinks(7) = SinkFacts(5) \cup SinkFacts(6) \cup SinkFacts(7)
  <2>1. 5 \in 5..7 /\ 5 <= 7 /\ 6 \in 5..7 /\ 6 <= 7 /\ 7 \in 5..7 /\ 7 <= 7
    OBVIOUS
  <2> QED
    BY <2>1 DEF Sinks
<1>7. i < 5 => Sinks(i) = {}
  <2> HIDE DEF Sinks
  <2> QED
    BY <1>1, <1>4
<1>8. i >= 5 => \A f : f \in Sinks(i) <=> (f \in Sinks(i - 1) \/ f \in SinkFacts(i))
  BY <1>1, <1>2, <1>3, <1>5
<1>9. i >= 5 => Sinks(i) = Sinks(i - 1) \cup SinkFacts(i)
  BY <1>8
<1> QED
  BY <1>6, <1>7, <1>9

LEMMA SinkFactsOf ==
  /\ \A f \in SinkFacts(5) : f[2] \in VideoComponents
  /\ \A i \in AudioSinks : \A f \in SinkFacts(i + 5) : f[2] \in AudioComponents(i)
<1>1. ASSUME NEW c, NEW s, NEW d, NEW p, NEW q, NEW r, NEW t, t = <<<<c, p>>, <<s, q>>>>,
             NEW f \in Clocked(t) \cup Supplied(d, r)
      PROVE  f[2] \in {c, s, d}
  <2>1. t[1] = <<c, p>> /\ t[2] = <<s, q>>
    BY <1>1
  <2> QED
    BY <1>1, <2>1 DEF Clocked, Supplied, Tied, Meets, On, Fact
<1>2. \A f \in SinkFacts(5) : f[2] \in {"video_clock", "video_scheduler", "video_decode"}
  <2>1. /\ SinkFacts(5) = Clocked(ClockToScheduler) \cup Supplied("video_decode", "130")
        /\ ClockToScheduler = <<<<"video_clock", "80">>, <<"video_scheduler", "12">>>>
    BY SinkFactsAre, SinkTunnels
  <2> QED
    BY <1>1, <2>1
<1>3. ASSUME NEW i \in AudioSinks, NEW f \in SinkFacts(i + 5)
      PROVE  f[2] \in AudioComponents(i)
  <2>1. /\ SinkFacts(i + 5) = Clocked(ClockToRender(i)) \cup Supplied(audio_render(i), "100")
        /\ ClockToRender(i) = <<<<audio_clock(i), "80">>, <<audio_render(i), "101">>>>
    BY SinkFactsAre, SinkTunnels
  <2>2. f[2] \in {audio_clock(i), audio_render(i), audio_render(i)}
    BY <1>1, <1>3, <2>1
  <2> QED
    BY <2>2 DEF AudioComponents
<1> QED
  BY <1>2, <1>3 DEF VideoComponents

LEMMA BodyPasses ==
  ASSUME NEW i \in 1..7, Knows({}, Known(i - 1))
  PROVE  Passes({}, Known(i - 1) \cup {Begun(Parts[i])}, Body(Parts[i]), {}, Known(i))
<1> DEFINE F == Known(i - 1) \cup {Begun(Parts[i])}
<1>1. /\ Parts[1] = "pipe" /\ Parts[2] = "data" /\ Parts[3] = "m2ts_decoder"
      /\ Parts[4] = "video_decoder" /\ Parts[5] = "video_scheduler"
      /\ Parts[6] = "audio_decoder" /\ Parts[7] = "audio_scheduler"
  BY DEF Parts
<1>2. i \in {1, 2, 3, 4} \/ i = 5 \/ i = 6 \/ i = 7
  OBVIOUS
<1>3. {Begun(Parts[j]) : j \in 1..i} = {Begun(Parts[j]) : j \in 1..(i - 1)} \cup {Begun(Parts[i])}
  <2>1. 1..i = 1..(i - 1) \cup {i}
    OBVIOUS
  <2> QED
    BY <2>1
<1>4. Knows({}, F)
  <2> DEFINE G == Known(i - 1)
             b == Begun(Parts[i])
  <2>1. b[1] = "begun"
    BY DEF Begun
  <2> HIDE DEF G, b
  <2>2. Knows({}, G \cup {b})
    BY <2>1 DEF Knows, Still, Orders, Apart, G
  <2> QED
    BY <2>2 DEF G, b
<1>5. ASSUME NEW f \in F
      PROVE  f[2] = None \/ f \in Sinks(i - 1)
  BY <1>5 DEF Known, Begun
<1>6. CASE i \in {1, 2, 3, 4}
  <2>1. Body(Parts[i]) = Setting \/ Body(Parts[i]) = <<>>
    <3>1. Parts[i] \in {"pipe", "data", "m2ts_decoder", "video_decoder"}
      BY <1>1, <1>6
    <3> HIDE DEF Parts
    <3> QED
      BY <3>1 DEF Body
  <2>2. Known(i) \subseteq F
    <3>1. Sinks(i) = {}
      BY <1>6, SinksMore
    <3> QED
      BY <1>3, <3>1 DEF Known
  <2> HIDE DEF F
  <2>3. Passes({}, F, Setting, {}, F) /\ Passes({}, F, <<>>, {}, F)
    BY <1>4, PassSetting, PassNothing
  <2>4. Passes({}, F, Setting, {}, Known(i)) /\ Passes({}, F, <<>>, {}, Known(i))
    BY <2>2, <2>3, PassLess
  <2> QED
    BY <2>1, <2>4 DEF F
<1>7. CASE i \in {5, 6, 7}
  <2>1. Known(i) \subseteq F \cup SinkFacts(i)
    <3>1. Sinks(i) = Sinks(i - 1) \cup SinkFacts(i)
      BY <1>7, SinksMore
    <3> QED
      BY <1>3, <3>1 DEF Known
  <2>2. Passes({}, F, Body(Parts[i]), {}, F \cup SinkFacts(i))
    <3>1. None \notin VideoComponents /\ \A j \in AudioSinks : None \notin AudioComponents(j)
      BY SinkTunnels, IlClientAssumption
    <3>2. CASE i = 5
      <4>1. Sinks(4) = {}
        BY SinksMore
      <4>2. Foreign(F, VideoComponents)
        <5>1. i - 1 = 4
          BY <3>2
        <5> QED
          BY <1>5, <3>1, <4>1, <5>1 DEF Foreign
      <4>3. Body(Parts[i]) = sx_video_sink_init
        BY <1>1, <3>2 DEF Body
      <4> HIDE DEF F
      <4> QED
        BY <1>4, <3>2, <4>2, <4>3, VideoPasses
    <3>3. CASE i \in {6, 7}
      <4> DEFINE j == i - 5
      <4>1. j \in AudioSinks /\ i = j + 5
        BY <3>3 DEF AudioSinks
      <4>2. Body(Parts[i]) = sx_audio_sink_init(j)
        <5>1. i = 6 \/ i = 7
          BY <3>3
        <5>2. i = 6 => j = 1
          OBVIOUS
        <5>3. i = 7 => j = 2
          OBVIOUS
        <5>4. i = 6 => Body(Parts[i]) = sx_audio_sink_init(1)
          BY <1>1 DEF Body
        <5>5. i = 7 => Body(Parts[i]) = sx_audio_sink_init(2)
          BY <1>1 DEF Body
        <5> QED
          BY <5>1, <5>2, <5>3, <5>4, <5>5
      <4>3. ASSUME NEW f \in Sinks(i - 1)
            PROVE  f[2] \notin AudioComponents(j)
        <5>1. f \in SinkFacts(5) \/ (i = 7 /\ f \in SinkFacts(6))
          <6>1. \A k \in 5..7 : k <= i - 1 => k = 5 \/ (k = 6 /\ i = 7)
            BY <3>3
          <6> QED
            BY <6>1 DEF Sinks
        <5>2. CASE f \in SinkFacts(5)
          <6>1. f[2] \in VideoComponents
            BY <5>2, SinkFactsOf
          <6> QED
            BY <4>1, <6>1, SinkTunnels
        <5>3. CASE i = 7 /\ f \in SinkFacts(6)
          <6>1. 1 \in AudioSinks /\ 1 + 5 = 6 /\ j = 2
            BY <5>3 DEF AudioSinks
          <6>2. f[2] \in AudioComponents(1)
            BY <5>3, <6>1, SinkFactsOf
          <6> QED
            BY <6>1, <6>2, SinkTunnels
        <5> QED
          BY <5>1, <5>2, <5>3
      <4>4. Foreign(F, AudioComponents(j))
        BY <1>5, <3>1, <4>1, <4>3 DEF Foreign
      <4> HIDE DEF F, j
      <4> QED
        BY <1>4, <4>1, <4>2, <4>4, AudioPasses
    <3> QED
      BY <1>7, <3>2, <3>3
  <2> HIDE DEF F
  <2>3. Passes({}, F, Body(Parts[i]), {}, Known(i))
    BY <2>1, <2>2, PassLess
  <2> QED
    BY <2>3 DEF F
<1> QED
  BY <1>2, <1>6, <1>7

LEMMA OpenGood ==
  ASSUME Knows({}, Known(7))
  PROVE  Good(State({}, Known(7)), Later(7))
<1> DEFINE a == State({}, Known(7))
           P == {<<a, Later(i)>> : i \in 7..16}
<1>1. Proper(a) /\ Goal \subseteq a
  <2>1. Goal \subseteq a
    <3>1. Sinks(7) = SinkFacts(5) \cup SinkFacts(6) \cup SinkFacts(7)
      BY SinksMore
    <3>2. \A part \in ToSet(Parts) : \E j \in 1..7 : part = Parts[j]
      BY CallsAre DEF ToSet
    <3>3. Quiet \subseteq a
      BY DEF Quiet, State, Idle
    <3> QED
      BY <3>1, <3>2, <3>3 DEF Goal, Known, State
  <2> QED
    BY <2>1, StateProper
<1> HIDE DEF a
<1>2. ASSUME NEW i \in 7..16
      PROVE  Fits(P, a, Later(i))
  <2>1. /\ IsSeq(Later(i)) /\ Later(16) = <<>> /\ i \in 0..16
        /\ i < 16 => /\ Later(i) # <<>> /\ i + 1 \in 7..16
                     /\ Head(Later(i)) = Calls[i + 1] /\ Tail(Later(i)) = Later(i + 1)
    <3>1. i \in 0..16 /\ (i < 16 => i + 1 \in 7..16)
      OBVIOUS
    <3> QED
      BY <3>1, LaterCalls
  <2>2. CASE i = 16
    BY <1>1, <2>1, <2>2 DEF Fits
  <2>3. CASE i < 16
    <3> DEFINE s == Head(Later(i))
               r == Tail(Later(i))
    <3>1. s = Calls[i + 1] /\ r = Later(i + 1)
      BY <2>1, <2>3
    <3>2. s.op = "open"
      <4>1. i + 1 \in 8..16
        BY <2>3
      <4>2. s = Step("open", None, Threads[(i + 1) - 7], None)
        BY <3>1, <4>1, CallsAre
      <4> QED
        BY <4>2 DEF Step
    <3>3. r = <<>> \/ Head(r).op = "open"
      <4>1. CASE i + 1 = 16
        BY <2>1, <3>1, <4>1
      <4>2. CASE i + 1 < 16
        <5> DEFINE j == i + 1
        <5>1. j \in 0..16 /\ j < 16 /\ j + 1 \in 8..16
          BY <4>2
        <5> HIDE DEF j
        <5>2. Head(Later(j)) = Calls[j + 1]
          BY <5>1, LaterCalls
        <5>3. Calls[j + 1] = Step("open", None, Threads[(j + 1) - 7], None)
          BY <5>1, CallsAre
        <5>4. Head(Later(j)).op = "open"
          BY <5>2, <5>3 DEF Step
        <5> QED
          BY <3>1, <5>4 DEF j
      <4>3. i + 1 = 16 \/ i + 1 < 16
        BY <2>3
      <4> QED
        BY <4>1, <4>2, <4>3
    <3>4. \E b \in SUBSET a : <<b, r>> \in P
      BY <2>1, <2>3, <3>1
    <3> HIDE DEF P, s, r
    <3>5. FitsStep(P, a, s, r)
      BY <1>1, <3>2, <3>3, <3>4 DEF FitsStep
    <3> QED
      BY <2>1, <2>3, <3>5 DEF Fits, s, r
  <2> QED
    BY <2>2, <2>3
<1>3. Sound(P)
  BY <1>1, <1>2 DEF Sound
<1>4. Goes(P, a, Later(7))
  <2>1. <<a, Later(7)>> \in P
    OBVIOUS
  <2> HIDE DEF P
  <2> QED
    BY <2>1 DEF Goes
<1> QED
  BY <1>3, <1>4 DEF Good, a

LEMMA HeadFirst ==
  ASSUME NEW l, IsSeq(l), l # <<>>
  PROVE  l = <<Head(l)>> \o Tail(l)
<1>0. PICK h, m : h = Head(l) /\ m = <<h>> \o Tail(l)
  OBVIOUS
<1>1. PICK S : l \in Seq(S)
  BY DEF IsSeq
<1>2. /\ h = l[1] /\ h \in S /\ Tail(l) \in Seq(S) /\ Len(l) \in Nat \ {0}
      /\ Len(Tail(l)) = Len(l) - 1
      /\ \A i \in 1..Len(Tail(l)) : Tail(l)[i] = l[i + 1]
  <2>1. Len(l) \in Nat /\ Len(l) # 0 /\ h = Head(l)
    BY <1>0, <1>1, LenProperties, EmptySeq
  <2>2. 1 \in 1..Len(l)
    BY <2>1
  <2> QED
    BY <1>1, <2>1, <2>2, HeadTail, ElementOfSeq
<1>3. <<h>> \in Seq(S) /\ Len(<<h>>) = 1 /\ <<h>>[1] = h
  BY <1>2
<1>4. /\ m \in Seq(S) /\ Len(m) = Len(l) /\ m[1] = h
      /\ \A i \in 1..Len(Tail(l)) : m[1 + i] = Tail(l)[i]
  BY <1>0, <1>2, <1>3, ConcatProperties
<1>5. ASSUME NEW i \in 1..Len(l)
      PROVE  m[i] = l[i]
  <2>1. CASE i = 1
    BY <1>2, <1>4, <2>1
  <2>2. CASE i # 1
    <3>1. i - 1 \in 1..Len(Tail(l)) /\ 1 + (i - 1) = i /\ (i - 1) + 1 = i
      BY <1>2, <2>2
    <3> QED
      BY <1>2, <1>4, <3>1
  <2> QED
    BY <2>1, <2>2
<1>6. l = m
  BY <1>1, <1>4, <1>5, SeqEqual
<1> QED
  BY <1>0, <1>6

\* From the first step of the program all places are known.
LEMMA StartGood == Good(Quiet, Calls)
<1>1. ASSUME NEW i \in 1..7, Knows({}, Known(i - 1))
      PROVE  /\ Knows({}, Known(i))
             /\ Good(State({}, Known(i)), Later(i)) => Good(State({}, Known(i - 1)), Later(i - 1))
  <2>1. Passes({}, Known(i - 1), <<Step("call", None, Parts[i], None)>>, {}, Known(i))
    BY <1>1, BodyPasses, PassPart
  <2>2. /\ IsSeq(Later(i)) /\ IsSeq(Later(i - 1)) /\ Later(i - 1) # <<>>
        /\ Head(Later(i - 1)) = Calls[i] /\ Tail(Later(i - 1)) = Later(i)
    <3> DEFINE j == i - 1
    <3>1. j \in 0..16 /\ j < 16 /\ j + 1 = i /\ i \in 0..16
      OBVIOUS
    <3> HIDE DEF j
    <3> QED
      BY <3>1, LaterCalls DEF j
  <2>3. Calls[i] = Step("call", None, Parts[i], None)
    BY CallsAre
  <2>4. Later(i - 1) = <<Head(Later(i - 1))>> \o Tail(Later(i - 1))
    <3> DEFINE l == Later(i - 1)
    <3>1. IsSeq(l) /\ l # <<>>
      BY <2>2
    <3> HIDE DEF l
    <3>2. l = <<Head(l)>> \o Tail(l)
      BY <3>1, HeadFirst
    <3> QED
      BY <3>2 DEF l
  <2> QED
    BY <2>1, <2>2, <2>3, <2>4 DEF Passes
<1>2. Known(0) = {}
  BY DEF Known, Sinks
<1>3. Knows({}, Known(0))
  BY <1>2 DEF Knows, Still, Orders, Apart
<1>4. /\ Knows({}, Known(1))
      /\ Good(State({}, Known(1)), Later(1)) => Good(State({}, Known(0)), Later(0))
  BY <1>1, <1>3
<1>5. /\ Knows({}, Known(2))
      /\ Good(State({}, Known(2)), Later(2)) => Good(State({}, Known(1)), Later(1))
  BY <1>1, <1>4
<1>6. /\ Knows({}, Known(3))
      /\ Good(State({}, Known(3)), Later(3)) => Good(State({}, Known(2)), Later(2))
  BY <1>1, <1>5
<1>7. /\ Knows({}, Known(4))
      /\ Good(State({}, Known(4)), Later(4)) => Good(State({}, Known(3)), Later(3))
  BY <1>1, <1>6
<1>8. /\ Knows({}, Known(5))
      /\ Good(State({}, Known(5)), Later(5)) => Good(State({}, Known(4)), Later(4))
  BY <1>1, <1>7
<1>9. /\ Knows({}, Known(6))
      /\ Good(State({}, Known(6)), Later(6)) => Good(State({}, Known(5)), Later(5))
  BY <1>1, <1>8
<1>10. /\ Knows({}, Known(7))
       /\ Good(State({}, Known(7)), Later(7)) => Good(State({}, Known(6)), Later(6))
  BY <1>1, <1>9
<1>11. Good(State({}, Known(0)), Later(0))
  BY <1>4, <1>5, <1>6, <1>7, <1>8, <1>9, <1>10, OpenGood
<1>12. State({}, Known(0)) = Quiet
  BY <1>2 DEF State, Idle, Quiet
<1> QED
  BY <1>11, <1>12, LaterCalls

------------------------------------------------------------------------------
(***************************************************************************)
(* After the start-up.  The video scheduler thread sets up one more        *)
(* tunnel, and its failure does not undo everything: what it may ask of    *)
(* the two components at its ends takes away nothing of what was known but *)
(* that these are at rest.                                                 *)
(***************************************************************************)
Late ==
    [comps  |-> {"video_decode", "video_scheduler"}, freed |-> {},
     orders |-> {<<"video_decode", "PortEnable", "131">>, <<"video_decode", "PortDisable", "131">>,
                 <<"video_scheduler", "PortEnable", "10">>,
                 <<"video_scheduler", "PortDisable", "10">>,
                 <<"video_scheduler", "StateSet", "Idle">>},
     ports  |-> {<<"video_decode", "131">>, <<"video_scheduler", "10">>}]
Within ==
    \A c \in Late.comps : \A i \in 1..Len(cmds[c]) :
        <<c, cmds[c][i].cmd, cmds[c][i].x>> \in Late.orders
Lasting == {f \in Goal : f[1] = "rest" => f[2] \notin Late.comps}
Rested  == \A f \in Goal : Holds(f)
Served  == \A f \in Lasting : Holds(f)

LEMMA LateIs == IsScope(Late) /\ Late.freed = {} /\ Prog(Late, Connecting(DecodeToScheduler))
<1>1. IsScope(Late)
  BY SinkParts DEF IsScope, Late, Order, PortPairs
<1>2. HasTunnel(Late, DecodeToScheduler)
  BY DEF HasTunnel, Late, DecodeToScheduler
<1> QED
  BY <1>1, <1>2, ProgConnecting DEF Late

\* What may last is not about what the thread asks for.
Lasts(f) ==
    /\ f[1] \in {"rest", "begun", "peer", "on", "full", "up", "ran"}
    /\ f[1] = "rest" => f[2] \in Components \ Late.comps
    /\ f[1] = "peer" => <<f[2], f[3]>> \in PortPairs \ Late.ports
    /\ f[1] = "on" => /\ f[2] \in Components
                      /\ \A cmd \in {"PortEnable", "PortDisable"} :
                            <<f[2], cmd, f[3]>> \notin Late.orders
    /\ f[1] \in {"full", "up", "ran"} =>
           /\ f[2] \in Components
           /\ \A x : <<f[2], "StateSet", x>> \notin Late.orders

LEMMA LastingKinds == \A f \in Lasting : Lasts(f)
<1> SUFFICES ASSUME NEW f \in Lasting
             PROVE  Lasts(f)
  OBVIOUS
<1>1. CASE f \in Quiet
  BY <1>1 DEF Quiet, Resting, Fact, Lasts, Lasting
<1>2. CASE f \in {Begun(part) : part \in ToSet(Parts)}
  BY <1>2 DEF Begun, Lasts
<1>3. CASE f \in SinkFacts(5)
  <2>1. f \in Clocked(ClockToScheduler) \cup Supplied("video_decode", "130")
    BY <1>3, SinkFactsAre
  <2> QED
    BY <2>1, SinkParts DEF Clocked, Supplied, Tied, ClockToScheduler, Meets, On, Fact, Lasts, Late,
       PortPairs
<1>4. ASSUME NEW i \in AudioSinks, f \in SinkFacts(i + 5)
      PROVE  Lasts(f)
  <2> DEFINE r == audio_render(i)
             c == audio_clock(i)
             t == <<<<c, "80">>, <<r, "101">>>>
  <2>1. f \in Clocked(t) \cup Supplied(r, "100")
    BY <1>4, SinkFactsAre, SinkTunnels
  <2>2. /\ c \in Components /\ r \in Components
        /\ "80" \in Ports[c] /\ {"100", "101"} \subseteq Ports[r]
        /\ c \notin {"video_decode", "video_scheduler"}
        /\ r \notin {"video_decode", "video_scheduler"}
    BY SinkParts, SinkTunnels DEF AudioComponents, VideoComponents
  <2> HIDE DEF r, c
  <2> QED
    BY <2>1, <2>2 DEF Clocked, Supplied, Tied, Meets, On, Fact, Lasts, Late, PortPairs
<1>5. SinkFacts(6) = SinkFacts(1 + 5) /\ SinkFacts(7) = SinkFacts(2 + 5)
  OBVIOUS
<1>6. f \in SinkFacts(6) => Lasts(f)
  BY <1>4, <1>5 DEF AudioSinks
<1>7. f \in SinkFacts(7) => Lasts(f)
  BY <1>4, <1>5 DEF AudioSinks
<1> QED
  BY <1>1, <1>2, <1>3, <1>6, <1>7 DEF Lasting, Goal

\* A step of the thread within that scope: it gives orders, and none but these.
LEMMA LateStep ==
  ASSUME Typed, Main, Plain(Late, Head(todo)) \/ Head(todo).op = "if"
  PROVE  /\ UNCHANGED <<cstate, in_list>>
         /\ \/ UNCHANGED <<enabled, cmds>>
            \/ \E o \in Late.orders :
                  /\ \A p : <<p[1], "PortDisable", p[2]>> # o /\ p \in enabled => p \in enabled'
                  /\ \E k : /\ k.cmd = o[2] /\ k.x = o[3]
                            /\ cmds' = [cmds EXCEPT ![o[1]] = Append(@, k)]
<1> DEFINE s == Head(todo)
<1>1. Late.freed = {}
  BY LateIs
<1>2. CASE s.op \in {"if", "return", "assert", "blocked", "mask", "relate"}
  BY <1>2, Dispatch DEF Branch, ReturnValue, CheckResult, Woken, MaskErrors, Relate, components,
     library
<1>3. CASE s.op \in {"configure", "OMX_Deinit", "return events", "OMX_SetupTunnel"}
  BY <1>3, Dispatch DEF Configure, OMX_Deinit, ilclient_return_events, OMX_SetupTunnel, components,
     library
<1>4. CASE s.op \in {"await", "expect", "remove"}
  <2>1. HeadOK
    BY LateIs, PlainAll DEF HeadOK, Special
  <2> QED
    BY <1>4, <2>1, SearchStep DEF components
<1>5. CASE s.op = "send"
  <2>1. SendCommand /\ <<s.c, s.a, s.x>> \in Late.orders
    BY <1>5, Dispatch DEF Plain
  <2> DEFINE o == <<s.c, s.a, s.x>>
             k == [cmd |-> s.a, x |-> s.x,
                   same |-> s.a = "PortDisable" /\ <<s.c, s.x>> \notin enabled]
  <2>2. /\ UNCHANGED <<cstate, in_list>>
        /\ enabled' = CASE s.a = "PortEnable"  -> enabled \cup {<<s.c, s.x>>}
                        [] s.a = "PortDisable" -> enabled \ {<<s.c, s.x>>}
                        [] OTHER               -> enabled
        /\ cmds' = [cmds EXCEPT ![s.c] = Append(@, k)]
    BY <2>1 DEF SendCommand, library
  <2>3. /\ s.a = "PortDisable" => enabled' = enabled \ {<<s.c, s.x>>}
        /\ s.a # "PortDisable" => enabled \subseteq enabled'
    BY <2>2
  <2>4. \A p : <<p[1], "PortDisable", p[2]>> # o /\ p \in enabled => p \in enabled'
    BY <2>3
  <2>5. k.cmd = o[2] /\ k.x = o[3] /\ cmds' = [cmds EXCEPT ![o[1]] = Append(@, k)]
    BY <2>2
  <2> HIDE DEF k, o
  <2> QED
    BY <2>1, <2>2, <2>4, <2>5 DEF o
<1> QED
  BY <1>1, <1>2, <1>3, <1>4, <1>5 DEF Plain

LEMMA ServedStep ==
  ASSUME Typed, Main, Plain(Late, Head(todo)) \/ Head(todo).op = "if", Served, Within
  PROVE  Served' /\ Within'
<1>1. Frame(Late)
  BY LateIs, FrameStep
<1>2. /\ UNCHANGED <<cstate, in_list>>
      /\ \/ UNCHANGED <<enabled, cmds>>
         \/ \E o \in Late.orders :
               /\ \A p : <<p[1], "PortDisable", p[2]>> # o /\ p \in enabled => p \in enabled'
               /\ \E k : /\ k.cmd = o[2] /\ k.x = o[3]
                         /\ cmds' = [cmds EXCEPT ![o[1]] = Append(@, k)]
  BY LateStep
<1>3. faults \in Nat /\ faults' \in Nat /\ faults' >= faults
  <2>1. HeadOK
    BY LateIs, PlainAll DEF HeadOK, Special
  <2>2. Typed'
    BY <2>1, MainTyped
  <2>3. \A m : m \in 0..MaxFaults => m \in Nat
    BY IlClientAssumption
  <2> QED
    BY <1>1, <2>2, <2>3 DEF Frame, Typed, TypedComponents
<1>4. Served'
  <2>1. ASSUME NEW f \in Lasting
        PROVE  Holds(f)'
    <3>1. Lasts(f) /\ Holds(f)
      BY LastingKinds DEF Served
    <3>2. /\ initialised' = initialised
          /\ f[1] = "peer" => peer'[<<f[2], f[3]>>] = peer[<<f[2], f[3]>>]
          /\ f[1] = "rest" => Untouched(f[2])
      BY <1>1, <3>1 DEF Lasts, Frame, Outside, program
    <3>3. f[1] = "on" => (<<f[2], f[3]>> \in enabled => <<f[2], f[3]>> \in enabled')
      <4>1. f[1] = "on" => \A o \in Late.orders : <<f[2], "PortDisable", f[3]>> # o
        BY <3>1 DEF Lasts
      <4> DEFINE p == <<f[2], f[3]>>
      <4>2. p[1] = f[2] /\ p[2] = f[3]
        OBVIOUS
      <4> HIDE DEF p
      <4>3. f[1] = "on" => (p \in enabled => p \in enabled')
        BY <1>2, <4>1, <4>2
      <4> QED
        BY <4>3 DEF p
    <3>4. f[1] \notin {"ok", "bad", "asked", "made", "loaded", "masked"}
      BY <3>1 DEF Lasts
    <3> QED
      BY <1>2, <1>3, <3>1, <3>2, <3>3, <3>4, FactKept
  <2> QED
    BY <2>1 DEF Served
<1>5. Within'
  <2>1. CASE UNCHANGED cmds
    BY <2>1 DEF Within
  <2>2. CASE \E o \in Late.orders : \E k : /\ k.cmd = o[2] /\ k.x = o[3]
                                           /\ cmds' = [cmds EXCEPT ![o[1]] = Append(@, k)]
    <3>1. PICK o \in Late.orders : \E k : /\ k.cmd = o[2] /\ k.x = o[3]
                                          /\ cmds' = [cmds EXCEPT ![o[1]] = Append(@, k)]
      BY <2>2
    <3>2. PICK k : /\ k.cmd = o[2] /\ k.x = o[3]
                   /\ cmds' = [cmds EXCEPT ![o[1]] = Append(@, k)]
      BY <3>1
    <3>3. o = <<o[1], o[2], o[3]>>
      BY <3>1 DEF Late
    <3>4. ASSUME NEW c \in Late.comps
          PROVE  \A i \in 1..Len(cmds'[c]) : <<c, cmds'[c][i].cmd, cmds'[c][i].x>> \in Late.orders
      <4>1. c \in Components
        BY LateIs DEF IsScope
      <4>2. cmds = [d \in Components |-> cmds[d]] /\ cmds[c] \in Seq(Command(c))
        BY <4>1 DEF Typed, TypedComponents
      <4>3. cmds'[c] = IF c = o[1] THEN Append(cmds[c], k) ELSE cmds[c]
        BY <3>2, <4>1, <4>2
      <4>4. \A i \in 1..Len(cmds[c]) : <<c, cmds[c][i].cmd, cmds[c][i].x>> \in Late.orders
        BY DEF Within
      <4>5. CASE c = o[1]
        <5> DEFINE q == cmds[c]
        <5>1. q \in Seq(Command(c)) /\ Len(q) \in Nat
          BY <4>2, LenProperties
        <5>2. /\ Len(Append(q, k)) = Len(q) + 1 /\ Append(q, k)[Len(q) + 1] = k
              /\ \A i \in 1..Len(q) : Append(q, k)[i] = q[i]
          <6>1. q \in Seq(Command(c) \cup {k}) /\ k \in Command(c) \cup {k}
            BY <5>1, SeqMono
          <6> HIDE DEF q
          <6> QED
            BY <6>1, AppendProperties
        <5>3. cmds'[c] = Append(q, k)
          BY <4>3, <4>5
        <5> HIDE DEF q
        <5>4. \A i \in 1..Len(q) : <<c, q[i].cmd, q[i].x>> \in Late.orders
          BY <4>4 DEF q
        <5>5. <<c, k.cmd, k.x>> \in Late.orders
          BY <3>2, <3>3, <4>5
        <5>6. ASSUME NEW i \in 1..Len(Append(q, k))
              PROVE  <<c, Append(q, k)[i].cmd, Append(q, k)[i].x>> \in Late.orders
          <6>1. i \in 1..Len(q) \/ i = Len(q) + 1
            BY <5>1, <5>2
          <6> QED
            BY <5>2, <5>4, <5>5, <6>1
        <5> QED
          BY <5>3, <5>6
      <4>6. CASE c # o[1]
        BY <4>3, <4>4, <4>6
      <4> QED
        BY <4>5, <4>6
    <3> QED
      BY <3>4 DEF Within
  <2> QED
    BY <1>2, <2>1, <2>2
<1> QED
  BY <1>4, <1>5

\* What a component does that has been told only some things.
LEMMA OrdersLeft ==
  ASSUME Typed, NEW c \in Components, Works(c),
         NEW W, \A i \in 1..Len(cmds[c]) : <<c, cmds[c][i].cmd, cmds[c][i].x>> \in W
  PROVE  /\ (\A x : <<c, "StateSet", x>> \notin W) => cstate'[c] = cstate[c]
         /\ \A p : <<c, "PortEnable", p>> \notin W => (<<c, p>> \in enabled => <<c, p>> \in enabled')
         /\ \A i \in 1..Len(cmds'[c]) : <<c, cmds'[c][i].cmd, cmds'[c][i].x>> \in W
<1>1. /\ cmds[c] \in Seq(Command(c)) /\ cmds = [e \in Components |-> cmds[e]]
      /\ cstate \in [Components -> States]
  BY DEF Typed, TypedComponents
<1>2. CASE Report(c)
  BY <1>2 DEF Report
<1>3. CASE Serve(c)
  <2> DEFINE k == Head(cmds[c])
             r == Tail(cmds[c])
  <2>1. cmds[c] # <<>> /\ k = cmds[c][1] /\ Len(cmds[c]) \in Nat \ {0}
    <3>1. cmds[c] # <<>>
      BY <1>3 DEF Serve
    <3> QED
      BY <1>1, <3>1, HeadTail, EmptySeq, LenProperties
  <2>2. /\ Len(r) = Len(cmds[c]) - 1
        /\ \A i \in 1..Len(r) : r[i] = cmds[c][i + 1]
    BY <1>1, <2>1, HeadTail
  <2>3. <<c, k.cmd, k.x>> \in W
    <3>1. 1 \in 1..Len(cmds[c])
      BY <2>1
    <3>2. <<c, cmds[c][1].cmd, cmds[c][1].x>> \in W
      BY <3>1
    <3> HIDE DEF k
    <3>3. k = cmds[c][1]
      BY <2>1
    <3> QED
      BY <3>2, <3>3
  <2>4. \A ev : Answers(c, ev) => cmds'[c] = r
    BY <1>1 DEF Answers
  <2>5. /\ cmds'[c] = r
        /\ cstate' = cstate \/ (k.cmd = "StateSet" /\ cstate' = [cstate EXCEPT ![c] = k.x])
        /\ enabled' = enabled \/ (k.cmd = "PortEnable" /\ enabled' = enabled \ {<<c, k.x>>})
    BY <1>3, <2>4 DEF Serve, Carry, Reject, Cancel, Refuse
  <2>6. \A i \in 1..Len(r) : <<c, r[i].cmd, r[i].x>> \in W
    <3> TAKE i \in 1..Len(r)
    <3>1. i + 1 \in 1..Len(cmds[c]) /\ r[i] = cmds[c][i + 1]
      BY <2>1, <2>2
    <3> QED
      BY <3>1
  <2> HIDE DEF k, r
  <2>7. (\A x : <<c, "StateSet", x>> \notin W) => cstate'[c] = cstate[c]
    BY <2>3, <2>5
  <2>8. \A p : <<c, "PortEnable", p>> \notin W => (<<c, p>> \in enabled => <<c, p>> \in enabled')
    BY <2>3, <2>5
  <2> QED
    BY <2>5, <2>6, <2>7, <2>8
<1> QED
  BY <1>2, <1>3 DEF Works

LEMMA ServedWorks ==
  ASSUME Typed, NEW d \in Components, Works(d), UNCHANGED program, Served, Within
  PROVE  Served' /\ Within'
<1>1. /\ UNCHANGED <<ret, error_mask, in_list, peer, initialised>>
      /\ faults \in Nat /\ faults' \in Nat /\ faults' >= faults
      /\ \A c \in Components : c # d => Untouched(c)
  BY OthersStill DEF thread, program
<1>2. Late.comps \subseteq Components
  BY LateIs DEF IsScope
<1>3. d \notin Late.comps => Rest(d)
  <2>1. d \notin Late.comps => Resting(d) \in Lasting
    BY DEF Lasting, Goal, Quiet, Resting, Fact
  <2> QED
    BY <2>1 DEF Served, Holds, Resting, Fact
<1>4. d \notin Late.comps => /\ Rest(d)' /\ cstate'[d] = cstate[d]
                             /\ \A p : <<d, p>> \in enabled' <=> <<d, p>> \in enabled
  BY <1>3, RestStable
<1>5. d \in Late.comps =>
        /\ (\A x : <<d, "StateSet", x>> \notin Late.orders) => cstate'[d] = cstate[d]
        /\ \A p : <<d, "PortEnable", p>> \notin Late.orders =>
                      (<<d, p>> \in enabled => <<d, p>> \in enabled')
        /\ \A i \in 1..Len(cmds'[d]) : <<d, cmds'[d][i].cmd, cmds'[d][i].x>> \in Late.orders
  BY OrdersLeft DEF Within
<1>6. Served'
  <2>1. ASSUME NEW f \in Lasting
        PROVE  Holds(f)'
    <3>1. Lasts(f) /\ Holds(f)
      BY LastingKinds DEF Served
    <3>2. f[1] \notin {"ok", "bad", "asked", "made", "loaded", "masked"}
      BY <3>1 DEF Lasts
    <3>3. CASE f[1] = "rest"
      <4>1. f[2] \in Components /\ f[2] \notin Late.comps
        BY <3>1, <3>3 DEF Lasts
      <4>2. f[2] = d => Rest(f[2])'
        BY <1>4, <4>1
      <4>3. f[2] # d => Untouched(f[2])
        BY <1>1, <4>1
      <4>4. CASE f[2] = d
        BY <3>3, <4>2, <4>4 DEF Holds
      <4>5. CASE f[2] # d
        BY <1>1, <3>1, <3>3, <4>3, <4>5, FactKept
      <4> QED
        BY <4>4, <4>5
    <3>4. CASE f[1] # "rest"
      <4>1. f[1] \in {"up", "ran"} => cstate'[f[2]] = cstate[f[2]]
        BY <1>1, <1>4, <1>5, <3>1 DEF Lasts, Untouched
      <4>2. f[1] = "on" => (<<f[2], f[3]>> \in enabled => <<f[2], f[3]>> \in enabled')
        BY <1>1, <1>4, <1>5, <3>1 DEF Lasts, Untouched
      <4> QED
        BY <1>1, <3>1, <3>2, <3>4, <4>1, <4>2, FactKept
    <3> QED
      BY <3>3, <3>4
  <2> QED
    BY <2>1 DEF Served
<1>7. Within'
  <2>1. ASSUME NEW c \in Late.comps
        PROVE  \A i \in 1..Len(cmds'[c]) : <<c, cmds'[c][i].cmd, cmds'[c][i].x>> \in Late.orders
    BY <1>1, <1>2, <1>5, <2>1 DEF Within, Untouched
  <2> QED
    BY <2>1 DEF Within
<1> QED
  BY <1>6, <1>7

------------------------------------------------------------------------------
(***************************************************************************)
(* What is known once the first thread exists is what UpWhenOpen says.     *)
(***************************************************************************)
LEMMA FactsUp ==
  ASSUME NEW t, \A i \in {1, 2} : t[i] = <<t[i][1], t[i][2]>>, NEW c, NEW p,
         \A f \in Clocked(t) \cup Supplied(c, p) : Holds(f)
  PROVE  /\ Connected(t) /\ <<c, p>> \in enabled /\ in_list[c] = NumBufs
         /\ \A d \in {c, t[1][1]} : /\ cstate[d] \in {"Idle", "Executing"}
                                    /\ faults = 0 => cstate[d] = "Executing"
<1>1. /\ Holds(Meets(t[1], t[2])) /\ Holds(Meets(t[2], t[1])) /\ Holds(On(t[1])) /\ Holds(On(t[2]))
      /\ Holds(Fact("up", t[1][1])) /\ Holds(Fact("ran", t[1][1]))
      /\ Holds(Fact("full", c)) /\ Holds(Fact("up", c)) /\ Holds(On(<<c, p>>)) /\ Holds(Fact("ran", c))
  BY DEF Clocked, Tied, Supplied
<1>2. Connected(t)
  <2>1. /\ peer[<<t[1][1], t[1][2]>>] = t[2] /\ peer[<<t[2][1], t[2][2]>>] = t[1]
        /\ <<t[1][1], t[1][2]>> \in enabled /\ <<t[2][1], t[2][2]>> \in enabled
    BY <1>1 DEF Holds, Meets, On
  <2> QED
    BY <2>1 DEF Connected
<1>3. <<c, p>> \in enabled /\ in_list[c] = NumBufs
  BY <1>1 DEF Holds, On, Fact
<1>4. \A d \in {c, t[1][1]} : /\ cstate[d] \in {"Idle", "Executing"}
                              /\ faults = 0 => cstate[d] = "Executing"
  BY <1>1 DEF Holds, Fact
<1> QED
  BY <1>2, <1>3, <1>4

LEMMA ServedUp ==
  ASSUME Typed, Served, port_setting_changed \/ \A c \in Components : Rest(c)
  PROVE  UpWhenOpen
<1>1. initialised = ToSet(Parts)
  <2>1. initialised \subseteq ToSet(Parts)
    BY DEF Typed, TypedProgram
  <2>2. \A part \in ToSet(Parts) : Begun(part) \in Lasting
    BY DEF Lasting, Goal, Begun
  <2>3. \A part \in ToSet(Parts) : part \in initialised
    BY <2>2 DEF Served, Holds, Begun
  <2> QED
    BY <2>1, <2>3
<1>2. ASSUME NEW t, NEW c, NEW p, Clocked(t) \cup Supplied(c, p) \subseteq Goal
      PROVE  \A f \in Clocked(t) \cup Supplied(c, p) : Holds(f)
  <2>1. \A f \in Clocked(t) \cup Supplied(c, p) : f[1] # "rest"
    BY DEF Clocked, Tied, Supplied, Meets, On, Fact
  <2> QED
    BY <1>2, <2>1 DEF Served, Lasting
<1>3. /\ Connected(ClockToScheduler)
      /\ <<"video_decode", "130">> \in enabled /\ in_list["video_decode"] = NumBufs
      /\ \A d \in {"video_decode", "video_clock"} :
            /\ cstate[d] \in {"Idle", "Executing"}
            /\ faults = 0 => cstate[d] = "Executing"
  <2>1. Clocked(ClockToScheduler) \cup Supplied("video_decode", "130") \subseteq Goal
    BY SinkFactsAre DEF Goal
  <2>2. /\ \A i \in {1, 2} : ClockToScheduler[i] = <<ClockToScheduler[i][1], ClockToScheduler[i][2]>>
        /\ ClockToScheduler[1][1] = "video_clock"
    BY DEF ClockToScheduler
  <2> QED
    BY <1>2, <2>1, <2>2, FactsUp
<1>4. ASSUME NEW i \in AudioSinks
      PROVE  /\ Connected(ClockToRender(i))
             /\ <<audio_render(i), "100">> \in enabled /\ in_list[audio_render(i)] = NumBufs
             /\ \A d \in {audio_render(i), audio_clock(i)} :
                   /\ cstate[d] \in {"Idle", "Executing"}
                   /\ faults = 0 => cstate[d] = "Executing"
  <2> DEFINE t == ClockToRender(i)
             r == audio_render(i)
             c == audio_clock(i)
  <2>1. Clocked(t) \cup Supplied(r, "100") \subseteq Goal
    <3>1. SinkFacts(i + 5) \subseteq Goal
      BY DEF AudioSinks, Goal
    <3> QED
      BY <3>1, SinkFactsAre
  <2>2. t = <<<<c, "80">>, <<r, "101">>>>
    BY SinkTunnels
  <2> HIDE DEF r, c, t
  <2>3. (\A j \in {1, 2} : t[j] = <<t[j][1], t[j][2]>>) /\ t[1][1] = c
    BY <2>2
  <2>4. /\ Connected(t) /\ <<r, "100">> \in enabled /\ in_list[r] = NumBufs
        /\ \A d \in {r, t[1][1]} : /\ cstate[d] \in {"Idle", "Executing"}
                                   /\ faults = 0 => cstate[d] = "Executing"
    BY <1>2, <2>1, <2>3, FactsUp
  <2> QED
    BY <2>3, <2>4 DEF r, c, t
<1>5. \A i \in AudioSinks : InputPort[audio_render(i)] = "100"
  BY SinkParts
<1>6. InputPort["video_decode"] = "130"
  BY SinkParts
<1> DEFINE clocks == {"video_clock"} \cup {audio_clock(i) : i \in AudioSinks}
           sinks == {"video_decode"} \cup {audio_render(i) : i \in AudioSinks}
<1>7. \A c \in sinks : <<c, InputPort[c]>> \in enabled /\ in_list[c] = NumBufs
  BY <1>3, <1>4, <1>5, <1>6
<1>8. \A c \in clocks \cup sinks : /\ cstate[c] \in {"Idle", "Executing"}
                                   /\ faults = 0 => cstate[c] = "Executing"
  BY <1>3, <1>4
<1>9. \A c \in clocks \cup sinks : ~port_setting_changed => cmds[c] = <<>>
  <2>1. clocks \cup sinks \subseteq Components
    BY SinkParts
  <2> QED
    BY <2>1 DEF Rest
<1> QED
  BY <1>1, <1>3, <1>4, <1>7, <1>8, <1>9 DEF UpWhenOpen

LEMMA RestedUp ==
  ASSUME Typed, Rested
  PROVE  /\ Served /\ Within /\ UpWhenOpen
         /\ \A c \in Components : Rest(c)
<1>1. Served
  BY DEF Rested, Served, Lasting
<1>2. \A c \in Components : Rest(c)
  <2>1. \A c \in Components : Resting(c) \in Goal
    BY DEF Goal, Quiet
  <2> QED
    BY <2>1 DEF Rested, Holds, Resting, Fact
<1>3. Within
  <2>1. ASSUME NEW c \in Late.comps
        PROVE  \A i \in 1..Len(cmds[c]) : <<c, cmds[c][i].cmd, cmds[c][i].x>> \in Late.orders
    <3>1. cmds[c] = <<>>
      BY <1>2, LateIs DEF IsScope, Rest
    <3>2. Len(cmds[c]) = 0
      BY <3>1
    <3> QED
      BY <3>2
  <2> QED
    BY <2>1 DEF Within
<1> QED
  BY <1>1, <1>2, <1>3, ServedUp

LEMMA GoalIs == Proper(Goal) /\ Mute(Goal) = Goal
<1>1. \A f \in Goal : f[1] \notin {"ok", "bad"}
  <2>1. \A f \in Goal : f[1] = "rest" \/ f \in Lasting
    BY DEF Lasting
  <2> QED
    BY <2>1, LastingKinds DEF Lasts
<1>2. Mute(Goal) = Goal
  BY <1>1 DEF Mute
<1>3. \A f \in Goal : f[1] = "rest" => f[2] \in Components
  <2>1. ASSUME NEW f \in Goal, f[1] = "rest"
        PROVE  f[2] \in Components
    <3>1. CASE f \in Quiet
      BY <3>1 DEF Quiet, Resting, Fact
    <3>2. CASE f \notin Quiet
      <4>1. f \in {Begun(part) : part \in ToSet(Parts)} \cup SinkFacts(5) \cup SinkFacts(1 + 5)
                      \cup SinkFacts(2 + 5)
        BY <3>2 DEF Goal
      <4>2. f \in {Begun(part) : part \in ToSet(Parts)}
              \/ \E t, c, p : f \in Clocked(t) \cup Supplied(c, p)
        BY <4>1, SinkFactsAre DEF AudioSinks
      <4> QED
        BY <2>1, <4>2 DEF Begun, Clocked, Tied, Supplied, Meets, On, Fact
    <3> QED
      BY <3>1, <3>2
  <2> QED
    BY <2>1
<1>4. \A f \in Goal : f[1] # "rest" => f \in Lasting /\ Lasts(f)
  BY LastingKinds DEF Lasting
<1>5. \A c \in Components : Resting(c) \in Goal
  BY DEF Goal, Quiet
<1>6. \A f \in Goal : f[1] \notin {"asked", "loaded"}
  BY <1>4 DEF Lasts
<1>7. \A c, cmd, x : Asking(c, cmd, x) \notin Goal
  BY <1>6 DEF Asking
<1>8. \A f \in Goal : f[1] \notin {"begun", "ok", "bad"} => f[2] \in Components
  <2>1. ASSUME NEW f \in Goal, f[1] \notin {"begun", "ok", "bad"}
        PROVE  f[2] \in Components
    <3>1. CASE f[1] = "rest"
      BY <1>3, <3>1
    <3>2. CASE f[1] = "peer"
      <4>1. <<f[2], f[3]>> \in PortPairs
        BY <1>4, <3>2 DEF Lasts
      <4> QED
        BY <4>1 DEF PortPairs
    <3>3. CASE f[1] \notin {"rest", "peer"}
      BY <1>4, <2>1, <3>3 DEF Lasts
    <3> QED
      BY <3>1, <3>2, <3>3
  <2> QED
    BY <2>1
<1>9. \A f \in Goal : f[1] = "peer" => <<f[2], f[3]>> \in PortPairs
  BY <1>4 DEF Lasts
<1> QED
  BY <1>2, <1>5, <1>7, <1>8, <1>9 DEF Proper

------------------------------------------------------------------------------
(***************************************************************************)
(* The invariant.  While the program starts it is at one of the places of  *)
(* a sound set, or it is lost and no thread exists yet.  Once the threads  *)
(* run, everything known then stays so; after the format has changed, all  *)
(* of it but that the ends of the tunnel are at rest.                      *)
(***************************************************************************)
Look       == RemoveEvent("video_decode", Changed("131")) \o Notice
Tunnelling == SetupTunnel(DecodeToScheduler) \o Return(-1) \o Demand

Opening(a, k) == opened # {} => Goal \subseteq a /\ (k = <<>> \/ Head(k).op = "open")
Here(P, a) ==
    Sound(P) /\ <<a, todo>> \in P /\ (\A f \in a : Holds(f)) /\ Opening(a, todo)
Underway == (LostNow /\ opened = {}) \/ \E P, a : Here(P, a)
Before   == Rested /\ todo \in {<<>>, Look, Notice, Noticed}
After    == /\ port_setting_changed /\ Served /\ Within
            /\ Prog(Late, todo) \/ todo = Tunnelling
Ended    == todo = <<>> /\ (opened = {} \/ Rested \/ (port_setting_changed /\ Served))
UpInv ==
    /\ status = "starting" => Underway
    /\ status = "running" => Before \/ After
    /\ status \in {"aborted", "exited"} => Ended

LEMMA Same ==
  ASSUME Typed, UNCHANGED <<ret, library, components, initialised>>, NEW a, \A f \in a : Holds(f)
  PROVE  \A f \in a : Holds(f)'
<1>1. /\ UNCHANGED <<list, cmds, cstate, enabled, error_mask, in_list, peer, initialised, ret, faults>>
      /\ faults \in Nat
  BY FaultsAre DEF library, components
<1> QED
  BY <1>1, MuteKept

LEMMA UpInit ==
  ASSUME Init
  PROVE  UpInv
<1>1. /\ ret = 0 /\ status = "starting" /\ opened = {} /\ todo = Calls
      /\ list = [c \in Components |-> <<>>] /\ cmds = [c \in Components |-> <<>>]
  BY DEF Init, InitIlClient, Calls
<1>2. \A f \in Quiet : Holds(f)
  <2>1. \A c \in Components : cmds[c] = <<>> /\ list[c] = <<>>
    BY <1>1
  <2>2. \A c \in Components : Rest(c)
    <3> TAKE c \in Components
    <3>1. Len(list[c]) = 0
      BY <2>1
    <3> QED
      BY <2>1, <3>1 DEF Rest, NoAnswer
  <2> QED
    BY <2>2 DEF Quiet, Holds, Resting, Fact
<1>3. PICK P : Sound(P) /\ Goes(P, Quiet, Calls)
  BY StartGood DEF Good
<1>4. CASE Lost(Quiet, Calls)
  <2>1. Bad \notin Quiet
    BY DEF Quiet, Bad, Resting, Fact
  <2> QED
    BY <1>1, <1>4, <2>1 DEF Lost, LostNow, Underway, UpInv
<1>5. CASE \E b \in SUBSET Quiet : <<b, Calls>> \in P
  <2>1. PICK b \in SUBSET Quiet : <<b, Calls>> \in P
    BY <1>5
  <2>2. Here(P, b)
    BY <1>1, <1>2, <1>3, <2>1 DEF Here, Opening
  <2> QED
    BY <1>1, <2>2 DEF Underway, UpInv
<1> QED
  BY <1>3, <1>4, <1>5 DEF Goes

\* Only the creation of a thread opens anything.
LEMMA OpenedKept ==
  ASSUME Main, Head(todo).op # "open"
  PROVE  opened' = opened
BY DEF Main, program, Initialise, sx_thread_create, SettingsChanged, At

LEMMA UpStarting ==
  ASSUME Typed, HeadOK, Main, status = "starting", Underway
  PROVE  UpInv'
<1>1. CASE LostNow /\ opened = {}
  <2>1. opened' = {} /\ (Aborts \/ (LostNow' /\ status' = "starting"))
    BY <1>1, LostStep
  <2> QED
    BY <2>1 DEF Aborts, Underway, Ended, UpInv
<1>2. CASE \E P, a : Here(P, a)
  <2>1. PICK P, a : Here(P, a)
    BY <1>2
  <2> DEFINE k == todo
  <2>2. /\ Sound(P) /\ \A f \in a : Holds(f)
        /\ opened # {} => Goal \subseteq a /\ (todo = <<>> \/ Head(todo).op = "open")
        /\ <<a, todo>> \in P
    BY <2>1 DEF Here, Opening
  <2>3. Proper(a) /\ Fits(P, a, todo)
    <3> DEFINE z == <<a, todo>>
    <3>1. z[1] = a /\ z[2] = todo /\ z \in P
      BY <2>2
    <3> HIDE DEF z
    <3> QED
      BY <2>2, <3>1 DEF Sound
  <2>4. todo # <<>> /\ IsSeq(todo) /\ FitsStep(P, a, Head(todo), Tail(todo))
    BY <2>3, Dispatch DEF Fits
  <2>5. CASE Head(todo).op = "open"
    <3>1. sx_thread_create
      BY <2>5, Dispatch
    <3> DEFINE r == Tail(todo)
    <3>2. /\ todo' = r /\ status' = IF r = <<>> THEN "running" ELSE "starting"
          /\ UNCHANGED <<ret, library, components, initialised, port_setting_changed>>
      BY <3>1 DEF sx_thread_create
    <3>3. Goal \subseteq a /\ (r = <<>> \/ Head(r).op = "open")
      BY <2>4, <2>5 DEF FitsStep
    <3>4. PICK b \in SUBSET a : <<b, r>> \in P
      BY <2>4, <2>5 DEF FitsStep
    <3> HIDE DEF r
    <3>5. \A f \in a : Holds(f)'
      BY <2>2, <3>2, Same
    <3>6. CASE r = <<>>
      <4>1. Rested'
        BY <3>3, <3>5 DEF Rested
      <4> QED
        BY <3>2, <3>6, <4>1 DEF Before, UpInv
    <3>7. CASE r # <<>>
      <4>1. Fits(P, b, r)
        <5> DEFINE z == <<b, r>>
        <5>1. z[1] = b /\ z[2] = r /\ z \in P
          BY <3>4
        <5> HIDE DEF z
        <5> QED
          BY <2>2, <5>1 DEF Sound
      <4>2. Goal \subseteq b
        BY <3>3, <3>7, <4>1 DEF Fits, FitsStep
      <4>3. Here(P, b)'
        BY <2>2, <3>2, <3>3, <3>4, <3>5, <4>2 DEF Here, Opening
      <4> QED
        BY <3>2, <3>7, <4>3 DEF Underway, UpInv
    <3> QED
      BY <3>6, <3>7
  <2>6. CASE Head(todo).op # "open"
    <3>1. opened = {} /\ opened' = {}
      BY <2>2, <2>4, <2>6, OpenedKept
    <3>2. Aborts \/ (Leads(P) /\ status' = "starting")
      BY <2>2, <2>3, <2>4, <2>6, KnownStep
    <3>3. CASE Aborts
      BY <3>1, <3>3 DEF Aborts, Ended, UpInv
    <3>4. CASE Leads(P) /\ status' = "starting"
      <4>1. PICK b : Goes(P, b, todo') /\ \A f \in b : Holds(f)'
        BY <3>4 DEF Leads
      <4>2. CASE Lost(b, todo')
        <5>1. Bad \in b => ret' # 0
          BY <4>1 DEF Holds, Bad, Fact
        <5>2. LostNow'
          BY <4>2, <5>1 DEF Lost, LostNow
        <5> QED
          BY <3>1, <3>4, <5>2 DEF Underway, UpInv
      <4>3. CASE \E c \in SUBSET b : <<c, todo'>> \in P
        <5>1. PICK c \in SUBSET b : <<c, todo'>> \in P
          BY <4>3
        <5>2. Here(P, c)'
          BY <2>2, <3>1, <4>1, <5>1 DEF Here, Opening
        <5> QED
          BY <3>4, <5>2 DEF Underway, UpInv
      <4> QED
        BY <4>1, <4>2, <4>3 DEF Goes
    <3> QED
      BY <3>2, <3>3, <3>4
  <2> QED
    BY <2>5, <2>6
<1> QED
  BY <1>1, <1>2 DEF Underway

\* What a component does while the program goes on.
LEMMA UpHardware ==
  ASSUME Typed, NEW d \in Components, Works(d), UNCHANGED program, Alive, UpInv
  PROVE  UpInv'
<1>1. UNCHANGED <<todo, ret, status, initialised, opened, port_setting_changed>>
  BY OthersStill DEF thread, program
<1>2. CASE status = "starting"
  <2>1. CASE LostNow /\ opened = {}
    <3>1. LostNow'
      BY <1>1, <2>1 DEF LostNow
    <3> QED
      BY <1>1, <1>2, <2>1, <3>1 DEF Underway, UpInv
  <2>2. CASE \E P, a : Here(P, a)
    <3>1. PICK P, a : Here(P, a)
      BY <2>2
    <3>2. Sound(P) /\ (\A f \in a : Holds(f)) /\ <<a, todo>> \in P
      BY <3>1 DEF Here
    <3>3. Proper(a)
      <4> DEFINE z == <<a, todo>>
      <4>1. z[1] = a /\ z \in P
        BY <3>2
      <4> HIDE DEF z
      <4> QED
        BY <3>2, <4>1 DEF Sound
    <3>4. \A f \in a : Holds(f)'
      BY <3>2, <3>3, HardwareKeeps
    <3>5. Here(P, a)'
      BY <1>1, <3>1, <3>4 DEF Here, Opening
    <3> QED
      BY <1>1, <1>2, <3>5 DEF Underway, UpInv
  <2> QED
    BY <1>2, <2>1, <2>2 DEF Underway, UpInv
<1>3. CASE status = "running" /\ Before
  <2>1. Rested'
    BY <1>3, GoalIs, HardwareKeeps DEF Before, Rested
  <2> QED
    BY <1>1, <1>3, <2>1 DEF Before, UpInv
<1>4. CASE status = "running" /\ After
  <2>1. Served' /\ Within'
    BY <1>4, ServedWorks DEF After
  <2>2. After'
    BY <1>1, <1>4, <2>1 DEF After
  <2> QED
    BY <1>1, <1>4, <2>2 DEF UpInv
<1>5. status \in {"starting", "running"}
  BY DEF Alive, Typed, TypedThread
<1> QED
  BY <1>2, <1>3, <1>4, <1>5 DEF UpInv

\* The thread looks whether the format has changed.
LEMMA UpBefore ==
  ASSUME Typed, HeadOK, Main, status = "running", Before
  PROVE  UpInv'
<1>1. Rested /\ todo # <<>>
  BY Dispatch DEF Before
<1>2. CASE todo = Look
  <2> DEFINE s == Step("remove", "video_decode", "event", Changed("131"))
  <2>1. IsSeq(Notice)
    BY OneSeq DEF Notice, IfOk, If
  <2>2. Head(todo) = s /\ Tail(todo) = Notice /\ s.op = "remove" /\ s.c = "video_decode"
    <3>1. todo = <<s>> \o Notice /\ s.op = "remove" /\ s.c = "video_decode"
      BY <1>2 DEF Look, RemoveEvent, Step
    <3> HIDE DEF s
    <3> QED
      BY <2>1, <3>1, Push
  <2> HIDE DEF s
  <2>3. Resting("video_decode") \in Goal
    BY SinkParts DEF Goal, Quiet
  <2>4. UNCHANGED <<status, program>> /\ todo' = Notice /\ \A f \in Goal : Holds(f)'
    BY <1>1, <2>2, <2>3, GoalIs, RemoveKeeps DEF Rested
  <2> QED
    BY <2>4 DEF Before, Rested, UpInv
<1>3. CASE todo = Notice
  <2> DEFINE s == [op |-> "if", kind |-> "returned", of |-> 0, yes |-> Noticed, no |-> <<>>]
  <2>1. /\ Head(todo) = s /\ Tail(todo) = <<>> /\ s.op = "if" /\ s.kind = "returned"
        /\ s.yes = Noticed /\ s.no = <<>>
    BY <1>3 DEF Notice, IfOk, If
  <2> HIDE DEF s
  <2>2. Branch /\ UNCHANGED program
    BY <2>1, Dispatch
  <2>3. /\ todo' \in {Noticed \o <<>>, <<>> \o <<>>}
        /\ UNCHANGED <<ret, status, library, components>>
    BY <2>1, <2>2 DEF Branch
  <2>4. Noticed \o <<>> = Noticed /\ <<>> \o <<>> = <<>>
    BY OneSeq, NoneSeq, NoneJoin DEF Noticed
  <2>5. \A f \in Goal : Holds(f)'
    BY <1>1, <2>2, <2>3, Same DEF Rested, program
  <2> QED
    BY <2>3, <2>4, <2>5 DEF Before, Rested, UpInv
<1>4. CASE todo = Noticed
  <2>1. Head(todo).op = "settings"
    BY <1>4 DEF Noticed, Step
  <2>2. SettingsChanged
    BY <2>1, Dispatch
  <2>3. /\ port_setting_changed' = TRUE /\ todo' = Tunnelling
        /\ UNCHANGED <<ret, status, library, components, initialised>>
    BY <2>2 DEF SettingsChanged, Tunnelling
  <2>4. Served /\ Within
    BY <1>1, RestedUp
  <2>5. Served'
    BY <2>3, <2>4, Same DEF Served
  <2>6. Within'
    BY <2>3, <2>4 DEF Within, components
  <2> QED
    BY <2>3, <2>5, <2>6 DEF After, UpInv
<1> QED
  BY <1>1, <1>2, <1>3, <1>4 DEF Before

LEMMA UpTunnelling ==
  ASSUME Typed, Main, Served, todo = Tunnelling
  PROVE  /\ Head(todo).op = "if"
         /\ Prog(Late, todo') /\ status' = status
<1> DEFINE t == DecodeToScheduler
           X == ChangeState(t[1][1], "Idle") \o IfOk(Connecting(t), Return(-2))
           s == [op |-> "if", kind |-> "loaded", of |-> t[1][1], yes |-> X, no |-> Connecting(t)]
           k == Return(-1) \o Demand
<1>1. SetupTunnel(t) = <<s>>
  BY SetupParts DEF If
<1>2. /\ s.op = "if" /\ s.kind = "loaded" /\ s.of = "video_decode" /\ s.no = Connecting(t)
  BY DEF DecodeToScheduler
<1> HIDE DEF s
<1>3. IsSeq(<<s>>) /\ IsSeq(Return(-1)) /\ IsSeq(Demand) /\ IsSeq(k)
  <2>1. IsSeq(Return(-1)) /\ IsSeq(Demand)
    BY OneSeq DEF Return, Demand
  <2> QED
    BY <2>1, OneSeq, JoinSeq
<1>4. todo = <<s>> \o k
  <2>1. todo = (<<s>> \o Return(-1)) \o Demand
    BY <1>1 DEF Tunnelling
  <2>2. (<<s>> \o Return(-1)) \o Demand = <<s>> \o (Return(-1) \o Demand)
    BY <1>3, Assoc
  <2> QED
    BY <2>1, <2>2
<1>5. Prog(Late, k)
  <2>1. -1 \in Rets
    BY DEF Rets
  <2> QED
    BY <2>1, ProgReturn, ProgDemand, ProgJoin
<1> HIDE DEF k
<1>6. Head(todo) = s /\ Tail(todo) = k
  BY <1>3, <1>4, Push
<1>7. Branch
  BY <1>2, <1>6, Dispatch
<1>8. cstate["video_decode"] # "Loaded"
  <2> DEFINE f == Fact("up", "video_decode")
  <2>1. f \in Lasting
    <3>1. f \in SinkFacts(5)
      BY SinkFactsAre DEF Supplied
    <3> QED
      BY <3>1 DEF Lasting, Goal, Fact
  <2> QED
    BY <2>1 DEF Served, Holds, Fact
<1>9. todo' = Connecting(t) \o k /\ status' = status
  <2>1. /\ s.kind = "loaded" => todo' = (IF cstate[s.of] = "Loaded" THEN s.yes ELSE s.no) \o k
        /\ status' = status
    BY <1>6, <1>7 DEF Branch
  <2> QED
    BY <1>2, <1>8, <2>1
<1>10. Prog(Late, Connecting(t) \o k)
  BY <1>5, LateIs, ProgJoin
<1> QED
  BY <1>2, <1>6, <1>9, <1>10

\* The thread sets up the tunnel.
LEMMA UpAfter ==
  ASSUME Typed, Main, status = "running", After
  PROVE  UpInv'
<1>1. Served /\ Within /\ port_setting_changed /\ todo # <<>>
  BY Dispatch DEF After
<1>2. ASSUME Plain(Late, Head(todo)) \/ Head(todo).op = "if"
      PROVE  Served' /\ Within' /\ port_setting_changed' = port_setting_changed
  <2>1. Frame(Late)
    BY <1>2, LateIs, FrameStep
  <2> QED
    BY <1>1, <1>2, <2>1, ServedStep DEF Frame, program
<1>3. CASE Prog(Late, todo)
  <2>1. Plain(Late, Head(todo)) \/ Head(todo).op = "if"
    BY <1>1, <1>3, ProgHead
  <2>2. Served' /\ Within' /\ port_setting_changed'
    BY <1>1, <1>2, <2>1
  <2>3. IsSeq(todo) /\ IsSeq(<<>>)
    BY <1>3, ProgSeq, NoneSeq
  <2>4. todo = todo \o <<>>
    BY <2>3, NoneJoin
  <2>5. Continues(Late, <<>>) \/ Aborts
    BY <1>1, <1>3, <2>3, <2>4, LateIs, ProgStep
  <2>6. CASE Aborts
    BY <2>2, <2>6 DEF Aborts, Ended, UpInv
  <2>7. CASE Continues(Late, <<>>)
    <3>1. PICK y : Prog(Late, y) /\ todo' = y \o <<>>
      BY <2>7 DEF Continues
    <3>2. todo' = y /\ status' = "running"
      BY <2>7, <3>1, ProgSeq, NoneJoin DEF Continues
    <3>3. Prog(Late, todo')
      BY <3>1, <3>2
    <3> QED
      BY <2>2, <3>2, <3>3 DEF After, UpInv, Prog
  <2> QED
    BY <2>5, <2>6, <2>7
<1>4. CASE todo = Tunnelling
  <2>1. Head(todo).op = "if" /\ Prog(Late, todo') /\ status' = "running"
    BY <1>1, <1>4, UpTunnelling
  <2>2. Served' /\ Within' /\ port_setting_changed'
    BY <1>1, <1>2, <2>1
  <2> QED
    BY <2>1, <2>2 DEF After, UpInv, Prog
<1> QED
  BY <1>3, <1>4 DEF After

\* main() returns, or the thread looks at the event list, or nothing happens.
LEMMA UpElse ==
  ASSUME Typed, UpInv,
         sx_thread_join \/ sx_video_sink_buf_set \/ UNCHANGED vars
  PROVE  UpInv'
<1>1. /\ UNCHANGED <<ret, library, components, program>>
      /\ UNCHANGED <<initialised, opened, port_setting_changed, cmds>>
  BY DEF sx_thread_join, sx_video_sink_buf_set, vars, ilvars, thread, program, components
<1>2. \A a : (\A f \in a : Holds(f)) => \A f \in a : Holds(f)'
  BY <1>1, Same
<1>3. Rested => Rested'
  BY <1>2 DEF Rested
<1>4. Served => Served'
  BY <1>2 DEF Served
<1>5. Within => Within'
  BY <1>1 DEF Within
<1>6. status = "running" => Rested \/ (port_setting_changed /\ Served /\ Within)
  BY DEF UpInv, Before, After
<1>7. CASE sx_thread_join
  <2>1. status = "running" /\ status' = "exited" /\ todo' = <<>>
    BY <1>7 DEF sx_thread_join
  <2> QED
    BY <1>1, <1>3, <1>4, <1>6, <2>1 DEF Ended, UpInv
<1>8. CASE sx_video_sink_buf_set
  <2>1. /\ status = "running" /\ status' = status
        /\ todo' = IF port_setting_changed THEN <<>> ELSE Look
    BY <1>8 DEF sx_video_sink_buf_set, Look, Notice, Noticed
  <2>2. CASE Rested
    BY <1>3, <2>1, <2>2 DEF Before, UpInv
  <2>3. CASE port_setting_changed /\ Served /\ Within
    <3>1. todo' = <<>> /\ Prog(Late, <<>>)
      BY <2>1, <2>3, ProgNone
    <3>2. Prog(Late, todo')
      BY <3>1
    <3> QED
      BY <1>1, <1>4, <1>5, <2>1, <2>3, <3>2 DEF After, UpInv, Prog
  <2> QED
    BY <1>6, <2>1, <2>2, <2>3
<1>9. CASE UNCHANGED vars
  <2>1. UNCHANGED <<todo, status>>
    BY <1>9 DEF vars, ilvars, thread
  <2>2. CASE status = "starting"
    <3>1. CASE LostNow /\ opened = {}
      <4>1. LostNow'
        BY <1>1, <2>1, <3>1 DEF LostNow
      <4> QED
        BY <1>1, <2>1, <2>2, <3>1, <4>1 DEF Underway, UpInv
    <3>2. CASE \E P, a : Here(P, a)
      <4>1. PICK P, a : Here(P, a)
        BY <3>2
      <4>2. \A f \in a : Holds(f)'
        BY <1>2, <4>1 DEF Here
      <4>3. Here(P, a)'
        BY <1>1, <2>1, <4>1, <4>2 DEF Here, Opening
      <4> QED
        BY <2>1, <2>2, <4>3 DEF Underway, UpInv
    <3> QED
      BY <2>2, <3>1, <3>2 DEF Underway, UpInv
  <2>3. CASE status = "running"
    <3>1. Before => Before'
      BY <1>3, <2>1 DEF Before
    <3>2. After => After'
      BY <1>1, <1>4, <1>5, <2>1 DEF After
    <3> QED
      BY <2>1, <2>3, <3>1, <3>2 DEF UpInv
  <2>4. CASE status \in {"aborted", "exited"}
    BY <1>1, <1>3, <1>4, <2>1, <2>4 DEF Ended, UpInv
  <2> QED
    BY <2>2, <2>3, <2>4 DEF Typed, TypedThread
<1> QED
  BY <1>7, <1>8, <1>9

LEMMA UpStep ==
  ASSUME SetupInv, UpInv, [Next]_vars
  PROVE  UpInv'
<1>1. Typed /\ HeadOK
  BY ControlHead DEF SetupInv
<1>2. CASE Main
  <2>1. status \in {"starting", "running", "aborted", "exited"} /\ todo # <<>>
    BY <1>1, <1>2, Dispatch DEF Typed, TypedThread
  <2>2. CASE status = "starting"
    BY <1>1, <1>2, <2>2, UpStarting DEF UpInv
  <2>3. CASE status = "running" /\ Before
    BY <1>1, <1>2, <2>3, UpBefore
  <2>4. CASE status = "running" /\ After
    BY <1>1, <1>2, <2>4, UpAfter
  <2>5. status \notin {"aborted", "exited"}
    BY <2>1 DEF UpInv, Ended
  <2> QED
    BY <2>1, <2>2, <2>3, <2>4, <2>5 DEF UpInv
<1>3. CASE sx_thread_join \/ sx_video_sink_buf_set \/ UNCHANGED vars
  BY <1>1, <1>3, UpElse
<1>4. CASE \E c \in Components : Hardware(c) /\ UNCHANGED program
  <2>1. PICK c \in Components : Hardware(c) /\ UNCHANGED program
    BY <1>4
  <2>2. Works(c) /\ Alive
    BY <2>1 DEF Hardware, Works
  <2> QED
    BY <1>1, <2>1, <2>2, UpHardware
<1> QED
  BY <1>2, <1>3, <1>4 DEF Next

\* No thread, or everything a thread may use.
LEMMA UpNow ==
  ASSUME Typed, UpInv
  PROVE  UpWhenOpen
<1>1. CASE opened = {}
  BY <1>1 DEF UpWhenOpen
<1>2. CASE Rested
  BY <1>2, RestedUp
<1>3. CASE port_setting_changed /\ Served
  BY <1>3, ServedUp
<1>4. CASE status = "starting" /\ opened # {}
  <2>1. PICK P, a : Here(P, a)
    BY <1>4 DEF UpInv, Underway
  <2>2. Rested
    BY <1>4, <2>1 DEF Here, Opening, Rested
  <2> QED
    BY <2>2, RestedUp
<1>5. CASE status # "starting"
  <2>1. status \in {"running", "aborted", "exited"}
    BY <1>5 DEF Typed, TypedThread
  <2>2. opened = {} \/ Rested \/ (port_setting_changed /\ Served)
    BY <2>1 DEF UpInv, Before, After, Ended
  <2> QED
    BY <1>1, <1>2, <1>3, <2>2
<1> QED
  BY <1>1, <1>4, <1>5

\* UpWhenOpen: whatever fails, is refused or is reported while the parts are
\* initialised, main() creates no thread unless all of them are, the clocks are
\* connected and every buffer of the sinks is on its list; the components are idle or
\* execute, and execute if nothing has failed.  No thread takes any of it away later,
\* not the one that sets up the tunnel from the decoder to the scheduler either.
THEOREM UpWhenOpenCorrect == Spec => []UpWhenOpen
<1>1. Init => UpInv
  BY UpInit
<1>2. SetupInv /\ UpInv /\ [Next]_vars => UpInv'
  BY UpStep
<1>3. SetupInv /\ UpInv => UpWhenOpen
  BY UpNow DEF SetupInv
<1> QED
  BY <1>1, <1>2, <1>3, SetupInductive, PTL DEF Spec
=============================================================================
