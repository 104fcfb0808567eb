---------------------------- MODULE BrokerProofs ----------------------------
(***************************************************************************)
(* The answers of the broker and its turns, for any number of clients and  *)
(* callers, any depth of the queue and any quota.                          *)
(*                                                                         *)
(* A job is in one place at a time: in its caller's queue, with the        *)
(* worker, among the jobs that the stop left over, or completed.  The      *)
(* connection thread, the worker and the main thread each take it from one *)
(* place to the next, and none of them answers a job that another has.     *)
(***************************************************************************)
EXTENDS Broker, SequenceTheorems, WellFoundedInduction, TLAPS

\* A queue has jobs of its caller, each once; the turns have the callers whose
\* queue is not empty, each once; after the stop there are none.
QueueInv ==
  /\ \A c \in Callers : IsInjective(queues[c])
  /\ \A c \in Callers, j \in Clients : Contains(queues[c], j) => CallerOf[j] = c
  /\ IsInjective(callers)
  /\ \A c \in Callers : Contains(callers, c) <=> queues[c] # <<>>
  /\ server # "serving" => closed /\ callers = <<>>

\* Whoever had a job taken since c's last turn has its own turn after c.
Turns(s, p) == \A i, k \in 1 .. Len(s) : s[k] \in p[s[i]] => i < k

Awaited == {"waiting", "expired", "blocked"}

\* Nobody has answered what is in a queue, with the worker or left over.
PlaceInv ==
  /\ \A j \in Queued \cup pending : conn[j] \in Awaited /\ response[j] = None
                                      /\ j \notin completed \cup ran
  /\ active # None => /\ conn[active] \in Awaited /\ response[active] = None
                      /\ active \notin completed
                      /\ active \in ran <=> worker = "dispatch"
  /\ Queued \cap pending = {} /\ active \notin Queued \cup pending
  /\ pending # {} => server = "closing"

\* What the state of a connection says of its job.
JobInv ==
  \A j \in Clients :
    /\ conn[j] \in {"none", "reading"} => response[j] = None /\ j \notin completed
    /\ conn[j] = "reading" \/ (conn[j] = "none" /\ server # "exited") => j \notin ran
    /\ j \in completed => response[j] # None
    /\ response[j] = "rejected" => j \notin ran
    /\ response[j] = "result" => j \in ran

IInv == TypeOK /\ QueueInv /\ Turns(callers, passed) /\ PlaceInv /\ JobInv

-----------------------------------------------------------------------------
(* Lemmas about sequences without repetition *)

LEMMA Least ==
  ASSUME NEW S, S \subseteq Nat, S # {}
  PROVE  \E x \in S : \A y \in S : x <= y
<1>1. PICK x \in S : \A y \in S : ~(<<y, x>> \in OpToRel(<, Nat))
  BY NatLessThanWellFounded, WFMin
<1>2. \A y \in S : ~(y < x)
  BY <1>1 DEF OpToRel
<1> QED  BY <1>2


LEMMA RemoveAtIs ==
  ASSUME NEW S, NEW s \in Seq(S), NEW i \in 1 .. Len(s)
  PROVE  /\ RemoveAt(s, i) \in Seq(S) /\ Len(RemoveAt(s, i)) = Len(s) - 1
         /\ \A k \in 1 .. Len(s) - 1 :
              RemoveAt(s, i)[k] = IF k < i THEN s[k] ELSE s[k + 1]
<1> DEFINE a == SubSeq(s, 1, i - 1)
           b == SubSeq(s, i + 1, Len(s))
<1>1. a \in Seq(S) /\ Len(a) = i - 1 /\ \A k \in 1 .. i - 1 : a[k] = s[k]
  <2>1. \A k \in 1 .. i - 1 : s[k] \in S
    OBVIOUS
  <2>2. /\ a \in Seq(S) /\ Len(a) = IF 1 <= i - 1 THEN i - 1 - 1 + 1 ELSE 0
        /\ \A k \in 1 .. i - 1 - 1 + 1 : a[k] = s[1 + k - 1]
    BY <2>1, SubSeqProperties
  <2> HIDE DEF a
  <2> QED  BY <2>2
<1>2. b \in Seq(S) /\ Len(b) = Len(s) - i /\ \A k \in 1 .. Len(s) - i : b[k] = s[k + i]
  <2>1. \A k \in i + 1 .. Len(s) : s[k] \in S
    OBVIOUS
  <2>2. /\ b \in Seq(S)
        /\ Len(b) = IF i + 1 <= Len(s) THEN Len(s) - (i + 1) + 1 ELSE 0
        /\ \A k \in 1 .. Len(s) - (i + 1) + 1 : b[k] = s[i + 1 + k - 1]
    BY <2>1, SubSeqProperties
  <2> HIDE DEF b
  <2> QED  BY <2>2
<1> HIDE DEF a, b
<1>3. /\ a \o b \in Seq(S) /\ Len(a \o b) = Len(a) + Len(b)
      /\ \A k \in 1 .. Len(a) + Len(b) : (a \o b)[k] =
                     IF k <= Len(a) THEN a[k] ELSE b[k - Len(a)]
  BY <1>1, <1>2, ConcatProperties
<1>4. RemoveAt(s, i) = a \o b
  BY DEF RemoveAt, a, b
<1>5. ASSUME NEW k \in 1 .. Len(s) - 1
      PROVE  (a \o b)[k] = IF k < i THEN s[k] ELSE s[k + 1]
  <2>1. CASE k < i
    BY <1>1, <1>2, <1>3, <2>1
  <2>2. CASE k >= i
    <3> DEFINE d == k - (i - 1)
    <3>1. (a \o b)[k] = b[d] /\ d \in 1 .. Len(s) - i /\ d + i = k + 1
      BY <1>1, <1>2, <1>3, <2>2
    <3> HIDE DEF d
    <3>2. b[d] = s[d + i]
      BY <1>2, <3>1
    <3>3. (a \o b)[k] = s[k + 1]
      BY <3>1, <3>2
    <3>4. ~(k < i)
      BY <2>2
    <3> QED  BY <3>3, <3>4
  <2>3. k < i \/ k >= i
    OBVIOUS
  <2> QED  BY <2>1, <2>2, <2>3
<1>6. Len(a) + Len(b) = Len(s) - 1
  BY <1>1, <1>2
<1> QED  BY <1>3, <1>4, <1>5, <1>6

LEMMA RemoveFirstIs ==
  ASSUME NEW S, NEW s \in Seq(S), NEW e, \E i \in 1 .. Len(s) : s[i] = e
  PROVE  \E i \in 1 .. Len(s) : s[i] = e /\ RemoveFirst(s, e) = RemoveAt(s, i)
<1> DEFINE I == {i \in 1 .. Len(s) : s[i] = e}
<1>1. I \subseteq Nat /\ I # {}
  OBVIOUS
<1>2. Min(I) \in I
  BY <1>1, Least DEF Min
<1>3. RemoveFirst(s, e) = RemoveAt(s, Min(I))
  BY <1>1 DEF RemoveFirst, SelectInSeq
<1> QED  BY <1>2, <1>3

\* The same of its members.
LEMMA RemoveFrom ==
  ASSUME NEW S, NEW s \in Seq(S), IsInjective(s), NEW e, Contains(s, e)
  PROVE  LET t == RemoveFirst(s, e)
         IN /\ t \in Seq(S) /\ IsInjective(t)
            /\ \A x : Contains(t, x) <=> Contains(s, x) /\ x # e
            /\ \A i, k \in 1 .. Len(t) : \E m, n \in 1 .. Len(s) :
                  t[i] = s[m] /\ t[k] = s[n] /\ (m < n => i < k)
<1> DEFINE t == RemoveFirst(s, e)
<1>1. PICK i \in 1 .. Len(s) : s[i] = e /\ t = RemoveAt(s, i)
  BY RemoveFirstIs DEF Contains
<1>2. /\ t \in Seq(S) /\ Len(t) = Len(s) - 1
      /\ \A k \in 1 .. Len(s) - 1 : t[k] = IF k < i THEN s[k] ELSE s[k + 1]
  BY <1>1, RemoveAtIs
<1> HIDE DEF t
<1> DEFINE old(k) == IF k < i THEN k ELSE k + 1
<1>3. /\ \A k \in 1 .. Len(t) : old(k) \in 1 .. Len(s) /\ old(k) # i /\ t[k] = s[old(k)]
      /\ \A k, l \in 1 .. Len(t) : (old(k) = old(l) => k = l) /\ (old(k) < old(l) => k < l)
  BY <1>2
<1>4. \A m \in 1 .. Len(s) : m # i => \E k \in 1 .. Len(t) : old(k) = m
  <2>1. TAKE m \in 1 .. Len(s)
  <2>2. HAVE m # i
  <2>3. CASE m < i
    <3>1. m \in 1 .. Len(t) /\ old(m) = m
      BY <1>2, <2>3
    <3> QED  BY <3>1
  <2>4. CASE m > i
    <3>1. m - 1 \in 1 .. Len(t) /\ old(m - 1) = m
      BY <1>2, <2>4
    <3> QED  BY <3>1
  <2>5. m < i \/ m > i
    BY <2>2
  <2> QED  BY <2>3, <2>4, <2>5
<1> HIDE DEF old
<1>5. DOMAIN s = 1 .. Len(s) /\ DOMAIN t = 1 .. Len(t)
  BY <1>2
<1>6. \A m, n \in 1 .. Len(s) : s[m] = s[n] => m = n
  BY <1>5 DEF IsInjective
<1>7. IsInjective(t)
  BY <1>3, <1>5, <1>6 DEF IsInjective
<1>8. \A x : Contains(t, x) <=> Contains(s, x) /\ x # e
  <2>1. ASSUME NEW x, Contains(t, x)  PROVE Contains(s, x) /\ x # e
    BY <1>1, <1>3, <1>6, <2>1 DEF Contains
  <2>2. ASSUME NEW x, Contains(s, x), x # e  PROVE Contains(t, x)
    BY <1>1, <1>3, <1>4, <2>2 DEF Contains
  <2> QED  BY <2>1, <2>2
<1>9. \A k, l \in 1 .. Len(t) : \E m, n \in 1 .. Len(s) :
                  t[k] = s[m] /\ t[l] = s[n] /\ (m < n => k < l)
  BY <1>3
<1> QED  BY <1>2, <1>7, <1>8, <1>9 DEF t

LEMMA AppendTo ==
  ASSUME NEW S, NEW s \in Seq(S), NEW e \in S
  PROVE  LET t == Append(s, e)
         IN /\ t \in Seq(S) /\ t # <<>> /\ Len(t) = Len(s) + 1
            /\ \A i \in 1 .. Len(s) : t[i] = s[i]
            /\ t[Len(s) + 1] = e
            /\ \A x : Contains(t, x) <=> Contains(s, x) \/ x = e
            /\ IsInjective(s) /\ ~Contains(s, e) => IsInjective(t)
<1> DEFINE t == Append(s, e)
<1>1. /\ t \in Seq(S) /\ t # <<>> /\ Len(t) = Len(s) + 1 /\ Len(s) \in Nat
      /\ \A i \in 1 .. Len(s) : t[i] = s[i]
      /\ t[Len(s) + 1] = e
  BY AppendProperties
<1> HIDE DEF t
<1>2. /\ \A i \in 1 .. Len(t) : i \in 1 .. Len(s) \/ i = Len(s) + 1
      /\ 1 .. Len(s) \subseteq 1 .. Len(t) /\ Len(s) + 1 \in 1 .. Len(t)
  BY <1>1
<1>3. \A x : Contains(t, x) <=> Contains(s, x) \/ x = e
  BY <1>1, <1>2 DEF Contains
<1>4. IsInjective(s) /\ ~Contains(s, e) => IsInjective(t)
  <2>1. DOMAIN s = 1 .. Len(s) /\ DOMAIN t = 1 .. Len(t)
    BY <1>1
  <2> QED  BY <1>1, <1>2, <2>1 DEF Contains, IsInjective
<1> QED  BY <1>1, <1>3, <1>4 DEF t

LEMMA TailOf ==
  ASSUME NEW S, NEW s \in Seq(S), s # <<>>
  PROVE  /\ Tail(s) \in Seq(S) /\ Len(Tail(s)) = Len(s) - 1 /\ Len(s) \in Nat \ {0}
         /\ \A i \in 1 .. Len(Tail(s)) : Tail(s)[i] = s[i + 1] /\ i + 1 \in 1 .. Len(s)
         /\ Head(s) = s[1] /\ Head(s) \in S /\ Contains(s, Head(s))
         /\ \A x : Contains(s, x) <=> Contains(Tail(s), x) \/ x = Head(s)
         /\ IsInjective(s) => IsInjective(Tail(s)) /\ ~Contains(Tail(s), Head(s))
<1> DEFINE t == Tail(s)
<1>1. /\ t \in Seq(S) /\ Len(t) = Len(s) - 1 /\ Len(s) \in Nat \ {0}
      /\ \A i \in 1 .. Len(t) : t[i] = s[i + 1]
      /\ Head(s) = s[1] /\ Head(s) \in S
  BY HeadTailProperties
<1> HIDE DEF t
<1>2. /\ \A i \in 1 .. Len(t) : i + 1 \in 1 .. Len(s) /\ i + 1 # 1
      /\ \A i \in 1 .. Len(s) : i = 1 \/ (i - 1 \in 1 .. Len(t) /\ (i - 1) + 1 = i)
      /\ 1 \in 1 .. Len(s)
  BY <1>1
<1>3. \A x : Contains(s, x) <=> Contains(t, x) \/ x = Head(s)
  <2>1. ASSUME NEW x, NEW i \in 1 .. Len(s), s[i] = x, x # Head(s)  PROVE Contains(t, x)
    <3>1. i - 1 \in 1 .. Len(t) /\ (i - 1) + 1 = i
      BY <1>1, <1>2, <2>1
    <3>2. t[i - 1] = s[(i - 1) + 1]
      BY <1>1, <3>1
    <3> QED  BY <2>1, <3>1, <3>2 DEF Contains
  <2> QED  BY <1>1, <1>2, <2>1 DEF Contains
<1>4. IsInjective(s) => IsInjective(t) /\ ~Contains(t, Head(s))
  <2>1. DOMAIN s = 1 .. Len(s) /\ DOMAIN t = 1 .. Len(t)
    BY <1>1
  <2>2. SUFFICES ASSUME \A i, k \in 1 .. Len(s) : s[i] = s[k] => i = k
                 PROVE  IsInjective(t) /\ ~Contains(t, Head(s))
    BY <2>1 DEF IsInjective
  <2>3. \A i, k \in 1 .. Len(t) : t[i] = t[k] => i + 1 = k + 1
    BY <1>1, <1>2, <2>2
  <2>4. \A i, k \in 1 .. Len(t) : i + 1 = k + 1 => i = k
    BY <1>1
  <2>5. \A i \in 1 .. Len(t) : t[i] # Head(s)
    BY <1>1, <1>2, <2>2
  <2> QED  BY <2>1, <2>3, <2>4, <2>5 DEF Contains, IsInjective
<1>5. Contains(s, Head(s))
  BY <1>1, <1>2 DEF Contains
<1> QED  BY <1>1, <1>2, <1>3, <1>4, <1>5 DEF t

-----------------------------------------------------------------------------
(* Lemmas about the turns *)

\* A caller goes to the end; it may have been served since the others' turns.
LEMMA TurnsAppend ==
  ASSUME NEW S, NEW s \in Seq(S), NEW e \in S, ~Contains(s, e), NEW p, NEW q,
         Turns(s, p), q[e] = {},
         \A x \in S : Contains(s, x) => q[x] \subseteq p[x] \cup {e}
  PROVE  Turns(Append(s, e), q)
<1> DEFINE t == Append(s, e)
<1>1. /\ t \in Seq(S) /\ Len(t) = Len(s) + 1 /\ Len(s) \in Nat
      /\ \A i \in 1 .. Len(s) : t[i] = s[i]
      /\ t[Len(s) + 1] = e
  BY AppendTo
<1> HIDE DEF t
<1>2. ASSUME NEW i \in 1 .. Len(t), NEW k \in 1 .. Len(t), t[k] \in q[t[i]]
      PROVE  i < k
  <2>1. i # Len(s) + 1
    BY <1>1, <1>2
  <2>2. i \in 1 .. Len(s) /\ t[i] = s[i]
    BY <1>1, <2>1
  <2>3. CASE k = Len(s) + 1
    BY <1>1, <2>2, <2>3
  <2>4. CASE k # Len(s) + 1
    <3>1. k \in 1 .. Len(s) /\ t[k] = s[k]
      BY <1>1, <2>4
    <3>2. s[k] # e /\ Contains(s, s[i]) /\ s[i] \in S
      BY <2>2, <3>1 DEF Contains
    <3>3. s[k] \in p[s[i]]
      BY <1>2, <2>2, <3>1, <3>2
    <3> QED  BY <2>2, <3>1, <3>3 DEF Turns
  <2> QED  BY <2>3, <2>4
<1> QED  BY <1>2 DEF Turns, t

\* The caller at the head has had its turn.
LEMMA TurnsTail ==
  ASSUME NEW S, NEW s \in Seq(S), s # <<>>, IsInjective(s), NEW p, NEW q, Turns(s, p),
         \A x \in S : Contains(s, x) /\ x # Head(s) => q[x] \subseteq p[x] \cup {Head(s)}
  PROVE  Turns(Tail(s), q)
<1> DEFINE t == Tail(s)
<1>1. /\ t \in Seq(S) /\ Len(t) = Len(s) - 1 /\ Len(s) \in Nat \ {0}
      /\ \A i \in 1 .. Len(t) : t[i] = s[i + 1] /\ i + 1 \in 1 .. Len(s)
      /\ ~Contains(t, Head(s))
  BY TailOf
<1> HIDE DEF t
<1>2. ASSUME NEW i \in 1 .. Len(t), NEW k \in 1 .. Len(t), t[k] \in q[t[i]]
      PROVE  i < k
  <2>1. t[i] # Head(s) /\ t[k] # Head(s) /\ t[i] \in S
    BY <1>1 DEF Contains
  <2>2. Contains(s, t[i])
    BY <1>1 DEF Contains
  <2>3. t[k] \in p[t[i]]
    BY <1>2, <2>1, <2>2
  <2>4. s[k + 1] \in p[s[i + 1]] /\ i + 1 \in 1 .. Len(s) /\ k + 1 \in 1 .. Len(s)
    BY <1>1, <2>3
  <2>5. i + 1 < k + 1
    BY <2>4 DEF Turns
  <2> QED  BY <2>5, <1>1
<1> QED  BY <1>2 DEF Turns, t

\* A caller leaves the turns.
LEMMA TurnsRemove ==
  ASSUME NEW S, NEW s \in Seq(S), IsInjective(s), NEW e, Contains(s, e), NEW p, Turns(s, p)
  PROVE  Turns(RemoveFirst(s, e), p)
<1> DEFINE t == RemoveFirst(s, e)
<1>1. \A i, k \in 1 .. Len(t) : \E m, n \in 1 .. Len(s) :
                  t[i] = s[m] /\ t[k] = s[n] /\ (m < n => i < k)
  BY RemoveFrom
<1> HIDE DEF t
<1>2. ASSUME NEW i \in 1 .. Len(t), NEW k \in 1 .. Len(t), t[k] \in p[t[i]]
      PROVE  i < k
  <2>1. PICK m \in 1 .. Len(s), n \in 1 .. Len(s) :
               t[i] = s[m] /\ t[k] = s[n] /\ (m < n => i < k)
    BY <1>1
  <2>2. s[n] \in p[s[m]]
    BY <1>2, <2>1
  <2>3. m < n
    BY <2>2 DEF Turns
  <2> QED  BY <2>1, <2>3
<1> QED  BY <1>2 DEF Turns, t

-----------------------------------------------------------------------------
(* The queue *)

LEMMA QueuedIs ==
  ASSUME TypeOK
  PROVE  \A j \in Clients : j \in Queued <=> Contains(queues[CallerOf[j]], j)
<1>1. \A j \in Clients : CallerOf[j] \in Callers /\ queues[CallerOf[j]] \in Seq(Clients)
  BY BrokerAssumption DEF TypeOK
<1>2. \A c \in Callers : DOMAIN queues[c] = 1 .. Len(queues[c])
  BY DEF TypeOK
<1> QED  BY <1>1, <1>2 DEF Queued, Contents, Contains

\* The queues and the turns, and who is queued.
QueueOK ==
  /\ queues \in [Callers -> Seq(Clients)] /\ callers \in Seq(Callers)
  /\ passed \in [Callers -> SUBSET Callers] /\ closed \in BOOLEAN
  /\ QueueInv /\ Turns(callers, passed)

LEMMA QueueSame ==
  ASSUME IInv, UNCHANGED <<queueVars, passed>>,
         server' # "serving" => server # "serving"
  PROVE  QueueOK' /\ Queued' = Queued
<1>1. UNCHANGED <<queues, callers, closed, passed>>
  BY DEF queueVars
<1> QED  BY <1>1 DEF IInv, TypeOK, QueueOK, QueueInv, Turns, Queued, Contents

\* close leaves nothing in the queue.
LEMMA CloseQueue ==
  ASSUME IInv, Close
  PROVE  QueueOK' /\ Queued' = {}
<1>1. /\ queues' = [c \in Callers |-> <<>>] /\ callers' = <<>> /\ closed' = TRUE
      /\ passed' = [c \in Callers |-> {}] /\ server' = "closing"
  BY DEF Close
<1>2. \A c \in Callers : queues'[c] = <<>>
  BY <1>1
<1>3. /\ <<>> \in Seq(Clients) /\ <<>> \in Seq(Callers) /\ IsInjective(<<>>)
      /\ Len(<<>>) = 0 /\ DOMAIN <<>> = {}
  BY DEF IsInjective
<1>4. \A x : ~Contains(<<>>, x)
  BY <1>3 DEF Contains
<1>5. QueueInv'
  BY <1>1, <1>2, <1>3, <1>4 DEF QueueInv
<1>6. Turns(callers, passed)'
  BY <1>1, <1>3 DEF Turns
<1>7. Queued' = {}
  BY <1>2, <1>3, BrokerAssumption DEF Queued, Contents
<1> QED  BY <1>1, <1>3, <1>5, <1>6, <1>7 DEF QueueOK

\* submit of a job that is not queued.
LEMMA EnqueueQueue ==
  ASSUME IInv, NEW j \in Clients, j \notin Queued, Enqueue(j), ~closed,
         passed' = IF queues[CallerOf[j]] = <<>>
                   THEN [passed EXCEPT ![CallerOf[j]] = {}] ELSE passed,
         UNCHANGED <<closed, server>>
  PROVE  QueueOK' /\ Queued' = Queued \cup {j}
<1> DEFINE c == CallerOf[j]
           q == Append(queues[c], j)
<1>1. /\ queues \in [Callers -> Seq(Clients)] /\ callers \in Seq(Callers)
      /\ passed \in [Callers -> SUBSET Callers] /\ closed \in BOOLEAN /\ TypeOK
      /\ QueueInv /\ Turns(callers, passed)
  BY DEF IInv, TypeOK
<1>2. c \in Callers /\ queues[c] \in Seq(Clients) /\ ~Contains(queues[c], j)
  BY <1>1, QueuedIs, BrokerAssumption
<1>3. /\ queues' = [queues EXCEPT ![c] = q]
      /\ callers' = IF queues[c] = <<>> THEN Append(callers, c) ELSE callers
      /\ passed' = IF queues[c] = <<>> THEN [passed EXCEPT ![c] = {}] ELSE passed
  BY DEF Enqueue
<1>4. /\ q \in Seq(Clients) /\ q # <<>> /\ IsInjective(q)
      /\ \A x : Contains(q, x) <=> Contains(queues[c], x) \/ x = j
  <2>1. IsInjective(queues[c])
    BY <1>1, <1>2 DEF QueueInv
  <2>2. ASSUME NEW s \in Seq(Clients), IsInjective(s), ~Contains(s, j)
        PROVE  /\ Append(s, j) \in Seq(Clients) /\ Append(s, j) # <<>>
               /\ IsInjective(Append(s, j))
               /\ \A x : Contains(Append(s, j), x) <=> Contains(s, x) \/ x = j
    BY <2>2, AppendTo
  <2> QED  BY <1>2, <2>1, <2>2
<1> HIDE DEF c, q
<1>5. /\ queues' \in [Callers -> Seq(Clients)] /\ queues'[c] = q
      /\ \A d \in Callers : d # c => queues'[d] = queues[d]
  BY <1>1, <1>2, <1>3, <1>4
<1>6. /\ callers' \in Seq(Callers) /\ IsInjective(callers')
      /\ \A d \in Callers : Contains(callers', d) <=> queues'[d] # <<>>
      /\ Turns(callers, passed)'
      /\ passed' \in [Callers -> SUBSET Callers]
  <2>1. CASE queues[c] # <<>>
    BY <1>1, <1>3, <1>4, <1>5, <2>1 DEF QueueInv, Turns
  <2>2. CASE queues[c] = <<>>
    <3>1. ~Contains(callers, c) /\ callers' = Append(callers, c)
            /\ passed' = [passed EXCEPT ![c] = {}]
      BY <1>1, <1>2, <1>3, <2>2 DEF QueueInv
    <3>2. /\ callers' \in Seq(Callers) /\ IsInjective(callers')
          /\ \A d : Contains(callers', d) <=> Contains(callers, d) \/ d = c
      BY <1>1, <1>2, <3>1, AppendTo DEF QueueInv
    <3>3. \A d \in Callers : Contains(callers', d) <=> queues'[d] # <<>>
      BY <1>1, <1>4, <1>5, <3>2 DEF QueueInv
    <3>4. Turns(callers', passed')
      <4>1. /\ passed'[c] = {}
            /\ \A d \in Callers : Contains(callers, d) => passed'[d] \subseteq passed[d] \cup {c}
        BY <1>1, <1>2, <3>1
      <4> QED  BY <1>1, <1>2, <3>1, <4>1, TurnsAppend
    <3> QED  BY <1>1, <1>2, <3>1, <3>2, <3>3, <3>4 DEF Turns
  <2> QED  BY <2>1, <2>2
<1>7. QueueInv'
  <2>1. \A d \in Callers : IsInjective(queues'[d])
    BY <1>1, <1>4, <1>5 DEF QueueInv
  <2>2. \A d \in Callers, i \in Clients : Contains(queues'[d], i) => CallerOf[i] = d
    BY <1>1, <1>4, <1>5 DEF QueueInv, c
  <2>3. server = "serving"
    BY <1>1 DEF QueueInv
  <2> QED  BY <1>6, <2>1, <2>2, <2>3 DEF QueueInv
<1>8. Queued' = Queued \cup {j}
  <2>1. \A i \in Clients : CallerOf[i] \in Callers
    BY BrokerAssumption
  <2>2. \A i \in Clients : i \in Queued <=> Contains(queues[CallerOf[i]], i)
    BY <1>1, QueuedIs
  <2>3. \A i \in Clients : i \in Queued' <=> Contains(queues'[CallerOf[i]], i)
    <3>1. \A d \in Callers : DOMAIN queues'[d] = 1 .. Len(queues'[d])
      BY <1>5
    <3> QED  BY <2>1, <3>1 DEF Queued, Contents, Contains
  <2>4. \A i \in Clients : Contains(queues'[CallerOf[i]], i)
                             <=> Contains(queues[CallerOf[i]], i) \/ i = j
    BY <1>4, <1>5, <2>1 DEF c
  <2>5. Queued \subseteq Clients /\ Queued' \subseteq Clients
    BY DEF Queued
  <2> QED  BY <2>2, <2>3, <2>4, <2>5
<1> QED  BY <1>1, <1>5, <1>6, <1>7, <1>8 DEF QueueOK

\* Who is queued after a step that changes one queue.
LEMMA QueuedAfter ==
  ASSUME TypeOK, queues' \in [Callers -> Seq(Clients)], NEW c \in Callers, NEW j,
         \A d \in Callers : d # c => queues'[d] = queues[d],
         \A x : Contains(queues'[c], x) <=> Contains(queues[c], x) /\ x # j,
         \A i \in Clients : i = j => CallerOf[i] = c
  PROVE  Queued' = Queued \ {j}
<1>1. \A i \in Clients : CallerOf[i] \in Callers
  BY BrokerAssumption
<1>2. \A i \in Clients : i \in Queued <=> Contains(queues[CallerOf[i]], i)
  BY QueuedIs
<1>3. \A i \in Clients : i \in Queued' <=> Contains(queues'[CallerOf[i]], i)
  <2>1. \A d \in Callers : DOMAIN queues'[d] = 1 .. Len(queues'[d])
    OBVIOUS
  <2> QED  BY <1>1, <2>1 DEF Queued, Contents, Contains
<1>4. \A i \in Clients : Contains(queues'[CallerOf[i]], i)
                           <=> Contains(queues[CallerOf[i]], i) /\ i # j
  BY <1>1
<1>5. Queued \subseteq Clients /\ Queued' \subseteq Clients
  BY DEF Queued
<1> QED  BY <1>2, <1>3, <1>4, <1>5

\* An empty sequence has no members, and no other has none.
LEMMA EmptyIs ==
  ASSUME NEW S, NEW s \in Seq(S)
  PROVE  s = <<>> <=> \A x : ~Contains(s, x)
<1>1. Len(s) \in Nat /\ (s = <<>> <=> Len(s) = 0)
  BY EmptySeq
<1>2. Len(s) # 0 => Contains(s, s[1])
  BY <1>1 DEF Contains
<1>3. ASSUME Len(s) = 0, NEW x  PROVE ~Contains(s, x)
  <2>1. 1 .. 0 = {}
    OBVIOUS
  <2> QED  BY <1>3, <2>1 DEF Contains
<1> QED  BY <1>1, <1>2, <1>3

\* cancel of a queued job.
LEMMA DequeueQueue ==
  ASSUME IInv, NEW j \in Queued, Dequeue(j), UNCHANGED <<closed, server, passed>>
  PROVE  QueueOK' /\ Queued' = Queued \ {j}
<1> DEFINE c == CallerOf[j]
           q == RemoveFirst(queues[c], j)
<1>1. /\ queues \in [Callers -> Seq(Clients)] /\ callers \in Seq(Callers)
      /\ passed \in [Callers -> SUBSET Callers] /\ closed \in BOOLEAN /\ TypeOK
      /\ QueueInv /\ Turns(callers, passed) /\ j \in Clients
  BY DEF IInv, TypeOK, Queued
<1>2. c \in Callers /\ queues[c] \in Seq(Clients) /\ Contains(queues[c], j)
        /\ IsInjective(queues[c])
  BY <1>1, QueuedIs, BrokerAssumption DEF QueueInv
<1>3. /\ queues' = [queues EXCEPT ![c] = q]
      /\ callers' = IF q = <<>> THEN RemoveFirst(callers, c) ELSE callers
  BY DEF Dequeue
<1>4. /\ q \in Seq(Clients) /\ IsInjective(q)
      /\ \A x : Contains(q, x) <=> Contains(queues[c], x) /\ x # j
  <2>1. ASSUME NEW s \in Seq(Clients), IsInjective(s), Contains(s, j)
        PROVE  /\ RemoveFirst(s, j) \in Seq(Clients) /\ IsInjective(RemoveFirst(s, j))
               /\ \A x : Contains(RemoveFirst(s, j), x) <=> Contains(s, x) /\ x # j
    BY <2>1, RemoveFrom
  <2> QED  BY <1>2, <2>1
<1>5. CallerOf[j] = c
  OBVIOUS
<1> HIDE DEF c, q
<1>6. /\ queues' \in [Callers -> Seq(Clients)] /\ queues'[c] = q
      /\ \A d \in Callers : d # c => queues'[d] = queues[d]
  BY <1>1, <1>2, <1>3, <1>4
<1>7. Contains(callers, c) /\ IsInjective(callers)
  <2>1. queues[c] # <<>>
    BY <1>2, EmptyIs
  <2> QED  BY <1>1, <1>2, <2>1 DEF QueueInv
<1>8. /\ callers' \in Seq(Callers) /\ IsInjective(callers')
      /\ \A d \in Callers : Contains(callers', d) <=> queues'[d] # <<>>
      /\ Turns(callers, passed)'
      /\ callers = <<>> => callers' = <<>>
  <2>1. CASE q # <<>>
    <3>1. queues[c] # <<>>
      BY <1>1, <1>2, <1>7 DEF QueueInv
    <3> QED  BY <1>1, <1>3, <1>6, <2>1, <3>1 DEF QueueInv, Turns
  <2>2. CASE q = <<>>
    <3>1. callers' = RemoveFirst(callers, c)
      BY <1>3, <2>2
    <3>2. /\ callers' \in Seq(Callers) /\ IsInjective(callers')
          /\ \A d : Contains(callers', d) <=> Contains(callers, d) /\ d # c
      BY <1>1, <1>7, <3>1, RemoveFrom
    <3>3. \A d \in Callers : Contains(callers', d) <=> queues'[d] # <<>>
      BY <1>1, <1>6, <2>2, <3>2 DEF QueueInv
    <3>4. Turns(callers', passed)
      BY <1>1, <1>7, <3>1, TurnsRemove
    <3>5. callers # <<>>
      BY <1>1, <1>7, EmptyIs
    <3> QED  BY <3>2, <3>3, <3>4, <3>5 DEF Turns
  <2> QED  BY <2>1, <2>2
<1>9. QueueInv'
  <2>1. \A d \in Callers : IsInjective(queues'[d])
    BY <1>1, <1>4, <1>6 DEF QueueInv
  <2>2. \A d \in Callers, i \in Clients : Contains(queues'[d], i) => CallerOf[i] = d
    BY <1>1, <1>4, <1>6 DEF QueueInv
  <2>3. server # "serving" => closed /\ callers = <<>>
    BY <1>1 DEF QueueInv
  <2> QED  BY <1>8, <2>1, <2>2, <2>3 DEF QueueInv
<1>10. Queued' = Queued \ {j}
  BY <1>1, <1>2, <1>4, <1>5, <1>6, QueuedAfter
<1> QED  BY <1>1, <1>6, <1>8, <1>9, <1>10 DEF QueueOK

\* get: the head of the turns gives its oldest job and goes to the end.
LEMMA GetQueue ==
  ASSUME IInv, Get
  PROVE  QueueOK' /\ active' \in Queued /\ Queued' = Queued \ {active'}
<1> DEFINE c == Head(callers)
           s == queues[c]
           q == Tail(s)
<1>1. /\ queues \in [Callers -> Seq(Clients)] /\ callers \in Seq(Callers)
      /\ passed \in [Callers -> SUBSET Callers] /\ closed \in BOOLEAN /\ TypeOK
      /\ QueueInv /\ Turns(callers, passed) /\ callers # <<>>
  BY DEF IInv, TypeOK, Get
<1>2. /\ c \in Callers /\ Contains(callers, c) /\ IsInjective(callers)
      /\ Tail(callers) \in Seq(Callers) /\ IsInjective(Tail(callers))
      /\ ~Contains(Tail(callers), c)
      /\ \A d : Contains(callers, d) <=> Contains(Tail(callers), d) \/ d = c
  BY <1>1, TailOf DEF QueueInv
<1>3. s \in Seq(Clients) /\ s # <<>> /\ IsInjective(s)
  BY <1>1, <1>2 DEF QueueInv
<1>4. /\ active' = Head(s) /\ queues' = [queues EXCEPT ![c] = q]
      /\ callers' = IF q = <<>> THEN Tail(callers) ELSE Append(Tail(callers), c)
      /\ passed' = [d \in Callers |->
                      IF d = c \/ queues[d] = <<>> THEN {} ELSE passed[d] \cup {c}]
      /\ UNCHANGED <<closed, server>>
  BY DEF Get, serverVars
<1>5. s = queues[c] /\ c = Head(callers)
  OBVIOUS
<1> HIDE DEF s, c
<1>6. /\ q \in Seq(Clients) /\ IsInjective(q) /\ Head(s) \in Clients
      /\ Contains(s, Head(s)) /\ ~Contains(q, Head(s))
      /\ \A x : Contains(s, x) <=> Contains(q, x) \/ x = Head(s)
  BY <1>3, TailOf
<1> HIDE DEF q
<1>7. CallerOf[active'] = c /\ active' \in Clients
  BY <1>1, <1>2, <1>4, <1>5, <1>6 DEF QueueInv
<1>8. /\ queues' \in [Callers -> Seq(Clients)] /\ queues'[c] = q
      /\ \A d \in Callers : d # c => queues'[d] = queues[d]
  BY <1>1, <1>2, <1>4, <1>6
<1>9. \A x : Contains(queues'[c], x) <=> Contains(queues[c], x) /\ x # active'
  BY <1>4, <1>5, <1>6, <1>8
<1>10. active' \in Queued
  BY <1>1, <1>4, <1>5, <1>6, <1>7, QueuedIs
<1>11. Queued' = Queued \ {active'}
  <2>1. ASSUME NEW j, j = active'  PROVE Queued' = Queued \ {j}
    BY <1>1, <1>2, <1>7, <1>8, <1>9, <2>1, QueuedAfter
  <2> QED  BY <2>1
<1>12. /\ passed' \in [Callers -> SUBSET Callers] /\ passed'[c] = {}
       /\ \A d \in Callers : Contains(callers, d) => passed'[d] \subseteq passed[d] \cup {c}
  BY <1>1, <1>2, <1>4
<1>13. Turns(Tail(callers), passed')
  BY <1>1, <1>2, <1>5, <1>12, TurnsTail
<1>14. /\ callers' \in Seq(Callers) /\ IsInjective(callers')
       /\ \A d \in Callers : Contains(callers', d) <=> queues'[d] # <<>>
       /\ Turns(callers', passed')
  <2>1. \A d \in Callers : d # c => (Contains(Tail(callers), d) <=> queues'[d] # <<>>)
    BY <1>1, <1>2, <1>8 DEF QueueInv
  <2>2. CASE q = <<>>
    BY <1>2, <1>4, <1>8, <1>13, <2>1, <2>2
  <2>3. CASE q # <<>>
    <3> DEFINE t == Tail(callers)
    <3>1. t \in Seq(Callers) /\ IsInjective(t) /\ ~Contains(t, c) /\ Turns(t, passed')
            /\ callers' = Append(t, c)
      BY <1>2, <1>4, <1>13, <2>3
    <3>2. \A d \in Callers : d # c => (Contains(t, d) <=> queues'[d] # <<>>)
      BY <2>1
    <3> HIDE DEF t
    <3>3. /\ callers' \in Seq(Callers) /\ IsInjective(callers')
          /\ \A d : Contains(callers', d) <=> Contains(t, d) \/ d = c
      BY <1>2, <3>1, AppendTo
    <3>4. Turns(callers', passed')
      <4>1. \A d \in Callers : Contains(t, d) => passed'[d] \subseteq passed'[d] \cup {c}
        OBVIOUS
      <4> QED  BY <1>2, <1>12, <3>1, <4>1, TurnsAppend
    <3> QED  BY <1>8, <2>3, <3>2, <3>3, <3>4
  <2> QED  BY <2>2, <2>3
<1>15. QueueInv'
  <2>1. \A d \in Callers : IsInjective(queues'[d])
    BY <1>1, <1>6, <1>8 DEF QueueInv
  <2>2. \A d \in Callers, i \in Clients : Contains(queues'[d], i) => CallerOf[i] = d
    BY <1>1, <1>8, <1>9 DEF QueueInv
  <2>3. server = "serving"
    BY <1>1 DEF QueueInv
  <2> QED  BY <1>4, <1>14, <2>1, <2>2, <2>3 DEF QueueInv
<1>16. Turns(callers, passed)'
  BY <1>14 DEF Turns
<1> QED  BY <1>1, <1>4, <1>8, <1>10, <1>11, <1>12, <1>14, <1>15, <1>16 DEF QueueOK

-----------------------------------------------------------------------------
(* The jobs *)

\* The rest of the state.
JobTypes ==
  /\ stop \in BOOLEAN
  /\ conn \in [Clients -> {"none", "reading", "waiting", "expired", "blocked",
                           "writing"}]
  /\ response \in [Clients -> {None, "rejected", "failed", "result"}]
  /\ \A j \in Clients : conn[j] = "writing" => response[j] # None
  /\ completed \subseteq Clients /\ gone \subseteq Clients
  /\ worker \in {"loop", "get", "taken", "dispatch", "exited"}
  /\ active \in Clients \cup {None}
  /\ active # None <=> worker \in {"taken", "dispatch"}
  /\ server \in {"serving", "closing", "exited"}
  /\ pending \subseteq Clients /\ ran \subseteq Clients

LEMMA TypeParts ==
  IInv <=> QueueOK /\ JobTypes /\ PlaceInv /\ JobInv
BY DEF IInv, TypeOK, QueueOK, JobTypes

\* What can be told apart of the answers.
LEMMA Codes ==
  /\ None # "rejected" /\ None # "failed" /\ None # "result"
  /\ "rejected" # "result" /\ "failed" # "result" /\ "rejected" # "failed"
BY DEF None

LEMMA MainStep ==
  ASSUME IInv, \/ \E j \in Clients : Connect(j) \/ GiveUp(j) \/ AnswerPending(j)
               \/ RequestStop \/ Close \/ Exit
  PROVE  IInv'
<1>1. QueueOK /\ JobTypes /\ PlaceInv /\ JobInv
  BY TypeParts
<1>2. None \notin Clients /\ Queued \subseteq Clients
  BY NoneAssumption DEF Queued
<1>3. ASSUME NEW j \in Clients, Connect(j)  PROVE IInv'
  <2>1. /\ conn[j] = "none" /\ server = "serving" /\ conn' = [conn EXCEPT ![j] = "reading"]
        /\ UNCHANGED <<queueVars, response, completed, gone, worker, active, server,
                       stop, pending, ran, passed>>
    BY <1>3 DEF Connect, workerVars, serverVars
  <2>2. QueueOK' /\ Queued' = Queued
    BY <2>1, QueueSame
  <2>3. JobTypes' /\ JobInv'
    BY <1>1, <2>1 DEF JobTypes, JobInv
  <2>4. PlaceInv'
    BY <1>1, <1>2, <2>1, <2>2 DEF JobTypes, PlaceInv, Awaited
  <2> QED  BY <2>2, <2>3, <2>4 DEF IInv, TypeOK, QueueOK, JobTypes
<1>4. ASSUME NEW j \in Clients, GiveUp(j)  PROVE IInv'
  <2>1. /\ gone' = gone \cup {j}
        /\ UNCHANGED <<queueVars, conn, response, completed, worker, active, server,
                       stop, pending, ran, passed>>
    BY <1>4 DEF GiveUp, workerVars, serverVars
  <2>2. QueueOK' /\ Queued' = Queued
    BY <2>1, QueueSame
  <2>3. JobTypes' /\ JobInv' /\ PlaceInv'
    BY <1>1, <2>1, <2>2 DEF JobTypes, JobInv, PlaceInv
  <2> QED  BY <2>2, <2>3 DEF IInv, TypeOK, QueueOK, JobTypes
<1>5. ASSUME NEW j \in Clients, AnswerPending(j)  PROVE IInv'
  <2>1. /\ j \in pending /\ pending' = pending \ {j} /\ server = "closing"
        /\ response' = [response EXCEPT ![j] = "rejected"]
        /\ completed' = completed \cup {j}
        /\ UNCHANGED <<queueVars, conn, gone, worker, active, server, stop, ran, passed>>
    BY <1>5 DEF AnswerPending, Complete, workerVars
  <2>2. QueueOK' /\ Queued' = Queued
    BY <2>1, QueueSame
  <2>3. conn[j] \in Awaited /\ j \notin ran /\ j \notin Queued /\ active # j
    BY <1>1, <2>1 DEF PlaceInv
  <2>4. JobTypes' /\ JobInv'
    BY <1>1, <2>1, <2>3, Codes DEF JobTypes, JobInv, Awaited
  <2>5. PlaceInv'
    BY <1>1, <1>2, <2>1, <2>2, <2>3 DEF JobTypes, PlaceInv
  <2> QED  BY <2>2, <2>4, <2>5 DEF IInv, TypeOK, QueueOK, JobTypes
<1>6. CASE RequestStop
  <2>1. /\ stop' = TRUE
        /\ UNCHANGED <<queueVars, conn, response, completed, gone, worker, active,
                       server, pending, ran, passed>>
    BY <1>6 DEF RequestStop, jobVars, workerVars
  <2>2. QueueOK' /\ Queued' = Queued
    BY <2>1, QueueSame
  <2>3. JobTypes' /\ JobInv' /\ PlaceInv'
    BY <1>1, <2>1, <2>2 DEF JobTypes, JobInv, PlaceInv
  <2> QED  BY <2>2, <2>3 DEF IInv, TypeOK, QueueOK, JobTypes
<1>7. CASE Close
  <2>1. /\ server = "serving" /\ server' = "closing" /\ pending' = Queued
        /\ UNCHANGED <<conn, response, completed, gone, worker, active, stop, ran>>
    BY <1>7 DEF Close, jobVars, workerVars
  <2>2. QueueOK' /\ Queued' = {}
    BY <1>7, CloseQueue
  <2>3. JobTypes' /\ JobInv'
    BY <1>1, <1>2, <2>1 DEF JobTypes, JobInv
  <2>4. PlaceInv'
    BY <1>1, <2>1, <2>2 DEF PlaceInv
  <2> QED  BY <2>2, <2>3, <2>4 DEF IInv, TypeOK, QueueOK, JobTypes
<1>8. CASE Exit
  <2>1. /\ server = "closing" /\ server' = "exited" /\ pending = {} /\ pending' = {}
        /\ conn' = [j \in Clients |-> "none"] /\ response' = [j \in Clients |-> None]
        /\ completed' = {} /\ gone' = gone \cup Connected
        /\ worker' = "exited" /\ active' = None
        /\ UNCHANGED <<queueVars, stop, ran, passed>>
    BY <1>8 DEF Exit
  <2>2. QueueOK' /\ Queued' = Queued
    BY <2>1, QueueSame
  <2>3. Queued = {}
    <3>1. \A c \in Callers : queues[c] = <<>>
      <4>1. callers = <<>> /\ callers \in Seq(Callers)
        BY <1>1, <2>1 DEF QueueOK, QueueInv
      <4>2. \A c \in Callers : ~Contains(callers, c)
        BY <4>1, EmptyIs
      <4> QED  BY <1>1, <4>2 DEF QueueOK, QueueInv
    <3> QED  BY <3>1, BrokerAssumption DEF Queued, Contents
  <2>4. JobTypes'
    BY <1>1, <2>1 DEF JobTypes, Connected
  <2>5. JobInv'
    BY <2>1, Codes DEF JobInv
  <2>6. PlaceInv'
    BY <2>1, <2>2, <2>3 DEF PlaceInv
  <2> QED  BY <2>2, <2>4, <2>5, <2>6 DEF IInv, TypeOK, QueueOK, JobTypes
<1> QED  BY <1>3, <1>4, <1>5, <1>6, <1>7, <1>8

LEMMA ConnectionStep ==
  ASSUME IInv, NEW j \in Clients, TimeOut(j) \/ ConnectionNext(j)
  PROVE  IInv'
<1>1. QueueOK /\ JobTypes /\ PlaceInv /\ JobInv
  BY TypeParts
<1>2. None \notin Clients /\ Queued \subseteq Clients
  BY NoneAssumption DEF Queued
<1>3. CASE BadRequest(j)
  <2>1. /\ conn[j] = "reading" /\ conn' = [conn EXCEPT ![j] = "writing"]
        /\ response' = [response EXCEPT ![j] = "failed"]
        /\ UNCHANGED <<queueVars, completed, gone, worker, active, server, stop, pending,
                       ran, passed>>
    BY <1>3 DEF BadRequest, Answer, workerVars, serverVars
  <2>2. QueueOK' /\ Queued' = Queued
    BY <2>1, QueueSame
  <2>3. JobTypes' /\ JobInv'
    BY <1>1, <2>1, Codes DEF JobTypes, JobInv
  <2>4. PlaceInv'
    BY <1>1, <1>2, <2>1, <2>2 DEF JobTypes, PlaceInv, Awaited
  <2> QED  BY <2>2, <2>3, <2>4 DEF IInv, TypeOK, QueueOK, JobTypes
<1>4. CASE Submit(j) /\ Rejects(j)
  <2>1. /\ conn[j] = "reading" /\ conn' = [conn EXCEPT ![j] = "writing"]
        /\ response' = [response EXCEPT ![j] = "rejected"]
        /\ UNCHANGED <<queueVars, completed, gone, worker, active, server, stop, pending,
                       ran, passed>>
    BY <1>4 DEF Submit, Answer, queueVars, workerVars, serverVars
  <2>2. QueueOK' /\ Queued' = Queued
    BY <2>1, QueueSame
  <2>3. JobTypes' /\ JobInv'
    BY <1>1, <2>1, Codes DEF JobTypes, JobInv
  <2>4. PlaceInv'
    BY <1>1, <1>2, <2>1, <2>2 DEF JobTypes, PlaceInv, Awaited
  <2> QED  BY <2>2, <2>3, <2>4 DEF IInv, TypeOK, QueueOK, JobTypes
<1>5. CASE Submit(j) /\ ~Rejects(j)
  <2>1. /\ conn[j] = "reading" /\ conn' = [conn EXCEPT ![j] = "waiting"]
        /\ Enqueue(j) /\ ~closed
        /\ passed' = IF queues[CallerOf[j]] = <<>>
                     THEN [passed EXCEPT ![CallerOf[j]] = {}] ELSE passed
        /\ UNCHANGED <<closed, response, completed, gone, worker, active, server, stop,
                       pending, ran>>
    BY <1>5 DEF Submit, Rejects, workerVars, serverVars
  <2>2. /\ j \notin Queued \cup pending /\ active # j
        /\ response[j] = None /\ j \notin completed \cup ran
    BY <1>1, <1>2, <2>1 DEF PlaceInv, JobInv, Awaited
  <2>3. QueueOK' /\ Queued' = Queued \cup {j}
    BY <2>1, <2>2, EnqueueQueue
  <2>4. JobTypes' /\ JobInv'
    BY <1>1, <2>1, Codes DEF JobTypes, JobInv
  <2>5. PlaceInv'
    BY <1>1, <1>2, <2>1, <2>2, <2>3 DEF JobTypes, PlaceInv, Awaited
  <2> QED  BY <2>3, <2>4, <2>5 DEF IInv, TypeOK, QueueOK, JobTypes
<1>6. CASE TimeOut(j)
  <2>1. /\ conn[j] = "waiting" /\ conn' = [conn EXCEPT ![j] = "expired"]
        /\ UNCHANGED <<queueVars, response, completed, gone, worker, active, server, stop,
                       pending, ran, passed>>
    BY <1>6 DEF TimeOut, workerVars, serverVars
  <2>2. QueueOK' /\ Queued' = Queued
    BY <2>1, QueueSame
  <2>3. JobTypes' /\ JobInv'
    BY <1>1, <2>1 DEF JobTypes, JobInv
  <2>4. PlaceInv'
    BY <1>1, <1>2, <2>1, <2>2 DEF JobTypes, PlaceInv, Awaited
  <2> QED  BY <2>2, <2>3, <2>4 DEF IInv, TypeOK, QueueOK, JobTypes
<1>7. CASE Cancel(j) /\ j \in Queued
  <2>1. /\ conn[j] = "expired" /\ conn' = [conn EXCEPT ![j] = "writing"]
        /\ response' = [response EXCEPT ![j] = "rejected"] /\ Dequeue(j)
        /\ UNCHANGED <<closed, completed, gone, worker, active, server, stop, pending,
                       ran, passed>>
    BY <1>7 DEF Cancel, Answer, workerVars, serverVars
  <2>2. QueueOK' /\ Queued' = Queued \ {j}
    BY <1>7, <2>1, DequeueQueue
  <2>3. j \notin pending /\ active # j /\ j \notin completed \cup ran
    BY <1>1, <1>7 DEF PlaceInv
  <2>4. JobTypes' /\ JobInv'
    BY <1>1, <2>1, <2>3, Codes DEF JobTypes, JobInv
  <2>5. PlaceInv'
    BY <1>1, <1>2, <2>1, <2>2, <2>3 DEF JobTypes, PlaceInv, Awaited
  <2> QED  BY <2>2, <2>4, <2>5 DEF IInv, TypeOK, QueueOK, JobTypes
<1>8. CASE Cancel(j) /\ j \notin Queued
  <2>1. /\ conn[j] = "expired" /\ conn' = [conn EXCEPT ![j] = "blocked"]
        /\ UNCHANGED <<queueVars, response, completed, gone, worker, active, server, stop,
                       pending, ran, passed>>
    BY <1>8 DEF Cancel, queueVars, workerVars, serverVars
  <2>2. QueueOK' /\ Queued' = Queued
    BY <2>1, QueueSame
  <2>3. JobTypes' /\ JobInv'
    BY <1>1, <2>1 DEF JobTypes, JobInv
  <2>4. PlaceInv'
    BY <1>1, <1>2, <2>1, <2>2 DEF JobTypes, PlaceInv, Awaited
  <2> QED  BY <2>2, <2>3, <2>4 DEF IInv, TypeOK, QueueOK, JobTypes
<1>9. CASE Wake(j)
  <2>1. /\ conn[j] \in {"waiting", "blocked"} /\ j \in completed
        /\ conn' = [conn EXCEPT ![j] = "writing"]
        /\ response' = [response EXCEPT ![j] = response[j]]
        /\ UNCHANGED <<queueVars, completed, gone, worker, active, server, stop, pending,
                       ran, passed>>
    BY <1>9 DEF Wake, Answer, workerVars, serverVars
  <2>2. QueueOK' /\ Queued' = Queued
    BY <2>1, QueueSame
  <2>3. response' = response /\ response[j] # None
    BY <1>1, <2>1 DEF JobTypes, JobInv
  <2>4. JobTypes' /\ JobInv'
    BY <1>1, <2>1, <2>3 DEF JobTypes, JobInv
  <2>5. PlaceInv'
    BY <1>1, <1>2, <2>1, <2>2, <2>3 DEF JobTypes, PlaceInv, Awaited
  <2> QED  BY <2>2, <2>4, <2>5 DEF IInv, TypeOK, QueueOK, JobTypes
<1>10. CASE Write(j)
  <2>1. /\ conn[j] = "writing" /\ conn' = [conn EXCEPT ![j] = "none"]
        /\ response' = [response EXCEPT ![j] = None] /\ completed' = completed \ {j}
        /\ gone' = gone \ {j} /\ ran' = ran \ {j}
        /\ UNCHANGED <<queueVars, worker, active, server, stop, pending, passed>>
    BY <1>10 DEF Write, workerVars, serverVars
  <2>2. QueueOK' /\ Queued' = Queued
    BY <2>1, QueueSame
  <2>3. j \notin Queued \cup pending /\ active # j
    BY <1>1, <1>2, <2>1 DEF PlaceInv, Awaited
  <2>4. JobTypes' /\ JobInv'
    BY <1>1, <2>1, Codes DEF JobTypes, JobInv
  <2>5. PlaceInv'
    BY <1>1, <1>2, <2>1, <2>2, <2>3 DEF JobTypes, PlaceInv
  <2> QED  BY <2>2, <2>4, <2>5 DEF IInv, TypeOK, QueueOK, JobTypes
<1>11. Cancel(j) \/ Submit(j) => (Submit(j) /\ Rejects(j)) \/ (Submit(j) /\ ~Rejects(j))
                                  \/ (Cancel(j) /\ j \in Queued) \/ (Cancel(j) /\ j \notin Queued)
  OBVIOUS
<1> QED  BY <1>3, <1>4, <1>5, <1>6, <1>7, <1>8, <1>9, <1>10, <1>11 DEF ConnectionNext

LEMMA WorkerStep ==
  ASSUME IInv, WorkerNext
  PROVE  IInv'
<1>1. QueueOK /\ JobTypes /\ PlaceInv /\ JobInv
  BY TypeParts
<1>2. None \notin Clients /\ Queued \subseteq Clients
  BY NoneAssumption DEF Queued
<1>3. CASE Loop \/ GetNothing
  <2>1. /\ worker \in {"loop", "get"} /\ worker' \in {"loop", "get", "exited"}
        /\ UNCHANGED <<queueVars, conn, response, completed, gone, active, server, stop,
                       pending, ran, passed>>
    BY <1>3 DEF Loop, GetNothing, jobVars, serverVars
  <2>2. QueueOK' /\ Queued' = Queued
    BY <2>1, QueueSame
  <2>3. active = None
    BY <1>1, <2>1 DEF JobTypes
  <2>4. JobTypes' /\ JobInv'
    BY <1>1, <2>1, <2>3 DEF JobTypes, JobInv
  <2>5. PlaceInv'
    BY <1>1, <2>1, <2>2, <2>3 DEF PlaceInv
  <2> QED  BY <2>2, <2>4, <2>5 DEF IInv, TypeOK, QueueOK, JobTypes
<1>4. CASE Get
  <2>1. /\ worker' = "taken"
        /\ UNCHANGED <<closed, conn, response, completed, gone, server, stop, pending, ran>>
    BY <1>4 DEF Get, jobVars, serverVars
  <2>2. QueueOK' /\ active' \in Queued /\ Queued' = Queued \ {active'}
    BY <1>4, GetQueue
  <2>3. active' \in Clients /\ active' # None
    BY <1>2, <2>2
  <2>4. JobTypes' /\ JobInv'
    BY <1>1, <2>1, <2>3 DEF JobTypes, JobInv
  <2>5. PlaceInv'
    BY <1>1, <2>1, <2>2, <2>3 DEF PlaceInv
  <2> QED  BY <2>2, <2>4, <2>5 DEF IInv, TypeOK, QueueOK, JobTypes
<1>5. CASE Dispatch
  <2>1. /\ worker = "taken" /\ worker' = "dispatch" /\ ran' = ran \cup {active}
        /\ UNCHANGED <<queueVars, conn, response, completed, gone, active, server, stop,
                       pending, passed>>
    BY <1>5 DEF Dispatch, jobVars, serverVars
  <2>2. QueueOK' /\ Queued' = Queued
    BY <2>1, QueueSame
  <2>3. active # None /\ active \in Clients
    BY <1>1, <2>1 DEF JobTypes
  <2>4. conn[active] \in Awaited /\ response[active] = None /\ active \notin Queued \cup pending
    BY <1>1, <2>3 DEF PlaceInv
  <2>5. JobTypes' /\ JobInv'
    BY <1>1, <2>1, <2>3, <2>4, Codes DEF JobTypes, JobInv, Awaited
  <2>6. PlaceInv'
    BY <1>1, <2>1, <2>2, <2>3, <2>4 DEF PlaceInv
  <2> QED  BY <2>2, <2>5, <2>6 DEF IInv, TypeOK, QueueOK, JobTypes
<1>6. CASE RejectLate \/ Finish
  <2>1. PICK code \in {"rejected", "result", "failed"} :
          /\ response' = [response EXCEPT ![active] = code]
          /\ completed' = completed \cup {active}
          /\ worker = IF code = "rejected" THEN "taken" ELSE "dispatch"
    BY <1>6 DEF RejectLate, Finish, Complete
  <2>2. /\ worker' = "loop" /\ active' = None
        /\ UNCHANGED <<queueVars, conn, gone, server, stop, pending, ran, passed>>
    BY <1>6 DEF RejectLate, Finish, serverVars
  <2>3. QueueOK' /\ Queued' = Queued
    BY <2>2, QueueSame
  <2>4. active # None /\ active \in Clients
    BY <1>1, <2>1 DEF JobTypes
  <2>5. /\ conn[active] \in Awaited /\ active \notin Queued \cup pending
        /\ active \in ran <=> worker = "dispatch"
    BY <1>1, <2>4 DEF PlaceInv
  <2>6. (code = "rejected" => active \notin ran) /\ (code = "result" => active \in ran)
          /\ code # None
    BY <2>1, <2>5, Codes
  <2>7. JobTypes'
    BY <1>1, <2>1, <2>2, <2>4, <2>6 DEF JobTypes
  <2>8. JobInv'
    BY <1>1, <2>1, <2>2, <2>4, <2>5, <2>6 DEF JobTypes, JobInv, Awaited
  <2>9. PlaceInv'
    BY <1>1, <1>2, <2>1, <2>2, <2>3, <2>4, <2>5 DEF JobTypes, PlaceInv
  <2> QED  BY <2>3, <2>7, <2>8, <2>9 DEF IInv, TypeOK, QueueOK, JobTypes
<1> QED  BY <1>3, <1>4, <1>5, <1>6 DEF WorkerNext

-----------------------------------------------------------------------------
(* The theorems *)

LEMMA InitInv ==
  ASSUME Init
  PROVE  IInv
<1>1. /\ <<>> \in Seq(Clients) /\ <<>> \in Seq(Callers) /\ IsInjective(<<>>)
      /\ Len(<<>>) = 0 /\ DOMAIN <<>> = {}
  BY DEF IsInjective
<1>2. \A x : ~Contains(<<>>, x)
  BY <1>1 DEF Contains
<1>3. \A c \in Callers : queues[c] = <<>>
  BY DEF Init
<1>4. Queued = {}
  BY <1>1, <1>3, BrokerAssumption DEF Queued, Contents
<1>5. QueueInv
  BY <1>1, <1>2, <1>3 DEF QueueInv, Init
<1>6. Turns(callers, passed)
  BY <1>1 DEF Turns, Init
<1>7. JobTypes /\ JobInv
  BY Codes DEF JobTypes, JobInv, Init
<1>8. PlaceInv
  BY <1>4 DEF PlaceInv, Init
<1> QED  BY <1>1, <1>5, <1>6, <1>7, <1>8 DEF IInv, TypeOK, JobTypes, Init

LEMMA StutterInv ==
  ASSUME IInv, UNCHANGED vars
  PROVE  IInv'
<1>1. UNCHANGED <<queueVars, conn, response, completed, gone, worker, active, server, stop,
                  pending, ran, passed>>
  BY DEF vars, jobVars, workerVars, serverVars
<1>2. QueueOK' /\ Queued' = Queued
  BY <1>1, QueueSame
<1>3. JobTypes' /\ JobInv' /\ PlaceInv'
  BY <1>1, <1>2, TypeParts DEF JobTypes, JobInv, PlaceInv
<1> QED  BY <1>2, <1>3 DEF IInv, TypeOK, QueueOK, JobTypes

\* The inductive invariant: every job is in one place.
THEOREM BrokerInductive == Spec => []IInv
<1>1. Init => IInv
  BY InitInv
<1>2. IInv /\ [Next]_vars => IInv'
  BY MainStep, ConnectionStep, WorkerStep, StutterInv DEF Next, ServerNext, Ended
<1> QED  BY <1>1, <1>2, PTL DEF Spec

\* The broker keeps the types of its state: the worker has a job exactly while it
\* decides about it or runs it, and a thread that writes has an answer.
THEOREM BrokerTypes == Spec => []TypeOK
<1>1. IInv => TypeOK
  BY DEF IInv
<1> QED  BY <1>1, BrokerInductive, PTL

\* A request that _handle_connection, the worker or the stop answers as rejected
\* has not been dispatched and will not be, and a result was dispatched, whichever
\* thread notices the deadline first.
THEOREM BrokerTruthful == Spec => []AnswerIsTruthful
<1>1. ASSUME IInv  PROVE AnswerIsTruthful
  <2>1. SUFFICES ASSUME NEW j \in Clients
                 PROVE  /\ response[j] = "rejected" => j \notin ran \cup Queued /\ active # j
                        /\ response[j] = "result" => j \in ran
    BY DEF AnswerIsTruthful
  <2>2. /\ response[j] = "rejected" => j \notin ran
        /\ response[j] = "result" => j \in ran
    BY <1>1 DEF IInv, JobInv
  <2>3. j \in Queued \/ active = j => response[j] = None
    BY <1>1, NoneAssumption DEF IInv, PlaceInv
  <2> QED  BY <2>2, <2>3, Codes
<1> QED  BY <1>1, BrokerInductive, PTL

\* _BoundedFairQueue takes turns: between two jobs of a caller that keeps jobs
\* queued, no other caller has two jobs taken.
THEOREM BrokerTurns == Spec => NoOvertaking
<1> DEFINE Fair == active' # active /\ active' # None =>
              \A c \in Callers : c # CallerOf[active'] /\ queues[c] # <<>> =>
                CallerOf[active'] \notin passed[c]
<1>1. ASSUME IInv, Next  PROVE Fair
  <2>1. SUFFICES ASSUME active' # active, active' # None, NEW c \in Callers,
                        c # CallerOf[active'], queues[c] # <<>>
                 PROVE  CallerOf[active'] \notin passed[c]
    OBVIOUS
  <2>2. Get
    <3>1. \A j \in Clients : Connect(j) \/ TimeOut(j) \/ GiveUp(j) \/ ConnectionNext(j)
                               \/ AnswerPending(j) => active' = active
      BY DEF Connect, TimeOut, GiveUp, ConnectionNext, BadRequest, Submit, Cancel, Wake,
         Write, AnswerPending, workerVars
    <3>2. RequestStop \/ Close \/ Ended => active' = active
      BY DEF RequestStop, Close, Ended, workerVars, vars
    <3>3. Exit \/ RejectLate \/ Finish => active' = None
      BY DEF Exit, RejectLate, Finish
    <3>4. Loop \/ GetNothing \/ Dispatch => active' = active
      BY DEF Loop, GetNothing, Dispatch
    <3> QED  BY <1>1, <2>1, <3>1, <3>2, <3>3, <3>4 DEF Next, ServerNext, WorkerNext
  <2>3. /\ callers \in Seq(Callers) /\ callers # <<>> /\ QueueInv /\ TypeOK
        /\ queues \in [Callers -> Seq(Clients)]
    BY <1>1, <2>2 DEF Get, IInv, TypeOK
  <2> DEFINE d == Head(callers)
  <2>4. d \in Callers /\ Contains(callers, d) /\ d = callers[1] /\ Len(callers) \in Nat \ {0}
    BY <2>3, TailOf
  <2>5. active' = Head(queues[d]) /\ queues[d] # <<>> /\ queues[d] \in Seq(Clients)
    BY <2>2, <2>3, <2>4 DEF Get, QueueInv
  <2>6. Contains(queues[d], active') /\ active' \in Clients
    BY <2>5, TailOf
  <2>7. CallerOf[active'] = d
    BY <2>3, <2>4, <2>6 DEF QueueInv
  <2>8. PICK i \in 1 .. Len(callers) : callers[i] = c
    BY <2>1, <2>3 DEF QueueInv, Contains
  <2>9. 1 \in 1 .. Len(callers) /\ ~(i < 1)
    BY <2>4, <2>8
  <2>10. callers[1] \in passed[callers[i]] => i < 1
    BY <1>1, <2>9 DEF IInv, Turns
  <2> QED  BY <2>4, <2>7, <2>8, <2>9, <2>10
<1>2. IInv /\ [Next]_vars => [Fair]_vars
  BY <1>1
<1> QED  BY <1>2, BrokerInductive, PTL DEF Spec, NoOvertaking
=============================================================================
