----------------------------- MODULE QueueLemmas -----------------------------
(* FreeRTOS queues are sequences here; these facts say what sending to the *)
(* back and receiving from the front do to the set of queued buffers.      *)
EXTENDS SequenceTheorems, TLAPS

(* xQueueSend of a buffer that is not yet queued. *)
LEMMA AppendRange ==
  ASSUME NEW S, NEW q \in Seq(S), NEW e \in S
  PROVE  /\ Append(q, e) \in Seq(S) /\ Len(Append(q, e)) = Len(q) + 1
         /\ Range(Append(q, e)) = Range(q) \cup {e}
         /\ IsInjective(q) /\ e \notin Range(q) => IsInjective(Append(q, e))
<1> DEFINE r == Append(q, e)
<1>1. /\ r \in Seq(S) /\ Len(r) = Len(q) + 1 /\ Len(q) \in Nat
      /\ DOMAIN q = 1..Len(q) /\ DOMAIN r = 1..(Len(q) + 1)
      /\ \A i \in 1..Len(q) : r[i] = q[i]
      /\ r[Len(q) + 1] = e
  BY AppendProperties, LenProperties
<1>2. Range(r) = Range(q) \cup {e}
  <2>1. 1..(Len(q) + 1) = 1..Len(q) \cup {Len(q) + 1}  BY <1>1
  <2> QED BY <1>1, <2>1 DEF Range
<1>3. ASSUME IsInjective(q), e \notin Range(q) PROVE IsInjective(r)
  <2> SUFFICES ASSUME NEW a \in 1..(Len(q) + 1), NEW b \in 1..(Len(q) + 1),
                      r[a] = r[b]
               PROVE  a = b
    BY <1>1 DEF IsInjective
  <2>1. \A i \in 1..Len(q) : q[i] # e  BY <1>1, <1>3 DEF Range
  <2> QED BY <1>1, <1>3, <2>1 DEF IsInjective
<1> QED BY <1>1, <1>2, <1>3

(* xQueueSend to the back leaves the front of a non-empty queue in place. *)
LEMMA AppendHead ==
  ASSUME NEW S, NEW q \in Seq(S), NEW e \in S, q # <<>>
  PROVE  Head(Append(q, e)) = Head(q)
<1>1. Len(q) \in Nat \ {0}  BY EmptySeq
<1>2. /\ Append(q, e) \in Seq(S) /\ Append(q, e) # <<>>
      /\ Append(q, e)[1] = q[1]
  BY <1>1, AppendProperties
<1> QED BY <1>2

(* xQueueReceive from a non-empty queue. *)
LEMMA TailRange ==
  ASSUME NEW S, NEW q \in Seq(S), q # <<>>
  PROVE  /\ Tail(q) \in Seq(S) /\ Len(Tail(q)) = Len(q) - 1
         /\ Head(q) \in S /\ Head(q) \in Range(q)
         /\ Range(q) = Range(Tail(q)) \cup {Head(q)}
         /\ IsInjective(q) => /\ IsInjective(Tail(q))
                              /\ Head(q) \notin Range(Tail(q))
<1> DEFINE r == Tail(q)
<1>1. /\ r \in Seq(S) /\ Len(r) = Len(q) - 1 /\ Len(q) \in Nat \ {0}
      /\ DOMAIN q = 1..Len(q) /\ DOMAIN r = 1..(Len(q) - 1)
      /\ \A i \in 1..(Len(q) - 1) : r[i] = q[i + 1]
      /\ Head(q) = q[1] /\ Head(q) \in S
  BY HeadTailProperties, LenProperties, EmptySeq
<1>2. Range(q) = Range(r) \cup {q[1]} /\ q[1] \in Range(q)
  <2>1. \A i \in 1..Len(q) : i = 1 \/ i - 1 \in 1..(Len(q) - 1)  BY <1>1
  <2>2. ASSUME NEW i \in 1..Len(q) PROVE q[i] \in Range(r) \cup {q[1]}
    <3>1. CASE i = 1  BY <3>1
    <3>2. CASE i - 1 \in 1..(Len(q) - 1)
      <4>1. q[i] = r[i - 1] /\ i - 1 \in DOMAIN r  BY <1>1, <3>2
      <4> QED BY <4>1 DEF Range
    <3> QED BY <2>1, <3>1, <3>2
  <2>3. \A i \in 1..(Len(q) - 1) : i + 1 \in 1..Len(q)  BY <1>1
  <2> QED BY <1>1, <2>2, <2>3 DEF Range
<1>3. ASSUME IsInjective(q) PROVE IsInjective(r) /\ q[1] \notin Range(r)
  <2>1. \A a, b \in 1..(Len(q) - 1) : q[a + 1] = q[b + 1] => a = b
    BY <1>1, <1>3 DEF IsInjective
  <2>2. \A a \in 1..(Len(q) - 1) : q[a + 1] # q[1]
    BY <1>1, <1>3 DEF IsInjective
  <2> QED BY <1>1, <2>1, <2>2 DEF IsInjective, Range
<1> QED BY <1>1, <1>2, <1>3

\* Both, as far as the events of a task need them.
LEMMA PushFacts ==
  ASSUME NEW S, NEW q \in Seq(S), NEW e \in S
  PROVE  /\ Append(q, e) \in Seq(S) /\ Len(Append(q, e)) = Len(q) + 1
         /\ Len(q) \in Nat /\ Range(Append(q, e)) = Range(q) \cup {e}
BY AppendRange, LenProperties

LEMMA PopFacts ==
  ASSUME NEW S, NEW q \in Seq(S), q # <<>>
  PROVE  /\ Tail(q) \in Seq(S) /\ Len(Tail(q)) + 1 = Len(q) /\ Len(Tail(q)) \in Nat
         /\ Head(q) \in S /\ Range(q) = Range(Tail(q)) \cup {Head(q)}
BY TailRange, LenProperties

LEMMA EmptyRange == Range(<<>>) = {} /\ IsInjective(<<>>)
BY DEF Range, IsInjective

(* Every x in the queue is followed by a member of T.                      *)
FollowedBy(q, x, T) ==
  \A i \in 1..Len(q) : q[i] = x => \E j \in (i + 1)..Len(q) : q[j] \in T

LEMMA AppendFollowed ==
  ASSUME NEW S, NEW q \in Seq(S), NEW e \in S, NEW x, NEW T, e # x
  PROVE  FollowedBy(q, x, T) \/ e \in T => FollowedBy(Append(q, e), x, T)
<1> DEFINE r == Append(q, e)
<1>1. /\ Len(q) \in Nat /\ Len(r) = Len(q) + 1 /\ r[Len(q) + 1] = e
      /\ \A i \in 1..Len(q) : r[i] = q[i]
  BY AppendProperties, LenProperties
<1> HIDE DEF r
<1>2. ASSUME FollowedBy(q, x, T) PROVE FollowedBy(r, x, T)
  <2> SUFFICES ASSUME NEW i \in 1..Len(r), r[i] = x
               PROVE  \E j \in (i + 1)..Len(r) : r[j] \in T
    BY DEF FollowedBy
  <2>1. i \in 1..Len(q) /\ q[i] = x
    BY <1>1
  <2>2. PICK j \in (i + 1)..Len(q) : q[j] \in T
    BY <1>2, <2>1 DEF FollowedBy
  <2>3. j \in 1..Len(q) /\ j \in (i + 1)..Len(r)
    BY <1>1, <2>1
  <2> QED BY <1>1, <2>2, <2>3
<1>3. ASSUME e \in T PROVE FollowedBy(r, x, T)
  <2> SUFFICES ASSUME NEW i \in 1..Len(r), r[i] = x
               PROVE  Len(r) \in (i + 1)..Len(r) /\ r[Len(r)] \in T
    BY DEF FollowedBy
  <2> QED BY <1>1, <1>3
<1> QED BY <1>2, <1>3 DEF r

LEMMA TailFollowed ==
  ASSUME NEW S, NEW q \in Seq(S), q # <<>>, NEW x, NEW T, FollowedBy(q, x, T)
  PROVE  /\ FollowedBy(Tail(q), x, T)
         /\ Head(q) = x => \E e \in T : e \in Range(Tail(q))
<1> DEFINE r == Tail(q)
<1>1. /\ Len(q) \in Nat \ {0} /\ Len(r) = Len(q) - 1 /\ Head(q) = q[1]
      /\ \A i \in 1..(Len(q) - 1) : r[i] = q[i + 1]
      /\ DOMAIN r = 1..(Len(q) - 1)
  BY HeadTailProperties, LenProperties, EmptySeq
<1> HIDE DEF r
<1>2. FollowedBy(r, x, T)
  <2> SUFFICES ASSUME NEW i \in 1..Len(r), r[i] = x
               PROVE  \E j \in (i + 1)..Len(r) : r[j] \in T
    BY DEF FollowedBy
  <2>1. i + 1 \in 1..Len(q) /\ q[i + 1] = x
    BY <1>1
  <2>2. PICK j \in (i + 2)..Len(q) : q[j] \in T
    BY <2>1 DEF FollowedBy
  <2>3. j - 1 \in (i + 1)..Len(r) /\ r[j - 1] = q[j]
    BY <1>1, <2>1
  <2> QED BY <2>2, <2>3
<1>3. ASSUME Head(q) = x PROVE \E e \in T : e \in Range(r)
  <2>1. 1 \in 1..Len(q) /\ q[1] = x
    BY <1>1, <1>3
  <2>2. PICK j \in 2..Len(q) : q[j] \in T
    BY <2>1 DEF FollowedBy
  <2>3. j - 1 \in DOMAIN r /\ r[j - 1] = q[j]
    BY <1>1
  <2> QED BY <2>2, <2>3 DEF Range
<1> QED BY <1>2, <1>3 DEF r
=============================================================================
