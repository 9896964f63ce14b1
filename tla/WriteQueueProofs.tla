-------------------------- MODULE WriteQueueProofs -------------------------
(***************************************************************************)
(* Proofs about the write queue for every value of its constants: types,   *)
(* no lost wakeup, the bound on how long input is overtaken by replies,    *)
(* and that each of its steps is a step of the two FIFO channels.          *)
(***************************************************************************)
EXTENDS WriteQueue, FiniteSetTheorems, TLAPS

USE LimitsAssumption, CounterAssumption, LensAssumption

(* What the fairness counter says of the chunk that waits: as long as it   *)
(* is below the constant, it counts at least the replies that overtook.    *)
Overtaking ==
  /\ InputNotOvertaken
  /\ input = <<>> => overtaken = 0
  /\ input # <<>> /\ replies_since_input < REPLIES_PER_INPUT
       => overtaken <= replies_since_input

Inv == TypeOK /\ NoLostWakeup /\ Overtaking

(* The chunks of an input are a sequence of lengths.                       *)
LEMMA ChunksType ==
  ASSUME NEW len \in Nat
  PROVE  Chunks(len) \in Seq(Nat)
<1> DEFINE k == (len + INPUT_CHUNK_BYTES - 1) \div INPUT_CHUNK_BYTES
<1>1. k \in Nat
  BY SMT
<1>2. ASSUME NEW i \in 1 .. k, ~(i * INPUT_CHUNK_BYTES <= len)
      PROVE  len - (i - 1) * INPUT_CHUNK_BYTES \in Nat
  <2> DEFINE c == INPUT_CHUNK_BYTES
  <2>1. k * c <= len + c - 1
    BY <1>1, SMT
  <2>2. i * c <= k * c
    BY <1>1, <1>2, SMT
  <2>3. (i - 1) * c = i * c - c
    BY SMT
  <2> QED
    BY <2>1, <2>2, <2>3, SMT
<1> HIDE DEF k
<1>3. \A i \in 1 .. k :
        (IF i * INPUT_CHUNK_BYTES <= len
         THEN INPUT_CHUNK_BYTES
         ELSE len - (i - 1) * INPUT_CHUNK_BYTES) \in Nat
  BY <1>2
<1> QED
  BY <1>1, <1>3 DEF Chunks, k

(* Below its width, the counter counts.                                    *)
LEMMA IncrementedBelow ==
  ASSUME NEW count \in Nat, count + 1 < CounterSize
  PROVE  Incremented(count) = count + 1
  BY SMT DEF Incremented

LEMMA InitInv == Init => Inv
<1> SUFFICES ASSUME Init PROVE Inv
  OBVIOUS
<1>1. replies \in Seq(Nat) /\ input \in Seq(Nat)
  BY DEF Init
<1>2. closed \in BOOLEAN
  BY DEF Init
<1>3. /\ reply_bytes \in Int /\ input_bytes \in Int /\ overtaken \in Nat
      /\ replies_since_input \in 0 .. CounterSize - 1
  BY DEF Init
<1>4. owner \in Producer /\ ui \in {"ready", "notify_one"} /\ writer \in Writer
  BY DEF Init, Producer, Writer
<1>5. NoLostWakeup /\ Overtaking
  BY DEF Init, NoLostWakeup, Overtaking, InputNotOvertaken
<1> QED
  BY <1>1, <1>2, <1>3, <1>4, <1>5 DEF Inv, TypeOK

LEMMA NextInv == Inv /\ [Next]_vars => Inv'
<1> USE DEF Inv
<1> SUFFICES ASSUME Inv, [Next]_vars
             PROVE  Inv'
  OBVIOUS
<1>1. TypeOK'
  <2> USE DEF TypeOK, Producer, Writer, Gone
  <2>1. ASSUME NEW len \in ReplyLens, PushReply(len)
        PROVE  TypeOK'
    BY <2>1 DEF PushReply
  <2>2. ASSUME NEW len \in InputLens, NEW kind \in InputKind, PushInput(len, kind)
        PROVE  TypeOK'
    <3>1. Chunks(len) \in Seq(Nat)
      BY ChunksType
    <3>2. input' \in Seq(Nat)
      BY <2>2, <3>1 DEF PushInput
    <3> QED
      BY <2>2, <3>2 DEF PushInput
  <2>3. CASE Close
    BY <2>3 DEF Close
  <2>4. CASE OwnerNotifies
    BY <2>4 DEF OwnerNotifies, Woken, queue
  <2>5. CASE UiNotifies
    BY <2>5 DEF UiNotifies, Woken, queue
  <2>6. CASE TakeReply
    <3>1. replies' \in Seq(Nat) /\ reply_bytes' \in Int
      BY <2>6 DEF TakeReply
    <3>2. replies_since_input' \in 0 .. CounterSize - 1
      BY <2>6 DEF TakeReply, Incremented
    <3> QED
      BY <2>6, <3>1, <3>2 DEF TakeReply
  <2>7. CASE TakeInput
    BY <2>7 DEF TakeInput
  <2>8. CASE Wait \/ WriterExits \/ SpuriousWakeup \/ Written \/ WriteFails
    BY <2>8 DEF Wait, WriterExits, SpuriousWakeup, Written, WriteFails, queue
  <2>9. CASE UNCHANGED vars
    BY <2>9 DEF vars, queue
  <2> QED
    BY <2>1, <2>2, <2>3, <2>4, <2>5, <2>6, <2>7, <2>8, <2>9 DEF Next, WriterNext
<1>2. NoLostWakeup'
  <2> USE DEF NoLostWakeup, TypeOK, Producer
  <2>1. ASSUME NEW len \in ReplyLens, PushReply(len)
        PROVE  NoLostWakeup'
    BY <2>1 DEF PushReply
  <2>2. ASSUME NEW len \in InputLens, NEW kind \in InputKind, PushInput(len, kind)
        PROVE  NoLostWakeup'
    BY <2>2 DEF PushInput
  <2>3. CASE Close
    BY <2>3 DEF Close
  <2>4. CASE OwnerNotifies \/ UiNotifies
    BY <2>4 DEF OwnerNotifies, UiNotifies, Woken
  <2>5. CASE TakeReply \/ TakeInput
    BY <2>5 DEF TakeReply, TakeInput
  <2>6. CASE Wait
    BY <2>6 DEF Wait, Serving, queue
  <2>7. CASE WriterExits \/ SpuriousWakeup \/ Written \/ WriteFails
    BY <2>7 DEF WriterExits, SpuriousWakeup, Written, WriteFails
  <2>8. CASE UNCHANGED vars
    BY <2>8 DEF vars, queue
  <2> QED
    BY <2>1, <2>2, <2>3, <2>4, <2>5, <2>6, <2>7, <2>8 DEF Next, WriterNext
<1>3. Overtaking'
  <2> USE DEF Overtaking, InputNotOvertaken, TypeOK
  <2>1. ASSUME NEW len \in ReplyLens, PushReply(len)
        PROVE  Overtaking'
    BY <2>1 DEF PushReply
  <2>2. ASSUME NEW len \in InputLens, NEW kind \in InputKind, PushInput(len, kind)
        PROVE  Overtaking'
    <3>1. input # <<>> => input' # <<>>
      BY <2>2, ChunksType DEF PushInput
    <3> QED
      BY <2>2, <3>1 DEF PushInput
  <2>3. CASE TakeReply
    <3>1. CASE input = <<>>
      BY <2>3, <3>1 DEF TakeReply
    <3>2. CASE input # <<>>
      <4>1. replies_since_input < REPLIES_PER_INPUT
        BY <2>3, <3>2 DEF TakeReply, PreferReply
      <4>2. replies_since_input' = replies_since_input + 1
        BY <2>3, <4>1, IncrementedBelow DEF TakeReply
      <4> QED
        BY <2>3, <3>2, <4>1, <4>2 DEF TakeReply
    <3> QED
      BY <3>1, <3>2
  <2>4. CASE TakeInput
    BY <2>4 DEF TakeInput
  <2>5. CASE Close \/ OwnerNotifies \/ UiNotifies \/ Wait \/ WriterExits
             \/ SpuriousWakeup \/ Written \/ WriteFails \/ UNCHANGED vars
    BY <2>5 DEF Close, OwnerNotifies, UiNotifies, Wait, WriterExits,
                SpuriousWakeup, Written, WriteFails, vars, queue
  <2> QED
    BY <2>1, <2>2, <2>3, <2>4, <2>5 DEF Next, WriterNext
<1> QED
  BY <1>1, <1>2, <1>3

(* Inv is inductive, so it holds in every reachable state.                 *)
LEMMA Invariance == Spec => []Inv
  BY InitInv, NextInv, PTL DEF Spec

(* Every variable of the write queue keeps its type, whatever the limits,  *)
(* the lengths pushed and the build: the fairness counter of take_next     *)
(* stays within its width although nothing bounds a run of replies.        *)
THEOREM TypeCorrect == Spec => []TypeOK
  BY Invariance, PTL DEF Inv

(* WriteQueue::next never sleeps while there is a chunk to write or a      *)
(* close to see without a producer that is still to notify it.             *)
THEOREM NoWakeupLost == Spec => []NoLostWakeup
  BY Invariance, PTL DEF Inv

(* take_next writes at most REPLIES_PER_INPUT replies while an input chunk *)
(* waits, for every width of the counter greater than that constant, with  *)
(* overflow checks or wrapping.                                            *)
THEOREM InputBounded == Spec => []InputNotOvertaken
<1>1. Inv => InputNotOvertaken
  BY DEF Inv, Overtaking
<1> QED
  BY <1>1, Invariance, PTL

(***************************************************************************)
(* The bytes of a class are those of its chunks                            *)
(***************************************************************************)
LEMMA LeastNat ==
  ASSUME NEW S \in SUBSET Nat, S # {}
  PROVE  \E m \in S : \A n \in S : m <= n
<1> DEFINE R == StrictSubsetOrdering(Nat)
           I == {T \in FiniteSubsetsOf(Nat) : \E m \in S : T = 0..m}
<1>1. \A m \in S : 0..m \in I
  <2> TAKE m \in S
  <2>1. IsFiniteSet(0..m)
    BY FS_Interval
  <2> QED
    BY <2>1 DEF FiniteSubsetsOf
<1>2. \E x \in I : \A y \in I : ~ (<<y, x>> \in R)
  <2>1. I # {} /\ I \subseteq FiniteSubsetsOf(Nat)
    BY <1>1
  <2> HIDE DEF I, R
  <2> QED
    BY <2>1, FS_StrictSubsetOrderingWellFounded, WFMin DEF R
<1>3. PICK m \in S : \A y \in I : ~ (<<y, 0..m>> \in R)
  BY <1>2
<1>4. ASSUME NEW n \in S, n < m PROVE FALSE
  <2>1. 0..n \subseteq 0..m /\ 0..n # 0..m
    <3>1. m \in 0..m /\ m \notin 0..n
      BY <1>4
    <3> QED
      BY <1>4, <3>1
  <2>2. <<0..n, 0..m>> \in R
    BY <2>1 DEF StrictSubsetOrdering
  <2> QED
    BY <2>2, <1>1, <1>3
<1> QED
  BY <1>4

(* A running total never falls below its first chunk.                      *)
LEMMA HeadFirst ==
  ASSUME NEW s, NEW k \in Nat, NEW sum,
         \A i \in 1 .. k : s[i] \in Nat /\ sum[i] \in Int,
         sum[0] = 0, \A i \in 1 .. k : sum[i] = sum[i - 1] + s[i]
  PROVE  \A i \in 1 .. k : s[1] <= sum[i]
<1> DEFINE Bad == {i \in 1 .. k : ~(s[1] <= sum[i])}
<1>1. SUFFICES ASSUME Bad # {} PROVE FALSE
  OBVIOUS
<1>2. Bad \in SUBSET Nat
  OBVIOUS
<1> HIDE DEF Bad
<1>3. \E i \in Bad : \A j \in Bad : i <= j
  BY <1>1, <1>2, LeastNat
<1>4. PICK i \in Bad : \A j \in Bad : i <= j
  BY <1>3
<1>5. i \in 1 .. k /\ ~(s[1] <= sum[i])
  BY DEF Bad
<1>6. sum[i] = sum[i - 1] + s[i] /\ s[1] \in Nat /\ s[i] \in Nat
  BY <1>5
<1>7. CASE i = 1
  BY <1>5, <1>6, <1>7
<1>8. CASE i # 1
  <2>1. i - 1 \in 1 .. k
    BY <1>5, <1>8
  <2>2. i - 1 \notin Bad
    BY <1>2, <1>4, <1>5, <2>1
  <2>3. s[1] <= sum[i - 1] /\ sum[i - 1] \in Int
    BY <2>1, <2>2 DEF Bad
  <2> QED
    BY <1>5, <1>6, <2>3
<1> QED
  BY <1>7, <1>8

LEMMA AddsUpEmpty == AddsUp(<<>>, 0)
<1> DEFINE sum == [i \in 0 .. 0 |-> 0]
<1>1. sum \in [0 .. Len(<<>>) -> 0 .. 0] /\ sum[0] = 0 /\ sum[Len(<<>>)] = 0
  OBVIOUS
<1>2. \A i \in 1 .. Len(<<>>) : sum[i] = sum[i - 1] + <<>>[i]
  OBVIOUS
<1> HIDE DEF sum
<1> QED
  BY <1>1, <1>2 DEF AddsUp

LEMMA AddsUpAppend ==
  ASSUME NEW s \in Seq(Nat), NEW n \in Int, AddsUp(s, n), NEW len \in Nat
  PROVE  AddsUp(Append(s, len), n + len)
<1>1. PICK sum \in [0 .. Len(s) -> 0 .. n] :
        /\ sum[0] = 0 /\ sum[Len(s)] = n
        /\ \A i \in 1 .. Len(s) : sum[i] = sum[i - 1] + s[i]
  BY DEF AddsUp
<1> DEFINE t == Append(s, len)
           m == n + len
           more == [i \in 0 .. Len(t) |-> IF i <= Len(s) THEN sum[i] ELSE m]
<1>2. Len(s) \in Nat /\ Len(t) = Len(s) + 1 /\ m \in Int
      /\ (\A i \in 1 .. Len(s) : t[i] = s[i]) /\ t[Len(s) + 1] = len
  OBVIOUS
<1>3. more \in [0 .. Len(t) -> 0 .. m]
  BY <1>1, <1>2
<1>4. more[0] = 0 /\ more[Len(t)] = m
  BY <1>1, <1>2
<1>5. ASSUME NEW i \in 1 .. Len(t) PROVE more[i] = more[i - 1] + t[i]
  BY <1>1, <1>2
<1> HIDE DEF more, t, m
<1>6. AddsUp(t, m)
  BY <1>3, <1>4, <1>5 DEF AddsUp
<1> QED
  BY <1>6 DEF t, m

LEMMA AddsUpTail ==
  ASSUME NEW s \in Seq(Nat), s # <<>>, NEW n \in Int, AddsUp(s, n)
  PROVE  AddsUp(Tail(s), n - Head(s)) /\ Head(s) <= n
<1>1. PICK sum \in [0 .. Len(s) -> 0 .. n] :
        /\ sum[0] = 0 /\ sum[Len(s)] = n
        /\ \A i \in 1 .. Len(s) : sum[i] = sum[i - 1] + s[i]
  BY DEF AddsUp
<1> DEFINE t == Tail(s)
           m == n - s[1]
           less == [i \in 0 .. Len(t) |-> sum[i + 1] - s[1]]
<1>2. Len(s) \in Nat /\ Len(s) >= 1 /\ s[1] \in Nat /\ Head(s) = s[1]
  OBVIOUS
<1>3. Len(t) = Len(s) - 1 /\ t \in Seq(Nat) /\ \A i \in 1 .. Len(t) : t[i] = s[i + 1]
  OBVIOUS
<1>20. \A i \in 0 .. Len(s) : sum[i] \in 0 .. n
  BY <1>1
<1>21. \A i \in 1 .. Len(s) : s[i] \in Nat /\ sum[i] \in Int
  BY <1>20, <1>2
<1>22. \A i \in 1 .. Len(s) : s[1] <= sum[i]
  BY <1>1, <1>2, <1>21, HeadFirst
<1>4. \A i \in 1 .. Len(s) : s[1] <= sum[i] /\ sum[i] \in 0 .. n
  BY <1>20, <1>22, <1>2
<1>5. s[1] <= n
  BY <1>1, <1>2, <1>4
<1> HIDE DEF t
<1>6. less \in [0 .. Len(t) -> 0 .. m]
  BY <1>2, <1>3, <1>4, SMTT(30)
<1>7. less[0] = 0 /\ less[Len(t)] = m
  BY <1>1, <1>2, <1>3, <1>4
<1>8. ASSUME NEW i \in 1 .. Len(t) PROVE less[i] = less[i - 1] + t[i]
  <2>1. less[i] = sum[i + 1] - s[1] /\ less[i - 1] = sum[i] - s[1] /\ t[i] = s[i + 1]
    BY <1>2, <1>3, SMTT(30)
  <2>2. i + 1 \in 1 .. Len(s) /\ i \in 1 .. Len(s) /\ i + 1 - 1 = i
    BY <1>2, <1>3
  <2>3. sum[i + 1] = sum[i] + s[i + 1]
    BY <1>1, <2>2
  <2>4. sum[i] \in Int /\ s[i + 1] \in Int
    BY <1>4, <1>21, <2>2
  <2> HIDE DEF less
  <2> QED
    BY <1>2, <2>1, <2>3, <2>4, SMTT(30)
<1> HIDE DEF less, m
<1>9. AddsUp(t, m)
  BY <1>6, <1>7, <1>8 DEF AddsUp
<1> QED
  BY <1>2, <1>5, <1>9 DEF t, m

LEMMA AddsUpConcat ==
  ASSUME NEW s \in Seq(Nat), NEW n \in Int, AddsUp(s, n),
         NEW u \in Seq(Nat), NEW len \in Int, AddsUp(u, len)
  PROVE  AddsUp(s \o u, n + len)
<1>1. PICK sum \in [0 .. Len(s) -> 0 .. n] :
        /\ sum[0] = 0 /\ sum[Len(s)] = n
        /\ \A i \in 1 .. Len(s) : sum[i] = sum[i - 1] + s[i]
  BY DEF AddsUp
<1>2. PICK next \in [0 .. Len(u) -> 0 .. len] :
        /\ next[0] = 0 /\ next[Len(u)] = len
        /\ \A i \in 1 .. Len(u) : next[i] = next[i - 1] + u[i]
  BY DEF AddsUp
<1> DEFINE t == s \o u
           k == Len(s)
           m == n + len
           both == [i \in 0 .. Len(t) |-> IF i <= k THEN sum[i] ELSE n + next[i - k]]
<1>3. /\ k \in Nat /\ Len(u) \in Nat /\ Len(t) = k + Len(u) /\ m \in Int
      /\ \A i \in 1 .. k : t[i] = s[i]
      /\ \A i \in 1 .. Len(u) : t[k + i] = u[i]
  OBVIOUS
<1>20. \A i \in 0 .. k : sum[i] \in 0 .. n
  BY <1>1
<1>21. \A i \in 0 .. Len(u) : next[i] \in 0 .. len
  BY <1>2
<1>22. \A i \in 1 .. Len(u) : u[i] \in Nat
  OBVIOUS
<1>23. n \in Nat /\ len \in Nat
  <2>1. sum[0] \in 0 .. n /\ next[0] \in 0 .. len
    BY <1>3, <1>20, <1>21
  <2> QED
    BY <2>1
<1>4. /\ \A i \in 0 .. k : sum[i] \in 0 .. n
      /\ \A i \in 0 .. Len(u) : next[i] \in 0 .. len
      /\ \A i \in 1 .. Len(u) : u[i] \in Nat
      /\ n \in Nat /\ len \in Nat
  BY <1>20, <1>21, <1>22, <1>23
<1>5. sum[k] = n /\ next[0] = 0 /\ next[Len(u)] = len /\ sum[0] = 0
  BY <1>1, <1>2
<1>6. \A i \in 1 .. k : sum[i] = sum[i - 1] + t[i]
  BY <1>1, <1>3
<1>7. \A i \in 1 .. Len(u) : next[i] = next[i - 1] + t[k + i]
  BY <1>2, <1>3
<1> HIDE DEF t, k
<1>8. both \in [0 .. Len(t) -> 0 .. m]
  <2>1. ASSUME NEW i \in 0 .. Len(t), i <= k PROVE sum[i] \in 0 .. m
    <3>1. i \in 0 .. k
      BY <1>3, <2>1
    <3>2. sum[i] \in 0 .. n
      BY <1>4, <3>1
    <3> QED
      BY <1>4, <3>2
  <2>2. ASSUME NEW i \in 0 .. Len(t), ~(i <= k) PROVE n + next[i - k] \in 0 .. m
    <3>1. i - k \in 0 .. Len(u)
      BY <1>3, <2>2
    <3>2. next[i - k] \in 0 .. len
      BY <1>4, <3>1
    <3> QED
      BY <1>4, <3>2
  <2> HIDE DEF m
  <2> QED
    BY <2>1, <2>2
<1>9. both[0] = 0 /\ both[Len(t)] = m
  BY <1>3, <1>4, <1>5
<1>10. ASSUME NEW i \in 1 .. Len(t) PROVE both[i] = both[i - 1] + t[i]
  <2>1. CASE i <= k
    BY <1>3, <1>6, <2>1
  <2>2. CASE i > k
    <3>0. i - k \in 1 .. Len(u)
      BY <1>3, <2>2
    <3>1. PICK j \in 1 .. Len(u) : j = i - k
      BY <3>0
    <3>2. both[i] = n + next[j]
      <4>1. i \in 0 .. Len(t) /\ ~(i <= k)
        BY <1>3, <2>2
      <4> QED
        BY <3>1, <4>1
    <3>3. both[i - 1] = n + next[j - 1]
      <4>1. i - 1 \in 0 .. Len(t) /\ i - 1 - k = j - 1
        BY <1>3, <3>1, SMTT(30)
      <4>2. CASE i - 1 <= k
        <5>1. i - 1 = k /\ j - 1 = 0
          BY <1>3, <2>2, <3>1, <4>2
        <5>2. both[i - 1] = sum[k]
          BY <4>1, <5>1
        <5> QED
          BY <1>4, <1>5, <5>1, <5>2
      <4>3. CASE ~(i - 1 <= k)
        BY <4>1, <4>3
      <4> QED
        BY <4>2, <4>3
    <3> HIDE DEF both
    <3>4. next[j] = next[j - 1] + t[i]
      <4>1. k + j = i
        BY <1>3, <3>1
      <4> QED
        BY <1>7, <4>1
    <3>5. next[j - 1] \in Int
      <4>1. j - 1 \in 0 .. Len(u)
        BY <1>3
      <4> QED
        BY <1>4, <4>1
    <3>6. t[i] \in Int
      <4>1. k + j = i
        BY <1>3, <3>1
      <4>2. t[k + j] = u[j] /\ u[j] \in Nat
        BY <1>3, <1>4
      <4> QED
        <5>1. t[i] = u[j]
          BY <4>1, <4>2
        <5> QED
          BY <4>2, <5>1
    <3> QED
      BY <1>23, <3>2, <3>3, <3>4, <3>5, <3>6, SMTT(30)
  <2> QED
    BY <1>3, <2>1, <2>2
<1> HIDE DEF both, m
<1>11. AddsUp(t, m)
  BY <1>8, <1>9, <1>10 DEF AddsUp
<1> QED
  BY <1>11 DEF t, m

(* slice::chunks leaves no byte of an input out.                           *)
LEMMA ChunksAddUp ==
  ASSUME NEW len \in Nat
  PROVE  AddsUp(Chunks(len), len)
<1> DEFINE c == INPUT_CHUNK_BYTES
           k == (len + c - 1) \div c
           s == Chunks(len)
           sum == [i \in 0 .. k |-> IF i * c <= len THEN i * c ELSE len]
<1>1. k \in Nat /\ k * c >= len /\ (k - 1) * c < len + 1
  BY SMT
<1>2. Len(s) = k /\ \A i \in 1 .. k : s[i] = IF i * c <= len THEN c ELSE len - (i - 1) * c
  BY <1>1, ChunksType DEF Chunks
<1> HIDE DEF k, s
<1>3. \A i \in 0 .. k : i * c \in Nat
  BY SMT
<1>4. sum \in [0 .. k -> 0 .. len]
  BY <1>3
<1>5. sum[0] = 0 /\ sum[k] = len
  BY <1>1, <1>3, SMT
<1>6. ASSUME NEW i \in 1 .. k PROVE sum[i] = sum[i - 1] + s[i]
  <2>1. (i - 1) * c = i * c - c /\ i * c \in Nat /\ c \in Nat /\ i - 1 \in 0 .. k /\ i \in 0 .. k
    BY <1>1, <1>3, SMT
  <2>2. (i - 1) * c <= (k - 1) * c
    BY <1>1, SMT
  <2>3. (i - 1) * c <= len
    BY <1>1, <2>1, <2>2, SMT
  <2>4. sum[i - 1] = (i - 1) * c
    BY <2>1, <2>3
  <2>5. sum[i] = IF i * c <= len THEN i * c ELSE len
    BY <2>1
  <2> HIDE DEF sum, c
  <2> QED
    BY <1>2, <2>1, <2>4, <2>5
<1> HIDE DEF sum
<1> QED
  BY <1>2, <1>4, <1>5, <1>6 DEF AddsUp, s

BytesInv ==
  /\ BytesMatchContents
  /\ reply_bytes <= REPLY_RESERVE_BYTES /\ input_bytes <= PASTE_INPUT_BYTES

LEMMA NextBytes == Inv /\ BytesInv /\ [Next]_vars => BytesInv'
<1> USE DEF BytesInv, BytesMatchContents
<1> SUFFICES ASSUME Inv, BytesInv, [Next]_vars PROVE BytesInv'
  OBVIOUS
<1>0. /\ replies \in Seq(Nat) /\ input \in Seq(Nat)
      /\ reply_bytes \in Int /\ input_bytes \in Int
  BY DEF Inv, TypeOK
<1>1. ASSUME NEW len \in ReplyLens, PushReply(len) PROVE BytesInv'
  <2>1. AddsUp(replies', reply_bytes')
    BY <1>0, <1>1, AddsUpAppend DEF PushReply
  <2> QED
    BY <1>1, <2>1 DEF PushReply
<1>2. ASSUME NEW len \in InputLens, NEW kind \in InputKind, PushInput(len, kind)
      PROVE  BytesInv'
  <2>1. Chunks(len) \in Seq(Nat) /\ AddsUp(Chunks(len), len) /\ len \in Nat
    BY ChunksType, ChunksAddUp
  <2>2. AddsUp(input', input_bytes')
    BY <1>0, <1>2, <2>1, AddsUpConcat DEF PushInput
  <2>3. input_bytes' <= PASTE_INPUT_BYTES
    BY <1>0, <1>2, <2>1 DEF PushInput, Limit
  <2> QED
    BY <1>2, <2>2, <2>3 DEF PushInput
<1>3. CASE TakeReply
  <2>1. AddsUp(replies', reply_bytes') /\ reply_bytes' <= reply_bytes
    <3>1. Head(replies) \in Nat /\ replies # <<>>
      BY <1>0, <1>3 DEF TakeReply
    <3> QED
      BY <1>0, <1>3, <3>1, AddsUpTail DEF TakeReply
  <2>2. reply_bytes' \in Int
    BY <1>0, <1>3 DEF TakeReply
  <2> QED
    BY <1>0, <1>3, <2>1, <2>2 DEF TakeReply
<1>4. CASE TakeInput
  <2>1. AddsUp(input', input_bytes') /\ input_bytes' <= input_bytes
    <3>1. Head(input) \in Nat /\ input # <<>>
      BY <1>0, <1>4 DEF TakeInput
    <3> QED
      BY <1>0, <1>4, <3>1, AddsUpTail DEF TakeInput
  <2>2. input_bytes' \in Int
    BY <1>0, <1>4 DEF TakeInput
  <2> QED
    BY <1>0, <1>4, <2>1, <2>2 DEF TakeInput
<1>5. CASE Close \/ OwnerNotifies \/ UiNotifies \/ Wait \/ WriterExits
           \/ SpuriousWakeup \/ Written \/ WriteFails \/ UNCHANGED vars
  BY <1>5 DEF Close, OwnerNotifies, UiNotifies, Wait, WriterExits,
              SpuriousWakeup, Written, WriteFails, vars, queue
<1> QED
  BY <1>1, <1>2, <1>3, <1>4, <1>5 DEF Next, WriterNext

LEMMA BytesInvariance == Spec => []BytesInv
<1>1. Init => BytesInv
  BY AddsUpEmpty DEF Init, BytesInv, BytesMatchContents
<1> QED
  BY <1>1, Invariance, NextBytes, PTL DEF Spec

(* The two counters are the bytes pending, after any splitting of pastes   *)
(* and any interleaving of pushes with the writer.                         *)
THEOREM BytesCounted == Spec => []BytesMatchContents
<1>1. BytesInv => BytesMatchContents
  BY DEF BytesInv
<1> QED
  BY <1>1, BytesInvariance, PTL

(* The subtractions of take_next do not underflow, and neither class ever  *)
(* holds more than its reserve.                                            *)
THEOREM BytesBounded ==
  Spec => [](/\ replies # <<>> => Head(replies) <= reply_bytes
             /\ input # <<>> => Head(input) <= input_bytes
             /\ reply_bytes <= REPLY_RESERVE_BYTES /\ input_bytes <= PASTE_INPUT_BYTES)
<1>1. Inv /\ BytesInv =>
        /\ replies # <<>> => Head(replies) <= reply_bytes
        /\ input # <<>> => Head(input) <= input_bytes
        /\ reply_bytes <= REPLY_RESERVE_BYTES /\ input_bytes <= PASTE_INPUT_BYTES
  BY AddsUpTail DEF Inv, TypeOK, BytesInv, BytesMatchContents
<1> QED
  BY <1>1, Invariance, BytesInvariance, PTL

(* Pushing the chunks of an input leaves what waits in front of them.      *)
LEMMA ExtendedPrefix ==
  ASSUME NEW s \in Seq(Nat), NEW t \in Seq(Nat)
  PROVE  IsPrefix(s, s \o t)
  BY DEF IsPrefix

LEMMA StepIsChannelStep ==
  ASSUME TypeOK, [Next]_vars, ~OverflowChecks
  PROVE  [Channels!Next]_(Channels!vars)
<1> USE DEF TypeOK, Channels!Next, Channels!vars
<1>1. ASSUME NEW len \in ReplyLens, PushReply(len)
      PROVE  Channels!AcceptReply
  <2>1. replies' = Append(replies, len) /\ replies' # <<>> /\ Last(replies') = len
    BY <1>1 DEF PushReply, Last
  <2>2. replies' = Append(replies, Last(replies'))
    BY <2>1
  <2>3. ~closed /\ UNCHANGED <<input, closed, writer>>
    BY <1>1 DEF PushReply
  <2> QED
    BY <2>1, <2>2, <2>3 DEF Channels!AcceptReply, Channels!Last, Last
<1>2. ASSUME NEW len \in InputLens, NEW kind \in InputKind, PushInput(len, kind)
      PROVE  Channels!AcceptInput
  <2>1. IsPrefix(input, input')
    BY <1>2, ChunksType, ExtendedPrefix DEF PushInput
  <2> QED
    BY <1>2, <2>1 DEF PushInput, Channels!AcceptInput, Channels!IsPrefix, IsPrefix
<1>3. CASE Close
  BY <1>3 DEF Close, Channels!Close
<1>4. CASE OwnerNotifies \/ UiNotifies
  BY <1>4 DEF OwnerNotifies, UiNotifies, Woken, Gone, queue
<1>5. CASE TakeReply
  <2>1. /\ replies # <<>> /\ replies' = Tail(replies) /\ ~closed
        /\ UNCHANGED <<input, closed>> /\ writer = "locking"
    BY <1>5 DEF TakeReply, Serving
  <2>2. writer' = "writing"
    BY <1>5 DEF TakeReply
  <2> QED
    BY <2>1, <2>2 DEF Channels!HandReply, Gone
<1>6. CASE TakeInput
  BY <1>6 DEF TakeInput, Serving, Gone, Channels!HandInput
<1>7. CASE WriterExits \/ WriteFails
  BY <1>7 DEF WriterExits, WriteFails, Gone, queue, Channels!Leave
<1>8. CASE Wait \/ SpuriousWakeup \/ Written \/ UNCHANGED vars
  BY <1>8 DEF Wait, SpuriousWakeup, Written, Serving, Gone, queue, vars
<1> QED
  BY <1>1, <1>2, <1>3, <1>4, <1>5, <1>6, <1>7, <1>8 DEF Next, WriterNext

(* In a release build every step of the queue is a step of two FIFO        *)
(* channels or leaves them alone: no accepted reply or input chunk is      *)
(* lost, repeated or reordered within its class, and none is handed to the *)
(* writer once the queue is closed.  (In a debug build the panic of        *)
(* take_next takes a reply with it.)                                       *)
THEOREM RefinesFifo ==
  ASSUME ~OverflowChecks
  PROVE  Spec => Channels!Fifo
<1>1. Init => Channels!Init
  BY DEF Init, Channels!Init, Gone
<1>2. Inv /\ [Next]_vars => [Channels!Next]_(Channels!vars)
  BY StepIsChannelStep DEF Inv
<1> QED
  BY <1>1, <1>2, Invariance, PTL DEF Spec, Channels!Fifo
=============================================================================
