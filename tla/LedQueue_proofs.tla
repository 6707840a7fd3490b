-------------------------- MODULE LedQueue_proofs --------------------------
(***************************************************************************)
(* Proofs about LedQueue, for every size of the ring and every set of       *)
(* patterns: the invariants, and that the ring implements LedTasks.         *)
(***************************************************************************)
EXTENDS LedQueue, Sequences, TLAPS

-----------------------------------------------------------------------------
(* The invariants                                                          *)

LEMMA AfterInRing == ASSUME NEW i \in Slots PROVE After(i) \in Slots
  BY LedAssumption DEF LedAssumption, Slots, After

LEMMA TypeInit == ASSUME Init PROVE TypeOK
<1>1. 0 \in Slots /\ BlinkRed \in Kinds
  BY LedAssumption DEF LedAssumption, Slots
<1>2. queue \in [Slots -> Kinds]
  BY <1>1 DEF Init
<1> QED  BY <1>1, <1>2 DEF Init, TypeOK

LEMMA TypeStep == ASSUME TypeOK, [Next]_vars PROVE TypeOK'
<1> USE DEF TypeOK
<1>1. CASE Start
  BY <1>1 DEF Start
<1>2. CASE Shutdown
  BY <1>2 DEF Shutdown, Woken
<1>3. CASE Join
  BY <1>3 DEF Join
<1>4. ASSUME NEW kind \in Kinds, Enqueue(kind) PROVE TypeOK'
  BY <1>4, AfterInRing DEF Enqueue, Woken
<1>5. CASE Sleep
  BY <1>5 DEF Sleep
<1>6. CASE Exit
  BY <1>6 DEF Exit
<1>7. CASE Take
  BY <1>7, AfterInRing DEF Take
<1>8. CASE Played
  BY <1>8, LedAssumption DEF Played, LedAssumption
<1>9. CASE SpuriousWakeup
  BY <1>9 DEF SpuriousWakeup
<1>10. CASE UNCHANGED vars
  BY <1>10 DEF vars
<1> QED
  BY <1>1, <1>2, <1>3, <1>4, <1>5, <1>6, <1>7, <1>8, <1>9, <1>10 DEF Next, Work

\* Whatever is enqueued and however the indices wrap, they stay inside the ring.
THEOREM TypeCorrect == Spec => []TypeOK
<1>1. Init => TypeOK
  BY TypeInit
<1>2. TypeOK /\ [Next]_vars => TypeOK'
  BY TypeStep
<1> QED  BY <1>1, <1>2, PTL DEF Spec

\* The worker's lifetime: a worker that has left obeyed a shutdown that is still
\* being waited for.
Lifetime == /\ OneWorker
            /\ ~ (running /\ joining)
            /\ worker = "exited" => joining

LEMMA WorkerStep ==
  ASSUME TypeOK, SleepsOnlyIdle, Lifetime, [Next]_vars
  PROVE  SleepsOnlyIdle' /\ Lifetime'
<1> USE DEF TypeOK, SleepsOnlyIdle, Lifetime, OneWorker, Empty
<1>1. CASE Start
  BY <1>1 DEF Start
<1>2. CASE Shutdown
  BY <1>2 DEF Shutdown, Woken
<1>3. CASE Join
  BY <1>3 DEF Join
<1>4. ASSUME NEW kind \in Kinds, Enqueue(kind) PROVE SleepsOnlyIdle' /\ Lifetime'
  BY <1>4 DEF Enqueue, Woken
<1>5. CASE Sleep
  BY <1>5 DEF Sleep
<1>6. CASE Exit
  BY <1>6 DEF Exit
<1>7. CASE Take
  BY <1>7 DEF Take
<1>8. CASE Played
  BY <1>8 DEF Played
<1>9. CASE SpuriousWakeup
  BY <1>9 DEF SpuriousWakeup
<1>10. CASE UNCHANGED vars
  BY <1>10 DEF vars
<1> QED
  BY <1>1, <1>2, <1>3, <1>4, <1>5, <1>6, <1>7, <1>8, <1>9, <1>10 DEF Next, Work

LEMMA WorkerInv == Spec => [](TypeOK /\ SleepsOnlyIdle /\ Lifetime)
<1>1. Init => TypeOK /\ SleepsOnlyIdle /\ Lifetime
  BY TypeInit DEF Init, SleepsOnlyIdle, Lifetime, OneWorker
<1>2. (TypeOK /\ SleepsOnlyIdle /\ Lifetime) /\ [Next]_vars
        => (TypeOK /\ SleepsOnlyIdle /\ Lifetime)'
  BY TypeStep, WorkerStep
<1> QED  BY <1>1, <1>2, PTL DEF Spec

\* The worker never sleeps through a request or a shutdown, and there is never
\* more than one worker, on a ring of any size.
THEOREM WorkerSafe == Spec => [](SleepsOnlyIdle /\ OneWorker)
<1>1. SleepsOnlyIdle /\ Lifetime => SleepsOnlyIdle /\ OneWorker
  BY DEF Lifetime
<1> QED  BY <1>1, WorkerInv, PTL

\* A worker lives exactly while the queue runs or its shutdown waits for it.
THEOREM AtMostOneWorker == Spec => []OneWorker
<1>1. SleepsOnlyIdle /\ OneWorker => OneWorker
  OBVIOUS
<1> QED  BY <1>1, WorkerSafe, PTL

-----------------------------------------------------------------------------
(* The ring implements LedTasks                                            *)

\* The place of the i-th task from a head: it wraps once.
LEMMA RingIndex ==
  ASSUME NEW h \in Slots, NEW i \in 0 .. LED_QUEUE_SIZE
  PROVE  /\ (h + i) % LED_QUEUE_SIZE \in Slots
         /\ (h + i) % LED_QUEUE_SIZE =
              IF h + i < LED_QUEUE_SIZE THEN h + i ELSE h + i - LED_QUEUE_SIZE
<1> DEFINE N == LED_QUEUE_SIZE
           x == h + i
<1>1. N \in Nat \ {0} /\ x \in Nat /\ x < 2 * N
  BY LedAssumption DEF LedAssumption, Slots
<1>2. CASE x < N
  <2>1. x % N = x
    BY <1>1, <1>2
  <2> QED  BY <1>1, <1>2, <2>1 DEF Slots
<1>3. CASE x >= N
  <2>1. x % N = x - N
    BY <1>1, <1>3
  <2> QED  BY <1>1, <1>3, <2>1 DEF Slots
<1> QED  BY <1>1, <1>2, <1>3

LEMMA AfterWraps ==
  ASSUME NEW i \in Slots
  PROVE  After(i) = IF i + 1 = LED_QUEUE_SIZE THEN 0 ELSE i + 1
<1>1. 1 \in 0 .. LED_QUEUE_SIZE
  BY LedAssumption DEF LedAssumption
<1>2. (i + 1) % LED_QUEUE_SIZE =
        IF i + 1 < LED_QUEUE_SIZE THEN i + 1 ELSE i + 1 - LED_QUEUE_SIZE
  BY <1>1, RingIndex
<1> QED  BY <1>2, LedAssumption DEF After, Slots, LedAssumption

\* How many tasks wait, without the modulus.
Distance(h, t) == IF t >= h THEN t - h ELSE t - h + LED_QUEUE_SIZE

LEMMA LengthIsDistance ==
  ASSUME NEW h \in Slots, NEW t \in Slots
  PROVE  /\ Length(h, t) = Distance(h, t)
         /\ Length(h, t) \in 0 .. LED_QUEUE_SIZE - 1
<1> DEFINE N == LED_QUEUE_SIZE
<1>1. N \in Nat \ {0} /\ h \in 0 .. N - 1 /\ t \in 0 .. N - 1
  BY LedAssumption DEF LedAssumption, Slots
<1>2. CASE t >= h
  <2>1. t - h + N \in Nat /\ t - h + N >= N /\ t - h + N < 2 * N
    BY <1>1, <1>2
  <2>2. (t - h + N) % N = (t - h + N) - N
    BY <1>1, <2>1
  <2> QED  BY <1>1, <1>2, <2>2 DEF Length, Distance
<1>3. CASE t < h
  <2>1. t - h + N \in Nat /\ t - h + N < N
    BY <1>1, <1>3
  <2>2. (t - h + N) % N = t - h + N
    BY <1>1, <2>1
  <2> QED  BY <1>1, <1>3, <2>1, <2>2 DEF Length, Distance
<1> QED  BY <1>1, <1>2, <1>3

\* The slot of the i-th task from the head h.
Place(h, i) == IF h + i - 1 < LED_QUEUE_SIZE THEN h + i - 1
                                             ELSE h + i - 1 - LED_QUEUE_SIZE

\* The contents are a sequence, and where each task lies.
LEMMA ContentsIsSeq ==
  ASSUME NEW q \in [Slots -> Kinds], NEW h \in Slots, NEW t \in Slots
  PROVE  /\ Contents(q, h, t) \in [1 .. Length(h, t) -> Kinds]
         /\ Contents(q, h, t) \in Seq(Kinds)
         /\ Len(Contents(q, h, t)) = Length(h, t)
         /\ \A i \in 1 .. Length(h, t) :
              Place(h, i) \in Slots /\ Contents(q, h, t)[i] = q[Place(h, i)]
<1> DEFINE N == LED_QUEUE_SIZE
<1>1. Length(h, t) \in Nat /\ Length(h, t) < N
  BY LengthIsDistance, LedAssumption DEF LedAssumption
<1>2. \A i \in 1 .. Length(h, t) : Place(h, i) \in Slots /\ (h + i - 1) % N = Place(h, i)
  <2> SUFFICES ASSUME NEW i \in 1 .. Length(h, t)
               PROVE  Place(h, i) \in Slots /\ (h + i - 1) % N = Place(h, i)
    OBVIOUS
  <2>1. i - 1 \in 0 .. N /\ h + i - 1 = h + (i - 1)
    BY <1>1, LedAssumption DEF LedAssumption, Slots
  <2> QED  BY <2>1, RingIndex DEF Place
<1>3. Contents(q, h, t) \in [1 .. Length(h, t) -> Kinds]
  BY <1>2 DEF Contents
<1>4. \A i \in 1 .. Length(h, t) : Contents(q, h, t)[i] = q[Place(h, i)]
  BY <1>2 DEF Contents
<1>5. Contents(q, h, t) \in Seq(Kinds) /\ Len(Contents(q, h, t)) = Length(h, t)
  <2> DEFINE n == Length(h, t)
             f == Contents(q, h, t)
  <2>1. n \in Nat /\ f \in [1 .. n -> Kinds]
    BY <1>1, <1>3
  <2> HIDE DEF n, f
  <2>2. f \in Seq(Kinds) /\ Len(f) = n
    BY <2>1
  <2> QED  BY <2>2 DEF n, f
<1> QED  BY <1>2, <1>3, <1>4, <1>5

\* Two sequences, one of which is the other with an element more at its end,
\* or one less at its front.
LEMMA IsAppend ==
  ASSUME NEW K, NEW n \in Nat, NEW f \in [1 .. n -> K], NEW k \in K,
         NEW g \in [1 .. n + 1 -> K],
         \A i \in 1 .. n : g[i] = f[i], g[n + 1] = k
  PROVE  g = Append(f, k)
<1>1. f \in Seq(K) /\ Len(f) = n /\ g \in Seq(K) /\ Len(g) = n + 1
  OBVIOUS
<1> QED  BY <1>1

LEMMA IsTail ==
  ASSUME NEW K, NEW n \in Nat \ {0}, NEW f \in [1 .. n -> K],
         NEW g \in [1 .. n - 1 -> K],
         \A i \in 1 .. n - 1 : g[i] = f[i + 1]
  PROVE  g = Tail(f)
<1>1. f \in Seq(K) /\ Len(f) = n /\ g \in Seq(K) /\ Len(g) = n - 1
  OBVIOUS
<1>2. Tail(f) \in Seq(K) /\ Len(Tail(f)) = n - 1
      /\ \A i \in 1 .. n - 1 : Tail(f)[i] = f[i + 1]
  BY <1>1
<1> QED  BY <1>1, <1>2

\* What a full queue keeps and what it takes in.
LEMMA IsTailAppend ==
  ASSUME NEW K, NEW n \in Nat \ {0}, NEW f \in [1 .. n -> K], NEW k \in K,
         NEW g \in [1 .. n -> K],
         \A i \in 1 .. n - 1 : g[i] = f[i + 1], g[n] = k
  PROVE  g = Append(Tail(f), k)
<1> DEFINE m == [i \in 1 .. n - 1 |-> f[i + 1]]
<1>1. m \in [1 .. n - 1 -> K]
  OBVIOUS
<1>2. \A i \in 1 .. n - 1 : m[i] = f[i + 1]
  OBVIOUS
<1> HIDE DEF m
<1>3. m = Tail(f)
  BY <1>1, <1>2, IsTail
<1>4. n - 1 \in Nat /\ n - 1 + 1 = n
  OBVIOUS
<1>5. \A i \in 1 .. n - 1 : g[i] = m[i]
  BY <1>2
<1>6. g = Append(m, k)
  BY <1>1, <1>4, <1>5, IsAppend
<1> QED  BY <1>3, <1>6

\* A request with room for it comes last.
LEMMA PushWithRoom ==
  ASSUME NEW q \in [Slots -> Kinds], NEW h \in Slots, NEW t \in Slots,
         NEW kind \in Kinds, After(t) # h
  PROVE  /\ Contents([q EXCEPT ![t] = kind], h, After(t))
              = Append(Contents(q, h, t), kind)
         /\ Length(h, t) # LED_QUEUE_SIZE - 1
<1> DEFINE N == LED_QUEUE_SIZE
           n == Length(h, t)
           r == [q EXCEPT ![t] = kind]
           f == Contents(q, h, t)
           g == Contents(r, h, After(t))
<1>1. N \in Nat /\ N >= 2 /\ h \in 0 .. N - 1 /\ t \in 0 .. N - 1
  BY LedAssumption DEF LedAssumption, Slots
<1>2. After(t) \in Slots /\ After(t) = IF t + 1 = N THEN 0 ELSE t + 1
  BY AfterInRing, AfterWraps
<1>3. n = Distance(h, t) /\ Length(h, After(t)) = Distance(h, After(t))
      /\ n \in 0 .. N - 1
  BY <1>2, LengthIsDistance
<1>4. Length(h, After(t)) = n + 1 /\ n # N - 1
  BY <1>1, <1>2, <1>3 DEF Distance
<1>5. /\ r \in [Slots -> Kinds] /\ r[t] = kind
      /\ \A s \in Slots : s # t => r[s] = q[s]
  OBVIOUS
<1> HIDE DEF r, f, g
<1>6. /\ f \in [1 .. n -> Kinds]
      /\ \A i \in 1 .. n :
           Place(h, i) \in Slots /\ f[i] = q[Place(h, i)]
  BY ContentsIsSeq DEF f
<1>7. /\ g \in [1 .. n + 1 -> Kinds]
      /\ \A i \in 1 .. n + 1 :
           Place(h, i) \in Slots /\ g[i] = r[Place(h, i)]
  <2>1. /\ g \in [1 .. Length(h, After(t)) -> Kinds]
        /\ \A i \in 1 .. Length(h, After(t)) :
             Place(h, i) \in Slots /\ g[i] = r[Place(h, i)]
    BY <1>2, <1>5, ContentsIsSeq DEF g
  <2> QED  BY <1>4, <2>1
<1> HIDE DEF n
<1>8. ASSUME NEW i \in 1 .. n PROVE g[i] = f[i]
  <2>1. Place(h, i) # t
    BY <1>1, <1>3 DEF Distance, Place
  <2> QED  BY <1>3, <1>5, <1>6, <1>7, <2>1
<1>9. g[n + 1] = kind
  <2>1. Place(h, n + 1) = t
    BY <1>1, <1>3 DEF Distance, Place
  <2>2. n + 1 \in 1 .. n + 1
    BY <1>3
  <2> QED  BY <1>5, <1>7, <2>1, <2>2
<1>10. n \in Nat
  BY <1>1, <1>3
<1>11. g = Append(f, kind)
  BY <1>6, <1>7, <1>8, <1>9, <1>10, IsAppend
<1> QED  BY <1>4, <1>11 DEF n, r, f, g

\* A request that finds the ring full takes the place of the oldest task.
LEMMA PushOnFull ==
  ASSUME NEW q \in [Slots -> Kinds], NEW h \in Slots, NEW t \in Slots,
         NEW kind \in Kinds, After(t) = h
  PROVE  /\ Contents([q EXCEPT ![t] = kind], After(h), After(t))
              = Append(Tail(Contents(q, h, t)), kind)
         /\ Length(h, t) = LED_QUEUE_SIZE - 1
<1> DEFINE N == LED_QUEUE_SIZE
           n == Length(h, t)
           r == [q EXCEPT ![t] = kind]
           f == Contents(q, h, t)
           g == Contents(r, After(h), After(t))
<1>1. N \in Nat /\ N >= 2 /\ h \in 0 .. N - 1 /\ t \in 0 .. N - 1
  BY LedAssumption DEF LedAssumption, Slots
<1>2. /\ After(t) \in Slots /\ After(t) = IF t + 1 = N THEN 0 ELSE t + 1
      /\ After(h) \in Slots /\ After(h) = IF h + 1 = N THEN 0 ELSE h + 1
  BY AfterInRing, AfterWraps
<1>3. n = Distance(h, t) /\ Length(After(h), After(t)) = Distance(After(h), After(t))
  BY <1>2, LengthIsDistance
<1>4. n = N - 1 /\ Length(After(h), After(t)) = n
  BY <1>1, <1>2, <1>3 DEF Distance
<1>5. /\ r \in [Slots -> Kinds] /\ r[t] = kind
      /\ \A s \in Slots : s # t => r[s] = q[s]
  OBVIOUS
<1> HIDE DEF r, f, g
<1>6. /\ f \in [1 .. n -> Kinds]
      /\ \A i \in 1 .. n :
           Place(h, i) \in Slots /\ f[i] = q[Place(h, i)]
  BY ContentsIsSeq DEF f
<1>7. /\ g \in [1 .. n -> Kinds]
      /\ \A i \in 1 .. n :
           Place(After(h), i) \in Slots /\ g[i] = r[Place(After(h), i)]
  <2>1. /\ g \in [1 .. Length(After(h), After(t)) -> Kinds]
        /\ \A i \in 1 .. Length(After(h), After(t)) :
             Place(After(h), i) \in Slots /\ g[i] = r[Place(After(h), i)]
    BY <1>2, <1>5, ContentsIsSeq DEF g
  <2> QED  BY <1>4, <2>1
<1> HIDE DEF n
<1>8. ASSUME NEW i \in 1 .. n - 1 PROVE g[i] = f[i + 1]
  <2>1. i \in 1 .. n /\ i + 1 \in 1 .. n
    BY <1>1, <1>4
  <2>2. Place(After(h), i) = Place(h, i + 1) /\ Place(After(h), i) # t
    BY <1>1, <1>2, <1>4 DEF Place
  <2>3. Place(After(h), i) \in Slots /\ g[i] = r[Place(After(h), i)]
    BY <1>7, <2>1
  <2>4. f[i + 1] = q[Place(h, i + 1)]
    BY <1>6, <2>1
  <2> QED  BY <1>5, <2>2, <2>3, <2>4
<1>9. g[n] = kind
  <2>1. Place(After(h), n) = t
    BY <1>1, <1>2, <1>4 DEF Place
  <2>2. n \in 1 .. n
    BY <1>1, <1>4
  <2> QED  BY <1>5, <1>7, <2>1, <2>2
<1>10. n \in Nat \ {0}
  BY <1>1, <1>4
<1>11. g = Append(Tail(f), kind)
  BY <1>6, <1>7, <1>8, <1>9, <1>10, IsTailAppend
<1> QED  BY <1>4, <1>11 DEF n, r, f, g

\* Popping takes the oldest task and leaves the others in their order.
LEMMA Pop ==
  ASSUME NEW q \in [Slots -> Kinds], NEW h \in Slots, NEW t \in Slots, h # t
  PROVE  /\ Contents(q, After(h), t) = Tail(Contents(q, h, t))
         /\ Contents(q, h, t) # <<>>
         /\ Head(Contents(q, h, t)) = q[h]
<1> DEFINE N == LED_QUEUE_SIZE
           n == Length(h, t)
           f == Contents(q, h, t)
           g == Contents(q, After(h), t)
<1>1. N \in Nat /\ N >= 2 /\ h \in 0 .. N - 1 /\ t \in 0 .. N - 1
  BY LedAssumption DEF LedAssumption, Slots
<1>2. After(h) \in Slots /\ After(h) = IF h + 1 = N THEN 0 ELSE h + 1
  BY AfterInRing, AfterWraps
<1>3. n = Distance(h, t) /\ Length(After(h), t) = Distance(After(h), t)
      /\ n \in 0 .. N - 1
  BY <1>2, LengthIsDistance
<1>4. n \in Nat \ {0} /\ Length(After(h), t) = n - 1
  BY <1>1, <1>2, <1>3 DEF Distance
<1>6. /\ f \in [1 .. n -> Kinds] /\ f \in Seq(Kinds) /\ Len(f) = n
      /\ \A i \in 1 .. n :
           Place(h, i) \in Slots /\ f[i] = q[Place(h, i)]
  BY ContentsIsSeq DEF f
<1>7. /\ g \in [1 .. n - 1 -> Kinds]
      /\ \A i \in 1 .. n - 1 :
           Place(After(h), i) \in Slots /\ g[i] = q[Place(After(h), i)]
  BY <1>2, <1>4, ContentsIsSeq
<1> HIDE DEF n, f, g
<1>8. ASSUME NEW i \in 1 .. n - 1 PROVE g[i] = f[i + 1]
  <2>1. i + 1 \in 1 .. n
    BY <1>4
  <2>2. Place(After(h), i) = Place(h, i + 1)
    BY <1>1, <1>2, <1>3, <1>4 DEF Place
  <2>3. g[i] = q[Place(After(h), i)]
    BY <1>7
  <2>4. f[i + 1] = q[Place(h, i + 1)]
    BY <1>6, <2>1
  <2> QED  BY <2>2, <2>3, <2>4
<1>9. g = Tail(f)
  BY <1>4, <1>6, <1>7, <1>8, IsTail
<1>10. f # <<>> /\ Head(f) = q[h]
  <2>1. 1 \in 1 .. n /\ h + 1 - 1 = h /\ h < N
    BY <1>1, <1>4
  <2>2. f[1] = q[h]
    BY <1>6, <2>1 DEF Place
  <2> QED  BY <1>4, <1>6, <2>2
<1> QED  BY <1>9, <1>10 DEF n, f, g

playing == IF worker = "play" THEN <<task>> ELSE <<>>
waiting == Contents(queue, head, tail)

LEMMA InitMaps == ASSUME Init PROVE Tasks!Init
<1>1. 0 \in Slots /\ queue \in [Slots -> Kinds] /\ head = 0 /\ tail = 0
  BY TypeInit DEF Init, TypeOK
<1>2. Len(waiting) = 0 /\ waiting \in Seq(Kinds)
  <2>1. Length(0, 0) = 0
    BY <1>1, LengthIsDistance DEF Distance
  <2> QED  BY <1>1, <2>1, ContentsIsSeq DEF waiting
<1>3. waiting = <<>>
  BY <1>2
<1> QED  BY <1>3 DEF Init, Tasks!Init, waiting

\* A request of the code is a request of LedTasks.
LEMMA EnqueueMaps ==
  ASSUME TypeOK, NEW kind \in Kinds, Enqueue(kind)
  PROVE  Tasks!Enqueue(kind)
<1>1. /\ queue \in [Slots -> Kinds] /\ head \in Slots /\ tail \in Slots
      /\ queue' = [queue EXCEPT ![tail] = kind] /\ tail' = After(tail)
      /\ head' = IF After(tail) = head THEN After(head) ELSE head
  BY DEF TypeOK, Enqueue
<1>2. Len(waiting) = Length(head, tail)
  BY <1>1, ContentsIsSeq DEF waiting
<1>3. waiting' = Contents(queue', head', tail')
  BY DEF waiting
<1>4. CASE After(tail) = head
  <2>1. Len(waiting) = LED_QUEUE_SIZE - 1 /\ waiting' = Append(Tail(waiting), kind)
    BY <1>1, <1>2, <1>3, <1>4, PushOnFull DEF waiting
  <2> QED  BY <2>1 DEF Tasks!Enqueue, waiting, Enqueue, Woken
<1>5. CASE After(tail) # head
  <2>1. Len(waiting) # LED_QUEUE_SIZE - 1 /\ waiting' = Append(waiting, kind)
    BY <1>1, <1>2, <1>3, <1>5, PushWithRoom DEF waiting
  <2> QED  BY <2>1 DEF Tasks!Enqueue, waiting, Enqueue, Woken
<1> QED  BY <1>4, <1>5

LEMMA TakeMaps == ASSUME TypeOK, Take PROVE Tasks!Take
<1>1. /\ queue \in [Slots -> Kinds] /\ head \in Slots /\ tail \in Slots
      /\ head # tail /\ head' = After(head)
      /\ queue' = queue /\ tail' = tail /\ task' = queue[head]
  BY DEF TypeOK, Take, Empty
<1>2. waiting' = Contents(queue, After(head), tail)
  BY <1>1 DEF waiting
<1>3. waiting # <<>> /\ waiting' = Tail(waiting) /\ Head(waiting) = task'
  BY <1>1, <1>2, Pop DEF waiting
<1> QED  BY <1>3 DEF Tasks!Take, Take, waiting

\* Every step of the code is a step of LedTasks, or changes nothing it speaks of.
LEMMA StepMaps ==
  ASSUME TypeOK, Lifetime, [Next]_vars
  PROVE  Tasks!Next \/ UNCHANGED <<waiting, playing>>
<1> USE DEF waiting, playing
<1>1. CASE Start
  BY <1>1 DEF Start, Lifetime, OneWorker
<1>2. CASE Shutdown
  BY <1>2 DEF Shutdown, Woken
<1>3. CASE Join
  BY <1>3 DEF Join
<1>4. ASSUME NEW kind \in Kinds, Enqueue(kind) PROVE Tasks!Next
  BY <1>4, EnqueueMaps DEF Tasks!Next
<1>5. CASE Sleep
  BY <1>5 DEF Sleep
<1>6. CASE Exit
  BY <1>6 DEF Exit
<1>7. CASE Take
  BY <1>7, TakeMaps DEF Tasks!Next
<1>8. CASE Played
  BY <1>8 DEF Played, Tasks!Next, Tasks!Done
<1>9. CASE SpuriousWakeup
  BY <1>9 DEF SpuriousWakeup
<1>10. CASE UNCHANGED vars
  BY <1>10 DEF vars
<1> QED
  BY <1>1, <1>2, <1>3, <1>4, <1>5, <1>6, <1>7, <1>8, <1>9, <1>10 DEF Next, Work

\* A ring of any size, filled by any thread and emptied by the worker, is a
\* bounded first-in-first-out queue that drops its oldest task when it is full.
THEOREM Implements == Spec => KeepsPromise
<1>1. Init => Tasks!Init
  BY InitMaps
<1>2. TypeOK /\ Lifetime /\ [Next]_vars
        => [Tasks!Next]_<<Contents(queue, head, tail),
                          IF worker = "play" THEN <<task>> ELSE <<>>>>
  BY StepMaps DEF waiting, playing
<1> QED  BY <1>1, <1>2, WorkerInv, PTL DEF Spec, KeepsPromise, Tasks!Spec
=============================================================================
