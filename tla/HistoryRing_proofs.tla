------------------------- MODULE HistoryRing_proofs -------------------------
(***************************************************************************)
(* Proofs about HistoryRing, for a ring of any size and readers that ask    *)
(* for any number of events: types, and what a reader gets.                 *)
(***************************************************************************)
EXTENDS HistoryRing, SequenceTheorems, TLAPS

\* The only two cases of the modulus that the ring meets.
LEMMA ModSmall ==
  ASSUME NEW k \in Slots
  PROVE  k % HUB_MAX_HISTORY = k
BY HistoryAssumption DEF Slots

LEMMA ModWrap ==
  ASSUME NEW k \in HUB_MAX_HISTORY .. 2 * HUB_MAX_HISTORY - 1
  PROVE  k % HUB_MAX_HISTORY = k - HUB_MAX_HISTORY
BY HistoryAssumption DEF Slots

LEMMA ModSlots ==
  ASSUME NEW k \in 0 .. 2 * HUB_MAX_HISTORY - 1
  PROVE  k % HUB_MAX_HISTORY \in Slots
<1>1. CASE k < HUB_MAX_HISTORY
  <2>1. k \in Slots
    BY <1>1, HistoryAssumption DEF Slots
  <2> QED  BY <2>1, ModSmall
<1>2. CASE ~ (k < HUB_MAX_HISTORY)
  <2>1. k \in HUB_MAX_HISTORY .. 2 * HUB_MAX_HISTORY - 1
    BY <1>2, HistoryAssumption
  <2> QED  BY <2>1, ModWrap, HistoryAssumption DEF Slots
<1> QED  BY <1>1, <1>2

LEMMA RingInit == Init => RingInv
<1> SUFFICES ASSUME Init PROVE RingInv
  OBVIOUS
<1>1. log \in Seq(HubEvents) /\ Len(log) = count /\ got \in Seq(HubEvents)
  BY EmptySeq DEF Init
<1>2. head \in Slots /\ count \in 0 .. HUB_MAX_HISTORY
  BY HistoryAssumption DEF Init, Slots
<1>3. history \in [Slots -> HubEvents \cup {Blank}]
  BY DEF Init
<1> QED
  BY <1>1, <1>2, <1>3 DEF Init, RingInv, TypeOK, RingHoldsLog

-----------------------------------------------------------------------------
(* Writing                                                                 *)

LEMMA WriteTypes ==
  ASSUME NEW e \in HubEvents, RingInv, add_history(e)
  PROVE  TypeOK'
<1>1. head' \in Slots
  <2>1. head + 1 \in 0 .. 2 * HUB_MAX_HISTORY - 1
    BY HistoryAssumption DEF RingInv, TypeOK, Slots
  <2> QED  BY <2>1, ModSlots, Zenon DEF add_history
<1>2. count' \in 0 .. HUB_MAX_HISTORY
  BY HistoryAssumption DEF add_history, RingInv, TypeOK
<1>3. history' \in [Slots -> HubEvents \cup {Blank}]
  BY DEF add_history, RingInv, TypeOK
<1> QED
  BY <1>1, <1>2, <1>3 DEF add_history, RingInv, TypeOK

\* The log after one more event: longer by it, or shifted by one.
LEMMA LogAppended ==
  ASSUME NEW e \in HubEvents, RingInv, add_history(e)
  PROVE  /\ log' \in Seq(HubEvents) /\ Len(log') = count'
         /\ count < HUB_MAX_HISTORY =>
              \A i \in 1 .. count' : log'[i] = IF i <= count THEN log[i] ELSE e
         /\ count = HUB_MAX_HISTORY =>
              \A i \in 1 .. count' :
                log'[i] = IF i < count THEN log[i + 1] ELSE e
<1> DEFINE a == Append(log, e)
<1>1. /\ a \in Seq(HubEvents) /\ Len(a) = count + 1
      /\ \A i \in 1 .. count : a[i] = log[i]
      /\ a[count + 1] = e
  BY AppendProperties DEF RingInv, RingHoldsLog
<1>2. log' = Newest(HUB_MAX_HISTORY, a) /\ count \in 0 .. HUB_MAX_HISTORY
  BY DEF add_history, RingInv, TypeOK
<1> HIDE DEF a
<1>3. CASE count < HUB_MAX_HISTORY
  <2>1. log' = a /\ count' = count + 1
    BY <1>1, <1>2, <1>3, HistoryAssumption DEF Newest, add_history
  <2> QED  BY <1>1, <1>2, <1>3, <2>1, HistoryAssumption
<1>4. CASE count = HUB_MAX_HISTORY
  <2>1. log' = SubSeq(a, 2, count + 1) /\ count' = count
    <3>1. ~ (Len(a) <= HUB_MAX_HISTORY) /\ Len(a) = count + 1
      BY <1>1, <1>4, HistoryAssumption
    <3>2. Len(a) - HUB_MAX_HISTORY + 1 = 2
      BY <1>4, <3>1, HistoryAssumption
    <3>3. count' = count
      BY <1>4, HistoryAssumption DEF add_history
    <3> QED  BY <1>2, <3>1, <3>2, <3>3, Zenon DEF Newest
  <2>2. \A i \in 2 .. count + 1 : a[i] \in HubEvents
    BY <1>1, <1>4, ElementOfSeq, HistoryAssumption
  <2>3. /\ SubSeq(a, 2, count + 1) \in Seq(HubEvents)
        /\ Len(SubSeq(a, 2, count + 1)) =
             IF 2 <= count + 1 THEN (count + 1) - 2 + 1 ELSE 0
        /\ \A i \in 1 .. (count + 1) - 2 + 1 :
             SubSeq(a, 2, count + 1)[i] = a[2 + i - 1]
    <3> DEFINE l == 2
               m == count + 1
    <3>1. l \in Int /\ m \in Int
      BY <1>4, HistoryAssumption
    <3>2. \A i \in l .. m : a[i] \in HubEvents
      BY <2>2
    <3> HIDE DEF l, m
    <3>3. /\ SubSeq(a, l, m) \in Seq(HubEvents)
          /\ Len(SubSeq(a, l, m)) = IF l <= m THEN m - l + 1 ELSE 0
          /\ \A i \in 1 .. m - l + 1 : SubSeq(a, l, m)[i] = a[l + i - 1]
      BY <3>1, <3>2, SubSeqProperties
    <3> QED  BY <3>3 DEF l, m
  <2>4. Len(log') = count'
    BY <1>4, <2>1, <2>3, HistoryAssumption
  <2>5. \A i \in 1 .. count' : log'[i] = a[i + 1]
    BY <1>4, <2>1, <2>3, HistoryAssumption
  <2>6. ASSUME NEW i \in 1 .. count'
        PROVE  log'[i] = IF i < count THEN log[i + 1] ELSE e
    <3>1. CASE i < count
      <4>1. i + 1 \in 1 .. count
        BY <1>4, <2>1, <3>1, HistoryAssumption
      <4> QED  BY <1>1, <2>5, <3>1, <4>1, Zenon
    <3>2. CASE ~ (i < count)
      <4>1. i = count
        BY <1>4, <2>1, <3>2, HistoryAssumption
      <4> QED  BY <1>1, <2>5, <3>2, <4>1, Zenon
    <3> QED  BY <3>1, <3>2
  <2> QED  BY <1>4, <2>1, <2>3, <2>4, <2>6, HistoryAssumption
<1> QED  BY <1>2, <1>3, <1>4, HistoryAssumption

LEMMA WriteKeeps ==
  ASSUME NEW e \in HubEvents, RingInv, add_history(e)
  PROVE  RingInv'
<1>1. /\ head \in Slots /\ count \in 0 .. HUB_MAX_HISTORY
      /\ history \in [Slots -> HubEvents \cup {Blank}]
      /\ count < HUB_MAX_HISTORY => head = count
      /\ \A i \in 1 .. count :
           log[i] = history[(Oldest + i - 1) % HUB_MAX_HISTORY]
  BY DEF RingInv, TypeOK, RingHoldsLog
<1>2. /\ history' = [history EXCEPT ![head] = e]
      /\ head' = (head + 1) % HUB_MAX_HISTORY
      /\ count' = IF count < HUB_MAX_HISTORY THEN count + 1 ELSE count
  BY DEF add_history
<1>3. head' = IF head = HUB_MAX_HISTORY - 1 THEN 0 ELSE head + 1
  <2>1. CASE head = HUB_MAX_HISTORY - 1
    <3>1. head + 1 \in HUB_MAX_HISTORY .. 2 * HUB_MAX_HISTORY - 1
      BY <2>1, HistoryAssumption
    <3> QED  BY <1>2, <2>1, <3>1, ModWrap, HistoryAssumption
  <2>2. CASE head # HUB_MAX_HISTORY - 1
    <3>1. head + 1 \in Slots
      BY <1>1, <2>2, HistoryAssumption DEF Slots
    <3> QED  BY <1>2, <2>2, <3>1, ModSmall
  <2> QED  BY <2>1, <2>2
<1>4. \A k \in Slots : history'[k] = IF k = head THEN e ELSE history[k]
  BY <1>1, <1>2
<1>5. RingHoldsLog'
  <2>1. CASE count < HUB_MAX_HISTORY
    <3>1. count' < HUB_MAX_HISTORY => head' = count'
      BY <1>1, <1>2, <1>3, <2>1, HistoryAssumption DEF Slots
    <3>2. Oldest' = 0
      BY <1>1, <1>2, <1>3, <2>1, HistoryAssumption DEF Oldest
    <3>3. ASSUME NEW i \in 1 .. count'
          PROVE  log'[i] = history'[(Oldest' + i - 1) % HUB_MAX_HISTORY]
      <4>1. i - 1 \in Slots /\ i - 1 <= count /\ head = count
        BY <1>1, <1>2, <2>1, HistoryAssumption DEF Slots
      <4>2. (Oldest' + i - 1) % HUB_MAX_HISTORY = i - 1
        BY <3>2, <4>1, ModSmall
      <4>3. i <= count => log[i] = history[i - 1]
        <5>1. Oldest = 0
          BY <2>1 DEF Oldest
        <5> QED  BY <1>1, <4>1, <5>1, ModSmall
      <4>4. log'[i] = IF i <= count THEN log[i] ELSE e
        BY <2>1, LogAppended
      <4> QED  BY <1>1, <1>4, <4>1, <4>2, <4>3, <4>4
    <3> QED  BY <3>1, <3>3, LogAppended DEF RingHoldsLog
  <2>2. CASE count = HUB_MAX_HISTORY
    <3>1. count' = count /\ Oldest = head /\ Oldest' = head'
      BY <1>1, <1>2, <2>2, HistoryAssumption DEF Oldest
    <3>2. ASSUME NEW i \in 1 .. count'
          PROVE  log'[i] = history'[(Oldest' + i - 1) % HUB_MAX_HISTORY]
      <4> DEFINE k == (head' + i - 1) % HUB_MAX_HISTORY
      <4>1. log'[i] = IF i < count THEN log[i + 1] ELSE e
        BY <2>2, LogAppended
      <4>2. i < count => k \in Slots /\ k # head /\ k = (head + i) % HUB_MAX_HISTORY
        <5> SUFFICES ASSUME i < count
                     PROVE  k \in Slots /\ k # head /\ k = (head + i) % HUB_MAX_HISTORY
          OBVIOUS
        <5>1. i \in 1 .. HUB_MAX_HISTORY - 1
          BY <2>2, <3>1, HistoryAssumption
        <5>2. CASE head + i < HUB_MAX_HISTORY
          <6>1. head' + i - 1 = head + i /\ head + i \in Slots
            BY <1>1, <1>3, <5>1, <5>2, HistoryAssumption DEF Slots
          <6>2. k = head + i
            BY <6>1, ModSmall
          <6> QED  BY <1>1, <5>1, <6>1, <6>2, HistoryAssumption DEF Slots
        <5>3. CASE ~ (head + i < HUB_MAX_HISTORY)
          <6>1. head + i \in HUB_MAX_HISTORY .. 2 * HUB_MAX_HISTORY - 1
            BY <1>1, <5>1, <5>3, HistoryAssumption DEF Slots
          <6>2. (head + i) % HUB_MAX_HISTORY = (head + i) - HUB_MAX_HISTORY
            BY <6>1, ModWrap, Zenon
          <6>3. k = (head + i) - HUB_MAX_HISTORY
            <7>1. CASE head = HUB_MAX_HISTORY - 1
              <8>1. head' + i - 1 = i - 1 /\ i - 1 \in Slots
                BY <1>3, <5>1, <7>1, HistoryAssumption DEF Slots
              <8> QED  BY <5>1, <7>1, <8>1, ModSmall, HistoryAssumption
            <7>2. CASE head # HUB_MAX_HISTORY - 1
              <8>1. head' + i - 1 = head + i
                BY <1>1, <1>3, <5>1, <7>2, HistoryAssumption DEF Slots
              <8> QED  BY <6>2, <8>1
            <7> QED  BY <7>1, <7>2
          <6> QED
            BY <1>1, <5>1, <6>1, <6>2, <6>3, HistoryAssumption DEF Slots
        <5> QED  BY <5>2, <5>3, <1>1, <5>1, HistoryAssumption DEF Slots
      <4>3. i = count => k = head
        <5> SUFFICES ASSUME i = count PROVE k = head
          OBVIOUS
        <5>1. CASE head = HUB_MAX_HISTORY - 1
          <6>1. head' + i - 1 = head
            BY <1>3, <2>2, <5>1, HistoryAssumption
          <6> QED  BY <1>1, <6>1, ModSmall
        <5>2. CASE head # HUB_MAX_HISTORY - 1
          <6>1. /\ head' + i - 1 = head + HUB_MAX_HISTORY
                /\ head + HUB_MAX_HISTORY \in HUB_MAX_HISTORY .. 2 * HUB_MAX_HISTORY - 1
            BY <1>1, <1>3, <2>2, <5>2, HistoryAssumption DEF Slots
          <6>2. k = (head + HUB_MAX_HISTORY) - HUB_MAX_HISTORY
            BY <6>1, ModWrap, Zenon
          <6> QED  BY <1>1, <6>2, HistoryAssumption DEF Slots
        <5> QED  BY <5>1, <5>2
      <4>4. i < count => log[i + 1] = history[(head + i) % HUB_MAX_HISTORY]
        <5> SUFFICES ASSUME i < count
                     PROVE  log[i + 1] = history[(head + i) % HUB_MAX_HISTORY]
          OBVIOUS
        <5>1. i + 1 \in 1 .. count /\ head + (i + 1) - 1 = head + i
          BY <1>1, <3>1, HistoryAssumption DEF Slots
        <5> QED  BY <1>1, <3>1, <5>1
      <4>5. i < count \/ i = count
        BY <1>1, <3>1, HistoryAssumption
      <4>6. history'[k] = IF i < count THEN log[i + 1] ELSE e
        <5> HIDE DEF k
        <5>1. CASE i < count
          BY <1>4, <4>2, <4>4, <5>1
        <5>2. CASE i = count
          BY <1>1, <1>4, <4>3, <5>2
        <5> QED  BY <4>5, <5>1, <5>2
      <4> QED  BY <3>1, <4>1, <4>6
    <3> QED  BY <1>1, <2>2, <3>1, <3>2, LogAppended DEF RingHoldsLog
  <2> QED  BY <1>1, <2>1, <2>2, HistoryAssumption
<1> QED  BY <1>5, WriteTypes DEF RingInv

-----------------------------------------------------------------------------
(* Reading                                                                 *)

\* A reader gets the first, that is the oldest, events of the log.
LEMMA ReadsLog ==
  ASSUME NEW m \in Nat, RingInv, get_history(m)
  PROVE  LET n == IF Len(log) < m THEN Len(log) ELSE m
         IN  /\ got' \in Seq(HubEvents)
             /\ Len(got') = n
             /\ got' = SubSeq(log, 1, n)
<1> DEFINE n == IF count < m THEN count ELSE m
<1>1. /\ head \in Slots /\ count \in 0 .. HUB_MAX_HISTORY
      /\ count < HUB_MAX_HISTORY => head = count
      /\ log \in Seq(HubEvents) /\ Len(log) = count
      /\ \A i \in 1 .. count :
           log[i] = history[(Oldest + i - 1) % HUB_MAX_HISTORY]
  BY DEF RingInv, TypeOK, RingHoldsLog
<1>2. n \in 0 .. count
  BY <1>1, HistoryAssumption
<1>3. (head - count + HUB_MAX_HISTORY) % HUB_MAX_HISTORY = Oldest
  <2>1. CASE count < HUB_MAX_HISTORY
    <3>1. head - count + HUB_MAX_HISTORY = HUB_MAX_HISTORY
      BY <1>1, <2>1, HistoryAssumption
    <3>2. HUB_MAX_HISTORY \in HUB_MAX_HISTORY .. 2 * HUB_MAX_HISTORY - 1
      BY HistoryAssumption
    <3> QED  BY <2>1, <3>1, <3>2, ModWrap, HistoryAssumption DEF Oldest
  <2>2. CASE count = HUB_MAX_HISTORY
    <3>1. head - count + HUB_MAX_HISTORY = head
      BY <1>1, <2>2, HistoryAssumption DEF Slots
    <3> QED  BY <1>1, <2>2, <3>1, ModSmall DEF Oldest
  <2> QED  BY <1>1, <2>1, <2>2, HistoryAssumption
<1>4. got' = [i \in 1 .. n |-> history[(Oldest + i - 1) % HUB_MAX_HISTORY]]
  BY <1>3 DEF get_history
<1> HIDE DEF n
<1>5. got' = [i \in 1 .. n |-> log[i]]
  BY <1>1, <1>2, <1>4
<1>6. /\ SubSeq(log, 1, n) \in Seq(HubEvents)
      /\ Len(SubSeq(log, 1, n)) = n
      /\ \A i \in 1 .. n : SubSeq(log, 1, n)[i] = log[i]
  <2>1. \A i \in 1 .. n : log[i] \in HubEvents
    BY <1>1, <1>2, ElementOfSeq
  <2>2. 1 \in Int /\ n \in Int
    BY <1>2
  <2>3. /\ SubSeq(log, 1, n) \in Seq(HubEvents)
        /\ Len(SubSeq(log, 1, n)) = IF 1 <= n THEN n - 1 + 1 ELSE 0
        /\ \A i \in 1 .. n - 1 + 1 : SubSeq(log, 1, n)[i] = log[1 + i - 1]
    BY <2>1, <2>2, SubSeqProperties
  <2> QED  BY <1>2, <2>3
<1>7. got' = SubSeq(log, 1, n)
  BY <1>2, <1>5, <1>6
<1> QED  BY <1>1, <1>6, <1>7 DEF n

LEMMA ReadKeeps ==
  ASSUME NEW m \in Nat, RingInv, get_history(m)
  PROVE  RingInv'
<1>1. got' \in Seq(HubEvents)
  BY ReadsLog
<1> QED
  BY <1>1 DEF RingInv, TypeOK, RingHoldsLog, Oldest, get_history

-----------------------------------------------------------------------------
\* RingInv is an inductive invariant of HistoryRing.
LEMMA RingInductive == Spec => []RingInv
<1>1. RingInv /\ [Next]_vars => RingInv'
  <2> SUFFICES ASSUME RingInv, [Next]_vars PROVE RingInv'
    OBVIOUS
  <2>1. CASE \E e \in HubEvents : add_history(e)
    BY <2>1, WriteKeeps
  <2>2. CASE \E m \in 0 .. MaxAsked : get_history(m)
    BY <2>2, ReadKeeps, HistoryAssumption
  <2>3. CASE UNCHANGED vars
    BY <2>3 DEF vars, RingInv, TypeOK, RingHoldsLog, Oldest
  <2> QED  BY <2>1, <2>2, <2>3 DEF Next
<1> QED  BY RingInit, <1>1, PTL DEF Spec

\* The write position and the count stay in their ranges and a reader gets
\* events, never a blank slot.
THEOREM RingTypeCorrect == Spec => []TypeOK
<1>1. RingInv => TypeOK  BY DEF RingInv
<1> QED  BY <1>1, RingInductive, PTL

\* Every read is the beginning of what the ring holds, for a ring of any size.
THEOREM ReadsFromTheOldest == Spec => ReadsOldest
<1> DEFINE Beginning(n) == SubSeq(log, 1, IF Len(log) < n THEN Len(log) ELSE n)
<1>1. ASSUME RingInv, NEW n \in 0 .. MaxAsked, get_history(n)
      PROVE  got' = Beginning(n)
  <2>1. n \in Nat
    BY HistoryAssumption
  <2> QED  BY <1>1, <2>1, ReadsLog
<1>2. RingInv => [\A n \in 0 .. MaxAsked : get_history(n) => got' = Beginning(n)]_vars
  BY <1>1
<1> QED  BY <1>2, RingInductive, PTL DEF Spec, ReadsOldest
=============================================================================
