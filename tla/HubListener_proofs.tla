------------------------- MODULE HubListener_proofs -------------------------
(***************************************************************************)
(* Proofs about HubListener, for any timeout, any size of the sockets and   *)
(* any number of late datagrams: types, and that the listener flags no      *)
(* module offline whose heartbeats it has read.                             *)
(***************************************************************************)
EXTENDS HubListener, TLAPS

\* A count of ticks stays a count of ticks, and two of them stay in order.
LEMMA OlderTypes ==
  ASSUME NEW n \in Ages, NEW m \in Ages
  PROVE  /\ Older(n) \in Ages
         /\ n <= m => Older(n) <= Older(m)
         /\ n = Timeout + 1 => Older(n) = n
BY ListenerAssumption DEF Ages, Older

\* What a socket buffers is typed, bounded, and not empty.
LEMMA BufferedTypes ==
  ASSUME NEW S, NEW q \in Seq(S), Len(q) <= SockBuf, NEW v \in S
  PROVE  /\ Buffered(q, v) \in Seq(S)
         /\ Len(Buffered(q, v)) <= SockBuf
         /\ Buffered(q, v) # <<>>
<1>1. CASE Len(q) < SockBuf
  BY <1>1, ListenerAssumption DEF Buffered
<1>2. CASE ~ (Len(q) < SockBuf)
  BY <1>2, ListenerAssumption DEF Buffered
<1> QED  BY <1>1, <1>2

LEMMA TailTypes ==
  ASSUME NEW S, NEW q \in Seq(S), q # <<>>, Len(q) <= SockBuf
  PROVE  /\ Head(q) \in S
         /\ Tail(q) \in Seq(S)
         /\ Len(Tail(q)) <= SockBuf
BY ListenerAssumption

LEMMA InitInv == Init => ListenerInv
<1> SUFFICES ASSUME Init PROVE ListenerInv
  OBVIOUS
<1>1. /\ silence \in Ages /\ unheard \in Ages /\ silence <= unheard
      /\ silence = Timeout + 1
  BY ListenerAssumption DEF Init, Ages
<1>2. /\ notif \in Seq(BOOLEAN \cup {None}) /\ Len(notif) <= SockBuf
      /\ beats \in Seq(BOOLEAN) /\ Len(beats) <= SockBuf
  BY ListenerAssumption DEF Init
<1>3. door \in BOOLEAN /\ shown \in BOOLEAN /\ fresh \in BOOLEAN
  BY Zenon DEF Init
<1> QED
  BY <1>1, <1>2, <1>3 DEF Init, ListenerInv, TypeOK, ReadAfterArrival

-----------------------------------------------------------------------------
(* The outside                                                             *)

LEMMA DatagramTypes ==
  ASSUME NEW v \in BOOLEAN
  PROVE  Event(v) \in Datagrams /\ Beat(v) \in Datagrams
BY DEF Event, Beat, Datagrams

\* A heartbeat that arrives is waiting, or it met a socket full of them.
LEMMA ArrivesKeeps ==
  ASSUME NEW d \in Datagrams, ListenerInv, Arrives(d),
         door' \in BOOLEAN, mode' \in {"busy", "calm", "dead"},
         late' \subseteq Datagrams
  PROVE  ListenerInv'
<1>1. d.open \in BOOLEAN /\ d.port \in {"notif", "beats"}
  BY DEF Datagrams
<1>2. notif' \in Seq(BOOLEAN \cup {None}) /\ Len(notif') <= SockBuf
  BY <1>1, BufferedTypes DEF Arrives, ListenerInv, TypeOK
<1>3. beats' \in Seq(BOOLEAN) /\ Len(beats') <= SockBuf
  BY <1>1, BufferedTypes DEF Arrives, ListenerInv, TypeOK
<1>4. unheard' \in Ages
  BY ListenerAssumption DEF Arrives, ListenerInv, TypeOK, Ages
<1>5. ReadAfterArrival'
  <2>1. CASE d.port = "beats"
    BY <2>1, <1>1, BufferedTypes
    DEF Arrives, ListenerInv, TypeOK, ReadAfterArrival
  <2>2. CASE d.port # "beats"
    BY <2>2 DEF Arrives, ListenerInv, ReadAfterArrival
  <2> QED  BY <2>1, <2>2
<1> QED
  BY <1>2, <1>3, <1>4, <1>5 DEF ListenerInv, TypeOK, Arrives, monitor

LEMMA SentKeeps ==
  ASSUME NEW d \in Datagrams, ListenerInv, Sent(d),
         door' \in BOOLEAN, mode' \in {"busy", "calm", "dead"}
  PROVE  ListenerInv'
<1>1. CASE Arrives(d) /\ UNCHANGED late
  BY <1>1, ArrivesKeeps DEF ListenerInv, TypeOK
<1>2. CASE late' = late \cup {d}
           /\ UNCHANGED <<notif, beats, pc, status, shown, silence, unheard, monitor>>
  BY <1>2 DEF ListenerInv, TypeOK, ReadAfterArrival, monitor
<1>3. CASE UNCHANGED <<late, notif, beats, pc, status, shown, silence, unheard, monitor>>
  BY <1>3 DEF ListenerInv, TypeOK, ReadAfterArrival, monitor
<1> QED  BY <1>1, <1>2, <1>3 DEF Sent

LEMMA OutsideKeeps == ListenerInv /\ Outside => ListenerInv'
<1> SUFFICES ASSUME ListenerInv, Outside PROVE ListenerInv'
  OBVIOUS
<1>1. CASE DoorMoves
  <2>1. door \in BOOLEAN /\ mode \in {"busy", "calm", "dead"}
    BY DEF ListenerInv, TypeOK
  <2>2. door' \in BOOLEAN /\ mode' \in {"busy", "calm", "dead"}
    BY <1>1, <2>1 DEF DoorMoves
  <2>3. Sent(Event(~ door))
    BY <1>1 DEF DoorMoves
  <2> QED  BY <2>1, <2>2, <2>3, DatagramTypes, SentKeeps
<1>2. CASE HeartbeatSent
  BY <1>2, DatagramTypes, SentKeeps DEF HeartbeatSent, ListenerInv, TypeOK
<1>3. CASE HeartbeatInTime
  BY <1>3, DatagramTypes, ArrivesKeeps
  DEF HeartbeatInTime, ListenerInv, TypeOK, outside
<1>4. CASE LateArrives
  BY <1>4, ArrivesKeeps DEF LateArrives, ListenerInv, TypeOK
<1>5. CASE Chatter
  <2>1. notif' \in Seq(BOOLEAN \cup {None}) /\ Len(notif') <= SockBuf
    BY <1>5, BufferedTypes DEF Chatter, ListenerInv, TypeOK
  <2> QED
    BY <1>5, <2>1
    DEF Chatter, ListenerInv, TypeOK, ReadAfterArrival, outside, monitor
<1>6. CASE Settle
  BY <1>6 DEF Settle, ListenerInv, TypeOK, ReadAfterArrival, monitor
<1>7. CASE Tick
  <2>1. silence \in Ages /\ unheard \in Ages
    BY DEF ListenerInv, TypeOK
  <2>2. silence' \in Ages /\ unheard' \in Ages
    BY <1>7, <2>1, OlderTypes DEF Tick
  <2>3. ReadAfterArrival'
    BY <1>7, <2>1, OlderTypes DEF Tick, ListenerInv, ReadAfterArrival
  <2>4. silence = Timeout + 1 => silence' = Timeout + 1
    BY <1>7, <2>1, OlderTypes DEF Tick
  <2> QED
    BY <1>7, <2>2, <2>3, <2>4 DEF Tick, ListenerInv, TypeOK, outside, monitor
<1> QED
  BY <1>1, <1>2, <1>3, <1>4, <1>5, <1>6, <1>7 DEF Outside

-----------------------------------------------------------------------------
(* The threads of the hub                                                  *)

LEMMA HandleNotificationKeeps ==
  ListenerInv /\ HandleNotification => ListenerInv'
<1> SUFFICES ASSUME ListenerInv, HandleNotification PROVE ListenerInv'
  OBVIOUS
<1>1. /\ Head(notif) \in BOOLEAN \cup {None}
      /\ notif' \in Seq(BOOLEAN \cup {None}) /\ Len(notif') <= SockBuf
  BY TailTypes DEF HandleNotification, ListenerInv, TypeOK
<1>2. shown' \in BOOLEAN
  BY <1>1 DEF HandleNotification, ListenerInv, TypeOK
<1>3. pc' \in {"notif", "postEvent"}
  BY DEF HandleNotification
<1>4. status' \in {"online", "offline"}
  BY DEF HandleNotification, Known, ListenerInv, TypeOK
<1> QED
  BY <1>1, <1>2, <1>3, <1>4
  DEF HandleNotification, ListenerInv, TypeOK, ReadAfterArrival, outside, monitor

LEMMA HandleHeartbeatKeeps == ListenerInv /\ HandleHeartbeat => ListenerInv'
<1> SUFFICES ASSUME ListenerInv, HandleHeartbeat PROVE ListenerInv'
  OBVIOUS
<1>1. Head(beats) \in BOOLEAN /\ beats' \in Seq(BOOLEAN) /\ Len(beats') <= SockBuf
  BY TailTypes DEF HandleHeartbeat, ListenerInv, TypeOK
<1>2. status' \in {"online", "offline"}
  BY DEF HandleHeartbeat, Known, ListenerInv, TypeOK
<1>3. silence' \in Ages /\ silence' <= unheard'
  BY ListenerAssumption DEF HandleHeartbeat, ListenerInv, TypeOK, Ages
<1> QED
  BY <1>1, <1>2, <1>3
  DEF HandleHeartbeat, ListenerInv, TypeOK, ReadAfterArrival, outside

LEMMA ThreadsKeep ==
  /\ ListenerInv
  /\ Select \/ Drained \/ CheckOffline \/ AlertPosted \/ Poll \/ MessagePosted
  => ListenerInv'
<1> SUFFICES ASSUME ListenerInv,
                    \/ Select \/ Drained \/ CheckOffline \/ AlertPosted
                    \/ Poll \/ MessagePosted
             PROVE  ListenerInv'
  OBVIOUS
<1>1. CASE Select \/ Drained \/ AlertPosted
  BY <1>1
  DEF Select, Drained, AlertPosted, ListenerInv, TypeOK, ReadAfterArrival,
      outside, monitor
<1>2. CASE CheckOffline
  BY <1>2
  DEF CheckOffline, ListenerInv, TypeOK, ReadAfterArrival, outside, monitor
<1>3. CASE Poll
  BY <1>3 DEF Poll, ListenerInv, TypeOK, ReadAfterArrival, outside
<1>4. CASE MessagePosted
  BY <1>4 DEF MessagePosted, ListenerInv, TypeOK, ReadAfterArrival, outside
<1> QED  BY <1>1, <1>2, <1>3, <1>4

-----------------------------------------------------------------------------
\* ListenerInv is an inductive invariant of HubListener.
LEMMA Inductive == Spec => []ListenerInv
<1>1. ListenerInv /\ [Next]_vars => ListenerInv'
  <2> SUFFICES ASSUME ListenerInv, [Next]_vars PROVE ListenerInv'
    OBVIOUS
  <2>1. CASE Outside             BY <2>1, OutsideKeeps
  <2>2. CASE HandleNotification  BY <2>2, HandleNotificationKeeps
  <2>3. CASE HandleHeartbeat     BY <2>3, HandleHeartbeatKeeps
  <2>4. CASE \/ Select \/ Drained \/ CheckOffline \/ AlertPosted
             \/ Poll \/ MessagePosted
    BY <2>4, ThreadsKeep
  <2>5. CASE UNCHANGED vars
    BY <2>5 DEF vars, outside, monitor, ListenerInv, TypeOK, ReadAfterArrival
  <2> QED  BY <2>1, <2>2, <2>3, <2>4, <2>5 DEF Next, Listener
<1> QED  BY InitInv, <1>1, PTL DEF Spec

\* No other step than the check flags a module offline.
LEMMA OnlyCheckFlags ==
  ASSUME [Next]_vars, status' = "offline", status # "offline"
  PROVE  CheckOffline
<1>1. CASE HandleNotification \/ HandleHeartbeat
  BY <1>1 DEF HandleNotification, HandleHeartbeat, Known
<1>2. CASE Select \/ Drained \/ AlertPosted \/ Poll \/ MessagePosted \/ UNCHANGED vars
  BY <1>2 DEF Select, Drained, AlertPosted, Poll, MessagePosted, vars
<1>3. CASE Outside
  BY <1>3
  DEF Outside, DoorMoves, HeartbeatSent, HeartbeatInTime, LateArrives, Chatter,
      Settle, Tick, Sent, Arrives
<1> QED  BY <1>1, <1>2, <1>3 DEF Next, Listener

\* Types of what the listener, the monitor and the sockets hold.
THEOREM TypeCorrect == Spec => []TypeOK
<1>1. ListenerInv => TypeOK  BY DEF ListenerInv
<1> QED  BY <1>1, Inductive, PTL

\* Only the check flags a module, and it judges by a time that is no older than
\* the last arrival, unless a heartbeat is waiting.
THEOREM FlaggedWithCause == Spec => OfflineExplained
<1>1. ASSUME ListenerInv, [Next]_vars, status' = "offline", status # "offline"
      PROVE  unheard > Timeout \/ beats # <<>>
  <2>1. CheckOffline
    BY <1>1, OnlyCheckFlags
  <2>2. silence > Timeout
    BY <1>1, <2>1 DEF CheckOffline, ListenerInv, TypeOK
  <2> QED
    BY <1>1, <2>2, ListenerAssumption DEF ListenerInv, TypeOK, ReadAfterArrival, Ages
<1>2. ListenerInv /\ [Next]_vars =>
        [status' = "offline" /\ status # "offline" =>
           unheard > Timeout \/ beats # <<>>]_vars
  BY <1>1
<1> QED  BY <1>2, Inductive, PTL DEF Spec, OfflineExplained
=============================================================================
