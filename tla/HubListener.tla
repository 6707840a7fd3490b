---------------------------- MODULE HubListener ----------------------------
(***************************************************************************)
(* What the hub shows of one door module, and how it comes to know it: the  *)
(* two sockets of the listener thread (udp_thread of hal/src/hub_udp.c), its *)
(* drain loop, the offline check, the Discord request it makes while it      *)
(* holds g_mutex, and the reader that polls the picture every 500 ms (the    *)
(* alert monitor of app/src/discord_alert.c with door_alert_provider).       *)
(*                                                                          *)
(* The picture is one bit, d0_open: EVENT D0 DOOR and HEARTBEAT both write   *)
(* it and the monitor reports it.  (EVENT D1 LOCK and HEARTBEAT write        *)
(* d1_locked likewise; the d0_locked of the report only HEARTBEAT writes.)   *)
(* A module sends an EVENT when the door moves and HEARTBEATs in between,    *)
(* over UDP: a datagram arrives, is lost, or arrives late, and one that      *)
(* meets a full socket is dropped.  Time passes in ticks of which Timeout    *)
(* make HUB_OFFLINE_TIMEOUT_MS.                                              *)
(***************************************************************************)
EXTENDS Naturals, Sequences, FiniteSets

CONSTANTS
  None,      \* no value: nothing posted, a datagram that says nothing of d0
  Timeout,   \* HUB_OFFLINE_TIMEOUT_MS in ticks
  SockBuf,   \* datagrams a socket buffers
  MaxLate    \* bound: datagrams under way late at a time

ASSUME ListenerAssumption ==
  /\ None \notin BOOLEAN
  /\ Timeout \in Nat \ {0} /\ SockBuf \in Nat \ {0} /\ MaxLate \in Nat

VARIABLES
  door,     \* the door is open (external)
  mode,     \* external: "busy"; then "calm" (nothing moves or talks but the
            \* module's heartbeats) or "dead" (the module is gone for good)
  late,     \* datagrams under way
  notif,    \* what waits in g_sock
  beats,    \* what waits in g_sock2, the heartbeat socket
  pc,       \* the listener; it holds g_mutex in postEvent and postAlert
  status,   \* "unknown" (no slot), "online", "offline"
  shown,    \* d0_open of the slot
  silence,  \* ticks since last_heartbeat_ms, counted up to Timeout + 1
  unheard,  \* ticks since a heartbeat last reached the hub, counted likewise
  hand,     \* the d0_open of the message the monitor is posting
  posted,   \* the d0_open of last_msg, the message it posted last
  fresh     \* last_heartbeat_ms has changed since the message last made

outside == <<door, mode, late>>
monitor == <<hand, posted, fresh>>
vars == <<outside, notif, beats, pc, status, shown, silence, unheard, monitor>>

Ages == 0 .. Timeout + 1
Older(n) == IF n > Timeout THEN n ELSE n + 1
Held == pc \in {"postEvent", "postAlert"}

\* last_heartbeat_ms starts at 0, a time long past on the monotonic clock.
Init ==
  /\ door \in BOOLEAN /\ mode = "busy" /\ late = {}
  /\ notif = <<>> /\ beats = <<>>
  /\ pc = "select" /\ status = "unknown" /\ shown = FALSE
  /\ silence = Timeout + 1 /\ unheard = Timeout + 1
  /\ hand = None /\ posted = None /\ fresh = FALSE

-----------------------------------------------------------------------------
(* Outside: the module, others that talk to the hub, the network, time      *)

Event(v) == [port |-> "notif", open |-> v]
Beat(v) == [port |-> "beats", open |-> v]
Datagrams == [port : {"notif", "beats"}, open : BOOLEAN]

Buffered(q, v) == IF Len(q) < SockBuf THEN Append(q, v) ELSE q

Arrives(d) ==
  /\ notif' = IF d.port = "notif" THEN Buffered(notif, d.open) ELSE notif
  /\ beats' = IF d.port = "beats" THEN Buffered(beats, d.open) ELSE beats
  /\ unheard' = IF d.port = "beats" THEN 0 ELSE unheard
  /\ UNCHANGED <<pc, status, shown, silence, monitor>>

\* A datagram sent in busy times arrives, or it will (late), or it is lost.
Sent(d) ==
  \/ Arrives(d) /\ UNCHANGED late
  \/ /\ Cardinality(late) < MaxLate
     /\ late' = late \cup {d}
     /\ UNCHANGED <<notif, beats, pc, status, shown, silence, unheard, monitor>>
  \/ UNCHANGED <<late, notif, beats, pc, status, shown, silence, unheard, monitor>>

DoorMoves ==
  /\ mode = "busy"
  /\ door' = ~ door
  /\ Sent(Event(~ door))
  /\ UNCHANGED mode

\* Heartbeats come seconds apart: two never within a tick.
HeartbeatSent ==
  /\ mode = "busy" /\ unheard > 0
  /\ Sent(Beat(door))
  /\ UNCHANGED <<door, mode>>

HeartbeatInTime ==
  /\ mode # "dead" /\ unheard > 0
  /\ Arrives(Beat(door))
  /\ UNCHANGED outside

LateArrives ==
  \E d \in late :
    /\ Arrives(d)
    /\ late' = late \ {d}
    /\ UNCHANGED <<door, mode>>

\* HELLO, FEEDBACK and COMMAND datagrams.
Chatter ==
  /\ mode = "busy"
  /\ notif' = Buffered(notif, None)
  /\ UNCHANGED <<outside, beats, pc, status, shown, silence, unheard, monitor>>

Settle ==
  /\ mode = "busy"
  /\ mode' \in {"calm", "dead"}
  /\ UNCHANGED <<door, late, notif, beats, pc, status, shown, silence, unheard,
                 monitor>>

\* Emptying the notification socket and posting take time; handling a heartbeat
\* and the check take none against the ten seconds of the timeout.  In calm
\* times a heartbeat comes before the timeout.
Tick ==
  /\ pc \notin {"beats", "check"}
  /\ mode = "calm" => unheard < Timeout
  /\ silence' = Older(silence)
  /\ unheard' = Older(unheard)
  /\ UNCHANGED <<outside, notif, beats, pc, status, shown, monitor>>

-----------------------------------------------------------------------------
(* The listener thread                                                     *)

\* select() prefers g_sock; a second without traffic leads to the check.
Select ==
  /\ pc = "select"
  /\ pc' = IF notif # <<>> THEN "notif"
           ELSE IF beats # <<>> THEN "beats" ELSE "check"
  /\ UNCHANGED <<outside, notif, beats, status, shown, silence, unheard, monitor>>

\* find_or_create_door
Known == IF status = "unknown" THEN "online" ELSE status

\* handle_line for a datagram of g_sock: an EVENT writes the flag and is posted
\* to Discord before the mutex is released.
HandleNotification ==
  /\ pc = "notif" /\ notif # <<>>
  /\ notif' = Tail(notif)
  /\ status' = Known
  /\ IF Head(notif) = None
     THEN UNCHANGED <<pc, shown>>
     ELSE pc' = "postEvent" /\ shown' = Head(notif)
  /\ UNCHANGED <<outside, beats, silence, unheard, monitor>>

\* Mutant: the flags of the heartbeat are not copied into the slot.
HandleHeartbeatTimeOnly ==
  /\ pc = "beats" /\ beats # <<>>
  /\ beats' = Tail(beats)
  /\ status' = Known
  /\ silence' = 0 /\ fresh' = TRUE
  /\ UNCHANGED <<outside, notif, pc, shown, unheard, hand, posted>>

\* Mutant: the heartbeat of a module without a slot is stamped, but makes none.
HandleHeartbeatUntracked ==
  /\ pc = "beats" /\ beats # <<>>
  /\ beats' = Tail(beats)
  /\ shown' = Head(beats)
  /\ silence' = 0 /\ fresh' = TRUE
  /\ UNCHANGED <<outside, notif, pc, status, unheard, hand, posted>>

HandleHeartbeat ==
  /\ pc = "beats" /\ beats # <<>>
  /\ beats' = Tail(beats)
  /\ status' = Known
  /\ shown' = Head(beats)
  /\ silence' = 0 /\ fresh' = TRUE
  /\ UNCHANGED <<outside, notif, pc, unheard, hand, posted>>

\* recvfrom would block: the socket is drained.
Drained ==
  /\ \/ pc = "notif" /\ notif = <<>>
     \/ pc = "beats" /\ beats = <<>>
  /\ pc' = "check"
  /\ UNCHANGED <<outside, notif, beats, status, shown, silence, unheard, monitor>>

\* Mutant: a module that came back is never taken for online again.
CheckOfflineForGood ==
  /\ pc = "check"
  /\ IF status = "online" /\ silence > Timeout
     THEN status' = "offline" /\ pc' = "postAlert"
     ELSE pc' = "select" /\ UNCHANGED status
  /\ UNCHANGED <<outside, notif, beats, shown, silence, unheard, monitor>>

\* Mutant: silent already at the timeout.
CheckOfflineAtTimeout ==
  /\ pc = "check"
  /\ LET due == IF silence >= Timeout THEN "offline" ELSE "online"
     IN  IF status \in {"unknown", due}
         THEN pc' = "select" /\ UNCHANGED status
         ELSE pc' = "postAlert" /\ status' = due
  /\ UNCHANGED <<outside, notif, beats, shown, silence, unheard, monitor>>

\* check_offline_modules; a change is posted before the mutex is released.
CheckOffline ==
  /\ pc = "check"
  /\ LET due == IF silence > Timeout THEN "offline" ELSE "online"
     IN  IF status \in {"unknown", due}
         THEN pc' = "select" /\ UNCHANGED status
         ELSE pc' = "postAlert" /\ status' = due
  /\ UNCHANGED <<outside, notif, beats, shown, silence, unheard, monitor>>

\* sendDiscordAlert returns, whatever became of the request.
AlertPosted ==
  /\ Held
  /\ pc' = IF pc = "postEvent" THEN "notif" ELSE "select"
  /\ UNCHANGED <<outside, notif, beats, status, shown, silence, unheard, monitor>>

-----------------------------------------------------------------------------
(* The alert monitor                                                       *)

\* Mutant: messages are compared by the time of the heartbeat alone.
PollByHeartbeat ==
  /\ hand = None /\ ~ Held /\ status # "unknown"
  /\ fresh \/ posted = None
  /\ hand' = shown /\ fresh' = FALSE
  /\ UNCHANGED <<outside, notif, beats, pc, status, shown, silence, unheard, posted>>

\* hub_udp_get_status under g_mutex; the message names the state and the time
\* of the last heartbeat, and one that equals the last posted is not posted.
Poll ==
  /\ hand = None /\ ~ Held /\ status # "unknown"
  /\ fresh \/ posted # shown
  /\ hand' = shown /\ fresh' = FALSE
  /\ UNCHANGED <<outside, notif, beats, pc, status, shown, silence, unheard, posted>>

MessagePosted ==
  /\ hand # None
  /\ posted' = hand /\ hand' = None
  /\ UNCHANGED <<outside, notif, beats, pc, status, shown, silence, unheard, fresh>>

-----------------------------------------------------------------------------
Listener == Select \/ HandleNotification \/ HandleHeartbeat \/ Drained
            \/ CheckOffline

Outside == DoorMoves \/ HeartbeatSent \/ HeartbeatInTime \/ LateArrives
           \/ Chatter \/ Settle \/ Tick

Next == Listener \/ AlertPosted \/ Poll \/ MessagePosted \/ Outside

Spec == Init /\ [][Next]_vars

\* The kernel runs the threads and not every heartbeat is lost.  Time passes,
\* also for a listener that only goes from check to check, as each of those waits
\* a second in select() (SF).  Nothing is owed by those who talk to the hub, nor
\* by Discord.
FairSpec ==
  /\ Spec
  /\ WF_vars(Listener) /\ WF_vars(Poll)
  /\ SF_vars(Tick) /\ WF_vars(HeartbeatInTime)

-----------------------------------------------------------------------------
(* Properties                                                              *)

\* Every variable has its type; a module without a slot was never heard.
TypeOK ==
  /\ door \in BOOLEAN /\ mode \in {"busy", "calm", "dead"}
  /\ late \subseteq Datagrams
  /\ notif \in Seq(BOOLEAN \cup {None}) /\ Len(notif) <= SockBuf
  /\ beats \in Seq(BOOLEAN) /\ Len(beats) <= SockBuf
  /\ pc \in {"select", "notif", "beats", "check", "postEvent", "postAlert"}
  /\ status \in {"unknown", "online", "offline"}
  /\ shown \in BOOLEAN
  /\ silence \in Ages /\ unheard \in Ages
  /\ {hand, posted} \subseteq BOOLEAN \cup {None} /\ fresh \in BOOLEAN
  /\ status = "unknown" => silence = Timeout + 1 /\ hand = None

\* A module is flagged offline only when no heartbeat reached the hub for the
\* timeout, or when one waits unread in its socket: the listener may stay with
\* the notifications and with Discord for longer than the timeout, but it loses
\* no heartbeat that it has read.
OfflineExplained ==
  [][status' = "offline" /\ status # "offline" =>
       unheard > Timeout \/ beats # <<>>]_vars

\* No request to Discord lasts for ever.
DiscordResponds == []<>(~ Held) /\ []<>(hand = None)

\* Once notifications cease, a module that is gone ends up flagged offline and
\* one whose heartbeats come in time ends up online, whatever was flagged while
\* the listener was held up.
OfflineBecomesRight ==
  DiscordResponds =>
    <>[](/\ mode = "dead" /\ status # "unknown" => status = "offline"
         /\ mode = "calm" => status = "online")

\* Once the door stands still, the hub shows it as it is, although EVENTs were
\* lost or came after the heartbeats that were sent later.
PictureConverges == DiscordResponds => <>[](mode = "calm" => shown = door)

\* What the alert monitor posted last ends up being what the hub shows, also
\* when the picture changed while it was posting or waiting for the mutex.
MonitorCatchesUp ==
  DiscordResponds =>
    <>[](mode # "busy" /\ status # "unknown" => posted = shown)

-----------------------------------------------------------------------------
(* The inductive invariant of HubListener_proofs                           *)

\* With the heartbeat socket empty, every heartbeat that arrived was handled
\* after it arrived.
ReadAfterArrival == beats = <<>> => silence <= unheard

ListenerInv == TypeOK /\ ReadAfterArrival
=============================================================================
