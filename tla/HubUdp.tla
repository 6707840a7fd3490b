------------------------------- MODULE HubUdp -------------------------------
(***************************************************************************)
(* The hub's UDP core (hal/src/hub_udp.c): the per-module status table, the *)
(* endpoint table, the table of client commands awaiting FEEDBACK, offline  *)
(* detection, and the blocking command path of the HTTP API                 *)
(* (hub_udp_send_command).                                                  *)
(*                                                                          *)
(* Two hub threads act: the listener (udp_thread, the only caller of        *)
(* handle_line and check_offline_modules) and the HTTP server thread (the   *)
(* only caller of hub_udp_send_command).  Everything they share is guarded  *)
(* by g_mutex, and each action below is one critical section.  handle_line  *)
(* drops the mutex around a relay or a forward; only the listener uses the  *)
(* pending and the endpoint tables, so that window is invisible and the     *)
(* handler is one action.                                                   *)
(*                                                                          *)
(* Outside the hub: door modules, which execute a COMMAND and answer with   *)
(* FEEDBACK, and UDP clients (the Node server; every start of it is a new   *)
(* client, with a new port and a command counter that starts at 1).         *)
(* Datagrams are never taken out of the network: one may be delivered late, *)
(* out of order, twice, or (by never being delivered) not at all.           *)
(***************************************************************************)
EXTENDS Naturals, Sequences, FiniteSets

CONSTANTS
  Modules,          \* module ids ("D1", "D2", ...)
  Clients,          \* UDP clients that send COMMANDs through the hub
  HttpTargets,      \* modules the HTTP API is asked to command
  Actions,          \* actions a command may carry (its target is one with it)
  None,             \* an empty slot, no address, no client
  MAX_DOORS,        \* HUB_MAX_DOORS
  MAX_ENDPOINTS,    \* HUB_MAX_MODULES
  MAX_PENDING,      \* HUB_MAX_PENDING_CMDS
  OFFLINE_TIMEOUT,  \* HUB_OFFLINE_TIMEOUT_MS
  ACK_RETRIES,      \* ACK_RETRIES of hub_udp_send_command
  StartTime,        \* CLOCK_MONOTONIC when the hub starts
  MaxTime,          \* bound: the clock stops here
  MaxCmdId,         \* bound: command ids each sender may use
  MaxCommands,      \* bound: COMMANDs all clients send together
  MaxIncarnations   \* bound: times a door module is started

\* What app_command_handler echoes in its FEEDBACK: the action itself, but the
\* state it found for STATUS.
StatusAnswers ==
  {"STATUS_LOCKED", "STATUS_UNLOCKED", "STATUS_OPEN", "STATUS_UNKNOWN"}
Answers(a) == IF a = "STATUS" THEN StatusAnswers ELSE {a}

ASSUME HubAssumption ==
  /\ None \notin Modules \cup Clients /\ "http" \notin Clients
  /\ HttpTargets \subseteq Modules
  /\ None \notin Actions \cup StatusAnswers \cup {"http", "ack", "no_ack"}
  /\ {MAX_DOORS, MAX_ENDPOINTS, MAX_PENDING, MaxIncarnations} \subseteq Nat \ {0}
  /\ {OFFLINE_TIMEOUT, ACK_RETRIES, StartTime, MaxTime, MaxCmdId, MaxCommands}
       \subseteq Nat
  /\ StartTime =< MaxTime

Slots == 1 .. MAX_DOORS
Pends == 1 .. MAX_PENDING
Incarnations == 1 .. MaxIncarnations   \* a module's n-th ephemeral port

VARIABLES
  doors,      \* g_doors: slot -> status record; id = None iff !known
  endpoints,  \* g_endpoints[0 .. g_num_endpoints-1]
  pending,    \* g_pending_cmds; cmdid 0 marks a free slot
  nextCmdid,  \* g_next_cmdid
  sender,     \* locals of the HTTP thread inside hub_udp_send_command
  now,        \* now_ms()
  home,       \* module -> its current incarnation (external)
  commands,   \* COMMAND datagrams clients sent to the hub
  toDoor,     \* COMMAND datagrams the hub sent to door modules
  feedbacks,  \* FEEDBACK datagrams modules sent to the hub
  toClient    \* FEEDBACK datagrams the hub relayed to clients

tables == <<doors, endpoints, pending>>
net == <<commands, toDoor, feedbacks, toClient>>
vars == <<tables, nextCmdid, sender, now, home, net>>

\* Who issued a command: the HTTP thread or a client.  The "from" field of a
\* datagram is bookkeeping of the model: the wire format has no such field.
Http == "http"

NewDoor(m) == [id |-> m, addr |-> None, offline |-> FALSE, seen |-> 0,
               wentOff |-> 0, fbId |-> 0, fbAct |-> None]
NoPending == [cmdid |-> 0, mod |-> None, client |-> None, issued |-> 0]
Idle == [pc |-> "idle", slot |-> 0, mod |-> None, act |-> None, dest |-> None,
         cmdid |-> 0, attempt |-> 0, result |-> None]

Init ==
  /\ doors = [i \in Slots |-> NewDoor(None)]
  /\ endpoints = <<>>
  /\ pending = [i \in Pends |-> NoPending]
  /\ nextCmdid = 1
  /\ sender = Idle
  /\ now = StartTime
  /\ home = [m \in Modules |-> 1]
  /\ commands = {} /\ toDoor = {} /\ feedbacks = {} /\ toClient = {}

-----------------------------------------------------------------------------
(* The tables                                                              *)

\* Mutant: a free slot is preferred to the one m has.
FindsFreeFirst(m, i) ==
  \/ doors[i].id = None /\ \A j \in 1 .. i - 1 : doors[j].id # None
  \/ doors[i].id = m /\ \A j \in Slots : doors[j].id # None

\* Mutant: the ids are compared by their first letter.
FindsByPrefix(m, i) ==
  \/ doors[i].id # None /\ \A j \in 1 .. i - 1 : doors[j].id = None
  \/ doors[i].id = None /\ i = 1 /\ \A j \in Slots : doors[j].id = None

\* find_or_create_door(m) returns slot i: the first that is m's, else the first
\* that is free.  No slot qualifies when the table is full of other modules.
Finds(m, i) ==
  \/ /\ doors[i].id = m
     /\ \A j \in 1 .. i - 1 : doors[j].id # m
  \/ /\ doors[i].id = None
     /\ \A j \in Slots : doors[j].id # m
     /\ \A j \in 1 .. i - 1 : doors[j].id # None

\* find_or_create_door: a new slot is zeroed before it is given to m.
OpenDoor(m, i) == IF doors[i].id = m THEN doors[i] ELSE NewDoor(m)

\* Mutant: an endpoint that is known is not refreshed.
UpdateEndpointOnce(m, a) ==
  IF \E i \in DOMAIN endpoints : endpoints[i].id = m
  THEN endpoints
  ELSE IF Len(endpoints) < MAX_ENDPOINTS
       THEN Append(endpoints, [id |-> m, addr |-> a])
       ELSE endpoints

\* hub_update_endpoint: refresh m's entry, append one, or drop it when full.
UpdateEndpoint(m, a) ==
  LET mine == {i \in DOMAIN endpoints : endpoints[i].id = m}
  IN  IF mine # {}
      THEN [i \in DOMAIN endpoints |->
              IF i \in mine THEN [id |-> m, addr |-> a] ELSE endpoints[i]]
      ELSE IF Len(endpoints) < MAX_ENDPOINTS
           THEN Append(endpoints, [id |-> m, addr |-> a])
           ELSE endpoints

\* register_client_command takes slot i: the first free one, else the oldest
\* entry (the first of them when several are equally old).
Registers(i) ==
  \/ /\ pending[i].cmdid = 0
     /\ \A j \in 1 .. i - 1 : pending[j].cmdid # 0
  \/ /\ \A j \in Pends :
          /\ pending[j].cmdid # 0
          /\ pending[i].issued =< pending[j].issued
     /\ \A j \in 1 .. i - 1 : pending[j].issued # pending[i].issued

\* Mutant: any entry of the module matches.
IsForModule(m, k, i) == pending[i].cmdid # 0 /\ pending[i].mod = m

\* get_and_clear_client_cmd(m, k) finds slot i: the first that matches.
IsFor(m, k, i) == pending[i].cmdid = k /\ pending[i].mod = m
Clears(m, k, i) == IsFor(m, k, i) /\ \A j \in 1 .. i - 1 : ~ IsFor(m, k, j)

-----------------------------------------------------------------------------
(* The listener thread: handle_line, one action per datagram type          *)

\* What every datagram that is not a COMMAND does first: m now lives at a.
Tracked(m, a, i) == [OpenDoor(m, i) EXCEPT !.addr = a]

\* A datagram of a module whose slot cannot be created only leaves a
\* <NO-STATE> line in the history.
Untracked(m, a) ==
  /\ \A i \in Slots : ~ Finds(m, i)
  /\ endpoints' = UpdateEndpoint(m, a)
  /\ UNCHANGED <<doors, pending, nextCmdid, sender, now, home, net>>

\* HELLO, EVENT and unknown types (the sensor flags are not modelled here).
HandleNotice(m, a, i) ==
  /\ Finds(m, i)
  /\ endpoints' = UpdateEndpoint(m, a)
  /\ doors' = [doors EXCEPT ![i] = Tracked(m, a, i)]
  /\ UNCHANGED <<pending, nextCmdid, sender, now, home, net>>

Alive(m, a, i) == [Tracked(m, a, i) EXCEPT !.seen = now]

HandleHeartbeat(m, a, i) ==
  /\ Finds(m, i)
  /\ endpoints' = UpdateEndpoint(m, a)
  /\ doors' = [doors EXCEPT ![i] = Alive(m, a, i)]
  /\ UNCHANGED <<pending, nextCmdid, sender, now, home, net>>

\* The relay of a FEEDBACK to the client in pending slot p, which it frees.
Relay(f, p) ==
  /\ Clears(f.mod, f.cmdid, p)
  /\ pending' = [pending EXCEPT ![p].cmdid = 0]
  /\ toClient' = toClient \cup
       {[client |-> pending[p].client, mod |-> f.mod, cmdid |-> f.cmdid,
         act |-> f.act, from |-> f.from]}

Acknowledged(f, i) ==
  [Tracked(f.mod, f.addr, i) EXCEPT !.fbId = f.cmdid, !.fbAct = f.act]

HandleFeedback(f, i) ==
  /\ Finds(f.mod, i)
  /\ endpoints' = UpdateEndpoint(f.mod, f.addr)
  /\ doors' = [doors EXCEPT ![i] = Acknowledged(f, i)]
  /\ \/ \E p \in Pends : Relay(f, p)
     \/ /\ \A p \in Pends : ~ IsFor(f.mod, f.cmdid, p)
        /\ UNCHANGED <<pending, toClient>>
  /\ UNCHANGED <<nextCmdid, sender, now, home, commands, toDoor, feedbacks>>

\* A COMMAND moves no address, but it does create a slot for its module.  It is
\* forwarded to the module's endpoint, if one is known.
HandleCommand(c, i, p) ==
  /\ Finds(c.mod, i)
  /\ Registers(p)
  /\ doors' = [doors EXCEPT ![i] = OpenDoor(c.mod, i)]
  /\ pending' = [pending EXCEPT ![p] = [cmdid |-> c.cmdid, mod |-> c.mod,
                                        client |-> c.client, issued |-> now]]
  /\ toDoor' = toDoor \cup
       {[mod |-> c.mod, addr |-> endpoints[e].addr, cmdid |-> c.cmdid,
         act |-> c.act, from |-> c.client] :
           e \in {e \in DOMAIN endpoints : endpoints[e].id = c.mod}}
  /\ UNCHANGED <<endpoints, nextCmdid, sender, now, home, commands,
                 feedbacks, toClient>>

\* check_offline_modules, which the listener runs after every drained socket
\* and on every second without traffic.
Silent(i) == now > doors[i].seen + OFFLINE_TIMEOUT

CheckOffline ==
  /\ doors' = [i \in Slots |->
       IF doors[i].id = None \/ Silent(i) = doors[i].offline THEN doors[i]
       ELSE IF Silent(i)
            THEN [doors[i] EXCEPT !.offline = TRUE, !.wentOff = now]
            ELSE [doors[i] EXCEPT !.offline = FALSE]]
  /\ UNCHANGED <<endpoints, pending, nextCmdid, sender, now, home, net>>

-----------------------------------------------------------------------------
(* The HTTP thread: hub_udp_send_command                                   *)

\* First critical section: find the module, take its address and a command id.
\* The return for a module that is unknown or has no address cannot be taken:
\* the one caller (/command of http_api.c) has just read both from the module's
\* status, and no slot is freed and no address withdrawn afterwards.
HttpBegin(m, a, i) ==
  /\ sender.pc = "idle"
  /\ m \in HttpTargets
  /\ nextCmdid =< MaxCmdId
  /\ doors[i].id = m /\ Finds(m, i)
  /\ doors[i].addr # None
  /\ sender' = [pc |-> "send", slot |-> i, mod |-> m, act |-> a,
                dest |-> doors[i].addr, cmdid |-> nextCmdid,
                attempt |-> 0, result |-> None]
  /\ nextCmdid' = nextCmdid + 1
  /\ UNCHANGED <<tables, now, home, net>>

\* Mutant: the failure is recorded while another attempt is still to come.
RetriedTooSoonFailed ==
  IF sender.attempt < ACK_RETRIES
  THEN [sender EXCEPT !.pc = "send", !.attempt = @ + 1, !.result = "no_ack"]
  ELSE [sender EXCEPT !.pc = "idle", !.result = "no_ack"]

\* attempt++: another round, or the end of the loop.
Retried == IF sender.attempt < ACK_RETRIES
           THEN [sender EXCEPT !.pc = "send", !.attempt = @ + 1]
           ELSE [sender EXCEPT !.pc = "idle", !.result = "no_ack"]

\* Mutant: every attempt looks the module's address up again.
HttpSendRefreshed ==
  /\ sender.pc = "send"
  /\ \/ /\ toDoor' = toDoor \cup
             {[mod |-> sender.mod, addr |-> doors[sender.slot].addr,
               cmdid |-> sender.cmdid, act |-> sender.act, from |-> Http]}
        /\ sender' = [sender EXCEPT !.pc = "wait"]
     \/ /\ sender' = Retried
        /\ UNCHANGED toDoor
  /\ UNCHANGED <<tables, nextCmdid, now, home, commands, feedbacks, toClient>>

HttpSend ==
  /\ sender.pc = "send"
  /\ \/ /\ toDoor' = toDoor \cup
             {[mod |-> sender.mod, addr |-> sender.dest, cmdid |-> sender.cmdid,
               act |-> sender.act, from |-> Http]}
        /\ sender' = [sender EXCEPT !.pc = "wait"]
     \/ /\ sender' = Retried            \* socket() or sendto() failed
        /\ UNCHANGED toDoor
  /\ UNCHANGED <<tables, nextCmdid, now, home, commands, feedbacks, toClient>>

\* Mutant: the id of the FEEDBACK is not compared.
AnsweredByAction == doors[sender.slot].fbAct = sender.act

\* The wait ends: by a FEEDBACK that lets the loop condition fail, or by the
\* 500 ms timeout, which may always come first.  Either way the last FEEDBACK
\* of the slot decides.
Answered == LET d == doors[sender.slot]
            IN  d.fbId >= sender.cmdid /\ d.fbAct = sender.act

HttpWake ==
  /\ sender.pc = "wait"
  /\ sender' = IF Answered
               THEN [sender EXCEPT !.pc = "idle", !.result = "ack"]
               ELSE Retried
  /\ UNCHANGED <<tables, nextCmdid, now, home, net>>

-----------------------------------------------------------------------------
(* Outside the hub                                                         *)

\* A client numbers its commands 1, 2, ... (cmdCounter of door_server.js).
ClientSend(c, m, a, k) ==
  /\ Cardinality(commands) < MaxCommands
  /\ {d.cmdid : d \in {d \in commands : d.client = c}} = 1 .. k - 1
  /\ commands' = commands \cup
       {[client |-> c, mod |-> m, cmdid |-> k, act |-> a]}
  /\ UNCHANGED <<tables, nextCmdid, sender, now, home, toDoor, feedbacks,
                 toClient>>

\* The process bound to the port a COMMAND was sent to executes it and answers.
Execute(d) ==
  /\ home[d.mod] = d.addr
  /\ \E a \in Answers(d.act) :
       feedbacks' = feedbacks \cup
         {[mod |-> d.mod, addr |-> d.addr, cmdid |-> d.cmdid, act |-> a,
           from |-> d.from]}
  /\ UNCHANGED <<tables, nextCmdid, sender, now, home, commands, toDoor, toClient>>

\* A door module restarts: its next socket has another ephemeral port.
Restart(m) ==
  /\ home[m] < MaxIncarnations
  /\ home' = [home EXCEPT ![m] = @ + 1]
  /\ UNCHANGED <<tables, nextCmdid, sender, now, net>>

Tick ==
  /\ now < MaxTime
  /\ now' = now + 1
  /\ UNCHANGED <<tables, nextCmdid, sender, home, net>>

-----------------------------------------------------------------------------
\* A module's own datagrams may come late: from any port it has used so far.
FromModule ==
  \E m \in Modules : \E a \in 1 .. home[m] :
    \/ Untracked(m, a)
    \/ \E i \in Slots : HandleNotice(m, a, i) \/ HandleHeartbeat(m, a, i)

Listener ==
  \/ FromModule
  \/ \E f \in feedbacks, i \in Slots : HandleFeedback(f, i)
  \/ \E c \in commands, i \in Slots, p \in Pends : HandleCommand(c, i, p)
  \/ CheckOffline

HttpThread ==
  \/ \E m \in Modules, a \in Actions, i \in Slots : HttpBegin(m, a, i)
  \/ HttpSend
  \/ HttpWake

Environment ==
  \/ \E c \in Clients, m \in Modules, a \in Actions, k \in 1 .. MaxCmdId :
       ClientSend(c, m, a, k)
  \/ \E d \in toDoor : Execute(d)
  \/ \E m \in Modules : Restart(m)
  \/ Tick

Next == Listener \/ HttpThread \/ Environment

Spec == Init /\ [][Next]_vars

-----------------------------------------------------------------------------
(* Properties                                                              *)

CmdIds == Nat \ {0}
Issuers == Clients \cup {Http}
Echoes == Actions \cup StatusAnswers

EndpointRecords == [id : Modules, addr : Incarnations]
Requests == [client : Clients, mod : Modules, cmdid : CmdIds, act : Actions]
Orders == [mod : Modules, addr : Incarnations, cmdid : CmdIds, act : Actions,
           from : Issuers]
Feedbacks == [mod : Modules, addr : Incarnations, cmdid : CmdIds, act : Echoes,
              from : Issuers]
Relays == [client : Clients \cup {None}, mod : Modules, cmdid : CmdIds,
           act : Echoes, from : Issuers]

DoorRecords ==
  [id : Modules \cup {None}, addr : Incarnations \cup {None},
   offline : BOOLEAN, seen : Nat, wentOff : Nat,
   fbId : Nat, fbAct : Echoes \cup {None}]

PendingRecords ==
  [cmdid : Nat, mod : Modules \cup {None}, client : Clients \cup {None},
   issued : Nat]

SenderRecords ==
  [pc : {"idle", "send", "wait"}, slot : Slots \cup {0},
   mod : Modules \cup {None}, act : Actions \cup {None},
   dest : Incarnations \cup {None}, cmdid : Nat, attempt : Nat,
   result : {"ack", "no_ack", None}]

\* What the HTTP thread holds between taking a command id and returning.
BusySenders ==
  [pc : {"send", "wait"}, slot : Slots, mod : Modules, act : Actions,
   dest : Incarnations, cmdid : CmdIds, attempt : Nat, result : {None}]

\* Every table, the HTTP thread's locals and every datagram have their types.
TypeOK ==
  /\ doors \in [Slots -> DoorRecords]
  /\ endpoints \in Seq(EndpointRecords)
  /\ pending \in [Pends -> PendingRecords]
  /\ nextCmdid \in CmdIds
  /\ sender \in SenderRecords
  /\ sender.pc # "idle" => sender \in BusySenders
  /\ now \in Nat
  /\ home \in [Modules -> Incarnations]
  /\ commands \subseteq Requests
  /\ toDoor \subseteq Orders
  /\ feedbacks \subseteq Feedbacks
  /\ toClient \subseteq Relays

\* A module never owns two status slots: find_or_create_door finds the slot it
\* has, whatever order first contacts by COMMAND and by the module come in.
OneSlotPerModule ==
  \A i, j \in Slots : doors[i].id = doors[j].id /\ doors[i].id # None => i = j

\* While hub_udp_send_command is blocked outside the mutex, the slot its saved
\* pointer (door) refers to still belongs to the module it commands: the ACK it
\* reads is that module's.
SenderSlotKept ==
  sender.pc # "idle" =>
    /\ sender.slot \in Slots
    /\ doors[sender.slot].id = sender.mod

\* The two command paths agree: the address the HTTP path uses (last_addr) and
\* the one a client's COMMAND is forwarded to (the endpoint table) are the same.
RoutesAgree ==
  \A i \in Slots : doors[i].addr # None =>
    \E e \in DOMAIN endpoints :
      endpoints[e] = [id |-> doors[i].id, addr |-> doors[i].addr]

\* An ACK is true: when the HTTP path reports success, the module has executed
\* that very command of the HTTP path and answered it.
AckIsTrue ==
  sender.result = "ack" =>
    \E f \in feedbacks :
      /\ f.mod = sender.mod /\ f.cmdid = sender.cmdid
      /\ f.act = sender.act /\ f.from = Http

\* A FEEDBACK is relayed only to a client that sent the module a COMMAND with
\* that id: neither a stale slot nor an evicted one leaks it to another client.
RelayedToAsker ==
  \A r \in toClient :
    \E c \in commands :
      c.client = r.client /\ c.mod = r.mod /\ c.cmdid = r.cmdid

\* However often a command of the HTTP path is sent, and however late a copy of
\* it arrives, one start of one module executes it: the copies of a command go
\* to the address its caller looked up once, so a module that restarts between
\* two attempts does not carry out what its predecessor has carried out.
ExecutedByOneStart ==
  \A f, g \in feedbacks :
    f.from = Http /\ g.from = Http /\ f.cmdid = g.cmdid =>
      f.mod = g.mod /\ f.addr = g.addr

Call == INSTANCE CommandCall
  WITH Retries <- ACK_RETRIES,
       busy <- sender.pc # "idle",
       call <- [mod |-> sender.mod, act |-> sender.act, cmdid |-> sender.cmdid],
       tries <- sender.attempt,
       answers <- feedbacks,
       verdict <- sender.result

\* Whoever else commands the modules, and whatever the network does, the HTTP
\* path keeps the promise of CommandCall: it does not give up early, and takes
\* for an ACK at least an answer to a command like its own, not issued before.
KeepsPromise == Call!Spec

-----------------------------------------------------------------------------
(* The inductive invariant of HubUdp_proofs                                *)

\* What the table says a module last answered, the module did answer.
FeedbackReal ==
  \A i \in Slots : doors[i].fbId # 0 =>
    \E f \in feedbacks : /\ f.mod = doors[i].id
                         /\ f.cmdid = doors[i].fbId
                         /\ f.act = doors[i].fbAct

\* Ids of the HTTP path are below its counter, also in what modules answered.
IdsIssued ==
  /\ \A d \in toDoor : d.from = Http => d.cmdid < nextCmdid
  /\ \A f \in feedbacks : f.from = Http => f.cmdid < nextCmdid

\* The HTTP thread waits for the id that was given out last, and after as many
\* attempts as it may make it waits no more.
SenderCurrent ==
  /\ sender.cmdid + 1 = nextCmdid
  /\ sender.attempt =< ACK_RETRIES

\* All copies of a command of the HTTP path are alike, like the command that is
\* being sent, and nothing is answered of which there is no copy.
CopiesAgree ==
  LET copies == {d \in toDoor : d.from = Http}
  IN  /\ \A d, e \in copies :
           d.cmdid = e.cmdid => d.mod = e.mod /\ d.addr = e.addr
      /\ \A d \in copies :
           d.cmdid = sender.cmdid => d.mod = sender.mod /\ d.addr = sender.dest
      /\ \A f \in feedbacks : f.from = Http =>
           \E d \in copies : /\ d.cmdid = f.cmdid /\ d.mod = f.mod
                             /\ d.addr = f.addr

\* An occupied pending slot holds a COMMAND its client did send.
PendingReal ==
  \A i \in Pends : pending[i].cmdid # 0 =>
    \E c \in commands : /\ c.client = pending[i].client
                        /\ c.mod = pending[i].mod
                        /\ c.cmdid = pending[i].cmdid

\* There is an endpoint entry for whoever has a status slot: for every module,
\* or, where no client's COMMAND opens a slot, for as many as there are slots
\* (HUB_MAX_DOORS is 8, HUB_MAX_MODULES 16).
RoomForAll ==
  \/ IsFiniteSet(Modules) /\ Cardinality(Modules) =< MAX_ENDPOINTS
  \/ Clients = {} /\ MAX_DOORS =< MAX_ENDPOINTS

\* hub_update_endpoint finds the entry a module has.
OneEndpointPerModule ==
  \A d, e \in DOMAIN endpoints : endpoints[d].id = endpoints[e].id => d = e

\* Without clients, slots and entries are made together, until the slots are
\* used up.
SlotsRouted ==
  Clients = {} =>
    \A i \in Slots :
      IF doors[i].id # None
      THEN \E e \in DOMAIN endpoints : endpoints[e].id = doors[i].id
      ELSE \A e \in DOMAIN endpoints : \E j \in Slots : doors[j].id = endpoints[e].id

SlotInv == TypeOK /\ OneSlotPerModule /\ SenderSlotKept
RouteInv == OneEndpointPerModule /\ SlotsRouted /\ RoutesAgree
RelayInv == TypeOK /\ PendingReal /\ RelayedToAsker
AckInv == SlotInv /\ FeedbackReal /\ IdsIssued /\ SenderCurrent /\ AckIsTrue
=============================================================================
