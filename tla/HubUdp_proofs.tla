--------------------------- MODULE HubUdp_proofs ---------------------------
(***************************************************************************)
(* Theorems about HubUdp, for every number of modules, clients, slots and  *)
(* command ids.                                                            *)
(***************************************************************************)
EXTENDS HubUdp, FiniteSetTheorems, FunctionTheorems, TLAPS

\* hub_update_endpoint keeps a well-formed table.
LEMMA UpdateEndpointType ==
  ASSUME endpoints \in Seq(EndpointRecords), NEW m \in Modules,
         NEW a \in Incarnations
  PROVE  UpdateEndpoint(m, a) \in Seq(EndpointRecords)
<1>1. [id |-> m, addr |-> a] \in EndpointRecords
  BY DEF EndpointRecords
<1> DEFINE mine == {i \in DOMAIN endpoints : endpoints[i].id = m}
           upd == [i \in DOMAIN endpoints |->
                     IF i \in mine THEN [id |-> m, addr |-> a] ELSE endpoints[i]]
<1>2. upd \in Seq(EndpointRecords)
  <2>1. DOMAIN endpoints = 1 .. Len(endpoints) /\ Len(endpoints) \in Nat
    OBVIOUS
  <2>2. \A i \in DOMAIN endpoints : endpoints[i] \in EndpointRecords
    OBVIOUS
  <2>3. upd \in [1 .. Len(endpoints) -> EndpointRecords]
    BY <1>1, <2>1, <2>2
  <2> QED BY <2>1, <2>3
<1>3. Append(endpoints, [id |-> m, addr |-> a]) \in Seq(EndpointRecords)
  BY <1>1
<1> QED BY <1>2, <1>3 DEF UpdateEndpoint

\* A slot opened for m, and located at a, is a well-typed record of m; its last
\* FEEDBACK is the one the slot had, or none when the slot is new.
LEMMA TrackedType ==
  ASSUME TypeOK, NEW m \in Modules, NEW a \in Incarnations, NEW i \in Slots
  PROVE  /\ OpenDoor(m, i) \in DoorRecords
         /\ OpenDoor(m, i).id = m
         /\ \/ doors[i].id = m /\ OpenDoor(m, i).fbId = doors[i].fbId
                               /\ OpenDoor(m, i).fbAct = doors[i].fbAct
            \/ OpenDoor(m, i).fbId = 0
         /\ Tracked(m, a, i) \in DoorRecords
         /\ Tracked(m, a, i).id = m
         /\ Tracked(m, a, i).fbId = OpenDoor(m, i).fbId
         /\ Tracked(m, a, i).fbAct = OpenDoor(m, i).fbAct
<1>1. doors[i] \in DoorRecords
  BY DEF TypeOK
<1>2. NewDoor(m) \in DoorRecords /\ NewDoor(m).id = m /\ NewDoor(m).fbId = 0
  BY DEF NewDoor, DoorRecords
<1>3. /\ OpenDoor(m, i) \in DoorRecords
      /\ OpenDoor(m, i).id = m
      /\ \/ doors[i].id = m /\ OpenDoor(m, i).fbId = doors[i].fbId
                            /\ OpenDoor(m, i).fbAct = doors[i].fbAct
         \/ OpenDoor(m, i).fbId = 0
  BY <1>1, <1>2 DEF OpenDoor
<1> QED BY <1>3 DEF Tracked, DoorRecords

\* The records that the handlers of HEARTBEAT and FEEDBACK store.
LEMMA AliveType ==
  ASSUME TypeOK, NEW m \in Modules, NEW a \in Incarnations, NEW i \in Slots
  PROVE  /\ Alive(m, a, i) \in DoorRecords
         /\ Alive(m, a, i).id = m
         /\ Alive(m, a, i).fbId = OpenDoor(m, i).fbId
         /\ Alive(m, a, i).fbAct = OpenDoor(m, i).fbAct
<1>1. now \in Nat
  BY DEF TypeOK
<1>2. ASSUME NEW r \in DoorRecords
      PROVE  /\ [r EXCEPT !.seen = now] \in DoorRecords
             /\ [r EXCEPT !.seen = now].id = r.id
             /\ [r EXCEPT !.seen = now].fbId = r.fbId
             /\ [r EXCEPT !.seen = now].fbAct = r.fbAct
  BY <1>1 DEF DoorRecords
<1>3. PICK r \in DoorRecords : r = Tracked(m, a, i)
  BY TrackedType
<1>4. Alive(m, a, i) = [r EXCEPT !.seen = now]
  BY <1>3, Zenon DEF Alive
<1> QED BY <1>2, <1>3, <1>4, TrackedType

LEMMA AcknowledgedType ==
  ASSUME TypeOK, NEW f \in Feedbacks, NEW i \in Slots
  PROVE  /\ Acknowledged(f, i) \in DoorRecords
         /\ Acknowledged(f, i).id = f.mod
         /\ Acknowledged(f, i).fbId = f.cmdid
         /\ Acknowledged(f, i).fbAct = f.act
<1>1. f.mod \in Modules /\ f.addr \in Incarnations
      /\ f.cmdid \in Nat /\ f.act \in Echoes
  BY DEF Feedbacks, CmdIds
<1>2. ASSUME NEW r \in DoorRecords
      PROVE  LET s == [r EXCEPT !.fbId = f.cmdid, !.fbAct = f.act]
             IN  s \in DoorRecords /\ s.id = r.id /\ s.fbId = f.cmdid
                 /\ s.fbAct = f.act
  BY <1>1 DEF DoorRecords
<1>3. PICK r \in DoorRecords : r = Tracked(f.mod, f.addr, i)
  BY <1>1, TrackedType
<1>4. Acknowledged(f, i) = [r EXCEPT !.fbId = f.cmdid, !.fbAct = f.act]
  BY <1>3, Zenon DEF Acknowledged
<1> QED BY <1>1, <1>2, <1>3, <1>4, TrackedType

\* The record that a datagram leaves of its module holds the address it came from.
LEMMA RecordsAddr ==
  ASSUME TypeOK, NEW i \in Slots
  PROVE  /\ \A m \in Modules, a \in Incarnations :
              Tracked(m, a, i).addr = a /\ Alive(m, a, i).addr = a
         /\ \A f \in Feedbacks : Acknowledged(f, i).addr = f.addr
<1>1. ASSUME NEW m \in Modules, NEW a \in Incarnations
      PROVE  Tracked(m, a, i).addr = a
  <2>1. OpenDoor(m, i) \in DoorRecords
    BY TrackedType
  <2> QED  BY <2>1 DEF Tracked, DoorRecords
<1>2. ASSUME NEW m \in Modules, NEW a \in Incarnations
      PROVE  Alive(m, a, i).addr = a
  <2>1. PICK r \in DoorRecords : r = Tracked(m, a, i)
    BY TrackedType
  <2>2. [r EXCEPT !.seen = now].addr = r.addr
    BY DEF DoorRecords
  <2>3. Alive(m, a, i) = [r EXCEPT !.seen = now]
    BY <2>1, Zenon DEF Alive
  <2> QED  BY <1>1, <2>1, <2>2, <2>3
<1>3. ASSUME NEW f \in Feedbacks PROVE Acknowledged(f, i).addr = f.addr
  <2>1. f.mod \in Modules /\ f.addr \in Incarnations
    BY DEF Feedbacks
  <2>2. PICK r \in DoorRecords : r = Tracked(f.mod, f.addr, i)
    BY <2>1, TrackedType
  <2>3. [r EXCEPT !.fbId = f.cmdid, !.fbAct = f.act].addr = r.addr
    BY DEF DoorRecords
  <2>4. Acknowledged(f, i) = [r EXCEPT !.fbId = f.cmdid, !.fbAct = f.act]
    BY <2>2, Zenon DEF Acknowledged
  <2> QED  BY <1>1, <2>1, <2>2, <2>3, <2>4
<1> QED  BY <1>1, <1>2, <1>3

-----------------------------------------------------------------------------
\* The initial state is well-typed.
LEMMA InitType == Init => TypeOK
<1> SUFFICES ASSUME Init PROVE TypeOK
  OBVIOUS
<1> USE DEF Init
<1>1. NewDoor(None) \in DoorRecords
  BY DEF NewDoor, DoorRecords
<1>2. NoPending \in PendingRecords
  BY DEF NoPending, PendingRecords
<1>3. Idle \in SenderRecords /\ Idle.pc = "idle"
  BY DEF Idle, SenderRecords
<1>4. endpoints \in Seq(EndpointRecords)
  OBVIOUS
<1>5. now \in Nat /\ home \in [Modules -> Incarnations]
  BY HubAssumption DEF HubAssumption, Incarnations
<1> QED BY <1>1, <1>2, <1>3, <1>4, <1>5 DEF TypeOK, CmdIds

\* Every step of the listener keeps the types.
LEMMA ListenerType == TypeOK /\ Listener => TypeOK'
<1> SUFFICES ASSUME TypeOK, Listener PROVE TypeOK'
  OBVIOUS
<1>a. \A m \in Modules : 1 .. home[m] \subseteq Incarnations
  BY HubAssumption DEF HubAssumption, TypeOK, Incarnations
<1>b. doors \in [Slots -> DoorRecords] /\ pending \in [Pends -> PendingRecords]
  BY DEF TypeOK
<1>1. ASSUME NEW m \in Modules, NEW a \in 1 .. home[m], Untracked(m, a)
      PROVE  TypeOK'
  <2>1. endpoints' \in Seq(EndpointRecords)
    BY <1>1, <1>a, UpdateEndpointType DEF Untracked, TypeOK
  <2> QED BY <1>1, <2>1 DEF Untracked, TypeOK, net
<1>2. ASSUME NEW m \in Modules, NEW a \in 1 .. home[m], NEW i \in Slots,
             HandleNotice(m, a, i)
      PROVE  TypeOK'
  <2>1. endpoints' \in Seq(EndpointRecords)
    BY <1>2, <1>a, UpdateEndpointType DEF HandleNotice, TypeOK
  <2>2. doors' \in [Slots -> DoorRecords]
    BY <1>2, <1>a, <1>b, TrackedType DEF HandleNotice
  <2> QED BY <1>2, <2>1, <2>2 DEF HandleNotice, TypeOK, net
<1>3. ASSUME NEW m \in Modules, NEW a \in 1 .. home[m], NEW i \in Slots,
             HandleHeartbeat(m, a, i)
      PROVE  TypeOK'
  <2>1. endpoints' \in Seq(EndpointRecords)
    BY <1>3, <1>a, UpdateEndpointType DEF HandleHeartbeat, TypeOK
  <2>2. doors' \in [Slots -> DoorRecords]
    BY <1>3, <1>a, <1>b, AliveType DEF HandleHeartbeat
  <2> QED BY <1>3, <2>1, <2>2 DEF HandleHeartbeat, TypeOK, net
<1>4. ASSUME NEW f \in feedbacks, NEW i \in Slots, HandleFeedback(f, i)
      PROVE  TypeOK'
  <2>1. f \in Feedbacks
    BY DEF TypeOK
  <2>2. f.mod \in Modules /\ f.addr \in Incarnations
    BY <2>1 DEF Feedbacks
  <2>3. endpoints' \in Seq(EndpointRecords)
    BY <1>4, <2>2, UpdateEndpointType DEF HandleFeedback, TypeOK
  <2>4. doors' \in [Slots -> DoorRecords]
    BY <1>4, <1>b, <2>1, AcknowledgedType DEF HandleFeedback
  <2>5. pending' \in [Pends -> PendingRecords] /\ toClient' \subseteq Relays
    <3>1. CASE UNCHANGED <<pending, toClient>>
      BY <3>1 DEF TypeOK
    <3>2. ASSUME NEW p \in Pends, Relay(f, p)
          PROVE  pending' \in [Pends -> PendingRecords] /\ toClient' \subseteq Relays
      <4>1. pending[p].client \in Clients \cup {None}
        BY <1>b DEF PendingRecords
      <4>2. [client |-> pending[p].client, mod |-> f.mod, cmdid |-> f.cmdid,
             act |-> f.act, from |-> f.from] \in Relays
        BY <2>1, <4>1 DEF Feedbacks, Relays
      <4>3. toClient' \subseteq Relays
        BY <3>2, <4>2 DEF Relay, TypeOK
      <4>4. pending' \in [Pends -> PendingRecords]
        BY <1>b, <3>2 DEF Relay, PendingRecords
      <4> QED BY <4>3, <4>4
    <3> QED BY <1>4, <3>1, <3>2 DEF HandleFeedback
  <2> QED BY <1>4, <2>3, <2>4, <2>5 DEF HandleFeedback, TypeOK
<1>5. ASSUME NEW c \in commands, NEW i \in Slots, NEW p \in Pends,
             HandleCommand(c, i, p)
      PROVE  TypeOK'
  <2>1. c \in Requests
    BY DEF TypeOK
  <2>2. c.client \in Clients /\ c.mod \in Modules /\ c.cmdid \in CmdIds
        /\ c.act \in Actions
    BY <2>1 DEF Requests
  <2>3. \A e \in DOMAIN endpoints : endpoints[e].addr \in Incarnations
    <3>1. \A e \in DOMAIN endpoints : endpoints[e] \in EndpointRecords
      BY DEF TypeOK
    <3> QED BY <3>1 DEF EndpointRecords
  <2>4. doors' \in [Slots -> DoorRecords]
    <3>1. NewDoor(c.mod) \in DoorRecords
      BY <2>2 DEF NewDoor, DoorRecords
    <3>2. OpenDoor(c.mod, i) \in DoorRecords
      BY <1>b, <3>1 DEF OpenDoor
    <3> QED BY <1>5, <1>b, <3>2 DEF HandleCommand
  <2>5. pending' \in [Pends -> PendingRecords]
    <3>1. [cmdid |-> c.cmdid, mod |-> c.mod, client |-> c.client, issued |-> now]
            \in PendingRecords
      BY <2>2 DEF PendingRecords, CmdIds, TypeOK
    <3> QED BY <1>5, <1>b, <3>1 DEF HandleCommand
  <2>6. toDoor' \subseteq Orders
    <3>1. \A e \in DOMAIN endpoints :
            [mod |-> c.mod, addr |-> endpoints[e].addr, cmdid |-> c.cmdid,
             act |-> c.act, from |-> c.client] \in Orders
      BY <2>2, <2>3 DEF Orders, Issuers
    <3> QED BY <1>5, <3>1 DEF HandleCommand, TypeOK
  <2> QED BY <1>5, <2>4, <2>5, <2>6 DEF HandleCommand, TypeOK
<1>6. CASE CheckOffline
  <2>1. \A r \in DoorRecords : /\ [r EXCEPT !.offline = TRUE, !.wentOff = now]
                                    \in DoorRecords
                               /\ [r EXCEPT !.offline = FALSE] \in DoorRecords
    BY DEF DoorRecords, TypeOK
  <2>2. doors' \in [Slots -> DoorRecords]
    BY <1>6, <1>b, <2>1 DEF CheckOffline
  <2> QED BY <1>6, <2>2 DEF CheckOffline, TypeOK, net
<1> QED BY <1>1, <1>2, <1>3, <1>4, <1>5, <1>6 DEF Listener, FromModule

\* The locals s still are those of the command the HTTP thread has begun.
SameCommand(s) == /\ s.slot = sender.slot /\ s.mod = sender.mod
                  /\ s.cmdid = sender.cmdid /\ s.act = sender.act
                  /\ s.dest = sender.dest

\* Another round, or giving up, keeps the locals well-typed and the command.
LEMMA RetriedType ==
  ASSUME sender \in BusySenders
  PROVE  /\ Retried \in SenderRecords
         /\ Retried.pc # "idle" => Retried \in BusySenders
         /\ Retried.result # "ack"
         /\ SameCommand(Retried)
<1>1. ASSUME NEW n \in Nat
      PROVE  LET s == [sender EXCEPT !.pc = "send", !.attempt = n]
             IN  s \in SenderRecords /\ s \in BusySenders /\ s.result = None
                 /\ SameCommand(s)
  BY DEF SenderRecords, BusySenders, CmdIds, SameCommand
<1>2. sender.attempt + 1 \in Nat
  BY DEF BusySenders
<1>3. LET s == [sender EXCEPT !.pc = "idle", !.result = "no_ack"]
      IN  s \in SenderRecords /\ s.pc = "idle" /\ s.result = "no_ack"
          /\ SameCommand(s)
  BY DEF SenderRecords, BusySenders, CmdIds, SameCommand
<1>4. None # "ack"
  BY HubAssumption DEF HubAssumption
<1>5. CASE sender.attempt < ACK_RETRIES
  <2>1. Retried = [sender EXCEPT !.pc = "send", !.attempt = sender.attempt + 1]
    BY <1>5 DEF Retried
  <2> QED BY <1>1, <1>2, <1>4, <2>1
<1>6. CASE ~ (sender.attempt < ACK_RETRIES)
  <2>1. Retried = [sender EXCEPT !.pc = "idle", !.result = "no_ack"]
    BY <1>6 DEF Retried
  <2> QED BY <1>3, <2>1
<1> QED BY <1>5, <1>6

\* Every step of the HTTP thread keeps the types.
LEMMA HttpType == TypeOK /\ HttpThread => TypeOK'
<1> SUFFICES ASSUME TypeOK, HttpThread PROVE TypeOK'
  OBVIOUS
<1>1. sender \in SenderRecords /\ (sender.pc # "idle" => sender \in BusySenders)
  BY DEF TypeOK
<1>2. ASSUME NEW m \in Modules, NEW a \in Actions, NEW i \in Slots,
             HttpBegin(m, a, i)
      PROVE  TypeOK'
  <2>1. doors[i].addr \in Incarnations
    BY <1>2 DEF TypeOK, DoorRecords, HttpBegin
  <2>2. sender' \in BusySenders /\ sender' \in SenderRecords
    BY <1>2, <2>1 DEF HttpBegin, BusySenders, SenderRecords, TypeOK, CmdIds
  <2>3. nextCmdid' \in CmdIds
    BY <1>2 DEF HttpBegin, TypeOK, CmdIds
  <2> QED BY <1>2, <2>2, <2>3 DEF HttpBegin, TypeOK, tables, net
<1>3. CASE HttpSend
  <2>1. sender \in BusySenders
    BY <1>1, <1>3 DEF HttpSend
  <2>2. [sender EXCEPT !.pc = "wait"] \in BusySenders \cap SenderRecords
    BY <2>1 DEF SenderRecords, BusySenders, CmdIds
  <2>3. sender' \in SenderRecords /\ (sender'.pc # "idle" => sender' \in BusySenders)
    BY <1>3, <2>1, <2>2, RetriedType DEF HttpSend
  <2>4. [mod |-> sender.mod, addr |-> sender.dest, cmdid |-> sender.cmdid,
         act |-> sender.act, from |-> Http] \in Orders
    BY <2>1 DEF BusySenders, Orders, Issuers
  <2>5. toDoor' \subseteq Orders
    BY <1>3, <2>4 DEF HttpSend, TypeOK
  <2> QED BY <1>3, <2>3, <2>5 DEF HttpSend, TypeOK, tables
<1>4. CASE HttpWake
  <2>1. sender \in BusySenders
    BY <1>1, <1>4 DEF HttpWake
  <2>2. LET s == [sender EXCEPT !.pc = "idle", !.result = "ack"]
        IN  s \in SenderRecords /\ s.pc = "idle"
    BY <2>1 DEF SenderRecords, BusySenders, CmdIds
  <2>3. sender' \in SenderRecords /\ (sender'.pc # "idle" => sender' \in BusySenders)
    BY <1>4, <2>1, <2>2, RetriedType DEF HttpWake
  <2> QED BY <1>4, <2>3 DEF HttpWake, TypeOK, tables, net
<1> QED BY <1>2, <1>3, <1>4 DEF HttpThread

\* Every step outside the hub keeps the types.
LEMMA EnvironmentType == TypeOK /\ Environment => TypeOK'
<1> SUFFICES ASSUME TypeOK, Environment PROVE TypeOK'
  OBVIOUS
<1>1. ASSUME NEW c \in Clients, NEW m \in Modules, NEW a \in Actions,
             NEW k \in 1 .. MaxCmdId, ClientSend(c, m, a, k)
      PROVE  TypeOK'
  <2>1. [client |-> c, mod |-> m, cmdid |-> k, act |-> a] \in Requests
    BY HubAssumption DEF HubAssumption, Requests, CmdIds
  <2>2. commands' \subseteq Requests
    BY <1>1, <2>1 DEF ClientSend, TypeOK
  <2> QED BY <1>1, <2>2 DEF ClientSend, TypeOK, tables
<1>2. ASSUME NEW d \in toDoor, Execute(d)
      PROVE  TypeOK'
  <2>1. PICK a \in Answers(d.act) :
          feedbacks' = feedbacks \cup
            {[mod |-> d.mod, addr |-> d.addr, cmdid |-> d.cmdid, act |-> a,
              from |-> d.from]}
    BY <1>2 DEF Execute
  <2>2. d \in Orders
    BY DEF TypeOK
  <2>3. a \in Echoes
    BY <2>2 DEF Answers, Orders, Echoes
  <2>4. [mod |-> d.mod, addr |-> d.addr, cmdid |-> d.cmdid, act |-> a,
         from |-> d.from] \in Feedbacks
    BY <2>2, <2>3 DEF Orders, Feedbacks
  <2>5. feedbacks' \subseteq Feedbacks
    BY <2>1, <2>4 DEF TypeOK
  <2> QED BY <1>2, <2>5 DEF Execute, TypeOK, tables
<1>3. ASSUME NEW m \in Modules, Restart(m)
      PROVE  TypeOK'
  <2>1. home' \in [Modules -> Incarnations]
    BY <1>3, HubAssumption DEF Restart, TypeOK, Incarnations, HubAssumption
  <2> QED BY <1>3, <2>1 DEF Restart, TypeOK, tables, net
<1>4. CASE Tick
  BY <1>4 DEF Tick, TypeOK, tables, net
<1> QED BY <1>1, <1>2, <1>3, <1>4 DEF Environment

\* TypeOK is an invariant, whatever the constants are.
THEOREM TypeCorrect == Spec => []TypeOK
<1>1. TypeOK /\ [Next]_vars => TypeOK'
  <2> SUFFICES ASSUME TypeOK, [Next]_vars PROVE TypeOK'
    OBVIOUS
  <2>1. CASE Next
    BY <2>1, ListenerType, HttpType, EnvironmentType DEF Next
  <2>2. CASE UNCHANGED vars
    BY <2>2 DEF vars, tables, net, TypeOK
  <2> QED BY <2>1, <2>2
<1> QED BY <1>1, InitType, PTL DEF Spec

-----------------------------------------------------------------------------
(* The status table                                                        *)

\* No step takes a slot away from its module or gives it to another one.
IdsKept ==
  \A j \in Slots : doors[j].id # None => doors'[j].id = doors[j].id

\* Storing a record of m in the slot find_or_create_door returns keeps every
\* other slot, and makes no second slot for m.
LEMMA StoreInFoundSlot ==
  ASSUME TypeOK, OneSlotPerModule, NEW m \in Modules, NEW i \in Slots,
         Finds(m, i), NEW r, r.id = m, doors' = [doors EXCEPT ![i] = r]
  PROVE  IdsKept /\ OneSlotPerModule'
<1>1. doors'[i] = r /\ \A j \in Slots : j # i => doors'[j] = doors[j]
  BY DEF TypeOK
<1>2. doors[i].id = m \/ (doors[i].id = None /\ \A j \in Slots : doors[j].id # m)
  BY DEF Finds
<1> QED BY <1>1, <1>2 DEF IdsKept, OneSlotPerModule

\* Every step of the system keeps the ids of the status table.
LEMMA SlotStep ==
  ASSUME TypeOK, OneSlotPerModule, [Next]_vars
  PROVE  IdsKept /\ OneSlotPerModule'
<1> DEFINE Goal == IdsKept /\ OneSlotPerModule'
<1>a. \A m \in Modules : 1 .. home[m] \subseteq Incarnations
  BY HubAssumption DEF HubAssumption, TypeOK, Incarnations
<1>0. ASSUME doors' = doors PROVE Goal
  BY <1>0 DEF IdsKept, OneSlotPerModule
<1>1. ASSUME NEW m \in Modules, NEW a \in 1 .. home[m] ,
             NEW i \in Slots, HandleNotice(m, a, i) \/ HandleHeartbeat(m, a, i)
      PROVE  Goal
  <2>1. a \in Incarnations
    BY <1>a
  <2>2. CASE HandleNotice(m, a, i)
    BY <2>1, <2>2, TrackedType, StoreInFoundSlot DEF HandleNotice
  <2>3. CASE HandleHeartbeat(m, a, i)
    BY <2>1, <2>3, AliveType, StoreInFoundSlot DEF HandleHeartbeat
  <2> QED BY <1>1, <2>2, <2>3
<1>2. ASSUME NEW f \in feedbacks, NEW i \in Slots, HandleFeedback(f, i)
      PROVE  Goal
  <2>1. f \in Feedbacks /\ f.mod \in Modules
    BY DEF TypeOK, Feedbacks
  <2> QED BY <1>2, <2>1, AcknowledgedType, StoreInFoundSlot DEF HandleFeedback
<1>3. ASSUME NEW c \in commands, NEW i \in Slots, NEW p \in Pends,
             HandleCommand(c, i, p)
      PROVE  Goal
  <2>1. c.mod \in Modules
    BY DEF TypeOK, Requests
  <2>2. OpenDoor(c.mod, i).id = c.mod
    BY DEF OpenDoor, NewDoor
  <2> QED BY <1>3, <2>1, <2>2, StoreInFoundSlot DEF HandleCommand
<1>4. ASSUME CheckOffline PROVE Goal
  <2>1. \A r \in DoorRecords : /\ [r EXCEPT !.offline = TRUE, !.wentOff = now].id = r.id
                               /\ [r EXCEPT !.offline = FALSE].id = r.id
    BY DEF DoorRecords
  <2>2. \A j \in Slots : doors'[j].id = doors[j].id
    BY <1>4, <2>1 DEF CheckOffline, TypeOK
  <2> QED BY <2>2 DEF IdsKept, OneSlotPerModule
<1>5. ASSUME NEW m \in Modules, NEW a \in 1 .. home[m], Untracked(m, a)
      PROVE  Goal
  BY <1>0, <1>5 DEF Untracked
<1>6. ASSUME HttpThread PROVE Goal
  BY <1>0, <1>6 DEF HttpThread, HttpBegin, HttpSend, HttpWake, tables
<1>7. ASSUME Environment PROVE Goal
  BY <1>0, <1>7 DEF Environment, ClientSend, Execute, Restart, Tick, tables
<1>8. ASSUME UNCHANGED vars PROVE Goal
  BY <1>0, <1>8 DEF vars, tables
<1> QED BY <1>1, <1>2, <1>3, <1>4, <1>5, <1>6, <1>7, <1>8
        DEF Next, Listener, FromModule

\* The HTTP thread keeps its slot, once it has found it, until it returns.
LEMMA SenderSlotStep ==
  ASSUME TypeOK, SenderSlotKept, IdsKept, [Next]_vars
  PROVE  SenderSlotKept'
<1> None \notin Modules
  BY HubAssumption DEF HubAssumption
<1>0. ASSUME sender' = sender PROVE SenderSlotKept'
  <2>1. sender.pc # "idle" => sender.mod \in Modules
    BY DEF TypeOK, BusySenders
  <2> QED BY <1>0, <2>1 DEF SenderSlotKept, IdsKept
<1>1. ASSUME NEW m \in Modules, NEW a \in Actions, NEW i \in Slots,
             HttpBegin(m, a, i)
      PROVE  SenderSlotKept'
  <2>1. sender'.slot = i /\ sender'.mod = m /\ doors[i].id = m /\ doors' = doors
    BY <1>1 DEF HttpBegin, tables
  <2> QED BY <2>1 DEF SenderSlotKept
<1>2. ASSUME HttpSend \/ HttpWake PROVE SenderSlotKept'
  <2>1. sender \in BusySenders
    BY <1>2 DEF TypeOK, HttpSend, HttpWake
  <2>2. /\ SameCommand([sender EXCEPT !.pc = "wait"])
        /\ SameCommand([sender EXCEPT !.pc = "idle", !.result = "ack"])
    BY <2>1 DEF BusySenders, SameCommand
  <2>3. SameCommand(sender')
    BY <1>2, <2>1, <2>2, RetriedType DEF HttpSend, HttpWake
  <2>4. sender'.slot = sender.slot /\ sender'.mod = sender.mod
    BY <2>3 DEF SameCommand
  <2>5. doors' = doors /\ sender.pc # "idle"
    BY <1>2 DEF HttpSend, HttpWake, tables
  <2> QED BY <2>4, <2>5 DEF SenderSlotKept
<1>3. ASSUME Listener PROVE SenderSlotKept'
  BY <1>0, <1>3 DEF Listener, FromModule, Untracked, HandleNotice,
     HandleHeartbeat, HandleFeedback, HandleCommand, CheckOffline
<1>4. ASSUME Environment PROVE SenderSlotKept'
  BY <1>0, <1>4 DEF Environment, ClientSend, Execute, Restart, Tick
<1>5. ASSUME UNCHANGED vars PROVE SenderSlotKept'
  BY <1>0, <1>5 DEF vars
<1> QED BY <1>1, <1>2, <1>3, <1>4, <1>5 DEF Next, HttpThread

\* A module has one slot, and the pointer hub_udp_send_command keeps while it
\* is blocked outside the mutex stays that module's slot.
THEOREM SlotsSafe == Spec => [](OneSlotPerModule /\ SenderSlotKept)
<1>1. Init => OneSlotPerModule /\ SenderSlotKept
  <2> SUFFICES ASSUME Init PROVE OneSlotPerModule /\ SenderSlotKept
    OBVIOUS
  <2>1. \A i \in Slots : doors[i].id = None
    BY DEF Init, NewDoor
  <2>2. sender.pc = "idle"
    BY DEF Init, Idle
  <2> QED BY <2>1, <2>2 DEF OneSlotPerModule, SenderSlotKept
<1>2. TypeOK /\ (OneSlotPerModule /\ SenderSlotKept) /\ [Next]_vars
        => (OneSlotPerModule /\ SenderSlotKept)'
  BY SlotStep, SenderSlotStep
<1> QED BY <1>1, <1>2, TypeCorrect, PTL DEF Spec

\* The pointer alone: the FEEDBACK the blocked HTTP thread looks at is one of the
\* module it commands.
THEOREM SenderSafe == Spec => []SenderSlotKept
<1>1. OneSlotPerModule /\ SenderSlotKept => SenderSlotKept
  OBVIOUS
<1> QED  BY <1>1, SlotsSafe, PTL

-----------------------------------------------------------------------------
(* The two routes to a module                                              *)

\* A table of slots that satisfy something has a first one.
LEMMA FirstSlot ==
  ASSUME NEW T \in SUBSET Nat, T # {}
  PROVE  \E i \in T : \A j \in 1 .. i - 1 : j \notin T
<1> DEFINE U == {1 .. i : i \in T}
           R == StrictSubsetOrdering(Nat)
<1>1. U \subseteq FiniteSubsetsOf(Nat) /\ U # {}
  <2>1. \A i \in T : 1 .. i \subseteq Nat /\ IsFiniteSet(1 .. i)
    BY FS_Interval
  <2> QED  BY <2>1 DEF FiniteSubsetsOf
<1>2. PICK X \in U : \A Y \in U : <<Y, X>> \notin R
  <2> HIDE DEF U, R
  <2> QED  BY <1>1, FS_StrictSubsetOrderingWellFounded, WFMin DEF R
<1>3. PICK i \in T : X = 1 .. i
  OBVIOUS
<1>4. ASSUME NEW j \in 1 .. i - 1, j \in T PROVE FALSE
  <2>1. 1 .. j \subseteq Nat /\ 1 .. i \subseteq Nat /\ 1 .. j \subseteq 1 .. i
    OBVIOUS
  <2>2. i \in 1 .. i /\ i \notin 1 .. j
    BY <1>4
  <2>3. <<1 .. j, 1 .. i>> \in R
    BY <2>1, <2>2 DEF StrictSubsetOrdering
  <2> QED  BY <1>2, <1>3, <1>4, <2>3
<1> QED  BY <1>4

\* find_or_create_door returns NULL only when no slot is the module's and none
\* is free.
LEMMA NoneFound ==
  ASSUME NEW m \in Modules, \A i \in Slots : ~ Finds(m, i)
  PROVE  \A i \in Slots : doors[i].id # m /\ doors[i].id # None
<1>0. Slots \subseteq Nat /\ \A i \in Slots : 1 .. i - 1 \subseteq Slots
  BY HubAssumption DEF HubAssumption, Slots
<1> DEFINE Mine == {i \in Slots : doors[i].id = m}
           Free == {i \in Slots : doors[i].id = None}
<1>1. Mine = {}
  <2> SUFFICES ASSUME Mine # {} PROVE FALSE
    OBVIOUS
  <2>1. PICK i \in Mine : \A j \in 1 .. i - 1 : j \notin Mine
    BY <1>0, FirstSlot
  <2> QED  BY <1>0, <2>1 DEF Finds
<1>2. Free = {}
  <2> SUFFICES ASSUME Free # {} PROVE FALSE
    OBVIOUS
  <2>1. PICK i \in Free : \A j \in 1 .. i - 1 : j \notin Free
    BY <1>0, FirstSlot
  <2> QED  BY <1>0, <1>1, <2>1 DEF Finds
<1> QED  BY <1>1, <1>2

HasEndpoint(m) == \E e \in DOMAIN endpoints : endpoints[e].id = m

\* hub_update_endpoint gives m's entry the address, or appends one while there is
\* room, and touches no entry of another module.
LEMMA UpdateEndpointEffect ==
  ASSUME endpoints \in Seq(EndpointRecords), OneEndpointPerModule,
         NEW m \in Modules, NEW a \in Incarnations,
         endpoints' = UpdateEndpoint(m, a)
  PROVE  /\ OneEndpointPerModule'
         /\ \A e \in DOMAIN endpoints' :
              endpoints'[e].id = m \/ \E d \in DOMAIN endpoints : endpoints[d] = endpoints'[e]
         /\ \A d \in DOMAIN endpoints : endpoints[d].id # m =>
              \E e \in DOMAIN endpoints' : endpoints'[e] = endpoints[d]
         /\ HasEndpoint(m) \/ Len(endpoints) < MAX_ENDPOINTS =>
              \E e \in DOMAIN endpoints' : endpoints'[e] = [id |-> m, addr |-> a]
<1>0. /\ DOMAIN endpoints = 1 .. Len(endpoints) /\ Len(endpoints) \in Nat
      /\ \A e \in DOMAIN endpoints : endpoints[e] \in EndpointRecords
  OBVIOUS
<1> DEFINE r == [id |-> m, addr |-> a]
<1>1. r.id = m
  OBVIOUS
<1> HIDE DEF r
<1>2. CASE HasEndpoint(m)
  <2>1. endpoints' = [i \in DOMAIN endpoints |-> IF endpoints[i].id = m THEN r ELSE endpoints[i]]
    BY <1>2 DEF UpdateEndpoint, HasEndpoint, r
  <2> QED  BY <1>1, <1>2, <2>1 DEF HasEndpoint, OneEndpointPerModule, r
<1>3. CASE ~ HasEndpoint(m) /\ Len(endpoints) < MAX_ENDPOINTS
  <2>1. endpoints' = Append(endpoints, r)
    BY <1>3 DEF UpdateEndpoint, HasEndpoint, r
  <2>2. /\ DOMAIN endpoints' = 1 .. Len(endpoints) + 1
        /\ \A e \in DOMAIN endpoints : endpoints'[e] = endpoints[e]
        /\ endpoints'[Len(endpoints) + 1] = r
    BY <1>0, <2>1
  <2> HIDE <2>1
  <2>3. OneEndpointPerModule'
    BY <1>0, <1>1, <1>3, <2>2 DEF HasEndpoint, OneEndpointPerModule
  <2>4. \A e \in DOMAIN endpoints' :
          endpoints'[e].id = m \/ \E d \in DOMAIN endpoints : endpoints[d] = endpoints'[e]
    BY <1>0, <1>1, <2>2
  <2>5. \A d \in DOMAIN endpoints : \E e \in DOMAIN endpoints' : endpoints'[e] = endpoints[d]
    BY <1>0, <2>2
  <2>6. \E e \in DOMAIN endpoints' : endpoints'[e] = r
    BY <1>0, <2>2
  <2> QED  BY <2>3, <2>4, <2>5, <2>6 DEF r
<1>4. CASE ~ HasEndpoint(m) /\ ~ (Len(endpoints) < MAX_ENDPOINTS)
  <2>1. endpoints' = endpoints
    BY <1>4 DEF UpdateEndpoint, HasEndpoint
  <2> QED  BY <1>4, <2>1 DEF OneEndpointPerModule
<1> QED  BY <1>2, <1>3, <1>4

\* There are at most as many entries as things they are told apart by.
LEMMA EntriesFew ==
  ASSUME endpoints \in Seq(EndpointRecords), NEW S, IsFiniteSet(S),
         NEW f \in [DOMAIN endpoints -> S],
         \A d, e \in DOMAIN endpoints : f[d] = f[e] => d = e
  PROVE  Len(endpoints) =< Cardinality(S)
<1>1. DOMAIN endpoints = 1 .. Len(endpoints) /\ Len(endpoints) \in Nat
  OBVIOUS
<1>2. Cardinality(DOMAIN endpoints) = Len(endpoints)
  <2>1. ASSUME NEW n \in Nat PROVE Cardinality(1 .. n) = n
    BY FS_Interval
  <2> QED  BY <1>1, <2>1
<1>3. f \in Injection(DOMAIN endpoints, S)
  BY Fun_IsInj
<1> QED  BY <1>2, <1>3, FS_Injection

\* A module whose slot is found has an entry, or there is room for one.
LEMMA HasRoom ==
  ASSUME RoomForAll, TypeOK, RouteInv, NEW m \in Modules, NEW i \in Slots, Finds(m, i)
  PROVE  HasEndpoint(m) \/ Len(endpoints) < MAX_ENDPOINTS
<1> SUFFICES ASSUME ~ HasEndpoint(m) PROVE Len(endpoints) < MAX_ENDPOINTS
  OBVIOUS
<1>1. /\ endpoints \in Seq(EndpointRecords) /\ Len(endpoints) \in Nat
      /\ \A e \in DOMAIN endpoints : endpoints[e].id \in Modules
  <2>1. endpoints \in Seq(EndpointRecords)
    BY DEF TypeOK
  <2>2. \A e \in DOMAIN endpoints : endpoints[e] \in EndpointRecords
    BY <2>1
  <2> QED  BY <2>1, <2>2 DEF EndpointRecords
<1>2. MAX_DOORS \in Nat \ {0} /\ MAX_ENDPOINTS \in Nat
  BY HubAssumption DEF HubAssumption
<1>3. \A d, e \in DOMAIN endpoints : endpoints[d].id = endpoints[e].id => d = e
  BY DEF RouteInv, OneEndpointPerModule
<1>4. CASE IsFiniteSet(Modules) /\ Cardinality(Modules) =< MAX_ENDPOINTS
  <2> DEFINE f == [e \in DOMAIN endpoints |-> endpoints[e].id]
             S == Modules \ {m}
  <2>1. f \in [DOMAIN endpoints -> S]
    BY <1>1 DEF HasEndpoint
  <2>2. IsFiniteSet(S) /\ Cardinality(S) = Cardinality(Modules) - 1
    BY <1>4, FS_RemoveElement
  <2>3. \A d, e \in DOMAIN endpoints : f[d] = f[e] => d = e
    BY <1>3
  <2> HIDE DEF f, S
  <2>4. Len(endpoints) =< Cardinality(S)
    BY <1>1, <2>1, <2>2, <2>3, EntriesFew
  <2>5. Cardinality(Modules) \in Nat
    BY <1>4, FS_CardinalityType
  <2> QED  BY <1>1, <1>2, <1>4, <2>2, <2>4, <2>5
<1>5. CASE Clients = {} /\ MAX_DOORS =< MAX_ENDPOINTS
  <2>1. doors[i].id = None
    BY <1>5 DEF RouteInv, SlotsRouted, HasEndpoint, Finds
  <2> DEFINE f == [e \in DOMAIN endpoints |-> CHOOSE j \in Slots : doors[j].id = endpoints[e].id]
             S == Slots \ {i}
  <2>2. \A e \in DOMAIN endpoints : \E j \in Slots : doors[j].id = endpoints[e].id
    BY <1>5, <2>1 DEF RouteInv, SlotsRouted
  <2>3. \A e \in DOMAIN endpoints : f[e] \in Slots /\ doors[f[e]].id = endpoints[e].id
    BY <2>2
  <2>4. None \notin Modules
    BY HubAssumption DEF HubAssumption
  <2> HIDE DEF f
  <2>5. \A e \in DOMAIN endpoints : f[e] \in S
    BY <1>1, <2>1, <2>3, <2>4
  <2>6. f \in [DOMAIN endpoints -> S]
    BY <2>5 DEF f
  <2>7. \A d, e \in DOMAIN endpoints : f[d] = f[e] => d = e
    BY <1>3, <2>3
  <2>8. IsFiniteSet(S) /\ Cardinality(S) = MAX_DOORS - 1
    <3>1. IsFiniteSet(Slots) /\ Cardinality(Slots) = MAX_DOORS
      BY <1>2, FS_Interval DEF Slots
    <3> QED  BY <3>1, FS_RemoveElement
  <2> HIDE DEF S
  <2>9. Len(endpoints) =< Cardinality(S)
    BY <1>1, <2>6, <2>7, <2>8, EntriesFew
  <2> QED  BY <1>1, <1>2, <1>5, <2>8, <2>9
<1> QED  BY <1>4, <1>5 DEF RoomForAll

\* Where a datagram of m is handled, its slot and its entry get the same address.
LEMMA RoutedTogether ==
  ASSUME RoomForAll, TypeOK, OneSlotPerModule, RouteInv,
         NEW m \in Modules, NEW a \in Incarnations, NEW i \in Slots, Finds(m, i),
         NEW r, r.id = m, r.addr = a,
         doors' = [doors EXCEPT ![i] = r], endpoints' = UpdateEndpoint(m, a)
  PROVE  RouteInv'
<1>0. None \notin Modules
  BY HubAssumption DEF HubAssumption
<1>1. endpoints \in Seq(EndpointRecords) /\ OneEndpointPerModule
  BY DEF TypeOK, RouteInv
<1>2. HasEndpoint(m) \/ Len(endpoints) < MAX_ENDPOINTS
  BY HasRoom
<1>3. /\ OneEndpointPerModule'
      /\ \A e \in DOMAIN endpoints' :
           endpoints'[e].id = m \/ \E d \in DOMAIN endpoints : endpoints[d] = endpoints'[e]
      /\ \A d \in DOMAIN endpoints : endpoints[d].id # m =>
           \E e \in DOMAIN endpoints' : endpoints'[e] = endpoints[d]
      /\ \E e \in DOMAIN endpoints' : endpoints'[e] = [id |-> m, addr |-> a]
  BY <1>1, <1>2, UpdateEndpointEffect
<1>4. /\ doors'[i] = r
      /\ \A j \in Slots \ {i} : doors'[j] = doors[j] /\ doors[j].id # m
  BY <1>0 DEF Finds, OneSlotPerModule, TypeOK
<1>5. doors[i].id \in {m, None}
  BY DEF Finds
<1>6. RoutesAgree'
  BY <1>3, <1>4 DEF RouteInv, RoutesAgree
<1>7. SlotsRouted'
  <2> SUFFICES ASSUME Clients = {}, NEW j \in Slots
               PROVE  IF doors'[j].id # None
                      THEN \E e \in DOMAIN endpoints' : endpoints'[e].id = doors'[j].id
                      ELSE \A e \in DOMAIN endpoints' :
                             \E k \in Slots : doors'[k].id = endpoints'[e].id
    BY DEF SlotsRouted
  <2>1. ASSUME doors'[j].id # None
        PROVE  \E e \in DOMAIN endpoints' : endpoints'[e].id = doors'[j].id
    BY <1>3, <1>4, <2>1 DEF RouteInv, SlotsRouted
  <2>2. ASSUME doors'[j].id = None, NEW e \in DOMAIN endpoints'
        PROVE  \E k \in Slots : doors'[k].id = endpoints'[e].id
    <3>1. doors[j].id = None
      BY <1>0, <1>4, <2>2
    <3>2. CASE endpoints'[e].id = m
      BY <1>4, <3>2
    <3>3. CASE endpoints'[e].id # m
      <4>1. PICK d \in DOMAIN endpoints : endpoints[d] = endpoints'[e]
        BY <1>3, <3>3
      <4>2. PICK k \in Slots : doors[k].id = endpoints[d].id
        BY <3>1 DEF RouteInv, SlotsRouted
      <4>3. endpoints[d].id \in Modules
        <5>1. endpoints[d] \in EndpointRecords
          BY <1>1
        <5> QED  BY <5>1 DEF EndpointRecords
      <4>4. k # i
        BY <1>0, <1>5, <3>3, <4>1, <4>2, <4>3
      <4> QED  BY <1>4, <4>1, <4>2, <4>4
    <3> QED  BY <3>2, <3>3
  <2> QED  BY <2>1, <2>2
<1> QED  BY <1>3, <1>6, <1>7 DEF RouteInv

\* Whatever a step of the hub and of its modules does, the routes agree.
LEMMA RouteStep ==
  ASSUME RoomForAll, TypeOK, OneSlotPerModule, RouteInv, [Next]_vars
  PROVE  RouteInv'
<1>a. \A m \in Modules : 1 .. home[m] \subseteq Incarnations
  BY HubAssumption DEF HubAssumption, TypeOK, Incarnations
<1>0. ASSUME UNCHANGED endpoints,
             \A j \in Slots : doors'[j].id = doors[j].id /\ doors'[j].addr = doors[j].addr
      PROVE  RouteInv'
  BY <1>0 DEF RouteInv, OneEndpointPerModule, SlotsRouted, RoutesAgree
<1>1. ASSUME NEW m \in Modules, NEW a \in 1 .. home[m], Untracked(m, a)
      PROVE  RouteInv'
  <2>1. \A j \in Slots : doors[j].id # m /\ doors[j].id # None
    BY <1>1, NoneFound DEF Untracked
  <2>2. endpoints' = UpdateEndpoint(m, a) /\ doors' = doors
    BY <1>1 DEF Untracked
  <2>3. /\ OneEndpointPerModule'
        /\ \A d \in DOMAIN endpoints : endpoints[d].id # m =>
             \E e \in DOMAIN endpoints' : endpoints'[e] = endpoints[d]
    BY <1>a, <2>2, UpdateEndpointEffect DEF TypeOK, RouteInv
  <2> QED  BY <2>1, <2>2, <2>3 DEF RouteInv, SlotsRouted, RoutesAgree
<1>2. ASSUME NEW m \in Modules, NEW a \in 1 .. home[m], NEW i \in Slots,
             HandleNotice(m, a, i) \/ HandleHeartbeat(m, a, i)
      PROVE  RouteInv'
  <2>1. a \in Incarnations
    BY <1>a
  <2>2. CASE HandleNotice(m, a, i)
    BY <2>1, <2>2, TrackedType, RecordsAddr, RoutedTogether DEF HandleNotice
  <2>3. CASE HandleHeartbeat(m, a, i)
    BY <2>1, <2>3, AliveType, RecordsAddr, RoutedTogether DEF HandleHeartbeat
  <2> QED  BY <1>2, <2>2, <2>3
<1>3. ASSUME NEW f \in feedbacks, NEW i \in Slots, HandleFeedback(f, i)
      PROVE  RouteInv'
  <2>1. f \in Feedbacks /\ f.mod \in Modules /\ f.addr \in Incarnations
    BY DEF TypeOK, Feedbacks
  <2> QED  BY <1>3, <2>1, AcknowledgedType, RecordsAddr, RoutedTogether DEF HandleFeedback
<1>4. ASSUME NEW c \in commands, NEW i \in Slots, NEW p \in Pends,
             HandleCommand(c, i, p)
      PROVE  RouteInv'
  <2>1. Clients # {}
    BY DEF TypeOK, Requests
  <2>2. doors' = [doors EXCEPT ![i] = OpenDoor(c.mod, i)] /\ endpoints' = endpoints
    BY <1>4 DEF HandleCommand
  <2>3. OpenDoor(c.mod, i) = doors[i] \/ OpenDoor(c.mod, i).addr = None
    BY DEF OpenDoor, NewDoor
  <2>4. RoutesAgree'
    BY <2>2, <2>3 DEF RouteInv, RoutesAgree, TypeOK
  <2> QED  BY <2>1, <2>2, <2>4 DEF RouteInv, OneEndpointPerModule, SlotsRouted
<1>5. ASSUME CheckOffline PROVE RouteInv'
  <2>1. \A r \in DoorRecords :
          /\ [r EXCEPT !.offline = TRUE, !.wentOff = now].id = r.id
          /\ [r EXCEPT !.offline = TRUE, !.wentOff = now].addr = r.addr
          /\ [r EXCEPT !.offline = FALSE].id = r.id
          /\ [r EXCEPT !.offline = FALSE].addr = r.addr
    BY DEF DoorRecords
  <2>2. \A j \in Slots : doors'[j].id = doors[j].id /\ doors'[j].addr = doors[j].addr
    BY <1>5, <2>1 DEF CheckOffline, TypeOK
  <2> QED  BY <1>0, <1>5, <2>2 DEF CheckOffline
<1>6. ASSUME HttpThread PROVE RouteInv'
  BY <1>0, <1>6 DEF HttpThread, HttpBegin, HttpSend, HttpWake, tables
<1>7. ASSUME Environment PROVE RouteInv'
  BY <1>0, <1>7 DEF Environment, ClientSend, Execute, Restart, Tick, tables
<1>8. ASSUME UNCHANGED vars PROVE RouteInv'
  BY <1>0, <1>8 DEF vars, tables
<1> QED  BY <1>1, <1>2, <1>3, <1>4, <1>5, <1>6, <1>7, <1>8 DEF Next, Listener, FromModule

\* The HTTP path and a client's COMMAND reach a module at the same address,
\* however often modules restart and whatever is late, as long as the endpoint
\* table has room for whoever gets a slot in the status table.
THEOREM RoutesSafe == ASSUME RoomForAll PROVE Spec => []RoutesAgree
<1>1. Init => RouteInv
  <2> SUFFICES ASSUME Init PROVE RouteInv
    OBVIOUS
  <2>1. DOMAIN endpoints = {} /\ \A i \in Slots : doors[i].id = None /\ doors[i].addr = None
    BY DEF Init, NewDoor
  <2> QED  BY <2>1 DEF RouteInv, OneEndpointPerModule, SlotsRouted, RoutesAgree
<1>2. TypeOK /\ (OneSlotPerModule /\ SenderSlotKept) /\ RouteInv /\ [Next]_vars => RouteInv'
  BY RouteStep
<1>3. RouteInv => RoutesAgree
  BY DEF RouteInv
<1> QED  BY <1>1, <1>2, <1>3, TypeCorrect, SlotsSafe, PTL DEF Spec

-----------------------------------------------------------------------------
(* Relays                                                                  *)

\* What a step does to the commands, the pending table and the relays:
\* nothing, or a client sends, a COMMAND is registered, a FEEDBACK is relayed.
LEMMA RelayStep ==
  ASSUME RelayInv, [Next]_vars
  PROVE  PendingReal' /\ RelayedToAsker'
<1> USE DEF RelayInv
<1> DEFINE Goal == PendingReal' /\ RelayedToAsker'
<1>0. ASSUME commands \subseteq commands', UNCHANGED <<pending, toClient>>
      PROVE  Goal
  BY <1>0 DEF PendingReal, RelayedToAsker
<1>1. ASSUME NEW f \in feedbacks, NEW i \in Slots, HandleFeedback(f, i)
      PROVE  Goal
  <2>1. CASE UNCHANGED <<pending, toClient>>
    BY <1>0, <1>1, <2>1 DEF HandleFeedback
  <2>2. ASSUME NEW p \in Pends, Relay(f, p) PROVE Goal
    <3>1. commands' = commands
      BY <1>1 DEF HandleFeedback
    <3>2. f.cmdid \in Nat /\ f.cmdid # 0
      BY DEF TypeOK, Feedbacks, CmdIds
    <3>3. pending[p].cmdid = f.cmdid /\ pending[p].mod = f.mod
      BY <2>2 DEF Relay, Clears, IsFor
    <3>4. PICK c \in commands : /\ c.client = pending[p].client
                                /\ c.mod = f.mod /\ c.cmdid = f.cmdid
      BY <3>2, <3>3 DEF PendingReal
    <3>5. RelayedToAsker'
      BY <2>2, <3>1, <3>4 DEF Relay, RelayedToAsker
    <3>6. \A j \in Pends : pending'[j].cmdid # 0 => pending'[j] = pending[j]
      BY <2>2 DEF Relay, TypeOK, PendingRecords
    <3>7. PendingReal'
      BY <3>1, <3>6 DEF PendingReal
    <3> QED BY <3>5, <3>7
  <2> QED BY <1>1, <2>1, <2>2 DEF HandleFeedback
<1>2. ASSUME NEW c \in commands, NEW i \in Slots, NEW p \in Pends,
             HandleCommand(c, i, p)
      PROVE  Goal
  <2>1. \A j \in Pends :
          \/ pending'[j] = pending[j]
          \/ /\ pending'[j].client = c.client /\ pending'[j].mod = c.mod
             /\ pending'[j].cmdid = c.cmdid
    BY <1>2 DEF HandleCommand, TypeOK
  <2>2. UNCHANGED <<commands, toClient>>
    BY <1>2 DEF HandleCommand
  <2> QED BY <2>1, <2>2 DEF PendingReal, RelayedToAsker
<1>3. ASSUME FromModule \/ CheckOffline PROVE Goal
  BY <1>0, <1>3 DEF FromModule, Untracked, HandleNotice, HandleHeartbeat,
     CheckOffline, net
<1>4. ASSUME HttpThread PROVE Goal
  BY <1>0, <1>4 DEF HttpThread, HttpBegin, HttpSend, HttpWake, tables, net
<1>5. ASSUME Environment PROVE Goal
  BY <1>0, <1>5 DEF Environment, ClientSend, Execute, Restart, Tick, tables, net
<1>6. ASSUME UNCHANGED vars PROVE Goal
  BY <1>0, <1>6 DEF vars, tables, net
<1> QED BY <1>1, <1>2, <1>3, <1>4, <1>5, <1>6 DEF Next, Listener

\* A FEEDBACK is relayed only to a client that sent its module a COMMAND with
\* its id, however small the pending table is and whoever sends.
THEOREM RelaySafe == Spec => []RelayedToAsker
<1>1. Init => PendingReal /\ RelayedToAsker
  BY DEF Init, NoPending, PendingReal, RelayedToAsker
<1>2. TypeOK /\ (PendingReal /\ RelayedToAsker) /\ [Next]_vars
        => (PendingReal /\ RelayedToAsker)'
  BY RelayStep DEF RelayInv
<1> QED BY <1>1, <1>2, TypeCorrect, PTL DEF Spec

-----------------------------------------------------------------------------
(* Acknowledgements of the HTTP path                                       *)

\* FEEDBACK stored in a slot is what the slot's module sent, and stays so.
LEMMA FeedbackRealStep ==
  ASSUME TypeOK, OneSlotPerModule, FeedbackReal, [Next]_vars
  PROVE  FeedbackReal'
<1> DEFINE Told(r, fs) == r.fbId # 0 => \E f \in fs : /\ f.mod = r.id
                                                      /\ f.cmdid = r.fbId
                                                      /\ f.act = r.fbAct
<1>a. \A m \in Modules : 1 .. home[m] \subseteq Incarnations
  BY HubAssumption DEF HubAssumption, TypeOK, Incarnations
<1>b. \A i \in Slots : Told(doors[i], feedbacks)
  BY DEF FeedbackReal
<1>0. ASSUME doors' = doors, feedbacks \subseteq feedbacks' PROVE FeedbackReal'
  BY <1>0 DEF FeedbackReal
<1>c. ASSUME NEW i \in Slots, NEW r, doors' = [doors EXCEPT ![i] = r],
             Told(r, feedbacks), feedbacks' = feedbacks
      PROVE  FeedbackReal'
  <2>1. \A j \in Slots : Told(doors'[j], feedbacks')
    BY <1>b, <1>c DEF TypeOK
  <2> QED BY <2>1 DEF FeedbackReal
<1>1. ASSUME NEW m \in Modules, NEW a \in 1 .. home[m], NEW i \in Slots,
             HandleNotice(m, a, i) \/ HandleHeartbeat(m, a, i)
      PROVE  FeedbackReal'
  <2>1. a \in Incarnations
    BY <1>a
  <2>2. CASE HandleNotice(m, a, i)
    <3>1. Told(Tracked(m, a, i), feedbacks)
      BY <1>b, <2>1, TrackedType
    <3> QED BY <1>c, <2>2, <3>1 DEF HandleNotice, net
  <2>3. CASE HandleHeartbeat(m, a, i)
    <3>1. Told(Alive(m, a, i), feedbacks)
      BY <1>b, <2>1, TrackedType, AliveType
    <3> QED BY <1>c, <2>3, <3>1 DEF HandleHeartbeat, net
  <2> QED BY <1>1, <2>2, <2>3
<1>2. ASSUME NEW f \in feedbacks, NEW i \in Slots, HandleFeedback(f, i)
      PROVE  FeedbackReal'
  <2>1. Told(Acknowledged(f, i), feedbacks)
    BY AcknowledgedType DEF TypeOK
  <2> QED BY <1>c, <1>2, <2>1 DEF HandleFeedback
<1>3. ASSUME NEW c \in commands, NEW i \in Slots, NEW p \in Pends,
             HandleCommand(c, i, p)
      PROVE  FeedbackReal'
  <2>1. Told(OpenDoor(c.mod, i), feedbacks)
    BY <1>b DEF OpenDoor, NewDoor
  <2> QED BY <1>c, <1>3, <2>1 DEF HandleCommand
<1>4. ASSUME CheckOffline PROVE FeedbackReal'
  <2>1. \A r \in DoorRecords :
          LET off == [r EXCEPT !.offline = TRUE, !.wentOff = now]
              on == [r EXCEPT !.offline = FALSE]
          IN  /\ off.id = r.id /\ off.fbId = r.fbId /\ off.fbAct = r.fbAct
              /\ on.id = r.id /\ on.fbId = r.fbId /\ on.fbAct = r.fbAct
    BY DEF DoorRecords
  <2>2. \A j \in Slots : /\ doors'[j].id = doors[j].id
                         /\ doors'[j].fbId = doors[j].fbId
                         /\ doors'[j].fbAct = doors[j].fbAct
    BY <1>4, <2>1 DEF CheckOffline, TypeOK
  <2> QED BY <1>4, <2>2 DEF CheckOffline, FeedbackReal, net
<1>5. ASSUME NEW m \in Modules, NEW a \in 1 .. home[m], Untracked(m, a)
      PROVE  FeedbackReal'
  BY <1>0, <1>5 DEF Untracked, net
<1>6. ASSUME HttpThread PROVE FeedbackReal'
  BY <1>0, <1>6 DEF HttpThread, HttpBegin, HttpSend, HttpWake, tables, net
<1>7. ASSUME Environment PROVE FeedbackReal'
  BY <1>0, <1>7 DEF Environment, ClientSend, Execute, Restart, Tick, tables, net
<1>8. ASSUME UNCHANGED vars PROVE FeedbackReal'
  BY <1>0, <1>8 DEF vars, tables, net
<1> QED BY <1>1, <1>2, <1>3, <1>4, <1>5, <1>6, <1>7, <1>8
        DEF Next, Listener, FromModule

\* Steps outside the HTTP thread: the thread's locals and the id counter stay,
\* and no FEEDBACK is unsent.
LEMMA OthersFrame ==
  ASSUME Listener \/ Environment \/ UNCHANGED vars
  PROVE  UNCHANGED <<sender, nextCmdid>> /\ feedbacks \subseteq feedbacks'
<1>1. CASE Listener
  BY <1>1 DEF Listener, FromModule, Untracked, HandleNotice, HandleHeartbeat,
     HandleFeedback, HandleCommand, CheckOffline, net
<1>2. CASE Environment
  BY <1>2 DEF Environment, ClientSend, Execute, Restart, Tick, tables, net
<1>3. CASE UNCHANGED vars
  BY <1>3 DEF vars, net
<1> QED BY <1>1, <1>2, <1>3

\* HttpSend and HttpWake work on the command HttpBegin began.
LEMMA HttpFrame ==
  ASSUME TypeOK, HttpSend \/ HttpWake
  PROVE  /\ sender \in BusySenders
         /\ SameCommand(sender')
         /\ UNCHANGED <<doors, nextCmdid, feedbacks>>
<1>1. sender \in BusySenders
  BY DEF TypeOK, HttpSend, HttpWake
<1>2. /\ SameCommand([sender EXCEPT !.pc = "wait"])
      /\ SameCommand([sender EXCEPT !.pc = "idle", !.result = "ack"])
  BY <1>1 DEF BusySenders, SameCommand
<1>3. SameCommand(sender')
  BY <1>1, <1>2, RetriedType DEF HttpSend, HttpWake
<1> QED BY <1>1, <1>3 DEF HttpSend, HttpWake, tables, net

\* An attempt that came to nothing is counted, and the last one ends the call.
LEMMA RetriedEffect ==
  ASSUME sender \in BusySenders, sender.attempt =< ACK_RETRIES
  PROVE  /\ Retried.attempt =< ACK_RETRIES
         /\ \/ /\ sender.attempt < ACK_RETRIES
               /\ Retried.pc = "send" /\ Retried.result = sender.result
               /\ Retried.attempt = sender.attempt + 1
            \/ /\ sender.attempt = ACK_RETRIES
               /\ Retried.pc = "idle" /\ Retried.result = "no_ack"
               /\ Retried.attempt = sender.attempt
<1>1. ACK_RETRIES \in Nat /\ sender.attempt \in Nat
  BY HubAssumption DEF HubAssumption, BusySenders
<1>2. CASE sender.attempt < ACK_RETRIES
  <2>1. Retried = [sender EXCEPT !.pc = "send", !.attempt = sender.attempt + 1]
    BY <1>2 DEF Retried
  <2> QED BY <1>1, <1>2, <2>1 DEF BusySenders
<1>3. CASE sender.attempt = ACK_RETRIES
  <2>1. Retried = [sender EXCEPT !.pc = "idle", !.result = "no_ack"]
    BY <1>1, <1>3 DEF Retried
  <2> QED BY <1>1, <1>3, <2>1 DEF BusySenders
<1> QED BY <1>1, <1>2, <1>3

\* The id the HTTP thread waits for is the last one it took, and it has not
\* made more attempts than it may.
LEMMA SenderCurrentStep ==
  ASSUME TypeOK, SenderCurrent, [Next]_vars
  PROVE  SenderCurrent'
<1>1. ASSUME NEW m \in Modules, NEW a \in Actions, NEW i \in Slots,
             HttpBegin(m, a, i)
      PROVE  SenderCurrent'
  <2>1. ACK_RETRIES \in Nat
    BY HubAssumption DEF HubAssumption
  <2> QED BY <1>1, <2>1 DEF HttpBegin, SenderCurrent
<1>2. ASSUME HttpSend \/ HttpWake PROVE SenderCurrent'
  <2>1. sender \in BusySenders /\ SameCommand(sender') /\ nextCmdid' = nextCmdid
    BY <1>2, HttpFrame
  <2>2. /\ [sender EXCEPT !.pc = "wait"].attempt = sender.attempt
        /\ [sender EXCEPT !.pc = "idle", !.result = "ack"].attempt = sender.attempt
    BY <2>1 DEF BusySenders
  <2>3. sender'.attempt =< ACK_RETRIES
    BY <1>2, <2>1, <2>2, RetriedEffect DEF HttpSend, HttpWake, SenderCurrent
  <2> QED BY <2>1, <2>3 DEF SenderCurrent, SameCommand
<1>3. ASSUME Listener \/ Environment \/ UNCHANGED vars PROVE SenderCurrent'
  BY <1>3, OthersFrame DEF SenderCurrent
<1> QED BY <1>1, <1>2, <1>3 DEF Next, HttpThread

\* No datagram carries an id of the HTTP path that it has not taken yet.
LEMMA IdsIssuedStep ==
  ASSUME TypeOK, SenderCurrent, IdsIssued, [Next]_vars
  PROVE  IdsIssued'
<1>a. nextCmdid \in Nat
  BY DEF TypeOK, CmdIds
<1>b. /\ \A d \in toDoor : d.cmdid \in Nat
      /\ \A f \in feedbacks : f.cmdid \in Nat
  BY DEF TypeOK, Orders, Feedbacks, CmdIds
<1>0. ASSUME UNCHANGED <<toDoor, feedbacks>>, nextCmdid' \in {nextCmdid, nextCmdid + 1}
      PROVE  IdsIssued'
  BY <1>0, <1>a, <1>b DEF IdsIssued
<1>1. ASSUME NEW m \in Modules, NEW a \in Actions, NEW i \in Slots,
             HttpBegin(m, a, i)
      PROVE  IdsIssued'
  BY <1>0, <1>1 DEF HttpBegin, net
<1>2. ASSUME HttpSend PROVE IdsIssued'
  <2>1. sender.cmdid \in Nat /\ sender.cmdid < nextCmdid
    BY <1>2, <1>a, HttpFrame DEF HttpSend, SenderCurrent, BusySenders, CmdIds
  <2>2. UNCHANGED <<nextCmdid, feedbacks>>
    BY <1>2 DEF HttpSend
  <2>3. \A d \in toDoor' : d \in toDoor \/ d.cmdid = sender.cmdid
    BY <1>2 DEF HttpSend
  <2> QED BY <2>1, <2>2, <2>3 DEF IdsIssued
<1>3. ASSUME HttpWake PROVE IdsIssued'
  BY <1>0, <1>3 DEF HttpWake, net
<1>4. ASSUME NEW c \in commands, NEW i \in Slots, NEW p \in Pends,
             HandleCommand(c, i, p)
      PROVE  IdsIssued'
  <2>1. c.client # Http
    BY HubAssumption DEF HubAssumption, TypeOK, Requests, Http
  <2>2. \A d \in toDoor' : d \in toDoor \/ d.from = c.client
    BY <1>4 DEF HandleCommand
  <2>3. UNCHANGED <<nextCmdid, feedbacks>>
    BY <1>4 DEF HandleCommand
  <2> QED BY <2>1, <2>2, <2>3 DEF IdsIssued
<1>5. ASSUME NEW f \in feedbacks, NEW i \in Slots, HandleFeedback(f, i)
      PROVE  IdsIssued'
  BY <1>0, <1>5 DEF HandleFeedback
<1>6. ASSUME FromModule \/ CheckOffline PROVE IdsIssued'
  BY <1>0, <1>6 DEF FromModule, Untracked, HandleNotice, HandleHeartbeat,
     CheckOffline, net
<1>7. ASSUME NEW d \in toDoor, Execute(d) PROVE IdsIssued'
  <2>1. \A f \in feedbacks' :
          f \in feedbacks \/ (f.cmdid = d.cmdid /\ f.from = d.from)
    BY <1>7 DEF Execute
  <2>2. UNCHANGED <<nextCmdid, toDoor>>
    BY <1>7 DEF Execute
  <2> QED BY <2>1, <2>2 DEF IdsIssued
<1>8. ASSUME NEW c \in Clients, NEW m \in Modules, NEW a \in Actions,
             NEW k \in 1 .. MaxCmdId, ClientSend(c, m, a, k)
      PROVE  IdsIssued'
  BY <1>0, <1>8 DEF ClientSend
<1>9. ASSUME (\E m \in Modules : Restart(m)) \/ Tick \/ UNCHANGED vars
      PROVE  IdsIssued'
  BY <1>0, <1>9 DEF Restart, Tick, vars, net
<1> QED BY <1>1, <1>2, <1>3, <1>4, <1>5, <1>6, <1>7, <1>8, <1>9
        DEF Next, Listener, HttpThread, Environment

\* Where only the HTTP path commands the modules, an ACK it reports stems from
\* the very command: ids in its slot are at most the one it waits for.
LEMMA AckStep ==
  ASSUME Clients = {}, AckInv, [Next]_vars
  PROVE  AckIsTrue'
<1> USE DEF AckInv, SlotInv
<1>a. None # "ack"
  BY HubAssumption DEF HubAssumption
<1>1. ASSUME NEW m \in Modules, NEW a \in Actions, NEW i \in Slots,
             HttpBegin(m, a, i)
      PROVE  AckIsTrue'
  BY <1>a, <1>1 DEF HttpBegin, AckIsTrue
<1>2. ASSUME HttpSend PROVE AckIsTrue'
  <2>1. sender \in BusySenders
    BY <1>2, HttpFrame
  <2>2. [sender EXCEPT !.pc = "wait"].result = None
    BY <2>1 DEF BusySenders
  <2>3. sender'.result # "ack"
    BY <1>2, <1>a, <2>1, <2>2, RetriedType DEF HttpSend
  <2> QED BY <2>3 DEF AckIsTrue
<1>3. ASSUME HttpWake PROVE AckIsTrue'
  <2>1. sender \in BusySenders /\ SameCommand(sender') /\ feedbacks' = feedbacks
    BY <1>3, HttpFrame
  <2>2. CASE ~ Answered
    <3>1. sender' = Retried
      BY <1>3, <2>2 DEF HttpWake
    <3> QED BY <2>1, <3>1, RetriedType DEF AckIsTrue
  <2>3. CASE Answered
    <3> DEFINE d == doors[sender.slot]
    <3>1. sender.pc # "idle"
      BY <1>3 DEF HttpWake
    <3>2. sender.slot \in Slots /\ d.id = sender.mod
      BY <3>1 DEF SenderSlotKept
    <3>3. sender.cmdid \in Nat \ {0} /\ sender.cmdid + 1 = nextCmdid
          /\ nextCmdid \in Nat
      BY <2>1, <3>1 DEF SenderCurrent, BusySenders, CmdIds, TypeOK
    <3>4. d.fbId \in Nat /\ d.fbId >= sender.cmdid /\ d.fbAct = sender.act
      BY <2>3, <3>2 DEF Answered, TypeOK, DoorRecords
    <3>5. d.fbId # 0
      BY <3>3, <3>4
    <3>6. PICK f \in feedbacks : f.mod = d.id /\ f.cmdid = d.fbId
                                 /\ f.act = d.fbAct
      BY <3>2, <3>5 DEF FeedbackReal
    <3>7. f.from = Http
      BY DEF TypeOK, Feedbacks, Issuers
    <3>8. f.cmdid < nextCmdid
      BY <3>7 DEF IdsIssued
    <3>9. f.cmdid = sender.cmdid
      BY <3>3, <3>4, <3>6, <3>8
    <3> QED BY <2>1, <3>2, <3>4, <3>6, <3>7, <3>9 DEF AckIsTrue, SameCommand
  <2> QED BY <2>2, <2>3
<1>4. ASSUME Listener \/ Environment \/ UNCHANGED vars PROVE AckIsTrue'
  BY <1>4, OthersFrame DEF AckIsTrue
<1> QED BY <1>1, <1>2, <1>3, <1>4 DEF Next, HttpThread

\* If the HTTP API is the only source of commands, "ack": true means that the
\* module executed and answered this very command, whatever the network loses,
\* repeats or reorders and however often modules restart.
THEOREM AckSafe == Clients = {} => (Spec => []AckIsTrue)
<1> SUFFICES ASSUME Clients = {} PROVE Spec => []AckIsTrue
  OBVIOUS
<1> DEFINE I == FeedbackReal /\ IdsIssued /\ SenderCurrent /\ AckIsTrue
<1>1. Init => I
  <2> SUFFICES ASSUME Init PROVE I
    OBVIOUS
  <2>1. None # "ack" /\ ACK_RETRIES \in Nat
    BY HubAssumption DEF HubAssumption
  <2> QED BY <2>1 DEF Init, NewDoor, Idle, FeedbackReal, IdsIssued,
             SenderCurrent, AckIsTrue
<1>2. TypeOK /\ (OneSlotPerModule /\ SenderSlotKept) /\ I /\ [Next]_vars => I'
  BY FeedbackRealStep, IdsIssuedStep, SenderCurrentStep, AckStep
     DEF AckInv, SlotInv
<1>3. I => AckIsTrue
  OBVIOUS
<1> QED BY <1>1, <1>2, <1>3, TypeCorrect, SlotsSafe, PTL DEF Spec

-----------------------------------------------------------------------------
(* Copies of a command of the HTTP path                                    *)

\* A step that sends nothing and keeps the command of the HTTP thread.
LEMMA CopiesFrame ==
  ASSUME CopiesAgree, UNCHANGED <<toDoor, feedbacks>>,
         sender'.cmdid = sender.cmdid, sender'.mod = sender.mod,
         sender'.dest = sender.dest
  PROVE  CopiesAgree'
BY DEF CopiesAgree

\* A command that begins has a number of which there is no copy yet.
LEMMA CopiesBegin ==
  ASSUME TypeOK, IdsIssued, CopiesAgree,
         NEW m \in Modules, NEW a \in Actions, NEW i \in Slots, HttpBegin(m, a, i)
  PROVE  CopiesAgree'
<1>1. sender'.cmdid = nextCmdid /\ UNCHANGED <<toDoor, feedbacks>>
  BY DEF HttpBegin, net
<1>2. \A d \in toDoor : d.from = Http => d.cmdid # nextCmdid
  <2> SUFFICES ASSUME NEW d \in toDoor, d.from = Http PROVE d.cmdid # nextCmdid
    OBVIOUS
  <2>1. d.cmdid \in Nat /\ nextCmdid \in Nat /\ d.cmdid < nextCmdid
    BY DEF TypeOK, Orders, CmdIds, IdsIssued
  <2> QED  BY <2>1
<1> QED  BY <1>1, <1>2 DEF CopiesAgree

\* Another copy is like the ones before it.
LEMMA CopiesSend ==
  ASSUME TypeOK, CopiesAgree, HttpSend
  PROVE  CopiesAgree'
<1>1. SameCommand(sender') /\ feedbacks' = feedbacks
  BY HttpFrame
<1>2. CASE toDoor' = toDoor
  BY <1>1, <1>2, CopiesFrame DEF SameCommand
<1>3. CASE toDoor' = toDoor \cup
             {[mod |-> sender.mod, addr |-> sender.dest, cmdid |-> sender.cmdid,
               act |-> sender.act, from |-> Http]}
  BY <1>1, <1>3 DEF CopiesAgree, SameCommand
<1> QED  BY <1>2, <1>3 DEF HttpSend

\* What is answered is a copy; what a client commands is none.
LEMMA CopiesStep ==
  ASSUME TypeOK, IdsIssued, CopiesAgree, [Next]_vars
  PROVE  CopiesAgree'
<1>1. CASE HttpThread
  <2>1. CASE HttpWake
    <3>1. SameCommand(sender') /\ UNCHANGED <<toDoor, feedbacks>>
      BY <2>1, HttpFrame DEF HttpWake, net
    <3> QED  BY <3>1, CopiesFrame DEF SameCommand
  <2> QED  BY <1>1, <2>1, CopiesBegin, CopiesSend DEF HttpThread
<1>2. ASSUME NEW c \in commands, NEW i \in Slots, NEW p \in Pends,
             HandleCommand(c, i, p)
      PROVE  CopiesAgree'
  <2>1. c.client # Http
    BY HubAssumption DEF HubAssumption, TypeOK, Requests, Http
  <2>2. \A d \in toDoor' : d \in toDoor \/ d.from = c.client
    BY <1>2 DEF HandleCommand
  <2>3. toDoor \subseteq toDoor' /\ UNCHANGED <<sender, feedbacks>>
    BY <1>2 DEF HandleCommand
  <2> QED  BY <2>1, <2>2, <2>3 DEF CopiesAgree
<1>3. ASSUME NEW d \in toDoor, Execute(d) PROVE CopiesAgree'
  <2>1. \A f \in feedbacks' : \/ f \in feedbacks
                              \/ /\ f.cmdid = d.cmdid /\ f.from = d.from
                                 /\ f.mod = d.mod /\ f.addr = d.addr
    BY <1>3 DEF Execute
  <2>2. UNCHANGED <<sender, toDoor>>
    BY <1>3 DEF Execute
  <2> QED  BY <2>1, <2>2 DEF CopiesAgree
<1>4. ASSUME \/ FromModule \/ CheckOffline
             \/ \E f \in feedbacks, i \in Slots : HandleFeedback(f, i)
             \/ \E c \in Clients, m \in Modules, a \in Actions,
                   k \in 1 .. MaxCmdId : ClientSend(c, m, a, k)
             \/ (\E m \in Modules : Restart(m)) \/ Tick \/ UNCHANGED vars
      PROVE  CopiesAgree'
  <2>1. UNCHANGED <<sender, toDoor, feedbacks>>
    BY <1>4 DEF FromModule, Untracked, HandleNotice, HandleHeartbeat,
       CheckOffline, HandleFeedback, ClientSend, Restart, Tick, vars, net
  <2> QED  BY <2>1, CopiesFrame
<1> QED  BY <1>1, <1>2, <1>3, <1>4 DEF Next, Listener, Environment

\* A command of the HTTP path is executed by one start of one module only, for
\* any number of attempts, restarts and late copies, and whoever else commands.
THEOREM OneStartExecutes == Spec => []ExecutedByOneStart
<1> DEFINE I == IdsIssued /\ SenderCurrent /\ CopiesAgree
<1>1. Init => I
  <2>1. ACK_RETRIES \in Nat
    BY HubAssumption DEF HubAssumption
  <2> QED  BY <2>1 DEF Init, Idle, IdsIssued, SenderCurrent, CopiesAgree
<1>2. TypeOK /\ I /\ [Next]_vars => I'
  BY IdsIssuedStep, SenderCurrentStep, CopiesStep
<1>3. I => ExecutedByOneStart
  BY DEF CopiesAgree, ExecutedByOneStart
<1> QED  BY <1>1, <1>2, <1>3, TypeCorrect, PTL DEF Spec

-----------------------------------------------------------------------------
(* The promise of CommandCall                                              *)

\* The call the HTTP thread makes, or made last, as CommandCall sees it.
TheCall == [mod |-> sender.mod, act |-> sender.act, cmdid |-> sender.cmdid]

\* Steps that the caller of hub_udp_send_command does not see.
CallStutter ==
  UNCHANGED <<sender.pc # "idle", TheCall, sender.attempt, feedbacks,
              sender.result>>

\* The call goes on: its module, action and number stay, and so do the answers.
LEMMA SameCall ==
  ASSUME SameCommand(sender') PROVE TheCall' = TheCall
BY DEF SameCommand, TheCall

\* What the slot of the call holds when the wait ends well is an answer to a
\* command of the same action, with this number or a later one.
LEMMA AnsweredReal ==
  ASSUME TypeOK, SenderSlotKept, FeedbackReal, sender.pc # "idle", Answered
  PROVE  \E f \in feedbacks : /\ f.mod = TheCall.mod /\ f.act = TheCall.act
                              /\ f.cmdid >= TheCall.cmdid
<1> DEFINE d == doors[sender.slot]
<1>1. sender.slot \in Slots /\ d.id = sender.mod
  BY DEF SenderSlotKept
<1>2. sender.cmdid \in Nat \ {0}
  BY DEF TypeOK, BusySenders, CmdIds
<1>3. d.fbId \in Nat /\ d.fbId >= sender.cmdid /\ d.fbAct = sender.act
  BY <1>1 DEF Answered, TypeOK, DoorRecords
<1>4. d.fbId # 0
  BY <1>2, <1>3
<1>5. PICK f \in feedbacks : f.mod = d.id /\ f.cmdid = d.fbId /\ f.act = d.fbAct
  BY <1>1, <1>4 DEF FeedbackReal
<1> QED  BY <1>1, <1>3, <1>5 DEF TheCall

\* The first critical section asks, with the next number.
LEMMA BeginAsks ==
  ASSUME TypeOK, SenderCurrent,
         NEW m \in Modules, NEW a \in Actions, NEW i \in Slots, HttpBegin(m, a, i)
  PROVE  Call!Ask
<1>1. sender.cmdid + 1 = nextCmdid
  BY DEF SenderCurrent
<1>2. sender'.pc = "send" /\ sender'.cmdid = nextCmdid /\ sender'.attempt = 0
  BY DEF HttpBegin
<1>3. sender.pc = "idle" /\ UNCHANGED feedbacks
  BY DEF HttpBegin, net
<1> QED  BY <1>1, <1>2, <1>3 DEF Call!Ask

\* An attempt that failed is a retry, or, being the last, gives the call up.
LEMMA RetriedIsRetryOrGiveUp ==
  ASSUME TypeOK, SenderCurrent, sender.pc # "idle", sender' = Retried,
         feedbacks' = feedbacks
  PROVE  Call!Retry \/ Call!GiveUp
<1>1. sender \in BusySenders /\ sender.attempt =< ACK_RETRIES
  BY DEF TypeOK, SenderCurrent
<1>2. TheCall' = TheCall
  BY <1>1, RetriedType, SameCall
<1>3. CASE /\ sender.attempt < ACK_RETRIES
           /\ Retried.pc = "send" /\ Retried.result = sender.result
           /\ Retried.attempt = sender.attempt + 1
  BY <1>2, <1>3 DEF Call!Retry, TheCall
<1>4. CASE /\ sender.attempt = ACK_RETRIES
           /\ Retried.pc = "idle" /\ Retried.result = "no_ack"
           /\ Retried.attempt = sender.attempt
  BY <1>2, <1>4 DEF Call!GiveUp, TheCall
<1> QED  BY <1>1, <1>3, <1>4, RetriedEffect

\* Sending is invisible when it succeeds.
LEMMA SendImplements ==
  ASSUME TypeOK, SenderCurrent, HttpSend
  PROVE  Call!Next \/ CallStutter
<1>1. /\ sender \in BusySenders /\ SameCommand(sender') /\ feedbacks' = feedbacks
      /\ sender.pc # "idle"
  BY HttpFrame DEF HttpSend
<1>2. CASE sender' = [sender EXCEPT !.pc = "wait"]
  <2>1. /\ sender'.pc = "wait" /\ sender'.attempt = sender.attempt
        /\ sender'.result = sender.result
    BY <1>1, <1>2 DEF BusySenders
  <2> QED  BY <1>1, <2>1, SameCall DEF CallStutter
<1>3. CASE sender' = Retried
  BY <1>1, <1>3, RetriedIsRetryOrGiveUp DEF Call!Next
<1> QED  BY <1>2, <1>3 DEF HttpSend

\* The end of a wait acknowledges, retries or gives up.
LEMMA WakeImplements ==
  ASSUME TypeOK, SenderSlotKept, FeedbackReal, SenderCurrent, HttpWake
  PROVE  Call!Next
<1>1. /\ sender \in BusySenders /\ SameCommand(sender') /\ feedbacks' = feedbacks
      /\ sender.pc # "idle"
  BY HttpFrame DEF HttpWake
<1>2. CASE ~ Answered
  BY <1>1, <1>2, RetriedIsRetryOrGiveUp DEF HttpWake, Call!Next
<1>3. CASE Answered
  <2>1. sender' = [sender EXCEPT !.pc = "idle", !.result = "ack"]
    BY <1>3 DEF HttpWake
  <2>2. /\ sender'.pc = "idle" /\ sender'.attempt = sender.attempt
        /\ sender'.result = "ack"
    BY <1>1, <2>1 DEF BusySenders
  <2>3. TheCall' = TheCall
    BY <1>1, SameCall
  <2>4. \E f \in feedbacks : /\ f.mod = TheCall.mod /\ f.act = TheCall.act
                             /\ f.cmdid >= TheCall.cmdid
    BY <1>1, <1>3, AnsweredReal
  <2>5. Call!Acknowledge
    BY <1>1, <2>2, <2>3, <2>4 DEF Call!Acknowledge, TheCall
  <2> QED  BY <2>5 DEF Call!Next
<1> QED  BY <1>2, <1>3

\* Whatever the listener, the modules and other clients do, the caller sees at
\* most new answers.
LEMMA OthersAnswer ==
  ASSUME Listener \/ Environment \/ UNCHANGED vars
  PROVE  Call!Answer
<1>1. sender' = sender /\ feedbacks \subseteq feedbacks'
  BY OthersFrame
<1> QED  BY <1>1 DEF Call!Answer

\* Every call of hub_udp_send_command is what CommandCall promises, whoever else
\* commands its module and whatever the network does: a number of its own, the
\* attempts it may make and all of them before it fails, and success only after
\* an answer of that module to a command of that action, not issued before it.
THEOREM ImplementsCall == Spec => KeepsPromise
<1> DEFINE I == FeedbackReal /\ SenderCurrent
           S == OneSlotPerModule /\ SenderSlotKept
<1>1. Init => I
  <2>1. ACK_RETRIES \in Nat
    BY HubAssumption DEF HubAssumption
  <2> QED BY <2>1 DEF Init, NewDoor, Idle, FeedbackReal, SenderCurrent
<1>2. TypeOK /\ S /\ I /\ [Next]_vars => I'
  BY FeedbackRealStep, SenderCurrentStep
<1>3. Init => Call!Init
  BY DEF Init, Idle, Call!Init
<1>4. TypeOK /\ S /\ I /\ [Next]_vars =>
        [Call!Next]_<<sender.pc # "idle",
                      [mod |-> sender.mod, act |-> sender.act, cmdid |-> sender.cmdid],
                      sender.attempt, feedbacks, sender.result>>
  <2> SUFFICES ASSUME TypeOK, S, I, [Next]_vars PROVE Call!Next \/ CallStutter
    BY DEF CallStutter, TheCall
  <2>1. ASSUME NEW m \in Modules, NEW a \in Actions, NEW i \in Slots,
               HttpBegin(m, a, i)
        PROVE  Call!Next
    BY <2>1, BeginAsks DEF Call!Next
  <2>2. CASE HttpSend
    BY <2>2, SendImplements
  <2>3. CASE HttpWake
    BY <2>3, WakeImplements
  <2>4. CASE Listener \/ Environment \/ UNCHANGED vars
    BY <2>4, OthersAnswer DEF Call!Next
  <2> QED  BY <2>1, <2>2, <2>3, <2>4 DEF Next, HttpThread
<1> QED BY <1>1, <1>2, <1>3, <1>4, TypeCorrect, SlotsSafe, PTL
        DEF Spec, KeepsPromise, Call!Spec, Call!callVars
=============================================================================
