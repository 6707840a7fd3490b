# A verification project for the Home Security System

TLA+ modules, TLC runs and TLAPS proofs about the home security system in this
repository: C programs for a hub and for door modules that talk over UDP, and a
Node.js server with a web page. `PROJECT.json` lists the runs, the code each
definition stands for, the theorems, the findings and the hazards; this file
explains them.

## 1. The system

| Part | Code | State it keeps | Operations |
|---|---|---|---|
| Hub UDP core | `hal/src/hub_udp.c` | status slots `g_doors` (8), endpoints `g_endpoints` (16), pending client commands `g_pending_cmds` (128), `g_next_cmdid`, two sockets, `g_stopping` | listener thread with `handle_line` per datagram type, `check_offline_modules`, `hub_udp_send_command`, status queries, init, shutdown |
| Hub event history | `hal/src/hub_udp.c` | ring `g_history` (256), `g_hist_head`, `g_hist_count` | `add_history`, `hub_udp_get_history` |
| Webhook queue | `hal/src/system_webhook.c` | linked list of messages, `running`, the worker thread | init, send, worker, shutdown |
| Discord alert monitor | `app/src/discord_alert.c` | last message posted, running flag | start, poll every 500 ms (stop has no caller) |
| HTTP API | `app/src/http_api.c` | listening socket, `server_running` | start, stop, one request at a time: status, command |
| Hub main program | `app/src/door_system.c` | none but its threads | start-up, the hub's terminal, shutdown, then a second terminal that operates the lock of this machine |
| Door operations | `app/src/doorMod.c`, `doorMod_cli.c`, `door_udp_handler.c` | `__last_known_door`, the caller's `Door_t` | `lockDoor`, `unlockDoor`, `get_door_status`, heartbeat thread, quit and cleanup |
| Door-side transport | `hal/src/door_udp.c` | previous report `g_prev_*`, `g_last_heartbeat_ms`, `g_cmd_running` | command thread, `door_udp_update`, `door_udp_close` |
| Lock motor | `hal/src/StepperMotor.c` | `current_step_position` | `StepperMotor_Rotate`, `StepperMotor_GetPosition` |
| LED worker | `hal/src/led_worker.c` | ring of 32 tasks, `g_worker_running`, the worker thread | `LED_enqueue_*`, `LED_worker_init`, `LED_worker_shutdown`, `worker_fn` |
| Node server | `gui/lib/door_server.js`, `gui/server.js` | `cmdCounter`, `pending` map with timers | send a COMMAND, handle a FEEDBACK, time out, broadcast |
| Web page | `gui/web_control.js` | `doorStates`, running poll chains | load, periodic STATUS, button, show FEEDBACK, poll after LOCK and UNLOCK |

How they interact:

* A door module sends the hub `HELLO`, `EVENT` and `FEEDBACK` datagrams to one port and
  `HEARTBEAT` to another; the hub learns the module's address from any of them, and what
  it shows of the door from `EVENT` and `HEARTBEAT`.
* A COMMAND reaches a module in two ways. The HTTP API calls
  `hub_udp_send_command`, which takes an id from the hub's counter, sends from a
  socket of its own to `last_addr`, and blocks (up to three tries of 500 ms) until
  the module's status slot shows a FEEDBACK that matches. The Node server sends the
  hub a COMMAND datagram with an id of its *own* counter; the hub notes the client in
  the pending table, forwards the line to the endpoint table's address, and relays
  the FEEDBACK that comes back under that id. The Node server passes it on to *every*
  page.
* Within the hub the listener, the HTTP thread, the alert monitor and the terminal
  share the tables under `g_mutex`, which the listener also holds while it posts an alert
  to Discord. The webhook worker shares its list with the terminal. Main starts the
  threads and joins them in a fixed order, and then takes over the lock. Within a door
  module the terminal, the command thread and the heartbeat thread share the motor
  position and the previous report under no lock at all.

What is hard about it: datagrams are lost, repeated and reordered; a module restarts
with another port; an answer comes after the sender gave up, or answers another
sender's command of the same id; tables and buffers fill up; a drain loop or a slow
request to Discord holds up everything else; three threads move one motor and report one
state; rotations fail half-way and sensors fail; threads are woken, joined and stopped.
`hazards` in `PROJECT.json` lists each at its line, with the properties that watch it.

## 2. The modules

| Module | Models | Checked by |
|---|---|---|
| `HubUdp` | the hub's tables, the listener's handlers, offline detection, the HTTP command path; outside: modules, clients, network, clock; implements `CommandCall` | `HubHttp`, `HubClients`, `HubForeignAck` through `MCHubUdp` |
| `CommandCall` | the abstract promise of `hub_udp_send_command` to its caller | as a property |
| `HubListener` | one module's picture in the hub: two sockets, drain loop, offline check, alerts under the mutex, the alert monitor; outside: the module, a network that loses and delays, time | `HubListener` through `MCHubListener` |
| `HistoryRing` | the history ring and its readers | as a part of `HubProcess` |
| `WebhookQueue` | the list, its worker, its shutdown | as a part of `HubProcess` |
| `HubProcess` | main program, listener and HTTP threads, composed with `HistoryRing` and `WebhookQueue` | `HubProcess` through `MCHubProcess` |
| `StepperMotor` | the arithmetic of positions, steps and degrees | through `DoorModule` |
| `DoorModule` | the three threads of a door module: operations, motor, reports, quit; implements `DoorLock` | `Door*` through `MCDoorModule` |
| `DoorLock` | the abstract promise to those who send a module COMMANDs: a lock that turns once per command and is truthfully reported | as a property |
| `LedTasks` | the abstract promise: a bounded drop-oldest queue played in order | as a property |
| `LedQueue` | the ring, the worker thread and its condition variable; implements `LedTasks` | `Led` through `MCLedQueue` |
| `DoorServer` | the Node bridge: command ids, pending map, timers, send callbacks | `Server` through `MCDoorServer` |
| `WebPage` | what a page shows of a module, through a network that loses and reorders | `WebPage` through `MCWebPage` |
| `*_proofs` | theorems about `HubUdp`, `HubListener`, `HistoryRing`, `HubProcess` (with `WebhookQueue`), `DoorModule`, `LedQueue`, `DoorServer`, `WebPage` | TLAPS |

`HubUdp` and `HubListener` both model the listener, each for one question. `HubUdp` has
all tables and many modules, and lets any handler run at any time, which includes every
order the drain loop can produce; it keeps nothing that only the sensor flags need.
`HubListener` has one module's flags and the order of the loop, which liveness is about.

### HubUdp

One action is one critical section of `g_mutex`. `handle_line` unlocks while it relays
or forwards; nothing but the listener uses the pending and the endpoint table, so its
handler is one action per datagram type: `HandleNotice` (HELLO, EVENT, unknown),
`HandleHeartbeat`, `HandleFeedback`, `HandleCommand`, and `Untracked` when no status
slot can be had. `CheckOffline` is `check_offline_modules`, which the listener may run
between any two datagrams. `hub_udp_send_command` is three kinds of step: `HttpBegin`
(first critical section), `HttpSend` (an attempt, whose `socket()` or `sendto()` may
fail) and `HttpWake` (second critical section; the wait may end by a FEEDBACK or by the
timeout, and in either case the slot's last FEEDBACK decides). Its return for a module
that is unknown or has no address (`hub_udp.c:757`) cannot be taken: the one caller,
`http_api.c:233`, has just found both, and neither is ever withdrawn; so `HttpBegin` and
`Ask` of `CommandCall` leave it out.

`doors[i]` is a slot of `g_doors` (`id = None` when not `known`; `addr`, `offline`,
`seen`, `wentOff`, `fbId`, `fbAct` are `last_addr`, `offline`, `last_heartbeat_ms`,
`last_online_ms`, `last_feedback_cmdid`, `last_feedback_action`); `pending[i]` a slot
of `g_pending_cmds`, free when its id is 0; `endpoints` the used part of
`g_endpoints`; `sender` the locals of the HTTP thread. A target always comes with its
action, so the model has one field for both.

The network is a set of datagrams from which nothing is removed: each may be delivered
never, late, out of order or repeatedly. A module's own HELLO, EVENT and HEARTBEAT
carry nothing these tables keep but its address, so they need no sets: any address the
module has had so far may appear as a sender. A client is one *start* of the Node server:
it has a port of its own and counts its commands from 1.

`CommandCall` is what a caller of `hub_udp_send_command` sees: `Ask` (a number of its
own), `Retry`, then `Acknowledge` or `GiveUp`, while answers of modules come in
(`Answer`). It allows what the code allows: an answer of a *later* number, to whomever,
acknowledges too. The refinement takes `sender` for the call and the FEEDBACK datagrams
for the answers; sending, the listener and the clients are stutters. When there are no
clients, `AckIsTrue` says more: the answer is to that very command.

### HubListener

`notif` and `beats` are what waits in `g_sock` and `g_sock2`, of which each buffers
`SockBuf` datagrams and drops the rest. `pc` is where `udp_thread` is: `Select` prefers
the notification socket, `HandleNotification` and `HandleHeartbeat` are a round of the
drain loop each, `Drained` its end, `CheckOffline` the check that follows. An EVENT that
writes a flag and a change of `offline` lead to `postEvent` and `postAlert`, where the
listener holds `g_mutex` until `AlertPosted`: `sendDiscordAlert` sets no timeout, so
this may take for ever. The monitor (`Poll`, `MessagePosted`) reads under `g_mutex`, posts
outside of it, and compares with what it posted last; the provider's text contains the
time of the last heartbeat, which is why `Poll` looks at `fresh`.

The picture is `d0_open`. Outside, the door moves (`DoorMoves` sends the EVENT),
heartbeats come in between, and `Sent` decides whether a datagram arrives, is lost or
will arrive late. Time is counted in ticks since the last heartbeat was *handled*
(`silence`, as the code does) and since one *arrived* (`unheard`, a history variable).
`mode` says from when on the door and the talkers are quiet (`calm`), or the module gone
(`dead`): the liveness properties are about what the hub comes to show then.

### WebhookQueue, HistoryRing and HubProcess

`WebhookQueue` has one action per critical section of `queue_lock`: `HookSend`,
`HookDequeue` (which waits, takes a message or ends the worker), `HookStop`, and outside
of it `HookPosted`, `HookJoin` and the spurious wakeup. A copy that could not be allocated
is queued as `Failed`; taking it ends the worker like the shutdown does. `HistoryRing`
has `add_history` and `get_history`; `log`, a history variable, keeps what the ring ought
to hold.

`HubProcess` composes the two by conjunction: `CliHistory` is `get_history` and
`HookSend` in one step of the terminal (they share no state, and nobody else reads what
the terminal got), `ListenerRecord` is `add_history` by the listener (two for a
FEEDBACK, one or none for another datagram, one for every change of `offline` up to
`ListenerChecked`; each is a step, which allows more interleavings with the terminal
than the code), `StopHook` and `JoinHook` are the queue's shutdown at their place in
`main`. `main` follows `door_system.c` from the webhook's start to the end of the second
terminal. The HTTP server is in `accept`, waits for a client's request (`recv`, without
a timeout), commands a module, or operates the lock of this machine. `numbered` says
whether `control_number` has a value: the first line of the second terminal, when it is
no number, leads to a test of an uninitialised variable, and `EnterInvalid` has both
outcomes. What every handled datagram does to the other tables is the subject of
`HubUdp`.

### StepperMotor and DoorModule

The threads `cli`, `cmd` and `hb` step from one access to shared state to the next
(`pc` names where each is), because the code takes no lock: a read of the sensor, a
read of the motor position, the comparison with the previous report, its save, and,
for every half-step, the load and the store of `current_step_position` (`StepLoad`,
`StepStore`): the increment is a read and a write, and two threads may interleave
them. `driven` counts what the pins were really driven. `told` is what the hub would
believe after the datagrams sent so far. A COMMAND's `Door_t` starts UNKNOWN, the
terminal's is kept between operations.

`Begin` to `Finish` is an operation: `UnlockCheck`, `Measure`, `UnlockRecall`, one of
`LockDecide`, `UnlockDecide`, `StatusDecide`, then possibly `Rotate`, `StepLoad`,
`StepStore` ... `Arrive` or `StepFails`, then the report (`ReportMeasure`, `ReadLock`,
`FirstUpdate`, `SaveFirst`, `SendFirst` or `Update`, `SavePrevious`; `Remember`). The
heartbeat thread runs `HbMeasure`, `ReadLock`, the update and `HbLoop`. `Quit`,
`JoinHb`, `JoinCmd`, the cleanup's rotation and `Rejoin` are the end of `main`; the
second `pthread_join` of the same thread is undefined, so `Rejoin` may return or hang.
`CmdLoop` enters `recvfrom`, which nothing but a datagram leaves (`Begin` or
`CmdIgnore`), since the two-port start sets no timeout. `Ending` is what a quit leaves
the lock at, from the end of the command thread on: the end the cleanup has to find,
turns to, and leaves.

`DoorLock` has a bolt, the order that is executed and its outcome. The refinement takes
the bolt to be turning while the command thread drives (`Driving`) and else at 180 degrees
or not; the order is the command thread's operation and the outcome its `Door_t`. Nothing
that the terminal, the heartbeat or the cleanup of quit does may show.

### LedTasks and LedQueue

Everything under `g_q_mutex` is a step, up to the wait that releases it: `Sleep` and
`Woken` are the two halves of `pthread_cond_wait`, `SpuriousWakeup` what POSIX allows.
All `LED_enqueue_*` functions are the action `Enqueue` with a different kind. The
refinement maps the ring's contents from head to tail to `waiting`, and the popped task
to `playing`.

### DoorServer

Node runs one callback at a time, so a callback is an action: `Request` (a page asks),
`Sent`, `CommandSendFails` and `InfoSendFails` (the callback of the send), `Feedback`
and `StrayFeedback` (a datagram of the hub), `Timeout` (the timer). `Transmit` is the
datagram leaving; the code does not rely on the callback of the send running before a
FEEDBACK is delivered, and neither does the model. `pending` and `timers` are the ids in
the map and the ids with a running timer; `fed` and `failed` count what is addressed to
a request's own page. Whether anybody waits for it or not, every FEEDBACK is also
broadcast to all pages, with its id and the asking page included (`Broadcast`); `echoed`
keeps how far the send of the request was when that happened. `lock-door`,
`unlock-door`, `send-command` and the handlers of `server.js` all end in `sendCommand`
and are one kind of request; `get-door-info` enters its request before the send and is
the other. A page that has disconnected is answered into the void, which changes no
state of the server.

### WebPage

One module as one page shows it: `doorOpen` and `lockLocked` are its entry of
`doorStates`, `Shown` the text `updateUIForModule` makes of them, `Enabled` whether the
button can be pressed (`fresh`: the row has not been written since the page was loaded,
and its button is still enabled as in `UI.html`), `chains` the running `pollStatus`
chains, each a captured expectation and a counter. Two chains that are alike make the
same polls and the same decisions, so a set holds them. The Node server and the hub
between page and module are two sets of datagrams, `toDoor` and `toPage`, from which
each is taken in any order or lost. Another page's command is answered to this page too
(`OthersCommand`), as the server broadcasts every FEEDBACK. A page receives
`door-feedback` and then `command-feedback` of each; the second repeats the first for
`STATUS_*` and writes the row anew as it is for LOCK and UNLOCK, so that `ReceiveStatus`
and `ReceiveEcho` are one step each. `Click` is `toggleDoor`: it sends UNLOCK when the
lock is shown locked and else LOCK, also while nothing is known. The page's timers are
the actions `PeriodicPoll` and `ChainLooks`.

## 3. The runs

Passing runs (2 workers: from a few seconds to about three minutes each):

| Run | Question | Bounds |
|---|---|---|
| `HubHttp` | is an ACK of the HTTP path the answer to that very command; by how many starts of modules is a command executed; does the slot the blocked sender points to stay its module's; do both paths know one address? | 3 modules for 2 slots and 2 endpoint entries, 2 starts each, 2 actions, 3 ids, 3 attempts, no clients |
| `HubClients` | is a FEEDBACK relayed only to one who asked, has a module one slot; does the HTTP path keep the promise of `CommandCall` next to clients? | 2 clients and the HTTP path with equal ids, 2 client commands, repeated, for 2 pending slots, 2 calls of 2 attempts, clock 0..1 with timeout 0 |
| `HubListener` | is every offline flag explained; do flag, picture and the monitor's message become right in spite of drain loop, slow alerts, losses and late datagrams? | timeout of 1 tick, 1 datagram per socket buffer, 1 late, fairness |
| `HubProcess` | webhook messages in order and all before the shutdown returns; one operator of the lock; what do reads of the wrapping ring return; does quitting get through? | ring of 3, 4 events, reads of 2, 2 messages, fairness |
| `DoorSingle` | with one mover: is LOCKED true, the count exact, the rotation on course? | 4 half-steps, pin faults, all sensor outcomes |
| `DoorQuit` | does the module keep the promise of `DoorLock`, is UNLOCKED true without pin faults, is everything quiet after the close, at which end does quitting leave the lock; does a rotation end in an answer, does the hub's picture become right? | 4 half-steps, quit at the terminal, all COMMANDs, a door that opens and closes, fairness |
| `Led` | lost wakeups, second workers, the refinement of `LedTasks`, is the queue served, does a shutdown return? | ring of 4, 3 kinds, fairness |
| `Server` | does every request of a page get one answer, may a failure follow the FEEDBACK, does the pending map leak? | 3 requests of both kinds, fairness |
| `WebPage` | does a page show only what was reported, does it become right, do poll chains end? | chains of 2 polls, 2 datagrams under way each way, fairness |

Why the bounds are enough. Tables of one to three slots fill, evict and wrap; three
modules overfill two slots; two clients suffice for an id conflict and two starts for
a stale address; three attempts are the code's own number. Two calls next to two client
commands meet FEEDBACK of a lower, of their own and of a higher number, and copies of two
COMMANDs overflow a pending table of two. A socket buffer of one is empty, full and
overflowing; with one late datagram next to those in the buffers an EVENT
is overtaken by a heartbeat, and a heartbeat by an EVENT. A ring of three is part full,
full and wrapped by four events, and two asked events are fewer than it holds. Two
messages are one in the worker's hand and one in the list, or a failed copy before
another. A turn of four half-steps has a position that is neither locked nor unlocked,
before and after each end; a turn of two is enough for the quit that hangs. Three requests
have their callbacks, timers and FEEDBACKs in every order. Two answers under way are an
old one and a new one. Nothing depends on larger numbers but the arithmetic, which the
proofs cover for every size. `MaxTime`, `MaxCmdId`, `MaxCommands`, `MaxIncarnations`,
`MaxAsked`, `MaxLate`, `MaxEvents`, `MaxMessages` and `MaxFlight` are bounds of the model
and named as such; all others are constants of the code.

`HubClients` uses the symmetry of modules and of clients, `HubHttp` that of the modules
the HTTP API does not command: they are told apart by nothing but their names, and both
runs check safety properties only. `HubProcess` does not check deadlock, since the
program ends, and `Server` does not, since a server that nobody asks is idle. The HTTP
path of `HubHttp` sends LOCK and UNLOCK; what it makes of STATUS is told below.

Violation runs: each checks one sentence of a comment, header or document, which the
code does not do. `findings` in `PROJECT.json` quotes them.

| Run | The sentence | What happens |
|---|---|---|
| `HubForeignAck` | the API blocks until ACK or timeout | a client's FEEDBACK of the same id is taken for the ACK |
| `DoorTwoLocks` | the returned state is the updated state | two rotations interleave; LOCKED at another position |
| `DoorQuitHangs` | the thread can exit on its recv timeout | there is no timeout |

The model shows further divergences, which no run is spent on:

* `hub_udp.h:65` promises the *most recent* `max_events` events; `get_history` copies from
  the oldest (`hub_udp.c:725`). `ReadsOldest` says what a reader gets: the oldest events
  the ring holds, so that one who asks for fewer than there are misses the newest.
  The hub's terminal does: it asks for 20 of up to 256 (`door_system.c:179`).
* `hub_udp.h:28` says `last_online_ms` is 0 if online; `CheckOffline` leaves it at the
  last outage (`hub_udp.c:332`).
* `hub_udp.h:69` says `hub_udp_send_command` returns true on send success; it returns
  false too for a command that was sent and is executed later (`Retried`).
* A STATUS command of the HTTP path is never acknowledged: the module answers
  `STATUS_<state>` (`door_udp_handler.c:38`) and `hub_udp.c:807` compares with `STATUS`.
* `hub_udp.c:19` says "10 seconds without heartbeat = offline". A module that only said
  HELLO is flagged at once, for its `last_heartbeat_ms` is 0; and one whose heartbeats
  wait in the socket while the listener drains the other one, or waits for Discord, is
  flagged although they came in time. `OfflineExplained` says that these are all cases.
* The text of the alert monitor contains `last_heartbeat_ms` (`door_system.c:26`), so that
  every heartbeat makes a new message and `discord_alert.c:149` never finds two equal;
  and it reports `d0_locked`, which EVENT D1 LOCK does not write.
* A webhook copy that fails ends the worker while `running` stays 1 (`system_webhook.c:27`,
  `:62`): later messages are accepted and freed unsent. `AcceptedAreDelivered` says that
  nothing else loses one.
* The hub's program queues LED patterns (`door_system.c:159`) and never starts the worker
  that plays them.
* An HTTP request for the module id the hub was started with (`D1` unless given) operates
  the lock of the hub's own machine (`http_api.c:210`).
* `get-door-info` calls its callback a second time when its send fails after its timeout
  (`door_server.js:298`); `OneVerdict` says that this is the only case, and that both
  calls report failure.
* A page that asked by `send-command`, as `web_control.js` does, gets the `command-feedback`
  twice: it is addressed to it (`door_server.js:69`) and broadcast (`:134`). It may also be
  told "No FEEDBACK from hub" first and hear the FEEDBACK later, or hear one that overtook
  the callback of the send and be told a failure after it. `OneVerdict` says what the
  server does ensure: one addressed answer, and no failure once a FEEDBACK that came after
  the callback was broadcast.
* An entry of the pending table outlives its client, so a restarted Node server, which
  counts from 1 again, may be relayed the answer to its predecessor's command.
* After a rotation that failed half-way `unlockDoor` says "Door is already unlocked"
  (`doorMod.c:278`): `ReportedUnlockedIsWithdrawn` holds only without pin faults.
* `doorMod.c:43` does not send on a sensor error; the heartbeat sends CLOSED (`:98`).
* `door_udp.c:345` notifies on state change only; two threads may notify one change
  twice (`Update` and `SavePrevious` are two steps).
* `door_udp_handler.c:19` takes FEEDBACK LOCK for "completed"; it is sent for a refused
  or failed lock too (`Finish`). The page waits for the state, which then never comes,
  and polls until its counter is exhausted (`PollingEnds`).
* The documents in `gui/` say that the page polls every two seconds and gets unsolicited
  `hub-event`s; it polls every three (`web_control.js:350`), and the hub relays nothing
  but FEEDBACK.
* A page shows an open door with the lock state from before (`web_control.js:34`), and an
  answer that was overtaken until the next one (`PageConverges`).
* A page that was loaded while the door is open says "unknown" and "Loading..." for as long
  as it stays open: the answer `STATUS_OPEN` leaves `lockLocked` null and the text needs
  both (`web_control.js:247`). `Right` makes this exception and no other.
* Until the first answer the button of a page is enabled, and sends LOCK whatever the
  state of the lock is (`web_control.js:308`).
* `doorMod.c:334` says "Unlock door on cleanup"; it rotates to 180 degrees, the locked
  position (`Goal`). `QuitNeverUnlocks` states what a quit does: a lock that is unlocked
  stays so, and any other ends locked. Its mutant is the code that the comment describes.

### Fairness

Runs without liveness use `Spec`, without fairness.

* `DoorModule!FairSpec` is weakly fair to each thread as a whole (`CliStep`, `CmdStep`,
  `HbStep`): the kernel schedules threads that can run, and there are no locks they could
  lose a race for. It is weakly fair to `Period`, since time passes. `Begin`, `CmdIgnore`,
  `Quit` and `Sense` are not fair: users, datagrams and doors may stay away, which is what
  `DoorQuitHangs` turns on.
* `HubListener!FairSpec` is weakly fair to the listener and to the monitor's poll; a
  heartbeat is due again and again and not every one is lost (`HeartbeatInTime`). Time
  passes: `Tick` is strongly fair, since it is disabled during the check and a listener
  that goes from check to check waits a second in `select` each time. Discord owes nothing:
  `OfflineBecomesRight`, `PictureConverges` and `MonitorCatchesUp` assume in their
  statement that no request lasts for ever (`DiscordResponds`), since without that the
  hub stands still.
* `HubProcess!ProcessFairSpec` is weakly fair to every thread that can run; users, HTTP
  clients, datagrams and Discord owe nothing. `QuitReturns` therefore assumes that the
  listener is not kept draining, that no HTTP client stays silent, and that no request to
  Discord lasts for ever: each of the three alone blocks the shutdown.
* `LedQueue!FairSpec` is weakly fair to the worker and to the joining caller; requests,
  starts and shutdowns are not fair, and neither is the spurious wakeup, so `QueueServed`
  owes nothing to it.
* `DoorServer!FairSpec` is weakly fair to what Node itself does: a send ends, its callback
  runs, a timer fires; pages and the hub may stay silent.
* `WebPage!FairSpec` is weakly fair to the timers, and strongly fair to the module's
  answer and its arrival: of the STATUS commands sent every three seconds, and of the
  answers, not every one is lost. The weak fairness of `PeriodicPoll` is of a poll that
  is not lost.

`ReportsConverge` assumes that the door ends up standing still with no operation under
way; `ShutdownReturns` that requests cease, without which a shutdown may drain for
ever.

## 4. The proofs

TLAPS checks the theorems for every value of the constants that satisfies the named
assumptions (`HubAssumption`, `ListenerAssumption`, `HistoryAssumption`, `HookAssumption`,
`ProcessAssumption`, `StepsAssumption`, `DoorAssumption`, `LedAssumption`,
`ServerAssumption`, `PageAssumption`): any number of modules, clients, slots, retries,
half-steps, requests, polls and any size of rings and buffers.

* `HubUdp_proofs`
  * `TypeCorrect`: `TypeOK`, which says in particular that a busy HTTP thread has a
    slot, a module, an address and no result yet; otherwise it would not be inductive.
  * `SlotsSafe`, `SenderSafe`: `OneSlotPerModule` and `SenderSlotKept`. The invariant is
    `SlotInv`: slots are only ever filled when they are free and their module has none
    (`Finds`), so ids never move.
  * `RelaySafe`: `RelayedToAsker`. The invariant `RelayInv` adds `PendingReal`: an
    occupied pending slot is a COMMAND that was sent.
  * `AckSafe`: `Clients = {} => []AckIsTrue`. The invariant `AckInv` adds that the last
    FEEDBACK in a slot is one the module sent (`FeedbackReal`), that ids of the HTTP
    path are below its counter (`IdsIssued`) and that the thread waits for the last one
    (`SenderCurrent`): an id that is *at least* the expected one is then *equal* to it.
    The hypothesis is necessary: `HubForeignAck` refutes the rest.
  * `OneStartExecutes`: `ExecutedByOneStart`, with any clients. The invariant `CopiesAgree`
    says that all copies of one command of the HTTP path go to one module and address,
    those of the command under way to the ones the thread looked up, and that a FEEDBACK
    comes from where a copy went.
    Twice by that *same* start a command can be executed; the code does not exclude it.
  * `ImplementsCall`: `Spec => Call!Spec`, with any clients. `HttpBegin` maps to `Ask`;
    an attempt that came to nothing maps to `Retry` or, being the last, to `GiveUp`
    (`RetriedEffect`); `HttpWake` maps to `Acknowledge` when the slot shows an answer,
    which is the module's own (`FeedbackReal`, `SenderSlotKept`), and all others stutter or
    only add answers. That there are no more attempts than allowed is in `SenderCurrent`.
  * `RoutesSafe`: `RoutesAgree` under `RoomForAll`. `RouteInv` adds that a module has one
    endpoint entry (`OneEndpointPerModule`, else a refresh would reach another entry than
    the forward) and, without clients, that slots and entries are made together
    (`SlotsRouted`); `HasRoom` then counts entries against modules or slots. `RoomForAll`
    asks for an entry for every module, or for every slot where no client sends COMMANDs;
    the tables of the code, 8 slots and 16 entries, satisfy the second and, with up to 16
    modules, the first. Without it the property fails, as TLC shows: a client's COMMAND
    opens a slot for a module, others fill the endpoint table, and when the module says
    HELLO its address is known but COMMANDs are never forwarded.
* `HubListener_proofs`
  * `TypeCorrect`, and `FlaggedWithCause` (`OfflineExplained`). The invariant
    `ListenerInv` adds `ReadAfterArrival`: while the heartbeat socket is empty, the time
    since a heartbeat was handled is at most the time since one arrived. Flagging needs a
    long silence, which is then a long time without an arrival, or the socket is not empty.
* `HistoryRing_proofs`
  * `RingTypeCorrect`, and `ReadsFromTheOldest` (`ReadsOldest`). The invariant
    `RingInv` adds `RingHoldsLog`: from the oldest slot on the ring holds exactly the
    history variable `log`. Its proof has four cases: the ring is or is not full before
    the write, and the write position does or does not wrap.
* `HubProcess_proofs`
  * `QueueDelivers`: the webhook queue by itself satisfies `AcceptedAreDelivered`. The
    invariant `HookInv` adds `InOrder`: what was accepted is what was sent, what the worker
    holds and what is queued, one after the other; an ended worker ended with everything
    sent and nothing accepted since, or at a failed copy.
  * `ProcessKeepsHistory`, `ProcessKeepsQueue`: `ProcessSpec => Spec` and
    `ProcessSpec => HookSpec`. Every step of the process is a step of the ring or leaves
    it alone, and likewise for the queue, so both parts keep their promises in the
    composition: `ProcessReads` and `ProcessDelivers` follow from the theorems of the parts.
  * `OneOperates` (`OneOperator`), with `ServerGone`: a server that runs was started and is
    serving, until `http_api_stop` has joined it; and `ProcessTypeCorrect`.
* `DoorModule_proofs`
  * `TypeCorrect`, for every even number of half-steps to a turn.
  * `LockedIsTrue`, `CountIsExact`, `StaysOnCourse`, `OnlyForward`: under `SingleMover`
    (the terminal only asks for the status, or quits), LOCKED is answered only at the
    locked position, the position counts the driven steps, rotations stay on course and
    the lock only goes forward, the cleanup's rotation included. The invariant is
    `MoverInv`: the terminal drives for its cleanup at most (`OnlyCleanup`), by when the
    command thread has ended (`QuietInv`); the loaded position is still the current one
    (`CountInv`), position and remaining steps add up to the goal (`OnCourse`), and an
    outcome once taken is not undone before it is returned (`OutcomeInv`). Its arithmetic
    rests on lemmas about `TargetStep`, `StepsNeeded`, `NextStep` and `Degrees`, among them
    that the step of 180 degrees reads back as 180 degrees. `DoorTwoLocks` shows that
    `SingleMover` is necessary.
  * `QuitIsQuiet` (`QuietAfterClose`), for any operations of terminal and hub. The
    invariant `QuietInv` follows the quitting terminal from one join to the next.
  * `QuitSettles` (`QuitNeverUnlocks`), for any operations of terminal and hub, without pin
    faults. Wherever interleaved rotations left the lock, the cleanup starts when it is
    alone (`QuietInv`); from then on it counts exactly to 180 degrees (`LocksFrom`), or has
    found the lock at 0 and leaves it there (`LeavesUnlocked`). The run has one
    mover; that the property also holds with a terminal that locks while COMMANDs unlock,
    where steps are lost before the quit, is what the theorem adds. With pin faults it is
    false: the cleanup's own rotation may fail.
  * `UnlockedIsTrue` (`ReportedUnlockedIsWithdrawn`), under `SingleMover` and without pin
    faults. `RestInv` says where the lock can be: at one of its ends when nobody drives, so
    that an UNLOCK that found it elsewhere than at 0 degrees finds it at 180, and never
    gets to the sensor. With pin faults it is false (see section 3).
  * `ImplementsLock`: `Spec => Lock!Spec` under the same two hypotheses. `Begin` maps to
    `Take`, `Rotate` to `Turn`, `Arrive` to `Arrive`, the decisions to `Refuse` and `Look`,
    `Finish` to `Answer`, and everything else, the cleanup of quit included, to stutters:
    by `RestInv` there is nothing left for it to turn.
* `LedQueue_proofs`
  * `TypeCorrect`, `WorkerSafe` (no lost wakeup), `AtMostOneWorker`.
  * `Implements`: `Spec => Tasks!Spec`. The initial states map to the initial state;
    `Enqueue` maps to `Enqueue`, also when it discards the oldest, `Take` to `Take`,
    `Played` to `Done` and the rest to stutters. The lemmas say how the contents of the
    ring change when an index advances, whether or not it wraps.
* `DoorServer_proofs`
  * `TypeCorrect`, `EntriesExpire` (`EntriesTimed`: the map and the timers go together)
    and `VerdictOnce` (`OneVerdict`). The invariant is `VerdictInv`: `VerdictSoFar` says
    for every stage of the send whether the request may be open, how often its page has
    been addressed, and that a FEEDBACK broadcast after the callback has closed it;
    `IdsTaken` that an id not given out yet is in no table.
* `WebPage_proofs`
  * `TypeCorrect`, and `ShowsReported` (`ShownWasReported`). The invariant `PageInv` adds
    `AnswersTrue`: an answer under way names a state the door has been in.

Each inductive invariant was also checked by TLC on small instances before it was
proved.

The type invariants of `LedQueue` and `DoorServer` are proved and not run: they are part
of invariants that the theorems of these modules rest on.

Only model-checked is what the prover does not do, fairness and ENABLED: the liveness
properties of the runs. Where two threads move the lock at once, the types and the end
of quit are proved; LOCKED and the count of steps are then not to be relied on
(`DoorTwoLocks`).

## 5. What is not modelled

* Formats of the lines, parsing and printing: a datagram is a record. A COMMAND always
  has all its fields, as the Node server and the hub send it.
* `d1_open` and the lock flags of a status slot: they are written from the same
  datagrams in the same way as `d0_open` in `HubListener` (`d0_locked` and `d1_open` by
  heartbeats only).
* The HTTP API's parsing of requests, its texts and its status queries, which read one
  slot under the mutex and change nothing.
* Failures of `select`, `recvfrom` and `accept` that are retried; the start of the hub's
  program up to the webhook, of which a failure ends it before a thread exists.
* `stopDoorAlertMonitor`, `StepperMotor_ResetPosition` and the one-port start of a door
  module (`notif_port = hb_port`, no command thread): nothing in the repository reaches
  them (`door_udp_init2` delegates to it for equal ports only).
* LED patterns, PWM, GPIO, the sensor's timing, the HTTPS request itself: pin, file and
  network I/O, whose outcomes enter as `PinFaults`, `Readings` and requests of any length.
* The conversion the Node server makes of statuses of older modules, its `raw-send`
  request, and the page's `hub-event` handler: no module or page of this repository
  sends them.
* `gui/node_modules` and `gui/as3-server` are third-party code and a leftover example.

## 6. Plan

Done: every part of the system with state of its own, the composition of the hub's
process, and theorems about each module. What would come next, in this order:

1. `CommandPath`: page, Node server, hub and a door module that takes time composed,
   against an abstract "a command is executed at most so often and reported truly".
2. Abstract specifications of the Node server (a request gets one verdict) and of the
   page, as `CommandCall` and `DoorLock` are for the hub and the lock, with proofs.
