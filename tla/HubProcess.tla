----------------------------- MODULE HubProcess -----------------------------
(***************************************************************************)
(* The hub's process: the main program (app/src/door_system.c) with its      *)
(* start-up, its terminal and the order of its shutdown, composed with the   *)
(* threads it starts and joins: the listener (udp_thread of                  *)
(* hal/src/hub_udp.c), the HTTP server (app/src/http_api.c), which serves    *)
(* one client at a time, and the webhook worker (WebhookQueue).  The         *)
(* listener writes the event history, the terminal reads it (HistoryRing).   *)
(*                                                                          *)
(* After the hub's terminal comes a second one that moves the lock of this   *)
(* machine.  The HTTP server moves it too, when a request names the module   *)
(* the hub was started for, and without asking anybody.                      *)
(***************************************************************************)
EXTENDS HistoryRing, WebhookQueue

CONSTANTS
  Asked,       \* max_events of the terminal: 20
  MaxEvents,   \* bound: events the listener records
  MaxMessages  \* bound: messages the terminal sends to the webhook

ASSUME ProcessAssumption ==
  /\ Asked \in 0 .. MaxAsked /\ MaxEvents \in Nat /\ MaxMessages \in Nat
  /\ {"retrieved", "empty", "status"} \subseteq Messages

VARIABLES
  main,      \* where the main thread is
  numbered,  \* control_number of the second terminal has a value
  listener,  \* "off", "select", "drain" (a socket), "check" (who is silent),
             \* "ended"
  stopping,  \* g_stopping
  server,    \* the HTTP thread: "off", "accept", "recv" (a client's request),
             \* "operate" (the local lock), "command" (a module), "ended"
  serving,   \* server_running, and the listening socket is open
  events     \* number of events recorded so far

ring == vars
threads == <<main, numbered, listener, stopping, server, serving, events>>
processVars == <<ring, hookVars, threads>>

ProcessInit ==
  /\ Init /\ HookInit
  /\ main = "webhook" /\ numbered = FALSE
  /\ listener = "off" /\ stopping = FALSE
  /\ server = "off" /\ serving = FALSE
  /\ events = 0

\* When main returns, the process and its threads are gone.
Up == main # "exit"

-----------------------------------------------------------------------------
(* The main thread                                                         *)

Goes(from, to) == main = from /\ main' = to

\* Without a URL, and when the start fails, the hub runs without webhook.
StartWebhook ==
  /\ Goes("webhook", "http")
  /\ HookStart \/ UNCHANGED hookVars
  /\ UNCHANGED <<ring, numbered, listener, stopping, server, serving, events>>

\* A server that cannot be started is only warned about.
StartHttp ==
  /\ Goes("http", "udp")
  /\ \/ server' = "accept" /\ serving' = TRUE
     \/ UNCHANGED <<server, serving>>
  /\ UNCHANGED <<ring, hookVars, numbered, listener, stopping, events>>

\* A listener that cannot be started ends the program.
StartUdp ==
  /\ \/ Goes("udp", "cli") /\ listener' = "select"
     \/ Goes("udp", "exit") /\ UNCHANGED listener
  /\ UNCHANGED <<ring, hookVars, numbered, stopping, server, serving, events>>

\* 's': whatever hub_udp_get_status says is reported to the webhook.
CliStatus ==
  /\ main = "cli" /\ Len(accepted) < MaxMessages
  /\ HookSend("status")
  /\ UNCHANGED <<ring, threads>>

\* 'h'
CliHistory ==
  /\ main = "cli" /\ Len(accepted) < MaxMessages
  /\ get_history(Asked)
  /\ HookSend(IF Len(got') > 0 THEN "retrieved" ELSE "empty")
  /\ UNCHANGED threads

\* 'q' or the end of the input; hub_udp_shutdown asks the listener to stop,
CliQuit ==
  /\ Goes("cli", "joinUdp")
  /\ stopping' = TRUE
  /\ UNCHANGED <<ring, hookVars, numbered, listener, server, serving, events>>

\* and joins it.
JoinUdp ==
  /\ Goes("joinUdp", "stopHook") /\ listener = "ended"
  /\ UNCHANGED <<ring, hookVars, numbered, listener, stopping, server, serving,
                 events>>

\* hub_webhook_shutdown, if the webhook runs
StopHook ==
  /\ \/ worker # "none" /\ Goes("stopHook", "joinHook") /\ HookStop
     \/ worker = "none" /\ Goes("stopHook", "stopHttp") /\ UNCHANGED hookVars
  /\ UNCHANGED <<ring, numbered, listener, stopping, server, serving, events>>

JoinHook ==
  /\ Goes("joinHook", "stopHttp") /\ HookJoin
  /\ UNCHANGED <<ring, numbered, listener, stopping, server, serving, events>>

\* Mutant: the HTTP thread is not joined.
StopHttpOnly ==
  /\ Goes("stopHttp", "number")
  /\ serving' = FALSE
  /\ UNCHANGED <<ring, hookVars, numbered, listener, stopping, server, events>>

\* http_api_stop: nothing to do without a server; else the listening socket is
\* closed, which ends an accept,
StopHttp ==
  /\ Goes("stopHttp", IF serving THEN "joinHttp" ELSE "number")
  /\ serving' = FALSE
  /\ UNCHANGED <<ring, hookVars, numbered, listener, stopping, server, events>>

\* and the thread is joined.
JoinHttp ==
  /\ Goes("joinHttp", "number") /\ server = "ended"
  /\ UNCHANGED <<ring, hookVars, numbered, listener, stopping, server, serving,
                 events>>

\* The second terminal: lock, unlock or status,
EnterOperation ==
  /\ Goes("number", "operate")
  /\ numbered' = TRUE
  /\ UNCHANGED <<ring, hookVars, listener, stopping, server, serving, events>>

OperationDone ==
  /\ Goes("operate", "number")
  /\ UNCHANGED <<ring, hookVars, numbered, listener, stopping, server, serving,
                 events>>

\* another number, or no number: the loop then tests control_number, and the
\* first time round it has no value yet.
EnterInvalid ==
  /\ \/ main = "number" /\ numbered' = TRUE /\ UNCHANGED main
     \/ Goes("number", "exit") /\ ~ numbered /\ UNCHANGED numbered
  /\ UNCHANGED <<ring, hookVars, listener, stopping, server, serving, events>>

\* 4, or the end of the input
EnterExit ==
  /\ Goes("number", "exit")
  /\ UNCHANGED <<ring, hookVars, numbered, listener, stopping, server, serving,
                 events>>

-----------------------------------------------------------------------------
(* The listener thread                                                     *)

\* The loop tests g_stopping before it waits in select(), which fails, finds a
\* socket to read, or ends after a second without traffic.
ListenerSelect ==
  /\ listener = "select" /\ Up
  /\ listener' \in IF stopping THEN {"ended"} ELSE {"select", "drain", "check"}
  /\ UNCHANGED <<ring, hookVars, main, numbered, stopping, server, serving, events>>

\* handle_line adds one event per datagram, two for a FEEDBACK and none for a
\* line of less than two words; check_offline_modules adds one for every module
\* that went offline or came back.  Each event is a step here, although those
\* of one datagram, or of one check, are added under one hold of g_mutex.
ListenerRecord(e) ==
  /\ listener \in {"drain", "check"} /\ Up
  /\ events < MaxEvents /\ events' = events + 1
  /\ add_history(e)
  /\ UNCHANGED <<hookVars, main, numbered, listener, stopping, server, serving>>

\* The drain loop ends when the socket is empty; it does not test g_stopping.
ListenerDrained ==
  /\ listener = "drain" /\ Up
  /\ listener' = "check"
  /\ UNCHANGED <<ring, hookVars, main, numbered, stopping, server, serving, events>>

\* The end of check_offline_modules.
ListenerChecked ==
  /\ listener = "check" /\ Up
  /\ listener' = "select"
  /\ UNCHANGED <<ring, hookVars, main, numbered, stopping, server, serving, events>>

-----------------------------------------------------------------------------
(* The HTTP thread                                                         *)

ClientConnects ==
  /\ server = "accept" /\ serving /\ Up
  /\ server' = "recv"
  /\ UNCHANGED <<ring, hookVars, main, numbered, listener, stopping, serving, events>>

\* accept() fails when its socket has been closed.
AcceptFails ==
  /\ server = "accept" /\ ~ serving /\ Up
  /\ server' = "ended"
  /\ UNCHANGED <<ring, hookVars, main, numbered, listener, stopping, serving, events>>

\* Between two clients the loop tests server_running.
NextClient == IF serving THEN "accept" ELSE "ended"

\* recv returns: a request for the local module is carried out by this thread,
\* one for another goes to hub_udp_send_command; the rest (statuses of the hub,
\* errors, a client that closed) is answered at once.
ServerReceive ==
  /\ server = "recv" /\ Up
  /\ server' \in {"operate", "command", NextClient}
  /\ UNCHANGED <<ring, hookVars, main, numbered, listener, stopping, serving, events>>

ServerAnswer ==
  /\ server \in {"operate", "command"} /\ Up
  /\ server' = NextClient
  /\ UNCHANGED <<ring, hookVars, main, numbered, listener, stopping, serving, events>>

HookWorks == Up /\ HookWork /\ UNCHANGED <<ring, threads>>

-----------------------------------------------------------------------------
\* The steps of the main thread that wait for nobody's input.
MainGoesOn ==
  StartWebhook \/ StartHttp \/ StartUdp \/ JoinUdp \/ StopHook \/ JoinHook
  \/ StopHttp \/ JoinHttp \/ OperationDone

Terminal ==
  CliStatus \/ CliHistory \/ CliQuit \/ EnterOperation \/ EnterInvalid
  \/ EnterExit

ProcessNext ==
  \/ MainGoesOn \/ Terminal
  \/ ListenerSelect \/ (\E e \in HubEvents : ListenerRecord(e))
  \/ ListenerDrained \/ ListenerChecked
  \/ ClientConnects \/ AcceptFails \/ ServerReceive \/ ServerAnswer
  \/ HookWorks

ProcessSpec == ProcessInit /\ [][ProcessNext]_processVars

\* The kernel runs every thread that can run: a rotation and a command to a
\* module end by themselves.  Nothing is owed by those who type or connect, by
\* those who send datagrams, or by Discord.
ProcessFairSpec ==
  /\ ProcessSpec
  /\ WF_processVars(MainGoesOn)
  /\ WF_processVars(ListenerSelect) /\ WF_processVars(ListenerChecked)
  /\ WF_processVars(ServerAnswer)
  /\ WF_processVars(AcceptFails)
  /\ WF_processVars(HookWorks /\ HookDequeue)

-----------------------------------------------------------------------------
(* Properties                                                              *)

\* Every variable has its type, and the ring's (TypeOK) and the queue's
\* (HookTypeOK) positions are in their ranges.
ProcessTypeOK ==
  /\ TypeOK /\ HookTypeOK
  /\ main \in {"webhook", "http", "udp", "cli", "joinUdp", "stopHook", "joinHook",
               "stopHttp", "joinHttp", "number", "operate", "exit"}
  /\ numbered \in BOOLEAN /\ stopping \in BOOLEAN /\ serving \in BOOLEAN
  /\ listener \in {"off", "select", "drain", "check", "ended"}
  /\ server \in {"off", "accept", "recv", "operate", "command", "ended"}
  /\ events \in 0 .. MaxEvents

\* The second terminal and the HTTP server never operate the lock at the same
\* time, although no lock is taken: the server is gone before the terminal
\* takes its first number.
OneOperator == ~ (main = "operate" /\ server = "operate")

\* Quitting gets to the second terminal, provided that no datagram keeps the
\* listener in its drain loop for ever, no HTTP client stays connected without a
\* request, and no request to Discord lasts for ever.
QuitReturns ==
  (/\ []<>(listener # "drain")
   /\ []<>(server # "recv")
   /\ []<>(worker # "posting")) =>
     (main = "joinUdp" ~> main = "number")

-----------------------------------------------------------------------------
(* The inductive invariant of HubProcess_proofs                            *)

\* A server runs while it serves; when the second terminal has the floor there
\* is none.
ServerGone ==
  /\ main \in {"webhook", "http"} => server = "off" /\ ~ serving
  /\ main \in {"udp", "cli", "joinUdp", "stopHook", "joinHook", "stopHttp"} =>
       server = "off" \/ serving
  /\ main \in {"number", "operate"} => server \in {"off", "ended"}
=============================================================================
