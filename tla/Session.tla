------------------------------- MODULE Session ------------------------------
(***************************************************************************)
(* The program (src/main.cpp): the main thread connects, waits for the     *)
(* signal, stops the client, prints the statistics and destroys the        *)
(* client, while the event loop and the heartbeat run on their threads.    *)
(***************************************************************************)
EXTENDS DeribitClient

CONSTANT Files \* the configuration files the program may find

ASSUME FilesAssumption == Files \subseteq File

VARIABLES file,      \* external: the file at config_path
          main,      \* where the main thread is
          g_running, \* cleared by the signal handler
          was_up     \* history: connect() returned true

settings == <<file, config>>
vars == <<settings, wsVars, clientVars, main, g_running, was_up>>

(* main is a step and the caller of stop(), main() or the destructor:      *)
(* connect and waiting are in DeribitClient::connect(), loop in main(),    *)
(* clear, check, join_heartbeat, ask, halt and join_loop in stop(), and    *)
(* destroy stands for the destructors of the members.                      *)
At(step)   == main[1] = step
GoTo(step) == main' = <<step, main[2]>>

(* load_config() and the construction of the client precede every thread.  *)
Init ==
    /\ file \in Files
    /\ config = Load(file)
    /\ ClientInit
    /\ main = <<"connect", "main">>
    /\ g_running = TRUE
    /\ was_up = FALSE

(* SIGINT or SIGTERM.                                                      *)
Signal ==
    /\ g_running
    /\ g_running' = FALSE
    /\ UNCHANGED <<wsVars, clientVars, main, was_up>>

(* DeribitClient::connect().  A failure leaves main() through the client's *)
(* destructor without an explicit stop().                                  *)
StartConnecting ==
    /\ At("connect")
    /\ Connect
    /\ IF state' = "CONNECTING"
       THEN RunAsync /\ GoTo("waiting")
       ELSE UNCHANGED io /\ main' = <<"clear", "dtor">>
    /\ UNCHANGED <<should_stop, reconnect_attempts, halted, clientVars, g_running, was_up>>

Connected ==
    /\ At("waiting")
    /\ IsConnected
    /\ GoTo("loop")
    /\ was_up' = TRUE
    /\ UNCHANGED <<wsVars, clientVars, g_running>>

(* 100 polls of 100 ms without a connection.                               *)
ConnectTimesOut ==
    /\ At("waiting")
    /\ ~IsConnected
    /\ main' = <<"clear", "dtor">>
    /\ UNCHANGED <<wsVars, clientVars, g_running, was_up>>

LeaveLoop ==
    /\ At("loop")
    /\ ~g_running
    /\ GoTo("clear")
    /\ UNCHANGED <<wsVars, clientVars, g_running, was_up>>

(* stop().                                                                 *)
Stop ==
    /\ \/ At("clear") /\ StopHeartbeat /\ GoTo("check")
       \/ /\ At("check")
          /\ GoTo(IF Joinable THEN "join_heartbeat" ELSE "ask")
          /\ UNCHANGED <<wsVars, clientVars>>
       \/ At("join_heartbeat") /\ JoinHeartbeat /\ GoTo("ask")
       \/ At("ask") /\ AskToStop /\ UNCHANGED clientVars /\ GoTo("halt")
       \/ At("halt") /\ HaltLoop /\ UNCHANGED clientVars /\ GoTo("join_loop")
       \/ /\ At("join_loop") /\ JoinLoop /\ UNCHANGED clientVars
          /\ GoTo(IF main[2] = "main" THEN "print" ELSE "destroy")
    /\ UNCHANGED <<g_running, was_up>>

(* Mutant: the destructor leaves stopping to the explicit call.            *)
PrintStatsThenDestroy ==
    /\ At("print")
    /\ main' = <<"destroy", "dtor">>
    /\ UNCHANGED <<wsVars, clientVars, g_running, was_up>>

(* print_stats(), then the end of main(): ~DeribitClient() calls stop().   *)
PrintStats ==
    /\ At("print")
    /\ main' = <<"clear", "dtor">>
    /\ UNCHANGED <<wsVars, clientVars, g_running, was_up>>

Destroy ==
    /\ At("destroy")
    /\ DestroyHeartbeat
    /\ GoTo("exited")
    /\ UNCHANGED <<g_running, was_up>>

-----------------------------------------------------------------------------
MainThread == StartConnecting \/ Connected \/ ConnectTimesOut \/ LeaveLoop \/ Stop
              \/ PrintStats \/ Destroy

Loop == \/ HandleReconnect(MaxReconnectAttempts) /\ UNCHANGED clientVars
        \/ WakeUp /\ UNCHANGED clientVars
        \/ Retry /\ UNCHANGED clientVars
        \/ LoopReturns /\ UNCHANGED clientVars
        \/ ForgetSession
        \/ StartHeartbeat
        \/ EndMarketData

Heartbeat == HeartbeatChecks \/ HeartbeatWakes \/ HeartbeatSends

Network == Opened \/ Closed \/ Failed \/ BeginMarketData
           \/ (LoopThrows /\ UNCHANGED clientVars)
           \/ \E ok \in BOOLEAN : AuthReply(ok) \/ SubscriptionReply(ok)

Running == aborted = "no" /\ main[1] # "exited"

(* What the threads other than main leave alone.                           *)
ElsewhereUnchanged == UNCHANGED <<settings, main, g_running, was_up>>

MainStep      == Running /\ MainThread /\ UNCHANGED settings
LoopStep      == Running /\ Loop /\ ElsewhereUnchanged
HeartbeatStep == Running /\ Heartbeat /\ ElsewhereUnchanged
NetworkStep   == Running /\ Network /\ ElsewhereUnchanged
SignalStep    == Running /\ Signal /\ UNCHANGED settings

Next == MainStep \/ LoopStep \/ HeartbeatStep \/ NetworkStep \/ SignalStep

(* Each of the three threads keeps running; nothing is assumed of the      *)
(* network or of signals.                                                  *)
Spec == /\ Init /\ [][Next]_vars
        /\ WF_vars(MainStep) /\ WF_vars(LoopStep) /\ WF_vars(HeartbeatStep)

-----------------------------------------------------------------------------
(* Every variable keeps the values of its C++ member, and no more answers  *)
(* are due than requests were sent on one connection.                      *)
TypeOK ==
    /\ file \in Files /\ config = Load(file)
    /\ state \in ConnectionState
    /\ reconnect_attempts \in Nat
    /\ io \in IoThread /\ link \in {"none", "pending", "up"}
    /\ heartbeat \in HeartbeatThread
    /\ should_stop \in BOOLEAN /\ halted \in BOOLEAN
    /\ authenticated \in BOOLEAN /\ subscribed \in BOOLEAN
    /\ heartbeat_running \in BOOLEAN /\ g_running \in BOOLEAN /\ was_up \in BOOLEAN
    /\ replies \in [auth : 0 .. 1, sub : 0 .. config.instruments]
    /\ aborted \in {"no", "replaced", "destroyed"}
    /\ main \in {"connect", "waiting", "loop", "clear", "check", "join_heartbeat",
                 "ask", "halt", "join_loop", "print", "destroy", "exited"}
                \X {"main", "dtor"}

(* The statistics are read when nothing can write them any more: the       *)
(* tracker has no lock, and print_stats() relies on stop() having joined   *)
(* the thread that runs on_message().                                      *)
StatsReadAlone == At("print") => io \in {"none", "joined"}

(* No heartbeat goes out on a connection that is not authenticated.  The   *)
(* thread decides by authenticated_ and send() by state_, one after the    *)
(* other, and the connection may be lost in between; but the loss is       *)
(* stored before the session is forgotten, and no other connection ever    *)
(* makes the state CONNECTED again.                                        *)
HeartbeatOnlyInSession ==
    heartbeat = "sending" /\ state = "CONNECTED" => authenticated

(* setup_heartbeat() never assigns over a heartbeat thread that is still   *)
(* joinable, which would terminate the program: the thread is started at   *)
(* most once, because no second connection is ever made.                   *)
HeartbeatStartedOnce == aborted # "replaced"

(* Leaving main() after a connection never terminates the program with a   *)
(* heartbeat thread still joinable: a thread started while the first       *)
(* stop() was past its check is caught by the one in the destructor.       *)
CleanExitAfterConnection == was_up => aborted # "destroyed"

(* A signal that finds the heartbeat already running ends the program.     *)
SignalStopsSession ==
    (At("loop") /\ ~g_running /\ heartbeat # "none") ~> At("exited")

(* main.cpp:39: "Press Ctrl + C to exit": a signal during the session ends *)
(* the program.                                                            *)
CtrlCExits == (At("loop") /\ ~g_running) ~> At("exited")

(* The limit the user gave, or, without one, the 5 of config_loader.hpp:22. *)
AttemptsAllowed ==
    IF file.sections >= 2 /\ file.connection # Missing
    THEN Given(file.connection.max_reconnect_attempts, 5)
    ELSE 5

(* What websocket_client.cpp:238 and the key max_reconnect_attempts say:   *)
(* the client stops reconnecting at the configured number of attempts.     *)
AttemptsAsConfigured == reconnect_attempts <= AttemptsAllowed

(* However many attempts the configuration allows, the client makes at     *)
(* most one: the state that handle_reconnect() announces is one that       *)
(* connect() refuses, so no second connection is there to be lost.  And it *)
(* makes none if the limit, converted to an int, is not positive.          *)
AtMostOneAttempt ==
    /\ reconnect_attempts <= 1
    /\ reconnect_attempts = 1 => 0 < MaxReconnectAttempts

(* websocket_client.cpp:244 announces a reconnection attempt: unless the   *)
(* program is being stopped, it leads to a new state of the connection.    *)
ReconnectAttempted ==
    (At("loop") /\ state = "RECONNECTED") ~> (state # "RECONNECTED" \/ ~g_running)
=============================================================================
