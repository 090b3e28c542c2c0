--------------------------- MODULE WebSocketClient --------------------------
(***************************************************************************)
(* The connection (src/utils/websocket_client.cpp): the state the handlers *)
(* store, the reconnection logic, and the background thread that runs the  *)
(* websocketpp event loop, on which every handler executes.                *)
(*                                                                         *)
(* websocketpp and the network are external: `link` is what they have for  *)
(* the client, `halted` the stop flag of the event loop.  An event happens *)
(* only when the loop is idle, and not once the loop has been halted; the  *)
(* loop returns when it is halted or has nothing left to wait for.         *)
(*                                                                         *)
(* The actions leave the variables of the other modules open; DeribitClient*)
(* adds the effect of the callbacks it installs.  disconnect() has no      *)
(* caller and is left out.                                                 *)
(***************************************************************************)
EXTENDS Integers

VARIABLES state,              \* state_
          should_stop,        \* should_stop_
          reconnect_attempts, \* reconnect_attempts_
          io,                 \* where the background thread is
          link,               \* external: the pending or open connection
          halted              \* external: the event loop was told to stop

wsVars == <<state, should_stop, reconnect_attempts, io, link, halted>>

ConnectionState == {"DISCONNECTED", "CONNECTING", "CONNECTED", "RECONNECTED", "FAILED"}

(* The thread is not started, idle in the loop, in a handler (closing: the *)
(* loss is stored, on_close_ comes next; lost: handle_reconnect() does;    *)
(* sleeping and retrying: in there; the others belong to the callbacks),   *)
(* or it has ended and may be joined.                                      *)
IoThread == {"none", "idle", "closing", "lost", "sleeping", "retrying", "authed", "in_message",
             "ended", "joined"}

WsInit ==
    /\ state = "DISCONNECTED"
    /\ should_stop = FALSE
    /\ reconnect_attempts = 0
    /\ io = "none"
    /\ link = "none"
    /\ halted = FALSE

IsConnected == state = "CONNECTED"

(* Mutant: a reconnecting client may connect.                              *)
MayConnectAgain(st) == st \in {"DISCONNECTED", "RECONNECTED"}

MayConnect(st) == st = "DISCONNECTED"

(* connect(): refused unless DISCONNECTED; get_connection() or connect()   *)
(* may fail; otherwise the attempt is left to the event loop.              *)
Connect ==
    \/ /\ ~MayConnect(state)
       /\ UNCHANGED <<state, link>>
    \/ /\ MayConnect(state)
       /\ \/ state' = "CONNECTING" /\ link' = "pending"
          \/ state' = "FAILED" /\ UNCHANGED link

(* The handlers, started by the event loop.                                *)
LoopReady == io = "idle" /\ ~halted

OnOpen ==
    /\ LoopReady /\ link = "pending"
    /\ link' = "up"
    /\ state' = "CONNECTED"
    /\ reconnect_attempts' = 0
    /\ UNCHANGED <<should_stop, io, halted>>

OnFail ==
    /\ LoopReady /\ link = "pending"
    /\ link' = "none"
    /\ state' = "FAILED"
    /\ io' = "lost"
    /\ UNCHANGED <<should_stop, reconnect_attempts, halted>>

OnClose ==
    /\ LoopReady /\ link = "up"
    /\ link' = "none"
    /\ state' = "DISCONNECTED"
    /\ io' = "closing"
    /\ UNCHANGED <<should_stop, reconnect_attempts, halted>>

(* The end of both handlers, and handle_reconnect() up to its sleep; the   *)
(* parameter is the member max_reconnect_attempts_.                        *)
HandleReconnect(max_reconnect_attempts) ==
    /\ io = "lost"
    /\ IF ~should_stop /\ reconnect_attempts < max_reconnect_attempts
       THEN /\ reconnect_attempts' = reconnect_attempts + 1
            /\ state' = "RECONNECTED"
            /\ io' = "sleeping"
       ELSE /\ io' = "idle"
            /\ UNCHANGED <<reconnect_attempts, state>>
    /\ UNCHANGED <<should_stop, link, halted>>

WakeUp ==
    /\ io = "sleeping"
    /\ io' = IF should_stop THEN "idle" ELSE "retrying"
    /\ UNCHANGED <<state, should_stop, reconnect_attempts, link, halted>>

(* reset_connection() clears the loop's stop flag (its setup_client()      *)
(* throws and is caught: the client is initialised already), then          *)
(* connect(), whose result is ignored.                                     *)
Retry ==
    /\ io = "retrying"
    /\ halted' = FALSE
    /\ Connect
    /\ io' = "idle"
    /\ UNCHANGED <<should_stop, reconnect_attempts>>

(* run() returns.                                                          *)
LoopReturns ==
    /\ io = "idle"
    /\ halted \/ link = "none"
    /\ io' = "ended"
    /\ UNCHANGED <<state, should_stop, reconnect_attempts, link, halted>>

(* An exception leaves the event loop -- its own, or one that a handler    *)
(* let through, as the constructor of std::thread in setup_heartbeat() may *)
(* throw -- and run() catches it: the thread ends, nothing reconnects.     *)
LoopThrows ==
    /\ io \in {"idle", "authed"}
    /\ state' = "FAILED"
    /\ io' = "ended"
    /\ UNCHANGED <<should_stop, reconnect_attempts, link, halted>>

(* run_async() and the three steps of stop().                              *)
RunAsync == io' = "idle"

AskToStop ==
    /\ should_stop' = TRUE
    /\ UNCHANGED <<state, reconnect_attempts, io, link, halted>>

HaltLoop ==
    /\ halted' = TRUE
    /\ UNCHANGED <<state, should_stop, reconnect_attempts, io, link>>

(* Mutant: stop() does not join the thread.                                *)
LeaveLoopRunning == UNCHANGED wsVars

JoinLoop ==
    /\ io \in {"none", "ended", "joined"}
    /\ io' = IF io = "ended" THEN "joined" ELSE io
    /\ UNCHANGED <<state, should_stop, reconnect_attempts, link, halted>>
=============================================================================
