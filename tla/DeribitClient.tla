---------------------------- MODULE DeribitClient ---------------------------
(***************************************************************************)
(* The session with the exchange (src/utils/deribit_client.cpp) on top of  *)
(* the connection: authentication, subscription, and the heartbeat thread. *)
(* The callbacks run on the event loop's thread; the heartbeat has its own *)
(* thread; connect() and stop() are called by the main thread.             *)
(*                                                                         *)
(* The exchange is external: `replies` holds the requests it has received  *)
(* and not yet answered.                                                   *)
(***************************************************************************)
EXTENDS WebSocketClient, ConfigLoader

VARIABLES config,            \* config_, never assigned after construction
          authenticated,     \* authenticated_
          subscribed,        \* subscribed_
          heartbeat_running, \* pimpl_->heartbeat_running
          heartbeat,         \* pimpl_->heartbeat_thread
          replies,           \* external: answers still to come
          aborted            \* why std::terminate was called, if it was

clientVars == <<authenticated, subscribed, heartbeat_running, heartbeat, replies, aborted>>

NoReplies == [auth |-> 0, sub |-> 0]

(* The thread does not exist, checks its flag, sleeps, is about to send,   *)
(* has finished, or has been joined.                                       *)
HeartbeatThread == {"none", "checking", "sleeping", "sending", "ended", "joined"}
Joinable        == heartbeat \in {"checking", "sleeping", "sending", "ended"}

ClientInit ==
    /\ WsInit
    /\ authenticated = FALSE
    /\ subscribed = FALSE
    /\ heartbeat_running = FALSE
    /\ heartbeat = "none"
    /\ replies = NoReplies
    /\ aborted = "no"

-----------------------------------------------------------------------------
(* The callbacks of setup_callbacks().                                     *)

(* Mutant: the loop over the instruments runs once too often.              *)
SubscribeOnceMore == replies' = [replies EXCEPT !.sub = config.instruments + 1]

(* The two requests.  Both are sent from a handler of the open connection  *)
(* by the only thread that changes its state, so send() accepts them.      *)
SendAuthentication     == replies' = [NoReplies EXCEPT !.auth = 1]
SubscribeToInstruments == replies' = [replies EXCEPT !.sub = config.instruments]

(* What set_reconnect_setting() leaves in the connection: the parameter is *)
(* an int.                                                                 *)
MaxReconnectAttempts == ToInt(config.max_reconnect_attempts)

(* on_open: send_authentication().                                         *)
Opened ==
    /\ OnOpen
    /\ SendAuthentication
    /\ UNCHANGED <<authenticated, subscribed, heartbeat_running, heartbeat, aborted>>

(* Mutant: the callback runs before the loss of the connection is stored.  *)
ClosedForgetsFirst ==
    \/ /\ LoopReady /\ link = "up" /\ authenticated
       /\ authenticated' = FALSE
       /\ subscribed' = FALSE
       /\ UNCHANGED <<wsVars, heartbeat_running, heartbeat, replies, aborted>>
    \/ /\ OnClose /\ ~authenticated
       /\ replies' = NoReplies
       /\ UNCHANGED <<authenticated, subscribed, heartbeat_running, heartbeat, aborted>>

(* The connection is gone, and with it the answers; the callback comes     *)
(* after this: until then the other threads see a DISCONNECTED client that *)
(* is still authenticated.                                                 *)
Closed ==
    /\ OnClose
    /\ replies' = NoReplies
    /\ UNCHANGED <<authenticated, subscribed, heartbeat_running, heartbeat, aborted>>

(* on_close: forget the session (subscribed_ is read by this thread only). *)
ForgetSession ==
    /\ io = "closing"
    /\ authenticated' = FALSE
    /\ subscribed' = FALSE
    /\ io' = "lost"
    /\ UNCHANGED <<state, should_stop, reconnect_attempts, link, halted,
                   heartbeat_running, heartbeat, replies, aborted>>

Failed == OnFail /\ UNCHANGED clientVars

(* handle_message() with the answer to a request.                          *)
HandleReply(request) ==
    /\ LoopReady /\ link = "up" /\ replies[request] > 0
    /\ replies' = [replies EXCEPT ![request] = @ - 1]

(* handle_message() with id 1: handle_auth_response(), up to the first     *)
(* store of setup_heartbeat().  A reply without a result, or one that      *)
(* comes when authenticated, changes nothing.                              *)
AuthReply(ok) ==
    /\ HandleReply("auth")
    /\ IF ok /\ ~authenticated
       THEN /\ authenticated' = TRUE
            /\ heartbeat_running' = TRUE
            /\ io' = "authed"
       ELSE UNCHANGED <<authenticated, heartbeat_running, io>>
    /\ UNCHANGED <<state, should_stop, reconnect_attempts, link, halted,
                   subscribed, heartbeat, aborted>>

(* The rest of it: assigning over a joinable std::thread terminates the    *)
(* program; then one subscription request per instrument.                  *)
StartHeartbeat ==
    /\ io = "authed"
    /\ IF Joinable
       THEN aborted' = "replaced" /\ UNCHANGED <<heartbeat, replies, io>>
       ELSE /\ heartbeat' = "checking"
            /\ SubscribeToInstruments
            /\ io' = "idle"
            /\ UNCHANGED aborted
    /\ UNCHANGED <<state, should_stop, reconnect_attempts, link, halted,
                   authenticated, subscribed, heartbeat_running>>

(* handle_message() with id 42: handle_subscription_response().            *)
SubscriptionReply(ok) ==
    /\ HandleReply("sub")
    /\ subscribed' = (subscribed \/ ok)
    /\ UNCHANGED wsVars
    /\ UNCHANGED <<authenticated, heartbeat_running, heartbeat, aborted>>

(* handle_message() with market data: the message callback runs, and       *)
(* returns.                                                                *)
BeginMarketData ==
    /\ LoopReady /\ link = "up" /\ authenticated
    /\ io' = "in_message"
    /\ UNCHANGED <<state, should_stop, reconnect_attempts, link, halted>>
    /\ UNCHANGED clientVars

EndMarketData ==
    /\ io = "in_message"
    /\ io' = "idle"
    /\ UNCHANGED <<state, should_stop, reconnect_attempts, link, halted>>
    /\ UNCHANGED clientVars

-----------------------------------------------------------------------------
(* The heartbeat thread.  It reads authenticated_ after its sleep and, if  *)
(* it is set, state_ in send(): the connection may be lost in between.     *)
(* What it sends changes no state of the client.                           *)
HeartbeatChecks ==
    /\ heartbeat = "checking"
    /\ heartbeat' = IF heartbeat_running THEN "sleeping" ELSE "ended"
    /\ UNCHANGED wsVars
    /\ UNCHANGED <<authenticated, subscribed, heartbeat_running, replies, aborted>>

HeartbeatWakes ==
    /\ heartbeat = "sleeping"
    /\ heartbeat' = IF authenticated THEN "sending" ELSE "checking"
    /\ UNCHANGED wsVars
    /\ UNCHANGED <<authenticated, subscribed, heartbeat_running, replies, aborted>>

HeartbeatSends ==
    /\ heartbeat = "sending"
    /\ heartbeat' = "checking"
    /\ UNCHANGED wsVars
    /\ UNCHANGED <<authenticated, subscribed, heartbeat_running, replies, aborted>>

-----------------------------------------------------------------------------
(* stop(), step by step; the event loop's thread may act between any two.  *)
(* heartbeat_thread is read here and written there without a lock: the     *)
(* read sees either value.                                                 *)

(* Mutant: the heartbeat is not told to stop.                              *)
KeepBeating == UNCHANGED <<wsVars, clientVars>>

StopHeartbeat ==
    /\ heartbeat_running' = FALSE
    /\ UNCHANGED wsVars
    /\ UNCHANGED <<authenticated, subscribed, heartbeat, replies, aborted>>

JoinHeartbeat ==
    /\ heartbeat = "ended"
    /\ heartbeat' = "joined"
    /\ UNCHANGED wsVars
    /\ UNCHANGED <<authenticated, subscribed, heartbeat_running, replies, aborted>>

(* The end of the destructor: a joinable std::thread terminates.           *)
DestroyHeartbeat ==
    /\ aborted' = IF Joinable THEN "destroyed" ELSE aborted
    /\ UNCHANGED wsVars
    /\ UNCHANGED <<authenticated, subscribed, heartbeat_running, heartbeat, replies>>
=============================================================================
