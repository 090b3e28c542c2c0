---------------------------- MODULE SessionProofs ---------------------------
(***************************************************************************)
(* The safety properties of the session, whatever the configuration file,  *)
(* the network and the moments of the signal.  The argument rests on two   *)
(* facts: only one connection is ever opened, because a client that        *)
(* reconnects is in a state connect() refuses (OneConnection); and once    *)
(* main() has joined the event loop's thread nothing starts the heartbeat  *)
(* again, so the second stop() finds and joins it (OrderlyExit).           *)
(***************************************************************************)
EXTENDS SessionLifecycle, TLAPS

Quiet    == io \in {"none", "joined"} \* no handler runs, now or later
LoopOver == io \in {"ended", "joined"}

(* The connection is pending once, before the session and the heartbeat;   *)
(* it is authenticated once, and after a loss the state is RECONNECTED.    *)
(* Once there is a heartbeat, only a connection that is lost forgets the   *)
(* session.                                                                *)
OneConnection ==
    /\ At("connect") => io = "none" /\ link = "none" /\ state = "DISCONNECTED"
    /\ At("connect") \/ link = "pending" =>
          /\ heartbeat = "none" /\ replies.auth = 0
          /\ authenticated = FALSE /\ subscribed = FALSE
    /\ replies.auth > 0 => heartbeat = "none" /\ io # "authed"
    /\ io = "authed" => heartbeat = "none" /\ link = "up"
    /\ io = "closing" => state = "DISCONNECTED"
    /\ io = "lost" => state \in {"DISCONNECTED", "FAILED"}
    /\ io \in {"sleeping", "retrying"} => state = "RECONNECTED"
    /\ io \in {"closing", "lost", "sleeping", "retrying"} => link = "none"
    /\ link = "up" => state = "CONNECTED" \/ LoopOver
    /\ heartbeat # "none" \/ io = "authed" =>
          (state = "CONNECTED" => authenticated = TRUE)

(* main() after a connection: the thread is joined before the statistics   *)
(* are read, and in the destructor's stop() the heartbeat before the end.  *)
OrderlyExit ==
    /\ main[1] \in {"connect", "waiting"} => main[2] = "main" /\ was_up = FALSE
    /\ main[1] \in {"loop", "print"} => main[2] = "main"
    /\ main[1] = "destroy" => main[2] = "dtor"
    /\ was_up = TRUE /\ main[2] = "dtor" => Quiet
    /\ was_up = TRUE /\ main[2] = "dtor"
          /\ main[1] \in {"ask", "halt", "join_loop", "destroy"} => ~Joinable

IInv == /\ TypeOK
        /\ OneConnection
        /\ OrderlyExit
        /\ StatsReadAlone
        /\ HeartbeatOnlyInSession
        /\ HeartbeatStartedOnce
        /\ CleanExitAfterConnection

LEMMA LoadedInstruments == ASSUME NEW f \in File PROVE Load(f).instruments \in Nat
BY DEF Load, ReadSubscriptions, ReadConnection, ReadCredentials, DefaultConfig,
   Given, File

-----------------------------------------------------------------------------
LEMMA InitIInv == Init => IInv
<1> SUFFICES ASSUME Init PROVE IInv
  OBVIOUS
<1> USE DEF Init, ClientInit, WsInit, NoReplies
<1>1. config.instruments \in Nat
  BY LoadedInstruments, FilesAssumption
<1>2. /\ should_stop \in BOOLEAN /\ halted \in BOOLEAN
      /\ authenticated \in BOOLEAN /\ subscribed \in BOOLEAN
      /\ heartbeat_running \in BOOLEAN /\ g_running \in BOOLEAN /\ was_up \in BOOLEAN
  BY Zenon
<1>3. TypeOK
  BY <1>1, <1>2 DEF TypeOK, ConnectionState, IoThread, HeartbeatThread
<1>4. OneConnection /\ OrderlyExit
  BY DEF OneConnection, OrderlyExit, At, LoopOver
<1>5. QED
  BY <1>3, <1>4 DEF IInv, StatsReadAlone, HeartbeatOnlyInSession,
                    HeartbeatStartedOnce, CleanExitAfterConnection, At

LEMMA MainStepIInv == IInv /\ MainStep => IInv'
<1> SUFFICES ASSUME IInv, Running, MainThread, UNCHANGED settings PROVE IInv'
  BY DEF MainStep
<1> USE DEF IInv, TypeOK, OneConnection, OrderlyExit, StatsReadAlone,
            HeartbeatOnlyInSession, HeartbeatStartedOnce, CleanExitAfterConnection,
            At, GoTo, Joinable, Quiet, LoopOver, Running, settings, wsVars,
            clientVars, ConnectionState, IoThread, HeartbeatThread
<1>1. ASSUME StartConnecting PROVE IInv'
  BY <1>1 DEF StartConnecting, Connect, MayConnect, RunAsync
<1>2. ASSUME Connected PROVE IInv'
  BY <1>2 DEF Connected, IsConnected
<1>3. ASSUME Stop PROVE IInv'
  <2>1. ASSUME At("clear"), StopHeartbeat, GoTo("check"), UNCHANGED <<g_running, was_up>>
        PROVE  IInv'
    <3>1. heartbeat_running' \in BOOLEAN
      BY <2>1, Zenon DEF StopHeartbeat
    <3>2. QED
      BY <2>1, <3>1 DEF StopHeartbeat
  <2>2. ASSUME At("check"), GoTo(IF Joinable THEN "join_heartbeat" ELSE "ask"),
               UNCHANGED <<wsVars, clientVars>>, UNCHANGED <<g_running, was_up>>
        PROVE  IInv'
    BY <2>2
  <2>3. ASSUME At("join_heartbeat"), JoinHeartbeat, GoTo("ask"),
               UNCHANGED <<g_running, was_up>>
        PROVE  IInv'
    BY <2>3 DEF JoinHeartbeat
  <2>4. ASSUME At("ask"), AskToStop, UNCHANGED clientVars, GoTo("halt"),
               UNCHANGED <<g_running, was_up>>
        PROVE  IInv'
    BY <2>4 DEF AskToStop
  <2>5. ASSUME At("halt"), HaltLoop, UNCHANGED clientVars, GoTo("join_loop"),
               UNCHANGED <<g_running, was_up>>
        PROVE  IInv'
    BY <2>5 DEF HaltLoop
  <2>6. ASSUME At("join_loop"), JoinLoop, UNCHANGED clientVars,
               GoTo(IF main[2] = "main" THEN "print" ELSE "destroy"),
               UNCHANGED <<g_running, was_up>>
        PROVE  IInv'
    BY <2>6 DEF JoinLoop
  <2>7. QED
    BY <1>3, <2>1, <2>2, <2>3, <2>4, <2>5, <2>6 DEF Stop
<1>4. ASSUME ConnectTimesOut \/ LeaveLoop \/ PrintStats PROVE IInv'
  BY <1>4 DEF ConnectTimesOut, LeaveLoop, PrintStats
<1>5. ASSUME Destroy PROVE IInv'
  BY <1>5 DEF Destroy, DestroyHeartbeat
<1>6. QED
  BY <1>1, <1>2, <1>3, <1>4, <1>5 DEF MainThread

LEMMA LoopStepIInv == IInv /\ LoopStep => IInv'
<1> SUFFICES ASSUME IInv, Running, Loop, ElsewhereUnchanged PROVE IInv'
  BY DEF LoopStep
<1> USE DEF IInv, TypeOK, OneConnection, OrderlyExit, StatsReadAlone,
            HeartbeatOnlyInSession, HeartbeatStartedOnce, CleanExitAfterConnection,
            At, Joinable, Quiet, LoopOver, Running, ElsewhereUnchanged, settings,
            wsVars, clientVars, ConnectionState, IoThread, HeartbeatThread
<1>1. ASSUME HandleReconnect(MaxReconnectAttempts), UNCHANGED clientVars PROVE IInv'
  BY <1>1 DEF HandleReconnect
<1>2. ASSUME WakeUp \/ LoopReturns, UNCHANGED clientVars PROVE IInv'
  BY <1>2 DEF WakeUp, LoopReturns
<1>3. ASSUME Retry, UNCHANGED clientVars PROVE IInv'
  <2>1. halted' \in BOOLEAN
    BY <1>3, Zenon DEF Retry
  <2>2. QED
    BY <1>3, <2>1 DEF Retry, Connect, MayConnect
<1>4. ASSUME StartHeartbeat PROVE IInv'
  <2>1. config.instruments \in Nat
    BY LoadedInstruments, FilesAssumption
  <2>2. QED
    BY <1>4, <2>1 DEF StartHeartbeat, SubscribeToInstruments
<1>5. ASSUME EndMarketData PROVE IInv'
  BY <1>5 DEF EndMarketData
<1>6. ASSUME ForgetSession PROVE IInv'
  <2>1. authenticated' \in BOOLEAN /\ subscribed' \in BOOLEAN
    BY <1>6, Zenon DEF ForgetSession
  <2>2. QED
    BY <1>6, <2>1 DEF ForgetSession
<1>7. QED
  BY <1>1, <1>2, <1>3, <1>4, <1>5, <1>6 DEF Loop

LEMMA HeartbeatStepIInv == IInv /\ HeartbeatStep => IInv'
BY DEF HeartbeatStep, Running, Heartbeat, HeartbeatChecks, HeartbeatWakes,
       HeartbeatSends, IInv, TypeOK, OneConnection, OrderlyExit, StatsReadAlone, HeartbeatOnlyInSession,
       HeartbeatStartedOnce, CleanExitAfterConnection, At, Joinable, Quiet,
       LoopOver, ElsewhereUnchanged, settings, wsVars, clientVars, ConnectionState,
       IoThread, HeartbeatThread

LEMMA NetworkStepIInv == IInv /\ NetworkStep => IInv'
<1> SUFFICES ASSUME IInv, Running, Network, ElsewhereUnchanged PROVE IInv'
  BY DEF NetworkStep
<1> USE DEF IInv, TypeOK, OneConnection, OrderlyExit, StatsReadAlone,
            HeartbeatOnlyInSession, HeartbeatStartedOnce, CleanExitAfterConnection,
            At, Joinable, Quiet, LoopOver, Running, ElsewhereUnchanged, settings,
            wsVars, clientVars, ConnectionState, IoThread, HeartbeatThread,
            LoopReady
<1> config.instruments \in Nat
  BY LoadedInstruments, FilesAssumption
<1>1. ASSUME Opened PROVE IInv'
  BY <1>1 DEF Opened, OnOpen, SendAuthentication, NoReplies
<1>2. ASSUME Closed PROVE IInv'
  BY <1>2 DEF Closed, OnClose, NoReplies
<1>3. ASSUME Failed PROVE IInv'
  BY <1>3 DEF Failed, OnFail
<1>4. ASSUME BeginMarketData PROVE IInv'
  BY <1>4 DEF BeginMarketData
<1>5. ASSUME LoopThrows, UNCHANGED clientVars PROVE IInv'
  BY <1>5 DEF LoopThrows
<1>6. ASSUME NEW ok \in BOOLEAN, AuthReply(ok) PROVE IInv'
  <2>1. authenticated' \in BOOLEAN /\ heartbeat_running' \in BOOLEAN
    BY <1>6, Zenon DEF AuthReply
  <2>2. /\ replies.auth > 0 /\ io = "idle" /\ link = "up"
        /\ replies' = [replies EXCEPT !.auth = @ - 1]
    BY <1>6 DEF AuthReply, HandleReply
  <2>3. /\ replies.auth = 1
        /\ replies' = [replies EXCEPT !.auth = 0]
    BY <2>2
  <2>4. replies' \in [auth : 0 .. 1, sub : 0 .. config.instruments] /\ replies'.auth = 0
    BY <2>3
  <2>5. heartbeat = "none" /\ state = "CONNECTED"
    BY <2>2
  <2>6. IF ok /\ ~authenticated
        THEN io' = "authed" /\ authenticated' = TRUE
        ELSE UNCHANGED <<authenticated, heartbeat_running, io>>
    BY <1>6 DEF AuthReply
  <2>7. UNCHANGED <<state, should_stop, reconnect_attempts, link, halted, subscribed,
                    heartbeat, aborted>>
    BY <1>6 DEF AuthReply
  <2>8. QED
    BY <2>1, <2>2, <2>4, <2>5, <2>6, <2>7
<1>7. ASSUME NEW ok \in BOOLEAN, SubscriptionReply(ok) PROVE IInv'
  <2>1. subscribed' \in BOOLEAN
    BY <1>7, Zenon DEF SubscriptionReply
  <2>2. QED
    BY <1>7, <2>1 DEF SubscriptionReply, HandleReply
<1>8. QED
  BY <1>1, <1>2, <1>3, <1>4, <1>5, <1>6, <1>7 DEF Network

LEMMA SignalStepIInv == IInv /\ SignalStep => IInv'
<1> SUFFICES ASSUME IInv, Signal, UNCHANGED settings PROVE IInv'
  BY DEF SignalStep
<1>1. g_running' \in BOOLEAN
  BY Zenon DEF Signal
<1>2. QED
  BY <1>1 DEF Signal, IInv, TypeOK, OneConnection, OrderlyExit, StatsReadAlone,
              HeartbeatOnlyInSession, HeartbeatStartedOnce,
              CleanExitAfterConnection, At, Joinable, Quiet, LoopOver, settings,
              wsVars, clientVars

LEMMA StutterIInv == IInv /\ UNCHANGED vars => IInv'
BY DEF vars, IInv, TypeOK, OneConnection, OrderlyExit, StatsReadAlone,
       HeartbeatOnlyInSession, HeartbeatStartedOnce, CleanExitAfterConnection, At,
       Joinable, Quiet, LoopOver, settings, wsVars, clientVars

-----------------------------------------------------------------------------
(* The inductive invariant holds in every reachable state.                 *)
THEOREM Invariance == Spec => []IInv
<1>1. IInv /\ [Next]_vars => IInv'
  BY MainStepIInv, LoopStepIInv, HeartbeatStepIInv, NetworkStepIInv, SignalStepIInv,
     StutterIInv DEF Next
<1>2. QED
  BY <1>1, InitIInv, PTL DEF Spec

(* Every member of the client keeps its type, for every set of files.      *)
THEOREM TypeCorrect == Spec => []TypeOK
<1>1. IInv => TypeOK
  BY DEF IInv
<1>2. QED
  BY <1>1, Invariance, PTL

(* print_stats() never reads the tracker while a handler may run.          *)
THEOREM StatisticsReadAlone == Spec => []StatsReadAlone
<1>1. IInv => StatsReadAlone
  BY DEF IInv
<1>2. QED
  BY <1>1, Invariance, PTL

(* The heartbeat thread never hands a message to a connection that is not  *)
(* authenticated, wherever the loss of one falls between its two reads.    *)
THEOREM HeartbeatInSession == Spec => []HeartbeatOnlyInSession
<1>1. IInv => HeartbeatOnlyInSession
  BY DEF IInv
<1>2. QED
  BY <1>1, Invariance, PTL

(* setup_heartbeat() never assigns over a joinable thread, however many    *)
(* attempts the configuration allows.                                      *)
THEOREM OneHeartbeat == Spec => []HeartbeatStartedOnce
<1>1. IInv => HeartbeatStartedOnce
  BY DEF IInv
<1>2. QED
  BY <1>1, Invariance, PTL

(* Once connected, the program never ends by destroying a joinable thread. *)
THEOREM HeartbeatJoined == Spec => []CleanExitAfterConnection
<1>1. IInv => CleanExitAfterConnection
  BY DEF IInv
<1>2. QED
  BY <1>1, Invariance, PTL

-----------------------------------------------------------------------------
(* The stages of connection, event loop and heartbeat.  A lost connection  *)
(* costs one attempt and is never replaced; a flag that told the heartbeat *)
(* to stop stays cleared, because only an authentication reply sets it and *)
(* none comes once the heartbeat exists.                                   *)
OneAttempt ==
    /\ reconnect_attempts \in {0, 1}
    /\ reconnect_attempts = 1 => /\ link = "none" /\ io \notin {"none", "closing", "lost"}
                                 /\ 0 < MaxReconnectAttempts

ConnectionStages ==
    /\ io = "none" => link = "none"
    /\ state = "CONNECTED" => link = "up"
    /\ link = "up" /\ LoopOver => halted \/ state = "FAILED"

HeartbeatStages ==
    /\ heartbeat \in {"ended", "joined"} => heartbeat_running = FALSE
    /\ main[1] \in {"connect", "waiting", "loop"} =>
          /\ halted = FALSE
          /\ heartbeat # "none" \/ io = "authed" => heartbeat_running = TRUE

MainStages ==
    /\ main[1] \notin {"connect", "waiting"} /\ main[2] = "main" => was_up = TRUE
    /\ main[1] = "waiting" \/ was_up = TRUE \/ heartbeat # "none" => io # "none"
    /\ main[1] \in {"destroy", "exited"} => Quiet

Stages == OneAttempt /\ ConnectionStages /\ HeartbeatStages /\ MainStages

LEMMA InitStages == Init => Stages
BY DEF Init, ClientInit, WsInit, Stages, OneAttempt, ConnectionStages,
       HeartbeatStages, MainStages, MaxReconnectAttempts, Quiet, LoopOver

LEMMA MainStepStages == IInv /\ Stages /\ MainStep => Stages'
<1> SUFFICES ASSUME IInv, Stages, Running, MainThread, UNCHANGED settings PROVE Stages'
  BY DEF MainStep
<1> USE DEF IInv, TypeOK, OneConnection, Stages, OneAttempt, ConnectionStages,
            HeartbeatStages, MainStages, MaxReconnectAttempts, At, GoTo, Joinable,
            Quiet, LoopOver, Running, settings, wsVars, clientVars, ConnectionState,
            IoThread, HeartbeatThread
<1>1. ASSUME StartConnecting PROVE Stages'
  BY <1>1 DEF StartConnecting, Connect, MayConnect, RunAsync
<1>2. ASSUME Connected \/ ConnectTimesOut \/ LeaveLoop \/ PrintStats PROVE Stages'
  BY <1>2 DEF Connected, IsConnected, ConnectTimesOut, LeaveLoop, PrintStats
<1>3. ASSUME Stop PROVE Stages'
  <2>1. CASE At("clear") /\ StopHeartbeat /\ GoTo("check") /\ UNCHANGED was_up
    BY <2>1 DEF StopHeartbeat
  <2>2. CASE /\ At("check")
             /\ GoTo(IF Joinable THEN "join_heartbeat" ELSE "ask")
             /\ UNCHANGED <<wsVars, clientVars, was_up>>
    BY <2>2
  <2>3. CASE At("join_heartbeat") /\ JoinHeartbeat /\ GoTo("ask") /\ UNCHANGED was_up
    BY <2>3 DEF JoinHeartbeat
  <2>4. CASE At("ask") /\ AskToStop /\ UNCHANGED <<clientVars, was_up>> /\ GoTo("halt")
    BY <2>4 DEF AskToStop
  <2>5. CASE At("halt") /\ HaltLoop /\ UNCHANGED <<clientVars, was_up>> /\ GoTo("join_loop")
    BY <2>5 DEF HaltLoop
  <2>6. CASE /\ At("join_loop") /\ JoinLoop /\ UNCHANGED <<clientVars, was_up>>
             /\ GoTo(IF main[2] = "main" THEN "print" ELSE "destroy")
    BY <2>6 DEF JoinLoop
  <2>7. QED
    BY <1>3, <2>1, <2>2, <2>3, <2>4, <2>5, <2>6 DEF Stop
<1>4. ASSUME Destroy PROVE Stages'
  BY <1>4 DEF Destroy, DestroyHeartbeat
<1>5. QED
  BY <1>1, <1>2, <1>3, <1>4 DEF MainThread

LEMMA LoopStepStages == IInv /\ Stages /\ LoopStep => Stages'
<1> SUFFICES ASSUME IInv, Stages, Running, Loop, ElsewhereUnchanged PROVE Stages'
  BY DEF LoopStep
<1> USE DEF IInv, TypeOK, OneConnection, Stages, OneAttempt, ConnectionStages,
            HeartbeatStages, MainStages, MaxReconnectAttempts, At, Joinable, Quiet,
            LoopOver, Running, ElsewhereUnchanged, settings, wsVars, clientVars,
            ConnectionState, IoThread, HeartbeatThread
<1>1. ASSUME HandleReconnect(MaxReconnectAttempts), UNCHANGED clientVars PROVE Stages'
  BY <1>1 DEF HandleReconnect
<1>2. ASSUME WakeUp \/ LoopReturns, UNCHANGED clientVars PROVE Stages'
  BY <1>2 DEF WakeUp, LoopReturns
<1>3. ASSUME Retry, UNCHANGED clientVars PROVE Stages'
  BY <1>3 DEF Retry, Connect, MayConnect
<1>4. ASSUME StartHeartbeat PROVE Stages'
  BY <1>4 DEF StartHeartbeat, SubscribeToInstruments
<1>5. ASSUME EndMarketData PROVE Stages'
  BY <1>5 DEF EndMarketData
<1>6. ASSUME ForgetSession PROVE Stages'
  BY <1>6 DEF ForgetSession
<1>7. QED
  BY <1>1, <1>2, <1>3, <1>4, <1>5, <1>6 DEF Loop

LEMMA NetworkStepStages == IInv /\ Stages /\ NetworkStep => Stages'
<1> SUFFICES ASSUME IInv, Stages, Running, Network, ElsewhereUnchanged PROVE Stages'
  BY DEF NetworkStep
<1> USE DEF IInv, TypeOK, OneConnection, Stages, OneAttempt, ConnectionStages,
            HeartbeatStages, MainStages, MaxReconnectAttempts, At, Joinable, Quiet,
            LoopOver, Running, ElsewhereUnchanged, settings, wsVars, clientVars,
            ConnectionState, IoThread, HeartbeatThread, LoopReady
<1>1. ASSUME Opened PROVE Stages'
  BY <1>1 DEF Opened, OnOpen, SendAuthentication
<1>2. ASSUME Closed PROVE Stages'
  BY <1>2 DEF Closed, OnClose
<1>3. ASSUME Failed PROVE Stages'
  BY <1>3 DEF Failed, OnFail
<1>4. ASSUME BeginMarketData PROVE Stages'
  BY <1>4 DEF BeginMarketData
<1>5. ASSUME LoopThrows, UNCHANGED clientVars PROVE Stages'
  BY <1>5 DEF LoopThrows
<1>6. ASSUME NEW ok \in BOOLEAN, AuthReply(ok) PROVE Stages'
  BY <1>6 DEF AuthReply, HandleReply
<1>7. ASSUME NEW ok \in BOOLEAN, SubscriptionReply(ok) PROVE Stages'
  BY <1>7 DEF SubscriptionReply, HandleReply
<1>8. QED
  BY <1>1, <1>2, <1>3, <1>4, <1>5, <1>6, <1>7 DEF Network

LEMMA StagesInvariance == Spec => [](IInv /\ Stages)
<1>1. IInv /\ Stages /\ HeartbeatStep => Stages'
  BY DEF HeartbeatStep, Running, Heartbeat, HeartbeatChecks, HeartbeatWakes,
         HeartbeatSends, IInv, TypeOK, Stages, OneAttempt, ConnectionStages, HeartbeatStages, MainStages,
         MaxReconnectAttempts, Quiet, LoopOver, ElsewhereUnchanged, settings,
         wsVars, clientVars, HeartbeatThread
<1>2. Stages /\ (SignalStep \/ UNCHANGED vars) => Stages'
  BY DEF SignalStep, Signal, vars, Stages, OneAttempt, ConnectionStages,
         HeartbeatStages, MainStages, MaxReconnectAttempts, Quiet, LoopOver,
         settings, wsVars, clientVars
<1>3. IInv /\ Stages /\ [Next]_vars => Stages'
  BY <1>1, <1>2, MainStepStages, LoopStepStages, NetworkStepStages DEF Next
<1>4. QED
  BY <1>3, InitStages, Invariance, PTL DEF Spec

(* One connection is lost at most once, so one attempt is all there is,    *)
(* and a limit that turned negative as an int allows not even that one.    *)
THEOREM OneAttemptOnly == Spec => []AtMostOneAttempt
<1>1. Stages => AtMostOneAttempt
  BY DEF Stages, OneAttempt, AtMostOneAttempt
<1>2. QED
  BY <1>1, StagesInvariance, PTL

(* The limit of the user is exceeded only if it does not allow the one     *)
(* attempt: every limit of one or more is kept, though never used up.      *)
THEOREM PositiveLimitKept == Spec => [](AttemptsAllowed >= 1 => AttemptsAsConfigured)
<1>1. ASSUME IInv, Stages, AttemptsAllowed >= 1 PROVE AttemptsAsConfigured
  <2>1. AttemptsAllowed \in Int
    BY <1>1, FilesAssumption, MissingAssumption
       DEF IInv, TypeOK, AttemptsAllowed, Given, File, Connection, Setting
  <2>2. QED
    BY <1>1, <2>1 DEF Stages, OneAttempt, AttemptsAsConfigured
<1>2. IInv /\ Stages => (AttemptsAllowed >= 1 => AttemptsAsConfigured)
  BY <1>1
<1>3. QED
  BY <1>2, StagesInvariance, PTL

-----------------------------------------------------------------------------
(* The refinement: which abstract step each step of a thread is.           *)
Stage == <<MainPhase, TheConnection, EventLoop, Pulse>>

LEMMA InitLife == Init => Life!Init
BY DEF Init, ClientInit, WsInit, Life!Init, MainPhase, TheConnection, EventLoop,
   Pulse, At,
   Joinable

LEMMA MainStepLife == IInv /\ Stages /\ MainStep => [Life!Next]_Stage
<1> SUFFICES ASSUME IInv, Stages, Running, MainThread, UNCHANGED settings
             PROVE  Life!Next \/ UNCHANGED Stage
  BY DEF MainStep
<1> USE DEF IInv, TypeOK, OneConnection, OrderlyExit, Stages, OneAttempt,
            ConnectionStages, HeartbeatStages, MainStages, At, GoTo, Joinable,
            Quiet, LoopOver, Running, wsVars, clientVars, IoThread, HeartbeatThread,
            Stage, MainPhase, TheConnection, EventLoop, Pulse, Life!Advance
<1>1. ASSUME StartConnecting PROVE Life!Dial \/ Life!GiveUp
  BY <1>1 DEF StartConnecting, Connect, MayConnect, RunAsync, Life!Dial, Life!GiveUp
<1>2. ASSUME Connected PROVE Life!Serve
  BY <1>2 DEF Connected, IsConnected, Life!Serve
<1>3. ASSUME ConnectTimesOut PROVE Life!GiveUp
  BY <1>3 DEF ConnectTimesOut, Life!GiveUp
<1>4. ASSUME LeaveLoop PROVE Life!Stop
  BY <1>4 DEF LeaveLoop, Life!Stop
<1>5. ASSUME Stop
      PROVE  Life!TellPulse \/ Life!JoinPulse \/ Life!Report \/ UNCHANGED Stage
  <2>1. CASE At("clear") /\ StopHeartbeat /\ GoTo("check") /\ UNCHANGED was_up
    BY <2>1 DEF StopHeartbeat, Life!TellPulse, Life!Stopping
  <2>2. CASE /\ At("check")
             /\ GoTo(IF Joinable THEN "join_heartbeat" ELSE "ask")
             /\ UNCHANGED <<wsVars, clientVars, was_up>>
    BY <2>2
  <2>3. CASE At("join_heartbeat") /\ JoinHeartbeat /\ GoTo("ask") /\ UNCHANGED was_up
    BY <2>3 DEF JoinHeartbeat, Life!JoinPulse, Life!Stopping
  <2>4. CASE At("ask") /\ AskToStop /\ UNCHANGED <<clientVars, was_up>> /\ GoTo("halt")
    BY <2>4 DEF AskToStop
  <2>5. CASE At("halt") /\ HaltLoop /\ UNCHANGED <<clientVars, was_up>> /\ GoTo("join_loop")
    BY <2>5 DEF HaltLoop
  <2>6. CASE /\ At("join_loop") /\ JoinLoop /\ UNCHANGED <<clientVars, was_up>>
             /\ GoTo(IF main[2] = "main" THEN "print" ELSE "destroy")
    BY <2>6 DEF JoinLoop, Life!Report
  <2>7. QED
    BY <1>5, <2>1, <2>2, <2>3, <2>4, <2>5, <2>6 DEF Stop
<1>6. ASSUME PrintStats PROVE Life!Leave
  BY <1>6 DEF PrintStats, Life!Leave
<1>7. ASSUME Destroy PROVE Life!Exit \/ Life!Terminate
  BY <1>7 DEF Destroy, DestroyHeartbeat, Life!Exit, Life!Terminate
<1>8. QED
  BY <1>1, <1>2, <1>3, <1>4, <1>5, <1>6, <1>7 DEF MainThread, Life!Next

LEMMA LoopStepLife == IInv /\ Stages /\ LoopStep => [Life!Next]_Stage
<1> SUFFICES ASSUME IInv, Stages, Running, Loop, ElsewhereUnchanged
             PROVE  Life!Next \/ UNCHANGED Stage
  BY DEF LoopStep
<1> USE DEF IInv, TypeOK, OneConnection, Stages, OneAttempt, ConnectionStages,
            HeartbeatStages, MainStages, MaxReconnectAttempts, At, Joinable, Quiet,
            LoopOver, Running, ElsewhereUnchanged, wsVars, clientVars, IoThread,
            HeartbeatThread, Stage, MainPhase, TheConnection, EventLoop, Pulse
<1>1. CASE \/ HandleReconnect(MaxReconnectAttempts) /\ UNCHANGED clientVars
           \/ WakeUp /\ UNCHANGED clientVars
           \/ ForgetSession
           \/ EndMarketData
  BY <1>1 DEF HandleReconnect, WakeUp, ForgetSession, EndMarketData
<1>2. CASE Retry /\ UNCHANGED clientVars
  BY <1>2 DEF Retry, Connect, MayConnect
<1>3. ASSUME LoopReturns, UNCHANGED clientVars PROVE Life!EndLoop
  BY <1>3 DEF LoopReturns, Life!EndLoop
<1>4. ASSUME StartHeartbeat PROVE Life!StartPulse
  <2>1. /\ io = "authed" /\ io' = "idle" /\ link = "up" /\ link' = link
        /\ heartbeat = "none" /\ heartbeat' = "checking"
        /\ heartbeat_running' = heartbeat_running /\ aborted' = aborted
    BY <1>4 DEF StartHeartbeat
  <2>2. /\ EventLoop = "running" /\ EventLoop' = EventLoop
        /\ TheConnection = "open" /\ TheConnection' = TheConnection
        /\ MainPhase' = MainPhase
    BY <2>1
  <2>3. Pulse = "none" /\ Pulse' = IF heartbeat_running THEN "beating" ELSE "told"
    BY <2>1
  <2>4. heartbeat_running = TRUE \/ MainPhase \in {"stopping", "leaving", "quitting"}
    BY <2>1 DEF StatsReadAlone
  <2> HIDE DEF EventLoop, TheConnection, MainPhase, Pulse
  <2>5. QED
    BY <2>2, <2>3, <2>4 DEF Life!StartPulse, Life!Stopping
<1>5. QED
  BY <1>1, <1>2, <1>3, <1>4 DEF Loop, Life!Next

LEMMA NetworkStepLife == IInv /\ Stages /\ NetworkStep => [Life!Next]_Stage
<1> SUFFICES ASSUME IInv, Stages, Running, Network, ElsewhereUnchanged
             PROVE  Life!Next \/ UNCHANGED Stage
  BY DEF NetworkStep
<1> USE DEF IInv, TypeOK, OneConnection, Stages, OneAttempt, ConnectionStages,
            HeartbeatStages, MainStages, MaxReconnectAttempts, At, Joinable, Quiet,
            LoopOver, Running, ElsewhereUnchanged, wsVars, clientVars, IoThread,
            HeartbeatThread, LoopReady, Stage, MainPhase, TheConnection, EventLoop,
            Pulse
<1>1. ASSUME Opened PROVE Life!Open
  BY <1>1 DEF Opened, OnOpen, Life!Open
<1>2. ASSUME Closed \/ Failed PROVE Life!Lose
  BY <1>2 DEF Closed, OnClose, Failed, OnFail, Life!Lose
<1>3. ASSUME LoopThrows, UNCHANGED clientVars PROVE Life!EndLoop
  BY <1>3 DEF LoopThrows, Life!EndLoop
<1>4. CASE BeginMarketData
  BY <1>4 DEF BeginMarketData
<1>5. ASSUME NEW ok \in BOOLEAN, AuthReply(ok) PROVE UNCHANGED Stage
  BY <1>5 DEF AuthReply, HandleReply
<1>6. ASSUME NEW ok \in BOOLEAN, SubscriptionReply(ok) PROVE UNCHANGED Stage
  BY <1>6 DEF SubscriptionReply, HandleReply
<1>7. QED
  BY <1>1, <1>2, <1>3, <1>4, <1>5, <1>6 DEF Network, Life!Next

(* The program implements the life cycle: one connection, one event loop   *)
(* and one heartbeat, each through its stages once, and a main thread that *)
(* waits for those it depends on -- for every configuration file, network, *)
(* scheduling and moment of the signal.                                    *)
THEOREM LifecycleRefined == Spec => ImplementsLifecycle
<1>1. IInv /\ HeartbeatStep => UNCHANGED Stage
  BY DEF HeartbeatStep, Running, Heartbeat, HeartbeatChecks, HeartbeatWakes,
         HeartbeatSends, IInv, TypeOK, ElsewhereUnchanged, wsVars, clientVars, HeartbeatThread, Stage,
         MainPhase, TheConnection, EventLoop, Pulse, At, Joinable
<1>2. SignalStep \/ UNCHANGED vars => UNCHANGED Stage
  BY DEF SignalStep, Signal, vars, wsVars, clientVars, Stage, MainPhase,
         TheConnection, EventLoop, Pulse, At, Joinable
<1>3. IInv /\ Stages /\ [Next]_vars => [Life!Next]_Stage
  BY <1>1, <1>2, MainStepLife, LoopStepLife, NetworkStepLife DEF Next
<1>4. QED
  BY <1>3, InitLife, StagesInvariance, PTL DEF Spec, ImplementsLifecycle, Life!Spec, Stage

-----------------------------------------------------------------------------
(* What load_config() makes of every file, complete or cut short by an     *)
(* error: a configuration whose every member has a value of its type, and  *)
(* whose keys, if any, are those the file gives for the very environment   *)
(* that the client will connect to.                                        *)
THEOREM LoadIsSound ==
    ASSUME NEW f \in File
    PROVE  /\ Load(f) \in DeribitConfig
           /\ Load(f).credentials # "none" =>
                /\ Load(f).credentials \in f.keys
                /\ Load(f).credentials =
                     IF Load(f).use_testnet THEN "testnet" ELSE "mainnet"
<1> DEFINE testnet == IF f.use_testnet = Missing THEN TRUE ELSE f.use_testnet
           env     == IF testnet THEN "testnet" ELSE "mainnet"
           c1      == ReadCredentials(DefaultConfig, f)
           c2      == ReadConnection(c1, f)
           c3      == ReadSubscriptions(c2, f)
           Sound(c) == /\ c \in DeribitConfig
                       /\ c.credentials # "none" =>
                            /\ c.credentials \in f.keys
                            /\ c.credentials = IF c.use_testnet THEN "testnet" ELSE "mainnet"
<1>1. Sound(DefaultConfig)
  BY DEF DefaultConfig, DeribitConfig, Environment
<1>2. Sound(c1)
  <2>1. testnet \in BOOLEAN /\ env \in Environment
    <3>1. f.use_testnet \in BOOLEAN \cup {Missing}
      BY DEF File
    <3>2. testnet \in BOOLEAN
      BY <3>1, Zenon
    <3>3. QED
      BY <3>2 DEF Environment
  <2> DEFINE key == IF env \in f.keys THEN env ELSE "none"
  <2>2. c1 = [DefaultConfig EXCEPT !.use_testnet = testnet, !.credentials = key]
    BY DEF ReadCredentials, DefaultConfig
  <2>3. key \in Environment \cup {"none"} /\ (key # "none" => key \in f.keys /\ key = env)
    BY <2>1 DEF Environment
  <2>4. env = IF testnet THEN "testnet" ELSE "mainnet"
    OBVIOUS
  <2> HIDE DEF c1, testnet, env, key
  <2>5. DefaultConfig \in DeribitConfig
    BY DEF DefaultConfig, DeribitConfig
  <2>6. c1 \in DeribitConfig /\ c1.use_testnet = testnet /\ c1.credentials = key
    BY <2>1, <2>2, <2>3, <2>5 DEF DeribitConfig
  <2>7. env = IF c1.use_testnet THEN "testnet" ELSE "mainnet"
    BY <2>4, <2>6, Zenon
  <2>8. QED
    BY <2>3, <2>6, <2>7, Zenon
<1> HIDE DEF c1
<1>3. Sound(c2)
  <2>1. CASE f.connection = Missing
    BY <1>2, <2>1 DEF ReadConnection
  <2>2. CASE f.connection # Missing
    <3> DEFINE h == f.connection.heartbeat_interval_ms
    <3>1. h \in Setting
      BY <2>2 DEF File, Connection
    <3>2. Given(h, 10000) \in Int /\ Given(h, 2000) \in Int /\ Given(h, 5) \in Int
      BY <3>1 DEF Given, Setting
    <3>3. c2 = [c1 EXCEPT !.heartbeat_interval_ms  = Given(h, 10000),
                          !.reconnect_delay_ms     = Given(h, 2000),
                          !.max_reconnect_attempts = Given(h, 5)]
      BY <2>2 DEF ReadConnection
    <3> DEFINE d1 == [c1 EXCEPT !.heartbeat_interval_ms = Given(h, 10000)]
               d2 == [d1 EXCEPT !.reconnect_delay_ms = Given(h, 2000)]
    <3> HIDE DEF c2, h
    <3>4. /\ d1 \in DeribitConfig
          /\ d1.credentials = c1.credentials /\ d1.use_testnet = c1.use_testnet
      BY <1>2, <3>2 DEF DeribitConfig
    <3> HIDE DEF d1
    <3>5. /\ d2 \in DeribitConfig
          /\ d2.credentials = c1.credentials /\ d2.use_testnet = c1.use_testnet
      BY <3>2, <3>4 DEF DeribitConfig
    <3>6. c2 = [d2 EXCEPT !.max_reconnect_attempts = Given(h, 5)]
      BY <3>3 DEF d1
    <3> HIDE DEF d2
    <3>7. /\ c2 \in DeribitConfig
          /\ c2.credentials = c1.credentials /\ c2.use_testnet = c1.use_testnet
      BY <3>2, <3>5, <3>6 DEF DeribitConfig
    <3>8. QED
      BY <1>2, <3>7
  <2>3. QED
    BY <2>1, <2>2
<1> HIDE DEF c2
<1>4. Sound(c3)
  BY <1>3 DEF ReadSubscriptions, File, DeribitConfig
<1> HIDE DEF c3, Sound
<1>5. Load(f) \in {DefaultConfig, c1, c2, c3}
  BY DEF Load, c1, c2, c3
<1>6. Sound(Load(f))
  BY <1>1, <1>2, <1>3, <1>4, <1>5
<1>7. QED
  BY <1>6 DEF Sound

(* All three settings of the section are copied from its first key: what   *)
(* the file says of the number of attempts has no effect whatever.         *)
THEOREM LimitIsIgnored ==
    ASSUME NEW f \in File, f.connection # Missing, NEW n \in Setting
    PROVE  Load([f EXCEPT !.connection.max_reconnect_attempts = n]) = Load(f)
<1> DEFINE g == [f EXCEPT !.connection.max_reconnect_attempts = n]
<1>1. f.connection \in Connection
  BY DEF File
<1>2. /\ g.connection # Missing
      /\ g.connection.heartbeat_interval_ms = f.connection.heartbeat_interval_ms
  BY <1>1, MissingAssumption DEF File, Connection
<1>3. /\ g.sections = f.sections /\ g.use_testnet = f.use_testnet /\ g.keys = f.keys
      /\ g.instruments = f.instruments /\ g.channels = f.channels
  BY DEF File
<1> HIDE DEF g
<1>4. \A c : ReadCredentials(c, g) = ReadCredentials(c, f)
  BY <1>3 DEF ReadCredentials
<1>5. \A c : ReadConnection(c, g) = ReadConnection(c, f)
  BY <1>2 DEF ReadConnection
<1>6. \A c : ReadSubscriptions(c, g) = ReadSubscriptions(c, f)
  BY <1>3 DEF ReadSubscriptions
<1>7. Load(g) = Load(f)
  BY <1>3, <1>4, <1>5, <1>6 DEF Load
<1>8. QED
  BY <1>7 DEF g
=============================================================================
