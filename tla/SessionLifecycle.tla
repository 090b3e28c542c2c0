-------------------------- MODULE SessionLifecycle --------------------------
(***************************************************************************)
(* The program implements the abstract life cycle of module Lifecycle.     *)
(***************************************************************************)
EXTENDS Session

(* The steps of the two calls of stop() are one phase each.                *)
MainPhase ==
    IF At("exited") THEN IF aborted = "no" THEN "exited" ELSE "terminated"
    ELSE IF At("connect") \/ At("waiting") THEN "connecting"
    ELSE IF At("loop") THEN "serving"
    ELSE IF At("print") THEN "reporting"
    ELSE IF main[2] = "main" THEN "stopping"
    ELSE IF was_up THEN "leaving" ELSE "quitting"

(* A connection that is lost is `gone' for good: every state of the        *)
(* reconnection logic stands for the same stage.                           *)
TheConnection ==
    IF link = "up" THEN "open"
    ELSE IF link = "pending" THEN "pending"
    ELSE IF io = "none" THEN "none" ELSE "gone"

EventLoop ==
    IF io = "none" THEN "none" ELSE IF io \in {"ended", "joined"} THEN "over" ELSE "running"

Pulse ==
    IF ~Joinable THEN heartbeat ELSE IF heartbeat_running THEN "beating" ELSE "told"

Life == INSTANCE Lifecycle WITH phase <- MainPhase, connection <- TheConnection,
                                loop <- EventLoop, pulse <- Pulse

(* Every run of the program is one of the abstract life cycle: connection, *)
(* event loop and heartbeat go through their stages once, and the main     *)
(* thread waits for those it depends on.                                   *)
ImplementsLifecycle == Life!Spec
=============================================================================
