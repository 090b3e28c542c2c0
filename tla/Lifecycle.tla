----------------------------- MODULE Lifecycle ------------------------------
(***************************************************************************)
(* What one run of the program promises, whatever the network, the         *)
(* configuration and the moment of the signal, as an abstract              *)
(* specification: one connection, one event loop and one heartbeat, each   *)
(* going through its stages once and never back, and a main thread that    *)
(* reports the statistics when the loop is over and, if it ever had a      *)
(* session, exits when the heartbeat is.                                   *)
(*                                                                         *)
(* Nothing here knows of flags, of locks or of the steps of stop(): module *)
(* SessionLifecycle says which state of the program stands for which stage.*)
(***************************************************************************)
VARIABLES phase,      \* of the main thread: leaving a session, or quitting without one
          connection, \* none, pending, open, gone
          loop,       \* none, running, over
          pulse       \* the heartbeat: none, beating, told (to stop), joined

Init ==
    /\ phase = "connecting"
    /\ connection = "none"
    /\ loop = "none"
    /\ pulse = "none"

Stopping == phase \in {"stopping", "leaving", "quitting"}

-----------------------------------------------------------------------------
(* The one attempt that the main thread makes, and what becomes of it.     *)
Dial ==
    /\ phase = "connecting" /\ connection = "none"
    /\ connection' = "pending"
    /\ loop' = "running"
    /\ UNCHANGED <<phase, pulse>>

Open ==
    /\ loop = "running" /\ connection = "pending"
    /\ connection' = "open"
    /\ UNCHANGED <<phase, loop, pulse>>

Lose ==
    /\ loop = "running" /\ connection \in {"pending", "open"}
    /\ connection' = "gone"
    /\ UNCHANGED <<phase, loop, pulse>>

EndLoop ==
    /\ loop = "running"
    /\ loop' = "over"
    /\ UNCHANGED <<phase, connection, pulse>>

-----------------------------------------------------------------------------
(* The heartbeat starts at most once, on the open connection; it is told   *)
(* to stop only by a main thread that stops, and never told to go on.      *)
StartPulse ==
    /\ loop = "running" /\ connection = "open" /\ pulse = "none"
    /\ pulse' = "beating" \/ (Stopping /\ pulse' = "told")
    /\ UNCHANGED <<phase, connection, loop>>

TellPulse ==
    /\ Stopping /\ pulse = "beating"
    /\ pulse' = "told"
    /\ UNCHANGED <<phase, connection, loop>>

JoinPulse ==
    /\ Stopping /\ pulse = "told"
    /\ pulse' = "joined"
    /\ UNCHANGED <<phase, connection, loop>>

-----------------------------------------------------------------------------
(* The main thread.                                                        *)
Advance(from, to) ==
    /\ phase = from
    /\ phase' = to
    /\ UNCHANGED <<connection, loop, pulse>>

Serve   == connection = "open" /\ loop = "running" /\ Advance("connecting", "serving")
GiveUp  == Advance("connecting", "quitting")
Stop    == Advance("serving", "stopping")
Report  == loop = "over" /\ Advance("stopping", "reporting")
Leave   == Advance("reporting", "leaving")

Exit == /\ loop # "running" /\ pulse \in {"none", "joined"}
        /\ Advance("leaving", "exited") \/ Advance("quitting", "exited")

(* Only a program that never had a session can die of its heartbeat.       *)
Terminate == /\ loop = "over" /\ pulse \in {"beating", "told"}
             /\ Advance("quitting", "terminated")

Next == \/ Dial \/ Open \/ Lose \/ EndLoop
        \/ StartPulse \/ TellPulse \/ JoinPulse
        \/ Serve \/ GiveUp \/ Stop \/ Report \/ Leave \/ Exit \/ Terminate

Spec == Init /\ [][Next]_<<phase, connection, loop, pulse>>
=============================================================================
