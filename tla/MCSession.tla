------------------------------ MODULE MCSession -----------------------------
(***************************************************************************)
(* Model-checking instance of Session: a missing file, one that ends in an *)
(* error after each section, and complete files with every combination of  *)
(* given and missing settings.                                             *)
(***************************************************************************)
EXTENDS SessionLifecycle

Settings    == {Missing, 0, 2, 40000} \* the last one is negative as an int
Connections == {Missing} \cup [heartbeat_interval_ms : Settings,
                               max_reconnect_attempts : Settings]

MCFiles == [sections : {3}, use_testnet : {Missing}, keys : {{"testnet"}},
            connection : Connections, instruments : {0, 2}, channels : {1}]
      \cup [sections : 0 .. 2, use_testnet : {FALSE}, keys : {{"testnet"}},
            connection : {[heartbeat_interval_ms |-> 6, max_reconnect_attempts |-> 1]},
            instruments : {2}, channels : {1}]
=============================================================================
