---------------------------- MODULE ConfigLoader ----------------------------
(***************************************************************************)
(* The configuration (src/utils/config_loader.cpp): load_config() turns a  *)
(* configuration file into a DeribitConfig.  A file is what simdjson finds *)
(* in it, a configuration what the rest of the program reads of it: the    *)
(* names of instruments and channels are reduced to their number, an api   *)
(* key to the environment it belongs to.                                   *)
(***************************************************************************)
EXTENDS Integers

CONSTANTS Missing, \* stands for a key that is absent or of another type
          IntMod   \* 2^32 in the code: the number of values of type int

ASSUME IntModAssumption  == IntMod \in Nat \ {0}

Environment == {"testnet", "mainnet"}
Setting     == Int \cup {Missing}
Connection  == [heartbeat_interval_ms : Setting, max_reconnect_attempts : Setting]

(* What is absent is none of the values that can be present.               *)
ASSUME MissingAssumption ==
    Missing \notin Int /\ Missing \notin BOOLEAN /\ Missing \notin Connection

(* `sections` tells how many of the three sections are read before the end *)
(* (3) or before an error: none if the file cannot be opened or has no     *)
(* "deribit" object.  `keys` holds the environments that have an api key.  *)
(* The reconnect delay of the file is left out: it is parsed and dropped.  *)
File == [sections : 0 .. 3, use_testnet : BOOLEAN \cup {Missing},
         keys : SUBSET Environment, connection : Connection \cup {Missing},
         instruments : Nat, channels : Nat]

DeribitConfig == [use_testnet : BOOLEAN, credentials : Environment \cup {"none"},
                  heartbeat_interval_ms : Int, reconnect_delay_ms : Int,
                  max_reconnect_attempts : Int, instruments : Nat, channels : Nat]

(* The member initialisers of the struct.                                  *)
DefaultConfig == [use_testnet |-> TRUE, credentials |-> "none",
                  heartbeat_interval_ms |-> 10000, reconnect_delay_ms |-> 2000,
                  max_reconnect_attempts |-> 5, instruments |-> 0, channels |-> 0]

Given(setting, default) == IF setting = Missing THEN default ELSE setting

-----------------------------------------------------------------------------
(* The three sections, in the order they are read.                         *)
ReadCredentials(config, file) ==
    LET use_testnet == IF file.use_testnet = Missing THEN TRUE ELSE file.use_testnet
        environment == IF use_testnet THEN "testnet" ELSE "mainnet"
    IN  [config EXCEPT !.use_testnet = use_testnet,
                       !.credentials = IF environment \in file.keys
                                       THEN environment ELSE @]

(* All three settings are copied from `heartbeat`.                         *)
ReadConnection(config, file) ==
    IF file.connection = Missing
    THEN config
    ELSE LET heartbeat == file.connection.heartbeat_interval_ms
         IN  [config EXCEPT !.heartbeat_interval_ms  = Given(heartbeat, 10000),
                            !.reconnect_delay_ms     = Given(heartbeat, 2000),
                            !.max_reconnect_attempts = Given(heartbeat, 5)]

ReadSubscriptions(config, file) ==
    [config EXCEPT !.instruments = file.instruments, !.channels = file.channels]

(* load_config(): what was read before an error is kept.                   *)
Load(file) ==
    LET credentials == ReadCredentials(DefaultConfig, file)
        connection  == ReadConnection(credentials, file)
    IN  CASE file.sections = 0 -> DefaultConfig
          [] file.sections = 1 -> credentials
          [] file.sections = 2 -> connection
          [] OTHER -> ReadSubscriptions(connection, file)

(* The conversion of an int64_t setting to an int parameter.               *)
ToInt(setting) ==
    LET low == setting % IntMod
    IN  IF 2 * low < IntMod THEN low ELSE low - IntMod
=============================================================================
