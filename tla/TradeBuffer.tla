----------------------------- MODULE TradeBuffer ----------------------------
(***************************************************************************)
(* The buffer of trades waiting for the book update that explains them     *)
(* (src/utils/trade_buffer.cpp).  The code nests two maps, by timestamp    *)
(* and then by price; an inner map is created only by the insertion of its *)
(* first entry and erased with its last one, so the buffer is modelled as  *)
(* one function from the pairs <<timestamp, price>> that have an entry.    *)
(***************************************************************************)
EXTENDS ShadowBook

CONSTANTS Timestamps, \* the exchange timestamps the feed can carry
          TradeIds    \* the trade ids the feed can carry; 0 stands for "no id"

ASSUME TimestampsAssumption == Timestamps \subseteq Nat
ASSUME TradeIdsAssumption   == TradeIds \subseteq Nat

TradeEntry == [qty : Qty, trade_id : TradeIds \cup {0}]
IsTradeBuffer(buffer) == /\ DOMAIN buffer \subseteq Timestamps \X Prices
                         /\ buffer \in [DOMAIN buffer -> TradeEntry]

EmptyBuffer == [k \in {} |-> [qty |-> 0, trade_id |-> 0]]

(* add(): quantities at one timestamp and price merge (a uint32_t sum) and *)
(* the merged entry keeps the id of the latest trade only.                 *)
AddTrade(buffer, ts, price, qty, trade_id) ==
    LET key == <<ts, price>>
        old == IF key \in DOMAIN buffer THEN buffer[key].qty ELSE 0
    IN  [k \in DOMAIN buffer \cup {key} |->
            IF k = key
            THEN [qty |-> (old + qty) % QtyMod, trade_id |-> trade_id]
            ELSE buffer[k]]

(* Mutants of consume(): the entry keeps its quantity; the exhausted entry *)
(* is not erased.                                                          *)
ConsumeTradeTwice(buffer, ts, price, qty) ==
    LET key == <<ts, price>>
    IN  IF key \notin DOMAIN buffer
        THEN [buffer |-> buffer, qty |-> 0, trade_id |-> 0]
        ELSE [buffer   |-> buffer,
              qty      |-> IF buffer[key].qty < qty THEN buffer[key].qty ELSE qty,
              trade_id |-> buffer[key].trade_id]

ConsumeTradeNoErase(buffer, ts, price, qty) ==
    LET key == <<ts, price>>
    IN  IF key \notin DOMAIN buffer
        THEN [buffer |-> buffer, qty |-> 0, trade_id |-> 0]
        ELSE LET available == IF buffer[key].qty < qty THEN buffer[key].qty ELSE qty
             IN  [buffer   |-> [buffer EXCEPT ![key].qty = @ - available],
                  qty      |-> available,
                  trade_id |-> buffer[key].trade_id]

(* consume(): take up to qty from the entry at exactly this timestamp and  *)
(* price; `qty` of the result is the return value, `trade_id` the value of *)
(* out_trade_id, which the caller initialised to 0.                        *)
ConsumeTrade(buffer, ts, price, qty) ==
    LET key == <<ts, price>>
    IN  IF key \notin DOMAIN buffer
        THEN [buffer |-> buffer, qty |-> 0, trade_id |-> 0]
        ELSE LET entry     == buffer[key]
                 available == IF entry.qty < qty THEN entry.qty ELSE qty
             IN  [buffer   |-> IF entry.qty = available
                               THEN [k \in DOMAIN buffer \ {key} |-> buffer[k]]
                               ELSE [buffer EXCEPT ![key].qty = @ - available],
                  qty      |-> available,
                  trade_id |-> entry.trade_id]

(* Mutant: the flush spares the timestamp just before ts.                  *)
FlushTradesBeforeLate(buffer, ts) ==
    [k \in {key \in DOMAIN buffer : key[1] >= ts - 1} |-> buffer[k]]

(* flush_before(): drop every entry with an earlier timestamp.             *)
FlushTradesBefore(buffer, ts) ==
    [k \in {key \in DOMAIN buffer : key[1] >= ts} |-> buffer[k]]
=============================================================================
