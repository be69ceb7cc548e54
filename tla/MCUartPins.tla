----------------------------- MODULE MCUartPins -----------------------------
(* Instances of UartPins for TLC. *)
EXTENDS UartPins, TLC

(* Two pins, GPIO 0 among them, and two UARTs.                              *)
MCUarts   == {"uart0", "uart1"}
MCPins    == 0 .. 1
MCBuses   == MCUarts \cup {Foreign}
MCRoles2  == <<"RX", "TX">>
MCTypes2  == {"RX", "TX", "I2C"}

(* Boards define RX and TX, or only one of them. *)
MCDefaultPin ==
  [u \in MCUarts |-> IF u = "uart0" THEN "RX" :> 0 @@ "TX" :> -1
                                    ELSE "RX" :> -1 @@ "TX" :> 1]

(* Every request, and the one that moves RX onto the TX pin of uart1. *)
MCWants2 == [{"RX", "TX"} -> {-1} \cup MCPins]
MCWantsTaken == {[RX |-> 1, TX |-> -1]}

MCEveryRequest == [t \in Tasks |-> {"begin", "setPins", "end", "claim"}]
MCEndWhileSetPins == [t \in Tasks |-> IF t = "t1" THEN {"setPins"} ELSE {"end"}]
=============================================================================
