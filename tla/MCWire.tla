------------------------------- MODULE MCWire -------------------------------
(* Instances of Wire for TLC. *)
EXTENDS Wire, TLC

MCPorts == {"i2c0", "i2c1"}
MCPins  == 1 .. 3
MCBuses == MCPorts \cup {Gpio}

(* The two ports are begun on neighbouring pins: they share pin 2.          *)
MCWants == [b \in MCPorts |-> IF b = "i2c0" THEN {[sda |-> 1, scl |-> 2]}
                                            ELSE {[sda |-> 2, scl |-> 3]}]

(* Transactions on one of them; the other one stops when it loses the pin.  *)
MCRequests == [b \in MCPorts |->
  IF b = "i2c0" THEN {"begin", "end", "setClock", "transmit", "request"} ELSE {"begin"}]
Symmetry == Permutations(Tasks) \cup Permutations(Devices)
=============================================================================
