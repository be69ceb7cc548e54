------------------------------ MODULE PeriMan ------------------------------
(***************************************************************************)
(* The Peripheral Manager's tables (cores/esp32/esp32-hal-periman.c): which *)
(* peripheral owns each GPIO, and which function each kind of bus wants to  *)
(* have called when one of its pins is given to somebody else.              *)
(*                                                                          *)
(* This module is the data and the decisions; PeriManCalls turns one call   *)
(* of perimanSetPinBus into the steps it takes, UartPins composes them with *)
(* the UART driver.  bus_num and bus_channel are determined by the bus in   *)
(* every driver and are left out.                                           *)
(***************************************************************************)
CONSTANTS
  Pins,         \* every pin number a caller may pass
  ValidPins,    \* those in SOC_GPIO_VALID_GPIO_MASK
  DriverTypes,  \* the ESP32_BUS_TYPE_* above ESP32_BUS_TYPE_GPIO
  Buses,        \* the non-NULL bus pointers drivers pass
  NULL

ASSUME PinsAssumption == ValidPins \subseteq Pins
ASSUME TypesAssumption == {"INIT", "GPIO"} \cap DriverTypes = {}
ASSUME NullAssumption == NULL \notin Buses

VARIABLES
  pins,              \* pins[p]: what the manager believes p is used for
  deinit_functions   \* deinit_functions[t]: "null", "empty" or "driver"

perimanVars == <<pins, deinit_functions>>

-----------------------------------------------------------------------------
OwnedTypes == {"GPIO"} \cup DriverTypes
BusTypes   == {"INIT"} \cup OwnedTypes
Extras     == {NULL, "extra"}

Unassigned == [type |-> "INIT", bus |-> NULL, extra |-> NULL]

PeriManTypeOK ==
  /\ pins \in [ValidPins ->
                 [type : BusTypes, bus : Buses \cup {NULL}, extra : Extras]]
  /\ deinit_functions \in [OwnedTypes -> {"null", "empty", "driver"}]

PeriManInit ==
  /\ pins = [p \in ValidPins |-> Unassigned]
  /\ deinit_functions = [t \in OwnedTypes |-> "null"]

-----------------------------------------------------------------------------
(* The decisions of perimanSetPinBus, in the order the function takes them. *)

RefusesArguments(p, t, b) ==
  \/ p \notin ValidPins
  \/ t \in DriverTypes /\ b = NULL
  \/ t = "INIT" /\ b # NULL

AlreadyAssigned(p, t, b) == pins[p].type = t /\ pins[p].bus = b

HasNoDeinit(p) ==
  pins[p].bus # NULL /\ deinit_functions[pins[p].type] = "null"

CallsDriver(p) ==
  pins[p].bus # NULL /\ deinit_functions[pins[p].type] = "driver"

(* Mutant: the two arguments are stored the wrong way round. *)
AssignSwapped(p, t, b) ==
  pins' = [pins EXCEPT ![p] = [type |-> b, bus |-> t, extra |-> NULL]]

(* Mutant: the extra type of the previous owner is not cleared. *)
AssignKeepsExtra(p, t, b) ==
  pins' = [pins EXCEPT ![p].type = t, ![p].bus = b]

Assign(p, t, b) ==
  pins' = [pins EXCEPT ![p] = [type |-> t, bus |-> b, extra |-> NULL]]

perimanSetPinBusExtraType(p, x) ==
  /\ p \in ValidPins
  /\ pins[p].type # "INIT"
  /\ pins' = [pins EXCEPT ![p].extra = x]
  /\ UNCHANGED deinit_functions

perimanSetBusDeinit(t) ==
  /\ deinit_functions' = [deinit_functions EXCEPT ![t] = "driver"]
  /\ UNCHANGED pins

perimanClearBusDeinit(t) ==
  /\ deinit_functions' = [deinit_functions EXCEPT ![t] = "empty"]
  /\ UNCHANGED pins

(* Queries other components decide on.  perimanGetBusDeinit answers NULL    *)
(* for a cleared (muted) type as well as for one never set.                 *)
perimanGetPinBus(p, t) == IF pins[p].type = t THEN pins[p].bus ELSE NULL

BusDeinitIsSet(t) == deinit_functions[t] = "driver"
=============================================================================
