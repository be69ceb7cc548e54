---------------------------- MODULE PeriManCalls ----------------------------
(***************************************************************************)
(* The calls of perimanSetPinBus in progress.  The manager takes no lock:   *)
(* it reads the pin's old assignment, calls the driver that owns it, and    *)
(* only then overwrites the pin with what it was asked for.  The driver's   *)
(* deinit callback is arbitrary code that calls perimanClearPinBus for its  *)
(* pins, the very pin being taken included, so calls nest: each caller has  *)
(* a stack of them.                                                         *)
(*                                                                          *)
(* owner[p] is history: the assignment of p whose driver has not yet been   *)
(* told that it lost the pin (None when there is nothing to tell).          *)
(***************************************************************************)
EXTENDS PeriMan, Integers, Sequences

CONSTANTS
  Callers,   \* the tasks that attach and detach peripherals
  MaxDepth   \* bound: how deep deinit callbacks may re-enter the manager

ASSUME MaxDepthAssumption == MaxDepth \in Nat \ {0}

VARIABLES
  stack,   \* stack[c]: c's perimanSetPinBus calls, the innermost last
  owner    \* history

vars == <<pins, deinit_functions, stack, owner>>

None == <<"INIT", NULL>>

Calls == [pin : ValidPins, type : BusTypes, bus : Buses \cup {NULL},
          otype : BusTypes, obus : Buses \cup {NULL}, pc : {"callback", "commit"}]

TypeOK ==
  /\ PeriManTypeOK
  /\ stack \in [Callers -> Seq(Calls)]
  /\ owner \in [ValidPins -> BusTypes \X (Buses \cup {NULL})]

Init ==
  /\ PeriManInit
  /\ stack = [c \in Callers |-> <<>>]
  /\ owner = [p \in ValidPins |-> None]

-----------------------------------------------------------------------------
Idle(c) == stack[c] = <<>>
Top(c)  == stack[c][Len(stack[c])]
Runs(c, pc) == ~Idle(c) /\ Top(c).pc = pc

Push(c, call) == stack' = [stack EXCEPT ![c] = Append(@, call)]
Pop(c) == stack' = [stack EXCEPT ![c] = SubSeq(@, 1, Len(@) - 1)]

NewCall(p, t, b, pc) ==
  [pin |-> p, type |-> t, bus |-> b,
   otype |-> pins[p].type, obus |-> pins[p].bus, pc |-> pc]

(* The calls a caller may make: anything from the sketch, only              *)
(* perimanClearPinBus from inside a deinit callback.                        *)
MayCall(c, t, b) ==
  \/ Idle(c)
  \/ Runs(c, "callback") /\ Len(stack[c]) < MaxDepth /\ t = "INIT" /\ b = NULL

(* Argument checks, the same-assignment shortcut and the missing callback   *)
(* all return without touching the tables.                                  *)
SetPinBusReturnsEarly(c, p, t, b) ==
  /\ MayCall(c, t, b)
  /\ ~RefusesArguments(p, t, b) => AlreadyAssigned(p, t, b) \/ HasNoDeinit(p)
  /\ UNCHANGED vars

(* The old assignment belongs to a driver: its callback starts.             *)
SetPinBusCallsDriver(c, p, t, b) ==
  /\ MayCall(c, t, b)
  /\ ~RefusesArguments(p, t, b)
  /\ ~AlreadyAssigned(p, t, b)
  /\ CallsDriver(p)
  /\ Push(c, NewCall(p, t, b, "callback"))
  /\ UNCHANGED <<pins, deinit_functions, owner>>

(* Nobody to call: the pin is free, or the type's callback was cleared, and *)
(* then whoever cleared it has taken over the driver's duty.                *)
SetPinBusNeedsNoDriver(c, p, t, b) ==
  /\ MayCall(c, t, b)
  /\ ~RefusesArguments(p, t, b)
  /\ ~AlreadyAssigned(p, t, b)
  /\ ~HasNoDeinit(p)
  /\ ~CallsDriver(p)
  /\ Push(c, NewCall(p, t, b, "commit"))
  /\ owner' = [owner EXCEPT ![p] = None]
  /\ UNCHANGED <<pins, deinit_functions>>

(* Mutant: the callback answers true and the pin is left to it. *)
DeinitSucceedsAndReturns(c) ==
  /\ Runs(c, "callback")
  /\ Pop(c)
  /\ owner' = [owner EXCEPT ![Top(c).pin] =
                 IF @ = <<Top(c).otype, Top(c).obus>> THEN None ELSE @]
  /\ UNCHANGED <<pins, deinit_functions>>

(* The callback answers true: from here on the driver knows.                *)
DeinitSucceeds(c) ==
  /\ Runs(c, "callback")
  /\ stack' = [stack EXCEPT ![c][Len(stack[c])].pc = "commit"]
  /\ owner' = [owner EXCEPT ![Top(c).pin] =
                 IF @ = <<Top(c).otype, Top(c).obus>> THEN None ELSE @]
  /\ UNCHANGED <<pins, deinit_functions>>

(* Mutant: the answer of the callback is ignored. *)
DeinitFailsIgnored(c) ==
  /\ Runs(c, "callback")
  /\ stack' = [stack EXCEPT ![c][Len(stack[c])].pc = "commit"]
  /\ UNCHANGED <<pins, deinit_functions, owner>>

DeinitFails(c) ==
  /\ Runs(c, "callback")
  /\ Pop(c)
  /\ UNCHANGED <<pins, deinit_functions, owner>>

Commit(c) ==
  /\ Runs(c, "commit")
  /\ Assign(Top(c).pin, Top(c).type, Top(c).bus)
  /\ owner' = [owner EXCEPT ![Top(c).pin] =
                 IF Top(c).bus = NULL THEN None ELSE <<Top(c).type, Top(c).bus>>]
  /\ Pop(c)
  /\ UNCHANGED deinit_functions

SetExtraType(c, p) ==
  /\ Idle(c)
  /\ perimanSetPinBusExtraType(p, "extra")
  /\ UNCHANGED <<stack, owner>>

ChangeDeinit(c, t) ==
  /\ Idle(c)
  /\ perimanSetBusDeinit(t) \/ perimanClearBusDeinit(t)
  /\ UNCHANGED <<stack, owner>>

SetPinBus(c, p, t, b) ==
  \/ SetPinBusReturnsEarly(c, p, t, b)
  \/ SetPinBusCallsDriver(c, p, t, b)
  \/ SetPinBusNeedsNoDriver(c, p, t, b)

Next == \E c \in Callers :
  \/ \E p \in Pins, t \in BusTypes, b \in Buses \cup {NULL} : SetPinBus(c, p, t, b)
  \/ DeinitSucceeds(c)
  \/ DeinitFails(c)
  \/ Commit(c)
  \/ \E p \in Pins : SetExtraType(c, p)
  \/ \E t \in OwnedTypes : ChangeDeinit(c, t)

Spec == Init /\ [][Next]_vars

-----------------------------------------------------------------------------
Holder(p) == <<pins[p].type, pins[p].bus>>

(* A pin that nobody owns carries no bus and no leftover extra type, and a  *)
(* pin of a driver always has the bus its callback will be given: lines     *)
(* 133-136 and the reset at 157 hold together across every path.            *)
AssignmentsAreWellFormed == \A p \in ValidPins :
  /\ pins[p].type = "INIT" => pins[p] = Unassigned
  /\ pins[p].type \in DriverTypes => pins[p].bus # NULL

(* "Used to destroy bus when pin is assigned another function"              *)
(* (esp32-hal-periman.h): no pin is taken from a driver that has not been   *)
(* told, however deep the callbacks re-enter the manager on the same pin.   *)
NoSilentTakeover == [][\A p \in ValidPins :
  Holder(p)' # Holder(p) => owner[p] = None]_vars

(* A bus is on a pin only while its driver still expects to be asked for    *)
(* it, so a deinit callback never gets a bus that was already released.     *)
(* The exception is the instant between the callback and the overwrite.     *)
NoReleasedBusOnPin == \A p \in ValidPins :
  \/ pins[p].bus = NULL
  \/ owner[p] = Holder(p)
  \/ \E c \in Callers : Runs(c, "commit") /\ Top(c).pin = p
=============================================================================
