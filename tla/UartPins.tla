------------------------------ MODULE UartPins ------------------------------
(***************************************************************************)
(* The UARTs and the Peripheral Manager: how Serial.begin(), setPins() and  *)
(* end() attach pins (cores/esp32/esp32-hal-uart.c and HardwareSerial.cpp), *)
(* how the manager's callbacks take them away again, and which locks are    *)
(* held meanwhile.                                                          *)
(*                                                                          *)
(* A task works through an agenda: the operations it still has to do, the   *)
(* next one first.  Calling a function puts the function's own operations   *)
(* in front, so an agenda is a call stack whose frames are the rests of     *)
(* their functions.  result is what the last function returned.             *)
(*                                                                          *)
(* A pin's bus is the UART it serves, so bus and bus_num say the same.  The *)
(* IDF driver is external: installed or not, and it may refuse.             *)
(***************************************************************************)
EXTENDS PeriMan, Integers, Sequences

CONSTANTS
  Tasks,
  Uarts,        \* those with a HardwareSerial object
  Roles,        \* in the order the code treats them, of <<"RX", "TX", "CTS", "RTS">>
  Foreign,      \* the bus of some other driver, whose type is "I2C"
  DefaultPin,   \* DefaultPin[u][r]: RX1, TX1, ..., for RX and TX
  Wants,        \* bound: the pins a sketch asks for, by role
  Requests      \* bound: what each task does, of "begin", "setPins", "end", "claim"

RoleSet == {Roles[i] : i \in 1 .. Len(Roles)}
NoPin   == -1      \* UART_PIN_NO_CHANGE and "not attached"

ASSUME UartsAssumption ==
  /\ Roles \in Seq(STRING)
  /\ ValidPins = Pins /\ Pins \subseteq Nat
  /\ \A i, j \in 1 .. Len(Roles) : Roles[i] = Roles[j] => i = j
  /\ {"RX", "TX"} \subseteq RoleSet /\ "I2C" \notin RoleSet
  /\ DriverTypes = RoleSet \cup {"I2C"}
  /\ Buses = Uarts \cup {Foreign} /\ Foreign \notin Uarts
  /\ DefaultPin \in [Uarts -> [{"RX", "TX"} -> Pins \cup {NoPin}]]
  /\ Requests \in [Tasks -> SUBSET {"begin", "setPins", "end", "claim"}]
  /\ Wants \subseteq [RoleSet -> Pins \cup {NoPin}]

VARIABLES
  uart,         \* uart[u][r]: _rxPin, _txPin, _ctsPin, _rtsPin
  installed,    \* the UARTs whose IDF driver is installed
  registered,   \* the UARTs in uart_instances
  lock,         \* the mutexes: "none" (not created), "free", or the holder
  agenda,       \* agenda[t]: what task t still has to do
  local         \* local[t]: the local variables of t's outermost call

vars == <<pins, deinit_functions, uart, installed, registered, lock, agenda, local>>

HalLocks == {<<"hal", u>> : u \in Uarts}    \* uart_t.lock
Locks    == HalLocks \cup {<<"serial", u>> : u \in Uarts}    \* HardwareSerial::_lock

Op(what, u, r, p) == [op |-> what, u |-> u, role |-> r, pin |-> p]
ForUart(what, u) == Op(what, u, "INIT", NoPin)

Detached == [u \in Uarts |-> [r \in RoleSet |-> NoPin]]

NoCall == [fn |-> "none", u |-> NULL, want |-> [r \in RoleSet |-> NoPin], attach |-> {},
           victims |-> {}, muted |-> {}, had |-> Detached, ok |-> TRUE, result |-> TRUE]

Init ==
  /\ PeriManInit
  /\ uart = Detached
  /\ installed = {} /\ registered = {}
  /\ lock = [l \in Locks |-> IF l \in HalLocks THEN "none" ELSE "free"]
  /\ agenda = [t \in Tasks |-> <<>>]
  /\ local = [t \in Tasks |-> NoCall]

-----------------------------------------------------------------------------
Idle(t) == agenda[t] = <<>>
Now(t) == agenda[t][1]
Does(t, what) == ~Idle(t) /\ Now(t).op = what

(* The next operation calls these; or it is done, with a result.            *)
Calls(t, ops) == agenda' = [agenda EXCEPT ![t] = ops \o Tail(@)]
Return(t, b) == /\ agenda' = [agenda EXCEPT ![t] = Tail(@)]
                /\ local' = [local EXCEPT ![t].result = b]
Done(t) == Calls(t, <<>>)

ForRoles(what, u, p(_)) ==
  [i \in 1 .. Len(Roles) |-> Op(what, u, Roles[i], p(Roles[i]))]

unchangedPeriMan == UNCHANGED <<pins, deinit_functions>>
unchangedUarts == UNCHANGED <<uart, installed, registered>>

-----------------------------------------------------------------------------
(* Mutexes, not recursive; nothing is locked before uartBegin() made one.   *)
Lock(t, l) ==
  /\ lock[l] \in {"none", "free"}
  /\ lock' = [lock EXCEPT ![l] = IF @ = "none" THEN @ ELSE t]
  /\ Done(t)
  /\ unchangedPeriMan /\ unchangedUarts /\ UNCHANGED local

Unlock(t, l) ==
  /\ lock' = [lock EXCEPT ![l] = IF @ = "none" THEN @ ELSE "free"]
  /\ Done(t)
  /\ unchangedPeriMan /\ unchangedUarts /\ UNCHANGED local

LockStep(t) ==
  \/ Does(t, "lock") /\ Lock(t, <<"hal", Now(t).u>>)
  \/ Does(t, "unlock") /\ Unlock(t, <<"hal", Now(t).u>>)
  \/ Does(t, "lockSerial") /\ Lock(t, <<"serial", Now(t).u>>)
  \/ Does(t, "unlockSerial") /\ Unlock(t, <<"serial", Now(t).u>>)

-----------------------------------------------------------------------------
(* The Peripheral Manager: perimanSetPinBus(pin, role, u) and               *)
(* perimanClearPinBus(pin).                                                 *)
SetPin(p, r, b) == Op("setBus", b, r, p)
ClearPin(p) == Op("setBus", NULL, "INIT", p)

SetBusReturns(t) ==
  /\ Does(t, "setBus")
  /\ LET o == Now(t)
     IN \/ RefusesArguments(o.pin, o.role, o.u) /\ Return(t, FALSE)
        \/ /\ ~RefusesArguments(o.pin, o.role, o.u)
           /\ AlreadyAssigned(o.pin, o.role, o.u)
           /\ Return(t, TRUE)
        \/ /\ ~RefusesArguments(o.pin, o.role, o.u)
           /\ ~AlreadyAssigned(o.pin, o.role, o.u)
           /\ HasNoDeinit(o.pin)
           /\ Return(t, FALSE)
  /\ unchangedPeriMan /\ unchangedUarts /\ UNCHANGED lock

SetBusGoesOn(t) ==
  /\ Does(t, "setBus")
  /\ LET o == Now(t)
         assign == [o EXCEPT !.op = "assign"]
     IN /\ ~RefusesArguments(o.pin, o.role, o.u)
        /\ ~AlreadyAssigned(o.pin, o.role, o.u)
        /\ ~HasNoDeinit(o.pin)
        /\ Calls(t, IF CallsDriver(o.pin)
                    THEN <<Op("callback", pins[o.pin].bus, pins[o.pin].type, NoPin), assign>>
                    ELSE <<assign>>)
  /\ local' = [local EXCEPT ![t].result = TRUE]
  /\ unchangedPeriMan /\ unchangedUarts /\ UNCHANGED lock

AssignPin(t) ==
  /\ Does(t, "assign")
  /\ IF local[t].result THEN Assign(Now(t).pin, Now(t).role, Now(t).u)
                        ELSE UNCHANGED pins
  /\ Done(t)
  /\ unchangedUarts /\ UNCHANGED <<deinit_functions, lock, local>>

-----------------------------------------------------------------------------
(* The callbacks _uartDetachBus_RX, _TX, _CTS and _RTS, and those of other  *)
(* drivers, which give up their pin or refuse.                              *)
Other(r) == IF r = "RX" THEN "TX" ELSE "RX"

HardwareSerialEnd(v) == IF v \in registered THEN <<ForUart("end", v)>> ELSE <<>>

(* Mutants: it takes the last pin for granted; it keeps the pin.            *)
LastOfAny(v, r) == r \in {"RX", "TX"}
GiveUpNothing(v, r) == <<>>

IsLast(v, r) == r \in {"RX", "TX"} /\ uart[v][Other(r)] = NoPin
GiveUp(v, r) == <<Op("detach", v, r, uart[v][r])>>

Callback(t) ==
  /\ Does(t, "callback")
  /\ Now(t).role \in RoleSet
  /\ LET r == Now(t).role
         v == Now(t).u
     IN \/ /\ uart[v][r] = NoPin
           /\ Return(t, TRUE)
        \/ /\ uart[v][r] # NoPin
           /\ IsLast(v, r)
           /\ Calls(t, HardwareSerialEnd(v) \o <<ForUart("true", v)>>)
           /\ UNCHANGED local
        \/ /\ uart[v][r] # NoPin
           /\ ~IsLast(v, r)
           /\ Calls(t, GiveUp(v, r))
           /\ UNCHANGED local
  /\ unchangedPeriMan /\ unchangedUarts /\ UNCHANGED lock

ReturnTrue(t) ==
  /\ Does(t, "true")
  /\ Return(t, TRUE)
  /\ unchangedPeriMan /\ unchangedUarts /\ UNCHANGED lock

ForeignCallback(t) ==
  /\ Does(t, "callback")
  /\ Now(t).role \notin RoleSet
  /\ \E b \in BOOLEAN : Return(t, b)
  /\ unchangedPeriMan /\ unchangedUarts /\ UNCHANGED lock

-----------------------------------------------------------------------------
(* _uartDetachPins(), one role of it.                                       *)
Detach(t) ==
  /\ Does(t, "detach")
  /\ LET o == Now(t)
     IN IF o.pin # NoPin /\ uart[o.u][o.role] = o.pin /\ pins[o.pin].type = o.role
        THEN /\ uart' = [uart EXCEPT ![o.u][o.role] = NoPin]
             /\ Calls(t, <<ClearPin(o.pin)>>)
             /\ UNCHANGED local
        ELSE Return(t, TRUE) /\ UNCHANGED uart
  /\ unchangedPeriMan /\ UNCHANGED <<installed, registered, lock>>

(* _uartAttachPins(), one role of it: free the pin, connect it, claim it,   *)
(* note it.                                                                 *)
Attach(t) ==
  /\ Does(t, "attach")
  /\ LET o == Now(t)
         connect == [o EXCEPT !.op = "connect"]
     IN Calls(t, IF pins[o.pin].type = "INIT" THEN <<connect>>
                 ELSE <<ClearPin(o.pin), connect>>)
  /\ local' = [local EXCEPT ![t].result = TRUE]
  /\ unchangedPeriMan /\ unchangedUarts /\ UNCHANGED lock

Connect(t) ==
  /\ Does(t, "connect")
  /\ LET o == Now(t)
     IN \/ /\ local[t].result
           /\ Calls(t, <<SetPin(o.pin, o.role, o.u), [o EXCEPT !.op = "note"]>>)
           /\ UNCHANGED local
        \/ Return(t, FALSE)    \* also when _uartInternalSetPin() fails
  /\ unchangedPeriMan /\ unchangedUarts /\ UNCHANGED lock

NoteAttached(t) ==
  /\ Does(t, "note")
  /\ LET o == Now(t)
     IN IF local[t].result
        THEN /\ uart' = [uart EXCEPT ![o.u][o.role] = o.pin]
             /\ perimanSetBusDeinit(o.role)
        ELSE UNCHANGED <<uart, pins, deinit_functions>>
  /\ Done(t)
  /\ UNCHANGED <<installed, registered, lock, local>>

(* retCode &= the result of the last call *)
KeepResult(t) ==
  /\ Does(t, "and")
  /\ local' = [local EXCEPT ![t].ok = @ /\ local[t].result]
  /\ Done(t)
  /\ unchangedPeriMan /\ unchangedUarts /\ UNCHANGED lock

AndKeep == Op("and", NULL, "INIT", NoPin)

-----------------------------------------------------------------------------
(* HardwareSerial::end(), uartEnd() *)
End(t) ==
  /\ Does(t, "end")
  /\ LET u == Now(t).u
     IN Calls(t, <<ForUart("lock", u), ForUart("detachAll", u),
                   ForUart("delete", u), ForUart("unlock", u)>>)
  /\ unchangedPeriMan /\ unchangedUarts /\ UNCHANGED <<lock, local>>

DetachAll(t) ==
  /\ Does(t, "detachAll")
  /\ LET u == Now(t).u
     IN Calls(t, ForRoles("detach", u, LAMBDA r : uart[u][r]))
  /\ unchangedPeriMan /\ unchangedUarts /\ UNCHANGED <<lock, local>>

DeleteDriver(t) ==
  /\ Does(t, "delete")
  /\ installed' = installed \ {Now(t).u}
  /\ Done(t)
  /\ unchangedPeriMan /\ UNCHANGED <<uart, registered, lock, local>>

-----------------------------------------------------------------------------
(* uartSetPins(): the callbacks of all roles are muted while pins move, and *)
(* the UARTs that lost both RX and TX are ended after the mutex is given    *)
(* back.                                                                    *)
Want(t, r) == local[t].want[r]

(* Mutant: the terminations run before the mutex is given back.             *)
SetPinsStepsInside(u) ==
  <<ForUart("lock", u), ForUart("saveDeinits", u), ForUart("mute", u), ForUart("plan", u),
    ForUart("collect", u), ForUart("restore", u), ForUart("terminate", u),
    ForUart("unlock", u)>>

SetPinsSteps(u) ==
  <<ForUart("lock", u), ForUart("saveDeinits", u), ForUart("mute", u), ForUart("plan", u),
    ForUart("collect", u), ForUart("restore", u), ForUart("unlock", u),
    ForUart("terminate", u)>>

SetPins(t) ==
  /\ Does(t, "setPins")
  /\ Calls(t, SetPinsSteps(Now(t).u))
  /\ local' = [local EXCEPT ![t].ok = TRUE, ![t].victims = {}]
  /\ unchangedPeriMan /\ unchangedUarts /\ UNCHANGED lock

SaveDeinits(t) ==
  /\ Does(t, "saveDeinits")
  /\ local' = [local EXCEPT ![t].muted = {r \in RoleSet : BusDeinitIsSet(r)}]
  /\ Done(t)
  /\ unchangedPeriMan /\ unchangedUarts /\ UNCHANGED lock

Mute(t) ==
  /\ Does(t, "mute")
  /\ deinit_functions' =
       [y \in OwnedTypes |-> IF y \in RoleSet THEN "empty" ELSE deinit_functions[y]]
  /\ Done(t)
  /\ unchangedUarts /\ UNCHANGED <<pins, lock, local>>

(* What to attach is decided once, before anything is released.             *)
Plan(t) ==
  /\ Does(t, "plan")
  /\ LET u == Now(t).u
     IN /\ local' = [local EXCEPT ![t].had = uart, ![t].attach =
               {r \in RoleSet : /\ Want(t, r) # NoPin
                                /\ ~AlreadyAssigned(Want(t, r), r, u)}]
        /\ Calls(t, ForRoles("release", u, LAMBDA r : Want(t, r)) \o
                    ForRoles("attachIf", u,
                      LAMBDA r : IF r \in local'[t].attach THEN Want(t, r) ELSE NoPin))
  /\ unchangedPeriMan /\ unchangedUarts /\ UNCHANGED lock

AttachIf(t) ==
  /\ Does(t, "attachIf")
  /\ Calls(t, IF Now(t).pin = NoPin THEN <<>>
              ELSE <<[Now(t) EXCEPT !.op = "attach"], AndKeep>>)
  /\ unchangedPeriMan /\ unchangedUarts /\ UNCHANGED <<lock, local>>

(* _uartDetachConflictingPin(), then this UART's old pin.                   *)
Release(t) ==
  /\ Does(t, "release")
  /\ LET o == Now(t)
         taken == pins[o.pin]
         conflict == o.role \in local[t].attach /\ taken.type \in RoleSet
         rest == [o EXCEPT !.op = "releaseOld"]
     IN IF o.pin = NoPin THEN Done(t) /\ UNCHANGED local
        ELSE /\ Calls(t, IF conflict
                         THEN <<Op("detach", taken.bus, taken.type, o.pin), AndKeep, rest>>
                         ELSE <<rest>>)
             /\ local' = [local EXCEPT ![t].victims =
                            IF conflict THEN @ \cup ({taken.bus} \ {o.u}) ELSE @]
  /\ unchangedPeriMan /\ unchangedUarts /\ UNCHANGED lock

(* Mutant: the old pin stays attached.                                      *)
ReleaseNoOld(t) ==
  /\ Does(t, "releaseOld")
  /\ Done(t)
  /\ unchangedPeriMan /\ unchangedUarts /\ UNCHANGED <<lock, local>>

ReleaseOld(t) ==
  /\ Does(t, "releaseOld")
  /\ LET o == Now(t)
         old == uart[o.u][o.role]
     IN Calls(t, IF old \in {o.pin, NoPin} THEN <<>>
                 ELSE <<Op("detach", o.u, o.role, old), AndKeep>>)
  /\ unchangedPeriMan /\ unchangedUarts /\ UNCHANGED <<lock, local>>

LostBoth(u) == uart[u]["RX"] = NoPin /\ uart[u]["TX"] = NoPin

(* Mutant: only this UART is ended, not the one that lost its pins to it.   *)
StrandedNone(vs) == {v \in vs : FALSE}

Stranded(vs) == {v \in vs : LostBoth(v)}

Collect(t) ==
  /\ Does(t, "collect")
  /\ LET u == Now(t).u
         gaveUpBoth ==
           /\ local[t].had[u]["RX"] # NoPin \/ local[t].had[u]["TX"] # NoPin
           /\ Want(t, "RX") = NoPin /\ Want(t, "TX") = NoPin
           /\ LostBoth(u)
     IN local' = [local EXCEPT ![t].victims =
                    Stranded(@) \cup (IF gaveUpBoth THEN {u} ELSE {})]
  /\ Done(t)
  /\ unchangedPeriMan /\ unchangedUarts /\ UNCHANGED lock

(* Mutant: the callbacks stay muted.                                        *)
RestoreNothing(t) ==
  /\ Does(t, "restore")
  /\ Done(t)
  /\ unchangedPeriMan /\ unchangedUarts /\ UNCHANGED <<lock, local>>

Restore(t) ==
  /\ Does(t, "restore")
  /\ deinit_functions' = [y \in OwnedTypes |->
       IF y \in local[t].muted THEN "driver" ELSE deinit_functions[y]]
  /\ Done(t)
  /\ unchangedUarts /\ UNCHANGED <<pins, lock, local>>

Terminate(t) ==
  /\ Does(t, "terminate")
  /\ IF local[t].victims = {} THEN Return(t, local[t].ok)
     ELSE \E v \in local[t].victims :
            /\ Calls(t, HardwareSerialEnd(v) \o <<Now(t)>>)
            /\ local' = [local EXCEPT ![t].victims = @ \ {v}]
  /\ unchangedPeriMan /\ unchangedUarts /\ UNCHANGED lock

-----------------------------------------------------------------------------
(* HardwareSerial::begin() and uartBegin().  A driver that is installed is  *)
(* kept when its buffers and line parameters allow it; its pins are moved   *)
(* under the mutex, with the callbacks in force.                            *)
Begin(t) ==
  /\ Does(t, "begin")
  /\ LET u == Now(t).u
         old(r) == IF r \in {"RX", "TX"} THEN uart[u][r] ELSE NoPin
     IN /\ Calls(t, <<ForUart("lockSerial", u), ForUart("testBegin", u),
                      ForUart("unlockSerial", u)>>)
        /\ local' = [local EXCEPT ![t].want =
             [r \in RoleSet |-> IF @[r] = NoPin THEN old(r) ELSE @[r]]]
  /\ unchangedPeriMan /\ unchangedUarts /\ UNCHANGED lock

TestBegin(t) ==
  /\ Does(t, "testBegin")
  /\ LET u == Now(t).u
         default == u \notin installed /\ Want(t, "RX") = NoPin /\ Want(t, "TX") = NoPin
         pin(r) == IF uart[u][r] = NoPin THEN DefaultPin[u][r] ELSE uart[u][r]
         want == IF ~default THEN local[t].want
                 ELSE [r \in RoleSet |-> IF r \in {"RX", "TX"} THEN pin(r) ELSE NoPin]
     IN /\ Calls(t, IF want["RX"] = NoPin /\ want["TX"] = NoPin THEN <<>>
                    ELSE <<ForUart("uartBegin", u)>>)
        /\ local' = [local EXCEPT ![t].want = want, ![t].ok = TRUE]
  /\ unchangedPeriMan /\ unchangedUarts /\ UNCHANGED lock

(* The mutex is created here; the driver is kept, or it must be restarted.  *)
UartBegin(t) ==
  /\ Does(t, "uartBegin")
  /\ LET u == Now(t).u
     IN /\ lock' = [lock EXCEPT ![<<"hal", u>>] = IF @ = "none" THEN "free" ELSE @]
        /\ \/ /\ u \in installed
              /\ Calls(t, <<ForUart("lock", u), Op("move", u, "RX", Want(t, "RX")),
                            Op("move", u, "TX", Want(t, "TX")), ForUart("unlock", u),
                            ForUart("moved", u)>>)
           \/ /\ u \in installed
              /\ Calls(t, <<ForUart("end", u), ForUart("install", u)>>)
           \/ u \notin installed /\ Calls(t, <<ForUart("install", u)>>)
  /\ unchangedPeriMan /\ unchangedUarts /\ UNCHANGED local

Move(t) ==
  /\ Does(t, "move")
  /\ LET o == Now(t)
         old == uart[o.u][o.role]
     IN Calls(t, IF local[t].ok /\ o.pin > 0 /\ old # o.pin
                 THEN <<Op("detach", o.u, o.role, old), AndKeep,
                        [o EXCEPT !.op = "attach"], AndKeep>>
                 ELSE <<>>)
  /\ unchangedPeriMan /\ unchangedUarts /\ UNCHANGED <<lock, local>>

(* uartFlush(), uartSetRxTimeout(); then the object is registered.          *)
Settle(u) == <<ForUart("lock", u), ForUart("unlock", u), ForUart("register", u)>>

Moved(t) ==
  /\ Does(t, "moved")
  /\ LET u == Now(t).u
     IN Calls(t, IF local[t].ok THEN Settle(u)
                 ELSE <<ForUart("end", u), ForUart("install", u)>>)
  /\ unchangedPeriMan /\ unchangedUarts /\ UNCHANGED <<lock, local>>

Install(t) ==
  /\ Does(t, "install")
  /\ LET u == Now(t).u
     IN Calls(t, <<ForUart("lock", u), ForUart("driverInstall", u), ForUart("unlock", u),
                   ForUart("installed", u)>>)
  /\ unchangedPeriMan /\ unchangedUarts /\ UNCHANGED <<lock, local>>

DriverInstall(t) ==
  /\ Does(t, "driverInstall")
  /\ LET u == Now(t).u
     IN \/ /\ u \notin installed
           /\ installed' = installed \cup {u}
           /\ \E configured \in BOOLEAN : Return(t, configured)
        \/ Return(t, FALSE) /\ UNCHANGED installed
  /\ unchangedPeriMan /\ UNCHANGED <<uart, registered, lock>>

Installed(t) ==
  /\ Does(t, "installed")
  /\ LET u == Now(t).u
     IN Calls(t, IF local[t].result THEN <<ForUart("setPins", u), ForUart("started", u)>>
                 ELSE <<ForUart("end", u)>>)
  /\ unchangedPeriMan /\ unchangedUarts /\ UNCHANGED <<lock, local>>

Started(t) ==
  /\ Does(t, "started")
  /\ LET u == Now(t).u
     IN Calls(t, IF local[t].result THEN Settle(u)
                 ELSE <<ForUart("end", u)>>)
  /\ unchangedPeriMan /\ unchangedUarts /\ UNCHANGED <<lock, local>>

Register(t) ==
  /\ Does(t, "register")
  /\ registered' = registered \cup {Now(t).u}
  /\ Done(t)
  /\ unchangedPeriMan /\ UNCHANGED <<uart, installed, lock, local>>

-----------------------------------------------------------------------------
(* What the tasks do: Serial.begin(), setPins(), end(), and other drivers   *)
(* that claim a pin.                                                        *)
Request(t, fn, u, want, op) ==
  /\ Idle(t) /\ fn \in Requests[t]
  /\ agenda' = [agenda EXCEPT ![t] = <<op, ForUart("return", u)>>]
  /\ local' = [local EXCEPT ![t] =
                 [NoCall EXCEPT !.fn = fn, !.u = u, !.want = want, !.had = uart]]
  /\ unchangedUarts /\ UNCHANGED lock

(* Bound: no sketch asks for one pin in two roles of a UART.                *)
Allowed(want) ==
  \A r, s \in RoleSet : r # s /\ want[r] # NoPin => want[r] # want[s]

RxTx(want) == [r \in RoleSet |-> IF r \in {"RX", "TX"} THEN want[r] ELSE NoPin]

RequestBegin(t) == \E u \in Uarts, want \in Wants :
  /\ Allowed([r \in RoleSet |-> IF RxTx(want)[r] = NoPin THEN uart[u][r] ELSE want[r]])
  /\ Request(t, "begin", u, RxTx(want), ForUart("begin", u))
  /\ unchangedPeriMan
RequestSetPins(t) == \E u \in Uarts, want \in Wants :
  /\ Allowed(want)
  /\ Request(t, "setPins", u, want, ForUart("setPins", u))
  /\ unchangedPeriMan
RequestEnd(t) == \E u \in Uarts :
  Request(t, "end", u, NoCall.want, ForUart("end", u)) /\ unchangedPeriMan
Claim(t) == \E p \in Pins :
  /\ Request(t, "claim", NULL, [NoCall.want EXCEPT !["RX"] = p], SetPin(p, "I2C", Foreign))
  /\ perimanSetBusDeinit("I2C")

Returns(t) ==
  /\ Does(t, "return")
  /\ Done(t)
  /\ local' = [local EXCEPT ![t] = NoCall]
  /\ unchangedPeriMan /\ unchangedUarts /\ UNCHANGED lock

Step(t) ==
  \/ LockStep(t)
  \/ SetBusReturns(t) \/ SetBusGoesOn(t) \/ AssignPin(t)
  \/ Callback(t) \/ ReturnTrue(t) \/ ForeignCallback(t)
  \/ Detach(t) \/ Attach(t) \/ Connect(t) \/ NoteAttached(t) \/ KeepResult(t)
  \/ End(t) \/ DetachAll(t) \/ DeleteDriver(t)
  \/ SetPins(t) \/ SaveDeinits(t) \/ Mute(t) \/ Plan(t) \/ AttachIf(t) \/ Release(t)
  \/ ReleaseOld(t) \/ Collect(t) \/ Restore(t) \/ Terminate(t)
  \/ Begin(t) \/ TestBegin(t) \/ UartBegin(t) \/ Move(t) \/ Moved(t)
  \/ Install(t) \/ DriverInstall(t) \/ Installed(t) \/ Started(t) \/ Register(t)
  \/ Returns(t)

Next == \E t \in Tasks :
  Step(t) \/ RequestBegin(t) \/ RequestSetPins(t) \/ RequestEnd(t) \/ Claim(t)

Spec == Init /\ [][Next]_vars

(* Where the sketch has called begin() for every UART.                      *)
AllBegun ==
  /\ uart = [u \in Uarts |-> [r \in RoleSet |->
                IF r \in {"RX", "TX"} THEN DefaultPin[u][r] ELSE NoPin]]
  /\ pins = [p \in ValidPins |->
       IF \E u \in Uarts, r \in RoleSet : uart[u][r] = p
       THEN LET at == CHOOSE x \in Uarts \X RoleSet : uart[x[1]][x[2]] = p
            IN [type |-> at[2], bus |-> at[1], extra |-> NULL]
       ELSE Unassigned]
  /\ deinit_functions = [y \in OwnedTypes |->
                           IF y \in {"RX", "TX"} THEN "driver"
                           ELSE IF y \in RoleSet THEN "empty" ELSE "null"]
  /\ installed = Uarts /\ registered = Uarts
  /\ lock = [l \in Locks |-> "free"]
  /\ agenda = [t \in Tasks |-> <<>>]
  /\ local = [t \in Tasks |-> NoCall]

SpecBegun == AllBegun /\ [][Next]_vars

-----------------------------------------------------------------------------
TypeOK ==
  /\ PeriManTypeOK
  /\ uart \in [Uarts -> [RoleSet -> Pins \cup {NoPin}]]
  /\ installed \subseteq Uarts /\ registered \subseteq Uarts
  /\ lock \in [Locks -> {"none", "free"} \cup Tasks]

Quiet == \A t \in Tasks : Idle(t)

(* A pin the manager gives to a UART is the pin that UART believes to have, *)
(* so a callback for it detaches the right pin.                             *)
OwnedPinsAreKnown == Quiet =>
  \A p \in Pins : pins[p].type \in RoleSet => uart[pins[p].bus][pins[p].type] = p

(* A running driver works only on pins the manager gave it: none it lost to *)
(* another peripheral, a failed call or a call for another UART.            *)
DriverOwnsItsPins == Quiet =>
  \A u \in installed, r \in RoleSet :
    LET p == uart[u][r]
    IN p # NoPin => pins[p].type = r /\ pins[p].bus = u

(* "Restore peripheral manager callbacks after all pin operations": the     *)
(* owner of every pin is told when the pin is taken.                        *)
DeinitsInForce == Quiet =>
  \A p \in Pins : pins[p].type \in RoleSet => BusDeinitIsSet(pins[p].type)

Asked(t) == {local[t].want[r] : r \in RoleSet}

(* "both rx and tx pins are detached, terminate the uart driver": a driver  *)
(* is deleted by its own begin() or end(), or when both its pins were asked *)
(* for by somebody else; losing one of them never ends it.                  *)
WorkingDriverIsKept == [][\A v \in installed \ installed' : \E t \in Tasks :
  \/ local[t].fn \in {"begin", "end"} /\ local[t].u = v
  \/ \A r \in {"RX", "TX"} : local[t].had[v][r] \in Asked(t) \cup {NoPin}]_vars

(* ... and a call that succeeds leaves no driver running that lost both.    *)
UselessDriverIsEnded == [][\A t \in Tasks : (Returns(t) /\ local[t].result) =>
  \A v \in installed : LostBoth(v) =>
    local[t].had[v]["RX"] = NoPin /\ local[t].had[v]["TX"] = NoPin]_vars

(* What t cannot go on without.                                             *)
WaitsFor(t) ==
  {l \in Locks : \/ Does(t, "lock") /\ l = <<"hal", Now(t).u>>
                 \/ Does(t, "lockSerial") /\ l = <<"serial", Now(t).u>>}

(* Terminations run "AFTER releasing the mutex to avoid deadlock", and a     *)
(* begin() may "just want to change some parameters, such as baudrate, data *)
(* length, parity, stop bits or pins": no task waits for a mutex it holds   *)
(* itself, and no tasks wait for each other.                                *)
NoDeadlock == \A S \in SUBSET Tasks \ {{}} :
  \E t \in S : \A l \in WaitsFor(t) : lock[l] \notin S
=============================================================================
