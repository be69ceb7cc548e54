--------------------------------- MODULE I2c ---------------------------------
(***************************************************************************)
(* The I2C masters (cores/esp32/esp32-hal-i2c-ng.c) and the Peripheral      *)
(* Manager that takes their pins away.  A port's driver is guarded by the   *)
(* lock of bus[i2c_num]; the pins are guarded by nothing.  The handles of   *)
(* the devices are part of the driver.  esp32-hal-i2c.c, for IDF before     *)
(* 5.4, has the same control.  Module Wire adds the Wire objects.           *)
(*                                                                          *)
(* A task works through an agenda, the next operation first: calling a      *)
(* function puts its operations in front.  The model starts where setup()   *)
(* has begun and ended every bus once, so the locks exist, and has called   *)
(* pinMode(), so that every type of bus has its callback.                   *)
(***************************************************************************)
EXTENDS PeriMan, Integers, Sequences, FiniteSets

CONSTANTS
  Tasks,
  Ports,        \* the I2C ports, each with its Wire object
  Gpio,         \* the bus of a pin in GPIO mode
  Wants,        \* Wants[b]: the pins sketches begin port b on
  Refusing      \* bound: the ports whose IDF driver may refuse to be deleted

NoPin == -1

ASSUME I2cAssumption ==
  /\ ValidPins = Pins /\ Pins \subseteq Nat
  /\ DriverTypes = {"SDA", "SCL"}
  /\ Buses = Ports \cup {Gpio} /\ Gpio \notin Ports
  /\ \A b \in Ports : Wants[b] \subseteq {q \in [sda : Pins, scl : Pins] : q.sda # q.scl}

VARIABLES
  initialized,  \* the ports whose bus[b].initialized is set
  installed,    \* the ports whose IDF driver is installed
  bus,          \* bus[b]: the pins of a started port
  lock,         \* lock[l]: "free" or the task that holds l
  agenda,       \* agenda[t]: what task t still has to do
  local,        \* local[t]: what t's call was asked for, and its last result
  raced,        \* history: two tasks have once changed the same pin at a time
  halfStarted,  \* history: the started ports whose begin() failed, ...
  halfEnded     \* ... whose end() failed, as the IDF did not delete the driver

halVars == <<initialized, installed, bus>>
i2cVars == <<pins, deinit_functions, halVars, lock, agenda, local, raced, halfStarted, halfEnded>>

Hal(b)  == <<"hal", b>>      \* bus[b].lock
Wire(b) == <<"wire", b>>     \* TwoWire::lock
Locks   == {Hal(b) : b \in Ports} \cup {Wire(b) : b \in Ports}

NotStarted == [sda |-> NoPin, scl |-> NoPin]
NoCall == [want |-> NotStarted, device |-> NULL, result |-> TRUE]

I2cInit ==
  /\ pins = [p \in ValidPins |-> Unassigned]
  /\ deinit_functions = [y \in OwnedTypes |-> "driver"]
  /\ initialized = {} /\ installed = {}
  /\ bus = [b \in Ports |-> NotStarted]
  /\ lock = [l \in Locks |-> "free"]
  /\ agenda = [t \in Tasks |-> <<>>]
  /\ local = [t \in Tasks |-> NoCall]
  /\ raced = FALSE /\ halfStarted = {} /\ halfEnded = {}

-----------------------------------------------------------------------------
Idle(t) == agenda[t] = <<>>
Now(t) == agenda[t][1]
Does(t, what) == ~Idle(t) /\ Now(t).op = what

Op(what, b, r, p) == [op |-> what, b |-> b, role |-> r, pin |-> p]
For(what, b) == Op(what, b, "INIT", NoPin)
SetPin(p, r, b) == Op("setBus", b, r, p)
ClearPin(p) == Op("setBus", NULL, "INIT", p)

(* The next operation is replaced by these, or is done with a result.       *)
Becomes(t, ops) == agenda' = [agenda EXCEPT ![t] = ops \o Tail(@)]
Result(t, r) == local' = [local EXCEPT ![t].result = r]
Done(t) == Becomes(t, <<>>)

Changes(t, p) == \E i \in 1 .. Len(agenda[t]) :
  agenda[t][i].op = "assign" /\ agenda[t][i].pin = p
Racing == \E t, u \in Tasks : t # u /\ \E p \in Pins : Changes(t, p) /\ Changes(u, p)

unchangedPeriMan == UNCHANGED <<pins, deinit_functions>>
unchangedHal == UNCHANGED halVars
OnlyTheAgenda == unchangedPeriMan /\ unchangedHal /\ UNCHANGED lock

-----------------------------------------------------------------------------
TheLock(o) == IF o.op \in {"lockHal", "unlockHal"} THEN Hal(o.b) ELSE Wire(o.b)

Lock(t) ==
  /\ Does(t, "lockHal") \/ Does(t, "lockWire")
  /\ lock[TheLock(Now(t))] = "free"
  /\ lock' = [lock EXCEPT ![TheLock(Now(t))] = t]
  /\ Done(t)
  /\ unchangedPeriMan /\ unchangedHal /\ UNCHANGED local

Unlock(t) ==
  /\ Does(t, "unlockHal") \/ Does(t, "unlockWire")
  /\ lock' = [lock EXCEPT ![TheLock(Now(t))] = "free"]
  /\ Done(t)
  /\ local' = IF Does(t, "unlockWire") THEN [local EXCEPT ![t] = NoCall] ELSE local
  /\ unchangedPeriMan /\ unchangedHal

-----------------------------------------------------------------------------
(* perimanSetPinBus(): decide, ask the owner, overwrite.  The owner of a    *)
(* pin in GPIO mode always agrees.                                          *)
SetBus(t) ==
  /\ Does(t, "setBus")
  /\ LET o == Now(t)
         assign == [o EXCEPT !.op = "assign"]
         owner == pins[o.pin]
     IN \/ /\ AlreadyAssigned(o.pin, o.role, o.b)
           /\ Done(t) /\ Result(t, TRUE)
        \/ /\ ~AlreadyAssigned(o.pin, o.role, o.b)
           /\ owner.bus \in Ports
           /\ Becomes(t, <<For("detach", owner.bus), assign>>)
           /\ UNCHANGED local
        \/ /\ ~AlreadyAssigned(o.pin, o.role, o.b)
           /\ owner.bus \notin Ports
           /\ Becomes(t, <<assign>>) /\ Result(t, TRUE)
  /\ OnlyTheAgenda

AssignPin(t) ==
  /\ Does(t, "assign")
  /\ IF local[t].result THEN Assign(Now(t).pin, Now(t).role, Now(t).b) ELSE UNCHANGED pins
  /\ Done(t)
  /\ unchangedHal /\ UNCHANGED <<deinit_functions, lock, local>>

-----------------------------------------------------------------------------
(* i2cDeinit(), and i2cDetachBus() which looks before it takes the lock.    *)
(* Mutant: the port is stopped without its lock.                            *)
DeinitUnlocked(b) == <<For("deinit", b)>>

Deinit(b) == <<For("lockHal", b), For("deinit", b)>>

DetachBus(t) ==
  /\ Does(t, "detach")
  /\ IF Now(t).b \in initialized
     THEN Becomes(t, Deinit(Now(t).b)) /\ UNCHANGED local
     ELSE Done(t) /\ Result(t, TRUE)
  /\ OnlyTheAgenda

DeleteDriver(t) ==
  /\ Does(t, "deinit")
  /\ LET b == Now(t).b
     IN IF b \in initialized
        THEN /\ installed' = installed \ {b}
             /\ Becomes(t, <<For("uninitialize", b)>>)
             /\ UNCHANGED local
        ELSE /\ Becomes(t, <<For("unlockHal", b)>>) /\ Result(t, FALSE)
             /\ UNCHANGED installed
  /\ unchangedPeriMan /\ UNCHANGED <<initialized, bus, lock>>

(* The IDF driver refuses, and everything stays: the port is started, and   *)
(* whoever wanted its pin does not get it.                                  *)
DeleteFails(t) ==
  /\ Does(t, "deinit")
  /\ Now(t).b \in initialized \cap Refusing
  /\ Becomes(t, <<For("unlockHal", Now(t).b)>>) /\ Result(t, FALSE)
  /\ OnlyTheAgenda

(* Mutant: the pins stay registered.                                        *)
UninitializeOnly(t) ==
  /\ Does(t, "uninitialize")
  /\ initialized' = initialized \ {Now(t).b}
  /\ Becomes(t, <<For("forget", Now(t).b)>>)
  /\ unchangedPeriMan /\ UNCHANGED <<installed, bus, lock, local>>

Uninitialize(t) ==
  /\ Does(t, "uninitialize")
  /\ LET b == Now(t).b
     IN /\ initialized' = initialized \ {b}
        /\ Becomes(t, <<ClearPin(bus[b].scl), ClearPin(bus[b].sda), For("forget", b)>>)
  /\ unchangedPeriMan /\ UNCHANGED <<installed, bus, lock, local>>

ForgetPins(t) ==
  /\ Does(t, "forget")
  /\ bus' = [bus EXCEPT ![Now(t).b] = NotStarted]
  /\ Becomes(t, <<For("unlockHal", Now(t).b)>>) /\ Result(t, TRUE)
  /\ unchangedPeriMan
  /\ UNCHANGED <<initialized, installed, lock>>

-----------------------------------------------------------------------------
(* i2cInit(): every step but the first depends on the last one's result.    *)
InitFails(t) == Becomes(t, <<For("unlockHal", Now(t).b)>>) /\ Result(t, FALSE)

InitStart(t) ==
  /\ Does(t, "init")
  /\ LET b == Now(t).b
     IN IF b \in initialized
        THEN InitFails(t) /\ UNCHANGED deinit_functions
        ELSE /\ deinit_functions' = [y \in OwnedTypes |->
                  IF y \in DriverTypes THEN "driver" ELSE deinit_functions[y]]
             /\ Becomes(t, <<ClearPin(local[t].want.sda), For("clearScl", b)>>)
             /\ UNCHANGED local
  /\ unchangedHal /\ UNCHANGED <<pins, lock>>

ClearScl(t) ==
  /\ Does(t, "clearScl")
  /\ IF local[t].result
     THEN /\ Becomes(t, <<ClearPin(local[t].want.scl), For("install", Now(t).b)>>)
          /\ UNCHANGED local
     ELSE InitFails(t)
  /\ OnlyTheAgenda

Install(t) ==
  /\ Does(t, "install")
  /\ local[t].result
  /\ LET b == Now(t).b
     IN /\ initialized' = initialized \cup {b}
        /\ installed' = installed \cup {b}
        /\ bus' = [bus EXCEPT ![b] = local[t].want]
        /\ Becomes(t, <<SetPin(local[t].want.sda, "SDA", b), For("setScl", b)>>)
  /\ unchangedPeriMan /\ UNCHANGED <<lock, local>>

NotInstalled(t) ==    \* a pin is not given up, or the driver refuses
  /\ Does(t, "install")
  /\ InitFails(t)
  /\ OnlyTheAgenda

(* Mutant: a failed start is undone with the lock held.                     *)
UndoLocked(b) == <<For("detach", b), For("fail", b), For("unlockHal", b)>>

Undo(b) == <<For("unlockHal", b), For("detach", b), For("fail", b)>>

SetScl(t) ==
  /\ Does(t, "setScl")
  /\ LET b == Now(t).b
     IN Becomes(t, IF local[t].result
                   THEN <<SetPin(local[t].want.scl, "SCL", b), For("registered", b)>>
                   ELSE Undo(b))
  /\ UNCHANGED local /\ OnlyTheAgenda

Registered(t) ==
  /\ Does(t, "registered")
  /\ LET b == Now(t).b
     IN Becomes(t, IF local[t].result THEN <<For("unlockHal", b)>> ELSE Undo(b))
  /\ UNCHANGED local /\ OnlyTheAgenda

Fail(t) ==
  /\ Does(t, "fail")
  /\ Done(t) /\ Result(t, FALSE)
  /\ OnlyTheAgenda

(* t is undoing its own start of b.                                         *)
Undoes(t, b) == \E i \in 1 .. Len(agenda[t]) :
  agenda[t][i].op = "fail" /\ agenda[t][i].b = b

-----------------------------------------------------------------------------
(* i2cWrite(), i2cRead() and i2cWriteReadNonStop(): the bus is used with    *)
(* the port's lock held.                                                    *)
Transfer(b) == <<For("lockHal", b), For("transfer", b)>>

StartTransfer(t) ==
  /\ Does(t, "transfer")
  /\ LET b == Now(t).b
     IN IF b \in initialized
        THEN Becomes(t, <<For("onTheBus", b)>>) /\ UNCHANGED local
        ELSE Becomes(t, <<For("unlockHal", b)>>) /\ Result(t, FALSE)
  /\ OnlyTheAgenda

EndTransfer(t) ==    \* acknowledged, or not
  /\ Does(t, "onTheBus")
  /\ Becomes(t, <<For("unlockHal", Now(t).b)>>)
  /\ \E acknowledged \in BOOLEAN : Result(t, acknowledged)
  /\ OnlyTheAgenda

(* i2cSetClock(): the timing is changed with the port's lock held.          *)
SetClock(b) == <<For("lockHal", b), For("unlockHal", b)>>

-----------------------------------------------------------------------------
(* pinMode(): any pin may become a plain GPIO.                              *)
Claim(t, p) ==
  /\ Idle(t)
  /\ pins[p].type # "GPIO"
  /\ deinit_functions' = [deinit_functions EXCEPT !["GPIO"] = "driver"]
  /\ agenda' = [agenda EXCEPT ![t] = <<ClearPin(p), Op("gpio", Gpio, "GPIO", p)>>]
  /\ unchangedHal /\ UNCHANGED <<pins, lock, local>>

ClaimCleared(t) ==
  /\ Does(t, "gpio")
  /\ Becomes(t, IF local[t].result THEN <<SetPin(Now(t).pin, "GPIO", Gpio)>> ELSE <<>>)
  /\ Result(t, TRUE) /\ OnlyTheAgenda

I2cStep(t) ==
  \/ Lock(t) \/ Unlock(t) \/ SetBus(t) \/ AssignPin(t)
  \/ DetachBus(t) \/ DeleteDriver(t) \/ DeleteFails(t) \/ Uninitialize(t) \/ ForgetPins(t)
  \/ InitStart(t) \/ ClearScl(t) \/ Install(t) \/ NotInstalled(t)
  \/ SetScl(t) \/ Registered(t) \/ Fail(t)
  \/ StartTransfer(t) \/ EndTransfer(t) \/ ClaimCleared(t)

-----------------------------------------------------------------------------
I2cTypeOK ==
  /\ PeriManTypeOK
  /\ initialized \subseteq Ports /\ installed \subseteq Ports
  /\ bus \in [Ports -> [sda : Pins \cup {NoPin}, scl : Pins \cup {NoPin}]]
  /\ lock \in [Locks -> {"free"} \cup Tasks]
  /\ raced \in BOOLEAN /\ halfStarted \subseteq Ports /\ halfEnded \subseteq Ports

(* What t waits for, and the mutex it needs.                                *)
Waiting(t) == Does(t, "lockHal") \/ Does(t, "lockWire")

(* "release lock so that i2cDetachBus can execute i2cDeinit": a callback    *)
(* that stops a port needs its lock while its caller may hold others, and   *)
(* still no task waits for itself and no tasks wait for each other (two     *)
(* ports begun on the same two pins excepted).                              *)
NoDeadlock == \A S \in SUBSET Tasks \ {{}} :
  \E t \in S : ~Waiting(t) \/ lock[TheLock(Now(t))] \notin S

(* No driver is deleted under a transfer, whoever ends the port or takes    *)
(* its pins meanwhile.                                                      *)
DriverOutlivesTransfer == \A t \in Tasks :
  Does(t, "onTheBus") => Now(t).b \in installed

Registers(b, p, r) == pins[p].type = r /\ pins[p].bus = b

(* Whenever nobody holds a port's lock, the port is started exactly when    *)
(* its two pins are registered for it, so that whoever takes one of them    *)
(* stops it: across failed starts, takeovers and ends.  The exceptions: the *)
(* manager loses assignments when two tasks change one pin at a time, and a *)
(* start that failed is undone after the lock was released, or stays half   *)
(* done when the IDF then does not delete the driver.                       *)
StartedPortOwnsItsPins == \A b \in Ports : (lock[Hal(b)] = "free" /\ ~raced) =>
  /\ b \in initialized => \/ /\ Registers(b, bus[b].sda, "SDA")
                             /\ Registers(b, bus[b].scl, "SCL")
                          \/ b \in halfStarted \/ \E t \in Tasks : Undoes(t, b)
  /\ b \notin initialized => \A p \in Pins : pins[p].bus # b
=============================================================================
