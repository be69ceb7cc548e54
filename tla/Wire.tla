-------------------------------- MODULE Wire --------------------------------
(***************************************************************************)
(* The Wire objects (libraries/Wire/src/Wire.cpp) on the I2C masters.  A    *)
(* transaction lives in the object's buffers from beginTransmission() on;   *)
(* TwoWire::lock is kept until endTransmission(true) or requestFrom() has   *)
(* given it to the driver.                                                  *)
(*                                                                          *)
(* Tasks use the interface as the examples do: beginTransmission(), then    *)
(* write() and endTransmission(); after endTransmission(false) also         *)
(* requestFrom(); begin(), end() and setClock() outside a transaction.      *)
(* Wire's slave side, the receive buffer and setBufferSize() are left out.  *)
(***************************************************************************)
EXTENDS I2c

CONSTANTS
  Devices,      \* the addresses on the bus
  BufferSize,   \* bufferSize
  Requests,     \* bound: Requests[b]: what tasks do with port b
  Claims        \* bound: the pins that are made plain GPIOs

ASSUME WireAssumption ==
  /\ BufferSize \in Nat \ {0}
  /\ NULL \notin Tasks \cup Devices /\ "free" \notin Tasks
  /\ Requests \in [Ports -> SUBSET {"begin", "end", "setClock", "transmit", "request"}]
  /\ Claims \subseteq Pins

VARIABLES
  wire,   \* wire[b]: the Wire object's members
  said    \* history: the transaction t has asked for, NoSaying when none

vars == <<i2cVars, wire, said>>

NoSaying == [b |-> NULL, addr |-> NULL, bytes |-> <<>>, restart |-> FALSE]

Init ==
  /\ I2cInit
  /\ wire = [b \in Ports |->
       [currentTaskHandle |-> NULL, nonStop |-> FALSE, txAddress |-> NULL, tx |-> <<>>,
        buffers |-> FALSE, abandoned |-> FALSE]]
  /\ said = [t \in Tasks |-> NoSaying]

-----------------------------------------------------------------------------
Holds(t, b) == lock[Wire(b)] = t

Calls(t, b, request, ops) ==
  /\ Idle(t) /\ request \in Requests[b]
  /\ agenda' = [agenda EXCEPT ![t] = ops]
  /\ unchangedPeriMan /\ unchangedHal /\ UNCHANGED lock

Instantly(t) == Idle(t) /\ UNCHANGED i2cVars

(* Bound: a task keeps no Wire object while it uses another one.  One whose *)
(* transaction found no buffers keeps it for ever and can only try again.   *)
Uses(t, b) == said[t].b \in {NULL, b} /\ \A c \in Ports \ {b} : ~Holds(t, c)
Outside(t, b) == said[t] = NoSaying /\ \A c \in Ports : ~Holds(t, c)

-----------------------------------------------------------------------------
(* begin(), end(), setClock()                                               *)
CallBegin(t) == \E b \in Ports : \E want \in Wants[b] :
  /\ Outside(t, b)
  /\ Calls(t, b, "begin", <<For("lockWire", b), For("begin", b)>>)
  /\ local' = [local EXCEPT ![t].want = want]
  /\ UNCHANGED <<wire, said>>

(* Mutant: a port that is already started counts as a failed start.         *)
BeginAgainFails(t) ==
  /\ Does(t, "begin")
  /\ LET b == Now(t).b
     IN \/ /\ Becomes(t, <<For("unlockWire", b)>>)
           /\ wire' = [wire EXCEPT ![b].buffers = FALSE]
        \/ /\ b \notin initialized
           /\ Becomes(t, <<For("lockHal", b), For("init", b), For("begun", b)>>)
           /\ wire' = [wire EXCEPT ![b].buffers = TRUE]
  /\ UNCHANGED <<local, said>> /\ OnlyTheAgenda

Begin(t) ==
  /\ Does(t, "begin")
  /\ LET b == Now(t).b
     IN \/ /\ b \in initialized
           /\ Becomes(t, <<For("unlockWire", b)>>)
           /\ UNCHANGED wire
        \/ /\ b \notin initialized    \* no memory
           /\ Becomes(t, <<For("unlockWire", b)>>)
           /\ wire' = [wire EXCEPT ![b].buffers = FALSE]
        \/ /\ b \notin initialized
           /\ Becomes(t, <<For("lockHal", b), For("init", b), For("begun", b)>>)
           /\ wire' = [wire EXCEPT ![b].buffers = TRUE]
  /\ UNCHANGED <<local, said>> /\ OnlyTheAgenda

Begun(t) ==
  /\ Does(t, "begun")
  /\ LET b == Now(t).b
     IN /\ Becomes(t, <<For("unlockWire", b)>>)
        /\ wire' = [wire EXCEPT ![b].buffers = @ /\ local[t].result]
  /\ UNCHANGED <<local, said>> /\ OnlyTheAgenda

CallEnd(t) == \E b \in Ports :
  /\ Outside(t, b)
  /\ Calls(t, b, "end", <<For("lockWire", b), For("end", b), For("free", b), For("unlockWire", b)>>)
  /\ UNCHANGED <<local, wire, said>>

End(t) ==
  /\ Does(t, "end")
  /\ Becomes(t, IF Now(t).b \in initialized THEN Deinit(Now(t).b) ELSE <<>>)
  /\ UNCHANGED <<local, wire, said>> /\ OnlyTheAgenda

FreeWireBuffer(t) ==
  /\ Does(t, "free")
  /\ wire' = [wire EXCEPT ![Now(t).b].buffers = FALSE]
  /\ Done(t)
  /\ UNCHANGED <<local, said>> /\ OnlyTheAgenda

CallSetClock(t) == \E b \in Ports :
  /\ Outside(t, b)
  /\ Calls(t, b, "setClock", <<For("lockWire", b)>> \o SetClock(b) \o <<For("unlockWire", b)>>)
  /\ UNCHANGED <<local, wire, said>>

CallClaim(t) == \E p \in Claims :
  /\ said[t] = NoSaying
  /\ Claim(t, p)
  /\ UNCHANGED <<wire, said>>

-----------------------------------------------------------------------------
(* beginTransmission(): the task that already holds the object goes on.     *)
CallBeginTransmission(t) == \E b \in Ports, d \in Devices :
  /\ Uses(t, b)
  /\ LET mine == wire[b].currentTaskHandle = t
         start == For("beginTransmission", b)
     IN Calls(t, b, "transmit", IF mine THEN <<start>> ELSE <<For("lockWire", b), start>>)
  /\ local' = [local EXCEPT ![t].device = d]
  /\ UNCHANGED <<wire, said>>

(* Mutant: what was in the buffer stays there.                              *)
BeginTransmissionKeeping(t) ==
  /\ Does(t, "beginTransmission")
  /\ LET b == Now(t).b
         d == local[t].device
     IN /\ wire' = [wire EXCEPT ![b].currentTaskHandle = t, ![b].nonStop = FALSE,
                               ![b].txAddress = d, ![b].abandoned = FALSE]
        /\ said' = [said EXCEPT ![t] = [NoSaying EXCEPT !.b = b, !.addr = d]]
  /\ local' = [local EXCEPT ![t].device = NULL]
  /\ Done(t)
  /\ OnlyTheAgenda

BeginTransmission(t) ==
  /\ Does(t, "beginTransmission")
  /\ LET b == Now(t).b
         d == local[t].device
     IN /\ wire' = [wire EXCEPT ![b].currentTaskHandle = t, ![b].nonStop = FALSE,
                               ![b].txAddress = d, ![b].tx = <<>>, ![b].abandoned = FALSE]
        /\ said' = [said EXCEPT ![t] = [NoSaying EXCEPT !.b = b, !.addr = d]]
  /\ local' = [local EXCEPT ![t].device = NULL]
  /\ Done(t)
  /\ OnlyTheAgenda

(* Mutant: the limit is checked one byte late.                              *)
WriteOneMore(t) == \E b \in Ports :
  /\ Instantly(t) /\ said[t].b = b /\ ~said[t].restart
  /\ wire[b].buffers /\ Len(wire[b].tx) <= BufferSize
  /\ wire' = [wire EXCEPT ![b].tx = Append(@, t)]
  /\ said' = [said EXCEPT ![t].bytes = Append(@, t)]

(* write(): a byte is refused when the buffer is full or gone.              *)
Write(t) == \E b \in Ports :
  /\ Instantly(t) /\ said[t].b = b /\ ~said[t].restart
  /\ wire[b].buffers /\ Len(wire[b].tx) < BufferSize
  /\ wire' = [wire EXCEPT ![b].tx = Append(@, t)]
  /\ said' = [said EXCEPT ![t].bytes = Append(@, t)]

-----------------------------------------------------------------------------
GiveToDriver(b) == Transfer(b) \o <<For("finish", b)>>

(* endTransmission(): error 4 without buffers, and the lock is kept.        *)
EndTransmission(t) == \E b \in Ports :
  /\ said[t].b = b /\ wire[b].buffers
  /\ Calls(t, b, "transmit", GiveToDriver(b))
  /\ UNCHANGED <<local, wire, said>>

EndTransmissionFails(t) == \E b \in Ports :
  /\ Instantly(t) /\ said[t].b = b /\ ~wire[b].buffers
  /\ said' = [said EXCEPT ![t] = NoSaying]
  /\ UNCHANGED wire

EndTransmissionNonStop(t) == \E b \in Ports :
  /\ Instantly(t) /\ said[t].b = b /\ wire[b].buffers /\ "request" \in Requests[b]
  /\ wire' = [wire EXCEPT ![b].nonStop = TRUE]
  /\ said' = [said EXCEPT ![t].restart = TRUE]

(* requestFrom(): the buffers are looked at before the lock is taken.       *)
CallRequestFrom(t) == \E b \in Ports, d \in Devices :
  /\ Uses(t, b) /\ wire[b].buffers
  /\ LET request == For("requestFrom", b)
     IN Calls(t, b, "request", IF wire[b].currentTaskHandle = t THEN <<request>>
                            ELSE <<For("lockWire", b), request>>)
  /\ local' = [local EXCEPT ![t].device = d]
  /\ UNCHANGED <<wire, said>>

RequestFrom(t) ==
  /\ Does(t, "requestFrom")
  /\ LET b == Now(t).b
     IN /\ wire[b].nonStop => wire[b].txAddress = local[t].device
        /\ Becomes(t, GiveToDriver(b))    \* with the buffer's bytes if nonStop
        /\ wire' = [wire EXCEPT ![b].currentTaskHandle = t, ![b].nonStop = FALSE,
                               ![b].abandoned = FALSE]
  /\ local' = [local EXCEPT ![t].device = NULL]
  /\ UNCHANGED said /\ OnlyTheAgenda

(* Mutant: the request is dropped with the lock kept.                       *)
RequestFromAnotherKeeping(t) ==
  /\ Does(t, "requestFrom")
  /\ LET b == Now(t).b
     IN /\ wire[b].nonStop /\ wire[b].txAddress # local[t].device
        /\ Done(t)
        /\ wire' = [wire EXCEPT ![b].currentTaskHandle = NULL, ![b].abandoned = TRUE]
  /\ said' = [said EXCEPT ![t] = NoSaying]
  /\ UNCHANGED local /\ OnlyTheAgenda

(* "Unfinished Repeated Start transaction!": the request is dropped, the    *)
(* transaction stays in the buffer.                                         *)
RequestFromAnother(t) ==
  /\ Does(t, "requestFrom")
  /\ LET b == Now(t).b
     IN /\ wire[b].nonStop /\ wire[b].txAddress # local[t].device
        /\ Becomes(t, <<For("unlockWire", b)>>)
        /\ wire' = [wire EXCEPT ![b].currentTaskHandle = NULL, ![b].abandoned = TRUE]
  /\ said' = [said EXCEPT ![t] = NoSaying]
  /\ UNCHANGED local /\ OnlyTheAgenda

Finish(t) ==
  /\ Does(t, "finish")
  /\ LET b == Now(t).b
     IN /\ Becomes(t, <<For("unlockWire", b)>>)
        /\ wire' = [wire EXCEPT ![b].currentTaskHandle = NULL,
                               ![b].abandoned = wire[b].nonStop]
  /\ said' = [said EXCEPT ![t] = NoSaying]
  /\ UNCHANGED local /\ OnlyTheAgenda

-----------------------------------------------------------------------------
WireStep(t) ==
  \/ Begin(t) \/ Begun(t) \/ End(t) \/ FreeWireBuffer(t)
  \/ BeginTransmission(t)
  \/ RequestFrom(t) \/ RequestFromAnother(t) \/ Finish(t)

Request(t) ==
  /\ Idle(t)
  /\ \/ CallBegin(t) \/ CallEnd(t) \/ CallSetClock(t) \/ CallClaim(t)
     \/ CallBeginTransmission(t) \/ Write(t) \/ EndTransmission(t)
     \/ EndTransmissionFails(t) \/ EndTransmissionNonStop(t) \/ CallRequestFrom(t)

(* What halfStarted and halfEnded record.                                   *)
NotDeleted(t, b) == DeleteFails(t) /\ Now(t).b = b
Frees(t, b) == \E i \in 1 .. Len(agenda[t]) :
  agenda[t][i].op = "free" /\ agenda[t][i].b = b

Next == \E t \in Tasks :
  /\ \/ I2cStep(t) /\ UNCHANGED <<wire, said>>
     \/ WireStep(t)
     \/ Request(t)
  /\ raced' = (raced \/ Racing')
  /\ halfStarted' = {b \in initialized' : b \in halfStarted \/ (NotDeleted(t, b) /\ Undoes(t, b))}
  /\ halfEnded' = {b \in initialized' : b \in halfEnded \/ (NotDeleted(t, b) /\ Frees(t, b))}

Spec == Init /\ [][Next]_vars

-----------------------------------------------------------------------------
TypeOK ==
  /\ I2cTypeOK
  /\ wire \in [Ports -> [currentTaskHandle : Tasks \cup {NULL}, nonStop : BOOLEAN,
                         txAddress : Devices \cup {NULL}, tx : Seq(Tasks),
                         buffers : BOOLEAN, abandoned : BOOLEAN]]
  /\ \A b \in Ports : Len(wire[b].tx) <= BufferSize

(* A started port has its buffers whenever nobody is inside begin() or      *)
(* end(), and a transfer never runs without them: begin() may leave them    *)
(* out when the port is already started, requestFrom() looks for them       *)
(* before it takes the lock.  The exception: a begin() or an end() that     *)
(* failed because the IDF did not delete the driver frees the buffers of a  *)
(* port that stays started.                                                 *)
TransferHasItsBuffers ==
  /\ \A b \in initialized \ (halfStarted \cup halfEnded) :
       lock[Wire(b)] = "free" => wire[b].buffers
  /\ \A t \in Tasks : Does(t, "onTheBus") =>
       wire[Now(t).b].buffers \/ Now(t).b \in halfStarted \cup halfEnded

(* While a task's transaction is open, and while the driver sends it, the   *)
(* buffer holds that task's address and bytes, however other tasks use the  *)
(* same Wire object; and requestFrom() sends what is in the buffer only for *)
(* the task that asked for a repeated start.  The exception: one that was   *)
(* given up is left in the buffer, and a later requestFrom() sends it.      *)
TransactionIsOneTasks == \A t \in Tasks, b \in Ports :
  /\ said[t].b = b => wire[b].txAddress = said[t].addr /\ wire[b].tx = said[t].bytes
  /\ (Does(t, "requestFrom") /\ Now(t).b = b) =>
       wire[b].nonStop = (said[t].restart \/ wire[b].abandoned)

(* A task that is not in a transaction has given the Wire object back.  The *)
(* exception: endTransmission() found no buffers.                           *)
WireIsGivenBack == \A t \in Tasks, b \in Ports :
  /\ wire[b].currentTaskHandle = t => Holds(t, b)
  /\ (Idle(t) /\ Holds(t, b)) => said[t].b = b \/ ~wire[b].buffers
=============================================================================
