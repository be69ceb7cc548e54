------------------------------- MODULE Hwcdc -------------------------------
(***************************************************************************)
(* cores/esp32/HWCDC.cpp: the transmit side of the USB serial/JTAG console. *)
(* Tasks put bytes into a ring buffer under tx_lock, debug output does so   *)
(* without it, and the interrupt handler moves them to the USB FIFO when    *)
(* the host has picked up a packet. All of them read and write the flag     *)
(* 'connected' and the mask of the IN_EMPTY interrupt. A step of a task is  *)
(* one access to what it shares; the interrupt handler runs in one step.    *)
(***************************************************************************)
EXTENDS Naturals, Sequences, SequencesExt, FiniteSetsExt

CONSTANTS Writers,       \* the tasks that call write() and flush()
          Others,        \* the tasks that print debug output and ask for room
          NoTask,
          RingSize,      \* tx_queue_len of setTxBufferSize()
          FifoSize,      \* 64: the bytes of a USB packet
          Tries,         \* tx_timeout_ms
          MaxWrite,      \* bound: bytes of one write()
          MaxBytes,      \* bound: bytes of all calls of write()
          WrapTo,        \* bound: 2^32 - 1, what 0 tries are decremented to
          MaxEvents,     \* bound: what the host does to the device
          MaxOther       \* bound: calls of Others

Tasks == Writers \union Others

ASSUME HwcdcAssumption ==
    /\ Writers \intersect Others = {} /\ NoTask \notin Tasks
    /\ {RingSize, FifoSize, Tries, MaxWrite} \subseteq Nat \ {0}
    /\ {MaxBytes, MaxEvents, MaxOther, WrapTo} \subseteq Nat

VARIABLES
    begun,       \* tx_ring_buf and tx_lock exist, the interrupt is installed
    ring,        \* the bytes in tx_ring_buf, the oldest first
    start,       \* where the oldest of them lies
    tx_lock,     \* the task that holds it, or NoTask
    connected,
    running,     \* the static variable of isCDC_Connected()
    usb,         \* the device: packet handed over, IN_EMPTY status and mask
    plugged,     \* isPlugged(): the device sees frames of a host
    reading,     \* the host has the port open
    sent,        \* the number of the last byte moved to the FIFO
    task,        \* [Tasks -> the call a task is in]
    next,        \* the number of the next byte written
    events,      \* bus resets, packets, openings and unpluggings so far
    others,      \* calls of Others so far
    broke        \* history: [Tasks -> the connection was down during the call]

buffer == <<begun, ring, start>>
host == <<plugged, reading, events>>
vars == <<begun, ring, start, tx_lock, connected, running, usb, plugged, reading,
          sent, task, next, events, others, broke>>

Kinds == {"write", "flush", "bool", "char", "room"}
Steps == {"idle", "take", "test", "poke", "room", "put", "trigger",
          "count", "loop", "loopPut", "check", "drop", "dropSend",
          "dropAll", "look", "wait", "charPut", "give"}
NoCall == [kind |-> "bool", at |-> "idle", n |-> 0, todo |-> <<>>, room |-> 0,
           result |-> 0, looping |-> FALSE, tries |-> 0, last |-> 0]

Init ==
    /\ begun = TRUE /\ ring = <<>> /\ start = 0 /\ tx_lock = NoTask
    /\ connected = FALSE /\ running = FALSE
    /\ \E first \in BOOLEAN :
           usb = [flushed |-> FALSE, raw |-> first, ena |-> TRUE]
    /\ plugged \in BOOLEAN /\ reading \in {FALSE, plugged}
    /\ sent = 0 /\ next = 1 /\ events = 0 /\ others = 0
    /\ task = [t \in Tasks |-> NoCall] /\ broke = [t \in Tasks |-> FALSE]

Free == RingSize - Len(ring)
At(t, step) == task[t].at = step
Goto(t, step) == task' = [task EXCEPT ![t].at = step]

\* A receive takes at most n bytes and stops where the ring buffer wraps around.
Received(n) == Min({n, Len(ring), RingSize - start})
Receive(n) ==
    /\ ring' = SubSeq(ring, n + 1, Len(ring))
    /\ start' = (start + n) % RingSize
Send(s) == ring' = ring \o s /\ UNCHANGED start

\* usb_serial_jtag_ll_txfifo_writable(), usb_serial_jtag_ll_txfifo_flush()
Writable == ~usb.flushed
FlushFifo == usb' = [usb EXCEPT !.flushed = TRUE]
EnableIf(condition) == usb' = [usb EXCEPT !.ena = @ \/ condition]

-----------------------------------------------------------------------------
(* hw_cdc_isr_handler() *)

Interrupted == begun /\ usb.ena /\ usb.raw

IsrUnplugged ==
    /\ Interrupted /\ ~plugged
    /\ connected' = FALSE
    /\ usb' = [usb EXCEPT !.raw = FALSE]
    /\ UNCHANGED <<ring, start, sent>>

\* A packet goes to the FIFO; the mask stays on while there was something to send.
IsrMoves ==
    /\ Interrupted /\ plugged /\ Writable /\ ring # <<>>
    /\ connected' = TRUE
    /\ LET n == Received(FifoSize) IN
       /\ Receive(n)
       /\ sent' = Max({sent} \union {ring[i] : i \in 1 .. n})
    /\ usb' = [flushed |-> TRUE, raw |-> FALSE, ena |-> TRUE]

IsrFindsNothing ==
    /\ Interrupted /\ plugged /\ Writable /\ ring = <<>>
    /\ connected' = TRUE
    /\ usb' = [usb EXCEPT !.ena = FALSE]
    /\ UNCHANGED <<ring, start, sent>>

IsrFifoBusy ==
    /\ Interrupted /\ plugged /\ ~Writable
    /\ connected' = TRUE
    /\ usb' = [usb EXCEPT !.raw = FALSE]
    /\ UNCHANGED <<ring, start, sent>>

IsrInEmpty ==
    /\ IsrUnplugged \/ IsrMoves \/ IsrFindsNothing \/ IsrFifoBusy
    /\ UNCHANGED <<begun, tx_lock, running, host, task, next>>

Event == events < MaxEvents /\ events' = events + 1

\* The host sent a packet.
IsrReceived ==
    /\ begun /\ plugged /\ reading
    /\ connected' = TRUE
    /\ Event
    /\ UNCHANGED <<buffer, sent, tx_lock, running, usb, plugged, reading, task, next>>

IsrBusReset ==
    /\ begun /\ plugged
    /\ connected' = FALSE
    /\ Event
    /\ UNCHANGED <<buffer, sent, tx_lock, running, usb, plugged, reading, task, next>>

-----------------------------------------------------------------------------
(* The host (external) *)

\* The packet handed over is picked up, an empty one too: IN_EMPTY.
HostPicksUp ==
    /\ plugged /\ reading /\ usb.flushed
    /\ usb' = [usb EXCEPT !.flushed = FALSE, !.raw = TRUE]
    /\ UNCHANGED <<buffer, sent, tx_lock, connected, running, plugged, reading, events, task, next>>

HostOpens ==
    /\ plugged /\ ~reading
    /\ reading' = TRUE
    /\ Event
    /\ UNCHANGED <<buffer, sent, tx_lock, connected, running, usb, plugged, task, next>>

HostCloses ==
    /\ reading
    /\ reading' = FALSE
    /\ UNCHANGED <<buffer, sent, tx_lock, connected, running, usb, plugged, events, task, next>>

Unplug ==
    /\ plugged
    /\ plugged' = FALSE /\ reading' = FALSE
    /\ UNCHANGED <<buffer, sent, tx_lock, connected, running, usb, events, task, next>>

\* The host enumerates a device that is plugged in with a bus reset.
PlugIn ==
    /\ ~plugged
    /\ plugged' = TRUE
    /\ Event
    /\ connected' = (connected /\ ~begun)
    /\ UNCHANGED <<buffer, sent, tx_lock, running, usb, reading, task, next>>

-----------------------------------------------------------------------------
(* isCDC_Connected() *)

WhenConnected == [write |-> "room", flush |-> "look", bool |-> "idle", char |-> "charPut"]
WhenNot == [write |-> "drop", flush |-> "dropAll", bool |-> "idle", char |-> "drop"]

Proceed(t, step) ==
    task' = [task EXCEPT ![t] = IF step = "idle" THEN NoCall ELSE [@ EXCEPT !.at = step]]

TestConnected(t) ==
    /\ At(t, "test")
    /\ \/ /\ ~plugged
          /\ connected' = FALSE /\ running' = FALSE
          /\ Proceed(t, WhenNot[task[t].kind])
       \/ /\ plugged /\ connected
          /\ running' = FALSE /\ UNCHANGED connected
          /\ Proceed(t, WhenConnected[task[t].kind])
       \/ /\ plugged /\ ~connected
          /\ Goto(t, "poke") /\ UNCHANGED <<connected, running>>
    /\ UNCHANGED <<buffer, sent, tx_lock, usb, host, next>>

\* An empty packet will make the host trigger IN_EMPTY.
Poke(t) ==
    /\ At(t, "poke")
    /\ usb' = [usb EXCEPT !.ena = @ \/ (~running /\ ~connected), !.flushed = TRUE]
    /\ running' = TRUE
    /\ Proceed(t, WhenNot[task[t].kind])
    /\ UNCHANGED <<buffer, sent, tx_lock, connected, host, next>>

-----------------------------------------------------------------------------
(* flushTXBuffer() *)

\* Make room by dropping the oldest bytes; keep what fits of the new ones.
DropOldest(t) ==
    /\ At(t, "drop")
    /\ LET size == Len(task[t].todo)
           n == IF Free >= size THEN 0 ELSE Received(Min({size - Free, RingSize}))
       IN Receive(n)
    /\ task' = [task EXCEPT ![t].at = "dropSend",
                            ![t].todo = SubSeq(@, 1, Min({Len(@), RingSize}))]
    /\ UNCHANGED <<begun, sent, tx_lock, connected, running, usb, host, next>>

\* The send fails if the receive was cut short by the wrap around.
SendNewest(t) ==
    /\ At(t, "dropSend")
    /\ IF Free >= Len(task[t].todo)
       THEN Send(task[t].todo) /\ FlushFifo
       ELSE UNCHANGED <<ring, start, usb>>
    /\ task' = [task EXCEPT ![t] = IF @.kind = "char" THEN NoCall
                                   ELSE [@ EXCEPT !.at = "give", !.todo = <<>>]]
    /\ UNCHANGED <<begun, sent, tx_lock, connected, running, host, next>>

\* flushTXBuffer(NULL, 0)
DropAll(t) ==
    /\ At(t, "dropAll")
    /\ Receive(Received(RingSize))
    /\ Goto(t, "give")
    /\ UNCHANGED <<begun, sent, tx_lock, connected, running, usb, host, next>>

-----------------------------------------------------------------------------
(* write() *)

\* The bytes of the writers that wait for the lock.
Announced == MapThenSumSet(LAMBDA t : IF At(t, "take") THEN task[t].n ELSE 0, Tasks)

CallWrite(t, n) ==
    /\ begun /\ At(t, "idle") /\ next + Announced + n <= MaxBytes + 1
    /\ task' = [task EXCEPT ![t] = [NoCall EXCEPT !.kind = "write", !.at = "take",
                                                  !.n = n, !.result = n]]
    /\ UNCHANGED <<buffer, sent, tx_lock, connected, running, usb, host, next>>

\* Debug output is one byte, numbered 0.
Call(t, kind, step) ==
    /\ begun /\ At(t, "idle")
    /\ task' = [task EXCEPT ![t] = [NoCall EXCEPT !.kind = kind, !.at = step,
                                    !.todo = IF kind = "char" THEN <<0>> ELSE <<>>]]
    /\ UNCHANGED <<buffer, sent, tx_lock, connected, running, usb, host, next>>

\* The bytes are numbered in the order in which the writers get the lock.
TakeLock(t) ==
    /\ At(t, "take") /\ tx_lock = NoTask
    /\ tx_lock' = t
    /\ task' = [task EXCEPT ![t].at = IF task[t].kind = "room" THEN "give" ELSE "test",
                            ![t].todo = [i \in 1 .. task[t].n |-> next + i - 1]]
    /\ next' = next + task[t].n
    /\ UNCHANGED <<buffer, sent, connected, running, usb, host>>

TakeTimesOut(t) ==
    /\ At(t, "take") /\ tx_lock # NoTask
    /\ Proceed(t, "idle")
    /\ UNCHANGED <<buffer, sent, tx_lock, connected, running, usb, host, next>>

Give(t) ==
    /\ At(t, "give")
    /\ tx_lock' = NoTask
    /\ Proceed(t, "idle")
    /\ UNCHANGED <<buffer, sent, connected, running, usb, host, next>>

LookForRoom(t) ==
    /\ At(t, "room") \/ (At(t, "loop") /\ connected /\ task[t].todo # <<>>)
    /\ task' = [task EXCEPT ![t].at = IF @ = "room" THEN "put" ELSE "loopPut",
                            ![t].room = Min({Free, Len(task[t].todo)})]
    /\ UNCHANGED <<buffer, sent, tx_lock, connected, running, usb, host, next>>

\* xRingbufferSend(), the first one without a timeout, the others with one.
Put(t) ==
    /\ At(t, "put") \/ At(t, "loopPut")
    /\ Free >= task[t].room
    /\ LET n == task[t].room  todo == task[t].todo IN
       /\ Send(SubSeq(todo, 1, n))
       /\ task' = [task EXCEPT ![t].at = "trigger",
                               ![t].todo = SubSeq(todo, n + 1, Len(todo)),
                               ![t].room = 0]
    /\ UNCHANGED <<begun, sent, tx_lock, connected, running, usb, host, next>>

SoFar(t) == task[t].n - Len(task[t].todo)

\* Mutant: a send that times out leaves the result as it was.
PutFailsUnnoticed(t) ==
    /\ At(t, "put") \/ At(t, "loopPut")
    /\ Free < task[t].room
    /\ task' = [task EXCEPT ![t].at = "check", ![t].room = 0]
    /\ UNCHANGED <<buffer, sent, tx_lock, connected, running, usb, host, next>>

PutFails(t) ==
    /\ At(t, "put") \/ At(t, "loopPut")
    /\ Free < task[t].room
    /\ task' = [task EXCEPT ![t].at = "check", ![t].room = 0, ![t].result = SoFar(t),
                            ![t].tries = 0, ![t].last = 0]
    /\ UNCHANGED <<buffer, sent, tx_lock, connected, running, usb, host, next>>

\* Mutant: the interrupt is left as the handler last set it.
TriggerWithoutInterrupt(t) ==
    /\ At(t, "trigger")
    /\ FlushFifo
    /\ task' = [task EXCEPT ![t] =
                   IF task[t].looping THEN [@ EXCEPT !.at = "count"]
                   ELSE [@ EXCEPT !.at = "loop", !.looping = TRUE, !.tries = Tries,
                                  !.last = Len(task[t].todo)]]
    /\ UNCHANGED <<buffer, sent, tx_lock, connected, running, host, next>>

\* The FIFO is flushed and the interrupt enabled; after the first send the loop is
\* set up, after each later one it counts.
Trigger(t) ==
    /\ At(t, "trigger")
    /\ usb' = [usb EXCEPT !.flushed = TRUE, !.ena = @ \/ connected]
    /\ task' = [task EXCEPT ![t] =
                   IF task[t].looping THEN [@ EXCEPT !.at = "count"]
                   ELSE [@ EXCEPT !.at = "loop", !.looping = TRUE, !.tries = Tries,
                                  !.last = Len(task[t].todo)]]
    /\ UNCHANGED <<buffer, sent, tx_lock, connected, running, host, next>>

\* tries is unsigned: it is decremented whatever it is.
OneTryLess(tries) == IF tries = 0 THEN WrapTo ELSE tries - 1

CountProgress(t) ==
    /\ At(t, "count")
    /\ LET stuck == task[t].last = Len(task[t].todo)
           tries == IF stuck THEN OneTryLess(task[t].tries) ELSE Tries
       IN /\ task' = [task EXCEPT ![t].at = "loop", ![t].tries = tries,
                                  ![t].last = Len(task[t].todo),
                                  ![t].result = IF tries = 0 THEN SoFar(t) ELSE @]
          /\ connected' = (connected /\ tries # 0)
    /\ UNCHANGED <<buffer, sent, tx_lock, running, usb, host, next>>

\* Mutant: the ring buffer is filled from the first byte of the call again.
LeaveLoopFromStart(t) ==
    /\ At(t, "check") \/ (At(t, "loop") /\ (~connected \/ task[t].todo = <<>>))
    /\ LET lost == task[t].todo # <<>> /\ ~Writable  n == task[t].n IN
       /\ connected' = (connected /\ ~lost)
       /\ task' = [task EXCEPT ![t].at = IF lost THEN "drop" ELSE "give",
                               ![t].todo = IF lost THEN [i \in 1 .. n |-> next - n + i - 1]
                                           ELSE @]
    /\ UNCHANGED <<buffer, sent, tx_lock, running, usb, host, next>>

\* The loop is left. Data is left and the FIFO is busy: the connection is given up.
LeaveLoop(t) ==
    /\ At(t, "check") \/ (At(t, "loop") /\ (~connected \/ task[t].todo = <<>>))
    /\ LET lost == task[t].todo # <<>> /\ ~Writable IN
       /\ connected' = (connected /\ ~lost)
       /\ task' = [task EXCEPT ![t].at = IF lost THEN "drop" ELSE "give",
                               ![t].tries = 0, ![t].last = 0, ![t].looping = FALSE]
    /\ UNCHANGED <<buffer, sent, tx_lock, running, usb, host, next>>

\* cdc0_write_char() on a connection: no lock, and it may wait for room.
PutChar(t) ==
    /\ At(t, "charPut")
    /\ IF Free > 0 THEN Send(task[t].todo) ELSE UNCHANGED <<ring, start>>
    /\ usb' = [usb EXCEPT !.flushed = TRUE, !.ena = TRUE]
    /\ Proceed(t, "idle")
    /\ UNCHANGED <<begun, sent, tx_lock, connected, running, host, next>>

-----------------------------------------------------------------------------
(* flush() *)

LookForData(t) ==
    /\ At(t, "look")
    /\ task' = [task EXCEPT ![t].at = "wait", ![t].tries = Tries, ![t].last = Len(ring)]
    /\ usb' = IF ring = <<>> THEN usb
              ELSE [usb EXCEPT !.flushed = TRUE, !.ena = @ \/ connected]
    /\ UNCHANGED <<buffer, sent, tx_lock, connected, running, host, next>>

Waits(t) == connected /\ task[t].tries > 0 /\ task[t].last > 0

\* Mutant: waiting does not count.
WaitForHostForever(t) ==
    /\ At(t, "wait") /\ Waits(t)
    /\ task' = [task EXCEPT ![t].last = Len(ring)]
    /\ EnableIf(connected)
    /\ UNCHANGED <<buffer, sent, tx_lock, connected, running, host, next>>

WaitForHost(t) ==
    /\ At(t, "wait") /\ Waits(t)
    /\ task' = [task EXCEPT ![t].last = Len(ring),
                            ![t].tries = IF task[t].last = Len(ring) THEN @ - 1 ELSE @]
    /\ EnableIf(connected)
    /\ UNCHANGED <<buffer, sent, tx_lock, connected, running, host, next>>

StopWaiting(t) ==
    /\ At(t, "wait") /\ ~Waits(t)
    /\ connected' = (connected /\ task[t].tries > 0)
    /\ Goto(t, IF task[t].tries = 0 THEN "dropAll" ELSE "give")
    /\ UNCHANGED <<buffer, sent, tx_lock, running, usb, host, next>>

-----------------------------------------------------------------------------
(* begin() and end(), by a task while no other one uses the port *)

NobodyCalls == \A t \in Tasks : At(t, "idle")

Begin ==
    /\ NobodyCalls
    /\ begun' = TRUE
    /\ usb' = [usb EXCEPT !.ena = TRUE]
    /\ UNCHANGED <<ring, start, sent, tx_lock, connected, running, host, task, next>>

End ==
    /\ begun /\ NobodyCalls
    /\ begun' = FALSE /\ ring' = <<>> /\ start' = 0
    /\ usb' = [usb EXCEPT !.ena = FALSE, !.raw = FALSE]
    /\ connected' = FALSE
    /\ UNCHANGED <<sent, tx_lock, running, host, task, next>>

-----------------------------------------------------------------------------

\* availableForWrite() takes the lock to look at the ring buffer.
Starts(t) ==
    \/ t \in Writers /\ \E n \in 1 .. MaxWrite : CallWrite(t, n)
    \/ t \in Writers /\ Call(t, "flush", "take")
    \/ t \in Writers /\ Call(t, "bool", "test")
    \/ t \in Others /\ others < MaxOther /\ Call(t, "char", "test")
    \/ t \in Others /\ others < MaxOther /\ Call(t, "room", "take")

Continues(t) ==
    \/ TakeLock(t) \/ TakeTimesOut(t) \/ Give(t)
    \/ TestConnected(t) \/ Poke(t)
    \/ LookForRoom(t) \/ Put(t) \/ PutFails(t) \/ Trigger(t)
    \/ CountProgress(t) \/ LeaveLoop(t)
    \/ DropOldest(t) \/ SendNewest(t) \/ DropAll(t) \/ PutChar(t)
    \/ LookForData(t) \/ WaitForHost(t) \/ StopWaiting(t)

Host == HostPicksUp \/ HostOpens \/ HostCloses \/ Unplug \/ PlugIn
Isr == IsrInEmpty \/ IsrReceived \/ IsrBusReset

BrokenCall(t) == task'[t].kind = "write" /\ (broke[t] \/ ~connected')

History ==
    /\ broke' = [t \in Tasks |-> BrokenCall(t)]
    /\ others' = others + Cardinality({t \in Others : At(t, "idle") /\ task'[t].at # "idle"})

Next ==
    /\ \/ \E t \in Tasks : Starts(t) \/ Continues(t)
       \/ Isr
       \/ Host
       \/ Begin
       \/ End
    /\ History

\* A task in a call goes on, an interrupt that is raised and enabled is served,
\* and a host that has the port open picks up packets.
Fairness ==
    /\ \A t \in Tasks : WF_vars(Continues(t) /\ History)
    /\ WF_vars(IsrInEmpty /\ History)
    /\ WF_vars(HostPicksUp /\ History)

Spec == Init /\ [][Next]_vars /\ Fairness

-----------------------------------------------------------------------------

Bytes == 0 .. MaxBytes

\* Types; the bytes of the ring buffer and the FIFO fit.
TypeOK ==
    /\ {begun, connected, running, plugged, reading} \subseteq BOOLEAN
    /\ ring \in Seq(Bytes) /\ Len(ring) <= RingSize /\ start \in 0 .. RingSize - 1
    /\ tx_lock \in Tasks \union {NoTask}
    /\ usb \in [flushed : BOOLEAN, raw : BOOLEAN, ena : BOOLEAN]
    /\ sent \in Bytes /\ next \in 1 .. MaxBytes + 1 /\ others \in 0 .. MaxOther
    /\ events \in 0 .. MaxEvents
    /\ task \in [Tasks -> [kind : Kinds, at : Steps, n : 0 .. MaxWrite,
                           todo : Seq(Bytes), room : 0 .. RingSize,
                           result : 0 .. MaxWrite, looping : BOOLEAN,
                           tries : Nat, last : Nat]]
    /\ broke \in [Tasks -> BOOLEAN]

Writing == IF tx_lock = NoTask THEN <<>> ELSE task[tx_lock].todo
InTransit == <<sent>> \o ring \o Writing

\* The host gets the bytes of write() in the order in which they were written and
\* none of them twice, whatever was dropped on the way, when connections break in
\* the middle of a call and when debug output is pushed in without the lock.
InOrder == \A j \in 1 .. Len(InTransit) : InTransit[j] > 0 =>
               \A i \in 1 .. j - 1 : InTransit[i] < InTransit[j]

\* On a connection that stays up during the call write() returns how many of its
\* bytes went into the ring buffer: what the caller repeats was not sent, and
\* what it does not repeat was.
ReturnIsWhatWasSent ==
    \A t \in Tasks :
        At(t, "give") /\ task[t].kind = "write" /\ ~broke[t]
            => task[t].result = SoFar(t)

\* flush() returns, whatever the host does: a host that stops reading is given up.
FlushReturns ==
    \A t \in Tasks : ~At(t, "idle") /\ task[t].kind = "flush" ~> At(t, "idle")

\* Bytes on a connection do not stay behind: whoever puts them into the ring buffer
\* or takes others out leaves the interrupt that moves them enabled.
Moved == ring = <<>> \/ ~connected \/ ~plugged \/ ~reading
DataReachesHost == ring # <<>> /\ connected ~> Moved

\* The bytes of a write() on a connection that stayed up do not stay behind.
WrittenReachesHost ==
    (\E t \in Tasks : At(t, "give") /\ task[t].kind = "write" /\ ~broke[t]) ~> Moved
=============================================================================
