-------------------------------- MODULE Cbuf --------------------------------
(***************************************************************************)
(* cores/esp32/cbuf.cpp: the byte queue under NetworkUDP. A FreeRTOS ring   *)
(* buffer, one byte of look-ahead for peek(), and a recursive mutex. Only   *)
(* available(), and with it the first half of peek() and flush(), runs      *)
(* without the mutex, as two reads: the ring's fill and has_peek. A step is *)
(* what another task can see of a call: every change of the ring buffer or  *)
(* of has_peek, every read made without the mutex, and the wait for it.     *)
(***************************************************************************)
EXTENDS Integers, Sequences, FiniteSetsExt

CONSTANTS Consumers, Producers,  \* the tasks that read, and those that write
          Sizes,                 \* the sizes asked for at creation and resize()
          MaxCount,              \* bound: bytes in one read(), remove() or write()
          Modulus,               \* bound: bytes are numbered modulo this
          NoTask

Tasks == Consumers \union Producers

ASSUME CbufAssumption ==
    /\ Consumers \intersect Producers = {}
    /\ NoTask \notin Tasks
    /\ Sizes \subseteq Nat \ {0}
    /\ MaxCount \in Nat \ {0}
    /\ Modulus \in Nat \ {0} /\ \A n \in Sizes : Modulus > n + 1

VARIABLES ring,      \* the bytes in the ring buffer, the oldest first
          start,     \* where the oldest byte lies in the ring buffer
          size,      \* the ring buffer's size, 0 for _buf = NULL
          has_peek, peek_byte,
          holder,    \* the task that holds _lock, or NoTask
          kept,      \* _lock was taken once more than it was given back
          at,        \* [Tasks -> what the task does next]
          call,      \* [Tasks -> the method it is in]
          arg,       \* [Tasks -> the number it asked for: bytes or a size]
          want,      \* [Tasks -> bytes it still wants from the ring buffer]
          got,       \* [Tasks -> bytes it has taken out of the ring buffer]
          answer,    \* the method that returned last, and what it handed out
          next,      \* the number of the next byte written
          quiet,     \* history: no other consumer was active during the call
          low        \* history: bytes stored when the call began

shared == <<ring, start, size, has_peek, peek_byte>>
vars == <<ring, start, size, has_peek, peek_byte, holder, kept, at, call, arg,
          want, got, answer, next, quiet, low>>

Calls == {"available", "peek", "flush", "read", "remove", "resize", "write"}
Steps == {"idle", "info", "infoPeek", "lock", "peekRead", "peekSet", "receive",
          "receiveRest", "finish", "swap"}
Byte == 0 .. Modulus - 1

Answer(method, bytes) == [by |-> method, bytes |-> bytes]

Peeked == IF has_peek THEN <<peek_byte>> ELSE <<>>
Available == Len(ring) + Len(Peeked)
Room == size - Len(ring)

\* The bytes a call has in hand are stored until it returns them.
Holding == {t \in Tasks : at[t] \in {"peekSet", "receive", "receiveRest", "finish", "swap"}}
Items == IF Holding = {} THEN Peeked \o ring ELSE got[CHOOSE t \in Holding : TRUE] \o ring

Init ==
    /\ ring = <<>> /\ start = 0 /\ size \in Sizes \union {0}
    /\ has_peek = FALSE /\ peek_byte = 0
    /\ holder = NoTask /\ kept = FALSE
    /\ at = [t \in Tasks |-> "idle"] /\ call = [t \in Tasks |-> "available"]
    /\ arg = [t \in Tasks |-> 0] /\ want = [t \in Tasks |-> 0] /\ got = [t \in Tasks |-> <<>>]
    /\ answer = Answer("none", <<>>) /\ next = 0
    /\ quiet = [t \in Tasks |-> FALSE] /\ low = [t \in Tasks |-> 0]

Goto(t, step) == at' = [at EXCEPT ![t] = step]

\* A call starts: the ones without the mutex look first, the others wait for it.
Start(t, method, n) ==
    /\ at[t] = "idle"
    /\ Goto(t, IF method \in {"available", "peek", "flush"} THEN "info" ELSE "lock")
    /\ call' = [call EXCEPT ![t] = method]
    /\ arg' = [arg EXCEPT ![t] = n]
    /\ answer' = Answer("none", <<>>)
    /\ quiet' = [o \in Tasks |->
                    IF o = t THEN method = "available" /\ \A c \in Consumers \ {t} : at[c] = "idle"
                    ELSE quiet[o] /\ t \in Producers]
    /\ low' = [o \in Tasks |->
                  IF ~quiet'[o] THEN 0 ELSE IF o = t THEN Len(Items) ELSE low[o]]
    /\ UNCHANGED <<shared, holder, kept, want, got, next>>

\* The call returns bytes s and gives back the mutex if it holds it.
Return(t, s) ==
    /\ Goto(t, "idle")
    /\ answer' = Answer(call[t], s)
    /\ holder' = IF holder = t /\ ~kept THEN NoTask ELSE holder
    /\ arg' = [arg EXCEPT ![t] = 0] /\ want' = [want EXCEPT ![t] = 0]
    /\ got' = [got EXCEPT ![t] = <<>>]
    /\ low' = [low EXCEPT ![t] = 0] /\ quiet' = [quiet EXCEPT ![t] = FALSE]
    /\ call' = [call EXCEPT ![t] = "available"]

-----------------------------------------------------------------------------
(* available() without the mutex *)

\* resize() in another task frees the ring buffer this call is looking at.
Torn(t) == \E o \in Tasks \ {t} : at[o] = "swap"

InfoRing(t) ==
    /\ at[t] = "info"
    /\ \E n \in IF Torn(t) THEN UNION {0 .. s : s \in Sizes} ELSE {Len(ring)} :
           want' = [want EXCEPT ![t] = n]
    /\ Goto(t, "infoPeek")
    /\ UNCHANGED <<shared, holder, kept, call, arg, got, answer, next, quiet, low>>

\* Mutant: the look-ahead byte is forgotten.
SeenInRing(t) == want[t]

Seen(t) == want[t] + Len(Peeked)

InfoDone(t) ==
    /\ at[t] = "infoPeek"
    /\ \/ /\ call[t] = "available" \/ (call[t] = "peek" /\ Seen(t) = 0)
          /\ Return(t, <<>>)
          /\ UNCHANGED <<shared, kept, next>>
       \/ /\ call[t] = "flush" \/ (call[t] = "peek" /\ Seen(t) > 0)
          /\ arg' = [arg EXCEPT ![t] = Seen(t)]
          /\ Goto(t, "lock")
          /\ UNCHANGED <<shared, holder, kept, call, want, got, answer, next, quiet, low>>

-----------------------------------------------------------------------------
(* Under the mutex *)

CanLock(t) == at[t] = "lock" /\ holder \in {NoTask, t}

LockPeek(t) ==
    /\ CanLock(t) /\ call[t] = "peek"
    /\ IF has_peek
       THEN Return(t, <<peek_byte>>)
       ELSE /\ holder' = t
            /\ Goto(t, "peekRead")
            /\ UNCHANGED <<call, arg, want, got, answer, quiet, low>>
    /\ UNCHANGED <<shared, kept, next>>

PeekRead(t) ==
    /\ at[t] = "peekRead"
    /\ IF ring = <<>>
       THEN Return(t, <<>>) /\ UNCHANGED <<ring, start>>
       ELSE /\ ring' = Tail(ring) /\ start' = (start + 1) % size
            /\ got' = [got EXCEPT ![t] = <<Head(ring)>>]
            /\ Goto(t, "peekSet")
            /\ UNCHANGED <<holder, call, arg, want, answer, quiet, low>>
    /\ UNCHANGED <<size, has_peek, peek_byte, kept, next>>

\* Mutant: the byte is shown but not kept.
PeekSetNothing(t) ==
    /\ at[t] = "peekSet"
    /\ Return(t, got[t])
    /\ UNCHANGED <<shared, kept, next>>

PeekSet(t) ==
    /\ at[t] = "peekSet"
    /\ has_peek' = TRUE /\ peek_byte' = Head(got[t])
    /\ Return(t, got[t])
    /\ UNCHANGED <<ring, start, size, kept, next>>

\* Mutant: the look-ahead byte is not counted against what the caller asked for.
BeginReadOneMore(t, n) ==
    /\ holder' = t
    /\ got' = [got EXCEPT ![t] = Peeked]
    /\ want' = [want EXCEPT ![t] = Min({n, Available})]
    /\ Goto(t, "receive")
    /\ UNCHANGED <<call, arg, answer, quiet, low>>

\* read(dst, n): the look-ahead byte goes first; n bytes are left to receive.
BeginRead(t, n) ==
    /\ holder' = t
    /\ got' = [got EXCEPT ![t] = Peeked]
    /\ want' = [want EXCEPT ![t] = Min({n - Len(Peeked), Available})]
    /\ Goto(t, IF n = Len(Peeked) THEN "finish" ELSE "receive")
    /\ UNCHANGED <<call, arg, answer, quiet, low>>

LockRead(t) ==
    /\ CanLock(t) /\ call[t] \in {"read", "remove", "flush"}
    /\ IF Available = 0 \/ arg[t] = 0
       THEN Return(t, <<>>)
       ELSE BeginRead(t, IF call[t] = "remove" THEN Min({arg[t], Available}) ELSE arg[t])
    /\ UNCHANGED <<shared, kept, next>>

\* Mutant: the read position runs past the end of the ring buffer.
ReceiveNoWrap(t) ==
    /\ at[t] \in {"receive", "receiveRest"}
    /\ LET n == Min({want[t], Len(ring)}) IN
       /\ ring' = SubSeq(ring, n + 1, Len(ring))
       /\ start' = start + n
       /\ got' = [got EXCEPT ![t] = @ \o SubSeq(ring, 1, n)]
       /\ want' = [want EXCEPT ![t] = @ - n]
       /\ Goto(t, "finish")
    /\ UNCHANGED <<size, has_peek, peek_byte, holder, kept, call, arg, answer, next, quiet, low>>

\* xRingbufferReceiveUpTo() stops where the ring buffer wraps around.
Receive(t) ==
    /\ at[t] \in {"receive", "receiveRest"}
    /\ LET n == Min({want[t], Len(ring), size - start}) IN
       /\ ring' = SubSeq(ring, n + 1, Len(ring))
       /\ start' = IF n = 0 THEN start ELSE (start + n) % size
       /\ got' = [got EXCEPT ![t] = @ \o SubSeq(ring, 1, n)]
       /\ want' = [want EXCEPT ![t] = @ - n]
       /\ Goto(t, IF at[t] = "receive" /\ n \in 1 .. want[t] - 1
                  THEN "receiveRest" ELSE "finish")
    /\ UNCHANGED <<size, has_peek, peek_byte, holder, kept, call, arg, answer, next, quiet, low>>

ReadFinish(t) ==
    /\ at[t] = "finish"
    /\ has_peek' = FALSE
    /\ IF call[t] = "resize"
       THEN /\ Goto(t, "swap")
            /\ UNCHANGED <<holder, call, arg, want, got, answer, quiet, low>>
       ELSE Return(t, IF call[t] = "read" THEN got[t] ELSE <<>>)
    /\ UNCHANGED <<ring, start, size, peek_byte, kept, next>>

LockWrite(t) ==
    /\ CanLock(t) /\ call[t] = "write"
    /\ LET n == Min({arg[t], Room}) IN
       /\ ring' = ring \o [i \in 1 .. n |-> (next + i - 1) % Modulus]
       /\ next' = (next + n) % Modulus
    /\ Return(t, <<>>)
    /\ UNCHANGED <<start, size, has_peek, peek_byte, kept>>

-----------------------------------------------------------------------------
(* resize(): every byte is read out and sent to a new ring buffer *)

NewRing(n, s) == size' = n /\ ring' = s /\ start' = 0

\* The size asked for is the one the buffer has: the mutex is not given back.
ResizeSame(t) ==
    /\ CanLock(t) /\ call[t] = "resize" /\ arg[t] = size
    /\ kept' = TRUE /\ holder' = t
    /\ Goto(t, "idle")
    /\ answer' = Answer("resize", <<>>) /\ arg' = [arg EXCEPT ![t] = 0]
    /\ low' = [low EXCEPT ![t] = 0] /\ quiet' = [quiet EXCEPT ![t] = FALSE]
    /\ call' = [call EXCEPT ![t] = "available"]
    /\ UNCHANGED <<shared, want, got, next>>

CanResize(t) == CanLock(t) /\ call[t] = "resize" /\ arg[t] # size

\* Mutant: a failed resize() returns with the mutex.
ResizeRefusedLocked(t) ==
    /\ CanResize(t)
    /\ holder' = t
    /\ Goto(t, "idle")
    /\ UNCHANGED <<shared, kept, call, arg, want, got, answer, next, quiet, low>>

\* Too small for the data, or no memory for the ring buffer or for the copy.
ResizeRefused(t) ==
    /\ CanResize(t)
    /\ Return(t, <<>>)
    /\ UNCHANGED <<shared, kept, next>>

ResizeEmpty(t) ==
    /\ CanResize(t) /\ Available = 0
    /\ NewRing(arg[t], <<>>)
    /\ Return(t, <<>>)
    /\ UNCHANGED <<has_peek, peek_byte, kept, next>>

ResizeReads(t) ==
    /\ CanResize(t) /\ Available > 0 /\ arg[t] >= Available
    /\ BeginRead(t, Available)
    /\ UNCHANGED <<shared, kept, next>>

ResizeSwap(t) ==
    /\ at[t] = "swap"
    /\ NewRing(arg[t], got[t])
    /\ Return(t, <<>>)
    /\ UNCHANGED <<has_peek, peek_byte, kept, next>>

-----------------------------------------------------------------------------

ConsumerCalls(t) ==
    \/ \E method \in {"available", "peek", "flush"} : Start(t, method, 0)
    \/ \E method \in {"read", "remove"}, n \in 1 .. MaxCount : Start(t, method, n)
    \/ \E n \in Sizes : Start(t, "resize", n)

ProducerCalls(t) == \E n \in 1 .. MaxCount : Start(t, "write", n)

Lock(t) ==
    \/ LockPeek(t)
    \/ LockRead(t)
    \/ LockWrite(t)
    \/ ResizeSame(t)
    \/ ResizeRefused(t)
    \/ ResizeEmpty(t)
    \/ ResizeReads(t)

Continue(t) ==
    \/ InfoRing(t)
    \/ InfoDone(t)
    \/ PeekRead(t)
    \/ PeekSet(t)
    \/ Receive(t)
    \/ ReadFinish(t)
    \/ ResizeSwap(t)

Next ==
    \/ \E t \in Consumers : ConsumerCalls(t)
    \/ \E t \in Producers : ProducerCalls(t)
    \/ \E t \in Tasks : Lock(t) \/ Continue(t)

Spec == Init /\ [][Next]_vars

-----------------------------------------------------------------------------

\* The fill of the ring buffer, the counts and the mutex stay in their ranges.
TypeOK ==
    /\ ring \in Seq(Byte) /\ Len(ring) <= size
    /\ size \in Sizes \union {0}
    /\ start = 0 \/ start \in 0 .. size - 1
    /\ has_peek \in BOOLEAN /\ peek_byte \in Byte
    /\ holder \in Tasks \union {NoTask} /\ kept \in BOOLEAN
    /\ at \in [Tasks -> Steps] /\ call \in [Tasks -> Calls]
    /\ arg \in [Tasks -> Nat] /\ want \in [Tasks -> Nat]
    /\ got \in [Tasks -> Seq(Byte)] /\ answer \in [by : Calls \union {"none"}, bytes : Seq(Byte)]
    /\ next \in Byte
    /\ quiet \in [Tasks -> BOOLEAN] /\ low \in [Tasks -> Nat]

\* The split of the stored bytes between the look-ahead byte, the ring buffer and
\* the calls that are moving them is invisible: every read(), peek(), remove(),
\* flush() and resize() acts on one queue of bytes, in one step.
Queue == INSTANCE Fifo WITH items <- Items
IsFifo == Queue!Spec

\* A consumer that no other one disturbs is never told of bytes that it cannot
\* read, and of at least as many as there were when it asked: available() misses
\* no byte between its look at the ring buffer and its look at has_peek.
AvailableIsExact ==
    \A t \in Consumers :
        at[t] = "infoPeek" /\ quiet[t] => Seen(t) \in low[t] .. Len(Items)

\* A call never has more bytes in hand than its caller has room for, the
\* look-ahead byte included: read(dst, n) stays inside dst.
NoOverrun == \A t \in Tasks : Len(got[t]) <= arg[t] \/ call[t] = "peek"

\* Every path through every method gives the mutex back, the recursive calls and
\* the failures of resize() included; the one that does not is resize() to the
\* size the buffer has.
MutexIsGivenBack == holder # NoTask => at[holder] # "idle" \/ kept
=============================================================================
