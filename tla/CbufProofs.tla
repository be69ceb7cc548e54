----------------------------- MODULE CbufProofs -----------------------------
(***************************************************************************)
(* Types, bounds and the mutex of cbuf, for any number of tasks and bytes    *)
(* and every size; and that Cbuf implements Fifo.                           *)
(*                                                                          *)
(* The argument is who may touch what: only the holder of the mutex has     *)
(* bytes in hand (OneMover), and Sound says, point by point, how the bytes  *)
(* in hand, the look-ahead byte and the ring buffer make up the queue, and  *)
(* that resize() has taken every byte out before it frees the old ring.     *)
(*                                                                          *)
(* available() takes no mutex. What it answers is exact as long as no other *)
(* consumer is in a call; Asked says what may then happen between its two   *)
(* looks.                                                                   *)
(*                                                                          *)
(* The ring buffer, the look-ahead byte and the bytes that calls have in    *)
(* hand behave as one queue, on which each method acts in one step. The     *)
(* step in which a method takes effect is the one with which it returns;    *)
(* the steps before it move bytes from the ring buffer into the hands of    *)
(* the one task that may (OneMover) and leave Items as it was.              *)
(***************************************************************************)
EXTENDS Cbuf, SequenceTheorems, TLAPS

InHand == {"peekSet", "receive", "receiveRest", "finish", "swap"}
Held   == InHand \cup {"peekRead"}

(* The mutex protects the moves; who holds it without kept is in a call.    *)
OneMover ==
  /\ \A t \in Tasks : at[t] \in Held => holder = t
  /\ holder # NoTask => kept \/ at[holder] \in Held

Peeking(t) ==
  /\ call[t] = "peek" /\ ~has_peek
  /\ at[t] = "peekSet" => Len(got[t]) = 1

Reading(t) ==
  /\ call[t] \in {"read", "remove", "flush", "resize"}
  /\ at[t] \in {"receive", "receiveRest"} => Len(got[t]) + want[t] <= arg[t]
  /\ at[t] \in {"finish", "swap"} => Len(got[t]) <= arg[t]
  /\ at[t] = "swap" => call[t] = "resize" /\ ~has_peek

(* resize() takes all of the ring buffer, in one piece or around its end.   *)
Emptying(t) == call[t] = "resize" =>
  /\ at[t] \in {"receive", "receiveRest"} => want[t] = Len(ring) /\ ring # <<>>
  /\ at[t] = "receiveRest" => start = 0
  /\ at[t] \in {"finish", "swap"} => ring = <<>>

Sound(t) ==
  /\ call[t] = "resize" => arg[t] \in Sizes
  /\ at[t] \notin InHand => got[t] = <<>>
  /\ at[t] \in {"peekRead", "peekSet"} => Peeking(t)
  /\ at[t] \in InHand \ {"peekSet"} => Reading(t) /\ Emptying(t)

Inv == TypeOK /\ OneMover /\ \A t \in Tasks : Sound(t)

-----------------------------------------------------------------------------
LEMMA MinOfTwo ==
  ASSUME NEW a \in Int, NEW b \in Int
  PROVE  Min({a, b}) = IF a <= b THEN a ELSE b
<1> DEFINE m == IF a <= b THEN a ELSE b
<1>1. m \in {a, b} /\ \A y \in {a, b} : m <= y
  OBVIOUS
<1>2. \A x \in {a, b} : (\A y \in {a, b} : x <= y) => x = m
  OBVIOUS
<1> QED BY <1>1, <1>2 DEF Min

LEMMA MinOfThree ==
  ASSUME NEW a \in Int, NEW b \in Int, NEW c \in Int
  PROVE  /\ Min({a, b, c}) \in {a, b, c}
         /\ Min({a, b, c}) <= a /\ Min({a, b, c}) <= b /\ Min({a, b, c}) <= c
<1>1. \E x \in {a, b, c} : \A y \in {a, b, c} : x <= y
  <2>1. CASE a <= b /\ a <= c
    BY <2>1
  <2>2. CASE b <= a /\ b <= c
    BY <2>2
  <2>3. CASE c <= a /\ c <= b
    BY <2>3
  <2> QED BY <2>1, <2>2, <2>3
<1> QED BY <1>1 DEF Min

(* What the ring buffer gives back is the front of it, the rest stays.      *)
LEMMA Split ==
  ASSUME NEW S, NEW s \in Seq(S), NEW n \in 0 .. Len(s)
  PROVE  /\ SubSeq(s, 1, n) \in Seq(S) /\ Len(SubSeq(s, 1, n)) = n
         /\ SubSeq(s, n + 1, Len(s)) \in Seq(S)
         /\ Len(SubSeq(s, n + 1, Len(s))) = Len(s) - n
         /\ SubSeq(s, 1, n) \o SubSeq(s, n + 1, Len(s)) = s
<1> DEFINE front == SubSeq(s, 1, n)
           back == SubSeq(s, n + 1, Len(s))
           whole == front \o back
<1>1. /\ front \in Seq(S) /\ Len(front) = n
      /\ \A i \in 1 .. n : front[i] = s[i]
  BY SubSeqProperties
<1>2. /\ back \in Seq(S) /\ Len(back) = Len(s) - n
      /\ \A i \in 1 .. Len(s) - n : back[i] = s[n + i]
  BY SubSeqProperties
<1> HIDE DEF front, back
<1>3. /\ whole \in Seq(S) /\ Len(whole) = Len(front) + Len(back)
      /\ \A i \in 1 .. Len(front) + Len(back) :
           whole[i] = IF i <= Len(front) THEN front[i] ELSE back[i - Len(front)]
  BY <1>1, <1>2, ConcatProperties
<1> HIDE DEF whole
<1>4. Len(whole) = Len(s) /\ \A i \in 1 .. Len(s) : whole[i] = s[i]
  BY <1>1, <1>2, <1>3
<1>5. whole = s
  BY <1>3, <1>4, SeqEqual
<1> QED BY <1>1, <1>2, <1>5 DEF front, back, whole

-----------------------------------------------------------------------------
LEMMA InitEstablishesInv == Init => Inv
<1> SUFFICES ASSUME Init PROVE Inv
  OBVIOUS
<1>1. TypeOK
  <2>1. 0 \in Byte
    BY CbufAssumption DEF Byte
  <2>2. <<>> \in Seq(Byte) /\ Len(<<>>) = 0
    OBVIOUS
  <2>3. answer \in [by : Calls \cup {"none"}, bytes : Seq(Byte)]
    BY <2>2 DEF Init, Answer
  <2>4. size \in Nat
    BY CbufAssumption DEF Init
  <2>5. /\ has_peek \in BOOLEAN /\ kept \in BOOLEAN /\ quiet \in [Tasks -> BOOLEAN]
        /\ at \in [Tasks -> Steps] /\ call \in [Tasks -> Calls]
    BY DEF Init, Steps, Calls
  <2>6. arg \in [Tasks -> Nat] /\ want \in [Tasks -> Nat] /\ low \in [Tasks -> Nat]
    BY DEF Init
  <2>7. got \in [Tasks -> Seq(Byte)]
    BY <2>2 DEF Init
  <2>8. /\ ring \in Seq(Byte) /\ Len(ring) <= size /\ start = 0 /\ size \in Sizes \cup {0}
        /\ peek_byte \in Byte /\ next \in Byte /\ holder = NoTask
    BY <2>1, <2>2, <2>4 DEF Init
  <2> QED BY <2>3, <2>5, <2>6, <2>7, <2>8 DEF TypeOK
<1>2. OneMover
  BY DEF Init, OneMover, Held, InHand
<1>3. \A t \in Tasks : Sound(t)
  BY DEF Init, Sound, InHand
<1> QED BY <1>1, <1>2, <1>3 DEF Inv

(* Nobody else has bytes in hand when a task has the mutex or may take it.  *)
LEMMA OthersAreOut ==
  ASSUME OneMover, NEW t \in Tasks, NEW u \in Tasks, u # t,
         CanLock(t) \/ at[t] \in Held
  PROVE  at[u] \notin Held
BY CbufAssumption DEF OneMover, CanLock, Held

LEMMA LockerIsOut ==
  ASSUME NEW t \in Tasks, CanLock(t)
  PROVE  at[t] \notin Held
BY DEF CanLock, Held, InHand

(* What is true of a task's own call stays true while others work.          *)
Private == <<at, call, arg, want, got>>

OnlyBy(t) == \A u \in Tasks \ {t} :
  /\ at'[u] = at[u] /\ call'[u] = call[u] /\ arg'[u] = arg[u]
  /\ want'[u] = want[u] /\ got'[u] = got[u]

LEMMA OthersStaySound ==
  ASSUME NEW t \in Tasks, \A u \in Tasks : Sound(u), OnlyBy(t), Sound(t)',
         \/ UNCHANGED <<ring, start, has_peek>>
         \/ \A u \in Tasks \ {t} : at[u] \notin Held
  PROVE  \A u \in Tasks : Sound(u)'
<1> SUFFICES ASSUME NEW u \in Tasks, u # t PROVE Sound(u)'
  OBVIOUS
<1>1. CASE at[u] \notin Held
  BY <1>1 DEF OnlyBy, Sound, Held, InHand
<1>2. CASE UNCHANGED <<ring, start, has_peek>>
  BY <1>2 DEF OnlyBy, Sound, Peeking, Reading, Emptying
<1> QED BY <1>1, <1>2

-----------------------------------------------------------------------------
(* The types, those of the queue and those of the calls.                    *)
QueueTypes ==
  /\ ring \in Seq(Byte) /\ Len(ring) <= size
  /\ size \in Sizes \cup {0}
  /\ start = 0 \/ start \in 0 .. size - 1
  /\ has_peek \in BOOLEAN /\ peek_byte \in Byte /\ next \in Byte

CallTypes ==
  /\ holder \in Tasks \cup {NoTask} /\ kept \in BOOLEAN
  /\ at \in [Tasks -> Steps] /\ call \in [Tasks -> Calls]
  /\ arg \in [Tasks -> Nat] /\ want \in [Tasks -> Nat] /\ got \in [Tasks -> Seq(Byte)]
  /\ answer \in [by : Calls \cup {"none"}, bytes : Seq(Byte)]
  /\ quiet \in [Tasks -> BOOLEAN] /\ low \in [Tasks -> Nat]

LEMMA Types == TypeOK <=> QueueTypes /\ CallTypes
BY DEF TypeOK, QueueTypes, CallTypes

LEMMA TypesNext == TypeOK' <=> QueueTypes' /\ CallTypes'
BY DEF TypeOK, QueueTypes, CallTypes

(* A method returns.                                                        *)
LEMMA ReturnKeepsCallTypes ==
  ASSUME CallTypes, NEW t \in Tasks, NEW s \in Seq(Byte), Return(t, s), kept' = kept
  PROVE  /\ CallTypes' /\ OnlyBy(t)
         /\ at'[t] = "idle" /\ call'[t] = "available" /\ got'[t] = <<>>
<1>1. answer' \in [by : Calls \cup {"none"}, bytes : Seq(Byte)]
  BY DEF CallTypes, Return, Answer
<1>2. <<>> \in Seq(Byte) /\ "idle" \in Steps /\ "available" \in Calls
  BY DEF Steps, Calls
<1>3. /\ at' \in [Tasks -> Steps] /\ call' \in [Tasks -> Calls]
      /\ at'[t] = "idle" /\ call'[t] = "available"
  BY <1>2 DEF CallTypes, Return, Goto
<1>4. /\ arg' \in [Tasks -> Nat] /\ want' \in [Tasks -> Nat] /\ low' \in [Tasks -> Nat]
      /\ got' \in [Tasks -> Seq(Byte)] /\ got'[t] = <<>>
  BY <1>2 DEF CallTypes, Return
<1>5. quiet' \in [Tasks -> BOOLEAN]
  BY DEF CallTypes, Return
<1>6. holder' \in Tasks \cup {NoTask} /\ kept' \in BOOLEAN
  BY DEF CallTypes, Return
<1>7. OnlyBy(t)
  BY DEF CallTypes, Return, Goto, OnlyBy
<1> QED BY <1>1, <1>3, <1>4, <1>5, <1>6, <1>7 DEF CallTypes

LEMMA ReturnKeepsInv ==
  ASSUME Inv, NEW t \in Tasks, NEW s \in Seq(Byte), Return(t, s), kept' = kept,
         QueueTypes',
         \/ CanLock(t) \/ at[t] \in Held
         \/ UNCHANGED <<ring, start, has_peek>>
  PROVE  Inv'
<1>1. /\ CallTypes' /\ OnlyBy(t)
      /\ at'[t] = "idle" /\ call'[t] = "available" /\ got'[t] = <<>>
  BY ReturnKeepsCallTypes, Types DEF Inv
<1>2. holder' = IF holder = t /\ ~kept THEN NoTask ELSE holder
  BY DEF Return
<1>3. OneMover'
  <2>1. ASSUME NEW u \in Tasks, at'[u] \in Held PROVE holder' = u
    <3>1. u # t /\ at'[u] = at[u]
      BY <1>1, <2>1 DEF Held, InHand, OnlyBy
    <3> QED BY <1>2, <2>1, <3>1 DEF Inv, OneMover
  <2>2. holder' # NoTask => kept' \/ at'[holder'] \in Held
    BY <1>1, <1>2 DEF Inv, OneMover, OnlyBy, TypeOK
  <2> QED BY <2>1, <2>2 DEF OneMover
<1>4. Sound(t)'
  BY <1>1 DEF Sound, InHand
<1>5. \/ UNCHANGED <<ring, start, has_peek>>
      \/ \A u \in Tasks \ {t} : at[u] \notin Held
  BY OthersAreOut DEF Inv
<1>6. \A u \in Tasks : Sound(u)'
  BY <1>1, <1>4, <1>5, OthersStaySound DEF Inv
<1> QED BY <1>1, <1>3, <1>6, TypesNext DEF Inv

(* A method goes on with the mutex.                                         *)
LEMMA GoingOnKeepsInv ==
  ASSUME Inv, NEW t \in Tasks, CanLock(t) \/ at[t] \in Held,
         QueueTypes', CallTypes', OnlyBy(t), holder' = t, kept' = kept,
         at'[t] \in Held, Sound(t)'
  PROVE  Inv'
<1>1. \A u \in Tasks \ {t} : at[u] \notin Held
  BY OthersAreOut DEF Inv
<1>2. OneMover'
  BY <1>1 DEF OneMover, OnlyBy
<1>3. \A u \in Tasks : Sound(u)'
  BY <1>1, OthersStaySound DEF Inv
<1> QED BY <1>2, <1>3, TypesNext DEF Inv

(* A method that has not taken the mutex goes on.                           *)
LEMMA LookingKeepsInv ==
  ASSUME Inv, NEW t \in Tasks, at[t] \notin Held, at'[t] \notin Held,
         UNCHANGED <<ring, start, has_peek, holder, kept>>,
         QueueTypes', CallTypes', OnlyBy(t), Sound(t)'
  PROVE  Inv'
<1>1. OneMover'
  BY CbufAssumption DEF Inv, OneMover, OnlyBy, TypeOK
<1>2. \A u \in Tasks : Sound(u)'
  BY OthersStaySound DEF Inv
<1> QED BY <1>1, <1>2, TypesNext DEF Inv

-----------------------------------------------------------------------------
LEMMA ItemsType ==
  ASSUME TypeOK
  PROVE  Peeked \in Seq(Byte) /\ Len(Peeked) \in {0, 1} /\ Items \in Seq(Byte)
<1>1. Peeked \in Seq(Byte) /\ Len(Peeked) \in {0, 1}
  BY DEF TypeOK, Peeked
<1>2. ring \in Seq(Byte) /\ got \in [Tasks -> Seq(Byte)]
  BY DEF TypeOK
<1>3. CASE Holding = {}
  BY <1>1, <1>2, <1>3, ConcatProperties DEF Items
<1>4. CASE Holding # {}
  <2> DEFINE u == CHOOSE t \in Holding : TRUE
  <2>1. u \in Tasks
    BY <1>4 DEF Holding
  <2>2. Items = got[u] \o ring
    BY <1>4 DEF Items
  <2> HIDE DEF u
  <2>3. got[u] \in Seq(Byte)
    BY <1>2, <2>1
  <2>4. got[u] \o ring \in Seq(Byte)
    BY <1>2, <2>3, ConcatProperties
  <2> QED BY <1>1, <2>2, <2>4
<1> QED BY <1>1, <1>3, <1>4

LEMMA StartKeepsInv ==
  ASSUME Inv, NEW t \in Tasks, NEW method \in Calls, NEW n \in Nat,
         method = "resize" => n \in Sizes, Start(t, method, n)
  PROVE  Inv'
<1>0. TypeOK /\ CallTypes /\ QueueTypes /\ Sound(t)
  BY Types DEF Inv
<1>1. at[t] = "idle" /\ at'[t] \in {"info", "lock"} /\ at' \in [Tasks -> Steps]
  BY <1>0 DEF Start, Goto, CallTypes, Steps
<1>2. answer' \in [by : Calls \cup {"none"}, bytes : Seq(Byte)]
  <2>1. <<>> \in Seq(Byte)
    OBVIOUS
  <2> QED BY <2>1 DEF Start, Answer
<1>3. quiet' \in [Tasks -> BOOLEAN]
  BY DEF Start
<1>4. low' \in [Tasks -> Nat]
  <2>1. Len(Items) \in Nat
    BY <1>0, ItemsType
  <2>2. low' = [o \in Tasks |->
                  IF ~quiet'[o] THEN 0 ELSE IF o = t THEN Len(Items) ELSE low[o]]
    BY DEF Start
  <2> HIDE DEF Items
  <2> QED BY <1>0, <2>1, <2>2 DEF CallTypes
<1>5. /\ call' \in [Tasks -> Calls] /\ arg' \in [Tasks -> Nat]
      /\ call'[t] = method /\ arg'[t] = n /\ got' = got /\ want' = want
  BY <1>0 DEF Start, CallTypes
<1>6. UNCHANGED <<ring, start, size, has_peek, peek_byte, next, holder, kept>>
  BY DEF Start, shared
<1>7. QueueTypes' /\ CallTypes'
  BY <1>0, <1>1, <1>2, <1>3, <1>4, <1>5, <1>6 DEF QueueTypes, CallTypes
<1>8. OnlyBy(t)
  BY <1>0 DEF Start, Goto, CallTypes, OnlyBy
<1>9. Sound(t)'
  BY <1>0, <1>1, <1>5 DEF Sound, InHand
<1>10. at[t] \notin Held /\ at'[t] \notin Held
  BY <1>1 DEF Held, InHand
<1> QED BY <1>6, <1>7, <1>8, <1>9, <1>10, LookingKeepsInv

LEMMA InfoKeepsInv ==
  ASSUME Inv, NEW t \in Tasks, InfoRing(t) \/ InfoDone(t)
  PROVE  Inv'
<1>0. TypeOK /\ CallTypes /\ QueueTypes /\ Sound(t)
  BY Types DEF Inv
<1>1. CASE InfoRing(t)
  <2>1. PICK n \in IF Torn(t) THEN UNION {0 .. s : s \in Sizes} ELSE {Len(ring)} :
          want' = [want EXCEPT ![t] = n]
    BY <1>1 DEF InfoRing
  <2>2. n \in Nat
    BY <1>0, CbufAssumption DEF QueueTypes
  <2>3. at[t] = "info" /\ at'[t] = "infoPeek" /\ at' \in [Tasks -> Steps]
    BY <1>0, <1>1 DEF InfoRing, Goto, CallTypes, Steps
  <2>4. want' \in [Tasks -> Nat]
    BY <1>0, <2>1, <2>2 DEF CallTypes
  <2>5. /\ UNCHANGED <<ring, start, size, has_peek, peek_byte, next, holder, kept>>
        /\ UNCHANGED <<call, arg, got, answer, quiet, low>>
    BY <1>1 DEF InfoRing, shared
  <2>6. QueueTypes' /\ CallTypes'
    BY <1>0, <2>3, <2>4, <2>5 DEF QueueTypes, CallTypes
  <2>7. OnlyBy(t)
    BY <1>0, <1>1, <2>1, <2>5 DEF InfoRing, Goto, CallTypes, OnlyBy
  <2>8. Sound(t)' /\ at[t] \notin Held /\ at'[t] \notin Held
    BY <1>0, <2>3, <2>5 DEF Sound, Held, InHand
  <2> QED BY <2>5, <2>6, <2>7, <2>8, LookingKeepsInv
<1>2. ASSUME InfoDone(t), Return(t, <<>>), UNCHANGED <<shared, kept, next>>
      PROVE  Inv'
  <2>1. QueueTypes' /\ UNCHANGED <<ring, start, has_peek>>
    BY <1>0, <1>2 DEF QueueTypes, shared
  <2>2. <<>> \in Seq(Byte)
    OBVIOUS
  <2> QED BY <1>2, <2>1, <2>2, ReturnKeepsInv
<1>3. ASSUME InfoDone(t), call[t] \in {"flush", "peek"},
             arg' = [arg EXCEPT ![t] = Seen(t)], Goto(t, "lock"),
             UNCHANGED <<shared, holder, kept, call, want, got, answer, next, quiet, low>>
      PROVE  Inv'
  <2>1. Seen(t) \in Nat
    BY <1>0, ItemsType DEF Seen, CallTypes
  <2>2. at[t] = "infoPeek" /\ at'[t] = "lock" /\ at' \in [Tasks -> Steps]
    BY <1>0, <1>3 DEF InfoDone, Goto, CallTypes, Steps
  <2>3. arg' \in [Tasks -> Nat]
    BY <1>0, <1>3, <2>1 DEF CallTypes
  <2>4. UNCHANGED <<ring, start, size, has_peek, peek_byte>>
    BY <1>3 DEF shared
  <2>5. QueueTypes' /\ CallTypes'
    BY <1>0, <1>3, <2>2, <2>3, <2>4 DEF QueueTypes, CallTypes
  <2>6. OnlyBy(t)
    BY <1>0, <1>3 DEF Goto, CallTypes, OnlyBy
  <2>7. Sound(t)' /\ at[t] \notin Held /\ at'[t] \notin Held
    BY <1>0, <1>3, <2>2 DEF Sound, Held, InHand
  <2> QED BY <1>3, <2>4, <2>5, <2>6, <2>7, LookingKeepsInv
<1>4. CASE InfoDone(t)
  <2>1. \/ Return(t, <<>>) /\ UNCHANGED <<shared, kept, next>>
        \/ /\ call[t] \in {"flush", "peek"}
           /\ arg' = [arg EXCEPT ![t] = Seen(t)] /\ Goto(t, "lock")
           /\ UNCHANGED <<shared, holder, kept, call, want, got, answer, next, quiet, low>>
    BY <1>4 DEF InfoDone
  <2> QED BY <1>2, <1>3, <1>4, <2>1
<1> QED BY <1>1, <1>4

-----------------------------------------------------------------------------
(* Under the mutex.                                                         *)
LEMMA GotoKeepsTypes ==
  ASSUME CallTypes, NEW t \in Tasks, NEW pc \in Steps, Goto(t, pc),
         UNCHANGED <<kept, call, arg, answer, quiet, low>>,
         want' \in [Tasks -> Nat], got' \in [Tasks -> Seq(Byte)],
         holder' \in Tasks,
         \A u \in Tasks \ {t} : want'[u] = want[u] /\ got'[u] = got[u]
  PROVE  CallTypes' /\ OnlyBy(t) /\ at'[t] = pc
BY DEF CallTypes, Goto, OnlyBy

LEMMA PeekKeepsInv ==
  ASSUME Inv, NEW t \in Tasks, LockPeek(t) \/ PeekRead(t) \/ PeekSet(t)
  PROVE  Inv'
<1>0. TypeOK /\ CallTypes /\ QueueTypes /\ Sound(t) /\ OneMover
  BY Types DEF Inv
<1>1. CASE LockPeek(t) /\ has_peek
  <2>1. <<peek_byte>> \in Seq(Byte)
    BY <1>0 DEF QueueTypes
  <2>2. QueueTypes' /\ CanLock(t) /\ Return(t, <<peek_byte>>) /\ kept' = kept
    BY <1>0, <1>1 DEF LockPeek, QueueTypes, shared
  <2> QED BY <2>1, <2>2, ReturnKeepsInv
<1>2. CASE LockPeek(t) /\ ~has_peek
  <2>1. /\ CanLock(t) /\ holder' = t /\ Goto(t, "peekRead") /\ "peekRead" \in Steps
        /\ UNCHANGED <<call, arg, want, got, answer, quiet, low, kept>>
        /\ UNCHANGED <<ring, start, size, has_peek, peek_byte, next>>
    BY <1>2 DEF LockPeek, shared, Steps
  <2>2. CallTypes' /\ OnlyBy(t) /\ at'[t] = "peekRead"
    BY <1>0, <2>1, GotoKeepsTypes DEF CallTypes
  <2>3. QueueTypes'
    BY <1>0, <2>1 DEF QueueTypes
  <2>4. Sound(t)'
    BY <1>0, <1>2, <2>1, <2>2 DEF LockPeek, CanLock, Sound, InHand, Peeking
  <2>5. at'[t] \in Held
    BY <2>2 DEF Held
  <2> QED BY <2>1, <2>2, <2>3, <2>4, <2>5, GoingOnKeepsInv
<1>3. CASE PeekRead(t) /\ ring = <<>>
  <2>1. <<>> \in Seq(Byte) /\ at[t] \in Held
    BY <1>3 DEF PeekRead, Held
  <2>2. QueueTypes' /\ Return(t, <<>>) /\ kept' = kept
    BY <1>0, <1>3 DEF PeekRead, QueueTypes
  <2> QED BY <2>1, <2>2, ReturnKeepsInv
<1>4. CASE PeekRead(t) /\ ring # <<>>
  <2>1. /\ at[t] = "peekRead" /\ ring' = Tail(ring) /\ start' = (start + 1) % size
        /\ got' = [got EXCEPT ![t] = <<Head(ring)>>] /\ Goto(t, "peekSet")
        /\ UNCHANGED <<holder, call, arg, want, answer, quiet, low, kept>>
        /\ UNCHANGED <<size, has_peek, peek_byte, next>>
    BY <1>4 DEF PeekRead
  <2>2. Tail(ring) \in Seq(Byte) /\ Len(Tail(ring)) = Len(ring) - 1 /\ Head(ring) \in Byte
    BY <1>0, <1>4, HeadTailProperties DEF QueueTypes
  <2>3. size \in Nat \ {0} /\ start \in Nat
    BY <1>0, <1>4, CbufAssumption DEF QueueTypes
  <2>4. (start + 1) % size \in 0 .. size - 1
    BY <2>3
  <2>5. QueueTypes'
    BY <1>0, <2>1, <2>2, <2>3, <2>4 DEF QueueTypes
  <2>6. got' \in [Tasks -> Seq(Byte)] /\ got'[t] = <<Head(ring)>>
        /\ \A u \in Tasks \ {t} : got'[u] = got[u]
    BY <1>0, <2>1, <2>2 DEF CallTypes
  <2>7. holder' \in Tasks /\ holder' = t /\ "peekSet" \in Steps /\ at[t] \in Held
    BY <1>0, <2>1 DEF OneMover, Steps, Held
  <2>8. CallTypes' /\ OnlyBy(t) /\ at'[t] = "peekSet"
    BY <1>0, <2>1, <2>6, <2>7, GotoKeepsTypes DEF CallTypes
  <2>9. Sound(t)'
    BY <1>0, <2>1, <2>6, <2>8 DEF Sound, InHand, Peeking
  <2>10. at'[t] \in Held
    BY <2>8 DEF Held, InHand
  <2> QED BY <2>1, <2>5, <2>7, <2>8, <2>9, <2>10, GoingOnKeepsInv
<1>5. CASE PeekSet(t)
  <2>1. at[t] = "peekSet" /\ got[t] \in Seq(Byte) /\ Len(got[t]) = 1
    BY <1>0, <1>5 DEF PeekSet, CallTypes, Sound, Peeking
  <2>2. Head(got[t]) \in Byte
    BY <2>1
  <2>3. QueueTypes' /\ Return(t, got[t]) /\ kept' = kept /\ at[t] \in Held
    BY <1>0, <1>5, <2>1, <2>2 DEF PeekSet, QueueTypes, Held, InHand
  <2> QED BY <2>1, <2>3, ReturnKeepsInv
<1> QED BY <1>1, <1>2, <1>3, <1>4, <1>5

LEMMA BeginReadKeepsInv ==
  ASSUME Inv, NEW t \in Tasks, CanLock(t), Available > 0,
         call[t] \in {"read", "remove", "flush", "resize"},
         NEW n \in Nat \ {0}, n <= arg[t], call[t] = "resize" => n = Available,
         BeginRead(t, n), UNCHANGED <<shared, kept, next>>
  PROVE  Inv'
<1> DEFINE w == Min({n - Len(Peeked), Available})
<1>0. TypeOK /\ CallTypes /\ QueueTypes /\ Sound(t)
  BY Types DEF Inv
<1>1. /\ Len(Peeked) \in {0, 1} /\ Peeked \in Seq(Byte) /\ Len(ring) \in Nat
      /\ Available = Len(ring) + Len(Peeked)
  BY <1>0, ItemsType DEF Available, QueueTypes
<1>2. /\ w \in Nat /\ w + Len(Peeked) <= n
      /\ call[t] = "resize" => w = Len(ring)
  <2> HIDE DEF w
  <2>0. n >= 1 /\ n \in Nat
    OBVIOUS
  <2>1. n - Len(Peeked) \in Nat
    <3>1. PICK k \in {0, 1} : k = Len(Peeked)
      BY <1>1
    <3>2. n - k \in Nat
      BY <2>0
    <3> QED BY <3>1, <3>2
  <2>3. Available \in Nat
    BY <1>1
  <2> USE DEF w
  <2>2. w = IF n - Len(Peeked) <= Available THEN n - Len(Peeked) ELSE Available
    BY <2>1, <2>3, MinOfTwo
  <2> QED BY <1>1, <2>1, <2>2, <2>3
<1> HIDE DEF w
<1> DEFINE pc == IF n = Len(Peeked) THEN "finish" ELSE "receive"
<1>3. /\ holder' = t /\ got' = [got EXCEPT ![t] = Peeked] /\ want' = [want EXCEPT ![t] = w]
      /\ Goto(t, pc) /\ UNCHANGED <<call, arg, answer, quiet, low, kept>>
      /\ UNCHANGED <<ring, start, size, has_peek, peek_byte, next>>
  BY DEF BeginRead, w, shared
<1>4. /\ got' \in [Tasks -> Seq(Byte)] /\ got'[t] = Peeked
      /\ want' \in [Tasks -> Nat] /\ want'[t] = w
      /\ \A u \in Tasks \ {t} : want'[u] = want[u] /\ got'[u] = got[u]
  BY <1>0, <1>1, <1>2, <1>3 DEF CallTypes
<1>5. pc \in Steps
  BY DEF Steps
<1>6. CallTypes' /\ OnlyBy(t) /\ at'[t] = pc
  BY <1>0, <1>3, <1>4, <1>5, GotoKeepsTypes
<1>7. QueueTypes'
  BY <1>0, <1>3 DEF QueueTypes
<1>8. Reading(t)'
  BY <1>1, <1>2, <1>3, <1>4, <1>6 DEF Reading, CallTypes
<1>9. Emptying(t)'
  <2>1. ring = <<>> <=> Len(ring) = 0
    BY <1>0 DEF QueueTypes
  <2> QED BY <1>1, <1>2, <1>3, <1>4, <1>6, <2>1 DEF Emptying
<1>10. Sound(t)' /\ at'[t] \in Held
  BY <1>0, <1>3, <1>6, <1>8, <1>9 DEF Sound, Held, InHand
<1> QED BY <1>3, <1>6, <1>7, <1>10, GoingOnKeepsInv

LEMMA LockReadKeepsInv ==
  ASSUME Inv, NEW t \in Tasks, LockRead(t)
  PROVE  Inv'
<1>0. /\ TypeOK /\ CallTypes /\ QueueTypes /\ CanLock(t)
      /\ call[t] \in {"read", "remove", "flush"} /\ arg[t] \in Nat
  BY Types DEF Inv, LockRead, CallTypes
<1>1. CASE Available = 0 \/ arg[t] = 0
  <2>1. <<>> \in Seq(Byte) /\ QueueTypes'
    BY <1>0, <1>1 DEF LockRead, shared, QueueTypes
  <2> QED BY <1>0, <1>1, <2>1, ReturnKeepsInv DEF LockRead
<1>2. CASE ~(Available = 0 \/ arg[t] = 0)
  <2>1. Available \in Nat
    BY <1>0, ItemsType DEF Available, QueueTypes
  <2> DEFINE n == IF call[t] = "remove" THEN Min({arg[t], Available}) ELSE arg[t]
  <2>2. n \in Nat \ {0} /\ n <= arg[t]
    BY <1>0, <1>2, <2>1, MinOfTwo
  <2>3. BeginRead(t, n) /\ UNCHANGED <<shared, kept, next>>
    BY <1>2 DEF LockRead
  <2>4. Available > 0
    BY <1>2, <2>1
  <2> HIDE DEF n
  <2> QED BY <1>0, <2>2, <2>3, <2>4, BeginReadKeepsInv
<1> QED BY <1>1, <1>2

(* One part of the ring buffer is moved into the caller's hands.            *)
LEMMA ReceiveMoves ==
  ASSUME Inv, NEW t \in Tasks, Receive(t),
         NEW n, n = Min({want[t], Len(ring), size - start})
  PROVE  /\ n \in 0 .. Len(ring) /\ n <= want[t] /\ n <= size - start
         /\ n \in {want[t], Len(ring), size - start}
         /\ size \in Nat /\ start \in Nat /\ Len(ring) <= size
         /\ ring # <<>> => start < size
<1>0. QueueTypes /\ CallTypes
  BY Types DEF Inv
<1>1. /\ want[t] \in Nat /\ Len(ring) \in Nat /\ size \in Nat /\ start \in Nat
      /\ start <= size /\ Len(ring) <= size
      /\ ring # <<>> => start < size
  BY <1>0, CbufAssumption DEF QueueTypes, CallTypes
<1>2. size - start \in Nat
  BY <1>1
<1>3. /\ n \in {want[t], Len(ring), size - start}
      /\ n <= want[t] /\ n <= Len(ring) /\ n <= size - start
  <2>1. want[t] \in Int /\ Len(ring) \in Int /\ size - start \in Int
    BY <1>1, <1>2
  <2> QED BY ONLY <2>1, MinOfThree, n = Min({want[t], Len(ring), size - start})
<1>4. n \in Nat
  BY <1>1, <1>2, <1>3
<1> QED BY <1>1, <1>3, <1>4

LEMMA ReceiveKeepsInv ==
  ASSUME Inv, NEW t \in Tasks, Receive(t)
  PROVE  Inv'
<1>0. TypeOK /\ CallTypes /\ QueueTypes /\ Sound(t) /\ OneMover
  BY Types DEF Inv
<1> DEFINE n == Min({want[t], Len(ring), size - start})
           rest == IF at[t] = "receive" /\ n \in 1 .. want[t] - 1
                   THEN "receiveRest" ELSE "finish"
<1>1. /\ at[t] \in {"receive", "receiveRest"}
      /\ ring' = SubSeq(ring, n + 1, Len(ring))
      /\ start' = IF n = 0 THEN start ELSE (start + n) % size
      /\ got' = [got EXCEPT ![t] = got[t] \o SubSeq(ring, 1, n)]
      /\ want' = [want EXCEPT ![t] = want[t] - n]
      /\ Goto(t, rest)
      /\ UNCHANGED <<size, has_peek, peek_byte, holder, kept, call, arg, answer, next, quiet, low>>
  BY DEF Receive
<1>2. /\ n \in 0 .. Len(ring) /\ n <= want[t] /\ n <= size - start
      /\ n \in {want[t], Len(ring), size - start}
      /\ size \in Nat /\ start \in Nat /\ Len(ring) <= size
      /\ ring # <<>> => start < size
  BY ReceiveMoves
<1>3. rest \in Steps
  BY DEF Steps
<1> HIDE DEF n
<1>4. /\ ring \in Seq(Byte) /\ got[t] \in Seq(Byte) /\ want[t] \in Nat /\ arg[t] \in Nat
      /\ n \in Nat /\ Len(ring) \in Nat
  BY <1>0, <1>2 DEF QueueTypes, CallTypes
<1>5. /\ SubSeq(ring, 1, n) \in Seq(Byte) /\ Len(SubSeq(ring, 1, n)) = n
      /\ ring' \in Seq(Byte) /\ Len(ring') = Len(ring) - n
  BY <1>1, <1>2, <1>4, Split
<1>6. /\ got[t] \o SubSeq(ring, 1, n) \in Seq(Byte)
      /\ Len(got[t] \o SubSeq(ring, 1, n)) = Len(got[t]) + n
  <2> DEFINE s == SubSeq(ring, 1, n)
  <2>1. s \in Seq(Byte) /\ Len(s) = n /\ got[t] \in Seq(Byte)
    BY <1>4, <1>5
  <2> HIDE DEF s
  <2>2. got[t] \o s \in Seq(Byte) /\ Len(got[t] \o s) = Len(got[t]) + Len(s)
    BY <2>1, ConcatProperties
  <2> QED BY <2>1, <2>2 DEF s
<1>7. want[t] - n \in Nat
  BY <1>2, <1>4
<1>8. /\ got' \in [Tasks -> Seq(Byte)] /\ Len(got'[t]) = Len(got[t]) + n
      /\ want' \in [Tasks -> Nat] /\ want'[t] = want[t] - n
      /\ \A u \in Tasks \ {t} : want'[u] = want[u] /\ got'[u] = got[u]
  BY <1>0, <1>1, <1>6, <1>7 DEF CallTypes
<1>9. at[t] \in Held /\ holder' = t /\ holder' \in Tasks
  BY <1>0, <1>1 DEF Held, InHand, OneMover
<1>10. CallTypes' /\ OnlyBy(t) /\ at'[t] = rest
  BY <1>0, <1>1, <1>3, <1>8, <1>9, GotoKeepsTypes
<1>11. QueueTypes'
  <2>1. CASE n = 0
    BY <1>0, <1>1, <1>4, <1>5, <2>1 DEF QueueTypes
  <2>2. CASE n # 0
    <3>1. size \in Nat \ {0} /\ start + n \in Nat
      BY <1>2, <1>4, <2>2
    <3>2. (start + n) % size \in 0 .. size - 1
      BY <3>1
    <3> QED BY <1>0, <1>1, <1>2, <1>4, <1>5, <2>2, <3>2 DEF QueueTypes
  <2> QED BY <2>1, <2>2
<1>12. Reading(t) /\ Emptying(t)
  BY <1>0, <1>1 DEF Sound, InHand
<1>13. Reading(t)'
  <2>1. Len(got[t]) \in Nat
    BY <1>4
  <2>2. at'[t] \in {"receiveRest", "finish"} /\ arg'[t] = arg[t] /\ call'[t] = call[t]
    BY <1>1, <1>10
  <2>3. Len(got[t]) + want[t] <= arg[t] /\ call[t] \in {"read", "remove", "flush", "resize"}
    BY <1>1, <1>12 DEF Reading
  <2>4. Len(got'[t]) + want'[t] <= arg[t] /\ Len(got'[t]) <= arg[t]
    <3>1. Len(got'[t]) = Len(got[t]) + n /\ want'[t] = want[t] - n /\ n <= want[t]
          /\ Len(got[t]) + want[t] <= arg[t]
      BY <1>2, <1>8, <2>3
    <3>2. Len(got[t]) \in Nat /\ want[t] \in Nat /\ arg[t] \in Nat /\ n \in Nat
      BY <1>4, <2>1
    <3> QED BY ONLY <3>1, <3>2
  <2> QED BY ONLY <2>2, <2>3, <2>4 DEF Reading
<1>14. Emptying(t)'
  <2> SUFFICES ASSUME call[t] = "resize" PROVE Emptying(t)'
    BY <1>1 DEF Emptying
  <2>1. want[t] = Len(ring) /\ ring # <<>> /\ (at[t] = "receiveRest" => start = 0)
    BY <1>1, <1>12 DEF Emptying
  <2>2. ring' = <<>> <=> Len(ring') = 0
    BY <1>5
  <2>3. CASE n = want[t]
    BY <1>5, <1>10, <2>1, <2>2, <2>3 DEF Emptying
  <2>4. CASE n # want[t]
    <3>1. n = size - start /\ at[t] = "receive" /\ n \in 1 .. want[t] - 1
      <4>1. n = size - start /\ start < size
        BY <1>2, <2>1, <2>4
      <4>2. n > 0 /\ n < want[t]
        BY ONLY <1>2, <1>4, <2>4, <4>1
      <4>3. ~(start = 0)
        BY ONLY <1>2, <1>4, <2>1, <4>1, <4>2
      <4>4. at[t] = "receive"
        BY ONLY <1>1, <2>1, <4>3
      <4> QED BY ONLY <1>4, <4>1, <4>2, <4>4
    <3>2. start + n = size /\ size \in Nat \ {0}
      BY <1>2, <3>1
    <3>3. start' = 0
      <4>1. size % size = 0 /\ n # 0
        BY <3>1, <3>2
      <4> QED BY <1>1, <3>2, <4>1
    <3> QED BY <1>4, <1>5, <1>8, <1>10, <2>1, <2>2, <3>1, <3>3 DEF Emptying
  <2> QED BY <2>3, <2>4
<1>15. Sound(t)' /\ at'[t] \in Held
  BY <1>0, <1>1, <1>10, <1>13, <1>14 DEF Sound, Held, InHand
<1> QED BY <1>1, <1>9, <1>10, <1>11, <1>15, GoingOnKeepsInv

LEMMA ReadFinishKeepsInv ==
  ASSUME Inv, NEW t \in Tasks, ReadFinish(t)
  PROVE  Inv'
<1>0. /\ TypeOK /\ CallTypes /\ QueueTypes /\ Sound(t) /\ OneMover
      /\ at[t] = "finish" /\ has_peek' = FALSE
      /\ UNCHANGED <<ring, start, size, peek_byte, kept, next>>
  BY Types DEF Inv, ReadFinish
<1>1. at[t] \in Held /\ holder = t /\ QueueTypes'
  BY <1>0 DEF Held, InHand, OneMover, QueueTypes
<1>2. CASE call[t] = "resize"
  <2>1. /\ Goto(t, "swap") /\ "swap" \in Steps
        /\ UNCHANGED <<holder, call, arg, want, got, answer, quiet, low>>
    BY <1>2 DEF ReadFinish, Steps
  <2>2. CallTypes' /\ OnlyBy(t) /\ at'[t] = "swap"
    BY <1>0, <1>1, <2>1, GotoKeepsTypes DEF CallTypes
  <2>3. Sound(t)' /\ at'[t] \in Held
    BY <1>0, <1>2, <2>1, <2>2 DEF Sound, Held, InHand, Reading, Emptying
  <2> QED BY <1>0, <1>1, <2>1, <2>2, <2>3, GoingOnKeepsInv
<1>3. CASE call[t] # "resize"
  <2> DEFINE s == IF call[t] = "read" THEN got[t] ELSE <<>>
  <2>1. s \in Seq(Byte) /\ Return(t, s)
    BY <1>0, <1>3 DEF ReadFinish, CallTypes
  <2> HIDE DEF s
  <2> QED BY <1>0, <1>1, <2>1, ReturnKeepsInv
<1> QED BY <1>2, <1>3

(* New bytes go behind the others, as many as there is room for.            *)
LEMMA WriteAppends ==
  ASSUME Inv, NEW t \in Tasks, LockWrite(t),
         NEW n, n = Min({arg[t], Room}),
         NEW new, new = [i \in 1 .. n |-> (next + i - 1) % Modulus]
  PROVE  /\ n \in 0 .. Modulus - 1 /\ new \in Seq(Byte) /\ Len(new) = n
         /\ Len(ring) + n <= size
<1>0. QueueTypes /\ CallTypes
  BY Types DEF Inv
<1>1. /\ arg[t] \in Nat /\ Len(ring) \in Nat /\ size \in Nat /\ Len(ring) <= size
      /\ size < Modulus /\ Modulus \in Nat \ {0} /\ next \in Nat
  BY <1>0, CbufAssumption DEF QueueTypes, CallTypes, Byte
<1>2. Room \in Nat /\ Room = size - Len(ring)
  BY <1>1 DEF Room
<1>3. n \in Nat /\ n <= Room
  BY <1>1, <1>2, MinOfTwo
<1>4. \A i \in 1 .. n : (next + i - 1) % Modulus \in Byte
  BY <1>1, <1>3 DEF Byte
<1>5. new \in Seq(Byte) /\ Len(new) = n
  <2>1. new \in [1 .. n -> Byte]
    BY <1>4
  <2>2. n \in Nat
    BY <1>3
  <2> QED BY ONLY <2>1, <2>2
<1> QED BY <1>1, <1>2, <1>3, <1>5

LEMMA LockWriteKeepsInv ==
  ASSUME Inv, NEW t \in Tasks, LockWrite(t)
  PROVE  Inv'
<1> DEFINE n == Min({arg[t], Room})
           new == [i \in 1 .. n |-> (next + i - 1) % Modulus]
<1>0. QueueTypes /\ Return(t, <<>>) /\ CanLock(t) /\ <<>> \in Seq(Byte)
  BY Types DEF Inv, LockWrite
<1>1. /\ n \in 0 .. Modulus - 1 /\ new \in Seq(Byte) /\ Len(new) = n
      /\ Len(ring) + n <= size
  BY WriteAppends
<1>2. /\ ring' = ring \o new /\ next' = (next + n) % Modulus
      /\ UNCHANGED <<start, size, has_peek, peek_byte, kept>>
  BY DEF LockWrite
<1> HIDE DEF new, n
<1>3. ring' \in Seq(Byte) /\ Len(ring') = Len(ring) + n
  BY <1>0, <1>1, <1>2, ConcatProperties DEF QueueTypes
<1>4. next' \in Byte
  <2>1. next + n \in Nat /\ Modulus \in Nat \ {0}
    BY <1>0, <1>1, CbufAssumption DEF QueueTypes, Byte
  <2> QED BY <1>2, <2>1 DEF Byte
<1>5. QueueTypes'
  BY <1>0, <1>1, <1>2, <1>3, <1>4 DEF QueueTypes
<1> QED BY <1>0, <1>2, <1>5, ReturnKeepsInv

LEMMA ResizeKeepsInv ==
  ASSUME Inv, NEW t \in Tasks,
         ResizeRefused(t) \/ ResizeEmpty(t) \/ ResizeReads(t) \/ ResizeSwap(t)
  PROVE  Inv'
<1>0. TypeOK /\ CallTypes /\ QueueTypes /\ Sound(t) /\ <<>> \in Seq(Byte)
  BY Types DEF Inv
<1>1. CASE ResizeRefused(t)
  <2>1. QueueTypes'
    BY <1>0, <1>1 DEF ResizeRefused, shared, QueueTypes
  <2> QED BY <1>0, <1>1, <2>1, ReturnKeepsInv DEF ResizeRefused, CanResize
<1>2. CASE ResizeEmpty(t)
  <2>1. arg[t] \in Sizes /\ arg[t] \in Nat
    BY <1>0, <1>2, CbufAssumption DEF ResizeEmpty, CanResize, Sound
  <2>2. QueueTypes'
    BY <1>0, <1>2, <2>1 DEF ResizeEmpty, NewRing, QueueTypes
  <2> QED BY <1>0, <1>2, <2>2, ReturnKeepsInv DEF ResizeEmpty, CanResize
<1>3. CASE ResizeReads(t)
  <2>1. Available \in Nat
    BY <1>0, ItemsType DEF Available, QueueTypes
  <2>2. /\ CanLock(t) /\ call[t] = "resize" /\ Available \in Nat \ {0}
        /\ Available <= arg[t] /\ BeginRead(t, Available)
        /\ UNCHANGED <<shared, kept, next>>
    BY <1>0, <1>3, <2>1 DEF ResizeReads, CanResize, CallTypes
  <2>3. Available > 0
    BY <2>2
  <2> QED BY <2>2, <2>3, BeginReadKeepsInv
<1>4. CASE ResizeSwap(t)
  <2>1. /\ at[t] = "swap" /\ Reading(t) /\ Return(t, <<>>)
        /\ size' = arg[t] /\ ring' = got[t] /\ start' = 0
        /\ UNCHANGED <<has_peek, peek_byte, kept, next>>
    BY <1>0, <1>4 DEF ResizeSwap, NewRing, Sound, InHand
  <2>2. arg[t] \in Sizes /\ got[t] \in Seq(Byte) /\ Len(got[t]) <= arg[t]
    BY <1>0, <2>1 DEF Sound, Reading, CallTypes
  <2>3. QueueTypes' /\ at[t] \in Held
    BY <1>0, <2>1, <2>2 DEF QueueTypes, Held, InHand
  <2> QED BY <1>0, <2>1, <2>3, ReturnKeepsInv
<1> QED BY <1>1, <1>2, <1>3, <1>4

LEMMA ResizeSameKeepsInv ==
  ASSUME Inv, NEW t \in Tasks, ResizeSame(t)
  PROVE  Inv'
<1>0. TypeOK /\ CallTypes /\ QueueTypes /\ Sound(t) /\ CanLock(t)
  BY Types DEF Inv, ResizeSame
<1>1. answer' \in [by : Calls \cup {"none"}, bytes : Seq(Byte)]
  <2>1. <<>> \in Seq(Byte)
    OBVIOUS
  <2> QED BY <2>1 DEF ResizeSame, Answer, Calls
<1>2. /\ at' \in [Tasks -> Steps] /\ at'[t] = "idle"
      /\ call' \in [Tasks -> Calls] /\ call'[t] = "available"
  BY <1>0 DEF ResizeSame, Goto, CallTypes, Steps, Calls
<1>3. arg' \in [Tasks -> Nat] /\ low' \in [Tasks -> Nat] /\ want' = want /\ got' = got
  BY <1>0 DEF ResizeSame, CallTypes
<1>4. quiet' \in [Tasks -> BOOLEAN] /\ kept' = TRUE /\ holder' = t
  BY <1>0 DEF ResizeSame, CallTypes
<1>5. QueueTypes' /\ CallTypes'
  <2>1. QueueTypes'
    BY <1>0 DEF ResizeSame, shared, QueueTypes
  <2> QED BY <1>0, <1>1, <1>2, <1>3, <1>4, <2>1 DEF CallTypes
<1>6. OnlyBy(t)
  BY <1>0 DEF ResizeSame, Goto, CallTypes, OnlyBy
<1>7. \A u \in Tasks \ {t} : at[u] \notin Held
  BY <1>0, OthersAreOut DEF Inv
<1>8. OneMover'
  BY <1>2, <1>4, <1>6, <1>7 DEF OneMover, OnlyBy, Held, InHand
<1>9. Sound(t)'
  BY <1>0, <1>2, <1>3 DEF Sound, InHand, CanLock
<1>10. \A u \in Tasks : Sound(u)'
  BY <1>6, <1>7, <1>9, OthersStaySound DEF Inv
<1> QED BY <1>5, <1>8, <1>10, TypesNext DEF Inv

-----------------------------------------------------------------------------
LEMMA CallsKeepInv ==
  ASSUME Inv, NEW t \in Tasks, ConsumerCalls(t) \/ ProducerCalls(t)
  PROVE  Inv'
<1>1. \E method \in Calls, n \in Nat :
        (method = "resize" => n \in Sizes) /\ Start(t, method, n)
  <2>1. CASE \E method \in {"available", "peek", "flush"} : Start(t, method, 0)
    BY <2>1 DEF Calls
  <2>2. CASE \E method \in {"read", "remove"}, n \in 1 .. MaxCount : Start(t, method, n)
    BY <2>2, CbufAssumption DEF Calls
  <2>3. CASE \E n \in Sizes : Start(t, "resize", n)
    BY <2>3, CbufAssumption DEF Calls
  <2>4. CASE ProducerCalls(t)
    BY <2>4, CbufAssumption DEF ProducerCalls, Calls
  <2> QED BY <2>1, <2>2, <2>3, <2>4 DEF ConsumerCalls
<1> QED BY <1>1, StartKeepsInv

LEMMA NextKeepsInv == Inv /\ [Next]_vars => Inv'
<1> SUFFICES ASSUME Inv, [Next]_vars PROVE Inv'
  OBVIOUS
<1>1. CASE \E t \in Consumers : ConsumerCalls(t)
  BY <1>1, CallsKeepInv DEF Tasks
<1>2. CASE \E t \in Producers : ProducerCalls(t)
  BY <1>2, CallsKeepInv DEF Tasks
<1>3. ASSUME NEW t \in Tasks, Lock(t) \/ Continue(t) PROVE Inv'
  <2>1. CASE Lock(t)
    BY <2>1, PeekKeepsInv, LockReadKeepsInv, LockWriteKeepsInv, ResizeSameKeepsInv,
       ResizeKeepsInv DEF Lock
  <2>2. CASE Continue(t)
    BY <2>2, InfoKeepsInv, PeekKeepsInv, ReceiveKeepsInv, ReadFinishKeepsInv,
       ResizeKeepsInv DEF Continue
  <2> QED BY <1>3, <2>1, <2>2
<1>4. CASE UNCHANGED vars
  BY <1>4 DEF vars, Inv, TypeOK, OneMover, Sound, Peeking, Reading, Emptying
<1> QED BY <1>1, <1>2, <1>3, <1>4 DEF Next

LEMMA InvIsInvariant == Spec => []Inv
BY InitEstablishesInv, NextKeepsInv, PTL DEF Spec

(* The ring buffer's fill and read position stay inside it, for every size. *)
THEOREM TypeCorrectness == Spec => []TypeOK
BY InvIsInvariant, PTL DEF Inv

(* Every path gives the mutex back, but resize() to the size there is.      *)
THEOREM TheMutexIsGivenBack == Spec => []MutexIsGivenBack
<1>1. Inv => MutexIsGivenBack
  BY DEF Inv, OneMover, MutexIsGivenBack, Held, InHand
<1> QED BY <1>1, InvIsInvariant, PTL

(* read() never writes past the end of the caller's buffer.                 *)
THEOREM ReadsStayInTheirBuffer == Spec => []NoOverrun
<1>1. Inv => NoOverrun
  <2> SUFFICES ASSUME Inv, NEW t \in Tasks PROVE Len(got[t]) <= arg[t] \/ call[t] = "peek"
    BY DEF NoOverrun
  <2>1. /\ Sound(t) /\ got[t] \in Seq(Byte) /\ arg[t] \in Nat /\ want[t] \in Nat
        /\ at[t] \in Steps
    BY DEF Inv, TypeOK
  <2>2. CASE at[t] \notin InHand
    BY <2>1, <2>2 DEF Sound
  <2>3. CASE at[t] = "peekSet"
    BY <2>1, <2>3 DEF Sound, Peeking
  <2>4. CASE at[t] \in InHand \ {"peekSet"}
    <3>1. Reading(t) /\ Len(got[t]) \in Nat
      BY <2>1, <2>4 DEF Sound
    <3> QED BY <2>1, <2>4, <3>1 DEF Reading, InHand
  <2> QED BY <2>2, <2>3, <2>4
<1> QED BY <1>1, InvIsInvariant, PTL
-----------------------------------------------------------------------------
(* While available() is undisturbed only producers move the queue, and they *)
(* make it longer: what it has seen of it is at least what there was, and    *)
(* at most what there is.                                                   *)
Undisturbed(t) ==
  /\ t \in Consumers /\ call[t] = "available" /\ at[t] \in {"info", "infoPeek"}
  /\ \A c \in Consumers \ {t} : at[c] = "idle"
  /\ low[t] <= Available
  /\ at[t] = "infoPeek" => Seen(t) \in low[t] .. Available

OnlyWrites(p) == at[p] \in {"idle", "lock"} /\ (at[p] = "lock" => call[p] = "write")

Asked ==
  /\ \A p \in Producers : OnlyWrites(p)
  /\ \A t \in Tasks : quiet[t] => Undisturbed(t)

LEMMA AvailableIsNatural ==
  ASSUME TypeOK
  PROVE  Available \in Nat /\ Len(ring) \in Nat /\ Len(Peeked) \in Nat
<1>1. Len(ring) \in Nat
  <2>1. ring \in Seq(Byte)
    BY DEF TypeOK
  <2> QED BY ONLY <2>1
<1>2. Len(Peeked) \in Nat
  BY ItemsType
<1> QED BY ONLY <1>1, <1>2 DEF Available

LEMMA AvailableStaysNatural ==
  ASSUME TypeOK'
  PROVE  Available' \in Nat
<1>1. Len(ring') \in Nat
  <2>1. ring' \in Seq(Byte)
    BY DEF TypeOK
  <2> QED BY ONLY <2>1
<1>2. Peeked' = IF has_peek' THEN <<peek_byte'>> ELSE <<>>
  BY DEF Peeked
<1>3. Len(Peeked') \in Nat
  BY ONLY <1>2
<1> QED BY ONLY <1>1, <1>3 DEF Available

(* With nothing in hand the queue is what the two places hold.              *)
LEMMA NothingInHand ==
  ASSUME TypeOK, Asked, NEW t \in Consumers, at[t] \notin InHand,
         \A c \in Consumers \ {t} : at[c] = "idle"
  PROVE  Len(Items) = Available
<1>1. Holding = {}
  <2>1. \A u \in Tasks : at[u] \notin InHand
    BY DEF Asked, OnlyWrites, InHand, Tasks
  <2> QED BY <2>1 DEF Holding, InHand
<1>2. Items = Peeked \o ring
  BY <1>1 DEF Items
<1>3. Peeked \in Seq(Byte) /\ ring \in Seq(Byte)
  BY ItemsType DEF TypeOK
<1>4. Len(Peeked \o ring) = Len(Peeked) + Len(ring)
  BY <1>3, ConcatProperties
<1> QED BY ONLY <1>2, <1>3, <1>4 DEF Available

LEMMA CallsStayAsked ==
  ASSUME TypeOK, Asked, NEW u \in Tasks,
         \/ u \in Consumers /\ ConsumerCalls(u)
         \/ u \in Producers /\ ProducerCalls(u)
  PROVE  Asked'
<1>1. PICK method \in Calls, n \in Nat :
        /\ Start(u, method, n)
        /\ u \in Producers => method = "write"
        /\ u \in Consumers => method # "write"
  <2>1. CASE u \in Consumers /\ ConsumerCalls(u)
    BY <2>1, CbufAssumption DEF ConsumerCalls, Calls
  <2>2. CASE u \in Producers /\ ProducerCalls(u)
    BY <2>2, CbufAssumption DEF ProducerCalls, Calls
  <2> QED BY <2>1, <2>2
<1>2. /\ at[u] = "idle"
      /\ at' = [at EXCEPT ![u] = IF method \in {"available", "peek", "flush"}
                                 THEN "info" ELSE "lock"]
      /\ call' = [call EXCEPT ![u] = method]
      /\ UNCHANGED <<ring, has_peek, peek_byte, want>>
  BY <1>1 DEF Start, Goto, shared
<1>3. at \in [Tasks -> Steps] /\ call \in [Tasks -> Calls] /\ quiet \in [Tasks -> BOOLEAN]
  BY DEF TypeOK
<1>4. Available' = Available /\ \A t \in Tasks : Seen(t)' = Seen(t)
  BY <1>2 DEF Available, Seen, Peeked
<1>5. \A p \in Producers : OnlyWrites(p)'
  BY <1>1, <1>2, <1>3, CbufAssumption DEF Asked, OnlyWrites, Tasks
<1>6. ASSUME NEW t \in Tasks, quiet'[t] PROVE Undisturbed(t)'
  <2>1. CASE t = u
    <3>1. method = "available" /\ \A c \in Consumers \ {u} : at[c] = "idle"
      BY <1>1, <1>6, <2>1 DEF Start
    <3>2. u \in Consumers
      BY <1>1, <3>1 DEF Tasks
    <3>3. Len(Items) = Available
      BY <1>2, <3>1, <3>2, NothingInHand DEF InHand
    <3>4. low'[u] = Len(Items)
      BY <1>1, <1>6, <2>1 DEF Start
    <3>5. Available \in Nat
      BY AvailableIsNatural DEF TypeOK
    <3>6. /\ call'[u] = "available" /\ at'[u] = "info"
          /\ \A c \in Consumers \ {u} : at'[c] = "idle"
      BY <1>2, <1>3, <3>1 DEF Tasks
    <3> QED BY ONLY <1>4, <2>1, <3>2, <3>3, <3>4, <3>5, <3>6 DEF Undisturbed
  <2>2. CASE t # u
    <3>1. quiet[t] /\ u \in Producers /\ low'[t] = low[t]
      BY <1>1, <1>6, <2>2 DEF Start
    <3>2. Undisturbed(t)
      BY <3>1 DEF Asked
    <3>3. /\ call'[t] = call[t] /\ at'[t] = at[t]
          /\ \A c \in Consumers \ {t} : at'[c] = at[c]
      BY <1>2, <1>3, <2>2, <3>1, CbufAssumption DEF Tasks
    <3> QED BY ONLY <1>4, <3>1, <3>2, <3>3, CbufAssumption DEF Undisturbed
  <2> QED BY <2>1, <2>2
<1> QED BY <1>5, <1>6 DEF Asked

(* A call that returns is quiet no more and the others are as they were.    *)
LEMMA OthersStayAsked ==
  ASSUME TypeOK, TypeOK', Asked, NEW u \in Tasks,
         \A t \in Tasks \ {u} :
            at'[t] = at[t] /\ call'[t] = call[t] /\ want'[t] = want[t]
              /\ quiet'[t] = quiet[t] /\ low'[t] = low[t],
         u \in Producers => OnlyWrites(u)',
         quiet'[u] => Undisturbed(u)',
         u \in Consumers => at[u] # "idle",
         u \in Producers => Peeked' = Peeked /\ Available' >= Available
  PROVE  Asked'
<1>1. \A p \in Producers : OnlyWrites(p)'
  BY DEF Asked, OnlyWrites, Tasks
<1>2. ASSUME NEW t \in Tasks, quiet'[t], t # u PROVE Undisturbed(t)'
  <2>1. quiet[t] /\ Undisturbed(t)
    BY <1>2 DEF Asked
  <2>2. u \in Producers
    BY <1>2, <2>1 DEF Undisturbed, Tasks
  <2>3. Seen(t)' = Seen(t) /\ Available' >= Available
    BY <1>2, <2>2 DEF Seen
  <2>4. Available \in Nat /\ low[t] \in Nat /\ Seen(t) \in Nat
    <3>1. low[t] \in Nat /\ want[t] \in Nat
      BY DEF TypeOK
    <3> QED BY <3>1, AvailableIsNatural DEF Seen
  <2>5. Available' \in Nat
    BY AvailableStaysNatural
  <2>6. /\ call'[t] = call[t] /\ at'[t] = at[t] /\ low'[t] = low[t]
        /\ \A c \in Consumers \ {t} : at'[c] = at[c]
    BY <1>2, <2>2, CbufAssumption DEF Tasks
  <2> QED BY ONLY <2>1, <2>2, <2>3, <2>4, <2>5, <2>6 DEF Undisturbed
<1> QED BY <1>1, <1>2 DEF Asked

LEMMA StepsAreLocal ==
  ASSUME TypeOK, NEW u \in Tasks, Lock(u) \/ Continue(u)
  PROVE  /\ \A t \in Tasks \ {u} :
              /\ at'[t] = at[t] /\ call'[t] = call[t] /\ want'[t] = want[t]
              /\ quiet'[t] = quiet[t] /\ low'[t] = low[t]
         /\ at[u] # "idle"
         /\ quiet'[u] => quiet[u]
<1> USE DEF TypeOK, Return, Goto, BeginRead
<1>1. CASE InfoRing(u)
  BY <1>1 DEF InfoRing
<1>2. CASE InfoDone(u)
  BY <1>2 DEF InfoDone
<1>3. CASE LockPeek(u) \/ PeekRead(u) \/ PeekSet(u)
  BY <1>3 DEF LockPeek, CanLock, PeekRead, PeekSet
<1>4. CASE LockRead(u) \/ Receive(u) \/ ReadFinish(u)
  BY <1>4 DEF LockRead, CanLock, Receive, ReadFinish
<1>5. CASE LockWrite(u)
  BY <1>5 DEF LockWrite, CanLock
<1>6. CASE ResizeSame(u)
  BY <1>6 DEF ResizeSame, CanLock
<1>7. CASE ResizeRefused(u) \/ ResizeEmpty(u) \/ ResizeReads(u) \/ ResizeSwap(u)
  BY <1>7 DEF ResizeRefused, ResizeEmpty, ResizeReads, ResizeSwap, CanResize, CanLock
<1> QED BY <1>1, <1>2, <1>3, <1>4, <1>5, <1>6, <1>7 DEF Lock, Continue

(* A producer only writes: the queue grows at its end.                      *)
LEMMA ProducersAppend ==
  ASSUME Inv, TypeOK', Asked, NEW u \in Producers, Lock(u) \/ Continue(u)
  PROVE  /\ OnlyWrites(u)' /\ ~quiet'[u]
         /\ Peeked' = Peeked /\ Available' >= Available
<1>1. u \in Tasks /\ TypeOK /\ OnlyWrites(u) /\ at[u] # "idle"
  BY StepsAreLocal DEF Asked, Tasks, Inv
<1>2. at[u] = "lock" /\ call[u] = "write"
  BY <1>1 DEF OnlyWrites
<1>3. LockWrite(u)
  BY <1>2 DEF Lock, Continue, InfoRing, InfoDone, PeekRead, PeekSet, Receive, ReadFinish,
     ResizeSwap, LockPeek, LockRead, ResizeSame, ResizeRefused, ResizeEmpty, ResizeReads,
     CanResize
<1>4. at'[u] = "idle" /\ ~quiet'[u] /\ UNCHANGED <<has_peek, peek_byte>>
  BY <1>1, <1>3 DEF LockWrite, Return, Goto, TypeOK
<1>5. Len(ring') \in Nat /\ Len(ring) \in Nat /\ Len(ring') >= Len(ring)
  <2> DEFINE n == Min({arg[u], Room})
             new == [i \in 1 .. n |-> (next + i - 1) % Modulus]
  <2>1. n \in 0 .. Modulus - 1 /\ new \in Seq(Byte) /\ Len(new) = n
    BY <1>1, <1>3, WriteAppends
  <2>2. ring' = ring \o new
    BY <1>3 DEF LockWrite
  <2>3. ring \in Seq(Byte)
    BY <1>1 DEF TypeOK
  <2>4. Modulus \in Nat
    BY CbufAssumption
  <2> HIDE DEF n, new
  <2>5. Len(ring \o new) = Len(ring) + n
    BY <2>1, <2>3, ConcatProperties
  <2>6. Len(ring) \in Nat
    BY ONLY <2>3
  <2> QED BY ONLY <2>1, <2>2, <2>4, <2>5, <2>6
<1>6. Peeked' = Peeked
  BY <1>4 DEF Peeked
<1>7. Len(Peeked) \in Nat
  BY <1>1, AvailableIsNatural
<1>8. Available' >= Available
  BY ONLY <1>5, <1>6, <1>7 DEF Available
<1> QED BY <1>4, <1>6, <1>8 DEF OnlyWrites

(* available() itself: what it finds is what there is.                      *)
LEMMA LookingStaysAsked ==
  ASSUME Inv, Asked, NEW u \in Consumers, quiet[u], quiet'[u], Lock(u) \/ Continue(u)
  PROVE  Undisturbed(u)'
<1>1. /\ u \in Tasks /\ TypeOK /\ Undisturbed(u) /\ at[u] \in {"info", "infoPeek"}
      /\ call[u] = "available"
  BY DEF Tasks, Inv, Asked, Undisturbed
<1>2. InfoRing(u) \/ InfoDone(u)
  BY <1>1 DEF Lock, Continue, PeekRead, PeekSet, Receive, ReadFinish,
     ResizeSwap, LockPeek, LockRead, LockWrite, ResizeSame, ResizeRefused, ResizeEmpty,
     ResizeReads, CanResize, CanLock
<1>3. CASE InfoDone(u)
  BY <1>1, <1>3 DEF InfoDone, Return, TypeOK
<1>4. CASE InfoRing(u)
  <2>1. ~Torn(u)
    BY <1>1 DEF Torn, Asked, OnlyWrites, Undisturbed, Tasks
  <2>2. want' = [want EXCEPT ![u] = Len(ring)] /\ at' = [at EXCEPT ![u] = "infoPeek"]
    BY <1>4, <2>1 DEF InfoRing, Goto
  <2>3. /\ want'[u] = Len(ring) /\ at'[u] = "infoPeek"
        /\ \A c \in Consumers \ {u} : at'[c] = at[c]
    BY <1>1, <2>2 DEF TypeOK
  <2>4. call' = call /\ low' = low /\ Available' = Available /\ Peeked' = Peeked
    BY <1>4 DEF InfoRing, shared, Available, Peeked
  <2>5. Available \in Nat /\ low[u] \in Nat
    BY <1>1, AvailableIsNatural DEF TypeOK
  <2>6. Seen(u)' = Available
    BY <2>3, <2>4 DEF Seen, Available
  <2> QED BY ONLY <1>1, <2>3, <2>4, <2>5, <2>6 DEF Undisturbed
<1> QED BY <1>2, <1>3, <1>4

LEMMA StepsStayAsked ==
  ASSUME Inv, TypeOK', Asked, NEW u \in Tasks, Lock(u) \/ Continue(u)
  PROVE  Asked'
<1>1. TypeOK
  BY DEF Inv
<1>2. /\ \A t \in Tasks \ {u} :
           /\ at'[t] = at[t] /\ call'[t] = call[t] /\ want'[t] = want[t]
           /\ quiet'[t] = quiet[t] /\ low'[t] = low[t]
      /\ at[u] # "idle"
  BY <1>1, StepsAreLocal
<1>3. CASE u \in Producers
  BY <1>1, <1>2, <1>3, CbufAssumption, ProducersAppend, OthersStayAsked
<1>4. CASE u \in Consumers
  <2>1. quiet'[u] => quiet[u]
    BY <1>1, StepsAreLocal
  <2>2. quiet'[u] => Undisturbed(u)'
    BY <1>4, <2>1, LookingStaysAsked
  <2> QED BY <1>1, <1>2, <1>4, <2>2, CbufAssumption, OthersStayAsked
<1> QED BY <1>3, <1>4 DEF Tasks

LEMMA AskedIsInductive == Inv /\ Inv' /\ Asked /\ [Next]_vars => Asked'
<1> SUFFICES ASSUME Inv, Inv', Asked, [Next]_vars PROVE Asked'
  OBVIOUS
<1>1. TypeOK /\ TypeOK'
  BY DEF Inv
<1>2. CASE \E t \in Consumers : ConsumerCalls(t)
  <2>1. PICK t \in Consumers : ConsumerCalls(t)
    BY <1>2
  <2>2. t \in Tasks
    BY DEF Tasks
  <2> QED BY <1>1, <2>1, <2>2, CallsStayAsked
<1>3. CASE \E t \in Producers : ProducerCalls(t)
  <2>1. PICK t \in Producers : ProducerCalls(t)
    BY <1>3
  <2>2. t \in Tasks
    BY DEF Tasks
  <2> QED BY <1>1, <2>1, <2>2, CallsStayAsked
<1>4. CASE \E t \in Tasks : Lock(t) \/ Continue(t)
  BY <1>1, <1>4, StepsStayAsked
<1>5. CASE UNCHANGED vars
  BY <1>5 DEF vars, Asked, OnlyWrites, Undisturbed, Available, Seen, Peeked
<1> QED BY <1>2, <1>3, <1>4, <1>5 DEF Next

(* An undisturbed available() tells what there is: no byte is missed, and   *)
(* none is promised that a read() would not find.                           *)
THEOREM AvailableTellsTheTruth == Spec => []AvailableIsExact
<1>1. Init => Asked
  <2> SUFFICES ASSUME Init PROVE Asked
    OBVIOUS
  <2> QED BY DEF Init, Asked, OnlyWrites, Tasks
<1>2. Inv /\ Asked => AvailableIsExact
  <2> SUFFICES ASSUME Inv, Asked, NEW t \in Consumers, at[t] = "infoPeek", quiet[t]
               PROVE  Seen(t) \in low[t] .. Len(Items)
    BY DEF AvailableIsExact
  <2>1. TypeOK /\ Undisturbed(t)
    BY DEF Inv, Asked, Tasks
  <2>2. Len(Items) = Available
    BY <2>1, NothingInHand DEF Undisturbed, InHand
  <2> QED BY <2>1, <2>2 DEF Undisturbed
<1> QED BY <1>1, <1>2, InvIsInvariant, AskedIsInductive, PTL DEF Spec
-----------------------------------------------------------------------------
(* Cbuf implements Fifo.                                                    *)

(* What Items is, by where the bytes are.                                   *)
LEMMA NobodyInHand ==
  ASSUME \A u \in Tasks : at[u] \notin InHand
  PROVE  Items = Peeked \o ring
BY DEF Items, Holding, InHand

LEMMA NobodyInHandNext ==
  ASSUME \A u \in Tasks : at'[u] \notin InHand
  PROVE  Items' = Peeked' \o ring'
BY DEF Items, Holding, InHand

LEMMA TheOnlyElement ==
  ASSUME NEW S, NEW x \in S, \A y \in S : y = x
  PROVE  (CHOOSE y \in S : TRUE) = x
OBVIOUS

LEMMA OneInHand ==
  ASSUME NEW t \in Tasks, at[t] \in InHand, \A u \in Tasks \ {t} : at[u] \notin InHand
  PROVE  Items = got[t] \o ring
<1>1. t \in Holding /\ \A u \in Holding : u = t
  BY DEF Holding, InHand
<1>2. (CHOOSE u \in Holding : TRUE) = t
  BY <1>1, TheOnlyElement
<1> QED BY <1>1, <1>2 DEF Items

LEMMA OneInHandNext ==
  ASSUME NEW t \in Tasks, at'[t] \in InHand, \A u \in Tasks \ {t} : at'[u] \notin InHand
  PROVE  Items' = got'[t] \o ring'
<1>1. t \in Holding' /\ \A u \in Holding' : u = t
  BY DEF Holding, InHand
<1>2. (CHOOSE u \in Holding' : TRUE) = t
  BY <1>1, TheOnlyElement
<1> QED BY <1>1, <1>2 DEF Items

(* A task with empty hands that leaves the store alone leaves Items alone.  *)
LEMMA LookingKeepsItems ==
  ASSUME NEW t \in Tasks, at[t] \notin InHand, at'[t] \notin InHand,
         OnlyBy(t), UNCHANGED <<ring, has_peek, peek_byte>>
  PROVE  Items' = Items
<1>1. Holding' = Holding
  BY DEF Holding, InHand, OnlyBy
<1>2. Peeked' = Peeked
  BY DEF Peeked
<1>3. CASE Holding = {}
  BY <1>1, <1>2, <1>3 DEF Items
<1>4. CASE Holding # {}
  <2> DEFINE u == CHOOSE x \in Holding : TRUE
  <2>1. u \in Tasks \ {t}
    BY <1>4 DEF Holding, InHand
  <2>2. Items = got[u] \o ring /\ Items' = got'[u] \o ring'
    BY <1>1, <1>4 DEF Items
  <2> HIDE DEF u
  <2> QED BY <2>1, <2>2 DEF OnlyBy
<1> QED BY <1>3, <1>4

LEMMA HandsAreEmpty ==
  ASSUME Inv, NEW t \in Tasks, CanLock(t)
  PROVE  /\ \A u \in Tasks : at[u] \notin InHand
         /\ Items = Peeked \o ring
<1>1. \A u \in Tasks : at[u] \notin InHand
  BY OthersAreOut, LockerIsOut DEF Inv, Held
<1> QED BY <1>1, NobodyInHand

LEMMA OthersHandsAreEmpty ==
  ASSUME Inv, NEW t \in Tasks, CanLock(t) \/ at[t] \in Held
  PROVE  \A u \in Tasks \ {t} : at[u] \notin InHand
BY OthersAreOut DEF Inv, Held

-----------------------------------------------------------------------------
(* Parts of sequences.                                                      *)
LEMMA DropFront ==
  ASSUME NEW S, NEW s \in Seq(S), NEW r \in Seq(S)
  PROVE  /\ SubSeq(s \o r, 1, Len(s)) = s
         /\ SubSeq(s \o r, Len(s) + 1, Len(s \o r)) = r
         /\ Len(s) \in 0 .. Len(s \o r)
<1> DEFINE all == s \o r
           front == SubSeq(all, 1, Len(s))
           back == SubSeq(all, Len(s) + 1, Len(all))
<1>0. Len(s) \in Nat /\ Len(r) \in Nat
  OBVIOUS
<1>1. /\ all \in Seq(S) /\ Len(all) = Len(s) + Len(r)
      /\ \A i \in 1 .. Len(s) + Len(r) :
           all[i] = IF i <= Len(s) THEN s[i] ELSE r[i - Len(s)]
  BY ConcatProperties
<1>2. Len(s) \in 0 .. Len(all)
  BY <1>0, <1>1
<1> HIDE DEF all
<1>3. /\ front \in Seq(S) /\ Len(front) = Len(s)
      /\ \A i \in 1 .. Len(s) : front[i] = all[i]
  BY <1>0, <1>1, SubSeqProperties
<1>4. /\ back \in Seq(S) /\ Len(back) = Len(r)
      /\ \A i \in 1 .. Len(r) : back[i] = all[Len(s) + i]
  BY <1>0, <1>1, SubSeqProperties
<1> HIDE DEF front, back
<1>5. front = s
  <2>1. \A i \in 1 .. Len(front) : front[i] = s[i]
    BY <1>0, <1>1, <1>3
  <2> QED BY <1>3, <2>1, SeqEqual
<1>6. back = r
  <2>1. \A i \in 1 .. Len(back) : back[i] = r[i]
    BY <1>0, <1>1, <1>4
  <2> QED BY <1>4, <2>1, SeqEqual
<1> QED BY <1>2, <1>5, <1>6 DEF front, back, all

LEMMA Regroup ==
  \A x, y, z \in Seq(Byte) : (x \o y) \o z = x \o (y \o z)
BY ConcatAssociative

LEMMA OneByte ==
  ASSUME NEW S, NEW s \in Seq(S), Len(s) = 1
  PROVE  s = <<Head(s)>> /\ Head(s) \in S
<1>1. Head(s) = s[1] /\ Head(s) \in S
  <2>1. 1 \in 1 .. Len(s) /\ 1 \in 1 .. 1
    OBVIOUS
  <2>2. Head(SubSeq(s, 1, 1)) = s[1]
    BY <2>1, HeadTailOfSubSeq
  <2>3. SubSeq(s, 1, 1) = s
    BY SubSeqFull
  <2> QED BY <2>1, <2>2, <2>3, ElementOfSeq
<1> DEFINE one == <<Head(s)>>
<1>2. one \in Seq(S) /\ Len(one) = 1 /\ one[1] = Head(s)
  BY <1>1
<1> HIDE DEF one
<1>3. \A i \in 1 .. Len(s) : s[i] = one[i]
  BY <1>1, <1>2
<1>4. s = one
  BY <1>2, <1>3, SeqEqual
<1> QED BY <1>1, <1>4 DEF one

LEMMA HeadThenTail ==
  ASSUME NEW S, NEW s \in Seq(S), s # <<>>
  PROVE  <<Head(s)>> \o Tail(s) = s
<1>1. Len(s) \in Nat \ {0}
  BY EmptySeq
<1>2. SubSeq(s, 1, Len(s)) = <<s[1]>> \o SubSeq(s, 2, Len(s))
  BY <1>1, SubSeqRecursiveFirst
<1> QED BY <1>2, SubSeqFull, TailIsSubSeq

-----------------------------------------------------------------------------
(* The steps of the queue.                                                  *)
QueueStep == Queue!Next \/ UNCHANGED <<Items, next, answer>>

LEMMA StoreKept ==
  ASSUME UNCHANGED <<Items, next>>,
         \/ answer' = answer
         \/ answer' = Answer("none", <<>>)
         \/ answer' = Answer("available", <<>>)
         \/ answer' = Answer("resize", <<>>)
         \/ answer' = Answer("peek", <<>>)
         \/ Items # <<>> /\ answer' = Answer("peek", <<Head(Items)>>)
  PROVE  QueueStep
BY DEF QueueStep, Queue!Next, Queue!Call, Queue!NoAnswer, Queue!Answer, Queue!Other,
       Queue!Peek, Answer

LEMMA NothingTaken ==
  ASSUME UNCHANGED <<Items, next>>, Items \in Seq(Byte),
         NEW method \in {"read", "remove", "flush"}, answer' = Answer(method, <<>>)
  PROVE  QueueStep
<1>1. /\ SubSeq(Items, 1, Len(Items)) = Items /\ SubSeq(Items, 1, 0) = <<>>
      /\ 0 \in 0 .. Len(Items)
  BY SubSeqFull, SubSeqEmpty
<1>2. Queue!Drop(0)
  BY <1>1 DEF Queue!Drop
<1>3. CASE method = "read"
  BY <1>1, <1>2, <1>3 DEF QueueStep, Queue!Next, Queue!Read, Queue!Answer, Answer
<1>4. CASE method # "read"
  BY <1>1, <1>2, <1>4 DEF QueueStep, Queue!Next, Queue!Remove, Queue!Answer, Answer
<1> QED BY <1>3, <1>4

LEMMA FrontTaken ==
  ASSUME NEW s \in Seq(Byte), NEW r \in Seq(Byte), Items = s \o r, Items' = r,
         next' = next, NEW method \in {"read", "remove", "flush"},
         answer' = Answer(method, IF method = "read" THEN s ELSE <<>>)
  PROVE  QueueStep
<1>1. /\ SubSeq(Items, 1, Len(s)) = s /\ SubSeq(Items, Len(s) + 1, Len(Items)) = r
      /\ Len(s) \in 0 .. Len(Items)
  BY DropFront
<1>2. Queue!Drop(Len(s))
  BY <1>1 DEF Queue!Drop
<1>3. CASE method = "read"
  BY <1>1, <1>2, <1>3 DEF QueueStep, Queue!Next, Queue!Read, Queue!Answer, Answer
<1>4. CASE method # "read"
  BY <1>1, <1>2, <1>4 DEF QueueStep, Queue!Next, Queue!Remove, Queue!Answer, Answer
<1> QED BY <1>3, <1>4

-----------------------------------------------------------------------------
(* The actions of Cbuf.                                                     *)
LEMMA ReturnIsSeen ==
  ASSUME Inv, NEW t \in Tasks, NEW s \in Seq(Byte), Return(t, s), kept' = kept
  PROVE  OnlyBy(t) /\ at'[t] = "idle" /\ at'[t] \notin InHand /\ answer' = Answer(call[t], s)
<1>1. OnlyBy(t) /\ at'[t] = "idle"
  BY ReturnKeepsCallTypes, Types DEF Inv
<1> QED BY <1>1 DEF Return, InHand

LEMMA CallIsCall ==
  ASSUME Inv, NEW t \in Tasks, ConsumerCalls(t) \/ ProducerCalls(t)
  PROVE  QueueStep
<1>1. PICK method, n : Start(t, method, n)
  BY DEF ConsumerCalls, ProducerCalls
<1>2. OnlyBy(t) /\ at[t] \notin InHand /\ at'[t] \notin InHand
  BY <1>1 DEF Inv, TypeOK, Start, Goto, OnlyBy, InHand
<1>3. /\ UNCHANGED <<ring, has_peek, peek_byte, next>>
      /\ answer' = Answer("none", <<>>)
  BY <1>1 DEF Start, shared
<1>4. Items' = Items
  BY <1>2, <1>3, LookingKeepsItems
<1> QED BY <1>3, <1>4, StoreKept

LEMMA InfoIsInvisible ==
  ASSUME Inv, NEW t \in Tasks, InfoRing(t) \/ InfoDone(t)
  PROVE  QueueStep
<1>0. TypeOK /\ <<>> \in Seq(Byte)
  BY DEF Inv
<1>1. /\ UNCHANGED <<ring, has_peek, peek_byte, next, kept>>
      /\ at[t] \notin InHand
  BY DEF InfoRing, InfoDone, shared, InHand
<1>2. CASE InfoRing(t)
  <2>1. OnlyBy(t) /\ at'[t] \notin InHand /\ answer' = answer
    BY <1>0, <1>2 DEF InfoRing, TypeOK, Goto, OnlyBy, InHand
  <2> QED BY <1>1, <2>1, LookingKeepsItems, StoreKept
<1>3. CASE InfoDone(t) /\ Return(t, <<>>) /\ call[t] \in {"available", "peek"}
  <2>1. OnlyBy(t) /\ at'[t] \notin InHand /\ answer' = Answer(call[t], <<>>)
    BY <1>0, <1>1, <1>3, ReturnIsSeen
  <2>2. Items' = Items
    BY <1>1, <2>1, LookingKeepsItems
  <2> QED BY <1>1, <1>3, <2>1, <2>2, StoreKept
<1>4. CASE InfoDone(t) /\ Goto(t, "lock") /\ UNCHANGED <<call, want, got, answer>>
           /\ arg' = [arg EXCEPT ![t] = Seen(t)]
  <2>1. OnlyBy(t) /\ at'[t] \notin InHand
    BY <1>0, <1>4 DEF TypeOK, Goto, OnlyBy, InHand
  <2> QED BY <1>1, <1>4, <2>1, LookingKeepsItems, StoreKept
<1> QED BY <1>2, <1>3, <1>4 DEF InfoDone

LEMMA LockPeekIsPeek ==
  ASSUME Inv, NEW t \in Tasks, LockPeek(t)
  PROVE  QueueStep
<1>0. /\ TypeOK /\ CanLock(t) /\ call[t] = "peek" /\ at[t] \notin InHand
      /\ UNCHANGED <<ring, has_peek, peek_byte, next, kept>>
  BY DEF Inv, LockPeek, shared, CanLock, InHand
<1>1. CASE has_peek
  <2>1. <<peek_byte>> \in Seq(Byte) /\ Return(t, <<peek_byte>>)
    BY <1>0, <1>1 DEF LockPeek, TypeOK
  <2>2. OnlyBy(t) /\ at'[t] \notin InHand /\ answer' = Answer("peek", <<peek_byte>>)
    BY <1>0, <2>1, ReturnIsSeen
  <2>3. Items' = Items
    BY <1>0, <2>2, LookingKeepsItems
  <2>4. Items # <<>> /\ Head(Items) = peek_byte
    <3>1. Items = <<peek_byte>> \o ring
      BY <1>0, <1>1, HandsAreEmpty DEF Peeked
    <3>2. peek_byte \in Byte /\ ring \in Seq(Byte)
      BY <1>0 DEF TypeOK
    <3> QED BY <3>1, <3>2
  <2> QED BY <1>0, <2>2, <2>3, <2>4, StoreKept
<1>2. CASE ~has_peek
  <2>1. /\ Goto(t, "peekRead") /\ UNCHANGED <<call, arg, want, got, answer>>
    BY <1>2 DEF LockPeek
  <2>2. OnlyBy(t) /\ at'[t] \notin InHand
    BY <1>0, <2>1 DEF TypeOK, Goto, OnlyBy, InHand
  <2> QED BY <1>0, <2>1, <2>2, LookingKeepsItems, StoreKept
<1> QED BY <1>0, <1>1, <1>2 DEF TypeOK

LEMMA PeekReadIsInvisible ==
  ASSUME Inv, NEW t \in Tasks, PeekRead(t)
  PROVE  QueueStep
<1>0. /\ TypeOK /\ at[t] = "peekRead" /\ at[t] \in Held /\ at[t] \notin InHand
      /\ call[t] = "peek" /\ ~has_peek /\ Peeked = <<>> /\ ring \in Seq(Byte)
      /\ UNCHANGED <<has_peek, peek_byte, next, kept>>
  BY DEF Inv, TypeOK, PeekRead, Sound, Peeking, Held, InHand, Peeked
<1>1. \A u \in Tasks \ {t} : at[u] \notin InHand
  BY <1>0, OthersHandsAreEmpty
<1>2. CASE ring = <<>>
  <2>1. Return(t, <<>>) /\ <<>> \in Seq(Byte) /\ ring' = ring
    BY <1>2 DEF PeekRead
  <2>2. OnlyBy(t) /\ at'[t] \notin InHand /\ answer' = Answer("peek", <<>>)
    BY <1>0, <2>1, ReturnIsSeen
  <2> QED BY <1>0, <2>1, <2>2, LookingKeepsItems, StoreKept
<1>3. CASE ring # <<>>
  <2>1. /\ ring' = Tail(ring) /\ got' = [got EXCEPT ![t] = <<Head(ring)>>]
        /\ Goto(t, "peekSet") /\ UNCHANGED <<call, arg, want, answer>>
    BY <1>3 DEF PeekRead
  <2>2. OnlyBy(t) /\ at'[t] \in InHand /\ got'[t] = <<Head(ring)>>
    BY <1>0, <2>1 DEF TypeOK, Goto, OnlyBy, InHand
  <2>3. Items = <<>> \o ring
    BY <1>0, <1>1, NobodyInHand
  <2>4. Items' = <<Head(ring)>> \o Tail(ring)
    BY <1>1, <2>1, <2>2, OneInHandNext DEF OnlyBy
  <2>5. Items' = Items
    BY <1>0, <1>3, <2>3, <2>4, HeadThenTail, ConcatEmptySeq
  <2> QED BY <1>0, <2>1, <2>5, StoreKept
<1> QED BY <1>2, <1>3

LEMMA PeekSetIsPeek ==
  ASSUME Inv, NEW t \in Tasks, PeekSet(t)
  PROVE  QueueStep
<1>0. /\ at[t] \in InHand /\ at[t] \in Held /\ call[t] = "peek" /\ Len(got[t]) = 1
      /\ got[t] \in Seq(Byte) /\ ring \in Seq(Byte)
      /\ has_peek' = TRUE /\ peek_byte' = Head(got[t]) /\ Return(t, got[t])
      /\ UNCHANGED <<ring, next, kept>>
  BY DEF Inv, TypeOK, PeekSet, Sound, Peeking, Held, InHand
<1>1. \A u \in Tasks \ {t} : at[u] \notin InHand
  BY <1>0, OthersHandsAreEmpty
<1>2. OnlyBy(t) /\ at'[t] \notin InHand /\ answer' = Answer("peek", got[t])
  BY <1>0, ReturnIsSeen
<1>3. got[t] = <<Head(got[t])>> /\ Head(got[t]) \in Byte
  BY <1>0, OneByte
<1>4. Items = got[t] \o ring
  BY <1>0, <1>1, OneInHand
<1>5. Items' = Peeked' \o ring
  BY <1>0, <1>1, <1>2, NobodyInHandNext DEF OnlyBy
<1>6. Peeked' = got[t]
  BY <1>0, <1>3 DEF Peeked
<1>7. Items # <<>> /\ answer' = Answer("peek", <<Head(Items)>>)
  <2> DEFINE b == Head(got[t])
  <2>1. Items = <<b>> \o ring /\ b \in Byte /\ answer' = Answer("peek", <<b>>)
    BY <1>2, <1>3, <1>4
  <2> HIDE DEF b
  <2>2. Items # <<>> /\ Head(Items) = b
    BY <1>0, <2>1
  <2> QED BY <2>1, <2>2
<1> QED BY <1>0, <1>4, <1>5, <1>6, <1>7, StoreKept

LEMMA BeginReadIsInvisible ==
  ASSUME Inv, NEW t \in Tasks, CanLock(t), NEW n, BeginRead(t, n),
         UNCHANGED <<ring, has_peek, peek_byte, next, kept>>
  PROVE  QueueStep
<1>0. TypeOK /\ \A u \in Tasks : at[u] \notin InHand
  BY HandsAreEmpty DEF Inv
<1>1. OnlyBy(t) /\ at'[t] \in InHand /\ got'[t] = Peeked /\ answer' = answer
  BY <1>0 DEF TypeOK, BeginRead, Goto, OnlyBy, InHand
<1>2. Items = Peeked \o ring
  BY HandsAreEmpty
<1>3. Items' = got'[t] \o ring'
  BY <1>0, <1>1, OneInHandNext DEF OnlyBy
<1> QED BY <1>1, <1>2, <1>3, StoreKept

LEMMA LockReadIsInvisible ==
  ASSUME Inv, NEW t \in Tasks, LockRead(t)
  PROVE  QueueStep
<1>0. /\ TypeOK /\ CanLock(t) /\ call[t] \in {"read", "remove", "flush"}
      /\ at[t] \notin InHand /\ UNCHANGED <<ring, has_peek, peek_byte, next, kept>>
  BY DEF Inv, LockRead, shared, CanLock, InHand
<1>1. CASE Return(t, <<>>)
  <2>1. OnlyBy(t) /\ at'[t] \notin InHand /\ answer' = Answer(call[t], <<>>)
    BY <1>0, <1>1, ReturnIsSeen, EmptySeq
  <2>2. Items' = Items /\ Items \in Seq(Byte)
    BY <1>0, <2>1, LookingKeepsItems, ItemsType
  <2> QED BY <1>0, <2>1, <2>2, NothingTaken
<1>2. ASSUME NEW n, BeginRead(t, n) PROVE QueueStep
  BY <1>0, <1>2, BeginReadIsInvisible
<1> QED BY <1>1, <1>2 DEF LockRead

LEMMA ReceiveIsInvisible ==
  ASSUME Inv, NEW t \in Tasks, Receive(t)
  PROVE  QueueStep
<1> DEFINE n == Min({want[t], Len(ring), size - start})
           front == SubSeq(ring, 1, n)
           back == SubSeq(ring, n + 1, Len(ring))
<1>0. /\ TypeOK /\ at[t] \in InHand /\ at[t] \in Held
      /\ ring \in Seq(Byte) /\ got[t] \in Seq(Byte)
  BY DEF Inv, TypeOK, Receive, Held, InHand
<1>1. n \in 0 .. Len(ring)
  BY ReceiveMoves
<1>2. front \in Seq(Byte) /\ back \in Seq(Byte) /\ front \o back = ring
  BY <1>0, <1>1, Split
<1>3. /\ ring' = back /\ got' = [got EXCEPT ![t] = @ \o front]
      /\ want' = [want EXCEPT ![t] = @ - n]
      /\ \E pc \in {"receiveRest", "finish"} : Goto(t, pc)
      /\ UNCHANGED <<call, arg, answer, next>>
  BY DEF Receive
<1> HIDE DEF n, front, back
<1>4. OnlyBy(t) /\ at'[t] \in InHand /\ got'[t] = got[t] \o front
  BY <1>0, <1>3 DEF TypeOK, Goto, OnlyBy, InHand
<1>5. \A u \in Tasks \ {t} : at[u] \notin InHand
  BY <1>0, OthersHandsAreEmpty
<1>6. Items = got[t] \o ring
  BY <1>0, <1>5, OneInHand
<1>7. Items' = (got[t] \o front) \o back
  BY <1>3, <1>4, <1>5, OneInHandNext DEF OnlyBy
<1>8. Items' = Items
  <2>0. front \in Seq(Byte) /\ back \in Seq(Byte) /\ got[t] \in Seq(Byte)
    BY <1>0, <1>2
  <2>1. (got[t] \o front) \o back = got[t] \o (front \o back)
    BY ONLY <2>0, Regroup
  <2> QED BY <1>0, <1>2, <1>6, <1>7, <2>1
<1> QED BY <1>3, <1>8, StoreKept

LEMMA ReadFinishIsRead ==
  ASSUME Inv, NEW t \in Tasks, ReadFinish(t)
  PROVE  QueueStep
<1>0. /\ TypeOK /\ at[t] \in InHand /\ at[t] \in Held /\ at[t] # "peekSet"
      /\ has_peek' = FALSE /\ UNCHANGED <<ring, next, kept>>
      /\ ring \in Seq(Byte) /\ got[t] \in Seq(Byte)
      /\ call[t] \in {"read", "remove", "flush", "resize"}
  BY DEF Inv, TypeOK, ReadFinish, Held, InHand, Sound, Reading
<1>1. \A u \in Tasks \ {t} : at[u] \notin InHand
  BY <1>0, OthersHandsAreEmpty
<1>2. Items = got[t] \o ring
  BY <1>0, <1>1, OneInHand
<1>3. CASE call[t] = "resize"
  <2>1. Goto(t, "swap") /\ UNCHANGED <<call, arg, want, got, answer>>
    BY <1>3 DEF ReadFinish
  <2>2. OnlyBy(t) /\ at'[t] \in InHand
    BY <1>0, <2>1 DEF TypeOK, Goto, OnlyBy, InHand
  <2>3. Items' = got[t] \o ring
    BY <1>0, <1>1, <2>1, <2>2, OneInHandNext DEF OnlyBy
  <2> QED BY <1>0, <1>2, <2>1, <2>3, StoreKept
<1>4. CASE call[t] # "resize"
  <2> DEFINE s == IF call[t] = "read" THEN got[t] ELSE <<>>
  <2>1. Return(t, s) /\ s \in Seq(Byte)
    BY <1>0, <1>4, EmptySeq DEF ReadFinish
  <2>2. OnlyBy(t) /\ at'[t] \notin InHand /\ answer' = Answer(call[t], s)
    <3> HIDE DEF s
    <3> QED BY <1>0, <2>1, ReturnIsSeen
  <2>3. Items' = Peeked' \o ring' /\ Peeked' = <<>>
    BY <1>0, <1>1, <2>2, NobodyInHandNext DEF OnlyBy, Peeked
  <2>4. Items' = ring
    BY <1>0, <2>3, ConcatEmptySeq
  <2>5. call[t] \in {"read", "remove", "flush"}
    BY <1>0, <1>4
  <2> QED BY <1>0, <1>2, <2>2, <2>4, <2>5, FrontTaken
<1> QED BY <1>3, <1>4

LEMMA LockWriteIsWrite ==
  ASSUME Inv, NEW t \in Tasks, LockWrite(t)
  PROVE  QueueStep
<1> DEFINE n == Min({arg[t], Room})
           new == [i \in 1 .. n |-> (next + i - 1) % Modulus]
<1>0. /\ TypeOK /\ CanLock(t) /\ call[t] = "write" /\ kept' = kept
      /\ UNCHANGED <<has_peek, peek_byte>> /\ ring \in Seq(Byte)
  BY DEF Inv, LockWrite, TypeOK
<1>1. n \in 0 .. Modulus - 1 /\ new \in Seq(Byte)
  BY WriteAppends
<1>2. ring' = ring \o new /\ next' = (next + n) % Modulus /\ Return(t, <<>>)
  BY DEF LockWrite
<1>3. OnlyBy(t) /\ at'[t] \notin InHand /\ answer' = Answer("write", <<>>)
  BY <1>0, <1>2, ReturnIsSeen, EmptySeq
<1>4. Items = Peeked \o ring /\ \A u \in Tasks : at'[u] \notin InHand
  BY <1>0, <1>3, HandsAreEmpty DEF OnlyBy
<1>5. Items' = Peeked \o (ring \o new)
  <2>1. Items' = Peeked' \o ring'
    BY <1>4, NobodyInHandNext
  <2> QED BY <1>0, <1>2, <2>1 DEF Peeked
<1>6. Items' = Items \o new
  <2> HIDE DEF new
  <2>1. Peeked \in Seq(Byte)
    BY <1>0, ItemsType
  <2>2. (Peeked \o ring) \o new = Peeked \o (ring \o new)
    BY <1>0, <1>1, <2>1, ConcatAssociative, SMTT(30)
  <2> QED BY <1>4, <1>5, <2>2
<1>7. Queue!Write
  BY <1>1, <1>2, <1>3, <1>6 DEF Queue!Write, Queue!Answer, Answer
<1> QED BY <1>7 DEF QueueStep, Queue!Next

LEMMA ResizeSameIsOther ==
  ASSUME Inv, NEW t \in Tasks, ResizeSame(t)
  PROVE  QueueStep
<1>1. /\ at[t] \notin InHand /\ at'[t] \notin InHand /\ OnlyBy(t)
      /\ UNCHANGED <<ring, has_peek, peek_byte, next>> /\ answer' = Answer("resize", <<>>)
  BY DEF Inv, TypeOK, ResizeSame, CanLock, Goto, shared, OnlyBy, InHand
<1>2. Items' = Items
  BY <1>1, LookingKeepsItems
<1> QED BY <1>1, <1>2, StoreKept

LEMMA ResizeIsOther ==
  ASSUME Inv, NEW t \in Tasks,
         ResizeRefused(t) \/ ResizeEmpty(t) \/ ResizeReads(t) \/ ResizeSwap(t)
  PROVE  QueueStep
<1>0. TypeOK /\ <<>> \in Seq(Byte) /\ ring \in Seq(Byte) /\ got \in [Tasks -> Seq(Byte)]
  BY EmptySeq DEF Inv, TypeOK
<1>1. CASE ResizeRefused(t)
  <2>1. /\ UNCHANGED <<ring, has_peek, peek_byte, next, kept>> /\ at[t] \notin InHand
        /\ call[t] = "resize" /\ Return(t, <<>>)
    BY <1>1 DEF ResizeRefused, CanResize, CanLock, shared, InHand
  <2>2. OnlyBy(t) /\ at'[t] \notin InHand /\ answer' = Answer("resize", <<>>)
    BY <1>0, <2>1, ReturnIsSeen
  <2>3. Items' = Items
    BY <2>1, <2>2, LookingKeepsItems
  <2> QED BY <2>1, <2>2, <2>3, StoreKept
<1>2. CASE ResizeEmpty(t)
  <2>1. /\ ring' = <<>> /\ UNCHANGED <<has_peek, peek_byte, next, kept>>
        /\ call[t] = "resize" /\ CanLock(t) /\ Available = 0 /\ Return(t, <<>>)
    BY <1>2 DEF ResizeEmpty, CanResize, NewRing
  <2>2. OnlyBy(t) /\ at'[t] \notin InHand /\ answer' = Answer("resize", <<>>)
    BY <1>0, <2>1, ReturnIsSeen
  <2>3. Len(ring) = 0 /\ ring = <<>>
    <3>1. Len(ring) \in Nat /\ Len(Peeked) \in {0, 1}
      BY <1>0, ItemsType
    <3> QED BY <1>0, <2>1, <3>1, EmptySeq DEF Available
  <2>4. Items = Peeked \o ring /\ \A u \in Tasks : at'[u] \notin InHand
    BY <2>1, <2>2, HandsAreEmpty DEF OnlyBy
  <2>5. Items' = Items
    BY <2>1, <2>3, <2>4, NobodyInHandNext DEF Peeked
  <2> QED BY <2>1, <2>2, <2>5, StoreKept
<1>3. CASE ResizeReads(t)
  BY <1>3, BeginReadIsInvisible DEF ResizeReads, CanResize, shared
<1>4. CASE ResizeSwap(t)
  <2>1. /\ ring' = got[t] /\ UNCHANGED <<has_peek, peek_byte, next, kept>> /\ Return(t, <<>>)
        /\ at[t] = "swap" /\ at[t] \in InHand /\ at[t] \in Held
    BY <1>4 DEF ResizeSwap, NewRing, Held, InHand
  <2>2. call[t] = "resize" /\ ~has_peek /\ ring = <<>>
    BY <2>1 DEF Inv, Sound, Reading, Emptying, InHand
  <2>3. OnlyBy(t) /\ at'[t] \notin InHand /\ answer' = Answer("resize", <<>>)
    BY <1>0, <2>1, <2>2, ReturnIsSeen
  <2>4. \A u \in Tasks \ {t} : at[u] \notin InHand
    BY <2>1, OthersHandsAreEmpty
  <2>5. Items = got[t] \o <<>>
    BY <2>1, <2>2, <2>4, OneInHand
  <2>6. Items' = Peeked' \o got[t] /\ Peeked' = <<>>
    BY <2>1, <2>2, <2>3, <2>4, NobodyInHandNext DEF OnlyBy, Peeked
  <2>7. Items' = Items
    <3>1. got[t] \in Seq(Byte)
      BY <1>0
    <3> QED BY <2>5, <2>6, <3>1, ConcatEmptySeq
  <2> QED BY <2>1, <2>3, <2>7, StoreKept
<1> QED BY <1>1, <1>2, <1>3, <1>4

-----------------------------------------------------------------------------
LEMMA InitIsQueueInit == Init => Queue!Init
<1> SUFFICES ASSUME Init PROVE Queue!Init
  OBVIOUS
<1>1. Items = <<>> \o <<>>
  BY NobodyInHand DEF Init, Peeked, InHand
<1>2. Items = <<>>
  BY <1>1
<1> QED BY <1>2 DEF Init, Queue!Init, Queue!NoAnswer, Queue!Answer, Answer

LEMMA NextIsQueueStep == Inv /\ [Next]_vars => [Queue!Next]_(Queue!vars)
<1> SUFFICES ASSUME Inv, [Next]_vars PROVE QueueStep
  BY DEF QueueStep, Queue!vars
<1>1. CASE \E t \in Consumers : ConsumerCalls(t)
  BY <1>1, CallIsCall DEF Tasks
<1>2. CASE \E t \in Producers : ProducerCalls(t)
  BY <1>2, CallIsCall DEF Tasks
<1>3. ASSUME NEW t \in Tasks, Lock(t) PROVE QueueStep
  BY <1>3, LockPeekIsPeek, LockReadIsInvisible, LockWriteIsWrite, ResizeSameIsOther,
     ResizeIsOther DEF Lock
<1>4. ASSUME NEW t \in Tasks, Continue(t) PROVE QueueStep
  BY <1>4, InfoIsInvisible, PeekReadIsInvisible, PeekSetIsPeek, ReceiveIsInvisible,
     ReadFinishIsRead, ResizeIsOther DEF Continue
<1>5. CASE UNCHANGED vars
  BY <1>5 DEF vars, QueueStep, Items, Holding, Peeked
<1> QED BY <1>1, <1>2, <1>3, <1>4, <1>5 DEF Next

(* cbuf is a first-in first-out queue: whatever the sizes and however many  *)
(* tasks call it, no byte is lost, doubled or handed out before an older    *)
(* one, through the look-ahead byte, the wrap-around of the ring buffer and *)
(* the copies of resize().                                                  *)
THEOREM CbufIsAFifo == Spec => IsFifo
<1>1. Inv /\ [Next]_vars => [Queue!Next]_(Queue!vars)
  BY NextIsQueueStep
<1> QED BY <1>1, InitIsQueueInit, InvIsInvariant, PTL DEF Spec, IsFifo, Queue!Spec
=============================================================================
