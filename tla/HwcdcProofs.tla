---------------------------- MODULE HwcdcProofs -----------------------------
(***************************************************************************)
(* The order of the bytes of write() and what write() returns, for any      *)
(* number of tasks, any size of the ring buffer and of the packets, and     *)
(* whatever the host does.                                                  *)
(*                                                                          *)
(* Bytes are numbered in the order in which the writers get tx_lock. The    *)
(* invariant (Line) is about where they are: what was moved to the FIFO,    *)
(* what is in the ring buffer, what the holder of tx_lock has still to send *)
(* (Writing), and the next number. From left to right the numbers rise;     *)
(* debug output, numbered 0, may lie in between. Moving, dropping, cutting  *)
(* and sending keep the line (LineMoves to LineWithout). Nobody else has    *)
(* bytes to send: Calls says which call comes to which step, that past the  *)
(* wait for tx_lock a call has it, and what write() would return (Counted). *)
(***************************************************************************)
EXTENDS Hwcdc, Integers, SequenceTheorems, WellFoundedInduction, TLAPS

-----------------------------------------------------------------------------
(* Max and Min of numbers.                                                  *)
LEMMA Smallest ==
  ASSUME NEW T, T \subseteq Nat, T # {}
  PROVE  \E x \in T : \A y \in T : x <= y
<1> DEFINE R == {ss \in Nat \X Nat : ss[1] < ss[2]}
<1>1. IsWellFoundedOn(R, Nat)
  BY NatLessThanWellFounded DEF OpToRel
<1>2. \E x \in T : \A y \in T : ~(<<y, x>> \in R)
  BY <1>1, WFMin, Zenon
<1>3. PICK x \in T : \A y \in T : ~(<<y, x>> \in R)
  BY <1>2
<1>4. \A y \in T : ~(y < x)
  BY <1>3
<1> QED BY <1>4

LEMMA MaxIsIn ==
  ASSUME NEW S, S \subseteq Nat, S # {}, NEW b \in Nat, \A x \in S : x <= b
  PROVE  Max(S) \in S /\ \A y \in S : Max(S) >= y
<1> DEFINE T == {b - x : x \in S}
<1>1. T \subseteq Nat /\ T # {}
  <2>1. \A x \in S : b - x \in Nat
    OBVIOUS
  <2>2. PICK x \in S : TRUE
    OBVIOUS
  <2>3. b - x \in T
    OBVIOUS
  <2> QED BY <2>1, <2>3
<1>2. PICK m \in T : \A y \in T : m <= y
  BY <1>1, Smallest
<1>3. PICK x \in S : m = b - x
  BY <1>2
<1>4. \A y \in S : x >= y
  <2> TAKE y \in S
  <2>1. b - y \in T
    OBVIOUS
  <2>2. b - x <= b - y
    BY <1>2, <1>3, <2>1
  <2> QED BY <2>2
<1> QED BY <1>4 DEF Max

LEMMA MinOfTwo ==
  ASSUME NEW a \in Nat, NEW b \in Nat
  PROVE  Min({a, b}) \in {a, b} /\ Min({a, b}) <= a /\ Min({a, b}) <= b
<1>1. \E x \in {a, b} : \A y \in {a, b} : x <= y
  OBVIOUS
<1> QED BY <1>1 DEF Min

LEMMA MinOfThree ==
  ASSUME NEW a \in Nat, NEW b \in Nat, NEW c \in Nat
  PROVE  LET m == Min({a, b, c}) IN m \in {a, b, c} /\ m <= a /\ m <= b /\ m <= c
<1>1. \E x \in {a, b, c} : \A y \in {a, b, c} : x <= y
  <2>1. CASE a <= b /\ a <= c
    BY <2>1
  <2>2. CASE b <= a /\ b <= c
    BY <2>2
  <2>3. CASE c <= a /\ c <= b
    BY <2>3
  <2> QED BY <2>1, <2>2, <2>3
<1> QED BY <1>1 DEF Min

-----------------------------------------------------------------------------
(* What was sent, what is in the ring buffer, what a writer has still to    *)
(* send, and the next number: later bytes have higher numbers.              *)
Rising(s) == \A j \in 1 .. Len(s) : s[j] > 0 => \A i \in 1 .. j - 1 : s[i] < s[j]

Line(s, r, q, x) ==
  /\ s < x
  /\ Rising(r) /\ \A j \in 1 .. Len(r) : (r[j] > 0 => s < r[j]) /\ r[j] < x
  /\ Rising(q)
  /\ \A j \in 1 .. Len(q) : s < q[j] /\ q[j] < x /\ \A i \in 1 .. Len(r) : r[i] < q[j]

LEMMA RisingRest ==
  ASSUME NEW r \in Seq(Nat), Rising(r), NEW n \in 0 .. Len(r)
  PROVE  LET t == SubSeq(r, n + 1, Len(r))
         IN t \in Seq(Nat) /\ Len(t) = Len(r) - n /\ Rising(t)
            /\ \A i \in 1 .. Len(r) - n : t[i] = r[n + i]
<1> DEFINE t == SubSeq(r, n + 1, Len(r))
<1>0. Len(r) \in Nat /\ n \in Nat
  OBVIOUS
<1>1. t \in Seq(Nat) /\ Len(t) = Len(r) - n /\ \A i \in 1 .. Len(r) - n : t[i] = r[n + i]
  BY SubSeqProperties
<1> HIDE DEF t
<1>2. Rising(t)
  <2> SUFFICES ASSUME NEW j \in 1 .. Len(t), t[j] > 0, NEW i \in 1 .. j - 1
               PROVE  t[i] < t[j]
    BY DEF Rising
  <2>1. n + j \in 1 .. Len(r) /\ n + i \in 1 .. n + j - 1
    BY <1>0, <1>1
  <2>2. t[j] = r[n + j] /\ t[i] = r[n + i]
    BY <1>0, <1>1, SMTT(30)
  <2> QED BY <2>1, <2>2 DEF Rising
<1> QED BY <1>1, <1>2 DEF t

LEMMA RisingStart ==
  ASSUME NEW q \in Seq(Nat), Rising(q), NEW n \in 0 .. Len(q)
  PROVE  LET t == SubSeq(q, 1, n)
         IN t \in Seq(Nat) /\ Len(t) = n /\ Rising(t) /\ \A i \in 1 .. n : t[i] = q[i]
<1> DEFINE t == SubSeq(q, 1, n)
<1>1. t \in Seq(Nat) /\ Len(t) = n /\ \A i \in 1 .. n : t[i] = q[i]
  BY SubSeqProperties
<1> HIDE DEF t
<1>2. Rising(t)
  <2> SUFFICES ASSUME NEW j \in 1 .. Len(t), t[j] > 0, NEW i \in 1 .. j - 1
               PROVE  t[i] < t[j]
    BY DEF Rising
  <2>1. j \in 1 .. Len(q) /\ i \in 1 .. j - 1 /\ t[j] = q[j] /\ t[i] = q[i]
    BY <1>1
  <2> QED BY <2>1 DEF Rising
<1> QED BY <1>1, <1>2 DEF t

(* The handler moves some of them, or they are dropped.                     *)
LEMMA LineMoves ==
  ASSUME NEW s \in Nat, NEW r \in Seq(Nat), NEW q \in Seq(Nat), NEW x \in Nat,
         Line(s, r, q, x), NEW n \in 0 .. Len(r), NEW s2 \in Nat,
         s2 = s \/ \E i \in 1 .. n : s2 = r[i], \A i \in 1 .. n : s2 >= r[i]
  PROVE  Line(s2, SubSeq(r, n + 1, Len(r)), q, x)
<1> DEFINE t == SubSeq(r, n + 1, Len(r))
<1>0. Len(r) \in Nat /\ Len(q) \in Nat /\ n \in Nat /\ 1 .. n \subseteq 1 .. Len(r)
  OBVIOUS
<1>1. /\ t \in Seq(Nat) /\ Len(t) = Len(r) - n /\ Rising(t)
      /\ \A i \in 1 .. Len(r) - n : t[i] = r[n + i]
  BY RisingRest DEF Line
<1> HIDE DEF t
<1>2. s2 = s \/ \E i \in 1 .. Len(r) : i \in 1 .. n /\ s2 = r[i]
  BY <1>0
<1>3. s2 < x
  BY <1>2 DEF Line
<1>4. ASSUME NEW j \in 1 .. Len(t) PROVE (t[j] > 0 => s2 < t[j]) /\ t[j] < x
  <2>1. n + j \in 1 .. Len(r) /\ \A i \in 1 .. n : i \in 1 .. n + j - 1
    BY <1>0, <1>1
  <2>2. t[j] = r[n + j]
    BY <1>0, <1>1
  <2>3. r[n + j] < x /\ (r[n + j] > 0 => s < r[n + j])
    BY <2>1 DEF Line
  <2>4. r[n + j] > 0 => \A i \in 1 .. n : r[i] < r[n + j]
    BY <2>1 DEF Line, Rising
  <2> QED BY <1>2, <2>2, <2>3, <2>4
<1>5. ASSUME NEW j \in 1 .. Len(q)
      PROVE  s2 < q[j] /\ q[j] < x /\ \A i \in 1 .. Len(t) : t[i] < q[j]
  <2>1. ASSUME NEW i \in 1 .. Len(t) PROVE t[i] < q[j]
    <3>1. n + i \in 1 .. Len(r)
      BY <1>0, <1>1
    <3>2. t[i] = r[n + i]
      BY <1>0, <1>1
    <3> QED BY <3>1, <3>2 DEF Line
  <2>2. s < q[j] /\ q[j] < x /\ \A i \in 1 .. Len(r) : r[i] < q[j]
    BY DEF Line
  <2>3. s2 < q[j]
    BY <1>2, <2>2
  <2> QED BY <2>1, <2>2, <2>3
<1>6. Rising(q)
  BY DEF Line
<1> QED BY <1>1, <1>3, <1>4, <1>5, <1>6 DEF Line, t

LEMMA LineDrops ==
  ASSUME NEW s \in Nat, NEW r \in Seq(Nat), NEW q \in Seq(Nat), NEW x \in Nat,
         Line(s, r, q, x), NEW n \in 0 .. Len(r)
  PROVE  Line(s, SubSeq(r, n + 1, Len(r)), q, x)
<1> DEFINE t == SubSeq(r, n + 1, Len(r))
<1>0. Len(r) \in Nat /\ n \in Nat
  OBVIOUS
<1>1. /\ t \in Seq(Nat) /\ Len(t) = Len(r) - n /\ Rising(t)
      /\ \A i \in 1 .. Len(r) - n : t[i] = r[n + i]
  BY RisingRest DEF Line
<1> HIDE DEF t
<1>2. ASSUME NEW j \in 1 .. Len(t)
      PROVE  (t[j] > 0 => s < t[j]) /\ t[j] < x /\ \A k \in 1 .. Len(q) : t[j] < q[k]
  <2>1. n + j \in 1 .. Len(r)
    BY <1>0, <1>1
  <2>2. t[j] = r[n + j]
    BY <1>0, <1>1
  <2> QED BY <2>1, <2>2 DEF Line
<1>3. s < x /\ Rising(q) /\ \A j \in 1 .. Len(q) : s < q[j] /\ q[j] < x
  BY DEF Line
<1> QED BY <1>1, <1>2, <1>3 DEF Line, t

(* A writer sends the first n of its bytes.                                 *)
LEMMA LinePuts ==
  ASSUME NEW s \in Nat, NEW r \in Seq(Nat), NEW q \in Seq(Nat), NEW x \in Nat,
         Line(s, r, q, x), NEW n \in 0 .. Len(q)
  PROVE  Line(s, r \o SubSeq(q, 1, n), SubSeq(q, n + 1, Len(q)), x)
<1> DEFINE a == SubSeq(q, 1, n)
           b == SubSeq(q, n + 1, Len(q))
           c == r \o a
<1>0. Len(r) \in Nat /\ Len(q) \in Nat /\ n \in Nat /\ 1 .. n \subseteq 1 .. Len(q)
  OBVIOUS
<1>1. a \in Seq(Nat) /\ Len(a) = n /\ \A i \in 1 .. n : a[i] = q[i]
  BY RisingStart DEF Line
<1>2. /\ b \in Seq(Nat) /\ Len(b) = Len(q) - n /\ Rising(b)
      /\ \A i \in 1 .. Len(q) - n : b[i] = q[n + i]
  BY RisingRest DEF Line
<1> HIDE DEF a, b
<1>3. c \in Seq(Nat) /\ Len(c) = Len(r) + n
  BY <1>1, ConcatProperties
<1>4. ASSUME NEW i \in 1 .. Len(c), i <= Len(r)
      PROVE  i \in 1 .. Len(r) /\ c[i] = r[i]
  BY <1>0, <1>1, <1>3, <1>4, ConcatProperties
<1>5. ASSUME NEW i \in 1 .. Len(c), ~(i <= Len(r))
      PROVE  i - Len(r) \in 1 .. n /\ i - Len(r) \in 1 .. Len(q) /\ c[i] = q[i - Len(r)]
  <2>1. i - Len(r) \in 1 .. n
    BY <1>0, <1>3, <1>5
  <2>2. c[i] = a[i - Len(r)]
    BY <1>0, <1>1, <1>3, <1>5, ConcatProperties
  <2> QED BY <1>0, <1>1, <2>1, <2>2
<1> HIDE DEF c
<1>6. Rising(c)
  <2> SUFFICES ASSUME NEW j \in 1 .. Len(c), c[j] > 0, NEW i \in 1 .. j - 1
               PROVE  c[i] < c[j]
    BY DEF Rising
  <2>0. i \in 1 .. Len(c) /\ i \in Nat /\ j \in Nat /\ i < j
    BY <1>0, <1>3
  <2>1. CASE j <= Len(r)
    <3>1. j \in 1 .. Len(r) /\ c[j] = r[j]
      BY <1>4, <2>1
    <3>2. c[i] = r[i]
      BY <1>0, <1>4, <2>0, <2>1
    <3> QED BY <3>1, <3>2 DEF Line, Rising
  <2>2. CASE ~(j <= Len(r)) /\ i <= Len(r)
    <3>1. j - Len(r) \in 1 .. Len(q) /\ c[j] = q[j - Len(r)]
      BY <1>5, <2>2
    <3>2. i \in 1 .. Len(r) /\ c[i] = r[i]
      BY <1>4, <2>0, <2>2
    <3> QED BY <3>1, <3>2 DEF Line
  <2>3. CASE ~(j <= Len(r)) /\ ~(i <= Len(r))
    <3>1. j - Len(r) \in 1 .. Len(q) /\ c[j] = q[j - Len(r)]
      BY <1>5, <2>3
    <3>2. i - Len(r) \in 1 .. Len(q) /\ c[i] = q[i - Len(r)]
      BY <1>5, <2>0, <2>3
    <3>3. i - Len(r) \in 1 .. (j - Len(r)) - 1
      BY <1>0, <2>0, <3>2
    <3> QED BY <3>1, <3>2, <3>3 DEF Line, Rising
  <2> QED BY <2>1, <2>2, <2>3
<1>7. ASSUME NEW j \in 1 .. Len(c) PROVE (c[j] > 0 => s < c[j]) /\ c[j] < x
  <2>1. CASE j <= Len(r)
    <3>1. j \in 1 .. Len(r) /\ c[j] = r[j]
      BY <1>4, <2>1
    <3> QED BY <3>1 DEF Line
  <2>2. CASE ~(j <= Len(r))
    <3>1. j - Len(r) \in 1 .. Len(q) /\ c[j] = q[j - Len(r)]
      BY <1>5, <2>2
    <3> QED BY <3>1 DEF Line
  <2> QED BY <2>1, <2>2
<1>8. ASSUME NEW j \in 1 .. Len(b)
      PROVE  s < b[j] /\ b[j] < x /\ \A i \in 1 .. Len(c) : c[i] < b[j]
  <2>1. n + j \in 1 .. Len(q)
    BY <1>0, <1>2
  <2>2. b[j] = q[n + j]
    BY <1>0, <1>2
  <2>3. s < q[n + j] /\ q[n + j] < x /\ \A i \in 1 .. Len(r) : r[i] < q[n + j]
    BY <2>1 DEF Line
  <2>4. ASSUME NEW i \in 1 .. Len(c) PROVE c[i] < q[n + j]
    <3>1. CASE i <= Len(r)
      BY <1>4, <2>3, <3>1
    <3>2. CASE ~(i <= Len(r))
      <4>1. i - Len(r) \in 1 .. n /\ i - Len(r) \in 1 .. Len(q) /\ c[i] = q[i - Len(r)]
        BY <1>5, <3>2
      <4>2. i - Len(r) \in 1 .. (n + j) - 1
        BY <1>0, <4>1
      <4>3. q[n + j] > 0
        BY <2>1, <2>3, SMTT(30)
      <4> QED BY <2>1, <4>1, <4>2, <4>3 DEF Line, Rising
    <3> QED BY <3>1, <3>2
  <2> QED BY <2>2, <2>3, <2>4
<1>9. s < x
  BY DEF Line
<1> QED BY <1>2, <1>6, <1>7, <1>8, <1>9 DEF Line, a, b, c

LEMMA LineCuts ==
  ASSUME NEW s \in Nat, NEW r \in Seq(Nat), NEW q \in Seq(Nat), NEW x \in Nat,
         Line(s, r, q, x), NEW n \in 0 .. Len(q)
  PROVE  Line(s, r, SubSeq(q, 1, n), x)
<1> DEFINE a == SubSeq(q, 1, n)
<1>1. a \in Seq(Nat) /\ Len(a) = n /\ Rising(a) /\ \A i \in 1 .. n : a[i] = q[i]
  BY RisingStart DEF Line
<1> HIDE DEF a
<1> QED BY <1>1 DEF Line, a

(* Debug output goes in between.                                            *)
LEMMA LineTakesChar ==
  ASSUME NEW s \in Nat, NEW r \in Seq(Nat), NEW q \in Seq(Nat), NEW x \in Nat, Line(s, r, q, x)
  PROVE  Line(s, r \o <<0>>, q, x)
<1> DEFINE c == r \o <<0>>
<1>1. /\ Len(c) = Len(r) + 1 /\ \A i \in 1 .. Len(r) : c[i] = r[i]
      /\ c[Len(r) + 1] = 0 /\ Len(r) \in Nat
  <2>1. c = Append(r, 0)
    BY AppendIsConcat
  <2> QED BY <2>1, AppendProperties
<1> HIDE DEF c
<1>2. ASSUME NEW j \in 1 .. Len(c)
      PROVE  c[j] = 0 \/ (j \in 1 .. Len(r) /\ c[j] = r[j])
  BY <1>1
<1>3. s < x /\ x > 0
  BY DEF Line
<1>4. Rising(c)
  <2> SUFFICES ASSUME NEW j \in 1 .. Len(c), c[j] > 0, NEW i \in 1 .. j - 1
               PROVE  c[i] < c[j]
    BY DEF Rising
  <2>1. j \in 1 .. Len(r) /\ c[j] = r[j]
    BY <1>2
  <2>2. i \in 1 .. Len(r) /\ c[i] = r[i]
    BY <1>1, <2>1
  <2> QED BY <2>1, <2>2 DEF Line, Rising
<1>5. \A j \in 1 .. Len(c) : (c[j] > 0 => s < c[j]) /\ c[j] < x
  BY <1>2, <1>3 DEF Line
<1>6. ASSUME NEW j \in 1 .. Len(q)
      PROVE  s < q[j] /\ q[j] < x /\ \A i \in 1 .. Len(c) : c[i] < q[j]
  BY <1>2, SMTT(30) DEF Line
<1>7. Rising(q)
  BY DEF Line
<1> QED BY <1>3, <1>4, <1>5, <1>6, <1>7 DEF Line, c

(* A writer numbers its bytes.                                              *)
LEMMA LineNumbers ==
  ASSUME NEW s \in Nat, NEW r \in Seq(Nat), NEW x \in Nat, Line(s, r, <<>>, x),
         NEW q \in Seq(Nat), \A i \in 1 .. Len(q) : q[i] = x + i - 1
  PROVE  Line(s, r, q, x + Len(q))
<1>1. x > 0 /\ Rising(r) /\ s < x
  BY DEF Line
<1>2. Rising(q)
  <2> SUFFICES ASSUME NEW j \in 1 .. Len(q), NEW i \in 1 .. j - 1 PROVE q[i] < q[j]
    BY DEF Rising
  <2>1. i \in 1 .. Len(q) /\ i < j /\ i \in Nat /\ j \in Nat /\ Len(q) \in Nat
    OBVIOUS
  <2>2. q[i] = x + i - 1 /\ q[j] = x + j - 1
    BY <2>1
  <2> QED BY <2>1, <2>2
<1>3. \A j \in 1 .. Len(r) : (r[j] > 0 => s < r[j]) /\ r[j] < x
  BY DEF Line
<1>4. Len(q) \in Nat
  OBVIOUS
<1>5. \A j \in 1 .. Len(r) : (r[j] > 0 => s < r[j]) /\ r[j] < x + Len(q)
  BY <1>3, <1>4
<1>6. \A j \in 1 .. Len(q) : s < q[j] /\ q[j] < x + Len(q) /\ \A i \in 1 .. Len(r) : r[i] < q[j]
  BY <1>1, <1>3, <1>4
<1> QED BY <1>1, <1>2, <1>4, <1>5, <1>6 DEF Line

LEMMA LineWithout ==
  ASSUME NEW s \in Nat, NEW r \in Seq(Nat), NEW q \in Seq(Nat), NEW x \in Nat, Line(s, r, q, x)
  PROVE  Line(s, r, <<>>, x) /\ Line(s, <<>>, <<>>, x)
BY DEF Line, Rising
-----------------------------------------------------------------------------
(* The inductive invariant.                                                 *)

CallType == [kind : Kinds, at : Steps, n : Nat, todo : Seq(Nat), room : Nat,
             result : Int, looping : BOOLEAN, tries : Nat, last : Nat]

Typed ==
  /\ ring \in Seq(Nat) /\ Len(ring) <= RingSize /\ start \in 0 .. RingSize - 1
  /\ tx_lock \in Tasks \cup {NoTask} /\ connected \in BOOLEAN
  /\ sent \in Nat /\ next \in Nat
  /\ task \in [Tasks -> CallType] /\ broke \in [Tasks -> BOOLEAN]

(* Which call comes to which step, and what it carries there.               *)
Shape(c) ==
  /\ c.kind = "write" => c.at \in {"take", "test", "poke", "room", "put", "trigger", "count",
                                   "loop", "loopPut", "check", "drop", "dropSend", "give"}
  /\ c.kind = "flush" => c.at \in {"take", "test", "poke", "look", "wait", "dropAll", "give"}
  /\ c.kind = "room" => c.at \in {"take", "give"}
  /\ c.kind = "bool" => c.at \in {"idle", "test", "poke"}
  /\ c.kind = "char" => c.at \in {"test", "poke", "charPut", "drop", "dropSend"}
  /\ c.kind \in {"flush", "room", "bool"} => c.n = 0 /\ c.todo = <<>>
  /\ c.kind = "char" => c.todo = <<0>>
  /\ c.at \in {"put", "loopPut"} => c.room <= Len(c.todo)

Locks(c) == c.kind \in {"write", "flush", "room"} /\ c.at # "take"

(* What write() would return, unless the connection broke under it.         *)
Counted(c, broken) ==
  c.kind = "write" /\ ~broken =>
    /\ c.at \notin {"poke", "drop", "dropSend"}
    /\ c.result = IF c.at \in {"check", "give"} THEN c.n - Len(c.todo) ELSE c.n

Calls == \A t \in Tasks :
  /\ Shape(task[t])
  /\ Locks(task[t]) <=> tx_lock = t
  /\ Counted(task[t], broke[t])
  /\ task[t].kind = "write" /\ ~broke[t] => connected

Inv == Typed /\ Calls /\ Line(sent, ring, Writing, next)

-----------------------------------------------------------------------------
(* Steps.                                                                   *)
LEMMA HowMany ==
  ASSUME Typed, NEW m \in Nat
  PROVE  Received(m) \in 0 .. Len(ring) /\ Received(m) <= m
<1>1. Len(ring) \in Nat /\ RingSize - start \in Nat
  BY HwcdcAssumption DEF Typed
<1> QED BY <1>1, MinOfThree DEF Received

LEMMA StartIsAPlace ==
  ASSUME Typed, NEW n \in Nat
  PROVE  (start + n) % RingSize \in 0 .. RingSize - 1
BY HwcdcAssumption DEF Typed

(* The call of one task moves.                                              *)
LEMMA CallStep ==
  ASSUME Inv, History, NEW t \in Tasks,
         task' \in [Tasks -> CallType], \A u \in Tasks \ {t} : task'[u] = task[u],
         Shape(task'[t]), Locks(task'[t]) <=> tx_lock' = t,
         tx_lock' = tx_lock \/ (tx_lock = NoTask /\ tx_lock' = t)
                            \/ (tx_lock = t /\ tx_lock' = NoTask),
         task'[t].kind = "write" /\ ~broke[t] /\ connected' => Counted(task'[t], FALSE),
         ring' \in Seq(Nat), Len(ring') <= RingSize, start' \in 0 .. RingSize - 1,
         sent' \in Nat, next' \in Nat, connected' \in BOOLEAN,
         Line(sent', ring', Writing', next')
  PROVE  Inv'
<1>1. broke' \in [Tasks -> BOOLEAN] /\ \A u \in Tasks : broke'[u] = BrokenCall(u)
  <2>1. \A u \in Tasks : BrokenCall(u) \in BOOLEAN
    BY DEF BrokenCall
  <2> QED BY <2>1 DEF History
<1>2. Typed'
  BY <1>1 DEF Inv, Typed
<1>3. ASSUME NEW u \in Tasks
      PROVE  /\ Shape(task'[u])
             /\ Locks(task'[u]) <=> tx_lock' = u
             /\ Counted(task'[u], broke'[u])
             /\ task'[u].kind = "write" /\ ~broke'[u] => connected'
  <2>1. CASE u = t
    BY <1>1, <2>1 DEF BrokenCall, Counted
  <2>2. CASE u # t
    <3>1. /\ task'[u] = task[u] /\ Shape(task[u]) /\ (Locks(task[u]) <=> tx_lock = u)
          /\ Counted(task[u], broke[u])
      BY <2>2 DEF Inv, Calls
    <3>2. tx_lock' = u <=> tx_lock = u
      BY <2>2, HwcdcAssumption
    <3> QED BY <1>1, <3>1, <3>2 DEF BrokenCall, Counted
  <2> QED BY <2>1, <2>2
<1> QED BY <1>2, <1>3 DEF Inv, Calls

(* Nothing it has in its hands changes.                                     *)
LEMMA QuietStep ==
  ASSUME Inv, History, NEW t \in Tasks,
         task' \in [Tasks -> CallType], \A u \in Tasks \ {t} : task'[u] = task[u],
         Shape(task'[t]), Locks(task'[t]) <=> Locks(task[t]),
         Locks(task[t]) => task'[t].todo = task[t].todo,
         task'[t].kind = "write" /\ ~broke[t] /\ connected' => Counted(task'[t], FALSE),
         UNCHANGED <<ring, start, sent, next, tx_lock>>, connected' \in BOOLEAN
  PROVE  Inv'
<1>1. Writing' = Writing
  BY HwcdcAssumption DEF Inv, Calls, Typed, Writing
<1>2. Line(sent', ring', Writing', next')
  BY <1>1 DEF Inv
<1>3. Locks(task'[t]) <=> tx_lock' = t
  BY DEF Inv, Calls
<1> QED BY <1>2, <1>3, CallStep DEF Inv, Typed

LEMMA NoCallIsACall ==
  NoCall \in CallType /\ Shape(NoCall) /\ ~Locks(NoCall) /\ NoCall.kind = "bool"
  /\ NoCall.todo = <<>> /\ NoCall.n = 0
BY DEF NoCall, CallType, Kinds, Steps, Shape, Locks

LEMMA CallKeepsInv ==
  ASSUME Inv, History, NEW t \in Tasks, NEW kind \in Kinds \ {"write"}, NEW step \in Steps,
         step = IF kind \in {"flush", "room"} THEN "take" ELSE "test",
         Call(t, kind, step)
  PROVE  Inv'
<1>1. task[t] \in CallType /\ Shape(task[t]) /\ task[t].at = "idle"
  BY DEF Inv, Typed, Calls, Call, At
<1> DEFINE c == [NoCall EXCEPT !.kind = kind, !.at = step,
                               !.todo = IF kind = "char" THEN <<0>> ELSE <<>>]
<1>2. c \in CallType /\ c.kind = kind /\ c.at = step /\ c.n = 0
      /\ c.todo = IF kind = "char" THEN <<0>> ELSE <<>>
  <2>1. \A todo \in Seq(Nat) :
          LET d == [NoCall EXCEPT !.kind = kind, !.at = step, !.todo = todo]
          IN d \in CallType /\ d.kind = kind /\ d.at = step /\ d.n = 0 /\ d.todo = todo
    BY NoCallIsACall DEF CallType
  <2>2. <<>> \in Seq(Nat) /\ <<0>> \in Seq(Nat)
    OBVIOUS
  <2> QED BY <2>1, <2>2
<1>3. task' = [task EXCEPT ![t] = c]
  BY DEF Call
<1> HIDE DEF c
<1>4. task' \in [Tasks -> CallType] /\ task'[t] = c /\ \A u \in Tasks \ {t} : task'[u] = task[u]
  BY <1>2, <1>3 DEF Inv, Typed
<1>5. Shape(c) /\ ~Locks(c) /\ ~Locks(task[t])
  BY <1>1, <1>2 DEF Shape, Locks, CallType, Kinds
<1> QED BY <1>2, <1>4, <1>5, QuietStep DEF Call, Inv, Typed, buffer

LEMMA CallWriteKeepsInv ==
  ASSUME Inv, History, NEW t \in Tasks, NEW n \in 1 .. MaxWrite, CallWrite(t, n)
  PROVE  Inv'
<1>1. task[t] \in CallType /\ Shape(task[t]) /\ task[t].at = "idle"
  BY DEF Inv, Typed, Calls, CallWrite, At
<1> DEFINE c == [NoCall EXCEPT !.kind = "write", !.at = "take", !.n = n, !.result = n]
<1>2. c \in CallType /\ c.kind = "write" /\ c.at = "take" /\ c.n = n /\ c.result = n
  <2>1. n \in Nat /\ n \in Int /\ "write" \in Kinds /\ "take" \in Steps
    BY HwcdcAssumption DEF Kinds, Steps
  <2> QED BY <2>1, NoCallIsACall DEF CallType
<1>3. task' = [task EXCEPT ![t] = c]
  BY DEF CallWrite
<1> HIDE DEF c
<1>4. task' \in [Tasks -> CallType] /\ task'[t] = c /\ \A u \in Tasks \ {t} : task'[u] = task[u]
  BY <1>2, <1>3 DEF Inv, Typed
<1>5. Shape(c) /\ ~Locks(c) /\ ~Locks(task[t]) /\ Counted(c, FALSE)
  BY <1>1, <1>2 DEF Shape, Locks, CallType, Kinds, Counted
<1> QED BY <1>2, <1>4, <1>5, QuietStep DEF CallWrite, Inv, Typed, buffer

LEMMA CallGoesOn ==
  ASSUME NEW c \in CallType, NEW step \in Steps
  PROVE  LET d == [c EXCEPT !.at = step]
         IN /\ d \in CallType /\ d.kind = c.kind /\ d.at = step /\ d.todo = c.todo /\ d.n = c.n
            /\ d.room = c.room /\ d.result = c.result
BY DEF CallType

LEMMA TestKeepsInv ==
  ASSUME Inv, History, NEW t \in Tasks, TestConnected(t)
  PROVE  Inv'
<1>1. /\ task[t] \in CallType /\ Shape(task[t]) /\ task[t].at = "test"
      /\ Counted(task[t], broke[t]) /\ (task[t].kind = "write" /\ ~broke[t] => connected)
      /\ connected \in BOOLEAN
  BY DEF Inv, Typed, Calls, TestConnected, At
<1> DEFINE step == IF ~plugged THEN WhenNot[task[t].kind]
                   ELSE IF connected THEN WhenConnected[task[t].kind] ELSE "poke"
<1>2. /\ step \in Steps
      /\ step = "idle" => task[t].kind = "bool"
      /\ step # "idle" =>
           \/ step = "poke" /\ ~connected
           \/ step = "drop" /\ ~plugged /\ task[t].kind \in {"write", "char"}
           \/ step \in {"dropAll", "look"} /\ task[t].kind = "flush"
           \/ step = "room" /\ task[t].kind = "write"
           \/ step = "charPut" /\ task[t].kind = "char"
  <2>1. CASE task[t].kind = "write"
    BY <2>1 DEF WhenNot, WhenConnected, Steps
  <2>2. CASE task[t].kind = "flush"
    BY <2>2 DEF WhenNot, WhenConnected, Steps
  <2>3. CASE task[t].kind = "bool"
    BY <2>3 DEF WhenNot, WhenConnected, Steps
  <2>4. CASE task[t].kind = "char"
    BY <2>4 DEF WhenNot, WhenConnected, Steps
  <2> QED BY <1>1, <2>1, <2>2, <2>3, <2>4 DEF Shape, CallType, Kinds
<1> DEFINE c == IF step = "idle" THEN NoCall ELSE [task[t] EXCEPT !.at = step]
<1>3. c \in CallType /\ (step # "idle" => /\ c.kind = task[t].kind /\ c.at = step
                                          /\ c.todo = task[t].todo /\ c.n = task[t].n
                                          /\ c.result = task[t].result)
      /\ (step = "idle" => c = NoCall)
  <2> HIDE DEF step
  <2> QED BY <1>1, <1>2, NoCallIsACall, CallGoesOn
<1>4. task' = [task EXCEPT ![t] = c] /\ connected' \in BOOLEAN /\ (~plugged => ~connected')
  <2>1. CASE ~plugged
    BY <1>1, <1>2, <2>1 DEF TestConnected, Proceed
  <2>2. CASE plugged /\ connected
    BY <1>1, <1>2, <2>2 DEF TestConnected, Proceed
  <2>3. CASE plugged /\ ~connected
    BY <1>1, <2>3 DEF TestConnected, Goto
  <2> QED BY <1>1, <2>1, <2>2, <2>3
<1> HIDE DEF c, step
<1>5. task' \in [Tasks -> CallType] /\ task'[t] = c /\ \A u \in Tasks \ {t} : task'[u] = task[u]
  BY <1>3, <1>4 DEF Inv, Typed
<1>6. CASE step = "idle"
  <2>1. ~Locks(task[t])
    BY <1>2, <1>6 DEF Locks
  <2> QED BY <1>3, <1>4, <1>5, <1>6, <2>1, NoCallIsACall, QuietStep DEF TestConnected, buffer
<1>7. CASE step # "idle"
  <2>1. Shape(c) /\ (Locks(c) <=> Locks(task[t]))
    BY <1>1, <1>2, <1>3, <1>7 DEF Shape, Locks
  <2>2. c.kind = "write" /\ ~broke[t] /\ connected' => Counted(c, FALSE)
    BY <1>1, <1>2, <1>3, <1>4, <1>7 DEF Counted
  <2> QED BY <1>2, <1>3, <1>4, <1>5, <1>7, <2>1, <2>2, QuietStep DEF TestConnected, buffer
<1> QED BY <1>6, <1>7

LEMMA PokeKeepsInv ==
  ASSUME Inv, History, NEW t \in Tasks, Poke(t)
  PROVE  Inv'
<1>1. /\ task[t] \in CallType /\ Shape(task[t]) /\ task[t].at = "poke"
      /\ Counted(task[t], broke[t])
  BY DEF Inv, Typed, Calls, Poke, At
<1> DEFINE step == WhenNot[task[t].kind]
<1>2. /\ step \in Steps
      /\ step = "idle" => task[t].kind = "bool"
      /\ step # "idle" => \/ step = "drop" /\ task[t].kind \in {"write", "char"}
                          \/ step = "dropAll" /\ task[t].kind = "flush"
  <2>1. CASE task[t].kind = "write"
    BY <2>1 DEF WhenNot, Steps
  <2>2. CASE task[t].kind = "flush"
    BY <2>2 DEF WhenNot, Steps
  <2>3. CASE task[t].kind = "bool"
    BY <2>3 DEF WhenNot, Steps
  <2>4. CASE task[t].kind = "char"
    BY <2>4 DEF WhenNot, Steps
  <2> QED BY <1>1, <2>1, <2>2, <2>3, <2>4 DEF Shape, CallType, Kinds
<1> DEFINE c == IF step = "idle" THEN NoCall ELSE [task[t] EXCEPT !.at = step]
<1>3. task' = [task EXCEPT ![t] = c] /\ connected' \in BOOLEAN
  BY DEF Poke, Proceed, Inv, Typed
<1> HIDE DEF step
<1>4. c \in CallType /\ (step # "idle" => /\ c.kind = task[t].kind /\ c.at = step
                                          /\ c.todo = task[t].todo /\ c.n = task[t].n)
      /\ (step = "idle" => c = NoCall)
  BY <1>1, <1>2, NoCallIsACall, CallGoesOn
<1> HIDE DEF c
<1>5. task' \in [Tasks -> CallType] /\ task'[t] = c /\ \A u \in Tasks \ {t} : task'[u] = task[u]
  BY <1>3, <1>4 DEF Inv, Typed
<1>6. CASE step = "idle"
  <2>1. ~Locks(task[t])
    BY <1>2, <1>6 DEF Locks
  <2> QED BY <1>3, <1>4, <1>5, <1>6, <2>1, NoCallIsACall, QuietStep DEF Poke, buffer
<1>7. CASE step # "idle"
  <2>1. Shape(c) /\ (Locks(c) <=> Locks(task[t]))
    BY <1>1, <1>2, <1>4, <1>7 DEF Shape, Locks
  <2>2. c.kind = "write" => broke[t]
    BY <1>1, <1>4, <1>7 DEF Counted
  <2> QED BY <1>3, <1>4, <1>5, <1>7, <2>1, <2>2, QuietStep DEF Poke, buffer
<1> QED BY <1>6, <1>7

LEMMA TimeoutKeepsInv ==
  ASSUME Inv, History, NEW t \in Tasks, TakeTimesOut(t)
  PROVE  Inv'
<1>1. task' = [task EXCEPT ![t] = NoCall] /\ task[t].at = "take" /\ connected' \in BOOLEAN
  BY DEF TakeTimesOut, Proceed, At, Inv, Typed
<1>2. task' \in [Tasks -> CallType] /\ task'[t] = NoCall
      /\ \A u \in Tasks \ {t} : task'[u] = task[u]
  BY <1>1, NoCallIsACall DEF Inv, Typed
<1>3. ~Locks(task[t])
  BY <1>1 DEF Locks
<1> QED BY <1>1, <1>2, <1>3, NoCallIsACall, QuietStep DEF TakeTimesOut, buffer

LEMMA LookForRoomKeepsInv ==
  ASSUME Inv, History, NEW t \in Tasks, LookForRoom(t)
  PROVE  Inv'
<1>1. /\ task[t] \in CallType /\ Shape(task[t]) /\ task[t].at \in {"room", "loop"}
      /\ Counted(task[t], broke[t]) /\ task[t].todo \in Seq(Nat)
  BY DEF Inv, Typed, Calls, LookForRoom, At, CallType
<1> DEFINE room == Min({Free, Len(task[t].todo)})
           c == [task[t] EXCEPT !.at = IF @ = "room" THEN "put" ELSE "loopPut", !.room = room]
<1>2. room \in Nat /\ room <= Len(task[t].todo)
  <2>1. Free \in Nat /\ Len(task[t].todo) \in Nat
    BY <1>1, HwcdcAssumption, SMTT(30) DEF Inv, Typed, Free
  <2> QED BY <2>1, MinOfTwo
<1>3. task' = [task EXCEPT ![t] = c] /\ connected' \in BOOLEAN
  BY DEF LookForRoom, Inv, Typed
<1> HIDE DEF room
<1>4. /\ c \in CallType /\ c.kind = task[t].kind /\ c.at \in {"put", "loopPut"}
      /\ c.todo = task[t].todo /\ c.n = task[t].n /\ c.room = room /\ c.result = task[t].result
  BY <1>1, <1>2 DEF CallType, Steps
<1> HIDE DEF c
<1>5. task' \in [Tasks -> CallType] /\ task'[t] = c /\ \A u \in Tasks \ {t} : task'[u] = task[u]
  BY <1>3, <1>4 DEF Inv, Typed
<1>6. Shape(c) /\ (Locks(c) <=> Locks(task[t]))
  BY <1>1, <1>2, <1>4 DEF Shape, Locks, CallType, Kinds
<1>7. c.kind = "write" /\ ~broke[t] => Counted(c, FALSE)
  BY <1>1, <1>4 DEF Counted
<1> QED BY <1>3, <1>4, <1>5, <1>6, <1>7, QuietStep DEF LookForRoom, buffer

LEMMA PutFailsKeepsInv ==
  ASSUME Inv, History, NEW t \in Tasks, PutFails(t)
  PROVE  Inv'
<1>1. /\ task[t] \in CallType /\ Shape(task[t]) /\ task[t].at \in {"put", "loopPut"}
      /\ task[t].n \in Nat /\ task[t].todo \in Seq(Nat)
  BY DEF Inv, Typed, Calls, PutFails, At, CallType
<1> DEFINE c == [task[t] EXCEPT !.at = "check", !.room = 0, !.result = SoFar(t),
                                !.tries = 0, !.last = 0]
<1>2. task' = [task EXCEPT ![t] = c] /\ connected' \in BOOLEAN
  BY DEF PutFails, Inv, Typed
<1>3. SoFar(t) \in Int
  <2>1. Len(task[t].todo) \in Nat
    BY <1>1
  <2> QED BY <1>1, <2>1 DEF SoFar
<1>4. /\ c \in CallType /\ c.kind = task[t].kind /\ c.at = "check"
      /\ c.todo = task[t].todo /\ c.n = task[t].n /\ c.result = SoFar(t)
  BY <1>1, <1>3 DEF CallType, Steps
<1> HIDE DEF c
<1>5. task' \in [Tasks -> CallType] /\ task'[t] = c /\ \A u \in Tasks \ {t} : task'[u] = task[u]
  BY <1>2, <1>4 DEF Inv, Typed
<1>6. Shape(c) /\ (Locks(c) <=> Locks(task[t]))
  BY <1>1, <1>4 DEF Shape, Locks, CallType, Kinds
<1>7. Counted(c, FALSE)
  BY <1>4 DEF Counted, SoFar
<1> QED BY <1>2, <1>4, <1>5, <1>6, <1>7, QuietStep DEF PutFails, buffer

LEMMA TriggerKeepsInv ==
  ASSUME Inv, History, NEW t \in Tasks, Trigger(t)
  PROVE  Inv'
<1>1. /\ task[t] \in CallType /\ Shape(task[t]) /\ task[t].at = "trigger"
      /\ Counted(task[t], broke[t]) /\ task[t].todo \in Seq(Nat)
  BY DEF Inv, Typed, Calls, Trigger, At, CallType
<1> DEFINE c == IF task[t].looping THEN [task[t] EXCEPT !.at = "count"]
                ELSE [task[t] EXCEPT !.at = "loop", !.looping = TRUE, !.tries = Tries,
                                     !.last = Len(task[t].todo)]
<1>2. task' = [task EXCEPT ![t] = c] /\ connected' \in BOOLEAN
  BY DEF Trigger, Inv, Typed
<1>3. /\ c \in CallType /\ c.kind = task[t].kind /\ c.at \in {"count", "loop"}
      /\ c.todo = task[t].todo /\ c.n = task[t].n /\ c.result = task[t].result
  <2>1. Len(task[t].todo) \in Nat /\ Tries \in Nat
    BY <1>1, HwcdcAssumption
  <2> QED BY <1>1, <2>1 DEF CallType, Steps
<1> HIDE DEF c
<1>4. task' \in [Tasks -> CallType] /\ task'[t] = c /\ \A u \in Tasks \ {t} : task'[u] = task[u]
  BY <1>2, <1>3 DEF Inv, Typed
<1>5. Shape(c) /\ (Locks(c) <=> Locks(task[t]))
  BY <1>1, <1>3 DEF Shape, Locks, CallType, Kinds
<1>6. c.kind = "write" /\ ~broke[t] => Counted(c, FALSE)
  BY <1>1, <1>3 DEF Counted
<1> QED BY <1>2, <1>3, <1>4, <1>5, <1>6, QuietStep DEF Trigger, buffer

LEMMA CountKeepsInv ==
  ASSUME Inv, History, NEW t \in Tasks, CountProgress(t)
  PROVE  Inv'
<1>1. /\ task[t] \in CallType /\ Shape(task[t]) /\ task[t].at = "count"
      /\ Counted(task[t], broke[t]) /\ task[t].todo \in Seq(Nat) /\ task[t].n \in Nat
      /\ task[t].tries \in Nat /\ task[t].result \in Int /\ connected \in BOOLEAN
  BY DEF Inv, Typed, Calls, CountProgress, At, CallType
<1> DEFINE stuck == task[t].last = Len(task[t].todo)
           tries == IF stuck THEN OneTryLess(task[t].tries) ELSE Tries
           result == IF tries = 0 THEN SoFar(t) ELSE task[t].result
           c == [task[t] EXCEPT !.at = "loop", !.tries = tries,
                                !.last = Len(task[t].todo), !.result = result]
<1>2. task' = [task EXCEPT ![t] = c] /\ connected' = (connected /\ tries # 0)
  BY DEF CountProgress
<1>3. tries \in Nat /\ Len(task[t].todo) \in Nat /\ SoFar(t) \in Int
  <2>1. Len(task[t].todo) \in Nat
    BY <1>1
  <2>2. OneTryLess(task[t].tries) \in Nat
    BY <1>1, HwcdcAssumption DEF OneTryLess
  <2>3. Tries \in Nat
    BY HwcdcAssumption
  <2> QED BY <1>1, <2>1, <2>2, <2>3 DEF SoFar
<1> HIDE DEF stuck, tries
<1>4. result \in Int /\ (tries # 0 => result = task[t].result)
  BY <1>1, <1>3
<1> HIDE DEF result
<1>5. /\ c \in CallType /\ c.kind = task[t].kind /\ c.at = "loop"
      /\ c.todo = task[t].todo /\ c.n = task[t].n /\ c.result = result
  BY <1>1, <1>3, <1>4 DEF CallType, Steps
<1> HIDE DEF c
<1>6. task' \in [Tasks -> CallType] /\ task'[t] = c /\ \A u \in Tasks \ {t} : task'[u] = task[u]
  BY <1>2, <1>5 DEF Inv, Typed
<1>7. Shape(c) /\ (Locks(c) <=> Locks(task[t]))
  BY <1>1, <1>5 DEF Shape, Locks, CallType, Kinds
<1>8. c.kind = "write" /\ ~broke[t] /\ connected' => Counted(c, FALSE)
  BY <1>1, <1>2, <1>4, <1>5 DEF Counted
<1>9. connected' \in BOOLEAN
  BY <1>1, <1>2
<1> QED BY <1>5, <1>6, <1>7, <1>8, <1>9, QuietStep DEF CountProgress, buffer

LEMMA LeaveLoopKeepsInv ==
  ASSUME Inv, History, NEW t \in Tasks, LeaveLoop(t)
  PROVE  Inv'
<1>1. /\ task[t] \in CallType /\ Shape(task[t]) /\ task[t].at \in {"check", "loop"}
      /\ Counted(task[t], broke[t]) /\ task[t].todo \in Seq(Nat) /\ task[t].n \in Nat
      /\ (task[t].kind = "write" /\ ~broke[t] => connected) /\ connected \in BOOLEAN
      /\ task[t].at = "loop" => ~connected \/ task[t].todo = <<>>
  BY DEF Inv, Typed, Calls, LeaveLoop, At, CallType
<1> DEFINE lost == task[t].todo # <<>> /\ ~Writable
           step == IF lost THEN "drop" ELSE "give"
           c == [task[t] EXCEPT !.at = step, !.tries = 0, !.last = 0, !.looping = FALSE]
<1>2. task' = [task EXCEPT ![t] = c] /\ connected' = (connected /\ ~lost)
  BY DEF LeaveLoop
<1>3. step \in {"drop", "give"} /\ (step = "drop" => ~connected')
  BY <1>2
<1> HIDE DEF step
<1>4. /\ c \in CallType /\ c.kind = task[t].kind /\ c.at = step
      /\ c.todo = task[t].todo /\ c.n = task[t].n /\ c.result = task[t].result
  BY <1>1, <1>3 DEF CallType, Steps
<1> HIDE DEF c
<1>5. task' \in [Tasks -> CallType] /\ task'[t] = c /\ \A u \in Tasks \ {t} : task'[u] = task[u]
  BY <1>2, <1>4 DEF Inv, Typed
<1>6. Shape(c) /\ (Locks(c) <=> Locks(task[t])) /\ c.kind = "write"
  BY <1>1, <1>3, <1>4 DEF Shape, Locks, CallType, Kinds
<1>7. ~broke[t] /\ connected' => Counted(c, FALSE)
  <2> SUFFICES ASSUME ~broke[t], connected' PROVE Counted(c, FALSE)
    OBVIOUS
  <2>1. c.at = "give" /\ connected
    BY <1>1, <1>3, <1>4, <1>6
  <2>2. CASE task[t].at = "check"
    BY <1>1, <1>4, <1>6, <2>1, <2>2 DEF Counted
  <2>3. CASE task[t].at = "loop"
    <3>1. task[t].todo = <<>> /\ Len(task[t].todo) = 0 /\ task[t].result = task[t].n
      BY <1>1, <1>4, <1>6, <2>1, <2>3 DEF Counted
    <3> QED BY <1>1, <1>4, <2>1, <3>1 DEF Counted
  <2> QED BY <1>1, <2>2, <2>3
<1>8. connected' \in BOOLEAN
  BY <1>1, <1>2
<1> QED BY <1>4, <1>5, <1>6, <1>7, <1>8, QuietStep DEF LeaveLoop, buffer

LEMMA FlushKeepsInv ==
  ASSUME Inv, History, NEW t \in Tasks, LookForData(t) \/ WaitForHost(t) \/ StopWaiting(t)
  PROVE  Inv'
<1>1. /\ task[t] \in CallType /\ Shape(task[t]) /\ task[t].at \in {"look", "wait"}
      /\ Len(ring) \in Nat /\ task[t].tries \in Nat /\ connected \in BOOLEAN
  BY DEF Inv, Typed, Calls, LookForData, WaitForHost, StopWaiting, At, CallType
<1>2. task[t].kind = "flush"
  BY <1>1 DEF Shape, CallType, Kinds
<1>3. PICK step \in {"wait", "dropAll", "give"}, tries \in Nat, last \in Nat :
        task' = [task EXCEPT ![t] = [@ EXCEPT !.at = step, !.tries = tries, !.last = last]]
  <2>1. CASE LookForData(t)
    <3>1. task' = [task EXCEPT ![t] = [@ EXCEPT !.at = "wait", !.tries = Tries, !.last = Len(ring)]]
      BY <2>1 DEF LookForData
    <3> QED BY <1>1, <3>1, HwcdcAssumption
  <2>2. CASE WaitForHost(t)
    <3> DEFINE tries == IF task[t].last = Len(ring) THEN task[t].tries - 1 ELSE task[t].tries
    <3>1. tries \in Nat
      BY <1>1, <2>2 DEF WaitForHost, Waits
    <3>2. task' = [task EXCEPT ![t] = [@ EXCEPT !.at = "wait", !.tries = tries, !.last = Len(ring)]]
      BY <1>1, <2>2 DEF WaitForHost, At, Inv, Typed, CallType
    <3> HIDE DEF tries
    <3> QED BY <1>1, <3>1, <3>2
  <2>3. CASE StopWaiting(t)
    <3> DEFINE step == IF task[t].tries = 0 THEN "dropAll" ELSE "give"
    <3>1. task' = [task EXCEPT ![t] = [@ EXCEPT !.at = step, !.tries = task[t].tries,
                                                !.last = task[t].last]]
      BY <1>1, <2>3 DEF StopWaiting, Goto, Inv, Typed, CallType
    <3>2. step \in {"wait", "dropAll", "give"} /\ task[t].last \in Nat
      BY <1>1 DEF CallType
    <3> HIDE DEF step
    <3> QED BY <1>1, <3>1, <3>2
  <2> QED BY <2>1, <2>2, <2>3
<1> DEFINE c == [task[t] EXCEPT !.at = step, !.tries = tries, !.last = last]
<1>4. c \in CallType /\ c.kind = "flush" /\ c.at = step /\ c.todo = task[t].todo /\ c.n = task[t].n
  BY <1>1, <1>2 DEF CallType, Steps
<1>5. task' = [task EXCEPT ![t] = c]
  BY <1>3
<1> HIDE DEF c
<1>6. task' \in [Tasks -> CallType] /\ task'[t] = c /\ \A u \in Tasks \ {t} : task'[u] = task[u]
  BY <1>4, <1>5 DEF Inv, Typed
<1>7. Shape(c) /\ (Locks(c) <=> Locks(task[t]))
  BY <1>1, <1>2, <1>4 DEF Shape, Locks, CallType, Kinds
<1>8. connected' \in BOOLEAN
  BY <1>1 DEF LookForData, WaitForHost, StopWaiting
<1>9. UNCHANGED <<ring, start, sent, next, tx_lock>>
  BY DEF LookForData, WaitForHost, StopWaiting, buffer
<1> QED BY <1>4, <1>6, <1>7, <1>8, <1>9, QuietStep

(* What a call with the lock still has to send is in Writing.               *)
LEMMA LockHolder ==
  ASSUME Inv, NEW t \in Tasks, Locks(task[t])
  PROVE  tx_lock = t /\ Writing = task[t].todo /\ tx_lock # NoTask
BY HwcdcAssumption DEF Inv, Calls, Writing

LEMMA NoLock ==
  ASSUME Inv, NEW t \in Tasks, ~Locks(task[t])
  PROVE  tx_lock # t
BY DEF Inv, Calls

LEMMA OtherHolder ==
  ASSUME Inv, NEW t \in Tasks, ~Locks(task[t]), tx_lock' = tx_lock,
         \A u \in Tasks \ {t} : task'[u] = task[u]
  PROVE  Writing' = Writing
BY NoLock DEF Inv, Typed, Writing

LEMMA TakeKeepsInv ==
  ASSUME Inv, History, NEW t \in Tasks, TakeLock(t)
  PROVE  Inv'
<1>1. /\ task[t] \in CallType /\ Shape(task[t]) /\ task[t].at = "take" /\ tx_lock = NoTask
      /\ Counted(task[t], broke[t]) /\ task[t].n \in Nat /\ next \in Nat
      /\ sent \in Nat /\ ring \in Seq(Nat)
  BY DEF Inv, Typed, Calls, TakeLock, At, CallType
<1> DEFINE n == task[t].n
           q == [i \in 1 .. n |-> next + i - 1]
           step == IF task[t].kind = "room" THEN "give" ELSE "test"
           c == [task[t] EXCEPT !.at = step, !.todo = q]
<1>2. Line(sent, ring, <<>>, next)
  BY <1>1 DEF Inv, Writing
<1>3. q \in Seq(Nat) /\ Len(q) = n /\ Line(sent, ring, q, next + n)
  <2>1. q \in Seq(Nat) /\ Len(q) = n /\ \A i \in 1 .. n : q[i] = next + i - 1
    <3> HIDE DEF n
    <3>1. n \in Nat /\ \A i \in 1 .. n : next + i - 1 \in Nat
      BY <1>1 DEF n
    <3> QED BY <3>1, IsASeq, LenProperties
  <2> HIDE DEF q, n
  <2> QED BY <1>1, <1>2, <2>1, LineNumbers
<1>4. task' = [task EXCEPT ![t] = c] /\ next' = next + n /\ tx_lock' = t
  BY DEF TakeLock
<1>5. n = 0 => q = <<>>
  <2>1. n = 0 => 1 .. n = {}
    BY <1>1
  <2> QED BY <1>3, EmptySeq
<1>6. n \in Nat
  BY <1>1
<1> HIDE DEF q, n
<1>7. /\ c \in CallType /\ c.kind = task[t].kind /\ c.at = step /\ c.todo = q
      /\ c.n = task[t].n /\ c.result = task[t].result
  BY <1>1, <1>3 DEF CallType, Steps
<1>8. step \in {"give", "test"} /\ (step = "give" <=> task[t].kind = "room")
  OBVIOUS
<1> HIDE DEF c, step
<1>9. task' \in [Tasks -> CallType] /\ task'[t] = c /\ \A u \in Tasks \ {t} : task'[u] = task[u]
  BY <1>4, <1>7 DEF Inv, Typed
<1>10. Shape(c) /\ Locks(c)
  BY <1>1, <1>5, <1>7, <1>8 DEF Shape, Locks, CallType, Kinds, n
<1>11. c.kind = "write" /\ ~broke[t] => Counted(c, FALSE)
  BY <1>1, <1>7, <1>8 DEF Counted
<1>12. Writing' = q
  BY <1>4, <1>7, <1>9, HwcdcAssumption DEF Writing
<1>13. next' \in Nat /\ Line(sent', ring', Writing', next')
  BY <1>1, <1>3, <1>4, <1>6, <1>12 DEF TakeLock, buffer
<1>14. UNCHANGED <<ring, start, sent, connected>>
  BY DEF TakeLock, buffer
<1> QED BY <1>1, <1>4, <1>7, <1>9, <1>10, <1>11, <1>13, <1>14, CallStep DEF Inv, Typed

LEMMA GiveKeepsInv ==
  ASSUME Inv, History, NEW t \in Tasks, Give(t)
  PROVE  Inv'
<1>1. /\ task[t] \in CallType /\ Shape(task[t]) /\ task[t].at = "give" /\ tx_lock' = NoTask
      /\ sent \in Nat /\ ring \in Seq(Nat) /\ next \in Nat
  BY DEF Inv, Typed, Calls, Give, At
<1>2. Locks(task[t])
  BY <1>1 DEF Shape, Locks, CallType, Kinds
<1>3. tx_lock = t /\ Writing = task[t].todo /\ task[t].todo \in Seq(Nat)
  BY <1>1, <1>2, LockHolder DEF CallType
<1>4. task' = [task EXCEPT ![t] = NoCall]
  BY DEF Give, Proceed
<1>5. task' \in [Tasks -> CallType] /\ task'[t] = NoCall
      /\ \A u \in Tasks \ {t} : task'[u] = task[u]
  BY <1>4, NoCallIsACall DEF Inv, Typed
<1>6. UNCHANGED <<ring, start, sent, connected, next>>
  BY DEF Give, buffer
<1>7. Line(sent, ring, <<>>, next)
  BY <1>1, <1>3, LineWithout DEF Inv
<1>8. Writing' = <<>>
  BY <1>1 DEF Writing
<1>9. tx_lock' # t
  BY <1>1, HwcdcAssumption
<1>10. Line(sent', ring', Writing', next')
  BY <1>6, <1>7, <1>8
<1> QED BY <1>1, <1>3, <1>5, <1>6, <1>9, <1>10, NoCallIsACall, CallStep DEF Inv, Typed

LEMMA PutKeepsInv ==
  ASSUME Inv, History, NEW t \in Tasks, Put(t)
  PROVE  Inv'
<1> DEFINE n == task[t].room
           todo == task[t].todo
           first == SubSeq(todo, 1, n)
           rest == SubSeq(todo, n + 1, Len(todo))
           c == [task[t] EXCEPT !.at = "trigger", !.todo = rest, !.room = 0]
<1>1. /\ task[t] \in CallType /\ Shape(task[t]) /\ task[t].at \in {"put", "loopPut"}
      /\ Counted(task[t], broke[t]) /\ sent \in Nat /\ ring \in Seq(Nat) /\ next \in Nat
      /\ todo \in Seq(Nat) /\ n \in Nat /\ n <= Len(todo) /\ n <= Free
  BY DEF Inv, Typed, Calls, Put, At, CallType, Shape
<1>2. Locks(task[t]) /\ task[t].kind = "write"
  BY <1>1 DEF Shape, Locks, CallType, Kinds
<1>3. tx_lock = t /\ Writing = todo
  BY <1>1, <1>2, LockHolder
<1>4. n \in 0 .. Len(todo)
  BY <1>1
<1>5. Line(sent, ring \o first, rest, next)
  BY <1>1, <1>3, <1>4, LinePuts DEF Inv
<1>6. ring' = ring \o first /\ task' = [task EXCEPT ![t] = c]
      /\ UNCHANGED <<start, sent, next, tx_lock, connected>>
  BY DEF Put, Send
<1>7. first \in Seq(Nat) /\ Len(first) = n /\ rest \in Seq(Nat)
  <2>1. Rising(todo)
    BY <1>3 DEF Inv, Line
  <2> QED BY <1>1, <1>4, <2>1, RisingStart, RisingRest
<1> HIDE DEF first, rest
<1>8. ring' \in Seq(Nat) /\ Len(ring') <= RingSize
  <2>1. Len(ring \o first) = Len(ring) + n /\ ring \o first \in Seq(Nat)
    <3> HIDE DEF n, todo, c
    <3> QED BY <1>1, <1>7, ConcatProperties
  <2>2. Len(ring) \in Nat /\ RingSize \in Nat
    BY <1>1, HwcdcAssumption
  <2> QED BY <1>1, <1>6, <2>1, <2>2 DEF Free
<1>9. /\ c \in CallType /\ c.kind = "write" /\ c.at = "trigger" /\ c.todo = rest
      /\ c.n = task[t].n /\ c.result = task[t].result
  BY <1>1, <1>2, <1>7 DEF CallType, Steps
<1> HIDE DEF c, todo, n
<1>10. task' \in [Tasks -> CallType] /\ task'[t] = c /\ \A u \in Tasks \ {t} : task'[u] = task[u]
  BY <1>6, <1>9 DEF Inv, Typed
<1>11. Shape(c) /\ Locks(c)
  BY <1>9 DEF Shape, Locks
<1>12. ~broke[t] => Counted(c, FALSE)
  BY <1>1, <1>2, <1>9 DEF Counted
<1>13. Writing' = rest
  BY <1>3, <1>6, <1>9, <1>10, HwcdcAssumption DEF Writing
<1>14. Line(sent', ring', Writing', next')
  BY <1>5, <1>6, <1>13
<1> QED BY <1>1, <1>3, <1>6, <1>8, <1>9, <1>10, <1>11, <1>12, <1>14, CallStep DEF Inv, Typed

LEMMA InHands ==
  ASSUME Inv
  PROVE  /\ Writing \in Seq(Nat) /\ ring \in Seq(Nat) /\ Len(ring) \in Nat /\ Len(ring) <= RingSize
         /\ RingSize \in Nat \ {0} /\ sent \in Nat /\ next \in Nat
<1>1. ring \in Seq(Nat) /\ Len(ring) <= RingSize /\ sent \in Nat /\ next \in Nat
  BY DEF Inv, Typed
<1>2. Len(ring) \in Nat
  BY <1>1
<1>3. RingSize \in Nat \ {0}
  BY HwcdcAssumption
<1>4. CASE tx_lock = NoTask
  BY <1>1, <1>2, <1>3, <1>4 DEF Writing
<1>5. CASE tx_lock # NoTask
  <2>1. task[tx_lock] \in CallType
    BY <1>5 DEF Inv, Typed
  <2>2. task[tx_lock].todo \in Seq(Nat)
    BY <2>1 DEF CallType
  <2> QED BY <1>1, <1>2, <1>3, <1>5, <2>2 DEF Writing
<1> QED BY <1>4, <1>5

LEMMA RingAfter ==
  ASSUME Inv, NEW n \in 0 .. Len(ring)
  PROVE  /\ SubSeq(ring, n + 1, Len(ring)) \in Seq(Nat)
         /\ Len(SubSeq(ring, n + 1, Len(ring))) <= RingSize
         /\ (start + n) % RingSize \in 0 .. RingSize - 1
<1>1. Rising(ring) /\ n \in Nat
  BY InHands DEF Inv, Line
<1>2. /\ SubSeq(ring, n + 1, Len(ring)) \in Seq(Nat)
      /\ Len(SubSeq(ring, n + 1, Len(ring))) = Len(ring) - n
  BY <1>1, InHands, RisingRest
<1>3. Len(ring) - n <= RingSize
  BY <1>1, InHands
<1> QED BY <1>1, <1>2, <1>3, StartIsAPlace DEF Inv

LEMMA PartThatFits ==
  ASSUME NEW size \in Nat
  PROVE  /\ Min({size, RingSize}) \in 0 .. size
         /\ size = 1 => Min({size, RingSize}) = 1
<1>1. RingSize \in Nat \ {0}
  BY HwcdcAssumption
<1>2. Min({size, RingSize}) \in {size, RingSize} /\ Min({size, RingSize}) <= size
  BY <1>1, MinOfTwo
<1> DEFINE m == Min({size, RingSize})
<1> HIDE DEF m
<1>3. (m = size \/ m = RingSize) /\ m <= size
  BY <1>2 DEF m
<1>4. m \in 0 .. size /\ (size = 1 => m = 1)
  BY <1>1, <1>3
<1> QED BY <1>4 DEF m

LEMMA DropOldestKeepsInv ==
  ASSUME Inv, History, NEW t \in Tasks, DropOldest(t)
  PROVE  Inv'
<1> DEFINE todo == task[t].todo
           size == Len(todo)
           n == IF Free >= size THEN 0 ELSE Received(Min({size - Free, RingSize}))
           k == Min({size, RingSize})
           c == [task[t] EXCEPT !.at = "dropSend", !.todo = SubSeq(todo, 1, k)]
<1>1. /\ task[t] \in CallType /\ Shape(task[t]) /\ task[t].at = "drop"
      /\ Counted(task[t], broke[t]) /\ sent \in Nat /\ ring \in Seq(Nat) /\ next \in Nat
      /\ todo \in Seq(Nat) /\ size \in Nat /\ Len(ring) <= RingSize
      /\ Len(ring) \in Nat /\ RingSize \in Nat \ {0} /\ Writing \in Seq(Nat)
  <2>1. task[t] \in CallType /\ Shape(task[t]) /\ Counted(task[t], broke[t])
    BY DEF Inv, Typed, Calls
  <2>2. task[t].at = "drop"
    BY DEF DropOldest, At
  <2>3. task[t].todo \in Seq(Nat)
    BY <2>1 DEF CallType
  <2> QED BY <2>1, <2>2, <2>3, InHands
<1>2. k \in 0 .. size /\ (size = 1 => k = 1)
  <2>1. size \in Nat
    BY <1>1
  <2> HIDE DEF size, n, c
  <2> QED BY <2>1, PartThatFits
<1>3. n \in 0 .. Len(ring)
  <2>1. CASE Free >= size
    BY <1>1, <2>1
  <2>2. CASE ~(Free >= size)
    <3>1. size - Free \in Nat
      <4> HIDE DEF size
      <4> QED BY <1>1, <2>2 DEF Free
    <3>2. Min({size - Free, RingSize}) \in Nat
      BY <1>1, <3>1, MinOfTwo
    <3> HIDE DEF size
    <3> QED BY <2>2, <3>2, HowMany DEF Inv
  <2> QED BY <2>1, <2>2
<1>4. /\ ring' = SubSeq(ring, n + 1, Len(ring)) /\ start' = (start + n) % RingSize
      /\ task' = [task EXCEPT ![t] = c]
      /\ UNCHANGED <<sent, tx_lock, connected, next>>
  BY DEF DropOldest, Receive
<1> HIDE DEF n
<1>5. ring' \in Seq(Nat) /\ Len(ring') <= RingSize /\ start' \in 0 .. RingSize - 1
  BY <1>3, <1>4, RingAfter
<1>6. Line(sent, ring', Writing, next)
  BY <1>1, <1>3, <1>4, LineDrops DEF Inv
<1>7. SubSeq(todo, 1, k) \in Seq(Nat) /\ Len(SubSeq(todo, 1, k)) = k
      /\ \A i \in 1 .. k : SubSeq(todo, 1, k)[i] = todo[i]
  <2> HIDE DEF todo, k, c
  <2>1. k \in 0 .. Len(todo)
    BY <1>1, <1>2
  <2> QED BY <1>1, <2>1, SubSeqProperties
<1>8. k = size => SubSeq(todo, 1, k) = todo
  BY <1>1, <1>7, SeqEqual
<1> HIDE DEF k
<1>9. /\ c \in CallType /\ c.kind = task[t].kind /\ c.at = "dropSend"
      /\ c.todo = SubSeq(todo, 1, k) /\ c.n = task[t].n
  BY <1>1, <1>7 DEF CallType, Steps
<1> HIDE DEF c
<1>10. task' \in [Tasks -> CallType] /\ task'[t] = c /\ \A u \in Tasks \ {t} : task'[u] = task[u]
  BY <1>4, <1>9 DEF Inv, Typed
<1>11. CASE task[t].kind = "write"
  <2>1. Locks(task[t]) /\ Shape(c) /\ Locks(c)
    BY <1>1, <1>9, <1>11 DEF Shape, Locks
  <2>2. tx_lock = t /\ Writing = todo
    BY <2>1, LockHolder
  <2>3. Line(sent, ring', SubSeq(todo, 1, k), next)
    BY <1>1, <1>2, <1>5, <1>6, <2>2, LineCuts
  <2>4. Writing' = SubSeq(todo, 1, k)
    BY <1>4, <1>9, <1>10, <2>2, HwcdcAssumption DEF Writing
  <2>5. Line(sent', ring', Writing', next')
    BY <1>4, <2>3, <2>4
  <2>6. ~broke[t] => Counted(c, FALSE)
    BY <1>1, <1>11 DEF Counted
  <2> QED BY <1>1, <1>4, <1>5, <1>9, <1>10, <2>1, <2>2, <2>5, <2>6, CallStep DEF Inv, Typed
<1>12. CASE task[t].kind = "char"
  <2>1. todo = <<0>> /\ size = 1
    BY <1>1, <1>12 DEF Shape
  <2>2. c.todo = <<0>>
    BY <1>2, <1>8, <1>9, <2>1
  <2>3. ~Locks(task[t]) /\ Shape(c) /\ ~Locks(c)
    BY <1>9, <1>12, <2>2 DEF Shape, Locks
  <2>4. tx_lock # t
    BY <2>3, NoLock
  <2>5. Writing' = Writing
    BY <1>4, <1>10, <2>3, OtherHolder
  <2>6. Line(sent', ring', Writing', next')
    BY <1>4, <1>6, <2>5
  <2> QED BY <1>1, <1>4, <1>5, <1>9, <1>10, <1>12, <2>3, <2>4, <2>6, CallStep DEF Inv, Typed
<1> QED BY <1>1, <1>11, <1>12 DEF Shape, CallType, Kinds

LEMMA SendNewestKeepsInv ==
  ASSUME Inv, History, NEW t \in Tasks, SendNewest(t)
  PROVE  Inv'
<1> DEFINE todo == task[t].todo
           c == IF task[t].kind = "char" THEN NoCall
                ELSE [task[t] EXCEPT !.at = "give", !.todo = <<>>]
<1>1. /\ task[t] \in CallType /\ Shape(task[t]) /\ task[t].at = "dropSend"
      /\ Counted(task[t], broke[t]) /\ sent \in Nat /\ ring \in Seq(Nat) /\ next \in Nat
      /\ todo \in Seq(Nat) /\ Len(todo) \in Nat /\ Len(ring) <= RingSize
      /\ Len(ring) \in Nat /\ RingSize \in Nat \ {0} /\ Writing \in Seq(Nat)
  <2>1. task[t] \in CallType /\ Shape(task[t]) /\ Counted(task[t], broke[t])
    BY DEF Inv, Typed, Calls
  <2>2. task[t].at = "dropSend"
    BY DEF SendNewest, At
  <2>3. task[t].todo \in Seq(Nat)
    BY <2>1 DEF CallType
  <2> QED BY <2>1, <2>2, <2>3, InHands
<1>2. /\ \/ ring' = ring \o todo /\ Len(todo) <= Free
         \/ ring' = ring
      /\ task' = [task EXCEPT ![t] = c]
      /\ UNCHANGED <<start, sent, tx_lock, connected, next>>
  BY <1>1, HwcdcAssumption DEF SendNewest, Send, Free
<1>3. c \in CallType /\ Shape(c)
      /\ (task[t].kind = "char" => c = NoCall)
      /\ (task[t].kind # "char" => c.kind = task[t].kind /\ c.at = "give" /\ c.todo = <<>>)
  <2>1. <<>> \in Seq(Nat) /\ "give" \in Steps
    BY DEF Steps
  <2> QED BY <1>1, <2>1, NoCallIsACall DEF CallType, Shape
<1> HIDE DEF c
<1>4. task' \in [Tasks -> CallType] /\ task'[t] = c /\ \A u \in Tasks \ {t} : task'[u] = task[u]
  BY <1>2, <1>3 DEF Inv, Typed
<1>5. ring' \in Seq(Nat) /\ Len(ring') <= RingSize
  <2>1. Len(ring \o todo) = Len(ring) + Len(todo) /\ ring \o todo \in Seq(Nat)
    BY <1>1, ConcatProperties
  <2> HIDE DEF todo
  <2>2. CASE ring' = ring
    BY <1>1, <2>2
  <2>3. CASE ring' = ring \o todo /\ Len(todo) <= Free
    <3>1. Len(ring') = Len(ring) + Len(todo) /\ ring' \in Seq(Nat)
      BY <2>1, <2>3
    <3> QED BY <1>1, <2>3, <3>1 DEF Free
  <2> QED BY <1>2, <2>2, <2>3
<1>6. CASE task[t].kind = "write"
  <2>1. Locks(task[t]) /\ Locks(c)
    BY <1>1, <1>3, <1>6 DEF Locks
  <2>2. tx_lock = t /\ Writing = todo
    BY <2>1, LockHolder
  <2>3. Line(sent, ring, <<>>, next)
    BY <1>1, LineWithout DEF Inv
  <2>4. Line(sent, ring \o todo, <<>>, next)
    <3> HIDE DEF todo
    <3>1. Len(todo) \in 0 .. Len(todo)
      BY <1>1
    <3>2. SubSeq(todo, 1, Len(todo)) = todo /\ SubSeq(todo, Len(todo) + 1, Len(todo)) = <<>>
      BY <1>1, <3>1, SubSeqFull, SubSeqEmpty
    <3> QED BY <1>1, <2>2, <3>1, <3>2, LinePuts DEF Inv
  <2>5. Writing' = <<>>
    BY <1>2, <1>3, <1>4, <1>6, <2>2, HwcdcAssumption DEF Writing
  <2>6. Line(sent', ring', Writing', next')
    BY <1>2, <2>3, <2>4, <2>5
  <2>7. broke[t]
    BY <1>1, <1>6 DEF Counted
  <2> QED BY <1>1, <1>2, <1>3, <1>4, <1>5, <2>1, <2>2, <2>6, <2>7, CallStep DEF Inv, Typed
<1>7. CASE task[t].kind = "char"
  <2>1. todo = <<0>>
    BY <1>1, <1>7 DEF Shape
  <2>2. ~Locks(task[t]) /\ ~Locks(c) /\ c.kind = "bool"
    BY <1>3, <1>7, NoCallIsACall DEF Locks
  <2>3. tx_lock # t /\ Writing' = Writing
    BY <1>2, <1>4, <2>2, NoLock, OtherHolder
  <2>4. Line(sent, ring \o <<0>>, Writing, next)
    BY <1>1, LineTakesChar DEF Inv
  <2>5. Line(sent', ring', Writing', next')
    BY <1>2, <2>1, <2>3, <2>4 DEF Inv
  <2> QED BY <1>1, <1>2, <1>3, <1>4, <1>5, <2>2, <2>3, <2>5, CallStep DEF Inv, Typed
<1> QED BY <1>1, <1>6, <1>7 DEF Shape, CallType, Kinds

LEMMA DropAllKeepsInv ==
  ASSUME Inv, History, NEW t \in Tasks, DropAll(t)
  PROVE  Inv'
<1> DEFINE n == Received(RingSize)
           c == [task[t] EXCEPT !.at = "give"]
<1>1. /\ task[t] \in CallType /\ Shape(task[t]) /\ task[t].at = "dropAll"
      /\ sent \in Nat /\ ring \in Seq(Nat) /\ next \in Nat /\ Len(ring) <= RingSize
      /\ Len(ring) \in Nat /\ RingSize \in Nat /\ Writing \in Seq(Nat)
  BY InHands DEF Inv, Typed, Calls, DropAll, At, CallType
<1>2. n \in 0 .. Len(ring)
  BY <1>1, HowMany DEF Inv
<1>3. /\ ring' = SubSeq(ring, n + 1, Len(ring)) /\ start' = (start + n) % RingSize
      /\ task' = [task EXCEPT ![t] = c]
      /\ UNCHANGED <<sent, tx_lock, connected, next>>
  <2> HIDE DEF n
  <2> QED BY DEF DropAll, Receive, Goto, n
<1> HIDE DEF n
<1>4. ring' \in Seq(Nat) /\ Len(ring') <= RingSize /\ start' \in 0 .. RingSize - 1
  BY <1>2, <1>3, RingAfter
<1>5. Line(sent, ring', Writing, next)
  BY <1>1, <1>2, <1>3, LineDrops DEF Inv
<1>6. task[t].kind = "flush" /\ Locks(task[t])
  BY <1>1 DEF Shape, CallType, Kinds, Locks
<1>7. /\ c \in CallType /\ c.kind = "flush" /\ c.at = "give" /\ c.todo = task[t].todo
      /\ c.n = task[t].n
  BY <1>1, <1>6 DEF CallType, Steps
<1> HIDE DEF c
<1>8. task' \in [Tasks -> CallType] /\ task'[t] = c /\ \A u \in Tasks \ {t} : task'[u] = task[u]
  BY <1>3, <1>7 DEF Inv, Typed
<1>9. Shape(c) /\ Locks(c)
  BY <1>1, <1>6, <1>7 DEF Shape, Locks
<1>10. tx_lock = t /\ Writing = task[t].todo
  BY <1>6, LockHolder
<1>11. Writing' = Writing
  BY <1>3, <1>7, <1>8, <1>10, HwcdcAssumption DEF Writing
<1>12. Line(sent', ring', Writing', next')
  BY <1>3, <1>5, <1>11
<1> QED BY <1>1, <1>3, <1>4, <1>7, <1>8, <1>9, <1>10, <1>12, CallStep DEF Inv, Typed

LEMMA PutCharKeepsInv ==
  ASSUME Inv, History, NEW t \in Tasks, PutChar(t)
  PROVE  Inv'
<1>1. /\ task[t] \in CallType /\ Shape(task[t]) /\ task[t].at = "charPut"
      /\ sent \in Nat /\ ring \in Seq(Nat) /\ next \in Nat /\ Len(ring) <= RingSize
      /\ Len(ring) \in Nat /\ RingSize \in Nat /\ Writing \in Seq(Nat)
  BY InHands DEF Inv, Typed, Calls, PutChar, At, CallType
<1>2. task[t].kind = "char" /\ task[t].todo = <<0>>
  BY <1>1 DEF Shape, CallType, Kinds
<1>3. /\ (ring' = ring \o <<0>> /\ Len(ring) < RingSize) \/ ring' = ring
      /\ task' = [task EXCEPT ![t] = NoCall]
      /\ UNCHANGED <<start, sent, tx_lock, connected, next>>
  BY <1>1, <1>2 DEF PutChar, Send, Proceed, Free
<1>4. ring \o <<0>> = Append(ring, 0)
  BY <1>1, AppendIsConcat
<1>5. ring' \in Seq(Nat) /\ Len(ring') <= RingSize
  <2>1. CASE ring' = ring
    BY <1>1, <2>1
  <2>2. CASE ring' = ring \o <<0>> /\ Len(ring) < RingSize
    <3>1. Len(ring') = Len(ring) + 1 /\ ring' \in Seq(Nat)
      BY <1>1, <1>4, <2>2, AppendProperties
    <3> QED BY <1>1, <2>2, <3>1
  <2> QED BY <1>3, <2>1, <2>2
<1>6. task' \in [Tasks -> CallType] /\ task'[t] = NoCall
      /\ \A u \in Tasks \ {t} : task'[u] = task[u]
  BY <1>3, NoCallIsACall DEF Inv, Typed
<1>7. ~Locks(task[t])
  BY <1>2 DEF Locks
<1>8. tx_lock # t /\ Writing' = Writing
  BY <1>3, <1>6, <1>7, NoLock, OtherHolder
<1>9. Line(sent, ring \o <<0>>, Writing, next)
  BY <1>1, LineTakesChar DEF Inv
<1>10. Line(sent', ring', Writing', next')
  BY <1>3, <1>8, <1>9 DEF Inv
<1> QED BY <1>1, <1>3, <1>5, <1>6, <1>8, <1>10, NoCallIsACall, CallStep DEF Inv, Typed

(* The calls stay as they are.                                              *)
LEMMA WorldStep ==
  ASSUME Inv, History, UNCHANGED <<task, tx_lock, next>>,
         ring' \in Seq(Nat), Len(ring') <= RingSize, start' \in 0 .. RingSize - 1,
         sent' \in Nat, connected' \in BOOLEAN, Line(sent', ring', Writing, next)
  PROVE  Inv'
<1>1. broke' \in [Tasks -> BOOLEAN] /\ \A u \in Tasks : broke'[u] = BrokenCall(u)
  <2>1. \A u \in Tasks : BrokenCall(u) \in BOOLEAN
    BY DEF BrokenCall
  <2> QED BY <2>1 DEF History
<1>2. Typed'
  BY <1>1 DEF Inv, Typed
<1>3. Calls'
  BY <1>1 DEF BrokenCall, Counted, Inv, Calls
<1>4. Writing' = Writing
  BY DEF Writing
<1> QED BY <1>2, <1>3, <1>4 DEF Inv

LEMMA QuietWorldStep ==
  ASSUME Inv, History, UNCHANGED <<task, tx_lock, next, ring, start, sent>>, connected' \in BOOLEAN
  PROVE  Inv'
BY WorldStep DEF Inv, Typed

LEMMA IsrKeepsInv ==
  ASSUME Inv, History, Isr
  PROVE  Inv'
<1>1. CASE IsrInEmpty /\ IsrMoves
  <2> DEFINE n == Received(FifoSize)
             moved == {ring[i] : i \in 1 .. n}
  <2>1. n \in 0 .. Len(ring)
    BY HowMany, HwcdcAssumption DEF Inv
  <2>2. /\ ring' = SubSeq(ring, n + 1, Len(ring)) /\ start' = (start + n) % RingSize
        /\ sent' = Max({sent} \cup moved) /\ connected' = TRUE
        /\ UNCHANGED <<task, tx_lock, next>>
    BY <1>1 DEF IsrInEmpty, IsrMoves, Receive
  <2> HIDE DEF n
  <2>3. n \in Nat /\ \A i \in 1 .. n : i \in 1 .. Len(ring)
    BY <2>1, InHands
  <2>4. \A i \in 1 .. n : ring[i] \in Nat /\ ring[i] <= next
    <3>1. \A i \in 1 .. Len(ring) : ring[i] \in Nat /\ ring[i] < next
      BY InHands DEF Inv, Line
    <3> QED BY <2>3, <3>1, InHands
  <2>5. sent <= next
    BY InHands DEF Inv, Line
  <2>6. sent' \in {sent} \cup moved /\ \A y \in {sent} \cup moved : sent' >= y
    <3>1. \A y \in {sent} \cup moved : y \in Nat /\ y <= next
      BY <2>4, <2>5, InHands
    <3> DEFINE S == {sent} \cup moved
    <3>2. S \subseteq Nat /\ S # {} /\ \A y \in S : y <= next
      BY <3>1
    <3> HIDE DEF S
    <3>3. Max(S) \in S /\ \A y \in S : Max(S) >= y
      BY <3>2, InHands, MaxIsIn
    <3> QED BY <2>2, <3>3 DEF S
  <2>7. sent' \in Nat
    BY <2>4, <2>6, InHands
  <2>8. sent' = sent \/ \E i \in 1 .. n : sent' = ring[i]
    BY <2>6
  <2>9. \A i \in 1 .. n : sent' >= ring[i]
    BY <2>6
  <2> HIDE DEF moved
  <2>10. Line(sent', ring', Writing, next)
    <3> DEFINE s == sent'
    <3>1. s \in Nat /\ (s = sent \/ \E i \in 1 .. n : s = ring[i]) /\ \A i \in 1 .. n : s >= ring[i]
      BY <2>7, <2>8, <2>9
    <3> HIDE DEF s
    <3>2. Line(s, SubSeq(ring, n + 1, Len(ring)), Writing, next)
      BY <2>1, <3>1, InHands, LineMoves DEF Inv
    <3> QED BY <2>2, <3>2 DEF s
  <2>11. ring' \in Seq(Nat) /\ Len(ring') <= RingSize /\ start' \in 0 .. RingSize - 1
    BY <2>1, <2>2, RingAfter
  <2>12. connected' \in BOOLEAN
    BY <2>2
  <2> QED BY <2>2, <2>7, <2>10, <2>11, <2>12, WorldStep
<1>2. CASE IsrInEmpty /\ (IsrUnplugged \/ IsrFindsNothing \/ IsrFifoBusy)
  <2>1. UNCHANGED <<task, tx_lock, next, ring, start, sent>> /\ connected' \in BOOLEAN
    BY <1>2 DEF IsrInEmpty, IsrUnplugged, IsrFindsNothing, IsrFifoBusy
  <2> QED BY <2>1, QuietWorldStep
<1>3. CASE IsrReceived \/ IsrBusReset
  <2>1. UNCHANGED <<task, tx_lock, next, ring, start, sent>> /\ connected' \in BOOLEAN
    BY <1>3 DEF IsrReceived, IsrBusReset, buffer
  <2> QED BY <2>1, QuietWorldStep
<1> QED BY <1>1, <1>2, <1>3 DEF Isr, IsrInEmpty

LEMMA HostKeepsInv ==
  ASSUME Inv, History, Host \/ Begin
  PROVE  Inv'
<1>1. UNCHANGED <<task, tx_lock, next, ring, start, sent>>
  BY DEF Host, HostPicksUp, HostOpens, HostCloses, Unplug, PlugIn, Begin, buffer
<1>2. connected' \in BOOLEAN
  <2>1. connected \in BOOLEAN
    BY DEF Inv, Typed
  <2> QED BY <2>1 DEF Host, HostPicksUp, HostOpens, HostCloses, Unplug, PlugIn, Begin
<1> QED BY <1>1, <1>2, QuietWorldStep

LEMMA EndKeepsInv ==
  ASSUME Inv, History, End
  PROVE  Inv'
<1>1. Writing = <<>>
  <2>1. \A t \in Tasks : ~Locks(task[t])
    BY DEF End, NobodyCalls, At, Inv, Calls, Shape, Locks
  <2>2. tx_lock = NoTask
    BY <2>1 DEF Inv, Typed, Calls
  <2> QED BY <2>2 DEF Writing
<1>2. Line(sent, <<>>, <<>>, next)
  BY InHands, LineWithout DEF Inv
<1>3. /\ ring' = <<>> /\ start' = 0 /\ sent' = sent /\ connected' = FALSE
      /\ UNCHANGED <<task, tx_lock, next>>
  BY DEF End
<1>4. ring' \in Seq(Nat) /\ Len(ring') <= RingSize /\ start' \in 0 .. RingSize - 1
  BY <1>3, InHands
<1>5. Line(sent', ring', Writing, next)
  BY <1>1, <1>2, <1>3
<1> QED BY <1>3, <1>4, <1>5, InHands, WorldStep

-----------------------------------------------------------------------------

LEMMA InitInv == Init => Inv
<1> SUFFICES ASSUME Init PROVE Inv
  OBVIOUS
<1>1. Typed
  <2>1. <<>> \in Seq(Nat) /\ Len(<<>>) = 0 /\ RingSize \in Nat \ {0}
    BY HwcdcAssumption
  <2>2. task \in [Tasks -> CallType] /\ broke \in [Tasks -> BOOLEAN]
    BY NoCallIsACall DEF Init
  <2>3. ring = <<>> /\ start = 0 /\ tx_lock = NoTask /\ connected = FALSE /\ sent = 0 /\ next = 1
    BY DEF Init
  <2>4. ring \in Seq(Nat) /\ Len(ring) <= RingSize
    BY <2>1, <2>3
  <2>5. start \in 0 .. RingSize - 1
    BY <2>1, <2>3
  <2>6. connected \in BOOLEAN /\ tx_lock \in Tasks \cup {NoTask} /\ sent \in Nat /\ next \in Nat
    BY <2>3
  <2> QED BY <2>2, <2>4, <2>5, <2>6 DEF Typed
<1>2. Calls
  BY NoCallIsACall, HwcdcAssumption DEF Init, Calls, Counted
<1>3. Line(sent, ring, Writing, next)
  BY DEF Init, Line, Rising, Writing
<1> QED BY <1>1, <1>2, <1>3 DEF Inv

LEMMA NextKeepsInv == Inv /\ [Next]_vars => Inv'
<1> SUFFICES ASSUME Inv, [Next]_vars PROVE Inv'
  OBVIOUS
<1>1. ASSUME NEW t \in Tasks, Starts(t), History PROVE Inv'
  <2>1. {"flush", "bool", "char", "room"} \subseteq Kinds \ {"write"}
        /\ {"take", "test"} \subseteq Steps
    BY DEF Kinds, Steps
  <2>2. CASE \E n \in 1 .. MaxWrite : CallWrite(t, n)
    BY <1>1, <2>2, CallWriteKeepsInv
  <2>3. CASE Call(t, "flush", "take")
    BY <1>1, <2>1, <2>3, CallKeepsInv
  <2>4. CASE Call(t, "bool", "test")
    BY <1>1, <2>1, <2>4, CallKeepsInv
  <2>5. CASE Call(t, "char", "test")
    BY <1>1, <2>1, <2>5, CallKeepsInv
  <2>6. CASE Call(t, "room", "take")
    BY <1>1, <2>1, <2>6, CallKeepsInv
  <2> QED BY <1>1, <2>2, <2>3, <2>4, <2>5, <2>6 DEF Starts
<1>2. ASSUME NEW t \in Tasks, Continues(t), History PROVE Inv'
  <2>1. CASE TakeLock(t) \/ TakeTimesOut(t) \/ Give(t)
    BY <1>2, <2>1, TakeKeepsInv, TimeoutKeepsInv, GiveKeepsInv
  <2>2. CASE TestConnected(t) \/ Poke(t)
    BY <1>2, <2>2, TestKeepsInv, PokeKeepsInv
  <2>3. CASE LookForRoom(t) \/ Put(t) \/ PutFails(t) \/ Trigger(t)
    BY <1>2, <2>3, LookForRoomKeepsInv, PutKeepsInv, PutFailsKeepsInv, TriggerKeepsInv
  <2>4. CASE CountProgress(t) \/ LeaveLoop(t)
    BY <1>2, <2>4, CountKeepsInv, LeaveLoopKeepsInv
  <2>5. CASE DropOldest(t) \/ SendNewest(t) \/ DropAll(t) \/ PutChar(t)
    BY <1>2, <2>5, DropOldestKeepsInv, SendNewestKeepsInv, DropAllKeepsInv, PutCharKeepsInv
  <2>6. CASE LookForData(t) \/ WaitForHost(t) \/ StopWaiting(t)
    BY <1>2, <2>6, FlushKeepsInv
  <2> QED BY <1>2, <2>1, <2>2, <2>3, <2>4, <2>5, <2>6 DEF Continues
<1>3. CASE UNCHANGED vars
  <2>1. Writing' = Writing
    BY <1>3 DEF vars, Writing
  <2> QED BY <1>3, <2>1 DEF vars, Inv, Typed, Calls
<1>4. CASE Next
  BY <1>1, <1>2, <1>4, IsrKeepsInv, HostKeepsInv, EndKeepsInv DEF Next
<1> QED BY <1>3, <1>4

LEMMA SpecKeepsInv == Spec => []Inv
BY InitInv, NextKeepsInv, PTL DEF Spec

LEMMA LineIsInOrder ==
  ASSUME NEW s \in Nat, NEW r \in Seq(Nat), NEW q \in Seq(Nat), NEW x \in Nat, Line(s, r, q, x)
  PROVE  Rising((<<s>> \o r) \o q)
<1> DEFINE a == <<s>> \o r
           z == a \o q
<1>1. Len(r) \in Nat /\ Len(q) \in Nat /\ <<s>> \in Seq(Nat) /\ Len(<<s>>) = 1 /\ <<s>>[1] = s
  OBVIOUS
<1>2. a \in Seq(Nat) /\ Len(a) = 1 + Len(r)
  BY <1>1, ConcatProperties
<1>3. \A k \in 1 .. Len(a) : a[k] = IF k <= 1 THEN <<s>>[k] ELSE r[k - 1]
  BY <1>1, <1>2, ConcatProperties
<1> HIDE DEF a
<1>4. z \in Seq(Nat) /\ Len(z) = 1 + Len(r) + Len(q)
  <2>1. a \o q \in Seq(Nat) /\ Len(a \o q) = Len(a) + Len(q)
    BY <1>2, ConcatProperties
  <2> QED BY <1>1, <1>2, <2>1
<1>5. \A k \in 1 .. Len(z) : z[k] = IF k <= Len(a) THEN a[k] ELSE q[k - Len(a)]
  BY <1>1, <1>2, <1>4, ConcatProperties
<1> HIDE DEF z
<1>6. ASSUME NEW k \in 1 .. Len(z), k <= Len(a), k # 1
      PROVE  k - 1 \in 1 .. Len(r) /\ z[k] = r[k - 1]
  <2>1. k \in 1 .. Len(a) /\ ~(k <= 1) /\ k - 1 \in 1 .. Len(r)
    BY <1>1, <1>2, <1>4, <1>6
  <2>2. z[k] = a[k]
    BY <1>5, <1>6
  <2>3. a[k] = r[k - 1]
    BY <1>3, <2>1
  <2> QED BY <2>1, <2>2, <2>3
<1>7. ASSUME NEW k \in 1 .. Len(z), ~(k <= Len(a))
      PROVE  k - Len(a) \in 1 .. Len(q) /\ z[k] = q[k - Len(a)]
  BY <1>1, <1>2, <1>4, <1>5, <1>7
<1>8. z[1] = s
  BY <1>1, <1>2, <1>3, <1>4, <1>5
<1> SUFFICES ASSUME NEW j \in 1 .. Len(z), z[j] > 0, NEW i \in 1 .. j - 1
             PROVE  z[i] < z[j]
  BY DEF Rising, z, a
<1>9. i \in 1 .. Len(z) /\ i < j /\ j # 1 /\ i \in Nat /\ j \in Nat /\ Len(a) \in Nat
  BY <1>1, <1>2, <1>4
<1>10. CASE j <= Len(a)
  <2>1. j - 1 \in 1 .. Len(r) /\ z[j] = r[j - 1]
    BY <1>6, <1>9, <1>10
  <2>2. CASE i = 1
    BY <1>8, <2>1, <2>2 DEF Line
  <2>3. CASE i # 1
    <3>0. i <= Len(a)
      BY <1>9, <1>10
    <3>1. i - 1 \in 1 .. Len(r) /\ z[i] = r[i - 1]
      BY <1>6, <1>9, <2>3, <3>0
    <3>2. i - 1 \in 1 .. (j - 1) - 1
      BY <1>9, <2>3
    <3> QED BY <2>1, <3>1, <3>2 DEF Line, Rising
  <2> QED BY <2>2, <2>3
<1>11. CASE ~(j <= Len(a))
  <2>1. j - Len(a) \in 1 .. Len(q) /\ z[j] = q[j - Len(a)]
    BY <1>7, <1>11
  <2>2. CASE i = 1
    BY <1>8, <2>1, <2>2 DEF Line
  <2>3. CASE i # 1 /\ i <= Len(a)
    <3>1. i - 1 \in 1 .. Len(r) /\ z[i] = r[i - 1]
      BY <1>6, <1>9, <2>3
    <3> QED BY <2>1, <3>1 DEF Line
  <2>4. CASE ~(i <= Len(a))
    <3>1. i - Len(a) \in 1 .. Len(q) /\ z[i] = q[i - Len(a)]
      BY <1>7, <1>9, <2>4
    <3>2. i - Len(a) \in 1 .. (j - Len(a)) - 1
      BY <1>9, <3>1
    <3> QED BY <2>1, <3>1, <3>2 DEF Line, Rising
  <2>5. i = 1 \/ (i # 1 /\ i <= Len(a)) \/ ~(i <= Len(a))
    OBVIOUS
  <2> QED BY <2>2, <2>3, <2>4, <2>5
<1> QED BY <1>10, <1>11

(* The host gets the bytes of write() in the order in which they were       *)
(* written and none of them twice: whatever flushTXBuffer() drops, whenever *)
(* the connection breaks, and with debug output pushed in without the lock. *)
THEOREM BytesInOrder == Spec => []InOrder
<1>1. Inv => InOrder
  <2> SUFFICES ASSUME Inv PROVE InOrder
    OBVIOUS
  <2>1. Rising((<<sent>> \o ring) \o Writing)
    BY InHands, LineIsInOrder DEF Inv
  <2>2. InTransit = (<<sent>> \o ring) \o Writing
    BY DEF InTransit
  <2> HIDE DEF InTransit
  <2>3. Rising(InTransit)
    BY <2>1, <2>2
  <2> QED BY <2>3 DEF Rising, InOrder
<1> QED BY <1>1, SpecKeepsInv, PTL

(* On a connection that stays up during the call write() returns how many   *)
(* of its bytes went into the ring buffer, also when a send timed out.      *)
THEOREM WriteTellsWhatWasSent == Spec => []ReturnIsWhatWasSent
<1>1. Inv => ReturnIsWhatWasSent
  BY DEF Inv, Calls, Counted, ReturnIsWhatWasSent, At, SoFar
<1> QED BY <1>1, SpecKeepsInv, PTL

====
