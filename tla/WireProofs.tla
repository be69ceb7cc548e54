----------------------------- MODULE WireProofs -----------------------------
(***************************************************************************)
(* What holds of the I2C ports and the Wire objects on them for any number  *)
(* of tasks, ports, pins and devices, every buffer size and all the pins    *)
(* that sketches choose: no transfer without driver or buffers, no          *)
(* transaction with another task's bytes, no Wire object kept by a task     *)
(* that is done with it; and, where no two tasks change one pin at a time,  *)
(* no started port without its pins and no ended one with any.              *)
(*                                                                          *)
(* A task is as far as its agenda says, so the invariant Inv is about       *)
(* agendas: the order of their operations (Shape), the locks their holder   *)
(* has (HalHeld, WireHeld), what a task has before it that waits for a      *)
(* Wire object (Waits). On that rest the driver (Drivers), the buffers      *)
(* (Buffers), and the transactions (Sayings, Restarts).                     *)
(*                                                                          *)
(* The hard part is what happens inside perimanSetPinBus(): the callback    *)
(* of a pin's owner puts a whole i2cDeinit(), with lock and unlock, in      *)
(* front of whatever the task is doing, a begin() with its own lock held    *)
(* included. OpenOnce says that an agenda has at most one operation inside  *)
(* a given port's lock; HalHeld that its task holds the lock; so a driver   *)
(* is deleted by the one task inside the port, and none is on the bus. A    *)
(* second task may still be on its way to stop or to begin that port:       *)
(* Drivers and Buffers say what it then finds.                              *)
(*                                                                          *)
(* The steps of the driver's functions are alike for most of Inv. They are  *)
(* proved through Fits, which says when the operation at hand may be        *)
(* replaced by others; the calls on the Wire objects start from agendas     *)
(* that are Fresh.                                                          *)
(*                                                                          *)
(* The second half is about pins. OwnInv adds Keeping to Inv for as long as *)
(* no race has happened: what an operation may rely on because of what came *)
(* before it on its agenda, and which task will put right a pin that names  *)
(* a port it does not belong to.                                            *)
(***************************************************************************)
EXTENDS Wire, SequenceTheorems, TLAPS

-----------------------------------------------------------------------------
(* The operations of an agenda, by what they belong to: the pins,           *)
(* i2cInit() once it has begun, the inside of a port's lock, and the        *)
(* inside of a Wire object's lock. Those in LastOps end an agenda; those    *)
(* in Locked follow the taking of a port's lock.                            *)
PinOps   == {"setBus", "assign", "gpio"}
InitOps  == {"init", "clearScl", "install", "setScl", "registered", "fail"}
HalOps   == {"init", "clearScl", "install", "setScl", "registered", "deinit",
             "uninitialize", "forget", "transfer", "onTheBus", "unlockHal"}
Quitting == {"begin", "begun", "end", "free", "unlockWire"}
WireOps  == Quitting \cup {"beginTransmission", "requestFrom", "finish"}
LastOps  == {"begin", "begun", "unlockWire", "beginTransmission", "requestFrom", "finish"}
Locked   == {"init", "deinit", "transfer", "unlockHal"}
OpNames  == PinOps \cup InitOps \cup HalOps \cup WireOps
              \cup {"lockHal", "lockWire", "detach"}

Operation ==
  {o \in [op : OpNames, b : Buses \cup {NULL}, role : BusTypes, pin : Pins \cup {NoPin}] :
     o.op \notin PinOps => o.b \in Ports}

Call == [want : [sda : Pins \cup {NoPin}, scl : Pins \cup {NoPin}],
         device : Devices \cup {NULL}, result : BOOLEAN]

Saying == [b : Ports \cup {NULL}, addr : Devices \cup {NULL}, bytes : Seq(Tasks),
           restart : BOOLEAN]

(* The types that the run checks, and those of the agendas and of the       *)
(* tasks' own variables.                                                    *)
Types ==
  /\ TypeOK
  /\ agenda \in [Tasks -> Seq(Operation)]
  /\ local \in [Tasks -> Call]
  /\ said \in [Tasks -> Saying]

(* What may come next on an agenda after operation o.                       *)
Nothing == For("nothing", NULL)
After(q, i) == IF i < Len(q) THEN q[i + 1] ELSE Nothing

Follows(o, n) ==
  /\ n.op # "lockWire"
  /\ o.op \in LastOps => n = Nothing
  /\ o.op = "end" => n = For("free", o.b)
  /\ o.op = "free" => n = For("unlockWire", o.b)
  /\ o.op \in InitOps => n = For("begun", o.b)
  /\ o.op = "lockHal" => n.op \in Locked /\ n.b = o.b

InOrder(q) == \A i \in 1 .. Len(q) : Follows(q[i], After(q, i))

(* All the operations on a Wire object are on the same one.                 *)
OnePort(q) == \A i, j \in 1 .. Len(q) :
  q[i].op \in WireOps \cup {"lockWire"} /\ q[j].op \in WireOps \cup {"lockWire"} =>
    q[i].b = q[j].b

(* An operation that is done inside a port's lock, once that is taken.      *)
Open(q, i) == q[i].op \in HalOps /\ (i > 1 => q[i - 1].op # "lockHal")
OpenOnce(q) == \A i, j \in 1 .. Len(q) :
  Open(q, i) /\ Open(q, j) /\ q[i].b = q[j].b => i = j

Shape == \A t \in Tasks :
  InOrder(agenda[t]) /\ OnePort(agenda[t]) /\ OpenOnce(agenda[t])

(* Agenda q, or the agenda of task t, has one of these operations on b.     *)
HasIn(q, what, b) == \E i \in 1 .. Len(q) : q[i].op \in what /\ q[i].b = b
Has(t, what, b) == HasIn(agenda[t], what, b)

(* A task has the locks of the ports and of the Wire objects that it is     *)
(* inside of.                                                               *)
HalHeld == \A t \in Tasks : \A i \in 1 .. Len(agenda[t]) :
  Open(agenda[t], i) => lock[Hal(agenda[t][i].b)] = t

WireHeld == \A t \in Tasks : \A b \in Ports :
  Has(t, WireOps, b) /\ ~Does(t, "lockWire") => lock[Wire(b)] = t

(* A task that waits for a Wire object has all of its call before it.       *)
Waits == \A t \in Tasks : Does(t, "lockWire") =>
  /\ Has(t, WireOps, Now(t).b)
  /\ \A b \in Ports :
       /\ ~Has(t, {"begun"}, b) /\ ~Has(t, {"finish"}, b)
       /\ Has(t, {"free"}, b) => Has(t, {"end"}, b)

(* The driver is there while the bus is used; a started port without its    *)
(* driver is being stopped by a task that has its lock.                     *)
Drivers ==
  /\ \A t \in Tasks, b \in Ports : Has(t, {"onTheBus"}, b) => b \in initialized \cap installed
  /\ \A b \in initialized \ installed : \E t \in Tasks : Has(t, {"uninitialize"}, b)

(* A started port has its buffers, also while a begin() or an end() is on   *)
(* its way that may free them: its port is started only before it has been  *)
(* stopped (Stops, or what leads to it), or when the begin() is going to    *)
(* succeed (Started), or when the IDF did not delete its driver.            *)
Stops == {"detach", "deinit", "uninitialize"}
Started(t) == local[t].result /\ \A i \in 1 .. Len(agenda[t]) :
  agenda[t][i].op \in {"unlockHal", "begun"}
Undoing(t, b) == Has(t, Stops, b) /\ Has(t, {"fail"}, b)
Buffers ==
  /\ \A b \in initialized : wire[b].buffers \/ b \in halfStarted \/ b \in halfEnded
  /\ \A t \in Tasks, b \in Ports : Has(t, {"begun"}, b) =>
       /\ wire[b].buffers
       /\ b \in initialized =>
            Started(t) \/ Has(t, {"setScl", "registered"}, b) \/ Undoing(t, b) \/ b \in halfStarted
  /\ \A t \in Tasks, b \in initialized :
       Has(t, {"free"}, b) => Has(t, Stops \cup {"end"}, b) \/ b \in halfEnded

(* What a task has said since beginTransmission() is what its Wire object   *)
(* keeps (Telling). A task inside begin(), end() or an unlock has said      *)
(* nothing (Outsiders), a task has to do with one Wire object at a time     *)
(* (OneObject), and who holds an object is in a transaction on it, in a     *)
(* call, or was left with an object without buffers (Owners).               *)
Telling == \A t \in Tasks :
  /\ said[t].b = NULL => said[t] = NoSaying
  /\ \A b \in Ports : said[t].b = b =>
       /\ lock[Wire(b)] = t
       /\ wire[b].txAddress = said[t].addr /\ wire[b].tx = said[t].bytes
       /\ said[t].restart => wire[b].buffers

Outsiders == \A t \in Tasks, b \in Ports : Has(t, Quitting, b) =>
  said[t] = NoSaying /\ wire[b].currentTaskHandle # t

OneObject == \A t \in Tasks, b \in Ports, c \in Ports :
  (Has(t, WireOps \cup {"lockWire"}, b) \/ lock[Wire(b)] = t) /\ lock[Wire(c)] = t => b = c

Owners == \A t \in Tasks, b \in Ports :
  /\ wire[b].currentTaskHandle = t => lock[Wire(b)] = t
  /\ lock[Wire(b)] = t =>
       said[t].b = b \/ ~wire[b].buffers \/ (Has(t, WireOps, b) /\ ~Does(t, "lockWire"))

Sayings == Telling /\ Outsiders /\ OneObject /\ Owners

(* Between the calls, nonStop is set exactly for a repeated start that is   *)
(* asked for or was given up.                                               *)
Restarts == \A b \in Ports :
  \/ \E t \in Tasks : Has(t, {"finish"}, b)
  \/ wire[b].nonStop <=>
       (wire[b].abandoned \/ \E t \in Tasks : said[t].b = b /\ said[t].restart)

Inv ==
  /\ Types /\ Shape /\ HalHeld /\ WireHeld /\ Waits
  /\ Drivers /\ Buffers /\ Sayings /\ Restarts

Recorded(t) ==
  /\ halfStarted' = {b \in initialized' : b \in halfStarted \/ (NotDeleted(t, b) /\ Undoes(t, b))}
  /\ halfEnded' = {b \in initialized' : b \in halfEnded \/ (NotDeleted(t, b) /\ Frees(t, b))}

(* What a step notes of races and of the ports that stay half done.         *)
Noted ==
  /\ raced' \in BOOLEAN
  /\ halfStarted' \subseteq initialized' /\ halfEnded' \subseteq initialized'
  /\ \A b \in initialized' : /\ b \in halfStarted => b \in halfStarted'
                             /\ b \in halfEnded => b \in halfEnded'

-----------------------------------------------------------------------------
(* Agenda r is agenda q with its first operation replaced by ops: where     *)
(* each operation of r comes from, and where each of q goes.                *)
Replaced(q, ops, r) ==
  /\ Len(q) \in Nat \ {0} /\ Len(ops) \in Nat /\ Len(r) = Len(ops) + Len(q) - 1
  /\ \A i \in 1 .. Len(ops) : r[i] = ops[i]
  /\ \A i \in Len(ops) + 1 .. Len(r) : r[i] = q[i - Len(ops) + 1]

LEMMA WhereFrom ==
  ASSUME NEW q, NEW ops, NEW r, Replaced(q, ops, r), NEW i \in 1 .. Len(r)
  PROVE  \/ i \in 1 .. Len(ops) /\ r[i] = ops[i]
         \/ /\ i > Len(ops) /\ i - Len(ops) + 1 \in 2 .. Len(q)
            /\ r[i] = q[i - Len(ops) + 1]
BY DEF Replaced

LEMMA WhereTo ==
  ASSUME NEW q, NEW ops, NEW r, Replaced(q, ops, r), NEW i \in 2 .. Len(q)
  PROVE  i + Len(ops) - 1 \in 1 .. Len(r) /\ r[i + Len(ops) - 1] = q[i]
<1> DEFINE k == i + Len(ops) - 1
<1>1. /\ Len(q) \in Nat \ {0} /\ Len(ops) \in Nat /\ Len(r) = Len(ops) + Len(q) - 1
      /\ \A j \in Len(ops) + 1 .. Len(r) : r[j] = q[j - Len(ops) + 1]
  BY DEF Replaced
<1>2. i \in Nat /\ 2 <= i /\ i <= Len(q)
  BY <1>1
<1>3. k \in Len(ops) + 1 .. Len(r) /\ k - Len(ops) + 1 = i /\ k \in 1 .. Len(r)
  BY <1>1, <1>2
<1> HIDE DEF k
<1>4. r[k] = q[k - Len(ops) + 1]
  BY <1>1, <1>3
<1>5. k \in 1 .. Len(r) /\ r[k] = q[i]
  BY <1>3, <1>4
<1> QED BY <1>5 DEF k

LEMMA BecomesReplaces ==
  ASSUME Types, NEW t \in Tasks, ~Idle(t), NEW ops \in Seq(Operation), Becomes(t, ops)
  PROVE  /\ Replaced(agenda[t], ops, agenda'[t])
         /\ agenda' \in [Tasks -> Seq(Operation)]
         /\ \A u \in Tasks \ {t} : agenda'[u] = agenda[u]
<1> DEFINE q == agenda[t]
           r == ops \o Tail(q)
<1>1. agenda \in [Tasks -> Seq(Operation)] /\ q \in Seq(Operation) /\ q # <<>>
  BY DEF Types, Idle
<1>2. agenda' = [agenda EXCEPT ![t] = r]
  BY DEF Becomes
<1> HIDE DEF q
<1>3. /\ Tail(q) \in Seq(Operation) /\ Len(Tail(q)) = Len(q) - 1 /\ Len(q) \in Nat \ {0}
      /\ \A i \in 1 .. Len(q) - 1 : Tail(q)[i] = q[i + 1]
  BY <1>1
<1>4. /\ r \in Seq(Operation) /\ Len(r) = Len(ops) + Len(Tail(q))
      /\ \A i \in 1 .. Len(ops) + Len(Tail(q)) :
           r[i] = IF i <= Len(ops) THEN ops[i] ELSE Tail(q)[i - Len(ops)]
  BY <1>3, ConcatProperties
<1> HIDE DEF r
<1>5. agenda' \in [Tasks -> Seq(Operation)] /\ agenda'[t] = r
      /\ \A u \in Tasks \ {t} : agenda'[u] = agenda[u]
  BY <1>1, <1>2, <1>4
<1>6. Len(ops) \in Nat
  OBVIOUS
<1>7. \A i \in 1 .. Len(ops) : r[i] = ops[i]
  BY <1>3, <1>4, <1>6
<1>8. \A i \in Len(ops) + 1 .. Len(r) : r[i] = q[i - Len(ops) + 1]
  <2> SUFFICES ASSUME NEW i \in Len(ops) + 1 .. Len(r) PROVE r[i] = q[i - Len(ops) + 1]
    OBVIOUS
  <2>1. i \in 1 .. Len(ops) + Len(Tail(q)) /\ i > Len(ops) /\ i - Len(ops) \in 1 .. Len(q) - 1
    BY <1>3, <1>4, <1>6
  <2>2. r[i] = Tail(q)[i - Len(ops)]
    BY <1>4, <1>6, <2>1
  <2> QED BY <1>3, <2>1, <2>2
<1> QED BY <1>1, <1>3, <1>4, <1>5, <1>6, <1>7, <1>8 DEF Replaced, q

(* A replacement that fits where the old operation was.                     *)
Fits(q, ops) ==
  /\ q[1].op # "lockHal" /\ q[1].op # "lockWire"
  /\ \A i \in 1 .. Len(ops) :
       /\ Follows(ops[i], IF i < Len(ops) THEN ops[i + 1] ELSE After(q, 1))
       /\ ops[i].op # "lockWire"
       /\ ops[i].op \in WireOps => q[1].op \in WireOps /\ ops[i].b = q[1].b
       /\ Open(ops, i) => q[1].op \in HalOps /\ ops[i].b = q[1].b
  /\ \A i, j \in 1 .. Len(ops) : Open(ops, i) /\ Open(ops, j) => i = j
  /\ Len(ops) > 0 => ops[Len(ops)].op # "lockHal"

LEMMA FittingKeepsOrder ==
  ASSUME NEW q, NEW ops, NEW r, Replaced(q, ops, r), Fits(q, ops), InOrder(q)
  PROVE  InOrder(r)
<1> DEFINE k == Len(ops)
<1>1. /\ Len(q) \in Nat \ {0} /\ k \in Nat /\ Len(r) = k + Len(q) - 1
      /\ \A i \in 1 .. k : r[i] = ops[i]
      /\ \A i \in k + 1 .. Len(r) : r[i] = q[i - k + 1]
  BY DEF Replaced
<1>2. /\ \A i \in 1 .. k : Follows(ops[i], IF i < k THEN ops[i + 1] ELSE After(q, 1))
      /\ \A i \in 1 .. Len(q) : Follows(q[i], After(q, i))
  BY DEF Fits, InOrder
<1> SUFFICES ASSUME NEW i \in 1 .. Len(r) PROVE Follows(r[i], After(r, i))
  BY DEF InOrder
<1>0. Len(q) \in Nat \ {0} /\ k \in Nat /\ Len(r) = k + Len(q) - 1 /\ i \in 1 .. Len(r)
  BY <1>1
<1> HIDE DEF k
<1>3. CASE i < k
  <2>1. After(r, i) = ops[i + 1] /\ r[i] = ops[i]
    BY <1>1, <1>3 DEF After
  <2> QED BY <1>1, <1>2, <1>3, <2>1
<1>4. CASE i = k
  <2>1. After(r, i) = After(q, 1) /\ r[i] = ops[i]
    <3>1. CASE Len(q) = 1
      BY <1>1, <1>4, <3>1 DEF After
    <3>2. CASE Len(q) > 1
      BY <1>1, <1>4, <3>2 DEF After
    <3>3. \A m \in Nat \ {0} : m = 1 \/ m > 1
      OBVIOUS
    <3> QED BY ONLY <1>0, <3>1, <3>2, <3>3
  <2> QED BY <1>1, <1>2, <1>4, <2>1
<1>5. CASE i > k
  <2> DEFINE j == i - k + 1
  <2>0. j \in 1 .. Len(q) /\ (i < Len(r) <=> j < Len(q)) /\ i \in k + 1 .. Len(r)
    BY ONLY <1>0, <1>5
  <2>1. j \in 1 .. Len(q) /\ r[i] = q[j] /\ (i < Len(r) <=> j < Len(q))
    BY <1>1, <2>0
  <2>2. After(r, i) = After(q, j)
    BY <1>1, <1>5, <2>1 DEF After
  <2> QED BY <1>2, <2>1, <2>2
<1> QED BY <1>1, <1>3, <1>4, <1>5

LEMMA OpenWhereFrom ==
  ASSUME NEW q, NEW ops, NEW r, Replaced(q, ops, r), Fits(q, ops),
         NEW i \in 1 .. Len(r), Open(r, i)
  PROVE  \/ /\ i \in 1 .. Len(ops) /\ Open(ops, i) /\ r[i] = ops[i]
            /\ Open(q, 1) /\ q[1].b = ops[i].b
         \/ /\ i > Len(ops) /\ i - Len(ops) + 1 \in 2 .. Len(q)
            /\ r[i] = q[i - Len(ops) + 1] /\ Open(q, i - Len(ops) + 1)
<1> DEFINE k == Len(ops)
           j == i - k + 1
<1>1. /\ Len(q) \in Nat \ {0} /\ k \in Nat /\ Len(r) = k + Len(q) - 1
      /\ \A n \in 1 .. k : r[n] = ops[n]
      /\ \A n \in k + 1 .. Len(r) : r[n] = q[n - k + 1]
  BY DEF Replaced
<1>2. /\ q[1].op # "lockHal" /\ (k > 0 => ops[k].op # "lockHal")
      /\ \A n \in 1 .. k : Open(ops, n) => q[1].op \in HalOps /\ ops[n].b = q[1].b
  BY DEF Fits
<1>3. r[i].op \in HalOps /\ (i > 1 => r[i - 1].op # "lockHal")
  BY DEF Open
<1>0. k \in Nat /\ i \in Nat
  BY <1>1
<1>4. CASE i \in 1 .. k
  <2>1. Open(ops, i) /\ r[i] = ops[i]
    BY <1>1, <1>3, <1>4 DEF Open
  <2>2. q[1].op \in HalOps /\ ops[i].b = q[1].b
    BY <1>2, <1>4, <2>1
  <2> QED BY <1>4, <2>1, <2>2 DEF Open
<1>5. CASE i > k
  <2>1. j \in 2 .. Len(q) /\ r[i] = q[j]
    BY <1>1, <1>5
  <2>2. q[j - 1].op # "lockHal"
    <3>1. CASE i = k + 1
      BY <1>1, <1>2, <3>1
    <3>2. CASE i > k + 1
      <4>1. i - 1 \in k + 1 .. Len(r) /\ r[i - 1] = q[j - 1] /\ i > 1
        BY <1>1, <1>5, <3>2
      <4> QED BY <1>3, <4>1
    <3> QED BY ONLY <1>0, <1>5, <3>1, <3>2
  <2> QED BY <1>3, <1>5, <2>1, <2>2 DEF Open
<1> QED BY <1>1, <1>4, <1>5

LEMMA FittingKeepsOpenOnce ==
  ASSUME NEW q, NEW ops, NEW r, Replaced(q, ops, r), Fits(q, ops), OpenOnce(q)
  PROVE  OpenOnce(r)
<1> SUFFICES ASSUME NEW i \in 1 .. Len(r), NEW j \in 1 .. Len(r),
                    Open(r, i), Open(r, j), r[i].b = r[j].b
             PROVE  i = j
  BY DEF OpenOnce
<1> DEFINE k == Len(ops)
           From(n) == \/ /\ n \in 1 .. k /\ Open(ops, n) /\ r[n] = ops[n]
                         /\ Open(q, 1) /\ q[1].b = ops[n].b
                      \/ /\ n > k /\ n - k + 1 \in 2 .. Len(q)
                         /\ r[n] = q[n - k + 1] /\ Open(q, n - k + 1)
<1>1. From(i) /\ From(j)
  BY OpenWhereFrom
<1>2. Len(q) \in Nat \ {0} /\ k \in Nat
  BY DEF Replaced
<1>3. \A n, m \in 1 .. k : Open(ops, n) /\ Open(ops, m) => n = m
  BY DEF Fits
<1>4. \A n, m \in 1 .. Len(q) : Open(q, n) /\ Open(q, m) /\ q[n].b = q[m].b => n = m
  BY DEF OpenOnce
<1> HIDE DEF k
<1>5. CASE i <= k /\ j <= k
  BY <1>1, <1>2, <1>3, <1>5
<1>6. CASE i > k /\ j > k
  BY <1>1, <1>2, <1>4, <1>6, SMTT(30)
<1>7. CASE i <= k /\ j > k
  BY <1>1, <1>2, <1>4, <1>7
<1>8. CASE i > k /\ j <= k
  BY <1>1, <1>2, <1>4, <1>8
<1> QED BY <1>2, <1>5, <1>6, <1>7, <1>8

LEMMA FittingKeepsOnePort ==
  ASSUME NEW q, NEW ops, NEW r, Replaced(q, ops, r), Fits(q, ops), OnePort(q)
  PROVE  OnePort(r)
<1> DEFINE OnWire(o) == o.op \in WireOps \cup {"lockWire"}
<1>1. ASSUME NEW i \in 1 .. Len(r), OnWire(r[i])
      PROVE  \E n \in 1 .. Len(q) : OnWire(q[n]) /\ q[n].b = r[i].b
  <2>1. CASE i \in 1 .. Len(ops) /\ r[i] = ops[i]
    <3>1. q[1].op \in WireOps /\ ops[i].b = q[1].b
      BY <1>1, <2>1 DEF Fits
    <3> QED BY <2>1, <3>1 DEF Replaced
  <2>2. CASE i > Len(ops) /\ i - Len(ops) + 1 \in 2 .. Len(q) /\ r[i] = q[i - Len(ops) + 1]
    <3>1. i - Len(ops) + 1 \in 1 .. Len(q)
      BY <2>2 DEF Replaced
    <3> QED BY <1>1, <2>2, <3>1
  <2> QED BY <2>1, <2>2, WhereFrom
<1>2. \A n, m \in 1 .. Len(q) : OnWire(q[n]) /\ OnWire(q[m]) => q[n].b = q[m].b
  BY DEF OnePort
<1> HIDE DEF OnWire
<1>3. \A i, j \in 1 .. Len(r) : OnWire(r[i]) /\ OnWire(r[j]) => r[i].b = r[j].b
  BY <1>1, <1>2
<1> QED BY <1>3 DEF OnePort, OnWire

LEMMA HasInNew ==
  ASSUME NEW q, NEW ops, NEW r, Replaced(q, ops, r), NEW what, NEW b, HasIn(r, what, b)
  PROVE  HasIn(ops, what, b) \/ HasIn(q, what, b)
<1>1. PICK i \in 1 .. Len(r) : r[i].op \in what /\ r[i].b = b
  BY DEF HasIn
<1>2. CASE i \in 1 .. Len(ops) /\ r[i] = ops[i]
  BY <1>1, <1>2 DEF HasIn
<1>3. CASE i > Len(ops) /\ i - Len(ops) + 1 \in 2 .. Len(q) /\ r[i] = q[i - Len(ops) + 1]
  <2>1. i - Len(ops) + 1 \in 1 .. Len(q)
    BY <1>3 DEF Replaced
  <2> QED BY <1>1, <1>3, <2>1 DEF HasIn
<1> QED BY <1>2, <1>3, WhereFrom

LEMMA HasInOld ==
  ASSUME NEW q, NEW ops, NEW r, Replaced(q, ops, r), NEW what, NEW b, HasIn(q, what, b),
         q[1].op \notin what \/ q[1].b # b
  PROVE  HasIn(r, what, b)
<1>1. PICK i \in 1 .. Len(q) : q[i].op \in what /\ q[i].b = b
  BY DEF HasIn
<1>2. i \in 2 .. Len(q)
  <2>1. i # 1
    BY <1>1
  <2>2. PICK m \in Nat : m = Len(q)
    BY DEF Replaced
  <2>3. i \in 1 .. m
    BY <2>2
  <2> QED BY ONLY <2>1, <2>2, <2>3
<1>3. i + Len(ops) - 1 \in 1 .. Len(r) /\ r[i + Len(ops) - 1] = q[i]
  BY <1>2, WhereTo
<1> QED BY <1>1, <1>3 DEF HasIn

LEMMA HasInAdded ==
  ASSUME NEW q, NEW ops, NEW r, Replaced(q, ops, r), NEW what, NEW b, HasIn(ops, what, b)
  PROVE  HasIn(r, what, b)
<1>1. PICK i \in 1 .. Len(ops) : ops[i].op \in what /\ ops[i].b = b
  BY DEF HasIn
<1>2. i \in 1 .. Len(r) /\ r[i] = ops[i]
  BY DEF Replaced
<1> QED BY <1>1, <1>2 DEF HasIn

(* A lock of a Wire object is asked for by the first operation only.        *)
LEMMA FittingDoesNotWait ==
  ASSUME NEW q, NEW ops, NEW r, Replaced(q, ops, r), InOrder(q), Len(r) > 0,
         Len(ops) > 0 => ops[1].op # "lockWire"
  PROVE  r[1].op # "lockWire"
<1>1. /\ Len(q) \in Nat \ {0} /\ Len(ops) \in Nat /\ Len(r) = Len(ops) + Len(q) - 1
      /\ \A i \in 1 .. Len(ops) : r[i] = ops[i]
      /\ \A i \in Len(ops) + 1 .. Len(r) : r[i] = q[i - Len(ops) + 1]
  BY DEF Replaced
<1>2. CASE Len(ops) > 0
  BY <1>1, <1>2
<1>3. CASE Len(ops) = 0
  <2>1. r[1] = q[2] /\ 1 < Len(q) /\ 1 \in 1 .. Len(q)
    BY <1>1, <1>3
  <2>2. Follows(q[1], q[2])
    BY <2>1 DEF InOrder, After
  <2> QED BY <2>1, <2>2 DEF Follows
<1> QED BY <1>1, <1>2, <1>3

-----------------------------------------------------------------------------
(* A step that is no operation on a Wire object: it replaces the one at     *)
(* hand.                                                                    *)
HalStep(t, ops) ==
  /\ ops \in Seq(Operation)
  /\ ~Idle(t) /\ Becomes(t, ops)
  /\ agenda[t][1].op \notin WireOps \cup {"lockWire"}
  /\ \A i \in 1 .. Len(ops) : ops[i].op \notin WireOps \cup {"lockWire"}
  /\ \A b \in Ports : lock'[Wire(b)] = lock[Wire(b)]
  /\ UNCHANGED <<wire, said>>

FittingStep(t, ops) ==
  /\ HalStep(t, ops)
  /\ Fits(agenda[t], ops)
  /\ lock' = lock

LEMMA HalStepReplaces ==
  ASSUME Inv, NEW t \in Tasks, NEW ops, HalStep(t, ops)
  PROVE  /\ Replaced(agenda[t], ops, agenda'[t])
         /\ agenda' \in [Tasks -> Seq(Operation)]
         /\ \A u \in Tasks \ {t} : agenda'[u] = agenda[u]
BY BecomesReplaces DEF HalStep, Inv

LEMMA FittingKeepsShape ==
  ASSUME Inv, NEW t \in Tasks, NEW ops, HalStep(t, ops), Fits(agenda[t], ops)
  PROVE  Shape'
<1>1. /\ Replaced(agenda[t], ops, agenda'[t])
      /\ InOrder(agenda[t]) /\ OnePort(agenda[t]) /\ OpenOnce(agenda[t])
  BY HalStepReplaces DEF Inv, Shape
<1>2. InOrder(agenda'[t]) /\ OnePort(agenda'[t]) /\ OpenOnce(agenda'[t])
  BY <1>1, FittingKeepsOrder, FittingKeepsOnePort, FittingKeepsOpenOnce
<1>3. \A u \in Tasks \ {t} : agenda'[u] = agenda[u]
  BY HalStepReplaces
<1> QED BY <1>2, <1>3 DEF Shape, Inv

LEMMA FittingStepKeepsHalHeld ==
  ASSUME Inv, NEW t \in Tasks, NEW ops, FittingStep(t, ops)
  PROVE  HalHeld'
<1>1. /\ Replaced(agenda[t], ops, agenda'[t]) /\ Fits(agenda[t], ops)
      /\ lock' = lock /\ \A u \in Tasks \ {t} : agenda'[u] = agenda[u]
  BY HalStepReplaces DEF FittingStep
<1>2. \A i \in 1 .. Len(agenda[t]) : Open(agenda[t], i) => lock[Hal(agenda[t][i].b)] = t
  BY DEF Inv, HalHeld
<1>3. 1 \in 1 .. Len(agenda[t])
  BY <1>1 DEF Replaced
<1>4. ASSUME NEW i \in 1 .. Len(agenda'[t]), Open(agenda'[t], i)
      PROVE  lock[Hal(agenda'[t][i].b)] = t
  <2>1. CASE /\ agenda'[t][i] = ops[i]
             /\ Open(agenda[t], 1) /\ agenda[t][1].b = ops[i].b
    BY <1>2, <1>3, <2>1
  <2>2. CASE /\ i > Len(ops) /\ i - Len(ops) + 1 \in 2 .. Len(agenda[t])
             /\ agenda'[t][i] = agenda[t][i - Len(ops) + 1]
             /\ Open(agenda[t], i - Len(ops) + 1)
    <3>1. i - Len(ops) + 1 \in 1 .. Len(agenda[t])
      BY <1>1, <2>2 DEF Replaced
    <3> QED BY <1>2, <2>2, <3>1
  <2> QED BY <1>1, <1>4, <2>1, <2>2, OpenWhereFrom
<1> QED BY <1>1, <1>4 DEF HalHeld, Inv

(* The operations on the Wire objects stay what they are.                   *)
LEMMA HalStepKeepsWireOps ==
  ASSUME Inv, NEW t \in Tasks, NEW ops, HalStep(t, ops)
  PROVE  /\ \A u \in Tasks : \A b : \A what \in SUBSET (WireOps \cup {"lockWire"}) :
              Has(u, what, b)' <=> Has(u, what, b)
         /\ \A u \in Tasks : Does(u, "lockWire")' <=> Does(u, "lockWire")
<1>1. /\ Replaced(agenda[t], ops, agenda'[t])
      /\ agenda' \in [Tasks -> Seq(Operation)] /\ InOrder(agenda[t])
      /\ \A u \in Tasks \ {t} : agenda'[u] = agenda[u]
  BY HalStepReplaces DEF HalStep, Inv, Shape
<1>2. agenda[t][1].op \notin WireOps \cup {"lockWire"}
  BY DEF HalStep
<1>3. \A i \in 1 .. Len(ops) : ops[i].op \notin WireOps \cup {"lockWire"}
  BY DEF HalStep
<1>4. ASSUME NEW b, NEW what \in SUBSET (WireOps \cup {"lockWire"})
      PROVE  HasIn(agenda'[t], what, b) <=> HasIn(agenda[t], what, b)
  <2>1. ~HasIn(ops, what, b) /\ agenda[t][1].op \notin what
    BY <1>2, <1>3 DEF HasIn
  <2>2. HasIn(agenda'[t], what, b) => HasIn(agenda[t], what, b)
    BY <1>1, <2>1, HasInNew
  <2>3. HasIn(agenda[t], what, b) => HasIn(agenda'[t], what, b)
    BY <1>1, <2>1, HasInOld
  <2> QED BY <2>2, <2>3
<1>5. ~Does(t, "lockWire")
  BY <1>2 DEF Does, Now
<1>6. ~Does(t, "lockWire")'
  <2>1. CASE Len(agenda'[t]) > 0
    <3>1. Len(ops) > 0 => ops[1].op # "lockWire"
      <4>1. Len(ops) \in Nat
        BY <1>1 DEF Replaced
      <4> QED BY <1>3, <4>1
    <3> QED BY <1>1, <2>1, <3>1, FittingDoesNotWait DEF Does, Now
  <2>2. CASE ~(Len(agenda'[t]) > 0)
    <3>1. agenda'[t] = <<>>
      BY <1>1, <2>2
    <3> QED BY <3>1 DEF Does, Idle
  <2> QED BY <2>1, <2>2
<1>7. \A u \in Tasks : \A b : \A what \in SUBSET (WireOps \cup {"lockWire"}) :
        Has(u, what, b)' <=> Has(u, what, b)
  BY <1>1, <1>4 DEF Has
<1>8. \A u \in Tasks \ {t} : Does(u, "lockWire")' <=> Does(u, "lockWire")
  BY <1>1 DEF Does, Idle, Now
<1> QED BY <1>5, <1>6, <1>7, <1>8

LEMMA HalStepKeepsTheRest ==
  ASSUME Inv, NEW t \in Tasks, NEW ops, HalStep(t, ops)
  PROVE  WireHeld' /\ Waits' /\ Sayings' /\ Restarts'
<1>1. /\ \A u \in Tasks : \A b : \A what \in SUBSET (WireOps \cup {"lockWire"}) :
           Has(u, what, b)' <=> Has(u, what, b)
      /\ \A u \in Tasks : Does(u, "lockWire")' <=> Does(u, "lockWire")
  BY HalStepKeepsWireOps
<1>2. (\A b \in Ports : lock'[Wire(b)] = lock[Wire(b)]) /\ UNCHANGED <<wire, said>>
  BY DEF HalStep
<1>3. \A u \in Tasks : \A b : /\ Has(u, WireOps, b)' <=> Has(u, WireOps, b)
                              /\ Has(u, Quitting, b)' <=> Has(u, Quitting, b)
                              /\ Has(u, {"finish"}, b)' <=> Has(u, {"finish"}, b)
                              /\ Has(u, {"begun"}, b)' <=> Has(u, {"begun"}, b)
                              /\ Has(u, {"free"}, b)' <=> Has(u, {"free"}, b)
                              /\ Has(u, {"end"}, b)' <=> Has(u, {"end"}, b)
                              /\ Has(u, WireOps \cup {"lockWire"}, b)' <=>
                                   Has(u, WireOps \cup {"lockWire"}, b)
  <2>1. {WireOps, Quitting, {"finish"}, {"begun"}, {"free"}, {"end"},
        WireOps \cup {"lockWire"}}
          \subseteq SUBSET (WireOps \cup {"lockWire"})
    BY DEF WireOps, Quitting
  <2> QED BY <1>1, <2>1
<1>4. WireHeld'
  <2>1. WireHeld
    BY DEF Inv
  <2> QED BY ONLY <1>1, <1>2, <1>3, <2>1 DEF WireHeld
<1>5. Waits'
  <2>1. Waits
    BY DEF Inv
  <2>2. \A u \in Tasks : Does(u, "lockWire") => u # t /\ Now(u)' = Now(u)
    <3>1. \A u \in Tasks \ {t} : agenda'[u] = agenda[u]
      BY HalStepReplaces
    <3>2. ~Does(t, "lockWire")
      BY DEF HalStep, Does, Now
    <3> QED BY <3>1, <3>2 DEF Now
  <2> QED BY ONLY <1>1, <1>3, <2>1, <2>2 DEF Waits
<1>6. Sayings'
  <2>1. Sayings
    BY DEF Inv
  <2>2. Telling' /\ Outsiders'
    BY ONLY <1>2, <1>3, <2>1 DEF Sayings, Telling, Outsiders
  <2>3. OneObject'
    BY ONLY <1>1, <1>2, <1>3, <2>1 DEF Sayings, OneObject
  <2>4. Owners'
    BY ONLY <1>1, <1>2, <1>3, <2>1 DEF Sayings, Owners
  <2> QED BY ONLY <2>2, <2>3, <2>4 DEF Sayings
<1>7. Restarts'
  <2>1. Restarts
    BY DEF Inv
  <2> QED BY ONLY <1>2, <1>3, <2>1 DEF Restarts
<1> QED BY <1>4, <1>5, <1>6, <1>7

LEMMA NowIsOperation ==
  ASSUME Inv, NEW t \in Tasks, NEW what, Does(t, what)
  PROVE  /\ ~Idle(t) /\ Now(t) = agenda[t][1] /\ Now(t) \in Operation /\ Now(t).op = what
         /\ Len(agenda[t]) \in Nat \ {0}
         /\ Follows(Now(t), After(agenda[t], 1)) /\ After(agenda[t], 1).op # "lockWire"
<1>1. agenda[t] \in Seq(Operation) /\ agenda[t] # <<>> /\ InOrder(agenda[t])
  BY DEF Inv, Types, Shape, Does, Idle
<1>2. Len(agenda[t]) \in Nat \ {0} /\ 1 \in 1 .. Len(agenda[t])
  BY <1>1
<1>3. agenda[t][1] \in Operation
  BY <1>1, <1>2
<1>4. Follows(agenda[t][1], After(agenda[t], 1))
  BY <1>1, <1>2 DEF InOrder
<1> QED BY <1>2, <1>3, <1>4 DEF Does, Now, Follows

(* What comes last on an agenda, and what a begin() has still to do.        *)
LEMMA LastEnds ==
  ASSUME Inv, NEW t \in Tasks, NEW i \in 1 .. Len(agenda[t]), agenda[t][i].op \in LastOps
  PROVE  i = Len(agenda[t])
<1> DEFINE q == agenda[t]
<1>1. q \in Seq(Operation)
  BY DEF Inv, Types
<1>2. After(q, i) = Nothing
  BY DEF Inv, Shape, InOrder, Follows
<1>3. PICK m \in Nat : m = Len(q)
  BY <1>1
<1>4. ASSUME i < m PROVE FALSE
  <2>1. i + 1 \in 1 .. m
    BY ONLY <1>3, <1>4
  <2>2. q[i + 1] \in Operation /\ q[i + 1] = Nothing
    BY <1>1, <1>2, <1>3, <1>4, <2>1 DEF After
  <2>3. q[i + 1].op = "nothing"
    BY <2>2 DEF Nothing, For, Op
  <2>4. "nothing" \notin OpNames
    BY DEF OpNames, PinOps, InitOps, HalOps, WireOps, Quitting
  <2> QED BY <2>2, <2>3, <2>4 DEF Operation
<1>5. i \in 1 .. m
  BY <1>3
<1> QED BY ONLY <1>3, <1>4, <1>5

LEMMA BegunIsNext ==
  ASSUME Inv, NEW t \in Tasks, NEW what \in InitOps, Does(t, what)
  PROVE  Len(agenda[t]) = 2 /\ agenda[t][2] = For("begun", Now(t).b)
<1> DEFINE q == agenda[t]
<1>1. /\ Now(t) = q[1] /\ Now(t).op = what /\ Len(q) \in Nat \ {0}
      /\ Follows(Now(t), After(q, 1))
  BY NowIsOperation
<1>2. After(q, 1) = For("begun", Now(t).b)
  BY <1>1 DEF Follows
<1>3. For("begun", Now(t).b).op = "begun" /\ Nothing.op = "nothing"
  BY DEF For, Op, Nothing
<1>4. 1 < Len(q) /\ q[2] = For("begun", Now(t).b)
  BY <1>2, <1>3 DEF After
<1>5. 2 \in 1 .. Len(q)
  BY <1>1, <1>4
<1>6. 2 = Len(q)
  BY <1>3, <1>4, <1>5, LastEnds DEF LastOps
<1> QED BY <1>4, <1>6

(* Most steps of the driver's functions have no part in starting, stopping  *)
(* and using a port.                                                        *)
Decisive == {"setScl", "registered"} \cup Stops

LEMMA NeutralStepKeepsDrivers ==
  ASSUME Inv, NEW t \in Tasks, NEW ops, HalStep(t, ops),
         agenda[t][1].op # "uninitialize",
         \A i \in 1 .. Len(ops) : ops[i].op # "onTheBus",
         UNCHANGED <<initialized, installed>>
  PROVE  Drivers'
<1>1. /\ Replaced(agenda[t], ops, agenda'[t])
      /\ \A u \in Tasks \ {t} : agenda'[u] = agenda[u]
  BY HalStepReplaces
<1>2. \A b \in Ports : Has(t, {"onTheBus"}, b)' => Has(t, {"onTheBus"}, b)
  <2> SUFFICES ASSUME NEW b \in Ports, Has(t, {"onTheBus"}, b)' PROVE Has(t, {"onTheBus"}, b)
    OBVIOUS
  <2>1. HasIn(agenda'[t], {"onTheBus"}, b)
    BY DEF Has
  <2>2. ~HasIn(ops, {"onTheBus"}, b)
    BY DEF HasIn
  <2> QED BY <1>1, <2>1, <2>2, HasInNew DEF Has
<1>3. \A b : Has(t, {"uninitialize"}, b) => Has(t, {"uninitialize"}, b)'
  BY <1>1, HasInOld DEF Has, Decisive, Stops
<1>4. Drivers /\ \A u \in Tasks \ {t} : \A b, what : Has(u, what, b)' <=> Has(u, what, b)
  BY <1>1 DEF Has, Inv
<1>5. UNCHANGED <<initialized, installed>>
  OBVIOUS
<1> QED BY ONLY <1>2, <1>3, <1>4, <1>5 DEF Drivers

(* What an operation that is about to stop or to start port c leaves for    *)
(* later, or leaves noted.                                                  *)
StillStops(t, ops, c) ==
  \/ HasIn(ops, Stops, c)
  \/ /\ Has(t, {"fail"}, c) => c \in halfStarted'
     /\ Has(t, {"free"}, c) => c \in halfEnded'

StillStarts(t, ops, c) ==
  \/ Started(t)' \/ HasIn(ops, {"setScl", "registered"}, c)
  \/ HasIn(ops, Stops, c) /\ HasIn(ops, {"fail"}, c)

LEMMA StepKeepsBuffers ==
  ASSUME Inv, Noted, NEW t \in Tasks, NEW ops, HalStep(t, ops),
         NEW what, NEW c, agenda[t][1].op = what, agenda[t][1].b = c,
         initialized' \subseteq initialized,
         \A u \in Tasks \ {t} : local'[u] = local[u],
         Started(t) => Started(t)',
         c \in initialized' /\ what \in Stops => StillStops(t, ops, c),
         c \in initialized' /\ what \in {"setScl", "registered"} => StillStarts(t, ops, c)
  PROVE  Buffers'
<1>1. /\ Replaced(agenda[t], ops, agenda'[t])
      /\ \A u \in Tasks \ {t} : agenda'[u] = agenda[u]
      /\ wire' = wire
  BY HalStepReplaces DEF HalStep
<1>2. ASSUME NEW b \in initialized', Undoing(t, b)
      PROVE  Undoing(t, b)' \/ b \in halfStarted'
  <2>1. what # "fail" \/ c # b
    <3>1. ASSUME what = "fail", c = b PROVE FALSE
      <4>1. Does(t, "fail") /\ Now(t).b = b
        BY <3>1 DEF HalStep, Does, Now
      <4>2. Len(agenda[t]) = 2 /\ agenda[t][2] = For("begun", b)
        BY <4>1, BegunIsNext DEF InitOps
      <4>3. For("begun", b).op = "begun"
        BY DEF For, Op
      <4>4. PICK i \in 1 .. Len(agenda[t]) : agenda[t][i].op \in Stops
        BY <1>2 DEF Undoing, Has, HasIn
      <4>5. i = 1 \/ i = 2
        BY <4>2
      <4> QED BY <3>1, <4>2, <4>3, <4>4, <4>5 DEF Stops
    <3> QED BY <3>1
  <2>2. Has(t, {"fail"}, b) /\ Has(t, {"fail"}, b)'
    BY <1>1, <1>2, <2>1, HasInOld DEF Has, Undoing
  <2>3. CASE what \notin Stops \/ c # b
    BY <1>1, <1>2, <2>2, <2>3, HasInOld DEF Has, Undoing
  <2>4. CASE what \in Stops /\ c = b
    <3>1. CASE HasIn(ops, Stops, b)
      BY <1>1, <2>2, <3>1, HasInAdded DEF Has, Undoing
    <3> QED BY <2>2, <2>4, <3>1 DEF StillStops
  <2> QED BY <2>3, <2>4
<1>3. ASSUME NEW b \in initialized', Has(t, {"setScl", "registered"}, b)
      PROVE  Has(t, {"setScl", "registered"}, b)' \/ Undoing(t, b)' \/ Started(t)'
  <2>1. CASE what \notin {"setScl", "registered"} \/ c # b
    BY <1>1, <1>3, <2>1, HasInOld DEF Has
  <2>2. CASE what \in {"setScl", "registered"} /\ c = b
    <3>1. CASE HasIn(ops, Stops, c) /\ HasIn(ops, {"fail"}, c)
      BY <1>1, <2>2, <3>1, HasInAdded DEF Has, Undoing
    <3>2. CASE HasIn(ops, {"setScl", "registered"}, c)
      BY <1>1, <2>2, <3>2, HasInAdded DEF Has
    <3> QED BY <2>2, <3>1, <3>2 DEF StillStarts
  <2> QED BY <2>1, <2>2
<1>4. ASSUME NEW b \in initialized', Has(t, {"free"}, b), Has(t, Stops \cup {"end"}, b)
      PROVE  Has(t, Stops \cup {"end"}, b)' \/ b \in halfEnded'
  <2>1. CASE what \notin Stops \cup {"end"} \/ c # b
    BY <1>1, <1>4, <2>1, HasInOld DEF Has
  <2>2. CASE what \in Stops /\ c = b
    <3>1. CASE HasIn(ops, Stops, b)
      <4>1. HasIn(ops, Stops \cup {"end"}, b)
        BY <3>1 DEF HasIn
      <4> QED BY <1>1, <4>1, HasInAdded DEF Has
    <3> QED BY <1>4, <2>2, <3>1 DEF StillStops
  <2>3. what # "end"
    BY DEF HalStep, WireOps, Quitting
  <2> QED BY <2>1, <2>2, <2>3
<1>5. \A u \in Tasks : \A b : /\ Has(u, {"begun"}, b)' <=> Has(u, {"begun"}, b)
                              /\ Has(u, {"free"}, b)' <=> Has(u, {"free"}, b)
  <2>1. {"begun"} \in SUBSET (WireOps \cup {"lockWire"})
        /\ {"free"} \in SUBSET (WireOps \cup {"lockWire"})
    BY DEF WireOps, Quitting
  <2> QED BY <2>1, HalStepKeepsWireOps
<1>6. Started(t) => Started(t)'
  OBVIOUS
<1>7. \A u \in Tasks \ {t} : /\ Started(u)' <=> Started(u)
                             /\ \A b, some : Has(u, some, b)' <=> Has(u, some, b)
                             /\ \A b : Undoing(u, b)' <=> Undoing(u, b)
  BY <1>1 DEF Started, Has, Undoing
<1>8. Buffers /\ initialized' \subseteq initialized /\ wire' = wire
  BY <1>1 DEF Inv
<1>9. \A b \in initialized' : /\ b \in halfStarted => b \in halfStarted'
                              /\ b \in halfEnded => b \in halfEnded'
  BY DEF Noted
<1>10. \A b \in initialized' : wire'[b].buffers \/ b \in halfStarted' \/ b \in halfEnded'
  BY ONLY <1>8, <1>9 DEF Buffers
<1>11. ASSUME NEW u \in Tasks, NEW b \in Ports, Has(u, {"begun"}, b)'
       PROVE  /\ wire'[b].buffers
              /\ b \in initialized' =>
                   (Started(u) \/ Has(u, {"setScl", "registered"}, b) \/ Undoing(u, b) \/ b \in halfStarted)'
  <2>1. /\ wire[b].buffers
        /\ b \in initialized =>
             Started(u) \/ Has(u, {"setScl", "registered"}, b) \/ Undoing(u, b) \/ b \in halfStarted
    BY <1>5, <1>8, <1>11 DEF Buffers
  <2>2. CASE u = t
    BY <1>2, <1>3, <1>6, <1>8, <1>9, <2>1, <2>2
  <2>3. CASE u # t
    BY <1>7, <1>8, <1>9, <2>1, <2>3
  <2> QED BY <2>2, <2>3
<1>12. ASSUME NEW u \in Tasks, NEW b \in initialized', Has(u, {"free"}, b)'
       PROVE  Has(u, Stops \cup {"end"}, b)' \/ b \in halfEnded'
  <2>1. Has(u, {"free"}, b) /\ (Has(u, Stops \cup {"end"}, b) \/ b \in halfEnded)
    BY <1>5, <1>8, <1>12 DEF Buffers
  <2>2. CASE u = t
    BY <1>4, <1>9, <2>1, <2>2
  <2>3. CASE u # t
    BY <1>7, <1>9, <2>1, <2>3
  <2> QED BY <2>2, <2>3
<1> QED BY <1>10, <1>11, <1>12 DEF Buffers

NeutralStep(t, ops) ==
  /\ FittingStep(t, ops)
  /\ agenda[t][1].op \notin Decisive \cup {"unlockHal"}
  /\ \A i \in 1 .. Len(ops) : ops[i].op # "onTheBus"
  /\ UNCHANGED <<initialized, installed>>
  /\ \A u \in Tasks \ {t} : local'[u] = local[u]

LEMMA BusyIsNotStarted ==
  ASSUME Inv, NEW t \in Tasks, ~Idle(t), agenda[t][1].op \notin {"unlockHal", "begun"}
  PROVE  ~Started(t)
<1>1. agenda[t] \in Seq(Operation) /\ agenda[t] # <<>>
  BY DEF Inv, Types, Idle
<1>2. 1 \in 1 .. Len(agenda[t])
  BY <1>1
<1> QED BY <1>2 DEF Started

LEMMA NeutralStepKeepsInv ==
  ASSUME Inv, Types', Noted, NEW t \in Tasks, NEW ops, NeutralStep(t, ops)
  PROVE  Inv'
<1>0. HalStep(t, ops) /\ FittingStep(t, ops)
  BY DEF NeutralStep, FittingStep
<1>1. Shape' /\ HalHeld' /\ WireHeld' /\ Waits' /\ Sayings' /\ Restarts'
  BY <1>0, FittingKeepsShape, FittingStepKeepsHalHeld, HalStepKeepsTheRest DEF FittingStep
<1>2. Drivers'
  BY <1>0, NeutralStepKeepsDrivers DEF NeutralStep, Decisive, Stops
<1>3. ~Started(t)
  BY <1>0, BusyIsNotStarted DEF NeutralStep, HalStep, WireOps, Quitting
<1>4. Buffers'
  BY <1>0, <1>3, StepKeepsBuffers DEF NeutralStep, Decisive, StillStops, StillStarts
<1> QED BY <1>1, <1>2, <1>4 DEF Inv

-----------------------------------------------------------------------------
(* What fits, by the number of operations that replace the old one.         *)
LEMMA NoneFits ==
  ASSUME NEW q, q[1].op \notin {"lockHal", "lockWire"}
  PROVE  Fits(q, <<>>)
BY DEF Fits

May(q, o) == o.op \in HalOps => q[1].op \in HalOps /\ o.b = q[1].b
Stays(q, o) ==
  /\ o.op # "lockWire"
  /\ o.op \in WireOps => q[1].op \in WireOps /\ o.b = q[1].b

LEMMA OneFits ==
  ASSUME NEW q, q[1].op \notin {"lockHal", "lockWire"}, NEW a,
         Stays(q, a), May(q, a), a.op # "lockHal", Follows(a, After(q, 1))
  PROVE  Fits(q, <<a>>)
<1> DEFINE ops == <<a>>
<1>1. Len(ops) = 1 /\ ops[1] = a
  OBVIOUS
<1> HIDE DEF ops
<1>2. \A i \in 1 .. Len(ops) : i = 1
  BY <1>1
<1> QED BY <1>1, <1>2 DEF Fits, Stays, May, Open, ops

LEMMA TwoFit ==
  ASSUME NEW q, q[1].op \notin {"lockHal", "lockWire"}, NEW a, NEW c,
         Stays(q, a), May(q, a), Follows(a, c),
         Stays(q, c),
         a.op = "lockHal" \/ (May(q, c) /\ (a.op \notin HalOps \/ c.op \notin HalOps)),
         c.op # "lockHal", Follows(c, After(q, 1))
  PROVE  Fits(q, <<a, c>>)
<1> DEFINE ops == <<a, c>>
<1>1. Len(ops) = 2 /\ ops[1] = a /\ ops[2] = c
  OBVIOUS
<1> HIDE DEF ops
<1>2. \A i \in 1 .. Len(ops) : i = 1 \/ i = 2
  BY <1>1
<1>3. /\ Open(ops, 1) <=> a.op \in HalOps
      /\ Open(ops, 2) <=> c.op \in HalOps /\ a.op # "lockHal"
  BY <1>1 DEF Open
<1>4. "lockHal" \notin HalOps
  BY DEF HalOps
<1>5. ASSUME NEW i \in 1 .. Len(ops)
      PROVE  /\ Follows(ops[i], IF i < Len(ops) THEN ops[i + 1] ELSE After(q, 1))
             /\ ops[i].op # "lockWire"
             /\ ops[i].op \in WireOps => q[1].op \in WireOps /\ ops[i].b = q[1].b
             /\ Open(ops, i) => q[1].op \in HalOps /\ ops[i].b = q[1].b
  BY <1>1, <1>2, <1>3 DEF Stays, May
<1>6. \A i, j \in 1 .. Len(ops) : Open(ops, i) /\ Open(ops, j) => i = j
  BY <1>2, <1>3, <1>4
<1> QED BY <1>1, <1>5, <1>6 DEF Fits, ops

LEMMA ThreeFit ==
  ASSUME NEW q, q[1].op \notin {"lockHal", "lockWire"}, NEW a, NEW c, NEW d,
         Stays(q, a), Stays(q, c), Stays(q, d),
         Follows(a, c), Follows(c, d), Follows(d, After(q, 1)), d.op # "lockHal",
         \/ a.op = "lockHal" /\ d.op \notin HalOps /\ c.op # "lockHal"
         \/ May(q, a) /\ c.op \notin HalOps /\ d.op \notin HalOps
         \/ a.op \notin HalOps /\ c.op \notin HalOps /\ May(q, d)
  PROVE  Fits(q, <<a, c, d>>)
<1> DEFINE ops == <<a, c, d>>
<1>1. Len(ops) = 3 /\ ops[1] = a /\ ops[2] = c /\ ops[3] = d
  OBVIOUS
<1> HIDE DEF ops
<1>2. \A i \in 1 .. Len(ops) : i = 1 \/ i = 2 \/ i = 3
  BY <1>1
<1>3. /\ Open(ops, 1) <=> a.op \in HalOps
      /\ Open(ops, 2) <=> c.op \in HalOps /\ a.op # "lockHal"
      /\ Open(ops, 3) <=> d.op \in HalOps /\ c.op # "lockHal"
  BY <1>1 DEF Open
<1>4. "lockHal" \notin HalOps
  BY DEF HalOps
<1>5. ASSUME NEW i \in 1 .. Len(ops)
      PROVE  /\ Follows(ops[i], IF i < Len(ops) THEN ops[i + 1] ELSE After(q, 1))
             /\ ops[i].op # "lockWire"
             /\ ops[i].op \in WireOps => q[1].op \in WireOps /\ ops[i].b = q[1].b
             /\ Open(ops, i) => q[1].op \in HalOps /\ ops[i].b = q[1].b
  BY <1>1, <1>2, <1>3, <1>4 DEF Stays, May
<1>6. \A i, j \in 1 .. Len(ops) : Open(ops, i) /\ Open(ops, j) => i = j
  BY <1>2, <1>3, <1>4
<1> QED BY <1>1, <1>5, <1>6 DEF Fits, ops

LEMMA ForIsOperation ==
  ASSUME NEW what \in OpNames, NEW b \in Ports
  PROVE  For(what, b) \in Operation /\ For(what, b).op = what /\ For(what, b).b = b
BY I2cAssumption DEF For, Op, Operation, BusTypes

LEMMA PinOpIsOperation ==
  ASSUME NEW what \in PinOps, NEW b \in Buses \cup {NULL}, NEW r \in BusTypes,
         NEW p \in Pins \cup {NoPin}
  PROVE  /\ Op(what, b, r, p) \in Operation
         /\ Op(what, b, r, p).op = what /\ Op(what, b, r, p).b = b
BY DEF Op, Operation, OpNames, PinOps

LEMMA HalStepKeepsTypes ==
  ASSUME Inv, NEW t \in Tasks, NEW ops, HalStep(t, ops),
         lock' \in [Locks -> {"free"} \cup Tasks],
         PeriManTypeOK', initialized' \subseteq Ports, installed' \subseteq Ports,
         bus' \in [Ports -> [sda : Pins \cup {NoPin}, scl : Pins \cup {NoPin}]],
         local' \in [Tasks -> Call], Noted
  PROVE  Types'
<1>1. UNCHANGED <<wire, said>> /\ agenda' \in [Tasks -> Seq(Operation)]
  BY HalStepReplaces DEF HalStep
<1>2. TypeOK /\ said \in [Tasks -> Saying]
  BY DEF Inv, Types
<1> QED BY <1>1, <1>2 DEF Types, TypeOK, I2cTypeOK, Noted

BusPins == [sda : Pins \cup {NoPin}, scl : Pins \cup {NoPin}]

LEMMA FittingMakesFittingStep ==
  ASSUME Inv, NEW t \in Tasks, NEW ops \in Seq(Operation), ~Idle(t), Becomes(t, ops),
         Fits(agenda[t], ops), agenda[t][1].op \notin WireOps,
         UNCHANGED <<lock, wire, said>>
  PROVE  FittingStep(t, ops) /\ HalStep(t, ops)
<1>1. /\ agenda[t][1].op \notin WireOps \cup {"lockWire"}
      /\ \A i \in 1 .. Len(ops) : ops[i].op \notin WireOps \cup {"lockWire"}
  BY DEF Fits
<1> QED BY <1>1 DEF HalStep, FittingStep

LEMMA NeutralActionKeepsInv ==
  ASSUME Inv, NEW t \in Tasks, NEW ops \in Seq(Operation), ~Idle(t), Becomes(t, ops),
         Fits(agenda[t], ops),
         agenda[t][1].op \notin WireOps \cup Decisive \cup {"unlockHal"},
         \A i \in 1 .. Len(ops) : ops[i].op # "onTheBus",
         UNCHANGED <<initialized, installed, lock, wire, said>>,
         PeriManTypeOK', bus' \in [Ports -> BusPins], local' \in [Tasks -> Call],
         \A u \in Tasks \ {t} : local'[u] = local[u],
         Noted
  PROVE  Inv'
<1>1. HalStep(t, ops) /\ FittingStep(t, ops)
  BY FittingMakesFittingStep
<1>2. NeutralStep(t, ops)
  BY <1>1 DEF NeutralStep
<1>3. /\ initialized' \subseteq Ports /\ installed' \subseteq Ports
      /\ lock' \in [Locks -> {"free"} \cup Tasks]
  BY DEF Inv, Types, TypeOK, I2cTypeOK
<1>4. Types'
  BY <1>1, <1>3, HalStepKeepsTypes DEF BusPins
<1> QED BY <1>2, <1>4, NeutralStepKeepsInv

LEMMA ResultIsTyped ==
  ASSUME Inv, NEW t \in Tasks, NEW r \in BOOLEAN, Result(t, r)
  PROVE  /\ local' \in [Tasks -> Call] /\ local'[t].result = r
         /\ \A u \in Tasks \ {t} : local'[u] = local[u]
<1>1. local \in [Tasks -> Call]
  BY DEF Inv, Types
<1>2. local' = [local EXCEPT ![t] = [local[t] EXCEPT !.result = r]]
  BY DEF Result
<1>3. [local[t] EXCEPT !.result = r] \in Call /\ [local[t] EXCEPT !.result = r].result = r
  BY <1>1 DEF Call
<1> QED BY <1>1, <1>2, <1>3

(* What the steps of the driver leave alone.                                *)
Aside == UNCHANGED <<wire, said>> /\ Noted

LEMMA TheRestIsTyped ==
  ASSUME Inv
  PROVE  /\ unchangedPeriMan => PeriManTypeOK'
         /\ unchangedHal => bus' \in [Ports -> BusPins] /\ UNCHANGED <<initialized, installed>>
         /\ local \in [Tasks -> Call]
         /\ initialized \subseteq Ports /\ installed \subseteq Ports
         /\ bus \in [Ports -> BusPins] /\ PeriManTypeOK
BY DEF Inv, Types, TypeOK, I2cTypeOK, PeriManTypeOK, unchangedPeriMan, unchangedHal,
     halVars, BusPins

LEMMA SetBusKeepsInv ==
  ASSUME Inv, NEW t \in Tasks, SetBus(t), Aside
  PROVE  Inv'
<1> DEFINE o == Now(t)
           assign == [o EXCEPT !.op = "assign"]
           q == agenda[t]
<1>1. /\ ~Idle(t) /\ o = q[1] /\ o \in Operation /\ o.op = "setBus"
      /\ After(q, 1).op # "lockWire"
  BY NowIsOperation DEF SetBus
<1>2. OnlyTheAgenda
  BY DEF SetBus
<1>3. assign \in Operation /\ assign.op = "assign"
  BY <1>1 DEF Operation, OpNames, PinOps
<1>4. o.op \notin WireOps \cup Decisive \cup {"unlockHal", "lockHal", "lockWire"}
  BY <1>1 DEF WireOps, Decisive, Quitting, Stops
<1>5. /\ assign.op \notin WireOps \cup HalOps \cup {"lockHal", "lockWire", "onTheBus"}
      /\ Follows(assign, After(q, 1))
  BY <1>1, <1>3 DEF WireOps, Quitting, HalOps, Follows, LastOps, InitOps
<1>6. /\ PeriManTypeOK' /\ bus' \in [Ports -> BusPins] /\ local \in [Tasks -> Call]
      /\ UNCHANGED <<initialized, installed, lock, wire, said>> /\ Noted
  BY <1>2, TheRestIsTyped DEF OnlyTheAgenda, Aside
<1> HIDE DEF q, assign
<1>7. CASE Done(t) /\ Result(t, TRUE)
  <2>1. Becomes(t, <<>>) /\ <<>> \in Seq(Operation) /\ Fits(q, <<>>)
    BY <1>1, <1>4, <1>7, NoneFits DEF Done
  <2>2. \A i \in 1 .. Len(<<>>) : <<>>[i].op # "onTheBus"
    OBVIOUS
  <2>3. local' \in [Tasks -> Call] /\ \A u \in Tasks \ {t} : local'[u] = local[u]
    BY <1>7, ResultIsTyped
  <2> QED BY <1>1, <1>4, <1>6, <2>1, <2>2, <2>3, NeutralActionKeepsInv DEF q
<1>8. CASE /\ pins[o.pin].bus \in Ports
           /\ Becomes(t, <<For("detach", pins[o.pin].bus), assign>>)
           /\ UNCHANGED local
  <2> DEFINE first == For("detach", pins[o.pin].bus)
             ops == <<first, assign>>
  <2>1. first \in Operation /\ first.op = "detach"
    BY <1>8, ForIsOperation DEF OpNames
  <2>2. Follows(first, assign) /\ first.op \notin HalOps \cup WireOps \cup {"lockHal", "lockWire"}
    BY <1>5, <2>1 DEF Follows, LastOps, InitOps, HalOps, WireOps, Quitting
  <2> HIDE DEF first
  <2>3. Fits(q, ops)
    BY <1>1, <1>4, <1>5, <2>2, TwoFit DEF Stays, May
  <2>4. ops \in Seq(Operation) /\ \A i \in 1 .. Len(ops) : ops[i].op # "onTheBus"
    BY <1>3, <1>5, <2>1
  <2>5. Becomes(t, ops) /\ local' = local
    BY <1>8 DEF first
  <2> HIDE DEF ops
  <2> QED BY <1>1, <1>4, <1>6, <2>3, <2>4, <2>5, NeutralActionKeepsInv DEF q
<1>9. CASE Becomes(t, <<assign>>) /\ Result(t, TRUE)
  <2>1. Fits(q, <<assign>>)
    BY <1>1, <1>4, <1>5, OneFits DEF Stays, May
  <2>2. <<assign>> \in Seq(Operation) /\ \A i \in 1 .. Len(<<assign>>) : <<assign>>[i].op # "onTheBus"
    BY <1>3, <1>5
  <2> QED BY <1>1, <1>4, <1>6, <1>9, <2>1, <2>2, ResultIsTyped, NeutralActionKeepsInv DEF q
<1> QED BY <1>7, <1>8, <1>9 DEF SetBus, assign

-----------------------------------------------------------------------------
(* The steps of the driver's functions that replace one operation by one or *)
(* two others.                                                              *)
LEMMA UnlockingFits ==
  ASSUME Inv, NEW t \in Tasks, NEW what \in HalOps \cup {"lockHal"}, Does(t, what),
         what # "lockHal"
  PROVE  LET ops == <<For("unlockHal", Now(t).b)>>
         IN /\ ops \in Seq(Operation) /\ Fits(agenda[t], ops)
            /\ \A i \in 1 .. Len(ops) : ops[i].op # "onTheBus"
<1> DEFINE a == For("unlockHal", Now(t).b)
           q == agenda[t]
<1>1. /\ ~Idle(t) /\ Now(t) = q[1] /\ Now(t) \in Operation /\ Now(t).op = what
      /\ After(q, 1).op # "lockWire"
  BY NowIsOperation
<1>2. Now(t).b \in Ports
  BY <1>1 DEF Operation, HalOps, PinOps
<1>3. a \in Operation /\ a.op = "unlockHal" /\ a.b = Now(t).b
  BY <1>2, ForIsOperation DEF OpNames, HalOps
<1> HIDE DEF a
<1>4. Stays(q, a) /\ May(q, a) /\ Follows(a, After(q, 1))
  BY <1>1, <1>3 DEF Stays, May, Follows, WireOps, Quitting, LastOps, InitOps
<1>5. q[1].op \notin {"lockHal", "lockWire"}
  BY <1>1 DEF HalOps
<1>6. Fits(q, <<a>>)
  BY <1>3, <1>4, <1>5, OneFits
<1>7. <<a>> \in Seq(Operation) /\ \A i \in 1 .. Len(<<a>>) : <<a>>[i].op # "onTheBus"
  BY <1>3
<1> QED BY <1>6, <1>7 DEF a

LEMMA PinFirstFits ==
  ASSUME Inv, NEW t \in Tasks, NEW what \in InitOps \cap HalOps, Does(t, what),
         NEW first \in Operation, first.op \in PinOps, NEW next \in InitOps \cap HalOps
  PROVE  LET ops == <<first, For(next, Now(t).b)>>
         IN /\ ops \in Seq(Operation) /\ Fits(agenda[t], ops)
            /\ \A i \in 1 .. Len(ops) : ops[i].op # "onTheBus"
<1> DEFINE c == For(next, Now(t).b)
           q == agenda[t]
<1>1. /\ ~Idle(t) /\ Now(t) = q[1] /\ Now(t) \in Operation /\ Now(t).op = what
      /\ Follows(Now(t), After(q, 1)) /\ After(q, 1).op # "lockWire"
  BY NowIsOperation
<1>2. Now(t).b \in Ports
  BY <1>1 DEF Operation, HalOps, PinOps
<1>3. c \in Operation /\ c.op = next /\ c.b = Now(t).b
  BY <1>2, ForIsOperation DEF OpNames
<1> HIDE DEF c
<1>4. /\ Stays(q, c) /\ May(q, c)
      /\ c.op \notin WireOps \cup LastOps \cup {"lockHal", "end", "free", "lockWire", "onTheBus"}
  BY <1>1, <1>3 DEF Stays, May, WireOps, Quitting, LastOps, InitOps, HalOps
<1>5. Follows(c, After(q, 1))
  BY <1>1, <1>3, <1>4 DEF Follows
<1>6. /\ first.op \notin WireOps \cup HalOps \cup LastOps \cup InitOps
      /\ first.op \notin {"lockHal", "end", "free", "lockWire", "onTheBus"}
  BY DEF PinOps, WireOps, Quitting, LastOps, InitOps, HalOps
<1>7. Stays(q, first) /\ May(q, first) /\ Follows(first, c)
  BY <1>4, <1>6 DEF Stays, May, Follows
<1>8. q[1].op \notin {"lockHal", "lockWire"}
  BY <1>1 DEF HalOps
<1>9. Fits(q, <<first, c>>)
  BY <1>4, <1>5, <1>6, <1>7, <1>8, TwoFit
<1>10. <<first, c>> \in Seq(Operation)
       /\ \A i \in 1 .. Len(<<first, c>>) : <<first, c>>[i].op # "onTheBus"
  BY <1>3, <1>4, <1>6
<1> QED BY <1>9, <1>10 DEF c

LEMMA InitFailsKeepsInv ==
  ASSUME Inv, NEW t \in Tasks, NEW what \in {"init", "clearScl", "install"}, Does(t, what),
         InitFails(t), OnlyTheAgenda, Aside
  PROVE  Inv'
<1> DEFINE ops == <<For("unlockHal", Now(t).b)>>
<1>1. ~Idle(t) /\ Now(t) = agenda[t][1] /\ Now(t).op = what
  BY NowIsOperation
<1>2. /\ ops \in Seq(Operation) /\ Fits(agenda[t], ops)
      /\ \A i \in 1 .. Len(ops) : ops[i].op # "onTheBus"
  BY UnlockingFits DEF HalOps
<1>3. Becomes(t, ops) /\ Result(t, FALSE)
  BY DEF InitFails
<1> HIDE DEF ops
<1>4. local' \in [Tasks -> Call] /\ \A u \in Tasks \ {t} : local'[u] = local[u]
  BY <1>3, ResultIsTyped
<1>5. agenda[t][1].op \notin WireOps \cup Decisive \cup {"unlockHal"}
  BY <1>1 DEF WireOps, Quitting, Decisive, Stops
<1>6. /\ PeriManTypeOK' /\ bus' \in [Ports -> BusPins] /\ Noted
      /\ UNCHANGED <<initialized, installed, lock, wire, said>>
  BY TheRestIsTyped DEF OnlyTheAgenda, Aside
<1> QED BY <1>1, <1>2, <1>3, <1>4, <1>5, <1>6, NeutralActionKeepsInv

LEMMA WantIsTyped ==
  ASSUME Inv, NEW t \in Tasks
  PROVE  /\ local[t].want.sda \in Pins \cup {NoPin} /\ local[t].want.scl \in Pins \cup {NoPin}
         /\ local[t].want \in BusPins
BY DEF Inv, Types, Call, BusPins

LEMMA InitStartKeepsInv ==
  ASSUME Inv, NEW t \in Tasks, InitStart(t), Aside
  PROVE  Inv'
<1>1. Does(t, "init") /\ unchangedHal /\ UNCHANGED <<pins, lock>>
  BY DEF InitStart
<1>2. ~Idle(t) /\ Now(t) = agenda[t][1] /\ Now(t).op = "init"
  BY <1>1, NowIsOperation
<1>3. CASE InitFails(t) /\ UNCHANGED deinit_functions
  BY <1>1, <1>3, InitFailsKeepsInv DEF OnlyTheAgenda, unchangedPeriMan
<1>4. CASE /\ deinit_functions' = [y \in OwnedTypes |->
                IF y \in DriverTypes THEN "driver" ELSE deinit_functions[y]]
           /\ Becomes(t, <<ClearPin(local[t].want.sda), For("clearScl", Now(t).b)>>)
           /\ UNCHANGED local
  <2> DEFINE first == ClearPin(local[t].want.sda)
             ops == <<first, For("clearScl", Now(t).b)>>
  <2>1. first \in Operation /\ first.op \in PinOps
    BY PinOpIsOperation, WantIsTyped DEF ClearPin, PinOps, BusTypes
  <2> HIDE DEF first
  <2>2. /\ ops \in Seq(Operation) /\ Fits(agenda[t], ops)
        /\ \A i \in 1 .. Len(ops) : ops[i].op # "onTheBus"
    BY <1>1, <2>1, PinFirstFits DEF InitOps, HalOps
  <2>3. Becomes(t, ops)
    BY <1>4 DEF first
  <2> HIDE DEF ops
  <2>4. agenda[t][1].op \notin WireOps \cup Decisive \cup {"unlockHal"}
    BY <1>2 DEF WireOps, Quitting, Decisive, Stops
  <2>5. PeriManTypeOK'
    BY <1>1, <1>4, TheRestIsTyped DEF PeriManTypeOK
  <2>6. /\ bus' \in [Ports -> BusPins] /\ Noted /\ local' \in [Tasks -> Call]
        /\ UNCHANGED <<initialized, installed, lock, wire, said>> /\ local' = local
    BY <1>1, <1>4, TheRestIsTyped DEF Aside
  <2> QED BY <1>2, <2>2, <2>3, <2>4, <2>5, <2>6, NeutralActionKeepsInv
<1> QED BY <1>3, <1>4 DEF InitStart

LEMMA ClearSclKeepsInv ==
  ASSUME Inv, NEW t \in Tasks, ClearScl(t), Aside
  PROVE  Inv'
<1>1. Does(t, "clearScl") /\ OnlyTheAgenda
  BY DEF ClearScl
<1>2. ~Idle(t) /\ Now(t) = agenda[t][1] /\ Now(t).op = "clearScl"
  BY <1>1, NowIsOperation
<1>3. CASE InitFails(t)
  BY <1>1, <1>3, InitFailsKeepsInv
<1>4. CASE /\ Becomes(t, <<ClearPin(local[t].want.scl), For("install", Now(t).b)>>)
           /\ UNCHANGED local
  <2> DEFINE first == ClearPin(local[t].want.scl)
             ops == <<first, For("install", Now(t).b)>>
  <2>1. first \in Operation /\ first.op \in PinOps
    BY PinOpIsOperation, WantIsTyped DEF ClearPin, PinOps, BusTypes
  <2> HIDE DEF first
  <2>2. /\ ops \in Seq(Operation) /\ Fits(agenda[t], ops)
        /\ \A i \in 1 .. Len(ops) : ops[i].op # "onTheBus"
    BY <1>1, <2>1, PinFirstFits DEF InitOps, HalOps
  <2>3. Becomes(t, ops)
    BY <1>4 DEF first
  <2> HIDE DEF ops
  <2>4. agenda[t][1].op \notin WireOps \cup Decisive \cup {"unlockHal"}
    BY <1>2 DEF WireOps, Quitting, Decisive, Stops
  <2>6. /\ bus' \in [Ports -> BusPins] /\ Noted /\ local' \in [Tasks -> Call]
        /\ UNCHANGED <<initialized, installed, lock, wire, said>> /\ local' = local
        /\ PeriManTypeOK'
    BY <1>1, <1>4, TheRestIsTyped DEF Aside, OnlyTheAgenda
  <2> QED BY <1>2, <2>2, <2>3, <2>4, <2>6, NeutralActionKeepsInv
<1> QED BY <1>3, <1>4 DEF ClearScl

LEMMA NotInstalledKeepsInv ==
  ASSUME Inv, NEW t \in Tasks, NotInstalled(t), Aside
  PROVE  Inv'
BY InitFailsKeepsInv DEF NotInstalled

LEMMA ForgetPinsKeepsInv ==
  ASSUME Inv, NEW t \in Tasks, ForgetPins(t), Aside
  PROVE  Inv'
<1> DEFINE ops == <<For("unlockHal", Now(t).b)>>
<1>1. /\ Does(t, "forget") /\ Becomes(t, ops) /\ Result(t, TRUE) /\ unchangedPeriMan
      /\ UNCHANGED <<initialized, installed, lock>>
  BY DEF ForgetPins
<1>2. ~Idle(t) /\ Now(t) = agenda[t][1] /\ Now(t).op = "forget"
  BY <1>1, NowIsOperation
<1>3. /\ ops \in Seq(Operation) /\ Fits(agenda[t], ops)
      /\ \A i \in 1 .. Len(ops) : ops[i].op # "onTheBus"
  BY <1>1, UnlockingFits DEF HalOps
<1> HIDE DEF ops
<1>4. local' \in [Tasks -> Call] /\ \A u \in Tasks \ {t} : local'[u] = local[u]
  BY <1>1, ResultIsTyped
<1>5. agenda[t][1].op \notin WireOps \cup Decisive \cup {"unlockHal"}
  BY <1>2 DEF WireOps, Quitting, Decisive, Stops
<1>6. bus' \in [Ports -> BusPins]
  <2>1. bus' = [bus EXCEPT ![Now(t).b] = NotStarted] /\ bus \in [Ports -> BusPins]
    BY TheRestIsTyped DEF ForgetPins
  <2>2. NotStarted \in BusPins
    BY DEF NotStarted, BusPins
  <2> QED BY <2>1, <2>2
<1>7. /\ PeriManTypeOK' /\ Noted
      /\ UNCHANGED <<initialized, installed, lock, wire, said>>
  BY <1>1, TheRestIsTyped DEF Aside
<1> QED BY <1>1, <1>2, <1>3, <1>4, <1>5, <1>6, <1>7, NeutralActionKeepsInv

LEMMA EndTransferKeepsInv ==
  ASSUME Inv, NEW t \in Tasks, EndTransfer(t), Aside
  PROVE  Inv'
<1> DEFINE ops == <<For("unlockHal", Now(t).b)>>
<1>1. /\ Does(t, "onTheBus") /\ Becomes(t, ops) /\ OnlyTheAgenda
      /\ \E acknowledged \in BOOLEAN : Result(t, acknowledged)
  BY DEF EndTransfer
<1>2. ~Idle(t) /\ Now(t) = agenda[t][1] /\ Now(t).op = "onTheBus"
  BY <1>1, NowIsOperation
<1>3. /\ ops \in Seq(Operation) /\ Fits(agenda[t], ops)
      /\ \A i \in 1 .. Len(ops) : ops[i].op # "onTheBus"
  BY <1>1, UnlockingFits DEF HalOps
<1> HIDE DEF ops
<1>4. local' \in [Tasks -> Call] /\ \A u \in Tasks \ {t} : local'[u] = local[u]
  BY <1>1, ResultIsTyped
<1>5. agenda[t][1].op \notin WireOps \cup Decisive \cup {"unlockHal"}
  BY <1>2 DEF WireOps, Quitting, Decisive, Stops
<1>6. /\ PeriManTypeOK' /\ Noted /\ bus' \in [Ports -> BusPins]
      /\ UNCHANGED <<initialized, installed, lock, wire, said>>
  BY <1>1, TheRestIsTyped DEF Aside, OnlyTheAgenda
<1> QED BY <1>1, <1>2, <1>3, <1>4, <1>5, <1>6, NeutralActionKeepsInv

LEMMA DoneFits ==
  ASSUME Inv, NEW t \in Tasks, NEW what, what \notin {"lockHal", "lockWire"}, Does(t,
         what), Done(t)
  PROVE  /\ <<>> \in Seq(Operation) /\ Becomes(t, <<>>) /\ Fits(agenda[t], <<>>)
         /\ \A i \in 1 .. Len(<<>>) : <<>>[i].op # "onTheBus"
<1>1. agenda[t][1].op \notin {"lockHal", "lockWire"}
  BY NowIsOperation
<1> QED BY <1>1, NoneFits DEF Done

LEMMA AssignPinKeepsInv ==
  ASSUME Inv, NEW t \in Tasks, AssignPin(t), Aside
  PROVE  Inv'
<1>1. /\ Does(t, "assign") /\ Done(t) /\ unchangedHal
      /\ UNCHANGED <<deinit_functions, lock, local>>
  BY DEF AssignPin
<1>2. ~Idle(t) /\ Now(t) = agenda[t][1] /\ Now(t).op = "assign" /\ Now(t) \in Operation
  BY <1>1, NowIsOperation
<1>3. /\ <<>> \in Seq(Operation) /\ Becomes(t, <<>>) /\ Fits(agenda[t], <<>>)
      /\ \A i \in 1 .. Len(<<>>) : <<>>[i].op # "onTheBus"
  BY <1>1, DoneFits
<1>4. agenda[t][1].op \notin WireOps \cup Decisive \cup {"unlockHal"}
  BY <1>2 DEF WireOps, Quitting, Decisive, Stops
<1>5. PeriManTypeOK'
  <2>1. PeriManTypeOK /\ deinit_functions' = deinit_functions
    BY <1>1, TheRestIsTyped
  <2>2. CASE Assign(Now(t).pin, Now(t).role, Now(t).b)
    <3>1. [type |-> Now(t).role, bus |-> Now(t).b, extra |-> NULL]
            \in [type : BusTypes, bus : Buses \cup {NULL}, extra : Extras]
      BY <1>2 DEF Operation, Extras
    <3> QED BY <2>1, <2>2, <3>1 DEF PeriManTypeOK, Assign
  <2>3. CASE UNCHANGED pins
    BY <2>1, <2>3 DEF PeriManTypeOK
  <2> QED BY <2>2, <2>3 DEF AssignPin
<1>6. /\ Noted /\ bus' \in [Ports -> BusPins] /\ local' \in [Tasks -> Call]
      /\ UNCHANGED <<initialized, installed, lock, wire, said>> /\ local' = local
  BY <1>1, TheRestIsTyped DEF Aside
<1> QED BY <1>2, <1>3, <1>4, <1>5, <1>6, NeutralActionKeepsInv

LEMMA FailKeepsInv ==
  ASSUME Inv, NEW t \in Tasks, Fail(t), Aside
  PROVE  Inv'
<1>1. Does(t, "fail") /\ Done(t) /\ Result(t, FALSE) /\ OnlyTheAgenda
  BY DEF Fail
<1>2. ~Idle(t) /\ Now(t) = agenda[t][1] /\ Now(t).op = "fail"
  BY <1>1, NowIsOperation
<1>3. /\ <<>> \in Seq(Operation) /\ Becomes(t, <<>>) /\ Fits(agenda[t], <<>>)
      /\ \A i \in 1 .. Len(<<>>) : <<>>[i].op # "onTheBus"
  BY <1>1, DoneFits
<1>4. agenda[t][1].op \notin WireOps \cup Decisive \cup {"unlockHal"}
  BY <1>2 DEF WireOps, Quitting, Decisive, Stops
<1>5. local' \in [Tasks -> Call] /\ \A u \in Tasks \ {t} : local'[u] = local[u]
  BY <1>1, ResultIsTyped
<1>6. /\ Noted /\ bus' \in [Ports -> BusPins] /\ PeriManTypeOK'
      /\ UNCHANGED <<initialized, installed, lock, wire, said>>
  BY <1>1, TheRestIsTyped DEF Aside, OnlyTheAgenda
<1> QED BY <1>2, <1>3, <1>4, <1>5, <1>6, NeutralActionKeepsInv

LEMMA ClaimClearedKeepsInv ==
  ASSUME Inv, NEW t \in Tasks, ClaimCleared(t), Aside
  PROVE  Inv'
<1> DEFINE a == SetPin(Now(t).pin, "GPIO", Gpio)
<1>1. Does(t, "gpio") /\ OnlyTheAgenda /\ Result(t, TRUE)
  BY DEF ClaimCleared
<1>2. /\ ~Idle(t) /\ Now(t) = agenda[t][1] /\ Now(t).op = "gpio" /\ Now(t) \in Operation
      /\ After(agenda[t], 1).op # "lockWire"
  BY <1>1, NowIsOperation
<1>3. agenda[t][1].op \notin WireOps \cup Decisive \cup {"unlockHal", "lockHal", "lockWire"}
  BY <1>2 DEF WireOps, Quitting, Decisive, Stops
<1>4. /\ Noted /\ bus' \in [Ports -> BusPins] /\ PeriManTypeOK'
      /\ UNCHANGED <<initialized, installed, lock, wire, said>>
      /\ local' \in [Tasks -> Call] /\ \A u \in Tasks \ {t} : local'[u] = local[u]
  BY <1>1, TheRestIsTyped, ResultIsTyped DEF Aside, OnlyTheAgenda
<1>5. CASE Becomes(t, <<>>)
  <2>1. /\ <<>> \in Seq(Operation) /\ Fits(agenda[t], <<>>)
        /\ \A i \in 1 .. Len(<<>>) : <<>>[i].op # "onTheBus"
    BY <1>1, <1>5, DoneFits DEF Done
  <2> QED BY <1>2, <1>3, <1>4, <1>5, <2>1, NeutralActionKeepsInv
<1>6. CASE Becomes(t, <<a>>)
  <2>1. a \in Operation /\ a.op = "setBus"
    <3>1. Now(t).pin \in Pins \cup {NoPin}
      BY <1>2 DEF Operation
    <3>2. Gpio \in Buses \cup {NULL} /\ "GPIO" \in BusTypes /\ "setBus" \in PinOps
      BY I2cAssumption DEF BusTypes, OwnedTypes, PinOps
    <3> QED BY <3>1, <3>2, PinOpIsOperation DEF SetPin
  <2> HIDE DEF a
  <2>2. Stays(agenda[t], a) /\ May(agenda[t], a) /\ Follows(a, After(agenda[t], 1))
    BY <1>2, <2>1 DEF Stays, May, Follows, WireOps, Quitting, HalOps, LastOps, InitOps
  <2>3. Fits(agenda[t], <<a>>)
    BY <1>3, <2>1, <2>2, OneFits
  <2>4. <<a>> \in Seq(Operation) /\ \A i \in 1 .. Len(<<a>>) : <<a>>[i].op # "onTheBus"
    BY <2>1
  <2> QED BY <1>2, <1>3, <1>4, <1>6, <2>3, <2>4, NeutralActionKeepsInv
<1> QED BY <1>5, <1>6 DEF ClaimCleared

-----------------------------------------------------------------------------
(* A port's lock is held by the task that works inside it, and by no other. *)
LEMMA OneInside ==
  ASSUME Inv, NEW t \in Tasks, NEW what \in HalOps, Does(t, what),
         NEW u \in Tasks, NEW some \in SUBSET (HalOps \ Locked), Has(u, some, Now(t).b)
  PROVE  u = t /\ what \in some
<1> DEFINE b == Now(t).b
<1>1. /\ Now(t) = agenda[t][1] /\ Now(t).op = what /\ Len(agenda[t]) \in Nat \ {0}
  BY NowIsOperation
<1>2. 1 \in 1 .. Len(agenda[t]) /\ Open(agenda[t], 1)
  BY <1>1 DEF Open
<1>3. lock[Hal(b)] = t
  BY <1>1, <1>2 DEF Inv, HalHeld
<1>4. PICK i \in 1 .. Len(agenda[u]) : agenda[u][i].op \in some /\ agenda[u][i].b = b
  BY DEF Has, HasIn
<1>5. Open(agenda[u], i)
  <2>1. agenda[u][i].op \in HalOps /\ agenda[u][i].op \notin Locked
    BY <1>4
  <2>2. ASSUME i > 1 PROVE agenda[u][i - 1].op # "lockHal"
    <3>1. i - 1 \in 1 .. Len(agenda[u]) /\ After(agenda[u], i - 1) = agenda[u][i]
      <4>1. agenda[u] \in Seq(Operation)
        BY DEF Inv, Types
      <4>2. PICK m \in Nat : m = Len(agenda[u])
        BY <4>1
      <4>3. i - 1 \in 1 .. m /\ i - 1 < m /\ (i - 1) + 1 = i
        BY <2>2, <4>2
      <4> QED BY <4>2, <4>3 DEF After
    <3>2. Follows(agenda[u][i - 1], agenda[u][i])
      BY <3>1 DEF Inv, Shape, InOrder
    <3> QED BY <2>1, <3>2 DEF Follows
  <2> QED BY <2>1, <2>2 DEF Open
<1>6. lock[Hal(b)] = u
  BY <1>4, <1>5 DEF Inv, HalHeld
<1>7. u = t
  BY <1>3, <1>6
<1>8. i = 1
  BY <1>1, <1>2, <1>4, <1>5, <1>7 DEF Inv, Shape, OpenOnce
<1> QED BY <1>1, <1>4, <1>7, <1>8

(* A port that is started has its driver, but for the task that stops it.   *)
LEMMA InsideIsInstalled ==
  ASSUME Inv, NEW t \in Tasks, NEW what \in HalOps \ {"uninitialize"}, Does(t, what),
         Now(t).b \in initialized
  PROVE  Now(t).b \in installed
<1>1. ASSUME Now(t).b \notin installed PROVE FALSE
  <2>1. PICK u \in Tasks : Has(u, {"uninitialize"}, Now(t).b)
    BY <1>1 DEF Inv, Drivers
  <2>2. {"uninitialize"} \in SUBSET (HalOps \ Locked)
    BY DEF HalOps, Locked
  <2> QED BY <2>1, <2>2, OneInside
<1> QED BY <1>1

LEMMA FittingActionKeepsInv ==
  ASSUME Inv, NEW t \in Tasks, NEW ops \in Seq(Operation), FittingStep(t, ops),
         Drivers', Buffers',
         initialized' \subseteq Ports, installed' \subseteq Ports,
         PeriManTypeOK', bus' \in [Ports -> BusPins], local' \in [Tasks -> Call],
         Noted
  PROVE  Inv'
<1>1. HalStep(t, ops) /\ lock' = lock /\ Fits(agenda[t], ops)
  BY DEF FittingStep
<1>2. lock' \in [Locks -> {"free"} \cup Tasks]
  BY <1>1 DEF Inv, Types, TypeOK, I2cTypeOK
<1>3. Types'
  BY <1>1, <1>2, HalStepKeepsTypes DEF BusPins
<1>4. Shape' /\ HalHeld' /\ WireHeld' /\ Waits' /\ Sayings' /\ Restarts'
  BY <1>1, FittingKeepsShape, FittingStepKeepsHalHeld, HalStepKeepsTheRest
<1> QED BY <1>3, <1>4 DEF Inv

(* i2cDetachBus() calls i2cDeinit() for a started port.                     *)
LEMMA DetachBusKeepsInv ==
  ASSUME Inv, NEW t \in Tasks, DetachBus(t), Aside
  PROVE  Inv'
<1> DEFINE b == Now(t).b
           q == agenda[t]
<1>1. Does(t, "detach") /\ OnlyTheAgenda
  BY DEF DetachBus
<1>2. /\ ~Idle(t) /\ Now(t) = q[1] /\ Now(t).op = "detach" /\ Now(t) \in Operation
      /\ After(q, 1).op # "lockWire"
  BY <1>1, NowIsOperation
<1>3. b \in Ports
  BY <1>2 DEF Operation, PinOps
<1>4. q[1].op \notin WireOps \cup {"lockHal", "lockWire", "unlockHal", "begun", "uninitialize"}
  BY <1>2 DEF WireOps, Quitting
<1>5. /\ Noted /\ bus' \in [Ports -> BusPins] /\ PeriManTypeOK'
      /\ UNCHANGED <<initialized, installed, lock, wire, said>>
      /\ initialized' \subseteq Ports /\ installed' \subseteq Ports
      /\ local \in [Tasks -> Call]
  BY <1>1, TheRestIsTyped DEF Aside, OnlyTheAgenda
<1>6. ~Started(t)
  BY <1>2, BusyIsNotStarted
<1>7. CASE b \in initialized /\ Becomes(t, Deinit(b)) /\ UNCHANGED local
  <2> DEFINE first == For("lockHal", b)
             second == For("deinit", b)
             ops == <<first, second>>
  <2>1. /\ first \in Operation /\ first.op = "lockHal" /\ first.b = b
        /\ second \in Operation /\ second.op = "deinit" /\ second.b = b
    BY <1>3, ForIsOperation DEF OpNames, HalOps
  <2>2. Becomes(t, ops)
    BY <1>7 DEF Deinit
  <2> HIDE DEF first, second
  <2>3. Stays(q, first) /\ May(q, first) /\ Stays(q, second)
    BY <2>1 DEF Stays, May, HalOps, WireOps, Quitting
  <2>4. Follows(first, second)
    BY <2>1 DEF Follows, LastOps, InitOps, Locked
  <2>5. Follows(second, After(q, 1))
    BY <1>2, <2>1 DEF Follows, LastOps, InitOps
  <2>6. Fits(q, ops)
    BY <1>4, <2>1, <2>3, <2>4, <2>5, TwoFit
  <2>7. ops \in Seq(Operation) /\ \A i \in 1 .. Len(ops) : ops[i].op # "onTheBus"
    BY <2>1
  <2>8. HasIn(ops, Stops, b)
    BY <2>1 DEF HasIn, Stops
  <2> HIDE DEF ops
  <2>9. FittingStep(t, ops) /\ HalStep(t, ops)
    BY <1>2, <1>4, <1>5, <2>2, <2>6, <2>7, FittingMakesFittingStep
  <2>10. Drivers'
    BY <1>4, <1>5, <2>7, <2>9, NeutralStepKeepsDrivers
  <2>11. q[1].op = "detach" /\ q[1].b = b /\ "detach" \notin {"setScl", "registered"}
    BY <1>2
  <2>12. \A u \in Tasks \ {t} : local'[u] = local[u]
    BY <1>7
  <2>13. Buffers'
    BY <1>5, <1>6, <2>8, <2>9, <2>11, <2>12, StepKeepsBuffers DEF StillStops, StillStarts
  <2> QED BY <1>5, <1>7, <2>7, <2>9, <2>10, <2>13, FittingActionKeepsInv
<1>8. CASE b \notin initialized /\ Done(t) /\ Result(t, TRUE)
  <2>1. /\ <<>> \in Seq(Operation) /\ Becomes(t, <<>>) /\ Fits(q, <<>>)
        /\ \A i \in 1 .. Len(<<>>) : <<>>[i].op # "onTheBus"
    BY <1>1, <1>8, DoneFits
  <2>2. local' \in [Tasks -> Call] /\ \A u \in Tasks \ {t} : local'[u] = local[u]
    BY <1>8, ResultIsTyped
  <2>3. FittingStep(t, <<>>) /\ HalStep(t, <<>>)
    BY <1>2, <1>4, <1>5, <2>1, FittingMakesFittingStep
  <2>4. Drivers'
    BY <1>4, <1>5, <2>1, <2>3, NeutralStepKeepsDrivers
  <2>5. Buffers'
    BY <1>2, <1>5, <1>6, <1>8, <2>2, <2>3, StepKeepsBuffers DEF StillStops, StillStarts
  <2> QED BY <1>5, <2>1, <2>2, <2>3, <2>4, <2>5, FittingActionKeepsInv
<1> QED BY <1>7, <1>8 DEF DetachBus

LEMMA HasAfter ==
  ASSUME Inv, NEW t \in Tasks, NEW ops, HalStep(t, ops), NEW what, NEW b
  PROVE  /\ \A u \in Tasks \ {t} : Has(u, what, b)' <=> Has(u, what, b)
         /\ Has(t, what, b)' => HasIn(ops, what, b) \/ Has(t, what, b)
         /\ HasIn(ops, what, b) => Has(t, what, b)'
         /\ Has(t, what, b) /\ (agenda[t][1].op \notin what \/ agenda[t][1].b # b)
              => Has(t, what, b)'
<1>1. /\ Replaced(agenda[t], ops, agenda'[t])
      /\ \A u \in Tasks \ {t} : agenda'[u] = agenda[u]
  BY HalStepReplaces
<1> QED BY <1>1, HasInNew, HasInOld, HasInAdded DEF Has

(* i2cDeinit(): the driver goes while nobody else is inside the port.       *)
LEMMA DeleteDriverKeepsInv ==
  ASSUME Inv, NEW t \in Tasks, DeleteDriver(t), Aside
  PROVE  Inv'
<1> DEFINE b == Now(t).b
           q == agenda[t]
<1>1. Does(t, "deinit") /\ unchangedPeriMan /\ UNCHANGED <<initialized, bus, lock>>
  BY DEF DeleteDriver
<1>2. /\ ~Idle(t) /\ Now(t) = q[1] /\ Now(t).op = "deinit" /\ Now(t) \in Operation
      /\ After(q, 1).op # "lockWire"
  BY <1>1, NowIsOperation
<1>3. b \in Ports /\ "deinit" \in HalOps
  BY <1>2 DEF Operation, PinOps, HalOps
<1>4. q[1].op \notin WireOps \cup {"lockHal", "lockWire", "unlockHal", "begun", "uninitialize"}
  BY <1>2 DEF WireOps, Quitting
<1>5. /\ Noted /\ bus' \in [Ports -> BusPins] /\ PeriManTypeOK'
      /\ UNCHANGED <<initialized, lock, wire, said>>
      /\ initialized' \subseteq Ports /\ installed \subseteq Ports
      /\ local \in [Tasks -> Call]
  BY <1>1, TheRestIsTyped DEF Aside
<1>6. ~Started(t)
  BY <1>2, BusyIsNotStarted
<1>7. CASE /\ b \in initialized /\ installed' = installed \ {b}
           /\ Becomes(t, <<For("uninitialize", b)>>) /\ UNCHANGED local
  <2> DEFINE a == For("uninitialize", b)
             ops == <<a>>
  <2>1. a \in Operation /\ a.op = "uninitialize" /\ a.b = b
    BY <1>3, ForIsOperation DEF OpNames, HalOps
  <2> HIDE DEF a
  <2>2. Stays(q, a) /\ May(q, a) /\ Follows(a, After(q, 1))
    BY <1>2, <2>1 DEF Stays, May, Follows, HalOps, WireOps, Quitting, LastOps, InitOps
  <2>3. Fits(q, ops)
    BY <1>4, <2>1, <2>2, OneFits
  <2>4. /\ ops \in Seq(Operation) /\ HasIn(ops, Stops, b) /\ HasIn(ops, {"uninitialize"}, b)
        /\ \A c : ~HasIn(ops, {"onTheBus"}, c)
    BY <2>1 DEF HasIn, Stops
  <2>5. Becomes(t, ops)
    BY <1>7 DEF a
  <2> HIDE DEF ops
  <2>6. FittingStep(t, ops) /\ HalStep(t, ops)
    BY <1>2, <1>4, <1>5, <2>3, <2>4, <2>5, FittingMakesFittingStep
  <2>7. Drivers'
    <3>1. ASSUME NEW u \in Tasks, NEW c \in Ports, Has(u, {"onTheBus"}, c)'
          PROVE  c \in initialized' \cap installed'
      <4>1. Has(u, {"onTheBus"}, c)
        BY <2>4, <2>6, <3>1, HasAfter
      <4>2. {"onTheBus"} \in SUBSET (HalOps \ Locked)
        BY DEF HalOps, Locked
      <4>3. c # b
        BY <1>1, <1>3, <4>1, <4>2, OneInside
      <4> QED BY <1>5, <1>7, <4>1, <4>3 DEF Inv, Drivers
    <3>2. ASSUME NEW c \in initialized' \ installed'
          PROVE  \E u \in Tasks : Has(u, {"uninitialize"}, c)'
      <4>1. CASE c = b
        BY <2>4, <2>6, <4>1, HasAfter
      <4>2. CASE c # b
        <5>1. c \in initialized \ installed
          BY <1>5, <1>7, <3>2, <4>2
        <5>2. PICK u \in Tasks : Has(u, {"uninitialize"}, c)
          BY <5>1 DEF Inv, Drivers
        <5> QED BY <1>4, <2>6, <5>2, HasAfter
      <4> QED BY <4>1, <4>2
    <3> QED BY <3>1, <3>2 DEF Drivers
  <2>8. q[1].op = "deinit" /\ q[1].b = b /\ "deinit" \notin {"setScl", "registered"}
    BY <1>2
  <2>9. \A u \in Tasks \ {t} : local'[u] = local[u]
    BY <1>7
  <2>10. Buffers'
    BY <1>5, <1>6, <2>4, <2>6, <2>8, <2>9, StepKeepsBuffers DEF StillStops, StillStarts
  <2>11. installed' \subseteq Ports
    BY <1>5, <1>7
  <2> QED BY <1>5, <1>7, <2>4, <2>6, <2>7, <2>10, <2>11, FittingActionKeepsInv
<1>8. CASE /\ b \notin initialized /\ Becomes(t, <<For("unlockHal", b)>>) /\ Result(t, FALSE)
           /\ UNCHANGED installed
  <2> DEFINE ops == <<For("unlockHal", b)>>
  <2>1. /\ ops \in Seq(Operation) /\ Fits(q, ops) /\ \A i \in 1 .. Len(ops) : ops[i].op # "onTheBus"
    BY <1>1, UnlockingFits DEF HalOps
  <2>2. Becomes(t, ops)
    BY <1>8
  <2> HIDE DEF ops
  <2>3. FittingStep(t, ops) /\ HalStep(t, ops)
    BY <1>2, <1>4, <1>5, <2>1, <2>2, FittingMakesFittingStep
  <2>4. local' \in [Tasks -> Call] /\ \A u \in Tasks \ {t} : local'[u] = local[u]
    BY <1>8, ResultIsTyped
  <2>5. Drivers'
    BY <1>4, <1>5, <1>8, <2>1, <2>3, NeutralStepKeepsDrivers
  <2>6. Buffers'
    BY <1>2, <1>5, <1>6, <1>8, <2>3, <2>4, StepKeepsBuffers DEF StillStops, StillStarts
  <2>7. installed' \subseteq Ports
    BY <1>5, <1>8
  <2> QED BY <1>5, <2>1, <2>3, <2>4, <2>5, <2>6, <2>7, FittingActionKeepsInv
<1> QED BY <1>7, <1>8 DEF DeleteDriver

(* The driver is not deleted: who was undoing a begin(), or ending the      *)
(* port, leaves it half done.                                               *)
LEMMA DeleteFailsKeepsInv ==
  ASSUME Inv, NEW t \in Tasks, DeleteFails(t), Aside, Recorded(t)
  PROVE  Inv'
<1> DEFINE b == Now(t).b
           q == agenda[t]
           ops == <<For("unlockHal", b)>>
<1>1. /\ Does(t, "deinit") /\ OnlyTheAgenda /\ b \in initialized
      /\ Becomes(t, ops) /\ Result(t, FALSE)
  BY DEF DeleteFails
<1>2. /\ ~Idle(t) /\ Now(t) = q[1] /\ Now(t).op = "deinit" /\ Now(t) \in Operation
      /\ After(q, 1).op # "lockWire"
  BY <1>1, NowIsOperation
<1>3. q[1].op \notin WireOps \cup {"lockHal", "lockWire", "unlockHal", "begun", "uninitialize"}
  BY <1>2 DEF WireOps, Quitting
<1>4. /\ Noted /\ bus' \in [Ports -> BusPins] /\ PeriManTypeOK'
      /\ UNCHANGED <<initialized, installed, lock, wire, said>>
      /\ initialized' \subseteq Ports /\ installed' \subseteq Ports
  BY <1>1, TheRestIsTyped DEF Aside, OnlyTheAgenda
<1>5. /\ ops \in Seq(Operation) /\ Fits(q, ops) /\ \A i \in 1 .. Len(ops) : ops[i].op # "onTheBus"
  BY <1>1, UnlockingFits DEF HalOps
<1> HIDE DEF ops
<1>6. FittingStep(t, ops) /\ HalStep(t, ops)
  BY <1>1, <1>2, <1>3, <1>4, <1>5, FittingMakesFittingStep
<1>7. local' \in [Tasks -> Call] /\ \A u \in Tasks \ {t} : local'[u] = local[u]
  BY <1>1, ResultIsTyped
<1>8. Drivers'
  BY <1>3, <1>4, <1>5, <1>6, NeutralStepKeepsDrivers
<1>9. ~Started(t)
  BY <1>2, BusyIsNotStarted
<1>10. StillStops(t, ops, b)
  <2>1. NotDeleted(t, b) /\ b \in initialized'
    BY <1>1, <1>4 DEF NotDeleted
  <2>2. Has(t, {"fail"}, b) => Undoes(t, b)
    BY DEF Has, HasIn, Undoes
  <2>3. Has(t, {"free"}, b) => Frees(t, b)
    BY DEF Has, HasIn, Frees
  <2> QED BY <2>1, <2>2, <2>3 DEF StillStops, Recorded
<1>11. q[1].op = "deinit" /\ q[1].b = b /\ "deinit" \notin {"setScl", "registered"}
  BY <1>2
<1>12. Buffers'
  BY <1>4, <1>6, <1>7, <1>9, <1>10, <1>11, StepKeepsBuffers
<1> QED BY <1>4, <1>5, <1>6, <1>7, <1>8, <1>12, FittingActionKeepsInv

LEMMA UninitializeKeepsInv ==
  ASSUME Inv, NEW t \in Tasks, Uninitialize(t), Aside
  PROVE  Inv'
<1> DEFINE b == Now(t).b
           q == agenda[t]
           first == ClearPin(bus[b].scl)
           second == ClearPin(bus[b].sda)
           third == For("forget", b)
           ops == <<first, second, third>>
<1>1. /\ Does(t, "uninitialize") /\ Becomes(t, ops) /\ initialized' = initialized \ {b}
      /\ unchangedPeriMan /\ UNCHANGED <<installed, bus, lock, local>>
  BY DEF Uninitialize
<1>2. /\ ~Idle(t) /\ Now(t) = q[1] /\ Now(t).op = "uninitialize" /\ Now(t) \in Operation
      /\ After(q, 1).op # "lockWire"
  BY <1>1, NowIsOperation
<1>3. b \in Ports /\ "uninitialize" \in HalOps
  BY <1>2 DEF Operation, PinOps, HalOps
<1>4. q[1].op \notin WireOps \cup {"lockHal", "lockWire", "unlockHal", "begun"}
  BY <1>2 DEF WireOps, Quitting
<1>5. /\ Noted /\ bus' \in [Ports -> BusPins] /\ PeriManTypeOK'
      /\ UNCHANGED <<installed, lock, wire, said>>
      /\ initialized' \subseteq Ports /\ installed' \subseteq Ports
      /\ local' \in [Tasks -> Call] /\ initialized' \subseteq initialized
      /\ bus \in [Ports -> BusPins]
  BY <1>1, TheRestIsTyped DEF Aside
<1>6. ~Started(t)
  BY <1>2, BusyIsNotStarted
<1>7. /\ first \in Operation /\ first.op = "setBus"
      /\ second \in Operation /\ second.op = "setBus"
      /\ third \in Operation /\ third.op = "forget" /\ third.b = b
  <2>1. bus[b].scl \in Pins \cup {NoPin} /\ bus[b].sda \in Pins \cup {NoPin}
    BY <1>3, <1>5 DEF BusPins
  <2>2. "setBus" \in PinOps /\ "INIT" \in BusTypes
    BY DEF PinOps, BusTypes
  <2>3. third \in Operation /\ third.op = "forget" /\ third.b = b
    BY <1>3, ForIsOperation DEF OpNames, HalOps
  <2> QED BY <2>1, <2>2, <2>3, PinOpIsOperation DEF ClearPin
<1> HIDE DEF first, second, third
<1>8. /\ ops \in Seq(Operation) /\ \A c : ~HasIn(ops, {"onTheBus"}, c)
  BY <1>7 DEF HasIn
<1>9. Fits(q, ops)
  <2>1. Stays(q, first) /\ Stays(q, second) /\ Stays(q, third) /\ May(q, third)
    BY <1>2, <1>7 DEF Stays, May, HalOps, WireOps, Quitting
  <2>2. Follows(first, second) /\ Follows(second, third) /\ Follows(third, After(q, 1))
    BY <1>2, <1>7 DEF Follows, LastOps, InitOps
  <2>3. first.op \notin HalOps /\ second.op \notin HalOps /\ third.op # "lockHal"
    BY <1>7 DEF HalOps
  <2> QED BY <1>4, <2>1, <2>2, <2>3, ThreeFit
<1> HIDE DEF ops
<1>10. FittingStep(t, ops) /\ HalStep(t, ops)
  BY <1>1, <1>2, <1>4, <1>5, <1>8, <1>9, FittingMakesFittingStep
<1>11. Drivers'
  <2>1. ASSUME NEW u \in Tasks, NEW c \in Ports, Has(u, {"onTheBus"}, c)'
        PROVE  c \in initialized' \cap installed'
    <3>1. Has(u, {"onTheBus"}, c)
      BY <1>8, <1>10, <2>1, HasAfter
    <3>2. {"onTheBus"} \in SUBSET (HalOps \ Locked)
      BY DEF HalOps, Locked
    <3>3. c # b
      BY <1>1, <1>3, <3>1, <3>2, OneInside
    <3> QED BY <1>1, <3>1, <3>3 DEF Inv, Drivers
  <2>2. ASSUME NEW c \in initialized' \ installed'
        PROVE  \E u \in Tasks : Has(u, {"uninitialize"}, c)'
    <3>1. c \in initialized \ installed /\ c # b
      BY <1>1, <2>2
    <3>2. PICK u \in Tasks : Has(u, {"uninitialize"}, c)
      BY <3>1 DEF Inv, Drivers
    <3> QED BY <1>2, <1>10, <3>1, <3>2, HasAfter
  <2> QED BY <2>1, <2>2 DEF Drivers
<1>12. q[1].op = "uninitialize" /\ q[1].b = b /\ b \notin initialized'
  BY <1>1, <1>2
<1>13. \A u \in Tasks \ {t} : local'[u] = local[u]
  BY <1>1
<1>14. Buffers'
  BY <1>5, <1>6, <1>10, <1>12, <1>13, StepKeepsBuffers DEF StillStops, StillStarts
<1> QED BY <1>5, <1>8, <1>10, <1>11, <1>14, FittingActionKeepsInv

(* Only the holder of a Wire object starts its port.                        *)
LEMMA OnlyTheHolderBegins ==
  ASSUME Inv, NEW t \in Tasks, NEW what \in InitOps, Does(t, what)
  PROVE  /\ Has(t, {"begun"}, Now(t).b) /\ ~Has(t, {"free"}, Now(t).b)
         /\ \A u \in Tasks \ {t} : /\ ~Has(u, {"begun"}, Now(t).b)
                                   /\ Has(u, {"free"}, Now(t).b) => Has(u, {"end"}, Now(t).b)
<1> DEFINE b == Now(t).b
           q == agenda[t]
<1>1. Len(q) = 2 /\ q[2] = For("begun", b)
  BY BegunIsNext
<1>2. /\ Now(t) = q[1] /\ Now(t).op = what /\ Now(t) \in Operation
  BY NowIsOperation
<1>3. b \in Ports
  BY <1>2 DEF Operation, PinOps, InitOps
<1>4. For("begun", b).op = "begun" /\ For("begun", b).b = b
  BY DEF For, Op
<1>5. 1 \in 1 .. Len(q) /\ 2 \in 1 .. Len(q) /\ \A i \in 1 .. Len(q) : i = 1 \/ i = 2
  BY <1>1
<1>6. Has(t, {"begun"}, b) /\ Has(t, WireOps, b)
  BY <1>1, <1>4, <1>5 DEF Has, HasIn, WireOps, Quitting
<1>7. ~Has(t, {"free"}, b)
  BY <1>1, <1>2, <1>4, <1>5 DEF Has, HasIn, InitOps
<1>8. ~Does(t, "lockWire")
  BY <1>2 DEF Does, InitOps
<1>9. lock[Wire(b)] = t
  BY <1>3, <1>6, <1>8 DEF Inv, WireHeld
<1>10. ASSUME NEW u \in Tasks \ {t}
       PROVE  ~Has(u, {"begun"}, b) /\ (Has(u, {"free"}, b) => Has(u, {"end"}, b))
  <2>1. CASE Does(u, "lockWire")
    <3>1. Waits /\ u \in Tasks
      BY DEF Inv
    <3> QED BY ONLY <1>3, <2>1, <3>1 DEF Waits
  <2>2. CASE ~Does(u, "lockWire")
    <3>1. ~Has(u, WireOps, b)
      BY <1>3, <1>9, <2>2 DEF Inv, WireHeld
    <3> QED BY <3>1 DEF Has, HasIn, WireOps, Quitting
  <2> QED BY <2>1, <2>2
<1> QED BY <1>6, <1>7, <1>10

LEMMA InstallKeepsInv ==
  ASSUME Inv, NEW t \in Tasks, Install(t), Aside
  PROVE  Inv'
<1> DEFINE b == Now(t).b
           q == agenda[t]
           first == SetPin(local[t].want.sda, "SDA", b)
           ops == <<first, For("setScl", b)>>
<1>1. /\ Does(t, "install") /\ Becomes(t, ops)
      /\ initialized' = initialized \cup {b} /\ installed' = installed \cup {b}
      /\ bus' = [bus EXCEPT ![b] = local[t].want]
      /\ unchangedPeriMan /\ UNCHANGED <<lock, local>>
  BY DEF Install
<1>2. ~Idle(t) /\ Now(t) = q[1] /\ Now(t).op = "install" /\ Now(t) \in Operation
  BY <1>1, NowIsOperation
<1>3. b \in Ports
  BY <1>2 DEF Operation, PinOps
<1>4. q[1].op \notin WireOps \cup {"lockHal", "lockWire", "uninitialize"} \cup Decisive
  BY <1>2 DEF WireOps, Quitting, Decisive, Stops
<1>5. /\ Noted /\ PeriManTypeOK' /\ local' \in [Tasks -> Call]
      /\ initialized' \subseteq Ports /\ installed' \subseteq Ports
      /\ UNCHANGED <<lock, wire, said>>
  BY <1>1, <1>3, TheRestIsTyped DEF Aside
<1>6. bus' \in [Ports -> BusPins]
  BY <1>1, TheRestIsTyped, WantIsTyped
<1>7. first \in Operation /\ first.op \in PinOps
  <2>1. "SDA" \in BusTypes /\ b \in Buses \cup {NULL} /\ "setBus" \in PinOps
    BY <1>3, I2cAssumption DEF BusTypes, OwnedTypes, PinOps
  <2> QED BY <2>1, WantIsTyped, PinOpIsOperation DEF SetPin
<1> HIDE DEF first
<1>8. /\ ops \in Seq(Operation) /\ Fits(q, ops)
      /\ \A i \in 1 .. Len(ops) : ops[i].op # "onTheBus"
  BY <1>1, <1>7, PinFirstFits DEF InitOps, HalOps
<1>9. HasIn(ops, {"setScl", "registered"}, b) /\ \A c : ~HasIn(ops, {"onTheBus"}, c)
  <2>1. For("setScl", b).op = "setScl" /\ For("setScl", b).b = b /\ ops[2] = For("setScl", b)
        /\ Len(ops) = 2
    BY DEF For, Op
  <2>2. 2 \in 1 .. Len(ops)
    BY <2>1
  <2> QED BY <1>8, <2>1, <2>2 DEF HasIn
<1> HIDE DEF ops
<1>10. FittingStep(t, ops) /\ HalStep(t, ops)
  BY <1>1, <1>2, <1>4, <1>5, <1>8, FittingMakesFittingStep
<1>11. Drivers'
  <2>1. ASSUME NEW u \in Tasks, NEW c \in Ports, Has(u, {"onTheBus"}, c)'
        PROVE  c \in initialized' \cap installed'
    <3>1. Has(u, {"onTheBus"}, c)
      BY <1>9, <1>10, <2>1, HasAfter
    <3> QED BY <1>1, <3>1 DEF Inv, Drivers
  <2>2. ASSUME NEW c \in initialized' \ installed'
        PROVE  \E u \in Tasks : Has(u, {"uninitialize"}, c)'
    <3>1. c \in initialized \ installed
      BY <1>1, <2>2
    <3>2. PICK u \in Tasks : Has(u, {"uninitialize"}, c)
      BY <3>1 DEF Inv, Drivers
    <3> QED BY <1>4, <1>10, <3>2, HasAfter
  <2> QED BY <2>1, <2>2 DEF Drivers
<1>12. Buffers'
  <2>1. /\ Has(t, {"begun"}, b) /\ ~Has(t, {"free"}, b)
        /\ \A u \in Tasks \ {t} : /\ ~Has(u, {"begun"}, b)
                                  /\ Has(u, {"free"}, b) => Has(u, {"end"}, b)
    BY <1>1, OnlyTheHolderBegins DEF InitOps
  <2>2. wire' = wire /\ wire[b].buffers
    BY <1>3, <1>5, <2>1 DEF Inv, Buffers
  <2>3. ASSUME NEW c \in initialized'
        PROVE  wire'[c].buffers \/ c \in halfStarted' \/ c \in halfEnded'
    <3>1. CASE c = b
      BY <2>2, <3>1
    <3>2. CASE c # b
      BY <1>1, <1>5, <2>2, <3>2 DEF Inv, Buffers, Noted
    <3> QED BY <3>1, <3>2
  <2>4. \A u \in Tasks : \A c : /\ Has(u, {"begun"}, c)' <=> Has(u, {"begun"}, c)
                                /\ Has(u, {"free"}, c)' <=> Has(u, {"free"}, c)
                                /\ Has(u, {"end"}, c)' <=> Has(u, {"end"}, c)
    <3>1. {{"begun"}, {"free"}, {"end"}} \subseteq SUBSET (WireOps \cup {"lockWire"})
      BY DEF WireOps, Quitting
    <3> QED BY <1>10, <3>1, HalStepKeepsWireOps
  <2>5. ASSUME NEW u \in Tasks, NEW c \in Ports, Has(u, {"begun"}, c)'
        PROVE  /\ wire'[c].buffers
               /\ c \in initialized' =>
                    \/ Started(u)' \/ Has(u, {"setScl", "registered"}, c)'
                    \/ Undoing(u, c)' \/ c \in halfStarted'
    <3>1. Has(u, {"begun"}, c)
      BY <2>4, <2>5
    <3>2. CASE c = b
      <4>1. u = t
        BY <2>1, <3>1, <3>2
      <4> QED BY <1>9, <1>10, <2>2, <3>2, <4>1, HasAfter
    <3>3. CASE c # b
      <4>1. u # t
        <5>1. Len(q) = 2 /\ q[2] = For("begun", b) /\ q[1].op # "begun"
          BY <1>1, <1>2, BegunIsNext DEF InitOps
        <5>2. For("begun", b).b = b
          BY DEF For, Op
        <5>3. \A i \in 1 .. Len(q) : i = 1 \/ i = 2
          BY <5>1
        <5> QED BY <3>1, <3>3, <5>1, <5>2, <5>3 DEF Has, HasIn
      <4>2. /\ wire[c].buffers
            /\ c \in initialized =>
                 \/ Started(u) \/ Has(u, {"setScl", "registered"}, c)
                 \/ Undoing(u, c) \/ c \in halfStarted
        BY <3>1 DEF Inv, Buffers
      <4>3. c \in initialized' => c \in initialized /\ (c \in halfStarted => c \in halfStarted')
        BY <1>1, <1>5, <3>3 DEF Noted
      <4>4. Started(u)' <=> Started(u)
        BY <1>1, <1>10, <4>1, HalStepReplaces DEF Started
      <4>5. /\ Has(u, {"setScl", "registered"}, c) => Has(u, {"setScl", "registered"}, c)'
            /\ Undoing(u, c) => Undoing(u, c)'
        BY <1>10, <4>1, HasAfter DEF Undoing
      <4> QED BY <2>2, <4>2, <4>3, <4>4, <4>5
    <3> QED BY <3>2, <3>3
  <2>6. ASSUME NEW u \in Tasks, NEW c \in initialized', Has(u, {"free"}, c)'
        PROVE  Has(u, Stops \cup {"end"}, c)' \/ c \in halfEnded'
    <3>1. Has(u, {"free"}, c)
      BY <2>4, <2>6
    <3>2. CASE c = b
      <4>1. Has(u, {"end"}, c)'
        BY <2>1, <2>4, <3>1, <3>2
      <4> QED BY <4>1 DEF Has, HasIn
    <3>3. CASE c # b
      <4>1. Has(u, Stops \cup {"end"}, c) \/ c \in halfEnded
        BY <1>1, <3>1, <3>3 DEF Inv, Buffers
      <4>2. q[1].op \notin Stops \cup {"end"}
        BY <1>2 DEF Stops
      <4>3. c \in halfEnded => c \in halfEnded'
        BY <1>5 DEF Noted
      <4> QED BY <1>10, <4>1, <4>2, <4>3, HasAfter
    <3> QED BY <3>2, <3>3
  <2> QED BY <2>3, <2>5, <2>6 DEF Buffers
<1> QED BY <1>5, <1>6, <1>8, <1>10, <1>11, <1>12, FittingActionKeepsInv

LEMMA UndoFits ==
  ASSUME Inv, NEW t \in Tasks, NEW what \in {"setScl", "registered"}, Does(t, what)
  PROVE  LET b == Now(t).b
         IN /\ Undo(b) \in Seq(Operation) /\ Fits(agenda[t], Undo(b))
            /\ \A i \in 1 .. Len(Undo(b)) : Undo(b)[i].op # "onTheBus"
            /\ HasIn(Undo(b), Stops, b) /\ HasIn(Undo(b), {"fail"}, b)
<1> DEFINE b == Now(t).b
           q == agenda[t]
           first == For("unlockHal", b)
           second == For("detach", b)
           third == For("fail", b)
           ops == <<first, second, third>>
<1>1. /\ Now(t) = q[1] /\ Now(t).op = what /\ Now(t) \in Operation
      /\ Follows(Now(t), After(q, 1)) /\ After(q, 1).op # "lockWire"
  BY NowIsOperation
<1>2. b \in Ports
  BY <1>1 DEF Operation, PinOps
<1>3. /\ first \in Operation /\ first.op = "unlockHal" /\ first.b = b
      /\ second \in Operation /\ second.op = "detach" /\ second.b = b
      /\ third \in Operation /\ third.op = "fail" /\ third.b = b
  BY <1>2, ForIsOperation DEF OpNames, HalOps, InitOps
<1> HIDE DEF first, second, third
<1>4. Stays(q, first) /\ Stays(q, second) /\ Stays(q, third) /\ May(q, first)
  BY <1>1, <1>3 DEF Stays, May, HalOps, WireOps, Quitting
<1>5. Follows(first, second) /\ Follows(second, third)
  BY <1>3 DEF Follows, LastOps, InitOps
<1>6. Follows(third, After(q, 1))
  BY <1>1, <1>3 DEF Follows, LastOps, InitOps
<1>7. q[1].op \notin {"lockHal", "lockWire"}
  BY <1>1
<1>8. second.op \notin HalOps /\ third.op \notin HalOps /\ third.op # "lockHal"
  BY <1>3 DEF HalOps
<1>9. Fits(q, ops)
  BY <1>4, <1>5, <1>6, <1>7, <1>8, ThreeFit
<1>10. /\ ops \in Seq(Operation) /\ \A i \in 1 .. Len(ops) : ops[i].op # "onTheBus"
       /\ HasIn(ops, Stops, b) /\ HasIn(ops, {"fail"}, b)
  BY <1>3 DEF HasIn, Stops
<1>11. ops = Undo(b)
  BY DEF Undo, first, second, third
<1> QED BY <1>9, <1>10, <1>11

LEMMA SetSclKeepsInv ==
  ASSUME Inv, NEW t \in Tasks, SetScl(t), Aside
  PROVE  Inv'
<1> DEFINE b == Now(t).b
           q == agenda[t]
           first == SetPin(local[t].want.scl, "SCL", b)
           next == For("registered", b)
           tried == <<first, next>>
<1>1. Does(t, "setScl") /\ UNCHANGED local /\ OnlyTheAgenda
  BY DEF SetScl
<1>2. ~Idle(t) /\ Now(t) = q[1] /\ Now(t).op = "setScl" /\ Now(t) \in Operation
  BY <1>1, NowIsOperation
<1>3. b \in Ports
  BY <1>2 DEF Operation, PinOps
<1>4. q[1].op \notin WireOps \cup {"lockHal", "lockWire", "uninitialize", "unlockHal", "begun"}
  BY <1>2 DEF WireOps, Quitting
<1>5. /\ Noted /\ PeriManTypeOK' /\ local' \in [Tasks -> Call]
      /\ initialized' \subseteq Ports /\ installed' \subseteq Ports
      /\ UNCHANGED <<initialized, installed, lock, wire, said>>
      /\ bus' \in [Ports -> BusPins] /\ local' = local
  BY <1>1, TheRestIsTyped DEF Aside, OnlyTheAgenda
<1>6. ~Started(t)
  BY <1>2, <1>4, BusyIsNotStarted
<1>7. PICK ops : /\ Becomes(t, ops) /\ ops \in Seq(Operation) /\ Fits(q, ops)
                 /\ \A i \in 1 .. Len(ops) : ops[i].op # "onTheBus"
                 /\ \/ HasIn(ops, {"setScl", "registered"}, b)
                    \/ HasIn(ops, Stops, b) /\ HasIn(ops, {"fail"}, b)
  <2>1. CASE Becomes(t, tried)
    <3>1. first \in Operation /\ first.op \in PinOps
      <4>1. "SCL" \in BusTypes /\ b \in Buses \cup {NULL} /\ "setBus" \in PinOps
        BY <1>3, I2cAssumption DEF BusTypes, OwnedTypes, PinOps
      <4> QED BY <4>1, WantIsTyped, PinOpIsOperation DEF SetPin
    <3> HIDE DEF first
    <3>2. /\ tried \in Seq(Operation) /\ Fits(q, tried)
          /\ \A i \in 1 .. Len(tried) : tried[i].op # "onTheBus"
      BY <1>1, <3>1, PinFirstFits DEF InitOps, HalOps
    <3>3. HasIn(tried, {"setScl", "registered"}, b)
      <4>1. next.op = "registered" /\ next.b = b /\ tried[2] = next /\ Len(tried) = 2
        BY DEF For, Op
      <4>2. 2 \in 1 .. Len(tried)
        BY <4>1
      <4> HIDE DEF tried, next
      <4> QED BY <4>1, <4>2 DEF HasIn
    <3> HIDE DEF tried
    <3> QED BY <2>1, <3>2, <3>3
  <2>2. CASE Becomes(t, Undo(b))
    <3>1. /\ Undo(b) \in Seq(Operation) /\ Fits(q, Undo(b))
          /\ \A i \in 1 .. Len(Undo(b)) : Undo(b)[i].op # "onTheBus"
          /\ HasIn(Undo(b), Stops, b) /\ HasIn(Undo(b), {"fail"}, b)
      BY <1>1, UndoFits
    <3> QED BY <2>2, <3>1
  <2> QED BY <2>1, <2>2 DEF SetScl
<1>8. FittingStep(t, ops) /\ HalStep(t, ops)
  BY <1>2, <1>4, <1>5, <1>7, FittingMakesFittingStep
<1>9. Drivers'
  BY <1>4, <1>5, <1>7, <1>8, NeutralStepKeepsDrivers
<1>10. q[1].op = "setScl" /\ q[1].b = b /\ "setScl" \notin Stops
  BY <1>2 DEF Stops
<1>11. \A u \in Tasks \ {t} : local'[u] = local[u]
  BY <1>5
<1>12. Buffers'
  BY <1>5, <1>6, <1>7, <1>8, <1>10, <1>11, StepKeepsBuffers DEF StillStops, StillStarts
<1> QED BY <1>5, <1>7, <1>8, <1>9, <1>12, FittingActionKeepsInv

LEMMA RegisteredKeepsInv ==
  ASSUME Inv, NEW t \in Tasks, Registered(t), Aside
  PROVE  Inv'
<1> DEFINE b == Now(t).b
           q == agenda[t]
<1>1. Does(t, "registered") /\ UNCHANGED local /\ OnlyTheAgenda
  BY DEF Registered
<1>2. ~Idle(t) /\ Now(t) = q[1] /\ Now(t).op = "registered" /\ Now(t) \in Operation
  BY <1>1, NowIsOperation
<1>3. b \in Ports
  BY <1>2 DEF Operation, PinOps
<1>4. q[1].op \notin WireOps \cup {"lockHal", "lockWire", "uninitialize", "unlockHal", "begun"}
  BY <1>2 DEF WireOps, Quitting
<1>5. /\ Noted /\ PeriManTypeOK' /\ local' \in [Tasks -> Call]
      /\ initialized' \subseteq Ports /\ installed' \subseteq Ports
      /\ UNCHANGED <<initialized, installed, lock, wire, said>>
      /\ bus' \in [Ports -> BusPins] /\ local' = local
  BY <1>1, TheRestIsTyped DEF Aside, OnlyTheAgenda
<1>6. ~Started(t)
  BY <1>2, <1>4, BusyIsNotStarted
<1>7. q[1].op = "registered" /\ q[1].b = b /\ "registered" \notin Stops
  BY <1>2 DEF Stops
<1>8. \A u \in Tasks \ {t} : local'[u] = local[u]
  BY <1>5
<1>9. CASE local[t].result /\ Becomes(t, <<For("unlockHal", b)>>)
  <2> DEFINE a == For("unlockHal", b)
             ops == <<a>>
  <2>1. /\ ops \in Seq(Operation) /\ Fits(q, ops)
        /\ \A i \in 1 .. Len(ops) : ops[i].op # "onTheBus"
    BY <1>1, UnlockingFits DEF HalOps
  <2>2. FittingStep(t, ops) /\ HalStep(t, ops)
    BY <1>2, <1>4, <1>5, <1>9, <2>1, FittingMakesFittingStep
  <2>3. Drivers'
    BY <1>4, <1>5, <2>1, <2>2, NeutralStepKeepsDrivers
  <2>4. Started(t)'
    <3>1. Len(q) = 2 /\ q[2] = For("begun", b)
      BY <1>1, BegunIsNext DEF InitOps
    <3>2. Replaced(q, ops, agenda'[t]) /\ Len(ops) = 1 /\ ops[1] = a
      BY <2>2, HalStepReplaces
    <3> HIDE DEF q, ops, a
    <3>3. Len(agenda'[t]) = 2 /\ agenda'[t][1] = a /\ agenda'[t][2] = q[2]
      BY <3>1, <3>2 DEF Replaced
    <3>4. a.op = "unlockHal" /\ q[2].op = "begun"
      BY <3>1 DEF For, Op, a
    <3>5. \A i \in 1 .. Len(agenda'[t]) : i = 1 \/ i = 2
      BY <3>3
    <3> QED BY <1>5, <1>9, <3>3, <3>4, <3>5 DEF Started
  <2> HIDE DEF ops
  <2>5. Buffers'
    BY <1>5, <1>6, <1>7, <1>8, <2>2, <2>4, StepKeepsBuffers DEF StillStops, StillStarts
  <2> QED BY <1>5, <2>1, <2>2, <2>3, <2>5, FittingActionKeepsInv
<1>10. CASE Becomes(t, Undo(b))
  <2>1. /\ Undo(b) \in Seq(Operation) /\ Fits(q, Undo(b))
        /\ \A i \in 1 .. Len(Undo(b)) : Undo(b)[i].op # "onTheBus"
        /\ HasIn(Undo(b), Stops, b) /\ HasIn(Undo(b), {"fail"}, b)
    BY <1>1, UndoFits
  <2>3. FittingStep(t, Undo(b)) /\ HalStep(t, Undo(b))
    BY <1>2, <1>4, <1>5, <1>10, <2>1, FittingMakesFittingStep
  <2>4. Drivers'
    BY <1>4, <1>5, <2>1, <2>3, NeutralStepKeepsDrivers
  <2>5. Buffers'
    BY <1>5, <1>6, <1>7, <1>8, <2>1, <2>3, StepKeepsBuffers DEF StillStops, StillStarts
  <2> QED BY <1>5, <2>1, <2>3, <2>4, <2>5, FittingActionKeepsInv
<1> QED BY <1>9, <1>10 DEF Registered

(* A transfer begins on a started port only, and inside its lock.           *)
LEMMA StartTransferKeepsInv ==
  ASSUME Inv, NEW t \in Tasks, StartTransfer(t), Aside
  PROVE  Inv'
<1> DEFINE b == Now(t).b
           q == agenda[t]
<1>1. Does(t, "transfer") /\ OnlyTheAgenda
  BY DEF StartTransfer
<1>2. /\ ~Idle(t) /\ Now(t) = q[1] /\ Now(t).op = "transfer" /\ Now(t) \in Operation
      /\ After(q, 1).op # "lockWire"
  BY <1>1, NowIsOperation
<1>3. b \in Ports
  BY <1>2 DEF Operation, PinOps
<1>4. q[1].op \notin WireOps \cup Decisive
                       \cup {"lockHal", "lockWire", "uninitialize", "unlockHal", "begun"}
  BY <1>2 DEF WireOps, Quitting, Decisive, Stops
<1>5. /\ Noted /\ PeriManTypeOK' /\ local \in [Tasks -> Call]
      /\ initialized' \subseteq Ports /\ installed' \subseteq Ports
      /\ UNCHANGED <<initialized, installed, lock, wire, said>>
      /\ bus' \in [Ports -> BusPins]
  BY <1>1, TheRestIsTyped DEF Aside, OnlyTheAgenda
<1>6. CASE b \in initialized /\ Becomes(t, <<For("onTheBus", b)>>) /\ UNCHANGED local
  <2> DEFINE a == For("onTheBus", b)
             ops == <<a>>
  <2>1. a \in Operation /\ a.op = "onTheBus" /\ a.b = b
    BY <1>3, ForIsOperation DEF OpNames, HalOps
  <2> HIDE DEF a
  <2>2. Stays(q, a) /\ May(q, a) /\ Follows(a, After(q, 1))
    BY <1>2, <2>1 DEF Stays, May, Follows, HalOps, WireOps, Quitting, LastOps, InitOps
  <2>3. Fits(q, ops)
    BY <1>4, <2>1, <2>2, OneFits
  <2>4. ops \in Seq(Operation) /\ \A c : HasIn(ops, {"onTheBus"}, c) => c = b
    BY <2>1 DEF HasIn
  <2>5. Becomes(t, ops)
    BY <1>6 DEF a
  <2> HIDE DEF ops
  <2>6. FittingStep(t, ops) /\ HalStep(t, ops)
    BY <1>2, <1>4, <1>5, <2>3, <2>4, <2>5, FittingMakesFittingStep
  <2>7. b \in installed
    BY <1>1, <1>6, InsideIsInstalled DEF HalOps
  <2>8. Drivers'
    <3>1. ASSUME NEW u \in Tasks, NEW c \in Ports, Has(u, {"onTheBus"}, c)'
          PROVE  c \in initialized' \cap installed'
      <4>1. Has(u, {"onTheBus"}, c) \/ c = b
        BY <2>4, <2>6, <3>1, HasAfter
      <4> QED BY <1>5, <1>6, <2>7, <4>1 DEF Inv, Drivers
    <3>2. ASSUME NEW c \in initialized' \ installed'
          PROVE  \E u \in Tasks : Has(u, {"uninitialize"}, c)'
      <4>1. PICK u \in Tasks : Has(u, {"uninitialize"}, c)
        BY <1>5, <3>2 DEF Inv, Drivers
      <4> QED BY <1>4, <2>6, <4>1, HasAfter
    <3> QED BY <3>1, <3>2 DEF Drivers
  <2>9. ~Started(t)
    BY <1>2, <1>4, BusyIsNotStarted
  <2>10. local' \in [Tasks -> Call] /\ \A u \in Tasks \ {t} : local'[u] = local[u]
    BY <1>5, <1>6
  <2>11. Buffers'
    BY <1>4, <1>5, <2>6, <2>9, <2>10, StepKeepsBuffers DEF Decisive, StillStops, StillStarts
  <2> QED BY <1>5, <2>4, <2>6, <2>8, <2>10, <2>11, FittingActionKeepsInv
<1>7. CASE Becomes(t, <<For("unlockHal", b)>>) /\ Result(t, FALSE)
  <2> DEFINE ops == <<For("unlockHal", b)>>
  <2>1. /\ ops \in Seq(Operation) /\ Fits(q, ops)
        /\ \A i \in 1 .. Len(ops) : ops[i].op # "onTheBus"
    BY <1>1, UnlockingFits DEF HalOps
  <2>2. Becomes(t, ops)
    BY <1>7
  <2> HIDE DEF ops
  <2>3. local' \in [Tasks -> Call] /\ \A u \in Tasks \ {t} : local'[u] = local[u]
    BY <1>7, ResultIsTyped
  <2> QED BY <1>2, <1>4, <1>5, <2>1, <2>2, <2>3, NeutralActionKeepsInv
<1> QED BY <1>6, <1>7 DEF StartTransfer

-----------------------------------------------------------------------------
(* The locks.                                                               *)
LEMMA LocksDiffer ==
  ASSUME NEW b \in Ports, NEW c \in Ports
  PROVE  /\ Hal(b) \in Locks /\ Wire(b) \in Locks /\ Hal(b) # Wire(c)
         /\ b # c => Hal(b) # Hal(c) /\ Wire(b) # Wire(c)
BY DEF Hal, Wire, Locks

LEMMA LockIsTyped ==
  ASSUME Inv, NEW l \in Locks, NEW v \in {"free"} \cup Tasks, lock' = [lock EXCEPT ![l] = v]
  PROVE  /\ lock' \in [Locks -> {"free"} \cup Tasks] /\ lock'[l] = v
         /\ \A m \in Locks \ {l} : lock'[m] = lock[m]
BY DEF Inv, Types, TypeOK, I2cTypeOK

LEMMA DroppingKeepsOrder ==
  ASSUME NEW q, NEW r, Replaced(q, <<>>, r)
  PROVE  /\ InOrder(q) => InOrder(r)
         /\ OnePort(q) => OnePort(r)
<1>1. /\ Len(q) \in Nat \ {0} /\ Len(r) = Len(q) - 1
      /\ \A i \in 1 .. Len(r) : i + 1 \in 1 .. Len(q) /\ r[i] = q[i + 1]
  <2>1. Len(<<>>) = 0
    OBVIOUS
  <2> QED BY <2>1 DEF Replaced
<1>2. ASSUME InOrder(q), NEW i \in 1 .. Len(r) PROVE Follows(r[i], After(r, i))
  <2>1. After(r, i) = After(q, i + 1)
    <3>1. i < Len(r) <=> i + 1 < Len(q)
      BY <1>1
    <3>2. CASE i < Len(r)
      <4>1. i + 1 \in 1 .. Len(r)
        BY <1>1, <3>2
      <4> QED BY <1>1, <3>1, <3>2, <4>1 DEF After
    <3>3. CASE ~(i < Len(r))
      BY <3>1, <3>3 DEF After
    <3> QED BY <3>2, <3>3
  <2> QED BY <1>1, <1>2, <2>1 DEF InOrder
<1>3. ASSUME OnePort(q) PROVE OnePort(r)
  BY <1>1, <1>3 DEF OnePort
<1> QED BY <1>2, <1>3 DEF InOrder

(* An operation inside a lock, before and after the first one is dropped.   *)
LEMMA DroppingOpens ==
  ASSUME NEW q, NEW r, Replaced(q, <<>>, r), NEW i \in 1 .. Len(r), Open(r, i)
  PROVE  /\ i + 1 \in 2 .. Len(q) /\ r[i] = q[i + 1]
         /\ Open(q, i + 1) \/ (i = 1 /\ q[1].op = "lockHal")
<1>1. /\ Len(q) \in Nat \ {0} /\ Len(r) = Len(q) - 1
      /\ \A n \in 1 .. Len(r) : n + 1 \in 1 .. Len(q) /\ r[n] = q[n + 1]
  <2>1. Len(<<>>) = 0
    OBVIOUS
  <2> QED BY <2>1 DEF Replaced
<1>2. CASE i = 1
  BY <1>1, <1>2 DEF Open
<1>3. CASE i > 1
  <2>1. i - 1 \in 1 .. Len(r) /\ r[i - 1] = q[i]
    BY <1>1, <1>3
  <2> QED BY <1>1, <1>3, <2>1 DEF Open
<1> QED BY <1>1, <1>2, <1>3

LEMMA LockHalKeepsInv ==
  ASSUME Inv, NEW t \in Tasks, Lock(t), Does(t, "lockHal"), Aside
  PROVE  Inv'
<1> DEFINE b == Now(t).b
           q == agenda[t]
           r == agenda'[t]
<1>1. /\ ~Idle(t) /\ Now(t) = q[1] /\ Now(t).op = "lockHal" /\ Now(t) \in Operation
      /\ Follows(Now(t), After(q, 1)) /\ Len(q) \in Nat \ {0}
  BY NowIsOperation
<1>2. b \in Ports
  BY <1>1 DEF Operation, PinOps
<1>3. /\ lock[Hal(b)] = "free" /\ lock' = [lock EXCEPT ![Hal(b)] = t] /\ Done(t)
      /\ unchangedPeriMan /\ unchangedHal /\ UNCHANGED local
  BY <1>1 DEF Lock, TheLock
<1>4. /\ lock' \in [Locks -> {"free"} \cup Tasks] /\ lock'[Hal(b)] = t
      /\ \A m \in Locks \ {Hal(b)} : lock'[m] = lock[m]
  BY <1>2, <1>3, LocksDiffer, LockIsTyped
<1>5. HalStep(t, <<>>)
  <2>1. q[1].op \notin WireOps \cup {"lockWire"}
    BY <1>1 DEF WireOps, Quitting
  <2>2. \A c \in Ports : lock'[Wire(c)] = lock[Wire(c)]
    BY <1>2, <1>4, LocksDiffer
  <2> QED BY <1>1, <1>3, <2>1, <2>2 DEF HalStep, Done, Aside
<1>6. /\ Replaced(q, <<>>, r) /\ \A u \in Tasks \ {t} : agenda'[u] = agenda[u]
  BY <1>5, HalStepReplaces
<1>7. /\ InOrder(q) /\ OnePort(q) /\ OpenOnce(q)
  BY DEF Inv, Shape
<1>8. \A c \in Ports : \A u \in Tasks : lock[Hal(c)] = u => c # b /\ lock'[Hal(c)] = u
  BY <1>2, <1>3, <1>4, LocksDiffer, WireAssumption
<1>9. \A u \in Tasks : \A i \in 1 .. Len(agenda[u]) :
        Open(agenda[u], i) => agenda[u][i].b \in Ports /\ lock[Hal(agenda[u][i].b)] = u
  <2> SUFFICES ASSUME NEW u \in Tasks, NEW i \in 1 .. Len(agenda[u]), Open(agenda[u], i)
               PROVE  agenda[u][i].b \in Ports /\ lock[Hal(agenda[u][i].b)] = u
    OBVIOUS
  <2>1. agenda[u][i] \in Operation
    BY DEF Inv, Types
  <2>2. agenda[u][i].op \notin PinOps
    BY DEF Open, HalOps, PinOps
  <2> QED BY <2>1, <2>2 DEF Inv, HalHeld, Operation
<1>10. q[2].b = b
  BY <1>1 DEF Follows, After, Nothing, For, Op, Locked
<1> HIDE DEF q, r
<1>11. ASSUME NEW i \in 1 .. Len(r), Open(r, i)
       PROVE  /\ r[i].b \in Ports /\ lock'[Hal(r[i].b)] = t
              /\ i = 1 => r[i].b = b
              /\ i # 1 => r[i].b # b /\ Open(q, i + 1) /\ r[i] = q[i + 1] /\ i + 1 \in 1 .. Len(q)
  <2>1. /\ i + 1 \in 2 .. Len(q) /\ r[i] = q[i + 1]
        /\ Open(q, i + 1) \/ (i = 1 /\ q[1].op = "lockHal")
    BY <1>6, <1>11, DroppingOpens
  <2>2. CASE i = 1
    BY <1>2, <1>4, <1>10, <2>1, <2>2
  <2>3. CASE i # 1
    <3>1. i + 1 \in 1 .. Len(q) /\ Open(q, i + 1)
      BY <2>1, <2>3
    <3>2. q[i + 1].b \in Ports /\ lock[Hal(q[i + 1].b)] = t
      BY <1>9, <3>1 DEF q
    <3> QED BY <1>8, <2>1, <2>3, <3>1, <3>2
  <2> QED BY <2>2, <2>3
<1>12. Shape'
  <2>1. InOrder(r) /\ OnePort(r)
    BY <1>6, <1>7, DroppingKeepsOrder
  <2>2. ASSUME NEW i \in 1 .. Len(r), NEW j \in 1 .. Len(r),
               Open(r, i), Open(r, j), r[i].b = r[j].b
        PROVE  i = j
    <3>1. CASE i = 1 \/ j = 1
      BY <1>11, <2>2, <3>1
    <3>2. CASE i # 1 /\ j # 1
      <4>1. i + 1 = j + 1
        BY <1>7, <1>11, <2>2, <3>2 DEF OpenOnce
      <4> QED BY <4>1
    <3> QED BY <3>1, <3>2
  <2>3. OpenOnce(r)
    BY <2>2 DEF OpenOnce
  <2> QED BY <1>6, <2>1, <2>3 DEF Inv, Shape, r
<1>13. HalHeld'
  <2>1. \A i \in 1 .. Len(r) : Open(r, i) => lock'[Hal(r[i].b)] = t
    BY <1>11
  <2>2. \A u \in Tasks \ {t} : \A i \in 1 .. Len(agenda[u]) :
          Open(agenda[u], i) => lock'[Hal(agenda[u][i].b)] = u
    BY <1>8, <1>9
  <2> QED BY <1>6, <2>1, <2>2 DEF HalHeld, r
<1>14. WireHeld' /\ Waits' /\ Sayings' /\ Restarts'
  BY <1>5, HalStepKeepsTheRest
<1>15. /\ Noted /\ PeriManTypeOK' /\ local' \in [Tasks -> Call]
       /\ initialized' \subseteq Ports /\ installed' \subseteq Ports
       /\ UNCHANGED <<initialized, installed, local>> /\ bus' \in [Ports -> BusPins]
  BY <1>3, TheRestIsTyped DEF Aside
<1>16. Types'
  BY <1>4, <1>5, <1>15, HalStepKeepsTypes DEF BusPins
<1>17. q[1].op \notin Decisive \cup {"unlockHal", "begun", "uninitialize"}
  BY <1>1 DEF Decisive, Stops, q
<1>18. Drivers'
  <2>1. \A i \in 1 .. Len(<<>>) : <<>>[i].op # "onTheBus"
    OBVIOUS
  <2> QED BY <1>5, <1>15, <1>17, <2>1, NeutralStepKeepsDrivers DEF q
<1>19. Buffers'
  <2>1. ~Started(t)
    BY <1>1, <1>17, BusyIsNotStarted DEF q
  <2> QED BY <1>5, <1>15, <1>17, <2>1, StepKeepsBuffers DEF q, Decisive
<1> QED BY <1>12, <1>13, <1>14, <1>16, <1>18, <1>19 DEF Inv

LEMMA UnlockHalKeepsInv ==
  ASSUME Inv, NEW t \in Tasks, Unlock(t), Does(t, "unlockHal"), Aside
  PROVE  Inv'
<1> DEFINE b == Now(t).b
           q == agenda[t]
           r == agenda'[t]
<1>1. /\ ~Idle(t) /\ Now(t) = q[1] /\ Now(t).op = "unlockHal" /\ Now(t) \in Operation
      /\ Len(q) \in Nat \ {0}
  BY NowIsOperation
<1>2. b \in Ports
  BY <1>1 DEF Operation, PinOps
<1>3. /\ lock' = [lock EXCEPT ![Hal(b)] = "free"] /\ Done(t)
      /\ unchangedPeriMan /\ unchangedHal /\ UNCHANGED local
  BY <1>1 DEF Unlock, TheLock, Does
<1>4. /\ lock' \in [Locks -> {"free"} \cup Tasks]
      /\ \A m \in Locks \ {Hal(b)} : lock'[m] = lock[m]
  BY <1>2, <1>3, LocksDiffer, LockIsTyped
<1>5. HalStep(t, <<>>) /\ Fits(q, <<>>)
  <2>1. q[1].op \notin WireOps \cup {"lockWire", "lockHal"}
    BY <1>1 DEF WireOps, Quitting
  <2>2. \A c \in Ports : lock'[Wire(c)] = lock[Wire(c)]
    BY <1>2, <1>4, LocksDiffer
  <2> QED BY <1>1, <1>3, <2>1, <2>2, NoneFits DEF HalStep, Done, Aside
<1>6. /\ Replaced(q, <<>>, r) /\ \A u \in Tasks \ {t} : agenda'[u] = agenda[u]
  BY <1>5, HalStepReplaces
<1>7. OpenOnce(q) /\ 1 \in 1 .. Len(q) /\ Open(q, 1) /\ lock[Hal(b)] = t
  <2>1. OpenOnce(q) /\ 1 \in 1 .. Len(q) /\ Open(q, 1)
    BY <1>1 DEF Inv, Shape, Open, HalOps
  <2> QED BY <1>1, <2>1 DEF Inv, HalHeld
<1>8. \A u \in Tasks : \A i \in 1 .. Len(agenda[u]) :
        Open(agenda[u], i) => agenda[u][i].b \in Ports /\ lock[Hal(agenda[u][i].b)] = u
  <2> SUFFICES ASSUME NEW u \in Tasks, NEW i \in 1 .. Len(agenda[u]), Open(agenda[u], i)
               PROVE  agenda[u][i].b \in Ports /\ lock[Hal(agenda[u][i].b)] = u
    OBVIOUS
  <2>1. agenda[u][i] \in Operation
    BY DEF Inv, Types
  <2>2. agenda[u][i].op \notin PinOps
    BY DEF Open, HalOps, PinOps
  <2> QED BY <2>1, <2>2 DEF Inv, HalHeld, Operation
<1>9. \A c \in Ports : c # b => lock'[Hal(c)] = lock[Hal(c)]
  BY <1>2, <1>4, LocksDiffer
<1> HIDE DEF q, r
<1>10. ASSUME NEW i \in 1 .. Len(r), Open(r, i)
       PROVE  lock'[Hal(r[i].b)] = t
  <2>1. /\ i + 1 \in 2 .. Len(q) /\ r[i] = q[i + 1] /\ Open(q, i + 1)
    BY <1>1, <1>6, <1>10, DroppingOpens DEF q
  <2>2. i + 1 \in 1 .. Len(q) /\ i + 1 # 1
    BY <2>1
  <2>3. q[i + 1].b # b
    <3>1. q[1].b = b
      BY <1>1 DEF q
    <3> QED BY <1>7, <2>1, <2>2, <3>1 DEF OpenOnce
  <2>4. q[i + 1].b \in Ports /\ lock[Hal(q[i + 1].b)] = t
    BY <1>8, <2>1, <2>2 DEF q
  <2> QED BY <1>9, <2>1, <2>3, <2>4
<1>11. HalHeld'
  <2>1. \A u \in Tasks \ {t} : \A i \in 1 .. Len(agenda[u]) :
          Open(agenda[u], i) => lock'[Hal(agenda[u][i].b)] = u
    BY <1>7, <1>8, <1>9
  <2> QED BY <1>6, <1>10, <2>1 DEF HalHeld, r
<1>12. Shape' /\ WireHeld' /\ Waits' /\ Sayings' /\ Restarts'
  BY <1>5, FittingKeepsShape, HalStepKeepsTheRest DEF q
<1>13. /\ Noted /\ PeriManTypeOK' /\ local' \in [Tasks -> Call]
       /\ initialized' \subseteq Ports /\ installed' \subseteq Ports
       /\ UNCHANGED <<initialized, installed, local>> /\ bus' \in [Ports -> BusPins]
  BY <1>3, TheRestIsTyped DEF Aside
<1>14. Types'
  BY <1>4, <1>5, <1>13, HalStepKeepsTypes DEF BusPins
<1>15. q[1].op \notin Decisive \cup {"uninitialize"}
  BY <1>1 DEF Decisive, Stops, q
<1>16. Drivers'
  <2>1. \A i \in 1 .. Len(<<>>) : <<>>[i].op # "onTheBus"
    OBVIOUS
  <2> QED BY <1>5, <1>13, <1>15, <2>1, NeutralStepKeepsDrivers DEF q
<1>17. Started(t) => Started(t)'
  <2>1. \A i \in 1 .. Len(r) : i + 1 \in 1 .. Len(q) /\ r[i] = q[i + 1]
    <3>1. Len(<<>>) = 0
      OBVIOUS
    <3> QED BY <1>6, <3>1 DEF Replaced
  <2>2. ASSUME \A i \in 1 .. Len(q) : q[i].op \in {"unlockHal", "begun"}
        PROVE  \A i \in 1 .. Len(r) : r[i].op \in {"unlockHal", "begun"}
    BY <2>1, <2>2
  <2> QED BY <1>13, <2>2 DEF Started, q, r
<1>18. Buffers'
  BY <1>5, <1>13, <1>15, <1>17, StepKeepsBuffers DEF q, Decisive
<1> QED BY <1>11, <1>12, <1>14, <1>16, <1>18 DEF Inv

LEMMA TypesAfter ==
  ASSUME Inv, agenda' \in [Tasks -> Seq(Operation)], local' \in [Tasks -> Call],
         lock' \in [Locks -> {"free"} \cup Tasks],
         UNCHANGED <<pins, deinit_functions, initialized, installed, bus, wire, said>>,
         Noted
  PROVE  Types'
BY DEF Inv, Types, TypeOK, I2cTypeOK, PeriManTypeOK, Noted

LEMMA LockWireKeepsInv ==
  ASSUME Inv, NEW t \in Tasks, Lock(t), Does(t, "lockWire"), Aside
  PROVE  Inv'
<1> DEFINE q == agenda[t]
           r == agenda'[t]
<1>1. /\ ~Idle(t) /\ Now(t) = q[1] /\ Now(t).op = "lockWire" /\ Now(t) \in Operation
      /\ After(q, 1).op # "lockWire" /\ Len(q) \in Nat \ {0}
  BY NowIsOperation
<1>2. PICK b \in Ports : b = Now(t).b
  BY <1>1 DEF Operation, PinOps
<1>3. /\ lock[Wire(b)] = "free" /\ lock' = [lock EXCEPT ![Wire(b)] = t] /\ Becomes(t, <<>>)
      /\ unchangedPeriMan /\ unchangedHal /\ UNCHANGED <<local, wire, said>>
  BY <1>1, <1>2 DEF Lock, TheLock, Done, Aside
<1>4. /\ lock' \in [Locks -> {"free"} \cup Tasks] /\ lock'[Wire(b)] = t
      /\ \A m \in Locks \ {Wire(b)} : lock'[m] = lock[m]
  BY <1>2, <1>3, LocksDiffer, LockIsTyped
<1>5. \A c \in Ports : \A u \in Tasks : lock[Wire(c)] = u => c # b /\ lock'[Wire(c)] = u
  BY <1>2, <1>3, <1>4, LocksDiffer, WireAssumption
<1>6. \A c \in Ports : \A u \in Tasks : lock'[Wire(c)] = u =>
        (c = b /\ u = t) \/ lock[Wire(c)] = u
  BY <1>2, <1>4, LocksDiffer
<1>7. \A c \in Ports : lock'[Hal(c)] = lock[Hal(c)]
  BY <1>2, <1>4, LocksDiffer
<1>8. /\ Replaced(q, <<>>, r) /\ agenda' \in [Tasks -> Seq(Operation)]
      /\ \A u \in Tasks \ {t} : agenda'[u] = agenda[u]
  <2>1. Types /\ <<>> \in Seq(Operation)
    BY DEF Inv
  <2> QED BY <1>1, <1>3, <2>1, BecomesReplaces
<1>9. InOrder(q) /\ OnePort(q) /\ OpenOnce(q) /\ 1 \in 1 .. Len(q)
  BY <1>1 DEF Inv, Shape
<1>10. \A c, what : /\ Has(t, what, c)' => Has(t, what, c)
                    /\ "lockWire" \notin what /\ Has(t, what, c) => Has(t, what, c)'
  <2> SUFFICES ASSUME NEW c, NEW what
               PROVE  /\ Has(t, what, c)' => Has(t, what, c)
                      /\ "lockWire" \notin what /\ Has(t, what, c) => Has(t, what, c)'
    OBVIOUS
  <2>1. ~HasIn(<<>>, what, c)
    BY DEF HasIn
  <2>2. HasIn(r, what, c) => HasIn(q, what, c)
    BY <1>8, <2>1, HasInNew
  <2>3. "lockWire" \notin what /\ HasIn(q, what, c) => HasIn(r, what, c)
    BY <1>1, <1>8, HasInOld
  <2> QED BY <2>2, <2>3 DEF Has
<1>11. \A u \in Tasks \ {t} : \A c, what : Has(u, what, c)' <=> Has(u, what, c)
  BY <1>8 DEF Has
<1>12. \A c : Has(t, WireOps \cup {"lockWire"}, c) => c = b
  BY <1>1, <1>2, <1>9 DEF Has, HasIn, OnePort
<1>13. ~Does(t, "lockWire")'
  <2>1. CASE Len(r) > 0
    <3>1. ~(Len(<<>>) > 0)
      OBVIOUS
    <3> QED BY <1>8, <1>9, <2>1, <3>1, FittingDoesNotWait DEF Does, Now
  <2>2. CASE ~(Len(r) > 0)
    <3>1. r = <<>>
      BY <1>8, <2>2
    <3> QED BY <3>1 DEF Does, Idle
  <2> QED BY <2>1, <2>2
<1>14. \A u \in Tasks \ {t} : /\ Does(u, "lockWire")' <=> Does(u, "lockWire")
                              /\ Now(u)' = Now(u)
  BY <1>8 DEF Does, Now, Idle
<1>15. \A c \in Ports, u \in Tasks : \A what \in
          {WireOps, Quitting, {"finish"}, {"begun"}, {"free"}, {"end"}, {"onTheBus"},
           {"uninitialize"}, {"fail"}, Stops, Stops \cup {"end"}, {"setScl", "registered"}} :
              Has(u, what, c)' <=> Has(u, what, c)
  <2>1. "lockWire" \notin WireOps \cup Quitting \cup Stops
                    \cup {"finish", "begun", "free", "end", "onTheBus", "uninitialize",
                          "setScl", "registered", "fail"}
    BY DEF WireOps, Quitting, Stops
  <2> QED BY <1>10, <1>11, <2>1
<1> HIDE DEF q, r
<1>16. Shape'
  <2>1. InOrder(r) /\ OnePort(r)
    BY <1>8, <1>9, DroppingKeepsOrder
  <2>2. ASSUME NEW i \in 1 .. Len(r), NEW j \in 1 .. Len(r),
               Open(r, i), Open(r, j), r[i].b = r[j].b
        PROVE  i = j
    <3>1. q[1].op # "lockHal"
      BY <1>1 DEF q
    <3>2. /\ i + 1 \in 2 .. Len(q) /\ r[i] = q[i + 1] /\ Open(q, i + 1)
          /\ j + 1 \in 2 .. Len(q) /\ r[j] = q[j + 1] /\ Open(q, j + 1)
      BY <1>8, <2>2, <3>1, DroppingOpens
    <3>3. i + 1 \in 1 .. Len(q) /\ j + 1 \in 1 .. Len(q)
      BY <3>2
    <3>4. i + 1 = j + 1
      BY <1>9, <2>2, <3>2, <3>3 DEF OpenOnce
    <3> QED BY <3>4
  <2>3. OpenOnce(r)
    BY <2>2 DEF OpenOnce
  <2> QED BY <1>8, <2>1, <2>3 DEF Inv, Shape, r
<1>17. HalHeld'
  <2>1. ASSUME NEW u \in Tasks, NEW i \in 1 .. Len(agenda[u]), Open(agenda[u], i)
        PROVE  agenda[u][i].b \in Ports /\ lock'[Hal(agenda[u][i].b)] = u
    <3>1. agenda[u][i] \in Operation
      BY DEF Inv, Types
    <3>2. agenda[u][i].op \notin PinOps
      BY <2>1 DEF Open, HalOps, PinOps
    <3>3. agenda[u][i].b \in Ports /\ lock[Hal(agenda[u][i].b)] = u
      BY <2>1, <3>1, <3>2 DEF Inv, HalHeld, Operation
    <3> QED BY <1>7, <3>3
  <2>2. ASSUME NEW i \in 1 .. Len(r), Open(r, i) PROVE lock'[Hal(r[i].b)] = t
    <3>1. q[1].op # "lockHal"
      BY <1>1 DEF q
    <3>2. i + 1 \in 2 .. Len(q) /\ r[i] = q[i + 1] /\ Open(q, i + 1)
      BY <1>8, <2>2, <3>1, DroppingOpens
    <3>3. i + 1 \in 1 .. Len(q)
      BY <3>2
    <3> QED BY <2>1, <3>2, <3>3 DEF q
  <2> QED BY <1>8, <2>1, <2>2 DEF HalHeld, r
<1>18. WireHeld'
  <2>1. WireHeld
    BY DEF Inv
  <2>2. \A c \in Ports : Has(t, WireOps, c)' => c = b
    <3>1. \A c : Has(t, WireOps, c) => Has(t, WireOps \cup {"lockWire"}, c)
      BY DEF Has, HasIn
    <3> QED BY <1>10, <1>12, <3>1
  <2> QED BY ONLY <1>4, <1>5, <1>11, <1>14, <2>1, <2>2 DEF WireHeld
<1>19. Waits'
  <2>1. Waits
    BY DEF Inv
  <2> QED BY ONLY <1>11, <1>13, <1>14, <2>1 DEF Waits
<1>20. UNCHANGED <<initialized, installed, wire, said, local>>
  BY <1>3 DEF unchangedHal, halVars
<1>21. Drivers'
  <2>1. Drivers /\ initialized \subseteq Ports
    BY TheRestIsTyped DEF Inv
  <2> QED BY ONLY <1>15, <1>20, <2>1 DEF Drivers
<1>22. Buffers'
  <2>1. Buffers /\ initialized \subseteq Ports
    BY TheRestIsTyped DEF Inv
  <2>2. ~Started(t)
    BY <1>1, BusyIsNotStarted DEF q
  <2>3. \A u \in Tasks \ {t} : Started(u)' <=> Started(u)
    BY <1>8, <1>20 DEF Started
  <2>4. \A c \in initialized' : /\ c \in halfStarted => c \in halfStarted'
                                /\ c \in halfEnded => c \in halfEnded'
    BY DEF Aside, Noted
  <2> QED BY ONLY <1>15, <1>20, <2>1, <2>2, <2>3, <2>4 DEF Buffers, Undoing
<1>23. Telling'
  <2>1. Telling
    BY DEF Inv, Sayings
  <2> QED BY ONLY <1>5, <1>20, <2>1 DEF Telling
<1>24. Outsiders'
  <2>1. Outsiders
    BY DEF Inv, Sayings
  <2> QED BY ONLY <1>15, <1>20, <2>1 DEF Outsiders
<1>25. OneObject'
  <2>1. OneObject
    BY DEF Inv, Sayings
  <2>2. Has(t, WireOps \cup {"lockWire"}, b)
    BY <1>1, <1>2, <1>9 DEF Has, HasIn, q
  <2> QED BY ONLY <1>6, <1>10, <1>11, <1>12, <2>1, <2>2 DEF OneObject
<1>26. Owners'
  <2>1. Owners
    BY DEF Inv, Sayings
  <2>2. Has(t, WireOps, b)'
    <3>1. Has(t, WireOps, b)
      BY <1>2 DEF Inv, Waits
    <3> QED BY <1>15, <3>1
  <2>3. \A u \in Tasks, c \in Ports : Has(u, WireOps, c)' <=> Has(u, WireOps, c)
    BY <1>15
  <2>4. \A u \in Tasks \ {t} : Does(u, "lockWire")' <=> Does(u, "lockWire")
    BY <1>14
  <2>5. ASSUME NEW u \in Tasks, NEW c \in Ports
        PROVE  /\ wire'[c].currentTaskHandle = u => lock'[Wire(c)] = u
               /\ lock'[Wire(c)] = u =>
                    said'[u].b = c \/ ~wire'[c].buffers
                      \/ (Has(u, WireOps, c)' /\ ~Does(u, "lockWire")')
    <3>1. wire'[c].currentTaskHandle = u => lock'[Wire(c)] = u
      BY <1>5, <1>20, <2>1 DEF Owners
    <3>2. CASE c = b /\ u = t
      BY <1>13, <2>2, <3>1, <3>2
    <3>3. CASE ~(c = b /\ u = t)
      <4>1. lock'[Wire(c)] = u => lock[Wire(c)] = u
        BY <1>6, <3>3
      <4>2. lock[Wire(c)] = u => said[u].b = c \/ ~wire[c].buffers
                                   \/ (Has(u, WireOps, c) /\ ~Does(u, "lockWire"))
        BY <2>1 DEF Owners
      <4> QED BY <1>13, <1>20, <2>3, <2>4, <3>1, <4>1, <4>2
    <3> QED BY <3>2, <3>3
  <2> QED BY <2>5 DEF Owners
<1>27. Restarts'
  <2>1. Restarts
    BY DEF Inv
  <2> QED BY ONLY <1>15, <1>20, <2>1 DEF Restarts
<1>28. Types'
  <2>1. /\ local' \in [Tasks -> Call] /\ Noted
        /\ UNCHANGED <<pins, deinit_functions, initialized, installed, bus, wire, said>>
    BY <1>3, TheRestIsTyped DEF Aside, unchangedPeriMan, unchangedHal, halVars
  <2> QED BY <1>4, <1>8, <2>1, TypesAfter
<1> QED BY <1>16, <1>17, <1>18, <1>19, <1>21, <1>22, <1>23, <1>24, <1>25, <1>26, <1>27, <1>28
        DEF Inv, Sayings

-----------------------------------------------------------------------------
(* A task that starts a call, or goes on with the Wire object's part of it, *)
(* is inside no port.                                                       *)
Fresh(r) ==
  /\ r \in Seq(Operation) /\ InOrder(r) /\ OnePort(r)
  /\ \A i \in 1 .. Len(r) : ~Open(r, i) /\ r[i].op # "onTheBus"

LEMMA FreshAgenda ==
  ASSUME Inv, NEW t \in Tasks, NEW r, Fresh(r), agenda' = [agenda EXCEPT ![t] = r],
         \A c \in Ports : ~Has(t, {"uninitialize"}, c),
         \A c \in Ports : lock'[Hal(c)] = lock[Hal(c)],
         UNCHANGED <<initialized, installed>>
  PROVE  /\ agenda' \in [Tasks -> Seq(Operation)]
         /\ agenda'[t] = r /\ \A u \in Tasks \ {t} : agenda'[u] = agenda[u]
         /\ Shape' /\ HalHeld' /\ Drivers'
<1>1. agenda \in [Tasks -> Seq(Operation)]
  BY DEF Inv, Types
<1>2. /\ agenda' \in [Tasks -> Seq(Operation)]
      /\ agenda'[t] = r /\ \A u \in Tasks \ {t} : agenda'[u] = agenda[u]
  BY <1>1 DEF Fresh
<1>3. Shape'
  <2>1. OpenOnce(r) /\ InOrder(r) /\ OnePort(r)
    BY DEF Fresh, OpenOnce
  <2> QED BY <1>2, <2>1 DEF Inv, Shape
<1>4. HalHeld'
  <2>1. ASSUME NEW u \in Tasks \ {t}, NEW i \in 1 .. Len(agenda[u]), Open(agenda[u], i)
        PROVE  lock'[Hal(agenda[u][i].b)] = u
    <3>1. agenda[u][i] \in Operation
      BY <1>1
    <3>2. agenda[u][i].op \notin PinOps
      BY <2>1 DEF Open, HalOps, PinOps
    <3>3. agenda[u][i].b \in Ports /\ lock[Hal(agenda[u][i].b)] = u
      BY <2>1, <3>1, <3>2 DEF Inv, HalHeld, Operation
    <3> QED BY <3>3
  <2> QED BY <1>2, <2>1 DEF HalHeld, Fresh
<1>5. Drivers'
  <2>1. \A u \in Tasks \ {t} : \A what, c : Has(u, what, c)' <=> Has(u, what, c)
    BY <1>2 DEF Has
  <2>2. \A c : ~Has(t, {"onTheBus"}, c)'
    BY <1>2 DEF Has, HasIn, Fresh
  <2>3. Drivers /\ initialized \subseteq Ports
    BY TheRestIsTyped DEF Inv
  <2> QED BY ONLY <2>1, <2>2, <2>3, UNCHANGED <<initialized, installed>>,
                  \A c \in Ports : ~Has(t, {"uninitialize"}, c) DEF Drivers
<1> QED BY <1>2, <1>3, <1>4, <1>5

(* A task at an operation of a Wire object holds it.                        *)
LEMMA AtWireOp ==
  ASSUME Inv, NEW t \in Tasks, NEW what \in WireOps, Does(t, what),
         NEW b \in Ports, b = Now(t).b
  PROVE  /\ lock[Wire(b)] = t
         /\ \A c \in Ports : lock[Wire(c)] = t => c = b
         /\ what \in Quitting => said[t] = NoSaying /\ wire[b].currentTaskHandle # t
<1>1. Now(t) = agenda[t][1] /\ Now(t).op = what /\ Len(agenda[t]) \in Nat \ {0}
  BY NowIsOperation
<1>2. 1 \in 1 .. Len(agenda[t])
  BY <1>1
<1>3. Has(t, WireOps, b) /\ Has(t, WireOps \cup {"lockWire"}, b)
  BY <1>1, <1>2 DEF Has, HasIn
<1>4. ~Does(t, "lockWire")
  BY <1>1 DEF Does, WireOps, Quitting
<1>5. lock[Wire(b)] = t
  BY <1>3, <1>4 DEF Inv, WireHeld
<1>6. \A c \in Ports : lock[Wire(c)] = t => c = b
  BY <1>3 DEF Inv, Sayings, OneObject
<1>7. ASSUME what \in Quitting PROVE said[t] = NoSaying /\ wire[b].currentTaskHandle # t
  <2>1. Has(t, Quitting, b)
    BY <1>1, <1>2, <1>7 DEF Has, HasIn
  <2> QED BY <2>1 DEF Inv, Sayings, Outsiders
<1> QED BY <1>5, <1>6, <1>7

(* The last operation of a call is alone on the agenda.                     *)
LEMMA AtLastOp ==
  ASSUME Inv, NEW t \in Tasks, NEW what \in LastOps, Does(t, what)
  PROVE  /\ Len(agenda[t]) = 1 /\ Tail(agenda[t]) = <<>>
         /\ \A some, c : Has(t, some, c) => what \in some /\ c = Now(t).b
<1>1. /\ Now(t) = agenda[t][1] /\ Now(t).op = what /\ Len(agenda[t]) \in Nat \ {0}
  BY NowIsOperation
<1>2. 1 \in 1 .. Len(agenda[t]) /\ agenda[t] \in Seq(Operation)
  BY <1>1 DEF Inv, Types
<1>3. 1 = Len(agenda[t])
  BY <1>1, <1>2, LastEnds
<1>4. Tail(agenda[t]) = <<>>
  <2>1. ASSUME NEW q \in Seq(Operation), Len(q) = 1 PROVE Tail(q) = <<>>
    <3>1. q # <<>>
      BY <2>1
    <3>2. Tail(q) \in Seq(Operation) /\ Len(Tail(q)) = 0
      BY <2>1, <3>1
    <3> QED BY <3>2, EmptySeq
  <2> QED BY <1>2, <1>3, <2>1
<1>5. \A i \in 1 .. Len(agenda[t]) : i = 1
  <2>1. PICK m \in Nat : m = 1 /\ m = Len(agenda[t])
    BY ONLY <1>3
  <2>2. \A i \in 1 .. m : i = 1
    BY ONLY <2>1
  <2> QED BY ONLY <2>1, <2>2
<1> QED BY <1>1, <1>3, <1>4, <1>5 DEF Has, HasIn

(* begin() and end() on their way: only the buffers change.                 *)
LEMMA QuittingStep ==
  ASSUME Inv, NEW t \in Tasks, NEW what \in Quitting, Does(t, what),
         NEW b \in Ports, b = Now(t).b,
         ~Has(t, {"finish"}, b), \A c \in Ports : ~Has(t, {"uninitialize"}, c),
         NEW r, Fresh(r), agenda' = [agenda EXCEPT ![t] = r],
         \A i \in 1 .. Len(r) : r[i].b = b /\ r[i].op \notin {"lockWire", "finish"},
         HasIn(r, Quitting, b),
         NEW v \in BOOLEAN, wire' = [wire EXCEPT ![b].buffers = v],
         b \in initialized => v \/ b \in halfStarted \/ b \in halfEnded,
         HasIn(r, {"begun"}, b) => v /\ b \notin initialized,
         HasIn(r, {"free"}, b) /\ b \in initialized => HasIn(r, Stops, b) \/ b \in halfEnded,
         UNCHANGED said, UNCHANGED local, OnlyTheAgenda, Noted
  PROVE  Inv'
<1>1. UNCHANGED <<pins, deinit_functions, initialized, installed, bus, lock, local, said>>
  BY DEF OnlyTheAgenda, unchangedPeriMan, unchangedHal, halVars
<1>2. /\ agenda' \in [Tasks -> Seq(Operation)]
      /\ agenda'[t] = r /\ \A u \in Tasks \ {t} : agenda'[u] = agenda[u]
      /\ Shape' /\ HalHeld' /\ Drivers'
  BY <1>1, FreshAgenda
<1>3. /\ wire' \in [Ports -> [currentTaskHandle : Tasks \cup {NULL}, nonStop : BOOLEAN,
                              txAddress : Devices \cup {NULL}, tx : Seq(Tasks),
                              buffers : BOOLEAN, abandoned : BOOLEAN]]
      /\ \A c \in Ports : /\ wire'[c].currentTaskHandle = wire[c].currentTaskHandle
                          /\ wire'[c].nonStop = wire[c].nonStop
                          /\ wire'[c].abandoned = wire[c].abandoned
                          /\ wire'[c].txAddress = wire[c].txAddress
                          /\ wire'[c].tx = wire[c].tx
                          /\ wire'[c].buffers = IF c = b THEN v ELSE wire[c].buffers
  <2>1. wire \in [Ports -> [currentTaskHandle : Tasks \cup {NULL}, nonStop : BOOLEAN,
                            txAddress : Devices \cup {NULL}, tx : Seq(Tasks),
                            buffers : BOOLEAN, abandoned : BOOLEAN]]
    BY DEF Inv, Types, TypeOK
  <2>2. ASSUME NEW w \in [currentTaskHandle : Tasks \cup {NULL}, nonStop : BOOLEAN,
                           txAddress : Devices \cup {NULL}, tx : Seq(Tasks),
                           buffers : BOOLEAN, abandoned : BOOLEAN],
               NEW x, x = [w EXCEPT !.buffers = v]
        PROVE  /\ x \in [currentTaskHandle : Tasks \cup {NULL}, nonStop : BOOLEAN,
                          txAddress : Devices \cup {NULL}, tx : Seq(Tasks),
                          buffers : BOOLEAN, abandoned : BOOLEAN]
               /\ x.currentTaskHandle = w.currentTaskHandle /\ x.nonStop = w.nonStop
               /\ x.abandoned = w.abandoned /\ x.txAddress = w.txAddress /\ x.tx = w.tx
               /\ x.buffers = v
    BY ONLY v \in BOOLEAN, <2>2
  <2> DEFINE W == [currentTaskHandle : Tasks \cup {NULL}, nonStop : BOOLEAN,
                   txAddress : Devices \cup {NULL}, tx : Seq(Tasks),
                   buffers : BOOLEAN, abandoned : BOOLEAN]
  <2>3. wire \in [Ports -> W] /\ \A w \in W : [w EXCEPT !.buffers = v] \in W
    BY <2>1, <2>2
  <2> HIDE DEF W
  <2>4. /\ wire' \in [Ports -> W] /\ \A c \in Ports : wire[c] \in W
        /\ wire'[b] = [wire[b] EXCEPT !.buffers = v]
        /\ \A c \in Ports \ {b} : wire'[c] = wire[c]
    BY <2>3
  <2>5. /\ wire'[b].currentTaskHandle = wire[b].currentTaskHandle /\ wire'[b].nonStop = wire[b].nonStop
        /\ wire'[b].abandoned = wire[b].abandoned /\ wire'[b].txAddress = wire[b].txAddress
        /\ wire'[b].tx = wire[b].tx /\ wire'[b].buffers = v
    BY <2>2, <2>4 DEF W
  <2> QED BY <2>4, <2>5 DEF W
<1>4. Types'
  BY <1>1, <1>2, <1>3 DEF Inv, Types, TypeOK, I2cTypeOK, PeriManTypeOK, Noted
<1>5. /\ lock[Wire(b)] = t /\ \A c \in Ports : lock[Wire(c)] = t => c = b
      /\ said[t] = NoSaying /\ wire[b].currentTaskHandle # t
  BY AtWireOp DEF WireOps
<1>6. \A u \in Tasks \ {t} : /\ \A some, c : Has(u, some, c)' <=> Has(u, some, c)
                             /\ Does(u, "lockWire")' <=> Does(u, "lockWire")
                             /\ Now(u)' = Now(u)
  BY <1>2 DEF Has, Does, Idle, Now
<1>7. /\ \A some, c : Has(t, some, c)' <=> HasIn(r, some, c)
      /\ \A some, c : Has(t, some, c)' => c = b
      /\ ~Has(t, {"finish"}, b)' /\ Has(t, Quitting, b)' /\ Has(t, WireOps, b)'
  <2>1. \A some, c : HasIn(r, some, c) => c = b
    BY DEF HasIn
  <2>2. ~HasIn(r, {"finish"}, b) /\ HasIn(r, WireOps, b)
    BY DEF HasIn, WireOps
  <2>3. \A some, c : Has(t, some, c)' <=> HasIn(r, some, c)
    BY <1>2 DEF Has
  <2> QED BY <2>1, <2>2, <2>3
<1>8. ~Does(t, "lockWire")' /\ ~Does(t, "lockWire")
  <2>1. ~Does(t, "lockWire")
    BY NowIsOperation DEF Does, Quitting
  <2>2. r # <<>> => 1 \in 1 .. Len(r)
    BY DEF Fresh
  <2> QED BY <1>2, <2>1, <2>2 DEF Does, Idle, Now
<1>9. WireHeld'
  <2>1. WireHeld
    BY DEF Inv
  <2> QED BY ONLY <1>1, <1>5, <1>6, <1>7, <2>1 DEF WireHeld
<1>10. Waits'
  <2>1. Waits
    BY DEF Inv
  <2> QED BY ONLY <1>6, <1>8, <2>1 DEF Waits
<1>11. \A u \in Tasks \ {t} : /\ ~Has(u, {"begun"}, b)
                              /\ Has(u, {"free"}, b) => Has(u, {"end"}, b)
  <2> SUFFICES ASSUME NEW u \in Tasks \ {t}
               PROVE  ~Has(u, {"begun"}, b) /\ (Has(u, {"free"}, b) => Has(u, {"end"}, b))
    OBVIOUS
  <2>1. CASE Does(u, "lockWire")
    <3>1. Waits /\ u \in Tasks
      BY DEF Inv
    <3> QED BY ONLY <2>1, <3>1, b \in Ports DEF Waits
  <2>2. CASE ~Does(u, "lockWire")
    <3>1. ~Has(u, WireOps, b)
      BY <1>5, <2>2 DEF Inv, WireHeld
    <3> QED BY <3>1 DEF Has, HasIn, WireOps, Quitting
  <2> QED BY <2>1, <2>2
<1>12. Buffers'
  <2>1. Buffers /\ initialized' = initialized /\ initialized \subseteq Ports
    BY <1>1, TheRestIsTyped DEF Inv
  <2>2. \A u \in Tasks \ {t} : Started(u)' <=> Started(u)
    BY <1>1, <1>2 DEF Started
  <2>3. \A c \in initialized' : /\ c \in halfStarted => c \in halfStarted'
                                /\ c \in halfEnded => c \in halfEnded'
    BY DEF Noted
  <2>4. \A c \in initialized' : wire'[c].buffers \/ c \in halfStarted' \/ c \in halfEnded'
    BY <1>3, <2>1, <2>3 DEF Buffers
  <2>5. ASSUME NEW u \in Tasks, NEW c \in Ports, Has(u, {"begun"}, c)'
        PROVE  /\ wire'[c].buffers
               /\ c \in initialized' => \/ Started(u)' \/ Has(u, {"setScl", "registered"}, c)'
                                       \/ Undoing(u, c)' \/ c \in halfStarted'
    <3>1. CASE u = t
      BY <1>3, <1>7, <2>1, <2>5, <3>1
    <3>2. CASE u # t
      <4>1. Has(u, {"begun"}, c) /\ c # b /\ wire'[c].buffers = wire[c].buffers
        BY <1>3, <1>6, <1>11, <2>5, <3>2
      <4>2. /\ Has(u, {"setScl", "registered"}, c)' <=> Has(u, {"setScl", "registered"}, c)
            /\ Undoing(u, c)' <=> Undoing(u, c)
        BY <1>6, <3>2 DEF Undoing
      <4>3. /\ wire[c].buffers
            /\ c \in initialized => \/ Started(u) \/ Has(u, {"setScl", "registered"}, c)
                                    \/ Undoing(u, c) \/ c \in halfStarted
        BY <2>1, <4>1 DEF Buffers
      <4> QED BY ONLY <2>1, <2>2, <2>3, <3>2, <4>1, <4>2, <4>3, u \in Tasks
    <3> QED BY <3>1, <3>2
  <2>6. ASSUME NEW u \in Tasks, NEW c \in initialized', Has(u, {"free"}, c)'
        PROVE  Has(u, Stops \cup {"end"}, c)' \/ c \in halfEnded'
    <3>1. CASE u = t
      <4>1. HasIn(r, {"free"}, b) /\ c = b
        BY <1>7, <2>6, <3>1
      <4>2. HasIn(r, Stops \cup {"end"}, b) \/ b \in halfEnded
        BY <2>1, <4>1 DEF HasIn
      <4> QED BY <1>7, <2>1, <2>3, <3>1, <4>1, <4>2
    <3>2. CASE u # t
      BY <1>6, <2>1, <2>3, <2>6, <3>2 DEF Buffers
    <3> QED BY <3>1, <3>2
  <2> QED BY <2>4, <2>5, <2>6 DEF Buffers
<1>13. \A u \in Tasks, c \in Ports : said[u].b = c => c # b
  <2>1. Telling /\ NULL \notin Ports
    BY I2cAssumption, NullAssumption DEF Inv, Sayings
  <2>2. NoSaying.b = NULL
    BY DEF NoSaying
  <2> QED BY <1>5, <2>1, <2>2 DEF Telling
<1>14. Telling'
  <2>1. Telling
    BY DEF Inv, Sayings
  <2> QED BY ONLY <1>1, <1>3, <1>13, <2>1 DEF Telling
<1>15. Outsiders'
  <2>1. Outsiders
    BY DEF Inv, Sayings
  <2> QED BY ONLY <1>1, <1>3, <1>5, <1>6, <1>7, <2>1 DEF Outsiders
<1>16. OneObject'
  <2>1. OneObject
    BY DEF Inv, Sayings
  <2> QED BY ONLY <1>1, <1>5, <1>6, <1>7, <2>1 DEF OneObject
<1>17. Owners'
  <2>1. Owners
    BY DEF Inv, Sayings
  <2>2. ASSUME NEW u \in Tasks, NEW c \in Ports
        PROVE  /\ wire'[c].currentTaskHandle = u => lock'[Wire(c)] = u
               /\ lock'[Wire(c)] = u =>
                    said'[u].b = c \/ ~wire'[c].buffers
                      \/ (Has(u, WireOps, c)' /\ ~Does(u, "lockWire")')
    <3>1. wire'[c].currentTaskHandle = u => lock'[Wire(c)] = u
      BY <1>1, <1>3, <2>1 DEF Owners
    <3>2. CASE u = t
      BY <1>1, <1>5, <1>7, <1>8, <3>1, <3>2
    <3>3. CASE u # t
      <4>1. lock[Wire(c)] = u => c # b /\ (said[u].b = c \/ ~wire[c].buffers
                                   \/ (Has(u, WireOps, c) /\ ~Does(u, "lockWire")))
        BY <1>5, <2>1, <3>3 DEF Owners
      <4> QED BY <1>1, <1>3, <1>6, <3>1, <3>3, <4>1
    <3> QED BY <3>2, <3>3
  <2> QED BY <2>2 DEF Owners
<1>18. Restarts'
  <2>1. Restarts
    BY DEF Inv
  <2>2. \A c \in Ports : ~Has(t, {"finish"}, c)
    <3>1. \A c \in Ports : Has(t, {"finish"}, c) => c = b
      <4>1. \A c : Has(t, {"finish"}, c) => Has(t, WireOps \cup {"lockWire"}, c)
        BY DEF Has, HasIn, WireOps
      <4> QED BY <1>5, <4>1 DEF Inv, Sayings, OneObject
    <3> QED BY <3>1
  <2>3. ASSUME NEW c \in Ports
        PROVE  \/ \E u \in Tasks : Has(u, {"finish"}, c)'
               \/ wire'[c].nonStop <=>
                    (wire'[c].abandoned \/ \E u \in Tasks : said'[u].b = c /\ said'[u].restart)
    <3>1. CASE \E u \in Tasks : Has(u, {"finish"}, c)
      BY <1>6, <2>2, <3>1
    <3>2. CASE ~\E u \in Tasks : Has(u, {"finish"}, c)
      BY <1>1, <1>3, <2>1, <3>2 DEF Restarts
    <3> QED BY <3>1, <3>2
  <2> QED BY <2>3 DEF Restarts
<1> QED BY <1>2, <1>4, <1>9, <1>10, <1>12, <1>14, <1>15, <1>16, <1>17, <1>18 DEF Inv, Sayings

LEMMA Returning ==
  ASSUME NEW b \in Ports
  PROVE  LET r == <<For("unlockWire", b)>>
         IN /\ Fresh(r) /\ HasIn(r, Quitting, b) /\ HasIn(r, WireOps, b)
            /\ \A i \in 1 .. Len(r) : r[i].b = b /\ r[i].op = "unlockWire"
<1> DEFINE a == For("unlockWire", b)
           r == <<a>>
<1>1. a \in Operation /\ a.op = "unlockWire" /\ a.b = b
  BY ForIsOperation DEF OpNames, WireOps, Quitting
<1> HIDE DEF a
<1>2. Len(r) = 1 /\ r[1] = a /\ r \in Seq(Operation)
  BY <1>1
<1> HIDE DEF r
<1>3. \A i \in 1 .. Len(r) : i = 1
  BY <1>2
<1>4. InOrder(r)
  BY <1>1, <1>2, <1>3 DEF InOrder, Follows, After, Nothing, For, Op, LastOps, InitOps
<1>5. \A i \in 1 .. Len(r) : ~Open(r, i) /\ r[i].op # "onTheBus"
  BY <1>1, <1>2, <1>3 DEF Open, HalOps
<1>6. HasIn(r, Quitting, b) /\ HasIn(r, WireOps, b)
  BY <1>1, <1>2 DEF HasIn, Quitting, WireOps
<1>7. OnePort(r)
  BY <1>3 DEF OnePort
<1>8. \A i \in 1 .. Len(r) : r[i].b = b /\ r[i].op = "unlockWire"
  BY <1>1, <1>2, <1>3
<1> QED BY <1>2, <1>4, <1>5, <1>6, <1>7, <1>8 DEF Fresh, r, a

LEMMA Starting ==
  ASSUME NEW b \in Ports
  PROVE  LET r == <<For("lockHal", b), For("init", b), For("begun", b)>>
         IN /\ Fresh(r) /\ HasIn(r, Quitting, b)
            /\ \A i \in 1 .. Len(r) : r[i].b = b /\ r[i].op \in {"lockHal", "init", "begun"}
<1> DEFINE a == For("lockHal", b)
           c == For("init", b)
           d == For("begun", b)
           r == <<a, c, d>>
<1>1. /\ a \in Operation /\ a.op = "lockHal" /\ a.b = b
      /\ c \in Operation /\ c.op = "init" /\ c.b = b
      /\ d \in Operation /\ d.op = "begun" /\ d.b = b /\ d = For("begun", c.b)
  BY ForIsOperation DEF OpNames, WireOps, Quitting, InitOps
<1> HIDE DEF a, c, d
<1>2. Len(r) = 3 /\ r[1] = a /\ r[2] = c /\ r[3] = d /\ r \in Seq(Operation)
  BY <1>1
<1> HIDE DEF r
<1>3. \A i \in 1 .. Len(r) : i = 1 \/ i = 2 \/ i = 3
  BY <1>2
<1>4. After(r, 1) = c /\ After(r, 2) = d /\ After(r, 3) = Nothing
  BY <1>2 DEF After
<1>5. Follows(a, c) /\ Follows(c, d) /\ Follows(d, Nothing)
  BY <1>1 DEF Follows, Nothing, For, Op, LastOps, InitOps, Locked
<1>6. InOrder(r)
  BY <1>2, <1>3, <1>4, <1>5 DEF InOrder
<1>7. \A i \in 1 .. Len(r) : ~Open(r, i) /\ r[i].op # "onTheBus"
  BY <1>1, <1>2, <1>3 DEF Open, HalOps
<1>8. HasIn(r, Quitting, b)
  BY <1>1, <1>2 DEF HasIn, Quitting
<1>9. \A i \in 1 .. Len(r) : r[i].b = b /\ r[i].op \in {"lockHal", "init", "begun"}
  BY <1>1, <1>2, <1>3
<1>10. OnePort(r)
  BY <1>9 DEF OnePort
<1> QED BY <1>2, <1>6, <1>7, <1>8, <1>9, <1>10 DEF Fresh, r, a, c, d

LEMMA Freeing ==
  ASSUME NEW b \in Ports
  PROVE  LET r == <<For("free", b), For("unlockWire", b)>>
         IN /\ Fresh(r) /\ HasIn(r, Quitting, b)
            /\ \A i \in 1 .. Len(r) : r[i].b = b /\ r[i].op \in {"free", "unlockWire"}
<1> DEFINE a == For("free", b)
           c == For("unlockWire", b)
           r == <<a, c>>
<1>1. /\ a \in Operation /\ a.op = "free" /\ a.b = b
      /\ c \in Operation /\ c.op = "unlockWire" /\ c.b = b /\ c = For("unlockWire", a.b)
  BY ForIsOperation DEF OpNames, WireOps, Quitting
<1> HIDE DEF a, c
<1>2. Len(r) = 2 /\ r[1] = a /\ r[2] = c /\ r \in Seq(Operation)
  BY <1>1
<1> HIDE DEF r
<1>3. \A i \in 1 .. Len(r) : i = 1 \/ i = 2
  BY <1>2
<1>4. After(r, 1) = c /\ After(r, 2) = Nothing
  BY <1>2 DEF After
<1>5. Follows(a, c) /\ Follows(c, Nothing)
  BY <1>1 DEF Follows, Nothing, For, Op, LastOps, InitOps
<1>6. InOrder(r)
  BY <1>2, <1>3, <1>4, <1>5 DEF InOrder
<1>7. \A i \in 1 .. Len(r) : ~Open(r, i) /\ r[i].op # "onTheBus"
  BY <1>1, <1>2, <1>3 DEF Open, HalOps
<1>8. HasIn(r, Quitting, b)
  BY <1>1, <1>2 DEF HasIn, Quitting
<1>9. \A i \in 1 .. Len(r) : r[i].b = b /\ r[i].op \in {"free", "unlockWire"}
  BY <1>1, <1>2, <1>3
<1>10. OnePort(r)
  BY <1>9 DEF OnePort
<1> QED BY <1>2, <1>6, <1>7, <1>8, <1>9, <1>10 DEF Fresh, r, a, c

LEMMA Stopping ==
  ASSUME NEW b \in Ports
  PROVE  LET r == <<For("lockHal", b), For("deinit", b), For("free", b), For("unlockWire", b)>>
         IN /\ Fresh(r) /\ HasIn(r, Quitting, b) /\ HasIn(r, Stops, b)
            /\ \A i \in 1 .. Len(r) :
                 r[i].b = b /\ r[i].op \in {"lockHal", "deinit", "free", "unlockWire"}
<1> DEFINE a == For("lockHal", b)
           c == For("deinit", b)
           d == For("free", b)
           e == For("unlockWire", b)
           r == <<a, c, d, e>>
<1>1. /\ a \in Operation /\ a.op = "lockHal" /\ a.b = b
      /\ c \in Operation /\ c.op = "deinit" /\ c.b = b
      /\ d \in Operation /\ d.op = "free" /\ d.b = b
      /\ e \in Operation /\ e.op = "unlockWire" /\ e.b = b /\ e = For("unlockWire", d.b)
  BY ForIsOperation DEF OpNames, WireOps, Quitting, HalOps
<1> HIDE DEF a, c, d, e
<1>2. Len(r) = 4 /\ r[1] = a /\ r[2] = c /\ r[3] = d /\ r[4] = e /\ r \in Seq(Operation)
  BY <1>1
<1> HIDE DEF r
<1>3. \A i \in 1 .. Len(r) : i = 1 \/ i = 2 \/ i = 3 \/ i = 4
  BY <1>2
<1>4. After(r, 1) = c /\ After(r, 2) = d /\ After(r, 3) = e /\ After(r, 4) = Nothing
  BY <1>2 DEF After
<1>5. Follows(a, c) /\ Follows(c, d) /\ Follows(d, e) /\ Follows(e, Nothing)
  BY <1>1 DEF Follows, Nothing, For, Op, LastOps, InitOps, Locked
<1>6. InOrder(r)
  BY <1>2, <1>3, <1>4, <1>5 DEF InOrder
<1>7. \A i \in 1 .. Len(r) : ~Open(r, i) /\ r[i].op # "onTheBus"
  BY <1>1, <1>2, <1>3 DEF Open, HalOps
<1>8. HasIn(r, Quitting, b) /\ HasIn(r, Stops, b)
  BY <1>1, <1>2 DEF HasIn, Quitting, Stops
<1>9. \A i \in 1 .. Len(r) :
        r[i].b = b /\ r[i].op \in {"lockHal", "deinit", "free", "unlockWire"}
  BY <1>1, <1>2, <1>3
<1>10. OnePort(r)
  BY <1>9 DEF OnePort
<1> QED BY <1>2, <1>6, <1>7, <1>8, <1>9, <1>10 DEF Fresh, r, a, c, d, e

(* The agenda after the last operation of a call.                           *)
LEMMA AfterLastOp ==
  ASSUME Inv, NEW t \in Tasks, NEW what \in LastOps, Does(t, what),
         NEW ops \in Seq(Operation), Becomes(t, ops)
  PROVE  agenda' = [agenda EXCEPT ![t] = ops]
<1>1. Tail(agenda[t]) = <<>>
  BY AtLastOp
<1>2. ops \o <<>> = ops
  BY ConcatEmptySeq
<1> QED BY <1>1, <1>2 DEF Becomes

LEMMA BeginKeepsInv ==
  ASSUME Inv, NEW t \in Tasks, Begin(t), Noted
  PROVE  Inv'
<1>1. Does(t, "begin") /\ OnlyTheAgenda /\ UNCHANGED local /\ UNCHANGED said
  BY DEF Begin
<1>2. Now(t) \in Operation /\ Now(t).op = "begin"
  BY <1>1, NowIsOperation
<1>3. PICK b \in Ports : b = Now(t).b
  BY <1>2 DEF Operation, PinOps
<1>4. \A some, c : Has(t, some, c) => "begin" \in some
  BY <1>1, AtLastOp DEF LastOps
<1>5. ~Has(t, {"finish"}, b) /\ \A c \in Ports : ~Has(t, {"uninitialize"}, c)
  BY <1>4
<1>6. "begin" \in Quitting /\ "begin" \in LastOps
  BY DEF Quitting, LastOps
<1>7. /\ wire \in [Ports -> [currentTaskHandle : Tasks \cup {NULL}, nonStop : BOOLEAN,
                             txAddress : Devices \cup {NULL}, tx : Seq(Tasks),
                             buffers : BOOLEAN, abandoned : BOOLEAN]]
      /\ \A c \in initialized : wire[c].buffers \/ c \in halfStarted \/ c \in halfEnded
  BY DEF Inv, Types, TypeOK, Buffers
<1>8. ASSUME NEW v \in BOOLEAN, wire' = [wire EXCEPT ![b].buffers = v],
             b \in initialized => v \/ b \in halfStarted \/ b \in halfEnded,
             Becomes(t, <<For("unlockWire", b)>>)
      PROVE  Inv'
  <2> DEFINE r == <<For("unlockWire", b)>>
  <2>1. /\ Fresh(r) /\ HasIn(r, Quitting, b)
        /\ \A i \in 1 .. Len(r) : r[i].b = b /\ r[i].op = "unlockWire"
    BY Returning
  <2> HIDE DEF r
  <2>2. agenda' = [agenda EXCEPT ![t] = r]
    BY <1>1, <1>6, <1>8, <2>1, AfterLastOp DEF Fresh, r
  <2>3. ~HasIn(r, {"begun"}, b) /\ ~HasIn(r, {"free"}, b)
    BY <2>1 DEF HasIn
  <2> QED BY <1>1, <1>3, <1>5, <1>6, <1>8, <2>1, <2>2, <2>3, QuittingStep
<1>9. CASE b \in initialized /\ Becomes(t, <<For("unlockWire", b)>>) /\ UNCHANGED wire
  <2>1. wire' = [wire EXCEPT ![b].buffers = wire[b].buffers] /\ wire[b].buffers \in BOOLEAN
    BY <1>7, <1>9
  <2> QED BY <1>7, <1>8, <1>9, <2>1
<1>10. CASE /\ b \notin initialized /\ Becomes(t, <<For("unlockWire", b)>>)
            /\ wire' = [wire EXCEPT ![b].buffers = FALSE]
  BY <1>8, <1>10
<1>11. CASE /\ b \notin initialized
            /\ Becomes(t, <<For("lockHal", b), For("init", b), For("begun", b)>>)
            /\ wire' = [wire EXCEPT ![b].buffers = TRUE]
  <2> DEFINE r == <<For("lockHal", b), For("init", b), For("begun", b)>>
  <2>1. /\ Fresh(r) /\ HasIn(r, Quitting, b)
        /\ \A i \in 1 .. Len(r) : r[i].b = b /\ r[i].op \in {"lockHal", "init", "begun"}
    BY Starting
  <2>2. Becomes(t, r)
    BY <1>11
  <2> HIDE DEF r
  <2>3. agenda' = [agenda EXCEPT ![t] = r]
    BY <1>1, <1>6, <2>1, <2>2, AfterLastOp DEF Fresh
  <2>4. ~HasIn(r, {"free"}, b)
    BY <2>1 DEF HasIn
  <2> QED BY <1>1, <1>3, <1>5, <1>6, <1>11, <2>1, <2>3, <2>4, QuittingStep
<1> QED BY <1>3, <1>9, <1>10, <1>11 DEF Begin

LEMMA BegunKeepsInv ==
  ASSUME Inv, NEW t \in Tasks, Begun(t), Noted
  PROVE  Inv'
<1>1. Does(t, "begun") /\ OnlyTheAgenda /\ UNCHANGED local /\ UNCHANGED said
  BY DEF Begun
<1>2. /\ Now(t) \in Operation /\ Now(t).op = "begun" /\ Now(t) = agenda[t][1]
      /\ Len(agenda[t]) \in Nat \ {0}
  BY <1>1, NowIsOperation
<1>3. PICK b \in Ports : b = Now(t).b
  BY <1>2 DEF Operation, PinOps
<1>4. \A some, c : Has(t, some, c) => "begun" \in some
  BY <1>1, AtLastOp DEF LastOps
<1>5. ~Has(t, {"finish"}, b) /\ \A c \in Ports : ~Has(t, {"uninitialize"}, c)
  BY <1>4
<1>6. "begun" \in Quitting /\ "begun" \in LastOps
  BY DEF Quitting, LastOps
<1> DEFINE r == <<For("unlockWire", b)>>
           v == wire[b].buffers /\ local[t].result
<1>7. Becomes(t, r) /\ wire' = [wire EXCEPT ![b].buffers = v]
  BY <1>3 DEF Begun
<1>8. /\ Fresh(r) /\ HasIn(r, Quitting, b)
      /\ \A i \in 1 .. Len(r) : r[i].b = b /\ r[i].op = "unlockWire"
  BY Returning
<1> HIDE DEF r
<1>9. agenda' = [agenda EXCEPT ![t] = r]
  BY <1>1, <1>6, <1>7, <1>8, AfterLastOp DEF Fresh
<1>10. ~HasIn(r, {"begun"}, b) /\ ~HasIn(r, {"free"}, b)
  BY <1>8 DEF HasIn
<1>11. v \in BOOLEAN
  OBVIOUS
<1>12. b \in initialized => v \/ b \in halfStarted
  <2>1. 1 \in 1 .. Len(agenda[t])
    BY <1>2
  <2>2. Has(t, {"begun"}, b)
    BY <1>2, <1>3, <2>1 DEF Has, HasIn
  <2>3. ~Has(t, {"setScl", "registered"}, b) /\ ~Undoing(t, b)
    BY <1>4 DEF Undoing
  <2>4. /\ wire[b].buffers
        /\ b \in initialized => Started(t) \/ b \in halfStarted
    BY <2>2, <2>3 DEF Inv, Buffers
  <2> QED BY <2>4 DEF Started
<1> HIDE DEF v
<1> QED BY <1>1, <1>3, <1>5, <1>6, <1>7, <1>8, <1>9, <1>10, <1>11, <1>12, QuittingStep

(* The agendas that are put together from parts.                            *)
LEMMA JoinedFour ==
  ASSUME NEW a \in Operation, NEW b \in Operation, NEW c \in Operation, NEW d \in Operation
  PROVE  /\ <<a, b>> \o <<c, d>> = <<a, b, c, d>>
         /\ <<a, b, c>> \o <<d>> = <<a, b, c, d>>
<1> DEFINE s == <<a, b>>
           u == <<c, d>>
           x == <<a, b, c>>
           y == <<d>>
           r == <<a, b, c, d>>
           v == s \o u
           w == x \o y
<1>1. /\ s \in Seq(Operation) /\ Len(s) = 2 /\ s[1] = a /\ s[2] = b
      /\ u \in Seq(Operation) /\ Len(u) = 2 /\ u[1] = c /\ u[2] = d
      /\ x \in Seq(Operation) /\ Len(x) = 3 /\ x[1] = a /\ x[2] = b /\ x[3] = c
      /\ y \in Seq(Operation) /\ Len(y) = 1 /\ y[1] = d
      /\ r \in Seq(Operation) /\ Len(r) = 4 /\ r[1] = a /\ r[2] = b /\ r[3] = c /\ r[4] = d
  OBVIOUS
<1> HIDE DEF s, u, r, x, y
<1>2. /\ v \in Seq(Operation) /\ Len(v) = Len(s) + Len(u)
      /\ \A i \in 1 .. Len(s) + Len(u) : v[i] = IF i <= Len(s) THEN s[i] ELSE u[i - Len(s)]
      /\ w \in Seq(Operation) /\ Len(w) = Len(x) + Len(y)
      /\ \A i \in 1 .. Len(x) + Len(y) : w[i] = IF i <= Len(x) THEN x[i] ELSE y[i - Len(x)]
  BY <1>1, ConcatProperties
<1> HIDE DEF v, w
<1>3. /\ Len(v) = 4
      /\ \A i \in 1 .. 4 : v[i] = IF i <= 2 THEN s[i] ELSE u[i - 2]
  BY <1>1, <1>2
<1>4. /\ Len(w) = 4
      /\ \A i \in 1 .. 4 : w[i] = IF i <= 3 THEN x[i] ELSE y[i - 3]
  <2>1. Len(w) = 4 /\ Len(x) = 3 /\ Len(x) + Len(y) = 4
    BY <1>1, <1>2
  <2> QED BY <1>2, <2>1
<1>5. v[1] = a /\ v[2] = b /\ v[3] = c /\ v[4] = d
  BY <1>1, <1>3
<1>6. w[1] = a /\ w[2] = b /\ w[3] = c /\ w[4] = d
  BY <1>1, <1>4
<1>7. \A i \in 1 .. 4 : i = 1 \/ i = 2 \/ i = 3 \/ i = 4
  OBVIOUS
<1>8. \A i \in 1 .. Len(r) : r[i] = v[i] /\ r[i] = w[i]
  BY <1>1, <1>5, <1>6, <1>7
<1>9. r = v
  <2>1. r \in Seq(Operation) /\ v \in Seq(Operation) /\ Len(r) = Len(v)
    BY <1>1, <1>2, <1>3
  <2>2. \A i \in 1 .. Len(r) : r[i] = v[i]
    BY <1>8
  <2> QED BY <2>1, <2>2, SeqEqual
<1>10. r = w
  <2>1. r \in Seq(Operation) /\ w \in Seq(Operation) /\ Len(r) = Len(w)
    BY <1>1, <1>2, <1>4
  <2>2. \A i \in 1 .. Len(r) : r[i] = w[i]
    BY <1>8
  <2> QED BY <2>1, <2>2, SeqEqual
<1> QED BY <1>9, <1>10 DEF s, u, r, v, x, y, w

LEMMA JoinedThree ==
  ASSUME NEW a \in Operation, NEW b \in Operation, NEW c \in Operation
  PROVE  /\ <<a, b>> \o <<c>> = <<a, b, c>>
         /\ <<a>> \o <<b, c>> = <<a, b, c>>
<1> DEFINE s == <<a, b>>
           u == <<c>>
           x == <<a>>
           y == <<b, c>>
           r == <<a, b, c>>
           v == s \o u
           w == x \o y
<1>1. /\ s \in Seq(Operation) /\ Len(s) = 2 /\ s[1] = a /\ s[2] = b
      /\ u \in Seq(Operation) /\ Len(u) = 1 /\ u[1] = c
      /\ x \in Seq(Operation) /\ Len(x) = 1 /\ x[1] = a
      /\ y \in Seq(Operation) /\ Len(y) = 2 /\ y[1] = b /\ y[2] = c
      /\ r \in Seq(Operation) /\ Len(r) = 3 /\ r[1] = a /\ r[2] = b /\ r[3] = c
  OBVIOUS
<1> HIDE DEF s, u, r, x, y
<1>2. /\ v \in Seq(Operation) /\ Len(v) = Len(s) + Len(u)
      /\ \A i \in 1 .. Len(s) + Len(u) : v[i] = IF i <= Len(s) THEN s[i] ELSE u[i - Len(s)]
      /\ w \in Seq(Operation) /\ Len(w) = Len(x) + Len(y)
      /\ \A i \in 1 .. Len(x) + Len(y) : w[i] = IF i <= Len(x) THEN x[i] ELSE y[i - Len(x)]
  BY <1>1, ConcatProperties
<1> HIDE DEF v, w
<1>3. /\ Len(v) = 3
      /\ \A i \in 1 .. 3 : v[i] = IF i <= 2 THEN s[i] ELSE u[i - 2]
  BY <1>1, <1>2
<1>4. /\ Len(w) = 3
      /\ \A i \in 1 .. 3 : w[i] = IF i <= 1 THEN x[i] ELSE y[i - 1]
  BY <1>1, <1>2
<1>5. v[1] = a /\ v[2] = b /\ v[3] = c
  BY <1>1, <1>3
<1>6. w[1] = a /\ w[2] = b /\ w[3] = c
  BY <1>1, <1>4
<1>7. \A i \in 1 .. 3 : i = 1 \/ i = 2 \/ i = 3
  OBVIOUS
<1>8. \A i \in 1 .. Len(r) : r[i] = v[i] /\ r[i] = w[i]
  BY <1>1, <1>5, <1>7, <1>6
<1>9. r = v
  <2>1. r \in Seq(Operation) /\ v \in Seq(Operation) /\ Len(r) = Len(v)
    BY <1>1, <1>2, <1>3
  <2>2. \A i \in 1 .. Len(r) : r[i] = v[i]
    BY <1>8
  <2> QED BY <2>1, <2>2, SeqEqual
<1>10. r = w
  <2>1. r \in Seq(Operation) /\ w \in Seq(Operation) /\ Len(r) = Len(w)
    BY <1>1, <1>2, <1>4
  <2>2. \A i \in 1 .. Len(r) : r[i] = w[i]
    BY <1>8
  <2> QED BY <2>1, <2>2, SeqEqual
<1> QED BY <1>9, <1>10 DEF s, u, r, v, x, y, w

(* What end() has still to do after the driver.                             *)
LEMMA AtEnd ==
  ASSUME Inv, NEW t \in Tasks, Does(t, "end"), NEW b \in Ports, b = Now(t).b
  PROVE  /\ Tail(agenda[t]) = <<For("free", b), For("unlockWire", b)>>
         /\ \A some, c : Has(t, some, c) => some \cap {"end", "free", "unlockWire"} # {}
<1> DEFINE q == agenda[t]
           a == For("free", b)
           c == For("unlockWire", b)
<1>1. /\ Now(t) = q[1] /\ Now(t).op = "end" /\ Len(q) \in Nat \ {0}
      /\ Follows(Now(t), After(q, 1)) /\ q \in Seq(Operation)
  BY NowIsOperation DEF Inv, Types
<1>2. a.op = "free" /\ a.b = b /\ c.op = "unlockWire" /\ Nothing.op = "nothing"
  BY DEF For, Op, Nothing
<1>3. 1 < Len(q) /\ q[2] = a
  <2>1. After(q, 1) = a
    BY <1>1 DEF Follows
  <2> QED BY <1>2, <2>1 DEF After
<1> HIDE DEF a
<1>4. 2 \in 1 .. Len(q)
  BY <1>1, <1>3
<1>5. Follows(q[2], After(q, 2))
  BY <1>4 DEF Inv, Shape, InOrder
<1>6. After(q, 2) = c
  BY <1>2, <1>3, <1>5 DEF Follows
<1> HIDE DEF c
<1>7. 2 < Len(q) /\ q[3] = c
  BY <1>2, <1>6 DEF After
<1>8. 3 \in 1 .. Len(q)
  BY <1>1, <1>7
<1>9. 3 = Len(q)
  BY <1>2, <1>7, <1>8, LastEnds DEF LastOps
<1>10. /\ Len(Tail(q)) = 2 /\ Tail(q) \in Seq(Operation)
       /\ Tail(q)[1] = a /\ Tail(q)[2] = c
  <2>1. ASSUME NEW s \in Seq(Operation), Len(s) = 3
        PROVE  /\ Tail(s) \in Seq(Operation) /\ Len(Tail(s)) = 2
               /\ Tail(s)[1] = s[2] /\ Tail(s)[2] = s[3]
    <3>1. s # <<>>
      BY <2>1
    <3> DEFINE u == Tail(s)
    <3>2. /\ u \in Seq(Operation) /\ Len(u) = Len(s) - 1
          /\ \A i \in 1 .. Len(u) : u[i] = s[i + 1]
      BY <3>1, HeadTailProperties
    <3> HIDE DEF u
    <3>3. Len(u) = 2
      BY <2>1, <3>2
    <3>4. u[1] = s[2] /\ u[2] = s[3]
      BY <3>2, <3>3
    <3> QED BY <3>2, <3>3, <3>4 DEF u
  <2> QED BY <1>1, <1>3, <1>7, <1>9, <2>1
<1>11. a \in Operation /\ c \in Operation
  BY ForIsOperation DEF a, c, OpNames, WireOps, Quitting
<1>12. Tail(q) = <<a, c>>
  <2>1. <<a, c>> \in Seq(Operation) /\ Len(<<a, c>>) = 2
        /\ <<a, c>>[1] = a /\ <<a, c>>[2] = c
    BY <1>11
  <2> HIDE DEF q
  <2>2. \A i \in 1 .. Len(Tail(q)) : Tail(q)[i] = <<a, c>>[i]
    <3>1. PICK m \in Nat : m = 2 /\ m = Len(Tail(q))
      BY ONLY <1>10
    <3>2. \A i \in 1 .. m : i = 1 \/ i = 2
      BY ONLY <3>1
    <3> QED BY <1>10, <2>1, <3>1, <3>2
  <2> QED BY <1>10, <2>1, <2>2, SeqEqual
<1>13. \A i \in 1 .. Len(q) : i = 1 \/ i = 2 \/ i = 3
  <2>1. PICK m \in Nat : m = 3 /\ m = Len(q)
    BY ONLY <1>9
  <2>2. \A i \in 1 .. m : i = 1 \/ i = 2 \/ i = 3
    BY ONLY <2>1
  <2> QED BY ONLY <2>1, <2>2
<1>14. \A some, d : Has(t, some, d) => some \cap {"end", "free", "unlockWire"} # {}
  BY <1>1, <1>2, <1>3, <1>7, <1>13 DEF Has, HasIn
<1> QED BY <1>12, <1>14 DEF a, c

LEMMA EndKeepsInv ==
  ASSUME Inv, NEW t \in Tasks, End(t), Noted
  PROVE  Inv'
<1>1. Does(t, "end") /\ OnlyTheAgenda /\ UNCHANGED local /\ UNCHANGED said /\ wire' = wire
  BY DEF End
<1>2. Now(t) \in Operation /\ Now(t).op = "end"
  BY <1>1, NowIsOperation
<1>3. PICK b \in Ports : b = Now(t).b
  BY <1>2 DEF Operation, PinOps
<1> DEFINE rest == <<For("free", b), For("unlockWire", b)>>
<1>4. /\ Tail(agenda[t]) = rest
      /\ \A some, c : Has(t, some, c) => some \cap {"end", "free", "unlockWire"} # {}
  BY <1>1, <1>3, AtEnd
<1>5. ~Has(t, {"finish"}, b) /\ \A c \in Ports : ~Has(t, {"uninitialize"}, c)
  BY <1>4
<1>6. "end" \in Quitting
  BY DEF Quitting
<1>7. /\ wire' = [wire EXCEPT ![b].buffers = wire[b].buffers] /\ wire[b].buffers \in BOOLEAN
      /\ b \in initialized => wire[b].buffers \/ b \in halfStarted \/ b \in halfEnded
  <2>1. wire \in [Ports -> [currentTaskHandle : Tasks \cup {NULL}, nonStop : BOOLEAN,
                            txAddress : Devices \cup {NULL}, tx : Seq(Tasks),
                            buffers : BOOLEAN, abandoned : BOOLEAN]]
    BY DEF Inv, Types, TypeOK
  <2> QED BY <1>1, <2>1 DEF Inv, Buffers
<1>8. CASE b \in initialized
  <2> DEFINE r == <<For("lockHal", b), For("deinit", b), For("free", b), For("unlockWire", b)>>
  <2>1. /\ Fresh(r) /\ HasIn(r, Quitting, b) /\ HasIn(r, Stops, b)
        /\ \A i \in 1 .. Len(r) :
             r[i].b = b /\ r[i].op \in {"lockHal", "deinit", "free", "unlockWire"}
    BY Stopping
  <2>2. agenda' = [agenda EXCEPT ![t] = Deinit(b) \o rest]
    BY <1>3, <1>4, <1>8 DEF End, Becomes
  <2>3. Deinit(b) \o rest = r
    <3> DEFINE h == For("lockHal", b)
               d == For("deinit", b)
               f == For("free", b)
               u == For("unlockWire", b)
    <3>1. h \in Operation /\ d \in Operation /\ f \in Operation /\ u \in Operation
      BY ForIsOperation DEF OpNames, HalOps, WireOps, Quitting
    <3>2. Deinit(b) = <<h, d>> /\ rest = <<f, u>> /\ r = <<h, d, f, u>>
      BY DEF Deinit
    <3> HIDE DEF h, d, f, u, rest, r
    <3>3. <<h, d>> \o <<f, u>> = <<h, d, f, u>>
      BY <3>1, JoinedFour, ZenonT(30)
    <3> QED BY ONLY <3>2, <3>3
  <2> HIDE DEF r
  <2>4. agenda' = [agenda EXCEPT ![t] = r]
    BY <2>2, <2>3
  <2>5. ~HasIn(r, {"begun"}, b)
    BY <2>1 DEF HasIn
  <2> QED BY <1>1, <1>3, <1>5, <1>6, <1>7, <1>8, <2>1, <2>4, <2>5, QuittingStep
<1>9. CASE b \notin initialized
  <2>1. /\ Fresh(rest) /\ HasIn(rest, Quitting, b)
        /\ \A i \in 1 .. Len(rest) : rest[i].b = b /\ rest[i].op \in {"free", "unlockWire"}
    BY Freeing
  <2>2. agenda' = [agenda EXCEPT ![t] = <<>> \o rest]
    BY <1>3, <1>4, <1>9 DEF End, Becomes
  <2>3. <<>> \o rest = rest
    OBVIOUS
  <2> HIDE DEF rest
  <2>4. ~HasIn(rest, {"begun"}, b)
    BY <2>1 DEF HasIn
  <2> QED BY <1>1, <1>3, <1>5, <1>6, <1>7, <1>9, <2>1, <2>2, <2>3, <2>4, QuittingStep
<1> QED BY <1>8, <1>9

LEMMA FreeWireBufferKeepsInv ==
  ASSUME Inv, NEW t \in Tasks, FreeWireBuffer(t), Noted
  PROVE  Inv'
<1>1. /\ Does(t, "free") /\ OnlyTheAgenda /\ UNCHANGED local /\ UNCHANGED said
      /\ Becomes(t, <<>>)
  BY DEF FreeWireBuffer, Done
<1> DEFINE q == agenda[t]
<1>2. /\ Now(t) \in Operation /\ Now(t).op = "free" /\ Now(t) = q[1]
      /\ Len(q) \in Nat \ {0} /\ Follows(Now(t), After(q, 1)) /\ q \in Seq(Operation)
  BY <1>1, NowIsOperation DEF Inv, Types
<1>3. PICK b \in Ports : b = Now(t).b
  BY <1>2 DEF Operation, PinOps
<1> DEFINE c == For("unlockWire", b)
           r == <<c>>
<1>4. c.op = "unlockWire" /\ c.b = b /\ Nothing.op = "nothing" /\ c \in Operation
  BY ForIsOperation DEF For, Op, Nothing, OpNames, WireOps, Quitting
<1>5. After(q, 1) = c
  BY <1>2, <1>3 DEF Follows
<1> HIDE DEF c
<1>6. 1 < Len(q) /\ q[2] = c
  BY <1>4, <1>5 DEF After
<1>7. 2 \in 1 .. Len(q)
  BY <1>2, <1>6
<1>8. 2 = Len(q)
  BY <1>4, <1>6, <1>7, LastEnds DEF LastOps
<1>9. Tail(q) = r
  <2>1. ASSUME NEW s \in Seq(Operation), Len(s) = 2
        PROVE  Tail(s) \in Seq(Operation) /\ Len(Tail(s)) = 1 /\ Tail(s)[1] = s[2]
    <3>1. s # <<>>
      BY ONLY <2>1
    <3> DEFINE u == Tail(s)
    <3>2. /\ u \in Seq(Operation) /\ Len(u) = Len(s) - 1
          /\ \A i \in 1 .. Len(u) : u[i] = s[i + 1]
      BY <3>1, HeadTailProperties
    <3> HIDE DEF u
    <3>3. Len(u) = 1
      BY <2>1, <3>2
    <3>4. u[1] = s[2]
      BY <3>2, <3>3
    <3> QED BY <3>2, <3>3, <3>4 DEF u
  <2>2. Tail(q) \in Seq(Operation) /\ Len(Tail(q)) = 1 /\ Tail(q)[1] = c
    BY <1>2, <1>6, <1>8, <2>1
  <2>3. r \in Seq(Operation) /\ Len(r) = 1 /\ r[1] = c
    BY <1>4
  <2> HIDE DEF q, r
  <2>4. \A i \in 1 .. Len(Tail(q)) : Tail(q)[i] = r[i]
    <3>1. PICK m \in Nat : m = 1 /\ m = Len(Tail(q))
      BY ONLY <2>2
    <3>2. \A i \in 1 .. m : i = 1
      BY ONLY <3>1
    <3> QED BY <2>2, <2>3, <3>1, <3>2
  <2> QED BY <2>2, <2>3, <2>4, SeqEqual
<1>10. \A i \in 1 .. Len(q) : i = 1 \/ i = 2
  <2>1. PICK m \in Nat : m = 2 /\ m = Len(q)
    BY ONLY <1>8
  <2>2. \A i \in 1 .. m : i = 1 \/ i = 2
    BY ONLY <2>1
  <2> QED BY ONLY <2>1, <2>2
<1>11. \A some, d : Has(t, some, d) => some \cap {"free", "unlockWire"} # {}
  BY <1>2, <1>4, <1>6, <1>10 DEF Has, HasIn
<1>12. ~Has(t, {"finish"}, b) /\ \A d \in Ports : ~Has(t, {"uninitialize"}, d)
  BY <1>11
<1>13. b \in initialized => b \in halfEnded
  <2>1. 1 \in 1 .. Len(q)
    BY <1>2
  <2>2. Has(t, {"free"}, b)
    BY <1>2, <1>3, <2>1 DEF Has, HasIn
  <2>3. ~Has(t, Stops \cup {"end"}, b)
    BY <1>11 DEF Stops
  <2> QED BY <2>2, <2>3 DEF Inv, Buffers
<1>14. /\ Fresh(r) /\ HasIn(r, Quitting, b)
       /\ \A i \in 1 .. Len(r) : r[i].b = b /\ r[i].op = "unlockWire"
  BY Returning DEF c
<1>15. agenda' = [agenda EXCEPT ![t] = r]
  <2>1. <<>> \o r = r
    OBVIOUS
  <2> QED BY <1>1, <1>9, <2>1 DEF Becomes
<1> HIDE DEF r
<1>16. ~HasIn(r, {"begun"}, b) /\ ~HasIn(r, {"free"}, b)
  BY <1>14 DEF HasIn
<1>17. wire' = [wire EXCEPT ![b].buffers = FALSE] /\ "free" \in Quitting
  BY <1>3 DEF FreeWireBuffer, Quitting
<1> QED BY <1>1, <1>3, <1>12, <1>13, <1>14, <1>15, <1>16, <1>17, QuittingStep

(* The end of a call.                                                       *)
LEMMA EmptyIsFresh == Fresh(<<>>)
<1>1. Len(<<>>) = 0 /\ <<>> \in Seq(Operation)
  OBVIOUS
<1>2. \A i \in 1 .. 0 : FALSE
  OBVIOUS
<1> QED BY <1>1, <1>2 DEF Fresh, InOrder, OnePort

LEMMA NothingInEmpty ==
  ASSUME NEW what, NEW b
  PROVE  ~HasIn(<<>>, what, b)
<1>1. Len(<<>>) = 0 /\ \A i \in 1 .. 0 : FALSE
  OBVIOUS
<1> QED BY <1>1 DEF HasIn

LEMMA NoCallIsTyped ==
  ASSUME Inv, NEW t \in Tasks, local' = [local EXCEPT ![t] = NoCall]
  PROVE  local' \in [Tasks -> Call] /\ \A u \in Tasks \ {t} : local'[u] = local[u]
BY DEF Inv, Types, Call, NoCall, NotStarted

LEMMA UnlockWireKeepsInv ==
  ASSUME Inv, NEW t \in Tasks, Unlock(t), Does(t, "unlockWire"), Aside
  PROVE  Inv'
<1>1. Now(t) \in Operation /\ Now(t).op = "unlockWire"
  BY NowIsOperation
<1>2. PICK b \in Ports : b = Now(t).b
  BY <1>1 DEF Operation, PinOps
<1>3. /\ lock' = [lock EXCEPT ![Wire(b)] = "free"] /\ Becomes(t, <<>>)
      /\ local' = [local EXCEPT ![t] = NoCall]
      /\ UNCHANGED <<pins, deinit_functions, initialized, installed, bus, wire, said>>
  BY <1>1, <1>2 DEF Unlock, TheLock, Done, Aside, unchangedPeriMan, unchangedHal, halVars
<1>4. \A some, c : Has(t, some, c) => "unlockWire" \in some /\ c = b
  BY <1>2, AtLastOp DEF LastOps
<1>5. /\ lock[Wire(b)] = t /\ \A c \in Ports : lock[Wire(c)] = t => c = b
      /\ said[t] = NoSaying /\ wire[b].currentTaskHandle # t
  BY <1>2, AtWireOp DEF WireOps, Quitting
<1>6. /\ lock' \in [Locks -> {"free"} \cup Tasks] /\ lock'[Wire(b)] = "free"
      /\ \A m \in Locks \ {Wire(b)} : lock'[m] = lock[m]
  BY <1>2, <1>3, LocksDiffer, LockIsTyped
<1>7. \A c \in Ports : lock'[Hal(c)] = lock[Hal(c)]
  BY <1>2, <1>6, LocksDiffer
<1>8. \A c \in Ports, u \in Tasks : lock'[Wire(c)] = u <=> (lock[Wire(c)] = u /\ u # t)
  <2> SUFFICES ASSUME NEW c \in Ports, NEW u \in Tasks
               PROVE  lock'[Wire(c)] = u <=> (lock[Wire(c)] = u /\ u # t)
    OBVIOUS
  <2>1. CASE c = b
    BY <1>5, <1>6, <2>1, WireAssumption
  <2>2. CASE c # b
    BY <1>2, <1>5, <1>6, <2>2, LocksDiffer
  <2> QED BY <2>1, <2>2
<1>9. agenda' = [agenda EXCEPT ![t] = <<>>]
  <2>1. <<>> \in Seq(Operation)
    OBVIOUS
  <2> QED BY <1>3, <2>1, AfterLastOp DEF LastOps
<1>10. /\ agenda' \in [Tasks -> Seq(Operation)]
       /\ agenda'[t] = <<>> /\ \A u \in Tasks \ {t} : agenda'[u] = agenda[u]
       /\ Shape' /\ HalHeld' /\ Drivers'
  <2>1. \A c \in Ports : ~Has(t, {"uninitialize"}, c)
    BY <1>4
  <2> QED BY <1>3, <1>7, <1>9, <2>1, EmptyIsFresh, FreshAgenda
<1>11. /\ \A some, c : ~Has(t, some, c)'
       /\ ~Does(t, "lockWire")' /\ ~Does(t, "lockWire")
  BY <1>1, <1>10, NothingInEmpty DEF Has, Does, Idle
<1>12. \A u \in Tasks \ {t} : /\ \A some, c : Has(u, some, c)' <=> Has(u, some, c)
                              /\ Does(u, "lockWire")' <=> Does(u, "lockWire")
                              /\ Now(u)' = Now(u)
  BY <1>10 DEF Has, Does, Idle, Now
<1>13. local' \in [Tasks -> Call] /\ \A u \in Tasks \ {t} : local'[u] = local[u]
  BY <1>3, NoCallIsTyped
<1>14. Types'
  BY <1>3, <1>6, <1>10, <1>13, TypesAfter DEF Aside
<1>15. WireHeld'
  <2>1. WireHeld
    BY DEF Inv
  <2> QED BY ONLY <1>8, <1>11, <1>12, <2>1 DEF WireHeld
<1>16. Waits'
  <2>1. Waits
    BY DEF Inv
  <2> QED BY ONLY <1>11, <1>12, <2>1 DEF Waits
<1>17. Buffers'
  <2>1. Buffers /\ initialized \subseteq Ports /\ initialized' = initialized /\ wire' = wire
    BY <1>3, TheRestIsTyped DEF Inv
  <2>2. \A u \in Tasks \ {t} : Started(u)' <=> Started(u)
    BY <1>10, <1>13 DEF Started
  <2>3. \A c \in initialized' : /\ c \in halfStarted => c \in halfStarted'
                                /\ c \in halfEnded => c \in halfEnded'
    BY DEF Aside, Noted
  <2> QED BY ONLY <1>11, <1>12, <2>1, <2>2, <2>3 DEF Buffers, Undoing
<1>18. Telling'
  <2>1. Telling /\ UNCHANGED <<wire, said>>
    BY <1>3 DEF Inv, Sayings
  <2>2. \A c \in Ports : said[t].b # c
    BY <1>5, I2cAssumption, NullAssumption DEF NoSaying
  <2> QED BY ONLY <1>8, <2>1, <2>2 DEF Telling
<1>19. Outsiders'
  <2>1. Outsiders /\ UNCHANGED <<wire, said>>
    BY <1>3 DEF Inv, Sayings
  <2> QED BY ONLY <1>11, <1>12, <2>1 DEF Outsiders
<1>20. OneObject'
  <2>1. OneObject
    BY DEF Inv, Sayings
  <2> QED BY ONLY <1>8, <1>11, <1>12, <2>1 DEF OneObject
<1>21. Owners'
  <2>1. Owners /\ UNCHANGED <<wire, said>>
    BY <1>3 DEF Inv, Sayings
  <2>2. \A c \in Ports : wire[c].currentTaskHandle # t
    BY <1>5, <2>1 DEF Owners
  <2> QED BY ONLY <1>8, <1>12, <2>1, <2>2 DEF Owners
<1>22. Restarts'
  <2>1. Restarts /\ UNCHANGED <<wire, said>>
    BY <1>3 DEF Inv
  <2>2. \A c : ~Has(t, {"finish"}, c)
    BY <1>4
  <2>3. \A u \in Tasks, c \in Ports : Has(u, {"finish"}, c)' <=> Has(u, {"finish"}, c)
    BY <1>11, <1>12, <2>2
  <2> QED BY ONLY <2>1, <2>3 DEF Restarts
<1> QED BY <1>10, <1>14, <1>15, <1>16, <1>17, <1>18, <1>19, <1>20, <1>21, <1>22
        DEF Inv, Sayings

(* A task that talks: what it said, and what its Wire object keeps of that. *)
WireObject == [currentTaskHandle : Tasks \cup {NULL}, nonStop : BOOLEAN,
               txAddress : Devices \cup {NULL}, tx : Seq(Tasks),
               buffers : BOOLEAN, abandoned : BOOLEAN]

LEMMA WireIsTyped ==
  ASSUME Inv
  PROVE  /\ wire \in [Ports -> WireObject] /\ \A b \in Ports : Len(wire[b].tx) <= BufferSize
         /\ said \in [Tasks -> Saying] /\ local \in [Tasks -> Call]
         /\ NULL \notin Tasks /\ NULL \notin Ports /\ BufferSize \in Nat \ {0}
BY I2cAssumption, NullAssumption, WireAssumption DEF Inv, Types, TypeOK, WireObject

Consistent(b, v, w) ==
  \/ w = NoSaying
  \/ /\ w.b = b /\ v.txAddress = w.addr /\ v.tx = w.bytes
     /\ w.restart => v.buffers

LEMMA TalkStep ==
  ASSUME Inv, NEW t \in Tasks, NEW b \in Ports, lock[Wire(b)] = t,
         said[t].b \in {b, NULL},
         \A some, c : Has(t, some, c) => c = b, \A c : ~Has(t, {"uninitialize"}, c),
         ~Does(t, "lockWire"),
         NEW r, Fresh(r), agenda' = [agenda EXCEPT ![t] = r],
         \A i \in 1 .. Len(r) : r[i].b = b /\ r[i].op \notin {"lockWire", "begun", "free"},
         NEW v \in WireObject, wire' = [wire EXCEPT ![b] = v],
         v.buffers = wire[b].buffers, Len(v.tx) <= BufferSize,
         v.currentTaskHandle \in {t, NULL},
         NEW w \in Saying, said' = [said EXCEPT ![t] = w], Consistent(b, v, w),
         HasIn(r, Quitting, b) => w = NoSaying /\ v.currentTaskHandle = NULL,
         w.b = b \/ ~v.buffers \/ HasIn(r, WireOps, b),
         HasIn(r, {"finish"}, b) \/ (v.nonStop <=> (v.abandoned \/ (w.b = b /\ w.restart))),
         local' \in [Tasks -> Call], \A u \in Tasks \ {t} : local'[u] = local[u],
         OnlyTheAgenda, Noted
  PROVE  Inv'
<1>1. UNCHANGED <<pins, deinit_functions, initialized, installed, bus, lock>>
  BY DEF OnlyTheAgenda, unchangedPeriMan, unchangedHal, halVars
<1>2. /\ wire \in [Ports -> WireObject] /\ \A c \in Ports : Len(wire[c].tx) <= BufferSize
      /\ said \in [Tasks -> Saying] /\ NULL \notin Tasks /\ NULL \notin Ports
  BY WireIsTyped
<1>3. /\ agenda' \in [Tasks -> Seq(Operation)]
      /\ agenda'[t] = r /\ \A u \in Tasks \ {t} : agenda'[u] = agenda[u]
      /\ Shape' /\ HalHeld' /\ Drivers'
  BY <1>1, FreshAgenda
<1>4. /\ wire' \in [Ports -> WireObject] /\ wire'[b] = v
      /\ \A c \in Ports : Len(wire'[c].tx) <= BufferSize
      /\ \A c \in Ports \ {b} : wire'[c] = wire[c]
      /\ \A c \in Ports : wire'[c].buffers = wire[c].buffers
  BY <1>2
<1>5. /\ said' \in [Tasks -> Saying] /\ said'[t] = w
      /\ \A u \in Tasks \ {t} : said'[u] = said[u]
  BY <1>2
<1>6. Types'
  BY <1>1, <1>3, <1>4, <1>5
     DEF Inv, Types, TypeOK, I2cTypeOK, PeriManTypeOK, WireObject, Noted
<1>7. \A c \in Ports : lock[Wire(c)] = t => c = b
  BY DEF Inv, Sayings, OneObject
<1>8. \A u \in Tasks \ {t} : /\ \A some, c : Has(u, some, c)' <=> Has(u, some, c)
                             /\ Does(u, "lockWire")' <=> Does(u, "lockWire")
                             /\ Now(u)' = Now(u)
  BY <1>3 DEF Has, Does, Idle, Now
<1>9. /\ \A some, c : Has(t, some, c)' <=> HasIn(r, some, c)
      /\ \A some, c : Has(t, some, c)' => c = b
      /\ \A c : ~Has(t, {"begun"}, c)' /\ ~Has(t, {"free"}, c)'
  <2>1. \A some, c : Has(t, some, c)' <=> HasIn(r, some, c)
    BY <1>3 DEF Has
  <2>2. \A some, c : HasIn(r, some, c) => c = b
    BY DEF HasIn
  <2>3. \A c : ~HasIn(r, {"begun"}, c) /\ ~HasIn(r, {"free"}, c)
    BY DEF HasIn
  <2> QED BY <2>1, <2>2, <2>3
<1>10. ~Does(t, "lockWire")'
  <2>1. r # <<>> => 1 \in 1 .. Len(r)
    BY DEF Fresh
  <2> QED BY <1>3, <2>1 DEF Does, Idle, Now
<1>11. WireHeld'
  <2>1. WireHeld /\ lock[Wire(b)] = t
    BY DEF Inv
  <2> QED BY ONLY <1>1, <1>8, <1>9, <2>1 DEF WireHeld
<1>12. Waits'
  <2>1. Waits
    BY DEF Inv
  <2> QED BY ONLY <1>8, <1>10, <2>1 DEF Waits
<1>13. Buffers'
  <2>1. Buffers /\ initialized' = initialized /\ initialized \subseteq Ports
    BY <1>1, TheRestIsTyped DEF Inv
  <2>2. \A u \in Tasks \ {t} : Started(u)' <=> Started(u)
    BY <1>3 DEF Started
  <2>3. \A c \in initialized' : /\ c \in halfStarted => c \in halfStarted'
                                /\ c \in halfEnded => c \in halfEnded'
    BY DEF Noted
  <2> QED BY ONLY <1>4, <1>8, <1>9, <2>1, <2>2, <2>3 DEF Buffers, Undoing
<1>14. \A u \in Tasks \ {t} : said[u].b # b
  BY DEF Inv, Sayings, Telling
<1>15. w.b \in {b, NULL} /\ (w.b = NULL => w = NoSaying)
  BY <1>2 DEF Consistent, NoSaying
<1>16. Telling'
  <2>1. Telling
    BY DEF Inv, Sayings
  <2>2. ASSUME NEW u \in Tasks \ {t}
        PROVE  /\ said'[u].b = NULL => said'[u] = NoSaying
               /\ \A c \in Ports : said'[u].b = c =>
                    /\ lock'[Wire(c)] = u
                    /\ wire'[c].txAddress = said'[u].addr /\ wire'[c].tx = said'[u].bytes
                    /\ said'[u].restart => wire'[c].buffers
    BY <1>1, <1>4, <1>5, <1>14, <2>1 DEF Telling
  <2>3. /\ w.b = NULL => w = NoSaying
        /\ \A c \in Ports : w.b = c =>
                    /\ lock'[Wire(c)] = t
                    /\ wire'[c].txAddress = w.addr /\ wire'[c].tx = w.bytes
                    /\ w.restart => wire'[c].buffers
    BY <1>1, <1>2, <1>4, <1>15 DEF Consistent, NoSaying
  <2> QED BY <1>5, <2>2, <2>3 DEF Telling
<1>17. Outsiders'
  <2>1. Outsiders
    BY DEF Inv, Sayings
  <2>2. ASSUME NEW u \in Tasks, NEW c \in Ports, Has(u, Quitting, c)'
        PROVE  said'[u] = NoSaying /\ wire'[c].currentTaskHandle # u
    <3>1. CASE u = t
      BY <1>2, <1>4, <1>5, <1>9, <2>2, <3>1
    <3>2. CASE u # t
      <4>1. said[u] = NoSaying /\ wire[c].currentTaskHandle # u
        BY <1>8, <2>1, <2>2, <3>2 DEF Outsiders
      <4> QED BY <1>2, <1>4, <1>5, <3>2, <4>1
    <3> QED BY <3>1, <3>2
  <2> QED BY <2>2 DEF Outsiders
<1>18. OneObject'
  <2>1. OneObject
    BY DEF Inv, Sayings
  <2> QED BY ONLY <1>1, <1>7, <1>8, <1>9, <2>1 DEF OneObject
<1>19. Owners'
  <2>1. Owners
    BY DEF Inv, Sayings
  <2>2. ASSUME NEW u \in Tasks, NEW c \in Ports
        PROVE  /\ wire'[c].currentTaskHandle = u => lock'[Wire(c)] = u
               /\ lock'[Wire(c)] = u =>
                    said'[u].b = c \/ ~wire'[c].buffers
                      \/ (Has(u, WireOps, c)' /\ ~Does(u, "lockWire")')
    <3>1. wire'[c].currentTaskHandle = u => lock'[Wire(c)] = u
      BY <1>1, <1>2, <1>4, <2>1 DEF Owners
    <3>2. CASE u = t
      BY <1>1, <1>4, <1>5, <1>7, <1>9, <1>10, <3>1, <3>2
    <3>3. CASE u # t
      <4>1. lock[Wire(c)] = u => c # b /\ (said[u].b = c \/ ~wire[c].buffers
                                   \/ (Has(u, WireOps, c) /\ ~Does(u, "lockWire")))
        BY <2>1, <3>3 DEF Owners
      <4> QED BY <1>1, <1>4, <1>5, <1>8, <3>1, <3>3, <4>1
    <3> QED BY <3>2, <3>3
  <2> QED BY <2>2 DEF Owners
<1>20. Restarts'
  <2>1. Restarts
    BY DEF Inv
  <2>2. ASSUME NEW c \in Ports
        PROVE  \/ \E u \in Tasks : Has(u, {"finish"}, c)'
               \/ wire'[c].nonStop <=>
                    (wire'[c].abandoned \/ \E u \in Tasks : said'[u].b = c /\ said'[u].restart)
    <3>1. CASE c = b
      <4>1. (\E u \in Tasks : said'[u].b = b /\ said'[u].restart) <=> (w.b = b /\ w.restart)
        BY <1>5, <1>14
      <4> QED BY <1>4, <1>9, <3>1, <4>1
    <3>2. CASE c # b
      <4>1. (\E u \in Tasks : said'[u].b = c /\ said'[u].restart)
              <=> (\E u \in Tasks : said[u].b = c /\ said[u].restart)
        BY <1>2, <1>5, <1>15, <3>2
      <4>2. (\E u \in Tasks : Has(u, {"finish"}, c)) => \E u \in Tasks : Has(u, {"finish"}, c)'
        BY <1>8, <3>2
      <4> QED BY <1>4, <2>1, <3>2, <4>1, <4>2 DEF Restarts
    <3> QED BY <3>1, <3>2
  <2> QED BY <2>2 DEF Restarts
<1> QED BY <1>3, <1>6, <1>11, <1>12, <1>13, <1>16, <1>17, <1>18, <1>19, <1>20
        DEF Inv, Sayings

(* A task at one of the last operations of a transaction's calls.           *)
LEMMA AtTalkOp ==
  ASSUME Inv, NEW t \in Tasks, NEW what \in {"beginTransmission", "requestFrom", "finish"},
         Does(t, what), NEW b \in Ports, b = Now(t).b
  PROVE  /\ lock[Wire(b)] = t /\ said[t].b \in {b, NULL}
         /\ \A some, c : Has(t, some, c) => c = b
         /\ \A c : ~Has(t, {"uninitialize"}, c)
         /\ ~Does(t, "lockWire")
<1>1. what \in WireOps /\ what \in LastOps
  BY DEF WireOps, LastOps
<1>2. lock[Wire(b)] = t /\ \A c \in Ports : lock[Wire(c)] = t => c = b
  BY <1>1, AtWireOp
<1>3. \A some, c : Has(t, some, c) => what \in some /\ c = b
  BY <1>1, AtLastOp
<1>4. \A c : ~Has(t, {"uninitialize"}, c)
  BY <1>3
<1>5. said[t].b \in {b, NULL}
  <2>1. said[t].b \in Ports \cup {NULL}
    BY WireIsTyped DEF Saying
  <2>2. \A c \in Ports : said[t].b = c => lock[Wire(c)] = t
    BY DEF Inv, Sayings, Telling
  <2> QED BY <1>2, <2>1, <2>2
<1>6. ~Does(t, "lockWire")
  BY DEF Does
<1> QED BY <1>2, <1>3, <1>4, <1>5, <1>6

LEMMA DeviceIsTyped ==
  ASSUME Inv, NEW t \in Tasks, local' = [local EXCEPT ![t].device = NULL]
  PROVE  local' \in [Tasks -> Call] /\ \A u \in Tasks \ {t} : local'[u] = local[u]
<1>1. local \in [Tasks -> Call]
  BY WireIsTyped
<1>2. [local[t] EXCEPT !.device = NULL] \in Call
  BY <1>1 DEF Call
<1>3. local' = [local EXCEPT ![t] = [local[t] EXCEPT !.device = NULL]]
  OBVIOUS
<1> QED BY <1>1, <1>2, <1>3

LEMMA BeginTransmissionKeepsInv ==
  ASSUME Inv, NEW t \in Tasks, BeginTransmission(t), Noted
  PROVE  Inv'
<1>1. Does(t, "beginTransmission") /\ Becomes(t, <<>>) /\ OnlyTheAgenda
  BY DEF BeginTransmission, Done
<1>2. Now(t) \in Operation /\ Now(t).op = "beginTransmission"
  BY <1>1, NowIsOperation
<1>3. PICK b \in Ports : b = Now(t).b
  BY <1>2 DEF Operation, PinOps
<1>4. PICK d : d = local[t].device
  OBVIOUS
<1> DEFINE v == [wire[b] EXCEPT !.currentTaskHandle = t, !.nonStop = FALSE,
                                !.txAddress = d, !.tx = <<>>, !.abandoned = FALSE]
           w == [NoSaying EXCEPT !.b = b, !.addr = d]
<1>5. wire \in [Ports -> WireObject] /\ local \in [Tasks -> Call] /\ BufferSize \in Nat \ {0}
  BY WireIsTyped
<1>6. d \in Devices \cup {NULL} /\ <<>> \in Seq(Tasks) /\ Len(<<>>) = 0
  BY <1>4, <1>5 DEF Call
<1>7. wire[b] \in WireObject
  BY <1>5
<1>8. v \in WireObject
  BY <1>6, <1>7 DEF WireObject
<1>9. /\ v.buffers = wire[b].buffers /\ v.tx = <<>> /\ v.txAddress = d
      /\ v.currentTaskHandle = t /\ ~v.nonStop /\ ~v.abandoned
  BY <1>7 DEF WireObject
<1>10. w \in Saying /\ w.b = b /\ w.addr = d /\ w.bytes = <<>> /\ ~w.restart
  BY <1>6 DEF Saying, NoSaying
<1>11. wire' = [wire EXCEPT ![b] = v] /\ said' = [said EXCEPT ![t] = w]
  BY <1>3, <1>4 DEF BeginTransmission
<1> HIDE DEF v, w
<1>12. agenda' = [agenda EXCEPT ![t] = <<>>]
  BY <1>1, EmptyIsFresh, AfterLastOp DEF LastOps, Fresh
<1>13. local' \in [Tasks -> Call] /\ \A u \in Tasks \ {t} : local'[u] = local[u]
  BY DeviceIsTyped DEF BeginTransmission
<1>14. Len(v.tx) <= BufferSize
  BY <1>5, <1>6, <1>9
<1>15. Consistent(b, v, w)
  BY <1>9, <1>10 DEF Consistent
<1>16. /\ lock[Wire(b)] = t /\ said[t].b \in {b, NULL}
       /\ \A some, c : Has(t, some, c) => c = b
       /\ \A c : ~Has(t, {"uninitialize"}, c)
       /\ ~Does(t, "lockWire")
  BY <1>1, <1>3, AtTalkOp
<1>17. v.nonStop <=> (v.abandoned \/ (w.b = b /\ w.restart))
  BY <1>9, <1>10
<1>18. \A i \in 1 .. Len(<<>>) : <<>>[i].b = b /\ <<>>[i].op \notin {"lockWire", "begun", "free"}
  BY <1>6
<1> QED BY ONLY Inv, t \in Tasks, b \in Ports, Noted, <1>1, <1>8, <1>9, <1>10,
     <1>11,
        <1>12, <1>13, <1>14, <1>15, <1>16, <1>17, <1>18, EmptyIsFresh, NothingInEmpty, TalkStep

LEMMA Giving ==
  ASSUME NEW b \in Ports
  PROVE  /\ Fresh(GiveToDriver(b)) /\ HasIn(GiveToDriver(b), {"finish"}, b)
         /\ \A i \in 1 .. Len(GiveToDriver(b)) :
              /\ GiveToDriver(b)[i].b = b
              /\ GiveToDriver(b)[i].op \in {"lockHal", "transfer", "finish"}
<1> DEFINE a == For("lockHal", b)
           c == For("transfer", b)
           d == For("finish", b)
           r == <<a, c, d>>
<1>1. /\ a \in Operation /\ a.op = "lockHal" /\ a.b = b
      /\ c \in Operation /\ c.op = "transfer" /\ c.b = b
      /\ d \in Operation /\ d.op = "finish" /\ d.b = b
  BY ForIsOperation DEF OpNames, WireOps, HalOps
<1>2. GiveToDriver(b) = <<a, c>> \o <<d>>
  BY DEF GiveToDriver, Transfer
<1> HIDE DEF a, c, d
<1>3. GiveToDriver(b) = r
  BY <1>1, <1>2, JoinedThree
<1>4. Len(r) = 3 /\ r[1] = a /\ r[2] = c /\ r[3] = d /\ r \in Seq(Operation)
  BY <1>1
<1> HIDE DEF r
<1>5. \A i \in 1 .. Len(r) : i = 1 \/ i = 2 \/ i = 3
  BY <1>4
<1>6. After(r, 1) = c /\ After(r, 2) = d /\ After(r, 3) = Nothing
  BY <1>4 DEF After
<1>7. Follows(a, c) /\ Follows(c, d) /\ Follows(d, Nothing)
  BY <1>1 DEF Follows, Nothing, For, Op, LastOps, InitOps, Locked
<1>8. InOrder(r)
  BY <1>4, <1>5, <1>6, <1>7 DEF InOrder
<1>9. \A i \in 1 .. Len(r) : ~Open(r, i) /\ r[i].op # "onTheBus"
  BY <1>1, <1>4, <1>5 DEF Open, HalOps
<1>10. HasIn(r, {"finish"}, b)
  BY <1>1, <1>4 DEF HasIn
<1>11. \A i \in 1 .. Len(r) : r[i].b = b /\ r[i].op \in {"lockHal", "transfer", "finish"}
  BY <1>1, <1>4, <1>5
<1>12. OnePort(r)
  BY <1>11 DEF OnePort
<1> QED BY <1>3, <1>4, <1>8, <1>9, <1>10, <1>11, <1>12 DEF Fresh

LEMMA RequestFromKeepsInv ==
  ASSUME Inv, NEW t \in Tasks, RequestFrom(t), Noted
  PROVE  Inv'
<1>1. Does(t, "requestFrom") /\ OnlyTheAgenda /\ said' = said
  BY DEF RequestFrom
<1>2. Now(t) \in Operation /\ Now(t).op = "requestFrom"
  BY <1>1, NowIsOperation
<1>3. PICK b \in Ports : b = Now(t).b
  BY <1>2 DEF Operation, PinOps
<1> DEFINE r == GiveToDriver(b)
           v == [wire[b] EXCEPT !.currentTaskHandle = t, !.nonStop = FALSE, !.abandoned = FALSE]
           w == said[t]
<1>4. /\ wire \in [Ports -> WireObject] /\ said \in [Tasks -> Saying]
      /\ Len(wire[b].tx) <= BufferSize /\ NULL \notin Ports
  BY WireIsTyped
<1>5. wire[b] \in WireObject
  BY <1>4
<1>6. v \in WireObject
  BY <1>5 DEF WireObject
<1>7. /\ v.buffers = wire[b].buffers /\ v.tx = wire[b].tx /\ v.txAddress = wire[b].txAddress
      /\ v.currentTaskHandle = t
  BY <1>5 DEF WireObject
<1>8. w \in Saying /\ said' = [said EXCEPT ![t] = w]
  BY <1>1, <1>4
<1>9. wire' = [wire EXCEPT ![b] = v]
  BY <1>3 DEF RequestFrom
<1> HIDE DEF v
<1>10. /\ Fresh(r) /\ HasIn(r, {"finish"}, b)
       /\ \A i \in 1 .. Len(r) : r[i].b = b /\ r[i].op \in {"lockHal", "transfer", "finish"}
  BY Giving
<1>11. Becomes(t, r)
  BY <1>3 DEF RequestFrom
<1> HIDE DEF r
<1>12. agenda' = [agenda EXCEPT ![t] = r]
  BY <1>1, <1>10, <1>11, AfterLastOp DEF LastOps, Fresh
<1>13. local' \in [Tasks -> Call] /\ \A u \in Tasks \ {t} : local'[u] = local[u]
  BY DeviceIsTyped DEF RequestFrom
<1>14. /\ lock[Wire(b)] = t /\ said[t].b \in {b, NULL}
       /\ \A some, c : Has(t, some, c) => c = b
       /\ \A c : ~Has(t, {"uninitialize"}, c)
       /\ ~Does(t, "lockWire")
  BY <1>1, <1>3, AtTalkOp
<1>15. Consistent(b, v, w)
  <2>1. /\ w.b = NULL => w = NoSaying
        /\ w.b = b => /\ wire[b].txAddress = w.addr /\ wire[b].tx = w.bytes
                      /\ w.restart => wire[b].buffers
    BY DEF Inv, Sayings, Telling
  <2> QED BY <1>7, <1>14, <2>1 DEF Consistent
<1>16. \A i \in 1 .. Len(r) : r[i].b = b /\ r[i].op \notin {"lockWire", "begun", "free"}
  BY <1>10
<1>17. ~HasIn(r, Quitting, b) /\ HasIn(r, WireOps, b)
  BY <1>10 DEF HasIn, Quitting, WireOps
<1>18. Len(v.tx) <= BufferSize
  BY <1>4, <1>7
<1> HIDE DEF w
<1> QED BY ONLY Inv, t \in Tasks, b \in Ports, Noted, <1>1, <1>6, <1>7, <1>8,
     <1>9,
        <1>10, <1>12, <1>13, <1>14, <1>15, <1>16, <1>17, <1>18, TalkStep

(* A request that is refused, or a transaction's end: the object goes back. *)
LEMMA QuietIsSaying == NoSaying \in Saying /\ NoSaying.b = NULL /\ ~NoSaying.restart
<1>1. <<>> \in Seq(Tasks)
  OBVIOUS
<1> QED BY <1>1 DEF NoSaying, Saying

LEMMA GivingBack ==
  ASSUME Inv, NEW t \in Tasks, NEW what \in {"requestFrom", "finish"}, Does(t, what),
         NEW b \in Ports, b = Now(t).b, Becomes(t, <<For("unlockWire", b)>>),
         wire[b].nonStop \in BOOLEAN,
         wire' = [wire EXCEPT ![b].currentTaskHandle = NULL, ![b].abandoned = wire[b].nonStop],
         said' = [said EXCEPT ![t] = NoSaying],
         UNCHANGED local, OnlyTheAgenda, Noted
  PROVE  Inv'
<1> DEFINE r == <<For("unlockWire", b)>>
           v == [wire[b] EXCEPT !.currentTaskHandle = NULL, !.abandoned = wire[b].nonStop]
<1>1. /\ wire \in [Ports -> WireObject] /\ local \in [Tasks -> Call]
      /\ Len(wire[b].tx) <= BufferSize /\ NULL \notin Ports
  BY WireIsTyped
<1>2. wire[b] \in WireObject
  BY <1>1
<1>3. v \in WireObject
  BY <1>2 DEF WireObject
<1>4. /\ v.buffers = wire[b].buffers /\ v.tx = wire[b].tx
      /\ v.currentTaskHandle = NULL /\ v.nonStop = wire[b].nonStop /\ v.abandoned = wire[b].nonStop
  BY <1>2 DEF WireObject
<1>5. wire' = [wire EXCEPT ![b] = v]
  OBVIOUS
<1> HIDE DEF v
<1>6. /\ Fresh(r) /\ HasIn(r, Quitting, b) /\ HasIn(r, WireOps, b)
      /\ \A i \in 1 .. Len(r) : r[i].b = b /\ r[i].op = "unlockWire"
  BY Returning
<1> HIDE DEF r
<1>7. agenda' = [agenda EXCEPT ![t] = r]
  BY <1>6, AfterLastOp DEF LastOps, Fresh, r
<1>8. local' \in [Tasks -> Call] /\ \A u \in Tasks \ {t} : local'[u] = local[u]
  BY <1>1
<1>9. /\ lock[Wire(b)] = t /\ said[t].b \in {b, NULL}
      /\ \A some, c : Has(t, some, c) => c = b
      /\ \A c : ~Has(t, {"uninitialize"}, c)
      /\ ~Does(t, "lockWire")
  BY AtTalkOp
<1>10. Consistent(b, v, NoSaying)
  BY DEF Consistent
<1>11. \A i \in 1 .. Len(r) : r[i].b = b /\ r[i].op \notin {"lockWire", "begun", "free"}
  BY <1>6
<1>12. Len(v.tx) <= BufferSize /\ v.currentTaskHandle \in {t, NULL}
  BY <1>1, <1>4
<1>13. v.nonStop <=> (v.abandoned \/ (NoSaying.b = b /\ NoSaying.restart))
  BY <1>1, <1>4, QuietIsSaying
<1> QED BY ONLY Inv, t \in Tasks, b \in Ports, Noted, OnlyTheAgenda,
        said' = [said EXCEPT ![t] = NoSaying], <1>3, <1>4, <1>5, <1>6, <1>7, <1>8, <1>9, <1>10,
        <1>11, <1>12, <1>13, QuietIsSaying, TalkStep

LEMMA RequestFromAnotherKeepsInv ==
  ASSUME Inv, NEW t \in Tasks, RequestFromAnother(t), Noted
  PROVE  Inv'
<1>1. /\ Does(t, "requestFrom") /\ OnlyTheAgenda /\ UNCHANGED local
      /\ said' = [said EXCEPT ![t] = NoSaying]
  BY DEF RequestFromAnother
<1>2. Now(t) \in Operation /\ Now(t).op = "requestFrom"
  BY <1>1, NowIsOperation
<1>3. PICK b \in Ports : b = Now(t).b
  BY <1>2 DEF Operation, PinOps
<1>4. wire[b] \in WireObject
  BY WireIsTyped
<1>5. wire[b].nonStop /\ wire[b].nonStop \in BOOLEAN
  BY <1>3, <1>4 DEF RequestFromAnother, WireObject
<1>6. wire[b].nonStop = TRUE
  BY <1>5
<1>7. /\ Becomes(t, <<For("unlockWire", b)>>)
      /\ wire' = [wire EXCEPT ![b].currentTaskHandle = NULL, ![b].abandoned = wire[b].nonStop]
  BY <1>3, <1>6 DEF RequestFromAnother
<1> QED BY <1>1, <1>3, <1>5, <1>7, GivingBack

LEMMA FinishKeepsInv ==
  ASSUME Inv, NEW t \in Tasks, Finish(t), Noted
  PROVE  Inv'
<1>1. /\ Does(t, "finish") /\ OnlyTheAgenda /\ UNCHANGED local
      /\ said' = [said EXCEPT ![t] = NoSaying]
  BY DEF Finish
<1>2. Now(t) \in Operation /\ Now(t).op = "finish"
  BY <1>1, NowIsOperation
<1>3. PICK b \in Ports : b = Now(t).b
  BY <1>2 DEF Operation, PinOps
<1>4. wire[b] \in WireObject
  BY WireIsTyped
<1>5. wire[b].nonStop \in BOOLEAN
  BY <1>4 DEF WireObject
<1>6. /\ Becomes(t, <<For("unlockWire", b)>>)
      /\ wire' = [wire EXCEPT ![b].currentTaskHandle = NULL, ![b].abandoned = wire[b].nonStop]
  BY <1>3 DEF Finish
<1> QED BY <1>1, <1>3, <1>5, <1>6, GivingBack

(* A task between the calls of its transaction.                             *)
LEMMA IdleHasNothing ==
  ASSUME Inv, NEW t \in Tasks, Idle(t)
  PROVE  (\A some, c : ~Has(t, some, c)) /\ ~Does(t, "lockWire")
BY NothingInEmpty DEF Has, Idle, Does

LEMMA InTransaction ==
  ASSUME Inv, NEW t \in Tasks, Idle(t), NEW b \in Ports, said[t].b = b
  PROVE  /\ lock[Wire(b)] = t /\ Consistent(b, wire[b], said[t])
         /\ wire[b].nonStop <=> (wire[b].abandoned \/ said[t].restart)
         /\ wire[b].currentTaskHandle \in {t, NULL}
<1>1. lock[Wire(b)] = t /\ Consistent(b, wire[b], said[t])
  BY DEF Inv, Sayings, Telling, Consistent
<1>2. ASSUME NEW u \in Tasks PROVE ~Has(u, {"finish"}, b)
  <2>1. CASE u = t
    BY <2>1, IdleHasNothing
  <2>2. CASE u # t /\ Does(u, "lockWire")
    <3>1. Waits
      BY DEF Inv
    <3> QED BY ONLY <2>2, <3>1, u \in Tasks, b \in Ports DEF Waits
  <2>3. CASE u # t /\ ~Does(u, "lockWire")
    <3>1. ~Has(u, WireOps, b)
      BY <1>1, <2>3 DEF Inv, WireHeld
    <3> QED BY <3>1 DEF Has, HasIn, WireOps
  <2> QED BY <2>1, <2>2, <2>3
<1>3. \A u \in Tasks \ {t} : said[u].b # b
  BY <1>1 DEF Inv, Sayings, Telling
<1>4. (\E u \in Tasks : said[u].b = b /\ said[u].restart) <=> said[t].restart
  BY <1>3
<1>5. wire[b].nonStop <=> (wire[b].abandoned \/ said[t].restart)
  BY <1>2, <1>4 DEF Inv, Restarts
<1>6. wire[b].currentTaskHandle \in Tasks \cup {NULL}
  BY WireIsTyped DEF WireObject
<1>7. wire[b].currentTaskHandle \in {t, NULL}
  BY <1>1, <1>6 DEF Inv, Sayings, Owners
<1> QED BY <1>1, <1>5, <1>7

LEMMA InstantStep ==
  ASSUME Inv, NEW t \in Tasks, Instantly(t), NEW b \in Ports, said[t].b = b,
         NEW v \in WireObject, wire' = [wire EXCEPT ![b] = v],
         v.buffers = wire[b].buffers, Len(v.tx) <= BufferSize,
         v.currentTaskHandle = wire[b].currentTaskHandle,
         NEW w \in Saying, said' = [said EXCEPT ![t] = w], Consistent(b, v, w),
         w.b = b \/ ~v.buffers,
         v.nonStop <=> (v.abandoned \/ (w.b = b /\ w.restart)),
         Noted
  PROVE  Inv'
<1>1. Idle(t) /\ OnlyTheAgenda /\ UNCHANGED <<agenda, local>>
  BY DEF Instantly, i2cVars, OnlyTheAgenda, unchangedPeriMan, unchangedHal
<1>2. agenda' = [agenda EXCEPT ![t] = <<>>]
  BY <1>1 DEF Inv, Types, Idle
<1>3. (\A some, c : ~Has(t, some, c)) /\ ~Does(t, "lockWire")
  BY <1>1, IdleHasNothing
<1>4. lock[Wire(b)] = t /\ v.currentTaskHandle \in {t, NULL}
  BY <1>1, InTransaction
<1>5. local' \in [Tasks -> Call] /\ \A u \in Tasks \ {t} : local'[u] = local[u]
  BY <1>1, WireIsTyped
<1>6. \A i \in 1 .. Len(<<>>) : <<>>[i].b = b /\ <<>>[i].op \notin {"lockWire", "begun", "free"}
  OBVIOUS
<1> QED BY <1>1, <1>2, <1>3, <1>4, <1>5, <1>6, EmptyIsFresh, NothingInEmpty, TalkStep

LEMMA WriteKeepsInv ==
  ASSUME Inv, NEW t \in Tasks, Write(t), Noted
  PROVE  Inv'
<1>1. PICK b \in Ports :
        /\ Instantly(t) /\ said[t].b = b /\ ~said[t].restart
        /\ wire[b].buffers /\ Len(wire[b].tx) < BufferSize
        /\ wire' = [wire EXCEPT ![b].tx = Append(@, t)]
        /\ said' = [said EXCEPT ![t].bytes = Append(@, t)]
  BY DEF Write
<1> DEFINE v == [wire[b] EXCEPT !.tx = Append(wire[b].tx, t)]
           w == [said[t] EXCEPT !.bytes = Append(said[t].bytes, t)]
<1>2. /\ wire[b] \in WireObject /\ said[t] \in Saying /\ BufferSize \in Nat \ {0}
      /\ wire \in [Ports -> WireObject] /\ said \in [Tasks -> Saying]
  BY WireIsTyped
<1>3. /\ Append(wire[b].tx, t) \in Seq(Tasks) /\ Append(said[t].bytes, t) \in Seq(Tasks)
      /\ Len(Append(wire[b].tx, t)) <= BufferSize
  BY <1>1, <1>2 DEF WireObject, Saying
<1>4. v \in WireObject /\ w \in Saying
  BY <1>2, <1>3 DEF WireObject, Saying
<1>5. /\ v.tx = Append(wire[b].tx, t) /\ v.buffers = wire[b].buffers
      /\ v.currentTaskHandle = wire[b].currentTaskHandle /\ v.nonStop = wire[b].nonStop
      /\ v.abandoned = wire[b].abandoned /\ v.txAddress = wire[b].txAddress
  BY <1>2 DEF WireObject
<1>6. /\ w.b = b /\ w.addr = said[t].addr /\ w.bytes = Append(said[t].bytes, t)
      /\ w.restart = said[t].restart
  BY <1>1, <1>2 DEF Saying
<1>7. wire' = [wire EXCEPT ![b] = v] /\ said' = [said EXCEPT ![t] = w]
  BY <1>1, <1>2
<1> HIDE DEF v, w
<1>8. /\ Consistent(b, wire[b], said[t])
      /\ wire[b].nonStop <=> (wire[b].abandoned \/ said[t].restart)
  BY <1>1, InTransaction DEF Instantly
<1>9. said[t] # NoSaying
  BY <1>1, WireIsTyped, QuietIsSaying
<1>10. Consistent(b, v, w)
  BY <1>5, <1>6, <1>8, <1>9 DEF Consistent
<1>11. v.nonStop <=> (v.abandoned \/ (w.b = b /\ w.restart))
  BY <1>5, <1>6, <1>8
<1>12. Len(v.tx) <= BufferSize
  BY <1>3, <1>5
<1> QED BY <1>1, <1>4, <1>5, <1>6, <1>7, <1>10, <1>11, <1>12, InstantStep

LEMMA EndTransmissionFailsKeepsInv ==
  ASSUME Inv, NEW t \in Tasks, EndTransmissionFails(t), Noted
  PROVE  Inv'
<1>1. PICK b \in Ports :
        /\ Instantly(t) /\ said[t].b = b /\ ~wire[b].buffers
        /\ said' = [said EXCEPT ![t] = NoSaying]
        /\ UNCHANGED wire
  BY DEF EndTransmissionFails
<1> DEFINE v == wire[b]
<1>2. /\ v \in WireObject /\ wire \in [Ports -> WireObject] /\ Len(v.tx) <= BufferSize
  BY WireIsTyped
<1>3. wire' = [wire EXCEPT ![b] = v] /\ ~v.buffers
  BY <1>1, <1>2
<1>4. /\ Consistent(b, v, said[t])
      /\ v.nonStop <=> (v.abandoned \/ said[t].restart)
  BY <1>1, InTransaction DEF Instantly
<1>5. ~said[t].restart
  <2>1. said[t] # NoSaying
    BY <1>1, WireIsTyped, QuietIsSaying
  <2> QED BY <1>3, <1>4, <2>1 DEF Consistent
<1>6. v.buffers = wire[b].buffers /\ v.currentTaskHandle = wire[b].currentTaskHandle
  OBVIOUS
<1> HIDE DEF v
<1>7. Consistent(b, v, NoSaying)
  BY DEF Consistent
<1>8. v.nonStop <=> (v.abandoned \/ (NoSaying.b = b /\ NoSaying.restart))
  BY <1>4, <1>5, QuietIsSaying
<1> QED BY <1>1, <1>2, <1>3, <1>6, <1>7, <1>8, QuietIsSaying, InstantStep

LEMMA EndTransmissionNonStopKeepsInv ==
  ASSUME Inv, NEW t \in Tasks, EndTransmissionNonStop(t), Noted
  PROVE  Inv'
<1>1. PICK b \in Ports :
        /\ Instantly(t) /\ said[t].b = b /\ wire[b].buffers
        /\ wire' = [wire EXCEPT ![b].nonStop = TRUE]
        /\ said' = [said EXCEPT ![t].restart = TRUE]
  BY DEF EndTransmissionNonStop
<1> DEFINE v == [wire[b] EXCEPT !.nonStop = TRUE]
           w == [said[t] EXCEPT !.restart = TRUE]
<1>2. /\ wire[b] \in WireObject /\ said[t] \in Saying /\ Len(wire[b].tx) <= BufferSize
      /\ wire \in [Ports -> WireObject] /\ said \in [Tasks -> Saying]
  BY WireIsTyped
<1>3. v \in WireObject /\ w \in Saying
  BY <1>2 DEF WireObject, Saying
<1>4. /\ v.tx = wire[b].tx /\ v.buffers = wire[b].buffers
      /\ v.currentTaskHandle = wire[b].currentTaskHandle /\ v.nonStop
      /\ v.txAddress = wire[b].txAddress
  BY <1>2 DEF WireObject
<1>5. w.b = b /\ w.addr = said[t].addr /\ w.bytes = said[t].bytes /\ w.restart
  BY <1>1, <1>2 DEF Saying
<1>6. wire' = [wire EXCEPT ![b] = v] /\ said' = [said EXCEPT ![t] = w]
  BY <1>1, <1>2
<1> HIDE DEF v, w
<1>7. Consistent(b, wire[b], said[t]) /\ said[t] # NoSaying
  BY <1>1, InTransaction, WireIsTyped, QuietIsSaying DEF Instantly
<1>8. Consistent(b, v, w)
  BY <1>1, <1>4, <1>5, <1>7 DEF Consistent
<1>9. v.nonStop <=> (v.abandoned \/ (w.b = b /\ w.restart))
  BY <1>4, <1>5
<1>10. Len(v.tx) <= BufferSize
  BY <1>2, <1>4
<1> QED BY <1>1, <1>3, <1>4, <1>5, <1>6, <1>8, <1>9, <1>10, InstantStep

-----------------------------------------------------------------------------
(* A task asks for something: it puts a call's operations on its agenda.    *)
LEMMA CallStep ==
  ASSUME Inv, NEW t \in Tasks, Idle(t), NEW b \in Buses,
         NEW r, Fresh(r), agenda' = [agenda EXCEPT ![t] = r],
         \A i \in 1 .. Len(r) : /\ r[i].op \in WireOps \cup {"lockWire"} => r[i].b = b
                                /\ r[i].op # "begun",
         HasIn(r, {"free"}, b) => HasIn(r, {"end"}, b),
         HasIn(r, WireOps \cup {"lockWire"}, b) => \A c \in Ports : lock[Wire(c)] = t => c = b,
         HasIn(r, Quitting, b) => said[t] = NoSaying /\ wire[b].currentTaskHandle # t,
         \/ /\ Len(r) > 0 /\ r[1].op = "lockWire" /\ HasIn(r, WireOps, b)
            /\ ~HasIn(r, {"finish"}, b)
         \/ /\ r[1].op # "lockWire" /\ lock[Wire(b)] = t
         \/ /\ r[1].op # "lockWire" /\ ~HasIn(r, WireOps, b),
         PeriManTypeOK', Noted,
         UNCHANGED <<initialized, installed, bus, lock, wire, said>>,
         local' \in [Tasks -> Call], \A u \in Tasks \ {t} : local'[u] = local[u]
  PROVE  Inv'
<1>1. (\A some, c : ~Has(t, some, c)) /\ ~Does(t, "lockWire")
  BY IdleHasNothing
<1>2. /\ agenda' \in [Tasks -> Seq(Operation)]
      /\ agenda'[t] = r /\ \A u \in Tasks \ {t} : agenda'[u] = agenda[u]
      /\ Shape' /\ HalHeld' /\ Drivers'
  BY <1>1, FreshAgenda
<1>3. Types'
  BY <1>2 DEF Inv, Types, TypeOK, I2cTypeOK, Noted
<1>4. \A u \in Tasks \ {t} : /\ \A some, c : Has(u, some, c)' <=> Has(u, some, c)
                             /\ Does(u, "lockWire")' <=> Does(u, "lockWire")
                             /\ Now(u)' = Now(u)
  BY <1>2 DEF Has, Does, Idle, Now
<1>5. /\ \A some, c : Has(t, some, c)' <=> HasIn(r, some, c)
      /\ Does(t, "lockWire")' <=> (r # <<>> /\ r[1].op = "lockWire")
      /\ Now(t)' = r[1]
  BY <1>2 DEF Has, Does, Idle, Now
<1>6. /\ \A c : HasIn(r, WireOps \cup {"lockWire"}, c) => c = b
      /\ \A c : HasIn(r, WireOps, c) \/ HasIn(r, Quitting, c) => c = b
      /\ \A c : HasIn(r, {"finish"}, c) \/ HasIn(r, {"free"}, c) => c = b
      /\ \A c : ~HasIn(r, {"begun"}, c)
      /\ HasIn(r, WireOps, b) => HasIn(r, WireOps \cup {"lockWire"}, b)
  BY DEF HasIn, WireOps, Quitting
<1>7. WireHeld'
  <2>1. WireHeld
    BY DEF Inv
  <2>2. ASSUME NEW c \in Ports, Has(t, WireOps, c)', ~Does(t, "lockWire")'
        PROVE  lock'[Wire(c)] = t
    <3>1. c = b /\ HasIn(r, WireOps, b)
      BY <1>5, <1>6, <2>2
    <3>2. r # <<>>
      BY <3>1, NothingInEmpty
    <3> QED BY <1>5, <2>2, <3>1, <3>2
  <2> QED BY ONLY <1>4, <2>1, <2>2, lock' = lock DEF WireHeld
<1>8. Waits'
  <2>1. Waits
    BY DEF Inv
  <2>2. ASSUME Does(t, "lockWire")'
        PROVE  /\ Has(t, WireOps, Now(t).b)'
               /\ \A c \in Ports :
                    /\ ~Has(t, {"begun"}, c)' /\ ~Has(t, {"finish"}, c)'
                    /\ Has(t, {"free"}, c)' => Has(t, {"end"}, c)'
    <3>1. r[1].op = "lockWire" /\ r # <<>>
      BY <1>5, <2>2
    <3>2. 1 \in 1 .. Len(r)
      BY <3>1 DEF Fresh
    <3>3. Now(t)'.b = b
      BY <1>5, <3>1, <3>2
    <3>4. HasIn(r, WireOps, b) /\ ~HasIn(r, {"finish"}, b)
      BY <3>1
    <3>5. \A c : ~HasIn(r, {"begun"}, c) /\ ~HasIn(r, {"finish"}, c)
                   /\ (HasIn(r, {"free"}, c) => HasIn(r, {"end"}, c))
      BY <1>6, <3>4
    <3>6. Has(t, WireOps, Now(t).b)'
      BY <1>2, <3>3, <3>4 DEF Has
    <3> QED BY <1>5, <3>5, <3>6
  <2> QED BY ONLY <1>4, <2>1, <2>2 DEF Waits
<1>9. Buffers'
  <2>1. Buffers /\ initialized \subseteq Ports /\ UNCHANGED <<initialized, wire>>
    BY TheRestIsTyped DEF Inv
  <2>2. \A u \in Tasks \ {t} : Started(u)' <=> Started(u)
    BY <1>2 DEF Started
  <2>3. \A c \in Ports : HasIn(r, {"free"}, c) => HasIn(r, Stops \cup {"end"}, c)
    BY <1>6 DEF HasIn
  <2>4. \A c \in Ports : /\ ~Has(t, {"begun"}, c)'
                         /\ Has(t, {"free"}, c)' => Has(t, Stops \cup {"end"}, c)'
    BY <1>5, <1>6, <2>3
  <2>5. \A c \in initialized' : /\ c \in halfStarted => c \in halfStarted'
                                /\ c \in halfEnded => c \in halfEnded'
    BY DEF Noted
  <2> QED BY ONLY <1>4, <2>1, <2>2, <2>4, <2>5 DEF Buffers, Undoing
<1>10. Telling'
  <2>1. Telling /\ UNCHANGED <<lock, wire, said>>
    BY DEF Inv, Sayings
  <2> QED BY ONLY <2>1 DEF Telling
<1>11. Outsiders'
  <2>1. Outsiders /\ UNCHANGED <<wire, said>>
    BY DEF Inv, Sayings
  <2>2. \A c \in Ports : Has(t, Quitting, c)' => said[t] = NoSaying /\ wire[c].currentTaskHandle # t
    BY <1>5, <1>6
  <2> QED BY ONLY <1>4, <2>1, <2>2 DEF Outsiders
<1>12. OneObject'
  <2>1. OneObject /\ UNCHANGED lock
    BY DEF Inv, Sayings
  <2>2. \A c, d \in Ports : Has(t, WireOps \cup {"lockWire"}, c)' /\ lock[Wire(d)] = t => c = d
    BY <1>5, <1>6
  <2> QED BY ONLY <1>4, <2>1, <2>2 DEF OneObject
<1>13. Owners'
  <2>1. Owners /\ UNCHANGED <<lock, wire, said>>
    BY DEF Inv, Sayings
  <2>2. \A c \in Ports : lock[Wire(c)] = t => said[t].b = c \/ ~wire[c].buffers
    BY <1>1, <2>1 DEF Owners
  <2> QED BY ONLY <1>4, <2>1, <2>2 DEF Owners
<1>14. Restarts'
  <2>1. Restarts /\ UNCHANGED <<wire, said>>
    BY DEF Inv
  <2>2. \A u \in Tasks, c \in Ports : Has(u, {"finish"}, c) => Has(u, {"finish"}, c)'
    BY <1>1, <1>4
  <2> QED BY ONLY <2>1, <2>2 DEF Restarts
<1> QED BY <1>2, <1>3, <1>7, <1>8, <1>9, <1>10, <1>11, <1>12, <1>13, <1>14 DEF Inv, Sayings

LEMMA CallsAreTyped ==
  ASSUME Inv, NEW t \in Tasks, NEW b, NEW request, NEW ops, Calls(t, b, request, ops)
  PROVE  /\ Idle(t) /\ agenda' = [agenda EXCEPT ![t] = ops]
         /\ PeriManTypeOK' /\ UNCHANGED <<initialized, installed, bus, lock>>
BY DEF Calls, unchangedPeriMan, unchangedHal, halVars, PeriManTypeOK, Inv, Types, TypeOK,
     I2cTypeOK

(* A task outside has no Wire object.                                       *)
LEMMA OutsideIsOut ==
  ASSUME Inv, NEW t \in Tasks, NEW b \in Ports, Outside(t, b)
  PROVE  /\ said[t] = NoSaying /\ wire[b].currentTaskHandle # t
         /\ \A c \in Ports : lock[Wire(c)] # t
BY DEF Outside, Holds, Inv, Sayings, Owners

AskFirst(b, what) == <<For("lockWire", b), For(what, b)>>
Ask(b, what) == <<For(what, b)>>

LEMMA Asking ==
  ASSUME NEW b \in Ports, NEW what \in {"begin", "beginTransmission", "requestFrom"},
         NEW r, r = AskFirst(b, what) \/ r = Ask(b, what)
  PROVE  /\ Fresh(r) /\ HasIn(r, WireOps, b) /\ Len(r) > 0
         /\ \A i \in 1 .. Len(r) : r[i].b = b /\ r[i].op \in {"lockWire", what}
         /\ r = AskFirst(b, what) => r[1].op = "lockWire"
         /\ r = Ask(b, what) => r[1].op = what
<1> DEFINE a == For("lockWire", b)
           c == For(what, b)
<1>1. /\ a \in Operation /\ a.op = "lockWire" /\ a.b = b
      /\ c \in Operation /\ c.op = what /\ c.b = b
  BY ForIsOperation DEF OpNames, WireOps, Quitting
<1>2. what \in LastOps /\ what \in WireOps /\ what # "lockWire"
  BY DEF LastOps, WireOps, Quitting
<1>3. Follows(a, c) /\ Follows(c, Nothing)
  BY <1>1, <1>2 DEF Follows, Nothing, For, Op, LastOps, InitOps
<1> HIDE DEF a, c
<1>4. AskFirst(b, what) = <<a, c>> /\ Ask(b, what) = <<c>>
  BY DEF AskFirst, Ask, a, c
<1>5. CASE r = <<a, c>>
  <2>1. Len(r) = 2 /\ r[1] = a /\ r[2] = c /\ r \in Seq(Operation)
    BY <1>1, <1>5
  <2>2. r # <<c>>
    <3>1. Len(<<c>>) = 1
      OBVIOUS
    <3> QED BY <2>1, <3>1
  <2>3. \A i \in 1 .. Len(r) : i = 1 \/ i = 2
    BY <2>1
  <2>4. After(r, 1) = c /\ After(r, 2) = Nothing
    BY <2>1 DEF After
  <2>5. InOrder(r)
    BY <1>3, <2>1, <2>3, <2>4 DEF InOrder
  <2>6. \A i \in 1 .. Len(r) : ~Open(r, i) /\ r[i].op # "onTheBus"
    BY <1>1, <2>1, <2>3 DEF Open, HalOps
  <2>7. HasIn(r, WireOps, b)
    BY <1>1, <1>2, <2>1 DEF HasIn
  <2>8. \A i \in 1 .. Len(r) : r[i].b = b /\ r[i].op \in {"lockWire", what}
    BY <1>1, <2>1, <2>3
  <2>9. OnePort(r)
    BY <2>8 DEF OnePort
  <2> QED BY <1>1, <1>4, <2>1, <2>2, <2>5, <2>6, <2>7, <2>8, <2>9 DEF Fresh
<1>6. CASE r = <<c>>
  <2>1. Len(r) = 1 /\ r[1] = c /\ r \in Seq(Operation)
    BY <1>1, <1>6
  <2>2. r # <<a, c>>
    <3>1. Len(<<a, c>>) = 2
      OBVIOUS
    <3> QED BY <2>1, <3>1
  <2>3. \A i \in 1 .. Len(r) : i = 1
    BY <2>1
  <2>4. After(r, 1) = Nothing
    BY <2>1 DEF After
  <2>5. InOrder(r)
    BY <1>3, <2>1, <2>3, <2>4 DEF InOrder
  <2>6. \A i \in 1 .. Len(r) : ~Open(r, i) /\ r[i].op # "onTheBus"
    BY <1>1, <2>1, <2>3 DEF Open, HalOps
  <2>7. HasIn(r, WireOps, b)
    BY <1>1, <1>2, <2>1 DEF HasIn
  <2>8. \A i \in 1 .. Len(r) : r[i].b = b /\ r[i].op \in {"lockWire", what}
    BY <1>1, <2>1, <2>3
  <2>9. OnePort(r)
    BY <2>8 DEF OnePort
  <2> QED BY <1>1, <1>4, <2>1, <2>2, <2>5, <2>6, <2>7, <2>8, <2>9 DEF Fresh
<1> QED BY <1>5, <1>6, <1>4

(* A call that takes the Wire object, or goes on with it.                   *)
LEMMA AskingStep ==
  ASSUME Inv, NEW t \in Tasks, Idle(t), NEW b \in Ports,
         NEW what \in {"begin", "beginTransmission", "requestFrom"},
         what = "begin" => Outside(t, b),
         \A c \in Ports \ {b} : ~Holds(t, c),
         NEW r, agenda' = [agenda EXCEPT ![t] = r],
         \/ r = AskFirst(b, what)
         \/ r = Ask(b, what) /\ lock[Wire(b)] = t,
         PeriManTypeOK', Noted,
         UNCHANGED <<initialized, installed, bus, lock, wire, said>>,
         local' \in [Tasks -> Call], \A u \in Tasks \ {t} : local'[u] = local[u]
  PROVE  Inv'
<1>1. /\ Fresh(r) /\ HasIn(r, WireOps, b) /\ Len(r) > 0
      /\ \A i \in 1 .. Len(r) : r[i].b = b /\ r[i].op \in {"lockWire", what}
      /\ r[1].op = "lockWire" \/ (r[1].op = what /\ lock[Wire(b)] = t)
  <2>1. CASE r = AskFirst(b, what)
    BY <2>1, Asking
  <2>2. CASE r = Ask(b, what) /\ lock[Wire(b)] = t
    BY <2>2, Asking
  <2> QED BY <2>1, <2>2
<1>2. \A i \in 1 .. Len(r) : /\ r[i].op \in WireOps \cup {"lockWire"} => r[i].b = b
                             /\ r[i].op # "begun"
  BY <1>1
<1>3. ~HasIn(r, {"free"}, b) /\ ~HasIn(r, {"finish"}, b)
  BY <1>1 DEF HasIn
<1>4. \A c \in Ports : lock[Wire(c)] = t => c = b
  BY DEF Holds
<1>5. HasIn(r, Quitting, b) => said[t] = NoSaying /\ wire[b].currentTaskHandle # t
  <2>1. HasIn(r, Quitting, b) => what = "begin"
    BY <1>1 DEF HasIn, Quitting
  <2> QED BY <2>1, OutsideIsOut
<1>6. what # "lockWire"
  OBVIOUS
<1>7. b \in Buses
  BY I2cAssumption
<1> QED BY <1>1, <1>2, <1>3, <1>4, <1>5, <1>6, <1>7, CallStep

LEMMA CallBeginKeepsInv ==
  ASSUME Inv, NEW t \in Tasks, CallBegin(t), Noted
  PROVE  Inv'
<1>0. PICK b \in Ports : \E want \in Wants[b] :
        /\ Outside(t, b)
        /\ Calls(t, b, "begin", <<For("lockWire", b), For("begin", b)>>)
        /\ local' = [local EXCEPT ![t].want = want]
        /\ UNCHANGED <<wire, said>>
  BY DEF CallBegin
<1>1. PICK want \in Wants[b] :
        /\ Outside(t, b)
        /\ Calls(t, b, "begin", <<For("lockWire", b), For("begin", b)>>)
        /\ local' = [local EXCEPT ![t].want = want]
        /\ UNCHANGED <<wire, said>>
  BY <1>0
<1>2. /\ Idle(t) /\ agenda' = [agenda EXCEPT ![t] = AskFirst(b, "begin")]
      /\ PeriManTypeOK' /\ UNCHANGED <<initialized, installed, bus, lock>>
  BY <1>1, CallsAreTyped DEF AskFirst
<1>3. local' \in [Tasks -> Call] /\ \A u \in Tasks \ {t} : local'[u] = local[u]
  <2>1. local \in [Tasks -> Call]
    BY WireIsTyped
  <2>2. want \in [sda : Pins \cup {NoPin}, scl : Pins \cup {NoPin}]
    BY <1>1, I2cAssumption
  <2>3. [local[t] EXCEPT !.want = want] \in Call
    BY <2>1, <2>2 DEF Call
  <2>4. local' = [local EXCEPT ![t] = [local[t] EXCEPT !.want = want]]
    BY <1>1
  <2> QED BY <2>1, <2>3, <2>4
<1>4. \A c \in Ports \ {b} : ~Holds(t, c)
  BY <1>1, OutsideIsOut DEF Holds
<1> QED BY <1>1, <1>2, <1>3, <1>4, AskingStep

LEMMA LockFirstStep ==
  ASSUME Inv, NEW t \in Tasks, NEW b \in Ports, Outside(t, b), Idle(t),
         NEW r, Fresh(r), agenda' = [agenda EXCEPT ![t] = r], Len(r) > 0, r[1].op = "lockWire",
         \A i \in 1 .. Len(r) : r[i].b = b /\ r[i].op \notin {"begun", "finish"},
         HasIn(r, {"free"}, b) => HasIn(r, {"end"}, b), HasIn(r, WireOps, b),
         PeriManTypeOK', Noted,
         UNCHANGED <<initialized, installed, bus, lock, local, wire, said>>
  PROVE  Inv'
<1>1. \A i \in 1 .. Len(r) : /\ r[i].op \in WireOps \cup {"lockWire"} => r[i].b = b
                             /\ r[i].op # "begun"
  OBVIOUS
<1>2. ~HasIn(r, {"finish"}, b)
  BY DEF HasIn
<1>3. \A c \in Ports : lock[Wire(c)] = t => c = b
  BY OutsideIsOut
<1>4. said[t] = NoSaying /\ wire[b].currentTaskHandle # t
  BY OutsideIsOut
<1>5. local' \in [Tasks -> Call] /\ \A u \in Tasks \ {t} : local'[u] = local[u]
  BY WireIsTyped
<1>6. b \in Buses
  BY I2cAssumption
<1> QED BY <1>1, <1>2, <1>3, <1>4, <1>5, <1>6, CallStep

Ending(b) == <<For("lockWire", b), For("end", b), For("free", b), For("unlockWire", b)>>

LEMMA EndingIsFresh ==
  ASSUME NEW b \in Ports, NEW r, r = Ending(b)
  PROVE  /\ Fresh(r) /\ Len(r) > 0 /\ r[1].op = "lockWire"
         /\ HasIn(r, {"end"}, b) /\ HasIn(r, WireOps, b)
         /\ \A i \in 1 .. Len(r) : r[i].b = b /\ r[i].op \notin {"begun", "finish"}
<1> DEFINE a == For("lockWire", b)
           c == For("end", b)
           d == For("free", b)
           e == For("unlockWire", b)
<1>1. /\ a \in Operation /\ a.op = "lockWire" /\ a.b = b
      /\ c \in Operation /\ c.op = "end" /\ c.b = b
      /\ d \in Operation /\ d.op = "free" /\ d.b = b /\ d = For("free", c.b)
      /\ e \in Operation /\ e.op = "unlockWire" /\ e.b = b /\ e = For("unlockWire", d.b)
  BY ForIsOperation DEF OpNames, WireOps, Quitting
<1>2. r = <<a, c, d, e>>
  BY DEF Ending
<1> HIDE DEF a, c, d, e
<1>3. Len(r) = 4 /\ r[1] = a /\ r[2] = c /\ r[3] = d /\ r[4] = e /\ r \in Seq(Operation)
  BY <1>1, <1>2
<1>4. \A i \in 1 .. Len(r) : i = 1 \/ i = 2 \/ i = 3 \/ i = 4
  BY <1>3
<1>5. After(r, 1) = c /\ After(r, 2) = d /\ After(r, 3) = e /\ After(r, 4) = Nothing
  BY <1>3 DEF After
<1>6. Follows(a, c) /\ Follows(c, d) /\ Follows(d, e) /\ Follows(e, Nothing)
  BY <1>1 DEF Follows, Nothing, For, Op, LastOps, InitOps, Locked
<1>7. InOrder(r)
  BY <1>3, <1>4, <1>5, <1>6 DEF InOrder
<1>8. \A i \in 1 .. Len(r) : ~Open(r, i) /\ r[i].op # "onTheBus"
  BY <1>1, <1>3, <1>4 DEF Open, HalOps
<1>9. HasIn(r, {"end"}, b) /\ HasIn(r, WireOps, b)
  BY <1>1, <1>3 DEF HasIn, WireOps, Quitting
<1>10. \A i \in 1 .. Len(r) : r[i].b = b /\ r[i].op \notin {"begun", "finish"}
  BY <1>1, <1>3, <1>4
<1>11. OnePort(r)
  BY <1>10 DEF OnePort
<1> QED BY <1>1, <1>3, <1>7, <1>8, <1>9, <1>10, <1>11 DEF Fresh

LEMMA CallEndKeepsInv ==
  ASSUME Inv, NEW t \in Tasks, CallEnd(t), Noted
  PROVE  Inv'
<1>1. PICK b \in Ports :
        /\ Outside(t, b)
        /\ Calls(t, b, "end", Ending(b))
        /\ UNCHANGED <<local, wire, said>>
  BY DEF CallEnd, Ending
<1>2. /\ Idle(t) /\ agenda' = [agenda EXCEPT ![t] = Ending(b)]
      /\ PeriManTypeOK' /\ UNCHANGED <<initialized, installed, bus, lock>>
  BY <1>1, CallsAreTyped
<1> QED BY <1>1, <1>2, EndingIsFresh, LockFirstStep

Timing(b) == <<For("lockWire", b)>> \o SetClock(b) \o <<For("unlockWire", b)>>

LEMMA TimingIsFour ==
  ASSUME NEW b \in Ports
  PROVE  Timing(b) = <<For("lockWire", b), For("lockHal", b), For("unlockHal", b), For("unlockWire", b)>>
<1> DEFINE a == For("lockWire", b)
           c == For("lockHal", b)
           d == For("unlockHal", b)
           e == For("unlockWire", b)
<1>1. a \in Operation /\ c \in Operation /\ d \in Operation /\ e \in Operation
  BY ForIsOperation DEF OpNames, WireOps, Quitting, HalOps
<1>2. Timing(b) = <<a>> \o <<c, d>> \o <<e>>
  BY DEF Timing, SetClock
<1> HIDE DEF a, c, d, e
<1>3. <<a>> \o <<c, d>> = <<a, c, d>>
  BY <1>1, JoinedThree
<1>4. <<a, c, d>> \o <<e>> = <<a, c, d, e>>
  BY ONLY <1>1, JoinedFour, ZenonT(30)
<1>5. Timing(b) = <<a, c, d, e>>
  BY ONLY <1>2, <1>3, <1>4
<1> QED BY <1>5 DEF a, c, d, e

LEMMA TimingIsFresh ==
  ASSUME NEW b \in Ports, NEW r, r = Timing(b)
  PROVE  /\ Fresh(r) /\ Len(r) > 0 /\ r[1].op = "lockWire"
         /\ ~HasIn(r, {"free"}, b) /\ HasIn(r, WireOps, b)
         /\ \A i \in 1 .. Len(r) : r[i].b = b /\ r[i].op \notin {"begun", "finish"}
<1> DEFINE a == For("lockWire", b)
           c == For("lockHal", b)
           d == For("unlockHal", b)
           e == For("unlockWire", b)
<1>1. /\ a \in Operation /\ a.op = "lockWire" /\ a.b = b
      /\ c \in Operation /\ c.op = "lockHal" /\ c.b = b
      /\ d \in Operation /\ d.op = "unlockHal" /\ d.b = b
      /\ e \in Operation /\ e.op = "unlockWire" /\ e.b = b
  BY ForIsOperation DEF OpNames, WireOps, Quitting, HalOps
<1>3. r = <<a, c, d, e>>
  BY TimingIsFour
<1> HIDE DEF a, c, d, e
<1>4. Len(r) = 4 /\ r[1] = a /\ r[2] = c /\ r[3] = d /\ r[4] = e /\ r \in Seq(Operation)
  BY <1>1, <1>3
<1>5. \A i \in 1 .. Len(r) : i = 1 \/ i = 2 \/ i = 3 \/ i = 4
  BY <1>4
<1>6. After(r, 1) = c /\ After(r, 2) = d /\ After(r, 3) = e /\ After(r, 4) = Nothing
  BY <1>4 DEF After
<1>7. Follows(a, c) /\ Follows(c, d) /\ Follows(d, e) /\ Follows(e, Nothing)
  BY <1>1 DEF Follows, Nothing, For, Op, LastOps, InitOps, Locked
<1>8. InOrder(r)
  BY <1>4, <1>5, <1>6, <1>7 DEF InOrder
<1>9. \A i \in 1 .. Len(r) : ~Open(r, i) /\ r[i].op # "onTheBus"
  BY <1>1, <1>4, <1>5 DEF Open, HalOps
<1>10. HasIn(r, WireOps, b) /\ ~HasIn(r, {"free"}, b)
  BY <1>1, <1>4, <1>5 DEF HasIn, WireOps, Quitting
<1>11. \A i \in 1 .. Len(r) : r[i].b = b /\ r[i].op \notin {"begun", "finish"}
  BY <1>1, <1>4, <1>5
<1>12. OnePort(r)
  BY <1>11 DEF OnePort
<1> QED BY <1>1, <1>4, <1>8, <1>9, <1>10, <1>11, <1>12 DEF Fresh

LEMMA CallSetClockKeepsInv ==
  ASSUME Inv, NEW t \in Tasks, CallSetClock(t), Noted
  PROVE  Inv'
<1>1. PICK b \in Ports :
        /\ Outside(t, b)
        /\ Calls(t, b, "setClock", Timing(b))
        /\ UNCHANGED <<local, wire, said>>
  BY DEF CallSetClock, Timing
<1>2. /\ Idle(t) /\ agenda' = [agenda EXCEPT ![t] = Timing(b)]
      /\ PeriManTypeOK' /\ UNCHANGED <<initialized, installed, bus, lock>>
  BY <1>1, CallsAreTyped
<1> QED BY <1>1, <1>2, TimingIsFresh, LockFirstStep

LEMMA UsesOnlyOne ==
  ASSUME Inv, NEW t \in Tasks, NEW b \in Ports, wire[b].currentTaskHandle = t
  PROVE  lock[Wire(b)] = t
BY DEF Inv, Sayings, Owners

LEMMA TargetIsTyped ==
  ASSUME Inv, NEW t \in Tasks, NEW d \in Devices, local' = [local EXCEPT ![t].device = d]
  PROVE  local' \in [Tasks -> Call] /\ \A u \in Tasks \ {t} : local'[u] = local[u]
<1>1. local \in [Tasks -> Call]
  BY WireIsTyped
<1>2. [local[t] EXCEPT !.device = d] \in Call
  BY <1>1 DEF Call
<1>3. local' = [local EXCEPT ![t] = [local[t] EXCEPT !.device = d]]
  OBVIOUS
<1> QED BY <1>1, <1>2, <1>3

LEMMA CallBeginTransmissionKeepsInv ==
  ASSUME Inv, NEW t \in Tasks, CallBeginTransmission(t), Noted
  PROVE  Inv'
<1>1. PICK b \in Ports, d \in Devices :
        /\ Uses(t, b)
        /\ Calls(t, b, "transmit", IF wire[b].currentTaskHandle = t
                                   THEN Ask(b, "beginTransmission")
                                   ELSE AskFirst(b, "beginTransmission"))
        /\ local' = [local EXCEPT ![t].device = d]
        /\ UNCHANGED <<wire, said>>
  BY DEF CallBeginTransmission, Ask, AskFirst
<1>2. PICK r : /\ r = IF wire[b].currentTaskHandle = t THEN Ask(b, "beginTransmission")
                      ELSE AskFirst(b, "beginTransmission")
               /\ Calls(t, b, "transmit", r)
  BY <1>1
<1>3. /\ Idle(t) /\ agenda' = [agenda EXCEPT ![t] = r]
      /\ PeriManTypeOK' /\ UNCHANGED <<initialized, installed, bus, lock>>
  BY <1>2, CallsAreTyped
<1>4. \/ r = AskFirst(b, "beginTransmission")
      \/ r = Ask(b, "beginTransmission") /\ lock[Wire(b)] = t
  BY <1>2, UsesOnlyOne
<1>5. local' \in [Tasks -> Call] /\ \A u \in Tasks \ {t} : local'[u] = local[u]
  BY <1>1, TargetIsTyped
<1>6. \A c \in Ports \ {b} : ~Holds(t, c)
  BY <1>1 DEF Uses
<1> QED BY <1>1, <1>3, <1>4, <1>5, <1>6, AskingStep

LEMMA CallRequestFromKeepsInv ==
  ASSUME Inv, NEW t \in Tasks, CallRequestFrom(t), Noted
  PROVE  Inv'
<1>1. PICK b \in Ports, d \in Devices :
        /\ Uses(t, b)
        /\ Calls(t, b, "request", IF wire[b].currentTaskHandle = t
                                  THEN Ask(b, "requestFrom")
                                  ELSE AskFirst(b, "requestFrom"))
        /\ local' = [local EXCEPT ![t].device = d]
        /\ UNCHANGED <<wire, said>>
  BY DEF CallRequestFrom, Ask, AskFirst
<1>2. PICK r : /\ r = IF wire[b].currentTaskHandle = t THEN Ask(b, "requestFrom")
                      ELSE AskFirst(b, "requestFrom")
               /\ Calls(t, b, "request", r)
  BY <1>1
<1>3. /\ Idle(t) /\ agenda' = [agenda EXCEPT ![t] = r]
      /\ PeriManTypeOK' /\ UNCHANGED <<initialized, installed, bus, lock>>
  BY <1>2, CallsAreTyped
<1>4. \/ r = AskFirst(b, "requestFrom")
      \/ r = Ask(b, "requestFrom") /\ lock[Wire(b)] = t
  BY <1>2, UsesOnlyOne
<1>5. local' \in [Tasks -> Call] /\ \A u \in Tasks \ {t} : local'[u] = local[u]
  BY <1>1, TargetIsTyped
<1>6. \A c \in Ports \ {b} : ~Holds(t, c)
  BY <1>1 DEF Uses
<1> QED BY <1>1, <1>3, <1>4, <1>5, <1>6, AskingStep

LEMMA EndTransmissionKeepsInv ==
  ASSUME Inv, NEW t \in Tasks, EndTransmission(t), Noted
  PROVE  Inv'
<1>1. PICK b \in Ports :
        /\ said[t].b = b /\ wire[b].buffers
        /\ Calls(t, b, "transmit", GiveToDriver(b))
        /\ UNCHANGED <<local, wire, said>>
  BY DEF EndTransmission
<1> DEFINE r == GiveToDriver(b)
<1>2. /\ Idle(t) /\ agenda' = [agenda EXCEPT ![t] = r]
      /\ PeriManTypeOK' /\ UNCHANGED <<initialized, installed, bus, lock>>
  BY <1>1, CallsAreTyped
<1>3. /\ Fresh(r) /\ HasIn(r, {"finish"}, b)
      /\ \A i \in 1 .. Len(r) : r[i].b = b /\ r[i].op \in {"lockHal", "transfer", "finish"}
  BY Giving
<1> HIDE DEF r
<1>4. lock[Wire(b)] = t
  BY <1>1, <1>2, InTransaction
<1>5. \A c \in Ports : lock[Wire(c)] = t => c = b
  BY <1>4 DEF Inv, Sayings, OneObject
<1>6. /\ ~HasIn(r, Quitting, b) /\ ~HasIn(r, {"free"}, b) /\ r[1].op # "lockWire"
      /\ \A i \in 1 .. Len(r) : r[i].op # "begun"
  <2>1. r # <<>>
    BY <1>3, NothingInEmpty
  <2>2. 1 \in 1 .. Len(r)
    BY <1>3, <2>1 DEF Fresh
  <2> QED BY <1>3, <2>2 DEF HasIn, Quitting
<1>7. local' \in [Tasks -> Call] /\ \A u \in Tasks \ {t} : local'[u] = local[u]
  BY <1>1, WireIsTyped
<1>8. \A i \in 1 .. Len(r) : /\ r[i].op \in WireOps \cup {"lockWire"} => r[i].b = b
                             /\ r[i].op # "begun"
  BY <1>3, <1>6
<1>9. b \in Buses
  BY I2cAssumption
<1>10. UNCHANGED <<initialized, installed, bus, lock, wire, said>> /\ Fresh(r)
  BY <1>1, <1>2, <1>3
<1>11. \/ /\ Len(r) > 0 /\ r[1].op = "lockWire" /\ HasIn(r, WireOps, b)
          /\ ~HasIn(r, {"finish"}, b)
       \/ /\ r[1].op # "lockWire" /\ lock[Wire(b)] = t
       \/ /\ r[1].op # "lockWire" /\ ~HasIn(r, WireOps, b)
  BY <1>4, <1>6
<1> QED BY ONLY Inv, t \in Tasks, Noted, <1>2, <1>5, <1>6, <1>7, <1>8, <1>9,
     <1>10,
        <1>11, CallStep

LEMMA CallClaimKeepsInv ==
  ASSUME Inv, NEW t \in Tasks, CallClaim(t), Noted
  PROVE  Inv'
<1>1. PICK p \in Claims : said[t] = NoSaying /\ Claim(t, p) /\ UNCHANGED <<wire, said>>
  BY DEF CallClaim
<1> DEFINE a == ClearPin(p)
           c == Op("gpio", Gpio, "GPIO", p)
           r == <<a, c>>
<1>2. /\ Idle(t) /\ agenda' = [agenda EXCEPT ![t] = r]
      /\ deinit_functions' = [deinit_functions EXCEPT !["GPIO"] = "driver"]
      /\ UNCHANGED <<initialized, installed, bus, pins, lock, local>>
  BY <1>1 DEF Claim, unchangedHal, halVars
<1>3. /\ a \in Operation /\ a.op = "setBus" /\ c \in Operation /\ c.op = "gpio"
  <2>1. p \in Pins /\ Gpio \in Buses /\ {"GPIO", "INIT"} \subseteq BusTypes
    BY WireAssumption, I2cAssumption DEF BusTypes, OwnedTypes
  <2> QED BY <2>1, PinOpIsOperation DEF ClearPin, PinOps, Op, Operation, OpNames
<1> HIDE DEF a, c
<1>4. Len(r) = 2 /\ r[1] = a /\ r[2] = c /\ r \in Seq(Operation)
  BY <1>3
<1> HIDE DEF r
<1>5. \A i \in 1 .. Len(r) : i = 1 \/ i = 2
  BY <1>4
<1>6. After(r, 1) = c /\ After(r, 2) = Nothing
  BY <1>4 DEF After
<1>7. Follows(a, c) /\ Follows(c, Nothing)
  BY <1>3 DEF Follows, Nothing, For, Op, LastOps, InitOps
<1>8. InOrder(r)
  BY <1>4, <1>5, <1>6, <1>7 DEF InOrder
<1>9. \A i \in 1 .. Len(r) : r[i].op \in {"setBus", "gpio"}
  BY <1>3, <1>4, <1>5
<1>10. \A i \in 1 .. Len(r) : ~Open(r, i) /\ r[i].op # "onTheBus"
  BY <1>9 DEF Open, HalOps
<1>11. OnePort(r)
  BY <1>9 DEF OnePort, WireOps, Quitting
<1>12. Fresh(r)
  BY <1>4, <1>8, <1>10, <1>11 DEF Fresh
<1>13. PeriManTypeOK'
  BY <1>2 DEF PeriManTypeOK, Inv, Types, TypeOK, I2cTypeOK
<1>14. local' \in [Tasks -> Call] /\ \A u \in Tasks \ {t} : local'[u] = local[u]
  BY <1>2, WireIsTyped
<1>15. \A what \in {{"free"}, Quitting, WireOps, WireOps \cup {"lockWire"}} :
         ~HasIn(r, what, Gpio)
  BY <1>9 DEF HasIn, WireOps, Quitting
<1>16. r[1].op # "lockWire"
  BY <1>3, <1>4
<1>17. \A i \in 1 .. Len(r) : /\ r[i].op \in WireOps \cup {"lockWire"} => r[i].b = Gpio
                              /\ r[i].op # "begun"
  BY <1>9 DEF WireOps, Quitting
<1>18. Gpio \in Buses
  BY I2cAssumption
<1> QED BY <1>1, <1>2, <1>12, <1>13, <1>14, <1>15, <1>16, <1>17, <1>18, CallStep

-----------------------------------------------------------------------------
(* The invariant.                                                           *)
LEMMA InitEstablishesInv ==
  ASSUME Init
  PROVE  Inv
<1>1. /\ agenda = [t \in Tasks |-> <<>>] /\ local = [t \in Tasks |-> NoCall]
      /\ initialized = {} /\ installed = {} /\ bus = [b \in Ports |-> NotStarted]
      /\ lock = [l \in Locks |-> "free"]
      /\ raced = FALSE /\ halfStarted = {} /\ halfEnded = {}
      /\ said = [t \in Tasks |-> NoSaying]
      /\ wire = [b \in Ports |->
           [currentTaskHandle |-> NULL, nonStop |-> FALSE, txAddress |-> NULL, tx |-> <<>>,
            buffers |-> FALSE, abandoned |-> FALSE]]
  BY DEF Init, I2cInit
<1>2. \A t \in Tasks : Idle(t) /\ ~Does(t, "lockWire") /\ \A some, c : ~Has(t, some, c)
  BY <1>1, NothingInEmpty DEF Idle, Does, Has
<1>3. Types
  <2>1. PeriManTypeOK
    BY I2cAssumption DEF Init, I2cInit, PeriManTypeOK, Unassigned, BusTypes, OwnedTypes, Extras
  <2>2. I2cTypeOK
    BY <1>1, <2>1 DEF I2cTypeOK, NotStarted
  <2>3. <<>> \in Seq(Tasks) /\ Len(<<>>) = 0 /\ <<>> \in Seq(Operation)
    OBVIOUS
  <2>4. TypeOK
    BY <1>1, <2>2, <2>3, WireAssumption DEF TypeOK
  <2>5. NoCall \in Call /\ NoSaying \in Saying
    BY QuietIsSaying DEF NoCall, NotStarted, Call
  <2> QED BY <1>1, <2>3, <2>4, <2>5 DEF Types
<1>4. Shape /\ HalHeld
  <2>1. Fresh(<<>>) /\ OpenOnce(<<>>)
    BY EmptyIsFresh DEF Fresh, OpenOnce
  <2>2. \A t \in Tasks : agenda[t] = <<>>
    BY <1>1
  <2> QED BY <2>1, <2>2 DEF Shape, HalHeld, Fresh
<1>5. WireHeld /\ Waits
  BY <1>2 DEF WireHeld, Waits
<1>6. Drivers /\ Buffers
  BY <1>1, <1>2 DEF Drivers, Buffers
<1>7. \A t \in Tasks, b \in Ports : lock[Wire(b)] # t /\ wire[b].currentTaskHandle # t
  <2>1. \A b \in Ports : lock[Wire(b)] = "free" /\ wire[b].currentTaskHandle = NULL
    BY <1>1, LocksDiffer
  <2> QED BY <2>1, WireAssumption
<1>8. Telling
  <2>1. \A t \in Tasks : said[t] = NoSaying
    BY <1>1
  <2> QED BY <2>1, QuietIsSaying, I2cAssumption, NullAssumption DEF Telling
<1>9. Outsiders /\ OneObject /\ Owners
  BY <1>2, <1>7 DEF Outsiders, OneObject, Owners
<1>10. Restarts
  <2>1. \A t \in Tasks : ~said[t].restart
    BY <1>1, QuietIsSaying
  <2> QED BY <1>1, <2>1 DEF Restarts
<1> QED BY <1>3, <1>4, <1>5, <1>6, <1>8, <1>9, <1>10 DEF Inv, Sayings

LEMMA I2cStepKeepsInv ==
  ASSUME Inv, NEW t \in Tasks, I2cStep(t), Aside, Recorded(t)
  PROVE  Inv'
<1>1. CASE Lock(t)
  BY <1>1, LockHalKeepsInv, LockWireKeepsInv DEF Lock
<1>2. CASE Unlock(t)
  BY <1>2, UnlockHalKeepsInv, UnlockWireKeepsInv DEF Unlock
<1>3. CASE SetBus(t)
  BY <1>3, SetBusKeepsInv
<1>4. CASE AssignPin(t)
  BY <1>4, AssignPinKeepsInv
<1>5. CASE DetachBus(t)
  BY <1>5, DetachBusKeepsInv
<1>6. CASE DeleteDriver(t)
  BY <1>6, DeleteDriverKeepsInv
<1>7. CASE Uninitialize(t)
  BY <1>7, UninitializeKeepsInv
<1>8. CASE ForgetPins(t)
  BY <1>8, ForgetPinsKeepsInv
<1>9. CASE InitStart(t)
  BY <1>9, InitStartKeepsInv
<1>10. CASE ClearScl(t)
  BY <1>10, ClearSclKeepsInv
<1>11. CASE Install(t)
  BY <1>11, InstallKeepsInv
<1>12. CASE NotInstalled(t)
  BY <1>12, NotInstalledKeepsInv
<1>13. CASE SetScl(t)
  BY <1>13, SetSclKeepsInv
<1>14. CASE Registered(t)
  BY <1>14, RegisteredKeepsInv
<1>15. CASE Fail(t)
  BY <1>15, FailKeepsInv
<1>16. CASE StartTransfer(t)
  BY <1>16, StartTransferKeepsInv
<1>17. CASE EndTransfer(t)
  BY <1>17, EndTransferKeepsInv
<1>18. CASE ClaimCleared(t)
  BY <1>18, ClaimClearedKeepsInv
<1>19. CASE DeleteFails(t)
  BY <1>19, DeleteFailsKeepsInv
<1> QED BY <1>1, <1>2, <1>3, <1>4, <1>5, <1>6, <1>7, <1>8, <1>9, <1>10, <1>11, <1>12, <1>13,
           <1>14, <1>15, <1>16, <1>17, <1>18, <1>19 DEF I2cStep

LEMMA WireStepKeepsInv ==
  ASSUME Inv, NEW t \in Tasks, WireStep(t), Noted
  PROVE  Inv'
<1>1. CASE Begin(t)
  BY <1>1, BeginKeepsInv
<1>2. CASE Begun(t)
  BY <1>2, BegunKeepsInv
<1>3. CASE End(t)
  BY <1>3, EndKeepsInv
<1>4. CASE FreeWireBuffer(t)
  BY <1>4, FreeWireBufferKeepsInv
<1>5. CASE BeginTransmission(t)
  BY <1>5, BeginTransmissionKeepsInv
<1>6. CASE RequestFrom(t)
  BY <1>6, RequestFromKeepsInv
<1>7. CASE RequestFromAnother(t)
  BY <1>7, RequestFromAnotherKeepsInv
<1>8. CASE Finish(t)
  BY <1>8, FinishKeepsInv
<1> QED BY <1>1, <1>2, <1>3, <1>4, <1>5, <1>6, <1>7, <1>8 DEF WireStep

LEMMA RequestKeepsInv ==
  ASSUME Inv, NEW t \in Tasks, Request(t), Noted
  PROVE  Inv'
<1>1. CASE CallBegin(t)
  BY <1>1, CallBeginKeepsInv
<1>2. CASE CallEnd(t)
  BY <1>2, CallEndKeepsInv
<1>3. CASE CallSetClock(t)
  BY <1>3, CallSetClockKeepsInv
<1>4. CASE CallClaim(t)
  BY <1>4, CallClaimKeepsInv
<1>5. CASE CallBeginTransmission(t)
  BY <1>5, CallBeginTransmissionKeepsInv
<1>6. CASE Write(t)
  BY <1>6, WriteKeepsInv
<1>7. CASE EndTransmission(t)
  BY <1>7, EndTransmissionKeepsInv
<1>8. CASE EndTransmissionFails(t)
  BY <1>8, EndTransmissionFailsKeepsInv
<1>9. CASE EndTransmissionNonStop(t)
  BY <1>9, EndTransmissionNonStopKeepsInv
<1>10. CASE CallRequestFrom(t)
  BY <1>10, CallRequestFromKeepsInv
<1> QED BY <1>1, <1>2, <1>3, <1>4, <1>5, <1>6, <1>7, <1>8, <1>9, <1>10 DEF Request

LEMMA NextKeepsInv ==
  ASSUME Inv, Next
  PROVE  Inv'
<1>1. PICK t \in Tasks : /\ \/ I2cStep(t) /\ UNCHANGED <<wire, said>>
                            \/ WireStep(t)
                            \/ Request(t)
                 /\ raced' = (raced \/ Racing')
                 /\ Recorded(t)
  BY DEF Next, Recorded
<1>2. Noted
  <2>1. raced' \in BOOLEAN
    BY <1>1
  <2> QED BY <1>1, <2>1 DEF Noted, Recorded
<1>3. CASE I2cStep(t) /\ UNCHANGED <<wire, said>>
  BY <1>1, <1>2, <1>3, I2cStepKeepsInv DEF Aside
<1>4. CASE WireStep(t)
  BY <1>2, <1>4, WireStepKeepsInv
<1>5. CASE Request(t)
  BY <1>2, <1>5, RequestKeepsInv
<1> QED BY <1>1, <1>3, <1>4, <1>5

LEMMA StutteringKeepsInv ==
  ASSUME Inv, UNCHANGED vars
  PROVE  Inv'
<1>1. UNCHANGED <<pins, deinit_functions, initialized, installed, bus, lock, agenda, local,
                  raced, halfStarted, halfEnded, wire, said>>
  BY DEF vars, i2cVars, halVars
<1>2. /\ Types /\ Shape /\ HalHeld /\ WireHeld /\ Waits /\ Drivers /\ Buffers /\ Restarts
      /\ Telling /\ Outsiders /\ OneObject /\ Owners
  BY DEF Inv, Sayings
<1>3. \A t, some, c : Has(t, some, c)' <=> Has(t, some, c)
  BY <1>1 DEF Has
<1>4. \A t, what : (Does(t, what)' <=> Does(t, what)) /\ Now(t)' = Now(t)
  BY <1>1 DEF Does, Idle, Now
<1>5. Types' /\ Shape' /\ HalHeld'
  BY <1>1, <1>2 DEF Types, TypeOK, I2cTypeOK, PeriManTypeOK, Shape, HalHeld
<1>6. WireHeld' /\ Waits' /\ Drivers'
  BY ONLY <1>1, <1>2, <1>3, <1>4 DEF WireHeld, Waits, Drivers
<1>7. Buffers'
  <2>1. \A t : Started(t)' <=> Started(t)
    BY <1>1 DEF Started
  <2> QED BY ONLY <1>1, <1>2, <1>3, <2>1 DEF Buffers, Undoing
<1>8. Telling' /\ Outsiders' /\ OneObject'
  <2>1. Telling'
    BY ONLY <1>1, <1>2 DEF Telling
  <2>2. Outsiders'
    BY ONLY <1>1, <1>2, <1>3 DEF Outsiders
  <2>3. OneObject'
    BY ONLY <1>1, <1>2, <1>3 DEF OneObject
  <2> QED BY <2>1, <2>2, <2>3
<1>9. Owners' /\ Restarts'
  <2>1. Owners'
    BY ONLY <1>1, <1>2, <1>3, <1>4 DEF Owners
  <2>2. Restarts'
    BY ONLY <1>1, <1>2, <1>3 DEF Restarts
  <2> QED BY <2>1, <2>2
<1> QED BY <1>5, <1>6, <1>7, <1>8, <1>9 DEF Inv, Sayings

(* The invariant holds in every reachable state, whatever the constants:    *)
(* each operation of the driver's functions, of the Peripheral Manager and  *)
(* of the Wire objects keeps it, in every interleaving of the tasks.        *)
THEOREM Invariance == Spec => []Inv
<1>1. Init => Inv
  BY InitEstablishesInv
<1>2. Inv /\ [Next]_vars => Inv'
  BY NextKeepsInv, StutteringKeepsInv
<1> QED BY <1>1, <1>2, PTL DEF Spec

-----------------------------------------------------------------------------
(* Every variable keeps its type, and no transmission outgrows the buffer:  *)
(* write() stops at bufferSize whichever task filled the buffer before.     *)
THEOREM Typing == Spec => []TypeOK
<1>1. Inv => TypeOK
  BY DEF Inv, Types
<1> QED BY <1>1, Invariance, PTL

(* A transfer on the bus has its port started and the driver installed.     *)
LEMMA OnTheBusHasAll ==
  ASSUME Inv, NEW t \in Tasks, Does(t, "onTheBus")
  PROVE  Now(t).b \in initialized \cap installed
<1>1. Now(t) \in Operation /\ Now(t).op = "onTheBus" /\ Now(t) = agenda[t][1]
      /\ Len(agenda[t]) \in Nat \ {0}
  BY NowIsOperation
<1>2. Now(t).b \in Ports
  BY <1>1 DEF Operation, PinOps
<1>3. 1 \in 1 .. Len(agenda[t])
  BY <1>1
<1>4. Has(t, {"onTheBus"}, Now(t).b)
  BY <1>1, <1>3 DEF Has, HasIn
<1> QED BY <1>2, <1>4 DEF Inv, Drivers

(* No driver is deleted under a transfer, whoever ends the port or takes    *)
(* one of its pins meanwhile: i2cDeinit() looks at the port and deletes     *)
(* the driver inside the lock that i2cWrite() and i2cRead() keep while      *)
(* they use the bus.                                                        *)
THEOREM NoTransferWithoutDriver == Spec => []DriverOutlivesTransfer
<1>1. Inv => DriverOutlivesTransfer
  BY OnTheBusHasAll DEF DriverOutlivesTransfer
<1> QED BY <1>1, Invariance, PTL

(* A started port that nobody begins or ends has its buffers, and no        *)
(* transfer runs without them: a begin() that fails, for lack of memory or  *)
(* for the sake of a pin, and an end() leave the port stopped before they   *)
(* free the buffers, also when the port is stopped again by a task that     *)
(* takes its pins. The exception are the ports whose begin() or end()       *)
(* failed because the IDF did not delete the driver (i2cDeinit() then       *)
(* leaves the port started): for these the theorem says nothing, and in     *)
(* the code their buffers are freed. No other way to a started port without *)
(* buffers is left.                                                         *)
THEOREM NoTransferWithoutBuffers == Spec => []TransferHasItsBuffers
<1>1. ASSUME Inv PROVE TransferHasItsBuffers
  <2>1. \A b \in initialized : wire[b].buffers \/ b \in halfStarted \/ b \in halfEnded
    BY <1>1 DEF Inv, Buffers
  <2>2. \A t \in Tasks : Does(t, "onTheBus") => Now(t).b \in initialized
    BY <1>1, OnTheBusHasAll
  <2> QED BY <2>1, <2>2 DEF TransferHasItsBuffers
<1> QED BY <1>1, Invariance, PTL

(* What requestFrom() finds in nonStop.                                     *)
LEMMA AtRequestFrom ==
  ASSUME Inv, NEW t \in Tasks, Does(t, "requestFrom"), NEW b \in Ports, Now(t).b = b
  PROVE  wire[b].nonStop = (said[t].restart \/ wire[b].abandoned)
<1>1. lock[Wire(b)] = t /\ said[t].b \in {b, NULL}
  BY AtTalkOp
<1>2. ASSUME NEW u \in Tasks PROVE ~Has(u, {"finish"}, b)
  <2>1. CASE u = t
    <3>1. \A some, c : Has(t, some, c) => "requestFrom" \in some
      BY AtLastOp DEF LastOps
    <3> QED BY <2>1, <3>1
  <2>2. CASE u # t /\ Does(u, "lockWire")
    <3>1. Waits
      BY DEF Inv
    <3> QED BY ONLY <2>2, <3>1, u \in Tasks, b \in Ports DEF Waits
  <2>3. CASE u # t /\ ~Does(u, "lockWire")
    <3>1. ~Has(u, WireOps, b)
      BY <1>1, <2>3 DEF Inv, WireHeld
    <3> QED BY <3>1 DEF Has, HasIn, WireOps
  <2> QED BY <2>1, <2>2, <2>3
<1>3. \A u \in Tasks \ {t} : said[u].b # b
  BY <1>1 DEF Inv, Sayings, Telling
<1>4. said[t].restart => said[t].b = b
  BY <1>1, QuietIsSaying DEF Inv, Sayings, Telling
<1>5. (\E u \in Tasks : said[u].b = b /\ said[u].restart) <=> said[t].restart
  BY <1>3, <1>4
<1>6. wire[b].nonStop <=> (wire[b].abandoned \/ said[t].restart)
  BY <1>2, <1>5 DEF Inv, Restarts
<1>7. wire[b].nonStop \in BOOLEAN
  BY WireIsTyped DEF WireObject
<1> QED BY <1>6, <1>7

(* An open transaction's address and bytes are in the buffer, and what      *)
(* requestFrom() sends first was asked for by its own task or given up by   *)
(* another: beginTransmission() takes the lock of the Wire object and the   *)
(* tasks that write, end the transmission or request have it.               *)
THEOREM TransactionsDoNotMix == Spec => []TransactionIsOneTasks
<1>1. ASSUME Inv PROVE TransactionIsOneTasks
  <2>1. \A t \in Tasks, b \in Ports : said[t].b = b =>
          wire[b].txAddress = said[t].addr /\ wire[b].tx = said[t].bytes
    BY <1>1 DEF Inv, Sayings, Telling
  <2> QED BY <1>1, <2>1, AtRequestFrom DEF TransactionIsOneTasks
<1> QED BY <1>1, Invariance, PTL

(* A task that has returned from its calls and is in no transaction holds   *)
(* no Wire object, and only the holder is its currentTaskHandle: every way  *)
(* out of begin(), end(), endTransmission() and requestFrom() unlocks it,   *)
(* except endTransmission() on an object without buffers.                   *)
THEOREM WireComesBack == Spec => []WireIsGivenBack
<1>1. ASSUME Inv PROVE WireIsGivenBack
  <2>1. \A t \in Tasks : Idle(t) => \A some, c : ~Has(t, some, c)
    BY <1>1, IdleHasNothing
  <2>2. Owners
    BY <1>1 DEF Inv, Sayings
  <2> QED BY <2>1, <2>2 DEF WireIsGivenBack, Owners, Holds
<1> QED BY <1>1, Invariance, PTL

-----------------------------------------------------------------------------
(* Who owns which pin. As long as no two tasks have changed one pin at a    *)
(* time, all of what follows holds (Keeping):                               *)
(*  - what comes before what on an agenda (Chained): an assignment is done  *)
(*    right after the owner's callback, or at once;                         *)
(*  - an operation finds its port as it was left for it (Intended), and a   *)
(*    pin is assigned after a success, or its owner has refused and is not  *)
(*    one that this task is stopping (Succeeding);                          *)
(*  - a pin that names a port is one of that port's pins, or is going to be *)
(*    cleared by the task that stops the port (Explained);                  *)
(*  - before a pin of a started port is overwritten, the port is stopped,   *)
(*    or has refused to be (Asked);                                         *)
(*  - a started port has its pins registered, or its begin() is still       *)
(*    going to register them, or is undone (Claimed).                       *)
(* None of these can do without the others: that a pin is not overwritten   *)
(* under a started port rests on the callback's result, and that again on   *)
(* the port's being unable to stop without touching the pin.                *)
Registering(o) == o.op \in {"setBus", "assign"} /\ o.b \in Ports
Clears(o, p) == o.op \in {"setBus", "assign"} /\ o.b = NULL /\ o.pin = p

Precedes(o, n) ==
  /\ n.op \in {"assign", "fail"} => o.op \in Stops \cup {"forget", "unlockHal"}
  /\ n.op \in {"setScl", "registered"} => o.op \in {"setBus", "assign"}
  /\ n.op = "deinit" => o.op = "lockHal"
  /\ n.op = "lockHal" => o.op = "lockWire"
  /\ n.op = "unlockHal" => o.op = "lockHal"
  /\ n.op = "detach" => o.op = "unlockHal"
  /\ n.op # "uninitialize"
  /\ Registering(o) => \/ o.role = "SDA" /\ n = For("setScl", o.b)
                       \/ o.role = "SCL" /\ n = For("registered", o.b)

Chained == \A t \in Tasks : \A i \in 1 .. Len(agenda[t]) :
  Precedes(agenda[t][i], After(agenda[t], i))

PinFor(pair, r) == IF r = "SDA" THEN pair.sda ELSE pair.scl

Means(o, want, started, its) ==
  /\ o.op \in {"clearScl", "install", "forget"} => o.b \notin started
  /\ o.op \in {"setScl", "registered", "uninitialize"} => o.b \in started
  /\ Registering(o) => o.b \in started /\ o.pin = PinFor(its[o.b], o.role)
  /\ o.op = "setScl" => its[o.b] = want
  /\ o.op \in {"begin", "init", "clearScl", "install"} => want \in Wants[o.b]
  /\ o.op \in PinOps => o.pin \in Pins

Intended == \A t \in Tasks : \A i \in 1 .. Len(agenda[t]) :
  Means(agenda[t][i], local[t].want, initialized, bus)

ChangesNothing(q) == \A i \in 1 .. Len(q) : q[i].op # "assign"
Spared(q, owner) == ~HasIn(q, {"forget"}, owner)
Succeeds(q, result, table) == Len(q) > 0 =>
  /\ q[1].op = "assign" => result \/ Spared(q, table[q[1].pin].bus)
  /\ q[1].op = "unlockHal" /\ After(q, 1).op = "assign" =>
       result \/ Spared(q, table[After(q, 1).pin].bus)
  /\ q[1].op = "lockWire" => ChangesNothing(q)
  /\ q[1].op = "lockHal" /\ After(q, 1).op = "unlockHal" => ChangesNothing(q)

Succeeding == \A t \in Tasks : Succeeds(agenda[t], local[t].result, pins)

Clearing(q, p, b) == \E i, j \in 1 .. Len(q) :
  i < j /\ Clears(q[i], p) /\ q[j].op = "forget" /\ q[j].b = b

Explained == \A p \in Pins : pins[p].bus \in Ports =>
  \/ pins[p].bus \in initialized /\ p \in {bus[pins[p].bus].sda, bus[pins[p].bus].scl}
  \/ \E t \in Tasks : Clearing(agenda[t], p, pins[p].bus)

Skipped(q, j, result) == ~result /\ (j = 1 \/ (j = 2 /\ q[1].op = "unlockHal"))

AskedFor(q, j, owner, started, result) ==
  /\ owner \in started => \/ j > 1 /\ q[j - 1].op \in Stops /\ q[j - 1].b = owner
                          \/ Skipped(q, j, result)
  /\ j > 1 /\ q[j - 1].op \in {"detach", "deinit"} => owner = q[j - 1].b

Asked == \A t \in Tasks : \A j \in 1 .. Len(agenda[t]) : agenda[t][j].op = "assign" =>
  AskedFor(agenda[t], j, pins[agenda[t][j].pin].bus, initialized, local[t].result)

WillClaim(o, b, r) == o.b = b /\ ((Registering(o) /\ o.role = r) \/ (o.op = "setScl" /\ r = "SCL"))

GivenUp(b) == b \in halfStarted \/ \E t \in Tasks :
  \/ Undoes(t, b)
  \/ (Does(t, "setScl") \/ Does(t, "registered")) /\ Now(t).b = b /\ ~local[t].result

Claimed == \A b \in initialized :
  /\ bus[b] \in Wants[b]
  /\ \A r \in {"SDA", "SCL"} :
       \/ Registers(b, PinFor(bus[b], r), r)
       \/ GivenUp(b)
       \/ \E t \in Tasks : \E i \in 1 .. Len(agenda[t]) : WillClaim(agenda[t][i], b, r)

Keeping ==
  /\ ~Racing /\ Chained /\ Intended /\ Succeeding
  /\ Explained /\ Asked /\ Claimed

OwnInv == Inv /\ (~raced => Keeping)

-----------------------------------------------------------------------------
(* One step of a task: its agenda gets these operations in front, instead   *)
(* of the one at hand if there was one.                                     *)
Moves(t, ops) ==
  /\ ops \in Seq(Operation)
  /\ \/ ~Idle(t) /\ Becomes(t, ops)
     \/ Idle(t) /\ agenda' = [agenda EXCEPT ![t] = ops]

NextTo(q, ops, i) == IF i < Len(ops) THEN ops[i + 1] ELSE After(q, 1)

LEMMA MovesWhere ==
  ASSUME Types, NEW t \in Tasks, NEW ops, Moves(t, ops)
  PROVE  /\ \A u \in Tasks \ {t} : agenda'[u] = agenda[u]
         /\ Len(ops) \in Nat /\ Len(agenda[t]) \in Nat /\ Len(agenda'[t]) \in Nat
         /\ Idle(t) => Len(agenda[t]) = 0
         /\ ~Idle(t) => Len(agenda[t]) > 0
         /\ \A i \in 1 .. Len(ops) : i \in 1 .. Len(agenda'[t]) /\ agenda'[t][i] = ops[i]
                                     /\ After(agenda'[t], i) = NextTo(agenda[t], ops, i)
         /\ \A j \in 2 .. Len(agenda[t]) :
              /\ j + Len(ops) - 1 \in 1 .. Len(agenda'[t])
              /\ agenda'[t][j + Len(ops) - 1] = agenda[t][j]
              /\ After(agenda'[t], j + Len(ops) - 1) = After(agenda[t], j)
         /\ \A i \in 1 .. Len(agenda'[t]) :
              \/ i \in 1 .. Len(ops)
              \/ i > Len(ops) /\ i - Len(ops) + 1 \in 2 .. Len(agenda[t])
<1> DEFINE q == agenda[t]
           r == agenda'[t]
           k == Len(ops)
<1>1. /\ \A u \in Tasks \ {t} : agenda'[u] = agenda[u]
      /\ q \in Seq(Operation) /\ ops \in Seq(Operation) /\ agenda \in [Tasks -> Seq(Operation)]
  <2>1. agenda \in [Tasks -> Seq(Operation)]
    BY DEF Types
  <2> QED BY <2>1 DEF Moves, Becomes
<1>2. Len(q) \in Nat /\ k \in Nat
  BY <1>1
<1>3. CASE Idle(t)
  <2>1. q = <<>> /\ r = ops /\ Len(q) = 0
    BY <1>1, <1>3 DEF Moves, Idle
  <2>2. \A i \in 1 .. k : After(ops, i) = NextTo(<<>>, ops, i)
    <3>1. After(<<>>, 1) = Nothing
      BY DEF After
    <3> QED BY <3>1 DEF After, NextTo
  <2>3. ~(\E j : j \in 2 .. Len(q))
    BY <2>1
  <2> QED BY <1>1, <1>2, <1>3, <2>1, <2>2, <2>3
<1>4. CASE ~Idle(t)
  <2>1. Replaced(q, ops, r)
    BY <1>4, BecomesReplaces DEF Moves
  <2>2. /\ Len(q) \in Nat \ {0} /\ Len(r) = k + Len(q) - 1
        /\ \A i \in 1 .. k : r[i] = ops[i]
        /\ \A i \in k + 1 .. Len(r) : r[i] = q[i - k + 1]
    BY <2>1 DEF Replaced
  <2>3. PICK m \in Nat \ {0} : m = Len(q)
    BY <2>2
  <2>4. PICK n \in Nat : n = Len(r) /\ n = k + m - 1
    BY <1>2, <2>2, <2>3
  <2> HIDE DEF q, r, k
  <2>5. \A i \in 1 .. k : i \in 1 .. Len(r) /\ r[i] = ops[i] /\ After(r, i) = NextTo(q, ops, i)
    <3> SUFFICES ASSUME NEW i \in 1 .. k
                 PROVE  i \in 1 .. n /\ r[i] = ops[i] /\ After(r, i) = NextTo(q, ops, i)
      BY <2>4
    <3>1. i \in 1 .. n
      BY <1>2, <2>3, <2>4
    <3>2. CASE i < k
      <4>1. i + 1 \in 1 .. k /\ i < n
        BY <1>2, <2>3, <2>4, <3>2
      <4>2. r[i + 1] = ops[i + 1]
        BY <2>2, <4>1
      <4> QED BY <2>2, <2>4, <3>1, <3>2, <4>1, <4>2 DEF After, NextTo, k
    <3>3. CASE i = k
      <4>1. CASE m = 1
        <5>1. ~(i < n) /\ ~(i < k)
          BY <1>2, <2>4, <3>3, <4>1
        <5>2. After(q, 1) = Nothing
          BY <2>3, <4>1 DEF After
        <5> QED BY <2>2, <2>4, <3>1, <5>1, <5>2 DEF After, NextTo, k
      <4>2. CASE m > 1
        <5>1. i < n /\ ~(i < k) /\ i + 1 \in k + 1 .. n /\ (i + 1) - k + 1 = 2
          BY <1>2, <2>4, <3>3, <4>2
        <5>2. r[i + 1] = q[2]
          BY <2>2, <2>4, <5>1
        <5>3. After(q, 1) = q[2]
          BY <2>3, <4>2 DEF After
        <5> QED BY <2>2, <2>4, <3>1, <5>1, <5>2, <5>3 DEF After, NextTo, k
      <4> QED BY <2>3, <4>1, <4>2
    <3> QED BY <1>2, <3>2, <3>3
  <2>6. ASSUME NEW j \in 2 .. m
        PROVE  /\ j + k - 1 \in 1 .. n /\ r[j + k - 1] = q[j]
               /\ After(r, j + k - 1) = After(q, j)
    <3> DEFINE i == j + k - 1
    <3>1. i \in 1 .. n /\ i \in k + 1 .. n /\ i - k + 1 = j /\ (i < n <=> j < m)
      BY <1>2, <2>4
    <3>2. i < n => i + 1 \in k + 1 .. n /\ (i + 1) - k + 1 = j + 1
      BY <1>2, <2>4
    <3> HIDE DEF i
    <3>3. r[i] = q[j] /\ (i < n => r[i + 1] = q[j + 1])
      BY <2>2, <2>4, <3>1, <3>2
    <3>4. After(r, i) = After(q, j)
      BY <2>3, <2>4, <3>1, <3>3 DEF After
    <3> QED BY <3>1, <3>3, <3>4 DEF i
  <2>7. \A i \in 1 .. n : i \in 1 .. k \/ (i > k /\ i - k + 1 \in 2 .. m)
    BY <1>2, <2>4
  <2> QED BY <1>1, <1>2, <1>4, <2>3, <2>4, <2>5, <2>6, <2>7 DEF q, r, k
<1> QED BY <1>3, <1>4

LEMMA MovesKeepChained ==
  ASSUME Types, Chained, NEW t \in Tasks, NEW ops, Moves(t, ops),
         \A i \in 1 .. Len(ops) : Precedes(ops[i], NextTo(agenda[t], ops, i))
  PROVE  Chained'
<1> DEFINE q == agenda[t]
           r == agenda'[t]
<1>1. ASSUME NEW i \in 1 .. Len(r) PROVE Precedes(r[i], After(r, i))
  <2>1. CASE i \in 1 .. Len(ops)
    <3>1. r[i] = ops[i] /\ After(r, i) = NextTo(q, ops, i)
      BY <2>1, MovesWhere
    <3> QED BY <2>1, <3>1
  <2>2. CASE i > Len(ops) /\ i - Len(ops) + 1 \in 2 .. Len(q)
    <3> DEFINE j == i - Len(ops) + 1
    <3>1. j + Len(ops) - 1 = i /\ j \in 1 .. Len(q)
      BY <1>1, <2>2, MovesWhere
    <3>2. r[i] = q[j] /\ After(r, i) = After(q, j)
      BY <2>2, <3>1, MovesWhere
    <3> QED BY <3>1, <3>2 DEF Chained
  <2> QED BY <2>1, <2>2, MovesWhere
<1>2. \A u \in Tasks \ {t} : agenda'[u] = agenda[u]
  BY MovesWhere
<1> QED BY <1>1, <1>2 DEF Chained

LEMMA MovesKeepIntended ==
  ASSUME Types, NEW t \in Tasks, NEW ops, Moves(t, ops),
         \A u \in Tasks : \A i \in 1 .. Len(agenda[u]) : (u = t => i > 1) =>
           Means(agenda[u][i], local'[u].want, initialized', bus'),
         \A i \in 1 .. Len(ops) : Means(ops[i], local'[t].want, initialized', bus')
  PROVE  Intended'
<1> DEFINE q == agenda[t]
           r == agenda'[t]
<1>1. ASSUME NEW i \in 1 .. Len(r) PROVE Means(r[i], local'[t].want, initialized', bus')
  <2>1. CASE i \in 1 .. Len(ops)
    BY <2>1, MovesWhere
  <2>2. CASE i > Len(ops) /\ i - Len(ops) + 1 \in 2 .. Len(q)
    <3> DEFINE j == i - Len(ops) + 1
    <3>1. j + Len(ops) - 1 = i /\ j \in 1 .. Len(q) /\ j > 1
      BY <1>1, <2>2, MovesWhere
    <3>2. r[i] = q[j]
      BY <2>2, <3>1, MovesWhere
    <3> QED BY <3>1, <3>2
  <2> QED BY <2>1, <2>2, MovesWhere
<1>2. \A u \in Tasks \ {t} : agenda'[u] = agenda[u]
  BY MovesWhere
<1> QED BY <1>1, <1>2 DEF Intended

LEMMA MovesKeepMeaning ==
  ASSUME Types, Intended, NEW t \in Tasks, NEW ops, Moves(t, ops),
         UNCHANGED <<initialized, bus>>,
         \A u \in Tasks : local'[u].want = local[u].want,
         \A i \in 1 .. Len(ops) : Means(ops[i], local[t].want, initialized, bus)
  PROVE  Intended'
<1>1. \A u \in Tasks : \A i \in 1 .. Len(agenda[u]) :
        Means(agenda[u][i], local'[u].want, initialized', bus')
  BY DEF Intended
<1> QED BY <1>1, MovesKeepIntended

LEMMA NewFirstSucceeds ==
  ASSUME Types, NEW t \in Tasks, NEW ops, Moves(t, ops), Len(ops) > 0,
         ops[1].op = "lockWire" => Idle(t) /\ ChangesNothing(ops),
         ops[1].op = "assign" => local'[t].result,
         ops[1].op = "unlockHal" /\ NextTo(agenda[t], ops, 1).op = "assign" =>
           local'[t].result \/ Spared(agenda'[t], pins'[NextTo(agenda[t], ops, 1).pin].bus),
         ops[1].op = "lockHal" => NextTo(agenda[t], ops, 1).op # "unlockHal"
  PROVE  Succeeds(agenda'[t], local'[t].result, pins')
<1>1. Len(ops) \in Nat
  BY MovesWhere
<1>2. 1 \in 1 .. Len(ops)
  BY <1>1
<1>3. agenda'[t][1] = ops[1] /\ After(agenda'[t], 1) = NextTo(agenda[t], ops, 1)
  BY <1>2, MovesWhere
<1>4. Idle(t) => agenda'[t] = ops
  BY DEF Moves, Types
<1> QED BY <1>3, <1>4 DEF Succeeds

LEMMA SecondIsFirst ==
  ASSUME Types, NEW t \in Tasks, ~Idle(t), Moves(t, <<>>), Len(agenda'[t]) > 0
  PROVE  /\ agenda'[t][1] = After(agenda[t], 1) /\ After(agenda'[t], 1) = After(agenda[t], 2)
         /\ 2 \in 1 .. Len(agenda[t]) /\ After(agenda[t], 1) = agenda[t][2]
<1>1. 1 \in 1 .. Len(agenda'[t]) /\ Len(<<>>) = 0
  BY MovesWhere
<1>2. 1 - 0 + 1 \in 2 .. Len(agenda[t])
  BY <1>1, MovesWhere
<1>3. 2 \in 2 .. Len(agenda[t]) /\ 2 \in 1 .. Len(agenda[t]) /\ 1 < Len(agenda[t])
  BY <1>2, MovesWhere
<1>4. agenda'[t][2 + 0 - 1] = agenda[t][2] /\ After(agenda'[t], 2 + 0 - 1) = After(agenda[t], 2)
  BY <1>1, <1>3, MovesWhere
<1>5. After(agenda[t], 1) = agenda[t][2]
  BY <1>3 DEF After
<1> QED BY <1>3, <1>4, <1>5

LEMMA SparedStays ==
  ASSUME Types, NEW t \in Tasks, NEW ops, Moves(t, ops), NEW b, Spared(agenda[t], b),
         ~HasIn(ops, {"forget"}, b)
  PROVE  Spared(agenda'[t], b)
<1> SUFFICES ASSUME NEW i \in 1 .. Len(agenda'[t]), agenda'[t][i].op = "forget", agenda'[t][i].b = b
             PROVE  FALSE
  BY DEF Spared, HasIn
<1>1. CASE i \in 1 .. Len(ops)
  BY <1>1, MovesWhere DEF HasIn
<1>2. CASE i > Len(ops) /\ i - Len(ops) + 1 \in 2 .. Len(agenda[t])
  <2> DEFINE j == i - Len(ops) + 1
  <2>1. j + Len(ops) - 1 = i /\ j \in 1 .. Len(agenda[t])
    BY <1>2, MovesWhere
  <2>2. agenda'[t][i] = agenda[t][j]
    BY <1>2, <2>1, MovesWhere
  <2> QED BY <2>1, <2>2 DEF Spared, HasIn
<1> QED BY <1>1, <1>2, MovesWhere

LEMMA OldFirstSucceeds ==
  ASSUME Inv, Chained, NEW t \in Tasks, ~Idle(t), Moves(t, <<>>),
         Now(t).op \notin {"lockHal", "lockWire"},
         After(agenda[t], 1).op = "assign" =>
           local'[t].result \/ Spared(agenda[t], pins'[After(agenda[t], 1).pin].bus)
  PROVE  Succeeds(agenda'[t], local'[t].result, pins')
<1> SUFFICES ASSUME Len(agenda'[t]) > 0 PROVE Succeeds(agenda'[t], local'[t].result, pins')
  BY DEF Succeeds
<1>0. Types
  BY DEF Inv
<1>1. agenda'[t][1] = After(agenda[t], 1)
  BY <1>0, SecondIsFirst
<1>2. 1 \in 1 .. Len(agenda[t])
  BY <1>0, MovesWhere
<1>3. Precedes(Now(t), After(agenda[t], 1)) /\ After(agenda[t], 1).op # "lockWire"
  BY <1>2 DEF Chained, Now, Inv, Shape, InOrder, Follows
<1>4. ASSUME NEW b, Spared(agenda[t], b) PROVE Spared(agenda'[t], b)
  <2>1. ~HasIn(<<>>, {"forget"}, b)
    BY DEF HasIn
  <2> QED BY <1>0, <1>4, <2>1, SparedStays
<1> QED BY <1>1, <1>3, <1>4 DEF Succeeds, Precedes

LEMMA MovesKeepSucceeding ==
  ASSUME Types, Succeeding, NEW t \in Tasks, NEW ops, Moves(t, ops),
         UNCHANGED pins, \A u \in Tasks \ {t} : local'[u].result = local[u].result,
         Succeeds(agenda'[t], local'[t].result, pins')
  PROVE  Succeeding'
<1>1. \A u \in Tasks \ {t} : agenda'[u] = agenda[u]
  BY MovesWhere
<1> QED BY <1>1 DEF Succeeding

(* What is to be cleared stays so, unless it is the operation at hand.      *)
LEMMA MovesKeepClearing ==
  ASSUME Types, NEW t \in Tasks, NEW ops, Moves(t, ops), NEW p, NEW b, NEW u \in Tasks,
         Clearing(agenda[u], p, b),
         u = t /\ Clears(Now(t), p) => \E i \in 1 .. Len(ops) : Clears(ops[i], p)
  PROVE  Clearing(agenda'[u], p, b)
<1>1. CASE u # t
  BY <1>1, MovesWhere
<1>2. CASE u = t
  <2> DEFINE q == agenda[t]
             r == agenda'[t]
             k == Len(ops)
  <2>1. PICK i \in 1 .. Len(q), j \in 1 .. Len(q) :
          i < j /\ Clears(q[i], p) /\ q[j].op = "forget" /\ q[j].b = b
    BY <1>2 DEF Clearing
  <2>2. k \in Nat /\ Len(q) \in Nat
    BY MovesWhere
  <2> HIDE DEF k
  <2>3. j \in 2 .. Len(q)
    BY <2>1, <2>2
  <2>4. j + k - 1 \in 1 .. Len(r) /\ r[j + k - 1] = q[j]
    BY <2>3, MovesWhere DEF k
  <2>5. CASE i > 1
    <3>1. i \in 2 .. Len(q) /\ i + k - 1 < j + k - 1
      BY <2>1, <2>2, <2>5
    <3>2. i + k - 1 \in 1 .. Len(r) /\ r[i + k - 1] = q[i]
      BY <3>1, MovesWhere DEF k
    <3> QED BY <1>2, <2>1, <2>4, <3>1, <3>2 DEF Clearing
  <2>6. CASE i = 1
    <3>1. PICK m \in 1 .. k : Clears(ops[m], p)
      BY <1>2, <2>1, <2>6 DEF Now, k
    <3>2. m \in 1 .. Len(r) /\ r[m] = ops[m]
      BY <3>1, MovesWhere DEF k
    <3>3. m < j + k - 1
      BY <2>2, <2>3, <3>1
    <3> QED BY <1>2, <2>1, <2>4, <3>1, <3>2, <3>3 DEF Clearing
  <2> QED BY <2>1, <2>2, <2>5, <2>6
<1> QED BY <1>1, <1>2

LEMMA MovesKeepExplained ==
  ASSUME Types, Explained, NEW t \in Tasks, NEW ops, Moves(t, ops),
         UNCHANGED <<pins, initialized, bus>>,
         \A p \in Pins : pins[p].bus \in Ports /\ ~Idle(t) /\ Clears(Now(t), p)
           /\ Has(t, {"forget"}, pins[p].bus) => \E i \in 1 .. Len(ops) : Clears(ops[i], p)
  PROVE  Explained'
<1> SUFFICES ASSUME NEW p \in Pins, pins'[p].bus \in Ports
             PROVE  \/ /\ pins'[p].bus \in initialized'
                       /\ p \in {bus'[pins'[p].bus].sda, bus'[pins'[p].bus].scl}
                    \/ \E u \in Tasks : Clearing(agenda'[u], p, pins'[p].bus)
  BY DEF Explained
<1>1. CASE pins[p].bus \in initialized /\ p \in {bus[pins[p].bus].sda, bus[pins[p].bus].scl}
  BY <1>1
<1>2. ASSUME NEW u \in Tasks, Clearing(agenda[u], p, pins[p].bus)
      PROVE  Clearing(agenda'[u], p, pins[p].bus)
  <2>1. u = t => ~Idle(t) /\ Has(t, {"forget"}, pins[p].bus)
    BY <1>2, MovesWhere DEF Clearing, Has, HasIn
  <2> QED BY <1>2, <2>1, MovesKeepClearing
<1> QED BY <1>1, <1>2 DEF Explained

LEMMA MovesKeepAsked ==
  ASSUME Types, Asked, Intended, NEW t \in Tasks, NEW ops, Moves(t, ops),
         \A u \in Tasks \ {t} : local'[u].result = local[u].result,
         pins' = pins,
         \A p \in Pins : pins[p].bus \in initialized' => pins[p].bus \in initialized,
         \A i \in 1 .. Len(ops) : ops[i].op = "assign" =>
           AskedFor(ops, i, pins[ops[i].pin].bus, initialized', local'[t].result),
         After(agenda[t], 1).op = "assign" =>
           AskedFor(agenda'[t], Len(ops) + 1, pins[After(agenda[t], 1).pin].bus, initialized',
                    local'[t].result)
  PROVE  Asked'
<1> DEFINE q == agenda[t]
           r == agenda'[t]
           k == Len(ops)
<1>0. \A j \in 2 .. Len(q) : r[j + k - 1] = q[j]
  BY MovesWhere
<1>1. \A u \in Tasks : \A j \in 1 .. Len(agenda[u]) : agenda[u][j].op = "assign" =>
        /\ AskedFor(agenda[u], j, pins[agenda[u][j].pin].bus, initialized, local[u].result)
        /\ agenda[u][j].pin \in Pins
        /\ pins[agenda[u][j].pin].bus \in initialized' => pins[agenda[u][j].pin].bus \in initialized
  <2>1. \A u \in Tasks : \A j \in 1 .. Len(agenda[u]) :
          agenda[u][j].op = "assign" => agenda[u][j].pin \in Pins
    BY DEF Intended, Means, PinOps
  <2> QED BY <2>1 DEF Asked
<1>2. \A u \in Tasks \ {t} : \A j \in 1 .. Len(agenda'[u]) :
        agenda'[u][j].op = "assign" =>
          AskedFor(agenda'[u], j, pins'[agenda'[u][j].pin].bus, initialized', local'[u].result)
  <2>1. \A u \in Tasks \ {t} : agenda'[u] = agenda[u]
    BY MovesWhere
  <2> QED BY <1>1, <2>1 DEF AskedFor
<1>3. ASSUME NEW n \in 1 .. Len(r), r[n].op = "assign"
      PROVE  AskedFor(r, n, pins'[r[n].pin].bus, initialized', local'[t].result)
  <2>0. k \in Nat /\ Len(q) \in Nat /\ Len(r) \in Nat
    BY MovesWhere
  <2>1. CASE n \in 1 .. k
    <3>1. r[n] = ops[n] /\ (n > 1 => r[n - 1] = ops[n - 1]) /\ r[1] = ops[1]
      <4>1. (n > 1 => n - 1 \in 1 .. k) /\ 1 \in 1 .. k
        BY <2>0, <2>1
      <4> QED BY <2>1, <4>1, MovesWhere
    <3>2. AskedFor(ops, n, pins[ops[n].pin].bus, initialized', local'[t].result)
      BY <1>3, <2>1, <3>1
    <3> QED BY <3>1, <3>2 DEF AskedFor, Skipped
  <2>2. CASE n > k /\ n - k + 1 \in 2 .. Len(q)
    <3>1. PICK j \in 2 .. Len(q) : n = j + k - 1
      <4>1. n = (n - k + 1) + k - 1
        BY <2>0
      <4> QED BY <2>2, <4>1
    <3>2. r[n] = q[j] /\ j \in 1 .. Len(q)
      BY <2>0, <3>1, MovesWhere
    <3>3. CASE j = 2
      <4>1. n = k + 1 /\ After(q, 1) = q[2]
        BY <2>0, <3>1, <3>3 DEF After
      <4> QED BY <1>3, <3>2, <3>3, <4>1
    <3>4. CASE j > 2
      <4>1. PICK i \in 2 .. Len(q) : i = j - 1 /\ i + k - 1 = n - 1
        <5>1. j - 1 \in 2 .. Len(q) /\ (j - 1) + k - 1 = n - 1
          BY <2>0, <3>1, <3>4
        <5> QED BY <5>1
      <4>2. r[i + k - 1] = q[i]
        BY <1>0
      <4>3. r[n - 1] = q[j - 1] /\ j > 1 /\ n > 1
        BY <2>0, <3>1, <4>1, <4>2, <3>4
      <4>4. /\ AskedFor(q, j, pins[q[j].pin].bus, initialized, local[t].result)
            /\ pins[q[j].pin].bus \in initialized' => pins[q[j].pin].bus \in initialized
        BY <1>1, <1>3, <3>2
      <4>5. ~Skipped(q, j, local[t].result)
        BY <3>4 DEF Skipped
      <4> QED BY <3>2, <4>3, <4>4, <4>5 DEF AskedFor
    <3> QED BY <3>3, <3>4, <2>0, <3>1
  <2> QED BY <2>1, <2>2, MovesWhere
<1> QED BY <1>2, <1>3 DEF Asked

LEMMA WantedPins ==
  ASSUME NEW b \in Ports, NEW want \in Wants[b]
  PROVE  want.sda \in Pins /\ want.scl \in Pins
BY I2cAssumption

LEMMA MovesKeepClaim ==
  ASSUME Types, Claimed, NEW t \in Tasks, NEW ops, Moves(t, ops),
         NEW b \in initialized, bus'[b] = bus[b], NEW r \in {"SDA", "SCL"},
         \A p \in Pins : Registers(b, p, r) => Registers(b, p, r)',
         GivenUp(b) => GivenUp(b)',
         ~Idle(t) /\ WillClaim(Now(t), b, r) =>
           \/ \A p \in Pins : p = PinFor(bus[b], r) => Registers(b, p, r)'
           \/ GivenUp(b)'
           \/ \E i \in 1 .. Len(ops) : WillClaim(ops[i], b, r)
  PROVE  /\ bus'[b] \in Wants[b]
         /\ \/ \A p \in Pins : p = PinFor(bus'[b], r) => Registers(b, p, r)'
            \/ GivenUp(b)'
            \/ \E u \in Tasks : \E i \in 1 .. Len(agenda'[u]) : WillClaim(agenda'[u][i], b, r)
<1>0. bus'[b] \in Wants[b] /\ b \in Ports /\ PinFor(bus[b], r) \in Pins
  <2>1. bus[b] \in Wants[b] /\ b \in Ports
    BY DEF Claimed, Types, TypeOK, I2cTypeOK
  <2> QED BY <2>1, WantedPins DEF PinFor
<1> SUFFICES ASSUME NEW p \in Pins, p = PinFor(bus[b], r)
             PROVE  \/ Registers(b, p, r)' \/ GivenUp(b)'
                    \/ \E u \in Tasks : \E i \in 1 .. Len(agenda'[u]) : WillClaim(agenda'[u][i], b, r)
  BY <1>0
<1>1. CASE Registers(b, p, r) \/ GivenUp(b)
  BY <1>1
<1>2. CASE ~Registers(b, p, r) /\ ~GivenUp(b)
  <2>0. PICK u \in Tasks : \E i \in 1 .. Len(agenda[u]) : WillClaim(agenda[u][i], b, r)
    BY <1>2 DEF Claimed
  <2>1. PICK i \in 1 .. Len(agenda[u]) : WillClaim(agenda[u][i], b, r)
    BY <2>0
  <2>2. CASE u # t
    <3>1. agenda'[u] = agenda[u]
      BY <2>2, MovesWhere
    <3> QED BY <2>1, <3>1
  <2>3. CASE u = t /\ i = 1
    <3>1. ~Idle(t) /\ WillClaim(Now(t), b, r)
      BY <2>1, <2>3, MovesWhere DEF Now
    <3>2. CASE \E m \in 1 .. Len(ops) : WillClaim(ops[m], b, r)
      BY <3>2, MovesWhere
    <3> QED BY <3>1, <3>2
  <2>4. CASE u = t /\ i # 1
    <3>1. i \in 2 .. Len(agenda[t])
      BY <2>1, <2>4, MovesWhere
    <3>2. i + Len(ops) - 1 \in 1 .. Len(agenda'[t]) /\ agenda'[t][i + Len(ops) - 1] = agenda[t][i]
      BY <3>1, MovesWhere
    <3> QED BY <2>1, <2>4, <3>2
  <2> QED BY <2>2, <2>3, <2>4
<1> QED BY <1>1, <1>2

(* A start stays given up until the port is stopped, unless it is by the    *)
(* operation at hand.                                                       *)
LEMMA MovesKeepGivenUp ==
  ASSUME Types, Noted, NEW t \in Tasks, NEW ops, Moves(t, ops),
         \A u \in Tasks \ {t} : local'[u] = local[u],
         NEW b \in initialized', GivenUp(b),
         ~Idle(t) /\ Now(t).b = b =>
           Now(t).op # "fail" /\ (Now(t).op \in {"setScl", "registered"} => local[t].result)
  PROVE  GivenUp(b)'
<1>1. CASE b \in halfStarted
  BY <1>1 DEF GivenUp, Noted
<1>2. ASSUME NEW u \in Tasks, Undoes(u, b) PROVE Undoes(u, b)'
  <2>1. PICK i \in 1 .. Len(agenda[u]) : agenda[u][i].op = "fail" /\ agenda[u][i].b = b
    BY <1>2 DEF Undoes
  <2>2. CASE u # t
    BY <2>1, <2>2, MovesWhere DEF Undoes
  <2>3. CASE u = t
    <3>1. i \in 2 .. Len(agenda[t])
      BY <2>1, <2>3, MovesWhere DEF Now
    <3>2. i + Len(ops) - 1 \in 1 .. Len(agenda'[t]) /\ agenda'[t][i + Len(ops) - 1] = agenda[t][i]
      BY <3>1, MovesWhere
    <3> QED BY <2>1, <2>3, <3>2 DEF Undoes
  <2> QED BY <2>2, <2>3
<1>3. ASSUME NEW u \in Tasks, Does(u, "setScl") \/ Does(u, "registered"), Now(u).b = b,
             ~local[u].result
      PROVE  GivenUp(b)'
  <2>1. u # t
    BY <1>3 DEF Does
  <2>2. agenda'[u] = agenda[u] /\ local'[u] = local[u]
    BY <2>1, MovesWhere
  <2>3. (Does(u, "setScl") \/ Does(u, "registered"))' /\ Now(u)'.b = b /\ ~local'[u].result
    BY <1>3, <2>2 DEF Does, Now, Idle
  <2> QED BY <2>3 DEF GivenUp
<1> QED BY <1>1, <1>2, <1>3 DEF GivenUp

LEMMA MovesKeepClaimed ==
  ASSUME Types, Claimed, NEW t \in Tasks, NEW ops, Moves(t, ops),
         initialized' \subseteq initialized,
         \A b \in initialized' : bus'[b] = bus[b],
         \A b \in initialized' : \A p, r : Registers(b, p, r) => Registers(b, p, r)',
         \A b \in initialized' : GivenUp(b) => GivenUp(b)',
         \A b \in initialized' : \A r \in {"SDA", "SCL"} :
           ~Idle(t) /\ WillClaim(Now(t), b, r) =>
             \/ \A p : p = PinFor(bus[b], r) => Registers(b, p, r)'
             \/ GivenUp(b)'
             \/ \E i \in 1 .. Len(ops) : WillClaim(ops[i], b, r)
  PROVE  Claimed'
<1> SUFFICES ASSUME NEW b \in initialized', NEW r \in {"SDA", "SCL"}
             PROVE  /\ bus'[b] \in Wants[b]
                    /\ \A p : p = PinFor(bus'[b], r) =>
                         \/ Registers(b, p, r)' \/ GivenUp(b)'
                         \/ \E u \in Tasks : \E i \in 1 .. Len(agenda'[u]) :
                              WillClaim(agenda'[u][i], b, r)
  BY DEF Claimed
<1>1. bus'[b] = bus[b] /\ b \in initialized /\ bus[b] \in Wants[b] /\ b \in Ports
  BY DEF Claimed, Types, TypeOK, I2cTypeOK
<1>2. PinFor(bus'[b], r) \in Pins
  BY <1>1, WantedPins DEF PinFor
<1> QED BY <1>1, <1>2, MovesKeepClaim

-----------------------------------------------------------------------------
(* Steps that leave the pins and the started ports alone, and assign none.  *)
Kept == Chained' /\ Intended' /\ Succeeding' /\ Explained' /\ Asked' /\ Claimed'

Good(t, o, n) ==
  /\ Precedes(o, n) /\ Means(o, local'[t].want, initialized, bus) /\ o.op # "assign"

AllGood(t, ops) == \A i \in 1 .. Len(ops) : Good(t, ops[i], NextTo(agenda[t], ops, i))

Undisturbed(t) ==
  /\ UNCHANGED <<pins, initialized, bus>>
  /\ \A u \in Tasks \ {t} : local'[u] = local[u]
  /\ local'[t].want = local[t].want \/ Len(agenda[t]) <= 1

LEMMA PlainStep ==
  ASSUME Inv, Keeping, Noted, NEW t \in Tasks, NEW ops, Moves(t, ops), Undisturbed(t),
         AllGood(t, ops),
         \A p \in Pins : pins[p].bus \in Ports /\ ~Idle(t) /\ Clears(Now(t), p)
           /\ Has(t, {"forget"}, pins[p].bus) => \E i \in 1 .. Len(ops) : Clears(ops[i], p),
         ~Idle(t) => Now(t).op # "forget",
         After(agenda[t], 1).op = "assign" =>
           AskedFor(agenda'[t], Len(ops) + 1, pins[After(agenda[t], 1).pin].bus, initialized,
                    local'[t].result),
         \A b \in initialized : GivenUp(b) => GivenUp(b)',
         \A b \in initialized : \A r \in {"SDA", "SCL"} :
           ~Idle(t) /\ WillClaim(Now(t), b, r) =>
             \/ Registers(b, PinFor(bus[b], r), r)
             \/ GivenUp(b)'
             \/ \E i \in 1 .. Len(ops) : WillClaim(ops[i], b, r),
         Succeeds(agenda'[t], local'[t].result, pins)
  PROVE  Kept
<1>1. /\ Types /\ UNCHANGED <<pins, initialized, bus>>
      /\ Chained /\ Intended /\ Succeeding /\ Explained /\ Asked /\ Claimed
  BY DEF Inv, Keeping, Undisturbed
<1>2. \A i \in 1 .. Len(ops) :
        /\ Precedes(ops[i], NextTo(agenda[t], ops, i)) /\ ops[i].op # "assign"
        /\ Means(ops[i], local'[t].want, initialized', bus')
  BY <1>1 DEF AllGood, Good
<1>3. Chained'
  BY <1>1, <1>2, MovesKeepChained
<1>4. Intended'
  <2>1. ASSUME NEW u \in Tasks, NEW i \in 1 .. Len(agenda[u]), u = t => i > 1
        PROVE  Means(agenda[u][i], local'[u].want, initialized', bus')
    <3>1. Means(agenda[u][i], local[u].want, initialized', bus')
      BY <1>1 DEF Intended
    <3>2. local'[u].want = local[u].want
      <4>1. CASE u # t
        BY <4>1 DEF Undisturbed
      <4>2. CASE u = t
        <5>1. Len(agenda[t]) \in Nat
          BY <1>1, MovesWhere
        <5>2. ~(Len(agenda[t]) <= 1)
          BY <2>1, <4>2, <5>1
        <5> QED BY <4>2, <5>2 DEF Undisturbed
      <4> QED BY <4>1, <4>2
    <3> QED BY <3>1, <3>2
  <2> QED BY <1>1, <1>2, <2>1, MovesKeepIntended
<1>5. Succeeding'
  <2>1. \A u \in Tasks \ {t} : local'[u].result = local[u].result
    BY DEF Undisturbed
  <2> QED BY <1>1, <2>1, MovesKeepSucceeding
<1>6. Explained'
  BY <1>1, MovesKeepExplained
<1>7. Asked'
  <2>1. \A u \in Tasks \ {t} : local'[u].result = local[u].result
    BY DEF Undisturbed
  <2> QED BY <1>1, <1>2, <2>1, MovesKeepAsked
<1>8. Claimed'
  <2>1. \A b \in initialized' : \A p, r : Registers(b, p, r) => Registers(b, p, r)'
    BY <1>1 DEF Registers
  <2>2. \A b \in initialized' : \A r \in {"SDA", "SCL"} :
          ~Idle(t) /\ WillClaim(Now(t), b, r) =>
            \/ \A p : p = PinFor(bus[b], r) => Registers(b, p, r)'
            \/ GivenUp(b)'
            \/ \E i \in 1 .. Len(ops) : WillClaim(ops[i], b, r)
    BY <1>1, <2>1
  <2>3. \A b \in initialized' : GivenUp(b) => GivenUp(b)'
    BY <1>1
  <2> QED BY <1>1, <2>1, <2>2, <2>3, MovesKeepClaimed
<1> QED BY <1>3, <1>4, <1>5, <1>6, <1>7, <1>8 DEF Kept

(* Most operations are neither about pins nor about the start or the end of *)
(* a port.                                                                  *)
Watched == {"setBus", "assign", "setScl", "registered", "fail", "forget"} \cup Stops

LEMMA PlainerStep ==
  ASSUME Inv, Keeping, Noted, NEW t \in Tasks, NEW ops, Moves(t, ops), Undisturbed(t),
         AllGood(t, ops),
         ~Idle(t) => Now(t).op \notin Watched,
         After(agenda[t], 1).op = "assign" => ops = <<>> /\ local'[t].result = local[t].result,
         Succeeds(agenda'[t], local'[t].result, pins)
  PROVE  Kept
<1>1. ~Idle(t) => /\ \A p : ~Clears(Now(t), p)
                  /\ \A b, r : ~WillClaim(Now(t), b, r)
                  /\ Now(t).op \notin {"forget", "fail", "setScl", "registered"}
  BY DEF Clears, WillClaim, Registering, Watched
<1>2. \A b \in initialized : GivenUp(b) => GivenUp(b)'
  <2>1. /\ Types /\ \A b \in initialized : b \in initialized'
        /\ \A u \in Tasks \ {t} : local'[u] = local[u]
    BY DEF Inv, Undisturbed
  <2> QED BY <1>1, <2>1, MovesKeepGivenUp
<1>3. ASSUME After(agenda[t], 1).op = "assign"
      PROVE  AskedFor(agenda'[t], Len(ops) + 1, pins[After(agenda[t], 1).pin].bus, initialized,
                      local'[t].result)
  <2>1. Types /\ Len(agenda[t]) \in Nat /\ Len(ops) = 0
    BY <1>3, MovesWhere DEF Inv
  <2>2. After(agenda[t], 1) = agenda[t][2] /\ 2 \in 1 .. Len(agenda[t]) /\ ~Idle(t)
        /\ 1 \in 1 .. Len(agenda[t])
    <3>1. 1 < Len(agenda[t])
      BY <1>3 DEF After, Nothing, For, Op
    <3> QED BY <2>1, <3>1, MovesWhere DEF After
  <2>3. AskedFor(agenda[t], 2, pins[agenda[t][2].pin].bus, initialized, local[t].result)
    BY <1>3, <2>2 DEF Keeping, Asked
  <2>4. agenda[t][1].op \notin Stops /\ Stops = {"detach", "deinit", "uninitialize"}
    BY <2>2 DEF Now, Watched, Stops
  <2>5. pins[agenda[t][2].pin].bus \in initialized => ~local'[t].result
    BY <1>3, <2>3, <2>4 DEF AskedFor, Skipped
  <2> QED BY <2>1, <2>2, <2>5 DEF AskedFor, Skipped
<1> QED BY <1>1, <1>2, <1>3, PlainStep

LEMMA NoneGood ==
  ASSUME NEW t
  PROVE  AllGood(t, <<>>)
BY DEF AllGood

LEMMA OneGood ==
  ASSUME NEW t, NEW a, Good(t, a, After(agenda[t], 1))
  PROVE  AllGood(t, <<a>>) /\ Len(<<a>>) = 1 /\ <<a>>[1] = a
           /\ NextTo(agenda[t], <<a>>, 1) = After(agenda[t], 1)
BY DEF AllGood, NextTo

LEMMA TwoGood ==
  ASSUME NEW t, NEW a, NEW c, Good(t, a, c), Good(t, c, After(agenda[t], 1))
  PROVE  AllGood(t, <<a, c>>) /\ Len(<<a, c>>) = 2 /\ <<a, c>>[1] = a /\ <<a, c>>[2] = c
           /\ NextTo(agenda[t], <<a, c>>, 1) = c
<1> DEFINE ops == <<a, c>>
<1>1. Len(ops) = 2 /\ ops[1] = a /\ ops[2] = c
  OBVIOUS
<1> HIDE DEF ops
<1>2. \A i \in 1 .. Len(ops) : i = 1 \/ i = 2
  BY <1>1
<1>3. NextTo(agenda[t], ops, 1) = c /\ NextTo(agenda[t], ops, 2) = After(agenda[t], 1)
  BY <1>1 DEF NextTo
<1>4. AllGood(t, ops)
  BY <1>1, <1>2, <1>3 DEF AllGood
<1> QED BY <1>1, <1>3, <1>4 DEF ops

LEMMA ThreeGood ==
  ASSUME NEW t, NEW a, NEW c, NEW d,
         Good(t, a, c), Good(t, c, d), Good(t, d, After(agenda[t], 1))
  PROVE  AllGood(t, <<a, c, d>>) /\ Len(<<a, c, d>>) = 3 /\ <<a, c, d>>[1] = a
           /\ <<a, c, d>>[2] = c /\ <<a, c, d>>[3] = d /\ NextTo(agenda[t], <<a, c, d>>, 1) = c
<1> DEFINE ops == <<a, c, d>>
<1>1. Len(ops) = 3 /\ ops[1] = a /\ ops[2] = c /\ ops[3] = d
  OBVIOUS
<1> HIDE DEF ops
<1>2. \A i \in 1 .. Len(ops) : i = 1 \/ i = 2 \/ i = 3
  BY <1>1
<1>3. /\ NextTo(agenda[t], ops, 1) = c /\ NextTo(agenda[t], ops, 2) = d
      /\ NextTo(agenda[t], ops, 3) = After(agenda[t], 1)
  BY <1>1 DEF NextTo
<1>4. AllGood(t, ops)
  BY <1>1, <1>2, <1>3 DEF AllGood
<1> QED BY <1>1, <1>3, <1>4 DEF ops

LEMMA FourGood ==
  ASSUME NEW t, NEW a, NEW c, NEW d, NEW e, Good(t, a, c), Good(t, c, d), Good(t, d, e),
         Good(t, e, After(agenda[t], 1))
  PROVE  AllGood(t, <<a, c, d, e>>) /\ Len(<<a, c, d, e>>) = 4 /\ <<a, c, d, e>>[1] = a
           /\ <<a, c, d, e>>[2] = c /\ <<a, c, d, e>>[4] = e
           /\ NextTo(agenda[t], <<a, c, d, e>>, 1) = c
<1> DEFINE ops == <<a, c, d, e>>
<1>1. Len(ops) = 4 /\ ops[1] = a /\ ops[2] = c /\ ops[3] = d /\ ops[4] = e
  OBVIOUS
<1> HIDE DEF ops
<1>2. \A i \in 1 .. Len(ops) : i = 1 \/ i = 2 \/ i = 3 \/ i = 4
  BY <1>1
<1>3. /\ NextTo(agenda[t], ops, 1) = c /\ NextTo(agenda[t], ops, 2) = d
      /\ NextTo(agenda[t], ops, 3) = e /\ NextTo(agenda[t], ops, 4) = After(agenda[t], 1)
  BY <1>1 DEF NextTo
<1>4. AllGood(t, ops)
  BY <1>1, <1>2, <1>3 DEF AllGood
<1> QED BY <1>1, <1>3, <1>4 DEF ops

(* Operations about which no order is kept, and those that mean nothing.    *)
Ordered == {"assign", "setScl", "registered", "deinit", "lockHal", "unlockHal", "detach",
            "fail", "uninitialize"}
Meaning == {"clearScl", "install", "forget", "setScl", "registered", "uninitialize", "begin",
            "init"} \cup PinOps

LEMMA AnyGood ==
  ASSUME NEW t, NEW o, NEW n, o.op \notin Meaning, n.op \notin Ordered
  PROVE  Good(t, o, n)
BY DEF Good, Precedes, Means, Registering, Ordered, Meaning, PinOps

LEMMA NothingNext == Nothing.op \notin Ordered
BY DEF Nothing, For, Op, Ordered

LEMMA Lasting ==
  ASSUME NEW q, NEW o, Follows(o, After(q, 1)), o.op \in LastOps
  PROVE  After(q, 1) = Nothing
BY DEF Follows

-----------------------------------------------------------------------------
LEMMA AtHand ==
  ASSUME Inv, Keeping, NEW t \in Tasks, NEW what, Does(t, what)
  PROVE  /\ ~Idle(t) /\ Now(t) = agenda[t][1] /\ Now(t).op = what /\ Now(t) \in Operation
         /\ Len(agenda[t]) \in Nat \ {0} /\ 1 \in 1 .. Len(agenda[t])
         /\ Follows(Now(t), After(agenda[t], 1)) /\ After(agenda[t], 1).op # "lockWire"
         /\ Precedes(Now(t), After(agenda[t], 1))
         /\ Means(Now(t), local[t].want, initialized, bus)
         /\ Succeeds(agenda[t], local[t].result, pins)
         /\ what \notin PinOps => Now(t).b \in Ports
<1>1. /\ ~Idle(t) /\ Now(t) = agenda[t][1] /\ Now(t).op = what /\ Now(t) \in Operation
      /\ Len(agenda[t]) \in Nat \ {0}
      /\ Follows(Now(t), After(agenda[t], 1)) /\ After(agenda[t], 1).op # "lockWire"
  BY NowIsOperation
<1>2. 1 \in 1 .. Len(agenda[t])
  BY <1>1
<1>3. /\ Precedes(Now(t), After(agenda[t], 1)) /\ Succeeds(agenda[t], local[t].result, pins)
      /\ Means(Now(t), local[t].want, initialized, bus)
  BY <1>1, <1>2 DEF Keeping, Chained, Intended, Succeeding
<1>4. what \notin PinOps => Now(t).b \in Ports
  BY <1>1 DEF Operation
<1> QED BY <1>1, <1>2, <1>3, <1>4

LEMMA LockKeeps ==
  ASSUME Inv, Keeping, Noted, NEW t \in Tasks, Lock(t)
  PROVE  Kept
<1> DEFINE q == agenda[t]
           n == After(q, 1)
<1>1. PICK what \in {"lockHal", "lockWire"} : Does(t, what)
  BY DEF Lock
<1>2. /\ ~Idle(t) /\ Now(t) = q[1] /\ Now(t).op = what /\ Len(q) \in Nat \ {0}
      /\ Precedes(Now(t), n) /\ n.op # "lockWire" /\ Succeeds(q, local[t].result, pins)
  BY <1>1, AtHand
<1>3. Types /\ <<>> \in Seq(Operation) /\ Len(<<>>) = 0
  BY DEF Inv
<1>4. Moves(t, <<>>)
  BY <1>2, <1>3 DEF Lock, Done, Moves
<1>5. UNCHANGED <<pins, initialized, bus, local>>
  BY DEF Lock, unchangedPeriMan, unchangedHal, halVars
<1>6. Succeeds(agenda'[t], local'[t].result, pins')
  <2> SUFFICES ASSUME Len(agenda'[t]) > 0 PROVE Succeeds(agenda'[t], local[t].result, pins)
    BY <1>5 DEF Succeeds
  <2>1. /\ agenda'[t][1] = n /\ After(agenda'[t], 1) = After(q, 2)
        /\ 2 \in 1 .. Len(q) /\ n = q[2]
    BY <1>2, <1>3, <1>4, SecondIsFirst
  <2>2. ChangesNothing(q) => ChangesNothing(agenda'[t])
    <3> SUFFICES ASSUME ChangesNothing(q), NEW i \in 1 .. Len(agenda'[t])
                 PROVE  agenda'[t][i].op # "assign"
      BY DEF ChangesNothing
    <3>1. i + 1 \in 2 .. Len(q)
      BY <1>3, <1>4, MovesWhere
    <3>2. PICK j \in 2 .. Len(q) : i = j - 1
      <4>1. i = (i + 1) - 1
        OBVIOUS
      <4> QED BY <3>1, <4>1
    <3>3. agenda'[t][i] = q[j] /\ j \in 1 .. Len(q)
      <4>1. j + Len(<<>>) - 1 = i
        BY <1>3, <3>2
      <4>2. agenda'[t][j + Len(<<>>) - 1] = q[j]
        BY <1>3, <1>4, MovesWhere
      <4> QED BY <4>1, <4>2, <1>2
    <3> QED BY <3>3 DEF ChangesNothing
  <2>3. CASE what = "lockHal"
    <3>1. n.op \notin {"assign", "setScl", "registered", "lockWire", "lockHal"}
      BY <1>2, <2>3 DEF Precedes, Stops
    <3>2. n.op = "unlockHal" => ChangesNothing(q)
      BY <1>2, <2>3 DEF Succeeds
    <3>3. n.op = "unlockHal" => After(agenda'[t], 1).op # "assign"
      <4> SUFFICES ASSUME n.op = "unlockHal" PROVE After(agenda'[t], 1).op # "assign"
        OBVIOUS
      <4>1. ChangesNothing(agenda'[t])
        BY <2>2, <3>2
      <4>2. Len(agenda'[t]) \in Nat
        BY <1>3, <1>4, MovesWhere
      <4>3. 1 < Len(agenda'[t]) => 2 \in 1 .. Len(agenda'[t])
        BY <4>2
      <4>4. Nothing.op # "assign"
        BY DEF Nothing, For, Op
      <4> QED BY <4>1, <4>3, <4>4 DEF ChangesNothing, After
    <3> QED BY <2>1, <3>1, <3>3 DEF Succeeds
  <2>4. CASE what = "lockWire"
    <3>1. n.op \notin {"assign", "setScl", "registered", "lockWire", "unlockHal"}
      BY <1>2, <2>4 DEF Precedes, Stops
    <3>2. ChangesNothing(agenda'[t])
      BY <1>2, <2>2, <2>4 DEF Succeeds
    <3> QED BY <2>1, <3>1, <3>2 DEF Succeeds
  <2> QED BY <2>3, <2>4
<1>7. Undisturbed(t)
  BY <1>5 DEF Undisturbed
<1>8. Now(t).op \notin Watched
  BY <1>2 DEF Stops, Watched
<1>9. n.op # "assign"
  BY <1>2 DEF Precedes, Stops
<1> QED BY <1>3, <1>4, <1>5, <1>6, <1>7, <1>8, <1>9, NoneGood, PlainerStep

(* A step that takes the operation at hand off the agenda.                  *)
LEMMA DoneKeeps ==
  ASSUME Inv, Keeping, Noted, NEW t \in Tasks, NEW what, Does(t, what), Done(t), Undisturbed(t),
         what \notin {"lockHal", "lockWire"} \cup Watched,
         what = "unlockHal" => local'[t].result = local[t].result
  PROVE  Kept
<1>1. /\ ~Idle(t) /\ Now(t) = agenda[t][1] /\ Now(t).op = what /\ Len(agenda[t]) > 0
      /\ Precedes(Now(t), After(agenda[t], 1)) /\ Succeeds(agenda[t], local[t].result, pins)
  BY AtHand
<1>2. <<>> \in Seq(Operation) /\ Len(<<>>) = 0
  OBVIOUS
<1>3. Moves(t, <<>>)
  BY <1>1, <1>2 DEF Done, Moves
<1>4. After(agenda[t], 1).op = "assign" =>
        /\ local'[t].result = local[t].result
        /\ local'[t].result \/ Spared(agenda[t], pins'[After(agenda[t], 1).pin].bus)
  BY <1>1 DEF Precedes, Succeeds, Watched, Undisturbed
<1>5. Succeeds(agenda'[t], local'[t].result, pins')
  BY <1>1, <1>3, <1>4, OldFirstSucceeds DEF Keeping
<1> QED BY <1>1, <1>2, <1>3, <1>4, <1>5, NoneGood, PlainerStep DEF Undisturbed

LEMMA UnlockKeeps ==
  ASSUME Inv, Keeping, Noted, NEW t \in Tasks, Unlock(t)
  PROVE  Kept
<1>1. PICK what \in {"unlockHal", "unlockWire"} : Does(t, what)
  BY DEF Unlock
<1>2. local \in [Tasks -> Call]
  BY DEF Inv, Types
<1>3. UNCHANGED <<pins, initialized, bus>> /\ Done(t)
  BY DEF Unlock, unchangedPeriMan, unchangedHal, halVars
<1>4. CASE what = "unlockHal"
  <2>1. ~Does(t, "unlockWire")
    BY <1>1, <1>4 DEF Does
  <2>2. local' = local
    BY <2>1 DEF Unlock
  <2> QED BY <1>1, <1>3, <1>4, <2>2, DoneKeeps DEF Undisturbed, Stops, Watched
<1>5. CASE what = "unlockWire"
  <2>1. Len(agenda[t]) = 1
    BY <1>1, <1>5, AtLastOp DEF LastOps
  <2>2. \A u \in Tasks \ {t} : local'[u] = local[u]
    BY <1>2 DEF Unlock
  <2>3. Undisturbed(t)
    BY <1>3, <2>1, <2>2 DEF Undisturbed
  <2>4. what \notin {"lockHal", "lockWire", "unlockHal"} \cup Watched
    BY <1>5 DEF Stops, Watched
  <2> QED BY <1>1, <1>3, <2>3, <2>4, DoneKeeps
<1> QED BY <1>4, <1>5

(* A step that replaces the operation at hand, or starts a call, with a new *)
(* first operation.                                                         *)
LEMMA BecomesKeeps ==
  ASSUME Inv, Keeping, Noted, NEW t \in Tasks, NEW ops \in Seq(Operation), Undisturbed(t),
         \/ ~Idle(t) /\ Becomes(t, ops)
         \/ Idle(t) /\ agenda' = [agenda EXCEPT ![t] = ops],
         AllGood(t, ops), Len(ops) > 0,
         ~Idle(t) => Now(t).op \notin Watched \cup {"unlockHal"},
         ops[1].op = "lockWire" => Idle(t),
         ops[1].op = "unlockHal" => NextTo(agenda[t], ops, 1).op # "assign",
         ops[1].op = "lockHal" => NextTo(agenda[t], ops, 1).op # "unlockHal"
  PROVE  Kept
<1>1. Moves(t, ops) /\ Types
  BY DEF Moves, Inv
<1>2. ChangesNothing(ops) /\ ops[1].op # "assign" /\ pins' = pins
  BY DEF AllGood, Good, ChangesNothing, Undisturbed
<1>3. Succeeds(agenda'[t], local'[t].result, pins')
  BY <1>1, <1>2, NewFirstSucceeds
<1>4. After(agenda[t], 1).op # "assign"
  <2>1. CASE Idle(t)
    <3>1. ~(1 < Len(agenda[t]))
      BY <1>1, <2>1, MovesWhere
    <3> QED BY <3>1 DEF After, Nothing, For, Op
  <2>2. CASE ~Idle(t)
    <3>1. Precedes(Now(t), After(agenda[t], 1))
      <4>1. Does(t, Now(t).op)
        BY <2>2 DEF Does
      <4> QED BY <4>1, AtHand
    <3> QED BY <2>2, <3>1 DEF Precedes, Watched
  <2> QED BY <2>1, <2>2
<1> QED BY <1>1, <1>2, <1>3, <1>4, PlainerStep

LEMMA Undisturbing ==
  ASSUME Inv, NEW t \in Tasks, NEW v, Result(t, v) \/ UNCHANGED local
  PROVE  /\ UNCHANGED <<pins, initialized, bus>> => Undisturbed(t)
         /\ OnlyTheAgenda => UNCHANGED <<pins, initialized, bus>>
         /\ \A u \in Tasks : local'[u].want = local[u].want
         /\ \A u \in Tasks \ {t} : local'[u] = local[u]
         /\ Result(t, v) => local'[t].result = v
<1>1. local \in [Tasks -> Call]
  BY DEF Inv, Types
<1>2. /\ \A u \in Tasks : local'[u].want = local[u].want
      /\ \A u \in Tasks \ {t} : local'[u] = local[u]
      /\ Result(t, v) => local'[t].result = v
  BY <1>1 DEF Result, Call
<1> QED BY <1>2 DEF Undisturbed, OnlyTheAgenda, unchangedPeriMan, unchangedHal, halVars

(* One operation takes another's place before something in no special order.*)
LEMMA OneKeeps ==
  ASSUME Inv, Keeping, Noted, NEW t \in Tasks, NEW a \in Operation, Undisturbed(t), ~Idle(t),
         Becomes(t, <<a>>), After(agenda[t], 1).op \notin Ordered,
         a.op \notin Meaning \cup {"lockWire", "lockHal"},
         Now(t).op \notin Watched \cup {"unlockHal"}
  PROVE  Kept
<1> DEFINE ops == <<a>>
<1>1. Good(t, a, After(agenda[t], 1))
  BY AnyGood
<1>2. /\ AllGood(t, ops) /\ Len(ops) = 1 /\ ops[1] = a /\ ops \in Seq(Operation)
      /\ NextTo(agenda[t], ops, 1) = After(agenda[t], 1) /\ Becomes(t, ops)
  BY <1>1, OneGood
<1> HIDE DEF ops
<1>3. /\ a.op \notin {"setScl", "registered", "assign", "lockWire", "lockHal"}
      /\ After(agenda[t], 1).op # "assign"
  BY DEF Ordered, Meaning, PinOps
<1> QED BY <1>2, <1>3, BecomesKeeps

(* The operation after one of i2cInit()'s is the end of begin().            *)
LEMMA ThenBegun ==
  ASSUME NEW o, NEW n, Follows(o, n), o.op \in InitOps
  PROVE  n.op \notin Ordered /\ n = For("begun", o.b)
BY DEF Follows, For, Op, Ordered

LEMMA InitFailsKeeps ==
  ASSUME Inv, Keeping, Noted, NEW t \in Tasks, NEW what \in {"init", "clearScl", "install"},
         Does(t, what), InitFails(t), UNCHANGED <<pins, initialized, bus>>
  PROVE  Kept
<1> DEFINE a == For("unlockHal", Now(t).b)
<1>1. /\ ~Idle(t) /\ Now(t).op = what /\ Follows(Now(t), After(agenda[t], 1)) /\ Now(t).b \in Ports
  BY AtHand DEF PinOps
<1>2. After(agenda[t], 1).op \notin Ordered
  BY <1>1, ThenBegun DEF InitOps
<1>3. a \in Operation /\ a.op = "unlockHal"
  BY <1>1, ForIsOperation DEF OpNames, HalOps
<1>4. Becomes(t, <<a>>) /\ Result(t, FALSE)
  BY DEF InitFails
<1>5. Undisturbed(t)
  BY <1>4, Undisturbing
<1> HIDE DEF a
<1>6. /\ a.op \notin Meaning \cup {"lockWire", "lockHal"}
      /\ Now(t).op \notin Watched \cup {"unlockHal"}
  BY <1>1, <1>3 DEF Meaning, PinOps, Stops, Watched
<1> QED BY <1>1, <1>2, <1>3, <1>4, <1>5, <1>6, OneKeeps

(* i2cInit() releases its two pins first.                                   *)
LEMMA ClearingKeeps ==
  ASSUME Inv, Keeping, Noted, NEW t \in Tasks, NEW what \in {"init", "clearScl"}, Does(t, what),
         NEW next \in {"clearScl", "install"}, NEW p \in Pins,
         Becomes(t, <<ClearPin(p), For(next, Now(t).b)>>),
         Now(t).b \notin initialized, local' = local, UNCHANGED <<pins, initialized, bus>>
  PROVE  Kept
<1> DEFINE b == Now(t).b
           a == ClearPin(p)
           c == For(next, b)
           ops == <<a, c>>
<1>1. /\ ~Idle(t) /\ Now(t).op = what /\ Follows(Now(t), After(agenda[t], 1)) /\ b \in Ports
      /\ Means(Now(t), local[t].want, initialized, bus)
  BY AtHand DEF PinOps
<1>2. After(agenda[t], 1).op \notin Ordered
  BY <1>1, ThenBegun DEF InitOps
<1>3. local[t].want \in Wants[b]
  BY <1>1 DEF Means
<1>4. /\ a \in Operation /\ a.op = "setBus" /\ a.b = NULL /\ a.pin = p
      /\ c \in Operation /\ c.op = next /\ c.b = b
  <2>1. c \in Operation /\ c.op = next /\ c.b = b
    BY <1>1, ForIsOperation DEF OpNames, HalOps
  <2>2. a \in Operation /\ a.op = "setBus" /\ a.b = NULL /\ a.pin = p
    BY DEF ClearPin, Op, Operation, OpNames, PinOps, BusTypes
  <2> QED BY <2>1, <2>2
<1> HIDE DEF a, c
<1>5. Good(t, a, c)
  <2>1. ~Registering(a)
    BY <1>4, I2cAssumption, NullAssumption DEF Registering
  <2> QED BY <1>4, <2>1 DEF Good, Precedes, Means
<1>6. Good(t, c, After(agenda[t], 1))
  BY <1>2, <1>3, <1>4, b \notin initialized DEF Good, Precedes, Means, Registering, Ordered, PinOps
<1>7. /\ AllGood(t, ops) /\ Len(ops) = 2 /\ ops[1] = a /\ ops[2] = c /\ ops \in Seq(Operation)
  BY <1>4, <1>5, <1>6, TwoGood
<1>8. Becomes(t, ops)
  BY DEF a, c
<1> HIDE DEF ops
<1>9. Now(t).op \notin Watched \cup {"unlockHal"}
  BY <1>1 DEF Stops, Watched
<1>10. Undisturbed(t)
  BY DEF Undisturbed
<1> QED BY <1>1, <1>4, <1>7, <1>8, <1>9, <1>10, BecomesKeeps

LEMMA InitStartKeeps ==
  ASSUME Inv, Keeping, Noted, NEW t \in Tasks, InitStart(t)
  PROVE  Kept
<1>1. Does(t, "init") /\ UNCHANGED <<pins, initialized, bus>>
  BY DEF InitStart, unchangedHal, halVars
<1>2. Now(t).op = "init" /\ Now(t).b \in Ports /\ Means(Now(t), local[t].want, initialized, bus)
  BY <1>1, AtHand DEF PinOps
<1>3. local[t].want.sda \in Pins
  BY <1>2, WantedPins DEF Means
<1>4. CASE InitFails(t)
  BY <1>1, <1>4, InitFailsKeeps
<1>5. CASE ~InitFails(t)
  BY <1>1, <1>3, <1>5, ClearingKeeps DEF InitStart
<1> QED BY <1>4, <1>5

LEMMA ClearSclKeeps ==
  ASSUME Inv, Keeping, Noted, NEW t \in Tasks, ClearScl(t)
  PROVE  Kept
<1>1. Does(t, "clearScl") /\ UNCHANGED <<pins, initialized, bus>>
  BY DEF ClearScl, OnlyTheAgenda, unchangedPeriMan, unchangedHal, halVars
<1>2. /\ Now(t).op = "clearScl" /\ Now(t).b \in Ports
      /\ Means(Now(t), local[t].want, initialized, bus)
  BY <1>1, AtHand DEF PinOps
<1>3. local[t].want.scl \in Pins /\ Now(t).b \notin initialized
  BY <1>2, WantedPins DEF Means
<1>4. CASE InitFails(t)
  BY <1>1, <1>4, InitFailsKeeps
<1>5. CASE ~InitFails(t)
  BY <1>1, <1>3, <1>5, ClearingKeeps DEF ClearScl
<1> QED BY <1>4, <1>5

LEMMA NotInstalledKeeps ==
  ASSUME Inv, Keeping, Noted, NEW t \in Tasks, NotInstalled(t)
  PROVE  Kept
BY InitFailsKeeps DEF NotInstalled, OnlyTheAgenda, unchangedPeriMan, unchangedHal, halVars

(* What PlainStep asks of what was given up and of an assignment that is    *)
(* next.                                                                    *)
LEMMA GivenUpStays ==
  ASSUME Inv, Noted, NEW t \in Tasks, NEW ops, Moves(t, ops), Undisturbed(t),
         NEW b \in initialized,
         ~Idle(t) /\ Now(t).b = b =>
           Now(t).op # "fail" /\ (Now(t).op \in {"setScl", "registered"} => local[t].result)
  PROVE  GivenUp(b) => GivenUp(b)'
<1>1. Types /\ b \in initialized' /\ \A u \in Tasks \ {t} : local'[u] = local[u]
  BY DEF Inv, Undisturbed
<1> QED BY <1>1, MovesKeepGivenUp

LEMMA AskedByLast ==
  ASSUME Types, NEW t \in Tasks, NEW ops, Moves(t, ops), Len(ops) > 0, NEW started, NEW result,
         NEW owner, ops[Len(ops)].op \in Stops, ops[Len(ops)].b = owner
  PROVE  AskedFor(agenda'[t], Len(ops) + 1, owner, started, result)
<1>1. Len(ops) \in 1 .. Len(ops) /\ Len(ops) + 1 > 1 /\ (Len(ops) + 1) - 1 = Len(ops)
  BY MovesWhere
<1>2. agenda'[t][Len(ops)] = ops[Len(ops)]
  BY <1>1, MovesWhere
<1> QED BY <1>1, <1>2 DEF AskedFor

(* A start whose pin was not given up is undone.                            *)
LEMMA UndoKeeps ==
  ASSUME Inv, Keeping, Noted, NEW t \in Tasks, NEW what \in {"setScl", "registered"},
         Does(t, what), NEW b, Now(t).b = b,
         Becomes(t, Undo(b)), UNCHANGED local, OnlyTheAgenda
  PROVE  Kept
<1> DEFINE a == For("unlockHal", b)
           c == For("detach", b)
           d == For("fail", b)
           ops == <<a, c, d>>
           n == After(agenda[t], 1)
<1>1. /\ ~Idle(t) /\ Now(t).op = what /\ Follows(Now(t), n) /\ b \in Ports
  BY AtHand DEF PinOps
<1>2. n.op \notin Ordered /\ n.op # "assign"
  BY <1>1, ThenBegun DEF InitOps, Ordered
<1>3. /\ a \in Operation /\ a.op = "unlockHal" /\ c \in Operation /\ c.op = "detach"
      /\ d \in Operation /\ d.op = "fail" /\ d.b = b
  <2>1. {"unlockHal", "detach", "fail"} \subseteq OpNames /\ b \in Ports
    BY <1>1 DEF OpNames, HalOps, InitOps
  <2> QED BY <2>1, ForIsOperation
<1>4. Becomes(t, ops) /\ ops \in Seq(Operation)
  BY <1>3 DEF Undo
<1> HIDE DEF a, c, d
<1>5. Good(t, a, c) /\ Good(t, c, d) /\ Good(t, d, n)
  BY <1>2, <1>3 DEF Good, Precedes, Means, Registering, Ordered, PinOps, Stops
<1>6. /\ AllGood(t, ops) /\ Len(ops) = 3 /\ ops[1] = a /\ ops[3] = d
      /\ NextTo(agenda[t], ops, 1) = c
  BY <1>5, ThreeGood
<1> HIDE DEF ops
<1>7. Undisturbed(t) /\ pins' = pins
  BY Undisturbing
<1>8. Moves(t, ops) /\ Types
  BY <1>1, <1>4 DEF Moves, Inv
<1>9. Succeeds(agenda'[t], local'[t].result, pins')
  BY <1>3, <1>6, <1>8, NewFirstSucceeds
<1>10. GivenUp(b)'
  <2>1. 3 \in 1 .. Len(agenda'[t]) /\ agenda'[t][3] = d
    <3>1. 3 \in 1 .. Len(ops)
      BY <1>6
    <3>2. 3 \in 1 .. Len(agenda'[t]) /\ agenda'[t][3] = ops[3]
      BY <1>8, <3>1, MovesWhere
    <3> QED BY <1>6, <3>2
  <2>2. Undoes(t, b)'
    BY <1>3, <2>1 DEF Undoes
  <2> QED BY <2>2 DEF GivenUp
<1>11. \A x \in initialized : GivenUp(x) => GivenUp(x)'
  BY <1>1, <1>7, <1>8, <1>10, GivenUpStays
<1>12. /\ \A p : ~Clears(Now(t), p)
       /\ \A x, r : WillClaim(Now(t), x, r) => x = b
       /\ Now(t).op # "forget"
  BY <1>1 DEF Clears, WillClaim
<1> QED BY <1>2, <1>6, <1>7, <1>8, <1>9, <1>10, <1>11, <1>12, PlainStep

(* Both pins are registered: i2cInit() is done.                             *)
LEMMA RegisteredKeeps ==
  ASSUME Inv, Keeping, Noted, NEW t \in Tasks, Registered(t)
  PROVE  Kept
<1> DEFINE b == Now(t).b
           a == For("unlockHal", b)
           ops == <<a>>
           n == After(agenda[t], 1)
<1>1. Does(t, "registered") /\ UNCHANGED local /\ OnlyTheAgenda
  BY DEF Registered
<1>2. /\ ~Idle(t) /\ Now(t).op = "registered" /\ Follows(Now(t), n) /\ Now(t).b \in Ports
  BY <1>1, AtHand DEF PinOps
<1>3. CASE ~local[t].result
  <2>1. Becomes(t, Undo(Now(t).b))
    BY <1>3 DEF Registered
  <2>2. PICK d : d = Now(t).b
    OBVIOUS
  <2> QED BY <1>1, <2>1, <2>2, UndoKeeps
<1>4. CASE local[t].result
  <2>1. n.op \notin Ordered /\ n.op # "assign"
    BY <1>2, ThenBegun DEF InitOps, Ordered
  <2>2. a \in Operation /\ a.op = "unlockHal"
    BY <1>2, ForIsOperation DEF OpNames, HalOps
  <2>3. Becomes(t, ops) /\ ops \in Seq(Operation)
    BY <1>4, <2>2 DEF Registered
  <2>4. Undisturbed(t)
    BY <1>1, Undisturbing
  <2> HIDE DEF a
  <2>5. Good(t, a, n)
    BY <2>1, <2>2 DEF Good, Precedes, Means, Registering, Ordered, PinOps
  <2>6. AllGood(t, ops) /\ Len(ops) = 1 /\ ops[1] = a /\ NextTo(agenda[t], ops, 1) = n
    BY <2>5, OneGood
  <2> HIDE DEF ops
  <2>7. Moves(t, ops) /\ Types
    BY <1>2, <2>3 DEF Moves, Inv
  <2>8. Succeeds(agenda'[t], local'[t].result, pins')
    BY <2>1, <2>2, <2>6, <2>7, NewFirstSucceeds
  <2>9. \A x \in initialized : GivenUp(x) => GivenUp(x)'
    BY <1>2, <1>4, <2>4, <2>7, GivenUpStays
  <2>10. /\ \A p : ~Clears(Now(t), p)
         /\ \A x, r : ~WillClaim(Now(t), x, r)
         /\ Now(t).op # "forget" /\ pins' = pins
    BY <1>2, <2>4 DEF Clears, WillClaim, Registering, Undisturbed
  <2> QED BY <2>1, <2>4, <2>6, <2>7, <2>8, <2>9, <2>10, PlainStep
<1> QED BY <1>3, <1>4

LEMMA FailLeavesHalf ==
  ASSUME Inv, NEW t \in Tasks, Does(t, "fail"), Now(t).b \in initialized
  PROVE  Now(t).b \in halfStarted
<1> DEFINE b == Now(t).b
           q == agenda[t]
<1>1. /\ ~Idle(t) /\ Now(t) = q[1] /\ Now(t).op = "fail" /\ Now(t) \in Operation
      /\ Len(q) \in Nat \ {0} /\ Follows(Now(t), After(q, 1))
  BY NowIsOperation
<1>2. After(q, 1) = For("begun", b) /\ b \in Ports
  BY <1>1, ThenBegun DEF InitOps, Operation, PinOps
<1>3. Len(q) = 2 /\ q[2] = For("begun", b)
  <2>1. 1 < Len(q) /\ q[2] = For("begun", b)
    BY <1>1, <1>2 DEF After, Nothing, For, Op
  <2>2. 2 \in 1 .. Len(q) /\ q[2].op = "begun"
    BY <1>1, <2>1 DEF For, Op
  <2>3. After(q, 2) = Nothing
    BY <2>2 DEF Inv, Shape, InOrder, Follows, LastOps
  <2>4. ~(2 < Len(q))
    <3> SUFFICES ASSUME 2 < Len(q) PROVE FALSE
      OBVIOUS
    <3>1. q[3] = Nothing /\ 3 \in 1 .. Len(q)
      BY <1>1, <2>3 DEF After
    <3>2. q \in Seq(Operation)
      BY DEF Inv, Types
    <3>3. Nothing \in Operation
      BY <3>1, <3>2
    <3> QED BY <3>3 DEF Operation, Nothing, For, Op, OpNames, PinOps, InitOps, HalOps, WireOps, Quitting
  <2>5. \A m \in Nat : 1 < m /\ ~(2 < m) => m = 2
    OBVIOUS
  <2> QED BY <1>1, <2>1, <2>4, <2>5
<1>4. \A i \in 1 .. Len(q) : i = 1 \/ i = 2
  BY <1>3
<1>5. For("begun", b).op = "begun" /\ For("begun", b).b = b
  BY DEF For, Op
<1>6. Has(t, {"begun"}, b)
  <2>1. 2 \in 1 .. Len(q)
    BY <1>3
  <2> QED BY <1>3, <1>5, <2>1 DEF Has, HasIn
<1>7. ~Started(t) /\ ~Has(t, {"setScl", "registered"}, b) /\ ~Has(t, Stops, b)
  <2>1. 1 \in 1 .. Len(q)
    BY <1>3
  <2>2. ~Started(t)
    BY <1>1, <2>1 DEF Started
  <2>3. ~Has(t, {"setScl", "registered"} \cup Stops, b)
    BY <1>1, <1>3, <1>4, <1>5 DEF Has, HasIn, Stops
  <2> QED BY <2>2, <2>3 DEF Has, HasIn
<1> QED BY <1>2, <1>6, <1>7 DEF Inv, Buffers, Undoing

(* begin() gives up: its port is stopped by now, or stays half started.     *)
LEMMA FailKeeps ==
  ASSUME Inv, Keeping, Noted, NEW t \in Tasks, Fail(t)
  PROVE  Kept
<1>0. PICK b : b = Now(t).b
  OBVIOUS
<1> DEFINE ops == <<>>
           n == After(agenda[t], 1)
<1>1. Does(t, "fail") /\ Done(t) /\ Result(t, FALSE) /\ OnlyTheAgenda
  BY DEF Fail
<1>2. /\ ~Idle(t) /\ Now(t).op = "fail" /\ Follows(Now(t), n) /\ b \in Ports
      /\ Now(t) = agenda[t][1] /\ Len(agenda[t]) \in Nat \ {0}
  BY <1>0, <1>1, AtHand DEF PinOps
<1>3. n.op \notin Ordered /\ n.op # "assign" /\ n = For("begun", b)
  BY <1>0, <1>2, ThenBegun DEF InitOps, Ordered
<1>4. Moves(t, ops) /\ Types /\ Len(ops) = 0
  BY <1>1, <1>2 DEF Moves, Done, Inv
<1>5. Undisturbed(t) /\ pins' = pins
  BY <1>1, Undisturbing
<1>6. Succeeds(agenda'[t], local'[t].result, pins')
  BY <1>2, <1>3, <1>4, OldFirstSucceeds DEF Keeping
<1>7. b \in initialized => b \in halfStarted
  BY <1>0, <1>1, FailLeavesHalf
<1>8. \A x \in initialized : GivenUp(x) => GivenUp(x)'
  <2>1. ASSUME b \in initialized PROVE GivenUp(b)'
    BY <1>5, <1>7, <2>1 DEF Noted, GivenUp, Undisturbed
  <2> QED BY <1>0, <1>4, <1>5, <2>1, GivenUpStays
<1>9. /\ \A p : ~Clears(Now(t), p)
      /\ \A x, r : ~WillClaim(Now(t), x, r)
  BY <1>2 DEF Clears, WillClaim, Registering
<1>10. AllGood(t, ops)
  BY NoneGood
<1> HIDE DEF ops
<1> QED BY <1>2, <1>3, <1>4, <1>5, <1>6, <1>8, <1>9, <1>10, PlainStep

(* A transfer is followed by nothing that depends on what came before it.   *)
LEMMA ThenUnordered ==
  ASSUME NEW o, NEW n, Precedes(o, n),
         o.op \notin Stops \cup {"forget", "unlockHal", "setBus", "assign", "lockHal", "lockWire"}
  PROVE  n.op \notin Ordered
BY DEF Precedes, Ordered

LEMMA TransferKeeps ==
  ASSUME Inv, Keeping, Noted, NEW t \in Tasks, StartTransfer(t) \/ EndTransfer(t)
  PROVE  Kept
<1>1. PICK what \in {"transfer", "onTheBus"} : Does(t, what)
  BY DEF StartTransfer, EndTransfer
<1>2. /\ ~Idle(t) /\ Now(t).op = what /\ Precedes(Now(t), After(agenda[t], 1)) /\ Now(t).b \in Ports
  BY <1>1, AtHand DEF PinOps
<1>3. After(agenda[t], 1).op \notin Ordered
  BY <1>2, ThenUnordered DEF Stops
<1>4. PICK next \in {"onTheBus", "unlockHal"} : Becomes(t, <<For(next, Now(t).b)>>)
  BY DEF StartTransfer, EndTransfer
<1> DEFINE a == For(next, Now(t).b)
<1>5. a \in Operation /\ a.op = next
  BY <1>2, ForIsOperation DEF OpNames, HalOps
<1>6. Undisturbed(t)
  <2>1. (\E v : Result(t, v)) \/ UNCHANGED local
    BY DEF StartTransfer, EndTransfer
  <2> QED BY <2>1, Undisturbing DEF StartTransfer, EndTransfer
<1>7. Becomes(t, <<a>>)
  BY <1>4
<1> HIDE DEF a
<1>8. /\ a.op \notin Meaning \cup {"lockWire", "lockHal"}
      /\ Now(t).op \notin Watched \cup {"unlockHal"}
  BY <1>2, <1>5 DEF Meaning, PinOps, Stops, Watched
<1> QED BY <1>2, <1>3, <1>5, <1>6, <1>7, <1>8, OneKeeps

LEMMA SetPinIs ==
  ASSUME NEW p \in Pins, NEW r \in BusTypes, NEW b \in Buses
  PROVE  /\ SetPin(p, r, b) \in Operation /\ SetPin(p, r, b).op = "setBus"
         /\ SetPin(p, r, b).b = b /\ SetPin(p, r, b).pin = p /\ SetPin(p, r, b).role = r
BY DEF SetPin, Op, Operation, OpNames, PinOps

LEMMA ClearPinIs ==
  ASSUME NEW p \in Pins
  PROVE  /\ ClearPin(p) \in Operation /\ ClearPin(p).op = "setBus" /\ ClearPin(p).b = NULL
         /\ ClearPin(p).pin = p /\ ~Registering(ClearPin(p)) /\ Clears(ClearPin(p), p)
BY I2cAssumption, NullAssumption
   DEF ClearPin, Op, Operation, OpNames, PinOps, BusTypes, Registering, Clears

(* The first pin is registered: the second one's turn.                      *)
LEMMA SetSclKeeps ==
  ASSUME Inv, Keeping, Noted, NEW t \in Tasks, SetScl(t)
  PROVE  Kept
<1>0. PICK b : b = Now(t).b
  OBVIOUS
<1> DEFINE a == SetPin(local[t].want.scl, "SCL", b)
           c == For("registered", b)
           ops == <<a, c>>
<1>1. Does(t, "setScl") /\ UNCHANGED local /\ OnlyTheAgenda
  BY DEF SetScl
<1>2. /\ ~Idle(t) /\ Now(t).op = "setScl" /\ Follows(Now(t), After(agenda[t], 1)) /\ b \in Ports
      /\ Means(Now(t), local[t].want, initialized, bus)
  BY <1>0, <1>1, AtHand DEF PinOps
<1> SUFFICES ASSUME local[t].result PROVE Kept
  <2>1. ~local[t].result => Becomes(t, Undo(b))
    BY <1>0 DEF SetScl
  <2> QED BY <1>0, <1>1, <2>1, UndoKeeps
<1>3. After(agenda[t], 1).op \notin Ordered /\ After(agenda[t], 1).op # "assign"
  BY <1>2, ThenBegun DEF InitOps, Ordered
<1>4. b \in initialized /\ bus[b] = local[t].want
  BY <1>0, <1>2 DEF Means
<1>5. bus[b].scl \in Pins
  BY <1>2, <1>4, WantedPins DEF Keeping, Claimed
<1>6. Becomes(t, ops)
  BY <1>0 DEF SetScl
<1>7. /\ a \in Operation /\ a.op = "setBus" /\ a.b = b /\ a.pin = PinFor(bus[b], "SCL") /\ a.role = "SCL"
      /\ a.pin \in Pins /\ c \in Operation /\ c.op = "registered" /\ c.b = b /\ c = For("registered", b)
  <2>1. c \in Operation /\ c.op = "registered" /\ c.b = b
    <3>1. "registered" \in OpNames
      BY DEF OpNames, HalOps
    <3>2. b \in Ports
      BY <1>2
    <3> QED BY <3>1, <3>2, ForIsOperation
  <2>2. a \in Operation /\ a.op = "setBus" /\ a.b = b /\ a.pin = PinFor(bus[b], "SCL") /\ a.role = "SCL"
    <3>1. b \in Buses /\ "SCL" \in BusTypes
      BY <1>2, I2cAssumption DEF BusTypes, OwnedTypes
    <3> QED BY <1>4, <1>5, <3>1, SetPinIs DEF PinFor
  <2> QED BY <1>4, <1>5, <2>1, <2>2 DEF PinFor
<1> HIDE DEF a, c
<1>8. Good(t, a, c)
  BY <1>4, <1>7 DEF Good, Precedes, Means, Registering
<1>9. Good(t, c, After(agenda[t], 1))
  BY <1>3, <1>4, <1>7 DEF Good, Precedes, Means, Registering, Ordered, PinOps
<1>10. /\ AllGood(t, ops) /\ Len(ops) = 2 /\ ops[1] = a /\ ops[2] = c /\ ops \in Seq(Operation)
  BY <1>7, <1>8, <1>9, TwoGood
<1> HIDE DEF ops
<1>11. Undisturbed(t)
  BY <1>1, Undisturbing
<1>12. Moves(t, ops) /\ Types
  BY <1>2, <1>6, <1>10 DEF Moves, Inv
<1>17. \A x \in initialized : GivenUp(x) => GivenUp(x)'
  BY <1>2, <1>11, <1>12, GivenUpStays
<1>13. Succeeds(agenda'[t], local'[t].result, pins')
  BY <1>7, <1>10, <1>12, NewFirstSucceeds
<1>14. \A r \in {"SDA", "SCL"} : \A d : WillClaim(Now(t), d, r) =>
         \E i \in 1 .. Len(ops) : WillClaim(ops[i], d, r)
  <2>1. \A r \in {"SDA", "SCL"} : \A d : WillClaim(Now(t), d, r) => d = b /\ r = "SCL"
    BY <1>0, <1>2 DEF WillClaim, Registering
  <2>2. 1 \in 1 .. Len(ops) /\ WillClaim(ops[1], b, "SCL")
    BY <1>2, <1>7, <1>10 DEF WillClaim, Registering
  <2> QED BY <2>1, <2>2
<1>15. \A p : ~Clears(Now(t), p)
  BY <1>2 DEF Clears
<1>16. Now(t).op # "forget" /\ pins' = pins
  BY <1>2, <1>11 DEF Undisturbed
<1> QED BY <1>3, <1>10, <1>11, <1>12, <1>13, <1>14, <1>15, <1>16, <1>17, PlainStep

LEMMA AskedNext ==
  ASSUME Inv, Keeping, NEW t \in Tasks, ~Idle(t), After(agenda[t], 1).op = "assign"
  PROVE  /\ After(agenda[t], 1).pin \in Pins /\ Now(t) = agenda[t][1]
         /\ AskedFor(agenda[t], 2, pins[After(agenda[t], 1).pin].bus, initialized, local[t].result)
<1>1. Len(agenda[t]) \in Nat
  BY DEF Inv, Types
<1>2. Nothing.op # "assign"
  BY DEF Nothing, For, Op
<1>3. 1 < Len(agenda[t]) /\ After(agenda[t], 1) = agenda[t][2]
  BY <1>2 DEF After
<1>4. 2 \in 1 .. Len(agenda[t])
  BY <1>1, <1>3
<1>5. Means(agenda[t][2], local[t].want, initialized, bus)
  BY <1>4 DEF Keeping, Intended
<1> QED BY <1>3, <1>4, <1>5 DEF Keeping, Asked, Means, PinOps, Now

(* A port is stopped for the pin that is assigned next.                     *)
LEMMA OwnerIsStopped ==
  ASSUME Inv, Keeping, NEW t \in Tasks, NEW what \in {"detach", "deinit"}, Does(t, what),
         After(agenda[t], 1).op = "assign"
  PROVE  /\ After(agenda[t], 1).pin \in Pins
         /\ pins[After(agenda[t], 1).pin].bus = Now(t).b
<1>1. Now(t) = agenda[t][1] /\ Now(t).op = what /\ ~Idle(t) /\ (2 > 1 /\ 2 - 1 = 1)
  BY AtHand
<1> QED BY <1>1, AskedNext DEF AskedFor

(* What may follow a callback may follow what the callback is made of.      *)
LEMMA StoppingPrecedes ==
  ASSUME NEW o, NEW c, NEW n, Precedes(o, n), o.op \in Stops,
         c.op \in Stops \cup {"forget", "unlockHal"}
  PROVE  Precedes(c, n)
BY DEF Precedes, Stops, Registering

LEMMA DeinitGood ==
  ASSUME NEW t, NEW b \in Ports, NEW n, Precedes(For("deinit", b), n)
  PROVE  /\ Good(t, For("lockHal", b), For("deinit", b)) /\ Good(t, For("deinit", b), n)
         /\ Deinit(b) = <<For("lockHal", b), For("deinit", b)>>
         /\ Deinit(b) \in Seq(Operation)
         /\ For("lockHal", b).op = "lockHal" /\ For("deinit", b).op = "deinit"
         /\ For("deinit", b).b = b
<1> DEFINE a == For("lockHal", b)
           c == For("deinit", b)
<1>1. a \in Operation /\ a.op = "lockHal" /\ c \in Operation /\ c.op = "deinit" /\ c.b = b
  BY ForIsOperation DEF OpNames, HalOps
<1>2. Deinit(b) = <<a, c>>
  BY DEF Deinit
<1> HIDE DEF a, c
<1>3. Good(t, a, c)
  BY <1>1 DEF Good, Precedes, Means, Registering, PinOps
<1>4. Precedes(c, n)
  BY DEF c
<1>5. Good(t, c, n)
  BY <1>1, <1>4 DEF Good, Means, Registering, PinOps
<1> QED BY <1>1, <1>2, <1>3, <1>5 DEF a, c

LEMMA DropStep ==
  ASSUME Inv, Keeping, Noted, NEW t \in Tasks, ~Idle(t), Done(t), Undisturbed(t),
         Now(t).op \notin {"lockHal", "lockWire", "forget", "fail", "setScl", "registered"},
         \A p \in Pins : Clears(Now(t), p) /\ Has(t, {"forget"}, pins[p].bus) =>
           pins[p].bus \notin Ports,
         \A b \in initialized : \A r \in {"SDA", "SCL"} :
           WillClaim(Now(t), b, r) => Registers(b, PinFor(bus[b], r), r) \/ GivenUp(b)',
         After(agenda[t], 1).op = "assign" =>
           local'[t].result /\ pins[After(agenda[t], 1).pin].bus \notin initialized
  PROVE  Kept
<1>1. Moves(t, <<>>) /\ Len(<<>>) = 0 /\ pins' = pins
  BY DEF Moves, Done, Undisturbed
<1>2. Succeeds(agenda'[t], local'[t].result, pins')
  BY <1>1, OldFirstSucceeds DEF Keeping
<1> DEFINE ops == <<>>
<1>3. Moves(t, ops) /\ AllGood(t, ops) /\ Len(ops) = 0
  BY <1>1, NoneGood
<1> HIDE DEF ops
<1>4. After(agenda[t], 1).op = "assign" =>
        AskedFor(agenda'[t], Len(ops) + 1, pins[After(agenda[t], 1).pin].bus, initialized,
                 local'[t].result)
  BY <1>3 DEF AskedFor
<1>5. \A b \in initialized : GivenUp(b) => GivenUp(b)'
  BY <1>3, GivenUpStays
<1> QED BY <1>1, <1>2, <1>3, <1>4, <1>5, PlainStep

LEMMA DetachBusKeeps ==
  ASSUME Inv, Keeping, Noted, NEW t \in Tasks, DetachBus(t)
  PROVE  Kept
<1> DEFINE b == Now(t).b
           n == After(agenda[t], 1)
<1>1. Does(t, "detach") /\ OnlyTheAgenda
  BY DEF DetachBus
<1>2. /\ ~Idle(t) /\ Now(t).op = "detach" /\ b \in Ports /\ Precedes(Now(t), n)
  BY <1>1, AtHand DEF PinOps
<1>3. Types /\ (\A p : ~Clears(Now(t), p)) /\ (\A d, r : ~WillClaim(Now(t), d, r))
  BY <1>2 DEF Inv, Clears, WillClaim, Registering
<1>4. CASE b \in initialized
  <2> DEFINE a == For("lockHal", b)
             c == For("deinit", b)
             ops == <<a, c>>
  <2>1. UNCHANGED local /\ Becomes(t, Deinit(b))
    BY <1>4 DEF DetachBus
  <2>2. For("deinit", b).op = "deinit"
    BY DEF For, Op
  <2>3. Precedes(For("deinit", b), n)
    BY <1>2, <2>2, StoppingPrecedes DEF Stops
  <2>4. /\ Good(t, a, c) /\ Good(t, c, n) /\ a.op = "lockHal" /\ c.op = "deinit" /\ c.b = b
        /\ ops \in Seq(Operation) /\ Becomes(t, ops)
    BY <1>2, <2>1, <2>3, DeinitGood
  <2> HIDE DEF a, c
  <2>5. /\ AllGood(t, ops) /\ Len(ops) = 2 /\ ops[1] = a /\ ops[2] = c /\ NextTo(agenda[t], ops, 1) = c
    BY <2>4, TwoGood
  <2> HIDE DEF ops
  <2>6. Undisturbed(t)
    BY <1>1, <2>1, Undisturbing
  <2>7. Moves(t, ops)
    BY <1>2, <2>4 DEF Moves
  <2>8. Succeeds(agenda'[t], local'[t].result, pins')
    BY <1>3, <2>4, <2>5, <2>7, NewFirstSucceeds
  <2>9. n.op = "assign" =>
          AskedFor(agenda'[t], Len(ops) + 1, pins[n.pin].bus, initialized, local'[t].result)
    <3>1. n.op = "assign" => pins[n.pin].bus = ops[Len(ops)].b
      BY <1>1, <2>4, <2>5, OwnerIsStopped
    <3>2. ops[Len(ops)].op \in Stops /\ Len(ops) > 0
      BY <2>4, <2>5 DEF Stops
    <3>3. AskedFor(agenda'[t], Len(ops) + 1, ops[Len(ops)].b, initialized, local'[t].result)
      BY <1>3, <2>7, <3>2, AskedByLast
    <3> QED BY <3>1, <3>3
  <2>10. \A x \in initialized : GivenUp(x) => GivenUp(x)'
    BY <1>2, <2>6, <2>7, GivenUpStays
  <2>11. Now(t).op # "forget" /\ pins' = pins
    BY <1>2, <2>6 DEF Undisturbed
  <2> QED BY <1>3, <2>5, <2>6, <2>7, <2>8, <2>9, <2>10, <2>11, PlainStep
<1>5. CASE b \notin initialized
  <2>1. Result(t, TRUE) /\ Done(t)
    BY <1>5 DEF DetachBus
  <2>2. Undisturbed(t) /\ local'[t].result
    BY <1>1, <2>1, Undisturbing
  <2>3. n.op = "assign" => pins[n.pin].bus \notin initialized
    BY <1>1, <1>5, OwnerIsStopped
  <2> QED BY <1>2, <1>3, <2>1, <2>2, <2>3, DropStep
<1> QED BY <1>4, <1>5

LEMMA DeleteDriverKeeps ==
  ASSUME Inv, Keeping, Noted, NEW t \in Tasks, DeleteDriver(t)
  PROVE  Kept
<1> DEFINE b == Now(t).b
           n == After(agenda[t], 1)
<1>1. Does(t, "deinit") /\ UNCHANGED <<pins, initialized, bus>>
  BY DEF DeleteDriver, unchangedPeriMan
<1>2. /\ ~Idle(t) /\ Now(t).op = "deinit" /\ b \in Ports /\ Precedes(Now(t), n)
  BY <1>1, AtHand DEF PinOps
<1>3. Types /\ (\A p : ~Clears(Now(t), p)) /\ (\A d, r : ~WillClaim(Now(t), d, r))
  BY <1>2 DEF Inv, Clears, WillClaim, Registering
<1>4. PICK next \in {"uninitialize", "unlockHal"} :
        /\ Becomes(t, <<For(next, b)>>)
        /\ next = "uninitialize" => b \in initialized /\ UNCHANGED local
        /\ next = "unlockHal" => b \notin initialized /\ Result(t, FALSE)
  BY DEF DeleteDriver
<1> DEFINE a == For(next, b)
           ops == <<a>>
<1>5. a \in Operation /\ a.op = next /\ a.b = b
  BY <1>2, ForIsOperation DEF OpNames, HalOps
<1>6. Becomes(t, ops) /\ ops \in Seq(Operation)
  BY <1>4, <1>5
<1> HIDE DEF a
<1>7. Undisturbed(t)
  BY <1>1, <1>4, Undisturbing
<1>8. next = "unlockHal" => n.op # "assign"
  <2> SUFFICES ASSUME next = "unlockHal", n.op = "assign" PROVE FALSE
    OBVIOUS
  <2>1. PICK p \in Pins : p = n.pin /\ pins[p].bus = b
    BY <1>1, OwnerIsStopped
  <2>2. b \notin initialized
    BY <1>4
  <2>3. PICK u \in Tasks : Clearing(agenda[u], p, b)
    BY <1>2, <2>1, <2>2 DEF Keeping, Explained
  <2>4. Has(u, {"forget"}, b)
    BY <2>3 DEF Clearing, Has, HasIn
  <2> QED BY <1>1, <2>4, OneInside DEF HalOps, Locked
<1>9. Good(t, a, n)
  <2>1. Precedes(a, n)
    BY <1>2, <1>5, <1>8 DEF Precedes, Stops, Registering
  <2>2. Means(a, local'[t].want, initialized, bus) /\ a.op # "assign"
    BY <1>4, <1>5 DEF Means, Registering, PinOps
  <2> QED BY <2>1, <2>2 DEF Good
<1>10. AllGood(t, ops) /\ Len(ops) = 1 /\ ops[1] = a /\ NextTo(agenda[t], ops, 1) = n
  BY <1>9, OneGood
<1> HIDE DEF ops
<1>11. Moves(t, ops)
  BY <1>2, <1>6 DEF Moves
<1>12. Succeeds(agenda'[t], local'[t].result, pins')
  BY <1>3, <1>5, <1>8, <1>10, <1>11, NewFirstSucceeds
<1>13. n.op = "assign" =>
         AskedFor(agenda'[t], Len(ops) + 1, pins[n.pin].bus, initialized, local'[t].result)
  <2> SUFFICES ASSUME n.op = "assign"
               PROVE  AskedFor(agenda'[t], Len(ops) + 1, pins[n.pin].bus, initialized,
                               local'[t].result)
    OBVIOUS
  <2>1. pins[n.pin].bus = ops[Len(ops)].b
    BY <1>1, <1>5, <1>10, OwnerIsStopped
  <2>2. ops[Len(ops)].op \in Stops /\ Len(ops) > 0
    BY <1>5, <1>8, <1>10 DEF Stops
  <2>3. AskedFor(agenda'[t], Len(ops) + 1, ops[Len(ops)].b, initialized, local'[t].result)
    BY <1>3, <1>11, <2>2, AskedByLast
  <2> QED BY <2>1, <2>3
<1>14. \A x \in initialized : GivenUp(x) => GivenUp(x)'
  BY <1>2, <1>7, <1>11, GivenUpStays
<1>15. Now(t).op # "forget" /\ pins' = pins
  BY <1>1, <1>2
<1> QED BY <1>3, <1>7, <1>10, <1>11, <1>12, <1>13, <1>14, <1>15, PlainStep

(* The driver is not deleted: its port is none that t is stopping, so the   *)
(* pin of the assignment that is next stays as it is.                       *)
LEMMA DeleteFailsKeeps ==
  ASSUME Inv, Keeping, Noted, NEW t \in Tasks, DeleteFails(t)
  PROVE  Kept
<1> DEFINE b == Now(t).b
           n == After(agenda[t], 1)
           a == For("unlockHal", b)
           ops == <<a>>
<1>1. /\ Does(t, "deinit") /\ OnlyTheAgenda /\ b \in initialized
      /\ Becomes(t, <<a>>) /\ Result(t, FALSE)
  BY DEF DeleteFails
<1>2. /\ ~Idle(t) /\ Now(t).op = "deinit" /\ b \in Ports /\ Precedes(Now(t), n)
  BY <1>1, AtHand DEF PinOps
<1>3. Types /\ (\A p : ~Clears(Now(t), p)) /\ (\A d, r : ~WillClaim(Now(t), d, r))
  BY <1>2 DEF Inv, Clears, WillClaim, Registering
<1>4. a \in Operation /\ a.op = "unlockHal"
  BY <1>2, ForIsOperation DEF OpNames, HalOps
<1>5. Undisturbed(t) /\ pins' = pins /\ ~local'[t].result
  BY <1>1, Undisturbing
<1> HIDE DEF a
<1>6. Good(t, a, n)
  <2>1. Precedes(a, n)
    BY <1>2, <1>4, StoppingPrecedes DEF Stops
  <2> QED BY <1>4, <2>1 DEF Good, Means, Registering, PinOps
<1>7. /\ AllGood(t, ops) /\ Len(ops) = 1 /\ ops[1] = a /\ NextTo(agenda[t], ops, 1) = n
      /\ ops \in Seq(Operation) /\ Becomes(t, ops)
  BY <1>1, <1>4, <1>6, OneGood
<1> HIDE DEF ops
<1>8. Moves(t, ops)
  BY <1>2, <1>7 DEF Moves
<1>9. Spared(agenda'[t], b)
  <2>1. Spared(agenda[t], b)
    BY <1>1 DEF Spared, HasIn, Keeping, Intended, Means
  <2>2. ~HasIn(ops, {"forget"}, b)
    BY <1>4, <1>7 DEF HasIn
  <2> QED BY <1>3, <1>8, <2>1, <2>2, SparedStays
<1>10. n.op = "assign" => pins[n.pin].bus = b
  BY <1>1, OwnerIsStopped
<1>11. Succeeds(agenda'[t], local'[t].result, pins')
  BY <1>3, <1>4, <1>5, <1>7, <1>8, <1>9, <1>10, NewFirstSucceeds
<1>12. AskedFor(agenda'[t], Len(ops) + 1, b, initialized, local'[t].result)
  <2>1. agenda'[t][1] = a
    <3>1. 1 \in 1 .. Len(ops)
      BY <1>7
    <3> QED BY <1>3, <1>7, <1>8, <3>1, MovesWhere
  <2> QED BY <1>4, <1>5, <1>7, <2>1 DEF AskedFor, Skipped
<1>13. \A x \in initialized : GivenUp(x) => GivenUp(x)'
  BY <1>2, <1>5, <1>8, GivenUpStays
<1>14. Now(t).op # "forget"
  BY <1>2
<1> QED BY <1>3, <1>5, <1>7, <1>8, <1>10, <1>11, <1>12, <1>13, <1>14, PlainStep

(* A pin nobody uses any more becomes a plain GPIO.                         *)
LEMMA ClaimClearedKeeps ==
  ASSUME Inv, Keeping, Noted, NEW t \in Tasks, ClaimCleared(t)
  PROVE  Kept
<1> DEFINE a == SetPin(Now(t).pin, "GPIO", Gpio)
           ops == <<a>>
           n == After(agenda[t], 1)
<1>1. Does(t, "gpio") /\ Result(t, TRUE) /\ OnlyTheAgenda
  BY DEF ClaimCleared
<1>2. /\ ~Idle(t) /\ Now(t).op = "gpio" /\ Precedes(Now(t), n)
      /\ Means(Now(t), local[t].want, initialized, bus)
  BY <1>1, AtHand
<1>3. n.op \notin Ordered
  BY <1>2, ThenUnordered DEF Stops
<1>4. Undisturbed(t)
  BY <1>1, Undisturbing
<1>5. CASE ~local[t].result
  <2>1. Done(t)
    BY <1>5 DEF ClaimCleared, Done
  <2> QED BY <1>1, <1>4, <2>1, DoneKeeps DEF Stops, Watched
<1>6. CASE local[t].result
  <2>1. Becomes(t, ops)
    BY <1>6 DEF ClaimCleared
  <2>2. Now(t).pin \in Pins /\ "GPIO" \in BusTypes /\ Gpio \in Buses
    BY <1>2, I2cAssumption DEF Means, PinOps, BusTypes, OwnedTypes
  <2>3. a \in Operation /\ a.op = "setBus" /\ a.b = Gpio /\ a.pin \in Pins
    BY <2>2, SetPinIs
  <2> HIDE DEF a
  <2>4. Good(t, a, n)
    BY <1>3, <2>3, I2cAssumption DEF Good, Precedes, Means, Registering, Ordered
  <2>5. AllGood(t, ops) /\ Len(ops) = 1 /\ ops[1] = a /\ ops \in Seq(Operation)
    BY <2>3, <2>4, OneGood
  <2> HIDE DEF ops
  <2>6. Now(t).op \notin Watched \cup {"unlockHal"}
    BY <1>2 DEF Stops, Watched
  <2> QED BY <1>2, <1>4, <2>1, <2>3, <2>5, <2>6, BecomesKeeps
<1> QED BY <1>5, <1>6

(* The steps of a Wire object between its calls of the driver.              *)
LEMMA ForgoingKeeps ==
  ASSUME Inv, Keeping, Noted, NEW t \in Tasks, NEW what \in LastOps \ {"unlockWire"}, Does(t, what),
         Becomes(t, <<For("unlockWire", Now(t).b)>>), Undisturbed(t)
  PROVE  Kept
<1> DEFINE a == For("unlockWire", Now(t).b)
<1>1. /\ ~Idle(t) /\ Now(t).op = what /\ Follows(Now(t), After(agenda[t], 1)) /\ Now(t).b \in Ports
  BY AtHand DEF PinOps, LastOps
<1>2. After(agenda[t], 1).op \notin Ordered
  BY <1>1, Lasting, NothingNext
<1>3. a \in Operation /\ a.op = "unlockWire"
  BY <1>1, ForIsOperation DEF OpNames, WireOps, Quitting
<1> HIDE DEF a
<1>4. /\ a.op \notin Meaning \cup {"lockWire", "lockHal"}
      /\ Now(t).op \notin Watched \cup {"unlockHal"}
  BY <1>1, <1>3 DEF Meaning, PinOps, Stops, Watched, LastOps
<1>5. Becomes(t, <<a>>)
  BY DEF a
<1> QED BY <1>1, <1>2, <1>3, <1>4, <1>5, OneKeeps

LEMMA BeginKeeps ==
  ASSUME Inv, Keeping, Noted, NEW t \in Tasks, Begin(t)
  PROVE  Kept
<1> DEFINE b == Now(t).b
           a == For("lockHal", b)
           c == For("init", b)
           d == For("begun", b)
           ops == <<a, c, d>>
<1>1. Does(t, "begin") /\ UNCHANGED local /\ OnlyTheAgenda
  BY DEF Begin
<1>2. Undisturbed(t)
  BY <1>1, Undisturbing
<1>3. CASE Becomes(t, <<For("unlockWire", b)>>)
  BY <1>1, <1>2, <1>3, ForgoingKeeps DEF LastOps
<1>4. CASE Becomes(t, ops)
  <2>1. /\ ~Idle(t) /\ Now(t).op = "begin" /\ Follows(Now(t), After(agenda[t], 1)) /\ b \in Ports
        /\ Means(Now(t), local[t].want, initialized, bus)
    BY <1>1, AtHand DEF PinOps
  <2>2. After(agenda[t], 1).op \notin Ordered
    BY <2>1, Lasting, NothingNext DEF LastOps
  <2>3. local'[t].want \in Wants[b]
    BY <1>1, <2>1 DEF Means
  <2>4. /\ a \in Operation /\ a.op = "lockHal" /\ a.b = b /\ c \in Operation /\ c.op = "init" /\ c.b = b
        /\ d \in Operation /\ d.op = "begun" /\ d.b = b
    BY <2>1, ForIsOperation DEF OpNames, HalOps, WireOps, Quitting
  <2> HIDE DEF a, c, d
  <2>5. Good(t, a, c) /\ Good(t, c, d)
    BY <2>3, <2>4 DEF Good, Precedes, Means, Registering, PinOps
  <2>6. Good(t, d, After(agenda[t], 1))
    BY <2>2, <2>4, AnyGood DEF Meaning, PinOps
  <2>7. /\ AllGood(t, ops) /\ Len(ops) = 3 /\ ops[1] = a /\ ops[3] = d
        /\ NextTo(agenda[t], ops, 1) = c /\ ops \in Seq(Operation)
    BY <2>4, <2>5, <2>6, ThreeGood
  <2> HIDE DEF ops
  <2>8. Now(t).op \notin Watched \cup {"unlockHal"}
    BY <2>1 DEF Stops, Watched
  <2>9. /\ Len(ops) > 0 /\ ops[1].op = "lockHal" /\ NextTo(agenda[t], ops, 1).op = "init"
        /\ ops[Len(ops)].op = "begun"
    BY <2>4, <2>7
  <2>10. Becomes(t, ops)
    BY <1>4 DEF ops, a, c, d
  <2> QED BY <1>2, <2>1, <2>7, <2>8, <2>9, <2>10, BecomesKeeps
<1> QED BY <1>3, <1>4 DEF Begin

LEMMA BegunKeeps ==
  ASSUME Inv, Keeping, Noted, NEW t \in Tasks, Begun(t)
  PROVE  Kept
<1>1. Does(t, "begun") /\ UNCHANGED local /\ OnlyTheAgenda /\ Becomes(t, <<For("unlockWire", Now(t).b)>>)
  BY DEF Begun
<1> QED BY <1>1, ForgoingKeeps, Undisturbing DEF LastOps

LEMMA EndKeeps ==
  ASSUME Inv, Keeping, Noted, NEW t \in Tasks, End(t)
  PROVE  Kept
<1> DEFINE b == Now(t).b
           n == After(agenda[t], 1)
<1>1. Does(t, "end") /\ UNCHANGED local /\ OnlyTheAgenda
  BY DEF End
<1>2. Undisturbed(t)
  BY <1>1, Undisturbing
<1>3. /\ ~Idle(t) /\ Now(t).op = "end" /\ Follows(Now(t), n) /\ b \in Ports
  BY <1>1, AtHand DEF PinOps
<1>4. n.op \notin Ordered /\ n.op # "assign"
  BY <1>3 DEF Follows, For, Op, Ordered
<1>5. CASE b \notin initialized
  <2>1. Done(t)
    BY <1>5 DEF End, Done
  <2> QED BY <1>1, <1>2, <2>1, DoneKeeps DEF Stops, Watched
<1>6. CASE b \in initialized
  <2> DEFINE a == For("lockHal", b)
             c == For("deinit", b)
             ops == <<a, c>>
  <2>1. Precedes(For("deinit", b), n)
    BY <1>4 DEF Precedes, Ordered, Registering, For, Op
  <2>2. /\ Good(t, a, c) /\ Good(t, c, n) /\ a.op = "lockHal" /\ c.op = "deinit"
        /\ ops \in Seq(Operation) /\ Becomes(t, ops)
    BY <1>3, <1>6, <2>1, DeinitGood DEF End
  <2> HIDE DEF a, c
  <2>3. AllGood(t, ops) /\ Len(ops) = 2 /\ ops[1] = a /\ NextTo(agenda[t], ops, 1) = c
    BY <2>2, TwoGood
  <2> HIDE DEF ops
  <2>4. Now(t).op \notin Watched \cup {"unlockHal"}
    BY <1>3 DEF Stops, Watched
  <2> QED BY <1>2, <1>3, <1>4, <2>2, <2>3, <2>4, BecomesKeeps
<1> QED BY <1>5, <1>6

LEMMA FreeWireBufferKeeps ==
  ASSUME Inv, Keeping, Noted, NEW t \in Tasks, FreeWireBuffer(t)
  PROVE  Kept
<1>1. Does(t, "free") /\ UNCHANGED local /\ OnlyTheAgenda /\ Done(t)
  BY DEF FreeWireBuffer
<1> QED BY <1>1, DoneKeeps, Undisturbing DEF Stops, Watched

LEMMA GivingIsGood ==
  ASSUME Inv, NEW t \in Tasks, NEW b \in Ports, NEW n, n.op \notin Ordered, NEW ops, ops = GiveToDriver(b),
         n = After(agenda[t], 1)
  PROVE  /\ AllGood(t, ops) /\ Len(ops) > 0 /\ ops \in Seq(Operation) /\ ops[1].op = "lockHal"
         /\ NextTo(agenda[t], ops, 1).op = "transfer" /\ ops[Len(ops)].op = "finish"
<1> DEFINE a == For("lockHal", b)
           c == For("transfer", b)
           d == For("finish", b)
<1>1. /\ a \in Operation /\ a.op = "lockHal" /\ c \in Operation /\ c.op = "transfer"
      /\ d \in Operation /\ d.op = "finish"
  BY ForIsOperation DEF OpNames, WireOps, HalOps
<1>2. GiveToDriver(b) = <<a, c>> \o <<d>>
  BY DEF GiveToDriver, Transfer
<1> HIDE DEF a, c, d
<1>3. ops = <<a, c, d>>
  BY <1>1, <1>2, JoinedThree
<1>4. Good(t, a, c) /\ Good(t, c, d)
  BY <1>1 DEF Good, Precedes, Means, Registering, PinOps
<1>5. Good(t, d, n)
  BY <1>1, AnyGood DEF Meaning, PinOps
<1> QED BY <1>1, <1>3, <1>4, <1>5, ThreeGood

LEMMA DeviceIsForgotten ==
  ASSUME Inv, NEW t \in Tasks, NEW d, local' = [local EXCEPT ![t].device = d], OnlyTheAgenda
  PROVE  Undisturbed(t)
<1>1. local \in [Tasks -> Call]
  BY DEF Inv, Types
<1>2. local'[t].want = local[t].want /\ \A u \in Tasks \ {t} : local'[u] = local[u]
  BY <1>1 DEF Call
<1> QED BY <1>2 DEF Undisturbed, OnlyTheAgenda, unchangedPeriMan, unchangedHal, halVars

LEMMA BeginTransmissionKeeps ==
  ASSUME Inv, Keeping, Noted, NEW t \in Tasks, BeginTransmission(t)
  PROVE  Kept
<1>1. Does(t, "beginTransmission") /\ OnlyTheAgenda /\ Done(t)
      /\ local' = [local EXCEPT ![t].device = NULL]
  BY DEF BeginTransmission
<1>2. Undisturbed(t)
  BY <1>1, DeviceIsForgotten
<1> QED BY <1>1, <1>2, DoneKeeps DEF Stops, Watched

LEMMA RequestFromKeeps ==
  ASSUME Inv, Keeping, Noted, NEW t \in Tasks, RequestFrom(t)
  PROVE  Kept
<1> DEFINE b == Now(t).b
           ops == GiveToDriver(b)
<1>1. Does(t, "requestFrom") /\ OnlyTheAgenda /\ Becomes(t, ops)
      /\ local' = [local EXCEPT ![t].device = NULL]
  BY DEF RequestFrom
<1>2. Undisturbed(t)
  BY <1>1, DeviceIsForgotten
<1>3. /\ ~Idle(t) /\ Now(t).op = "requestFrom" /\ Follows(Now(t), After(agenda[t], 1)) /\ b \in Ports
  BY <1>1, AtHand DEF PinOps
<1>4. After(agenda[t], 1).op \notin Ordered
  BY <1>3, Lasting, NothingNext DEF LastOps
<1>5. /\ AllGood(t, ops) /\ Len(ops) > 0 /\ ops \in Seq(Operation) /\ ops[1].op = "lockHal"
      /\ NextTo(agenda[t], ops, 1).op = "transfer" /\ ops[Len(ops)].op = "finish"
  BY <1>3, <1>4, GivingIsGood
<1> HIDE DEF ops
<1>6. Now(t).op \notin Watched \cup {"unlockHal"}
  BY <1>3 DEF Stops, Watched
<1> QED BY <1>1, <1>2, <1>3, <1>5, <1>6, BecomesKeeps

LEMMA RequestFromAnotherKeeps ==
  ASSUME Inv, Keeping, Noted, NEW t \in Tasks, RequestFromAnother(t)
  PROVE  Kept
<1>1. Does(t, "requestFrom") /\ UNCHANGED local /\ OnlyTheAgenda
      /\ Becomes(t, <<For("unlockWire", Now(t).b)>>)
  BY DEF RequestFromAnother
<1> QED BY <1>1, ForgoingKeeps, Undisturbing DEF LastOps

LEMMA FinishKeeps ==
  ASSUME Inv, Keeping, Noted, NEW t \in Tasks, Finish(t)
  PROVE  Kept
<1>1. Does(t, "finish") /\ UNCHANGED local /\ OnlyTheAgenda
      /\ Becomes(t, <<For("unlockWire", Now(t).b)>>)
  BY DEF Finish
<1> QED BY <1>1, ForgoingKeeps, Undisturbing DEF LastOps

(* A task that begins a call has nothing left of the one before.            *)
LEMMA CallKeeps ==
  ASSUME Inv, Keeping, Noted, NEW t \in Tasks, NEW ops \in Seq(Operation), Idle(t),
         agenda' = [agenda EXCEPT ![t] = ops], UNCHANGED <<pins, initialized, bus>>,
         \A u \in Tasks \ {t} : local'[u] = local[u],
         AllGood(t, ops), Len(ops) > 0, ops[1].op # "unlockHal",
         ops[1].op = "lockHal" => NextTo(agenda[t], ops, 1).op # "unlockHal"
  PROVE  Kept
<1>1. Len(agenda[t]) <= 1
  BY DEF Idle
<1>2. Undisturbed(t)
  BY <1>1 DEF Undisturbed
<1> QED BY <1>2, BecomesKeeps

LEMMA IdleNext ==
  ASSUME NEW t, Idle(t)
  PROVE  After(agenda[t], 1) = Nothing /\ After(agenda[t], 1).op \notin Ordered
<1>1. After(agenda[t], 1) = Nothing
  BY DEF Idle, After
<1> QED BY <1>1, NothingNext

LEMMA CallBeginKeeps ==
  ASSUME Inv, Keeping, Noted, NEW t \in Tasks, CallBegin(t)
  PROVE  Kept
<1>0. PICK b \in Ports : \E want \in Wants[b] :
        /\ Calls(t, b, "begin", <<For("lockWire", b), For("begin", b)>>)
        /\ local' = [local EXCEPT ![t].want = want]
  BY DEF CallBegin
<1>1. PICK want \in Wants[b] :
        /\ Calls(t, b, "begin", <<For("lockWire", b), For("begin", b)>>)
        /\ local' = [local EXCEPT ![t].want = want]
  BY <1>0
<1> DEFINE a == For("lockWire", b)
           c == For("begin", b)
           ops == <<a, c>>
<1>2. /\ Idle(t) /\ agenda' = [agenda EXCEPT ![t] = ops] /\ UNCHANGED <<pins, initialized, bus>>
  BY <1>1 DEF Calls, unchangedPeriMan, unchangedHal, halVars
<1>3. local'[t].want = want /\ \A u \in Tasks \ {t} : local'[u] = local[u]
  <2>1. local \in [Tasks -> Call]
    BY DEF Inv, Types
  <2> QED BY <1>1, <2>1 DEF Call
<1>4. a \in Operation /\ a.op = "lockWire" /\ c \in Operation /\ c.op = "begin" /\ c.b = b
  BY ForIsOperation DEF OpNames, WireOps, Quitting, LastOps
<1> HIDE DEF a, c
<1>5. Good(t, a, c)
  BY <1>4 DEF Good, Precedes, Means, Registering, PinOps
<1>6. Good(t, c, After(agenda[t], 1))
  BY <1>2, <1>3, <1>4, IdleNext DEF Good, Precedes, Means, Registering, PinOps, Ordered
<1>7. AllGood(t, ops) /\ Len(ops) = 2 /\ ops[1] = a /\ ops[2] = c /\ ops \in Seq(Operation)
  BY <1>4, <1>5, <1>6, TwoGood
<1> HIDE DEF ops
<1>9. Len(ops) > 0 /\ ops[1].op = "lockWire" /\ ops[Len(ops)].op = "begin"
  BY <1>2, <1>3, <1>4, <1>7
<1> QED BY <1>2, <1>3, <1>4, <1>7, <1>9, CallKeeps

LEMMA CallEndKeeps ==
  ASSUME Inv, Keeping, Noted, NEW t \in Tasks, CallEnd(t)
  PROVE  Kept
<1>1. PICK b \in Ports :
        /\ Calls(t, b, "end", <<For("lockWire", b), For("end", b), For("free", b), For("unlockWire", b)>>)
        /\ UNCHANGED local
  BY DEF CallEnd
<1> DEFINE a == For("lockWire", b)
           c == For("end", b)
           d == For("free", b)
           e == For("unlockWire", b)
           ops == <<a, c, d, e>>
<1>2. /\ Idle(t) /\ agenda' = [agenda EXCEPT ![t] = ops] /\ UNCHANGED <<pins, initialized, bus>>
  BY <1>1 DEF Calls, unchangedPeriMan, unchangedHal, halVars
<1>3. /\ a \in Operation /\ a.op = "lockWire" /\ c \in Operation /\ c.op = "end"
      /\ d \in Operation /\ d.op = "free" /\ e \in Operation /\ e.op = "unlockWire"
  BY ForIsOperation DEF OpNames, WireOps, Quitting
<1> HIDE DEF a, c, d, e
<1>4. /\ Good(t, a, c) /\ Good(t, c, d) /\ Good(t, d, e) /\ Good(t, e, After(agenda[t], 1))
  BY <1>2, <1>3, IdleNext, AnyGood DEF Meaning, PinOps, Ordered
<1>5. AllGood(t, ops) /\ Len(ops) = 4 /\ ops[1] = a /\ ops[4] = e /\ ops \in Seq(Operation)
  BY <1>3, <1>4, FourGood
<1> HIDE DEF ops
<1>9. Len(ops) > 0 /\ ops[1].op = "lockWire" /\ ops[Len(ops)].op = "unlockWire"
  BY <1>1, <1>2, <1>3, <1>5
<1> QED BY <1>1, <1>2, <1>3, <1>5, <1>9, CallKeeps

LEMMA CallSetClockKeeps ==
  ASSUME Inv, Keeping, Noted, NEW t \in Tasks, CallSetClock(t)
  PROVE  Kept
<1>1. PICK b \in Ports : Calls(t, b, "setClock", Timing(b)) /\ UNCHANGED local
  BY DEF CallSetClock, Timing
<1> DEFINE a == For("lockWire", b)
           c == For("lockHal", b)
           d == For("unlockHal", b)
           e == For("unlockWire", b)
           ops == <<a, c, d, e>>
<1>2. /\ Idle(t) /\ agenda' = [agenda EXCEPT ![t] = ops] /\ UNCHANGED <<pins, initialized, bus>>
  <2>1. Timing(b) = ops
    BY TimingIsFour
  <2> QED BY <1>1, <2>1 DEF Calls, unchangedPeriMan, unchangedHal, halVars
<1>3. /\ a \in Operation /\ a.op = "lockWire" /\ c \in Operation /\ c.op = "lockHal"
      /\ d \in Operation /\ d.op = "unlockHal" /\ e \in Operation /\ e.op = "unlockWire"
  BY ForIsOperation DEF OpNames, WireOps, Quitting, HalOps
<1> HIDE DEF a, c, d, e
<1>4. Good(t, a, c) /\ Good(t, c, d)
  BY <1>3 DEF Good, Precedes, Means, Registering, PinOps
<1>5. Good(t, d, e) /\ Good(t, e, After(agenda[t], 1))
  BY <1>2, <1>3, IdleNext, AnyGood DEF Meaning, PinOps, Ordered
<1>6. AllGood(t, ops) /\ Len(ops) = 4 /\ ops[1] = a /\ ops[4] = e /\ ops \in Seq(Operation)
  BY <1>3, <1>4, <1>5, FourGood
<1> HIDE DEF ops
<1>9. Len(ops) > 0 /\ ops[1].op = "lockWire" /\ ops[Len(ops)].op = "unlockWire"
  BY <1>1, <1>2, <1>3, <1>6
<1> QED BY <1>1, <1>2, <1>3, <1>6, <1>9, CallKeeps

LEMMA CallClaimKeeps ==
  ASSUME Inv, Keeping, Noted, NEW t \in Tasks, CallClaim(t)
  PROVE  Kept
<1>1. PICK p \in Claims : Claim(t, p)
  BY DEF CallClaim
<1> DEFINE a == ClearPin(p)
           c == Op("gpio", Gpio, "GPIO", p)
           ops == <<a, c>>
<1>2. /\ Idle(t) /\ agenda' = [agenda EXCEPT ![t] = ops]
      /\ UNCHANGED <<pins, initialized, bus, local>>
  BY <1>1 DEF Claim, unchangedHal, halVars
<1>3. p \in Pins /\ Gpio \in Buses /\ "GPIO" \in BusTypes
  BY WireAssumption, I2cAssumption DEF BusTypes, OwnedTypes
<1>4. a \in Operation /\ a.op = "setBus" /\ a.pin = p /\ ~Registering(a)
  BY <1>3, ClearPinIs
<1>5. c \in Operation /\ c.op = "gpio" /\ c.pin = p
  BY <1>3 DEF Op, Operation, OpNames, PinOps
<1> HIDE DEF a, c
<1>6. Good(t, a, c)
  BY <1>3, <1>4, <1>5 DEF Good, Precedes, Means
<1>7. Good(t, c, After(agenda[t], 1))
  BY <1>2, <1>3, <1>5, IdleNext DEF Good, Precedes, Means, Registering, Ordered
<1>8. AllGood(t, ops) /\ Len(ops) = 2 /\ ops[1] = a /\ ops[2] = c /\ ops \in Seq(Operation)
  BY <1>4, <1>5, <1>6, <1>7, TwoGood
<1> HIDE DEF ops
<1>9. Len(ops) > 0 /\ ops[1].op = "setBus" /\ ops[Len(ops)].op = "gpio"
  BY <1>2, <1>4, <1>5, <1>8
<1> QED BY <1>2, <1>4, <1>5, <1>8, <1>9, CallKeeps

(* beginTransmission() and requestFrom(): with or without the object's lock.*)
LEMMA TalkingKeeps ==
  ASSUME Inv, Keeping, Noted, NEW t \in Tasks, NEW b \in Ports,
         NEW what \in {"beginTransmission", "requestFrom"}, NEW mine, NEW request, NEW d,
         Calls(t, b, request, IF mine THEN <<For(what, b)>> ELSE <<For("lockWire", b), For(what, b)>>),
         local' = [local EXCEPT ![t].device = d]
  PROVE  Kept
<1> DEFINE a == For("lockWire", b)
           c == For(what, b)
<1>1. /\ Idle(t) /\ UNCHANGED <<pins, initialized, bus>>
      /\ agenda' = [agenda EXCEPT ![t] = IF mine THEN <<c>> ELSE <<a, c>>]
  BY DEF Calls, unchangedPeriMan, unchangedHal, halVars
<1>2. \A u \in Tasks \ {t} : local'[u] = local[u]
  <2>1. local \in [Tasks -> Call]
    BY DEF Inv, Types
  <2> QED BY <2>1
<1>3. a \in Operation /\ a.op = "lockWire" /\ c \in Operation /\ c.op = what
  BY ForIsOperation DEF OpNames, WireOps
<1> HIDE DEF a, c
<1>4. Good(t, a, c) /\ Good(t, c, After(agenda[t], 1))
  BY <1>1, <1>3, IdleNext, AnyGood DEF Meaning, PinOps, Ordered
<1>5. CASE mine
  <2> DEFINE ops == <<c>>
  <2>1. /\ AllGood(t, ops) /\ Len(ops) = 1 /\ ops[1] = c /\ ops \in Seq(Operation)
        /\ agenda' = [agenda EXCEPT ![t] = ops]
    BY <1>1, <1>3, <1>4, <1>5, OneGood
  <2> HIDE DEF ops
  <2>2. Len(ops) > 0 /\ ops[1].op = what /\ ops[Len(ops)].op = what
    BY <1>1, <1>2, <1>3, <2>1
  <2> QED BY <1>1, <1>2, <1>3, <2>1, <2>2, CallKeeps
<1>6. CASE ~mine
  <2> DEFINE ops == <<a, c>>
  <2>1. /\ AllGood(t, ops) /\ Len(ops) = 2 /\ ops[1] = a /\ ops[2] = c /\ ops \in Seq(Operation)
        /\ agenda' = [agenda EXCEPT ![t] = ops]
    BY <1>1, <1>3, <1>4, <1>6, TwoGood
  <2> HIDE DEF ops
  <2>2. Len(ops) > 0 /\ ops[1].op = "lockWire" /\ ops[Len(ops)].op = what
    BY <1>3, <2>1
  <2> QED BY <1>1, <1>2, <2>1, <2>2, CallKeeps
<1> QED BY <1>5, <1>6

LEMMA TalkCallsKeep ==
  ASSUME Inv, Keeping, Noted, NEW t \in Tasks, CallBeginTransmission(t) \/ CallRequestFrom(t)
  PROVE  Kept
<1>1. CASE CallBeginTransmission(t)
  <2>1. PICK b \in Ports, d \in Devices :
          /\ Calls(t, b, "transmit", IF wire[b].currentTaskHandle = t THEN <<For("beginTransmission", b)>>
                                     ELSE <<For("lockWire", b), For("beginTransmission", b)>>)
          /\ local' = [local EXCEPT ![t].device = d]
    BY <1>1 DEF CallBeginTransmission
  <2> QED BY <2>1, TalkingKeeps
<1>2. CASE CallRequestFrom(t)
  <2>1. PICK b \in Ports, d \in Devices :
          /\ Calls(t, b, "request", IF wire[b].currentTaskHandle = t THEN <<For("requestFrom", b)>>
                                    ELSE <<For("lockWire", b), For("requestFrom", b)>>)
          /\ local' = [local EXCEPT ![t].device = d]
    BY <1>2 DEF CallRequestFrom
  <2> QED BY <2>1, TalkingKeeps
<1> QED BY <1>1, <1>2

LEMMA EndTransmissionKeeps ==
  ASSUME Inv, Keeping, Noted, NEW t \in Tasks, EndTransmission(t)
  PROVE  Kept
<1>1. PICK b \in Ports : Calls(t, b, "transmit", GiveToDriver(b)) /\ UNCHANGED local
  BY DEF EndTransmission
<1> DEFINE ops == GiveToDriver(b)
<1>2. /\ Idle(t) /\ agenda' = [agenda EXCEPT ![t] = ops] /\ UNCHANGED <<pins, initialized, bus>>
  BY <1>1 DEF Calls, unchangedPeriMan, unchangedHal, halVars
<1>3. /\ AllGood(t, ops) /\ Len(ops) > 0 /\ ops \in Seq(Operation) /\ ops[1].op = "lockHal"
      /\ NextTo(agenda[t], ops, 1).op = "transfer" /\ ops[Len(ops)].op = "finish"
  BY <1>2, IdleNext, GivingIsGood
<1> HIDE DEF ops
<1> QED BY <1>1, <1>2, <1>3, CallKeeps

-----------------------------------------------------------------------------
(* perimanSetPinBus() asks the owner of the pin, if there is one.           *)
(* It calls a port's callback, and stores the pin's new owner after that.   *)
LEMMA AskingKeeps ==
  ASSUME Inv, Keeping, Noted, NEW t \in Tasks, Does(t, "setBus"), Undisturbed(t),
         NEW new, new = [Now(t) EXCEPT !.op = "assign"],
         NEW ops \in Seq(Operation), Becomes(t, ops),
         \/ /\ pins[Now(t).pin].bus \in Ports /\ ops = <<For("detach", pins[Now(t).pin].bus), new>>
         \/ /\ pins[Now(t).pin].bus \notin Ports /\ ops = <<new>> /\ local'[t].result
  PROVE  Kept
<1> DEFINE o == Now(t)
           q == agenda[t]
           n == After(agenda[t], 1)
           c == pins[o.pin].bus
           a == For("detach", c)
           k == Len(ops)
<1>1. /\ ~Idle(t) /\ o.op = "setBus" /\ Precedes(o, n) /\ o \in Operation
      /\ Means(o, local[t].want, initialized, bus)
  BY AtHand
<1>2. /\ new.op = "assign" /\ new.b = o.b /\ new.role = o.role /\ new.pin = o.pin
  BY <1>1 DEF Operation
<1>3. /\ Types /\ UNCHANGED <<pins, initialized, bus>> /\ initialized \subseteq Ports
      /\ Chained /\ Intended /\ Succeeding /\ Explained /\ Asked /\ Claimed
      /\ Moves(t, ops) /\ Len(q) \in Nat
  <2>1. Types /\ Moves(t, ops) /\ initialized \subseteq Ports
    BY <1>1 DEF Inv, Moves, Types, TypeOK, I2cTypeOK
  <2>2. Len(q) \in Nat
    BY <2>1, MovesWhere
  <2> QED BY <2>1, <2>2 DEF Keeping, Undisturbed
<1>4. /\ Precedes(new, n) /\ Means(new, local[t].want, initialized, bus)
      /\ (Registering(o) <=> Registering(new)) /\ n.op # "assign"
  BY <1>1, <1>2 DEF Precedes, Means, Registering, PinOps, Stops
<1>5. \/ c \in Ports /\ k = 2 /\ ops[1] = a /\ ops[2] = new /\ a.op = "detach" /\ a.b = c
      \/ c \notin Ports /\ k = 1 /\ ops[1] = new /\ local'[t].result
  BY DEF k, For, Op
<1>6. k > 0 /\ k \in 1 .. k /\ ops[k] = new
  <2> HIDE DEF c, a, k
  <2> QED BY <1>5
<1> HIDE DEF o, q, n, c, a, k
<1>7. \A i \in 1 .. k : i = k \/ (i = 1 /\ k = 2)
  BY <1>5
<1>8. Chained'
  <2>1. \A i \in 1 .. k : Precedes(ops[i], NextTo(q, ops, i))
    <3>1. Precedes(new, n) /\ NextTo(q, ops, k) = n
      BY <1>4, <1>6 DEF NextTo, k, n, q
    <3>2. k = 2 => Precedes(ops[1], new) /\ NextTo(q, ops, 1) = new
      BY <1>2, <1>5 DEF NextTo, k, Precedes, Stops, Registering
    <3> QED BY <1>6, <1>7, <3>1, <3>2
  <2> QED BY <1>3, <2>1, MovesKeepChained DEF k, q
<1>9. Intended'
  <2>1. \A i \in 1 .. k : Means(ops[i], local[t].want, initialized, bus)
    <3>1. k = 2 => Means(ops[1], local[t].want, initialized, bus)
      BY <1>5 DEF Means, Registering, PinOps
    <3> QED BY <1>4, <1>6, <1>7, <3>1
  <2>2. ASSUME NEW u \in Tasks, NEW i \in 1 .. Len(agenda[u]), u = t => i > 1
        PROVE  Means(agenda[u][i], local'[u].want, initialized', bus')
    <3>1. Means(agenda[u][i], local[u].want, initialized', bus')
      BY <1>3 DEF Intended
    <3>2. local'[u].want = local[u].want
      <4>1. CASE u # t
        BY <4>1 DEF Undisturbed
      <4>2. CASE u = t
        <5>1. ~(Len(agenda[t]) <= 1)
          BY <1>3, <2>2, <4>2 DEF q
        <5> QED BY <4>2, <5>1 DEF Undisturbed
      <4> QED BY <4>1, <4>2
    <3> QED BY <3>1, <3>2
  <2>3. \A i \in 1 .. k : Means(ops[i], local'[t].want, initialized', bus')
    <3>1. Means(new, local'[t].want, initialized', bus')
      BY <1>2, <1>3, <1>4 DEF Means, PinOps, Registering
    <3>2. k = 2 => Means(ops[1], local'[t].want, initialized', bus')
      BY <1>5 DEF Means, Registering, PinOps
    <3> QED BY <1>6, <1>7, <3>1, <3>2
  <2> QED BY <1>3, <2>2, <2>3, MovesKeepIntended DEF k
<1>10. Succeeding'
  <2>1. Succeeds(agenda'[t], local'[t].result, pins')
    BY <1>2, <1>3, <1>6, <1>5, NewFirstSucceeds DEF k
  <2>2. \A u \in Tasks \ {t} : local'[u].result = local[u].result
    BY DEF Undisturbed
  <2> QED BY <1>3, <2>1, <2>2, MovesKeepSucceeding
<1>11. Explained'
  <2>1. \A p \in Pins : Clears(o, p) => Clears(ops[k], p)
    BY <1>1, <1>2, <1>6 DEF Clears
  <2> QED BY <1>3, <1>6, <2>1, MovesKeepExplained DEF k, o
<1>12. Asked'
  <2>1. ASSUME NEW i \in 1 .. k, ops[i].op = "assign"
        PROVE  AskedFor(ops, i, pins[ops[i].pin].bus, initialized', local'[t].result)
    <3>1. i = k /\ pins[ops[i].pin].bus = c
      BY <1>2, <1>6, <1>5, <1>7, <2>1 DEF c
    <3>2. CASE k = 2
      <4>1. i > 1 /\ ops[1].b = c /\ ops[1].op = "detach" /\ i - 1 = 1
        BY <1>5, <3>1, <3>2
      <4> QED BY <3>1, <4>1 DEF AskedFor, Stops
    <3>3. CASE k = 1
      <4>1. c \notin initialized' /\ ~(i > 1)
        BY <1>3, <1>5, <3>1, <3>3
      <4> QED BY <3>1, <4>1 DEF AskedFor
    <3> QED BY <1>5, <3>2, <3>3
  <2>2. n.op # "assign" /\ \A u \in Tasks \ {t} : local'[u].result = local[u].result
    BY <1>4 DEF Undisturbed
  <2> QED BY <1>3, <2>1, <2>2, MovesKeepAsked DEF k, n
<1>13. Claimed'
  <2>1. \A b \in initialized' : \A p, r : Registers(b, p, r) => Registers(b, p, r)'
    BY <1>3 DEF Registers
  <2>2. \A b, r : WillClaim(o, b, r) => WillClaim(ops[k], b, r)
    BY <1>1, <1>2, <1>4, <1>6 DEF WillClaim
  <2>3. \A b \in initialized' : GivenUp(b) => GivenUp(b)'
    BY <1>1, <1>3, GivenUpStays DEF o
  <2> QED BY <1>3, <1>6, <2>1, <2>2, <2>3, MovesKeepClaimed DEF k, o
<1> QED BY <1>8, <1>9, <1>10, <1>11, <1>12, <1>13 DEF Kept

LEMMA SetBusKeeps ==
  ASSUME Inv, Keeping, Noted, NEW t \in Tasks, SetBus(t)
  PROVE  Kept
<1> DEFINE o == Now(t)
           new == [Now(t) EXCEPT !.op = "assign"]
<1>1. Does(t, "setBus") /\ OnlyTheAgenda
  BY DEF SetBus
<1>2. /\ ~Idle(t) /\ o.op = "setBus" /\ o \in Operation /\ Precedes(o, After(agenda[t], 1))
      /\ Means(o, local[t].want, initialized, bus)
  BY <1>1, AtHand
<1>3. new \in Operation
  BY <1>2 DEF Operation, PinOps, OpNames
<1>4. CASE AlreadyAssigned(o.pin, o.role, o.b) /\ Done(t) /\ Result(t, TRUE)
  <2>1. Undisturbed(t) /\ local'[t].result
    BY <1>1, <1>4, Undisturbing
  <2>2. \A p \in Pins : Clears(o, p) => pins[p].bus \notin Ports
    BY <1>2, <1>4, I2cAssumption, NullAssumption DEF Clears, AlreadyAssigned
  <2>3. \A b \in initialized : \A r \in {"SDA", "SCL"} :
          WillClaim(o, b, r) => Registers(b, PinFor(bus[b], r), r)
    BY <1>2, <1>4 DEF WillClaim, Means, Registers, AlreadyAssigned
  <2>4. o.op \notin {"lockHal", "lockWire", "forget", "fail", "setScl", "registered"}
        /\ After(agenda[t], 1).op # "assign"
    BY <1>2 DEF Precedes, Stops
  <2> QED BY <1>2, <1>4, <2>1, <2>2, <2>3, <2>4, DropStep
<1>5. CASE pins[o.pin].bus \in Ports /\ UNCHANGED local
           /\ Becomes(t, <<For("detach", pins[o.pin].bus), new>>)
  <2>1. For("detach", pins[o.pin].bus) \in Operation
    BY <1>5, ForIsOperation DEF OpNames
  <2>2. <<For("detach", pins[o.pin].bus), new>> \in Seq(Operation)
    BY <1>3, <2>1
  <2>3. Undisturbed(t)
    BY <1>1, <1>5, Undisturbing
  <2> QED BY <1>1, <1>5, <2>2, <2>3, AskingKeeps
<1>6. CASE pins[o.pin].bus \notin Ports /\ Result(t, TRUE) /\ Becomes(t, <<new>>)
  <2>1. <<new>> \in Seq(Operation)
    BY <1>3
  <2>2. Undisturbed(t) /\ local'[t].result
    BY <1>1, <1>6, Undisturbing
  <2> QED BY <1>1, <1>6, <2>1, <2>2, AskingKeeps
<1> QED BY <1>4, <1>5, <1>6 DEF SetBus

-----------------------------------------------------------------------------
(* The steps that start and stop a port.                                    *)
LEMMA ForgetPinsKeeps ==
  ASSUME Inv, Keeping, Noted, NEW t \in Tasks, ForgetPins(t)
  PROVE  Kept
<1> DEFINE b == Now(t).b
           a == For("unlockHal", b)
           ops == <<a>>
           n == After(agenda[t], 1)
<1>1. /\ Does(t, "forget") /\ Becomes(t, ops) /\ Result(t, TRUE) /\ pins' = pins
      /\ initialized' = initialized /\ bus' = [bus EXCEPT ![b] = NotStarted]
  BY DEF ForgetPins, unchangedPeriMan
<1>2. /\ ~Idle(t) /\ Now(t).op = "forget" /\ Precedes(Now(t), n) /\ b \in Ports
      /\ Means(Now(t), local[t].want, initialized, bus)
  BY <1>1, AtHand DEF PinOps
<1>3. a \in Operation /\ a.op = "unlockHal"
  BY <1>2, ForIsOperation DEF OpNames, HalOps
<1> HIDE DEF a
<1>4. /\ Len(ops) = 1 /\ ops[1] = a /\ ops \in Seq(Operation) /\ NextTo(agenda[t], ops, 1) = n
      /\ \A i \in 1 .. Len(ops) : i = 1
  BY <1>3 DEF NextTo
<1> HIDE DEF ops
<1>5. /\ Types /\ Moves(t, ops) /\ initialized \subseteq Ports /\ bus \in [Ports -> BusPins]
      /\ Chained /\ Intended /\ Succeeding /\ Explained /\ Asked /\ Claimed
  BY <1>1, <1>2, <1>4 DEF Inv, Moves, Types, TypeOK, I2cTypeOK, Keeping, BusPins
<1>6. /\ \A u \in Tasks : local'[u].want = local[u].want
      /\ \A u \in Tasks \ {t} : local'[u] = local[u]
      /\ local'[t].result
  BY <1>1, Undisturbing
<1>7. b \notin initialized
  BY <1>2 DEF Means
<1>8. \A c \in initialized : bus'[c] = bus[c]
  BY <1>1, <1>5, <1>7
<1>9. Chained'
  <2>1. Precedes(a, n)
    BY <1>2, <1>3 DEF Precedes, Registering, Stops
  <2> QED BY <1>4, <1>5, <2>1, MovesKeepChained
<1>10. Intended'
  <2>1. \A u \in Tasks : \A i \in 1 .. Len(agenda[u]) :
          Means(agenda[u][i], local'[u].want, initialized', bus')
    <3> SUFFICES ASSUME NEW u \in Tasks, NEW i \in 1 .. Len(agenda[u])
                 PROVE  Means(agenda[u][i], local'[u].want, initialized', bus')
      OBVIOUS
    <3>1. Means(agenda[u][i], local'[u].want, initialized, bus)
      BY <1>5, <1>6 DEF Intended
    <3> QED BY <1>1, <1>8, <3>1 DEF Means
  <2>2. Means(a, local'[t].want, initialized', bus')
    BY <1>3 DEF Means, Registering, PinOps
  <2>3. \A i \in 1 .. Len(ops) : Means(ops[i], local'[t].want, initialized', bus')
    BY <1>4, <2>2
  <2> QED BY <1>5, <2>1, <2>3, MovesKeepIntended
<1>11. Succeeding'
  <2>1. Succeeds(agenda'[t], local'[t].result, pins')
    <3>1. Len(ops) > 0 /\ ops[1].op = "unlockHal" /\ local'[t].result
      BY <1>3, <1>4, <1>6
    <3> QED BY <1>5, <3>1, NewFirstSucceeds
  <2>2. \A u \in Tasks \ {t} : local'[u].result = local[u].result
    BY <1>6
  <2> QED BY <1>1, <1>5, <2>1, <2>2, MovesKeepSucceeding
<1>12. Explained'
  <2> SUFFICES ASSUME NEW p \in Pins, pins[p].bus \in Ports
               PROVE  \/ /\ pins[p].bus \in initialized
                         /\ p \in {bus'[pins[p].bus].sda, bus'[pins[p].bus].scl}
                      \/ \E u \in Tasks : Clearing(agenda'[u], p, pins[p].bus)
    BY <1>1 DEF Explained
  <2>1. CASE pins[p].bus \in initialized /\ p \in {bus[pins[p].bus].sda, bus[pins[p].bus].scl}
    BY <1>8, <2>1
  <2>2. ASSUME NEW u \in Tasks, Clearing(agenda[u], p, pins[p].bus)
        PROVE  Clearing(agenda'[u], p, pins[p].bus)
    <3>1. ~Clears(Now(t), p)
      BY <1>2 DEF Clears
    <3> QED BY <1>5, <2>2, <3>1, MovesKeepClearing
  <2> QED BY <1>5, <2>1, <2>2 DEF Explained
<1>13. Asked'
  <2> SUFFICES ASSUME n.op = "assign"
               PROVE  AskedFor(agenda'[t], Len(ops) + 1, pins[n.pin].bus, initialized',
                               local'[t].result)
    BY <1>1, <1>3, <1>4, <1>5, <1>6, MovesKeepAsked
  <2>1. agenda'[t][1] = a
    <3>1. 1 \in 1 .. Len(ops)
      BY <1>4
    <3> QED BY <1>4, <1>5, <3>1, MovesWhere
  <2>2. pins[n.pin].bus \notin initialized
    BY <1>2, AskedNext DEF AskedFor, Skipped, Stops
  <2> QED BY <1>1, <1>3, <1>4, <2>1, <2>2 DEF AskedFor
<1>14. Claimed'
  <2>1. \A c \in initialized' : \A p, r : Registers(c, p, r) => Registers(c, p, r)'
    BY <1>1 DEF Registers
  <2>2. \A c, r : ~WillClaim(Now(t), c, r)
    BY <1>2 DEF WillClaim, Registering
  <2>3. \A c \in initialized' : GivenUp(c) => GivenUp(c)'
    BY <1>2, <1>5, <1>6, MovesKeepGivenUp
  <2> QED BY <1>1, <1>5, <1>8, <2>1, <2>2, <2>3, MovesKeepClaimed
<1> QED BY <1>9, <1>10, <1>11, <1>12, <1>13, <1>14 DEF Kept

(* Inside a port's lock a task has one operation on the port and no other   *)
(* task has any, but for those that follow a callback's lock.               *)
LEMMA AloneInside ==
  ASSUME Inv, Keeping, NEW t \in Tasks, NEW what \in HalOps, Does(t, what),
         NEW u \in Tasks, NEW i \in 1 .. Len(agenda[u]), agenda[u][i].b = Now(t).b
  PROVE  /\ agenda[u][i].op \in HalOps \ Locked => u = t /\ i = 1
         /\ Registering(agenda[u][i]) => what \in {"setScl", "registered"}
<1> DEFINE q == agenda[u]
           b == Now(t).b
<1>1. /\ Now(t) = agenda[t][1] /\ Now(t).op = what /\ 1 \in 1 .. Len(agenda[t])
  BY AtHand
<1>2. Open(agenda[t], 1)
  BY <1>1 DEF Open
<1>3. lock[Hal(b)] = t
  BY <1>1, <1>2 DEF Inv, HalHeld
<1>4. Len(q) \in Nat
  BY DEF Inv, Types
<1>5. ASSUME NEW j \in 1 .. Len(q), q[j].b = b, q[j].op \in HalOps \ Locked
      PROVE  u = t /\ j = 1
  <2>1. Open(q, j)
    <3>1. j > 1 => j - 1 \in 1 .. Len(q) /\ After(q, j - 1) = q[j]
      BY <1>4 DEF After
    <3>2. j > 1 => Follows(q[j - 1], q[j])
      BY <3>1 DEF Inv, Shape, InOrder
    <3> QED BY <1>5, <3>2 DEF Open, Follows
  <2>2. u = t
    BY <1>3, <1>5, <2>1 DEF Inv, HalHeld
  <2>3. j = 1
    BY <1>1, <1>2, <1>5, <2>1, <2>2 DEF Inv, Shape, OpenOnce
  <2> QED BY <2>2, <2>3
<1>6. ASSUME Registering(q[i])
      PROVE  what \in {"setScl", "registered"}
  <2>1. After(q, i) = For("setScl", b) \/ After(q, i) = For("registered", b)
    BY <1>6 DEF Keeping, Chained, Precedes
  <2>2. After(q, i).op \in {"setScl", "registered"} /\ After(q, i).b = b
    BY <2>1 DEF For, Op
  <2>3. Nothing.op \notin {"setScl", "registered"}
    BY DEF Nothing, For, Op
  <2>4. i < Len(q) /\ After(q, i) = q[i + 1]
    BY <2>2, <2>3 DEF After
  <2>5. i + 1 \in 1 .. Len(q) /\ q[i + 1].op \in HalOps \ Locked
    BY <1>4, <2>2, <2>4 DEF HalOps, Locked
  <2>6. u = t /\ i + 1 = 1
    BY <1>5, <2>2, <2>4, <2>5
  <2> QED BY <1>4, <2>6
<1> QED BY <1>5, <1>6

LEMMA UninitializeKeeps ==
  ASSUME Inv, Keeping, Noted, NEW t \in Tasks, Uninitialize(t)
  PROVE  Kept
<1> DEFINE b == Now(t).b
           a == ClearPin(bus[b].scl)
           c == ClearPin(bus[b].sda)
           d == For("forget", b)
           ops == <<a, c, d>>
           n == After(agenda[t], 1)
<1>1. /\ Does(t, "uninitialize") /\ Becomes(t, ops) /\ UNCHANGED <<pins, bus, local>>
      /\ initialized' = initialized \ {b}
  BY DEF Uninitialize, unchangedPeriMan
<1>2. /\ ~Idle(t) /\ Now(t).op = "uninitialize" /\ Precedes(Now(t), n) /\ b \in Ports
      /\ Means(Now(t), local[t].want, initialized, bus)
  BY <1>1, AtHand DEF PinOps
<1>3. b \in initialized /\ bus[b].scl \in Pins /\ bus[b].sda \in Pins
  <2>1. b \in initialized
    BY <1>2 DEF Means
  <2> QED BY <1>2, <2>1, WantedPins DEF Keeping, Claimed
<1>4. /\ a \in Operation /\ a.op = "setBus" /\ ~Registering(a) /\ Clears(a, bus[b].scl)
      /\ a.pin \in Pins /\ c \in Operation /\ c.op = "setBus" /\ ~Registering(c)
      /\ Clears(c, bus[b].sda) /\ c.pin \in Pins
      /\ d \in Operation /\ d.op = "forget" /\ d.b = b
  <2>1. /\ a \in Operation /\ a.op = "setBus" /\ ~Registering(a) /\ Clears(a, bus[b].scl)
        /\ a.pin \in Pins
    BY <1>3, ClearPinIs
  <2>2. /\ c \in Operation /\ c.op = "setBus" /\ ~Registering(c) /\ Clears(c, bus[b].sda)
        /\ c.pin \in Pins
    BY <1>3, ClearPinIs
  <2>3. d \in Operation /\ d.op = "forget" /\ d.b = b
    BY <1>2, ForIsOperation DEF OpNames, HalOps
  <2> QED BY <2>1, <2>2, <2>3
<1> HIDE DEF a, c, d
<1>5. /\ Len(ops) = 3 /\ ops[1] = a /\ ops[2] = c /\ ops[3] = d /\ ops \in Seq(Operation)
  BY <1>4
<1> HIDE DEF ops
<1>6. \A i \in 1 .. Len(ops) : i = 1 \/ i = 2 \/ i = 3
  BY <1>5
<1>7. /\ Types /\ Moves(t, ops) /\ initialized \subseteq Ports
      /\ Chained /\ Intended /\ Succeeding /\ Explained /\ Asked /\ Claimed
  BY <1>1, <1>2, <1>5 DEF Inv, Moves, Types, TypeOK, I2cTypeOK, Keeping
<1>8. Chained'
  <2>1. Precedes(a, c) /\ Precedes(c, d)
    BY <1>4 DEF Precedes
  <2>2. Precedes(d, n)
    BY <1>2, <1>4, StoppingPrecedes DEF Stops
  <2>3. /\ NextTo(agenda[t], ops, 1) = c /\ NextTo(agenda[t], ops, 2) = d
        /\ NextTo(agenda[t], ops, 3) = n
    BY <1>5 DEF NextTo
  <2>4. \A i \in 1 .. Len(ops) : Precedes(ops[i], NextTo(agenda[t], ops, i))
    BY <1>5, <1>6, <2>1, <2>2, <2>3
  <2> QED BY <1>7, <2>4, MovesKeepChained
<1>9. Intended'
  <2>1. ASSUME NEW u \in Tasks, NEW i \in 1 .. Len(agenda[u]), u = t => i > 1
        PROVE  Means(agenda[u][i], local'[u].want, initialized', bus')
    <3> DEFINE o == agenda[u][i]
    <3>1. Means(o, local[u].want, initialized, bus)
      BY <1>7 DEF Intended
    <3>2. o.b = b => o.op \notin HalOps \ Locked /\ ~Registering(o)
      BY <1>1, <2>1, AloneInside DEF HalOps
    <3>3. o.b = b => o.op \notin {"setScl", "registered", "uninitialize"} /\ ~Registering(o)
      BY <3>2 DEF HalOps, Locked
    <3> HIDE DEF o, b
    <3> QED BY <1>1, <3>1, <3>3 DEF Means, o
  <2>2. Means(a, local'[t].want, initialized', bus')
    BY <1>4 DEF Means, PinOps
  <2>3. Means(c, local'[t].want, initialized', bus')
    BY <1>4 DEF Means, PinOps
  <2>4. Means(d, local'[t].want, initialized', bus')
    BY <1>1, <1>4 DEF Means, Registering, PinOps
  <2>5. \A i \in 1 .. Len(ops) : Means(ops[i], local'[t].want, initialized', bus')
    BY <1>5, <1>6, <2>2, <2>3, <2>4
  <2> QED BY <1>7, <2>1, <2>5, MovesKeepIntended
<1>10. Succeeding'
  <2>1. Len(ops) > 0 /\ ops[1].op = "setBus"
    BY <1>4, <1>5
  <2>2. Succeeds(agenda'[t], local'[t].result, pins')
    BY <1>7, <2>1, NewFirstSucceeds
  <2> QED BY <1>1, <1>7, <2>2, MovesKeepSucceeding
<1>11. Explained'
  <2> SUFFICES ASSUME NEW p \in Pins, NEW e \in Ports, pins[p].bus = e
               PROVE  \/ e \in initialized' /\ p \in {bus[e].sda, bus[e].scl}
                      \/ \E u \in Tasks : Clearing(agenda'[u], p, e)
    BY <1>1 DEF Explained
  <2>1. CASE e \in initialized /\ p \in {bus[e].sda, bus[e].scl} /\ e # b
    BY <1>1, <2>1
  <2>2. CASE p \in {bus[b].sda, bus[b].scl} /\ e = b
    <3>1. PICK i \in {1, 2} : i \in 1 .. Len(ops) /\ Clears(ops[i], p)
      BY <1>4, <1>5, <2>2
    <3>2. 3 \in 1 .. Len(ops) /\ i < 3
      BY <1>5, <3>1
    <3>3. \A m \in 1 .. Len(ops) : m \in 1 .. Len(agenda'[t]) /\ agenda'[t][m] = ops[m]
      BY <1>7, MovesWhere
    <3>4. /\ i \in 1 .. Len(agenda'[t]) /\ agenda'[t][i] = ops[i]
          /\ 3 \in 1 .. Len(agenda'[t]) /\ agenda'[t][3] = d
      BY <1>5, <3>1, <3>2, <3>3
    <3> QED BY <1>4, <2>2, <3>1, <3>2, <3>4 DEF Clearing
  <2>3. ASSUME NEW u \in Tasks, Clearing(agenda[u], p, e)
        PROVE  Clearing(agenda'[u], p, e)
    <3>1. ~Clears(Now(t), p)
      BY <1>2 DEF Clears
    <3> QED BY <1>7, <2>3, <3>1, MovesKeepClearing
  <2> QED BY <1>7, <2>1, <2>2, <2>3 DEF Explained
<1>12. Asked'
  <2>1. \A i \in 1 .. Len(ops) : ops[i].op # "assign"
    BY <1>4, <1>5, <1>6
  <2> SUFFICES ASSUME n.op = "assign"
               PROVE  AskedFor(agenda'[t], Len(ops) + 1, pins[n.pin].bus, initialized',
                               local'[t].result)
    BY <1>1, <1>7, <2>1, MovesKeepAsked
  <2>2. agenda'[t][3] = d
    <3>1. 3 \in 1 .. Len(ops)
      BY <1>5
    <3> QED BY <1>5, <1>7, <3>1, MovesWhere
  <2>3. pins[n.pin].bus \notin initialized'
    BY <1>1, <1>2, AskedNext DEF AskedFor, Skipped
  <2> QED BY <1>4, <1>5, <2>2, <2>3 DEF AskedFor
<1>13. Claimed'
  <2>1. \A e \in initialized' : \A p, r : Registers(e, p, r) => Registers(e, p, r)'
    BY <1>1 DEF Registers
  <2>2. \A e, r : ~WillClaim(Now(t), e, r)
    BY <1>2 DEF WillClaim, Registering
  <2>3. \A e \in initialized' : GivenUp(e) => GivenUp(e)'
    BY <1>1, <1>2, <1>7, MovesKeepGivenUp
  <2> QED BY <1>1, <1>7, <2>1, <2>2, <2>3, MovesKeepClaimed
<1> QED BY <1>8, <1>9, <1>10, <1>11, <1>12, <1>13 DEF Kept

(* A port is only started when none of the pins is the port's any more.     *)
LEMMA NoPinLeft ==
  ASSUME Inv, Keeping, NEW t \in Tasks, NEW what \in HalOps \ {"forget"}, Does(t, what),
         Now(t).b \in Ports \ initialized, NEW p \in Pins
  PROVE  pins[p].bus # Now(t).b
<1> SUFFICES ASSUME pins[p].bus = Now(t).b PROVE FALSE
  OBVIOUS
<1>1. PICK u \in Tasks : Clearing(agenda[u], p, Now(t).b)
  BY DEF Keeping, Explained
<1>2. Has(u, {"forget"}, Now(t).b)
  BY <1>1 DEF Clearing, Has, HasIn
<1> QED BY <1>2, OneInside DEF HalOps, Locked

LEMMA InstallKeeps ==
  ASSUME Inv, Keeping, Noted, NEW t \in Tasks, Install(t)
  PROVE  Kept
<1> DEFINE b == Now(t).b
           want == local[t].want
           a == SetPin(want.sda, "SDA", b)
           c == For("setScl", b)
           ops == <<a, c>>
           n == After(agenda[t], 1)
<1>1. /\ Does(t, "install") /\ Becomes(t, ops) /\ UNCHANGED <<pins, local>>
      /\ initialized' = initialized \cup {b} /\ bus' = [bus EXCEPT ![b] = want]
  BY DEF Install, unchangedPeriMan
<1>2. /\ ~Idle(t) /\ Now(t).op = "install" /\ Follows(Now(t), n) /\ b \in Ports
      /\ Means(Now(t), want, initialized, bus)
  BY <1>1, AtHand DEF PinOps
<1>3. b \notin initialized /\ want \in Wants[b]
  BY <1>2 DEF Means
<1>4. /\ a \in Operation /\ a.op = "setBus" /\ a.b = b /\ a.pin = want.sda /\ a.role = "SDA"
      /\ a.pin \in Pins
  <2>1. want.sda \in Pins /\ "SDA" \in BusTypes /\ b \in Buses
    BY <1>2, <1>3, WantedPins, I2cAssumption DEF BusTypes, OwnedTypes
  <2> QED BY <2>1, SetPinIs
<1>5. /\ c \in Operation /\ c.op = "setScl" /\ c.b = b /\ c = For("setScl", b)
  BY <1>2, ForIsOperation DEF OpNames, HalOps
<1>6. n.op \notin Ordered
  BY <1>2, ThenBegun DEF InitOps
<1> HIDE DEF a, c
<1>7. /\ Len(ops) = 2 /\ ops[1] = a /\ ops[2] = c /\ ops \in Seq(Operation)
  BY <1>4, <1>5
<1> HIDE DEF ops
<1>8. \A i \in 1 .. Len(ops) : i = 1 \/ i = 2
  BY <1>7
<1>9. /\ Types /\ Moves(t, ops) /\ initialized \subseteq Ports /\ bus \in [Ports -> BusPins]
      /\ Chained /\ Intended /\ Succeeding /\ Explained /\ Asked /\ Claimed
  BY <1>1, <1>2, <1>7 DEF Inv, Moves, Types, TypeOK, I2cTypeOK, Keeping, BusPins
<1>10. /\ \A e \in initialized : e # b /\ bus'[e] = bus[e]
       /\ bus'[b] = want /\ b \in initialized'
  BY <1>1, <1>2, <1>3, <1>9
<1>11. Chained'
  <2>1. Precedes(a, c)
    BY <1>4, <1>5 DEF Precedes, Registering
  <2>2. Precedes(c, n)
    BY <1>5, <1>6 DEF Precedes, Registering, Ordered
  <2>3. NextTo(agenda[t], ops, 1) = c /\ NextTo(agenda[t], ops, 2) = n
    BY <1>7 DEF NextTo
  <2>4. \A i \in 1 .. Len(ops) : Precedes(ops[i], NextTo(agenda[t], ops, i))
    BY <1>7, <1>8, <2>1, <2>2, <2>3
  <2> QED BY <1>9, <2>4, MovesKeepChained
<1>12. Intended'
  <2>1. ASSUME NEW u \in Tasks, NEW i \in 1 .. Len(agenda[u]), u = t => i > 1
        PROVE  Means(agenda[u][i], local'[u].want, initialized', bus')
    <3> DEFINE o == agenda[u][i]
    <3>1. Means(o, local[u].want, initialized, bus)
      BY <1>9 DEF Intended
    <3>2. o.b = b => o.op \notin HalOps \ Locked
      BY <1>1, <2>1, AloneInside DEF HalOps
    <3>3. o.b = b => o.op \notin {"clearScl", "install", "forget"}
      BY <3>2 DEF HalOps, Locked
    <3> HIDE DEF o, b
    <3> QED BY <1>1, <1>10, <3>1, <3>3 DEF Means, o
  <2>2. Means(a, local'[t].want, initialized', bus')
    BY <1>1, <1>4, <1>10 DEF Means, Registering, PinFor
  <2>3. Means(c, local'[t].want, initialized', bus')
    BY <1>1, <1>5, <1>10 DEF Means, Registering, PinOps
  <2>4. \A i \in 1 .. Len(ops) : Means(ops[i], local'[t].want, initialized', bus')
    BY <1>7, <1>8, <2>2, <2>3
  <2> QED BY <1>9, <2>1, <2>4, MovesKeepIntended
<1>13. Succeeding'
  <2>1. Len(ops) > 0 /\ ops[1].op = "setBus"
    BY <1>4, <1>7
  <2>2. Succeeds(agenda'[t], local'[t].result, pins')
    BY <1>9, <2>1, NewFirstSucceeds
  <2> QED BY <1>1, <1>9, <2>2, MovesKeepSucceeding
<1>14. Explained'
  <2> SUFFICES ASSUME NEW p \in Pins, NEW e \in Ports, pins[p].bus = e
               PROVE  \/ e \in initialized' /\ p \in {bus'[e].sda, bus'[e].scl}
                      \/ \E u \in Tasks : Clearing(agenda'[u], p, e)
    BY <1>1 DEF Explained
  <2>1. CASE e \in initialized /\ p \in {bus[e].sda, bus[e].scl}
    BY <1>1, <1>10, <2>1
  <2>2. ASSUME NEW u \in Tasks, Clearing(agenda[u], p, e)
        PROVE  Clearing(agenda'[u], p, e)
    <3>1. ~Clears(Now(t), p)
      BY <1>2 DEF Clears
    <3> QED BY <1>9, <2>2, <3>1, MovesKeepClearing
  <2> QED BY <1>9, <2>1, <2>2 DEF Explained
<1>15. Asked'
  <2>1. n.op # "assign" /\ \A i \in 1 .. Len(ops) : ops[i].op # "assign"
    BY <1>4, <1>5, <1>6, <1>7, <1>8 DEF Ordered
  <2>2. \A p \in Pins : pins[p].bus # b
    BY <1>1, <1>2, <1>3, NoPinLeft DEF HalOps
  <2>3. \A p \in Pins : pins[p].bus \in initialized' => pins[p].bus \in initialized
    BY <1>1, <2>2
  <2> QED BY <1>1, <1>9, <2>1, <2>3, MovesKeepAsked
<1>16. Claimed'
  <2> SUFFICES ASSUME NEW e \in initialized', NEW r \in {"SDA", "SCL"}
               PROVE  /\ bus'[e] \in Wants[e]
                      /\ \A p : p = PinFor(bus'[e], r) =>
                           \/ Registers(e, p, r)' \/ GivenUp(e)'
                           \/ \E u \in Tasks : \E i \in 1 .. Len(agenda'[u]) :
                                WillClaim(agenda'[u][i], e, r)
    BY DEF Claimed
  <2>1. CASE e \in initialized
    <3>1. bus'[e] = bus[e] /\ e \in Ports /\ bus[e] \in Wants[e]
      BY <1>9, <1>10, <2>1 DEF Claimed
    <3>2. PinFor(bus'[e], r) \in Pins
      BY <3>1, WantedPins DEF PinFor
    <3>3. \A p \in Pins : Registers(e, p, r) => Registers(e, p, r)'
      BY <1>1 DEF Registers
    <3>4. ~WillClaim(Now(t), e, r)
      BY <1>2 DEF WillClaim, Registering
    <3>5. GivenUp(e) => GivenUp(e)'
      BY <1>1, <1>2, <1>9, MovesKeepGivenUp
    <3> QED BY <1>9, <2>1, <3>1, <3>2, <3>3, <3>4, <3>5, MovesKeepClaim
  <2>2. CASE e = b
    <3>1. WillClaim(a, b, "SDA") /\ WillClaim(c, b, "SCL")
      BY <1>2, <1>4, <1>5 DEF WillClaim, Registering
    <3>2. \A i \in 1 .. Len(ops) : i \in 1 .. Len(agenda'[t]) /\ agenda'[t][i] = ops[i]
      BY <1>9, MovesWhere
    <3>3. 1 \in 1 .. Len(ops) /\ 2 \in 1 .. Len(ops)
      BY <1>7
    <3> QED BY <1>3, <1>7, <1>10, <2>2, <3>1, <3>2, <3>3
  <2> QED BY <1>1, <2>1, <2>2
<1> QED BY <1>11, <1>12, <1>13, <1>14, <1>15, <1>16 DEF Kept

-----------------------------------------------------------------------------
(* A pin gets its new owner. What an agenda that begins with an assignment  *)
(* has behind it: no callback that has not begun; and when the new owner is *)
(* a port, no other assignment.                                             *)
LEMMA NoStopBehind ==
  ASSUME Inv, Keeping, NEW t \in Tasks, Does(t, "assign"), NEW i \in 2 .. Len(agenda[t])
  PROVE  agenda[t][i].op \notin {"detach", "deinit"}
<1> DEFINE q == agenda[t]
<1>1. q[1].op = "assign" /\ Len(q) \in Nat
  BY AtHand
<1>2. ASSUME NEW j \in 2 .. Len(q)
      PROVE  \E m \in 1 .. Len(q) : /\ m = j - 1 /\ (m = 1 \/ m \in 2 .. Len(q))
                                    /\ Precedes(q[m], q[j]) /\ q[j].op # "lockWire"
  <2>1. j - 1 \in 1 .. Len(q) /\ After(q, j - 1) = q[j] /\ (j - 1 = 1 \/ j - 1 \in 2 .. Len(q))
    BY <1>1 DEF After
  <2>2. Precedes(q[j - 1], q[j]) /\ Follows(q[j - 1], q[j])
    BY <2>1 DEF Keeping, Chained, Inv, Shape, InOrder
  <2> QED BY <2>1, <2>2 DEF Follows
<1>3. ASSUME NEW j \in 2 .. Len(q) PROVE q[j].op # "lockHal"
  <2> SUFFICES ASSUME q[j].op = "lockHal" PROVE FALSE
    OBVIOUS
  <2>1. PICK m \in 1 .. Len(q) : (m = 1 \/ m \in 2 .. Len(q)) /\ q[m].op = "lockWire"
    BY <1>2 DEF Precedes
  <2> QED BY <1>1, <1>2, <2>1
<1>4. ASSUME NEW j \in 2 .. Len(q) PROVE q[j].op \notin {"unlockHal", "deinit"}
  <2> SUFFICES ASSUME q[j].op \in {"unlockHal", "deinit"} PROVE FALSE
    OBVIOUS
  <2>1. PICK m \in 1 .. Len(q) : (m = 1 \/ m \in 2 .. Len(q)) /\ q[m].op = "lockHal"
    BY <1>2 DEF Precedes
  <2> QED BY <1>1, <1>3, <2>1
<1>5. q[i].op # "detach"
  <2> SUFFICES ASSUME q[i].op = "detach" PROVE FALSE
    OBVIOUS
  <2>1. PICK m \in 1 .. Len(q) : (m = 1 \/ m \in 2 .. Len(q)) /\ q[m].op = "unlockHal"
    BY <1>2 DEF Precedes
  <2> QED BY <1>1, <1>4, <2>1
<1> QED BY <1>4, <1>5

LEMMA NoAssignBehind ==
  ASSUME Inv, Keeping, NEW t \in Tasks, Does(t, "assign"), Now(t).b \in Ports,
         NEW i \in 2 .. Len(agenda[t])
  PROVE  agenda[t][i].op # "assign"
<1> DEFINE q == agenda[t]
           b == Now(t).b
<1>1. Now(t) = q[1] /\ q[1].op = "assign" /\ Len(q) \in Nat /\ Precedes(q[1], After(q, 1))
  BY AtHand
<1>2. After(q, 1) = For("setScl", b) \/ After(q, 1) = For("registered", b)
  BY <1>1 DEF Precedes, Registering
<1>3. q[2].op \in {"setScl", "registered"} /\ 2 \in 1 .. Len(q)
  BY <1>1, <1>2 DEF After, For, Op, Nothing
<1>4. Follows(q[2], After(q, 2))
  BY <1>3 DEF Inv, Shape, InOrder
<1>5. After(q, 2).op = "begun"
  BY <1>3, <1>4 DEF Follows, InitOps, For, Op
<1>6. Len(q) > 2 /\ q[3].op = "begun" /\ 3 \in 1 .. Len(q)
  BY <1>1, <1>5 DEF After, For, Op, Nothing
<1>7. After(q, 3) = Nothing
  BY <1>6 DEF Inv, Shape, InOrder, Follows, LastOps
<1>8. ~(Len(q) > 3)
  <2> SUFFICES ASSUME Len(q) > 3 PROVE FALSE
    OBVIOUS
  <2>1. q[4] = Nothing /\ 4 \in 1 .. Len(q)
    BY <1>1, <1>7 DEF After
  <2>2. q \in Seq(Operation)
    BY DEF Inv, Types
  <2>3. q[4] \in Operation
    BY <2>1, <2>2
  <2>4. q[4].op \in OpNames
    BY <2>3 DEF Operation
  <2>5. "nothing" \notin OpNames
    BY DEF OpNames, PinOps, InitOps, HalOps, WireOps, Quitting
  <2> QED BY <2>1, <2>4, <2>5 DEF Nothing, For, Op
<1>9. i = 2 \/ i = 3
  <2>1. PICK m \in Nat : m = Len(q)
    BY <1>1
  <2>2. i \in 2 .. m /\ ~(m > 3)
    BY <1>8, <2>1
  <2> QED BY ONLY <2>2, m \in Nat
<1> QED BY <1>3, <1>6, <1>9

(* The owner has agreed, and the pin is overwritten.                        *)
LEMMA OverwritingKeeps ==
  ASSUME Inv, Keeping, Noted, NEW t \in Tasks, AssignPin(t), local[t].result
  PROVE  Kept
<1> DEFINE o == Now(t)
           q == agenda[t]
           r == agenda'[t]
           ops == <<>>
<1>1. Does(t, "assign") /\ Done(t) /\ UNCHANGED <<initialized, bus, local>>
  BY DEF AssignPin, unchangedHal, halVars
<1>2. /\ ~Idle(t) /\ o.op = "assign" /\ o = q[1] /\ Precedes(o, After(q, 1))
      /\ Means(o, local[t].want, initialized, bus)
      /\ Len(q) \in Nat \ {0} /\ 1 \in 1 .. Len(q)
  BY <1>1, AtHand
<1>3. /\ o.pin \in Pins
      /\ o.b \in Ports => /\ o.b \in initialized /\ o.pin = PinFor(bus[o.b], o.role)
                          /\ o.pin \in {bus[o.b].sda, bus[o.b].scl}
  BY <1>2 DEF Means, PinOps, Registering, PinFor
<1>4. /\ Types /\ initialized \subseteq Ports /\ Moves(t, ops) /\ Len(ops) = 0
      /\ ~Racing /\ Chained /\ Intended /\ Succeeding /\ Explained /\ Asked /\ Claimed
  BY <1>1, <1>2 DEF Inv, Moves, Done, Types, TypeOK, I2cTypeOK, Keeping
<1>5. /\ pins'[o.pin].bus = o.b /\ pins'[o.pin].type = o.role
      /\ \A x \in Pins \ {o.pin} : pins'[x] = pins[x]
  <2>1. Assign(o.pin, o.role, o.b)
    BY <1>2 DEF AssignPin
  <2>2. pins \in [Pins -> [type : BusTypes, bus : Buses \cup {NULL}, extra : Extras]]
    BY I2cAssumption DEF Inv, Types, TypeOK, I2cTypeOK, PeriManTypeOK
  <2> QED BY <1>3, <2>1, <2>2 DEF Assign
<1> HIDE DEF ops, o
<1>6. /\ \A i \in 1 .. Len(ops) : FALSE
      /\ \A j \in 2 .. Len(q) : j - 1 \in 1 .. Len(r) /\ r[j - 1] = q[j]
      /\ \A i \in 1 .. Len(r) : i + 1 \in 2 .. Len(q) /\ r[i] = q[i + 1]
      /\ \A u \in Tasks \ {t} : agenda'[u] = agenda[u]
      /\ Len(r) \in Nat
  <2>1. \A i \in 1 .. Len(ops) : FALSE
    BY <1>4
  <2>2. \A j \in 2 .. Len(q) : j - 1 \in 1 .. Len(r) /\ r[j - 1] = q[j]
    <3> SUFFICES ASSUME NEW j \in 2 .. Len(q) PROVE j - 1 \in 1 .. Len(r) /\ r[j - 1] = q[j]
      OBVIOUS
    <3>1. j + Len(ops) - 1 \in 1 .. Len(r) /\ r[j + Len(ops) - 1] = q[j]
      BY <1>4, MovesWhere
    <3>2. j + Len(ops) - 1 = j - 1
      BY <1>2, <1>4
    <3> QED BY <3>1, <3>2
  <2>3. ASSUME NEW i \in 1 .. Len(r)
        PROVE  i + 1 \in 2 .. Len(q) /\ r[i] = q[i + 1]
    <3>1. i - Len(ops) + 1 \in 2 .. Len(q) /\ Len(r) \in Nat
      BY <1>4, <2>1, MovesWhere
    <3>2. i + 1 \in 2 .. Len(q) /\ (i + 1) - 1 = i
      BY <1>4, <3>1
    <3> QED BY <2>2, <3>2
  <2> QED BY <1>4, <2>1, <2>2, <2>3, MovesWhere
<1>7. pins[o.pin].bus \notin initialized
  <2>1. AskedFor(q, 1, pins[o.pin].bus, initialized, local[t].result)
    BY <1>2, <1>4 DEF Asked
  <2> QED BY <2>1 DEF AskedFor, Skipped
<1>8. \A x \in Pins : Clears(o, x) => x = o.pin
  BY DEF Clears
<1>0. ASSUME NEW u \in Tasks \ {t}, NEW j \in 1 .. Len(agenda[u]), agenda[u][j].op = "assign"
      PROVE  pins'[agenda[u][j].pin] = pins[agenda[u][j].pin]
  <2>1. agenda[u][j].pin \in Pins
    BY <1>0, <1>4 DEF Intended, Means, PinOps
  <2>2. agenda[u][j].pin # o.pin
    BY <1>0, <1>2, <1>3, <1>4, <2>1 DEF Racing, Changes
  <2> QED BY <1>5, <2>1, <2>2
<1>9. Chained'
  BY <1>4, <1>6, MovesKeepChained
<1>10. Intended'
  BY <1>1, <1>4, <1>6, MovesKeepMeaning
<1>11. Succeeding'
  <2>1. Succeeds(agenda'[t], local'[t].result, pins')
    <3>1. Moves(t, <<>>)
      BY <1>4 DEF ops
    <3>2. Now(t).op \notin {"lockHal", "lockWire"} /\ local'[t].result
      BY <1>1, <1>2 DEF o
    <3> QED BY <1>2, <1>4, <3>1, <3>2, OldFirstSucceeds
  <2>2. ASSUME NEW u \in Tasks \ {t}
        PROVE  Succeeds(agenda[u], local[u].result, pins')
    <3>1. Succeeds(agenda[u], local[u].result, pins) /\ Len(agenda[u]) \in Nat
      BY <1>4 DEF Succeeding, Types
    <3>2. After(agenda[u], 1).op = "assign" =>
            2 \in 1 .. Len(agenda[u]) /\ After(agenda[u], 1) = agenda[u][2]
      BY <3>1 DEF After, Nothing, For, Op
    <3>3. After(agenda[u], 1).op = "assign" =>
            pins'[After(agenda[u], 1).pin] = pins[After(agenda[u], 1).pin]
      BY <1>0, <3>2
    <3>4. Len(agenda[u]) > 0 /\ agenda[u][1].op = "assign" =>
            pins'[agenda[u][1].pin] = pins[agenda[u][1].pin]
      BY <1>0, <3>1
    <3> QED BY <3>1, <3>3, <3>4 DEF Succeeds
  <2> QED BY <1>1, <1>6, <2>1, <2>2 DEF Succeeding
<1>12. Explained'
  <2> SUFFICES ASSUME NEW x \in Pins, pins'[x].bus \in Ports
               PROVE  \/ /\ pins'[x].bus \in initialized
                         /\ x \in {bus[pins'[x].bus].sda, bus[pins'[x].bus].scl}
                      \/ \E u \in Tasks : Clearing(agenda'[u], x, pins'[x].bus)
    BY <1>1 DEF Explained
  <2>1. CASE x = o.pin
    BY <1>3, <1>5, <2>1
  <2>2. CASE x # o.pin
    <3>1. pins'[x] = pins[x] /\ ~Clears(o, x)
      BY <1>5, <1>8, <2>2
    <3>2. CASE pins[x].bus \in initialized /\ x \in {bus[pins[x].bus].sda, bus[pins[x].bus].scl}
      BY <3>1, <3>2
    <3>3. ASSUME NEW u \in Tasks, Clearing(agenda[u], x, pins[x].bus)
          PROVE  Clearing(agenda'[u], x, pins[x].bus)
      BY <1>4, <3>1, <3>3, MovesKeepClearing DEF o
    <3> QED BY <1>4, <3>1, <3>2, <3>3 DEF Explained
  <2> QED BY <2>1, <2>2
<1>13. Asked'
  <2>1. ASSUME NEW u \in Tasks \ {t}, NEW j \in 1 .. Len(agenda[u]), agenda[u][j].op = "assign"
        PROVE  AskedFor(agenda[u], j, pins'[agenda[u][j].pin].bus, initialized, local[u].result)
    BY <1>0, <1>4, <2>1 DEF Asked
  <2>2. ASSUME NEW i \in 1 .. Len(r), r[i].op = "assign"
        PROVE  AskedFor(r, i, pins'[r[i].pin].bus, initialized, local[t].result)
    <3>1. PICK j \in 2 .. Len(q) : j = i + 1 /\ r[i] = q[j] /\ j \in 1 .. Len(q) /\ j - 1 = i
      <4>1. i + 1 \in 2 .. Len(q) /\ r[i] = q[i + 1] /\ (i + 1) - 1 = i /\ i + 1 \in 1 .. Len(q)
        BY <1>2, <1>6
      <4> QED BY <4>1
    <3>2. /\ q[j].pin \in Pins /\ o.b \notin Ports
          /\ AskedFor(q, j, pins[q[j].pin].bus, initialized, local[t].result)
      <4>1. q[j].pin \in Pins
        BY <1>4, <2>2, <3>1 DEF Intended, Means, PinOps
      <4>2. o.b \notin Ports
        BY <1>1, <2>2, <3>1, NoAssignBehind DEF o
      <4> QED BY <1>4, <2>2, <3>1, <4>1, <4>2 DEF Asked
    <3>3. i > 1 => r[i - 1] = q[i] /\ i \in 2 .. Len(q)
      <4> SUFFICES ASSUME i > 1 PROVE r[i - 1] = q[i] /\ i \in 2 .. Len(q)
        OBVIOUS
      <4>1. i - 1 \in 1 .. Len(r) /\ (i - 1) + 1 = i
        BY <1>6
      <4> QED BY <1>6, <4>1
    <3>4. i > 1 => r[i - 1].op \notin {"detach", "deinit"}
      BY <1>1, <3>3, NoStopBehind
    <3>5. ASSUME pins'[r[i].pin].bus \in initialized
          PROVE  i > 1 /\ r[i - 1].op \in Stops /\ r[i - 1].b = pins'[r[i].pin].bus
      <4>1. q[j].pin # o.pin
        BY <1>4, <1>5, <3>1, <3>2, <3>5
      <4>2. pins'[r[i].pin] = pins[q[j].pin]
        BY <1>5, <3>1, <3>2, <4>1
      <4>3. q[i].op \in Stops /\ q[i].b = pins[q[j].pin].bus
        BY <3>1, <3>2, <3>5, <4>2 DEF AskedFor, Skipped
      <4>4. i # 1
        BY <1>2, <4>3 DEF Stops
      <4> QED BY <3>3, <4>2, <4>3, <4>4
    <3> QED BY <3>4, <3>5 DEF AskedFor
  <2> QED BY <1>1, <1>6, <2>1, <2>2 DEF Asked
<1>14. Claimed'
  <2> SUFFICES ASSUME NEW b \in initialized, NEW role \in {"SDA", "SCL"}
               PROVE  /\ bus'[b] \in Wants[b]
                      /\ \A p : p = PinFor(bus'[b], role) =>
                           \/ Registers(b, p, role)' \/ GivenUp(b)'
                           \/ \E u \in Tasks : \E i \in 1 .. Len(agenda'[u]) :
                                WillClaim(agenda'[u][i], b, role)
    BY <1>1 DEF Claimed
  <2>1. bus'[b] = bus[b] /\ bus[b] \in Wants[b] /\ b \in Ports
    BY <1>1, <1>4 DEF Claimed
  <2>2. PinFor(bus'[b], role) \in Pins
    BY <2>1, WantedPins DEF PinFor
  <2>3. \A p \in Pins : Registers(b, p, role) => Registers(b, p, role)'
    BY <1>5, <1>7 DEF Registers
  <2>4. WillClaim(o, b, role) => \A p \in Pins : p = PinFor(bus[b], role) => Registers(b, p, role)'
    <3> SUFFICES ASSUME WillClaim(o, b, role)
                 PROVE  \A p \in Pins : p = PinFor(bus[b], role) => Registers(b, p, role)'
      OBVIOUS
    <3>1. o.b = b /\ o.role = role
      BY <1>2 DEF WillClaim
    <3>2. o.pin = PinFor(bus[b], role)
      BY <1>3, <2>1, <3>1
    <3> QED BY <1>5, <3>1, <3>2 DEF Registers
  <2>5. GivenUp(b) => GivenUp(b)'
    <3>1. b \in initialized' /\ \A u \in Tasks \ {t} : local'[u] = local[u]
      BY <1>1
    <3> QED BY <1>2, <1>4, <3>1, MovesKeepGivenUp DEF o
  <2> QED BY <1>4, <2>1, <2>2, <2>3, <2>4, <2>5, MovesKeepClaim DEF o
<1> QED BY <1>9, <1>10, <1>11, <1>12, <1>13, <1>14 DEF Kept

(* The owner has refused, and the pin stays with it.                        *)
LEMMA RefusedKeeps ==
  ASSUME Inv, Keeping, Noted, NEW t \in Tasks, AssignPin(t), ~local[t].result
  PROVE  Kept
<1> DEFINE o == Now(t)
           n == After(agenda[t], 1)
<1>1. Does(t, "assign") /\ Done(t) /\ UNCHANGED <<pins, initialized, bus, local>>
  BY DEF AssignPin, unchangedHal, halVars
<1>2. /\ ~Idle(t) /\ o.op = "assign" /\ o = agenda[t][1] /\ Len(agenda[t]) > 0 /\ Precedes(o, n)
      /\ Succeeds(agenda[t], local[t].result, pins)
  BY <1>1, AtHand
<1>3. ASSUME NEW p \in Pins, Clears(o, p), Has(t, {"forget"}, pins[p].bus)
      PROVE  FALSE
  BY <1>2, <1>3 DEF Succeeds, Spared, Has, Clears
<1>4. ASSUME NEW b \in initialized, NEW r \in {"SDA", "SCL"}, WillClaim(o, b, r)
      PROVE  GivenUp(b)'
  <2>1. o.b = b /\ Registering(o)
    BY <1>2, <1>4 DEF WillClaim
  <2>2. (n.op = "setScl" \/ n.op = "registered") /\ n.b = b
    BY <1>2, <2>1 DEF Precedes, For, Op
  <2>3. 2 \in 1 .. Len(agenda[t]) /\ n = agenda[t][2] /\ Types
    BY <1>2, <2>2 DEF After, Nothing, For, Op, Inv, Types
  <2>4. Moves(t, <<>>) /\ Len(<<>>) = 0
    BY <1>1, <1>2 DEF Moves, Done
  <2>5. 2 + 0 - 1 \in 1 .. Len(agenda'[t]) /\ agenda'[t][2 + 0 - 1] = n
    <3>1. 2 \in 2 .. Len(agenda[t])
      BY <2>3
    <3> QED BY <2>3, <2>4, <3>1, MovesWhere
  <2>6. agenda'[t] # <<>> /\ agenda'[t][1] = n
    BY <2>5
  <2> QED BY <1>1, <2>2, <2>6 DEF GivenUp, Does, Idle, Now
<1>5. n.op # "assign"
  BY <1>2 DEF Precedes, Stops
<1>6. Undisturbed(t)
  BY <1>1 DEF Undisturbed
<1> QED BY <1>1, <1>2, <1>3, <1>4, <1>5, <1>6, DropStep

LEMMA AssignPinKeeps ==
  ASSUME Inv, Keeping, Noted, NEW t \in Tasks, AssignPin(t)
  PROVE  Kept
BY OverwritingKeeps, RefusedKeeps

-----------------------------------------------------------------------------
LEMMA I2cStepKeeps ==
  ASSUME Inv, Keeping, Noted, NEW t \in Tasks, I2cStep(t)
  PROVE  Kept
<1>1. CASE Lock(t)
  BY <1>1, LockKeeps
<1>2. CASE Unlock(t)
  BY <1>2, UnlockKeeps
<1>3. CASE SetBus(t)
  BY <1>3, SetBusKeeps
<1>4. CASE AssignPin(t)
  BY <1>4, AssignPinKeeps
<1>5. CASE DetachBus(t)
  BY <1>5, DetachBusKeeps
<1>6. CASE DeleteDriver(t)
  BY <1>6, DeleteDriverKeeps
<1>7. CASE Uninitialize(t)
  BY <1>7, UninitializeKeeps
<1>8. CASE ForgetPins(t)
  BY <1>8, ForgetPinsKeeps
<1>9. CASE InitStart(t)
  BY <1>9, InitStartKeeps
<1>10. CASE ClearScl(t)
  BY <1>10, ClearSclKeeps
<1>11. CASE Install(t)
  BY <1>11, InstallKeeps
<1>12. CASE NotInstalled(t)
  BY <1>12, NotInstalledKeeps
<1>13. CASE SetScl(t)
  BY <1>13, SetSclKeeps
<1>14. CASE Registered(t)
  BY <1>14, RegisteredKeeps
<1>15. CASE Fail(t)
  BY <1>15, FailKeeps
<1>16. CASE StartTransfer(t) \/ EndTransfer(t)
  BY <1>16, TransferKeeps
<1>17. CASE ClaimCleared(t)
  BY <1>17, ClaimClearedKeeps
<1>18. CASE DeleteFails(t)
  BY <1>18, DeleteFailsKeeps
<1> QED BY <1>1, <1>2, <1>3, <1>4, <1>5, <1>6, <1>7, <1>8, <1>9, <1>10, <1>11, <1>12, <1>13,
           <1>14, <1>15, <1>16, <1>17, <1>18 DEF I2cStep

LEMMA WireStepKeeps ==
  ASSUME Inv, Keeping, Noted, NEW t \in Tasks, WireStep(t)
  PROVE  Kept
<1>1. CASE Begin(t)
  BY <1>1, BeginKeeps
<1>2. CASE Begun(t)
  BY <1>2, BegunKeeps
<1>3. CASE End(t)
  BY <1>3, EndKeeps
<1>4. CASE FreeWireBuffer(t)
  BY <1>4, FreeWireBufferKeeps
<1>5. CASE BeginTransmission(t)
  BY <1>5, BeginTransmissionKeeps
<1>6. CASE RequestFrom(t)
  BY <1>6, RequestFromKeeps
<1>7. CASE RequestFromAnother(t)
  BY <1>7, RequestFromAnotherKeeps
<1>8. CASE Finish(t)
  BY <1>8, FinishKeeps
<1> QED BY <1>1, <1>2, <1>3, <1>4, <1>5, <1>6, <1>7, <1>8 DEF WireStep

LEMMA IdlingKeeps ==
  ASSUME Keeping, UNCHANGED <<pins, initialized, bus, agenda, local>>,
         \A b \in initialized : b \in halfStarted => b \in halfStarted'
  PROVE  Kept
<1>1. Chained' /\ Intended' /\ Succeeding' /\ Explained' /\ Asked' 
  BY DEF Keeping, Chained, Intended, Succeeding, Explained, Asked
<1>2. ASSUME NEW b \in initialized, GivenUp(b) PROVE GivenUp(b)'
  BY <1>2 DEF GivenUp, Undoes, Does, Idle, Now
<1>3. Claimed'
  BY <1>2 DEF Keeping, Claimed, Registers
<1> QED BY <1>1, <1>3 DEF Kept

LEMMA RequestKeeps ==
  ASSUME Inv, Keeping, Noted, NEW t \in Tasks, Request(t)
  PROVE  Kept
<1>1. CASE CallBegin(t)
  BY <1>1, CallBeginKeeps
<1>2. CASE CallEnd(t)
  BY <1>2, CallEndKeeps
<1>3. CASE CallSetClock(t)
  BY <1>3, CallSetClockKeeps
<1>4. CASE CallClaim(t)
  BY <1>4, CallClaimKeeps
<1>5. CASE CallBeginTransmission(t) \/ CallRequestFrom(t)
  BY <1>5, TalkCallsKeep
<1>6. CASE EndTransmission(t)
  BY <1>6, EndTransmissionKeeps
<1>7. CASE Write(t) \/ EndTransmissionFails(t) \/ EndTransmissionNonStop(t)
  <2>1. UNCHANGED <<pins, initialized, bus, agenda, local>>
    BY <1>7 DEF Write, EndTransmissionFails, EndTransmissionNonStop, Instantly, i2cVars, halVars
  <2> QED BY <2>1, IdlingKeeps DEF Noted
<1> QED BY <1>1, <1>2, <1>3, <1>4, <1>5, <1>6, <1>7 DEF Request

LEMMA InitEstablishesOwnInv ==
  ASSUME Init
  PROVE  OwnInv
<1>1. /\ agenda = [t \in Tasks |-> <<>>] /\ initialized = {}
      /\ pins = [p \in ValidPins |-> Unassigned] /\ Inv
  BY InitEstablishesInv DEF Init, I2cInit
<1>2. \A t \in Tasks : Len(agenda[t]) = 0 /\ \A i \in 1 .. Len(agenda[t]) : FALSE
  BY <1>1
<1>3. ~Racing /\ Chained /\ Intended /\ Succeeding /\ Asked
  BY <1>2 DEF Racing, Changes, Chained, Intended, Succeeding, Succeeds, Asked
<1>4. Explained
  BY <1>1, I2cAssumption, NullAssumption DEF Explained, Unassigned
<1>5. Claimed
  BY <1>1 DEF Claimed
<1> QED BY <1>1, <1>3, <1>4, <1>5 DEF OwnInv, Keeping

LEMMA StepKeepsOwnInv ==
  ASSUME OwnInv, [Next]_vars
  PROVE  OwnInv'
<1>1. Inv'
  BY NextKeepsInv, StutteringKeepsInv DEF OwnInv
<1> SUFFICES ASSUME ~raced' PROVE Keeping'
  BY <1>1 DEF OwnInv
<1>2. CASE Next
  <2>1. ~raced /\ ~Racing'
    BY <1>2 DEF Next
  <2>2. Inv /\ Keeping
    BY <2>1 DEF OwnInv
  <2>3. PICK t \in Tasks : I2cStep(t) \/ WireStep(t) \/ Request(t)
    BY <1>2 DEF Next
  <2>4. Noted
    BY <1>2 DEF Next, Noted
  <2>5. Kept
    BY <2>2, <2>3, <2>4, I2cStepKeeps, WireStepKeeps, RequestKeeps
  <2> QED BY <2>1, <2>5 DEF Kept, Keeping
<1>3. CASE UNCHANGED vars
  <2>1. UNCHANGED <<pins, initialized, bus, agenda, local, raced, halfStarted>>
    BY <1>3 DEF vars, i2cVars, halVars
  <2>2. Keeping
    BY <2>1 DEF OwnInv
  <2>3. Kept
    BY <2>1, <2>2, IdlingKeeps
  <2>4. ~Racing'
    BY <2>1, <2>2 DEF Keeping, Racing, Changes
  <2> QED BY <2>3, <2>4 DEF Kept, Keeping
<1> QED BY <1>2, <1>3

(* Nobody is inside a port whose lock is free.                              *)
LEMMA NobodyInside ==
  ASSUME Inv, NEW u \in Tasks, NEW i \in 1 .. Len(agenda[u]),
         lock[Hal(agenda[u][i].b)] = "free"
  PROVE  agenda[u][i].op \notin HalOps \ Locked
<1> DEFINE q == agenda[u]
<1> SUFFICES ASSUME q[i].op \in HalOps \ Locked PROVE FALSE
  OBVIOUS
<1>1. Len(q) \in Nat
  BY DEF Inv, Types
<1>2. i > 1 => i - 1 \in 1 .. Len(q) /\ After(q, i - 1) = q[i]
  BY <1>1 DEF After
<1>3. i > 1 => Follows(q[i - 1], q[i])
  BY <1>2 DEF Inv, Shape, InOrder
<1>4. Open(q, i)
  BY <1>3 DEF Open, Follows
<1> QED BY <1>4, WireAssumption DEF Inv, HalHeld

LEMMA OwnersOwn ==
  ASSUME OwnInv
  PROVE  StartedPortOwnsItsPins
<1> SUFFICES ASSUME NEW b \in Ports, lock[Hal(b)] = "free", Inv, Keeping
             PROVE  /\ b \in initialized => \/ /\ Registers(b, bus[b].sda, "SDA")
                                               /\ Registers(b, bus[b].scl, "SCL")
                                            \/ b \in halfStarted \/ \E t \in Tasks : Undoes(t, b)
                    /\ b \notin initialized => \A p \in Pins : pins[p].bus # b
  BY DEF OwnInv, StartedPortOwnsItsPins
<1>1. \A u \in Tasks : \A i \in 1 .. Len(agenda[u]) : agenda[u][i].b = b =>
        agenda[u][i].op \notin {"setScl", "registered", "forget"}
  BY NobodyInside DEF HalOps, Locked
<1>2. ASSUME b \in initialized, ~(b \in halfStarted \/ \E t \in Tasks : Undoes(t, b)),
             NEW r \in {"SDA", "SCL"}
      PROVE  Registers(b, PinFor(bus[b], r), r)
  <2> SUFFICES ASSUME NEW u \in Tasks, NEW i \in 1 .. Len(agenda[u]), WillClaim(agenda[u][i], b, r)
               PROVE  FALSE
    <3>1. ~GivenUp(b)
      <4> SUFFICES ASSUME NEW t \in Tasks, Does(t, "setScl") \/ Does(t, "registered"), Now(t).b = b
                   PROVE  FALSE
        BY <1>2 DEF GivenUp
      <4>1. 1 \in 1 .. Len(agenda[t]) /\ Now(t) = agenda[t][1]
        BY DEF Inv, Types, Does, Idle, Now
      <4> QED BY <1>1, <4>1 DEF Does
    <3> QED BY <1>2, <3>1 DEF Keeping, Claimed
  <2> DEFINE q == agenda[u]
  <2>1. q[i].b = b /\ Registering(q[i])
    BY <1>1 DEF WillClaim
  <2>2. After(q, i) = For("setScl", b) \/ After(q, i) = For("registered", b)
    BY <2>1 DEF Keeping, Chained, Precedes
  <2>3. After(q, i).op \in {"setScl", "registered"} /\ After(q, i).b = b
    BY <2>2 DEF For, Op
  <2>4. i < Len(q) /\ After(q, i) = q[i + 1]
    BY <2>3 DEF After, Nothing, For, Op
  <2>5. Len(q) \in Nat
    BY DEF Inv, Types
  <2>6. i + 1 \in 1 .. Len(q)
    BY <2>4, <2>5
  <2> QED BY <1>1, <2>3, <2>4, <2>6
<1>3. ASSUME b \notin initialized, NEW p \in Pins PROVE pins[p].bus # b
  <2> SUFFICES ASSUME pins[p].bus = b PROVE FALSE
    OBVIOUS
  <2>1. PICK u \in Tasks : Clearing(agenda[u], p, b)
    BY <1>3 DEF Keeping, Explained
  <2> QED BY <1>1, <2>1 DEF Clearing
<1> QED BY <1>2, <1>3 DEF PinFor

(* perimanSetPinBus() has no lock, and what a pin's owner does about its    *)
(* release is left to the callback. Still a started port has its two pins   *)
(* registered, and an ended one has none, whenever nobody holds its lock    *)
(* and no two tasks have changed one pin at a time; a start that failed is  *)
(* excepted until it is undone, or for good if the driver was not deleted.  *)
THEOREM PortsOwnTheirPins == Spec => []StartedPortOwnsItsPins
<1>1. Init => OwnInv
  BY InitEstablishesOwnInv
<1>2. OwnInv /\ [Next]_vars => OwnInv'
  BY StepKeepsOwnInv
<1>3. OwnInv => StartedPortOwnsItsPins
  BY OwnersOwn
<1> QED BY <1>1, <1>2, <1>3, PTL DEF Spec
=============================================================================
