--------------------------- MODULE UartPinsProofs ---------------------------
(***************************************************************************)
(* One task attaches, moves, mutes and releases the pins of the UARTs: for  *)
(* every board, every default pin, every sequence of begin(), setPins(),    *)
(* end() and claims of another driver, and every refusal of the IDF, the    *)
(* drivers and the Peripheral Manager agree again when the call is over.    *)
(*                                                                          *)
(* In the middle of a call they disagree, in a way that depends on what the *)
(* task still has to do.  The invariant therefore speaks of the agenda:     *)
(*   InOrder   what may come before what, and directly before what: a pin   *)
(*             is attached after the pins it displaces are released, the    *)
(*             callbacks are restored after the last attach, ...;           *)
(*   Ready     what a step that assigns a pin finds: a pin nobody owns;     *)
(*   Known     a UART knows the pin it owns, or the next step settles it;   *)
(*   Told      the owner's callback is in force, or muted by a task that    *)
(*             still has to restore it, or about to be registered;          *)
(*   Released  before a UART gets a pin for a role it gives up the old one. *)
(* Released is what keeps the last write to _rxPin from stranding a pin in  *)
(* the manager; it needs InOrder, which is why setPins() works in two loops *)
(* (esp32-hal-uart.c:820-860), one that releases and one that attaches.     *)
(*                                                                          *)
(* A turn of a task replaces the first operation of its agenda by others.   *)
(* Turn and Replaced say so, and for each part of the invariant a lemma     *)
(* (OrderStays, ReadyStays, ...) says when a turn keeps it; then there is a *)
(* lemma for every action.  With two tasks the parts do not hold: each may  *)
(* mute, take or release in the middle of the other's call.                 *)
(*                                                                          *)
(* The other direction, that a UART owns every pin it believes to have,     *)
(* holds from where every UART has begun, and at every moment (Owned). It   *)
(* needs more of the agenda: Lined, Vacated and Apart, defined after the    *)
(* first theorems, and a second lemma for every action.                     *)
(*                                                                          *)
(* That a working driver is never ended is about what a call was asked for  *)
(* and what the pins were when it began, which KeptInv carries along the    *)
(* agenda: the third part, with a third lemma for every action.             *)
(***************************************************************************)
EXTENDS UartPins, SequenceTheorems, TLAPS

-----------------------------------------------------------------------------
(* The operations, by what they lead to.                                    *)
Attaching == {"attachIf", "attach", "connect", "note"}
Releasing == {"release", "releaseOld"}
Saving    == {"saveDeinits", "mute"}
Starting  == {"begin", "testBegin", "uartBegin", "move", "moved", "install",
              "installed", "setPins"}
Setting   == {"setBus", "assign"}
Plain     == {"lock", "unlock", "lockSerial", "unlockSerial", "true", "and", "end",
              "detachAll", "delete", "plan", "collect", "restore", "terminate",
              "driverInstall", "started", "register", "return"}
OpNames == Attaching \cup Releasing \cup Saving \cup Starting \cup Setting \cup Plain
             \cup {"callback", "detach"}

Ops == [op : OpNames, u : Buses \cup {NULL}, role : BusTypes, pin : Pins \cup {NoPin}]

(* The arguments an operation is called with.                               *)
Sound(o) ==
  /\ o.op \in Attaching \cup Releasing \cup {"detach", "move"} => o.u \in Uarts /\ o.role \in RoleSet
  /\ o.op \in {"attach", "connect", "note", "releaseOld"} \cup Setting => o.pin \in Pins
  /\ o.op \in Setting =>
       \/ o.role = "INIT" /\ o.u = NULL
       \/ o.role = "I2C" /\ o.u = Foreign
       \/ o.role \in RoleSet /\ o.u \in Uarts
  /\ o.op = "callback" => (o.role \in RoleSet /\ o.u \in Uarts) \/ o.role = "I2C"
  /\ o.op \in Saving \cup Starting \cup (Plain \ {"return", "and"}) => o.u \in Uarts

Operation == {o \in Ops : Sound(o)}

Local == [fn : {"none", "begin", "setPins", "end", "claim"}, u : Uarts \cup {NULL},
          want : [RoleSet -> Pins \cup {NoPin}], attach : SUBSET RoleSet,
          victims : SUBSET Uarts, muted : SUBSET RoleSet,
          had : [Uarts -> [RoleSet -> Pins \cup {NoPin}]], ok : BOOLEAN, result : BOOLEAN]

Assigned(p) == pins[p].type \in RoleSet

(* The variables' types.  A pin belongs to a UART, by a role, to the other  *)
(* driver or to nobody.                                                     *)
Types ==
  /\ TypeOK
  /\ agenda \in [Tasks -> Seq(Operation)]
  /\ local \in [Tasks -> Local]
  /\ \A p \in Pins :
       \/ pins[p] = Unassigned
       \/ pins[p].type = "I2C" /\ pins[p].bus = Foreign
       \/ pins[p].type \in RoleSet /\ pins[p].bus \in Uarts

(* Whether x may stand anywhere before y in an agenda, and directly before. *)
MayPrecede(x, y) ==
  /\ x.op # "return"
  /\ x.op \in Starting \cup Saving \cup {"plan"} => y.op \notin Attaching \cup Releasing
  /\ x.op \in Starting => y.op # "restore"
  /\ x.op \in Attaching \cup Releasing \cup Starting \cup {"plan", "restore", "mute"} =>
       y.op \notin Saving
  /\ x.op \in Attaching => y.op \notin Releasing /\ (y.op \in Attaching => x.role # y.role)
  /\ x.op = "saveDeinits" => y.op # "saveDeinits"

Follows(x, y) ==
  /\ y.op # "callback"
  /\ y.op \in Setting => y.role \notin RoleSet
  /\ y.op \in {"connect", "note"} => x.op \in Setting /\ x.pin = y.pin
  /\ y.op = "connect" => x.role = "INIT"
  /\ y.op = "note" => x.role = y.role /\ x.u = y.u
  /\ y.op = "mute" => x.op = "saveDeinits"

InOrder(q) ==
  /\ \A i, j \in 1 .. Len(q) : i < j => MayPrecede(q[i], q[j])
  /\ \A i \in 2 .. Len(q) : Follows(q[i - 1], q[i])

Has(t, what) == \E i \in 1 .. Len(agenda[t]) : agenda[t][i].op \in what

Ready(t) == ~Idle(t) =>
  LET o == Now(t)
  IN /\ o.op = "connect" /\ local[t].result => pins[o.pin] = Unassigned
     /\ o.op \in Setting /\ o.role \in RoleSet =>
          /\ pins[o.pin] = Unassigned /\ (o.op = "assign" => local[t].result)
          /\ Len(agenda[t]) > 1 /\ agenda[t][2] = [o EXCEPT !.op = "note"]
     /\ o.op = "note" => /\ local[t].result
                         /\ pins[o.pin].type = o.role /\ pins[o.pin].bus = o.u

(* The next step of t is part of a call that gives p to its UART or takes   *)
(* it away.                                                                 *)
OnItsWay(t, p) == ~Idle(t) /\
  LET o == Now(t)
      u == pins[p].bus
      r == pins[p].type
  IN \/ o.op = "setBus" /\ o.role = "INIT" /\ o.pin = p /\ uart[u][r] = NoPin
     \/ /\ o.op = "callback" /\ o.u = u /\ o.role = r /\ uart[u][r] = NoPin
        /\ Len(agenda[t]) > 1 /\ agenda[t][2] = [ClearPin(p) EXCEPT !.op = "assign"]
     \/ o.op = "assign" /\ o.role = "INIT" /\ o.pin = p /\ local[t].result
     \/ o.op = "note" /\ o.pin = p

Known(t) == \A p \in Pins : Assigned(p) =>
  uart[pins[p].bus][pins[p].type] = p \/ OnItsWay(t, p)

(* The callbacks are muted; t will restore them.                            *)
Muting(t) == Has(t, {"restore"}) /\ ~Has(t, Saving)

Told(t) ==
  /\ \A p \in Pins : Assigned(p) =>
       LET r == pins[p].type
       IN \/ deinit_functions[r] = "driver"
          \/ deinit_functions[r] = "empty" /\ r \in local[t].muted /\ Muting(t)
          \/ Does(t, "note") /\ Now(t).pin = p
  /\ Has(t, Saving) => Has(t, {"restore"})
  /\ Does(t, "mute") => \A p \in Pins : Assigned(p) => pins[p].type \in local[t].muted

(* Operation o attaches a pin for a role.  The UART has no other pin for    *)
(* that role any more, or will have given it up by then.                    *)
Given(o) == LET q == uart[o.u][o.role]
            IN q \in {NoPin, o.pin} \/ pins[q].type # o.role \/ pins[q].bus # o.u

Awaits(t, o) == \E k \in 1 .. Len(agenda[t]) :
  LET x == agenda[t][k]
  IN x.op \in Releasing /\ x.u = o.u /\ x.role = o.role /\ x.pin = o.pin

Freeing(t, o) ==
  /\ Now(t).op = "detach" /\ Now(t).u = o.u /\ Now(t).role = o.role
  /\ Now(t).pin = uart[o.u][o.role]

Covered(t, o) == Given(o) \/ Awaits(t, o) \/ Freeing(t, o)

Released(t) == \A i \in 1 .. Len(agenda[t]) :
  agenda[t][i].op \in Attaching /\ agenda[t][i].pin # NoPin => Covered(t, agenda[t][i])

Good(t) == InOrder(agenda[t]) /\ Ready(t) /\ Known(t) /\ Told(t) /\ Released(t)

Inv == Types /\ \A t \in Tasks : Good(t)

(* The theorems are about sketches that use their UARTs from one task.      *)
OneTask == \E t : Tasks = {t}

-----------------------------------------------------------------------------
(* Agenda r is agenda q with its first operation replaced by ops.           *)
Replaced(q, ops, r) ==
  /\ Len(q) \in Nat \ {0} /\ Len(ops) \in Nat /\ Len(r) = Len(ops) + Len(q) - 1
  /\ \A i \in 1 .. Len(ops) : r[i] = ops[i]
  /\ \A i \in Len(ops) + 1 .. Len(r) : r[i] = q[i - Len(ops) + 1]

LEMMA WhereFrom ==
  ASSUME NEW q, NEW ops, NEW r, Replaced(q, ops, r), NEW i \in 1 .. Len(r)
  PROVE  \/ i \in 1 .. Len(ops) /\ r[i] = ops[i]
         \/ /\ i > Len(ops) /\ i - Len(ops) + 1 \in 2 .. Len(q)
            /\ r[i] = q[i - Len(ops) + 1]
BY DEF Replaced

LEMMA WhereTo ==
  ASSUME NEW q, NEW ops, NEW r, Replaced(q, ops, r), NEW i \in 2 .. Len(q)
  PROVE  \E k \in 1 .. Len(r) : r[k] = q[i]
<1> DEFINE k == i + Len(ops) - 1
<1>1. /\ Len(q) \in Nat \ {0} /\ Len(ops) \in Nat /\ Len(r) = Len(ops) + Len(q) - 1
      /\ \A j \in Len(ops) + 1 .. Len(r) : r[j] = q[j - Len(ops) + 1]
  BY DEF Replaced
<1>2. k \in Len(ops) + 1 .. Len(r) /\ k - Len(ops) + 1 = i /\ k \in 1 .. Len(r)
  BY <1>1
<1> HIDE DEF k
<1>3. r[k] = q[i]
  BY <1>1, <1>2
<1> QED BY <1>2, <1>3

(* Task t does its first operation, which is replaced by ops.               *)
Turn(t, ops) ==
  /\ t \in Tasks /\ ~Idle(t) /\ ops \in Seq(Operation)
  /\ agenda \in [Tasks -> Seq(Operation)] /\ agenda' \in [Tasks -> Seq(Operation)]
  /\ Replaced(agenda[t], ops, agenda'[t])

LEMMA CallsReplaces ==
  ASSUME Types, NEW t \in Tasks, ~Idle(t), NEW ops \in Seq(Operation), Calls(t, ops)
  PROVE  Turn(t, ops)
<1> DEFINE q == agenda[t]
           r == ops \o Tail(q)
<1>1. agenda \in [Tasks -> Seq(Operation)] /\ q \in Seq(Operation) /\ q # <<>>
  BY DEF Types, Idle
<1>2. agenda' = [agenda EXCEPT ![t] = r]
  BY DEF Calls
<1> HIDE DEF q
<1>3. /\ Tail(q) \in Seq(Operation) /\ Len(Tail(q)) = Len(q) - 1 /\ Len(q) \in Nat \ {0}
      /\ \A i \in 1 .. Len(q) - 1 : Tail(q)[i] = q[i + 1]
  BY <1>1
<1>4. /\ r \in Seq(Operation) /\ Len(r) = Len(ops) + Len(Tail(q))
      /\ \A i \in 1 .. Len(ops) + Len(Tail(q)) :
           r[i] = IF i <= Len(ops) THEN ops[i] ELSE Tail(q)[i - Len(ops)]
  BY <1>3, ConcatProperties
<1> HIDE DEF r
<1>5. agenda' \in [Tasks -> Seq(Operation)] /\ agenda'[t] = r
  BY <1>1, <1>2, <1>4
<1>6. Len(ops) \in Nat
  OBVIOUS
<1>7. \A i \in 1 .. Len(ops) : r[i] = ops[i]
  BY <1>3, <1>4, <1>6
<1>8. \A i \in Len(ops) + 1 .. Len(r) : r[i] = q[i - Len(ops) + 1]
  <2> SUFFICES ASSUME NEW i \in Len(ops) + 1 .. Len(r) PROVE r[i] = q[i - Len(ops) + 1]
    OBVIOUS
  <2>1. i \in 1 .. Len(ops) + Len(Tail(q)) /\ i > Len(ops) /\ i - Len(ops) \in 1 .. Len(q) - 1
    BY <1>3, <1>4, <1>6
  <2>2. r[i] = Tail(q)[i - Len(ops)]
    BY <1>4, <1>6, <2>1
  <2> QED BY <1>3, <2>1, <2>2
<1>9. Replaced(q, ops, r)
  BY <1>3, <1>4, <1>6, <1>7, <1>8 DEF Replaced
<1> QED BY <1>1, <1>5, <1>9 DEF Turn, q

LEMMA DoneReplaces ==
  ASSUME Types, NEW t \in Tasks, ~Idle(t), agenda' = [agenda EXCEPT ![t] = Tail(@)]
  PROVE  Turn(t, <<>>)
<1>1. agenda \in [Tasks -> Seq(Operation)] /\ agenda[t] \in Seq(Operation)
      /\ agenda[t] # <<>>
  BY DEF Types, Idle
<1>2. <<>> \o Tail(agenda[t]) = Tail(agenda[t])
  BY <1>1
<1>3. Calls(t, <<>>)
  BY <1>1, <1>2 DEF Calls
<1>4. <<>> \in Seq(Operation)
  OBVIOUS
<1> QED BY <1>3, <1>4, CallsReplaces

(* Operations that may take the place of operation o.                       *)
Fits(o, ops) ==
  /\ ops \in Seq(Operation)
  /\ \A i, j \in 1 .. Len(ops) : i < j => MayPrecede(ops[i], ops[j])
  /\ \A i \in 1 .. Len(ops) : \A y \in Operation : MayPrecede(o, y) => MayPrecede(ops[i], y)
  /\ \A i \in 2 .. Len(ops) : Follows(ops[i - 1], ops[i])
  /\ Len(ops) > 0 => \A y \in Operation : Follows(o, y) => Follows(ops[Len(ops)], y)

LEMMA FittingKeepsOrder ==
  ASSUME NEW q \in Seq(Operation), NEW ops, NEW r, Replaced(q, ops, r), Fits(q[1], ops),
         InOrder(q)
  PROVE  InOrder(r)
<1> DEFINE k == Len(ops)
<1>1. /\ Len(q) \in Nat \ {0} /\ k \in Nat /\ Len(r) = k + Len(q) - 1
      /\ \A i \in 1 .. k : r[i] = ops[i]
      /\ \A i \in k + 1 .. Len(r) : r[i] = q[i - k + 1]
      /\ \A i \in 1 .. Len(q) : q[i] \in Operation
  <2>1. \A i \in 1 .. Len(q) : q[i] \in Operation
    OBVIOUS
  <2> QED BY <2>1 DEF Replaced
<1>2. ASSUME NEW i \in 1 .. Len(r), NEW j \in 1 .. Len(r), i < j
      PROVE  MayPrecede(r[i], r[j])
  <2>1. CASE j <= k
    <3>1. i \in 1 .. k /\ j \in 1 .. k
      BY <1>1, <1>2, <2>1
    <3> QED BY <1>1, <1>2, <3>1 DEF Fits
  <2>2. CASE i <= k /\ j > k
    <3> DEFINE b == j - k + 1
    <3>1. i \in 1 .. k /\ j \in k + 1 .. Len(r) /\ b \in 2 .. Len(q) /\ 1 \in 1 .. Len(q)
      BY <1>1, <2>2
    <3>2. r[i] = ops[i] /\ r[j] = q[b]
      BY <1>1, <3>1
    <3> HIDE DEF b
    <3>3. b \in 1 .. Len(q) /\ 1 < b
      BY <1>1, <3>1
    <3>4. MayPrecede(q[1], q[b]) /\ q[b] \in Operation
      BY <1>1, <3>1, <3>3 DEF InOrder
    <3> QED BY <3>1, <3>2, <3>4 DEF Fits
  <2>3. CASE i > k
    <3> DEFINE a == i - k + 1
               b == j - k + 1
    <3>1. a \in 2 .. Len(q) /\ b \in 2 .. Len(q) /\ a < b
          /\ i \in k + 1 .. Len(r) /\ j \in k + 1 .. Len(r)
      BY <1>1, <1>2, <2>3
    <3>2. r[i] = q[a] /\ r[j] = q[b]
      BY <1>1, <3>1
    <3> HIDE DEF a, b
    <3>3. a \in 1 .. Len(q) /\ b \in 1 .. Len(q)
      BY <1>1, <3>1
    <3> QED BY <3>1, <3>2, <3>3 DEF InOrder
  <2> QED BY <1>1, <1>2, <2>1, <2>2, <2>3
<1>3. ASSUME NEW i \in 2 .. Len(r)
      PROVE  Follows(r[i - 1], r[i])
  <2>1. CASE i <= k
    <3>1. i - 1 \in 1 .. k /\ i \in 2 .. k /\ i \in 1 .. k
      BY <1>1, <2>1
    <3> QED BY <1>1, <3>1 DEF Fits
  <2>2. CASE i = k + 1
    <3>1. r[i] = q[2] /\ 2 \in 2 .. Len(q) /\ q[2] \in Operation
      BY <1>1, <2>2
    <3>2. r[i - 1] = ops[k] /\ k > 0
      BY <1>1, <2>2
    <3>3. Follows(q[1], q[2])
      BY <3>1 DEF InOrder
    <3> QED BY <3>1, <3>2, <3>3 DEF Fits
  <2>3. CASE i > k + 1
    <3> DEFINE a == i - k + 1
    <3>1. a \in 2 .. Len(q) /\ i \in k + 1 .. Len(r) /\ i - 1 \in k + 1 .. Len(r)
          /\ (i - 1) - k + 1 = a - 1
      BY <1>1, <2>3
    <3>2. r[i] = q[a] /\ r[i - 1] = q[a - 1]
      BY <1>1, <3>1
    <3> QED BY <3>1, <3>2 DEF InOrder
  <2> QED BY <1>1, <2>1, <2>2, <2>3
<1> QED BY <1>2, <1>3 DEF InOrder

LEMMA Names ==
  /\ NoPin \notin Pins /\ Pins \subseteq Nat /\ ValidPins = Pins
  /\ "RX" \in RoleSet /\ "TX" \in RoleSet /\ "INIT" \notin RoleSet /\ "GPIO" \notin RoleSet
  /\ "I2C" \notin RoleSet /\ RoleSet \subseteq DriverTypes /\ "I2C" \in DriverTypes
  /\ RoleSet \subseteq OwnedTypes /\ "I2C" \in OwnedTypes
  /\ RoleSet \subseteq BusTypes /\ "I2C" \in BusTypes /\ "INIT" \in BusTypes
  /\ Uarts \subseteq Buses /\ Foreign \in Buses /\ Foreign \notin Uarts /\ NULL \notin Buses
BY UartsAssumption, TypesAssumption, NullAssumption DEF NoPin, OwnedTypes, BusTypes

LEMMA TopOfAgenda ==
  ASSUME NEW t, NEW ops, Turn(t, ops)
  PROVE  /\ Len(agenda[t]) > 0 /\ Now(t) = agenda[t][1] /\ Now(t) \in Operation
         /\ \A i \in 1 .. Len(agenda[t]) : agenda[t][i] \in Operation
         /\ \A i \in 1 .. Len(ops) : ops[i] \in Operation
         /\ Len(agenda[t]) \in Nat /\ Len(ops) \in Nat
         /\ Len(ops) > 0 => ~Idle(t)' /\ Now(t)' = ops[1]
         /\ Len(ops) = 0 /\ ~Idle(t)' => Len(agenda[t]) > 1 /\ Now(t)' = agenda[t][2]
<1> DEFINE q == agenda[t]
           r == agenda'[t]
<1>1. q \in Seq(Operation) /\ r \in Seq(Operation) /\ q # <<>> /\ ops \in Seq(Operation)
  BY DEF Turn, Idle
<1>2. Replaced(q, ops, r) /\ (Idle(t)' <=> r = <<>>)
  BY DEF Turn, Idle
<1>3. Now(t) = q[1] /\ Now(t)' = r[1]
  BY DEF Now
<1> HIDE DEF q, r
<1>4. Len(q) > 0 /\ q[1] \in Operation
  BY <1>1
<1>5. ASSUME Len(ops) > 0 PROVE r # <<>> /\ r[1] = ops[1]
  BY <1>1, <1>2, <1>4, <1>5 DEF Replaced
<1>6. ASSUME Len(ops) = 0, r # <<>> PROVE Len(q) > 1 /\ r[1] = q[2]
  BY <1>1, <1>2, <1>4, <1>6 DEF Replaced
<1>7. \A i \in 1 .. Len(q) : q[i] \in Operation
  BY <1>1
<1>8. /\ \A i \in 1 .. Len(ops) : ops[i] \in Operation
      /\ Len(q) \in Nat /\ Len(ops) \in Nat
  BY <1>1
<1> QED BY <1>2, <1>3, <1>4, <1>5, <1>6, <1>7, <1>8 DEF q, r

LEMMA HasLater ==
  ASSUME NEW t, NEW ops, Turn(t, ops), NEW W, Has(t, W)',
         \A i \in 1 .. Len(ops) : ops[i].op \notin W
  PROVE  \E i \in 2 .. Len(agenda[t]) : agenda[t][i].op \in W
<1>1. PICK i \in 1 .. Len(agenda'[t]) : agenda'[t][i].op \in W
  BY DEF Has
<1>2. Replaced(agenda[t], ops, agenda'[t])
  BY DEF Turn
<1>3. i - Len(ops) + 1 \in 2 .. Len(agenda[t]) /\ agenda'[t][i] = agenda[t][i - Len(ops) + 1]
  BY <1>1, <1>2, WhereFrom
<1> QED BY <1>1, <1>3

LEMMA HasStays ==
  ASSUME NEW t, NEW ops, Turn(t, ops), NEW W, Has(t, W), Now(t).op \notin W
  PROVE  Has(t, W)'
<1>1. PICK i \in 1 .. Len(agenda[t]) : agenda[t][i].op \in W
  BY DEF Has
<1>2. i # 1 /\ Len(agenda[t]) \in Nat
  BY <1>1, TopOfAgenda
<1>4. Replaced(agenda[t], ops, agenda'[t]) /\ i \in 2 .. Len(agenda[t])
  BY <1>1, <1>2 DEF Turn
<1>5. PICK k \in 1 .. Len(agenda'[t]) : agenda'[t][k] = agenda[t][i]
  BY <1>4, WhereTo
<1> QED BY <1>1, <1>5 DEF Has

-----------------------------------------------------------------------------
(* What a turn keeps of each part of the invariant.                         *)
LEMMA OrderStays ==
  ASSUME NEW t, NEW ops, Turn(t, ops), InOrder(agenda[t]), Fits(Now(t), ops)
  PROVE  InOrder(agenda[t])'
<1>1. /\ agenda[t] \in Seq(Operation) /\ Replaced(agenda[t], ops, agenda'[t])
      /\ Now(t) = agenda[t][1]
  BY DEF Turn, Now
<1>2. InOrder(agenda'[t])
  BY <1>1, FittingKeepsOrder
<1> QED BY <1>2 DEF InOrder

LEMMA NothingFits == \A o : Fits(o, <<>>)
BY DEF Fits

Free == OpNames \ (Attaching \cup Releasing \cup Saving \cup Starting \cup
                    {"plan", "restore", "return"})

LEMMA FreeOpsFit ==
  ASSUME NEW o, NEW ops \in Seq(Operation), o.op \notin Setting \cup {"saveDeinits"},
         \A i \in 1 .. Len(ops) : ops[i].op \in Free \/ (o.op \in Starting /\ ops[i].op \in Starting),
         \A i \in 2 .. Len(ops) : ops[i].op \notin Setting \cup {"callback"}
  PROVE  Fits(o, ops)
<1>1. \A i, j \in 1 .. Len(ops) : i < j => MayPrecede(ops[i], ops[j])
  BY DEF MayPrecede, Free, Attaching, Releasing, Saving, Starting
<1>2. \A i \in 1 .. Len(ops) : \A y \in Operation : MayPrecede(o, y) => MayPrecede(ops[i], y)
  BY DEF MayPrecede, Free, Attaching, Releasing, Saving, Starting
<1>3. \A i \in 2 .. Len(ops) : Follows(ops[i - 1], ops[i])
  <2> TAKE i \in 2 .. Len(ops)
  <2>1. i \in 1 .. Len(ops)
    OBVIOUS
  <2>2. ops[i].op \notin Setting \cup {"callback", "connect", "note", "mute"}
    BY <2>1 DEF Free, Attaching, Saving, Starting
  <2> QED BY <2>2 DEF Follows
<1>4. \A y \in Operation : Follows(o, y) => Follows(ops[Len(ops)], y)
  BY DEF Follows
<1> QED BY <1>1, <1>2, <1>3, <1>4 DEF Fits

LEMMA ReadyStays ==
  ASSUME NEW t, NEW ops, Turn(t, ops), InOrder(agenda[t]), Now(t).op \notin Setting,
         Len(ops) > 0 => /\ ops[1].op \notin {"connect", "note"}
                         /\ ops[1].op \in Setting => ops[1].role \notin RoleSet
  PROVE  Ready(t)'
<1>1. ASSUME ~Idle(t)'
      PROVE  /\ Now(t)'.op \notin {"connect", "note"}
             /\ Now(t)'.op \in Setting => Now(t)'.role \notin RoleSet
  <2>1. CASE Len(ops) > 0
    BY <1>1, <2>1, TopOfAgenda
  <2>2. CASE ~(Len(ops) > 0)
    <3>1. Len(agenda[t]) > 1 /\ Now(t)' = agenda[t][2] /\ Now(t) = agenda[t][1]
          /\ Len(agenda[t]) \in Nat
      BY <1>1, <2>2, TopOfAgenda
    <3>2. 2 \in 2 .. Len(agenda[t])
      BY <3>1
    <3>3. Follows(agenda[t][2 - 1], agenda[t][2])
      BY <3>2 DEF InOrder
    <3>4. Follows(Now(t), Now(t)')
      BY <3>1, <3>3
    <3> QED BY <3>4 DEF Follows
  <2> QED BY <2>1, <2>2
<1> QED BY <1>1 DEF Ready

LEMMA NothingOnItsWay ==
  ASSUME NEW t, ~Idle(t) => Now(t).op \notin Setting \cup {"callback", "note"}, Known(t)
  PROVE  \A p \in Pins : Assigned(p) => uart[pins[p].bus][pins[p].type] = p
BY DEF Known, OnItsWay, Setting

LEMMA KnownStays ==
  ASSUME NEW t, UNCHANGED <<pins, uart>>,
         \A p \in Pins : Assigned(p) => uart[pins[p].bus][pins[p].type] = p
  PROVE  Known(t)'
BY DEF Known, Assigned

LEMMA MutingStays ==
  ASSUME NEW t, NEW ops, Turn(t, ops), InOrder(agenda[t]), Told(t),
         Now(t).op \notin Saving \cup {"restore"},
         \A i \in 1 .. Len(ops) : ops[i].op \notin Saving
  PROVE  /\ Muting(t) => Muting(t)'
         /\ Has(t, Saving)' => Has(t, {"restore"})'
         /\ ~Does(t, "mute")'
<1>1. Has(t, Saving)' => Has(t, Saving)
  <2>1. ASSUME Has(t, Saving)' PROVE Has(t, Saving)
    <3>1. PICK i \in 2 .. Len(agenda[t]) : agenda[t][i].op \in Saving
      BY <2>1, HasLater
    <3>2. i \in 1 .. Len(agenda[t])
      BY <3>1, TopOfAgenda
    <3> QED BY <3>1, <3>2 DEF Has
  <2> QED BY <2>1
<1>2. Has(t, {"restore"}) => Has(t, {"restore"})'
  BY HasStays
<1>3. ~Does(t, "mute")'
  <2>1. ASSUME ~Idle(t)' PROVE Now(t)'.op # "mute"
    <3>1. CASE Len(ops) > 0
      <4>1. Now(t)' = ops[1] /\ 1 \in 1 .. Len(ops)
        BY <3>1, TopOfAgenda
      <4> QED BY <4>1 DEF Saving
    <3>2. CASE ~(Len(ops) > 0)
      <4>1. Len(agenda[t]) > 1 /\ Now(t)' = agenda[t][2] /\ Now(t) = agenda[t][1]
            /\ Len(agenda[t]) \in Nat
        BY <2>1, <3>2, TopOfAgenda
      <4>2. 2 \in 2 .. Len(agenda[t])
        BY <4>1
      <4>3. Follows(agenda[t][2 - 1], agenda[t][2])
        BY <4>2 DEF InOrder
      <4> QED BY <4>1, <4>3 DEF Follows, Saving
    <3> QED BY <3>1, <3>2
  <2> QED BY <2>1 DEF Does
<1>4. Has(t, Saving) => Has(t, {"restore"})
  BY DEF Told
<1> QED BY <1>1, <1>2, <1>3, <1>4 DEF Muting

LEMMA ToldStays ==
  ASSUME NEW t, NEW ops, Turn(t, ops), InOrder(agenda[t]), Told(t),
         UNCHANGED <<pins, deinit_functions>>, local'[t].muted = local[t].muted \/ ~Has(t, {"restore"}),
         Now(t).op \notin Saving \cup {"note", "restore"},
         \A i \in 1 .. Len(ops) : ops[i].op \notin Saving
  PROVE  Told(t)'
<1>1. /\ Muting(t) => Muting(t)'
      /\ Has(t, Saving)' => Has(t, {"restore"})'
      /\ ~Does(t, "mute")'
  BY MutingStays
<1>2. ~Does(t, "note")
  BY DEF Does
<1>3. ASSUME NEW p \in Pins, Assigned(p)'
      PROVE  LET r == pins'[p].type
             IN \/ deinit_functions'[r] = "driver"
                \/ deinit_functions'[r] = "empty" /\ r \in local'[t].muted /\ Muting(t)'
  <2>1. Assigned(p)
    BY <1>3 DEF Assigned
  <2>2. \/ deinit_functions[pins[p].type] = "driver"
        \/ /\ deinit_functions[pins[p].type] = "empty"
           /\ pins[p].type \in local[t].muted /\ Muting(t)
    BY <1>2, <2>1 DEF Told
  <2>3. Muting(t) => Has(t, {"restore"})
    BY DEF Muting
  <2> QED BY <1>1, <2>2, <2>3
<1> QED BY <1>1, <1>3 DEF Told, Assigned

LEMMA ReleasedLater ==
  ASSUME NEW t, NEW ops, Turn(t, ops), Released(t),
         \A i \in 1 .. Len(ops) : \A o \in Operation :
           ops[i] = o /\ o.op \in Attaching /\ o.pin # NoPin => Covered(t, o)',
         \A i \in 2 .. Len(agenda[t]) : \A o \in Operation :
           agenda[t][i] = o /\ o.op \in Attaching /\ o.pin # NoPin /\ Covered(t, o) => Covered(t, o)'
  PROVE  Released(t)'
<1>1. ASSUME NEW i \in 1 .. Len(agenda'[t]), NEW o, o = agenda'[t][i], o.op \in Attaching, o.pin # NoPin
      PROVE  Covered(t, o)'
  <2>1. Replaced(agenda[t], ops, agenda'[t])
    BY DEF Turn
  <2>2. CASE i \in 1 .. Len(ops) /\ agenda'[t][i] = ops[i]
    BY <1>1, <2>2, TopOfAgenda
  <2>3. CASE /\ i - Len(ops) + 1 \in 2 .. Len(agenda[t])
             /\ agenda'[t][i] = agenda[t][i - Len(ops) + 1]
    <3>1. PICK k \in 2 .. Len(agenda[t]) : agenda[t][k] = o
      BY <1>1, <2>3
    <3>2. k \in 1 .. Len(agenda[t])
      BY <3>1, TopOfAgenda
    <3>3. o \in Operation /\ Covered(t, o)
      BY <1>1, <3>1, <3>2, TopOfAgenda DEF Released
    <3> QED BY <1>1, <3>1, <3>3
  <2> QED BY <2>1, <2>2, <2>3, WhereFrom
<1> QED BY <1>1 DEF Released, Covered, Given, Awaits, Freeing

LEMMA AwaitsStays ==
  ASSUME NEW t, NEW ops, Turn(t, ops), NEW o, Awaits(t, o),
         Now(t).op \notin Releasing \/ Now(t).pin # o.pin
  PROVE  Awaits(t, o)'
<1>1. PICK k \in 1 .. Len(agenda[t]) :
        LET x == agenda[t][k]
        IN x.op \in Releasing /\ x.u = o.u /\ x.role = o.role /\ x.pin = o.pin
  BY DEF Awaits
<1>2. k # 1 /\ Len(agenda[t]) \in Nat
  BY <1>1, TopOfAgenda
<1>3. k \in 2 .. Len(agenda[t]) /\ Replaced(agenda[t], ops, agenda'[t])
  BY <1>1, <1>2 DEF Turn
<1>4. PICK j \in 1 .. Len(agenda'[t]) : agenda'[t][j] = agenda[t][k]
  BY <1>3, WhereTo
<1> QED BY <1>1, <1>4 DEF Awaits

LEMMA AttachingIsGiven ==
  ASSUME NEW t, NEW ops, Turn(t, ops), InOrder(agenda[t]), Released(t),
         Now(t).op \in Attaching, Now(t).pin # NoPin
  PROVE  Given(Now(t))
<1>1. 1 \in 1 .. Len(agenda[t]) /\ Now(t) = agenda[t][1]
  BY TopOfAgenda
<1>2. Covered(t, Now(t))
  BY <1>1 DEF Released
<1>3. ~Freeing(t, Now(t))
  BY DEF Freeing, Attaching
<1>4. ~Awaits(t, Now(t))
  <2> SUFFICES ASSUME NEW k \in 1 .. Len(agenda[t]), agenda[t][k].op \in Releasing PROVE FALSE
    BY DEF Awaits
  <2>1. k # 1
    BY <1>1 DEF Attaching, Releasing
  <2>2. 1 < k
    BY <2>1, TopOfAgenda
  <2>3. MayPrecede(agenda[t][1], agenda[t][k])
    BY <1>1, <2>2 DEF InOrder
  <2> QED BY <1>1, <2>3 DEF MayPrecede
<1> QED BY <1>2, <1>3, <1>4 DEF Covered

LEMMA ReleasedStays ==
  ASSUME NEW t, NEW ops, Turn(t, ops), InOrder(agenda[t]), Released(t), UNCHANGED <<pins, uart>>,
         Now(t).op \notin Releasing \cup {"detach"},
         \A i \in 1 .. Len(ops) : ops[i].op \in Attaching =>
           /\ Now(t).op \in Attaching
           /\ ops[i].u = Now(t).u /\ ops[i].role = Now(t).role /\ ops[i].pin = Now(t).pin
  PROVE  Released(t)'
<1>1. ASSUME NEW o \in Operation, Given(o) PROVE Given(o)'
  BY <1>1 DEF Given
<1>2. ASSUME NEW i \in 1 .. Len(ops), NEW o \in Operation,
             ops[i] = o, o.op \in Attaching, o.pin # NoPin
      PROVE  Covered(t, o)'
  <2>1. Given(Now(t))
    BY <1>2, AttachingIsGiven
  <2>2. Given(o)
    BY <1>2, <2>1 DEF Given
  <2> QED BY <1>1, <2>2 DEF Covered
<1>3. ASSUME NEW o \in Operation, Covered(t, o)
      PROVE  Covered(t, o)'
  <2>1. ~Freeing(t, o)
    BY DEF Freeing
  <2>2. Awaits(t, o) => Awaits(t, o)'
    BY AwaitsStays
  <2> QED BY <1>1, <1>3, <2>1, <2>2 DEF Covered
<1> QED BY <1>2, <1>3, ReleasedLater

LEMMA CalmTurn ==
  ASSUME NEW t, NEW ops, Turn(t, ops), Good(t),
         UNCHANGED <<pins, deinit_functions, uart>>, local'[t].muted = local[t].muted \/ ~Has(t, {"restore"}),
         Now(t).op \notin Setting \cup Saving \cup Releasing \cup Attaching
                            \cup {"callback", "restore", "detach"},
         \A i \in 1 .. Len(ops) :
           ops[i].op \in Free \/ (Now(t).op \in Starting /\ ops[i].op \in Starting),
         \A i \in 1 .. Len(ops) : ops[i].op \notin Setting \cup {"callback"}
  PROVE  Good(t)'
<1> DEFINE o == Now(t)
<1>1. ops \in Seq(Operation) /\ Len(ops) \in Nat /\ InOrder(agenda[t]) /\ Known(t) /\ Told(t)
      /\ Released(t)
  BY TopOfAgenda DEF Turn, Good
<1>2. \A i \in 1 .. Len(ops) : ops[i].op \notin Saving \cup Attaching
  BY DEF Free, Saving, Attaching, Starting
<1>3. \A i \in 2 .. Len(ops) : ops[i].op \notin Setting \cup {"callback"}
  BY <1>1
<1>4. o.op \notin Setting \cup {"saveDeinits", "callback", "note", "restore"}
  BY DEF Saving, Attaching
<1>5. InOrder(agenda[t])'
  <2>1. Fits(o, ops)
    BY <1>1, <1>3, <1>4, FreeOpsFit
  <2> QED BY <1>1, <2>1, OrderStays
<1>6. Ready(t)'
  <2>1. Len(ops) > 0 => 1 \in 1 .. Len(ops)
    BY <1>1
  <2>2. Len(ops) > 0 => ops[1].op \notin {"connect", "note"} \cup Setting
    BY <1>2, <2>1 DEF Attaching
  <2> QED BY <1>1, <1>4, <2>2, ReadyStays
<1>7. Known(t)'
  BY <1>1, <1>4, NothingOnItsWay, KnownStays
<1>8. Told(t)'
  BY <1>1, <1>2, <1>4, ToldStays
<1>9. Released(t)'
  BY <1>1, <1>2, ReleasedStays
<1> QED BY <1>5, <1>6, <1>7, <1>8, <1>9 DEF Good, InOrder, Ready, Known, Told, Released,
                                          Covered, Given, Awaits, Freeing

LEMMA TypesStay ==
  ASSUME Types, agenda' \in [Tasks -> Seq(Operation)], local' \in [Tasks -> Local],
         UNCHANGED <<pins, deinit_functions, uart>>,
         installed' \subseteq Uarts, registered' \subseteq Uarts,
         lock' \in [Locks -> {"none", "free"} \cup Tasks]
  PROVE  Types'
BY DEF Types, TypeOK, PeriManTypeOK, Unassigned

LEMMA OnlyTask ==
  ASSUME OneTask, NEW t \in Tasks, Types', Good(t)'
  PROVE  Inv'
<1>1. \A s \in Tasks : s = t
  BY DEF OneTask
<1>2. \A s \in Tasks : Good(s)'
  BY <1>1
<1> QED BY <1>2 DEF Inv

-----------------------------------------------------------------------------
(* The steps that touch neither pins nor callbacks.                         *)
LEMMA CalmStep ==
  ASSUME Inv, NEW t \in Tasks, NEW ops, Turn(t, ops),
         UNCHANGED <<pins, deinit_functions, uart>>,
         installed' \subseteq Uarts, registered' \subseteq Uarts,
         lock' \in [Locks -> {"none", "free"} \cup Tasks],
         local' \in [Tasks -> Local], local'[t].muted = local[t].muted \/ ~Has(t, {"restore"}),
         Now(t).op \in Free \cup Starting \cup {"return"},
         Now(t).op \notin Setting \cup {"callback", "detach"},
         \A i \in 1 .. Len(ops) :
           ops[i].op \in Free \/ (Now(t).op \in Starting /\ ops[i].op \in Starting),
         \A i \in 1 .. Len(ops) : ops[i].op \notin Setting \cup {"callback"}
  PROVE  Types' /\ Good(t)'
<1>1. Types'
  BY TypesStay DEF Inv, Turn
<1>2. Now(t).op \notin Setting \cup Saving \cup Releasing \cup Attaching
                         \cup {"callback", "restore", "detach"}
  BY DEF Free, Setting, Saving, Releasing, Attaching, Starting
<1>3. Good(t)'
  BY <1>2, CalmTurn DEF Inv
<1> QED BY <1>1, <1>3

LEMMA OpFields ==
  ASSUME NEW what, NEW u, NEW r, NEW p
  PROVE  /\ Op(what, u, r, p).op = what /\ Op(what, u, r, p).u = u
         /\ Op(what, u, r, p).role = r /\ Op(what, u, r, p).pin = p
BY DEF Op

LEMMA UartOps ==
  ASSUME NEW u \in Uarts, NEW what \in (Starting \ {"move"}) \cup Saving \cup (Plain \ {"return", "and"})
  PROVE  /\ ForUart(what, u) \in Operation
         /\ ForUart(what, u).op = what /\ ForUart(what, u).u = u
BY Names DEF ForUart, Op, Operation, Ops, OpNames, Sound, Attaching, Releasing, Saving, Starting,
             Setting, Plain

LEMMA LocalKeepsType ==
  ASSUME Types, NEW t \in Tasks
  PROVE  /\ local[t] \in Local /\ local \in [Tasks -> Local]
         /\ \A b \in BOOLEAN : /\ [local EXCEPT ![t].result = b] \in [Tasks -> Local]
                               /\ [local EXCEPT ![t].result = b][t] = [local[t] EXCEPT !.result = b]
                               /\ [local[t] EXCEPT !.result = b] \in Local
BY DEF Types, Local

(* Return(t, b), and calls that leave the local variables alone.            *)
LEMMA ReturnTurn ==
  ASSUME Types, NEW t \in Tasks, ~Idle(t), NEW b \in BOOLEAN, Return(t, b)
  PROVE  /\ Turn(t, <<>>) /\ local' \in [Tasks -> Local]
         /\ local'[t] = [local[t] EXCEPT !.result = b]
         /\ local'[t].muted = local[t].muted /\ local'[t].result = b
<1>1. local[t] \in Local /\ local' = [local EXCEPT ![t].result = b]
      /\ local'[t] = [local[t] EXCEPT !.result = b] /\ local' \in [Tasks -> Local]
  BY LocalKeepsType DEF Return
<1>2. local'[t].muted = local[t].muted /\ local'[t].result = b
  BY <1>1 DEF Local
<1> QED BY <1>1, <1>2, DoneReplaces DEF Return

LEMMA DoneTurn ==
  ASSUME Types, NEW t \in Tasks, ~Idle(t), Done(t)
  PROVE  Turn(t, <<>>)
<1>1. <<>> \in Seq(Operation)
  OBVIOUS
<1> QED BY <1>1, CallsReplaces DEF Done

LEMMA HeadIsSound ==
  ASSUME Types, NEW t \in Tasks, ~Idle(t)
  PROVE  /\ Now(t) \in Operation
         /\ Now(t).op \in Starting \cup Saving \cup (Plain \ {"return", "and"}) => Now(t).u \in Uarts
<1>1. Now(t) \in Operation
  BY DEF Types, Idle, Now
<1> QED BY <1>1 DEF Operation, Sound

LEMMA LockStepKeeps ==
  ASSUME Inv, NEW t \in Tasks, LockStep(t)
  PROVE  Types' /\ Good(t)'
<1>1. ~Idle(t) /\ Now(t).op \in {"lock", "unlock", "lockSerial", "unlockSerial"}
  BY DEF LockStep, Does
<1>2. Now(t).u \in Uarts
  BY <1>1, HeadIsSound DEF Inv, Plain
<1>3. PICK l \in Locks : Lock(t, l) \/ Unlock(t, l)
  BY <1>2 DEF LockStep, Locks, HalLocks
<1>4. /\ Done(t) /\ UNCHANGED <<pins, deinit_functions, uart, installed, registered, local>>
      /\ lock' = [lock EXCEPT ![l] = IF @ = "none" THEN @ ELSE t]
         \/ lock' = [lock EXCEPT ![l] = IF @ = "none" THEN @ ELSE "free"]
  BY <1>3 DEF Lock, Unlock, unchangedPeriMan, unchangedUarts
<1>5. Turn(t, <<>>)
  BY <1>1, <1>4, DoneTurn DEF Inv
<1>6. /\ lock' \in [Locks -> {"none", "free"} \cup Tasks] /\ local' \in [Tasks -> Local]
      /\ installed' \subseteq Uarts /\ registered' \subseteq Uarts
  BY <1>4 DEF Inv, Types, TypeOK
<1>7. Now(t).op \in Free /\ Now(t).op \notin Setting \cup {"callback", "detach"}
  BY <1>1 DEF Free, OpNames, Plain, Attaching, Releasing, Saving, Starting, Setting
<1> QED BY <1>4, <1>5, <1>6, <1>7, CalmStep

LEMMA ReturningKeeps ==
  ASSUME Inv, NEW t \in Tasks, ReturnTrue(t) \/ KeepResult(t) \/ Returns(t) \/ DeleteDriver(t)
                                 \/ Register(t) \/ DriverInstall(t) \/ Collect(t)
  PROVE  Types' /\ Good(t)'
<1>1. ~Idle(t) /\ Now(t).op \in {"true", "and", "return", "delete", "register", "driverInstall", "collect"}
  BY DEF ReturnTrue, KeepResult, Returns, DeleteDriver, Register, DriverInstall, Collect, Does
<1>2. /\ Now(t).op \in Free \cup {"return"} /\ Now(t).op \notin Setting \cup {"callback", "detach"}
      /\ Now(t).op \in {"true", "delete", "register", "driverInstall", "collect"} => Now(t).u \in Uarts
  BY <1>1, HeadIsSound DEF Inv, Free, OpNames, Plain, Attaching, Releasing, Saving, Starting, Setting
<1>3. UNCHANGED <<pins, deinit_functions, uart, lock>>
  BY DEF ReturnTrue, KeepResult, Returns, DeleteDriver, Register, DriverInstall, Collect,
         unchangedPeriMan, unchangedUarts
<1>4. installed' \subseteq Uarts /\ registered' \subseteq Uarts
  BY <1>1, <1>2 DEF ReturnTrue, KeepResult, Returns, DeleteDriver, Register, DriverInstall, Collect,
         unchangedPeriMan, unchangedUarts, Does, Inv, Types, TypeOK
<1>5. Turn(t, <<>>)
  BY <1>1, DoneTurn, DoneReplaces DEF ReturnTrue, KeepResult, Returns, DeleteDriver, Register,
         DriverInstall, Collect, Return, Inv
<1>6. local' \in [Tasks -> Local]
      /\ (local'[t].muted = local[t].muted \/ ~Has(t, {"restore"}))
  <2>1. CASE ReturnTrue(t) \/ DriverInstall(t)
    BY <1>1, <2>1, ReturnTurn DEF ReturnTrue, DriverInstall, Inv
  <2>2. CASE KeepResult(t)
    BY <2>2, LocalKeepsType, ZenonT(60) DEF KeepResult, Inv, Local
  <2>3. CASE Returns(t)
    <3>1. NoCall \in Local /\ NoCall.muted = {}
      BY Names DEF NoCall, Local, Detached
    <3>2. Turn(t, <<>>) /\ InOrder(agenda[t])
      BY <1>5 DEF Inv, Good
    <3>3. ASSUME NEW i \in 1 .. Len(agenda[t]) PROVE agenda[t][i].op # "restore"
      <4>1. CASE i = 1
        BY <2>3, <3>2, <4>1, TopOfAgenda DEF Returns, Does
      <4>2. CASE i > 1
        <5>1. 1 \in 1 .. Len(agenda[t]) /\ 1 < i /\ Now(t) = agenda[t][1]
          BY <4>2, <3>2, TopOfAgenda
        <5>2. MayPrecede(agenda[t][1], agenda[t][i])
          BY <5>1, <3>2 DEF InOrder
        <5> QED BY <2>3, <5>1, <5>2 DEF MayPrecede, Returns, Does
      <4> QED BY <4>1, <4>2
    <3>4. ~Has(t, {"restore"})
      BY <3>3 DEF Has
    <3> QED BY <2>3, <3>1, <3>4, LocalKeepsType DEF Returns, Inv
  <2>4. CASE DeleteDriver(t) \/ Register(t)
    BY <2>4 DEF DeleteDriver, Register, Inv, Types
  <2>5. CASE Collect(t)
    <3>1. PICK W : local' = [local EXCEPT ![t].victims = Stranded(local[t].victims) \cup W]
                   /\ W \in {{}, {Now(t).u}}
      BY <2>5 DEF Collect
    <3>2. W \subseteq Uarts
      BY <3>1, <2>5, <1>2 DEF Collect, Does
    <3> HIDE DEF Stranded
    <3>3. local[t] \in Local /\ local[t].victims \subseteq Uarts
      BY LocalKeepsType DEF Inv, Local
    <3>4. Stranded(local[t].victims) \cup W \subseteq Uarts
      BY <3>2, <3>3 DEF Stranded
    <3> QED BY <3>1, <3>3, <3>4, LocalKeepsType, ZenonT(60) DEF Inv, Local
  <2> QED BY <2>1, <2>2, <2>3, <2>4, <2>5
<1>7. lock' \in [Locks -> {"none", "free"} \cup Tasks]
  BY <1>3 DEF Inv, Types, TypeOK
<1> QED BY <1>2, <1>3, <1>4, <1>5, <1>6, <1>7, CalmStep

-----------------------------------------------------------------------------
(* ... and those of them that call something.                               *)
EasyFor(o) == {x \in Operation :
  /\ x.op \in Free \/ (o.op \in Starting /\ x.op \in Starting)
  /\ x.op \notin Setting \cup {"callback"}}

LEMMA EasyOps ==
  ASSUME NEW o, NEW u \in Uarts
  PROVE  /\ \A what \in Plain \ {"plan", "restore", "return", "and"} : ForUart(what, u) \in EasyFor(o)
         /\ o.op \in Starting =>
              \A what \in Starting \ {"move"} : ForUart(what, u) \in EasyFor(o)
<1>1. ASSUME NEW what \in Plain \ {"plan", "restore", "return", "and"}
      PROVE  ForUart(what, u) \in EasyFor(o)
  <2>1. what \in Free /\ what \notin Setting \cup {"callback"}
    BY DEF Free, OpNames, Plain, Attaching, Releasing, Saving, Starting, Setting
  <2>2. ForUart(what, u) \in Operation /\ ForUart(what, u).op = what
    BY UartOps
  <2> QED BY <2>1, <2>2 DEF EasyFor
<1>2. ASSUME o.op \in Starting, NEW what \in Starting \ {"move"}
      PROVE  ForUart(what, u) \in EasyFor(o)
  <2>1. what \notin Setting \cup {"callback"}
    BY DEF Starting, Setting
  <2>2. ForUart(what, u) \in Operation /\ ForUart(what, u).op = what
    BY UartOps
  <2> QED BY <1>2, <2>1, <2>2 DEF EasyFor
<1> QED BY <1>1, <1>2

LEMMA CalmCalls ==
  ASSUME Inv, NEW t \in Tasks, ~Idle(t), NEW ops \in Seq(EasyFor(Now(t))), Calls(t, ops),
         Now(t).op \in Starting \cup (Plain \ {"plan", "restore", "and"}),
         UNCHANGED <<pins, deinit_functions, uart, installed, registered>>,
         lock' \in [Locks -> {"none", "free"} \cup Tasks],
         local' \in [Tasks -> Local], local'[t].muted = local[t].muted
  PROVE  Types' /\ Good(t)'
<1>1. ops \in Seq(Operation)
  BY DEF EasyFor
<1>2. Turn(t, ops)
  BY <1>1, CallsReplaces DEF Inv
<1>3. \A i \in 1 .. Len(ops) : ops[i] \in EasyFor(Now(t))
  OBVIOUS
<1>4. /\ \A i \in 1 .. Len(ops) :
           ops[i].op \in Free \/ (Now(t).op \in Starting /\ ops[i].op \in Starting)
      /\ \A i \in 1 .. Len(ops) : ops[i].op \notin Setting \cup {"callback"}
  BY <1>3 DEF EasyFor
<1>5. /\ Now(t).op \in Free \cup Starting \cup {"return"}
      /\ Now(t).op \notin Setting \cup {"callback", "detach"}
  BY DEF Free, OpNames, Plain, Attaching, Releasing, Saving, Starting, Setting
<1>6. installed' \subseteq Uarts /\ registered' \subseteq Uarts
  BY DEF Inv, Types, TypeOK
<1> QED BY <1>2, <1>4, <1>5, <1>6, CalmStep

LEMMA NothingElse ==
  ASSUME Inv, NEW t \in Tasks, unchangedPeriMan, unchangedUarts, UNCHANGED lock
  PROVE  /\ UNCHANGED <<pins, deinit_functions, uart, installed, registered>>
         /\ lock' \in [Locks -> {"none", "free"} \cup Tasks]
         /\ UNCHANGED local => local' \in [Tasks -> Local] /\ local'[t].muted = local[t].muted
BY DEF unchangedPeriMan, unchangedUarts, Inv, Types, TypeOK

LEMMA EndKeeps ==
  ASSUME Inv, NEW t \in Tasks, End(t) \/ Install(t)
  PROVE  Types' /\ Good(t)'
<1> DEFINE u == Now(t).u
<1>1. ~Idle(t) /\ Now(t).op \in {"end", "install"} /\ u \in Uarts
  BY HeadIsSound DEF End, Install, Does, Inv, Plain, Starting
<1>2. \A what \in {"lock", "detachAll", "delete", "unlock", "driverInstall"} : ForUart(what, u) \in EasyFor(Now(t))
  BY <1>1, EasyOps DEF Plain
<1>3. Now(t).op = "install" => ForUart("installed", u) \in EasyFor(Now(t))
  BY <1>1, EasyOps DEF Starting
<1>4. UNCHANGED local /\ unchangedPeriMan /\ unchangedUarts /\ UNCHANGED lock
  BY DEF End, Install
<1>5. PICK ops \in Seq(EasyFor(Now(t))) : Calls(t, ops)
  <2>1. CASE End(t)
    <3> DEFINE e == <<ForUart("lock", u), ForUart("detachAll", u), ForUart("delete", u),
                      ForUart("unlock", u)>>
    <3>1. e \in Seq(EasyFor(Now(t)))
      BY <1>2
    <3>2. Calls(t, e)
      BY <2>1 DEF End
    <3> QED BY <3>1, <3>2
  <2>2. CASE Install(t)
    <3> DEFINE e == <<ForUart("lock", u), ForUart("driverInstall", u), ForUart("unlock", u),
                      ForUart("installed", u)>>
    <3>1. e \in Seq(EasyFor(Now(t)))
      BY <1>2, <1>3, <2>2 DEF Install, Does
    <3>2. Calls(t, e)
      BY <2>2 DEF Install
    <3> QED BY <3>1, <3>2
  <2> QED BY <2>1, <2>2
<1>6. Now(t).op \in Starting \cup (Plain \ {"plan", "restore", "and"})
  BY <1>1 DEF Starting, Plain
<1> QED BY <1>1, <1>4, <1>5, <1>6, NothingElse, CalmCalls

LEMMA DetachAllKeeps ==
  ASSUME Inv, NEW t \in Tasks, DetachAll(t)
  PROVE  Types' /\ Good(t)'
<1> DEFINE u == Now(t).u
           ops == [i \in 1 .. Len(Roles) |-> Op("detach", u, Roles[i], uart[u][Roles[i]])]
<1>1. ~Idle(t) /\ Now(t).op = "detachAll" /\ u \in Uarts
  BY HeadIsSound DEF DetachAll, Does, Inv, Plain
<1>2. ASSUME NEW r \in RoleSet PROVE Op("detach", u, r, uart[u][r]) \in EasyFor(Now(t))
  <2>1. uart[u][r] \in Pins \cup {NoPin}
    BY <1>1 DEF Inv, Types, TypeOK
  <2>2. Op("detach", u, r, uart[u][r]) \in Operation
    BY <1>1, <2>1, Names DEF Op, Operation, Ops, Sound, OpNames, Setting, Saving, Starting, Plain,
                             Attaching, Releasing
  <2>3. "detach" \in Free /\ "detach" \notin Setting \cup {"callback"}
    BY DEF Free, OpNames, Attaching, Releasing, Saving, Starting, Setting
  <2> QED BY <2>2, <2>3, OpFields DEF EasyFor
<1>3. ops \in Seq(EasyFor(Now(t)))
  <2>1. Len(Roles) \in Nat /\ \A i \in 1 .. Len(Roles) : Roles[i] \in RoleSet
    BY UartsAssumption DEF RoleSet
  <2>2. \A i \in 1 .. Len(Roles) : Op("detach", u, Roles[i], uart[u][Roles[i]]) \in EasyFor(Now(t))
    BY <1>2, <2>1
  <2> QED BY <2>1, <2>2
<1>4. Calls(t, ops) /\ UNCHANGED local /\ unchangedPeriMan /\ unchangedUarts /\ UNCHANGED lock
  BY DEF DetachAll, ForRoles
<1>5. Now(t).op \in Starting \cup (Plain \ {"plan", "restore", "and"})
  BY <1>1 DEF Plain
<1> HIDE DEF ops
<1> QED BY <1>1, <1>3, <1>4, <1>5, NothingElse, CalmCalls

LEMMA EndsOneThenGoesOn ==
  ASSUME NEW o, NEW v \in Uarts, NEW x \in EasyFor(o)
  PROVE  HardwareSerialEnd(v) \o <<x>> \in Seq(EasyFor(o))
<1>1. ForUart("end", v) \in EasyFor(o)
  BY EasyOps DEF Plain
<1>2. HardwareSerialEnd(v) \in Seq(EasyFor(o))
  BY <1>1 DEF HardwareSerialEnd
<1> HIDE DEF HardwareSerialEnd
<1> QED BY <1>2

LEMMA TerminateKeeps ==
  ASSUME Inv, NEW t \in Tasks, Terminate(t)
  PROVE  Types' /\ Good(t)'
<1>1. ~Idle(t) /\ Now(t).op = "terminate" /\ Now(t) \in Operation
  BY HeadIsSound DEF Terminate, Does, Inv
<1>2. /\ Now(t) \in EasyFor(Now(t))
      /\ Now(t).op \in Starting \cup (Plain \ {"plan", "restore", "and"})
      /\ Now(t).op \in Free \cup Starting \cup {"return"}
      /\ Now(t).op \notin Setting \cup {"callback", "detach"}
  BY <1>1 DEF EasyFor, Free, OpNames, Plain, Attaching, Releasing, Saving, Starting, Setting
<1>3. unchangedPeriMan /\ unchangedUarts /\ UNCHANGED lock
  BY DEF Terminate
<1>4. local[t] \in Local /\ local \in [Tasks -> Local]
  BY LocalKeepsType DEF Inv
<1>5. CASE Return(t, local[t].ok)
  <2>1. local[t].ok \in BOOLEAN
    BY <1>4 DEF Local
  <2>2. Turn(t, <<>>) /\ local' \in [Tasks -> Local] /\ local'[t].muted = local[t].muted
    BY <1>1, <1>5, <2>1, ReturnTurn DEF Inv
  <2>3. installed' \subseteq Uarts /\ registered' \subseteq Uarts
    BY <1>3 DEF unchangedUarts, Inv, Types, TypeOK
  <2> QED BY <1>2, <1>3, <2>2, <2>3, NothingElse, CalmStep
<1>6. CASE ~Return(t, local[t].ok)
  <2>1. PICK v \in local[t].victims :
          /\ Calls(t, HardwareSerialEnd(v) \o <<Now(t)>>)
          /\ local' = [local EXCEPT ![t].victims = @ \ {v}]
    BY <1>6 DEF Terminate
  <2>2. v \in Uarts /\ local' \in [Tasks -> Local] /\ local'[t].muted = local[t].muted
    BY <1>4, <2>1 DEF Local
  <2>3. HardwareSerialEnd(v) \o <<Now(t)>> \in Seq(EasyFor(Now(t)))
    BY <1>2, <2>2, EndsOneThenGoesOn
  <2> QED BY <1>1, <1>2, <1>3, <2>1, <2>2, <2>3, NothingElse, CalmCalls
<1> QED BY <1>5, <1>6

LEMMA BeginKeeps ==
  ASSUME Inv, NEW t \in Tasks, Begin(t)
  PROVE  Types' /\ Good(t)'
<1> DEFINE u == Now(t).u
           old(r) == IF r \in {"RX", "TX"} THEN uart[u][r] ELSE NoPin
           want == [r \in RoleSet |-> IF local[t].want[r] = NoPin THEN old(r) ELSE local[t].want[r]]
           ops == <<ForUart("lockSerial", u), ForUart("testBegin", u), ForUart("unlockSerial", u)>>
<1>1. ~Idle(t) /\ Now(t).op = "begin" /\ u \in Uarts
  BY HeadIsSound DEF Begin, Does, Inv, Starting
<1>2. ops \in Seq(EasyFor(Now(t)))
  <2>1. ForUart("lockSerial", u) \in EasyFor(Now(t)) /\ ForUart("unlockSerial", u) \in EasyFor(Now(t))
    BY <1>1, EasyOps DEF Plain
  <2>2. ForUart("testBegin", u) \in EasyFor(Now(t))
    BY <1>1, EasyOps DEF Starting
  <2> QED BY <2>1, <2>2
<1>3. /\ Calls(t, ops) /\ local' = [local EXCEPT ![t].want = want]
      /\ unchangedPeriMan /\ unchangedUarts /\ UNCHANGED lock
  BY DEF Begin
<1>4. want \in [RoleSet -> Pins \cup {NoPin}]
  <2>1. /\ local[t].want \in [RoleSet -> Pins \cup {NoPin}]
        /\ uart[u] \in [RoleSet -> Pins \cup {NoPin}]
    BY <1>1, LocalKeepsType DEF Inv, Local, Types, TypeOK
  <2>2. \A r \in RoleSet : old(r) \in Pins \cup {NoPin}
    BY <2>1, Names
  <2> HIDE DEF old
  <2> QED BY <2>1, <2>2
<1>5. Now(t).op \in Starting \cup (Plain \ {"plan", "restore", "and"})
  BY <1>1 DEF Starting
<1> HIDE DEF want, ops
<1>6. local' \in [Tasks -> Local] /\ local'[t].muted = local[t].muted
  BY <1>3, <1>4, LocalKeepsType, ZenonT(60) DEF Inv, Local
<1> QED BY <1>1, <1>2, <1>3, <1>5, <1>6, NothingElse, CalmCalls

LEMMA TestBeginKeeps ==
  ASSUME Inv, NEW t \in Tasks, TestBegin(t)
  PROVE  Types' /\ Good(t)'
<1> DEFINE u == Now(t).u
           default == u \notin installed /\ Want(t, "RX") = NoPin /\ Want(t, "TX") = NoPin
           pin(r) == IF uart[u][r] = NoPin THEN DefaultPin[u][r] ELSE uart[u][r]
           want == IF ~default THEN local[t].want
                   ELSE [r \in RoleSet |-> IF r \in {"RX", "TX"} THEN pin(r) ELSE NoPin]
           ops == IF want["RX"] = NoPin /\ want["TX"] = NoPin THEN <<>>
                  ELSE <<ForUart("uartBegin", u)>>
<1>1. ~Idle(t) /\ Now(t).op = "testBegin" /\ u \in Uarts
  BY HeadIsSound DEF TestBegin, Does, Inv, Starting
<1>2. ForUart("uartBegin", u) \in EasyFor(Now(t))
  BY <1>1, EasyOps DEF Starting
<1>3. /\ Calls(t, ops) /\ local' = [local EXCEPT ![t].want = want, ![t].ok = TRUE]
      /\ unchangedPeriMan /\ unchangedUarts /\ UNCHANGED lock
  BY DEF TestBegin
<1>4. want \in [RoleSet -> Pins \cup {NoPin}]
  <2>1. /\ local[t].want \in [RoleSet -> Pins \cup {NoPin}]
        /\ uart[u] \in [RoleSet -> Pins \cup {NoPin}]
    BY <1>1, LocalKeepsType DEF Inv, Local, Types, TypeOK
  <2>2. \A r \in {"RX", "TX"} : pin(r) \in Pins \cup {NoPin}
    BY <1>1, <2>1, Names, UartsAssumption
  <2> HIDE DEF pin, default
  <2>3. [r \in RoleSet |-> IF r \in {"RX", "TX"} THEN pin(r) ELSE NoPin]
          \in [RoleSet -> Pins \cup {NoPin}]
    BY <2>2
  <2> QED BY <2>1, <2>3
<1>5. Now(t).op \in Starting \cup (Plain \ {"plan", "restore", "and"})
  BY <1>1 DEF Starting
<1> HIDE DEF want
<1>6. local' \in [Tasks -> Local] /\ local'[t].muted = local[t].muted
  BY <1>3, <1>4, LocalKeepsType, ZenonT(60) DEF Inv, Local
<1>7. ops \in Seq(EasyFor(Now(t)))
  BY <1>2
<1> HIDE DEF ops
<1> QED BY <1>1, <1>3, <1>5, <1>6, <1>7, NothingElse, CalmCalls

LEMMA UartBeginKeeps ==
  ASSUME Inv, NEW t \in Tasks, UartBegin(t)
  PROVE  Types' /\ Good(t)'
<1> DEFINE u == Now(t).u
           move(r) == Op("move", u, r, Want(t, r))
           moving == <<ForUart("lock", u), move("RX"), move("TX"), ForUart("unlock", u),
                       ForUart("moved", u)>>
           again == <<ForUart("end", u), ForUart("install", u)>>
<1>1. ~Idle(t) /\ Now(t).op = "uartBegin" /\ u \in Uarts
  BY HeadIsSound DEF UartBegin, Does, Inv, Starting
<1>2. ForUart("install", u) \in EasyFor(Now(t)) /\ ForUart("moved", u) \in EasyFor(Now(t))
  BY <1>1, EasyOps DEF Starting
<1>3. \A what \in {"lock", "unlock", "end"} : ForUart(what, u) \in EasyFor(Now(t))
  BY EasyOps, <1>1 DEF Plain
<1>4. ASSUME NEW r \in {"RX", "TX"} PROVE move(r) \in EasyFor(Now(t))
  <2>1. r \in RoleSet /\ Want(t, r) \in Pins \cup {NoPin}
    <3>1. r \in RoleSet /\ local[t].want \in [RoleSet -> Pins \cup {NoPin}]
      BY Names, LocalKeepsType DEF Inv, Local
    <3> QED BY <3>1 DEF Want
  <2>2. move(r) \in Operation
    BY <1>1, <2>1, Names DEF Op, Operation, Ops, Sound, OpNames, Setting, Saving, Starting, Plain,
                             Attaching, Releasing
  <2>3. "move" \in Starting /\ "move" \notin Setting \cup {"callback"} /\ Now(t).op \in Starting
    BY <1>1 DEF Starting, Setting
  <2> QED BY <2>2, <2>3, OpFields DEF EasyFor
<1>5. /\ moving \in Seq(EasyFor(Now(t))) /\ again \in Seq(EasyFor(Now(t)))
      /\ <<ForUart("install", u)>> \in Seq(EasyFor(Now(t)))
  <2>1. move("RX") \in EasyFor(Now(t)) /\ move("TX") \in EasyFor(Now(t))
    BY <1>4
  <2> HIDE DEF move
  <2> QED BY <1>2, <1>3, <2>1
<1>6. PICK ops \in Seq(EasyFor(Now(t))) : Calls(t, ops)
  <2>1. Calls(t, moving) \/ Calls(t, again) \/ Calls(t, <<ForUart("install", u)>>)
    BY DEF UartBegin
  <2> HIDE DEF moving, again
  <2> QED BY <1>5, <2>1
<1>7. /\ UNCHANGED local /\ unchangedPeriMan /\ unchangedUarts
      /\ lock' = [lock EXCEPT ![<<"hal", u>>] = IF @ = "none" THEN "free" ELSE @]
  BY DEF UartBegin
<1>8. lock' \in [Locks -> {"none", "free"} \cup Tasks]
  BY <1>7 DEF Inv, Types, TypeOK
<1>9. /\ UNCHANGED <<pins, deinit_functions, uart, installed, registered>>
      /\ local' \in [Tasks -> Local] /\ local'[t].muted = local[t].muted
  BY <1>7 DEF unchangedPeriMan, unchangedUarts, Inv, Types
<1>10. Now(t).op \in Starting \cup (Plain \ {"plan", "restore", "and"})
  BY <1>1 DEF Starting
<1> QED BY <1>1, <1>6, <1>8, <1>9, <1>10, CalmCalls

LEMMA DecidingKeeps ==
  ASSUME Inv, NEW t \in Tasks, Moved(t) \/ Started(t)
  PROVE  Types' /\ Good(t)'
<1> DEFINE u == Now(t).u
           again == <<ForUart("end", u), ForUart("install", u)>>
           stop == <<ForUart("end", u)>>
<1>1. ~Idle(t) /\ Now(t).op \in {"moved", "started"} /\ u \in Uarts
  BY HeadIsSound DEF Moved, Started, Does, Inv, Starting, Plain
<1>2. Now(t).op = "moved" => ForUart("install", u) \in EasyFor(Now(t))
  BY <1>1, EasyOps DEF Starting
<1>3. \A what \in {"lock", "unlock", "end", "register"} : ForUart(what, u) \in EasyFor(Now(t))
  BY EasyOps, <1>1 DEF Plain
<1>4. /\ Settle(u) \in Seq(EasyFor(Now(t))) /\ stop \in Seq(EasyFor(Now(t)))
      /\ Now(t).op = "moved" => again \in Seq(EasyFor(Now(t)))
  BY <1>2, <1>3 DEF Settle
<1>5. PICK ops \in Seq(EasyFor(Now(t))) : Calls(t, ops)
  <2>1. Calls(t, Settle(u)) \/ Calls(t, stop) \/ (Now(t).op = "moved" /\ Calls(t, again))
    BY DEF Moved, Started, Does
  <2> HIDE DEF again, stop
  <2> QED BY <1>4, <2>1
<1>6. unchangedPeriMan /\ unchangedUarts /\ UNCHANGED lock /\ UNCHANGED local
  BY DEF Moved, Started
<1>7. Now(t).op \in Starting \cup (Plain \ {"plan", "restore", "and"})
  BY <1>1 DEF Starting, Plain
<1> QED BY <1>1, <1>5, <1>6, <1>7, NothingElse, CalmCalls

LEMMA InstalledKeeps ==
  ASSUME Inv, NEW t \in Tasks, Installed(t)
  PROVE  Types' /\ Good(t)'
<1> DEFINE u == Now(t).u
           go == <<ForUart("setPins", u), ForUart("started", u)>>
           stop == <<ForUart("end", u)>>
<1>1. ~Idle(t) /\ Now(t).op = "installed" /\ u \in Uarts
  BY HeadIsSound DEF Installed, Does, Inv, Starting
<1>2. ForUart("setPins", u) \in EasyFor(Now(t))
  BY <1>1, EasyOps DEF Starting
<1>3. \A what \in {"started", "end"} : ForUart(what, u) \in EasyFor(Now(t))
  BY EasyOps, <1>1 DEF Plain
<1>4. go \in Seq(EasyFor(Now(t))) /\ stop \in Seq(EasyFor(Now(t)))
  BY <1>2, <1>3
<1>5. PICK ops \in Seq(EasyFor(Now(t))) : Calls(t, ops)
  <2>1. Calls(t, go) \/ Calls(t, stop)
    BY DEF Installed
  <2> HIDE DEF go, stop
  <2> QED BY <1>4, <2>1
<1>6. unchangedPeriMan /\ unchangedUarts /\ UNCHANGED lock /\ UNCHANGED local
  BY DEF Installed
<1>7. Now(t).op \in Starting \cup (Plain \ {"plan", "restore", "and"})
  BY <1>1 DEF Starting
<1> QED BY <1>1, <1>5, <1>6, <1>7, NothingElse, CalmCalls

-----------------------------------------------------------------------------
(* Attaching a pin.                                                         *)
LEMMA QuietTurn ==
  ASSUME Inv, NEW t \in Tasks, NEW ops, Turn(t, ops),
         UNCHANGED <<pins, deinit_functions, uart, installed, registered, lock>>,
         local' \in [Tasks -> Local], local'[t].muted = local[t].muted,
         Now(t).op \notin Setting \cup Saving \cup {"callback", "note", "restore"},
         \A i \in 1 .. Len(ops) : ops[i].op \notin Saving,
         Fits(Now(t), ops), Ready(t)', Released(t)'
  PROVE  Types' /\ Good(t)'
<1>1. Types /\ InOrder(agenda[t]) /\ Known(t) /\ Told(t)
  BY DEF Inv, Good
<1>2. /\ installed' \subseteq Uarts /\ registered' \subseteq Uarts
      /\ lock' \in [Locks -> {"none", "free"} \cup Tasks]
  BY <1>1 DEF Types, TypeOK
<1>3. Types'
  BY <1>1, <1>2, TypesStay DEF Turn
<1>4. InOrder(agenda[t])'
  BY <1>1, OrderStays
<1>5. Known(t)'
  BY <1>1, NothingOnItsWay, KnownStays
<1>6. Told(t)'
  BY <1>1, ToldStays
<1> QED BY <1>3, <1>4, <1>5, <1>6 DEF Good

LEMMA Unassigns ==
  ASSUME Types, NEW p \in Pins, pins[p].type = "INIT"
  PROVE  pins[p] = Unassigned
BY Names DEF Types

LEMMA AttachingHead ==
  ASSUME Inv, NEW t \in Tasks, ~Idle(t), Now(t).op \in Attaching
  PROVE  /\ Now(t) \in Operation /\ Now(t).u \in Uarts /\ Now(t).role \in RoleSet
         /\ Now(t).pin \in Pins \cup {NoPin} /\ (Now(t).op # "attachIf" => Now(t).pin \in Pins)
         /\ \A what \in {"attach", "connect", "note"} : Now(t).pin \in Pins =>
              /\ [Now(t) EXCEPT !.op = what] \in Operation
              /\ [Now(t) EXCEPT !.op = what].op = what
              /\ [Now(t) EXCEPT !.op = what].u = Now(t).u
              /\ [Now(t) EXCEPT !.op = what].role = Now(t).role
              /\ [Now(t) EXCEPT !.op = what].pin = Now(t).pin
<1>1. Now(t) \in Operation
  BY HeadIsSound DEF Inv
<1>2. /\ Now(t).u \in Uarts /\ Now(t).role \in RoleSet
      /\ Now(t).pin \in Pins \cup {NoPin} /\ (Now(t).op # "attachIf" => Now(t).pin \in Pins)
  BY <1>1 DEF Operation, Ops, Sound, Attaching
<1>3. ASSUME NEW what \in {"attach", "connect", "note"}, Now(t).pin \in Pins
      PROVE  /\ [Now(t) EXCEPT !.op = what] \in Operation
             /\ [Now(t) EXCEPT !.op = what].op = what
             /\ [Now(t) EXCEPT !.op = what].u = Now(t).u
             /\ [Now(t) EXCEPT !.op = what].role = Now(t).role
             /\ [Now(t) EXCEPT !.op = what].pin = Now(t).pin
  <2> DEFINE x == [Now(t) EXCEPT !.op = what]
  <2>1. /\ x \in Ops /\ x.op = what /\ x.u = Now(t).u
        /\ x.role = Now(t).role /\ x.pin = Now(t).pin
    BY <1>1, <1>3 DEF Operation, Ops, OpNames, Attaching
  <2> HIDE DEF x
  <2>2. Sound(x)
    BY <1>2, <1>3, <2>1 DEF Sound, Attaching, Setting, Saving, Starting, Plain
  <2> QED BY <2>1, <2>2 DEF Operation, x
<1> QED BY <1>1, <1>2, <1>3

LEMMA ClearPinIsSound ==
  ASSUME NEW p \in Pins
  PROVE  /\ ClearPin(p) \in Operation /\ ClearPin(p).op = "setBus" /\ ClearPin(p).u = NULL
         /\ ClearPin(p).role = "INIT" /\ ClearPin(p).pin = p
BY Names DEF ClearPin, Op, Operation, Ops, OpNames, Sound, Attaching, Releasing, Saving, Starting,
             Setting, Plain

LEMMA AndKeepIsSound == AndKeep \in Operation /\ AndKeep.op = "and"
BY Names DEF AndKeep, Op, Operation, Ops, OpNames, Sound, Attaching, Releasing, Saving, Starting,
             Setting, Plain

LEMMA AttachIfKeeps ==
  ASSUME Inv, NEW t \in Tasks, AttachIf(t)
  PROVE  Types' /\ Good(t)'
<1> DEFINE o == Now(t)
           a == [o EXCEPT !.op = "attach"]
<1>1. ~Idle(t) /\ o.op = "attachIf" /\ o.op \in Attaching
  BY DEF AttachIf, Does, Attaching
<1>2. PICK ops : /\ Calls(t, ops)
                 /\ \/ ops = <<>>
                    \/ o.pin # NoPin /\ ops = <<a, AndKeep>>
  BY DEF AttachIf
<1>3. /\ o \in Operation /\ o.pin \in Pins \cup {NoPin}
      /\ o.pin # NoPin => /\ a \in Operation /\ a.op = "attach" /\ a.u = o.u
                          /\ a.role = o.role /\ a.pin = o.pin
  BY <1>1, AttachingHead
<1> HIDE DEF a
<1>4. ops \in Seq(Operation)
  <2>1. CASE ops = <<>>
    BY <2>1
  <2>2. CASE o.pin # NoPin /\ ops = <<a, AndKeep>>
    <3>1. a \in Operation /\ AndKeep \in Operation
      BY <1>3, <2>2, AndKeepIsSound
    <3> QED BY <2>2, <3>1
  <2> QED BY <1>2, <2>1, <2>2
<1>5. Turn(t, ops)
  BY <1>1, <1>2, <1>4, CallsReplaces DEF Inv
<1>6. Fits(o, ops)
  <2>1. CASE ops = <<>>
    BY <2>1, NothingFits
  <2>2. CASE o.pin # NoPin /\ ops = <<a, AndKeep>>
    <3>1. MayPrecede(a, AndKeep) /\ Follows(a, AndKeep)
      BY <1>3, <2>2, AndKeepIsSound DEF MayPrecede, Follows, Attaching, Releasing, Saving, Starting, Setting
    <3>2. \A y \in Operation : MayPrecede(o, y) => MayPrecede(a, y) /\ MayPrecede(AndKeep, y)
      BY <1>1, <1>3, <2>2, AndKeepIsSound DEF MayPrecede, Attaching, Releasing, Saving, Starting
    <3>3. \A y \in Operation : Follows(o, y) => Follows(AndKeep, y)
      BY <1>1 DEF Follows, Setting
    <3>4. Len(ops) = 2 /\ ops[1] = a /\ ops[2] = AndKeep
      BY <2>2
    <3> QED BY <1>4, <3>1, <3>2, <3>3, <3>4 DEF Fits
  <2> QED BY <1>2, <2>1, <2>2
<1>7. /\ UNCHANGED <<pins, deinit_functions, uart, installed, registered, lock>> /\ UNCHANGED local
      /\ local' \in [Tasks -> Local] /\ local'[t].muted = local[t].muted
  BY NothingElse DEF AttachIf
<1>8. \A i \in 1 .. Len(ops) : /\ ops[i].op \in {"attach", "and"}
                               /\ ops[i].op \in Attaching => /\ ops[i].u = o.u
                                    /\ ops[i].role = o.role /\ ops[i].pin = o.pin
  <2> TAKE i \in 1 .. Len(ops)
  <2>1. (ops[i] = a /\ o.pin # NoPin) \/ ops[i] = AndKeep
    BY <1>2
  <2> QED BY <1>3, <2>1, AndKeepIsSound DEF Attaching
<1>9. /\ o.op \notin Setting \cup Saving \cup Releasing \cup {"callback", "note", "restore", "detach"}
      /\ \A i \in 1 .. Len(ops) : ops[i].op \notin Saving
  BY <1>1, <1>8 DEF Setting, Saving, Releasing
<1>10. Ready(t)'
  <2>1. Len(ops) > 0 => ops[1].op \notin {"connect", "note"} \cup Setting
    <3>1. Len(ops) > 0 => 1 \in 1 .. Len(ops)
      BY <1>4
    <3> QED BY <1>8, <3>1 DEF Setting
  <2> QED BY <1>5, <1>9, <2>1, ReadyStays DEF Inv, Good
<1>11. Released(t)'
  BY <1>1, <1>5, <1>7, <1>8, <1>9, ReleasedStays DEF Inv, Good
<1> QED BY <1>5, <1>6, <1>7, <1>9, <1>10, <1>11, QuietTurn

LEMMA AttachKeeps ==
  ASSUME Inv, NEW t \in Tasks, Attach(t)
  PROVE  Types' /\ Good(t)'
<1> DEFINE o == Now(t)
           c == [o EXCEPT !.op = "connect"]
           free == ClearPin(o.pin)
           ops == IF pins[o.pin].type = "INIT" THEN <<c>> ELSE <<free, c>>
<1>1. ~Idle(t) /\ o.op = "attach" /\ o.op \in Attaching
  BY DEF Attach, Does, Attaching
<1>2. Calls(t, ops) /\ local' = [local EXCEPT ![t].result = TRUE]
  BY DEF Attach
<1>3. /\ o \in Operation /\ o.pin \in Pins /\ c \in Operation /\ c.op = "connect" /\ c.u = o.u
      /\ c.role = o.role /\ c.pin = o.pin
  BY <1>1, AttachingHead
<1>4. /\ free \in Operation /\ free.op = "setBus" /\ free.u = NULL
      /\ free.role = "INIT" /\ free.pin = o.pin
  BY <1>3, ClearPinIsSound
<1> HIDE DEF c, free
<1>5. ops \in Seq(Operation)
  BY <1>3, <1>4
<1>6. Turn(t, ops)
  BY <1>1, <1>2, <1>5, CallsReplaces DEF Inv
<1>7. Fits(o, ops)
  <2>1. /\ \A y \in Operation : MayPrecede(o, y) => MayPrecede(c, y) /\ MayPrecede(free, y)
        /\ MayPrecede(free, c)
    BY <1>1, <1>3, <1>4 DEF MayPrecede, Attaching, Releasing, Saving, Starting
  <2>2. Follows(free, c) /\ \A y \in Operation : Follows(o, y) => Follows(c, y)
    BY <1>1, <1>3, <1>4 DEF Follows, Setting
  <2>3. CASE pins[o.pin].type = "INIT"
    <3>1. Len(ops) = 1 /\ ops[1] = c
      BY <2>3
    <3> QED BY <1>5, <2>1, <2>2, <3>1 DEF Fits
  <2>4. CASE pins[o.pin].type # "INIT"
    <3>1. Len(ops) = 2 /\ ops[1] = free /\ ops[2] = c
      BY <2>4
    <3> QED BY <1>5, <2>1, <2>2, <3>1 DEF Fits
  <2> QED BY <2>3, <2>4
<1>8. /\ UNCHANGED <<pins, deinit_functions, uart, installed, registered, lock>>
  BY DEF Attach, unchangedPeriMan, unchangedUarts
<1>9. local' \in [Tasks -> Local] /\ local'[t].muted = local[t].muted
  BY <1>2, LocalKeepsType, ZenonT(60) DEF Inv, Local
<1>10. \A i \in 1 .. Len(ops) : ops[i] \in {free, c}
  OBVIOUS
<1>11. /\ o.op \notin Setting \cup Saving \cup Releasing \cup {"callback", "note", "restore", "detach"}
       /\ \A i \in 1 .. Len(ops) : ops[i].op \notin Saving
       /\ \A i \in 1 .. Len(ops) : ops[i].op \in Attaching =>
            ops[i].u = o.u /\ ops[i].role = o.role /\ ops[i].pin = o.pin
  BY <1>1, <1>3, <1>4, <1>10 DEF Setting, Saving, Releasing, Attaching
<1>12. Ready(t)'
  <2>1. CASE pins[o.pin].type = "INIT"
    <3>1. Len(ops) = 1 /\ ops[1] = c /\ pins[o.pin] = Unassigned
      BY <1>3, <2>1, Unassigns DEF Inv
    <3>2. Now(t)' = c
      BY <1>6, <3>1, TopOfAgenda
    <3> QED BY <1>3, <1>8, <3>1, <3>2 DEF Ready, Setting
  <2>2. CASE pins[o.pin].type # "INIT"
    <3>1. Len(ops) = 2 /\ ops[1] = free
      BY <2>2
    <3>2. ops[1].op \notin {"connect", "note"} /\ ops[1].role \notin RoleSet
      BY <1>4, <3>1, Names
    <3> QED BY <1>6, <1>11, <3>2, ReadyStays DEF Inv, Good
  <2> QED BY <2>1, <2>2
<1>13. Released(t)'
  BY <1>1, <1>6, <1>8, <1>11, ReleasedStays DEF Inv, Good
<1> QED BY <1>6, <1>7, <1>8, <1>9, <1>11, <1>12, <1>13, QuietTurn

LEMMA ConnectKeeps ==
  ASSUME Inv, NEW t \in Tasks, Connect(t)
  PROVE  Types' /\ Good(t)'
<1> DEFINE o == Now(t)
           n == [o EXCEPT !.op = "note"]
           set == SetPin(o.pin, o.role, o.u)
<1>1. ~Idle(t) /\ o.op = "connect" /\ o.op \in Attaching
  BY DEF Connect, Does, Attaching
<1>2. /\ o \in Operation /\ o.pin \in Pins /\ n \in Operation /\ n.op = "note" /\ n.u = o.u
      /\ n.role = o.role /\ n.pin = o.pin /\ o.u \in Uarts /\ o.role \in RoleSet
  BY <1>1, AttachingHead
<1>3. /\ set \in Operation /\ set.op = "setBus" /\ set.u = o.u /\ set.role = o.role
      /\ set.pin = o.pin /\ n = [set EXCEPT !.op = "note"]
  BY <1>2, Names DEF SetPin, Op, Operation, Ops, OpNames, Sound, Attaching, Releasing, Saving,
                     Starting, Setting, Plain
<1> HIDE DEF n, set
<1>4. PICK ops2 : /\ Turn(t, ops2)
                  /\ \/ ops2 = <<set, n>> /\ local[t].result /\ UNCHANGED local
                     \/ ops2 = <<>> /\ local'[t].result = FALSE
                  /\ local' \in [Tasks -> Local] /\ local'[t].muted = local[t].muted
  <2>1. CASE local[t].result /\ Calls(t, <<set, n>>) /\ UNCHANGED local
    <3>1. <<set, n>> \in Seq(Operation)
      BY <1>2, <1>3
    <3>2. Turn(t, <<set, n>>)
      BY <1>1, <2>1, <3>1, CallsReplaces DEF Inv
    <3> QED BY <2>1, <3>2, LocalKeepsType DEF Inv
  <2>2. CASE Return(t, FALSE)
    BY <1>1, <2>2, ReturnTurn DEF Inv
  <2> QED BY <2>1, <2>2 DEF Connect, n, set
<1>5. Fits(o, ops2)
  <2>1. CASE ops2 = <<>>
    BY <2>1, NothingFits
  <2>2. CASE ops2 = <<set, n>>
    <3>1. /\ \A y \in Operation : MayPrecede(o, y) => MayPrecede(set, y) /\ MayPrecede(n, y)
          /\ MayPrecede(set, n)
      BY <1>1, <1>2, <1>3 DEF MayPrecede, Attaching, Releasing, Saving, Starting
    <3>2. Follows(set, n) /\ \A y \in Operation : Follows(o, y) => Follows(n, y)
      BY <1>1, <1>2, <1>3 DEF Follows, Setting
    <3>3. Len(ops2) = 2 /\ ops2[1] = set /\ ops2[2] = n /\ ops2 \in Seq(Operation)
      BY <1>2, <1>3, <2>2
    <3> QED BY <3>1, <3>2, <3>3 DEF Fits
  <2> QED BY <1>4, <2>1, <2>2
<1>6. UNCHANGED <<pins, deinit_functions, uart, installed, registered, lock>>
  BY DEF Connect, unchangedPeriMan, unchangedUarts
<1>7. \A i \in 1 .. Len(ops2) : ops2[i] \in {set, n}
  BY <1>4
<1>8. /\ o.op \notin Setting \cup Saving \cup Releasing \cup {"callback", "note", "restore", "detach"}
      /\ \A i \in 1 .. Len(ops2) : ops2[i].op \notin Saving
      /\ \A i \in 1 .. Len(ops2) : ops2[i].op \in Attaching =>
           ops2[i].u = o.u /\ ops2[i].role = o.role /\ ops2[i].pin = o.pin
  BY <1>1, <1>2, <1>3, <1>7 DEF Setting, Saving, Releasing, Attaching
<1>9. Ready(t)'
  <2>1. CASE ops2 = <<set, n>> /\ local[t].result /\ UNCHANGED local
    <3>1. Len(ops2) = 2 /\ ops2[1] = set /\ ops2[2] = n
      BY <2>1
    <3>2. Now(t)' = set
      BY <1>4, <3>1, TopOfAgenda
    <3>3. Len(agenda'[t]) > 1 /\ agenda'[t][2] = n
      BY <1>4, <3>1 DEF Turn, Replaced
    <3>4. pins[o.pin] = Unassigned
      BY <1>1, <2>1 DEF Inv, Good, Ready
    <3> QED BY <1>2, <1>3, <1>6, <3>2, <3>3, <3>4 DEF Ready
  <2>2. CASE ops2 = <<>>
    <3>1. ~(Len(ops2) > 0)
      BY <2>2
    <3> QED BY <1>4, <1>8, <3>1, ReadyStays DEF Inv, Good
  <2> QED BY <1>4, <2>1, <2>2
<1>10. Released(t)'
  BY <1>1, <1>4, <1>6, <1>8, ReleasedStays DEF Inv, Good
<1> QED BY <1>4, <1>5, <1>6, <1>8, <1>9, <1>10, QuietTurn

-----------------------------------------------------------------------------
(* Releasing pins before others are attached.                               *)
LEMMA CoveredStays ==
  ASSUME NEW t, NEW ops, Turn(t, ops), UNCHANGED <<pins, uart>>, NEW o, Covered(t, o),
         Now(t).op \notin Releasing \cup {"detach"}
  PROVE  Covered(t, o)'
<1>1. Given(o) => Given(o)'
  BY DEF Given
<1>2. Awaits(t, o) => Awaits(t, o)'
  BY AwaitsStays
<1>3. ~Freeing(t, o)
  BY DEF Freeing
<1> QED BY <1>1, <1>2, <1>3 DEF Covered

LEMMA AwaitsTheHead ==
  ASSUME NEW t, NEW ops, Turn(t, ops), NEW o, Awaits(t, o)
  PROVE  \/ Awaits(t, o)'
         \/ /\ Now(t).op \in Releasing /\ Now(t).u = o.u /\ Now(t).role = o.role
            /\ Now(t).pin = o.pin
<1>1. PICK k \in 1 .. Len(agenda[t]) :
        LET x == agenda[t][k]
        IN x.op \in Releasing /\ x.u = o.u /\ x.role = o.role /\ x.pin = o.pin
  BY DEF Awaits
<1>2. CASE k = 1
  <2>1. Now(t) = agenda[t][1]
    BY TopOfAgenda
  <2> QED BY <1>1, <1>2, <2>1
<1>3. CASE k # 1
  <2>1. k \in 2 .. Len(agenda[t]) /\ Replaced(agenda[t], ops, agenda'[t])
    BY <1>1, <1>3, TopOfAgenda DEF Turn
  <2>2. PICK j \in 1 .. Len(agenda'[t]) : agenda'[t][j] = agenda[t][k]
    BY <2>1, WhereTo
  <2> QED BY <1>1, <2>2 DEF Awaits
<1> QED BY <1>2, <1>3

LEMMA AwaitsWhatIsPushed ==
  ASSUME NEW t, NEW ops, Turn(t, ops), NEW o, NEW i \in 1 .. Len(ops),
         ops[i].op \in Releasing, ops[i].u = o.u, ops[i].role = o.role, ops[i].pin = o.pin
  PROVE  Awaits(t, o)'
<1>1. Replaced(agenda[t], ops, agenda'[t])
  BY DEF Turn
<1>2. i \in 1 .. Len(agenda'[t]) /\ agenda'[t][i] = ops[i]
  BY <1>1 DEF Replaced
<1> QED BY <1>2 DEF Awaits

LEMMA DetachIsSound ==
  ASSUME NEW u \in Uarts, NEW r \in RoleSet, NEW p \in Pins \cup {NoPin}
  PROVE  /\ Op("detach", u, r, p) \in Operation /\ Op("detach", u, r, p).op = "detach"
         /\ Op("detach", u, r, p).u = u /\ Op("detach", u, r, p).role = r
         /\ Op("detach", u, r, p).pin = p
BY Names DEF Op, Operation, Ops, OpNames, Sound, Attaching, Releasing, Saving, Starting,
             Setting, Plain

LEMMA MoveKeeps ==
  ASSUME Inv, NEW t \in Tasks, Move(t)
  PROVE  Types' /\ Good(t)'
<1> DEFINE o == Now(t)
           old == uart[o.u][o.role]
           d == Op("detach", o.u, o.role, old)
           a == [o EXCEPT !.op = "attach"]
<1>1. ~Idle(t) /\ o.op = "move" /\ o \in Operation
  BY HeadIsSound DEF Move, Does, Inv
<1>2. o.u \in Uarts /\ o.role \in RoleSet /\ o.pin \in Pins \cup {NoPin} /\ o \in Ops
  BY <1>1 DEF Operation, Ops, Sound
<1>3. old \in Pins \cup {NoPin}
  BY <1>2 DEF Inv, Types, TypeOK
<1>4. d \in Operation /\ d.op = "detach" /\ d.u = o.u /\ d.role = o.role /\ d.pin = old
  BY <1>2, <1>3, DetachIsSound
<1>5. o.pin \in Pins => /\ a \in Operation /\ a.op = "attach" /\ a.u = o.u
                        /\ a.role = o.role /\ a.pin = o.pin
  <2> SUFFICES ASSUME o.pin \in Pins
               PROVE  a \in Operation /\ a.op = "attach" /\ a.u = o.u
                        /\ a.role = o.role /\ a.pin = o.pin
    OBVIOUS
  <2>1. a \in Ops /\ a.op = "attach" /\ a.u = o.u /\ a.role = o.role /\ a.pin = o.pin
    BY <1>1, <1>2 DEF Ops, OpNames, Attaching
  <2> HIDE DEF a
  <2>2. Sound(a)
    BY <1>2, <2>1 DEF Sound, Attaching, Setting, Saving, Starting, Plain
  <2> QED BY <2>1, <2>2 DEF Operation
<1>6. PICK ops : /\ Calls(t, ops)
                 /\ \/ ops = <<>>
                    \/ o.pin \in Pins /\ ops = <<d, AndKeep, a, AndKeep>>
  <2>1. o.pin > 0 => o.pin \in Pins
    BY <1>2 DEF NoPin
  <2> HIDE DEF d, a
  <2> QED BY <2>1 DEF Move, d, a
<1> HIDE DEF old, d, a
<1>7. ops \in Seq(Operation)
  <2>1. CASE ops = <<>>
    BY <2>1
  <2>2. CASE o.pin \in Pins /\ ops = <<d, AndKeep, a, AndKeep>>
    <3>1. a \in Operation /\ d \in Operation /\ AndKeep \in Operation
      BY <1>4, <1>5, <2>2, AndKeepIsSound
    <3> QED BY <2>2, <3>1
  <2> QED BY <1>6, <2>1, <2>2
<1>8. Turn(t, ops)
  BY <1>1, <1>6, <1>7, CallsReplaces DEF Inv
<1>9. UNCHANGED <<pins, deinit_functions, uart, installed, registered, lock, local>>
  BY DEF Move, unchangedPeriMan, unchangedUarts
<1>10. local' \in [Tasks -> Local] /\ local'[t].muted = local[t].muted
  BY <1>9 DEF Inv, Types
<1>11. CASE ops = <<>>
  <2>1. Fits(o, ops)
    BY <1>11, NothingFits
  <2>2. ~(Len(ops) > 0) /\ 1 .. Len(ops) = {}
    BY <1>11
  <2>3. /\ o.op \notin Setting \cup Saving \cup Releasing \cup {"callback", "note", "restore", "detach"}
    BY <1>1 DEF Setting, Saving, Releasing
  <2>4. Ready(t)'
    BY <1>8, <2>2, <2>3, ReadyStays DEF Inv, Good
  <2>5. Released(t)'
    BY <1>8, <1>9, <2>2, <2>3, ReleasedStays DEF Inv, Good
  <2> QED BY <1>8, <1>9, <1>10, <2>1, <2>2, <2>3, <2>4, <2>5, QuietTurn
<1>12. CASE o.pin \in Pins /\ ops = <<d, AndKeep, a, AndKeep>>
  <2>1. Len(ops) = 4 /\ ops[1] = d /\ ops[2] = AndKeep /\ ops[3] = a /\ ops[4] = AndKeep
    BY <1>12
  <2>2. Fits(o, ops)
    <3>1. \A y : MayPrecede(d, y) /\ MayPrecede(AndKeep, y)
      BY <1>4, AndKeepIsSound DEF MayPrecede, Attaching, Releasing, Saving, Starting
    <3>2. \A y \in Operation : MayPrecede(o, y) => MayPrecede(a, y)
      BY <1>1, <1>5, <1>12 DEF MayPrecede, Attaching, Releasing, Saving, Starting
    <3>3. MayPrecede(a, AndKeep)
      BY <1>5, <1>12, AndKeepIsSound DEF MayPrecede, Attaching, Releasing, Saving, Starting
    <3>4. Follows(d, AndKeep) /\ Follows(AndKeep, a) /\ Follows(a, AndKeep)
      BY <1>5, <1>12, AndKeepIsSound DEF Follows, Setting
    <3>5. \A y \in Operation : Follows(o, y) => Follows(AndKeep, y)
      BY <1>1 DEF Follows, Setting
    <3> QED BY <1>7, <2>1, <3>1, <3>2, <3>3, <3>4, <3>5 DEF Fits
  <2>3. /\ o.op \notin Setting \cup Saving \cup Releasing \cup {"callback", "note", "restore", "detach"}
    BY <1>1 DEF Setting, Saving, Releasing
  <2>4. Now(t)' = d
    BY <1>8, <2>1, TopOfAgenda
  <2>5. Ready(t)'
    BY <1>4, <1>8, <2>1, <2>3, ReadyStays DEF Inv, Good, Setting
  <2>6. \A i \in 1 .. Len(ops) : ops[i] \in {d, AndKeep, a}
    BY <2>1
  <2>7. \A i \in 1 .. Len(ops) : ops[i].op \notin Saving
    BY <1>4, <1>5, <1>12, <2>6, AndKeepIsSound DEF Saving
  <2>8. Released(t)'
    <3>1. ASSUME NEW i \in 1 .. Len(ops), NEW x \in Operation, ops[i] = x, x.op \in Attaching
          PROVE  Covered(t, x)'
      <4>1. x = a
        BY <1>4, <2>6, <3>1, AndKeepIsSound DEF Attaching
      <4>2. Freeing(t, x)'
        BY <1>4, <1>5, <1>9, <1>12, <2>4, <4>1 DEF Freeing, old
      <4> QED BY <4>2 DEF Covered
    <3> QED BY <1>8, <1>9, <2>3, <3>1, CoveredStays, ReleasedLater DEF Inv, Good
  <2> QED BY <1>8, <1>9, <1>10, <2>2, <2>3, <2>5, <2>7, <2>8, QuietTurn
<1> QED BY <1>6, <1>11, <1>12

LEMMA ReleasingHead ==
  ASSUME Inv, NEW t \in Tasks, ~Idle(t), Now(t).op \in Releasing
  PROVE  /\ Now(t) \in Operation /\ Now(t).u \in Uarts /\ Now(t).role \in RoleSet
         /\ Now(t).pin \in Pins \cup {NoPin} /\ (Now(t).op = "releaseOld" => Now(t).pin \in Pins)
         /\ Now(t).op \notin Setting \cup Saving \cup Attaching
                               \cup {"callback", "note", "restore", "detach"}
<1>1. Now(t) \in Operation
  BY HeadIsSound DEF Inv
<1> QED BY <1>1 DEF Operation, Ops, Sound, Releasing, Attaching, Setting, Saving

LEMMA NothingPushed ==
  ASSUME Inv, NEW t \in Tasks, Turn(t, <<>>), Now(t).op \notin Setting
  PROVE  Fits(Now(t), <<>>) /\ Ready(t)'
<1> DEFINE e == <<>>
<1>1. ~(Len(e) > 0)
  OBVIOUS
<1>2. Turn(t, e)
  OBVIOUS
<1> HIDE DEF e
<1>3. Ready(t)'
  BY <1>1, <1>2, ReadyStays DEF Inv, Good
<1> QED BY <1>3, NothingFits

LEMMA ReleaseOldKeeps ==
  ASSUME Inv, NEW t \in Tasks, ReleaseOld(t)
  PROVE  Types' /\ Good(t)'
<1> DEFINE o == Now(t)
           old == uart[o.u][o.role]
           d == Op("detach", o.u, o.role, old)
<1>1. ~Idle(t) /\ o.op = "releaseOld" /\ o.op \in Releasing
  BY DEF ReleaseOld, Does, Releasing
<1>2. /\ o \in Operation /\ o.u \in Uarts /\ o.role \in RoleSet /\ o.pin \in Pins
      /\ o.op \notin Setting \cup Saving \cup {"callback", "note", "restore"} /\ o.op # "detach"
  BY <1>1, ReleasingHead
<1>3. old \in Pins \cup {NoPin}
  BY <1>2 DEF Inv, Types, TypeOK
<1>4. d \in Operation /\ d.op = "detach" /\ d.u = o.u /\ d.role = o.role /\ d.pin = old
  BY <1>2, <1>3, DetachIsSound
<1>5. PICK ops : /\ Calls(t, ops)
                 /\ \/ ops = <<>> /\ old \in {o.pin, NoPin}
                    \/ ops = <<d, AndKeep>>
  <2> HIDE DEF d
  <2> QED BY DEF ReleaseOld, d
<1> HIDE DEF old, d
<1>6. ops \in Seq(Operation)
  <2>1. CASE ops = <<>>
    BY <2>1
  <2>2. CASE ops = <<d, AndKeep>>
    BY <1>4, <2>2, AndKeepIsSound
  <2> QED BY <1>5, <2>1, <2>2
<1>7. Turn(t, ops)
  BY <1>1, <1>5, <1>6, CallsReplaces DEF Inv
<1>8. UNCHANGED <<pins, deinit_functions, uart, installed, registered, lock, local>>
  BY DEF ReleaseOld, unchangedPeriMan, unchangedUarts
<1>9. local' \in [Tasks -> Local] /\ local'[t].muted = local[t].muted
  BY <1>8 DEF Inv, Types
<1>10. \A x : Given(x) => Given(x)'
  BY <1>8 DEF Given
<1> PICK h : h = o
  OBVIOUS
<1>11. ASSUME NEW x \in Operation, Covered(t, x), Given(h)' \/ Freeing(t, h)'
       PROVE  Covered(t, x)'
  <2>1. ~Freeing(t, x)
    BY <1>2 DEF Freeing
  <2>2. CASE Given(x)
    BY <1>10, <2>2 DEF Covered
  <2>3. CASE Awaits(t, x)'
    BY <2>3 DEF Covered
  <2>4. CASE o.u = x.u /\ o.role = x.role /\ o.pin = x.pin
    BY <1>11, <2>4 DEF Covered, Given, Freeing
  <2>5. Awaits(t, x) => Awaits(t, x)' \/ (o.u = x.u /\ o.role = x.role /\ o.pin = x.pin)
    BY <1>7, AwaitsTheHead
  <2> QED BY <1>11, <2>1, <2>2, <2>3, <2>4, <2>5 DEF Covered
<1>12. CASE ops = <<>> /\ old \in {o.pin, NoPin}
  <2>1. 1 .. Len(ops) = {}
    BY <1>12
  <2>2. Given(h)'
    BY <1>8, <1>12 DEF Given, old
  <2>3. Released(t)'
    BY <1>7, <1>11, <2>1, <2>2, ReleasedLater DEF Inv, Good
  <2>4. Fits(o, ops) /\ Ready(t)'
    BY <1>2, <1>7, <1>12, NothingPushed
  <2> QED BY <1>2, <1>7, <1>8, <1>9, <2>1, <2>3, <2>4, QuietTurn
<1>13. CASE ops = <<d, AndKeep>>
  <2>1. Len(ops) = 2 /\ ops[1] = d /\ ops[2] = AndKeep
    BY <1>13
  <2>2. Fits(o, ops)
    <3>1. \A y : MayPrecede(d, y) /\ MayPrecede(AndKeep, y)
      BY <1>4, AndKeepIsSound DEF MayPrecede, Attaching, Releasing, Saving, Starting
    <3>2. Follows(d, AndKeep)
      BY AndKeepIsSound DEF Follows, Setting
    <3>3. \A y \in Operation : Follows(o, y) => Follows(AndKeep, y)
      BY <1>1, <1>2 DEF Follows
    <3> QED BY <1>6, <2>1, <3>1, <3>2, <3>3 DEF Fits
  <2>3. Now(t)' = d
    BY <1>7, <2>1, TopOfAgenda
  <2>4. Ready(t)'
    BY <1>2, <1>4, <1>7, <2>1, ReadyStays DEF Inv, Good, Setting
  <2>5. \A i \in 1 .. Len(ops) : ops[i].op \notin Saving \cup Attaching
    BY <1>4, <2>1, AndKeepIsSound DEF Saving, Attaching
  <2>6. Freeing(t, h)'
    BY <1>4, <1>8, <2>3 DEF Freeing, old
  <2>7. Released(t)'
    BY <1>7, <1>11, <2>5, <2>6, ReleasedLater DEF Inv, Good
  <2> QED BY <1>2, <1>7, <1>8, <1>9, <2>2, <2>4, <2>5, <2>7, QuietTurn
<1> QED BY <1>5, <1>12, <1>13

LEMMA ReleaseKeeps ==
  ASSUME Inv, NEW t \in Tasks, Release(t)
  PROVE  Types' /\ Good(t)'
<1> DEFINE o == Now(t)
           taken == pins[o.pin]
           conflict == o.role \in local[t].attach /\ taken.type \in RoleSet
           d == Op("detach", taken.bus, taken.type, o.pin)
           rest == [o EXCEPT !.op = "releaseOld"]
<1>1. ~Idle(t) /\ o.op = "release" /\ o.op \in Releasing
  BY DEF Release, Does, Releasing
<1>2. /\ o \in Operation /\ o.u \in Uarts /\ o.role \in RoleSet /\ o.pin \in Pins \cup {NoPin}
      /\ o.op \notin Setting \cup Saving \cup {"callback", "note", "restore"} /\ o.op # "detach"
  BY <1>1, ReleasingHead
<1>3. UNCHANGED <<pins, deinit_functions, uart, installed, registered, lock>>
  BY DEF Release, unchangedPeriMan, unchangedUarts
<1>4. \A x : Given(x) => Given(x)'
  BY <1>3 DEF Given
<1>5. CASE o.pin = NoPin
  <2>1. Done(t) /\ UNCHANGED local
    BY <1>5 DEF Release
  <2>2. Turn(t, <<>>)
    BY <1>1, <2>1, DoneTurn DEF Inv
  <2>3. local' \in [Tasks -> Local] /\ local'[t].muted = local[t].muted
    BY <2>1 DEF Inv, Types
  <2>4. Fits(o, <<>>) /\ Ready(t)'
    BY <1>2, <2>2, NothingPushed
  <2>5. PICK ops : ops = <<>>
    OBVIOUS
  <2>6. 1 .. Len(ops) = {} /\ Turn(t, ops) /\ Fits(o, ops)
    BY <2>2, <2>4, <2>5
  <2>7. ASSUME NEW x \in Operation, x.pin # NoPin, Covered(t, x)
        PROVE  Covered(t, x)'
    <3>1. ~Freeing(t, x)
      BY <1>2 DEF Freeing
    <3>2. Awaits(t, x) => Awaits(t, x)'
      BY <1>5, <2>2, <2>7, AwaitsTheHead
    <3> QED BY <1>4, <2>7, <3>1, <3>2 DEF Covered
  <2>8. Released(t)'
    BY <2>6, <2>7, ReleasedLater DEF Inv, Good
  <2> QED BY <1>2, <1>3, <2>3, <2>4, <2>6, <2>8, QuietTurn
<1>6. CASE o.pin # NoPin
  <2>1. o.pin \in Pins
    BY <1>2, <1>6
  <2>2. /\ rest \in Operation /\ rest.op = "releaseOld" /\ rest.u = o.u
        /\ rest.role = o.role /\ rest.pin = o.pin
    <3>1. /\ rest \in Ops /\ rest.op = "releaseOld" /\ rest.u = o.u
          /\ rest.role = o.role /\ rest.pin = o.pin
      BY <1>2, <2>1 DEF Operation, Ops, OpNames, Releasing
    <3> HIDE DEF rest
    <3>2. Sound(rest)
      BY <1>2, <2>1, <3>1 DEF Sound, Attaching, Setting, Saving, Starting, Plain, Releasing
    <3> QED BY <3>1, <3>2 DEF Operation
  <2>3. taken.type \in RoleSet => taken.bus \in Uarts
    BY <2>1, Names DEF Inv, Types, Unassigned
  <2>4. conflict => d \in Operation /\ d.op = "detach"
    BY <2>1, <2>3, DetachIsSound
  <2> DEFINE ops == IF conflict THEN <<d, AndKeep, rest>> ELSE <<rest>>
             gone == IF conflict THEN local[t].victims \cup ({taken.bus} \ {o.u}) ELSE local[t].victims
  <2>5. Calls(t, ops) /\ local' = [local EXCEPT ![t].victims = gone]
    BY <1>6 DEF Release
  <2>6. \/ conflict /\ ops = <<d, AndKeep, rest>>
        \/ ops = <<rest>>
    OBVIOUS
  <2>7. gone \subseteq Uarts
    <3>1. local[t].victims \subseteq Uarts
      BY LocalKeepsType DEF Inv, Local
    <3>2. conflict => taken.bus \in Uarts
      BY <2>3
    <3> HIDE DEF conflict, taken
    <3> QED BY <3>1, <3>2
  <2> HIDE DEF d, rest, conflict, gone, ops
  <2>8. local' \in [Tasks -> Local] /\ local'[t].muted = local[t].muted
    BY <2>5, <2>7, LocalKeepsType, ZenonT(60) DEF Inv, Local
  <2>9. ops \in Seq(Operation)
    <3>1. CASE conflict /\ ops = <<d, AndKeep, rest>>
      <4>1. d \in Operation
        BY <2>4, <3>1
      <4> QED BY <2>2, <3>1, <4>1, AndKeepIsSound
    <3>2. CASE ops = <<rest>>
      BY <2>2, <3>2
    <3> QED BY <2>6, <3>1, <3>2
  <2>10. Turn(t, ops)
    BY <1>1, <2>5, <2>9, CallsReplaces DEF Inv
  <2>11. PICK n \in 1 .. Len(ops) : ops[n] = rest
    <3>1. CASE ops = <<d, AndKeep, rest>>
      <4>1. 3 \in 1 .. Len(ops) /\ ops[3] = rest
        BY <3>1
      <4> QED BY <4>1
    <3>2. CASE ops = <<rest>>
      <4>1. 1 \in 1 .. Len(ops) /\ ops[1] = rest
        BY <3>2
      <4> QED BY <4>1
    <3> QED BY <2>6, <3>1, <3>2
  <2>12. ASSUME NEW x \in Operation, Covered(t, x)
         PROVE  Covered(t, x)'
    <3>1. ~Freeing(t, x)
      BY <1>2 DEF Freeing
    <3>2. CASE o.u = x.u /\ o.role = x.role /\ o.pin = x.pin
      <4>1. ops[n].op \in Releasing /\ ops[n].u = x.u /\ ops[n].role = x.role /\ ops[n].pin = x.pin
        BY <2>2, <2>11, <3>2 DEF Releasing
      <4>2. Awaits(t, x)'
        BY <2>10, <4>1, AwaitsWhatIsPushed
      <4> QED BY <4>2 DEF Covered
    <3>3. Awaits(t, x) => Awaits(t, x)' \/ (o.u = x.u /\ o.role = x.role /\ o.pin = x.pin)
      BY <2>10, AwaitsTheHead
    <3> QED BY <1>4, <2>12, <3>1, <3>2, <3>3 DEF Covered
  <2>13. /\ \A y : (conflict => MayPrecede(d, y)) /\ MayPrecede(AndKeep, y)
         /\ \A y \in Operation : MayPrecede(o, y) => MayPrecede(rest, y)
    BY <1>1, <2>2, <2>4, AndKeepIsSound DEF MayPrecede, Attaching, Releasing, Saving, Starting
  <2>14. /\ Follows(d, AndKeep) /\ Follows(AndKeep, rest)
         /\ \A y \in Operation : Follows(o, y) => Follows(rest, y)
    BY <1>1, <1>2, <2>2, AndKeepIsSound DEF Follows, Setting
  <2>15. Fits(o, ops)
    <3>1. CASE conflict /\ ops = <<d, AndKeep, rest>>
      <4>1. Len(ops) = 3 /\ ops[1] = d /\ ops[2] = AndKeep /\ ops[3] = rest
        BY <3>1
      <4> QED BY <2>9, <2>13, <2>14, <3>1, <4>1 DEF Fits
    <3>2. CASE ops = <<rest>>
      <4>1. Len(ops) = 1 /\ ops[1] = rest
        BY <3>2
      <4> QED BY <2>9, <2>13, <2>14, <4>1 DEF Fits
    <3> QED BY <2>6, <3>1, <3>2
  <2>16. \A i \in 1 .. Len(ops) : ops[i].op \in {"detach", "and", "releaseOld"}
    <3>1. CASE conflict /\ ops = <<d, AndKeep, rest>>
      <4>1. \A i \in 1 .. Len(ops) : ops[i] \in {d, AndKeep, rest}
        BY <3>1
      <4> QED BY <2>2, <2>4, <3>1, <4>1, AndKeepIsSound
    <3>2. CASE ops = <<rest>>
      BY <2>2, <3>2
    <3> QED BY <2>6, <3>1, <3>2
  <2>17. \A i \in 1 .. Len(ops) : ops[i].op \notin Saving \cup Attaching \cup Setting
    BY <2>16 DEF Saving, Attaching, Setting
  <2>18. Ready(t)'
    <3>1. 1 \in 1 .. Len(ops)
      BY <2>9, <2>11
    <3>2. ops[1].op \notin {"connect", "note"} \cup Setting
      BY <2>17, <3>1 DEF Attaching
    <3> QED BY <1>2, <2>10, <3>2, ReadyStays DEF Inv, Good
  <2>19. Released(t)'
    BY <2>10, <2>12, <2>17, ReleasedLater DEF Inv, Good
  <2> QED BY <1>2, <1>3, <2>8, <2>10, <2>15, <2>17, <2>18, <2>19, QuietTurn
<1> QED BY <1>5, <1>6

(* The turn of Plan: every role releases, then every role attaches.         *)
LEMMA PlanTurn ==
  ASSUME Types, NEW t \in Tasks, Plan(t)
  PROVE  \E ops :
    /\ Turn(t, ops) /\ Now(t).op = "plan" /\ Now(t).u \in Uarts
    /\ local' \in [Tasks -> Local] /\ local'[t].muted = local[t].muted /\ local'[t].want = local[t].want
    /\ UNCHANGED <<pins, deinit_functions, uart, installed, registered, lock>>
    /\ Len(ops) = Len(Roles) + Len(Roles)
    /\ \A i \in 1 .. Len(Roles) :
         /\ ops[i].op = "release" /\ ops[i].u = Now(t).u
         /\ ops[i].role = Roles[i] /\ ops[i].pin = Want(t, Roles[i])
    /\ \A i \in 1 .. Len(ops) :
         \/ i \in 1 .. Len(Roles)
         \/ LET k == i - Len(Roles)
            IN /\ k \in 1 .. Len(Roles) /\ i > Len(Roles)
               /\ ops[i].op = "attachIf" /\ ops[i].u = Now(t).u /\ ops[i].role = Roles[k]
               /\ ops[i].pin = NoPin \/ (ops[i].pin = Want(t, Roles[k]) /\ Roles[k] \in local'[t].attach)
<1> DEFINE o == Now(t)
           n == Len(Roles)
           A == {r \in RoleSet : Want(t, r) # NoPin /\ ~AlreadyAssigned(Want(t, r), r, o.u)}
           aim(r) == IF r \in A THEN Want(t, r) ELSE NoPin
           rel(i) == Op("release", o.u, Roles[i], Want(t, Roles[i]))
           att(i) == Op("attachIf", o.u, Roles[i], aim(Roles[i]))
           R == [i \in 1 .. n |-> rel(i)]
           T == [i \in 1 .. n |-> att(i)]
           ops == R \o T
<1>1. ~Idle(t) /\ o.op = "plan" /\ o.u \in Uarts
  BY HeadIsSound DEF Plan, Does, Plain
<1>2. local' = [local EXCEPT ![t].had = uart, ![t].attach = A]
  BY DEF Plan
<1>3. A \subseteq RoleSet /\ uart \in [Uarts -> [RoleSet -> Pins \cup {NoPin}]]
  BY DEF Types, TypeOK
<1>4. /\ local' \in [Tasks -> Local] /\ local'[t].muted = local[t].muted
      /\ local'[t].attach = A /\ local'[t].want = local[t].want
  <2> HIDE DEF A
  <2> QED BY <1>2, <1>3, LocalKeepsType, ZenonT(60) DEF Local
<1>5. Calls(t, ops)
  BY <1>4 DEF Plan, ForRoles
<1>6. n \in Nat /\ \A i \in 1 .. n : Roles[i] \in RoleSet
  BY UartsAssumption DEF RoleSet
<1>7. \A r \in RoleSet : Want(t, r) \in Pins \cup {NoPin}
                         /\ (aim(r) = NoPin \/ (aim(r) = Want(t, r) /\ r \in A))
  <2>1. local[t].want \in [RoleSet -> Pins \cup {NoPin}]
    BY LocalKeepsType DEF Local
  <2> HIDE DEF A
  <2> QED BY <2>1 DEF Want
<1> HIDE DEF A, aim
<1>8. \A i \in 1 .. n : /\ rel(i) \in Operation /\ rel(i).op = "release" /\ rel(i).u = o.u
                        /\ rel(i).role = Roles[i] /\ rel(i).pin = Want(t, Roles[i])
                        /\ att(i) \in Operation /\ att(i).op = "attachIf" /\ att(i).u = o.u
                        /\ att(i).role = Roles[i]
                        /\ att(i).pin = NoPin \/ (att(i).pin = Want(t, Roles[i]) /\ Roles[i] \in A)
  <2> TAKE i \in 1 .. n
  <2>1. /\ Roles[i] \in RoleSet /\ Want(t, Roles[i]) \in Pins \cup {NoPin}
        /\ aim(Roles[i]) = NoPin \/ (aim(Roles[i]) = Want(t, Roles[i]) /\ Roles[i] \in A)
    BY <1>6, <1>7
  <2> QED BY <1>1, <2>1, Names DEF Op, Operation, Ops, OpNames, Sound, Attaching, Releasing, Saving,
                                   Starting, Setting, Plain
<1> HIDE DEF rel, att
<1>9. /\ R \in Seq(Operation) /\ T \in Seq(Operation) /\ Len(R) = n /\ Len(T) = n
      /\ \A i \in 1 .. n : R[i] = rel(i) /\ T[i] = att(i)
  BY <1>6, <1>8
<1>10. /\ ops \in Seq(Operation) /\ Len(ops) = n + n
       /\ \A i \in 1 .. n + n : ops[i] = IF i <= n THEN R[i] ELSE T[i - n]
  <2> HIDE DEF R, T
  <2>1. /\ ops \in Seq(Operation) /\ Len(ops) = Len(R) + Len(T)
        /\ \A i \in 1 .. Len(R) + Len(T) : ops[i] = IF i <= Len(R) THEN R[i] ELSE T[i - Len(R)]
    BY <1>9, ConcatProperties, ZenonT(60)
  <2> HIDE DEF ops
  <2> QED BY <1>9, <2>1
<1> HIDE DEF ops, R, T
<1>11. \A i \in 1 .. n : ops[i] = rel(i)
  <2>1. \A i \in 1 .. n : i \in 1 .. n + n /\ i <= n
    BY <1>6
  <2> QED BY <1>9, <1>10, <2>1
<1>12. \A i \in 1 .. Len(ops) : i \in 1 .. n \/ (i > n /\ i - n \in 1 .. n /\ ops[i] = att(i - n))
  <2> SUFFICES ASSUME NEW i \in 1 .. Len(ops), i \notin 1 .. n
               PROVE  i > n /\ i - n \in 1 .. n /\ ops[i] = att(i - n)
    OBVIOUS
  <2>1. i > n /\ i - n \in 1 .. n /\ i \in 1 .. n + n /\ ~(i <= n)
    BY <1>6, <1>10
  <2> QED BY <1>9, <1>10, <2>1
<1>13. Turn(t, ops)
  BY <1>1, <1>5, <1>10, CallsReplaces
<1>14. UNCHANGED <<pins, deinit_functions, uart, installed, registered, lock>>
  BY DEF Plan, unchangedPeriMan, unchangedUarts
<1>15. \A i \in 1 .. n : /\ ops[i].op = "release" /\ ops[i].u = o.u
                         /\ ops[i].role = Roles[i] /\ ops[i].pin = Want(t, Roles[i])
  BY <1>8, <1>11
<1>16. \A i \in 1 .. Len(ops) :
         \/ i \in 1 .. n
         \/ LET k == i - n
            IN /\ k \in 1 .. n /\ i > n
               /\ ops[i].op = "attachIf" /\ ops[i].u = o.u /\ ops[i].role = Roles[k]
               /\ ops[i].pin = NoPin \/ (ops[i].pin = Want(t, Roles[k]) /\ Roles[k] \in A)
  BY <1>8, <1>12
<1> HIDE DEF n, o
<1>17. /\ Turn(t, ops) /\ o.op = "plan" /\ o.u \in Uarts /\ Len(ops) = n + n
  BY <1>1, <1>10, <1>13
<1> QED BY <1>4, <1>14, <1>15, <1>16, <1>17 DEF n, o

LEMMA PlanKeeps ==
  ASSUME Inv, NEW t \in Tasks, Plan(t)
  PROVE  Types' /\ Good(t)'
<1> DEFINE o == Now(t)
           n == Len(Roles)
<1>1. PICK ops :
    /\ Turn(t, ops) /\ o.op = "plan" /\ o.u \in Uarts
    /\ local' \in [Tasks -> Local] /\ local'[t].muted = local[t].muted
    /\ UNCHANGED <<pins, deinit_functions, uart, installed, registered, lock>>
    /\ Len(ops) = n + n
    /\ \A i \in 1 .. n : /\ ops[i].op = "release" /\ ops[i].u = o.u
                         /\ ops[i].role = Roles[i] /\ ops[i].pin = Want(t, Roles[i])
    /\ \A i \in 1 .. Len(ops) :
         \/ i \in 1 .. n
         \/ /\ i > n /\ i - n \in 1 .. n
            /\ ops[i].op = "attachIf" /\ ops[i].u = o.u /\ ops[i].role = Roles[i - n]
            /\ ops[i].pin \in {Want(t, Roles[i - n]), NoPin}
  BY PlanTurn DEF Inv
<1>2. n \in Nat /\ ops \in Seq(Operation)
  BY <1>1, UartsAssumption DEF Turn
<1>3. o.op \notin Setting \cup Saving \cup Releasing \cup Attaching
                    \cup {"callback", "note", "restore", "detach"}
  BY <1>1 DEF Setting, Saving, Releasing, Attaching
<1>4. \A i \in 1 .. Len(ops) : ops[i].op \in {"release", "attachIf"}
  BY <1>1
<1>5. Fits(o, ops)
  <2>1. ASSUME NEW i \in 1 .. Len(ops), NEW j \in 1 .. Len(ops), i < j
        PROVE  MayPrecede(ops[i], ops[j])
    <3>1. CASE i \in 1 .. n
      <4>1. ops[i].op = "release" /\ ops[j].op \in {"release", "attachIf"}
        BY <1>1, <1>4, <3>1
      <4> QED BY <4>1 DEF MayPrecede, Attaching, Releasing, Saving, Starting
    <3>2. CASE i \notin 1 .. n
      <4> DEFINE a == i - n
                 b == j - n
      <4>1. /\ a \in 1 .. n /\ ops[i].op = "attachIf" /\ ops[i].role = Roles[a] /\ i > n
        BY <1>1, <3>2
      <4>2. j \notin 1 .. n
        BY <1>2, <2>1, <4>1
      <4>3. b \in 1 .. n /\ ops[j].op = "attachIf" /\ ops[j].role = Roles[b] /\ a # b
        BY <1>1, <1>2, <2>1, <4>2
      <4> HIDE DEF a, b
      <4>4. Roles[a] # Roles[b]
        BY <4>1, <4>3, UartsAssumption
      <4> QED BY <4>1, <4>3, <4>4 DEF MayPrecede, Attaching, Releasing, Saving, Starting
    <3> QED BY <3>1, <3>2
  <2>2. ASSUME NEW i \in 1 .. Len(ops), NEW y \in Operation, MayPrecede(o, y)
        PROVE  MayPrecede(ops[i], y)
    BY <1>1, <1>4, <2>2 DEF MayPrecede, Attaching, Releasing, Saving, Starting
  <2>3. \A x : \A i \in 1 .. Len(ops) : Follows(x, ops[i])
    BY <1>4 DEF Follows, Setting
  <2>4. \A i \in 2 .. Len(ops) : Follows(ops[i - 1], ops[i])
    <3>1. \A i \in 2 .. Len(ops) : i \in 1 .. Len(ops)
      BY <1>2
    <3> QED BY <2>3, <3>1
  <2>5. \A x : \A y \in Operation : Follows(o, y) => Follows(x, y)
    BY <1>1, <1>3 DEF Follows
  <2> QED BY <1>2, <2>1, <2>2, <2>4, <2>5 DEF Fits
<1>6. Ready(t)'
  <2>1. Len(ops) > 0 => 1 \in 1 .. Len(ops)
    BY <1>2
  <2>2. Len(ops) > 0 => ops[1].op \notin {"connect", "note"} \cup Setting
    BY <1>4, <2>1 DEF Setting
  <2> QED BY <1>1, <1>3, <2>2, ReadyStays DEF Inv, Good
<1>7. Released(t)'
  <2>1. ASSUME NEW i \in 1 .. Len(ops), NEW x \in Operation, ops[i] = x,
               x.op \in Attaching, x.pin # NoPin
        PROVE  Covered(t, x)'
    <3> DEFINE k == i - n
    <3>1. i \notin 1 .. n
      BY <1>1, <2>1 DEF Attaching
    <3>2. k \in 1 .. n /\ x.u = o.u /\ x.role = Roles[k] /\ x.pin = Want(t, Roles[k])
      BY <1>1, <2>1, <3>1
    <3> HIDE DEF k
    <3>3. k \in 1 .. Len(ops)
      BY <1>1, <1>2, <3>2
    <3>4. /\ ops[k].op \in Releasing /\ ops[k].u = x.u /\ ops[k].role = x.role
          /\ ops[k].pin = x.pin
      BY <1>1, <3>2 DEF Releasing
    <3>5. Awaits(t, x)'
      BY <1>1, <3>3, <3>4, AwaitsWhatIsPushed
    <3> QED BY <3>5 DEF Covered
  <2> QED BY <1>1, <1>3, <2>1, CoveredStays, ReleasedLater DEF Inv, Good
<1>8. \A i \in 1 .. Len(ops) : ops[i].op \notin Saving
  BY <1>4 DEF Saving
<1> QED BY <1>1, <1>3, <1>5, <1>6, <1>7, <1>8, QuietTurn

-----------------------------------------------------------------------------
(* Muting the callbacks.                                                    *)
LEMMA EverybodyIsTold ==
  ASSUME NEW t, Told(t), ~Has(t, {"restore"}), ~Does(t, "note")
  PROVE  \A p \in Pins : Assigned(p) => deinit_functions[pins[p].type] = "driver"
BY DEF Told, Muting

LEMMA SetPinsKeeps ==
  ASSUME Inv, NEW t \in Tasks, SetPins(t)
  PROVE  Types' /\ Good(t)'
<1> DEFINE o == Now(t)
           ops == SetPinsSteps(o.u)
<1>1. ~Idle(t) /\ o.op = "setPins" /\ o.u \in Uarts
  BY HeadIsSound DEF SetPins, Does, Inv, Starting
<1>2. Calls(t, ops) /\ local' = [local EXCEPT ![t].ok = TRUE, ![t].victims = {}]
  BY DEF SetPins
<1>3. \A what \in {"lock", "saveDeinits", "mute", "plan", "collect", "restore", "unlock", "terminate"} :
        ForUart(what, o.u) \in Operation /\ ForUart(what, o.u).op = what
  BY <1>1, UartOps DEF Saving, Plain
<1>4. /\ ops \in Seq(Operation) /\ Len(ops) = 8
      /\ ops[1].op = "lock" /\ ops[2].op = "saveDeinits" /\ ops[3].op = "mute" /\ ops[4].op = "plan"
      /\ ops[5].op = "collect" /\ ops[6].op = "restore" /\ ops[7].op = "unlock"
      /\ ops[8].op = "terminate"
  BY <1>3 DEF SetPinsSteps
<1> HIDE DEF ops
<1>5. Turn(t, ops)
  BY <1>1, <1>2, <1>4, CallsReplaces DEF Inv
<1>6. UNCHANGED <<pins, deinit_functions, uart, installed, registered, lock>>
  BY DEF SetPins, unchangedPeriMan, unchangedUarts
<1>7. local' \in [Tasks -> Local] /\ local'[t].muted = local[t].muted
  BY <1>2, LocalKeepsType, ZenonT(60) DEF Inv, Local
<1>8. o.op \notin Setting \cup Saving \cup Releasing \cup Attaching
                    \cup {"callback", "note", "restore", "detach"}
  BY <1>1 DEF Setting, Saving, Releasing, Attaching
<1>9. \A i \in 1 .. Len(ops) : i \in {1, 2, 3, 4, 5, 6, 7, 8}
  BY <1>4
<1>10. \A i \in 1 .. Len(ops) : ops[i].op \in {"lock", "saveDeinits", "mute", "plan", "collect",
                                               "restore", "unlock", "terminate"}
  BY <1>4, <1>9
<1>11. Fits(o, ops)
  <2>1. ASSUME NEW i \in 1 .. Len(ops), NEW j \in 1 .. Len(ops), i < j
        PROVE  MayPrecede(ops[i], ops[j])
    <3>1. /\ ops[i].op \notin Attaching \cup Releasing \cup Starting \cup {"return"}
          /\ ops[j].op \notin Attaching \cup Releasing
      BY <1>10, <2>1 DEF Attaching, Releasing, Starting
    <3>2. ops[i].op \in {"plan", "restore", "mute"} => ops[j].op \notin Saving
      BY <1>4, <1>9, <2>1 DEF Saving
    <3>3. ops[i].op = "saveDeinits" => ops[j].op # "saveDeinits"
      BY <1>4, <1>9, <2>1
    <3> QED BY <3>1, <3>2, <3>3 DEF MayPrecede
  <2>2. ASSUME NEW i \in 1 .. Len(ops), NEW y \in Operation, MayPrecede(o, y)
        PROVE  MayPrecede(ops[i], y)
    <3>1. y.op \notin Attaching \cup Releasing \cup Saving \cup {"restore"}
      BY <1>1, <2>2 DEF MayPrecede, Starting
    <3>2. ops[i].op \notin {"return"} \cup Attaching
      BY <1>10, <2>2 DEF Attaching
    <3> QED BY <3>1, <3>2 DEF MayPrecede, Saving
  <2>3. ASSUME NEW i \in 2 .. Len(ops) PROVE Follows(ops[i - 1], ops[i])
    <3>1. i \in 1 .. Len(ops)
      BY <1>4, <2>3
    <3>2. ops[i].op \notin Setting \cup {"callback", "connect", "note"}
      BY <1>10, <3>1 DEF Setting
    <3>3. ops[i].op = "mute" => ops[i - 1].op = "saveDeinits"
      BY <1>4, <1>9, <3>1
    <3> QED BY <3>2, <3>3 DEF Follows
  <2>4. \A x : \A y \in Operation : Follows(o, y) => Follows(x, y)
    BY <1>1, <1>8 DEF Follows
  <2> QED BY <1>4, <2>1, <2>2, <2>3, <2>4 DEF Fits
<1>12. Ready(t)'
  BY <1>4, <1>5, <1>8, ReadyStays DEF Inv, Good, Setting
<1>13. Released(t)'
  BY <1>5, <1>6, <1>8, <1>10, ReleasedStays DEF Inv, Good, Attaching
<1>14. Types' /\ InOrder(agenda[t])' /\ Known(t)'
  <2>1. Types'
    BY <1>5, <1>6, <1>7, TypesStay DEF Inv, Types, TypeOK, Turn
  <2>2. InOrder(agenda[t])'
    BY <1>5, <1>11, OrderStays DEF Inv, Good
  <2>3. Known(t)'
    BY <1>6, <1>8, NothingOnItsWay, KnownStays DEF Inv, Good
  <2> QED BY <2>1, <2>2, <2>3
<1>15. ~Has(t, {"restore"})
  <2> SUFFICES ASSUME NEW i \in 1 .. Len(agenda[t]), agenda[t][i].op = "restore" PROVE FALSE
    BY DEF Has
  <2>1. i # 1 /\ Now(t) = agenda[t][1] /\ 1 \in 1 .. Len(agenda[t])
    BY <1>1, <1>5, TopOfAgenda
  <2>2. 1 < i
    BY <2>1
  <2>3. MayPrecede(agenda[t][1], agenda[t][i])
    BY <2>1, <2>2 DEF Inv, Good, InOrder
  <2> QED BY <1>1, <2>1, <2>3 DEF MayPrecede, Starting
<1>16. Told(t)'
  <2>1. \A p \in Pins : Assigned(p) => deinit_functions[pins[p].type] = "driver"
    <3>1. ~Does(t, "note")
      BY <1>1 DEF Does
    <3> QED BY <1>15, <3>1, EverybodyIsTold DEF Inv, Good
  <2>2. Has(t, {"restore"})'
    <3>1. 6 \in 1 .. Len(ops)
      BY <1>4
    <3>2. 6 \in 1 .. Len(agenda'[t]) /\ agenda'[t][6] = ops[6]
      BY <1>5, <3>1 DEF Turn, Replaced
    <3> QED BY <1>4, <3>2 DEF Has
  <2>3. ~Does(t, "mute")'
    <3>1. Now(t)' = ops[1] /\ ops[1].op = "lock"
      BY <1>4, <1>5, TopOfAgenda, SMTT(30)
    <3> QED BY <3>1 DEF Does
  <2> QED BY <1>6, <2>1, <2>2, <2>3 DEF Told, Assigned
<1> QED BY <1>12, <1>13, <1>14, <1>16 DEF Good

LEMMA MutingHead ==
  ASSUME Inv, NEW t \in Tasks, ~Idle(t), Done(t), Now(t).op \in Saving \cup {"restore"},
         UNCHANGED <<pins, uart, installed, registered, lock>>,
         deinit_functions' \in [OwnedTypes -> {"null", "empty", "driver"}],
         local' \in [Tasks -> Local]
  PROVE  /\ Turn(t, <<>>) /\ Types'
         /\ InOrder(agenda[t])' /\ Ready(t)' /\ Known(t)' /\ Released(t)'
         /\ Has(t, Saving) /\ Now(t).op # "restore" => Has(t, {"restore"})'
         /\ Does(t, "mute")' => Now(t).op = "saveDeinits"
         /\ Now(t).op # "saveDeinits" => ~Has(t, Saving)'
<1>1. Turn(t, <<>>)
  BY DoneTurn DEF Inv
<1>2. Types'
  BY <1>1 DEF Inv, Types, TypeOK, PeriManTypeOK, Turn
<1>3. Now(t).op \notin Setting \cup Releasing \cup Attaching \cup {"callback", "note", "detach"}
  BY DEF Setting, Saving, Releasing, Attaching
<1>4. PICK ops : ops = <<>>
  OBVIOUS
<1>5. 1 .. Len(ops) = {} /\ Turn(t, ops) /\ Len(ops) = 0
  BY <1>1, <1>4
<1>6. InOrder(agenda[t])' /\ Ready(t)'
  BY <1>1, <1>3, NothingPushed, OrderStays DEF Inv, Good
<1>7. Known(t)'
  BY <1>3, NothingOnItsWay, KnownStays DEF Inv, Good
<1>8. Released(t)'
  BY <1>3, <1>5, ReleasedStays DEF Inv, Good
<1>9. ASSUME Has(t, Saving), Now(t).op # "restore" PROVE Has(t, {"restore"})'
  <2>1. Has(t, {"restore"})
    BY <1>9 DEF Inv, Good, Told
  <2> QED BY <1>1, <1>9, <2>1, HasStays
<1>10. ASSUME Does(t, "mute")' PROVE Now(t).op = "saveDeinits"
  <2>1. Len(agenda[t]) > 1 /\ Now(t)' = agenda[t][2] /\ Now(t) = agenda[t][1]
        /\ Len(agenda[t]) \in Nat
    BY <1>5, <1>10, TopOfAgenda DEF Does
  <2>2. 2 \in 2 .. Len(agenda[t])
    BY <2>1
  <2>3. Follows(agenda[t][2 - 1], agenda[t][2])
    BY <2>2 DEF Inv, Good, InOrder
  <2> QED BY <1>10, <2>1, <2>3 DEF Follows, Does
<1>11. ASSUME Now(t).op # "saveDeinits", Has(t, Saving)' PROVE FALSE
  <2>1. PICK i \in 2 .. Len(agenda[t]) : agenda[t][i].op \in Saving
    BY <1>5, <1>11, HasLater
  <2>2. i \in 1 .. Len(agenda[t]) /\ 1 < i /\ 1 \in 1 .. Len(agenda[t]) /\ Now(t) = agenda[t][1]
    BY <1>1, <2>1, TopOfAgenda
  <2>3. MayPrecede(agenda[t][1], agenda[t][i])
    BY <2>2 DEF Inv, Good, InOrder
  <2> QED BY <1>11, <2>1, <2>2, <2>3 DEF MayPrecede, Saving
<1> QED BY <1>1, <1>2, <1>6, <1>7, <1>8, <1>9, <1>10, <1>11

LEMMA MutingKeeps ==
  ASSUME Inv, NEW t \in Tasks, SaveDeinits(t) \/ Mute(t) \/ Restore(t)
  PROVE  Types' /\ Good(t)'
<1>1. ~Idle(t) /\ Done(t) /\ UNCHANGED <<pins, uart, installed, registered, lock>>
  BY DEF SaveDeinits, Mute, Restore, Does, unchangedPeriMan, unchangedUarts
<1>2. local[t] \in Local /\ local \in [Tasks -> Local]
      /\ deinit_functions \in [OwnedTypes -> {"null", "empty", "driver"}]
  BY LocalKeepsType DEF Inv, Types, TypeOK, PeriManTypeOK
<1>3. CASE SaveDeinits(t)
  <2>1. /\ Now(t).op = "saveDeinits" /\ UNCHANGED deinit_functions
        /\ local' = [local EXCEPT ![t].muted = {r \in RoleSet : BusDeinitIsSet(r)}]
    BY <1>3 DEF SaveDeinits, Does, unchangedPeriMan
  <2>2. local' \in [Tasks -> Local] /\ local'[t].muted = {r \in RoleSet : BusDeinitIsSet(r)}
    BY <1>2, <2>1 DEF Local
  <2>3. /\ Types' /\ InOrder(agenda[t])' /\ Ready(t)' /\ Known(t)' /\ Released(t)'
        /\ Has(t, Saving) => Has(t, {"restore"})'
    BY <1>1, <1>2, <2>1, <2>2, MutingHead DEF Saving
  <2>4. Has(t, Saving)
    <3>1. 1 \in 1 .. Len(agenda[t]) /\ Now(t) = agenda[t][1]
      BY <1>1, DoneTurn, TopOfAgenda DEF Inv
    <3> QED BY <2>1, <3>1 DEF Has, Saving
  <2>5. \A p \in Pins : Assigned(p) => deinit_functions[pins[p].type] = "driver"
    <3>1. ~Does(t, "note")
      BY <2>1 DEF Does
    <3> QED BY <2>4, <3>1 DEF Inv, Good, Told, Muting
  <2>6. Told(t)'
    BY <1>1, <2>1, <2>2, <2>3, <2>4, <2>5 DEF Told, Assigned, BusDeinitIsSet
  <2> QED BY <2>3, <2>6 DEF Good
<1>4. CASE Mute(t)
  <2>1. /\ Now(t).op = "mute" /\ Does(t, "mute") /\ UNCHANGED local
        /\ deinit_functions' =
             [y \in OwnedTypes |-> IF y \in RoleSet THEN "empty" ELSE deinit_functions[y]]
    BY <1>4 DEF Mute, Does
  <2>2. local' \in [Tasks -> Local] /\ local'[t].muted = local[t].muted
        /\ deinit_functions' \in [OwnedTypes -> {"null", "empty", "driver"}]
    BY <1>2, <2>1
  <2>3. /\ Types' /\ InOrder(agenda[t])' /\ Ready(t)' /\ Known(t)' /\ Released(t)'
        /\ Has(t, Saving) => Has(t, {"restore"})'
        /\ ~Does(t, "mute")' /\ ~Has(t, Saving)'
    BY <1>1, <2>1, <2>2, MutingHead DEF Saving
  <2>4. Has(t, Saving)
    <3>1. 1 \in 1 .. Len(agenda[t]) /\ Now(t) = agenda[t][1]
      BY <1>1, DoneTurn, TopOfAgenda DEF Inv
    <3> QED BY <2>1, <3>1 DEF Has, Saving
  <2>5. \A p \in Pins : Assigned(p) => pins[p].type \in local[t].muted
    BY <2>1 DEF Inv, Good, Told
  <2>6. Told(t)'
    BY <1>1, <2>1, <2>2, <2>3, <2>4, <2>5, Names DEF Told, Assigned, Muting
  <2> QED BY <2>3, <2>6 DEF Good
<1>5. CASE Restore(t)
  <2>1. /\ Now(t).op = "restore" /\ UNCHANGED local
        /\ deinit_functions' = [y \in OwnedTypes |->
             IF y \in local[t].muted THEN "driver" ELSE deinit_functions[y]]
    BY <1>5 DEF Restore, Does
  <2>2. local' \in [Tasks -> Local]
        /\ deinit_functions' \in [OwnedTypes -> {"null", "empty", "driver"}]
    BY <1>2, <2>1
  <2>3. /\ Types' /\ InOrder(agenda[t])' /\ Ready(t)' /\ Known(t)' /\ Released(t)'
        /\ ~Does(t, "mute")' /\ ~Has(t, Saving)'
    BY <1>1, <2>1, <2>2, MutingHead DEF Saving
  <2>4. \A p \in Pins : Assigned(p) =>
          deinit_functions[pins[p].type] = "driver" \/ pins[p].type \in local[t].muted
    BY <2>1 DEF Inv, Good, Told, Does
  <2>5. \A p \in Pins : Assigned(p) => deinit_functions'[pins[p].type] = "driver"
    BY <2>1, <2>4, Names DEF Assigned
  <2>6. Told(t)'
    BY <1>1, <2>3, <2>5 DEF Told, Assigned
  <2> QED BY <2>3, <2>6 DEF Good
<1> QED BY <1>3, <1>4, <1>5

-----------------------------------------------------------------------------
(* The Peripheral Manager and the callbacks.                                *)
LEMMA StillTurn ==
  ASSUME Inv, NEW t \in Tasks, NEW ops, Turn(t, ops),
         UNCHANGED <<pins, deinit_functions, uart, installed, registered, lock>>,
         local' \in [Tasks -> Local], local'[t].muted = local[t].muted,
         Now(t).op \in {"callback", "setBus", "assign"},
         \A i \in 1 .. Len(ops) : ops[i].op \notin Saving \cup Attaching,
         Fits(Now(t), ops), Ready(t)', Known(t)'
  PROVE  Types' /\ Good(t)'
<1>1. Types'
  BY TypesStay DEF Inv, Types, TypeOK, Turn
<1>2. Now(t).op \notin Saving \cup Releasing \cup {"note", "restore", "detach"}
  BY DEF Saving, Releasing
<1>3. InOrder(agenda[t])'
  BY OrderStays DEF Inv, Good
<1>4. Told(t)'
  BY <1>2, ToldStays DEF Inv, Good
<1>5. Released(t)'
  BY <1>2, ReleasedStays DEF Inv, Good
<1> QED BY <1>1, <1>3, <1>4, <1>5 DEF Good

LEMMA ForeignCallbackKeeps ==
  ASSUME Inv, NEW t \in Tasks, ForeignCallback(t)
  PROVE  Types' /\ Good(t)'
<1>1. ~Idle(t) /\ Now(t).op = "callback" /\ Now(t).role \notin RoleSet
  BY DEF ForeignCallback, Does
<1>2. PICK b \in BOOLEAN : Return(t, b)
  BY DEF ForeignCallback
<1>3. Turn(t, <<>>) /\ local' \in [Tasks -> Local] /\ local'[t].muted = local[t].muted
  BY <1>1, <1>2, ReturnTurn DEF Inv
<1>4. UNCHANGED <<pins, deinit_functions, uart, installed, registered, lock>>
  BY DEF ForeignCallback, unchangedPeriMan, unchangedUarts
<1>5. Fits(Now(t), <<>>) /\ Ready(t)'
  BY <1>1, <1>3, NothingPushed DEF Setting
<1>6. Known(t)'
  <2>1. \A p \in Pins : Assigned(p) => uart[pins[p].bus][pins[p].type] = p
    BY <1>1 DEF Inv, Good, Known, OnItsWay, Assigned
  <2> QED BY <1>4, <2>1, KnownStays
<1>7. PICK ops : ops = <<>>
  OBVIOUS
<1>8. Turn(t, ops) /\ Fits(Now(t), ops) /\ 1 .. Len(ops) = {}
  BY <1>3, <1>5, <1>7
<1> QED BY <1>1, <1>3, <1>4, <1>5, <1>6, <1>8, StillTurn

LEMMA NextIsSecond ==
  ASSUME NEW t, Turn(t, <<>>), Len(agenda[t]) > 1
  PROVE  ~Idle(t)' /\ Now(t)' = agenda[t][2]
<1> DEFINE e == <<>>
<1>1. Len(e) = 0 /\ Turn(t, e)
  OBVIOUS
<1> HIDE DEF e
<1>2. Len(agenda'[t]) = Len(agenda[t]) - 1 /\ Len(agenda[t]) \in Nat
  BY <1>1, TopOfAgenda DEF Turn, Replaced
<1>3. ~Idle(t)'
  BY <1>2 DEF Idle
<1> QED BY <1>1, <1>3, TopOfAgenda

LEMMA CallbackKeeps ==
  ASSUME Inv, NEW t \in Tasks, Callback(t)
  PROVE  Types' /\ Good(t)'
<1> DEFINE o == Now(t)
           v == o.u
           r == o.role
           ending == HardwareSerialEnd(v) \o <<ForUart("true", v)>>
<1>1. ~Idle(t) /\ o.op = "callback" /\ r \in RoleSet
  BY DEF Callback, Does
<1>2. v \in Uarts
  BY <1>1, HeadIsSound, Names DEF Inv, Operation, Sound
<1>3. UNCHANGED <<pins, deinit_functions, uart, installed, registered, lock>>
  BY DEF Callback, unchangedPeriMan, unchangedUarts
<1>4. \A p \in Pins : Assigned(p) =>
        \/ uart[pins[p].bus][pins[p].type] = p
        \/ /\ uart[v][r] = NoPin /\ Len(agenda[t]) > 1
           /\ agenda[t][2] = [ClearPin(p) EXCEPT !.op = "assign"]
  BY <1>1 DEF Inv, Good, Known, OnItsWay
<1>5. CASE uart[v][r] = NoPin
  <2>1. Return(t, TRUE)
    BY <1>5 DEF Callback
  <2>2. /\ Turn(t, <<>>) /\ local' \in [Tasks -> Local] /\ local'[t].muted = local[t].muted
        /\ local'[t].result = TRUE
    BY <1>1, <2>1, ReturnTurn DEF Inv
  <2>3. Fits(Now(t), <<>>) /\ Ready(t)'
    BY <1>1, <2>2, NothingPushed DEF Setting
  <2>4. Known(t)'
    <3> SUFFICES ASSUME NEW p \in Pins, Assigned(p)
                 PROVE  uart[pins[p].bus][pins[p].type] = p \/ OnItsWay(t, p)'
      BY <1>3 DEF Known, Assigned
    <3>1. ASSUME Len(agenda[t]) > 1, agenda[t][2] = [ClearPin(p) EXCEPT !.op = "assign"]
          PROVE  OnItsWay(t, p)'
      <4>1. ~Idle(t)' /\ Now(t)' = [ClearPin(p) EXCEPT !.op = "assign"]
        BY <2>2, <3>1, NextIsSecond
      <4>2. Now(t)'.op = "assign" /\ Now(t)'.role = "INIT" /\ Now(t)'.pin = p
        BY <4>1 DEF ClearPin, Op
      <4> QED BY <2>2, <4>1, <4>2 DEF OnItsWay
    <3> QED BY <1>4, <3>1
  <2>5. PICK ops : ops = <<>>
    OBVIOUS
  <2>6. Turn(t, ops) /\ Fits(Now(t), ops) /\ 1 .. Len(ops) = {}
    BY <2>2, <2>3, <2>5
  <2> QED BY <1>1, <1>3, <2>2, <2>3, <2>4, <2>6, StillTurn
<1>6. CASE uart[v][r] # NoPin
  <2>1. UNCHANGED local /\ local' \in [Tasks -> Local] /\ local'[t].muted = local[t].muted
    BY <1>6 DEF Callback, Inv, Types
  <2>2. Known(t)'
    BY <1>3, <1>4, <1>6, KnownStays
  <2>3. PICK ops \in Seq(EasyFor(o)) : Calls(t, ops)
    <3>1. CASE IsLast(v, r)
      <4>1. Calls(t, ending)
        BY <1>6, <3>1 DEF Callback
      <4>2. ForUart("true", v) \in EasyFor(o)
        BY <1>2, EasyOps DEF Plain
      <4>3. ending \in Seq(EasyFor(o))
        BY <1>2, <4>2, EndsOneThenGoesOn
      <4> HIDE DEF ending
      <4> QED BY <4>1, <4>3
    <3>2. CASE ~IsLast(v, r)
      <4> DEFINE d == Op("detach", v, r, uart[v][r])
      <4>1. Calls(t, <<d>>)
        BY <1>6, <3>2 DEF Callback, GiveUp
      <4>2. uart[v][r] \in Pins \cup {NoPin}
        BY <1>1, <1>2 DEF Inv, Types, TypeOK
      <4>3. d \in Operation /\ d.op = "detach"
        BY <1>1, <1>2, <4>2, DetachIsSound
      <4>4. d \in EasyFor(o)
        <5> HIDE DEF d
        <5> QED BY <4>3 DEF EasyFor, Free, OpNames, Attaching, Releasing, Saving, Starting, Setting
      <4> HIDE DEF d
      <4>5. <<d>> \in Seq(EasyFor(o))
        BY <4>4
      <4> QED BY <4>1, <4>5
    <3> QED BY <3>1, <3>2
  <2>4. ops \in Seq(Operation) /\ Len(ops) \in Nat
    BY DEF EasyFor
  <2>5. Turn(t, ops)
    BY <1>1, <2>3, <2>4, CallsReplaces DEF Inv
  <2>6. \A i \in 1 .. Len(ops) : ops[i].op \in Free /\ ops[i].op \notin Setting \cup {"callback"}
    <3>1. \A i \in 1 .. Len(ops) : ops[i] \in EasyFor(o)
      OBVIOUS
    <3> QED BY <1>1, <3>1 DEF EasyFor, Starting
  <2>7. \A i \in 1 .. Len(ops) : ops[i].op \notin Saving \cup Attaching
    BY <2>6 DEF Free
  <2>8. Fits(o, ops)
    <3>1. \A i \in 2 .. Len(ops) : i \in 1 .. Len(ops)
      BY <2>4
    <3>2. o.op \notin Setting \cup {"saveDeinits"}
      BY <1>1 DEF Setting
    <3> QED BY <2>4, <2>6, <3>1, <3>2, FreeOpsFit
  <2>9. Ready(t)'
    <3>1. Len(ops) > 0 => 1 \in 1 .. Len(ops)
      BY <2>4
    <3>2. Len(ops) > 0 => ops[1].op \notin {"connect", "note"} \cup Setting
      BY <2>6, <2>7, <3>1 DEF Attaching
    <3>3. o.op \notin Setting
      BY <1>1 DEF Setting
    <3> QED BY <2>5, <3>2, <3>3, ReadyStays DEF Inv, Good
  <2> QED BY <1>1, <1>3, <2>1, <2>2, <2>5, <2>7, <2>8, <2>9, StillTurn
<1> QED BY <1>5, <1>6

LEMMA SettingHead ==
  ASSUME Inv, NEW t \in Tasks, ~Idle(t), Now(t).op \in Setting
  PROVE  /\ Now(t) \in Operation /\ Now(t).pin \in Pins
         /\ \/ Now(t).role = "INIT" /\ Now(t).u = NULL
            \/ Now(t).role = "I2C" /\ Now(t).u = Foreign
            \/ Now(t).role \in RoleSet /\ Now(t).u \in Uarts
<1>1. Now(t) \in Operation
  BY HeadIsSound DEF Inv
<1> QED BY <1>1 DEF Operation, Sound

(* Nobody refuses to clear a UART's pin, or to give it a free one.          *)
LEMMA NotRefused ==
  ASSUME Inv, NEW t \in Tasks, Does(t, "setBus"), SetBusReturns(t)
  PROVE  /\ Now(t).role \notin RoleSet
         /\ Now(t).role = "INIT" => ~Assigned(Now(t).pin)
         /\ Now(t).role = "INIT" /\ local'[t].result => pins[Now(t).pin] = Unassigned
<1> DEFINE o == Now(t)
<1>1. ~Idle(t) /\ o.op = "setBus" /\ o.op \in Setting
  BY DEF Does, Setting
<1>2. /\ o.pin \in Pins
      /\ \/ o.role = "INIT" /\ o.u = NULL
         \/ o.role = "I2C" /\ o.u = Foreign
         \/ o.role \in RoleSet /\ o.u \in Uarts
  BY <1>1, SettingHead
<1>3. ~RefusesArguments(o.pin, o.role, o.u)
  BY <1>2, Names, TypesAssumption DEF RefusesArguments
<1>4. ASSUME o.role \in RoleSet PROVE FALSE
  <2>1. pins[o.pin] = Unassigned
    BY <1>1, <1>4 DEF Inv, Good, Ready
  <2>2. ~AlreadyAssigned(o.pin, o.role, o.u) /\ ~HasNoDeinit(o.pin)
    BY <1>4, <2>1, Names DEF AlreadyAssigned, HasNoDeinit, Unassigned
  <2> QED BY <1>3, <2>2 DEF SetBusReturns
<1>5. ASSUME o.role = "INIT", Assigned(o.pin) PROVE FALSE
  <2>1. ~AlreadyAssigned(o.pin, o.role, o.u)
    BY <1>5, Names DEF Assigned, AlreadyAssigned
  <2>2. deinit_functions[pins[o.pin].type] \in {"driver", "empty"}
    <3>1. ~Does(t, "note")
      BY <1>1 DEF Does
    <3> QED BY <1>2, <1>5, <3>1 DEF Inv, Good, Told
  <2> QED BY <1>3, <2>1, <2>2 DEF SetBusReturns, HasNoDeinit
<1>6. ASSUME o.role = "INIT", local'[t].result PROVE pins[o.pin] = Unassigned
  <2>1. CASE Return(t, FALSE)
    BY <1>1, <1>6, <2>1, ReturnTurn DEF Inv
  <2>2. CASE AlreadyAssigned(o.pin, o.role, o.u)
    BY <1>2, <1>6, <2>2, Unassigns DEF AlreadyAssigned, Inv
  <2> QED BY <1>3, <2>1, <2>2 DEF SetBusReturns
<1> QED BY <1>4, <1>5, <1>6

LEMMA SecondFollows ==
  ASSUME NEW t, Turn(t, <<>>), InOrder(agenda[t]), ~Idle(t)'
  PROVE  Follows(Now(t), Now(t)') /\ MayPrecede(Now(t), Now(t)')
<1>1. PICK ops : ops = <<>>
  OBVIOUS
<1>2. Len(ops) = 0 /\ Turn(t, ops)
  BY <1>1
<1>3. Len(agenda[t]) > 1 /\ Now(t)' = agenda[t][2] /\ Now(t) = agenda[t][1] /\ Len(agenda[t]) \in Nat
  BY <1>2, TopOfAgenda
<1>4. 2 \in 2 .. Len(agenda[t]) /\ 1 \in 1 .. Len(agenda[t]) /\ 2 \in 1 .. Len(agenda[t]) /\ 1 < 2
  BY <1>3
<1>5. Follows(agenda[t][2 - 1], agenda[t][2]) /\ MayPrecede(agenda[t][1], agenda[t][2])
  BY <1>4 DEF InOrder
<1> QED BY <1>3, <1>5

LEMMA SetBusReturnsKeeps ==
  ASSUME Inv, NEW t \in Tasks, SetBusReturns(t)
  PROVE  Types' /\ Good(t)'
<1> DEFINE o == Now(t)
<1>1. ~Idle(t) /\ o.op = "setBus" /\ o.op \in Setting /\ Does(t, "setBus")
  BY DEF SetBusReturns, Does, Setting
<1>2. PICK b \in BOOLEAN : Return(t, b)
  BY DEF SetBusReturns
<1>3. /\ Turn(t, <<>>) /\ local' \in [Tasks -> Local] /\ local'[t].muted = local[t].muted
  BY <1>1, <1>2, ReturnTurn DEF Inv
<1>4. UNCHANGED <<pins, deinit_functions, uart, installed, registered, lock>>
  BY DEF SetBusReturns, unchangedPeriMan, unchangedUarts
<1>5. /\ o.role \notin RoleSet
      /\ o.role = "INIT" => ~Assigned(o.pin)
      /\ o.role = "INIT" /\ local'[t].result => pins[o.pin] = Unassigned
  BY <1>1, NotRefused
<1>6. Known(t)'
  <2>1. \A p \in Pins : Assigned(p) => uart[pins[p].bus][pins[p].type] = p
    BY <1>1, <1>5 DEF Inv, Good, Known, OnItsWay
  <2> QED BY <1>4, <2>1, KnownStays
<1>7. Ready(t)'
  <2> SUFFICES ASSUME ~Idle(t)'
               PROVE  /\ Now(t)'.op = "connect" /\ local'[t].result => pins'[Now(t)'.pin] = Unassigned
                      /\ Now(t)'.op \in Setting => Now(t)'.role \notin RoleSet
                      /\ Now(t)'.op # "note"
    BY DEF Ready
  <2>1. Follows(o, Now(t)') /\ Now(t)' \in Operation
    <3>1. Now(t)' \in Operation
      <4>1. Types'
        BY <1>3, <1>4, TypesStay DEF Inv, Types, TypeOK, Turn
      <4> QED BY <4>1 DEF Types, Idle, Now
    <3> QED BY <1>3, <3>1, SecondFollows DEF Inv, Good
  <2>2. Now(t)'.op = "note" => Now(t)'.role \in RoleSet
    BY <2>1 DEF Operation, Sound, Attaching
  <2> QED BY <1>4, <1>5, <2>1, <2>2 DEF Follows
<1>8. Fits(o, <<>>)
  BY NothingFits
<1>9. PICK ops : ops = <<>>
  OBVIOUS
<1>10. Turn(t, ops) /\ Fits(o, ops) /\ 1 .. Len(ops) = {}
  BY <1>3, <1>8, <1>9
<1> QED BY <1>1, <1>3, <1>4, <1>6, <1>7, <1>10, StillTurn

LEMMA SetBusGoesOnKeeps ==
  ASSUME Inv, NEW t \in Tasks, SetBusGoesOn(t)
  PROVE  Types' /\ Good(t)'
<1> DEFINE o == Now(t)
           a == [o EXCEPT !.op = "assign"]
           c == Op("callback", pins[o.pin].bus, pins[o.pin].type, NoPin)
           ops == IF CallsDriver(o.pin) THEN <<c, a>> ELSE <<a>>
<1>1. ~Idle(t) /\ o.op = "setBus" /\ o.op \in Setting
  BY DEF SetBusGoesOn, Does, Setting
<1>2. /\ o \in Operation /\ o.pin \in Pins
      /\ \/ o.role = "INIT" /\ o.u = NULL
         \/ o.role = "I2C" /\ o.u = Foreign
         \/ o.role \in RoleSet /\ o.u \in Uarts
  BY <1>1, SettingHead
<1>3. /\ a \in Operation /\ a.op = "assign" /\ a.u = o.u /\ a.role = o.role /\ a.pin = o.pin
  <2>1. a \in Ops /\ a.op = "assign" /\ a.u = o.u /\ a.role = o.role /\ a.pin = o.pin
    BY <1>2 DEF Operation, Ops, OpNames, Setting
  <2> HIDE DEF a
  <2>2. Sound(a)
    BY <1>2, <2>1 DEF Sound, Attaching, Releasing, Setting, Saving, Starting, Plain
  <2> QED BY <2>1, <2>2 DEF Operation
<1>4. CallsDriver(o.pin) =>
        /\ c \in Operation /\ c.op = "callback"
        /\ c.u = pins[o.pin].bus /\ c.role = pins[o.pin].type /\ pins[o.pin] # Unassigned
  <2> SUFFICES ASSUME pins[o.pin].bus # NULL
               PROVE  /\ c \in Operation /\ c.op = "callback"
                      /\ c.u = pins[o.pin].bus /\ c.role = pins[o.pin].type /\ pins[o.pin] # Unassigned
    BY DEF CallsDriver
  <2>1. pins[o.pin] # Unassigned
    BY DEF Unassigned
  <2>2. \/ pins[o.pin].type = "I2C" /\ pins[o.pin].bus = Foreign
        \/ pins[o.pin].type \in RoleSet /\ pins[o.pin].bus \in Uarts
    BY <1>2, <2>1 DEF Inv, Types
  <2> QED BY <2>1, <2>2, Names DEF Op, Operation, Ops, OpNames, Sound, Attaching, Releasing, Saving,
                                   Starting, Setting, Plain
<1>5. Calls(t, ops) /\ local' = [local EXCEPT ![t].result = TRUE]
  BY DEF SetBusGoesOn
<1>6. /\ local' \in [Tasks -> Local] /\ local'[t].muted = local[t].muted
      /\ local'[t].result = TRUE
  BY <1>5, LocalKeepsType DEF Inv, Local
<1>7. UNCHANGED <<pins, deinit_functions, uart, installed, registered, lock>>
  BY DEF SetBusGoesOn, unchangedPeriMan, unchangedUarts
<1>8. o.role \in RoleSet => /\ pins[o.pin] = Unassigned /\ Len(agenda[t]) > 1
                            /\ agenda[t][2] = [a EXCEPT !.op = "note"]
  <2> SUFFICES ASSUME o.role \in RoleSet
               PROVE  /\ pins[o.pin] = Unassigned /\ Len(agenda[t]) > 1
                      /\ agenda[t][2] = [a EXCEPT !.op = "note"]
    OBVIOUS
  <2>1. /\ pins[o.pin] = Unassigned /\ Len(agenda[t]) > 1
        /\ agenda[t][2] = [o EXCEPT !.op = "note"]
    BY <1>1 DEF Inv, Good, Ready
  <2>2. [a EXCEPT !.op = "note"] = [o EXCEPT !.op = "note"]
    BY <1>2 DEF Operation, Ops
  <2> QED BY <2>1, <2>2
<1> HIDE DEF a, c
<1>9. CASE ~CallsDriver(o.pin)
  <2>1. PICK s : s = <<a>>
    OBVIOUS
  <2>2. s \in Seq(Operation) /\ Len(s) = 1 /\ s[1] = a /\ Calls(t, s)
    BY <1>3, <1>5, <1>9, <2>1
  <2>3. Turn(t, s)
    BY <1>1, <2>2, CallsReplaces DEF Inv
  <2>4. ~Idle(t)' /\ Now(t)' = a
    BY <2>2, <2>3, TopOfAgenda
  <2>5. Len(agenda'[t]) = Len(agenda[t]) /\ \A i \in 2 .. Len(agenda[t]) : agenda'[t][i] = agenda[t][i]
    BY <2>2, <2>3 DEF Turn, Replaced
  <2>6. Len(agenda[t]) > 1 => 2 \in 2 .. Len(agenda[t])
    BY <2>3, TopOfAgenda
  <2>7. Ready(t)'
    BY <1>3, <1>6, <1>7, <1>8, <2>4, <2>5, <2>6 DEF Ready
  <2>8. Fits(o, s)
    <3>1. \A y : MayPrecede(a, y)
      BY <1>3 DEF MayPrecede, Attaching, Releasing, Saving, Starting
    <3>2. \A y : Follows(o, y) => Follows(a, y)
      BY <1>1, <1>3 DEF Follows, Setting
    <3> QED BY <2>2, <3>1, <3>2 DEF Fits
  <2>9. Known(t)'
    <3> SUFFICES ASSUME NEW p \in Pins, Assigned(p)
                 PROVE  uart[pins[p].bus][pins[p].type] = p \/ OnItsWay(t, p)'
      BY <1>7 DEF Known, Assigned
    <3>1. uart[pins[p].bus][pins[p].type] = p \/ (o.role = "INIT" /\ o.pin = p)
      BY <1>1 DEF Inv, Good, Known, OnItsWay
    <3>2. o.role = "INIT" /\ o.pin = p => OnItsWay(t, p)'
      BY <1>3, <1>6, <2>4 DEF OnItsWay
    <3> QED BY <3>1, <3>2
  <2>10. \A i \in 1 .. Len(s) : s[i].op \notin Saving \cup Attaching
    BY <1>3, <2>2 DEF Saving, Attaching
  <2> QED BY <1>1, <1>6, <1>7, <2>3, <2>7, <2>8, <2>9, <2>10, StillTurn
<1>10. CASE CallsDriver(o.pin)
  <2>1. PICK s : s = <<c, a>>
    OBVIOUS
  <2>2. s \in Seq(Operation) /\ Len(s) = 2 /\ s[1] = c /\ s[2] = a /\ Calls(t, s)
    BY <1>3, <1>4, <1>5, <1>10, <2>1
  <2>3. Turn(t, s)
    BY <1>1, <2>2, CallsReplaces DEF Inv
  <2>4. ~Idle(t)' /\ Now(t)' = c
    BY <2>2, <2>3, TopOfAgenda
  <2>5. Len(agenda'[t]) > 1 /\ agenda'[t][2] = a
    BY <2>2, <2>3 DEF Turn, Replaced
  <2>6. c.op = "callback" /\ c.op \notin Setting \cup {"connect", "note"}
    BY <1>4, <1>10 DEF Setting
  <2>7. Ready(t)'
    BY <2>4, <2>6 DEF Ready
  <2>8. o.role \notin RoleSet
    BY <1>4, <1>8, <1>10
  <2>9. Fits(o, s)
    <3>1. \A y : MayPrecede(a, y) /\ MayPrecede(c, y)
      BY <1>3, <2>6 DEF MayPrecede, Attaching, Releasing, Saving, Starting
    <3>2. \A y : Follows(o, y) => Follows(a, y)
      BY <1>1, <1>3 DEF Follows, Setting
    <3>3. Follows(c, a)
      BY <1>3, <2>8 DEF Follows, Setting
    <3> QED BY <2>2, <3>1, <3>2, <3>3 DEF Fits
  <2>10. Known(t)'
    <3> SUFFICES ASSUME NEW p \in Pins, Assigned(p)
                 PROVE  uart[pins[p].bus][pins[p].type] = p \/ OnItsWay(t, p)'
      BY <1>7 DEF Known, Assigned
    <3>1. \/ uart[pins[p].bus][pins[p].type] = p
          \/ o.role = "INIT" /\ o.pin = p /\ uart[pins[p].bus][pins[p].type] = NoPin
      BY <1>1 DEF Inv, Good, Known, OnItsWay
    <3>2. ASSUME o.role = "INIT", o.pin = p, uart[pins[p].bus][pins[p].type] = NoPin
          PROVE  OnItsWay(t, p)'
      <4>1. a = [ClearPin(p) EXCEPT !.op = "assign"]
        BY <1>2, <3>2, Names DEF a, ClearPin, Op, Operation, Ops
      <4> QED BY <1>4, <1>7, <1>10, <2>4, <2>5, <3>2, <4>1 DEF OnItsWay
    <3> QED BY <3>1, <3>2
  <2>11. \A i \in 1 .. Len(s) : s[i].op \notin Saving \cup Attaching
    <3>1. \A i \in 1 .. Len(s) : s[i] \in {c, a}
      BY <2>1
    <3> QED BY <1>3, <2>6, <3>1 DEF Saving, Attaching
  <2> QED BY <1>1, <1>6, <1>7, <2>3, <2>7, <2>9, <2>10, <2>11, StillTurn
<1> QED BY <1>9, <1>10

LEMMA AssignPinKeeps ==
  ASSUME Inv, NEW t \in Tasks, AssignPin(t)
  PROVE  Types' /\ Good(t)'
<1> DEFINE o == Now(t)
           p == o.pin
           r == o.role
<1>1. ~Idle(t) /\ o.op = "assign" /\ o.op \in Setting
  BY DEF AssignPin, Does, Setting
<1>2. /\ o \in Operation /\ p \in Pins
      /\ \/ r = "INIT" /\ o.u = NULL
         \/ r = "I2C" /\ o.u = Foreign
         \/ r \in RoleSet /\ o.u \in Uarts
  BY <1>1, SettingHead
<1>3. Turn(t, <<>>)
  BY <1>1, DoneTurn DEF AssignPin, Inv
<1>4. UNCHANGED <<deinit_functions, uart, installed, registered, lock, local>>
  BY DEF AssignPin, unchangedUarts
<1>5. local' \in [Tasks -> Local] /\ local'[t].muted = local[t].muted
  BY <1>4 DEF Inv, Types
<1>6. Fits(o, <<>>)
  BY NothingFits
<1>7. PICK ops : ops = <<>>
  OBVIOUS
<1>8. Turn(t, ops) /\ Fits(o, ops) /\ 1 .. Len(ops) = {}
  BY <1>3, <1>6, <1>7
<1>9. r \in RoleSet => /\ local[t].result /\ pins[p] = Unassigned
                       /\ ~Idle(t)' /\ Now(t)' = agenda[t][2] /\ Len(agenda[t]) > 1
                       /\ agenda[t][2].op = "note" /\ agenda[t][2].role = r
                       /\ agenda[t][2].u = o.u /\ agenda[t][2].pin = p
  <2> SUFFICES ASSUME r \in RoleSet
               PROVE  /\ local[t].result /\ pins[p] = Unassigned
                      /\ ~Idle(t)' /\ Now(t)' = agenda[t][2] /\ Len(agenda[t]) > 1
                      /\ agenda[t][2].op = "note" /\ agenda[t][2].role = r
                      /\ agenda[t][2].u = o.u /\ agenda[t][2].pin = p
    OBVIOUS
  <2>1. /\ local[t].result /\ pins[p] = Unassigned /\ Len(agenda[t]) > 1
        /\ agenda[t][2] = [o EXCEPT !.op = "note"]
    BY <1>1 DEF Inv, Good, Ready
  <2>2. /\ [o EXCEPT !.op = "note"].op = "note" /\ [o EXCEPT !.op = "note"].role = r
        /\ [o EXCEPT !.op = "note"].u = o.u /\ [o EXCEPT !.op = "note"].pin = p
    BY <1>2 DEF Operation, Ops
  <2>3. ~Idle(t)' /\ Now(t)' = agenda[t][2]
    BY <1>3, <2>1, NextIsSecond
  <2> QED BY <2>1, <2>2, <2>3
<1>10. /\ Types' => (~Idle(t)' => Now(t)' \in Operation)
       /\ ~Idle(t)' => Follows(o, Now(t)')
  <2>1. Types' => (~Idle(t)' => Now(t)' \in Operation)
    BY DEF Types, Idle, Now
  <2> QED BY <1>3, <2>1, SecondFollows DEF Inv, Good
<1>11. \A x \in Operation : x.op = "note" => x.role \in RoleSet
  BY DEF Operation, Sound, Attaching
<1>12. CASE ~local[t].result
  <2>1. UNCHANGED pins
    BY <1>12 DEF AssignPin
  <2>2. Known(t)'
    <3>1. \A x \in Pins : Assigned(x) => uart[pins[x].bus][pins[x].type] = x
      BY <1>1, <1>12 DEF Inv, Good, Known, OnItsWay
    <3> QED BY <1>4, <2>1, <3>1, KnownStays
  <2>3. Types'
    BY <1>3, <1>4, <1>5, <2>1, TypesStay DEF Inv, Types, TypeOK, Turn
  <2>4. Ready(t)'
    <3> SUFFICES ASSUME ~Idle(t)'
                 PROVE  /\ Now(t)'.op \in Setting => Now(t)'.role \notin RoleSet
                        /\ Now(t)'.op # "note"
      BY <1>4, <1>12 DEF Ready
    <3> QED BY <1>9, <1>10, <1>11, <1>12, <2>3 DEF Follows
  <2> QED BY <1>1, <1>4, <1>5, <1>8, <2>1, <2>2, <2>4, StillTurn
<1>13. CASE local[t].result
  <2>1. pins' = [pins EXCEPT ![p] = [type |-> r, bus |-> o.u, extra |-> NULL]]
    BY <1>13 DEF AssignPin, Assign
  <2>2. pins \in [Pins -> [type : BusTypes, bus : Buses \cup {NULL}, extra : Extras]]
    BY Names DEF Inv, Types, TypeOK, PeriManTypeOK
  <2>3. /\ pins'[p] = [type |-> r, bus |-> o.u, extra |-> NULL]
        /\ pins'[p].type = r /\ pins'[p].bus = o.u
        /\ \A x \in Pins : x # p => pins'[x] = pins[x]
    BY <1>2, <2>1, <2>2
  <2>4. Types'
    <3>1. [type |-> r, bus |-> o.u, extra |-> NULL] \in [type : BusTypes, bus : Buses \cup {NULL}, extra : Extras]
      BY <1>2, Names DEF Extras
    <3>2. pins' \in [ValidPins -> [type : BusTypes, bus : Buses \cup {NULL}, extra : Extras]]
      BY <1>2, <2>1, <2>2, <3>1, Names
    <3>3. TypeOK'
      BY <1>4, <3>2 DEF Inv, Types, TypeOK, PeriManTypeOK
    <3>4. \A x \in Pins :
            \/ pins'[x] = Unassigned
            \/ pins'[x].type = "I2C" /\ pins'[x].bus = Foreign
            \/ pins'[x].type \in RoleSet /\ pins'[x].bus \in Uarts
      BY <1>2, <2>3 DEF Inv, Types, Unassigned
    <3> QED BY <1>3, <1>5, <3>3, <3>4 DEF Types, Turn, Unassigned
  <2>5. InOrder(agenda[t])'
    BY <1>3, <1>6, OrderStays DEF Inv, Good
  <2>6. Ready(t)'
    <3>1. CASE r \in RoleSet
      BY <1>4, <1>9, <2>3, <3>1 DEF Ready, Setting
    <3>2. CASE r \notin RoleSet
      <4> SUFFICES ASSUME ~Idle(t)'
                   PROVE  /\ Now(t)'.op = "connect" => pins'[Now(t)'.pin] = Unassigned
                          /\ Now(t)'.op \in Setting => Now(t)'.role \notin RoleSet
                          /\ Now(t)'.op # "note"
        BY DEF Ready
      <4>1. Follows(o, Now(t)') /\ Now(t)' \in Operation
        BY <1>10, <2>4
      <4>2. r = "INIT" => pins'[p] = Unassigned
        BY <1>2, <2>3, Names DEF Unassigned
      <4> QED BY <1>11, <3>2, <4>1, <4>2 DEF Follows
    <3> QED BY <3>1, <3>2
  <2>7. Known(t)'
    <3> SUFFICES ASSUME NEW x \in Pins, pins'[x].type \in RoleSet
                 PROVE  uart'[pins'[x].bus][pins'[x].type] = x \/ OnItsWay(t, x)'
      BY DEF Known, Assigned
    <3>1. CASE x = p
      BY <1>9, <2>3, <3>1 DEF OnItsWay
    <3>2. CASE x # p
      <4>1. pins'[x] = pins[x] /\ Assigned(x)
        BY <2>3, <3>2 DEF Assigned
      <4>2. ~OnItsWay(t, x)
        BY <1>1, <3>2 DEF OnItsWay
      <4> QED BY <1>4, <4>1, <4>2 DEF Inv, Good, Known
    <3> QED BY <3>1, <3>2
  <2>8. Told(t)'
    <3>1. /\ Muting(t) => Muting(t)'
          /\ Has(t, Saving)' => Has(t, {"restore"})'
          /\ ~Does(t, "mute")'
      <4>1. o.op \notin Saving \cup {"restore"}
        BY <1>1 DEF Saving
      <4> QED BY <1>8, <4>1, MutingStays DEF Inv, Good
    <3>2. ASSUME NEW x \in Pins, pins'[x].type \in RoleSet
          PROVE  \/ deinit_functions'[pins'[x].type] = "driver"
                 \/ /\ deinit_functions'[pins'[x].type] = "empty"
                    /\ pins'[x].type \in local'[t].muted /\ Muting(t)'
                 \/ Does(t, "note")' /\ Now(t)'.pin = x
      <4>1. CASE x = p
        BY <1>9, <2>3, <3>2, <4>1 DEF Does
      <4>2. CASE x # p
        <5>1. pins'[x] = pins[x] /\ Assigned(x)
          BY <2>3, <3>2, <4>2 DEF Assigned
        <5>2. ~Does(t, "note")
          BY <1>1 DEF Does
        <5>3. \/ deinit_functions[pins[x].type] = "driver"
              \/ /\ deinit_functions[pins[x].type] = "empty"
                 /\ pins[x].type \in local[t].muted /\ Muting(t)
          BY <5>1, <5>2 DEF Inv, Good, Told
        <5> QED BY <1>4, <3>1, <5>1, <5>3
      <4> QED BY <4>1, <4>2
    <3> QED BY <3>1, <3>2 DEF Told, Assigned
  <2>9. Released(t)'
    <3>1. ASSUME NEW i \in 2 .. Len(agenda[t]), NEW x \in Operation, agenda[t][i] = x,
                 x.op \in Attaching, x.pin # NoPin, Given(x)
          PROVE  Given(x)'
      <4>1. x.u \in Uarts /\ x.role \in RoleSet
        BY <3>1 DEF Operation, Sound
      <4> DEFINE q == uart[x.u][x.role]
      <4>2. q \in Pins \cup {NoPin} /\ uart'[x.u][x.role] = q
        BY <1>4, <4>1 DEF Inv, Types, TypeOK
      <4>3. CASE q # p
        BY <2>3, <3>1, <4>2, <4>3 DEF Given
      <4>4. CASE q = p /\ ~(r = x.role /\ o.u = x.u)
        BY <2>3, <4>2, <4>4 DEF Given
      <4>5. CASE q = p /\ r = x.role /\ o.u = x.u
        <5>1. /\ Len(agenda[t]) > 1 /\ agenda[t][2].op = "note" /\ agenda[t][2].role = r
              /\ agenda[t][2].pin = p
          BY <1>9, <4>1, <4>5
        <5>2. CASE i = 2
          BY <3>1, <4>2, <4>5, <5>1, <5>2 DEF Given
        <5>3. CASE i # 2
          <6>1. 2 \in 1 .. Len(agenda[t]) /\ i \in 1 .. Len(agenda[t]) /\ 2 < i
            BY <1>3, <5>1, <5>3, TopOfAgenda
          <6>2. MayPrecede(agenda[t][2], agenda[t][i])
            BY <6>1 DEF Inv, Good, InOrder
          <6> QED BY <3>1, <4>5, <5>1, <6>2 DEF MayPrecede, Attaching
        <5> QED BY <5>2, <5>3
      <4> QED BY <4>3, <4>4, <4>5
    <3>2. ASSUME NEW i \in 2 .. Len(agenda[t]), NEW x \in Operation, agenda[t][i] = x,
                 x.op \in Attaching, x.pin # NoPin, Covered(t, x)
          PROVE  Covered(t, x)'
      <4>1. o.op \notin Releasing /\ ~Freeing(t, x)
        BY <1>1 DEF Releasing, Freeing
      <4>2. Awaits(t, x) => Awaits(t, x)'
        BY <1>3, <4>1, AwaitsStays
      <4> QED BY <3>1, <3>2, <4>1, <4>2 DEF Covered
    <3> QED BY <1>8, <3>2, ReleasedLater DEF Inv, Good
  <2> QED BY <2>4, <2>5, <2>6, <2>7, <2>8, <2>9 DEF Good
<1> QED BY <1>12, <1>13

LEMMA DetachKeeps ==
  ASSUME Inv, NEW t \in Tasks, Detach(t)
  PROVE  Types' /\ Good(t)'
<1> DEFINE o == Now(t)
           u == o.u
           r == o.role
           p == o.pin
<1>1. ~Idle(t) /\ o.op = "detach" /\ o \in Operation
  BY HeadIsSound DEF Detach, Does, Inv
<1>2. u \in Uarts /\ r \in RoleSet /\ p \in Pins \cup {NoPin}
  BY <1>1 DEF Operation, Ops, Sound
<1>3. uart \in [Uarts -> [RoleSet -> Pins \cup {NoPin}]]
  BY DEF Inv, Types, TypeOK
<1>4. o.op \notin Setting \cup Saving \cup Releasing \cup Attaching \cup {"callback", "note", "restore"}
  BY <1>1 DEF Setting, Saving, Releasing, Attaching
<1>5. UNCHANGED <<pins, deinit_functions, installed, registered, lock>>
  BY DEF Detach, unchangedPeriMan
<1>6. \A x \in Pins : Assigned(x) => uart[pins[x].bus][pins[x].type] = x
  BY <1>4, NothingOnItsWay DEF Inv, Good
<1>7. CASE p # NoPin /\ uart[u][r] = p /\ pins[p].type = r
  <2>1. /\ uart' = [uart EXCEPT ![u][r] = NoPin] /\ Calls(t, <<ClearPin(p)>>) /\ UNCHANGED local
    BY <1>7 DEF Detach
  <2>2. p \in Pins /\ local' \in [Tasks -> Local] /\ local'[t].muted = local[t].muted
    BY <1>2, <1>7, <2>1 DEF Inv, Types
  <2>3. PICK c : c = ClearPin(p)
    OBVIOUS
  <2>4. c \in Operation /\ c.op = "setBus" /\ c.u = NULL /\ c.role = "INIT" /\ c.pin = p
    BY <2>2, <2>3, ClearPinIsSound
  <2>5. PICK ops : ops = <<c>>
    OBVIOUS
  <2>6. ops \in Seq(Operation) /\ Len(ops) = 1 /\ ops[1] = c /\ Calls(t, ops)
    BY <2>1, <2>3, <2>4, <2>5
  <2>7. Turn(t, ops)
    BY <1>1, <2>6, CallsReplaces DEF Inv
  <2>8. /\ uart' \in [Uarts -> [RoleSet -> Pins \cup {NoPin}]] /\ uart'[u][r] = NoPin
        /\ \A v \in Uarts, s \in RoleSet : v # u \/ s # r => uart'[v][s] = uart[v][s]
    BY <1>2, <1>3, <2>1
  <2>9. Types'
    BY <1>5, <2>2, <2>7, <2>8 DEF Inv, Types, TypeOK, PeriManTypeOK, Turn, Unassigned
  <2>10. Fits(o, ops)
    <3>1. \A y : MayPrecede(c, y)
      BY <2>4 DEF MayPrecede, Attaching, Releasing, Saving, Starting
    <3>2. \A y : Follows(o, y) => Follows(c, y)
      BY <1>1, <1>4 DEF Follows
    <3> QED BY <2>6, <3>1, <3>2 DEF Fits
  <2>11. InOrder(agenda[t])'
    BY <2>7, <2>10, OrderStays DEF Inv, Good
  <2>12. Ready(t)'
    <3>1. ops[1].op \notin {"connect", "note"} /\ ops[1].role \notin RoleSet
      BY <2>4, <2>6, Names
    <3>2. Now(t).op \notin Setting
      BY <1>4
    <3>3. InOrder(agenda[t])
      BY DEF Inv, Good
    <3> QED BY <2>7, <3>1, <3>2, <3>3, ReadyStays
  <2>13. ~Idle(t)' /\ Now(t)' = c
    <3>1. Len(ops) > 0 => ~Idle(t)' /\ Now(t)' = ops[1]
      BY <2>7, TopOfAgenda
    <3> QED BY <2>6, <3>1
  <2>14. Known(t)'
    <3> SUFFICES ASSUME NEW x \in Pins, Assigned(x)
                 PROVE  uart'[pins[x].bus][pins[x].type] = x \/ OnItsWay(t, x)'
      BY <1>5 DEF Known, Assigned
    <3>1. pins[x].type \in RoleSet /\ pins[x].bus \in Uarts /\ uart[pins[x].bus][pins[x].type] = x
      BY <1>6, Names DEF Inv, Types, Assigned, Unassigned
    <3>2. CASE pins[x].bus = u /\ pins[x].type = r
      <4>1. x = p
        BY <1>7, <3>1, <3>2
      <4> QED BY <1>5, <2>4, <2>8, <2>13, <3>2, <4>1 DEF OnItsWay
    <3>3. CASE ~(pins[x].bus = u /\ pins[x].type = r)
      BY <2>8, <3>1, <3>3
    <3> QED BY <3>2, <3>3
  <2>15. \A i \in 1 .. Len(ops) : ops[i].op \notin Saving \cup Attaching
    BY <2>4, <2>6 DEF Saving, Attaching
  <2>16. Told(t)'
    BY <1>4, <1>5, <2>2, <2>7, <2>15, ToldStays DEF Inv, Good
  <2>17. Released(t)'
    <3>1. ASSUME NEW x \in Operation, x.op \in Attaching, Covered(t, x)
          PROVE  Covered(t, x)'
      <4>1. x.u \in Uarts /\ x.role \in RoleSet
        BY <3>1 DEF Operation, Sound
      <4>2. CASE x.u = u /\ x.role = r
        BY <2>8, <4>2 DEF Covered, Given
      <4>3. CASE ~(x.u = u /\ x.role = r)
        <5>1. uart'[x.u][x.role] = uart[x.u][x.role] /\ ~Freeing(t, x)
          BY <2>8, <4>1, <4>3 DEF Freeing
        <5>2. Given(x) => Given(x)'
          BY <1>5, <5>1 DEF Given
        <5>3. Awaits(t, x) => Awaits(t, x)'
          BY <1>4, <2>7, AwaitsStays
        <5> QED BY <3>1, <5>1, <5>2, <5>3 DEF Covered
      <4> QED BY <4>2, <4>3
    <3> QED BY <2>7, <2>15, <3>1, ReleasedLater DEF Inv, Good
  <2> QED BY <2>9, <2>11, <2>12, <2>14, <2>16, <2>17 DEF Good
<1>8. CASE ~(p # NoPin /\ uart[u][r] = p /\ pins[p].type = r)
  <2>1. Return(t, TRUE) /\ UNCHANGED uart
    BY <1>8 DEF Detach
  <2>2. /\ Turn(t, <<>>) /\ local' \in [Tasks -> Local] /\ local'[t].muted = local[t].muted
    BY <1>1, <2>1, ReturnTurn DEF Inv
  <2>3. Fits(o, <<>>) /\ Ready(t)'
    BY <1>4, <2>2, NothingPushed
  <2>4. PICK ops : ops = <<>>
    OBVIOUS
  <2>5. Turn(t, ops) /\ Fits(o, ops) /\ 1 .. Len(ops) = {}
    BY <2>2, <2>3, <2>4
  <2>6. Released(t)'
    <3>1. ASSUME NEW x \in Operation, x.op \in Attaching, Covered(t, x)
          PROVE  Covered(t, x)'
      <4>1. Freeing(t, x) => Given(x)
        BY <1>8 DEF Freeing, Given
      <4>2. Given(x) => Given(x)'
        BY <1>5, <2>1 DEF Given
      <4>3. Awaits(t, x) => Awaits(t, x)'
        BY <1>4, <2>5, AwaitsStays
      <4> QED BY <3>1, <4>1, <4>2, <4>3 DEF Covered
    <3> QED BY <2>5, <3>1, ReleasedLater DEF Inv, Good
  <2> QED BY <1>4, <1>5, <2>1, <2>2, <2>3, <2>5, <2>6, QuietTurn
<1> QED BY <1>7, <1>8

LEMMA NoteAttachedKeeps ==
  ASSUME Inv, NEW t \in Tasks, NoteAttached(t)
  PROVE  Types' /\ Good(t)'
<1> DEFINE o == Now(t)
           u == o.u
           r == o.role
           p == o.pin
<1>1. ~Idle(t) /\ o.op = "note" /\ o.op \in Attaching
  BY DEF NoteAttached, Does, Attaching
<1>2. o \in Operation /\ u \in Uarts /\ r \in RoleSet /\ p \in Pins
  BY <1>1, AttachingHead
<1>3. local[t].result /\ pins[p].type = r /\ pins[p].bus = u
  BY <1>1 DEF Inv, Good, Ready
<1>4. /\ uart' = [uart EXCEPT ![u][r] = p] /\ UNCHANGED <<pins, installed, registered, lock, local>>
      /\ deinit_functions' = [deinit_functions EXCEPT ![r] = "driver"] /\ Done(t)
  BY <1>3 DEF NoteAttached, perimanSetBusDeinit
<1>5. Turn(t, <<>>)
  BY <1>1, <1>4, DoneTurn DEF Inv
<1>6. PICK ops : ops = <<>>
  OBVIOUS
<1>7. Turn(t, ops) /\ 1 .. Len(ops) = {}
  BY <1>5, <1>6
<1>8. /\ uart \in [Uarts -> [RoleSet -> Pins \cup {NoPin}]]
      /\ deinit_functions \in [OwnedTypes -> {"null", "empty", "driver"}]
  BY DEF Inv, Types, TypeOK, PeriManTypeOK
<1>9. /\ uart' \in [Uarts -> [RoleSet -> Pins \cup {NoPin}]] /\ uart'[u][r] = p
      /\ \A v \in Uarts, s \in RoleSet : v # u \/ s # r => uart'[v][s] = uart[v][s]
  BY <1>2, <1>4, <1>8
<1>10. /\ deinit_functions' \in [OwnedTypes -> {"null", "empty", "driver"}]
       /\ deinit_functions'[r] = "driver"
       /\ \A s \in RoleSet : s # r => deinit_functions'[s] = deinit_functions[s]
  BY <1>2, <1>4, <1>8, Names
<1>11. Types'
  BY <1>4, <1>5, <1>9, <1>10 DEF Inv, Types, TypeOK, PeriManTypeOK, Turn, Unassigned
<1>12. o.op \notin Setting \cup Saving \cup Releasing \cup {"restore", "detach"}
  BY <1>1 DEF Setting, Saving, Releasing
<1>13. InOrder(agenda[t])' /\ Ready(t)'
  BY <1>5, <1>12, NothingPushed, OrderStays DEF Inv, Good
<1>14. Given(o)
  BY <1>1, <1>2, <1>5, Names, AttachingIsGiven DEF Inv, Good
<1>15. Known(t)'
  <2> SUFFICES ASSUME NEW x \in Pins, pins[x].type \in RoleSet
               PROVE  uart'[pins[x].bus][pins[x].type] = x
    BY <1>4 DEF Known, Assigned
  <2>1. CASE x = p
    BY <1>3, <1>9, <2>1
  <2>2. CASE x # p
    <3>0. pins[x].bus \in Uarts
      BY Names DEF Inv, Types, Unassigned
    <3>1. uart[pins[x].bus][pins[x].type] = x
      BY <1>1, <2>2 DEF Inv, Good, Known, OnItsWay, Assigned
    <3>2. ~(pins[x].bus = u /\ pins[x].type = r)
      BY <1>2, <1>14, <2>2, <3>1, Names DEF Given
    <3> QED BY <1>9, <3>0, <3>1, <3>2
  <2> QED BY <2>1, <2>2
<1>16. Told(t)'
  <2>1. /\ Muting(t) => Muting(t)'
        /\ Has(t, Saving)' => Has(t, {"restore"})'
        /\ ~Does(t, "mute")'
    BY <1>7, <1>12, MutingStays DEF Inv, Good
  <2>2. ASSUME NEW x \in Pins, pins[x].type \in RoleSet
        PROVE  \/ deinit_functions'[pins[x].type] = "driver"
               \/ /\ deinit_functions'[pins[x].type] = "empty"
                  /\ pins[x].type \in local[t].muted /\ Muting(t)'
    <3>1. CASE pins[x].type = r
      BY <1>10, <3>1
    <3>2. CASE pins[x].type # r
      <4>1. \/ deinit_functions[pins[x].type] = "driver"
            \/ /\ deinit_functions[pins[x].type] = "empty"
               /\ pins[x].type \in local[t].muted /\ Muting(t)
        BY <1>3, <2>2, <3>2 DEF Inv, Good, Told, Assigned
      <4> QED BY <1>10, <2>1, <2>2, <3>2, <4>1
    <3> QED BY <3>1, <3>2
  <2> QED BY <1>4, <2>1, <2>2 DEF Told, Assigned
<1>17. Released(t)'
  <2>1. ASSUME NEW i \in 2 .. Len(agenda[t]), NEW x \in Operation, agenda[t][i] = x,
               x.op \in Attaching, Covered(t, x)
        PROVE  Covered(t, x)'
    <3>1. x.u \in Uarts /\ x.role \in RoleSet
      BY <2>1 DEF Operation, Sound
    <3>2. x.role # r
      <4>1. 1 \in 1 .. Len(agenda[t]) /\ i \in 1 .. Len(agenda[t]) /\ 1 < i /\ o = agenda[t][1]
        BY <1>5, TopOfAgenda
      <4>2. MayPrecede(agenda[t][1], agenda[t][i])
        BY <4>1 DEF Inv, Good, InOrder
      <4> QED BY <1>1, <2>1, <4>1, <4>2 DEF MayPrecede
    <3>3. Given(x) => Given(x)'
      BY <1>4, <1>9, <3>1, <3>2 DEF Given
    <3>4. Awaits(t, x) => Awaits(t, x)'
      BY <1>7, <1>12, AwaitsStays
    <3>5. ~Freeing(t, x)
      BY <1>1 DEF Freeing
    <3> QED BY <2>1, <3>3, <3>4, <3>5 DEF Covered
  <2> QED BY <1>7, <2>1, ReleasedLater DEF Inv, Good
<1> QED BY <1>11, <1>13, <1>15, <1>16, <1>17 DEF Good

-----------------------------------------------------------------------------
(* What the task is asked for, and where it starts.                         *)
LEMMA RequestKeeps ==
  ASSUME Inv, NEW t \in Tasks, NEW fn \in {"begin", "setPins", "end", "claim"},
         NEW u \in Uarts \cup {NULL}, NEW want \in [RoleSet -> Pins \cup {NoPin}],
         NEW op \in Operation, Request(t, fn, u, want, op),
         op.op \in {"begin", "setPins", "end", "setBus"}, op.op = "setBus" => op.role \notin RoleSet,
         UNCHANGED pins, deinit_functions' \in [OwnedTypes -> {"null", "empty", "driver"}],
         \A r \in RoleSet : deinit_functions'[r] = deinit_functions[r]
  PROVE  Types' /\ Good(t)'
<1> DEFINE back == ForUart("return", u)
           q == <<op, back>>
<1>1. /\ Idle(t) /\ agenda' = [agenda EXCEPT ![t] = q]
      /\ local' = [local EXCEPT ![t] =
           [NoCall EXCEPT !.fn = fn, !.u = u, !.want = want, !.had = uart]]
      /\ UNCHANGED <<uart, installed, registered, lock>>
  BY DEF Request, unchangedUarts
<1>2. back \in Operation /\ back.op = "return"
  BY Names DEF ForUart, Op, Operation, Ops, OpNames, Sound, Attaching, Releasing, Saving, Starting,
               Setting, Plain
<1> HIDE DEF back
<1>3. q \in Seq(Operation) /\ Len(q) = 2 /\ q[1] = op /\ q[2] = back
  BY <1>2
<1> HIDE DEF q
<1>4. /\ agenda \in [Tasks -> Seq(Operation)] /\ local \in [Tasks -> Local]
      /\ uart \in [Uarts -> [RoleSet -> Pins \cup {NoPin}]]
  BY DEF Inv, Types, TypeOK
<1>5. agenda' \in [Tasks -> Seq(Operation)] /\ agenda'[t] = q
  BY <1>1, <1>3, <1>4
<1>6. local' \in [Tasks -> Local]
  <2>1. NoCall \in Local
    BY Names DEF NoCall, Local, Detached
  <2>2. [NoCall EXCEPT !.fn = fn, !.u = u, !.want = want, !.had = uart] \in Local
    BY <1>4, <2>1 DEF Local
  <2> QED BY <1>1, <1>4, <2>2
<1>7. Types'
  <2>1. TypeOK'
    BY <1>1 DEF Inv, Types, TypeOK, PeriManTypeOK
  <2>2. agenda' \in [Tasks -> Seq(Operation)] /\ local' \in [Tasks -> Local]
    BY <1>5, <1>6
  <2>3. \A p \in Pins :
          \/ pins'[p] = Unassigned
          \/ pins'[p].type = "I2C" /\ pins'[p].bus = Foreign
          \/ pins'[p].type \in RoleSet /\ pins'[p].bus \in Uarts
    BY DEF Inv, Types, Unassigned
  <2> QED BY <2>1, <2>2, <2>3 DEF Types, Unassigned
<1>8. ~Idle(t)' /\ Now(t)' = op
  <2>1. q # <<>> /\ q[1] = op
    BY DEF q
  <2>2. agenda'[t] # <<>> /\ agenda'[t][1] = op
    BY <1>5, <2>1
  <2> QED BY <2>2 DEF Idle, Now
<1>9. InOrder(agenda[t])'
  <2>1. MayPrecede(op, back) /\ Follows(op, back)
    BY <1>2 DEF MayPrecede, Follows, Attaching, Releasing, Saving, Starting, Setting
  <2>2. InOrder(q)
    <3>1. \A i, j \in 1 .. Len(q) : i < j => i = 1 /\ j = 2
      BY <1>3
    <3>2. \A i \in 2 .. Len(q) : i = 2 /\ i - 1 = 1
      BY <1>3
    <3> QED BY <1>3, <2>1, <3>1, <3>2 DEF InOrder
  <2> QED BY <1>5, <2>2 DEF InOrder
<1>10. op.op \notin Attaching \cup Releasing \cup Saving \cup {"assign", "note", "restore"}
  BY DEF Attaching, Releasing, Saving
<1>11. \A W : W \in {Saving, {"restore"}} => ~Has(t, W)'
  <2>1. \A i \in 1 .. Len(q) : i = 1 \/ i = 2
    BY <1>3
  <2>2. \A i \in 1 .. Len(q) : q[i].op \notin Saving \cup {"restore"}
    BY <1>2, <1>3, <1>10, <2>1 DEF Saving
  <2> QED BY <1>5, <2>2 DEF Has
<1>12. /\ \A p \in Pins : Assigned(p) => uart[pins[p].bus][pins[p].type] = p
       /\ \A p \in Pins : Assigned(p) => deinit_functions[pins[p].type] = "driver"
  <2>1. Known(t) /\ Told(t)
    BY DEF Inv, Good
  <2>2. ~Does(t, "note") /\ ~Has(t, {"restore"})
    <3>1. agenda[t] = <<>>
      BY <1>1 DEF Idle
    <3> QED BY <1>1, <3>1 DEF Does, Has
  <2> QED BY <1>1, <2>1, <2>2, EverybodyIsTold, NothingOnItsWay
<1>13. Ready(t)'
  BY <1>8, <1>10 DEF Ready, Attaching, Setting
<1>14. Known(t)'
  BY <1>1, <1>12, KnownStays
<1>15. Told(t)'
  <2>1. ~Does(t, "mute")'
    BY <1>8 DEF Does
  <2> QED BY <1>11, <1>12, <2>1 DEF Told, Assigned
<1>16. Released(t)'
  <2>1. \A i \in 1 .. Len(q) : i = 1 \/ i = 2
    BY <1>3
  <2>2. \A i \in 1 .. Len(q) : q[i].op \notin Attaching
    BY <1>2, <1>3, <1>10, <2>1 DEF Attaching
  <2> QED BY <1>5, <2>2 DEF Released
<1> QED BY <1>7, <1>9, <1>13, <1>14, <1>15, <1>16 DEF Good

LEMMA RequestsKeep ==
  ASSUME Inv, NEW t \in Tasks, RequestBegin(t) \/ RequestSetPins(t) \/ RequestEnd(t) \/ Claim(t)
  PROVE  Types' /\ Good(t)'
<1> DEFINE Any == [RoleSet -> Pins \cup {NoPin}]
<1>1. deinit_functions \in [OwnedTypes -> {"null", "empty", "driver"}]
  BY DEF Inv, Types, TypeOK, PeriManTypeOK
<1>2. ASSUME NEW u \in Uarts, NEW what \in {"begin", "setPins", "end"}
      PROVE  ForUart(what, u) \in Operation /\ ForUart(what, u).op = what
  BY <1>2, UartOps DEF Starting, Plain
<1>3. NoCall.want \in Any
  BY DEF NoCall
<1>4. CASE RequestBegin(t)
  <2>1. PICK u \in Uarts, want \in Wants :
          Request(t, "begin", u, RxTx(want), ForUart("begin", u)) /\ unchangedPeriMan
    BY <1>4 DEF RequestBegin
  <2>2. RxTx(want) \in Any
    BY UartsAssumption DEF RxTx
  <2> HIDE DEF RxTx
  <2>3. ForUart("begin", u) \in Operation /\ ForUart("begin", u).op = "begin"
    BY <1>2
  <2> QED BY <1>1, <2>1, <2>2, <2>3, RequestKeeps DEF unchangedPeriMan
<1>5. CASE RequestSetPins(t)
  <2>1. PICK u \in Uarts, want \in Wants :
          Request(t, "setPins", u, want, ForUart("setPins", u)) /\ unchangedPeriMan
    BY <1>5 DEF RequestSetPins
  <2>2. want \in Any
    BY UartsAssumption
  <2>3. ForUart("setPins", u) \in Operation /\ ForUart("setPins", u).op = "setPins"
    BY <1>2
  <2> QED BY <1>1, <2>1, <2>2, <2>3, RequestKeeps DEF unchangedPeriMan
<1>6. CASE RequestEnd(t)
  <2>1. PICK u \in Uarts :
          Request(t, "end", u, NoCall.want, ForUart("end", u)) /\ unchangedPeriMan
    BY <1>6 DEF RequestEnd
  <2>2. ForUart("end", u) \in Operation /\ ForUart("end", u).op = "end"
    BY <1>2
  <2> QED BY <1>1, <1>3, <2>1, <2>2, RequestKeeps DEF unchangedPeriMan
<1>7. CASE Claim(t)
  <2>1. PICK p \in Pins :
          /\ Request(t, "claim", NULL, [NoCall.want EXCEPT !["RX"] = p], SetPin(p, "I2C", Foreign))
          /\ perimanSetBusDeinit("I2C")
    BY <1>7 DEF Claim
  <2> DEFINE want == [NoCall.want EXCEPT !["RX"] = p]
             set == SetPin(p, "I2C", Foreign)
  <2>2. want \in Any
    BY <1>3
  <2>3. set \in Operation /\ set.op = "setBus" /\ set.role = "I2C"
    BY Names DEF SetPin, Op, Operation, Ops, OpNames, Sound, Attaching, Releasing, Saving, Starting,
                 Setting, Plain
  <2>4. /\ deinit_functions' \in [OwnedTypes -> {"null", "empty", "driver"}] /\ UNCHANGED pins
        /\ \A r \in RoleSet : deinit_functions'[r] = deinit_functions[r]
    BY <1>1, <2>1, Names DEF perimanSetBusDeinit
  <2> HIDE DEF want, set
  <2>5. Request(t, "claim", NULL, want, set)
    BY <2>1 DEF want, set
  <2> QED BY <2>2, <2>3, <2>4, <2>5, Names, RequestKeeps
<1> QED BY <1>4, <1>5, <1>6, <1>7

LEMMA StartsIdle ==
  ASSUME Types, agenda = [t \in Tasks |-> <<>>],
         \A p \in Pins : Assigned(p) => /\ uart[pins[p].bus][pins[p].type] = p
                                        /\ deinit_functions[pins[p].type] = "driver"
  PROVE  Inv
<1> SUFFICES ASSUME NEW t \in Tasks PROVE Good(t)
  BY DEF Inv
<1>1. agenda[t] = <<>> /\ Idle(t)
  BY DEF Idle
<1>2. InOrder(agenda[t]) /\ Released(t)
  BY <1>1 DEF InOrder, Released
<1>3. Ready(t) /\ Known(t)
  BY <1>1 DEF Ready, Known
<1>4. Told(t)
  BY <1>1 DEF Told, Has, Does
<1> QED BY <1>2, <1>3, <1>4 DEF Good

LEMMA InitInv == Init => Inv
<1> SUFFICES ASSUME Init PROVE Inv
  OBVIOUS
<1>1. \A p \in Pins : pins[p] = Unassigned /\ ~Assigned(p)
  BY Names DEF Init, PeriManInit, Assigned, Unassigned
<1>2. TypeOK
  BY Names DEF Init, PeriManInit, TypeOK, PeriManTypeOK, Detached, Unassigned, Extras, BusTypes,
               OwnedTypes, HalLocks
<1>3. agenda \in [Tasks -> Seq(Operation)] /\ local \in [Tasks -> Local]
  <2>1. NoCall \in Local
    BY Names DEF NoCall, Local, Detached
  <2> QED BY <2>1 DEF Init
<1>4. Types
  BY <1>1, <1>2, <1>3 DEF Types
<1> QED BY <1>1, <1>4, StartsIdle DEF Init

LEMMA AllBegunInv == AllBegun => Inv
<1> SUFFICES ASSUME AllBegun PROVE Inv
  OBVIOUS
<1> DEFINE Serves(p, x) == x \in Uarts \X RoleSet /\ uart[x[1]][x[2]] = p
           at(p) == CHOOSE x \in Uarts \X RoleSet : uart[x[1]][x[2]] = p
<1>1. /\ uart \in [Uarts -> [RoleSet -> Pins \cup {NoPin}]]
      /\ \A u \in Uarts, r \in RoleSet : uart[u][r] # NoPin => r \in {"RX", "TX"}
  BY UartsAssumption DEF AllBegun
<1>2. ASSUME NEW p \in Pins
      PROVE  \/ pins[p] = Unassigned
             \/ /\ pins[p].type \in {"RX", "TX"} /\ pins[p].bus \in Uarts /\ pins[p].extra = NULL
                /\ pins[p] = [type |-> pins[p].type, bus |-> pins[p].bus, extra |-> NULL]
                /\ uart[pins[p].bus][pins[p].type] = p
  <2>1. CASE \E u \in Uarts, r \in RoleSet : uart[u][r] = p
    <3>1. pins[p] = [type |-> at(p)[2], bus |-> at(p)[1], extra |-> NULL]
      BY <2>1, Names DEF AllBegun
    <3>2. \E x \in Uarts \X RoleSet : uart[x[1]][x[2]] = p
      <4>1. PICK u \in Uarts, r \in RoleSet : uart[u][r] = p
        BY <2>1
      <4>2. <<u, r>> \in Uarts \X RoleSet /\ <<u, r>>[1] = u /\ <<u, r>>[2] = r
        OBVIOUS
      <4> QED BY <4>1, <4>2
    <3>3. at(p) \in Uarts \X RoleSet /\ uart[at(p)[1]][at(p)[2]] = p
      BY <3>2
    <3> HIDE DEF at
    <3>4. at(p)[1] \in Uarts /\ at(p)[2] \in RoleSet
      BY <3>3
    <3>5. at(p)[2] \in {"RX", "TX"}
      BY <1>1, <3>3, <3>4, Names
    <3> QED BY <3>1, <3>3, <3>4, <3>5
  <2>2. CASE ~\E u \in Uarts, r \in RoleSet : uart[u][r] = p
    BY <2>2, Names DEF AllBegun
  <2> QED BY <2>1, <2>2
<1>3. TypeOK
  <2>1. ASSUME NEW p \in Pins
        PROVE  pins[p] \in [type : BusTypes, bus : Buses \cup {NULL}, extra : Extras]
    <3>1. Unassigned \in [type : BusTypes, bus : Buses \cup {NULL}, extra : Extras]
      BY Names DEF Unassigned, Extras
    <3>2. CASE pins[p] # Unassigned
      <4>1. /\ pins[p] = [type |-> pins[p].type, bus |-> pins[p].bus, extra |-> NULL]
            /\ pins[p].type \in BusTypes /\ pins[p].bus \in Buses
        BY <1>2, <3>2, Names
      <4>2. NULL \in Extras
        BY DEF Extras
      <4> QED BY <4>1, <4>2
    <3> QED BY <3>1, <3>2
  <2>2. pins \in [ValidPins -> [type : BusTypes, bus : Buses \cup {NULL}, extra : Extras]]
    <3>1. pins = [p \in ValidPins |-> pins[p]]
      BY DEF AllBegun
    <3> QED BY <2>1, <3>1, Names
  <2>3. deinit_functions \in [OwnedTypes -> {"null", "empty", "driver"}]
    BY DEF AllBegun
  <2> QED BY <1>1, <2>2, <2>3 DEF TypeOK, PeriManTypeOK, AllBegun
<1>4. agenda \in [Tasks -> Seq(Operation)] /\ local \in [Tasks -> Local]
  <2>1. NoCall \in Local
    BY Names DEF NoCall, Local, Detached
  <2> QED BY <2>1 DEF AllBegun
<1>5. Types
  BY <1>2, <1>3, <1>4, Names DEF Types
<1>6. ASSUME NEW p \in Pins, Assigned(p)
      PROVE  uart[pins[p].bus][pins[p].type] = p /\ deinit_functions[pins[p].type] = "driver"
  <2>1. pins[p] # Unassigned
    BY <1>6, Names DEF Assigned, Unassigned
  <2>2. pins[p].type \in {"RX", "TX"} /\ uart[pins[p].bus][pins[p].type] = p
    BY <1>2, <2>1
  <2>3. deinit_functions["RX"] = "driver" /\ deinit_functions["TX"] = "driver"
    BY Names DEF AllBegun
  <2> QED BY <2>2, <2>3
<1> QED BY <1>5, <1>6, StartsIdle DEF AllBegun

LEMMA StepInv ==
  ASSUME OneTask, Inv, [Next]_vars
  PROVE  Inv'
<1>1. ASSUME NEW t \in Tasks, Step(t) PROVE Types' /\ Good(t)'
  BY <1>1, LockStepKeeps, SetBusReturnsKeeps, SetBusGoesOnKeeps, AssignPinKeeps, CallbackKeeps,
     ReturningKeeps, ForeignCallbackKeeps, DetachKeeps, AttachKeeps, ConnectKeeps,
     NoteAttachedKeeps, EndKeeps, DetachAllKeeps, SetPinsKeeps, MutingKeeps, PlanKeeps,
     AttachIfKeeps, ReleaseKeeps, ReleaseOldKeeps, TerminateKeeps, BeginKeeps, TestBeginKeeps,
     UartBeginKeeps, MoveKeeps, DecidingKeeps, InstalledKeeps DEF Step
<1>2. CASE Next
  <2>1. PICK t \in Tasks : Step(t) \/ RequestBegin(t) \/ RequestSetPins(t) \/ RequestEnd(t) \/ Claim(t)
    BY <1>2 DEF Next
  <2>2. Types' /\ Good(t)'
    BY <1>1, <2>1, RequestsKeep
  <2> QED BY <2>2, OnlyTask
<1>3. CASE UNCHANGED vars
  <2>1. UNCHANGED <<pins, deinit_functions, uart, installed, registered, lock, agenda, local>>
    BY <1>3 DEF vars
  <2>2. Types'
    BY <2>1 DEF Inv, Types, TypeOK, PeriManTypeOK, Unassigned
  <2>3. ASSUME NEW t \in Tasks PROVE Good(t)'
    <3>1. Idle(t)' = Idle(t) /\ Now(t)' = Now(t)
      BY <2>1 DEF Idle, Now
    <3>2. \A what : Has(t, what)' = Has(t, what)
      BY <2>1 DEF Has
    <3>3. Muting(t)' = Muting(t)
      BY <3>2 DEF Muting
    <3>4. InOrder(agenda[t])'
      BY <2>1 DEF Inv, Good
    <3>5. Ready(t)'
      BY <2>1, <3>1 DEF Inv, Good, Ready, Unassigned
    <3>6. Known(t)'
      <4>1. ASSUME NEW p \in Pins, OnItsWay(t, p) PROVE OnItsWay(t, p)'
        BY <2>1, <3>1, <4>1 DEF OnItsWay
      <4> QED BY <2>1, <4>1 DEF Inv, Good, Known, Assigned
    <3>7. Told(t)'
      <4>1. \A op : Does(t, op)' = Does(t, op)
        BY <3>1 DEF Does
      <4> QED BY <2>1, <3>1, <3>2, <3>3, <4>1 DEF Inv, Good, Told, Assigned
    <3>8. Released(t)'
      <4>1. ASSUME NEW o, Covered(t, o) PROVE Covered(t, o)'
        BY <2>1, <3>1, <4>1 DEF Covered, Given, Awaits, Freeing
      <4> QED BY <2>1, <4>1 DEF Inv, Good, Released
    <3> QED BY <3>4, <3>5, <3>6, <3>7, <3>8 DEF Good
  <2> QED BY <2>2, <2>3 DEF Inv
<1> QED BY <1>2, <1>3

LEMMA Invariance == ASSUME OneTask PROVE (Spec => []Inv) /\ (SpecBegun => []Inv)
<1>1. Init => Inv
  BY InitInv
<1>2. AllBegun => Inv
  BY AllBegunInv
<1>3. Inv /\ [Next]_vars => Inv'
  BY StepInv
<1> QED BY <1>1, <1>2, <1>3, PTL DEF Spec, SpecBegun

-----------------------------------------------------------------------------
(* Whenever no call is in progress, a pin that the manager gives to a UART  *)
(* is the pin that UART believes to have, whatever begin(), setPins(),      *)
(* end(), refusal and claim of another driver came before.                  *)
THEOREM OwnedPins ==
  ASSUME OneTask
  PROVE  (Spec => []OwnedPinsAreKnown) /\ (SpecBegun => []OwnedPinsAreKnown)
<1>1. Inv => OwnedPinsAreKnown
  <2> SUFFICES ASSUME Inv, Quiet, NEW p \in Pins, pins[p].type \in RoleSet
               PROVE  uart[pins[p].bus][pins[p].type] = p
    BY DEF OwnedPinsAreKnown
  <2>1. PICK t : t \in Tasks
    BY DEF OneTask
  <2> QED BY <2>1 DEF Inv, Good, Quiet, Known, Assigned, OnItsWay
<1> QED BY <1>1, Invariance, PTL

(* ... and the owner of every pin is told when the pin is taken: setPins()  *)
(* restores the callbacks it muted on every path.                           *)
THEOREM OwnersAreTold ==
  ASSUME OneTask
  PROVE  (Spec => []DeinitsInForce) /\ (SpecBegun => []DeinitsInForce)
<1>1. Inv => DeinitsInForce
  <2> SUFFICES ASSUME Inv, Quiet, NEW p \in Pins, pins[p].type \in RoleSet
               PROVE  deinit_functions[pins[p].type] = "driver"
    BY DEF DeinitsInForce, BusDeinitIsSet
  <2>1. PICK t : t \in Tasks
    BY DEF OneTask
  <2>2. Told(t) /\ Idle(t) /\ agenda[t] = <<>>
    BY <2>1 DEF Inv, Good, Quiet, Idle
  <2>3. ~Has(t, {"restore"}) /\ ~Does(t, "note")
    BY <2>2 DEF Has, Does
  <2> QED BY <2>2, <2>3, EverybodyIsTold DEF Assigned
<1> QED BY <1>1, Invariance, PTL

-----------------------------------------------------------------------------
(* What the drivers own, from where every UART has begun. A UART has only   *)
(* pins that the manager gave it (Owned), at every moment. That rests on    *)
(* the agenda of the task:                                                  *)
(*   Lined     nothing but the unwinding of a UART comes before the         *)
(*             assignment of a pin, no two pins to attach are the same, and *)
(*             a call starts at the front;                                  *)
(*   Vacated   before a pin is assigned, or freed without its owner being   *)
(*             called back, the UART that has it gives it up;               *)
(*   Apart     a sketch asks for different pins, and so does begin().       *)
(* And every UART stays registered, so the callback for its last pin ends   *)
(* it: one that is not keeps the pin it has lost.                           *)
Believed(p) == Assigned(p) /\ uart[pins[p].bus][pins[p].type] = p

Owned == \A u \in Uarts, r \in RoleSet :
  uart[u][r] # NoPin => pins[uart[u][r]].type = r /\ pins[uart[u][r]].bus = u

Unwinds(o) ==
  \/ o.op \in {"callback", "true", "end", "lock", "unlock", "detachAll", "delete", "detach"}
  \/ o.op \in Setting /\ o.role \notin RoleSet

Before(x, y) ==
  /\ y.op = "assign" => Unwinds(x)
  /\ x.op \in Attaching /\ y.op \in Attaching /\ x.pin # NoPin => x.pin # y.pin
  /\ y.op \notin {"setBus", "begin", "lockSerial"}
  /\ y.op = "testBegin" => x.op = "lockSerial"

Lined(t) == \A i, j \in 1 .. Len(agenda[t]) : i < j => Before(agenda[t][i], agenda[t][j])

(* Operation o makes the UART that has pin p give it up.                    *)
Frees(t, o, p) ==
  \/ o.op \in {"end", "detachAll"} /\ o.u = pins[p].bus
  \/ o.op = "callback" /\ o.u = pins[p].bus /\ o.role = pins[p].type
  \/ o.op = "detach" /\ o.u = pins[p].bus /\ o.role = pins[p].type /\ o.pin = p
  \/ o.op = "release" /\ o.role \in local[t].attach /\ o.pin = p

(* Operation o takes its pin from whoever has it without a word.            *)
Seizes(t, o) == o.pin # NoPin /\
  (o.op = "assign" \/ (o.op \in {"attachIf", "attach", "setBus"} /\ Has(t, {"restore"})))

Vacated(t) == \A j \in 1 .. Len(agenda[t]) :
  Seizes(t, agenda[t][j]) /\ Believed(agenda[t][j].pin) =>
    \E i \in 1 .. j - 1 : Frees(t, agenda[t][i], agenda[t][j].pin)

Merged(want, its) == [r \in RoleSet |->
  IF want[r] = NoPin /\ r \in {"RX", "TX"} THEN its[r] ELSE want[r]]

Apart(t) ==
  /\ Has(t, (Starting \ {"begin"}) \cup {"plan"}) => Allowed(local[t].want)
  /\ Does(t, "begin") => Allowed(Merged(local[t].want, uart[Now(t).u]))
  /\ \A i \in 1 .. Len(agenda[t]) : agenda[t][i].op = "testBegin" =>
       \A r \in {"RX", "TX"} : local[t].want[r] = NoPin => uart[agenda[t][i].u][r] = NoPin

Sane(t) == Lined(t) /\ Vacated(t) /\ Apart(t)

DriverInv == Inv /\ registered = Uarts /\ Owned /\ \A t \in Tasks : Sane(t)

(* Every UART can have its default pins at once: no pin is the default of   *)
(* two UARTs, or of one twice (HardwareSerial.h:150-262).                   *)
DefaultsApart == \A u, v \in Uarts, r, s \in {"RX", "TX"} :
  DefaultPin[u][r] # NoPin /\ DefaultPin[u][r] = DefaultPin[v][s] => u = v /\ r = s

-----------------------------------------------------------------------------
LEMMA OnlyOwner ==
  ASSUME Types, Owned, NEW p \in Pins, NEW u \in Uarts, NEW r \in RoleSet, uart[u][r] = p
  PROVE  Believed(p) /\ pins[p].type = r /\ pins[p].bus = u
<1>1. p # NoPin
  BY Names
<1> QED BY <1>1 DEF Owned, Believed, Assigned

LEMMA BelievedIsOwned ==
  ASSUME Types, NEW p \in Pins, Believed(p)
  PROVE  pins[p].type \in RoleSet /\ pins[p].bus \in Uarts /\ uart[pins[p].bus][pins[p].type] = p
         /\ p # NoPin
BY Names DEF Types, Believed, Assigned, Unassigned

(* What a turn keeps of each part of the invariant.                         *)
LEMMA LinedStays ==
  ASSUME NEW t, NEW ops, Turn(t, ops), Lined(t),
         \A i, j \in 1 .. Len(ops) : i < j => Before(ops[i], ops[j]),
         \A i \in 1 .. Len(ops) : \A k \in 2 .. Len(agenda[t]) :
           Before(Now(t), agenda[t][k]) => Before(ops[i], agenda[t][k])
  PROVE  Lined(t)'
<1> DEFINE k == Len(ops)
           q == agenda[t]
           r == agenda'[t]
<1>1. /\ Len(q) \in Nat \ {0} /\ k \in Nat /\ Len(r) = k + Len(q) - 1
      /\ \A i \in 1 .. k : r[i] = ops[i]
      /\ \A i \in k + 1 .. Len(r) : r[i] = q[i - k + 1]
      /\ \A i \in 1 .. Len(q) : q[i] \in Operation
      /\ Now(t) = q[1]
  BY TopOfAgenda DEF Turn, Replaced
<1>2. \A i, j \in 1 .. Len(q) : i < j => Before(q[i], q[j])
  BY DEF Lined
<1> HIDE DEF q, r, k
<1>3. ASSUME NEW i \in 1 .. Len(r), NEW j \in 1 .. Len(r), i < j
      PROVE  Before(r[i], r[j])
  <2>1. CASE j <= k
    <3>1. i \in 1 .. k /\ j \in 1 .. k
      BY <1>1, <1>3, <2>1
    <3> QED BY <1>1, <1>3, <3>1 DEF k
  <2>2. CASE i <= k /\ j > k
    <3> DEFINE b == j - k + 1
    <3>1. i \in 1 .. k /\ j \in k + 1 .. Len(r) /\ b \in 2 .. Len(q) /\ 1 \in 1 .. Len(q)
      BY <1>1, <2>2
    <3>2. r[i] = ops[i] /\ r[j] = q[b]
      BY <1>1, <3>1
    <3> HIDE DEF b
    <3>3. b \in 1 .. Len(q) /\ 1 < b
      BY <1>1, <3>1
    <3>4. Before(q[1], q[b])
      BY <1>1, <1>2, <3>1, <3>3
    <3>5. Before(q[1], q[b]) => Before(ops[i], q[b])
      BY <1>1, <3>1 DEF k, q
    <3> QED BY <3>2, <3>4, <3>5
  <2>3. CASE i > k
    <3> DEFINE a == i - k + 1
               b == j - k + 1
    <3>1. a \in 2 .. Len(q) /\ b \in 2 .. Len(q) /\ a < b
          /\ i \in k + 1 .. Len(r) /\ j \in k + 1 .. Len(r)
      BY <1>1, <1>3, <2>3
    <3>2. r[i] = q[a] /\ r[j] = q[b]
      BY <1>1, <3>1
    <3> HIDE DEF a, b
    <3>3. a \in 1 .. Len(q) /\ b \in 1 .. Len(q)
      BY <1>1, <3>1
    <3> QED BY <1>2, <3>1, <3>2, <3>3
  <2> QED BY <1>1, <1>3, <2>1, <2>2, <2>3
<1>4. \A i, j \in 1 .. Len(r) : i < j => Before(r[i], r[j])
  BY <1>3
<1> QED BY <1>4 DEF r, Lined, Before, Unwinds

LEMMA VacatedStays ==
  ASSUME NEW t, NEW ops, Turn(t, ops), Vacated(t),
         \A i \in 2 .. Len(agenda[t]) : \A o \in Operation : \A p \in Pins :
           agenda[t][i] = o /\ o.pin = p /\ Seizes(t, o)' /\ Believed(p)' =>
             /\ Seizes(t, o) /\ Believed(p)
             /\ \A x \in Operation : Frees(t, x, p) => Frees(t, x, p)'
             /\ Frees(t, Now(t), p) => \E k \in 1 .. Len(ops) : Frees(t, ops[k], p)',
         \A i \in 1 .. Len(ops) : \A p \in Pins :
           ops[i].pin = p /\ Seizes(t, ops[i])' /\ Believed(p)' =>
             \E k \in 1 .. i - 1 : Frees(t, ops[k], p)'
  PROVE  Vacated(t)'
<1> DEFINE k == Len(ops)
           q == agenda[t]
           r == agenda'[t]
<1>1. /\ Len(q) \in Nat \ {0} /\ k \in Nat /\ Len(r) = k + Len(q) - 1
      /\ \A i \in 1 .. k : r[i] = ops[i]
      /\ \A i \in k + 1 .. Len(r) : r[i] = q[i - k + 1]
      /\ \A i \in 1 .. Len(q) : q[i] \in Operation
      /\ \A i \in 1 .. k : ops[i] \in Operation
      /\ Now(t) = q[1]
  BY TopOfAgenda DEF Turn, Replaced
<1>2. ASSUME NEW j \in 1 .. Len(r), NEW o, o = r[j], NEW p, p = o.pin, Seizes(t, o)', Believed(p)'
      PROVE  \E i \in 1 .. j - 1 : \E x \in Operation : x = r[i] /\ Frees(t, x, p)'
  <2>1. CASE j <= k
    <3>1. j \in 1 .. k /\ o = ops[j] /\ o \in Operation
      <4>1. k \in Nat /\ j \in Nat /\ 1 <= j
        BY <1>1, <1>2
      <4>2. j \in 1 .. k
        BY <2>1, <4>1
      <4>3. r[j] = ops[j] /\ ops[j] \in Operation
        BY <1>1, <4>2
      <4> QED BY <1>2, <4>2, <4>3
    <3>2. p \in Pins
      <4>1. o.pin \in Pins \cup {NoPin}
        BY <3>1 DEF Operation, Ops
      <4>2. o.pin # NoPin
        BY <1>2 DEF Seizes
      <4> QED BY <1>2, <4>1, <4>2
    <3>3. PICK i \in 1 .. j - 1 : Frees(t, ops[i], p)'
      BY <1>2, <3>1, <3>2 DEF k
    <3>4. i \in 1 .. k /\ r[i] = ops[i] /\ ops[i] \in Operation
      BY <1>1, <3>1, <3>3
    <3> QED BY <3>3, <3>4
  <2>2. CASE j > k
    <3> DEFINE b == j - k + 1
    <3>1. b \in 2 .. Len(q) /\ o = q[b] /\ o \in Operation
      BY <1>1, <1>2, <2>2
    <3>2. p \in Pins
      <4>1. o.pin \in Pins \cup {NoPin}
        BY <3>1 DEF Operation, Ops
      <4>2. o.pin # NoPin
        BY <1>2 DEF Seizes
      <4> QED BY <1>2, <4>1, <4>2
    <3> HIDE DEF b
    <3>3. /\ Seizes(t, o) /\ Believed(p)
          /\ \A x \in Operation : Frees(t, x, p) => Frees(t, x, p)'
          /\ Frees(t, Now(t), p) => \E i \in 1 .. k : Frees(t, ops[i], p)'
      BY <1>2, <3>1, <3>2 DEF q, k
    <3>4. PICK i \in 1 .. b - 1 : Frees(t, q[i], p)
      <4>1. b \in 1 .. Len(q)
        BY <1>1, <3>1
      <4> QED BY <1>2, <3>1, <3>3, <4>1 DEF Vacated, q
    <3>5. CASE i = 1
      <4>1. PICK m \in 1 .. k : Frees(t, ops[m], p)'
        BY <1>1, <3>3, <3>4, <3>5
      <4>2. m \in 1 .. j - 1 /\ r[m] = ops[m] /\ ops[m] \in Operation
        BY <1>1, <2>2, <4>1
      <4> QED BY <4>1, <4>2
    <3>6. CASE i # 1
      <4> DEFINE m == i + k - 1
      <4>1. m \in k + 1 .. Len(r) /\ m \in 1 .. j - 1 /\ m - k + 1 = i /\ i \in 1 .. Len(q)
        BY <1>1, <3>1, <3>4, <3>6 DEF b
      <4>2. r[m] = q[i] /\ q[i] \in Operation
        BY <1>1, <4>1
      <4>3. Frees(t, q[i], p) => \E x \in Operation : x = q[i] /\ Frees(t, x, p)'
        BY <3>3, <4>2
      <4> HIDE DEF m
      <4> QED BY <3>4, <4>1, <4>2, <4>3
    <3> QED BY <3>5, <3>6
  <2>3. j \in Nat
    BY <1>1, <1>2
  <2> HIDE DEF k, q, r
  <2> QED BY <1>1, <2>1, <2>2, <2>3
<1> SUFFICES ASSUME NEW j \in 1 .. Len(agenda'[t]), Seizes(t, agenda[t][j])', Believed(agenda[t][j].pin)'
             PROVE  \E i \in 1 .. j - 1 : Frees(t, agenda[t][i], agenda[t][j].pin)'
  BY DEF Vacated
<1>3. PICK o, p : o = agenda'[t][j] /\ p = o.pin
  OBVIOUS
<1>4. Seizes(t, o)'
  BY <1>3 DEF Seizes, Has
<1>5. Believed(p)'
  BY <1>3 DEF Believed, Assigned
<1>6. PICK i \in 1 .. j - 1, x \in Operation : x = agenda'[t][i] /\ Frees(t, x, p)'
  BY <1>2, <1>3, <1>4, <1>5
<1>7. Frees(t, agenda[t][i], agenda[t][j].pin)'
  BY <1>3, <1>6 DEF Frees
<1> QED BY <1>7

(* The steps after which a task asks for pins, and those that are met at    *)
(* certain places only.                                                     *)
Asking  == (Starting \ {"begin"}) \cup {"plan"}
Special == Attaching \cup Setting \cup {"restore", "begin", "lockSerial", "testBegin"}

LEMMA ApartStays ==
  ASSUME NEW t, NEW ops, Turn(t, ops), Lined(t), Apart(t), local'[t].want = local[t].want,
         Now(t).op = "lockSerial" => UNCHANGED uart,
         \A i \in 1 .. Len(ops) : /\ ops[i].op \notin {"begin", "testBegin"}
                                  /\ ops[i].op \in Asking => Now(t).op \in Asking
  PROVE  Apart(t)'
<1>1. /\ Len(agenda[t]) \in Nat /\ Len(agenda[t]) > 0 /\ Len(ops) \in Nat /\ Now(t) = agenda[t][1]
      /\ Replaced(agenda[t], ops, agenda'[t])
  BY TopOfAgenda DEF Turn
<1>2. Has(t, Asking)' => Has(t, Asking)
  <2>1. CASE Now(t).op \in Asking
    BY <1>1, <2>1 DEF Has
  <2>2. CASE Now(t).op \notin Asking
    <3> SUFFICES ASSUME Has(t, Asking)' PROVE Has(t, Asking)
      OBVIOUS
    <3>1. PICK i \in 2 .. Len(agenda[t]) : agenda[t][i].op \in Asking
      BY <2>2, HasLater
    <3> QED BY <1>1, <3>1 DEF Has
  <2> QED BY <2>1, <2>2
<1>3. \A i \in 2 .. Len(agenda[t]) : Before(Now(t), agenda[t][i])
  BY <1>1 DEF Lined
<1>4. ~Does(t, "begin")'
  <2> SUFFICES ASSUME ~Idle(t)' PROVE Now(t)'.op # "begin"
    BY DEF Does
  <2>1. CASE Len(ops) > 0
    <3>1. Now(t)' = ops[1] /\ 1 \in 1 .. Len(ops)
      BY <1>1, <2>1, TopOfAgenda
    <3> QED BY <3>1
  <2>2. CASE Len(ops) = 0
    <3>1. Now(t)' = agenda[t][2] /\ 2 \in 2 .. Len(agenda[t])
      BY <1>1, <2>2, TopOfAgenda
    <3> QED BY <1>3, <3>1 DEF Before
  <2> QED BY <1>1, <2>1, <2>2
<1>5. ASSUME NEW i \in 1 .. Len(agenda'[t]), agenda'[t][i].op = "testBegin", NEW r \in {"RX", "TX"},
             local'[t].want[r] = NoPin
      PROVE  uart'[agenda'[t][i].u][r] = NoPin
  <2>1. PICK k \in 2 .. Len(agenda[t]) : agenda[t][k] = agenda'[t][i]
    BY <1>1, <1>5, WhereFrom
  <2>2. Now(t).op = "lockSerial"
    BY <1>3, <1>5, <2>1 DEF Before
  <2>3. k \in 1 .. Len(agenda[t])
    BY <1>1
  <2> QED BY <1>5, <2>1, <2>2, <2>3 DEF Apart
<1>6. Has(t, Asking)' => Allowed(local'[t].want)
  BY <1>2 DEF Apart, Asking
<1> QED BY <1>4, <1>5, <1>6 DEF Apart, Allowed, Asking, Does

(* Operations that may take the place of o unless o frees a pin.            *)
Harmless(o) == {x \in Operation : o.op # "lockSerial" /\
  x.op \notin Special /\ (Unwinds(o) => Unwinds(x)) /\ (x.op \in Asking => o.op \in Asking)}

LEMMA HarmlessStay ==
  ASSUME DriverInv, NEW t \in Tasks, NEW ops, ops \in Seq(Harmless(Now(t))), Turn(t, ops),
         UNCHANGED <<pins, uart>>, local'[t].attach = local[t].attach,
         \A p \in Pins : Believed(p) /\ Frees(t, Now(t), p) =>
           \E i \in 1 .. Len(ops) : Frees(t, ops[i], p)
  PROVE  Owned' /\ Lined(t)' /\ Vacated(t)'
<1>1. \A i \in 1 .. Len(ops) : ops[i] \in Harmless(Now(t))
  OBVIOUS
<1>2. \A i \in 1 .. Len(ops) : /\ ops[i] \in Operation /\ ops[i].op \notin Special
                               /\ Unwinds(Now(t)) => Unwinds(ops[i])
  BY <1>1 DEF Harmless
<1>3. Lined(t) /\ Vacated(t) /\ Owned
  BY DEF DriverInv, Sane
<1>4. \A i \in 1 .. Len(ops) : \A x \in Operation : x.op \notin Special => Before(x, ops[i])
  BY <1>2 DEF Before, Special, Setting, Attaching
<1>5. \A i, j \in 1 .. Len(ops) : i < j => Before(ops[i], ops[j])
  BY <1>2, <1>4
<1>6. \A i \in 1 .. Len(ops) : \A k \in 2 .. Len(agenda[t]) :
        Before(Now(t), agenda[t][k]) => Before(ops[i], agenda[t][k])
  <2>1. \A i \in 1 .. Len(ops) : Now(t).op # "lockSerial" /\ ops[i].op \notin Attaching
    BY <1>1 DEF Harmless, Special
  <2> QED BY <1>2, <2>1 DEF Before
<1>7. Lined(t)'
  BY <1>3, <1>5, <1>6, LinedStays
<1>8. Has(t, {"restore"})' => Has(t, {"restore"})
  <2> SUFFICES ASSUME Has(t, {"restore"})' PROVE Has(t, {"restore"})
    OBVIOUS
  <2>1. \A i \in 1 .. Len(ops) : ops[i].op \notin {"restore"}
    BY <1>2 DEF Special
  <2>2. PICK i \in 2 .. Len(agenda[t]) : agenda[t][i].op \in {"restore"}
    BY <2>1, HasLater
  <2>3. i \in 1 .. Len(agenda[t])
    BY TopOfAgenda
  <2> QED BY <2>2, <2>3 DEF Has
<1>9. \A p \in Pins : Believed(p)' <=> Believed(p)
  BY DEF Believed, Assigned
<1>10. \A x, p : Frees(t, x, p)' <=> Frees(t, x, p)
  BY DEF Frees
<1>11. \A o : Seizes(t, o)' => Seizes(t, o)
  BY <1>8 DEF Seizes
<1>12. \A i \in 1 .. Len(ops) : ~Seizes(t, ops[i])'
  BY <1>2 DEF Seizes, Special, Setting, Attaching
<1>13. Vacated(t)'
  BY <1>3, <1>9, <1>10, <1>11, <1>12, VacatedStays
<1>14. Owned'
  BY <1>3 DEF Owned
<1> QED BY <1>7, <1>13, <1>14

(* ... and when the pins that were asked for stay, too.                     *)
LEMMA HarmlessKeeps ==
  ASSUME DriverInv, NEW t \in Tasks, NEW ops, ops \in Seq(Harmless(Now(t))), Turn(t, ops),
         UNCHANGED <<pins, uart>>,
         local'[t].attach = local[t].attach, local'[t].want = local[t].want,
         \A p \in Pins : Believed(p) /\ Frees(t, Now(t), p) =>
           \E i \in 1 .. Len(ops) : Frees(t, ops[i], p)
  PROVE  Owned' /\ Sane(t)'
<1>1. Owned' /\ Lined(t)' /\ Vacated(t)'
  BY HarmlessStay
<1>2. \A i \in 1 .. Len(ops) : ops[i] \in Harmless(Now(t))
  OBVIOUS
<1>3. \A i \in 1 .. Len(ops) : /\ ops[i].op \notin {"begin", "testBegin"}
                               /\ ops[i].op \in Asking => Now(t).op \in Asking
  BY <1>2 DEF Harmless, Special
<1>4. Apart(t)'
  BY <1>3, ApartStays DEF DriverInv, Sane
<1>5. Lined(t)' /\ Vacated(t)' /\ Apart(t)'
  BY <1>1, <1>4
<1> QED BY <1>1, <1>5 DEF Sane, Lined, Vacated, Apart, Before, Unwinds, Seizes, Believed, Assigned, Frees,
                         Has, Does, Allowed, Merged

(* A step that only goes on, and frees no pin.                              *)
LEMMA GoingOnKeeps ==
  ASSUME DriverInv, NEW t \in Tasks, Turn(t, <<>>), UNCHANGED <<pins, uart>>,
         local'[t].attach = local[t].attach, local'[t].want = local[t].want,
         \A p \in Pins : Believed(p) => ~Frees(t, Now(t), p)
  PROVE  Owned' /\ Sane(t)'
<1>1. <<>> \in Seq(Harmless(Now(t)))
  OBVIOUS
<1> QED BY <1>1, HarmlessKeeps

FreeingOps == {"end", "detachAll", "callback", "detach", "release"}

LEMMA FreesNothing ==
  ASSUME NEW t, Now(t).op \notin FreeingOps
  PROVE  \A p : ~Frees(t, Now(t), p)
BY DEF Frees, FreeingOps

LEMMA EmptyIsSane ==
  ASSUME NEW t, agenda'[t] = <<>>
  PROVE  Sane(t)'
BY DEF Sane, Lined, Vacated, Apart, Has, Does, Idle

(* Steps that change neither pins nor what a UART believes, and call        *)
(* nothing.                                                                 *)
LEMMA QuietStepKeeps ==
  ASSUME DriverInv, NEW t \in Tasks,
         \/ LockStep(t) \/ SetBusReturns(t) \/ ReturnTrue(t) \/ ForeignCallback(t) \/ KeepResult(t)
         \/ DeleteDriver(t) \/ SaveDeinits(t) \/ Mute(t) \/ Collect(t) \/ Restore(t)
         \/ DriverInstall(t) \/ Register(t)
  PROVE  registered' = Uarts /\ Owned' /\ Sane(t)'
<1>1. /\ Types /\ registered = Uarts /\ ~Idle(t) /\ Now(t) \in Operation
      /\ local \in [Tasks -> Local] /\ local[t] \in Local
  BY HeadIsSound, LocalKeepsType DEF DriverInv, Inv, LockStep, SetBusReturns, ReturnTrue, ForeignCallback,
     KeepResult, DeleteDriver, SaveDeinits, Mute, Collect, Restore, DriverInstall, Register, Does
<1>2. UNCHANGED <<pins, uart>>
  BY DEF LockStep, Lock, Unlock, SetBusReturns, ReturnTrue, ForeignCallback, KeepResult, DeleteDriver,
     SaveDeinits, Mute, Collect, Restore, DriverInstall, Register, unchangedPeriMan, unchangedUarts
<1>3. registered' = Uarts
  <2>1. CASE Register(t)
    BY <1>1, <2>1, HeadIsSound DEF Register, Does, Plain
  <2>2. CASE ~Register(t)
    BY <1>1, <2>2 DEF LockStep, Lock, Unlock, SetBusReturns, ReturnTrue, ForeignCallback, KeepResult,
       DeleteDriver, SaveDeinits, Mute, Collect, Restore, DriverInstall, Register, unchangedUarts
  <2> QED BY <2>1, <2>2
<1>4. \/ \E b \in BOOLEAN : Return(t, b)
      \/ Done(t) /\ UNCHANGED local
      \/ Done(t) /\ \E x : local' = [local EXCEPT ![t].ok = x]
      \/ Done(t) /\ \E x : local' = [local EXCEPT ![t].muted = x]
      \/ Done(t) /\ \E x : local' = [local EXCEPT ![t].victims = x]
  <2>1. CASE LockStep(t)
    BY <2>1 DEF LockStep, Lock, Unlock
  <2>2. CASE SetBusReturns(t) \/ ReturnTrue(t) \/ ForeignCallback(t) \/ DriverInstall(t)
    BY <2>2 DEF SetBusReturns, ReturnTrue, ForeignCallback, DriverInstall
  <2>3. CASE KeepResult(t) \/ DeleteDriver(t) \/ Mute(t) \/ Restore(t) \/ Register(t)
    BY <2>3 DEF KeepResult, DeleteDriver, Mute, Restore, Register
  <2>4. CASE SaveDeinits(t)
    BY <2>4 DEF SaveDeinits
  <2>5. CASE Collect(t)
    BY <2>5 DEF Collect
  <2> QED BY <2>1, <2>2, <2>3, <2>4, <2>5
<1>5. local'[t].attach = local[t].attach /\ local'[t].want = local[t].want
  <2>1. CASE \E b \in BOOLEAN : Return(t, b)
    BY <1>1, <2>1 DEF Return, Local
  <2>2. CASE \E x : local' = [local EXCEPT ![t].ok = x]
    BY <1>1, <2>2 DEF Local
  <2>3. CASE \E x : local' = [local EXCEPT ![t].muted = x]
    BY <1>1, <2>3 DEF Local
  <2>4. CASE \E x : local' = [local EXCEPT ![t].victims = x]
    BY <1>1, <2>4 DEF Local
  <2>5. CASE UNCHANGED local
    BY <2>5
  <2> QED BY <1>4, <2>1, <2>2, <2>3, <2>4, <2>5
<1>6. Turn(t, <<>>)
  BY <1>1, <1>4, DoneTurn, ReturnTurn
<1>7. \A p \in Pins : Believed(p) => ~Frees(t, Now(t), p)
  <2>1. CASE ForeignCallback(t)
    <3>1. Now(t).op = "callback" /\ Now(t).role \notin RoleSet
      BY <2>1 DEF ForeignCallback, Does
    <3> QED BY <3>1 DEF Believed, Assigned, Frees
  <2>2. CASE ~ForeignCallback(t)
    <3>1. Now(t).op \notin FreeingOps
      BY <2>2 DEF FreeingOps, LockStep, SetBusReturns, ReturnTrue, ForeignCallback, KeepResult, DeleteDriver,
         SaveDeinits, Mute, Collect, Restore, DriverInstall, Register, Does
    <3> QED BY <3>1, FreesNothing
  <2> QED BY <2>1, <2>2
<1> QED BY <1>2, <1>3, <1>5, <1>6, <1>7, GoingOnKeeps

(* The last operation of a call.                                            *)
LEMMA NothingAfterReturn ==
  ASSUME DriverInv, NEW t \in Tasks, Returns(t)
  PROVE  agenda'[t] = <<>>
<1>1. ~Idle(t) /\ Now(t).op = "return" /\ Done(t)
  BY DEF Returns, Does
<1>2. /\ InOrder(agenda[t]) /\ agenda \in [Tasks -> Seq(Operation)] /\ agenda[t] \in Seq(Operation)
      /\ agenda[t] # <<>> /\ Now(t) = agenda[t][1] /\ Types
  BY <1>1 DEF DriverInv, Inv, Types, Good, Idle, Now
<1>3. Turn(t, <<>>)
  BY <1>1, <1>2, DoneTurn
<1>4. Len(agenda[t]) = 1
  <2> DEFINE n == Len(agenda[t])
  <2>1. n \in Nat /\ n > 0
    BY <1>3, TopOfAgenda
  <2>2. \A i, j \in 1 .. n : i < j => MayPrecede(agenda[t][i], agenda[t][j])
    BY <1>2 DEF InOrder
  <2> HIDE DEF n
  <2>3. ASSUME n # 1 PROVE FALSE
    <3>1. 1 \in 1 .. n /\ 2 \in 1 .. n
      BY <2>1, <2>3
    <3>2. MayPrecede(agenda[t][1], agenda[t][2])
      BY <2>2, <3>1
    <3> QED BY <1>1, <1>2, <3>2 DEF MayPrecede
  <2> QED BY <2>3 DEF n
<1> QED
  <2>1. Len(agenda'[t]) = 0 /\ agenda'[t] \in Seq(Operation)
    BY <1>1, <1>3, <1>4 DEF Turn, Replaced, Returns
  <2> QED BY <2>1

LEMMA ReturnsKeeps ==
  ASSUME DriverInv, NEW t \in Tasks, Returns(t)
  PROVE  registered' = Uarts /\ Owned' /\ Sane(t)'
<1>1. ~Idle(t) /\ Now(t).op = "return" /\ Done(t) /\ UNCHANGED <<pins, uart, registered>>
  BY DEF Returns, Does, unchangedPeriMan, unchangedUarts
<1>2. agenda'[t] = <<>>
  BY NothingAfterReturn
<1>3. Owned' /\ registered' = Uarts
  BY <1>1 DEF DriverInv, Owned
<1> QED BY <1>2, <1>3, EmptyIsSane

(* Steps that call something, and leave pins and beliefs alone.             *)
LEMMA CallsKeep ==
  ASSUME DriverInv, NEW t \in Tasks, ~Idle(t), NEW ops, ops \in Seq(Harmless(Now(t))), Calls(t, ops),
         UNCHANGED <<pins, uart, registered>>,
         local'[t].attach = local[t].attach, local'[t].want = local[t].want,
         \A p \in Pins : Believed(p) /\ Frees(t, Now(t), p) =>
           \E i \in 1 .. Len(ops) : Frees(t, ops[i], p)
  PROVE  registered' = Uarts /\ Owned' /\ Sane(t)'
<1>1. ops \in Seq(Operation)
  BY DEF Harmless
<1>2. Turn(t, ops)
  BY <1>1, CallsReplaces DEF DriverInv, Inv
<1>3. registered' = Uarts
  BY DEF DriverInv
<1> QED BY <1>2, <1>3, HarmlessKeeps

LEMMA UartHarmless ==
  ASSUME NEW o, o.op # "lockSerial", NEW u \in Uarts
  PROVE  /\ \A what \in {"lock", "unlock", "detachAll", "delete", "end", "true"} :
              ForUart(what, u) \in Harmless(o)
         /\ ~Unwinds(o) => \A what \in {"driverInstall", "started", "register", "unlockSerial"} :
              ForUart(what, u) \in Harmless(o)
         /\ ~Unwinds(o) /\ o.op \in Asking =>
              \A what \in {"uartBegin", "moved", "install", "installed", "setPins"} :
                ForUart(what, u) \in Harmless(o)
<1>1. ASSUME NEW what \in {"lock", "unlock", "detachAll", "delete", "end", "true",
                           "driverInstall", "started", "register", "unlockSerial"}
      PROVE  /\ ForUart(what, u) \in Operation /\ ForUart(what, u).op = what
             /\ what \notin Special \cup Asking
  BY UartOps DEF Plain, Special, Attaching, Setting, Asking, Starting
<1>2. ASSUME NEW what \in {"uartBegin", "moved", "install", "installed", "setPins"}
      PROVE  /\ ForUart(what, u) \in Operation /\ ForUart(what, u).op = what
             /\ what \notin Special
  BY UartOps DEF Starting, Special, Attaching, Setting
<1>3. \A what \in {"lock", "unlock", "detachAll", "delete", "end", "true"} : Unwinds(ForUart(what, u))
  BY <1>1 DEF Unwinds
<1>4. \A what \in {"lock", "unlock", "detachAll", "delete", "end", "true"} :
        ForUart(what, u) \in Harmless(o)
  BY <1>1, <1>3 DEF Harmless
<1>5. ~Unwinds(o) => \A what \in {"driverInstall", "started", "register", "unlockSerial"} :
        ForUart(what, u) \in Harmless(o)
  BY <1>1 DEF Harmless
<1>6. ~Unwinds(o) /\ o.op \in Asking =>
        \A what \in {"uartBegin", "moved", "install", "installed", "setPins"} :
          ForUart(what, u) \in Harmless(o)
  BY <1>2 DEF Harmless
<1> QED BY <1>4, <1>5, <1>6

(* Operations a UART calls for itself.                                      *)
LEMMA CallingStepKeeps ==
  ASSUME DriverInv, NEW t \in Tasks,
         Install(t) \/ UartBegin(t) \/ Moved(t) \/ Installed(t) \/ Started(t) \/ Terminate(t)
  PROVE  registered' = Uarts /\ Owned' /\ Sane(t)'
<1> DEFINE u == Now(t).u
           S == Seq(Harmless(Now(t)))
<1>1. /\ ~Idle(t) /\ u \in Uarts /\ Now(t) \in Operation
      /\ Now(t).op \in {"install", "uartBegin", "moved", "installed", "started", "terminate"}
      /\ local \in [Tasks -> Local] /\ local[t] \in Local /\ Types
  BY HeadIsSound, LocalKeepsType DEF Install, UartBegin, Moved, Installed, Started, Terminate, Does,
     DriverInv, Inv, Plain, Starting
<1>2. ~Unwinds(Now(t)) /\ Now(t).op # "lockSerial" /\ Now(t).op \notin FreeingOps
  BY <1>1 DEF Unwinds, FreeingOps, Setting
<1>3. /\ \A what \in {"lock", "unlock", "detachAll", "delete", "end", "true"} :
           ForUart(what, u) \in Harmless(Now(t))
      /\ \A what \in {"driverInstall", "started", "register", "unlockSerial"} :
           ForUart(what, u) \in Harmless(Now(t))
      /\ Now(t).op \in Asking =>
           \A what \in {"uartBegin", "moved", "install", "installed", "setPins"} :
             ForUart(what, u) \in Harmless(Now(t))
  BY <1>1, <1>2, UartHarmless
<1>4. UNCHANGED <<pins, uart, registered>>
  BY DEF Install, UartBegin, Moved, Installed, Started, Terminate, unchangedPeriMan, unchangedUarts
<1>5. CASE Terminate(t) /\ Return(t, local[t].ok)
  <2>1. local[t].ok \in BOOLEAN
    BY <1>1 DEF Local
  <2>2. Turn(t, <<>>) /\ local'[t] = [local[t] EXCEPT !.result = local[t].ok]
    BY <1>1, <1>5, <2>1, ReturnTurn
  <2>3. local'[t].attach = local[t].attach /\ local'[t].want = local[t].want
    BY <1>1, <2>2 DEF Local
  <2>4. registered' = Uarts
    BY <1>4 DEF DriverInv
  <2> QED BY <1>2, <1>4, <2>2, <2>3, <2>4, FreesNothing, GoingOnKeeps
<1>6. CASE ~(Terminate(t) /\ Return(t, local[t].ok))
  <2>1. PICK ops \in S : Calls(t, ops)
    <3>1. CASE Install(t)
      <4>1. Now(t).op \in Asking
        BY <3>1 DEF Install, Does, Asking, Starting
      <4> DEFINE e == <<ForUart("lock", u), ForUart("driverInstall", u), ForUart("unlock", u),
                        ForUart("installed", u)>>
      <4>2. e \in S
        BY <1>3, <4>1
      <4> QED BY <3>1, <4>2 DEF Install
    <3>2. CASE UartBegin(t)
      <4>1. Now(t).op \in Asking
        BY <3>2 DEF UartBegin, Does, Asking, Starting
      <4> DEFINE m(r) == Op("move", u, r, Want(t, r))
                 a == <<ForUart("lock", u), m("RX"), m("TX"), ForUart("unlock", u), ForUart("moved", u)>>
                 b == <<ForUart("end", u), ForUart("install", u)>>
                 c == <<ForUart("install", u)>>
      <4>2. \A r \in {"RX", "TX"} : m(r) \in Harmless(Now(t))
        <5> TAKE r \in {"RX", "TX"}
        <5>1. Want(t, r) \in Pins \cup {NoPin} /\ r \in RoleSet /\ r \in BusTypes
          BY <1>1, Names DEF Want, Local
        <5>2. m(r) \in Operation /\ m(r).op = "move"
          BY <1>1, <5>1, Names DEF Op, Operation, Ops, Sound, OpNames, Starting, Attaching, Releasing, Setting,
             Saving, Plain
        <5> QED BY <1>2, <4>1, <5>2 DEF Harmless, Special, Attaching, Setting
      <4> HIDE DEF m
      <4>3. a \in S /\ b \in S /\ c \in S
        BY <1>3, <4>1, <4>2
      <4> QED BY <3>2, <4>3 DEF UartBegin, m
    <3>3. CASE Moved(t)
      <4>1. Now(t).op \in Asking
        BY <3>3 DEF Moved, Does, Asking, Starting
      <4>2. Settle(u) \in S /\ <<ForUart("end", u), ForUart("install", u)>> \in S
        BY <1>3, <4>1 DEF Settle
      <4> QED BY <3>3, <4>2 DEF Moved
    <3>4. CASE Installed(t)
      <4>1. Now(t).op \in Asking
        BY <3>4 DEF Installed, Does, Asking, Starting
      <4>2. <<ForUart("setPins", u), ForUart("started", u)>> \in S /\ <<ForUart("end", u)>> \in S
        BY <1>3, <4>1
      <4> QED BY <3>4, <4>2 DEF Installed
    <3>5. CASE Started(t)
      <4>1. Settle(u) \in S /\ <<ForUart("end", u)>> \in S
        BY <1>3 DEF Settle
      <4> QED BY <3>5, <4>1 DEF Started
    <3>6. CASE Terminate(t) /\ ~Return(t, local[t].ok)
      <4>1. PICK v \in local[t].victims : Calls(t, HardwareSerialEnd(v) \o <<Now(t)>>)
        BY <3>6 DEF Terminate
      <4>2. v \in Uarts
        BY <1>1 DEF Local
      <4>3. ForUart("end", v) \in Harmless(Now(t))
        BY <1>2, <4>2, UartHarmless
      <4>4. Now(t) \in Harmless(Now(t))
        BY <1>1, <1>2, <3>6 DEF Harmless, Special, Setting, Attaching, Terminate, Does
      <4>5. HardwareSerialEnd(v) \in S
        BY <4>3 DEF HardwareSerialEnd
      <4> HIDE DEF HardwareSerialEnd
      <4>6. HardwareSerialEnd(v) \o <<Now(t)>> \in S
        BY <4>4, <4>5
      <4> QED BY <4>1, <4>6
    <3> QED BY <1>6, <3>1, <3>2, <3>3, <3>4, <3>5, <3>6
  <2>2. local'[t].attach = local[t].attach /\ local'[t].want = local[t].want
    <3>1. CASE UNCHANGED local
      BY <3>1
    <3>2. CASE ~UNCHANGED local
      <4>1. PICK W : local' = [local EXCEPT ![t].victims = W]
        BY <1>6, <3>2 DEF Install, UartBegin, Moved, Installed, Started, Terminate
      <4> QED BY <1>1, <4>1 DEF Local
    <3> QED BY <3>1, <3>2
  <2> QED BY <1>1, <1>2, <1>4, <2>1, <2>2, FreesNothing, CallsKeep
<1> QED BY <1>5, <1>6

(* Operations that let go of pins one by one.                               *)
LEMMA DetachIsHarmless ==
  ASSUME NEW o, o.op # "lockSerial", NEW u \in Uarts, NEW r \in RoleSet, NEW p \in Pins \cup {NoPin}
  PROVE  Op("detach", u, r, p) \in Harmless(o)
<1>1. Op("detach", u, r, p) \in Operation /\ Op("detach", u, r, p).op = "detach"
  BY DetachIsSound
<1> QED BY <1>1 DEF Harmless, Special, Setting, Attaching, Unwinds, Asking, Starting

LEMMA EndFrees ==
  ASSUME DriverInv, NEW t \in Tasks, End(t)
  PROVE  registered' = Uarts /\ Owned' /\ Sane(t)'
<1> DEFINE u == Now(t).u
           ops == <<ForUart("lock", u), ForUart("detachAll", u), ForUart("delete", u), ForUart("unlock", u)>>
<1>1. /\ ~Idle(t) /\ u \in Uarts /\ Now(t).op = "end" /\ Calls(t, ops)
      /\ UNCHANGED <<pins, uart, registered, local>>
  BY HeadIsSound DEF End, Does, unchangedPeriMan, unchangedUarts, DriverInv, Inv, Plain
<1>2. ops \in Seq(Harmless(Now(t)))
  <2>1. \A what \in {"lock", "detachAll", "delete", "unlock"} : ForUart(what, u) \in Harmless(Now(t))
    BY <1>1, UartHarmless
  <2> QED BY <2>1
<1>3. 2 \in 1 .. Len(ops) /\ ops[2].op = "detachAll" /\ ops[2].u = u
  BY UartOps, <1>1 DEF ForUart, Op
<1> HIDE DEF ops
<1>4. \A p \in Pins : Believed(p) /\ Frees(t, Now(t), p) => \E i \in 1 .. Len(ops) : Frees(t, ops[i], p)
  BY <1>1, <1>3 DEF Frees
<1> QED BY <1>1, <1>2, <1>4, CallsKeep

LEMMA DetachAllFrees ==
  ASSUME DriverInv, NEW t \in Tasks, DetachAll(t)
  PROVE  registered' = Uarts /\ Owned' /\ Sane(t)'
<1> DEFINE u == Now(t).u
           ops == ForRoles("detach", u, LAMBDA r : uart[u][r])
<1>1. /\ ~Idle(t) /\ u \in Uarts /\ Now(t).op = "detachAll" /\ Calls(t, ops)
      /\ UNCHANGED <<pins, uart, registered, local>> /\ Types
  BY HeadIsSound DEF DetachAll, Does, unchangedPeriMan, unchangedUarts, DriverInv, Inv, Plain
<1>2. Len(Roles) \in Nat
  BY UartsAssumption
<1>3. /\ ops = [i \in 1 .. Len(Roles) |-> Op("detach", u, Roles[i], uart[u][Roles[i]])]
  BY DEF ForRoles
<1>4. ASSUME NEW i \in 1 .. Len(Roles)
      PROVE  Op("detach", u, Roles[i], uart[u][Roles[i]]) \in Harmless(Now(t))
  <2>1. Roles[i] \in RoleSet
    BY DEF RoleSet
  <2>2. uart[u][Roles[i]] \in Pins \cup {NoPin}
    BY <1>1, <2>1 DEF Types, TypeOK
  <2> QED BY <1>1, <2>1, <2>2, DetachIsHarmless
<1>5. ops \in Seq(Harmless(Now(t))) /\ Len(ops) = Len(Roles)
  BY <1>2, <1>3, <1>4
<1>6. ASSUME NEW p \in Pins, Believed(p), Frees(t, Now(t), p)
      PROVE  \E i \in 1 .. Len(ops) : Frees(t, ops[i], p)
  <2>1. pins[p].bus = u /\ uart[u][pins[p].type] = p
    BY <1>1, <1>6 DEF Frees, Believed
  <2>2. PICK i \in 1 .. Len(Roles) : Roles[i] = pins[p].type
    BY <1>6 DEF Believed, Assigned, RoleSet
  <2>3. ops[i] = Op("detach", u, pins[p].type, p)
    BY <1>3, <2>1, <2>2
  <2>4. Frees(t, ops[i], p)
    BY <2>1, <2>3, OpFields DEF Frees
  <2> QED BY <1>5, <2>4
<1> HIDE DEF ops
<1> QED BY <1>1, <1>5, <1>6, CallsKeep

(* The callback detaches the pin, or ends the UART if it is its last one.   *)
LEMMA CallbackFrees ==
  ASSUME DriverInv, NEW t \in Tasks, Callback(t)
  PROVE  registered' = Uarts /\ Owned' /\ Sane(t)'
<1> DEFINE v == Now(t).u
           r == Now(t).role
           S == Seq(Harmless(Now(t)))
<1>1. /\ ~Idle(t) /\ r \in RoleSet /\ Now(t).op = "callback" /\ Types /\ Now(t) \in Operation
      /\ UNCHANGED <<pins, uart, registered>>
  BY HeadIsSound DEF Callback, Does, unchangedPeriMan, unchangedUarts, DriverInv, Inv
<1>2. v \in Uarts
  BY <1>1, Names DEF Operation, Sound
<1>3. uart[v][r] \in Pins \cup {NoPin}
  BY <1>1, <1>2 DEF Types, TypeOK
<1>4. ASSUME NEW p \in Pins, Believed(p), Frees(t, Now(t), p)
      PROVE  pins[p].bus = v /\ pins[p].type = r /\ uart[v][r] = p /\ p # NoPin
  BY <1>1, <1>4, Names DEF Frees, Believed
<1>5. CASE Return(t, TRUE) /\ uart[v][r] = NoPin
  <2>1. Turn(t, <<>>) /\ local'[t] = [local[t] EXCEPT !.result = TRUE]
    BY <1>1, <1>5, ReturnTurn
  <2>2. local[t] \in Local /\ registered = Uarts
    BY <1>1, LocalKeepsType DEF DriverInv
  <2>3. local'[t].attach = local[t].attach /\ local'[t].want = local[t].want
    BY <2>1, <2>2 DEF Local
  <2> QED BY <1>1, <1>4, <1>5, <2>1, <2>2, <2>3, GoingOnKeeps
<1>6. CASE Calls(t, HardwareSerialEnd(v) \o <<ForUart("true", v)>>) /\ UNCHANGED local
  <2> DEFINE e == <<ForUart("end", v)>>
             x == <<ForUart("true", v)>>
             ops == e \o x
  <2>1. \A what \in {"end", "true"} : ForUart(what, v) \in Harmless(Now(t))
    BY <1>1, <1>2, UartHarmless
  <2>2. /\ e \in S /\ x \in S /\ Len(e) = 1 /\ Len(x) = 1
        /\ e[1].op = "end" /\ e[1].u = v
    BY <2>1 DEF ForUart, Op
  <2>3. HardwareSerialEnd(v) = e
    BY <1>2 DEF HardwareSerialEnd, DriverInv
  <2> HIDE DEF e, x
  <2>4. ops \in S /\ Calls(t, ops) /\ 1 \in 1 .. Len(ops) /\ ops[1].op = "end" /\ ops[1].u = v
    BY <1>6, <2>2, <2>3, ConcatProperties DEF x
  <2> HIDE DEF ops
  <2>5. \A p \in Pins : Believed(p) /\ Frees(t, Now(t), p) => \E i \in 1 .. Len(ops) : Frees(t, ops[i], p)
    BY <1>4, <2>4 DEF Frees
  <2> QED BY <1>1, <1>6, <2>4, <2>5, CallsKeep
<1>7. CASE Calls(t, GiveUp(v, r)) /\ UNCHANGED local
  <2> DEFINE ops == <<Op("detach", v, r, uart[v][r])>>
  <2>1. Op("detach", v, r, uart[v][r]) \in Harmless(Now(t))
    BY <1>1, <1>2, <1>3, DetachIsHarmless
  <2>2. ops \in S /\ Calls(t, ops) /\ 1 \in 1 .. Len(ops) /\ ops[1] = Op("detach", v, r, uart[v][r])
    BY <1>7, <2>1 DEF GiveUp
  <2> HIDE DEF ops
  <2>3. \A p \in Pins : Believed(p) /\ Frees(t, Now(t), p) => \E i \in 1 .. Len(ops) : Frees(t, ops[i], p)
    BY <1>4, <2>2, OpFields DEF Frees
  <2> QED BY <1>1, <1>7, <2>2, <2>3, CallsKeep
<1> QED BY <1>5, <1>6, <1>7 DEF Callback

LEMMA ReleasingFrees ==
  ASSUME DriverInv, NEW t \in Tasks, Release(t) \/ ReleaseOld(t)
  PROVE  registered' = Uarts /\ Owned' /\ Sane(t)'
<1> DEFINE o == Now(t)
           taken == pins[o.pin]
           S == Seq(Harmless(Now(t)))
<1>1. /\ ~Idle(t) /\ o.op \in {"release", "releaseOld"} /\ Types
      /\ UNCHANGED <<pins, uart, registered>>
  BY DEF Release, ReleaseOld, Does, unchangedPeriMan, unchangedUarts, DriverInv, Inv
<1>2. /\ o \in Operation /\ o.u \in Uarts /\ o.role \in RoleSet /\ o.pin \in Pins \cup {NoPin}
      /\ (o.op = "releaseOld" => o.pin \in Pins)
  BY <1>1, ReleasingHead DEF DriverInv, Inv, Releasing
<1>3. ~Unwinds(o) /\ o.op # "lockSerial" /\ o.op \notin Asking
  BY <1>1 DEF Unwinds, Setting, Asking, Starting
<1>4. AndKeep \in Harmless(o)
  BY <1>3, AndKeepIsSound DEF Harmless, Special, Setting, Attaching, Asking, Starting
<1>5. local[t] \in Local /\ registered = Uarts
  BY <1>1, LocalKeepsType DEF DriverInv
<1>6. CASE Release(t) /\ o.pin # NoPin
  <2> DEFINE rest == [o EXCEPT !.op = "releaseOld"]
             conflict == o.role \in local[t].attach /\ taken.type \in RoleSet
             d == Op("detach", taken.bus, taken.type, o.pin)
             a == <<d, AndKeep, rest>>
             b == <<rest>>
  <2>1. o.pin \in Pins /\ o.op = "release"
    BY <1>2, <1>6 DEF Release, Does
  <2>2. rest \in Harmless(o)
    <3>1. rest \in Operation /\ rest.op = "releaseOld"
      BY <1>1, <1>2, <2>1 DEF Operation, Ops, Sound, OpNames, Attaching, Releasing, Setting, Saving, Starting, Plain
    <3> QED BY <1>3, <3>1 DEF Harmless, Special, Setting, Attaching, Asking, Starting
  <2>3. conflict => d \in Harmless(o)
    <3>1. conflict => taken.type \in RoleSet /\ taken.bus \in Uarts
      BY <1>1, <2>1, Names DEF Types, Unassigned
    <3> HIDE DEF taken
    <3>2. conflict => Op("detach", taken.bus, taken.type, o.pin) \in Harmless(o)
      BY <1>2, <1>3, <3>1, DetachIsHarmless
    <3> QED BY <3>2
  <2>4. /\ local'[t].attach = local[t].attach /\ local'[t].want = local[t].want
        /\ Calls(t, IF conflict THEN a ELSE b)
    <3>1. PICK W : local' = [local EXCEPT ![t].victims = W]
      BY <1>6 DEF Release
    <3> QED BY <1>5, <1>6, <3>1, LocalKeepsType, <1>1 DEF Release, Local
  <2>5. CASE conflict
    <3>1. a \in S /\ 1 \in 1 .. Len(a) /\ a[1] = d
      BY <1>4, <2>2, <2>3, <2>5
    <3> HIDE DEF a
    <3>2. \A p \in Pins : Believed(p) /\ Frees(t, o, p) => \E i \in 1 .. Len(a) : Frees(t, a[i], p)
      <4> TAKE p \in Pins
      <4>1. Frees(t, o, p) => p = o.pin
        BY <2>1 DEF Frees
      <4>2. p = o.pin => Frees(t, a[1], p)
        BY <3>1, OpFields DEF Frees
      <4> QED BY <3>1, <4>1, <4>2
    <3> QED BY <1>1, <2>4, <2>5, <3>1, <3>2, CallsKeep
  <2>6. CASE ~conflict
    <3>1. b \in S
      BY <2>2
    <3>2. \A p \in Pins : Believed(p) => ~Frees(t, o, p)
      BY <2>1, <2>6 DEF Frees, Believed, Assigned
    <3> HIDE DEF b
    <3> QED BY <1>1, <2>4, <2>6, <3>1, <3>2, CallsKeep
  <2> QED BY <2>5, <2>6
<1>7. CASE Release(t) /\ o.pin = NoPin
  <2>1. Turn(t, <<>>) /\ UNCHANGED local
    BY <1>1, <1>7, DoneTurn DEF Release
  <2>2. \A p \in Pins : ~Frees(t, o, p)
    BY <1>1, <1>7, Names DEF Frees
  <2> QED BY <1>1, <1>5, <2>1, <2>2, GoingOnKeeps
<1>8. CASE ReleaseOld(t)
  <2> DEFINE old == uart[o.u][o.role]
             a == <<Op("detach", o.u, o.role, old), AndKeep>>
             ops == IF old \in {o.pin, NoPin} THEN <<>> ELSE a
  <2>1. old \in Pins \cup {NoPin}
    BY <1>1, <1>2 DEF Types, TypeOK
  <2>2. Op("detach", o.u, o.role, old) \in Harmless(o)
    BY <1>2, <1>3, <2>1, DetachIsHarmless
  <2>3. a \in S /\ <<>> \in S
    BY <1>4, <2>2
  <2>4. ops \in S /\ Calls(t, ops) /\ UNCHANGED local
    BY <1>8, <2>3 DEF ReleaseOld
  <2>5. o.op \notin FreeingOps
    BY <1>8 DEF ReleaseOld, Does, FreeingOps
  <2> HIDE DEF ops
  <2> QED BY <1>1, <2>4, <2>5, FreesNothing, CallsKeep
<1> QED BY <1>6, <1>7, <1>8

-----------------------------------------------------------------------------
(* Steps that push an operation with a place of its own.                    *)
LEMMA HeadIsVacated ==
  ASSUME DriverInv, NEW t \in Tasks, ~Idle(t), Seizes(t, Now(t))
  PROVE  ~Believed(Now(t).pin)
<1>1. agenda[t] \in Seq(Operation) /\ agenda[t] # <<>> /\ Vacated(t)
  BY DEF DriverInv, Inv, Types, Idle, Sane
<1>2. 1 \in 1 .. Len(agenda[t]) /\ 1 .. 1 - 1 = {}
  BY <1>1
<1> QED BY <1>1, <1>2 DEF Vacated, Now

LEMMA AfterHead ==
  ASSUME DriverInv, NEW t \in Tasks, ~Idle(t), NEW k \in 2 .. Len(agenda[t])
  PROVE  Before(Now(t), agenda[t][k]) /\ MayPrecede(Now(t), agenda[t][k])
<1>1. agenda[t] \in Seq(Operation) /\ agenda[t] # <<>> /\ Lined(t) /\ InOrder(agenda[t])
  BY DEF DriverInv, Inv, Types, Idle, Sane, Good
<1>2. 1 \in 1 .. Len(agenda[t]) /\ k \in 1 .. Len(agenda[t]) /\ 1 < k
  BY <1>1
<1> QED BY <1>1, <1>2 DEF Lined, InOrder, Now

LEMMA PushingKeeps ==
  ASSUME DriverInv, NEW t \in Tasks, NEW ops, Turn(t, ops), UNCHANGED <<pins, uart, registered>>,
         local'[t].attach = local[t].attach, local'[t].want = local[t].want,
         Now(t).op \notin FreeingOps \cup {"lockSerial"},
         \A i, j \in 1 .. Len(ops) : i < j => Before(ops[i], ops[j]),
         \A i \in 1 .. Len(ops) : \A k \in 2 .. Len(agenda[t]) :
           Before(Now(t), agenda[t][k]) => Before(ops[i], agenda[t][k]),
         \A i \in 1 .. Len(ops) : /\ ops[i].op \notin {"begin", "testBegin", "restore"} \cup Asking
                                  /\ Seizes(t, ops[i]) /\ Believed(ops[i].pin) =>
                                       \E k \in 1 .. i - 1 : Frees(t, ops[k], ops[i].pin)
  PROVE  registered' = Uarts /\ Owned' /\ Sane(t)'
<1>1. Lined(t) /\ Vacated(t) /\ Apart(t) /\ Owned /\ registered = Uarts
  BY DEF DriverInv, Sane
<1>2. Lined(t)'
  BY <1>1, LinedStays
<1>3. Has(t, {"restore"})' => Has(t, {"restore"})
  <2> SUFFICES ASSUME Has(t, {"restore"})' PROVE Has(t, {"restore"})
    OBVIOUS
  <2>1. \A i \in 1 .. Len(ops) : ops[i].op \notin {"restore"}
    OBVIOUS
  <2>2. PICK i \in 2 .. Len(agenda[t]) : agenda[t][i].op \in {"restore"}
    BY <2>1, HasLater
  <2>3. i \in 1 .. Len(agenda[t])
    BY TopOfAgenda
  <2> QED BY <2>2, <2>3 DEF Has
<1>4. \A p \in Pins : Believed(p)' <=> Believed(p)
  BY DEF Believed, Assigned
<1>5. \A x, p : Frees(t, x, p)' <=> Frees(t, x, p)
  BY DEF Frees
<1>6. \A o : Seizes(t, o)' => Seizes(t, o)
  BY <1>3 DEF Seizes
<1>7. \A p \in Pins : ~Frees(t, Now(t), p)
  BY FreesNothing
<1>8. \A i \in 2 .. Len(agenda[t]) : \A o \in Operation : \A p \in Pins :
           agenda[t][i] = o /\ o.pin = p /\ Seizes(t, o)' /\ Believed(p)' =>
             /\ Seizes(t, o) /\ Believed(p)
             /\ \A x \in Operation : Frees(t, x, p) => Frees(t, x, p)'
             /\ Frees(t, Now(t), p) => \E k \in 1 .. Len(ops) : Frees(t, ops[k], p)'
  BY <1>4, <1>5, <1>6, <1>7
<1>9. \A i \in 1 .. Len(ops) : \A p \in Pins :
           ops[i].pin = p /\ Seizes(t, ops[i])' /\ Believed(p)' =>
             \E k \in 1 .. i - 1 : Frees(t, ops[k], p)'
  BY <1>4, <1>5, <1>6
<1>10. Vacated(t)'
  BY <1>1, <1>8, <1>9, VacatedStays
<1>11. Apart(t)'
  BY <1>1, ApartStays
<1>12. Owned' /\ registered' = Uarts
  BY <1>1 DEF Owned
<1>13. Sane(t)'
  BY <1>2, <1>10, <1>11 DEF Sane, Lined, Vacated, Apart, Before, Unwinds, Seizes, Believed, Assigned, Frees,
                         Has, Does, Allowed, Merged
<1> QED BY <1>12, <1>13

LEMMA AttachingPushes ==
  ASSUME DriverInv, NEW t \in Tasks, AttachIf(t) \/ Attach(t) \/ Connect(t)
  PROVE  registered' = Uarts /\ Owned' /\ Sane(t)'
<1> DEFINE o == Now(t)
           attach == [o EXCEPT !.op = "attach"]
           connect == [o EXCEPT !.op = "connect"]
           note == [o EXCEPT !.op = "note"]
           clear == ClearPin(o.pin)
           set == SetPin(o.pin, o.role, o.u)
<1>1. /\ ~Idle(t) /\ o.op \in {"attachIf", "attach", "connect"} /\ o.op \in Attaching /\ Types
      /\ UNCHANGED <<pins, uart, registered>> /\ local[t] \in Local /\ registered = Uarts
  BY LocalKeepsType DEF AttachIf, Attach, Connect, Does, unchangedPeriMan, unchangedUarts, DriverInv, Inv, Attaching
<1>2. /\ o \in Operation /\ o.u \in Uarts /\ o.role \in RoleSet /\ o.pin \in Pins \cup {NoPin}
      /\ o.op # "attachIf" => o.pin \in Pins
      /\ o.pin \in Pins =>
           /\ attach \in Operation /\ connect \in Operation /\ note \in Operation
           /\ attach.op = "attach" /\ connect.op = "connect" /\ note.op = "note"
           /\ attach.pin = o.pin /\ connect.pin = o.pin /\ note.pin = o.pin
  BY <1>1, AttachingHead DEF DriverInv
<1>3. o.op \notin FreeingOps \cup {"lockSerial"} /\ ~Unwinds(o)
  BY <1>1 DEF FreeingOps, Unwinds, Setting
<1>4. \A k \in 2 .. Len(agenda[t]) : agenda[t][k].op \notin {"assign", "testBegin"}
  BY <1>1, <1>3, AfterHead DEF Before
<1>5. \A x : x.op \notin Attaching \/ x.pin = o.pin =>
        \A k \in 2 .. Len(agenda[t]) : Before(o, agenda[t][k]) => Before(x, agenda[t][k])
  BY <1>1, <1>4 DEF Before
<1>6. \A x : x.op \in {"attach", "setBus"} /\ x.pin = o.pin /\ o.op # "connect" /\ Seizes(t, x) =>
        ~Believed(o.pin)
  BY <1>1, HeadIsVacated DEF Seizes
<1> HIDE DEF attach, connect, note
<1>7. CASE AttachIf(t)
  <2> DEFINE a == <<attach, AndKeep>>
             ops == IF o.pin = NoPin THEN <<>> ELSE a
  <2>1. /\ o.pin # NoPin => a \in Seq(Operation)
        /\ <<>> \in Seq(Operation) /\ Len(a) = 2 /\ a[1] = attach /\ a[2] = AndKeep
    BY <1>2, AndKeepIsSound
  <2>2. ops \in Seq(Operation) /\ Calls(t, ops) /\ UNCHANGED local
    BY <1>7, <2>1 DEF AttachIf, attach
  <2>3. Turn(t, ops)
    BY <1>1, <2>2, CallsReplaces
  <2>4. Before(attach, AndKeep)
    BY AndKeepIsSound DEF Before, Attaching
  <2>5. o.op # "connect"
    BY <1>7 DEF AttachIf, Does
  <2>6. \/ Len(ops) = 0
        \/ o.pin # NoPin /\ Len(ops) = 2 /\ ops[1] = attach /\ ops[2] = AndKeep
    BY <2>1
  <2> HIDE DEF ops
  <2>7. /\ \A i, j \in 1 .. Len(ops) : i < j => Before(ops[i], ops[j])
        /\ \A i \in 1 .. Len(ops) : o.pin # NoPin /\ ops[i] \in {attach, AndKeep}
    BY <2>4, <2>6
  <2>8. \A i \in 1 .. Len(ops) : /\ ops[i].op \notin {"begin", "testBegin", "restore"} \cup Asking
                                 /\ ~(Seizes(t, ops[i]) /\ Believed(ops[i].pin))
    <3>1. o.pin # NoPin => attach.op = "attach" /\ attach.pin = o.pin
      BY <1>2
    <3>2. ~Seizes(t, AndKeep)
      BY AndKeepIsSound DEF Seizes
    <3>3. o.pin # NoPin => ~(Seizes(t, attach) /\ Believed(attach.pin))
      BY <1>6, <2>5, <3>1
    <3> QED BY <2>7, <3>1, <3>2, <3>3, AndKeepIsSound DEF Asking, Starting
  <2>9. \A i \in 1 .. Len(ops) : \A k \in 2 .. Len(agenda[t]) :
           Before(o, agenda[t][k]) => Before(ops[i], agenda[t][k])
    BY <1>2, <1>5, <2>7, AndKeepIsSound DEF Attaching
  <2> QED BY <1>1, <1>3, <2>2, <2>3, <2>7, <2>8, <2>9, PushingKeeps
<1>8. CASE Attach(t)
  <2> DEFINE a == <<clear, connect>>
             b == <<connect>>
             ops == IF pins[o.pin].type = "INIT" THEN b ELSE a
  <2>1. /\ o.pin \in Pins /\ clear \in Operation /\ clear.op = "setBus" /\ clear.pin = o.pin
        /\ clear.role = "INIT" /\ o.op # "connect"
    BY <1>2, <1>8, ClearPinIsSound DEF Attach, Does
  <2> HIDE DEF clear
  <2>2. /\ a \in Seq(Operation) /\ b \in Seq(Operation)
        /\ Len(a) = 2 /\ a[1] = clear /\ a[2] = connect /\ Len(b) = 1 /\ b[1] = connect
    BY <1>2, <2>1
  <2>3. ops \in Seq(Operation) /\ Calls(t, ops) /\ local' = [local EXCEPT ![t].result = TRUE]
    BY <1>8, <2>2 DEF Attach, connect, clear
  <2>4. Turn(t, ops)
    BY <1>1, <2>3, CallsReplaces
  <2>5. local'[t].attach = local[t].attach /\ local'[t].want = local[t].want
    BY <1>1, <2>3, LocalKeepsType DEF Local
  <2>6. Before(clear, connect)
    BY <1>2, <2>1 DEF Before, Attaching
  <2>7. \/ Len(ops) = 1 /\ ops[1] = connect
        \/ Len(ops) = 2 /\ ops[1] = clear /\ ops[2] = connect
    BY <2>2
  <2> HIDE DEF ops
  <2>8. /\ \A i, j \in 1 .. Len(ops) : i < j => Before(ops[i], ops[j])
        /\ \A i \in 1 .. Len(ops) : ops[i] \in {clear, connect}
    BY <2>6, <2>7
  <2>9. \A i \in 1 .. Len(ops) : /\ ops[i].op \notin {"begin", "testBegin", "restore"} \cup Asking
                                 /\ ~(Seizes(t, ops[i]) /\ Believed(ops[i].pin))
    <3>1. ~Seizes(t, connect)
      BY <1>2, <2>1 DEF Seizes
    <3>2. ~(Seizes(t, clear) /\ Believed(clear.pin))
      BY <1>6, <2>1
    <3> QED BY <1>2, <2>1, <2>8, <3>1, <3>2 DEF Asking, Starting
  <2>10. \A i \in 1 .. Len(ops) : \A k \in 2 .. Len(agenda[t]) :
           Before(o, agenda[t][k]) => Before(ops[i], agenda[t][k])
    BY <1>2, <1>5, <2>1, <2>8
  <2> QED BY <1>1, <1>3, <2>4, <2>5, <2>8, <2>9, <2>10, PushingKeeps
<1>9. CASE Connect(t) /\ Return(t, FALSE)
  <2>1. Turn(t, <<>>) /\ local'[t] = [local[t] EXCEPT !.result = FALSE]
    BY <1>1, <1>9, ReturnTurn
  <2>2. local'[t].attach = local[t].attach /\ local'[t].want = local[t].want
    BY <1>1, <2>1 DEF Local
  <2> QED BY <1>1, <1>3, <2>1, <2>2, FreesNothing, GoingOnKeeps
<1>10. CASE Connect(t) /\ ~Return(t, FALSE)
  <2> DEFINE ops == <<set, note>>
  <2>1. /\ o.pin \in Pins /\ o.op = "connect" /\ local[t].result
        /\ Calls(t, ops) /\ UNCHANGED local
    BY <1>2, <1>10 DEF Connect, Does, note
  <2>2. set \in Operation /\ set.op = "setBus" /\ set.pin = o.pin
    BY <1>2, <2>1, Names DEF SetPin, Op, Operation, Ops, Sound, OpNames, Setting, Attaching, Releasing, Saving,
                             Starting, Plain
  <2> HIDE DEF set
  <2>3. ops \in Seq(Operation) /\ Len(ops) = 2 /\ ops[1] = set /\ ops[2] = note
    BY <1>2, <2>1, <2>2
  <2>4. Turn(t, ops)
    BY <1>1, <2>1, <2>3, CallsReplaces
  <2>5. pins[o.pin] = Unassigned
    BY <1>1, <2>1 DEF DriverInv, Inv, Good, Ready
  <2>6. ~Believed(o.pin)
    BY <2>5, Names DEF Believed, Assigned, Unassigned
  <2>7. Before(set, note)
    BY <1>2, <2>1, <2>2 DEF Before, Attaching
  <2> HIDE DEF ops
  <2>8. \A i, j \in 1 .. Len(ops) : i < j => Before(ops[i], ops[j])
    BY <2>3, <2>7
  <2>9. \A i \in 1 .. Len(ops) : ops[i] \in {set, note}
    BY <2>3
  <2>10. \A i \in 1 .. Len(ops) : /\ ops[i].op \notin {"begin", "testBegin", "restore"} \cup Asking
                                  /\ ~(Seizes(t, ops[i]) /\ Believed(ops[i].pin))
    BY <1>2, <2>1, <2>2, <2>6, <2>9 DEF Asking, Starting
  <2>11. \A i \in 1 .. Len(ops) : \A k \in 2 .. Len(agenda[t]) :
           Before(o, agenda[t][k]) => Before(ops[i], agenda[t][k])
    BY <1>2, <1>5, <2>1, <2>2, <2>9
  <2> QED BY <1>1, <1>3, <2>1, <2>4, <2>8, <2>10, <2>11, PushingKeeps
<1> QED BY <1>7, <1>8, <1>9, <1>10

(* begin() moves a pin where no callback is muted.                          *)
LEMMA MovePushes ==
  ASSUME DriverInv, NEW t \in Tasks, Move(t)
  PROVE  registered' = Uarts /\ Owned' /\ Sane(t)'
<1> DEFINE o == Now(t)
           old == uart[o.u][o.role]
           detach == Op("detach", o.u, o.role, old)
           attach == [o EXCEPT !.op = "attach"]
           a == <<detach, AndKeep, attach, AndKeep>>
           ops == IF local[t].ok /\ o.pin > 0 /\ old # o.pin THEN a ELSE <<>>
<1>1. /\ ~Idle(t) /\ o.op = "move" /\ Types /\ registered = Uarts /\ Calls(t, ops)
      /\ UNCHANGED <<pins, uart, registered, local>>
  BY DEF Move, Does, unchangedPeriMan, unchangedUarts, DriverInv, Inv
<1>2. o \in Operation /\ o.u \in Uarts /\ o.role \in RoleSet /\ o.pin \in Pins \cup {NoPin}
  BY <1>1, HeadIsSound DEF Operation, Ops, Sound, Starting
<1>3. old \in Pins \cup {NoPin}
  BY <1>1, <1>2 DEF Types, TypeOK
<1>4. detach \in Operation /\ detach.op = "detach"
  BY <1>2, <1>3, DetachIsSound
<1>5. o.pin > 0 => attach \in Operation /\ attach.op = "attach" /\ attach.pin = o.pin
  BY <1>2, Names DEF Operation, Ops, Sound, OpNames, Attaching, Releasing, Setting, Saving, Starting, Plain, NoPin
<1>6. o.op \notin FreeingOps \cup {"lockSerial"} /\ ~Unwinds(o)
  BY <1>1 DEF FreeingOps, Unwinds, Setting
<1> HIDE DEF detach, attach
<1>7. /\ o.pin > 0 => a \in Seq(Operation)
      /\ <<>> \in Seq(Operation)
      /\ Len(a) = 4 /\ a[1] = detach /\ a[2] = AndKeep /\ a[3] = attach /\ a[4] = AndKeep
  BY <1>4, <1>5, AndKeepIsSound
<1> HIDE DEF a
<1>8. ops \in Seq(Operation)
  BY <1>7
<1>9. \/ Len(ops) = 0
      \/ /\ o.pin > 0 /\ Len(ops) = 4
         /\ ops[1] = detach /\ ops[2] = AndKeep /\ ops[3] = attach /\ ops[4] = AndKeep
  BY <1>7
<1> HIDE DEF ops
<1>10. Turn(t, ops)
  BY <1>1, <1>8, CallsReplaces
<1>11. \A x, y \in {detach, AndKeep, attach} : o.pin > 0 /\ (x # y \/ x = AndKeep) => Before(x, y)
  BY <1>4, <1>5, AndKeepIsSound DEF Before, Attaching
<1>12. \A i \in 1 .. Len(ops) : o.pin > 0 /\ ops[i] \in {detach, AndKeep, attach}
  BY <1>9
<1>13. \A i, j \in 1 .. Len(ops) : i < j => Before(ops[i], ops[j])
  <2>1. \A i, j \in 1 .. Len(ops) : i < j => ops[i] # ops[j] \/ ops[i] = AndKeep
    BY <1>4, <1>5, <1>9, AndKeepIsSound
  <2> QED BY <1>11, <1>12, <2>1
<1>14. \A k \in 2 .. Len(agenda[t]) :
         agenda[t][k].op \notin {"assign", "testBegin", "restore"} \cup Attaching
  BY <1>1, <1>6, AfterHead DEF Before, MayPrecede, Starting
<1>15. \A i \in 1 .. Len(ops) : \A k \in 2 .. Len(agenda[t]) :
         Before(o, agenda[t][k]) => Before(ops[i], agenda[t][k])
  BY <1>14 DEF Before
<1>16. ~Has(t, {"restore"})
  <2> SUFFICES ASSUME NEW i \in 1 .. Len(agenda[t]), agenda[t][i].op = "restore" PROVE FALSE
    BY DEF Has
  <2>1. i # 1 /\ Len(agenda[t]) \in Nat
    BY <1>1, <1>10, TopOfAgenda
  <2> QED BY <1>14, <2>1
<1>17. \A i \in 1 .. Len(ops) : /\ ops[i].op \notin {"begin", "testBegin", "restore"} \cup Asking
                                /\ ~Seizes(t, ops[i])
  BY <1>4, <1>5, <1>12, <1>16, AndKeepIsSound DEF Seizes, Asking, Starting
<1> QED BY <1>1, <1>6, <1>10, <1>13, <1>15, <1>17, PushingKeeps

(* perimanSetPinBus() goes on: the owner is called back, if it is there.    *)
LEMMA SetBusPushes ==
  ASSUME DriverInv, NEW t \in Tasks, SetBusGoesOn(t)
  PROVE  registered' = Uarts /\ Owned' /\ Sane(t)'
<1> DEFINE o == Now(t)
           p == o.pin
           assign == [o EXCEPT !.op = "assign"]
           callback == Op("callback", pins[p].bus, pins[p].type, NoPin)
           a == <<callback, assign>>
           b == <<assign>>
           ops == IF CallsDriver(p) THEN a ELSE b
<1>1. /\ ~Idle(t) /\ o.op = "setBus" /\ o.op \in Setting /\ Types /\ registered = Uarts /\ Calls(t, ops)
      /\ UNCHANGED <<pins, uart, registered>> /\ local' = [local EXCEPT ![t].result = TRUE]
      /\ local[t] \in Local
  BY LocalKeepsType DEF SetBusGoesOn, Does, Setting, unchangedPeriMan, unchangedUarts, DriverInv, Inv
<1>2. o \in Operation /\ p \in Pins
  BY <1>1, SettingHead DEF DriverInv
<1>3. /\ assign \in Operation /\ assign.op = "assign" /\ assign.pin = p /\ assign.role = o.role
  BY <1>1, <1>2 DEF Operation, Ops, Sound, OpNames, Attaching, Releasing, Setting, Saving, Starting, Plain
<1>4. /\ CallsDriver(p) => callback \in Operation
      /\ callback.op = "callback" /\ callback.u = pins[p].bus /\ callback.role = pins[p].type
  <2>1. CallsDriver(p) => \/ pins[p].type = "I2C" /\ pins[p].bus = Foreign
                          \/ pins[p].type \in RoleSet /\ pins[p].bus \in Uarts
    BY <1>1, <1>2 DEF CallsDriver, Types, Unassigned
  <2>2. CallsDriver(p) => callback \in Operation
    BY <2>1, Names DEF Op, Operation, Ops, Sound, OpNames, Attaching, Releasing, Setting, Saving, Starting, Plain
  <2> QED BY <2>2, OpFields
<1>5. local'[t].attach = local[t].attach /\ local'[t].want = local[t].want
  BY <1>1, LocalKeepsType DEF Local
<1>6. o.op \notin FreeingOps \cup {"lockSerial"} /\ (Unwinds(o) => Unwinds(assign))
  BY <1>1, <1>3 DEF FreeingOps, Unwinds, Setting
<1> HIDE DEF assign, callback
<1>7. /\ CallsDriver(p) => a \in Seq(Operation)
      /\ b \in Seq(Operation)
      /\ Len(a) = 2 /\ a[1] = callback /\ a[2] = assign /\ Len(b) = 1 /\ b[1] = assign
  BY <1>3, <1>4
<1> HIDE DEF a, b
<1>8. ops \in Seq(Operation)
  BY <1>7
<1>9. \/ Len(ops) = 2 /\ ops[1] = callback /\ ops[2] = assign
      \/ Len(ops) = 1 /\ ops[1] = assign /\ ~CallsDriver(p)
  BY <1>7
<1> HIDE DEF ops
<1>10. Turn(t, ops)
  BY <1>1, <1>8, CallsReplaces
<1>11. Before(callback, assign)
  BY <1>3, <1>4 DEF Before, Unwinds, Attaching
<1>12. /\ \A i, j \in 1 .. Len(ops) : i < j => Before(ops[i], ops[j])
       /\ \A i \in 1 .. Len(ops) : ops[i] \in {callback, assign}
  BY <1>9, <1>11
<1>13. \A k \in 2 .. Len(agenda[t]) : agenda[t][k].op # "testBegin"
  BY <1>1, AfterHead DEF Before
<1>14. \A x \in {callback, assign} : x.op \notin Attaching /\ (Unwinds(o) => Unwinds(x))
  BY <1>3, <1>4, <1>6 DEF Attaching, Unwinds
<1>15. \A i \in 1 .. Len(ops) : \A k \in 2 .. Len(agenda[t]) :
         Before(o, agenda[t][k]) => Before(ops[i], agenda[t][k])
  BY <1>12, <1>13, <1>14 DEF Before
<1>16. Believed(p) /\ ~CallsDriver(p) => FALSE
  <2> SUFFICES ASSUME Believed(p), ~CallsDriver(p) PROVE FALSE
    OBVIOUS
  <2>1. pins[p].type \in RoleSet /\ pins[p].bus \in Uarts /\ p # NoPin /\ Assigned(p)
    BY <1>1, <1>2, BelievedIsOwned DEF Believed
  <2>2. deinit_functions[pins[p].type] # "driver"
    BY <2>1, Names DEF CallsDriver
  <2>3. Has(t, {"restore"})
    BY <1>1, <1>2, <2>1, <2>2 DEF DriverInv, Inv, Good, Told, Muting, Does
  <2>4. Seizes(t, o)
    BY <1>1, <2>1, <2>3 DEF Seizes
  <2> QED BY <1>1, <2>4, HeadIsVacated
<1>17. ASSUME NEW i \in 1 .. Len(ops), Seizes(t, ops[i]), Believed(ops[i].pin)
       PROVE  \E k \in 1 .. i - 1 : Frees(t, ops[k], ops[i].pin)
  <2>1. ops[i].op # "callback"
    BY <1>17 DEF Seizes
  <2>2. ops[i] = assign /\ ops[i].pin = p
    BY <1>3, <1>4, <1>12, <2>1
  <2>3. Believed(p)
    BY <1>17, <2>2
  <2>4. CallsDriver(p)
    BY <1>16, <2>3
  <2>5. ops[1] = callback /\ Len(ops) = 2
    BY <1>9, <2>4
  <2>6. i = 2
    BY <1>4, <2>1, <2>5
  <2>7. Frees(t, ops[1], p)
    BY <1>4, <2>5 DEF Frees
  <2> QED BY <2>2, <2>6, <2>7
<1>18. \A i \in 1 .. Len(ops) : ops[i].op \notin {"begin", "testBegin", "restore"} \cup Asking
  BY <1>3, <1>4, <1>12 DEF Asking, Starting
<1> QED BY <1>1, <1>5, <1>6, <1>10, <1>12, <1>15, <1>17, <1>18, PushingKeeps

-----------------------------------------------------------------------------
(* setPins(), from its start to its plan: nothing behind is to be attached  *)
(* or assigned.                                                             *)
LEMMA PlanningKeeps ==
  ASSUME DriverInv, NEW t \in Tasks, NEW ops, Turn(t, ops), UNCHANGED <<pins, uart, registered>>,
         local'[t].want = local[t].want, Now(t).op \in {"setPins", "plan"},
         \A i, j \in 1 .. Len(ops) : i < j => Before(ops[i], ops[j]),
         \A i \in 1 .. Len(ops) :
           /\ ops[i].op \notin {"begin", "testBegin", "assign", "attach", "setBus"}
           /\ ops[i].op = "attachIf" /\ ops[i].pin # NoPin =>
                \E k \in 1 .. i - 1 : Frees(t, ops[k], ops[i].pin)'
  PROVE  registered' = Uarts /\ Owned' /\ Sane(t)'
<1>1. Lined(t) /\ Vacated(t) /\ Apart(t) /\ Owned /\ registered = Uarts /\ ~Idle(t)
  BY DEF DriverInv, Sane, Turn
<1>2. ~Unwinds(Now(t)) /\ Now(t).op \in Asking /\ Now(t).op # "lockSerial"
  BY DEF Unwinds, Setting, Asking, Starting
<1>3. \A k \in 2 .. Len(agenda[t]) :
        agenda[t][k].op \notin {"assign", "testBegin", "setBus"} \cup Attaching
  BY <1>1, <1>2, AfterHead DEF Before, MayPrecede, Starting
<1>4. Lined(t)'
  <2>1. \A i \in 1 .. Len(ops) : \A k \in 2 .. Len(agenda[t]) :
          Before(Now(t), agenda[t][k]) => Before(ops[i], agenda[t][k])
    BY <1>3 DEF Before
  <2> QED BY <1>1, <2>1, LinedStays
<1>5. \A k \in 2 .. Len(agenda[t]) : \A o \in Operation : agenda[t][k] = o => ~Seizes(t, o)'
  BY <1>3 DEF Seizes, Attaching
<1>6. \A i \in 1 .. Len(ops) : Seizes(t, ops[i])' => ops[i].op = "attachIf" /\ ops[i].pin # NoPin
  BY DEF Seizes
<1>7. Vacated(t)'
  BY <1>1, <1>5, <1>6, VacatedStays
<1>8. Apart(t)'
  BY <1>1, <1>2, ApartStays
<1>9. Owned' /\ registered' = Uarts
  BY <1>1 DEF Owned
<1>10. Sane(t)'
  BY <1>4, <1>7, <1>8 DEF Sane, Lined, Vacated, Apart, Before, Unwinds, Seizes, Believed, Assigned, Frees,
                         Has, Does, Allowed, Merged
<1> QED BY <1>9, <1>10

LEMMA SetPinsPlans ==
  ASSUME DriverInv, NEW t \in Tasks, SetPins(t)
  PROVE  registered' = Uarts /\ Owned' /\ Sane(t)'
<1> DEFINE o == Now(t)
           ops == SetPinsSteps(o.u)
           names == {"lock", "saveDeinits", "mute", "plan", "collect", "restore", "unlock", "terminate"}
<1>1. ~Idle(t) /\ o.op = "setPins" /\ o.u \in Uarts /\ Types
  BY HeadIsSound DEF SetPins, Does, DriverInv, Inv, Starting
<1>2. Calls(t, ops) /\ local' = [local EXCEPT ![t].ok = TRUE, ![t].victims = {}]
      /\ UNCHANGED <<pins, uart, registered>>
  BY DEF SetPins, unchangedPeriMan, unchangedUarts
<1>3. \A what \in names : ForUart(what, o.u) \in Operation /\ ForUart(what, o.u).op = what
  BY <1>1, UartOps DEF Saving, Plain
<1>4. ops \in Seq({x \in Operation : x.op \in names})
  BY <1>3 DEF SetPinsSteps
<1> HIDE DEF ops
<1>5. ops \in Seq(Operation) /\ \A i \in 1 .. Len(ops) : ops[i].op \in names
  <2>1. \A i \in 1 .. Len(ops) : ops[i] \in {x \in Operation : x.op \in names}
    BY <1>4
  <2> QED BY <1>4, <2>1
<1>6. Turn(t, ops)
  BY <1>1, <1>2, <1>5, CallsReplaces
<1>7. local'[t].want = local[t].want
  BY <1>1, <1>2, LocalKeepsType, ZenonT(60) DEF Local
<1>8. \A i, j \in 1 .. Len(ops) : i < j => Before(ops[i], ops[j])
  BY <1>5 DEF Before, Attaching
<1>9. \A i \in 1 .. Len(ops) : ops[i].op \notin {"begin", "testBegin", "assign", "attach", "setBus", "attachIf"}
  BY <1>5
<1> QED BY <1>1, <1>2, <1>6, <1>7, <1>8, <1>9, PlanningKeeps

LEMMA PlanPlans ==
  ASSUME DriverInv, NEW t \in Tasks, Plan(t)
  PROVE  registered' = Uarts /\ Owned' /\ Sane(t)'
<1> DEFINE n == Len(Roles)
<1>1. Types
  BY DEF DriverInv, Inv
<1>2. PICK ops :
    /\ Turn(t, ops) /\ Now(t).op = "plan"
    /\ local'[t].want = local[t].want
    /\ UNCHANGED <<pins, uart, registered>>
    /\ Len(ops) = n + n
    /\ \A i \in 1 .. n : ops[i].op = "release" /\ ops[i].role = Roles[i] /\ ops[i].pin = Want(t, Roles[i])
    /\ \A i \in 1 .. Len(ops) :
         \/ i \in 1 .. n
         \/ LET k == i - n
            IN /\ k \in 1 .. n /\ i > n /\ ops[i].op = "attachIf"
               /\ ops[i].pin = NoPin \/ (ops[i].pin = Want(t, Roles[k]) /\ Roles[k] \in local'[t].attach)
  BY <1>1, PlanTurn
<1>3. n \in Nat /\ \A i \in 1 .. n : Roles[i] \in RoleSet
  BY UartsAssumption DEF RoleSet
<1>4. \A i, j \in 1 .. n : i # j => Roles[i] # Roles[j]
  BY UartsAssumption
<1>5. \A r, s \in RoleSet : r # s /\ Want(t, r) # NoPin => Want(t, r) # Want(t, s)
  <2>1. agenda[t] \in Seq(Operation) /\ agenda[t] # <<>> /\ Apart(t)
    BY <1>1, <1>2 DEF Types, Turn, Idle, DriverInv, Sane
  <2>2. 1 \in 1 .. Len(agenda[t]) /\ agenda[t][1].op = "plan"
    BY <1>2, <2>1 DEF Now
  <2>3. Has(t, (Starting \ {"begin"}) \cup {"plan"})
    BY <2>2 DEF Has
  <2> QED BY <2>1, <2>3 DEF Apart, Allowed, Want
<1> HIDE DEF n
<1>6. ASSUME NEW i \in 1 .. Len(ops), NEW j \in 1 .. Len(ops), i < j
      PROVE  Before(ops[i], ops[j])
  <2>1. CASE i \in 1 .. n \/ j \in 1 .. n
    <3>1. ops[i].op \in {"release", "attachIf"} /\ ops[j].op \in {"release", "attachIf"}
      BY <1>2
    <3>2. ops[i].op = "release" \/ ops[j].op = "release"
      BY <1>2, <2>1
    <3> QED BY <3>1, <3>2 DEF Before, Attaching
  <2>2. CASE i \notin 1 .. n /\ j \notin 1 .. n
    <3> DEFINE a == i - n
               b == j - n
    <3>1. /\ a \in 1 .. n /\ b \in 1 .. n /\ ops[i].op = "attachIf" /\ ops[j].op = "attachIf"
          /\ ops[i].pin = NoPin \/ ops[i].pin = Want(t, Roles[a])
          /\ ops[j].pin = NoPin \/ ops[j].pin = Want(t, Roles[b])
      BY <1>2, <2>2
    <3>2. a # b
      BY <1>2, <1>3, <1>6
    <3> HIDE DEF a, b
    <3>3. ops[i].pin # NoPin => ops[i].pin # ops[j].pin
      BY <1>3, <1>4, <1>5, <3>1, <3>2
    <3> QED BY <3>1, <3>3 DEF Before
  <2> QED BY <2>1, <2>2
<1>7. ASSUME NEW i \in 1 .. Len(ops), ops[i].op = "attachIf", ops[i].pin # NoPin
      PROVE  \E k \in 1 .. i - 1 : Frees(t, ops[k], ops[i].pin)'
  <2> DEFINE k == i - n
  <2>1. i \notin 1 .. n
    BY <1>2, <1>7
  <2>2. k \in 1 .. n /\ i > n /\ ops[i].pin = Want(t, Roles[k]) /\ Roles[k] \in local'[t].attach
    BY <1>2, <1>7, <2>1
  <2>3. k \in 1 .. i - 1
    BY <1>2, <1>3, <2>2
  <2> HIDE DEF k
  <2>4. ops[k].op = "release" /\ ops[k].role \in local'[t].attach /\ ops[k].pin = ops[i].pin
    BY <1>2, <2>2
  <2> QED BY <2>3, <2>4 DEF Frees
<1>8. \A i \in 1 .. Len(ops) : ops[i].op \in {"release", "attachIf"}
  BY <1>2
<1> QED BY <1>2, <1>6, <1>7, <1>8, PlanningKeeps

-----------------------------------------------------------------------------
(* begin() decides what pins to ask for.                                    *)
LEMMA BeginIsApart ==
  ASSUME DriverInv, NEW t \in Tasks, Begin(t)
  PROVE  registered' = Uarts /\ Owned' /\ Sane(t)'
<1> DEFINE u == Now(t).u
           old(r) == IF r \in {"RX", "TX"} THEN uart[u][r] ELSE NoPin
           w == [r \in RoleSet |-> IF local[t].want[r] = NoPin THEN old(r) ELSE local[t].want[r]]
           ops == <<ForUart("lockSerial", u), ForUart("testBegin", u), ForUart("unlockSerial", u)>>
<1>1. /\ ~Idle(t) /\ Now(t).op = "begin" /\ u \in Uarts /\ Types /\ Now(t) \in Operation
      /\ local[t] \in Local /\ local \in [Tasks -> Local] /\ registered = Uarts
  BY HeadIsSound, LocalKeepsType DEF Begin, Does, DriverInv, Inv, Starting
<1>2. /\ Calls(t, ops) /\ local' = [local EXCEPT ![t].want = w]
      /\ UNCHANGED <<pins, uart, registered>>
  BY <1>1 DEF Begin, unchangedPeriMan, unchangedUarts, Local
<1>3. /\ Lined(t) /\ Vacated(t) /\ Apart(t) /\ Owned
  BY DEF DriverInv, Sane
<1>4. w = Merged(local[t].want, uart[u])
  BY DEF Merged
<1>5. local'[t].want = w /\ local'[t].attach = local[t].attach
  <2> HIDE DEF w
  <2> QED BY <1>1, <1>2 DEF Local
<1>6. \A r \in {"RX", "TX"} : w[r] = NoPin => uart[u][r] = NoPin
  BY Names
<1> HIDE DEF w
<1>7. \A what \in {"lockSerial", "testBegin", "unlockSerial"} :
        /\ ForUart(what, u) \in Operation /\ ForUart(what, u).op = what /\ ForUart(what, u).u = u
        /\ ForUart(what, u).pin = NoPin
  BY <1>1, UartOps, OpFields DEF Plain, Starting, ForUart
<1>8. /\ ops \in Seq(Operation) /\ Len(ops) = 3
      /\ ops[1].op = "lockSerial" /\ ops[2].op = "testBegin" /\ ops[3].op = "unlockSerial"
      /\ ops[1].pin = NoPin /\ ops[2].pin = NoPin /\ ops[3].pin = NoPin /\ ops[2].u = u
  BY <1>7
<1> HIDE DEF ops
<1>9. Turn(t, ops)
  BY <1>1, <1>2, <1>8, CallsReplaces
<1>10. ~Unwinds(Now(t)) /\ Now(t).op # "lockSerial"
  BY <1>1 DEF Unwinds, Setting
<1>11. \A k \in 2 .. Len(agenda[t]) : agenda[t][k].op \notin {"assign", "testBegin", "begin"}
  BY <1>1, <1>10, AfterHead DEF Before
<1>12. \A i \in 1 .. Len(ops) : i \in {1, 2, 3}
  BY <1>8
<1>13. Lined(t)'
  <2>1. \A i, j \in 1 .. Len(ops) : i < j => Before(ops[i], ops[j])
    <3>1. \A i, j \in 1 .. Len(ops) : i < j => i = 1 \/ j = 3
      BY <1>8
    <3> QED BY <1>8, <1>12, <3>1 DEF Before, Attaching
  <2>2. \A i \in 1 .. Len(ops) : \A k \in 2 .. Len(agenda[t]) :
          Before(Now(t), agenda[t][k]) => Before(ops[i], agenda[t][k])
    BY <1>8, <1>11, <1>12 DEF Before, Attaching
  <2> QED BY <1>3, <1>9, <2>1, <2>2, LinedStays
<1>14. Has(t, {"restore"})' => Has(t, {"restore"})
  <2> SUFFICES ASSUME Has(t, {"restore"})' PROVE Has(t, {"restore"})
    OBVIOUS
  <2>1. \A i \in 1 .. Len(ops) : ops[i].op \notin {"restore"}
    BY <1>8, <1>12
  <2>2. PICK i \in 2 .. Len(agenda[t]) : agenda[t][i].op \in {"restore"}
    BY <1>9, <2>1, HasLater
  <2>3. i \in 1 .. Len(agenda[t])
    BY <1>9, TopOfAgenda
  <2> QED BY <2>2, <2>3 DEF Has
<1>15. Vacated(t)'
  <2>1. \A p \in Pins : Believed(p)' <=> Believed(p)
    BY <1>2 DEF Believed, Assigned
  <2>2. \A x, p : Frees(t, x, p)' <=> Frees(t, x, p)
    BY <1>2, <1>5 DEF Frees
  <2>3. \A o : Seizes(t, o)' => Seizes(t, o)
    BY <1>14 DEF Seizes
  <2>4. PICK e : e = ops
    OBVIOUS
  <2>5. \A i \in 1 .. Len(e) : ~Seizes(t, e[i])'
    BY <1>8, <1>12, <2>4 DEF Seizes
  <2>6. \A p : ~Frees(t, Now(t), p)
    BY <1>1, FreesNothing DEF FreeingOps
  <2> QED BY <1>3, <1>9, <2>1, <2>2, <2>3, <2>4, <2>5, <2>6, VacatedStays
<1>16. Allowed(w)
  BY <1>1, <1>3, <1>4 DEF Apart, Does
<1>17. ~Does(t, "begin")'
  BY <1>8, <1>9, TopOfAgenda DEF Does
<1>18. ASSUME NEW i \in 1 .. Len(agenda'[t]), agenda'[t][i].op = "testBegin",
              NEW r \in {"RX", "TX"}, w[r] = NoPin
       PROVE  uart[agenda'[t][i].u][r] = NoPin
  <2>1. Replaced(agenda[t], ops, agenda'[t])
    BY <1>9 DEF Turn
  <2>2. CASE i \in 1 .. Len(ops) /\ agenda'[t][i] = ops[i]
    <3>1. i = 2
      BY <1>8, <1>12, <1>18, <2>2
    <3> QED BY <1>6, <1>8, <1>18, <2>2, <3>1
  <2>3. CASE i - Len(ops) + 1 \in 2 .. Len(agenda[t]) /\ agenda'[t][i] = agenda[t][i - Len(ops) + 1]
    BY <1>11, <1>18, <2>3
  <2> QED BY <2>1, <2>2, <2>3, WhereFrom
<1>19. Apart(t)'
  <2>1. Allowed(local'[t].want)
    BY <1>5, <1>16
  <2>2. \A i \in 1 .. Len(agenda'[t]) : agenda'[t][i].op = "testBegin" =>
          \A r \in {"RX", "TX"} : local'[t].want[r] = NoPin => uart'[agenda'[t][i].u][r] = NoPin
    BY <1>2, <1>5, <1>18
  <2> QED BY <1>17, <2>1, <2>2 DEF Apart, Allowed, Does
<1>20. Owned' /\ registered' = Uarts
  BY <1>1, <1>2, <1>3 DEF Owned
<1>21. Sane(t)'
  BY <1>13, <1>15, <1>19 DEF Sane, Lined, Vacated, Apart, Before, Unwinds, Seizes, Believed, Assigned, Frees,
                         Has, Does, Allowed, Merged
<1> QED BY <1>20, <1>21

(* ... and where the sketch has no wish and the UART no pins, the default   *)
(* ones.                                                                    *)
LEMMA TestBeginIsApart ==
  ASSUME DriverInv, DefaultsApart, NEW t \in Tasks, TestBegin(t)
  PROVE  registered' = Uarts /\ Owned' /\ Sane(t)'
<1> DEFINE u == Now(t).u
           default == u \notin installed /\ Want(t, "RX") = NoPin /\ Want(t, "TX") = NoPin
           pin(r) == IF uart[u][r] = NoPin THEN DefaultPin[u][r] ELSE uart[u][r]
           mine == [r \in RoleSet |-> IF r \in {"RX", "TX"} THEN pin(r) ELSE NoPin]
           w == IF ~default THEN local[t].want ELSE mine
           a == <<ForUart("uartBegin", u)>>
           ops == IF w["RX"] = NoPin /\ w["TX"] = NoPin THEN <<>> ELSE a
<1>1. /\ ~Idle(t) /\ Now(t).op = "testBegin" /\ u \in Uarts /\ Types /\ Now(t) \in Operation
      /\ local[t] \in Local /\ local \in [Tasks -> Local] /\ registered = Uarts
  BY HeadIsSound, LocalKeepsType DEF TestBegin, Does, DriverInv, Inv, Starting
<1>2. /\ Calls(t, ops) /\ local' = [local EXCEPT ![t].want = w, ![t].ok = TRUE]
      /\ UNCHANGED <<pins, uart, registered>>
  BY DEF TestBegin, unchangedPeriMan, unchangedUarts
<1>3. local'[t].want = w /\ local'[t].attach = local[t].attach
  <2> HIDE DEF w
  <2> QED BY <1>1, <1>2, ZenonT(60) DEF Local
<1>4. /\ Lined(t) /\ Vacated(t) /\ Apart(t) /\ Owned
  BY DEF DriverInv, Sane
<1>5. agenda[t] \in Seq(Operation) /\ agenda[t] # <<>> /\ Now(t) = agenda[t][1]
  BY <1>1 DEF Types, Idle, Now
<1>6. 1 \in 1 .. Len(agenda[t]) /\ Now(t).op \in Asking /\ ~Unwinds(Now(t))
  BY <1>1, <1>5 DEF Asking, Starting, Unwinds, Setting
<1>7. Allowed(w)
  <2>1. CASE ~default
    <3>1. Has(t, Asking)
      BY <1>5, <1>6 DEF Has
    <3> QED BY <1>4, <2>1, <3>1 DEF Apart, Asking
  <2>2. CASE default
    <3>1. \A r \in {"RX", "TX"} : uart[u][r] = NoPin
      BY <1>1, <1>4, <1>5, <1>6, <2>2 DEF Apart, Want
    <3>2. \A r \in {"RX", "TX"} : mine[r] = DefaultPin[u][r]
      BY <3>1, Names
    <3>3. \A r \in RoleSet : mine[r] # NoPin => r \in {"RX", "TX"}
      OBVIOUS
    <3> HIDE DEF mine
    <3>4. Allowed(mine)
      BY <1>1, <3>2, <3>3 DEF Allowed, DefaultsApart
    <3> QED BY <2>2, <3>4
  <2> QED BY <2>1, <2>2
<1> HIDE DEF w
<1>8. a \in Seq(Harmless(Now(t))) /\ <<>> \in Seq(Harmless(Now(t)))
  BY <1>1, <1>6, UartHarmless
<1> HIDE DEF a
<1>9. ops \in Seq(Harmless(Now(t)))
  BY <1>8
<1>10. ops \in Seq(Operation)
  BY <1>9 DEF Harmless
<1> HIDE DEF ops
<1>11. Turn(t, ops)
  BY <1>1, <1>2, <1>10, CallsReplaces
<1>12. \A p \in Pins : ~Frees(t, Now(t), p)
  BY <1>1, FreesNothing DEF FreeingOps
<1>13. Owned' /\ Lined(t)' /\ Vacated(t)'
  BY <1>2, <1>3, <1>9, <1>11, <1>12, HarmlessStay
<1>14. /\ \A k \in 2 .. Len(agenda[t]) : agenda[t][k].op \notin {"testBegin", "begin"}
       /\ \A i \in 1 .. Len(ops) : ops[i].op \notin {"testBegin", "begin"}
  <2>1. \A i \in 1 .. Len(ops) : ops[i] \in Harmless(Now(t))
    BY <1>9
  <2> QED BY <1>1, <2>1, AfterHead DEF Before, Harmless, Special
<1>15. \A i \in 1 .. Len(agenda'[t]) : agenda'[t][i].op \notin {"testBegin", "begin"}
  <2> TAKE i \in 1 .. Len(agenda'[t])
  <2>1. Replaced(agenda[t], ops, agenda'[t])
    BY <1>11 DEF Turn
  <2> QED BY <1>14, <2>1, WhereFrom
<1>16. ~Does(t, "begin")'
  <2> SUFFICES ASSUME ~Idle(t)' PROVE Now(t)'.op # "begin"
    BY DEF Does
  <2>1. agenda'[t] \in Seq(Operation) /\ agenda'[t] # <<>> /\ Now(t)' = agenda'[t][1]
    BY <1>11 DEF Turn, Idle, Now
  <2>2. 1 \in 1 .. Len(agenda'[t])
    BY <2>1
  <2> QED BY <1>15, <2>1, <2>2
<1>17. Apart(t)'
  <2>1. Allowed(local'[t].want)
    BY <1>3, <1>7
  <2> QED BY <1>15, <1>16, <2>1 DEF Apart, Allowed, Does
<1>18. Sane(t)' /\ registered' = Uarts
  BY <1>1, <1>2, <1>13, <1>17 DEF Sane, Lined, Vacated, Apart, Before, Unwinds, Seizes, Believed, Assigned, Frees,
                         Has, Does, Allowed, Merged
<1> QED BY <1>13, <1>18

-----------------------------------------------------------------------------
(* Steps that change what the manager or a UART believes.                   *)
LEMMA RestoreStays ==
  ASSUME NEW t, NEW ops, Turn(t, ops), \A i \in 1 .. Len(ops) : ops[i].op # "restore"
  PROVE  \A o : Seizes(t, o)' => Seizes(t, o)
<1>1. Has(t, {"restore"})' => Has(t, {"restore"})
  <2> SUFFICES ASSUME Has(t, {"restore"})' PROVE Has(t, {"restore"})
    OBVIOUS
  <2>1. \A i \in 1 .. Len(ops) : ops[i].op \notin {"restore"}
    OBVIOUS
  <2>2. PICK i \in 2 .. Len(agenda[t]) : agenda[t][i].op \in {"restore"}
    BY <2>1, HasLater
  <2>3. i \in 1 .. Len(agenda[t])
    BY TopOfAgenda
  <2> QED BY <2>2, <2>3 DEF Has
<1> QED BY <1>1 DEF Seizes

LEMMA AssignKeeps ==
  ASSUME DriverInv, NEW t \in Tasks, AssignPin(t)
  PROVE  registered' = Uarts /\ Owned' /\ Sane(t)'
<1> DEFINE o == Now(t)
           p == o.pin
<1>1. /\ ~Idle(t) /\ o.op = "assign" /\ o.op \in Setting /\ Types /\ registered = Uarts /\ Done(t)
      /\ UNCHANGED <<uart, registered, local>>
  BY DEF AssignPin, Does, Setting, unchangedUarts, DriverInv, Inv
<1>2. o \in Operation /\ p \in Pins
  BY <1>1, SettingHead DEF DriverInv
<1>3. p # NoPin
  BY <1>2, Names
<1>4. ~Believed(p)
  <2>1. Seizes(t, o)
    BY <1>1, <1>3 DEF Seizes
  <2> QED BY <1>1, <2>1, HeadIsVacated
<1>5. Lined(t) /\ Vacated(t) /\ Apart(t) /\ Owned
  BY DEF DriverInv, Sane
<1>6. Turn(t, <<>>)
  BY <1>1, DoneTurn
<1>7. pins' = [pins EXCEPT ![p] = pins'[p]]
  <2>1. pins \in [Pins -> [type : BusTypes, bus : Buses \cup {NULL}, extra : Extras]]
    BY <1>1, Names DEF Types, TypeOK, PeriManTypeOK
  <2> QED BY <1>2, <2>1 DEF AssignPin, Assign
<1>8. \A q \in Pins : q # p => pins'[q] = pins[q]
  <2>1. pins \in [Pins -> [type : BusTypes, bus : Buses \cup {NULL}, extra : Extras]]
    BY <1>1, Names DEF Types, TypeOK, PeriManTypeOK
  <2> QED BY <1>7, <2>1
<1>9. \A u \in Uarts, r \in RoleSet : uart[u][r] # p
  BY <1>1, <1>2, <1>4, <1>5, OnlyOwner
<1>10. Owned'
  <2> SUFFICES ASSUME NEW u \in Uarts, NEW r \in RoleSet, uart[u][r] # NoPin
               PROVE  pins'[uart[u][r]].type = r /\ pins'[uart[u][r]].bus = u
    BY <1>1 DEF Owned
  <2>1. uart[u][r] \in Pins
    BY <1>1 DEF Types, TypeOK
  <2> QED BY <1>5, <1>8, <1>9, <2>1 DEF Owned
<1>11. \A q \in Pins : Believed(q)' => q # p /\ Believed(q)
  <2> SUFFICES ASSUME NEW q \in Pins, Believed(q)' PROVE q # p /\ Believed(q)
    OBVIOUS
  <2>1. pins'[q].type \in RoleSet /\ uart[pins'[q].bus][pins'[q].type] = q
    BY <1>1 DEF Believed, Assigned
  <2>2. CASE q # p
    BY <1>8, <2>1, <2>2 DEF Believed, Assigned
  <2>3. CASE q = p
    <3>1. local[t].result /\ pins'[p].type = o.role /\ pins'[p].bus = o.u
      <4>1. pins' # pins
        BY <1>1, <1>4, <2>3 DEF Believed, Assigned
      <4>2. local[t].result /\ Assign(p, o.role, o.u)
        BY <4>1 DEF AssignPin
      <4>3. pins \in [Pins -> [type : BusTypes, bus : Buses \cup {NULL}, extra : Extras]]
        BY <1>1, Names DEF Types, TypeOK, PeriManTypeOK
      <4> QED BY <1>2, <4>2, <4>3 DEF Assign
    <3>2. o.role \in RoleSet /\ o.u \in Uarts
      BY <1>1, <1>2, <2>1, <2>3, <3>1, Names, SettingHead DEF DriverInv
    <3> QED BY <1>9, <2>1, <2>3, <3>1, <3>2
  <2> QED BY <2>2, <2>3
<1>12. \A q \in Pins : q # p => \A x : Frees(t, x, q)' <=> Frees(t, x, q)
  BY <1>1, <1>8 DEF Frees
<1>13. \A i \in 1 .. Len(<<>>) : FALSE
  OBVIOUS
<1>14. Lined(t)'
  BY <1>5, <1>6, <1>13, LinedStays
<1>15. Vacated(t)'
  <2>1. \A x : Seizes(t, x)' => Seizes(t, x)
    BY <1>6, <1>13, RestoreStays
  <2>2. \A q : ~Frees(t, o, q)
    BY <1>1, FreesNothing DEF FreeingOps
  <2> QED BY <1>5, <1>6, <1>11, <1>12, <1>13, <2>1, <2>2, VacatedStays
<1>16. Apart(t)'
  BY <1>1, <1>5, <1>6, <1>13, ApartStays
<1>17. Sane(t)'
  BY <1>14, <1>15, <1>16 DEF Sane, Lined, Vacated, Apart, Before, Unwinds, Seizes, Believed, Assigned, Frees,
                         Has, Does, Allowed, Merged
<1> QED BY <1>1, <1>10, <1>17

LEMMA DetachFrees ==
  ASSUME DriverInv, NEW t \in Tasks, Detach(t)
  PROVE  registered' = Uarts /\ Owned' /\ Sane(t)'
<1> DEFINE o == Now(t)
           p == o.pin
           clear == ClearPin(p)
           ops == <<clear>>
           hit == p # NoPin /\ uart[o.u][o.role] = p /\ pins[p].type = o.role
<1>1. /\ ~Idle(t) /\ o.op = "detach" /\ Types /\ registered = Uarts
      /\ UNCHANGED <<pins, registered>> /\ local[t] \in Local
  BY LocalKeepsType DEF Detach, Does, unchangedPeriMan, DriverInv, Inv
<1>2. o \in Operation /\ o.u \in Uarts /\ o.role \in RoleSet /\ p \in Pins \cup {NoPin}
  BY <1>1, HeadIsSound DEF Operation, Ops, Sound
<1>3. Lined(t) /\ Vacated(t) /\ Apart(t) /\ Owned
  BY DEF DriverInv, Sane
<1>4. \A q \in Pins : Believed(q) /\ Frees(t, o, q) => q = p /\ hit
  BY <1>1, Names DEF Frees, Believed
<1>5. CASE ~hit
  <2>1. Return(t, TRUE) /\ UNCHANGED uart
    BY <1>5 DEF Detach
  <2>2. Turn(t, <<>>) /\ local'[t] = [local[t] EXCEPT !.result = TRUE]
    BY <1>1, <2>1, ReturnTurn
  <2>3. local'[t].attach = local[t].attach /\ local'[t].want = local[t].want
    BY <1>1, <2>2 DEF Local
  <2> QED BY <1>1, <1>4, <1>5, <2>1, <2>2, <2>3, GoingOnKeeps
<1>6. CASE hit
  <2>1. /\ uart' = [uart EXCEPT ![o.u][o.role] = NoPin] /\ Calls(t, ops) /\ UNCHANGED local
    BY <1>6 DEF Detach
  <2>2. p \in Pins
    BY <1>2, <1>6
  <2>3. /\ clear \in Operation /\ clear.op = "setBus" /\ clear.pin = p /\ clear.role = "INIT"
    BY <2>2, ClearPinIsSound
  <2> HIDE DEF clear
  <2>4. ops \in Seq(Operation) /\ Len(ops) = 1 /\ ops[1] = clear
    BY <2>3
  <2> HIDE DEF ops
  <2>5. Turn(t, ops)
    BY <1>1, <2>1, <2>4, CallsReplaces
  <2>6. uart \in [Uarts -> [RoleSet -> Pins \cup {NoPin}]]
    BY <1>1 DEF Types, TypeOK
  <2>7. \A u \in Uarts, r \in RoleSet :
          uart'[u][r] = IF u = o.u /\ r = o.role THEN NoPin ELSE uart[u][r]
    BY <1>2, <2>1, <2>6
  <2>8. Owned'
    <3> SUFFICES ASSUME NEW u \in Uarts, NEW r \in RoleSet, uart'[u][r] # NoPin
                 PROVE  pins[uart'[u][r]].type = r /\ pins[uart'[u][r]].bus = u
      BY <1>1 DEF Owned
    <3>1. uart'[u][r] = uart[u][r]
      BY <2>7
    <3> QED BY <1>3, <3>1 DEF Owned
  <2>9. \A q \in Pins : Believed(q)' => q # p /\ Believed(q)
    <3> SUFFICES ASSUME NEW q \in Pins, Believed(q)' PROVE q # p /\ Believed(q)
      OBVIOUS
    <3>1. pins[q].type \in RoleSet /\ uart'[pins[q].bus][pins[q].type] = q
      BY <1>1 DEF Believed, Assigned
    <3>2. pins[q].bus \in Uarts
      BY <1>1, <3>1, Names DEF Types, Unassigned
    <3>3. q # NoPin
      BY Names
    <3>4. uart[pins[q].bus][pins[q].type] = q /\ ~(pins[q].bus = o.u /\ pins[q].type = o.role)
      BY <2>7, <3>1, <3>2, <3>3
    <3>5. pins[p].bus = o.u /\ pins[p].type = o.role
      BY <1>2, <1>3, <1>6 DEF Owned
    <3> QED BY <3>1, <3>4, <3>5 DEF Believed, Assigned
  <2>10. \A x, q : Frees(t, x, q)' <=> Frees(t, x, q)
    BY <1>1, <2>1 DEF Frees
  <2>11. Unwinds(clear)
    BY <2>3, Names DEF Unwinds, Setting
  <2>12. \A i \in 1 .. Len(ops) : i = 1
    BY <2>4
  <2>13. Lined(t)'
    <3>1. \A i, j \in 1 .. Len(ops) : ~(i < j)
      BY <2>4
    <3>2. \A k \in 2 .. Len(agenda[t]) : Before(o, agenda[t][k]) => Before(clear, agenda[t][k])
      BY <1>1, <2>3, <2>11 DEF Before, Attaching
    <3> QED BY <1>3, <2>4, <2>5, <2>12, <3>1, <3>2, LinedStays
  <2>14. Vacated(t)'
    <3>1. \A x : Seizes(t, x)' => Seizes(t, x)
      BY <2>3, <2>4, <2>5, <2>12, RestoreStays
    <3>2. \A q \in Pins : Believed(q)' => ~Frees(t, o, q)
      BY <1>4, <2>9
    <3>3. PICK e : e = ops
      OBVIOUS
    <3>4. \A i \in 1 .. Len(e) : \A q \in Pins : e[i].pin = q => ~Believed(q)'
      BY <2>3, <2>4, <2>9, <2>12, <3>3
    <3> QED BY <1>3, <2>5, <2>9, <2>10, <3>1, <3>2, <3>3, <3>4, VacatedStays
  <2>15. Apart(t)'
    <3>1. \A i \in 1 .. Len(ops) : ops[i].op \notin {"begin", "testBegin"} \cup Asking
      BY <2>3, <2>4, <2>12 DEF Asking, Starting
    <3> QED BY <1>1, <1>3, <2>1, <2>5, <3>1, ApartStays
  <2>16. Sane(t)'
    BY <2>13, <2>14, <2>15 DEF Sane, Lined, Vacated, Apart, Before, Unwinds, Seizes, Believed, Assigned, Frees,
                           Has, Does, Allowed, Merged
  <2> QED BY <1>1, <2>8, <2>16
<1> QED BY <1>5, <1>6

LEMMA NoteKeeps ==
  ASSUME DriverInv, NEW t \in Tasks, NoteAttached(t)
  PROVE  registered' = Uarts /\ Owned' /\ Sane(t)'
<1> DEFINE o == Now(t)
           p == o.pin
<1>1. ~Idle(t) /\ o.op = "note" /\ o.op \in Attaching /\ Types /\ registered = Uarts
  BY DEF NoteAttached, Does, Attaching, DriverInv, Inv
<1>2. o \in Operation /\ o.u \in Uarts /\ o.role \in RoleSet /\ p \in Pins /\ p # NoPin
  BY <1>1, AttachingHead, Names DEF DriverInv
<1>3. local[t].result /\ pins[p].type = o.role /\ pins[p].bus = o.u
  BY <1>1 DEF DriverInv, Inv, Good, Ready
<1>4. /\ uart' = [uart EXCEPT ![o.u][o.role] = p] /\ UNCHANGED <<pins, registered, local>> /\ Done(t)
  BY <1>3 DEF NoteAttached, perimanSetBusDeinit
<1>5. Lined(t) /\ Vacated(t) /\ Apart(t) /\ Owned
  BY DEF DriverInv, Sane
<1>6. Turn(t, <<>>)
  BY <1>1, <1>4, DoneTurn
<1>7. \A u \in Uarts, r \in RoleSet : uart'[u][r] = IF u = o.u /\ r = o.role THEN p ELSE uart[u][r]
  <2>1. uart \in [Uarts -> [RoleSet -> Pins \cup {NoPin}]]
    BY <1>1 DEF Types, TypeOK
  <2> QED BY <1>2, <1>4, <2>1
<1>8. Owned'
  <2> SUFFICES ASSUME NEW u \in Uarts, NEW r \in RoleSet, uart'[u][r] # NoPin
               PROVE  pins[uart'[u][r]].type = r /\ pins[uart'[u][r]].bus = u
    BY <1>4 DEF Owned
  <2>1. CASE u = o.u /\ r = o.role
    BY <1>3, <1>7, <2>1
  <2>2. CASE ~(u = o.u /\ r = o.role)
    <3>1. uart'[u][r] = uart[u][r]
      BY <1>7, <2>2
    <3> QED BY <1>5, <3>1 DEF Owned
  <2> QED BY <2>1, <2>2
<1>9. \A q \in Pins : Believed(q)' /\ q # p => Believed(q)
  <2> SUFFICES ASSUME NEW q \in Pins, Believed(q)', q # p PROVE Believed(q)
    OBVIOUS
  <2>1. pins[q].type \in RoleSet /\ uart'[pins[q].bus][pins[q].type] = q
    BY <1>4 DEF Believed, Assigned
  <2>2. pins[q].bus \in Uarts
    BY <1>1, <2>1, Names DEF Types, Unassigned
  <2>3. uart[pins[q].bus][pins[q].type] = q
    BY <1>7, <2>1, <2>2
  <2> QED BY <2>1, <2>3 DEF Believed, Assigned
<1>10. \A x, q : Frees(t, x, q)' <=> Frees(t, x, q)
  BY <1>4 DEF Frees
<1>11. \A i \in 1 .. Len(<<>>) : FALSE
  OBVIOUS
<1>12. Lined(t)'
  BY <1>5, <1>6, <1>11, LinedStays
<1>13. Vacated(t)'
  <2>1. \A x : Seizes(t, x)' => Seizes(t, x)
    BY <1>6, <1>11, RestoreStays
  <2>2. \A q : ~Frees(t, o, q)
    BY <1>1, FreesNothing DEF FreeingOps
  <2>3. \A k \in 2 .. Len(agenda[t]) : \A x \in Operation :
          agenda[t][k] = x /\ Seizes(t, x) => x.pin # p
    <3> SUFFICES ASSUME NEW k \in 2 .. Len(agenda[t]), Seizes(t, agenda[t][k]), agenda[t][k].pin = p
                 PROVE  FALSE
      OBVIOUS
    <3>1. Before(o, agenda[t][k]) /\ ~Unwinds(o)
      BY <1>1, AfterHead DEF Unwinds, Setting
    <3> QED BY <1>1, <1>2, <3>1 DEF Before, Seizes, Attaching
  <2> QED BY <1>5, <1>6, <1>9, <1>10, <1>11, <2>1, <2>2, <2>3, VacatedStays
<1>14. Apart(t)'
  BY <1>1, <1>4, <1>5, <1>6, <1>11, ApartStays
<1>15. Sane(t)'
  BY <1>12, <1>13, <1>14 DEF Sane, Lined, Vacated, Apart, Before, Unwinds, Seizes, Believed, Assigned, Frees,
                         Has, Does, Allowed, Merged
<1> QED BY <1>1, <1>4, <1>8, <1>15

-----------------------------------------------------------------------------
(* What a sketch may ask for.                                               *)
LEMMA RequestIsSane ==
  ASSUME DriverInv, NEW t \in Tasks, NEW fn, NEW u, NEW want, NEW op, Request(t, fn, u, want, op),
         UNCHANGED pins, op.op \in {"begin", "setPins", "end", "setBus"},
         op.op = "begin" => Allowed(Merged(want, uart[op.u])),
         op.op = "setPins" => Allowed(want)
  PROVE  registered' = Uarts /\ Owned' /\ Sane(t)'
<1> DEFINE back == ForUart("return", u)
           q == <<op, back>>
<1>1. /\ agenda' = [agenda EXCEPT ![t] = q] /\ UNCHANGED <<uart, registered, pins>>
      /\ local' = [local EXCEPT ![t] = [NoCall EXCEPT !.fn = fn, !.u = u, !.want = want, !.had = uart]]
  BY DEF Request, unchangedUarts
<1>2. /\ agenda \in [Tasks -> Seq(Operation)] /\ local \in [Tasks -> Local]
      /\ Owned /\ registered = Uarts
  BY DEF DriverInv, Inv, Types
<1>3. back.op = "return"
  BY OpFields DEF ForUart
<1> HIDE DEF back
<1>4. agenda'[t] = q /\ local'[t].want = want
  BY <1>1, <1>2 DEF NoCall
<1>5. Len(q) = 2 /\ q[1] = op /\ q[2] = back /\ q # <<>>
  OBVIOUS
<1> HIDE DEF q
<1>6. \A i \in 1 .. Len(q) : i \in {1, 2}
  BY <1>5
<1>7. Lined(t)'
  <2>1. \A i, j \in 1 .. Len(q) : i < j => i = 1 /\ j = 2
    BY <1>5
  <2>2. Before(op, back)
    BY <1>3 DEF Before, Attaching
  <2>3. \A i, j \in 1 .. Len(q) : i < j => Before(q[i], q[j])
    BY <1>5, <2>1, <2>2
  <2> QED BY <1>4, <2>3 DEF Lined, Before, Unwinds
<1>8. Vacated(t)'
  <2>1. ~Has(t, {"restore"})'
    BY <1>3, <1>4, <1>5, <1>6 DEF Has
  <2>2. \A i \in 1 .. Len(q) : q[i].op # "assign"
    BY <1>3, <1>5, <1>6
  <2>3. \A i \in 1 .. Len(agenda'[t]) : ~Seizes(t, agenda[t][i])'
    BY <1>4, <2>1, <2>2 DEF Seizes, Has
  <2> QED BY <2>3 DEF Vacated
<1>9. Apart(t)'
  <2>1. Has(t, Asking)' => op.op = "setPins"
    BY <1>3, <1>4, <1>5, <1>6 DEF Has, Asking, Starting
  <2>2. Does(t, "begin")' => op.op = "begin" /\ Now(t)' = op
    BY <1>4, <1>5 DEF Does, Now
  <2>3. \A i \in 1 .. Len(agenda'[t]) : agenda'[t][i].op # "testBegin"
    BY <1>3, <1>4, <1>5, <1>6
  <2>4. Has(t, Asking)' => Allowed(local'[t].want)
    BY <1>4, <2>1
  <2>5. Does(t, "begin")' => Allowed(Merged(local'[t].want, uart'[Now(t)'.u]))
    BY <1>1, <1>4, <2>2
  <2> QED BY <2>3, <2>4, <2>5 DEF Apart, Allowed, Merged, Asking, Does, Has
<1>10. Sane(t)'
  BY <1>7, <1>8, <1>9 DEF Sane, Lined, Vacated, Apart, Before, Unwinds, Seizes, Believed, Assigned, Frees,
                         Has, Does, Allowed, Merged
<1> QED BY <1>1, <1>2, <1>10 DEF Owned

LEMMA RequestsAreSane ==
  ASSUME DriverInv, NEW t \in Tasks, RequestBegin(t) \/ RequestSetPins(t) \/ RequestEnd(t) \/ Claim(t)
  PROVE  registered' = Uarts /\ Owned' /\ Sane(t)'
<1>1. CASE RequestBegin(t)
  <2>1. PICK u \in Uarts, want \in Wants :
          /\ Allowed([r \in RoleSet |-> IF RxTx(want)[r] = NoPin THEN uart[u][r] ELSE want[r]])
          /\ Request(t, "begin", u, RxTx(want), ForUart("begin", u)) /\ unchangedPeriMan
    BY <1>1 DEF RequestBegin
  <2> DEFINE all == [r \in RoleSet |-> IF RxTx(want)[r] = NoPin THEN uart[u][r] ELSE want[r]]
             m == Merged(RxTx(want), uart[u])
  <2>2. \A r \in RoleSet : m[r] # NoPin => m[r] = all[r] /\ r \in {"RX", "TX"}
    BY DEF Merged, RxTx
  <2>3. \A r \in {"RX", "TX"} : m[r] = all[r]
    BY Names DEF Merged, RxTx
  <2> HIDE DEF all, m
  <2>4. Allowed(m)
    <3> SUFFICES ASSUME NEW r \in RoleSet, NEW s \in RoleSet, r # s, m[r] # NoPin PROVE m[r] # m[s]
      BY DEF Allowed
    <3>1. Allowed(all)
      BY <2>1 DEF all
    <3>2. m[s] # NoPin => all[r] # all[s]
      BY <2>2, <3>1 DEF Allowed
    <3> QED BY <2>2, <3>2
  <2>5. ForUart("begin", u).op = "begin" /\ ForUart("begin", u).u = u
    BY OpFields DEF ForUart
  <2> QED BY <2>1, <2>4, <2>5, RequestIsSane DEF unchangedPeriMan, m
<1>2. CASE RequestSetPins(t)
  <2>1. PICK u \in Uarts, want \in Wants :
          Allowed(want) /\ Request(t, "setPins", u, want, ForUart("setPins", u)) /\ unchangedPeriMan
    BY <1>2 DEF RequestSetPins
  <2>2. ForUart("setPins", u).op = "setPins"
    BY OpFields DEF ForUart
  <2> QED BY <2>1, <2>2, RequestIsSane DEF unchangedPeriMan
<1>3. CASE RequestEnd(t)
  <2>1. PICK u \in Uarts : Request(t, "end", u, NoCall.want, ForUart("end", u)) /\ unchangedPeriMan
    BY <1>3 DEF RequestEnd
  <2>2. ForUart("end", u).op = "end"
    BY OpFields DEF ForUart
  <2> QED BY <2>1, <2>2, RequestIsSane DEF unchangedPeriMan
<1>4. CASE Claim(t)
  <2>1. PICK p \in Pins :
          /\ Request(t, "claim", NULL, [NoCall.want EXCEPT !["RX"] = p], SetPin(p, "I2C", Foreign))
          /\ perimanSetBusDeinit("I2C")
    BY <1>4 DEF Claim
  <2>2. SetPin(p, "I2C", Foreign).op = "setBus" /\ UNCHANGED pins
    BY <2>1, OpFields DEF SetPin, perimanSetBusDeinit
  <2> QED BY <2>1, <2>2, RequestIsSane
<1> QED BY <1>1, <1>2, <1>3, <1>4

-----------------------------------------------------------------------------
LEMMA AllBegunOwns == ASSUME DefaultsApart PROVE AllBegun => DriverInv
<1> SUFFICES ASSUME AllBegun PROVE DriverInv
  OBVIOUS
<1>1. Inv /\ registered = Uarts
  BY AllBegunInv DEF AllBegun
<1>2. Owned
  <2> SUFFICES ASSUME NEW u \in Uarts, NEW r \in RoleSet, NEW p, p = uart[u][r], p # NoPin
               PROVE  pins[p].type = r /\ pins[p].bus = u
    BY DEF Owned
  <2> DEFINE at == CHOOSE x \in Uarts \X RoleSet : uart[x[1]][x[2]] = p
  <2>1. \A v \in Uarts, s \in RoleSet :
          uart[v][s] = IF s \in {"RX", "TX"} THEN DefaultPin[v][s] ELSE NoPin
    BY DEF AllBegun
  <2>2. p \in Pins
    BY <1>1 DEF Inv, Types, TypeOK
  <2>3. pins[p] = [type |-> at[2], bus |-> at[1], extra |-> NULL]
    BY <2>2, Names DEF AllBegun
  <2>4. \E x \in Uarts \X RoleSet : uart[x[1]][x[2]] = p
    <3>1. <<u, r>> \in Uarts \X RoleSet /\ <<u, r>>[1] = u /\ <<u, r>>[2] = r
      OBVIOUS
    <3> QED BY <3>1
  <2>5. at \in Uarts \X RoleSet /\ uart[at[1]][at[2]] = p
    BY <2>4
  <2> HIDE DEF at
  <2>6. at[1] \in Uarts /\ at[2] \in RoleSet
    BY <2>5
  <2>7. at[1] = u /\ at[2] = r
    BY <2>1, <2>5, <2>6 DEF DefaultsApart
  <2> QED BY <2>3, <2>7
<1>3. \A t \in Tasks : Sane(t)
  <2> TAKE t \in Tasks
  <2>1. agenda[t] = <<>>
    BY DEF AllBegun
  <2> QED BY <2>1 DEF Sane, Lined, Vacated, Apart, Has, Does, Idle
<1> QED BY <1>1, <1>2, <1>3 DEF DriverInv

LEMMA StepOwns ==
  ASSUME OneTask, DefaultsApart, DriverInv, [Next]_vars
  PROVE  DriverInv'
<1>1. Inv'
  BY StepInv DEF DriverInv
<1>2. ASSUME NEW t \in Tasks, Step(t) PROVE registered' = Uarts /\ Owned' /\ Sane(t)'
  BY <1>2, QuietStepKeeps, ReturnsKeeps, CallingStepKeeps, EndFrees, DetachAllFrees, CallbackFrees,
     ReleasingFrees, AttachingPushes, MovePushes, SetBusPushes, SetPinsPlans, PlanPlans, BeginIsApart,
     TestBeginIsApart, AssignKeeps, DetachFrees, NoteKeeps DEF Step
<1>3. CASE Next
  <2>1. PICK t \in Tasks : Step(t) \/ RequestBegin(t) \/ RequestSetPins(t) \/ RequestEnd(t) \/ Claim(t)
    BY <1>3 DEF Next
  <2>2. registered' = Uarts /\ Owned' /\ Sane(t)'
    BY <1>2, <2>1, RequestsAreSane
  <2>3. \A s \in Tasks : s = t
    BY DEF OneTask
  <2>4. ASSUME NEW s \in Tasks PROVE Sane(s)'
    <3>1. s = t
      BY <2>3
    <3> QED BY <2>2, <3>1
  <2> QED BY <1>1, <2>2, <2>4 DEF DriverInv
<1>4. CASE UNCHANGED vars
  <2>1. UNCHANGED <<pins, uart, registered, agenda, local>>
    BY <1>4 DEF vars
  <2>2. registered' = Uarts /\ Owned'
    BY <2>1 DEF DriverInv, Owned
  <2>3. ASSUME NEW t \in Tasks PROVE Sane(t)'
    <3>1. Lined(t) /\ Vacated(t) /\ Apart(t)
      BY DEF DriverInv, Sane
    <3>2. Lined(t)'
      BY <2>1, <3>1 DEF Lined, Before, Unwinds
    <3>3. Vacated(t)'
      <4>1. \A p : (Believed(p)' <=> Believed(p)) /\ \A x : Frees(t, x, p)' <=> Frees(t, x, p)
        BY <2>1 DEF Believed, Assigned, Frees
      <4>2. Has(t, {"restore"})' <=> Has(t, {"restore"})
        BY <2>1 DEF Has
      <4>3. \A x : Seizes(t, x)' <=> Seizes(t, x)
        BY <4>2 DEF Seizes
      <4> SUFFICES ASSUME NEW j \in 1 .. Len(agenda'[t]), Seizes(t, agenda[t][j])', Believed(agenda[t][j].pin)'
                   PROVE  \E i \in 1 .. j - 1 : Frees(t, agenda[t][i], agenda[t][j].pin)'
        BY DEF Vacated
      <4>4. PICK o, p : o = agenda'[t][j] /\ p = o.pin
        OBVIOUS
      <4>5. Seizes(t, o)' /\ Believed(p)'
        BY <4>4 DEF Seizes, Has, Believed, Assigned
      <4>6. j \in 1 .. Len(agenda[t]) /\ o = agenda[t][j] /\ Seizes(t, o) /\ Believed(p)
        BY <2>1, <4>1, <4>3, <4>4, <4>5
      <4>7. PICK i \in 1 .. j - 1 : Frees(t, agenda[t][i], p)
        BY <3>1, <4>4, <4>6 DEF Vacated
      <4>8. PICK x : x = agenda[t][i] /\ x = agenda'[t][i]
        BY <2>1
      <4>9. Frees(t, x, p)'
        BY <4>1, <4>7, <4>8
      <4>10. Frees(t, agenda[t][i], agenda[t][j].pin)'
        BY <4>4, <4>8, <4>9 DEF Frees
      <4> QED BY <4>10
    <3>4. Apart(t)'
      BY <2>1, <3>1 DEF Apart, Has, Does, Idle, Now, Allowed, Merged
    <3> QED BY <3>2, <3>3, <3>4 DEF Sane, Lined, Vacated, Apart, Before, Unwinds, Seizes, Believed, Assigned,
                                    Frees, Has, Does, Allowed, Merged
  <2> QED BY <1>1, <2>2, <2>3 DEF DriverInv
<1> QED BY <1>3, <1>4

(* Whenever no call is in progress, a running driver has only pins that the *)
(* manager gave it, whatever begin(), setPins(), end(), refusal and claim   *)
(* of another driver came before, once begin() was called for every UART.   *)
(* (The hypotheses: one task, and no pin is the default of two UARTs.)      *)
THEOREM DriversOwnTheirPins ==
  ASSUME OneTask, DefaultsApart
  PROVE  SpecBegun => []DriverOwnsItsPins
<1>1. AllBegun => DriverInv
  BY AllBegunOwns
<1>2. DriverInv /\ [Next]_vars => DriverInv'
  BY StepOwns
<1>3. DriverInv => DriverOwnsItsPins
  BY DEF DriverInv, Inv, Types, TypeOK, Owned, DriverOwnsItsPins
<1> QED BY <1>1, <1>2, <1>3, PTL DEF SpecBegun
-----------------------------------------------------------------------------
(* Which drivers a call ends.  A UART is told to end at the bottom of a call *)
(* stack, but why it may be ended was settled when the call began, or when  *)
(* it planned what to attach: had tells what pins the UARTs had then.  So   *)
(* the invariant keeps account, along the whole agenda, of                  *)
(*   Lost      the pins a UART may have lost since: this call moved its own *)
(*             (Mine), or asked for the other's pin;                        *)
(*   MayEnd    a UART that may be ended, which is what the property says;   *)
(*   Lawful    what an operation is called for, given what the call is for; *)
(*   Later     what may come after what: nothing ends a UART after plan,    *)
(*             which forgets what they had before, collect comes after the  *)
(*             last release and before terminate, restore after the last    *)
(*             attach;                                                      *)
(*   Doomed    the UARTs to terminate are others until they are sorted out, *)
(*             and then only those that may be ended;                       *)
(*   Taken     the owner that a pin is taken from with a callback: it has   *)
(*             given the pin up, or the pin was asked for, and not in       *)
(*             setPins(), whose callbacks are muted.                        *)
Mine(t, v, r) ==
  /\ local[t].u = v
  /\ local[t].fn \in {"begin", "end"} \/ (local[t].fn = "setPins" /\ Want(t, r) # NoPin)

Lost(t, v, r) == Mine(t, v, r) \/ local[t].had[v][r] \in Asked(t) \cup {NoPin}

MayEnd(t, v) ==
  \/ local[t].fn \in {"begin", "end"} /\ local[t].u = v
  \/ \A r \in {"RX", "TX"} : local[t].had[v][r] \in Asked(t) \cup {NoPin}

Ending    == {"end", "detachAll", "delete"}
Beginning == (Starting \ {"setPins"}) \cup {"started"}
ForPins   == Attaching \cup Releasing \cup {"setPins", "plan"}

Lawful(t, o) ==
  /\ o.op \in Ending => MayEnd(t, o.u)
  /\ o.op = "detach" /\ o.role \in {"RX", "TX"} =>
       Lost(t, o.u, o.role) \/ o.pin \in Asked(t) \cup {NoPin}
  /\ o.op \in Beginning => local[t].fn = "begin"
  /\ o.op \in ForPins => local[t].fn \in {"begin", "setPins"}
  /\ o.op \in Beginning \cup ForPins => o.u = local[t].u
  /\ o.op \in Attaching \cup Releasing \cup {"move"} /\ o.pin # NoPin => o.pin = Want(t, o.role)

Later(x, y) ==
  /\ y.op \in Ending \cup {"detach"} => Unwinds(x)
  /\ x.op \in {"begin", "testBegin"} => y.op \in {"unlockSerial", "return"}
  /\ x.op \in Starting \cup {"restore"} => y.op \notin Attaching \cup {"plan"}
  /\ x.op \in Starting \cup {"collect"} => y.op \notin Releasing \cup {"plan"}
  /\ x.op \in Starting \cup {"collect", "terminate"} => y.op # "collect"

Aligned(t) == \A i, j \in 1 .. Len(agenda[t]) : i < j => Later(agenda[t][i], agenda[t][j])

Justified(t) == \A i \in 1 .. Len(agenda[t]) : Lawful(t, agenda[t][i])

Accounted(t) == \A v \in Uarts, r \in {"RX", "TX"} :
  Lost(t, v, r) \/ uart[v][r] = local[t].had[v][r]

Doomed(t) == IF Has(t, {"collect"}) THEN local[t].u \notin local[t].victims
             ELSE \A v \in local[t].victims : MayEnd(t, v)

Fresh(t) == Has(t, {"begin", "testBegin"}) => local[t].had = uart /\ local[t].victims = {}

Bracketed(t) ==
  /\ Has(t, Attaching \cup {"plan"}) /\ local[t].fn = "setPins" => Has(t, {"restore"})
  /\ Has(t, Releasing \cup {"plan"}) => Has(t, {"collect"})

Taken(t) ==
  /\ Does(t, "setBus") /\ Assigned(Now(t).pin) =>
       \/ uart[pins[Now(t).pin].bus][pins[Now(t).pin].type] = NoPin
       \/ Now(t).pin \in Asked(t) /\ local[t].fn \in {"begin", "claim"}
  /\ Does(t, "callback") /\ Now(t).role \in RoleSet =>
       \/ uart[Now(t).u][Now(t).role] = NoPin
       \/ uart[Now(t).u][Now(t).role] \in Asked(t) /\ local[t].fn \in {"begin", "claim"}

Kept(t) == /\ Aligned(t) /\ Justified(t) /\ Accounted(t)
           /\ Doomed(t) /\ Fresh(t) /\ Bracketed(t) /\ Taken(t)

KeptInv == DriverInv /\ \A t \in Tasks : Kept(t)

-----------------------------------------------------------------------------
(* What a turn keeps of each part.                                          *)
LEMMA AlignedStays ==
  ASSUME NEW t, NEW ops, Turn(t, ops), Aligned(t),
         \A i, j \in 1 .. Len(ops) : i < j => Later(ops[i], ops[j]),
         \A i \in 1 .. Len(ops) : \A k \in 2 .. Len(agenda[t]) :
           Later(Now(t), agenda[t][k]) => Later(ops[i], agenda[t][k])
  PROVE  Aligned(t)'
<1> DEFINE k == Len(ops)
           q == agenda[t]
           r == agenda'[t]
<1>1. /\ Len(q) \in Nat \ {0} /\ k \in Nat /\ Len(r) = k + Len(q) - 1
      /\ \A i \in 1 .. k : r[i] = ops[i]
      /\ \A i \in k + 1 .. Len(r) : r[i] = q[i - k + 1]
      /\ \A i \in 1 .. Len(q) : q[i] \in Operation
      /\ Now(t) = q[1]
  BY TopOfAgenda DEF Turn, Replaced
<1>2. \A i, j \in 1 .. Len(q) : i < j => Later(q[i], q[j])
  BY DEF Aligned
<1> HIDE DEF q, r, k
<1>3. ASSUME NEW i \in 1 .. Len(r), NEW j \in 1 .. Len(r), i < j
      PROVE  Later(r[i], r[j])
  <2>1. CASE j <= k
    <3>1. i \in 1 .. k /\ j \in 1 .. k
      BY <1>1, <1>3, <2>1
    <3> QED BY <1>1, <1>3, <3>1 DEF k
  <2>2. CASE i <= k /\ j > k
    <3> DEFINE b == j - k + 1
    <3>1. i \in 1 .. k /\ j \in k + 1 .. Len(r) /\ b \in 2 .. Len(q) /\ 1 \in 1 .. Len(q)
      BY <1>1, <2>2
    <3>2. r[i] = ops[i] /\ r[j] = q[b]
      BY <1>1, <3>1
    <3> HIDE DEF b
    <3>3. b \in 1 .. Len(q) /\ 1 < b
      BY <1>1, <3>1
    <3>4. Later(q[1], q[b])
      BY <1>1, <1>2, <3>1, <3>3
    <3>5. Later(q[1], q[b]) => Later(ops[i], q[b])
      BY <1>1, <3>1 DEF k, q
    <3> QED BY <3>2, <3>4, <3>5
  <2>3. CASE i > k
    <3> DEFINE a == i - k + 1
               b == j - k + 1
    <3>1. a \in 2 .. Len(q) /\ b \in 2 .. Len(q) /\ a < b
          /\ i \in k + 1 .. Len(r) /\ j \in k + 1 .. Len(r)
      BY <1>1, <1>3, <2>3
    <3>2. r[i] = q[a] /\ r[j] = q[b]
      BY <1>1, <3>1
    <3> HIDE DEF a, b
    <3>3. a \in 1 .. Len(q) /\ b \in 1 .. Len(q)
      BY <1>1, <3>1
    <3> QED BY <1>2, <3>1, <3>2, <3>3
  <2> QED BY <1>1, <1>3, <2>1, <2>2, <2>3
<1>4. \A i, j \in 1 .. Len(r) : i < j => Later(r[i], r[j])
  BY <1>3
<1> QED BY <1>4 DEF r, Aligned, Later, Unwinds

LEMMA Behind ==
  ASSUME NEW t, NEW ops, Turn(t, ops), Aligned(t), NEW k \in 2 .. Len(agenda[t])
  PROVE  Later(Now(t), agenda[t][k])
<1>1. 1 \in 1 .. Len(agenda[t]) /\ k \in 1 .. Len(agenda[t]) /\ 1 < k /\ Now(t) = agenda[t][1]
  BY TopOfAgenda
<1> QED BY <1>1 DEF Aligned

LEMMA JustifiedStays ==
  ASSUME NEW t, NEW ops, Turn(t, ops), Justified(t),
         \A i \in 1 .. Len(ops) : \A x : x = ops[i] => Lawful(t, x)',
         \A i \in 2 .. Len(agenda[t]) : \A x : x = agenda[t][i] /\ Lawful(t, x) => Lawful(t, x)'
  PROVE  Justified(t)'
<1>1. ASSUME NEW i \in 1 .. Len(agenda'[t]) PROVE Lawful(t, agenda[t][i])'
  <2>1. PICK x : x = agenda'[t][i]
    OBVIOUS
  <2>2. Replaced(agenda[t], ops, agenda'[t]) /\ Len(agenda[t]) \in Nat
    BY TopOfAgenda DEF Turn
  <2>3. Lawful(t, x)'
    <3>1. CASE i \in 1 .. Len(ops) /\ x = ops[i]
      BY <3>1
    <3>2. CASE ~(i \in 1 .. Len(ops) /\ x = ops[i])
      <4>0. \/ i \in 1 .. Len(ops) /\ agenda'[t][i] = ops[i]
            \/ /\ i > Len(ops) /\ i - Len(ops) + 1 \in 2 .. Len(agenda[t])
               /\ agenda'[t][i] = agenda[t][i - Len(ops) + 1]
        BY <2>2, WhereFrom
      <4>1. PICK k \in 2 .. Len(agenda[t]) : x = agenda[t][k]
        BY <2>1, <3>2, <4>0
      <4>2. k \in 1 .. Len(agenda[t])
        BY <2>2
      <4>3. Lawful(t, x)
        BY <4>1, <4>2 DEF Justified
      <4> QED BY <4>1, <4>3
    <3> QED BY <3>1, <3>2
  <2> QED BY <2>1, <2>3 DEF Lawful, MayEnd, Lost, Mine, Want, Asked
<1> QED BY <1>1 DEF Justified

LEMMA HeadIsLawful ==
  ASSUME Types, NEW t \in Tasks, ~Idle(t), Justified(t)
  PROVE  Lawful(t, Now(t))
<1>1. agenda[t] \in Seq(Operation) /\ agenda[t] # <<>>
  BY DEF Types, Idle
<1>2. 1 \in 1 .. Len(agenda[t])
  BY <1>1
<1> QED BY <1>2 DEF Justified, Now

(* An operation of a kind comes from the front or was there before.         *)
LEMMA HasBefore ==
  ASSUME NEW t, NEW ops, Turn(t, ops), NEW W, Has(t, W)'
  PROVE  \/ \E i \in 1 .. Len(ops) : ops[i].op \in W
         \/ \E k \in 2 .. Len(agenda[t]) : agenda[t][k].op \in W /\ Has(t, W)
<1> SUFFICES ASSUME \A i \in 1 .. Len(ops) : ops[i].op \notin W
             PROVE  \E k \in 2 .. Len(agenda[t]) : agenda[t][k].op \in W /\ Has(t, W)
  OBVIOUS
<1>1. PICK k \in 2 .. Len(agenda[t]) : agenda[t][k].op \in W
  BY HasLater
<1>2. k \in 1 .. Len(agenda[t])
  BY TopOfAgenda
<1> QED BY <1>1, <1>2 DEF Has

LEMMA HasPushed ==
  ASSUME NEW t, NEW ops, Turn(t, ops), NEW W, NEW i \in 1 .. Len(ops), ops[i].op \in W
  PROVE  Has(t, W)'
<1>1. Replaced(agenda[t], ops, agenda'[t])
  BY DEF Turn
<1>2. /\ Len(ops) \in Nat /\ Len(agenda[t]) \in Nat \ {0} /\ Len(agenda'[t]) = Len(ops) + Len(agenda[t]) - 1
      /\ agenda'[t][i] = ops[i]
  BY <1>1 DEF Replaced
<1>3. i \in 1 .. Len(agenda'[t])
  BY <1>2
<1> QED BY <1>2, <1>3 DEF Has

LEMMA BracketedStays ==
  ASSUME NEW t, NEW ops, Turn(t, ops), Aligned(t), Bracketed(t), local'[t].fn = local[t].fn,
         \A i \in 1 .. Len(ops) :
           /\ ops[i].op \in Attaching \cup {"plan"} =>
                \/ Now(t).op \in Attaching \cup {"plan"} \/ local[t].fn = "begin"
                \/ \E k \in 1 .. Len(ops) : ops[k].op = "restore"
           /\ ops[i].op \in Releasing \cup {"plan"} =>
                \/ Now(t).op \in Releasing \cup {"plan"}
                \/ \E k \in 1 .. Len(ops) : ops[k].op = "collect"
  PROVE  Bracketed(t)'
<1> DEFINE A == Attaching \cup {"plan"}
           R == Releasing \cup {"plan"}
<1>1. Len(agenda[t]) > 0 /\ Now(t) = agenda[t][1] /\ Len(agenda[t]) \in Nat
  BY TopOfAgenda
<1>2. \A W : Now(t).op \in W => Has(t, W)
  BY <1>1 DEF Has
<1>3. \A k \in 2 .. Len(agenda[t]) : Later(Now(t), agenda[t][k])
  BY Behind
<1>4. ASSUME Has(t, A)', local[t].fn = "setPins" PROVE Has(t, {"restore"})'
  <2>1. CASE \E k \in 1 .. Len(ops) : ops[k].op = "restore"
    BY <2>1, HasPushed
  <2>2. CASE ~\E k \in 1 .. Len(ops) : ops[k].op = "restore"
    <3>1. Has(t, A) /\ Now(t).op # "restore"
      <4>1. CASE \E i \in 1 .. Len(ops) : ops[i].op \in A
        <5>1. Now(t).op \in A
          BY <1>4, <2>2, <4>1
        <5> QED BY <1>2, <5>1 DEF Attaching
      <4>2. CASE \E k \in 2 .. Len(agenda[t]) : agenda[t][k].op \in A /\ Has(t, A)
        BY <1>3, <4>2 DEF Later
      <4> QED BY <1>4, <4>1, <4>2, HasBefore
    <3>2. Has(t, {"restore"})
      BY <1>4, <3>1 DEF Bracketed
    <3> QED BY <3>1, <3>2, HasStays
  <2> QED BY <2>1, <2>2
<1>5. ASSUME Has(t, R)' PROVE Has(t, {"collect"})'
  <2>1. CASE \E k \in 1 .. Len(ops) : ops[k].op = "collect"
    BY <2>1, HasPushed
  <2>2. CASE ~\E k \in 1 .. Len(ops) : ops[k].op = "collect"
    <3>1. Has(t, R) /\ Now(t).op # "collect"
      <4>1. CASE \E i \in 1 .. Len(ops) : ops[i].op \in R
        <5>1. Now(t).op \in R
          BY <2>2, <4>1
        <5> QED BY <1>2, <5>1 DEF Releasing
      <4>2. CASE \E k \in 2 .. Len(agenda[t]) : agenda[t][k].op \in R /\ Has(t, R)
        BY <1>3, <4>2 DEF Later
      <4> QED BY <1>5, <4>1, <4>2, HasBefore
    <3>2. Has(t, {"collect"})
      BY <3>1 DEF Bracketed
    <3> QED BY <3>1, <3>2, HasStays
  <2> QED BY <2>1, <2>2
<1>6. /\ Has(t, A)' /\ local'[t].fn = "setPins" => Has(t, {"restore"})'
      /\ Has(t, R)' => Has(t, {"collect"})'
  BY <1>4, <1>5
<1> QED BY <1>6 DEF Bracketed, Has, Attaching, Releasing

(* A pin is set and an owner called back by the first operation only.       *)
LEMMA TakenStays ==
  ASSUME DriverInv, NEW t \in Tasks, NEW ops, Turn(t, ops),
         Len(ops) > 0 => ops[1].op \notin {"setBus", "callback"}
  PROVE  Taken(t)'
<1>1. ASSUME ~Idle(t)' PROVE Now(t)'.op \notin {"setBus", "callback"}
  <2>1. CASE Len(ops) > 0
    BY <1>1, <2>1, TopOfAgenda
  <2>2. CASE ~(Len(ops) > 0)
    <3>1. /\ Len(agenda[t]) > 1 /\ Now(t)' = agenda[t][2] /\ Now(t) = agenda[t][1]
          /\ Len(agenda[t]) \in Nat
      BY <1>1, <2>2, TopOfAgenda
    <3>2. InOrder(agenda[t]) /\ Lined(t) /\ ~Idle(t)
      BY DEF DriverInv, Inv, Good, Sane, Turn
    <3>3. 2 \in 2 .. Len(agenda[t])
      BY <3>1
    <3>4. Follows(agenda[t][2 - 1], agenda[t][2])
      BY <3>2, <3>3 DEF InOrder
    <3>5. Before(Now(t), agenda[t][2])
      BY <3>2, <3>3, AfterHead
    <3> QED BY <3>1, <3>4, <3>5 DEF Follows, Before
  <2> QED BY <2>1, <2>2
<1>2. ~Does(t, "setBus")' /\ ~Does(t, "callback")'
  BY <1>1 DEF Does
<1> QED BY <1>2 DEF Taken, Does

(* Only the first operation of a call finds everything as it was.           *)
LEMMA FreshStays ==
  ASSUME DriverInv, NEW t \in Tasks, NEW ops, Turn(t, ops), Fresh(t),
         \A i \in 1 .. Len(ops) : ops[i].op \notin {"begin", "testBegin"},
         Now(t).op = "lockSerial" => UNCHANGED <<uart, local>>
  PROVE  Fresh(t)'
<1> DEFINE B == {"begin", "testBegin"}
<1>1. ASSUME Has(t, B)' PROVE local'[t].had = uart' /\ local'[t].victims = {}
  <2>1. PICK k \in 2 .. Len(agenda[t]) : agenda[t][k].op \in B /\ Has(t, B)
    BY <1>1, HasBefore
  <2>2. Before(Now(t), agenda[t][k])
    BY <2>1, AfterHead DEF Turn
  <2>3. Now(t).op = "lockSerial"
    BY <2>1, <2>2 DEF Before
  <2> QED BY <2>1, <2>3 DEF Fresh
<1> QED BY <1>1 DEF Fresh, Has

LEMMA HeadHas ==
  ASSUME Types, NEW t \in Tasks, ~Idle(t), NEW W, Now(t).op \in W
  PROVE  Has(t, W)
<1>1. agenda[t] \in Seq(Operation) /\ agenda[t] # <<>>
  BY DEF Types, Idle
<1>2. 1 \in 1 .. Len(agenda[t])
  BY <1>1
<1> QED BY <1>2 DEF Has, Now

(* Operations that may take the place of the first one, when the call goes  *)
(* on with what it was called for.                                          *)
Heirs(t) == {x \in Operation :
  /\ Lawful(t, x) /\ (Unwinds(Now(t)) => Unwinds(x))
  /\ x.op \notin {"begin", "testBegin", "plan", "collect", "restore"}
  /\ x.op \in Starting \cup {"terminate"} => Now(t).op \in Starting \/ Now(t).op = x.op
  /\ x.op \in Attaching => Now(t).op \in Attaching \/ local[t].fn = "begin"
  /\ x.op \in Releasing => Now(t).op \in Releasing}

(* The call is for what it was for.                                         *)
SameCall(t) ==
  /\ local'[t].fn = local[t].fn /\ local'[t].u = local[t].u
  /\ local'[t].want = local[t].want /\ local'[t].had = local[t].had

LEMMA SameCallSame ==
  ASSUME NEW t, SameCall(t)
  PROVE  /\ \A v, r : Mine(t, v, r)' <=> Mine(t, v, r)
         /\ \A v, r : Lost(t, v, r)' <=> Lost(t, v, r)
         /\ \A v : MayEnd(t, v)' <=> MayEnd(t, v)
         /\ \A x : Lawful(t, x)' <=> Lawful(t, x)
<1>1. \A r : Want(t, r)' = Want(t, r)
  BY DEF SameCall, Want
<1>2. Asked(t)' = Asked(t)
  BY DEF SameCall, Asked
<1>3. \A v, r : Mine(t, v, r)' <=> Mine(t, v, r)
  BY <1>1 DEF SameCall, Mine
<1>4. \A v, r : Lost(t, v, r)' <=> Lost(t, v, r)
  BY <1>2, <1>3 DEF SameCall, Lost
<1>5. \A v : MayEnd(t, v)' <=> MayEnd(t, v)
  BY <1>2 DEF SameCall, MayEnd
<1>6. ASSUME NEW x PROVE Lawful(t, x)' <=> Lawful(t, x)
  <2>1. Want(t, x.role)' = Want(t, x.role) /\ Asked(t)' = Asked(t)
        /\ (MayEnd(t, x.u)' <=> MayEnd(t, x.u)) /\ (Lost(t, x.u, x.role)' <=> Lost(t, x.u, x.role))
        /\ local'[t].fn = local[t].fn /\ local'[t].u = local[t].u
    BY <1>1, <1>2, <1>4, <1>5 DEF SameCall
  <2> QED BY <2>1 DEF Lawful
<1> QED BY <1>3, <1>4, <1>5, <1>6

LEMMA DoomedStays ==
  ASSUME NEW t, NEW ops, Turn(t, ops), Doomed(t), SameCall(t), Now(t).op # "collect",
         \A i \in 1 .. Len(ops) : ops[i].op # "collect",
         local'[t].victims \subseteq local[t].victims \cup
           (IF Has(t, {"collect"}) THEN Uarts \ {local[t].u} ELSE {})
  PROVE  Doomed(t)'
<1>1. \A v : MayEnd(t, v)' <=> MayEnd(t, v)
  BY SameCallSame
<1>2. Has(t, {"collect"})' <=> Has(t, {"collect"})
  <2>1. Has(t, {"collect"}) => Has(t, {"collect"})'
    BY HasStays
  <2>2. Has(t, {"collect"})' => Has(t, {"collect"})
    BY HasBefore
  <2> QED BY <2>1, <2>2
<1>3. CASE Has(t, {"collect"})
  <2>1. local'[t].u = local[t].u
    BY DEF SameCall
  <2>2. local[t].u \notin local[t].victims
    BY <1>3 DEF Doomed
  <2> QED BY <1>2, <1>3, <2>1, <2>2 DEF Doomed
<1>4. CASE ~Has(t, {"collect"})
  <2>1. \A v \in local[t].victims : MayEnd(t, v)
    BY <1>4 DEF Doomed
  <2>2. \A v \in local'[t].victims : MayEnd(t, v)'
    BY <1>1, <1>4, <2>1
  <2> QED BY <1>2, <1>4, <2>2 DEF Doomed, MayEnd
<1> QED BY <1>3, <1>4

LEMMA HeirsAreLater ==
  ASSUME NEW t, NEW x \in Heirs(t), NEW y, Later(Now(t), y)
  PROVE  Later(x, y)
BY DEF Heirs, Later

LEMMA KeptStays ==
  ASSUME DriverInv, NEW t \in Tasks, Kept(t), NEW ops, ops \in Seq(Heirs(t)), Turn(t, ops), SameCall(t),
         \A i, j \in 1 .. Len(ops) : i < j => Later(ops[i], ops[j]),
         \A v \in Uarts, r \in {"RX", "TX"} : uart'[v][r] = uart[v][r] \/ Lost(t, v, r),
         Now(t).op = "lockSerial" => UNCHANGED <<uart, local>>,
         Now(t).op # "collect",
         local'[t].victims \subseteq local[t].victims \cup
           (IF Has(t, {"collect"}) THEN Uarts \ {local[t].u} ELSE {}),
         Taken(t)'
  PROVE  Kept(t)'
<1>1. Aligned(t) /\ Justified(t) /\ Accounted(t) /\ Doomed(t) /\ Fresh(t) /\ Bracketed(t)
  BY DEF Kept
<1>2. \A i \in 1 .. Len(ops) : ops[i] \in Heirs(t)
  OBVIOUS
<1>3. Aligned(t)'
  <2>1. \A i \in 1 .. Len(ops) : \A k \in 2 .. Len(agenda[t]) :
          Later(Now(t), agenda[t][k]) => Later(ops[i], agenda[t][k])
    BY <1>2, HeirsAreLater
  <2> QED BY <1>1, <2>1, AlignedStays
<1>4. Justified(t)'
  <2>1. \A x : Lawful(t, x)' <=> Lawful(t, x)
    BY SameCallSame
  <2>2. \A i \in 1 .. Len(ops) : \A x : x = ops[i] => Lawful(t, x)
    BY <1>2 DEF Heirs
  <2> QED BY <1>1, <2>1, <2>2, JustifiedStays
<1>5. Accounted(t)'
  <2>1. ASSUME NEW v \in Uarts, NEW r \in {"RX", "TX"}
        PROVE  Lost(t, v, r)' \/ uart'[v][r] = local'[t].had[v][r]
    <3>1. Lost(t, v, r)' <=> Lost(t, v, r)
      BY SameCallSame
    <3>2. Lost(t, v, r) \/ uart[v][r] = local[t].had[v][r]
      BY <1>1 DEF Accounted
    <3> QED BY <3>1, <3>2 DEF SameCall
  <2> QED BY <2>1 DEF Accounted, Lost, Mine, Want, Asked
<1>6. Doomed(t)'
  BY <1>1, <1>2, DoomedStays DEF Heirs
<1>7. Fresh(t)'
  BY <1>1, <1>2, FreshStays DEF Heirs
<1>8. Bracketed(t)'
  <2>1. \A i \in 1 .. Len(ops) :
           /\ ops[i].op \in Attaching \cup {"plan"} =>
                Now(t).op \in Attaching \cup {"plan"} \/ local[t].fn = "begin"
           /\ ops[i].op \in Releasing \cup {"plan"} => Now(t).op \in Releasing \cup {"plan"}
    BY <1>2 DEF Heirs
  <2> QED BY <1>1, <2>1, BracketedStays DEF SameCall
<1>9. Aligned(t)' /\ Justified(t)' /\ Accounted(t)' /\ Doomed(t)' /\ Fresh(t)' /\ Bracketed(t)' /\ Taken(t)'
  BY <1>3, <1>4, <1>5, <1>6, <1>7, <1>8
<1> QED BY <1>9 DEF Kept, Aligned, Justified, Accounted, Doomed, Fresh, Bracketed, Taken

(* Steps that call nothing and take no pin.                                 *)
LEMMA DoneKept ==
  ASSUME DriverInv, NEW t \in Tasks, Kept(t), Turn(t, <<>>), SameCall(t), UNCHANGED uart,
         local'[t].victims = local[t].victims, Now(t).op # "collect",
         Now(t).op = "lockSerial" => UNCHANGED local
  PROVE  Kept(t)'
<1>1. <<>> \in Seq(Heirs(t)) /\ Len(<<>>) = 0
  OBVIOUS
<1>2. Taken(t)'
  BY <1>1, TakenStays
<1>3. \A v \in Uarts, r \in {"RX", "TX"} : uart'[v][r] = uart[v][r] \/ Lost(t, v, r)
  OBVIOUS
<1>4. \A i, j \in 1 .. Len(<<>>) : i < j => Later(<<>>[i], <<>>[j])
  BY <1>1
<1>5. local'[t].victims \subseteq local[t].victims \cup
           (IF Has(t, {"collect"}) THEN Uarts \ {local[t].u} ELSE {})
  OBVIOUS
<1>6. Now(t).op = "lockSerial" => UNCHANGED <<uart, local>>
  OBVIOUS
<1> QED BY <1>1, <1>2, <1>3, <1>4, <1>5, <1>6, KeptStays

LEMMA QuietKept ==
  ASSUME DriverInv, NEW t \in Tasks, Kept(t),
         \/ LockStep(t) \/ SetBusReturns(t) \/ AssignPin(t) \/ ReturnTrue(t) \/ ForeignCallback(t)
         \/ KeepResult(t) \/ DeleteDriver(t) \/ SaveDeinits(t) \/ Mute(t) \/ Restore(t)
         \/ DriverInstall(t) \/ Register(t)
  PROVE  Kept(t)'
<1>1. /\ Types /\ ~Idle(t) /\ local \in [Tasks -> Local] /\ local[t] \in Local
      /\ Now(t).op # "collect"
      /\ Now(t).op = "lockSerial" => LockStep(t)
  BY LocalKeepsType DEF DriverInv, Inv, LockStep, SetBusReturns, AssignPin, ReturnTrue, ForeignCallback,
     KeepResult, DeleteDriver, SaveDeinits, Mute, Restore, DriverInstall, Register, Does
<1>2. UNCHANGED uart
  BY DEF LockStep, Lock, Unlock, SetBusReturns, AssignPin, ReturnTrue, ForeignCallback, KeepResult,
     DeleteDriver, SaveDeinits, Mute, Restore, DriverInstall, Register, unchangedUarts
<1>3. \/ \E b \in BOOLEAN : Return(t, b)
      \/ Done(t) /\ UNCHANGED local
      \/ Done(t) /\ \E x : local' = [local EXCEPT ![t].ok = x]
      \/ Done(t) /\ \E x : local' = [local EXCEPT ![t].muted = x]
  <2>1. CASE LockStep(t)
    BY <2>1 DEF LockStep, Lock, Unlock
  <2>2. CASE SetBusReturns(t) \/ ReturnTrue(t) \/ ForeignCallback(t) \/ DriverInstall(t)
    BY <2>2 DEF SetBusReturns, ReturnTrue, ForeignCallback, DriverInstall
  <2>3. CASE KeepResult(t) \/ DeleteDriver(t) \/ Mute(t) \/ Restore(t) \/ Register(t) \/ AssignPin(t)
    BY <2>3 DEF KeepResult, DeleteDriver, Mute, Restore, Register, AssignPin
  <2>4. CASE SaveDeinits(t)
    BY <2>4 DEF SaveDeinits
  <2> QED BY <2>1, <2>2, <2>3, <2>4
<1>4. SameCall(t) /\ local'[t].victims = local[t].victims
  <2>1. CASE \E b \in BOOLEAN : Return(t, b)
    BY <1>1, <2>1 DEF Return, Local, SameCall
  <2>2. CASE \E x : local' = [local EXCEPT ![t].ok = x]
    BY <1>1, <2>2 DEF Local, SameCall
  <2>3. CASE \E x : local' = [local EXCEPT ![t].muted = x]
    BY <1>1, <2>3 DEF Local, SameCall
  <2>4. CASE UNCHANGED local
    BY <2>4 DEF SameCall
  <2> QED BY <1>3, <2>1, <2>2, <2>3, <2>4
<1>5. Turn(t, <<>>)
  BY <1>1, <1>3, DoneTurn, ReturnTurn
<1>6. LockStep(t) => UNCHANGED local
  BY DEF LockStep, Lock, Unlock
<1> QED BY <1>1, <1>2, <1>4, <1>5, <1>6, DoneKept

(* Steps that call something, and leave pins and local variables alone.     *)
LEMMA CallKept ==
  ASSUME DriverInv, NEW t \in Tasks, Kept(t), ~Idle(t), NEW ops, ops \in Seq(Heirs(t)), Calls(t, ops),
         UNCHANGED uart, SameCall(t), local'[t].victims \subseteq local[t].victims,
         Now(t).op \notin {"collect", "lockSerial"},
         \A i, j \in 1 .. Len(ops) : i < j => Later(ops[i], ops[j]),
         Len(ops) > 0 => ops[1].op \notin {"setBus", "callback"}
  PROVE  Kept(t)'
<1>1. ops \in Seq(Operation)
  BY DEF Heirs
<1>2. Turn(t, ops)
  BY <1>1, CallsReplaces DEF DriverInv, Inv
<1>3. Taken(t)'
  BY <1>2, TakenStays
<1>4. local'[t].victims \subseteq local[t].victims \cup (IF Has(t, {"collect"}) THEN Uarts \ {local[t].u} ELSE {})
  OBVIOUS
<1>5. \A v \in Uarts, r \in {"RX", "TX"} : uart'[v][r] = uart[v][r] \/ Lost(t, v, r)
  OBVIOUS
<1> QED BY <1>2, <1>3, <1>4, <1>5, KeptStays

(* Operations that lead to nothing another operation may not come after.    *)
Leading == {"collect", "restore", "terminate", "begin", "testBegin"} \cup Starting

LEMMA LaterThanUnwinding ==
  ASSUME NEW x, NEW y, x.op \notin Leading, Unwinds(x) \/ y.op \notin Ending \cup {"detach"}
  PROVE  Later(x, y)
BY DEF Later, Leading

LEMMA UartHeirs ==
  ASSUME NEW t \in Tasks, NEW u \in Uarts
  PROVE  /\ \A what \in {"lock", "unlock", "true"} : ForUart(what, u) \in Heirs(t)
         /\ MayEnd(t, u) => \A what \in Ending : ForUart(what, u) \in Heirs(t)
         /\ ~Unwinds(Now(t)) => \A what \in {"driverInstall", "register"} : ForUart(what, u) \in Heirs(t)
         /\ ~Unwinds(Now(t)) /\ Now(t).op \in Starting /\ local[t].fn = "begin" /\ u = local[t].u =>
              \A what \in {"uartBegin", "moved", "install", "installed", "setPins", "started"} :
                ForUart(what, u) \in Heirs(t)
<1>1. ASSUME NEW what \in {"lock", "unlock", "true", "driverInstall", "register"}
      PROVE  /\ ForUart(what, u) \in Operation /\ ForUart(what, u).op = what
             /\ what \notin Ending \cup Beginning \cup ForPins \cup {"detach", "move"}
             /\ what \notin {"begin", "testBegin", "plan", "collect", "restore", "terminate"}
  BY UartOps DEF Plain, Ending, Beginning, ForPins, Attaching, Releasing, Starting
<1>2. ASSUME NEW what \in Ending
      PROVE  /\ ForUart(what, u) \in Operation /\ ForUart(what, u).op = what /\ ForUart(what, u).u = u
             /\ what \notin Beginning \cup ForPins \cup {"detach", "move"}
             /\ what \notin {"begin", "testBegin", "plan", "collect", "restore", "terminate"}
  BY UartOps DEF Plain, Ending, Beginning, ForPins, Attaching, Releasing, Starting
<1>3. ASSUME NEW what \in {"uartBegin", "moved", "install", "installed", "setPins", "started"}
      PROVE  /\ ForUart(what, u) \in Operation /\ ForUart(what, u).op = what /\ ForUart(what, u).u = u
             /\ what \notin Ending \cup Attaching \cup Releasing \cup {"detach", "move"}
             /\ what \notin {"begin", "testBegin", "plan", "collect", "restore", "terminate"}
  BY UartOps DEF Plain, Ending, Attaching, Releasing, Starting
<1>4. ASSUME NEW x \in Operation, x.op \in {"lock", "unlock", "true", "driverInstall", "register"}
      PROVE  Lawful(t, x)
  BY <1>4 DEF Lawful, Ending, Beginning, ForPins, Attaching, Releasing, Starting
<1>5. ASSUME NEW x \in Operation, x.op \in Ending, MayEnd(t, x.u)
      PROVE  Lawful(t, x)
  BY <1>5 DEF Lawful, Ending, Beginning, ForPins, Attaching, Releasing, Starting
<1>6. ASSUME NEW x \in Operation, x.op \in {"uartBegin", "moved", "install", "installed", "setPins", "started"},
             x.u = local[t].u, local[t].fn = "begin"
      PROVE  Lawful(t, x)
  BY <1>6 DEF Lawful, Ending, Beginning, ForPins, Attaching, Releasing, Starting
<1>7. \A x : x.op \in {"lock", "unlock", "true"} \cup Ending => Unwinds(x)
  BY DEF Unwinds, Ending
<1>8. \A what \in {"lock", "unlock", "true"} : ForUart(what, u) \in Heirs(t)
  BY <1>1, <1>4, <1>7 DEF Heirs, Starting, ForPins
<1>9. MayEnd(t, u) => \A what \in Ending : ForUart(what, u) \in Heirs(t)
  BY <1>2, <1>5, <1>7 DEF Heirs, Starting, ForPins, Beginning
<1>10. ~Unwinds(Now(t)) => \A what \in {"driverInstall", "register"} : ForUart(what, u) \in Heirs(t)
  BY <1>1, <1>4 DEF Heirs, Starting, ForPins
<1>11. ~Unwinds(Now(t)) /\ Now(t).op \in Starting /\ local[t].fn = "begin" /\ u = local[t].u =>
         \A what \in {"uartBegin", "moved", "install", "installed", "setPins", "started"} :
           ForUart(what, u) \in Heirs(t)
  BY <1>3, <1>6 DEF Heirs
<1> QED BY <1>8, <1>9, <1>10, <1>11

(* HardwareSerial::end(): the UART that may be ended is.                    *)
LEMMA EndKept ==
  ASSUME DriverInv, NEW t \in Tasks, Kept(t), End(t)
  PROVE  Kept(t)'
<1> DEFINE u == Now(t).u
           ops == <<ForUart("lock", u), ForUart("detachAll", u), ForUart("delete", u), ForUart("unlock", u)>>
<1>1. /\ ~Idle(t) /\ u \in Uarts /\ Now(t).op = "end" /\ Calls(t, ops) /\ UNCHANGED <<uart, local>> /\ Types
  BY HeadIsSound DEF End, Does, unchangedUarts, DriverInv, Inv, Plain
<1>2. MayEnd(t, u)
  BY <1>1, HeadIsLawful DEF Kept, Lawful, Ending
<1>3. \A what \in {"lock", "detachAll", "delete", "unlock"} : ForUart(what, u) \in Heirs(t)
  BY <1>1, <1>2, UartHeirs DEF Ending
<1>4. ops \in Seq(Heirs(t)) /\ Len(ops) = 4
  BY <1>3
<1>5. ops[1].op = "lock" /\ ops[2].op = "detachAll" /\ ops[3].op = "delete" /\ ops[4].op = "unlock"
  BY DEF ForUart, Op
<1> HIDE DEF ops
<1>6. \A i \in 1 .. 4 : ops[i].op \notin Leading /\ Unwinds(ops[i])
  BY <1>5 DEF Leading, Starting, Unwinds
<1>7. \A i, j \in 1 .. Len(ops) : i < j => Later(ops[i], ops[j])
  BY <1>4, <1>6, LaterThanUnwinding
<1>8. SameCall(t) /\ local'[t].victims \subseteq local[t].victims
  BY <1>1 DEF SameCall
<1> QED BY <1>1, <1>4, <1>5, <1>7, <1>8, CallKept

LEMMA StartingHead ==
  ASSUME Types, NEW t \in Tasks, ~Idle(t), Kept(t)
  PROVE  /\ Now(t).op \in Beginning => local[t].fn = "begin" /\ Now(t).u = local[t].u
         /\ Now(t).op \in ForPins => local[t].fn \in {"begin", "setPins"} /\ Now(t).u = local[t].u
         /\ Now(t).op \in Beginning /\ Now(t).u \in Uarts => MayEnd(t, Now(t).u)
BY HeadIsLawful DEF Kept, Lawful, MayEnd

(* What begin() does after it was decided what to ask for.                  *)
LEMMA BeginningKept ==
  ASSUME DriverInv, NEW t \in Tasks, Kept(t),
         Install(t) \/ UartBegin(t) \/ Moved(t) \/ Installed(t) \/ Started(t)
  PROVE  Kept(t)'
<1> DEFINE u == Now(t).u
           S == Seq(Heirs(t))
<1>1. /\ ~Idle(t) /\ u \in Uarts /\ Now(t) \in Operation
      /\ Now(t).op \in {"install", "uartBegin", "moved", "installed", "started"}
      /\ Now(t).op \in Beginning /\ local[t] \in Local /\ Types /\ UNCHANGED <<uart, local>>
  BY HeadIsSound, LocalKeepsType DEF Install, UartBegin, Moved, Installed, Started, Does,
     DriverInv, Inv, Plain, Starting, Beginning, unchangedUarts
<1>2. ~Unwinds(Now(t)) /\ Now(t).op \notin {"collect", "lockSerial"}
      /\ SameCall(t) /\ local'[t].victims \subseteq local[t].victims
  BY <1>1 DEF Unwinds, Setting, SameCall
<1>3. local[t].fn = "begin" /\ u = local[t].u /\ MayEnd(t, u)
  BY <1>1, StartingHead
<1>4. \A what \in {"lock", "unlock", "end", "register", "driverInstall"} : ForUart(what, u) \in Heirs(t)
  BY <1>1, <1>2, <1>3, UartHeirs DEF Ending
<1>5. Now(t).op # "started" =>
        \A what \in {"uartBegin", "moved", "install", "installed", "setPins", "started"} : ForUart(what, u) \in Heirs(t)
  BY <1>1, <1>2, <1>3, UartHeirs DEF Starting
<1>6. \A what : ForUart(what, u).op = what
  BY DEF ForUart, Op
<1>7. PICK ops \in S : /\ Calls(t, ops) /\ \A i, j \in 1 .. Len(ops) : i < j => Later(ops[i], ops[j])
                       /\ Len(ops) > 0 => ops[1].op \notin {"setBus", "callback"}
  <2> DEFINE Fine(q) == /\ q \in S /\ \A i, j \in 1 .. Len(q) : i < j => Later(q[i], q[j])
                        /\ Len(q) > 0 => q[1].op \notin {"setBus", "callback"}
             again == <<ForUart("end", u), ForUart("install", u)>>
             end == <<ForUart("end", u)>>
  <2>1. Fine(Settle(u))
    <3> DEFINE q == Settle(u)
    <3>1. q \in S /\ Len(q) = 3 /\ q[1].op = "lock" /\ q[2].op = "unlock" /\ q[3].op = "register"
      BY <1>4, <1>6 DEF Settle
    <3> HIDE DEF q
    <3>2. \A i \in 1 .. 3 : q[i].op \notin Leading \cup Ending \cup {"detach", "setBus", "callback"}
      BY <3>1 DEF Leading, Starting, Ending
    <3>3. \A i, j \in 1 .. Len(q) : i < j => Later(q[i], q[j])
      BY <3>1, <3>2, LaterThanUnwinding
    <3>4. Fine(q)
      BY <3>1, <3>3
    <3> QED BY <3>4 DEF q
  <2>2. Now(t).op # "started" => Fine(again)
    <3> SUFFICES ASSUME Now(t).op # "started" PROVE Fine(again)
      OBVIOUS
    <3> DEFINE q == again
    <3>1. q \in S /\ Len(q) = 2 /\ q[1].op = "end" /\ q[2].op = "install"
      BY <1>4, <1>5, <1>6
    <3> HIDE DEF q
    <3>2. q[1].op \notin Leading /\ q[2].op \notin Ending \cup {"detach"}
      BY <3>1 DEF Leading, Starting, Ending
    <3>3. \A i, j \in 1 .. Len(q) : i < j => Later(q[i], q[j])
      BY <3>1, <3>2, LaterThanUnwinding
    <3>4. Fine(q)
      BY <3>1, <3>3
    <3> QED BY <3>4 DEF q
  <2>3. Fine(end)
    BY <1>4, <1>6
  <2>4. CASE Install(t)
    <3> DEFINE q == <<ForUart("lock", u), ForUart("driverInstall", u), ForUart("unlock", u), ForUart("installed", u)>>
    <3>1. /\ q \in S /\ Len(q) = 4
          /\ q[1].op = "lock" /\ q[2].op = "driverInstall" /\ q[3].op = "unlock" /\ q[4].op = "installed"
      BY <1>4, <1>5, <1>6, <2>4 DEF Install, Does
    <3>2. Calls(t, q)
      BY <2>4 DEF Install
    <3> HIDE DEF q
    <3>3. /\ \A i \in 1 .. 3 : q[i].op \notin Leading
          /\ \A i \in 1 .. 4 : q[i].op \notin Ending \cup {"detach", "setBus", "callback"}
      BY <3>1 DEF Leading, Starting, Ending
    <3>4. \A i, j \in 1 .. Len(q) : i < j => Later(q[i], q[j])
      BY <3>1, <3>3, LaterThanUnwinding
    <3> QED BY <3>1, <3>2, <3>4
  <2>5. CASE Installed(t)
    <3> DEFINE q == <<ForUart("setPins", u), ForUart("started", u)>>
    <3>1. q \in S /\ Len(q) = 2 /\ q[1].op = "setPins" /\ q[2].op = "started"
      BY <1>5, <1>6, <2>5 DEF Installed, Does
    <3>2. Calls(t, q) \/ Calls(t, end)
      BY <2>5 DEF Installed
    <3> HIDE DEF q, end
    <3>3. Later(q[1], q[2])
      BY <3>1 DEF Later, Starting, Ending, Attaching, Releasing
    <3>4. \A i, j \in 1 .. Len(q) : i < j => Later(q[i], q[j])
      BY <3>1, <3>3
    <3> QED BY <2>3, <3>1, <3>2, <3>4
  <2>6. CASE Started(t)
    <3>1. Calls(t, Settle(u)) \/ Calls(t, end)
      BY <2>6 DEF Started
    <3> HIDE DEF end
    <3> QED BY <2>1, <2>3, <3>1
  <2>7. CASE Moved(t)
    <3>1. Calls(t, Settle(u)) \/ Calls(t, again)
      BY <2>7 DEF Moved
    <3>2. Now(t).op # "started"
      BY <2>7 DEF Moved, Does
    <3> HIDE DEF again
    <3> QED BY <2>1, <2>2, <3>1, <3>2
  <2>8. CASE UartBegin(t)
    <3> DEFINE m(r) == Op("move", u, r, Want(t, r))
               q == <<ForUart("lock", u), m("RX"), m("TX"), ForUart("unlock", u), ForUart("moved", u)>>
               install == <<ForUart("install", u)>>
    <3>0. Now(t).op = "uartBegin"
      BY <2>8 DEF UartBegin, Does
    <3>1. \A r \in {"RX", "TX"} : m(r) \in Heirs(t) /\ m(r).op = "move"
      <4> TAKE r \in {"RX", "TX"}
      <4>1. Want(t, r) \in Pins \cup {NoPin} /\ r \in RoleSet /\ r \in BusTypes
        BY <1>1, Names DEF Want, Local
      <4>2. m(r) \in Operation /\ m(r).op = "move" /\ m(r).u = u /\ m(r).role = r /\ m(r).pin = Want(t, r)
        BY <1>1, <4>1, Names DEF Op, Operation, Ops, Sound, OpNames, Starting, Attaching, Releasing, Setting,
           Saving, Plain
      <4> HIDE DEF m
      <4>3. Lawful(t, m(r))
        BY <1>3, <4>2 DEF Lawful, Ending, Beginning, ForPins, Attaching, Releasing, Starting
      <4> QED BY <1>2, <3>0, <4>2, <4>3 DEF Heirs, Starting, Attaching, Releasing
    <3> HIDE DEF m
    <3>2. /\ q \in S /\ Len(q) = 5
          /\ q[1].op = "lock" /\ q[2].op = "move" /\ q[3].op = "move" /\ q[4].op = "unlock" /\ q[5].op = "moved"
      BY <1>4, <1>5, <1>6, <3>0, <3>1
    <3>3. Fine(install)
      BY <1>5, <1>6, <3>0
    <3>4. Calls(t, q) \/ Calls(t, again) \/ Calls(t, install)
      BY <2>8 DEF UartBegin, m
    <3> HIDE DEF q, again, install
    <3>5. \A i, j \in 1 .. 5 : i < j => Later(q[i], q[j])
      <4>1. \A i \in 1 .. 5 : /\ q[i].op \in {"lock", "move", "unlock", "moved"}
                              /\ q[i].op \notin Ending \cup Attaching \cup Releasing \cup {"detach"}
        BY <3>2 DEF Ending, Attaching, Releasing
      <4> QED BY <4>1 DEF Later
    <3>6. Fine(q)
      BY <3>2, <3>5
    <3> QED BY <2>2, <3>0, <3>3, <3>4, <3>6
  <2> QED BY <2>4, <2>5, <2>6, <2>7, <2>8
<1> QED BY <1>1, <1>2, <1>7, CallKept

LEMMA DetachIsHeir ==
  ASSUME NEW t \in Tasks, NEW u \in Uarts, NEW r \in RoleSet, NEW p \in Pins \cup {NoPin},
         r \in {"RX", "TX"} => Lost(t, u, r) \/ p \in Asked(t) \cup {NoPin}
  PROVE  Op("detach", u, r, p) \in Heirs(t)
<1> DEFINE x == Op("detach", u, r, p)
<1>1. x \in Operation /\ x.op = "detach" /\ x.u = u /\ x.role = r /\ x.pin = p
  BY DetachIsSound
<1> HIDE DEF x
<1>2. Lawful(t, x)
  BY <1>1 DEF Lawful, Ending, Beginning, ForPins, Attaching, Releasing, Starting
<1>3. x \in Heirs(t)
  BY <1>1, <1>2 DEF Heirs, Unwinds, Attaching, Releasing, Starting
<1> QED BY <1>3 DEF x

LEMMA DetachAllKept ==
  ASSUME DriverInv, NEW t \in Tasks, Kept(t), DetachAll(t)
  PROVE  Kept(t)'
<1> DEFINE u == Now(t).u
           ops == ForRoles("detach", u, LAMBDA r : uart[u][r])
<1>1. /\ ~Idle(t) /\ u \in Uarts /\ Now(t).op = "detachAll" /\ Calls(t, ops)
      /\ UNCHANGED <<uart, local>> /\ Types
  BY HeadIsSound DEF DetachAll, Does, unchangedUarts, DriverInv, Inv, Plain
<1>2. Len(Roles) \in Nat
  BY UartsAssumption
<1>3. /\ ops = [i \in 1 .. Len(Roles) |-> Op("detach", u, Roles[i], uart[u][Roles[i]])]
  BY DEF ForRoles
<1>4. MayEnd(t, u)
  BY <1>1, HeadIsLawful DEF Kept, Lawful, Ending
<1>5. \A r \in {"RX", "TX"} : Lost(t, u, r)
  BY <1>4 DEF MayEnd, Lost, Mine
<1>6. ASSUME NEW i \in 1 .. Len(Roles)
      PROVE  /\ Op("detach", u, Roles[i], uart[u][Roles[i]]) \in Heirs(t)
             /\ Op("detach", u, Roles[i], uart[u][Roles[i]]).op = "detach"
  <2>1. Roles[i] \in RoleSet
    BY DEF RoleSet
  <2>2. uart[u][Roles[i]] \in Pins \cup {NoPin}
    BY <1>1, <2>1 DEF Types, TypeOK
  <2> QED BY <1>1, <1>5, <2>1, <2>2, DetachIsHeir, OpFields
<1>7. ops \in Seq(Heirs(t)) /\ Len(ops) = Len(Roles)
  BY <1>2, <1>3, <1>6
<1>8. \A i \in 1 .. Len(ops) : ops[i].op = "detach"
  BY <1>3, <1>6, <1>7
<1> HIDE DEF ops
<1>9. \A i, j \in 1 .. Len(ops) : i < j => Later(ops[i], ops[j])
  <2> SUFFICES ASSUME NEW i \in 1 .. Len(ops), NEW j \in 1 .. Len(ops) PROVE Later(ops[i], ops[j])
    OBVIOUS
  <2>1. ops[i].op = "detach" /\ Unwinds(ops[i])
    BY <1>8 DEF Unwinds
  <2> QED BY <2>1 DEF Later, Starting
<1>10. /\ SameCall(t) /\ local'[t].victims \subseteq local[t].victims
       /\ Now(t).op \notin {"collect", "lockSerial"}
       /\ Len(ops) > 0 => ops[1].op \notin {"setBus", "callback"}
  <2>1. Len(ops) > 0 => 1 \in 1 .. Len(ops)
    BY <1>2, <1>7
  <2> QED BY <1>1, <1>8, <2>1 DEF SameCall
<1> QED BY <1>1, <1>7, <1>9, <1>10, CallKept

(* The UARTs to terminate were sorted out by then.                          *)
LEMMA TerminateKept ==
  ASSUME DriverInv, NEW t \in Tasks, Kept(t), Terminate(t)
  PROVE  Kept(t)'
<1>1. /\ ~Idle(t) /\ Now(t) \in Operation /\ Now(t).op = "terminate" /\ local[t] \in Local /\ Types
      /\ UNCHANGED uart
  BY HeadIsSound, LocalKeepsType DEF Terminate, Does, unchangedUarts, DriverInv, Inv
<1>2. CASE Return(t, local[t].ok)
  <2>1. local[t].ok \in BOOLEAN
    BY <1>1 DEF Local
  <2>2. Turn(t, <<>>) /\ local'[t] = [local[t] EXCEPT !.result = local[t].ok]
    BY <1>1, <1>2, <2>1, ReturnTurn
  <2>3. SameCall(t) /\ local'[t].victims = local[t].victims
    BY <1>1, <2>2 DEF Local, SameCall
  <2> QED BY <1>1, <2>2, <2>3, DoneKept
<1>3. CASE ~Return(t, local[t].ok)
  <2>1. PICK v \in local[t].victims :
          /\ Calls(t, HardwareSerialEnd(v) \o <<Now(t)>>)
          /\ local' = [local EXCEPT ![t].victims = @ \ {v}]
    BY <1>3 DEF Terminate
  <2>2. v \in Uarts
    BY <1>1 DEF Local
  <2>3. MayEnd(t, v)
    <3>1. ~Has(t, {"collect"})
      <4> SUFFICES ASSUME Has(t, {"collect"}) PROVE FALSE
        OBVIOUS
      <4>1. PICK k \in 1 .. Len(agenda[t]) : agenda[t][k].op = "collect"
        BY DEF Has
      <4>2. /\ Now(t) = agenda[t][1] /\ agenda[t] \in Seq(Operation) /\ agenda[t] # <<>> /\ Aligned(t)
        BY <1>1 DEF Types, Idle, Now, Kept
      <4>3. 1 \in 1 .. Len(agenda[t]) /\ 1 < k
        BY <1>1, <4>1, <4>2
      <4>4. Later(Now(t), agenda[t][k])
        BY <4>2, <4>3 DEF Aligned
      <4> QED BY <1>1, <4>1, <4>4 DEF Later
    <3> QED BY <3>1 DEF Kept, Doomed
  <2>4. ForUart("end", v) \in Heirs(t) /\ ForUart("end", v).op = "end"
    BY <2>2, <2>3, UartHeirs, UartOps DEF Ending, Plain
  <2>5. Now(t) \in Heirs(t)
    <3>1. Lawful(t, Now(t))
      BY <1>1, HeadIsLawful DEF Kept
    <3> QED BY <1>1, <3>1 DEF Heirs, Attaching, Releasing
  <2> DEFINE a == <<ForUart("end", v)>> \o <<Now(t)>>
             b == <<Now(t)>>
  <2>6. /\ a \in Seq(Heirs(t)) /\ Len(a) = 2 /\ a[1].op = "end" /\ a[2].op = "terminate"
        /\ b \in Seq(Heirs(t)) /\ Len(b) = 1 /\ b[1].op = "terminate"
    BY <1>1, <2>4, <2>5
  <2>7. HardwareSerialEnd(v) \o <<Now(t)>> = a
    BY <2>2 DEF HardwareSerialEnd, DriverInv
  <2> HIDE DEF a
  <2>8. \A i, j \in 1 .. Len(a) : i < j => Later(a[i], a[j])
    <3>1. Later(a[1], a[2])
      BY <2>6 DEF Later, Ending, Starting, Attaching, Releasing
    <3> QED BY <2>6, <3>1
  <2>9. SameCall(t) /\ local'[t].victims \subseteq local[t].victims
    BY <1>1, <2>1, LocalKeepsType DEF SameCall, Local
  <2>10. Now(t).op \notin {"collect", "lockSerial"}
    BY <1>1
  <2> QED BY <1>1, <2>1, <2>6, <2>7, <2>8, <2>9, <2>10, CallKept
<1> QED BY <1>2, <1>3

LEMMA LosersMayEnd ==
  ASSUME NEW t, NEW v \in Uarts, Accounted(t),
         \A r \in {"RX", "TX"} : /\ uart[v][r] \in Asked(t) \cup {NoPin}
                                 /\ ~(local[t].fn = "setPins" /\ local[t].u = v /\ Want(t, r) # NoPin)
  PROVE  MayEnd(t, v)
BY DEF Accounted, Lost, Mine, MayEnd

(* The callback: a UART is ended for its last pin, one of two that were     *)
(* asked for.                                                               *)
LEMMA CallbackKept ==
  ASSUME DriverInv, NEW t \in Tasks, Kept(t), Callback(t)
  PROVE  Kept(t)'
<1> DEFINE v == Now(t).u
           r == Now(t).role
           S == Seq(Heirs(t))
<1>1. /\ ~Idle(t) /\ r \in RoleSet /\ Now(t).op = "callback" /\ Types /\ Now(t) \in Operation
      /\ UNCHANGED uart /\ local[t] \in Local
  BY HeadIsSound, LocalKeepsType DEF Callback, Does, unchangedUarts, DriverInv, Inv
<1>2. v \in Uarts
  BY <1>1, Names DEF Operation, Sound
<1>3. uart[v][r] \in Pins \cup {NoPin}
  BY <1>1, <1>2 DEF Types, TypeOK
<1>4. Now(t).op \notin {"collect", "lockSerial"}
  BY <1>1
<1>5. uart[v][r] # NoPin => uart[v][r] \in Asked(t) /\ local[t].fn \in {"begin", "claim"}
  BY <1>1 DEF Kept, Taken, Does
<1>6. CASE Return(t, TRUE) /\ uart[v][r] = NoPin
  <2>1. Turn(t, <<>>) /\ local'[t] = [local[t] EXCEPT !.result = TRUE]
    BY <1>1, <1>6, ReturnTurn
  <2>2. SameCall(t) /\ local'[t].victims = local[t].victims
    BY <1>1, <2>1 DEF Local, SameCall
  <2> QED BY <1>1, <2>1, <2>2, DoneKept
<1>7. CASE /\ uart[v][r] # NoPin /\ IsLast(v, r)
           /\ Calls(t, HardwareSerialEnd(v) \o <<ForUart("true", v)>>) /\ UNCHANGED local
  <2> DEFINE e == <<ForUart("end", v)>>
             x == <<ForUart("true", v)>>
             ops == e \o x
  <2>1. MayEnd(t, v)
    <3>1. \A s \in {"RX", "TX"} : uart[v][s] \in Asked(t) \cup {NoPin}
      BY <1>5, <1>7 DEF IsLast, Other
    <3>2. local[t].fn # "setPins" /\ Accounted(t)
      BY <1>5, <1>7 DEF Kept
    <3> QED BY <1>2, <3>1, <3>2, LosersMayEnd
  <2>2. \A what \in {"end", "true"} : ForUart(what, v) \in Heirs(t)
    BY <1>2, <2>1, UartHeirs DEF Ending
  <2>3. /\ ops \in S /\ Len(ops) = 2 /\ ops[1].op = "end" /\ ops[2].op = "true"
    BY <2>2 DEF ForUart, Op
  <2>4. HardwareSerialEnd(v) = e
    BY <1>2 DEF HardwareSerialEnd, DriverInv
  <2>5. Calls(t, ops)
    BY <1>7, <2>4
  <2> HIDE DEF ops
  <2>6. \A i, j \in 1 .. Len(ops) : i < j => Later(ops[i], ops[j])
    <3>1. Later(ops[1], ops[2])
      BY <2>3 DEF Later, Ending, Starting, Attaching, Releasing
    <3> QED BY <2>3, <3>1
  <2>7. SameCall(t) /\ local'[t].victims \subseteq local[t].victims
    BY <1>7 DEF SameCall
  <2> QED BY <1>1, <1>4, <2>3, <2>5, <2>6, <2>7, CallKept
<1>8. CASE uart[v][r] # NoPin /\ Calls(t, GiveUp(v, r)) /\ UNCHANGED local
  <2> DEFINE ops == <<Op("detach", v, r, uart[v][r])>>
  <2>1. Op("detach", v, r, uart[v][r]) \in Heirs(t)
    BY <1>1, <1>2, <1>3, <1>5, <1>8, DetachIsHeir
  <2>2. ops \in S /\ Calls(t, ops) /\ Len(ops) = 1 /\ ops[1].op = "detach"
    BY <1>8, <2>1, OpFields DEF GiveUp
  <2> HIDE DEF ops
  <2>3. \A i, j \in 1 .. Len(ops) : ~(i < j)
    BY <2>2
  <2>4. SameCall(t) /\ local'[t].victims \subseteq local[t].victims
    BY <1>8 DEF SameCall
  <2> QED BY <1>1, <1>4, <2>2, <2>3, <2>4, CallKept
<1> QED BY <1>6, <1>7, <1>8 DEF Callback

LEMMA SetBusKept ==
  ASSUME DriverInv, NEW t \in Tasks, Kept(t), SetBusGoesOn(t)
  PROVE  Kept(t)'
<1> DEFINE o == Now(t)
           p == o.pin
           assign == [o EXCEPT !.op = "assign"]
           callback == Op("callback", pins[p].bus, pins[p].type, NoPin)
           a == <<callback, assign>>
           b == <<assign>>
           ops == IF CallsDriver(p) THEN a ELSE b
<1>1. /\ ~Idle(t) /\ o.op = "setBus" /\ o.op \in Setting /\ Types /\ Calls(t, ops)
      /\ UNCHANGED <<pins, uart>> /\ local' = [local EXCEPT ![t].result = TRUE]
      /\ local[t] \in Local
  BY LocalKeepsType DEF SetBusGoesOn, Does, Setting, unchangedPeriMan, unchangedUarts, DriverInv, Inv
<1>2. o \in Operation /\ p \in Pins
  BY <1>1, SettingHead DEF DriverInv
<1>3. /\ assign \in Operation /\ assign.op = "assign" /\ assign.role = o.role
  BY <1>1, <1>2 DEF Operation, Ops, Sound, OpNames, Attaching, Releasing, Setting, Saving, Starting, Plain
<1>4. /\ CallsDriver(p) => callback \in Operation
      /\ callback.op = "callback" /\ callback.u = pins[p].bus /\ callback.role = pins[p].type
  <2>1. CallsDriver(p) => \/ pins[p].type = "I2C" /\ pins[p].bus = Foreign
                          \/ pins[p].type \in RoleSet /\ pins[p].bus \in Uarts
    BY <1>1, <1>2 DEF CallsDriver, Types, Unassigned
  <2>2. CallsDriver(p) => callback \in Operation
    BY <2>1, Names DEF Op, Operation, Ops, Sound, OpNames, Attaching, Releasing, Setting, Saving, Starting, Plain
  <2> QED BY <2>2, OpFields
<1>5. SameCall(t) /\ local'[t].victims = local[t].victims
  BY <1>1, LocalKeepsType DEF Local, SameCall
<1> HIDE DEF assign, callback
<1>6. \A x \in Operation : x.op \in {"assign", "callback"} => Lawful(t, x)
  BY DEF Lawful, Ending, Beginning, ForPins, Attaching, Releasing, Starting
<1>7. /\ assign \in Heirs(t)
      /\ CallsDriver(p) => callback \in Heirs(t)
      /\ Later(callback, assign)
  <2>1. Unwinds(o) => Unwinds(assign)
    BY <1>1, <1>3 DEF Unwinds, Setting
  <2>2. Unwinds(callback)
    BY <1>4 DEF Unwinds
  <2> QED BY <1>3, <1>4, <1>6, <2>1, <2>2 DEF Heirs, Later, Attaching, Releasing, Starting
<1>8. /\ CallsDriver(p) => a \in Seq(Heirs(t))
      /\ b \in Seq(Heirs(t))
      /\ Len(a) = 2 /\ a[1] = callback /\ a[2] = assign /\ Len(b) = 1 /\ b[1] = assign
  BY <1>7
<1> HIDE DEF a, b
<1>9. ops \in Seq(Heirs(t))
  BY <1>8
<1>10. \/ Len(ops) = 2 /\ ops[1] = callback /\ ops[2] = assign /\ CallsDriver(p)
       \/ Len(ops) = 1 /\ ops[1] = assign
  BY <1>8
<1> HIDE DEF ops
<1>11. Turn(t, ops)
  BY <1>1, <1>9, CallsReplaces DEF Heirs
<1>12. \A i, j \in 1 .. Len(ops) : i < j => Later(ops[i], ops[j])
  BY <1>7, <1>10
<1>13. Taken(t)'
  <2>1. CASE ops[1] = assign
    <3>1. Len(ops) > 0 => ops[1].op \notin {"setBus", "callback"}
      BY <1>3, <2>1
    <3> QED BY <1>11, <3>1, TakenStays
  <2>2. CASE Len(ops) = 2 /\ ops[1] = callback
    <3> DEFINE v == pins[p].bus
               r == pins[p].type
    <3>1. Now(t)' = callback /\ ~Does(t, "setBus")'
      BY <1>4, <1>11, <2>2, TopOfAgenda DEF Does
    <3>2. ASSUME r \in RoleSet
          PROVE  \/ uart[v][r] = NoPin
                 \/ uart[v][r] \in Asked(t) /\ local[t].fn \in {"begin", "claim"}
      <4>1. Assigned(p)
        BY <3>2 DEF Assigned
      <4>2. \/ uart[v][r] = NoPin
            \/ p \in Asked(t) /\ local[t].fn \in {"begin", "claim"}
        BY <1>1, <4>1 DEF Kept, Taken, Does
      <4>3. uart[v][r] = p \/ OnItsWay(t, p)
        BY <1>2, <4>1 DEF DriverInv, Inv, Good, Known
      <4>4. OnItsWay(t, p) => uart[v][r] = NoPin
        BY <1>1 DEF OnItsWay
      <4> QED BY <4>2, <4>3, <4>4
    <3>3. Asked(t)' = Asked(t) /\ local'[t].fn = local[t].fn
      BY <1>5 DEF SameCall, Asked
    <3>4. Now(t)'.u = v /\ Now(t)'.role = r
      BY <1>4, <3>1
    <3>5. uart' = uart
      BY <1>1
    <3> HIDE DEF v, r
    <3>6. Now(t)'.role \in RoleSet =>
            \/ uart'[Now(t)'.u][Now(t)'.role] = NoPin
            \/ uart'[Now(t)'.u][Now(t)'.role] \in Asked(t)' /\ local'[t].fn \in {"begin", "claim"}
      BY <3>2, <3>3, <3>4, <3>5
    <3> QED BY <3>1, <3>6 DEF Taken
  <2> QED BY <1>10, <2>1, <2>2
<1>14. /\ \A v \in Uarts, r \in {"RX", "TX"} : uart'[v][r] = uart[v][r] \/ Lost(t, v, r)
       /\ local'[t].victims \subseteq local[t].victims \cup
            (IF Has(t, {"collect"}) THEN Uarts \ {local[t].u} ELSE {})
       /\ Now(t).op # "collect" /\ Now(t).op # "lockSerial"
  BY <1>1, <1>5
<1> QED BY <1>5, <1>9, <1>11, <1>12, <1>13, <1>14, KeptStays

(* _uartDetachPins(): the manager's record of the pin is cleared next, when *)
(* its owner has given it up.                                               *)
LEMMA DetachKept ==
  ASSUME DriverInv, NEW t \in Tasks, Kept(t), Detach(t)
  PROVE  Kept(t)'
<1> DEFINE o == Now(t)
           p == o.pin
           clear == ClearPin(p)
           ops == <<clear>>
           hit == p # NoPin /\ uart[o.u][o.role] = p /\ pins[p].type = o.role
<1>1. /\ ~Idle(t) /\ o.op = "detach" /\ Types /\ Owned /\ UNCHANGED pins /\ local[t] \in Local
  BY LocalKeepsType DEF Detach, Does, unchangedPeriMan, DriverInv, Inv
<1>2. o \in Operation /\ o.u \in Uarts /\ o.role \in RoleSet /\ p \in Pins \cup {NoPin}
  BY <1>1, HeadIsSound DEF Operation, Ops, Sound
<1>3. CASE ~hit
  <2>1. Return(t, TRUE) /\ UNCHANGED uart
    BY <1>3 DEF Detach
  <2>2. Turn(t, <<>>) /\ local'[t] = [local[t] EXCEPT !.result = TRUE]
    BY <1>1, <2>1, ReturnTurn
  <2>3. SameCall(t) /\ local'[t].victims = local[t].victims
    BY <1>1, <2>2 DEF Local, SameCall
  <2> QED BY <1>1, <2>1, <2>2, <2>3, DoneKept
<1>4. CASE hit
  <2>1. /\ uart' = [uart EXCEPT ![o.u][o.role] = NoPin] /\ Calls(t, ops) /\ UNCHANGED local
    BY <1>4 DEF Detach
  <2>2. p \in Pins
    BY <1>2, <1>4
  <2>3. /\ clear \in Operation /\ clear.op = "setBus" /\ clear.pin = p /\ clear.role = "INIT"
    BY <2>2, ClearPinIsSound
  <2> HIDE DEF clear
  <2>4. clear \in Heirs(t)
    <3>1. Unwinds(clear)
      BY <2>3, Names DEF Unwinds, Setting
    <3>2. Lawful(t, clear)
      BY <2>3 DEF Lawful, Ending, Beginning, ForPins, Attaching, Releasing, Starting
    <3> QED BY <2>3, <3>1, <3>2 DEF Heirs, Attaching, Releasing, Starting
  <2>5. ops \in Seq(Heirs(t)) /\ Len(ops) = 1 /\ ops[1] = clear
    BY <2>4
  <2> HIDE DEF ops
  <2>6. Turn(t, ops)
    BY <1>1, <2>1, <2>5, CallsReplaces DEF Heirs
  <2>7. uart \in [Uarts -> [RoleSet -> Pins \cup {NoPin}]]
    BY <1>1 DEF Types, TypeOK
  <2>8. \A u \in Uarts, r \in RoleSet :
          uart'[u][r] = IF u = o.u /\ r = o.role THEN NoPin ELSE uart[u][r]
    BY <1>2, <2>1, <2>7
  <2>9. o.role \in {"RX", "TX"} => Lost(t, o.u, o.role)
    <3>1. Lawful(t, o)
      BY <1>1, HeadIsLawful DEF Kept
    <3>2. Accounted(t)
      BY DEF Kept
    <3> QED BY <1>1, <1>2, <1>4, <3>1, <3>2 DEF Lawful, Accounted, Lost
  <2>10. \A v \in Uarts, r \in {"RX", "TX"} : uart'[v][r] = uart[v][r] \/ Lost(t, v, r)
    BY <2>8, <2>9, Names
  <2>11. Taken(t)'
    <3>0. Len(ops) > 0 => Now(t)' = ops[1]
      BY <2>6, TopOfAgenda
    <3>1. Now(t)' = clear /\ ~Does(t, "callback")'
      BY <2>3, <2>5, <3>0 DEF Does
    <3>2. pins[p].type = o.role /\ pins[p].bus = o.u /\ p # NoPin
      BY <1>1, <1>2, <1>4 DEF Owned
    <3>3. uart'[pins[p].bus][pins[p].type] = NoPin /\ Now(t)'.pin = p
      BY <1>2, <2>3, <2>8, <3>1, <3>2
    <3>4. uart'[pins'[Now(t)'.pin].bus][pins'[Now(t)'.pin].type] = NoPin
      BY <1>1, <3>3
    <3> QED BY <3>1, <3>4 DEF Taken
  <2>12. \A i, j \in 1 .. Len(ops) : i < j => Later(ops[i], ops[j])
    BY <2>5
  <2>13. /\ SameCall(t)
         /\ local'[t].victims \subseteq local[t].victims \cup
              (IF Has(t, {"collect"}) THEN Uarts \ {local[t].u} ELSE {})
         /\ Now(t).op # "collect" /\ Now(t).op # "lockSerial"
    BY <1>1, <2>1 DEF SameCall
  <2> QED BY <2>5, <2>6, <2>10, <2>11, <2>12, <2>13, KeptStays
<1> QED BY <1>3, <1>4

-----------------------------------------------------------------------------
(* Pins are released and attached, the call's own and those it asks for.    *)
LEMMA OtherHeirs ==
  ASSUME NEW t \in Tasks
  PROVE  /\ ~Unwinds(Now(t)) => AndKeep \in Heirs(t)
         /\ \A p \in Pins : ClearPin(p) \in Heirs(t)
<1>1. \A x \in Operation : x.op \in {"and", "setBus"} => Lawful(t, x)
  BY DEF Lawful, Ending, Beginning, ForPins, Attaching, Releasing, Starting
<1>2. ~Unwinds(Now(t)) => AndKeep \in Heirs(t)
  BY <1>1, AndKeepIsSound DEF Heirs, Attaching, Releasing, Starting
<1>3. ASSUME NEW p \in Pins PROVE ClearPin(p) \in Heirs(t)
  <2> DEFINE x == ClearPin(p)
  <2>1. x \in Operation /\ x.op = "setBus" /\ x.role = "INIT"
    BY ClearPinIsSound
  <2> HIDE DEF x
  <2>2. Unwinds(x)
    BY <2>1, Names DEF Unwinds, Setting
  <2>3. x \in Heirs(t)
    BY <1>1, <2>1, <2>2 DEF Heirs, Attaching, Releasing, Starting
  <2> QED BY <2>3 DEF x
<1> QED BY <1>2, <1>3

LEMMA ReleaseKept ==
  ASSUME DriverInv, NEW t \in Tasks, Kept(t), Release(t)
  PROVE  Kept(t)'
<1> DEFINE o == Now(t)
           taken == pins[o.pin]
           rest == [o EXCEPT !.op = "releaseOld"]
           conflict == o.role \in local[t].attach /\ taken.type \in RoleSet
           d == Op("detach", taken.bus, taken.type, o.pin)
           S == Seq(Heirs(t))
<1>1. /\ ~Idle(t) /\ o.op = "release" /\ o.op \in Releasing /\ Types /\ UNCHANGED uart /\ local[t] \in Local
  BY LocalKeepsType DEF Release, Does, Releasing, unchangedUarts, DriverInv, Inv
<1>2. o \in Operation /\ o.u \in Uarts /\ o.role \in RoleSet /\ o.pin \in Pins \cup {NoPin}
  BY <1>1, ReleasingHead DEF DriverInv
<1>3. Lawful(t, o) /\ o.u = local[t].u
  BY <1>1, HeadIsLawful, StartingHead DEF Kept, ForPins
<1>4. ~Unwinds(o) /\ o.op # "lockSerial" /\ o.op # "collect"
  BY <1>1 DEF Unwinds, Setting
<1>5. CASE o.pin = NoPin
  <2>1. Turn(t, <<>>) /\ UNCHANGED local
    BY <1>1, <1>5, DoneTurn DEF Release
  <2> QED BY <1>1, <1>4, <2>1, DoneKept DEF SameCall
<1>6. CASE o.pin # NoPin
  <2>1. o.pin \in Pins
    BY <1>2, <1>6
  <2>2. o.pin \in Pins /\ o.pin \in Asked(t)
    BY <1>1, <1>2, <1>3, <1>6 DEF Lawful, Want, Asked
  <2>3. conflict => taken.type \in RoleSet /\ taken.bus \in Uarts
    <3>1. \/ taken = Unassigned
          \/ taken.type = "I2C"
          \/ taken.type \in RoleSet /\ taken.bus \in Uarts
      BY <1>1, <2>1 DEF Types
    <3> HIDE DEF taken
    <3> QED BY <3>1, Names DEF Unassigned
  <2>4. rest \in Heirs(t) /\ rest.op = "releaseOld"
    <3>1. /\ rest \in Operation /\ rest.op = "releaseOld" /\ rest.u = o.u
          /\ rest.role = o.role /\ rest.pin = o.pin
      BY <1>1, <1>2, <2>2 DEF Operation, Ops, Sound, OpNames, Attaching, Releasing, Setting, Saving, Starting, Plain
    <3> HIDE DEF rest
    <3>2. Lawful(t, rest)
      BY <1>1, <1>3, <3>1 DEF Lawful, Ending, Beginning, ForPins, Attaching, Releasing, Starting
    <3> QED BY <1>1, <1>4, <3>1, <3>2 DEF Heirs, Attaching, Releasing, Starting
  <2>5. conflict => d \in Heirs(t)
    <3> HIDE DEF taken
    <3>1. conflict => Op("detach", taken.bus, taken.type, o.pin) \in Heirs(t)
      BY <1>2, <2>2, <2>3, DetachIsHeir
    <3> QED BY <3>1
  <2>6. d.op = "detach" /\ AndKeep \in Heirs(t) /\ AndKeep.op = "and"
    BY <1>4, OpFields, OtherHeirs, AndKeepIsSound
  <2> DEFINE a == <<d, AndKeep, rest>>
             b == <<rest>>
             ops == IF conflict THEN a ELSE b
  <2>7. /\ Calls(t, ops)
        /\ local' = [local EXCEPT ![t].victims = IF conflict THEN @ \cup ({taken.bus} \ {o.u}) ELSE @]
    BY <1>6 DEF Release
  <2>8. /\ SameCall(t)
        /\ local'[t].victims \subseteq local[t].victims \cup (IF conflict THEN {taken.bus} \ {o.u} ELSE {})
    <3> HIDE DEF conflict, taken, o
    <3>1. PICK W : /\ W = IF conflict THEN local[t].victims \cup ({taken.bus} \ {o.u}) ELSE local[t].victims
                   /\ local' = [local EXCEPT ![t].victims = W]
      BY <2>7
    <3>2. SameCall(t) /\ local'[t].victims = W
      BY <1>1, <3>1, LocalKeepsType DEF SameCall, Local
    <3>3. W \subseteq local[t].victims \cup (IF conflict THEN {taken.bus} \ {o.u} ELSE {})
      BY <3>1
    <3> QED BY <3>2, <3>3
  <2>9. Has(t, {"collect"})
    <3>1. Has(t, Releasing \cup {"plan"})
      BY <1>1, HeadHas
    <3> QED BY <3>1 DEF Kept, Bracketed
  <2>10. local'[t].victims \subseteq local[t].victims \cup
            (IF Has(t, {"collect"}) THEN Uarts \ {local[t].u} ELSE {})
    BY <1>3, <2>8, <2>3, <2>9
  <2>11. /\ conflict => a \in S
         /\ b \in S
         /\ Len(a) = 3 /\ a[1].op = "detach" /\ a[2].op = "and" /\ a[3].op = "releaseOld"
         /\ Len(b) = 1 /\ b[1].op = "releaseOld"
    <3> HIDE DEF d, rest, conflict
    <3> QED BY <2>4, <2>5, <2>6
  <2> HIDE DEF a, b
  <2>12. /\ ops \in S /\ Len(ops) \in {1, 3}
         /\ \A i \in 1 .. Len(ops) : /\ ops[i].op \in {"detach", "and", "releaseOld"}
                                     /\ i > 1 => ops[i].op # "detach"
    <3> HIDE DEF conflict
    <3>1. CASE conflict
      <4>1. ops = a
        BY <3>1
      <4> HIDE DEF ops
      <4>2. ops \in S /\ Len(ops) = 3 /\ ops[1].op = "detach" /\ ops[2].op = "and" /\ ops[3].op = "releaseOld"
        BY <2>11, <3>1, <4>1
      <4> QED BY <4>2
    <3>2. CASE ~conflict
      <4>1. ops = b
        BY <3>2
      <4> HIDE DEF ops
      <4>2. ops \in S /\ Len(ops) = 1 /\ ops[1].op = "releaseOld"
        BY <2>11, <4>1
      <4> QED BY <4>2
    <3> QED BY <3>1, <3>2
  <2> HIDE DEF ops
  <2>13. \A i, j \in 1 .. Len(ops) : i < j => Later(ops[i], ops[j])
    <3> SUFFICES ASSUME NEW i \in 1 .. Len(ops), NEW j \in 1 .. Len(ops), i < j PROVE Later(ops[i], ops[j])
      OBVIOUS
    <3>1. ops[j].op \in {"and", "releaseOld"} /\ ops[i].op \in {"detach", "and", "releaseOld"}
      BY <2>12
    <3> QED BY <3>1 DEF Later, Ending, Starting
  <2>14. Turn(t, ops)
    BY <1>1, <2>7, <2>12, CallsReplaces DEF Heirs
  <2>15. Taken(t)'
    <3>1. Len(ops) > 0 => ops[1].op \notin {"setBus", "callback"}
      BY <2>12
    <3> QED BY <2>14, <3>1, TakenStays
  <2>16. \A v \in Uarts, r \in {"RX", "TX"} : uart'[v][r] = uart[v][r] \/ Lost(t, v, r)
    BY <1>1
  <2> QED BY <1>4, <2>8, <2>10, <2>12, <2>13, <2>14, <2>15, <2>16, KeptStays
<1> QED BY <1>5, <1>6

LEMMA ReleaseOldKept ==
  ASSUME DriverInv, NEW t \in Tasks, Kept(t), ReleaseOld(t)
  PROVE  Kept(t)'
<1> DEFINE o == Now(t)
           old == uart[o.u][o.role]
           d == Op("detach", o.u, o.role, old)
           a == <<d, AndKeep>>
           ops == IF old \in {o.pin, NoPin} THEN <<>> ELSE a
<1>1. /\ ~Idle(t) /\ o.op = "releaseOld" /\ o.op \in Releasing /\ Types /\ UNCHANGED <<uart, local>>
  BY DEF ReleaseOld, Does, Releasing, unchangedUarts, DriverInv, Inv
<1>2. o \in Operation /\ o.u \in Uarts /\ o.role \in RoleSet /\ o.pin \in Pins
  BY <1>1, ReleasingHead DEF DriverInv
<1>3. Lawful(t, o) /\ o.u = local[t].u /\ local[t].fn \in {"begin", "setPins"}
  BY <1>1, HeadIsLawful, StartingHead DEF Kept, ForPins
<1>4. ~Unwinds(o) /\ o.op \notin {"collect", "lockSerial"}
  BY <1>1 DEF Unwinds, Setting
<1>5. Lost(t, o.u, o.role)
  <2>1. Want(t, o.role) # NoPin
    BY <1>1, <1>2, <1>3, Names DEF Lawful
  <2> QED BY <1>3, <2>1 DEF Lost, Mine
<1>6. old \in Pins \cup {NoPin}
  BY <1>1, <1>2 DEF Types, TypeOK
<1>7. d \in Heirs(t) /\ d.op = "detach" /\ AndKeep \in Heirs(t) /\ AndKeep.op = "and"
  BY <1>2, <1>4, <1>5, <1>6, OpFields, OtherHeirs, AndKeepIsSound, DetachIsHeir
<1> HIDE DEF d
<1>8. a \in Seq(Heirs(t)) /\ Len(a) = 2 /\ a[1].op = "detach" /\ a[2].op = "and"
  BY <1>7
<1>9. <<>> \in Seq(Heirs(t)) /\ Len(<<>>) = 0
  OBVIOUS
<1> HIDE DEF a
<1>10. /\ ops \in Seq(Heirs(t)) /\ Len(ops) \in {0, 2}
       /\ Len(ops) = 2 => ops[1].op = "detach" /\ ops[2].op = "and"
  BY <1>8, <1>9
<1>11. Calls(t, ops)
  BY DEF ReleaseOld, a, d
<1> HIDE DEF ops
<1>12. \A i, j \in 1 .. Len(ops) : i < j => Later(ops[i], ops[j])
  <2>1. Len(ops) = 2 => Later(ops[1], ops[2])
    BY <1>10 DEF Later, Starting, Ending, Attaching, Releasing
  <2> QED BY <1>10, <2>1
<1>13. SameCall(t) /\ local'[t].victims \subseteq local[t].victims
  BY <1>1 DEF SameCall
<1>14. Len(ops) > 0 => ops[1].op \notin {"setBus", "callback"}
  BY <1>10
<1> QED BY <1>1, <1>4, <1>10, <1>11, <1>12, <1>13, <1>14, CallKept

(* An operation of an attach, under another name.                           *)
LEMMA AttachingHeirs ==
  ASSUME DriverInv, NEW t \in Tasks, Kept(t), ~Idle(t), Now(t).op \in Attaching \cup {"move"},
         Now(t).pin \in Pins, NEW what \in {"attach", "connect", "note"}
  PROVE  [Now(t) EXCEPT !.op = what] \in Heirs(t) /\ [Now(t) EXCEPT !.op = what].op = what
<1> DEFINE o == Now(t)
           x == [o EXCEPT !.op = what]
<1>1. Types /\ o \in Operation /\ Lawful(t, o)
  BY HeadIsSound, HeadIsLawful DEF DriverInv, Inv, Kept
<1>2. o.u \in Uarts /\ o.role \in RoleSet
  BY <1>1 DEF Operation, Sound
<1>3. /\ x \in Ops /\ x.op = what /\ x.u = o.u /\ x.role = o.role /\ x.pin = o.pin
  BY <1>1 DEF Operation, Ops, OpNames, Attaching
<1> HIDE DEF x
<1>4. x \in Operation
  BY <1>2, <1>3 DEF Operation, Sound, Attaching, Setting, Saving, Starting, Plain
<1>5. Lawful(t, x)
  BY <1>1, <1>3 DEF Lawful, Ending, Beginning, ForPins, Attaching, Releasing, Starting
<1>6. o.op \in Attaching \/ local[t].fn = "begin"
  BY <1>1 DEF Lawful, Beginning, Starting
<1>7. ~Unwinds(o)
  BY DEF Unwinds, Setting, Attaching
<1>8. x \in Heirs(t)
  BY <1>3, <1>4, <1>5, <1>6, <1>7 DEF Heirs, Attaching, Releasing, Starting
<1> QED BY <1>3, <1>8 DEF x

LEMMA AttachIfKept ==
  ASSUME DriverInv, NEW t \in Tasks, Kept(t), AttachIf(t)
  PROVE  Kept(t)'
<1> DEFINE o == Now(t)
           x == [o EXCEPT !.op = "attach"]
           a == <<x, AndKeep>>
           ops == IF o.pin = NoPin THEN <<>> ELSE a
<1>1. /\ ~Idle(t) /\ o.op = "attachIf" /\ o.op \in Attaching /\ Calls(t, ops) /\ UNCHANGED <<uart, local>>
  BY DEF AttachIf, Does, Attaching, unchangedUarts
<1>2. o.pin \in Pins \cup {NoPin} /\ ~Unwinds(o) /\ o.op \notin {"collect", "lockSerial"}
  BY <1>1, AttachingHead DEF DriverInv, Unwinds, Setting
<1>3. AndKeep \in Heirs(t) /\ AndKeep.op = "and"
  BY <1>2, OtherHeirs, AndKeepIsSound
<1>4. o.pin # NoPin => x \in Heirs(t) /\ x.op = "attach"
  BY <1>1, <1>2, AttachingHeirs
<1> HIDE DEF x
<1>5. o.pin # NoPin => a \in Seq(Heirs(t)) /\ Len(a) = 2 /\ a[1].op = "attach" /\ a[2].op = "and"
  BY <1>3, <1>4
<1>6. <<>> \in Seq(Heirs(t)) /\ Len(<<>>) = 0
  OBVIOUS
<1> HIDE DEF a
<1>7. /\ ops \in Seq(Heirs(t)) /\ Len(ops) \in {0, 2}
      /\ Len(ops) = 2 => ops[1].op = "attach" /\ ops[2].op = "and"
  BY <1>5, <1>6
<1> HIDE DEF ops
<1>8. \A i, j \in 1 .. Len(ops) : i < j => Later(ops[i], ops[j])
  <2>1. Len(ops) = 2 => Later(ops[1], ops[2])
    BY <1>7 DEF Later, Starting, Ending, Attaching, Releasing
  <2> QED BY <1>7, <2>1
<1>9. SameCall(t) /\ local'[t].victims \subseteq local[t].victims
  BY <1>1 DEF SameCall
<1>10. Len(ops) > 0 => ops[1].op \notin {"setBus", "callback"}
  BY <1>7
<1> QED BY <1>1, <1>2, <1>7, <1>8, <1>9, <1>10, CallKept

(* The pin to attach was asked for; in setPins() its owner has given it up. *)
LEMMA AttachKept ==
  ASSUME DriverInv, NEW t \in Tasks, Kept(t), Attach(t)
  PROVE  Kept(t)'
<1> DEFINE o == Now(t)
           p == o.pin
           clear == ClearPin(p)
           x == [o EXCEPT !.op = "connect"]
           a == <<clear, x>>
           b == <<x>>
           ops == IF pins[p].type = "INIT" THEN b ELSE a
<1>1. /\ ~Idle(t) /\ o.op = "attach" /\ o.op \in Attaching /\ Types /\ Calls(t, ops)
      /\ UNCHANGED <<pins, uart>> /\ local' = [local EXCEPT ![t].result = TRUE] /\ local[t] \in Local
  BY LocalKeepsType DEF Attach, Does, Attaching, unchangedPeriMan, unchangedUarts, DriverInv, Inv
<1>2. p \in Pins /\ ~Unwinds(o) /\ o.op \notin {"collect", "lockSerial"}
  BY <1>1, AttachingHead DEF DriverInv, Unwinds, Setting
<1>3. Lawful(t, o) /\ local[t].fn \in {"begin", "setPins"}
  BY <1>1, HeadIsLawful, StartingHead DEF Kept, ForPins
<1>4. p \in Asked(t)
  <2>1. o.role \in RoleSet /\ p # NoPin
    BY <1>1, <1>2, AttachingHead, Names DEF DriverInv
  <2> QED BY <1>1, <1>3, <2>1 DEF Lawful, Want, Asked
<1>5. SameCall(t) /\ local'[t].victims = local[t].victims
  BY <1>1, LocalKeepsType DEF Local, SameCall
<1>6. clear \in Heirs(t) /\ clear.op = "setBus" /\ clear.pin = p /\ clear.role = "INIT"
  BY <1>2, OtherHeirs, ClearPinIsSound
<1>7. x \in Heirs(t) /\ x.op = "connect"
  BY <1>1, <1>2, AttachingHeirs
<1> HIDE DEF x, clear
<1>8. /\ a \in Seq(Heirs(t)) /\ Len(a) = 2 /\ a[1] = clear /\ a[2] = x
      /\ b \in Seq(Heirs(t)) /\ Len(b) = 1 /\ b[1] = x
  BY <1>6, <1>7
<1> HIDE DEF a, b
<1>9. /\ ops \in Seq(Heirs(t))
      /\ \/ Len(ops) = 2 /\ ops[1] = clear /\ ops[2] = x
         \/ Len(ops) = 1 /\ ops[1] = x
  BY <1>8
<1> HIDE DEF ops
<1>10. Turn(t, ops)
  BY <1>1, <1>9, CallsReplaces DEF Heirs
<1>11. \A i, j \in 1 .. Len(ops) : i < j => Later(ops[i], ops[j])
  <2>1. Later(clear, x)
    BY <1>6, <1>7 DEF Later, Starting, Ending, Attaching, Releasing
  <2> QED BY <1>9, <2>1
<1>12. ASSUME Assigned(p)
       PROVE  \/ uart[pins[p].bus][pins[p].type] = NoPin
              \/ p \in Asked(t) /\ local[t].fn \in {"begin", "claim"}
  <2>1. CASE local[t].fn = "begin"
    BY <1>4, <2>1
  <2>2. CASE local[t].fn = "setPins"
    <3>1. Has(t, Attaching \cup {"plan"})
      BY <1>1, HeadHas
    <3>2. Has(t, {"restore"})
      BY <2>2, <3>1 DEF Kept, Bracketed
    <3>3. Seizes(t, o)
      BY <1>1, <1>2, <3>2, Names DEF Seizes
    <3>4. uart[pins[p].bus][pins[p].type] # p
      BY <1>1, <1>12, <3>3, HeadIsVacated DEF Believed
    <3>5. OnItsWay(t, p)
      BY <1>2, <1>12, <3>4 DEF DriverInv, Inv, Good, Known
    <3>6. FALSE
      BY <1>1, <3>5 DEF OnItsWay
    <3> QED BY <3>6
  <2> QED BY <1>3, <2>1, <2>2
<1>13. Taken(t)'
  <2>1. CASE ops[1] = x
    <3>1. Len(ops) > 0 => ops[1].op \notin {"setBus", "callback"}
      BY <1>7, <2>1
    <3> QED BY <1>10, <3>1, TakenStays
  <2>2. CASE Len(ops) = 2 /\ ops[1] = clear
    <3>1. Len(ops) > 0 => Now(t)' = ops[1]
      BY <1>10, TopOfAgenda
    <3>2. Now(t)' = clear /\ ~Does(t, "callback")'
      BY <1>6, <2>2, <3>1 DEF Does
    <3>3. Now(t)'.pin = p
      BY <1>6, <3>2
    <3>4. Asked(t)' = Asked(t) /\ local'[t].fn = local[t].fn
      BY <1>5 DEF SameCall, Asked
    <3>5. pins'[Now(t)'.pin].type \in RoleSet =>
            \/ uart'[pins'[Now(t)'.pin].bus][pins'[Now(t)'.pin].type] = NoPin
            \/ Now(t)'.pin \in Asked(t)' /\ local'[t].fn \in {"begin", "claim"}
      BY <1>1, <1>12, <3>3, <3>4 DEF Assigned
    <3> QED BY <3>2, <3>5 DEF Taken, Assigned
  <2> QED BY <1>9, <2>1, <2>2
<1>14. /\ \A v \in Uarts, r \in {"RX", "TX"} : uart'[v][r] = uart[v][r] \/ Lost(t, v, r)
       /\ local'[t].victims \subseteq local[t].victims \cup
            (IF Has(t, {"collect"}) THEN Uarts \ {local[t].u} ELSE {})
  BY <1>1, <1>5
<1> QED BY <1>2, <1>5, <1>9, <1>10, <1>11, <1>13, <1>14, KeptStays

LEMMA ConnectKept ==
  ASSUME DriverInv, NEW t \in Tasks, Kept(t), Connect(t)
  PROVE  Kept(t)'
<1> DEFINE o == Now(t)
           set == SetPin(o.pin, o.role, o.u)
           x == [o EXCEPT !.op = "note"]
           ops == <<set, x>>
<1>1. /\ ~Idle(t) /\ o.op = "connect" /\ o.op \in Attaching /\ Types /\ UNCHANGED <<pins, uart>>
      /\ local[t] \in Local
  BY LocalKeepsType DEF Connect, Does, Attaching, unchangedPeriMan, unchangedUarts, DriverInv, Inv
<1>2. o.pin \in Pins /\ o.u \in Uarts /\ o.role \in RoleSet /\ ~Unwinds(o) /\ o.op \notin {"collect", "lockSerial"}
  BY <1>1, AttachingHead DEF DriverInv, Unwinds, Setting
<1>3. CASE Return(t, FALSE)
  <2>1. Turn(t, <<>>) /\ local'[t] = [local[t] EXCEPT !.result = FALSE]
    BY <1>1, <1>3, ReturnTurn
  <2>2. SameCall(t) /\ local'[t].victims = local[t].victims
    BY <1>1, <2>1 DEF Local, SameCall
  <2> QED BY <1>1, <1>2, <2>1, <2>2, DoneKept
<1>4. CASE local[t].result /\ Calls(t, ops) /\ UNCHANGED local
  <2>1. /\ set \in Operation /\ set.op = "setBus" /\ set.pin = o.pin /\ set.role = o.role
    BY <1>2, Names DEF SetPin, Op, Operation, Ops, OpNames, Sound, Attaching, Releasing, Saving, Starting, Setting, Plain
  <2> HIDE DEF set
  <2>2. set \in Heirs(t)
    <3>1. Lawful(t, set)
      BY <2>1 DEF Lawful, Ending, Beginning, ForPins, Attaching, Releasing, Starting
    <3> QED BY <1>2, <2>1, <3>1 DEF Heirs, Attaching, Releasing, Starting
  <2>3. x \in Heirs(t) /\ x.op = "note"
    BY <1>1, <1>2, AttachingHeirs
  <2> HIDE DEF x
  <2>4. ops \in Seq(Heirs(t)) /\ Len(ops) = 2 /\ ops[1] = set /\ ops[2] = x
    BY <2>2, <2>3
  <2> HIDE DEF ops
  <2>5. Turn(t, ops)
    BY <1>1, <1>4, <2>4, CallsReplaces DEF Heirs
  <2>6. \A i, j \in 1 .. Len(ops) : i < j => Later(ops[i], ops[j])
    <3>1. Later(set, x)
      BY <2>1, <2>3 DEF Later, Starting, Ending, Attaching, Releasing
    <3> QED BY <2>4, <3>1
  <2>7. Taken(t)'
    <3>1. Len(ops) > 0 => Now(t)' = ops[1]
      BY <2>5, TopOfAgenda
    <3>2. Now(t)' = set /\ ~Does(t, "callback")' /\ Now(t)'.pin = o.pin
      BY <2>1, <2>4, <3>1 DEF Does
    <3>3. pins[o.pin] = Unassigned
      BY <1>1, <1>4 DEF DriverInv, Inv, Good, Ready
    <3>4. pins'[Now(t)'.pin].type \notin RoleSet
      BY <1>1, <3>2, <3>3, Names DEF Unassigned
    <3> QED BY <3>2, <3>4 DEF Taken, Assigned
  <2>8. /\ SameCall(t)
        /\ \A v \in Uarts, r \in {"RX", "TX"} : uart'[v][r] = uart[v][r] \/ Lost(t, v, r)
        /\ local'[t].victims \subseteq local[t].victims \cup
            (IF Has(t, {"collect"}) THEN Uarts \ {local[t].u} ELSE {})
    BY <1>1, <1>4 DEF SameCall
  <2> QED BY <1>2, <2>4, <2>5, <2>6, <2>7, <2>8, KeptStays
<1> QED BY <1>3, <1>4 DEF Connect

(* Only the call's own UART is given pins, and those that were asked for.   *)
LEMMA NoteKept ==
  ASSUME DriverInv, NEW t \in Tasks, Kept(t), NoteAttached(t)
  PROVE  Kept(t)'
<1> DEFINE o == Now(t)
<1>1. /\ ~Idle(t) /\ o.op = "note" /\ o.op \in Attaching /\ Types /\ Done(t) /\ UNCHANGED local
  BY DEF NoteAttached, Does, Attaching, DriverInv, Inv
<1>2. o.pin \in Pins /\ o.u \in Uarts /\ o.role \in RoleSet
  BY <1>1, AttachingHead DEF DriverInv
<1>3. Lawful(t, o) /\ local[t].fn \in {"begin", "setPins"} /\ o.u = local[t].u
  BY <1>1, HeadIsLawful, StartingHead DEF Kept, ForPins
<1>4. Lost(t, o.u, o.role)
  <2>1. Want(t, o.role) # NoPin
    BY <1>1, <1>2, <1>3, Names DEF Lawful
  <2> QED BY <1>3, <2>1 DEF Lost, Mine
<1>5. uart' = [uart EXCEPT ![o.u][o.role] = o.pin] \/ UNCHANGED uart
  BY DEF NoteAttached
<1>6. \A v \in Uarts, r \in {"RX", "TX"} : uart'[v][r] = uart[v][r] \/ Lost(t, v, r)
  <2>1. uart \in [Uarts -> [RoleSet -> Pins \cup {NoPin}]]
    BY <1>1 DEF Types, TypeOK
  <2>2. CASE UNCHANGED uart
    BY <2>2
  <2>3. CASE uart' = [uart EXCEPT ![o.u][o.role] = o.pin]
    <3>1. \A v \in Uarts, r \in RoleSet :
            uart'[v][r] = IF v = o.u /\ r = o.role THEN o.pin ELSE uart[v][r]
      BY <1>2, <2>1, <2>3
    <3> QED BY <1>4, <3>1, Names
  <2> QED BY <1>5, <2>2, <2>3
<1>7. Turn(t, <<>>) /\ <<>> \in Seq(Heirs(t)) /\ Len(<<>>) = 0
  BY <1>1, DoneTurn
<1>8. Taken(t)'
  BY <1>7, TakenStays
<1>9. \A i, j \in 1 .. Len(<<>>) : i < j => Later(<<>>[i], <<>>[j])
  BY <1>7
<1>10. /\ SameCall(t) /\ Now(t).op # "collect" /\ Now(t).op # "lockSerial"
       /\ local'[t].victims \subseteq local[t].victims \cup
            (IF Has(t, {"collect"}) THEN Uarts \ {local[t].u} ELSE {})
  BY <1>1 DEF SameCall
<1> QED BY <1>6, <1>7, <1>8, <1>9, <1>10, KeptStays

(* begin() on a driver that is kept moves one pin of it.                    *)
LEMMA MoveKept ==
  ASSUME DriverInv, NEW t \in Tasks, Kept(t), Move(t)
  PROVE  Kept(t)'
<1> DEFINE o == Now(t)
           old == uart[o.u][o.role]
           d == Op("detach", o.u, o.role, old)
           x == [o EXCEPT !.op = "attach"]
           a == <<d, AndKeep, x, AndKeep>>
           moves == local[t].ok /\ o.pin > 0 /\ old # o.pin
           ops == IF moves THEN a ELSE <<>>
<1>1. /\ ~Idle(t) /\ o.op = "move" /\ o.op \in Starting /\ o.op \in Beginning /\ Types
      /\ UNCHANGED <<uart, local>> /\ Calls(t, ops)
  BY DEF Move, Does, Starting, Beginning, unchangedUarts, DriverInv, Inv
<1>2. o \in Operation /\ o.u \in Uarts /\ o.role \in RoleSet /\ o.pin \in Pins \cup {NoPin}
  BY <1>1, HeadIsSound DEF Operation, Ops, Sound
<1>3. Lawful(t, o) /\ o.u = local[t].u /\ local[t].fn = "begin"
  BY <1>1, HeadIsLawful, StartingHead DEF Kept
<1>4. ~Unwinds(o) /\ o.op \notin {"collect", "lockSerial"}
  BY <1>1 DEF Unwinds, Setting
<1>5. Lost(t, o.u, o.role)
  BY <1>3 DEF Lost, Mine
<1>6. old \in Pins \cup {NoPin}
  BY <1>1, <1>2 DEF Types, TypeOK
<1>7. d \in Heirs(t) /\ d.op = "detach" /\ AndKeep \in Heirs(t) /\ AndKeep.op = "and"
  BY <1>2, <1>4, <1>5, <1>6, OpFields, OtherHeirs, AndKeepIsSound, DetachIsHeir
<1>8. moves => x \in Heirs(t) /\ x.op = "attach"
  <2>1. moves => o.pin \in Pins
    BY <1>2 DEF NoPin
  <2> QED BY <1>1, <2>1, AttachingHeirs
<1> HIDE DEF d, x
<1>9. moves => /\ a \in Seq(Heirs(t)) /\ Len(a) = 4 /\ a[1].op = "detach" /\ a[2].op = "and"
               /\ a[3].op = "attach" /\ a[4].op = "and"
  BY <1>7, <1>8
<1>10. <<>> \in Seq(Heirs(t)) /\ Len(<<>>) = 0
  OBVIOUS
<1> HIDE DEF a, moves
<1>11. /\ ops \in Seq(Heirs(t)) /\ Len(ops) \in {0, 4}
       /\ Len(ops) = 4 => /\ ops[1].op = "detach" /\ ops[2].op = "and"
                          /\ ops[3].op = "attach" /\ ops[4].op = "and"
  BY <1>9, <1>10
<1> HIDE DEF ops
<1>12. \A i, j \in 1 .. Len(ops) : i < j => Later(ops[i], ops[j])
  <2> SUFFICES ASSUME NEW i \in 1 .. Len(ops), NEW j \in 1 .. Len(ops), i < j PROVE Later(ops[i], ops[j])
    OBVIOUS
  <2>1. ops[j].op \in {"and", "attach"} /\ ops[i].op \in {"detach", "and", "attach"}
    BY <1>11
  <2> QED BY <2>1 DEF Later, Ending, Starting
<1>13. SameCall(t) /\ local'[t].victims \subseteq local[t].victims
  BY <1>1 DEF SameCall
<1>14. Len(ops) > 0 => ops[1].op \notin {"setBus", "callback"}
  BY <1>11
<1> QED BY <1>1, <1>4, <1>11, <1>12, <1>13, <1>14, CallKept

-----------------------------------------------------------------------------
(* setPins() plans, and sorts out whom to terminate.                        *)
LEMMA SetPinsKept ==
  ASSUME DriverInv, NEW t \in Tasks, Kept(t), SetPins(t)
  PROVE  Kept(t)'
<1> DEFINE o == Now(t)
           ops == SetPinsSteps(o.u)
           names == {"lock", "saveDeinits", "mute", "plan", "collect", "restore", "unlock", "terminate"}
<1>1. /\ ~Idle(t) /\ o.op = "setPins" /\ o.op \in ForPins /\ o.u \in Uarts /\ Types /\ UNCHANGED uart
      /\ local[t] \in Local
  BY HeadIsSound, LocalKeepsType DEF SetPins, Does, DriverInv, Inv, Starting, ForPins, unchangedUarts
<1>2. Calls(t, ops) /\ local' = [local EXCEPT ![t].ok = TRUE, ![t].victims = {}]
  BY DEF SetPins
<1>3. \A what \in names : /\ ForUart(what, o.u) \in Operation /\ ForUart(what, o.u).op = what
                          /\ ForUart(what, o.u).u = o.u
  BY <1>1, UartOps DEF Saving, Plain
<1>4. /\ ops \in Seq(Operation) /\ Len(ops) = 8
      /\ ops[1].op = "lock" /\ ops[2].op = "saveDeinits" /\ ops[3].op = "mute" /\ ops[4].op = "plan"
      /\ ops[5].op = "collect" /\ ops[6].op = "restore" /\ ops[7].op = "unlock"
      /\ ops[8].op = "terminate" /\ ops[4].u = o.u
  BY <1>3 DEF SetPinsSteps
<1> HIDE DEF ops
<1>5. Turn(t, ops)
  BY <1>1, <1>2, <1>4, CallsReplaces
<1>6. SameCall(t) /\ local'[t].victims = {}
  BY <1>1, <1>2, LocalKeepsType, ZenonT(60) DEF Local, SameCall
<1>7. local[t].fn \in {"begin", "setPins"} /\ o.u = local[t].u
  BY <1>1, StartingHead
<1>8. Aligned(t) /\ Justified(t) /\ Accounted(t) /\ Fresh(t) /\ Bracketed(t)
  BY DEF Kept
<1>9. /\ \A i \in 1 .. Len(ops) : ops[i].op \in names /\ (i # 4 => ops[i].op # "plan")
      /\ \A i \in 1 .. Len(ops) : ops[i].op \in {"collect", "restore", "terminate"} => i > 4
      /\ \A i \in 1 .. Len(ops) : /\ ops[i].op \in {"collect", "terminate"} => i >= 5
                                  /\ ops[i].op = "collect" => i = 5
  <2>1. \A i \in 1 .. Len(ops) : i \in {1, 2, 3, 4, 5, 6, 7, 8}
    BY <1>4
  <2> QED BY <1>4, <2>1
<1>10. Aligned(t)'
  <2>1. ASSUME NEW i \in 1 .. Len(ops), NEW j \in 1 .. Len(ops), i < j PROVE Later(ops[i], ops[j])
    <3>1. ops[j].op \notin Ending \cup {"detach"} \cup Attaching \cup Releasing /\ ops[i].op \notin Starting
      BY <1>9 DEF Ending, Attaching, Releasing, Starting
    <3>2. ops[i].op \in {"collect", "restore", "terminate"} => ops[j].op # "plan"
      BY <1>4, <1>9, <2>1
    <3>3. ops[i].op \in {"collect", "terminate"} => ops[j].op # "collect"
      BY <1>4, <1>9, <2>1
    <3>4. ops[i].op \notin {"begin", "testBegin"}
      BY <1>9
    <3> QED BY <3>1, <3>2, <3>3, <3>4 DEF Later
  <2>2. ASSUME NEW i \in 1 .. Len(ops), NEW y, Later(o, y) PROVE Later(ops[i], y)
    <3>1. y.op \notin Ending \cup {"detach"} \cup Attaching \cup Releasing \cup {"plan", "collect"}
      BY <1>1, <2>2 DEF Later, Unwinds, Setting, Starting
    <3>2. ops[i].op \notin {"begin", "testBegin"}
      BY <1>9
    <3> QED BY <3>1, <3>2 DEF Later
  <2> QED BY <1>5, <1>8, <2>1, <2>2, AlignedStays
<1>11. Justified(t)'
  <2>1. \A x : Lawful(t, x)' <=> Lawful(t, x)
    BY <1>6, SameCallSame
  <2>2. ASSUME NEW i \in 1 .. Len(ops), NEW x, x = ops[i] PROVE Lawful(t, x)
    <3>1. x.op \in names /\ (x.op = "plan" => x.u = o.u)
      BY <1>4, <1>9, <2>2
    <3> QED BY <1>7, <3>1 DEF Lawful, Ending, Beginning, ForPins, Attaching, Releasing, Starting
  <2> QED BY <1>5, <1>8, <2>1, <2>2, JustifiedStays
<1>12. Accounted(t)'
  <2>1. \A v, r : Lost(t, v, r)' <=> Lost(t, v, r)
    BY <1>6, SameCallSame
  <2>2. ASSUME NEW v \in Uarts, NEW r \in {"RX", "TX"}
        PROVE  Lost(t, v, r)' \/ uart'[v][r] = local'[t].had[v][r]
    BY <1>1, <1>6, <1>8, <2>1 DEF Accounted, SameCall
  <2> QED BY <2>2 DEF Accounted, Lost, Mine, Want, Asked
<1>13. Doomed(t)'
  BY <1>6 DEF Doomed, Has
<1>14. Fresh(t)'
  <2>1. \A i \in 1 .. Len(ops) : ops[i].op \notin {"begin", "testBegin"}
    BY <1>9
  <2> QED BY <1>1, <1>5, <1>8, <2>1, FreshStays
<1>15. Bracketed(t)'
  <2>1. 5 \in 1 .. Len(ops) /\ 6 \in 1 .. Len(ops)
    BY <1>4
  <2>2. /\ \E k \in 1 .. Len(ops) : ops[k].op = "restore"
        /\ \E k \in 1 .. Len(ops) : ops[k].op = "collect"
    BY <1>4, <2>1
  <2>3. local'[t].fn = local[t].fn
    BY <1>6 DEF SameCall
  <2> QED BY <1>5, <1>8, <2>2, <2>3, BracketedStays
<1>16. Taken(t)'
  <2>1. Len(ops) > 0 => ops[1].op \notin {"setBus", "callback"}
    BY <1>4
  <2> QED BY <1>5, <2>1, TakenStays
<1> QED BY <1>10, <1>11, <1>12, <1>13, <1>14, <1>15, <1>16
        DEF Kept, Aligned, Justified, Accounted, Doomed, Fresh, Bracketed, Taken

LEMMA PlanKept ==
  ASSUME DriverInv, NEW t \in Tasks, Kept(t), Plan(t)
  PROVE  Kept(t)'
<1> DEFINE o == Now(t)
           n == Len(Roles)
           A == {r \in RoleSet : Want(t, r) # NoPin /\ ~AlreadyAssigned(Want(t, r), r, o.u)}
<1>1. Types /\ ~Idle(t) /\ local[t] \in Local
  BY LocalKeepsType DEF DriverInv, Inv, Plan, Does
<1>2. PICK ops :
    /\ Turn(t, ops) /\ o.op = "plan" /\ UNCHANGED uart
    /\ Len(ops) = n + n
    /\ \A i \in 1 .. n : /\ ops[i].op = "release" /\ ops[i].u = o.u
                         /\ ops[i].role = Roles[i] /\ ops[i].pin = Want(t, Roles[i])
    /\ \A i \in 1 .. Len(ops) :
         \/ i \in 1 .. n
         \/ LET k == i - n
            IN /\ ops[i].op = "attachIf" /\ ops[i].u = o.u /\ ops[i].role = Roles[k]
               /\ ops[i].pin = NoPin \/ (ops[i].pin = Want(t, Roles[k]) /\ Roles[k] \in local'[t].attach)
  BY <1>1, PlanTurn
<1>3. \A i \in 1 .. Len(ops) : /\ ops[i].op \in {"release", "attachIf"} /\ ops[i].u = o.u
                               /\ ops[i].pin \in {Want(t, ops[i].role), NoPin}
  BY <1>2
<1> HIDE DEF n
<1>4. /\ local'[t].fn = local[t].fn /\ local'[t].u = local[t].u /\ local'[t].want = local[t].want
      /\ local'[t].victims = local[t].victims /\ local'[t].had = uart
  <2>1. local' = [local EXCEPT ![t].had = uart, ![t].attach = A]
    BY DEF Plan
  <2> HIDE DEF A
  <2> QED BY <1>1, <2>1, LocalKeepsType, ZenonT(60) DEF Local
<1>5. local[t].fn \in {"begin", "setPins"} /\ o.u = local[t].u
  BY <1>1, <1>2, StartingHead DEF ForPins
<1>6. Aligned(t) /\ Justified(t) /\ Doomed(t) /\ Fresh(t) /\ Bracketed(t)
  BY DEF Kept
<1>7. ~Unwinds(o)
  BY <1>2 DEF Unwinds, Setting
<1>8. Aligned(t)'
  <2>1. ASSUME NEW i \in 1 .. Len(ops), NEW j \in 1 .. Len(ops) PROVE Later(ops[i], ops[j])
    BY <1>3 DEF Later, Ending, Starting
  <2>2. ASSUME NEW i \in 1 .. Len(ops), NEW y, Later(o, y) PROVE Later(ops[i], y)
    BY <1>3, <1>7, <2>2 DEF Later, Starting
  <2> QED BY <1>2, <1>6, <2>1, <2>2, AlignedStays
<1>9. Justified(t)'
  <2>1. \A r : Want(t, r)' = Want(t, r)
    BY <1>4 DEF Want
  <2>2. ASSUME NEW i \in 1 .. Len(ops), NEW x, x = ops[i] PROVE Lawful(t, x)'
    <3>1. x.op \in {"release", "attachIf"} /\ x.u = local'[t].u /\ x.pin \in {Want(t, x.role)', NoPin}
      BY <1>3, <1>4, <1>5, <2>1, <2>2
    <3>2. local'[t].fn \in {"begin", "setPins"}
      BY <1>4, <1>5
    <3> QED BY <3>1, <3>2 DEF Lawful, Ending, Beginning, ForPins, Attaching, Releasing, Starting
  <2>3. ASSUME NEW k \in 2 .. Len(agenda[t]), NEW x, x = agenda[t][k], Lawful(t, x) PROVE Lawful(t, x)'
    <3>1. x.op \notin Ending \cup {"detach"}
      BY <1>2, <1>6, <1>7, <2>3, Behind DEF Later
    <3>2. Want(t, x.role)' = Want(t, x.role)
      BY <2>1
    <3> QED BY <1>4, <2>3, <3>1, <3>2 DEF Lawful
  <2> QED BY <1>2, <1>6, <2>2, <2>3, JustifiedStays
<1>10. Accounted(t)'
  <2>1. \A v \in Uarts, r \in {"RX", "TX"} : uart'[v][r] = local'[t].had[v][r]
    BY <1>2, <1>4
  <2> QED BY <2>1 DEF Accounted
<1>11. Doomed(t)'
  <2>1. Has(t, Releasing \cup {"plan"})
    BY <1>1, <1>2, HeadHas
  <2>2. Has(t, {"collect"})
    BY <1>6, <2>1 DEF Bracketed
  <2>3. Has(t, {"collect"})' /\ local[t].u \notin local[t].victims
    BY <1>2, <1>6, <2>2, HasStays DEF Doomed
  <2> QED BY <1>4, <2>3 DEF Doomed, Has
<1>12. Fresh(t)'
  <2>1. \A i \in 1 .. Len(ops) : ops[i].op \notin {"begin", "testBegin"}
    BY <1>3
  <2> QED BY <1>2, <1>6, <2>1, FreshStays
<1>13. Bracketed(t)'
  BY <1>2, <1>4, <1>6, BracketedStays
<1>14. Taken(t)'
  <2>1. Len(ops) > 0 => 1 \in 1 .. Len(ops)
    BY <1>2 DEF Turn
  <2>2. Len(ops) > 0 => ops[1].op \notin {"setBus", "callback"}
    BY <1>3, <2>1
  <2> QED BY <1>2, <2>2, TakenStays
<1> QED BY <1>8, <1>9, <1>10, <1>11, <1>12, <1>13, <1>14
        DEF Kept, Aligned, Justified, Accounted, Doomed, Fresh, Bracketed, Taken

(* Whom setPins() ends after all: those that lost both pins to it, or its   *)
(* own UART, asked for without pins.                                        *)
LEMMA CollectKept ==
  ASSUME DriverInv, NEW t \in Tasks, Kept(t), Collect(t)
  PROVE  Kept(t)'
<1> DEFINE u == Now(t).u
           gaveUpBoth == /\ local[t].had[u]["RX"] # NoPin \/ local[t].had[u]["TX"] # NoPin
                         /\ Want(t, "RX") = NoPin /\ Want(t, "TX") = NoPin
                         /\ LostBoth(u)
           W == Stranded(local[t].victims) \cup (IF gaveUpBoth THEN {u} ELSE {})
<1>1. /\ ~Idle(t) /\ Now(t).op = "collect" /\ u \in Uarts /\ Types /\ local[t] \in Local
      /\ local' = [local EXCEPT ![t].victims = W] /\ Done(t) /\ UNCHANGED uart
  BY HeadIsSound, LocalKeepsType DEF Collect, Does, DriverInv, Inv, Plain, unchangedUarts
<1>2. Turn(t, <<>>) /\ Len(<<>>) = 0
  BY <1>1, DoneTurn
<1>3. SameCall(t) /\ local'[t].victims = W
  <2> HIDE DEF W
  <2> QED BY <1>1, LocalKeepsType, ZenonT(60) DEF Local, SameCall
<1>4. /\ Aligned(t) /\ Justified(t) /\ Accounted(t) /\ Doomed(t) /\ Fresh(t) /\ Bracketed(t)
  BY DEF Kept
<1>5. Aligned(t)'
  BY <1>2, <1>4, AlignedStays
<1>6. Justified(t)'
  <2>1. \A x : Lawful(t, x)' <=> Lawful(t, x)
    BY <1>3, SameCallSame
  <2> QED BY <1>2, <1>4, <2>1, JustifiedStays
<1>7. Accounted(t)'
  <2>1. \A v, r : Lost(t, v, r)' <=> Lost(t, v, r)
    BY <1>3, SameCallSame
  <2>2. ASSUME NEW v \in Uarts, NEW r \in {"RX", "TX"}
        PROVE  Lost(t, v, r)' \/ uart'[v][r] = local'[t].had[v][r]
    BY <1>1, <1>3, <1>4, <2>1 DEF Accounted, SameCall
  <2> QED BY <2>2 DEF Accounted, Lost, Mine, Want, Asked
<1>8. Doomed(t)'
  <2>1. ~Has(t, {"collect"})'
    <3> SUFFICES ASSUME Has(t, {"collect"})' PROVE FALSE
      OBVIOUS
    <3>1. PICK k \in 2 .. Len(agenda[t]) : agenda[t][k].op \in {"collect"}
      BY <1>2, HasBefore
    <3>2. Later(Now(t), agenda[t][k])
      BY <1>2, <1>4, Behind
    <3> QED BY <1>1, <3>1, <3>2 DEF Later
  <2>2. local[t].u \notin local[t].victims
    BY <1>1, <1>4, HeadHas DEF Doomed
  <2>3. ASSUME NEW v \in W PROVE MayEnd(t, v)
    <3>1. v \in Uarts /\ LostBoth(v)
      BY <1>1, <2>3 DEF Stranded, Local
    <3>2. v # local[t].u \/ (Want(t, "RX") = NoPin /\ Want(t, "TX") = NoPin)
      BY <2>2, <2>3 DEF Stranded
    <3> QED BY <1>4, <3>1, <3>2, LosersMayEnd DEF LostBoth
  <2>4. \A v : MayEnd(t, v)' <=> MayEnd(t, v)
    BY <1>3, SameCallSame
  <2>5. \A v \in local'[t].victims : MayEnd(t, v)'
    BY <1>3, <2>3, <2>4
  <2> QED BY <2>1, <2>5 DEF Doomed, Has, MayEnd, Asked
<1>9. Fresh(t)'
  BY <1>1, <1>2, <1>4, FreshStays
<1>10. Bracketed(t)'
  BY <1>2, <1>3, <1>4, BracketedStays DEF SameCall
<1>11. Taken(t)'
  BY <1>2, TakenStays
<1> QED BY <1>5, <1>6, <1>7, <1>8, <1>9, <1>10, <1>11
        DEF Kept, Aligned, Justified, Accounted, Doomed, Fresh, Bracketed, Taken

(* begin() decides what pins to ask for; nothing has happened by then.      *)
LEMMA DecidedKept ==
  ASSUME DriverInv, NEW t \in Tasks, Kept(t), NEW ops, Turn(t, ops), UNCHANGED uart,
         Now(t).op \in {"begin", "testBegin"},
         local'[t].fn = local[t].fn, local'[t].u = local[t].u, local'[t].had = local[t].had,
         local'[t].victims = local[t].victims,
         \A i \in 1 .. Len(ops) :
           /\ ops[i].op \in {"lockSerial", "testBegin", "unlockSerial", "uartBegin"}
           /\ ops[i].u = Now(t).u,
         \A i, j \in 1 .. Len(ops) : i < j => Later(ops[i], ops[j])
  PROVE  Kept(t)'
<1>1. /\ Types /\ ~Idle(t) /\ Now(t).op \in Beginning
      /\ Aligned(t) /\ Justified(t) /\ Doomed(t) /\ Fresh(t) /\ Bracketed(t)
  BY DEF DriverInv, Inv, Turn, Kept, Beginning, Starting
<1>2. local[t].fn = "begin" /\ Now(t).u = local[t].u
  BY <1>1, StartingHead
<1>3. local[t].had = uart /\ local[t].victims = {}
  BY <1>1, HeadHas DEF Fresh
<1>4. \A k \in 2 .. Len(agenda[t]) : agenda[t][k].op \in {"unlockSerial", "return"}
  BY <1>1, Behind DEF Later
<1>5. Aligned(t)'
  <2>1. ASSUME NEW i \in 1 .. Len(ops), NEW k \in 2 .. Len(agenda[t]) PROVE Later(ops[i], agenda[t][k])
    BY <1>4 DEF Later, Ending, Attaching, Releasing
  <2> QED BY <1>1, <2>1, AlignedStays
<1>6. Justified(t)'
  <2>1. ASSUME NEW i \in 1 .. Len(ops), NEW x, x = ops[i] PROVE Lawful(t, x)'
    <3>1. x.op \in {"lockSerial", "testBegin", "unlockSerial", "uartBegin"} /\ x.u = local'[t].u
          /\ local'[t].fn = "begin"
      BY <1>2, <2>1
    <3> QED BY <3>1 DEF Lawful, Ending, Beginning, ForPins, Attaching, Releasing, Starting
  <2>2. ASSUME NEW k \in 2 .. Len(agenda[t]), NEW x, x = agenda[t][k] PROVE Lawful(t, x)'
    <3>1. x.op \in {"unlockSerial", "return"}
      BY <1>4, <2>2
    <3> QED BY <3>1 DEF Lawful, Ending, Beginning, ForPins, Attaching, Releasing, Starting
  <2> QED BY <1>1, <2>1, <2>2, JustifiedStays
<1>7. Accounted(t)'
  <2>1. \A v \in Uarts, r \in {"RX", "TX"} : uart'[v][r] = local'[t].had[v][r]
    BY <1>3
  <2> QED BY <2>1 DEF Accounted
<1>8. Doomed(t)' /\ Fresh(t)'
  BY <1>3 DEF Doomed, Fresh, Has
<1>9. Bracketed(t)'
  <2>1. \A i \in 1 .. Len(ops) : ops[i].op \notin Attaching \cup Releasing \cup {"plan"}
    BY DEF Attaching, Releasing
  <2> QED BY <1>1, <2>1, BracketedStays
<1>10. Taken(t)'
  <2>1. Len(ops) > 0 => 1 \in 1 .. Len(ops)
    BY TopOfAgenda
  <2>2. Len(ops) > 0 => ops[1].op \notin {"setBus", "callback"}
    BY <2>1
  <2> QED BY <2>2, TakenStays
<1> QED BY <1>5, <1>6, <1>7, <1>8, <1>9, <1>10
        DEF Kept, Aligned, Justified, Accounted, Doomed, Fresh, Bracketed, Taken

LEMMA BeginKept ==
  ASSUME DriverInv, NEW t \in Tasks, Kept(t), Begin(t)
  PROVE  Kept(t)'
<1> DEFINE u == Now(t).u
           ops == <<ForUart("lockSerial", u), ForUart("testBegin", u), ForUart("unlockSerial", u)>>
<1>1. /\ ~Idle(t) /\ Now(t).op = "begin" /\ u \in Uarts /\ Types /\ Calls(t, ops) /\ UNCHANGED uart
      /\ local[t] \in Local
  BY HeadIsSound, LocalKeepsType DEF Begin, Does, DriverInv, Inv, Starting, unchangedUarts
<1>2. PICK w : local' = [local EXCEPT ![t].want = w]
  BY DEF Begin
<1>3. /\ local'[t].fn = local[t].fn /\ local'[t].u = local[t].u /\ local'[t].had = local[t].had
      /\ local'[t].victims = local[t].victims
  BY <1>1, <1>2, LocalKeepsType, ZenonT(60) DEF Local
<1>4. \A what \in {"lockSerial", "testBegin", "unlockSerial"} :
        /\ ForUart(what, u) \in Operation /\ ForUart(what, u).op = what /\ ForUart(what, u).u = u
  BY <1>1, UartOps DEF Starting, Plain
<1>5. /\ ops \in Seq(Operation) /\ Len(ops) = 3
      /\ ops[1].op = "lockSerial" /\ ops[2].op = "testBegin" /\ ops[3].op = "unlockSerial"
      /\ ops[1].u = u /\ ops[2].u = u /\ ops[3].u = u
  BY <1>4
<1> HIDE DEF ops
<1>6. Turn(t, ops)
  BY <1>1, <1>5, CallsReplaces
<1>7. \A i \in 1 .. Len(ops) :
        ops[i].op \in {"lockSerial", "testBegin", "unlockSerial", "uartBegin"} /\ ops[i].u = Now(t).u
  <2>1. \A i \in 1 .. Len(ops) : i \in {1, 2, 3}
    BY <1>5
  <2> QED BY <1>5, <2>1
<1>8. ASSUME NEW i \in 1 .. Len(ops), NEW j \in 1 .. Len(ops), i < j PROVE Later(ops[i], ops[j])
  <2>1. ops[i].op = "testBegin" => i = 2
    BY <1>5
  <2>2. ops[i].op # "begin" /\ (ops[i].op = "testBegin" => ops[j].op = "unlockSerial")
    BY <1>5, <1>7, <1>8, <2>1
  <2> QED BY <1>7, <2>2 DEF Later, Ending, Attaching, Releasing
<1> QED BY <1>1, <1>3, <1>6, <1>7, <1>8, DecidedKept

LEMMA TestBeginKept ==
  ASSUME DriverInv, NEW t \in Tasks, Kept(t), TestBegin(t)
  PROVE  Kept(t)'
<1> DEFINE u == Now(t).u
           a == <<ForUart("uartBegin", u)>>
<1>1. /\ ~Idle(t) /\ Now(t).op = "testBegin" /\ u \in Uarts /\ Types /\ UNCHANGED uart
      /\ local[t] \in Local
  BY HeadIsSound, LocalKeepsType DEF TestBegin, Does, DriverInv, Inv, Starting, unchangedUarts
<1>2. PICK w : local' = [local EXCEPT ![t].want = w, ![t].ok = TRUE]
  BY DEF TestBegin
<1>3. /\ local'[t].fn = local[t].fn /\ local'[t].u = local[t].u /\ local'[t].had = local[t].had
      /\ local'[t].victims = local[t].victims
  BY <1>1, <1>2, LocalKeepsType, ZenonT(60) DEF Local
<1>4. Calls(t, <<>>) \/ Calls(t, a)
  BY DEF TestBegin
<1>5. /\ a \in Seq(Operation) /\ Len(a) = 1 /\ a[1].op = "uartBegin" /\ a[1].u = u
      /\ <<>> \in Seq(Operation) /\ Len(<<>>) = 0
  BY <1>1, UartOps DEF Starting
<1> HIDE DEF a
<1>6. PICK ops : (ops = <<>> \/ ops = a) /\ Calls(t, ops)
  BY <1>4
<1>7. ops \in Seq(Operation) /\ (Len(ops) = 0 \/ (Len(ops) = 1 /\ ops[1].op = "uartBegin" /\ ops[1].u = u))
  <2>1. CASE ops = <<>>
    BY <1>5, <2>1
  <2>2. CASE ops = a
    BY <1>5, <2>2
  <2> QED BY <1>6, <2>1, <2>2
<1>8. Turn(t, ops)
  BY <1>1, <1>6, <1>7, CallsReplaces
<1>9. /\ \A i \in 1 .. Len(ops) :
           ops[i].op \in {"lockSerial", "testBegin", "unlockSerial", "uartBegin"} /\ ops[i].u = Now(t).u
      /\ \A i, j \in 1 .. Len(ops) : ~(i < j)
  <2>1. CASE Len(ops) = 0
    BY <2>1
  <2>2. CASE Len(ops) = 1 /\ ops[1].op = "uartBegin" /\ ops[1].u = u
    <3>1. \A i \in 1 .. Len(ops) : i = 1
      BY <2>2
    <3> QED BY <2>2, <3>1
  <2> QED BY <1>7, <2>1, <2>2
<1> QED BY <1>1, <1>3, <1>8, <1>9, DecidedKept

-----------------------------------------------------------------------------
(* Calls return, and are requested.                                         *)
LEMMA ReturnsKept ==
  ASSUME DriverInv, NEW t \in Tasks, Returns(t)
  PROVE  Kept(t)'
<1>1. ~Idle(t) /\ Now(t).op = "return" /\ Done(t) /\ local' = [local EXCEPT ![t] = NoCall]
  BY DEF Returns, Does
<1>2. agenda'[t] = <<>>
  BY NothingAfterReturn
<1>3. local'[t] = NoCall
  BY <1>1 DEF DriverInv, Inv, Types
<1>4. local'[t].had = Detached /\ local'[t].victims = {}
  BY <1>3 DEF NoCall
<1>5. Accounted(t)'
  <2>1. ASSUME NEW v \in Uarts, NEW r \in {"RX", "TX"} PROVE Lost(t, v, r)'
    <3>1. local'[t].had[v][r] = NoPin
      BY <1>4, Names DEF Detached
    <3> QED BY <3>1 DEF Lost
  <2> QED BY <2>1 DEF Accounted, Lost, Mine, Want, Asked
<1> QED BY <1>2, <1>4, <1>5
        DEF Kept, Aligned, Justified, Accounted, Doomed, Fresh, Bracketed, Taken, Has, Does, Idle

LEMMA RequestIsKept ==
  ASSUME DriverInv, NEW t \in Tasks, NEW fn, NEW u, NEW want, NEW op, Request(t, fn, u, want, op),
         op.op \in {"begin", "setPins", "end"} => op.op = fn /\ op.u = u,
         op.op = "setBus" => fn = "claim" /\ op.pin \in {want[r] : r \in RoleSet},
         op.op \in {"begin", "setPins", "end", "setBus"}
  PROVE  Kept(t)'
<1> DEFINE back == ForUart("return", u)
           q == <<op, back>>
<1>1. /\ agenda' = [agenda EXCEPT ![t] = q] /\ UNCHANGED uart
      /\ local' = [local EXCEPT ![t] = [NoCall EXCEPT !.fn = fn, !.u = u, !.want = want, !.had = uart]]
      /\ agenda \in [Tasks -> Seq(Operation)] /\ local \in [Tasks -> Local]
  BY DEF Request, unchangedUarts, DriverInv, Inv, Types
<1>2. back.op = "return"
  BY OpFields DEF ForUart
<1> HIDE DEF back
<1>3. /\ agenda'[t] = q /\ local'[t].fn = fn /\ local'[t].u = u /\ local'[t].want = want
      /\ local'[t].had = uart /\ local'[t].victims = {}
  BY <1>1 DEF NoCall
<1>4. Len(q) = 2 /\ q[1] = op /\ q[2] = back /\ q # <<>>
  OBVIOUS
<1> HIDE DEF q
<1>5. \A i \in 1 .. Len(q) : i \in {1, 2}
  BY <1>4
<1>6. Aligned(t)'
  <2>1. Later(op, back)
    BY <1>2 DEF Later, Ending, Attaching, Releasing
  <2>2. \A i, j \in 1 .. Len(q) : i < j => Later(q[i], q[j])
    BY <1>4, <2>1
  <2> QED BY <1>3, <2>2 DEF Aligned, Later, Unwinds
<1>7. Justified(t)'
  <2>1. \A x : x = op => Lawful(t, x)'
    <3> SUFFICES ASSUME NEW x, x = op PROVE Lawful(t, x)'
      OBVIOUS
    <3>1. CASE x.op = "end"
      <4>1. MayEnd(t, x.u)'
        BY <1>3, <3>1 DEF MayEnd
      <4> QED BY <3>1, <4>1 DEF Lawful, Beginning, ForPins, Attaching, Releasing, Starting
    <3>2. CASE x.op \in {"begin", "setPins"}
      <4>1. local'[t].fn = x.op /\ local'[t].u = x.u
        BY <1>3, <3>2
      <4> QED BY <3>2, <4>1 DEF Lawful, Ending, Beginning, ForPins, Attaching, Releasing, Starting
    <3>3. CASE x.op = "setBus"
      BY <3>3 DEF Lawful, Ending, Beginning, ForPins, Attaching, Releasing, Starting
    <3> QED BY <3>1, <3>2, <3>3
  <2>2. \A x : x = back => Lawful(t, x)'
    BY <1>2 DEF Lawful, Ending, Beginning, ForPins, Attaching, Releasing, Starting
  <2>3. ASSUME NEW i \in 1 .. Len(agenda'[t]) PROVE Lawful(t, agenda[t][i])'
    <3>1. PICK x : x = agenda'[t][i]
      OBVIOUS
    <3>2. Lawful(t, x)'
      BY <1>3, <1>4, <1>5, <2>1, <2>2, <3>1
    <3> QED BY <3>1, <3>2 DEF Lawful, MayEnd, Lost, Mine, Want, Asked
  <2> QED BY <2>3 DEF Justified
<1>8. Accounted(t)'
  <2>1. \A v \in Uarts, r \in {"RX", "TX"} : uart'[v][r] = local'[t].had[v][r]
    BY <1>1, <1>3
  <2> QED BY <2>1 DEF Accounted
<1>9. Doomed(t)' /\ Fresh(t)'
  BY <1>1, <1>3 DEF Doomed, Fresh, Has
<1>10. Bracketed(t)'
  <2>1. ~Has(t, Attaching \cup {"plan"})' /\ ~Has(t, Releasing \cup {"plan"})'
    BY <1>2, <1>3, <1>4, <1>5 DEF Has, Attaching, Releasing
  <2> QED BY <2>1 DEF Bracketed, Has
<1>11. Taken(t)'
  <2>1. Now(t)' = op
    BY <1>3, <1>4 DEF Now
  <2>2. Now(t)'.op # "callback"
    BY <2>1
  <2>3. Does(t, "setBus")' => Now(t)'.pin \in Asked(t)' /\ local'[t].fn = "claim"
    BY <1>3, <2>1 DEF Does, Asked
  <2> QED BY <2>2, <2>3 DEF Taken, Does
<1> QED BY <1>6, <1>7, <1>8, <1>9, <1>10, <1>11
        DEF Kept, Aligned, Justified, Accounted, Doomed, Fresh, Bracketed, Taken

LEMMA RequestsAreKept ==
  ASSUME DriverInv, NEW t \in Tasks, RequestBegin(t) \/ RequestSetPins(t) \/ RequestEnd(t) \/ Claim(t)
  PROVE  Kept(t)'
<1>1. \A what, u : ForUart(what, u).op = what /\ ForUart(what, u).u = u
  BY OpFields DEF ForUart
<1>2. CASE RequestBegin(t)
  <2>1. PICK u, want : Request(t, "begin", u, want, ForUart("begin", u))
    BY <1>2 DEF RequestBegin
  <2> QED BY <1>1, <2>1, RequestIsKept
<1>3. CASE RequestSetPins(t)
  <2>1. PICK u, want : Request(t, "setPins", u, want, ForUart("setPins", u))
    BY <1>3 DEF RequestSetPins
  <2> QED BY <1>1, <2>1, RequestIsKept
<1>4. CASE RequestEnd(t)
  <2>1. PICK u, want : Request(t, "end", u, want, ForUart("end", u))
    BY <1>4 DEF RequestEnd
  <2> QED BY <1>1, <2>1, RequestIsKept
<1>5. CASE Claim(t)
  <2>1. PICK p \in Pins :
          Request(t, "claim", NULL, [NoCall.want EXCEPT !["RX"] = p], SetPin(p, "I2C", Foreign))
    BY <1>5 DEF Claim
  <2> DEFINE want == [NoCall.want EXCEPT !["RX"] = p]
             op == SetPin(p, "I2C", Foreign)
  <2>2. op.op = "setBus" /\ op.pin = p
    BY OpFields DEF SetPin
  <2>3. want["RX"] = p /\ "RX" \in RoleSet
    BY Names DEF NoCall
  <2> HIDE DEF want, op
  <2>4. p \in {want[r] : r \in RoleSet}
    BY <2>3
  <2>5. Request(t, "claim", NULL, want, op)
    BY <2>1 DEF want, op
  <2> QED BY <2>2, <2>4, <2>5, RequestIsKept
<1> QED BY <1>2, <1>3, <1>4, <1>5

-----------------------------------------------------------------------------
LEMMA AllBegunKeeps == ASSUME DefaultsApart PROVE AllBegun => KeptInv
<1> SUFFICES ASSUME AllBegun PROVE KeptInv
  OBVIOUS
<1>1. DriverInv
  BY AllBegunOwns
<1>2. ASSUME NEW t \in Tasks PROVE Kept(t)
  <2>1. agenda[t] = <<>> /\ local[t].had = Detached /\ local[t].victims = {}
    BY DEF AllBegun, NoCall
  <2>2. Accounted(t)
    <3>1. \A v \in Uarts, r \in {"RX", "TX"} : local[t].had[v][r] = NoPin
      BY <2>1, Names DEF Detached
    <3> QED BY <3>1 DEF Accounted, Lost
  <2> QED BY <2>1, <2>2
          DEF Kept, Aligned, Justified, Doomed, Fresh, Bracketed, Taken, Has, Does, Idle
<1> QED BY <1>1, <1>2 DEF KeptInv

LEMMA StepIsKept ==
  ASSUME OneTask, DefaultsApart, KeptInv, [Next]_vars
  PROVE  KeptInv'
<1>1. DriverInv /\ DriverInv' /\ \A t \in Tasks : Kept(t)
  BY StepOwns DEF KeptInv
<1>2. ASSUME NEW t \in Tasks, Step(t) PROVE Kept(t)'
  BY <1>1, <1>2, QuietKept, SetBusKept, CallbackKept, DetachKept, AttachKept, ConnectKept, NoteKept, EndKept,
     DetachAllKept, SetPinsKept, PlanKept, AttachIfKept, ReleaseKept, ReleaseOldKept, CollectKept,
     TerminateKept, BeginKept, TestBeginKept, MoveKept, BeginningKept, ReturnsKept DEF Step
<1>3. CASE Next
  <2>1. PICK t \in Tasks : Step(t) \/ RequestBegin(t) \/ RequestSetPins(t) \/ RequestEnd(t) \/ Claim(t)
    BY <1>3 DEF Next
  <2>2. Kept(t)'
    BY <1>1, <1>2, <2>1, RequestsAreKept
  <2>3. ASSUME NEW s \in Tasks PROVE Kept(s)'
    <3>1. s = t
      BY DEF OneTask
    <3> QED BY <2>2, <3>1
  <2> QED BY <1>1, <2>3 DEF KeptInv
<1>4. CASE UNCHANGED vars
  <2>1. UNCHANGED <<pins, uart, agenda, local>>
    BY <1>4 DEF vars
  <2>2. ASSUME NEW t \in Tasks PROVE Kept(t)'
    <3>1. Kept(t) /\ SameCall(t)
      BY <1>1, <2>1 DEF SameCall
    <3>2. Aligned(t)' /\ Bracketed(t)' /\ Fresh(t)'
      BY <2>1, <3>1 DEF Kept, Aligned, Bracketed, Fresh, Has, Later, Unwinds
    <3>3. Justified(t)'
      <4>1. \A x : Lawful(t, x)' <=> Lawful(t, x)
        BY <3>1, SameCallSame
      <4>2. ASSUME NEW i \in 1 .. Len(agenda'[t]) PROVE Lawful(t, agenda[t][i])'
        <5>1. PICK x : x = agenda'[t][i] /\ x = agenda[t][i]
          BY <2>1
        <5>2. Lawful(t, x)'
          BY <2>1, <3>1, <4>1, <5>1 DEF Kept, Justified
        <5> QED BY <5>1, <5>2 DEF Lawful, MayEnd, Lost, Mine, Want, Asked
      <4> QED BY <4>2 DEF Justified
    <3>4. Accounted(t)' /\ Doomed(t)'
      <4>1. Accounted(t)'
        <5>1. \A v, r : Lost(t, v, r)' <=> Lost(t, v, r)
          BY <3>1, SameCallSame
        <5>2. ASSUME NEW v \in Uarts, NEW r \in {"RX", "TX"}
              PROVE  Lost(t, v, r)' \/ uart'[v][r] = local'[t].had[v][r]
          BY <2>1, <3>1, <5>1 DEF Kept, Accounted
        <5> QED BY <5>2 DEF Accounted, Lost, Mine, Want, Asked
      <4>2. Doomed(t)'
        <5>1. \A v : MayEnd(t, v)' <=> MayEnd(t, v)
          BY <3>1, SameCallSame
        <5>2. Has(t, {"collect"})' <=> Has(t, {"collect"})
          BY <2>1 DEF Has
        <5>3. IF Has(t, {"collect"})' THEN local'[t].u \notin local'[t].victims
              ELSE \A v \in local'[t].victims : MayEnd(t, v)'
          BY <2>1, <3>1, <5>1, <5>2 DEF Kept, Doomed
        <5> QED BY <5>3 DEF Doomed, Has, MayEnd, Asked
      <4> QED BY <4>1, <4>2
    <3>5. Taken(t)'
      BY <2>1, <3>1 DEF Kept, Taken, Does, Idle, Now, Assigned, Asked
    <3> QED BY <3>2, <3>3, <3>4, <3>5 DEF Kept, Aligned, Justified, Accounted, Doomed, Fresh, Bracketed, Taken
  <2> QED BY <1>1, <2>2 DEF KeptInv
<1> QED BY <1>3, <1>4

(* Only uartEnd() deletes a driver.                                         *)
LEMMA DeletedLawfully ==
  ASSUME KeptInv, Next, NEW v \in installed \ installed'
  PROVE  \E t \in Tasks : MayEnd(t, v)
<1>1. PICK t \in Tasks : Step(t) \/ RequestBegin(t) \/ RequestSetPins(t) \/ RequestEnd(t) \/ Claim(t)
  BY DEF Next
<1>2. DeleteDriver(t)
  <2>1. CASE RequestBegin(t) \/ RequestSetPins(t) \/ RequestEnd(t) \/ Claim(t)
    BY <2>1 DEF RequestBegin, RequestSetPins, RequestEnd, Claim, Request, unchangedUarts
  <2>2. CASE \/ LockStep(t) \/ SetBusReturns(t) \/ SetBusGoesOn(t) \/ AssignPin(t) \/ Callback(t)
             \/ ReturnTrue(t) \/ ForeignCallback(t) \/ Detach(t) \/ Attach(t) \/ Connect(t)
             \/ NoteAttached(t) \/ KeepResult(t) \/ End(t) \/ DetachAll(t)
    BY <2>2 DEF LockStep, Lock, Unlock, SetBusReturns, SetBusGoesOn, AssignPin, Callback, ReturnTrue,
       ForeignCallback, Detach, Attach, Connect, NoteAttached, KeepResult, End, DetachAll, unchangedUarts
  <2>3. CASE \/ SetPins(t) \/ SaveDeinits(t) \/ Mute(t) \/ Plan(t) \/ AttachIf(t) \/ Release(t)
             \/ ReleaseOld(t) \/ Collect(t) \/ Restore(t) \/ Terminate(t)
    BY <2>3 DEF SetPins, SaveDeinits, Mute, Plan, AttachIf, Release, ReleaseOld, Collect, Restore, Terminate,
       unchangedUarts
  <2>4. CASE \/ Begin(t) \/ TestBegin(t) \/ UartBegin(t) \/ Move(t) \/ Moved(t) \/ Install(t)
             \/ DriverInstall(t) \/ Installed(t) \/ Started(t) \/ Register(t) \/ Returns(t)
    BY <2>4 DEF Begin, TestBegin, UartBegin, Move, Moved, Install, DriverInstall, Installed, Started, Register,
       Returns, unchangedUarts
  <2> QED BY <1>1, <2>1, <2>2, <2>3, <2>4 DEF Step
<1>3. v = Now(t).u /\ ~Idle(t) /\ Now(t).op = "delete"
  BY <1>2 DEF DeleteDriver, Does
<1>4. MayEnd(t, v)
  BY <1>3, HeadIsLawful DEF KeptInv, DriverInv, Inv, Kept, Lawful, Ending
<1> QED BY <1>4

(* A driver is deleted only by its own begin() or end(), or when every pin  *)
(* it had for RX and TX was asked for by the call: no call for another UART *)
(* or driver that takes one of two pins ends it, through the callback,      *)
(* setPins() or its terminations.  (The hypotheses are those of             *)
(* DriversOwnTheirPins.)                                                    *)
THEOREM WorkingDriversAreKept ==
  ASSUME OneTask, DefaultsApart
  PROVE  SpecBegun => WorkingDriverIsKept
<1> DEFINE Just == \A v \in installed \ installed' : \E t \in Tasks :
             \/ local[t].fn \in {"begin", "end"} /\ local[t].u = v
             \/ \A r \in {"RX", "TX"} : local[t].had[v][r] \in Asked(t) \cup {NoPin}
<1>1. AllBegun => KeptInv
  BY AllBegunKeeps
<1>2. KeptInv /\ [Next]_vars => KeptInv'
  BY StepIsKept
<1>3. KeptInv /\ [Next]_vars => [Just]_vars
  BY DeletedLawfully DEF MayEnd
<1> QED BY <1>1, <1>2, <1>3, PTL DEF SpecBegun, WorkingDriverIsKept
=============================================================================
