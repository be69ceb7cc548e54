--------------------------- MODULE PeriManProofs ---------------------------
(***************************************************************************)
(* What holds of the Peripheral Manager for every number of pins, types and *)
(* buses and for calls that nest to any depth.  With any number of tasks    *)
(* its tables stay well formed and no released bus stays on a pin: the      *)
(* manager's missing lock never costs the shape of the tables.  It costs    *)
(* assignments: that no pin is taken from a driver that was not told needs  *)
(* that one task calls at a time, and is proved from that assumption.       *)
(*                                                                          *)
(* Inv is inductive by itself once the calls in progress are known to carry *)
(* arguments that passed the checks; Released needs Inv; Told, which says   *)
(* what the calls below the innermost still know, needs both.               *)
(***************************************************************************)
EXTENDS PeriManCalls, SequenceTheorems, TLAPS

(* What a call in progress will store has passed the argument checks.       *)
Checked(call) ==
  /\ call.type = "INIT" => call.bus = NULL
  /\ call.type \in DriverTypes => call.bus # NULL

CallsAreChecked == \A c \in Callers : \A i \in 1 .. Len(stack[c]) : Checked(stack[c][i])

Inv == TypeOK /\ AssignmentsAreWellFormed /\ CallsAreChecked

LEMMA InitEstablishesInv == Init => Inv
<1> SUFFICES ASSUME Init PROVE Inv
  OBVIOUS
<1>1. TypeOK
  BY DEF Init, PeriManInit, TypeOK, PeriManTypeOK, Unassigned, None, Extras, BusTypes,
     OwnedTypes
<1>2. AssignmentsAreWellFormed
  BY TypesAssumption DEF Init, PeriManInit, AssignmentsAreWellFormed, Unassigned
<1>3. CallsAreChecked
  BY DEF Init, CallsAreChecked
<1> QED BY <1>1, <1>2, <1>3 DEF Inv

(* The stacks: a call is added, removed, or goes on to overwrite the pin.   *)
LEMMA PushKeepsCalls ==
  ASSUME Inv, NEW c \in Callers, NEW call \in Calls, Checked(call), Push(c, call)
  PROVE  stack' \in [Callers -> Seq(Calls)] /\ CallsAreChecked'
<1>1. stack \in [Callers -> Seq(Calls)] /\ CallsAreChecked
  BY DEF Inv, TypeOK
<1>2. \A d \in Callers : stack'[d] = IF d = c THEN Append(stack[c], call) ELSE stack[d]
  BY <1>1 DEF Push
<1>3. stack' \in [Callers -> Seq(Calls)]
  BY <1>1 DEF Push
<1>4. ASSUME NEW d \in Callers, NEW i \in 1 .. Len(stack'[d])
      PROVE  Checked(stack'[d][i])
  <2>1. CASE d # c
    BY <1>1, <1>2, <1>4, <2>1 DEF CallsAreChecked
  <2>2. CASE d = c
    <3> DEFINE old == stack[c]
               new == Append(old, call)
    <3>1. old \in Seq(Calls) /\ stack'[d] = new
      BY <1>1, <1>2, <2>2
    <3> HIDE DEF old
    <3>2. /\ Len(new) = Len(old) + 1
          /\ \A k \in 1 .. Len(old) : new[k] = old[k]
          /\ new[Len(old) + 1] = call
      BY <3>1, AppendProperties
    <3>3. \A k \in 1 .. Len(old) : Checked(old[k])
      BY <1>1 DEF CallsAreChecked, old
    <3>4. Len(old) \in Nat
      BY <3>1
    <3> HIDE DEF new
    <3>5. i \in 1 .. Len(old) \/ i = Len(old) + 1
      BY <1>4, <3>1, <3>2, <3>4
    <3> QED BY <3>1, <3>2, <3>3, <3>5
  <2> QED BY <2>1, <2>2
<1> QED BY <1>3, <1>4 DEF CallsAreChecked

LEMMA PopKeepsCalls ==
  ASSUME Inv, NEW c \in Callers, ~Idle(c), Pop(c)
  PROVE  stack' \in [Callers -> Seq(Calls)] /\ CallsAreChecked'
<1>1. stack \in [Callers -> Seq(Calls)] /\ CallsAreChecked
  BY DEF Inv, TypeOK
<1>2. stack[c] \in Seq(Calls) /\ Len(stack[c]) - 1 \in 0 .. Len(stack[c])
  BY <1>1 DEF Idle
<1> DEFINE rest == SubSeq(stack[c], 1, Len(stack[c]) - 1)
<1>3. rest \in Seq(Calls) /\ Len(rest) = Len(stack[c]) - 1
      /\ \A i \in 1 .. Len(rest) : rest[i] = stack[c][i]
  BY <1>2
<1>4. stack' = [stack EXCEPT ![c] = rest]
  BY DEF Pop
<1> HIDE DEF rest
<1>5. stack' \in [Callers -> Seq(Calls)]
  BY <1>1, <1>3, <1>4
<1>6. \A d \in Callers : stack'[d] = IF d = c THEN rest ELSE stack[d]
  BY <1>1, <1>4
<1>7. CallsAreChecked'
  BY <1>1, <1>2, <1>3, <1>6, SMTT(30) DEF CallsAreChecked
<1> QED BY <1>5, <1>7

LEMMA AnswerKeepsCalls ==
  ASSUME Inv, NEW c \in Callers, ~Idle(c),
         stack' = [stack EXCEPT ![c][Len(stack[c])].pc = "commit"]
  PROVE  stack' \in [Callers -> Seq(Calls)] /\ CallsAreChecked'
<1>1. stack \in [Callers -> Seq(Calls)] /\ CallsAreChecked
  BY DEF Inv, TypeOK
<1>2. stack[c] \in Seq(Calls) /\ Len(stack[c]) \in 1 .. Len(stack[c])
  BY <1>1 DEF Idle
<1> DEFINE n == Len(stack[c])
           top == [stack[c][n] EXCEPT !.pc = "commit"]
<1>3. stack[c][n] \in Calls
  BY <1>2
<1>4. top \in Calls /\ (Checked(stack[c][n]) => Checked(top))
  BY <1>3 DEF Calls, Checked
<1>5. stack' = [stack EXCEPT ![c] = [stack[c] EXCEPT ![n] = top]]
  BY <1>1
<1> HIDE DEF top
<1>6. \A d \in Callers : stack'[d] = IF d = c THEN [stack[c] EXCEPT ![n] = top] ELSE stack[d]
  BY <1>1, <1>5
<1>7. [stack[c] EXCEPT ![n] = top] \in Seq(Calls) /\ Len([stack[c] EXCEPT ![n] = top]) = n
  BY <1>2, <1>4
<1>8. stack' \in [Callers -> Seq(Calls)]
  BY <1>1, <1>5, <1>7
<1>9. ASSUME NEW d \in Callers, NEW i \in 1 .. Len(stack'[d])
      PROVE  Checked(stack'[d][i])
  <2>1. CASE d # c
    BY <1>1, <1>6, <1>9, <2>1 DEF CallsAreChecked
  <2>2. CASE d = c
    <3>1. i \in 1 .. n /\ stack'[d][i] = IF i = n THEN top ELSE stack[c][i]
      BY <1>2, <1>6, <1>7, <2>2
    <3> QED BY <1>1, <1>2, <1>4, <3>1 DEF CallsAreChecked
  <2> QED BY <2>1, <2>2
<1> QED BY <1>8, <1>9 DEF CallsAreChecked

-----------------------------------------------------------------------------
(* perimanSetPinBus() starts: only the stack, and the history, change.      *)
LEMMA NewCallIsChecked ==
  ASSUME Inv, NEW p \in Pins, NEW t \in BusTypes, NEW b \in Buses \cup {NULL},
         NEW pc \in {"callback", "commit"}, ~RefusesArguments(p, t, b)
  PROVE  NewCall(p, t, b, pc) \in Calls /\ Checked(NewCall(p, t, b, pc))
<1>1. p \in ValidPins /\ pins[p].type \in BusTypes /\ pins[p].bus \in Buses \cup {NULL}
  BY DEF Inv, TypeOK, PeriManTypeOK, RefusesArguments
<1> QED BY <1>1 DEF NewCall, Calls, Checked, RefusesArguments

LEMMA StartKeepsInv ==
  ASSUME Inv, NEW c \in Callers, NEW p \in Pins, NEW t \in BusTypes,
         NEW b \in Buses \cup {NULL}, SetPinBus(c, p, t, b)
  PROVE  Inv'
<1>1. CASE SetPinBusReturnsEarly(c, p, t, b)
  BY <1>1 DEF SetPinBusReturnsEarly, vars, Inv, TypeOK, PeriManTypeOK,
     AssignmentsAreWellFormed, CallsAreChecked
<1>2. CASE SetPinBusCallsDriver(c, p, t, b)
  <2>1. stack' \in [Callers -> Seq(Calls)] /\ CallsAreChecked'
    BY <1>2, NewCallIsChecked, PushKeepsCalls DEF SetPinBusCallsDriver
  <2> QED BY <1>2, <2>1 DEF SetPinBusCallsDriver, Inv, TypeOK, PeriManTypeOK,
        AssignmentsAreWellFormed
<1>3. CASE SetPinBusNeedsNoDriver(c, p, t, b)
  <2>1. stack' \in [Callers -> Seq(Calls)] /\ CallsAreChecked'
    BY <1>3, NewCallIsChecked, PushKeepsCalls DEF SetPinBusNeedsNoDriver
  <2>2. None \in BusTypes \X (Buses \cup {NULL})
    BY DEF None, BusTypes
  <2>3. owner' \in [ValidPins -> BusTypes \X (Buses \cup {NULL})]
    BY <1>3, <2>2 DEF SetPinBusNeedsNoDriver, Inv, TypeOK
  <2> QED BY <1>3, <2>1, <2>3 DEF SetPinBusNeedsNoDriver, Inv, TypeOK, PeriManTypeOK,
        AssignmentsAreWellFormed
<1> QED BY <1>1, <1>2, <1>3 DEF SetPinBus

LEMMA TopIsACheckedCall ==
  ASSUME Inv, NEW c \in Callers, ~Idle(c)
  PROVE  Top(c) \in Calls /\ Checked(Top(c))
<1>1. stack[c] \in Seq(Calls) /\ Len(stack[c]) \in 1 .. Len(stack[c])
  BY DEF Inv, TypeOK, Idle
<1> QED BY <1>1 DEF Top, Inv, CallsAreChecked

LEMMA AnswersKeepInv ==
  ASSUME Inv, NEW c \in Callers, DeinitSucceeds(c) \/ DeinitFails(c)
  PROVE  Inv'
<1>1. ~Idle(c) /\ UNCHANGED <<pins, deinit_functions>>
  BY DEF DeinitSucceeds, DeinitFails, Runs
<1>2. stack' \in [Callers -> Seq(Calls)] /\ CallsAreChecked'
  BY <1>1, PopKeepsCalls, AnswerKeepsCalls DEF DeinitSucceeds, DeinitFails
<1>3. owner' \in [ValidPins -> BusTypes \X (Buses \cup {NULL})]
  <2>1. None \in BusTypes \X (Buses \cup {NULL})
    BY DEF None, BusTypes
  <2> QED BY <2>1 DEF DeinitSucceeds, DeinitFails, Inv, TypeOK
<1> QED BY <1>1, <1>2, <1>3 DEF Inv, TypeOK, PeriManTypeOK, AssignmentsAreWellFormed

(* The pin is overwritten with what the call was asked for.                 *)
LEMMA CommitKeepsInv ==
  ASSUME Inv, NEW c \in Callers, Commit(c)
  PROVE  Inv'
<1> DEFINE new == [type |-> Top(c).type, bus |-> Top(c).bus, extra |-> NULL]
<1>1. ~Idle(c) /\ Top(c) \in Calls /\ Checked(Top(c))
  BY TopIsACheckedCall DEF Commit, Runs
<1>2. Top(c).pin \in ValidPins /\ Top(c).type \in BusTypes /\ Top(c).bus \in Buses \cup {NULL}
  BY <1>1 DEF Calls
<1>3. pins' = [pins EXCEPT ![Top(c).pin] = new] /\ deinit_functions' = deinit_functions
  BY DEF Commit, Assign
<1>4. new \in [type : BusTypes, bus : Buses \cup {NULL}, extra : Extras]
  BY <1>2 DEF Extras
<1>5. stack' \in [Callers -> Seq(Calls)] /\ CallsAreChecked'
  BY <1>1, PopKeepsCalls DEF Commit
<1>6. owner' \in [ValidPins -> BusTypes \X (Buses \cup {NULL})]
  <2>1. None \in BusTypes \X (Buses \cup {NULL})
    BY DEF None, BusTypes
  <2> QED BY <1>2, <2>1 DEF Commit, Inv, TypeOK
<1>7. PeriManTypeOK'
  BY <1>3, <1>4 DEF Inv, TypeOK, PeriManTypeOK
<1>8. /\ new.type = "INIT" => new = Unassigned
      /\ new.type \in DriverTypes => new.bus # NULL
  BY <1>1 DEF Checked, Unassigned
<1> HIDE DEF new
<1>9. \A p \in ValidPins : pins'[p] = IF p = Top(c).pin THEN new ELSE pins[p]
  BY <1>3 DEF Inv, TypeOK, PeriManTypeOK
<1>10. AssignmentsAreWellFormed'
  BY <1>8, <1>9 DEF Inv, AssignmentsAreWellFormed, Unassigned
<1> QED BY <1>5, <1>6, <1>7, <1>10 DEF Inv, TypeOK

LEMMA SettingsKeepInv ==
  ASSUME Inv, NEW c \in Callers,
         \/ \E p \in Pins : SetExtraType(c, p)
         \/ \E t \in OwnedTypes : ChangeDeinit(c, t)
  PROVE  Inv'
<1>1. CASE \E p \in Pins : SetExtraType(c, p)
  <2>1. PICK p \in Pins : SetExtraType(c, p)
    BY <1>1
  <2>2. p \in ValidPins /\ pins[p].type # "INIT" /\ pins' = [pins EXCEPT ![p].extra = "extra"]
        /\ UNCHANGED <<deinit_functions, stack, owner>>
    BY <2>1 DEF SetExtraType, perimanSetPinBusExtraType
  <2>3. pins' \in [ValidPins -> [type : BusTypes, bus : Buses \cup {NULL}, extra : Extras]]
    BY <2>2 DEF Inv, TypeOK, PeriManTypeOK, Extras
  <2>4. AssignmentsAreWellFormed'
    BY <2>2 DEF Inv, TypeOK, PeriManTypeOK, AssignmentsAreWellFormed, Unassigned
  <2> QED BY <2>2, <2>3, <2>4 DEF Inv, TypeOK, PeriManTypeOK, CallsAreChecked
<1>2. CASE \E t \in OwnedTypes : ChangeDeinit(c, t)
  BY <1>2 DEF ChangeDeinit, perimanSetBusDeinit, perimanClearBusDeinit, Inv, TypeOK,
     PeriManTypeOK, AssignmentsAreWellFormed, CallsAreChecked
<1> QED BY <1>1, <1>2

-----------------------------------------------------------------------------
LEMMA NextKeepsInv == Inv /\ [Next]_vars => Inv'
<1> SUFFICES ASSUME Inv, [Next]_vars PROVE Inv'
  OBVIOUS
<1>1. CASE Next
  BY <1>1, StartKeepsInv, AnswersKeepInv, CommitKeepsInv, SettingsKeepInv DEF Next
<1>2. CASE UNCHANGED vars
  BY <1>2 DEF vars, Inv, TypeOK, PeriManTypeOK, AssignmentsAreWellFormed, CallsAreChecked
<1> QED BY <1>1, <1>2

LEMMA InvIsInvariant == Spec => []Inv
BY InitEstablishesInv, NextKeepsInv, PTL DEF Spec

(* The tables and the calls in progress keep their types.                   *)
THEOREM TypeCorrectness == Spec => []TypeOK
BY InvIsInvariant, PTL DEF Inv

(* However many tasks call the manager at a time and however deep callbacks *)
(* re-enter it: a free pin carries no bus, a driver's pin always has one.   *)
THEOREM TablesStayWellFormed == Spec => []AssignmentsAreWellFormed
BY InvIsInvariant, PTL DEF Inv

-----------------------------------------------------------------------------
(* What a step does to the innermost calls; the stacks of the other tasks   *)
(* are left alone.                                                          *)
OthersKeepTheirCalls(c) == \A d \in Callers \ {c} : stack'[d] = stack[d]

LEMMA Pushed ==
  ASSUME Inv, NEW c \in Callers, NEW call \in Calls, Push(c, call)
  PROVE  /\ OthersKeepTheirCalls(c)
         /\ ~Idle(c)' /\ Top(c)' = call /\ Len(stack'[c]) = Len(stack[c]) + 1
         /\ \A i \in 1 .. Len(stack[c]) : stack'[c][i] = stack[c][i]
<1>1. stack \in [Callers -> Seq(Calls)]
  BY DEF Inv, TypeOK
<1>2. OthersKeepTheirCalls(c) /\ stack'[c] = Append(stack[c], call)
  BY <1>1 DEF Push, OthersKeepTheirCalls
<1> DEFINE old == stack[c]
           new == Append(old, call)
<1>3. old \in Seq(Calls)
  BY <1>1
<1> HIDE DEF old
<1>4. /\ Len(new) = Len(old) + 1 /\ new[Len(old) + 1] = call
      /\ \A i \in 1 .. Len(old) : new[i] = old[i]
  BY <1>3, AppendProperties
<1>5. new # <<>>
  BY <1>3, <1>4
<1> HIDE DEF new
<1>6. stack'[c] = new /\ stack[c] = old
  BY <1>2 DEF old, new
<1> QED BY <1>2, <1>4, <1>5, <1>6 DEF Idle, Top

LEMMA Popped ==
  ASSUME Inv, NEW c \in Callers, ~Idle(c), Pop(c)
  PROVE  /\ OthersKeepTheirCalls(c)
         /\ Len(stack[c]) \in Nat \ {0} /\ Len(stack'[c]) = Len(stack[c]) - 1
         /\ \A i \in 1 .. Len(stack'[c]) : stack'[c][i] = stack[c][i]
<1>1. stack \in [Callers -> Seq(Calls)]
  BY DEF Inv, TypeOK
<1>2. stack[c] \in Seq(Calls) /\ Len(stack[c]) - 1 \in 0 .. Len(stack[c])
  BY <1>1 DEF Idle
<1>3. /\ OthersKeepTheirCalls(c)
      /\ stack'[c] = SubSeq(stack[c], 1, Len(stack[c]) - 1)
  BY <1>1 DEF Pop, OthersKeepTheirCalls
<1> DEFINE rest == SubSeq(stack[c], 1, Len(stack[c]) - 1)
<1>4. Len(rest) = Len(stack[c]) - 1 /\ \A i \in 1 .. Len(rest) : rest[i] = stack[c][i]
  BY <1>2
<1>5. stack'[c] = rest
  BY <1>3
<1> HIDE DEF rest
<1>6. Len(stack[c]) \in Nat \ {0}
  BY <1>2
<1> QED BY <1>3, <1>4, <1>5, <1>6

LEMMA Answered ==
  ASSUME Inv, NEW c \in Callers, ~Idle(c),
         stack' = [stack EXCEPT ![c][Len(stack[c])].pc = "commit"]
  PROVE  /\ OthersKeepTheirCalls(c)
         /\ ~Idle(c)' /\ Top(c)' = [Top(c) EXCEPT !.pc = "commit"]
         /\ Len(stack[c]) \in Nat \ {0} /\ Len(stack'[c]) = Len(stack[c])
         /\ \A i \in 1 .. Len(stack[c]) - 1 : stack'[c][i] = stack[c][i]
<1>1. stack \in [Callers -> Seq(Calls)]
  BY DEF Inv, TypeOK
<1>2. stack[c] \in Seq(Calls) /\ Len(stack[c]) \in 1 .. Len(stack[c])
  BY <1>1 DEF Idle
<1> DEFINE n == Len(stack[c])
           top == [Top(c) EXCEPT !.pc = "commit"]
<1>3. Top(c) \in Calls
  BY <1>2 DEF Top
<1>4. top \in Calls
  BY <1>3 DEF Calls
<1>5. stack' = [stack EXCEPT ![c] = [stack[c] EXCEPT ![n] = top]]
  BY <1>1 DEF Top
<1> HIDE DEF top
<1>6. OthersKeepTheirCalls(c) /\ stack'[c] = [stack[c] EXCEPT ![n] = top]
  BY <1>1, <1>5 DEF OthersKeepTheirCalls
<1>7. stack'[c] \in Seq(Calls) /\ Len(stack'[c]) = n /\ stack'[c][n] = top
      /\ \A i \in 1 .. n - 1 : stack'[c][i] = stack[c][i]
  <2> DEFINE old == stack[c]
             new == [old EXCEPT ![n] = top]
  <2>1. old \in Seq(Calls) /\ n = Len(old) /\ n \in 1 .. Len(old)
    BY <1>2
  <2> HIDE DEF old, n
  <2>2. new \in Seq(Calls) /\ Len(new) = Len(old)
    BY <1>4, <2>1
  <2>3. new[n] = top /\ \A i \in 1 .. n - 1 : new[i] = old[i]
    BY <2>1
  <2> QED BY <1>6, <2>1, <2>2, <2>3 DEF old
<1>8. stack'[c] # <<>>
  BY <1>2, <1>7
<1> QED BY <1>2, <1>6, <1>7, <1>8 DEF Idle, Top, top

-----------------------------------------------------------------------------
(* No released bus stays on a pin. Only the innermost call of a task may be *)
(* about to overwrite a pin: a task that makes a call is in a callback.     *)
AboutToOverwrite(p) == \E c \in Callers : Runs(c, "commit") /\ Top(c).pin = p

LEMMA StillAboutTo ==
  ASSUME NEW c \in Callers, OthersKeepTheirCalls(c), NEW p, AboutToOverwrite(p),
         Runs(c, "commit") => Top(c).pin # p
  PROVE  AboutToOverwrite(p)'
<1>1. PICK d \in Callers : Runs(d, "commit") /\ Top(d).pin = p
  BY DEF AboutToOverwrite
<1>2. d # c /\ stack'[d] = stack[d]
  BY <1>1 DEF OthersKeepTheirCalls
<1> QED BY <1>1, <1>2 DEF AboutToOverwrite, Runs, Idle, Top

LEMMA CallingTaskIsNotAboutTo ==
  ASSUME NEW c \in Callers, NEW t, NEW b, MayCall(c, t, b)
  PROVE  ~Runs(c, "commit")
BY DEF MayCall, Runs

Released == \A p \in ValidPins :
  pins[p].bus = NULL \/ owner[p] = Holder(p) \/ AboutToOverwrite(p)

LEMMA ReleasedIsNoReleasedBusOnPin == Released <=> NoReleasedBusOnPin
BY DEF Released, NoReleasedBusOnPin, AboutToOverwrite

(* A call about a pin starts, is refused or goes on; the tables are left    *)
(* alone, and only the history of that pin changes.                         *)
LEMMA CallsKeepReleased ==
  ASSUME Inv, Released, NEW c \in Callers, pins' = pins, NEW q \in ValidPins,
         OthersKeepTheirCalls(c), ~Runs(c, "commit"),
         \A p \in ValidPins \ {q} : owner'[p] = owner[p],
         owner'[q] = owner[q] \/ (Runs(c, "commit")' /\ Top(c)'.pin = q)
  PROVE  Released'
<1> SUFFICES ASSUME NEW p \in ValidPins
             PROVE  (pins[p].bus = NULL \/ owner[p] = Holder(p) \/ AboutToOverwrite(p))'
  BY DEF Released
<1>1. CASE pins[p].bus = NULL
  BY <1>1
<1>2. CASE AboutToOverwrite(p)
  BY <1>2, StillAboutTo
<1>3. CASE owner[p] = Holder(p) /\ owner'[p] = owner[p]
  BY <1>3 DEF Holder
<1>4. CASE p = q /\ Runs(c, "commit")' /\ Top(c)'.pin = q
  BY <1>4 DEF AboutToOverwrite
<1> QED BY <1>1, <1>2, <1>3, <1>4 DEF Released

LEMMA CommitKeepsReleased ==
  ASSUME Inv, Released, NEW c \in Callers, Commit(c)
  PROVE  Released'
<1>1. /\ ~Idle(c) /\ Top(c) \in Calls /\ OthersKeepTheirCalls(c)
  BY TopIsACheckedCall, Popped DEF Commit, Runs
<1> DEFINE q == Top(c).pin
           t == Top(c).type
           b == Top(c).bus
<1>2. q \in ValidPins
  BY <1>1 DEF Calls
<1>3. /\ \A p \in ValidPins : pins'[p] = IF p = q THEN [type |-> t, bus |-> b, extra |-> NULL]
                                         ELSE pins[p]
      /\ \A p \in ValidPins : owner'[p] = IF p # q THEN owner[p]
                                          ELSE IF b = NULL THEN None ELSE <<t, b>>
  BY DEF Commit, Assign, Inv, TypeOK, PeriManTypeOK
<1> SUFFICES ASSUME NEW p \in ValidPins
             PROVE  (pins[p].bus = NULL \/ owner[p] = Holder(p) \/ AboutToOverwrite(p))'
  BY DEF Released
<1>4. CASE p = q
  BY <1>3, <1>4 DEF Holder
<1>5. CASE p # q
  <2>1. CASE AboutToOverwrite(p)
    BY <1>1, <1>5, <2>1, StillAboutTo
  <2>2. CASE ~AboutToOverwrite(p)
    BY <1>3, <1>5, <2>2 DEF Released, Holder
  <2> QED BY <2>1, <2>2
<1> QED BY <1>4, <1>5

LEMMA NextKeepsReleased == Inv /\ Released /\ [Next]_vars => Released'
<1> SUFFICES ASSUME Inv, Released, [Next]_vars PROVE Released'
  OBVIOUS
<1>1. CASE UNCHANGED vars
  BY <1>1 DEF vars, Released, Holder, AboutToOverwrite, Runs, Idle, Top
<1> SUFFICES ASSUME NEW c \in Callers,
               \/ \E p \in Pins, t \in BusTypes, b \in Buses \cup {NULL} : SetPinBus(c, p, t, b)
               \/ DeinitSucceeds(c) \/ DeinitFails(c) \/ Commit(c)
               \/ \E p \in Pins : SetExtraType(c, p)
               \/ \E t \in OwnedTypes : ChangeDeinit(c, t)
             PROVE  Released'
  BY <1>1 DEF Next
<1>2. ASSUME NEW p \in Pins, NEW t \in BusTypes, NEW b \in Buses \cup {NULL},
             SetPinBus(c, p, t, b)
      PROVE  Released'
  <2>1. CASE SetPinBusReturnsEarly(c, p, t, b)
    BY <2>1 DEF SetPinBusReturnsEarly, vars, Released, Holder, AboutToOverwrite, Runs, Idle, Top
  <2>2. ASSUME ~SetPinBusReturnsEarly(c, p, t, b)
        PROVE  /\ p \in ValidPins /\ ~Runs(c, "commit") /\ pins' = pins
               /\ \E pc \in {"callback", "commit"} :
                    /\ Push(c, NewCall(p, t, b, pc))
                    /\ NewCall(p, t, b, pc) \in Calls
                    /\ owner' = owner \/ (pc = "commit" /\ owner' = [owner EXCEPT ![p] = None])
    <3>1. ASSUME MayCall(c, t, b), ~RefusesArguments(p, t, b)
          PROVE  /\ p \in ValidPins /\ ~Runs(c, "commit")
                 /\ NewCall(p, t, b, "callback") \in Calls
                 /\ NewCall(p, t, b, "commit") \in Calls
      <4>1. p \in ValidPins
        BY <3>1 DEF RefusesArguments
      <4>2. ~Runs(c, "commit")
        BY ONLY <3>1 DEF MayCall, Runs
      <4> QED BY <3>1, <4>1, <4>2, NewCallIsChecked
    <3>2. CASE SetPinBusCallsDriver(c, p, t, b)
      <4>1. MayCall(c, t, b) /\ ~RefusesArguments(p, t, b)
            /\ Push(c, NewCall(p, t, b, "callback")) /\ pins' = pins /\ owner' = owner
        BY <3>2 DEF SetPinBusCallsDriver
      <4> QED BY <3>1, <4>1
    <3>3. CASE SetPinBusNeedsNoDriver(c, p, t, b)
      <4>1. MayCall(c, t, b) /\ ~RefusesArguments(p, t, b)
            /\ Push(c, NewCall(p, t, b, "commit")) /\ pins' = pins
            /\ owner' = [owner EXCEPT ![p] = None]
        BY <3>3 DEF SetPinBusNeedsNoDriver
      <4> QED BY <3>1, <4>1
    <3> QED BY <1>2, <2>2, <3>2, <3>3 DEF SetPinBus
  <2>3. CASE ~SetPinBusReturnsEarly(c, p, t, b)
    <3>1. PICK pc \in {"callback", "commit"} :
            /\ Push(c, NewCall(p, t, b, pc)) /\ NewCall(p, t, b, pc) \in Calls
            /\ owner' = owner \/ (pc = "commit" /\ owner' = [owner EXCEPT ![p] = None])
      BY <2>2, <2>3
    <3>2. OthersKeepTheirCalls(c) /\ ~Idle(c)' /\ Top(c)' = NewCall(p, t, b, pc)
      BY <3>1, Pushed
    <3>3. Top(c)'.pin = p /\ Top(c)'.pc = pc
      BY <3>2 DEF NewCall
    <3>4. \/ owner' = owner
          \/ Runs(c, "commit")' /\ owner' = [owner EXCEPT ![p] = None]
      BY <3>1, <3>2, <3>3 DEF Runs
    <3>5. p \in ValidPins /\ ~Runs(c, "commit") /\ pins' = pins
      BY <2>2, <2>3
    <3>6. /\ \A q \in ValidPins \ {p} : owner'[q] = owner[q]
          /\ owner'[p] = owner[p] \/ (Runs(c, "commit")' /\ Top(c)'.pin = p)
      BY <3>3, <3>4, <3>5 DEF Inv, TypeOK
    <3> QED BY <3>2, <3>5, <3>6, CallsKeepReleased
  <2> QED BY <2>1, <2>3
<1>3. CASE DeinitSucceeds(c)
  <2>1. /\ ~Idle(c) /\ ~Runs(c, "commit") /\ pins' = pins /\ Top(c) \in Calls
        /\ stack' = [stack EXCEPT ![c][Len(stack[c])].pc = "commit"]
        /\ \A p \in ValidPins \ {Top(c).pin} : owner'[p] = owner[p]
    BY <1>3, TopIsACheckedCall DEF DeinitSucceeds, Runs, Inv, TypeOK
  <2>2. OthersKeepTheirCalls(c) /\ ~Idle(c)' /\ Top(c)' = [Top(c) EXCEPT !.pc = "commit"]
    BY <2>1, Answered
  <2>3. Top(c).pin \in ValidPins /\ Top(c)'.pin = Top(c).pin /\ Runs(c, "commit")'
    BY <2>1, <2>2 DEF Calls, Runs
  <2> QED BY <2>1, <2>2, <2>3, CallsKeepReleased
<1>4. CASE DeinitFails(c)
  <2>1. /\ ~Idle(c) /\ ~Runs(c, "commit") /\ pins' = pins /\ Top(c) \in Calls
        /\ owner' = owner /\ Pop(c)
    BY <1>4, TopIsACheckedCall DEF DeinitFails, Runs
  <2>2. OthersKeepTheirCalls(c) /\ Top(c).pin \in ValidPins
    BY <2>1, Popped DEF Calls
  <2> QED BY <2>1, <2>2, CallsKeepReleased
<1>5. CASE Commit(c)
  BY <1>5, CommitKeepsReleased
<1>6. CASE \/ \E p \in Pins : SetExtraType(c, p)
           \/ \E t \in OwnedTypes : ChangeDeinit(c, t)
  <2>1. UNCHANGED <<stack, owner>>
    BY <1>6 DEF SetExtraType, ChangeDeinit
  <2>2. pins' = pins \/ \E q \in ValidPins : pins' = [pins EXCEPT ![q].extra = "extra"]
    BY <1>6 DEF SetExtraType, ChangeDeinit, perimanSetPinBusExtraType, perimanSetBusDeinit,
       perimanClearBusDeinit
  <2>3. \A p \in ValidPins : pins'[p].bus = pins[p].bus /\ pins'[p].type = pins[p].type
    BY <2>2 DEF Inv, TypeOK, PeriManTypeOK
  <2> QED BY <2>1, <2>3 DEF Released, Holder, AboutToOverwrite, Runs, Idle, Top
<1> QED BY <1>2, <1>3, <1>4, <1>5, <1>6

(* A callback never gets a bus that its driver has released: whatever the   *)
(* callbacks clear, for any number of tasks that call the manager at a time *)
(* (esp32-hal-periman.c:150-157).                                           *)
THEOREM NoStaleBus == Spec => []NoReleasedBusOnPin
<1>1. Init => Released
  BY DEF Init, PeriManInit, Released, Unassigned
<1> QED
  BY <1>1, NextKeepsReleased, InvIsInvariant, ReleasedIsNoReleasedBusOnPin, PTL DEF Spec

-----------------------------------------------------------------------------
(* One caller at a time.  What its calls in progress know of their pins is  *)
(* still true: the history of a pin is what the call read, until the driver *)
(* has been told.  A nested call only clears, so nothing a callback does    *)
(* can put a new driver on a pin whose call is about to overwrite it.       *)
OneCaller == \A c, d \in Callers : c = d

ToldBy(call, own) ==
  \/ own[call.pin] = None
  \/ call.pc = "callback" /\ own[call.pin] = <<call.otype, call.obus>>

Told == \A c \in Callers : \A i \in 1 .. Len(stack[c]) :
  /\ i > 1 => stack[c][i].bus = NULL
  /\ i < Len(stack[c]) => stack[c][i].pc = "callback"
  /\ ToldBy(stack[c][i], owner)

(* The calls below the innermost are left alone, and a pin's history only   *)
(* changes to None.                                                         *)
LEMMA OlderCallsStayTold ==
  ASSUME Inv, Told, NEW c \in Callers, NEW n \in 0 .. Len(stack[c]),
         n <= Len(stack'[c]), \A i \in 1 .. n : stack'[c][i] = stack[c][i],
         \A p \in ValidPins : owner'[p] \in {owner[p], None}
  PROVE  \A i \in 1 .. n : /\ i > 1 => stack'[c][i].bus = NULL
                           /\ ToldBy(stack'[c][i], owner')
<1> SUFFICES ASSUME NEW i \in 1 .. n
             PROVE  /\ i > 1 => stack'[c][i].bus = NULL
                    /\ ToldBy(stack'[c][i], owner')
  OBVIOUS
<1>1. stack[c] \in Seq(Calls) /\ Len(stack[c]) \in Nat
  BY DEF Inv, TypeOK
<1>2. i \in 1 .. Len(stack[c])
  BY <1>1
<1>3. stack[c][i] \in Calls
  BY <1>1, <1>2
<1>4. stack[c][i].pin \in ValidPins
  BY <1>3 DEF Calls
<1>5. /\ i > 1 => stack[c][i].bus = NULL
      /\ ToldBy(stack[c][i], owner)
  BY <1>2 DEF Told
<1> QED BY <1>4, <1>5 DEF ToldBy

LEMMA StartKeepsTold ==
  ASSUME OneCaller, Inv, Released, Told, NEW c \in Callers, NEW p \in Pins,
         NEW t \in BusTypes, NEW b \in Buses \cup {NULL}, SetPinBus(c, p, t, b)
  PROVE  Told'
<1>1. CASE SetPinBusReturnsEarly(c, p, t, b)
  BY <1>1 DEF SetPinBusReturnsEarly, vars, Told, ToldBy
<1>2. ASSUME NEW pc \in {"callback", "commit"}, MayCall(c, t, b), ~RefusesArguments(p, t, b),
             Push(c, NewCall(p, t, b, pc)),
             \A q \in ValidPins : owner'[q] \in {owner[q], None},
             ToldBy(NewCall(p, t, b, pc), owner')
      PROVE  Told'
  <2>1. NewCall(p, t, b, pc) \in Calls
    BY <1>2, NewCallIsChecked
  <2>2. /\ ~Idle(c)' /\ Top(c)' = NewCall(p, t, b, pc)
        /\ Len(stack'[c]) = Len(stack[c]) + 1 /\ Len(stack[c]) \in Nat
        /\ \A i \in 1 .. Len(stack[c]) : stack'[c][i] = stack[c][i]
    <3>1. Len(stack[c]) \in Nat
      BY DEF Inv, TypeOK
    <3> QED BY <1>2, <2>1, <3>1, Pushed
  <2> DEFINE n == Len(stack[c])
  <2>3. \A i \in 1 .. n : /\ i > 1 => stack'[c][i].bus = NULL
                          /\ ToldBy(stack'[c][i], owner')
    BY <1>2, <2>2, OlderCallsStayTold
  <2>4. stack'[c][n + 1] = NewCall(p, t, b, pc)
    BY <2>2 DEF Top
  <2>5. n + 1 > 1 => b = NULL /\ stack[c][n].pc = "callback"
    BY <1>2, <2>2 DEF MayCall, Idle, Runs, Top
  <2>6. \A i \in 1 .. n : stack'[c][i].pc = "callback"
    <3> SUFFICES ASSUME NEW i \in 1 .. n PROVE stack[c][i].pc = "callback"
      BY <2>2
    <3>1. CASE i < n
      BY <2>2, <3>1 DEF Told
    <3>2. CASE i = n
      BY <2>2, <2>5, <3>2
    <3> QED BY <2>2, <3>1, <3>2
  <2>7. ASSUME NEW i \in 1 .. n + 1
        PROVE  /\ i > 1 => stack'[c][i].bus = NULL
               /\ i < n + 1 => stack'[c][i].pc = "callback"
               /\ ToldBy(stack'[c][i], owner')
    <3>1. CASE i \in 1 .. n
      BY <2>3, <2>6, <3>1
    <3>2. CASE i = n + 1
      BY <1>2, <2>2, <2>4, <2>5, <3>2 DEF NewCall
    <3> QED BY <2>2, <3>1, <3>2
  <2>8. \A d \in Callers : d = c
    BY DEF OneCaller
  <2> QED BY <2>2, <2>7, <2>8 DEF Told
<1>3. CASE SetPinBusCallsDriver(c, p, t, b)
  <2>1. /\ MayCall(c, t, b) /\ ~RefusesArguments(p, t, b) /\ CallsDriver(p)
        /\ Push(c, NewCall(p, t, b, "callback")) /\ owner' = owner
    BY <1>3 DEF SetPinBusCallsDriver
  <2>2. p \in ValidPins /\ pins[p].bus # NULL
    BY <2>1 DEF RefusesArguments, CallsDriver, Inv, AssignmentsAreWellFormed
  <2>3. ~AboutToOverwrite(p)
    BY <2>1, CallingTaskIsNotAboutTo DEF AboutToOverwrite, OneCaller
  <2>4. owner[p] = Holder(p)
    BY <2>2, <2>3 DEF Released
  <2>5. ToldBy(NewCall(p, t, b, "callback"), owner')
    BY <2>1, <2>4 DEF ToldBy, NewCall, Holder
  <2> QED BY <1>2, <2>1, <2>5
<1>4. CASE SetPinBusNeedsNoDriver(c, p, t, b)
  <2>1. /\ MayCall(c, t, b) /\ ~RefusesArguments(p, t, b)
        /\ Push(c, NewCall(p, t, b, "commit")) /\ owner' = [owner EXCEPT ![p] = None]
    BY <1>4 DEF SetPinBusNeedsNoDriver
  <2>2. p \in ValidPins
    BY <2>1 DEF RefusesArguments
  <2>3. /\ \A q \in ValidPins : owner'[q] \in {owner[q], None}
        /\ owner'[p] = None
    BY <2>1, <2>2 DEF Inv, TypeOK
  <2>4. ToldBy(NewCall(p, t, b, "commit"), owner')
    BY <2>3 DEF ToldBy, NewCall
  <2> QED BY <1>2, <2>1, <2>3, <2>4
<1> QED BY <1>1, <1>3, <1>4 DEF SetPinBus

(* The innermost call is about its pin, its depth says what it may store.   *)
LEMMA TopIsTold ==
  ASSUME Inv, Told, NEW c \in Callers, ~Idle(c)
  PROVE  /\ Top(c).pin \in ValidPins /\ ToldBy(Top(c), owner)
         /\ Len(stack[c]) > 1 => Top(c).bus = NULL
<1>1. Top(c) \in Calls
  BY TopIsACheckedCall
<1>2. Len(stack[c]) \in 1 .. Len(stack[c])
  BY DEF Inv, TypeOK, Idle
<1> QED BY <1>1, <1>2 DEF Told, Top, Calls

LEMMA AnswersKeepTold ==
  ASSUME OneCaller, Inv, Told, NEW c \in Callers, DeinitSucceeds(c) \/ DeinitFails(c)
  PROVE  Told'
<1>1. ~Idle(c) /\ Top(c).pc = "callback"
  BY DEF DeinitSucceeds, DeinitFails, Runs
<1>2. \A d \in Callers : d = c
  BY DEF OneCaller
<1> DEFINE n == Len(stack[c])
<1>3. CASE DeinitSucceeds(c)
  <2>1. stack' = [stack EXCEPT ![c][Len(stack[c])].pc = "commit"]
    BY <1>3 DEF DeinitSucceeds
  <2>2. /\ ~Idle(c)' /\ Top(c)' = [Top(c) EXCEPT !.pc = "commit"]
        /\ n \in Nat \ {0} /\ Len(stack'[c]) = n
        /\ \A i \in 1 .. n - 1 : stack'[c][i] = stack[c][i]
    BY <1>1, <2>1, Answered
  <2>3. /\ \A p \in ValidPins : owner'[p] \in {owner[p], None}
        /\ owner'[Top(c).pin] = None
    BY <1>1, <1>3, TopIsTold DEF DeinitSucceeds, ToldBy, Inv, TypeOK
  <2>4. \A i \in 1 .. n - 1 : /\ i > 1 => stack'[c][i].bus = NULL
                              /\ ToldBy(stack'[c][i], owner')
    BY <2>2, <2>3, OlderCallsStayTold
  <2>5. Top(c) \in Calls
    BY <1>1, TopIsACheckedCall
  <2>6. /\ stack'[c][n].bus = Top(c).bus
        /\ ToldBy(stack'[c][n], owner')
    BY <2>2, <2>3, <2>5 DEF Top, ToldBy, Calls
  <2>7. n > 1 => stack'[c][n].bus = NULL
    BY <1>1, <2>6, TopIsTold
  <2>8. \A i \in 1 .. n - 1 : stack'[c][i].pc = "callback"
    BY <2>2 DEF Told
  <2>9. \A i \in 1 .. n : i \in 1 .. n - 1 \/ i = n
    BY <2>2
  <2> HIDE DEF n
  <2> QED BY <1>2, <2>2, <2>4, <2>6, <2>7, <2>8, <2>9 DEF Told
<1>4. CASE DeinitFails(c)
  <2>1. Pop(c) /\ owner' = owner
    BY <1>4 DEF DeinitFails
  <2>2. /\ n \in Nat \ {0} /\ Len(stack'[c]) = n - 1
        /\ \A i \in 1 .. n - 1 : stack'[c][i] = stack[c][i]
    BY <1>1, <2>1, Popped
  <2> QED BY <1>2, <2>1, <2>2 DEF Told
<1> QED BY <1>3, <1>4

LEMMA CommitKeepsTold ==
  ASSUME OneCaller, Inv, Told, NEW c \in Callers, Commit(c)
  PROVE  Told'
<1>1. ~Idle(c) /\ Pop(c)
  BY DEF Commit, Runs
<1> DEFINE n == Len(stack[c])
<1>2. /\ n \in Nat \ {0} /\ Len(stack'[c]) = n - 1
      /\ \A i \in 1 .. n - 1 : stack'[c][i] = stack[c][i]
  BY <1>1, Popped
<1>3. \A d \in Callers : d = c
  BY DEF OneCaller
<1>4. CASE n = 1
  BY <1>2, <1>3, <1>4 DEF Told
<1>5. CASE n > 1
  <2>1. \A p \in ValidPins : owner'[p] \in {owner[p], None}
    BY <1>1, <1>5, TopIsTold DEF Commit, Inv, TypeOK
  <2>2. \A i \in 1 .. n - 1 : /\ i > 1 => stack'[c][i].bus = NULL
                              /\ ToldBy(stack'[c][i], owner')
    BY <1>2, <2>1, OlderCallsStayTold
  <2>3. \A i \in 1 .. n - 1 : stack'[c][i].pc = "callback"
    BY <1>2 DEF Told
  <2> HIDE DEF n
  <2> QED BY <1>2, <1>3, <2>2, <2>3 DEF Told
<1> HIDE DEF n
<1> QED BY <1>2, <1>4, <1>5

LEMMA NextKeepsTold == OneCaller /\ Inv /\ Released /\ Told /\ [Next]_vars => Told'
<1> SUFFICES ASSUME OneCaller, Inv, Released, Told, [Next]_vars PROVE Told'
  OBVIOUS
<1>1. CASE UNCHANGED <<stack, owner>>
  BY <1>1 DEF Told, ToldBy
<1>2. CASE ~UNCHANGED <<stack, owner>>
  BY <1>2, StartKeepsTold, AnswersKeepTold, CommitKeepsTold
     DEF Next, vars, SetExtraType, ChangeDeinit
<1> QED BY <1>1, <1>2

LEMMA StepTellsTheDriver ==
  ASSUME Inv, Told, [Next]_vars, NEW p \in ValidPins, Holder(p)' # Holder(p)
  PROVE  owner[p] = None
<1>1. pins' # pins
  BY DEF Holder
<1>2. CASE \E c \in Callers : Commit(c)
  <2>1. PICK c \in Callers : Commit(c)
    BY <1>2
  <2>2. ~Idle(c) /\ Top(c).pc = "commit"
    BY <2>1 DEF Commit, Runs
  <2>3. owner[Top(c).pin] = None /\ Top(c).pin \in ValidPins
    BY <2>2, TopIsTold DEF ToldBy
  <2>4. p = Top(c).pin
    BY <2>1, <2>3 DEF Commit, Assign, Holder, Inv, TypeOK, PeriManTypeOK
  <2> QED BY <2>3, <2>4
<1>3. CASE \E q \in ValidPins : pins' = [pins EXCEPT ![q].extra = "extra"]
  BY <1>3 DEF Holder, Inv, TypeOK, PeriManTypeOK
<1>4. \/ \E c \in Callers : Commit(c)
      \/ \E q \in ValidPins : pins' = [pins EXCEPT ![q].extra = "extra"]
  <2>1. Next
    BY <1>1 DEF vars
  <2>2. PICK c \in Callers :
          \/ \E q \in Pins, t \in BusTypes, b \in Buses \cup {NULL} : SetPinBus(c, q, t, b)
          \/ DeinitSucceeds(c) \/ DeinitFails(c) \/ Commit(c)
          \/ \E q \in Pins : SetExtraType(c, q)
          \/ \E t \in OwnedTypes : ChangeDeinit(c, t)
    BY <2>1 DEF Next
  <2>3. ASSUME NEW q \in Pins, NEW t \in BusTypes, NEW b \in Buses \cup {NULL},
               SetPinBus(c, q, t, b)
        PROVE  FALSE
    BY <1>1, <2>3 DEF SetPinBus, SetPinBusReturnsEarly, SetPinBusCallsDriver,
       SetPinBusNeedsNoDriver, vars
  <2>4. ~DeinitSucceeds(c) /\ ~DeinitFails(c)
    BY <1>1 DEF DeinitSucceeds, DeinitFails
  <2>5. ASSUME NEW t \in OwnedTypes, ChangeDeinit(c, t)
        PROVE  FALSE
    BY <1>1, <2>5 DEF ChangeDeinit, perimanSetBusDeinit, perimanClearBusDeinit
  <2>6. ASSUME NEW q \in Pins, SetExtraType(c, q)
        PROVE  q \in ValidPins /\ pins' = [pins EXCEPT ![q].extra = "extra"]
    BY <2>6 DEF SetExtraType, perimanSetPinBusExtraType
  <2> QED BY <2>2, <2>3, <2>4, <2>5, <2>6
<1> QED BY <1>2, <1>3, <1>4

(* "Used to destroy bus when pin is assigned another function"              *)
(* (esp32-hal-periman.h): with one task at a time no pin is taken from a    *)
(* driver that has not been told, however many pins and types there are and *)
(* however deep the callbacks re-enter the manager on the same pin.         *)
THEOREM OneCallerTellsEveryDriver ==
  ASSUME OneCaller
  PROVE  Spec => NoSilentTakeover
<1>1. Init => Released /\ Told
  BY DEF Init, PeriManInit, Released, Unassigned, Told
<1>2. Inv /\ Told /\ [Next]_vars
      => [\A p \in ValidPins : Holder(p)' # Holder(p) => owner[p] = None]_vars
  BY StepTellsTheDriver
<1> QED
  BY <1>1, <1>2, NextKeepsReleased, NextKeepsTold, InvIsInvariant, PTL
     DEF Spec, NoSilentTakeover
=============================================================================
