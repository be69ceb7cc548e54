----------------------------- MODULE StaProofs ------------------------------
(***************************************************************************)
(* What the station says of its link, for every number of calls and drops   *)
(* and with event queues of any length: the status bits are right once the  *)
(* system task has handled all events, the status once the Arduino event    *)
(* task has as well.                                                        *)
(*                                                                          *)
(* Both properties are about empty queues only. The invariant says what     *)
(* they are worth before that: with the events that are still under way,    *)
(* in the order in which they will be handled, the last event about the     *)
(* link tells its state, an address of a link that is gone is followed by   *)
(* an event that takes it back, and a status that no event will change      *)
(* belongs to a callback that is about to join again. A new event goes to   *)
(* the end (Grows), the next one is taken from the front (Shrinks).         *)
(*                                                                          *)
(* The bits that are set while there is no interface survive the next       *)
(* begin() (leftover). OldLink and LeftAlone say that the status does not   *)
(* follow them: a START is under way that makes it WL_DISCONNECTED.         *)
(***************************************************************************)
EXTENDS Sta, SequenceTheorems, TLAPS

(* What is under way to the event task, the oldest event first.             *)
Posting == IF posting = NoEvent THEN <<>> ELSE <<posting>>
Handled == queue \o Posting
Pending == Handled \o sysQueue

Any(q, ids) == \E i \in 1 .. Len(q) : q[i].id \in ids
NoneAfter(q, i, ids) == \A j \in i + 1 .. Len(q) : q[j].id \notin ids

(* The last event on q with one of these ids, if there is one.              *)
LastIs(q, id, ids) ==
  \E i \in 1 .. Len(q) : q[i].id = id /\ NoneAfter(q, i, ids)

Follows(q, id, ids) ==
  \A i \in 1 .. Len(q) : q[i].id = id => \E j \in i + 1 .. Len(q) : q[j].id \in ids

LinkEvents == {"CONNECTED", "DISCONNECTED", "STOP"}
Resets == {"DISCONNECTED", "START", "STOP"}

(* What follows from where the sketch is.                                   *)
Begun ==
  /\ enabled <=> radio # "stopped"
  /\ enabled => registered /\ listening /\ netif
  /\ sketch \in {"register", "init", "start", "remove", "destroy", "unregister"} => ~enabled
  /\ sketch \in {"init", "start"} => registered
  /\ sketch = "start" => listening /\ netif
  /\ sketch = "register" => ~netif
  /\ sketch \in {"remove", "destroy", "unregister"} => registered
  /\ sketch = "unregister" => ~netif
  /\ netif => registered
  /\ ~enabled /\ sketch \notin {"start", "remove", "destroy"} => ~netif
  /\ ~netif => bits \subseteq leftover

(* The last event about the link tells its state; with none under way, the  *)
(* bits do, unless CONNECTED is a leftover.                                 *)
LinkIsKnown ==
  /\ radio = "linked" =>
       LastIs(sysQueue, "CONNECTED", LinkEvents) \/ (~Any(sysQueue, LinkEvents) /\ connected)
  /\ radio # "linked" =>
       \/ LastIs(sysQueue, "DISCONNECTED", LinkEvents) \/ LastIs(sysQueue, "STOP", LinkEvents)
       \/ ~Any(sysQueue, LinkEvents) /\ (connected => "CONNECTED" \in leftover)

(* A station that is started, or will be when its events are handled.       *)
StartIsKnown == enabled =>
  /\ Any(sysQueue, {"START"}) \/ "STARTED" \in bits
  /\ Follows(Pending, "STOP", {"START"})

(* No address outlives its link.                                            *)
OldAddress == radio \notin {"linked", "stopped"} => Follows(Pending, "GOT_IP", Resets)

(* With a leftover, a link that ended earlier did so before begin().        *)
OldLink == enabled /\ "CONNECTED" \in leftover =>
  \A i \in 1 .. Len(Handled) : Handled[i].id = "DISCONNECTED" =>
     \E j \in i + 1 .. Len(Pending) : Pending[j].id = "START"

(* With a leftover, nobody takes the station for connected.                 *)
LeftAlone == radio \notin {"linked", "stopped"} /\ "CONNECTED" \in leftover =>
  \/ Any(Pending, {"START"}) \/ Any(sysQueue, {"DISCONNECTED"})
  \/ status # "WL_CONNECTED" /\ ~Any(Pending, {"GOT_IP"})

(* A status that is out of date is about to change, or the callback is busy *)
(* with a link that expired.                                                *)
StatusWillBe == autoReconnect /\ radio = "idle" /\ status = "WL_CONNECTED" =>
  Any(Pending, Resets) \/ callback # "idle"

Typed ==
  /\ sysQueue \in Seq(Events) /\ queue \in Seq(Events)
  /\ posting \in Events \cup {NoEvent}
  /\ {enabled, registered, listening, netif, autoReconnect} \subseteq BOOLEAN
  /\ radio \in {"stopped", "idle", "connecting", "linked"}

Known ==
  /\ LinkIsKnown /\ StartIsKnown
  /\ OldAddress /\ OldLink /\ LeftAlone /\ StatusWillBe

Inv == Typed /\ Begun /\ Known

-----------------------------------------------------------------------------
(* Events.                                                                  *)
EventIds == {"START", "STOP", "CONNECTED", "GOT_IP", "DISCONNECTED"}

LEMMA EventFields ==
  ASSUME NEW e \in Events
  PROVE  e.id \in EventIds /\ (e.id = "DISCONNECTED" => e.reason \in AllReasons)
BY DEF Events, Event, Disconnected, EventIds

LEMMA EventIsTyped ==
  /\ \A id \in {"START", "STOP", "CONNECTED", "GOT_IP"} : Event(id) \in Events /\ Event(id).id = id
  /\ \A r \in AllReasons : Disconnected(r) \in Events /\ Disconnected(r).id = "DISCONNECTED"
BY DEF Events, Event, Disconnected

LEMMA AskedToLeave == Disconnected("ASSOC_LEAVE") \in Events
BY EventIsTyped DEF AllReasons

(* An event more.                                                           *)
LEMMA OneMore ==
  ASSUME NEW q \in Seq(Events), NEW e \in Events, NEW r, r = Append(q, e)
  PROVE  /\ r \in Seq(Events) /\ Len(r) = Len(q) + 1 /\ Len(q) \in Nat
         /\ \A i \in 1 .. Len(q) : r[i] = q[i]
         /\ r[Len(q) + 1] = e
BY AppendProperties

Grows(q, r, e) == \A ids :
  /\ Any(q, ids) => Any(r, ids)
  /\ e.id \in ids => Any(r, ids)
  /\ Any(r, ids) => e.id \in ids \/ Any(q, ids)
  /\ e.id \in ids => LastIs(r, e.id, ids)
  /\ \A id : e.id \notin ids /\ LastIs(q, id, ids) => LastIs(r, id, ids)
  /\ \A id : e.id \in ids /\ e.id # id => Follows(r, id, ids)
  /\ \A id : e.id # id /\ Follows(q, id, ids) => Follows(r, id, ids)

LEMMA MoreEvents ==
  ASSUME NEW q \in Seq(Events), NEW e \in Events, NEW r, r = Append(q, e)
  PROVE  Grows(q, r, e)
<1> SUFFICES ASSUME NEW ids
             PROVE  /\ Any(q, ids) => Any(r, ids)
                    /\ e.id \in ids => Any(r, ids)
                    /\ Any(r, ids) => e.id \in ids \/ Any(q, ids)
                    /\ e.id \in ids => LastIs(r, e.id, ids)
                    /\ \A id : e.id \notin ids /\ LastIs(q, id, ids) => LastIs(r, id, ids)
                    /\ \A id : e.id \in ids /\ e.id # id => Follows(r, id, ids)
                    /\ \A id : e.id # id /\ Follows(q, id, ids) => Follows(r, id, ids)
  BY DEF Grows
<1>1. /\ r \in Seq(Events) /\ Len(r) = Len(q) + 1 /\ Len(q) \in Nat
      /\ \A i \in 1 .. Len(q) : r[i] = q[i]
      /\ r[Len(q) + 1] = e
  BY OneMore
<1>2. Any(q, ids) => Any(r, ids)
  BY <1>1 DEF Any
<1>3. e.id \in ids => Any(r, ids)
  BY <1>1 DEF Any
<1>4. Any(r, ids) => e.id \in ids \/ Any(q, ids)
  BY <1>1 DEF Any
<1>5. e.id \in ids => LastIs(r, e.id, ids)
  <2>1. Len(q) + 1 \in 1 .. Len(r) /\ r[Len(q) + 1].id = e.id
        /\ \A j \in Len(q) + 1 + 1 .. Len(r) : FALSE
    BY <1>1
  <2> QED BY <2>1 DEF LastIs, NoneAfter
<1>6. ASSUME NEW id, e.id \notin ids, LastIs(q, id, ids) PROVE LastIs(r, id, ids)
  <2>1. PICK i \in 1 .. Len(q) : q[i].id = id /\ NoneAfter(q, i, ids)
    BY <1>6 DEF LastIs
  <2>2. i \in 1 .. Len(r) /\ r[i].id = id
    BY <1>1, <2>1
  <2>3. \A j \in i + 1 .. Len(r) : r[j].id \notin ids
    BY <1>1, <1>6, <2>1 DEF NoneAfter
  <2> QED BY <2>2, <2>3 DEF LastIs, NoneAfter
<1>7. ASSUME NEW id, e.id \in ids, e.id # id PROVE Follows(r, id, ids)
  <2>1. ASSUME NEW i \in 1 .. Len(r), r[i].id = id
        PROVE  Len(q) + 1 \in i + 1 .. Len(r) /\ r[Len(q) + 1].id \in ids
    BY <1>1, <1>7, <2>1
  <2> QED BY <2>1 DEF Follows
<1>8. ASSUME NEW id, e.id # id, Follows(q, id, ids) PROVE Follows(r, id, ids)
  <2> SUFFICES ASSUME NEW i \in 1 .. Len(r), r[i].id = id
               PROVE  \E j \in i + 1 .. Len(r) : r[j].id \in ids
    BY DEF Follows
  <2>1. i \in 1 .. Len(q) /\ q[i].id = id
    BY <1>1, <1>8
  <2>2. PICK j \in i + 1 .. Len(q) : q[j].id \in ids
    BY <1>8, <2>1 DEF Follows
  <2>3. j \in i + 1 .. Len(r) /\ r[j].id \in ids
    BY <1>1, <2>1, <2>2
  <2> QED BY <2>3
<1> QED BY <1>2, <1>3, <1>4, <1>5, <1>6, <1>7, <1>8

(* An event less.                                                           *)
LEMMA OneLess ==
  ASSUME NEW q \in Seq(Events), q # <<>>, NEW r, r = Tail(q)
  PROVE  /\ r \in Seq(Events) /\ Len(q) \in Nat \ {0} /\ Len(r) = Len(q) - 1
         /\ Head(q) = q[1] /\ Head(q) \in Events
         /\ \A i \in 1 .. Len(q) - 1 : r[i] = q[i + 1]
BY HeadTailProperties, EmptySeq

Shrinks(q, r) == \A ids :
  /\ Any(q, ids) => Head(q).id \in ids \/ Any(r, ids)
  /\ Head(q).id \in ids \/ Any(r, ids) => Any(q, ids)
  /\ \A id : Follows(q, id, ids) => /\ Follows(r, id, ids)
                                    /\ Head(q).id = id => Any(r, ids)
  /\ \A id \in ids : LastIs(q, id, ids) =>
       LastIs(r, id, ids) \/ (Head(q).id = id /\ ~Any(r, ids))

LEMMA FewerEvents ==
  ASSUME NEW q \in Seq(Events), q # <<>>, NEW r, r = Tail(q)
  PROVE  Shrinks(q, r)
<1> SUFFICES ASSUME NEW ids
             PROVE  /\ Any(q, ids) => Head(q).id \in ids \/ Any(r, ids)
                    /\ Head(q).id \in ids \/ Any(r, ids) => Any(q, ids)
                    /\ \A id : Follows(q, id, ids) => /\ Follows(r, id, ids)
                                                      /\ Head(q).id = id => Any(r, ids)
                    /\ \A id \in ids : LastIs(q, id, ids) =>
                         LastIs(r, id, ids) \/ (Head(q).id = id /\ ~Any(r, ids))
  BY DEF Shrinks
<1>1. /\ r \in Seq(Events) /\ Len(q) \in Nat \ {0} /\ Len(r) = Len(q) - 1
      /\ Head(q) = q[1] /\ Head(q) \in Events
      /\ \A i \in 1 .. Len(q) - 1 : r[i] = q[i + 1]
  BY OneLess
<1>2. \A i \in 2 .. Len(q) : i - 1 \in 1 .. Len(r) /\ q[i] = r[i - 1]
  BY <1>1
<1>3. Any(q, ids) => Head(q).id \in ids \/ Any(r, ids)
  <2>1. ASSUME NEW i \in 1 .. Len(q), q[i].id \in ids
        PROVE  Head(q).id \in ids \/ Any(r, ids)
    <3>1. CASE i = 1
      BY <1>1, <2>1, <3>1
    <3>2. CASE i # 1
      <4>1. i - 1 \in 1 .. Len(r) /\ q[i] = r[i - 1]
        BY <1>1, <1>2, <3>2
      <4> QED BY <2>1, <4>1 DEF Any
    <3> QED BY <3>1, <3>2
  <2> QED BY <2>1 DEF Any
<1>4. Head(q).id \in ids \/ Any(r, ids) => Any(q, ids)
  <2>1. ASSUME NEW i \in 1 .. Len(r), r[i].id \in ids
        PROVE  i + 1 \in 1 .. Len(q) /\ q[i + 1].id \in ids
    BY <1>1, <2>1
  <2>2. 1 \in 1 .. Len(q) /\ q[1] = Head(q)
    BY <1>1
  <2> QED BY <2>1, <2>2 DEF Any
<1>5. ASSUME NEW id, Follows(q, id, ids)
      PROVE  Follows(r, id, ids) /\ (Head(q).id = id => Any(r, ids))
  <2>1. ASSUME NEW i \in 1 .. Len(r), r[i].id = id
        PROVE  \E j \in i + 1 .. Len(r) : r[j].id \in ids
    <3>1. i + 1 \in 1 .. Len(q) /\ q[i + 1].id = id
      BY <1>1, <2>1
    <3>2. PICK j \in i + 1 + 1 .. Len(q) : q[j].id \in ids
      BY <1>5, <3>1 DEF Follows
    <3>3. j - 1 \in i + 1 .. Len(r) /\ r[j - 1] = q[j]
      BY <1>1, <3>1, <3>2
    <3> QED BY <3>2, <3>3
  <2>2. ASSUME Head(q).id = id PROVE Any(r, ids)
    <3>1. 1 \in 1 .. Len(q) /\ q[1].id = id
      BY <1>1, <2>2
    <3>2. PICK j \in 1 + 1 .. Len(q) : q[j].id \in ids
      BY <1>5, <3>1 DEF Follows
    <3>3. j - 1 \in 1 .. Len(r) /\ r[j - 1] = q[j]
      BY <1>1, <3>2
    <3> QED BY <3>2, <3>3 DEF Any
  <2> QED BY <2>1, <2>2 DEF Follows
<1>6. ASSUME NEW id \in ids, LastIs(q, id, ids)
      PROVE  LastIs(r, id, ids) \/ (Head(q).id = id /\ ~Any(r, ids))
  <2>1. PICK i \in 1 .. Len(q) : q[i].id = id /\ \A j \in i + 1 .. Len(q) : q[j].id \notin ids
    BY <1>6 DEF LastIs, NoneAfter
  <2>2. CASE i = 1
    <3>1. \A j \in 1 .. Len(r) : r[j].id \notin ids
      BY <1>1, <2>1, <2>2
    <3> QED BY <1>1, <2>1, <2>2, <3>1 DEF Any
  <2>3. CASE i # 1
    <3>1. i - 1 \in 1 .. Len(r) /\ r[i - 1].id = id
      BY <1>1, <2>1, <2>3
    <3>2. \A j \in i - 1 + 1 .. Len(r) : r[j].id \notin ids
      BY <1>1, <2>1, <2>3
    <3> QED BY <3>1, <3>2 DEF LastIs, NoneAfter
  <2> QED BY <2>2, <2>3
<1> QED BY <1>3, <1>4, <1>5, <1>6

(* Of the events with these ids there is a last one, or none at all.        *)
LEMMA LastIsThere ==
  ASSUME NEW q, NEW id, NEW ids, id \in ids, LastIs(q, id, ids)
  PROVE  Any(q, ids) /\ Any(q, {id})
BY DEF LastIs, Any

LEMMA NoEventsLeft == \A ids : ~Any(<<>>, ids)
BY DEF Any
-----------------------------------------------------------------------------
(* The pipeline: its parts, and what a step of each task does to it.        *)
LEMMA PendingIs ==
  ASSUME Typed
  PROVE  /\ Posting \in Seq(Events) /\ Handled \in Seq(Events) /\ Pending \in Seq(Events)
         /\ Len(Handled) \in Nat /\ Len(sysQueue) \in Nat
         /\ Len(Pending) = Len(Handled) + Len(sysQueue)
         /\ \A i \in 1 .. Len(Handled) : Pending[i] = Handled[i]
         /\ \A i \in 1 .. Len(sysQueue) : Pending[Len(Handled) + i] = sysQueue[i]
<1>1. Posting \in Seq(Events) /\ queue \in Seq(Events) /\ sysQueue \in Seq(Events)
  BY DEF Posting, Typed
<1>2. Handled \in Seq(Events)
  BY ONLY <1>1, ConcatProperties DEF Handled
<1> DEFINE h == Handled
<1>3. h \in Seq(Events) /\ Pending = h \o sysQueue
  BY <1>2 DEF Pending
<1> HIDE DEF h
<1>4. /\ Pending \in Seq(Events) /\ Len(Pending) = Len(h) + Len(sysQueue)
      /\ \A i \in 1 .. Len(h) + Len(sysQueue) :
           Pending[i] = IF i <= Len(h) THEN h[i] ELSE sysQueue[i - Len(h)]
      /\ Len(h) \in Nat /\ Len(sysQueue) \in Nat
  BY ONLY <1>1, <1>3, ConcatProperties, LenProperties
<1>5. \A i \in 1 .. Len(h) : Pending[i] = h[i]
  BY <1>4
<1>6. \A i \in 1 .. Len(sysQueue) : Pending[Len(h) + i] = sysQueue[i]
  BY <1>4
<1> QED BY <1>1, <1>2, <1>4, <1>5, <1>6 DEF h

LEMMA SystemEventsArePending ==
  ASSUME Typed, NEW ids, Any(sysQueue, ids)
  PROVE  Any(Pending, ids)
<1>1. PICK i \in 1 .. Len(sysQueue) : sysQueue[i].id \in ids
  BY DEF Any
<1>2. Len(Handled) + i \in 1 .. Len(Pending) /\ Pending[Len(Handled) + i] = sysQueue[i]
  BY <1>1, PendingIs
<1> QED BY <1>1, <1>2 DEF Any

Announced(e) ==
  /\ sysQueue' = Append(sysQueue, e) /\ UNCHANGED <<queue, posting>>

LEMMA AnnouncedPipeline ==
  ASSUME Typed, NEW e \in Events, Announced(e)
  PROVE  Handled' = Handled /\ Pending' = Append(Pending, e) /\ sysQueue' \in Seq(Events)
<1>1. Handled' = Handled
  BY DEF Announced, Handled, Posting
<1> DEFINE h == Handled
<1>2. h \in Seq(Events) /\ sysQueue \in Seq(Events)
  BY PendingIs DEF Typed
<1>3. Pending = h \o sysQueue /\ Pending' = h \o Append(sysQueue, e)
      /\ sysQueue' = Append(sysQueue, e)
  BY <1>1 DEF Pending, Announced
<1> HIDE DEF h
<1>4. h \o Append(sysQueue, e) = Append(h \o sysQueue, e)
  <2>1. <<e>> \in Seq(Events) /\ h \o sysQueue \in Seq(Events)
    BY <1>2, ConcatProperties
  <2>2. /\ Append(sysQueue, e) = sysQueue \o <<e>>
        /\ Append(h \o sysQueue, e) = (h \o sysQueue) \o <<e>>
    BY <1>2, <2>1, AppendIsConcat
  <2> QED BY ONLY <1>2, <2>1, <2>2, ConcatAssociative
<1> QED BY <1>1, <1>2, <1>3, <1>4, AppendProperties

LEMMA AnnounceOne ==
  ASSUME Typed, NEW e \in Events, Announce(<<e>>), UNCHANGED <<queue, posting>>
  PROVE  Announced(e)
<1>1. sysQueue \in Seq(Events)
  BY DEF Typed
<1> QED BY <1>1, AppendIsConcat DEF Announce, Announced

Delivers(e) ==
  /\ sysQueue # <<>> /\ posting = NoEvent /\ e = Head(sysQueue)
  /\ sysQueue' = Tail(sysQueue) /\ posting' = e /\ queue' = queue

LEMMA DeliveredPipeline ==
  ASSUME Typed, NEW e, Delivers(e)
  PROVE  /\ Handled' = Append(Handled, e) /\ Pending' = Pending
         /\ e \in Events /\ sysQueue' \in Seq(Events)
         /\ e = Pending[Len(Handled) + 1] /\ Len(Handled) + 1 \in 1 .. Len(Pending)
<1>1. /\ sysQueue \in Seq(Events) /\ queue \in Seq(Events) /\ <<e>> \in Seq(Events)
      /\ e \in Events /\ sysQueue' \in Seq(Events) /\ sysQueue' = Tail(sysQueue)
      /\ Len(sysQueue) \in Nat \ {0} /\ e = sysQueue[1]
  BY OneLess DEF Typed, Delivers
<1>2. Posting = <<>> /\ Posting' = <<e>>
  BY <1>1, NoEventAssumption DEF Posting, Delivers
<1>3. Handled = queue /\ Handled' = queue \o <<e>>
  <2>1. queue \o <<>> = queue
    BY <1>1, ConcatEmptySeq
  <2> QED BY <1>2, <2>1 DEF Handled, Delivers
<1>4. Pending = queue \o sysQueue /\ Pending' = (queue \o <<e>>) \o Tail(sysQueue)
  BY <1>1, <1>3 DEF Pending
<1>5. (queue \o <<e>>) \o Tail(sysQueue) = queue \o (<<e>> \o Tail(sysQueue))
  BY ONLY <1>1, ConcatAssociative
<1>6. <<e>> \o Tail(sysQueue) = sysQueue
  <2> DEFINE s == sysQueue
             u == Tail(sysQueue)
             w == <<e>> \o u
  <2>1. /\ s \in Seq(Events) /\ u \in Seq(Events) /\ Len(s) \in Nat \ {0}
        /\ Len(u) = Len(s) - 1 /\ e = s[1] /\ \A i \in 1 .. Len(s) - 1 : u[i] = s[i + 1]
    BY <1>1, OneLess
  <2> HIDE DEF s, u
  <2>2. /\ w \in Seq(Events) /\ Len(w) = 1 + Len(u)
        /\ \A i \in 1 .. 1 + Len(u) : w[i] = IF i <= 1 THEN <<e>>[i] ELSE u[i - 1]
    BY <1>1, <2>1, ConcatProperties
  <2> HIDE DEF w
  <2>3. \A i \in 1 .. Len(w) : w[i] = s[i]
    <3> SUFFICES ASSUME NEW i \in 1 .. Len(w) PROVE w[i] = s[i]
      OBVIOUS
    <3>1. CASE i = 1
      BY <2>1, <2>2, <3>1
    <3>2. CASE i # 1
      <4>1. i - 1 \in 1 .. Len(s) - 1
        BY <2>1, <2>2, <3>2
      <4>2. w[i] = u[i - 1] /\ u[i - 1] = s[i - 1 + 1]
        BY <2>1, <2>2, <3>2, <4>1
      <4> QED BY <2>2, <4>2
    <3> QED BY <3>1, <3>2
  <2>4. w = s
    BY <2>1, <2>2, <2>3, SeqEqual
  <2> QED BY <2>4 DEF w, s, u
<1>7. Pending' = Pending
  BY <1>4, <1>5, <1>6
<1>8. Handled' = Append(Handled, e)
  BY <1>1, <1>3, AppendIsConcat
<1>9. e = Pending[Len(Handled) + 1] /\ Len(Handled) + 1 \in 1 .. Len(Pending)
  BY <1>1, PendingIs
<1> QED BY <1>1, <1>7, <1>8, <1>9

LEMMA PostedPipeline ==
  ASSUME Typed, PostEvent
  PROVE  /\ Handled' = Handled /\ Pending' = Pending /\ sysQueue' = sysQueue
         /\ queue' \in Seq(Events) /\ posting' = NoEvent
<1>1. /\ posting \in Events /\ queue \in Seq(Events) /\ queue' = Append(queue, posting)
      /\ posting' = NoEvent /\ sysQueue' = sysQueue
  BY DEF PostEvent, Typed
<1>2. Posting = <<posting>> /\ Posting' = <<>>
  BY <1>1, NoEventAssumption DEF Posting
<1>3. queue' = queue \o <<posting>> /\ queue' \in Seq(Events)
  BY <1>1, AppendIsConcat, AppendProperties
<1>4. queue' \o <<>> = queue'
  BY <1>3, ConcatEmptySeq
<1>5. Handled' = Handled
  BY <1>2, <1>3, <1>4 DEF Handled
<1> QED BY <1>1, <1>3, <1>5 DEF Pending

LEMMA TailOfConcat ==
  ASSUME NEW a \in Seq(Events), NEW b \in Seq(Events), a # <<>>
  PROVE  Tail(a \o b) = Tail(a) \o b /\ a \o b # <<>> /\ Head(a \o b) = Head(a)
<1> DEFINE c == a \o b
           d == Tail(a)
           r == d \o b
<1>1. /\ c \in Seq(Events) /\ Len(c) = Len(a) + Len(b)
      /\ \A i \in 1 .. Len(a) + Len(b) : c[i] = IF i <= Len(a) THEN a[i] ELSE b[i - Len(a)]
      /\ Len(a) \in Nat \ {0} /\ Len(b) \in Nat
  BY ConcatProperties, EmptySeq, LenProperties
<1>2. d \in Seq(Events) /\ Len(d) = Len(a) - 1 /\ \A i \in 1 .. Len(a) - 1 : d[i] = a[i + 1]
  BY OneLess
<1> HIDE DEF c, d
<1>3. /\ r \in Seq(Events) /\ Len(r) = Len(d) + Len(b)
      /\ \A i \in 1 .. Len(d) + Len(b) : r[i] = IF i <= Len(d) THEN d[i] ELSE b[i - Len(d)]
  BY <1>2, ConcatProperties
<1> HIDE DEF r
<1>4. c # <<>> /\ Head(c) = c[1] /\ Head(a) = a[1]
  <2>1. Len(c) # 0
    BY <1>1
  <2>2. c # <<>>
    BY <2>1
  <2> QED BY <1>1, <2>2, OneLess
<1>5. Tail(c) \in Seq(Events) /\ Len(Tail(c)) = Len(c) - 1
      /\ \A i \in 1 .. Len(c) - 1 : Tail(c)[i] = c[i + 1]
  BY <1>1, <1>4, OneLess
<1>6. Len(Tail(c)) = Len(r)
  BY <1>1, <1>2, <1>3, <1>5
<1>7. \A i \in 1 .. Len(r) : Tail(c)[i] = r[i]
  <2> SUFFICES ASSUME NEW i \in 1 .. Len(r) PROVE Tail(c)[i] = r[i]
    OBVIOUS
  <2>1. i \in 1 .. Len(c) - 1 /\ i + 1 \in 1 .. Len(a) + Len(b) /\ i \in 1 .. Len(d) + Len(b)
    BY <1>1, <1>2, <1>3
  <2>2. Tail(c)[i] = c[i + 1]
    BY <1>5, <2>1
  <2>3. CASE i <= Len(d)
    <3>1. i + 1 <= Len(a) /\ i \in 1 .. Len(a) - 1
      BY <1>1, <1>2, <2>1, <2>3
    <3>2. c[i + 1] = a[i + 1] /\ r[i] = d[i] /\ d[i] = a[i + 1]
      BY <1>1, <1>2, <1>3, <2>1, <2>3, <3>1
    <3> QED BY <2>2, <3>2
  <2>4. CASE ~(i <= Len(d))
    <3>1. ~(i + 1 <= Len(a)) /\ i + 1 - Len(a) = i - Len(d)
      BY <1>1, <1>2, <2>1, <2>4
    <3>2. c[i + 1] = b[i + 1 - Len(a)] /\ r[i] = b[i - Len(d)]
      BY <1>1, <1>3, <2>1, <2>4, <3>1
    <3> QED BY <2>2, <3>1, <3>2
  <2> QED BY <2>3, <2>4
<1>8. Tail(c) = r
  BY <1>3, <1>5, <1>6, <1>7, SeqEqual
<1>9. Head(c) = Head(a)
  BY <1>1, <1>4
<1> QED BY <1>4, <1>8, <1>9 DEF c, d, r

LEMMA TakenPipeline ==
  ASSUME Typed, queue # <<>>, queue' = Tail(queue), UNCHANGED <<posting, sysQueue>>
  PROVE  /\ Handled # <<>> /\ Handled' = Tail(Handled) /\ Head(Handled) = Head(queue)
         /\ Pending # <<>> /\ Pending' = Tail(Pending) /\ Head(Pending) = Head(queue)
         /\ queue' \in Seq(Events) /\ Head(queue) \in Events
<1>1. /\ queue \in Seq(Events) /\ queue' \in Seq(Events) /\ Head(queue) \in Events
      /\ Posting \in Seq(Events) /\ sysQueue \in Seq(Events) /\ Handled \in Seq(Events)
  BY OneLess, PendingIs DEF Typed
<1>2. /\ Handled = queue \o Posting /\ Handled' = Tail(queue) \o Posting
  BY DEF Handled, Posting
<1>3. Handled # <<>> /\ Handled' = Tail(Handled) /\ Head(Handled) = Head(queue)
  BY <1>1, <1>2, TailOfConcat
<1>4. Pending = Handled \o sysQueue /\ Pending' = Tail(Handled) \o sysQueue
  BY <1>3 DEF Pending
<1>5. Pending # <<>> /\ Pending' = Tail(Pending) /\ Head(Pending) = Head(Handled)
  BY <1>1, <1>3, <1>4, TailOfConcat
<1> QED BY <1>1, <1>3, <1>5

-----------------------------------------------------------------------------
(* The history variable: what is left over is set, and nothing is left over *)
(* anew while the interface is there or bits are cleared only.              *)
LEMMA LeftoverIs ==
  ASSUME History
  PROVE  /\ bits' \subseteq bits \/ netif => leftover' = leftover \cap bits'
         /\ bits \subseteq leftover /\ ~netif => bits' \subseteq leftover'
BY DEF History

(* Steps that announce and handle nothing.                                  *)
LEMMA StillStep ==
  ASSUME Inv, History, Handled' = Handled, Pending' = Pending, sysQueue' = sysQueue,
         status' = status, autoReconnect' = autoReconnect, enabled' = enabled,
         bits' \in {bits, bits \ {"HAS_IP"}},
         radio' = radio \/ (radio = "idle" /\ radio' = "connecting"),
         callback' = callback \/ radio' # "idle" \/ callback' # "idle" \/ StatusWillBe'
  PROVE  Known'
<1>1. leftover' = leftover \cap bits' /\ (connected' <=> connected)
      /\ ("STARTED" \in bits' <=> "STARTED" \in bits)
  BY LeftoverIs DEF connected
<1>2. Known
  BY DEF Inv
<1>3. LinkIsKnown'
  BY <1>1, <1>2 DEF Known, LinkIsKnown, connected
<1>4. StartIsKnown'
  BY <1>1, <1>2 DEF Known, StartIsKnown
<1>5. OldAddress'
  BY <1>2 DEF Known, OldAddress
<1>6. OldLink'
  BY <1>1, <1>2 DEF Known, OldLink
<1>7. LeftAlone'
  BY <1>1, <1>2 DEF Known, LeftAlone
<1>8. StatusWillBe'
  BY <1>2 DEF Known, StatusWillBe
<1> QED BY <1>3, <1>4, <1>5, <1>6, <1>7, <1>8 DEF Known

(* The link, or the attempt, ends.                                          *)
LEMMA AnnouncedFacts ==
  ASSUME Typed, NEW e \in Events, Announced(e)
  PROVE  /\ Handled' = Handled /\ Pending' = Append(Pending, e)
         /\ Grows(Pending, Pending', e) /\ Grows(sysQueue, sysQueue', e)
         /\ Handled \in Seq(Events) /\ Pending \in Seq(Events) /\ sysQueue' \in Seq(Events)
         /\ \A i \in 1 .. Len(Handled) :
              /\ Len(Pending) + 1 \in i + 1 .. Len(Pending')
              /\ \A j \in i + 1 .. Len(Pending) :
                   j \in i + 1 .. Len(Pending') /\ Pending'[j] = Pending[j]
         /\ Pending'[Len(Pending) + 1] = e
<1>1. /\ Handled' = Handled /\ Pending' = Append(Pending, e)
      /\ Handled \in Seq(Events) /\ Pending \in Seq(Events) /\ sysQueue' \in Seq(Events)
      /\ sysQueue \in Seq(Events) /\ sysQueue' = Append(sysQueue, e)
  BY AnnouncedPipeline, PendingIs DEF Typed, Announced
<1>2. Grows(Pending, Pending', e)
  BY ONLY <1>1, MoreEvents
<1>3. Grows(sysQueue, sysQueue', e)
  BY ONLY <1>1, MoreEvents
<1>4. /\ Len(Pending') = Len(Pending) + 1 /\ Pending'[Len(Pending) + 1] = e
      /\ \A i \in 1 .. Len(Pending) : Pending'[i] = Pending[i]
  BY ONLY <1>1, OneMore
<1>5. Len(Pending) = Len(Handled) + Len(sysQueue) /\ Len(Handled) \in Nat /\ Len(sysQueue) \in Nat
  BY PendingIs
<1>6. ASSUME NEW i \in 1 .. Len(Handled)
      PROVE  /\ Len(Pending) + 1 \in i + 1 .. Len(Pending')
             /\ \A j \in i + 1 .. Len(Pending) :
                  j \in i + 1 .. Len(Pending') /\ Pending'[j] = Pending[j]
  BY ONLY <1>4, <1>5, <1>6
<1> QED BY <1>1, <1>2, <1>3, <1>4, <1>6

(* An event that is announced after those that are handled.                 *)
LEMMA OldLinkIsKept ==
  ASSUME Typed, OldLink, NEW e \in Events, Announced(e), enabled, "CONNECTED" \in leftover
  PROVE  OldLink'
<1>1. SUFFICES ASSUME NEW i \in 1 .. Len(Handled), Handled[i].id = "DISCONNECTED"
               PROVE  \E j \in i + 1 .. Len(Pending') : Pending'[j].id = "START"
  BY AnnouncedFacts DEF OldLink
<1>2. PICK j \in i + 1 .. Len(Pending) : Pending[j].id = "START"
  BY <1>1 DEF OldLink
<1> QED BY <1>2, AnnouncedFacts

(* The link, or the attempt, ends.                                          *)
LEMMA LinkEnds ==
  ASSUME Inv, History, NEW e \in Events, e.id = "DISCONNECTED", Announced(e),
         radio \in {"connecting", "linked"}, radio' = "idle",
         UNCHANGED <<bits, status, autoReconnect, enabled>>
  PROVE  Known'
<1>1. Handled' = Handled /\ Grows(Pending, Pending', e) /\ Grows(sysQueue, sysQueue', e)
  BY AnnouncedFacts DEF Inv
<1>2. leftover' = leftover \cap bits'
  BY LeftoverIs
<1>3. LinkIsKnown'
  BY <1>1 DEF LinkIsKnown, LinkEvents, Grows
<1>4. StartIsKnown'
  BY <1>1 DEF Inv, Known, StartIsKnown, Grows
<1>5. OldAddress'
  BY <1>1 DEF OldAddress, Resets, Grows
<1>6. OldLink'
  BY <1>2, OldLinkIsKept DEF Inv, Known, OldLink
<1>7. LeftAlone'
  BY <1>1 DEF LeftAlone, Grows
<1>8. StatusWillBe'
  BY <1>1 DEF StatusWillBe, Resets, Grows
<1> QED BY <1>3, <1>4, <1>5, <1>6, <1>7, <1>8 DEF Known

LEMMA LinkUpKeepsKnown ==
  ASSUME Inv, History, LinkUp
  PROVE  Known'
<1> DEFINE e == Event("CONNECTED")
<1>1. /\ e \in Events /\ e.id = "CONNECTED" /\ Announced(e) /\ radio' = "linked"
      /\ UNCHANGED <<bits, status, enabled>>
  BY EventIsTyped, AnnounceOne DEF Inv, LinkUp, interface
<1> HIDE DEF e
<1>2. Handled' = Handled /\ Grows(Pending, Pending', e) /\ Grows(sysQueue, sysQueue', e)
  BY <1>1, AnnouncedFacts DEF Inv
<1>3. leftover' = leftover \cap bits'
  BY <1>1, LeftoverIs
<1>4. LinkIsKnown'
  BY <1>1, <1>2 DEF LinkIsKnown, LinkEvents, Grows
<1>5. StartIsKnown'
  BY <1>1, <1>2 DEF Inv, Known, StartIsKnown, Grows
<1>6. OldLink'
  BY <1>1, <1>3, OldLinkIsKept DEF Inv, Known, OldLink
<1>7. OldAddress' /\ LeftAlone' /\ StatusWillBe'
  BY <1>1 DEF OldAddress, LeftAlone, StatusWillBe
<1> QED BY <1>4, <1>5, <1>6, <1>7 DEF Known

LEMMA GetAddressKeepsKnown ==
  ASSUME Inv, History, GetAddress
  PROVE  Known'
<1> DEFINE e == Event("GOT_IP")
<1>1. /\ e \in Events /\ e.id = "GOT_IP" /\ Announced(e) /\ radio = "linked" /\ radio' = radio
      /\ UNCHANGED <<bits, status, enabled>>
  BY EventIsTyped, AnnounceOne DEF Inv, GetAddress, interface
<1> HIDE DEF e
<1>2. Handled' = Handled /\ Grows(Pending, Pending', e) /\ Grows(sysQueue, sysQueue', e)
  BY <1>1, AnnouncedFacts DEF Inv
<1>3. leftover' = leftover \cap bits' /\ connected' = connected
  BY <1>1, LeftoverIs DEF connected
<1>4. LinkIsKnown'
  BY <1>1, <1>2, <1>3 DEF Inv, Known, LinkIsKnown, LinkEvents, Grows
<1>5. StartIsKnown'
  BY <1>1, <1>2 DEF Inv, Known, StartIsKnown, Grows
<1>6. OldLink'
  BY <1>1, <1>3, OldLinkIsKept DEF Inv, Known, OldLink
<1>7. OldAddress' /\ LeftAlone' /\ StatusWillBe'
  BY <1>1 DEF OldAddress, LeftAlone, StatusWillBe
<1> QED BY <1>4, <1>5, <1>6, <1>7 DEF Known

LEMMA EspWifiStartKeepsKnown ==
  ASSUME Inv, History, EspWifiStart
  PROVE  Known'
<1> DEFINE e == Event("START")
<1>1. /\ e \in Events /\ e.id = "START" /\ Announced(e) /\ radio' = "idle"
      /\ sketch = "start" /\ UNCHANGED <<bits, status>>
  BY EventIsTyped, AnnounceOne DEF Inv, EspWifiStart
<1>2. radio = "stopped" /\ netif
  BY <1>1 DEF Inv, Begun
<1> HIDE DEF e
<1>3. Handled' = Handled /\ Grows(Pending, Pending', e) /\ Grows(sysQueue, sysQueue', e)
  BY <1>1, AnnouncedFacts DEF Inv
<1>4. leftover' = leftover \cap bits' /\ (connected' <=> connected)
  BY <1>1, LeftoverIs DEF connected
<1>5. LinkIsKnown'
  BY <1>1, <1>2, <1>3, <1>4 DEF Inv, Known, LinkIsKnown, LinkEvents, Grows, connected
<1>6. StartIsKnown'
  BY <1>1, <1>3 DEF StartIsKnown, Grows
<1>7. OldAddress'
  BY <1>1, <1>3 DEF OldAddress, Resets, Grows
<1>8. OldLink'
  <2>1. ASSUME NEW i \in 1 .. Len(Handled)
        PROVE  /\ Len(Pending) + 1 \in i + 1 .. Len(Pending')
               /\ Pending'[Len(Pending) + 1].id = "START"
    BY <1>1, AnnouncedFacts DEF Inv
  <2> QED BY <1>3, <2>1 DEF OldLink
<1>9. LeftAlone' /\ StatusWillBe'
  BY <1>1, <1>3 DEF LeftAlone, StatusWillBe, Resets, Grows
<1> QED BY <1>5, <1>6, <1>7, <1>8, <1>9 DEF Known

(* Without the station only the link that is reported matters.              *)
LEMMA OffIsKnown ==
  ASSUME ~enabled', radio' = "stopped", LinkIsKnown'
  PROVE  Known'
BY DEF Known, StartIsKnown, OldAddress, OldLink, LeftAlone, StatusWillBe

LEMMA EndedQueue ==
  ASSUME Typed, CallEnd
  PROVE  sysQueue' \in Seq(Events) /\ LastIs(sysQueue', "STOP", LinkEvents)
<1> DEFINE e == Event("STOP")
           d == Disconnected("ASSOC_LEAVE")
           first == IF radio = "idle" THEN <<>> ELSE <<d>>
           q == sysQueue \o first
<1>1. e \in Events /\ e.id = "STOP" /\ d \in Events /\ sysQueue \in Seq(Events)
  BY EventIsTyped, AskedToLeave DEF Typed
<1>2. sysQueue' = sysQueue \o (first \o <<e>>)
  BY DEF CallEnd, Announce
<1> HIDE DEF e, d
<1>3. first \in Seq(Events) /\ <<e>> \in Seq(Events)
  BY <1>1
<1> HIDE DEF first
<1>4. sysQueue' = q \o <<e>>
  BY <1>1, <1>2, <1>3, ConcatAssociative
<1>5. q \in Seq(Events)
  BY <1>1, <1>3, ConcatProperties
<1> HIDE DEF q
<1>6. sysQueue' = Append(q, e)
  BY <1>1, <1>4, <1>5, AppendIsConcat
<1>7. Grows(q, sysQueue', e) /\ sysQueue' \in Seq(Events)
  BY <1>1, <1>5, <1>6, MoreEvents, AppendProperties
<1> QED BY <1>1, <1>7 DEF Grows, LinkEvents

LEMMA CallEndKeepsKnown ==
  ASSUME Inv, CallEnd
  PROVE  Known'
<1>1. LastIs(sysQueue', "STOP", LinkEvents)
  BY EndedQueue DEF Inv
<1>2. ~enabled' /\ radio' = "stopped"
  BY DEF CallEnd
<1> QED BY <1>1, <1>2, OffIsKnown DEF LinkIsKnown

LEMMA DestroyNetifKeepsKnown ==
  ASSUME Inv, DestroyNetif
  PROVE  Known'
<1>1. ~enabled' /\ radio' = "stopped" /\ radio = "stopped" /\ ~connected' /\ sysQueue' = sysQueue
  BY DEF DestroyNetif, Inv, Begun, driver, connected
<1>2. LinkIsKnown'
  BY <1>1 DEF Inv, Known, LinkIsKnown
<1> QED BY <1>1, <1>2, OffIsKnown

-----------------------------------------------------------------------------
(* The system task.                                                         *)
LEMMA FollowsTheHead ==
  ASSUME Typed, sysQueue # <<>>, NEW ids, Follows(Pending, Head(sysQueue).id, ids)
  PROVE  Any(Tail(sysQueue), ids)
<1> DEFINE n == Len(Handled)
           t == Tail(sysQueue)
<1>1. /\ Len(sysQueue) \in Nat \ {0} /\ Head(sysQueue) = sysQueue[1]
      /\ Len(t) = Len(sysQueue) - 1 /\ \A i \in 1 .. Len(sysQueue) - 1 : t[i] = sysQueue[i + 1]
  BY OneLess DEF Typed
<1>2. /\ n \in Nat /\ Len(Pending) = n + Len(sysQueue)
      /\ \A i \in 1 .. Len(sysQueue) : Pending[n + i] = sysQueue[i]
  BY PendingIs
<1> HIDE DEF n, t
<1>3. n + 1 \in 1 .. Len(Pending) /\ Pending[n + 1] = Head(sysQueue)
  BY <1>1, <1>2
<1>4. PICK j \in n + 1 + 1 .. Len(Pending) : Pending[j].id \in ids
  BY <1>3 DEF Follows
<1>5. j - n - 1 \in 1 .. Len(t) /\ j - n - 1 \in 1 .. Len(sysQueue) - 1 /\ j - n \in 1 .. Len(sysQueue)
  BY <1>1, <1>2, <1>4
<1>6. Pending[n + (j - n)] = sysQueue[j - n] /\ t[j - n - 1] = sysQueue[j - n - 1 + 1]
  BY <1>1, <1>2, <1>5
<1>7. n + (j - n) = j /\ j - n - 1 + 1 = j - n
  BY <1>2, <1>4
<1>8. t[j - n - 1].id \in ids
  BY <1>4, <1>6, <1>7
<1> QED BY <1>5, <1>8 DEF Any, t

LEMMA HandledEventIs ==
  ASSUME Typed, HandleEvent, Delivered(Head(sysQueue)), NEW e, e = Head(sysQueue)
  PROVE  /\ Delivers(e) /\ bits' = BitsAfter(e) /\ e \in Events
         /\ Handled' = Append(Handled, e) /\ Pending' = Pending
         /\ Shrinks(sysQueue, sysQueue')
         /\ UNCHANGED <<enabled, netif, status, autoReconnect, radio, callback>>
<1>1. /\ Delivers(e) /\ bits' = BitsAfter(e)
      /\ UNCHANGED <<enabled, netif, status, autoReconnect, radio, callback>>
  BY DEF HandleEvent, Delivers, interface, settings
<1>2. /\ e \in Events /\ Handled' = Append(Handled, e) /\ Pending' = Pending
  BY <1>1, DeliveredPipeline
<1>3. sysQueue \in Seq(Events) /\ sysQueue # <<>> /\ sysQueue' = Tail(sysQueue)
  BY <1>1 DEF Typed, Delivers
<1>4. Shrinks(sysQueue, sysQueue')
  BY <1>3, FewerEvents
<1> QED BY <1>1, <1>2, <1>4

LEMMA DeliveredKeepsKnown ==
  ASSUME Inv, History, HandleEvent, Delivered(Head(sysQueue))
  PROVE  Known'
<1> DEFINE e == Head(sysQueue)
<1>1. /\ Delivers(e) /\ bits' = BitsAfter(e) /\ e \in Events
      /\ Handled' = Append(Handled, e) /\ Pending' = Pending
      /\ Shrinks(sysQueue, sysQueue')
      /\ UNCHANGED <<enabled, netif, status, autoReconnect, radio, callback>>
  BY HandledEventIs DEF Inv
<1>2. e.id \in EventIds
  BY <1>1, EventFields
<1>3. enabled => leftover' = leftover \cap bits'
  BY LeftoverIs DEF Inv, Begun
<1>4. "CONNECTED" \in leftover /\ "CONNECTED" \in bits' => "CONNECTED" \in leftover'
  BY DEF History
<1>5. sysQueue # <<>> /\ sysQueue' = Tail(sysQueue)
  BY <1>1 DEF Delivers
<1>6. /\ e.id = "START" => bits' = bits \cup {"STARTED"}
      /\ e.id = "STOP" => bits' = {}
      /\ e.id = "CONNECTED" => bits' = bits \cup {"CONNECTED"}
      /\ e.id = "DISCONNECTED" => bits' = bits \ {"CONNECTED", "HAS_IP"}
      /\ e.id = "GOT_IP" => bits' = bits \cup {"HAS_IP"}
  BY <1>1 DEF BitsAfter
<1>7. Follows(Pending, e.id, {"START"}) => Any(sysQueue', {"START"})
  BY <1>5, FollowsTheHead DEF Inv
<1> HIDE DEF e
<1>8. LinkIsKnown'
  <2>1. e = Head(sysQueue)
    BY DEF e
  <2>2. Any(sysQueue', LinkEvents) => Any(sysQueue, LinkEvents)
    BY <1>1 DEF Shrinks
  <2>3. e.id \in LinkEvents => Any(sysQueue, LinkEvents)
    BY <1>1, <2>1 DEF Shrinks
  <2>4. \A id \in LinkEvents : LastIs(sysQueue, id, LinkEvents) =>
          LastIs(sysQueue', id, LinkEvents) \/ (e.id = id /\ ~Any(sysQueue', LinkEvents))
    BY <1>1, <2>1 DEF Shrinks
  <2>5. LinkIsKnown /\ radio' = radio
    BY <1>1 DEF Inv, Known
  <2>6. CASE e.id \in {"START", "GOT_IP"}
    <3>1. connected' <=> connected
      BY <1>6, <2>6 DEF connected
    <3> QED BY <1>4, <2>2, <2>4, <2>5, <2>6, <3>1 DEF LinkIsKnown, LinkEvents, connected
  <2>7. CASE e.id = "CONNECTED"
    <3>1. connected'
      BY <1>6, <2>7 DEF connected
    <3> QED BY <2>3, <2>4, <2>5, <2>7, <3>1 DEF LinkIsKnown, LinkEvents
  <2>8. CASE e.id \in {"DISCONNECTED", "STOP"}
    <3>1. ~connected'
      BY <1>6, <2>8 DEF connected
    <3> QED BY <2>3, <2>4, <2>5, <2>8, <3>1 DEF LinkIsKnown, LinkEvents
  <2> QED BY <1>2, <2>6, <2>7, <2>8 DEF EventIds
<1>9. StartIsKnown'
  <2>1. e = Head(sysQueue)
    BY DEF e
  <2>2. Any(sysQueue, {"START"}) => e.id = "START" \/ Any(sysQueue', {"START"})
    BY <1>1, <2>1 DEF Shrinks
  <2>3. "STARTED" \in bits => "STARTED" \in bits' \/ e.id = "STOP"
    BY <1>2, <1>6 DEF EventIds
  <2> QED BY <1>1, <1>6, <1>7, <2>2, <2>3 DEF Inv, Known, StartIsKnown
<1>10. OldAddress'
  BY <1>1 DEF Inv, Known, OldAddress
<1>11. OldLink'
  <2>1. SUFFICES ASSUME enabled, "CONNECTED" \in leftover',
                        NEW i \in 1 .. Len(Handled'), Handled'[i].id = "DISCONNECTED"
                 PROVE  \E j \in i + 1 .. Len(Pending) : Pending[j].id = "START"
    BY <1>1 DEF OldLink
  <2>2. "CONNECTED" \in leftover /\ "CONNECTED" \in bits'
    BY <1>3, <2>1
  <2>3. e.id # "DISCONNECTED"
    BY <1>6, <2>2
  <2>4. /\ Len(Handled') = Len(Handled) + 1 /\ Len(Handled) \in Nat
        /\ \A k \in 1 .. Len(Handled) : Handled'[k] = Handled[k]
        /\ Handled'[Len(Handled) + 1] = e
    <3>1. Handled \in Seq(Events)
      BY PendingIs DEF Inv
    <3> QED BY <1>1, <3>1, OneMore
  <2>5. i \in 1 .. Len(Handled) /\ Handled[i].id = "DISCONNECTED"
    BY <2>1, <2>3, <2>4
  <2> QED BY <2>1, <2>2, <2>5 DEF Inv, Known, OldLink
<1>12. LeftAlone'
  <2>1. SUFFICES ASSUME radio \notin {"linked", "stopped"}, "CONNECTED" \in leftover'
                 PROVE  \/ Any(Pending, {"START"}) \/ Any(sysQueue', {"DISCONNECTED"})
                        \/ status # "WL_CONNECTED" /\ ~Any(Pending, {"GOT_IP"})
    BY <1>1 DEF LeftAlone
  <2>2. enabled
    BY <2>1 DEF Inv, Begun
  <2>3. "CONNECTED" \in leftover /\ "CONNECTED" \in bits'
    BY <1>3, <2>1, <2>2
  <2>4. e.id # "DISCONNECTED"
    BY <1>6, <2>3
  <2>5. Any(sysQueue, {"DISCONNECTED"}) => Any(sysQueue', {"DISCONNECTED"})
    BY <1>1, <2>4 DEF Shrinks, e
  <2> QED BY <2>1, <2>3, <2>5 DEF Inv, Known, LeftAlone
<1>13. StatusWillBe'
  BY <1>1 DEF Inv, Known, StatusWillBe
<1> QED BY <1>8, <1>9, <1>10, <1>11, <1>12, <1>13 DEF Known

(* An event that is not delivered: there is no interface.                   *)
LEMMA UndeliveredKeepsKnown ==
  ASSUME Inv, History, HandleEvent, ~Delivered(Head(sysQueue))
  PROVE  Known'
<1>1. /\ sysQueue # <<>> /\ sysQueue' = Tail(sysQueue)
      /\ UNCHANGED <<bits, radio, enabled, netif>>
  BY DEF HandleEvent, interface
<1>2. ~netif /\ ~enabled /\ radio = "stopped" /\ bits \subseteq leftover
  BY DEF Inv, Begun, Delivered
<1>3. bits' \subseteq leftover'
  BY <1>2, LeftoverIs
<1>4. Shrinks(sysQueue, sysQueue')
  BY <1>1, FewerEvents DEF Inv, Typed
<1>5. LinkIsKnown'
  <2>1. Any(sysQueue', LinkEvents) => Any(sysQueue, LinkEvents)
    BY <1>4 DEF Shrinks
  <2>2. \A id \in LinkEvents : LastIs(sysQueue, id, LinkEvents) =>
          LastIs(sysQueue', id, LinkEvents) \/ ~Any(sysQueue', LinkEvents)
    BY <1>4 DEF Shrinks
  <2>3. connected' => "CONNECTED" \in leftover'
    BY <1>3 DEF connected
  <2> QED BY <1>1, <1>2, <2>1, <2>2, <2>3 DEF Inv, Known, LinkIsKnown, LinkEvents
<1> QED BY <1>1, <1>2, <1>5, OffIsKnown

LEMMA HandleEventKeepsKnown ==
  ASSUME Inv, History, HandleEvent
  PROVE  Known'
BY DeliveredKeepsKnown, UndeliveredKeepsKnown

-----------------------------------------------------------------------------
(* The event task.                                                          *)
LEMMA TakenEventIs ==
  ASSUME Inv, History, CheckForEvent, NEW e, e = Head(queue)
  PROVE  /\ e \in Events /\ e.id \in EventIds
         /\ Handled # <<>> /\ Handled' = Tail(Handled) /\ e = Head(Handled)
         /\ Handled \in Seq(Events) /\ Pending \in Seq(Events) /\ Pending # <<>>
         /\ Pending' = Tail(Pending) /\ Shrinks(Pending, Pending')
         /\ e = Head(Pending)
         /\ UNCHANGED <<sysQueue, radio, enabled, bits, autoReconnect>>
         /\ leftover' = leftover \cap bits'
<1>1. /\ UNCHANGED <<sysQueue, radio, enabled, bits, autoReconnect, posting>>
      /\ queue # <<>> /\ queue' = Tail(queue)
  BY DEF CheckForEvent, interface, driver
<1>2. /\ Handled # <<>> /\ Handled' = Tail(Handled) /\ e = Head(Handled)
      /\ Pending # <<>> /\ Pending' = Tail(Pending) /\ e = Head(Pending)
      /\ e \in Events
  BY <1>1, TakenPipeline DEF Inv
<1>3. Handled \in Seq(Events) /\ Pending \in Seq(Events)
  BY PendingIs DEF Inv
<1>4. Shrinks(Pending, Pending')
  BY <1>2, <1>3, FewerEvents
<1>5. leftover' = leftover \cap bits'
  BY <1>1, LeftoverIs
<1> QED BY <1>1, <1>2, <1>3, <1>4, <1>5, EventFields

(* What the callback makes of it.                                           *)
LEMMA StatusIs ==
  ASSUME Inv, CheckForEvent, listening, status' = "WL_CONNECTED", NEW e, e = Head(queue),
         e.id \in EventIds
  PROVE  \/ e.id = "GOT_IP"
         \/ /\ e.id = "DISCONNECTED" /\ status = "WL_CONNECTED"
            /\ autoReconnect => callback' = "disconnect"
<1>1. status' = StatusAfter(e) /\ callback' = IF DoReconnect(e) THEN "disconnect" ELSE "idle"
  BY DEF CheckForEvent
<1>2. CASE e.id = "DISCONNECTED"
  <2>1. status' = StatusWhenDropped(e.reason)
    BY <1>1, <1>2 DEF StatusAfter
  <2>2. e.reason = "AUTH_EXPIRE" /\ status = "WL_CONNECTED"
    BY <2>1 DEF StatusWhenDropped
  <2>3. autoReconnect => DoReconnect(e)
    BY <1>2, <2>2 DEF DoReconnect, Reconnectable
  <2> QED BY <1>1, <1>2, <2>2, <2>3
<1>3. CASE e.id # "DISCONNECTED"
  BY <1>1, <1>3 DEF StatusAfter, EventIds
<1> QED BY <1>2, <1>3

LEMMA TakenKeepsOldLink ==
  ASSUME Inv, History, CheckForEvent
  PROVE  OldLink'
<1> DEFINE e == Head(queue)
<1>1. /\ Handled # <<>> /\ Handled' = Tail(Handled)
      /\ Handled \in Seq(Events) /\ Pending \in Seq(Events) /\ Pending # <<>>
      /\ Pending' = Tail(Pending)
      /\ enabled' = enabled /\ leftover' = leftover \cap bits'
  BY TakenEventIs
<1>2. /\ Len(Handled') = Len(Handled) - 1 /\ Len(Handled) \in Nat \ {0}
      /\ \A i \in 1 .. Len(Handled) - 1 : Handled'[i] = Handled[i + 1]
  BY <1>1, OneLess
<1>3. /\ Len(Pending') = Len(Pending) - 1 /\ Len(Pending) \in Nat \ {0}
      /\ \A i \in 1 .. Len(Pending) - 1 : Pending'[i] = Pending[i + 1]
  BY <1>1, OneLess
<1>4. SUFFICES ASSUME enabled, "CONNECTED" \in leftover,
                      NEW i \in 1 .. Len(Handled'), Handled'[i].id = "DISCONNECTED"
               PROVE  \E j \in i + 1 .. Len(Pending') : Pending'[j].id = "START"
  BY <1>1 DEF OldLink
<1>5. i + 1 \in 1 .. Len(Handled) /\ Handled[i + 1].id = "DISCONNECTED"
  BY <1>2, <1>4
<1>6. PICK j \in i + 1 + 1 .. Len(Pending) : Pending[j].id = "START"
  BY <1>4, <1>5 DEF Inv, Known, OldLink
<1>7. j - 1 \in i + 1 .. Len(Pending') /\ Pending'[j - 1] = Pending[j]
  BY <1>3, <1>4, <1>5, <1>6
<1> QED BY <1>6, <1>7

(* An address that was got earlier: its link is left, or the sketch begins. *)
OldAddressIsOver ==
  /\ Typed /\ OldAddress /\ OldLink /\ StartIsKnown
  /\ enabled /\ radio \notin {"linked", "stopped"} /\ "CONNECTED" \in leftover
  /\ Any(Pending, {"GOT_IP"})
  => Any(Pending, {"START"}) \/ Any(sysQueue, {"DISCONNECTED"})

LEMMA OldAddressIsLeft == OldAddressIsOver
<1> SUFFICES ASSUME Typed, OldAddress, OldLink, StartIsKnown,
                    enabled, radio \notin {"linked", "stopped"}, "CONNECTED" \in leftover,
                    Any(Pending, {"GOT_IP"})
             PROVE  Any(Pending, {"START"}) \/ Any(sysQueue, {"DISCONNECTED"})
  BY DEF OldAddressIsOver
<1>1. PICK i \in 1 .. Len(Pending) : Pending[i].id = "GOT_IP"
  BY DEF Any
<1>2. PICK j \in i + 1 .. Len(Pending) : Pending[j].id \in Resets
  BY <1>1 DEF OldAddress, Follows
<1>3. /\ Len(Handled) \in Nat /\ Len(sysQueue) \in Nat
      /\ Len(Pending) = Len(Handled) + Len(sysQueue)
      /\ \A k \in 1 .. Len(Handled) : Pending[k] = Handled[k]
      /\ \A k \in 1 .. Len(sysQueue) : Pending[Len(Handled) + k] = sysQueue[k]
  BY PendingIs
<1>4. j \in 1 .. Len(Pending)
  BY <1>1, <1>2, <1>3
<1>5. CASE Pending[j].id = "START"
  BY <1>4, <1>5 DEF Any
<1>6. CASE Pending[j].id = "STOP"
  <2>1. PICK k \in j + 1 .. Len(Pending) : Pending[k].id \in {"START"}
    BY <1>4, <1>6 DEF StartIsKnown, Follows
  <2>2. k \in 1 .. Len(Pending)
    BY <1>3, <1>4, <2>1
  <2> QED BY <2>1, <2>2 DEF Any
<1>7. CASE Pending[j].id = "DISCONNECTED" /\ j <= Len(Handled)
  <2>1. j \in 1 .. Len(Handled) /\ Handled[j].id = "DISCONNECTED"
    BY <1>3, <1>4, <1>7
  <2>2. PICK k \in j + 1 .. Len(Pending) : Pending[k].id = "START"
    BY <2>1 DEF OldLink
  <2>3. k \in 1 .. Len(Pending)
    BY <1>3, <2>1, <2>2
  <2> QED BY <2>2, <2>3 DEF Any
<1>8. CASE Pending[j].id = "DISCONNECTED" /\ ~(j <= Len(Handled))
  <2>1. j - Len(Handled) \in 1 .. Len(sysQueue) /\ Len(Handled) + (j - Len(Handled)) = j
    BY <1>3, <1>4, <1>8
  <2>2. sysQueue[j - Len(Handled)].id = "DISCONNECTED"
    BY <1>3, <1>8, <2>1
  <2> QED BY <2>1, <2>2 DEF Any
<1> QED BY <1>2, <1>5, <1>6, <1>7, <1>8 DEF Resets

LEMMA CheckForEventKeepsKnown ==
  ASSUME Inv, History, CheckForEvent
  PROVE  Known'
<1> DEFINE e == Head(queue)
<1>1. /\ e \in Events /\ e.id \in EventIds /\ Shrinks(Pending, Pending')
      /\ e = Head(Pending)
      /\ UNCHANGED <<sysQueue, radio, enabled, bits, autoReconnect>>
      /\ leftover' = leftover \cap bits'
  BY TakenEventIs
<1>2. LinkIsKnown'
  BY <1>1 DEF Inv, Known, LinkIsKnown, connected
<1>3. CASE ~listening
  <2>1. ~enabled' /\ radio' = "stopped"
    BY <1>1, <1>3 DEF Inv, Begun
  <2> QED BY <1>2, <2>1, OffIsKnown
<1>4. CASE listening
  <2>1. \A id, ids : Follows(Pending, id, ids) => Follows(Pending', id, ids)
    BY <1>1 DEF Shrinks
  <2>2. StartIsKnown'
    BY <1>1, <2>1 DEF Inv, Known, StartIsKnown
  <2>3. OldAddress'
    BY <1>1, <2>1 DEF Inv, Known, OldAddress
  <2>4. OldLink'
    BY TakenKeepsOldLink
  <2>5. e.id # "GOT_IP" /\ status # "WL_CONNECTED" => status' # "WL_CONNECTED"
    BY <1>1, <1>4, StatusIs
  <2>6. LeftAlone'
    <3>1. SUFFICES ASSUME radio' \notin {"linked", "stopped"}, "CONNECTED" \in leftover',
                          ~Any(Pending', {"START"}), ~Any(sysQueue', {"DISCONNECTED"})
                   PROVE  status' # "WL_CONNECTED" /\ ~Any(Pending', {"GOT_IP"})
      BY DEF LeftAlone
    <3>2. enabled' /\ radio \notin {"linked", "stopped"} /\ "CONNECTED" \in leftover
      BY <1>1, <3>1 DEF Inv, Begun
    <3>3. ~Any(Pending', {"GOT_IP"})
      <4>1. Typed'
        <5>1. queue # <<>> /\ queue' = Tail(queue) /\ UNCHANGED <<posting, interface>>
          BY DEF CheckForEvent
        <5>2. queue' \in Seq(Events)
          BY <5>1, OneLess DEF Inv, Typed
        <5> QED BY <1>1, <5>1, <5>2 DEF Inv, Typed, interface
      <4>2. OldAddressIsOver'
        BY OldAddressIsLeft, PTL
      <4>3. radio' \notin {"linked", "stopped"} /\ "CONNECTED" \in leftover'
        BY <3>1
      <4> QED BY <2>2, <2>3, <2>4, <3>1, <3>2, <4>1, <4>2, <4>3 DEF OldAddressIsOver
    <3>4. Any(Pending, {"START"}) => e.id = "START"
      BY <1>1, <3>1 DEF Shrinks
    <3>5. e.id = "START" => status' # "WL_CONNECTED"
      BY <1>1, <1>4, StatusIs
    <3>6. ~Any(sysQueue, {"DISCONNECTED"})
      BY <1>1, <3>1
    <3>7. ~Any(Pending, {"GOT_IP"}) => e.id # "GOT_IP"
      BY <1>1 DEF Shrinks
    <3> QED BY <2>5, <3>2, <3>3, <3>4, <3>5, <3>6, <3>7 DEF Inv, Known, LeftAlone
  <2>7. StatusWillBe'
    <3>1. SUFFICES ASSUME autoReconnect, radio = "idle", status' = "WL_CONNECTED"
                   PROVE  Any(Pending', Resets) \/ callback' # "idle"
      BY <1>1 DEF StatusWillBe
    <3>2. e.id = "GOT_IP" \/ callback' = "disconnect"
      BY <1>1, <1>4, <3>1, StatusIs
    <3>3. Follows(Pending, "GOT_IP", Resets)
      BY <3>1 DEF Inv, Known, OldAddress
    <3>4. e.id = "GOT_IP" => Any(Pending', Resets)
      BY <1>1, <3>3 DEF Shrinks
    <3> QED BY <3>2, <3>4
  <2> QED BY <1>2, <2>2, <2>3, <2>4, <2>6, <2>7 DEF Known
<1> QED BY <1>3, <1>4

(* esp_wifi_disconnect() by the callback or by the sketch.                  *)
LEMMA SamePipeline ==
  ASSUME UNCHANGED <<queue, posting, sysQueue>>
  PROVE  Handled' = Handled /\ Pending' = Pending
BY DEF Handled, Pending, Posting

LEMMA EspWifiDisconnectKeepsKnown ==
  ASSUME Inv, History, EspWifiDisconnect, UNCHANGED <<queue, posting>>,
         UNCHANGED <<bits, status, autoReconnect, enabled>>,
         callback' = callback \/ callback' # "idle"
  PROVE  Known'
<1>1. CASE radio \in {"connecting", "linked"}
  <2> DEFINE e == Disconnected("ASSOC_LEAVE")
  <2>1. e \in Events /\ e.id = "DISCONNECTED"
    BY AskedToLeave DEF Disconnected
  <2>2. radio' = "idle" /\ Announce(<<e>>)
    BY <1>1 DEF EspWifiDisconnect
  <2> HIDE DEF e
  <2>3. Announced(e)
    BY <2>1, <2>2, AnnounceOne DEF Inv
  <2> QED BY <1>1, <2>1, <2>2, <2>3, LinkEnds
<1>2. CASE radio \notin {"connecting", "linked"}
  <2>1. UNCHANGED <<radio, sysQueue>>
    BY <1>2 DEF EspWifiDisconnect, driver
  <2> QED BY <2>1, SamePipeline, StillStep
<1> QED BY <1>1, <1>2

LEMMA CallbackConnectsKeepsKnown ==
  ASSUME Inv, History, CallbackConnects
  PROVE  Known'
<1>1. /\ UNCHANGED <<queue, posting, sysQueue, enabled, status, autoReconnect>>
      /\ bits' \in {bits, bits \ {"HAS_IP"}}
      /\ radio' = radio \/ (radio = "idle" /\ radio' = "connecting")
      /\ radio' = "idle" => ~netif \/ connected
  BY DEF CallbackConnects, Join, EspWifiConnect, interface, settings, driver
<1>2. Handled' = Handled /\ Pending' = Pending
  BY <1>1, SamePipeline
<1>3. StatusWillBe'
  <2>1. SUFFICES ASSUME radio = "idle", status = "WL_CONNECTED", connected
                 PROVE  Any(Pending, Resets)
    BY <1>1, <1>2 DEF StatusWillBe, Inv, Begun
  <2>2. radio # "linked" /\ radio # "stopped"
    BY <2>1
  <2>3. \A id : Any(Pending, {id}) /\ id \in Resets => Any(Pending, Resets)
    BY DEF Any
  <2>4. \A id : id \in LinkEvents /\ LastIs(sysQueue, id, LinkEvents) => Any(sysQueue, {id})
    BY LastIsThere
  <2>5. \A id : Any(sysQueue, {id}) => Any(Pending, {id})
    BY SystemEventsArePending DEF Inv
  <2>6. CASE LastIs(sysQueue, "DISCONNECTED", LinkEvents)
    BY <2>3, <2>4, <2>5, <2>6 DEF LinkEvents, Resets
  <2>7. CASE LastIs(sysQueue, "STOP", LinkEvents)
    BY <2>3, <2>4, <2>5, <2>7 DEF LinkEvents, Resets
  <2>8. CASE "CONNECTED" \in leftover
    <3>1. Any(Pending, {"START"}) \/ Any(sysQueue, {"DISCONNECTED"})
      BY <2>1, <2>2, <2>8 DEF Inv, Known, LeftAlone
    <3> QED BY <2>3, <2>5, <3>1 DEF Resets
  <2>9. LinkIsKnown
    BY DEF Inv, Known
  <2> QED BY <2>1, <2>2, <2>6, <2>7, <2>8, <2>9 DEF LinkIsKnown
<1> QED BY <1>1, <1>2, <1>3, StillStep

-----------------------------------------------------------------------------
(* Every step.                                                              *)
LEMMA NextKeepsKnown ==
  ASSUME Inv, Next
  PROVE  Known'
<1> History
  BY DEF Next
<1>1. CASE Driver
  <2>1. CASE LinkUp
    BY <2>1, LinkUpKeepsKnown
  <2>2. CASE GetAddress
    BY <2>2, GetAddressKeepsKnown
  <2>3. ASSUME NEW r \in Reasons, LinkDown(r) PROVE Known'
    <3> DEFINE e == Disconnected(r)
    <3>1. e \in Events /\ e.id = "DISCONNECTED"
      BY StaAssumption, EventIsTyped
    <3>2. /\ Announce(<<e>>) /\ UNCHANGED <<queue, posting>>
          /\ radio \in {"connecting", "linked"} /\ radio' = "idle"
          /\ UNCHANGED <<bits, status, autoReconnect, enabled>>
      BY <2>3 DEF LinkDown, interface, settings
    <3> HIDE DEF e
    <3>3. Announced(e)
      BY <3>1, <3>2, AnnounceOne DEF Inv
    <3> QED BY <3>1, <3>2, <3>3, LinkEnds
  <2> QED BY <1>1, <2>1, <2>2, <2>3 DEF Driver
<1>2. CASE SystemTask
  <2>1. CASE HandleEvent
    BY <2>1, HandleEventKeepsKnown
  <2>2. CASE PostEvent
    <3>1. Handled' = Handled /\ Pending' = Pending /\ sysQueue' = sysQueue
      BY <2>2, PostedPipeline DEF Inv
    <3>2. UNCHANGED <<bits, status, autoReconnect, enabled, radio, callback>>
      BY <2>2 DEF PostEvent, interface, settings, driver
    <3> QED BY <3>1, <3>2, StillStep
  <2> QED BY <1>2, <2>1, <2>2 DEF SystemTask
<1>3. CASE EventTask
  <2>1. CASE CheckForEvent
    BY <2>1, CheckForEventKeepsKnown
  <2>2. CASE CallbackDisconnects
    <3>1. /\ EspWifiDisconnect /\ callback' # "idle"
          /\ UNCHANGED <<queue, posting, bits, status, autoReconnect, enabled>>
      BY <2>2 DEF CallbackDisconnects, interface, settings
    <3> QED BY <3>1, EspWifiDisconnectKeepsKnown
  <2>3. CASE CallbackConnects
    BY <2>3, CallbackConnectsKeepsKnown
  <2> QED BY <1>3, <2>1, <2>2, <2>3 DEF EventTask
<1>4. CASE Leave \/ CallDisconnect \/ (CallReconnect /\ connected)
  <2>1. /\ EspWifiDisconnect /\ callback' = callback
        /\ UNCHANGED <<queue, posting, bits, status, autoReconnect, enabled>>
    BY <1>4 DEF Leave, CallDisconnect, CallReconnect, interface, settings
  <2> QED BY <2>1, EspWifiDisconnectKeepsKnown
<1>5. CASE \/ CallBegin \/ Register \/ InitNetif \/ WaitStarted \/ WaitLeft \/ RemoveEvent
           \/ Unregister \/ (CallReconnect /\ ~connected)
  <2>1. UNCHANGED <<queue, posting, sysQueue, enabled, radio, bits, status, autoReconnect, callback>>
    BY <1>5 DEF CallBegin, Register, InitNetif, WaitStarted, WaitLeft, RemoveEvent, Unregister,
                CallReconnect, interface, settings, driver
  <2> QED BY <2>1, SamePipeline, StillStep
<1>6. CASE JoinNetwork \/ Reconnect
  <2>1. /\ UNCHANGED <<queue, posting, sysQueue, enabled, status, autoReconnect, callback>>
        /\ bits' \in {bits, bits \ {"HAS_IP"}}
        /\ radio' = radio \/ (radio = "idle" /\ radio' = "connecting")
    BY <1>6 DEF JoinNetwork, Join, Reconnect, EspWifiConnect, interface, settings, driver
  <2> QED BY <2>1, SamePipeline, StillStep
<1>7. CASE EspWifiStart
  BY <1>7, EspWifiStartKeepsKnown
<1>8. CASE CallEnd
  BY <1>8, CallEndKeepsKnown
<1>9. CASE DestroyNetif
  BY <1>9, DestroyNetifKeepsKnown
<1> QED BY <1>1, <1>2, <1>3, <1>4, <1>5, <1>6, <1>7, <1>8, <1>9 DEF Next, Sketch, Goes

LEMMA NextKeepsBegun ==
  ASSUME Inv, Next
  PROVE  Begun'
<1> Begun /\ History /\ (bits \subseteq leftover /\ ~netif => bits' \subseteq leftover')
  BY LeftoverIs DEF Inv, Next
<1>1. CASE Driver
  <2>1. UNCHANGED <<interface, bits, sketch>> /\ (enabled' <=> radio' # "stopped")
    BY <1>1 DEF Driver, LinkUp, GetAddress, LinkDown, Begun, interface
  <2> QED BY <2>1 DEF Begun, interface
<1>2. CASE SystemTask
  <2>1. UNCHANGED <<interface, radio, sketch>>
    BY <1>2 DEF SystemTask, HandleEvent, PostEvent, driver
  <2> QED BY <2>1 DEF Begun, interface
<1>3. CASE CheckForEvent
  BY <1>3 DEF CheckForEvent, Begun, interface, driver
<1>4. CASE CallbackDisconnects \/ CallbackConnects
  <2>1. UNCHANGED <<interface, sketch>> /\ (radio' = "stopped" <=> radio = "stopped")
    BY <1>4 DEF CallbackDisconnects, CallbackConnects, Join, EspWifiConnect, EspWifiDisconnect, driver
  <2> QED BY <2>1 DEF Begun, interface
<1>5. CASE CallBegin
  BY <1>5 DEF CallBegin, Calls, Begun, interface, driver
<1>6. CASE CallDisconnect \/ CallReconnect \/ Leave \/ JoinNetwork \/ Reconnect
  <2>1. /\ UNCHANGED interface /\ (radio' = "stopped" <=> radio = "stopped")
        /\ sketch' \in {"idle", "reconnect", "left"}
        /\ sketch \in {"idle", "leave", "join", "reconnect"}
    BY <1>6 DEF CallDisconnect, CallReconnect, Leave, JoinNetwork, Reconnect, Calls, Join,
                EspWifiConnect, EspWifiDisconnect, driver
  <2> QED BY <2>1 DEF Begun, interface
<1>7. CASE CallEnd
  BY <1>7 DEF CallEnd, Calls, Begun
<1>8. CASE WaitStarted \/ WaitLeft
  <2>1. /\ UNCHANGED <<interface, radio>> /\ sketch' \in {"idle", "leave", "join"}
        /\ sketch \in {"started", "left"}
    BY <1>8 DEF WaitStarted, WaitLeft, driver
  <2> QED BY <2>1 DEF Begun, interface
<1>9. CASE Register
  BY <1>9 DEF Register, Begun, driver
<1>10. CASE InitNetif
  BY <1>10 DEF InitNetif, Begun, driver
<1>11. CASE EspWifiStart
  BY <1>11 DEF EspWifiStart, Begun
<1>12. CASE RemoveEvent
  BY <1>12 DEF RemoveEvent, Begun, driver
<1>13. CASE DestroyNetif
  BY <1>13 DEF DestroyNetif, Begun, driver
<1>14. CASE Unregister
  BY <1>14 DEF Unregister, Begun, driver
<1> QED BY <1>1, <1>2, <1>3, <1>4, <1>5, <1>6, <1>7, <1>8, <1>9, <1>10, <1>11, <1>12, <1>13, <1>14
        DEF Next, EventTask, Sketch, Goes

LEMMA NextKeepsTyped ==
  ASSUME Inv, Next
  PROVE  Typed'
<1> Typed
  BY DEF Inv
<1> DEFINE d == Disconnected("ASSOC_LEAVE")
<1>1. ASSUME NEW e \in Events, Announce(<<e>>) PROVE sysQueue' \in Seq(Events)
  <2>1. <<e>> \in Seq(Events) /\ sysQueue \in Seq(Events)
    BY DEF Typed
  <2> QED BY <1>1, <2>1, ConcatProperties DEF Announce
<1>2. ASSUME EspWifiDisconnect
      PROVE  sysQueue' \in Seq(Events) /\ radio' \in {radio, "idle"}
  <2>1. CASE radio \in {"connecting", "linked"}
    <3>1. Announce(<<d>>) /\ radio' = "idle"
      BY <1>2, <2>1 DEF EspWifiDisconnect
    <3> QED BY <1>1, <3>1, AskedToLeave
  <2>2. CASE radio \notin {"connecting", "linked"}
    <3>1. UNCHANGED <<radio, sysQueue>>
      BY <1>2, <2>2 DEF EspWifiDisconnect, driver
    <3> QED BY <3>1 DEF Typed
  <2> QED BY <2>1, <2>2
<1>3. CASE Driver
  <2>1. PICK e \in Events : Announce(<<e>>)
    <3>1. \A r \in Reasons : Disconnected(r) \in Events
      BY StaAssumption, EventIsTyped
    <3> QED BY <1>3, <3>1, EventIsTyped DEF Driver, LinkUp, GetAddress, LinkDown
  <2>2. /\ UNCHANGED <<interface, autoReconnect, posting, queue>>
        /\ radio' \in {radio, "linked", "idle"}
    BY <1>3 DEF Driver, LinkUp, GetAddress, LinkDown, settings
  <2> QED BY <1>1, <2>1, <2>2 DEF Typed, interface
<1>4. CASE HandleEvent
  <2>1. /\ UNCHANGED <<interface, autoReconnect, radio, queue>>
        /\ sysQueue # <<>> /\ sysQueue' = Tail(sysQueue)
        /\ posting' \in {posting, Head(sysQueue)}
    BY <1>4 DEF HandleEvent, settings
  <2>2. sysQueue' \in Seq(Events) /\ Head(sysQueue) \in Events
    BY <2>1, OneLess DEF Typed
  <2> QED BY <2>1, <2>2 DEF Typed, interface
<1>5. CASE PostEvent
  <2>1. /\ UNCHANGED <<interface, autoReconnect, radio, sysQueue>>
        /\ queue' \in Seq(Events) /\ posting' = NoEvent
    BY <1>5, PostedPipeline DEF PostEvent, settings, driver
  <2> QED BY <2>1 DEF Typed, interface
<1>6. CASE CheckForEvent
  <2>1. /\ UNCHANGED <<interface, autoReconnect, radio, sysQueue, posting>>
        /\ queue # <<>> /\ queue' = Tail(queue)
    BY <1>6 DEF CheckForEvent, driver
  <2>2. queue' \in Seq(Events)
    BY <2>1, OneLess DEF Typed
  <2> QED BY <2>1, <2>2 DEF Typed, interface
<1>7. CASE CallbackDisconnects \/ CallDisconnect \/ CallReconnect \/ Leave
  <2>1. /\ UNCHANGED <<interface, autoReconnect, posting, queue>>
        /\ EspWifiDisconnect \/ UNCHANGED <<radio, sysQueue>>
    BY <1>7 DEF CallbackDisconnects, CallDisconnect, CallReconnect, Leave, settings, driver
  <2> QED BY <1>2, <2>1 DEF Typed, interface
<1>8. CASE CallbackConnects \/ JoinNetwork \/ Reconnect
  <2>1. /\ UNCHANGED <<interface, autoReconnect, posting, queue, sysQueue>>
        /\ radio' \in {radio, "connecting"}
    BY <1>8 DEF CallbackConnects, JoinNetwork, Reconnect, Join, EspWifiConnect, settings, driver
  <2> QED BY <2>1 DEF Typed, interface
<1>9. CASE CallBegin \/ Register \/ InitNetif \/ WaitStarted \/ WaitLeft \/ RemoveEvent
           \/ DestroyNetif \/ Unregister
  <2>1. /\ UNCHANGED <<enabled, autoReconnect, posting, queue, sysQueue, radio>>
        /\ {registered', listening', netif'} \subseteq {registered, listening, netif, TRUE, FALSE}
    BY <1>9 DEF CallBegin, Register, InitNetif, WaitStarted, WaitLeft, RemoveEvent, DestroyNetif,
                Unregister, settings, driver, interface
  <2> QED BY <2>1 DEF Typed
<1>10. CASE EspWifiStart
  <2>1. /\ UNCHANGED <<registered, listening, netif, autoReconnect, posting, queue>>
        /\ enabled' = TRUE /\ radio' = "idle" /\ Announce(<<Event("START")>>)
    BY <1>10 DEF EspWifiStart, settings
  <2> QED BY <1>1, <2>1, EventIsTyped DEF Typed
<1>11. CASE CallEnd
  <2>1. /\ UNCHANGED <<registered, listening, netif, autoReconnect, posting, queue>>
        /\ enabled' = FALSE /\ radio' = "stopped"
    BY <1>11 DEF CallEnd, settings
  <2> QED BY <1>11, <2>1, EndedQueue DEF Typed
<1> QED BY <1>3, <1>4, <1>5, <1>6, <1>7, <1>8, <1>9, <1>10, <1>11
        DEF Next, SystemTask, EventTask, Sketch, Goes

LEMMA StutterKeepsInv ==
  ASSUME Inv, UNCHANGED vars
  PROVE  Inv'
<1>1. UNCHANGED <<queue, posting, sysQueue, enabled, registered, listening, netif, bits, status,
                  autoReconnect, radio, callback, sketch, leftover>>
  BY DEF vars
<1>2. Handled' = Handled /\ Pending' = Pending
  BY <1>1, SamePipeline
<1>3. Typed' /\ Begun'
  BY <1>1 DEF Inv, Typed, Begun
<1>4. Known'
  BY <1>1, <1>2 DEF Inv, Known, LinkIsKnown, StartIsKnown, OldAddress, OldLink, LeftAlone,
                    StatusWillBe, connected
<1> QED BY <1>3, <1>4 DEF Inv

LEMMA InitIsInv ==
  ASSUME Init
  PROVE  Inv
<1>1. Typed
  <2>1. /\ sysQueue = <<>> /\ queue = <<>> /\ <<>> \in Seq(Events) /\ posting = NoEvent
        /\ radio = "stopped"
    BY DEF Init
  <2>2. {enabled, registered, listening, netif, autoReconnect} \subseteq BOOLEAN
    BY Zenon DEF Init
  <2> QED BY <2>1, <2>2 DEF Typed
<1>2. Begun
  BY DEF Init, Begun
<1>3. Known
  BY NoEventsLeft DEF Init, Known, LinkIsKnown, StartIsKnown, OldAddress, OldLink, LeftAlone,
                      StatusWillBe, connected
<1> QED BY <1>1, <1>2, <1>3 DEF Inv

LEMMA Invariance == Spec => []Inv
<1>1. Inv /\ [Next]_vars => Inv'
  BY NextKeepsKnown, NextKeepsBegun, NextKeepsTyped, StutterKeepsInv DEF Inv
<1> QED BY <1>1, InitIsInv, PTL DEF Spec

-----------------------------------------------------------------------------
(* Once the system event loop is empty and no call of the sketch is under   *)
(* way, ESP_NETIF_CONNECTED_BIT tells whether the driver has a link, but    *)
(* for bits left over from before begin(), and STARTED is set: _onStaEvent()*)
(* runs late, never out of order (STA.cpp).                                 *)
THEOREM BitsTellTheLink == Spec => []BitsAreCurrent
<1>1. Inv => BitsAreCurrent
  <2>1. SUFFICES ASSUME Inv, sysQueue = <<>>, enabled
                 PROVE  /\ radio = "linked" => connected
                        /\ connected => radio = "linked" \/ "CONNECTED" \in leftover
                        /\ "STARTED" \in bits
    BY DEF BitsAreCurrent, Settled
  <2>2. \A ids : ~Any(sysQueue, ids)
    BY <2>1, NoEventsLeft
  <2>3. \A id \in LinkEvents : ~LastIs(sysQueue, id, LinkEvents)
    BY <2>2, LastIsThere
  <2>4. LinkIsKnown /\ StartIsKnown
    BY <2>1 DEF Inv, Known
  <2> QED BY <2>1, <2>2, <2>3, <2>4 DEF LinkIsKnown, StartIsKnown, LinkEvents
<1> QED BY <1>1, Invariance, PTL

(* When all events are handled, WiFi.status() of a station that reconnects  *)
(* by itself is not WL_CONNECTED without a link: _onStaArduinoEvent() keeps *)
(* the status for one reason only, and then it reconnects (STA.cpp).        *)
THEOREM StatusTellsTheLink == Spec => []StatusIsCurrent
<1>1. Inv => StatusIsCurrent
  <2>1. SUFFICES ASSUME Inv, sysQueue = <<>>, posting = NoEvent, queue = <<>>, callback = "idle",
                        autoReconnect, radio = "idle", status = "WL_CONNECTED"
                 PROVE  FALSE
    BY DEF StatusIsCurrent, Quiet, Settled
  <2>2. Pending = <<>>
    <3>1. Posting = <<>> /\ <<>> \o <<>> = <<>>
      BY <2>1 DEF Posting
    <3> QED BY <2>1, <3>1 DEF Pending, Handled
  <2> QED BY <2>1, <2>2, NoEventsLeft DEF Inv, Known, StatusWillBe
<1> QED BY <1>1, Invariance, PTL
=============================================================================
