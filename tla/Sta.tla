-------------------------------- MODULE Sta --------------------------------
(***************************************************************************)
(* libraries/WiFi/src/STA.cpp over NetworkInterface.cpp and NetworkEvents.cpp: *)
(* the WiFi station. The driver posts its events to the system event loop; *)
(* the system task turns each into status bits and posts it to the queue of *)
(* the Arduino event task, whose callback sets the status and reconnects.   *)
(* The sketch begins, ends, disconnects and reconnects meanwhile. A step is *)
(* one call of the driver or one access to what the three tasks share.      *)
(***************************************************************************)
EXTENDS Naturals, Sequences

CONSTANTS Reasons,     \* the reasons for which the driver drops or refuses a link
          NoEvent,
          MaxDrops,    \* bound: links dropped or refused by the access point
          MaxCalls     \* bound: calls of the sketch

VARIABLES
    enabled,         \* lowLevelInitDone and _esp_wifi_started: the mode has STA
    registered,      \* _sta_ev_instance: the system task calls _onStaEvent()
    listening,       \* _wifi_sta_event_handle: _onStaArduinoEvent() is in the list
    netif,           \* _esp_netif and the event group exist
    bits,            \* the status bits, or _initial_bits while there is no group
    status,          \* _status
    first_connect,   \* the static variable of _onStaArduinoEvent()
    autoReconnect,   \* _autoReconnect, chosen before begin()
    radio,           \* the driver: stopped, idle, connecting or linked
    dhcp,            \* the DHCP client: off, running or bound
    why,             \* why the driver dropped the last link
    sysQueue,        \* the events in the system event loop
    posting,         \* the event the system task is posting, or NoEvent
    queue,           \* _arduino_event_queue
    callback,        \* where _onStaArduinoEvent() is
    sketch,          \* where the call of the sketch is
    calls, drops,
    wish,            \* history: the sketch wants to be connected
    leftover         \* history: bits set while there was no interface

interface == <<enabled, registered, listening, netif>>
driver == <<radio, dhcp, why>>
settings == <<first_connect, autoReconnect>>
bounds == <<calls, drops>>
vars == <<enabled, registered, listening, netif, bits, status, first_connect,
          autoReconnect, radio, dhcp, why, sysQueue, posting, queue, callback,
          sketch, calls, drops, wish, leftover>>

Bits == {"STARTED", "CONNECTED", "HAS_IP"}
Statuses == {"WL_STOPPED", "WL_IDLE", "WL_NO_SSID_AVAIL", "WL_CONNECTED",
             "WL_CONNECT_FAILED", "WL_CONNECTION_LOST", "WL_DISCONNECTED"}

\* _is_staReconnectableReason(); OTHER stands for those that only it tells apart.
Reconnectable == {"NO_AP_FOUND", "AUTH_EXPIRE", "BEACON_TIMEOUT", "ASSOC_FAIL", "OTHER"}
AllReasons == Reconnectable \union {"AUTH_FAIL", "ASSOC_LEAVE"}

ASSUME StaAssumption ==
    /\ Reasons \subseteq AllReasons \ {"ASSOC_LEAVE"}
    /\ {MaxDrops, MaxCalls} \subseteq Nat

Event(id) == [id |-> id, reason |-> "OTHER"]
Disconnected(reason) == [id |-> "DISCONNECTED", reason |-> reason]
Events == {Event(id) : id \in {"START", "STOP", "CONNECTED", "GOT_IP"}}
              \union {Disconnected(r) : r \in AllReasons}

ASSUME NoEventAssumption == NoEvent \notin Events

Init ==
    /\ enabled = FALSE /\ registered = FALSE /\ listening = FALSE /\ netif = FALSE
    /\ bits = {} /\ status = "WL_STOPPED"
    /\ first_connect = TRUE /\ autoReconnect \in BOOLEAN
    /\ radio = "stopped" /\ dhcp = "off" /\ why = "ASSOC_LEAVE"
    /\ sysQueue = <<>> /\ posting = NoEvent /\ queue = <<>>
    /\ callback = "idle" /\ sketch = "idle"
    /\ calls = 0 /\ drops = 0 /\ wish = FALSE /\ leftover = {}

connected == "CONNECTED" \in bits

-----------------------------------------------------------------------------
(* The driver (external): its calls, then what it does by itself *)

Announce(events) == sysQueue' = sysQueue \o events

\* esp_wifi_disconnect() announces the end of a link or of an attempt.
EspWifiDisconnect ==
    IF radio \in {"connecting", "linked"}
    THEN /\ radio' = "idle" /\ why' = "ASSOC_LEAVE" /\ UNCHANGED dhcp
         /\ Announce(<<Disconnected("ASSOC_LEAVE")>>)
    ELSE UNCHANGED <<driver, sysQueue>>

\* esp_wifi_connect() has no effect on a link or on an attempt under way.
EspWifiConnect ==
    /\ radio' = IF radio = "idle" THEN "connecting" ELSE radio
    /\ UNCHANGED <<dhcp, why, sysQueue>>

LinkUp ==
    /\ radio = "connecting"
    /\ radio' = "linked"
    /\ Announce(<<Event("CONNECTED")>>)
    /\ UNCHANGED <<interface, bits, status, settings, dhcp, why, posting, queue,
                   callback, sketch, bounds>>

\* The access point refuses the station or is gone.
LinkDown(reason) ==
    /\ radio \in {"connecting", "linked"} /\ drops < MaxDrops
    /\ radio' = "idle" /\ why' = reason
    /\ Announce(<<Disconnected(reason)>>)
    /\ drops' = drops + 1
    /\ UNCHANGED <<interface, bits, status, settings, dhcp, posting, queue, callback,
                   sketch, calls>>

GetAddress ==
    /\ radio = "linked" /\ dhcp = "running"
    /\ dhcp' = "bound"
    /\ Announce(<<Event("GOT_IP")>>)
    /\ UNCHANGED <<interface, bits, status, settings, radio, why, posting, queue,
                   callback, sketch, bounds>>

Driver == LinkUp \/ GetAddress \/ \E r \in Reasons : LinkDown(r)

-----------------------------------------------------------------------------
(* The system task: _onStaEvent(), _onIpEvent() and the network stack's own handler *)

BitsAfter(event) ==
    CASE event.id = "START" -> bits \union {"STARTED"}
      [] event.id = "STOP" -> {}
      [] event.id = "CONNECTED" -> bits \union {"CONNECTED"}
      [] event.id = "DISCONNECTED" -> bits \ {"CONNECTED", "HAS_IP"}
      [] event.id = "GOT_IP" -> bits \union {"HAS_IP"}

\* IP events go to the interface as long as it is there, the others to its handler.
Delivered(event) == IF event.id = "GOT_IP" THEN netif ELSE registered

HandleEvent ==
    /\ sysQueue # <<>> /\ posting = NoEvent
    /\ LET event == Head(sysQueue) IN
       /\ sysQueue' = Tail(sysQueue)
       /\ IF Delivered(event)
          THEN bits' = BitsAfter(event) /\ posting' = event
          ELSE UNCHANGED <<bits, posting>>
       /\ dhcp' = IF event.id = "CONNECTED" /\ enabled THEN "running"
                  ELSE IF event.id = "DISCONNECTED" THEN "off" ELSE dhcp
    /\ UNCHANGED <<interface, status, settings, radio, why, queue, callback, sketch, bounds>>

PostEvent ==
    /\ posting # NoEvent
    /\ queue' = Append(queue, posting) /\ posting' = NoEvent
    /\ UNCHANGED <<interface, bits, status, settings, driver, sysQueue, callback, sketch, bounds>>

-----------------------------------------------------------------------------
(* The Arduino event task: _onStaArduinoEvent() *)

\* Mutant: the status is set for the reasons that are told apart only.
StatusWhenDroppedKept(reason) ==
    CASE reason = "NO_AP_FOUND" -> "WL_NO_SSID_AVAIL"
      [] reason = "AUTH_FAIL" /\ ~first_connect -> "WL_CONNECT_FAILED"
      [] reason = "BEACON_TIMEOUT" -> "WL_CONNECTION_LOST"
      [] OTHER -> status

StatusWhenDropped(reason) ==
    CASE reason = "NO_AP_FOUND" -> "WL_NO_SSID_AVAIL"
      [] reason = "AUTH_FAIL" /\ ~first_connect -> "WL_CONNECT_FAILED"
      [] reason = "BEACON_TIMEOUT" -> "WL_CONNECTION_LOST"
      [] reason = "AUTH_EXPIRE" -> status
      [] reason = "ASSOC_FAIL" /\ ~first_connect /\ ~autoReconnect -> "WL_CONNECT_FAILED"
      [] OTHER -> "WL_DISCONNECTED"

StatusAfter(event) ==
    CASE event.id = "START" -> "WL_DISCONNECTED"
      [] event.id = "STOP" -> "WL_STOPPED"
      [] event.id = "CONNECTED" -> "WL_IDLE"
      [] event.id = "GOT_IP" -> "WL_CONNECTED"
      [] event.id = "DISCONNECTED" -> StatusWhenDropped(event.reason)

\* Mutant: the retry of the first attempt is the only one.
DoReconnectOnce(event) ==
    event.id = "DISCONNECTED" /\ event.reason # "ASSOC_LEAVE" /\ first_connect

\* Once for every reason but one, then for the reasons that may pass.
DoReconnect(event) ==
    /\ event.id = "DISCONNECTED" /\ event.reason # "ASSOC_LEAVE"
    /\ first_connect \/ (autoReconnect /\ event.reason \in Reconnectable)

CheckForEvent ==
    /\ callback = "idle" /\ queue # <<>>
    /\ LET event == Head(queue) IN
       /\ queue' = Tail(queue)
       /\ IF listening
          THEN /\ status' = StatusAfter(event)
               /\ callback' = IF DoReconnect(event) THEN "disconnect" ELSE "idle"
               /\ first_connect' = (first_connect /\ ~DoReconnect(event))
          ELSE UNCHANGED <<status, callback, first_connect>>
    /\ UNCHANGED <<interface, bits, autoReconnect, driver, sysQueue, posting, sketch, bounds>>

CallbackDisconnects ==
    /\ callback = "disconnect"
    /\ EspWifiDisconnect
    /\ callback' = "connect"
    /\ UNCHANGED <<interface, bits, status, settings, posting, queue, sketch, bounds>>

\* The driver takes no configuration during an attempt; config() restarts DHCP.
Join ==
    IF radio = "connecting" THEN UNCHANGED <<bits, driver, sysQueue>>
    ELSE bits' = bits \ {"HAS_IP"} /\ EspWifiConnect

\* connect(): nothing is done on a station that is connected.
CallbackConnects ==
    /\ callback = "connect"
    /\ IF netif /\ ~connected THEN Join ELSE UNCHANGED <<bits, driver, sysQueue>>
    /\ callback' = "idle"
    /\ UNCHANGED <<interface, status, settings, posting, queue, sketch, bounds>>

-----------------------------------------------------------------------------
(* The sketch: WiFi.begin(ssid) *)

Calls(op) ==
    /\ sketch = "idle" /\ calls < MaxCalls
    /\ calls' = calls + 1
    /\ sketch' = op

CallBegin ==
    /\ Calls(IF enabled THEN "started" ELSE "register")
    /\ UNCHANGED <<interface, bits, status, settings, driver, sysQueue, posting, queue,
                   callback, drops>>

\* onEnable()
Register ==
    /\ sketch = "register"
    /\ registered' = TRUE
    /\ sketch' = "init"
    /\ UNCHANGED <<enabled, listening, netif, bits, status, settings, driver, sysQueue,
                   posting, queue, callback, bounds>>

\* onSysEvent(), and initNetif() with the bits set so far.
InitNetif ==
    /\ sketch = "init"
    /\ listening' = TRUE /\ netif' = TRUE
    /\ sketch' = "start"
    /\ UNCHANGED <<enabled, registered, bits, status, settings, driver, sysQueue, posting,
                   queue, callback, bounds>>

EspWifiStart ==
    /\ sketch = "start"
    /\ enabled' = TRUE /\ radio' = "idle"
    /\ Announce(<<Event("START")>>)
    /\ sketch' = "started"
    /\ UNCHANGED <<registered, listening, netif, bits, status, settings, dhcp, why, posting,
                   queue, callback, bounds>>

\* waitStatusBits(ESP_NETIF_STARTED_BIT, 1000)
WaitStarted ==
    /\ sketch = "started"
    /\ sketch' = IF "STARTED" \notin bits THEN "idle"
                 ELSE IF connected THEN "leave" ELSE "join"
    /\ UNCHANGED <<interface, bits, status, settings, driver, sysQueue, posting, queue,
                   callback, bounds>>

Leave ==
    /\ sketch = "leave"
    /\ EspWifiDisconnect
    /\ sketch' = "left"
    /\ UNCHANGED <<interface, bits, status, settings, posting, queue, callback, bounds>>

\* The station left within the timeout, or begin() fails.
WaitLeft ==
    /\ sketch = "left"
    /\ sketch' = IF connected THEN "idle" ELSE "join"
    /\ UNCHANGED <<interface, bits, status, settings, driver, sysQueue, posting, queue,
                   callback, bounds>>

JoinNetwork ==
    /\ sketch = "join"
    /\ Join
    /\ sketch' = "idle"
    /\ UNCHANGED <<interface, status, settings, posting, queue, callback, bounds>>

-----------------------------------------------------------------------------
(* The sketch: WiFi.disconnect(), WiFi.reconnect() and WiFi.disconnect(true) *)

CallDisconnect ==
    /\ enabled /\ Calls("idle")
    /\ EspWifiDisconnect
    /\ UNCHANGED <<interface, bits, status, settings, posting, queue, callback, drops>>

CallReconnect ==
    /\ enabled /\ Calls("reconnect")
    /\ IF connected THEN EspWifiDisconnect ELSE UNCHANGED <<driver, sysQueue>>
    /\ UNCHANGED <<interface, bits, status, settings, posting, queue, callback, drops>>

Reconnect ==
    /\ sketch = "reconnect"
    /\ EspWifiConnect
    /\ sketch' = "idle"
    /\ UNCHANGED <<interface, bits, status, settings, posting, queue, callback, bounds>>

\* end(): esp_wifi_stop() and the driver's end, then onDisable().
CallEnd ==
    /\ enabled /\ Calls("remove")
    /\ enabled' = FALSE /\ radio' = "stopped" /\ dhcp' = "off" /\ why' = "ASSOC_LEAVE"
    /\ Announce((IF radio = "idle" THEN <<>> ELSE <<Disconnected("ASSOC_LEAVE")>>)
                    \o <<Event("STOP")>>)
    /\ UNCHANGED <<registered, listening, netif, bits, status, settings, posting, queue,
                   callback, drops>>

RemoveEvent ==
    /\ sketch = "remove"
    /\ listening' = FALSE
    /\ sketch' = "destroy"
    /\ UNCHANGED <<enabled, registered, netif, bits, status, settings, driver, sysQueue,
                   posting, queue, callback, bounds>>

\* Mutant: destroyNetif() leaves the bits as they are.
DestroyNetifKeepingBits ==
    /\ sketch = "destroy"
    /\ netif' = FALSE /\ UNCHANGED bits
    /\ sketch' = "unregister"
    /\ UNCHANGED <<enabled, registered, listening, status, settings, driver, sysQueue,
                   posting, queue, callback, bounds>>

DestroyNetif ==
    /\ sketch = "destroy"
    /\ netif' = FALSE /\ bits' = {}
    /\ sketch' = "unregister"
    /\ UNCHANGED <<enabled, registered, listening, status, settings, driver, sysQueue,
                   posting, queue, callback, bounds>>

Unregister ==
    /\ sketch = "unregister"
    /\ registered' = FALSE
    /\ sketch' = "idle"
    /\ UNCHANGED <<enabled, listening, netif, bits, status, settings, driver, sysQueue,
                   posting, queue, callback, bounds>>

-----------------------------------------------------------------------------

SystemTask == HandleEvent \/ PostEvent
EventTask == CheckForEvent \/ CallbackDisconnects \/ CallbackConnects

Goes ==
    \/ Register \/ InitNetif \/ EspWifiStart \/ WaitStarted \/ Leave \/ WaitLeft
    \/ JoinNetwork \/ Reconnect \/ RemoveEvent \/ DestroyNetif \/ Unregister

Sketch == CallBegin \/ CallDisconnect \/ CallReconnect \/ CallEnd \/ Goes

\* A call of begin() that fails tells the sketch so.
History ==
    /\ wish' = IF calls' # calls THEN sketch' \in {"register", "started", "reconnect"}
               ELSE wish /\ ~(sketch \in {"started", "left"} /\ sketch' = "idle")
    /\ leftover' = (leftover \intersect bits') \union (IF netif THEN {} ELSE bits' \ bits)

Next == (Driver \/ SystemTask \/ EventTask \/ Sketch) /\ History

\* The tasks run and the driver decides every attempt.
Fairness ==
    /\ WF_vars(SystemTask /\ History) /\ WF_vars(EventTask /\ History)
    /\ WF_vars(Goes /\ History)
    /\ WF_vars(LinkUp /\ History) /\ WF_vars(GetAddress /\ History)

Spec == Init /\ [][Next]_vars /\ Fairness

-----------------------------------------------------------------------------

TypeOK ==
    /\ {enabled, registered, listening, netif, first_connect, autoReconnect} \subseteq BOOLEAN
    /\ bits \subseteq Bits /\ status \in Statuses
    /\ radio \in {"stopped", "idle", "connecting", "linked"}
    /\ dhcp \in {"off", "running", "bound"} /\ why \in AllReasons
    /\ sysQueue \in Seq(Events) /\ queue \in Seq(Events)
    /\ posting \in Events \union {NoEvent}
    /\ callback \in {"idle", "disconnect", "connect"}
    /\ calls \in 0 .. MaxCalls /\ drops \in 0 .. MaxDrops
    /\ wish \in BOOLEAN /\ leftover \subseteq Bits

Settled == sysQueue = <<>> /\ sketch = "idle"
Quiet == Settled /\ posting = NoEvent /\ queue = <<>> /\ callback = "idle"

\* Once the events are handled the bits of a station that was begun tell the state
\* of the link, but for bits that were set after destroyNetif() had cleared them.
BitsAreCurrent ==
    Settled /\ enabled =>
        /\ radio = "linked" => connected
        /\ connected => radio = "linked" \/ "CONNECTED" \in leftover
        /\ "STARTED" \in bits

\* Once the events are handled the status is not that of a link which is gone.
StatusIsCurrent ==
    Quiet /\ autoReconnect /\ radio = "idle" => status # "WL_CONNECTED"

\* A link that was lost comes back, unless the access point refused the station.
Lost == wish /\ autoReconnect /\ sketch = "idle" /\ radio = "idle"
Over == radio = "linked" \/ why = "AUTH_FAIL" \/ ~wish
Reconnects == Lost /\ calls = 1 ~> Over \/ calls > 1

\* The same, whatever the sketch calls meanwhile.
ReconnectsAlways == Lost ~> Over
=============================================================================
