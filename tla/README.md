# A TLA+ verification of the ESP32 Arduino core

This directory models the state machines of the Arduino core for the ESP32
(`src/cores/esp32`, `src/libraries`). It has TLA+ modules, the TLC
configurations that check them on small instances, and modules of theorems
whose proofs TLAPS checks for every value of the constants. `PROJECT.json`
names, for each definition, the source lines it stands for.

The parts modelled are those where a mistake costs most and a unit test sees
least: **who owns a pin** (Peripheral Manager, UARTs, I2C masters), **which
image a device starts** (over-the-air updates), **what happens to a byte** between
tasks and an interrupt handler (cbuf, HWCDC, Wire), **whether a station comes
back** to its access point (WiFi over the network events), and **whether an upload
ends** when the network loses its messages (ArduinoOTA and `espota.py`).

## 1. Inventory

The repository is mostly examples, board variants, vendored libraries and thin
wrappers of ESP-IDF. Its own logic is in these components.

| Component | State | Operations | Talks to | What is hard | What makes it correct |
|---|---|---|---|---|---|
| **Peripheral Manager** `esp32-hal-periman.c` | `pins[]` (type, bus, ...), `deinit_functions[]` | set/clear a pin's bus, set/clear a deinit callback, queries | every driver; calls the old owner back before a pin changes hands | re-entrant callbacks, no lock, callbacks that refuse | no driver loses a pin without being told; a callback never gets a released bus |
| **UART HAL, HardwareSerial** `esp32-hal-uart.c`, `HardwareSerial.cpp` | `_uart_bus_array[]` (pins, lock, config), `uart_instances[]`, IDF driver, `_lock`, event task | begin, end, setPins, read/write/flush, callbacks, baud rate, flow control | Peripheral Manager (both ways), IDF driver, event task | a callback ends a driver from inside another driver's call; two mutexes; callbacks muted while pins move | pin table and structures agree; a driver that works is kept, a useless one ended; no deadlock |
| **Updater** `libraries/Update` | `_size`, `_progress`, `_buffer`, `_skipBuffer`, `_command`, `_partition`, `_error`, MD5; flash, otadata | begin, write, writeStream, end, abort, rollBack, canRollBack | flash, ESP-IDF OTA functions, bootloader, streams | power failures, flash errors, partial buffers, erase alignment, `size_t` arithmetic | the running image is never touched; an update takes effect at one instant or not at all; what was accepted is in the flash |
| **HWCDC** `HWCDC.cpp` | ring buffer, rx queue, `connected`, `tx_lock` | write, flush, read, begin, end, interrupt handler | USB interrupt, host plug and unplug | the interrupt clears `connected` in the middle of a write | bytes in order, none duplicated, bounded waits |
| **USBCDC** `USBCDC.cpp` | TinyUSB FIFO, line state, rx queue | same | TinyUSB task | reboot sequence on DTR/RTS | as HWCDC |
| **cbuf** `cbuf.cpp` | ring buffer, recursive mutex, one byte of look-ahead | write, read, peek, resize, flush | network, Bluetooth, serial users | early returns under the mutex; checks before it | a FIFO |
| **I2C master** `esp32-hal-i2c*.c`, `Wire.cpp` | `bus[]` (initialized, lock, pins) | init, deinit, read, write | Peripheral Manager, `TwoWire` | detach callback against init under the bus lock | as UART |
| **I2C slave** `esp32-hal-i2c-slave.c` | event queue, rx/tx buffers, task | init, write, interrupt handler, task | interrupt, task | order of events against data | requests answered with the data written for them |
| **SPI** `esp32-hal-spi.c` | bus structure, mutex | transactions, attach | Peripheral Manager | register access under the lock | transactions exclude each other |
| **Pin drivers** GPIO, LEDC, RMT, ADC, touch, timer | channel tables | attach, detach | Peripheral Manager | reuse of channels | as Peripheral Manager |
| **Network events, manager, interfaces** `libraries/Network` | event queue, callback list, status bits | post, register, remove, dispatch | lwIP, WiFi, sketch | callbacks that register, remove or post; a full queue | every event dispatched once, in order; no deadlock |
| **WiFi** `libraries/WiFi` | mode, status, reconnect flag, scan state | begin, disconnect, mode, events | network events | reconnect after reasons that are transient | reconnects when it should, never when told not to |
| **OTA transports** ArduinoOTA with `tools/espota.py`, HTTPUpdate, HTTPUpdateServer | `_state`, `_nonce`; tries, sockets and position of the tool | handle; serve | Updater, UDP, TCP | lost, repeated and late datagrams, two sides that time out and retry, connections given up | Success is true; what is lost is asked for again; both sides return |
| **Preferences, EEPROM** | NVS handle; cache, dirty flag | put, get; write, commit | NVS | commit against power failure | what was committed is read back |
| **Bluetooth serial, AsyncUDP, network clients, web server, Ticker** | queues, buffers, parser state | callbacks of foreign tasks | vendor stacks | callbacks against close | no use after close |
| **Sketch task, text, streams, hashes, wrappers of vendor stacks** | | | | sequential, formatting, or not in the repository | not modelled |

`PROJECT.json` has a row for each of these, with the status, and the list of
hazards with the line where each one bites. Hazards of components that have no
module yet are listed there with a note.

## 2. Modules

```
PeriMan ---- PeriManCalls --- PeriManProofs     the manager's calls in progress
   |-------- UartPins ------- MCUartPins, UartPinsProofs  the manager with the UART driver
   \-------- I2c -- Wire ---- MCWire, WireProofs  the manager with the I2C driver and Wire
OtaBoot <--- Updater -------- MCUpdater         what an update promises <- how it is done
               \-------- UpdaterProofs
Fifo <------ Cbuf ----------- MCCbuf, CbufProofs   a queue <- how cbuf makes one
             Hwcdc ---------- MCHwcdc, HwcdcProofs  writers, interrupt handler, host
             Sta ------------ MCSta, StaProofs  sketch, system task, event task, driver
             ArduinoOta ----- OtaProofs         device, UDP and TCP, espota.py
```

### PeriMan, PeriManCalls

`PeriMan` has the two tables and the decisions of `perimanSetPinBus()` as
predicates, in the order the code takes them: `RefusesArguments`,
`AlreadyAssigned`, `HasNoDeinit`, `CallsDriver`, then `Assign`. A deinit
function is "null" (never set), "empty" (the no-op that
`perimanClearBusDeinit()` stores) or "driver"; `perimanGetBusDeinit()` answers
NULL for the first two. `bus_num` and `bus_channel` follow from the bus.

`PeriManCalls` makes one call of `perimanSetPinBus()` the steps it takes: read
the old assignment, call the old owner, overwrite. The callback is arbitrary
code that may itself clear any pin, so every caller has a stack of calls
(`MaxDepth` bounds it). The history variable `owner` remembers which driver
must still be told about a pin.

### UartPins

Composes `PeriMan` with the UART driver. A task has an *agenda*, the operations
it has still to do. Calling a function puts that function's operations in front,
so the agenda is the call stack; two tasks interleave at every operation.

| Code | Model |
|---|---|
| `uart_t._rxPin, _txPin, _ctsPin, _rtsPin` | `uart[u][role]` |
| `uart_is_driver_installed()` | `installed` |
| `uart_instances[]` | `registered` |
| `uart_t.lock`, `HardwareSerial::_lock` | `lock[<<"hal", u>>]`, `lock[<<"serial", u>>]` |
| `_uartDetachPins`, `_uartAttachPins` | `Detach`; `Attach`, `Connect`, `NoteAttached` |
| `_uartDetachBus_*`, `hardware_serial_end()` | `Callback`, `HardwareSerialEnd` |
| `uartSetPins()` | `SetPins`, `SaveDeinits`, `Mute`, `Plan`, `Release`, `ReleaseOld`, `AttachIf`, `Collect`, `Restore`, `Terminate` |
| `uartEnd()` | `End`, `DetachAll`, `DeleteDriver` |
| `HardwareSerial::begin()`, `uartBegin()` | `Begin`, `TestBegin`, `UartBegin`, `Move`, `Moved`, `Install`, `DriverInstall`, `Installed`, `Started`, `Register` |
| other drivers that attach a pin (external) | `Claim`, `ForeignCallback` (may refuse) |

`UartBegin` chooses freely whether an installed driver is kept or restarted: the
code decides it by buffer sizes and line parameters, which are not in the model.
Installing the IDF driver may fail, and so may configuring it once installed.

### OtaBoot, Updater

`OtaBoot` is the abstract specification: a device runs one complete image, has
one spare slot, and the next restart starts one of the two. Four actions:
`Overwrite`, `Fill`, `Select`, `Restart`.

`Updater` is `UpdateClass`, built with `UPDATE_NOCRYPT` and without
`UPDATE_SIGN`. Positions count units of 16 bytes (`ENCRYPTED_BLOCK_SIZE`), the
part of an image that is stashed and written last. `upd` is the object's fields,
`call` the call in progress and where in it the program is, `flash` the
partitions unit by unit: programming can only clear bits, so programming over
anything but erased flash leaves junk. `size_t` counts modulo `Word`.

| Code | Model |
|---|---|
| `begin()` | `BeginStarts`, `BeginFails` (`Target`, `Verdict`, `Begun`) |
| `write()` | `WriteRefused`, `WriteStarts`, `FillSector`, `FillRest` |
| `writeStream()` | `StreamStarts`, `StreamHasBadHeader`, `StreamRead`, `StreamTimesOut` |
| `_writeBuffer()` | `FlushStarts`, `FlushBadHeader`, `FlushHasNoMemory`, `EraseDone`, `EraseFails`, `ProgramDone`, `ProgramFails` |
| `end()`, `_verifyEnd()`, `_enablePartition()` | `EndTooEarly`, `EndStarts`, `VerifyFails`, `VerifyDone`, `Enable`, `EnableFails`, `Activate`, `ActivateFails` |
| `setMD5`, `abort`, `clearError`, `canRollBack`, `rollBack` | the same names |
| power failure, restart, bootloader (external) | `PowerFails` (an erase or program operation stops at any unit), `Boot` |

`AtomicInstall` is `Boots!Spec`, with `Boots == INSTANCE OtaBoot WITH ...`: the
abstract running and spare images are read off the flash, and the image that
boots next off otadata with the bootloader's fallback.

### Fifo, Cbuf

`Fifo` is what a user of a `cbuf` expects: a queue of numbered bytes, each method
acting on it in one step. `Cbuf` is the class: a FreeRTOS ring buffer whose
receives stop where it wraps around, the byte of look-ahead that `peek()` takes
out of it, and a recursive mutex. A step of a task is one change of what is
shared, one read made without the mutex, or the wait for the mutex.

| Code | Model |
|---|---|
| `available()`, first half of `peek()` and `flush()` | `InfoRing`, `InfoDone` (two reads without the mutex) |
| `peek()` | `LockPeek`, `PeekRead`, `PeekSet` |
| `read()`, `read(dst, len)`, `remove()`, `flush()` | `LockRead`, `BeginRead`, `Receive`, `ReadFinish` |
| `write()` | `LockWrite` |
| `resize()`, `resizeAdd()` | `ResizeSame`, `ResizeEmpty`, `ResizeRefused`, `BeginRead` .. `ResizeSwap` |

The bytes a call has in hand still count as stored (`Items`), so the refinement
says that the split between ring buffer, look-ahead byte and the copies of
`resize()` cannot be seen. While `resize()` swaps buffers a reader without the mutex
may read freed memory (`Torn`): it sees any fill.

### Hwcdc

The transmit side of the USB console: tasks that write and flush under `tx_lock`,
debug output that takes no lock, the interrupt handler, and a host that plugs,
unplugs, resets the bus, opens and closes the port and picks packets up. All
of them read and write `connected`, the ring buffer and the IN_EMPTY mask.

| Code | Model |
|---|---|
| `isCDC_Connected()` | `TestConnected`, `Poke` |
| `write()` | `TakeLock`, `TakeTimesOut`, `LookForRoom`, `Put`, `PutFails`, `Trigger`, `CountProgress`, `LeaveLoop`, `Give` |
| `flushTXBuffer()` | `DropOldest`, `SendNewest`, `DropAll` |
| `cdc0_write_char()` | `PutChar` |
| `flush()` | `LookForData`, `WaitForHost`, `StopWaiting` |
| `hw_cdc_isr_handler()` | `IsrInEmpty` (`IsrUnplugged`, `IsrMoves`, `IsrFindsNothing`), `IsrReceived`, `IsrBusReset` |
| `begin()`, `end()` | `Begin`, `End`, only while nobody is in a call |
| host and device hardware (external) | `HostPicksUp`, `HostOpens`, `HostCloses`, `Unplug`, `PlugIn` |

Bytes of `write()` are numbered, those of debug output are 0. On a connection that is
down `cdc0_write_char()` hands its byte to `flushTXBuffer()` like a write, without the lock.

### Sta

The WiFi station over three tasks: the driver posts events to the system event loop; the
system task turns each into status bits and posts it again (`HandleEvent`,
`PostEvent`); the Arduino event task runs `_onStaArduinoEvent()` (`CheckForEvent`,
`CallbackDisconnects`, `CallbackConnects`). The sketch's calls are `CallBegin`
(on through `Register`, `InitNetif`, `EspWifiStart`, `WaitStarted`, `Leave`,
`WaitLeft`, `JoinNetwork`), `CallDisconnect`, `CallReconnect`, `CallEnd` (on through
`RemoveEvent`, `DestroyNetif`, `Unregister`). The driver is external: `LinkUp`,
`LinkDown`, `GetAddress`, and what its calls announce. Waits with a timeout go on
with what the bits say at that moment, early or late.

### I2c, Wire

`I2c` composes `PeriMan` with the I2C masters, with an agenda for each task as in
`UartPins`; `Wire` adds the `TwoWire` objects with their lock and buffers.

| Code | Model |
|---|---|
| `bus[i2c_num]`: initialized, driver and device handles, pins, lock | `initialized`, `installed`, `bus`, `lock[Hal(b)]` |
| `i2cInit()` | `InitStart`, `ClearScl`, `Install`, `NotInstalled`, `SetScl`, `Registered`, `Undo`, `Fail` |
| `i2cDetachBus()`, `i2cDeinit()` | `DetachBus`, `DeleteDriver`, `DeleteFails`, `Uninitialize`, `ForgetPins` |
| `i2cWrite()`, `i2cRead()`, `i2cWriteReadNonStop()`, `i2cSetClock()` | `Transfer`, `StartTransfer`, `EndTransfer`; `SetClock` |
| `TwoWire::begin()`, `end()`, `setClock()` | `CallBegin`, `Begin`, `Begun`; `CallEnd`, `End`, `FreeWireBuffer`; `CallSetClock` |
| `beginTransmission()`, `write()`, `endTransmission()` | `BeginTransmission`, `Write`, `EndTransmission`, `EndTransmissionFails`, `EndTransmissionNonStop` |
| `requestFrom()` | `CallRequestFrom`, `RequestFrom`, `RequestFromAnother`, `Finish` |
| `pinMode()` (another user of the manager) | `Claim`, `ClaimCleared` |

The HAL is `esp32-hal-i2c-ng.c`, which is built with the packaged IDF (5.5);
`esp32-hal-i2c.c` for IDF before 5.4 has the same control.

### ArduinoOta

One upload: a device that runs `ArduinoOTA.handle()` in its loop and one run of
`tools/espota.py`, with the network between them. Datagrams name the socket they
were sent from, because the tool opens another one for each; connections are
numbered in the order in which the device opened them. `run` is where `handle()`
is, `tool` where `serve()` is.

| Code | Model |
|---|---|
| `handle()`, `_onRx()` | `OnRx` (`Response`, `Expected`, `StateAfter`) |
| `_runUpdate()` | `Begin`, `Connect`, `LoopHead`, `Read`, `WaitTimesOut`, `End` |
| `send_invitation_and_get_auth_challenge()` | `Invite`, `Answered`, `AnswerTimesOut`, `NoResponse` |
| `authenticate()` and the MD5 retry | `Authenticate`, `Authenticated`, `AuthenticationFails` |
| `serve()`: accept, upload, result | `Accept`, `AcceptTimesOut`; `SendChunk`, `RecvReply`, `ReplyTimesOut`; `RecvResult`, `ResultTimesOut`, `NoResult` |
| UDP, TCP (external) | `Send`, `toDevice`, `answer`; `backlog`, `data`, `replies`, `Recv` |
| a reset at any point (external) | `Restart` |

A device is in use when the tool starts: with a password it may still wait for
the answer of an earlier tool (`Init`). Acknowledgements are counts whose value
nobody reads; only the text OK matters, and `recv()` may cut it in two. The updater
is here what `_runUpdate()` sees of it: progress, an error, an end that succeeds or
not; what it does to the flash is `Updater`.

## 3. What is checked

"violation" runs check one sentence of the repository that the code does not
keep; TLC prints the behaviour. See section 6.

| Run | Instance | Properties and what they show |
|---|---|---|
| PeriManOneCaller | 3 pins (one invalid), 2 buses, 1 task, callbacks nested three deep | `NoSilentTakeover`: no pin is taken from a driver that was not told; `NoReleasedBusOnPin`; `AssignmentsAreWellFormed` |
| UartOneTask | GPIO 0 and 1, 2 begun UARTs, one foreign driver, every request | `OwnedPinsAreKnown`, `DriverOwnsItsPins`: table, structures and drivers agree after every call; `DeinitsInForce`; `WorkingDriverIsKept`, `UselessDriverIsEnded`: exactly the drivers that lost both pins are ended |
| UartTwoTasks | same, one task in `setPins()` that takes the only pin of uart1, another one in `end()` | `NoDeadlock`: terminations run outside the mutex |
| UpdaterFlash | 2 slots, two-unit sectors, four-unit blocks, a good image and one without a header | `RunningImageIntact`, `AtomicInstall` (refinement of `OtaBoot`), `PartialImageHasNoHeader` |
| UpdaterData | a file system that starts in the middle of a block, three-unit sectors, a good and a damaged image | `FlashHoldsWhatWasFlushed`, `MD5GuardsEnd`, `CallsReturn` (liveness) |
| Cbuf | 2 readers, 1 writer, sizes 1 and 2, up to 2 bytes a call | `IsFifo` (refinement of `Fifo`), `NoOverrun`, `AvailableIsExact`, `MutexIsGivenBack` |
| Hwcdc | 1 writer, 1 task that prints debug output or asks for room, a ring buffer of two packets of one byte, writes of up to 3 bytes | `InOrder`: no byte twice or out of order; `ReturnIsWhatWasSent`: the count returned is what entered the ring buffer |
| HwcdcReturns | same, without the second task, with fairness | `FlushReturns`, `WrittenReachesHost` |
| Sta | 3 reasons for a lost link, 2 drops, 3 calls of the sketch | `BitsAreCurrent`, `StatusIsCurrent`: bits and status agree with the link once events are handled; `Reconnects` (liveness) |
| Wire | 2 tasks, 2 ports that share a pin, transactions on one, 2 devices, buffers of one byte, `pinMode()` on a pin of that port; the IDF may refuse to delete either driver | `NoDeadlock`, `DriverOutlivesTransfer`, `StartedPortOwnsItsPins`, `TransferHasItsBuffers`, `TransactionIsOneTasks`, `WireIsGivenBack` |
| ArduinoOta | an image of 2 chunks, 8 invitations, up to 3 faults, each kind of stored password, a right and a wrong one | `SuccessMeansInstalled`; `FaultlessUploadInstalls`; `LossIsSurvived`: an invitation lost, or its answer, costs at most two tries; `NobodyWaitsForever` (liveness) |
| StaReconnectLost | | violation, section 6 |

Each property of a passing run has a mutant in the model, a plausible bug of the
code (comments beginning with "Mutant"), with which TLC refutes it. The type
invariants of UartPins, Hwcdc, Sta and ArduinoOta (`TypeOK`) hold on the same
instances; they are not among the properties of the runs.

### Bounds

* **Pins and UARTs.** Every decision about a pin looks at one pin and at most two
  UARTs (the caller and the previous owner); two of each, and GPIO 0, meet every
  case. The roles are RX and TX: CTS and RTS go through the same code
  and never end a driver. One pin is not asked for in two roles of one UART
  (`Allowed`). `setPins()` saves, mutes and restores its four callbacks
  one after the other in the code and in one step each in the model.
* **Where the UART runs start.** After every UART has begun (`AllBegun`, the
  state `begin()` without pins leaves on boards that give a UART one default pin).
  So UartOneTask does not contain the stale pin of section 6, which needs
  `setPins()` on a UART that was never begun.
* **UartTwoTasks** has two kinds of requests: with `begin()` in it, the
  self-deadlock of section 6 would hide everything else. It says nothing about
  agreement of tables and structures with two tasks.
* `CHECK_DEADLOCK FALSE` is said where the system may stop: in the UART runs (a
  `begin()` that waits for its own mutex stops the task in the program too), in
  Cbuf (`resize()` to the same size keeps the mutex), in Wire (a task may keep a
  Wire object without buffers for ever), in the Hwcdc and Sta runs (the bounded
  calls come to an end) and in ArduinoOta (the tool exits). PeriManOneCaller, UpdaterFlash and UpdaterData check
  deadlock.
* **Sectors and blocks.** A sector is 2 or 3 units instead of 256, a block 2
  sectors instead of 16. What the erase policy distinguishes is kept:
  partitions that begin at and between block boundaries, updates that end inside
  a sector, in the first or last sector of a block, a short last sector, writes
  smaller and larger than what is left in the buffer. `Lengths` includes 0
  in UpdaterData.
* **Images.** All have one size, so that a new image over an old one differs in
  every unit but the blank ones; `BlankUnits` are all ones, which the code does
  not program. `Word` is far above every size; it shows the wrap of
  `remaining()`.
* `MaxDepth` = 3: a callback that clears a pin whose callback clears a pin.
* **Cbuf.** Two readers are needed for every race with `available()` and `peek()`;
  all writers take the mutex for the whole call. Size 2 has a wrap in the
  middle of a read and of a resize. `Modulus` numbers more bytes than fit.
* **Hwcdc.** The ring buffer holds more than a packet and less than a write, so
  writes go through the loop, and data stays while the handler is masked. `Tries` = 1
  gives up at once. `WrapTo` stands for 2^32 - 1, to which 0 tries are
  decremented. One event of the host (opening, closing, unplugging, a bus reset)
  meets every point of a call; with one of debug output besides.
* **Sta.** `MaxDrops` 2 and `MaxCalls` 3: a link lost, the retry refused, and calls of
  `begin()`, `disconnect()`, `reconnect()` and `disconnect(true)` in between. Three
  reasons in Sta, one of each kind (never retried after the first attempt, retried with
  the status kept, retried); all in StaReconnectLost.
* **Wire.** Transactions are on one port; the other one is there to take the shared
  pin, and is stopped when it loses it. `Claims` has the first pin of the port with the
  transactions. `Refusing` has both ports: only a port whose own driver and whose pin's
  owner are both refused is left half started. (1,291,407 states; with `pinMode()` on the
  shared pin instead, 1,689,896 states, no error either.) The model starts where `setup()` has begun and
  ended every bus once and called `pinMode()`, so the mutexes exist and tasks do not create
  them, and every type of bus has its callback. States
  after two tasks changed one pin at a time are excepted in
  `StartedPortOwnsItsPins` (`raced`): the manager itself loses assignments then. Also
  excepted are the ports whose driver was not deleted (esp32-hal-i2c-ng.c:195-198):
  `halfStarted`, where that happened to the undoing of a `begin()`, and `halfEnded`, in an
  `end()`. Both are recorded by `Next` and last until the port is stopped. A
  task does not use a second Wire object, or `begin()`, `end()` and `setClock()`, inside
  its own transaction: it would wait for itself.

* **ArduinoOta.** `MaxFaults` counts what goes wrong: a datagram lost, repeated or
  overtaken, a timeout while what was waited for could still have come, an update that
  fails to begin, to be written or to end, a restart. A timeout with nothing under way
  is free. `LossIsSurvived` needs enough faults to use up the tries: 2 * 3 + 2 = 8,
  so `MaxTries` is 8 where the code has 10; with 10 the bound of 4 faults says the same.
  `ResultTries` 6 is more than the texts a session leaves to read one by one. Two
  chunks have a first and a last; each may arrive in two pieces. The assumed order
  of texts in a connection is TCP's.

### Fairness

* Updater, `CallsReturn`: `WF_vars(Step)`: a call in progress goes on, that is, the
  sketch task is scheduled and a read of the stream returns (`Stream::readBytes()`
  has a timeout, and the 300th empty read aborts the update). No fairness is assumed
  of the sketch (`Request`) or of power failures.
* Hwcdc: a task in a call goes on (its waits have timeouts), a raised and
  enabled interrupt is served, and a host that has the port open picks up packets.
  Nobody has to call, and the host need not open the port or stay.
* Sta: the system task, the event task and a call in progress go on (FreeRTOS schedules
  them; every wait has a timeout), and the driver ends an attempt and a DHCP
  request. `LinkDown` is not fair: the access point need not drop anybody.

* ArduinoOta: the device's loop calls `handle()`, and the tool's process runs; both
  only wait with timeouts. Neither the network nor a restart is fair: every datagram
  may be lost (as far as `MaxFaults` goes), and no device has to restart.

## 4. What is proved

Eight groups of theorems, each for every value of the constants that satisfies the
assumptions of the module. Eight theorems have a hypothesis besides, which
the runs' constants satisfy too: `TwoSlots`, `SectorsFit` (two theorems), `OneCaller` and
`OneTask` (four, two of them with `DefaultsApart`).

| Module | Theorem | States |
|---|---|---|
| UpdaterProofs | `TypeCorrectness`, `RunningImageSurvives`, `AlwaysSomethingToBoot` | `TypeOK`, `RunningImageIntact`, something boots |
| | `PartialImageIsNotBootable`, `FlushedDataStays`, `MD5IsAGuarantee`, `UpdatesAreAtomic` | `PartialImageHasNoHeader`, `FlashHoldsWhatWasFlushed`, `MD5GuardsEnd`, `AtomicInstall` (`Updater` implements `OtaBoot`) |
| PeriManProofs | `TypeCorrectness`, `TablesStayWellFormed`, `NoStaleBus`, `OneCallerTellsEveryDriver` | `TypeOK`, `AssignmentsAreWellFormed`, `NoReleasedBusOnPin`, `NoSilentTakeover` |
| UartPinsProofs | `OwnedPins`, `OwnersAreTold`, `DriversOwnTheirPins`, `WorkingDriversAreKept` | `OwnedPinsAreKnown`, `DeinitsInForce`, `DriverOwnsItsPins`, `WorkingDriverIsKept` |
| CbufProofs | `TypeCorrectness`, `TheMutexIsGivenBack`, `ReadsStayInTheirBuffer`, `AvailableTellsTheTruth`, `CbufIsAFifo` | `TypeOK`, `MutexIsGivenBack`, `NoOverrun`, `AvailableIsExact`, `IsFifo` (`Cbuf` implements `Fifo`) |
| HwcdcProofs | `BytesInOrder`, `WriteTellsWhatWasSent` | `InOrder`, `ReturnIsWhatWasSent` |
| WireProofs | `Typing`, `NoTransferWithoutDriver`, `NoTransferWithoutBuffers`, `TransactionsDoNotMix`, `WireComesBack`, `PortsOwnTheirPins` | `TypeOK`, `DriverOutlivesTransfer`, `TransferHasItsBuffers`, `TransactionIsOneTasks`, `WireIsGivenBack`, `StartedPortOwnsItsPins` |
| StaProofs | `BitsTellTheLink`, `StatusTellsTheLink` | `BitsAreCurrent`, `StatusIsCurrent` |
| OtaProofs | `SuccessIsTrue`, `LossCostsTwoTries` | `SuccessMeansInstalled`, `LossIsSurvived` |

### The updater (`UpdaterProofs`)

The theorems are for every partition table, sector and block size, set of images, of
writes and of commands that satisfy the assumptions of `Updater`. The first three:

* `TypeCorrectness == Spec => []TypeOK`
* `RunningImageSurvives == Spec => []RunningImageIntact`: whatever the sketch
  calls, whatever fails and whenever the power goes, the slot the device runs
  from holds a complete, undamaged image.
* `AlwaysSomethingToBoot == Spec => [](BootChoices(flash) # {})`: the bootloader
  never finds nothing to start.

`RunningImageIntact` is not inductive: that the running slot is not written
depends on where `_partition` points. `begin()` stores the pointer *before* it
compares it with the running partition and leaves it there when it refuses; a
failed flush inside `end()` resets `_command` to `U_FLASH` while the pointer
is still on the file system. The inductive invariant

    Inv == TypeOK /\ RunningImageIntact /\ FeedingMeansRunning
           /\ WritesElsewhere /\ HeadersOnlyInSlots

says when that is harmless: a flush runs only while an update does
(`FeedingMeansRunning`); from a successful `begin()` to the last step of the
call that ends the update the pointer is on a partition that does not run
(`WritesElsewhere`); a header is written and a slot selected only when the
pointer is on a slot (`HeadersOnlyInSlots`). There is one lemma per group of
actions (`BeginKeepsInv`, `BufferingKeepsInv`, `FlushKeepsInv`,
`FinishingKeepsInv`, `FailuresKeepInv`, `PowerFailsKeepsInv`, `BootKeepsInv`),
lemmas on flash operations under them (`OtherPartitionsKeepTheirImage`), and
`NextKeepsInv` collects them.

Assumptions: sizes are positive, an image fits a partition, the partition size
plus a block does not wrap, the factory image is good, blank units are neither
header nor checksum, and `NextSlot` maps slots to slots. Nothing says that the
next slot is another one: the guard in `begin()` carries that case.

`PartialImageIsNotBootable == Spec => []PartialImageHasNoHeader`: from the first
flush until the header is written last, the slot being updated has no header. What was in the
slot before may have one, so this needs that the first sector is *erased* before it
is programmed, by the block or the sector erase: `FirstSectorIsErased`, a
lemma on the division of positions by block and sector sizes. The invariant
`HeaderInv` adds that the update fits the partition (`SizeFits`) and that once
the first erase is done no old header is left (`OldHeaderIsErased`).

`FlushedDataStays == ASSUME SectorsFit PROVE Spec => []FlashHoldsWhatWasFlushed`:
what the updater counts in `_progress` is in the flash. Most flushes erase
nothing; they rely on an earlier one that erased the whole block. `FlashInv` says
that the rest of the block is still blank wherever the next flush does not erase
(`RestOfBlockIsErased`), which needs that all flushes but the last are full sectors
from a sector's start (`SectorBySector`, `FlushesAreSectors`). Since `remaining()` does
not count what is in the buffer, `_progress` may pass `_size`, and `remaining()` wraps:
`SizesFit` bounds by how much, so a flush still stays inside the partition or fails.
`SectorsFit` says that a block is a whole number of sectors (65536 and 4096, Update.h:53-54)
and that partitions start on sector boundaries, as ESP-IDF's partition tables must.

`MD5IsAGuarantee == ASSUME SectorsFit PROVE Spec => MD5GuardsEnd` is an action property
of both places where `end()` returns true. `DigestInv` says that the digest covers exactly
what was flushed, that neither a stashed header nor the `command` of a file system outlives
its update (a failed last flush resets both, and `end()` goes on), that what reaches
`_enablePartition()` with a header and an MD5 is a whole undamaged image, and that the
header then gets onto an erased unit, which is `PartialImageHasNoHeader`. That the rest
is still there is `FlashHoldsWhatWasFlushed`.

`UpdatesAreAtomic == ASSUME TwoSlots PROVE Spec => AtomicInstall`: seen from the next
restart, every behaviour of `Updater` is one of `OtaBoot`. Each action is one of its four
steps or a stutter; a flash operation, torn at any unit or not, is a stutter, an
`Overwrite` or a `Fill` of the spare slot (`FlashOperationIsABootsStep`), because an image
is told from another one by unit 0 and no one operation replaces a header by another.
`TwoSlots` says that two slots take turns, as in `tools/partitions/default.csv`: `OtaBoot` has
one spare slot. With more slots the running image is still safe (`RunningImageSurvives`).

### The Peripheral Manager (`PeriManProofs`)

`TypeCorrectness` and `TablesStayWellFormed == Spec => []AssignmentsAreWellFormed`,
for any pins, number of tasks and depth of nested callbacks. The invariant adds that every
call in progress has passed the checks on its arguments (`CallsAreChecked`).

`NoStaleBus == Spec => []NoReleasedBusOnPin` holds for any number of tasks although the
manager has no lock: `Released` says that a pin with a bus belongs to a driver that was not
called back yet, unless a call is about to overwrite that very pin. `OneCallerTellsEveryDriver == ASSUME OneCaller PROVE Spec =>
NoSilentTakeover` needs one task: with two it is false (section 6). `Told` says for every
frame of the stack that the driver its pin had is told or is still the owner; below
the innermost frame this survives because a nested call only clears pins.

### The UARTs' pins (`UartPinsProofs`)

For any UARTs, roles (RX and TX among them), pins, defaults and requests, from reset
(`Spec`) and with all UARTs begun (`SpecBegun`): `OwnedPins` and `OwnersAreTold`, and from
`SpecBegun` also `DriversOwnTheirPins` and `WorkingDriversAreKept`, all with
the hypothesis `OneTask == \E t : Tasks = {t}`. It is needed: the manager has no lock and the
saved callbacks are shared by all UARTs, so a second task in `setPins()` breaks `DeinitsInForce`
(section 6).

`OwnedPinsAreKnown` and `DeinitsInForce` are about quiet states. In the middle of a call they are false in ways that
depend on what the task has still to do, so the inductive invariant is about its agenda:

    Inv == Types /\ \A t \in Tasks : Good(t)
    Good(t) == InOrder(agenda[t]) /\ Ready(t) /\ Known(t) /\ Told(t) /\ Released(t)

`InOrder` says which operation may come before which, and directly before which: releases
before attaches, one attach for each role, restoring the callbacks after the last attach.
`Known`: the UART knows the pin it owns, or the next operation settles it (`OnItsWay`: the
pin is about to be cleared, or was assigned and is about to be noted). `Ready`: the
step that assigns a pin finds it unassigned. `Told`: the role's callback is in force, or is muted by a
task whose agenda still has the restore, or is about to be set with the pin just
assigned. `Released`: before a UART gets a pin for a role the old one is out of its hands, or
an operation that gives it up comes first, or the detach under way is it; without that, writing
`_rxPin` would leave the old pin in the manager with an owner that no longer knows it.

TLC checked `Inv` on the instance of MCUartPins from `SpecBegun` (254,240 states) before it
was proved. There is one lemma for each part that says when a turn of the task keeps it
(`OrderStays`, `ReadyStays`, `KnownStays`, `ToldStays`, `ReleasedStays`), and one for each action.

`DriversOwnTheirPins` is the other direction, and holds at every moment: a pin a UART believes
to have is the manager's too. It starts where every UART has begun, as a UART that is not
registered is not ended by the callback for its last pin and may keep a stale
one (section 6). Its second hypothesis, `DefaultsApart`, says that all of them
can have their default pins at once: no pin is the default of two UARTs, or of one twice, as in
HardwareSerial.h:150-262. (The pins of an LP UART come from the IDF; where they coincide
with those of another UART the two do not both begin on their defaults, and `AllBegun`, which is no state of
such a board, is not where its sketches start.) The invariant adds to `Inv`:

    DriverInv == Inv /\ registered = Uarts /\ Owned /\ \A t \in Tasks : Sane(t)
    Sane(t)   == Lined(t) /\ Vacated(t) /\ Apart(t)

`Owned` alone is not inductive: `perimanSetPinBus()` overwrites an owner, and the UART that had
the pin must have forgotten it by then. `Vacated`: before an operation of the agenda that
assigns a pin comes one that makes its owner give it up (`Frees`: the callback, the
end, the detach). The same is asked of the attaches of a `setPins()`, which come while the callbacks are
muted and nobody would be told. `Lined`: nothing but the unwinding of a UART comes before an assignment, and no two
pins still to be attached are the same. `Apart`: the pins a call asks for differ, the ones
that `begin()` fills in from the UART's present pins or from its defaults
included. TLC checked `DriverInv` on the 254,240 states of UartOneTask before it was
proved; `LinedStays`, `VacatedStays` and `ApartStays` say when a turn keeps a part, `HarmlessKeeps`,
`PushingKeeps` and `PlanningKeeps` do so for turns of one kind, and each action has a lemma.

`WorkingDriversAreKept` is an action property: whatever step deletes a driver, it is in the call
that began or ended that UART, or in one that asked for every pin the UART had
for RX and TX when the call began. The delete is at the bottom of `uartEnd()`; why it may happen was settled by
the callback, the `uartDetachPins()` or the termination that led there, in
another state of the pins. Again from `SpecBegun`, with `OneTask` and `DefaultsApart`: from reset it
is false (section 6). The invariant keeps the account along the agenda:

    KeptInv == DriverInv /\ \A t \in Tasks : Kept(t)
    Kept(t) == /\ Aligned(t) /\ Justified(t) /\ Accounted(t)
               /\ Doomed(t) /\ Fresh(t) /\ Bracketed(t) /\ Taken(t)

`Accounted`: a UART still has each pin it had at the start of the call, or it is one it may have
lost (`Lost`: the call moves it, or asked for it). `Justified`: every operation of
the agenda is one the call may do (`Lawful`); an `end`, a `detachAll` or a `delete` needs
`MayEnd`, which is what the property says. `Doomed`: the UARTs that wait for termination are never the
call's own before they are sorted out, and only such as may end afterwards. `Taken`: the owner
that a pin is taken from with a callback has given it up already or the pin was asked
for; in a `setPins()` it is always the first, because its callbacks are muted. `Aligned`
orders the operations further (nothing ends a UART after `plan`, which forgets what the
others had), `Bracketed` says that a `setPins()` that still releases or attaches will
restore and collect, `Fresh` that `begin()` starts from what the account began with. `DriverInv` is needed
because the callback ends a UART by what its structure says: that the
structure and the manager agree on the other pin is what makes "both were asked for" true. TLC
checked `KeptInv` on the same 254,240 states first. `AlignedStays`, ...,
`TakenStays` say when a turn keeps a part, and each action has a third lemma; `DeletedLawfully` is
the step to the property.

### cbuf (`CbufProofs`)

* `TypeCorrectness`: among others, the ring buffer never holds more than its size.
* `TheMutexIsGivenBack == Spec => []MutexIsGivenBack`.
* `ReadsStayInTheirBuffer == Spec => []NoOverrun`.
* `AvailableTellsTheTruth == Spec => []AvailableIsExact`: `available()` looks at
  the ring buffer and at the look-ahead byte without the mutex. `Asked` says that as long as
  nobody else consumes (`quiet`) only writes come between the two looks (`Undisturbed`,
  `OnlyWrites`), so the sum is at least the fill at the call and at most the present one.
* `CbufIsAFifo == Spec => IsFifo`: the buffer implements the queue of `Fifo`, every
  call returning what the queue would have answered.

The invariant is `Inv == TypeOK /\ OneMover /\ \A t \in Tasks : Sound(t)`. None of the
first three properties is inductive: that a read stays in its buffer depends on nobody
else having bytes in hand. `OneMover` says that only the holder of the mutex
does, and `Sound` what a call holds at each of its steps, and that `resize()` has
emptied the old ring buffer before it is freed.

The refinement maps the queue to the look-ahead byte followed by the ring buffer
(`Items`), or to the bytes a resize has in hand followed by the ring buffer. A call
takes effect in the queue at one step: a read when it has taken its last byte
and returns, a write when it stores, the others when they look. There is
one lemma per action of `Cbuf`, each showing that it is that step of the queue or a stutter
(`NextIsQueueStep`). They rest on `NobodyInHand` and `OneInHand`: while one
task moves bytes no other does, so the bytes a read has already taken are still the
front of the queue when it returns.

### The USB console (`HwcdcProofs`)

`BytesInOrder == Spec => []InOrder` and `WriteTellsWhatWasSent == Spec =>
[]ReturnIsWhatWasSent`, for any number of tasks, every size of the ring buffer and the
packets and writes of any length; the model's bounds (`MaxBytes`, `MaxEvents`, `MaxOther`)
may have any value.

The invariant is `Inv == Typed /\ Calls /\ Line(sent, ring, Writing, next)`. `Line` is about
four places a byte goes through: not yet numbered (`next`), in the hands of the writer
that has `tx_lock` (`Writing`), in the ring buffer, moved to the FIFO (`sent`). Along them the
numbers rise, with the zeros of debug output in between. That sending the first bytes,
dropping the oldest, cutting what does not fit, and moving a packet keep the line are
lemmas about sequences (`LinePuts`, `LineDrops`, `LineCuts`, `LineMoves`); they need no
bound on how much is dropped, so it does not matter that debug output without the
lock drops bytes of a writer that is in the middle of its call. `InOrder` alone is not
inductive: it knows neither the numbers still to come nor who may send. `Calls`
adds that: which call comes to which step (`Shape`), that those past the wait have the lock
(`Locks`), and what `write()` would return if it left now (`Counted`): until a send fails all of
its bytes, then those that are no longer in its hands; a call that has seen the connection
down is in `broke`. TLC finds no counterexample to `Inv` with the constants of Hwcdc.cfg
(986,681 states).

### The station (`StaProofs`)

`BitsTellTheLink == Spec => []BitsAreCurrent` and `StatusTellsTheLink == Spec =>
[]StatusIsCurrent`, for any number of calls and drops and event queues of any length. Both
are about empty queues only; the invariant `Inv == Typed /\ Begun /\ Known` says what bits
and status are worth before that. `Begun` follows `begin()` and `end()`: which of the handlers
and the interface are there at each step. `Known` is about the events under way, in the
order in which they will be handled (`Pending`: queue, event being posted, system loop):

* `LinkIsKnown`: the last event about the link tells its state; with none under way the bit does.
* `StartIsKnown`: STARTED is set or START is under way, and every STOP is followed by a START.
* `OldAddress`: without a link every GOT_IP is followed by an event that takes it back.
* `OldLink`, `LeftAlone`: a bit left over from before `begin()` does not keep the status
  at WL_CONNECTED: the START of that `begin()` resets it, or a DISCONNECTED is to come.
* `StatusWillBe`: a status that is out of date will be changed by an event, or belongs to
  AUTH_EXPIRE, whose callback is about to disconnect and connect. That `connect()` may find
  the connected bit set and do nothing (section 6); then `LinkIsKnown` and
  `LeftAlone` give the event that corrects the status.

TLC checked `Inv` before, with 4 calls and 2 drops. The proof has a lemma for each end of the
queues (`MoreEvents`, `FewerEvents`), for what each task does to the whole pipeline
(`AnnouncedPipeline`, `DeliveredPipeline`, `PostedPipeline`, `TakenPipeline`), and then one per
action that changes the link or handles an event; the others leave all that alone (`StillStep`).

### The upload (`OtaProofs`)

`SuccessIsTrue == Spec => []SuccessMeansInstalled`: `espota.py` says Success only of an
image that is installed, and only an image whose chunks were all sent is, for any
number of chunks, tries, pending connections and faults. The invariant has two parts.
`OkIsTrue`: while nothing is installed no text the tool has still to read says OK, in
whatever connection it was sent. `Conserved`: what the device has written and what it
has not yet read are together at most what the tool has sent; connections that were
closed, forgotten or never accepted only lose pieces. So a complete image (`End`) means
that all chunks were sent.

`LossCostsTwoTries == Spec => []LossIsSurvived`: the tool gives up for want of an answer
only when 2 * faults + 2 >= MaxTries. The property speaks of the end of the asking; what
is inductive is an account kept all along (`Budget`), checked with TLC first. A stray is a
datagram at the device that the tool no longer waits for: `Strays <= faults`, because a
copy was a fault and a timeout that leaves something behind is one. While the tool
invites, the tries it missed, the strays and a device that still waits for another
answer (`Deaf`, the state OTA_WAITAUTH) are together at most 2 * faults + 1. A lost
datagram adds a missed try and a fault. A timeout too early turns the try under way into
a missed one and its datagram into a stray: two, for one fault. A deaf device that throws
the invitation away is deaf no more: one for one. The retry for an MD5 hash starts with
no missed tries, so its account is at most strays + 1. Two facts make the
account close: a device that is asked from idle always answers (`Response`), so a
try fails with the device listening only by a fault; and while the tool asks no chunk was
sent (`NothingSent`), so the device cannot complete an image and restart, which would
drop a datagram without a fault. The last comes from `Conserved`, the invariant of the
first theorem.

### I2C and Wire (`WireProofs`)

For any number of tasks, ports, devices and pins, and with `pinMode()` on any pins:
`Typing` (among others, no transmission outgrows the buffer), `NoTransferWithoutDriver`,
`NoTransferWithoutBuffers`, `TransactionsDoNotMix`, `WireComesBack` and `PortsOwnTheirPins`.
The first five follow from

    Inv == Types /\ Shape /\ HalHeld /\ WireHeld /\ Waits
           /\ Drivers /\ Buffers /\ Sayings /\ Restarts

A task's program counter is its agenda, so what is inductive is a statement about
agendas. `Shape`: which operation may follow which (`InOrder`), one Wire object for each agenda
(`OnePort`), and at most one operation inside the lock of a given port (`OpenOnce`). The last
one is what makes the re-entrance safe: a callback of `perimanSetPinBus()` puts an
`i2cDeinit()` with its own lock in front of a `begin()` that holds another port's, and
`HalHeld` then gives the lock to exactly the task inside. `WireHeld` and `Waits` do
the same for `TwoWire::lock`. `Drivers`: a port in use is started and installed, and one that
is started without a driver is being stopped by the task inside. `Buffers`: a started port has
its buffers or is in `halfStarted` or `halfEnded`, and a `begin()` or `end()` still on its way
to free them has the stop of the port before it or was refused it. `Sayings`: what a task has said since `beginTransmission()` is what the object
keeps, and who holds an object is in a transaction or in a call on it. `Restarts`: `nonStop` is
set for a repeated start that is asked for or was given up.

TLC found no counterexample to `Shape`, `HalHeld`, `Drivers` and `Buffers` on the instance of
MCWire; for the others it was asked without `pinMode()` and refusals, and with them the
proof is the evidence. Most actions are instances of a few lemmas: `Fits` says when an
operation on an agenda may be replaced by others, `FittingActionKeepsInv` and
`NeutralActionKeepsInv` what that leaves alone, `CallStep` and `TalkStep` are the same for the
calls on a Wire object and the steps of a transaction.

`PortsOwnTheirPins` is about the Peripheral Manager's pins, which no lock protects: the lock
of a port is the port's own, and another task, or another port's `begin()`, may take its pin
at any time. The invariant adds to `Inv` what holds until two tasks change one pin at a time:

    OwnInv  == Inv /\ (~raced => Keeping)
    Keeping == ~Racing /\ Chained /\ Intended /\ Succeeding
               /\ Explained /\ Asked /\ Claimed

`Explained`: a pin that names a port is one of the two pins of that port, which is started,
or some task has its clearing on the agenda and after it the end of the port's structure.
`Claimed`: a pin of a started port is registered, or a task has the registration on its
agenda, or the start is given up (`GivenUp`): it is being undone, or stayed half done.
`Asked`: before a pin is overwritten its owner has been stopped, or is stopped first, or has
refused and the pin is not going to be overwritten (`Skipped`).
These are about shared state, and each rests on what the agendas promise. `Chained`:
an assignment comes right after the callback of the owner, the second pin after the first.
`Intended`: an operation finds its port as its position on the agenda supposes, started or
not, with the pins that were asked for. `Succeeding`: a pin is assigned after a success, or
its owner has refused; and where the code goes on whatever a call returned
(`perimanClearPinBus()` in `i2cDeinit()`), the owner that refused is not the port being
stopped (`Spared`). None of them is inductive without the others: that a pin is not overwritten under a
started port needs the result of the callback (`Succeeding`), the callback's result needs
that the port it finds is in the state it expects (`Intended`), and that rests on nobody
else's touching the port's pins in between (`Asked`, `Explained`, `~Racing`).
TLC found every part of `Keeping` true on the instance of MCWire with `pinMode()` on the shared
pin (1,689,896 states) before it was proved. `PlainStep` reduces
most actions to what they put on the agenda (`Moves`); the lemmas `MovesKeep...` say, for each
part of `Keeping`, what these operations have to satisfy. The steps that change the pins
or the ports themselves have their own proofs: `AssignPinKeeps`, `InstallKeeps`,
`UninitializeKeeps`, `ForgetPinsKeeps`, `DeleteFailsKeeps`.

What the exceptions leave: on valid pins, and until two tasks race for one, the registration of a
started port's pins fails only where the driver of the pin's owner was not deleted. The
branch of `i2cInit()` that undoes such a start (esp32-hal-i2c-ng.c:150-155) is excepted while it
runs; afterwards the port is stopped and no pin names it, or its own driver was not deleted
either and it is in `halfStarted`.

The assumptions are those of `PeriMan`,
`I2c` and `Wire`: pins are numbers, a sketch begins a port on two different pins, NULL and
"free" are no tasks.

### Only model-checked

* `UselessDriverIsEnded` of `UartPins`: a successful `setPins()` ends every UART that lost
  both pins. "Successful" is the result of each detach and attach, passed along the agenda,
  and the property needs of each of them that a failure was not overwritten on the way; that is
  another account than the one of `KeptInv`, which holds of failed calls too.
* `NoDeadlock` of `UartPins` is not true for all requests: a task in `begin()` can wait for a mutex it
  holds itself (section 6). The run has a setter and an ender; a theorem about
  those needs facts about two tasks inside the UARTs' tables, where the invariants of
  `UartPinsProofs` do not hold.
* `NoDeadlock` of `I2c` is not true for all constants either: it depends on which pins the ports
  are begun on (section 6). The run has two ports that share one pin.
* `FaultlessUploadInstalls` of ArduinoOta is
  true only of an image of few enough chunks: a `recv()` of the tool may return one count
  of many, it looks for the result ten times, and nothing in the code bounds the chunks by
  that. The run has 2 chunks and 6 looks; a theorem would need the bound as an assumption
  that the code does not give.

The liveness properties
(`CallsReturn`, `FlushReturns`, `WrittenReachesHost`, `Reconnects`,
`NobodyWaitsForever`) are out of the prover's reach: it has no rule for fairness and ENABLED.

## 5. What is not modelled, and what is taken from outside

* External, modelled from how the code uses it: NOR flash, ESP-IDF's image
  check, otadata, the bootloader's choice, the IDF UART driver, other drivers'
  callbacks. The image check accepts complete undamaged images only.
* Updater: the `write()` template for clients (Update.h:276-311), decryption
  (`setupCrypt`, `_decryptBuffer`), `UPDATE_SIGN`, the progress callback, the LED.
* UART: data path, event task and user callbacks, peek byte, baud rate and its
  detection, flow control, inversion, LP UART, pin validation, builds with
  `CONFIG_DISABLE_HAL_LOCKS`.
* cbuf: the destructor; `room()`, `full()`, `empty()`, which only look.
* HWCDC: the receive queue, event posting, the setters, and `end()` while another task is
  inside a call.
* WiFi: access point, scanning, WiFiMulti, enterprise security, SmartConfig, WPS,
  static addresses, IPv6. Network events: a full queue, several callbacks, registering
  and removing callbacks during dispatch.
* Wire: the slave side, `setPins`, `setBufferSize`, the receive buffer, the first
  `begin()` that creates the mutexes; in `i2cSetClock()` the loop over devices.
* ArduinoOTA: `begin()` and `end()` in the middle of a session, signatures, mDNS, setters
  and callbacks; in `espota.py` the protocol of devices before 3.3.1 (a nonce of 32
  characters), broken pipes in the middle of a chunk, options. A second tool at the
  same time. HTTPUpdate and HTTPUpdateServer. Two simplifications: a nonce is named by the
  socket of its invitation, so two copies of one invitation get the same nonce where the code
  makes a new one for each (ArduinoOTA.cpp:248); and a flash error always shows as a failed
  `Update.write()`, where one in the flush of the last sector leaves a positive count and
  shows in the next `Update.write()` or in `end()`.
* External besides the above: the FreeRTOS ring buffer and recursive mutex, the USB
  serial/JTAG device, the WiFi driver with its event loop and the DHCP client, the I2C driver,
  which may refuse to be installed or deleted and then stays as it was. The handles of its
  devices are left out: when a device is not removed (191) the model only has the refusal that
  follows.
* All components without a module in section 1.

The modules cover a small share of the repository's lines. Most of it is code without
state of its own: board variants, wrappers of ESP-IDF, Bluetooth
and Matter stacks whose behaviour is elsewhere, register access, text and number
formatting, HTTP parsing, examples. A model of those would restate assignments.

## 6. Where code and documentation disagree

One run shows a disagreement; TLC prints the behaviour.

**StaReconnectLost.** `_onStaArduinoEvent()` takes every event for the
present state. The link drops; before the event task gets to it the sketch calls
`WiFi.reconnect()` and the station is linked again. The callback
now calls `disconnect()`, which takes the new link down, and `connect()`, which
finds the connected bit still set and returns (STA.cpp:329). The event that
follows has the reason ASSOC_LEAVE, which counts as voluntary: the station stays
down. "Function used to set the automatic reconnection if the connection is
lost." (WiFiSTA.cpp:255).

Nine more follow from the modules; they have no run, and each is reproduced as
the line says:

* `Hwcdc` with the constants of HwcdcReturns.cfg and `RingSize`, `MaxWrite` and
  `MaxBytes` 1, `DataReachesHost`: `write()` found the connection down and is in
  `flushTXBuffer()`. Before it sends to the ring buffer the interrupt handler sees
  the host, sets `connected`, finds nothing to send and masks itself
  (HWCDC.cpp:98, "so that the interrupt won't be triggered if there is no data to
  send"). The bytes enter the ring buffer and nothing enables the mask: they stay,
  with the host reading, until another call.
* `PeriManCalls` with two callers, `NoSilentTakeover`: "Used to destroy bus when pin is
  assigned another function" (esp32-hal-periman.h:134). The manager has no lock.
  Two tasks that both found the old owner overwrite the pin one after the other;
  the driver that got it first is never called.
* `UartPins` from `Spec` (reset), `NoDeadlock`: on an installed driver
  `uartBegin()` moves pins while it holds the mutex and with the callbacks in
  force (esp32-hal-uart.c:1045-1062). `begin()` with RX and TX swapped detaches RX,
  then clears the new RX pin, the UART's own TX pin: the callback ends the
  UART, and `uartEnd()` waits for the mutex the same task holds.
* `UartPins` from `Spec`, `WorkingDriverIsKept`: `setPins()` before `begin()` (which
  HardwareSerial.cpp:610 allows) attaches a pin; when another driver takes it, the
  object is not registered, nothing is ended and `_rxPin` stays. If another UART then
  begins on that pin, `end()` of the first one passes the checks of
  `_uartDetachPins()`, which do not compare the bus, and ends the driver of the second.
* `UartPins` with two tasks in `setPins()`, `DeinitsInForce`: the saved callbacks
  are shared by all UARTs, the mutex is per UART. The second task saves NULL while
  the first one has muted, and in the end nothing restores the callbacks.
* `Wire` with two ports begun by two tasks on the same two pins, `NoDeadlock`: in the opposite order, each `i2cInit()` holds the mutex of its port while it registers the second
  pin (esp32-hal-i2c-ng.c:148-149). That is the first pin of the other one, and `perimanSetPinBus()` calls its
  driver, which waits for the mutex of the other port. The lock is released only before
  the port's own `i2cDetachBus()` (151-154). In the same order, a task waits for itself: its
  `begin()` has taken the first pin when it stops the other port for the second one, and
  `i2cDeinit()` of that port clears both of its pins (200-201), whoever has them now. (The instances of
  Wire.cfg with 2 and 1, and with 1 and 2, as the pins of i2c1.)
* `Wire` with the constants of Wire.cfg, `TransferHasItsBuffers` without its exceptions:
  `i2c_del_master_bus()` refuses in `end()` (esp32-hal-i2c-ng.c:195-198). `end()` returns false
  and has freed the buffers (Wire.cpp:346); the port stays started. The `begin()` that
  follows finds the port started and returns true without buffers (Wire.cpp:299-302): "This
  function will return `true` if the peripheral was initialized correctly"
  (docs/en/api/i2c.rst:230). Writes and requests fail then until an `end()` succeeds, and a
  `requestFrom()` that had seen the buffers and waited for the lock (489) transfers without
  them. A `begin()` whose undoing is refused leaves the port in the same state.
* `Updater`, a `writeStream()` after `write()` of part of a sector: `remaining()` does not
  count the buffer, and more is taken than the update has room for.
* `Updater`, `CanRollBack` after `ActivateFails`: `end()` writes the header before
  ESP-IDF verifies the image. When that fails the header stays and
  `canRollBack()` says true for an image that does not boot.

Seen while modelling, with no sentence of the repository against it:

* `rxPin > 0` and `txPin > 0` (esp32-hal-uart.c:1045, 1054) exclude GPIO 0: a
  `begin()` on a running UART keeps the old pin.
* A task that found `lock == NULL` at `UART_MUTEX_LOCK` gives back, at
  `UART_MUTEX_UNLOCK`, a mutex another task created in between.
* `write(data, 0)` when the buffer is empty and nothing remains flushes once
  more (Updater.cpp:791) and may abort a complete update with an erase error.
* `write()` compares `len` with `remaining()` only (773), so it too accepts more
  than fits beside the buffer.
* `writeStream()` with a buffer that `write()` filled exactly asks for 0 bytes
  and aborts with a stream error after 300 attempts.
* `end()` ignores the result of `_writeBuffer()` (715); after a failed flush of a
  file system update it goes on as for a firmware update of size 0. With an MD5
  set the wrong digest stops it.
* `_buffer + skip / sizeof(uint32_t)` (609) is byte arithmetic: the test for a
  blank first sector starts at byte 4 instead of 16. A header is never blank, so
  the only effect is a program operation that could have been skipped.
* `writeStream()` in the middle of a firmware image peeks at a byte that is not
  the header and aborts.
* cbuf: `resize()` to the size the buffer has returns with the mutex (cbuf.cpp:78).
* HWCDC: `tries` is decremented after the handler has set `connected` again at 0
  (477, 486): it wraps, and `write()` goes on where it had given up.
* HWCDC: after a bus reset `isCDC_Connected()` never enables the mask again once
  `running` is set.
* HWCDC: for a full ring buffer `flushTXBuffer()` keeps the *first* bytes of the new
  data (230-232); the comment at 490 says "keeping the last data". A drop that
  reaches the end of the ring buffer is cut short there.
* HWCDC: `end()` deletes the mutex and both buffers under a writer (377).
* STA: `onDisable()` clears the bits before it unregisters the handler (292), so
  a bit may be left for the next `begin()` (`leftover`). AUTH_EXPIRE leaves the status as
  it was (144). `first_connect` is never reset. The status may stay WL_CONNECTED after
  `end()` (287).
* `NetworkInterface::waitStatusBits()` says "any bit will do" (245) and waits for all.
* `postEvent()` waits for ever on a full queue; its header says that it
  returns false. `NETWORK_EVENTS_MUTEX` is defined nowhere (NetworkEvents.cpp:122-127).
* WiFiScan starts a scan before it sets its bits (93-97, 116), and a timeout leaves
  SCANNING set.
* Wire: `endTransmission()` without buffers keeps the lock (452). A repeated start that
  was given up leaves its bytes, and a later `requestFrom()` sends them (505). The
  `sendStop` of `requestFrom()` is ignored. `begin()`, `end()` and `setClock()` inside
  one's own transaction wait for the task's own lock.
* I2C: `i2cDetachBus()` reads `initialized` without the lock (esp32-hal-i2c-ng.c:48),
  which makes an unrelated `begin()` fail; `end()` clears a pin another port has just
  taken (200). `end()` of a port that was left half started clears pins that were never its
  own, and so stops the port that has them. Two ports begun on the same two pins wait for each other, or one for itself,
  and `begin(sda == scl)` for itself (148). The mutexes are created by whoever
  comes first, without a guard (79, Wire.cpp:280).
* `espota.py` gives up with "No response from the ESP" when the tenth invitation is
  answered (137); the device then runs into its own timeouts.
* A device without a password whose OK is lost runs its update, times out, and is
  invited again: `accept()` (387) returns the connection of the first run, which is
  closed, and the upload fails while the second run waits in the backlog.
* `espota.py` returns 0 when it got any text after the last chunk (455-461), also
  when none was OK and the device has installed nothing.
* `_runUpdate()` goes on after a connect that failed (364-369): it ends the update it
  has begun, which is what gives up the partition.
* `i2cSetClock()` returns ESP_FAIL when no device is registered although the
  frequency was stored, and a failure in its loop leaves the other devices at the old speed
  while a repeated call returns OK (392-443).

## 7. Plan

Written and checked: everything in section 2. What is left, in this order:

1. **Proofs.** `UselessDriverIsEnded` of `UartPins` on top of the invariant of
   `UartPinsProofs`, then the two `NoDeadlock`.
2. **NetworkEvents**: queue, dispatcher, callbacks that register, remove and post;
   abstract specification: every event is delivered once to every callback registered
   when it is dispatched.
3. **I2C slave**: event queue, buffers, task.
4. **UartData**: event task, `onReceive`, peek byte, `end()` against the event task.
5. **HWCDC** receive queue, and **USBCDC**.
6. **EEPROM commit**, the **ArduinoOTA** session composed with `Updater`, scanning.
7. Updater extensions: template `write()`, decryption, signatures.
