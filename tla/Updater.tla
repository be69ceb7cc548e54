------------------------------ MODULE Updater ------------------------------
(***************************************************************************)
(* UpdateClass (libraries/Update/src): an image is fed to the object in     *)
(* pieces, collected in a buffer of one flash sector and flushed sector by  *)
(* sector to a partition; end() checks it and makes it bootable.  Built     *)
(* with UPDATE_NOCRYPT and without UPDATE_SIGN.                             *)
(*                                                                          *)
(* Lengths and positions are in units of ENCRYPTED_BLOCK_SIZE (16 bytes),   *)
(* the part of the image that is stashed and written last.  What a unit     *)
(* holds matters only as far as: which image and which position it comes    *)
(* from, or whether it is all ones (as erased flash is).                    *)
(*                                                                          *)
(* The flash, the boot selection (otadata), ESP-IDF's image check and the   *)
(* bootloader are external; power may fail at any step.                     *)
(***************************************************************************)
EXTENDS Integers, Sequences

CONSTANTS
  Slots,         \* the OTA application partitions
  NextSlot,      \* esp_ota_get_next_update_partition, by running slot
  Address,       \* Address[p]: where partition p starts
  PartSize,      \* size of every partition
  SectorSize,    \* SPI_FLASH_SEC_SIZE
  BlockSize,     \* SPI_FLASH_BLOCK_SIZE
  Word,          \* bound: size_t counts modulo Word
  Images,        \* the images a sketch may feed to the updater
  Factory,       \* the image the device was shipped with
  Corrupt,       \* the images damaged on their way: they fail every check
  Headless,      \* the images that do not start with ESP_IMAGE_HEADER_MAGIC
  ImageSize,     \* size of every image
  BlankUnits,    \* positions at which images hold only ones
  Lengths,       \* bound: the len a sketch passes to write()
  Commands,      \* bound: the targets a sketch updates, of "FLASH", "FS", "BAD"
  NoImage,       \* no image: erased flash
  NoPartition    \* the null partition pointer

FS == "spiffs"
Partitions == Slots \cup {FS}
AllImages  == Images \cup {Factory}
Installable == AllImages \ (Corrupt \cup Headless)
UNKNOWN == Word - 1     \* UPDATE_SIZE_UNKNOWN

ASSUME SlotsAssumption ==
  FS \notin Slots /\ NextSlot \in [Slots -> Slots] /\ NoPartition \notin Partitions
ASSUME SizesAssumption ==
  /\ {PartSize, SectorSize, BlockSize, Word, ImageSize} \subseteq Nat \ {0}
  /\ Address \in [Partitions -> Nat]
  /\ ImageSize <= PartSize /\ PartSize + BlockSize < Word
  /\ Lengths \subseteq Nat /\ Commands \subseteq {"FLASH", "FS", "BAD"}
ASSUME ImagesAssumption ==
  /\ Factory \notin Corrupt \cup Headless /\ NoImage \notin AllImages
  /\ BlankUnits \subseteq 1 .. ImageSize - 2    \* neither the header nor the checksum

VARIABLES
  flash,     \* flash[p][i]: unit i of partition p
  otadata,   \* the slot esp_ota_set_boot_partition selected
  running,   \* the slot the running program was started from
  upd,       \* the fields of the UpdateClass object
  image,     \* the image the sketch feeds to the running update
  call       \* the call in progress: where it is, which one, what is left to do

vars == <<flash, otadata, running, upd, image, call>>

-----------------------------------------------------------------------------
(* Flash contents.  Programming can only clear bits: over anything but      *)
(* erased flash, or the very same data, it leaves junk.                     *)
Erased == <<NoImage, 0>>
Junk   == <<NoImage, 1>>
Units  == 0 .. PartSize - 1
Cells  == {Erased, Junk} \cup (AllImages \X Units)

Cell(v, i) == IF i \in BlankUnits THEN Erased ELSE <<v, i>>

Programmed(old, new) ==
  IF new = Erased \/ new = old THEN old ELSE IF old = Erased THEN new ELSE Junk

EraseRange(f, p, from, to) ==
  [f EXCEPT ![p] = [i \in Units |-> IF i \in from .. to - 1 THEN Erased ELSE @[i]]]

ProgramRange(f, p, from, to) ==
  [f EXCEPT ![p] = [i \in Units |->
     IF i \in from .. to - 1 THEN Programmed(@[i], Cell(image, i)) ELSE @[i]]]

(* ESP-IDF's image check, used by esp_ota_set_boot_partition and by the     *)
(* bootloader, accepts complete and undamaged images only.                  *)
Holds(f, p, v) == \A i \in 0 .. ImageSize - 1 : f[p][i] = Cell(v, i)
Bootable(f, s) == \E v \in Installable : Holds(f, s, v)
BootChoices(f) ==
  IF Bootable(f, otadata) THEN {otadata} ELSE {s \in Slots : Bootable(f, s)}

HasMagic(f, p) == \E v \in AllImages \ Headless : f[p][0] = <<v, 0>>

-----------------------------------------------------------------------------
(* The object. *)
Errors == {"OK", "WRITE", "ERASE", "READ", "SPACE", "SIZE", "STREAM", "MD5",
           "MAGIC", "ACTIVATE", "NO_PARTITION", "BAD_ARGUMENT", "ABORT"}

Updates ==
  [size : Nat, progress : Nat, bufferLen : 0 .. SectorSize,
   command : {"FLASH", "FS"}, partition : Partitions \cup {NoPartition},
   skipBuffer : BOOLEAN, error : Errors, md5Target : BOOLEAN, md5Len : Nat]

FreshUpdate ==
  [size |-> 0, progress |-> 0, bufferLen |-> 0, command |-> "FLASH",
   partition |-> NoPartition, skipBuffer |-> FALSE, error |-> "OK",
   md5Target |-> FALSE, md5Len |-> 0]

Points == {"idle", "fill", "read", "flush", "erase", "program", "verify",
           "enable", "activate", "off"}
Calls == [pc : Points, op : {"write", "writeStream", "end"}, left : Nat,
          result : BOOLEAN]

At(pc) == call.pc = pc
Goto(pc) == call' = [call EXCEPT !.pc = pc]
Returns == call' = [call EXCEPT !.pc = "idle", !.left = 0]
EndReturns(r) == call' = [call EXCEPT !.pc = "idle", !.left = 0, !.result = r]

Reset(u) == [u EXCEPT !.size = 0, !.progress = 0, !.bufferLen = 0,
                      !.command = "FLASH", !.skipBuffer = FALSE]
Aborted(u, e) == [Reset(u) EXCEPT !.error = e]

Remaining(u) == (u.size - u.progress) % Word
CanFeed == At("idle") /\ upd.error = "OK" /\ upd.size > 0

Init ==
  /\ running \in Slots
  /\ otadata = running
  /\ flash = [p \in Partitions |-> [i \in Units |->
       IF p = running /\ i < ImageSize THEN Cell(Factory, i) ELSE Erased]]
  /\ upd = FreshUpdate
  /\ image = Factory
  /\ call = [pc |-> "idle", op |-> "write", left |-> 0, result |-> FALSE]

-----------------------------------------------------------------------------
(* begin().  While an update runs it returns false and changes nothing.     *)
Target(cmd) == IF cmd = "FLASH" THEN NextSlot[running] ELSE FS

Verdict(sz, cmd) ==
  IF sz = 0 THEN "SIZE"
  ELSE IF cmd = "BAD" THEN "BAD_ARGUMENT"
  ELSE IF Target(cmd) = running THEN "NO_PARTITION"
  ELSE IF sz # UNKNOWN /\ sz > PartSize THEN "SIZE" ELSE "OK"

(* Mutant: the running partition is looked up instead of the next one. *)
BegunOnRunning(sz, cmd) ==
  [Reset(upd) EXCEPT
     !.error = Verdict(sz, cmd), !.md5Target = FALSE, !.md5Len = 0,
     !.partition = IF sz = 0 \/ cmd = "BAD" THEN @ ELSE running]

Begun(sz, cmd) ==
  [Reset(upd) EXCEPT
     !.error = Verdict(sz, cmd), !.md5Target = FALSE, !.md5Len = 0,
     !.partition = IF sz = 0 \/ cmd = "BAD" THEN @ ELSE Target(cmd)]

BeginStarts(sz, cmd, v) ==
  /\ At("idle") /\ upd.size = 0
  /\ Verdict(sz, cmd) = "OK"
  /\ upd' = [Begun(sz, cmd) EXCEPT
               !.size = IF sz = UNKNOWN THEN PartSize ELSE sz, !.command = cmd]
  /\ image' = v
  /\ UNCHANGED <<flash, otadata, running, call>>

(* A check failed, or there was no memory for the buffer (no error is set then). *)
BeginFails(sz, cmd) ==
  /\ At("idle") /\ upd.size = 0
  /\ upd' = Begun(sz, cmd)
  /\ UNCHANGED <<flash, otadata, running, image, call>>

setMD5 ==
  /\ At("idle")
  /\ upd' = [upd EXCEPT !.md5Target = TRUE]
  /\ UNCHANGED <<flash, otadata, running, image, call>>

abort ==
  /\ At("idle")
  /\ upd' = Aborted(upd, "ABORT")
  /\ UNCHANGED <<flash, otadata, running, image, call>>

clearError ==
  /\ At("idle")
  /\ upd' = [upd EXCEPT !.error = "OK"]
  /\ UNCHANGED <<flash, otadata, running, image, call>>

-----------------------------------------------------------------------------
(* write(data, len) *)
WriteRefused(len) ==
  /\ CanFeed
  /\ len > Remaining(upd)
  /\ upd' = Aborted(upd, "SPACE")
  /\ UNCHANGED <<flash, otadata, running, image, call>>

WriteStarts(len) ==
  /\ CanFeed
  /\ len <= Remaining(upd)
  /\ call' = [call EXCEPT !.pc = "fill", !.op = "write", !.left = len]
  /\ UNCHANGED <<flash, otadata, running, upd, image>>

FillSector ==
  /\ At("fill")
  /\ upd.bufferLen + call.left > SectorSize
  /\ upd' = [upd EXCEPT !.bufferLen = SectorSize]
  /\ call' = [call EXCEPT !.pc = "flush",
                          !.left = @ - (SectorSize - upd.bufferLen)]
  /\ UNCHANGED <<flash, otadata, running, image>>

(* Mutant: the loop that flushes full sectors is missing. *)
FillRestAlways ==
  /\ At("fill")
  /\ upd' = [upd EXCEPT !.bufferLen = @ + call.left]
  /\ call' = [call EXCEPT !.left = 0,
                !.pc = IF upd'.bufferLen = Remaining(upd) THEN "flush" ELSE "idle"]
  /\ UNCHANGED <<flash, otadata, running, image>>

FillRest ==
  /\ At("fill")
  /\ upd.bufferLen + call.left <= SectorSize
  /\ upd' = [upd EXCEPT !.bufferLen = @ + call.left]
  /\ call' = [call EXCEPT !.left = 0,
                !.pc = IF upd'.bufferLen = Remaining(upd) THEN "flush" ELSE "idle"]
  /\ UNCHANGED <<flash, otadata, running, image>>

(* writeStream(data).  Its peek() sees the header only if nothing was fed   *)
(* before; later it sees whatever comes next in the stream.                 *)
PeekIsMagic(b) ==
  (upd.progress = 0 /\ upd.bufferLen = 0) => b = (image \notin Headless)

StreamStarts(b) ==
  /\ CanFeed
  /\ PeekIsMagic(b)
  /\ upd.command = "FLASH" => b
  /\ call' = [call EXCEPT !.op = "writeStream",
                !.pc = IF Remaining(upd) = 0 THEN "idle" ELSE "read"]
  /\ UNCHANGED <<flash, otadata, running, upd, image>>

StreamHasBadHeader(b) ==
  /\ CanFeed
  /\ PeekIsMagic(b)
  /\ upd.command = "FLASH" /\ ~b
  /\ upd' = Aborted(upd, "MAGIC")
  /\ UNCHANGED <<flash, otadata, running, image, call>>

BytesToRead ==
  LET room == SectorSize - upd.bufferLen
  IN IF room > Remaining(upd) THEN Remaining(upd) ELSE room

StreamRead ==
  /\ At("read")
  /\ \E k \in 1 .. BytesToRead :
       upd' = [upd EXCEPT !.bufferLen = @ + k]
  /\ Goto(IF upd'.bufferLen \in {Remaining(upd), SectorSize}
          THEN "flush" ELSE "read")
  /\ UNCHANGED <<flash, otadata, running, image>>

(* Mutant: the timeout of a stream is not counted. *)
StreamNeverTimesOut ==
  /\ At("read")
  /\ UNCHANGED vars

(* 300 reads in a row gave nothing. *)
StreamTimesOut ==
  /\ At("read")
  /\ upd' = Aborted(upd, "STREAM")
  /\ Returns
  /\ UNCHANGED <<flash, otadata, running, image>>

-----------------------------------------------------------------------------
(* _writeBuffer(): check the header, erase, program.                        *)
IsFirst == upd.progress = 0 /\ upd.command = "FLASH"

(* write() and writeStream() give up when a flush fails; end() ignores it.  *)
FlushFailed == IF call.op = "end" THEN Goto("verify") ELSE Returns

BlockErase ==
  /\ Remaining(upd) >= BlockSize
  /\ (Address[upd.partition] + upd.progress) % BlockSize = 0
HeadSector ==
  /\ Address[upd.partition] % BlockSize # 0
  /\ Address[upd.partition] + upd.progress
       < (Address[upd.partition] \div BlockSize + 1) * BlockSize
(* Mutant: the comparison is strict. *)
TailSectorStrict ==
  Address[upd.partition] + upd.progress
    > ((Address[upd.partition] + upd.size) \div BlockSize) * BlockSize

TailSector ==
  Address[upd.partition] + upd.progress
    >= ((Address[upd.partition] + upd.size) \div BlockSize) * BlockSize
NeedsErase == BlockErase \/ HeadSector \/ TailSector

FlushBadHeader ==
  /\ At("flush")
  /\ IsFirst /\ image \in Headless
  /\ upd' = Aborted(upd, "MAGIC")
  /\ FlushFailed
  /\ UNCHANGED <<flash, otadata, running, image>>

(* No memory for _skipBuffer: false is returned, with no error and nothing undone. *)
FlushHasNoMemory ==
  /\ At("flush")
  /\ IsFirst /\ image \notin Headless
  /\ FlushFailed
  /\ UNCHANGED <<flash, otadata, running, upd, image>>

FlushStarts ==
  /\ At("flush")
  /\ IsFirst => image \notin Headless
  /\ upd' = [upd EXCEPT !.skipBuffer = @ \/ IsFirst]
  /\ Goto(IF NeedsErase THEN "erase" ELSE "program")
  /\ UNCHANGED <<flash, otadata, running, image>>

EraseEnd == upd.progress + (IF BlockErase THEN BlockSize ELSE SectorSize)

EraseDone ==
  /\ At("erase")
  /\ upd.progress % SectorSize = 0 /\ EraseEnd <= PartSize
  /\ flash' = EraseRange(flash, upd.partition, upd.progress, EraseEnd)
  /\ Goto("program")
  /\ UNCHANGED <<otadata, running, upd, image>>

EraseFails ==
  /\ At("erase")
  /\ upd' = Aborted(upd, "ERASE")
  /\ FlushFailed
  /\ UNCHANGED <<flash, otadata, running, image>>

(* Mutant: the header is written with the rest of the first sector. *)
ProgramStartAtHeader == upd.progress

ProgramStart == upd.progress + (IF IsFirst THEN 1 ELSE 0)
ProgramEnd   == upd.progress + upd.bufferLen

(* A buffer of ones is not written.  The look at the first buffer starts    *)
(* inside the header, which is never all ones.                              *)
HasData == \/ IsFirst \/ upd.bufferLen = 0
           \/ \E i \in ProgramStart .. ProgramEnd - 1 : i \notin BlankUnits

AfterFlush ==
  IF call.op = "end" THEN "verify"
  ELSE IF call.op = "write" THEN IF call.left > 0 THEN "fill" ELSE "idle"
  ELSE IF Remaining(upd') = 0 THEN "idle" ELSE "read"

ProgramDone ==
  /\ At("program")
  /\ HasData => ProgramEnd <= PartSize
  /\ flash' = ProgramRange(flash, upd.partition, ProgramStart, ProgramEnd)
  /\ upd' = [upd EXCEPT !.progress = ProgramEnd, !.bufferLen = 0,
                        !.md5Len = @ + upd.bufferLen]
  /\ Goto(AfterFlush)
  /\ UNCHANGED <<otadata, running, image>>

ProgramFails ==
  /\ At("program")
  /\ HasData
  /\ upd' = Aborted(upd, "WRITE")
  /\ FlushFailed
  /\ UNCHANGED <<flash, otadata, running, image>>

-----------------------------------------------------------------------------
(* end(evenIfRemaining), then _verifyEnd().                                 *)
EndTooEarly ==
  /\ CanFeed
  /\ upd.progress # upd.size
  /\ upd' = Aborted(upd, "ABORT")
  /\ EndReturns(FALSE)
  /\ UNCHANGED <<flash, otadata, running, image>>

EndStarts(evenIfRemaining) ==
  /\ CanFeed
  /\ upd.progress = upd.size \/ evenIfRemaining
  /\ call' = [call EXCEPT !.op = "end", !.left = 0, !.result = FALSE,
       !.pc = IF evenIfRemaining /\ upd.bufferLen > 0 THEN "flush" ELSE "verify"]
  /\ UNCHANGED <<flash, otadata, running, upd, image>>

MD5Matches == image \notin Corrupt /\ upd.md5Len = ImageSize

VerifyFails ==
  /\ At("verify")
  /\ upd.md5Target /\ ~MD5Matches
  /\ upd' = Aborted(upd, "MD5")
  /\ EndReturns(FALSE)
  /\ UNCHANGED <<flash, otadata, running, image>>

(* Mutant: the MD5 is compared, and the result forgotten. *)
VerifyDoneAnyway ==
  /\ At("verify")
  /\ IF upd.command = "FLASH"
     THEN upd' = [upd EXCEPT !.size = upd.progress] /\ Goto("enable")
     ELSE upd' = Reset(upd) /\ EndReturns(TRUE)
  /\ UNCHANGED <<flash, otadata, running, image>>

VerifyDone ==
  /\ At("verify")
  /\ upd.md5Target => MD5Matches
  /\ IF upd.command = "FLASH"
     THEN upd' = [upd EXCEPT !.size = upd.progress] /\ Goto("enable")
     ELSE upd' = Reset(upd) /\ EndReturns(TRUE)
  /\ UNCHANGED <<flash, otadata, running, image>>

WriteHeader == ProgramRange(flash, upd.partition, 0, 1)

Enable ==
  /\ At("enable")
  /\ upd.skipBuffer
  /\ flash' = WriteHeader
  /\ HasMagic(flash', upd.partition)
  /\ Goto("activate")
  /\ UNCHANGED <<otadata, running, upd, image>>

(* No stashed header, a flash error, or the header does not read back.      *)
EnableFails ==
  /\ At("enable")
  /\ flash' \in IF upd.skipBuffer THEN {flash, WriteHeader} ELSE {flash}
  /\ upd' = Aborted(upd, "READ")
  /\ EndReturns(FALSE)
  /\ UNCHANGED <<otadata, running, image>>

Activate ==
  /\ At("activate")
  /\ Bootable(flash, upd.partition)
  /\ otadata' = upd.partition
  /\ upd' = Reset(upd)
  /\ EndReturns(TRUE)
  /\ UNCHANGED <<flash, running, image>>

ActivateFails ==
  /\ At("activate")
  /\ upd' = Aborted(upd, "ACTIVATE")
  /\ EndReturns(FALSE)
  /\ UNCHANGED <<flash, otadata, running, image>>

-----------------------------------------------------------------------------
canRollBack == upd.size = 0 /\ HasMagic(flash, NextSlot[running])

(* Mutant: the slot is selected that runs already. *)
rollBackToRunning ==
  /\ At("idle")
  /\ canRollBack
  /\ otadata' = running
  /\ UNCHANGED <<flash, running, upd, image, call>>

rollBack ==
  /\ At("idle")
  /\ canRollBack
  /\ Bootable(flash, NextSlot[running])
  /\ otadata' = NextSlot[running]
  /\ UNCHANGED <<flash, running, upd, image, call>>

-----------------------------------------------------------------------------
(* The power fails, or the sketch restarts: a pending flash operation may   *)
(* have happened up to any unit.                                            *)
TearFlash ==
  \/ UNCHANGED flash
  \/ /\ At("erase")
     /\ \E k \in upd.progress .. EraseEnd :
          flash' = EraseRange(flash, upd.partition, upd.progress, k)
  \/ /\ At("program")
     /\ \E k \in ProgramStart .. ProgramEnd :
          flash' = ProgramRange(flash, upd.partition, ProgramStart, k)
  \/ At("enable") /\ upd.skipBuffer /\ flash' = WriteHeader

PowerFails ==
  /\ ~At("off")
  /\ TearFlash
  /\ upd' = FreshUpdate
  /\ call' = [call EXCEPT !.pc = "off", !.left = 0, !.result = FALSE]
  /\ UNCHANGED <<otadata, running, image>>

Boot ==
  /\ At("off")
  /\ running' \in BootChoices(flash)
  /\ Goto("idle")
  /\ UNCHANGED <<flash, otadata, upd, image>>

-----------------------------------------------------------------------------
Sizes == {0, ImageSize, PartSize + 1, UNKNOWN}

(* What the sketch may call, and what happens to it.                        *)
Request ==
  \/ \E sz \in Sizes, cmd \in Commands :
       BeginFails(sz, cmd) \/ \E v \in Images : BeginStarts(sz, cmd, v)
  \/ setMD5 \/ abort \/ clearError \/ rollBack
  \/ \E len \in Lengths : WriteRefused(len) \/ WriteStarts(len)
  \/ \E b \in BOOLEAN : StreamStarts(b) \/ StreamHasBadHeader(b) \/ EndStarts(b)
  \/ EndTooEarly
  \/ PowerFails

(* What a call in progress does. *)
Step ==
  \/ FillSector \/ FillRest \/ StreamRead \/ StreamTimesOut
  \/ FlushBadHeader \/ FlushHasNoMemory \/ FlushStarts
  \/ EraseDone \/ EraseFails \/ ProgramDone \/ ProgramFails
  \/ VerifyFails \/ VerifyDone \/ Enable \/ EnableFails
  \/ Activate \/ ActivateFails
  \/ Boot

Next == Request \/ Step

Spec == Init /\ [][Next]_vars
FairSpec == Spec /\ WF_vars(Step)
-----------------------------------------------------------------------------
TypeOK ==
  /\ flash \in [Partitions -> [Units -> Cells]]
  /\ otadata \in Slots /\ running \in Slots
  /\ upd \in Updates
  /\ image \in AllImages
  /\ call \in Calls

(* The image the device runs is never touched, whatever the sketch calls    *)
(* and whenever the power fails: there is always something to boot.         *)
RunningImageIntact == Bootable(flash, running)

(* "so that partially written firmware will not be bootable"                *)
(* (Updater.cpp:579-581): until end() enables it, a slot that is being      *)
(* written has no header.                                                   *)
PartialImageHasNoHeader ==
  (upd.command = "FLASH" /\ upd.size > 0 /\ upd.progress > 0 /\ ~At("activate"))
     => flash[upd.partition][0] = Erased

(* Every unit that was accepted and flushed is in the flash, also the       *)
(* blank ones that were never programmed: no sector is programmed before it *)
(* is erased or erased after it was programmed, whatever the alignment of   *)
(* the partition and the sizes of the writes.                               *)
FlashHoldsWhatWasFlushed ==
  upd.size > 0 =>
    \A i \in 0 .. upd.progress - 1 :
      \/ upd.command = "FLASH" /\ i = 0
      \/ flash[upd.partition][i] = Cell(image, i)

(* With an MD5 set, end() returns true only when the partition holds the    *)
(* whole undamaged image, although end() ignores a failed last flush.       *)
MD5GuardsEnd ==
  [][(call'.result /\ ~call.result /\ upd.md5Target) =>
       image \notin Corrupt /\ Holds(flash', upd.partition, image)]_vars

(* Every call returns: no sequence of reads, short reads, flash errors or   *)
(* sizes that overshoot makes a loop of the updater run forever.            *)
CallsReturn == ~At("idle") ~> At("idle")

(* The update implements OtaBoot: one step makes the new image the next to  *)
(* boot, every other flash operation is invisible to the next restart.      *)
ImageIn(s) ==
  IF Bootable(flash, s) THEN CHOOSE v \in Installable : Holds(flash, s, v) ELSE NoImage

Boots == INSTANCE OtaBoot WITH
  Images <- Installable, Nothing <- NoImage,
  runs <- ImageIn(running), spare <- ImageIn(NextSlot[running]),
  boots <- ImageIn(IF Bootable(flash, otadata) THEN otadata ELSE running)

AtomicInstall == Boots!Spec
=============================================================================
