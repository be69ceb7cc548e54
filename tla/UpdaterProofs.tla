--------------------------- MODULE UpdaterProofs ---------------------------
(***************************************************************************)
(* What an update does to the flash, for all partition tables, slot         *)
(* alignments, sector and block sizes, images and ways to cut an image into *)
(* pieces, with flash errors and power failures (Updater.cpp).              *)
(*                                                                          *)
(* First, the image the device runs survives.  That is not inductive by     *)
(* itself: that the running slot is not written follows from where the      *)
(* object's partition pointer may point at each moment of a call.  A failed *)
(* begin() leaves it on the running slot, a failed flush inside end() turns *)
(* a file system update into a "FLASH" one that still points to the file    *)
(* system; Inv says why neither hurts.                                      *)
(*                                                                          *)
(* Second, a partly written firmware never has its header.  That it is left *)
(* out of the first program is not enough: flash bits are only cleared, so  *)
(* an old header would stay unless the first flush erases its sector.       *)
(* Whether it does depends on three comparisons of addresses with block     *)
(* boundaries (Updater.cpp:594-600); lemma FirstSectorIsErased says that at    *)
(* the start of a partition one of them always holds.                       *)
(*                                                                          *)
(* Third, everything that was flushed is there, in partitions that start    *)
(* on sector boundaries.  A flush that erases nothing relies on an earlier  *)
(* one that erased the whole block, and on all flushes in between being     *)
(* full sectors: RestOfBlockIsErased, SectorBySector, FlushesAreSectors.    *)
(* remaining() does not count what is in the buffer, so an update can       *)
(* overshoot its size and remaining() wrap; SizesFit bounds by how much.    *)
(*                                                                          *)
(* Fourth, an MD5 makes the result of end() a guarantee: the digest says how *)
(* much was fed, the second result that it stayed, the first that the place *)
(* of the header is still erased when it is written: DigestInv.             *)
(*                                                                          *)
(* Last, the updater implements OtaBoot: seen from the next restart, an     *)
(* update is one step, with every flash error and every power failure.      *)
(* What makes a torn or interleaved flash operation harmless is unit 0: an  *)
(* image is told from another one by its header, which is never blank, and  *)
(* no single flash operation replaces one header by another. The running    *)
(* slot is out of reach by Inv.                                             *)
(***************************************************************************)
EXTENDS Updater, TLAPS

Feeding == {"fill", "read", "flush", "erase", "program"}

(* A call that may write runs only while an update does; while none does,   *)
(* and when the power is off, nothing is half done.                         *)
FeedingMeansRunning ==
  /\ call.pc \in Feeding => upd.size > 0
  /\ upd.size = 0 => upd.progress = 0
  /\ call.pc = "off" => upd.size = 0

(* From begin() to the end of the call that finishes it, the partition is   *)
(* one that does not run; it is a slot whenever it is treated as one.       *)
WritesElsewhere ==
  (upd.size > 0 \/ call.pc \notin {"idle", "off"})
    => upd.partition \in Partitions \ {running}

HeadersOnlyInSlots ==
  /\ (upd.size > 0 /\ upd.command = "FLASH") => upd.partition \in Slots
  /\ (upd.skipBuffer \/ call.pc = "activate") => upd.partition \in Slots

Inv ==
  /\ TypeOK
  /\ RunningImageIntact
  /\ FeedingMeansRunning
  /\ WritesElsewhere
  /\ HeadersOnlyInSlots

-----------------------------------------------------------------------------
(* Flash operations. *)

LEMMA CellType ==
  ASSUME NEW v \in AllImages, NEW i \in Units
  PROVE  Cell(v, i) \in Cells
BY DEF Cell, Cells

LEMMA EraseRangeType ==
  ASSUME flash \in [Partitions -> [Units -> Cells]],
         NEW p \in Partitions, NEW a, NEW b
  PROVE  EraseRange(flash, p, a, b) \in [Partitions -> [Units -> Cells]]
BY DEF EraseRange, Cells

LEMMA ProgramRangeType ==
  ASSUME flash \in [Partitions -> [Units -> Cells]], image \in AllImages,
         NEW p \in Partitions, NEW a, NEW b
  PROVE  ProgramRange(flash, p, a, b) \in [Partitions -> [Units -> Cells]]
<1>1. \A i \in Units : Programmed(flash[p][i], Cell(image, i)) \in Cells
  BY CellType DEF Programmed, Cells
<1> QED BY <1>1 DEF ProgramRange

(* Neither operation on one partition changes what another one holds. *)
LEMMA OtherPartitionsKeepTheirImage ==
  ASSUME flash \in [Partitions -> [Units -> Cells]],
         NEW p \in Partitions, NEW s \in Partitions, s # p,
         NEW a, NEW b, NEW f,
         f = EraseRange(flash, p, a, b) \/ f = ProgramRange(flash, p, a, b),
         Bootable(flash, s)
  PROVE  Bootable(f, s)
<1>1. f[s] = flash[s]
  BY DEF EraseRange, ProgramRange
<1> QED BY <1>1 DEF Bootable, Holds

-----------------------------------------------------------------------------
LEMMA InitEstablishesInv == Init => Inv
<1> SUFFICES ASSUME Init PROVE Inv
  OBVIOUS
<1> USE SlotsAssumption, SizesAssumption, ImagesAssumption DEF Init
<1>1. flash \in [Partitions -> [Units -> Cells]]
  <2>1. \A i \in Units : Cell(Factory, i) \in Cells
    BY CellType DEF AllImages
  <2>2. Erased \in Cells
    BY DEF Cells
  <2> QED BY <2>1, <2>2
<1>2. TypeOK
  BY <1>1 DEF TypeOK, FreshUpdate, Updates, Errors, Calls, Points, AllImages
<1>3. RunningImageIntact
  <2>1. Factory \in Installable
    BY DEF Installable, AllImages
  <2>2. Holds(flash, running, Factory)
    BY DEF Holds, Units, Partitions
  <2> QED BY <2>1, <2>2 DEF RunningImageIntact, Bootable
<1>4. FeedingMeansRunning /\ WritesElsewhere /\ HeadersOnlyInSlots
  BY DEF FeedingMeansRunning, WritesElsewhere, HeadersOnlyInSlots, Feeding, FreshUpdate
<1> QED BY <1>2, <1>3, <1>4 DEF Inv

-----------------------------------------------------------------------------
(* Steps that leave flash, otadata and running alone: only the object and   *)
(* the call change.                                                         *)
LEMMA QuietSteps ==
  ASSUME Inv, UNCHANGED <<flash, otadata, running>>,
         upd' \in Updates, image' \in AllImages, call' \in Calls,
         FeedingMeansRunning', WritesElsewhere', HeadersOnlyInSlots'
  PROVE  Inv'
BY DEF Inv, TypeOK, RunningImageIntact, Bootable, Holds

LEMMA TargetType ==
  ASSUME running \in Slots, NEW cmd
  PROVE  /\ Target(cmd) \in Partitions
         /\ cmd = "FLASH" => Target(cmd) \in Slots
BY SlotsAssumption DEF Target, Partitions

LEMMA SizesAreNatural ==
  /\ SectorSize \in Nat /\ PartSize \in Nat /\ ImageSize \in Nat
  /\ 0 \in 0 .. SectorSize
BY SizesAssumption

LEMMA ResetType ==
  ASSUME upd \in Updates
  PROVE  /\ Reset(upd) \in Updates
         /\ Reset(upd).size = 0 /\ Reset(upd).progress = 0
         /\ ~Reset(upd).skipBuffer
         /\ Reset(upd).partition = upd.partition
BY SizesAreNatural DEF Updates, Reset

LEMMA AbortedType ==
  ASSUME upd \in Updates, NEW e \in Errors
  PROVE  /\ Aborted(upd, e) \in Updates
         /\ Aborted(upd, e).size = 0 /\ Aborted(upd, e).progress = 0
         /\ ~Aborted(upd, e).skipBuffer
         /\ Aborted(upd, e).partition = upd.partition
<1>1. Aborted(upd, e) = [Reset(upd) EXCEPT !.error = e]
  BY DEF Aborted
<1>2. Aborted(upd, e) \in Updates
  BY <1>1, ResetType DEF Updates
<1>3. /\ Aborted(upd, e).size = Reset(upd).size
      /\ Aborted(upd, e).progress = Reset(upd).progress
      /\ Aborted(upd, e).skipBuffer = Reset(upd).skipBuffer
      /\ Aborted(upd, e).partition = Reset(upd).partition
  BY <1>1, ResetType DEF Updates
<1> QED BY <1>2, <1>3, ResetType

LEMMA BegunType ==
  ASSUME TypeOK, NEW sz \in Sizes, NEW cmd
  PROVE  /\ Begun(sz, cmd) \in Updates
         /\ Begun(sz, cmd).size = 0 /\ Begun(sz, cmd).progress = 0
         /\ ~Begun(sz, cmd).skipBuffer
         /\ (sz # 0 /\ cmd # "BAD") => Begun(sz, cmd).partition = Target(cmd)
<1>1. Verdict(sz, cmd) \in Errors
  BY DEF Verdict, Errors
<1>2. Target(cmd) \in Partitions
  BY TargetType DEF TypeOK
<1>3. Reset(upd) \in Updates /\ Reset(upd).size = 0 /\ Reset(upd).progress = 0
      /\ ~Reset(upd).skipBuffer
  BY ResetType DEF TypeOK
<1> DEFINE q == IF sz = 0 \/ cmd = "BAD" THEN Reset(upd).partition ELSE Target(cmd)
<1>4. q \in Partitions \cup {NoPartition}
  BY <1>2, <1>3 DEF Updates
<1>5. Begun(sz, cmd) = [Reset(upd) EXCEPT !.error = Verdict(sz, cmd),
                          !.md5Target = FALSE, !.md5Len = 0, !.partition = q]
  BY DEF Begun
<1> HIDE DEF q
<1>6. Begun(sz, cmd) \in Updates
  BY <1>1, <1>3, <1>4, <1>5 DEF Updates
<1>7. /\ Begun(sz, cmd).size = Reset(upd).size
      /\ Begun(sz, cmd).progress = Reset(upd).progress
  BY <1>3, <1>5 DEF Updates
<1>8. Begun(sz, cmd).skipBuffer = Reset(upd).skipBuffer
  BY <1>3, <1>5 DEF Updates
<1>9. Begun(sz, cmd).partition = q
  BY <1>3, <1>5 DEF Updates
<1> QED BY <1>3, <1>6, <1>7, <1>8, <1>9 DEF q

LEMMA BeginFailsKeepsInv ==
  ASSUME Inv, NEW sz \in Sizes, NEW cmd \in Commands, BeginFails(sz, cmd)
  PROVE  Inv'
<1>1. TypeOK
  BY DEF Inv
<1>2. upd' \in Updates /\ upd'.size = 0 /\ upd'.progress = 0 /\ ~upd'.skipBuffer
  BY <1>1, BegunType DEF BeginFails
<1>3. FeedingMeansRunning' /\ WritesElsewhere' /\ HeadersOnlyInSlots'
  BY <1>2 DEF BeginFails, At, Feeding, FeedingMeansRunning, WritesElsewhere,
     HeadersOnlyInSlots
<1> QED BY <1>1, <1>2, <1>3, QuietSteps DEF BeginFails, TypeOK

LEMMA BeginKeepsInv ==
  ASSUME Inv, NEW sz \in Sizes, NEW cmd \in Commands, NEW v \in Images,
         BeginStarts(sz, cmd, v)
  PROVE  Inv'
<1>0. TypeOK /\ Begun(sz, cmd) \in Updates
  BY BegunType DEF Inv
<1>1. sz # 0 /\ cmd \in {"FLASH", "FS"} /\ Target(cmd) # running
  BY SizesAssumption DEF BeginStarts, Verdict
<1>2. sz \in Nat /\ PartSize \in Nat
  BY SizesAssumption DEF Sizes, UNKNOWN
<1>3. upd' = [Begun(sz, cmd) EXCEPT
               !.size = IF sz = UNKNOWN THEN PartSize ELSE sz, !.command = cmd]
  BY DEF BeginStarts
<1>4. upd' \in Updates /\ upd'.partition = Target(cmd) /\ upd'.command = cmd
      /\ upd'.progress = 0 /\ ~upd'.skipBuffer
  BY <1>0, <1>1, <1>2, <1>3, BegunType DEF Updates
<1>5. Target(cmd) \in Partitions \ {running}
      /\ (cmd = "FLASH" => Target(cmd) \in Slots)
  BY <1>0, <1>1, TargetType DEF TypeOK
<1>6. FeedingMeansRunning' /\ WritesElsewhere' /\ HeadersOnlyInSlots'
  BY <1>4, <1>5 DEF BeginStarts, At, Feeding, FeedingMeansRunning,
     WritesElsewhere, HeadersOnlyInSlots
<1> QED BY <1>0, <1>4, <1>6, QuietSteps DEF BeginStarts, AllImages, TypeOK

(* A call gives up: the object is reset, and the sketch gets control back   *)
(* or, when it was the flush inside end(), end() goes on to verify.         *)
LEMMA GivingUpKeepsInv ==
  ASSUME Inv, UNCHANGED <<flash, otadata, running, image>>,
         NEW e \in Errors, upd' = Aborted(upd, e) \/ upd' = Reset(upd),
         call' \in Calls,
         \/ call'.pc = "idle"
         \/ call'.pc = "verify" /\ call.pc \notin {"idle", "off"}
  PROVE  Inv'
<1>1. upd' \in Updates /\ upd'.size = 0 /\ upd'.progress = 0 /\ ~upd'.skipBuffer
      /\ upd'.partition = upd.partition
  BY ResetType, AbortedType DEF Inv, TypeOK
<1>2. FeedingMeansRunning' /\ WritesElsewhere' /\ HeadersOnlyInSlots'
  BY <1>1 DEF Inv, Feeding, FeedingMeansRunning, WritesElsewhere, HeadersOnlyInSlots
<1> QED BY <1>1, <1>2, QuietSteps DEF Inv, TypeOK

(* A call makes progress on the same partition. *)
LEMMA GoingOnKeepsInv ==
  ASSUME Inv, UNCHANGED <<otadata, running, image>>,
         flash' \in [Partitions -> [Units -> Cells]], Bootable(flash', running),
         upd' \in Updates, upd'.command = upd.command,
         upd'.partition = upd.partition,
         upd'.skipBuffer => upd.skipBuffer \/ upd.partition \in Slots,
         upd'.size = upd.size \/ (upd'.size = upd.progress /\ call'.pc \notin Feeding),
         upd'.progress = upd.progress \/ (call.pc \in Feeding /\ upd'.size = upd.size),
         call' \in Calls, call'.pc \in Feeding => upd.size > 0,
         call'.pc \notin {"idle", "off"} =>
           upd.size > 0 \/ call.pc \notin {"idle", "off"},
         call'.pc = "activate" => upd.skipBuffer,
         call'.pc # "off"
  PROVE  Inv'
<1>1. TypeOK' /\ RunningImageIntact'
  BY DEF Inv, TypeOK, RunningImageIntact, Bootable, Holds
<1>2. FeedingMeansRunning' /\ WritesElsewhere' /\ HeadersOnlyInSlots'
  BY DEF Inv, TypeOK, Updates, Feeding, FeedingMeansRunning, WritesElsewhere,
     HeadersOnlyInSlots
<1> QED BY <1>1, <1>2 DEF Inv

(* The types of the object's fields, one by one. *)
LEMMA ObjectType ==
  ASSUME TypeOK
  PROVE  /\ upd.size \in Nat /\ upd.progress \in Nat
         /\ upd.bufferLen \in 0 .. SectorSize /\ upd.bufferLen \in Nat
         /\ upd.md5Len \in Nat /\ call.left \in Nat
BY SizesAreNatural DEF TypeOK, Updates, Calls

(* Torn or not, a flash operation of the updater leaves the running slot alone. *)
LEMMA FlashOperationIsElsewhere ==
  ASSUME Inv, call.pc \notin {"idle", "off"}, NEW a, NEW b, NEW f,
         \/ f = EraseRange(flash, upd.partition, a, b)
         \/ f = ProgramRange(flash, upd.partition, a, b)
  PROVE  f \in [Partitions -> [Units -> Cells]] /\ Bootable(f, running)
<1>1. upd.partition \in Partitions /\ running \in Partitions
      /\ running # upd.partition
  BY DEF Inv, TypeOK, WritesElsewhere, Partitions
<1>2. f \in [Partitions -> [Units -> Cells]]
  BY <1>1, EraseRangeType, ProgramRangeType DEF Inv, TypeOK
<1>3. Bootable(f, running)
  BY <1>1, OtherPartitionsKeepTheirImage DEF Inv, TypeOK, RunningImageIntact
<1> QED BY <1>2, <1>3

LEMMA PowerFailsKeepsInv == Inv /\ PowerFails => Inv'
<1> SUFFICES ASSUME Inv, PowerFails PROVE Inv'
  OBVIOUS
<1>1. flash' \in [Partitions -> [Units -> Cells]] /\ Bootable(flash', running)
  <2>1. CASE UNCHANGED flash
    BY <2>1 DEF Inv, TypeOK, RunningImageIntact
  <2>2. CASE ~UNCHANGED flash
    BY <2>2, FlashOperationIsElsewhere DEF PowerFails, TearFlash, WriteHeader, At
  <2> QED BY <2>1, <2>2
<1>2. upd' \in Updates /\ upd'.size = 0 /\ upd'.progress = 0 /\ ~upd'.skipBuffer
  BY SizesAreNatural DEF PowerFails, FreshUpdate, Updates, Errors
<1>3. call' \in Calls /\ call'.pc = "off"
  BY DEF Inv, TypeOK, PowerFails, Calls, Points
<1>4. TypeOK' /\ RunningImageIntact'
  BY <1>1, <1>2, <1>3 DEF Inv, PowerFails, TypeOK, RunningImageIntact, Bootable, Holds
<1>5. FeedingMeansRunning' /\ WritesElsewhere' /\ HeadersOnlyInSlots'
  BY <1>2, <1>3 DEF FeedingMeansRunning, WritesElsewhere, HeadersOnlyInSlots, Feeding
<1> QED BY <1>4, <1>5 DEF Inv

(* The calls a sketch makes. *)
LEMMA RequestKeepsInv == Inv /\ Request => Inv'
<1> SUFFICES ASSUME Inv, Request PROVE Inv'
  OBVIOUS
<1>0. TypeOK /\ call \in Calls /\ upd \in Updates /\ RunningImageIntact
  BY DEF Inv, TypeOK
<1>1. ASSUME NEW sz \in Sizes, NEW cmd \in Commands,
             BeginFails(sz, cmd) \/ \E v \in Images : BeginStarts(sz, cmd, v)
      PROVE  Inv'
  <2>1. CASE \E v \in Images : BeginStarts(sz, cmd, v)
    BY <2>1, BeginKeepsInv
  <2>2. CASE BeginFails(sz, cmd)
    BY <2>2, BeginFailsKeepsInv
  <2> QED BY <1>1, <2>1, <2>2
<1>2. CASE setMD5 \/ clearError
  <2>1. upd' \in Updates /\ upd'.command = upd.command /\ upd'.size = upd.size
        /\ upd'.partition = upd.partition /\ upd'.progress = upd.progress
        /\ upd'.skipBuffer = upd.skipBuffer
    BY <1>0, <1>2 DEF setMD5, clearError, Updates, Errors
  <2> QED BY <1>0, <1>2, <2>1, GoingOnKeepsInv
    DEF setMD5, clearError, At, TypeOK, RunningImageIntact, Feeding
<1>3. CASE abort
  BY <1>0, <1>3, GivingUpKeepsInv DEF abort, At, Errors
<1>4. CASE rollBack
  <2>1. otadata' \in Slots
    BY <1>0, <1>4, SlotsAssumption DEF rollBack, TypeOK
  <2> QED BY <1>4, <2>1 DEF rollBack, Inv, TypeOK, RunningImageIntact, Bootable,
            Holds, FeedingMeansRunning, WritesElsewhere, HeadersOnlyInSlots
<1>5. ASSUME NEW len \in Lengths, WriteRefused(len) \/ WriteStarts(len)
      PROVE  Inv'
  <2>1. CASE WriteRefused(len)
    BY <1>0, <2>1, GivingUpKeepsInv DEF WriteRefused, CanFeed, At, Errors
  <2>2. CASE WriteStarts(len)
    <3>1. len \in Nat
      BY SizesAssumption
    <3>2. call' \in Calls /\ call'.pc = "fill"
      BY <1>0, <2>2, <3>1 DEF WriteStarts, Calls, Points
    <3> QED BY <1>0, <2>2, <3>2, GoingOnKeepsInv, ObjectType
      DEF WriteStarts, CanFeed, At, TypeOK, RunningImageIntact, Feeding
  <2> QED BY <1>5, <2>1, <2>2
<1>6. ASSUME NEW b \in BOOLEAN,
             StreamStarts(b) \/ StreamHasBadHeader(b) \/ EndStarts(b)
      PROVE  Inv'
  <2>1. CASE StreamStarts(b)
    <3>1. call' \in Calls /\ call'.pc \in {"idle", "read"}
      BY <1>0, <2>1 DEF StreamStarts, Calls, Points
    <3> QED BY <1>0, <2>1, <3>1, GoingOnKeepsInv, ObjectType
      DEF StreamStarts, CanFeed, At, TypeOK, RunningImageIntact, Feeding
  <2>2. CASE StreamHasBadHeader(b)
    BY <1>0, <2>2, GivingUpKeepsInv DEF StreamHasBadHeader, CanFeed, At, Errors
  <2>3. CASE EndStarts(b)
    <3>1. call' \in Calls /\ call'.pc \in {"flush", "verify"}
      BY <1>0, <2>3 DEF EndStarts, Calls, Points
    <3> QED BY <1>0, <2>3, <3>1, GoingOnKeepsInv, ObjectType
      DEF EndStarts, CanFeed, At, TypeOK, RunningImageIntact, Feeding
  <2> QED BY <1>6, <2>1, <2>2, <2>3
<1>7. CASE EndTooEarly
  <2>1. call' \in Calls /\ call'.pc = "idle"
    BY <1>0, <1>7 DEF EndTooEarly, EndReturns, Calls, Points
  <2> QED BY <1>7, <2>1, GivingUpKeepsInv DEF EndTooEarly, Errors
<1>8. CASE PowerFails
  BY <1>8, PowerFailsKeepsInv
<1> QED BY <1>1, <1>2, <1>3, <1>4, <1>5, <1>6, <1>7, <1>8 DEF Request
-----------------------------------------------------------------------------
(* The steps of a call in progress. *)

LEMMA FlushFailedType ==
  ASSUME TypeOK, FlushFailed \/ Returns \/ EndReturns(FALSE)
  PROVE  call' \in Calls /\ call'.pc \in {"idle", "verify"}
<1>1. call \in Calls
  BY DEF TypeOK
<1>2. CASE FlushFailed /\ call.op = "end"
  BY <1>1, <1>2 DEF FlushFailed, Goto, Calls, Points
<1>3. CASE Returns
  BY <1>1, <1>3 DEF Returns, Calls, Points
<1>4. CASE EndReturns(FALSE)
  BY <1>1, <1>4 DEF EndReturns, Calls, Points
<1> QED BY <1>2, <1>3, <1>4 DEF FlushFailed

LEMMA EndReturnsType ==
  ASSUME TypeOK, EndReturns(TRUE)
  PROVE  call' \in Calls /\ call'.pc = "idle"
<1>1. call \in Calls
  BY DEF TypeOK
<1> QED BY <1>1 DEF EndReturns, Calls, Points

(* Whatever goes wrong, the object is reset. *)
LEMMA FailuresKeepInv ==
  ASSUME Inv,
         \/ StreamTimesOut \/ FlushBadHeader \/ EraseFails \/ ProgramFails
         \/ VerifyFails \/ ActivateFails
  PROVE  Inv'
<1>1. call' \in Calls /\ call'.pc \in {"idle", "verify"}
  <2>1. FlushFailed \/ Returns \/ EndReturns(FALSE)
    BY DEF StreamTimesOut, FlushBadHeader, EraseFails, ProgramFails, VerifyFails,
       ActivateFails
  <2> QED BY <2>1, FlushFailedType DEF Inv
<1>2. call.pc \notin {"idle", "off"} /\ UNCHANGED <<flash, otadata, running, image>>
  BY DEF StreamTimesOut, FlushBadHeader, EraseFails, ProgramFails, VerifyFails,
     ActivateFails, At
<1>3. \E e \in Errors : upd' = Aborted(upd, e)
  BY DEF StreamTimesOut, FlushBadHeader, EraseFails, ProgramFails, VerifyFails,
     ActivateFails, Errors
<1> QED BY <1>1, <1>2, <1>3, GivingUpKeepsInv

LEMMA BufferingKeepsInv ==
  ASSUME Inv, FillSector \/ FillRest \/ StreamRead
  PROVE  Inv'
<1>0. TypeOK /\ upd.size > 0 /\ SectorSize \in Nat
  BY SizesAreNatural DEF Inv, FeedingMeansRunning, Feeding, FillSector, FillRest,
     StreamRead, At
<1>1. \E n \in 0 .. SectorSize : upd' = [upd EXCEPT !.bufferLen = n]
  <2>1. CASE FillSector
    BY <1>0, <2>1 DEF FillSector
  <2>2. CASE FillRest
    <3>1. upd.bufferLen + call.left \in 0 .. SectorSize
      BY <1>0, <2>2, ObjectType DEF FillRest
    <3> QED BY <2>2, <3>1 DEF FillRest
  <2>3. CASE StreamRead
    <3>1. PICK k \in 1 .. BytesToRead : upd' = [upd EXCEPT !.bufferLen = @ + k]
      BY <2>3 DEF StreamRead
    <3>2. k \in Nat /\ k <= SectorSize - upd.bufferLen
      <4>1. SectorSize - upd.bufferLen \in Int /\ Remaining(upd) \in Int
        BY <1>0, ObjectType, SizesAssumption DEF Remaining
      <4> QED BY <4>1 DEF BytesToRead
    <3>3. upd.bufferLen + k \in 0 .. SectorSize
      BY <1>0, <3>2, ObjectType
    <3> QED BY <3>1, <3>3
  <2> QED BY <2>1, <2>2, <2>3
<1>2. upd' \in Updates /\ upd'.command = upd.command /\ upd'.size = upd.size
      /\ upd'.partition = upd.partition /\ upd'.progress = upd.progress
      /\ upd'.skipBuffer = upd.skipBuffer
  BY <1>0, <1>1 DEF TypeOK, Updates
<1>3. call' \in Calls /\ call'.pc \in {"idle", "read", "flush"}
  <2>1. CASE FillSector
    <3>1. call.left - (SectorSize - upd.bufferLen) \in Nat
      BY <1>0, <2>1, ObjectType DEF FillSector
    <3> QED BY <1>0, <2>1, <3>1 DEF FillSector, TypeOK, Calls, Points
  <2>2. CASE FillRest
    BY <1>0, <2>2 DEF FillRest, TypeOK, Calls, Points
  <2>3. CASE StreamRead
    BY <1>0, <2>3 DEF StreamRead, Goto, TypeOK, Calls, Points
  <2> QED BY <2>1, <2>2, <2>3
<1>4. UNCHANGED <<flash, otadata, running, image>>
  BY DEF FillSector, FillRest, StreamRead
<1> QED BY <1>0, <1>2, <1>3, <1>4, GoingOnKeepsInv, ObjectType
      DEF Inv, TypeOK, RunningImageIntact, Bootable, Holds

LEMMA FlushKeepsInv ==
  ASSUME Inv, FlushHasNoMemory \/ FlushStarts \/ EraseDone \/ ProgramDone
  PROVE  Inv'
<1>0. TypeOK /\ RunningImageIntact /\ upd.size > 0 /\ call.pc \in Feeding
  BY DEF Inv, FeedingMeansRunning, Feeding, FlushHasNoMemory, FlushStarts,
     EraseDone, ProgramDone, At
<1>1. CASE FlushHasNoMemory
  <2>1. call' \in Calls /\ call'.pc \in {"idle", "verify"}
    BY <1>0, <1>1, FlushFailedType DEF FlushHasNoMemory
  <2> QED BY <1>0, <1>1, <2>1, GoingOnKeepsInv, ObjectType
        DEF FlushHasNoMemory, TypeOK, RunningImageIntact, Feeding
<1>2. CASE FlushStarts
  <2>1. call' \in Calls /\ call'.pc \in {"erase", "program"}
    BY <1>0, <1>2 DEF FlushStarts, Goto, TypeOK, Calls, Points
  <2>2. upd' = [upd EXCEPT !.skipBuffer = upd.skipBuffer \/ IsFirst]
        /\ (upd.skipBuffer \/ IsFirst) \in BOOLEAN
    BY <1>0, <1>2 DEF FlushStarts, IsFirst, TypeOK, Updates
  <2>3. upd' \in Updates /\ upd'.command = upd.command /\ upd'.size = upd.size
        /\ upd'.partition = upd.partition /\ upd'.progress = upd.progress
        /\ upd'.skipBuffer = (upd.skipBuffer \/ IsFirst)
    BY <1>0, <2>2 DEF TypeOK, Updates
  <2>4. upd'.skipBuffer => upd.partition \in Slots
    BY <1>0, <2>3 DEF Inv, HeadersOnlyInSlots, IsFirst
  <2> QED BY <1>0, <1>2, <2>1, <2>3, <2>4, GoingOnKeepsInv, ObjectType
        DEF FlushStarts, TypeOK, RunningImageIntact
<1>3. CASE EraseDone
  <2>1. call' \in Calls /\ call'.pc = "program"
    BY <1>0, <1>3 DEF EraseDone, Goto, TypeOK, Calls, Points
  <2>2. flash' \in [Partitions -> [Units -> Cells]] /\ Bootable(flash', running)
    BY <1>0, <1>3, FlashOperationIsElsewhere DEF EraseDone, Feeding
  <2> QED BY <1>0, <1>3, <2>1, <2>2, GoingOnKeepsInv, ObjectType
        DEF EraseDone, TypeOK, Feeding
<1>4. CASE ProgramDone
  <2>1. call' \in Calls /\ call'.pc \in {"verify", "fill", "idle", "read"}
    BY <1>0, <1>4 DEF ProgramDone, Goto, AfterFlush, TypeOK, Calls, Points
  <2>2. flash' \in [Partitions -> [Units -> Cells]] /\ Bootable(flash', running)
    BY <1>0, <1>4, FlashOperationIsElsewhere DEF ProgramDone, Feeding
  <2>3. ProgramEnd \in Nat /\ upd.md5Len + upd.bufferLen \in Nat
    BY <1>0, ObjectType DEF ProgramEnd
  <2>4. upd' = [upd EXCEPT !.progress = ProgramEnd, !.bufferLen = 0,
                           !.md5Len = upd.md5Len + upd.bufferLen]
    BY <1>4 DEF ProgramDone
  <2>5. upd' \in Updates /\ upd'.command = upd.command /\ upd'.size = upd.size
        /\ upd'.partition = upd.partition /\ upd'.skipBuffer = upd.skipBuffer
    BY <1>0, <2>3, <2>4, SizesAreNatural DEF TypeOK, Updates
  <2> QED BY <1>0, <1>4, <2>1, <2>2, <2>5, GoingOnKeepsInv, ObjectType
        DEF ProgramDone, TypeOK, Feeding
<1> QED BY <1>1, <1>2, <1>3, <1>4
LEMMA FinishingKeepsInv ==
  ASSUME Inv, VerifyDone \/ Enable \/ EnableFails \/ Activate
  PROVE  Inv'
<1>0. TypeOK /\ RunningImageIntact /\ call.pc \notin {"idle", "off"}
      /\ call.pc \notin Feeding
  BY DEF Inv, VerifyDone, Enable, EnableFails, Activate, At, Feeding
<1>1. CASE VerifyDone /\ upd.command = "FLASH"
  <2>1. call' \in Calls /\ call'.pc = "enable"
    BY <1>0, <1>1 DEF VerifyDone, Goto, TypeOK, Calls, Points
  <2>2. upd' \in Updates /\ upd'.command = upd.command /\ upd'.size = upd.progress
        /\ upd'.partition = upd.partition /\ upd'.progress = upd.progress
        /\ upd'.skipBuffer = upd.skipBuffer
    BY <1>0, <1>1, ObjectType DEF VerifyDone, TypeOK, Updates
  <2>3. UNCHANGED <<flash, otadata, running, image>>
    BY <1>1 DEF VerifyDone
  <2>4. FeedingMeansRunning' /\ WritesElsewhere' /\ HeadersOnlyInSlots'
    <3>1. WritesElsewhere'
      BY <1>0, <2>2, <2>3 DEF Inv, WritesElsewhere
    <3>2. FeedingMeansRunning'
      BY <2>1, <2>2 DEF FeedingMeansRunning, Feeding
    <3>3. upd.progress > 0 => upd.size > 0
      BY <1>0, ObjectType DEF Inv, FeedingMeansRunning
    <3>4. HeadersOnlyInSlots'
      BY <2>1, <2>2, <2>3, <3>3 DEF Inv, HeadersOnlyInSlots
    <3> QED BY <3>1, <3>2, <3>4
  <2> QED BY <2>1, <2>2, <2>3, <2>4, QuietSteps DEF Inv, TypeOK
<1>2. CASE VerifyDone /\ upd.command # "FLASH"
  <2>1. EndReturns(TRUE) /\ upd' = Reset(upd)
        /\ UNCHANGED <<flash, otadata, running, image>>
    BY <1>2 DEF VerifyDone
  <2>2. call' \in Calls /\ call'.pc = "idle"
    BY <1>0, <2>1, EndReturnsType
  <2>3. "OK" \in Errors
    BY DEF Errors
  <2> QED BY <2>1, <2>2, <2>3, GivingUpKeepsInv
<1>3. CASE Enable
  <2>1. call' \in Calls /\ call'.pc = "activate"
    BY <1>0, <1>3 DEF Enable, Goto, TypeOK, Calls, Points
  <2>2. flash' \in [Partitions -> [Units -> Cells]] /\ Bootable(flash', running)
    BY <1>0, <1>3, FlashOperationIsElsewhere DEF Enable, WriteHeader
  <2> QED BY <1>0, <1>3, <2>1, <2>2, GoingOnKeepsInv DEF Enable, TypeOK, Feeding
<1>4. CASE EnableFails
  <2>1. call' \in Calls /\ call'.pc = "idle"
    BY <1>0, <1>4 DEF EnableFails, EndReturns, TypeOK, Calls, Points
  <2>2. flash' = flash \/ flash' = WriteHeader
    BY <1>4 DEF EnableFails
  <2>3. flash' \in [Partitions -> [Units -> Cells]] /\ Bootable(flash', running)
    BY <1>0, <2>2, FlashOperationIsElsewhere DEF WriteHeader, TypeOK, RunningImageIntact
  <2>4. upd' = Aborted(upd, "READ") /\ "READ" \in Errors
    BY <1>4 DEF EnableFails, Errors
  <2>5. TypeOK' /\ RunningImageIntact'
    BY <1>0, <1>4, <2>1, <2>3, <2>4, AbortedType
    DEF EnableFails, TypeOK, RunningImageIntact, Bootable, Holds
  <2>6. FeedingMeansRunning' /\ WritesElsewhere' /\ HeadersOnlyInSlots'
    BY <1>0, <2>1, <2>4, AbortedType
    DEF TypeOK, FeedingMeansRunning, WritesElsewhere, HeadersOnlyInSlots, Feeding
  <2> QED BY <2>5, <2>6 DEF Inv
<1>5. CASE Activate
  <2>1. call' \in Calls /\ call'.pc = "idle"
    BY <1>0, <1>5 DEF Activate, EndReturns, TypeOK, Calls, Points
  <2>2. otadata' \in Slots
    BY <1>5 DEF Inv, HeadersOnlyInSlots, Activate, At
  <2>3. upd' = Reset(upd)
    BY <1>5 DEF Activate
  <2>4. TypeOK' /\ RunningImageIntact'
    BY <1>0, <1>5, <2>1, <2>2, <2>3, ResetType
    DEF Activate, TypeOK, RunningImageIntact, Bootable, Holds
  <2>5. FeedingMeansRunning' /\ WritesElsewhere' /\ HeadersOnlyInSlots'
    BY <1>0, <2>1, <2>3, ResetType
    DEF TypeOK, FeedingMeansRunning, WritesElsewhere, HeadersOnlyInSlots, Feeding
  <2> QED BY <2>4, <2>5 DEF Inv
<1> QED BY <1>1, <1>2, <1>3, <1>4, <1>5

(* The bootloader starts a complete image; the object is new, so nothing is *)
(* being written.                                                           *)
LEMMA BootKeepsInv ==
  ASSUME Inv, Boot
  PROVE  Inv'
<1>1. running' \in Slots /\ Bootable(flash, running')
  BY DEF Inv, TypeOK, Boot, BootChoices
<1>2. call' \in Calls /\ call'.pc = "idle"
  BY DEF Inv, TypeOK, Boot, Goto, Calls, Points
<1>3. TypeOK' /\ RunningImageIntact'
  BY <1>1, <1>2 DEF Inv, Boot, TypeOK, RunningImageIntact, Bootable, Holds
<1>4. upd.size = 0
  BY DEF Inv, Boot, At, FeedingMeansRunning
<1>5. FeedingMeansRunning' /\ WritesElsewhere' /\ HeadersOnlyInSlots'
  BY <1>2, <1>4 DEF Inv, Boot, FeedingMeansRunning, WritesElsewhere,
     HeadersOnlyInSlots, Feeding
<1> QED BY <1>3, <1>5 DEF Inv
-----------------------------------------------------------------------------
LEMMA NextKeepsInv == Inv /\ [Next]_vars => Inv'
<1> SUFFICES ASSUME Inv, [Next]_vars PROVE Inv'
  OBVIOUS
<1>1. CASE Request
  BY <1>1, RequestKeepsInv
<1>2. CASE Step
  BY <1>2, BufferingKeepsInv, FailuresKeepInv, FlushKeepsInv, FinishingKeepsInv,
     BootKeepsInv DEF Step
<1>3. CASE UNCHANGED vars
  BY <1>3 DEF vars, Inv, TypeOK, RunningImageIntact, Bootable, Holds,
     FeedingMeansRunning, WritesElsewhere, HeadersOnlyInSlots
<1> QED BY <1>1, <1>2, <1>3 DEF Next

LEMMA InvIsInvariant == Spec => []Inv
BY InitEstablishesInv, NextKeepsInv, PTL DEF Spec

(* All variables keep their types; in particular the sector buffer never    *)
(* overflows, and only slots are ever selected for boot.                    *)
THEOREM TypeCorrectness == Spec => []TypeOK
BY InvIsInvariant, PTL DEF Inv

(* No call, no flash error and no power failure damages the image that      *)
(* runs: for every partition table, every size and every alignment.         *)
THEOREM RunningImageSurvives == Spec => []RunningImageIntact
BY InvIsInvariant, PTL DEF Inv

(* So after any power failure the bootloader finds something to start.      *)
THEOREM AlwaysSomethingToBoot == Spec => [](BootChoices(flash) # {})
<1>1. Inv => BootChoices(flash) # {}
  BY DEF Inv, TypeOK, RunningImageIntact, BootChoices
<1> QED BY <1>1, InvIsInvariant, PTL

-----------------------------------------------------------------------------
(* Before anything is programmed, the announced size fits the partition.    *)
SizeFits == (upd.size > 0 /\ upd.progress = 0) => upd.size <= PartSize

(* When the first sector of a firmware is about to be programmed, the       *)
(* header of what the slot held before is gone.                             *)
OldHeaderIsErased ==
  (At("program") /\ IsFirst) => flash[upd.partition][0] = Erased

HeaderInv == SizeFits /\ OldHeaderIsErased /\ PartialImageHasNoHeader

-----------------------------------------------------------------------------
(* Division, as much of it as the block boundaries need.                    *)
LEMMA Division ==
  ASSUME NEW a \in Nat, NEW b \in Nat \ {0}
  PROVE  /\ a \div b \in Nat /\ a % b \in 0 .. b - 1
         /\ a = (a \div b) * b + (a % b)
OBVIOUS

LEMMA ProductGrows ==
  ASSUME NEW b \in Nat, NEW d \in Nat, NEW q \in Nat, d >= q
  PROVE  d * b >= q * b
<1>1. PICK k \in Nat : d = q + k
  OBVIOUS
<1>2. d * b = q * b + k * b /\ k * b \in Nat /\ q * b \in Nat
  BY <1>1
<1> QED BY <1>2

(* A partition that starts at a, s of it to be written, blocks of b.        *)
LEMMA FirstSectorIsErased ==
  ASSUME NEW a \in Nat, NEW b \in Nat \ {0}, NEW s \in Nat
  PROVE  \/ s >= b /\ a % b = 0
         \/ a % b # 0 /\ a < (a \div b + 1) * b
         \/ a >= ((a + s) \div b) * b
<1> DEFINE q == a \div b
           d == (a + s) \div b
<1>1. q \in Nat /\ a % b \in 0 .. b - 1 /\ a = q * b + (a % b)
  BY Division
<1>2. d \in Nat /\ (a + s) % b \in 0 .. b - 1 /\ a + s = d * b + ((a + s) % b)
  <2>1. a + s \in Nat
    OBVIOUS
  <2> QED BY <2>1, Division
<1>3. q * b \in Nat /\ d * b \in Nat /\ (q + 1) * b = q * b + b
  BY <1>1, <1>2
<1> HIDE DEF q, d
<1>4. CASE a % b # 0
  <2>1. a < (q + 1) * b
    BY <1>1, <1>3
  <2> QED BY <1>4, <2>1 DEF q
<1>5. CASE a % b = 0 /\ s < b
  <2>1. a = q * b /\ d * b <= a + s
    BY <1>1, <1>2, <1>3, <1>5
  <2>2. ~(d >= q + 1)
    <3>1. d >= q + 1 => d * b >= (q + 1) * b
      BY <1>1, <1>2, ProductGrows
    <3> QED BY <1>3, <1>5, <2>1, <3>1
  <2>3. d * b <= q * b
    BY <1>1, <1>2, <2>2, ProductGrows
  <2> QED BY <1>3, <2>1, <2>3 DEF d
<1> QED BY <1>1, <1>4, <1>5

(* So the first flush of a firmware erases before it programs.              *)
LEMMA FirstFlushErases ==
  ASSUME Inv, SizeFits, IsFirst, upd.size > 0
  PROVE  NeedsErase
<1> DEFINE a == Address[upd.partition]
<1>1. upd.partition \in Partitions /\ upd.size \in Nat /\ upd.progress = 0
  BY ObjectType DEF Inv, WritesElsewhere, IsFirst
<1>2. /\ a \in Nat /\ BlockSize \in Nat \ {0}
      /\ PartSize + BlockSize < Word /\ PartSize \in Nat /\ Word \in Nat
  BY <1>1, SizesAssumption
<1>3. upd.size < Word
  BY <1>1, <1>2 DEF SizeFits
<1>4. Remaining(upd) = upd.size
  <2>1. upd.size % Word = upd.size
    BY <1>1, <1>2, <1>3
  <2> QED BY <1>1, <2>1 DEF Remaining
<1> HIDE DEF a
<1>5. \/ upd.size >= BlockSize /\ a % BlockSize = 0
      \/ a % BlockSize # 0 /\ a < (a \div BlockSize + 1) * BlockSize
      \/ a >= ((a + upd.size) \div BlockSize) * BlockSize
  BY <1>1, <1>2, FirstSectorIsErased
<1>6. a + upd.progress = a
  BY <1>1, <1>2
<1> QED BY <1>4, <1>5, <1>6 DEF NeedsErase, BlockErase, HeadSector, TailSector, a

-----------------------------------------------------------------------------
LEMMA InitEstablishesHeaderInv == Init => HeaderInv
BY DEF Init, FreshUpdate, HeaderInv, SizeFits, OldHeaderIsErased,
   PartialImageHasNoHeader, At

(* A step after which no update runs.                                       *)
LEMMA NoUpdateKeepsHeaderInv ==
  ASSUME upd'.size = 0, call'.pc # "program"
  PROVE  HeaderInv'
BY DEF HeaderInv, SizeFits, OldHeaderIsErased, PartialImageHasNoHeader, At

LEMMA AbortKeepsHeaderInv ==
  ASSUME Inv, NEW e \in Errors, upd' = Aborted(upd, e) \/ upd' = Reset(upd),
         call'.pc # "program"
  PROVE  HeaderInv'
BY AbortedType, ResetType, NoUpdateKeepsHeaderInv DEF Inv, TypeOK

(* A step that neither writes nor changes what is being written where.      *)
LEMMA CalmStepKeepsHeaderInv ==
  ASSUME HeaderInv, flash' = flash, upd'.size = upd.size,
         upd'.progress = upd.progress, upd'.command = upd.command,
         upd'.partition = upd.partition,
         call.pc # "activate", call'.pc # "program"
  PROVE  HeaderInv'
BY DEF HeaderInv, SizeFits, OldHeaderIsErased, PartialImageHasNoHeader, At

LEMMA RequestKeepsHeaderInv ==
  ASSUME Inv, HeaderInv, Request
  PROVE  HeaderInv'
<1>0. TypeOK /\ call \in Calls /\ upd \in Updates
  BY DEF Inv, TypeOK
<1>1. ASSUME NEW sz \in Sizes, NEW cmd \in Commands, BeginFails(sz, cmd)
      PROVE  HeaderInv'
  <2>1. upd'.size = 0 /\ call'.pc # "program"
    BY <1>0, <1>1, BegunType DEF BeginFails, At
  <2> QED BY <2>1, NoUpdateKeepsHeaderInv
<1>2. ASSUME NEW sz \in Sizes, NEW cmd \in Commands, NEW v \in Images,
             BeginStarts(sz, cmd, v)
      PROVE  HeaderInv'
  <2>1. PartSize \in Nat /\ (sz = UNKNOWN \/ sz <= PartSize)
    BY <1>2, SizesAssumption DEF BeginStarts, Verdict, Sizes
  <2>2. Begun(sz, cmd) \in Updates /\ Begun(sz, cmd).progress = 0
    BY <1>0, BegunType
  <2>3. upd' = [Begun(sz, cmd) EXCEPT
                  !.size = IF sz = UNKNOWN THEN PartSize ELSE sz, !.command = cmd]
    BY <1>2 DEF BeginStarts
  <2>4. upd'.progress = 0 /\ upd'.size <= PartSize
    BY <2>1, <2>2, <2>3 DEF Updates
  <2>5. call'.pc = "idle"
    BY <1>2 DEF BeginStarts, At
  <2> QED BY <2>4, <2>5 DEF HeaderInv, SizeFits, OldHeaderIsErased,
        PartialImageHasNoHeader, At
<1>3. CASE setMD5 \/ clearError \/ rollBack
  <2>1. /\ upd'.size = upd.size /\ upd'.progress = upd.progress
        /\ upd'.command = upd.command /\ upd'.partition = upd.partition
    BY <1>0, <1>3 DEF setMD5, clearError, rollBack, Updates
  <2> QED BY <1>3, <2>1, CalmStepKeepsHeaderInv DEF setMD5, clearError, rollBack, At
<1>4. CASE abort
  BY <1>4, AbortKeepsHeaderInv DEF abort, At, Errors
<1>5. ASSUME NEW len \in Lengths, WriteRefused(len) \/ WriteStarts(len)
      PROVE  HeaderInv'
  <2>1. CASE WriteRefused(len)
    BY <2>1, AbortKeepsHeaderInv DEF WriteRefused, CanFeed, At, Errors
  <2>2. CASE WriteStarts(len)
    <3>1. call'.pc = "fill"
      BY <1>0, <2>2 DEF WriteStarts, Calls
    <3> QED BY <2>2, <3>1, CalmStepKeepsHeaderInv DEF WriteStarts, CanFeed, At
  <2> QED BY <1>5, <2>1, <2>2
<1>6. ASSUME NEW b \in BOOLEAN,
             StreamStarts(b) \/ StreamHasBadHeader(b) \/ EndStarts(b)
      PROVE  HeaderInv'
  <2>1. CASE StreamStarts(b)
    <3>1. call'.pc \in {"idle", "read"}
      BY <1>0, <2>1 DEF StreamStarts, Calls
    <3> QED BY <2>1, <3>1, CalmStepKeepsHeaderInv DEF StreamStarts, CanFeed, At
  <2>2. CASE StreamHasBadHeader(b)
    BY <2>2, AbortKeepsHeaderInv DEF StreamHasBadHeader, CanFeed, At, Errors
  <2>3. CASE EndStarts(b)
    <3>1. call'.pc \in {"flush", "verify"}
      BY <1>0, <2>3 DEF EndStarts, Calls
    <3> QED BY <2>3, <3>1, CalmStepKeepsHeaderInv DEF EndStarts, CanFeed, At
  <2> QED BY <1>6, <2>1, <2>2, <2>3
<1>7. CASE EndTooEarly
  <2>1. call'.pc = "idle"
    BY <1>0, <1>7 DEF EndTooEarly, EndReturns, Calls
  <2> QED BY <1>7, <2>1, AbortKeepsHeaderInv DEF EndTooEarly, Errors
<1>8. CASE PowerFails
  <2>1. upd'.size = 0 /\ call'.pc # "program"
    BY <1>0, <1>8 DEF PowerFails, FreshUpdate, Calls
  <2> QED BY <2>1, NoUpdateKeepsHeaderInv
<1> QED BY <1>1, <1>2, <1>3, <1>4, <1>5, <1>6, <1>7, <1>8 DEF Request

-----------------------------------------------------------------------------
(* The steps of a call: only the flush touches the first sector.            *)
LEMMA FlushKeepsHeaderInv ==
  ASSUME Inv, HeaderInv, FlushStarts \/ EraseDone \/ ProgramDone
  PROVE  HeaderInv'
<1>0. /\ TypeOK /\ call \in Calls /\ upd \in Updates /\ upd.size > 0
      /\ flash \in [Partitions -> [Units -> Cells]]
      /\ upd.partition \in Partitions /\ 0 \in Units
  <2>1. upd.size > 0
    BY DEF Inv, FeedingMeansRunning, Feeding, FlushStarts, EraseDone, ProgramDone, At
  <2> QED BY <2>1, SizesAssumption DEF Inv, TypeOK, WritesElsewhere, Units
<1>1. CASE FlushStarts
  <2>1. /\ upd'.size = upd.size /\ upd'.progress = upd.progress
        /\ upd'.command = upd.command /\ upd'.partition = upd.partition
    BY <1>0, <1>1 DEF FlushStarts, Updates
  <2>2. call'.pc = IF NeedsErase THEN "erase" ELSE "program"
    BY <1>0, <1>1 DEF FlushStarts, Goto, Calls
  <2>3. OldHeaderIsErased'
    <3>1. CASE IsFirst
      BY <1>0, <2>2, <3>1, FirstFlushErases DEF HeaderInv, OldHeaderIsErased, At
    <3>2. CASE ~IsFirst
      BY <2>1, <3>2 DEF OldHeaderIsErased, IsFirst
    <3> QED BY <3>1, <3>2
  <2>4. SizeFits' /\ PartialImageHasNoHeader'
    BY <1>1, <2>1 DEF FlushStarts, HeaderInv, SizeFits, PartialImageHasNoHeader, At
  <2> QED BY <2>3, <2>4 DEF HeaderInv
<1>2. CASE EraseDone
  <2>1. upd' = upd /\ call.pc = "erase" /\ call'.pc = "program"
    BY <1>0, <1>2 DEF EraseDone, Goto, Calls, At
  <2>2. flash'[upd.partition][0] =
          IF 0 \in upd.progress .. EraseEnd - 1 THEN Erased ELSE flash[upd.partition][0]
    BY <1>0, <1>2 DEF EraseDone, EraseRange
  <2>3. OldHeaderIsErased'
    <3>1. ASSUME IsFirst PROVE 0 \in upd.progress .. EraseEnd - 1
      BY <3>1, SizesAssumption DEF IsFirst, EraseEnd
    <3> QED BY <2>1, <2>2, <3>1 DEF OldHeaderIsErased, IsFirst
  <2>4. SizeFits' /\ PartialImageHasNoHeader'
    BY <2>1, <2>2 DEF HeaderInv, SizeFits, PartialImageHasNoHeader, At
  <2> QED BY <2>3, <2>4 DEF HeaderInv
<1>3. CASE ProgramDone
  <2>1. call.pc = "program" /\ call'.pc # "program"
    BY <1>0, <1>3 DEF ProgramDone, Goto, AfterFlush, Calls, At
  <2>2. /\ upd'.size = upd.size /\ upd'.command = upd.command
        /\ upd'.partition = upd.partition
        /\ upd'.progress = upd.progress + upd.bufferLen
    BY <1>0, <1>3 DEF ProgramDone, ProgramEnd, Updates
  <2>3. upd.progress \in Nat /\ upd.bufferLen \in Nat
    BY <1>0, ObjectType
  <2>4. CASE upd.command = "FLASH"
    <3>1. 0 \notin ProgramStart .. ProgramEnd - 1
      BY <2>3, <2>4 DEF ProgramStart, IsFirst
    <3>2. flash'[upd.partition][0] = flash[upd.partition][0]
      BY <1>0, <1>3, <3>1 DEF ProgramDone, ProgramRange
    <3>3. flash[upd.partition][0] = Erased
      BY <1>0, <2>1, <2>3, <2>4 DEF HeaderInv, OldHeaderIsErased,
         PartialImageHasNoHeader, IsFirst, At
    <3> QED BY <2>1, <2>2, <2>3, <3>2, <3>3 DEF HeaderInv, SizeFits,
          OldHeaderIsErased, PartialImageHasNoHeader, At
  <2>5. CASE upd.command # "FLASH"
    BY <2>1, <2>2, <2>3, <2>5 DEF HeaderInv, SizeFits, OldHeaderIsErased,
       PartialImageHasNoHeader, At
  <2> QED BY <2>4, <2>5
<1> QED BY <1>1, <1>2, <1>3

LEMMA BufferingKeepsHeaderInv ==
  ASSUME Inv, HeaderInv, FillSector \/ FillRest \/ StreamRead \/ FlushHasNoMemory
  PROVE  HeaderInv'
<1>1. call \in Calls /\ upd \in Updates /\ TypeOK
  BY DEF Inv, TypeOK
<1>2. /\ upd'.size = upd.size /\ upd'.progress = upd.progress
      /\ upd'.command = upd.command /\ upd'.partition = upd.partition
  BY <1>1 DEF FillSector, FillRest, StreamRead, FlushHasNoMemory, Updates
<1>3. call'.pc # "program"
  <2>1. CASE FlushHasNoMemory
    BY <1>1, <2>1, FlushFailedType DEF FlushHasNoMemory
  <2>2. CASE FillSector \/ FillRest \/ StreamRead
    BY <1>1, <2>2 DEF FillSector, FillRest, StreamRead, Goto, Calls
  <2> QED BY <2>1, <2>2
<1> QED BY <1>2, <1>3, CalmStepKeepsHeaderInv
      DEF FillSector, FillRest, StreamRead, FlushHasNoMemory, At

LEMMA FailuresKeepHeaderInv ==
  ASSUME Inv,
         \/ StreamTimesOut \/ FlushBadHeader \/ EraseFails \/ ProgramFails
         \/ VerifyFails \/ EnableFails \/ ActivateFails
  PROVE  HeaderInv'
<1>1. FlushFailed \/ Returns \/ EndReturns(FALSE)
  BY DEF StreamTimesOut, FlushBadHeader, EraseFails, ProgramFails, VerifyFails,
     EnableFails, ActivateFails
<1>2. call'.pc # "program"
  BY <1>1, FlushFailedType DEF Inv
<1>3. \E e \in Errors : upd' = Aborted(upd, e)
  BY DEF StreamTimesOut, FlushBadHeader, EraseFails, ProgramFails, VerifyFails,
     EnableFails, ActivateFails, Errors
<1> QED BY <1>2, <1>3, AbortKeepsHeaderInv

LEMMA FinishingKeepsHeaderInv ==
  ASSUME Inv, HeaderInv, VerifyDone \/ Enable \/ Activate \/ Boot
  PROVE  HeaderInv'
<1>0. call \in Calls /\ upd \in Updates /\ TypeOK
  BY DEF Inv, TypeOK
<1>1. CASE VerifyDone
  <2>1. CASE upd.command = "FLASH"
    <3>1. call'.pc = "enable"
      BY <1>0, <1>1, <2>1 DEF VerifyDone, Goto, Calls
    <3>2. /\ upd'.size = upd.progress /\ upd'.progress = upd.progress
          /\ upd'.command = upd.command /\ upd'.partition = upd.partition
      BY <1>0, <1>1, <2>1 DEF VerifyDone, Updates
    <3>3. upd.progress > 0 => upd.size > 0
      BY <1>0, ObjectType DEF Inv, FeedingMeansRunning
    <3>4. flash' = flash /\ call.pc = "verify" /\ upd.progress \in Nat
      BY <1>0, <1>1, ObjectType DEF VerifyDone, At
    <3> QED BY <3>1, <3>2, <3>3, <3>4 DEF HeaderInv, SizeFits, OldHeaderIsErased,
          PartialImageHasNoHeader, At
  <2>2. CASE upd.command # "FLASH"
    <3>1. EndReturns(TRUE) /\ upd' = Reset(upd) /\ "OK" \in Errors
      BY <1>1, <2>2 DEF VerifyDone, Errors
    <3>2. call'.pc = "idle"
      BY <1>0, <3>1, EndReturnsType
    <3> QED BY <3>1, <3>2, AbortKeepsHeaderInv
  <2> QED BY <2>1, <2>2
<1>2. CASE Enable
  <2>1. call.pc = "enable" /\ call'.pc = "activate" /\ upd' = upd
    BY <1>0, <1>2 DEF Enable, Goto, Calls, At
  <2> QED BY <2>1 DEF HeaderInv, SizeFits, OldHeaderIsErased,
        PartialImageHasNoHeader, At
<1>3. CASE Activate
  <2>1. EndReturns(TRUE) /\ upd' = Reset(upd) /\ "OK" \in Errors
    BY <1>3 DEF Activate, Errors
  <2>2. call'.pc = "idle"
    BY <1>0, <2>1, EndReturnsType
  <2> QED BY <2>1, <2>2, AbortKeepsHeaderInv
<1>4. CASE Boot
  <2>1. call.pc = "off" /\ call'.pc = "idle" /\ upd' = upd
    BY <1>0, <1>4 DEF Boot, Goto, Calls, At
  <2> QED BY <2>1, NoUpdateKeepsHeaderInv DEF Inv, FeedingMeansRunning
<1> QED BY <1>1, <1>2, <1>3, <1>4

-----------------------------------------------------------------------------
LEMMA NextKeepsHeaderInv == Inv /\ HeaderInv /\ [Next]_vars => HeaderInv'
<1> SUFFICES ASSUME Inv, HeaderInv, [Next]_vars PROVE HeaderInv'
  OBVIOUS
<1>1. CASE Request
  BY <1>1, RequestKeepsHeaderInv
<1>2. CASE Step
  BY <1>2, BufferingKeepsHeaderInv, FlushKeepsHeaderInv, FailuresKeepHeaderInv,
     FinishingKeepsHeaderInv DEF Step
<1>3. CASE UNCHANGED vars
  BY <1>3 DEF vars, HeaderInv, SizeFits, OldHeaderIsErased, PartialImageHasNoHeader,
     At, IsFirst
<1> QED BY <1>1, <1>2, <1>3 DEF Next

(* "so that partially written firmware will not be bootable"                *)
(* (Updater.cpp:579-581), for all partition tables, alignments and sizes.   *)
THEOREM PartialImageIsNotBootable == Spec => []PartialImageHasNoHeader
BY InvIsInvariant, InitEstablishesHeaderInv, NextKeepsHeaderInv, PTL DEF Spec, HeaderInv

-----------------------------------------------------------------------------
(* What was flushed stays in the flash: block boundaries.                   *)
NextBlock(x) == (x \div BlockSize + 1) * BlockSize

LEMMA NextBlockIsAhead ==
  ASSUME NEW x \in Nat
  PROVE  /\ NextBlock(x) \in Nat /\ x < NextBlock(x) /\ NextBlock(x) <= x + BlockSize
         /\ x % BlockSize = 0 => NextBlock(x) = x + BlockSize
<1>1. BlockSize \in Nat \ {0}
  BY SizesAssumption
<1> DEFINE q == x \div BlockSize
           r == x % BlockSize
<1>2. q \in Nat /\ r \in 0 .. BlockSize - 1 /\ x = q * BlockSize + r
  BY <1>1, Division
<1>3. (q + 1) * BlockSize = q * BlockSize + BlockSize /\ q * BlockSize \in Nat
  BY <1>1, <1>2
<1>4. NextBlock(x) = (q + 1) * BlockSize
  BY DEF NextBlock
<1> HIDE DEF q
<1> QED BY <1>1, <1>2, <1>3, <1>4

LEMMA FloorOfDivision ==
  ASSUME NEW a \in Nat, NEW b \in Nat \ {0}
  PROVE  /\ a \div b \in Nat /\ (a \div b) * b \in Nat
         /\ (a \div b) * b <= a /\ a < (a \div b + 1) * b
<1> DEFINE q == a \div b
           r == a % b
<1>1. q \in Nat /\ r \in 0 .. b - 1 /\ a = q * b + r
  BY Division
<1> HIDE DEF q, r
<1>2. q * b \in Nat /\ (q + 1) * b = q * b + b
  BY <1>1
<1>3. q * b <= a /\ a < (q + 1) * b
  BY <1>1, <1>2
<1> QED BY <1>1, <1>2, <1>3 DEF q

LEMMA QuotientIsUnique ==
  ASSUME NEW b \in Nat \ {0}, NEW q \in Nat, NEW k \in Nat, NEW y \in Nat,
         q * b <= y, y < (q + 1) * b, k * b <= y, y < (k + 1) * b
  PROVE  k = q
<1> DEFINE u == q * b
           v == k * b
           u1 == (q + 1) * b
           v1 == (k + 1) * b
<1>1. u \in Nat /\ v \in Nat /\ u1 = u + b /\ v1 = v + b
  OBVIOUS
<1>2. (k >= q + 1 => v >= u1) /\ (q >= k + 1 => u >= v1)
  BY ProductGrows
<1>3. u <= y /\ y < u1 /\ v <= y /\ y < v1
  OBVIOUS
<1> HIDE DEF u, v, u1, v1
<1>4. ~(k >= q + 1) /\ ~(q >= k + 1)
  BY <1>1, <1>2, <1>3
<1> QED BY <1>4

LEMMA SameBlock ==
  ASSUME NEW x \in Nat, NEW y \in Nat, x <= y, y < NextBlock(x)
  PROVE  NextBlock(y) = NextBlock(x)
<1> DEFINE q == x \div BlockSize
           k == y \div BlockSize
<1>1. BlockSize \in Nat \ {0}
  BY SizesAssumption
<1>2. /\ q \in Nat /\ q * BlockSize <= x
      /\ k \in Nat /\ k * BlockSize <= y
  BY <1>1, FloorOfDivision
<1>3. y < (q + 1) * BlockSize /\ y < (k + 1) * BlockSize
  BY NextBlockIsAhead DEF NextBlock
<1>4. q * BlockSize <= y
  <2>1. q * BlockSize \in Nat
    BY <1>1, <1>2
  <2> QED BY <1>2, <2>1
<1> HIDE DEF q, k
<1>5. k = q
  BY <1>1, <1>2, <1>3, <1>4, QuotientIsUnique
<1> QED BY <1>5 DEF NextBlock, q, k

(* Sectors fit blocks: a sector that starts in a block ends in it.          *)
LEMMA SectorsStayInBlocks ==
  ASSUME BlockSize % SectorSize = 0, NEW x \in Nat, x % SectorSize = 0
  PROVE  x + SectorSize <= NextBlock(x)
<1> DEFINE S == SectorSize
           B == BlockSize
           n == x \div S
           m == B \div S
           q == x \div B
<1>1. S \in Nat \ {0} /\ B \in Nat \ {0}
  BY SizesAssumption
<1>2. n \in Nat /\ m \in Nat /\ q \in Nat /\ x = n * S /\ B = m * S
  <2>1. n \in Nat /\ x = n * S + (x % S) /\ n * S \in Nat
    BY <1>1, Division
  <2>2. m \in Nat /\ B = m * S + (B % S) /\ m * S \in Nat
    BY <1>1, Division
  <2>3. q \in Nat
    BY <1>1, Division
  <2> QED BY <2>1, <2>2, <2>3
<1>3. NextBlock(x) = (q + 1) * B /\ x < NextBlock(x)
  BY NextBlockIsAhead DEF NextBlock
<1> HIDE DEF S, B, n, m, q
<1>4. (q + 1) * B = ((q + 1) * m) * S /\ (q + 1) * m \in Nat
  BY <1>2, <1>1
<1> DEFINE t == (q + 1) * m
<1>5. n * S < t * S /\ t \in Nat
  BY <1>2, <1>3, <1>4
<1> HIDE DEF t
<1>6. ~(n >= t)
  <2>1. n >= t => n * S >= t * S
    BY <1>1, <1>2, <1>5, ProductGrows
  <2>2. n * S \in Nat /\ t * S \in Nat
    BY <1>1, <1>2, <1>5
  <2> QED BY <1>5, <2>1, <2>2
<1>7. t >= n + 1
  BY <1>2, <1>5, <1>6
<1>8. t * S >= (n + 1) * S
  BY <1>1, <1>2, <1>5, <1>7, ProductGrows
<1>9. (n + 1) * S = n * S + S
  BY <1>1, <1>2
<1> QED BY <1>1, <1>2, <1>3, <1>4, <1>5, <1>8, <1>9 DEF t, S

LEMMA MultiplesHaveNoRest ==
  ASSUME NEW k \in Nat, NEW n \in Nat \ {0}
  PROVE  (k * n) % n = 0
<1> DEFINE y == k * n
           q == y \div n
           r == y % n
<1>1. y \in Nat /\ (k + 1) * n = y + n
  OBVIOUS
<1>2. q \in Nat /\ r \in 0 .. n - 1 /\ y = q * n + r
  BY <1>1, Division
<1>3. q * n \in Nat /\ (q + 1) * n = q * n + n
  BY <1>2
<1>4. k * n = y
  OBVIOUS
<1> HIDE DEF q, r, y
<1>5. q * n <= y /\ y < (q + 1) * n
  BY <1>1, <1>2, <1>3
<1>6. k * n <= y /\ y < (k + 1) * n
  BY <1>1, <1>4
<1>7. k = q
  BY <1>1, <1>2, <1>5, <1>6, QuotientIsUnique
<1>8. r = 0
  BY <1>1, <1>2, <1>3, <1>4, <1>7
<1> QED BY <1>8 DEF r, y

LEMMA NextBlockIsABlock ==
  ASSUME NEW x \in Nat
  PROVE  NextBlock(x) % BlockSize = 0
<1>1. BlockSize \in Nat \ {0}
  BY SizesAssumption
<1>2. x \div BlockSize + 1 \in Nat
  BY <1>1, FloorOfDivision
<1> QED BY <1>1, <1>2, MultiplesHaveNoRest DEF NextBlock

LEMMA SumOfMultiples ==
  ASSUME NEW a \in Nat, NEW b \in Nat, NEW n \in Nat \ {0}, a % n = 0, b % n = 0
  PROVE  (a + b) % n = 0
<1> DEFINE j == a \div n
           k == b \div n
<1>1. j \in Nat /\ k \in Nat /\ a = j * n /\ b = k * n
  <2>1. j \in Nat /\ a = j * n + (a % n) /\ j * n \in Nat
    BY Division
  <2>2. k \in Nat /\ b = k * n + (b % n) /\ k * n \in Nat
    BY Division
  <2> QED BY <2>1, <2>2
<1> HIDE DEF j, k
<1>2. a + b = (j + k) * n /\ j + k \in Nat
  BY <1>1
<1> QED BY <1>2, MultiplesHaveNoRest

(* The two comparisons of Updater.cpp:596-600, for a partition that starts  *)
(* at a, of which s are to be written and p are.                            *)
InHead(a, p)    == a % BlockSize # 0 /\ a + p < NextBlock(a)
InTail(a, p, s) == a + p >= ((a + s) \div BlockSize) * BlockSize

LEMMA TailOnceAllIsWritten ==
  ASSUME NEW a \in Nat, NEW p \in Nat, NEW s \in Nat, s <= p
  PROVE  InTail(a, p, s)
<1>1. BlockSize \in Nat \ {0} /\ a + s \in Nat
  BY SizesAssumption
<1> DEFINE f == ((a + s) \div BlockSize) * BlockSize
<1>2. f \in Nat /\ f <= a + s
  BY <1>1, FloorOfDivision
<1> HIDE DEF f
<1>3. a + p >= f
  BY <1>2
<1> QED BY <1>3 DEF f, InTail

(* A block that starts before the tail is written to its end.               *)
LEMMA BlocksBeforeTheTailAreWhole ==
  ASSUME NEW a \in Nat, NEW p \in Nat, NEW s \in Nat,
         (a + p) % BlockSize = 0, ~InTail(a, p, s)
  PROVE  s >= p + BlockSize
<1> DEFINE x == a + p
           k == x \div BlockSize
           d == (a + s) \div BlockSize
           u == k * BlockSize
           v == d * BlockSize
<1>1. BlockSize \in Nat \ {0} /\ x \in Nat /\ a + s \in Nat
  BY SizesAssumption
<1>2. k \in Nat /\ u \in Nat /\ d \in Nat /\ v \in Nat /\ v <= a + s
  BY <1>1, FloorOfDivision
<1>3. x = u
  <2>1. x = u + (x % BlockSize) /\ x % BlockSize = 0
    BY <1>1, Division
  <2> HIDE DEF x, u
  <2> QED BY <1>1, <1>2, <2>1
<1>4. x < v
  BY <1>1, <1>2 DEF InTail
<1>5. (k + 1) * BlockSize = u + BlockSize
  <2> HIDE DEF k
  <2> QED BY <1>1, <1>2
<1>6. k >= d => u >= v
  <2> HIDE DEF k, d
  <2> QED BY <1>1, <1>2, ProductGrows
<1>7. d >= k + 1 => v >= (k + 1) * BlockSize
  <2> HIDE DEF k, d
  <2> QED BY <1>1, <1>2, ProductGrows
<1>8. x = a + p
  OBVIOUS
<1> HIDE DEF x, u, v, k, d
<1>9. d >= k + 1
  BY <1>2, <1>3, <1>4, <1>6
<1>10. v >= u + BlockSize
  BY <1>5, <1>7, <1>9
<1> QED BY <1>1, <1>2, <1>3, <1>8, <1>10

(* After one more sector the next block is reached, or nothing changed.     *)
SectorsFit ==
  BlockSize % SectorSize = 0 /\ \A p \in Partitions : Address[p] % SectorSize = 0

LEMMA OneSectorOn ==
  ASSUME BlockSize % SectorSize = 0, NEW a \in Nat, a % SectorSize = 0,
         NEW p \in Nat, p % SectorSize = 0
  PROVE  /\ a + p + SectorSize <= NextBlock(a + p)
         /\ \/ (a + p + SectorSize) % BlockSize = 0
            \/ /\ NextBlock(a + p + SectorSize) = NextBlock(a + p)
               /\ InHead(a, p) => InHead(a, p + SectorSize)
<1> DEFINE x == a + p
           S == SectorSize
<1>1. S \in Nat \ {0} /\ x \in Nat /\ x + S \in Nat
  BY SizesAssumption
<1>2. x % S = 0
  BY <1>1, SumOfMultiples
<1>3. x + S <= NextBlock(x) /\ NextBlock(x) \in Nat
  BY <1>1, <1>2, SectorsStayInBlocks, NextBlockIsAhead
<1>4. CASE x + S = NextBlock(x)
  BY <1>1, <1>3, <1>4, NextBlockIsABlock
<1>5. CASE x + S < NextBlock(x)
  <2>1. NextBlock(x + S) = NextBlock(x)
    BY <1>1, <1>5, SameBlock
  <2>2. ASSUME InHead(a, p) PROVE InHead(a, p + S)
    <3>1. a <= x /\ x < NextBlock(a)
      BY <2>2 DEF InHead
    <3>2. NextBlock(x) = NextBlock(a)
      BY <1>1, <3>1, SameBlock
    <3>3. a + (p + S) = x + S
      BY <1>1
    <3> QED BY <1>5, <2>2, <3>2, <3>3 DEF InHead
  <2> QED BY <1>3, <2>1, <2>2
<1> QED BY <1>1, <1>3, <1>4, <1>5

LEMMA SectorsFitIntoBlocks ==
  ASSUME BlockSize % SectorSize = 0
  PROVE  SectorSize <= BlockSize
<1>1. SectorSize \in Nat \ {0} /\ BlockSize \in Nat \ {0}
  BY SizesAssumption
<1>2. BlockSize < SectorSize => BlockSize % SectorSize = BlockSize
  BY <1>1
<1> QED BY <1>1, <1>2

-----------------------------------------------------------------------------
(* The invariant.  An update is fed sector by sector, up to its last piece; *)
(* what is left of a block that was erased as one is still erased.          *)
Start    == Address[upd.partition]
Position == Start + upd.progress
Fed == upd.size > 0 /\ call.pc \notin {"verify", "enable", "activate"}

SizesFit == upd.size <= PartSize /\ upd.progress <= PartSize

CallsKnowTheirUpdate ==
  /\ At("read") => call.op = "writeStream"
  /\ At("enable") => upd.command = "FLASH"

SectorBySector == Fed =>
  \/ upd.progress % SectorSize = 0
  \/ /\ upd.progress = upd.size /\ upd.bufferLen = 0
     /\ At("fill") => call.left = 0

FlushesAreSectors == call.pc \in {"flush", "erase", "program"} =>
  \/ upd.bufferLen = SectorSize
  \/ upd.progress + upd.bufferLen = upd.size /\ (call.op = "write" => call.left = 0)
  \/ call.op = "end"

ErasedFrom(p, first, end) ==
  \A i \in Units : (first <= i /\ i < end) => flash[p][i] = Erased

RestOfBlockIsErased ==
  (/\ Fed
   /\ ~InHead(Start, upd.progress) /\ ~InTail(Start, upd.progress, upd.size)
   /\ Position % BlockSize # 0 \/ At("program"))
     => ErasedFrom(upd.partition, upd.progress, NextBlock(Position) - Start)

TargetIsErased == At("program") =>
  ErasedFrom(upd.partition, upd.progress, upd.progress + upd.bufferLen)

FlashInv ==
  /\ SizesFit /\ CallsKnowTheirUpdate /\ SectorBySector /\ FlushesAreSectors
  /\ RestOfBlockIsErased /\ TargetIsErased /\ FlashHoldsWhatWasFlushed

LEMMA SectorsAreInHeadOrTail ==
  /\ HeadSector <=> InHead(Start, upd.progress)
  /\ TailSector <=> InTail(Start, upd.progress, upd.size)
BY DEF HeadSector, TailSector, InHead, InTail, NextBlock, Start

LEMMA PlaceTypes ==
  ASSUME Inv, upd.size > 0
  PROVE  /\ upd.partition \in Partitions /\ Start \in Nat /\ Position \in Nat
         /\ upd.size \in Nat /\ upd.progress \in Nat /\ upd.bufferLen \in Nat
         /\ upd.bufferLen <= SectorSize
<1>1. upd.partition \in Partitions /\ TypeOK
  BY DEF Inv, WritesElsewhere
<1>2. Start \in Nat
  BY <1>1, SizesAssumption DEF Start
<1> QED BY <1>1, <1>2, ObjectType, SizesAreNatural DEF Position

(* remaining() is exact as long as the update has not overshot its size.    *)
LEMMA RemainingIsExact ==
  ASSUME NEW u, u.size \in Nat, u.progress \in Nat, u.size <= PartSize,
         u.progress <= u.size
  PROVE  Remaining(u) = u.size - u.progress
<1>1. PartSize \in Nat /\ Word \in Nat /\ PartSize < Word
  BY SizesAssumption
<1>2. u.size - u.progress \in 0 .. Word - 1
  BY <1>1
<1> DEFINE d == u.size - u.progress
<1>3. d % Word = d
  <2> HIDE DEF d
  <2> QED BY <1>1, <1>2 DEF d
<1> QED BY <1>3 DEF Remaining

(* When it has, what remains is more than the buffer holds.                 *)
LEMMA WhatRemainsIsTheLastPiece ==
  ASSUME BlockSize % SectorSize = 0, NEW u, u.size \in Nat, u.progress \in Nat,
         u.size <= PartSize, u.progress <= PartSize,
         NEW n \in Nat, n <= SectorSize, n = Remaining(u)
  PROVE  u.progress + n = u.size
<1>1. /\ PartSize \in Nat /\ Word \in Nat \ {0} /\ BlockSize \in Nat /\ SectorSize \in Nat
      /\ PartSize + BlockSize < Word /\ SectorSize <= BlockSize
  BY SizesAssumption, SectorsFitIntoBlocks
<1>2. CASE u.progress <= u.size
  BY <1>2, RemainingIsExact
<1>3. CASE u.progress > u.size
  <2> DEFINE d == u.size - u.progress
  <2>1. d + Word \in 0 .. Word - 1 /\ d + Word > SectorSize /\ d \in Int
    BY <1>1, <1>3
  <2> HIDE DEF d
  <2>2. d % Word = d + Word
    BY <1>1, <2>1
  <2> QED BY <1>1, <2>1, <2>2 DEF Remaining, d
<1> QED BY <1>2, <1>3

-----------------------------------------------------------------------------
(* A step after which no update runs.                                       *)
LEMMA NoUpdateKeepsFlashInv ==
  ASSUME upd'.size = 0, upd'.progress = 0,
         call'.pc \notin {"read", "flush", "erase", "program", "enable"}
  PROVE  FlashInv'
<1>1. SizesFit'
  BY SizesAssumption DEF SizesFit
<1>2. /\ CallsKnowTheirUpdate' /\ SectorBySector' /\ FlushesAreSectors'
      /\ RestOfBlockIsErased' /\ TargetIsErased' /\ FlashHoldsWhatWasFlushed'
  BY DEF CallsKnowTheirUpdate, SectorBySector, FlushesAreSectors, RestOfBlockIsErased,
     TargetIsErased, FlashHoldsWhatWasFlushed, Fed, At
<1> QED BY <1>1, <1>2 DEF FlashInv

LEMMA AbortKeepsFlashInv ==
  ASSUME Inv, NEW e \in Errors, upd' = Aborted(upd, e) \/ upd' = Reset(upd),
         call'.pc \notin {"read", "flush", "erase", "program", "enable"}
  PROVE  FlashInv'
BY AbortedType, ResetType, NoUpdateKeepsFlashInv DEF Inv, TypeOK

(* A step that writes nothing and leaves the object's numbers alone.        *)
LEMMA CalmStepKeepsFlashInv ==
  ASSUME FlashInv, UNCHANGED <<flash, image>>,
         upd'.size = upd.size, upd'.progress = upd.progress,
         upd'.bufferLen = upd.bufferLen, upd'.command = upd.command,
         upd'.partition = upd.partition,
         Fed' => Fed, call'.pc \notin {"program", "enable"},
         call'.pc = "read" => call'.op = "writeStream",
         call'.pc = "fill" => call'.left = 0 \/ Remaining(upd) # 0
                              \/ upd.progress % SectorSize = 0,
         upd.progress = upd.size => Remaining(upd) = 0,
         call'.pc \in {"flush", "erase"} => call'.op = "end" \/ UNCHANGED call
  PROVE  FlashInv'
<1>1. SizesFit' /\ CallsKnowTheirUpdate' /\ TargetIsErased' /\ FlashHoldsWhatWasFlushed'
  BY DEF FlashInv, SizesFit, CallsKnowTheirUpdate, TargetIsErased,
     FlashHoldsWhatWasFlushed, At
<1>2. SectorBySector'
  BY DEF FlashInv, SectorBySector, At
<1>3. FlushesAreSectors'
  BY DEF FlashInv, FlushesAreSectors
<1>4. RestOfBlockIsErased'
  BY DEF FlashInv, RestOfBlockIsErased, ErasedFrom, InHead, InTail, Start, Position, At,
     NextBlock
<1> QED BY <1>1, <1>2, <1>3, <1>4 DEF FlashInv

LEMMA NothingRemainsAtTheEnd ==
  ASSUME Inv, FlashInv, upd.progress = upd.size
  PROVE  Remaining(upd) = 0
BY ObjectType, RemainingIsExact DEF Inv, FlashInv, SizesFit

LEMMA InitEstablishesFlashInv == Init => FlashInv
<1> SUFFICES ASSUME Init PROVE FlashInv
  OBVIOUS
<1>1. SizesFit
  BY SizesAssumption DEF Init, FreshUpdate, SizesFit
<1>2. /\ CallsKnowTheirUpdate /\ SectorBySector /\ FlushesAreSectors
      /\ RestOfBlockIsErased /\ TargetIsErased /\ FlashHoldsWhatWasFlushed
  BY DEF Init, FreshUpdate, CallsKnowTheirUpdate, SectorBySector, FlushesAreSectors,
     RestOfBlockIsErased, TargetIsErased, FlashHoldsWhatWasFlushed, Fed, At
<1> QED BY <1>1, <1>2 DEF FlashInv

(* begin(): the first sector of a partition is erased whatever its alignment.*)
LEMMA BeginKeepsFlashInv ==
  ASSUME Inv, NEW sz \in Sizes, NEW cmd \in Commands, NEW v \in Images,
         BeginStarts(sz, cmd, v)
  PROVE  FlashInv'
<1>1. TypeOK /\ PartSize \in Nat /\ (sz = UNKNOWN \/ sz <= PartSize)
  BY SizesAssumption DEF BeginStarts, Verdict, Sizes, Inv
<1>2. /\ Begun(sz, cmd) \in Updates /\ Begun(sz, cmd).progress = 0
      /\ Begun(sz, cmd).bufferLen = 0
  <2>1. Reset(upd).bufferLen = 0 /\ Reset(upd) \in Updates
    BY <1>1, ResetType DEF TypeOK, Reset, Updates
  <2>2. Begun(sz, cmd).bufferLen = Reset(upd).bufferLen
    BY <2>1 DEF Begun, Updates
  <2> QED BY <1>1, <2>1, <2>2, BegunType
<1>3. upd' = [Begun(sz, cmd) EXCEPT
                !.size = IF sz = UNKNOWN THEN PartSize ELSE sz, !.command = cmd]
  BY DEF BeginStarts
<1>4. upd'.progress = 0 /\ upd'.size <= PartSize /\ upd'.bufferLen = 0
  BY <1>1, <1>2, <1>3 DEF Updates
<1>5. call'.pc = "idle"
  BY DEF BeginStarts, At
<1>6. Inv'
  BY BeginKeepsInv
<1>7. RestOfBlockIsErased'
  <2> SUFFICES ASSUME upd'.size > 0, Position' % BlockSize # 0
               PROVE  InHead(Start', upd'.progress)
    BY <1>5 DEF RestOfBlockIsErased, Fed, At
  <2>1. upd'.partition \in Partitions
    BY <1>6 DEF Inv, WritesElsewhere
  <2>2. Start' \in Nat /\ Position' = Start'
    BY <1>4, <2>1, SizesAssumption DEF Start, Position
  <2>3. Start' < NextBlock(Start')
    BY <2>2, NextBlockIsAhead
  <2> QED BY <1>4, <2>2, <2>3 DEF InHead
<1>8. SizesFit' /\ CallsKnowTheirUpdate' /\ FlushesAreSectors' /\ TargetIsErased'
  BY <1>1, <1>4, <1>5 DEF SizesFit, CallsKnowTheirUpdate, FlushesAreSectors, TargetIsErased, At
<1>9. SectorBySector'
  <2>1. 0 % SectorSize = 0
    BY SizesAssumption
  <2> QED BY <1>4, <2>1 DEF SectorBySector
<1>10. FlashHoldsWhatWasFlushed'
  BY <1>4 DEF FlashHoldsWhatWasFlushed
<1> QED BY <1>7, <1>8, <1>9, <1>10 DEF FlashInv

LEMMA RequestKeepsFlashInv ==
  ASSUME Inv, FlashInv, Request
  PROVE  FlashInv'
<1>0. TypeOK /\ call \in Calls /\ upd \in Updates
      /\ (upd.progress = upd.size => Remaining(upd) = 0)
  BY NothingRemainsAtTheEnd DEF Inv, TypeOK
<1>1. ASSUME NEW sz \in Sizes, NEW cmd \in Commands, BeginFails(sz, cmd)
      PROVE  FlashInv'
  <2>1. upd'.size = 0 /\ upd'.progress = 0 /\ call'.pc = "idle"
    BY <1>0, <1>1, BegunType DEF BeginFails, At
  <2> QED BY <2>1, NoUpdateKeepsFlashInv
<1>2. ASSUME NEW sz \in Sizes, NEW cmd \in Commands, NEW v \in Images,
             BeginStarts(sz, cmd, v)
      PROVE  FlashInv'
  BY <1>2, BeginKeepsFlashInv
<1>3. CASE setMD5 \/ clearError \/ rollBack
  <2>1. /\ UNCHANGED <<flash, image, call>> /\ call.pc = "idle"
        /\ upd'.size = upd.size /\ upd'.progress = upd.progress
        /\ upd'.bufferLen = upd.bufferLen /\ upd'.command = upd.command
        /\ upd'.partition = upd.partition
    BY <1>0, <1>3 DEF setMD5, clearError, rollBack, At, Updates
  <2>2. Fed' => Fed
    BY <2>1 DEF Fed
  <2> QED BY <1>0, <2>1, <2>2, CalmStepKeepsFlashInv
<1>4. CASE abort
  BY <1>4, AbortKeepsFlashInv DEF abort, At, Errors
<1>5. ASSUME NEW len \in Lengths, WriteRefused(len)
      PROVE  FlashInv'
  BY <1>5, AbortKeepsFlashInv DEF WriteRefused, CanFeed, At, Errors
<1>6. ASSUME NEW len \in Lengths, WriteStarts(len)
      PROVE  FlashInv'
  <2>1. /\ UNCHANGED <<flash, image, upd>> /\ call.pc = "idle" /\ call'.pc = "fill"
        /\ call'.left = len /\ len <= Remaining(upd) /\ len \in Nat
    BY <1>0, <1>6, SizesAssumption DEF WriteStarts, CanFeed, At, Calls
  <2>2. call'.left = 0 \/ Remaining(upd) # 0
    BY <2>1
  <2>3. Fed' => Fed
    BY <2>1 DEF Fed
  <2> QED BY <1>0, <2>1, <2>2, <2>3, CalmStepKeepsFlashInv
<1>7. ASSUME NEW b \in BOOLEAN, StreamStarts(b)
      PROVE  FlashInv'
  <2>1. /\ UNCHANGED <<flash, image, upd>> /\ call.pc = "idle"
        /\ call'.pc \in {"idle", "read"} /\ call'.op = "writeStream"
    BY <1>0, <1>7 DEF StreamStarts, CanFeed, At, Calls
  <2>2. Fed' => Fed
    BY <2>1 DEF Fed
  <2> QED BY <1>0, <2>1, <2>2, CalmStepKeepsFlashInv
<1>8. ASSUME NEW b \in BOOLEAN, StreamHasBadHeader(b)
      PROVE  FlashInv'
  BY <1>8, AbortKeepsFlashInv DEF StreamHasBadHeader, CanFeed, At, Errors
<1>9. ASSUME NEW b \in BOOLEAN, EndStarts(b)
      PROVE  FlashInv'
  <2>1. /\ UNCHANGED <<flash, image, upd>> /\ call.pc = "idle"
        /\ call'.pc \in {"flush", "verify"} /\ call'.op = "end"
    BY <1>0, <1>9 DEF EndStarts, CanFeed, At, Calls
  <2>2. Fed' => Fed
    BY <2>1 DEF Fed
  <2> QED BY <1>0, <2>1, <2>2, CalmStepKeepsFlashInv
<1>10. CASE EndTooEarly
  BY <1>0, <1>10, AbortKeepsFlashInv DEF EndTooEarly, EndReturns, Calls, Errors
<1>11. CASE PowerFails
  <2>1. upd'.size = 0 /\ upd'.progress = 0 /\ call'.pc = "off"
    BY <1>0, <1>11 DEF PowerFails, FreshUpdate, Calls
  <2> QED BY <2>1, NoUpdateKeepsFlashInv
<1> QED BY <1>1, <1>2, <1>3, <1>4, <1>5, <1>6, <1>7, <1>8, <1>9, <1>10, <1>11 DEF Request

-----------------------------------------------------------------------------
(* The buffer fills: a flush is due for a full sector or for the last piece. *)
LEMMA FillKeepsFlashInv ==
  ASSUME SectorsFit, Inv, FlashInv, FillSector \/ FillRest \/ StreamRead
  PROVE  FlashInv'
<1>0. /\ TypeOK /\ upd \in Updates /\ call \in Calls /\ upd.size > 0
      /\ SectorSize \in Nat \ {0}
  BY SizesAssumption DEF Inv, TypeOK, FeedingMeansRunning, Feeding, FillSector, FillRest,
     StreamRead, At
<1>1. /\ upd.size \in Nat /\ upd.progress \in Nat /\ upd.bufferLen \in Nat
      /\ upd.bufferLen <= SectorSize /\ call.left \in Nat
      /\ upd.size <= PartSize /\ upd.progress <= PartSize
  BY <1>0, ObjectType DEF FlashInv, SizesFit
<1>2. Fed /\ (upd.progress = upd.size => Remaining(upd) = 0)
  BY <1>0, NothingRemainsAtTheEnd DEF Fed, FillSector, FillRest, StreamRead, At
<1>3. ASSUME NEW n \in Nat, n <= SectorSize, upd' = [upd EXCEPT !.bufferLen = n],
             UNCHANGED <<flash, image>>,
             call'.pc \in {"idle", "read", "flush"},
             call'.pc = "read" => call'.op = "writeStream",
             call'.pc = "flush" => \/ n = SectorSize
                                   \/ /\ n = Remaining(upd)
                                      /\ call'.op = "write" => call'.left = 0,
             upd.progress % SectorSize # 0 => n = 0
      PROVE  FlashInv'
  <2>1. /\ upd'.size = upd.size /\ upd'.progress = upd.progress /\ upd'.bufferLen = n
        /\ upd'.command = upd.command /\ upd'.partition = upd.partition
    BY <1>0, <1>3 DEF Updates
  <2>2. SizesFit' /\ CallsKnowTheirUpdate' /\ TargetIsErased' /\ FlashHoldsWhatWasFlushed'
    BY <1>3, <2>1 DEF FlashInv, SizesFit, CallsKnowTheirUpdate, TargetIsErased,
       FlashHoldsWhatWasFlushed, At
  <2>3. SectorBySector'
    BY <1>2, <1>3, <2>1 DEF FlashInv, SectorBySector, At
  <2>4. FlushesAreSectors'
    <3>1. n = Remaining(upd) => upd.progress + n = upd.size
      BY <1>1, <1>3, WhatRemainsIsTheLastPiece DEF SectorsFit
    <3> QED BY <1>3, <2>1, <3>1 DEF FlushesAreSectors
  <2>5. RestOfBlockIsErased'
    BY <1>2, <1>3, <2>1 DEF FlashInv, RestOfBlockIsErased, ErasedFrom, InHead, InTail,
       Start, Position, NextBlock, At
  <2> QED BY <2>2, <2>3, <2>4, <2>5 DEF FlashInv
<1>4. CASE FillSector
  <2>1. upd' = [upd EXCEPT !.bufferLen = SectorSize] /\ call'.pc = "flush"
        /\ UNCHANGED <<flash, image>> /\ upd.bufferLen + call.left > SectorSize
        /\ call.pc = "fill"
    BY <1>0, <1>4 DEF FillSector, At, Calls
  <2>2. upd.progress % SectorSize = 0
    BY <1>0, <1>1, <1>2, <2>1 DEF FlashInv, SectorBySector, At
  <2> QED BY <1>0, <1>3, <2>1, <2>2
<1>5. CASE FillRest
  <2> DEFINE n == upd.bufferLen + call.left
  <2>1. upd' = [upd EXCEPT !.bufferLen = n] /\ call'.pc \in {"idle", "flush"}
        /\ UNCHANGED <<flash, image>> /\ n <= SectorSize /\ call'.left = 0
        /\ call.pc = "fill" /\ (call'.pc = "flush" => upd'.bufferLen = Remaining(upd))
    BY <1>0, <1>5 DEF FillRest, At, Calls
  <2>2. upd'.bufferLen = n
    BY <1>0, <2>1 DEF Updates
  <2>3. upd.progress % SectorSize # 0 => n = 0
    BY <1>1, <1>2, <2>1 DEF FlashInv, SectorBySector, At
  <2>4. n \in Nat
    BY <1>1
  <2> HIDE DEF n
  <2> QED BY <1>3, <2>1, <2>2, <2>3, <2>4
<1>6. CASE StreamRead
  <2>1. PICK k \in 1 .. BytesToRead : upd' = [upd EXCEPT !.bufferLen = @ + k]
    BY <1>6 DEF StreamRead
  <2> DEFINE n == upd.bufferLen + k
  <2>2. Remaining(upd) \in Int
    BY <1>1, SizesAssumption DEF Remaining
  <2>3. k \in Nat /\ k <= SectorSize - upd.bufferLen /\ k <= Remaining(upd) /\ k > 0
    BY <1>0, <1>1, <2>2 DEF BytesToRead
  <2>4. n \in Nat /\ n <= SectorSize
    BY <1>0, <1>1, <2>3
  <2>5. upd.progress % SectorSize = 0
    <3>1. upd.progress # upd.size
      BY <1>2, <2>2, <2>3
    <3> QED BY <1>2, <3>1 DEF FlashInv, SectorBySector
  <2>6. upd'.bufferLen = n
    BY <1>0, <2>1 DEF Updates
  <2>7. /\ call'.pc \in {"read", "flush"} /\ call'.op = call.op /\ call.pc = "read"
        /\ call'.pc = "flush" => upd'.bufferLen \in {Remaining(upd), SectorSize}
        /\ UNCHANGED <<flash, image>>
    BY <1>0, <1>6 DEF StreamRead, Goto, At, Calls
  <2>8. call'.op = "writeStream"
    BY <2>7 DEF FlashInv, CallsKnowTheirUpdate, At
  <2>9. upd' = [upd EXCEPT !.bufferLen = n]
    BY <2>1
  <2> HIDE DEF n
  <2> QED BY <1>3, <2>4, <2>5, <2>6, <2>7, <2>8, <2>9
<1> QED BY <1>4, <1>5, <1>6

(* No flush needs an erase that it does not make.                           *)
LEMMA WithoutEraseTheBlockIsErased ==
  ASSUME Inv, FlashInv, upd.size > 0, ~NeedsErase
  PROVE  /\ ~InHead(Start, upd.progress) /\ ~InTail(Start, upd.progress, upd.size)
         /\ Position % BlockSize # 0
<1>1. ~HeadSector /\ ~TailSector /\ ~BlockErase
  BY DEF NeedsErase
<1>2. ~InHead(Start, upd.progress) /\ ~InTail(Start, upd.progress, upd.size)
  BY <1>1, SectorsAreInHeadOrTail
<1>3. ASSUME Position % BlockSize = 0 PROVE FALSE
  <2>1. Start \in Nat /\ upd.progress \in Nat /\ upd.size \in Nat /\ BlockSize \in Nat
    BY PlaceTypes, SizesAssumption
  <2>2. upd.size >= upd.progress + BlockSize
    BY <1>2, <1>3, <2>1, BlocksBeforeTheTailAreWhole DEF Position
  <2>3. Remaining(upd) = upd.size - upd.progress
    BY <2>1, <2>2, RemainingIsExact DEF FlashInv, SizesFit
  <2>4. BlockErase
    BY <1>3, <2>1, <2>2, <2>3 DEF BlockErase, Position, Start
  <2> QED BY <1>1, <2>4
<1> QED BY <1>2, <1>3

(* A sector that starts on a sector boundary of a block ends in the block.  *)
LEMMA SectorIsInBlock ==
  ASSUME SectorsFit, Inv, FlashInv, upd.size > 0, Fed,
         ~InTail(Start, upd.progress, upd.size)
  PROVE  /\ upd.progress % SectorSize = 0
         /\ upd.progress + SectorSize <= NextBlock(Position) - Start
         /\ NextBlock(Position) \in Nat
<1>1. /\ Start \in Nat /\ upd.progress \in Nat /\ upd.size \in Nat /\ Position \in Nat
      /\ upd.partition \in Partitions
  BY PlaceTypes
<1>2. upd.progress # upd.size
  BY <1>1, TailOnceAllIsWritten
<1>3. upd.progress % SectorSize = 0
  BY <1>2 DEF FlashInv, SectorBySector
<1>4. Start % SectorSize = 0 /\ BlockSize % SectorSize = 0
  BY <1>1 DEF SectorsFit, Start
<1>5. Start + upd.progress + SectorSize <= NextBlock(Position)
  BY <1>1, <1>3, <1>4, OneSectorOn DEF Position
<1>6. NextBlock(Position) \in Nat /\ SectorSize \in Nat
  BY <1>1, NextBlockIsAhead, SizesAssumption
<1> QED BY <1>1, <1>3, <1>5, <1>6

-----------------------------------------------------------------------------
(* The flush.  It starts, and erases nothing where a block was erased.      *)
LEMMA FlushStartsKeepsFlashInv ==
  ASSUME SectorsFit, Inv, FlashInv, FlushStarts
  PROVE  FlashInv'
<1>0. /\ TypeOK /\ upd \in Updates /\ call \in Calls /\ upd.size > 0 /\ At("flush")
      /\ UNCHANGED <<flash, image>>
  BY DEF Inv, TypeOK, FeedingMeansRunning, Feeding, FlushStarts, At
<1>1. /\ upd'.size = upd.size /\ upd'.progress = upd.progress
      /\ upd'.bufferLen = upd.bufferLen /\ upd'.command = upd.command
      /\ upd'.partition = upd.partition
  BY <1>0 DEF FlushStarts, Updates
<1>2. /\ call'.pc = (IF NeedsErase THEN "erase" ELSE "program")
      /\ call'.op = call.op /\ call'.left = call.left
  BY <1>0 DEF FlushStarts, Goto, Calls
<1>3. Fed
  BY <1>0 DEF Fed, At
<1>4. SizesFit' /\ CallsKnowTheirUpdate' /\ FlashHoldsWhatWasFlushed'
  BY <1>0, <1>1, <1>2 DEF FlashInv, SizesFit, CallsKnowTheirUpdate,
     FlashHoldsWhatWasFlushed, At
<1>5. SectorBySector' /\ FlushesAreSectors'
  BY <1>0, <1>1, <1>2, <1>3 DEF FlashInv, SectorBySector, FlushesAreSectors, At
<1>6. CASE NeedsErase
  <2>1. TargetIsErased' /\ RestOfBlockIsErased'
    BY <1>0, <1>1, <1>2, <1>3, <1>6 DEF FlashInv, TargetIsErased, RestOfBlockIsErased,
       ErasedFrom, InHead, InTail, Start, Position, NextBlock, At
  <2> QED BY <1>4, <1>5, <2>1 DEF FlashInv
<1>7. CASE ~NeedsErase
  <2>1. /\ ~InHead(Start, upd.progress) /\ ~InTail(Start, upd.progress, upd.size)
        /\ Position % BlockSize # 0
    BY <1>0, <1>7, WithoutEraseTheBlockIsErased
  <2>2. ErasedFrom(upd.partition, upd.progress, NextBlock(Position) - Start)
    BY <1>3, <2>1 DEF FlashInv, RestOfBlockIsErased
  <2>3. RestOfBlockIsErased'
    BY <1>0, <1>1, <2>2 DEF RestOfBlockIsErased, ErasedFrom, Start, Position, NextBlock
  <2>4. upd.progress + upd.bufferLen <= NextBlock(Position) - Start
    BY <1>0, <1>3, <2>1, SectorIsInBlock, PlaceTypes, SizesAreNatural
  <2>5. ErasedFrom(upd.partition, upd.progress, upd.progress + upd.bufferLen)
    <3>1. /\ NextBlock(Position) - Start \in Int /\ upd.progress + upd.bufferLen \in Int
          /\ Units \subseteq Int
      BY <1>0, <1>3, <2>1, SectorIsInBlock, PlaceTypes DEF Units
    <3> DEFINE n == NextBlock(Position) - Start
               m == upd.progress + upd.bufferLen
    <3>2. m <= n /\ m \in Int /\ n \in Int /\ ErasedFrom(upd.partition, upd.progress, n)
      BY <2>2, <2>4, <3>1
    <3> HIDE DEF m, n
    <3>3. ErasedFrom(upd.partition, upd.progress, m)
      BY <3>1, <3>2 DEF ErasedFrom
    <3> QED BY <3>3 DEF m
  <2>6. TargetIsErased'
    BY <1>0, <1>1, <2>5 DEF TargetIsErased, ErasedFrom
  <2> QED BY <1>4, <1>5, <2>3, <2>6 DEF FlashInv
<1> QED BY <1>6, <1>7

(* An erase begins where the next flush will write, never before.           *)
LEMMA EraseKeepsFlashInv ==
  ASSUME SectorsFit, Inv, FlashInv, EraseDone
  PROVE  FlashInv'
<1>0. /\ TypeOK /\ upd \in Updates /\ call \in Calls /\ upd.size > 0 /\ At("erase")
      /\ UNCHANGED <<upd, image>> /\ upd.partition \in Partitions
      /\ flash \in [Partitions -> [Units -> Cells]]
      /\ flash' = EraseRange(flash, upd.partition, upd.progress, EraseEnd)
  BY DEF Inv, TypeOK, FeedingMeansRunning, Feeding, WritesElsewhere, EraseDone, At
<1>1. call'.pc = "program" /\ call'.op = call.op /\ call'.left = call.left
  BY <1>0 DEF EraseDone, Goto, Calls
<1>2. Fed
  BY <1>0 DEF Fed, At
<1>3. /\ Start \in Nat /\ Position \in Nat /\ upd.size \in Nat /\ upd.progress \in Nat
      /\ upd.bufferLen \in Nat /\ upd.bufferLen <= SectorSize /\ SectorSize \in Nat
      /\ BlockSize \in Nat /\ SectorSize <= BlockSize
  BY <1>0, PlaceTypes, SizesAssumption, SectorsFitIntoBlocks DEF SectorsFit
<1>4. /\ EraseEnd \in Nat /\ upd.progress + upd.bufferLen <= EraseEnd
      /\ BlockErase => EraseEnd = upd.progress + BlockSize
  BY <1>3 DEF EraseEnd
<1>5. \A i \in Units : flash'[upd.partition][i] =
        IF upd.progress <= i /\ i < EraseEnd THEN Erased ELSE flash[upd.partition][i]
  <2>1. Units \subseteq Int
    BY DEF Units
  <2>2. \A i \in Units : i \in upd.progress .. EraseEnd - 1
                           <=> upd.progress <= i /\ i < EraseEnd
    BY <1>3, <1>4, <2>1
  <2> QED BY <1>0, <2>2 DEF EraseRange
<1>6. SizesFit' /\ CallsKnowTheirUpdate' /\ SectorBySector' /\ FlushesAreSectors'
  BY <1>0, <1>1, <1>2 DEF FlashInv, SizesFit, CallsKnowTheirUpdate, SectorBySector,
     FlushesAreSectors, At
<1>7. FlashHoldsWhatWasFlushed'
  <2> SUFFICES ASSUME NEW i \in 0 .. upd.progress - 1
               PROVE  \/ upd.command = "FLASH" /\ i = 0
                      \/ flash'[upd.partition][i] = Cell(image, i)
    BY <1>0 DEF FlashHoldsWhatWasFlushed, Cell
  <2>1. i \in Units /\ ~(upd.progress <= i)
    BY <1>3, SizesAssumption DEF FlashInv, SizesFit, Units
  <2> QED BY <1>0, <1>5, <2>1 DEF FlashInv, FlashHoldsWhatWasFlushed
<1>8. TargetIsErased'
  <2>1. \A i \in Units : i < upd.progress + upd.bufferLen => i < EraseEnd
    BY <1>3, <1>4 DEF Units
  <2> QED BY <1>0, <1>5, <2>1 DEF TargetIsErased, ErasedFrom
<1>9. RestOfBlockIsErased'
  <2> SUFFICES ASSUME ~InHead(Start, upd.progress),
                      ~InTail(Start, upd.progress, upd.size),
                      NEW i \in Units, upd.progress <= i, i < NextBlock(Position) - Start
               PROVE  flash'[upd.partition][i] = Erased
    BY <1>0 DEF RestOfBlockIsErased, ErasedFrom, InHead, InTail, Start, Position, NextBlock
  <2>1. CASE Position % BlockSize # 0
    <3>1. flash[upd.partition][i] = Erased
      BY <1>2, <2>1 DEF FlashInv, RestOfBlockIsErased, ErasedFrom
    <3> QED BY <1>5, <3>1
  <2>2. CASE Position % BlockSize = 0
    <3>1. upd.size >= upd.progress + BlockSize
      BY <1>3, <2>2, BlocksBeforeTheTailAreWhole DEF Position
    <3>2. Remaining(upd) = upd.size - upd.progress
      BY <1>3, <3>1, RemainingIsExact DEF FlashInv, SizesFit
    <3>3. BlockErase
      BY <1>3, <2>2, <3>1, <3>2 DEF BlockErase, Position, Start
    <3>4. NextBlock(Position) = Position + BlockSize
      BY <1>3, <2>2, NextBlockIsAhead
    <3>5. i < EraseEnd
      BY <1>3, <1>4, <3>3, <3>4 DEF Position, Units
    <3> QED BY <1>5, <3>5
  <2> QED BY <2>1, <2>2
<1> QED BY <1>6, <1>7, <1>8, <1>9 DEF FlashInv

(* What is programmed lands on erased flash, and stops where it should.     *)
LEMMA ProgramReachesFlash ==
  ASSUME Inv, FlashInv, ProgramDone
  PROVE  /\ ProgramEnd \in Nat /\ ProgramEnd <= PartSize
         /\ \A i \in Units : (i < upd.progress \/ ProgramEnd <= i)
              => flash'[upd.partition][i] = flash[upd.partition][i]
         /\ \A i \in Units : (ProgramStart <= i /\ i < ProgramEnd)
              => flash'[upd.partition][i] = Cell(image, i)
<1>0. /\ TypeOK /\ upd.size > 0 /\ At("program") /\ upd.partition \in Partitions
      /\ flash \in [Partitions -> [Units -> Cells]]
      /\ flash' = ProgramRange(flash, upd.partition, ProgramStart, ProgramEnd)
  BY DEF Inv, TypeOK, FeedingMeansRunning, Feeding, WritesElsewhere, ProgramDone, At
<1>1. /\ upd.progress \in Nat /\ upd.bufferLen \in Nat /\ ProgramEnd \in Nat
      /\ ProgramStart \in Nat /\ upd.progress <= ProgramStart
  BY <1>0, ObjectType DEF ProgramEnd, ProgramStart
<1>2. ProgramEnd <= PartSize
  <2>1. CASE HasData
    BY <2>1 DEF ProgramDone
  <2>2. CASE ~HasData
    <3>1. /\ upd.bufferLen # 0 /\ ProgramStart = upd.progress
          /\ \A i \in ProgramStart .. ProgramEnd - 1 : i \in BlankUnits
      BY <1>1, <2>2 DEF HasData, ProgramStart
    <3>2. ProgramEnd - 1 \in ProgramStart .. ProgramEnd - 1
      BY <1>1, <3>1 DEF ProgramEnd
    <3>3. ProgramEnd - 1 \in 1 .. ImageSize - 2
      BY <3>1, <3>2, ImagesAssumption
    <3> QED BY <1>1, <3>3, SizesAssumption
  <2> QED BY <2>1, <2>2
<1>3. \A i \in Units : flash'[upd.partition][i] =
        IF ProgramStart <= i /\ i < ProgramEnd
        THEN Programmed(flash[upd.partition][i], Cell(image, i))
        ELSE flash[upd.partition][i]
  <2>1. Units \subseteq Int
    BY DEF Units
  <2>2. \A i \in Units : i \in ProgramStart .. ProgramEnd - 1
                           <=> ProgramStart <= i /\ i < ProgramEnd
    BY <1>1, <2>1
  <2> QED BY <1>0, <2>2 DEF ProgramRange
<1>4. ASSUME NEW i \in Units, i < upd.progress \/ ProgramEnd <= i
      PROVE  flash'[upd.partition][i] = flash[upd.partition][i]
  BY <1>1, <1>3, <1>4 DEF Units
<1>5. ASSUME NEW i \in Units, ProgramStart <= i, i < ProgramEnd
      PROVE  flash'[upd.partition][i] = Cell(image, i)
  <2>1. flash[upd.partition][i] = Erased
    <3>1. upd.progress <= i /\ i < upd.progress + upd.bufferLen
      BY <1>1, <1>5 DEF ProgramEnd, Units
    <3> QED BY <1>0, <3>1 DEF FlashInv, TargetIsErased, ErasedFrom
  <2>2. Programmed(flash[upd.partition][i], Cell(image, i)) = Cell(image, i)
    BY <2>1 DEF Programmed
  <2> QED BY <1>3, <1>5, <2>2
<1> QED BY <1>1, <1>2, <1>4, <1>5

LEMMA ProgramKeepsFlashInv ==
  ASSUME SectorsFit, Inv, FlashInv, ProgramDone
  PROVE  FlashInv'
<1>0. /\ TypeOK /\ upd \in Updates /\ call \in Calls /\ upd.size > 0 /\ At("program")
      /\ UNCHANGED image /\ upd.partition \in Partitions
  BY DEF Inv, TypeOK, FeedingMeansRunning, Feeding, WritesElsewhere, ProgramDone, At
<1>1. /\ Start \in Nat /\ Position \in Nat /\ upd.size \in Nat /\ upd.progress \in Nat
      /\ upd.bufferLen \in Nat /\ upd.bufferLen <= SectorSize /\ SectorSize \in Nat \ {0}
      /\ BlockSize % SectorSize = 0 /\ Start % SectorSize = 0
      /\ ProgramEnd \in Nat /\ ProgramEnd <= PartSize
      /\ ProgramEnd = upd.progress + upd.bufferLen
  BY <1>0, PlaceTypes, SizesAssumption, ProgramReachesFlash
     DEF SectorsFit, Start, ProgramEnd
<1>2. /\ upd'.size = upd.size /\ upd'.progress = ProgramEnd /\ upd'.bufferLen = 0
      /\ upd'.command = upd.command /\ upd'.partition = upd.partition
  <2>1. upd' = [upd EXCEPT !.progress = ProgramEnd, !.bufferLen = 0,
                           !.md5Len = upd.md5Len + upd.bufferLen]
    BY DEF ProgramDone
  <2> QED BY <1>0, <2>1 DEF Updates
<1>3. /\ call'.op = call.op /\ call'.left = call.left /\ call'.pc = AfterFlush
  BY <1>0 DEF ProgramDone, Goto, Calls
<1>4. /\ call'.pc \in {"verify", "fill", "idle", "read"}
      /\ call'.pc = "read" => call.op = "writeStream"
      /\ call'.pc = "fill" => call.op = "write" /\ call.left > 0
      /\ call.op = "end" => call'.pc = "verify"
  BY <1>0, <1>3 DEF AfterFlush, Calls
<1>5. SizesFit' /\ CallsKnowTheirUpdate' /\ FlushesAreSectors' /\ TargetIsErased'
  BY <1>1, <1>2, <1>3, <1>4 DEF FlashInv, SizesFit, CallsKnowTheirUpdate,
     FlushesAreSectors, TargetIsErased, At
<1>6. Fed
  BY <1>0 DEF Fed, At
(* A full sector from a sector boundary, or the last piece.                 *)
<1>7. ASSUME Fed'
      PROVE  \/ upd.bufferLen = SectorSize /\ upd.progress % SectorSize = 0
             \/ ProgramEnd = upd.size /\ (call.op = "write" => call.left = 0)
  <2>1. call.op # "end"
    BY <1>4, <1>7 DEF Fed
  <2>2. \/ upd.bufferLen = SectorSize
        \/ ProgramEnd = upd.size /\ (call.op = "write" => call.left = 0)
    BY <1>0, <1>1, <2>1 DEF FlashInv, FlushesAreSectors, At
  <2>3. upd.progress % SectorSize = 0 \/ upd.bufferLen = 0
    BY <1>6 DEF FlashInv, SectorBySector
  <2> QED BY <1>1, <2>2, <2>3
<1>8. SectorBySector'
  <2> SUFFICES ASSUME Fed'
               PROVE  \/ ProgramEnd % SectorSize = 0
                      \/ ProgramEnd = upd.size /\ (call'.pc = "fill" => call.left = 0)
    BY <1>2, <1>3 DEF SectorBySector, At
  <2>1. CASE upd.bufferLen = SectorSize /\ upd.progress % SectorSize = 0
    <3>1. SectorSize % SectorSize = 0
      BY <1>1
    <3> QED BY <1>1, <2>1, <3>1, SumOfMultiples
  <2>2. CASE ProgramEnd = upd.size /\ (call.op = "write" => call.left = 0)
    BY <1>4, <2>2
  <2> QED BY <1>7, <2>1, <2>2
<1>9. FlashHoldsWhatWasFlushed'
  <2> SUFFICES ASSUME NEW i \in 0 .. ProgramEnd - 1
               PROVE  \/ upd.command = "FLASH" /\ i = 0
                      \/ flash'[upd.partition][i] = Cell(image, i)
    BY <1>0, <1>2 DEF FlashHoldsWhatWasFlushed, Cell
  <2>1. i \in Units /\ i \in Nat /\ i < ProgramEnd
    BY <1>1, SizesAssumption DEF Units
  <2>2. CASE i < upd.progress
    <3>1. flash'[upd.partition][i] = flash[upd.partition][i]
      BY <2>1, <2>2, ProgramReachesFlash
    <3>2. i \in 0 .. upd.progress - 1
      BY <1>1, <2>1, <2>2
    <3> QED BY <1>0, <3>1, <3>2 DEF FlashInv, FlashHoldsWhatWasFlushed
  <2>3. CASE ProgramStart <= i
    BY <2>1, <2>3, ProgramReachesFlash
  <2>4. CASE upd.progress <= i /\ ~(ProgramStart <= i)
    BY <1>1, <2>1, <2>4 DEF ProgramStart, IsFirst
  <2> QED BY <1>1, <2>1, <2>2, <2>3, <2>4
<1>10. RestOfBlockIsErased'
  <2> SUFFICES ASSUME Fed', ~InHead(Start, ProgramEnd), ~InTail(Start, ProgramEnd, upd.size),
                      (Start + ProgramEnd) % BlockSize # 0
               PROVE  \A i \in Units :
                        (ProgramEnd <= i /\ i < NextBlock(Start + ProgramEnd) - Start)
                          => flash'[upd.partition][i] = Erased
    <3>1. Start' = Start /\ Position' = Start + ProgramEnd
      BY <1>2 DEF Start, Position
    <3> QED BY <1>2, <1>4, <3>1 DEF RestOfBlockIsErased, ErasedFrom, InHead, InTail,
              NextBlock, At
  <2>1. ProgramEnd # upd.size
    BY <1>1, TailOnceAllIsWritten
  <2>2. /\ upd.bufferLen = SectorSize /\ upd.progress % SectorSize = 0
        /\ ProgramEnd = upd.progress + SectorSize
        /\ Start + ProgramEnd = Start + upd.progress + SectorSize
    BY <1>1, <1>7, <2>1
  <2>3. /\ NextBlock(Start + ProgramEnd) = NextBlock(Start + upd.progress)
        /\ ~InHead(Start, upd.progress)
    BY <1>1, <2>2, OneSectorOn
  <2>4. ~InTail(Start, upd.progress, upd.size)
    <3> DEFINE f == ((Start + upd.size) \div BlockSize) * BlockSize
    <3>1. f \in Nat /\ ~(Start + ProgramEnd >= f)
      BY <1>1, SizesAssumption, FloorOfDivision DEF InTail
    <3> HIDE DEF f
    <3>2. ~(Start + upd.progress >= f)
      BY <1>1, <3>1
    <3> QED BY <3>2 DEF InTail, f
  <2>5. ErasedFrom(upd.partition, upd.progress, NextBlock(Position) - Start)
    BY <1>0, <1>6, <2>3, <2>4 DEF FlashInv, RestOfBlockIsErased
  <2> DEFINE n == NextBlock(Position) - Start
  <2>6. NextBlock(Start + ProgramEnd) - Start = n
    BY <2>3 DEF Position
  <2> HIDE DEF n
  <2>7. ASSUME NEW i \in Units, ProgramEnd <= i, i < n
        PROVE  flash'[upd.partition][i] = Erased
    <3>1. upd.progress <= i
      BY <1>1, <2>7 DEF Units
    <3>2. flash[upd.partition][i] = Erased
      BY <2>5, <2>7, <3>1 DEF ErasedFrom, n
    <3> QED BY <2>7, <3>2, ProgramReachesFlash
  <2> QED BY <2>6, <2>7
<1> QED BY <1>5, <1>8, <1>9, <1>10 DEF FlashInv

LEMMA NoMemoryKeepsFlashInv ==
  ASSUME Inv, FlashInv, FlushHasNoMemory
  PROVE  FlashInv'
<1>1. TypeOK /\ call \in Calls /\ UNCHANGED <<flash, image, upd>> /\ At("flush")
  BY DEF Inv, TypeOK, FlushHasNoMemory
<1>2. call'.pc \in {"idle", "verify"}
  BY <1>1, FlushFailedType DEF FlushHasNoMemory
<1>3. Fed' => Fed
  BY <1>1 DEF Fed, At
<1> QED BY <1>1, <1>2, <1>3, NothingRemainsAtTheEnd, CalmStepKeepsFlashInv

LEMMA FailuresKeepFlashInv ==
  ASSUME Inv, FlashInv,
         \/ StreamTimesOut \/ FlushBadHeader \/ EraseFails \/ ProgramFails
         \/ VerifyFails \/ EnableFails \/ ActivateFails
  PROVE  FlashInv'
<1>1. call'.pc \in {"idle", "verify"}
  <2>1. FlushFailed \/ Returns \/ EndReturns(FALSE)
    BY DEF StreamTimesOut, FlushBadHeader, EraseFails, ProgramFails, VerifyFails,
       EnableFails, ActivateFails
  <2> QED BY <2>1, FlushFailedType DEF Inv
<1>2. \E e \in Errors : upd' = Aborted(upd, e)
  BY DEF StreamTimesOut, FlushBadHeader, EraseFails, ProgramFails, VerifyFails,
     EnableFails, ActivateFails, Errors
<1> QED BY <1>1, <1>2, AbortKeepsFlashInv

LEMMA FinishingKeepsFlashInv ==
  ASSUME Inv, FlashInv, VerifyDone \/ Enable \/ Activate \/ Boot
  PROVE  FlashInv'
<1>0. TypeOK /\ call \in Calls /\ upd \in Updates
  BY DEF Inv, TypeOK
<1>1. CASE VerifyDone /\ upd.command = "FLASH"
  <2>1. /\ upd'.size = upd.progress /\ upd'.progress = upd.progress
        /\ upd'.partition = upd.partition /\ upd'.command = upd.command
        /\ UNCHANGED <<flash, image>> /\ call'.pc = "enable"
    BY <1>0, <1>1 DEF VerifyDone, Goto, Updates, Calls
  <2>2. upd.progress > 0 => upd.size > 0
    BY <1>0, ObjectType DEF Inv, FeedingMeansRunning
  <2>3. FlashHoldsWhatWasFlushed'
    BY <2>1, <2>2 DEF FlashInv, FlashHoldsWhatWasFlushed
  <2>4. SizesFit' /\ CallsKnowTheirUpdate' /\ TargetIsErased'
    BY <1>1, <2>1 DEF FlashInv, SizesFit, CallsKnowTheirUpdate, TargetIsErased, At
  <2>5. SectorBySector' /\ FlushesAreSectors' /\ RestOfBlockIsErased'
    BY <2>1 DEF SectorBySector, FlushesAreSectors, RestOfBlockIsErased, Fed
  <2> QED BY <2>3, <2>4, <2>5 DEF FlashInv
<1>2. CASE VerifyDone /\ upd.command # "FLASH"
  BY <1>0, <1>2, EndReturnsType, AbortKeepsFlashInv DEF VerifyDone, Errors
<1>3. CASE Enable
  <2>1. /\ UNCHANGED <<upd, image>> /\ flash' = WriteHeader /\ call'.pc = "activate"
        /\ upd.command = "FLASH" /\ upd.partition \in Partitions
        /\ flash \in [Partitions -> [Units -> Cells]]
    BY <1>0, <1>3 DEF Enable, Goto, FlashInv, CallsKnowTheirUpdate, At, Calls, Inv, TypeOK,
       WritesElsewhere
  <2>2. \A i \in Units : i # 0 => flash'[upd.partition][i] = flash[upd.partition][i]
    BY <2>1 DEF WriteHeader, ProgramRange, Units
  <2>3. FlashHoldsWhatWasFlushed'
    <3> SUFFICES ASSUME upd.size > 0, NEW i \in 0 .. upd.progress - 1, i # 0
                 PROVE  flash'[upd.partition][i] = Cell(image, i)
      BY <2>1 DEF FlashHoldsWhatWasFlushed, Cell
    <3>1. i \in Units
      BY <1>0, ObjectType, SizesAssumption DEF FlashInv, SizesFit, Units
    <3> QED BY <2>2, <3>1 DEF FlashInv, FlashHoldsWhatWasFlushed
  <2>4. SizesFit' /\ CallsKnowTheirUpdate' /\ TargetIsErased'
    BY <2>1 DEF FlashInv, SizesFit, CallsKnowTheirUpdate, TargetIsErased, At
  <2>5. SectorBySector' /\ FlushesAreSectors' /\ RestOfBlockIsErased'
    BY <2>1 DEF SectorBySector, FlushesAreSectors, RestOfBlockIsErased, Fed
  <2> QED BY <2>3, <2>4, <2>5 DEF FlashInv
<1>4. CASE Activate
  BY <1>0, <1>4, EndReturnsType, AbortKeepsFlashInv DEF Activate, Errors
<1>5. CASE Boot
  <2>1. upd.size = 0 /\ upd.progress = 0 /\ upd' = upd /\ call'.pc = "idle"
    BY <1>0, <1>5 DEF Boot, At, Goto, Calls, Inv, FeedingMeansRunning
  <2> QED BY <2>1, NoUpdateKeepsFlashInv
<1> QED BY <1>1, <1>2, <1>3, <1>4, <1>5

LEMMA NextKeepsFlashInv == SectorsFit /\ Inv /\ FlashInv /\ [Next]_vars => FlashInv'
<1> SUFFICES ASSUME SectorsFit, Inv, FlashInv, [Next]_vars PROVE FlashInv'
  OBVIOUS
<1>1. CASE Request
  BY <1>1, RequestKeepsFlashInv
<1>2. CASE Step
  BY <1>2, FillKeepsFlashInv, FlushStartsKeepsFlashInv, EraseKeepsFlashInv,
     ProgramKeepsFlashInv, NoMemoryKeepsFlashInv, FailuresKeepFlashInv,
     FinishingKeepsFlashInv DEF Step
<1>3. CASE UNCHANGED vars
  BY <1>3 DEF vars, FlashInv, SizesFit, CallsKnowTheirUpdate, SectorBySector,
     FlushesAreSectors, RestOfBlockIsErased, TargetIsErased, FlashHoldsWhatWasFlushed,
     Fed, ErasedFrom, InHead, InTail, Start, Position, NextBlock, At
<1> QED BY <1>1, <1>2, <1>3 DEF Next

(* Everything that was flushed is in the flash, for every size of the       *)
(* image, every cut into pieces and every partition that starts on a sector *)
(* boundary, wherever its blocks begin: no sector is programmed before it   *)
(* is erased or erased after it was programmed (Updater.cpp:593-614).       *)
THEOREM FlushedDataStays ==
  ASSUME SectorsFit
  PROVE  Spec => []FlashHoldsWhatWasFlushed
<1>1. Inv /\ FlashInv /\ [Next]_vars => FlashInv'
  BY NextKeepsFlashInv
<1>2. FlashInv => FlashHoldsWhatWasFlushed
  BY DEF FlashInv
<1> QED
  BY <1>1, <1>2, InitEstablishesFlashInv, InvIsInvariant, PTL DEF Spec

-----------------------------------------------------------------------------
(* The MD5 and end().  The digest covers the bytes that were flushed, so a  *)
(* digest over a whole image says that the whole image was fed; that it is  *)
(* still in the flash is FlashHoldsWhatWasFlushed, except for the header,   *)
(* which is stashed until end() writes it over the erased first unit.       *)
Ending == {"enable", "activate"}

DigestIsOfWhatWasFlushed == upd.size > 0 => upd.md5Len = upd.progress

(* Neither a stashed header nor a file system's update outlives its update. *)
NothingOutlivesItsUpdate ==
  (upd.skipBuffer \/ upd.command = "FS") => upd.size > 0 \/ call.pc \in Ending

EnabledIsVerified ==
  (call.pc \in Ending /\ upd.skipBuffer /\ upd.md5Target) =>
    /\ image \notin Corrupt
    /\ upd.progress = ImageSize /\ upd.size = ImageSize

HeaderIsWritten == At("activate") =>
  /\ upd.skipBuffer
  /\ upd.md5Target => flash[upd.partition][0] = Cell(image, 0)

DigestInv ==
  /\ DigestIsOfWhatWasFlushed /\ NothingOutlivesItsUpdate
  /\ EnabledIsVerified /\ HeaderIsWritten

LEMMA InitEstablishesDigestInv == Init => DigestInv
BY DEF Init, FreshUpdate, DigestInv, DigestIsOfWhatWasFlushed,
   NothingOutlivesItsUpdate, EnabledIsVerified, HeaderIsWritten, Ending, At

LEMMA ResetCommand ==
  ASSUME upd \in Updates, NEW e \in Errors
  PROVE  Reset(upd).command = "FLASH" /\ Aborted(upd, e).command = "FLASH"
BY ResetType DEF Reset, Aborted, Updates

(* A step after which no update runs.                                       *)
LEMMA NoUpdateKeepsDigestInv ==
  ASSUME upd'.size = 0, ~upd'.skipBuffer, upd'.command # "FS", call'.pc \notin Ending
  PROVE  DigestInv'
BY DEF DigestInv, DigestIsOfWhatWasFlushed, NothingOutlivesItsUpdate,
   EnabledIsVerified, HeaderIsWritten, Ending, At

LEMMA AbortKeepsDigestInv ==
  ASSUME TypeOK, NEW e \in Errors, upd' = Aborted(upd, e) \/ upd' = Reset(upd),
         call'.pc \notin Ending
  PROVE  DigestInv'
<1>1. upd \in Updates
  BY DEF TypeOK
<1> QED BY <1>1, AbortedType, ResetType, ResetCommand, NoUpdateKeepsDigestInv

(* A step that neither flushes nor ends.                                    *)
LEMMA CalmStepKeepsDigestInv ==
  ASSUME DigestInv, upd'.size = upd.size, upd'.progress = upd.progress,
         upd'.md5Len = upd.md5Len, upd'.command = upd.command,
         upd'.skipBuffer = upd.skipBuffer \/ upd.size > 0,
         call.pc \notin Ending, call'.pc \notin Ending
  PROVE  DigestInv'
BY DEF DigestInv, DigestIsOfWhatWasFlushed, NothingOutlivesItsUpdate,
   EnabledIsVerified, HeaderIsWritten, Ending, At

LEMMA RequestKeepsDigestInv ==
  ASSUME Inv, DigestInv, Request
  PROVE  DigestInv'
<1>0. TypeOK /\ call \in Calls /\ upd \in Updates
  BY DEF Inv, TypeOK
<1>1. ASSUME NEW sz \in Sizes, NEW cmd \in Commands, BeginFails(sz, cmd)
      PROVE  DigestInv'
  <2>1. upd' = Begun(sz, cmd) /\ call'.pc \notin Ending
    BY <1>1 DEF BeginFails, At, Ending
  <2>2. upd'.command = "FLASH"
    <3>1. Reset(upd) \in Updates /\ Reset(upd).command = "FLASH" /\ "OK" \in Errors
      BY <1>0, ResetType, ResetCommand DEF Errors
    <3> QED BY <2>1, <3>1 DEF Begun, Updates
  <2> QED BY <1>0, <2>1, <2>2, BegunType, NoUpdateKeepsDigestInv
<1>2. ASSUME NEW sz \in Sizes, NEW cmd \in Commands, NEW v \in Images,
             BeginStarts(sz, cmd, v)
      PROVE  DigestInv'
  <2>1. /\ upd' = [Begun(sz, cmd) EXCEPT
                     !.size = IF sz = UNKNOWN THEN PartSize ELSE sz, !.command = cmd]
        /\ sz # 0 /\ call'.pc = "idle"
    BY <1>2 DEF BeginStarts, Verdict, At
  <2>2. Begun(sz, cmd) \in Updates /\ Begun(sz, cmd).progress = 0 /\ Reset(upd) \in Updates
    BY <1>0, BegunType, ResetType
  <2>3. Begun(sz, cmd).md5Len = 0
    BY <2>2 DEF Begun, Updates
  <2>4. upd'.progress = 0 /\ upd'.md5Len = 0
    BY <2>1, <2>2, <2>3 DEF Updates
  <2>5. upd'.size = IF sz = UNKNOWN THEN PartSize ELSE sz
    BY <2>1, <2>2 DEF Updates
  <2>6. sz \in Nat /\ PartSize \in Nat \ {0}
    BY SizesAssumption DEF Sizes, UNKNOWN
  <2>7. upd'.size > 0
    BY <2>1, <2>5, <2>6
  <2> QED BY <2>1, <2>4, <2>7 DEF DigestInv, DigestIsOfWhatWasFlushed,
        NothingOutlivesItsUpdate, EnabledIsVerified, HeaderIsWritten, Ending, At
<1>3. CASE setMD5 \/ clearError \/ rollBack
  <2>1. /\ upd'.size = upd.size /\ upd'.progress = upd.progress
        /\ upd'.command = upd.command /\ upd'.md5Len = upd.md5Len
        /\ upd'.skipBuffer = upd.skipBuffer
    BY <1>0, <1>3 DEF setMD5, clearError, rollBack, Updates
  <2>2. call' = call /\ call.pc = "idle"
    BY <1>3 DEF setMD5, clearError, rollBack, At
  <2> QED BY <2>1, <2>2, CalmStepKeepsDigestInv DEF Ending
<1>4. CASE abort
  BY <1>0, <1>4, AbortKeepsDigestInv DEF abort, At, Errors, Ending
<1>5. ASSUME NEW len \in Lengths, WriteRefused(len) \/ WriteStarts(len)
      PROVE  DigestInv'
  <2>1. CASE WriteRefused(len)
    BY <1>0, <2>1, AbortKeepsDigestInv DEF WriteRefused, CanFeed, At, Errors, Ending
  <2>2. CASE WriteStarts(len)
    <3>1. call'.pc = "fill"
      BY <1>0, <2>2 DEF WriteStarts, Calls
    <3> QED BY <2>2, <3>1, CalmStepKeepsDigestInv DEF WriteStarts, CanFeed, At, Ending
  <2> QED BY <1>5, <2>1, <2>2
<1>6. ASSUME NEW b \in BOOLEAN,
             StreamStarts(b) \/ StreamHasBadHeader(b) \/ EndStarts(b)
      PROVE  DigestInv'
  <2>1. CASE StreamStarts(b)
    <3>1. call'.pc \in {"idle", "read"}
      BY <1>0, <2>1 DEF StreamStarts, Calls
    <3> QED BY <2>1, <3>1, CalmStepKeepsDigestInv DEF StreamStarts, CanFeed, At, Ending
  <2>2. CASE StreamHasBadHeader(b)
    BY <1>0, <2>2, AbortKeepsDigestInv DEF StreamHasBadHeader, CanFeed, At, Errors, Ending
  <2>3. CASE EndStarts(b)
    <3>1. call'.pc \in {"flush", "verify"}
      BY <1>0, <2>3 DEF EndStarts, Calls
    <3> QED BY <2>3, <3>1, CalmStepKeepsDigestInv DEF EndStarts, CanFeed, At, Ending
  <2> QED BY <1>6, <2>1, <2>2, <2>3
<1>7. CASE EndTooEarly
  <2>1. call'.pc = "idle"
    BY <1>0, <1>7 DEF EndTooEarly, EndReturns, Calls
  <2> QED BY <1>0, <1>7, <2>1, AbortKeepsDigestInv DEF EndTooEarly, Errors, Ending
<1>8. CASE PowerFails
  <2>1. /\ upd'.size = 0 /\ ~upd'.skipBuffer /\ upd'.command = "FLASH"
        /\ call'.pc = "off"
    BY <1>0, <1>8 DEF PowerFails, FreshUpdate, Calls
  <2> QED BY <2>1, NoUpdateKeepsDigestInv DEF Ending
<1> QED BY <1>1, <1>2, <1>3, <1>4, <1>5, <1>6, <1>7, <1>8 DEF Request

LEMMA FeedingKeepsDigestInv ==
  ASSUME Inv, DigestInv,
         \/ FillSector \/ FillRest \/ StreamRead \/ FlushHasNoMemory
         \/ FlushStarts \/ EraseDone \/ ProgramDone
  PROVE  DigestInv'
<1>0. /\ TypeOK /\ call \in Calls /\ upd \in Updates /\ upd.size > 0
      /\ call.pc \notin Ending
  BY DEF Inv, TypeOK, FeedingMeansRunning, Feeding, Ending, At, FillSector, FillRest,
     StreamRead, FlushHasNoMemory, FlushStarts, EraseDone, ProgramDone
<1>1. call'.pc \notin Ending
  <2>1. CASE FlushHasNoMemory
    BY <1>0, <2>1, FlushFailedType DEF FlushHasNoMemory, Ending
  <2>2. CASE FillSector \/ FillRest \/ StreamRead
    BY <1>0, <2>2 DEF FillSector, FillRest, StreamRead, Goto, Calls, Ending
  <2>3. CASE FlushStarts \/ EraseDone
    BY <1>0, <2>3 DEF FlushStarts, EraseDone, Goto, Calls, Ending
  <2>4. CASE ProgramDone
    BY <1>0, <2>4 DEF ProgramDone, Goto, AfterFlush, Calls, Ending
  <2> QED BY <2>1, <2>2, <2>3, <2>4
<1>2. CASE ~ProgramDone
  <2>1. /\ upd'.size = upd.size /\ upd'.progress = upd.progress
        /\ upd'.md5Len = upd.md5Len /\ upd'.command = upd.command
    BY <1>0, <1>2 DEF FillSector, FillRest, StreamRead, FlushHasNoMemory, FlushStarts,
       EraseDone, Updates
  <2> QED BY <1>0, <1>1, <2>1, CalmStepKeepsDigestInv
<1>3. CASE ProgramDone
  <2>1. /\ upd'.size = upd.size /\ upd'.progress = upd.progress + upd.bufferLen
        /\ upd'.md5Len = upd.md5Len + upd.bufferLen
    BY <1>0, <1>3 DEF ProgramDone, ProgramEnd, Updates
  <2> QED BY <1>0, <1>1, <2>1 DEF DigestInv, DigestIsOfWhatWasFlushed,
        NothingOutlivesItsUpdate, EnabledIsVerified, HeaderIsWritten, Ending, At
<1> QED BY <1>2, <1>3

LEMMA FailuresKeepDigestInv ==
  ASSUME TypeOK,
         \/ StreamTimesOut \/ FlushBadHeader \/ EraseFails \/ ProgramFails
         \/ VerifyFails \/ EnableFails \/ ActivateFails
  PROVE  DigestInv'
<1>1. FlushFailed \/ Returns \/ EndReturns(FALSE)
  BY DEF StreamTimesOut, FlushBadHeader, EraseFails, ProgramFails, VerifyFails,
     EnableFails, ActivateFails
<1>2. call'.pc \notin Ending
  BY <1>1, FlushFailedType DEF Ending
<1>3. \E e \in Errors : upd' = Aborted(upd, e)
  BY DEF StreamTimesOut, FlushBadHeader, EraseFails, ProgramFails, VerifyFails,
     EnableFails, ActivateFails, Errors
<1> QED BY <1>2, <1>3, AbortKeepsDigestInv

(* Enable: the first unit is erased, so the header gets there intact.       *)
LEMMA EnableWritesTheHeader ==
  ASSUME Inv, HeaderInv, CallsKnowTheirUpdate, DigestInv, Enable, upd.md5Target
  PROVE  flash'[upd.partition][0] = Cell(image, 0)
<1>1. /\ At("enable") /\ upd.skipBuffer /\ upd.command = "FLASH"
      /\ flash' = ProgramRange(flash, upd.partition, 0, 1)
  BY DEF Enable, WriteHeader, CallsKnowTheirUpdate
<1>2. /\ flash \in [Partitions -> [Units -> Cells]] /\ upd.partition \in Partitions
      /\ image \in AllImages
  BY <1>1 DEF Inv, TypeOK, WritesElsewhere, At
<1>3. 0 \in Units /\ ImageSize > 0 /\ 0 \notin BlankUnits
  BY SizesAssumption, ImagesAssumption DEF Units
<1>4. upd.size = ImageSize /\ upd.progress = ImageSize
  BY <1>1 DEF DigestInv, EnabledIsVerified, Ending, At
<1>5. flash[upd.partition][0] = Erased
  BY <1>1, <1>3, <1>4 DEF HeaderInv, PartialImageHasNoHeader, At
<1>6. flash'[upd.partition][0] = Programmed(flash[upd.partition][0], Cell(image, 0))
  BY <1>1, <1>2, <1>3 DEF ProgramRange
<1> QED BY <1>5, <1>6 DEF Programmed

LEMMA FinishingKeepsDigestInv ==
  ASSUME Inv, HeaderInv, CallsKnowTheirUpdate, DigestInv,
         VerifyDone \/ Enable \/ Activate \/ Boot
  PROVE  DigestInv'
<1>0. TypeOK /\ call \in Calls /\ upd \in Updates
  BY DEF Inv, TypeOK
<1>1. CASE VerifyDone /\ upd.command = "FLASH"
  <2>1. /\ upd'.size = upd.progress /\ upd'.progress = upd.progress
        /\ upd'.md5Len = upd.md5Len /\ upd'.command = "FLASH"
        /\ upd'.skipBuffer = upd.skipBuffer /\ upd'.md5Target = upd.md5Target
        /\ image' = image /\ call.pc = "verify" /\ call'.pc = "enable"
        /\ upd.md5Target => MD5Matches
    BY <1>0, <1>1 DEF VerifyDone, Goto, Updates, Calls, At
  <2>2. upd.progress > 0 => upd.size > 0
    BY <1>0, ObjectType DEF Inv, FeedingMeansRunning
  <2>3. upd.skipBuffer => upd.size > 0
    BY <2>1 DEF DigestInv, NothingOutlivesItsUpdate, Ending
  <2> QED BY <2>1, <2>2, <2>3 DEF DigestInv, DigestIsOfWhatWasFlushed, MD5Matches,
        NothingOutlivesItsUpdate, EnabledIsVerified, HeaderIsWritten, Ending, At
<1>2. CASE VerifyDone /\ upd.command # "FLASH"
  BY <1>0, <1>2, EndReturnsType, AbortKeepsDigestInv DEF VerifyDone, Errors, Ending
<1>3. CASE Enable
  <2>1. /\ UNCHANGED <<upd, image>> /\ upd.skipBuffer
        /\ call.pc = "enable" /\ call'.pc = "activate"
    BY <1>0, <1>3 DEF Enable, Goto, Calls, At
  <2>2. upd.md5Target => flash'[upd.partition][0] = Cell(image, 0)
    BY <1>3, EnableWritesTheHeader
  <2>3. Cell(image, 0)' = Cell(image, 0)
    BY <2>1 DEF Cell
  <2> QED BY <2>1, <2>2, <2>3 DEF DigestInv, DigestIsOfWhatWasFlushed,
        NothingOutlivesItsUpdate, EnabledIsVerified, HeaderIsWritten, Ending, At
<1>4. CASE Activate
  BY <1>0, <1>4, EndReturnsType, AbortKeepsDigestInv DEF Activate, Errors, Ending
<1>5. CASE Boot
  <2>1. upd' = upd /\ upd.size = 0 /\ call.pc = "off" /\ call'.pc = "idle"
    BY <1>0, <1>5 DEF Boot, At, Goto, Calls, Inv, FeedingMeansRunning
  <2> QED BY <2>1, CalmStepKeepsDigestInv DEF Ending
<1> QED BY <1>1, <1>2, <1>3, <1>4, <1>5

LEMMA NextKeepsDigestInv ==
  Inv /\ HeaderInv /\ FlashInv /\ DigestInv /\ [Next]_vars => DigestInv'
<1> SUFFICES ASSUME Inv, HeaderInv, FlashInv, DigestInv, [Next]_vars PROVE DigestInv'
  OBVIOUS
<1>0. TypeOK /\ CallsKnowTheirUpdate
  BY DEF Inv, FlashInv
<1>1. CASE Request
  BY <1>1, RequestKeepsDigestInv
<1>2. CASE Step
  BY <1>0, <1>2, FeedingKeepsDigestInv, FailuresKeepDigestInv, FinishingKeepsDigestInv
     DEF Step
<1>3. CASE UNCHANGED vars
  BY <1>3 DEF vars, DigestInv, DigestIsOfWhatWasFlushed, NothingOutlivesItsUpdate,
     EnabledIsVerified, HeaderIsWritten, Ending, At, Cell
<1> QED BY <1>1, <1>2, <1>3 DEF Next

-----------------------------------------------------------------------------
(* All of the image is in the partition once all of it was flushed and the  *)
(* header is there, or is nothing special.                                  *)
LEMMA FlushedImageIsHeld ==
  ASSUME Inv, FlashInv, upd.progress = ImageSize, UNCHANGED flash,
         upd.command = "FLASH" => flash[upd.partition][0] = Cell(image, 0)
  PROVE  Holds(flash', upd.partition, image)
<1>1. ImageSize \in Nat \ {0}
  BY SizesAssumption
<1>2. upd.size > 0
  BY <1>1, ObjectType DEF Inv, FeedingMeansRunning
<1>3. \A i \in 0 .. ImageSize - 1 : flash[upd.partition][i] = Cell(image, i)
  BY <1>2 DEF FlashInv, FlashHoldsWhatWasFlushed
<1> QED BY <1>3 DEF Holds

LEMMA OnlyTheLastStepReturnsTrue ==
  ASSUME TypeOK, [Next]_vars, call'.result, ~call.result
  PROVE  Activate \/ (VerifyDone /\ upd.command # "FLASH")
<1>0. call \in Calls
  BY DEF TypeOK
<1>1. CASE Request
  <2>1. ASSUME NEW sz \in Sizes, NEW cmd \in Commands,
               BeginFails(sz, cmd) \/ \E v \in Images : BeginStarts(sz, cmd, v)
        PROVE  FALSE
    BY <2>1 DEF BeginFails, BeginStarts
  <2>2. CASE setMD5 \/ abort \/ clearError \/ rollBack
    BY <2>2 DEF setMD5, abort, clearError, rollBack
  <2>3. ASSUME NEW len \in Lengths, WriteRefused(len) \/ WriteStarts(len)
        PROVE  FALSE
    BY <1>0, <2>3 DEF WriteRefused, WriteStarts, Calls
  <2>4. ASSUME NEW b \in BOOLEAN,
               StreamStarts(b) \/ StreamHasBadHeader(b) \/ EndStarts(b)
        PROVE  FALSE
    BY <1>0, <2>4 DEF StreamStarts, StreamHasBadHeader, EndStarts, Calls
  <2>5. CASE EndTooEarly \/ PowerFails
    BY <1>0, <2>5 DEF EndTooEarly, EndReturns, PowerFails, Calls
  <2> QED BY <1>1, <2>1, <2>2, <2>3, <2>4, <2>5 DEF Request
<1>2. CASE Step
  <2>1. CASE FillSector \/ FillRest \/ StreamRead \/ FlushStarts \/ EraseDone
             \/ ProgramDone \/ Enable \/ Boot
    BY <1>0, <2>1 DEF FillSector, FillRest, StreamRead, FlushStarts, EraseDone,
       ProgramDone, Enable, Boot, Goto, Calls
  <2>2. CASE StreamTimesOut \/ FlushBadHeader \/ FlushHasNoMemory \/ EraseFails
             \/ ProgramFails \/ VerifyFails \/ EnableFails \/ ActivateFails
    <3>1. FlushFailed \/ Returns \/ EndReturns(FALSE)
      BY <2>2 DEF StreamTimesOut, FlushBadHeader, FlushHasNoMemory, EraseFails,
         ProgramFails, VerifyFails, EnableFails, ActivateFails
    <3> QED BY <1>0, <3>1 DEF FlushFailed, Goto, Returns, EndReturns, Calls
  <2>3. CASE VerifyDone /\ upd.command = "FLASH"
    BY <1>0, <2>3 DEF VerifyDone, Goto, Calls
  <2> QED BY <1>2, <2>1, <2>2, <2>3 DEF Step
<1>3. CASE UNCHANGED vars
  BY <1>3 DEF vars
<1> QED BY <1>1, <1>2, <1>3 DEF Next

LEMMA TrueMeansTheImageIsThere ==
  ASSUME Inv, FlashInv, DigestInv, [Next]_vars,
         call'.result, ~call.result, upd.md5Target
  PROVE  image \notin Corrupt /\ Holds(flash', upd.partition, image)
<1>0. TypeOK /\ upd \in Updates
  BY DEF Inv, TypeOK
<1>1. CASE Activate
  <2>1. At("activate") /\ UNCHANGED flash
    BY <1>1 DEF Activate
  <2>2. /\ image \notin Corrupt /\ upd.progress = ImageSize
        /\ flash[upd.partition][0] = Cell(image, 0)
    BY <2>1 DEF DigestInv, EnabledIsVerified, HeaderIsWritten, Ending, At
  <2> QED BY <2>1, <2>2, FlushedImageIsHeld
<1>2. CASE VerifyDone /\ upd.command # "FLASH"
  <2>1. At("verify") /\ UNCHANGED flash /\ MD5Matches
    BY <1>2 DEF VerifyDone
  <2>2. upd.command = "FS"
    BY <1>0, <1>2 DEF Updates
  <2>3. upd.size > 0
    BY <2>1, <2>2 DEF DigestInv, NothingOutlivesItsUpdate, Ending, At
  <2>4. upd.progress = ImageSize /\ image \notin Corrupt
    BY <2>1, <2>3 DEF DigestInv, DigestIsOfWhatWasFlushed, MD5Matches
  <2> QED BY <1>2, <2>1, <2>4, FlushedImageIsHeld
<1> QED BY <1>0, <1>1, <1>2, OnlyTheLastStepReturnsTrue

(* With an MD5 set, end() returns true only when the partition holds the    *)
(* whole undamaged image, for both targets, every image size and every cut  *)
(* into pieces, although end() goes on after a failed last flush            *)
(* (Updater.cpp:715) and the header is written only after the check.        *)
THEOREM MD5IsAGuarantee ==
  ASSUME SectorsFit
  PROVE  Spec => MD5GuardsEnd
<1>1. Inv /\ FlashInv /\ [Next]_vars => FlashInv'
  BY NextKeepsFlashInv
<1>2. Inv /\ FlashInv /\ DigestInv /\ [Next]_vars =>
        ((call'.result /\ ~call.result /\ upd.md5Target) =>
           image \notin Corrupt /\ Holds(flash', upd.partition, image))
  BY TrueMeansTheImageIsThere
<1> QED
  BY <1>1, <1>2, InitEstablishesFlashInv, InitEstablishesHeaderInv,
     InitEstablishesDigestInv, NextKeepsHeaderInv, NextKeepsDigestInv, InvIsInvariant,
     PTL DEF Spec, MD5GuardsEnd

-----------------------------------------------------------------------------
(* The updater implements OtaBoot.                                          *)

(* OtaBoot has one spare slot: two OTA slots that take turns, as in the     *)
(* partition tables for over-the-air updates (tools/partitions/default.csv).*)
TwoSlots == \A s \in Slots : NextSlot[s] # s /\ Slots = {s, NextSlot[s]}

ImageOf(f, s) ==
  IF Bootable(f, s) THEN CHOOSE v \in Installable : Holds(f, s, v) ELSE NoImage

-----------------------------------------------------------------------------
LEMMA ImageInIsImageOf ==
  \A s : ImageIn(s) = ImageOf(flash, s) /\ ImageIn(s)' = ImageOf(flash', s)
BY DEF ImageIn, ImageOf, Bootable, Holds

LEMMA ImageOfBootable ==
  ASSUME NEW f, NEW s, Bootable(f, s)
  PROVE  /\ ImageOf(f, s) \in Installable /\ ImageOf(f, s) # NoImage
         /\ Holds(f, s, ImageOf(f, s)) /\ f[s][0] = <<ImageOf(f, s), 0>>
<1>1. ImageOf(f, s) \in Installable /\ Holds(f, s, ImageOf(f, s))
  BY DEF ImageOf, Bootable
<1>2. 0 \in 0 .. ImageSize - 1 /\ 0 \notin BlankUnits
  BY SizesAssumption, ImagesAssumption
<1> QED BY <1>1, <1>2, ImagesAssumption DEF Holds, Cell, Installable

LEMMA ImageOfUnbootable ==
  ASSUME NEW f, NEW s, ~Bootable(f, s)
  PROVE  ImageOf(f, s) = NoImage
BY DEF ImageOf

(* The header tells which image it is.                                      *)
LEMMA SameHeaderSameImage ==
  ASSUME NEW f, NEW g, NEW s, Bootable(f, s), Bootable(g, s), g[s][0] = f[s][0]
  PROVE  ImageOf(g, s) = ImageOf(f, s)
<1>1. f[s][0] = <<ImageOf(f, s), 0>> /\ g[s][0] = <<ImageOf(g, s), 0>>
  BY ImageOfBootable
<1> QED BY <1>1

LEMMA OtherPartitionsKeepImageOf ==
  ASSUME NEW f, NEW g, NEW s, g[s] = f[s]
  PROVE  Bootable(g, s) = Bootable(f, s) /\ ImageOf(g, s) = ImageOf(f, s)
BY DEF Bootable, Holds, ImageOf

(* What one flash operation does to one partition.                          *)
FlashOperation(p) == \E a, b :
  flash' = EraseRange(flash, p, a, b) \/ flash' = ProgramRange(flash, p, a, b)

LEMMA NoImageReplacesAnother ==
  ASSUME flash \in [Partitions -> [Units -> Cells]], NEW p \in Partitions,
         FlashOperation(p), Bootable(flash, p), Bootable(flash', p)
  PROVE  ImageOf(flash', p) = ImageOf(flash, p)
<1>1. 0 \in Units
  BY SizesAssumption DEF Units
<1>2. flash'[p][0] \in {flash[p][0], Erased, Junk} \/ flash[p][0] = Erased
  BY <1>1 DEF FlashOperation, EraseRange, ProgramRange, Programmed
<1>3. /\ flash[p][0] = <<ImageOf(flash, p), 0>> /\ ImageOf(flash, p) # NoImage
      /\ flash'[p][0] = <<ImageOf(flash', p), 0>> /\ ImageOf(flash', p) # NoImage
  BY ImageOfBootable
<1>4. flash'[p][0] = flash[p][0]
  BY <1>2, <1>3 DEF Erased, Junk
<1> QED BY <1>4, SameHeaderSameImage

LEMMA OtherPartitionsAreKept ==
  ASSUME flash \in [Partitions -> [Units -> Cells]], NEW p \in Partitions,
         FlashOperation(p), NEW s \in Partitions \ {p}
  PROVE  flash'[s] = flash[s]
BY DEF FlashOperation, EraseRange, ProgramRange

-----------------------------------------------------------------------------
(* The state of OtaBoot, from the flash, the selected and the running slot. *)
BootsSlot(f, o, r) == IF Bootable(f, o) THEN o ELSE r

LEMMA Slots2 ==
  ASSUME TwoSlots, NEW r \in Slots
  PROVE  /\ NextSlot[r] \in Slots /\ NextSlot[r] # r /\ NextSlot[NextSlot[r]] = r
         /\ Slots = {r, NextSlot[r]} /\ Slots \subseteq Partitions
         /\ NextSlot[r] \in Partitions /\ r \in Partitions
<1>1. NextSlot[r] \in Slots /\ NextSlot[r] # r /\ Slots = {r, NextSlot[r]}
  BY DEF TwoSlots
<1>2. NextSlot[NextSlot[r]] \in Slots /\ NextSlot[NextSlot[r]] # NextSlot[r]
  BY <1>1, SlotsAssumption DEF TwoSlots
<1> QED BY <1>1, <1>2 DEF Partitions

LEMMA InitIsBootsInit ==
  ASSUME TwoSlots, Init
  PROVE  Boots!Init
<1>1. Inv
  BY InitEstablishesInv
<1>2. running \in Slots /\ otadata = running /\ Bootable(flash, running)
  BY <1>1 DEF Init, Inv, RunningImageIntact
<1> DEFINE s == NextSlot[running]
<1>3. s \in Partitions /\ running \in Partitions /\ s # running
  BY <1>2, Slots2
<1>4. 0 \in Units /\ 0 < ImageSize /\ 0 \notin BlankUnits
  BY SizesAssumption, ImagesAssumption DEF Units
<1>5. flash[running][0] = <<Factory, 0>> /\ flash[s][0] = Erased
  BY <1>3, <1>4 DEF Init, Cell
<1>6. ImageOf(flash, running) = Factory
  BY <1>2, <1>5, ImageOfBootable
<1>7. ~Bootable(flash, s)
  BY <1>5, ImageOfBootable DEF Erased
<1>8. ImageOf(flash, s) = NoImage
  BY <1>7, ImageOfUnbootable
<1> QED BY <1>2, <1>6, <1>8, ImageInIsImageOf DEF Boots!Init

-----------------------------------------------------------------------------
(* A flash operation: nothing, the end of the spare image, or a new one.    *)
LEMMA FlashOperationIsABootsStep ==
  ASSUME TwoSlots, Inv, FlashOperation(upd.partition), UNCHANGED <<otadata, running>>,
         call.pc \notin {"idle", "off"}
  PROVE  [Boots!Next]_(Boots!vars)
<1> DEFINE s == NextSlot[running]
           p == upd.partition
<1>1. /\ flash \in [Partitions -> [Units -> Cells]] /\ p \in Partitions \ {running}
      /\ running \in Slots /\ otadata \in Slots /\ Bootable(flash, running)
  BY DEF Inv, TypeOK, WritesElsewhere, RunningImageIntact
<1>2. otadata \in {running, s} /\ s \in Partitions /\ running \in Partitions /\ s # running
  BY <1>1, Slots2
<1>3. flash'[running] = flash[running]
  BY <1>1, <1>2, OtherPartitionsAreKept
<1>4. /\ Bootable(flash', running)
      /\ ImageOf(flash', running) = ImageOf(flash, running)
  BY <1>1, <1>3, OtherPartitionsKeepImageOf
<1>5. Bootable(flash, s) /\ Bootable(flash', s) => ImageOf(flash', s) = ImageOf(flash, s)
  <2>1. CASE p = s
    BY <1>1, <2>1, NoImageReplacesAnother
  <2>2. CASE p # s
    <3>1. flash'[s] = flash[s]
      BY <1>1, <1>2, <2>2, OtherPartitionsAreKept
    <3> QED BY <3>1, OtherPartitionsKeepImageOf
  <2> QED BY <2>1, <2>2
<1>6. /\ Bootable(flash', s) => ImageOf(flash', s) \in Installable
      /\ ~Bootable(flash', s) => ImageOf(flash', s) = NoImage
      /\ ~Bootable(flash, s) => ImageOf(flash, s) = NoImage
  BY ImageOfBootable, ImageOfUnbootable
<1>7. /\ ImageIn(running) = ImageOf(flash, running)
      /\ ImageIn(running)' = ImageOf(flash, running)
      /\ ImageIn(s) = ImageOf(flash, s)
      /\ ImageIn(s)' = ImageOf(flash', s)
      /\ ImageIn(BootsSlot(flash, otadata, running))
           = ImageOf(flash, BootsSlot(flash, otadata, running))
      /\ ImageIn(BootsSlot(flash, otadata, running))'
           = ImageOf(flash', BootsSlot(flash', otadata, running))
  BY <1>4, ImageInIsImageOf DEF BootsSlot, ImageIn, ImageOf, Bootable, Holds
<1>8. CASE Bootable(flash, s) <=> Bootable(flash', s)
  BY <1>1, <1>2, <1>4, <1>5, <1>6, <1>7, <1>8 DEF BootsSlot, Boots!vars
<1>9. CASE Bootable(flash, s) /\ ~Bootable(flash', s)
  BY <1>1, <1>2, <1>4, <1>6, <1>7, <1>9 DEF BootsSlot, Boots!Next, Boots!Overwrite
<1>10. CASE ~Bootable(flash, s) /\ Bootable(flash', s)
  BY <1>1, <1>2, <1>4, <1>6, <1>7, <1>10 DEF BootsSlot, Boots!Next, Boots!Fill
<1> QED BY <1>8, <1>9, <1>10

-----------------------------------------------------------------------------
LEMMA QuietIsAStutter ==
  ASSUME UNCHANGED <<flash, otadata, running>>
  PROVE  UNCHANGED Boots!vars
BY DEF Boots!vars, ImageIn, Bootable, Holds

(* The spare slot is selected: by end(), or by rollBack().                  *)
LEMMA SelectingIsABootsStep ==
  ASSUME TwoSlots, Inv, UNCHANGED <<flash, running>>,
         otadata' = NextSlot[running], Bootable(flash, NextSlot[running])
  PROVE  Boots!Next
<1> DEFINE s == NextSlot[running]
<1>1. ImageIn(s) = ImageOf(flash, s) /\ ImageOf(flash, s) # NoImage
  BY ImageInIsImageOf, ImageOfBootable
<1>2. /\ ImageIn(running)' = ImageIn(running)
      /\ ImageIn(NextSlot[running])' = ImageIn(s)
      /\ ImageIn(IF Bootable(flash, otadata) THEN otadata ELSE running)' = ImageIn(s)
  BY DEF ImageIn, Bootable, Holds
<1> QED BY <1>1, <1>2 DEF Boots!Next, Boots!Select

LEMMA BootIsABootsStep ==
  ASSUME TwoSlots, Inv, Boot
  PROVE  [Boots!Next]_(Boots!vars)
<1> DEFINE s == NextSlot[running]
<1>1. /\ UNCHANGED <<flash, otadata>> /\ running' \in BootChoices(flash)
      /\ running \in Slots /\ otadata \in Slots /\ Bootable(flash, running)
  BY DEF Boot, Inv, TypeOK, RunningImageIntact
<1>2. Slots = {running, s} /\ s # running /\ NextSlot[s] = running
  BY <1>1, Slots2
<1>3. CASE running' = running
  BY <1>1, <1>3, QuietIsAStutter
<1>4. CASE running' # running
  <2>1. otadata = s /\ running' = s /\ Bootable(flash, s)
    BY <1>1, <1>2, <1>4 DEF BootChoices
  <2>2. /\ ImageIn(running)' = ImageIn(s)
        /\ ImageIn(NextSlot[running])' = ImageIn(running)
        /\ ImageIn(IF Bootable(flash, otadata) THEN otadata ELSE running)' = ImageIn(s)
        /\ ImageIn(IF Bootable(flash, otadata) THEN otadata ELSE running) = ImageIn(s)
    BY <1>1, <1>2, <2>1, ZenonT(30) DEF ImageIn, Bootable, Holds
  <2> QED BY <2>2 DEF Boots!Next, Boots!Restart
<1> QED BY <1>3, <1>4

LEMMA StepIsABootsStep ==
  ASSUME TwoSlots, Inv, [Next]_vars
  PROVE  [Boots!Next]_(Boots!vars)
<1>1. CASE UNCHANGED <<flash, otadata, running>>
  BY <1>1, QuietIsAStutter
<1>2. CASE EraseDone \/ ProgramDone \/ Enable \/ EnableFails \/ PowerFails
  <2>1. UNCHANGED <<otadata, running>>
    BY <1>2 DEF EraseDone, ProgramDone, Enable, EnableFails, PowerFails
  <2>2. \/ UNCHANGED flash
        \/ FlashOperation(upd.partition) /\ call.pc \notin {"idle", "off"}
    <3>1. CASE EraseDone
      BY <3>1 DEF EraseDone, FlashOperation, At
    <3>2. CASE ProgramDone
      BY <3>2 DEF ProgramDone, FlashOperation, At
    <3>3. CASE Enable \/ EnableFails
      BY <3>3 DEF Enable, EnableFails, WriteHeader, FlashOperation, At
    <3>4. CASE PowerFails
      BY <3>4 DEF PowerFails, TearFlash, WriteHeader, FlashOperation, At
    <3> QED BY <1>2, <3>1, <3>2, <3>3, <3>4
  <2> QED BY <2>1, <2>2, QuietIsAStutter, FlashOperationIsABootsStep
<1>3. CASE Activate
  <2>1. /\ upd.partition \in Slots \ {running} /\ otadata' = upd.partition
        /\ Bootable(flash, upd.partition) /\ UNCHANGED <<flash, running>>
        /\ running \in Slots
    BY <1>3 DEF Activate, At, Inv, TypeOK, WritesElsewhere, HeadersOnlyInSlots
  <2>2. upd.partition = NextSlot[running]
    BY <2>1, Slots2
  <2> QED BY <2>1, <2>2, SelectingIsABootsStep
<1>4. CASE rollBack
  BY <1>4, SelectingIsABootsStep DEF rollBack
<1>5. CASE Boot
  BY <1>5, BootIsABootsStep
<1>6. CASE Request /\ ~rollBack /\ ~PowerFails
  BY <1>1, <1>6 DEF Request, BeginFails, BeginStarts, setMD5, abort, clearError, WriteRefused,
     WriteStarts, StreamStarts, StreamHasBadHeader, EndStarts, EndTooEarly
<1>7. CASE \/ FillSector \/ FillRest \/ StreamRead \/ StreamTimesOut
           \/ FlushBadHeader \/ FlushHasNoMemory \/ FlushStarts \/ EraseFails \/ ProgramFails
           \/ VerifyFails \/ VerifyDone \/ ActivateFails
  BY <1>1, <1>7 DEF FillSector, FillRest, StreamRead, StreamTimesOut, FlushBadHeader,
     FlushHasNoMemory, FlushStarts, EraseFails, ProgramFails, VerifyFails, VerifyDone,
     ActivateFails
<1>8. CASE UNCHANGED vars
  BY <1>1, <1>8 DEF vars
<1> QED BY <1>2, <1>3, <1>4, <1>5, <1>6, <1>7, <1>8 DEF Next, Step

(* However often an update fails, restarts or loses power: the next restart *)
(* starts the running image, or one complete other image that end() or      *)
(* rollBack() selected, and changes from one to the other in a single step. *)
THEOREM UpdatesAreAtomic ==
  ASSUME TwoSlots
  PROVE  Spec => AtomicInstall
<1>1. Init => Boots!Init
  BY InitIsBootsInit
<1>2. Inv /\ [Next]_vars => [Boots!Next]_(Boots!vars)
  BY StepIsABootsStep
<1> QED BY <1>1, <1>2, InvIsInvariant, PTL DEF Spec, AtomicInstall, Boots!Spec
=============================================================================
