----------------------------- MODULE MCUpdater -----------------------------
(* Instances of Updater for TLC: two OTA slots that start at different      *)
(* offsets of an erase block, sectors of two units, blocks of two sectors.  *)
EXTENDS Updater, TLC

MCSlots    == {"ota_0", "ota_1"}
MCNextSlot == [s \in MCSlots |-> IF s = "ota_0" THEN "ota_1" ELSE "ota_0"]
MCAddress  == "ota_0" :> 4 @@ "ota_1" :> 10 @@ FS :> 16

(* For sectors of three units; the file system starts in the middle of a block. *)
MCAddress3 == "ota_0" :> 6 @@ "ota_1" :> 12 @@ FS :> 21
=============================================================================
