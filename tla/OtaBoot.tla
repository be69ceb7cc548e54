------------------------------ MODULE OtaBoot ------------------------------
(***************************************************************************)
(* What over-the-air updates promise, seen from outside.  The device runs   *)
(* one complete image and has a spare slot, which holds a complete image or *)
(* nothing.  The next restart starts the running image or the spare one,    *)
(* never anything else, and it starts the spare one only from the moment an *)
(* update or a rollback selected it.                                        *)
(***************************************************************************)
CONSTANTS
  Images,    \* the complete, working images
  Factory,   \* the image the device was shipped with
  Nothing    \* what the spare slot holds while it holds no complete image

VARIABLES
  runs,    \* the image that runs
  spare,   \* the image in the spare slot, or Nothing
  boots    \* the image the next restart starts

vars == <<runs, spare, boots>>

Init == runs = Factory /\ spare = Nothing /\ boots = Factory

(* An update starts to overwrite the spare slot: only the running image is left. *)
Overwrite ==
  /\ spare' = Nothing
  /\ boots' = runs
  /\ UNCHANGED runs

(* The last piece of an image reaches the spare slot.  It is started next   *)
(* only if the slot had been selected before it was overwritten.            *)
Fill ==
  /\ spare = Nothing
  /\ spare' \in Images
  /\ boots' \in {boots, spare'}
  /\ UNCHANGED runs

Select ==
  /\ spare # Nothing
  /\ boots' = spare
  /\ UNCHANGED <<runs, spare>>

Restart ==
  /\ boots = spare
  /\ runs' = spare
  /\ spare' = runs
  /\ UNCHANGED boots

Next == Overwrite \/ Fill \/ Select \/ Restart

Spec == Init /\ [][Next]_vars
=============================================================================
