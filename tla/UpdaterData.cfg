SPECIFICATION FairSpec
CONSTANTS
  Slots <- MCSlots
  NextSlot <- MCNextSlot
  Address <- MCAddress3
  PartSize = 9
  SectorSize = 3
  BlockSize = 6
  Word = 64
  Images = {"v1", "bad"}
  Factory = "v0"
  Corrupt = {"bad"}
  Headless = {}
  ImageSize = 8
  BlankUnits = {3, 4}
  Lengths = {0, 1, 4}
  Commands = {"FS"}
  NoImage = NoImage
  NoPartition = NoPartition
INVARIANTS
  TypeOK
  FlashHoldsWhatWasFlushed
PROPERTIES
  MD5GuardsEnd
  CallsReturn
