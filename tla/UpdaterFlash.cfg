SPECIFICATION Spec
CONSTANTS
  Slots <- MCSlots
  NextSlot <- MCNextSlot
  Address <- MCAddress
  PartSize = 6
  SectorSize = 2
  BlockSize = 4
  Word = 32
  Images = {"v1", "raw"}
  Factory = "v0"
  Corrupt = {}
  Headless = {"raw"}
  ImageSize = 5
  BlankUnits = {2, 3}
  Lengths = {1, 3}
  Commands = {"FLASH", "BAD"}
  NoImage = NoImage
  NoPartition = NoPartition
INVARIANTS
  PartialImageHasNoHeader
  RunningImageIntact
PROPERTIES
  AtomicInstall
