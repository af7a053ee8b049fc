\* Every host but an Intel Mac.
CONSTANTS
  None = None
  Releases <- MCAll
  Targets = {"windows-x64", "linux-x64", "macos-arm64"}
  Archives <- MCPacked
  Unpacked <- MCUnpacked
  Faults = {"disk", "flush"}
SPECIFICATION ArchiveSpec
INVARIANTS RightHost ReadAsWhatItIs UnpackedAsPacked
CHECK_DEADLOCK FALSE
