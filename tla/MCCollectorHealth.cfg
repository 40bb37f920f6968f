SPECIFICATION FairSpec
CONSTANTS
  dns = dns
  screenshot = screenshot
  Collector = {dns, screenshot}
  SessionCollector = {screenshot}
  MaxGen = 3
  MaxChanges = 2
  MaxFaults = 2
INVARIANTS
  CrashRecorded
PROPERTIES
  CrashSurfaces
  DeadHelperSurfaces
