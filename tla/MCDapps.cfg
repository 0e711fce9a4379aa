SPECIFICATION Spec
CONSTANTS
  Calls = {c1, c2}
  MaxCalls = 6
  MaxFaults = 1
  MaxRestarts = 1
SYMMETRY Symmetry
CHECK_DEADLOCK FALSE
INVARIANTS FlagsHeld SandboxOK InstalledOnly
PROPERTY DirectoryKept
