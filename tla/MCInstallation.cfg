SPECIFICATION InstallationSpec
CONSTANTS
  Installers = {i1, i2}
  NoInstaller = NoInstaller
  Versions = {v1, v2}
  Absent = Absent
  Modes = {"install", "qualified", "uninstall"}
  MaxRuns = 3
SYMMETRY Symmetry
INVARIANTS Recoverable ReportsAreTrue
CHECK_DEADLOCK FALSE
