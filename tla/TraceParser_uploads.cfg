\* Up to four lines sealed by two runs or not at all, one fault, a limit of three lines.
CONSTANTS
  r1 = r1 r2 = r2 NoRun = NoRun
  Runs = {r1, r2}
  Bodies <- SomeBodies
  MaxEvents = 3
  MaxLines = 4
  MaxFaults = 1
  Configs <- SomeConfigs
SPECIFICATION Spec
INVARIANTS SummaryFromLines VerifiedIsSealedPrefix ReadersAgree
CHECK_DEADLOCK FALSE
