SPECIFICATION Spec
CONSTANTS
  p1 = p1  p2 = p2
  f1 = f1  f2 = f2  f3 = f3  f4 = f4
  ann = ann  bob = bob  primary = primary  acme = acme  none = none
  Procs = {p1, p2}
  CoreFiles <- MCCore
  SupabaseFiles <- MCSupabase
  RLSFiles <- MCRLS
  Idempotent <- MCIdempotent
  BootNeeds <- MCNeeds
  UserSync = f3
  Emails = {ann, bob}
  NoEmail = none
  Slugs = {primary, acme}
  Primary = primary
  DefaultOrg = acme
  NoOrg = none
  Configs <- MCConfigs
  MaxFaults = 1
INVARIANTS RecordedIsApplied HalfAppliedByFault ServesWithAdmin
PROPERTIES AccountsKept RunsEnd
