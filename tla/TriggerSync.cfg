\* One process, one sync at a time, with crashes.
SPECIFICATION FairSpec
CONSTANTS
  server = server
  t1 = t1
  t2 = t2
  c1 = c1
  c2 = c2
  Process = {server}
  Api = server
  Booting = {server}
  Task = {t1}
  Config = {c1, c2}
  QuietBoot = TRUE
  MaxEdits = 4
  MaxCrashes = 1
INVARIANTS  NoEventTwice
PROPERTY Heard
CHECK_DEADLOCK FALSE
