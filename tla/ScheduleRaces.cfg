SPECIFICATION ScheduleSpec
CONSTANTS
  Day = {d1, d2}
  s1 = s1
  s2 = s2
  Slot = {s1, s2}
  Hours <- MCHours
  Fallback <- MCFallback
  Page = {p1}
  Settings = {t1}
  Request = {r1}
  MaxSaves = 3
  Edits <- MCEdits
  Absent = Absent
SYMMETRY Symmetry
CONSTRAINT LastSaveAlone
INVARIANTS ScheduleInv OfferedIsAccepted
PROPERTIES BookedInsideHours UnchangedDaysKeepHours
