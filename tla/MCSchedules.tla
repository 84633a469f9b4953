---------------------------- MODULE MCSchedules ----------------------------
(* Small instances of Schedules for TLC. *)
EXTENDS Schedules, TLC

CONSTANTS s1, s2

\* A short and a long day.
MCHours    == {{s1}, {s1, s2}}
MCFallback == {s1, s2}

\* No change, one day, or every day off.
MCEdits == {e \in DayMap : DOMAIN e = Day => AllDaysOff(e)}

Symmetry == Permutations(Day)

\* The last save runs alone, and no request meets it.
LastSaveAlone ==
  saves = MaxSaves =>
    /\ \A r \in Request : request[r].pc = "idle"
    /\ \A t \in Page, u \in Settings :
         page[t].pc \in {"closed", "open"} \/ settings[u].pc # "half"
=============================================================================
