----------------------------- MODULE Schedules -----------------------------
(***************************************************************************)
(* The hours a barber can be booked for in one salon.                      *)
(*                                                                         *)
(* They are spread over two documents that no transaction holds together:  *)
(* the Schedule of the barber and the salon (week, date overrides, days    *)
(* off, default hours) and the entry of the salon in the User (a second    *)
(* copy of the default hours).  Two pages of the barber load, change and   *)
(* write them, each document by document and in opposite orders; the       *)
(* public booking page and the card of the barber show the hours of the    *)
(* Schedule; the server checks a booking against both documents, and       *)
(* touches both in its transaction.                                        *)
(*                                                                         *)
(* A day of the week stands for its next date.  Hours are the times of the *)
(* day at which the service fits; what was validated of their form         *)
(* (formats, breaks inside the day) is left out.                           *)
(***************************************************************************)
EXTENDS Naturals, Functions

CONSTANTS
  Day,       \* the days of the week, each with its next date
  Slot,      \* times of a day
  Hours,     \* working hours of a day
  Fallback,  \* the default hours of a new salon entry: 09:00 to 18:00
  Page,      \* tabs with the Schedule page
  Settings,  \* tabs with the settings page
  Request,   \* requests of clients for a booking
  MaxSaves,  \* bound on the saves that barbers begin
  Edits,     \* bound on the changes of a week before it is saved
  Absent     \* no explicitWeeklyDays in the document

ASSUME SchedulesAssumption ==
  /\ Hours \subseteq (SUBSET Slot) \ {{}}
  /\ Fallback \in Hours
  /\ Page \cap Settings = {}
  /\ MaxSaves \in Nat

VARIABLES
  exists,    \* there is a Schedule
  schedule,  \* the Schedule
  member,    \* the User has an approved entry for the salon
  default,   \* the default hours of that entry
  page,      \* the Schedule pages
  settings,  \* the settings pages
  request,   \* the requests of clients
  saves,     \* saves begun
  torn       \* history: the last save was alone, and complete, unless TRUE

documents == <<exists, schedule, member, default>>
scheduleVars == <<documents, page, settings, request, saves, torn>>

-----------------------------------------------------------------------------
(* A Schedule, and what is read from it.                                   *)

Off  == {}
Free == [d \in {} |-> Off]  \* no day has hours of its own

\* hours of their own for some days, or Off
DayMap == UNION {[D -> Hours \cup {Off}] : D \in SUBSET Day}

ASSUME EditsAssumption == Edits \subseteq DayMap

Schedule ==
  [weekly : DayMap, marked : BOOLEAN, explicit : {Absent} \cup SUBSET Day,
   overrides : DayMap, nonWorking : SUBSET Day, default : Hours]

Blank ==
  [weekly |-> Free, marked |-> FALSE, explicit |-> Absent,
   overrides |-> Free, nonWorking |-> {}, default |-> Fallback]

Put(f, g) ==
  [d \in DOMAIN f \cup DOMAIN g |-> IF d \in DOMAIN g THEN g[d] ELSE f[d]]

AllDaysOff(weekly) == DOMAIN weekly = Day /\ \A d \in Day : weekly[d] = Off

\* A week with every day off is one of the old closed ones, and void, unless
\* the barber saved it: then it is marked.
Normalized(s) ==
  IF AllDaysOff(s.weekly) /\ ~s.marked THEN [s EXCEPT !.weekly = Free] ELSE s

\* What a page is sent: without the days that explicitWeeklyDays leaves out.
View(s) ==
  LET n == Normalized(s)
  IN  [n EXCEPT !.marked = FALSE,
                !.weekly = IF n.explicit = Absent THEN @
                           ELSE Restrict(@, n.explicit \cap DOMAIN @)]

ExplicitDay(s, d) ==
  IF s.explicit = Absent THEN d \in DOMAIN s.weekly ELSE d \in s.explicit

DayHours(s, usual, d) ==
  IF d \in DOMAIN s.overrides THEN s.overrides[d]
  ELSE IF ExplicitDay(s, d) /\ d \in DOMAIN s.weekly THEN s.weekly[d]
  ELSE usual

DateHours(s, usual, d) ==
  IF d \in s.nonWorking THEN Off ELSE DayHours(s, usual, d)

\* The hours the server accepts, those the booking page offers, and those the
\* card of the barber is filled from.
ServerHours(d) == DateHours(Normalized(schedule), default, d)
PageHours(d)   == DateHours(View(schedule), schedule.default, d)
CardHours(d) ==
  LET n == Normalized(schedule)
  IN  IF d \notin DOMAIN n.overrides /\ d \in n.nonWorking THEN Off
      ELSE DayHours(n, n.default, d)

Bookable == member /\ exists

-----------------------------------------------------------------------------
\* The types of the variables; in particular, default hours are never a day
\* off, which the slots of every day without hours of its own rely on.
ScheduleTypeOK ==
  /\ exists \in BOOLEAN
  /\ schedule \in Schedule
  /\ member \in BOOLEAN
  /\ default \in Hours
  /\ page \in [Page -> [pc : {"closed", "open", "admitted", "half", "saved"},
                        view : Schedule, payload : Schedule]]
  /\ settings \in [Settings -> [pc : {"closed", "open", "half"},
                                default : Hours, weekly : DayMap]]
  /\ request \in [Request -> [pc : {"idle", "checked", "reading", "touched",
                                    "booked", "refused"},
                              day : Day, slot : Slot,
                              granted : BOOLEAN, fresh : BOOLEAN]]
  /\ saves \in 0..MaxSaves
  /\ torn \in BOOLEAN

\* A salon without a Schedule, with a new one, or with an old closed week.
ScheduleInit ==
  /\ exists \in BOOLEAN
  /\ schedule \in {Blank} \cup
       IF exists THEN {[Blank EXCEPT !.weekly = [d \in Day |-> Off]]} ELSE {}
  /\ member = TRUE
  /\ default = Fallback
  /\ page = [t \in Page |-> [pc |-> "closed", view |-> Blank, payload |-> Blank]]
  /\ settings = [t \in Settings |->
                   [pc |-> "closed", default |-> Fallback, weekly |-> Free]]
  /\ \E d \in [Request -> Day], s \in [Request -> Slot] :
       request = [r \in Request |-> [pc |-> "idle", day |-> d[r], slot |-> s[r],
                                     granted |-> FALSE, fresh |-> FALSE]]
  /\ saves = 0
  /\ torn = FALSE

\* A transaction that touched the documents keeps every other writer out; a
\* write makes what the others have read stale.
Unlocked == \A r \in Request : request[r].pc # "touched"
MakeStale == request' = [r \in Request |-> [request[r] EXCEPT !.fresh = FALSE]]

\* A save is between its two writes.
MidSave == \/ \E t \in Page : page[t].pc = "half"
           \/ \E t \in Settings : settings[t].pc = "half"

BeginSave == saves < MaxSaves /\ saves' = saves + 1

-----------------------------------------------------------------------------
(* The Schedule page: it loads the Schedule, changes one thing and sends    *)
(* everything back.                                                        *)

\* When the load fails (there is no Schedule, the barber may not be booked
\* yet, the server is out of reach) the page works from an empty week and the
\* default hours of the entry.
OpenPage(t) ==
  /\ page[t].pc \in {"closed", "open"}
  /\ member
  /\ \E view \in {[Blank EXCEPT !.default = default]} \cup
                   IF exists THEN {View(schedule)} ELSE {} :
       page' = [page EXCEPT ![t].pc = "open", ![t].view = view]
  /\ UNCHANGED <<documents, settings, request, saves, torn>>

SetDateHours(view, d, hours) ==
  [view EXCEPT !.overrides = Put(@, [x \in {d} |-> hours]),
               !.nonWorking = @ \ {d}]

MarkDayOff(view, d) ==
  [view EXCEPT !.overrides = Put(@, [x \in {d} |-> Off]),
               !.nonWorking = @ \cup {d}]

RemoveOverride(view, d) ==
  [view EXCEPT !.overrides = Restrict(@, DOMAIN @ \ {d}),
               !.nonWorking = @ \ {d}]

UseDefaultHours(view) == [view EXCEPT !.explicit = {}]

Updates(view) ==
  {SetDateHours(view, d, h) : d \in Day, h \in Hours}
    \cup {MarkDayOff(view, d) : d \in Day}
    \cup {RemoveOverride(view, d) : d \in DOMAIN view.overrides}
    \cup {UseDefaultHours(view)}

\* The request passes canEditSalonSchedule.
SavePage(t) ==
  /\ page[t].pc = "open"
  /\ member
  /\ BeginSave
  /\ \E p \in Updates(page[t].view) :
       page' = [page EXCEPT ![t].pc = "admitted", ![t].payload = p]
  /\ UNCHANGED <<documents, settings, request, torn>>

Unmarked(s) == [s EXCEPT !.marked = FALSE]
Marked(s) == [s EXCEPT !.marked = AllDaysOff(s.weekly)]

Sanitized(p) ==
  LET working == {d \in DOMAIN p.overrides : p.overrides[d] # Off}
  IN  [Marked(p) EXCEPT
         !.explicit = IF @ = Absent THEN DOMAIN p.weekly ELSE @,
         !.nonWorking = (@ \cup DOMAIN p.overrides) \ working]

WriteSchedule(t) ==
  /\ page[t].pc = "admitted"
  /\ Unlocked
  /\ exists' = TRUE
  /\ schedule' = Sanitized(page[t].payload)
  /\ torn' = MidSave
  /\ page' = [page EXCEPT ![t].pc = "half"]
  /\ MakeStale
  /\ UNCHANGED <<member, default, settings, saves>>

WriteEntry(t) ==
  /\ page[t].pc = "half"
  /\ Unlocked
  /\ default' = IF member THEN page[t].payload.default ELSE default
  /\ page' = [page EXCEPT ![t].pc = "saved"]
  /\ MakeStale
  /\ UNCHANGED <<exists, schedule, member, settings, saves, torn>>

\* The answer shows what was written, with the default hours of the entry.
Answer(t) ==
  /\ page[t].pc = "saved"
  /\ LET view == View(Sanitized(page[t].payload))
     IN  page' = [page EXCEPT
           ![t].pc = "open",
           ![t].payload = Blank,
           ![t].view = [view EXCEPT !.default = IF member THEN default ELSE @]]
  /\ UNCHANGED <<documents, settings, request, saves, torn>>

\* The request fails, or its answer is lost: the page keeps what it showed.
CutOff(t) ==
  /\ page[t].pc \in {"admitted", "half", "saved"}
  /\ page' = [page EXCEPT ![t].pc = "open", ![t].payload = Blank]
  /\ torn' = (torn \/ page[t].pc = "half")
  /\ UNCHANGED <<documents, settings, request, saves>>

-----------------------------------------------------------------------------
(* The settings page: default hours and week.                              *)

OpenSettings(t) ==
  /\ settings[t].pc \in {"closed", "open"}
  /\ member
  /\ \E view \in {[Blank EXCEPT !.default = default]} \cup
                   IF exists THEN {View(schedule)} ELSE {} :
       settings' = [settings EXCEPT ![t] =
         [pc |-> "open", default |-> view.default, weekly |-> view.weekly]]
  /\ UNCHANGED <<documents, page, request, saves, torn>>

\* The end of the default hours must come after their start.
SentHoursUnordered == Hours \cup {Off}
SentHours == Hours

SaveEntry(t) ==
  /\ settings[t].pc = "open"
  /\ member
  /\ BeginSave
  /\ Unlocked
  /\ \E hours \in SentHours, edit \in Edits :
       /\ default' = hours
       /\ settings' = [settings EXCEPT ![t] =
            [pc |-> "half", default |-> hours, weekly |-> Put(@.weekly, edit)]]
  /\ torn' = MidSave
  /\ MakeStale
  /\ UNCHANGED <<exists, schedule, member, page>>

\* explicitWeeklyDays stays as it is.
WeekSavedAlone(t) == Marked([schedule EXCEPT !.weekly = settings[t].weekly])
WeekSaved(t) ==
  Marked([schedule EXCEPT !.default = settings[t].default,
                          !.weekly = settings[t].weekly])

SaveSchedule(t) ==
  /\ settings[t].pc = "half"
  /\ Unlocked
  /\ exists' = TRUE
  /\ schedule' = WeekSaved(t)
  /\ settings' = [settings EXCEPT ![t].pc = "open"]
  /\ MakeStale
  /\ UNCHANGED <<member, default, page, saves, torn>>

CutOffSettings(t) ==
  /\ settings[t].pc = "half"
  /\ settings' = [settings EXCEPT ![t].pc = "open"]
  /\ torn' = TRUE
  /\ UNCHANGED <<documents, page, request, saves>>

-----------------------------------------------------------------------------
(* Leaving the salon removes the entry; the Schedule stays.  An accepted    *)
(* request to join makes a new entry.                                      *)

Leave ==
  /\ member
  /\ Unlocked
  /\ member' = FALSE
  /\ default' = Fallback
  /\ MakeStale
  /\ UNCHANGED <<exists, schedule, page, settings, saves, torn>>

Join ==
  /\ ~member
  /\ Unlocked
  /\ member' = TRUE
  /\ default' = Fallback
  /\ torn' = TRUE
  /\ MakeStale
  /\ UNCHANGED <<exists, schedule, page, settings, saves>>

-----------------------------------------------------------------------------
(* A booking: a check outside the transaction, the same check on what the   *)
(* transaction reads, and a write to both documents that fails when they    *)
(* changed since.                                                          *)

Ask(r) ==
  /\ request[r].pc = "idle"
  /\ Bookable
  /\ request[r].slot \in ServerHours(request[r].day)
  /\ request' = [request EXCEPT ![r].pc = "checked"]
  /\ UNCHANGED <<documents, page, settings, saves, torn>>

Read(r) ==
  /\ request[r].pc = "checked"
  /\ request' = [request EXCEPT
       ![r].pc = IF Bookable THEN "reading" ELSE "refused",
       ![r].granted = Bookable /\ request[r].slot \in ServerHours(request[r].day),
       ![r].fresh = Bookable]
  /\ UNCHANGED <<documents, page, settings, saves, torn>>

\* Nobody wrote the documents since the transaction read them: otherwise its
\* own write is a conflict, and it starts again.
UntouchedOrNot(r) == TRUE
Untouched(r) == request[r].fresh

Touch(r) ==
  /\ request[r].pc = "reading"
  /\ Unlocked
  /\ request' = [request EXCEPT
       ![r].pc = IF Untouched(r) THEN "touched" ELSE "checked",
       ![r].granted = @ /\ Untouched(r),
       ![r].fresh = FALSE]
  /\ UNCHANGED <<documents, page, settings, saves, torn>>

Commit(r) ==
  /\ request[r].pc = "touched"
  /\ request' = [request EXCEPT
       ![r].pc = IF request[r].granted THEN "booked" ELSE "refused",
       ![r].granted = FALSE]
  /\ UNCHANGED <<documents, page, settings, saves, torn>>

-----------------------------------------------------------------------------
ScheduleNext ==
  \/ \E t \in Page : \/ OpenPage(t)
                     \/ SavePage(t)
                     \/ WriteSchedule(t)
                     \/ WriteEntry(t)
                     \/ Answer(t)
                     \/ CutOff(t)
  \/ \E t \in Settings : \/ OpenSettings(t)
                         \/ SaveEntry(t)
                         \/ SaveSchedule(t)
                         \/ CutOffSettings(t)
  \/ Leave
  \/ Join
  \/ \E r \in Request : Ask(r) \/ Read(r) \/ Touch(r) \/ Commit(r)

ScheduleSpec == ScheduleInit /\ [][ScheduleNext]_scheduleVars

-----------------------------------------------------------------------------
\* A time is booked only at a moment at which the barber works in the salon
\* and the time is within the hours of that day, whatever pages, departures
\* and retries did between the checks of the request and its commit.
BookedInsideHours ==
  [][\A r \in Request :
       request[r].pc # "booked" /\ request'[r].pc = "booked" =>
         Bookable /\ request[r].slot \in ServerHours(request[r].day)]_scheduleVars

\* The booking page, the card and the server derive the hours of a date in
\* three ways, from two copies of the default hours and two records of a day
\* off.  They agree while no save is between its writes, unless saves
\* overlapped or were cut off, or the barber came back to the salon, since
\* the last save that ran alone.
OfferedIsAccepted ==
  Bookable /\ ~MidSave /\ ~torn =>
    \A d \in Day : PageHours(d) = ServerHours(d) /\ CardHours(d) = ServerHours(d)

\* What these two rest on.

\* A date is off by its own hours exactly when it is one of the days off.
DaysOffAgree ==
  \A d \in DOMAIN schedule.overrides :
    d \in schedule.nonWorking <=> schedule.overrides[d] = Off

\* What a request was told holds from its read until somebody writes, and from its
\* own write until its commit.
GrantsHold ==
  \A r \in Request :
    /\ request[r].granted
    /\ request[r].pc = "touched" \/ (request[r].pc = "reading" /\ request[r].fresh)
    => Bookable /\ request[r].slot \in ServerHours(request[r].day)

\* Unless saves were torn apart, at most one is between its writes, the document it
\* wrote has the default hours it goes on with, and without one both copies agree.
SavesInOrder ==
  ~torn =>
    /\ \A t, u \in Page : page[t].pc = "half" /\ page[u].pc = "half" => t = u
    /\ \A t, u \in Settings : settings[t].pc = "half" /\ settings[u].pc = "half" => t = u
    /\ \A t \in Page, u \in Settings : ~(page[t].pc = "half" /\ settings[u].pc = "half")
    /\ \A t \in Page : page[t].pc = "half" => schedule.default = page[t].payload.default
    /\ \A t \in Settings :
         settings[t].pc = "half" /\ member => default = settings[t].default
    /\ ~MidSave /\ member => schedule.default = default

\* The inductive invariant, for all interleavings of the two pages with bookings,
\* departures and returns: default hours are never a day off (the types), days off
\* agree with the hours, no request keeps a grant that a write has overtaken, and the
\* two copies of the default hours part only through saves torn apart.
ScheduleInv ==
  /\ ScheduleTypeOK
  /\ DaysOffAgree
  /\ GrantsHold
  /\ SavesInOrder

\* What a document or a page holds of a day and its date.
Shown(s, d) ==
  <<ExplicitDay(s, d), Restrict(s.weekly, {d} \cap DOMAIN s.weekly),
    Restrict(s.overrides, {d} \cap DOMAIN s.overrides), d \in s.nonWorking>>

\* The Schedule that a step sends which writes it.
Sent ==
  {page[t].payload : t \in {u \in Page : page'[u] # page[u]}}
    \cup {[View(schedule) EXCEPT !.weekly = settings[t].weekly] :
            t \in {u \in Settings : settings'[u] # settings[u]}}

\* A write to the Schedule moves the booking hours of no day for which it
\* sends back what the Schedule shows: neither the marking of weeks off, nor
\* explicitWeeklyDays, nor an old closed week that is not kept, nor a first
\* save turn hours on or off by the way.
UnchangedDaysKeepHours ==
  [][schedule' # schedule =>
       \A s \in Sent, d \in Day :
         Shown(s, d) = Shown(View(schedule), d)
           => ServerHours(d)' = ServerHours(d)]_scheduleVars
=============================================================================
