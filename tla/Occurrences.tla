---------------------------- MODULE Occurrences ----------------------------
(***************************************************************************)
(* When a meeting takes place: the expansion of a schedule and its         *)
(* overrides into occurrences (ResolveOccurrences), and the union of the   *)
(* scheduled ones into the windows in which media is collected.            *)
(*                                                                         *)
(* Time is a count of units.  A calendar of Dates cuts it into local days, *)
(* which the changes of summer time make shorter or longer than Standard.  *)
(* Abstracted: identifiers, names and the venue; a date is its own label.  *)
(***************************************************************************)
EXTENDS Integers, Sequences, Functions

CONSTANTS
    Dates,       \* the calendar, 0 .. n
    Week,        \* days in a week
    Standard,    \* units in an ordinary day
    DayLength,   \* [Dates -> Nat]: units in each local day
    Gap,         \* [Dates -> Nat]: the clock time at which it is cut or stretched
    Same         \* an override field that leaves the schedule's value

\* No day is cut before as much of it has passed as is cut: a zone that skips
\* its midnight is left out.
ASSUME CalendarAssumption ==
    /\ \E n \in Dates : n \in Nat /\ Dates = 0 .. n
    /\ DayLength \in [Dates -> Nat \ {0}]
    /\ Standard \in Nat /\ Gap \in [Dates -> 0 .. Standard]
    /\ \A d \in Dates : Gap[d] <= DayLength[d] /\ Standard <= DayLength[d] + Gap[d]

----------------------------------------------------------------------------
(* The calendar                                                            *)

Midnight[d \in Dates] == IF d = 0 THEN 0 ELSE Midnight[d - 1] + DayLength[d - 1]

\* The local date of an instant.
LocalDate(t) == CHOOSE d \in Dates : Midnight[d] <= t /\ t < Midnight[d] + DayLength[d]

Weekday(d) == d % Week

\* time.Date of a wall clock: past the gap, the change of the day is behind it.
\* For a clock that is skipped or shown twice that is a matter of the zone: the
\* gap is the clock before the change west of Greenwich, after it in the east.
Instant(d, clock) ==
    Midnight[d] + clock + IF clock >= Gap[d] THEN DayLength[d] - Standard ELSE 0

InCalendar(t) == \E d \in Dates : Midnight[d] <= t /\ t < Midnight[d] + DayLength[d]

----------------------------------------------------------------------------
(* Occurrences.  A meeting has a schedule, [days, clock] or [once], a      *)
(* duration and a version; `overrides' is a function from the dates that   *)
(* have one.                                                               *)

\* What validation lets through: meetings and overrides last at least a
\* minute, a clock shows a time of day.
IsPlan(m) ==
    /\ m.duration \in Nat \ {0}
    /\ IF m.schedule.type = "once" THEN m.schedule.at \in Int /\ InCalendar(m.schedule.at)
       ELSE m.schedule.clock \in 0 .. Standard - 1

IsChange(c) == c.starts \in Int \cup {Same} /\ c.duration \in (Nat \ {0}) \cup {Same}

\* The weekly dates that can reach into the range: from the day before its
\* first, to the last that begins within it, and every date with an override.
Candidates(m, overrides, from, to) ==
    LET named(d) == Weekday(d) \in m.schedule.days
    IN {d \in Dates : named(d) /\ d >= LocalDate(from) - 1 /\ Midnight[d] <= to}
         \cup {d \in DOMAIN overrides : named(d)}

\* Mutant of ScheduledDates: the search starts at the range's own first day.
ScheduledFromFirstDay(m, overrides, from, to) ==
    IF m.schedule.type = "once" THEN {LocalDate(m.schedule.at)}
    ELSE {d \in Candidates(m, overrides, from, to) : d >= LocalDate(from)}

ScheduledDates(m, overrides, from, to) ==
    IF m.schedule.type = "once" THEN {LocalDate(m.schedule.at)}
    ELSE Candidates(m, overrides, from, to)

ScheduledStart(m, d) ==
    IF m.schedule.type = "once" THEN m.schedule.at ELSE Instant(d, m.schedule.clock)

Or(value, otherwise) == IF value = Same THEN otherwise ELSE value

\* The occurrence of meeting m on a date, as its override changes it.
Occurrence(m, overrides, d) ==
    LET o == IF d \in DOMAIN overrides THEN overrides[d]
             ELSE [cancelled |-> FALSE, starts |-> Same, duration |-> Same, version |-> 0]
        start == Or(o.starts, ScheduledStart(m, d))
    IN [date |-> d, starts |-> start, ends |-> start + Or(o.duration, m.duration),
        status |-> IF o.cancelled THEN "cancelled" ELSE "scheduled",
        version |-> IF o.version > m.version THEN o.version ELSE m.version]

ResolveOccurrences(m, overrides, from, to) ==
    {o \in {Occurrence(m, overrides, d) : d \in ScheduledDates(m, overrides, from, to)} :
        o.starts < to /\ o.ends > from}

----------------------------------------------------------------------------
(* Media windows                                                           *)

Window(o) == [starts |-> o.starts, ends |-> o.ends]

\* Mutant of Joined: a window that lies inside the last one cuts it short.
JoinedToItsEnd(windows, w) ==
    IF windows = << >> THEN <<w>>
    ELSE LET last == windows[Len(windows)]
         IN IF w.starts <= last.ends
            THEN [windows EXCEPT ![Len(windows)].ends = w.ends]
            ELSE Append(windows, w)

\* One window more: it extends the last one when it starts inside or at its end.
Joined(windows, w) ==
    IF windows = << >> THEN <<w>>
    ELSE LET last == windows[Len(windows)]
         IN IF w.starts <= last.ends
            THEN [windows EXCEPT ![Len(windows)].ends = IF w.ends > @ THEN w.ends ELSE @]
            ELSE Append(windows, w)

\* The windows in the order of their starts.
UnionWindows(windows) ==
    LET union[some \in SUBSET windows] ==
            IF some = {} THEN << >>
            ELSE LET last == CHOOSE w \in some : \A v \in some : v.starts <= w.starts
                 IN Joined(union[some \ {last}], last)
    IN union[windows]

SyncWindows(occurrences) ==
    UnionWindows({Window(o) : o \in {p \in occurrences : p.status = "scheduled"}})

----------------------------------------------------------------------------
(* What they should be                                                     *)

ShortestDay == CHOOSE n \in {DayLength[d] : d \in Dates} : \A d \in Dates : n <= DayLength[d]

\* Every date of the calendar that the schedule names, tried one by one.
DatesOf(m) ==
    {d \in Dates : IF m.schedule.type = "once" THEN LocalDate(m.schedule.at) = d
                   ELSE Weekday(d) \in m.schedule.days}

\* An instant of the range, at which something of the meeting goes on.
Reaches(o, from, to) == \E t \in from .. to - 1 : o.starts <= t /\ t < o.ends

Expected(m, overrides, from, to) ==
    {o \in {Occurrence(m, overrides, d) : d \in DatesOf(m)} : Reaches(o, from, to)}

Covered(windows, t) == \E w \in windows : w.starts <= t /\ t < w.ends

=============================================================================
