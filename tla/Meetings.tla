------------------------------ MODULE Meetings ------------------------------
(***************************************************************************)
(* Operations: church units, resources and meetings with their overrides   *)
(* and collection bindings.  Every change is one transaction that locks    *)
(* the row, compares its version with If-Match, raises it and writes an    *)
(* audit row.  Reads are separate statements without a transaction, so     *)
(* that a detail page and a list of occurrences are put together from rows *)
(* of different moments.                                                   *)
(*                                                                         *)
(* Abstracted: what validation refuses is not enumerated; names and venues *)
(* are left out; `plan' stands for all saved fields, of a meeting its      *)
(* schedule and duration.                                                  *)
(***************************************************************************)
EXTENDS Occurrences, FiniteSets

CONSTANTS
    Rows,        \* church units, resources and meetings, by stable key
    KindOf,      \* [Rows -> {"church_unit", "resource", "meeting"}]
    IdemKeys,    \* Idempotency-Key values
    PlansOf,     \* [Rows -> the plans that may be saved]
    Changes,     \* what an override may say: [cancelled, starts, duration]
    OverrideDates,   \* the dates overrides are written for
    Collections, \* media collections
    Sessions,    \* sessions of the admin page
    Ranges,      \* time ranges that are listed: <<from, to>>
    NoRow,       \* no row, nothing read
    MaxRowVersion    \* bound: versions of a row

VARIABLES
    rows,       \* the rows of the three tables, NoRow before their creation
    created,    \* idempotency keys: the row created under each
    overrides,  \* meeting_occurrence_override rows of each meeting
    bindings,   \* meeting_collection_binding rows of each meeting
    audit,      \* operations_audit: for each row the versions it recorded
    editor,     \* what each editor's page shows
    list        \* a request that lists occurrences

meetingVars == <<rows, created, overrides, bindings, audit, editor, list>>

MeetingRows == {r \in Rows : KindOf[r] = "meeting"}
RowStatuses == {"active", "paused", "archived"}

\* The rows that r may have.
RowOf(r) == [plan : PlansOf[r], status : RowStatuses, version : Nat \ {0}]

\* What the handlers let through: saved plans and overrides are valid, and a
\* list is asked for from an instant to a later one (operationsRange).
ValidInputs ==
    /\ \A r \in MeetingRows : \A plan \in PlansOf[r] : IsPlan(plan)
    /\ OverrideDates \subseteq Dates
    /\ \A c \in Changes : IsChange(c)
    /\ \A range \in Ranges : /\ range[1] \in Int /\ range[2] \in Int /\ range[1] < range[2]
                              /\ InCalendar(range[1])

ASSUME MeetingsAssumption ==
    /\ MaxRowVersion \in Nat \ {0}
    /\ \A r \in Rows : NoRow \notin RowOf(r)
    /\ ValidInputs

Blank  == [pc |-> "idle", row |-> NoRow, read |-> NoRow, overrides |-> << >>, bindings |-> {}]
NoList == [pc |-> "idle", range |-> <<0, 0>>, todo |-> << >>, read |-> {}, result |-> {}]

MeetingsInit ==
    /\ rows = [r \in Rows |-> NoRow]
    /\ created = [k \in IdemKeys |-> NoRow]
    /\ overrides = [r \in Rows |-> << >>]
    /\ bindings = [r \in Rows |-> {}]
    /\ audit = [r \in Rows |-> << >>]
    /\ editor = [e \in Sessions |-> Blank]
    /\ list = NoList

----------------------------------------------------------------------------
(* Changes                                                                 *)

\* CreateChurchUnit, CreateResource and CreateMeeting.  A repeated request
\* finds the row of its idempotency key and writes nothing; a stable key that
\* is taken is a conflict.
Create(r, k) ==
    /\ created[k] = NoRow /\ rows[r] = NoRow
    /\ \E plan \in PlansOf[r] :
        rows' = [rows EXCEPT ![r] = [plan |-> plan, status |-> "active", version |-> 1]]
    /\ created' = [created EXCEPT ![k] = r]
    /\ audit' = [audit EXCEPT ![r] = Append(@, 1)]
    /\ UNCHANGED <<overrides, bindings, editor, list>>

CreateChurchUnit(r, k) == KindOf[r] = "church_unit" /\ Create(r, k)
CreateResource(r, k)   == KindOf[r] = "resource" /\ Create(r, k)
CreateMeeting(r, k)    == KindOf[r] = "meeting" /\ Create(r, k)

\* lockChurchUnit, lockResource, lockMeeting: the row for update, with the
\* version of the If-Match header.
LockedRow(e, r) ==
    /\ editor[e].pc = "shown" /\ editor[e].row = r
    /\ rows[r].version = editor[e].read.version
    /\ rows[r].version < MaxRowVersion

\* The version a change leaves, and its audit row.  The editor loads anew.
Written(e, r, changed) ==
    /\ rows' = [rows EXCEPT ![r] = [changed EXCEPT !.version = rows[r].version + 1]]
    /\ audit' = [audit EXCEPT ![r] = Append(@, rows[r].version + 1)]
    /\ editor' = [editor EXCEPT ![e] = Blank]
    /\ UNCHANGED <<created, list>>

SaveRow(e, r) ==
    /\ LockedRow(e, r)
    /\ \E plan \in PlansOf[r] : Written(e, r, [rows[r] EXCEPT !.plan = plan])
    /\ UNCHANGED <<overrides, bindings>>

SaveResource(e, r) == KindOf[r] = "resource" /\ SaveRow(e, r)
SaveMeeting(e, r)  == KindOf[r] = "meeting" /\ SaveRow(e, r)

\* SaveChurchUnit never gets past its UPDATE: it assigns NULLIF($4,'') to a
\* uuid column without the cast CreateChurchUnit has, which Postgres refuses.
\* The transaction is rolled back and the editor is told of an error.
SaveChurchUnit(e, r) ==
    /\ KindOf[r] = "church_unit"
    /\ LockedRow(e, r)
    /\ editor' = [editor EXCEPT ![e] = Blank]
    /\ UNCHANGED <<rows, created, overrides, bindings, audit, list>>

\* pause, resume, archive and restore, from any status.
SetStatus(e, r) ==
    /\ LockedRow(e, r)
    /\ \E s \in RowStatuses : Written(e, r, [rows[r] EXCEPT !.status = s])
    /\ UNCHANGED <<overrides, bindings>>

SetChurchUnitStatus(e, r) == KindOf[r] = "church_unit" /\ SetStatus(e, r)
SetResourceStatus(e, r)   == KindOf[r] = "resource" /\ SetStatus(e, r)
SetMeetingStatus(e, r)    == KindOf[r] = "meeting" /\ SetStatus(e, r)

\* Mutant of PutOverride: the version of the meeting is not raised.
PutOverrideOnly(e, r) ==
    /\ KindOf[r] = "meeting" /\ LockedRow(e, r)
    /\ \E d \in OverrideDates, c \in Changes :
        LET version == IF d \in DOMAIN overrides[r] THEN overrides[r][d].version + 1 ELSE 1
            put == [cancelled |-> c.cancelled, starts |-> c.starts,
                    duration |-> c.duration, version |-> version]
        IN overrides' = [overrides EXCEPT ![r] =
                [x \in DOMAIN @ \cup {d} |-> IF x = d THEN put ELSE @[x]]]
    /\ editor' = [editor EXCEPT ![e] = Blank]
    /\ audit' = [audit EXCEPT ![r] = Append(@, rows[r].version)]
    /\ UNCHANGED <<rows, created, bindings, list>>

\* The override of a date is inserted or replaced with its own version, which
\* starts at 1 again after a delete, and the meeting's version is raised.
PutOverride(e, r) ==
    /\ KindOf[r] = "meeting" /\ LockedRow(e, r)
    /\ \E d \in OverrideDates, c \in Changes :
        LET version == IF d \in DOMAIN overrides[r] THEN overrides[r][d].version + 1 ELSE 1
            put == [cancelled |-> c.cancelled, starts |-> c.starts,
                    duration |-> c.duration, version |-> version]
        IN overrides' = [overrides EXCEPT ![r] =
                [x \in DOMAIN @ \cup {d} |-> IF x = d THEN put ELSE @[x]]]
    /\ Written(e, r, rows[r])
    /\ UNCHANGED bindings

DeleteOverride(e, r) ==
    /\ KindOf[r] = "meeting" /\ LockedRow(e, r)
    /\ \E d \in DOMAIN overrides[r] :
        overrides' = [overrides EXCEPT ![r] = [x \in DOMAIN @ \ {d} |-> @[x]]]
    /\ Written(e, r, rows[r])
    /\ UNCHANGED bindings

\* All bindings are deleted and the given ones inserted.
ReplaceMeetingBindings(e, r) ==
    /\ KindOf[r] = "meeting" /\ LockedRow(e, r)
    /\ \E b \in SUBSET Collections : bindings' = [bindings EXCEPT ![r] = b]
    /\ Written(e, r, rows[r])
    /\ UNCHANGED overrides

----------------------------------------------------------------------------
(* The detail page: the row, its overrides, its bindings, one after the    *)
(* other; the ETag is the row's version.                                   *)

Show(e, shown) ==
    /\ editor' = [editor EXCEPT ![e] = shown]
    /\ UNCHANGED <<rows, created, overrides, bindings, audit, list>>

GetRow(e, r) ==
    /\ editor[e].pc = "idle"
    /\ rows[r] # NoRow
    /\ Show(e, [Blank EXCEPT !.pc = IF r \in MeetingRows THEN "overrides" ELSE "shown",
                             !.row = r, !.read = rows[r]])

ListOverrides(e) ==
    /\ editor[e].pc = "overrides"
    /\ Show(e, [editor[e] EXCEPT !.pc = "bindings", !.overrides = overrides[editor[e].row]])

\* Mutant of ListMeetingBindings: the row is read again, after the rest.
ListMeetingBindingsFirst(e) ==
    /\ editor[e].pc = "bindings"
    /\ Show(e, [editor[e] EXCEPT !.pc = "shown", !.read = rows[editor[e].row],
                                 !.bindings = bindings[editor[e].row]])

ListMeetingBindings(e) ==
    /\ editor[e].pc = "bindings"
    /\ Show(e, [editor[e] EXCEPT !.pc = "shown", !.bindings = bindings[editor[e].row]])

\* The editor leaves the page, or is told that the row has changed.
LeavePage(e) ==
    /\ editor[e].pc = "shown"
    /\ Show(e, Blank)

----------------------------------------------------------------------------
(* Lists of occurrences and media windows: the active meetings in one      *)
(* statement, then the overrides of each.                                  *)

Go(next) ==
    /\ list' = next
    /\ UNCHANGED <<rows, created, overrides, bindings, audit, editor>>

Active(r) == rows[r] # NoRow /\ rows[r].status = "active"

\* ListOccurrences asks for the active meetings, ListMediaSyncWindows for
\* those of them that are bound to a collection.
ListMeetings(range, boundOnly) ==
    /\ list.pc = "idle"
    /\ LET found == {r \in MeetingRows : Active(r) /\ (boundOnly => bindings[r] # {})}
       IN Go([NoList EXCEPT !.pc = "overrides", !.range = range,
                            !.todo = [r \in found |-> rows[r]]])

AsMeeting(read) == [schedule |-> read.plan.schedule, duration |-> read.plan.duration,
                    version |-> read.version]

\* `read' remembers what the occurrences were made from.
ListOccurrences(r) ==
    /\ list.pc = "overrides" /\ r \in DOMAIN list.todo
    /\ Go([list EXCEPT
            !.todo = [x \in DOMAIN @ \ {r} |-> @[x]],
            !.read = @ \cup {[meeting |-> AsMeeting(list.todo[r]), overrides |-> overrides[r]]},
            !.result = @ \cup ResolveOccurrences(AsMeeting(list.todo[r]), overrides[r],
                                                 list.range[1], list.range[2])])

Answer ==
    /\ list.pc = "overrides" /\ DOMAIN list.todo = {}
    /\ Go([list EXCEPT !.pc = "answered"])

Forget == list.pc = "answered" /\ Go(NoList)

MeetingsNext ==
    \/ \E r \in Rows, k \in IdemKeys :
          CreateChurchUnit(r, k) \/ CreateResource(r, k) \/ CreateMeeting(r, k)
    \/ \E e \in Sessions, r \in Rows :
          \/ SaveChurchUnit(e, r) \/ SaveResource(e, r) \/ SaveMeeting(e, r)
          \/ SetChurchUnitStatus(e, r) \/ SetResourceStatus(e, r) \/ SetMeetingStatus(e, r)
          \/ PutOverride(e, r) \/ DeleteOverride(e, r) \/ ReplaceMeetingBindings(e, r)
          \/ GetRow(e, r)
    \/ \E e \in Sessions : ListOverrides(e) \/ ListMeetingBindings(e) \/ LeavePage(e)
    \/ \E range \in Ranges, bound \in BOOLEAN : ListMeetings(range, bound)
    \/ \E r \in MeetingRows : ListOccurrences(r)
    \/ Answer \/ Forget

MeetingsSpec == MeetingsInit /\ [][MeetingsNext]_meetingVars

----------------------------------------------------------------------------
(* Properties                                                              *)

MeetingsTypeOK ==
    /\ \A r \in Rows : rows[r] # NoRow =>
          /\ rows[r].plan \in PlansOf[r] /\ rows[r].status \in RowStatuses
          /\ rows[r].version \in 1 .. MaxRowVersion
    /\ \A r \in Rows : DOMAIN overrides[r] \subseteq OverrideDates
    /\ bindings \in [Rows -> SUBSET Collections]
    /\ created \in [IdemKeys -> Rows \cup {NoRow}]
    /\ \A e \in Sessions : editor[e].pc \in {"idle", "overrides", "bindings", "shown"}
    /\ list.pc \in {"idle", "overrides", "answered"}

\* An editor whose write will be accepted has seen what it replaces: when the
\* ETag of a page is the row's version, the page's fields, overrides and
\* bindings are the current ones, although they are read in three statements
\* (adminGetMeeting; every change raises the version, and it is read first).
AcceptedEditsAreInformed ==
    \A e \in Sessions :
        LET page == editor[e]
        IN (page.pc # "idle" /\ rows[page.row].version = page.read.version) =>
             /\ page.read = rows[page.row]
             /\ page.pc \in {"bindings", "shown"} => page.overrides = overrides[page.row]
             /\ page.pc = "shown" => page.bindings = bindings[page.row]

\* The version of an override stays below its meeting's.  The answer to a put
\* carries the override's version as its ETag: sent back as If-Match it is
\* refused, and never taken for a version of the meeting (adminPutOverride).
OverridesStayBehind ==
    \A r \in Rows : \A d \in DOMAIN overrides[r] : overrides[r][d].version < rows[r].version

\* A list of occurrences holds exactly those that go on at some instant of the
\* range, whatever the overrides, summer time and the edges of the range are,
\* for meetings no longer than the shortest day (ResolveOccurrences).
OccurrencesAreExact ==
    list.pc = "answered" =>
        LET short(m, edits) == \A d \in DatesOf(m) :
                Occurrence(m, edits, d).ends - Occurrence(m, edits, d).starts <= ShortestDay
        IN (\A x \in list.read : short(x.meeting, x.overrides)) =>
              list.result = UNION {Expected(x.meeting, x.overrides, list.range[1], list.range[2]) :
                                    x \in list.read}

\* The media windows cover the same instants as the scheduled occurrences, and
\* leave time between each other: none starts within or at the end of another
\* (unionWindows).
WindowsAreExact ==
    list.pc = "answered" =>
        LET scheduled == {o \in list.result : o.status = "scheduled"}
            windows == SyncWindows(list.result)
        IN /\ \A o \in scheduled : \A t \in o.starts .. o.ends - 1 : Covered(Range(windows), t)
           /\ \A w \in Range(windows) : \A t \in w.starts .. w.ends - 1 : Covered(scheduled, t)
           /\ \A i, j \in DOMAIN windows : i < j => windows[i].ends < windows[j].starts

=============================================================================
