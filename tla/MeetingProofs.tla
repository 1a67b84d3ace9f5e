---------------------------- MODULE MeetingProofs ----------------------------
(***************************************************************************)
(* Proofs about Meetings: a write that is accepted was made by an editor   *)
(* who has seen what it replaces, although a page is read in three         *)
(* statements, and no override is ahead of its meeting.  MeetingsInv is    *)
(* the inductive invariant: a page never holds a version from the future   *)
(* (PageOK), and rows of other kinds have neither overrides nor bindings,  *)
(* which is why their pages are whole after one statement.                 *)
(*                                                                         *)
(* A list of occurrences and its media windows are exact.  ListInv says    *)
(* that the list holds what ResolveOccurrences makes of the rows and       *)
(* overrides it has read; that this is what goes on in the range, and that *)
(* UnionWindows covers the same instants, is proved about the recursive    *)
(* functions Midnight and union, by induction.                             *)
(***************************************************************************)
EXTENDS Meetings, FiniteSetTheorems, TLAPS

\* A page and a list request have the fields of Blank and NoList.
IsPage(p) == DOMAIN p = {"pc", "row", "read", "overrides", "bindings"}
IsList(l) == DOMAIN l = {"pc", "range", "todo", "read", "result"}

\* What a page in progress shows: its row as it was read, and once it has got
\* that far the overrides and bindings, all current if the version still is.
Informed(page) ==
    /\ page.row \in Rows /\ rows[page.row] \in RowOf(page.row) /\ page.read \in RowOf(page.row)
    /\ page.read.version <= rows[page.row].version
    /\ page.read.version = rows[page.row].version =>
          /\ page.read = rows[page.row]
          /\ page.pc \in {"bindings", "shown"} => page.overrides = overrides[page.row]
          /\ page.pc = "shown" => page.bindings = bindings[page.row]

PageOK(page) ==
    /\ IsPage(page) /\ page.pc \in {"idle", "overrides", "bindings", "shown"}
    /\ page.pc # "idle" => Informed(page)

\* A row, its overrides and its bindings.
RowOK(r) ==
    /\ rows[r] # NoRow => rows[r] \in RowOf(r) /\ rows[r].version <= MaxRowVersion
    /\ rows[r] = NoRow => DOMAIN overrides[r] = {}
    /\ DOMAIN overrides[r] \subseteq OverrideDates
    /\ \A d \in DOMAIN overrides[r] : overrides[r][d].version \in Nat
                                      /\ overrides[r][d].version < rows[r].version
    /\ bindings[r] \subseteq Collections
    /\ r \notin MeetingRows => overrides[r] = << >> /\ bindings[r] = {}

MeetingsInv ==
    /\ rows = [r \in Rows |-> rows[r]]
    /\ overrides = [r \in Rows |-> overrides[r]]
    /\ bindings = [r \in Rows |-> bindings[r]]
    /\ editor = [e \in Sessions |-> editor[e]]
    /\ created \in [IdemKeys -> Rows \cup {NoRow}]
    /\ IsList(list) /\ list.pc \in {"idle", "overrides", "answered"}
    /\ \A r \in Rows : RowOK(r)
    /\ \A e \in Sessions : PageOK(editor[e])

----------------------------------------------------------------------------
(* Steps of the pages and of the lists                                     *)

LEMMA BlankOK == PageOK(Blank) /\ Blank.pc = "idle"
BY DEF PageOK, IsPage, Blank

\* Rows, overrides and bindings stay, and so do the other pages.
LEMMA Shows ==
    ASSUME MeetingsInv, NEW e \in Sessions, NEW shown, PageOK(shown), Show(e, shown)
    PROVE  MeetingsInv'
<1>1. UNCHANGED <<rows, created, overrides, bindings, list>>
  BY DEF Show
<1>2. editor' = [editor EXCEPT ![e] = shown] /\ editor = [x \in Sessions |-> editor[x]]
  BY DEF Show, MeetingsInv
<1>3. editor' = [x \in Sessions |-> editor'[x]] /\ editor'[e] = shown
      /\ \A x \in Sessions \ {e} : editor'[x] = editor[x]
  BY <1>2
<1>4. \A r \in Rows : RowOK(r)'
  BY <1>1 DEF MeetingsInv, RowOK
<1>5. \A x \in Sessions : PageOK(editor[x])'
  BY <1>1, <1>3 DEF MeetingsInv, PageOK, IsPage, Informed
<1> QED BY <1>1, <1>3, <1>4, <1>5 DEF MeetingsInv

LEMMA Lists ==
    ASSUME MeetingsInv, NEW next, IsList(next), next.pc \in {"idle", "overrides", "answered"}, Go(next)
    PROVE  MeetingsInv'
<1>1. UNCHANGED <<rows, created, overrides, bindings, editor>> /\ list' = next
  BY DEF Go
<1>2. \A r \in Rows : RowOK(r)'
  BY <1>1 DEF MeetingsInv, RowOK
<1>3. \A e \in Sessions : PageOK(editor[e])'
  BY <1>1 DEF MeetingsInv, PageOK, IsPage, Informed
<1> QED BY <1>1, <1>2, <1>3 DEF MeetingsInv, IsList

LEMMA GetRowInv ==
    ASSUME MeetingsInv, NEW e \in Sessions, NEW r \in Rows, GetRow(e, r)
    PROVE  MeetingsInv'
<1> DEFINE pc == IF r \in MeetingRows THEN "overrides" ELSE "shown"
           shown == [Blank EXCEPT !.pc = pc, !.row = r, !.read = rows[r]]
<1>1. RowOK(r) /\ rows[r] \in RowOf(r) BY DEF MeetingsInv, RowOK, GetRow
<1>2. /\ shown.pc = pc /\ shown.row = r /\ shown.read = rows[r] /\ IsPage(shown)
      /\ shown.overrides = << >> /\ shown.bindings = {}
  BY DEF Blank, IsPage
<1>3. Show(e, shown) BY DEF GetRow
<1>4. rows[r].version <= rows[r].version BY <1>1 DEF RowOf
<1> HIDE DEF shown
<1>5. Informed(shown)
  BY <1>1, <1>2, <1>4 DEF Informed, RowOK
<1> QED BY <1>2, <1>3, <1>5, Shows DEF PageOK

LEMMA ListOverridesInv ==
    ASSUME MeetingsInv, NEW e \in Sessions, ListOverrides(e)
    PROVE  MeetingsInv'
<1> DEFINE page == editor[e]
           shown == [page EXCEPT !.pc = "bindings", !.overrides = overrides[page.row]]
<1>1. PageOK(page) /\ page.pc = "overrides" BY DEF MeetingsInv, ListOverrides
<1>2. IsPage(page) BY <1>1 DEF PageOK
<1> HIDE DEF page
<1>3. /\ shown.pc = "bindings" /\ shown.row = page.row /\ shown.read = page.read /\ IsPage(shown)
      /\ shown.overrides = overrides[page.row]
  BY <1>2 DEF IsPage
<1>4. Show(e, shown) BY DEF ListOverrides, page
<1> HIDE DEF shown
<1>5. PageOK(shown)
  BY <1>1, <1>3 DEF PageOK, Informed
<1> QED BY <1>4, <1>5, Shows

LEMMA ListMeetingBindingsInv ==
    ASSUME MeetingsInv, NEW e \in Sessions, ListMeetingBindings(e)
    PROVE  MeetingsInv'
<1> DEFINE page == editor[e]
           shown == [page EXCEPT !.pc = "shown", !.bindings = bindings[page.row]]
<1>1. PageOK(page) /\ page.pc = "bindings" BY DEF MeetingsInv, ListMeetingBindings
<1>2. IsPage(page) BY <1>1 DEF PageOK
<1> HIDE DEF page
<1>3. /\ shown.pc = "shown" /\ shown.row = page.row /\ shown.read = page.read /\ IsPage(shown)
      /\ shown.overrides = page.overrides /\ shown.bindings = bindings[page.row]
  BY <1>2 DEF IsPage
<1>4. Show(e, shown) BY DEF ListMeetingBindings, page
<1> HIDE DEF shown
<1>5. PageOK(shown)
  BY <1>1, <1>3 DEF PageOK, Informed
<1> QED BY <1>4, <1>5, Shows

LEMMA ListSteps ==
    ASSUME MeetingsInv,
           \/ \E range \in Ranges, bound \in BOOLEAN : ListMeetings(range, bound)
           \/ \E r \in MeetingRows : ListOccurrences(r)
           \/ Answer \/ Forget
    PROVE  MeetingsInv'
<1>1. IsList(NoList) /\ NoList.pc = "idle" BY DEF IsList, NoList
<1>2. ASSUME NEW range \in Ranges, NEW bound \in BOOLEAN, ListMeetings(range, bound)
      PROVE  MeetingsInv'
  <2>1. PICK todo : Go([NoList EXCEPT !.pc = "overrides", !.range = range, !.todo = todo])
    BY <1>2 DEF ListMeetings
  <2> DEFINE next == [NoList EXCEPT !.pc = "overrides", !.range = range, !.todo = todo]
  <2>2. IsList(next) /\ next.pc = "overrides" BY DEF IsList, NoList
  <2> HIDE DEF next
  <2>3. Go(next) BY <2>1 DEF next
  <2> QED BY <2>2, <2>3, Lists
<1>3. ASSUME NEW r \in MeetingRows, ListOccurrences(r) PROVE MeetingsInv'
  <2>1. IsList(list) /\ list.pc = "overrides" BY <1>3 DEF MeetingsInv, ListOccurrences
  <2>2. PICK todo, read, result :
           Go([list EXCEPT !.todo = todo, !.read = read, !.result = result])
    BY <1>3 DEF ListOccurrences
  <2> DEFINE next == [list EXCEPT !.todo = todo, !.read = read, !.result = result]
  <2>3. IsList(next) /\ next.pc = "overrides" BY <2>1 DEF IsList
  <2> HIDE DEF next
  <2>4. Go(next) BY <2>2 DEF next
  <2> QED BY <2>3, <2>4, Lists
<1>4. CASE Answer
  <2>1. IsList(list) BY DEF MeetingsInv
  <2> DEFINE next == [list EXCEPT !.pc = "answered"]
  <2>2. IsList(next) /\ next.pc = "answered" BY <2>1 DEF IsList
  <2> HIDE DEF next
  <2>3. Go(next) BY <1>4 DEF next, Answer
  <2> QED BY <2>2, <2>3, Lists
<1>5. CASE Forget
  BY <1>1, <1>5, Lists DEF Forget
<1> QED BY <1>2, <1>3, <1>4, <1>5

----------------------------------------------------------------------------
(* Changes of a row                                                        *)

\* A row whose key is locked is there.
LEMMA LockedRowIsThere ==
    ASSUME MeetingsInv, NEW e \in Sessions, NEW r \in Rows, LockedRow(e, r)
    PROVE  /\ rows[r] \in RowOf(r) /\ rows[r] # NoRow /\ rows[r].version < MaxRowVersion
           /\ rows[r].version \in Nat
<1>1. PageOK(editor[e]) /\ editor[e].pc = "shown" /\ editor[e].row = r /\ rows[r].version < MaxRowVersion
  BY DEF MeetingsInv, LockedRow
<1>2. rows[r] \in RowOf(r) BY <1>1 DEF PageOK, Informed
<1> QED BY <1>1, <1>2, MeetingsAssumption DEF RowOf

\* One row is written: its version rises, its overrides keep behind it, and the
\* pages that show it are out of date.
LEMMA Writes ==
    ASSUME MeetingsInv, NEW e \in Sessions, NEW r \in Rows, LockedRow(e, r),
           NEW changed \in RowOf(r), Written(e, r, changed),
           overrides' = [overrides EXCEPT ![r] = overrides'[r]],
           bindings' = [bindings EXCEPT ![r] = bindings'[r]],
           DOMAIN overrides'[r] \subseteq OverrideDates,
           \A d \in DOMAIN overrides'[r] : overrides'[r][d].version \in 0 .. rows[r].version,
           bindings'[r] \subseteq Collections,
           r \notin MeetingRows => overrides'[r] = overrides[r] /\ bindings'[r] = bindings[r]
    PROVE  MeetingsInv'
<1> USE MeetingsAssumption
<1> DEFINE new == [changed EXCEPT !.version = rows[r].version + 1]
<1>1. /\ rows[r] \in RowOf(r) /\ rows[r] # NoRow /\ rows[r].version < MaxRowVersion
      /\ rows[r].version \in Nat
  BY LockedRowIsThere
<1>2. new \in RowOf(r) /\ new.version = rows[r].version + 1
  BY <1>1 DEF RowOf
<1>3. /\ rows' = [rows EXCEPT ![r] = new] /\ editor' = [editor EXCEPT ![e] = Blank]
      /\ UNCHANGED <<created, list>>
  BY DEF Written
<1> HIDE DEF new
<1>4. /\ rows' = [x \in Rows |-> rows'[x]] /\ rows'[r] = new
      /\ \A x \in Rows \ {r} : rows'[x] = rows[x]
  BY <1>3 DEF MeetingsInv
<1>5. /\ overrides' = [x \in Rows |-> overrides'[x]] /\ bindings' = [x \in Rows |-> bindings'[x]]
      /\ \A x \in Rows \ {r} : overrides'[x] = overrides[x] /\ bindings'[x] = bindings[x]
  BY DEF MeetingsInv
<1>6. /\ editor' = [x \in Sessions |-> editor'[x]] /\ editor'[e] = Blank
      /\ \A x \in Sessions \ {e} : editor'[x] = editor[x]
  BY <1>3 DEF MeetingsInv
<1>7. RowOK(r)'
  <2>1. rows'[r] # NoRow /\ rows'[r] \in RowOf(r) /\ rows'[r].version <= MaxRowVersion
    BY <1>1, <1>2, <1>4
  <2>2. \A d \in DOMAIN overrides'[r] : overrides'[r][d].version \in Nat
                                        /\ overrides'[r][d].version < rows'[r].version
    BY <1>1, <1>2, <1>4
  <2>3. RowOK(r) BY DEF MeetingsInv
  <2> QED BY <2>1, <2>2, <2>3 DEF RowOK, MeetingRows
<1>8. \A x \in Rows \ {r} : RowOK(x)'
  BY <1>4, <1>5 DEF MeetingsInv, RowOK
<1>9. ASSUME NEW x \in Sessions PROVE PageOK(editor[x])'
  <2>1. CASE x = e BY <2>1, <1>6, BlankOK DEF PageOK, IsPage
  <2>2. CASE x # e
    <3>1. PageOK(editor[x]) /\ editor'[x] = editor[x] BY <2>2, <1>6 DEF MeetingsInv
    <3>2. CASE editor[x].row = r /\ editor[x].pc # "idle"
      <4>1. /\ editor[x].read \in RowOf(r) /\ editor[x].read.version <= rows[r].version
            /\ editor[x].read.version \in Nat
        BY <3>1, <3>2 DEF PageOK, Informed, RowOf
      <4>2. editor[x].read.version < rows'[r].version BY <4>1, <1>1, <1>2, <1>4
      <4>3. Informed(editor[x])'
        BY <3>1, <3>2, <4>1, <4>2, <1>1, <1>2, <1>4 DEF Informed
      <4> QED BY <3>1, <4>3 DEF PageOK, IsPage
    <3>3. CASE editor[x].row # r \/ editor[x].pc = "idle"
      BY <3>1, <3>3, <1>4, <1>5 DEF PageOK, IsPage, Informed
    <3> QED BY <3>2, <3>3
  <2> QED BY <2>1, <2>2
<1> QED BY <1>3, <1>4, <1>5, <1>6, <1>7, <1>8, <1>9 DEF MeetingsInv

\* The overrides and bindings that a write leaves alone.
LEMMA KeptBehind ==
    ASSUME MeetingsInv, NEW r \in Rows, rows[r] \in RowOf(r)
    PROVE  /\ overrides = [overrides EXCEPT ![r] = overrides[r]]
           /\ bindings = [bindings EXCEPT ![r] = bindings[r]]
           /\ DOMAIN overrides[r] \subseteq OverrideDates
           /\ \A d \in DOMAIN overrides[r] : overrides[r][d].version \in 0 .. rows[r].version
           /\ bindings[r] \subseteq Collections
<1>1. RowOK(r) /\ rows[r].version \in Nat BY DEF MeetingsInv, RowOf
<1>2. overrides = [x \in Rows |-> overrides[x]] /\ bindings = [x \in Rows |-> bindings[x]]
  BY DEF MeetingsInv
<1>3. \A d \in DOMAIN overrides[r] : overrides[r][d].version \in 0 .. rows[r].version
  BY <1>1 DEF RowOK
<1>4. overrides = [overrides EXCEPT ![r] = overrides[r]] /\ bindings = [bindings EXCEPT ![r] = bindings[r]]
  BY <1>2
<1> QED BY <1>1, <1>3, <1>4 DEF RowOK

LEMMA FieldsInv ==
    ASSUME MeetingsInv, NEW e \in Sessions, NEW r \in Rows, SaveRow(e, r) \/ SetStatus(e, r)
    PROVE  MeetingsInv'
<1>1. LockedRow(e, r) /\ UNCHANGED <<overrides, bindings>>
  BY DEF SaveRow, SetStatus
<1>2. rows[r] \in RowOf(r) BY <1>1, LockedRowIsThere
<1>3. \E changed \in RowOf(r) : Written(e, r, changed)
  <2>1. \A plan \in PlansOf[r] : [rows[r] EXCEPT !.plan = plan] \in RowOf(r) BY <1>2 DEF RowOf
  <2>2. \A s \in RowStatuses : [rows[r] EXCEPT !.status = s] \in RowOf(r) BY <1>2 DEF RowOf
  <2>3. CASE SaveRow(e, r) BY <2>1, <2>3 DEF SaveRow
  <2>4. CASE SetStatus(e, r) BY <2>2, <2>4 DEF SetStatus
  <2> QED BY <2>3, <2>4
<1>4. PICK changed \in RowOf(r) : Written(e, r, changed) BY <1>3
<1>5. overrides' = [overrides EXCEPT ![r] = overrides'[r]] /\ bindings' = [bindings EXCEPT ![r] = bindings'[r]]
  BY <1>1, <1>2, KeptBehind
<1>6. /\ DOMAIN overrides'[r] \subseteq OverrideDates /\ bindings'[r] \subseteq Collections
      /\ \A d \in DOMAIN overrides'[r] : overrides'[r][d].version \in 0 .. rows[r].version
  BY <1>1, <1>2, KeptBehind
<1>7. overrides'[r] = overrides[r] /\ bindings'[r] = bindings[r] BY <1>1
<1> QED BY <1>1, <1>4, <1>5, <1>6, <1>7, Writes

LEMMA SaveChurchUnitInv ==
    ASSUME MeetingsInv, NEW e \in Sessions, NEW r \in Rows, SaveChurchUnit(e, r)
    PROVE  MeetingsInv'
BY BlankOK, Shows DEF SaveChurchUnit, Show

LEMMA PutOverrideInv ==
    ASSUME MeetingsInv, NEW e \in Sessions, NEW r \in Rows, PutOverride(e, r)
    PROVE  MeetingsInv'
<1>1. LockedRow(e, r) /\ UNCHANGED bindings /\ r \in MeetingRows /\ Written(e, r, rows[r])
  BY DEF PutOverride, MeetingRows
<1>2. rows[r] \in RowOf(r) /\ rows[r].version \in Nat \ {0} BY <1>1, LockedRowIsThere DEF RowOf
<1>3. RowOK(r) /\ overrides = [x \in Rows |-> overrides[x]] BY DEF MeetingsInv
<1>4a. PICK d \in OverrideDates, c \in Changes :
          LET version == IF d \in DOMAIN overrides[r] THEN overrides[r][d].version + 1 ELSE 1
              put == [cancelled |-> c.cancelled, starts |-> c.starts,
                      duration |-> c.duration, version |-> version]
          IN overrides' = [overrides EXCEPT ![r] =
                [x \in DOMAIN overrides[r] \cup {d} |-> IF x = d THEN put ELSE overrides[r][x]]]
  BY DEF PutOverride
<1> DEFINE version == IF d \in DOMAIN overrides[r] THEN overrides[r][d].version + 1 ELSE 1
           put == [cancelled |-> c.cancelled, starts |-> c.starts,
                   duration |-> c.duration, version |-> version]
<1>4. /\ put.version = IF d \in DOMAIN overrides[r] THEN overrides[r][d].version + 1 ELSE 1
      /\ overrides' = [overrides EXCEPT ![r] =
                [x \in DOMAIN overrides[r] \cup {d} |-> IF x = d THEN put ELSE overrides[r][x]]]
  BY <1>4a
<1> HIDE DEF put, version
<1>5. put.version \in 0 .. rows[r].version
  BY <1>2, <1>3, <1>4 DEF RowOK
<1>6. overrides'[r] = [x \in DOMAIN overrides[r] \cup {d} |-> IF x = d THEN put ELSE overrides[r][x]]
  BY <1>3, <1>4
<1>7. overrides' = [overrides EXCEPT ![r] = overrides'[r]] BY <1>4, <1>6
<1>8. /\ DOMAIN overrides'[r] \subseteq OverrideDates
      /\ \A x \in DOMAIN overrides'[r] : overrides'[r][x].version \in 0 .. rows[r].version
  BY <1>2, <1>3, <1>5, <1>6 DEF RowOK
<1>9. bindings' = [bindings EXCEPT ![r] = bindings'[r]] /\ bindings'[r] \subseteq Collections
  BY <1>1, <1>2, KeptBehind
<1> QED BY <1>1, <1>2, <1>7, <1>8, <1>9, Writes

LEMMA DeleteOverrideInv ==
    ASSUME MeetingsInv, NEW e \in Sessions, NEW r \in Rows, DeleteOverride(e, r)
    PROVE  MeetingsInv'
<1>1. LockedRow(e, r) /\ UNCHANGED bindings /\ r \in MeetingRows /\ Written(e, r, rows[r])
  BY DEF DeleteOverride, MeetingRows
<1>2. rows[r] \in RowOf(r) /\ rows[r].version \in Nat \ {0} BY <1>1, LockedRowIsThere DEF RowOf
<1>3. RowOK(r) /\ overrides = [x \in Rows |-> overrides[x]] BY DEF MeetingsInv
<1>4. PICK d \in DOMAIN overrides[r] :
         overrides' = [overrides EXCEPT ![r] = [x \in DOMAIN overrides[r] \ {d} |-> overrides[r][x]]]
  BY DEF DeleteOverride
<1>5. overrides'[r] = [x \in DOMAIN overrides[r] \ {d} |-> overrides[r][x]]
  BY <1>3, <1>4
<1>6. overrides' = [overrides EXCEPT ![r] = overrides'[r]] BY <1>4, <1>5
<1>7. /\ DOMAIN overrides'[r] \subseteq OverrideDates
      /\ \A x \in DOMAIN overrides'[r] : overrides'[r][x].version \in 0 .. rows[r].version
  BY <1>2, <1>3, <1>5 DEF RowOK
<1>8. bindings' = [bindings EXCEPT ![r] = bindings'[r]] /\ bindings'[r] \subseteq Collections
  BY <1>1, <1>2, KeptBehind
<1> QED BY <1>1, <1>2, <1>6, <1>7, <1>8, Writes

LEMMA ReplaceBindingsInv ==
    ASSUME MeetingsInv, NEW e \in Sessions, NEW r \in Rows, ReplaceMeetingBindings(e, r)
    PROVE  MeetingsInv'
<1>1. LockedRow(e, r) /\ UNCHANGED overrides /\ r \in MeetingRows /\ Written(e, r, rows[r])
  BY DEF ReplaceMeetingBindings, MeetingRows
<1>2. rows[r] \in RowOf(r) BY <1>1, LockedRowIsThere
<1>3. bindings = [x \in Rows |-> bindings[x]] BY DEF MeetingsInv
<1>4. PICK b \in SUBSET Collections : bindings' = [bindings EXCEPT ![r] = b]
  BY DEF ReplaceMeetingBindings
<1>5. bindings'[r] = b /\ bindings' = [bindings EXCEPT ![r] = bindings'[r]] BY <1>3, <1>4
<1>6. /\ overrides' = [overrides EXCEPT ![r] = overrides'[r]] /\ DOMAIN overrides'[r] \subseteq OverrideDates
      /\ \A d \in DOMAIN overrides'[r] : overrides'[r][d].version \in 0 .. rows[r].version
  BY <1>1, <1>2, KeptBehind
<1> QED BY <1>1, <1>2, <1>4, <1>5, <1>6, Writes

LEMMA CreateInv ==
    ASSUME MeetingsInv, NEW r \in Rows, NEW k \in IdemKeys, Create(r, k)
    PROVE  MeetingsInv'
<1> USE MeetingsAssumption
<1>1. PICK plan \in PlansOf[r] :
         rows' = [rows EXCEPT ![r] = [plan |-> plan, status |-> "active", version |-> 1]]
  BY DEF Create
<1> DEFINE new == [plan |-> plan, status |-> "active", version |-> 1]
<1>2. new \in RowOf(r) /\ new.version = 1 BY DEF RowOf, RowStatuses
<1>3. rows' = [rows EXCEPT ![r] = new] BY <1>1
<1> HIDE DEF new
<1>4. /\ rows' = [x \in Rows |-> rows'[x]] /\ rows'[r] = new /\ rows[r] = NoRow
      /\ \A x \in Rows \ {r} : rows'[x] = rows[x]
  BY <1>3 DEF MeetingsInv, Create
<1>5. UNCHANGED <<overrides, bindings, editor, list>> /\ created' \in [IdemKeys -> Rows \cup {NoRow}]
  BY DEF Create, MeetingsInv
<1>6. \A x \in Rows : RowOK(x) BY DEF MeetingsInv
<1>7. RowOK(r)' BY <1>2, <1>4, <1>5, <1>6 DEF RowOK
<1>8. \A x \in Rows \ {r} : RowOK(x)' BY <1>4, <1>5, <1>6 DEF RowOK
<1>9. ASSUME NEW e \in Sessions PROVE PageOK(editor[e])'
  <2>1. PageOK(editor[e]) BY DEF MeetingsInv
  <2>2. editor[e].pc # "idle" => editor[e].row \in Rows \ {r} BY <2>1, <1>4 DEF PageOK, Informed
  <2> QED BY <2>1, <2>2, <1>4, <1>5 DEF PageOK, IsPage, Informed
<1> QED BY <1>4, <1>5, <1>7, <1>8, <1>9 DEF MeetingsInv, IsList

----------------------------------------------------------------------------
(* The invariant of the pages                                              *)

LEMMA MeetingsInitInv == MeetingsInit => MeetingsInv
<1> SUFFICES ASSUME MeetingsInit PROVE MeetingsInv
  OBVIOUS
<1>1. IsList(NoList) /\ NoList.pc = "idle" BY DEF IsList, NoList
<1>2. \A r \in Rows : rows[r] = NoRow /\ overrides[r] = << >> /\ bindings[r] = {}
  BY DEF MeetingsInit
<1>3. DOMAIN << >> = {} OBVIOUS
<1>4. \A r \in Rows : RowOK(r) BY <1>2, <1>3 DEF RowOK
<1>5. \A e \in Sessions : editor[e] = Blank BY DEF MeetingsInit
<1>6. \A e \in Sessions : PageOK(editor[e]) BY <1>5, BlankOK
<1>7. /\ rows = [r \in Rows |-> rows[r]] /\ overrides = [r \in Rows |-> overrides[r]]
      /\ bindings = [r \in Rows |-> bindings[r]] /\ editor = [e \in Sessions |-> editor[e]]
      /\ created \in [IdemKeys -> Rows \cup {NoRow}] /\ list = NoList
  BY DEF MeetingsInit
<1> QED BY <1>1, <1>4, <1>6, <1>7 DEF MeetingsInv

LEMMA MeetingsNextInv == MeetingsInv /\ [MeetingsNext]_meetingVars => MeetingsInv'
<1> SUFFICES ASSUME MeetingsInv, [MeetingsNext]_meetingVars PROVE MeetingsInv'
  OBVIOUS
<1>1. ASSUME NEW r \in Rows, NEW k \in IdemKeys,
             CreateChurchUnit(r, k) \/ CreateResource(r, k) \/ CreateMeeting(r, k)
      PROVE  MeetingsInv'
  BY <1>1, CreateInv DEF CreateChurchUnit, CreateResource, CreateMeeting
<1>2. ASSUME NEW e \in Sessions, NEW r \in Rows,
             \/ SaveResource(e, r) \/ SaveMeeting(e, r)
             \/ SetChurchUnitStatus(e, r) \/ SetResourceStatus(e, r) \/ SetMeetingStatus(e, r)
      PROVE  MeetingsInv'
  BY <1>2, FieldsInv DEF SaveResource, SaveMeeting, SetChurchUnitStatus, SetResourceStatus, SetMeetingStatus
<1>3. ASSUME NEW e \in Sessions, NEW r \in Rows,
             SaveChurchUnit(e, r) \/ PutOverride(e, r) \/ DeleteOverride(e, r)
             \/ ReplaceMeetingBindings(e, r) \/ GetRow(e, r)
      PROVE  MeetingsInv'
  BY <1>3, SaveChurchUnitInv, PutOverrideInv, DeleteOverrideInv, ReplaceBindingsInv, GetRowInv
<1>4. ASSUME NEW e \in Sessions, ListOverrides(e) \/ ListMeetingBindings(e) \/ LeavePage(e)
      PROVE  MeetingsInv'
  BY <1>4, ListOverridesInv, ListMeetingBindingsInv, Shows, BlankOK DEF LeavePage
<1>5. CASE UNCHANGED meetingVars
  <2>1. UNCHANGED <<rows, created, overrides, bindings, editor, list>> BY <1>5 DEF meetingVars
  <2>2. \A r \in Rows : RowOK(r)' BY <2>1 DEF MeetingsInv, RowOK
  <2>3. \A e \in Sessions : PageOK(editor[e])' BY <2>1 DEF MeetingsInv, PageOK, IsPage, Informed
  <2> QED BY <2>1, <2>2, <2>3 DEF MeetingsInv, IsList
<1> QED BY <1>1, <1>2, <1>3, <1>4, <1>5, ListSteps DEF MeetingsNext

LEMMA MeetingsInvariant == MeetingsSpec => []MeetingsInv
BY MeetingsInitInv, MeetingsNextInv, PTL DEF MeetingsSpec

----------------------------------------------------------------------------
(* Induction.  The induction rules of the library take the predicate as a  *)
(* parameter; its WFMin is about sets, and says as much: what holds at 0   *)
(* and at the successor of every number it holds at is stated of the SET   *)
(* of those numbers.                                                       *)

\* A set of natural numbers has a least one.
LEMMA LeastNumber ==
    ASSUME NEW T \in SUBSET Nat, T # {}
    PROVE  \E n \in T : \A m \in T : n <= m
<1> DEFINE R == OpToRel(<, Nat)
<1>1. \A x, y \in Nat : x < y => <<x, y>> \in R
  BY DEF OpToRel
<1>2. IsWellFoundedOn(R, Nat)
  BY NatLessThanWellFounded
<1> HIDE DEF R
<1>3. \E x \in T : \A y \in T : ~ (<<y, x>> \in R)
  BY <1>2, WFMin
<1>4. PICK x \in T : \A y \in T : ~ (<<y, x>> \in R)
  BY <1>3
<1>5. \A y \in T : ~ (y < x)
  BY <1>1, <1>4
<1>6. \A y \in T : x \in Nat /\ y \in Nat
  OBVIOUS
<1> QED BY <1>5, <1>6

\* Induction over the natural numbers, for the members of a set.
LEMMA InductiveSet ==
    ASSUME NEW T, 0 \in T, \A k \in Nat : k \in T => k + 1 \in T
    PROVE  Nat \subseteq T
<1> DEFINE Bad == Nat \ T
<1>1. CASE Bad = {} BY <1>1
<1>2. CASE Bad # {}
  <2>1. PICK k \in Bad : \A m \in Bad : k <= m BY <1>2, LeastNumber
  <2>2. k \in Nat /\ k # 0 BY <2>1
  <2>3. k - 1 \in Nat /\ (k - 1) + 1 = k /\ ~ (k <= k - 1) BY <2>2
  <2>4. k - 1 \in T BY <2>1, <2>3
  <2> QED BY <2>1, <2>3, <2>4
<1> QED BY <1>1, <1>2

----------------------------------------------------------------------------
(* The calendar                                                            *)

\* The equation of Midnight, for a function g on a part of the calendar.
MidnightOf(g, d) == IF d = 0 THEN 0 ELSE g[d - 1] + DayLength[d - 1]

\* The first days of the calendar have midnights.
LEMMA MidnightPrefix ==
    ASSUME NEW n \in Nat, Dates = 0 .. n, DayLength \in [Dates -> Nat \ {0}]
    PROVE  \A k \in Dates : \E g \in [0 .. k -> Nat] : \A d \in 0 .. k : g[d] = MidnightOf(g, d)
<1> DEFINE Good(k) == \E g \in [0 .. k -> Nat] : \A d \in 0 .. k : g[d] = MidnightOf(g, d)
           T == {k \in Nat : k \in Dates => Good(k)}
<1>1. Good(0)
  <2> DEFINE g == [d \in 0 .. 0 |-> 0]
  <2>1. g \in [0 .. 0 -> Nat] OBVIOUS
  <2>2. \A d \in 0 .. 0 : d = 0 /\ g[d] = MidnightOf(g, d) BY DEF MidnightOf
  <2> QED BY <2>1, <2>2
<1>2. ASSUME NEW k \in Dates, k + 1 \in Dates, Good(k) PROVE Good(k + 1)
  <2>1. PICK g \in [0 .. k -> Nat] : \A d \in 0 .. k : g[d] = MidnightOf(g, d)
    BY <1>2
  <2> DEFINE h == [d \in 0 .. k + 1 |-> IF d \in 0 .. k THEN g[d] ELSE g[k] + DayLength[k]]
  <2>2. h \in [0 .. k + 1 -> Nat]
    <3>1. g[k] \in Nat /\ DayLength[k] \in Nat BY <1>2
    <3> QED BY <3>1
  <2>3. \A d \in 0 .. k + 1 : h[d] = MidnightOf(h, d)
    <3>1. SUFFICES ASSUME NEW d \in 0 .. k + 1 PROVE h[d] = MidnightOf(h, d)
      OBVIOUS
    <3>2. CASE d \in 0 .. k
      <4>1. h[d] = g[d] /\ (d # 0 => h[d - 1] = g[d - 1]) BY <3>2
      <4> QED BY <2>1, <3>2, <4>1 DEF MidnightOf
    <3>3. CASE d \notin 0 .. k
      <4>1. d = k + 1 /\ d # 0 /\ d - 1 = k BY <3>3
      <4>2. h[d] = g[k] + DayLength[k] /\ h[k] = g[k] BY <4>1
      <4> QED BY <4>1, <4>2 DEF MidnightOf
    <3> QED BY <3>2, <3>3
  <2> QED BY <2>2, <2>3
<1> HIDE DEF Good
<1>3. \A k \in Nat : k \in T => k + 1 \in T BY <1>2
<1>4. Nat \subseteq T BY <1>1, <1>3, InductiveSet
<1>5. \A k \in Dates : Good(k) BY <1>4
<1> QED BY <1>5 DEF Good

\* The definition of Midnight, a CHOOSE, has the solution it asks for.
LEMMA MidnightEquation ==
    Midnight = [d \in Dates |-> IF d = 0 THEN 0 ELSE Midnight[d - 1] + DayLength[d - 1]]
<1>1. PICK n \in Nat : Dates = 0 .. n BY CalendarAssumption
<1>2. n \in Dates BY <1>1
<1>3. PICK g \in [0 .. n -> Nat] : \A d \in 0 .. n : g[d] = MidnightOf(g, d)
  BY <1>1, <1>2, MidnightPrefix, CalendarAssumption
<1>4. g = [d \in Dates |-> IF d = 0 THEN 0 ELSE g[d - 1] + DayLength[d - 1]]
  BY <1>1, <1>3 DEF MidnightOf
<1> DEFINE P(f) == f = [d \in Dates |-> IF d = 0 THEN 0 ELSE f[d - 1] + DayLength[d - 1]]
<1>5. P(g) BY <1>4
<1>6. Midnight = CHOOSE f : P(f) BY DEF Midnight
<1> HIDE DEF P
<1>7. P(Midnight) BY <1>5, <1>6
<1> QED BY <1>7 DEF P

LEMMA MidnightFacts ==
    /\ \A d \in Dates : d \in Nat /\ DayLength[d] \in Nat \ {0} /\ Midnight[d] \in Nat
    /\ \A d \in Dates : d + 1 \in Dates => Midnight[d + 1] = Midnight[d] + DayLength[d]
<1>1. PICK n \in Nat : Dates = 0 .. n BY CalendarAssumption
<1>2. \A d \in Dates : d \in Nat /\ DayLength[d] \in Nat \ {0}
  BY <1>1, CalendarAssumption
<1>3. \A d \in Dates : Midnight[d] = IF d = 0 THEN 0 ELSE Midnight[d - 1] + DayLength[d - 1]
  BY MidnightEquation
<1>4. \A d \in Dates : d + 1 \in Dates => Midnight[d + 1] = Midnight[d] + DayLength[d]
  <2> SUFFICES ASSUME NEW d \in Dates, d + 1 \in Dates
               PROVE  Midnight[d + 1] = Midnight[d] + DayLength[d]
    OBVIOUS
  <2>1. d + 1 # 0 /\ (d + 1) - 1 = d BY <1>2
  <2> QED BY <1>3, <2>1
<1>5. \A d \in Dates : Midnight[d] \in Nat
  <2> DEFINE T == {k \in Nat : k \in Dates => Midnight[k] \in Nat}
  <2>1. 0 \in T BY <1>3
  <2>2. ASSUME NEW k \in Nat, k \in T PROVE k + 1 \in T
    <3>1. CASE k + 1 \in Dates
      <4>1. k \in Dates BY <1>1, <3>1
      <4>2. Midnight[k + 1] = Midnight[k] + DayLength[k] BY <1>4, <3>1, <4>1
      <4> QED BY <1>2, <2>2, <4>1, <4>2
    <3>2. CASE k + 1 \notin Dates BY <3>2
    <3> QED BY <3>1, <3>2
  <2> HIDE DEF T
  <2>3. Nat \subseteq T BY <2>1, <2>2, InductiveSet
  <2> QED BY <1>2, <2>3 DEF T
<1> QED BY <1>2, <1>4, <1>5

\* A day ends before a later one begins.
LEMMA DaysInOrder ==
    ASSUME NEW d \in Dates, NEW e \in Dates, d < e
    PROVE  Midnight[d] + DayLength[d] <= Midnight[e]
<1> DEFINE T == {k \in Nat : d + 1 + k \in Dates => Midnight[d] + DayLength[d] <= Midnight[d + 1 + k]}
<1>1. PICK n \in Nat : Dates = 0 .. n BY CalendarAssumption
<1>2. d \in Nat /\ Midnight[d] \in Nat /\ DayLength[d] \in Nat BY MidnightFacts
<1>3. 0 \in T
  <2> SUFFICES ASSUME d + 1 \in Dates PROVE Midnight[d] + DayLength[d] <= Midnight[d + 1]
    BY <1>2
  <2> QED BY <1>2, MidnightFacts
<1>4. ASSUME NEW k \in Nat, k \in T PROVE k + 1 \in T
  <2> DEFINE x == d + 1 + k
  <2> SUFFICES ASSUME x + 1 \in Dates PROVE Midnight[d] + DayLength[d] <= Midnight[x + 1]
    BY <1>2
  <2>1. x \in Dates BY <1>1, <1>2
  <2>2. Midnight[d] + DayLength[d] <= Midnight[x] BY <1>4, <2>1
  <2> HIDE DEF x
  <2>3. Midnight[x + 1] = Midnight[x] + DayLength[x] /\ Midnight[x] \in Nat /\ DayLength[x] \in Nat
    BY <2>1, MidnightFacts
  <2> QED BY <1>2, <2>2, <2>3
<1> HIDE DEF T
<1>5. Nat \subseteq T BY <1>3, <1>4, InductiveSet
<1> DEFINE k == e - (d + 1)
<1>6. k \in Nat /\ d + 1 + k = e BY <1>1
<1> HIDE DEF k
<1> QED BY <1>5, <1>6 DEF T

\* An instant of the calendar lies within its local date.
LEMMA LocalDateFacts ==
    ASSUME NEW t \in Int, InCalendar(t)
    PROVE  /\ LocalDate(t) \in Dates
           /\ Midnight[LocalDate(t)] <= t /\ t < Midnight[LocalDate(t)] + DayLength[LocalDate(t)]
BY DEF LocalDate, InCalendar

LEMMA ShortestDayFacts ==
    ShortestDay \in Nat /\ \A d \in Dates : ShortestDay <= DayLength[d]
<1> DEFINE Lengths == {DayLength[d] : d \in Dates}
<1>1. Lengths \in SUBSET Nat BY MidnightFacts
<1>2. Lengths # {}
  <2>1. 0 \in Dates BY CalendarAssumption
  <2> QED BY <2>1
<1>3. \E n \in Lengths : \A m \in Lengths : n <= m BY <1>1, <1>2, LeastNumber
<1>4. \E n \in Lengths : \A d \in Dates : n <= DayLength[d] BY <1>3
<1>5. ShortestDay \in Lengths /\ \A d \in Dates : ShortestDay <= DayLength[d]
  BY <1>4 DEF ShortestDay
<1> QED BY <1>1, <1>5

\* A clock time of a day is an instant of that day, in a cut or stretched one too.
LEMMA ClockInDay ==
    ASSUME NEW d \in Dates, NEW clock \in 0 .. Standard - 1
    PROVE  /\ Instant(d, clock) \in Int
           /\ Midnight[d] <= Instant(d, clock) /\ Instant(d, clock) < Midnight[d] + DayLength[d]
<1>1. Midnight[d] \in Nat /\ DayLength[d] \in Nat BY MidnightFacts
<1>2. /\ Standard \in Nat /\ Gap[d] \in Nat /\ clock \in Nat /\ clock < Standard
      /\ Gap[d] <= DayLength[d] /\ Standard <= DayLength[d] + Gap[d]
  BY CalendarAssumption
<1>3. CASE clock >= Gap[d]
  <2>1. Instant(d, clock) = Midnight[d] + clock + (DayLength[d] - Standard) BY <1>3 DEF Instant
  <2> QED BY <1>1, <1>2, <1>3, <2>1
<1>4. CASE ~ (clock >= Gap[d])
  <2>1. Instant(d, clock) = Midnight[d] + clock + 0 BY <1>4 DEF Instant
  <2> QED BY <1>1, <1>2, <1>4, <2>1
<1> QED BY <1>3, <1>4

----------------------------------------------------------------------------
(* Occurrences                                                             *)

\* The overrides of one meeting.
Edits(edits) == DOMAIN edits \subseteq Dates /\ \A d \in DOMAIN edits : IsChange(edits[d])

LEMMA ScheduledStartType ==
    ASSUME NEW m, IsPlan(m), NEW d \in Dates
    PROVE  ScheduledStart(m, d) \in Int
BY ClockInDay DEF ScheduledStart, IsPlan

\* An occurrence takes time, whatever an override makes of it.
LEMMA OccurrenceTimes ==
    ASSUME NEW m, IsPlan(m), NEW edits, Edits(edits), NEW d \in Dates
    PROVE  LET o == Occurrence(m, edits, d)
           IN o.starts \in Int /\ o.ends \in Int /\ o.starts < o.ends
<1> DEFINE c == IF d \in DOMAIN edits THEN edits[d]
                ELSE [cancelled |-> FALSE, starts |-> Same, duration |-> Same, version |-> 0]
           start == Or(c.starts, ScheduledStart(m, d))
           length == Or(c.duration, m.duration)
<1>1. IsChange(c) BY DEF Edits, IsChange
<1>2. Occurrence(m, edits, d).starts = start /\ Occurrence(m, edits, d).ends = start + length
  BY DEF Occurrence
<1> HIDE DEF c
<1>3. start \in Int BY <1>1, ScheduledStartType DEF Or, IsChange
<1>4. length \in Nat \ {0} BY <1>1 DEF Or, IsChange, IsPlan
<1> QED BY <1>2, <1>3, <1>4

\* What goes on at an instant of the range begins before its end and ends after
\* its start, and conversely.
LEMMA ReachesIsOverlap ==
    ASSUME NEW o, o.starts \in Int, o.ends \in Int, o.starts < o.ends,
           NEW from \in Int, NEW to \in Int, from < to
    PROVE  Reaches(o, from, to) <=> o.starts < to /\ o.ends > from
<1> DEFINE s == o.starts
           e == o.ends
<1>0. s \in Int /\ e \in Int /\ s < e OBVIOUS
<1>1. ASSUME Reaches(o, from, to) PROVE s < to /\ e > from
  <2>1. PICK t \in from .. to - 1 : s <= t /\ t < e BY <1>1 DEF Reaches
  <2> QED BY <1>0, <2>1
<1>2. ASSUME s < to, e > from PROVE Reaches(o, from, to)
  <2> DEFINE t == IF s < from THEN from ELSE s
  <2>1. t \in from .. to - 1 /\ s <= t /\ t < e BY <1>0, <1>2
  <2> QED BY <2>1 DEF Reaches
<1> QED BY <1>1, <1>2

\* The premise of OccurrencesAreExact.
Short(m, edits) == \A d \in DatesOf(m) :
    Occurrence(m, edits, d).ends - Occurrence(m, edits, d).starts <= ShortestDay

LEMMA ScheduledDatesAreDates ==
    ASSUME NEW m, IsPlan(m), NEW edits, Edits(edits), NEW from, NEW to
    PROVE  ScheduledDates(m, edits, from, to) \subseteq DatesOf(m)
<1>1. CASE m.schedule.type = "once"
  BY <1>1, LocalDateFacts DEF ScheduledDates, DatesOf, IsPlan
<1>2. CASE m.schedule.type # "once"
  BY <1>2 DEF ScheduledDates, DatesOf, Candidates, Edits
<1> QED BY <1>1, <1>2

\* A weekly date two or more days before the range is over before it begins:
\* its occurrence starts within the date and lasts no longer than the next.
LEMMA ReachingDatesAreScheduled ==
    ASSUME NEW m, IsPlan(m), NEW edits, Edits(edits), Short(m, edits),
           NEW from \in Int, NEW to \in Int, InCalendar(from), NEW d \in DatesOf(m),
           Occurrence(m, edits, d).starts < to, Occurrence(m, edits, d).ends > from
    PROVE  d \in ScheduledDates(m, edits, from, to)
<1>1. CASE m.schedule.type = "once"
  BY <1>1 DEF ScheduledDates, DatesOf
<1>2. CASE m.schedule.type # "once" /\ d \in DOMAIN edits
  BY <1>2 DEF ScheduledDates, DatesOf, Candidates
<1>3. CASE m.schedule.type # "once" /\ d \notin DOMAIN edits
  <2> DEFINE s == Instant(d, m.schedule.clock)
             first == LocalDate(from)
  <2>1. d \in Dates /\ Weekday(d) \in m.schedule.days BY <1>3 DEF DatesOf
  <2>2. m.schedule.clock \in 0 .. Standard - 1 BY <1>3 DEF IsPlan
  <2>3. s \in Int /\ Midnight[d] <= s /\ s < Midnight[d] + DayLength[d] BY <2>1, <2>2, ClockInDay
  <2>4. Occurrence(m, edits, d).starts = s
    BY <1>3 DEF Occurrence, Or, ScheduledStart
  <2>5. /\ Occurrence(m, edits, d).ends \in Int
        /\ Occurrence(m, edits, d).ends - s <= ShortestDay
    BY <2>1, <2>4, OccurrenceTimes DEF Short
  <2>6. first \in Dates /\ Midnight[first] <= from BY LocalDateFacts
  <2> HIDE DEF s, first
  <2>7. d >= first - 1
    <3> SUFFICES ASSUME ~ (d >= first - 1) PROVE FALSE OBVIOUS
    <3>1. PICK n \in Nat : Dates = 0 .. n BY CalendarAssumption
    <3>2. d + 1 \in Dates /\ d + 1 < first /\ d + 1 # d BY <2>1, <2>6, <3>1
    <3>3. Midnight[d + 1] + DayLength[d + 1] <= Midnight[first] BY <2>6, <3>2, DaysInOrder
    <3>4. Midnight[d + 1] = Midnight[d] + DayLength[d] BY <2>1, <3>2, MidnightFacts
    <3>5. ShortestDay <= DayLength[d + 1] /\ ShortestDay \in Nat BY <3>2, ShortestDayFacts
    <3>6. /\ Midnight[d] \in Nat /\ DayLength[d] \in Nat /\ DayLength[d + 1] \in Nat
          /\ Midnight[first] \in Nat /\ Midnight[d + 1] \in Nat
      BY <2>1, <2>6, <3>2, MidnightFacts
    <3>7. Occurrence(m, edits, d).ends > from OBVIOUS
    <3> QED BY <2>3, <2>5, <2>6, <3>3, <3>4, <3>5, <3>6, <3>7
  <2>8. Midnight[d] <= to
    BY <2>1, <2>3, <2>4, MidnightFacts
  <2> QED BY <1>3, <2>1, <2>7, <2>8 DEF ScheduledDates, Candidates, first
<1> QED BY <1>1, <1>2, <1>3

\* ResolveOccurrences finds the occurrences that reach into the range.
LEMMA ResolutionIsExact ==
    ASSUME NEW m, IsPlan(m), NEW edits, Edits(edits), Short(m, edits),
           NEW from \in Int, NEW to \in Int, from < to, InCalendar(from)
    PROVE  ResolveOccurrences(m, edits, from, to) = Expected(m, edits, from, to)
<1> DEFINE O(d) == Occurrence(m, edits, d)
<1>1. \A d \in DatesOf(m) : O(d).starts \in Int /\ O(d).ends \in Int /\ O(d).starts < O(d).ends
  BY OccurrenceTimes DEF DatesOf
<1>2. \A d \in DatesOf(m) : Reaches(O(d), from, to) <=> O(d).starts < to /\ O(d).ends > from
  <2> TAKE d \in DatesOf(m)
  <2> QED BY <1>1, ReachesIsOverlap
<1>3. ScheduledDates(m, edits, from, to) \subseteq DatesOf(m) BY ScheduledDatesAreDates
<1>4. \A d \in DatesOf(m) : O(d).starts < to /\ O(d).ends > from
                            => d \in ScheduledDates(m, edits, from, to)
  BY ReachingDatesAreScheduled
<1> HIDE DEF O
<1> QED BY <1>2, <1>3, <1>4 DEF ResolveOccurrences, Expected, O

----------------------------------------------------------------------------
(* Media windows.  UnionWindows recurs over the subsets of a finite set,   *)
(* from which Last takes a window that none starts after.  Which one it is *)
(* when several start together does not matter: JoinedWindows asks for no  *)
(* more.                                                                   *)

Windows == [starts : Int, ends : Int]
Last(some) == CHOOSE w \in some : \A v \in some : v.starts <= w.starts

LEMMA LastFacts ==
    ASSUME NEW S \in SUBSET Windows, IsFiniteSet(S), S # {}
    PROVE  Last(S) \in S /\ \A v \in S : v.starts <= Last(S).starts
<1> DEFINE Has(R) == \E w \in R : \A v \in R : v.starts <= w.starts
           T == {k \in Nat : \A R \in SUBSET S : Cardinality(R) = k /\ R # {} => Has(R)}
<1>1. \A R \in SUBSET S : IsFiniteSet(R) /\ Cardinality(R) \in Nat
  BY FS_Subset, FS_CardinalityType
<1>2. 0 \in T BY <1>1, FS_EmptySet
<1>3. ASSUME NEW k \in T PROVE k + 1 \in T
  <2>1. SUFFICES ASSUME NEW R \in SUBSET S, Cardinality(R) = k + 1, R # {} PROVE Has(R)
    OBVIOUS
  <2>2. PICK x \in R : TRUE BY <2>1
  <2>3. IsFiniteSet(R \ {x}) /\ Cardinality(R \ {x}) = k BY <1>1, <2>1, FS_RemoveElement
  <2>4. \A v \in S : v.starts \in Int BY DEF Windows
  <2>5. CASE R \ {x} = {}
    <3>1. \A v \in R : v.starts <= x.starts BY <2>4, <2>5
    <3> QED BY <3>1
  <2>6. CASE R \ {x} # {}
    <3>1. PICK y \in R \ {x} : \A v \in R \ {x} : v.starts <= y.starts
      BY <1>3, <2>3, <2>6
    <3>2. CASE x.starts <= y.starts BY <3>1, <3>2
    <3>3. CASE ~ (x.starts <= y.starts)
      <4>1. \A v \in R : v.starts <= x.starts BY <2>4, <3>1, <3>3
      <4> QED BY <4>1
    <3> QED BY <3>2, <3>3
  <2> QED BY <2>5, <2>6
<1> HIDE DEF T
<1>4. Cardinality(S) \in T BY <1>1, <1>2, <1>3, InductiveSet
<1>5. Has(S) BY <1>4 DEF T
<1> QED BY <1>5 DEF Last

\* The equation of UnionWindows, for a function f on sets of windows.
UnionOf(f, some) == IF some = {} THEN << >> ELSE Joined(f[some \ {Last(some)}], Last(some))

\* The definition of UnionWindows, a CHOOSE, has the solution it asks for: one
\* exists for the sets of up to k windows, for every k.
LEMMA UnionEquation ==
    ASSUME NEW W \in SUBSET Windows, IsFiniteSet(W)
    PROVE  \E f : UnionWindows(W) = f[W] /\ \A some \in SUBSET W : f[some] = UnionOf(f, some)
<1> DEFINE Sub(k) == {S \in SUBSET W : Cardinality(S) <= k}
           Good(k) == \E f : \A S \in Sub(k) : f[S] = UnionOf(f, S)
           T == {k \in Nat : Good(k)}
<1>1. \A S \in SUBSET W : IsFiniteSet(S) /\ Cardinality(S) \in Nat /\ Cardinality(S) <= Cardinality(W)
  BY FS_Subset, FS_CardinalityType
<1>2. 0 \in T
  <2> DEFINE f == [S \in Sub(0) |-> << >>]
  <2>1. \A S \in Sub(0) : S = {} BY <1>1, FS_EmptySet
  <2>2. \A S \in Sub(0) : f[S] = UnionOf(f, S) BY <2>1 DEF UnionOf
  <2> QED BY <2>2
<1>3. ASSUME NEW k \in T PROVE k + 1 \in T
  <2>1. PICK f : \A S \in Sub(k) : f[S] = UnionOf(f, S) BY <1>3
  <2> DEFINE h == [S \in Sub(k + 1) |-> IF S \in Sub(k) THEN f[S] ELSE UnionOf(f, S)]
  <2>2. \A S \in Sub(k + 1) : S # {} => S \ {Last(S)} \in Sub(k) /\ h[S \ {Last(S)}] = f[S \ {Last(S)}]
    <3> SUFFICES ASSUME NEW S \in Sub(k + 1), S # {}
                 PROVE  S \ {Last(S)} \in Sub(k) /\ h[S \ {Last(S)}] = f[S \ {Last(S)}]
      OBVIOUS
    <3>1. Last(S) \in S BY <1>1, LastFacts
    <3>2. Cardinality(S \ {Last(S)}) = Cardinality(S) - 1 BY <1>1, <3>1, FS_RemoveElement
    <3>3. Cardinality(S) \in Nat /\ Cardinality(S) <= k + 1 BY <1>1
    <3>4. S \ {Last(S)} \in Sub(k) BY <3>2, <3>3
    <3>5. S \ {Last(S)} \in Sub(k + 1) BY <1>1, <3>4
    <3> QED BY <3>4, <3>5
  <2>3. \A S \in Sub(k + 1) : h[S] = UnionOf(f, S) BY <2>1
  <2>4. \A S \in Sub(k + 1) : h[S] = UnionOf(h, S)
    <3> HIDE DEF h, Sub
    <3> QED BY <2>2, <2>3 DEF UnionOf
  <2> HIDE DEF h, Sub
  <2>5. Good(k + 1) BY <2>4
  <2> HIDE DEF Good
  <2> QED BY <2>5
<1> HIDE DEF T
<1>4. Cardinality(W) \in T BY <1>1, <1>2, <1>3, InductiveSet
<1>5. PICK f : \A S \in SUBSET W : f[S] = UnionOf(f, S)
  <2>1. Good(Cardinality(W)) BY <1>4 DEF T
  <2>2. Sub(Cardinality(W)) = SUBSET W BY <1>1
  <2> QED BY <2>1, <2>2
<1> DEFINE P(u) == u = [some \in SUBSET W |->
                IF some = {} THEN << >>
                ELSE LET last == CHOOSE w \in some : \A v \in some : v.starts <= w.starts
                     IN Joined(u[some \ {last}], last)]
           g == [some \in SUBSET W |-> f[some]]
<1>6. P(g)
  <2>1. \A some \in SUBSET W : some \ {Last(some)} \in SUBSET W OBVIOUS
  <2>2. \A some \in SUBSET W : g[some] = f[some] OBVIOUS
  <2> HIDE DEF g
  <2>3. \A some \in SUBSET W : g[some] = UnionOf(g, some)
    BY <1>5, <2>1, <2>2 DEF UnionOf
  <2>4. g = [some \in SUBSET W |-> UnionOf(g, some)]
    BY <2>3 DEF g
  <2> QED BY <2>4 DEF UnionOf, Last
<1> DEFINE union == CHOOSE u : P(u)
<1>7. UnionWindows(W) = union[W] BY DEF UnionWindows
<1> HIDE DEF P, g
<1>8. P(union) BY <1>6
<1>9. \A some \in SUBSET W : union[some] = UnionOf(union, some)
  <2> HIDE DEF union
  <2> QED BY <1>8 DEF P, UnionOf, Last
<1> QED BY <1>7, <1>9

CoveredBy(u, t) == \E i \in 1 .. Len(u) : u[i].starts <= t /\ t < u[i].ends

\* What unionWindows makes of the windows S.
WindowsOf(S, u) ==
    /\ u \in Seq(Windows)
    /\ \A i \in 1 .. Len(u) : \E v \in S : u[i].starts = v.starts
    /\ \A t \in Int : CoveredBy(u, t) <=> Covered(S, t)
    /\ \A i, j \in 1 .. Len(u) : i < j => u[i].ends < u[j].starts

LEMMA NoWindows == WindowsOf({}, << >>)
BY DEF WindowsOf, CoveredBy, Covered

\* One window more that starts last.
LEMMA JoinedWindows ==
    ASSUME NEW S \in SUBSET Windows, NEW u, WindowsOf(S, u),
           NEW w \in Windows, \A v \in S : v.starts <= w.starts
    PROVE  WindowsOf(S \cup {w}, Joined(u, w))
<1> DEFINE n == Len(u)
<1>0. /\ u \in Seq(Windows) /\ n \in Nat
      /\ w.starts \in Int /\ w.ends \in Int
      /\ \A i \in 1 .. n : u[i] \in Windows /\ u[i].starts \in Int /\ u[i].ends \in Int
      /\ \A i, j \in 1 .. n : i < j => u[i].ends < u[j].starts
  <2>1. u \in Seq(Windows) /\ \A i, j \in 1 .. n : i < j => u[i].ends < u[j].starts
    BY DEF WindowsOf
  <2>2. n \in Nat /\ \A i \in 1 .. n : u[i] \in Windows BY <2>1
  <2>3. \A v \in Windows : v.starts \in Int /\ v.ends \in Int BY DEF Windows
  <2> QED BY <2>1, <2>2, <2>3
<1>1. \A i \in 1 .. n : u[i].starts <= w.starts
  BY DEF WindowsOf
<1>2. \A t \in Int : CoveredBy(u, t) <=> Covered(S, t)
  BY DEF WindowsOf
<1>3. \A t \in Int : Covered(S \cup {w}, t) <=> CoveredBy(u, t) \/ (w.starts <= t /\ t < w.ends)
  BY <1>2 DEF Covered
<1>4. ASSUME NEW r, r = Append(u, w), n > 0 => u[n].ends < w.starts
      PROVE  WindowsOf(S \cup {w}, r)
  <2>1. r \in Seq(Windows) /\ Len(r) = n + 1 /\ r[n + 1] = w /\ \A i \in 1 .. n : r[i] = u[i]
    BY <1>0, <1>4
  <2>2. \A i \in 1 .. n : r[i].ends < w.starts
    <3> TAKE i \in 1 .. n
    <3>1. CASE i = n BY <1>4, <2>1, <3>1
    <3>2. CASE i # n
      <4>1. n \in 1 .. n /\ i < n BY <1>0, <3>2
      <4>2. u[i].ends < u[n].starts /\ u[n].starts <= w.starts BY <1>0, <1>1, <4>1
      <4> QED BY <1>0, <2>1, <4>1, <4>2
    <3> QED BY <3>1, <3>2
  <2>3. \A i \in 1 .. n + 1 : i \in 1 .. n \/ i = n + 1 BY <1>0
  <2>4. \A i, j \in 1 .. n + 1 : i < j => r[i].ends < r[j].starts
    <3> TAKE i, j \in 1 .. n + 1
    <3>1. CASE i \in 1 .. n /\ j \in 1 .. n BY <1>0, <2>1, <3>1
    <3>2. CASE i \in 1 .. n /\ j = n + 1 BY <2>1, <2>2, <3>2
    <3>3. CASE i = n + 1 BY <1>0, <3>3
    <3> QED BY <2>3, <3>1, <3>2, <3>3
  <2>5. \A i \in 1 .. n + 1 : \E v \in S \cup {w} : r[i].starts = v.starts
    BY <2>1, <2>3 DEF WindowsOf
  <2>6. \A t \in Int : CoveredBy(r, t) <=> CoveredBy(u, t) \/ (w.starts <= t /\ t < w.ends)
    <3>1. n + 1 \in 1 .. n + 1 /\ \A i \in 1 .. n : i \in 1 .. n + 1 BY <1>0
    <3> QED BY <2>1, <2>3, <3>1 DEF CoveredBy
  <2> QED BY <1>3, <2>1, <2>4, <2>5, <2>6 DEF WindowsOf
<1>5. CASE u = << >>
  <2>1. Joined(u, w) = Append(u, w) BY <1>5 DEF Joined
  <2>2. ~ (n > 0) BY <1>5
  <2> HIDE DEF n
  <2> QED BY <1>4, <2>1, <2>2
<1>6. CASE u # << >> /\ ~ (w.starts <= u[n].ends)
  <2>1. Joined(u, w) = Append(u, w) BY <1>6 DEF Joined
  <2>2. n \in 1 .. n BY <1>0, <1>6
  <2>3. u[n].ends < w.starts BY <1>0, <1>6, <2>2
  <2> QED BY <1>4, <2>1, <2>3
<1>7. CASE u # << >> /\ w.starts <= u[n].ends
  <2> DEFINE e == IF w.ends > u[n].ends THEN w.ends ELSE u[n].ends
             r == Joined(u, w)
  <2>1. n \in 1 .. n /\ n > 0 BY <1>0, <1>7
  <2>2. e \in Int /\ u[n].ends <= e /\ w.ends <= e /\ (e = w.ends \/ e = u[n].ends)
    BY <1>0, <2>1
  <2>3. r = [u EXCEPT ![n] = [u[n] EXCEPT !.ends = e]]
    BY <1>7 DEF Joined
  <2> DEFINE last == [u[n] EXCEPT !.ends = e]
  <2>4. last \in Windows /\ last.starts = u[n].starts /\ last.ends = e
    BY <1>0, <2>1, <2>2 DEF Windows
  <2> HIDE DEF e, last
  <2>5. r = [u EXCEPT ![n] = last] BY <2>3 DEF last
  <2> HIDE DEF r
  <2>6. r \in Seq(Windows) /\ Len(r) = n /\ r[n] = last /\ \A i \in 1 .. n : i # n => r[i] = u[i]
    BY <1>0, <2>1, <2>4, <2>5
  <2>7. \A i \in 1 .. n : r[i].starts = u[i].starts
    BY <2>4, <2>6
  <2>8. \A i, j \in 1 .. n : i < j => r[i].ends < r[j].starts
    <3> TAKE i, j \in 1 .. n
    <3>1. i < j => i # n BY <1>0
    <3> QED BY <1>0, <2>6, <2>7, <3>1
  <2>9. \A i \in 1 .. n : \E v \in S \cup {w} : r[i].starts = v.starts
    BY <2>7 DEF WindowsOf
  <2>10. \A t \in Int : CoveredBy(r, t) <=> CoveredBy(u, t) \/ (w.starts <= t /\ t < w.ends)
    <3> TAKE t \in Int
    <3> DEFINE In(x) == x.starts <= t /\ t < x.ends
    <3>1. In(r[n]) <=> In(u[n]) \/ In(w)
      <4>1. r[n].starts = u[n].starts /\ r[n].ends = e BY <2>4, <2>6
      <4>2. /\ u[n].starts \in Int /\ u[n].ends \in Int /\ w.starts \in Int /\ w.ends \in Int
            /\ u[n].starts <= w.starts /\ w.starts <= u[n].ends
        BY <1>0, <1>1, <1>7, <2>1
      <4> QED BY <2>2, <4>1, <4>2
    <3>2. \A i \in 1 .. n : i # n => (In(r[i]) <=> In(u[i])) BY <2>6
    <3>3. CoveredBy(r, t) <=> \E i \in 1 .. n : In(r[i]) BY <2>6 DEF CoveredBy
    <3>4. CoveredBy(u, t) <=> \E i \in 1 .. n : In(u[i]) BY DEF CoveredBy
    <3> HIDE DEF In
    <3>5. CoveredBy(r, t) <=> CoveredBy(u, t) \/ In(w) BY <2>1, <3>1, <3>2, <3>3, <3>4
    <3> QED BY <3>5 DEF In
  <2>11. WindowsOf(S \cup {w}, r) BY <1>3, <2>6, <2>8, <2>9, <2>10 DEF WindowsOf
  <2> QED BY <2>11 DEF r
<1> QED BY <1>5, <1>6, <1>7

\* What unionWindows makes of any finite set of windows.
LEMMA UnionIsExact ==
    ASSUME NEW W \in SUBSET Windows, IsFiniteSet(W)
    PROVE  WindowsOf(W, UnionWindows(W))
<1>1. PICK f : UnionWindows(W) = f[W] /\ \A some \in SUBSET W : f[some] = UnionOf(f, some)
  BY UnionEquation
<1> DEFINE T == {k \in Nat : \A S \in SUBSET W : Cardinality(S) = k => WindowsOf(S, f[S])}
<1>2. \A S \in SUBSET W : IsFiniteSet(S) /\ Cardinality(S) \in Nat /\ S \in SUBSET Windows
  BY FS_Subset, FS_CardinalityType
<1>3. 0 \in T
  <2> SUFFICES ASSUME NEW S \in SUBSET W, Cardinality(S) = 0 PROVE WindowsOf(S, f[S])
    OBVIOUS
  <2>1. S = {} BY <1>2, FS_EmptySet
  <2>2. f[S] = << >> BY <1>1, <2>1 DEF UnionOf
  <2> QED BY <2>1, <2>2, NoWindows
<1>4. ASSUME NEW k \in T PROVE k + 1 \in T
  <2> SUFFICES ASSUME NEW S \in SUBSET W, Cardinality(S) = k + 1 PROVE WindowsOf(S, f[S])
    OBVIOUS
  <2> DEFINE w == Last(S)
             R == S \ {w}
  <2>1. S # {}
    <3>1. k + 1 # 0 OBVIOUS
    <3> QED BY <3>1, FS_EmptySet
  <2>2. w \in S /\ \A v \in S : v.starts <= w.starts BY <1>2, <2>1, LastFacts
  <2>3. R \in SUBSET W /\ R \in SUBSET Windows /\ w \in Windows /\ R \cup {w} = S BY <1>2, <2>2
  <2>4. Cardinality(R) = k BY <1>2, <2>2, FS_RemoveElement
  <2>5. WindowsOf(R, f[R]) BY <1>4, <2>3, <2>4
  <2>6. f[S] = Joined(f[R], w) BY <1>1, <2>1 DEF UnionOf
  <2>7. \A v \in R : v.starts <= w.starts BY <2>2
  <2> HIDE DEF w, R
  <2> QED BY <2>3, <2>5, <2>6, <2>7, JoinedWindows
<1> HIDE DEF T
<1>5. Cardinality(W) \in T BY <1>2, <1>3, <1>4, InductiveSet
<1> QED BY <1>1, <1>5 DEF T

----------------------------------------------------------------------------
(* The lists                                                               *)

\* What a list was made from, and what became of it so far.
Resolved(x, range) == ResolveOccurrences(x.meeting, x.overrides, range[1], range[2])

\* The overrides of every row, and a list, are made of valid inputs; the list
\* holds what ResolveOccurrences makes of all it has read, a finite set.
ListInv ==
    /\ \A r \in Rows : \A d \in DOMAIN overrides[r] : IsChange(overrides[r][d])
    /\ list.pc # "idle" => list.range \in Ranges
    /\ \A r \in DOMAIN list.todo : r \in MeetingRows /\ IsPlan(list.todo[r].plan)
    /\ \A x \in list.read : IsPlan(x.meeting) /\ Edits(x.overrides)
    /\ list.result = UNION {Resolved(x, list.range) : x \in list.read}
    /\ IsFiniteSet(list.result)

LEMMA ResolvedIsFinite ==
    ASSUME NEW m, IsPlan(m), NEW edits, Edits(edits), NEW from, NEW to
    PROVE  IsFiniteSet(ResolveOccurrences(m, edits, from, to))
<1> DEFINE S == ScheduledDates(m, edits, from, to)
           O == {Occurrence(m, edits, d) : d \in S}
           f == [d \in S |-> Occurrence(m, edits, d)]
<1>1. IsFiniteSet(S)
  <2>1. IsFiniteSet(Dates)
    <3>1. PICK n \in Dates : n \in Nat /\ Dates = 0 .. n BY CalendarAssumption
    <3> QED BY <3>1, FS_Interval
  <2>2. S \in SUBSET Dates BY ScheduledDatesAreDates DEF DatesOf
  <2> QED BY <2>1, <2>2, FS_Subset
<1>2. f \in Surjection(S, O) BY DEF Surjection
<1> HIDE DEF f, S, O
<1>3. IsFiniteSet(O) BY <1>1, <1>2, FS_Surjection
<1>4. ResolveOccurrences(m, edits, from, to) \in SUBSET O BY DEF ResolveOccurrences, O, S
<1> QED BY <1>3, <1>4, FS_Subset

\* The list and the overrides stay.
LEMMA ListStays ==
    ASSUME ListInv, UNCHANGED <<overrides, list>>
    PROVE  ListInv'
BY DEF ListInv

\* Other lists than those in progress, and other overrides, stay valid.
LEMMA ListMoves ==
    ASSUME ListInv, NEW next, Go(next),
           next.pc # "idle" => next.range \in Ranges,
           \A r \in DOMAIN next.todo : r \in MeetingRows /\ IsPlan(next.todo[r].plan),
           \A x \in next.read : IsPlan(x.meeting) /\ Edits(x.overrides),
           next.result = UNION {Resolved(x, next.range) : x \in next.read},
           IsFiniteSet(next.result)
    PROVE  ListInv'
<1>1. list' = next /\ UNCHANGED overrides BY DEF Go
<1> QED BY <1>1 DEF ListInv

LEMMA NoListInv ==
    /\ NoList.pc = "idle" /\ DOMAIN NoList.todo = {} /\ NoList.read = {} /\ NoList.result = {}
    /\ NoList.result = UNION {Resolved(x, NoList.range) : x \in NoList.read}
    /\ IsFiniteSet(NoList.result)
<1>1. NoList.pc = "idle" /\ NoList.todo = << >> /\ NoList.read = {} /\ NoList.result = {}
  BY DEF NoList
<1>2. DOMAIN << >> = {} OBVIOUS
<1> QED BY <1>1, <1>2, FS_EmptySet

LEMMA ListMeetingsListInv ==
    ASSUME MeetingsInv, ListInv, NEW range \in Ranges, NEW bound \in BOOLEAN, ListMeetings(range, bound)
    PROVE  ListInv'
<1> DEFINE found == {r \in MeetingRows : Active(r) /\ (bound => bindings[r] # {})}
           todo == [r \in found |-> rows[r]]
           next == [NoList EXCEPT !.pc = "overrides", !.range = range, !.todo = todo]
<1>1. Go(next) BY DEF ListMeetings
<1>2. \A r \in DOMAIN todo : r \in MeetingRows /\ IsPlan(todo[r].plan)
  <2> SUFFICES ASSUME NEW r \in found PROVE r \in MeetingRows /\ IsPlan(todo[r].plan)
    OBVIOUS
  <2>1. r \in MeetingRows /\ r \in Rows /\ rows[r] # NoRow BY DEF Active, MeetingRows
  <2>2. rows[r].plan \in PlansOf[r] BY <2>1 DEF MeetingsInv, RowOK, RowOf
  <2>3. todo[r] = rows[r] OBVIOUS
  <2> QED BY <2>1, <2>2, <2>3, MeetingsAssumption DEF ValidInputs
<1> HIDE DEF todo
<1>3. /\ next.pc = "overrides" /\ next.range = range /\ next.todo = todo
      /\ next.read = {} /\ next.result = {}
  BY DEF NoList
<1> HIDE DEF next
<1>4. next.result = UNION {Resolved(x, next.range) : x \in next.read} /\ IsFiniteSet(next.result)
  BY <1>3, FS_EmptySet
<1> QED BY <1>1, <1>2, <1>3, <1>4, ListMoves

LEMMA ListOccurrencesListInv ==
    ASSUME MeetingsInv, ListInv, NEW r \in MeetingRows, ListOccurrences(r)
    PROVE  ListInv'
<1> DEFINE m == AsMeeting(list.todo[r])
           x == [meeting |-> m, overrides |-> overrides[r]]
           todo == [y \in DOMAIN list.todo \ {r} |-> list.todo[y]]
           more == ResolveOccurrences(m, overrides[r], list.range[1], list.range[2])
           next == [list EXCEPT !.todo = todo, !.read = list.read \cup {x},
                                !.result = list.result \cup more]
<1>1. Go(next) /\ r \in DOMAIN list.todo /\ list.pc = "overrides" BY DEF ListOccurrences
<1>2. IsList(list) BY DEF MeetingsInv
<1>3. IsPlan(m) /\ Edits(overrides[r])
  <2>1. IsPlan(list.todo[r].plan) BY <1>1 DEF ListInv
  <2>2. m.schedule = list.todo[r].plan.schedule /\ m.duration = list.todo[r].plan.duration
    BY DEF AsMeeting
  <2> HIDE DEF m
  <2>3. IsPlan(m) BY <2>1, <2>2 DEF IsPlan
  <2>4. r \in Rows BY DEF MeetingRows
  <2>5. DOMAIN overrides[r] \subseteq Dates
    BY <2>4, MeetingsAssumption DEF MeetingsInv, RowOK, ValidInputs
  <2> QED BY <2>3, <2>4, <2>5 DEF ListInv, Edits
<1>4. more = Resolved(x, list.range) /\ IsPlan(x.meeting) /\ Edits(x.overrides)
  BY <1>3 DEF Resolved
<1>5. IsFiniteSet(list.result \cup more)
  BY <1>3, ResolvedIsFinite, FS_Union DEF ListInv
<1>6. list.result \cup more = UNION {Resolved(y, list.range) : y \in list.read \cup {x}}
  <2> HIDE DEF x, more
  <2> QED BY <1>4 DEF ListInv
<1>7. \A y \in DOMAIN todo : y \in MeetingRows /\ IsPlan(todo[y].plan)
  BY DEF ListInv
<1>8. \A y \in list.read \cup {x} : IsPlan(y.meeting) /\ Edits(y.overrides)
  <2> HIDE DEF x
  <2> QED BY <1>4 DEF ListInv
<1> HIDE DEF todo, x, more
<1>9. /\ next.pc = list.pc /\ next.range = list.range /\ next.todo = todo
      /\ next.read = list.read \cup {x} /\ next.result = list.result \cup more
  BY <1>2 DEF IsList
<1> HIDE DEF next
<1>10. list.range \in Ranges BY <1>1 DEF ListInv
<1> QED BY <1>1, <1>5, <1>6, <1>7, <1>8, <1>9, <1>10, ListMoves

LEMMA AnswerListInv ==
    ASSUME MeetingsInv, ListInv, Answer
    PROVE  ListInv'
<1> DEFINE next == [list EXCEPT !.pc = "answered"]
<1>1. Go(next) /\ list.pc = "overrides" BY DEF Answer
<1>2. /\ next.range = list.range /\ next.todo = list.todo
      /\ next.read = list.read /\ next.result = list.result
  BY DEF MeetingsInv, IsList
<1> HIDE DEF next
<1>3. list' = next /\ UNCHANGED overrides BY <1>1 DEF Go
<1> QED BY <1>1, <1>2, <1>3 DEF ListInv

LEMMA PutOverrideListInv ==
    ASSUME MeetingsInv, ListInv, NEW e \in Sessions, NEW r \in Rows, PutOverride(e, r)
    PROVE  ListInv'
<1>1a. PICK d \in OverrideDates, c \in Changes :
          LET version == IF d \in DOMAIN overrides[r] THEN overrides[r][d].version + 1 ELSE 1
              put == [cancelled |-> c.cancelled, starts |-> c.starts,
                      duration |-> c.duration, version |-> version]
          IN overrides' = [overrides EXCEPT ![r] =
                [x \in DOMAIN overrides[r] \cup {d} |-> IF x = d THEN put ELSE overrides[r][x]]]
  BY DEF PutOverride
<1> DEFINE version == IF d \in DOMAIN overrides[r] THEN overrides[r][d].version + 1 ELSE 1
           put == [cancelled |-> c.cancelled, starts |-> c.starts,
                   duration |-> c.duration, version |-> version]
<1>1. /\ put.starts = c.starts /\ put.duration = c.duration
      /\ overrides' = [overrides EXCEPT ![r] =
                [x \in DOMAIN overrides[r] \cup {d} |-> IF x = d THEN put ELSE overrides[r][x]]]
  BY <1>1a
<1> HIDE DEF put, version
<1>2. IsChange(put) BY <1>1, MeetingsAssumption DEF IsChange, ValidInputs
<1>3. overrides = [x \in Rows |-> overrides[x]] BY DEF MeetingsInv
<1>4. /\ overrides'[r] = [x \in DOMAIN overrides[r] \cup {d} |-> IF x = d THEN put ELSE overrides[r][x]]
      /\ \A x \in Rows \ {r} : overrides'[x] = overrides[x]
  BY <1>1, <1>3
<1>5. \A x \in Rows : \A y \in DOMAIN overrides'[x] : IsChange(overrides'[x][y])
  <2>1. \A y \in DOMAIN overrides'[r] : IsChange(overrides'[r][y])
    BY <1>2, <1>4 DEF ListInv
  <2>2. \A x \in Rows \ {r} : \A y \in DOMAIN overrides'[x] : IsChange(overrides'[x][y])
    BY <1>4 DEF ListInv
  <2> QED BY <2>1, <2>2
<1>6. UNCHANGED list BY DEF PutOverride, Written
<1> QED BY <1>5, <1>6 DEF ListInv

LEMMA DeleteOverrideListInv ==
    ASSUME MeetingsInv, ListInv, NEW e \in Sessions, NEW r \in Rows, DeleteOverride(e, r)
    PROVE  ListInv'
<1>1. PICK d \in DOMAIN overrides[r] :
         overrides' = [overrides EXCEPT ![r] = [x \in DOMAIN overrides[r] \ {d} |-> overrides[r][x]]]
  BY DEF DeleteOverride
<1>2. overrides = [x \in Rows |-> overrides[x]] BY DEF MeetingsInv
<1>3. /\ overrides'[r] = [x \in DOMAIN overrides[r] \ {d} |-> overrides[r][x]]
      /\ \A x \in Rows \ {r} : overrides'[x] = overrides[x]
  BY <1>1, <1>2
<1>4. \A x \in Rows : \A y \in DOMAIN overrides'[x] : IsChange(overrides'[x][y])
  <2>1. \A y \in DOMAIN overrides'[r] : IsChange(overrides'[r][y])
    BY <1>3 DEF ListInv
  <2>2. \A x \in Rows \ {r} : \A y \in DOMAIN overrides'[x] : IsChange(overrides'[x][y])
    BY <1>3 DEF ListInv
  <2> QED BY <2>1, <2>2
<1>5. UNCHANGED list BY DEF DeleteOverride, Written
<1> QED BY <1>4, <1>5 DEF ListInv

LEMMA ListInitInv == MeetingsInit => ListInv
<1> SUFFICES ASSUME MeetingsInit PROVE ListInv
  OBVIOUS
<1>1. list = NoList /\ \A r \in Rows : overrides[r] = << >> BY DEF MeetingsInit
<1>2. DOMAIN << >> = {} OBVIOUS
<1> QED BY <1>1, <1>2, NoListInv DEF ListInv

LEMMA ListNextInv == MeetingsInv /\ ListInv /\ [MeetingsNext]_meetingVars => ListInv'
<1> SUFFICES ASSUME MeetingsInv, ListInv, [MeetingsNext]_meetingVars PROVE ListInv'
  OBVIOUS
<1>1. ASSUME NEW r \in Rows, NEW k \in IdemKeys,
             CreateChurchUnit(r, k) \/ CreateResource(r, k) \/ CreateMeeting(r, k)
      PROVE  ListInv'
  BY <1>1, ListStays DEF CreateChurchUnit, CreateResource, CreateMeeting, Create
<1>2. ASSUME NEW e \in Sessions, NEW r \in Rows, SaveRow(e, r) \/ SetStatus(e, r)
      PROVE  ListInv'
  BY <1>2, ListStays DEF SaveRow, SetStatus, Written
<1>3. ASSUME NEW e \in Sessions, NEW r \in Rows,
             SaveChurchUnit(e, r) \/ ReplaceMeetingBindings(e, r) \/ GetRow(e, r)
      PROVE  ListInv'
  BY <1>3, ListStays DEF SaveChurchUnit, ReplaceMeetingBindings, Written, GetRow, Show
<1>4. ASSUME NEW e \in Sessions, ListOverrides(e) \/ ListMeetingBindings(e) \/ LeavePage(e)
      PROVE  ListInv'
  BY <1>4, ListStays DEF ListOverrides, ListMeetingBindings, LeavePage, Show
<1>5. ASSUME NEW e \in Sessions, NEW r \in Rows, PutOverride(e, r) \/ DeleteOverride(e, r)
      PROVE  ListInv'
  BY <1>5, PutOverrideListInv, DeleteOverrideListInv
<1>6. CASE Forget
  BY <1>6, NoListInv, ListMoves DEF Forget
<1>7. CASE UNCHANGED meetingVars
  BY <1>7, ListStays DEF meetingVars
<1> QED BY <1>1, <1>2, <1>3, <1>4, <1>5, <1>6, <1>7, AnswerListInv,
           ListMeetingsListInv, ListOccurrencesListInv
        DEF MeetingsNext, SaveResource, SaveMeeting,
            SetChurchUnitStatus, SetResourceStatus, SetMeetingStatus

LEMMA ListInvariant == MeetingsSpec => []ListInv
BY MeetingsInitInv, MeetingsNextInv, ListInitInv, ListNextInv, PTL DEF MeetingsSpec

----------------------------------------------------------------------------
(* The theorems                                                            *)

\* Rows, overrides, bindings, pages and lists have the values MeetingsTypeOK says.
THEOREM MeetingTypesHold == MeetingsSpec => []MeetingsTypeOK
<1>1. MeetingsInv => MeetingsTypeOK
  <2> SUFFICES ASSUME MeetingsInv PROVE MeetingsTypeOK
    OBVIOUS
  <2>1. \A r \in Rows : rows[r] # NoRow =>
          /\ rows[r].plan \in PlansOf[r] /\ rows[r].status \in RowStatuses
          /\ rows[r].version \in 1 .. MaxRowVersion
    BY MeetingsAssumption DEF MeetingsInv, RowOK, RowOf
  <2>2. bindings \in [Rows -> SUBSET Collections] BY DEF MeetingsInv, RowOK
  <2> QED BY <2>1, <2>2 DEF MeetingsTypeOK, MeetingsInv, RowOK, PageOK
<1> QED BY <1>1, MeetingsInvariant, PTL

\* AcceptedEditsAreInformed for any number of sessions, meetings and changes: when
\* the ETag of a page is the row's version, all that the page shows is current.
THEOREM EditorsAreInformed == MeetingsSpec => []AcceptedEditsAreInformed
<1>1. MeetingsInv => AcceptedEditsAreInformed
  BY DEF MeetingsInv, PageOK, Informed, AcceptedEditsAreInformed
<1> QED BY <1>1, MeetingsInvariant, PTL

\* OverridesStayBehind for any sequence of puts and deletes: the version of an
\* override is never one of its meeting's later versions.
THEOREM OverridesAreBehind == MeetingsSpec => []OverridesStayBehind
<1>1. MeetingsInv => OverridesStayBehind
  BY DEF MeetingsInv, RowOK, OverridesStayBehind
<1> QED BY <1>1, MeetingsInvariant, PTL

LEMMA ListedOccurrences ==
    ASSUME ListInv, NEW o \in list.result
    PROVE  o.starts \in Int /\ o.ends \in Int /\ o.starts < o.ends
<1>1. PICK x \in list.read : o \in Resolved(x, list.range) BY DEF ListInv
<1>2. IsPlan(x.meeting) /\ Edits(x.overrides) BY DEF ListInv
<1>3. PICK d \in ScheduledDates(x.meeting, x.overrides, list.range[1], list.range[2]) :
         o = Occurrence(x.meeting, x.overrides, d)
  BY <1>1 DEF Resolved, ResolveOccurrences
<1>4. d \in Dates BY <1>2, ScheduledDatesAreDates DEF DatesOf
<1> QED BY <1>2, <1>3, <1>4, OccurrenceTimes

LEMMA ListsAreExact == ListInv => OccurrencesAreExact
<1> SUFFICES ASSUME ListInv, list.pc = "answered", \A x \in list.read : Short(x.meeting, x.overrides)
             PROVE  list.result = UNION {Expected(x.meeting, x.overrides, list.range[1], list.range[2]) :
                                            x \in list.read}
  BY DEF OccurrencesAreExact, Short
<1> DEFINE from == list.range[1]
           to == list.range[2]
<1>1. from \in Int /\ to \in Int /\ from < to /\ InCalendar(from)
  <2>1. list.range \in Ranges BY DEF ListInv
  <2> QED BY <2>1, MeetingsAssumption DEF ValidInputs
<1> HIDE DEF from, to
<1>2. \A x \in list.read : ResolveOccurrences(x.meeting, x.overrides, from, to)
                            = Expected(x.meeting, x.overrides, from, to)
  <2> TAKE x \in list.read
  <2>1. IsPlan(x.meeting) /\ Edits(x.overrides) BY DEF ListInv
  <2> QED BY <1>1, <2>1, ResolutionIsExact
<1>3. list.result = UNION {ResolveOccurrences(x.meeting, x.overrides, from, to) : x \in list.read}
  BY DEF ListInv, Resolved, from, to
<1>4. list.result = UNION {Expected(x.meeting, x.overrides, from, to) : x \in list.read}
  BY <1>2, <1>3
<1> QED BY <1>4 DEF from, to

LEMMA WindowsOfListAreExact == ListInv => WindowsAreExact
<1> SUFFICES ASSUME ListInv PROVE WindowsAreExact
  OBVIOUS
<1> DEFINE scheduled == {o \in list.result : o.status = "scheduled"}
           W == {Window(o) : o \in scheduled}
           u == SyncWindows(list.result)
<1>1. \A o \in scheduled : o.starts \in Int /\ o.ends \in Int
  BY ListedOccurrences
<1>2. W \in SUBSET Windows BY <1>1 DEF Window, Windows
<1>3. IsFiniteSet(W)
  <2> DEFINE f == [o \in scheduled |-> Window(o)]
  <2>1. IsFiniteSet(scheduled)
    <3>1. IsFiniteSet(list.result) /\ scheduled \in SUBSET list.result BY DEF ListInv
    <3> HIDE DEF scheduled
    <3> QED BY <3>1, FS_Subset
  <2>2. f \in Surjection(scheduled, W) BY DEF Surjection
  <2> HIDE DEF f, scheduled, W
  <2> QED BY <2>1, <2>2, FS_Surjection
<1>4. u = UnionWindows(W) BY DEF SyncWindows
<1> HIDE DEF u, W
<1>5. WindowsOf(W, u) BY <1>2, <1>3, <1>4, UnionIsExact
<1>6. u \in Seq(Windows) /\ DOMAIN u = 1 .. Len(u) BY <1>5 DEF WindowsOf
<1>7. \A t \in Int : Covered(Range(u), t) <=> CoveredBy(u, t)
  BY <1>6 DEF Covered, CoveredBy, Range
<1>8. \A t \in Int : Covered(W, t) <=> Covered(scheduled, t)
  <2>1. \A o \in scheduled : Window(o).starts = o.starts /\ Window(o).ends = o.ends BY DEF Window
  <2> HIDE DEF scheduled
  <2> QED BY <2>1 DEF Covered, W
<1>9. \A t \in Int : Covered(Range(u), t) <=> Covered(scheduled, t)
  BY <1>5, <1>7, <1>8 DEF WindowsOf
<1>10. \A o \in scheduled : \A t \in o.starts .. o.ends - 1 : Covered(Range(u), t)
  <2> TAKE o \in scheduled
  <2> TAKE t \in o.starts .. o.ends - 1
  <2>1. t \in Int /\ o.starts <= t /\ t < o.ends BY <1>1
  <2>2. Covered(scheduled, t) BY <2>1 DEF Covered
  <2> QED BY <1>9, <2>1, <2>2
<1>11. \A w \in Range(u) : \A t \in w.starts .. w.ends - 1 : Covered(scheduled, t)
  <2> TAKE w \in Range(u)
  <2> TAKE t \in w.starts .. w.ends - 1
  <2>1. w \in Windows BY <1>6 DEF Range
  <2>2. t \in Int /\ w.starts <= t /\ t < w.ends BY <2>1 DEF Windows
  <2>3. Covered(Range(u), t) BY <2>2 DEF Covered
  <2> QED BY <1>9, <2>2, <2>3
<1>12. \A i, j \in DOMAIN u : i < j => u[i].ends < u[j].starts
  BY <1>5, <1>6 DEF WindowsOf
<1> QED BY <1>10, <1>11, <1>12 DEF WindowsAreExact, u

\* OccurrencesAreExact for every calendar, schedule, set of overrides and range:
\* the dates ResolveOccurrences tries, from the day before the range, miss no
\* occurrence that is no longer than the shortest day, and add none.
THEOREM OccurrenceListsAreExact == MeetingsSpec => []OccurrencesAreExact
BY ListInvariant, ListsAreExact, PTL

\* WindowsAreExact for any number of occurrences, in whatever order those that
\* start together are joined: the windows of unionWindows cover the instants
\* of the scheduled occurrences, no other, and leave time between each other.
THEOREM MediaWindowsAreExact == MeetingsSpec => []WindowsAreExact
BY ListInvariant, WindowsOfListAreExact, PTL

=============================================================================
