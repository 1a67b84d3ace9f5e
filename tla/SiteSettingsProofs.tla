------------------------ MODULE SiteSettingsProofs ------------------------
(***************************************************************************)
(* Proofs about SiteSettings for any editors, locales and number of        *)
(* versions.  The inductive invariant is the conjunction of the properties *)
(* and of two facts about readers: no editor holds a version from the      *)
(* future, and one between the two statements of a read has the links of   *)
(* the version it holds.                                                   *)
(***************************************************************************)
EXTENDS SiteSettings, TLAPS

\* No editor holds a version that does not exist yet, and whoever holds the
\* current one and has read the row has its links.
ReadersBehind ==
    \A e \in Editors :
        /\ client[e].version <= row.version
        /\ client[e].pc = "reading" /\ client[e].version = row.version =>
             client[e].content.links = row.links

\* A layout comes from a version there was.
LayoutBehind == \A l \in Locales : layout[l].version <= row.version

SettingsInv ==
    /\ TypeOK /\ ReadersBehind /\ LayoutBehind
    /\ ReadIsCurrent /\ LayoutIsOnePublication /\ StatusIsVisible /\ EveryVersionIsRecorded

----------------------------------------------------------------------------
(* Type correctness                                                        *)

LEMMA ContentType ==
    ASSUME TypeOK
    PROVE  Content \in Contents
BY DEF TypeOK, Content, Contents

LEMMA RowType ==
    ASSUME TypeOK
    PROVE  row.version \in Versions /\ row.links \in Versions /\ row.version \in Nat
<1>1. row.version \in Versions /\ row.links \in Versions
    BY DEF TypeOK
<1> QED
    BY <1>1 DEF Versions

\* An operation that is let through writes a version within the bound.
LEMMA NextVersion ==
    ASSUME TypeOK, NEW e \in Editors, Locked(e)
    PROVE  row.version + 1 \in Versions
<1>1. row.version \in 1 .. MaxVersion /\ row.version < MaxVersion
    BY RowType DEF Locked, Versions
<1>2. MaxVersion \in Nat
    BY SettingsAssumption
<1> QED
    BY <1>1, <1>2 DEF Versions

\* What a save stores is a content.
LEMMA SavedType ==
    ASSUME TypeOK, NEW e \in Editors, Locked(e),
           NEW links \in {client[e].content.links, row.version + 1},
           NEW newTexts \in {client[e].content.texts, row.version + 1}
    PROVE  [links |-> links, texts |-> newTexts] \in Contents
<1>1. row.version + 1 \in Versions
    BY NextVersion
<1>2. client[e].content \in Contents
    BY DEF TypeOK
<1>3. client[e].content.links \in Versions /\ client[e].content.texts \in Versions
    BY <1>2 DEF Contents
<1>4. links \in Versions /\ newTexts \in Versions
    BY <1>1, <1>3
<1> QED
    BY <1>4 DEF Contents

LEMMA AwayType == Away \in [pc : {"away", "reading", "ready"}, version : 0 .. MaxVersion,
                            content : Contents]
BY SettingsAssumption DEF Away, Contents, Versions

LEMMA NoLayoutType == NoLayout \in [version : 0 .. MaxVersion, content : Contents]
BY SettingsAssumption DEF NoLayout, Contents, Versions

LEMMA AdvanceType ==
    ASSUME TypeOK, NEW e \in Editors, Locked(e), Leave(e),
           NEW status \in Statuses, NEW type \in RevisionTypes, NEW content \in Contents,
           Advance(status, type, content),
           layout' \in [Locales -> [version : 0 .. MaxVersion, content : Contents]]
    PROVE  TypeOK'
<1>1. row.version + 1 \in Versions
    BY NextVersion
<1>2. content.links \in Versions /\ content.texts \in Versions
    BY DEF Contents
<1>3. row' \in [status : Statuses, version : Versions, links : Versions] /\ texts' \in Versions
    BY <1>1, <1>2 DEF Advance
<1>4. revision' \in [Versions -> [type : RevisionTypes, content : Contents]]
    BY <1>1 DEF Advance, TypeOK
<1>5. client' \in [Editors -> [pc : {"away", "reading", "ready"}, version : 0 .. MaxVersion,
                              content : Contents]]
    BY AwayType DEF Leave, TypeOK
<1> QED
    BY <1>3, <1>4, <1>5 DEF TypeOK

\* Reading keeps the types.
LEMMA ReaderType ==
    ASSUME TypeOK, NEW e \in Editors, ReadRow(e) \/ ReadTexts(e) \/ Refused(e)
    PROVE  TypeOK'
<1> DEFINE Client == [pc : {"away", "reading", "ready"}, version : 0 .. MaxVersion,
                      content : Contents]
<1>1. client \in [Editors -> Client] /\ texts \in Versions
    BY DEF TypeOK
<1>2. row.version \in 0 .. MaxVersion /\ row.links \in Versions /\ 1 \in Versions
    BY RowType, SettingsAssumption DEF Versions
<1>3. client[e].content.links \in Versions /\ client[e].version \in 0 .. MaxVersion
    BY <1>1 DEF Contents
<1>4. CASE ReadRow(e)
    <2>1. [pc |-> "reading", version |-> row.version,
           content |-> [links |-> row.links, texts |-> 1]] \in Client
        BY <1>2 DEF Contents
    <2>2. client' \in [Editors -> Client]
        BY <1>1, <1>4, <2>1 DEF ReadRow
    <2> QED
        BY <1>4, <2>2 DEF ReadRow, TypeOK
<1>5. CASE ReadTexts(e)
    <2>1. [pc |-> "ready", version |-> client[e].version,
           content |-> [links |-> client[e].content.links, texts |-> texts]] \in Client
        BY <1>1, <1>3 DEF Contents
    <2>2. client' \in [Editors -> Client]
        BY <1>1, <1>5, <2>1 DEF ReadTexts
    <2> QED
        BY <1>5, <2>2 DEF ReadTexts, TypeOK
<1>6. CASE Refused(e)
    <2>1. client' \in [Editors -> Client]
        BY <1>1, <1>6, AwayType DEF Refused, Leave
    <2> QED
        BY <1>6, <2>1 DEF Refused, TypeOK
<1> QED
    BY <1>4, <1>5, <1>6

----------------------------------------------------------------------------
(* The inductive invariant                                                 *)

LEMMA InitInv ==
    ASSUME Init
    PROVE  SettingsInv
<1> USE SettingsAssumption DEF Init, Versions, Statuses, Contents, RevisionTypes
<1>1. TypeOK
    BY DEF TypeOK, NoRevision, NoLayout, Away
<1>2. ReadersBehind /\ LayoutBehind
    BY DEF ReadersBehind, LayoutBehind, Away, NoLayout
<1>3. ReadIsCurrent
    BY DEF ReadIsCurrent, Away
<1>4. LayoutIsOnePublication /\ StatusIsVisible
    BY DEF LayoutIsOnePublication, StatusIsVisible, NoLayout
<1>5. EveryVersionIsRecorded
    BY DEF EveryVersionIsRecorded, Content, NoRevision
<1> QED
    BY <1>1, <1>2, <1>3, <1>4, <1>5 DEF SettingsInv

\* What the operations have in common: the next version, with its revision.
LEMMA AdvanceStep ==
    ASSUME SettingsInv, TypeOK', NEW e \in Editors, Locked(e), Leave(e),
           NEW status, NEW type, NEW content, Advance(status, type, content),
           type # "none", content \in Contents
    PROVE  /\ ReadersBehind' /\ ReadIsCurrent' /\ EveryVersionIsRecorded'
           /\ row'.version = row.version + 1 /\ row'.status = status
           /\ Content' = content
           /\ revision'[row.version + 1] = [type |-> type, content |-> content]
           /\ \A v \in Versions : v <= row.version => revision'[v] = revision[v]
<1> USE DEF Versions
<1>1. row.version \in Nat /\ row.version + 1 \in Versions
    BY RowType, NextVersion DEF SettingsInv
<1>2. row' = [status |-> status, version |-> row.version + 1, links |-> content.links]
    BY DEF Advance
<1>3. revision' = [revision EXCEPT ![row.version + 1] = [type |-> type, content |-> content]]
    BY DEF Advance
<1>4. client' = [client EXCEPT ![e] = Away]
    BY DEF Leave
<1>5. Content' = content
    BY <1>2 DEF Advance, Content, Contents
<1>6. \A x \in Editors : client'[x].version < row.version + 1
    BY <1>1, <1>4 DEF SettingsInv, TypeOK, ReadersBehind, Away
<1>7. ReadersBehind' /\ ReadIsCurrent'
    BY <1>1, <1>2, <1>6 DEF ReadersBehind, ReadIsCurrent, TypeOK
<1>8. /\ revision'[row.version + 1] = [type |-> type, content |-> content]
      /\ \A v \in Versions : v # row.version + 1 => revision'[v] = revision[v]
    BY <1>1, <1>3 DEF SettingsInv, TypeOK
<1>9. EveryVersionIsRecorded'
    <2>1. \A v \in Versions : v <= row.version + 1 <=> revision'[v].type # "none"
        BY <1>1, <1>8 DEF SettingsInv, EveryVersionIsRecorded
    <2> QED
        BY <1>2, <1>5, <1>8, <2>1 DEF EveryVersionIsRecorded
<1> QED
    BY <1>1, <1>2, <1>5, <1>7, <1>8, <1>9

\* Save and Restore leave the layouts of an earlier version in place.
LEMMA DraftStep ==
    ASSUME SettingsInv, NEW e \in Editors, Locked(e), Leave(e),
           NEW type \in RevisionTypes, NEW content \in Contents,
           Advance("draft", type, content), type # "none", UNCHANGED layout
    PROVE  SettingsInv'
<1>0. TypeOK'
    BY AdvanceType DEF SettingsInv, Statuses, TypeOK
<1>1. /\ ReadersBehind' /\ ReadIsCurrent' /\ EveryVersionIsRecorded'
      /\ row'.version = row.version + 1 /\ row'.status = "draft"
      /\ \A v \in Versions : v <= row.version => revision'[v] = revision[v]
    BY <1>0, AdvanceStep
<1>2. row.version \in Nat
    BY RowType DEF SettingsInv
<1>3. LayoutBehind'
    BY <1>1, <1>2 DEF SettingsInv, LayoutBehind, TypeOK
<1>4. LayoutIsOnePublication'
    <2>1. \A l \in Locales : layout[l].version # 0 =>
              layout[l].version \in Versions /\ layout[l].version <= row.version
        BY DEF SettingsInv, TypeOK, LayoutBehind, Versions
    <2>2. \A l \in Locales : layout[l].version # 0 =>
              revision'[layout[l].version] = revision[layout[l].version]
        BY <1>1, <2>1
    <2> QED
        BY <2>2 DEF SettingsInv, LayoutIsOnePublication, NoLayout
<1>5. StatusIsVisible'
    BY <1>1 DEF StatusIsVisible
<1> QED
    BY <1>0, <1>1, <1>3, <1>4, <1>5 DEF SettingsInv

\* Publish and Unpublish replace the layouts of all locales at once.
LEMMA VisibleStep ==
    ASSUME SettingsInv, NEW e \in Editors, Publish(e) \/ Unpublish(e)
    PROVE  SettingsInv'
<1>1. Content \in Contents
    BY ContentType DEF SettingsInv
<1>2. row.version \in Versions /\ row.version \in Nat
    BY RowType DEF SettingsInv
<1>3. CASE Publish(e)
    <2>1. Locked(e) /\ Leave(e) /\ Advance("published", "published", Content)
        BY <1>3 DEF Publish
    <2>0. layout' \in [Locales -> [version : 0 .. MaxVersion, content : Contents]]
        <3>1. row.version + 1 \in 0 .. MaxVersion
            BY <2>1, NextVersion DEF SettingsInv, Versions
        <3> QED
            BY <1>1, <1>3, <3>1 DEF Publish
    <2>5. TypeOK'
        BY <1>1, <2>1, <2>0, AdvanceType DEF SettingsInv, Statuses, RevisionTypes
    <2>2. /\ ReadersBehind' /\ ReadIsCurrent' /\ EveryVersionIsRecorded'
          /\ row'.version = row.version + 1 /\ row'.status = "published" /\ Content' = Content
          /\ revision'[row.version + 1] = [type |-> "published", content |-> Content]
        BY <1>1, <2>1, <2>5, AdvanceStep
    <2>3. \A l \in Locales : layout'[l] = [version |-> row.version + 1, content |-> Content]
        BY <1>3 DEF Publish
    <2>4. LayoutBehind' /\ LayoutIsOnePublication' /\ StatusIsVisible'
        BY <1>2, <2>2, <2>3 DEF LayoutBehind, LayoutIsOnePublication, StatusIsVisible,
                                NoLayout, Versions
    <2> QED
        BY <2>2, <2>4, <2>5 DEF SettingsInv
<1>4. CASE Unpublish(e)
    <2>1. Locked(e) /\ Leave(e) /\ Advance("unpublished", "unpublished", Content)
        BY <1>4 DEF Unpublish
    <2>0. layout' \in [Locales -> [version : 0 .. MaxVersion, content : Contents]]
        BY <1>4, NoLayoutType DEF Unpublish
    <2>5. TypeOK'
        BY <1>1, <2>1, <2>0, AdvanceType DEF SettingsInv, Statuses, RevisionTypes
    <2>2. /\ ReadersBehind' /\ ReadIsCurrent' /\ EveryVersionIsRecorded'
          /\ row'.version = row.version + 1 /\ row'.status = "unpublished"
        BY <1>1, <2>1, <2>5, AdvanceStep
    <2>3. \A l \in Locales : layout'[l] = NoLayout
        BY <1>4 DEF Unpublish
    <2>4. LayoutBehind' /\ LayoutIsOnePublication' /\ StatusIsVisible'
        BY <1>2, <2>2, <2>3 DEF LayoutBehind, LayoutIsOnePublication, StatusIsVisible,
                                NoLayout, Versions, Public
    <2> QED
        BY <2>2, <2>4, <2>5 DEF SettingsInv
<1> QED
    BY <1>3, <1>4

\* Readers change nothing but what they hold.
LEMMA ReaderStep ==
    ASSUME SettingsInv, NEW e \in Editors,
           ReadRow(e) \/ ReadTexts(e) \/ Refused(e)
    PROVE  SettingsInv'
<1>0. TypeOK'
    BY ReaderType DEF SettingsInv
<1>1. UNCHANGED <<row, texts, revision, layout>> /\ UNCHANGED Content
    BY DEF ReadRow, ReadTexts, Refused, Content
<1>2. ReadersBehind'
    <2> SUFFICES ASSUME NEW x \in Editors
                 PROVE  /\ client'[x].version <= row.version
                        /\ client'[x].pc = "reading" /\ client'[x].version = row.version =>
                             client'[x].content.links = row.links
        BY <1>1 DEF ReadersBehind
    <2>1. row.version \in Nat
        BY RowType DEF SettingsInv
    <2>2. CASE x # e
        BY <2>2 DEF SettingsInv, ReadersBehind, TypeOK, ReadRow, ReadTexts, Refused, Leave
    <2>3. CASE x = e
        BY <2>1, <2>3 DEF SettingsInv, ReadersBehind, TypeOK, ReadRow, ReadTexts, Refused,
                          Leave, Away
    <2> QED
        BY <2>2, <2>3
<1>3. ReadIsCurrent'
    <2> SUFFICES ASSUME NEW x \in Editors, client'[x].pc = "ready",
                        client'[x].version = row.version
                 PROVE  client'[x].content = Content
        BY <1>1 DEF ReadIsCurrent
    <2>1. CASE x # e
        BY <2>1 DEF SettingsInv, ReadIsCurrent, TypeOK, ReadRow, ReadTexts, Refused, Leave
    <2>2. CASE x = e
        BY <2>2 DEF SettingsInv, ReadersBehind, TypeOK, ReadRow, ReadTexts, Refused,
                    Leave, Away, Content
    <2> QED
        BY <2>1, <2>2
<1>4. LayoutBehind' /\ LayoutIsOnePublication' /\ StatusIsVisible' /\ EveryVersionIsRecorded'
    BY <1>1 DEF SettingsInv, LayoutBehind, LayoutIsOnePublication, StatusIsVisible,
                EveryVersionIsRecorded, Public
<1> QED
    BY <1>0, <1>2, <1>3, <1>4 DEF SettingsInv

LEMMA StepInv ==
    ASSUME SettingsInv, [Next]_vars
    PROVE  SettingsInv'
<1>2. CASE UNCHANGED vars
    BY <1>2 DEF vars, SettingsInv, TypeOK, ReadersBehind, LayoutBehind, ReadIsCurrent, Content,
                LayoutIsOnePublication, StatusIsVisible, Public, EveryVersionIsRecorded
<1>3. CASE Next
    <2> SUFFICES ASSUME NEW e \in Editors,
                        \/ ReadRow(e) \/ ReadTexts(e) \/ Refused(e)
                        \/ Save(e) \/ Publish(e) \/ Unpublish(e) \/ Restore(e)
                 PROVE  SettingsInv'
        BY <1>3 DEF Next
    <2>1. CASE ReadRow(e) \/ ReadTexts(e) \/ Refused(e)
        BY <2>1, ReaderStep
    <2>2. CASE Save(e)
        <3>1. PICK links \in {client[e].content.links, row.version + 1},
                   newTexts \in {client[e].content.texts, row.version + 1} :
                Advance("draft", "draft_saved", [links |-> links, texts |-> newTexts])
            BY <2>2 DEF Save
        <3>2. [links |-> links, texts |-> newTexts] \in Contents
            BY <2>2, SavedType DEF Save, SettingsInv
        <3>3. Locked(e) /\ Leave(e) /\ UNCHANGED layout
            BY <2>2 DEF Save
        <3> QED
            BY <3>1, <3>2, <3>3, DraftStep DEF RevisionTypes
    <2>3. CASE Publish(e) \/ Unpublish(e)
        BY <2>3, VisibleStep
    <2>4. CASE Restore(e)
        <3>1. PICK v \in Versions : Advance("draft", "restored_to_draft", revision[v].content)
            BY <2>4 DEF Restore
        <3>2. revision[v].content \in Contents
            BY DEF SettingsInv, TypeOK
        <3>3. Locked(e) /\ Leave(e) /\ UNCHANGED layout
            BY <2>4 DEF Restore
        <3> QED
            BY <3>1, <3>2, <3>3, DraftStep DEF RevisionTypes
    <2> QED
        BY <2>1, <2>2, <2>3, <2>4
<1> QED
    BY <1>2, <1>3

LEMMA Invariance == Spec => []SettingsInv
<1>1. Init => SettingsInv
    BY InitInv
<1>2. SettingsInv /\ [Next]_vars => SettingsInv'
    BY StepInv
<1> QED
    BY <1>1, <1>2, PTL DEF Spec

----------------------------------------------------------------------------
(* The theorems                                                            *)

\* The row, its texts, the revisions, the layouts and what editors hold keep
\* their values.
THEOREM SettingsTypesHold == Spec => []TypeOK
<1>1. SettingsInv => TypeOK
    BY DEF SettingsInv
<1> QED
    BY <1>1, Invariance, PTL

\* No lost update: an editor who holds the current version has seen the links
\* and texts it stands for, so that what a save replaces was known to its
\* editor (loadSiteSettings, lockSiteSettings).
THEOREM NoLostUpdate == Spec => []ReadIsCurrent
<1>1. SettingsInv => ReadIsCurrent
    BY DEF SettingsInv
<1> QED
    BY <1>1, Invariance, PTL

\* The layouts visitors see are those of one published version, in all locales
\* or in none (Publish, Unpublish).
THEOREM OnePublication == Spec => []LayoutIsOnePublication
<1>1. SettingsInv => LayoutIsOnePublication
    BY DEF SettingsInv
<1> QED
    BY <1>1, Invariance, PTL

\* The status of the settings tells what visitors see.
THEOREM StatusTells == Spec => []StatusIsVisible
<1>1. SettingsInv => StatusIsVisible
    BY DEF SettingsInv
<1> QED
    BY <1>1, Invariance, PTL

\* Every version has its revision, and the newest is the current content.
THEOREM RevisionsComplete == Spec => []EveryVersionIsRecorded
<1>1. SettingsInv => EveryVersionIsRecorded
    BY DEF SettingsInv
<1> QED
    BY <1>1, Invariance, PTL

=============================================================================
