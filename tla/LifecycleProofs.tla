-------------------------- MODULE LifecycleProofs --------------------------
(***************************************************************************)
(* What readers see.  The public rows agree with the CMS rows              *)
(* (PublicIsRecorded, PublishedIsPublic), and the publication of bulletins *)
(* implements the abstract lifecycle of an edition (PublishesAsPromised).  *)
(* The argument is per edition: a step keeps it and its public row (Kept), *)
(* drafts it anew or moves it on below its row (Redrafted), or leaves it   *)
(* without a row (Unseen); only a completed publication writes a row.  The *)
(* second part follows the public rows themselves; the third, under the    *)
(* hypothesis that no worker loses its lease, the grants they rest on.     *)
(***************************************************************************)
EXTENDS BulletinProofs

RowIsRecorded(i, l, n) ==
    LET p == pub[l][n]
        v == version[i][l]
    IN /\ Exists(i) /\ issue[i].number = n
       /\ p.ver <= issue[i].version
       /\ v.status \in {"published", "draft", "publishing"}
       /\ v.grant = p.ver
       /\ v.retGrant \in {0, p.ver}
       /\ v.retGrant # 0 => v.retAsset = p.asset
       /\ v.status = "published" => v.asset = p.asset

Recorded(i, l) ==
    /\ \A n \in Numbers : pub[l][n].issue = i => RowIsRecorded(i, l, n)
    /\ version[i][l].status = "published" =>
            Exists(i) /\ pub[l][issue[i].number].issue = i

UniqueNumbers ==
    \A i, j \in Issues :
        (Exists(i) /\ Exists(j) /\ issue[i].number = issue[j].number) => i = j

AllRecorded == \A i \in Issues, l \in Locales : Recorded(i, l)

PublicInv == AgreementInv /\ UniqueNumbers /\ AllRecorded

LEMMA PubFields ==
    ASSUME BulletinAssumption, PublicOK, NEW l \in Locales, NEW n \in Numbers
    PROVE  /\ pub[l][n].issue \in Issues => pub[l][n] \in PubRows
           /\ pub[l][n].issue \in Issues \cup {None}
           /\ pub[l][n] = NoPub <=> pub[l][n].issue = None
<1>1. pub[l][n] \in PubRows \cup {NoPub}
  BY DEF PublicOK
<1>2. None \notin Issues
  BY DEF BulletinAssumption
<1> QED
  BY <1>1, <1>2 DEF PubRows, NoPub

----------------------------------------------------------------------------
(* The ways a step treats an edition                                       *)

\* The issue is still there, under its number.
StillThere(i) ==
    Exists(i) => /\ Exists(i)'
                 /\ issue'[i].number = issue[i].number
                 /\ issue[i].version <= issue'[i].version

SameSeen(i, l) ==
    \A n \in Numbers : (pub[l][n].issue = i \/ pub'[l][n].issue = i) => pub'[l][n] = pub[l][n]

LEMMA Versions0 ==
    ASSUME BulletinAssumption, CmsOK, PublicOK, NEW i \in Issues, NEW l \in Locales,
           NEW n \in Numbers, pub[l][n].issue = i
    PROVE  /\ pub[l][n].ver \in Nat /\ pub[l][n].ver # 0 /\ pub[l][n].asset \in Assets
           /\ issue[i].version \in Nat
<1>1. pub[l][n] \in PubRows
  BY PubFields
<1> QED
  BY <1>1, IssueFields DEF PubRows, Versions, GrantIds

LEMMA Kept ==
    ASSUME BulletinAssumption, TypeOK, TypeOK', NEW i \in Issues, NEW l \in Locales,
           Recorded(i, l), StillThere(i), SameSeen(i, l), version'[i][l] = version[i][l]
    PROVE  Recorded(i, l)'
<1>1. ASSUME NEW n \in Numbers, pub'[l][n].issue = i
      PROVE  RowIsRecorded(i, l, n)'
  <2>1. pub'[l][n] = pub[l][n] /\ RowIsRecorded(i, l, n)
    BY <1>1 DEF SameSeen, Recorded
  <2>2. /\ pub[l][n].ver \in Nat
        /\ issue[i].version \in Nat /\ issue'[i].version \in Nat
    <3>1. pub[l][n].ver \in Nat /\ issue[i].version \in Nat
      BY <1>1, <2>1, Versions0 DEF TypeOK
    <3>2. CmsOK'
      BY DEF TypeOK
    <3>3. issue'[i] \in IssueRows
      BY <3>2 DEF CmsOK
    <3> QED
      BY <3>1, <3>3 DEF IssueRows, IssueRow, NoIssue, Versions
  <2> QED
    BY <2>1, <2>2 DEF RowIsRecorded, StillThere
<1>2. ASSUME version'[i][l].status = "published"
      PROVE  Exists(i)' /\ pub'[l][issue'[i].number].issue = i
  <2>1. Exists(i) /\ pub[l][issue[i].number].issue = i
    BY <1>2 DEF Recorded
  <2>2. issue[i].number \in Numbers
    BY <2>1, IssueFields DEF TypeOK
  <2> QED
    BY <2>1, <2>2 DEF StillThere, SameSeen
<1> QED
  BY <1>1, <1>2 DEF Recorded

\* The grants of a published edition become the retiring ones, or stay.
LEMMA Redrafted ==
    ASSUME BulletinAssumption, TypeOK, TypeOK', NEW i \in Issues, NEW l \in Locales,
           Recorded(i, l), StillThere(i), SameSeen(i, l),
           version'[i][l].status \in {"draft", "publishing"},
           version'[i][l].grant = version[i][l].grant,
           \/ /\ version'[i][l].retAsset = version[i][l].retAsset
              /\ version'[i][l].retGrant = version[i][l].retGrant
           \/ /\ version[i][l].status = "published"
              /\ version'[i][l].retAsset = version[i][l].asset
              /\ version'[i][l].retGrant = version[i][l].grant
    PROVE  Recorded(i, l)'
<1>1. ASSUME NEW n \in Numbers, pub'[l][n].issue = i
      PROVE  RowIsRecorded(i, l, n)'
  <2>1. pub'[l][n] = pub[l][n] /\ RowIsRecorded(i, l, n)
    BY <1>1 DEF SameSeen, Recorded
  <2>2. /\ pub[l][n].ver \in Nat
        /\ issue[i].version \in Nat /\ issue'[i].version \in Nat
    <3>1. pub[l][n].ver \in Nat /\ issue[i].version \in Nat
      BY <1>1, <2>1, Versions0 DEF TypeOK
    <3>2. CmsOK'
      BY DEF TypeOK
    <3>3. issue'[i] \in IssueRows
      BY <3>2 DEF CmsOK
    <3> QED
      BY <3>1, <3>3 DEF IssueRows, IssueRow, NoIssue, Versions
  <2> QED
    BY <2>1, <2>2 DEF RowIsRecorded, StillThere
<1> QED
  BY <1>1 DEF Recorded

LEMMA Unseen ==
    ASSUME NEW i \in Issues, NEW l \in Locales,
           \A n \in Numbers : pub'[l][n].issue # i,
           version'[i][l].status # "published"
    PROVE  Recorded(i, l)'
BY DEF Recorded

\* An edition without a grant has no public row.
LEMMA NoGrantNoRow ==
    ASSUME BulletinAssumption, TypeOK, NEW i \in Issues, NEW l \in Locales, Recorded(i, l),
           \/ ~HasGrant(version[i][l])
           \/ version[i][l].status \notin {"published", "draft", "publishing"}
    PROVE  \A n \in Numbers : pub[l][n].issue # i
<1> SUFFICES ASSUME NEW n \in Numbers, pub[l][n].issue = i
             PROVE  FALSE
  OBVIOUS
<1>1. RowIsRecorded(i, l, n)
  BY DEF Recorded
<1>2. pub[l][n].ver # 0
  BY Versions0 DEF TypeOK
<1> QED
  BY <1>1, <1>2 DEF RowIsRecorded, HasGrant

LEMMA RowNumber ==
    ASSUME NEW i \in Issues, NEW l \in Locales, NEW n \in Numbers, Recorded(i, l),
           pub[l][n].issue = i
    PROVE  Exists(i) /\ issue[i].number = n
BY DEF Recorded, RowIsRecorded

----------------------------------------------------------------------------
(* Issues                                                                  *)

OthersKept(i) == \A j \in Issues \ {i} : issue'[j] = issue[j] /\ version'[j] = version[j]

LEMMA OthersRecorded ==
    ASSUME BulletinAssumption, TypeOK, TypeOK', AllRecorded, NEW i \in Issues,
           OthersKept(i), pub' = pub, \A l \in Locales : Recorded(i, l)'
    PROVE  AllRecorded'
<1>1. ASSUME NEW j \in Issues \ {i}, NEW l \in Locales
      PROVE  Recorded(j, l)'
  <2>1. issue'[j] = issue[j] /\ version'[j] = version[j] /\ Recorded(j, l)
    BY DEF OthersKept, AllRecorded
  <2>2. issue[j].version <= issue[j].version
    <3>1. issue[j].version \in Nat
      BY IssueFields DEF TypeOK, GrantIds
    <3> QED
      BY <3>1
  <2>3. StillThere(j) /\ SameSeen(j, l)
    BY <2>1, <2>2 DEF StillThere, Exists, SameSeen
  <2> QED
    BY <2>1, <2>3, Kept
<1> QED
  BY <1>1 DEF AllRecorded

LEMMA NumbersStayUnique ==
    ASSUME BulletinAssumption, TypeOK, UniqueNumbers, NEW i \in Issues,
           \A j \in Issues \ {i} : issue'[j] = issue[j],
           \/ Exists(i) /\ issue'[i].number = issue[i].number
           \/ NumberFree(i, issue'[i].number)
           \/ ~Exists(i)'
    PROVE  UniqueNumbers'
<1> SUFFICES ASSUME NEW a \in Issues, NEW b \in Issues, Exists(a)', Exists(b)',
                    issue'[a].number = issue'[b].number
             PROVE  a = b
  BY DEF UniqueNumbers
<1>1. CASE a # i /\ b # i
  BY <1>1 DEF UniqueNumbers, Exists
<1>2. CASE a = i /\ b # i
  BY <1>2 DEF UniqueNumbers, Exists, NumberFree
<1>3. CASE a # i /\ b = i
  BY <1>3 DEF UniqueNumbers, Exists, NumberFree
<1> QED
  BY <1>1, <1>2, <1>3

\* What an edit does to the issue row.
LEMMA EditOthers ==
    ASSUME TypeOK, NEW i \in Issues, Edit(i)
    PROVE  OthersKept(i)
<1>1. \A j \in Issues \ {i} : issue'[j] = issue[j]
  <2>1. \A s : Advance(i, s) => \A j \in Issues \ {i} : issue'[j] = issue[j]
    BY Advanced
  <2> QED
    BY <2>1 DEF TypeOK, CmsOK, Edit, CreateIssue, UpdateIssue, PutVersion, UpdateVersion,
       DeleteVersion, Unpublish, StartPublish, RestoreIssueRevision, DeleteIssue,
       FinishIssueDraft
<1>2. \A j \in Issues \ {i} : version'[j] = version[j]
  BY DEF TypeOK, CmsOK, Edit, CreateIssue, UpdateIssue, PutVersion, UpdateVersion,
     DeleteVersion, Unpublish, StartPublish, RestoreIssueRevision, DeleteIssue
<1> QED
  BY <1>1, <1>2 DEF OthersKept

LEMMA AdvancedNumber ==
    ASSUME BulletinAssumption, TypeOK, NEW i \in Issues, Mutable(i), NEW s \in Statuses,
           Advance(i, s)
    PROVE  /\ StillThere(i) /\ Exists(i)
           /\ issue'[i].number = issue[i].number
<1>1. /\ issue'[i].status = s /\ issue'[i].version = issue[i].version + 1
  BY Advanced
<1>2. issue'[i].number = issue[i].number
  <2>1. issue \in [Issues -> IssueRows] /\ issue[i] \in IssueRows
    BY DEF TypeOK, CmsOK
  <2>2. DOMAIN issue[i] = {"status", "version", "number", "notif"}
    BY <2>1 DEF IssueRows, IssueRow, NoIssue
  <2>3. issue' = [issue EXCEPT ![i] = [issue[i] EXCEPT !.status = s, !.version = issue[i].version + 1]]
    BY <2>1 DEF Advance
  <2> QED
    BY <2>1, <2>2, <2>3
<1>3. Exists(i)'
  BY <1>1 DEF Exists, Statuses, InFlight
<1>4. issue[i].version <= issue'[i].version
  BY <1>1, IssueFields DEF TypeOK, GrantIds, BulletinAssumption
<1> QED
  BY <1>2, <1>3, <1>4 DEF StillThere, Mutable

----------------------------------------------------------------------------
(* Editors                                                                 *)

\* An edit that leaves the public rows alone, edition by edition.
LEMMA EditRecorded ==
    ASSUME BulletinAssumption, TypeOK, TypeOK', UniqueNumbers, AllRecorded, NEW i \in Issues,
           OthersKept(i), pub' = pub,
           \/ Exists(i) /\ issue'[i].number = issue[i].number
           \/ NumberFree(i, issue'[i].number)
           \/ ~Exists(i)',
           \A l \in Locales : Recorded(i, l)'
    PROVE  UniqueNumbers' /\ AllRecorded'
BY OthersRecorded, NumbersStayUnique DEF OthersKept

\* The first conjunct of an edit that keeps the edition's row.
LEMMA SeenStays == ASSUME pub' = pub, NEW i, NEW l PROVE SameSeen(i, l)
BY DEF SameSeen

LEMMA CreateIssueRecorded ==
    ASSUME BulletinAssumption, TypeOK, TypeOK', UniqueNumbers, AllRecorded,
           NEW i \in Issues, NEW n \in Numbers, CreateIssue(i, n), OthersKept(i)
    PROVE  UniqueNumbers' /\ AllRecorded'
<1>1. /\ ~Exists(i) /\ NumberFree(i, n) /\ version' = version /\ pub' = pub
      /\ issue' = [issue EXCEPT ![i] = IssueRow("draft", 1, n)]
  BY DEF CreateIssue, Exists, public
<1>2. issue'[i].number = n
  BY <1>1 DEF TypeOK, CmsOK, IssueRow
<1>3. ASSUME NEW l \in Locales
      PROVE  Recorded(i, l)'
  <2>1. StillThere(i)
    BY <1>1 DEF StillThere
  <2>2. Recorded(i, l) /\ version'[i][l] = version[i][l] /\ SameSeen(i, l)
    BY <1>1, SeenStays DEF AllRecorded
  <2> QED
    BY <2>1, <2>2, Kept
<1> QED
  BY <1>1, <1>2, <1>3, EditRecorded

LEMMA UpdateIssueRecorded ==
    ASSUME BulletinAssumption, TypeOK, TypeOK', UniqueNumbers, AllRecorded,
           NEW i \in Issues, NEW n \in Numbers, UpdateIssue(i, n), OthersKept(i)
    PROVE  UniqueNumbers' /\ AllRecorded'
<1>1. /\ NumberFree(i, n) /\ version' = version /\ pub' = pub
      /\ issue' = [issue EXCEPT ![i].number = n, ![i].version = @ + 1]
  BY DEF UpdateIssue, public
<1>2. issue'[i].number = n
  BY <1>1 DEF TypeOK, CmsOK, IssueRows, IssueRow, NoIssue
<1>3. ASSUME NEW l \in Locales
      PROVE  Recorded(i, l)'
  <2>1. ~HasGrant(version[i][l]) /\ version[i][l].status # "published" /\ Recorded(i, l)
    BY DEF UpdateIssue, AllRecorded
  <2>2. \A m \in Numbers : pub[l][m].issue # i
    BY <2>1, NoGrantNoRow
  <2> QED
    BY <1>1, <2>1, <2>2, Unseen
<1> QED
  BY <1>1, <1>2, <1>3, EditRecorded

\* What an upload or a restore makes of an edition.
LEMMA DraftRecorded ==
    ASSUME BulletinAssumption, TypeOK, TypeOK', NEW i \in Issues, NEW l \in Locales, NEW a,
           Recorded(i, l), StillThere(i), pub' = pub,
           version'[i][l] = Drafted(version[i][l], a)
    PROVE  Recorded(i, l)'
<1>1. PICK d : d = Drafted(version[i][l], a)
  OBVIOUS
<1>2. /\ d.status = "draft" /\ d.grant = version[i][l].grant
      /\ version[i][l].status = "published" =>
            d.retAsset = version[i][l].asset /\ d.retGrant = version[i][l].grant
      /\ version[i][l].status # "published" =>
            d.retAsset = version[i][l].retAsset /\ d.retGrant = version[i][l].retGrant
  BY <1>1 DEF Drafted
<1>3. version'[i][l] = d
  BY <1>1
<1>4. SameSeen(i, l)
  BY SeenStays
<1> QED
  BY <1>2, <1>3, <1>4, Redrafted

LEMMA PutVersionRecorded ==
    ASSUME BulletinAssumption, TypeOK, TypeOK', UniqueNumbers, AllRecorded,
           NEW i \in Issues, NEW l \in Locales, NEW a \in Assets, PutVersion(i, l, a),
           OthersKept(i)
    PROVE  UniqueNumbers' /\ AllRecorded'
<1>1. /\ Mutable(i) /\ Advance(i, "draft") /\ "draft" \in Statuses /\ pub' = pub
      /\ version' = [version EXCEPT ![i][l] = Drafted(version[i][l], a)]
  BY DEF PutVersion, FinishIssueDraft, Statuses, public, TypeOK, CmsOK
<1>2. StillThere(i) /\ Exists(i) /\ issue'[i].number = issue[i].number
  BY <1>1, AdvancedNumber
<1>3. ASSUME NEW m \in Locales
      PROVE  Recorded(i, m)'
  <2>1. Recorded(i, m)
    BY DEF AllRecorded
  <2>2. CASE m = l
    <3>1. version'[i][l] = Drafted(version[i][l], a)
      BY <1>1 DEF TypeOK, CmsOK
    <3> QED
      BY <1>1, <1>2, <2>1, <2>2, <3>1, DraftRecorded
  <2>3. CASE m # l
    <3>1. version'[i][m] = version[i][m]
      BY <1>1, <2>3 DEF TypeOK, CmsOK
    <3> QED
      BY <1>1, <1>2, <2>1, <3>1, SeenStays, Kept
  <2> QED
    BY <2>2, <2>3
<1> QED
  BY <1>1, <1>2, <1>3, EditRecorded

\* An edit of one edition that is, and stays, without grants and a row.
LEMMA UngrantedRecorded ==
    ASSUME BulletinAssumption, TypeOK, TypeOK', UniqueNumbers, AllRecorded,
           NEW i \in Issues, NEW l \in Locales, OthersKept(i), pub' = pub,
           Mutable(i), Advance(i, "draft"), ~HasGrant(version[i][l]),
           version'[i][l].status # "published",
           \A m \in Locales \ {l} : version'[i][m] = version[i][m]
    PROVE  UniqueNumbers' /\ AllRecorded'
<1>1. "draft" \in Statuses
  BY DEF Statuses
<1>2. StillThere(i) /\ Exists(i) /\ issue'[i].number = issue[i].number
  BY <1>1, AdvancedNumber
<1>3. ASSUME NEW m \in Locales
      PROVE  Recorded(i, m)'
  <2>1. Recorded(i, m)
    BY DEF AllRecorded
  <2>2. CASE m = l
    <3>1. \A n \in Numbers : pub[l][n].issue # i
      BY <2>1, <2>2, NoGrantNoRow
    <3> QED
      BY <2>2, <3>1, Unseen
  <2>3. CASE m # l
    BY <1>2, <2>1, <2>3, SeenStays, Kept
  <2> QED
    BY <2>2, <2>3
<1> QED
  BY <1>2, <1>3, EditRecorded

LEMMA UpdateVersionRecorded ==
    ASSUME BulletinAssumption, TypeOK, TypeOK', UniqueNumbers, AllRecorded,
           NEW i \in Issues, NEW l \in Locales, UpdateVersion(i, l), OthersKept(i)
    PROVE  UniqueNumbers' /\ AllRecorded'
<1>1. /\ Mutable(i) /\ Advance(i, "draft") /\ pub' = pub /\ ~HasGrant(version[i][l])
      /\ version' = [version EXCEPT ![i][l].status = "draft"]
  BY DEF UpdateVersion, FinishIssueDraft, public
<1>2. DOMAIN version[i][l] = {"status", "asset", "grant", "retAsset", "retGrant"}
  BY VersionFields DEF TypeOK, VersionRows, NoVersion
<1>3. version'[i][l].status = "draft"
      /\ \A m \in Locales \ {l} : version'[i][m] = version[i][m]
  BY <1>1, <1>2 DEF TypeOK, CmsOK
<1> QED
  BY <1>1, <1>3, UngrantedRecorded

LEMMA DeleteVersionRecorded ==
    ASSUME BulletinAssumption, TypeOK, TypeOK', UniqueNumbers, AllRecorded,
           NEW i \in Issues, NEW l \in Locales, DeleteVersion(i, l), OthersKept(i)
    PROVE  UniqueNumbers' /\ AllRecorded'
<1>1. /\ Mutable(i) /\ Advance(i, "draft") /\ pub' = pub /\ ~HasGrant(version[i][l])
      /\ version' = [version EXCEPT ![i][l] = NoVersion]
  BY DEF DeleteVersion, FinishIssueDraft, public
<1>2. version'[i][l].status # "published"
      /\ \A m \in Locales \ {l} : version'[i][m] = version[i][m]
  BY <1>1 DEF TypeOK, CmsOK, NoVersion
<1> QED
  BY <1>1, <1>2, UngrantedRecorded

LEMMA RestoreRecorded ==
    ASSUME BulletinAssumption, TypeOK, TypeOK', UniqueNumbers, AllRecorded,
           NEW i \in Issues, NEW r \in Versions, RestoreIssueRevision(i, r), OthersKept(i)
    PROVE  UniqueNumbers' /\ AllRecorded'
<1>0. PICK n, given : n = revision[i][r].number /\ given = revision[i][r].assets
  OBVIOUS
<1>1. /\ Mutable(i) /\ pub' = pub
      /\ version' = [version EXCEPT ![i] = [l \in Locales |->
                IF given[l] = None THEN NoVersion ELSE Drafted(version[i][l], given[l])]]
      /\ issue' = [issue EXCEPT ![i].status = "draft", ![i].version = @ + 1, ![i].number = n]
  BY <1>0 DEF RestoreIssueRevision, public, TypeOK, CmsOK
<1>2. /\ n # issue[i].number => ~HasProjection(i) /\ NumberFree(i, n)
      /\ \A l \in Locales : given[l] = None => ~HasGrant(version[i][l])
  BY <1>0 DEF RestoreIssueRevision
<1>3. /\ issue'[i].status = "draft" /\ issue'[i].version = issue[i].version + 1
      /\ issue'[i].number = n
  BY <1>1 DEF TypeOK, CmsOK, IssueRows, IssueRow, NoIssue
<1>4. Exists(i) /\ Exists(i)' /\ issue[i].version <= issue'[i].version
  BY <1>1, <1>3, IssueFields DEF Exists, Mutable, TypeOK, GrantIds, BulletinAssumption
<1>5. ASSUME NEW l \in Locales
      PROVE  Recorded(i, l)'
  <2>1. /\ version'[i][l] = IF given[l] = None THEN NoVersion
                            ELSE Drafted(version[i][l], given[l])
        /\ Recorded(i, l)
    BY <1>1 DEF TypeOK, CmsOK, AllRecorded
  <2>2. version'[i][l].status # "published"
    BY <2>1 DEF Drafted, NoVersion
  <2>3. CASE n # issue[i].number
    <3>1. \A m \in Numbers : pub[l][m].issue # i
      BY <1>2, <2>3 DEF HasProjection
    <3> QED
      BY <1>1, <2>2, <3>1, Unseen
  <2>4. CASE given[l] = None
    <3>1. \A m \in Numbers : pub[l][m].issue # i
      BY <1>2, <2>1, <2>4, NoGrantNoRow
    <3> QED
      BY <1>1, <2>2, <3>1, Unseen
  <2>5. CASE n = issue[i].number /\ given[l] # None
    <3>1. StillThere(i)
      BY <1>3, <1>4, <2>5 DEF StillThere
    <3>2. version'[i][l] = Drafted(version[i][l], given[l])
      BY <2>1, <2>5
    <3> QED
      BY <1>1, <2>1, <3>1, <3>2, DraftRecorded
  <2> QED
    BY <2>3, <2>4, <2>5
<1>6. \/ Exists(i) /\ issue'[i].number = issue[i].number
      \/ NumberFree(i, issue'[i].number)
  BY <1>2, <1>3, <1>4
<1> QED
  BY <1>1, <1>5, <1>6, EditRecorded

LEMMA DeleteIssueRecorded ==
    ASSUME BulletinAssumption, TypeOK, TypeOK', UniqueNumbers, AllRecorded,
           NEW i \in Issues, DeleteIssue(i), OthersKept(i)
    PROVE  UniqueNumbers' /\ AllRecorded'
<1>1. /\ issue' = [issue EXCEPT ![i] = IssueRow("deleted", 0, 0)]
      /\ version' = [version EXCEPT ![i] = [l \in Locales |-> NoVersion]]
      /\ pub' = pub /\ \A l \in Locales, n \in Numbers : pub[l][n].issue # i
  BY DEF DeleteIssue, public
<1>2. ~Exists(i)'
  BY <1>1 DEF Exists, TypeOK, CmsOK, IssueRow
<1>3. ASSUME NEW l \in Locales
      PROVE  Recorded(i, l)'
  <2>1. version'[i][l].status # "published"
    BY <1>1 DEF TypeOK, CmsOK, NoVersion
  <2> QED
    BY <1>1, <2>1, Unseen
<1> QED
  BY <1>1, <1>2, <1>3, EditRecorded

\* What a change of the status of one edition leaves.
WritesStatus(i, l, s) == version' = [version EXCEPT ![i][l].status = s]

LEMMA StatusWritten ==
    ASSUME BulletinAssumption, TypeOK, NEW i \in Issues, NEW l \in Locales, NEW s,
           WritesStatus(i, l, s)
    PROVE  /\ version'[i][l].status = s
           /\ version'[i][l].asset = version[i][l].asset
           /\ version'[i][l].grant = version[i][l].grant
           /\ version'[i][l].retAsset = version[i][l].retAsset
           /\ version'[i][l].retGrant = version[i][l].retGrant
           /\ \A m \in Locales \ {l} : version'[i][m] = version[i][m]
           /\ \A j \in Issues \ {i} : version'[j] = version[j]
<1>1. version \in [Issues -> [Locales -> VersionRows]]
  BY DEF TypeOK, CmsOK
<1>2. DOMAIN version[i][l] = {"status", "asset", "grant", "retAsset", "retGrant"}
  BY VersionFields DEF TypeOK, VersionRows, NoVersion
<1> QED
  BY <1>1, <1>2 DEF WritesStatus

LEMMA StartPublishRecorded ==
    ASSUME BulletinAssumption, TypeOK, TypeOK', UniqueNumbers, AllRecorded,
           NEW i \in Issues, NEW l \in Locales, NEW notify, StartPublish(i, l, notify),
           OthersKept(i)
    PROVE  UniqueNumbers' /\ AllRecorded'
<1>1. /\ Mutable(i) /\ Advance(i, "publishing") /\ "publishing" \in Statuses /\ pub' = pub
      /\ WritesStatus(i, l, "publishing")
  BY DEF StartPublish, Statuses, InFlight, public, WritesStatus
<1>2. StillThere(i) /\ Exists(i) /\ issue'[i].number = issue[i].number
  BY <1>1, AdvancedNumber
<1>3. ASSUME NEW m \in Locales
      PROVE  Recorded(i, m)'
  <2>1. Recorded(i, m) /\ SameSeen(i, m)
    BY <1>1, SeenStays DEF AllRecorded
  <2>2. /\ version'[i][l].status = "publishing"
        /\ version'[i][l].grant = version[i][l].grant
        /\ version'[i][l].retAsset = version[i][l].retAsset
        /\ version'[i][l].retGrant = version[i][l].retGrant
        /\ \A x \in Locales \ {l} : version'[i][x] = version[i][x]
    BY <1>1, StatusWritten
  <2>3. CASE m = l
    BY <1>2, <2>1, <2>2, <2>3, Redrafted
  <2>4. CASE m # l
    BY <1>2, <2>1, <2>2, <2>4, Kept
  <2> QED
    BY <2>3, <2>4
<1> QED
  BY <1>1, <1>2, <1>3, EditRecorded

\* Unpublishing removes the row at the number of the issue, which is the only
\* row the edition has, and no one else's.
LEMMA UnpublishedRows ==
    ASSUME BulletinAssumption, TypeOK, UniqueNumbers, AllRecorded,
           NEW i \in Issues, NEW l \in Locales, Unpublish(i, l)
    PROVE  /\ \A n \in Numbers : pub'[l][n].issue # i
           /\ \A j \in Issues, m \in Locales : (j # i \/ m # l) => SameSeen(j, m)
<1>1. pub' = [pub EXCEPT ![l] = [pub[l] EXCEPT ![issue[i].number] = NoPub]]
  BY DEF Unpublish
<1>2. Exists(i) /\ issue[i].number \in Numbers
  BY IssueFields DEF Unpublish, Mutable, TypeOK
<1>3. pub \in [Locales -> [Numbers -> PubRows \cup {NoPub}]] /\ None \notin Issues
  BY DEF TypeOK, PublicOK, BulletinAssumption
<1>4. /\ pub'[l][issue[i].number] = NoPub
      /\ \A n \in Numbers \ {issue[i].number} : pub'[l][n] = pub[l][n]
      /\ \A m \in Locales \ {l} : pub'[m] = pub[m]
  BY <1>1, <1>2, <1>3
<1>5. NoPub.issue \notin Issues
  BY <1>3 DEF NoPub
<1>6. \A n \in Numbers : pub'[l][n].issue # i
  <2> SUFFICES ASSUME NEW n \in Numbers, pub'[l][n].issue = i
               PROVE  FALSE
    OBVIOUS
  <2>1. n # issue[i].number /\ pub[l][n].issue = i
    BY <1>4, <1>5
  <2>2. issue[i].number = n
    BY <2>1, RowNumber DEF AllRecorded
  <2> QED
    BY <2>1, <2>2
<1>7. ASSUME NEW j \in Issues, NEW m \in Locales, j # i \/ m # l
      PROVE  SameSeen(j, m)
  <2> SUFFICES ASSUME NEW n \in Numbers, pub[m][n].issue = j \/ pub'[m][n].issue = j,
                      pub'[m][n] # pub[m][n]
               PROVE  FALSE
    BY DEF SameSeen
  <2>1. m = l /\ n = issue[i].number
    BY <1>4
  <2>2. pub[l][n].issue = j /\ j # i
    BY <1>4, <1>5, <1>7, <2>1
  <2>3. Exists(j) /\ issue[j].number = n
    BY <2>2, RowNumber DEF AllRecorded
  <2> QED
    BY <1>2, <2>1, <2>2, <2>3 DEF UniqueNumbers
<1> QED
  BY <1>6, <1>7

LEMMA UnpublishRecorded ==
    ASSUME BulletinAssumption, TypeOK, TypeOK', UniqueNumbers, AllRecorded,
           NEW i \in Issues, NEW l \in Locales, Unpublish(i, l), OthersKept(i)
    PROVE  UniqueNumbers' /\ AllRecorded'
<1>1. /\ Mutable(i) /\ Advance(i, "unpublishing") /\ "unpublishing" \in Statuses
      /\ WritesStatus(i, l, "unpublishing")
  BY DEF Unpublish, Statuses, InFlight, WritesStatus
<1>2. StillThere(i) /\ Exists(i) /\ issue'[i].number = issue[i].number
  BY <1>1, AdvancedNumber
<1>3. /\ version'[i][l].status = "unpublishing"
      /\ \A m \in Locales \ {l} : version'[i][m] = version[i][m]
  BY <1>1, StatusWritten
<1>4. ASSUME NEW j \in Issues, NEW m \in Locales
      PROVE  Recorded(j, m)'
  <2>1. Recorded(j, m)
    BY DEF AllRecorded
  <2>2. CASE j = i /\ m = l
    <3>1. \A n \in Numbers : pub'[l][n].issue # i
      BY UnpublishedRows
    <3>2. version'[i][l].status # "published"
      BY <1>3
    <3> QED
      BY <2>2, <3>1, <3>2, Unseen
  <2>3. CASE j # i \/ m # l
    <3>1. version'[j][m] = version[j][m]
      BY <1>3, <2>3 DEF OthersKept
    <3>2. SameSeen(j, m)
      BY <2>3, UnpublishedRows
    <3>3. StillThere(j)
      <4>1. CASE j = i
        BY <1>2, <4>1
      <4>2. CASE j # i
        <5>1. issue'[j] = issue[j] /\ issue[j].version \in Nat
          BY <4>2, IssueFields DEF OthersKept, TypeOK, GrantIds
        <5> QED
          BY <5>1 DEF StillThere, Exists
      <4> QED
        BY <4>1, <4>2
    <3> QED
      BY <2>1, <3>1, <3>2, <3>3, Kept
  <2> QED
    BY <2>2, <2>3
<1>5. UniqueNumbers'
  BY <1>2, NumbersStayUnique DEF OthersKept
<1> QED
  BY <1>4, <1>5 DEF AllRecorded

----------------------------------------------------------------------------
(* Workers                                                                 *)

\* A worker's transaction neither creates, deletes nor renumbers an issue.
SameIssues ==
    \A j \in Issues : /\ issue'[j].number = issue[j].number
                      /\ issue'[j].version = issue[j].version
                      /\ Exists(j)' <=> Exists(j)

LEMMA WorkerIssue ==
    ASSUME TypeOK, NEW i \in Issues, NEW s, NEW m,
           \/ issue' = issue
           \/ issue' = [issue EXCEPT ![i].notif = m]
           \/ /\ Exists(i) /\ s \in Statuses
              /\ \/ issue' = [issue EXCEPT ![i].status = s]
                 \/ issue' = [issue EXCEPT ![i].status = s, ![i].notif = m]
    PROVE  SameIssues
<1>1. issue[i] \in IssueRows /\ DOMAIN issue = Issues
  BY DEF TypeOK, CmsOK
<1>2. DOMAIN issue[i] = {"status", "version", "number", "notif"}
  BY <1>1 DEF IssueRows, IssueRow, NoIssue
<1>3. /\ issue'[i].number = issue[i].number
      /\ issue'[i].version = issue[i].version
      /\ \A j \in Issues \ {i} : issue'[j] = issue[j]
  BY <1>1, <1>2
<1>4. \/ issue'[i].status = issue[i].status
      \/ Exists(i) /\ s \in Statuses /\ issue'[i].status = s
  BY <1>1, <1>2
<1> QED
  BY <1>3, <1>4 DEF SameIssues, Exists, Statuses, InFlight

LEMMA IssuesStay ==
    ASSUME BulletinAssumption, TypeOK, UniqueNumbers, SameIssues
    PROVE  UniqueNumbers' /\ \A j \in Issues : StillThere(j)
<1>1. UniqueNumbers'
  BY DEF UniqueNumbers, SameIssues
<1>2. \A j \in Issues : issue[j].version \in Nat
  BY IssueFields DEF TypeOK, GrantIds
<1>3. \A j \in Issues : StillThere(j)
  BY <1>2 DEF StillThere, SameIssues
<1> QED
  BY <1>1, <1>3

\* A transaction that ends a flight without a public row.
LeavesFlight(i, l) ==
    \/ /\ version[i][l].status = "publishing"
       /\ version'[i][l].status = "draft"
       /\ version'[i][l].grant = version[i][l].grant
       /\ version'[i][l].retAsset = version[i][l].retAsset
       /\ version'[i][l].retGrant = version[i][l].retGrant
    \/ /\ version[i][l].status = "unpublishing"
       /\ version'[i][l].status # "published"

LEMMA FlightLeft ==
    ASSUME BulletinAssumption, TypeOK, TypeOK', UniqueNumbers, AllRecorded,
           SameIssues, pub' = pub,
           \A i \in Issues, l \in Locales :
                version'[i][l] = version[i][l] \/ LeavesFlight(i, l)
    PROVE  UniqueNumbers' /\ AllRecorded'
<1>1. UniqueNumbers' /\ \A j \in Issues : StillThere(j)
  BY IssuesStay
<1>2. ASSUME NEW i \in Issues, NEW l \in Locales
      PROVE  Recorded(i, l)'
  <2>1. Recorded(i, l) /\ StillThere(i) /\ SameSeen(i, l)
    BY <1>1, SeenStays DEF AllRecorded
  <2>2. CASE version'[i][l] = version[i][l]
    BY <2>1, <2>2, Kept
  <2>3. CASE LeavesFlight(i, l) /\ version[i][l].status = "publishing"
    BY <2>1, <2>3, Redrafted DEF LeavesFlight
  <2>4. CASE LeavesFlight(i, l) /\ version[i][l].status = "unpublishing"
    <3>1. \A n \in Numbers : pub[l][n].issue # i
      BY <2>1, <2>4, NoGrantNoRow
    <3>2. version'[i][l].status # "published"
      BY <2>4 DEF LeavesFlight
    <3> QED
      BY <3>1, <3>2, Unseen
  <2> QED
    BY <2>2, <2>3, <2>4 DEF LeavesFlight
<1> QED
  BY <1>1, <1>2 DEF AllRecorded

\* Nothing about issues and editions changes but a notification.
LEMMA NothingRecorded ==
    ASSUME BulletinAssumption, TypeOK, TypeOK', UniqueNumbers, AllRecorded,
           SameIssues, pub' = pub, version' = version
    PROVE  UniqueNumbers' /\ AllRecorded'
<1>1. \A i \in Issues, l \in Locales : version'[i][l] = version[i][l]
  OBVIOUS
<1> QED
  BY <1>1, FlightLeft

LEMMA FailEffect ==
    ASSUME BulletinAssumption, TypeOK, NEW k \in DOMAIN outbox, NEW box, FailEvent(k, box)
    PROVE  /\ pub' = pub /\ SameIssues
           /\ \/ version' = version
              \/ /\ k.locale \in Locales
                 /\ version[k.issue][k.locale].status = Doing(k.kind)
                 /\ \/ k.kind = "publish" /\ WritesStatus(k.issue, k.locale, "draft")
                    \/ k.kind = "unpublish"
                         /\ WritesStatus(k.issue, k.locale, "unpublish_failed")
<1>1. k \in Keys /\ k.issue \in Issues /\ pub' = pub
  BY KeyFields DEF TypeOK, OutboxOK, FailEvent, public
<1>2. SameIssues
  <2>1. Aborted(k.kind) \in Statuses
    BY DEF Aborted, Statuses
  <2>2. \/ issue' = issue
        \/ /\ issue[k.issue].status = Doing(k.kind)
           /\ issue' = [issue EXCEPT ![k.issue].status = Aborted(k.kind)]
        \/ issue' = [issue EXCEPT ![k.issue].notif = "failed"]
    BY DEF FailEvent, FailIssue
  <2>3. issue[k.issue].status = Doing(k.kind) => Exists(k.issue)
    BY DEF Doing, Exists
  <2> QED
    BY <1>1, <2>1, <2>2, <2>3, WorkerIssue
<1>3. \/ version' = version
      \/ /\ k.kind \in {"publish", "unpublish"}
         /\ version[k.issue][k.locale].status = Doing(k.kind)
         /\ WritesStatus(k.issue, k.locale, Aborted(k.kind))
  BY DEF FailEvent, FailVersion, WritesStatus
<1>4. k.kind \in {"publish", "unpublish"} => k.locale \in Locales
  BY <1>1, KeyFields DEF Publishes
<1> QED
  BY <1>1, <1>2, <1>3, <1>4 DEF Aborted

LEMMA FailEventRecorded ==
    ASSUME BulletinAssumption, TypeOK, TypeOK', UniqueNumbers, AllRecorded,
           NEW k \in DOMAIN outbox, NEW box, FailEvent(k, box)
    PROVE  UniqueNumbers' /\ AllRecorded'
<1>1. PICK i, l : i = k.issue /\ l = k.locale
  OBVIOUS
<1>2. /\ pub' = pub /\ SameIssues /\ i \in Issues
      /\ \/ version' = version
         \/ /\ l \in Locales /\ version[i][l].status = Doing(k.kind)
            /\ \/ k.kind = "publish" /\ WritesStatus(i, l, "draft")
               \/ k.kind = "unpublish" /\ WritesStatus(i, l, "unpublish_failed")
  BY <1>1, FailEffect, KeyFields DEF TypeOK, OutboxOK
<1>3. CASE version' = version
  BY <1>2, <1>3, NothingRecorded
<1>4. CASE version' # version
  <2>1. /\ \A m \in Locales \ {l} : version'[i][m] = version[i][m]
        /\ \A j \in Issues \ {i} : version'[j] = version[j]
        /\ version'[i][l].grant = version[i][l].grant
        /\ version'[i][l].retAsset = version[i][l].retAsset
        /\ version'[i][l].retGrant = version[i][l].retGrant
    BY <1>2, <1>4, StatusWritten
  <2>2. \/ version[i][l].status = "publishing" /\ version'[i][l].status = "draft"
        \/ version[i][l].status = "unpublishing" /\ version'[i][l].status = "unpublish_failed"
    BY <1>2, <1>4, StatusWritten DEF Doing
  <2>3. LeavesFlight(i, l)
    BY <2>1, <2>2 DEF LeavesFlight
  <2>4. ASSUME NEW j \in Issues, NEW m \in Locales
        PROVE  version'[j][m] = version[j][m] \/ LeavesFlight(j, m)
    BY <2>1, <2>3
  <2> QED
    BY <1>2, <2>4, FlightLeft
<1> QED
  BY <1>3, <1>4

LEMMA WithdrawnEffect ==
    ASSUME BulletinAssumption, TypeOK, NEW k \in DOMAIN outbox, Publishes(k),
           version[k.issue][k.locale].status = "unpublishing", Exists(k.issue),
           UnpublishEdition(k)
    PROVE  /\ SameIssues
           /\ version'[k.issue][k.locale].status = "unpublished"
           /\ version'[k.issue][k.locale].asset = version[k.issue][k.locale].asset
           /\ \A m \in Locales \ {k.locale} : version'[k.issue][m] = version[k.issue][m]
           /\ \A j \in Issues \ {k.issue} : version'[j] = version[j]
<1>1. PICK i, l : i = k.issue /\ l = k.locale
  OBVIOUS
<1>2. i \in Issues /\ l \in Locales
  BY <1>1, KeyFields DEF TypeOK, OutboxOK
<1>3. SameIssues
  <2>1. PICK s \in {"published", "unpublished"} : issue' = [issue EXCEPT ![i].status = s]
    BY <1>1 DEF UnpublishEdition
  <2>2. s \in Statuses
    BY DEF Statuses
  <2> QED
    BY <1>1, <1>2, <2>1, <2>2, WorkerIssue
<1>4. /\ version'[i][l].status = "unpublished" /\ version'[i][l].asset = version[i][l].asset
      /\ \A m \in Locales \ {l} : version'[i][m] = version[i][m]
      /\ \A j \in Issues \ {i} : version'[j] = version[j]
  <2>1. version' = [version EXCEPT ![i][l].status = "unpublished", ![i][l].grant = 0,
                                   ![i][l].retAsset = None, ![i][l].retGrant = 0]
    BY <1>1 DEF UnpublishEdition
  <2>2. version \in [Issues -> [Locales -> VersionRows]]
    BY DEF TypeOK, CmsOK
  <2>3. DOMAIN version[i][l] = {"status", "asset", "grant", "retAsset", "retGrant"}
    BY <1>2, VersionFields DEF TypeOK, VersionRows, NoVersion
  <2> QED
    BY <1>2, <2>1, <2>2, <2>3
<1> QED
  BY <1>1, <1>3, <1>4

LEMMA WithdrawnRecorded ==
    ASSUME BulletinAssumption, TypeOK, TypeOK', UniqueNumbers, AllRecorded,
           NEW k \in DOMAIN outbox, Publishes(k), pub' = pub,
           version[k.issue][k.locale].status = "unpublishing", Exists(k.issue),
           UnpublishEdition(k)
    PROVE  UniqueNumbers' /\ AllRecorded'
<1>1. PICK i, l : i = k.issue /\ l = k.locale
  OBVIOUS
<1>2. /\ SameIssues /\ version'[i][l].status = "unpublished"
      /\ \A m \in Locales \ {l} : version'[i][m] = version[i][m]
      /\ \A j \in Issues \ {i} : version'[j] = version[j]
  BY <1>1, WithdrawnEffect
<1>3. LeavesFlight(i, l)
  BY <1>1, <1>2 DEF LeavesFlight
<1>4. ASSUME NEW j \in Issues, NEW m \in Locales
      PROVE  version'[j][m] = version[j][m] \/ LeavesFlight(j, m)
  BY <1>2, <1>3
<1> QED
  BY <1>2, <1>4, FlightLeft

\* The event of the current publication carries the edition's asset.
LEMMA PublishesItsAsset ==
    ASSUME BulletinAssumption, TypeOK, Agreement, NEW k \in DOMAIN outbox,
           k.kind = "publish", Current(k)
    PROVE  outbox[k].asset = version[k.issue][k.locale].asset
<1>1. PICK i, l, v : i = k.issue /\ l = k.locale /\ v = k.ver
  OBVIOUS
<1>2. k \in Keys /\ Publishes(k) /\ i \in Issues /\ l \in Locales
  BY <1>1, KeyFields DEF TypeOK, OutboxOK, Publishes
<1>3. Open(PublishKey(i, l, v))
  BY <1>1, <1>2 DEF Agreement, InFlightHasEvent, Current
<1>4. PublishKey(i, l, v) = k
  <2>1. /\ PublishKey(i, l, v).issue = i /\ PublishKey(i, l, v).ver = v
        /\ Publishes(PublishKey(i, l, v)) /\ PublishKey(i, l, v) \in DOMAIN outbox
    BY <1>3 DEF PublishKey, EventKey, Publishes, Open
  <2>2. SerialAt(i)
    BY <1>2, AgreementAtIssues DEF TypeOK, AgreesAt
  <2> QED
    BY <1>1, <1>2, <2>1, <2>2 DEF SerialAt
<1> QED
  BY <1>2, <1>3, <1>4 DEF Agreement, OpenEventIsCurrent

\* What a completed publication writes to the row of its edition.
WritesPublished(i, l, g) ==
    version' = [version EXCEPT ![i][l].status = "published", ![i][l].grant = g,
                               ![i][l].retAsset = None, ![i][l].retGrant = 0]

LEMMA PublishedWritten ==
    ASSUME BulletinAssumption, TypeOK, NEW i \in Issues, NEW l \in Locales, NEW g,
           WritesPublished(i, l, g)
    PROVE  /\ version'[i][l].status = "published"
           /\ version'[i][l].asset = version[i][l].asset
           /\ version'[i][l].grant = g /\ version'[i][l].retGrant = 0
           /\ \A m \in Locales \ {l} : version'[i][m] = version[i][m]
           /\ \A j \in Issues \ {i} : version'[j] = version[j]
<1>1. version \in [Issues -> [Locales -> VersionRows]]
  BY DEF TypeOK, CmsOK
<1>2. DOMAIN version[i][l] = {"status", "asset", "grant", "retAsset", "retGrant"}
  BY VersionFields DEF TypeOK, VersionRows, NoVersion
<1>3. version'[i][l] = [version[i][l] EXCEPT !.status = "published", !.grant = g,
                                             !.retAsset = None, !.retGrant = 0]
  BY <1>1 DEF WritesPublished
<1>4. /\ \A m \in Locales \ {l} : version'[i][m] = version[i][m]
      /\ \A j \in Issues \ {i} : version'[j] = version[j]
  BY <1>1 DEF WritesPublished
<1> QED
  BY <1>2, <1>3, <1>4

LEMMA PublishedEffect ==
    ASSUME BulletinAssumption, TypeOK, Agreement, NEW k \in DOMAIN outbox,
           k.kind = "publish", Current(k), PublishEdition(k),
           NEW i, NEW l, i = k.issue, l = k.locale
    PROVE  /\ i \in Issues /\ l \in Locales /\ SameIssues /\ Exists(i)
           /\ issue[i].number \in Numbers /\ k.ver = issue[i].version
           /\ pub'[l][issue[i].number] =
                [issue |-> i, ver |-> k.ver, asset |-> version[i][l].asset]
           /\ \A n \in Numbers \ {issue[i].number} : pub'[l][n] = pub[l][n]
           /\ \A m \in Locales \ {l} : pub'[m] = pub[m]
           /\ version'[i][l].status = "published"
           /\ version'[i][l].asset = version[i][l].asset
           /\ version'[i][l].grant = k.ver /\ version'[i][l].retGrant = 0
           /\ \A m \in Locales \ {l} : version'[i][m] = version[i][m]
           /\ \A j \in Issues \ {i} : version'[j] = version[j]
<1>1. k \in Keys /\ i \in Issues /\ l \in Locales
  BY KeyFields DEF TypeOK, OutboxOK, Publishes
<1>2. issue[i].status = "publishing" /\ k.ver = issue[i].version
  BY DEF Current
<1>3. Exists(i) /\ issue[i].number \in Numbers
  BY <1>1, <1>2, IssueFields DEF Exists, TypeOK
<1>4. SameIssues
  <2>1. PICK m : issue' = [issue EXCEPT ![i].status = "published", ![i].notif = m]
    BY DEF PublishEdition
  <2>2. "published" \in Statuses
    BY DEF Statuses
  <2> QED
    BY <1>1, <1>3, <2>1, <2>2, WorkerIssue
<1>5. /\ version'[i][l].status = "published"
      /\ version'[i][l].asset = version[i][l].asset
      /\ version'[i][l].grant = k.ver /\ version'[i][l].retGrant = 0
      /\ \A m \in Locales \ {l} : version'[i][m] = version[i][m]
      /\ \A j \in Issues \ {i} : version'[j] = version[j]
  <2>1. WritesPublished(i, l, k.ver)
    BY DEF PublishEdition, WritesPublished
  <2> QED
    BY <1>1, <2>1, PublishedWritten
<1>6. PICK row : row = [issue |-> i, ver |-> k.ver, asset |-> version[i][l].asset]
  OBVIOUS
<1>7. pub' = [pub EXCEPT ![l][issue[i].number] = row]
  BY <1>6, PublishesItsAsset DEF PublishEdition
<1>8. pub \in [Locales -> [Numbers -> PubRows \cup {NoPub}]]
  BY DEF TypeOK, PublicOK
<1>9. /\ pub'[l][issue[i].number] = row
      /\ \A n \in Numbers \ {issue[i].number} : pub'[l][n] = pub[l][n]
      /\ \A m \in Locales \ {l} : pub'[m] = pub[m]
  BY <1>1, <1>3, <1>7, <1>8
<1> QED
  BY <1>1, <1>2, <1>3, <1>4, <1>5, <1>6, <1>9

\* No one else has a row at the number the edition is published under, and the
\* edition has one at no other number.
LEMMA PublishedRow ==
    ASSUME BulletinAssumption, TypeOK, Agreement, UniqueNumbers, AllRecorded,
           NEW k \in DOMAIN outbox, k.kind = "publish", Current(k), PublishEdition(k),
           NEW i, NEW l, i = k.issue, l = k.locale
    PROVE  /\ \A n \in Numbers : pub'[l][n].issue = i <=> n = issue[i].number
           /\ \A j \in Issues, m \in Locales : (j # i \/ m # l) => SameSeen(j, m)
<1>1. /\ i \in Issues /\ l \in Locales /\ Exists(i) /\ issue[i].number \in Numbers
      /\ pub'[l][issue[i].number] =
                [issue |-> i, ver |-> k.ver, asset |-> version[i][l].asset]
      /\ \A n \in Numbers \ {issue[i].number} : pub'[l][n] = pub[l][n]
      /\ \A m \in Locales \ {l} : pub'[m] = pub[m]
  BY PublishedEffect
<1>2. pub'[l][issue[i].number].issue = i
  BY <1>1
<1>3. \A n \in Numbers : pub[l][n].issue = i => n = issue[i].number
  BY <1>1, RowNumber DEF AllRecorded
<1>4. ASSUME NEW j \in Issues, NEW m \in Locales, j # i \/ m # l
      PROVE  SameSeen(j, m)
  <2> SUFFICES ASSUME NEW n \in Numbers, pub[m][n].issue = j \/ pub'[m][n].issue = j,
                      pub'[m][n] # pub[m][n]
               PROVE  FALSE
    BY DEF SameSeen
  <2>1. m = l /\ n = issue[i].number /\ j # i
    BY <1>1, <1>4
  <2>2. pub[l][n].issue = j
    BY <1>2, <2>1
  <2>3. Exists(j) /\ issue[j].number = n
    BY <2>2, <1>1, RowNumber DEF AllRecorded
  <2> QED
    BY <1>1, <2>1, <2>3 DEF UniqueNumbers
<1> QED
  BY <1>1, <1>2, <1>3, <1>4

LEMMA PublishedRecorded ==
    ASSUME BulletinAssumption, TypeOK, TypeOK', Agreement, UniqueNumbers, AllRecorded,
           NEW k \in DOMAIN outbox, k.kind = "publish", Current(k), PublishEdition(k)
    PROVE  UniqueNumbers' /\ AllRecorded'
<1>1. PICK i, l : i = k.issue /\ l = k.locale
  OBVIOUS
<1>2. /\ i \in Issues /\ l \in Locales /\ SameIssues /\ Exists(i)
      /\ issue[i].number \in Numbers /\ k.ver = issue[i].version
      /\ pub'[l][issue[i].number] =
                [issue |-> i, ver |-> k.ver, asset |-> version[i][l].asset]
      /\ version'[i][l].status = "published"
      /\ version'[i][l].asset = version[i][l].asset
      /\ version'[i][l].grant = k.ver /\ version'[i][l].retGrant = 0
      /\ \A m \in Locales \ {l} : version'[i][m] = version[i][m]
      /\ \A j \in Issues \ {i} : version'[j] = version[j]
  BY <1>1, PublishedEffect
<1>3. /\ \A n \in Numbers : pub'[l][n].issue = i <=> n = issue[i].number
      /\ \A j \in Issues, m \in Locales : (j # i \/ m # l) => SameSeen(j, m)
  BY <1>1, PublishedRow
<1>4. UniqueNumbers' /\ \A j \in Issues : StillThere(j)
  BY <1>2, IssuesStay
<1>5. Recorded(i, l)'
  <2>1. Exists(i)' /\ issue'[i].number = issue[i].number /\ issue'[i].version = issue[i].version
    BY <1>2 DEF SameIssues
  <2>2. pub'[l][issue[i].number].ver = k.ver
        /\ pub'[l][issue[i].number].asset = version[i][l].asset
    BY <1>2
  <2>3. issue[i].version \in Nat
    BY <1>2, IssueFields DEF TypeOK, GrantIds
  <2>4. RowIsRecorded(i, l, issue[i].number)'
    BY <1>2, <2>1, <2>2, <2>3 DEF RowIsRecorded
  <2>5. ASSUME NEW n \in Numbers, pub'[l][n].issue = i
        PROVE  RowIsRecorded(i, l, n)'
    BY <1>3, <2>1, <2>4, <2>5
  <2> QED
    BY <1>2, <1>3, <2>1, <2>5 DEF Recorded
<1>6. ASSUME NEW j \in Issues, NEW m \in Locales, j # i \/ m # l
      PROVE  Recorded(j, m)'
  <2>1. version'[j][m] = version[j][m]
    BY <1>2, <1>6
  <2>2. Recorded(j, m) /\ StillThere(j) /\ SameSeen(j, m)
    BY <1>3, <1>4, <1>6 DEF AllRecorded
  <2> QED
    BY <2>1, <2>2, Kept
<1> QED
  BY <1>4, <1>5, <1>6 DEF AllRecorded

----------------------------------------------------------------------------
(* The inductive invariant                                                 *)

LEMMA InitRecorded ==
    ASSUME BulletinAssumption, Init
    PROVE  UniqueNumbers /\ AllRecorded
<1>1. UniqueNumbers
  BY DEF Init, UniqueNumbers, Exists, NoIssue, IssueRow
<1>2. AllRecorded
  <2> SUFFICES ASSUME NEW i \in Issues, NEW l \in Locales
               PROVE  Recorded(i, l)
    BY DEF AllRecorded
  <2>1. \A n \in Numbers : pub[l][n].issue # i
    BY DEF Init, NoPub, BulletinAssumption
  <2>2. version[i][l].status # "published"
    BY DEF Init, NoVersion
  <2> QED
    BY <2>1, <2>2 DEF Recorded
<1> QED
  BY <1>1, <1>2

\* What a worker's step does to the issues, the editions and the public rows.
LEMMA WorkerEffect ==
    ASSUME BulletinAssumption, TypeOK, Agreement, NEW w \in Workers, WorkerStep(w)
    PROVE  \/ SameIssues /\ version' = version /\ pub' = pub
           \/ \E k \in DOMAIN outbox : \E box : FailEvent(k, box)
           \/ \E k \in DOMAIN outbox :
                 k.kind = "publish" /\ Current(k) /\ PublishEdition(k)
           \/ \E k \in DOMAIN outbox :
                 /\ Publishes(k) /\ pub' = pub /\ Exists(k.issue)
                 /\ version[k.issue][k.locale].status = "unpublishing"
                 /\ UnpublishEdition(k)
<1>0. PICK k : k = work[w].key
  OBVIOUS
<1>1. CASE issue' = issue /\ version' = version /\ pub' = pub
  BY <1>1 DEF SameIssues, Exists
<1>2. CASE Fail(w) \/ FailPublish(w)
  <2>1. k \in DOMAIN outbox
    BY <1>0, <1>2, WorkerKind DEF Fail, FailPublish, TypeOK
  <2>2. (issue' = issue /\ version' = version /\ pub' = pub) \/ \E box : FailEvent(k, box)
    BY <1>0, <1>2 DEF Fail, FailPublish, cms, public
  <2> QED
    BY <1>1, <2>1, <2>2
<1>3. CASE CompletePublish(w)
  <2>1. k \in DOMAIN outbox /\ k.kind = "publish"
    BY <1>0, <1>3, WorkerKind DEF CompletePublish, TypeOK
  <2>2. \/ issue' = issue /\ version' = version /\ pub' = pub
        \/ Current(k) /\ PublishEdition(k)
    BY <1>0, <1>3 DEF CompletePublish, cms, public
  <2> QED
    BY <1>1, <2>1, <2>2
<1>4. CASE CompleteUnpublish(w)
  <2>1. k \in DOMAIN outbox /\ Publishes(k)
    BY <1>0, <1>4, WorkerKind DEF CompleteUnpublish, TypeOK, Publishes
  <2>2. /\ pub' = pub
        /\ \/ issue' = issue /\ version' = version
           \/ version[k.issue][k.locale].status = "unpublishing" /\ UnpublishEdition(k)
    BY <1>0, <1>4 DEF CompleteUnpublish, cms, public
  <2>3. version[k.issue][k.locale].status = "unpublishing" => Exists(k.issue)
    <3>1. k.issue \in Issues /\ k.locale \in Locales
      BY <2>1, KeyFields DEF TypeOK, OutboxOK
    <3>2. FlightAt(k.issue)
      BY <3>1, AgreementAtIssues DEF TypeOK, AgreesAt
    <3> QED
      BY <3>1, <3>2 DEF FlightAt, InFlight, Exists
  <2> QED
    BY <1>1, <2>1, <2>2, <2>3
<1>5. CASE CompleteNotification(w)
  <2>1. k \in DOMAIN outbox /\ k.issue \in Issues
    BY <1>0, <1>5, WorkerKind, KeyFields DEF CompleteNotification, TypeOK
  <2>2. version' = version /\ pub' = pub
    BY <1>5 DEF CompleteNotification, public
  <2>3. issue' = issue \/ issue' = [issue EXCEPT ![k.issue].notif = "queued"]
    BY <1>0, <1>5 DEF CompleteNotification
  <2>4. SameIssues
    BY <2>1, <2>3, WorkerIssue
  <2> QED
    BY <2>2, <2>4
<1> QED
  BY <1>1, <1>2, <1>3, <1>4, <1>5 DEF WorkerStep, Retry, Defer, GetAsset, CreatePublicGrant,
     EventDelivered, RevokeGrant, DeleteAsset, Complete, QueueNotification, cms, public

LEMMA NextRecorded ==
    ASSUME BulletinAssumption, PublicInv, [Next]_vars
    PROVE  PublicInv'
<1>1. /\ TypeOK /\ TypeOK' /\ Agreement /\ UniqueNumbers /\ AllRecorded /\ AgreementInv'
  BY NextAgrees DEF PublicInv, AgreementInv
<1> SUFFICES UniqueNumbers' /\ AllRecorded'
  BY <1>1 DEF PublicInv
<1>2. ASSUME NEW i \in Issues, Edit(i)
      PROVE  UniqueNumbers' /\ AllRecorded'
  <2>1. OthersKept(i)
    BY <1>1, <1>2, EditOthers
  <2> QED
    BY <1>1, <1>2, <2>1, CreateIssueRecorded, UpdateIssueRecorded, PutVersionRecorded,
       UpdateVersionRecorded, DeleteVersionRecorded, RestoreRecorded, DeleteIssueRecorded,
       StartPublishRecorded, UnpublishRecorded DEF Edit
<1>3. ASSUME NEW w \in Workers, WorkerStep(w)
      PROVE  UniqueNumbers' /\ AllRecorded'
  BY <1>1, <1>3, WorkerEffect, NothingRecorded, FailEventRecorded, PublishedRecorded,
     WithdrawnRecorded
<1>4. CASE issue' = issue /\ version' = version /\ pub' = pub
  <2>1. SameIssues
    BY <1>4 DEF SameIssues, Exists
  <2> QED
    BY <1>1, <1>4, <2>1, NothingRecorded
<1> QED
  BY <1>2, <1>3, <1>4 DEF Next, Claim, Crash, AssetScanned, RetryAssetScan, vars, cms, public

LEMMA PublicInvariant == Spec => []PublicInv
<1>1. Init => PublicInv
  BY InitTypeOK, InitAgrees, InitRecorded, BulletinAssumption DEF PublicInv, AgreementInv
<1>2. PublicInv /\ [Next]_vars => PublicInv'
  BY NextRecorded, BulletinAssumption
<1> QED
  BY <1>1, <1>2, PTL DEF Spec

\* What is public can be taken back: the CMS row of every public edition
\* records the grant it was published with, through every draft, restore and
\* failed publication since.
THEOREM PublicRowsAreRecorded == Spec => []PublicIsRecorded
<1>1. PublicInv => PublicIsRecorded
  <2> SUFFICES ASSUME PublicInv, NEW l \in Locales, NEW n \in Numbers, Public(l, n),
                      NEW i, i = pub[l][n].issue
               PROVE  RowIsRecorded(i, l, n)
    BY DEF PublicIsRecorded, RowIsRecorded
  <2>1. i \in Issues
    BY PubFields, BulletinAssumption DEF PublicInv, AgreementInv, TypeOK, Public
  <2>2. Recorded(i, l)
    BY <2>1 DEF PublicInv, AllRecorded
  <2> QED
    BY <2>2 DEF Recorded
<1> QED
  BY <1>1, PublicInvariant, PTL

\* An edition the CMS shows as published is public at its issue's number, with
\* the asset and the grant it shows.
THEOREM PublishedEditionsArePublic == Spec => []PublishedIsPublic
<1>1. PublicInv => PublishedIsPublic
  <2> SUFFICES ASSUME PublicInv, NEW i \in Issues, NEW l \in Locales,
                      version[i][l].status = "published"
               PROVE  pub[l][issue[i].number] = [issue |-> i, ver |-> version[i][l].grant,
                                                 asset |-> version[i][l].asset]
    BY DEF PublishedIsPublic
  <2>1. Exists(i) /\ pub[l][issue[i].number].issue = i /\ Recorded(i, l)
    BY DEF PublicInv, AllRecorded, Recorded
  <2>2. PICK n \in Numbers : n = issue[i].number
    BY <2>1, IssueFields, BulletinAssumption DEF PublicInv, AgreementInv, TypeOK
  <2>3. pub[l][n] \in PubRows
    BY <2>1, <2>2, PubFields, BulletinAssumption DEF PublicInv, AgreementInv, TypeOK
  <2>4. RowIsRecorded(i, l, n)
    BY <2>1, <2>2 DEF Recorded
  <2>5. /\ pub[l][n].issue = i /\ pub[l][n].ver = version[i][l].grant
        /\ pub[l][n].asset = version[i][l].asset
    BY <2>1, <2>2, <2>4 DEF RowIsRecorded
  <2> QED
    BY <2>2, <2>3, <2>5 DEF PubRows
<1> QED
  BY <1>1, PublicInvariant, PTL

----------------------------------------------------------------------------
(* The abstract lifecycle                                                  *)

LEMMA EditionFields ==
    ASSUME NEW i \in Issues, NEW l \in Locales
    PROVE  /\ EditionRows[i][l] = EditionOf(version[i][l])
           /\ EditionRows'[i][l] = EditionOf(version'[i][l])
BY DEF EditionRows

LEMMA EditionIsItsVersion ==
    ASSUME NEW v
    PROVE  EditionOf(v).phase = v.status /\ EditionOf(v).asset = v.asset
BY DEF EditionOf

LEMMA PhaseMoves ==
    ASSUME NEW v, NEW w, w.asset = v.asset
    PROVE  EditionOf(w) = [EditionOf(v) EXCEPT !.phase = w.status]
<1>1. PICK e : e = EditionOf(v)
  OBVIOUS
<1>2. e \in [phase : {v.status}, asset : {v.asset}]
  BY <1>1 DEF EditionOf
<1>3. [e EXCEPT !.phase = w.status] = [phase |-> w.status, asset |-> v.asset]
  BY <1>2
<1> QED
  BY <1>1, <1>3 DEF EditionOf

\* One edition moves to another phase.
LEMMA EditionMoves ==
    ASSUME NEW i \in Issues, NEW l \in Locales, NEW s,
           version'[i][l].status = s, version'[i][l].asset = version[i][l].asset,
           \A m \in Locales \ {l} : version'[i][m] = version[i][m],
           \A j \in Issues \ {i} : version'[j] = version[j]
    PROVE  Lifecycle!Moves(i, l, s)
<1> DEFINE moved == [EditionRows[i][l] EXCEPT !.phase = s]
<1>1. DOMAIN EditionRows = Issues /\ DOMAIN EditionRows[i] = Locales
  BY DEF EditionRows
<1>2. /\ \A j \in Issues \ {i} : EditionRows'[j] = EditionRows[j]
      /\ \A m \in Locales \ {l} : EditionRows'[i][m] = EditionRows[i][m]
  BY DEF EditionRows
<1>3. EditionRows'[i][l] = moved
  BY EditionFields, PhaseMoves
<1> HIDE DEF moved
<1>4. EditionRows'[i] = [EditionRows[i] EXCEPT ![l] = moved]
  <2>1. EditionRows'[i] = [m \in Locales |-> EditionRows'[i][m]]
    BY DEF EditionRows
  <2>2. [EditionRows[i] EXCEPT ![l] = moved] = [m \in Locales |-> EditionRows'[i][m]]
    BY <1>1, <1>2, <1>3
  <2> QED
    BY <2>1, <2>2
<1>5. EditionRows' = [EditionRows EXCEPT ![i] = [EditionRows[i] EXCEPT ![l] = moved]]
  <2>1. EditionRows' = [j \in Issues |-> EditionRows'[j]]
    BY DEF EditionRows
  <2> QED
    BY <1>1, <1>2, <1>4, <2>1
<1> QED
  BY <1>5 DEF moved, Lifecycle!Moves

LEMMA ReadersKeep ==
    ASSUME \A i \in Issues, l \in Locales : SameSeen(i, l)
    PROVE  ReadersSee' = ReadersSee
<1>1. ASSUME NEW i \in Issues, NEW l \in Locales
      PROVE  {pub'[l][n].asset : n \in {m \in Numbers : pub'[l][m].issue = i}}
                = {pub[l][n].asset : n \in {m \in Numbers : pub[l][m].issue = i}}
  BY DEF SameSeen
<1> QED
  BY <1>1 DEF ReadersSee

\* One edition shows other assets to readers.
LEMMA ReadersMove ==
    ASSUME NEW i \in Issues, NEW l \in Locales, NEW S,
           \A j \in Issues, m \in Locales : (j # i \/ m # l) => SameSeen(j, m),
           {pub'[l][n].asset : n \in {m \in Numbers : pub'[l][m].issue = i}} = S
    PROVE  Lifecycle!Shows(i, l, S)
<1>1. /\ DOMAIN ReadersSee = Issues /\ DOMAIN ReadersSee' = Issues
      /\ \A j \in Issues : DOMAIN ReadersSee[j] = Locales /\ DOMAIN ReadersSee'[j] = Locales
  BY DEF ReadersSee
<1>2. ReadersSee'[i][l] = S
  BY DEF ReadersSee
<1>3. ASSUME NEW j \in Issues, NEW m \in Locales, j # i \/ m # l
      PROVE  ReadersSee'[j][m] = ReadersSee[j][m]
  <2>1. SameSeen(j, m)
    BY <1>3
  <2>2. {pub'[m][n].asset : n \in {x \in Numbers : pub'[m][x].issue = j}}
                = {pub[m][n].asset : n \in {x \in Numbers : pub[m][x].issue = j}}
    BY <2>1 DEF SameSeen
  <2> QED
    BY <2>2 DEF ReadersSee
<1>4. ReadersSee' \in [Issues -> [Locales -> {ReadersSee'[j][m] : j \in Issues, m \in Locales}]]
  BY DEF ReadersSee
<1>5. ReadersSee' = [ReadersSee EXCEPT ![i] = [ReadersSee[i] EXCEPT ![l] = S]]
  <2>1. ReadersSee'[i] = [ReadersSee[i] EXCEPT ![l] = S]
    <3>1. ReadersSee'[i] = [m \in Locales |-> ReadersSee'[i][m]]
      BY DEF ReadersSee
    <3>2. [ReadersSee[i] EXCEPT ![l] = S] = [m \in Locales |-> ReadersSee'[i][m]]
      BY <1>1, <1>2, <1>3
    <3> QED
      BY <3>1, <3>2
  <2>2. ASSUME NEW j \in Issues, j # i
        PROVE  ReadersSee'[j] = ReadersSee[j]
    <3>1. \A m \in Locales : ReadersSee'[j][m] = ReadersSee[j][m]
      BY <1>3, <2>2
    <3>2. /\ ReadersSee'[j] = [m \in Locales |-> ReadersSee'[j][m]]
          /\ ReadersSee[j] = [m \in Locales |-> ReadersSee[j][m]]
      BY DEF ReadersSee
    <3> QED
      BY <3>1, <3>2
  <2>3. ReadersSee' = [j \in Issues |-> ReadersSee'[j]]
    BY DEF ReadersSee
  <2> QED
    BY <1>1, <2>1, <2>2, <2>3
<1> QED
  BY <1>5 DEF Lifecycle!Shows

LEMMA AbstractStutter ==
    ASSUME version' = version, pub' = pub
    PROVE  UNCHANGED <<EditionRows, ReadersSee>>
BY DEF EditionRows, ReadersSee

LEMMA NoVersionIsNoEdition == EditionOf(NoVersion) = Lifecycle!NoEdition
BY DEF EditionOf, NoVersion, Lifecycle!NoEdition

\* An edit as the lifecycle sees it.
LEMMA EditPromised ==
    ASSUME NEW i \in Issues, pub' = pub,
           \A l \in Locales : version[i][l].status \notin InFlight,
           \A j \in Issues \ {i} : version'[j] = version[j],
           \A l \in Locales :
                \/ version'[i][l] = version[i][l]
                \/ version'[i][l].status = "draft"
                \/ version'[i][l] = NoVersion /\ \A n \in Numbers : pub[l][n].issue # i
    PROVE  Lifecycle!Edit(i)
<1>1. \A l \in Locales : EditionRows[i][l].phase \notin Lifecycle!InFlight
  BY EditionFields, EditionIsItsVersion DEF InFlight, Lifecycle!InFlight
<1>2. ASSUME NEW j \in Issues, NEW l \in Locales
      PROVE  IF j = i THEN Lifecycle!Edited(EditionRows[j][l], EditionRows'[j][l],
                                            ReadersSee[j][l])
                      ELSE EditionRows'[j][l] = EditionRows[j][l]
  <2>1. CASE j # i
    <3>1. version'[j] = version[j]
      BY <2>1
    <3> QED
      BY <2>1, <3>1, EditionFields
  <2>2. CASE j = i
    <3>1. CASE version'[i][l] = version[i][l]
      BY <2>2, <3>1, EditionFields DEF Lifecycle!Edited
    <3>2. CASE version'[i][l].status = "draft"
      BY <2>2, <3>2, EditionFields, EditionIsItsVersion DEF Lifecycle!Edited
    <3>3. CASE version'[i][l] = NoVersion /\ \A n \in Numbers : pub[l][n].issue # i
      <4>1. EditionRows'[i][l] = Lifecycle!NoEdition
        BY <3>3, EditionFields, NoVersionIsNoEdition
      <4>2. ReadersSee[i][l] = {}
        BY <3>3 DEF ReadersSee
      <4> QED
        BY <2>2, <4>1, <4>2 DEF Lifecycle!Edited
    <3> QED
      BY <3>1, <3>2, <3>3
  <2> QED
    BY <2>1, <2>2
<1>3. ReadersSee' = ReadersSee
  BY DEF ReadersSee
<1> QED
  BY <1>1, <1>2, <1>3 DEF Lifecycle!Edit

LEMMA EditedAsPromised ==
    ASSUME NEW i \in Issues, Lifecycle!Edit(i)
    PROVE  Lifecycle!Next
BY DEF Lifecycle!Next

----------------------------------------------------------------------------
(* The steps of the editors                                                *)

LEMMA PutVersionPromised ==
    ASSUME BulletinAssumption, TypeOK, Agreement,
           NEW i \in Issues, NEW l \in Locales, NEW a \in Assets, PutVersion(i, l, a)
    PROVE  Lifecycle!Next
<1>1. /\ Mutable(i) /\ pub' = pub
      /\ version' = [version EXCEPT ![i][l] = Drafted(version[i][l], a)]
  BY DEF PutVersion, public, TypeOK, CmsOK
<1>2. /\ version'[i][l] = Drafted(version[i][l], a)
      /\ \A m \in Locales \ {l} : version'[i][m] = version[i][m]
      /\ \A j \in Issues \ {i} : version'[j] = version[j]
  BY <1>1 DEF TypeOK, CmsOK
<1>3. version'[i][l].status = "draft"
  BY <1>2 DEF Drafted
<1>4. \A m \in Locales : version[i][m].status \notin InFlight
  BY <1>1, MutableIssue
<1> QED
  BY <1>1, <1>2, <1>3, <1>4, EditPromised, EditedAsPromised

LEMMA UpdateVersionPromised ==
    ASSUME BulletinAssumption, TypeOK, Agreement,
           NEW i \in Issues, NEW l \in Locales, UpdateVersion(i, l)
    PROVE  Lifecycle!Next
<1>1. Mutable(i) /\ pub' = pub /\ WritesStatus(i, l, "draft")
  BY DEF UpdateVersion, public, WritesStatus
<1>2. /\ version'[i][l].status = "draft"
      /\ \A m \in Locales \ {l} : version'[i][m] = version[i][m]
      /\ \A j \in Issues \ {i} : version'[j] = version[j]
  BY <1>1, StatusWritten
<1>3. \A m \in Locales : version[i][m].status \notin InFlight
  BY <1>1, MutableIssue
<1> QED
  BY <1>1, <1>2, <1>3, EditPromised, EditedAsPromised

LEMMA DeleteVersionPromised ==
    ASSUME BulletinAssumption, TypeOK, Agreement, AllRecorded,
           NEW i \in Issues, NEW l \in Locales, DeleteVersion(i, l)
    PROVE  Lifecycle!Next
<1>1. /\ Mutable(i) /\ pub' = pub /\ ~HasGrant(version[i][l])
      /\ version' = [version EXCEPT ![i][l] = NoVersion]
  BY DEF DeleteVersion, public
<1>2. /\ version'[i][l] = NoVersion
      /\ \A m \in Locales \ {l} : version'[i][m] = version[i][m]
      /\ \A j \in Issues \ {i} : version'[j] = version[j]
  BY <1>1 DEF TypeOK, CmsOK
<1>3. \A m \in Locales : version[i][m].status \notin InFlight
  BY <1>1, MutableIssue
<1>4. \A n \in Numbers : pub[l][n].issue # i
  BY <1>1, NoGrantNoRow DEF AllRecorded
<1> QED
  BY <1>1, <1>2, <1>3, <1>4, EditPromised, EditedAsPromised

LEMMA RestorePromised ==
    ASSUME BulletinAssumption, TypeOK, Agreement, AllRecorded,
           NEW i \in Issues, NEW r \in Versions, RestoreIssueRevision(i, r)
    PROVE  Lifecycle!Next
<1>0. PICK given : given = revision[i][r].assets
  OBVIOUS
<1>1. /\ Mutable(i) /\ pub' = pub
      /\ version' = [version EXCEPT ![i] = [l \in Locales |->
                IF given[l] = None THEN NoVersion ELSE Drafted(version[i][l], given[l])]]
      /\ \A l \in Locales : given[l] = None => ~HasGrant(version[i][l])
  BY <1>0 DEF RestoreIssueRevision, public, TypeOK, CmsOK
<1>2. /\ \A l \in Locales : version'[i][l] = IF given[l] = None THEN NoVersion
                                            ELSE Drafted(version[i][l], given[l])
      /\ \A j \in Issues \ {i} : version'[j] = version[j]
  BY <1>1 DEF TypeOK, CmsOK
<1>3. \A m \in Locales : version[i][m].status \notin InFlight
  BY <1>1, MutableIssue
<1>4. ASSUME NEW l \in Locales
      PROVE  \/ version'[i][l].status = "draft"
             \/ version'[i][l] = NoVersion /\ \A n \in Numbers : pub[l][n].issue # i
  <2>1. CASE given[l] = None
    <3>1. \A n \in Numbers : pub[l][n].issue # i
      BY <1>1, <2>1, NoGrantNoRow DEF AllRecorded
    <3> QED
      BY <1>2, <2>1, <3>1
  <2>2. CASE given[l] # None
    <3>1. version'[i][l] = Drafted(version[i][l], given[l])
      BY <1>2, <2>2
    <3>2. Drafted(version[i][l], given[l]).status = "draft"
      BY DEF Drafted
    <3> QED
      BY <3>1, <3>2
  <2> QED
    BY <2>1, <2>2
<1> QED
  BY <1>1, <1>2, <1>3, <1>4, EditPromised, EditedAsPromised

LEMMA DeleteIssuePromised ==
    ASSUME BulletinAssumption, TypeOK, Agreement, NEW i \in Issues, DeleteIssue(i)
    PROVE  Lifecycle!Next
<1>1. /\ issue[i].status \notin InFlight /\ pub' = pub
      /\ version' = [version EXCEPT ![i] = [l \in Locales |-> NoVersion]]
      /\ \A l \in Locales, n \in Numbers : pub[l][n].issue # i
  BY DEF DeleteIssue, public
<1>2. /\ \A l \in Locales : version'[i][l] = NoVersion
      /\ \A j \in Issues \ {i} : version'[j] = version[j]
  BY <1>1 DEF TypeOK, CmsOK
<1>3. \A m \in Locales : version[i][m].status \notin InFlight
  BY <1>1, VersionsAtRest DEF TypeOK
<1> QED
  BY <1>1, <1>2, <1>3, EditPromised, EditedAsPromised

LEMMA AtRest ==
    ASSUME NEW i \in Issues, \A l \in Locales : version[i][l].status \notin InFlight
    PROVE  \A l \in Locales : EditionRows[i][l].phase \notin Lifecycle!InFlight
BY EditionFields, EditionIsItsVersion DEF InFlight, Lifecycle!InFlight

LEMMA StartPublishPromised ==
    ASSUME BulletinAssumption, TypeOK, Agreement,
           NEW i \in Issues, NEW l \in Locales, NEW notify, StartPublish(i, l, notify)
    PROVE  Lifecycle!Next
<1>1. /\ Mutable(i) /\ version[i][l].status # "absent" /\ pub' = pub
      /\ WritesStatus(i, l, "publishing")
  BY DEF StartPublish, public, WritesStatus
<1>2. /\ version'[i][l].status = "publishing"
      /\ version'[i][l].asset = version[i][l].asset
      /\ \A m \in Locales \ {l} : version'[i][m] = version[i][m]
      /\ \A j \in Issues \ {i} : version'[j] = version[j]
  BY <1>1, StatusWritten
<1>3. Lifecycle!Moves(i, l, "publishing")
  BY <1>2, EditionMoves
<1>4. /\ \A m \in Locales : EditionRows[i][m].phase \notin Lifecycle!InFlight
      /\ EditionRows[i][l].phase # "absent"
  BY <1>1, MutableIssue, AtRest, EditionFields, EditionIsItsVersion
<1>5. ReadersSee' = ReadersSee
  BY <1>1 DEF ReadersSee
<1>6. Lifecycle!RequestPublish(i, l)
  BY <1>3, <1>4, <1>5 DEF Lifecycle!RequestPublish
<1> QED
  BY <1>6 DEF Lifecycle!Next

LEMMA UnpublishPromised ==
    ASSUME BulletinAssumption, TypeOK, Agreement, UniqueNumbers, AllRecorded,
           NEW i \in Issues, NEW l \in Locales, Unpublish(i, l)
    PROVE  Lifecycle!Next
<1>1. /\ Mutable(i) /\ WritesStatus(i, l, "unpublishing")
      /\ version[i][l].status \in {"published", "draft", "unpublish_failed"}
  BY DEF Unpublish, WritesStatus
<1>2. /\ version'[i][l].status = "unpublishing"
      /\ version'[i][l].asset = version[i][l].asset
      /\ \A m \in Locales \ {l} : version'[i][m] = version[i][m]
      /\ \A j \in Issues \ {i} : version'[j] = version[j]
  BY <1>1, StatusWritten
<1>3. Lifecycle!Moves(i, l, "unpublishing")
  BY <1>2, EditionMoves
<1>4. /\ \A m \in Locales : EditionRows[i][m].phase \notin Lifecycle!InFlight
      /\ EditionRows[i][l].phase \in {"published", "draft", "unpublish_failed"}
  BY <1>1, MutableIssue, AtRest, EditionFields, EditionIsItsVersion
<1>5. /\ \A n \in Numbers : pub'[l][n].issue # i
      /\ \A j \in Issues, m \in Locales : (j # i \/ m # l) => SameSeen(j, m)
  BY UnpublishedRows
<1>6. {pub'[l][n].asset : n \in {m \in Numbers : pub'[l][m].issue = i}} = {}
  BY <1>5
<1>7. Lifecycle!Shows(i, l, {})
  BY <1>5, <1>6, ReadersMove
<1>8. Lifecycle!Withdraw(i, l)
  BY <1>3, <1>4, <1>7 DEF Lifecycle!Withdraw
<1> QED
  BY <1>8 DEF Lifecycle!Next

LEMMA EditIsPromised ==
    ASSUME BulletinAssumption, TypeOK, Agreement, UniqueNumbers, AllRecorded,
           NEW i \in Issues, Edit(i)
    PROVE  Lifecycle!Next \/ UNCHANGED <<EditionRows, ReadersSee>>
<1>1. CASE \E n \in Numbers : CreateIssue(i, n) \/ UpdateIssue(i, n)
  <2>1. version' = version /\ pub' = pub
    BY <1>1 DEF CreateIssue, UpdateIssue, public
  <2> QED
    BY <2>1, AbstractStutter
<1> QED
  BY <1>1, PutVersionPromised, UpdateVersionPromised, DeleteVersionPromised, RestorePromised,
     DeleteIssuePromised, StartPublishPromised, UnpublishPromised DEF Edit

----------------------------------------------------------------------------
(* The steps of the workers                                                *)

LEMMA FailEventPromised ==
    ASSUME BulletinAssumption, TypeOK, NEW k \in DOMAIN outbox, NEW box, FailEvent(k, box)
    PROVE  Lifecycle!Next \/ UNCHANGED <<EditionRows, ReadersSee>>
<1>1. PICK i, l : i = k.issue /\ l = k.locale
  OBVIOUS
<1>2. /\ pub' = pub /\ i \in Issues
      /\ \/ version' = version
         \/ /\ l \in Locales /\ version[i][l].status = Doing(k.kind)
            /\ \/ k.kind = "publish" /\ WritesStatus(i, l, "draft")
               \/ k.kind = "unpublish" /\ WritesStatus(i, l, "unpublish_failed")
  BY <1>1, FailEffect, KeyFields DEF TypeOK, OutboxOK
<1>3. CASE version' = version
  BY <1>2, <1>3, AbstractStutter
<1>4. CASE version' # version
  <2>1. PICK s : /\ WritesStatus(i, l, s)
                 /\ \/ version[i][l].status = "publishing" /\ s = "draft"
                    \/ version[i][l].status = "unpublishing" /\ s = "unpublish_failed"
    BY <1>2, <1>4 DEF Doing
  <2>2. l \in Locales
    BY <1>2, <1>4
  <2>3. /\ version'[i][l].status = s
        /\ version'[i][l].asset = version[i][l].asset
        /\ \A m \in Locales \ {l} : version'[i][m] = version[i][m]
        /\ \A j \in Issues \ {i} : version'[j] = version[j]
    BY <1>2, <2>1, <2>2, StatusWritten
  <2>4. Lifecycle!Moves(i, l, s)
    BY <1>2, <2>2, <2>3, EditionMoves
  <2>5. ReadersSee' = ReadersSee
    BY <1>2 DEF ReadersSee
  <2>6. EditionRows[i][l].phase = version[i][l].status
    BY <1>2, <2>2, EditionFields, EditionIsItsVersion
  <2>7. Lifecycle!GiveUpPublish(i, l) \/ Lifecycle!EndWithdraw(i, l)
    BY <2>1, <2>4, <2>5, <2>6 DEF Lifecycle!GiveUpPublish, Lifecycle!EndWithdraw
  <2> QED
    BY <1>2, <2>2, <2>7 DEF Lifecycle!Next
<1> QED
  BY <1>3, <1>4

LEMMA WithdrawnPromised ==
    ASSUME BulletinAssumption, TypeOK, NEW k \in DOMAIN outbox, Publishes(k), pub' = pub,
           version[k.issue][k.locale].status = "unpublishing", Exists(k.issue),
           UnpublishEdition(k)
    PROVE  Lifecycle!Next
<1>1. PICK i, l : i = k.issue /\ l = k.locale
  OBVIOUS
<1>2. i \in Issues /\ l \in Locales
  BY <1>1, KeyFields DEF TypeOK, OutboxOK
<1>3. /\ version'[i][l].status = "unpublished"
      /\ version'[i][l].asset = version[i][l].asset
      /\ \A m \in Locales \ {l} : version'[i][m] = version[i][m]
      /\ \A j \in Issues \ {i} : version'[j] = version[j]
  BY <1>1, WithdrawnEffect
<1>4. Lifecycle!Moves(i, l, "unpublished")
  BY <1>2, <1>3, EditionMoves
<1>5. ReadersSee' = ReadersSee
  BY DEF ReadersSee
<1>6. EditionRows[i][l].phase = "unpublishing"
  BY <1>1, <1>2, EditionFields, EditionIsItsVersion
<1>7. Lifecycle!EndWithdraw(i, l)
  BY <1>4, <1>5, <1>6 DEF Lifecycle!EndWithdraw
<1> QED
  BY <1>2, <1>7 DEF Lifecycle!Next

LEMMA PublishedPromised ==
    ASSUME BulletinAssumption, TypeOK, Agreement, UniqueNumbers, AllRecorded,
           NEW k \in DOMAIN outbox, k.kind = "publish", Current(k), PublishEdition(k)
    PROVE  Lifecycle!Next
<1>1. PICK i, l, a : i = k.issue /\ l = k.locale /\ a = version[i][l].asset
  OBVIOUS
<1>2. /\ i \in Issues /\ l \in Locales /\ issue[i].number \in Numbers
      /\ pub'[l][issue[i].number] = [issue |-> i, ver |-> k.ver, asset |-> a]
      /\ version'[i][l].status = "published"
      /\ version'[i][l].asset = version[i][l].asset
      /\ \A m \in Locales \ {l} : version'[i][m] = version[i][m]
      /\ \A j \in Issues \ {i} : version'[j] = version[j]
  BY <1>1, PublishedEffect
<1>3. /\ \A n \in Numbers : pub'[l][n].issue = i <=> n = issue[i].number
      /\ \A j \in Issues, m \in Locales : (j # i \/ m # l) => SameSeen(j, m)
  BY <1>1, PublishedRow
<1>4. Lifecycle!Moves(i, l, "published")
  BY <1>2, EditionMoves
<1>5. {pub'[l][n].asset : n \in {m \in Numbers : pub'[l][m].issue = i}} = {a}
  <2>1. pub'[l][issue[i].number].asset = a
    BY <1>2
  <2>2. {m \in Numbers : pub'[l][m].issue = i} = {issue[i].number}
    BY <1>2, <1>3
  <2> QED
    BY <2>1, <2>2
<1>6. Lifecycle!Shows(i, l, {a})
  BY <1>2, <1>3, <1>5, ReadersMove
<1>7. EditionRows[i][l].phase = "publishing" /\ EditionRows[i][l].asset = a
  <2>1. version[i][l].status = "publishing" /\ i \in Issues /\ l \in Locales
    BY <1>1, <1>2 DEF Current
  <2>2. EditionRows[i][l] = EditionOf(version[i][l])
    BY <2>1, EditionFields
  <2> QED
    BY <1>1, <2>1, <2>2, EditionIsItsVersion
<1>8. Lifecycle!Publish(i, l)
  BY <1>4, <1>6, <1>7 DEF Lifecycle!Publish
<1> QED
  BY <1>2, <1>8 DEF Lifecycle!Next

----------------------------------------------------------------------------
(* The refinement                                                          *)

LEMMA InitPromised ==
    ASSUME BulletinAssumption, Init
    PROVE  Lifecycle!Init
<1>1. /\ \A i \in Issues, l \in Locales : version[i][l] = NoVersion
      /\ \A l \in Locales, n \in Numbers : pub[l][n] = NoPub
  BY DEF Init
<1>2. EditionRows = [i \in Issues |-> [l \in Locales |-> Lifecycle!NoEdition]]
  BY <1>1, NoVersionIsNoEdition DEF EditionRows
<1>3. \A i \in Issues, l \in Locales, n \in Numbers : pub[l][n].issue # i
  BY <1>1 DEF NoPub, BulletinAssumption
<1>4. ReadersSee = [i \in Issues |-> [l \in Locales |-> {}]]
  <2>1. \A i \in Issues, l \in Locales :
            {pub[l][n].asset : n \in {m \in Numbers : pub[l][m].issue = i}} = {}
    BY <1>3
  <2> QED
    BY <2>1 DEF ReadersSee
<1> QED
  BY <1>2, <1>4 DEF Lifecycle!Init

LEMMA StepPromised ==
    ASSUME BulletinAssumption, PublicInv, [Next]_vars
    PROVE  Lifecycle!Next \/ UNCHANGED <<EditionRows, ReadersSee>>
<1>1. TypeOK /\ Agreement /\ UniqueNumbers /\ AllRecorded
  BY DEF PublicInv, AgreementInv
<1>2. ASSUME NEW i \in Issues, Edit(i)
      PROVE  Lifecycle!Next \/ UNCHANGED <<EditionRows, ReadersSee>>
  BY <1>1, <1>2, EditIsPromised
<1>3. ASSUME NEW w \in Workers, WorkerStep(w)
      PROVE  Lifecycle!Next \/ UNCHANGED <<EditionRows, ReadersSee>>
  BY <1>1, <1>3, WorkerEffect, AbstractStutter, FailEventPromised, PublishedPromised,
     WithdrawnPromised
<1>4. CASE version' = version /\ pub' = pub
  BY <1>4, AbstractStutter
<1> QED
  BY <1>2, <1>3, <1>4 DEF Next, Claim, Crash, AssetScanned, RetryAssetScan, vars, cms, public

\* The publication of bulletins, with its outbox, its workers, their crashes and
\* retries, implements the lifecycle of an edition: readers see only what an
\* editor asked to publish, until it is withdrawn.
THEOREM EditionsArePublishedAsPromised == Spec => PublishesAsPromised
<1>1. Init => Lifecycle!Init
  BY InitPromised, BulletinAssumption
<1>2. PublicInv /\ [Next]_vars => [Lifecycle!Next]_<<EditionRows, ReadersSee>>
  BY StepPromised, BulletinAssumption
<1> QED
  BY <1>1, <1>2, PublicInvariant, PTL DEF Spec, PublishesAsPromised, Lifecycle!Spec

----------------------------------------------------------------------------
(***************************************************************************)
(* What the public rows show and when they change.  LatestIsNewest: the    *)
(* latest row of a locale follows its public rows.                         *)
(* VisibilityChangesByWorkflow: a row appears while its grant is live,     *)
(* since every revocation is of a grant older than the version that is     *)
(* being published.                                                        *)
(***************************************************************************)
\* LatestIsNewest of one locale, column by column.
NewestAt(l) ==
    LET x == latest[l]
    IN IF x.issue = None
       THEN \A n \in Numbers : pub[l][n].issue = None
       ELSE /\ x.number \in Numbers
            /\ pub[l][x.number].issue = x.issue
            /\ pub[l][x.number].ver = x.ver
            /\ pub[l][x.number].asset = x.asset
            /\ \A n \in Numbers : pub[l][n].issue # None => n <= x.number

Newest == \A l \in Locales : NewestAt(l)

LEMMA LatestFields ==
    ASSUME BulletinAssumption, PublicOK, NEW l \in Locales
    PROVE  /\ latest[l].issue \in Issues => latest[l] \in LatestRows
           /\ latest[l].issue \in Issues \cup {None}
           /\ latest[l] = NoLatest <=> latest[l].issue = None
<1>1. latest[l] \in LatestRows \cup {NoLatest}
  BY DEF PublicOK
<1>2. None \notin Issues /\ NoLatest.issue = None
  BY DEF BulletinAssumption, NoLatest
<1>3. \A r \in LatestRows : r.issue \in Issues
  BY DEF LatestRows
<1> QED
  BY <1>1, <1>2, <1>3

LEMMA NewestIsLatest ==
    ASSUME BulletinAssumption, TypeOK
    PROVE  Newest => LatestIsNewest
<1> SUFFICES ASSUME Newest, NEW l \in Locales
             PROVE  IF latest[l] = NoLatest
                    THEN \A n \in Numbers : ~Public(l, n)
                    ELSE /\ pub[l][latest[l].number] = [issue |-> latest[l].issue,
                                                        ver |-> latest[l].ver,
                                                        asset |-> latest[l].asset]
                         /\ \A n \in Numbers : Public(l, n) => n <= latest[l].number
  BY DEF LatestIsNewest
<1>1. NewestAt(l)
  BY DEF Newest
<1>2. \A n \in Numbers : Public(l, n) <=> pub[l][n].issue # None
  BY PubFields DEF TypeOK, Public
<1>3. latest[l] = NoLatest <=> latest[l].issue = None
  BY LatestFields DEF TypeOK
<1>4. CASE latest[l].issue = None
  BY <1>1, <1>2, <1>3, <1>4 DEF NewestAt
<1>5. CASE latest[l].issue # None
  <2>1. PICK n \in Numbers : n = latest[l].number
    BY <1>1, <1>5 DEF NewestAt
  <2>2. pub[l][n] \in PubRows
    BY <1>1, <1>5, <2>1, LatestFields, PubFields DEF NewestAt, TypeOK
  <2>3. /\ pub[l][n].issue = latest[l].issue /\ pub[l][n].ver = latest[l].ver
        /\ pub[l][n].asset = latest[l].asset
    BY <1>1, <1>5, <2>1 DEF NewestAt
  <2>4. pub[l][n] = [issue |-> latest[l].issue, ver |-> latest[l].ver, asset |-> latest[l].asset]
    BY <2>2, <2>3 DEF PubRows
  <2> QED
    BY <1>1, <1>2, <1>3, <1>5, <2>1, <2>4 DEF NewestAt
<1> QED
  BY <1>4, <1>5

----------------------------------------------------------------------------
(* The latest rows                                                         *)

LEMMA NewestUnchanged ==
    ASSUME Newest, pub' = pub, latest' = latest
    PROVE  Newest'
BY DEF Newest, NewestAt

\* A publication writes the latest row unless it shows a greater number.
LEMMA PublishedNewest ==
    ASSUME BulletinAssumption, TypeOK, Newest, NEW l \in Locales, NEW n \in Numbers,
           NEW row \in PubRows, pub' = [pub EXCEPT ![l][n] = row],
           latest' = NewerLatest(l, row, n)
    PROVE  Newest'
<1>1. /\ pub'[l][n] = row /\ \A m \in Numbers \ {n} : pub'[l][m] = pub[l][m]
      /\ \A k \in Locales \ {l} : pub'[k] = pub[k]
  BY DEF TypeOK, PublicOK
<1>2. /\ n \in Nat /\ n # 0 /\ \A m \in Numbers : m \in Nat
      /\ row.issue # None
  BY DEF BulletinAssumption, PubRows
<1>3. CASE latest[l].number <= n
  <2>1. PICK x : x = [issue |-> row.issue, ver |-> row.ver, asset |-> row.asset,
                      number |-> n, listed |-> latest[l].listed]
    OBVIOUS
  <2>2. latest' = [latest EXCEPT ![l] = x]
    BY <1>3, <2>1 DEF NewerLatest
  <2>3. latest'[l] = x /\ \A k \in Locales \ {l} : latest'[k] = latest[k]
    BY <2>2 DEF TypeOK, PublicOK
  <2>4. x.issue = row.issue /\ x.ver = row.ver /\ x.asset = row.asset /\ x.number = n
    BY <2>1
  <2>5. \A m \in Numbers : pub'[l][m].issue # None => m <= n
    <3> SUFFICES ASSUME NEW m \in Numbers, pub'[l][m].issue # None, m # n
                 PROVE  m <= n
      BY <1>2
    <3>1. pub[l][m].issue # None
      BY <1>1
    <3>2. NewestAt(l)
      BY DEF Newest
    <3>3. latest[l].issue # None /\ latest[l].number \in Numbers /\ m <= latest[l].number
      BY <3>1, <3>2 DEF NewestAt
    <3> QED
      BY <1>2, <1>3, <3>3
  <2>6. NewestAt(l)'
    BY <1>1, <1>2, <2>3, <2>4, <2>5 DEF NewestAt
  <2>7. ASSUME NEW k \in Locales \ {l}
        PROVE  NewestAt(k)'
    BY <1>1, <2>3 DEF Newest, NewestAt
  <2> QED
    BY <2>6, <2>7 DEF Newest
<1>4. CASE ~(latest[l].number <= n)
  <2>1. latest' = latest /\ NewestAt(l)
    BY <1>4 DEF NewerLatest, Newest
  <2>2. latest[l].issue # None
    <3>1. latest[l].issue = None => latest[l].number = 0
      BY LatestFields DEF TypeOK, NoLatest
    <3> QED
      BY <1>2, <1>4, <3>1
  <2>3. latest[l].number \in Numbers /\ latest[l].number # n /\ n <= latest[l].number
    BY <1>2, <1>4, <2>1, <2>2 DEF NewestAt
  <2>4. \A m \in Numbers : pub'[l][m].issue # None => m <= latest[l].number
    BY <1>1, <2>1, <2>2, <2>3 DEF NewestAt
  <2>5. NewestAt(l)'
    BY <1>1, <2>1, <2>2, <2>3, <2>4 DEF NewestAt
  <2>6. ASSUME NEW k \in Locales \ {l}
        PROVE  NewestAt(k)'
    BY <1>1, <2>1 DEF Newest, NewestAt
  <2> QED
    BY <2>5, <2>6 DEF Newest
<1> QED
  BY <1>3, <1>4

\* What RemainingLatest chooses: the greatest public row, or the kept row, or
\* that when there is no other.
LEMMA RemainingChosen ==
    ASSUME NEW rows, NEW kept, NEW x \in RemainingLatest(rows, kept)
    PROVE  \/ /\ x = kept /\ ~kept.listed
              /\ \A n \in Numbers : rows[n] = NoPub
           \/ /\ \/ x = kept /\ kept.listed
                 \/ \E n \in Numbers : /\ rows[n] # NoPub
                                       /\ x.issue = rows[n].issue /\ x.ver = rows[n].ver
                                       /\ x.asset = rows[n].asset /\ x.number = n
              /\ \A n \in Numbers : rows[n] # NoPub => n <= x.number
<1> DEFINE row(n) == [issue |-> rows[n].issue, ver |-> rows[n].ver,
                      asset |-> rows[n].asset, number |-> n,
                      listed |-> IF kept = NoLatest THEN TRUE ELSE kept.listed]
           taken == {row(n) : n \in {m \in Numbers : rows[m] # NoPub}}
           found == taken \cup (IF kept.listed THEN {kept} ELSE {})
<1>1. RemainingLatest(rows, kept) =
        IF found = {} THEN {kept} ELSE {f \in found : \A g \in found : g.number <= f.number}
  BY DEF RemainingLatest
<1>2. \A n : /\ row(n).issue = rows[n].issue /\ row(n).ver = rows[n].ver
             /\ row(n).asset = rows[n].asset /\ row(n).number = n
  OBVIOUS
<1>3. \A n \in Numbers : rows[n] # NoPub => row(n) \in found
  OBVIOUS
<1>4. \A f \in found : \/ f = kept /\ kept.listed
                       \/ \E n \in Numbers : rows[n] # NoPub /\ f = row(n)
  OBVIOUS
<1>5. kept.listed => kept \in found
  OBVIOUS
<1> HIDE DEF row, taken, found
<1>6. CASE found = {}
  BY <1>1, <1>3, <1>5, <1>6
<1>7. CASE found # {}
  <2>1. x \in found /\ \A g \in found : g.number <= x.number
    BY <1>1, <1>7
  <2>2. \A n \in Numbers : rows[n] # NoPub => n <= x.number
    BY <1>2, <1>3, <2>1
  <2> QED
    BY <1>2, <1>4, <2>1, <2>2
<1> QED
  BY <1>6, <1>7

LEMMA UnpublishedNewest ==
    ASSUME BulletinAssumption, TypeOK, UniqueNumbers, AllRecorded, Newest,
           NEW i \in Issues, NEW l \in Locales, Unpublish(i, l)
    PROVE  Newest'
<1>1. PICK rows, kept, x :
        /\ rows = [pub[l] EXCEPT ![issue[i].number] = NoPub]
        /\ kept = IF latest[l].issue = i THEN NoLatest ELSE latest[l]
        /\ x \in RemainingLatest(rows, kept)
        /\ pub' = [pub EXCEPT ![l] = rows] /\ latest' = [latest EXCEPT ![l] = x]
  BY DEF Unpublish
<1>2. Exists(i) /\ issue[i].number \in Numbers
  BY IssueFields DEF Unpublish, Mutable, TypeOK
<1>3. /\ pub'[l] = rows /\ latest'[l] = x
      /\ \A k \in Locales \ {l} : pub'[k] = pub[k] /\ latest'[k] = latest[k]
  BY <1>1 DEF TypeOK, PublicOK
<1>4. /\ rows[issue[i].number] = NoPub
      /\ \A n \in Numbers \ {issue[i].number} : rows[n] = pub[l][n]
  BY <1>1, <1>2 DEF TypeOK, PublicOK
<1>5. \A n \in Numbers : rows[n] # NoPub <=> rows[n].issue # None
  BY <1>4, PubFields DEF TypeOK, NoPub
<1>6. NewestAt(l)
  BY DEF Newest
\* The kept row is that of another issue, whose public row stays.
<1>7. ASSUME kept # NoLatest
      PROVE  /\ kept = latest[l] /\ kept.issue # None /\ kept.number \in Numbers
             /\ rows[kept.number] = pub[l][kept.number]
             /\ rows[kept.number].issue = kept.issue
  <2>1. kept = latest[l] /\ latest[l].issue # i
    BY <1>1, <1>7
  <2>2. PICK j \in Issues : j = kept.issue
    BY <1>7, <2>1, LatestFields DEF TypeOK
  <2>3. /\ kept.issue # None /\ kept.number \in Numbers
        /\ pub[l][kept.number].issue = j
    BY <1>6, <2>1, <2>2 DEF NewestAt, BulletinAssumption
  <2>4. Exists(j) /\ issue[j].number = kept.number
    BY <2>3, RowNumber DEF AllRecorded
  <2>5. kept.number # issue[i].number
    BY <1>2, <2>1, <2>2, <2>4 DEF UniqueNumbers
  <2> QED
    BY <1>4, <2>1, <2>2, <2>3, <2>5
<1>8. NewestAt(l)'
  <2>1. CASE /\ x = kept /\ ~kept.listed
             /\ \A n \in Numbers : rows[n] = NoPub
    <3>1. kept = NoLatest
      BY <1>5, <1>7, <2>1
    <3>2. x.issue = None
      BY <2>1, <3>1 DEF NoLatest
    <3>3. \A n \in Numbers : rows[n].issue = None
      BY <1>5, <2>1
    <3> QED
      BY <1>3, <3>2, <3>3 DEF NewestAt
  <2>2. CASE /\ x = kept /\ kept.listed
             /\ \A n \in Numbers : rows[n] # NoPub => n <= x.number
    <3>1. kept # NoLatest
      BY <2>2 DEF NoLatest
    <3>2. /\ x.issue # None /\ x.number \in Numbers
          /\ rows[x.number].issue = x.issue /\ rows[x.number].ver = x.ver
          /\ rows[x.number].asset = x.asset
      BY <1>6, <1>7, <2>2, <3>1 DEF NewestAt
    <3> QED
      BY <1>3, <1>5, <2>2, <3>2 DEF NewestAt
  <2>3. CASE /\ \E n \in Numbers : /\ rows[n] # NoPub
                                   /\ x.issue = rows[n].issue /\ x.ver = rows[n].ver
                                   /\ x.asset = rows[n].asset /\ x.number = n
             /\ \A n \in Numbers : rows[n] # NoPub => n <= x.number
    BY <1>3, <1>5, <2>3 DEF NewestAt
  <2>4. x \in RemainingLatest(rows, kept)
    BY <1>1
  <2>5. \/ /\ x = kept /\ ~kept.listed
           /\ \A n \in Numbers : rows[n] = NoPub
        \/ /\ \/ x = kept /\ kept.listed
              \/ \E n \in Numbers : /\ rows[n] # NoPub
                                    /\ x.issue = rows[n].issue /\ x.ver = rows[n].ver
                                    /\ x.asset = rows[n].asset /\ x.number = n
           /\ \A n \in Numbers : rows[n] # NoPub => n <= x.number
    BY <2>4, RemainingChosen
  <2> QED
    BY <2>1, <2>2, <2>3, <2>5
<1>9. ASSUME NEW k \in Locales \ {l}
      PROVE  NewestAt(k)'
  BY <1>3 DEF Newest, NewestAt
<1> QED
  BY <1>8, <1>9 DEF Newest

----------------------------------------------------------------------------
(* The steps                                                               *)

\* Public rows change by an unpublication or a completed publication only.
LEMMA PublicSteps ==
    ASSUME BulletinAssumption, TypeOK, [Next]_vars
    PROVE  \/ pub' = pub /\ latest' = latest
           \/ \E i \in Issues, l \in Locales : Unpublish(i, l)
           \/ \E w \in Workers, k \in DOMAIN outbox :
                 /\ work[w].pc = "complete" /\ work[w].key = k
                 /\ k.kind = "publish" /\ Current(k) /\ PublishEdition(k)
<1>1. ASSUME NEW i \in Issues, Edit(i)
      PROVE  (pub' = pub /\ latest' = latest) \/ \E l \in Locales : Unpublish(i, l)
  BY <1>1 DEF Edit, CreateIssue, UpdateIssue, PutVersion, UpdateVersion, DeleteVersion,
     StartPublish, RestoreIssueRevision, DeleteIssue, public
<1>2. ASSUME NEW w \in Workers, WorkerStep(w)
      PROVE  \/ pub' = pub /\ latest' = latest
             \/ \E k \in DOMAIN outbox :
                 /\ work[w].pc = "complete" /\ work[w].key = k
                 /\ k.kind = "publish" /\ Current(k) /\ PublishEdition(k)
  <2>1. CASE CompletePublish(w)
    <3>1. PICK k : k = work[w].key /\ k \in DOMAIN outbox /\ k.kind = "publish"
      BY <2>1, WorkerKind DEF CompletePublish, TypeOK
    <3> QED
      BY <2>1, <3>1 DEF CompletePublish, public
  <2> QED
    BY <1>2, <2>1 DEF WorkerStep, Retry, Defer, Fail, FailPublish, FailEvent, GetAsset,
       CreatePublicGrant, EventDelivered, RevokeGrant, DeleteAsset, CompleteUnpublish,
       Complete, QueueNotification, CompleteNotification, public
<1> QED
  BY <1>1, <1>2 DEF Next, Claim, Crash, AssetScanned, RetryAssetScan, vars, public

\* A completed publication writes one public row and offers it as the latest.
LEMMA PublishedPublic ==
    ASSUME BulletinAssumption, TypeOK, Agreement, NEW k \in DOMAIN outbox,
           k.kind = "publish", Current(k), PublishEdition(k),
           NEW i, NEW l, i = k.issue, l = k.locale
    PROVE  \E row \in PubRows :
              /\ row = [issue |-> i, ver |-> k.ver, asset |-> outbox[k].asset]
              /\ issue[i].number \in Numbers /\ i \in Issues /\ l \in Locales
              /\ pub' = [pub EXCEPT ![l][issue[i].number] = row]
              /\ latest' = NewerLatest(l, row, issue[i].number)
<1>1. PICK row : row = [issue |-> i, ver |-> k.ver, asset |-> outbox[k].asset]
  OBVIOUS
<1>2. /\ pub' = [pub EXCEPT ![l][issue[i].number] = row]
      /\ latest' = NewerLatest(l, row, issue[i].number)
  BY <1>1 DEF PublishEdition
<1>3. issue[i].number \in Numbers /\ i \in Issues /\ l \in Locales
  BY PublishedEffect
<1>4. k.ver \in Versions /\ outbox[k].asset \in Assets
  <2>1. k \in Keys /\ outbox[k] \in EventRows(k)
    BY DEF TypeOK, OutboxOK
  <2> QED
    BY <2>1, KeyFields DEF Publishes, EventRows
<1>5. row \in PubRows
  BY <1>1, <1>3, <1>4 DEF PubRows
<1> QED
  BY <1>1, <1>2, <1>3, <1>5

LEMMA NextNewest ==
    ASSUME BulletinAssumption, PublicInv, Newest, [Next]_vars
    PROVE  Newest'
<1>1. TypeOK /\ Agreement /\ UniqueNumbers /\ AllRecorded
  BY DEF PublicInv, AgreementInv
<1>2. ASSUME NEW k \in DOMAIN outbox, k.kind = "publish", Current(k), PublishEdition(k)
      PROVE  Newest'
  BY <1>1, <1>2, PublishedPublic, PublishedNewest
<1> QED
  BY <1>1, <1>2, PublicSteps, NewestUnchanged, UnpublishedNewest

\* /bulletins/latest shows the greatest public number of its locale with the
\* content of that number's own page, whatever is published and unpublished.
THEOREM LatestBulletinIsNewest == Spec => []LatestIsNewest
<1>1. Init => Newest
  BY DEF Init, Newest, NewestAt, NoLatest, NoPub
<1>2. PublicInv /\ Newest /\ [Next]_vars => Newest'
  BY NextNewest, BulletinAssumption
<1>3. PublicInv /\ Newest => LatestIsNewest
  BY NewestIsLatest, BulletinAssumption DEF PublicInv, AgreementInv
<1> QED
  BY <1>1, <1>2, <1>3, PublicInvariant, PTL DEF Spec

----------------------------------------------------------------------------
(* Grants: what the steps keep                                             *)

\* The kinds of events whose handler revokes the grant of their payload.
Revoking == {"unpublish", "retire", "revoke"}

\* A revocation is of a grant older than the version being published.
RevokesOld(k) ==
    LET i == k.issue
    IN issue[i].status # "deleted" =>
            /\ outbox[k].grant <= issue[i].version
            /\ issue[i].status = "publishing" => outbox[k].grant # issue[i].version

RevokesBehind == \A k \in DOMAIN outbox : k.kind \in Revoking => RevokesOld(k)

\* The grants an edition records are of versions the issue has had.
GrantsOld(i, l) ==
    issue[i].status # "deleted" => /\ version[i][l].grant <= issue[i].version
                                   /\ version[i][l].retGrant <= issue[i].version

GrantsBehind == \A i \in Issues, l \in Locales : GrantsOld(i, l)

\* A worker about to complete the current publication has its grant live.
Holding(w) ==
    LET k == work[w].key
    IN (/\ work[w].pc = "complete"
        /\ issue[k.issue].status = "publishing"
        /\ issue[k.issue].version = k.ver)
       => <<outbox[k].asset, k.issue, k.ver>> \in grants

GrantsHeld == \A w \in Workers : Holding(w)

VisibilityInv == PublicInv /\ RevokesBehind /\ GrantsBehind /\ GrantsHeld

\* An issue that is publishing afterwards was before, or has a new version.
IssueMoves(i) ==
    issue'[i].status # "deleted" =>
        /\ issue[i].status # "deleted"
        /\ issue[i].version <= issue'[i].version
        /\ issue'[i].status = "publishing" =>
                issue[i].status = "publishing" \/ issue[i].version # issue'[i].version

PayloadsKept ==
    \A k \in DOMAIN outbox : /\ k \in DOMAIN outbox'
                             /\ outbox'[k].asset = outbox[k].asset
                             /\ outbox'[k].grant = outbox[k].grant

NewEvents == DOMAIN outbox' \ DOMAIN outbox

GrantsFrom(i, l) ==
    /\ version'[i][l].grant \in {0, version[i][l].grant, issue'[i].version}
    /\ version'[i][l].retGrant \in {0, version[i][l].grant, version[i][l].retGrant}

KeepsGrants(i, l) ==
    /\ version'[i][l].grant \in {0, version[i][l].grant}
    /\ version'[i][l].retGrant \in {0, version[i][l].grant, version[i][l].retGrant}

\* No worker comes to completing a publication.
NoneCompletes == \A w \in Workers : work'[w].pc = "complete" => work'[w] = work[w]

LEMMA VersionNumbers ==
    ASSUME BulletinAssumption, TypeOK, TypeOK', NEW i \in Issues
    PROVE  issue[i].version \in Nat /\ issue'[i].version \in Nat
<1>1. issue[i].version \in Nat
  BY IssueFields DEF TypeOK, GrantIds
<1>2. issue'[i] \in IssueRows
  BY DEF TypeOK, CmsOK
<1>3. issue'[i].version \in Nat
  BY <1>2 DEF IssueRows, IssueRow, NoIssue, Versions, BulletinAssumption
<1> QED
  BY <1>1, <1>3

LEMMA EventFields ==
    ASSUME BulletinAssumption, OutboxOK, NEW k \in DOMAIN outbox
    PROVE  /\ k \in Keys /\ k.issue \in Issues
           /\ outbox[k].grant \in Nat
           /\ DOMAIN outbox[k] = {"status", "attempts", "asset", "grant", "notify"}
<1>1. k \in Keys /\ outbox[k] \in EventRows(k)
  BY DEF OutboxOK
<1> QED
  BY <1>1, KeyFields DEF EventRows, GrantIds

LEMMA RevokesStay ==
    ASSUME BulletinAssumption, TypeOK, TypeOK', RevokesBehind, PayloadsKept,
           \A i \in Issues : IssueMoves(i),
           \A k \in NewEvents : k.kind \in Revoking => RevokesOld(k)'
    PROVE  RevokesBehind'
<1> SUFFICES ASSUME NEW k \in DOMAIN outbox', k.kind \in Revoking
             PROVE  RevokesOld(k)'
  BY DEF RevokesBehind
<1>1. CASE k \in NewEvents
  BY <1>1
<1>2. CASE k \in DOMAIN outbox
  <2>1. PICK i \in Issues : i = k.issue
    BY <1>2, EventFields DEF TypeOK
  <2>2. issue[i].version \in Nat /\ issue'[i].version \in Nat /\ outbox[k].grant \in Nat
    BY <1>2, VersionNumbers, EventFields DEF TypeOK
  <2>3. RevokesOld(k) /\ outbox'[k].grant = outbox[k].grant /\ IssueMoves(i)
    BY <1>2 DEF RevokesBehind, PayloadsKept
  <2> QED
    BY <2>1, <2>2, <2>3 DEF RevokesOld, IssueMoves
<1> QED
  BY <1>1, <1>2 DEF NewEvents

LEMMA GrantsStay ==
    ASSUME BulletinAssumption, TypeOK, TypeOK', GrantsBehind,
           \A i \in Issues : IssueMoves(i),
           \A i \in Issues, l \in Locales : GrantsFrom(i, l)
    PROVE  GrantsBehind'
<1> SUFFICES ASSUME NEW i \in Issues, NEW l \in Locales
             PROVE  GrantsOld(i, l)'
  BY DEF GrantsBehind
<1>1. /\ issue[i].version \in Nat /\ issue'[i].version \in Nat
      /\ version[i][l].grant \in Nat /\ version[i][l].retGrant \in Nat
  BY VersionNumbers, VersionFields DEF TypeOK, GrantIds
<1>2. GrantsOld(i, l) /\ GrantsFrom(i, l) /\ IssueMoves(i)
  BY DEF GrantsBehind
<1> QED
  BY <1>1, <1>2 DEF GrantsOld, GrantsFrom, IssueMoves

\* A worker that was not about to complete the current publication does not get
\* to it by what others do: its key is of an older version.
LEMMA HeldStays ==
    ASSUME BulletinAssumption, TypeOK, TypeOK', Agreement, PayloadsKept,
           \A i \in Issues : IssueMoves(i), NEW w \in Workers, Holding(w),
           work'[w] = work[w] \/ work'[w].pc # "complete",
           \A a, i, v : (/\ i \in Issues /\ issue[i].status = "publishing"
                         /\ issue[i].version = v /\ <<a, i, v>> \in grants)
                        => <<a, i, v>> \in grants'
    PROVE  Holding(w)'
<1> SUFFICES ASSUME work'[w].pc = "complete", NEW k, k = work'[w].key,
                    issue'[k.issue].status = "publishing", issue'[k.issue].version = k.ver
             PROVE  <<outbox'[k].asset, k.issue, k.ver>> \in grants'
  BY DEF Holding
<1>1. work'[w] = work[w] /\ work[w] # Idle
  BY DEF Idle
<1>2. k \in DOMAIN outbox /\ k \in Keys /\ Publishes(k)
  BY <1>1, WorkerKind DEF TypeOK, Publishes
<1>3. PICK i \in Issues : i = k.issue
  BY <1>2, KeyFields
<1>4. k.ver <= issue[i].version
  <2>1. issue[i].status # "deleted"
    BY <1>3 DEF IssueMoves
  <2> QED
    BY <1>2, <1>3, <2>1 DEF Agreement, EventsAreSerial
<1>5. issue[i].status = "publishing" /\ issue[i].version = k.ver
  <2>1. issue[i].version \in Nat /\ issue'[i].version \in Nat
    BY VersionNumbers
  <2> QED
    BY <1>3, <1>4, <2>1 DEF IssueMoves
<1>6. outbox'[k].asset = outbox[k].asset
  BY <1>2 DEF PayloadsKept
<1>7. <<outbox[k].asset, k.issue, k.ver>> \in grants
  BY <1>1, <1>3, <1>5 DEF Holding
<1> QED
  BY <1>3, <1>5, <1>6, <1>7

\* A step that only keeps these keeps the invariant.
LEMMA VisibilityKept ==
    ASSUME BulletinAssumption, TypeOK, TypeOK', Agreement, RevokesBehind, GrantsBehind,
           GrantsHeld, PayloadsKept, NoneCompletes,
           \A i \in Issues : IssueMoves(i),
           \A i \in Issues, l \in Locales : GrantsFrom(i, l),
           \A k \in NewEvents : k.kind \in Revoking => RevokesOld(k)',
           grants' = grants
    PROVE  RevokesBehind' /\ GrantsBehind' /\ GrantsHeld'
<1>1. RevokesBehind' /\ GrantsBehind'
  BY RevokesStay, GrantsStay
<1>2. ASSUME NEW w \in Workers
      PROVE  Holding(w)'
  <2>1. Holding(w) /\ (work'[w] = work[w] \/ work'[w].pc # "complete")
    BY DEF GrantsHeld, NoneCompletes
  <2> QED
    BY <2>1, HeldStays
<1> QED
  BY <1>1, <1>2 DEF GrantsHeld

----------------------------------------------------------------------------
(* Grants: events and workers                                              *)

LEMMA InsertedPayload ==
    ASSUME NEW k, NEW e, outbox' = Insert(outbox, k, e)
    PROVE  /\ PayloadsKept /\ NewEvents \subseteq {k}
           /\ k \in NewEvents => outbox'[k] = e
<1>1. /\ DOMAIN outbox' = DOMAIN outbox \cup {k}
      /\ \A x \in DOMAIN outbox : outbox'[x] = outbox[x]
      /\ k \notin DOMAIN outbox => outbox'[k] = e
  BY DEF Insert
<1> QED
  BY <1>1 DEF PayloadsKept, NewEvents

LEMMA DeletesPayload ==
    ASSUME NEW i, NEW S, EnqueueAssetDeletes(i, S)
    PROVE  PayloadsKept /\ \A k \in NewEvents : k.kind \notin Revoking
<1> DEFINE new == {DeleteKey(i, a) : a \in S} \ DOMAIN outbox
<1>1. \A k \in new : k.kind = "delete"
  BY DEF DeleteKey, EventKey
<1>2. /\ \A k \in DOMAIN outbox : outbox'[k] = outbox[k]
      /\ DOMAIN outbox' = DOMAIN outbox \cup new
  BY DEF EnqueueAssetDeletes
<1> HIDE DEF new
<1> QED
  BY <1>1, <1>2 DEF PayloadsKept, NewEvents, Revoking

LEMMA SamePayload ==
    ASSUME outbox' = outbox
    PROVE  PayloadsKept /\ NewEvents = {}
BY DEF PayloadsKept, NewEvents

LEMMA StatusPayload ==
    ASSUME BulletinAssumption, OutboxOK, NEW k \in DOMAIN outbox, NEW s, NEW n,
           \/ outbox' = [outbox EXCEPT ![k].status = s]
           \/ outbox' = [outbox EXCEPT ![k].status = s, ![k].attempts = n]
    PROVE  PayloadsKept /\ NewEvents = {}
<1>1. DOMAIN outbox[k] = {"status", "attempts", "asset", "grant", "notify"}
  BY EventFields
<1>2. /\ DOMAIN outbox' = DOMAIN outbox
      /\ outbox'[k].asset = outbox[k].asset /\ outbox'[k].grant = outbox[k].grant
      /\ \A x \in DOMAIN outbox \ {k} : outbox'[x] = outbox[x]
  BY <1>1
<1> QED
  BY <1>2 DEF PayloadsKept, NewEvents

LEMMA WorkGoesOn ==
    ASSUME WorkOK, NEW w \in Workers, NEW s, s # "complete",
           \/ work' = work
           \/ Goto(w, s) /\ work[w] # Idle
           \/ Release(w)
    PROVE  NoneCompletes
<1>1. DOMAIN work = Workers /\ Idle.pc # "complete"
  BY DEF WorkOK, Idle
<1>2. work[w] # Idle => "pc" \in DOMAIN work[w]
  BY DEF WorkOK, BusyOK
<1>3. /\ \A x \in Workers \ {w} : work'[x] = work[x]
      /\ work'[w] = work[w] \/ work'[w].pc # "complete"
  BY <1>1, <1>2 DEF Goto, Release
<1> QED
  BY <1>3 DEF NoneCompletes

----------------------------------------------------------------------------
(* Grants: issues and editions                                             *)

LEMMA SameIssuesMove ==
    ASSUME BulletinAssumption, TypeOK, issue' = issue
    PROVE  \A i \in Issues : IssueMoves(i)
<1>1. \A i \in Issues : issue[i].version \in Nat
  BY IssueFields DEF TypeOK, GrantIds
<1> QED
  BY <1>1 DEF IssueMoves

LEMMA KeptGrants ==
    ASSUME \A i \in Issues, l \in Locales : KeepsGrants(i, l)
    PROVE  \A i \in Issues, l \in Locales : GrantsFrom(i, l)
BY DEF KeepsGrants, GrantsFrom

LEMMA SameVersionsGrant ==
    ASSUME version' = version
    PROVE  \A i \in Issues, l \in Locales : KeepsGrants(i, l)
BY DEF KeepsGrants

\* What a worker's transaction writes to an issue row.
LEMMA WorkerMoves ==
    ASSUME BulletinAssumption, TypeOK, NEW i \in Issues, NEW s, NEW m, s # "publishing",
           issue[i].status # "deleted",
           \/ issue' = [issue EXCEPT ![i].notif = m]
           \/ issue' = [issue EXCEPT ![i].status = s]
           \/ issue' = [issue EXCEPT ![i].status = s, ![i].notif = m]
    PROVE  \A j \in Issues : IssueMoves(j)
<1>1. issue[i] \in IssueRows /\ DOMAIN issue = Issues
  BY DEF TypeOK, CmsOK
<1>2. DOMAIN issue[i] = {"status", "version", "number", "notif"}
  BY <1>1 DEF IssueRows, IssueRow, NoIssue
<1>3. \A j \in Issues : issue[j].version \in Nat
  BY IssueFields DEF TypeOK, GrantIds
<1>4. /\ issue'[i].version = issue[i].version
      /\ issue'[i].status = issue[i].status \/ issue'[i].status = s
      /\ \A j \in Issues \ {i} : issue'[j] = issue[j]
  BY <1>1, <1>2
<1> QED
  BY <1>3, <1>4 DEF IssueMoves

LEMMA NewVersionMoves ==
    ASSUME BulletinAssumption, TypeOK, TypeOK', NEW i \in Issues, OthersKept(i),
           \/ issue'[i].status = "deleted"
           \/ /\ issue[i].status # "deleted"
              /\ issue'[i].version = issue[i].version + 1
    PROVE  \A j \in Issues : IssueMoves(j)
<1>1. \A j \in Issues : issue[j].version \in Nat
  BY IssueFields DEF TypeOK, GrantIds
<1>2. \A j \in Issues \ {i} : IssueMoves(j)
  BY <1>1 DEF OthersKept, IssueMoves
<1>3. IssueMoves(i)
  BY <1>1 DEF IssueMoves
<1> QED
  BY <1>2, <1>3

LEMMA EditMoves ==
    ASSUME BulletinAssumption, TypeOK, TypeOK', NEW i \in Issues, Edit(i)
    PROVE  \A j \in Issues : IssueMoves(j)
<1>1. issue \in [Issues -> IssueRows] /\ issue[i] \in IssueRows
  BY DEF TypeOK, CmsOK
<1>2. DOMAIN issue[i] = {"status", "version", "number", "notif"}
  BY <1>1 DEF IssueRows, IssueRow, NoIssue
<1>3. Mutable(i) => issue[i].status # "deleted"
  BY DEF Mutable, Exists
<1>4. ASSUME NEW n, CreateIssue(i, n)
      PROVE  /\ issue[i].status # "deleted"
             /\ issue'[i].version = issue[i].version + 1
  <2>1. issue[i].status = "absent" /\ issue' = [issue EXCEPT ![i] = IssueRow("draft", 1, n)]
    BY <1>4 DEF CreateIssue
  <2>2. issue[i].version = 0
    BY <2>1, IssueFields DEF TypeOK, Exists
  <2> QED
    BY <1>1, <2>1, <2>2 DEF IssueRow
<1>5. ASSUME NEW n, UpdateIssue(i, n)
      PROVE  /\ issue[i].status # "deleted"
             /\ issue'[i].version = issue[i].version + 1
  BY <1>1, <1>2, <1>3, <1>5 DEF UpdateIssue
<1>6. ASSUME NEW r, RestoreIssueRevision(i, r)
      PROVE  /\ issue[i].status # "deleted"
             /\ issue'[i].version = issue[i].version + 1
  <2>1. PICK n : /\ Mutable(i)
                 /\ issue' = [issue EXCEPT ![i].status = "draft", ![i].version = @ + 1,
                                           ![i].number = n]
    BY <1>6 DEF RestoreIssueRevision
  <2> QED
    BY <1>1, <1>2, <1>3, <2>1
<1>7. ASSUME DeleteIssue(i)
      PROVE  issue'[i].status = "deleted"
  BY <1>1, <1>7 DEF DeleteIssue, IssueRow
<1>8. ASSUME NEW s, Mutable(i), Advance(i, s)
      PROVE  /\ issue[i].status # "deleted"
             /\ issue'[i].version = issue[i].version + 1
  BY <1>3, <1>8, Advanced
<1>9. \/ issue'[i].status = "deleted"
      \/ /\ issue[i].status # "deleted"
         /\ issue'[i].version = issue[i].version + 1
  BY <1>4, <1>5, <1>6, <1>7, <1>8 DEF Edit, PutVersion, UpdateVersion, DeleteVersion,
     Unpublish, StartPublish, FinishIssueDraft
<1> QED
  BY <1>9, EditOthers, NewVersionMoves

LEMMA DraftedGrants ==
    ASSUME NEW i, NEW l, NEW a,
           \/ version'[i][l] = version[i][l]
           \/ version'[i][l] = NoVersion
           \/ version'[i][l] = Drafted(version[i][l], a)
    PROVE  KeepsGrants(i, l)
<1>1. NoVersion.grant = 0 /\ NoVersion.retGrant = 0
  BY DEF NoVersion
<1>2. /\ Drafted(version[i][l], a).grant = version[i][l].grant
      /\ Drafted(version[i][l], a).retGrant \in {version[i][l].grant, version[i][l].retGrant}
  BY DEF Drafted
<1> QED
  BY <1>1, <1>2 DEF KeepsGrants

LEMMA StatusGrants ==
    ASSUME BulletinAssumption, TypeOK, NEW i \in Issues, NEW l \in Locales, NEW s,
           WritesStatus(i, l, s)
    PROVE  \A j \in Issues, m \in Locales : KeepsGrants(j, m)
<1>1. /\ version'[i][l].grant = version[i][l].grant
      /\ version'[i][l].retGrant = version[i][l].retGrant
      /\ \A m \in Locales \ {l} : version'[i][m] = version[i][m]
      /\ \A j \in Issues \ {i} : version'[j] = version[j]
  BY StatusWritten
<1> QED
  BY <1>1 DEF KeepsGrants

LEMMA EditGrants ==
    ASSUME BulletinAssumption, TypeOK, NEW i \in Issues, Edit(i)
    PROVE  \A j \in Issues, m \in Locales : KeepsGrants(j, m)
<1>1. version \in [Issues -> [Locales -> VersionRows]]
  BY DEF TypeOK, CmsOK
<1>2. ASSUME NEW l \in Locales, NEW a, PutVersion(i, l, a)
      PROVE  \A j \in Issues, m \in Locales : KeepsGrants(j, m)
  <2>1. version' = [version EXCEPT ![i][l] = Drafted(version[i][l], a)]
    BY <1>1, <1>2 DEF PutVersion
  <2>2. ASSUME NEW j \in Issues, NEW m \in Locales
        PROVE  KeepsGrants(j, m)
    <3>1. version'[j][m] = version[j][m] \/ version'[j][m] = Drafted(version[j][m], a)
      BY <1>1, <2>1
    <3> QED
      BY <3>1, DraftedGrants
  <2> QED
    BY <2>2
<1>3. ASSUME NEW l \in Locales, NEW s, WritesStatus(i, l, s)
      PROVE  \A j \in Issues, m \in Locales : KeepsGrants(j, m)
  BY <1>3, StatusGrants
<1>4. ASSUME NEW l \in Locales, DeleteVersion(i, l)
      PROVE  \A j \in Issues, m \in Locales : KeepsGrants(j, m)
  <2>1. version' = [version EXCEPT ![i][l] = NoVersion]
    BY <1>4 DEF DeleteVersion
  <2>2. \A j \in Issues, m \in Locales :
            version'[j][m] = version[j][m] \/ version'[j][m] = NoVersion
    BY <1>1, <2>1
  <2>3. NoVersion.grant = 0 /\ NoVersion.retGrant = 0
    BY DEF NoVersion
  <2> QED
    BY <2>2, <2>3 DEF KeepsGrants
<1>5. ASSUME NEW r, RestoreIssueRevision(i, r)
      PROVE  \A j \in Issues, m \in Locales : KeepsGrants(j, m)
  <2>1. PICK given : given = revision[i][r].assets
    OBVIOUS
  <2>2. version' = [version EXCEPT ![i] = [l \in Locales |->
                IF given[l] = None THEN NoVersion ELSE Drafted(version[i][l], given[l])]]
    BY <1>1, <1>5, <2>1 DEF RestoreIssueRevision
  <2>3. ASSUME NEW j \in Issues, NEW m \in Locales
        PROVE  KeepsGrants(j, m)
    <3>1. PICK a : a = given[m]
      OBVIOUS
    <3>2. \/ version'[j][m] = version[j][m] \/ version'[j][m] = NoVersion
          \/ version'[j][m] = Drafted(version[j][m], a)
      BY <1>1, <2>2, <3>1
    <3> QED
      BY <3>2, DraftedGrants
  <2> QED
    BY <2>3
<1>6. ASSUME DeleteIssue(i)
      PROVE  \A j \in Issues, m \in Locales : KeepsGrants(j, m)
  <2>1. version' = [version EXCEPT ![i] = [l \in Locales |-> NoVersion]]
    BY <1>6 DEF DeleteIssue
  <2>2. \A j \in Issues, m \in Locales :
            version'[j][m] = version[j][m] \/ version'[j][m] = NoVersion
    BY <1>1, <2>1
  <2>3. NoVersion.grant = 0 /\ NoVersion.retGrant = 0
    BY DEF NoVersion
  <2> QED
    BY <2>2, <2>3 DEF KeepsGrants
<1>7. \A s : \A l \in Locales : WritesStatus(i, l, s) <=> version' = [version EXCEPT ![i][l].status = s]
  BY DEF WritesStatus
<1> QED
  BY <1>2, <1>3, <1>4, <1>5, <1>6, <1>7, SameVersionsGrant DEF Edit, CreateIssue, UpdateIssue,
     UpdateVersion, StartPublish, Unpublish

----------------------------------------------------------------------------
(* Grants: editors                                                         *)

\* Editors revoke nothing but the grant an edition recorded under an older
\* version of its issue.
EditedEvents ==
    /\ PayloadsKept
    /\ \A k \in NewEvents : k.kind \in Revoking => RevokesOld(k)'

LEMMA UnpublishEvents ==
    ASSUME BulletinAssumption, TypeOK, TypeOK', Agreement, GrantsBehind,
           NEW i \in Issues, NEW l \in Locales, Unpublish(i, l)
    PROVE  EditedEvents
<1>1. PICK k, a, e : /\ k = UnpublishKey(i, l, issue[i].version + 1)
                     /\ e = Event(a, version[i][l].grant, FALSE)
                     /\ outbox' = Insert(outbox, k, e)
  BY DEF Unpublish
<1>2. k.issue = i /\ e.grant = version[i][l].grant
  BY <1>1 DEF UnpublishKey, EventKey, Event
<1>3. /\ PayloadsKept /\ NewEvents \subseteq {k}
      /\ k \in NewEvents => outbox'[k] = e
  BY <1>1, InsertedPayload
<1>4. /\ issue'[i].status = "unpublishing"
      /\ issue'[i].version = issue[i].version + 1
      /\ issue[i].status # "deleted"
  BY Advanced, MutableIssue DEF Unpublish
<1>5. version[i][l].grant \in Nat /\ issue[i].version \in Nat
  BY VersionNumbers, VersionFields DEF TypeOK, GrantIds
<1>6. version[i][l].grant <= issue[i].version
  BY <1>4 DEF GrantsBehind, GrantsOld
<1>7. k \in NewEvents => RevokesOld(k)'
  BY <1>2, <1>3, <1>4, <1>5, <1>6 DEF RevokesOld
<1> QED
  BY <1>3, <1>7 DEF EditedEvents

LEMMA EditPayload ==
    ASSUME BulletinAssumption, TypeOK, TypeOK', Agreement, GrantsBehind,
           NEW i \in Issues, Edit(i)
    PROVE  EditedEvents
<1>1. ASSUME outbox' = outbox
      PROVE  EditedEvents
  BY <1>1, SamePayload DEF EditedEvents
<1>2. ASSUME NEW l \in Locales, NEW notify, StartPublish(i, l, notify)
      PROVE  EditedEvents
  <2>1. PICK k, e : /\ k = PublishKey(i, l, issue[i].version + 1)
                    /\ outbox' = Insert(outbox, k, e)
    BY <1>2 DEF StartPublish
  <2>2. k.kind \notin Revoking
    BY <2>1 DEF PublishKey, EventKey, Revoking
  <2>3. PayloadsKept /\ NewEvents \subseteq {k}
    BY <2>1, InsertedPayload
  <2> QED
    BY <2>2, <2>3 DEF EditedEvents
<1>3. ASSUME NEW S, EnqueueAssetDeletes(i, S)
      PROVE  EditedEvents
  BY <1>3, DeletesPayload DEF EditedEvents
<1> QED
  BY <1>1, <1>2, <1>3, UnpublishEvents DEF Edit, CreateIssue, UpdateIssue, PutVersion,
     UpdateVersion, DeleteVersion, RestoreIssueRevision, DeleteIssue

LEMMA EditKeepsWork ==
    ASSUME NEW i, Edit(i)
    PROVE  work' = work /\ grants' = grants
BY DEF Edit, CreateIssue, UpdateIssue, PutVersion, UpdateVersion, DeleteVersion, Unpublish,
   StartPublish, RestoreIssueRevision, DeleteIssue, remote

LEMMA EditVisibility ==
    ASSUME BulletinAssumption, TypeOK, TypeOK', Agreement, RevokesBehind, GrantsBehind,
           GrantsHeld, NEW i \in Issues, Edit(i)
    PROVE  RevokesBehind' /\ GrantsBehind' /\ GrantsHeld'
<1>1. PayloadsKept /\ \A k \in NewEvents : k.kind \in Revoking => RevokesOld(k)'
  BY EditPayload DEF EditedEvents
<1>2. \A j \in Issues : IssueMoves(j)
  BY EditMoves
<1>3. \A j \in Issues, m \in Locales : GrantsFrom(j, m)
  BY EditGrants, KeptGrants
<1>4. NoneCompletes /\ grants' = grants
  BY EditKeepsWork DEF NoneCompletes
<1> QED
  BY <1>1, <1>2, <1>3, <1>4, VisibilityKept

----------------------------------------------------------------------------
(* Grants: the worker loop                                                 *)

LEMMA OneWorks ==
    ASSUME WorkOK, NEW w \in Workers, NEW r, r.pc # "complete",
           work' = [work EXCEPT ![w] = r]
    PROVE  NoneCompletes
BY DEF WorkOK, NoneCompletes

\* Only a created grant leads a worker to the completing transaction.
LEMMA NoCompletion ==
    ASSUME BulletinAssumption, TypeOK, NEW w \in Workers,
           (\E k \in DOMAIN outbox : Claim(w, k)) \/ Crash(w) \/ WorkerStep(w),
           ~CreatePublicGrant(w), ~RevokeGrant(w)
    PROVE  NoneCompletes
<1>1. WorkOK /\ OutboxOK
  BY DEF TypeOK
<1>2. ASSUME NEW s, s # "complete", Goto(w, s), work[w] # Idle
      PROVE  NoneCompletes
  BY <1>1, <1>2, WorkGoesOn
<1>3. ASSUME Release(w)
      PROVE  NoneCompletes
  BY <1>1, <1>3, WorkGoesOn
<1>4. AfterError(w) # "complete" /\ AfterCompletionError(w) # "complete"
  BY DEF AfterError, AfterCompletionError
<1>5. ASSUME NEW k \in DOMAIN outbox, Claim(w, k)
      PROVE  NoneCompletes
  <2>1. k \in Keys
    BY <1>1 DEF OutboxOK
  <2>2. FirstStep(k) # "complete"
    BY <2>1, KeyFields DEF FirstStep, Kinds
  <2>3. PICK n : work' = [work EXCEPT ![w] = [pc |-> FirstStep(k), key |-> k, att |-> n]]
    BY <1>5, Zenon DEF Claim
  <2>4. PICK r : r = [pc |-> FirstStep(k), key |-> k, att |-> n]
    OBVIOUS
  <2>5. r.pc # "complete" /\ work' = [work EXCEPT ![w] = r]
    BY <2>2, <2>3, <2>4
  <2> QED
    BY <1>1, <2>5, OneWorks
<1>6. ASSUME CompleteNotification(w)
      PROVE  NoneCompletes
  <2>1. CASE Goto(w, AfterError(w))
    BY <1>2, <1>4, <1>6, <2>1 DEF CompleteNotification
  <2>2. CASE \E next \in {Idle, [work[w] EXCEPT !.pc = AfterError(w)]} :
                work' = [work EXCEPT ![w] = next]
    <3>1. PICK r : /\ r = Idle \/ r = [work[w] EXCEPT !.pc = AfterError(w)]
                   /\ work' = [work EXCEPT ![w] = r]
      BY <2>2
    <3>2. work[w] # Idle /\ "pc" \in DOMAIN work[w]
      BY <1>1, <1>6 DEF CompleteNotification, WorkOK, BusyOK
    <3>3. r.pc # "complete"
      BY <1>4, <3>1, <3>2 DEF Idle
    <3> QED
      BY <1>1, <3>1, <3>3, OneWorks
  <2> QED
    BY <1>6, <2>1, <2>2 DEF CompleteNotification
<1>7. ASSUME GetAsset(w) \/ EventDelivered(w) \/ FailPublish(w) \/ CompletePublish(w)
      PROVE  NoneCompletes
  BY <1>2, <1>3, <1>4, <1>7 DEF GetAsset, EventDelivered, FailPublish, CompletePublish
<1>8. ASSUME \/ Retry(w) \/ Defer(w) \/ Fail(w) \/ DeleteAsset(w) \/ CompleteUnpublish(w)
             \/ Complete(w) \/ QueueNotification(w) \/ Crash(w)
      PROVE  NoneCompletes
  BY <1>2, <1>3, <1>4, <1>8 DEF Retry, Defer, Fail, DeleteAsset, CompleteUnpublish,
     Complete, QueueNotification, Crash
<1> QED
  BY <1>5, <1>6, <1>7, <1>8 DEF WorkerStep

\* What a worker's transaction leaves behind is old.
WorkEvents ==
    /\ PayloadsKept
    /\ \A i \in Issues : IssueMoves(i)
    /\ \A i \in Issues, l \in Locales : GrantsFrom(i, l)
    /\ \A k \in NewEvents : k.kind \in Revoking => RevokesOld(k)'

LEMMA NothingRevoked ==
    ASSUME BulletinAssumption, TypeOK, version' = version,
           \/ issue' = issue
           \/ \E i \in Issues : /\ issue[i].status # "deleted"
                               /\ \E m : issue' = [issue EXCEPT ![i].notif = m],
           \/ outbox' = outbox
           \/ \E k \in DOMAIN outbox : \E s, n :
                 \/ outbox' = [outbox EXCEPT ![k].status = s]
                 \/ outbox' = [outbox EXCEPT ![k].status = s, ![k].attempts = n]
    PROVE  WorkEvents
<1>1. PayloadsKept /\ NewEvents = {}
  BY SamePayload, StatusPayload DEF TypeOK
<1>2. \A i \in Issues : IssueMoves(i)
  <2>1. CASE issue' = issue
    BY <2>1, SameIssuesMove
  <2>2. CASE issue' # issue
    <3>1. PICK i \in Issues : /\ issue[i].status # "deleted"
                              /\ \E m : issue' = [issue EXCEPT ![i].notif = m]
      BY <2>2
    <3>2. PICK m, s : s # "publishing" /\ issue' = [issue EXCEPT ![i].notif = m]
      BY <3>1
    <3> QED
      BY <3>1, <3>2, WorkerMoves
  <2> QED
    BY <2>1, <2>2
<1>3. \A i \in Issues, l \in Locales : GrantsFrom(i, l)
  BY SameVersionsGrant, KeptGrants
<1> QED
  BY <1>1, <1>2, <1>3 DEF WorkEvents

\* A failed publication may queue the revocation of its own grant, after which
\* its version is published no more.
LEMMA FailMoves ==
    ASSUME BulletinAssumption, TypeOK, NEW k \in DOMAIN outbox, NEW i \in Issues,
           i = k.issue, issue' = FailIssue(k)
    PROVE  /\ \A j \in Issues : IssueMoves(j)
           /\ issue'[i].version = issue[i].version
           /\ k.kind = "publish" =>
                ~(issue'[i].status = "publishing" /\ issue'[i].version = k.ver)
<1>1. issue \in [Issues -> IssueRows] /\ issue[i] \in IssueRows
  BY DEF TypeOK, CmsOK
<1>2. DOMAIN issue[i] = {"status", "version", "number", "notif"}
  BY <1>1 DEF IssueRows, IssueRow, NoIssue
<1>3. issue[i].notif = "pending" => issue[i].status # "deleted"
  BY <1>1 DEF IssueRows, IssueRow, NoIssue, Statuses, InFlight
<1>4. k.kind = "publish" => Doing(k.kind) = "publishing"
  BY DEF Doing
<1>5. Doing(k.kind) \in InFlight /\ Aborted(k.kind) \notin InFlight
  BY DEF Doing, Aborted, InFlight
<1>6. CASE /\ k.kind \in {"publish", "unpublish"}
           /\ issue[i].version = k.ver
           /\ issue[i].status = Doing(k.kind)
  <2>1. issue' = [issue EXCEPT ![i].status = Aborted(k.kind)]
    BY <1>6 DEF FailIssue
  <2>2. issue[i].status # "deleted" /\ Aborted(k.kind) # "publishing"
    BY <1>5, <1>6 DEF InFlight
  <2>3. \A j \in Issues : IssueMoves(j)
    BY <2>1, <2>2, WorkerMoves
  <2>4. /\ issue'[i].version = issue[i].version
        /\ issue'[i].status = Aborted(k.kind)
    BY <1>1, <1>2, <2>1
  <2> QED
    BY <2>2, <2>3, <2>4
<1>7. CASE /\ ~ /\ k.kind \in {"publish", "unpublish"}
                /\ issue[i].version = k.ver
                /\ issue[i].status = Doing(k.kind)
           /\ k.kind = "notify" /\ issue[i].notif = "pending"
  <2>1. issue' = [issue EXCEPT ![i].notif = "failed"]
    BY <1>7 DEF FailIssue
  <2>2. \A j \in Issues : IssueMoves(j)
    BY <1>3, <1>7, <2>1, WorkerMoves
  <2>3. issue'[i].version = issue[i].version
    BY <1>1, <1>2, <2>1
  <2> QED
    BY <1>7, <2>2, <2>3
<1>8. CASE /\ ~ /\ k.kind \in {"publish", "unpublish"}
                /\ issue[i].version = k.ver
                /\ issue[i].status = Doing(k.kind)
           /\ ~(k.kind = "notify" /\ issue[i].notif = "pending")
  <2>1. issue' = issue
    BY <1>8 DEF FailIssue
  <2> QED
    BY <1>4, <1>8, <2>1, SameIssuesMove
<1> QED
  BY <1>6, <1>7, <1>8

LEMMA FailGrants ==
    ASSUME BulletinAssumption, TypeOK, NEW k \in DOMAIN outbox, NEW box, FailEvent(k, box)
    PROVE  \A j \in Issues, m \in Locales : KeepsGrants(j, m)
<1>1. k.issue \in Issues
  BY EventFields DEF TypeOK
<1>2. \/ version' = version
      \/ k.locale \in Locales /\ \E s : WritesStatus(k.issue, k.locale, s)
  BY FailEffect
<1> QED
  BY <1>1, <1>2, StatusGrants, SameVersionsGrant

LEMMA FailLeaves ==
    ASSUME BulletinAssumption, TypeOK, NEW k \in DOMAIN outbox, FailEvent(k, outbox)
    PROVE  WorkEvents
<1>1. PICK i \in Issues : i = k.issue
  BY EventFields DEF TypeOK
<1>2. \A j \in Issues : IssueMoves(j)
  BY <1>1, FailMoves DEF FailEvent
<1>3. \A j \in Issues, m \in Locales : GrantsFrom(j, m)
  BY FailGrants, KeptGrants
<1>4. outbox' = [outbox EXCEPT ![k].status = "failed"]
  BY DEF FailEvent
<1>5. PayloadsKept /\ NewEvents = {}
  BY <1>4, StatusPayload DEF TypeOK
<1> QED
  BY <1>2, <1>3, <1>5 DEF WorkEvents

LEMMA CompensationEvents ==
    ASSUME BulletinAssumption, TypeOK, NEW k \in DOMAIN outbox, k.kind = "publish",
           NEW r, r = RevokeKey(k.issue, k.ver),
           NEW e, e = Event(outbox[k].asset, k.ver, FALSE),
           FailEvent(k, Insert(outbox, r, e))
    PROVE  /\ PayloadsKept /\ NewEvents \subseteq {r}
           /\ r.kind = "revoke" /\ r.issue = k.issue
           /\ r \in NewEvents => outbox'[r].grant = k.ver
<1>1. r.kind = "revoke" /\ r.issue = k.issue /\ r # k /\ e.grant = k.ver
  BY DEF RevokeKey, EventKey, Event
<1>2. PICK box : box = Insert(outbox, r, e)
  OBVIOUS
<1>3. /\ DOMAIN box = DOMAIN outbox \cup {r}
      /\ \A x \in DOMAIN outbox : box[x] = outbox[x]
      /\ r \notin DOMAIN outbox => box[r] = e
  BY <1>2 DEF Insert
<1>4. DOMAIN outbox[k] = {"status", "attempts", "asset", "grant", "notify"}
  BY EventFields DEF TypeOK
<1>5. outbox' = [box EXCEPT ![k].status = "failed"]
  BY <1>2 DEF FailEvent
<1>6. /\ DOMAIN outbox' = DOMAIN box
      /\ \A x \in DOMAIN box \ {k} : outbox'[x] = box[x]
      /\ outbox'[k].asset = outbox[k].asset /\ outbox'[k].grant = outbox[k].grant
  BY <1>3, <1>4, <1>5
<1> QED
  BY <1>1, <1>3, <1>6 DEF PayloadsKept, NewEvents

LEMMA CompensationLeaves ==
    ASSUME BulletinAssumption, TypeOK, TypeOK', Agreement,
           NEW k \in DOMAIN outbox, k.kind = "publish", NEW r, r = RevokeKey(k.issue, k.ver),
           NEW e, e = Event(outbox[k].asset, k.ver, FALSE),
           FailEvent(k, Insert(outbox, r, e))
    PROVE  WorkEvents
<1>1. PICK i \in Issues : i = k.issue
  BY EventFields DEF TypeOK
<1>2. /\ \A j \in Issues : IssueMoves(j)
      /\ issue'[i].version = issue[i].version
      /\ ~(issue'[i].status = "publishing" /\ issue'[i].version = k.ver)
  BY <1>1, FailMoves DEF FailEvent
<1>3. \A j \in Issues, m \in Locales : GrantsFrom(j, m)
  BY FailGrants, KeptGrants
<1>4. /\ PayloadsKept /\ NewEvents \subseteq {r} /\ r.issue = i
      /\ r \in NewEvents => outbox'[r].grant = k.ver
  BY <1>1, CompensationEvents
<1>5. issue'[i].status # "deleted" => k.ver <= issue[i].version
  BY <1>1, <1>2 DEF Agreement, EventsAreSerial, Publishes, IssueMoves
<1>6. r \in NewEvents => RevokesOld(r)'
  BY <1>2, <1>4, <1>5 DEF RevokesOld
<1> QED
  BY <1>2, <1>3, <1>4, <1>6 DEF WorkEvents

\* A completed publication retires the grant its edition recorded before.
LEMMA PublishedPayload ==
    ASSUME BulletinAssumption, TypeOK, NEW k \in DOMAIN outbox, NEW i, NEW l,
           i = k.issue, l = k.locale, PublishEdition(k)
    PROVE  /\ PayloadsKept
           /\ \A r \in NewEvents : r.kind \in Revoking =>
                /\ r.kind = "retire" /\ r.issue = i
                /\ outbox'[r].grant = version[i][l].retGrant
<1> DEFINE done == [outbox EXCEPT ![k].status = "delivered"]
           SamePayloads(box) ==
                \A x \in DOMAIN outbox : /\ x \in DOMAIN box
                                          /\ box[x].asset = outbox[x].asset
                                          /\ box[x].grant = outbox[x].grant
<1>1. PICK n, r, e0, e : /\ n = NotifyKey(i) /\ r = RetireKey(i, l, version[i][l].retAsset)
                         /\ e0 = Event(None, 0, FALSE)
                         /\ e = Event(version[i][l].retAsset, version[i][l].retGrant, FALSE)
  OBVIOUS
<1>2. /\ n.kind = "notify" /\ r.kind = "retire" /\ r.issue = i
      /\ e.grant = version[i][l].retGrant
  BY <1>1 DEF NotifyKey, RetireKey, EventKey, Event
<1>3. \A x \in DOMAIN outbox :
          DOMAIN outbox[x] = {"status", "attempts", "asset", "grant", "notify"}
  BY EventFields DEF TypeOK
<1>4. SamePayloads(done) /\ DOMAIN done = DOMAIN outbox
      /\ \A x \in DOMAIN done :
            DOMAIN done[x] = {"status", "attempts", "asset", "grant", "notify"}
  BY <1>3
<1>5. PICK told : /\ told = done \/ told = Requeue(done, n, e0)
                  /\ outbox' = told \/ outbox' = Insert(told, r, e)
  BY <1>1 DEF PublishEdition
<1> HIDE DEF done
<1>6. SamePayloads(told) /\ DOMAIN told \subseteq DOMAIN outbox \cup {n}
  <2>1. CASE told = done
    BY <1>4, <2>1
  <2>2. CASE told = Insert(done, n, e0)
    BY <1>4, <2>2 DEF Insert
  <2>3. CASE /\ n \in DOMAIN done
             /\ told = [done EXCEPT ![n].status = "pending", ![n].attempts = 0]
    <3>1. /\ DOMAIN told = DOMAIN done
          /\ \A x \in DOMAIN done \ {n} : told[x] = done[x]
          /\ told[n].asset = done[n].asset /\ told[n].grant = done[n].grant
      BY <1>4, <2>3
    <3> QED
      BY <1>4, <3>1
  <2> QED
    BY <1>5, <2>1, <2>2, <2>3 DEF Requeue
<1>7. /\ SamePayloads(outbox') /\ DOMAIN outbox' \subseteq DOMAIN told \cup {r}
      /\ r \in DOMAIN outbox' \ DOMAIN told => outbox'[r] = e
  BY <1>5, <1>6 DEF Insert
<1> QED
  BY <1>2, <1>6, <1>7 DEF PayloadsKept, NewEvents, Revoking

LEMMA PublishedMoves ==
    ASSUME BulletinAssumption, TypeOK, NEW k \in DOMAIN outbox, NEW i \in Issues,
           i = k.issue, issue[i].status = "publishing", PublishEdition(k)
    PROVE  /\ \A j \in Issues : IssueMoves(j)
           /\ issue'[i].status = "published" /\ issue'[i].version = issue[i].version
<1>1. PICK m : issue' = [issue EXCEPT ![i].status = "published", ![i].notif = m]
  BY DEF PublishEdition
<1>2. \A j \in Issues : IssueMoves(j)
  BY <1>1, WorkerMoves
<1>3. issue \in [Issues -> IssueRows] /\ issue[i] \in IssueRows
  BY DEF TypeOK, CmsOK
<1>4. DOMAIN issue[i] = {"status", "version", "number", "notif"}
  BY <1>3 DEF IssueRows, IssueRow, NoIssue
<1> QED
  BY <1>1, <1>2, <1>3, <1>4

LEMMA PublicationLeaves ==
    ASSUME BulletinAssumption, TypeOK, TypeOK', Agreement, GrantsBehind,
           NEW k \in DOMAIN outbox, k.kind = "publish", Current(k), PublishEdition(k),
           NEW i, NEW l, i = k.issue, l = k.locale
    PROVE  WorkEvents
<1>1. /\ i \in Issues /\ l \in Locales /\ issue[i].number \in Numbers
      /\ k.ver = issue[i].version
      /\ pub'[l][issue[i].number] =
                [issue |-> i, ver |-> k.ver, asset |-> version[i][l].asset]
      /\ version'[i][l].grant = k.ver /\ version'[i][l].retGrant = 0
      /\ \A m \in Locales \ {l} : version'[i][m] = version[i][m]
      /\ \A j \in Issues \ {i} : version'[j] = version[j]
  BY PublishedEffect
<1>2. /\ \A j \in Issues : IssueMoves(j)
      /\ issue'[i].status = "published" /\ issue'[i].version = issue[i].version
  BY <1>1, PublishedMoves DEF Current
<1>3. \A j \in Issues, m \in Locales : GrantsFrom(j, m)
  BY <1>1, <1>2 DEF GrantsFrom
<1>4. /\ PayloadsKept
      /\ \A r \in NewEvents : r.kind \in Revoking =>
            r.issue = i /\ outbox'[r].grant = version[i][l].retGrant
  BY PublishedPayload
<1>5. version[i][l].retGrant <= issue[i].version
  BY <1>1 DEF GrantsBehind, GrantsOld, Current
<1>6. \A r \in NewEvents : r.kind \in Revoking => RevokesOld(r)'
  BY <1>2, <1>4, <1>5 DEF RevokesOld
<1> QED
  BY <1>2, <1>3, <1>4, <1>6 DEF WorkEvents

LEMMA WithdrawalGrants ==
    ASSUME BulletinAssumption, TypeOK, NEW k \in DOMAIN outbox, Publishes(k),
           UnpublishEdition(k)
    PROVE  \A j \in Issues, m \in Locales : KeepsGrants(j, m)
<1>1. PICK i \in Issues, l \in Locales : i = k.issue /\ l = k.locale
  BY EventFields, KeyFields DEF TypeOK
<1>2. version \in [Issues -> [Locales -> VersionRows]]
  BY DEF TypeOK, CmsOK
<1>3. DOMAIN version[i][l] = {"status", "asset", "grant", "retAsset", "retGrant"}
  BY VersionFields DEF TypeOK, VersionRows, NoVersion
<1>4. version' = [version EXCEPT ![i][l].status = "unpublished", ![i][l].grant = 0,
                                 ![i][l].retAsset = None, ![i][l].retGrant = 0]
  BY <1>1 DEF UnpublishEdition
<1>5. /\ \A m \in Locales \ {l} : version'[i][m] = version[i][m]
      /\ \A j \in Issues \ {i} : version'[j] = version[j]
      /\ version'[i][l].grant = 0 /\ version'[i][l].retGrant = 0
  BY <1>2, <1>3, <1>4
<1> QED
  BY <1>5 DEF KeepsGrants

LEMMA WithdrawalLeaves ==
    ASSUME BulletinAssumption, TypeOK, NEW k \in DOMAIN outbox, Publishes(k),
           Exists(k.issue), UnpublishEdition(k)
    PROVE  WorkEvents
<1>1. PICK i \in Issues : i = k.issue
  BY EventFields DEF TypeOK
<1>2. \A j \in Issues, m \in Locales : GrantsFrom(j, m)
  BY WithdrawalGrants, KeptGrants
<1>3. PICK s : s # "publishing" /\ issue' = [issue EXCEPT ![i].status = s]
  <2>1. PICK s \in {"published", "unpublished"} : issue' = [issue EXCEPT ![i].status = s]
    BY <1>1 DEF UnpublishEdition
  <2> QED
    BY <2>1
<1>4. \A j \in Issues : IssueMoves(j)
  BY <1>1, <1>3, WorkerMoves DEF Exists
<1>5. outbox' = [outbox EXCEPT ![k].status = "delivered"]
  BY DEF UnpublishEdition
<1>6. PayloadsKept /\ NewEvents = {}
  BY <1>5, StatusPayload DEF TypeOK
<1> QED
  BY <1>2, <1>4, <1>6 DEF WorkEvents

LEMMA WorkerLeaves ==
    ASSUME BulletinAssumption, TypeOK, TypeOK', Agreement, GrantsBehind,
           NEW w \in Workers, (\E k \in DOMAIN outbox : Claim(w, k)) \/ WorkerStep(w)
    PROVE  WorkEvents
<1>1. ASSUME NEW k \in DOMAIN outbox, Claim(w, k)
      PROVE  WorkEvents
  <2>1. PICK n : outbox' = [outbox EXCEPT ![k].status = "processing", ![k].attempts = n]
    BY <1>1, Zenon DEF Claim
  <2>2. issue' = issue /\ version' = version
    BY <1>1 DEF Claim, cms
  <2> QED
    BY <2>1, <2>2, NothingRevoked
<1>2. ASSUME version' = version, issue' = issue, outbox' = outbox
      PROVE  WorkEvents
  BY <1>2, NothingRevoked
<1>3. ASSUME Retry(w) \/ Defer(w) \/ Complete(w)
      PROVE  WorkEvents
  <2>1. PICK k \in DOMAIN outbox : k = work[w].key
    BY <1>3, WorkerKind DEF Retry, Defer, Complete, TypeOK
  <2>2. \/ outbox' = outbox
        \/ \E s : outbox' = [outbox EXCEPT ![k].status = s]
        \/ \E s, n : outbox' = [outbox EXCEPT ![k].status = s, ![k].attempts = n]
    BY <1>3, <2>1, Zenon DEF Retry, Defer, Complete
  <2>3. version' = version /\ issue' = issue
    BY <1>3 DEF Retry, Defer, Complete, cms
  <2> QED
    BY <2>2, <2>3, NothingRevoked
<1>4. ASSUME Fail(w)
      PROVE  WorkEvents
  <2>1. PICK k \in DOMAIN outbox : k = work[w].key
    BY <1>4, WorkerKind DEF Fail, TypeOK
  <2> QED
    BY <1>4, <2>1, FailLeaves DEF Fail
<1>5. ASSUME FailPublish(w)
      PROVE  WorkEvents
  <2>1. PICK k \in DOMAIN outbox : k = work[w].key /\ k.kind = "publish"
    BY <1>5, WorkerKind DEF FailPublish, TypeOK
  <2>2. CASE FailEvent(k, Insert(outbox, RevokeKey(k.issue, k.ver),
                                 Event(outbox[k].asset, k.ver, FALSE)))
    BY <2>1, <2>2, CompensationLeaves
  <2>3. CASE UNCHANGED <<cms, public, outbox, remote, faults>>
    BY <1>2, <2>3 DEF cms
  <2> QED
    BY <1>5, <2>1, <2>2, <2>3 DEF FailPublish
<1>6. ASSUME CompletePublish(w)
      PROVE  WorkEvents
  <2>1. PICK k \in DOMAIN outbox : k = work[w].key /\ k.kind = "publish"
    BY <1>6, WorkerKind DEF CompletePublish, TypeOK
  <2>2. CASE Current(k) /\ PublishEdition(k)
    BY <2>1, <2>2, PublicationLeaves
  <2>3. CASE UNCHANGED <<cms, public, outbox>>
    BY <1>2, <2>3 DEF cms
  <2> QED
    BY <1>6, <2>1, <2>2, <2>3 DEF CompletePublish
<1>7. ASSUME CompleteUnpublish(w)
      PROVE  WorkEvents
  <2>1. PICK k \in DOMAIN outbox : k = work[w].key /\ k.kind = "unpublish" /\ Publishes(k)
    BY <1>7, WorkerKind DEF CompleteUnpublish, TypeOK, Publishes
  <2>2. CASE /\ version[k.issue][k.locale].status = "unpublishing"
             /\ UnpublishEdition(k)
    <3>1. k.issue \in Issues /\ k.locale \in Locales
      BY <2>1, KeyFields, EventFields DEF TypeOK
    <3>2. Exists(k.issue)
      BY <2>2, <3>1 DEF Agreement, SingleFlight, VersionsInFlight, InFlight, Exists
    <3> QED
      BY <2>1, <2>2, <3>2, WithdrawalLeaves
  <2>3. CASE UNCHANGED <<cms, outbox>>
    BY <1>2, <2>3 DEF cms
  <2> QED
    BY <1>7, <2>1, <2>2, <2>3 DEF CompleteUnpublish
<1>8. ASSUME CompleteNotification(w)
      PROVE  WorkEvents
  <2>1. PICK k \in DOMAIN outbox, i \in Issues : k = work[w].key /\ i = k.issue
    BY <1>8, WorkerKind, EventFields DEF CompleteNotification, TypeOK
  <2>2. \/ outbox' = outbox
        \/ outbox' = [outbox EXCEPT ![k].status = "delivered"]
    BY <1>8, <2>1, Zenon DEF CompleteNotification
  <2>3. \/ issue' = issue
        \/ issue[i].notif = "pending" /\ issue' = [issue EXCEPT ![i].notif = "queued"]
    BY <1>8, <2>1, Zenon DEF CompleteNotification
  <2>4. issue[i].notif = "pending" => issue[i].status # "deleted"
    BY IssueFields DEF TypeOK, IssueRows, IssueRow, NoIssue, Statuses, InFlight
  <2>5. version' = version
    BY <1>8 DEF CompleteNotification
  <2> QED
    BY <2>2, <2>3, <2>4, <2>5, NothingRevoked
<1>9. ASSUME \/ GetAsset(w) \/ CreatePublicGrant(w) \/ EventDelivered(w)
             \/ RevokeGrant(w) \/ DeleteAsset(w) \/ QueueNotification(w)
      PROVE  WorkEvents
  BY <1>2, <1>9 DEF GetAsset, CreatePublicGrant, EventDelivered, RevokeGrant, DeleteAsset,
     QueueNotification, cms
<1> QED
  BY <1>1, <1>3, <1>4, <1>5, <1>6, <1>7, <1>8, <1>9 DEF WorkerStep

LEMMA WorkerKeepsGrants ==
    ASSUME NEW w, WorkerStep(w), ~CreatePublicGrant(w), ~RevokeGrant(w)
    PROVE  grants' = grants
BY DEF WorkerStep, Retry, Defer, Fail, FailEvent, GetAsset, CompletePublish, EventDelivered,
   FailPublish, DeleteAsset, CompleteUnpublish, Complete, QueueNotification,
   CompleteNotification, remote

\* The worker that created a grant holds it.
LEMMA GrantCreatedHeld ==
    ASSUME BulletinAssumption, TypeOK, TypeOK', Agreement, GrantsHeld, WorkEvents,
           NEW w \in Workers, CreatePublicGrant(w)
    PROVE  GrantsHeld'
<1>1. PICK k, a, s : /\ k = work[w].key /\ a = outbox[k].asset
                     /\ Goto(w, s)
                     /\ \/ grants' = grants \cup {<<a, k.issue, k.ver>>}
                        \/ grants' = grants /\ s # "complete"
  BY DEF CreatePublicGrant
<1>2. outbox' = outbox /\ work[w] # Idle
  BY DEF CreatePublicGrant
<1>3. /\ work'[w].pc = s /\ work'[w].key = k
      /\ \A x \in Workers \ {w} : work'[x] = work[x]
  BY <1>1, <1>2 DEF Goto, TypeOK, WorkOK, BusyOK
<1>4. grants \subseteq grants'
  BY <1>1
<1>5. Holding(w)'
  BY <1>1, <1>2, <1>3 DEF Holding
<1>6. ASSUME NEW x \in Workers \ {w}
      PROVE  Holding(x)'
  <2>1. Holding(x) /\ work'[x] = work[x]
    BY <1>3 DEF GrantsHeld
  <2>2. PayloadsKept /\ \A i \in Issues : IssueMoves(i)
    BY DEF WorkEvents
  <2> QED
    BY <1>4, <2>1, <2>2, HeldStays
<1> QED
  BY <1>5, <1>6 DEF GrantsHeld

\* A revocation is not of the grant the current publication relies on.
LEMMA RevokedNotHeld ==
    ASSUME BulletinAssumption, TypeOK, TypeOK', Agreement, RevokesBehind, GrantsHeld,
           WorkEvents, NEW w \in Workers, RevokeGrant(w)
    PROVE  GrantsHeld'
<1>1. PICK k, s : /\ k = work[w].key /\ Goto(w, s) /\ s # "complete"
                  /\ \/ grants' = grants \ {<<outbox[k].asset, k.issue, outbox[k].grant>>}
                     \/ grants' = grants
  BY DEF RevokeGrant
<1>2. work[w] # Idle /\ k \in DOMAIN outbox /\ k.kind \in Revoking
  BY <1>1, WorkerKind DEF RevokeGrant, TypeOK, Revoking
<1>3. RevokesOld(k)
  BY <1>2 DEF RevokesBehind
<1>4. \A a, i, v : (/\ i \in Issues /\ issue[i].status = "publishing"
                    /\ issue[i].version = v /\ <<a, i, v>> \in grants)
                   => <<a, i, v>> \in grants'
  BY <1>1, <1>3 DEF RevokesOld
<1>5. NoneCompletes
  BY <1>1, <1>2, WorkGoesOn DEF TypeOK
<1>6. PayloadsKept /\ \A i \in Issues : IssueMoves(i)
  BY DEF WorkEvents
<1>7. ASSUME NEW x \in Workers
      PROVE  Holding(x)'
  <2>1. Holding(x) /\ (work'[x] = work[x] \/ work'[x].pc # "complete")
    BY <1>5 DEF GrantsHeld, NoneCompletes
  <2> QED
    BY <1>4, <1>6, <2>1, HeldStays
<1> QED
  BY <1>7 DEF GrantsHeld

LEMMA WorkerVisibility ==
    ASSUME BulletinAssumption, TypeOK, TypeOK', Agreement, RevokesBehind, GrantsBehind,
           GrantsHeld, NEW w \in Workers,
           (\E k \in DOMAIN outbox : Claim(w, k)) \/ WorkerStep(w)
    PROVE  RevokesBehind' /\ GrantsBehind' /\ GrantsHeld'
<1>1. WorkEvents
  BY WorkerLeaves
<1>2. /\ PayloadsKept /\ \A i \in Issues : IssueMoves(i)
      /\ \A i \in Issues, l \in Locales : GrantsFrom(i, l)
      /\ \A k \in NewEvents : k.kind \in Revoking => RevokesOld(k)'
  BY <1>1 DEF WorkEvents
<1>3. CASE CreatePublicGrant(w) \/ RevokeGrant(w)
  BY <1>1, <1>2, <1>3, RevokesStay, GrantsStay, GrantCreatedHeld, RevokedNotHeld
<1>4. CASE ~CreatePublicGrant(w) /\ ~RevokeGrant(w)
  <2>1. NoneCompletes
    BY <1>4, NoCompletion
  <2>2. grants' = grants
    BY <1>4, WorkerKeepsGrants DEF Claim, remote
  <2> QED
    BY <1>2, <2>1, <2>2, VisibilityKept
<1> QED
  BY <1>3, <1>4

LEMMA OtherVisibility ==
    ASSUME BulletinAssumption, TypeOK, TypeOK', Agreement, RevokesBehind, GrantsBehind,
           GrantsHeld,
           \/ UNCHANGED vars
           \/ \E w \in Workers : Crash(w)
           \/ \E a \in Assets : AssetScanned(a) \/ RetryAssetScan(a)
    PROVE  RevokesBehind' /\ GrantsBehind' /\ GrantsHeld'
<1>1. issue' = issue /\ version' = version /\ outbox' = outbox /\ grants' = grants
  BY DEF vars, cms, remote, Crash, AssetScanned, RetryAssetScan
<1>2. NoneCompletes
  <2>1. CASE work' = work
    BY <2>1 DEF NoneCompletes
  <2>2. ASSUME NEW w \in Workers, Crash(w)
        PROVE  NoneCompletes
    BY <2>2, WorkGoesOn DEF Crash, TypeOK
  <2> QED
    BY <2>1, <2>2 DEF vars, AssetScanned, RetryAssetScan
<1>3. /\ PayloadsKept /\ \A i \in Issues : IssueMoves(i)
      /\ \A i \in Issues, l \in Locales : GrantsFrom(i, l)
      /\ \A k \in NewEvents : k.kind \in Revoking => RevokesOld(k)'
  BY <1>1, SamePayload, SameIssuesMove, SameVersionsGrant, KeptGrants
<1> QED
  BY <1>1, <1>2, <1>3, VisibilityKept

LEMMA NextVisibility ==
    ASSUME BulletinAssumption, VisibilityInv, [Next]_vars
    PROVE  VisibilityInv'
<1>1. PublicInv'
  BY NextRecorded DEF VisibilityInv
<1>2. TypeOK /\ TypeOK' /\ Agreement /\ RevokesBehind /\ GrantsBehind /\ GrantsHeld
  BY <1>1 DEF VisibilityInv, PublicInv, AgreementInv
<1>3. RevokesBehind' /\ GrantsBehind' /\ GrantsHeld'
  <2>1. ASSUME NEW i \in Issues, Edit(i)
        PROVE  RevokesBehind' /\ GrantsBehind' /\ GrantsHeld'
    BY <1>2, <2>1, EditVisibility
  <2>2. ASSUME NEW w \in Workers, (\E k \in DOMAIN outbox : Claim(w, k)) \/ WorkerStep(w)
        PROVE  RevokesBehind' /\ GrantsBehind' /\ GrantsHeld'
    BY <1>2, <2>2, WorkerVisibility
  <2> QED
    BY <1>2, <2>1, <2>2, OtherVisibility DEF Next
<1> QED
  BY <1>1, <1>3 DEF VisibilityInv

----------------------------------------------------------------------------
(* What changes the public rows                                            *)

LEMMA UnpublishedChange ==
    ASSUME BulletinAssumption, PublicInv, NEW i \in Issues, NEW m \in Locales,
           Unpublish(i, m), NEW l \in Locales, NEW n \in Numbers, pub'[l][n] # pub[l][n]
    PROVE  pub'[l][n] = NoPub /\ issue'[pub[l][n].issue].status = "unpublishing"
<1>1. TypeOK /\ Agreement /\ UniqueNumbers /\ AllRecorded
  BY DEF PublicInv, AgreementInv
<1>2. pub' = [pub EXCEPT ![m] = [pub[m] EXCEPT ![issue[i].number] = NoPub]]
  BY DEF Unpublish
<1>3. pub \in [Locales -> [Numbers -> PubRows \cup {NoPub}]]
  BY <1>1 DEF TypeOK, PublicOK
<1>4. l = m /\ n = issue[i].number /\ pub'[l][n] = NoPub
  BY <1>2, <1>3
<1>5. PICK j : j = pub[l][n].issue
  OBVIOUS
<1>6. j \in Issues
  BY <1>1, <1>4, <1>5, PubFields DEF TypeOK
<1>7. Exists(j) /\ issue[j].number = n
  <2>1. Recorded(j, l)
    BY <1>1, <1>6 DEF AllRecorded
  <2> QED
    BY <1>5, <1>6, <2>1, RowNumber
<1>8. Exists(i) /\ issue'[i].status = "unpublishing"
  BY <1>1, Advanced DEF Unpublish, Mutable
<1>9. j = i
  BY <1>1, <1>4, <1>6, <1>7, <1>8 DEF UniqueNumbers
<1> QED
  BY <1>4, <1>5, <1>8, <1>9

LEMMA PublishedChange ==
    ASSUME BulletinAssumption, VisibilityInv, NEW w \in Workers, NEW k \in DOMAIN outbox,
           work[w].pc = "complete", work[w].key = k,
           k.kind = "publish", Current(k), PublishEdition(k),
           NEW l \in Locales, NEW n \in Numbers, pub'[l][n] # pub[l][n],
           NEW p, p = pub'[l][n]
    PROVE  /\ p # NoPub
           /\ issue[p.issue].status = "publishing" /\ issue'[p.issue].status = "published"
           /\ p.ver = issue[p.issue].version
           /\ <<p.asset, p.issue, p.ver>> \in grants
<1>1. TypeOK /\ Agreement /\ GrantsHeld
  BY DEF VisibilityInv, PublicInv, AgreementInv
<1>2. PICK i, m, a : i = k.issue /\ m = k.locale /\ a = version[i][m].asset
  OBVIOUS
<1>3. /\ i \in Issues /\ m \in Locales /\ issue[i].number \in Numbers
      /\ pub'[m][issue[i].number] = [issue |-> i, ver |-> k.ver, asset |-> a]
      /\ \A x \in Numbers \ {issue[i].number} : pub'[m][x] = pub[m][x]
      /\ \A x \in Locales \ {m} : pub'[x] = pub[x]
  BY <1>1, <1>2, PublishedEffect
<1>4. p = [issue |-> i, ver |-> k.ver, asset |-> a]
  BY <1>3
<1>5. outbox[k].asset = a
  BY <1>1, <1>2, PublishesItsAsset
<1>6. p.issue = i /\ p.ver = k.ver /\ p.asset = outbox[k].asset /\ p # NoPub
  BY <1>3, <1>4, <1>5 DEF NoPub, BulletinAssumption
<1>7. issue[i].status = "publishing" /\ issue[i].version = k.ver
  BY <1>2 DEF Current
<1>8. issue'[i].status = "published"
  BY <1>1, <1>2, <1>3, <1>7, PublishedMoves
<1>9. <<outbox[k].asset, i, k.ver>> \in grants
  BY <1>1, <1>2, <1>7 DEF GrantsHeld, Holding
<1> QED
  BY <1>6, <1>7, <1>8, <1>9

LEMMA StepVisible ==
    ASSUME BulletinAssumption, VisibilityInv, [Next]_vars
    PROVE  VisibilityStep
<1>1. PublicInv /\ TypeOK
  BY DEF VisibilityInv, PublicInv, AgreementInv
<1>2. CASE pub' = pub
  BY <1>2 DEF VisibilityStep
<1>3. ASSUME NEW i \in Issues, NEW m \in Locales, Unpublish(i, m)
      PROVE  VisibilityStep
  <2>1. ASSUME NEW l \in Locales, NEW n \in Numbers, pub'[l][n] # pub[l][n]
        PROVE  pub'[l][n] = NoPub /\ issue'[pub[l][n].issue].status = "unpublishing"
    BY <1>1, <1>3, <2>1, UnpublishedChange
  <2> QED
    BY <2>1 DEF VisibilityStep
<1>4. ASSUME NEW w \in Workers, NEW k \in DOMAIN outbox,
             work[w].pc = "complete", work[w].key = k,
             k.kind = "publish", Current(k), PublishEdition(k)
      PROVE  VisibilityStep
  <2>1. ASSUME NEW l \in Locales, NEW n \in Numbers, pub'[l][n] # pub[l][n],
               NEW p, p = pub'[l][n]
        PROVE  /\ p # NoPub
               /\ issue[p.issue].status = "publishing" /\ issue'[p.issue].status = "published"
               /\ p.ver = issue[p.issue].version
               /\ <<p.asset, p.issue, p.ver>> \in grants
    BY <1>4, <2>1, PublishedChange
  <2> QED
    BY <2>1 DEF VisibilityStep
<1> QED
  BY <1>1, <1>2, <1>3, <1>4, PublicSteps

LEMMA InitVisibility ==
    ASSUME Init
    PROVE  RevokesBehind /\ GrantsBehind /\ GrantsHeld
BY DEF Init, RevokesBehind, GrantsBehind, GrantsOld, GrantsHeld, Holding, NoIssue, IssueRow,
   NoVersion, Idle

\* A bulletin appears only by the completion of the publication an editor asked
\* for, while the grant of its asset is live, and disappears only when an editor
\* unpublishes it: no worker that comes late, is replaced or compensates revokes
\* the grant of a publication that is being completed.
THEOREM BulletinsAppearByTheirWorkflow == Spec => VisibilityChangesByWorkflow
<1>1. Init => RevokesBehind /\ GrantsBehind /\ GrantsHeld
  BY InitVisibility
<1>2. VisibilityInv /\ [Next]_vars => VisibilityInv'
  BY NextVisibility, BulletinAssumption
<1>3. VisibilityInv /\ [Next]_vars => [VisibilityStep]_vars
  BY StepVisible, BulletinAssumption
<1>4. VisibilityInv <=> PublicInv /\ RevokesBehind /\ GrantsBehind /\ GrantsHeld
  BY DEF VisibilityInv
<1> QED
  BY <1>1, <1>2, <1>3, <1>4, PublicInvariant, PTL DEF Spec, VisibilityChangesByWorkflow

----------------------------------------------------------------------------
(***************************************************************************)
(* As long as no worker loses its lease, an event is handled by one worker *)
(* at a time (HeldInv), so that what is delivered stays delivered          *)
(* (DeliveredIsNotRevoked) and what is public stays granted                *)
(* (PublicIsGranted): the grants that events revoke are of editions no     *)
(* row is public under, or of publications that were not delivered.        *)
(***************************************************************************)

\* A worker alone holds its event, and a publication it has not delivered
\* itself is not delivered.
HeldOK(w) ==
    LET k == work[w].key
    IN /\ \A v \in Workers \ {w} : ~Holds(v, k)
       /\ outbox[k].status \in {"processing", "delivered"}
       /\ (k.kind = "publish" /\ outbox[k].status = "delivered")
            => work[w].pc \in {"retry", "confirm"}

HeldInv == \A w \in Workers : work[w] # Idle => HeldOK(w)

\* Events keep their status, but for the one that is handled and for failed
\* ones, which may be requeued.
StatusesKept(k) ==
    \A x \in DOMAIN outbox \ {k} :
        /\ x \in DOMAIN outbox'
        /\ outbox'[x].status = outbox[x].status \/ outbox[x].status = "failed"

\* A worker handles an event: it lets it go, or still holds it rightly.
Handles(w, k) ==
    /\ \A v \in Workers \ {w} : work'[v] = work[v]
    /\ StatusesKept(k)
    /\ \/ work'[w] = Idle
       \/ /\ work'[w].key = k
          /\ outbox'[k].status \in {"processing", "delivered"}
          /\ (k.kind = "publish" /\ outbox'[k].status = "delivered")
                => work'[w].pc \in {"retry", "confirm"}

LEMMA HandledHeld ==
    ASSUME TypeOK, HeldInv, NEW w \in Workers, NEW k, Handles(w, k),
           \A v \in Workers \ {w} : ~Holds(v, k),
           work[w] = Idle \/ work[w].key = k
    PROVE  HeldInv'
<1> SUFFICES ASSUME NEW v \in Workers, work'[v] # Idle
             PROVE  HeldOK(v)'
  BY DEF HeldInv
<1>1. CASE v = w
  <2>1. \A u \in Workers \ {w} : ~Holds(u, k)'
    BY DEF Handles, Holds
  <2> QED
    BY <1>1, <2>1 DEF Handles, HeldOK
<1>2. CASE v # w
  <2>1. PICK x : x = work[v].key
    OBVIOUS
  <2>2. work'[v] = work[v] /\ work[v] # Idle /\ HeldOK(v)
    BY <1>2 DEF Handles, HeldInv
  <2>3. x # k /\ x \in DOMAIN outbox
    BY <1>2, <2>1, <2>2 DEF Holds, TypeOK, WorkOK, BusyOK
  <2>4. outbox'[x].status = outbox[x].status
    BY <2>1, <2>2, <2>3 DEF Handles, StatusesKept, HeldOK
  <2>5. ~Holds(w, x)'
    BY <2>3 DEF Handles, Holds
  <2>6. \A u \in Workers \ {v} : ~Holds(u, x)'
    BY <2>1, <2>2, <2>5 DEF HeldOK, Handles, Holds
  <2> QED
    BY <2>1, <2>2, <2>4, <2>6 DEF HeldOK
<1> QED
  BY <1>1, <1>2

\* Nothing else disturbs what a worker holds.
LEMMA HeldKept ==
    ASSUME TypeOK, HeldInv, work' = work,
           \A x \in DOMAIN outbox : outbox'[x] = outbox[x]
    PROVE  HeldInv'
<1> SUFFICES ASSUME NEW v \in Workers, work[v] # Idle
             PROVE  HeldOK(v)'
  BY DEF HeldInv
<1>1. HeldOK(v) /\ work[v].key \in DOMAIN outbox
  BY DEF HeldInv, TypeOK, WorkOK, BusyOK
<1> QED
  BY <1>1 DEF HeldOK, Holds

----------------------------------------------------------------------------
(* What the steps of a worker do to the event it handles                   *)

LEMMA SameStatuses ==
    ASSUME outbox' = outbox, NEW k
    PROVE  StatusesKept(k)
BY DEF StatusesKept

LEMMA OneStatus ==
    ASSUME OutboxOK, NEW k \in DOMAIN outbox, NEW s, NEW n,
           \/ outbox' = [outbox EXCEPT ![k].status = s]
           \/ outbox' = [outbox EXCEPT ![k].status = s, ![k].attempts = n]
    PROVE  StatusesKept(k) /\ outbox'[k].status = s /\ NewEvents = {}
BY StatusSet DEF StatusesKept, NewEvents

LEMMA Released ==
    ASSUME WorkOK, NEW w \in Workers, Release(w), NEW k, StatusesKept(k)
    PROVE  Handles(w, k)
BY DEF Release, WorkOK, Handles

\* A worker that goes on has not delivered a publication, or retries it.
LEMMA GoneOn ==
    ASSUME WorkOK, NEW w \in Workers, work[w] # Idle, NEW k, k = work[w].key,
           NEW s, Goto(w, s), StatusesKept(k),
           outbox'[k].status \in {"processing", "delivered"},
           (k.kind = "publish" /\ outbox'[k].status = "delivered") => s \in {"retry", "confirm"}
    PROVE  Handles(w, k)
<1>1. /\ DOMAIN work = Workers /\ work[w].key = k
      /\ DOMAIN work[w] = {"pc", "key", "att"}
  BY DEF WorkOK, BusyOK
<1>2. /\ \A v \in Workers \ {w} : work'[v] = work[v]
      /\ work'[w].key = k /\ work'[w].pc = s
  BY <1>1 DEF Goto
<1> QED
  BY <1>2 DEF Handles

\* A worker that goes on without a change of the outbox.
LEMMA GoneOnQuietly ==
    ASSUME TypeOK, NEW w \in Workers, work[w] # Idle, HeldOK(w), NEW k, k = work[w].key,
           NEW s, Goto(w, s), outbox' = outbox,
           s \in {"retry", "confirm"} \/ work[w].pc \notin {"retry", "confirm"}
               \/ outbox[k].status # "delivered"
    PROVE  Handles(w, k)
<1>1. outbox'[k].status \in {"processing", "delivered"}
  BY DEF HeldOK
<1>2. (k.kind = "publish" /\ outbox'[k].status = "delivered") => s \in {"retry", "confirm"}
  BY DEF HeldOK
<1> QED
  BY <1>1, <1>2, SameStatuses, GoneOn DEF TypeOK

LEMMA PublishedStatuses ==
    ASSUME BulletinAssumption, TypeOK, NEW k \in DOMAIN outbox, k.kind = "publish",
           PublishEdition(k)
    PROVE  StatusesKept(k) /\ outbox'[k].status = "delivered"
<1> DEFINE done == [outbox EXCEPT ![k].status = "delivered"]
           Kept0(box) ==
                /\ k \in DOMAIN box /\ box[k].status = "delivered"
                /\ \A x \in DOMAIN outbox \ {k} :
                      /\ x \in DOMAIN box
                      /\ box[x].status = outbox[x].status \/ outbox[x].status = "failed"
<1>1. PICK n, r, e0, e : /\ n = NotifyKey(k.issue)
                         /\ r = RetireKey(k.issue, k.locale, version[k.issue][k.locale].retAsset)
                         /\ e0 = Event(None, 0, FALSE)
                         /\ e = Event(version[k.issue][k.locale].retAsset,
                                      version[k.issue][k.locale].retGrant, FALSE)
  OBVIOUS
<1>2. n # k
  BY <1>1 DEF NotifyKey, EventKey
<1>3. \A x \in DOMAIN outbox :
          DOMAIN outbox[x] = {"status", "attempts", "asset", "grant", "notify"}
  BY EventFields DEF TypeOK
<1>4. /\ DOMAIN done = DOMAIN outbox /\ done[k].status = "delivered"
      /\ \A x \in DOMAIN outbox \ {k} : done[x] = outbox[x]
      /\ \A x \in DOMAIN done :
            DOMAIN done[x] = {"status", "attempts", "asset", "grant", "notify"}
  BY <1>3
<1>5. PICK told : /\ told = done \/ told = Requeue(done, n, e0)
                  /\ outbox' = told \/ outbox' = Insert(told, r, e)
  BY <1>1 DEF PublishEdition
<1> HIDE DEF done
<1>6. Kept0(told)
  <2>1. CASE told = done
    BY <1>4, <2>1
  <2>2. CASE told = Insert(done, n, e0)
    BY <1>4, <2>2 DEF Insert
  <2>3. CASE /\ n \in DOMAIN done /\ done[n].status = "failed"
             /\ told = [done EXCEPT ![n].status = "pending", ![n].attempts = 0]
    <3>1. /\ DOMAIN told = DOMAIN done
          /\ \A x \in DOMAIN done \ {n} : told[x] = done[x]
      BY <1>4, <2>3
    <3> QED
      BY <1>2, <1>4, <2>3, <3>1
  <2> QED
    BY <1>5, <2>1, <2>2, <2>3 DEF Requeue
<1>7. Kept0(outbox')
  BY <1>5, <1>6 DEF Insert
<1> QED
  BY <1>7 DEF StatusesKept

LEMMA FailedStatuses ==
    ASSUME BulletinAssumption, TypeOK, NEW k \in DOMAIN outbox, NEW r, NEW e,
           FailEvent(k, outbox) \/ FailEvent(k, Insert(outbox, r, e))
    PROVE  StatusesKept(k)
<1>1. PICK box : /\ box = outbox \/ box = Insert(outbox, r, e)
                 /\ outbox' = [box EXCEPT ![k].status = "failed"]
  BY DEF FailEvent
<1>2. /\ DOMAIN outbox \subseteq DOMAIN box
      /\ \A x \in DOMAIN outbox : box[x] = outbox[x]
  BY <1>1 DEF Insert
<1>3. /\ DOMAIN outbox' = DOMAIN box
      /\ \A x \in DOMAIN box \ {k} : outbox'[x] = box[x]
  BY <1>1
<1> QED
  BY <1>2, <1>3 DEF StatusesKept

LEMMA CompletePublishHandles ==
    ASSUME BulletinAssumption, TypeOK, NEW w \in Workers, HeldOK(w), CompletePublish(w)
    PROVE  Handles(w, work[w].key)
<1>1. work[w] # Idle /\ work[w].pc = "complete"
  BY DEF CompletePublish
<1>2. PICK k \in DOMAIN outbox : k = work[w].key /\ k.kind = "publish"
  BY <1>1, WorkerKind DEF TypeOK
<1>3. AfterCompletionError(w) \in {"retry", "confirm"}
  BY DEF AfterCompletionError
<1>4. ASSUME outbox' = outbox
      PROVE  Handles(w, k)
  <2>1. PICK s : Release(w) \/ Goto(w, s)
    BY DEF CompletePublish
  <2>2. CASE Release(w)
    BY <1>4, <2>2, SameStatuses, Released DEF TypeOK
  <2>3. CASE Goto(w, s)
    BY <1>1, <1>2, <1>4, <2>3, GoneOnQuietly
  <2> QED
    BY <2>1, <2>2, <2>3
<1>5. ASSUME PublishEdition(k), Release(w) \/ Goto(w, AfterCompletionError(w))
      PROVE  Handles(w, k)
  <2>1. StatusesKept(k) /\ outbox'[k].status = "delivered"
    BY <1>2, <1>5, PublishedStatuses
  <2>2. CASE Release(w)
    BY <2>1, <2>2, Released DEF TypeOK
  <2>3. CASE Goto(w, AfterCompletionError(w))
    <3>1. PICK s \in {"retry", "confirm"} : Goto(w, s)
      BY <1>3, <2>3
    <3> QED
      BY <1>1, <1>2, <2>1, <3>1, GoneOn DEF TypeOK
  <2> QED
    BY <1>5, <2>2, <2>3
<1> QED
  BY <1>2, <1>4, <1>5 DEF CompletePublish

LEMMA CompletionHandles ==
    ASSUME BulletinAssumption, TypeOK, NEW w \in Workers, HeldOK(w),
           CompleteUnpublish(w) \/ Complete(w) \/ CompleteNotification(w)
    PROVE  Handles(w, work[w].key)
<1>1. work[w] # Idle /\ work[w].pc = "finish"
  BY DEF CompleteUnpublish, Complete, CompleteNotification
<1>2. PICK k \in DOMAIN outbox : k = work[w].key /\ k.kind # "publish"
  BY <1>1, WorkerKind DEF TypeOK
<1>3. PICK s : s = AfterError(w)
  OBVIOUS
<1>4. outbox' = outbox \/ outbox' = [outbox EXCEPT ![k].status = "delivered"]
  BY <1>2, Zenon DEF CompleteUnpublish, UnpublishEdition, Complete, CompleteNotification
<1>5. Release(w) \/ Goto(w, s)
  BY <1>3 DEF CompleteUnpublish, Complete, CompleteNotification, Release, Goto
<1>6. StatusesKept(k) /\ outbox'[k].status \in {"processing", "delivered"}
  <2>1. CASE outbox' = outbox
    BY <1>2, <2>1, SameStatuses DEF HeldOK
  <2>2. CASE outbox' = [outbox EXCEPT ![k].status = "delivered"]
    BY <2>2, OneStatus DEF TypeOK
  <2> QED
    BY <1>4, <2>1, <2>2
<1>7. CASE Release(w)
  BY <1>2, <1>6, <1>7, Released DEF TypeOK
<1>8. CASE Goto(w, s)
  BY <1>1, <1>2, <1>6, <1>8, GoneOn DEF TypeOK
<1> QED
  BY <1>2, <1>5, <1>7, <1>8

LEMMA EndHandles ==
    ASSUME BulletinAssumption, TypeOK, NEW w \in Workers, HeldOK(w),
           Retry(w) \/ Defer(w) \/ Fail(w) \/ FailPublish(w) \/ Crash(w)
    PROVE  Handles(w, work[w].key)
<1>1. work[w] # Idle
  BY DEF Retry, Defer, Fail, FailPublish, Crash
<1>2. PICK k \in DOMAIN outbox : k = work[w].key
  BY <1>1, WorkerKind DEF TypeOK
<1>3. ASSUME Retry(w) \/ Defer(w) \/ Crash(w)
      PROVE  Release(w) /\ StatusesKept(k)
  <2>1. \/ outbox' = outbox
        \/ \E s : outbox' = [outbox EXCEPT ![k].status = s]
        \/ \E s, n : outbox' = [outbox EXCEPT ![k].status = s, ![k].attempts = n]
    BY <1>2, <1>3, Zenon DEF Retry, Defer, Crash
  <2>2. StatusesKept(k)
    BY <2>1, SameStatuses, OneStatus DEF TypeOK
  <2> QED
    BY <1>3, <2>2 DEF Retry, Defer, Crash
<1>4. ASSUME Fail(w)
      PROVE  Release(w) /\ StatusesKept(k)
  BY <1>2, <1>4, FailedStatuses DEF Fail
<1>5. ASSUME FailPublish(w)
      PROVE  Handles(w, k)
  <2>1. \/ /\ \E r, e : FailEvent(k, Insert(outbox, r, e))
           /\ Release(w)
        \/ Goto(w, "retry") /\ outbox' = outbox
    BY <1>2, <1>5 DEF FailPublish
  <2>2. CASE Release(w) /\ \E r, e : FailEvent(k, Insert(outbox, r, e))
    <3>1. StatusesKept(k)
      BY <2>2, FailedStatuses
    <3> QED
      BY <2>2, <3>1, Released DEF TypeOK
  <2>3. CASE Goto(w, "retry") /\ outbox' = outbox
    BY <1>1, <1>2, <2>3, GoneOnQuietly
  <2> QED
    BY <2>1, <2>2, <2>3
<1> QED
  BY <1>2, <1>3, <1>4, <1>5, Released DEF TypeOK

LEMMA CallHandles ==
    ASSUME BulletinAssumption, TypeOK, NEW w \in Workers, HeldOK(w),
           \/ GetAsset(w) \/ CreatePublicGrant(w) \/ EventDelivered(w)
           \/ RevokeGrant(w) \/ DeleteAsset(w) \/ QueueNotification(w)
    PROVE  Handles(w, work[w].key)
<1>1. work[w] # Idle /\ outbox' = outbox
  BY DEF GetAsset, CreatePublicGrant, EventDelivered, RevokeGrant, DeleteAsset,
     QueueNotification
<1>2. PICK k : k = work[w].key
  OBVIOUS
<1>3. CASE EventDelivered(w)
  <2>1. \/ Release(w)
        \/ \E s : Goto(w, s) /\ (s = "retry" \/ outbox[k].status # "delivered")
    BY <1>2, <1>3 DEF EventDelivered
  <2>2. CASE Release(w)
    BY <1>1, <1>2, <2>2, SameStatuses, Released DEF TypeOK
  <2>3. ASSUME NEW s, Goto(w, s), s = "retry" \/ outbox[k].status # "delivered"
        PROVE  Handles(w, k)
    BY <1>1, <1>2, <2>3, GoneOnQuietly
  <2> QED
    BY <1>2, <2>1, <2>2, <2>3
<1>4. CASE ~EventDelivered(w)
  <2>1. work[w].pc \notin {"retry", "confirm"}
    BY <1>4 DEF GetAsset, CreatePublicGrant, RevokeGrant, DeleteAsset, QueueNotification
  <2>2. \E s : Goto(w, s)
    BY <1>4 DEF GetAsset, CreatePublicGrant, RevokeGrant, DeleteAsset, QueueNotification
  <2> QED
    BY <1>1, <1>2, <2>1, <2>2, GoneOnQuietly
<1> QED
  BY <1>3, <1>4

LEMMA ClaimHandles ==
    ASSUME BulletinAssumption, TypeOK, HeldInv, LeaseKept,
           NEW w \in Workers, NEW k \in DOMAIN outbox, Claim(w, k)
    PROVE  /\ Handles(w, k) /\ work[w] = Idle
           /\ \A v \in Workers \ {w} : ~Holds(v, k)
           /\ outbox[k].status # "delivered"
<1>1. /\ work[w] = Idle
      /\ outbox[k].status = "pending" \/ LeaseExpires(k)
  BY DEF Claim
<1>2. outbox[k].status \in {"pending", "processing"}
  BY <1>1 DEF LeaseExpires
<1>3. \A v \in Workers : ~Holds(v, k)
  <2>1. CASE outbox[k].status = "pending"
    BY <2>1 DEF Holds, HeldInv, HeldOK
  <2>2. CASE LeaseExpires(k)
    BY <2>2 DEF LeaseKept
  <2> QED
    BY <1>1, <2>1, <2>2
<1>4. PICK n : /\ outbox' = [outbox EXCEPT ![k].status = "processing", ![k].attempts = n]
               /\ work' = [work EXCEPT ![w] = [pc |-> FirstStep(k), key |-> k, att |-> n]]
  BY Zenon DEF Claim
<1>5. StatusesKept(k) /\ outbox'[k].status = "processing"
  BY <1>4, OneStatus DEF TypeOK
<1>6. work'[w].key = k /\ \A v \in Workers \ {w} : work'[v] = work[v]
  BY <1>4 DEF TypeOK, WorkOK
<1> QED
  BY <1>1, <1>2, <1>3, <1>5, <1>6 DEF Handles

LEMMA EditKeepsEvents ==
    ASSUME NEW i \in Issues, Edit(i)
    PROVE  /\ DOMAIN outbox \subseteq DOMAIN outbox'
           /\ \A x \in DOMAIN outbox : outbox'[x] = outbox[x]
<1>1. ASSUME NEW k, NEW e, outbox' = Insert(outbox, k, e)
      PROVE  /\ DOMAIN outbox \subseteq DOMAIN outbox'
             /\ \A x \in DOMAIN outbox : outbox'[x] = outbox[x]
  BY <1>1 DEF Insert
<1>2. ASSUME NEW S, EnqueueAssetDeletes(i, S)
      PROVE  /\ DOMAIN outbox \subseteq DOMAIN outbox'
             /\ \A x \in DOMAIN outbox : outbox'[x] = outbox[x]
  BY <1>2 DEF EnqueueAssetDeletes
<1>3. ASSUME NEW l, NEW notify, StartPublish(i, l, notify) \/ Unpublish(i, l)
      PROVE  \E k, e : outbox' = Insert(outbox, k, e)
  BY <1>3 DEF StartPublish, Unpublish
<1> QED
  BY <1>1, <1>2, <1>3 DEF Edit, CreateIssue, UpdateIssue, PutVersion, UpdateVersion,
     DeleteVersion, RestoreIssueRevision, DeleteIssue

\* A step is of a worker that handles the event it alone holds, or leaves the
\* workers and the events there are alone.
LEMMA StepHandles ==
    ASSUME BulletinAssumption, TypeOK, HeldInv, [Next]_vars, [LeaseKept]_vars
    PROVE  \/ /\ work' = work
              /\ DOMAIN outbox \subseteq DOMAIN outbox'
              /\ \A x \in DOMAIN outbox : outbox'[x] = outbox[x]
           \/ \E w \in Workers, k \in DOMAIN outbox :
                 /\ Handles(w, k) /\ \A v \in Workers \ {w} : ~Holds(v, k)
                 /\ \/ work[w] = Idle /\ outbox[k].status # "delivered"
                    \/ /\ work[w] # Idle /\ work[w].key = k /\ HeldOK(w)
                       /\ WorkerStep(w) \/ Crash(w)
<1>1. ASSUME NEW i \in Issues, Edit(i)
      PROVE  /\ work' = work
             /\ DOMAIN outbox \subseteq DOMAIN outbox'
             /\ \A x \in DOMAIN outbox : outbox'[x] = outbox[x]
  BY <1>1, EditKeepsWork, EditKeepsEvents
<1>2. ASSUME NEW w \in Workers, NEW k \in DOMAIN outbox, Claim(w, k)
      PROVE  /\ Handles(w, k) /\ \A v \in Workers \ {w} : ~Holds(v, k)
             /\ work[w] = Idle /\ outbox[k].status # "delivered"
  <2>1. work'[w] # work[w]
    <3>1. PICK n : work' = [work EXCEPT ![w] = [pc |-> FirstStep(k), key |-> k, att |-> n]]
      BY <1>2, Zenon DEF Claim
    <3>2. "key" \notin DOMAIN Idle
      BY DEF Idle
    <3>3. work'[w] = [pc |-> FirstStep(k), key |-> k, att |-> n]
      BY <3>1 DEF TypeOK, WorkOK
    <3>4. "key" \in DOMAIN work'[w]
      BY <3>3
    <3> QED
      BY <1>2, <3>2, <3>4 DEF Claim
  <2>2. LeaseKept
    BY <2>1 DEF vars
  <2> QED
    BY <1>2, <2>2, ClaimHandles
<1>3. ASSUME NEW w \in Workers, WorkerStep(w) \/ Crash(w)
      PROVE  /\ work[w] # Idle /\ HeldOK(w) /\ work[w].key \in DOMAIN outbox
             /\ Handles(w, work[w].key)
             /\ \A v \in Workers \ {w} : ~Holds(v, work[w].key)
  <2>1. work[w] # Idle
    BY <1>3 DEF Crash, WorkerStep, Retry, Defer, Fail, GetAsset, CreatePublicGrant,
       CompletePublish, EventDelivered, FailPublish, RevokeGrant, DeleteAsset,
       CompleteUnpublish, Complete, QueueNotification, CompleteNotification
  <2>2. HeldOK(w)
    BY <2>1 DEF HeldInv
  <2>3. work[w].key \in DOMAIN outbox
    BY <2>1, WorkerKind DEF TypeOK
  <2>4. Handles(w, work[w].key)
    BY <1>3, <2>2, CompletePublishHandles, CompletionHandles, EndHandles, CallHandles
       DEF WorkerStep
  <2> QED
    BY <2>1, <2>2, <2>3, <2>4 DEF HeldOK
<1>4. CASE UNCHANGED vars \/ \E a \in Assets : AssetScanned(a) \/ RetryAssetScan(a)
  BY <1>4 DEF vars, AssetScanned, RetryAssetScan
<1> QED
  BY <1>1, <1>2, <1>3, <1>4 DEF Next

LEMMA NextHeld ==
    ASSUME BulletinAssumption, TypeOK, HeldInv, [Next]_vars, [LeaseKept]_vars
    PROVE  HeldInv'
<1>1. CASE work' = work /\ \A x \in DOMAIN outbox : outbox'[x] = outbox[x]
  BY <1>1, HeldKept
<1>2. ASSUME NEW w \in Workers, NEW k, Handles(w, k),
             \A v \in Workers \ {w} : ~Holds(v, k),
             work[w] = Idle \/ work[w].key = k
      PROVE  HeldInv'
  BY <1>2, HandledHeld
<1> QED
  BY <1>1, <1>2, StepHandles

----------------------------------------------------------------------------
(* Deliveries are final                                                    *)

\* A worker that holds a delivered publication writes nothing about it.
LEMMA DeliveredKept ==
    ASSUME BulletinAssumption, TypeOK, HeldInv, [Next]_vars, [LeaseKept]_vars,
           NEW k \in DOMAIN outbox, k.kind = "publish", outbox[k].status = "delivered"
    PROVE  k \in DOMAIN outbox' /\ outbox'[k].status = "delivered"
<1>1. CASE /\ DOMAIN outbox \subseteq DOMAIN outbox'
           /\ \A x \in DOMAIN outbox : outbox'[x] = outbox[x]
  BY <1>1
<1>2. ASSUME NEW w \in Workers, NEW h \in DOMAIN outbox, Handles(w, h), h # k
      PROVE  k \in DOMAIN outbox' /\ outbox'[k].status = "delivered"
  BY <1>2 DEF Handles, StatusesKept
<1>3. ASSUME NEW w \in Workers, work[w] # Idle, work[w].key = k, HeldOK(w),
             WorkerStep(w) \/ Crash(w)
      PROVE  outbox' = outbox
  <2>1. work[w].pc \in {"retry", "confirm"}
    BY <1>3 DEF HeldOK
  <2>2. Retry(w) \/ EventDelivered(w) \/ Crash(w)
    BY <1>3, <2>1 DEF WorkerStep, Defer, Fail, GetAsset, CreatePublicGrant, CompletePublish,
       FailPublish, RevokeGrant, DeleteAsset, CompleteUnpublish, Complete,
       QueueNotification, CompleteNotification
  <2> QED
    BY <1>3, <2>2 DEF Retry, EventDelivered, Crash
<1> QED
  BY <1>1, <1>2, <1>3, StepHandles

\* What the events a step adds revoke: the grant of an edition an editor
\* withdraws, the one a publication replaces, or that of a failed publication.
Withdraws(r) ==
    \E i \in Issues, l \in Locales :
        /\ Unpublish(i, l)
        /\ r.kind = "unpublish" /\ r.issue = i /\ outbox'[r].grant = version[i][l].grant

Publishing(w, k) ==
    /\ work[w].pc = "complete" /\ work[w].key = k
    /\ k.kind = "publish" /\ Current(k) /\ PublishEdition(k)

Replaces(r) ==
    \E w \in Workers, k \in DOMAIN outbox :
        /\ Publishing(w, k)
        /\ r.kind = "retire" /\ r.issue = k.issue
        /\ outbox'[r].grant = version[k.issue][k.locale].retGrant

Compensates(r) ==
    \E w \in Workers, k \in DOMAIN outbox :
        /\ work[w].pc = "compensate" /\ work[w].key = k /\ k.kind = "publish"
        /\ r = RevokeKey(k.issue, k.ver) /\ outbox'[r].grant = k.ver
        /\ pub' = pub

LEMMA EditRevokes ==
    ASSUME BulletinAssumption, TypeOK, NEW i \in Issues, Edit(i),
           NEW r \in NewEvents, r.kind \in Revoking
    PROVE  Withdraws(r)
<1>1. outbox' # outbox
  BY DEF NewEvents
<1>2. ASSUME NEW l \in Locales, NEW notify, StartPublish(i, l, notify)
      PROVE  FALSE
  <2>1. PICK k, e : /\ k = PublishKey(i, l, issue[i].version + 1)
                    /\ outbox' = Insert(outbox, k, e)
    BY <1>2 DEF StartPublish
  <2>2. k.kind \notin Revoking
    BY <2>1 DEF PublishKey, EventKey, Revoking
  <2>3. r = k
    BY <2>1, InsertedPayload
  <2> QED
    BY <2>2, <2>3
<1>3. ASSUME NEW S, EnqueueAssetDeletes(i, S)
      PROVE  FALSE
  BY <1>3, DeletesPayload
<1>4. ASSUME NEW l \in Locales, Unpublish(i, l)
      PROVE  Withdraws(r)
  <2>1. PICK k, a, e : /\ k = UnpublishKey(i, l, issue[i].version + 1)
                       /\ e = Event(a, version[i][l].grant, FALSE)
                       /\ outbox' = Insert(outbox, k, e)
    BY <1>4 DEF Unpublish
  <2>2. k.issue = i /\ k.kind = "unpublish" /\ e.grant = version[i][l].grant
    BY <2>1 DEF UnpublishKey, EventKey, Event
  <2>3. /\ NewEvents \subseteq {k}
        /\ k \in NewEvents => outbox'[k] = e
    BY <2>1, InsertedPayload
  <2>4. r = k /\ outbox'[r] = e
    BY <2>3
  <2> QED
    BY <1>4, <2>2, <2>4 DEF Withdraws
<1> QED
  BY <1>1, <1>2, <1>3, <1>4 DEF Edit, CreateIssue, UpdateIssue, PutVersion,
     UpdateVersion, DeleteVersion, RestoreIssueRevision, DeleteIssue

LEMMA WorkerRevokes ==
    ASSUME BulletinAssumption, TypeOK, NEW w \in Workers,
           (\E k \in DOMAIN outbox : Claim(w, k)) \/ WorkerStep(w),
           NEW r \in NewEvents, r.kind \in Revoking
    PROVE  Replaces(r) \/ Compensates(r)
<1>1. NewEvents # {} /\ outbox' # outbox
  BY DEF NewEvents
<1>2. ASSUME NEW k \in DOMAIN outbox, NEW s, NEW n,
             \/ outbox' = [outbox EXCEPT ![k].status = s]
             \/ outbox' = [outbox EXCEPT ![k].status = s, ![k].attempts = n]
      PROVE  FALSE
  BY <1>1, <1>2, OneStatus DEF TypeOK
<1>3. ASSUME NEW k \in DOMAIN outbox, Claim(w, k)
      PROVE  FALSE
  <2>1. PICK n : outbox' = [outbox EXCEPT ![k].status = "processing", ![k].attempts = n]
    BY <1>3, Zenon DEF Claim
  <2> QED
    BY <1>2, <2>1
<1>4. ASSUME \/ Retry(w) \/ Defer(w) \/ Complete(w) \/ Fail(w)
             \/ CompleteUnpublish(w) \/ CompleteNotification(w)
      PROVE  FALSE
  <2>1. PICK k \in DOMAIN outbox : k = work[w].key
    BY <1>4, WorkerKind DEF Retry, Defer, Complete, Fail, CompleteUnpublish,
       CompleteNotification, TypeOK
  <2>2. \/ outbox' = outbox
        \/ \E s : outbox' = [outbox EXCEPT ![k].status = s]
        \/ \E s, n : outbox' = [outbox EXCEPT ![k].status = s, ![k].attempts = n]
    BY <1>4, <2>1, Zenon DEF Retry, Defer, Complete, Fail, FailEvent, CompleteUnpublish,
       UnpublishEdition, CompleteNotification
  <2> QED
    BY <1>1, <1>2, <2>2
<1>5. ASSUME FailPublish(w)
      PROVE  Compensates(r)
  <2>1. PICK k \in DOMAIN outbox : k = work[w].key /\ k.kind = "publish"
    BY <1>5, WorkerKind DEF FailPublish, TypeOK
  <2>2. PICK x, e : /\ x = RevokeKey(k.issue, k.ver)
                    /\ e = Event(outbox[k].asset, k.ver, FALSE)
                    /\ FailEvent(k, Insert(outbox, x, e))
    BY <1>1, <1>5, <2>1 DEF FailPublish
  <2>3. /\ NewEvents \subseteq {x}
        /\ x \in NewEvents => outbox'[x].grant = k.ver
    BY <2>1, <2>2, CompensationEvents
  <2>4. work[w].pc = "compensate" /\ pub' = pub
    BY <1>5, <2>2 DEF FailPublish, FailEvent, public
  <2> QED
    BY <2>1, <2>2, <2>3, <2>4 DEF Compensates
<1>6. ASSUME CompletePublish(w)
      PROVE  Replaces(r)
  <2>1. PICK k \in DOMAIN outbox : k = work[w].key /\ k.kind = "publish"
    BY <1>6, WorkerKind DEF CompletePublish, TypeOK
  <2>2. Publishing(w, k)
    BY <1>1, <1>6, <2>1 DEF CompletePublish, Publishing
  <2>3. /\ r.kind = "retire" /\ r.issue = k.issue
        /\ outbox'[r].grant = version[k.issue][k.locale].retGrant
    BY <2>2, PublishedPayload DEF Publishing
  <2> QED
    BY <2>2, <2>3 DEF Replaces
<1>7. ASSUME \/ GetAsset(w) \/ CreatePublicGrant(w) \/ EventDelivered(w)
             \/ RevokeGrant(w) \/ DeleteAsset(w) \/ QueueNotification(w)
      PROVE  outbox' = outbox
  BY <1>7 DEF GetAsset, CreatePublicGrant, EventDelivered, RevokeGrant, DeleteAsset,
     QueueNotification
<1> QED
  BY <1>1, <1>3, <1>4, <1>5, <1>6, <1>7 DEF WorkerStep

LEMMA StepRevokes ==
    ASSUME BulletinAssumption, TypeOK, [Next]_vars, NEW r \in NewEvents, r.kind \in Revoking
    PROVE  Withdraws(r) \/ Replaces(r) \/ Compensates(r)
<1>1. outbox' # outbox
  BY DEF NewEvents
<1>2. ASSUME NEW w \in Workers, (\E k \in DOMAIN outbox : Claim(w, k)) \/ WorkerStep(w)
      PROVE  Replaces(r) \/ Compensates(r)
  BY <1>2, WorkerRevokes
<1> QED
  BY <1>1, <1>2, EditRevokes DEF Next, Crash, AssetScanned, RetryAssetScan, vars

\* A publication that a worker compensates is not a delivered one.
LEMMA CompensatedNotDelivered ==
    ASSUME BulletinAssumption, TypeOK, Agreement, HeldInv, NEW r, Compensates(r),
           NEW k \in DOMAIN outbox, k.kind = "publish", outbox[k].status = "delivered"
    PROVE  r.issue # k.issue \/ outbox'[r].grant # k.ver
<1>1. PICK w \in Workers, h \in DOMAIN outbox :
            /\ work[w].pc = "compensate" /\ work[w].key = h /\ h.kind = "publish"
            /\ r = RevokeKey(h.issue, h.ver) /\ outbox'[r].grant = h.ver
  BY DEF Compensates
<1>2. r.issue = h.issue
  BY <1>1 DEF RevokeKey, EventKey
<1>3. h.issue = k.issue /\ h.ver = k.ver => h = k
  BY <1>1 DEF Agreement, EventsAreSerial, Publishes
<1>4. work[w] # Idle /\ HeldOK(w)
  BY <1>1 DEF Idle, HeldInv
<1>5. h # k
  BY <1>1, <1>4 DEF HeldOK
<1> QED
  BY <1>1, <1>2, <1>3, <1>5

LEMMA StepDelivers ==
    ASSUME BulletinAssumption, TypeOK, Agreement, HeldInv, [Next]_vars, [LeaseKept]_vars
    PROVE  DeliveredStep
<1> SUFFICES ASSUME NEW k \in DOMAIN outbox, k.kind = "publish",
                    outbox[k].status = "delivered"
             PROVE  /\ outbox'[k].status = "delivered"
                    /\ RevokeKey(k.issue, k.ver) \notin DOMAIN outbox' \ DOMAIN outbox
  BY DEF DeliveredStep
<1>1. outbox'[k].status = "delivered"
  BY DeliveredKept
<1>2. PICK r : r = RevokeKey(k.issue, k.ver)
  OBVIOUS
<1>3. r.kind = "revoke" /\ r.issue = k.issue /\ r.ver = k.ver
  BY <1>2 DEF RevokeKey, EventKey
<1>4. r \notin NewEvents
  <2> SUFFICES ASSUME r \in NewEvents
               PROVE  FALSE
    OBVIOUS
  <2>1. Compensates(r)
    BY <1>3, StepRevokes DEF Revoking, Withdraws, Replaces
  <2>2. outbox'[r].grant = r.ver
    BY <2>1 DEF Compensates, RevokeKey, EventKey
  <2> QED
    BY <1>3, <2>1, <2>2, CompensatedNotDelivered
<1> QED
  BY <1>1, <1>2, <1>4 DEF NewEvents

LEMMA InitHeld == Init => HeldInv
BY DEF Init, HeldInv

LEMMA HeldInvariant == Spec /\ LeasesAreKept => [](AgreementInv /\ HeldInv)
<1>1. Init => AgreementInv /\ HeldInv
  BY InitTypeOK, InitAgrees, InitHeld, BulletinAssumption DEF AgreementInv
<1>2. AgreementInv /\ HeldInv /\ [Next]_vars /\ [LeaseKept]_vars => AgreementInv' /\ HeldInv'
  BY NextAgrees, NextHeld, BulletinAssumption DEF AgreementInv
<1> QED
  BY <1>1, <1>2, PTL DEF Spec, LeasesAreKept

\* As long as no worker loses its lease, a publication that is delivered stays
\* so, and no worker queues the revocation of its grant.
THEOREM DeliveriesAreFinal == Spec /\ LeasesAreKept => DeliveredIsNotRevoked
<1>1. AgreementInv /\ HeldInv /\ [Next]_vars /\ [LeaseKept]_vars => [DeliveredStep]_vars
  BY StepDelivers, BulletinAssumption DEF AgreementInv
<1> QED
  BY <1>1, HeldInvariant, PTL DEF Spec, LeasesAreKept, DeliveredIsNotRevoked

----------------------------------------------------------------------------
(* What is public is granted                                               *)

\* The version being published is not one an edition records a grant of.
UnusedAt(i, l) ==
    issue[i].status = "publishing" =>
        issue[i].version \notin {version[i][l].grant, version[i][l].retGrant}

Unused == \A i \in Issues, l \in Locales : UnusedAt(i, l)

\* No two editions of an issue record the same grant.
DistinctAt(i, l, m) ==
    version[i][l].grant # 0 => version[i][l].grant \notin {version[i][m].grant,
                                                            version[i][m].retGrant}

Distinct == \A i \in Issues, l, m \in Locales : l # m => DistinctAt(i, l, m)

\* The publication of a public row was delivered.
RowDelivered(l, n) ==
    LET k == PublishKey(pub[l][n].issue, l, pub[l][n].ver)
    IN k \in DOMAIN outbox /\ outbox[k].status = "delivered"

PublicIsDelivered == \A l \in Locales, n \in Numbers : Public(l, n) => RowDelivered(l, n)

\* No event revokes the grant of a public row.
Spares(k, l, n) == pub[l][n].issue = k.issue => outbox[k].grant # pub[l][n].ver

SparesPublic ==
    \A k \in DOMAIN outbox, l \in Locales, n \in Numbers :
        k.kind \in Revoking => Spares(k, l, n)

GrantedInv ==
    /\ VisibilityInv /\ HeldInv
    /\ Unused /\ Distinct
    /\ PublicIsDelivered /\ SparesPublic /\ PublicIsGranted

----------------------------------------------------------------------------
(* The grants of editions: a step keeps them, or completes a publication   *)

PublishesAt(i, l) ==
    /\ issue[i].status = "publishing" /\ issue'[i].status = "published"
    /\ version'[i][l].grant = issue[i].version /\ version'[i][l].retGrant = 0
    /\ \A m \in Locales \ {l} : version'[i][m] = version[i][m]
    /\ \A j \in Issues \ {i} : version'[j] = version[j]

GrantsKept == \A i \in Issues, l \in Locales : KeepsGrants(i, l)

LEMMA PublicationAt ==
    ASSUME BulletinAssumption, TypeOK, Agreement, NEW k \in DOMAIN outbox,
           k.kind = "publish", Current(k), PublishEdition(k),
           NEW i, NEW l, i = k.issue, l = k.locale
    PROVE  i \in Issues /\ l \in Locales /\ PublishesAt(i, l)
<1>1. /\ i \in Issues /\ l \in Locales /\ k.ver = issue[i].version
      /\ pub'[l][issue[i].number] =
                [issue |-> i, ver |-> k.ver, asset |-> version[i][l].asset]
      /\ version'[i][l].grant = k.ver /\ version'[i][l].retGrant = 0
      /\ \A m \in Locales \ {l} : version'[i][m] = version[i][m]
      /\ \A j \in Issues \ {i} : version'[j] = version[j]
  BY PublishedEffect
<1>2. issue[i].status = "publishing"
  BY DEF Current
<1>3. issue'[i].status = "published"
  BY <1>1, <1>2, PublishedMoves
<1> QED
  BY <1>1, <1>2, <1>3 DEF PublishesAt

LEMMA StepGrants ==
    ASSUME BulletinAssumption, TypeOK, Agreement, [Next]_vars
    PROVE  GrantsKept \/ \E i \in Issues, l \in Locales : PublishesAt(i, l)
<1>1. ASSUME version' = version
      PROVE  GrantsKept
  BY <1>1, SameVersionsGrant DEF GrantsKept
<1>2. ASSUME NEW i \in Issues, Edit(i)
      PROVE  GrantsKept
  BY <1>2, EditGrants DEF GrantsKept
<1>3. ASSUME NEW w \in Workers, CompletePublish(w)
      PROVE  GrantsKept \/ \E i \in Issues, l \in Locales : PublishesAt(i, l)
  <2>1. PICK k \in DOMAIN outbox : k = work[w].key /\ k.kind = "publish"
    BY <1>3, WorkerKind DEF CompletePublish, TypeOK
  <2>2. ASSUME Current(k), PublishEdition(k)
        PROVE  \E i \in Issues, l \in Locales : PublishesAt(i, l)
    BY <2>1, <2>2, PublicationAt
  <2> QED
    BY <1>1, <1>3, <2>1, <2>2 DEF CompletePublish, cms
<1>4. ASSUME NEW w \in Workers, CompleteUnpublish(w)
      PROVE  GrantsKept
  <2>1. PICK k \in DOMAIN outbox : k = work[w].key /\ Publishes(k)
    BY <1>4, WorkerKind DEF CompleteUnpublish, TypeOK, Publishes
  <2>2. CASE UnpublishEdition(k)
    BY <2>1, <2>2, WithdrawalGrants DEF GrantsKept
  <2> QED
    BY <1>1, <1>4, <2>1, <2>2 DEF CompleteUnpublish, cms
<1>5. ASSUME NEW w \in Workers, Fail(w) \/ FailPublish(w)
      PROVE  GrantsKept
  <2>1. PICK k \in DOMAIN outbox : k = work[w].key
    BY <1>5, WorkerKind DEF Fail, FailPublish, TypeOK
  <2>2. version' = version \/ \E box : FailEvent(k, box)
    BY <1>5, <2>1 DEF Fail, FailPublish, cms
  <2> QED
    BY <1>1, <2>1, <2>2, FailGrants DEF GrantsKept
<1>6. ASSUME NEW w \in Workers, WorkerStep(w), ~CompletePublish(w), ~CompleteUnpublish(w),
             ~Fail(w), ~FailPublish(w)
      PROVE  version' = version
  BY <1>6 DEF WorkerStep, Retry, Defer, GetAsset, CreatePublicGrant, EventDelivered,
     RevokeGrant, DeleteAsset, Complete, QueueNotification, CompleteNotification, cms
<1>7. ASSUME \/ UNCHANGED vars
             \/ \E w \in Workers, k \in DOMAIN outbox : Claim(w, k)
             \/ \E w \in Workers : Crash(w)
             \/ \E a \in Assets : AssetScanned(a) \/ RetryAssetScan(a)
      PROVE  version' = version
  BY <1>7 DEF vars, cms, Claim, Crash, AssetScanned, RetryAssetScan
<1> QED
  BY <1>1, <1>2, <1>3, <1>4, <1>5, <1>6, <1>7 DEF Next

LEMMA StepMoves ==
    ASSUME BulletinAssumption, TypeOK, TypeOK', Agreement, GrantsBehind, [Next]_vars
    PROVE  PayloadsKept /\ \A i \in Issues : IssueMoves(i)
<1>1. ASSUME NEW i \in Issues, Edit(i)
      PROVE  PayloadsKept /\ \A j \in Issues : IssueMoves(j)
  BY <1>1, EditPayload, EditMoves DEF EditedEvents
<1>2. ASSUME NEW w \in Workers, (\E k \in DOMAIN outbox : Claim(w, k)) \/ WorkerStep(w)
      PROVE  PayloadsKept /\ \A j \in Issues : IssueMoves(j)
  BY <1>2, WorkerLeaves DEF WorkEvents
<1>3. ASSUME \/ UNCHANGED vars \/ \E w \in Workers : Crash(w)
             \/ \E a \in Assets : AssetScanned(a) \/ RetryAssetScan(a)
      PROVE  issue' = issue /\ outbox' = outbox
  BY <1>3 DEF vars, cms, Crash, AssetScanned, RetryAssetScan
<1> QED
  BY <1>1, <1>2, <1>3, SamePayload, SameIssuesMove DEF Next

LEMMA UnusedStays ==
    ASSUME BulletinAssumption, TypeOK, TypeOK', Unused, GrantsBehind,
           NEW i \in Issues, NEW l \in Locales, IssueMoves(i), KeepsGrants(i, l)
    PROVE  UnusedAt(i, l)'
<1> SUFFICES ASSUME issue'[i].status = "publishing"
             PROVE  issue'[i].version \notin {version'[i][l].grant, version'[i][l].retGrant}
  BY DEF UnusedAt
<1>1. issue[i].status # "deleted" /\ issue[i].version <= issue'[i].version
  BY DEF IssueMoves
<1>2. /\ issue[i].version \in Nat /\ issue'[i].version \in Nat
      /\ version[i][l].grant \in Nat /\ version[i][l].retGrant \in Nat
  BY VersionNumbers, VersionFields DEF TypeOK, GrantIds
<1>3. issue'[i].version # 0
  <2>1. issue'[i] \in IssueRows
    BY DEF TypeOK, CmsOK
  <2> QED
    BY <2>1 DEF IssueRows, IssueRow, NoIssue, Versions, BulletinAssumption
<1>4. version[i][l].grant <= issue[i].version /\ version[i][l].retGrant <= issue[i].version
  BY <1>1 DEF GrantsBehind, GrantsOld
<1>5. issue'[i].version \notin {version[i][l].grant, version[i][l].retGrant}
  <2>1. CASE issue'[i].version = issue[i].version
    BY <2>1 DEF IssueMoves, Unused, UnusedAt
  <2>2. CASE issue'[i].version # issue[i].version
    BY <1>1, <1>2, <1>4, <2>2
  <2> QED
    BY <2>1, <2>2
<1> QED
  BY <1>3, <1>5 DEF KeepsGrants

LEMMA NextGrants ==
    ASSUME BulletinAssumption, TypeOK, TypeOK', Agreement, GrantsBehind, Unused, Distinct,
           [Next]_vars
    PROVE  Unused' /\ Distinct'
<1>1. \A i \in Issues : IssueMoves(i)
  BY StepMoves
<1>2. CASE GrantsKept
  <2>1. Unused'
    BY <1>1, <1>2, UnusedStays DEF GrantsKept, Unused
  <2>2. ASSUME NEW i \in Issues, NEW l \in Locales, NEW m \in Locales, l # m
        PROVE  DistinctAt(i, l, m)'
    <3>1. DistinctAt(i, l, m) /\ KeepsGrants(i, l) /\ KeepsGrants(i, m)
      BY <1>2, <2>2 DEF Distinct, GrantsKept
    <3>2. DistinctAt(i, m, l)
      BY <2>2 DEF Distinct
    <3> QED
      BY <3>1, <3>2 DEF DistinctAt, KeepsGrants
  <2> QED
    BY <2>1, <2>2 DEF Distinct
<1>3. ASSUME NEW i \in Issues, NEW l \in Locales, PublishesAt(i, l)
      PROVE  Unused' /\ Distinct'
  <2>1. ASSUME NEW j \in Issues, NEW m \in Locales
        PROVE  UnusedAt(j, m)'
    <3>1. CASE j = i
      BY <1>3, <3>1 DEF PublishesAt, UnusedAt
    <3>2. CASE j # i
      <4>1. KeepsGrants(j, m)
        BY <1>3, <3>2 DEF PublishesAt, KeepsGrants
      <4> QED
        BY <1>1, <4>1, UnusedStays
    <3> QED
      BY <3>1, <3>2
  <2>2. ASSUME NEW j \in Issues, NEW a \in Locales, NEW b \in Locales, a # b
        PROVE  DistinctAt(j, a, b)'
    <3>1. DistinctAt(j, a, b) /\ UnusedAt(j, a) /\ UnusedAt(j, b)
      BY <2>2 DEF Distinct, Unused
    <3> QED
      BY <1>3, <2>2, <3>1 DEF DistinctAt, UnusedAt, PublishesAt
  <2> QED
    BY <2>1, <2>2 DEF Unused, Distinct
<1> QED
  BY <1>2, <1>3, StepGrants

----------------------------------------------------------------------------
(* The public rows: a step keeps, removes or writes one                    *)

LEMMA RowChanges ==
    ASSUME BulletinAssumption, PublicInv, [Next]_vars,
           NEW l \in Locales, NEW n \in Numbers, pub'[l][n] # NoPub
    PROVE  \/ pub'[l][n] = pub[l][n]
           \/ \E w \in Workers, k \in DOMAIN outbox :
                /\ Publishing(w, k)
                /\ l = k.locale /\ n = issue[k.issue].number /\ k.issue \in Issues
                /\ pub'[l][n].issue = k.issue /\ pub'[l][n].ver = k.ver
                /\ issue[k.issue].status = "publishing" /\ issue[k.issue].version = k.ver
<1>1. TypeOK /\ Agreement
  BY DEF PublicInv, AgreementInv
<1>2. ASSUME NEW i \in Issues, NEW m \in Locales, Unpublish(i, m)
      PROVE  pub'[l][n] = pub[l][n]
  BY <1>1, <1>2 DEF Unpublish, TypeOK, PublicOK
<1>3. ASSUME NEW w \in Workers, NEW k \in DOMAIN outbox, Publishing(w, k),
             pub'[l][n] # pub[l][n]
      PROVE  /\ l = k.locale /\ n = issue[k.issue].number /\ k.issue \in Issues
             /\ pub'[l][n].issue = k.issue /\ pub'[l][n].ver = k.ver
             /\ issue[k.issue].status = "publishing" /\ issue[k.issue].version = k.ver
  <2>1. PICK i, m, a : i = k.issue /\ m = k.locale /\ a = version[i][m].asset
    OBVIOUS
  <2>2. k.kind = "publish" /\ Current(k) /\ PublishEdition(k)
    BY <1>3 DEF Publishing
  <2>3. /\ i \in Issues /\ m \in Locales /\ issue[i].number \in Numbers
        /\ pub'[m][issue[i].number] = [issue |-> i, ver |-> k.ver, asset |-> a]
        /\ \A x \in Numbers \ {issue[i].number} : pub'[m][x] = pub[m][x]
        /\ \A x \in Locales \ {m} : pub'[x] = pub[x]
    BY <1>1, <2>1, <2>2, PublishedEffect
  <2>4. l = m /\ n = issue[i].number
    BY <1>3, <2>3
  <2> QED
    BY <2>1, <2>2, <2>3, <2>4 DEF Current
<1>4. \/ pub' = pub
      \/ \E i \in Issues, m \in Locales : Unpublish(i, m)
      \/ \E w \in Workers, k \in DOMAIN outbox : Publishing(w, k)
  BY <1>1, PublicSteps DEF Publishing
<1> QED
  BY <1>2, <1>3, <1>4

LEMMA NextDelivered ==
    ASSUME BulletinAssumption, PublicInv, HeldInv, PublicIsDelivered,
           [Next]_vars, [LeaseKept]_vars
    PROVE  PublicIsDelivered'
<1> SUFFICES ASSUME NEW l \in Locales, NEW n \in Numbers, Public(l, n)'
             PROVE  RowDelivered(l, n)'
  BY DEF PublicIsDelivered
<1>1. TypeOK
  BY DEF PublicInv, AgreementInv
<1>2. PICK q : q = PublishKey(pub'[l][n].issue, l, pub'[l][n].ver)
  OBVIOUS
<1>3. CASE pub'[l][n] = pub[l][n]
  <2>1. RowDelivered(l, n)
    BY <1>3 DEF Public, PublicIsDelivered
  <2>2. q \in DOMAIN outbox /\ outbox[q].status = "delivered" /\ q.kind = "publish"
    BY <1>2, <1>3, <2>1 DEF RowDelivered, PublishKey, EventKey
  <2>3. q \in DOMAIN outbox' /\ outbox'[q].status = "delivered"
    BY <1>1, <2>2, DeliveredKept
  <2> QED
    BY <1>2, <2>3 DEF RowDelivered
<1>4. ASSUME NEW w \in Workers, NEW k \in DOMAIN outbox, Publishing(w, k), l = k.locale,
             pub'[l][n].issue = k.issue, pub'[l][n].ver = k.ver
      PROVE  RowDelivered(l, n)'
  <2>1. k.kind = "publish" /\ PublishEdition(k)
    BY <1>4 DEF Publishing
  <2>2. q = k
    BY <1>1, <1>2, <1>4, <2>1, EventFields, KeyFields DEF TypeOK
  <2>3. outbox'[k].status = "delivered"
    BY <1>1, <2>1, PublishedStatuses
  <2>4. k \in DOMAIN outbox'
    BY <1>1, <2>1, PublishedPayload DEF PayloadsKept
  <2> QED
    BY <1>2, <2>2, <2>3, <2>4 DEF RowDelivered
<1>5. \/ pub'[l][n] = pub[l][n]
      \/ \E w \in Workers, k \in DOMAIN outbox :
            /\ Publishing(w, k) /\ l = k.locale
            /\ pub'[l][n].issue = k.issue /\ pub'[l][n].ver = k.ver
  <2>1. pub'[l][n] # NoPub
    BY DEF Public
  <2> QED
    BY <2>1, RowChanges
<1> QED
  BY <1>3, <1>4, <1>5

\* What an editor withdraws no other edition is public under.
LEMMA WithdrawnSpares ==
    ASSUME BulletinAssumption, PublicInv, Distinct, NEW r, Withdraws(r),
           NEW l \in Locales, NEW n \in Numbers, pub'[l][n].issue = r.issue, Public(l, n)'
    PROVE  outbox'[r].grant # pub'[l][n].ver
<1>1. TypeOK /\ AllRecorded
  BY DEF PublicInv, AgreementInv
<1>2. PICK i \in Issues, m \in Locales :
            /\ Unpublish(i, m) /\ r.issue = i /\ outbox'[r].grant = version[i][m].grant
  BY DEF Withdraws
<1>3. pub' = [pub EXCEPT ![m] = [pub[m] EXCEPT ![issue[i].number] = NoPub]]
  BY <1>2 DEF Unpublish
<1>4. version[i][m].grant # 0
  BY <1>2 DEF Unpublish
<1>5. pub'[l][n] = pub[l][n] /\ ~(l = m /\ n = issue[i].number)
  BY <1>1, <1>3 DEF TypeOK, PublicOK, Public
<1>6. issue[i].number = n /\ version[i][l].grant = pub[l][n].ver
  <2>1. Recorded(i, l)
    BY <1>1 DEF AllRecorded
  <2> QED
    BY <1>2, <1>5, <2>1 DEF Recorded, RowIsRecorded
<1>7. l # m
  BY <1>5, <1>6
<1> QED
  BY <1>2, <1>4, <1>5, <1>6, <1>7 DEF Distinct, DistinctAt

\* Nor what a publication replaces.
LEMMA ReplacedSpares ==
    ASSUME BulletinAssumption, PublicInv, Unused, Distinct, NEW r, Replaces(r),
           NEW l \in Locales, NEW n \in Numbers, pub'[l][n].issue = r.issue
    PROVE  outbox'[r].grant # pub'[l][n].ver
<1>1. TypeOK /\ Agreement /\ AllRecorded
  BY DEF PublicInv, AgreementInv
<1>2. PICK w \in Workers, k \in DOMAIN outbox :
            /\ Publishing(w, k) /\ r.issue = k.issue
            /\ outbox'[r].grant = version[k.issue][k.locale].retGrant
  BY DEF Replaces
<1>3. PICK i, m, a : i = k.issue /\ m = k.locale /\ a = version[i][m].asset
  OBVIOUS
<1>4. k.kind = "publish" /\ Current(k) /\ PublishEdition(k)
  BY <1>2 DEF Publishing
<1>5. /\ i \in Issues /\ m \in Locales /\ k.ver = issue[i].version
      /\ pub'[m][issue[i].number] = [issue |-> i, ver |-> k.ver, asset |-> a]
      /\ \A x \in Numbers \ {issue[i].number} : pub'[m][x] = pub[m][x]
      /\ \A x \in Locales \ {m} : pub'[x] = pub[x]
  BY <1>1, <1>3, <1>4, PublishedEffect
<1>6. CASE l = m /\ n = issue[i].number
  <2>1. pub'[l][n].ver = issue[i].version
    BY <1>5, <1>6
  <2>2. issue[i].version # version[i][m].retGrant
    BY <1>3, <1>4, <1>5 DEF Unused, UnusedAt, Current
  <2> QED
    BY <1>2, <1>3, <2>1, <2>2
<1>7. CASE ~(l = m /\ n = issue[i].number)
  <2>1. pub'[l][n] = pub[l][n] /\ pub[l][n].issue = i
    BY <1>2, <1>3, <1>5, <1>7
  <2>2. issue[i].number = n /\ version[i][l].grant = pub[l][n].ver
    <3>1. Recorded(i, l)
      BY <1>1, <1>5 DEF AllRecorded
    <3> QED
      BY <1>5, <2>1, <3>1 DEF Recorded, RowIsRecorded
  <2>3. pub[l][n].ver # 0
    BY <1>1, <1>5, <2>1, Versions0 DEF TypeOK
  <2>4. version[i][l].grant # version[i][m].retGrant
    BY <1>5, <1>7, <2>2, <2>3 DEF Distinct, DistinctAt
  <2> QED
    BY <1>2, <1>3, <2>1, <2>2, <2>4
<1> QED
  BY <1>6, <1>7

\* Nor what a worker compensates, since that was not delivered.
LEMMA CompensatedSpares ==
    ASSUME BulletinAssumption, TypeOK, Agreement, HeldInv, PublicIsDelivered,
           NEW r, Compensates(r),
           NEW l \in Locales, NEW n \in Numbers, pub'[l][n].issue = r.issue, Public(l, n)'
    PROVE  outbox'[r].grant # pub'[l][n].ver
<1>1. pub' = pub
  BY DEF Compensates
<1>2. PICK q : q = PublishKey(pub[l][n].issue, l, pub[l][n].ver)
  OBVIOUS
<1>3. q.kind = "publish" /\ q.issue = pub[l][n].issue /\ q.ver = pub[l][n].ver
  BY <1>2 DEF PublishKey, EventKey
<1>4. q \in DOMAIN outbox /\ outbox[q].status = "delivered"
  BY <1>1, <1>2 DEF PublicIsDelivered, RowDelivered, Public
<1> QED
  BY <1>1, <1>3, <1>4, CompensatedNotDelivered

LEMMA NextSpares ==
    ASSUME BulletinAssumption, TypeOK', GrantedInv, [Next]_vars
    PROVE  SparesPublic'
<1> SUFFICES ASSUME NEW k \in DOMAIN outbox', NEW l \in Locales, NEW n \in Numbers,
                    k.kind \in Revoking, pub'[l][n].issue = k.issue
             PROVE  outbox'[k].grant # pub'[l][n].ver
  BY DEF SparesPublic, Spares
<1>1. PublicInv /\ TypeOK /\ Agreement /\ RevokesBehind /\ GrantsBehind
  BY DEF GrantedInv, VisibilityInv, PublicInv, AgreementInv
<1>2. Public(l, n)' /\ pub'[l][n] # NoPub
  <2>1. k.issue \in Issues
    <3>1. k \in Keys
      BY DEF TypeOK, OutboxOK
    <3> QED
      BY <3>1, KeyFields
  <2> QED
    BY <2>1 DEF Public, NoPub, BulletinAssumption
<1>3. CASE k \in DOMAIN outbox
  <2>1. outbox'[k].grant = outbox[k].grant
    BY <1>1, <1>3, StepMoves DEF PayloadsKept
  <2>2. CASE pub'[l][n] = pub[l][n]
    BY <1>3, <2>1, <2>2 DEF GrantedInv, SparesPublic, Spares
  <2>3. ASSUME NEW h, pub'[l][n].issue = h.issue, pub'[l][n].ver = h.ver,
               issue[h.issue].status = "publishing", issue[h.issue].version = h.ver
        PROVE  outbox'[k].grant # pub'[l][n].ver
    BY <1>1, <1>3, <2>1, <2>3 DEF RevokesBehind, RevokesOld
  <2> QED
    BY <1>1, <1>2, <2>2, <2>3, RowChanges
<1>4. CASE k \in NewEvents
  <2>1. Withdraws(k) \/ Replaces(k) \/ Compensates(k)
    BY <1>1, <1>4, StepRevokes
  <2> QED
    BY <1>1, <1>2, <2>1, WithdrawnSpares, ReplacedSpares, CompensatedSpares DEF GrantedInv
<1> QED
  BY <1>3, <1>4 DEF NewEvents

LEMMA GrantsLost ==
    ASSUME BulletinAssumption, TypeOK, [Next]_vars
    PROVE  \/ grants \subseteq grants'
           \/ \E k \in DOMAIN outbox :
                /\ k.kind \in Revoking /\ pub' = pub
                /\ grants' = grants \ {<<outbox[k].asset, k.issue, outbox[k].grant>>}
<1>1. ASSUME NEW w \in Workers, RevokeGrant(w)
      PROVE  \/ grants \subseteq grants'
             \/ \E k \in DOMAIN outbox :
                  /\ k.kind \in Revoking /\ pub' = pub
                  /\ grants' = grants \ {<<outbox[k].asset, k.issue, outbox[k].grant>>}
  <2>1. PICK k \in DOMAIN outbox : k = work[w].key /\ k.kind \in Revoking
    BY <1>1, WorkerKind DEF RevokeGrant, TypeOK, Revoking
  <2> QED
    BY <1>1, <2>1 DEF RevokeGrant, public
<1>2. ASSUME NEW w \in Workers, CreatePublicGrant(w)
      PROVE  grants \subseteq grants'
  BY <1>2 DEF CreatePublicGrant
<1>3. ASSUME NEW w \in Workers, WorkerStep(w), ~CreatePublicGrant(w), ~RevokeGrant(w)
      PROVE  grants' = grants
  BY <1>3, WorkerKeepsGrants
<1>4. ASSUME NEW i \in Issues, Edit(i)
      PROVE  grants' = grants
  BY <1>4, EditKeepsWork
<1>5. ASSUME \/ UNCHANGED vars
             \/ \E w \in Workers, k \in DOMAIN outbox : Claim(w, k)
             \/ \E w \in Workers : Crash(w)
             \/ \E a \in Assets : AssetScanned(a) \/ RetryAssetScan(a)
      PROVE  grants' = grants
  BY <1>5 DEF vars, remote, Claim, Crash, AssetScanned, RetryAssetScan
<1> QED
  BY <1>1, <1>2, <1>3, <1>4, <1>5 DEF Next

LEMMA NextPublicGranted ==
    ASSUME BulletinAssumption, GrantedInv, [Next]_vars
    PROVE  PublicIsGranted'
<1> SUFFICES ASSUME NEW l \in Locales, NEW n \in Numbers, Public(l, n)'
             PROVE  <<pub'[l][n].asset, pub'[l][n].issue, pub'[l][n].ver>> \in grants'
  BY DEF PublicIsGranted
<1>1. VisibilityInv /\ TypeOK
  BY DEF GrantedInv, VisibilityInv, PublicInv, AgreementInv
<1>2. <<pub'[l][n].asset, pub'[l][n].issue, pub'[l][n].ver>> \in grants
  <2>1. CASE pub'[l][n] = pub[l][n]
    BY <2>1 DEF GrantedInv, PublicIsGranted, Public
  <2>2. CASE pub'[l][n] # pub[l][n]
    BY <1>1, <2>2, StepVisible DEF VisibilityStep, Public
  <2> QED
    BY <2>1, <2>2
<1>3. ASSUME NEW k \in DOMAIN outbox, k.kind \in Revoking, pub' = pub,
             grants' = grants \ {<<outbox[k].asset, k.issue, outbox[k].grant>>}
      PROVE  <<pub'[l][n].asset, pub'[l][n].issue, pub'[l][n].ver>> \in grants'
  <2>1. pub[l][n].issue = k.issue => outbox[k].grant # pub[l][n].ver
    BY <1>3 DEF GrantedInv, SparesPublic, Spares
  <2> QED
    BY <1>2, <1>3, <2>1
<1> QED
  BY <1>1, <1>2, <1>3, GrantsLost

----------------------------------------------------------------------------
(* The invariant                                                           *)

LEMMA InitGranted ==
    ASSUME BulletinAssumption, Init
    PROVE  Unused /\ Distinct /\ PublicIsDelivered /\ SparesPublic /\ PublicIsGranted
<1>1. Unused /\ Distinct
  BY DEF Init, Unused, UnusedAt, Distinct, DistinctAt, NoIssue, IssueRow, NoVersion
<1>2. \A l \in Locales, n \in Numbers : ~Public(l, n)
  BY DEF Init, Public
<1>3. DOMAIN outbox = {}
  BY DEF Init
<1> QED
  BY <1>1, <1>2, <1>3 DEF PublicIsDelivered, SparesPublic, PublicIsGranted

LEMMA NextGranted ==
    ASSUME BulletinAssumption, GrantedInv, [Next]_vars, [LeaseKept]_vars
    PROVE  GrantedInv'
<1>1. VisibilityInv'
  BY NextVisibility DEF GrantedInv
<1>2. TypeOK /\ TypeOK' /\ Agreement /\ PublicInv /\ GrantsBehind
  BY <1>1 DEF GrantedInv, VisibilityInv, PublicInv, AgreementInv
<1>3. HeldInv'
  BY <1>2, NextHeld DEF GrantedInv
<1>4. Unused' /\ Distinct'
  BY <1>2, NextGrants DEF GrantedInv
<1>5. PublicIsDelivered'
  BY <1>2, NextDelivered DEF GrantedInv
<1>6. SparesPublic'
  BY <1>2, NextSpares
<1>7. PublicIsGranted'
  BY NextPublicGranted
<1> QED
  BY <1>1, <1>3, <1>4, <1>5, <1>6, <1>7 DEF GrantedInv

\* As long as no worker loses its lease, every bulletin that is public can be
\* opened: the grant of its asset is live.  Crashes, retries and lost answers
\* do not endanger it; a lost lease does (the disagreement `delivered').
THEOREM PublicBulletinsAreGranted == Spec /\ LeasesAreKept => []PublicIsGranted
<1>1. Init => HeldInv /\ Unused /\ Distinct /\ PublicIsDelivered /\ SparesPublic /\ PublicIsGranted
  BY InitHeld, InitGranted, BulletinAssumption
<1>2. Init => VisibilityInv
  BY InitVisibility, InitTypeOK, InitAgrees, InitRecorded, BulletinAssumption
     DEF VisibilityInv, PublicInv, AgreementInv
<1>3. Init => GrantedInv
  BY <1>1, <1>2 DEF GrantedInv
<1>4. GrantedInv /\ [Next]_vars /\ [LeaseKept]_vars => GrantedInv'
  BY NextGranted, BulletinAssumption
<1>5. GrantedInv => PublicIsGranted
  BY DEF GrantedInv
<1> QED
  BY <1>3, <1>4, <1>5, PTL DEF Spec, LeasesAreKept
=============================================================================
