---------------------------- MODULE PlainContent ----------------------------
(***************************************************************************)
(* A location, or a page without members such as a legal page.  What the   *)
(* service checks before a transaction, it checks against a read of its    *)
(* own: between that read and the transaction other requests commit.  Of a *)
(* text only its locales are kept.                                         *)
(***************************************************************************)
EXTENDS Integers

CONSTANTS
    Requests,       \* requests that run at once
    Locales,        \* the supported locales: five
    Deletable,      \* locations can be created and deleted, pages cannot
    MaxItemVersion  \* bound: versions of the entry

ASSUME PlainAssumption == MaxItemVersion \in Nat \ {0}

VARIABLES
    item,      \* content_entry and content_translation
    rev,       \* content_revision: the locales of each version
    public,    \* public_projection
    req        \* requests between their read and their transaction

plainVars == <<item, rev, public, req>>

ItemVersions == 1 .. MaxItemVersion
NotPublic == [ver |-> 0, locales |-> {}]
GoneItem(status) == [status |-> status, ver |-> 0, locales |-> {}]
NoRequest == [pc |-> "idle"]

ItemExists == item.status \notin {"absent", "deleted"}

\* A request that has the entry at the version it read on an earlier page.
Request(kind, locales, deleted) ==
    [pc |-> "read", kind |-> kind, expected |-> item.ver, locales |-> locales,
     deleted |-> deleted]

\* Nothing is read before the transactions that withdraw and delete.
BeginRequest(q) ==
    /\ req[q] = NoRequest /\ ItemExists
    /\ \/ \E kept \in SUBSET Locales \ {{}} : \E dropped \in SUBSET (Locales \ kept) :
             req' = [req EXCEPT ![q] = Request("update", kept, dropped)]
       \/ \E v \in DOMAIN rev : req' = [req EXCEPT ![q] = Request("restore", rev[v], {})]
       \/ req' = [req EXCEPT ![q] = Request("publish", {}, {})]
       \/ \E kind \in {"unpublish"} \cup (IF Deletable THEN {"delete"} ELSE {}) :
             req' = [req EXCEPT ![q] = [Request(kind, {}, {}) EXCEPT !.pc = "write"]]
    /\ UNCHANGED <<item, rev, public>>

LocaleSetMismatch(q) == ~(item.locales \subseteq req[q].locales \cup req[q].deleted)

\* The read of UpdateContent, RestoreContent and PublishContent of the service.
\* An update has to name every locale there is, a restored revision keeps the
\* locales that came later, what is published is complete.
ReadContent(q) ==
    /\ req[q].pc = "read"
    /\ LET refused == \/ ~ItemExists
                      \/ req[q].kind = "update" /\ LocaleSetMismatch(q)
                      \/ /\ req[q].kind = "publish"
                         /\ item.ver # req[q].expected \/ item.locales # Locales
           kept == IF req[q].kind = "restore" THEN item.locales ELSE {}
       IN req' = [req EXCEPT ![q] =
                    IF refused THEN NoRequest
                    ELSE [req[q] EXCEPT !.pc = "write", !.locales = @ \cup kept]]
    /\ UNCHANGED <<item, rev, public>>

\* Mutant of LockContentVersion: the version is not compared.
LockContent(q) == ItemExists /\ item.ver < MaxItemVersion

\* No entry of these modules is ever in flight.
LockContentVersion(q) == ItemExists /\ item.ver = req[q].expected /\ item.ver < MaxItemVersion

Save(status, locales) ==
    /\ item' = [status |-> status, ver |-> item.ver + 1, locales |-> locales]
    /\ rev' = [v \in DOMAIN rev \cup {item.ver + 1} |->
                    IF v = item.ver + 1 THEN locales ELSE rev[v]]

WriteContent(q) ==
    /\ LockContentVersion(q)
    /\ req[q].kind \in {"update", "restore"}
    /\ Save("draft", req[q].locales)
    /\ UNCHANGED public

\* A published entry may be published again.
PublishContent(q) ==
    /\ LockContentVersion(q)
    /\ req[q].kind = "publish"
    /\ Save("published", item.locales)
    /\ public' = [ver |-> item.ver + 1, locales |-> item.locales]

\* So may an entry that is not public be withdrawn.
UnpublishContent(q) ==
    /\ LockContentVersion(q)
    /\ req[q].kind = "unpublish"
    /\ Save("unpublished", item.locales)
    /\ public' = NotPublic

CanDelete == item.status # "published" /\ public = NotPublic

DeleteContent(q) ==
    /\ ItemExists /\ item.ver = req[q].expected
    /\ req[q].kind = "delete" /\ CanDelete
    /\ item' = GoneItem("deleted")
    /\ rev' = [v \in {} |-> {}]
    /\ UNCHANGED public

\* The transaction of a request, or its refusal.
Write(q) ==
    /\ req[q].pc = "write"
    /\ req' = [req EXCEPT ![q] = NoRequest]
    /\ \/ WriteContent(q) \/ PublishContent(q) \/ UnpublishContent(q) \/ DeleteContent(q)
       \/ /\ \/ item.ver # req[q].expected
             \/ req[q].kind = "delete" /\ ~CanDelete
          /\ UNCHANGED <<item, rev, public>>

\* CreateContent; its repetition finds the entry by its key and changes nothing.
CreateContent ==
    /\ Deletable /\ item.status = "absent"
    /\ \E locales \in SUBSET Locales \ {{}} :
          /\ item' = [status |-> "draft", ver |-> 1, locales |-> locales]
          /\ rev' = [v \in {1} |-> locales]
    /\ UNCHANGED <<public, req>>

\* Pages are there from the start.
PlainInit ==
    /\ item = IF Deletable THEN GoneItem("absent")
              ELSE [status |-> "draft", ver |-> 1, locales |-> Locales]
    /\ rev = [v \in IF Deletable THEN {} ELSE {1} |-> Locales]
    /\ public = NotPublic
    /\ req = [q \in Requests |-> NoRequest]

PlainNext ==
    \/ CreateContent
    \/ \E q \in Requests : BeginRequest(q) \/ ReadContent(q) \/ Write(q)

PlainSpec == PlainInit /\ [][PlainNext]_plainVars

\* The values of all variables.
PlainTypeOK ==
    /\ item.status \in {"absent", "deleted", "draft", "published", "unpublished"}
    /\ item.ver \in 0 .. MaxItemVersion
    /\ item.locales \subseteq Locales
    /\ DOMAIN rev \subseteq ItemVersions
    /\ public.ver \in 0 .. MaxItemVersion
    /\ \A q \in Requests : req[q] = NoRequest \/ req[q].pc \in {"read", "write"}

\* What is public has all locales, and is the content of the revision saved
\* with it.
PublicContentIsComplete ==
    public # NotPublic =>
        /\ public.locales = Locales
        /\ public.ver \in DOMAIN rev /\ rev[public.ver] = public.locales

\* No request takes away a locale it was not told to.
LocalesAreKept ==
    \A l \in item.locales \ item'.locales :
        \/ item'.status = "deleted"
        \/ \E q \in Requests : req[q].pc = "write" /\ req'[q] = NoRequest /\ l \in req[q].deleted
=============================================================================
