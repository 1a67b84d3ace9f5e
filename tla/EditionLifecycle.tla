-------------------------- MODULE EditionLifecycle --------------------------
(***************************************************************************)
(* What the publication of bulletins promises an editor and a reader, with *)
(* no outbox, no workers and no asset-api.  An edition (an issue in one    *)
(* locale) has a phase and an asset in the CMS and a set of assets readers *)
(* see.  At most one edition of an issue is on its way at a time; what     *)
(* readers see changes in two ways only: the asset whose publication was   *)
(* requested replaces it when that publication ends well, and it goes      *)
(* before an unpublication starts.  BulletinPublication implements this    *)
(* (see PublishesAsPromised), and NewsPublication with the entry as the    *)
(* only edition (see NewsPublishesAsPromised).                             *)
(***************************************************************************)
CONSTANTS Issues, Locales, Assets, None

VARIABLES
    edition,   \* [Issues -> [Locales -> [phase, asset]]]: the CMS rows
    shown      \* [Issues -> [Locales -> SUBSET Assets]]: what readers see

InFlight == {"publishing", "unpublishing"}

NoEdition == [phase |-> "absent", asset |-> None]

Init ==
    /\ edition = [i \in Issues |-> [l \in Locales |-> NoEdition]]
    /\ shown = [i \in Issues |-> [l \in Locales |-> {}]]

Moves(i, l, phase) == edition' = [edition EXCEPT ![i][l].phase = phase]

Shows(i, l, S) == shown' = [shown EXCEPT ![i][l] = S]

\* An edition an edit leaves different is a draft afterwards, whatever it was,
\* or is gone, which only one that nobody sees may be.
Edited(old, new, seen) ==
    \/ new = old
    \/ new.phase = "draft"
    \/ new = NoEdition /\ seen = {}

\* Every change editors save to an issue (upload, edit, restore, delete).
Edit(i) ==
    /\ \A l \in Locales : edition[i][l].phase \notin InFlight
    /\ \A j \in Issues, l \in Locales :
         IF j = i THEN Edited(edition[j][l], edition'[j][l], shown[j][l])
                  ELSE edition'[j][l] = edition[j][l]
    /\ UNCHANGED shown

RequestPublish(i, l) ==
    /\ \A x \in Locales : edition[i][x].phase \notin InFlight
    /\ edition[i][l].phase # "absent"
    /\ Moves(i, l, "publishing")
    /\ UNCHANGED shown

Publish(i, l) ==
    /\ edition[i][l].phase = "publishing"
    /\ Moves(i, l, "published")
    /\ Shows(i, l, {edition[i][l].asset})

\* A publication that fails leaves what was public before it.
GiveUpPublish(i, l) ==
    /\ edition[i][l].phase = "publishing"
    /\ Moves(i, l, "draft")
    /\ UNCHANGED shown

Withdraw(i, l) ==
    /\ \A x \in Locales : edition[i][x].phase \notin InFlight
    /\ edition[i][l].phase \in {"published", "draft", "unpublish_failed"}
    /\ Moves(i, l, "unpublishing")
    /\ Shows(i, l, {})

EndWithdraw(i, l) ==
    /\ edition[i][l].phase = "unpublishing"
    /\ \E phase \in {"unpublished", "unpublish_failed"} : Moves(i, l, phase)
    /\ UNCHANGED shown

Next ==
    \E i \in Issues :
        \/ Edit(i)
        \/ \E l \in Locales :
              \/ RequestPublish(i, l) \/ Publish(i, l) \/ GiveUpPublish(i, l)
              \/ Withdraw(i, l) \/ EndWithdraw(i, l)

Spec == Init /\ [][Next]_<<edition, shown>>
=============================================================================
