----------------------- MODULE MCBulletinPublication -----------------------
(* Instances of BulletinPublication for TLC. *)
EXTENDS BulletinProperties, TLC

CONSTANTS i1, i2, l1, l2, a1, a2, w1, w2

\* One issue with one edition: one upload of its PDF, or two.
OneAssetOwner    == a1 :> <<i1, l1>>
OneEditionOwner  == (a1 :> <<i1, l1>>) @@ (a2 :> <<i1, l1>>)
\* One issue with two editions.
TwoLocaleOwner   == (a1 :> <<i1, l1>>) @@ (a2 :> <<i1, l2>>)
\* Two issues with one edition each.
TwoIssueOwner    == (a1 :> <<i1, l1>>) @@ (a2 :> <<i2, l1>>)

WorkerSymmetry == Permutations(Workers)
\* Issues are exchanged together with the assets they own.
IssueSymmetry ==
    {f \in Permutations(Issues \cup Assets) :
        \A a \in Assets : /\ f[a] \in Assets
                          /\ Owner[f[a]] = <<f[Owner[a][1]], Owner[a][2]>>}
=============================================================================
