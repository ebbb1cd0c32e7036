----------------------------- MODULE MCAccounts -----------------------------
(* Values of the constants of Accounts for TLC. *)
EXTENDS Accounts, TLC

CONSTANTS ann, bob, l1, l2, s1, d0, a1, a2, c1, y1, o1, p1, u1, u2

TwoPeople == {ann, bob}
\* No setting, or a site that not every user has access to.
SomeSettings == {NoSite, "w1"}
TwoListings == {l1, l2}
\* Two sites, as many as a call lists, and room for a third.
TheSites == (1 :> "x") @@ (2 :> "y") @@ (3 :> NoLabel)
OneSiteForm == {s1}
TwoAdds == {a1, a2}
OneDeviceForm == {c1}
OneDeviceSync == {y1}
OneDeviceRotate == {o1}
OneDeviceRepair == {p1}
TwoAttempts == {u1, u2}

\* Nothing tells the two users apart but what they do.
Persons == Permutations(TwoPeople)
=============================================================================
