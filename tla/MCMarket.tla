------------------------------ MODULE MCMarket ------------------------------
(***************************************************************************)
(* Model values and small sets for the runs of module Market.              *)
(***************************************************************************)
EXTENDS Market, TLC

CONSTANTS alice, bob

MCUsers == {alice, bob}
OneUser == {alice}

\* Users are only compared, so swapping them maps behaviours to behaviours.
\* Used in runs without liveness properties only.
UserSymmetry == Permutations(MCUsers)

\* Two prices give one worse and one better level; three give a middle one.
TwoPrices == {1, 2}
ThreePrices == {1, 2, 3}

\* Any int is accepted as a price: below zero the buyer is paid.
SignedPrices == {-1, 2}
=============================================================================
