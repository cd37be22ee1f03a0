------------------------------ MODULE GrowthLog ------------------------------
(***************************************************************************)
(* What a growing branch promises the training hosts that follow it: the   *)
(* ready snapshot only ever grows, by exactly the next bounded range of    *)
(* train positions, one attempt per position, in order, up to a fixed      *)
(* capacity.  GrowingLance implements it; GrowingLocal follows it.         *)
(***************************************************************************)
EXTENDS GrowthRange

VARIABLE published    \* fragments of the ready snapshot

InOrder(manifest) == \A p \in DOMAIN manifest : manifest[p][1] = p

Extends(longer, shorter) ==
  \A p \in DOMAIN shorter : p \in DOMAIN longer /\ longer[p] = shorter[p]

\* The ready manifest m grows to n by the next range.
GrowsTo(m, n) ==
  \E h \in 0 .. Capacity :
    /\ DOMAIN m = 1 .. h
    /\ h < Capacity
    /\ n \in [1 .. NextHigh(h) -> Fragment]
    /\ InOrder(n)
    /\ Extends(n, m)

GrowthInit == published = <<>>
GrowthNext == GrowsTo(published, published')
GrowthSpec == GrowthInit /\ [][GrowthNext]_published
=============================================================================
