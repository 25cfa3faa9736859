---------------------------- MODULE MCStorefront ----------------------------
\* One tab, two currencies, two changes, and one failure or change elsewhere.  The
\* cart has an item at first, so that both changes may be orders, of that item, and
\* the addition whose write comes late is then the other tab's.
EXTENDS Storefront, TLC

Symmetry == Permutations(Currencies)
==========================================================================
