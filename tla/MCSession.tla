----------------------------- MODULE MCSession -----------------------------
\* Two tabs of one browser, each loading the API gateway and the cart page; the
\* tabs are alike.
EXTENDS Session, TLC

Symmetry == Permutations(Tabs)
==========================================================================
