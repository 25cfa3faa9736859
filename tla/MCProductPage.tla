---------------------------- MODULE MCProductPage ----------------------------
EXTENDS ProductPage

\* Ids that share their characters; 0 is the comma.
MCCatalog == {<<1>>, <<1, 2>>, <<2, 1>>}

\* Three and six reviews of the scores 0.4, 2.5 and 4.4 of 5, none, fifty reviews
\* with a share of 29, and seven that spread over all ratings.
MCLists ==
  {l \in [{4, 25, 44} -> 0..6] : Size(l) \in {0, 3, 6}}
    \cup {[s \in {14, 30} |-> IF s = 14 THEN 29 ELSE 21],
          [s \in {10, 20, 30, 40, 50} |-> IF s < 30 THEN 2 ELSE 1]}
==============================================================================
