------------------------------- MODULE Reviews -------------------------------
\* What the page of a product makes of its reviews: the number of reviews of each
\* rating and the bars that show them in percent (ProductReviews.tsx).  A score is
\* counted in tenths, as the table reviews.productreviews keeps it; a list of
\* reviews is the number of reviews of each score.
EXTENDS Integers, FiniteSets, Functions

Ratings == 1..5

Size(list) == SumFunction(list)

\* Math.round, then clamp to 1..5.
Rating(score) ==
  LET rounded == (score + 5) \div 10
  IN  IF rounded < 1 THEN 1 ELSE IF rounded > 5 THEN 5 ELSE rounded

Distribution(list) ==
  [r \in Ratings |-> SumFunctionOnSet(list, {s \in DOMAIN list : Rating(s) = r})]

\* The shares c of n, up to n = 100, whose double c / n * 100 falls just short of
\* the whole percent that it should be.
Short == {<<29, 50>>, <<29, 100>>, <<57, 100>>, <<58, 100>>}

\* The floor of a share, and what is cut off, in n-ths of a percent.
Floor(c, n) == (100 * c) \div n - (IF <<c, n>> \in Short THEN 1 ELSE 0)
Cut(c, n) == IF <<c, n>> \in Short THEN n ELSE (100 * c) % n

\* A mutant of Percents: every share is rounded for itself.
PercentsRounded(counts, n) == {[r \in Ratings |-> (200 * counts[r] + n) \div (2 * n)]}

\* Largest remainders: the shares are floored, and the percents that are missing go
\* to the ratings that were cut most.  The sort is stable; different shares that
\* are cut alike come in the order of their last binary digits, left open here.
Percents(counts, n) ==
  LET floors == [r \in Ratings |-> Floor(counts[r], n)]
      missing == 100 - SumFunction(floors)
      Ahead(r, s) == IF counts[r] = counts[s] THEN r < s
                     ELSE Cut(counts[r], n) >= Cut(counts[s], n)
  IN  {[r \in Ratings |-> floors[r] + (IF r \in raised THEN 1 ELSE 0)] :
         raised \in {R \in SUBSET Ratings :
                       /\ Cardinality(R) = missing
                       /\ \A r \in R, s \in Ratings \ R : Ahead(r, s)}}
==============================================================================
