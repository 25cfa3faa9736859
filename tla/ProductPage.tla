----------------------------- MODULE ProductPage -----------------------------
\* The page of a product (pages/product/[productId]/index.tsx), which stays when
\* the shopper goes from one product to another: the questions to the AI assistant
\* (ProductAIAssistant.provider.tsx), the reviews and the bars of their ratings
\* (ProductReview.provider.tsx, ProductReviews.tsx), and the recommendations
\* (Ad.provider.tsx, pages/api/recommendations.ts, recommendation_server.py).
EXTENDS Reviews, Sequences, SequencesExt

CONSTANTS
  Catalog,      \* the catalog: ids, which are sequences of characters
  Comma,         \* the character between two ids
  MaxResponses,  \* how many products the recommendation service picks (5)
  MaxShown,      \* how many of them the route keeps (4)
  Lists,         \* the reviews that a product may have
  MaxQuestions   \* bound: questions to the assistant

ASSUME PageAssumption ==
  /\ MaxResponses \in Nat /\ MaxShown \in Nat /\ MaxQuestions \in Nat
  /\ \A id \in Catalog : id \in Seq(Range(id)) /\ Comma \notin Range(id)
  /\ \A list \in Lists : IsFiniteSet(DOMAIN list) /\ DOMAIN list \subseteq Int
  /\ \A list \in Lists : list \in [DOMAIN list -> Nat]
  /\ IsFiniteSet(Catalog)

VARIABLES
  product,    \* the product on the page
  inCart,       \* the products in the cart, as the tab shows it
  asked,      \* asked[q]: the product that question q was put about
  flight,     \* the questions under way
  tracked,    \* the question that the page follows, 0 when there is none
  answer,     \* what the page shows of it
  suggested,  \* the products recommended
  suggesting, \* whether recommendations are being loaded
  phase,      \* where the load of the reviews is
  reviews,    \* the reviews, once they are loaded
  bars        \* the percents shown for them

assistant == <<asked, flight, tracked, answer>>
suggestions == <<suggested, suggesting>>
ratings == <<phase, reviews, bars>>
pageVars == <<product, inCart, assistant, suggestions, ratings>>

Nobody == [s \in {} |-> 0]
Bare == [r \in Ratings |-> 0]

--------------------------------------------------------------------------
(* Recommendations *)

\* URLSearchParams turns the list of ids into one string.
Query(ids) ==
  FlattenSeq([i \in DOMAIN ids |-> IF i = 1 THEN ids[i] ELSE <<Comma>> \o ids[i]])

\* The route hands that string on as a list of strings: one for each character.
Characters(string) == [i \in DOMAIN string |-> <<string[i]>>]

\* str.split(',')
Split(string) ==
  LET cuts == {0, Len(string) + 1} \cup {i \in DOMAIN string : string[i] = Comma}
  IN  {SubSeq(string, p[1] + 1, p[2] - 1) :
         p \in {q \in cuts \X cuts : q[1] < q[2] /\ \A c \in cuts : c <= q[1] \/ c >= q[2]}}

\* A mutant of RequestedIds: the strings are taken for ids as they come.
RequestedIdsUnjoined(strings) == Range(strings)

\* get_product_list puts the ids together again.
RequestedIds(strings) == Split(FlattenSeq(strings))

\* A sample of the catalog but for the ids of the request, and the first of it.
\* With recommendationCacheFailure on, a miss of the cache fails, which leaves it
\* empty: a hit recommends nothing.
Recommended(ids) ==
  LET filtered == Catalog \ RequestedIds(Characters(Query(ids)))
      kept == Min({MaxResponses, MaxShown, Cardinality(filtered)})
  IN  {{}} \cup kSubset(kept, filtered)

\* The key of the query: the product on the page and those in the cart.
Key == <<product>> \o SetToSeq(inCart)

\* The query has another key or another observer: what was loaded for that key
\* before is shown, if anything was, and loaded again.
Rekeyed ==
  /\ suggested' \in {{}} \cup Recommended(Key')
  /\ suggesting' = TRUE

Suggested ==
  /\ suggesting
  /\ suggested' \in Recommended(Key)
  /\ suggesting' = FALSE
  /\ UNCHANGED <<product, inCart, assistant, ratings>>

\* A product or its price cannot be read, or the service fails: nothing changes.
SuggestFails ==
  /\ suggesting
  /\ suggesting' = FALSE
  /\ UNCHANGED <<product, inCart, assistant, suggested, ratings>>

--------------------------------------------------------------------------
(* The assistant *)

\* handleAskAI: the mutation starts; the one before it goes on, but the page no
\* longer follows it.
Put ==
  /\ Len(asked) < MaxQuestions
  /\ asked' = Append(asked, product)
  /\ flight' = flight \cup {Len(asked')}
  /\ tracked' = Len(asked')
  /\ answer' = "pending"
  /\ UNCHANGED <<product, inCart, suggestions, ratings>>

\* The button and the Enter key, while no answer is awaited.
Ask == answer # "pending" /\ Put

\* The three quick prompts, at any time.
QuickPrompt == Put

\* The answer to question q, or an error: the page shows it if it follows q.
Settled(q) ==
  /\ flight' = flight \ {q}
  /\ IF q = tracked THEN answer' \in {"success", "error"} ELSE UNCHANGED answer
  /\ UNCHANGED <<asked, tracked, product, inCart, suggestions, ratings>>

\* mutation.reset()
Reset == tracked' = 0 /\ answer' = "none"

--------------------------------------------------------------------------
(* Reviews *)

ReviewsLoad ==
  /\ phase' = "loading" /\ reviews' = Nobody /\ bars' = Bare

ReviewsLoaded ==
  /\ phase = "loading"
  /\ phase' = "loaded"
  /\ \E list \in Lists :
       /\ reviews' = list
       /\ bars' \in IF Size(list) = 0 THEN {Bare} ELSE Percents(Distribution(list), Size(list))
  /\ UNCHANGED <<product, inCart, assistant, suggestions>>

ReviewsFail ==
  /\ phase = "loading"
  /\ phase' = "failed"
  /\ UNCHANGED <<product, inCart, assistant, suggestions, reviews, bars>>

\* The network is back.
Reconnect ==
  /\ phase # "loading"
  /\ ReviewsLoad
  /\ suggesting' = TRUE
  /\ UNCHANGED <<product, inCart, assistant, suggested>>

--------------------------------------------------------------------------

PageInit ==
  /\ product \in Catalog
  /\ inCart = {}
  /\ asked = <<>> /\ flight = {} /\ tracked = 0 /\ answer = "none"
  /\ suggested = {} /\ suggesting = TRUE
  /\ phase = "loading" /\ reviews = Nobody /\ bars = Bare

\* A mutant of Navigate: the page goes on following the question.
NavigateFollowing ==
  /\ product' \in Catalog
  /\ UNCHANGED <<inCart, assistant>>
  /\ Rekeyed
  /\ ReviewsLoad

\* To another product, or away and back to the same one: the assistant is reset,
\* the reviews and the recommendations have other keys.
Navigate ==
  /\ product' \in Catalog
  /\ Reset
  /\ UNCHANGED <<inCart, asked, flight>>
  /\ Rekeyed
  /\ ReviewsLoad

\* The tab has loaded the cart (module Storefront).
CartLoaded ==
  /\ inCart' \in SUBSET Catalog \ {inCart}
  /\ UNCHANGED <<product, assistant, ratings>>
  /\ Rekeyed

PageNext ==
  \/ Navigate \/ CartLoaded
  \/ Ask \/ QuickPrompt \/ (\E q \in flight : Settled(q))
  \/ Suggested \/ SuggestFails
  \/ ReviewsLoaded \/ ReviewsFail \/ Reconnect

PageSpec == PageInit /\ [][PageNext]_pageVars

--------------------------------------------------------------------------

\* An answer, an error or the wait for one, shown on the page, is for the last
\* question and for the product on the page, however many questions are under way
\* and in whatever order they are answered; and it waits for no question that is
\* answered already.
AnswersThePage ==
  /\ answer # "none" => tracked = Len(asked) /\ asked[tracked] = product
  /\ answer = "pending" => tracked \in flight

\* No product is recommended on its own page or while it is in the cart, though
\* the ids reach the service in single characters.
SuggestsOthers == suggested \cap ({product} \cup inCart) = {}

\* The percents shown add up to 100, each is less than one from the share it
\* stands for, and more reviews never get a shorter bar.
PercentsAddUp ==
  LET n == Size(reviews)
      counts == Distribution(reviews)
  IN  n > 0 =>
        /\ SumFunction(bars) = 100
        /\ \A r \in Ratings : 100 * counts[r] - n < n * bars[r] /\ n * bars[r] < 100 * counts[r] + n
        /\ \A r, s \in Ratings : counts[r] > counts[s] => bars[r] >= bars[s]
==============================================================================
