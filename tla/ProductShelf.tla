----------------------------- MODULE ProductShelf -----------------------------
(***************************************************************************)
(* The customer's list of products (dashboard/products/page.tsx): filters, *)
(* a search box, a sort order and a pager over GET /products               *)
(* (products.service.ts, findAll).  Every change of a filter, of the order *)
(* or of the page sends a request from an effect; none is taken back, and  *)
(* the answer that comes last is shown.  The catalogue does not change.    *)
(***************************************************************************)
EXTENDS Integers, Sequences, FiniteSets, SequencesExt, Listing

CONSTANTS
    Catalogue,    \* active products, as numbers: the order of their creation
    Filtered,     \* those that are of the chosen category, or in stock
    Matching,     \* those whose name or description has the text of the search
    ItemsPerPage,
    MaxQueries    \* bound: requests

ASSUME ShelfAssumption ==
    /\ Catalogue \in SUBSET Nat /\ IsFiniteSet(Catalogue)
    /\ Filtered \subseteq Catalogue /\ Matching \subseteq Catalogue
    /\ ItemsPerPage \in Nat \ {0} /\ MaxQueries \in Nat \ {0}

VARIABLES
    \* the controls: the box of the search, the filters, the order and the page
    search, filter, sortBy, pageNumber,
    \* what the page shows
    products, totalCount, hasMore, loadingProducts, loadError,
    queries, results, queried,
    \* history: the query that is shown; since the first page was asked for, requests overlapped
    \* or asked for a later page with another text or order than the one shown; what "Next" led past
    shownFor, muddled, walked

controls == <<search, filter, sortBy, pageNumber>>
shelf == <<products, totalCount, hasMore, loadingProducts, loadError, shownFor, muddled, walked>>
shelf_vars == <<controls, shelf, queries, results, queried>>

\* Two filters that are set and cleared alike, the category and "In Stock Only", are one here.
Query(text, narrowed, order, p, n) ==
    [search |-> text, filter |-> narrowed, sortBy |-> order, page |-> p, n |-> n]
Orders == {"createdAt", "price"}

Matches(q) ==
    {x \in Catalogue : (q.filter => x \in Filtered) /\ (q.search => x \in Matching)}

ShelfTypeOK ==
    /\ {search, filter, hasMore, loadingProducts, loadError, muddled} \subseteq BOOLEAN
    /\ sortBy \in Orders /\ pageNumber \in Nat
    /\ products \in Seq(Catalogue) /\ Len(products) <= ItemsPerPage
    /\ totalCount \in 0 .. Cardinality(Catalogue)
    /\ queried \in 1 .. MaxQueries /\ shownFor.n <= queried
    /\ walked \subseteq Catalogue

FirstQuery == Query(FALSE, FALSE, "createdAt", 0, 1)

ShelfInit ==
    /\ search = FALSE /\ filter = FALSE /\ sortBy = "createdAt" /\ pageNumber = 0
    /\ products = <<>> /\ totalCount = 0 /\ hasMore = FALSE
    /\ loadingProducts = TRUE /\ loadError = FALSE
    /\ queries = {FirstQuery} /\ results = {} /\ queried = 1
    /\ shownFor = FirstQuery /\ muddled = FALSE /\ walked = {}

----------------------------------------------------------------------------
\* The newest first.  Products of one price come in any order, another one for each request.
Orderings(q) ==
    IF q.sortBy = "createdAt" THEN {Reverse(Ascending(Matches(q)))}
                              ELSE SetToSeqs(Matches(q))

HasMore(p, count) == (p + 1) * ItemsPerPage < count

PageOf(order, p) ==
    LET last == (p + 1) * ItemsPerPage
    IN  SubSeq(order, p * ItemsPerPage + 1, IF last < Len(order) THEN last ELSE Len(order))

FindAll ==
    /\ \E q \in queries :
          /\ queries' = queries \ {q}
          /\ \/ \E order \in Orderings(q) :
                   results' = results \cup {[q |-> q, ok |-> TRUE, data |-> PageOf(order, q.page),
                                             total |-> Len(order)]}
             \/ results' = results \cup {[q |-> q, ok |-> FALSE, data |-> <<>>, total |-> 0]}
    /\ UNCHANGED <<controls, shelf, queried>>

\* loadProducts: the request carries the controls as they are then, the page as it was rendered.
LoadProducts(asked) ==
    /\ queried + Cardinality(asked) <= MaxQueries
    /\ queried' = queried + Cardinality(asked)
    /\ queries' = queries \cup asked
    /\ loadingProducts' = TRUE /\ loadError' = FALSE
    /\ muddled' = IF queries \cup results # {} THEN TRUE
                  ELSE /\ \A q \in asked : q.page # 0
                       /\ muddled \/ \E q \in asked :
                              <<q.search, q.sortBy>> # <<shownFor.search, shownFor.sortBy>>
    /\ UNCHANGED <<products, totalCount, hasMore, results, shownFor>>

\* The effect runs when a filter, the order or the page has changed.
Effect(text, narrowed, order, p) ==
    IF <<narrowed, order, p>> = <<filter, sortBy, pageNumber>>
    THEN UNCHANGED <<queries, queried, results, products, totalCount, hasMore, loadingProducts,
                     loadError, shownFor, muddled>>
    ELSE LoadProducts({Query(text, narrowed, order, p, queried + 1)})

SetControls(text, narrowed, order, p) ==
    search' = text /\ filter' = narrowed /\ sortBy' = order /\ pageNumber' = p

\* The box sends nothing while it is typed in.
Type ==
    /\ search' = ~search
    /\ UNCHANGED <<filter, sortBy, pageNumber, shelf, queries, results, queried>>

\* One request for the page as it was, and one from the effect if it was not the first.
HandleSearch ==
    /\ LET old == Query(search, filter, sortBy, pageNumber, queried + 1)
       IN  LoadProducts(IF pageNumber = 0 THEN {old}
                        ELSE {old, Query(search, filter, sortBy, 0, queried + 2)})
    /\ pageNumber' = 0 /\ walked' = {}
    /\ UNCHANGED <<search, filter, sortBy>>

\* Mutant: the filter keeps the page.
ChangeFilterOnly ==
    /\ SetControls(search, ~filter, sortBy, pageNumber)
    /\ Effect(search, ~filter, sortBy, pageNumber) /\ walked' = {}

ChangeFilter ==
    /\ SetControls(search, ~filter, sortBy, 0)
    /\ Effect(search, ~filter, sortBy, 0) /\ walked' = {}

\* The order keeps the page.
ChangeSort ==
    /\ \E order \in Orders \ {sortBy} :
          /\ SetControls(search, filter, order, pageNumber)
          /\ Effect(search, filter, order, pageNumber)
    /\ walked' = {}

\* Nothing is asked if only the text was set.
ClearFilters ==
    /\ search \/ filter
    /\ SetControls(FALSE, FALSE, "createdAt", 0)
    /\ Effect(FALSE, FALSE, "createdAt", 0) /\ walked' = {}

PagerShown ==
    ~loadingProducts /\ ~loadError /\ products # <<>> /\ totalCount > ItemsPerPage

TurnTo(p) == SetControls(search, filter, sortBy, p) /\ Effect(search, filter, sortBy, p)

NextPage ==
    /\ PagerShown /\ hasMore /\ TurnTo(pageNumber + 1)
    /\ walked' = walked \cup ToSet(products)
PreviousPage ==
    /\ PagerShown /\ pageNumber > 0 /\ TurnTo(pageNumber - 1)
    /\ walked' = walked

TryAgain ==
    /\ ~loadingProducts /\ loadError
    /\ LoadProducts({Query(search, filter, sortBy, pageNumber, queried + 1)})
    /\ UNCHANGED <<controls, walked>>

ReceiveProducts ==
    /\ \E a \in results :
          /\ results' = results \ {a}
          /\ loadingProducts' = FALSE
          /\ IF a.ok THEN /\ products' = a.data /\ totalCount' = a.total
                          /\ hasMore' = HasMore(a.q.page, a.total)
                          /\ UNCHANGED loadError
                     ELSE loadError' = TRUE /\ UNCHANGED <<products, totalCount, hasMore>>
          /\ shownFor' = IF a.ok THEN a.q ELSE shownFor
          /\ muddled' = (muddled \/ \E q \in queries \cup {b.q : b \in results} : q.n < a.q.n)
    /\ UNCHANGED <<controls, queries, queried, walked>>

ShelfNext ==
    \/ FindAll \/ ReceiveProducts
    \/ Type \/ HandleSearch \/ ChangeFilter \/ ChangeSort \/ ClearFilters
    \/ NextPage \/ PreviousPage \/ TryAgain

ShelfSpec == ShelfInit /\ [][ShelfNext]_shelf_vars

----------------------------------------------------------------------------
\* The answer shown is that of the request sent last, and nothing went wrong on the way to it.
ShelfSettled == queries = {} /\ results = {} /\ ~loadError /\ ~muddled /\ shownFor.n = queried

\* "No products found" is true: no product is of the filter and has the text that was searched
\* for, whichever filters were changed, on whatever page.  It may be false, and nothing is said,
\* when the pager was used with a text or an order that is not the one shown, since typing alone
\* searches nothing and the pager takes the text along, or when requests overlapped (muddled).
EmptyMeansNone == ShelfSettled /\ products = <<>> => Matches(shownFor) = {}

\* A customer who turns the pages forward from the first, one answer at a time, without changing
\* the order to one with ties or the text between, has seen every product of the filter when there
\* is no next page.
WalkSeesAll ==
    ShelfSettled /\ ~hasMore /\ sortBy = "createdAt" /\ shownFor.search = search =>
            Matches(shownFor) \subseteq walked \cup ToSet(products)

\* The shelf hides nothing: neither an empty page nor the last one.
ShelfHidesNothing == EmptyMeansNone /\ WalkSeesAll

================================================================================
