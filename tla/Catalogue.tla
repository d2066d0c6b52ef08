----------------------------- MODULE Catalogue -----------------------------
(***************************************************************************)
(* The pages that list offers (HomePage, SearchBar, CatalogPage and         *)
(* ProfilePage over Backend::getListings and its relatives), their order    *)
(* (sortBy) and the prices they are ordered and shown by.                   *)
(*                                                                          *)
(* A page is filled once, with the rates known at that moment; the price    *)
(* shown beside an entry is a binding that follows the rates (Prices).      *)
(* How a scan reads the index and drops keys is modelled in Ipc and Shop:   *)
(* here every offer of the index is found.                                  *)
(***************************************************************************)
EXTENDS Prices, FiniteSets, Functions

CONSTANTS
    Offers,         \* the listings of the index, in its order: currency, price, date,
                    \* name, and whether it is nsfw, illicit, in the category searched
    RateOf,         \* the price of one Monero in each currency
    RecentLimit     \* the number of listings on the home page

Listing == [currency : Currencies \cup {"XMR"}, price : Nat, date : Int, name : Int,
            nsfw : BOOLEAN, illicit : BOOLEAN, category : BOOLEAN]

ASSUME CatalogueAssumption ==
    /\ Offers \in Seq(Listing)
    /\ RateOf \in [Currencies -> Nat \ {0}]
    /\ RecentLimit \in Nat

VARIABLES
    page,       \* the page on screen: which view, with what entries, in what order
    hideNsfw    \* the switch of the settings; the one for illicit goods is locked on

catalogueVars == <<page, hideNsfw, priceVars>>

Views == {"recent", "category", "term", "all", "profile"}
Orders == {"oldest", "recent", "name", "lowest", "highest"}
HideIllicit == TRUE

\* What each page passes for hideNsfw and hideIllicit.  SearchBar calls getListings
\* with a sorting (SortNone, 0) before the two switches, ProfilePage names a switch
\* that does not exist, and both get the default of the second argument or the
\* value of the first switch in its place: illicit goods are hidden by default.
Hides(view, switch) ==
    [nsfw |-> view \notin {"all", "profile"} /\ switch,
     illicit |-> IF view = "all" THEN switch ELSE HideIllicit]

hasNsfwTag(o) == o.nsfw
isIllicitItem(o) == o.illicit

\* The rows a view's statement selects.
Selected(view) ==
    IF view = "category" THEN {i \in DOMAIN Offers : Offers[i].category} ELSE DOMAIN Offers

\* The rate an offer is converted with, and the price in Monero at a rate.
RateFor(known, o) == IF o.currency = "XMR" THEN "XMR" ELSE known[o.currency]
Converted(o, r) ==
    IF r = "XMR" THEN o.price ELSE IF r = "zero" THEN 0 ELSE o.price \div RateOf[r]

Entry(known, o) == [offer |-> o, rate |-> RateFor(known, o)]
price_xmr(e) == Converted(e.offer, e.rate)

CurrenciesOf(rows) == {Offers[i].currency : i \in rows} \ {"XMR"}
ShownOn(model) == {model[i].offer.currency : i \in DOMAIN model} \ {"XMR"}

----------------------------------------------------------------------------

\* Faulty: prices of different currencies are compared.
BeforeByAmount(order, e, f) ==
    CASE order = "oldest" -> e.offer.date < f.offer.date
      [] order = "recent" -> e.offer.date > f.offer.date
      [] order = "name" -> e.offer.name < f.offer.name
      [] order = "lowest" -> e.offer.price < f.offer.price
      [] order = "highest" -> e.offer.price > f.offer.price

\* The comparisons of sortBy.
Before(order, e, f) ==
    CASE order = "oldest" -> e.offer.date < f.offer.date
      [] order = "recent" -> e.offer.date > f.offer.date
      [] order = "name" -> e.offer.name < f.offer.name
      [] order = "lowest" -> price_xmr(e) < price_xmr(f)
      [] order = "highest" -> price_xmr(e) > price_xmr(f)

\* std::sort is not stable: any arrangement without an inversion.
Sorted(model, order) ==
    {s \in {[i \in DOMAIN model |-> model[p[i]]] : p \in Bijection(DOMAIN model, DOMAIN model)} :
        \A i, j \in DOMAIN s : i < j => ~Before(order, s[j], s[i])}

\* The rows in the order of the index: there is one such sequence.
InIndexOrder(rows) ==
    {f \in [1..Cardinality(rows) -> rows] : \A i, j \in DOMAIN f : i < j => f[i] < f[j]}

\* What the switches leave.
Kept(view, switch) ==
    LET h == Hides(view, switch)
    IN  {i \in Selected(view) : /\ ~(h.nsfw /\ hasNsfwTag(Offers[i]))
                                /\ ~(h.illicit /\ isIllicitItem(Offers[i]))}

\* getListings, getListingsByCategory, getListingsBySearchTerm and getInventory: an
\* offer is converted first, and left out afterwards.
Listings(view, known, switch) ==
    {[k \in DOMAIN f |-> Entry(known, Offers[f[k]])] : f \in InIndexOrder(Kept(view, switch))}

\* A page, filled while the switch was as it is: its model and its bindings are new.
Shows(view, model, order, asked, switch) ==
    /\ page' = [view |-> view, model |-> model, order |-> order, switch |-> switch]
    /\ Evaluate(asked, ShownOn(model))

Open(view) ==
    /\ update.at # "aborted"
    /\ view # "recent"
    /\ LET asked == CurrenciesOf(Selected(view))
       IN  \E model \in Listings(view, With(rates, asked), hideNsfw) :
              Shows(view, model, "none", asked, hideNsfw)
    /\ UNCHANGED <<hideNsfw, update, timer>>

\* getListingsByMostRecent: what is hidden does not count towards the limit.
Recent(switch) ==
    LET asked == CurrenciesOf(DOMAIN Offers)
        first(s) == SubSeq(s, 1, IF Len(s) < RecentLimit THEN Len(s) ELSE RecentLimit)
    IN  \E model \in Listings("recent", With(rates, asked), switch) :
            \E s \in Sorted(model, "recent") : Shows("recent", first(s), "recent", asked, switch)

OpenHome ==
    /\ update.at # "aborted"
    /\ Recent(hideNsfw)
    /\ UNCHANGED <<hideNsfw, update, timer>>

\* The sort box of the catalogue page.
sortBy(order) ==
    /\ update.at # "aborted"
    /\ page.view \in {"category", "term", "all"}
    /\ \E s \in Sorted(page.model, order) :
          Shows(page.view, s, order, ShownOn(page.model), page.switch)
    /\ UNCHANGED <<hideNsfw, update, timer>>

\* The switch is toggled.  Only the home page's model is bound to it: any other page
\* keeps what it was filled with.
Toggle ==
    /\ update.at # "aborted"
    /\ hideNsfw' = ~hideNsfw
    /\ IF page.view = "recent" THEN Recent(~hideNsfw) ELSE UNCHANGED <<page, rates, display>>
    /\ UNCHANGED <<update, timer>>

CatalogueInit ==
    /\ PricesInit
    /\ page = [view |-> "none", model |-> <<>>, order |-> "none", switch |-> FALSE]
    /\ hideNsfw = FALSE

CatalogueNext ==
    \/ PricesStep /\ UNCHANGED <<page, hideNsfw>>
    \/ \E v \in Views : Open(v)
    \/ OpenHome
    \/ \E o \in Orders : sortBy(o)
    \/ Toggle

CatalogueSpec == CatalogueInit /\ [][CatalogueNext]_catalogueVars

----------------------------------------------------------------------------

CatalogueTypeOK ==
    /\ PricesTypeOK
    /\ page \in [view : Views \cup {"none"}, model : Seq([offer : Listing, rate : Rates \cup {"XMR"}]),
                 order : Orders \cup {"none"}, switch : BOOLEAN]
    /\ DOMAIN display = ShownOn(page.model)
    /\ hideNsfw \in BOOLEAN

\* Pages that pass both switches show nothing the switches hid when they were filled,
\* the home page nothing they hide now.
SwitchesHeeded ==
    page.view \in {"recent", "category", "term"} =>
        /\ page.view = "recent" => page.switch = hideNsfw
        /\ \A i \in DOMAIN page.model :
              ~(page.switch /\ page.model[i].offer.nsfw) /\ ~page.model[i].offer.illicit

\* Sorted from the lowest price, what is shown is in that order too, as long as every
\* rate on the page is still the one it was sorted by.
PricesShownInOrder ==
    LET current(e) == e.rate = "XMR" \/ display[e.offer.currency] = e.rate
        shown(e) == Converted(e.offer, IF e.rate = "XMR" THEN "XMR" ELSE display[e.offer.currency])
    IN  page.order = "lowest" /\ (\A i \in DOMAIN page.model : current(page.model[i])) =>
            \A i, j \in DOMAIN page.model :
                i < j => shown(page.model[i]) <= shown(page.model[j])

\* A page shows what its switches allow, in the order asked for, at current prices
\* (getListings and its relatives, sortBy, and the bindings on the rates).
PageIsRight == SwitchesHeeded /\ PricesShownInOrder /\ DisplayIsCurrent
=============================================================================
