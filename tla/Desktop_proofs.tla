--------------------------- MODULE Desktop_proofs ---------------------------
(***************************************************************************)
(* Proofs about the machines of MCDesktop: the pages that list offers and   *)
(* their prices (Prices, Catalogue), the messages page (Messages), the      *)
(* wallet and its payments (Wallet), and the dialog for products            *)
(* (ListingForm), each for any values of its constants.                     *)
(***************************************************************************)
EXTENDS MCDesktop, SequenceTheorems, FiniteSetTheorems, WellFoundedInduction, TLAPS

Entries == [offer : Listing, rate : Rates \cup {"XMR"}]

----------------------------------------------------------------------------
(* Rates.                                                                   *)

\* The sources together give the price in the currency asked, or in dollars, or zero.
LEMMA AnswersAre ==
    ASSUME NEW c \in Currencies
    PROVE  FirstAnswers(SOURCES_TO_USE(c)) \subseteq Rates \cup {"none", "abort"}
<1> DEFINE s == SOURCES_TO_USE(c)
           all == {"none", "zero", c, "USD", "abort"}
<1>1. /\ CoinMarketCap(c) \subseteq all /\ CoinGecko(c) \subseteq all
      /\ CryptoWatch(c) \subseteq all /\ CoinTelegraph(c) \subseteq all
      /\ CryptoRank(c) \subseteq all /\ CoinCodex(c) \subseteq all
      /\ Fawazahmed0(c) \subseteq all /\ Kraken(c) \subseteq all
  BY DEF CoinMarketCap, CoinGecko, CryptoWatch, CoinTelegraph, CryptoRank, CoinCodex,
         Fawazahmed0, Kraken
<1>2. DOMAIN s = 1..8
  BY DEF SOURCES_TO_USE
<1>3. /\ s[1] \subseteq all /\ s[2] \subseteq all /\ s[3] \subseteq all /\ s[4] \subseteq all
      /\ s[5] \subseteq all /\ s[6] \subseteq all /\ s[7] \subseteq all /\ s[8] \subseteq all
  BY <1>1 DEF SOURCES_TO_USE
<1>4. \A i \in DOMAIN s : s[i] \subseteq all
  BY <1>2, <1>3
<1>5. FirstAnswers(s) \subseteq UNION {s[i] : i \in DOMAIN s}
  BY DEF FirstAnswers
<1>6. UNION {s[i] : i \in DOMAIN s} \subseteq all
  BY <1>4
<1>7. all \subseteq Rates \cup {"none", "abort"}
  BY PricesAssumption DEF Rates
<1> QED BY <1>5, <1>6, <1>7

\* Known is the set of the functions from currencies to rates.
LEMMA KnownIs ==
    ASSUME NEW S \in SUBSET Currencies, NEW f \in [S -> Rates]
    PROVE  f \in Known
  BY DEF Known

LEMMA OfKnown ==
    ASSUME NEW f \in Known
    PROVE  /\ DOMAIN f \in SUBSET Currencies
           /\ f \in [DOMAIN f -> Rates]
           /\ \A c \in DOMAIN f : f[c] \in Rates
<1>1. PICK S \in SUBSET Currencies : f \in [S -> Rates]
  BY DEF Known
<1> QED BY <1>1

\* Entering pairs adds zeros and changes nothing.
LEMMA WithIs ==
    ASSUME NEW f \in Known, NEW S \in SUBSET Currencies
    PROVE  /\ With(f, S) \in Known
           /\ DOMAIN With(f, S) = DOMAIN f \cup S
           /\ \A c \in DOMAIN f : With(f, S)[c] = f[c]
           /\ \A c \in S \ DOMAIN f : With(f, S)[c] = "zero"
<1>1. DOMAIN f \in SUBSET Currencies /\ \A c \in DOMAIN f : f[c] \in Rates
  BY OfKnown
<1>2. With(f, S) \in [DOMAIN f \cup S -> Rates]
  BY <1>1 DEF With, Rates
<1>3. With(f, S) \in Known
  BY <1>1, <1>2, KnownIs
<1> QED BY <1>1, <1>3 DEF With

\* What asking for the rates of pairs, for bindings on some of them, does.
LEMMA EvaluateIs ==
    ASSUME NEW asked \in SUBSET Currencies, NEW shown \in SUBSET Currencies,
           shown \subseteq asked \cup DOMAIN rates,
           rates \in Known,
           Evaluate(asked, shown)
    PROVE  /\ rates' \in Known /\ display' \in Known
           /\ DOMAIN rates' = DOMAIN rates \cup asked
           /\ \A c \in DOMAIN rates : rates'[c] = rates[c]
           /\ \A c \in asked \ DOMAIN rates : rates'[c] = "zero"
           /\ DOMAIN display' = shown
           /\ \A c \in shown : display'[c] = rates'[c]
<1> DEFINE w == With(rates, asked)
<1>1. /\ w \in Known
      /\ DOMAIN w = DOMAIN rates \cup asked
      /\ \A c \in DOMAIN rates : w[c] = rates[c]
      /\ \A c \in asked \ DOMAIN rates : w[c] = "zero"
  BY WithIs
<1>2. rates' = w /\ display' = [c \in shown |-> w[c]]
  BY DEF Evaluate
<1>3. \A c \in shown : w[c] \in Rates
  BY <1>1, OfKnown
<1>4. display' \in [shown -> Rates]
  BY <1>2, <1>3
<1> QED BY <1>1, <1>2, <1>4, KnownIs

\* The rates, and the rates on screen.
PricesInv == PricesTypeOK /\ DisplayIsCurrent /\ RatesAreAskedAgain

LEMMA PricesInitially == PricesInit => PricesInv
<1> SUFFICES ASSUME PricesInit PROVE PricesInv
  OBVIOUS
<1>1. Desired \in SUBSET Currencies /\ Rates = Currencies \cup {"zero"}
  BY DEF Desired, Rates
<1>2. rates \in Known /\ DOMAIN rates = Desired /\ \A c \in Desired : rates[c] = "zero"
  <2>1. rates = [c \in Desired |-> "zero"]
    BY DEF PricesInit
  <2>2. rates \in [Desired -> Rates]
    BY <1>1, <2>1
  <2> QED BY <1>1, <2>1, <2>2, KnownIs
<1>3. Nothing \in Known /\ DOMAIN Nothing = {}
  <2>1. Nothing \in [{} -> Rates]
    BY DEF Nothing
  <2> QED BY <2>1, KnownIs
<1>4. PricesTypeOK
  BY <1>1, <1>2, <1>3 DEF PricesInit, PricesTypeOK
<1> QED BY <1>2, <1>3, <1>4 DEF PricesInit, PricesInv, DisplayIsCurrent, RatesAreAskedAgain

LEMMA PricesSteps ==
    ASSUME PricesInv, PricesStep
    PROVE  PricesInv' /\ DOMAIN display' = DOMAIN display
<1> USE DEF PricesInv, PricesTypeOK
<1>0. update.found \in Known /\ update.keys \in SUBSET Currencies
      /\ update.left \in SUBSET Currencies
  OBVIOUS
<1>1. ASSUME NEW c \in Currencies, Ask(c) PROVE PricesInv' /\ display' = display
  <2>1. PICK a \in FirstAnswers(SOURCES_TO_USE(c)) :
          IF a = "abort"
          THEN update' = [update EXCEPT !.at = "aborted"]
          ELSE update' = [update EXCEPT
                  !.left = @ \ {c},
                  !.found = IF a = "none" THEN @
                            ELSE [x \in DOMAIN @ \cup {c} |-> IF x = c THEN a ELSE @[x]]]
    BY <1>1 DEF Ask
  <2>2. a \in Rates \cup {"none", "abort"}
    BY AnswersAre
  <2>3. UNCHANGED <<rates, timer, display>> /\ update.at = "asking" /\ c \in update.left
    BY <1>1 DEF Ask
  <2>4. CASE a = "abort"
    BY <2>1, <2>3, <2>4 DEF DisplayIsCurrent, RatesAreAskedAgain
  <2>5. CASE a # "abort"
    <3> DEFINE g == IF a = "none" THEN update.found
                    ELSE [x \in DOMAIN update.found \cup {c} |->
                             IF x = c THEN a ELSE update.found[x]]
    <3>1. DOMAIN update.found \in SUBSET Currencies
          /\ \A x \in DOMAIN update.found : update.found[x] \in Rates
      BY <1>0, OfKnown
    <3>2. g \in Known /\ DOMAIN g \subseteq DOMAIN update.found \cup {c}
      <4>1. CASE a = "none"
        BY <4>1
      <4>2. CASE a # "none"
        <5>1. g \in [DOMAIN update.found \cup {c} -> Rates]
          BY <2>2, <2>5, <3>1, <4>2
        <5> QED BY <3>1, <5>1, KnownIs
      <4> QED BY <4>1, <4>2
    <3>3. update' = [update EXCEPT !.left = update.left \ {c}, !.found = g]
      BY <2>1, <2>5
    <3>4. /\ update'.at = update.at /\ update'.keys = update.keys
          /\ update'.left = update.left \ {c} /\ update'.found = g
          /\ update' \in [at : {"idle", "asking", "finished", "aborted"},
                         keys : SUBSET Currencies, left : SUBSET Currencies, found : Known]
      BY <3>2, <3>3
    <3>5. PricesTypeOK'
      BY <2>3, <3>2, <3>4
    <3>6. DisplayIsCurrent' /\ RatesAreAskedAgain'
      BY <2>3, <3>4 DEF DisplayIsCurrent, RatesAreAskedAgain
    <3> QED BY <2>3, <3>5, <3>6
  <2> QED BY <2>3, <2>4, <2>5
<1>2. CASE WorkerReturns
  BY <1>2 DEF WorkerReturns, DisplayIsCurrent, RatesAreAskedAgain
<1>3. CASE Finished
  <2> DEFINE w == With(update.found, DOMAIN display)
  <2>1. DOMAIN display \in SUBSET Currencies
    BY OfKnown
  <2>6. update.found \in Known
    BY <1>0
  <2>7. w \in Known
    BY <2>1, <2>6, WithIs
  <2>8. DOMAIN w = DOMAIN update.found \cup DOMAIN display
    BY <2>1, <2>6, WithIs
  <2>2. w \in Known /\ DOMAIN display \subseteq DOMAIN w
    BY <2>7, <2>8
  <2>3. rates' = w /\ display' = [c \in DOMAIN display |-> w[c]] /\ timer' = TRUE
        /\ update' = [update EXCEPT !.at = "idle"]
    BY <1>3 DEF Finished
  <2>4. display' \in [DOMAIN display -> Rates]
    BY <2>2, <2>3, OfKnown
  <2>5. display' \in Known
    BY <2>1, <2>4, KnownIs
  <2> QED BY <2>2, <2>3, <2>5 DEF DisplayIsCurrent, RatesAreAskedAgain
<1>4. CASE StartUpdate
  <2>1. Nothing \in Known /\ DOMAIN Nothing = {}
    <3>1. Nothing \in [{} -> Rates]
      BY DEF Nothing
    <3> QED BY <3>1, KnownIs
  <2>2. DOMAIN rates \in SUBSET Currencies
    BY OfKnown
  <2> QED BY <1>4, <2>1, <2>2 DEF StartUpdate, DisplayIsCurrent, RatesAreAskedAgain
<1> QED BY <1>1, <1>2, <1>3, <1>4 DEF PricesStep

----------------------------------------------------------------------------
(* Pages.                                                                   *)

LEMMA OfferIs ==
    ASSUME NEW i \in DOMAIN Offers
    PROVE  /\ Offers[i] \in Listing
           /\ Offers[i].currency \in Currencies \cup {"XMR"}
<1>1. Offers \in Seq(Listing)
  BY CatalogueAssumption
<1>2. Offers[i] \in Listing
  BY <1>1, ElementOfSeq, LenProperties
<1> QED BY <1>2 DEF Listing

\* The price of an entry is a number.
LEMMA PriceIs ==
    ASSUME NEW e \in Entries
    PROVE  price_xmr(e) \in Int
<1>1. /\ e.offer \in Listing /\ e.offer.price \in Nat /\ e.rate \in Rates \cup {"XMR"}
  BY DEF Entries, Listing
<1>2. CASE e.rate \in {"XMR", "zero"}
  BY <1>1, <1>2 DEF price_xmr, Converted
<1>3. CASE e.rate \notin {"XMR", "zero"}
  <2>1. e.rate \in Currencies
    BY <1>1, <1>3 DEF Rates
  <2>2. RateOf[e.rate] \in Nat \ {0}
    BY <2>1, CatalogueAssumption
  <2>3. e.offer.price \div RateOf[e.rate] \in Int
    BY <1>1, <2>2
  <2> QED BY <1>3, <2>3 DEF price_xmr, Converted
<1> QED BY <1>2, <1>3

LEMMA ShownIs ==
    ASSUME NEW m \in Seq(Entries)
    PROVE  /\ ShownOn(m) \in SUBSET Currencies
           /\ \A i \in DOMAIN m : /\ m[i] \in Entries
                                /\ m[i].offer.currency # "XMR"
                                      => m[i].offer.currency \in ShownOn(m)
<1>1. \A i \in DOMAIN m : m[i] \in Entries
  BY ElementOfSeq, LenProperties
<1>2. \A i \in DOMAIN m : m[i].offer.currency \in Currencies \cup {"XMR"}
  BY <1>1 DEF Entries, Listing
<1> QED BY <1>1, <1>2 DEF ShownOn

LEMMA AskedIs ==
    ASSUME NEW rows \in SUBSET DOMAIN Offers
    PROVE  CurrenciesOf(rows) \in SUBSET Currencies
  BY OfferIs DEF CurrenciesOf

LEMMA RowsAreCounted ==
    ASSUME NEW view, NEW switch
    PROVE  Cardinality(Kept(view, switch)) \in Nat
<1>1. Offers \in Seq(Listing) /\ DOMAIN Offers = 1..Len(Offers) /\ Len(Offers) \in Nat
  BY CatalogueAssumption, LenProperties
<1>2. IsFiniteSet(1..Len(Offers))
  BY <1>1, FS_Interval
<1>3. Kept(view, switch) \subseteq 1..Len(Offers)
  BY <1>1 DEF Kept, Selected
<1> QED BY <1>2, <1>3, FS_Subset, FS_CardinalityType

\* Every entry of a page is that of a row the view's statement selects and its switches
\* leave, at the rate known.
LEMMA ListingsAre ==
    ASSUME NEW view \in Views, NEW known \in Known, NEW switch \in BOOLEAN,
           CurrenciesOf(Selected(view)) \subseteq DOMAIN known,
           NEW m \in Listings(view, known, switch)
    PROVE  /\ m \in Seq(Entries)
           /\ ShownOn(m) \subseteq CurrenciesOf(Selected(view))
           /\ \A k \in DOMAIN m : \E i \in Kept(view, switch) : m[k] = Entry(known, Offers[i])
<1> DEFINE rows == Kept(view, switch)
<1>1. PICK f \in InIndexOrder(rows) : m = [k \in DOMAIN f |-> Entry(known, Offers[f[k]])]
  BY DEF Listings
<1>2. f \in [1..Cardinality(rows) -> rows]
  BY <1>1 DEF InIndexOrder
<1>3. rows \subseteq Selected(view) /\ Selected(view) \subseteq DOMAIN Offers
  BY DEF Kept, Selected
<1>4. ASSUME NEW i \in Selected(view)
      PROVE  /\ Entry(known, Offers[i]) \in Entries
             /\ Entry(known, Offers[i]).offer = Offers[i]
  <2>1. Offers[i] \in Listing /\ Offers[i].currency \in Currencies \cup {"XMR"}
    BY <1>3, OfferIs
  <2>2. RateFor(known, Offers[i]) \in Rates \cup {"XMR"}
    <3>1. CASE Offers[i].currency = "XMR"
      BY <3>1 DEF RateFor
    <3>2. CASE Offers[i].currency # "XMR"
      <4>1. Offers[i].currency \in DOMAIN known
        BY <3>2 DEF CurrenciesOf
      <4>2. known[Offers[i].currency] \in Rates
        BY <4>1, OfKnown
      <4> QED BY <3>2, <4>2 DEF RateFor
    <3> QED BY <3>1, <3>2
  <2> QED BY <2>1, <2>2 DEF Entry, Entries
<1>5. DOMAIN m = 1..Cardinality(rows) /\ \A k \in DOMAIN m : f[k] \in rows
  BY <1>1, <1>2
<1>6. \A k \in DOMAIN m : m[k] = Entry(known, Offers[f[k]]) /\ m[k] \in Entries
  BY <1>1, <1>3, <1>4, <1>5
<1>7. m \in Seq(Entries)
  <2>1. CASE Cardinality(rows) \in Nat
    BY <1>1, <1>5, <1>6, <2>1, SeqDef
  <2>2. CASE Cardinality(rows) \notin Nat
    BY <2>2, RowsAreCounted
  <2> QED BY <2>1, <2>2
<1>8. ASSUME NEW c \in ShownOn(m) PROVE c \in CurrenciesOf(Selected(view))
  <2>1. PICK k \in DOMAIN m : c = m[k].offer.currency /\ c # "XMR"
    BY <1>8 DEF ShownOn
  <2>2. m[k].offer = Offers[f[k]] /\ f[k] \in Selected(view)
    BY <1>3, <1>4, <1>5, <1>6
  <2> QED BY <2>1, <2>2 DEF CurrenciesOf
<1> QED BY <1>5, <1>6, <1>7, <1>8

\* Sorting rearranges the entries, and leaves no inversion.
LEMMA SortedIs ==
    ASSUME NEW m \in Seq(Entries), NEW order \in Orders, NEW s \in Sorted(m, order)
    PROVE  /\ s \in Seq(Entries)
           /\ ShownOn(s) = ShownOn(m)
           /\ \A i \in DOMAIN s : \E j \in DOMAIN m : s[i] = m[j]
           /\ \A i, j \in DOMAIN s : i < j => ~Before(order, s[j], s[i])
<1>1. PICK p \in Bijection(DOMAIN m, DOMAIN m) : s = [i \in DOMAIN m |-> m[p[i]]]
  BY DEF Sorted
<1>2. p \in [DOMAIN m -> DOMAIN m] /\ \A j \in DOMAIN m : \E i \in DOMAIN m : p[i] = j
  BY <1>1 DEF Bijection, Injection, Surjection
<1>3. DOMAIN s = DOMAIN m /\ \A i \in DOMAIN s : s[i] = m[p[i]] /\ p[i] \in DOMAIN m
  BY <1>1, <1>2
<1>4. DOMAIN m = 1..Len(m) /\ Len(m) \in Nat
  BY LenProperties
<1>5. \A i \in DOMAIN s : s[i] \in Entries
  BY <1>3, ShownIs
<1>6. s \in Seq(Entries)
  BY <1>1, <1>3, <1>4, <1>5, SeqDef
<1>7. \A j \in DOMAIN m : \E i \in DOMAIN s : s[i] = m[j]
  BY <1>2, <1>3
<1>8. ShownOn(s) = ShownOn(m)
  <2> DEFINE of(i) == s[i].offer.currency
             in(j) == m[j].offer.currency
  <2>1. \A i \in DOMAIN s : \E j \in DOMAIN m : of(i) = in(j)
    BY <1>3
  <2>2. \A j \in DOMAIN m : \E i \in DOMAIN s : of(i) = in(j)
    BY <1>7
  <2> HIDE DEF of, in
  <2>3. {of(i) : i \in DOMAIN s} = {in(j) : j \in DOMAIN m}
    BY <2>1, <2>2
  <2> QED BY <2>3 DEF ShownOn, of, in
<1>9. \A i, j \in DOMAIN s : i < j => ~Before(order, s[j], s[i])
  BY DEF Sorted
<1> QED BY <1>3, <1>6, <1>8, <1>9

\* The first entries of a page.
LEMMA FirstOf ==
    ASSUME NEW s \in Seq(Entries), NEW n \in 0..Len(s)
    PROVE  /\ SubSeq(s, 1, n) \in Seq(Entries)
           /\ ShownOn(SubSeq(s, 1, n)) \subseteq ShownOn(s)
           /\ \A i \in DOMAIN SubSeq(s, 1, n) : i \in DOMAIN s /\ SubSeq(s, 1, n)[i] = s[i]
<1>1. DOMAIN s = 1..Len(s) /\ Len(s) \in Nat /\ n \in Nat /\ n <= Len(s)
  BY LenProperties
<1>2. \A i \in 1..n : s[i] \in Entries
  BY <1>1, ElementOfSeq
<1>3. /\ SubSeq(s, 1, n) \in Seq(Entries)
      /\ Len(SubSeq(s, 1, n)) = IF 1 <= n THEN n - 1 + 1 ELSE 0
      /\ \A i \in 1..(n - 1 + 1) : SubSeq(s, 1, n)[i] = s[1 + i - 1]
  BY <1>1, <1>2, SubSeqProperties
<1>4. DOMAIN SubSeq(s, 1, n) = 1..n
  BY <1>1, <1>3, LenProperties
<1>5. \A i \in DOMAIN SubSeq(s, 1, n) : i \in DOMAIN s /\ SubSeq(s, 1, n)[i] = s[i]
  BY <1>1, <1>3, <1>4
<1> QED BY <1>3, <1>5 DEF ShownOn

\* The invariant of the pages: sorted from the lowest price, a page is in the order of
\* the prices its entries were converted to when it was filled.
InOrder ==
    page.order = "lowest" =>
        \A i, j \in DOMAIN page.model :
            i < j => price_xmr(page.model[i]) <= price_xmr(page.model[j])

PageInv == PricesInv /\ CatalogueTypeOK /\ SwitchesHeeded /\ InOrder

\* What both switches leave.
LEMMA KeptIs ==
    ASSUME NEW view \in {"recent", "category", "term"}, NEW switch \in BOOLEAN,
           NEW i \in Kept(view, switch)
    PROVE  i \in DOMAIN Offers /\ ~(switch /\ Offers[i].nsfw) /\ ~Offers[i].illicit
  BY DEF Kept, Selected, Hides, HideIllicit, hasNsfwTag, isIllicitItem

Heeds(m, switch) ==
    \A i \in DOMAIN m : ~(switch /\ m[i].offer.nsfw) /\ ~m[i].offer.illicit

\* A page filled from listings that heed the switches.
LEMMA ShowsIs ==
    ASSUME PageInv, NEW view \in Views, NEW m \in Seq(Entries),
           NEW order \in Orders \cup {"none"}, NEW asked \in SUBSET Currencies,
           NEW switch \in BOOLEAN,
           ShownOn(m) \subseteq asked,
           Shows(view, m, order, asked, switch),
           UNCHANGED <<update, timer>>,
           hideNsfw' \in BOOLEAN,
           view = "recent" => switch = hideNsfw',
           view \in {"recent", "category", "term"} => Heeds(m, switch),
           order = "lowest" =>
              \A i, j \in DOMAIN m : i < j => price_xmr(m[i]) <= price_xmr(m[j])
    PROVE  PageInv'
<1>1. page' = [view |-> view, model |-> m, order |-> order, switch |-> switch]
      /\ Evaluate(asked, ShownOn(m))
  BY DEF Shows
<1>2. rates \in Known /\ PricesTypeOK
  BY DEF PageInv, PricesInv, PricesTypeOK
<1>3. ShownOn(m) \in SUBSET Currencies
  BY ShownIs
<1>4. /\ rates' \in Known /\ display' \in Known
      /\ DOMAIN rates' = DOMAIN rates \cup asked
      /\ \A c \in DOMAIN rates : rates'[c] = rates[c]
      /\ \A c \in asked \ DOMAIN rates : rates'[c] = "zero"
      /\ DOMAIN display' = ShownOn(m)
      /\ \A c \in ShownOn(m) : display'[c] = rates'[c]
  BY <1>1, <1>2, <1>3, EvaluateIs
<1>5. PricesInv'
  <2>1. PricesTypeOK'
    BY <1>2, <1>4 DEF PricesTypeOK
  <2>2. DisplayIsCurrent'
    BY <1>4 DEF DisplayIsCurrent
  <2>3. RatesAreAskedAgain'
    BY <1>4 DEF RatesAreAskedAgain, PageInv, PricesInv
  <2> QED BY <2>1, <2>2, <2>3 DEF PricesInv
<1>6. CatalogueTypeOK'
  BY <1>1, <1>4, <1>5 DEF CatalogueTypeOK, PricesInv, Entries
<1>7. SwitchesHeeded'
  BY <1>1 DEF SwitchesHeeded, Heeds
<1>8. InOrder'
  BY <1>1 DEF InOrder, price_xmr
<1> QED BY <1>5, <1>6, <1>7, <1>8 DEF PageInv

\* The listings of a page that passes both switches heed them.
LEMMA ListingsHeed ==
    ASSUME NEW view \in {"recent", "category", "term"}, NEW known, NEW switch \in BOOLEAN,
           NEW m,
           \A k \in DOMAIN m : \E i \in Kept(view, switch) : m[k] = Entry(known, Offers[i])
    PROVE  Heeds(m, switch)
<1> SUFFICES ASSUME NEW k \in DOMAIN m
             PROVE  ~(switch /\ m[k].offer.nsfw) /\ ~m[k].offer.illicit
  BY DEF Heeds
<1>1. PICK i \in Kept(view, switch) : m[k] = Entry(known, Offers[i])
  OBVIOUS
<1>2. m[k].offer = Offers[i]
  BY <1>1 DEF Entry
<1> QED BY <1>2, KeptIs

\* The rates known when a page has asked for those of the rows it reads.
LEMMA AskedFor ==
    ASSUME PageInv, NEW rows \in SUBSET DOMAIN Offers
    PROVE  /\ CurrenciesOf(rows) \in SUBSET Currencies
           /\ With(rates, CurrenciesOf(rows)) \in Known
           /\ CurrenciesOf(rows) \subseteq DOMAIN With(rates, CurrenciesOf(rows))
<1>1. rates \in Known /\ CurrenciesOf(rows) \in SUBSET Currencies
  BY AskedIs DEF PageInv, PricesInv, PricesTypeOK
<1>2. /\ With(rates, CurrenciesOf(rows)) \in Known
      /\ DOMAIN With(rates, CurrenciesOf(rows)) = DOMAIN rates \cup CurrenciesOf(rows)
  BY <1>1, WithIs
<1> QED BY <1>1, <1>2

LEMMA OpenSteps ==
    ASSUME PageInv, NEW view \in Views, Open(view)
    PROVE  PageInv'
<1> DEFINE asked == CurrenciesOf(Selected(view))
<1>1. hideNsfw \in BOOLEAN /\ view # "recent" /\ UNCHANGED <<hideNsfw, update, timer>>
  BY DEF PageInv, CatalogueTypeOK, Open
<1>2. Selected(view) \in SUBSET DOMAIN Offers
  BY DEF Selected
<1>3. asked \in SUBSET Currencies /\ With(rates, asked) \in Known
      /\ asked \subseteq DOMAIN With(rates, asked)
  BY <1>2, AskedFor
<1>4. PICK m \in Listings(view, With(rates, asked), hideNsfw) :
        Shows(view, m, "none", asked, hideNsfw)
  BY DEF Open
<1>5. /\ m \in Seq(Entries) /\ ShownOn(m) \subseteq asked
      /\ \A k \in DOMAIN m :
            \E i \in Kept(view, hideNsfw) : m[k] = Entry(With(rates, asked), Offers[i])
  BY <1>1, <1>3, <1>4, ListingsAre
<1>6. view \in {"recent", "category", "term"} => Heeds(m, hideNsfw)
  BY <1>1, <1>5, ListingsHeed
<1> QED BY <1>1, <1>3, <1>4, <1>5, <1>6, ShowsIs

LEMMA RecentSteps ==
    ASSUME PageInv, NEW switch \in BOOLEAN, Recent(switch),
           UNCHANGED <<update, timer>>, hideNsfw' = switch
    PROVE  PageInv'
<1> DEFINE asked == CurrenciesOf(DOMAIN Offers)
           known == With(rates, asked)
           n(s) == IF Len(s) < RecentLimit THEN Len(s) ELSE RecentLimit
<1>1. PICK m \in Listings("recent", known, switch) :
        \E s \in Sorted(m, "recent") :
           Shows("recent", SubSeq(s, 1, n(s)), "recent", asked, switch)
  BY DEF Recent
<1>2. PICK s \in Sorted(m, "recent") :
        Shows("recent", SubSeq(s, 1, n(s)), "recent", asked, switch)
  BY <1>1
<1>3. asked \in SUBSET Currencies /\ known \in Known /\ asked \subseteq DOMAIN known
  BY AskedFor
<1>4. Selected("recent") = DOMAIN Offers /\ "recent" \in Views /\ "recent" \in Orders
  BY DEF Selected, Views, Orders
<1>5. /\ m \in Seq(Entries) /\ ShownOn(m) \subseteq asked
      /\ \A k \in DOMAIN m : \E i \in Kept("recent", switch) : m[k] = Entry(known, Offers[i])
  BY <1>1, <1>3, <1>4, ListingsAre
<1>6. Heeds(m, switch)
  BY <1>5, ListingsHeed
<1>7. /\ s \in Seq(Entries) /\ ShownOn(s) = ShownOn(m)
      /\ \A i \in DOMAIN s : \E j \in DOMAIN m : s[i] = m[j]
  BY <1>2, <1>4, <1>5, SortedIs
<1>8. Heeds(s, switch)
  BY <1>6, <1>7 DEF Heeds
<1>9. n(s) \in 0..Len(s)
  BY <1>7, LenProperties, CatalogueAssumption
<1> DEFINE t == SubSeq(s, 1, n(s))
<1>10. /\ t \in Seq(Entries) /\ ShownOn(t) \subseteq ShownOn(s)
       /\ \A i \in DOMAIN t : i \in DOMAIN s /\ t[i] = s[i]
  BY <1>7, <1>9, FirstOf
<1>11. Heeds(t, switch)
  BY <1>8, <1>10 DEF Heeds
<1>12. ShownOn(t) \subseteq asked /\ Shows("recent", t, "recent", asked, switch)
  BY <1>2, <1>5, <1>7, <1>10
<1> HIDE DEF t, asked, known
<1> QED BY <1>3, <1>4, <1>10, <1>11, <1>12, ShowsIs

LEMMA SortSteps ==
    ASSUME PageInv, NEW order \in Orders, sortBy(order)
    PROVE  PageInv'
<1> DEFINE m == page.model
<1>1. /\ page.view \in {"category", "term", "all"} /\ UNCHANGED <<hideNsfw, update, timer>>
      /\ \E s \in Sorted(m, order) : Shows(page.view, s, order, ShownOn(m), page.switch)
  BY DEF sortBy
<1>2. PICK s \in Sorted(m, order) : Shows(page.view, s, order, ShownOn(m), page.switch)
  BY <1>1
<1>3. m \in Seq(Entries) /\ page.switch \in BOOLEAN /\ hideNsfw \in BOOLEAN
      /\ page.view \in Views
  BY <1>1 DEF PageInv, CatalogueTypeOK, Entries, Views
<1>4. ShownOn(m) \in SUBSET Currencies
  BY <1>3, ShownIs
<1>5. /\ s \in Seq(Entries) /\ ShownOn(s) = ShownOn(m)
      /\ \A i \in DOMAIN s : \E j \in DOMAIN m : s[i] = m[j]
      /\ \A i, j \in DOMAIN s : i < j => ~Before(order, s[j], s[i])
  BY <1>2, <1>3, SortedIs
<1>6. page.view \in {"recent", "category", "term"} => Heeds(s, page.switch)
  BY <1>5 DEF PageInv, SwitchesHeeded, Heeds
<1>7. order = "lowest" =>
         \A i, j \in DOMAIN s : i < j => price_xmr(s[i]) <= price_xmr(s[j])
  <2> SUFFICES ASSUME order = "lowest", NEW i \in DOMAIN s, NEW j \in DOMAIN s, i < j
               PROVE  price_xmr(s[i]) <= price_xmr(s[j])
    OBVIOUS
  <2>1. ~(price_xmr(s[j]) < price_xmr(s[i]))
    BY <1>5 DEF Before
  <2>2. s[i] \in Entries /\ s[j] \in Entries
    BY <1>5, ShownIs
  <2>3. price_xmr(s[i]) \in Int /\ price_xmr(s[j]) \in Int
    BY <2>2, PriceIs
  <2> QED BY <2>1, <2>3
<1>8. page.view # "recent" /\ hideNsfw' \in BOOLEAN /\ ShownOn(s) \subseteq ShownOn(m)
  BY <1>1, <1>3, <1>5
<1> HIDE DEF m
<1> QED BY <1>1, <1>2, <1>3, <1>4, <1>5, <1>6, <1>7, <1>8, ShowsIs

LEMMA PageSteps == PageInv /\ [CatalogueNext]_catalogueVars => PageInv'
<1> SUFFICES ASSUME PageInv, [CatalogueNext]_catalogueVars PROVE PageInv'
  OBVIOUS
<1>1. CASE PricesStep /\ UNCHANGED <<page, hideNsfw>>
  <2>1. PricesInv' /\ DOMAIN display' = DOMAIN display
    BY <1>1, PricesSteps DEF PageInv
  <2>2. CatalogueTypeOK'
    BY <1>1, <2>1 DEF PageInv, CatalogueTypeOK, PricesInv, ShownOn
  <2>3. SwitchesHeeded' /\ InOrder'
    BY <1>1 DEF PageInv, SwitchesHeeded, InOrder, price_xmr
  <2> QED BY <2>1, <2>2, <2>3 DEF PageInv
<1>2. ASSUME NEW v \in Views, Open(v) PROVE PageInv'
  BY <1>2, OpenSteps
<1>3. CASE OpenHome
  <2>1. hideNsfw \in BOOLEAN
    BY DEF PageInv, CatalogueTypeOK
  <2> QED BY <1>3, <2>1, RecentSteps DEF OpenHome
<1>4. ASSUME NEW o \in Orders, sortBy(o) PROVE PageInv'
  BY <1>4, SortSteps
<1>5. CASE Toggle
  <2>1. hideNsfw \in BOOLEAN /\ hideNsfw' = ~hideNsfw /\ UNCHANGED <<update, timer>>
    BY <1>5 DEF PageInv, CatalogueTypeOK, Toggle
  <2>2. CASE page.view = "recent"
    BY <1>5, <2>1, <2>2, RecentSteps DEF Toggle
  <2>3. CASE page.view # "recent"
    <3>1. UNCHANGED <<page, priceVars>>
      BY <1>5, <2>1, <2>3 DEF Toggle, priceVars
    <3>2. PricesInv'
      BY <3>1 DEF PageInv, PricesInv, PricesTypeOK, DisplayIsCurrent, RatesAreAskedAgain,
                  priceVars
    <3>3. CatalogueTypeOK'
      BY <2>1, <3>1, <3>2 DEF PageInv, CatalogueTypeOK, PricesInv, ShownOn, priceVars
    <3>4. SwitchesHeeded' /\ InOrder'
      BY <2>3, <3>1 DEF PageInv, SwitchesHeeded, InOrder, price_xmr
    <3> QED BY <3>2, <3>3, <3>4 DEF PageInv
  <2> QED BY <2>2, <2>3
<1>6. CASE UNCHANGED catalogueVars
  <2>1. UNCHANGED <<page, hideNsfw, rates, update, timer, display>>
    BY <1>6 DEF catalogueVars, priceVars
  <2> QED BY <2>1 DEF PageInv, PricesInv, PricesTypeOK, DisplayIsCurrent, RatesAreAskedAgain,
                      CatalogueTypeOK, ShownOn, SwitchesHeeded, InOrder, price_xmr
<1> QED BY <1>1, <1>2, <1>3, <1>4, <1>5, <1>6 DEF CatalogueNext

LEMMA PageInitially == CatalogueInit => PageInv
<1> SUFFICES ASSUME CatalogueInit PROVE PageInv
  OBVIOUS
<1>1. PricesInv
  BY PricesInitially DEF CatalogueInit
<1>2. page = [view |-> "none", model |-> <<>>, order |-> "none", switch |-> FALSE]
      /\ hideNsfw = FALSE /\ DOMAIN display = {}
  BY DEF CatalogueInit, PricesInit, Nothing
<1>3. <<>> \in Seq(Entries) /\ DOMAIN <<>> = {}
  BY EmptySeq
<1>4. ShownOn(page.model) = {}
  BY <1>2, <1>3 DEF ShownOn
<1>5. CatalogueTypeOK
  BY <1>1, <1>2, <1>3, <1>4 DEF CatalogueTypeOK, PricesInv, Entries
<1> QED BY <1>1, <1>2, <1>5 DEF PageInv, SwitchesHeeded, InOrder

\* The pages and the rates keep the invariant (Backend, CurrencyExchangeRatesProvider).
THEOREM PagesInvariant == CatalogueSpec => []PageInv
  BY PageInitially, PageSteps, PTL DEF CatalogueSpec

\* Type correctness of the pages, the rates and the bindings on them.
THEOREM CatalogueTypeCorrect == CatalogueSpec => []CatalogueTypeOK
<1>1. PageInv => CatalogueTypeOK
  BY DEF PageInv
<1> QED BY <1>1, PagesInvariant, PTL

\* A page shows what its switches allow, in the order of the prices it shows, at
\* current prices (getListings and its relatives, sortBy, the bindings on the rates).
THEOREM PagesAreRight == CatalogueSpec => []PageIsRight
<1>1. PageInv => PageIsRight
  <2> SUFFICES ASSUME PageInv PROVE PageIsRight
    OBVIOUS
  <2> DEFINE current(e) == e.rate = "XMR" \/ display[e.offer.currency] = e.rate
             shown(e) == Converted(e.offer, IF e.rate = "XMR" THEN "XMR"
                                            ELSE display[e.offer.currency])
  <2>1. ASSUME NEW e, current(e) PROVE shown(e) = price_xmr(e)
    BY <2>1 DEF price_xmr
  <2>2. PricesShownInOrder
    <3> SUFFICES ASSUME page.order = "lowest",
                        \A i \in DOMAIN page.model : current(page.model[i]),
                        NEW i \in DOMAIN page.model, NEW j \in DOMAIN page.model, i < j
                 PROVE  shown(page.model[i]) <= shown(page.model[j])
      BY DEF PricesShownInOrder
    <3>1. price_xmr(page.model[i]) <= price_xmr(page.model[j])
      BY DEF PageInv, InOrder
    <3>2. shown(page.model[i]) = price_xmr(page.model[i])
      BY <2>1
    <3>3. shown(page.model[j]) = price_xmr(page.model[j])
      BY <2>1
    <3> QED BY <3>1, <3>2, <3>3
  <2> QED BY <2>2 DEF PageInv, PricesInv, PageIsRight
<1> QED BY <1>1, PagesInvariant, PTL

\* A rate is thrown away only by an update that was given its pair (setRates).
THEOREM KnownRatesAskedAgain == CatalogueSpec => []RatesAreAskedAgain
<1>1. PageInv => RatesAreAskedAgain
  BY DEF PageInv, PricesInv
<1> QED BY <1>1, PagesInvariant, PTL

----------------------------------------------------------------------------
(* Messages.                                                                *)

\* A message is the encryption of what was written, signed by its writer.
MailsAreWritten ==
    /\ Len(written) = Len(mails)
    /\ \A i \in DOMAIN mails :
        /\ mails[i].sender_id = [pair |-> written[i].for, plain |-> written[i].by]
        /\ mails[i].content = [pair |-> written[i].for, plain |-> written[i].text]
        /\ mails[i].signature = Signed(written[i].by, written[i].text)

\* The page has what the session's key makes of its messages.
BoxIsOpened == \A k \in DOMAIN box : box[k].key \in DOMAIN mails /\ box[k] = Opened(box[k].key)

MessagesIInv ==
    MessagesTypeOK /\ MailsAreWritten /\ BoxIsOpened /\ ShownInOrder /\ ThreadIsOfOne

\* What is sent is encrypted, and so is its sender.
LEMMA CiphersAre ==
    ASSUME NEW p \in Pairs, NEW u \in Writers, NEW text \in Texts, Cipher(p, text) # NoCipher
    PROVE  /\ text \notin TooLong
           /\ Cipher(p, text) = [pair |-> p, plain |-> text]
           /\ Cipher(p, u) = [pair |-> p, plain |-> u]
BY MessagesAssumption DEF Cipher

\* What is opened with the key it was written for is what was written; with any other it
\* is nothing.
LEMMA OpenedIs ==
    ASSUME MessagesIInv, NEW i \in DOMAIN mails
    PROVE  LET e == Opened(i)  w == written[i]
           IN  /\ e.key = i /\ e.timestamp = mails[i].timestamp
               /\ e.verified <=> w.for = session
               /\ IF w.for = session THEN e.sender_id = w.by /\ e.content = w.text /\ w.by # Me
                  ELSE e.sender_id = Blank /\ e.content = Blank
<1> DEFINE w == written[i]
<1>1. w \in Writing
  <2>1. written \in Seq(Writing) /\ i \in 1..Len(written)
    BY LenProperties DEF MessagesIInv, MessagesTypeOK, MailsAreWritten
  <2> QED BY <2>1, ElementOfSeq
<1>2. /\ w.by \in Writers /\ w.by # Me /\ w.by # Blank /\ w.text # Blank
  BY <1>1, MessagesAssumption DEF Writing
<1>3. /\ mails[i].sender_id = [pair |-> w.for, plain |-> w.by]
      /\ mails[i].content = [pair |-> w.for, plain |-> w.text]
      /\ mails[i].signature = [by |-> w.by, text |-> w.text]
  BY DEF MessagesIInv, MailsAreWritten, Signed
<1>4. Opened(i) = [key |-> i,
                    sender_id |-> IF w.for = session THEN w.by ELSE Blank,
                    content |-> IF w.for = session THEN w.text ELSE Blank,
                    timestamp |-> mails[i].timestamp,
                    verified |-> w.for = session]
  BY <1>2, <1>3 DEF Opened, Plain, Verifies, Signed
<1>5. /\ Opened(i).key = i /\ Opened(i).timestamp = mails[i].timestamp
      /\ Opened(i).verified = (w.for = session)
      /\ Opened(i).sender_id = IF w.for = session THEN w.by ELSE Blank
      /\ Opened(i).content = IF w.for = session THEN w.text ELSE Blank
  BY <1>4
<1> QED BY <1>2, <1>5

\* The page's messages are its own, and have what was written.
LEMMA ShownFollows ==
    ASSUME MessagesIInv
    PROVE  ShownAsWritten
BY OpenedIs DEF MessagesIInv, BoxIsOpened, ShownAsWritten

\* What the filter leaves of a page are the page's messages of one sender, all of them.
LEMMA OfSenderIs ==
    ASSUME NEW s, NEW all, NEW t \in OfSender(s, all)
    PROVE  /\ \A k \in DOMAIN t : \E i \in DOMAIN all : t[k] = all[i]
           /\ \A k \in DOMAIN t, i \in DOMAIN all :
                 all[i].sender_id = t[k].sender_id <=> \E j \in DOMAIN t : t[j] = all[i]
<1> DEFINE S == {i \in DOMAIN all : all[i].sender_id = s}
<1>1. PICK f \in Increasing(S) : t = [k \in DOMAIN f |-> all[f[k]]]
  BY DEF OfSender
<1>2. /\ f \in [DOMAIN f -> S]
      /\ \A i \in S : \E k \in DOMAIN f : f[k] = i
  BY <1>1 DEF Increasing, Arranged, Bijection, Injection, Surjection
<1>3. /\ DOMAIN t = DOMAIN f
      /\ \A k \in DOMAIN t : t[k] = all[f[k]] /\ f[k] \in S /\ t[k].sender_id = s
  BY <1>1, <1>2
<1> QED BY <1>2, <1>3

\* Sending, reading and new keys keep the invariant (send_message, getMessages).
LEMMA MessagesInvariant == MessagesSpec => []MessagesIInv
<1>1. MessagesInit => MessagesIInv
  <2> SUFFICES ASSUME MessagesInit PROVE MessagesIInv OBVIOUS
  <2>1. MessagesTypeOK
    <3>1. <<>> \in Seq(Mail) /\ <<>> \in Seq(Writing) /\ Len(<<>>) = 0
      BY EmptySeq
    <3> QED BY <3>1, MessagesAssumption DEF MessagesInit, MessagesTypeOK, Pairs
  <2> QED BY <2>1 DEF MessagesInit, MessagesIInv, MailsAreWritten, BoxIsOpened, ShownInOrder, ThreadIsOfOne
<1>2. MessagesIInv /\ [MessagesNext]_messageVars => MessagesIInv'
  <2> SUFFICES ASSUME MessagesIInv, [MessagesNext]_messageVars PROVE MessagesIInv'
    OBVIOUS
  <2> USE MessagesAssumption
  <2>1. CASE NewKeys
    <3>1. MessagesTypeOK'
      BY <2>1 DEF NewKeys, MessagesIInv, MessagesTypeOK, Pairs
    <3> QED
      BY <2>1, <3>1 DEF NewKeys, MessagesIInv, MailsAreWritten, BoxIsOpened, ShownInOrder, ThreadIsOfOne
  <2>2. ASSUME NEW u \in Users, NEW text \in Texts, Send(u, text)
        PROVE  MessagesIInv'
    <3>1. u \in Writers
      BY <2>2 DEF Send, Users
    <3>2. PICK p \in profiles, t \in 0..MaxTime :
            /\ Cipher(p, text) # NoCipher
            /\ mails' = Append(mails, [sender_id |-> Cipher(p, u), content |-> Cipher(p, text),
                                      signature |-> Signed(u, text), timestamp |-> t])
            /\ written' = Append(written, [by |-> u, text |-> text, for |-> p])
      BY <2>2 DEF Send
    <3> DEFINE m == [sender_id |-> [pair |-> p, plain |-> u], content |-> [pair |-> p, plain |-> text],
                     signature |-> Signed(u, text), timestamp |-> t]
               w == [by |-> u, text |-> text, for |-> p]
    <3>3. p \in Pairs
      BY DEF MessagesIInv, MessagesTypeOK
    <3>4. /\ text \notin TooLong
          /\ mails' = Append(mails, m) /\ written' = Append(written, w)
      BY <3>1, <3>2, <3>3, CiphersAre
    <3>5. /\ m \in Mail
          /\ w \in Writing
      BY <3>1, <3>3, <3>4 DEF Mail, Ciphers, Users, Signed, Writing
    <3> HIDE DEF m, w
    <3>6. /\ mails \in Seq(Mail) /\ Len(mails) < MaxMessages
          /\ written \in Seq(Writing)
          /\ Len(written) = Len(mails)
      BY <2>2 DEF Send, MessagesIInv, MessagesTypeOK, MailsAreWritten
    <3>7. /\ mails' \in Seq(Mail) /\ Len(mails') = Len(mails) + 1
          /\ \A i \in DOMAIN mails : mails'[i] = mails[i]
          /\ mails'[Len(mails) + 1] = m /\ DOMAIN mails' = DOMAIN mails \cup {Len(mails) + 1}
      BY <3>4, <3>5, <3>6, AppendProperties, LenProperties
    <3>8. /\ written' \in Seq(Writing)
          /\ Len(written') = Len(mails) + 1
          /\ \A i \in DOMAIN mails : written'[i] = written[i]
          /\ written'[Len(mails) + 1] = w
      BY <3>4, <3>5, <3>6, AppendProperties, LenProperties
    <3>9. MessagesTypeOK'
      BY <2>2, <3>6, <3>7, <3>8, LenProperties DEF Send, MessagesIInv, MessagesTypeOK
    <3>10. MailsAreWritten'
      BY <3>7, <3>8 DEF MessagesIInv, MailsAreWritten, m, w
    <3>11. \A i \in DOMAIN mails : Opened(i)' = Opened(i)
      BY <2>2, <3>7 DEF Send, Opened
    <3>12. BoxIsOpened'
      BY <2>2, <3>7, <3>11 DEF Send, MessagesIInv, BoxIsOpened
    <3> QED
      BY <2>2, <3>9, <3>10, <3>12 DEF Send, MessagesIInv, ShownInOrder, ThreadIsOfOne
  <2>3. ASSUME NEW i \in Ids, MapMessage(i) \/ LoseMessage(i)
        PROVE  MessagesIInv'
    <3>1. UNCHANGED <<session, profiles, mails, written, box, thread>>
      BY <2>3 DEF MapMessage, LoseMessage
    <3>2. held' \in SUBSET DOMAIN mails /\ indexed' \in SUBSET DOMAIN mails
      BY <2>3 DEF MapMessage, LoseMessage, MessagesIInv, MessagesTypeOK
    <3> QED
      BY <3>1, <3>2 DEF MessagesIInv, MessagesTypeOK, MailsAreWritten, BoxIsOpened, Opened,
         ShownInOrder, ThreadIsOfOne
  <2>4. CASE OpenMessages
    <3>1. MessagesTypeOK' /\ MailsAreWritten'
      BY <2>4 DEF OpenMessages, MessagesIInv, MessagesTypeOK, MailsAreWritten
    <3>a. PICK got \in SUBSET (indexed \cap held) :
            \E f \in NewestFirst(got) :
                box' = [k \in DOMAIN f |-> Opened(f[k])] \/ box' = <<>>
      BY <2>4 DEF OpenMessages
    <3>2. PICK f \in NewestFirst(got) : box' = [k \in DOMAIN f |-> Opened(f[k])] \/ box' = <<>>
      BY <3>a
    <3>3. /\ f \in [DOMAIN f -> got] /\ DOMAIN f = 1..Cardinality(got)
          /\ \A i, j \in DOMAIN f : f[i] = f[j] => i = j
          /\ \A i, j \in DOMAIN f : i < j => mails[f[i]].timestamp >= mails[f[j]].timestamp
      BY DEF NewestFirst, Arranged, Bijection, Injection, Surjection, IsInjective
    <3>4. \A i \in DOMAIN mails : Opened(i)' = Opened(i) /\ Opened(i).key = i
                                 /\ Opened(i).timestamp = mails[i].timestamp
      BY <2>4 DEF OpenMessages, Opened
    <3>5. got \subseteq DOMAIN mails
      BY DEF MessagesIInv, MessagesTypeOK
    <3>6. BoxIsOpened'
      <4>0. mails' = mails
        BY <2>4 DEF OpenMessages
      <4>1. CASE box' = <<>>
        BY <4>1 DEF BoxIsOpened
      <4>2. CASE box' = [k \in DOMAIN f |-> Opened(f[k])]
        <5>1. \A k \in DOMAIN f : box'[k] = Opened(f[k]) /\ box'[k].key = f[k] /\ f[k] \in DOMAIN mails
          BY <3>3, <3>4, <3>5, <4>2
        <5> QED BY <3>4, <4>0, <4>2, <5>1 DEF BoxIsOpened
      <4> QED BY <3>2, <4>1, <4>2
    <3>7. ShownInOrder'
      <4>1. CASE box' = <<>>
        BY <4>1 DEF ShownInOrder
      <4>2. CASE box' = [k \in DOMAIN f |-> Opened(f[k])]
        <5>1. \A i \in DOMAIN f : box'[i].key = f[i] /\ box'[i].timestamp = mails[f[i]].timestamp
          BY <3>3, <3>4, <3>5, <4>2
        <5>2. \A i, j \in DOMAIN f : i < j => f[i] # f[j]
          BY <3>3
        <5> QED BY <3>3, <4>2, <5>1, <5>2 DEF ShownInOrder
      <4> QED BY <3>2, <4>1, <4>2
    <3>8. ThreadIsOfOne'
      <4>1. CASE box' = <<>>
        BY <2>4, <4>1 DEF OpenMessages, ThreadIsOfOne
      <4>2. CASE box' # <<>>
        BY <2>4, <4>2, OfSenderIs DEF OpenMessages, ThreadIsOfOne
      <4> QED BY <4>1, <4>2
    <3> QED BY <3>1, <3>6, <3>7, <3>8 DEF MessagesIInv
  <2>5. ASSUME NEW k \in Ids, PickSender(k)
        PROVE  MessagesIInv'
    <3>1. ThreadIsOfOne'
      BY <2>5, OfSenderIs DEF PickSender, ThreadIsOfOne
    <3> QED
      BY <2>5, <3>1 DEF PickSender, MessagesIInv, MessagesTypeOK, MailsAreWritten, BoxIsOpened,
         Opened, ShownInOrder
  <2>6. CASE UNCHANGED messageVars
    BY <2>6 DEF messageVars, MessagesIInv, MessagesTypeOK, MailsAreWritten, BoxIsOpened, Opened,
       ShownInOrder, ThreadIsOfOne
  <2> QED BY <2>1, <2>2, <2>3, <2>4, <2>5, <2>6 DEF MessagesNext
<1> QED BY <1>1, <1>2, PTL DEF MessagesSpec

\* Type correctness of the messages, and of what the index has of them.
THEOREM MessagesTypeCorrect == MessagesSpec => []MessagesTypeOK
<1>1. MessagesIInv => MessagesTypeOK
  BY DEF MessagesIInv
<1> QED BY <1>1, MessagesInvariant, PTL

\* Whatever keys come and go, the messages page shows of a message what its writer wrote, in
\* the writer's thread, or nothing of it (send_message, decrypt_message, getMessages).
THEOREM MessagesAreReadAsWritten == MessagesSpec => []MessagesReadAsWritten
<1>1. MessagesIInv => MessagesReadAsWritten
  BY ShownFollows DEF MessagesIInv, MessagesReadAsWritten
<1> QED BY <1>1, MessagesInvariant, PTL

----------------------------------------------------------------------------
(* The wallet.                                                              *)

\* What the password's hash verifies is what the wallet was opened with, or the empty
\* password after a restore that failed.
HashIsOfWallet ==
    monero_wallet # Nil => password_hash = [by |-> monero_wallet.path,
                                     of |-> IF monero_wallet.mistaken THEN NoPassword ELSE monero_wallet.password]

\* A request was confirmed with it; one that a thread is still at has one recipient, whose
\* address is valid once the thread has looked; and one that is to be swept finds no more
\* than it asked for and was unlocked since.
Confirmed(r, f) ==
    /\ r.typed = IF r.mistaken THEN NoPassword ELSE r.password
    /\ r.at # "over" => Len(r.to) = 1
    /\ r.at \in {"creating", "sweeping"} => Payable(r.to) = {1}
    /\ r.at = "sweeping" => /\ r.gained <= f.gained
                            /\ f.unlocked <= r.to[1].amount + (f.gained - r.gained)

AllConfirmed == \A n \in DOMAIN requests : Confirmed(requests[n], funds)

\* A transaction was made by a request that is over, and the only one.
AllSent ==
    /\ \E T : chain \in Seq(T)
    /\ \A t \in DOMAIN chain : /\ chain[t].request \in DOMAIN requests
                              /\ requests[chain[t].request].at = "over"

WalletIInv == WalletTypeOK /\ HashIsOfWallet /\ AllConfirmed /\ AllSent /\ PaidAsConfirmed

\* A form has recipients, each with an amount.
LEMMA FormIs ==
    ASSUME NEW form \in Forms
    PROVE  /\ form \in Seq([address : STRING, amount : Nat])
           /\ Len(form) \in Nat \ {0} /\ DOMAIN form = 1..Len(form)
           /\ form[1] \in [address : STRING, amount : Nat]
           /\ form # Nil
<1>1. form \in Seq([address : STRING, amount : Nat]) /\ form # <<>> /\ form # Nil
  BY WalletAssumption
<1>2. PICK T : T = [address : STRING, amount : Nat]
  OBVIOUS
<1>3. form \in Seq(T)
  BY <1>1, <1>2
<1>4. Len(form) \in Nat \ {0} /\ DOMAIN form = 1..Len(form)
  BY <1>1, <1>3, EmptySeq, LenProperties
<1>5. form[1] \in T
  BY <1>3, <1>4, ElementOfSeq
<1> QED BY <1>1, <1>2, <1>4, <1>5

\* A form with one recipient pays it if its address is valid.
LEMMA PayableOne ==
    ASSUME NEW form \in Forms, Len(form) = 1
    PROVE  /\ Payable(<<form[1]>>) = Payable(form)
           /\ Payable(form) # {} => Payable(form) = {1}
<1>1. DOMAIN form = {1} /\ DOMAIN <<form[1]>> = {1} /\ <<form[1]>>[1] = form[1]
  BY FormIs
<1> QED BY <1>1 DEF Payable

\* The transaction of a request, appended to the chain.
LEMMA ChainGrows ==
    ASSUME AllSent, NEW x, chain' = Append(chain, x)
    PROVE  /\ \E T : chain' \in Seq(T)
           /\ DOMAIN chain' = DOMAIN chain \cup {Len(chain) + 1}
           /\ Len(chain) + 1 \notin DOMAIN chain
           /\ \A t \in DOMAIN chain : chain'[t] = chain[t]
           /\ chain'[Len(chain) + 1] = x
<1>1. PICK T : chain \in Seq(T)
  BY DEF AllSent
<1> DEFINE U == T \cup {x}
<1>2. chain \in Seq(U) /\ x \in U
  BY <1>1, SeqMonotonic
<1> HIDE DEF U
<1> QED BY <1>2, AppendProperties, LenProperties

\* When a request of a list becomes, or is, over and its transaction is appended to the
\* chain, the chain is still as confirmed, and of requests that are over.
LEMMA RelayKeeps ==
    ASSUME AllSent, PaidAsConfirmed, NEW x, chain' = Append(chain, x),
           \A n \in DOMAIN requests : /\ n \in DOMAIN requests'
                                      /\ \/ requests'[n] = requests[n]
                                         \/ requests[n].at # "over",
           x.request \in DOMAIN requests', requests'[x.request].at = "over",
           x.request \in DOMAIN requests => requests[x.request].at # "over",
           Fulfils(x, requests'[x.request])
    PROVE  AllSent' /\ PaidAsConfirmed'
<1>1. /\ \E T : chain' \in Seq(T)
      /\ DOMAIN chain' = DOMAIN chain \cup {Len(chain) + 1}
      /\ Len(chain) + 1 \notin DOMAIN chain
      /\ \A t \in DOMAIN chain : chain'[t] = chain[t]
      /\ chain'[Len(chain) + 1] = x
  BY ChainGrows
<1>2. \A t \in DOMAIN chain : /\ chain[t].request \in DOMAIN requests'
                             /\ requests'[chain[t].request] = requests[chain[t].request]
                             /\ chain[t].request # x.request
  BY DEF AllSent
<1>3. AllSent'
  BY <1>1, <1>2 DEF AllSent
<1>4. \A t \in DOMAIN chain' : /\ chain'[t].request \in DOMAIN requests'
                              /\ Fulfils(chain'[t], requests'[chain'[t].request])
  BY <1>1, <1>2 DEF PaidAsConfirmed
<1>5. \A t, u \in DOMAIN chain' : chain'[t].request = chain'[u].request => t = u
  BY <1>1, <1>2 DEF PaidAsConfirmed
<1> QED BY <1>3, <1>4, <1>5 DEF PaidAsConfirmed

\* When a request moves on and nothing is relayed, the chain is what it was.
LEMMA NoRelayKeeps ==
    ASSUME AllSent, PaidAsConfirmed, UNCHANGED chain,
           \A n \in DOMAIN requests : /\ n \in DOMAIN requests'
                                      /\ \/ requests'[n] = requests[n]
                                         \/ requests[n].at # "over"
    PROVE  AllSent' /\ PaidAsConfirmed'
BY DEF AllSent, PaidAsConfirmed

\* Spending leaves the requests of the list as they were confirmed.
LEMMA RelaySpends ==
    ASSUME WalletTypeOK, NEW n, NEW outs, NEW sweep, NEW spent, NEW gain,
           Relays(n, outs, sweep, spent, gain)
    PROVE  /\ funds' \in [received : Nat, locked : Nat, unlocked : Nat, gained : Nat]
           /\ funds'.gained = funds.gained
           /\ funds'.unlocked <= funds.unlocked
           /\ chain' = Append(chain, [request |-> n, outs |-> outs, sweep |-> sweep, gain |-> gain])
           /\ \A r \in Requests : Confirmed(r, funds) => Confirmed(r, funds')
<1>1. PICK left, change \in 0..funds.unlocked :
            funds' = [funds EXCEPT !.unlocked = left, !.locked = @ + change]
  BY DEF Relays
<1>2. funds \in [received : Nat, locked : Nat, unlocked : Nat, gained : Nat]
  BY DEF WalletTypeOK
<1>3. /\ funds' \in [received : Nat, locked : Nat, unlocked : Nat, gained : Nat]
      /\ funds'.gained = funds.gained /\ funds'.unlocked = left
  <2>1. PICK f : f = funds
    OBVIOUS
  <2>2. /\ f \in [received : Nat, locked : Nat, unlocked : Nat, gained : Nat]
        /\ left \in Nat /\ change \in Nat
        /\ funds' = [f EXCEPT !.unlocked = left, !.locked = @ + change]
    BY <1>1, <1>2, <2>1
  <2>3. funds' = [received |-> f.received, locked |-> f.locked + change,
                  unlocked |-> left, gained |-> f.gained]
    BY <2>2
  <2> QED BY <2>1, <2>2, <2>3
<1>4. funds'.unlocked <= funds.unlocked
  BY <1>2, <1>3
<1>5. ASSUME NEW r \in Requests, Confirmed(r, funds)
      PROVE  Confirmed(r, funds')
  <2>1. r.at = "sweeping" => /\ r.to[1].amount \in Nat /\ r.gained \in Nat
    BY FormIs DEF Requests
  <2> QED BY <1>2, <1>3, <1>4, <1>5, <2>1 DEF Confirmed
<1> QED BY <1>3, <1>4, <1>5 DEF Relays

\* Requests that are typed, one of which is replaced.
LEMMA MoveIs ==
    ASSUME WalletIInv, NEW n, NEW from, NEW to \in {"creating", "sweeping", "over"}, Moves(n, from, to)
    PROVE  /\ n \in DOMAIN requests /\ requests[n] \in Requests /\ requests[n].at = from
           /\ requests' \in Seq(Requests) /\ Len(requests') = Len(requests)
           /\ DOMAIN requests' = DOMAIN requests
           /\ \A k \in DOMAIN requests : k # n => requests'[k] = requests[k]
           /\ requests'[n] = [requests[n] EXCEPT !.at = to, !.gained = funds.gained]
           /\ WalletTypeOK' \/ funds' \notin [received : Nat, locked : Nat, unlocked : Nat, gained : Nat]
           /\ HashIsOfWallet'
<1>1. /\ requests \in Seq(Requests) /\ n \in DOMAIN requests /\ n \in 1..Len(requests)
      /\ funds.gained \in Nat /\ requests[n].at = from
  BY LenProperties DEF WalletIInv, WalletTypeOK, Moves
<1>2. PICK r : r = requests[n]
  OBVIOUS
<1>3. r \in Requests
  BY <1>1, <1>2, ElementOfSeq
<1>4. PICK q : q = [r EXCEPT !.at = to, !.gained = funds.gained]
  OBVIOUS
<1>5. q \in Requests
  BY <1>1, <1>3, <1>4 DEF Requests
<1>6. requests' = [requests EXCEPT ![n] = q]
  <2>1. requests' = [requests EXCEPT ![n] = [[@ EXCEPT !.at = to] EXCEPT !.gained = funds.gained]]
    BY <1>1, ExceptSeq DEF Moves
  <2> QED BY <1>2, <1>4, <2>1
<1>7. /\ requests' \in Seq(Requests) /\ Len(requests') = Len(requests)
      /\ \A k \in 1..Len(requests) : requests'[k] = IF k = n THEN q ELSE requests[k]
  BY <1>1, <1>5, <1>6, ExceptSeq
<1>8. DOMAIN requests' = DOMAIN requests
  BY <1>6
<1>9. WalletTypeOK' \/ funds' \notin [received : Nat, locked : Nat, unlocked : Nat, gained : Nat]
  BY <1>7 DEF Moves, WalletIInv, WalletTypeOK
<1>10. HashIsOfWallet'
  BY DEF Moves, WalletIInv, HashIsOfWallet
<1> QED
  BY <1>1, <1>2, <1>3, <1>4, <1>7, <1>8, <1>9, <1>10, LenProperties

\* An action that leaves the payments alone keeps what was confirmed and sent.
LEMMA PaymentsKept ==
    ASSUME WalletIInv, UNCHANGED <<funds, requests, chain>>, WalletTypeOK', HashIsOfWallet'
    PROVE  WalletIInv'
BY DEF WalletIInv, AllConfirmed, AllSent, PaidAsConfirmed

\* What a wallet that is opened is.
LEMMA OpensIs ==
    ASSUME WalletIInv, NEW path \in Paths, NEW password \in AllPasswords,
           Opens(path, password), opened < MaxWallets
    PROVE  /\ monero_wallet' \in Wallets /\ HashIsOfWallet'
           /\ opened' \in 0..MaxWallets
           /\ password_hash' \in [by : Paths \cup {Nil}, of : AllPasswords]
<1>1. opened \in 0..MaxWallets /\ MaxWallets \in Nat
  BY WalletAssumption DEF WalletIInv, WalletTypeOK
<1>2. opened + 1 \in 1..MaxWallets
  BY <1>1
<1>3. monero_wallet' = [path |-> path, password |-> password, number |-> opened + 1, node |-> "none",
                 mistaken |-> FALSE]
  BY DEF Opens, NewWallet
<1>4. monero_wallet' \in Wallets
  BY <1>2, <1>3 DEF Wallets
<1>5. HashIsOfWallet'
  BY <1>3 DEF Opens, HashIsOfWallet
<1> QED BY <1>1, <1>4, <1>5 DEF Opens

\* Destroying a wallet ends the application or leaves it where it is.
LEMMA DestroysIs ==
    ASSUME WalletTypeOK, screen = "main", Destroys
    PROVE  screen' \in {"main", "dead"}
BY DEF Destroys

\* The main page: the wallet is made, opened, restored or closed.
LEMMA MainPageKeeps ==
    ASSUME WalletIInv,
           \/ \E p \in Paths, x \in Passwords : create_random(p, x) \/ open(p, x)
           \/ \E p \in Paths : restore_from_seed(p)
           \/ close \/ EnterHome
    PROVE  WalletIInv'
<1>1. ASSUME NEW p \in Paths, NEW x \in Passwords, create_random(p, x)
      PROVE  WalletIInv'
  <2>1. screen' \in {"main", "dead"} /\ x \in AllPasswords
    BY <1>1, DestroysIs DEF create_random, WalletIInv, AllPasswords
  <2>2. CASE Opens(p, x) /\ wallet_files' = [wallet_files EXCEPT ![p] = x]
    <3>1. wallet_files' \in [Paths -> Passwords \cup {Nil}]
      BY <2>2 DEF WalletIInv, WalletTypeOK
    <3>2. WalletTypeOK' /\ HashIsOfWallet'
      BY <1>1, <2>1, <2>2, <3>1, OpensIs DEF create_random, WalletIInv, WalletTypeOK
    <3> QED BY <1>1, <3>2, PaymentsKept DEF create_random
  <2>3. CASE monero_wallet' = Nil /\ UNCHANGED <<opened, wallet_files, password_hash>>
    <3>1. WalletTypeOK' /\ HashIsOfWallet'
      BY <1>1, <2>1, <2>3 DEF create_random, WalletIInv, WalletTypeOK, HashIsOfWallet
    <3> QED BY <1>1, <3>1, PaymentsKept DEF create_random
  <2> QED BY <1>1, <2>2, <2>3 DEF create_random
<1>2. ASSUME NEW p \in Paths, NEW x \in Passwords, open(p, x)
      PROVE  WalletIInv'
  <2>1. screen' \in {"main", "dead"} /\ x \in AllPasswords
    BY <1>2, DestroysIs DEF open, WalletIInv, AllPasswords
  <2>2. WalletTypeOK' /\ HashIsOfWallet'
    BY <1>2, <2>1, OpensIs DEF open, WalletIInv, WalletTypeOK
  <2> QED BY <1>2, <2>2, PaymentsKept DEF open
<1>3. ASSUME NEW p \in Paths, restore_from_seed(p)
      PROVE  WalletIInv'
  <2>1. CASE Destroys /\ Opens(p, NoPassword)
    <3>1. screen' \in {"main", "dead"} /\ NoPassword \in AllPasswords
      BY <1>3, <2>1, DestroysIs DEF restore_from_seed, WalletIInv, AllPasswords
    <3>2. WalletTypeOK' /\ HashIsOfWallet'
      BY <1>3, <2>1, <3>1, OpensIs DEF restore_from_seed, WalletIInv, WalletTypeOK
    <3> QED BY <1>3, <3>2, PaymentsKept DEF restore_from_seed
  <2>2. CASE /\ monero_wallet # Nil
             /\ monero_wallet' = [monero_wallet EXCEPT !.mistaken = TRUE]
             /\ password_hash' = [by |-> monero_wallet.path, of |-> NoPassword]
             /\ UNCHANGED <<screen, opened>>
    <3>1. monero_wallet \in Wallets
      BY <2>2 DEF WalletIInv, WalletTypeOK
    <3>2. PICK w : w = monero_wallet
      OBVIOUS
    <3>3. /\ monero_wallet' = [path |-> w.path, password |-> w.password, number |-> w.number,
                         node |-> w.node, mistaken |-> TRUE]
          /\ w.path \in Paths
      BY <2>2, <3>1, <3>2 DEF Wallets
    <3>4. monero_wallet' \in Wallets
      BY <3>1, <3>2, <3>3 DEF Wallets
    <3>5. HashIsOfWallet'
      BY <2>2, <3>2, <3>3 DEF HashIsOfWallet
    <3>6. WalletTypeOK'
      BY <1>3, <2>2, <3>2, <3>3, <3>4 DEF restore_from_seed, WalletIInv, WalletTypeOK, AllPasswords
    <3> QED BY <1>3, <3>5, <3>6, PaymentsKept DEF restore_from_seed
  <2> QED BY <1>3, <2>1, <2>2 DEF restore_from_seed
<1>4. CASE close
  <2>1. screen' \in {"main", "dead"}
    BY <1>4, DestroysIs DEF close, WalletIInv
  <2>2. WalletTypeOK' /\ HashIsOfWallet'
    BY <1>4, <2>1 DEF close, WalletIInv, WalletTypeOK, HashIsOfWallet
  <2> QED BY <1>4, <2>2, PaymentsKept DEF close
<1>5. CASE EnterHome
  <2>1. WalletTypeOK' /\ HashIsOfWallet'
    BY <1>5 DEF EnterHome, WalletIInv, WalletTypeOK, HashIsOfWallet
  <2> QED BY <1>5, <2>1, PaymentsKept DEF EnterHome
<1> QED BY <1>1, <1>2, <1>3, <1>4, <1>5

\* A wallet that gets another state of its node is typed, and its hash is still its own.
LEMMA NodeOfWallet ==
    ASSUME WalletIInv, monero_wallet # Nil, NEW s \in {"none", "connected", "synced"},
           monero_wallet' = [monero_wallet EXCEPT !.node = s], password_hash' = password_hash
    PROVE  monero_wallet' \in Wallets /\ monero_wallet' # Nil /\ HashIsOfWallet'
<1>1. monero_wallet \in Wallets
  BY DEF WalletIInv, WalletTypeOK
<1>2. PICK w : w = monero_wallet
  OBVIOUS
<1>3. monero_wallet' = [path |-> w.path, password |-> w.password, number |-> w.number, node |-> s,
                 mistaken |-> w.mistaken]
  BY <1>1, <1>2 DEF Wallets
<1>4. monero_wallet' \in Wallets
  BY <1>1, <1>2, <1>3 DEF Wallets
<1>5. HashIsOfWallet'
  BY <1>2, <1>3 DEF WalletIInv, HashIsOfWallet
<1>6. monero_wallet' # Nil
  BY <1>4, WalletAssumption
<1> QED BY <1>4, <1>5, <1>6

\* The node of the wallet: synchronization, and what is received.
LEMMA NodeKeeps ==
    ASSUME WalletIInv,
           \/ daemon_connect \/ FallBehind \/ \E j \in 1..MaxWallets : JobEnds(j)
    PROVE  WalletIInv'
<1>1. CASE daemon_connect
  <2>1. monero_wallet' \in Wallets /\ monero_wallet' # Nil /\ HashIsOfWallet'
    BY <1>1, NodeOfWallet DEF daemon_connect
  <2>2. monero_wallet \in Wallets
    BY <1>1 DEF daemon_connect, WalletIInv, WalletTypeOK
  <2>3. jobs' \in SUBSET (1..MaxWallets)
    BY <1>1, <2>2 DEF daemon_connect, WalletIInv, WalletTypeOK, Wallets
  <2>4. WalletTypeOK'
    BY <1>1, <2>1, <2>3 DEF daemon_connect, WalletIInv, WalletTypeOK
  <2> QED BY <1>1, <2>1, <2>4, PaymentsKept DEF daemon_connect
<1>2. CASE FallBehind
  <2>1. monero_wallet # Nil
    BY <1>2 DEF FallBehind, WalletIInv, WalletTypeOK
  <2>2. monero_wallet' \in Wallets /\ monero_wallet' # Nil /\ HashIsOfWallet'
    BY <1>2, <2>1, NodeOfWallet DEF FallBehind
  <2>3. WalletTypeOK'
    BY <1>2, <2>2 DEF FallBehind, WalletIInv, WalletTypeOK
  <2> QED BY <1>2, <2>2, <2>3, PaymentsKept DEF FallBehind
<1>3. ASSUME NEW j \in 1..MaxWallets, JobEnds(j)
      PROVE  WalletIInv'
  <2>1. jobs' \in SUBSET (1..MaxWallets)
    BY <1>3 DEF JobEnds, WalletIInv, WalletTypeOK
  <2>2. CASE monero_wallet' = monero_wallet
    <3>1. screen' \in {screen, "dead"}
      BY <1>3 DEF JobEnds
    <3>2. WalletTypeOK' /\ HashIsOfWallet'
      BY <1>3, <2>1, <2>2, <3>1 DEF JobEnds, WalletIInv, WalletTypeOK, HashIsOfWallet
    <3> QED BY <1>3, <3>2, PaymentsKept DEF JobEnds
  <2>3. CASE monero_wallet # Nil /\ monero_wallet' = [monero_wallet EXCEPT !.node = "synced"] /\ screen' = screen
    <3>1. monero_wallet' \in Wallets /\ monero_wallet' # Nil /\ HashIsOfWallet'
      BY <1>3, <2>3, NodeOfWallet DEF JobEnds
    <3>2. WalletTypeOK'
      BY <1>3, <2>1, <2>3, <3>1 DEF JobEnds, WalletIInv, WalletTypeOK
    <3> QED BY <1>3, <3>1, <3>2, PaymentsKept DEF JobEnds
  <2> QED BY <1>3, <2>2, <2>3 DEF JobEnds
<1> QED BY <1>1, <1>2, <1>3

\* What is received, or unlocked, is counted.
LEMMA ReceiveKeeps ==
    ASSUME WalletIInv, Receive
    PROVE  WalletIInv'
<1>1. PICK f : f = funds
  OBVIOUS
<1>2. f \in [received : Nat, locked : Nat, unlocked : Nat, gained : Nat]
  BY <1>1 DEF WalletIInv, WalletTypeOK
<1>3. \/ funds' = [received |-> f.received + 1, locked |-> f.locked + 1,
                  unlocked |-> f.unlocked, gained |-> f.gained]
      \/ /\ f.locked > 0
         /\ funds' = [received |-> f.received, locked |-> f.locked - 1,
                     unlocked |-> f.unlocked + 1, gained |-> f.gained + 1]
  <2>1. \/ funds' = [f EXCEPT !.received = @ + 1, !.locked = @ + 1]
        \/ /\ f.locked > 0
           /\ funds' = [f EXCEPT !.locked = @ - 1, !.unlocked = @ + 1, !.gained = @ + 1]
    BY <1>1 DEF Receive
  <2> QED BY <1>2, <2>1
<1>4. /\ funds' \in [received : Nat, locked : Nat, unlocked : Nat, gained : Nat]
      /\ \/ funds'.gained = f.gained /\ funds'.unlocked = f.unlocked
         \/ funds'.gained = f.gained + 1 /\ funds'.unlocked = f.unlocked + 1
  BY <1>2, <1>3
<1>5. ASSUME NEW n \in DOMAIN requests
      PROVE  Confirmed(requests'[n], funds')
  <2>1. requests[n] \in Requests /\ requests' = requests
    BY ElementOfSeq, LenProperties DEF Receive, WalletIInv, WalletTypeOK
  <2>2. requests[n].to[1].amount \in Nat /\ requests[n].gained \in Nat
    BY <2>1, FormIs DEF Requests
  <2>3. Confirmed(requests[n], f)
    BY <1>1 DEF WalletIInv, AllConfirmed
  <2> QED BY <1>2, <1>4, <2>1, <2>2, <2>3 DEF Confirmed
<1>6. WalletTypeOK'
  BY <1>4 DEF Receive, WalletIInv, WalletTypeOK
<1>7. AllConfirmed'
  BY <1>5 DEF Receive, AllConfirmed
<1> QED
  BY <1>6, <1>7 DEF Receive, WalletIInv, HashIsOfWallet, AllSent, PaidAsConfirmed

\* The prompt opens and closes.
LEMMA PromptKeeps ==
    ASSUME WalletIInv, Cancel \/ \E form \in Forms : ClickTransfer(form)
    PROVE  WalletIInv'
<1>1. UNCHANGED <<screen, monero_wallet, opened, wallet_files, password_hash, jobs, funds, requests, chain>>
  BY DEF Cancel, ClickTransfer
<1>2. Len(requests) \in Nat
  BY LenProperties DEF WalletIInv, WalletTypeOK
<1>3. /\ prompt' \in Forms \cup {Nil}
      /\ Len(requests) + (IF prompt' = Nil THEN 0 ELSE 1) <= MaxRequests
  BY <1>2, WalletAssumption DEF Cancel, ClickTransfer, WalletIInv, WalletTypeOK
<1>4. WalletTypeOK' /\ HashIsOfWallet'
  BY <1>1, <1>3 DEF WalletIInv, WalletTypeOK, HashIsOfWallet
<1> QED BY <1>1, <1>4, PaymentsKept

\* The request that a confirmation appends was confirmed.
LEMMA RequestIs ==
    ASSUME WalletIInv, NEW typed \in AllPasswords, NEW at \in {"checking", "over"},
           screen = "home", prompt # Nil, verify_password(typed), at = "checking" => Len(prompt) = 1,
           prompt' = Nil, requests' = Append(requests, Request(typed, at))
    PROVE  LET n == Len(requests) + 1  r == Request(typed, at)
           IN  /\ requests' \in Seq(Requests) /\ Len(requests') <= MaxRequests
               /\ DOMAIN requests' = DOMAIN requests \cup {n} /\ n \notin DOMAIN requests
               /\ \A k \in DOMAIN requests : requests'[k] = requests[k]
               /\ requests'[n] = r /\ r.to = prompt /\ r.at = at
               /\ r.typed = IF r.mistaken THEN NoPassword ELSE r.password
               /\ \A f : Confirmed(r, f)
<1>1. monero_wallet \in Wallets /\ prompt \in Forms /\ monero_wallet # Nil
  BY DEF WalletIInv, WalletTypeOK
<1>2. PICK w : w = monero_wallet
  OBVIOUS
<1>3. PICK r : r = [to |-> prompt, typed |-> typed, password |-> w.password,
                    mistaken |-> w.mistaken, at |-> at, gained |-> 0]
  OBVIOUS
<1>4. r = Request(typed, at)
  BY <1>2, <1>3 DEF Request
<1>5. /\ w.password \in AllPasswords /\ w.mistaken \in BOOLEAN
      /\ typed = IF w.mistaken THEN NoPassword ELSE w.password
  <2>1. password_hash = [by |-> w.path, of |-> IF w.mistaken THEN NoPassword ELSE w.password]
    BY <1>1, <1>2 DEF WalletIInv, HashIsOfWallet
  <2>2. password_hash = [by |-> w.path, of |-> typed]
    BY <1>2 DEF verify_password
  <2>3. typed = IF w.mistaken THEN NoPassword ELSE w.password
    <3>1. password_hash.of = typed
      BY <2>2
    <3>2. password_hash.of = IF w.mistaken THEN NoPassword ELSE w.password
      BY <2>1
    <3> QED BY <3>1, <3>2
  <2> QED BY <1>1, <1>2, <2>3 DEF Wallets
<1>6. r \in Requests
  BY <1>1, <1>3, <1>5 DEF Requests
<1>7. /\ r.to = prompt /\ r.at = at
      /\ r.typed = IF r.mistaken THEN NoPassword ELSE r.password
  BY <1>3, <1>5
<1>8. \A f : Confirmed(r, f)
  BY <1>7 DEF Confirmed
<1>9. /\ requests \in Seq(Requests) /\ Len(requests) + 1 <= MaxRequests
  BY DEF WalletIInv, WalletTypeOK
<1>10. /\ requests' \in Seq(Requests) /\ Len(requests') = Len(requests) + 1
       /\ DOMAIN requests' = DOMAIN requests \cup {Len(requests) + 1}
       /\ Len(requests) + 1 \notin DOMAIN requests
       /\ \A k \in DOMAIN requests : requests'[k] = requests[k]
       /\ requests'[Len(requests) + 1] = r
  BY <1>4, <1>6, <1>9, AppendProperties, LenProperties
<1> QED BY <1>4, <1>7, <1>8, <1>9, <1>10

\* The requests of the list are as confirmed when funds were spent, or not.
LEMMA ConfirmedKept ==
    ASSUME WalletIInv,
           \/ funds' = funds
           \/ \A r \in Requests : Confirmed(r, funds) => Confirmed(r, funds'),
           NEW n, \A k \in DOMAIN requests' : k # n => k \in DOMAIN requests /\ requests'[k] = requests[k],
           n \in DOMAIN requests' => Confirmed(requests'[n], funds')
    PROVE  AllConfirmed'
<1>1. \A k \in DOMAIN requests : requests[k] \in Requests /\ Confirmed(requests[k], funds)
  BY ElementOfSeq, LenProperties DEF WalletIInv, WalletTypeOK, AllConfirmed
<1> QED BY <1>1 DEF AllConfirmed

\* The prompt's OK.
LEMMA ConfirmKeeps ==
    ASSUME WalletIInv, NEW typed \in AllPasswords, Confirm(typed)
    PROVE  WalletIInv'
<1>1. /\ prompt \in Forms /\ prompt' = Nil /\ monero_wallet # Nil /\ screen = "home" /\ prompt # Nil
      /\ verify_password(typed)
      /\ UNCHANGED <<monero_wallet, opened, wallet_files, password_hash, jobs>>
  BY DEF Confirm, WalletIInv, WalletTypeOK
<1>2. HashIsOfWallet'
  BY <1>1 DEF WalletIInv, HashIsOfWallet
<1>3. ASSUME screen' \in {screen, "dead"},
             funds' \in [received : Nat, locked : Nat, unlocked : Nat, gained : Nat],
             requests' \in Seq(Requests), Len(requests') <= MaxRequests
      PROVE  WalletTypeOK'
  <2>1. Len(requests') \in Nat
    BY <1>3, LenProperties
  <2>2. Len(requests') + (IF prompt' = Nil THEN 0 ELSE 1) <= MaxRequests
    BY <1>1, <1>3, <2>1
  <2> QED BY <1>1, <1>3, <2>2 DEF WalletIInv, WalletTypeOK
<1>4. CASE screen' = "dead" /\ UNCHANGED <<funds, requests, chain>>
  <2>1. /\ requests \in Seq(Requests) /\ Len(requests) \in Nat /\ Len(requests) + 1 <= MaxRequests
        /\ funds \in [received : Nat, locked : Nat, unlocked : Nat, gained : Nat]
    BY <1>1, LenProperties DEF WalletIInv, WalletTypeOK
  <2>2. Len(requests) <= MaxRequests
    BY <2>1, WalletAssumption
  <2>3. WalletTypeOK'
    BY <1>3, <1>4, <2>1, <2>2
  <2> QED BY <1>2, <1>4, <2>3, PaymentsKept
<1>5. CASE Len(prompt) = 1 /\ TransferOne(typed)
  <2> DEFINE n == Len(requests) + 1
  <2>1. /\ requests' = Append(requests, Request(typed, "checking"))
        /\ UNCHANGED <<screen, funds, chain>>
    BY <1>5 DEF TransferOne
  <2>2. /\ requests' \in Seq(Requests) /\ Len(requests') <= MaxRequests
        /\ DOMAIN requests' = DOMAIN requests \cup {n}
        /\ \A k \in DOMAIN requests : requests'[k] = requests[k]
        /\ Confirmed(requests'[n], funds')
    BY <1>1, <1>5, <2>1, RequestIs
  <2>3. AllConfirmed'
    BY <2>1, <2>2, ConfirmedKept
  <2>4. WalletTypeOK'
    BY <1>3, <2>1, <2>2 DEF WalletIInv, WalletTypeOK
  <2>5. AllSent' /\ PaidAsConfirmed'
    BY <2>1, <2>2, NoRelayKeeps DEF WalletIInv
  <2> QED BY <1>2, <2>3, <2>4, <2>5 DEF WalletIInv
<1>6. CASE TransferMany(typed)
  <2> DEFINE n == Len(requests) + 1
             r == Request(typed, "over")
             valid == Payable(prompt)
  <2>1. requests' = Append(requests, r)
    BY <1>6 DEF TransferMany
  <2>2. /\ requests' \in Seq(Requests) /\ Len(requests') <= MaxRequests
        /\ DOMAIN requests' = DOMAIN requests \cup {n} /\ n \notin DOMAIN requests
        /\ \A k \in DOMAIN requests : requests'[k] = requests[k]
        /\ requests'[n] = r /\ r.to = prompt /\ r.at = "over"
        /\ r.typed = IF r.mistaken THEN NoPassword ELSE r.password
        /\ Confirmed(r, funds')
    BY <1>1, <2>1, RequestIs
  <2>3. CASE UNCHANGED <<funds, chain>>
    <3>1. screen' \in {screen, "dead"}
      BY <1>6 DEF TransferMany
    <3>2. AllConfirmed'
      BY <2>2, <2>3, ConfirmedKept
    <3>3. WalletTypeOK'
      BY <1>3, <2>2, <2>3, <3>1 DEF WalletIInv, WalletTypeOK
    <3>4. AllSent' /\ PaidAsConfirmed'
      BY <2>2, <2>3, NoRelayKeeps DEF WalletIInv
    <3> QED BY <1>2, <3>2, <3>3, <3>4 DEF WalletIInv
  <2>4. CASE \E fee \in 0..MaxFee :
                /\ Relays(n, [i \in valid |-> prompt[i]], FALSE, TotalOf(prompt, valid) + fee, 0)
                /\ UNCHANGED screen
    <3>1. PICK fee \in 0..MaxFee :
                Relays(n, [i \in valid |-> prompt[i]], FALSE, TotalOf(prompt, valid) + fee, 0)
      BY <2>4
    <3> DEFINE x == [request |-> n, outs |-> [i \in valid |-> prompt[i]], sweep |-> FALSE, gain |-> 0]
    <3>2. /\ funds' \in [received : Nat, locked : Nat, unlocked : Nat, gained : Nat]
          /\ chain' = Append(chain, x)
          /\ \A q \in Requests : Confirmed(q, funds) => Confirmed(q, funds')
      BY <3>1, RelaySpends DEF WalletIInv
    <3>3. AllConfirmed'
      BY <2>2, <3>2, ConfirmedKept
    <3>4. WalletTypeOK'
      BY <1>3, <2>2, <2>4, <3>2 DEF WalletIInv, WalletTypeOK
    <3>5. x.request = n /\ x.sweep = FALSE /\ x.outs = [i \in valid |-> prompt[i]]
      OBVIOUS
    <3>6. Fulfils(x, r)
      BY <2>2, <3>5 DEF Fulfils
    <3> HIDE DEF x, r
    <3>7. AllSent' /\ PaidAsConfirmed'
      BY <2>2, <3>2, <3>5, <3>6, RelayKeeps DEF WalletIInv
    <3> QED BY <1>2, <3>3, <3>4, <3>7 DEF WalletIInv
  <2> QED BY <1>6, <2>3, <2>4 DEF TransferMany
<1> QED BY <1>4, <1>5, <1>6 DEF Confirm

\* The thread of a payment looks at the address and the balance.
LEMMA CheckKeeps ==
    ASSUME WalletIInv, NEW n, CheckTransfer(n)
    PROVE  WalletIInv'
<1>1. PICK to \in {"creating", "sweeping", "over"} :
        /\ Moves(n, "checking", to)
        /\ to # "over" => Payable(<<Recipient(n)>>) # {}
        /\ to = "sweeping" => funds.unlocked = Recipient(n).amount
  BY DEF CheckTransfer, Refused
<1>2. UNCHANGED <<funds, chain>>
  BY DEF CheckTransfer
<1>3. PICK r : r = requests[n]
  OBVIOUS
<1>4. /\ n \in DOMAIN requests /\ r \in Requests /\ r.at = "checking"
      /\ DOMAIN requests' = DOMAIN requests
      /\ \A k \in DOMAIN requests : k # n => requests'[k] = requests[k]
      /\ requests'[n] = [r EXCEPT !.at = to, !.gained = funds.gained]
      /\ WalletTypeOK' /\ HashIsOfWallet'
  <2>1. funds' \in [received : Nat, locked : Nat, unlocked : Nat, gained : Nat]
    BY <1>2 DEF WalletIInv, WalletTypeOK
  <2>2. Moves(n, "checking", to)
    BY <1>1
  <2>3. /\ n \in DOMAIN requests /\ requests[n] \in Requests /\ requests[n].at = "checking"
        /\ DOMAIN requests' = DOMAIN requests
        /\ \A k \in DOMAIN requests : k # n => requests'[k] = requests[k]
        /\ requests'[n] = [requests[n] EXCEPT !.at = to, !.gained = funds.gained]
        /\ WalletTypeOK' \/ funds' \notin [received : Nat, locked : Nat, unlocked : Nat, gained : Nat]
        /\ HashIsOfWallet'
    <3>1. CASE to = "creating"
      <4>1. Moves(n, "checking", "creating")
        BY <2>2, <3>1
      <4> QED BY <3>1, <4>1, MoveIs
    <3>2. CASE to = "sweeping"
      <4>1. Moves(n, "checking", "sweeping")
        BY <2>2, <3>2
      <4> QED BY <3>2, <4>1, MoveIs
    <3>3. CASE to = "over"
      <4>1. Moves(n, "checking", "over")
        BY <2>2, <3>3
      <4> QED BY <3>3, <4>1, MoveIs
    <3> QED BY <3>1, <3>2, <3>3
  <2> QED BY <1>3, <2>1, <2>3
<1>5. /\ requests'[n].to = r.to /\ requests'[n].typed = r.typed
      /\ requests'[n].mistaken = r.mistaken /\ requests'[n].password = r.password
      /\ requests'[n].at = to /\ requests'[n].gained = funds.gained
  BY <1>4 DEF Requests
<1>6. /\ r.typed = IF r.mistaken THEN NoPassword ELSE r.password
      /\ Len(r.to) = 1
  BY <1>3, <1>4 DEF WalletIInv, AllConfirmed, Confirmed
<1>7. /\ r.to \in Forms /\ funds.unlocked \in Nat /\ funds.gained \in Nat
  BY <1>4 DEF Requests, WalletIInv, WalletTypeOK
<1>8. to # "over" => Payable(r.to) = {1}
  BY <1>1, <1>3, <1>6, <1>7, PayableOne DEF Recipient
<1>9. Confirmed(requests'[n], funds')
  BY <1>1, <1>2, <1>3, <1>5, <1>6, <1>7, <1>8 DEF Confirmed, Recipient
<1>10. AllConfirmed'
  BY <1>2, <1>4, <1>9, ConfirmedKept
<1>11. AllSent' /\ PaidAsConfirmed'
  BY <1>2, <1>3, <1>4, NoRelayKeeps DEF WalletIInv
<1> QED BY <1>4, <1>10, <1>11 DEF WalletIInv

\* The thread makes the transaction, of the amount or of the balance, or cannot.
LEMMA RelayedKeeps ==
    ASSUME WalletIInv, NEW n, CreateTransfer(n) \/ SweepTransfer(n)
    PROVE  WalletIInv'
<1>1. PICK from \in {"creating", "sweeping"} :
        /\ Moves(n, from, "over")
        /\ \/ UNCHANGED <<funds, chain>>
           \/ /\ from = "creating"
              /\ \E fee \in 0..MaxFee :
                     Relays(n, [i \in {1} |-> Recipient(n)], FALSE, Recipient(n).amount + fee, 0)
           \/ /\ from = "sweeping"
              /\ \E fee \in 0..MaxFee :
                   /\ funds.unlocked > fee
                   /\ Relays(n, [i \in {1} |-> [Recipient(n) EXCEPT !.amount = funds.unlocked - fee]],
                             TRUE, funds.unlocked, funds.gained - requests[n].gained)
  BY DEF CreateTransfer, SweepTransfer
<1>2. PICK r : r = requests[n]
  OBVIOUS
<1>3. /\ n \in DOMAIN requests /\ r \in Requests /\ r.at = from
      /\ DOMAIN requests' = DOMAIN requests
      /\ \A k \in DOMAIN requests : k # n => requests'[k] = requests[k]
      /\ requests'[n] = [r EXCEPT !.at = "over", !.gained = funds.gained]
      /\ WalletTypeOK' \/ funds' \notin [received : Nat, locked : Nat, unlocked : Nat, gained : Nat]
      /\ HashIsOfWallet'
  BY <1>1, <1>2, MoveIs
<1>4. /\ requests'[n].to = r.to /\ requests'[n].typed = r.typed
      /\ requests'[n].mistaken = r.mistaken /\ requests'[n].password = r.password
      /\ requests'[n].at = "over"
  BY <1>3 DEF Requests
<1>5. /\ r.typed = IF r.mistaken THEN NoPassword ELSE r.password
      /\ Len(r.to) = 1 /\ Payable(r.to) = {1}
      /\ r.at = "sweeping" => /\ r.gained <= funds.gained
                              /\ funds.unlocked <= r.to[1].amount + (funds.gained - r.gained)
  BY <1>2, <1>3 DEF WalletIInv, AllConfirmed, Confirmed
<1>6. /\ r.to \in Forms /\ r.gained \in Nat /\ funds.unlocked \in Nat /\ funds.gained \in Nat
  BY <1>3 DEF Requests, WalletIInv, WalletTypeOK
<1>7. Confirmed(requests'[n], funds')
  BY <1>4, <1>5 DEF Confirmed
<1>8. CASE UNCHANGED <<funds, chain>>
  <2>1. AllConfirmed'
    BY <1>3, <1>7, <1>8, ConfirmedKept
  <2>2. AllSent' /\ PaidAsConfirmed'
    BY <1>2, <1>3, <1>8, NoRelayKeeps DEF WalletIInv
  <2>3. WalletTypeOK'
    BY <1>3, <1>8 DEF WalletIInv, WalletTypeOK
  <2> QED BY <1>3, <2>1, <2>2, <2>3 DEF WalletIInv
<1>9. ASSUME NEW outs, NEW sweep \in BOOLEAN, NEW spent, NEW gain, Relays(n, outs, sweep, spent, gain),
             DOMAIN outs = {1}, outs[1].address = r.to[1].address,
             IF sweep THEN outs[1].amount <= r.to[1].amount + gain
                      ELSE outs[1].amount = r.to[1].amount
      PROVE  WalletIInv'
  <2> DEFINE x == [request |-> n, outs |-> outs, sweep |-> sweep, gain |-> gain]
  <2>1. /\ funds' \in [received : Nat, locked : Nat, unlocked : Nat, gained : Nat]
        /\ chain' = Append(chain, x)
        /\ \A q \in Requests : Confirmed(q, funds) => Confirmed(q, funds')
    BY <1>9, RelaySpends DEF WalletIInv
  <2>2. AllConfirmed'
    BY <1>3, <1>7, <2>1, ConfirmedKept
  <2>3. x.request = n /\ x.sweep = sweep /\ x.outs = outs /\ x.gain = gain
    OBVIOUS
  <2> HIDE DEF x
  <2>4. Fulfils(x, requests'[n])
    BY <1>4, <1>5, <1>9, <2>3 DEF Fulfils
  <2>5. AllSent' /\ PaidAsConfirmed'
    BY <1>2, <1>3, <1>4, <2>1, <2>3, <2>4, RelayKeeps DEF WalletIInv
  <2> QED BY <1>3, <2>1, <2>2, <2>5 DEF WalletIInv
<1>10. CASE /\ from = "creating"
            /\ \E fee \in 0..MaxFee :
                   Relays(n, [i \in {1} |-> Recipient(n)], FALSE, Recipient(n).amount + fee, 0)
  <2>1. PICK fee \in 0..MaxFee :
          Relays(n, [i \in {1} |-> Recipient(n)], FALSE, Recipient(n).amount + fee, 0)
    BY <1>10
  <2>2. Recipient(n) = r.to[1]
    BY <1>2 DEF Recipient
  <2>3. PICK outs : outs = [i \in {1} |-> Recipient(n)]
    OBVIOUS
  <2> QED BY <1>9, <2>1, <2>2, <2>3
<1>11. CASE /\ from = "sweeping"
            /\ \E fee \in 0..MaxFee :
                 /\ funds.unlocked > fee
                 /\ Relays(n, [i \in {1} |-> [Recipient(n) EXCEPT !.amount = funds.unlocked - fee]],
                           TRUE, funds.unlocked, funds.gained - requests[n].gained)
  <2>1. PICK fee \in 0..MaxFee :
          /\ funds.unlocked > fee
          /\ Relays(n, [i \in {1} |-> [Recipient(n) EXCEPT !.amount = funds.unlocked - fee]],
                    TRUE, funds.unlocked, funds.gained - requests[n].gained)
    BY <1>11
  <2>2. PICK a : a = r.to[1]
    OBVIOUS
  <2>3. Recipient(n) = a /\ a \in [address : STRING, amount : Nat] /\ fee \in Nat
    BY <1>2, <1>6, <2>2, FormIs, WalletAssumption DEF Recipient
  <2>4. PICK outs : outs = [i \in {1} |-> [a EXCEPT !.amount = funds.unlocked - fee]]
    OBVIOUS
  <2>5. /\ DOMAIN outs = {1} /\ outs[1].address = a.address
        /\ outs[1].amount = funds.unlocked - fee
    BY <2>3, <2>4
  <2>6. outs[1].amount <= r.to[1].amount + (funds.gained - r.gained)
    BY <1>3, <1>5, <1>6, <1>11, <2>2, <2>3, <2>5
  <2>7. Relays(n, outs, TRUE, funds.unlocked, funds.gained - r.gained)
    BY <1>2, <2>1, <2>3, <2>4
  <2> QED BY <1>9, <2>2, <2>5, <2>6, <2>7
<1> QED BY <1>1, <1>8, <1>10, <1>11

\* The main page, the jobs and the payments keep the invariant (Wallet, WalletManager).
LEMMA WalletInvariant == WalletSpec => []WalletIInv
<1>1. WalletInit => WalletIInv
  <2> SUFFICES ASSUME WalletInit PROVE WalletIInv OBVIOUS
  <2>1. /\ <<>> \in Seq(Requests) /\ \A T : <<>> \in Seq(T)
        /\ Len(<<>>) = 0
    BY EmptySeq
  <2>2. WalletTypeOK
    BY <2>1, WalletAssumption DEF WalletInit, WalletTypeOK, AllPasswords
  <2> QED
    BY <2>1, <2>2 DEF WalletInit, WalletIInv, HashIsOfWallet, AllConfirmed, AllSent, PaidAsConfirmed
<1>2. WalletIInv /\ [WalletNext]_walletVars => WalletIInv'
  <2> SUFFICES ASSUME WalletIInv, [WalletNext]_walletVars PROVE WalletIInv'
    OBVIOUS
  <2>1. CASE UNCHANGED walletVars
    BY <2>1 DEF walletVars, WalletIInv, WalletTypeOK, HashIsOfWallet, AllConfirmed, AllSent,
       PaidAsConfirmed
  <2>2. CASE WalletNext
    BY <2>2, MainPageKeeps, NodeKeeps, ReceiveKeeps, PromptKeeps, ConfirmKeeps, CheckKeeps,
       RelayedKeeps DEF WalletNext, AllPasswords
  <2> QED BY <2>1, <2>2
<1> QED BY <1>1, <1>2, PTL DEF WalletSpec

\* Type correctness of the wallet, its jobs, its funds and the payments asked for.
THEOREM WalletTypeCorrect == WalletSpec => []WalletTypeOK
<1>1. WalletIInv => WalletTypeOK
  BY DEF WalletIInv
<1> QED BY <1>1, WalletInvariant, PTL

\* The transactions that leave the wallet are those that the user asked for with the
\* password, each once (walletPasswordSendPrompt, Wallet::transfer).
THEOREM PaymentsAreConfirmed == WalletSpec => []PaidAsConfirmed
<1>1. WalletIInv => PaidAsConfirmed
  BY DEF WalletIInv
<1> QED BY <1>1, WalletInvariant, PTL

----------------------------------------------------------------------------
(* Listings and their pictures.                                             *)

NoFile == [n \in {} |-> NoImage]

\* The folder of a listing has the pictures of its first submission, if its key was known.
FoldersAre ==
    /\ DOMAIN folders = 0..MaxListings
    /\ \A j \in 1..MaxListings :
          folders[j] = IF j \in DOMAIN submitted /\ submitted[j].folder = j /\ submitted[j].images # {}
                       THEN Saved(NoFile, submitted[j].images) ELSE NoFile

\* What is cached is what the folder has.
CacheIsOfFolders ==
    \A k \in DOMAIN cache : /\ k[1] \in DOMAIN submitted
                            /\ k[2] \in {Thumbnail} \cup NamesOf(submitted[k[1]].images)
                            /\ cache[k] = LoadedImage(k[1], k[2])

\* What was submitted with pictures is not in the form any more.
FormIsCleared ==
    /\ filled => forms # 0
    /\ \A j \in DOMAIN submitted : submitted[j].form = forms /\ submitted[j].images # {} => ~filled

\* The checks of the dialog.
ListingsWereChecked ==
    \A j \in DOMAIN submitted :
        /\ \A v, w \in submitted[j].variants : v.options = w.options => v = w
        /\ \A x \in submitted[j].images : Supported(x.file) /\ x.pieces = Pieces(x.file.bytes)

ListingFormIInv ==
    /\ ListingFormTypeOK
    /\ FoldersAre /\ CacheIsOfFolders /\ FormIsCleared /\ ListingsWereChecked
    /\ CacheTakesPictures /\ ListedOnce

\* A nonempty set of natural numbers has a least element: induction without an operator parameter.
LEMMA LeastNat ==
    ASSUME NEW T \in SUBSET Nat, T # {}
    PROVE  \E n \in T : \A m \in T : n <= m
<1> DEFINE R == {s \in Nat \X Nat : s[1] < s[2]}
<1>1. IsWellFoundedOn(R, Nat)
  BY NatLessThanWellFounded DEF OpToRel
<1>2. ASSUME NEW Q, IsWellFoundedOn(Q, Nat) PROVE \E n \in T : \A m \in T : ~(<<m, n>> \in Q)
  BY <1>2, WFMin, Zenon
<1>3. PICK n \in T : \A m \in T : ~(<<m, n>> \in R)
  BY <1>1, <1>2
<1>4. \A m, k \in Nat : <<m, k>> \in R <=> m < k
  OBVIOUS
<1> HIDE DEF R
<1>5. ASSUME NEW m \in T PROVE n <= m
  <2>1. ~(m < n)
    BY <1>3, <1>4, Zenon
  <2> QED BY <2>1
<1> QED BY <1>5

\* There is a first picture.
LEMMA FirstIs ==
    ASSUME NEW S \in SUBSET Uploads, S # {}
    PROVE  First(S) \in S /\ \A y \in S : First(S).id <= y.id
<1> DEFINE T == {x.id : x \in S}
<1>1. T \in SUBSET Nat /\ T # {}
  BY ListingFormAssumption DEF Uploads, SlotIds
<1>2. PICK n \in T : \A m \in T : n <= m
  BY <1>1, LeastNat
<1>3. \E x \in S : \A y \in S : x.id <= y.id
  BY <1>2
<1> QED BY <1>3 DEF First

\* A picture that the dialog admits has four pieces at the most.
LEMMA FewPieces ==
    ASSUME NEW bytes \in Nat \ {0}, bytes <= MaxImageSize
    PROVE  Pieces(bytes) \in 1..4
<1> DEFINE p == PieceSize(bytes)
<1>1. p \in Nat \ {0} /\ bytes <= 4 * p
  BY SMT DEF PieceSize, MaxImageSize
<1> HIDE DEF p
<1>2. PICK q : q = (bytes + p - 1) \div p
  OBVIOUS
<1>3. Pieces(bytes) = q
  BY <1>2 DEF Pieces, p
<1>4. q \in Int /\ p * q <= bytes + p - 1 /\ bytes + p - 1 < p * q + p
  BY <1>1, <1>2
<1>5. q >= 1
  <2>1. CASE q <= 0
    <3>1. p * q <= 0
      BY <1>1, <1>4, <2>1
    <3> QED BY <1>1, <1>4, <3>1
  <2> QED BY <2>1, <1>4
<1>6. q <= 4
  <2>1. CASE q >= 5
    <3>1. p * q >= p * 5
      BY <1>1, <1>4, <2>1
    <3> QED BY <1>1, <1>4, <3>1
  <2> QED BY <2>1, <1>4
<1> QED BY <1>3, <1>4, <1>5, <1>6

\* An image of dimensions that the dialog admits, with at most four bytes for a pixel, is no
\* more than the cache of the pages can take (isSupportedImageDimension, ImageProvider).
THEOREM SupportedImagesFitTheCache ==
    ASSUME NEW f \in Pictures, isSupportedImageDimension(f.width, f.height), f.depth <= 4
    PROVE  Cost(f) <= MaxCost
<1>1. PICK w \in Nat, h \in Nat, d \in Nat : w = f.width /\ h = f.height /\ d = f.depth
  BY DEF Pictures
<1>2. ASSUME NEW a \in Nat, NEW b \in Nat, w <= a, h <= b PROVE w * h <= a * b
  <2>1. w * h <= a * h
    BY <1>2
  <2>2. a * h <= a * b
    BY <1>2
  <2>3. w * h \in Nat /\ a * h \in Nat /\ a * b \in Nat
    OBVIOUS
  <2> QED BY <2>1, <2>2, <2>3
<1>3. w * h <= 2560000
  <2>1. CASE w <= 1920 /\ h <= 1280
    BY <1>2, <2>1, SMT
  <2>2. CASE w <= 1280 /\ h <= 1920
    BY <1>2, <2>2, SMT
  <2>3. CASE w <= 1600 /\ h <= 1600
    BY <1>2, <2>3, SMT
  <2> QED BY <1>1, <2>1, <2>2, <2>3, SMT DEF isSupportedImageDimension
<1>4. PICK x \in Nat : x = w * h
  OBVIOUS
<1>5. d * x <= 4 * x
  BY <1>1
<1>6. d * w * h = d * x
  BY <1>4
<1> QED BY <1>1, <1>3, <1>4, <1>5, <1>6, SMT DEF Cost, MaxCost

\* The images of a listing are pictures of the form.
LEMMA ImagesAre ==
    ASSUME ListingFormTypeOK, \A s \in Ready : Supported(pictures[s])
    PROVE  /\ Images \in SUBSET Uploads
           /\ Images = {} <=> Ready = {}
           /\ \A x \in Images : Supported(x.file) /\ x.pieces = Pieces(x.file.bytes)
<1>1. ASSUME NEW s \in Ready
      PROVE  /\ s \in SlotIds /\ pictures[s] \in Files /\ Pieces(pictures[s].bytes) \in Nat
  <2>1. s \in SlotIds /\ pictures[s] \in Files
    BY DEF Ready, ListingFormTypeOK
  <2>2. pictures[s].bytes \in Nat \ {0}
    BY <2>1, ListingFormAssumption DEF Pictures
  <2>3. pictures[s].bytes <= MaxImageSize
    BY DEF Supported
  <2> QED BY <2>1, <2>2, <2>3, FewPieces
<1>2. ASSUME NEW x \in Images
      PROVE  x \in Uploads /\ Supported(x.file) /\ x.pieces = Pieces(x.file.bytes)
  <2>1. PICK s \in Ready : x = [id |-> s, file |-> pictures[s], pieces |-> Pieces(pictures[s].bytes)]
    BY DEF Images
  <2> QED BY <1>1, <2>1 DEF Uploads
<1>3. Images = {} <=> Ready = {}
  BY DEF Images
<1> QED BY <1>2, <1>3

\* A listing is made of what is in the form, the variants having different options.
LEMMA ListIs ==
    ASSUME ListingFormTypeOK, NEW folder \in Nat, list_item(folder),
           \A s \in Ready : Supported(pictures[s])
    PROVE  \E x \in Listed :
              /\ x.form = forms /\ x.folder = folder /\ x.images = Images
              /\ \A v, w \in x.variants : v.options = w.options => v = w
              /\ submitted' = Append(submitted, x)
<1> DEFINE x == [form |-> forms, variants |-> Variants(VariantsList), images |-> Images,
                 folder |-> folder]
<1>1. Images \in SUBSET Uploads
  BY ImagesAre
<1>2. VariantsList \in Seq(Offered)
  <2>1. variations \in Seq(Rows) /\ forms \in Nat
    BY DEF ListingFormTypeOK
  <2>2. ASSUME NEW i \in DOMAIN variations PROVE VariantOf(variations[i]) \in Offered
    <3>1. PICK row : row = variations[i]
      OBVIOUS
    <3>2. row \in Rows
      BY <2>1, <3>1
    <3>3. row.options \in Options /\ row.info \in Infos \cup {Unsaid}
      BY <3>2 DEF Rows
    <3>4. PICK n \in Nat : n = IF row.info = Unsaid THEN forms ELSE 0
      BY <2>1
    <3>5. [options |-> row.options, info |-> row.info, form |-> n] \in Offered
      BY <3>3 DEF Offered
    <3>6. VariantOf(row) \in Offered
      BY <3>4, <3>5 DEF VariantOf
    <3> QED BY <3>1, <3>6
  <2>3. VariantsList \in [1..Len(variations) -> Offered]
    BY <2>1, <2>2 DEF VariantsList
  <2> QED BY <2>1, <2>3
<1>3. /\ Variants(VariantsList) \in SUBSET Offered
      /\ \A v, w \in Variants(VariantsList) : v.options = w.options => v = w
  <2>1. PICK list : list = VariantsList
    OBVIOUS
  <2>2. ASSUME NEW v \in Variants(list), NEW w \in Variants(list), v.options = w.options
        PROVE  v = w
    <3>1. PICK i \in DOMAIN list : v = list[i] /\ \A j \in DOMAIN list :
                                      list[j].options = list[i].options => i <= j
      BY DEF Variants
    <3>2. PICK k \in DOMAIN list : w = list[k] /\ \A j \in DOMAIN list :
                                      list[j].options = list[k].options => k <= j
      BY DEF Variants
    <3>3. i \in Nat /\ k \in Nat
      BY <1>2, <2>1
    <3> QED BY <2>2, <3>1, <3>2, <3>3
  <2>3. Variants(list) \in SUBSET Offered
    BY <1>2, <2>1 DEF Variants
  <2> QED BY <2>1, <2>2, <2>3
<1>4. x \in Listed
  BY <1>1, <1>3, SMT DEF ListingFormTypeOK, Listed
<1>5. submitted' = Append(submitted, x)
  BY DEF list_item
<1>6. x.form = forms /\ x.folder = folder /\ x.images = Images /\ x.variants = Variants(VariantsList)
  OBVIOUS
<1> HIDE DEF x
<1> QED BY <1>3, <1>4, <1>5, <1>6


\* What a folder has after the first pictures were saved in it.
LEMMA SavedIs ==
    ASSUME NEW S, NEW n \in {Thumbnail} \cup NamesOf(S)
    PROVE  /\ n \in DOMAIN Saved(NoFile, S)
           /\ Saved(NoFile, S)[n] =
                  IF n = Thumbnail THEN First(S).file ELSE First(Named(S, n)).file
BY DEF Saved, NoFile

\* What is loaded for a name of listing j.
LEMMA LoadedIs ==
    ASSUME ListingFormTypeOK, FoldersAre, NEW j \in DOMAIN submitted,
           NEW n \in {Thumbnail} \cup NamesOf(submitted[j].images)
    PROVE  LoadedImage(j, n) =
              IF submitted[j].folder = j /\ submitted[j].images # {}
              THEN IF n = Thumbnail THEN First(submitted[j].images).file
                   ELSE First(Named(submitted[j].images, n)).file
              ELSE NoImage
<1>1. j \in 1..MaxListings
  BY ListingFormAssumption DEF ListingFormTypeOK
<1>2. folders[j] = IF submitted[j].folder = j /\ submitted[j].images # {}
                   THEN Saved(NoFile, submitted[j].images) ELSE NoFile
  BY <1>1 DEF FoldersAre
<1>3. n \notin DOMAIN NoFile
  BY DEF NoFile
<1> QED BY <1>2, <1>3, SavedIs DEF LoadedImage

LEMMA ImagesOf ==
    ASSUME ListingFormTypeOK, NEW j \in DOMAIN submitted
    PROVE  /\ submitted[j] \in Listed
           /\ submitted[j].images \in SUBSET Uploads
           /\ \A x \in submitted[j].images : x.file \in Files /\ x.file \in Pictures
<1>1. submitted[j] \in Listed
  BY DEF ListingFormTypeOK
<1>2. submitted[j].images \in SUBSET Uploads
  BY <1>1 DEF Listed
<1> QED BY <1>1, <1>2, ListingFormAssumption DEF Uploads

LEMMA FirstShown == ListingFormTypeOK /\ FoldersAre /\ CacheIsOfFolders => PicturesShown
<1> SUFFICES ASSUME ListingFormTypeOK, FoldersAre, CacheIsOfFolders, NEW k \in DOMAIN cache
             PROVE  LET images == submitted[k[1]].images
                        candidates == IF k[2] = Thumbnail THEN images ELSE Named(images, k[2])
                    IN  IF submitted[k[1]].folder = k[1] /\ candidates # {}
                        THEN \E x \in candidates : /\ \A y \in candidates : x.id <= y.id
                                                   /\ cache[k] = x.file
                        ELSE cache[k] = NoImage
  BY DEF PicturesShown
<1>1. PICK j \in DOMAIN submitted : j = k[1]
  BY DEF CacheIsOfFolders
<1>2. PICK images : images = submitted[j].images
  OBVIOUS
<1>3. PICK n \in {Thumbnail} \cup NamesOf(images) : n = k[2]
  BY <1>1, <1>2 DEF CacheIsOfFolders
<1>4. cache[k] = LoadedImage(j, n)
  BY <1>1, <1>3 DEF CacheIsOfFolders
<1>5. PICK S : S = IF n = Thumbnail THEN images ELSE Named(images, n)
  OBVIOUS
<1>6. S \in SUBSET Uploads
  BY <1>2, <1>5, ImagesOf DEF Named
<1>7. images # {} <=> S # {}
  BY <1>3, <1>5 DEF Named, NamesOf
<1>8. cache[k] = IF submitted[j].folder = j /\ S # {} THEN First(S).file ELSE NoImage
  BY <1>2, <1>3, <1>4, <1>5, <1>7, LoadedIs
<1>9. S # {} => First(S) \in S /\ \A y \in S : First(S).id <= y.id
  BY <1>6, FirstIs
<1>10. IF submitted[j].folder = j /\ S # {}
       THEN \E x \in S : (\A y \in S : x.id <= y.id) /\ cache[k] = x.file
       ELSE cache[k] = NoImage
  BY <1>8, <1>9
<1> QED BY <1>1, <1>2, <1>3, <1>5, <1>10

\* The steps that leave the listings, the folders and the cache alone.
LEMMA FillingKeeps ==
    ASSUME ListingFormIInv, UNCHANGED <<submitted, folders, cache, crashed>>,
           \/ filled' = filled /\ forms' = forms
           \/ filled' = TRUE /\ forms' = forms + 1,
           pictures' \in [SlotIds -> Files \cup {NoImage}], lastImageIndex' \in 0..Slots,
           variations' \in Seq(Rows)
    PROVE  ListingFormIInv'
<1> USE DEF ListingFormIInv
<1>1. ListingFormTypeOK'
  <2>1. \A j \in DOMAIN submitted : submitted[j].form \in 1..forms' /\ submitted[j].folder \in {0, j}
    BY DEF ListingFormTypeOK
  <2>2. filled' \in BOOLEAN
    BY Zenon DEF ListingFormTypeOK
  <2>3. forms' \in Nat
    BY DEF ListingFormTypeOK
  <2> QED BY <2>1, <2>2, <2>3 DEF ListingFormTypeOK
<1>2. FoldersAre'
  BY DEF FoldersAre
<1>3. CacheIsOfFolders'
  BY DEF CacheIsOfFolders, LoadedImage
<1>4. FormIsCleared'
  BY DEF FormIsCleared, ListingFormTypeOK
<1>5. ListingsWereChecked' /\ CacheTakesPictures' /\ ListedOnce'
  BY DEF ListingsWereChecked, CacheTakesPictures, ListedOnce
<1> QED BY <1>1, <1>2, <1>3, <1>4, <1>5

LEMMA SubmitKeeps ==
    ASSUME ListingFormIInv, NEW named \in BOOLEAN, Submit(named)
    PROVE  ListingFormIInv'
<1> USE DEF ListingFormIInv
<1>1. PICK j \in 1..MaxListings : j = Len(submitted) + 1
  BY ListingFormAssumption DEF Submit, ListingFormTypeOK
<1>2. PICK folder \in {0, j} : folder = IF named THEN Len(submitted) + 1 ELSE 0
  BY <1>1
<1>3. /\ filled /\ list_item(folder) /\ \A s \in Ready : Supported(pictures[s])
      /\ UNCHANGED <<forms, lastImageIndex, variations, cache, crashed>>
      /\ IF Ready = {} THEN UNCHANGED <<filled, pictures, folders>>
         ELSE /\ folders' = [folders EXCEPT ![folder] = Saved(@, Images)]
              /\ filled' = FALSE
              /\ pictures' = Empty
  BY <1>2 DEF Submit
<1>4. PICK x \in Listed :
          /\ x.form = forms /\ x.folder = folder /\ x.images = Images
          /\ \A v, w \in x.variants : v.options = w.options => v = w
          /\ submitted' = Append(submitted, x)
  BY <1>2, <1>3, ListIs
<1>5. /\ submitted \in Seq(Listed) /\ submitted' \in Seq(Listed)
      /\ DOMAIN submitted = 1..(j - 1) /\ DOMAIN submitted' = 1..j
      /\ submitted'[j] = x /\ \A i \in DOMAIN submitted : submitted'[i] = submitted[i]
  BY <1>1, <1>4 DEF ListingFormTypeOK
<1>6. /\ Images = {} <=> Ready = {}
      /\ \A y \in Images : Supported(y.file) /\ y.pieces = Pieces(y.file.bytes)
  BY <1>3, ImagesAre
<1>7. ListingFormTypeOK'
  <2>1. Len(submitted') <= MaxListings
    BY <1>5
  <2>2. \A i \in DOMAIN submitted' : submitted'[i].form \in 1..forms /\ submitted'[i].folder \in {0, i}
    <3>1. forms \in 1..forms
      BY <1>3 DEF FormIsCleared, ListingFormTypeOK
    <3> QED BY <3>1, <1>4, <1>5 DEF ListingFormTypeOK
  <2>3. pictures' \in [SlotIds -> Files \cup {NoImage}] /\ filled' \in BOOLEAN
    BY <1>3 DEF ListingFormTypeOK, Empty
  <2> QED BY <1>3, <1>5, <2>1, <2>2, <2>3 DEF ListingFormTypeOK
<1>8. /\ DOMAIN folders' = 0..MaxListings
      /\ \A i \in 1..MaxListings : i # j => folders'[i] = folders[i]
      /\ folders'[j] = IF folder = j /\ Images # {} THEN Saved(NoFile, Images) ELSE NoFile
  <2>1. DOMAIN folders = 0..MaxListings /\ folders[j] = NoFile
    BY <1>5 DEF FoldersAre
  <2>2. CASE Ready = {}
    BY <1>3, <1>6, <2>1, <2>2
  <2>3. CASE Ready # {}
    <3>1. folders' = [folders EXCEPT ![folder] = Saved(@, Images)]
      BY <1>3, <2>3
    <3>2. j # 0
      OBVIOUS
    <3> QED BY <1>6, <2>1, <2>3, <3>1, <3>2
  <2> QED BY <2>2, <2>3
<1>9. FoldersAre'
  <2>1. ASSUME NEW i \in 1..MaxListings
        PROVE  folders'[i] =
                  IF i \in DOMAIN submitted' /\ submitted'[i].folder = i /\ submitted'[i].images # {}
                  THEN Saved(NoFile, submitted'[i].images) ELSE NoFile
    <3>1. CASE i = j
      BY <1>4, <1>5, <1>8, <3>1
    <3>2. CASE i # j
      <4>1. i \in DOMAIN submitted <=> i \in DOMAIN submitted'
        BY <1>5, <3>2
      <4>2. i \in DOMAIN submitted => submitted'[i] = submitted[i]
        BY <1>5
      <4> QED BY <1>8, <3>2, <4>1, <4>2 DEF FoldersAre
    <3> QED BY <3>1, <3>2
  <2> QED BY <1>8, <2>1 DEF FoldersAre, Saved, NoFile, First, Named, NamesOf
<1>10. CacheIsOfFolders'
  <2>1. ASSUME NEW k \in DOMAIN cache
        PROVE  /\ k[1] \in DOMAIN submitted'
               /\ k[2] \in {Thumbnail} \cup NamesOf(submitted'[k[1]].images)
               /\ cache[k] = IF k[2] \in DOMAIN folders'[k[1]] THEN folders'[k[1]][k[2]] ELSE NoImage
    <3>1. PICK i \in DOMAIN submitted : i = k[1]
      BY DEF CacheIsOfFolders
    <3>2. i \in 1..MaxListings /\ i # j /\ i \in DOMAIN submitted' /\ submitted'[i] = submitted[i]
      BY <1>5, ListingFormAssumption
    <3>3. folders'[i] = folders[i]
      BY <1>8, <3>2
    <3>4. /\ k[2] \in {Thumbnail} \cup NamesOf(submitted[i].images)
          /\ cache[k] = IF k[2] \in DOMAIN folders[i] THEN folders[i][k[2]] ELSE NoImage
      BY <3>1 DEF CacheIsOfFolders, LoadedImage
    <3> QED BY <3>1, <3>2, <3>3, <3>4
  <2> QED BY <1>3, <2>1 DEF CacheIsOfFolders, LoadedImage, NamesOf
<1>11. FormIsCleared'
  <2>1. ASSUME NEW i \in DOMAIN submitted', submitted'[i].form = forms, submitted'[i].images # {}
        PROVE  ~filled'
    <3>1. CASE i = j
      <4>1. Ready # {}
        BY <1>4, <1>5, <1>6, <2>1, <3>1
      <4> QED BY <1>3, <4>1
    <3>2. CASE i # j
      <4>1. i \in DOMAIN submitted /\ submitted'[i] = submitted[i]
        BY <1>5, <3>2
      <4> QED BY <1>3, <2>1, <4>1 DEF FormIsCleared
    <3> QED BY <3>1, <3>2
  <2>2. filled' => filled
    BY <1>3
  <2> QED BY <1>3, <2>1, <2>2 DEF FormIsCleared
<1>12. ListingsWereChecked'
  <2>1. ASSUME NEW i \in DOMAIN submitted'
        PROVE  /\ \A v, w \in submitted'[i].variants : v.options = w.options => v = w
               /\ \A y \in submitted'[i].images : Supported(y.file) /\ y.pieces = Pieces(y.file.bytes)
    <3>1. CASE i = j
      BY <1>4, <1>5, <1>6, <3>1
    <3>2. CASE i # j
      <4>1. i \in DOMAIN submitted /\ submitted'[i] = submitted[i]
        BY <1>5, <3>2
      <4> QED BY <4>1 DEF ListingsWereChecked
    <3> QED BY <3>1, <3>2
  <2> QED BY <2>1 DEF ListingsWereChecked
<1>13. CacheTakesPictures'
  BY <1>3, <1>5 DEF CacheTakesPictures
<1>14. ListedOnce'
  <2>1. ASSUME NEW i \in DOMAIN submitted', NEW k \in DOMAIN submitted', i < k,
               submitted'[i].form = submitted'[k].form
        PROVE  submitted'[i].images = {}
    <3>1. i \in DOMAIN submitted /\ submitted'[i] = submitted[i]
      BY <1>5, <2>1
    <3>2. CASE k = j
      BY <1>3, <1>4, <1>5, <2>1, <3>1, <3>2 DEF FormIsCleared
    <3>3. CASE k # j
      <4>1. k \in DOMAIN submitted /\ submitted'[k] = submitted[k]
        BY <1>5, <3>3
      <4> QED BY <2>1, <3>1, <4>1 DEF ListedOnce
    <3> QED BY <3>2, <3>3
  <2> QED BY <2>1 DEF ListedOnce
<1> QED BY <1>7, <1>9, <1>10, <1>11, <1>12, <1>13, <1>14

LEMMA RequestKeeps ==
    ASSUME ListingFormIInv, NEW j, NEW n, requestImage(j, n)
    PROVE  ListingFormIInv'
<1> USE DEF ListingFormIInv
<1>1. /\ j \in DOMAIN submitted /\ n \in {Thumbnail} \cup NamesOf(submitted[j].images)
      /\ <<j, n>> \notin DOMAIN cache
      /\ UNCHANGED <<filled, forms, pictures, lastImageIndex, variations, submitted, folders>>
      /\ IF TooCostly(n, LoadedImage(j, n)) THEN crashed' = TRUE /\ UNCHANGED cache
         ELSE /\ \E kept \in SUBSET DOMAIN cache :
                    cache' = [k \in kept \cup {<<j, n>>} |->
                                IF k \in kept THEN cache[k] ELSE LoadedImage(j, n)]
              /\ UNCHANGED crashed
  BY DEF requestImage
<1>2. /\ FoldersAre' /\ FormIsCleared' /\ ListingsWereChecked' /\ ListedOnce'
  BY <1>1 DEF FoldersAre, FormIsCleared, ListingsWereChecked, ListedOnce
<1>3. ListingFormTypeOK'
  BY <1>1 DEF ListingFormTypeOK
<1>4. CacheIsOfFolders'
  <2>1. CASE UNCHANGED cache
    BY <1>1, <2>1 DEF CacheIsOfFolders, LoadedImage
  <2>2. ASSUME NEW kept \in SUBSET DOMAIN cache,
               cache' = [k \in kept \cup {<<j, n>>} |->
                           IF k \in kept THEN cache[k] ELSE LoadedImage(j, n)]
        PROVE  CacheIsOfFolders'
    <3>1. PICK l : l = LoadedImage(j, n)
      OBVIOUS
    <3>2. ASSUME NEW k \in kept \cup {<<j, n>>}
          PROVE  /\ k[1] \in DOMAIN submitted
                 /\ k[2] \in {Thumbnail} \cup NamesOf(submitted[k[1]].images)
                 /\ cache'[k] = LoadedImage(k[1], k[2])
      <4>1. CASE k \in kept
        BY <2>2, <4>1 DEF CacheIsOfFolders
      <4>2. CASE k = <<j, n>>
        <5>1. k[1] = j /\ k[2] = n /\ k \notin kept
          BY <1>1, <4>2
        <5>2. cache'[k] = l
          BY <2>2, <3>1, <5>1
        <5> QED BY <1>1, <3>1, <5>1, <5>2
      <4> QED BY <4>1, <4>2
    <3>3. DOMAIN cache' = kept \cup {<<j, n>>}
      BY <2>2
    <3> QED BY <1>1, <3>2, <3>3 DEF CacheIsOfFolders, LoadedImage
  <2> QED BY <1>1, <2>1, <2>2
<1>5. CacheTakesPictures'
  <2>1. CASE ~TooCostly(n, LoadedImage(j, n))
    BY <1>1, <2>1 DEF CacheTakesPictures
  <2>2. CASE TooCostly(n, LoadedImage(j, n))
    <3>1. PICK f : f = LoadedImage(j, n)
      OBVIOUS
    <3>2. n # Thumbnail /\ f # NoImage /\ Cost(f) > MaxCost
      BY <2>2, <3>1 DEF TooCostly
    <3>3. PICK S : S = Named(submitted[j].images, n)
      OBVIOUS
    <3>4. S \in SUBSET Uploads /\ S # {} /\ S \subseteq submitted[j].images
      BY <1>1, <3>2, <3>3, ImagesOf DEF Named, NamesOf
    <3>5. First(S) \in S
      BY <3>4, FirstIs
    <3>6. f = First(S).file
      BY <1>1, <3>1, <3>2, <3>3, LoadedIs
    <3>7. Supported(f) /\ f \in Pictures
      BY <1>1, <3>4, <3>5, <3>6, ImagesOf DEF ListingsWereChecked
    <3>8. ~(f.depth <= 4)
      <4>1. Cost(f) \in Nat
        BY <3>7 DEF Cost, Pictures
      <4>2. CASE f.depth <= 4
        <5>1. Cost(f) <= MaxCost
          BY <3>7, <4>2, SupportedImagesFitTheCache DEF Supported
        <5>2. MaxCost \in Nat
          BY SMT DEF MaxCost
        <5> QED BY <3>2, <4>1, <5>1, <5>2
      <4> QED BY <4>2
    <3>9. f.depth > 4
      BY <3>7, <3>8 DEF Pictures
    <3> QED BY <1>1, <3>4, <3>5, <3>6, <3>9 DEF CacheTakesPictures
  <2> QED BY <2>1, <2>2
<1> QED BY <1>2, <1>3, <1>4, <1>5

LEMMA ListingFormSteps == ListingFormIInv /\ [ListingFormNext]_listingFormVars => ListingFormIInv'
<1> SUFFICES ASSUME ListingFormIInv, [ListingFormNext]_listingFormVars PROVE ListingFormIInv'
  OBVIOUS
<1>0. /\ pictures \in [SlotIds -> Files \cup {NoImage}] /\ lastImageIndex \in 0..Slots
      /\ variations \in Seq(Rows) /\ Slots \in Nat \ {0}
  BY ListingFormAssumption DEF ListingFormIInv, ListingFormTypeOK
<1>1. CASE FillIn
  BY <1>0, <1>1, FillingKeeps DEF FillIn
<1>2. ASSUME NEW s \in SlotIds, NEW f \in Files, ChoosePicture(s, f) PROVE ListingFormIInv'
  <2>1. pictures' \in [SlotIds -> Files \cup {NoImage}]
    BY <1>0, <1>2 DEF ChoosePicture
  <2>2. lastImageIndex' \in 0..Slots
    BY <1>0, <1>2 DEF ChoosePicture, SlotIds
  <2> QED BY <1>0, <1>2, <2>1, <2>2, FillingKeeps DEF ChoosePicture
<1>3. CASE RemovePicture
  <2>1. pictures' \in [SlotIds -> Files \cup {NoImage}]
    BY <1>0, <1>3 DEF RemovePicture
  <2>2. lastImageIndex' \in 0..Slots
    BY <1>0, <1>3 DEF RemovePicture
  <2> QED BY <1>0, <1>3, <2>1, <2>2, FillingKeeps DEF RemovePicture
<1>4. ASSUME NEW table \in Tables, EditVariants(table) PROVE ListingFormIInv'
  <2>1. variations' \in Seq(Rows)
    BY <1>4, ListingFormAssumption DEF EditVariants
  <2> QED BY <1>0, <1>4, <2>1, FillingKeeps DEF EditVariants
<1>5. ASSUME NEW named \in BOOLEAN, Submit(named) PROVE ListingFormIInv'
  BY <1>5, SubmitKeeps
<1>6. ASSUME NEW j, NEW n, requestImage(j, n) PROVE ListingFormIInv'
  BY <1>6, RequestKeeps
<1>7. CASE UNCHANGED listingFormVars
  BY <1>0, <1>7, FillingKeeps DEF listingFormVars
<1> QED BY <1>1, <1>2, <1>3, <1>4, <1>5, <1>6, <1>7 DEF ListingFormNext

LEMMA ListingFormInitially == ListingFormInit => ListingFormIInv
<1> SUFFICES ASSUME ListingFormInit PROVE ListingFormIInv
  OBVIOUS
<1>1. ListingFormTypeOK
  <2>1. <<>> \in Seq(Rows) /\ <<>> \in Seq(Listed) /\ Len(<<>>) = 0 /\ DOMAIN <<>> = {}
    BY EmptySeq, SMT
  <2>2. lastImageIndex \in 0..Slots /\ Len(<<>>) <= MaxListings
    BY <2>1, ListingFormAssumption DEF ListingFormInit
  <2> QED BY <2>1, <2>2 DEF ListingFormInit, ListingFormTypeOK, Empty
<1>2. FoldersAre
  BY DEF ListingFormInit, FoldersAre, NoFile
<1>3. CacheIsOfFolders
  BY DEF ListingFormInit, CacheIsOfFolders
<1>4. FormIsCleared /\ ListingsWereChecked /\ CacheTakesPictures /\ ListedOnce
  BY DEF ListingFormInit, FormIsCleared, ListingsWereChecked, CacheTakesPictures, ListedOnce
<1> QED BY <1>1, <1>2, <1>3, <1>4 DEF ListingFormIInv

\* Filling in the form, submitting it and asking for pictures keep the invariant.
LEMMA ListingFormInvariant == ListingFormSpec => []ListingFormIInv
  BY ListingFormInitially, ListingFormSteps, PTL DEF ListingFormSpec

\* Type correctness of the form, the listings put and the slots of the pictures.
THEOREM ListingFormTypeCorrect == ListingFormSpec => []ListingFormTypeOK
<1>1. ListingFormIInv => ListingFormTypeOK
  BY DEF ListingFormIInv
<1> QED BY <1>1, ListingFormInvariant, PTL

\* What is submitted is what the form was filled in with, once, and what the pages show of its
\* pictures is the first of each name (Submit, saveProductImage, requestImage).
THEOREM ListingsAreAsFilled == ListingFormSpec => []ListedAsFilled
<1>1. ListingFormIInv => ListedAsFilled
  <2> SUFFICES ASSUME ListingFormIInv PROVE ListedAsFilled
    OBVIOUS
  <2>1. PicturesShown
    BY FirstShown DEF ListingFormIInv
  <2>2. ASSUME NEW j \in DOMAIN submitted, NEW x \in submitted[j].images PROVE x.pieces \in 1..4
    <3>1. x.file \in Pictures /\ Supported(x.file) /\ x.pieces = Pieces(x.file.bytes)
      BY ImagesOf DEF ListingFormIInv, ListingsWereChecked
    <3>2. x.file.bytes \in Nat \ {0} /\ x.file.bytes <= MaxImageSize
      BY <3>1 DEF Pictures, Supported
    <3> QED BY <3>1, <3>2, FewPieces
  <2>3. ListingsWellFormed
    BY <2>2 DEF ListingFormIInv, ListingsWereChecked, ListingsWellFormed
  <2> QED BY <2>1, <2>3 DEF ListedAsFilled, ListingFormIInv
<1> QED BY <1>1, ListingFormInvariant, PTL

----------------------------------------------------------------------------
(* The composition.                                                         *)

\* Of the four machines one runs, and all have begun.
LEMMA DesktopParts ==
    DesktopSpec => CatalogueSpec /\ MessagesSpec /\ WalletSpec /\ ListingFormSpec
<1>1. DesktopInit => CatalogueInit /\ MessagesInit /\ WalletInit /\ ListingFormInit
  BY DEF DesktopInit
<1>2. [DesktopNext]_desktopVars => /\ [CatalogueNext]_catalogueVars
                                   /\ [MessagesNext]_messageVars
                                   /\ [WalletNext]_walletVars
                                   /\ [ListingFormNext]_listingFormVars
  BY DEF DesktopNext, desktopVars, Pages, Mails, Payments, Form
<1> QED
  BY <1>1, <1>2, PTL DEF DesktopSpec, CatalogueSpec, MessagesSpec, WalletSpec, ListingFormSpec

\* Every page, message, payment and listing of the application has its type, whichever of
\* its machines runs.
THEOREM DesktopTypeCorrect == DesktopSpec => []DesktopTypeOK
<1>1. CatalogueTypeOK /\ MessagesTypeOK /\ WalletTypeOK /\ ListingFormTypeOK => DesktopTypeOK
  BY DEF DesktopTypeOK
<1> QED BY <1>1, DesktopParts, CatalogueTypeCorrect, MessagesTypeCorrect, WalletTypeCorrect,
           ListingFormTypeCorrect, PTL

\* Pages show what they should at current prices, messages are read as written, payments are
\* made as confirmed and listings as filled in, in every behaviour of the application
\* (sortBy, setRates, getMessages, Wallet::transfer, listProduct, requestImage).
THEOREM DesktopIsSafe ==
    DesktopSpec => [](PageIsRight /\ RatesAreAskedAgain /\ MessagesReadAsWritten /\ PaidAsConfirmed
                      /\ ListedAsFilled)
  BY DesktopParts, PagesAreRight, KnownRatesAskedAgain, MessagesAreReadAsWritten, PaymentsAreConfirmed,
     ListingsAreAsFilled, PTL

============================================================================
