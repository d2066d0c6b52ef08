------------------------------- MODULE Prices -------------------------------
(***************************************************************************)
(* The exchange rates of the application (class                             *)
(* CurrencyExchangeRatesProvider) and the price sources behind them         *)
(* (Converter::make_price_source, core/price_api).                          *)
(*                                                                          *)
(* The provider keeps the rates of the pairs it has been asked for, always  *)
(* Monero and a currency.  A worker thread asks the sources for the pairs   *)
(* known when an update starts, one pair after the other, each source only  *)
(* if those before it had no answer.  When it has finished the interface    *)
(* replaces all rates by the new ones and every binding on a rate asks      *)
(* again; three seconds later the next update starts.                       *)
(*                                                                          *)
(* A rate is the currency it really is the price of Monero in, or "zero":   *)
(* the number itself matters only to Catalogue.                             *)
(***************************************************************************)
EXTENDS Integers, Sequences

CONSTANTS
    Currencies,     \* the codes of CurrencyMap in use, Monero's left out
    DebugBuild      \* assert() is compiled in

\* CurrencyMap has the dollar; the other words stand for what is no currency.
ASSUME PricesAssumption ==
    /\ "USD" \in Currencies
    /\ Currencies \cap {"XMR", "zero", "none", "abort"} = {}
    /\ DebugBuild \in BOOLEAN

VARIABLES
    rates,      \* mCurrentRates: of the pairs the provider knows
    update,     \* the worker: at, the pairs it was given, left to ask, and newRates
    timer,      \* the single shot that starts the next update is running
    display     \* what the bindings on screen show: of the currencies they are in

priceVars == <<rates, update, timer, display>>

Rates == Currencies \cup {"zero"}
Known == UNION {[S -> Rates] : S \in SUBSET Currencies}
Nothing == [c \in {} |-> "zero"]

\* The constructor's pairs.
Desired == {"USD", "EUR"} \cap Currencies

PricesInit ==
    /\ rates = [c \in Desired |-> "zero"]
    /\ update = [at |-> "asking", keys |-> Desired, left |-> Desired, found |-> Nothing]
    /\ timer = FALSE
    /\ display = Nothing

----------------------------------------------------------------------------
(* The sources: what price() can return for Monero in currency c.  Any of   *)
(* them may be out of reach, or answer with something that is not JSON.     *)

CoinMarketCap(c) == {"none"} \cup ({c} \ {"XAG", "XAU"})

\* The JSON of an error has no such field, and an absent number reads as zero.
CoinGecko(c) == {"none", "zero", c}

CryptoWatch(c) == {"none", c}

\* The pound is looked up as "GPB"; two coins are neither currencies nor coins here.
CoinTelegraph(c) == {"none"} \cup ({c} \ {"GBP", "LTC", "WOW"})

CryptoRank(c) == {"none", c}

\* Whatever the currency: last_price_usd.
CoinCodex(c) == {"none", "zero", "USD"}

Fawazahmed0(c) == {"none", "zero", c}

\* The two assertions on the form of the JSON end the program if compiled in.
Kraken(c) == {"none", c} \cup (IF DebugBuild THEN {"abort"} ELSE {})

SOURCES_TO_USE(c) ==
    << CoinMarketCap(c), CoinGecko(c), CryptoWatch(c), CoinTelegraph(c),
       CryptoRank(c), CoinCodex(c), Fawazahmed0(c), Kraken(c) >>

\* The answer of the first source that has one.
FirstAnswers(sources) ==
    {a \in UNION {sources[i] : i \in DOMAIN sources} :
        \/ /\ a # "none"
           /\ \E i \in DOMAIN sources :
                 a \in sources[i] /\ \A j \in 1..(i - 1) : "none" \in sources[j]
        \/ a = "none" /\ \A i \in DOMAIN sources : "none" \in sources[i]}

----------------------------------------------------------------------------

With(f, S) == [c \in DOMAIN f \cup S |-> IF c \in DOMAIN f THEN f[c] ELSE "zero"]

\* getPrice of the pairs asked, the shown ones of them in bindings: a pair that is
\* not known is entered at zero, for the next update to ask for.
Evaluate(asked, shown) ==
    /\ rates' = With(rates, asked)
    /\ display' = [c \in shown |-> With(rates, asked)[c]]

\* One round of the loop of updateRates.
Ask(c) ==
    /\ update.at = "asking"
    /\ c \in update.left
    /\ \E a \in FirstAnswers(SOURCES_TO_USE(c)) :
          IF a = "abort"
          THEN update' = [update EXCEPT !.at = "aborted"]
          ELSE update' = [update EXCEPT
                  !.left = @ \ {c},
                  !.found = IF a = "none" THEN @
                            ELSE [d \in DOMAIN @ \cup {c} |-> IF d = c THEN a ELSE @[d]]]
    /\ UNCHANGED <<rates, timer, display>>

WorkerReturns ==
    /\ update.at = "asking"
    /\ update.left = {}
    /\ update' = [update EXCEPT !.at = "finished"]
    /\ UNCHANGED <<rates, timer, display>>

\* The watcher's finished signal: setRates replaces the rates, those of pairs
\* entered meanwhile and of pairs no source answered included, and its
\* ratesUpdated has every binding ask again.
Finished ==
    /\ update.at = "finished"
    /\ rates' = With(update.found, DOMAIN display)
    /\ display' = [c \in DOMAIN display |-> With(update.found, DOMAIN display)[c]]
    /\ update' = [update EXCEPT !.at = "idle"]
    /\ timer' = TRUE

\* Faulty: only the pairs that still have no rate are asked for.
StartUpdateOfZeros ==
    /\ timer
    /\ timer' = FALSE
    /\ LET keys == {c \in DOMAIN rates : rates[c] = "zero"}
       IN  update' = [at |-> "asking", keys |-> keys, left |-> keys, found |-> Nothing]
    /\ UNCHANGED <<rates, display>>

\* Faulty: the pairs of the last update are asked for again.
StartUpdateOfSame ==
    /\ timer
    /\ timer' = FALSE
    /\ update' = [at |-> "asking", keys |-> update.keys, left |-> update.keys,
                  found |-> Nothing]
    /\ UNCHANGED <<rates, display>>

\* startUpdate, three seconds later.  isRunning() cannot be true here.
StartUpdate ==
    /\ timer
    /\ timer' = FALSE
    /\ update' = [at |-> "asking", keys |-> DOMAIN rates, left |-> DOMAIN rates,
                  found |-> Nothing]
    /\ UNCHANGED <<rates, display>>

PricesStep ==
    \/ \E c \in Currencies : Ask(c)
    \/ WorkerReturns
    \/ Finished
    \/ StartUpdate

\* The worker runs, every request of it ends (none has a time limit of its own),
\* and the event loop gets to its events.
PricesFairness == WF_priceVars(PricesStep)

----------------------------------------------------------------------------

PricesTypeOK ==
    /\ rates \in Known
    /\ update \in [at : {"idle", "asking", "finished", "aborted"}, keys : SUBSET Currencies,
                   left : SUBSET Currencies, found : Known]
    /\ update.left \subseteq update.keys
    /\ DOMAIN update.found \subseteq update.keys \ update.left
    /\ timer \in BOOLEAN
    /\ display \in Known
    /\ DOMAIN display \subseteq DOMAIN rates

\* A price on screen is the one the provider would give now: no page shows a rate
\* that has been replaced (CurrencyExchangeRates.qml re-evaluates on ratesUpdated).
DisplayIsCurrent == \A c \in DOMAIN display : display[c] = rates[c]

\* setRates throws away what the worker has not brought: a pair with a rate is
\* always among those a running update was given, so that a rate is only lost when
\* every source had nothing to say about it.
RatesAreAskedAgain ==
    update.at # "idle" =>
        \A c \in DOMAIN rates : rates[c] # "zero" => c \in update.keys

\* A pair entered while an update runs is dropped with its end.  As long as the
\* pair is on screen it is asked for all the same, by a later update.
PairIsAskedFor ==
    \A c \in Currencies :
        c \in DOMAIN display ~>
            \/ update.at = "asking" /\ c \in update.keys
            \/ c \notin DOMAIN display
            \/ update.at = "aborted"
=============================================================================
