----------------------------- MODULE MCDesktop -----------------------------
(* The machines of the application that share no state.  A behaviour is that *)
(* of one of them, while the others stay where they begin.                   *)
EXTENDS Catalogue, Messages, Wallet, ListingForm

VARIABLE machine

desktopVars == <<machine, catalogueVars, messageVars, walletVars, listingFormVars>>

DesktopInit ==
    /\ machine \in {"catalogue", "messages", "wallet", "form"}
    /\ CatalogueInit
    /\ MessagesInit
    /\ WalletInit
    /\ ListingFormInit

Pages ==
    /\ machine = "catalogue"
    /\ CatalogueNext
    /\ UNCHANGED <<machine, messageVars, walletVars, listingFormVars>>

Mails ==
    /\ machine = "messages"
    /\ MessagesNext
    /\ UNCHANGED <<machine, catalogueVars, walletVars, listingFormVars>>

Payments ==
    /\ machine = "wallet"
    /\ WalletNext
    /\ UNCHANGED <<machine, catalogueVars, messageVars, listingFormVars>>

Form ==
    /\ machine = "form"
    /\ ListingFormNext
    /\ UNCHANGED <<machine, catalogueVars, messageVars, walletVars>>

DesktopNext == Pages \/ Mails \/ Payments \/ Form

\* That of each machine, where it is the one that runs.
DesktopFairness ==
    /\ WF_priceVars(machine = "catalogue" /\ PricesStep)

DesktopSpec == DesktopInit /\ [][DesktopNext]_desktopVars /\ DesktopFairness

DesktopTypeOK == CatalogueTypeOK /\ MessagesTypeOK /\ WalletTypeOK /\ ListingFormTypeOK

\* Three listings in two currencies and in Monero: sorted by amount, by date, by name
\* and by price they come in four different orders.
MCOffers == <<
    [currency |-> "XAG", price |-> 40, date |-> 2, name |-> 3,
     nsfw |-> FALSE, illicit |-> FALSE, category |-> TRUE],
    [currency |-> "USD", price |-> 30, date |-> 1, name |-> 1,
     nsfw |-> TRUE, illicit |-> FALSE, category |-> TRUE],
    [currency |-> "XMR", price |-> 2, date |-> 3, name |-> 2,
     nsfw |-> FALSE, illicit |-> TRUE, category |-> TRUE] >>
MCRateOf == [USD |-> 10, XAG |-> 20]

\* One recipient, with an amount that is all the balance or not, that is nothing, or with an
\* address that is not valid; and several, of which two or none can be paid.
Recipients(a, n) == [address |-> a, amount |-> n]
MCForms == {
    <<Recipients("x", 1)>>, <<Recipients("x", 2)>>, <<Recipients("x", 0)>>,
    <<Recipients("bad", 1)>>,
    <<Recipients("x", 1), Recipients("bad", 0), Recipients("y", 1)>>,
    <<Recipients("bad", 1), Recipients("bad", 0)>> }

\* Two pictures of one name, of which one has more bytes to a pixel; one that does not
\* load; and one that is too large.
File(n, w, h, d, b, l) ==
    [name |-> n, width |-> w, height |-> h, depth |-> d, bytes |-> b, loads |-> l]
MCFiles == {
    File("a", 1920, 1280, 4, 2097152, TRUE), File("a", 1600, 1600, 8, 1, TRUE),
    File("b", 0, 0, 0, 1, FALSE), File("c", 1700, 1700, 4, 1, TRUE) }

\* A table whose two rows have the same options.
Variation(i) == [options |-> "S", info |-> i]
MCTables == {<<Variation("default"), Variation("new")>>}
=============================================================================
