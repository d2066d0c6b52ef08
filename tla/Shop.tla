-------------------------------- MODULE Shop --------------------------------
(***************************************************************************)
(* What the user who is logged in does on the home page: the cart and its   *)
(* orders, favorites, ratings, listings, messages and the screens, over the *)
(* session of module Session.                                               *)
(*                                                                          *)
(* The cart is kept twice: in the rows of the local database and in memory. *)
(* Every operation asks the daemon for the current value of its listings: a *)
(* get is answered with the value, with an error, after which the           *)
(* application removes the key from the index, or with nothing in time.  A  *)
(* put may publish or not, be indexed or not, and its reply is taken for a  *)
(* success unless it does not parse.                                        *)
(*                                                                          *)
(* The GUI's thread may die between two requests of an operation.  It does   *)
(* one operation at a time, but for an order: this waits for prices in an   *)
(* event loop of its own (PriceApi), in which the user goes on clicking, so *)
(* that whole operations, other orders included, take place in its middle.  *)
(* Orders nest like calls: only the last one begun goes on.                 *)
(*                                                                          *)
(* Each item carries a ghost tag: the operation that added it.              *)
(***************************************************************************)
EXTENDS Session, Integers, FiniteSets, Sequences, SequencesExt, FiniteSetsExt

CONSTANTS
    Listings,
    Sellers,        \* the accounts, and the sellers elsewhere
    SellerOf,       \* the seller of each listing
    MaxStock,       \* bound on the quantity of a listing
    MaxItems,       \* Cart::max_items (10)
    MaxQuantity,    \* Cart::max_quantity (100)
    MaxOps,         \* bound on the operations of the users
    MaxCrashes      \* bound on the ends of the application while it is in use

ASSUME ShopAssumption ==
    /\ Accounts \subseteq Sellers
    /\ SellerOf \in [Listings -> Sellers]
    /\ MaxStock \in Nat \ {0}
    /\ MaxItems \in Nat
    /\ MaxQuantity \in Nat
    /\ MaxOps \in Nat
    /\ MaxCrashes \in Nat
    /\ None \notin Listings

VARIABLES
    listed,     \* the listings in the DHT
    stock,      \* their quantities
    shown,      \* the listings that the mappings table has rows for
    hasCart,    \* the accounts with a row in table cart
    rows,       \* their rows in table cart_item
    cartId,     \* Cart::id is known (not empty)
    items,      \* Cart::contents
    loading,    \* Cart::load: the next item, and how many there were
    favorites,  \* table favorites
    favs,       \* User::favorites
    placing,    \* the calls of create_order, the innermost last: the rows of the
                \* sellers left to look up, the orders left to put as sets of tags, the
                \* tags put, the keys in listing_cache, whether it is the batch, and
                \* whether it waits for prices
    orders,     \* the orders in the DHT: the tags of their items
    sent,       \* ghost: the tags in the orders that were put
    checkedOut, \* ghost: the tags that left a cart with an order
    kept,       \* ghost: the tags that another order may take, or has taken
    late,       \* ghost: the tags added to the cart while an order waited
    ratings,    \* the ratings in the DHT
    rated,      \* those that the mappings table has rows for
    snapshot,   \* what the GUI's connection sees of the index, once a statement leaks
    doubt,      \* ghost: who rated what when the earlier rating could be missed
    ops,
    crashes

cartVars == <<hasCart, rows, cartId, items, loading>>
favVars == <<favorites, favs>>
orderVars == <<placing, orders, sent, checkedOut, kept, late>>
ratingVars == <<ratings, rated, snapshot, doubt>>
listingVars == <<listed, stock, shown>>
vars == <<sessionVars, listingVars, cartVars, favVars, orderVars, ratingVars, ops, crashes>>

Init ==
    /\ SessionInit
    /\ listed = {l \in Listings : SellerOf[l] \notin Accounts}
    /\ stock = [l \in Listings |-> MaxStock]
    /\ shown = listed
    /\ hasCart = {}
    /\ rows = [a \in Accounts |-> <<>>]
    /\ cartId = FALSE
    /\ items = <<>>
    /\ loading = [next |-> 1, last |-> 0]
    /\ favorites = [a \in Accounts |-> {}]
    /\ favs = {}
    /\ placing = <<>>
    /\ orders = <<>>
    /\ sent = {}
    /\ checkedOut = {}
    /\ kept = {}
    /\ late = {}
    /\ ratings = {}
    /\ rated = {}
    /\ snapshot = None
    /\ doubt = {}
    /\ ops = 0
    /\ crashes = 0

----------------------------------------------------------------------------
(* Helpers.                                                                 *)

Has(s, l) == \E i \in DOMAIN s : s[i].key = l

\* The quantity of l in the table, 0 without a row.
QuantityOf(s, l) == IF Has(s, l) THEN s[CHOOSE i \in DOMAIN s : s[i].key = l].qty ELSE 0

\* Keys are distinct, in the table and in memory.
SetQuantity(s, l, q) ==
    [i \in DOMAIN s |-> IF s[i].key = l THEN [s[i] EXCEPT !.qty = q] ELSE s[i]]

Without(s, l) == IF Has(s, l) THEN RemoveAt(s, CHOOSE i \in DOMAIN s : s[i].key = l) ELSE s

\* The sum of the quantities.
Total(s) ==
    LET upTo[n \in 0..Len(s)] == IF n = 0 THEN 0 ELSE upTo[n - 1] + s[n].qty
    IN upTo[Len(s)]

\* Of a set of items.
Tags(S) == {r.tag : r \in S}

InStock(S) == \A r \in S : r.qty <= stock[r.key]

SellersIn(S) == {SellerOf[r.key] : r \in S}

SoldBy(S, seller) == {r \in S : SellerOf[r.key] = seller}

\* Faulty: only the items are counted.
FullOfItems(s) == Len(s) >= MaxItems

\* Cart::is_full.
Full(s) == Len(s) >= MaxItems \/ Total(s) >= MaxQuantity

\* The order that goes on.
Top == Last(placing)

\* What the calls of create_order have put so far.
PutByAll == UNION {placing[i].put : i \in DOMAIN placing}

\* The GUI's thread takes events: it runs no operation, or waits for prices.
Idle == placing # <<>> => Top.waits

\* A user at the home page begins an operation.
Begins ==
    /\ page = "home"
    /\ Idle
    /\ ops < MaxOps
    /\ ops' = ops + 1

\* get_listing_object: the quantity in the value, or 0 when the get is answered
\* with an error, and the key removed from the index, or with nothing.
Lookup(l, quantity) ==
    \/ l \in listed /\ quantity = stock[l] /\ UNCHANGED shown
    \/ quantity = 0 /\ shown' \in {shown, shown \ {l}}

\* What the GUI's connection to the daemon's database reads.
Seen == IF snapshot = None THEN [shown |-> shown, rated |-> rated] ELSE snapshot
----------------------------------------------------------------------------
(* The session, and the loading of the cart.                                *)

\* User::load_favorites, and Cart::load up to its loop over the items.
LoadCart(a) ==
    /\ items' = rows[a]
    /\ cartId' = (a \in hasCart)
    /\ loading' = [next |-> 1, last |-> Len(rows[a])]
    /\ favs' = favorites[a]

\* A login or a registration, up to Cart::load.
SignIn ==
    /\ \/ RegisterKeys
       \/ \E a \in Accounts : LoginWithWalletFile(a) \/ LoginWithMnemonic(a)
    /\ IF page' = "loading" THEN LoadCart(user'.id) ELSE UNCHANGED <<cartId, items, loading, favs>>
    /\ UNCHANGED <<listingVars, hasCart, rows, favorites, orderVars, ratingVars, ops, crashes>>

\* One turn of the loop of Cart::load.  The loop erases from the vector it
\* iterates over: the item after an erased one is passed over, and the turns
\* beyond the new end find a key that was moved away and change nothing.
LoadItem ==
    /\ page = "loading"
    /\ loading.next <= loading.last
    /\ IF loading.next > Len(items)
       THEN UNCHANGED <<items, rows, shown>>
       ELSE LET k == items[loading.next].key
                q == items[loading.next].qty
            IN \E quantity \in 0..MaxStock :
                  /\ Lookup(k, quantity)
                  /\ LET Adjust(s) == IF quantity = 0 THEN Without(s, k)
                                      ELSE SetQuantity(s, k, IF q >= quantity THEN quantity ELSE q)
                     IN /\ items' = Adjust(items)
                        /\ rows' = [rows EXCEPT ![user.id] = Adjust(@)]
    /\ loading' = [loading EXCEPT !.next = @ + 1]
    /\ UNCHANGED <<sessionVars, listed, stock, hasCart, cartId, favVars, orderVars,
                   ratingVars, ops, crashes>>

\* on_login has returned.
FinishLoading ==
    /\ loading.next > loading.last
    /\ Loaded
    /\ UNCHANGED <<listingVars, cartVars, favVars, orderVars, ratingVars, ops, crashes>>

\* registerUser: INSERT INTO cart, and Cart::set_id.
MakeCart ==
    /\ RegisterCart
    /\ hasCart' = hasCart \cup {user.id}
    /\ cartId' = TRUE
    /\ UNCHANGED <<listingVars, rows, items, loading, favVars, orderVars, ratingVars, ops, crashes>>

\* The other steps of the session leave the shop alone.
SessionOnly ==
    /\ RegisterPut \/ \E a \in Accounts : Generate(a) \/ GainUserRow(a)
    /\ UNCHANGED <<listingVars, cartVars, favVars, orderVars, ratingVars, ops, crashes>>

\* The application ends while it is in use, by itself when a login misses its
\* private key: its memory is lost, and what it was ordering stays in the cart.
AppDies ==
    /\ Dies
    /\ page # "main" /\ ~(page = "loading" /\ ~joining /\ keyFile[user.id] = None)
          => crashes < MaxCrashes
    /\ crashes' = IF crashes < MaxCrashes /\ page # "main" THEN crashes + 1 ELSE crashes
    /\ cartId' = FALSE
    /\ items' = <<>>
    /\ loading' = [next |-> 1, last |-> 0]
    /\ favs' = {}
    /\ placing' = <<>>
    /\ kept' = kept \cup PutByAll
    /\ snapshot' = None
    /\ UNCHANGED <<listingVars, hasCart, rows, favorites, orders, sent, checkedOut, late, ratings,
                   rated, doubt, ops>>

----------------------------------------------------------------------------
(* The cart.                                                                *)

\* Cart::add, past its checks: the row and the item are changed together.  Only the
\* second branch knows max_quantity: an item raised to its whole stock is not
\* measured against it.
PutInCart(s, l, q, quantity) ==
    LET have == QuantityOf(rows[user.id], l)
        room == MaxQuantity - Total(rows[user.id])
        fits == IF q <= room THEN q ELSE room
    IN IF have + q > quantity THEN SetQuantity(s, l, quantity)
       ELSE IF Has(items, l) /\ fits > 0 THEN SetQuantity(s, l, have + fits)
       ELSE Append(s, [key |-> l, qty |-> fits, tag |-> ops + 1])

\* Faulty: an item that is in the cart is only counted up in the table.
AddToTable(l, q) ==
    /\ Begins
    /\ l \in listed
    /\ \E quantity \in 1..MaxStock :
          /\ Lookup(l, quantity)
          /\ SellerOf[l] # user.id /\ ~Full(items)
          /\ rows' = [rows EXCEPT ![user.id] = PutInCart(@, l, q, quantity)]
          /\ items' = IF Has(items, l) THEN items ELSE PutInCart(items, l, q, quantity)
    /\ hasCart' = hasCart \cup {user.id}
    /\ UNCHANGED <<sessionVars, listed, stock, cartId, loading, favVars, orderVars, ratingVars,
                   crashes>>

\* Cart::add.  More than the stock of an item that is not in the cart changes
\* nothing: the row to update does not exist, and the vector is written out of
\* its bounds.  A cart that is created here gets no id in memory.
Add(l, q) ==
    /\ Begins
    /\ l \in listed
    /\ \E quantity \in 0..MaxStock :
          /\ Lookup(l, quantity)
          /\ IF quantity # 0 /\ SellerOf[l] = user.id
             THEN UNCHANGED <<hasCart, rows, items>>
             ELSE /\ hasCart' = hasCart \cup {user.id}
                  /\ IF Full(items) \/ quantity = 0
                     THEN UNCHANGED <<rows, items>>
                     ELSE /\ rows' = [rows EXCEPT ![user.id] = PutInCart(@, l, q, quantity)]
                          /\ items' = PutInCart(items, l, q, quantity)
    /\ late' = IF placing = <<>> THEN late ELSE late \cup {ops + 1}
    /\ UNCHANGED <<sessionVars, listed, stock, cartId, loading, favVars, placing, orders, sent,
                   checkedOut, kept, ratingVars, crashes>>
----------------------------------------------------------------------------
(* Orders.                                                                  *)

\* A call of create_order that has looked up what is in the cache.
Placing(ask, left, cache, batch) ==
    [ask |-> ask, left |-> left, put |-> {}, cache |-> cache, batch |-> batch, waits |-> ~batch]

\* The innermost call goes on as c.
GoesOn(c) == placing' = [placing EXCEPT ![Len(placing)] = c]

\* It returns.
Returns == placing' = Front(placing)

\* Ghost: an order begun in the middle of another takes its items again.
BeginOrder == kept' = IF placing = <<>> THEN kept ELSE kept \cup Tags(Range(items))

\* Order::create_order up to its prices.  An item whose lookup is lost is left
\* out; one that is out of stock ends it, and one of another seller makes it
\* start over in batch mode.
CreateOrder ==
    /\ Begins
    /\ items # <<>>
    /\ \E n \in DOMAIN items : \E failed, silent \in SUBSET {items[i].key : i \in 1..n} :
          LET last == items[n]
              found == {items[i] : i \in 1..n} \ {r \in Range(items) : r.key \in failed \cup silent}
              before == found \ {last}
          IN /\ \A x, y \in SellersIn(before) : x = y
             /\ InStock(before)
             /\ shown' = shown \ failed
             /\ \/ /\ n = Len(items) /\ InStock(found) /\ \A x, y \in SellersIn(found) : x = y
                   /\ placing' = Append(placing, Placing({}, {Tags(found)}, {r.key : r \in found}, FALSE))
                   /\ BeginOrder
                \/ /\ last \in found /\ SellerOf[last.key] \notin SellersIn(before) /\ before # {}
                   /\ placing' = Append(placing,
                                  Placing({SoldBy(Range(items), x) : x \in SellersIn(Range(items))},
                                          {}, {}, TRUE))
                   /\ BeginOrder
                \/ /\ last \in found /\ ~InStock({last}) /\ UNCHANGED <<placing, kept>>
    /\ UNCHANGED <<sessionVars, listed, stock, cartVars, favVars, orders, sent, checkedOut, late,
                   ratingVars, crashes>>

\* One turn of the loop over the sellers in Order::create_order_batch: the items
\* of one are looked up, and it gives up when one is lost or out of stock;
\* otherwise it waits for prices.
AskSeller ==
    /\ placing # <<>>
    /\ \E g \in Top.ask :
          \/ /\ InStock(g)
             /\ GoesOn([Top EXCEPT !.ask = @ \ {g}, !.left = @ \cup {Tags(g)},
                                   !.cache = @ \cup {r.key : r \in g}, !.waits = TRUE])
             /\ UNCHANGED shown
          \/ /\ Returns
             /\ shown' \in {shown} \cup {shown \ {r.key} : r \in g}
    /\ UNCHANGED <<sessionVars, listed, stock, cartVars, favVars, orders, sent, checkedOut, kept,
                   late, ratingVars, ops, crashes>>

\* The put of one order: it may arrive or not.
Put(o) ==
    /\ Top.ask = {}
    /\ sent' = sent \cup o
    /\ orders' \in {orders, Append(orders, o)}

\* Variant: an item that was not looked up is skipped when the order is printed.
Skips == TRUE

\* Every item that is in the cart now has been looked up.
Printable == \A r \in Range(items) : r.key \in Top.cache

\* It prints the items of the cart, with prices that it waits for unless it is the
\* batch, whatever the reply says.  It gives up when the reply does not parse, or
\* when it prints an item it has not looked up: at throws, which User catches.
PutOrder ==
    /\ placing # <<>>
    /\ \E o \in Top.left :
          /\ Put(o)
          /\ \/ /\ Returns
                /\ kept' = kept \cup Top.put \cup o
             \/ /\ Printable
                /\ GoesOn([Top EXCEPT !.left = @ \ {o}, !.put = @ \cup o, !.waits = ~Top.batch])
                /\ UNCHANGED kept
    /\ UNCHANGED <<sessionVars, listingVars, cartVars, favVars, checkedOut, late, ratingVars, ops,
                   crashes>>

\* Cart::empty: without an id it does nothing.  A price source that throws while
\* the order is printed (CoinTelegraph::price) keeps the call from it.
FinishOrder ==
    /\ placing # <<>>
    /\ Top.ask = {} /\ Top.left = {}
    /\ Returns
    /\ \/ /\ cartId
          /\ rows' = [rows EXCEPT ![user.id] = <<>>]
          /\ items' = <<>>
          /\ checkedOut' = checkedOut \cup Tags(Range(items))
          /\ UNCHANGED kept
       \/ /\ ~cartId \/ ~Top.batch
          /\ kept' = kept \cup Top.put
          /\ UNCHANGED <<rows, items, checkedOut>>
    /\ UNCHANGED <<sessionVars, listingVars, hasCart, cartId, loading, favVars, orders, sent, late,
                   ratingVars, ops, crashes>>

----------------------------------------------------------------------------
(* Favorites.                                                               *)

AddToFavorites(l) ==
    /\ Begins
    /\ l \notin favorites[user.id]
    /\ favorites' = [favorites EXCEPT ![user.id] = @ \cup {l}]
    /\ favs' = favs \cup {l}
    /\ UNCHANGED <<sessionVars, listingVars, cartVars, orderVars, ratingVars, crashes>>

RemoveFromFavorites(l) ==
    /\ Begins
    /\ l \in favorites[user.id] \cup favs
    /\ favorites' = [favorites EXCEPT ![user.id] = @ \ {l}]
    /\ favs' = favs \ {l}
    /\ UNCHANGED <<sessionVars, listingVars, cartVars, orderVars, ratingVars, crashes>>

----------------------------------------------------------------------------
(* Ratings.                                                                 *)

\* Of ratings that leave the index.
Missed(failed) == {<<r.by, r.subject>> : r \in failed}

\* Faulty: the author of a rating is not looked at.
RateAnew(subject) ==
    /\ Begins
    /\ \E indexed \in BOOLEAN :
          LET rating == [by |-> user.id, subject |-> subject, n |-> ops + 1]
          IN /\ ratings' = ratings \cup {rating}
             /\ rated' = IF indexed THEN rated \cup {rating} ELSE rated
             /\ doubt' = IF indexed THEN doubt ELSE doubt \cup {<<user.id, subject>>}
    /\ UNCHANGED <<sessionVars, listingVars, cartVars, favVars, orderVars, snapshot, crashes>>

\* The common part of User::rate_seller and User::rate_item: every rating of
\* the subject that is indexed is asked for.  Finding the user's own ends it:
\* the update is refused by the daemon (it knows no set), and the statement is
\* never finalized, so that from then on the connection reads the database as
\* it was.  Otherwise a new rating is put.
Rate(subject) ==
    /\ Begins
    /\ LET all == {r \in Seen.rated : r.subject = subject}
           mine == {r \in all : r.by = user.id}
           rating == [by |-> user.id, subject |-> subject, n |-> ops + 1]
       IN \E failed \in SUBSET all : \E silent \in SUBSET (all \ failed) :
             IF mine \ (failed \cup silent) # {}
             THEN /\ rated' = rated \ failed
                  /\ snapshot' = Seen
                  /\ doubt' = doubt \cup Missed(failed)
                  /\ UNCHANGED ratings
             ELSE /\ \/ /\ ratings' = ratings \cup {rating}
                        /\ rated' \in {rated \ failed, (rated \ failed) \cup {rating}}
                     \/ /\ UNCHANGED ratings
                        /\ rated' = rated \ failed
                  /\ doubt' = IF /\ mine = {}
                                 /\ snapshot = None
                                 /\ rating \in ratings' => rating \in rated'
                              THEN doubt \cup Missed(failed)
                              ELSE doubt \cup Missed(failed) \cup {<<user.id, subject>>}
                  /\ UNCHANGED snapshot
    /\ UNCHANGED <<sessionVars, listingVars, cartVars, favVars, orderVars, crashes>>

RateSeller(seller) == Rate(seller) /\ seller # user.id

RateItem(product) == Rate(product)
----------------------------------------------------------------------------
(* The user's listings.                                                     *)

\* Seller::list_item: a put, which may publish the listing or not.
ListItem(l) ==
    /\ Begins
    /\ SellerOf[l] = user.id
    /\ l \notin listed
    /\ listed' = listed \cup {l}
    /\ shown' \in {shown, shown \cup {l}}
    /\ UNCHANGED <<sessionVars, stock, cartVars, favVars, orderVars, ratingVars, crashes>>

\* The row of a listing is removed.
LoseRow(l) ==
    /\ Begins
    /\ l \in shown
    /\ shown' = shown \ {l}
    /\ UNCHANGED <<sessionVars, listed, stock, cartVars, favVars, orderVars, ratingVars, crashes>>

\* Seller::delist_item: the key leaves the index, because the value has come or
\* because an error came; the peers keep the listing.
DelistItem(l) == LoseRow(l) /\ SellerOf[l] = user.id

\* Seller::set_stock_quantity: the daemon refuses the set; only a lookup that is
\* answered with an error has an effect.
SetStockQuantity(l) == LoseRow(l) /\ SellerOf[l] = user.id

----------------------------------------------------------------------------
(* The screens.  Each reads keys from the index and asks for every value: a  *)
(* key whose get is answered with an error is removed from the index, one    *)
(* that gets no answer is left out.                                          *)

Scan(keys) ==
    /\ Begins
    /\ \E failed \in SUBSET keys : shown' = shown \ failed
    /\ UNCHANGED <<sessionVars, listed, stock, cartVars, favVars, orderVars, ratingVars, crashes>>

GetListings == Scan(Seen.shown)

GetListingsByCategory == \E keys \in SUBSET Seen.shown : Scan(keys)

GetListingsBySearchTerm == \E keys \in SUBSET Seen.shown : Scan(keys)

\* A lookup that is answered with an error.
GetStockAvailable(l) == l \in Seen.shown /\ LoseRow(l)

GetInventory(seller) == Scan({l \in Seen.shown : SellerOf[l] = seller})

\* The user's own listings.
GetOwnInventory == GetInventory(user.id)

\* The ratings of a seller or a product.
GetRatings(subject) ==
    /\ Begins
    /\ \E failed \in SUBSET {r \in Seen.rated : r.subject = subject} :
          /\ rated' = rated \ failed
          /\ doubt' = doubt \cup Missed(failed)
    /\ UNCHANGED <<sessionVars, listingVars, cartVars, favVars, orderVars, ratings, snapshot, crashes>>

GetProductRatings(product) == GetRatings(product)

GetSellerRatings(seller) == GetRatings(seller)

\* The profile of a user, whose get is answered with an error.
GetUser(a) ==
    /\ Idle
    /\ LoseUserRow(a)
    /\ UNCHANGED <<listingVars, cartVars, favVars, orderVars, ratingVars, ops, crashes>>

----------------------------------------------------------------------------
(* The others.                                                              *)

\* Another seller changes a quantity: the nodes take a newer value for a key.
SellerSets(l, quantity) ==
    /\ ops < MaxOps
    /\ ops' = ops + 1
    /\ SellerOf[l] \notin Accounts
    /\ stock' = [stock EXCEPT ![l] = quantity]
    /\ UNCHANGED <<sessionVars, listed, shown, cartVars, favVars, orderVars, ratingVars, crashes>>

\* A peer's map request for a listing arrives at the daemon.
GainRow(l) ==
    /\ l \in listed
    /\ shown' = shown \cup {l}
    /\ UNCHANGED <<sessionVars, listed, stock, cartVars, favVars, orderVars, ratingVars, ops, crashes>>

Quantities == 1..MaxStock

Subjects == {SellerOf[l] : l \in Listings}

Shopping ==
    \/ \E l \in Listings :
          \/ \E q \in Quantities : Add(l, q)
          \/ AddToFavorites(l) \/ RemoveFromFavorites(l) \/ RateItem(l)
          \/ ListItem(l) \/ DelistItem(l) \/ SetStockQuantity(l) \/ GetStockAvailable(l)
          \/ GetProductRatings(l)
    \/ \E x \in Subjects : RateSeller(x) \/ GetInventory(x) \/ GetSellerRatings(x)
    \/ CreateOrder \/ AskSeller \/ PutOrder \/ FinishOrder
    \/ GetOwnInventory \/ GetListings \/ GetListingsByCategory \/ GetListingsBySearchTerm

Next ==
    \/ SignIn \/ LoadItem \/ FinishLoading \/ MakeCart \/ SessionOnly \/ AppDies
    \/ Shopping
    \/ \E a \in Accounts : GetUser(a)
    \/ \E l \in Listings : GainRow(l) \/ \E q \in 0..MaxStock : SellerSets(l, q)

Spec == Init /\ [][Next]_vars

----------------------------------------------------------------------------
(* Properties.                                                              *)

Tag == 1..MaxOps
Row == [key : Listings, qty : 1..MaxStock, tag : Tag]
Subject == Listings \cup Sellers
Rating == [by : Accounts, subject : Subject, n : Tag]

\* The shape of the state (the members of Cart and User, and the tables).
TypeOK ==
    /\ SessionTypeOK
    /\ listed \subseteq Listings
    /\ stock \in [Listings -> 0..MaxStock]
    /\ shown \subseteq listed
    /\ hasCart \subseteq Accounts
    /\ rows \in [Accounts -> Seq(Row)]
    /\ cartId \in BOOLEAN
    /\ items \in Seq(Row)
    /\ loading \in [next : Nat \ {0}, last : Nat]
    /\ favorites \in [Accounts -> SUBSET Listings]
    /\ favs \subseteq Listings
    /\ placing \in Seq([ask : SUBSET SUBSET Row, left : SUBSET SUBSET Tag, put : SUBSET Tag,
                        cache : SUBSET Listings, batch : BOOLEAN, waits : BOOLEAN])
    /\ orders \in Seq(SUBSET Tag)
    /\ sent \subseteq Tag
    /\ checkedOut \subseteq Tag
    /\ kept \subseteq Tag
    /\ late \subseteq Tag
    /\ ratings \subseteq Rating
    /\ rated \subseteq ratings
    /\ snapshot \in [shown : SUBSET Listings, rated : SUBSET Rating] \cup {None}
    /\ doubt \subseteq Accounts \X Subject
    /\ ops \in 0..MaxOps
    /\ crashes \in 0..MaxCrashes

\* What is in memory is what is in the tables of the user who is logged in: each
\* operation changes both, the loading of the cart included, and nothing is left
\* of the user before (Cart::load, Cart::add, Cart::empty, User::add_to_favorites).
CartMatchesRows ==
    page \in {"put", "cart", "home"} =>
        /\ items = rows[user.id]
        /\ favs = favorites[user.id]
        /\ cartId => user.id \in hasCart

\* A cart holds no listing twice, no item without a quantity and no more than
\* max_items items, although the quantities may already exceed max_quantity, when
\* Cart::add would fit an item into less than nothing: is_full, which looks at
\* memory, must stop it before the sum, which is that of the table, does harm.
ItemsWithinLimits ==
    \A a \in Accounts :
        /\ \A i, j \in DOMAIN rows[a] : rows[a][i].key = rows[a][j].key => i = j
        /\ \A i \in DOMAIN rows[a] : rows[a][i].qty > 0
        /\ Len(rows[a]) <= MaxItems

\* "Cart items can only add up to a quantity of 100" (the constructor of Cart).
QuantitiesAddUp == \A a \in Accounts : Total(rows[a]) <= MaxQuantity

\* An item is in two orders only when an attempt to order it left it in the cart:
\* its order was put, and then a reply did not parse, an item it had not looked up
\* or a price source stopped it, the cart had no id, or the application died; or when the order was placed in the
\* middle of another one, which waited for prices (Order::create_order, whose
\* price sources run an event loop).  And an item leaves the cart with an order
\* only when an order that holds it was put, or when it was added while that one
\* waited.
OrderedExactlyOnce ==
    /\ \A i, j \in DOMAIN orders : i # j => orders[i] \cap orders[j] \subseteq kept
    /\ checkedOut \subseteq sent \cup late

\* A user has two ratings of one subject only when the earlier one could not be
\* found: its put was not indexed, its get was not answered with a value, or the
\* connection reads an old state of the database (User::rate_seller, rate_item).
OneRating ==
    \A r, s \in ratings :
        r.by = s.by /\ r.subject = s.subject => r = s \/ <<r.by, r.subject>> \in doubt
=============================================================================
