---------------------------- MODULE Shop_proofs -----------------------------
(***************************************************************************)
(* Theorems about Session and Shop, for every set of accounts, sellers and  *)
(* listings and every bound.                                                *)
(*                                                                          *)
(* The session's two properties rest on one fact about the main page: a     *)
(* wallet that is open there has never been published, for a login that     *)
(* does not find its account closes the wallet again.  So the wallet that a *)
(* failed restore leaves open is in no index, and a registration overwrites *)
(* no private key that somebody encrypts for.                               *)
(*                                                                          *)
(* Every step of the shop is a step of the session or leaves it alone, so   *)
(* that the theorems of Session hold of the application as a whole.  On top *)
(* of them come the cart, the orders and the ratings, and last the limits of *)
(* the cart and the types of the whole state.                               *)
(***************************************************************************)
EXTENDS Shop, SequenceTheorems, WellFoundedInduction, TLAPS

----------------------------------------------------------------------------
(* The session by itself.                                                   *)


Published(a) == \E p \in published : p.id = a

\* Of a wallet or a user that may be registered: nobody has its key.
Fresh(a) == a \in files \ Foreign /\ ~Published(a)

\* Of the whole session: every published account has a wallet, every indexed
\* one has been published, and past the main page the user, the wallet and the
\* wish are one account.
Agree ==
    /\ \A a \in mapped : Published(a)
    /\ \A p \in published : p.id \in files \cup Foreign
    /\ wallet \in files \cup Foreign \cup {None}
    /\ page = "main" /\ wallet # None => Fresh(wallet) \/ wallet \in unsure
    /\ page # "main" => user # None /\ user.id \in unsure \cup {asked} /\ wallet = user.id
    /\ page = "loading" /\ joining =>
          (Fresh(user.id) \/ user.id \in unsure) /\ keyFile[user.id] # None
    /\ page = "put" => Fresh(user.id) \/ user.id \in unsure
    /\ unsure \cap Foreign = {}
    /\ page \in {"put", "cart", "home"} => user.key = keyFile[user.id] /\ user.key # None

SessionInv == SessionTypeOK /\ Agree /\ KeysMatchPublished

\* At the start nothing is published but the foreign accounts.
LEMMA InitInv == SessionInit => SessionInv
  <1> SUFFICES ASSUME SessionInit PROVE SessionInv
    OBVIOUS
  <1> USE SessionAssumption DEF SessionInit
  <1>1. SessionTypeOK
    <2>1. published \subseteq [id : Accounts, key : Keys]
      BY DEF Keys
    <2>2. mapped \subseteq Accounts
      OBVIOUS
    <2>3. keyFile \in [Accounts -> Keys \cup {None}]
      OBVIOUS
    <2>4. made \in 0..MaxKeys
      OBVIOUS
    <2> HIDE DEF SessionInit
    <2>5. /\ page = "main" /\ wallet = None /\ files = {} /\ user = None
          /\ joining = FALSE /\ asked = None /\ unsure = {}
      BY DEF SessionInit
    <2> QED
      BY <2>1, <2>2, <2>3, <2>4, <2>5 DEF SessionTypeOK
  <1>2. Agree
    <2>1. ASSUME NEW a \in Foreign PROVE Published(a)
      <3>1. [id |-> a, key |-> 0] \in published
        OBVIOUS
      <3>2. [id |-> a, key |-> 0].id = a
        OBVIOUS
      <3> QED
        BY <3>1, <3>2 DEF Published
    <2> QED
      BY <2>1 DEF Agree, Fresh
  <1>3. KeysMatchPublished
    BY DEF KeysMatchPublished
  <1> QED
    BY <1>1, <1>2, <1>3 DEF SessionInv

\* Generating a wallet.
LEMMA GenerateInv ==
    ASSUME SessionInv, NEW a \in Accounts, Generate(a)
    PROVE  SessionInv'
  <1> USE SessionAssumption DEF SessionInv, Generate
  <1>1. SessionTypeOK'
    BY DEF SessionTypeOK
  <1>2. Agree'
    BY DEF SessionTypeOK, Agree, Published, Fresh
  <1>3. KeysMatchPublished'
    BY DEF KeysMatchPublished
  <1> QED
    BY <1>1, <1>2, <1>3

\* A wallet that is opened is indexed, and then it is the one asked for or one
\* whose registration was put, or it is closed again.
LEMMA OpenWalletInv ==
    ASSUME SessionInv, page = "main", NEW a \in Accounts, NEW w \in {a, wallet} \ {None},
           a \in files \cup Foreign, OpenWallet(a, w)
    PROVE  SessionInv'
  <1> USE SessionAssumption DEF SessionInv, OpenWallet, OnLogin
  <1>1. w \in mapped => w \in unsure \cup {a}
    BY DEF Agree, Fresh
  <1>2. KeysMatchPublished'
    BY DEF KeysMatchPublished
  <1>3. CASE w \in mapped
    <2>1. w \in unsure \cup {a} /\ w \in Accounts
      BY <1>1, <1>3 DEF SessionTypeOK
    <2>2. user' \in [id : Accounts, key : Keys \cup {None}] /\ user' # None
      BY <1>3, <2>1 DEF Keys
    <2>3. user'.id = w /\ asked' = a /\ wallet' = w
      BY <1>3, <2>1
    <2>4. SessionTypeOK'
      BY <1>3, <2>1, <2>2 DEF SessionTypeOK
    <2>5. Agree'
      BY <1>3, <2>1, <2>2, <2>3 DEF Agree, Published, Fresh
    <2> QED
      BY <1>2, <2>4, <2>5
  <1>4. CASE w \notin mapped
    <2>1. SessionTypeOK'
      BY <1>4 DEF SessionTypeOK
    <2>2. Agree'
      BY <1>4 DEF Agree, Published, Fresh
    <2> QED
      BY <1>2, <2>1, <2>2
  <1> QED
    BY <1>3, <1>4

\* The new key pair is that of an account nobody has heard of, or of one whose
\* registration was put and not confirmed.
LEMMA RegisterKeysInv ==
    ASSUME SessionInv, RegisterKeys
    PROVE  SessionInv'
  <1> USE SessionAssumption DEF SessionInv, RegisterKeys, OnLogin
  <1>1. wallet \in Accounts \ Foreign /\ (Fresh(wallet) \/ wallet \in unsure)
    BY DEF SessionTypeOK, Agree, Fresh
  <1>2. made + 1 \in Keys /\ made + 1 \in 0..MaxKeys /\ made + 1 # None
    BY DEF SessionTypeOK, Keys
  <1>3. keyFile' \in [Accounts -> Keys \cup {None}]
    BY <1>1, <1>2 DEF SessionTypeOK
  <1>4. SessionTypeOK'
    BY <1>1, <1>2, <1>3 DEF SessionTypeOK
  <1>5. keyFile'[wallet] = made + 1
    BY <1>1 DEF SessionTypeOK
  <1>6. Agree'
    <2>1. user' = [id |-> wallet, key |-> None] /\ asked' = wallet /\ page' = "loading"
      OBVIOUS
    <2>2. user' # None
      BY <1>1, <2>1
    <2>3. Fresh(wallet)' \/ wallet \in unsure'
      BY <1>1 DEF Fresh, Published
    <2> QED
      BY <1>1, <1>2, <1>5, <2>1, <2>2, <2>3 DEF Agree, Published
  <1>7. KeysMatchPublished'
    BY <1>1 DEF KeysMatchPublished, SessionTypeOK, Fresh, Published
  <1> QED
    BY <1>4, <1>6, <1>7

\* The private key is read for the account that is loaded.
LEMMA LoadedInv ==
    ASSUME SessionInv, Loaded
    PROVE  SessionInv'
  <1> USE SessionAssumption DEF SessionInv, Loaded
  <1>1. user \in [id : Accounts, key : Keys \cup {None}]
    BY DEF SessionTypeOK, Agree
  <1>2. user' = [id |-> user.id, key |-> keyFile[user.id]] /\ keyFile[user.id] \in Keys \cup {None}
    BY <1>1 DEF SessionTypeOK
  <1>3. SessionTypeOK'
    BY <1>1, <1>2 DEF SessionTypeOK
  <1>4. user' # None
    BY <1>1, <1>2 DEF Keys
  <1>5. Agree'
    BY <1>1, <1>2, <1>4 DEF SessionTypeOK, Agree, Published, Fresh
  <1>6. KeysMatchPublished'
    BY DEF KeysMatchPublished
  <1> QED
    BY <1>3, <1>5, <1>6

\* What is published is the key that is on the disk.
LEMMA RegisterPutInv ==
    ASSUME SessionInv, RegisterPut
    PROVE  SessionInv'
  <1> USE SessionAssumption DEF SessionInv, RegisterPut
  <1>1. user \in [id : Accounts, key : Keys] /\ user.key = keyFile[user.id]
    BY DEF SessionTypeOK, Agree
  <1>2. SessionTypeOK'
    BY <1>1 DEF SessionTypeOK
  <1>3. Agree'
    BY <1>1 DEF SessionTypeOK, Agree, Published, Fresh
  <1>4. KeysMatchPublished'
    BY <1>1 DEF KeysMatchPublished
  <1> QED
    BY <1>2, <1>3, <1>4

\* The steps that touch neither the keys nor the wallets.
LEMMA OthersInv ==
    ASSUME SessionInv,
           \/ RegisterCart \/ Dies \/ UNCHANGED sessionVars
           \/ \E a \in Accounts : LoseUserRow(a) \/ GainUserRow(a)
    PROVE  SessionInv'
  <1> USE SessionAssumption
      DEF SessionInv, SessionTypeOK, Agree, KeysMatchPublished, Published, Fresh
  <1>1. CASE RegisterCart
    BY <1>1 DEF RegisterCart
  <1>2. CASE Dies
    BY <1>2 DEF Dies
  <1>3. CASE UNCHANGED sessionVars
    BY <1>3 DEF sessionVars
  <1>4. ASSUME NEW a \in Accounts, LoseUserRow(a)
        PROVE  SessionInv'
    BY <1>4 DEF LoseUserRow
  <1>5. ASSUME NEW a \in Accounts, GainUserRow(a)
        PROVE  SessionInv'
    BY <1>5 DEF GainUserRow
  <1> QED
    BY <1>1, <1>2, <1>3, <1>4, <1>5

\* Every step of the session keeps the invariant.
LEMMA NextInv == SessionInv /\ [SessionNext]_sessionVars => SessionInv'
  <1> SUFFICES ASSUME SessionInv, [SessionNext]_sessionVars PROVE SessionInv'
    OBVIOUS
  <1>1. ASSUME NEW a \in Accounts, Generate(a) PROVE SessionInv'
    BY <1>1, GenerateInv
  <1>2. ASSUME NEW a \in Accounts, LoginWithWalletFile(a) PROVE SessionInv'
    <2>1. page = "main" /\ a \in files /\ OpenWallet(a, a) /\ a # None
      BY <1>2, SessionAssumption DEF LoginWithWalletFile
    <2> QED
      BY <2>1, OpenWalletInv
  <1>3. ASSUME NEW a \in Accounts, LoginWithMnemonic(a) PROVE SessionInv'
    <2>1. PICK w \in {a, wallet} \ {None} : OpenWallet(a, w)
      BY <1>3 DEF LoginWithMnemonic
    <2>2. page = "main" /\ a \in files \cup Foreign
      BY <1>3 DEF LoginWithMnemonic
    <2> QED
      BY <2>1, <2>2, OpenWalletInv
  <1>4. CASE RegisterKeys
    BY <1>4, RegisterKeysInv
  <1>5. CASE Loaded
    BY <1>5, LoadedInv
  <1>6. CASE RegisterPut
    BY <1>6, RegisterPutInv
  <1>7. CASE \/ RegisterCart \/ Dies \/ UNCHANGED sessionVars
             \/ \E a \in Accounts : LoseUserRow(a) \/ GainUserRow(a)
    BY <1>7, OthersInv
  <1> QED
    BY <1>1, <1>2, <1>3, <1>4, <1>5, <1>6, <1>7 DEF SessionNext

\* The inductive invariant implies what is promised.
LEMMA InvImplies == SessionInv => SessionTypeOK /\ LoggedInAsAsked /\ KeysMatchPublished
  BY DEF SessionInv, Agree, LoggedInAsAsked

THEOREM SessionInvariant == SessionSpec => []SessionInv
  <1> QED
    BY InitInv, NextInv, PTL DEF SessionSpec

\* The state of the session keeps its types.
THEOREM SessionTypeCorrect == SessionSpec => []SessionTypeOK
  BY SessionInvariant, InvImplies, PTL

\* The home page is that of the account the user asked for.
THEOREM SessionOfTheUser == SessionSpec => []LoggedInAsAsked
  BY SessionInvariant, InvImplies, PTL

\* No registration overwrites the private key of a published account.
THEOREM PublishedKeysKept == SessionSpec => []KeysMatchPublished
  BY SessionInvariant, InvImplies, PTL

----------------------------------------------------------------------------
(* The shop implements the session.                                         *)

\* A step of the shop is a step of the session or does not concern it.
LEMMA StepOfSession == [Next]_vars => [SessionNext]_sessionVars
  <1> SUFFICES ASSUME [Next]_vars PROVE [SessionNext]_sessionVars
    OBVIOUS
  <1>1. CASE SignIn
    BY <1>1 DEF SignIn, SessionNext
  <1>2. CASE LoadItem
    BY <1>2 DEF LoadItem
  <1>3. CASE FinishLoading
    BY <1>3 DEF FinishLoading, SessionNext
  <1>4. CASE MakeCart
    BY <1>4 DEF MakeCart, SessionNext
  <1>5. CASE SessionOnly
    BY <1>5 DEF SessionOnly, SessionNext
  <1>6. CASE AppDies
    BY <1>6 DEF AppDies, SessionNext
  <1>7. CASE Shopping
    BY <1>7 DEF Shopping, Add, AddToFavorites, RemoveFromFavorites, RateItem, RateSeller, Rate,
                ListItem, DelistItem, SetStockQuantity, GetStockAvailable, LoseRow, GetRatings,
                GetProductRatings, GetSellerRatings, GetOwnInventory, GetInventory, GetListings,
                GetListingsByCategory, GetListingsBySearchTerm, Scan,
                CreateOrder, AskSeller, PutOrder, FinishOrder
  <1>8. ASSUME NEW a \in Accounts, GetUser(a) PROVE SessionNext
    BY <1>8 DEF GetUser, SessionNext
  <1>9. ASSUME NEW l \in Listings, GainRow(l) PROVE UNCHANGED sessionVars
    BY <1>9 DEF GainRow
  <1>10. ASSUME NEW l \in Listings, NEW q \in 0..MaxStock, SellerSets(l, q)
         PROVE  UNCHANGED sessionVars
    BY <1>10 DEF SellerSets
  <1>11. CASE UNCHANGED vars
    BY <1>11 DEF vars
  <1> QED
    BY <1>1, <1>2, <1>3, <1>4, <1>5, <1>6, <1>7, <1>8, <1>9, <1>10, <1>11 DEF Next

\* The application as a whole is a session.
THEOREM ShopIsASession == Spec => SessionSpec
  <1>1. Init => SessionInit
    BY DEF Init
  <1> QED
    BY <1>1, StepOfSession, PTL DEF Spec, SessionSpec

\* The home page of the shop is that of the account the user asked for.
THEOREM ShopperIsTheUser == Spec => []LoggedInAsAsked
  BY ShopIsASession, SessionOfTheUser, PTL

\* The shop overwrites no private key of a published account.
THEOREM ShopKeepsKeys == Spec => []KeysMatchPublished
  BY ShopIsASession, PublishedKeysKept, PTL

----------------------------------------------------------------------------
(* The cart in memory and in the table.                                     *)

\* From the first step of a login on, memory holds what the tables hold.
MemoryInv ==
    /\ rows = [a \in Accounts |-> rows[a]]
    /\ favorites = [a \in Accounts |-> favorites[a]]
    /\ page # "main" =>
          /\ items = rows[user.id]
          /\ favs = favorites[user.id]
          /\ cartId => user.id \in hasCart

\* Past the main page the user is one of the accounts.
LEMMA UserIsAccount ==
    ASSUME SessionInv, page # "main"
    PROVE  user.id \in Accounts
  BY DEF SessionInv, SessionTypeOK, Agree

\* A login reads the tables; everything else of the session leaves them alone.
LEMMA SessionMemory ==
    ASSUME SessionInv, SessionInv', MemoryInv,
           SignIn \/ FinishLoading \/ MakeCart \/ SessionOnly \/ AppDies
           \/ \E a \in Accounts : GetUser(a)
    PROVE  MemoryInv'
  <1>1. CASE SignIn
    <2>1. page = "main" /\ UNCHANGED <<rows, favorites, hasCart>>
      BY <1>1 DEF SignIn, RegisterKeys, LoginWithWalletFile, LoginWithMnemonic
    <2>2. page' \in {"main", "loading"}
      BY <1>1, <2>1 DEF SignIn, RegisterKeys, LoginWithWalletFile, LoginWithMnemonic, OpenWallet, OnLogin
    <2> QED
      BY <1>1, <2>1, <2>2 DEF SignIn, LoadCart, MemoryInv
  <1>2. CASE FinishLoading
    <2>1. page = "loading" /\ user'.id = user.id
      BY <1>2, UserIsAccount DEF FinishLoading, Loaded, SessionInv, SessionTypeOK, Agree
    <2> QED
      BY <1>2, <2>1 DEF FinishLoading, MemoryInv, cartVars, favVars
  <1>3. CASE MakeCart
    BY <1>3 DEF MakeCart, RegisterCart, MemoryInv, favVars
  <1>4. CASE SessionOnly
    <2>1. user' = user /\ (page' # "main" => page # "main")
      BY <1>4 DEF SessionOnly, RegisterPut, Generate, GainUserRow
    <2> QED
      BY <1>4, <2>1 DEF SessionOnly, MemoryInv, cartVars, favVars
  <1>5. CASE AppDies
    BY <1>5 DEF AppDies, Dies, MemoryInv
  <1>6. ASSUME NEW a \in Accounts, GetUser(a) PROVE MemoryInv'
    BY <1>6 DEF GetUser, LoseUserRow, MemoryInv, cartVars, favVars
  <1> QED
    BY <1>1, <1>2, <1>3, <1>4, <1>5, <1>6

\* What changes the cart or the favorites changes both copies alike.
LEMMA ShoppingMemory ==
    ASSUME SessionInv, MemoryInv, LoadItem \/ Shopping
    PROVE  MemoryInv'
  <1>1. CASE LoadItem
    <2>1. page = "loading" /\ user.id \in Accounts /\ items = rows[user.id]
      BY <1>1, UserIsAccount DEF LoadItem, MemoryInv
    <2>2. CASE loading.next > Len(items)
      BY <1>1, <2>2 DEF LoadItem, MemoryInv, sessionVars, favVars
    <2>3. CASE ~(loading.next > Len(items))
      <3>1. PICK u : items' = u /\ rows' = [rows EXCEPT ![user.id] = u]
        BY <1>1, <2>1, <2>3 DEF LoadItem
      <3> QED
        BY <1>1, <2>1, <3>1 DEF LoadItem, MemoryInv, sessionVars, favVars
    <2> QED
      BY <2>2, <2>3
  <1>2. ASSUME NEW l \in Listings, NEW q \in Quantities, Add(l, q) PROVE MemoryInv'
    <2>1. page = "home" /\ user.id \in Accounts /\ items = rows[user.id]
      BY <1>2, UserIsAccount DEF Add, Begins, MemoryInv
    <2>2. hasCart \subseteq hasCart'
      BY <1>2 DEF Add
    <2>3. CASE UNCHANGED <<rows, items>>
      BY <1>2, <2>2, <2>3 DEF Add, MemoryInv, sessionVars, favVars
    <2>4. CASE ~UNCHANGED <<rows, items>>
      <3>1. PICK u : items' = u /\ rows' = [rows EXCEPT ![user.id] = u]
        BY <1>2, <2>1, <2>4 DEF Add
      <3> QED
        BY <1>2, <2>1, <2>2, <3>1 DEF Add, MemoryInv, sessionVars, favVars
    <2> QED
      BY <2>3, <2>4
  <1>3. ASSUME NEW l \in Listings, AddToFavorites(l) \/ RemoveFromFavorites(l) PROVE MemoryInv'
    <2>1. page = "home" /\ user.id \in Accounts /\ favs = favorites[user.id]
      BY <1>3, UserIsAccount DEF AddToFavorites, RemoveFromFavorites, Begins, MemoryInv
    <2> QED
      BY <1>3, <2>1 DEF AddToFavorites, RemoveFromFavorites, MemoryInv, sessionVars, cartVars
  <1>4. CASE FinishOrder
    <2>1. page # "main" => user.id \in Accounts
      BY UserIsAccount
    <2> QED
      BY <1>4, <2>1 DEF FinishOrder, MemoryInv, sessionVars, favVars
  <1>5. CASE UNCHANGED <<sessionVars, cartVars, favVars>>
    BY <1>5 DEF MemoryInv, sessionVars, cartVars, favVars
  <1> QED
    BY <1>1, <1>2, <1>3, <1>4, <1>5
    DEF Shopping, RateItem, RateSeller, Rate,
        ListItem, DelistItem, SetStockQuantity, GetStockAvailable, LoseRow, GetRatings,
        GetProductRatings, GetSellerRatings, GetOwnInventory, GetInventory, GetListings,
        GetListingsByCategory, GetListingsBySearchTerm, Scan,
        CreateOrder, AskSeller, PutOrder

\* The three kinds of steps that matter to the cart in memory.
LEMMA NextMemory ==
    ASSUME SessionInv, SessionInv', MemoryInv, [Next]_vars
    PROVE  MemoryInv'
  <1>1. CASE \/ SignIn \/ FinishLoading \/ MakeCart \/ SessionOnly \/ AppDies
             \/ \E a \in Accounts : GetUser(a)
    BY <1>1, SessionMemory
  <1>2. CASE LoadItem \/ Shopping
    BY <1>2, ShoppingMemory
  <1>3. CASE UNCHANGED <<sessionVars, cartVars, favVars>>
    BY <1>3 DEF MemoryInv, sessionVars, cartVars, favVars
  <1> QED
    BY <1>1, <1>2, <1>3 DEF Next, GainRow, SellerSets, vars

LEMMA InitMemory == Init => MemoryInv
  BY DEF Init, SessionInit, MemoryInv

\* The session's invariant holds of the shop.
THEOREM ShopSessionInvariant == Spec => []SessionInv
  BY ShopIsASession, SessionInvariant, PTL

THEOREM MemoryInvariant == Spec => []MemoryInv
  <1>1. SessionInv /\ SessionInv' /\ MemoryInv /\ [Next]_vars => MemoryInv'
    BY NextMemory
  <1> QED
    BY <1>1, InitMemory, ShopSessionInvariant, PTL DEF Spec

\* What is in memory is what is in the tables of the user who is logged in.
THEOREM CartInMemory == Spec => []CartMatchesRows
  <1>1. MemoryInv => CartMatchesRows
    BY DEF MemoryInv, CartMatchesRows
  <1> QED
    BY <1>1, MemoryInvariant, PTL

----------------------------------------------------------------------------
(* Ratings.                                                                 *)

\* A rating that is not in the index is in doubt.
RatingInv ==
    /\ \A r \in ratings : r \in rated \/ <<r.by, r.subject>> \in doubt
    /\ OneRating

\* A new rating is put when none of the user's was found: there is none, or it
\* is in doubt.
LEMMA RateInv ==
    ASSUME RatingInv, NEW subject, Rate(subject)
    PROVE  RatingInv'
  <1> DEFINE all == {r \in Seen.rated : r.subject = subject}
             mine == {r \in all : r.by = user.id}
             rating == [by |-> user.id, subject |-> subject, n |-> ops + 1]
             pair == <<user.id, subject>>
  <1>1. PICK failed \in SUBSET all, silent \in SUBSET all :
          IF mine \ (failed \cup silent) # {}
          THEN /\ rated' = rated \ failed
               /\ doubt' = doubt \cup Missed(failed)
               /\ UNCHANGED ratings
          ELSE /\ \/ /\ ratings' = ratings \cup {rating}
                     /\ rated' \in {rated \ failed, (rated \ failed) \cup {rating}}
                  \/ /\ UNCHANGED ratings
                     /\ rated' = rated \ failed
               /\ doubt' = IF /\ mine = {}
                              /\ snapshot = None
                              /\ rating \in ratings' => rating \in rated'
                           THEN doubt \cup Missed(failed)
                           ELSE doubt \cup Missed(failed) \cup {pair}
    BY DEF Rate
  <1>2. rated \ failed \subseteq rated' /\ doubt \cup Missed(failed) \subseteq doubt'
    BY <1>1
  <1>3. \A r \in failed : <<r.by, r.subject>> \in doubt'
    BY <1>2 DEF Missed
  <1>4. ratings' = ratings \/ ratings' = ratings \cup {rating}
    BY <1>1
  <1>5. \A r \in ratings : r \in rated' \/ <<r.by, r.subject>> \in doubt'
    BY <1>2, <1>3 DEF RatingInv
  <1>6. CASE ratings' = ratings
    BY <1>2, <1>5, <1>6 DEF RatingInv, OneRating
  <1>7. CASE ratings' # ratings
    <2>1. rating.by = user.id /\ rating.subject = subject
      OBVIOUS
    <2>2. rating \in rated' \/ pair \in doubt'
      BY <1>1, <1>7
    <2>3. ASSUME pair \notin doubt', NEW r \in ratings, r.by = user.id, r.subject = subject
          PROVE  FALSE
      <3>1. mine = {} /\ snapshot = None
        BY <1>1, <1>7, <2>3
      <3>2. r \in rated
        BY <1>2, <2>3 DEF RatingInv
      <3>3. r \in mine
        BY <2>3, <3>1, <3>2 DEF Seen
      <3> QED
        BY <3>1, <3>3
    <2>4. \A r \in ratings' : r \in rated' \/ <<r.by, r.subject>> \in doubt'
      BY <1>4, <1>5, <2>1, <2>2
    <2>5. ASSUME NEW r \in ratings', NEW s \in ratings', r.by = s.by, r.subject = s.subject,
                 r # s, <<r.by, r.subject>> \notin doubt'
          PROVE  FALSE
      <3>1. CASE r \in ratings /\ s \in ratings
        BY <1>2, <2>5, <3>1 DEF RatingInv, OneRating
      <3>2. CASE r = rating
        BY <1>4, <2>1, <2>3, <2>5, <3>2
      <3>3. CASE s = rating
        BY <1>4, <2>1, <2>3, <2>5, <3>3
      <3> QED
        BY <1>4, <3>1, <3>2, <3>3
    <2> QED
      BY <2>4, <2>5 DEF RatingInv, OneRating
  <1> QED
    BY <1>6, <1>7

\* Of the other operations only the screen of ratings touches the index of them.
LEMMA NextRating == RatingInv /\ [Next]_vars => RatingInv'
  <1> SUFFICES ASSUME RatingInv, [Next]_vars PROVE RatingInv'
    OBVIOUS
  <1>1. ASSUME NEW x, RateItem(x) \/ RateSeller(x) PROVE RatingInv'
    BY <1>1, RateInv DEF RateItem, RateSeller
  <1>2. ASSUME NEW x, GetRatings(x) PROVE RatingInv'
    BY <1>2 DEF GetRatings, Missed, RatingInv, OneRating
  <1>3. CASE UNCHANGED <<ratings, rated, doubt>>
    BY <1>3 DEF RatingInv, OneRating
  <1> QED
    BY <1>1, <1>2, <1>3
    DEF Next, vars, ratingVars, SignIn, LoadItem, FinishLoading, MakeCart, SessionOnly, AppDies,
        Shopping, Add, AddToFavorites, RemoveFromFavorites, ListItem, DelistItem, SetStockQuantity,
        GetStockAvailable, LoseRow, GetProductRatings, GetSellerRatings, GetOwnInventory,
        GetInventory, GetListings, GetListingsByCategory,
        GetListingsBySearchTerm, Scan, CreateOrder, AskSeller, PutOrder, FinishOrder, GetUser, GainRow,
        SellerSets

\* A user has two ratings of one subject only when the earlier could be missed.
THEOREM OneRatingEach == Spec => []OneRating
  <1>1. Init => RatingInv
    BY DEF Init, RatingInv, OneRating
  <1>2. RatingInv => OneRating
    BY DEF RatingInv
  <1> QED
    BY <1>1, <1>2, NextRating, PTL DEF Spec

----------------------------------------------------------------------------
(* Carts as sequences of rows, told apart by their tags.                    *)

IsRow(r) == r = [key |-> r.key, qty |-> r.qty, tag |-> r.tag]

RowSeq(s) == s \in Seq(Range(s)) /\ \A i \in DOMAIN s : IsRow(s[i])

DistinctTags(s) == \A i, j \in DOMAIN s : s[i].tag = s[j].tag => i = j

\* A sequence of rows, seen as its tags.
LEMMA TagsOfRows ==
    ASSUME NEW s
    PROVE  \A t : t \in Tags(Range(s)) <=> \E i \in DOMAIN s : t = s[i].tag
  BY DEF Tags, Range

\* A changed quantity leaves the tags as they are.
LEMMA SetQuantityFacts ==
    ASSUME NEW s, NEW l, NEW q, RowSeq(s)
    PROVE  LET u == SetQuantity(s, l, q)
           IN /\ RowSeq(u)
              /\ DistinctTags(s) => DistinctTags(u)
              /\ Tags(Range(u)) = Tags(Range(s))
  <1> DEFINE u == SetQuantity(s, l, q)
  <1>1. DOMAIN u = DOMAIN s
    BY DEF SetQuantity
  <1>2. ASSUME NEW i \in DOMAIN s PROVE IsRow(u[i]) /\ u[i].tag = s[i].tag
    BY <1>2 DEF SetQuantity, RowSeq, IsRow
  <1>3. u \in Seq(Range(u))
    <2>1. Len(s) \in Nat /\ DOMAIN s = 1..Len(s)
      BY DEF RowSeq
    <2>2. u = [i \in 1..Len(s) |-> u[i]]
      BY <1>1, <2>1 DEF SetQuantity
    <2>3. \A i \in 1..Len(s) : u[i] \in Range(u)
      BY <1>1, <2>1 DEF Range
    <2> QED
      BY <2>1, <2>2, <2>3
  <1>4. RowSeq(u)
    BY <1>1, <1>2, <1>3 DEF RowSeq
  <1>5. DistinctTags(s) => DistinctTags(u)
    BY <1>1, <1>2 DEF DistinctTags
  <1>6. Tags(Range(u)) = Tags(Range(s))
    BY <1>1, <1>2, TagsOfRows
  <1> HIDE DEF u
  <1>7. RowSeq(u) /\ (DistinctTags(s) => DistinctTags(u)) /\ Tags(Range(u)) = Tags(Range(s))
    BY <1>4, <1>5, <1>6
  <1> QED
    BY <1>7 DEF u

\* What remains of a sequence without its element k.
LEMMA RemoveAtElements ==
    ASSUME NEW S, NEW s \in Seq(S), NEW k \in 1..Len(s)
    PROVE  /\ RemoveAt(s, k) \in Seq(S)
           /\ Len(RemoveAt(s, k)) = Len(s) - 1
           /\ \A j \in 1..(Len(s) - 1) :
                 RemoveAt(s, k)[j] = IF j < k THEN s[j] ELSE s[j + 1]
  <1> DEFINE front == SubSeq(s, 1, k - 1)
             back == SubSeq(s, k + 1, Len(s))
  <1>1. RemoveAt(s, k) = front \o back
    BY DEF RemoveAt
  <1>2. Len(s) \in Nat /\ k \in Int /\ \A i \in 1..Len(s) : s[i] \in S
    OBVIOUS
  <1>3. /\ front \in Seq(S)
        /\ Len(front) = k - 1
        /\ \A j \in 1..(k - 1) : front[j] = s[j]
    <2>1. \A i \in 1..(k - 1) : s[i] \in S
      BY <1>2
    <2>2. /\ front \in Seq(S)
          /\ Len(front) = IF 1 <= k - 1 THEN (k - 1) - 1 + 1 ELSE 0
          /\ \A j \in 1..((k - 1) - 1 + 1) : front[j] = s[1 + j - 1]
      BY <1>2, <2>1, SubSeqProperties
    <2> HIDE DEF front
    <2> QED
      BY <1>2, <2>2
  <1>4. /\ back \in Seq(S)
        /\ Len(back) = Len(s) - k
        /\ \A j \in 1..(Len(s) - k) : back[j] = s[k + j]
    <2>1. \A i \in (k + 1)..Len(s) : s[i] \in S
      BY <1>2
    <2>2. /\ back \in Seq(S)
          /\ Len(back) = IF k + 1 <= Len(s) THEN Len(s) - (k + 1) + 1 ELSE 0
          /\ \A j \in 1..(Len(s) - (k + 1) + 1) : back[j] = s[(k + 1) + j - 1]
      BY <1>2, <2>1, SubSeqProperties
    <2> HIDE DEF back
    <2>3. Len(back) = Len(s) - k
      BY <1>2, <2>2
    <2>4. ASSUME NEW j \in 1..(Len(s) - k) PROVE back[j] = s[k + j]
      <3>1. j \in 1..(Len(s) - (k + 1) + 1) /\ (k + 1) + j - 1 = k + j
        BY <1>2
      <3> QED
        BY <2>2, <3>1
    <2> QED
      BY <2>2, <2>3, <2>4
  <1> HIDE DEF front, back
  <1>5. /\ front \o back \in Seq(S)
        /\ Len(front \o back) = Len(front) + Len(back)
        /\ \A j \in 1..(Len(front) + Len(back)) :
              (front \o back)[j] = IF j <= Len(front) THEN front[j] ELSE back[j - Len(front)]
    <2>1. front \in Seq(S) /\ back \in Seq(S)
      BY <1>3, <1>4
    <2> QED
      BY ONLY <2>1, ConcatProperties
  <1>6. Len(front) + Len(back) = Len(s) - 1
    BY <1>2, <1>3, <1>4
  <1>7. ASSUME NEW j \in 1..(Len(s) - 1)
        PROVE  (front \o back)[j] = IF j < k THEN s[j] ELSE s[j + 1]
    <2>1. CASE j < k
      BY <1>2, <1>3, <1>5, <1>6, <2>1
    <2>2. CASE ~(j < k)
      <3>1. j - (k - 1) \in 1..(Len(s) - k) /\ k + (j - (k - 1)) = j + 1
        BY <1>2, <2>2
      <3>2. (front \o back)[j] = back[j - (k - 1)]
        BY <1>2, <1>3, <1>5, <1>6, <2>2
      <3> QED
        BY <1>4, <2>2, <3>1, <3>2
    <2> QED
      BY <2>1, <2>2
  <1> QED
    BY <1>1, <1>5, <1>6, <1>7

\* An item that leaves takes its tag along.
LEMMA WithoutFacts ==
    ASSUME NEW s, NEW l, RowSeq(s)
    PROVE  LET u == Without(s, l)
           IN /\ RowSeq(u)
              /\ DistinctTags(s) => DistinctTags(u)
              /\ Tags(Range(u)) \subseteq Tags(Range(s))
  <1>1. CASE ~Has(s, l)
    BY <1>1 DEF Without
  <1>2. CASE Has(s, l)
    <2> DEFINE k == CHOOSE i \in DOMAIN s : s[i].key = l
               u == RemoveAt(s, k)
    <2>1. k \in 1..Len(s) /\ Len(s) \in Nat /\ DOMAIN s = 1..Len(s)
      BY <1>2 DEF Has, RowSeq
    <2> HIDE DEF k
    <2>2. /\ u \in Seq(Range(s))
          /\ Len(u) = Len(s) - 1
          /\ \A i \in 1..(Len(s) - 1) : u[i] = IF i < k THEN s[i] ELSE s[i + 1]
      BY <2>1, RemoveAtElements DEF RowSeq
    <2> HIDE DEF u
    <2>3. DOMAIN u = 1..(Len(s) - 1)
      BY <2>1, <2>2
    <2>4. u \in Seq(Range(u))
      <3>1. u = [i \in 1..Len(u) |-> u[i]] /\ Len(u) \in Nat
        BY <2>2
      <3>2. \A i \in 1..Len(u) : u[i] \in Range(u)
        BY <2>2, <2>3 DEF Range
      <3> QED
        BY <3>1, <3>2
    <2>5. ASSUME NEW i \in DOMAIN u
          PROVE  \E j \in DOMAIN s : u[i] = s[j] /\ j = IF i < k THEN i ELSE i + 1
      <3>1. i \in DOMAIN s /\ i + 1 \in DOMAIN s /\ i \in 1..(Len(s) - 1)
        BY <2>1, <2>3
      <3> QED
        BY <2>2, <3>1
    <2>6. RowSeq(u)
      BY <2>4, <2>5 DEF RowSeq
    <2>7. DistinctTags(s) => DistinctTags(u)
      <3> SUFFICES ASSUME DistinctTags(s), NEW i \in DOMAIN u, NEW j \in DOMAIN u, u[i].tag = u[j].tag
                   PROVE  i = j
        BY DEF DistinctTags
      <3>1. (IF i < k THEN i ELSE i + 1) = (IF j < k THEN j ELSE j + 1)
        BY <2>5 DEF DistinctTags
      <3>2. i \in Int /\ j \in Int /\ k \in Int
        BY <2>1, <2>3
      <3> QED
        BY <3>1, <3>2
    <2>8. Tags(Range(u)) \subseteq Tags(Range(s))
      BY <2>5, TagsOfRows
    <2>9. Without(s, l) = u
      BY <1>2 DEF Without, u, k
    <2> QED
      BY <2>6, <2>7, <2>8, <2>9
  <1> QED
    BY <1>1, <1>2

\* A new item with a new tag.
LEMMA AppendRowFacts ==
    ASSUME NEW s, NEW r, RowSeq(s), IsRow(r), r.tag \notin Tags(Range(s))
    PROVE  LET u == Append(s, r)
           IN /\ RowSeq(u)
              /\ DistinctTags(s) => DistinctTags(u)
              /\ Tags(Range(u)) = Tags(Range(s)) \cup {r.tag}
  <1> DEFINE u == Append(s, r)
             S == Range(s) \cup {r}
  <1>1. Len(s) \in Nat /\ DOMAIN s = 1..Len(s) /\ s \in Seq(S)
    BY DEF RowSeq
  <1> HIDE DEF S
  <1>2. r \in S
    BY DEF S
  <1>3. /\ u \in Seq(S) /\ Len(u) = Len(s) + 1
        /\ \A i \in 1..Len(s) : u[i] = s[i]
        /\ u[Len(s) + 1] = r
    BY <1>1, <1>2, AppendProperties
  <1> HIDE DEF u
  <1>4. DOMAIN u = 1..(Len(s) + 1)
    BY <1>3
  <1>5. u \in Seq(Range(u))
    <2>1. u = [i \in 1..Len(u) |-> u[i]] /\ Len(u) \in Nat
      BY <1>1, <1>3
    <2>2. \A i \in 1..Len(u) : u[i] \in Range(u)
      BY <1>3, <1>4 DEF Range
    <2> QED
      BY <2>1, <2>2
  <1>6. RowSeq(u)
    <2>1. ASSUME NEW i \in DOMAIN u PROVE IsRow(u[i])
      <3>1. i \in 1..Len(s) \/ i = Len(s) + 1
        BY <1>1, <1>4
      <3> QED
        BY <1>1, <1>3, <3>1 DEF RowSeq
    <2> QED
      BY <1>5, <2>1 DEF RowSeq
  <1>7. \A i \in DOMAIN s : s[i].tag # r.tag
    BY TagsOfRows
  <1>8. DistinctTags(s) => DistinctTags(u)
    <2> SUFFICES ASSUME DistinctTags(s), NEW i \in DOMAIN u, NEW j \in DOMAIN u, u[i].tag = u[j].tag
                 PROVE  i = j
      BY DEF DistinctTags
    <2>1. (i \in 1..Len(s) \/ i = Len(s) + 1) /\ (j \in 1..Len(s) \/ j = Len(s) + 1)
      BY <1>1, <1>4
    <2> QED
      BY <1>1, <1>3, <1>7, <2>1 DEF DistinctTags
  <1>9. Tags(Range(u)) = Tags(Range(s)) \cup {r.tag}
    <2>1. ASSUME NEW i \in DOMAIN u PROVE u[i].tag \in Tags(Range(s)) \cup {r.tag}
      <3>1. i \in 1..Len(s) \/ i = Len(s) + 1
        BY <1>1, <1>4
      <3> QED
        BY <1>1, <1>3, <3>1, TagsOfRows
    <2>2. ASSUME NEW i \in DOMAIN s PROVE s[i].tag \in Tags(Range(u))
      BY <1>1, <1>3, <1>4, TagsOfRows
    <2>3. r.tag \in Tags(Range(u))
      BY <1>1, <1>3, <1>4, TagsOfRows
    <2> QED
      BY <2>1, <2>2, <2>3, TagsOfRows
  <1>10. RowSeq(u) /\ (DistinctTags(s) => DistinctTags(u))
         /\ Tags(Range(u)) = Tags(Range(s)) \cup {r.tag}
    BY <1>6, <1>8, <1>9
  <1> QED
    BY <1>10 DEF u

\* What Cart::add makes of a cart whose tags are old.
LEMMA PutInCartFacts ==
    ASSUME NEW s, NEW l, NEW q, NEW quantity, RowSeq(s), ops + 1 \notin Tags(Range(s))
    PROVE  LET u == PutInCart(s, l, q, quantity)
           IN /\ RowSeq(u)
              /\ DistinctTags(s) => DistinctTags(u)
              /\ Tags(Range(u)) \subseteq Tags(Range(s)) \cup {ops + 1}
  <1>1. PICK n : \/ PutInCart(s, l, q, quantity) = SetQuantity(s, l, n)
                 \/ PutInCart(s, l, q, quantity) = Append(s, [key |-> l, qty |-> n, tag |-> ops + 1])
    BY DEF PutInCart
  <1>2. CASE PutInCart(s, l, q, quantity) = SetQuantity(s, l, n)
    BY <1>2, SetQuantityFacts
  <1>3. CASE PutInCart(s, l, q, quantity) = Append(s, [key |-> l, qty |-> n, tag |-> ops + 1])
    <2>1. IsRow([key |-> l, qty |-> n, tag |-> ops + 1])
      BY DEF IsRow
    <2>2. [key |-> l, qty |-> n, tag |-> ops + 1].tag = ops + 1
      OBVIOUS
    <2> QED
      BY <1>3, <2>1, <2>2, AppendRowFacts
  <1> QED
    BY <1>1, <1>2, <1>3

\* Cart::add changes quantities, or appends an item: the others keep key and tag.
LEMMA PutInCartKeys ==
    ASSUME NEW s, NEW l, NEW q, NEW quantity, RowSeq(s)
    PROVE  LET u == PutInCart(s, l, q, quantity)
           IN /\ Tags(Range(s)) \subseteq Tags(Range(u))
              /\ \A r \in Range(u) :
                    r.tag = ops + 1 \/ \E x \in Range(s) : x.key = r.key /\ x.tag = r.tag
  <1>1. PICK n : \/ PutInCart(s, l, q, quantity) = SetQuantity(s, l, n)
                 \/ PutInCart(s, l, q, quantity) = Append(s, [key |-> l, qty |-> n, tag |-> ops + 1])
    BY DEF PutInCart
  <1>2. CASE PutInCart(s, l, q, quantity) = SetQuantity(s, l, n)
    <2> DEFINE u == SetQuantity(s, l, n)
    <2>1. DOMAIN u = DOMAIN s
      BY DEF SetQuantity
    <2>2. ASSUME NEW i \in DOMAIN s PROVE u[i].key = s[i].key /\ u[i].tag = s[i].tag
      BY <2>2 DEF SetQuantity, RowSeq, IsRow
    <2> HIDE DEF u
    <2>3. Tags(Range(s)) \subseteq Tags(Range(u))
      BY <2>1, <2>2, TagsOfRows
    <2>4. \A r \in Range(u) : \E x \in Range(s) : x.key = r.key /\ x.tag = r.tag
      BY <2>1, <2>2 DEF Range
    <2> QED
      BY <1>2, <2>3, <2>4 DEF u
  <1>3. CASE PutInCart(s, l, q, quantity) = Append(s, [key |-> l, qty |-> n, tag |-> ops + 1])
    <2> DEFINE r == [key |-> l, qty |-> n, tag |-> ops + 1]
               u == Append(s, r)
               S == Range(s) \cup {r}
    <2>1. r.tag = ops + 1
      OBVIOUS
    <2> HIDE DEF r
    <2>2. Len(s) \in Nat /\ DOMAIN s = 1..Len(s) /\ s \in Seq(S) /\ r \in S
      BY DEF RowSeq
    <2> HIDE DEF S
    <2>3. /\ u \in Seq(S) /\ Len(u) = Len(s) + 1
          /\ \A i \in 1..Len(s) : u[i] = s[i]
          /\ u[Len(s) + 1] = r
      BY <2>2, AppendProperties
    <2> HIDE DEF u
    <2>4. DOMAIN u = 1..(Len(s) + 1)
      BY <2>3
    <2>5. Tags(Range(s)) \subseteq Tags(Range(u))
      BY <2>2, <2>3, <2>4, TagsOfRows
    <2>6. ASSUME NEW x \in Range(u) PROVE x = r \/ x \in Range(s)
      <3>1. PICK i \in DOMAIN u : x = u[i]
        BY DEF Range
      <3>2. i \in 1..Len(s) \/ i = Len(s) + 1
        BY <2>2, <2>4
      <3> QED
        BY <2>2, <2>3, <3>1, <3>2 DEF Range
    <2>7. PutInCart(s, l, q, quantity) = u
      BY <1>3 DEF u, r
    <2> QED
      BY <2>1, <2>5, <2>6, <2>7
  <1> QED
    BY <1>1, <1>2, <1>3

----------------------------------------------------------------------------
(* Calls as a stack.                                                        *)

IsStack(s) == s \in Seq(Range(s))

\* The outer calls are what the innermost leaves when it returns.
LEMMA PopFacts ==
    ASSUME NEW s, IsStack(s), s # <<>>
    PROVE  /\ IsStack(Front(s))
           /\ Len(s) \in Nat \ {0}
           /\ Len(Front(s)) = Len(s) - 1
           /\ \A i \in 1..(Len(s) - 1) : Front(s)[i] = s[i]
  <1>1. Len(s) \in Nat \ {0} /\ DOMAIN s = 1..Len(s)
    BY DEF IsStack
  <1> DEFINE u == SubSeq(s, 1, Len(s) - 1)
  <1>2. \A i \in 1..(Len(s) - 1) : s[i] \in Range(s)
    BY <1>1 DEF Range
  <1>3. /\ u \in Seq(Range(s))
        /\ Len(u) = IF 1 <= Len(s) - 1 THEN (Len(s) - 1) - 1 + 1 ELSE 0
        /\ \A j \in 1..((Len(s) - 1) - 1 + 1) : u[j] = s[1 + j - 1]
    BY <1>1, <1>2, SubSeqProperties
  <1> HIDE DEF u
  <1>4. Len(u) = Len(s) - 1 /\ \A j \in 1..(Len(s) - 1) : u[j] = s[j]
    <2>1. (Len(s) - 1) - 1 + 1 = Len(s) - 1 /\ (~(1 <= Len(s) - 1) => Len(s) - 1 = 0)
      BY <1>1
    <2>2. \A j \in 1..(Len(s) - 1) : 1 + j - 1 = j
      BY <1>1
    <2>3. Len(u) = Len(s) - 1
      BY <1>3, <2>1
    <2>4. \A j \in 1..(Len(s) - 1) : u[j] = s[j]
      BY <1>3, <2>1, <2>2
    <2> QED
      BY <2>3, <2>4
  <1>5. u \in Seq(Range(u))
    <2>1. u = [i \in 1..Len(u) |-> u[i]] /\ Len(u) \in Nat /\ DOMAIN u = 1..Len(u)
      BY <1>3
    <2>2. \A i \in 1..Len(u) : u[i] \in Range(u)
      BY <2>1 DEF Range
    <2> QED
      BY <2>1, <2>2
  <1> QED
    BY <1>1, <1>4, <1>5 DEF u, Front, IsStack

\* A call that begins is the innermost.
LEMMA PushFacts ==
    ASSUME NEW s, NEW c, IsStack(s)
    PROVE  /\ IsStack(Append(s, c))
           /\ Append(s, c) # <<>>
           /\ Len(s) \in Nat
           /\ Len(Append(s, c)) = Len(s) + 1
           /\ \A i \in 1..Len(s) : Append(s, c)[i] = s[i]
           /\ Append(s, c)[Len(s) + 1] = c
  <1> DEFINE S == Range(s) \cup {c}
             u == Append(s, c)
  <1>1. s \in Seq(S) /\ c \in S /\ Len(s) \in Nat
    BY DEF IsStack
  <1> HIDE DEF S
  <1>2. /\ u \in Seq(S) /\ u # <<>> /\ Len(u) = Len(s) + 1
        /\ \A i \in 1..Len(s) : u[i] = s[i]
        /\ u[Len(s) + 1] = c
    BY <1>1, AppendProperties
  <1> HIDE DEF u
  <1>3. u \in Seq(Range(u))
    <2>1. u = [i \in 1..Len(u) |-> u[i]] /\ Len(u) \in Nat /\ DOMAIN u = 1..Len(u)
      BY <1>2
    <2>2. \A i \in 1..Len(u) : u[i] \in Range(u)
      BY <2>1 DEF Range
    <2> QED
      BY <2>1, <2>2
  <1> QED
    BY <1>1, <1>2, <1>3 DEF u, IsStack

\* The innermost call changes, the outer ones do not.
LEMMA TopFacts ==
    ASSUME NEW s, NEW c, IsStack(s), s # <<>>
    PROVE  LET u == [s EXCEPT ![Len(s)] = c]
           IN /\ IsStack(u)
              /\ u # <<>>
              /\ Len(s) \in Nat \ {0}
              /\ Len(u) = Len(s)
              /\ \A i \in 1..(Len(s) - 1) : u[i] = s[i]
              /\ u[Len(s)] = c
  <1> DEFINE S == Range(s) \cup {c}
             u == [s EXCEPT ![Len(s)] = c]
  <1>1. s \in Seq(S) /\ c \in S /\ Len(s) \in Nat \ {0} /\ Len(s) \in 1..Len(s)
    BY DEF IsStack
  <1> HIDE DEF S
  <1>2. /\ u \in Seq(S) /\ Len(u) = Len(s)
        /\ \A j \in 1..Len(s) : u[j] = IF j = Len(s) THEN c ELSE s[j]
    BY <1>1, ExceptSeq
  <1> HIDE DEF u
  <1>3. u \in Seq(Range(u))
    <2>1. u = [i \in 1..Len(u) |-> u[i]] /\ Len(u) \in Nat /\ DOMAIN u = 1..Len(u)
      BY <1>2
    <2>2. \A i \in 1..Len(u) : u[i] \in Range(u)
      BY <2>1 DEF Range
    <2> QED
      BY <2>1, <2>2
  <1>4. u # <<>> /\ u[Len(s)] = c /\ \A i \in 1..(Len(s) - 1) : u[i] = s[i]
    BY <1>1, <1>2
  <1>5. IsStack(u) /\ Len(u) = Len(s)
    BY <1>2, <1>3 DEF IsStack
  <1> QED
    BY <1>1, <1>4, <1>5 DEF u

----------------------------------------------------------------------------
(* Orders.                                                                  *)

CartTags(a) == Tags(Range(rows[a]))

\* The items of the carts are told apart by their tags, which are old.
ItemsInv ==
    /\ ops \in Nat
    /\ \A a \in Accounts : RowSeq(rows[a]) /\ DistinctTags(rows[a]) /\ CartTags(a) \subseteq 1..ops
    /\ \A a, b \in Accounts : a # b => CartTags(a) \cap CartTags(b) = {}

\* What a call has yet to put, and what it has in its order altogether.
Aim(c) == (UNION c.left) \cup UNION {Tags(g) : g \in c.ask}
Hold(c) == Aim(c) \cup c.put

\* Its parts are disjoint, and nothing is put before all has been looked up.
CallInv(c) ==
    /\ c = [ask |-> c.ask, left |-> c.left, put |-> c.put, cache |-> c.cache, batch |-> c.batch,
            waits |-> c.waits]
    /\ ~c.batch => c.ask = {}
    /\ c.ask # {} => c.put = {}
    /\ \A o, p \in c.left : o # p => o \cap p = {}
    /\ \A g, h \in c.ask : g # h => Tags(g) \cap Tags(h) = {}
    /\ \A g \in c.ask, o \in c.left : Tags(g) \cap o = {}
    /\ \A o \in c.left : o \cap c.put = {}

\* An item of the cart has been put, is about to be, or came late; or the call
\* has not looked it up and cannot be finished while it is there.
Covered(c, r) ==
    \/ r.tag \in sent \cup late \cup Aim(c)
    \/ ~c.batch /\ r.key \notin c.cache /\ c.left # {}

\* The calls of create_order: what the innermost has in its order is in the cart,
\* unless other orders may take it too, and so it is with all that the outer ones
\* have in theirs.
PlacingInv ==
    /\ IsStack(placing)
    /\ placing # <<>> => page = "home"
    /\ \A k \in 1..Len(placing) :
          /\ CallInv(placing[k])
          /\ \A r \in Range(rows[user.id]) : Covered(placing[k], r)
          /\ k < Len(placing) => Hold(placing[k]) \subseteq kept
          /\ Hold(placing[k]) \subseteq CartTags(user.id) \cup kept

\* An item that is in an order and in a cart stayed there after an attempt, or
\* was put by a call that has not returned.
PlacedInv ==
    /\ kept \subseteq 1..ops
    /\ orders \in Seq(SUBSET Nat)
    /\ \A i \in DOMAIN orders : orders[i] \subseteq 1..ops
    /\ \A i \in DOMAIN orders : \A a \in Accounts :
          orders[i] \cap CartTags(a) \subseteq kept \cup PutByAll

OrdersInv == ItemsInv /\ PlacingInv /\ PlacedInv /\ OrderedExactlyOnce

\* The innermost call, and what it put.
LEMMA TopOfCalls ==
    ASSUME OrdersInv, placing # <<>>
    PROVE  /\ Len(placing) \in Nat \ {0}
           /\ Len(placing) \in 1..Len(placing)
           /\ DOMAIN placing = 1..Len(placing)
           /\ Top = placing[Len(placing)]
           /\ CallInv(Top)
           /\ Top.put \subseteq PutByAll
           /\ PutByAll \subseteq kept \cup Top.put
  <1>1. /\ Len(placing) \in Nat \ {0} /\ DOMAIN placing = 1..Len(placing)
        /\ Len(placing) \in 1..Len(placing)
    BY DEF OrdersInv, PlacingInv, IsStack
  <1>2. Top = placing[Len(placing)]
    BY DEF Top, Last
  <1>3. CallInv(Top)
    BY <1>1, <1>2 DEF OrdersInv, PlacingInv
  <1>4. ASSUME NEW k \in 1..Len(placing) PROVE placing[k].put \subseteq kept \cup Top.put
    <2>1. CASE k < Len(placing)
      BY <2>1 DEF OrdersInv, PlacingInv, Hold
    <2>2. CASE k = Len(placing)
      BY <1>2, <2>2
    <2> QED
      BY <1>1, <2>1, <2>2
  <1> QED
    BY <1>1, <1>2, <1>3, <1>4 DEF PutByAll

\* A step that concerns neither a cart nor an order.
LEMMA QuietOrders ==
    ASSUME OrdersInv, UNCHANGED <<rows, placing, orders, sent, checkedOut, kept, late>>,
           ops' \in {ops, ops + 1}, placing # <<>> => page' = page /\ user' = user
    PROVE  OrdersInv'
  <1>1. ops' \in Nat /\ 1..ops \subseteq 1..ops' /\ \A a : CartTags(a)' = CartTags(a)
    BY DEF OrdersInv, ItemsInv, CartTags
  <1>2. ItemsInv'
    BY <1>1 DEF OrdersInv, ItemsInv
  <1>3. PlacingInv'
    <2>1. \A c, r : Covered(c, r)' <=> Covered(c, r)
      BY DEF Covered
    <2>2. CASE placing = <<>>
      <3>1. \A k : k \notin 1..Len(placing)
        BY <2>2
      <3> QED
        BY <2>2, <3>1 DEF OrdersInv, PlacingInv
    <2>3. CASE placing # <<>>
      BY <1>1, <2>1, <2>3 DEF OrdersInv, PlacingInv
    <2> QED
      BY <2>2, <2>3
  <1>4. PlacedInv'
    <2>1. PutByAll' = PutByAll
      BY DEF PutByAll
    <2>2. kept' \subseteq 1..ops' /\ \A i \in DOMAIN orders' : orders'[i] \subseteq 1..ops'
      BY <1>1 DEF OrdersInv, PlacedInv
    <2> QED
      BY <1>1, <2>1, <2>2 DEF OrdersInv, PlacedInv
  <1>5. OrderedExactlyOnce'
    BY DEF OrdersInv, OrderedExactlyOnce
  <1> QED
    BY <1>2, <1>3, <1>4, <1>5 DEF OrdersInv

\* A step that changes one cart, and gives a new item a new tag.  While an order
\* waits, it is a late item, and none leaves the cart.
LEMMA CartOrders ==
    ASSUME OrdersInv, MemoryInv, NEW a \in Accounts, NEW u, NEW T \in SUBSET {ops + 1},
           rows' = [rows EXCEPT ![a] = u], RowSeq(u), DistinctTags(u),
           Tags(Range(u)) \subseteq CartTags(a) \cup T,
           ops' \in {ops, ops + 1}, T = {} \/ ops' = ops + 1,
           UNCHANGED <<placing, orders, sent, checkedOut, kept>>, late \subseteq late',
           placing # <<>> =>
              /\ a = user.id /\ page' = page /\ user' = user
              /\ CartTags(a) \subseteq Tags(Range(u))
              /\ T \subseteq late'
              /\ \A r \in Range(u) :
                    r.tag \in T \/ \E x \in Range(rows[a]) : x.key = r.key /\ x.tag = r.tag
    PROVE  OrdersInv'
  <1>1. rows'[a] = u /\ \A b \in Accounts \ {a} : rows'[b] = rows[b]
    BY DEF MemoryInv
  <1>2. CartTags(a)' \subseteq CartTags(a) \cup T /\ \A b \in Accounts \ {a} : CartTags(b)' = CartTags(b)
    BY <1>1 DEF CartTags
  <1>3. /\ ops \in Nat /\ ops' \in Nat /\ ops + 1 \notin 1..ops
        /\ 1..ops \subseteq 1..ops' /\ T \subseteq 1..ops'
    BY DEF OrdersInv, ItemsInv
  <1>4. \A b \in Accounts : CartTags(b) \subseteq 1..ops /\ CartTags(b) \cap T = {}
    BY <1>3 DEF OrdersInv, ItemsInv
  <1>5. ItemsInv'
    <2>1. \A b \in Accounts : RowSeq(rows[b])' /\ DistinctTags(rows[b])'
      BY <1>1 DEF OrdersInv, ItemsInv
    <2>2. \A b \in Accounts : CartTags(b)' \subseteq 1..ops'
      BY <1>2, <1>3, <1>4
    <2>3. \A b, c \in Accounts : b # c => CartTags(b) \cap CartTags(c) = {}
      BY DEF OrdersInv, ItemsInv
    <2>4. \A b, c \in Accounts : b # c => CartTags(b)' \cap CartTags(c)' = {}
      BY <1>2, <1>4, <2>3
    <2> QED
      BY <1>3, <2>1, <2>2, <2>4 DEF ItemsInv
  <1>6. PlacingInv'
    <2>1. CASE placing = <<>>
      <3>1. \A k : k \notin 1..Len(placing)
        BY <2>1
      <3> QED
        BY <2>1, <3>1 DEF OrdersInv, PlacingInv
    <2>2. CASE placing # <<>>
      <3>1. page' = "home" /\ user'.id = a /\ user.id = a
        BY <2>2 DEF OrdersInv, PlacingInv
      <3>2. CartTags(user.id) \subseteq CartTags(user.id)'
        BY <1>1, <2>2, <3>1 DEF CartTags
      <3>3. ASSUME NEW k \in 1..Len(placing), NEW r \in Range(u) PROVE Covered(placing[k], r)'
        <4>1. CASE r.tag \in T
          BY <2>2, <4>1 DEF Covered
        <4>2. ASSUME NEW x \in Range(rows[a]), x.key = r.key, x.tag = r.tag
              PROVE  Covered(placing[k], r)'
          <5>1. Covered(placing[k], x)
            BY <3>1, <3>3, <4>2 DEF OrdersInv, PlacingInv
          <5> QED
            BY <4>2, <5>1 DEF Covered
        <4> QED
          BY <2>2, <3>3, <4>1, <4>2
      <3> QED
        BY <1>1, <2>2, <3>1, <3>2, <3>3 DEF OrdersInv, PlacingInv
    <2> QED
      BY <2>1, <2>2
  <1>7. PlacedInv'
    <2>1. PutByAll' = PutByAll
      BY DEF PutByAll
    <2>2. orders' \in Seq(SUBSET Nat) /\ \A i \in DOMAIN orders' : orders'[i] \subseteq 1..ops'
      BY <1>3 DEF OrdersInv, PlacedInv
    <2>3. ASSUME NEW i \in DOMAIN orders', NEW b \in Accounts
          PROVE  orders'[i] \cap CartTags(b)' \subseteq kept' \cup PutByAll'
      <3>1. orders[i] \subseteq 1..ops /\ orders[i] \cap CartTags(b) \subseteq kept \cup PutByAll
        BY <2>3 DEF OrdersInv, PlacedInv
      <3>2. orders[i] \cap T = {}
        BY <1>3, <3>1
      <3> QED
        BY <1>2, <2>1, <3>1, <3>2
    <2>4. kept' \subseteq 1..ops'
      BY <1>3 DEF OrdersInv, PlacedInv
    <2> QED
      BY <2>2, <2>3, <2>4 DEF PlacedInv
  <1>8. OrderedExactlyOnce'
    BY DEF OrdersInv, OrderedExactlyOnce
  <1> QED
    BY <1>5, <1>6, <1>7, <1>8 DEF OrdersInv

\* The loading of an item.
LEMMA LoadItemOrders ==
    ASSUME SessionInv, MemoryInv, OrdersInv, LoadItem
    PROVE  OrdersInv'
  <1>1. page = "loading" /\ user.id \in Accounts /\ items = rows[user.id] /\ placing = <<>>
    BY UserIsAccount DEF LoadItem, MemoryInv, OrdersInv, PlacingInv
  <1>2. ops' = ops /\ UNCHANGED <<placing, orders, sent, checkedOut, kept, late>>
    BY DEF LoadItem, orderVars
  <1>3. RowSeq(rows[user.id]) /\ DistinctTags(rows[user.id])
    BY <1>1 DEF OrdersInv, ItemsInv
  <1>4. CASE loading.next > Len(items)
    BY <1>1, <1>2, <1>4, QuietOrders DEF LoadItem
  <1>5. CASE ~(loading.next > Len(items))
    <2>1. PICK k, n : \/ rows' = [rows EXCEPT ![user.id] = Without(@, k)]
                      \/ rows' = [rows EXCEPT ![user.id] = SetQuantity(@, k, n)]
      BY <1>5 DEF LoadItem
    <2>2. CASE rows' = [rows EXCEPT ![user.id] = Without(@, k)]
      <3> DEFINE u == Without(rows[user.id], k)
      <3>1. RowSeq(u) /\ DistinctTags(u) /\ Tags(Range(u)) \subseteq CartTags(user.id) \cup {}
        BY <1>3, WithoutFacts DEF CartTags
      <3>2. rows' = [rows EXCEPT ![user.id] = u]
        BY <2>2
      <3> HIDE DEF u
      <3> QED
        BY <1>1, <1>2, <3>1, <3>2, CartOrders, {} \in SUBSET {ops + 1}
    <2>3. CASE rows' = [rows EXCEPT ![user.id] = SetQuantity(@, k, n)]
      <3> DEFINE u == SetQuantity(rows[user.id], k, n)
      <3>1. RowSeq(u) /\ DistinctTags(u) /\ Tags(Range(u)) \subseteq CartTags(user.id) \cup {}
        BY <1>3, SetQuantityFacts DEF CartTags
      <3>2. rows' = [rows EXCEPT ![user.id] = u]
        BY <2>3
      <3> HIDE DEF u
      <3> QED
        BY <1>1, <1>2, <3>1, <3>2, CartOrders, {} \in SUBSET {ops + 1}
    <2> QED
      BY <2>1, <2>2, <2>3
  <1> QED
    BY <1>4, <1>5

\* Cart::add, also while an order waits.
LEMMA AddOrders ==
    ASSUME SessionInv, MemoryInv, OrdersInv, NEW l \in Listings, NEW q \in Quantities, Add(l, q)
    PROVE  OrdersInv'
  <1>1. page = "home" /\ user.id \in Accounts /\ ops' = ops + 1
    BY UserIsAccount DEF Add, Begins
  <1>2. /\ UNCHANGED <<placing, orders, sent, checkedOut, kept>> /\ UNCHANGED <<page, user>>
        /\ late \subseteq late' /\ (placing # <<>> => ops + 1 \in late')
    BY DEF Add, sessionVars
  <1>3. RowSeq(rows[user.id]) /\ DistinctTags(rows[user.id]) /\ CartTags(user.id) \subseteq 1..ops
    BY <1>1 DEF OrdersInv, ItemsInv
  <1>4. /\ ops + 1 \notin Tags(Range(rows[user.id]))
        /\ CartTags(user.id) = Tags(Range(rows[user.id]))
    <2>1. ops \in Nat
      BY DEF OrdersInv, ItemsInv
    <2> QED
      BY <1>3, <2>1 DEF CartTags
  <1>5. CASE UNCHANGED rows
    <2> DEFINE u == rows[user.id]
    <2>1. rows' = [rows EXCEPT ![user.id] = u]
      BY <1>1, <1>5 DEF MemoryInv
    <2>2. \A r \in Range(u) : \E x \in Range(rows[user.id]) : x.key = r.key /\ x.tag = r.tag
      OBVIOUS
    <2>3. Tags(Range(u)) \subseteq CartTags(user.id) \cup {} /\ CartTags(user.id) \subseteq Tags(Range(u))
      BY <1>4
    <2>4. RowSeq(u) /\ DistinctTags(u)
      BY <1>3
    <2> HIDE DEF u
    <2> QED
      BY <1>1, <1>2, <2>1, <2>2, <2>3, <2>4, CartOrders, {} \in SUBSET {ops + 1}
  <1>6. CASE rows' # rows
    <2>1. PICK quantity : rows' = [rows EXCEPT ![user.id] = PutInCart(@, l, q, quantity)]
      BY <1>6 DEF Add
    <2> DEFINE u == PutInCart(rows[user.id], l, q, quantity)
    <2>2. RowSeq(u) /\ DistinctTags(u) /\ Tags(Range(u)) \subseteq CartTags(user.id) \cup {ops + 1}
      BY <1>3, <1>4, PutInCartFacts
    <2>3. /\ CartTags(user.id) \subseteq Tags(Range(u))
          /\ \A r \in Range(u) :
                r.tag = ops + 1 \/ \E x \in Range(rows[user.id]) : x.key = r.key /\ x.tag = r.tag
      BY <1>3, <1>4, PutInCartKeys
    <2>4. rows' = [rows EXCEPT ![user.id] = u]
      BY <2>1
    <2> HIDE DEF u
    <2> QED
      BY <1>1, <1>2, <2>2, <2>3, <2>4, CartOrders
  <1> QED
    BY <1>5, <1>6

\* A call begins with disjoint parts of the cart.
LEMMA PushOrders ==
    ASSUME SessionInv, MemoryInv, OrdersInv, page = "home", NEW c,
           placing' = Append(placing, c), CallInv(c), c.put = {},
           Aim(c) \subseteq CartTags(user.id),
           \A r \in Range(rows[user.id]) : Covered(c, r),
           BeginOrder, ops' = ops + 1,
           UNCHANGED <<rows, page, user, orders, sent, checkedOut, late>>
    PROVE  OrdersInv'
  <1>1. user.id \in Accounts /\ items = rows[user.id] /\ CartTags(user.id) = Tags(Range(items))
    BY UserIsAccount DEF MemoryInv, CartTags
  <1>2. /\ ops' \in Nat /\ ops \in Nat /\ 1..ops \subseteq 1..ops'
        /\ CartTags(user.id) \subseteq 1..ops
        /\ \A a : CartTags(a)' = CartTags(a)
    BY <1>1 DEF OrdersInv, ItemsInv, CartTags
  <1>3. /\ kept \subseteq kept' /\ kept' \subseteq kept \cup CartTags(user.id)
        /\ placing # <<>> => CartTags(user.id) \subseteq kept'
    BY <1>1 DEF BeginOrder
  <1>4. /\ IsStack(placing') /\ placing' # <<>> /\ Len(placing) \in Nat
        /\ Len(placing') = Len(placing) + 1
        /\ \A i \in 1..Len(placing) : placing'[i] = placing[i]
        /\ placing'[Len(placing) + 1] = c
    BY PushFacts DEF OrdersInv, PlacingInv
  <1>5. ItemsInv'
    BY <1>2 DEF OrdersInv, ItemsInv
  <1>6. PlacingInv'
    <2>1. \A d, r : Covered(d, r)' <=> Covered(d, r)
      BY DEF Covered
    <2>2. ASSUME NEW k \in 1..Len(placing)
          PROVE  /\ CallInv(placing[k])
                 /\ \A r \in Range(rows[user.id]) : Covered(placing[k], r)
                 /\ Hold(placing[k]) \subseteq kept'
      <3>1. placing # <<>>
        BY <1>4, <2>2
      <3> QED
        BY <1>3, <2>2, <3>1 DEF OrdersInv, PlacingInv
    <2>3. Hold(c) \subseteq CartTags(user.id)
      BY DEF Hold
    <2>4. \A k \in 1..Len(placing') : k \in 1..Len(placing) \/ k = Len(placing) + 1
      BY <1>4
    <2>5. ~(Len(placing) + 1 < Len(placing'))
      BY <1>4
    <2> QED
      BY <1>2, <1>4, <2>1, <2>2, <2>3, <2>4, <2>5 DEF PlacingInv
  <1>7. PlacedInv'
    <2>1. PutByAll \subseteq PutByAll'
      <3>1. DOMAIN placing = 1..Len(placing) /\ DOMAIN placing' = 1..(Len(placing) + 1)
        BY <1>4 DEF OrdersInv, PlacingInv, IsStack
      <3>2. \A i \in DOMAIN placing : i \in DOMAIN placing' /\ placing'[i] = placing[i]
        BY <1>4, <3>1
      <3> QED
        BY <3>2 DEF PutByAll
    <2>2. kept' \subseteq 1..ops' /\ \A i \in DOMAIN orders' : orders'[i] \subseteq 1..ops'
      BY <1>2, <1>3 DEF OrdersInv, PlacedInv
    <2>3. ASSUME NEW i \in DOMAIN orders', NEW a \in Accounts
          PROVE  orders'[i] \cap CartTags(a)' \subseteq kept' \cup PutByAll'
      BY <1>2, <1>3, <2>1, <2>3 DEF OrdersInv, PlacedInv
    <2> QED
      BY <2>2, <2>3 DEF OrdersInv, PlacedInv
  <1>8. OrderedExactlyOnce'
    BY <1>3 DEF OrdersInv, OrderedExactlyOnce
  <1> QED
    BY <1>5, <1>6, <1>7, <1>8 DEF OrdersInv

\* How create_order begins: what it found in the cart, unless it is to start over.
LEMMA CreateForm ==
    ASSUME CreateOrder, DOMAIN items = 1..Len(items)
    PROVE  \E found, lost :
              /\ found = Range(items) \ {r \in Range(items) : r.key \in lost}
              /\ \/ /\ placing' = Append(placing, Placing({}, {Tags(found)}, {r.key : r \in found}, FALSE))
                    /\ BeginOrder
                 \/ /\ placing' = Append(placing,
                                    Placing({SoldBy(Range(items), x) : x \in SellersIn(Range(items))},
                                            {}, {}, TRUE))
                    /\ BeginOrder
                 \/ UNCHANGED <<placing, kept>>
  <1> DEFINE all == Range(items)
  <1> DEFINE Begun(n, failed, silent) ==
                LET last == items[n]
                    found == {items[i] : i \in 1..n} \ {r \in Range(items) : r.key \in failed \cup silent}
                    before == found \ {last}
                IN /\ \A x, y \in SellersIn(before) : x = y
                   /\ InStock(before)
                   /\ shown' = shown \ failed
                   /\ \/ /\ n = Len(items) /\ InStock(found) /\ \A x, y \in SellersIn(found) : x = y
                         /\ placing' = Append(placing, Placing({}, {Tags(found)}, {r.key : r \in found}, FALSE))
                         /\ BeginOrder
                      \/ /\ last \in found /\ SellerOf[last.key] \notin SellersIn(before) /\ before # {}
                         /\ placing' = Append(placing,
                                        Placing({SoldBy(Range(items), x) : x \in SellersIn(Range(items))},
                                                {}, {}, TRUE))
                         /\ BeginOrder
                      \/ /\ last \in found /\ ~InStock({last}) /\ UNCHANGED <<placing, kept>>
  <1>1. \E n \in DOMAIN items : \E failed, silent \in SUBSET {items[i].key : i \in 1..n} :
           Begun(n, failed, silent)
    BY ONLY CreateOrder, Zenon DEF CreateOrder
  <1> HIDE DEF Begun
  <1>2. PICK n, failed, silent : Begun(n, failed, silent)
    BY ONLY <1>1, Zenon
  <1> DEFINE found == {items[i] : i \in 1..n} \ {r \in all : r.key \in failed \cup silent}
             rest == all \ {r \in all : r.key \in failed \cup silent}
  <1>3. n = Len(items) => found = rest
    <2>1. n = Len(items) => {items[i] : i \in 1..n} = all
      BY DEF Range
    <2> QED
      BY <2>1
  <1>4. \/ /\ n = Len(items)
           /\ placing' = Append(placing, Placing({}, {Tags(found)}, {r.key : r \in found}, FALSE))
           /\ BeginOrder
        \/ /\ placing' = Append(placing, Placing({SoldBy(all, x) : x \in SellersIn(all)}, {}, {}, TRUE))
           /\ BeginOrder
        \/ UNCHANGED <<placing, kept>>
    BY ONLY <1>2, Zenon DEF Begun
  <1>5. rest = all \ {r \in all : r.key \in failed \cup silent}
    OBVIOUS
  <1> HIDE DEF found, rest
  <1> QED
    BY <1>3, <1>4, <1>5

\* What create_order looks up are disjoint parts of the cart.
LEMMA CreateOrders ==
    ASSUME SessionInv, MemoryInv, OrdersInv, CreateOrder
    PROVE  OrdersInv'
  <1>1. page = "home" /\ user.id \in Accounts /\ ops' = ops + 1 /\ items = rows[user.id]
    BY UserIsAccount DEF CreateOrder, Begins, MemoryInv
  <1>2. UNCHANGED <<rows, page, user, orders, sent, checkedOut, late>>
    BY DEF CreateOrder, sessionVars, cartVars
  <1> DEFINE all == Range(items)
  <1>3. CartTags(user.id) = Tags(all) /\ Range(rows[user.id]) = all
    BY <1>1 DEF CartTags
  <1>4. PICK found, lost :
           /\ found = all \ {r \in all : r.key \in lost}
           /\ \/ /\ placing' = Append(placing, Placing({}, {Tags(found)}, {r.key : r \in found}, FALSE))
                 /\ BeginOrder
              \/ /\ placing' = Append(placing, Placing({SoldBy(all, x) : x \in SellersIn(all)}, {}, {}, TRUE))
                 /\ BeginOrder
              \/ UNCHANGED <<placing, kept>>
    <2>1. DOMAIN items = 1..Len(items)
      BY <1>1 DEF OrdersInv, ItemsInv, RowSeq
    <2> QED
      BY <2>1, CreateForm
  <1> HIDE DEF all
  <1>5. CASE /\ placing' = Append(placing, Placing({}, {Tags(found)}, {r.key : r \in found}, FALSE))
             /\ BeginOrder
    <2> DEFINE c == Placing({}, {Tags(found)}, {r.key : r \in found}, FALSE)
    <2>1. /\ c.ask = {} /\ c.left = {Tags(found)} /\ c.put = {} /\ c.cache = {r.key : r \in found}
          /\ c.batch = FALSE
      BY DEF Placing
    <2>2. CallInv(c)
      <3>1. c = [ask |-> c.ask, left |-> c.left, put |-> c.put, cache |-> c.cache,
                 batch |-> c.batch, waits |-> c.waits]
        BY DEF Placing
      <3> HIDE DEF c
      <3> QED
        BY <2>1, <3>1 DEF CallInv
    <2> HIDE DEF c
    <2>3. Aim(c) = Tags(found)
      BY <2>1 DEF Aim
    <2>4. Tags(found) \subseteq Tags(all)
      BY <1>4 DEF Tags
    <2>5. ASSUME NEW r \in all PROVE Covered(c, r)
      <3>1. CASE r \in found
        BY <2>3, <3>1 DEF Covered, Tags
      <3>2. CASE r \notin found
        BY <1>4, <2>1, <2>5, <3>2 DEF Covered
      <3> QED
        BY <3>1, <3>2
    <2>6. placing' = Append(placing, c)
      BY <1>5 DEF c
    <2> QED
      BY <1>1, <1>2, <1>3, <1>5, <2>1, <2>2, <2>3, <2>4, <2>5, <2>6, PushOrders
  <1>6. CASE /\ placing' = Append(placing, Placing({SoldBy(all, x) : x \in SellersIn(all)}, {}, {}, TRUE))
             /\ BeginOrder
    <2> DEFINE c == Placing({SoldBy(all, x) : x \in SellersIn(all)}, {}, {}, TRUE)
    <2>1. /\ c.ask = {SoldBy(all, x) : x \in SellersIn(all)} /\ c.left = {} /\ c.put = {}
          /\ c.batch = TRUE
      BY DEF Placing
    <2>2. c = [ask |-> c.ask, left |-> c.left, put |-> c.put, cache |-> c.cache,
               batch |-> c.batch, waits |-> c.waits]
      BY DEF Placing
    <2>3. placing' = Append(placing, c)
      BY <1>6 DEF c
    <2> HIDE DEF c
    <2>4. ASSUME NEW r1 \in all, NEW r2 \in all, r1.tag = r2.tag PROVE r1 = r2
      BY <1>1, <2>4 DEF OrdersInv, ItemsInv, DistinctTags, Range, all
    <2>5. \A x, y : x # y => Tags(SoldBy(all, x)) \cap Tags(SoldBy(all, y)) = {}
      BY <2>4 DEF SoldBy, Tags
    <2>6. CallInv(c)
      <3>1. \A g, h \in c.ask : g # h => Tags(g) \cap Tags(h) = {}
        BY <2>1, <2>5
      <3> QED
        BY <2>1, <2>2, <3>1 DEF CallInv
    <2>7. Aim(c) = Tags(all)
      <3>1. ASSUME NEW t \in Tags(all) PROVE t \in Aim(c)
        <4>1. PICK r \in all : t = r.tag
          BY <3>1 DEF Tags
        <4>2. SellerOf[r.key] \in SellersIn(all) /\ t \in Tags(SoldBy(all, SellerOf[r.key]))
          BY <4>1 DEF SellersIn, SoldBy, Tags
        <4> QED
          BY <2>1, <4>2 DEF Aim
      <3>2. \A x : Tags(SoldBy(all, x)) \subseteq Tags(all)
        BY DEF SoldBy, Tags
      <3> QED
        BY <2>1, <3>1, <3>2 DEF Aim
    <2>8. \A r \in all : Covered(c, r)
      BY <2>7 DEF Covered, Tags
    <2> QED
      BY <1>1, <1>2, <1>3, <1>6, <2>1, <2>3, <2>6, <2>7, <2>8, PushOrders
  <1>7. CASE UNCHANGED <<placing, kept>>
    BY <1>1, <1>2, <1>7, QuietOrders
  <1> QED
    BY <1>4, <1>5, <1>6, <1>7

\* The innermost call goes on.
LEMMA GoesOnCalls ==
    ASSUME OrdersInv, placing # <<>>, NEW c, GoesOn(c), CallInv(c),
           UNCHANGED <<rows, page, user, late>>, sent \subseteq sent', kept \subseteq kept',
           Hold(c) \subseteq CartTags(user.id) \cup kept',
           \A r \in Range(rows[user.id]) : Covered(c, r)'
    PROVE  PlacingInv' /\ c.put \subseteq PutByAll'
  <1>1. /\ IsStack(placing') /\ placing' # <<>> /\ Len(placing) \in Nat \ {0}
        /\ Len(placing') = Len(placing)
        /\ \A i \in 1..(Len(placing) - 1) : placing'[i] = placing[i]
        /\ placing'[Len(placing)] = c
    <2>1. IsStack(placing) /\ placing' = [placing EXCEPT ![Len(placing)] = c]
      BY DEF OrdersInv, PlacingInv, GoesOn
    <2>2. /\ IsStack([placing EXCEPT ![Len(placing)] = c])
          /\ [placing EXCEPT ![Len(placing)] = c] # <<>>
          /\ Len(placing) \in Nat \ {0}
          /\ Len([placing EXCEPT ![Len(placing)] = c]) = Len(placing)
          /\ \A i \in 1..(Len(placing) - 1) : [placing EXCEPT ![Len(placing)] = c][i] = placing[i]
          /\ [placing EXCEPT ![Len(placing)] = c][Len(placing)] = c
      BY <2>1, TopFacts, Zenon
    <2> QED
      BY <2>1, <2>2, Zenon
  <1>2. \A d, r : Covered(d, r) => Covered(d, r)'
    BY DEF Covered
  <1>3. CartTags(user.id)' = CartTags(user.id)
    BY DEF CartTags
  <1>4. ASSUME NEW k \in 1..(Len(placing) - 1)
        PROVE  /\ CallInv(placing[k])
               /\ \A r \in Range(rows[user.id]) : Covered(placing[k], r)'
               /\ Hold(placing[k]) \subseteq kept'
    <2>1. k \in 1..Len(placing) /\ k < Len(placing) /\ placing'[k] = placing[k]
      BY <1>1
    <2>2. CallInv(placing[k]) /\ Hold(placing[k]) \subseteq kept
      BY <2>1 DEF OrdersInv, PlacingInv
    <2>3. \A r \in Range(rows[user.id]) : Covered(placing[k], r)
      BY <2>1 DEF OrdersInv, PlacingInv
    <2>4. \A r \in Range(rows[user.id]) : Covered(placing[k], r)'
      BY <2>1, <2>3 DEF Covered
    <2> QED
      BY <2>2, <2>4
  <1>5. \A k \in 1..Len(placing') : k \in 1..(Len(placing) - 1) \/ k = Len(placing)
    BY <1>1
  <1>6. ~(Len(placing) < Len(placing'))
    BY <1>1
  <1>7. page' = "home"
    BY DEF OrdersInv, PlacingInv
  <1>8. PlacingInv'
    <2>1. ASSUME NEW k \in 1..Len(placing')
          PROVE  /\ CallInv(placing'[k])
                 /\ \A r \in Range(rows[user.id])' : Covered(placing[k], r)'
                 /\ k < Len(placing') => Hold(placing'[k]) \subseteq kept'
                 /\ Hold(placing'[k]) \subseteq CartTags(user.id)' \cup kept'
      <3>1. CASE k \in 1..(Len(placing) - 1)
        <4>1. placing'[k] = placing[k]
          BY <1>1, <3>1
        <4>2. \A r \in Range(rows[user.id])' : Covered(placing[k], r)'
          BY <1>4, <3>1, <4>1 DEF Covered
        <4> QED
          BY <1>3, <1>4, <3>1, <4>1, <4>2
      <3>2. CASE k = Len(placing)
        <4>1. placing'[k] = c
          BY <1>1, <3>2
        <4>2. \A r \in Range(rows[user.id])' : Covered(placing[k], r)'
          BY <4>1 DEF Covered
        <4> QED
          BY <1>3, <1>6, <3>2, <4>1, <4>2
      <3> QED
        BY <1>5, <2>1, <3>1, <3>2
    <2> QED
      BY <1>1, <1>7, <2>1 DEF PlacingInv, CallInv, Hold, Aim
  <1>9. c.put \subseteq PutByAll'
    <2>1. Len(placing) \in DOMAIN placing'
      BY <1>1 DEF IsStack
    <2> QED
      BY <1>1, <2>1 DEF PutByAll
  <1> QED
    BY <1>8, <1>9

\* It returns: the next one goes on, over a cart with no new item.
LEMMA ReturnCalls ==
    ASSUME OrdersInv, placing # <<>>, Returns, UNCHANGED <<page, user, late>>,
           sent \subseteq sent', kept \subseteq kept',
           Range(rows'[user.id]) \subseteq Range(rows[user.id])
    PROVE  PlacingInv'
  <1>1. /\ IsStack(placing') /\ Len(placing) \in Nat \ {0}
        /\ Len(placing') = Len(placing) - 1
        /\ \A i \in 1..(Len(placing) - 1) : placing'[i] = placing[i]
    BY PopFacts DEF OrdersInv, PlacingInv, Returns
  <1>2. page' = "home"
    BY DEF OrdersInv, PlacingInv
  <1>3. ASSUME NEW k \in 1..Len(placing')
        PROVE  /\ CallInv(placing'[k])
               /\ \A r \in Range(rows[user.id])' : Covered(placing[k], r)'
               /\ Hold(placing'[k]) \subseteq kept'
    <2>1. k \in 1..Len(placing) /\ k < Len(placing) /\ placing'[k] = placing[k]
      BY <1>1
    <2>2. CallInv(placing[k]) /\ Hold(placing[k]) \subseteq kept
      BY <2>1 DEF OrdersInv, PlacingInv
    <2>3. \A r \in Range(rows[user.id]) : Covered(placing[k], r)
      BY <2>1 DEF OrdersInv, PlacingInv
    <2>4. \A r \in Range(rows[user.id])' : Covered(placing[k], r)'
      BY <2>1, <2>3 DEF Covered
    <2> QED
      BY <2>1, <2>2, <2>4
  <1> QED
    BY <1>1, <1>2, <1>3 DEF PlacingInv, CallInv, Hold, Aim

\* The items of a seller have been looked up, or the batch gives up.
LEMMA AskSellerOrders ==
    ASSUME SessionInv, MemoryInv, OrdersInv, AskSeller
    PROVE  OrdersInv'
  <1>1. UNCHANGED <<rows, page, user, orders, sent, checkedOut, kept, late, ops>> /\ placing # <<>>
    BY DEF AskSeller, sessionVars, cartVars
  <1>2. PICK g \in Top.ask :
           \/ GoesOn([Top EXCEPT !.ask = @ \ {g}, !.left = @ \cup {Tags(g)},
                                 !.cache = @ \cup {r.key : r \in g}, !.waits = TRUE])
           \/ Returns
    BY DEF AskSeller
  <1>3. CallInv(Top) /\ Top.put = {} /\ Top.batch /\ PutByAll \subseteq kept
    BY <1>1, <1>2, TopOfCalls DEF CallInv
  <1>4. \A a : CartTags(a)' = CartTags(a)
    BY <1>1 DEF CartTags
  <1>5. PlacingInv'
    <2>1. CASE Returns
      BY <1>1, <2>1, ReturnCalls
    <2>2. CASE GoesOn([Top EXCEPT !.ask = @ \ {g}, !.left = @ \cup {Tags(g)},
                                  !.cache = @ \cup {r.key : r \in g}, !.waits = TRUE])
      <3>1. PICK c : c = [Top EXCEPT !.ask = @ \ {g}, !.left = @ \cup {Tags(g)},
                                     !.cache = @ \cup {r.key : r \in g}, !.waits = TRUE]
        OBVIOUS
      <3>2. /\ c.ask = Top.ask \ {g} /\ c.left = Top.left \cup {Tags(g)} /\ c.put = {}
            /\ c.batch = Top.batch
            /\ c = [ask |-> c.ask, left |-> c.left, put |-> c.put, cache |-> c.cache,
                    batch |-> c.batch, waits |-> c.waits]
        BY <1>3, <3>1 DEF CallInv
      <3>3. /\ \A o, p \in Top.left : o # p => o \cap p = {}
            /\ \A x, y \in Top.ask : x # y => Tags(x) \cap Tags(y) = {}
            /\ \A x \in Top.ask, o \in Top.left : Tags(x) \cap o = {}
        BY <1>3 DEF CallInv
      <3>4. CallInv(c)
        <4>1. \A o, p \in c.left : o # p => o \cap p = {}
          BY <3>2, <3>3
        <4>2. \A x \in c.ask, o \in c.left : Tags(x) \cap o = {}
          BY <3>2, <3>3
        <4>3. \A x, y \in c.ask : x # y => Tags(x) \cap Tags(y) = {}
          BY <3>2, <3>3
        <4> QED
          BY <1>3, <3>2, <4>1, <4>2, <4>3 DEF CallInv
      <3>5. Aim(c) = Aim(Top)
        BY <3>2 DEF Aim
      <3>6. /\ Top = placing[Len(placing)] /\ Len(placing) \in 1..Len(placing)
        BY <1>1, TopOfCalls
      <3>7. Hold(c) \subseteq CartTags(user.id) \cup kept'
        <4>1. Hold(Top) \subseteq CartTags(user.id) \cup kept
          BY <3>6 DEF OrdersInv, PlacingInv
        <4> QED
          BY <1>1, <1>3, <3>2, <3>5, <4>1 DEF Hold
      <3>8. \A r \in Range(rows[user.id]) : Covered(c, r)'
        <4>1. \A r \in Range(rows[user.id]) : Covered(Top, r)
          BY <3>6 DEF OrdersInv, PlacingInv
        <4>2. \A r \in Range(rows[user.id]) : r.tag \in sent \cup late \cup Aim(c)
          BY <1>3, <3>5, <4>1 DEF Covered
        <4> QED
          BY <1>1, <4>2 DEF Covered, Aim
      <3>9. GoesOn(c)
        BY <2>2, <3>1
      <3> QED
        BY <1>1, <3>4, <3>7, <3>8, <3>9, GoesOnCalls
    <2> QED
      BY <1>2, <2>1, <2>2
  <1>6. ItemsInv' /\ OrderedExactlyOnce'
    BY <1>1, <1>4 DEF OrdersInv, ItemsInv, OrderedExactlyOnce
  <1>7. PlacedInv'
    BY <1>1, <1>3, <1>4 DEF OrdersInv, PlacedInv
  <1> QED
    BY <1>5, <1>6, <1>7 DEF OrdersInv

\* The put of a part of an order: its items are new to the orders, or may be taken
\* twice.
LEMMA PutFacts ==
    ASSUME OrdersInv, placing # <<>>, user.id \in Accounts, NEW o \in Top.left, Put(o),
           UNCHANGED <<rows, checkedOut, late, ops>>,
           kept \subseteq kept', kept' \subseteq kept \cup Top.put \cup o,
           kept \cup Top.put \cup o \subseteq kept' \cup PutByAll'
    PROVE  ItemsInv' /\ PlacedInv' /\ OrderedExactlyOnce'
  <1>1. \A a : CartTags(a)' = CartTags(a)
    BY DEF CartTags
  <1>2. /\ Hold(Top) \subseteq CartTags(user.id) \cup kept
        /\ CallInv(Top) /\ PutByAll \subseteq kept \cup Top.put
    <2>1. /\ CallInv(Top) /\ PutByAll \subseteq kept \cup Top.put
          /\ Len(placing) \in 1..Len(placing) /\ Top = placing[Len(placing)]
      BY TopOfCalls
    <2> QED
      BY <2>1 DEF OrdersInv, PlacingInv
  <1>3. /\ o \subseteq CartTags(user.id) \cup kept
        /\ Top.put \subseteq CartTags(user.id) \cup kept
        /\ o \cap Top.put = {}
    BY <1>2 DEF Hold, Aim, CallInv
  <1>4. ops \in Nat /\ CartTags(user.id) \subseteq 1..ops /\ kept \subseteq 1..ops
    BY DEF OrdersInv, ItemsInv, PlacedInv
  <1>5. \A i \in DOMAIN orders : orders[i] \cap o \subseteq kept
    <2>1. \A i \in DOMAIN orders : orders[i] \cap CartTags(user.id) \subseteq kept \cup PutByAll
      BY DEF OrdersInv, PlacedInv
    <2> QED
      BY <1>2, <1>3, <2>1
  <1>6. /\ orders' \in Seq(SUBSET Nat)
        /\ \A i \in DOMAIN orders' :
              \/ i \in DOMAIN orders /\ orders'[i] = orders[i]
              \/ i = Len(orders) + 1 /\ orders'[i] = o
    <2>1. orders \in Seq(SUBSET Nat) /\ Len(orders) \in Nat /\ DOMAIN orders = 1..Len(orders)
      BY DEF OrdersInv, PlacedInv
    <2>2. CASE orders' = orders
      BY <2>1, <2>2
    <2>3. CASE orders' = Append(orders, o)
      <3>1. o \in SUBSET Nat
        <4>1. o \subseteq 1..ops
          BY <1>3, <1>4
        <4>2. 1..ops \subseteq Nat
          BY <1>4
        <4> QED
          BY <4>1, <4>2
      <3>2. /\ orders' \in Seq(SUBSET Nat) /\ Len(orders') = Len(orders) + 1
            /\ \A i \in 1..Len(orders) : orders'[i] = orders[i]
            /\ orders'[Len(orders) + 1] = o
        BY <2>1, <2>3, <3>1, AppendProperties
      <3>3. DOMAIN orders' = 1..(Len(orders) + 1)
        BY <3>2
      <3>4. \A i \in DOMAIN orders' : i \in 1..Len(orders) \/ i = Len(orders) + 1
        BY <2>1, <3>3
      <3> QED
        BY <2>1, <3>2, <3>4
    <2> QED
      BY <2>2, <2>3 DEF Put
  <1>7. ItemsInv'
    BY <1>1 DEF OrdersInv, ItemsInv
  <1>8. PlacedInv'
    <2>1. kept' \subseteq 1..ops'
      BY <1>3, <1>4
    <2>2. \A i \in DOMAIN orders' : orders'[i] \subseteq 1..ops'
      BY <1>3, <1>4, <1>6 DEF OrdersInv, PlacedInv
    <2>3. ASSUME NEW i \in DOMAIN orders', NEW a \in Accounts
          PROVE  orders'[i] \cap CartTags(a)' \subseteq kept' \cup PutByAll'
      <3>1. CASE i \in DOMAIN orders /\ orders'[i] = orders[i]
        <4>1. orders[i] \cap CartTags(a) \subseteq kept \cup PutByAll
          BY <3>1 DEF OrdersInv, PlacedInv
        <4> QED
          BY <1>1, <1>2, <3>1, <4>1
      <3>2. CASE orders'[i] = o
        BY <1>1, <3>2
      <3> QED
        BY <1>6, <3>1, <3>2
    <2> QED
      BY <1>6, <2>1, <2>2, <2>3 DEF PlacedInv
  <1>9. OrderedExactlyOnce'
    <2>1. sent \subseteq sent'
      BY DEF Put
    <2>2. \A i, j \in DOMAIN orders : i # j => orders[i] \cap orders[j] \subseteq kept
      BY DEF OrdersInv, OrderedExactlyOnce
    <2>3. ASSUME NEW i \in DOMAIN orders', NEW j \in DOMAIN orders', i # j
          PROVE  orders'[i] \cap orders'[j] \subseteq kept'
      BY <1>5, <1>6, <2>2, <2>3
    <2> QED
      BY <2>1, <2>3 DEF OrdersInv, OrderedExactlyOnce
  <1> QED
    BY <1>7, <1>8, <1>9

\* Putting an order: the call gives up, or goes on.
LEMMA PutOrders ==
    ASSUME SessionInv, MemoryInv, OrdersInv, PutOrder
    PROVE  OrdersInv'
  <1>1. /\ placing # <<>> /\ user.id \in Accounts /\ items = rows[user.id]
        /\ UNCHANGED <<rows, page, user, checkedOut, late, ops>>
    BY UserIsAccount DEF PutOrder, OrdersInv, PlacingInv, MemoryInv, sessionVars, cartVars
  <1>2. PICK o \in Top.left :
          /\ Put(o)
          /\ \/ /\ Returns
                /\ kept' = kept \cup Top.put \cup o
             \/ /\ Printable
                /\ GoesOn([Top EXCEPT !.left = @ \ {o}, !.put = @ \cup o, !.waits = ~Top.batch])
                /\ UNCHANGED kept
    BY DEF PutOrder
  <1>3. Top.ask = {} /\ sent' = sent \cup o
    BY <1>2 DEF Put
  <1>4. CASE Returns /\ kept' = kept \cup Top.put \cup o
    <2>1. PlacingInv'
      BY <1>1, <1>3, <1>4, ReturnCalls
    <2>2. ItemsInv' /\ PlacedInv' /\ OrderedExactlyOnce'
      BY <1>1, <1>2, <1>4, PutFacts
    <2> QED
      BY <2>1, <2>2 DEF OrdersInv
  <1>5. CASE /\ Printable
             /\ GoesOn([Top EXCEPT !.left = @ \ {o}, !.put = @ \cup o, !.waits = ~Top.batch])
             /\ UNCHANGED kept
    <2>1. PICK c : c = [Top EXCEPT !.left = @ \ {o}, !.put = @ \cup o, !.waits = ~Top.batch]
      OBVIOUS
    <2>2. CallInv(Top) /\ Top = placing[Len(placing)] /\ Len(placing) \in 1..Len(placing)
      BY <1>1, TopOfCalls
    <2>3. /\ c.ask = {} /\ c.left = Top.left \ {o} /\ c.put = Top.put \cup o
          /\ c.batch = Top.batch /\ c.cache = Top.cache
          /\ c = [ask |-> c.ask, left |-> c.left, put |-> c.put, cache |-> c.cache,
                  batch |-> c.batch, waits |-> c.waits]
      BY <1>3, <2>1, <2>2 DEF CallInv
    <2>4. /\ \A p, q \in Top.left : p # q => p \cap q = {}
          /\ \A p \in Top.left : p \cap Top.put = {}
      BY <2>2 DEF CallInv
    <2>5. CallInv(c)
      <3>1. \A p, q \in c.left : p # q => p \cap q = {}
        BY <2>3, <2>4
      <3>2. \A p \in c.left : p \cap c.put = {}
        BY <1>2, <2>3, <2>4
      <3> QED
        BY <2>3, <3>1, <3>2 DEF CallInv
    <2>6. Hold(c) = Hold(Top) /\ Aim(Top) \subseteq Aim(c) \cup o
      BY <1>2, <1>3, <2>3 DEF Hold, Aim
    <2>7. Hold(c) \subseteq CartTags(user.id) \cup kept'
      <3>1. Hold(Top) \subseteq CartTags(user.id) \cup kept
        BY <2>2 DEF OrdersInv, PlacingInv
      <3> QED
        BY <1>5, <2>6, <3>1
    <2>8. \A r \in Range(rows[user.id]) : Covered(c, r)'
      <3>1. \A r \in Range(rows[user.id]) : Covered(Top, r)
        BY <2>2 DEF OrdersInv, PlacingInv
      <3>2. \A r \in Range(rows[user.id]) : r.key \in Top.cache
        BY <1>1, <1>5 DEF Printable
      <3>3. \A r \in Range(rows[user.id]) : r.tag \in sent' \cup late \cup Aim(c)
        BY <1>3, <2>6, <3>1, <3>2 DEF Covered
      <3> QED
        BY <1>1, <3>3 DEF Covered, Aim
    <2>9. GoesOn(c)
      BY <1>5, <2>1
    <2>10. PlacingInv' /\ c.put \subseteq PutByAll'
      BY <1>1, <1>3, <1>5, <2>5, <2>7, <2>8, <2>9, GoesOnCalls
    <2>11. ItemsInv' /\ PlacedInv' /\ OrderedExactlyOnce'
      BY <1>1, <1>2, <1>5, <2>3, <2>10, PutFacts
    <2> QED
      BY <2>10, <2>11 DEF OrdersInv
  <1> QED
    BY <1>2, <1>4, <1>5

\* The cart that an order empties is that of an order whose every part was put,
\* but for what came late.
LEMMA FinishOrders ==
    ASSUME SessionInv, MemoryInv, OrdersInv, FinishOrder
    PROVE  OrdersInv'
  <1>1. /\ placing # <<>> /\ Top.ask = {} /\ Top.left = {} /\ Returns
        /\ page = "home" /\ user.id \in Accounts /\ items = rows[user.id]
    BY UserIsAccount DEF FinishOrder, OrdersInv, PlacingInv, MemoryInv
  <1>2. UNCHANGED <<page, user, orders, sent, late, ops>>
    BY DEF FinishOrder, sessionVars
  <1>3. CartTags(user.id) = Tags(Range(items))
    BY <1>1 DEF CartTags
  <1>4. /\ CallInv(Top) /\ PutByAll \subseteq kept \cup Top.put
        /\ Top = placing[Len(placing)] /\ Len(placing) \in 1..Len(placing)
    BY <1>1, TopOfCalls
  <1>5. Top.put \subseteq CartTags(user.id) \cup kept
    BY <1>4 DEF OrdersInv, PlacingInv, Hold
  <1>6. CartTags(user.id) \subseteq sent \cup late
    <2>1. \A r \in Range(rows[user.id]) : Covered(Top, r)
      BY <1>4 DEF OrdersInv, PlacingInv
    <2>2. Aim(Top) = {}
      BY <1>1 DEF Aim
    <2> QED
      BY <1>1, <2>1, <2>2 DEF Covered, CartTags, Tags
  <1>7. \/ /\ rows' = [rows EXCEPT ![user.id] = <<>>]
           /\ checkedOut' = checkedOut \cup CartTags(user.id) /\ kept' = kept
        \/ /\ UNCHANGED <<rows, checkedOut>>
           /\ kept' = kept \cup Top.put
    BY <1>3 DEF FinishOrder
  <1>8. RowSeq(<<>>) /\ DistinctTags(<<>>) /\ Tags(Range(<<>>)) = {} /\ Range(<<>>) = {}
    BY DEF RowSeq, DistinctTags, Tags, Range
  <1>9. \A a \in Accounts : \/ CartTags(a)' = CartTags(a) /\ rows'[a] = rows[a]
                            \/ CartTags(a)' = {} /\ rows'[a] = <<>>
    <2>1. CASE UNCHANGED rows
      BY <2>1 DEF CartTags
    <2>2. CASE rows' = [rows EXCEPT ![user.id] = <<>>]
      <3>1. rows'[user.id] = <<>> /\ \A a \in Accounts \ {user.id} : rows'[a] = rows[a]
        BY <1>1, <2>2 DEF MemoryInv
      <3> QED
        BY <1>8, <3>1 DEF CartTags
    <2> QED
      BY <1>7, <2>1, <2>2
  <1>10. ItemsInv'
    <2>1. \A a \in Accounts : RowSeq(rows[a])' /\ DistinctTags(rows[a])'
      BY <1>8, <1>9 DEF OrdersInv, ItemsInv
    <2> QED
      BY <1>2, <1>9, <2>1 DEF OrdersInv, ItemsInv
  <1>11. PlacingInv'
    <2>1. Range(rows'[user.id]) \subseteq Range(rows[user.id])
      BY <1>1, <1>8, <1>9
    <2> QED
      BY <1>1, <1>2, <1>7, <2>1, ReturnCalls
  <1>12. PlacedInv'
    <2>1. ASSUME NEW i \in DOMAIN orders, NEW a \in Accounts
          PROVE  orders[i] \cap CartTags(a)' \subseteq kept'
      <3>1. orders[i] \cap CartTags(a) \subseteq kept \cup Top.put
        BY <1>4, <2>1 DEF OrdersInv, PlacedInv
      <3>2. CASE a # user.id
        <4>1. CartTags(a) \cap CartTags(user.id) = {}
          BY <1>1, <3>2 DEF OrdersInv, ItemsInv
        <4> QED
          BY <1>5, <1>7, <1>9, <3>1, <4>1
      <3>3. CASE a = user.id
        <4>1. CASE kept' = kept \cup Top.put
          BY <1>9, <3>1, <4>1
        <4>2. CASE rows' = [rows EXCEPT ![user.id] = <<>>]
          <5>1. rows'[user.id] = <<>>
            BY <1>1, <4>2 DEF MemoryInv
          <5> QED
            BY <1>8, <3>3, <5>1 DEF CartTags
        <4> QED
          BY <1>7, <4>1, <4>2
      <3> QED
        BY <3>2, <3>3
    <2>2. kept' \subseteq 1..ops
      BY <1>1, <1>5, <1>7 DEF OrdersInv, ItemsInv, PlacedInv
    <2> QED
      BY <1>2, <2>1, <2>2 DEF OrdersInv, PlacedInv
  <1>13. OrderedExactlyOnce'
    BY <1>2, <1>6, <1>7 DEF OrdersInv, OrderedExactlyOnce
  <1> QED
    BY <1>10, <1>11, <1>12, <1>13 DEF OrdersInv

\* The application dies: what it was ordering stays in the cart.
LEMMA DiesOrders ==
    ASSUME SessionInv, OrdersInv, AppDies
    PROVE  OrdersInv'
  <1>1. UNCHANGED <<rows, orders, sent, checkedOut, late, ops>> /\ kept' = kept \cup PutByAll
    BY DEF AppDies
  <1>2. \A a : CartTags(a)' = CartTags(a)
    BY <1>1 DEF CartTags
  <1>3. PlacingInv'
    <2>1. placing' = <<>>
      BY DEF AppDies
    <2>2. IsStack(<<>>) /\ \A k : k \notin 1..Len(<<>>)
      BY DEF IsStack
    <2> QED
      BY <2>1, <2>2 DEF PlacingInv
  <1>4. ItemsInv'
    BY <1>1, <1>2 DEF OrdersInv, ItemsInv
  <1>5. PutByAll \subseteq 1..ops
    <2>1. CASE placing = <<>>
      BY <2>1 DEF PutByAll
    <2>2. CASE placing # <<>>
      <3>1. /\ PutByAll \subseteq kept \cup Top.put
            /\ Top = placing[Len(placing)] /\ Len(placing) \in 1..Len(placing)
        BY <2>2, TopOfCalls
      <3>2. Top.put \subseteq CartTags(user.id) \cup kept
        BY <3>1 DEF OrdersInv, PlacingInv, Hold
      <3>3. user.id \in Accounts
        BY <2>2, UserIsAccount DEF OrdersInv, PlacingInv
      <3> QED
        BY <3>1, <3>2, <3>3 DEF OrdersInv, ItemsInv, PlacedInv
    <2> QED
      BY <2>1, <2>2
  <1>6. PlacedInv'
    BY <1>1, <1>2, <1>5 DEF OrdersInv, PlacedInv
  <1>7. OrderedExactlyOnce'
    BY <1>1 DEF OrdersInv, OrderedExactlyOnce
  <1> QED
    BY <1>3, <1>4, <1>6, <1>7 DEF OrdersInv

\* The other steps of the session do not occur while an order is placed, or
\* leave the user and the page alone.
LEMMA SessionOrders ==
    ASSUME OrdersInv,
           \/ SignIn \/ FinishLoading \/ MakeCart \/ SessionOnly
           \/ \E a \in Accounts : GetUser(a)
           \/ \E l \in Listings : GainRow(l) \/ \E q \in 0..MaxStock : SellerSets(l, q)
           \/ UNCHANGED vars
    PROVE  OrdersInv'
  <1>1. placing # <<>> => page = "home"
    BY DEF OrdersInv, PlacingInv
  <1>2. CASE SignIn \/ FinishLoading \/ MakeCart
    <2>1. UNCHANGED <<rows, placing, orders, sent, checkedOut, kept, late, ops>>
      BY <1>2 DEF SignIn, FinishLoading, MakeCart, cartVars, orderVars
    <2>2. placing = <<>>
      BY <1>1, <1>2
      DEF SignIn, RegisterKeys, LoginWithWalletFile, LoginWithMnemonic, FinishLoading, Loaded,
          MakeCart, RegisterCart
    <2> QED
      BY <2>1, <2>2, QuietOrders
  <1>3. CASE SessionOnly
    <2>1. UNCHANGED <<rows, placing, orders, sent, checkedOut, kept, late, ops>>
      BY <1>3 DEF SessionOnly, cartVars, orderVars
    <2>2. placing # <<>> => page' = page /\ user' = user
      BY <1>1, <1>3 DEF SessionOnly, RegisterPut, Generate, GainUserRow
    <2> QED
      BY <2>1, <2>2, QuietOrders
  <1>4. ASSUME NEW a \in Accounts, GetUser(a) PROVE OrdersInv'
    BY <1>4, QuietOrders DEF GetUser, LoseUserRow, cartVars, orderVars
  <1>5. ASSUME NEW l \in Listings, GainRow(l) \/ \E q \in 0..MaxStock : SellerSets(l, q)
        PROVE  OrdersInv'
    BY <1>5, QuietOrders DEF GainRow, SellerSets, cartVars, orderVars, sessionVars
  <1>6. CASE UNCHANGED vars
    BY <1>6, QuietOrders DEF vars, cartVars, orderVars, sessionVars
  <1> QED
    BY <1>2, <1>3, <1>4, <1>5, <1>6

\* Of what the user does, only adding to the cart and ordering matter.
LEMMA ShoppingOrders ==
    ASSUME SessionInv, MemoryInv, OrdersInv, Shopping
    PROVE  OrdersInv'
  <1>1. ASSUME NEW l \in Listings, NEW q \in Quantities, Add(l, q) PROVE OrdersInv'
    BY <1>1, AddOrders
  <1>2. CASE CreateOrder
    BY <1>2, CreateOrders
  <1>3. CASE AskSeller
    BY <1>3, AskSellerOrders
  <1>4. CASE PutOrder
    BY <1>4, PutOrders
  <1>5. CASE FinishOrder
    BY <1>5, FinishOrders
  <1>6. CASE UNCHANGED <<sessionVars, cartVars, orderVars>> /\ ops' = ops + 1
    BY <1>6, QuietOrders DEF sessionVars, cartVars, orderVars
  <1> QED
    BY <1>1, <1>2, <1>3, <1>4, <1>5, <1>6
    DEF Shopping, Begins, AddToFavorites, RemoveFromFavorites, RateItem, RateSeller, Rate,
        ListItem, DelistItem, SetStockQuantity, GetStockAvailable, LoseRow, GetRatings,
        GetProductRatings, GetSellerRatings, GetOwnInventory, GetInventory, GetListings,
        GetListingsByCategory, GetListingsBySearchTerm, Scan

LEMMA NextOrders ==
    ASSUME SessionInv, MemoryInv, OrdersInv, [Next]_vars
    PROVE  OrdersInv'
  <1>1. CASE LoadItem
    BY <1>1, LoadItemOrders
  <1>2. CASE AppDies
    BY <1>2, DiesOrders
  <1>3. CASE Shopping
    BY <1>3, ShoppingOrders
  <1>4. CASE \/ SignIn \/ FinishLoading \/ MakeCart \/ SessionOnly
             \/ \E a \in Accounts : GetUser(a)
             \/ \E l \in Listings : GainRow(l) \/ \E q \in 0..MaxStock : SellerSets(l, q)
             \/ UNCHANGED vars
    BY <1>4, SessionOrders
  <1> QED
    BY <1>1, <1>2, <1>3, <1>4 DEF Next

\* At the start the carts are empty.
LEMMA InitOrders == Init => OrdersInv
  <1> SUFFICES ASSUME Init PROVE OrdersInv
    OBVIOUS
  <1>1. RowSeq(<<>>) /\ DistinctTags(<<>>) /\ Tags(Range(<<>>)) = {}
    BY DEF RowSeq, DistinctTags, Tags, Range
  <1>2. \A a \in Accounts : rows[a] = <<>> /\ CartTags(a) = {}
    BY <1>1 DEF Init, CartTags
  <1>3. ItemsInv
    BY <1>1, <1>2 DEF Init, ItemsInv
  <1>4. PlacingInv
    <2>1. IsStack(<<>>) /\ \A k : k \notin 1..Len(<<>>)
      BY DEF IsStack
    <2> QED
      BY <2>1 DEF Init, PlacingInv
  <1>5. PlacedInv /\ OrderedExactlyOnce
    BY DEF Init, PlacedInv, OrderedExactlyOnce
  <1> QED
    BY <1>3, <1>4, <1>5 DEF OrdersInv

THEOREM OrdersInvariant == Spec => []OrdersInv
  <1>1. SessionInv /\ MemoryInv /\ OrdersInv /\ [Next]_vars => OrdersInv'
    BY NextOrders
  <1> QED
    BY <1>1, InitOrders, ShopSessionInvariant, MemoryInvariant, PTL DEF Spec

\* No item is ordered twice but by a new attempt to place its order, or by an order
\* placed while another waits for prices; and none leaves the cart without having
\* been ordered, but one added while an order waited (Order::create_order).
THEOREM OrdersExact == Spec => []OrderedExactlyOnce
  <1>1. OrdersInv => OrderedExactlyOnce
    BY DEF OrdersInv
  <1> QED
    BY <1>1, OrdersInvariant, PTL

----------------------------------------------------------------------------
(* The sum of the quantities of a cart, by its recursive definition: a       *)
(* sequence of sums with one step per item, which induction over the items,  *)
(* in the form of the least counterexample, shows to exist and to be unique. *)

\* Every set of naturals that is not empty has a least element.
LEMMA LeastNat ==
    ASSUME NEW T \in SUBSET Nat, T # {}
    PROVE  \E n \in T : \A m \in T : n <= m
<1> DEFINE R == {s \in Nat \X Nat : s[1] < s[2]}
<1>1. IsWellFoundedOn(R, Nat)
  BY NatLessThanWellFounded DEF OpToRel
<1>2. ASSUME NEW Q, IsWellFoundedOn(Q, Nat) PROVE \E n \in T : \A m \in T : ~(<<m, n>> \in Q)
  BY <1>2, WFMin, Zenon
<1>3. PICK n \in T : \A m \in T : ~(<<m, n>> \in R)
  BY <1>1, <1>2
<1>4. \A m, k \in Nat : <<m, k>> \in R <=> m < k
  OBVIOUS
<1> HIDE DEF R
<1>5. ASSUME NEW m \in T PROVE n <= m
  <2>1. ~(m < n)
    BY <1>3, <1>4, Zenon
  <2> QED BY <2>1
<1> QED BY <1>5

\* f holds the sums of the quantities up to each item.
IsSum(f, s) ==
    /\ f \in [0..Len(s) -> Int]
    /\ f[0] = 0
    /\ \A n \in 1..Len(s) : f[n] = f[n - 1] + s[n].qty

\* There are such sums: otherwise there is a first item that they do not reach.
LEMMA SumExists ==
    ASSUME NEW R, NEW s \in Seq(R), \A r \in R : r.qty \in Int
    PROVE  \E f : IsSum(f, s)
<1>1. Len(s) \in Nat /\ \A i \in 1..Len(s) : s[i].qty \in Int
  BY LenProperties, ElementOfSeq
<1> DEFINE Upto(f, n) == /\ f \in [0..n -> Int]
                         /\ f[0] = 0
                         /\ \A k \in 1..n : f[k] = f[k - 1] + s[k].qty
           T == {n \in 0..Len(s) : \A f : ~Upto(f, n)}
<1>2. T \in SUBSET Nat /\ \A n : n \in T <=> n \in 0..Len(s) /\ \A f : ~Upto(f, n)
  BY <1>1
<1> HIDE DEF T
<1>3. CASE T = {}
  <2>1. PICK f : Upto(f, Len(s))
    BY <1>1, <1>2, <1>3
  <2> QED BY <2>1 DEF IsSum
<1>4. CASE T # {}
  <2>1. PICK n \in T : \A m \in T : n <= m
    BY <1>2, <1>4, LeastNat
  <2>2. n # 0
    <3>1. Upto([k \in 0..0 |-> 0], 0)
      OBVIOUS
    <3> QED BY <1>2, <3>1
  <2>3. n - 1 \in 0..Len(s) /\ n \in 1..Len(s)
    BY <1>1, <1>2, <2>2
  <2>4. n - 1 \notin T
    BY <2>1, <2>3
  <2>5. PICK f : Upto(f, n - 1)
    BY <1>2, <2>3, <2>4
  <2> DEFINE g == [k \in 0..n |-> IF k = n THEN f[n - 1] + s[n].qty ELSE f[k]]
  <2>6. Upto(g, n)
    <3>1. g \in [0..n -> Int] /\ g[0] = 0
      BY <1>1, <2>3, <2>5
    <3>2. \A k \in 1..n : g[k] = g[k - 1] + s[k].qty
      BY <1>1, <2>3, <2>5
    <3> QED BY <3>1, <3>2
  <2> QED BY <1>2, <2>1, <2>6
<1> QED BY <1>3, <1>4

\* There is one sum only: otherwise there is a first item where two differ.
LEMMA SumUnique ==
    ASSUME NEW R, NEW s \in Seq(R), NEW f, NEW g, IsSum(f, s), IsSum(g, s)
    PROVE  f[Len(s)] = g[Len(s)]
<1>1. Len(s) \in Nat
  BY LenProperties
<1> DEFINE T == {n \in 0..Len(s) : f[n] # g[n]}
<1>2. T \in SUBSET Nat /\ \A n : n \in T <=> n \in 0..Len(s) /\ f[n] # g[n]
  BY <1>1
<1> HIDE DEF T
<1>3. CASE T # {}
  <2>1. PICK n \in T : \A m \in T : n <= m
    BY <1>2, <1>3, LeastNat
  <2>2. n # 0 /\ n \in 1..Len(s) /\ n - 1 \in 0..Len(s)
    BY <1>1, <1>2 DEF IsSum
  <2>3. f[n - 1] = g[n - 1]
    BY <1>2, <2>1, <2>2
  <2> QED BY <1>2, <2>2, <2>3 DEF IsSum
<1> QED BY <1>1, <1>2, <1>3

\* The total is the last of the sums.
LEMMA TotalIs ==
    ASSUME NEW R, NEW s \in Seq(R), \A r \in R : r.qty \in Int, NEW f, IsSum(f, s)
    PROVE  Total(s) = f[Len(s)]
<1>1. Len(s) \in Nat
  BY LenProperties
<1> DEFINE Def(g) == [n \in 0..Len(s) |-> IF n = 0 THEN 0 ELSE g[n - 1] + s[n].qty]
           h == CHOOSE g : g = Def(g)
<1>2. f = Def(f)
  BY <1>1 DEF IsSum
<1>3. h = Def(h)
  BY <1>2
<1> HIDE DEF h
<1>4. IsSum(h, s)
  <2>1. h[0] = 0 /\ \A n \in 1..Len(s) : h[n] = h[n - 1] + s[n].qty
    BY <1>1, <1>3
  <2> DEFINE T == {n \in 0..Len(s) : h[n] \notin Int}
  <2>2. T \in SUBSET Nat /\ \A n : n \in T <=> n \in 0..Len(s) /\ h[n] \notin Int
    BY <1>1
  <2> HIDE DEF T
  <2>3. CASE T # {}
    <3>1. PICK n \in T : \A m \in T : n <= m
      BY <2>2, <2>3, LeastNat
    <3>2. n # 0 /\ n \in 1..Len(s) /\ n - 1 \in 0..Len(s)
      BY <1>1, <2>1, <2>2
    <3>3. h[n - 1] \in Int /\ s[n].qty \in Int
      BY <2>2, <3>1, <3>2, ElementOfSeq
    <3> QED BY <2>1, <2>2, <3>2, <3>3
  <2>4. CASE T = {}
    <3>1. h \in [0..Len(s) -> Int]
      BY <1>3, <2>2, <2>4
    <3> QED BY <2>1, <3>1 DEF IsSum
  <2> QED BY <2>3, <2>4
<1>5. Total(s) = h[Len(s)]
  BY DEF Total, h
<1> QED BY <1>4, <1>5, SumUnique

\* No listing twice.
UniqueKeys(s) == \A i, j \in DOMAIN s : s[i].key = s[j].key => i = j

\* What is known of a cart's rows.
LEMMA RowsAre ==
    ASSUME NEW s \in Seq(Row)
    PROVE  /\ Len(s) \in Nat /\ DOMAIN s = 1..Len(s)
           /\ \A i \in 1..Len(s) : s[i] \in Row
           /\ \A r \in Row : r.qty \in Int /\ r.qty \in 1..MaxStock
           /\ \E f : IsSum(f, s)
           /\ \A f : IsSum(f, s) => Total(s) = f[Len(s)]
           /\ Total(s) \in Int
<1>1. Len(s) \in Nat /\ DOMAIN s = 1..Len(s) /\ \A i \in 1..Len(s) : s[i] \in Row
  BY LenProperties, ElementOfSeq
<1>2. \A r \in Row : r.qty \in Int /\ r.qty \in 1..MaxStock
  BY ShopAssumption DEF Row
<1>3. PICK f : IsSum(f, s)
  BY <1>2, SumExists
<1>4. \A g : IsSum(g, s) => Total(s) = g[Len(s)]
  BY <1>2, TotalIs
<1>5. Total(s) \in Int
  <2>1. Total(s) = f[Len(s)]
    BY <1>3, <1>4
  <2>2. Len(s) \in 0..Len(s)
    BY <1>1
  <2> QED BY <1>3, <2>1, <2>2 DEF IsSum
<1> QED BY <1>1, <1>2, <1>3, <1>4, <1>5

\* Of an empty cart.
LEMMA TotalOfEmpty == Total(<<>>) = 0
<1>1. IsSum([n \in 0..0 |-> 0], <<>>)
  BY DEF IsSum
<1>2. <<>> \in Seq(Row) /\ Len(<<>>) = 0
  OBVIOUS
<1>3. Total(<<>>) = [n \in 0..0 |-> 0][Len(<<>>)]
  BY <1>1, <1>2, RowsAre
<1> QED BY <1>2, <1>3

\* A changed quantity.
LEMMA TotalSetQuantity ==
    ASSUME NEW s \in Seq(Row), UniqueKeys(s), NEW i \in DOMAIN s, NEW q \in 1..MaxStock
    PROVE  LET u == SetQuantity(s, s[i].key, q)
           IN /\ u \in Seq(Row) /\ UniqueKeys(u)
              /\ Len(u) = Len(s)
              /\ Total(u) = Total(s) - s[i].qty + q
<1> DEFINE u == SetQuantity(s, s[i].key, q)
<1>1. /\ Len(s) \in Nat /\ DOMAIN s = 1..Len(s) /\ \A j \in 1..Len(s) : s[j] \in Row
      /\ Total(s) \in Int
      /\ \A r \in Row : r.qty \in Int
  BY RowsAre
<1>2. DOMAIN u = 1..Len(s)
  BY <1>1 DEF SetQuantity
<1>3. \A j \in 1..Len(s) : /\ u[j].key = s[j].key /\ u[j] \in Row
                           /\ u[j].qty = IF j = i THEN q ELSE s[j].qty
  <2> SUFFICES ASSUME NEW j \in 1..Len(s)
               PROVE  /\ u[j].key = s[j].key /\ u[j] \in Row
                      /\ u[j].qty = IF j = i THEN q ELSE s[j].qty
    OBVIOUS
  <2>1. u[j] = IF j = i THEN [s[j] EXCEPT !.qty = q] ELSE s[j]
    BY <1>1 DEF SetQuantity, UniqueKeys
  <2>2. s[j] \in Row
    BY <1>1
  <2> HIDE DEF u
  <2> QED BY <2>1, <2>2 DEF Row
<1>4. u \in Seq(Row) /\ Len(u) = Len(s)
  <2>1. u = [j \in 1..Len(s) |-> u[j]]
    BY <1>1 DEF SetQuantity
  <2> HIDE DEF u
  <2> QED BY <1>1, <1>3, <2>1
<1> HIDE DEF u
<1>5. UniqueKeys(u)
  BY <1>1, <1>2, <1>3 DEF UniqueKeys
<1>6. PICK f : IsSum(f, s)
  BY RowsAre
<1>7. Total(s) = f[Len(s)]
  BY <1>6, RowsAre
<1> DEFINE g == [n \in 0..Len(s) |-> IF n < i THEN f[n] ELSE f[n] - s[i].qty + q]
<1>8. f \in [0..Len(s) -> Int] /\ s[i].qty \in Int /\ i \in 1..Len(s) /\ q \in Int
  BY <1>1, <1>6 DEF IsSum
<1>9. IsSum(g, u)
  <2>1. g \in [0..Len(u) -> Int] /\ g[0] = 0
    BY <1>1, <1>4, <1>6, <1>8 DEF IsSum
  <2>2. ASSUME NEW n \in 1..Len(s) PROVE g[n] = g[n - 1] + u[n].qty
    <3>1. f[n] = f[n - 1] + s[n].qty /\ s[n].qty \in Int /\ n - 1 \in 0..Len(s) /\ n \in 0..Len(s)
      BY <1>1, <1>6 DEF IsSum
    <3>2. f[n] \in Int /\ f[n - 1] \in Int /\ n \in Int /\ i \in Int
      BY <1>8, <3>1
    <3>3. u[n].qty = IF n = i THEN q ELSE s[n].qty
      BY <1>3
    <3> QED BY <1>8, <3>1, <3>2, <3>3
  <2> QED BY <1>4, <2>1, <2>2 DEF IsSum
<1>10. Total(u) = g[Len(s)]
  BY <1>4, <1>9, RowsAre
<1>11. g[Len(s)] = f[Len(s)] - s[i].qty + q
  BY <1>1, <1>8
<1>12. u \in Seq(Row) /\ UniqueKeys(u) /\ Len(u) = Len(s) /\ Total(u) = Total(s) - s[i].qty + q
  BY <1>4, <1>5, <1>7, <1>10, <1>11
<1> QED BY <1>12 DEF u

\* A quantity of an item that is not there.
LEMMA SetQuantityElsewhere ==
    ASSUME NEW s \in Seq(Row), NEW l, NEW q, ~Has(s, l)
    PROVE  SetQuantity(s, l, q) = s
<1>1. DOMAIN s = 1..Len(s) /\ s = [i \in 1..Len(s) |-> s[i]]
  BY LenProperties
<1> QED BY <1>1 DEF SetQuantity, Has

\* An item that leaves.
LEMMA TotalWithout ==
    ASSUME NEW s \in Seq(Row), UniqueKeys(s), NEW l
    PROVE  LET u == Without(s, l)
           IN /\ u \in Seq(Row) /\ UniqueKeys(u)
              /\ Len(u) <= Len(s)
              /\ Total(u) <= Total(s)
<1>1. /\ Len(s) \in Nat /\ DOMAIN s = 1..Len(s) /\ \A j \in 1..Len(s) : s[j] \in Row
      /\ Total(s) \in Int
      /\ \A r \in Row : r.qty \in Int /\ r.qty \in 1..MaxStock
  BY RowsAre
<1>2. CASE ~Has(s, l)
  BY <1>1, <1>2 DEF Without
<1>3. CASE Has(s, l)
  <2> DEFINE k == CHOOSE i \in DOMAIN s : s[i].key = l
             u == RemoveAt(s, k)
  <2>1. k \in 1..Len(s)
    BY <1>1, <1>3 DEF Has
  <2> HIDE DEF k
  <2>2. /\ u \in Seq(Row)
        /\ Len(u) = Len(s) - 1
        /\ \A j \in 1..(Len(s) - 1) : u[j] = IF j < k THEN s[j] ELSE s[j + 1]
    BY <2>1, RemoveAtElements
  <2> HIDE DEF u
  <2>3. DOMAIN u = 1..(Len(s) - 1)
    BY <1>1, <2>2
  <2>4. UniqueKeys(u)
    <3> SUFFICES ASSUME NEW i \in DOMAIN u, NEW j \in DOMAIN u, u[i].key = u[j].key
                 PROVE  i = j
      BY DEF UniqueKeys
    <3>1. i \in 1..Len(s) /\ i + 1 \in 1..Len(s) /\ j \in 1..Len(s) /\ j + 1 \in 1..Len(s)
      BY <1>1, <2>3
    <3>2. (IF i < k THEN i ELSE i + 1) = (IF j < k THEN j ELSE j + 1)
      BY <1>1, <2>2, <2>3, <3>1 DEF UniqueKeys
    <3>3. i \in Int /\ j \in Int /\ k \in Int
      BY <2>1, <3>1
    <3> QED BY <3>2, <3>3
  <2>5. PICK f : IsSum(f, s)
    BY RowsAre
  <2>6. Total(s) = f[Len(s)]
    BY <2>5, RowsAre
  <2> DEFINE g == [n \in 0..(Len(s) - 1) |-> IF n < k THEN f[n] ELSE f[n + 1] - s[k].qty]
  <2>7. f \in [0..Len(s) -> Int] /\ s[k].qty \in Int /\ s[k].qty > 0 /\ k \in Int
    BY <1>1, <2>1, <2>5 DEF IsSum
  <2>8. \A n \in 1..Len(s) : f[n] = f[n - 1] + s[n].qty /\ s[n].qty \in Int /\ f[n] \in Int
    BY <1>1, <2>5 DEF IsSum
  <2>9. IsSum(g, u)
    <3>1. g \in [0..Len(u) -> Int]
      <4>1. \A n \in 0..(Len(s) - 1) : n \in 0..Len(s) /\ n + 1 \in 0..Len(s)
        BY <1>1
      <4> QED BY <2>2, <2>7, <4>1
    <3>2. g[0] = 0
      BY <1>1, <2>1, <2>5 DEF IsSum
    <3>3. ASSUME NEW n \in 1..(Len(s) - 1) PROVE g[n] = g[n - 1] + u[n].qty
      <4>1. /\ n \in 0..(Len(s) - 1) /\ n - 1 \in 0..(Len(s) - 1) /\ n \in Int
            /\ n \in 1..Len(s) /\ n + 1 \in 1..Len(s) /\ (n - 1) + 1 = n /\ (n + 1) - 1 = n
        BY <1>1
      <4>2. /\ f[n] = f[n - 1] + s[n].qty /\ s[n].qty \in Int /\ f[n] \in Int
            /\ f[n + 1] = f[n] + s[n + 1].qty /\ s[n + 1].qty \in Int /\ f[n + 1] \in Int
        BY <2>8, <4>1
      <4>3. u[n] = IF n < k THEN s[n] ELSE s[n + 1]
        BY <2>2
      <4>4. f[n - 1] \in Int
        BY <2>7, <4>1
      <4>5. g[n] = (IF n < k THEN f[n] ELSE f[n + 1] - s[k].qty)
        BY <4>1
      <4>6. g[n - 1] = (IF n - 1 < k THEN f[n - 1] ELSE f[n] - s[k].qty)
        BY <4>1
      <4> HIDE DEF g
      <4>7. CASE n < k
        BY <2>7, <4>1, <4>2, <4>3, <4>4, <4>5, <4>6, <4>7
      <4>8. CASE n = k
        BY <2>7, <4>1, <4>2, <4>3, <4>4, <4>5, <4>6, <4>8
      <4>9. CASE n > k
        BY <2>7, <4>1, <4>2, <4>3, <4>4, <4>5, <4>6, <4>9, SMTT(40)
      <4> QED BY <2>7, <4>1, <4>7, <4>8, <4>9
    <3> QED BY <2>2, <3>1, <3>2, <3>3 DEF IsSum
  <2>10. Total(u) = g[Len(s) - 1]
    BY <2>2, <2>9, RowsAre
  <2>11. g[Len(s) - 1] = f[Len(s)] - s[k].qty
    <3>1. Len(s) - 1 \in 0..(Len(s) - 1) /\ (Len(s) - 1) + 1 = Len(s)
      BY <1>1, <2>1
    <3>2. g[Len(s) - 1] = IF Len(s) - 1 < k THEN f[Len(s) - 1] ELSE f[Len(s)] - s[k].qty
      BY <3>1
    <3>3. CASE Len(s) - 1 < k
      <4>1. k = Len(s)
        <5>1. Len(s) \in Int /\ k \in Int /\ k <= Len(s)
          BY <1>1, <2>1
        <5> HIDE DEF g
        <5> QED BY ONLY <3>3, <5>1
      <4>2. f[Len(s)] = f[Len(s) - 1] + s[k].qty /\ f[Len(s) - 1] \in Int
        BY <1>1, <2>1, <2>7, <2>8, <3>1, <4>1
      <4> HIDE DEF g
      <4> QED BY <2>7, <3>2, <3>3, <4>2
    <3>4. CASE ~(Len(s) - 1 < k)
      BY <3>2, <3>4
    <3> QED BY <3>3, <3>4
  <2>12. Without(s, l) = u
    BY <1>3 DEF Without, u, k
  <2>13. Total(u) <= Total(s)
    <3>1. f[Len(s)] \in Int
      BY <1>1, <2>7
    <3> HIDE DEF g
    <3> QED BY <2>6, <2>7, <2>10, <2>11, <3>1
  <2> QED BY <1>1, <2>2, <2>4, <2>12, <2>13
<1> QED BY <1>2, <1>3

\* A new item.
LEMMA TotalAppend ==
    ASSUME NEW s \in Seq(Row), UniqueKeys(s), NEW r \in Row, ~Has(s, r.key)
    PROVE  LET u == Append(s, r)
           IN /\ u \in Seq(Row) /\ UniqueKeys(u)
              /\ Len(u) = Len(s) + 1
              /\ Total(u) = Total(s) + r.qty
<1> DEFINE u == Append(s, r)
<1>1. /\ Len(s) \in Nat /\ DOMAIN s = 1..Len(s) /\ \A j \in 1..Len(s) : s[j] \in Row
      /\ Total(s) \in Int
      /\ \A x \in Row : x.qty \in Int
  BY RowsAre
<1>2. /\ u \in Seq(Row) /\ Len(u) = Len(s) + 1
      /\ \A i \in 1..Len(s) : u[i] = s[i]
      /\ u[Len(s) + 1] = r
  BY AppendProperties
<1> HIDE DEF u
<1>3. DOMAIN u = 1..(Len(s) + 1)
  BY <1>1, <1>2
<1>4. UniqueKeys(u)
  <2> SUFFICES ASSUME NEW i \in DOMAIN u, NEW j \in DOMAIN u, u[i].key = u[j].key
               PROVE  i = j
    BY DEF UniqueKeys
  <2>1. (i \in 1..Len(s) \/ i = Len(s) + 1) /\ (j \in 1..Len(s) \/ j = Len(s) + 1)
    BY <1>1, <1>3
  <2> QED BY <1>1, <1>2, <2>1 DEF UniqueKeys, Has
<1>5. PICK f : IsSum(f, s)
  BY RowsAre
<1>6. Total(s) = f[Len(s)]
  BY <1>5, RowsAre
<1> DEFINE g == [n \in 0..(Len(s) + 1) |-> IF n <= Len(s) THEN f[n] ELSE f[Len(s)] + r.qty]
<1>7. f \in [0..Len(s) -> Int] /\ f[Len(s)] \in Int /\ r.qty \in Int
  BY <1>1, <1>5 DEF IsSum
<1>8. IsSum(g, u)
  <2>1. g \in [0..Len(u) -> Int] /\ g[0] = 0
    BY <1>1, <1>2, <1>5, <1>7 DEF IsSum
  <2>2. ASSUME NEW n \in 1..(Len(s) + 1) PROVE g[n] = g[n - 1] + u[n].qty
    <3>1. CASE n \in 1..Len(s)
      <4>1. n \in 0..(Len(s) + 1) /\ n - 1 \in 0..(Len(s) + 1) /\ n <= Len(s) /\ n - 1 <= Len(s)
        BY <1>1, <3>1
      <4>2. f[n] = f[n - 1] + s[n].qty
        BY <1>5, <3>1 DEF IsSum
      <4> QED BY <1>2, <3>1, <4>1, <4>2
    <3>2. CASE n = Len(s) + 1
      <4>1. /\ n \in 0..(Len(s) + 1) /\ n - 1 \in 0..(Len(s) + 1) /\ ~(n <= Len(s))
            /\ n - 1 = Len(s) /\ Len(s) <= Len(s)
        BY <1>1, <3>2
      <4> QED BY <1>2, <3>2, <4>1
    <3> QED BY <1>1, <3>1, <3>2
  <2> QED BY <1>2, <2>1, <2>2 DEF IsSum
<1>9. Total(u) = g[Len(s) + 1]
  BY <1>2, <1>8, RowsAre
<1>10. g[Len(s) + 1] = f[Len(s)] + r.qty
  BY <1>1
<1>11. u \in Seq(Row) /\ UniqueKeys(u) /\ Len(u) = Len(s) + 1 /\ Total(u) = Total(s) + r.qty
  BY <1>2, <1>4, <1>6, <1>9, <1>10
<1> QED BY <1>11 DEF u

----------------------------------------------------------------------------
(* The limits of a cart.                                                    *)

\* By how much the quantities of a cart may exceed the limit: an item of one unit, in a
\* cart that lacks one unit, is raised to its whole stock.
Slack == Max({0, MaxStock - 2})

\* A cart within its limits.
CartWithin(s) ==
    /\ s \in Seq(Row)
    /\ UniqueKeys(s)
    /\ Len(s) <= MaxItems
    /\ Total(s) <= MaxQuantity + Slack

LEMMA SlackIs == Slack \in Nat /\ MaxStock - 2 <= Slack
<1> DEFINE x == CHOOSE x \in {0, MaxStock - 2} : \A y \in {0, MaxStock - 2} : x >= y
<1>1. MaxStock - 2 \in Int /\ 0 \in Int
  BY ShopAssumption
<1>2. \E m \in {0, MaxStock - 2} : \A y \in {0, MaxStock - 2} : m >= y
  BY <1>1
<1>3. x \in {0, MaxStock - 2} /\ \A y \in {0, MaxStock - 2} : x >= y
  BY <1>2
<1>4. Slack = x
  BY DEF Slack, Max
<1> HIDE DEF x
<1> QED BY <1>1, <1>3, <1>4

\* Loading an item lowers its quantity, or removes it.
LEMMA LoadWithin ==
    ASSUME NEW s, CartWithin(s), NEW i \in DOMAIN s, NEW quantity \in 0..MaxStock
    PROVE  /\ CartWithin(Without(s, s[i].key))
           /\ quantity # 0 =>
                 CartWithin(SetQuantity(s, s[i].key,
                                        IF s[i].qty >= quantity THEN quantity ELSE s[i].qty))
<1>1. /\ Len(s) \in Nat /\ DOMAIN s = 1..Len(s) /\ s[i] \in Row /\ s[i].qty \in 1..MaxStock
      /\ Total(s) \in Int /\ MaxStock \in Nat /\ MaxItems \in Nat /\ MaxQuantity \in Nat
      /\ Slack \in Nat
  BY RowsAre, SlackIs, ShopAssumption DEF CartWithin
<1>2. CartWithin(Without(s, s[i].key))
  <2>1. PICK u : u = Without(s, s[i].key)
    OBVIOUS
  <2>2. u \in Seq(Row) /\ UniqueKeys(u) /\ Len(u) <= Len(s) /\ Total(u) <= Total(s)
    BY <2>1, TotalWithout DEF CartWithin
  <2>3. Len(u) \in Nat /\ Total(u) \in Int
    BY <2>2, RowsAre
  <2> QED BY <1>1, <2>1, <2>2, <2>3 DEF CartWithin
<1>3. ASSUME quantity # 0
      PROVE  CartWithin(SetQuantity(s, s[i].key,
                                    IF s[i].qty >= quantity THEN quantity ELSE s[i].qty))
  <2>1. PICK q : q = IF s[i].qty >= quantity THEN quantity ELSE s[i].qty
    OBVIOUS
  <2>2. q \in 1..MaxStock /\ q <= s[i].qty
    BY <1>1, <1>3, <2>1
  <2>3. PICK u : u = SetQuantity(s, s[i].key, q)
    OBVIOUS
  <2>4. u \in Seq(Row) /\ UniqueKeys(u) /\ Len(u) = Len(s) /\ Total(u) = Total(s) - s[i].qty + q
    BY <2>2, <2>3, TotalSetQuantity DEF CartWithin
  <2>5. Total(u) <= Total(s)
    BY <1>1, <2>2, <2>4
  <2>6. CartWithin(u)
    BY <1>1, <2>2, <2>4, <2>5 DEF CartWithin
  <2> QED BY <2>1, <2>3, <2>6
<1> QED BY <1>2, <1>3

\* Cart::add: the sum stays within the limit, but for an item that is raised to
\* its whole stock.
LEMMA AddWithin ==
    ASSUME NEW s, CartWithin(s), s = items, s = rows[user.id], ~Full(items), ops + 1 \in Tag,
           NEW l \in Listings, NEW q \in 1..MaxStock, NEW quantity \in 1..MaxStock
    PROVE  CartWithin(PutInCart(s, l, q, quantity))
<1> DEFINE have == QuantityOf(s, l)
           room == MaxQuantity - Total(s)
           fits == IF q <= room THEN q ELSE room
<1>1. /\ Len(s) \in Nat /\ DOMAIN s = 1..Len(s)
      /\ Total(s) \in Int /\ MaxStock \in Nat /\ MaxItems \in Nat /\ MaxQuantity \in Nat
      /\ Slack \in Nat /\ MaxStock - 2 <= Slack
  BY RowsAre, SlackIs, ShopAssumption DEF CartWithin
<1>2. Len(s) < MaxItems /\ Total(s) < MaxQuantity
  BY <1>1 DEF Full
<1>3. fits \in 1..MaxStock /\ fits <= q /\ fits <= room
  BY <1>1, <1>2
<1>4. PutInCart(s, l, q, quantity) =
        IF have + q > quantity THEN SetQuantity(s, l, quantity)
        ELSE IF Has(s, l) /\ fits > 0 THEN SetQuantity(s, l, have + fits)
        ELSE Append(s, [key |-> l, qty |-> fits, tag |-> ops + 1])
  BY DEF PutInCart
<1>5. CASE Has(s, l)
  <2>1. PICK i \in DOMAIN s : i = CHOOSE j \in DOMAIN s : s[j].key = l
    BY <1>5 DEF Has
  <2>2. s[i].key = l /\ have = s[i].qty
    BY <1>5, <2>1 DEF Has, QuantityOf
  <2>3. have \in 1..MaxStock
    BY <2>1, <2>2, RowsAre DEF CartWithin
  <2> HIDE DEF have, fits, room
  <2>4. PICK n : /\ n \in 1..MaxStock /\ Total(s) - have + n <= MaxQuantity + Slack
                 /\ PutInCart(s, l, q, quantity) = SetQuantity(s, l, n)
    <3>1. CASE have + q > quantity
      <4>1. Total(s) - have + quantity <= MaxQuantity + Slack
        BY <1>1, <1>2, <2>3
      <4>2. PutInCart(s, l, q, quantity) = SetQuantity(s, l, quantity)
        BY <1>4, <3>1
      <4> QED BY <4>1, <4>2
    <3>2. CASE ~(have + q > quantity)
      <4>1. have + fits \in 1..MaxStock /\ fits \in Int /\ fits > 0
        BY <1>1, <1>3, <2>3, <3>2
      <4>2. Total(s) - have + (have + fits) <= MaxQuantity + Slack
        BY <1>1, <1>3, <2>3, <4>1 DEF room
      <4>3. PutInCart(s, l, q, quantity) = SetQuantity(s, l, have + fits)
        BY <1>4, <1>5, <3>2, <4>1
      <4> QED BY <4>1, <4>2, <4>3
    <3> QED BY <3>1, <3>2
  <2>5. PICK u : u = SetQuantity(s, l, n)
    OBVIOUS
  <2>6. u \in Seq(Row) /\ UniqueKeys(u) /\ Len(u) = Len(s) /\ Total(u) = Total(s) - have + n
    BY <2>2, <2>4, <2>5, TotalSetQuantity DEF CartWithin
  <2> QED BY <1>1, <1>2, <2>4, <2>5, <2>6 DEF CartWithin
<1>6. CASE ~Has(s, l)
  <2>1. CASE have + q > quantity
    <3>1. PutInCart(s, l, q, quantity) = s
      BY <1>4, <1>6, <2>1, SetQuantityElsewhere DEF CartWithin
    <3> QED BY <3>1
  <2>2. CASE ~(have + q > quantity)
    <3> HIDE DEF have, fits, room
    <3>1. PICK r : r = [key |-> l, qty |-> fits, tag |-> ops + 1]
      OBVIOUS
    <3>2. r \in Row /\ r.key = l /\ r.qty = fits
      BY <1>3, <3>1 DEF Row
    <3>3. PICK u : u = Append(s, r)
      OBVIOUS
    <3>4. u \in Seq(Row) /\ UniqueKeys(u) /\ Len(u) = Len(s) + 1 /\ Total(u) = Total(s) + fits
      BY <1>6, <3>2, <3>3, TotalAppend DEF CartWithin
    <3>5. Total(u) <= MaxQuantity + Slack
      BY <1>1, <1>3, <3>4 DEF room
    <3>6. CartWithin(u)
      BY <1>1, <1>2, <3>4, <3>5 DEF CartWithin
    <3> QED BY <1>4, <1>6, <2>2, <3>1, <3>3, <3>6
  <2> QED BY <2>1, <2>2
<1> QED BY <1>5, <1>6

CartsInv == \A a \in Accounts : CartWithin(rows[a])

\* A step changes a cart while it is loaded, by Cart::add and by Cart::empty.
LEMMA CartsStep ==
    ASSUME SessionInv, MemoryInv, OrdersInv, TypeOK, CartsInv, [Next]_vars
    PROVE  CartsInv'
<1>1. CASE UNCHANGED rows
  <2>1. \A a \in Accounts : CartWithin(rows'[a])
    BY <1>1 DEF CartsInv
  <2> QED BY <2>1 DEF CartsInv, CartWithin, UniqueKeys, Total
<1>2. ASSUME NEW u, CartWithin(u), user.id \in Accounts, rows' = [rows EXCEPT ![user.id] = u]
      PROVE  CartsInv'
  <2>1. \A a \in Accounts : rows'[a] = IF a = user.id THEN u ELSE rows[a]
    BY <1>2 DEF MemoryInv
  <2>2. \A a \in Accounts : CartWithin(rows'[a])
    BY <1>2, <2>1 DEF CartsInv
  <2> QED BY <2>2 DEF CartsInv, CartWithin, UniqueKeys, Total
<1>3. CASE LoadItem
  <2>1. page = "loading" /\ user.id \in Accounts /\ items = rows[user.id]
    BY <1>3, UserIsAccount DEF LoadItem, MemoryInv
  <2>2. CASE loading.next > Len(items)
    BY <1>1, <1>3, <2>2 DEF LoadItem
  <2>3. CASE ~(loading.next > Len(items))
    <3> DEFINE s == rows[user.id]
               i == loading.next
    <3>1. PICK quantity \in 0..MaxStock :
            rows' = [rows EXCEPT ![user.id] =
                       IF quantity = 0 THEN Without(@, s[i].key)
                       ELSE SetQuantity(@, s[i].key,
                                        IF s[i].qty >= quantity THEN quantity ELSE s[i].qty)]
      BY <1>3, <2>1, <2>3 DEF LoadItem
    <3>2. CartWithin(s)
      BY <2>1 DEF CartsInv
    <3>3. i \in DOMAIN s
      <4>1. i \in Nat \ {0}
        BY DEF TypeOK
      <4> QED BY <2>1, <2>3, <3>2, <4>1, RowsAre DEF CartWithin
    <3>4. PICK u : u = IF quantity = 0 THEN Without(s, s[i].key)
                       ELSE SetQuantity(s, s[i].key,
                                        IF s[i].qty >= quantity THEN quantity ELSE s[i].qty)
      OBVIOUS
    <3>5. rows' = [rows EXCEPT ![user.id] = u]
      BY <3>1, <3>4
    <3> HIDE DEF s, i
    <3>6. CartWithin(u)
      BY <3>2, <3>3, <3>4, LoadWithin
    <3> QED BY <1>2, <2>1, <3>5, <3>6
  <2> QED BY <2>2, <2>3
<1>4. ASSUME NEW l \in Listings, NEW q \in Quantities, Add(l, q) PROVE CartsInv'
  <2>1. page = "home" /\ user.id \in Accounts /\ items = rows[user.id] /\ ops + 1 \in Tag
    <3>1. ops \in Nat /\ ops < MaxOps /\ MaxOps \in Nat
      BY <1>4, ShopAssumption DEF Add, Begins, OrdersInv, ItemsInv
    <3> QED BY <1>4, <3>1, UserIsAccount DEF Add, Begins, MemoryInv, Tag
  <2>2. CASE rows' # rows
    <3>1. PICK quantity \in 1..MaxStock :
            ~Full(items) /\ rows' = [rows EXCEPT ![user.id] = PutInCart(@, l, q, quantity)]
      <4>1. PICK quantity \in 0..MaxStock :
              /\ ~(Full(items) \/ quantity = 0)
              /\ rows' = [rows EXCEPT ![user.id] = PutInCart(@, l, q, quantity)]
        BY <1>4, <2>2 DEF Add
      <4>2. quantity \in 1..MaxStock
        BY <4>1, ShopAssumption
      <4> QED BY <4>1, <4>2
    <3>2. PICK u : u = PutInCart(rows[user.id], l, q, quantity)
      OBVIOUS
    <3>3. CartWithin(u)
      <4>1. CartWithin(rows[user.id]) /\ q \in 1..MaxStock
        BY <2>1 DEF CartsInv, Quantities
      <4> QED BY <2>1, <3>1, <3>2, <4>1, AddWithin
    <3>4. rows' = [rows EXCEPT ![user.id] = u]
      BY <3>1, <3>2
    <3> QED BY <1>2, <2>1, <3>3, <3>4
  <2> QED BY <1>1, <2>2
<1>5. CASE FinishOrder
  <2>1. CASE rows' = [rows EXCEPT ![user.id] = <<>>]
    <3>1. CartWithin(<<>>)
      <4>1. <<>> \in Seq(Row) /\ UniqueKeys(<<>>) /\ Len(<<>>) = 0
        BY DEF UniqueKeys
      <4> QED BY <4>1, TotalOfEmpty, SlackIs, ShopAssumption DEF CartWithin
    <3>2. user.id \in Accounts
      BY <1>5, UserIsAccount DEF FinishOrder, OrdersInv, PlacingInv
    <3> QED BY <1>2, <2>1, <3>1, <3>2
  <2> QED BY <1>1, <1>5, <2>1 DEF FinishOrder
<1>6. CASE \/ SignIn \/ FinishLoading \/ MakeCart \/ SessionOnly \/ AppDies \/ UNCHANGED vars
           \/ \E a \in Accounts : GetUser(a)
           \/ \E l \in Listings : GainRow(l) \/ \E q \in 0..MaxStock : SellerSets(l, q)
  BY <1>1, <1>6
  DEF SignIn, FinishLoading, MakeCart, SessionOnly, AppDies, GetUser, GainRow, SellerSets, vars,
      cartVars
<1>7. CASE Shopping
  <2>1. \/ UNCHANGED cartVars \/ FinishOrder
        \/ \E l \in Listings : \E q \in Quantities : Add(l, q)
    BY <1>7
    DEF Shopping, AddToFavorites, RemoveFromFavorites, RateItem, RateSeller, Rate,
        ListItem, DelistItem, SetStockQuantity, GetStockAvailable, LoseRow, GetRatings,
        GetProductRatings, GetSellerRatings, GetOwnInventory, GetInventory, GetListings,
        GetListingsByCategory, GetListingsBySearchTerm, Scan, CreateOrder, AskSeller, PutOrder
  <2> QED BY <1>1, <1>4, <1>5, <2>1 DEF cartVars
<1> QED BY <1>3, <1>6, <1>7 DEF Next

----------------------------------------------------------------------------
(* The types of the state.                                                  *)

\* What the application has to do with listings.
ListingTypes ==
    /\ listed \subseteq Listings
    /\ stock \in [Listings -> 0..MaxStock]
    /\ shown \subseteq listed

\* Rows are of listings that exist.
LEMMA ListingStep ==
    ASSUME ListingTypes, [Next]_vars
    PROVE  ListingTypes'
<1> USE DEF ListingTypes
<1>1. CASE \/ SignIn \/ FinishLoading \/ MakeCart \/ SessionOnly \/ AppDies \/ UNCHANGED vars
           \/ \E a \in Accounts : GetUser(a)
  BY <1>1
  DEF SignIn, FinishLoading, MakeCart, SessionOnly, AppDies, GetUser, vars, listingVars
<1>2. CASE LoadItem
  BY <1>2 DEF LoadItem, Lookup
<1>3. CASE \E l \in Listings : GainRow(l) \/ \E q \in 0..MaxStock : SellerSets(l, q)
  BY <1>3 DEF GainRow, SellerSets
<1>4. CASE Shopping
  <2>1. CASE \/ \E l \in Listings : \/ \E q \in Quantities : Add(l, q)
                                    \/ ListItem(l) \/ DelistItem(l) \/ SetStockQuantity(l)
                                    \/ GetStockAvailable(l)
             \/ \E x \in Subjects : GetInventory(x)
             \/ CreateOrder \/ AskSeller
             \/ GetOwnInventory \/ GetListings \/ GetListingsByCategory \/ GetListingsBySearchTerm
    BY <2>1, ZenonT(40)
    DEF Add, Lookup, ListItem, DelistItem, SetStockQuantity, GetStockAvailable, LoseRow,
        GetInventory, GetOwnInventory, GetListings, GetListingsByCategory,
        GetListingsBySearchTerm, Scan, CreateOrder, AskSeller
  <2>2. CASE \/ \E l \in Listings : \/ AddToFavorites(l) \/ RemoveFromFavorites(l) \/ RateItem(l)
                                    \/ GetProductRatings(l)
             \/ \E x \in Subjects : RateSeller(x) \/ GetSellerRatings(x)
             \/ PutOrder \/ FinishOrder
    BY <2>2
    DEF AddToFavorites, RemoveFromFavorites, RateItem, RateSeller, Rate, GetRatings,
        GetProductRatings, GetSellerRatings, PutOrder, FinishOrder, listingVars
  <2> QED BY <1>4, <2>1, <2>2 DEF Shopping
<1> QED BY <1>1, <1>2, <1>3, <1>4 DEF Next

\* The cart and the favorites.
CartTypes ==
    /\ hasCart \subseteq Accounts
    /\ cartId \in BOOLEAN
    /\ items \in Seq(Row)
    /\ loading \in [next : Nat \ {0}, last : Nat]
    /\ favorites \in [Accounts -> SUBSET Listings]
    /\ favs \subseteq Listings

\* Past the main page what is in memory has the types of the tables.
LEMMA CartStep ==
    ASSUME SessionInv, SessionInv', MemoryInv, MemoryInv', CartsInv, CartsInv', CartTypes, [Next]_vars
    PROVE  CartTypes'
<1>1. page' # "main" => items' \in Seq(Row)
  <2>1. \A a \in Accounts : (rows[a])' \in Seq(Row)
    BY DEF CartsInv, CartWithin, Row, Tag
  <2>2. page' # "main" => user'.id \in Accounts /\ items' = rows'[user'.id]
    BY DEF MemoryInv, SessionInv, SessionTypeOK, Agree
  <2> QED BY <2>1, <2>2
<1> USE DEF CartTypes
<1>2. CASE SignIn
  <2>1. page' # "main" => user'.id \in Accounts /\ rows[user'.id] \in Seq(Row)
    BY DEF CartsInv, CartWithin, SessionInv, SessionTypeOK, Agree
  <2>2. hasCart' = hasCart /\ favorites' = favorites
    BY <1>2 DEF SignIn
  <2>3. CASE page' # "loading"
    BY <1>2, <2>2, <2>3 DEF SignIn
  <2>4. CASE page' = "loading"
    <3>1. LoadCart(user'.id)
      BY <1>2, <2>4 DEF SignIn
    <3>2. Len(rows[user'.id]) \in Nat
      BY <2>1, <2>4, RowsAre
    <3> QED BY <2>1, <2>2, <2>4, <3>1, <3>2 DEF LoadCart
  <2> QED BY <2>3, <2>4
<1>3. CASE LoadItem
  <2>1. page' # "main"
    BY <1>3 DEF LoadItem, sessionVars
  <2> QED BY <1>1, <1>3, <2>1 DEF LoadItem, favVars
<1>4. CASE \/ FinishLoading \/ SessionOnly \/ UNCHANGED vars
           \/ \E a \in Accounts : GetUser(a)
           \/ \E l \in Listings : GainRow(l) \/ \E q \in 0..MaxStock : SellerSets(l, q)
  BY <1>4
  DEF FinishLoading, SessionOnly, GetUser, GainRow, SellerSets, vars, cartVars, favVars
<1>5. CASE MakeCart
  <2>1. user.id \in Accounts
    BY <1>5, UserIsAccount DEF MakeCart, RegisterCart
  <2> QED BY <1>5, <2>1 DEF MakeCart, favVars
<1>6. CASE AppDies
  <2>1. /\ UNCHANGED <<hasCart, favorites>>
        /\ cartId' = FALSE /\ items' = <<>> /\ loading' = [next |-> 1, last |-> 0] /\ favs' = {}
    BY <1>6 DEF AppDies
  <2>2. <<>> \in Seq(Row) /\ [next |-> 1, last |-> 0] \in [next : Nat \ {0}, last : Nat]
    OBVIOUS
  <2> QED BY <2>1, <2>2
<1>7. CASE Shopping
  <2>1. ASSUME NEW l \in Listings, NEW q \in Quantities, Add(l, q) PROVE CartTypes'
    <3>1. page = "home" /\ page' # "main"
      BY <2>1 DEF Add, Begins, sessionVars
    <3>2. user.id \in Accounts
      BY <3>1, UserIsAccount
    <3> QED BY <1>1, <2>1, <3>1, <3>2 DEF Add, favVars
  <2>2. ASSUME NEW l \in Listings, AddToFavorites(l) \/ RemoveFromFavorites(l) PROVE CartTypes'
    <3>1. favorites' \in [Accounts -> SUBSET Listings] /\ favs' \subseteq Listings
      BY <2>2 DEF AddToFavorites, RemoveFromFavorites
    <3> QED BY <2>2, <3>1 DEF AddToFavorites, RemoveFromFavorites, cartVars
  <2>3. CASE FinishOrder
    <3>1. UNCHANGED <<hasCart, cartId, loading, favorites, favs>> /\ items' \in {items, <<>>}
      BY <2>3 DEF FinishOrder, favVars
    <3>2. <<>> \in Seq(Row)
      OBVIOUS
    <3> QED BY <3>1, <3>2
  <2>4. CASE UNCHANGED <<cartVars, favVars>>
    BY <2>4 DEF cartVars, favVars
  <2> QED BY <1>7, <2>1, <2>2, <2>3, <2>4
    DEF Shopping, RateItem, RateSeller, Rate,
        ListItem, DelistItem, SetStockQuantity, GetStockAvailable, LoseRow, GetRatings,
        GetProductRatings, GetSellerRatings, GetOwnInventory, GetInventory, GetListings,
        GetListingsByCategory, GetListingsBySearchTerm, Scan, CreateOrder, AskSeller, PutOrder
<1> QED BY <1>2, <1>3, <1>4, <1>5, <1>6, <1>7 DEF Next

\* The ratings.
RatingTypes ==
    /\ ratings \subseteq Rating
    /\ rated \subseteq ratings
    /\ snapshot \in [shown : SUBSET Listings, rated : SUBSET Rating] \cup {None}
    /\ doubt \subseteq Accounts \X Subject

\* A rating is by the user who is logged in.
LEMMA RatingStep ==
    ASSUME SessionInv, OrdersInv, ListingTypes, RatingTypes, [Next]_vars
    PROVE  RatingTypes'
<1> USE DEF RatingTypes
<1>1. CASE UNCHANGED ratingVars
  BY <1>1 DEF ratingVars
<1>2. CASE AppDies
  BY <1>2 DEF AppDies
<1>3. Seen \in [shown : SUBSET Listings, rated : SUBSET Rating]
  BY DEF Seen, ListingTypes
<1>4. ASSUME NEW failed \in SUBSET Rating PROVE Missed(failed) \subseteq Accounts \X Subject
  BY DEF Missed, Rating
<1>5. ASSUME NEW x \in Subject, GetRatings(x) PROVE RatingTypes'
  <2>1. PICK failed \in SUBSET {r \in Seen.rated : r.subject = x} :
          rated' = rated \ failed /\ doubt' = doubt \cup Missed(failed)
    BY <1>5 DEF GetRatings
  <2>2. Missed(failed) \subseteq Accounts \X Subject
    BY <1>3, <1>4
  <2> QED BY <1>5, <2>1, <2>2 DEF GetRatings
<1>6. ASSUME NEW x \in Subject, Rate(x) PROVE RatingTypes'
  <2> DEFINE all == {r \in Seen.rated : r.subject = x}
             mine == {r \in all : r.by = user.id}
             rating == [by |-> user.id, subject |-> x, n |-> ops + 1]
  <2>1. rating \in Rating
    <3>1. ops \in Nat /\ ops < MaxOps /\ MaxOps \in Nat /\ user.id \in Accounts
      BY <1>6, ShopAssumption, UserIsAccount DEF Rate, Begins, OrdersInv, ItemsInv
    <3> QED BY <3>1 DEF Rating, Tag
  <2>2. <<user.id, x>> \in Accounts \X Subject
    BY <1>6, UserIsAccount DEF Rate, Begins
  <2>3. PICK failed \in SUBSET all : \E silent \in SUBSET (all \ failed) :
             IF mine \ (failed \cup silent) # {}
             THEN /\ rated' = rated \ failed
                  /\ snapshot' = Seen
                  /\ doubt' = doubt \cup Missed(failed)
                  /\ UNCHANGED ratings
             ELSE /\ \/ /\ ratings' = ratings \cup {rating}
                        /\ rated' \in {rated \ failed, (rated \ failed) \cup {rating}}
                     \/ /\ UNCHANGED ratings
                        /\ rated' = rated \ failed
                  /\ doubt' = IF /\ mine = {}
                                 /\ snapshot = None
                                 /\ rating \in ratings' => rating \in rated'
                              THEN doubt \cup Missed(failed)
                              ELSE doubt \cup Missed(failed) \cup {<<user.id, x>>}
                  /\ UNCHANGED snapshot
    BY <1>6, Zenon DEF Rate
  <2>4. Missed(failed) \subseteq Accounts \X Subject
    BY <1>3, <1>4
  <2> HIDE DEF rating, mine, all
  <2>5. ratings' \subseteq Rating /\ rated' \subseteq ratings'
    BY <2>1, <2>3
  <2>6. snapshot' \in {snapshot, Seen}
    BY <2>3
  <2>7. doubt' \subseteq doubt \cup Missed(failed) \cup {<<user.id, x>>}
    BY <2>3
  <2> QED BY <1>3, <2>2, <2>4, <2>5, <2>6, <2>7
<1>7. Listings \subseteq Subject /\ Subjects \subseteq Subject
  BY ShopAssumption DEF Subject, Subjects
<1>8. CASE Shopping
  <2>1. ASSUME NEW l \in Listings, RateItem(l) \/ GetProductRatings(l) PROVE RatingTypes'
    BY <1>5, <1>6, <1>7, <2>1 DEF RateItem, GetProductRatings
  <2>2. ASSUME NEW x \in Subjects, RateSeller(x) \/ GetSellerRatings(x) PROVE RatingTypes'
    BY <1>5, <1>6, <1>7, <2>2 DEF RateSeller, GetSellerRatings
  <2> QED BY <1>1, <1>8, <2>1, <2>2
    DEF Shopping, Add, AddToFavorites, RemoveFromFavorites,
        ListItem, DelistItem, SetStockQuantity, GetStockAvailable, LoseRow,
        GetOwnInventory, GetInventory, GetListings,
        GetListingsByCategory, GetListingsBySearchTerm, Scan, CreateOrder, AskSeller, PutOrder,
        FinishOrder
<1>9. CASE \/ SignIn \/ LoadItem \/ FinishLoading \/ MakeCart \/ SessionOnly \/ UNCHANGED vars
           \/ \E a \in Accounts : GetUser(a)
           \/ \E l \in Listings : GainRow(l) \/ \E q \in 0..MaxStock : SellerSets(l, q)
  BY <1>1, <1>9
  DEF SignIn, LoadItem, FinishLoading, MakeCart, SessionOnly, GetUser, GainRow, SellerSets, vars
<1> QED BY <1>2, <1>8, <1>9 DEF Next

\* A call of create_order.
Call == [ask : SUBSET SUBSET Row, left : SUBSET SUBSET Tag, put : SUBSET Tag,
         cache : SUBSET Listings, batch : BOOLEAN, waits : BOOLEAN]

\* The counters, and the calls of create_order.
OrderTypes ==
    /\ placing \in Seq(Call)
    /\ orders \in Seq(SUBSET Tag)
    /\ sent \subseteq Tag
    /\ checkedOut \subseteq Tag
    /\ kept \subseteq Tag
    /\ late \subseteq Tag
    /\ ops \in 0..MaxOps
    /\ crashes \in 0..MaxCrashes

\* Calls that begin, go on and return.
LEMMA CallTypes ==
    ASSUME placing \in Seq(Call)
    PROVE  /\ \A c \in Call : Append(placing, c) \in Seq(Call)
           /\ placing # <<>> =>
                 /\ Top \in Call
                 /\ Front(placing) \in Seq(Call)
                 /\ \A c \in Call : [placing EXCEPT ![Len(placing)] = c] \in Seq(Call)
<1>1. \A c \in Call : Append(placing, c) \in Seq(Call)
  BY AppendProperties
<1>2. ASSUME placing # <<>>
      PROVE  /\ Top \in Call
             /\ Front(placing) \in Seq(Call)
             /\ \A c \in Call : [placing EXCEPT ![Len(placing)] = c] \in Seq(Call)
  <2>1. Len(placing) \in Nat \ {0} /\ Len(placing) \in 1..Len(placing)
    BY <1>2, EmptySeq, LenProperties
  <2>2. Top \in Call
    BY <2>1, ElementOfSeq DEF Top, Last
  <2>3. Front(placing) \in Seq(Call)
    <3>1. \A i \in 1..(Len(placing) - 1) : placing[i] \in Call
      BY <2>1, ElementOfSeq
    <3> QED BY <2>1, <3>1, SubSeqProperties DEF Front
  <2>4. \A c \in Call : [placing EXCEPT ![Len(placing)] = c] \in Seq(Call)
    BY <2>1, ExceptSeq
  <2> QED BY <2>2, <2>3, <2>4
<1> QED BY <1>1, <1>2

\* The items of a cart, and what an order has of them.
LEMMA ItemTypes ==
    ASSUME CartTypes
    PROVE  /\ Range(items) \subseteq Row
           /\ \A S \in SUBSET Row : Tags(S) \subseteq Tag /\ {r.key : r \in S} \subseteq Listings
<1>1. Range(items) \subseteq Row
  BY LenProperties, ElementOfSeq DEF CartTypes, Range
<1>2. \A r \in Row : r.tag \in Tag /\ r.key \in Listings
  BY DEF Row
<1> QED BY <1>1, <1>2 DEF Tags

\* A call begins with what it found in the cart.
LEMMA CreateTypes ==
    ASSUME CartTypes, placing \in Seq(Call), kept \subseteq Tag, CreateOrder
    PROVE  placing' \in Seq(Call) /\ kept' \subseteq Tag
<1>1. DOMAIN items = 1..Len(items)
  BY LenProperties DEF CartTypes
<1>2. PICK found, lost :
        /\ found = Range(items) \ {r \in Range(items) : r.key \in lost}
        /\ \/ /\ placing' = Append(placing, Placing({}, {Tags(found)}, {r.key : r \in found}, FALSE))
              /\ BeginOrder
           \/ /\ placing' = Append(placing,
                              Placing({SoldBy(Range(items), x) : x \in SellersIn(Range(items))},
                                      {}, {}, TRUE))
              /\ BeginOrder
           \/ UNCHANGED <<placing, kept>>
  BY <1>1, CreateForm
<1>3. Tags(found) \subseteq Tag /\ {r.key : r \in found} \subseteq Listings
  BY <1>2, ItemTypes
<1>4. kept' \subseteq Tag
  <2>1. Tags(Range(items)) \subseteq Tag
    BY ItemTypes
  <2> QED BY <1>2, <2>1 DEF BeginOrder
<1>5. Placing({}, {Tags(found)}, {r.key : r \in found}, FALSE) \in Call
  BY <1>3 DEF Placing, Call
<1>6. Placing({SoldBy(Range(items), x) : x \in SellersIn(Range(items))}, {}, {}, TRUE) \in Call
  <2>1. {SoldBy(Range(items), x) : x \in SellersIn(Range(items))} \in SUBSET SUBSET Row
    BY ItemTypes DEF SoldBy
  <2> QED BY <2>1 DEF Placing, Call
<1> QED BY <1>2, <1>4, <1>5, <1>6, CallTypes

\* A call looks up the items of one seller.
LEMMA AskTypes ==
    ASSUME placing \in Seq(Call), CartTypes, AskSeller
    PROVE  placing' \in Seq(Call)
<1>1. placing # <<>> /\ Top \in Call
  BY CallTypes DEF AskSeller
<1>2. PICK g \in Top.ask :
        \/ GoesOn([Top EXCEPT !.ask = @ \ {g}, !.left = @ \cup {Tags(g)},
                              !.cache = @ \cup {r.key : r \in g}, !.waits = TRUE])
        \/ Returns
  BY DEF AskSeller
<1>3. g \in SUBSET Row
  BY <1>1, <1>2 DEF Call
<1>4. Tags(g) \subseteq Tag /\ {r.key : r \in g} \subseteq Listings
  BY <1>3, ItemTypes
<1>5. [Top EXCEPT !.ask = @ \ {g}, !.left = @ \cup {Tags(g)},
                  !.cache = @ \cup {r.key : r \in g}, !.waits = TRUE] \in Call
  <2>1. /\ Top.ask \ {g} \in SUBSET SUBSET Row
        /\ Top.left \cup {Tags(g)} \in SUBSET SUBSET Tag
        /\ Top.cache \cup {r.key : r \in g} \in SUBSET Listings
    BY <1>1, <1>3, <1>4 DEF Call
  <2>2. PICK ask, left, cache :
          /\ ask = Top.ask \ {g} /\ left = Top.left \cup {Tags(g)}
          /\ cache = Top.cache \cup {r.key : r \in g}
    OBVIOUS
  <2>3. [Top EXCEPT !.ask = ask, !.left = left, !.cache = cache, !.waits = TRUE] \in Call
    BY <1>1, <2>1, <2>2 DEF Call
  <2> QED BY <2>2, <2>3
<1> QED BY <1>1, <1>2, <1>5, CallTypes DEF GoesOn, Returns

\* A call puts an order.
LEMMA PutTypes ==
    ASSUME OrderTypes, PutOrder
    PROVE  OrderTypes'
<1>1. placing # <<>> /\ Top \in Call
  BY CallTypes DEF PutOrder, OrderTypes
<1>2. PICK o \in Top.left :
        /\ Put(o)
        /\ \/ Returns /\ kept' = kept \cup Top.put \cup o
           \/ /\ GoesOn([Top EXCEPT !.left = @ \ {o}, !.put = @ \cup o, !.waits = ~Top.batch])
              /\ UNCHANGED kept
  BY DEF PutOrder
<1>3. o \subseteq Tag /\ Top.put \subseteq Tag
  BY <1>1, <1>2 DEF Call
<1>4. [Top EXCEPT !.left = @ \ {o}, !.put = @ \cup o, !.waits = ~Top.batch] \in Call
  BY <1>1, <1>3 DEF Call
<1>5. placing' \in Seq(Call)
  BY <1>1, <1>2, <1>4, CallTypes DEF GoesOn, Returns, OrderTypes
<1>6. orders' \in Seq(SUBSET Tag)
  BY <1>2, <1>3, AppendProperties DEF Put, OrderTypes
<1>7. sent' \subseteq Tag /\ kept' \subseteq Tag
  BY <1>2, <1>3 DEF Put, OrderTypes
<1> QED BY <1>5, <1>6, <1>7 DEF PutOrder, OrderTypes

\* A call returns with the cart emptied, or kept.
LEMMA FinishTypes ==
    ASSUME CartTypes, OrderTypes, FinishOrder
    PROVE  OrderTypes'
<1>1. placing # <<>> /\ Top \in Call /\ placing' \in Seq(Call)
  BY CallTypes DEF FinishOrder, OrderTypes, Returns
<1>2. Top.put \subseteq Tag /\ Tags(Range(items)) \subseteq Tag
  BY <1>1, ItemTypes DEF Call
<1>3. kept' \subseteq Tag /\ checkedOut' \subseteq Tag
  BY <1>2 DEF FinishOrder, OrderTypes
<1> QED BY <1>1, <1>3 DEF FinishOrder, OrderTypes

\* The calls are lost.
LEMMA DiesTypes ==
    ASSUME OrderTypes, AppDies
    PROVE  OrderTypes'
<1>1. PutByAll \subseteq Tag
  <2>1. \A i \in DOMAIN placing : placing[i] \in Call
    BY LenProperties, ElementOfSeq DEF OrderTypes
  <2>2. \A c \in Call : c.put \subseteq Tag
    BY DEF Call
  <2> QED BY <2>1, <2>2 DEF PutByAll
<1>2. /\ placing' = <<>> /\ kept' = kept \cup PutByAll
      /\ UNCHANGED <<orders, sent, checkedOut, late, ops>>
  BY DEF AppDies
<1>3. <<>> \in Seq(Call)
  OBVIOUS
<1>4. crashes' \in 0..MaxCrashes
  BY ShopAssumption DEF AppDies, OrderTypes
<1> QED BY <1>1, <1>2, <1>3, <1>4 DEF OrderTypes

\* Every step keeps the types of the orders.
LEMMA OrderStep ==
    ASSUME CartTypes, OrderTypes, [Next]_vars
    PROVE  OrderTypes'
<1>1. CASE UNCHANGED <<orderVars, ops, crashes>>
  BY <1>1 DEF OrderTypes, orderVars
<1>2. CASE AppDies
  BY <1>2, DiesTypes
<1>3. ASSUME ops < MaxOps, ops' = ops + 1
      PROVE  ops' \in 0..MaxOps /\ ops + 1 \in Tag
  BY <1>3, ShopAssumption DEF OrderTypes, Tag
<1>4. CASE Shopping
  <2>1. ASSUME NEW l \in Listings, NEW q \in Quantities, Add(l, q) PROVE OrderTypes'
    BY <1>3, <2>1 DEF Add, Begins, OrderTypes
  <2>2. CASE CreateOrder
    <3>1. placing' \in Seq(Call) /\ kept' \subseteq Tag
      BY <2>2, CreateTypes DEF OrderTypes
    <3> QED BY <1>3, <2>2, <3>1 DEF CreateOrder, Begins, OrderTypes
  <2>3. CASE AskSeller
    <3>1. placing' \in Seq(Call)
      BY <2>3, AskTypes DEF OrderTypes
    <3> QED BY <2>3, <3>1 DEF AskSeller, OrderTypes
  <2>4. CASE PutOrder
    BY <2>4, PutTypes
  <2>5. CASE FinishOrder
    BY <2>5, FinishTypes
  <2>6. CASE UNCHANGED <<orderVars, crashes>> /\ ops < MaxOps /\ ops' = ops + 1
    BY <1>3, <2>6 DEF OrderTypes, orderVars
  <2> QED BY <1>4, <2>1, <2>2, <2>3, <2>4, <2>5, <2>6
    DEF Shopping, Begins, AddToFavorites, RemoveFromFavorites, RateItem, RateSeller, Rate,
        ListItem, DelistItem, SetStockQuantity, GetStockAvailable, LoseRow, GetRatings,
        GetProductRatings, GetSellerRatings, GetOwnInventory, GetInventory, GetListings,
        GetListingsByCategory, GetListingsBySearchTerm, Scan
<1>5. CASE \/ SignIn \/ LoadItem \/ FinishLoading \/ MakeCart \/ SessionOnly \/ UNCHANGED vars
           \/ \E a \in Accounts : GetUser(a)
           \/ \E l \in Listings : GainRow(l)
  BY <1>1, <1>5
  DEF SignIn, LoadItem, FinishLoading, MakeCart, SessionOnly, GetUser, GainRow, vars
<1>6. ASSUME NEW l \in Listings, NEW q \in 0..MaxStock, SellerSets(l, q) PROVE OrderTypes'
  BY <1>3, <1>6 DEF SellerSets, OrderTypes, orderVars
<1> QED BY <1>2, <1>4, <1>5, <1>6 DEF Next

----------------------------------------------------------------------------
\* The parts of the type invariant.
LEMMA TypesAre ==
    TypeOK <=> /\ SessionTypeOK /\ ListingTypes /\ CartTypes /\ OrderTypes /\ RatingTypes
               /\ rows \in [Accounts -> Seq(Row)]
  BY DEF TypeOK, ListingTypes, CartTypes, OrderTypes, RatingTypes, Call

\* The types of the shop, and the limits of its carts.
ShopInv == SessionInv /\ MemoryInv /\ OrdersInv /\ TypeOK /\ CartsInv

\* At the start the carts are empty.
LEMMA InitShop == Init => TypeOK /\ CartsInv
<1> SUFFICES ASSUME Init PROVE TypeOK /\ CartsInv
  OBVIOUS
<1>1. /\ \A S : <<>> \in Seq(S)
      /\ UniqueKeys(<<>>) /\ Len(<<>>) = 0
  BY DEF UniqueKeys
<1>2. CartsInv
  <2>1. CartWithin(<<>>)
    BY <1>1, TotalOfEmpty, SlackIs, ShopAssumption DEF CartWithin
  <2> QED BY <2>1 DEF Init, CartsInv
<1>3. SessionTypeOK
  BY InitInv DEF Init, SessionInv
<1>4. ListingTypes
  BY ShopAssumption DEF Init, ListingTypes
<1>5. CartTypes
  <2>1. /\ hasCart = {} /\ cartId = FALSE /\ items = <<>> /\ loading = [next |-> 1, last |-> 0]
        /\ favorites = [a \in Accounts |-> {}] /\ favs = {}
    BY DEF Init
  <2>2. items \in Seq(Row) /\ loading \in [next : Nat \ {0}, last : Nat]
    BY <1>1, <2>1
  <2> QED BY <2>1, <2>2 DEF CartTypes
<1>6. OrderTypes
  BY <1>1, ShopAssumption DEF Init, OrderTypes
<1>7. RatingTypes
  BY DEF Init, RatingTypes
<1>8. rows \in [Accounts -> Seq(Row)]
  BY <1>1 DEF Init
<1> QED BY <1>2, <1>3, <1>4, <1>5, <1>6, <1>7, <1>8, TypesAre

\* Every step keeps the types and the limits.
LEMMA NextShop ==
    ASSUME ShopInv, SessionInv', MemoryInv', [Next]_vars
    PROVE  TypeOK' /\ CartsInv'
<1>1. SessionInv /\ MemoryInv /\ OrdersInv /\ TypeOK /\ CartsInv
  BY DEF ShopInv
<1>2. CartsInv'
  BY <1>1, CartsStep
<1>3. ListingTypes /\ CartTypes /\ OrderTypes /\ RatingTypes
  BY <1>1, TypesAre
<1>4. ListingTypes'
  BY <1>3, ListingStep
<1>5. CartTypes'
  BY <1>1, <1>2, <1>3, CartStep
<1>6. OrderTypes'
  BY <1>3, OrderStep
<1>7. RatingTypes'
  BY <1>1, <1>3, RatingStep
<1>8. (rows \in [Accounts -> Seq(Row)])'
  BY <1>2 DEF CartsInv, CartWithin, MemoryInv, Row, Tag
<1>9. SessionTypeOK'
  BY DEF SessionInv
<1>10. TypeOK'
  BY <1>4, <1>5, <1>6, <1>7, <1>8, <1>9
  DEF TypeOK, ListingTypes, CartTypes, OrderTypes, RatingTypes, Call
<1> QED BY <1>2, <1>10

\* All of the shop's inductive invariants together.
THEOREM ShopInvariant == Spec => []ShopInv
<1>1. ShopInv /\ SessionInv' /\ MemoryInv' /\ [Next]_vars => TypeOK' /\ CartsInv'
  BY NextShop
<1>2. ShopInv <=> SessionInv /\ MemoryInv /\ OrdersInv /\ TypeOK /\ CartsInv
  BY DEF ShopInv
<1> QED BY <1>1, <1>2, InitShop, ShopSessionInvariant, MemoryInvariant, OrdersInvariant, PTL DEF Spec

\* The state of the shop keeps its types: what is in memory, in the tables and in the
\* DHT, and the calls of create_order (Cart, User, Order).
THEOREM ShopTypeCorrect == Spec => []TypeOK
<1>1. ShopInv => TypeOK
  BY DEF ShopInv
<1> QED BY <1>1, ShopInvariant, PTL

\* No cart holds a listing twice, an item without a quantity, or more than max_items
\* items (Cart::add, Cart::load).
THEOREM CartsWithinLimits == Spec => []ItemsWithinLimits
<1>1. ShopInv => ItemsWithinLimits
  <2> SUFFICES ASSUME ShopInv, NEW a \in Accounts
               PROVE  /\ \A i, j \in DOMAIN rows[a] : rows[a][i].key = rows[a][j].key => i = j
                      /\ \A i \in DOMAIN rows[a] : rows[a][i].qty > 0
                      /\ Len(rows[a]) <= MaxItems
    BY DEF ItemsWithinLimits
  <2>1. CartWithin(rows[a])
    BY DEF ShopInv, CartsInv
  <2>2. \A i \in DOMAIN rows[a] : rows[a][i].qty > 0
    BY <2>1, RowsAre, ShopAssumption DEF CartWithin
  <2> QED BY <2>1, <2>2 DEF CartWithin, UniqueKeys
<1> QED BY <1>1, ShopInvariant, PTL

\* How far QuantitiesAddUp is missed: the quantities of a cart exceed max_quantity by at
\* most two less than a stock, that of the item which was raised to it (Cart::add).
THEOREM QuantitiesOvershoot == Spec => [](\A a \in Accounts : Total(rows[a]) <= MaxQuantity + Slack)
<1>1. ShopInv => \A a \in Accounts : Total(rows[a]) <= MaxQuantity + Slack
  BY DEF ShopInv, CartsInv, CartWithin
<1> QED BY <1>1, ShopInvariant, PTL
=============================================================================
