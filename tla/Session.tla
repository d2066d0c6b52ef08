------------------------------ MODULE Session ------------------------------
(***************************************************************************)
(* How a user of the application gets from the main page to the home page:  *)
(* a wallet is generated, opened from its file or restored from its seed,   *)
(* and its account is registered in the DHT or found in the local index.    *)
(*                                                                          *)
(* An account is a wallet's primary address.  Registering it makes an RSA   *)
(* key pair, whose private half stays on this computer's disk and whose     *)
(* public half is published: others encrypt with it what they write to the  *)
(* user.  The home page has no way back to the main page: a session ends    *)
(* with the application.  An account in Foreign was registered on another   *)
(* computer, and its private key is not on this disk.                       *)
(*                                                                          *)
(* All of it runs on the GUI's thread; the application may die at any step. *)
(***************************************************************************)
EXTENDS Naturals

CONSTANTS
    Accounts,   \* primary addresses
    Foreign,    \* those that were registered on another computer
    MaxKeys,    \* bound on the key pairs generated
    None

ASSUME SessionAssumption ==
    /\ Foreign \subseteq Accounts
    /\ MaxKeys \in Nat
    /\ None \notin Accounts \cup 0..MaxKeys
    /\ None \notin [id : Accounts, key : 0..MaxKeys \cup {None}]

Keys == 0..MaxKeys          \* 0: made on another computer

VARIABLES
    page,       \* what the GUI's thread is at
    wallet,     \* Wallet::monero_wallet_obj: the account that is open
    files,      \* the wallet files on disk
    keyFile,    \* the private keys on disk
    made,       \* how many key pairs have been generated
    user,       \* UserManager::_user: its id and its private key
    joining,    \* the user being loaded is about to be registered
    asked,      \* ghost: the account the user asked for
    published,  \* the user objects in the DHT: whose, and the key they carry
    mapped,     \* the accounts that the mappings table has a row for
    unsure      \* ghost: the accounts whose registration was put and not confirmed

sessionVars == <<page, wallet, files, keyFile, made, user, joining, asked, published, mapped, unsure>>

SessionInit ==
    /\ page = "main"
    /\ wallet = None
    /\ files = {}
    /\ keyFile = [a \in Accounts |-> None]
    /\ made = 0
    /\ user = None
    /\ joining = FALSE
    /\ asked = None
    /\ published = {[id |-> a, key |-> 0] : a \in Foreign}
    /\ mapped \in SUBSET Foreign
    /\ unsure = {}

\* Faulty: a wallet file of that name is opened, instead of being an error.
GenerateOver(a) ==
    /\ page = "main"
    /\ a \notin Foreign
    /\ \/ wallet' = a /\ files' = files \cup {a}
       \/ wallet' = None /\ UNCHANGED files
    /\ UNCHANGED <<page, keyFile, made, user, joining, asked, published, mapped, unsure>>

\* The wallet page: the open wallet is closed, then a new one is made, unless
\* the passwords differ.
Generate(a) ==
    /\ page = "main"
    /\ a \notin files \cup Foreign
    /\ \/ wallet' = a /\ files' = files \cup {a}
       \/ wallet' = None /\ UNCHANGED files
    /\ UNCHANGED <<page, keyFile, made, user, joining, asked, published, mapped, unsure>>

\* Seller::on_login: a new user object, whose favorites and cart are loaded next.
OnLogin(a, joins) ==
    /\ page' = "loading"
    /\ user' = [id |-> a, key |-> None]
    /\ joining' = joins

\* Faulty: an account without a row in the index keeps its wallet open.
OpenWalletAndKeep(a, w) ==
    /\ wallet' = w
    /\ IF w \in mapped THEN OnLogin(w, FALSE) /\ asked' = a
       ELSE UNCHANGED <<page, user, joining, asked>>
    /\ UNCHANGED <<files, keyFile, made, published, mapped, unsure>>

\* Wallet w has been opened for a: without a row in the index it is closed again.
OpenWallet(a, w) ==
    /\ IF w \in mapped
       THEN wallet' = w /\ asked' = a /\ OnLogin(w, FALSE)
       ELSE wallet' = None /\ UNCHANGED <<page, user, joining, asked>>
    /\ UNCHANGED <<files, keyFile, made, published, mapped, unsure>>

\* loginWithWalletFile.  A wallet that is open keeps its file locked; when the
\* file cannot be opened nothing changes.
LoginWithWalletFile(a) ==
    /\ page = "main"
    /\ a \in files \ {wallet}
    /\ OpenWallet(a, a)

\* loginWithMnemonic.  Any exception but one is swallowed: then the wallet
\* that was open before, if there was one, is taken for the restored one.
LoginWithMnemonic(a) ==
    /\ page = "main"
    /\ a \in files \cup Foreign
    /\ \E w \in {a, wallet} \ {None} : OpenWallet(a, w)

\* registerUser, up to on_login: the new key pair overwrites that on disk.
RegisterKeys ==
    /\ page = "main"
    /\ wallet # None
    /\ made < MaxKeys
    /\ made' = made + 1
    /\ keyFile' = [keyFile EXCEPT ![wallet] = made + 1]
    /\ OnLogin(wallet, TRUE)
    /\ asked' = wallet
    /\ UNCHANGED <<wallet, files, published, mapped, unsure>>

\* The user has been loaded.  One who registers needs the connection to the
\* daemon; one who logs in needs the private key, without which an exception
\* ends the application (Dies).
Loaded ==
    /\ page = "loading"
    /\ user' = [user EXCEPT !.key = keyFile[user.id]]
    /\ \/ joining /\ page' \in {"put", "main"}
       \/ ~joining /\ keyFile[user.id] # None /\ page' = "home"
    /\ joining' = FALSE
    /\ UNCHANGED <<wallet, files, keyFile, made, asked, published, mapped, unsure>>

\* registerUser: the put of the user object.  Whatever becomes of it, and of
\* its row in the index, the reply is taken for a success; only when it does not
\* parse, the user stays on the main page.
RegisterPut ==
    /\ page = "put"
    /\ \/ /\ published' = published \cup {user}
          /\ mapped' \in {mapped, mapped \cup {user.id}}
       \/ UNCHANGED <<published, mapped>>
    /\ \/ page' = "cart" /\ UNCHANGED unsure
       \/ page' = "main" /\ unsure' = unsure \cup {user.id}
    /\ UNCHANGED <<wallet, files, keyFile, made, user, joining, asked>>

\* registerUser: a row for the cart, and the home page.
RegisterCart ==
    /\ page = "cart"
    /\ page' = "home"
    /\ UNCHANGED <<wallet, files, keyFile, made, user, joining, asked, published, mapped, unsure>>

\* A get of a user object is answered with an error, and its row is removed.
LoseUserRow(a) ==
    /\ page = "home"
    /\ a \in mapped
    /\ mapped' = mapped \ {a}
    /\ UNCHANGED <<page, wallet, files, keyFile, made, user, joining, asked, published, unsure>>

\* A peer's map request for a user object arrives at the daemon.
GainUserRow(a) ==
    /\ \E p \in published : p.id = a
    /\ mapped' = mapped \cup {a}
    /\ UNCHANGED <<page, wallet, files, keyFile, made, user, joining, asked, published, unsure>>

\* The application ends, by itself or not, and is started again.
Dies ==
    /\ page' = "main"
    /\ wallet' = None
    /\ user' = None
    /\ joining' = FALSE
    /\ asked' = None
    /\ UNCHANGED <<files, keyFile, made, published, mapped, unsure>>

SessionNext ==
    \/ \E a \in Accounts : \/ Generate(a) \/ LoginWithWalletFile(a) \/ LoginWithMnemonic(a)
                           \/ LoseUserRow(a) \/ GainUserRow(a)
    \/ RegisterKeys \/ Loaded \/ RegisterPut \/ RegisterCart \/ Dies

\* No fairness: nothing here has to happen.
SessionSpec == SessionInit /\ [][SessionNext]_sessionVars

----------------------------------------------------------------------------
(* Properties.                                                              *)

\* The shape of the state of the wallet, the user manager and the disk.
SessionTypeOK ==
    /\ page \in {"main", "loading", "put", "cart", "home"}
    /\ wallet \in Accounts \cup {None}
    /\ files \subseteq Accounts
    /\ keyFile \in [Accounts -> Keys \cup {None}]
    /\ made \in 0..MaxKeys
    /\ user \in [id : Accounts, key : Keys \cup {None}] \cup {None}
    /\ joining \in BOOLEAN
    /\ asked \in Accounts \cup {None}
    /\ published \subseteq [id : Accounts, key : Keys]
    /\ mapped \subseteq Accounts
    /\ unsure \subseteq Accounts

\* The home page is that of the account the user asked for, with its wallet
\* open and its private key loaded: the wallet that a failed restore leaves open
\* must not become another user's session.  It can only when its own registration
\* was put and reported as failed (loginWithMnemonic, registerUser).
LoggedInAsAsked ==
    page = "home" =>
        /\ user # None
        /\ user.id \in unsure \cup {asked}
        /\ wallet = user.id
        /\ user.key # None
        /\ user.key = keyFile[user.id]

\* The key that others find for an account is the one on this disk: registering
\* overwrites the private key, so it must not happen to an account that has been
\* published, unless that was reported as failed (rsa_save_keys in registerUser
\* comes before the put).
KeysMatchPublished ==
    \A p \in published : p.id \notin Foreign \cup unsure => keyFile[p.id] = p.key
=============================================================================
