------------------------------- MODULE Wallet -------------------------------
(***************************************************************************)
(* The wallet of the application (classes Wallet and WalletManager): how it *)
(* is made, opened or restored on the main page, how it connects to a node, *)
(* and how the wallet page pays from it.                                    *)
(*                                                                          *)
(* The password a wallet is opened with is signed with its spend key, and   *)
(* what the user types before a payment is verified by that signature.  A   *)
(* payment to one recipient is a detached thread that checks the balance    *)
(* and then makes the transaction; to several, it is made by the GUI's      *)
(* thread.  The node's synchronization is a detached thread too, and reads  *)
(* the pointer to the wallet again at each step.                            *)
(*                                                                          *)
(* Who logs in with which wallet is modelled in Session.                    *)
(***************************************************************************)
EXTENDS Naturals, Sequences, FiniteSets

CONSTANTS
    Paths,          \* the wallets there can be, each with its file
    Passwords,      \* what wallets are made with
    NoPassword,     \* the empty one
    Addresses,      \* the addresses that are valid
    Forms,          \* what the user fills in: sequences of an address and an amount
    MaxWallets,     \* bound on the wallets opened
    MaxRequests,    \* bound on the payments asked for
    MaxFunds,       \* bound on what is received
    MaxFee,         \* bound on the fee of a transaction
    Nil

\* mistaken: a restore failed, and this wallet was taken for the restored one.
AllPasswords == Passwords \cup {NoPassword}
Wallets == [path : Paths, password : AllPasswords, number : 1..MaxWallets,
            node : {"none", "connected", "synced"}, mistaken : BOOLEAN]

ASSUME WalletAssumption ==
    /\ NoPassword \notin Passwords
    /\ Nil \notin Passwords \cup {NoPassword}
    /\ \A form \in Forms : /\ form \in Seq([address : STRING, amount : Nat])
                           /\ form # <<>>
    /\ MaxWallets \in Nat /\ MaxRequests \in Nat /\ MaxFunds \in Nat /\ MaxFee \in Nat
    /\ Nil \notin Forms \cup Wallets

VARIABLES
    screen,             \* "main", "home", or "dead": the application has ended
    monero_wallet,      \* monero_wallet_obj
    opened,             \* how many wallets have been opened
    wallet_files,       \* the password of each wallet file on disk
    password_hash,      \* the wallet that signed, and the password
    jobs,               \* the wallets that a sync_job was started for
    funds,              \* received so far, locked, unlocked, and unlocked in all (gained)
    prompt,             \* the form that walletPasswordSendPrompt is open for
    requests,           \* the payments asked for
    chain               \* the transactions relayed

walletVars == <<screen, monero_wallet, opened, wallet_files, password_hash, jobs, funds,
                prompt, requests, chain>>

NewWallet(path, password) ==
    [path |-> path, password |-> password, number |-> opened + 1, node |-> "none",
     mistaken |-> FALSE]

WalletInit ==
    /\ screen = "main"
    /\ monero_wallet = Nil
    /\ opened = 0
    /\ wallet_files = [p \in Paths |-> Nil]
    /\ password_hash = [by |-> Nil, of |-> NoPassword]
    /\ jobs = {}
    /\ funds = [received |-> 0, locked |-> 0, unlocked |-> 0, gained |-> 0]
    /\ prompt = Nil
    /\ requests = <<>>
    /\ chain = <<>>

----------------------------------------------------------------------------
(* The main page.                                                           *)

\* The wallet is destroyed.  A thread that is synchronizing it may crash.
Destroys ==
    screen' \in IF monero_wallet # Nil /\ monero_wallet.number \in jobs
                THEN {screen, "dead"} ELSE {screen}

Opens(path, password) ==
    /\ monero_wallet' = NewWallet(path, password)
    /\ opened' = opened + 1
    /\ password_hash' = [by |-> path, of |-> password]

\* generateWalletKeys and create_random: the open wallet is closed first.
create_random(path, password) ==
    /\ screen = "main" /\ opened < MaxWallets
    /\ wallet_files[path] = Nil
    /\ Destroys
    /\ \/ Opens(path, password) /\ wallet_files' = [wallet_files EXCEPT ![path] = password]
       \/ monero_wallet' = Nil /\ UNCHANGED <<opened, wallet_files, password_hash>>
    /\ UNCHANGED <<jobs, funds, prompt, requests, chain>>

\* Wallet::open, for a login: a wrong password, or a file that is open already, changes
\* nothing.
open(path, password) ==
    /\ screen = "main" /\ opened < MaxWallets
    /\ wallet_files[path] = password
    /\ monero_wallet # Nil => monero_wallet.path # path
    /\ Destroys
    /\ Opens(path, password)
    /\ UNCHANGED <<wallet_files, jobs, funds, prompt, requests, chain>>

\* restore_from_seed: the wallet is in memory, and its password is empty.  When making it
\* throws anything but "Invalid mnemonic", an open wallet stays and signs that password.
restore_from_seed(path) ==
    /\ screen = "main" /\ opened < MaxWallets
    /\ \/ Destroys /\ Opens(path, NoPassword)
       \/ /\ monero_wallet # Nil
          /\ monero_wallet' = [monero_wallet EXCEPT !.mistaken = TRUE]
          /\ password_hash' = [by |-> monero_wallet.path, of |-> NoPassword]
          /\ UNCHANGED <<screen, opened>>
    /\ UNCHANGED <<wallet_files, jobs, funds, prompt, requests, chain>>

\* WalletManager::close: the account of the wallet is not known.
close ==
    /\ screen = "main"
    /\ monero_wallet # Nil
    /\ Destroys
    /\ monero_wallet' = Nil
    /\ UNCHANGED <<opened, wallet_files, password_hash, jobs, funds, prompt, requests, chain>>

\* The user is logged in or registered: from the home page there is no way back.
EnterHome ==
    /\ screen = "main"
    /\ monero_wallet # Nil
    /\ screen' = "home"
    /\ UNCHANGED <<monero_wallet, opened, wallet_files, password_hash, jobs, funds, prompt,
                   requests, chain>>

----------------------------------------------------------------------------
(* The node.                                                                *)

\* daemon_connect_remote and daemon_connect_local, by the button of the settings or five
\* seconds after the login.  Without a connection there is no job, or the local one is
\* waited for.
daemon_connect ==
    /\ screen # "dead"
    /\ monero_wallet # Nil
    /\ monero_wallet.node # "synced"
    /\ monero_wallet' = [monero_wallet EXCEPT !.node = "connected"]
    /\ jobs' = jobs \cup {monero_wallet.number}
    /\ UNCHANGED <<screen, opened, wallet_files, password_hash, funds, prompt, requests, chain>>

\* A job has synchronized its wallet, or an exception ended it.  One whose wallet was
\* destroyed meanwhile may crash, and does when there is no other wallet.
JobEnds(j) ==
    /\ screen # "dead"
    /\ j \in jobs
    /\ jobs' = jobs \ {j}
    /\ IF monero_wallet # Nil /\ monero_wallet.number = j
       THEN /\ monero_wallet' \in {monero_wallet, [monero_wallet EXCEPT !.node = "synced"]}
            /\ UNCHANGED screen
       ELSE /\ screen' \in IF monero_wallet = Nil THEN {"dead"} ELSE {screen, "dead"}
            /\ UNCHANGED monero_wallet
    /\ UNCHANGED <<opened, wallet_files, password_hash, funds, prompt, requests, chain>>

\* The wallet falls behind its node.
FallBehind ==
    /\ screen = "home"
    /\ monero_wallet.node = "synced"
    /\ monero_wallet' = [monero_wallet EXCEPT !.node = "connected"]
    /\ UNCHANGED <<screen, opened, wallet_files, password_hash, jobs, funds, prompt, requests,
                   chain>>

\* Blocks arrive: something is received, or what was locked can be spent.
Receive ==
    /\ screen = "home"
    /\ monero_wallet.node = "synced"
    /\ \/ /\ funds.received < MaxFunds
          /\ funds' = [funds EXCEPT !.received = @ + 1, !.locked = @ + 1]
       \/ /\ funds.locked > 0
          /\ funds' = [funds EXCEPT !.locked = @ - 1, !.unlocked = @ + 1, !.gained = @ + 1]
    /\ UNCHANGED <<screen, monero_wallet, opened, wallet_files, password_hash, jobs, prompt,
                   requests, chain>>

----------------------------------------------------------------------------
(* The wallet page.                                                         *)

verify_password(typed) == password_hash = [by |-> monero_wallet.path, of |-> typed]

\* The button "Transfer".  requirePasswordOnWithdrawal is on and cannot be turned off.
ClickTransfer(form) ==
    /\ screen = "home"
    /\ prompt = Nil
    /\ monero_wallet.node = "synced"
    /\ Len(requests) < MaxRequests
    /\ prompt' = form
    /\ UNCHANGED <<screen, monero_wallet, opened, wallet_files, password_hash, jobs, funds,
                   requests, chain>>

Cancel ==
    /\ screen = "home"
    /\ prompt # Nil
    /\ prompt' = Nil
    /\ UNCHANGED <<screen, monero_wallet, opened, wallet_files, password_hash, jobs, funds,
                   requests, chain>>

\* A payment asked for: where its thread is at and, as ghosts, what the user typed, what
\* the wallet had been opened with, and what had been unlocked when it was checked.
Request(typed, at) ==
    [to |-> prompt, typed |-> typed, password |-> monero_wallet.password,
     mistaken |-> monero_wallet.mistaken, at |-> at, gained |-> 0]

Payable(form) == {i \in DOMAIN form : form[i].address \in Addresses}

TotalOf(form, S) ==
    LET sum[n \in 0..Len(form)] ==
            IF n = 0 THEN 0 ELSE sum[n - 1] + IF n \in S THEN form[n].amount ELSE 0
    IN  sum[Len(form)]

\* A transaction for request n is made and relayed: it spends an amount, and its change is
\* locked for a while.
Relays(n, outs, sweep, spent, gain) ==
    /\ \E left, change \in 0..funds.unlocked :
          /\ spent + change + left = funds.unlocked
          /\ funds' = [funds EXCEPT !.unlocked = left, !.locked = @ + change]
    /\ chain' = Append(chain, [request |-> n, outs |-> outs, sweep |-> sweep, gain |-> gain])

\* transfer(address, amount), up to the detached thread.
TransferOne(typed) ==
    /\ requests' = Append(requests, Request(typed, "checking"))
    /\ UNCHANGED <<screen, funds, chain>>

\* Faulty: a recipient whose address is not valid keeps those after it from being paid.
TransferUpToInvalid(typed) ==
    LET total == TotalOf(prompt, DOMAIN prompt)
        valid == {i \in DOMAIN prompt : \A j \in 1..i : j \in Payable(prompt)}
    IN  /\ requests' = Append(requests, Request(typed, "over"))
        /\ \/ (funds.unlocked < total \/ valid = {}) /\ UNCHANGED <<screen, funds, chain>>
           \/ /\ funds.unlocked >= total /\ valid # {}
              /\ \E fee \in 0..MaxFee : Relays(Len(requests) + 1, [i \in valid |-> prompt[i]], FALSE,
                                                TotalOf(prompt, valid) + fee, 0)
              /\ UNCHANGED screen

\* transfer(payment_addresses), on the GUI's thread: the total counts every recipient, the
\* transaction pays those with a valid address.  When it cannot be made, the exception
\* ends the application.
TransferMany(typed) ==
    LET total == TotalOf(prompt, DOMAIN prompt)
        valid == Payable(prompt)
    IN  /\ requests' = Append(requests, Request(typed, "over"))
        /\ \/ (funds.unlocked < total \/ valid = {}) /\ UNCHANGED <<screen, funds, chain>>
           \/ /\ funds.unlocked >= total /\ valid # {}
              /\ \/ screen' = "dead" /\ UNCHANGED <<funds, chain>>
                 \/ /\ \E fee \in 0..MaxFee :
                          Relays(Len(requests) + 1, [i \in valid |-> prompt[i]], FALSE,
                                 TotalOf(prompt, valid) + fee, 0)
                    /\ UNCHANGED screen

\* The prompt's "OK", with the password that verifies.  The wallet was synced when the
\* prompt opened; if it is not any more, the exception ends the application.
Confirm(typed) ==
    /\ screen = "home"
    /\ prompt # Nil
    /\ verify_password(typed)
    /\ \/ monero_wallet.node # "synced" /\ screen' = "dead" /\ UNCHANGED <<funds, requests,
                                                                           chain>>
       \/ monero_wallet.node = "synced" /\ Len(prompt) = 1 /\ TransferOne(typed)
       \/ monero_wallet.node = "synced" /\ Len(prompt) > 1 /\ TransferMany(typed)
    /\ prompt' = Nil
    /\ UNCHANGED <<monero_wallet, opened, wallet_files, password_hash, jobs>>

----------------------------------------------------------------------------
(* The thread of a payment to one recipient.                                *)

Moves(n, from, to) ==
    /\ screen = "home"
    /\ n \in DOMAIN requests
    /\ requests[n].at = from
    /\ requests' = [requests EXCEPT ![n].at = to, ![n].gained = funds.gained]
    /\ UNCHANGED <<screen, monero_wallet, opened, wallet_files, password_hash, jobs, prompt>>

Recipient(n) == requests[n].to[1]

\* The recipient's address is not valid, there is nothing to send, or too little of it.
Refused(r) == Payable(<<r>>) = {} \/ r.amount = 0 \/ funds.unlocked < r.amount

\* The address and the balance.  An amount that is the whole balance is swept.
CheckTransfer(n) ==
    /\ n \in DOMAIN requests
    /\ \/ Refused(Recipient(n)) /\ Moves(n, "checking", "over")
       \/ /\ ~Refused(Recipient(n))
          /\ funds.unlocked = Recipient(n).amount
          /\ Moves(n, "checking", "sweeping")
       \/ /\ ~Refused(Recipient(n))
          /\ funds.unlocked > Recipient(n).amount
          /\ Moves(n, "checking", "creating")
    /\ UNCHANGED <<funds, chain>>

\* create_tx and relay_tx.  Nobody looks at an exception.
CreateTransfer(n) ==
    /\ Moves(n, "creating", "over")
    /\ \/ UNCHANGED <<funds, chain>>
       \/ \E fee \in 0..MaxFee :
             Relays(n, [i \in {1} |-> Recipient(n)], FALSE, Recipient(n).amount + fee, 0)

\* sweep_unlocked: whatever is unlocked by now, the fee deducted.
SweepTransfer(n) ==
    /\ Moves(n, "sweeping", "over")
    /\ \/ UNCHANGED <<funds, chain>>
       \/ \E fee \in 0..MaxFee :
             /\ funds.unlocked > fee
             /\ Relays(n, [i \in {1} |-> [Recipient(n) EXCEPT !.amount = funds.unlocked - fee]], TRUE,
                       funds.unlocked, funds.gained - requests[n].gained)

WalletNext ==
    \/ \E p \in Paths, x \in Passwords : create_random(p, x) \/ open(p, x)
    \/ \E p \in Paths : restore_from_seed(p)
    \/ close
    \/ EnterHome
    \/ daemon_connect
    \/ \E j \in 1..MaxWallets : JobEnds(j)
    \/ FallBehind
    \/ Receive
    \/ \E form \in Forms : ClickTransfer(form)
    \/ Cancel
    \/ \E x \in Passwords \cup {NoPassword} : Confirm(x)
    \/ \E n \in 1..MaxRequests : CheckTransfer(n) \/ CreateTransfer(n) \/ SweepTransfer(n)

WalletSpec == WalletInit /\ [][WalletNext]_walletVars

----------------------------------------------------------------------------

Requests == [to : Forms, typed : AllPasswords, password : AllPasswords, mistaken : BOOLEAN,
             at : {"checking", "creating", "sweeping", "over"}, gained : Nat]

WalletTypeOK ==
    /\ screen \in {"main", "home", "dead"}
    /\ monero_wallet \in Wallets \cup {Nil}
    /\ screen = "home" => monero_wallet # Nil
    /\ opened \in 0..MaxWallets
    /\ wallet_files \in [Paths -> Passwords \cup {Nil}]
    /\ password_hash \in [by : Paths \cup {Nil}, of : AllPasswords]
    /\ jobs \in SUBSET (1..MaxWallets)
    /\ funds \in [received : Nat, locked : Nat, unlocked : Nat, gained : Nat]
    /\ prompt \in Forms \cup {Nil}
    /\ requests \in Seq(Requests)
    /\ Len(requests) + (IF prompt = Nil THEN 0 ELSE 1) <= MaxRequests

\* A transaction x was asked for by r: the user typed the password that the wallet was
\* opened with (or the empty one, after a restore that failed), and it pays the
\* recipients of r that have a valid address, all of them, what r says.  Where the whole
\* balance was swept, the recipient got no more than was asked for and unlocked since.
Fulfils(x, r) ==
    /\ r.typed = IF r.mistaken THEN NoPassword ELSE r.password
    /\ DOMAIN x.outs = Payable(r.to)
    /\ \A i \in DOMAIN x.outs :
          /\ x.outs[i].address = r.to[i].address
          /\ IF x.sweep THEN x.outs[i].amount <= r.to[i].amount + x.gain
             ELSE x.outs[i].amount = r.to[i].amount

\* What leaves the wallet was asked for, once (walletPasswordSendPrompt, transfer).
PaidAsConfirmed ==
    /\ \A t \in DOMAIN chain : /\ chain[t].request \in DOMAIN requests
                              /\ Fulfils(chain[t], requests[chain[t].request])
    /\ \A t, u \in DOMAIN chain : chain[t].request = chain[u].request => t = u
=============================================================================
