------------------------------ MODULE Messages ------------------------------
(***************************************************************************)
(* The private messages of one user, Me: how others write them from her     *)
(* profile page (User::send_message) and how her messages page reads them   *)
(* (UserManager::getMessages).                                              *)
(*                                                                          *)
(* A message is encrypted with the public key that the profile page carries *)
(* and signed with its sender's wallet.  It is put in the DHT, a row of Me's *)
(* index maps it to her, and her page decrypts it with the private key of   *)
(* the session.  Registering anew makes another pair of keys, while old     *)
(* profiles, and messages for the old key, are still around.                *)
(***************************************************************************)
EXTENDS Naturals, Sequences, FiniteSets, Functions

CONSTANTS
    Me, Writers,        \* whose messages these are, and the other users
    Texts, TooLong,     \* what is written, and what RSA-OAEP has no room for
    Blank,              \* the empty string
    MaxMessages,        \* bound on the messages sent
    MaxPairs,           \* bound on the pairs of keys generated
    MaxTime             \* bound on the clocks of the senders

ASSUME MessagesAssumption ==
    /\ Me \notin Writers
    /\ TooLong \subseteq Texts
    /\ Blank \notin Texts \cup Writers
    /\ Texts \cap Writers = {}
    /\ MaxMessages \in Nat /\ MaxPairs \in Nat \ {0} /\ MaxTime \in Nat

VARIABLES
    session,        \* the private key of Me's session, by the number of its pair
    profiles,       \* the public keys in the user objects of Me in the DHT
    mails,          \* the messages put
    written,        \* ghost: who wrote each, what, and for which key
    held,           \* the messages that the DHT holds
    indexed,         \* the messages that Me's index maps to her
    box,            \* MessagesPage: messages_model
    thread          \* MessagesPage: the model of messageList

messageVars == <<session, profiles, mails, written, held, indexed, box, thread>>

Users == Writers \cup {Me}
Pairs == 1..MaxPairs
Ids == 1..MaxMessages

----------------------------------------------------------------------------

\* rsa_public_encrypt: a text that is too long gives the empty string.
NoCipher == [pair |-> 0, plain |-> Blank]
Cipher(pair, text) ==
    IF text \in TooLong THEN NoCipher ELSE [pair |-> pair, plain |-> text]

\* rsa_private_decrypt: a cipher for another key gives the empty string.
Plain(pair, cipher) ==
    IF cipher.pair = pair THEN cipher.plain ELSE Blank

\* sign_message and verify_message of the wallets.
Signed(user, text) == [by |-> user, text |-> text]
Verifies(signature, user, text) == signature = Signed(user, text)

\* decrypt_message, and what getMessages makes of a message.
Opened(i) ==
    LET sender == Plain(session, mails[i].sender_id)
        content == Plain(session, mails[i].content)
    IN  [key |-> i, sender_id |-> sender, content |-> content,
         timestamp |-> mails[i].timestamp,
         verified |-> Verifies(mails[i].signature, sender, content)]

\* The arrangements of the elements of S, those in increasing order, and the messages
\* from the newest to the oldest.
Arranged(S) == Bijection(1..Cardinality(S), S)
Increasing(S) == {f \in Arranged(S) : \A i, j \in DOMAIN f : i < j => f[i] < f[j]}
NewestFirst(S) ==
    {f \in Arranged(S) : \A i, j \in DOMAIN f :
        i < j => mails[f[i]].timestamp >= mails[f[j]].timestamp}

\* getMessages(sender_id, messages).
OfSender(s, all) ==
    {[k \in DOMAIN f |-> all[f[k]]] : f \in Increasing({i \in DOMAIN all : all[i].sender_id = s})}

----------------------------------------------------------------------------

MessagesInit ==
    /\ session = 1
    /\ profiles = {1}
    /\ mails = <<>> /\ written = <<>>
    /\ held = {} /\ indexed = {}
    /\ box = <<>> /\ thread = <<>>

\* Me registers her wallet's address once more, with a new pair of keys.  Whether its
\* public half is published is up to the put (Session); the pages are gone.
NewKeys ==
    /\ session < MaxPairs
    /\ session' = session + 1
    /\ profiles' \in {profiles, profiles \cup {session + 1}}
    /\ box' = <<>> /\ thread' = <<>>
    /\ UNCHANGED <<mails, written, held, indexed>>

\* Faulty: a content that cannot be encrypted is sent all the same.
SendUnencrypted(u, text) ==
    /\ u # Me
    /\ Len(mails) < MaxMessages
    /\ \E p \in profiles :
        /\ \E t \in 0..MaxTime :
              mails' = Append(mails, [sender_id |-> Cipher(p, u), content |-> Cipher(p, text),
                                      signature |-> Signed(u, text), timestamp |-> t])
        /\ written' = Append(written, [by |-> u, text |-> text, for |-> p])
    /\ held' \in {held, held \cup {Len(mails) + 1}}
    /\ UNCHANGED <<session, profiles, indexed, box, thread>>

\* send_message, from the dialog of a profile page, which shows any of the user objects, or
\* showed it long ago (getUser).  One cannot write to oneself, and a content that cannot
\* be encrypted is not sent.  Nobody looks at what became of the put.
Send(u, text) ==
    /\ u # Me
    /\ Len(mails) < MaxMessages
    /\ \E p \in profiles :
        /\ Cipher(p, text) # NoCipher
        /\ \E t \in 0..MaxTime :
              mails' = Append(mails, [sender_id |-> Cipher(p, u), content |-> Cipher(p, text),
                                      signature |-> Signed(u, text), timestamp |-> t])
        /\ written' = Append(written, [by |-> u, text |-> text, for |-> p])
    /\ held' \in {held, held \cup {Len(mails) + 1}}
    /\ UNCHANGED <<session, profiles, indexed, box, thread>>

\* A map request for a message arrives at Me's daemon.
MapMessage(i) ==
    /\ i \in DOMAIN mails \ indexed
    /\ indexed' = indexed \cup {i}
    /\ UNCHANGED <<session, profiles, mails, written, held, box, thread>>

\* A message expires, or its holders leave.
LoseMessage(i) ==
    /\ i \in held
    /\ held' = held \ {i}
    /\ UNCHANGED <<session, profiles, mails, written, indexed, box, thread>>

\* getMessages, for the messages page: of the messages indexed, those in got are found, the gets of those
\* in lost end in an error and their rows are removed, and the others have no answer
\* that parses.  A verification for no address may throw, which ends the application.
OpenMessages ==
    /\ \E got \in SUBSET (indexed \cap held) :
        /\ \E lost \in SUBSET (indexed \ got) : indexed' = indexed \ lost
        /\ \E f \in NewestFirst(got) :
            \/ box' = [k \in DOMAIN f |-> Opened(f[k])]
            \/ (\E i \in got : Opened(i).sender_id = Blank) /\ box' = <<>>
    /\ IF box' = <<>> THEN thread' = <<>> ELSE thread' \in OfSender(box'[1].sender_id, box')
    /\ UNCHANGED <<session, profiles, mails, written, held>>

\* Another sender of the list is picked.
PickSender(k) ==
    /\ k \in DOMAIN box
    /\ thread' \in OfSender(box[k].sender_id, box)
    /\ UNCHANGED <<session, profiles, mails, written, held, indexed, box>>

MessagesNext ==
    \/ NewKeys
    \/ \E u \in Users, text \in Texts : Send(u, text)
    \/ \E i \in Ids : MapMessage(i) \/ LoseMessage(i)
    \/ OpenMessages
    \/ \E k \in Ids : PickSender(k)

MessagesSpec == MessagesInit /\ [][MessagesNext]_messageVars

----------------------------------------------------------------------------

Ciphers == [pair : Pairs, plain : Texts \cup Users]
Mail == [sender_id : Ciphers, content : Ciphers, timestamp : 0..MaxTime,
         signature : [by : Users, text : Texts]]
Writing == [by : Writers, text : Texts \ TooLong, for : Pairs]

MessagesTypeOK ==
    /\ session \in Pairs
    /\ profiles \in SUBSET Pairs
    /\ mails \in Seq(Mail) /\ Len(mails) <= MaxMessages
    /\ written \in Seq(Writing)
    /\ held \in SUBSET DOMAIN mails /\ indexed \in SUBSET DOMAIN mails

\* A message is shown with its sender and its content exactly if it was written for the key
\* of the session: then both are what its writer, another user, sent, and the signature
\* says so; otherwise it is shown with neither, unverified (decrypt_message, getMessages).
ShownAsWritten ==
    \A k \in DOMAIN box :
        LET e == box[k]  w == written[e.key]
        IN  /\ e.verified <=> w.for = session
            /\ IF w.for = session THEN e.sender_id = w.by /\ e.content = w.text /\ w.by # Me
               ELSE e.sender_id = Blank /\ e.content = Blank

\* The page shows a message once, from the newest to the oldest.
ShownInOrder ==
    \A i, j \in DOMAIN box :
        i < j => box[i].key # box[j].key /\ box[i].timestamp >= box[j].timestamp

\* A thread is all that the page has of one sender, in the page's order.
ThreadIsOfOne ==
    /\ \A k \in DOMAIN thread : \E i \in DOMAIN box : thread[k] = box[i]
    /\ \A k \in DOMAIN thread, i \in DOMAIN box :
          box[i].sender_id = thread[k].sender_id <=> \E j \in DOMAIN thread : thread[j] = box[i]

\* What the messages page shows of a message is what its writer wrote, in the thread of
\* its writer, or nothing of it (send_message, decrypt_message, getMessages).
MessagesReadAsWritten == ShownAsWritten /\ ShownInOrder /\ ThreadIsOfOne
=============================================================================
