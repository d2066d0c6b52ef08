# A TLA+ model of neroshop

neroshop is a decentralised marketplace.  A GUI or console client talks over
TCP on the local host to a daemon; the daemon is one node of a Kademlia-like
DHT that stores users, listings, orders, ratings and messages as signed JSON
values, over I2P, Tor or Reticulum.  This directory holds TLA+ modules that
model the parts of the node and of the application where threads, messages,
processes and time meet, the TLC
configurations that check them on small instances, and proofs, checked by
TLAPS, of the properties for every instance.

Paths below are relative to `src/src/core/` unless they start with `src/`.
`PROJECT.json` is the machine-readable side: components, runs, the source lines
every definition translates, the hazards and the properties that cover them,
the mutants that show each property can fail, findings and theorems.

## 1. Inventory

### 1.1 Components

| Component | Source | State | Operations |
|---|---|---|---|
| request correlation | `protocol/p2p/node.cpp` (`generate_transaction_id`, every `send_*`, the reply branch of the three listeners) | `pending_requests`, one `promise`/`future` per call | register, send, wait, give up, deliver |
| routing table | `protocol/p2p/routing_table.cpp` | 256 buckets of at most 20 nodes, a lock each | `add_node`, `remove_node`, `has_node`, `find_closest_nodes`, `generate_random_node_id` |
| table maintenance | `node.cpp` (`join`, `heartbeat`, `refresh`, `on_ping`, `handle_reticulum_peer_discovered`, `stop_threads`) | `check_counter` of each node, `running`, `cv_mutex` | rounds of two background threads, inserts by others |
| node storage | `node.cpp` (`put`, `set`, `validate`, `cache`, `map`, `remove`, `remove_all`) | `data`, table `hash_table` | put, map, remove, clear, expiry |
| key mapper | `protocol/p2p/key_mapper.cpp` | in-memory maps by category, table `mappings` | `add`, `sync`, `clear_cache` |
| replication and providers | `node.cpp` (`send_put`, `send_get`, `send_get_providers`, `send_remove`, `republish_once`, `add_provider`, `remove_provider(s)`) | `providers`, `data` | store on 3 nodes with replacements, find a provider, fetch |
| DHT RPC dispatch | `protocol/rpc/protobuf.cpp` | none of its own | find_node, get_providers, get, put, map, remove, clear; error otherwise |
| IPC | `src/src/daemon/main.cpp`, `protocol/transport/client.cpp`, `server.cpp`, `src/src/gui/daemon_manager.cpp` | one connection, a byte stream | one request and one reply at a time |
| Tor transport | `node.cpp` (`run_tor`, `send_query`), `network/socks5_client.cpp`, `tor_manager.cpp` | `tor_peers`, `client_buffers`; `torrc`, the Tor process, the hidden services | start Tor, reserve a port, connect, frame, dispatch to the pool |
| I2P transport | `node.cpp` (`run_i2p`), `network/sam_client.cpp` | SAM session, `i2p.key` | load or make a key, create the session, datagrams to the pool |
| Reticulum transport | `node.cpp` (`run_reticulum`, `handle_reticulum_message`), `network/reticulum.cpp`, `tcp_interface.cpp`, `udp_interface.cpp` | the connection and parser of each interface, `reticulum_identity.key` | identity, connect again, read and send frames, handle packets |
| thread pool | `tools/thread_pool.hpp` | a queue and its workers | enqueue, run, stop |
| daemon | `src/src/daemon/main.cpp` | threads for DHT, IPC, RPC | start, join the network, signals |
| cart, order | `market/cart.cpp`, `market/order.cpp` | the cart in memory and in the tables `cart`, `cart_item`; the order under way | load, add, checkout, empty |
| user, seller | `market/user.cpp`, `seller.cpp`, `src/src/gui/user_manager.cpp` | favorites, ratings, the user's listings | one or more IPC calls each, and statements |
| session | `src/src/gui/backend.cpp`, `wallet/wallet.cpp` | the wallet that is open, the key file, the user | register, log in by file or by seed |
| listing, product, escrow | `market/*.cpp` | values | accessors; escrow is a stub |
| serializer, timestamps | `protocol/p2p/serializer.cpp`, `tools/timestamp.cpp` | none | JSON values, comparison of dates |
| database | `database/sqlite3/sqlite3.cpp` | SQLite file | single statements |
| price sources | `price_api/`, `src/src/gui/currency_rate_provider.cpp` | the rates of the pairs asked for, the bindings on them | ask eight sources in order, replace all rates, ask again |
| pages of listings | `src/src/gui/backend.cpp` (`getListings...`, `sortBy`), `src/qml/pages/` | the model of the page on screen, two switches | fill, hide, sort, toggle |
| private messages | `market/user.cpp` (`send_message`), `src/src/gui/user_manager.cpp` (`getMessages`), `src/qml/pages/subpages/MessagesPage.qml` | the session's private key, the page with the thread that is open | send, open the page, pick a sender |
| wallet | `wallet/wallet.cpp`, `src/src/gui/wallet_manager.cpp`, `src/qml/pages/subpages/WalletPage.qml` | the wallet, `password_hash`, threads that synchronize it or pay from it | create, open, restore, close, connect, transfer |
| form of a listing | `src/qml/components/ProductDialog.qml`, `src/src/gui/backend.cpp`, `image_provider.cpp` | pictures and variations of the form, the datastore, a cache of images | choose and remove pictures, submit, show |
| cryptography | `crypto/` | none | encrypt, sign, hash |
| settings, scripts | `settings.cpp`, `tools/script.cpp` | values read at start-up | read, write |
| GUI, console | `src/src/gui/`, `src/src/console/` | Qt objects | screens and forms over the IPC client |
| legacy RPC | `protocol/rpc/msgpack.cpp`, `json_rpc.cpp` | none | other encodings of the dispatch |

### 1.2 How they interact

```
 GUI / console -- TCP, one request at a time --> IPC thread --+
                                                              |
 peers -- I2P / Tor / Reticulum --> listener --> pool threads-+--> dispatch
                                       |                           |
                    replies by tid     v                           v
   send_* calls  <------------  pending_requests     data, hash_table, mappings
        |                                                     routing table
        +-- raw Node pointers <-- find_node <---------------------^   ^
                                                heartbeat, refresh ---+
```

- A `send_*` call runs on whichever thread needs it: IPC, a pool worker,
  `heartbeat`, `refresh` or the thread in `join`.  It meets the listener in
  `pending_requests` only.
- `heartbeat` is the one thread that destroys nodes.  `refresh`, `join`,
  `on_ping` and the Reticulum handler add them.  `find_node` hands out raw
  pointers.
- The dispatch of a `put` on the IPC thread goes on to `cache`, `map` and the
  replication; of a peer's `put` on a pool thread it is `put` alone, followed
  by a `map` request of the peer.
- Client, daemon and node share the SQLite file; statements may fail when
  another process has it locked.  The application reads the daemon's index
  through a connection of its own, and removes a key from it, by a `remove`
  request, whenever a `get` of that key is answered with an error.
- The application works on one thread: an operation is a sequence of calls to the
  daemon and statements, between any two of which it may die.
- A worker thread of the application asks the price sources; its results come back
  as an event.  Pages call the provider for rates, which enters pairs it does not know.
- A peer answers a query over a connection it opens itself, so that requests and
  replies between two nodes travel on different sockets.

### 1.3 What is hard, and what makes each component correct

| Component | Hard behaviour | Correct when |
|---|---|---|
| request correlation | replies lost, late, doubled; a reply between the end of `wait_for` and the erase; 16-bit ids that collide | a call gets the reply to its own query or none, no promise leaks, no waiter is stranded, every call returns |
| routing table | callers test `has_node` long before they add; the id of the node itself; order of the scores | each node once, in its own bucket, within the size; answers are the closest nodes |
| maintenance | evictions during others' network waits; rounds as long as the network is slow; a stop signal at any time | no dead pointer is used, silent peers are evicted, the threads stop |
| node storage | `put` decides in three critical sections; expiry, removal and restart between them | an old version never replaces a newer one, whatever interleaves; requests end |
| key mapper | copy, SELECT, INSERT, clear, each separate; maps shared by threads | an indexed value is found, rows do not multiply, nothing is lost |
| replication | nodes that store but do not answer, or store late; too few candidates; nodes recognised by pointer while the table changes | an acknowledged copy stays, copies are counted right, and nothing is called missing that a node heard from has |
| IPC | a client that gives up after five seconds while the daemon still works; messages longer than a buffer; one side gone | a reply is its own call's unless an earlier call gave up; a key leaves the index only after an error; the daemon ends in order |
| Tor transport | two threads connecting to one peer; sockets closed while `select` runs; descriptors used again | nobody closes another's socket, streams do not mix, the listener goes on |
| start of a daemon | another daemon on the host, a Tor process left behind, a key file half written | it is reached at the address it gives out, keeps its identity, and comes up |
| I2P, Reticulum transports | threads that wait inside a callback while the loop ends; a stream cut anywhere and a connection made again | a query read is answered; no bytes of one connection reach the next |
| thread pool | every worker waiting for a reply that is queued behind it | it ends when told to |
| session | a wallet left open by a failed restore; a key file overwritten by a registration whose outcome is unknown | the home page is the account asked for, and the key on disk is the published one |
| cart, order | retries of an order whose outcome is unknown; a cart kept twice; stock read before it is used | memory and tables agree, no item ordered twice unnoticed, none lost |
| price sources | pairs entered while an update runs; sources that answer zero, or in another currency | a rate is only replaced by an update that asked for it, and a pair on screen is asked for |
| pages of listings | a page filled at old rates beside prices that follow the new ones; switches toggled later | nothing hidden is shown, the order is that of the prices shown, and these are current |
| private messages | key pairs that are replaced while old profiles, messages and index rows are around; one page and one key for messages of different keys | a message is shown as its writer wrote it, in the writer's thread, or not at all |
| wallet | threads that use the wallet through a pointer that another call replaces; a balance that changes between the check and the transaction | what leaves the wallet was asked for with its password, once |
| form of a listing | one handler that uploads, lists, saves and clears, and may stop half-way; pictures of one name; a cache that deletes what it cannot hold | a listing and its pictures are what the form held, and it is made once |
| ratings | the earlier rating is looked for through an index that forgets | one rating each |

The hazards, each at its line and with the properties that cover it, are in
`PROJECT.json`.

## 2. Modules

| Module | What it is |
|---|---|
| `PendingRequests` | request correlation: calls, ids, promises, listener, lossy network |
| `RoutingTable` | the routing table as a value with its operations (no variables) |
| `Maintenance` | the threads on one routing table (extends `RoutingTable`) |
| `KeyMapper` | the index: maps, rows, the steps of `add` and `sync` |
| `NodeStore` | storage and requests of one node (extends `KeyMapper`) |
| `VersionedStore` | abstract specification of the hash table |
| `Replication` | one key at this node and its peers: `send_put`, `send_get`, providers |
| `Ipc` | the application's client and the daemon's IPC thread over one byte stream |
| `Session` | registration and login: wallet, key file, user object |
| `Shop` | the home page: cart, orders, favorites, ratings, listings, screens (extends `Session`) |
| `TorPeers` | the Tor listener, its pool, the sockets of both directions |
| `NodeStart` | the start and the end of the daemons of one host: Tor, ports, key files |
| `ReticulumLink` | the interfaces under Reticulum: a connection made again and again, its frames |
| `Datagrams` | the loops of `run_i2p` and `run_reticulum` and the pool of the former |
| `Prices` | the provider of exchange rates and the sources behind it |
| `Catalogue` | the pages of listings, their order and their switches (extends `Prices`) |
| `Messages` | the private messages of one user, from the senders' dialog to her page |
| `Wallet` | the application's wallet: main page, node, payments |
| `ListingForm` | the dialog for products, the datastore of pictures, the image provider |
| `MCNetwork`, `MCNode`, `MCMarket`, `MCIpc`, `MCTorPeers`, `MCDesktop` | what the runs check: instances, and machines that share no state put beside each other |
| `MCMaintenance`, `MCNodeStore`, `MCReplication`, `MCShop` | the two parts of `MCNode` and those of `MCMarket`, in which the properties of section 5 are checked |
| `Network_proofs` | theorems on `PendingRequests`, `NodeStart`, `Datagrams` and `MCNetwork` (extends `ReticulumLink_proofs`) |
| `Node_proofs` | theorems on `RoutingTable`, `Maintenance`, `KeyMapper`, `NodeStore` and `MCNode` |
| `Shop_proofs` | theorems on `Session` and `Shop` |
| `Desktop_proofs` | theorems on `Prices`, `Catalogue`, `Messages`, `Wallet`, `ListingForm` and `MCDesktop` |
| `ReticulumLink_proofs`, `Replication_proofs`, `Ipc_proofs`, `TorPeers_proofs` | theorems on the module of that name |

Operators named in a comment as a *Variant* or *Faulty*, such as `EraseNothing`, take part
in no specification.  Each states one plausible mistake in the definition that
follows it; `PROJECT.json` pairs it with the property that detects it.

### 2.1 PendingRequests

A member of `Requests` is one call of a `send_*` function, on any thread.

| TLA+ | Code |
|---|---|
| `pending` | `pending_requests`, under `pending_mutex` |
| `future[r]` | the shared state of the call's future: unset, broken, or the call whose reply it holds |
| `Register` | drawing a tid and `pending_requests[tid] = std::move(promise)`: assigning over an entry breaks the promise there |
| `SendQuery`, `SendQueryThrows` | `send_query` and the catch around it |
| `WaitExpires`, `GiveUp` | `wait_for` returns timeout; *later*, under the lock, the erase |
| `Collect` | `future.get()`: the reply, or `future_error` |
| `PeerResponds`, `PeerRefuses` | the other node's dispatch; an error carries no tid |
| `DeliverResponse` | reply branch of the listener; a reply stays deliverable, so it may come twice |

Each step is one critical section or one wait, which is the code's granularity.
A reply is named by its call: the properties only tell whose reply it is.

### 2.2 RoutingTable and Maintenance

A table maps a bucket index to a sequence of addresses.  An id is a function
`1..Bits -> {0,1}`, an arbitrary function of the address, so that no property
depends on SHA3.  `BitIndex` is `xor_distance_bit_index`: the length of the
common prefix, `Bits` for equal ids.  Each member function of the table locks a
bucket for its whole body, so that one operator is one atomic step.
`FindClosest` returns the *set* of results the sort may give.

In `Maintenance`, `hb` and `rf` are the program counters and locals of the two
threads: `top` before the lock, `asleep` in `cv.wait_for`, `round` after it;
`verdict` is the point of `heartbeat` between the counter's update and
`is_dead()`.  `look` is a thread in `send_get_providers` with its vector of raw
pointers; `freed` (history) collects those whose object `remove_node` has
destroyed.  Reading such an object is undefined, so `LookupAsk` lets it appear
active or not.  `has_node` of this node's own id reads past the array, and a
reply may therefore keep it or not (`FindNodeReply`).  `silent` is the set of
peers that no longer answer.  The clock is abstracted: a wait may end, and a
bucket be an hour old, at any time.

### 2.3 KeyMapper, NodeStore, VersionedStore

`KeyMapper` has the steps of `add` and `sync`: `Add` (push under the lock),
`Copy`, then for each entry of the copy `Select` and, when there is no row,
`Insert` or `InsertFails` (the result is not looked at), and `ClearCache`.  The
code repeats the loop for fifteen maps of six categories; a value belongs to
one category and all are cleared together, so that one set stands for them.

`NodeStore` runs requests on `Threads`, one of which is the IPC thread:

| TLA+ | Code |
|---|---|
| `PutBegin`, `Validate`, `Write` | the three critical sections of `put`: duplicate test, `validate`, the write with `set`'s verdict |
| `Verdict` | `set`: another owner's value is refused, one that is not newer is dropped although `put` returns true |
| `Cache`, `MapAdd`, `MapSync` | what the client's put goes on to |
| `MapBegin` | a peer's `map` query: validated, then indexed |
| `RemoveBegin`, `EraseData`, `EraseCached`, `EraseRows` | `remove` of the client, and what `validate` deletes when the object has expired |
| `Clear` | `remove_all` |
| `Expire`, `Restart` | the clock; the daemon's end at any point: only the database remains |

Its state, `storeVars`, and that of `Maintenance` are disjoint, and `MCNode` puts the
two beside each other: `machine` says whose behaviour is checked.

`validate` may refuse any value for its form or its signature, which `Validate`
leaves open.  Two versions of an object carry different signatures,
so that the signature test of `set` never decides.

`VersionedStore` says what the hash table promises: a value appears, is replaced
only by a newer version of the same object, may be erased.  `NodeStore` is
shown to implement it with `store <- data`.

### 2.4 Replication

One key whose value is one owner's object: versions are numbers, 0 is none, and
`Newest` is what `put` and `set` make of two of them.  `put` and `get` hold the
locals of the two calls, which exclude each other because both run on the IPC
thread.

| TLA+ | Code |
|---|---|
| `FindNode` | `find_node`: as many nodes as asked for and available, any of them, since the ranking is the subject of `RoutingTable` |
| `PutBegin`, `Ask`, `PutAnswered`, `PutTimesOut` | the loop of `send_put` over the closest nodes, and again over the replacements (`stage`) |
| `Replace`, `PutReturns` | the decision after the loop: enough answers, a table too small, too few candidates, or exactly the missing number |
| `put.near`, `put.gone` | nodes whose *object* is in `closest_nodes`, and objects destroyed while still to be used: pointers are compared, so a node added again is a new one, or passes for an old one when the allocator reuses its address |
| `PeerPuts`, `PeerPutsLate` | the dispatch at the peer, in time or after the caller has given up |
| `GetBegin`, `GetAnswered`, `GetUnanswered` | `send_get` over the known providers, and again over those received |
| `AskForProviders`, `LookupPeers` | `send_get_providers` |
| `Announced` | `on_map` |
| `NodeAdded`, `NodeEvicted`, `Restart` | the other threads, as seen from here |

An error reply carries no tid and so reaches no call: a refusal is a timeout.
`acked`, `lost`, `steady` and `owed` are history and decide nothing, except that
an address is reused only after something was destroyed (`steady` is false).

### 2.5 Ipc

The connection is a stream of parts, since neither side frames its messages: a
message that fits the 4096-byte buffer of one `recv` is `whole`, a longer one is a
`head` and a `tail`.  A `recv` takes what has arrived, up to the first head.

| TLA+ | Code |
|---|---|
| `Connect`, `Disconnect` | `DaemonManager`, `accept` in the server, `shutdown` and `close` |
| `Send` | a call of `Client`: `get`, `put`, `remove`, `set` |
| `Receive`, `Fill`, `GiveUp` | `Client::receive`: a buffer that is full makes it wait for more, five seconds without a byte make it give up |
| `ReturnReply` | what the callers do: a `get` answered with an error is followed by a `remove` of its key (`cl.must`) |
| `TakeRequest`, `RecvFails`, `EndOfStream` | `Server::receive` in the loop of `ipc_server`; at the end of the stream `republish_once` and `raise(SIGINT)` |
| `ProcessGarbage`, `ProcessGet`, ... | `protobuf_process` and the verdict it sends: an error; a response to a method that has been carried out (`done`) or only in part (`partial`); a response to no method (`bare`).  It has no branch for `set` |
| `SendReply` | `Server::send`, and the test of the node's flag |
| `InstallHandler`, `Interrupt` | `Node::run` takes over SIGINT from `main`, which only sets a flag nobody looks at |

`clientRst` and `serverRst` are the resets of TCP: a side that sends to one that
has gone draws a reset, and the next send raises SIGPIPE, which ends a program
that does not handle it.  A parser of Protocol Buffers takes a concatenation of
messages for the last of them and refuses a part of one, which decides whose
reply a call gets when several have arrived.  A reply that is complete because
the connection was closed is the call kept in `cl.got`.

A `remove` runs up to two DELETEs, each after a SELECT that looks for the row.  The code of
the last one replaces that of the first, and a SELECT that fails counts as one that finds
nothing.  So `ProcessRemove` may answer `partial`: without an error although a row is left
in `hash_table` or in the index.  A `put` does not: every code but `Success` makes an error.

Left out: messages whose length is a multiple of the buffer; a second application,
which would wait in the listen backlog; the retry of
`DaemonManager::onConnectionFailure`; a signal before `Node::run`.

### 2.6 Session and Shop

`Session` is the way from the main page to the home page: the wallet page
(`Generate`), a login by file or by seed (`LoginWithWalletFile`,
`LoginWithMnemonic`), a registration, which writes the key file, loads the user,
puts the user object and makes the cart (`RegisterKeys`, `Loaded`,
`RegisterPut`, `RegisterCart`), and the end of the application (`Dies`).
`asked` and `unsure` are history: the account the user asked for, and the
accounts whose registration was put and reported as failed.

`Shop` adds what is done at the home page.  Its steps of the session are those
of `Session` with the loading of cart and favorites (`SignIn`, `LoadItem`,
`FinishLoading`, `MakeCart`).

| TLA+ | Code |
|---|---|
| `Lookup` | `get_listing_object`: the value, an error and the key removed, or nothing in time |
| `LoadItem` | the loop of `Cart::load`, in which an erase makes the range-for skip the next item |
| `Add`, `PutInCart` | `Cart::add`: the limits are tested in memory, quantities are summed in the table |
| `CreateOrder`, `AskSeller`, `PutOrder`, `FinishOrder` | `Order::create_order`, `create_order_batch`, `Cart::empty`: one order for each seller, one put each; the calls under way are the stack `placing` |
| `Rate` | `rate_seller`, `rate_item`: ask for all ratings of the subject, find one's own |
| `ListItem`, `DelistItem`, `SetStockQuantity` | `Seller`; `delist_item` takes the key from the index, `set_stock_quantity` is refused by the daemon |
| `Scan`, `GetListings`, ... | the screens of `Backend` |
| `SellerSets`, `GainRow` | the network: another seller's newer value, a peer's `map` |

What the code does that a reader may not expect, and the model therefore does:
nothing of `Client::set` reaches the daemon's store; the cart of a user whose
first item creates it has no id in memory, and `Cart::empty` then does nothing;
asking for more than the stock of an item that is not in the cart adds nothing
and writes past the end of a vector, which the model gives no effect or the end
of the application; an order whose reply does not parse, or with an item whose lookup
was lost, leaves the cart as it was although it has been put: printing the item
throws, which `User::create_order` catches; `create_order` asks for prices before it
puts and again before it empties the cart, and every price source waits in an event
loop of its own, so that the user goes on clicking: what is added meanwhile (`late`)
leaves the cart without being ordered, or stops the order after its put, and an order
placed meanwhile holds the same items; an item of which more is asked for than there is
gets the whole stock, whatever else is in the cart; a rating found
returns without finalizing the statement, which keeps the connection at the
state of the database it had (`snapshot`).

Left out: messages, wallet
synchronisation and transfers, login with keys or hardware, which are stubs.

### 2.7 TorPeers

`listener` is the thread in `run_tor`, `threads` are the workers of the pool.
`owner` and `link` are the kernel's side: who opened a descriptor and what
waits in its socket.  A message arrives in two halves, so that a receive may
end inside one.

| TLA+ | Code |
|---|---|
| `Poll`, `Select`, `Accept`, `Lock`, `Read`, `Remove` | the loop of `run_tor`; `tor_peers_mutex` is held from `Lock` to `Remove` |
| `Receive`, `Lose` | `recv` of one socket, the cutting into messages (`Frames`), the pool |
| `Return` | the destructor of `ThreadPool`: the workers finish the queue |
| `Take` | a worker runs `handle_tor_message`; a reply wakes its call |
| `Reuse`, `NoConnection`, `Open`, `Connect`, `Store` | Tor branch of `send_query` |
| `SendKills` | SIGPIPE, or the exception of a send that nobody catches on a worker |
| `Ask`, `WaitEnds` | `send_map_v2`, called by `on_ping` on the worker that has answered: one request for each key |
| `Deliver`, `HangUp` | the other node, or Tor |

The kernel gives the lowest free descriptor.  `run_tor` closes the socket of a
disconnected peer twice, the second time when it removes the peer: in between
another thread may have been given the same descriptor.  Then the program closes
a socket that is not its own; the model ends there (`fate = "wrecked"`).  A socket
closed while the listener is about to poll it (`yanked`) makes `select` fail, after
which `run_tor` returns.  A stale ready descriptor that has been opened again makes
`recv` block with the mutex held, for thirty seconds or, on an accepted socket, until
something comes.

Left out here: threads other than workers that send queries (a second worker plays their
part), other files of the process, the SOCKS handshake (one step that may
fail), the Tor process.

### 2.8 NodeStart

Each of `Daemons` is a process that may be started on the host, by whoever owns it,
and start again.  `at` is how far it has come.  Ports are counted from 50882, and
addresses by hidden service, so that address *i* is forwarded to port *i*.

| TLA+ | Code |
|---|---|
| `Launch` | `main`; the constructor of `TorManager`, which deletes a `torrc` with another SocksPort |
| `Check`, `CreateTorrc`, `Spawn`, `ReadHostname`, `HostnameTimeout` | `start_tor`: Tor that answers is used, by its second hidden service; otherwise it is started |
| `ReservePort`, `Bind` | `reserve_available_port`, and later the listening socket and the IPC port |
| `LoadKey`, `SaveKey`, `OpenKeyFile`, `WriteKey`, `CreateSession` | `session_prepare` and `session_create`, or `create_identity` |
| `TorUp`, `TorWrites`, `TorKilled`, `Expire` | Tor, and the end of TIME_WAIT |
| `Exit`, `Crash` | the end of `main`, and any other end, after which Tor may stay |

What the code does that a reader may not expect: the hostname read may be that of an
earlier Tor; a port still in TIME_WAIT, or a Tor left behind by a daemon that died, gives
the next daemon a port that is not the one its hidden service forwards to, so that nobody
reaches it; a key file that stayed half written is not loaded by I2P, nor overwritten, so
that no daemon starts again until it is deleted by hand.  `past` (history)
collects these circumstances, and the properties exclude them by name.

Left out: `--tor` together with another network, `add_hidden_service` (no caller),
streams and raw datagrams of SAM (no caller).

### 2.9 ReticulumLink and Datagrams

`ReticulumLink` is `TCPInterface::loop`, with `tcp.state` its `_connectState`
(`TickIdle`, `TickConnecting`, `TickConnected`, then `ReadFrame` until
`NothingToRead` or `ConnectionLost`) and `UdpLoop`.  Frames are sequences of bytes,
escaped and unescaped as the code does, since the properties are about them; `recv`
returns any part of what has come.  Two things hold of the code as it is: `readFrame`
returns with the parser inside the frame it returns, against its comment "caller
clears", so that later frames of a connection are lost or repeated, and `_lastRxTime`
is never reset, so that after one keepalive timeout each new connection is closed at
its first tick.  Both are in the model; `FirstFrameExact` says what is right in spite of
them.  Frames this node sends are not kept: two threads may share `_txScratch`, and what
then goes out is undefined.

`Datagrams` is the loop of a node without connections.  On I2P `ReceiveDatagram`
enqueues and the workers `TakeTask`; on Reticulum the one thread handles each packet
itself (`TakePacket`).  Both `Answer` first and then run the `Callbacks`, which on I2P
lead to `send_map_v2` (`SendMap`, `WaitOver`).  A packet of Reticulum does not tell who sent
it: a query without the argument `address` is dropped (`Answerable`).  No query this
program sends has one, so that only those of other implementations are answered there; the
model has both kinds.  `on_ping` and `on_map` have no case for
Reticulum, so that a ping adds nobody there and a map no provider; only an announce adds a
peer (`PeerDiscovered`).  An error of `recvfrom` ends the program, since its result is the
length of a string (`ReceiveFails`).

Left out: what microReticulum does between interface and packet; a datagram whose header
is not a destination, which would end the program in `to_i2p_address` and
which the SAM bridge does not send.

`Parse` is the parser run over some bytes, by a recursive function, so that the proofs
can say what it does to a stream cut in two.

`MCNetwork` puts `PendingRequests`, `NodeStart` and these two beside each other; they
share no state, and `machine` says whose behaviour is checked.

### 2.10 Prices and Catalogue

`Prices` is `CurrencyExchangeRatesProvider`.  A rate is the currency it really is the
price of Monero in, or `zero`, which the provider gives for a pair it does not know yet.

| TLA+ | Code |
|---|---|
| `rates`, `display` | `mCurrentRates`, and what the bindings of the page show |
| `Evaluate` | `getPrice` of the pairs a page asks for: unknown ones are entered at zero |
| `Ask`, `SOURCES_TO_USE`, `FirstAnswers` | `updateRates` for one pair: the eight sources in turn, until one has a price |
| `WorkerReturns`, `Finished` | the worker's end and, *later*, `setRates` and the signal on which all bindings ask again |
| `StartUpdate` | the single shot, three seconds after |

Each source is the set of what it can return for a currency.  What the code does that a
reader may not expect: `CoinGecko` gives zero for an answer without the field, so
that the sources after it are not consulted; `CoinCodex` ignores the currency and gives
dollars; `CoinTelegraph` looks the pound up as "GPB"; `setRates` drops the pairs that
were entered during the update, until a binding asks for them again; Kraken's assertions
end a debug build; and no request has a time limit.

`Catalogue` has what opens a page (`Open`, `OpenHome`), the sort box (`sortBy`) and the
switch (`Toggle`).  A page is converted and sorted once, at the rates of that moment; the
prices beside its entries follow the rates.  `price_xmr` is 0 while a rate is unknown.
`SearchBar` passes a sorting before the two switches, and `ProfilePage` names a switch
that does not exist, so that both hide something else than asked (`Hides`); the
properties leave these two pages out of what they say about hiding.

Left out: Qt's event loop inside a price source (what it does to an order is in `Shop`),
the text of prices, and the number of rows a scan fails to read (`Ipc`, `Shop`).

### 2.11 Messages

`Messages` follows the messages written to one user, `Me`.

| TLA+ | Code |
|---|---|
| `session`, `profiles` | the private key of the session; the public keys in the user objects that are still in the DHT |
| `Cipher`, `Plain` | `rsa_public_encrypt` and `rsa_private_decrypt`: a text that is too long, or the wrong key, gives the empty string |
| `Send` | `User::send_message` from a profile page: sender and content encrypted, both signed by the wallet, one put |
| `MapMessage`, `LoseMessage` | what other nodes do to the index and to the message |
| `OpenMessages` | `getMessages` and `MessagesPage`: SELECT, one `get` for each row, `decrypt_message`, the sort by time, the thread of the first sender |
| `PickSender` | the overload of `getMessages` for one sender |
| `NewKeys` | a registration of the same address |

`written` is a ghost: who wrote each message, what, and for which key.  A message for an
earlier key is shown with no sender and no content; `Backend` then verifies its signature
for an empty address, which may throw and end the application (`box` is empty then).  A
message whose `get` ends in an error leaves the index, as in `Ipc`.

### 2.12 Wallet

`Wallet` is the wallet that is open, the threads that use it, and the wallet page.

| TLA+ | Code |
|---|---|
| `monero_wallet`, `password_hash` | the pointer, and the signature that `verify_password` compares with |
| `create_random`, `open`, `restore_from_seed`, `close`, `EnterHome` | the main page |
| `daemon_connect`, `JobEnds`, `FallBehind`, `Receive` | the connection to a node, the detached thread that synchronizes, the chain |
| `ClickTransfer`, `Confirm`, `Cancel` | the button, and the prompt for the password |
| `TransferMany` | `transfer` to several recipients, on the GUI's thread; an exception ends the application |
| `TransferOne`, `CheckTransfer`, `CreateTransfer`, `SweepTransfer` | `transfer` to one recipient: a detached thread checks the balance and, *later*, makes a transaction or sweeps |

Things a reader may not expect: `JobEnds` may end the application, because a job whose wallet
was replaced goes on with the pointer as it is then; a restore that fails for any
reason but the mnemonic keeps the wallet that was open and gives it the signature of an
empty password (`mistaken`); the total of a payment to several counts recipients whose
address is not valid, which are then left out; and a sweep takes what is unlocked *by then*,
which may be more than the amount that was typed.  `restore_from_keys`,
`create_from_seed`, `change_password` and the overload of `transfer` for a URI have no
caller.  Fees and change are any numbers.

### 2.13 ListingForm

`ListingForm` is the dialog in which a product is listed, and what becomes of its pictures.

| TLA+ | Code |
|---|---|
| `FillIn`, `ChoosePicture`, `RemovePicture`, `EditVariants` | the fields, the slots for pictures with their button, the wizard for variations |
| `isSupportedImageDimension`, `PieceSize`, `Pieces` | the checks and the pieces of a picture |
| `Submit` | the handler of the button: upload, `listProduct`, thumbnail, pictures, and then the form is cleared |
| `VariantsList`, `Variants`, `Images` | `buildVariantsForCpp`, and what the serializer writes of them |
| `Saved` | `saveProductThumbnail` and `saveProductImage`: a name that is taken is not written over |
| `requestImage`, `Cost` | the image provider and its cache |

Things a reader may not expect: the table of variations stays when the form is cleared; a
form whose pictures have not loaded is listed without any, and the handler then stops before
it clears the form, so that the same form can be listed again; two pictures of one base name
share a file, and the first one stays; without a reply that parses the pictures go to
the root of the datastore, where no page looks for them; and a picture with eight bytes for a
pixel (a PNG of 16 bits) may cost more than the whole cache, which deletes it before the
provider reads it.  `folders` keys the datastore by listing, the root being 0.

`MCDesktop` puts `Catalogue` and these three beside each other, as `MCNetwork` does.

## 3. Runs

| Run | Instance | Distinct states | Properties |
|---|---|---|---|
| `network` | 3 calls, 2 ids; 2 daemons, 3 starts, 2 SocksPorts, 2 ports; 2 connections of 2 frames, 2 datagrams; 2 queries, 2 workers, 1 map query, 2 messages waiting | 670 648 | `NetworkTypeOK`, `PromisesMatch`, `OutcomesExplained`, `SameAddress`, `FirstFrameExact`, `EveryCallReturns`, `StartServes`, `QueriesServed` |
| `node` | 3-bit ids, 3 peers of one bucket of size 2, one of them a bootstrap node and one that may fall silent, 1 lookup; IPC and a pool thread, 1 key that expires, 3 values, 2 terms | 392 449 | `TableWellFormed`, `RefreshPointersLive`, `ThreadsStop`, `SilentPeerEvicted`, `DuplicatesBounded`, `MappedWhenQuiet`, `StoreIsVersioned`, `RequestsEnd` |
| `market` | 3 peers, 2 versions, replication factor 2, 2 nodes asked for providers, one peer that changes by itself, 1 late query; 2 accounts, one of them from another computer, 2 other sellers, 3 listings, stock up to 3, limits of 2 items and a quantity of 2, 3 operations, 2 key pairs, 1 crash | 4 021 812 | `AnsweredPeersHold`, `CopiesCounted`, `NotFoundMeansUnheard`, `LoggedInAsAsked`, `KeysMatchPublished`, `CartMatchesRows`, `ItemsWithinLimits`, `OrderedExactlyOnce`, `OneRating` |
| `ipc` | 2 keys, 3 calls, 1 connection | 1 800 344 | `RepliesExplained`, `RepliesMeanIt`, `ExitsRepublished`, `CallsReturn`, `DisconnectEndsDaemon` |
| `peers` | 1 peer, 2 workers, 2 descriptors, 1 key, 2 pings, 2 requests, 1 half waiting in a socket | 1 114 889 | `DescriptorsExclusive`, `WholeMessages`, `ListensUnlessYanked`, `RunReturns` |
| `desktop` | 2 currencies, listings in both and in Monero, a home page of 1 listing, debug build; 2 writers, 2 messages, 2 key pairs, clocks 0 and 1; 2 wallets, 2 payments, 6 forms of recipients, 2 received, a fee of at most 1; 2 picture slots, 4 files, 2 forms, 2 listings, a cache of 1 | 804 762 | `PageIsRight`, `RatesAreAskedAgain`, `MessagesReadAsWritten`, `PaidAsConfirmed`, `ListedAsFilled`, `PairIsAskedFor` |
| `count_nodes`, `no_dangling`, `find_closest`, `bucket_index`, `no_entry_dropped`, `cart_quantity` | as above | violated | one each, see section 5 |

The types of every module are theorems (section 4).  `network` checks those of its four
machines together; the other runs need not.  Some properties are
conjunctions of named parts: `PromisesMatch` of `NoLeakedPromise` and `NoStrandedWaiter`,
`OutcomesExplained` of `OwnReply` and `ThrowsOnlyOnSharedTid`, `SameAddress` of
`ReachedAtAddress` and `IdentityKept`, `RepliesExplained` of `RepliesInOrder` and
`OwnReplyUnlessSkewed`, `RepliesMeanIt` of `AnsweredByMethod` and `RemovalsExplained`,
`MessagesReadAsWritten` of `ShownAsWritten`, `ShownInOrder` and `ThreadIsOfOne`, `ListedAsFilled`
of `PicturesShown`, `CacheTakesPictures`, `ListedOnce` and `ListingsWellFormed`.

What they show:

- **network, calls.**  With two ids for three calls, ids are shared in some behaviours
  and not in others.  A reply that arrives between the end of `wait_for` and
  the erase does no harm; a late or doubled reply reaches nobody unless the id
  is drawn again; the only way to an exception of `future.get()` is a shared
  id; every call returns although the network is assumed to do nothing.
- **network, start.**  Two daemons that start one after the other each get a hidden
  service and the port that belongs to it, although they find out about the two
  separately, in whatever order they end, are killed without leaving Tor behind, and start
  again.  Who serves on I2P or Reticulum does so under the key in the file.  A start comes
  to serving unless it was killed, raced, or something was left behind, or the IPC port
  or the I2P identity is in use.
- **network, link.**  The first frame of every connection arrives as it was sent, wherever
  the stream is cut, and whatever state the previous connection left the parser in.
- **network, datagrams.**  Every query that was read is answered and has its effect, unless
  it came over Reticulum and does not say from whom, even when SIGINT comes while workers
  wait and tasks are in the queue.
- **node, table.**  `heartbeat`, `refresh`, `join`, incoming pings and a lookup
  change one full bucket.  The table stays well formed although every caller's
  `has_node` test is old when it adds.  `refresh`'s pointers stay alive because
  it holds `cv_mutex`, a mutex meant for its condition variable, during its
  whole round, network waits included.  A peer that has gone silent is evicted.
  After `stop_threads` both threads end although `notify_all` runs without the
  mutex: a missed notification costs one interval of the wait.
- **node, storage.**  No interleaving of `put`'s critical sections with other puts,
  removals, expiry and restarts lets an older version replace a newer one.  An
  entry gets at most as many rows as there are threads.  A call of `add` that
  runs alone gives each of its entries a row, whatever earlier calls left in
  the maps.  Every request ends: `set` does not lock.

- **market, replication.**  A copy a peer has acknowledged stays or is replaced by a newer
  one, although the query of an earlier, timed-out put may arrive after it.
  While no node is evicted, `send_put` returns the number of different nodes
  that answered, at most the replication factor, and all of them are providers.
  `send_get` reports a missing key only if every peer that had it from the start,
  and that was known or in the table, could not be heard or is ranked too low.

- **ipc.**  Replies are taken in the order of the requests; a call gets another's
  reply only after a call that gave up or a request longer than a buffer.  From
  then on every call may: nothing brings the streams together again.  So a key may
  leave the index for an error that answered another key, and nothing but
  an error removes one.  A reply without an error that is one's own comes from the method
  named, unless a long request split the stream; what it says of a `remove` is another
  matter (2.5).  Every call returns.  When its client leaves, the daemon
  republishes and ends, or is killed by SIGPIPE when a reply was unread.
- **market, shop.**  Whoever is at the home page is who was asked for, with the published
  key on disk, however logins, registrations and ends of the application
  alternate; the exceptions are the registrations reported as failed after the put.
  What `Cart` and `User` hold in memory is what the tables hold.  The quantities of a cart
  may exceed `max_quantity` (section 5), after which no item is put in with nothing or less,
  nor more items than the limit.  An item is ordered
  twice, or rated twice, only when one of the named failures, or a second click on the
  order while the first one waits for prices, came in between; and an item that leaves
  the cart has been ordered, unless it was added during that wait.
- **peers.**  No interleaving of accepts, connects, sends that fail and hang-ups lets
  anyone use or close a socket of another, but for the second close of
  `run_tor`; bytes of two connections never come together in a buffer although
  names and descriptors are used again; the listener stops unasked only after a
  thread closed a socket it was about to poll; and it ends when told to, although
  every worker may wait for replies that are queued behind it.

- **desktop, pages.**  No page shows what its switch hid when it was filled, or illicit goods, the
  home page follows the switch at once, and a page sorted from the lowest price is in the
  order of the prices shown while no rate on it has changed.  A rate that is known is
  thrown away only by an update that asked for it, and a pair on screen is asked for
  in the end, although the update that runs when it is entered forgets it.
- **desktop, messages.**  Whatever keys are replaced and messages lost, the page shows a message
  with what its writer wrote, verified, in the thread of its writer, or with nothing of it.
- **desktop, wallet.**  Each transaction was asked for once, by someone who typed the password the
  wallet was opened with, or the empty one after a restore that failed.  It pays every recipient with a
  valid address what was typed; a sweep pays no more than that and what was unlocked since.
- **desktop, listings.**  A page shows the first picture of each name, and of all as the thumbnail, or
  none where the dialog did not learn the key.  A form that was listed with pictures is not
  listed again; variants differ in their options and no picture has more than four pieces.  The
  provider only fails on a picture that has more than four bytes to a pixel.

### Bounds and why they are enough

- `Requests`, `Tids`: two calls with a shared id and a third one with its own
  are needed for the worst case, a timed-out call that might hit another's
  promise after the id was drawn again.
- Two daemons and three starts in `NodeStart`: each of two runs beside the other, and one
  of them starts again.  `LastPort = 1` is one port for each hidden service; both
  taken is the case without a port.  Two daemons serve on one host only in a debug build,
  or if the first one is a seed, which runs no IPC server: these are the hosts
  enumerated under Tor.
- Two connections, two frames, `RxFrameMax = 2` in `ReticulumLink`: a frame that is
  escaped, one that is too long and one that is cut by the end of the first
  connection, each followed by another.
- Two queries and two workers in `Datagrams`: one worker waits in `on_ping` while the other
  handles the next, or both wait and a task stays in the queue.
- `Bits = 3`, all peers in bucket 0 of size 2: buckets do not affect each
  other, so one that can be full, hold a duplicate and lose nodes is the
  interesting one.  Three peers make a rejected insert possible.
- `MaxClosest = 1`, `MaxReply = 1` (the size of a `find_node` reply),
  `MaxHealthChecks = 2`: each has the case "none left, more to do"; larger
  values multiply states without a new step.  `check` saturates at
  `MaxHealthChecks`, from where on every value means dead.
- One lookup thread: lookups share the table and counters with the other
  threads only, never with each other.
- Two threads in `NodeStore`: the races of `put` and of `sync` are between two.
  Three values: an old and a new version and a value of another owner.
  `old` has one term and the other two share one.

- Three peers and two copies in `Replication`: both nodes answer, one fails and is
  replaced, or both fail and there are too few candidates.  With
  `MaxClosest = 2` one node may be left out of a lookup.  `Busy` has one peer:
  it is evicted, announces itself, gets values from others and loses them; the
  other two change by this node's queries only, which keeps them symmetric.
  One late query at a time is enough to overtake the next put.

- Three calls in `Ipc`: one that gives up, a `get` that gets its reply, and the `remove`
  that follows; two keys, so that the wrong one can be removed.  One connection:
  a second one starts with empty streams and adds nothing but a daemon that has
  already ended or has not.
- Three operations in `Shop`: two listings of different sellers are added and ordered,
  or one is ordered, kept and ordered again.  Limits of two items and a quantity of
  two are reached by two operations.  One account of this computer and one from
  elsewhere are all that the login distinguishes.  The two outside sellers, each with
  its listing, are symmetric.  One crash is enough for an operation to be
  interrupted and repeated.
- Two descriptors and two workers in `TorPeers`: a descriptor is closed and used
  again while another connection is open; one worker stores a connection while the
  other makes one.  One peer: connections to different peers share nothing but the
  descriptors, which accepted connections of the one peer already take.

- Two currencies in `Catalogue`: the dollar, which `CoinCodex` answers in, and one that
  `CoinMarketCap` does not know.  By amount, by price in Monero, by date and by name the
  three listings come in four orders.
- Two messages and two writers in `Messages`: of one thread or of two, for one key or for two,
  at the same time or not.  A text that is too long is the third case of `Send`.
- Two wallets opened and two payments in `Wallet`: a job of the first one meets the second, and one
  payment is made between the check and the transaction of the other.  Two units received
  are enough for an amount that is all, some or too much; the forms are one recipient of each
  kind, and several of which two or none can be paid.
- Two slots, two forms and two listings in `ListingForm`: two pictures of one name, one that does not
  load, one that is too large; a form listed twice, or two forms.  A cache of one image drops
  one for the next.

The theorems of section 4 hold without these bounds.

`CHECK_DEADLOCK FALSE` is set for `MCNode` and `MCIpc`, whose threads end, for
`MCDesktop`, where an assertion or an exception may end the application, and for the runs of
section 5 but `cart_quantity`.
It is set for `MCNetwork`, where calls return, starts are counted and loops stop.
`MCTorPeers` checks deadlock, with `Finished` as the allowed end, and `MCMarket` without one:
the node can always be started again and the application be ended.

### Fairness

- `PendingRequests`: weak fairness of the waiting thread, since `wait_for` ends
  and the thread is scheduled.  None of the network, the peer, the listener.
- `NodeStart`: weak fairness of a daemon that is starting, whose waits are limited.  None
  of Tor: the time limit of `read_hostname` is what makes a start end.
- `ReticulumLink`: none; only safety is checked.
- `Datagrams`: weak fairness of the loop and of each worker, whose waits have a time limit.
  None of SIGINT and of the other nodes.
- `Maintenance`: weak fairness of the two threads; strong fairness of the
  heartbeat's acquisitions of `cv_mutex`, because `refresh` sleeps for an hour
  with the mutex released and the heartbeat is due every five minutes.  None of
  peers, pings, `join` or lookups.  Under this a silent peer is evicted since
  its counter can only be increased and only its own eviction resets it.
- `NodeStore`: weak fairness of a thread that has begun a request.  Nothing says
  that a request begins.
- `Prices`: weak fairness of the steps of an update, the timer's among them: the worker
  runs and the event loop gets to its events.  That a request ends is assumed, since the
  code gives it no time limit.  None of the user.
- `Replication`, `Session`, `Shop`, `Messages`, `Wallet`, `ListingForm`: none; only safety is
  checked.
- `Ipc`: weak fairness of the client's thread while it waits, whose `recv` ends after
  five seconds, and of the IPC thread.  None of new calls, signals or connections.
- `TorPeers`: weak fairness of the listener and of each worker, whose waits and sends
  have a time limit, and of the peer of an *accepted* connection: a node connects in
  order to send something, and then goes.  Without the latter the listener may block
  for ever in a `recv` on a descriptor that was used again, and `run_tor` does not
  end: `adopt_socket` sets no time limit.  None of `Stop` and of the peers of
  outgoing connections.

## 4. Theorems

All proofs are checked by TLAPS for any values of the constants that satisfy the named
assumptions of the modules (`SentinelsDistinct`, `TableAssumption`,
`MaintenanceAssumption`, `MapperAssumption`, `NodeStoreAssumption`, `ReplicationAssumption`,
`IpcAssumption`, `SessionAssumption`, `ShopAssumption`, `PeersAssumption`,
`StartAssumption`, `LinkAssumption`, `DatagramAssumption`, `PricesAssumption`,
`CatalogueAssumption`, `MessagesAssumption`, `WalletAssumption`, `ListingFormAssumption`), which say
that sentinels are not members of the sets they stand beside, that functions have the right domains, that sizes are natural numbers, and that
there are finitely many threads and peers.  One property needs more, see
`NetworkSameAddress`.

| Module | Theorem | Says |
|---|---|---|
| `Network_proofs` | `NetworkTypeCorrect`, `NetworkSameAddress`, `NetworkFirstFrame` | the types, the addresses and the frames of the machine that `network` checks |
| | `TypeCorrect`, `PromisesOfWaiters`, `OutcomesAreExplained`, `NoLeak`, `NoStranding`, `RepliesMatch`, `ThrowsExplained` | the calls: types, the two properties of `network` and their four parts |
| | `StartTypesKept`, `IdentityStays`, `AddressesAreRight` | the start of the daemons |
| | `DatagramInvariant` | the loops: types, and what a thread works on was taken from the socket |
| `ReticulumLink_proofs` | `LinkTypeCorrect`, `FirstFrameIsExact` | the parser, whatever it is given |
| `Node_proofs` | `NodeIsSafe` | all safety properties of `node`, of the machine it checks |
| | `TypeCorrect`, `TableStaysWellFormed`, `RefreshIsSafe`, `RoundsNeverOverlap` | the threads on the table, and the mutual exclusion they rest on |
| | `RandomIdsAre`, `IndexFailsForOwnIdOnly`, `RefreshAsksOthersFirst` | the bit index: what a random id is, when `has_node` reads past the array, and whom `refresh` asks |
| | `StoreTypeCorrect`, `Refinement`, `DuplicatesStayBounded`, `QuietCallsIndex` | the storage, the implementation of `VersionedStore` among them |
| `Replication_proofs` | `TypeCorrect`, `AnswersHold`, `CountsCopies`, `NothingFoundNothingHeard` | the properties of `market` that are about replication |
| `Ipc_proofs` | `TypeCorrect`, `RepliesAreExplained`, `RepliesAreMeant`, `DaemonLeavesNothingBehind` | all safety properties of `ipc` |
| `Shop_proofs` | `SessionTypeCorrect`, `SessionOfTheUser`, `PublishedKeysKept` | the session by itself |
| | `ShopTypeCorrect`, `ShopIsASession`, `ShopperIsTheUser`, `ShopKeepsKeys`, `CartInMemory`, `CartsWithinLimits`, `QuantitiesOvershoot`, `OneRatingEach`, `OrdersExact` | the properties of `market` that are about the shop; `Shop` implements `Session`, hence its two properties; and how far the quantities of a cart may exceed the limit, by two less than the largest stock |
| `TorPeers_proofs` | `TypeCorrect`, `SocketsExclusive`, `ListensOtherwise`, `MessagesWhole` | all safety properties of `peers` |
| `Desktop_proofs` | `DesktopTypeCorrect`, `DesktopIsSafe` | the types and all safety properties of `desktop`, of the machine it checks |
| | `PagesAreRight`, `KnownRatesAskedAgain` | the pages and the rates by themselves |
| | `MessagesAreReadAsWritten` | the messages page |
| | `PaymentsAreConfirmed` | the wallet and its payments |
| | `ListingsAreAsFilled`, `SupportedImagesFitTheCache` | the form and the pictures; an image of an admitted size, with four bytes a pixel, fits the cache |

Every invariant and every action property that a run expects to hold is the statement of a
theorem.  Theorems on machines that a run puts beside others are stated of
their initial states and steps, without fairness, and `NodeParts`,
`NetworkParts` and `DesktopParts` show that each behaviour of the whole is one of every part.

The inductive invariants:

- **PendingRequests.**  `NoLeakedPromise` (an entry is the promise of a live
  call without a reply, under that call's tid) and `NoStrandedWaiter` (a live
  call without a reply owns the entry of its tid) need each other: an erase
  destroys nobody else's promise only if entries sit under their owner's tid,
  and a delivery reaches the right call for the same reason.  `OwnReply` is not
  inductive; `Provenance` records what a future may hold, a reply of a call
  with the same tid or a promise broken by one, and `OutcomeFollows` ties the
  outcome to the future.
- **Maintenance.**  `RefreshPointersLive` is kept by an eviction only if refresh
  has no pointers then: `RoundsExclude` says that a thread is in its round
  exactly while it holds `cv_mutex`, and that refresh keeps pointers only in
  its round.  `TableWellFormed` rests on lemmas on `AddNode`, `RemoveNode` and
  `Without`, which are also what a user of `RoutingTable` may cite.
- **RoutingTable.**  `BitIndexIs` and `BitIndexUnique` characterise the bit index, a cardinality in
  the model, as the place of the first bit that differs, by way of the least such place.  From them
  follow three facts for ids of any length, two of which are the general form of a finding of
  section 5: to a random id of a bucket the nodes of that bucket are closer than all others
  (`BucketIsClosest`), so that by the ascending sort `refresh` asks them last.
- **NodeStore.**  The refinement needs only the types and that a request has its
  key and value: `Write` is `Store` or a stutter, whatever happened since the
  duplicate test, because the decision is taken under the lock.
  `DuplicatesBounded` is not inductive: `RowsCovered` adds the INSERTs already
  decided on, rows plus inserting threads never exceed the threads; a thread
  decides to insert only when there is no row, and then at most every thread is
  about to insert.  `MappedWhenQuiet` rests on `QuietProgress`: a quiet call is
  alone in `add`, its entries are in the maps until the copy and then each is
  in the copy or has a row.
- **Replication.**  `Held` adds to `AnsweredPeersHold` the peer whose answer is on
  its way.  `Owing` says where a holder the call has not heard yet still waits
  to be asked: among the providers or in the table at first, then among the
  nodes to ask or in the providers received, then in those alone.  `Counted`
  says that, while no node is evicted, those counted, asked and still to be
  asked are different and together at most `Factor`, that all of them are among
  the closest in the first stage, so that a replacement is a new node, and that
  nothing removes a provider during a put.

- **Session, Shop.**  `KeysMatchPublished` holds because nobody registers an account that
  is published: `Agree` says that a wallet open on the main page has no published
  user object, unless its registration was put and reported as failed, which is
  what the close of a wallet without a row in the index, and the page, guarantee.
  The rest of `SessionInv` ties the user, the wallet and the key file together in each page.
  `ShopIsASession` maps each step of `Shop` to one of `Session` or to a stutter, so that
  the session's theorems hold of the shop.  `MemoryInv` is `CartMatchesRows` with the state of
  the cart while it is being loaded.  `OrdersInv` ties the tags in the cart, in
  the orders under way and in those that were put: each tag is in one item; what the
  innermost call has in its order is in the cart or `kept`, what the outer ones have in
  theirs is `kept`; an order that was put shares with the cart only what is `kept` or
  what a call under way has put; and every item of the cart is `Covered` in every call:
  it was put, is about to be, came late, or stops the call before it empties the cart.
  `CartsInv` bounds the quantities of each cart.  Their sum is a fold, for which the
  library's theorems on induction cannot be used; its sequence of partial sums is
  shown to exist and to be unique by way of the least item where it would fail
  (`LeastNat`, `SumExists`, `SumUnique`), and from there on a step of the cart is a
  lemma on sums (append, replace, remove, bound).
- **TorPeers.**  `DescriptorsInv` adds to `DescriptorsExclusive` what each place of a thread and of the
  listener knows: who connects has a descriptor and a destination, and the entries that
  the listener still has to remove are those whose sockets it has closed.
  `Listens` says that a polled socket is still in `tor_peers` unless it was yanked.
  `Streams` says of every accepted connection that what is in the buffer and the socket
  are pairs of halves, with an odd one exactly when the peer is inside a message.

- **Ipc.**  Of `IInv`, `Queued` says that the requests on their way and in the daemon's
  hands are parts of calls still to be answered, in order; `Answered` that replies belong
  to requests the daemon has dealt with; `Removes` that a call to `remove` follows a `get`
  of that key that was answered with an error; `InStep` that as long as no call gave up or
  sent a long request there is at most one message under way, the last call's, so that a
  reply to another call needs a call that skews.  `RepliesInOrder` is about the whole way
  of a reply and rests on `InLine`: replies taken, the one held, those under way, the
  request being answered and those not yet read are, in this order, to ever later
  calls, where one call with a long request may have two.
- **NodeStart.**  `KeyInv` says that while one daemon starts at a time (`OneStarts`,
  otherwise `past` has `"raced"`), who serves has the key of the file, and who is about to
  write it is alone.  It holds for any number of daemons.  `TorInv` ties the Tor
  process to the daemon that owns it: the owner has the first service and the first port,
  anyone who found Tor running the second ones, and what a starting daemon has
  checked still holds.  `NetworkSameAddress` assumes `AtMostTwo`, since Tor is configured
  with two hidden services and a third daemon would share the second's, and `LastPort >= 1`,
  where the code tries eight ports.  `IdentityStays` needs neither.
- **ReticulumLink.**  `ParseConcat` says that parsing two chunks is parsing their
  concatenation; `ParseFramed` that a parser that
  is outside a frame gets exactly the payload back from what `sendFrame` made of it, or
  nothing when there is no room or no payload.  Both are by the least byte at which two
  runs would differ, since a frame has any length.  `FrameInv` then says that the first
  frame is decided by the bytes on their way: the parser as it is, run over all of the
  stream, ends with the first frame that is not skipped (`Foretold`).  A `recv` cuts
  this run in two, a send prolongs it, and every way out of a connection resets the parser.
- **Datagrams.**  What is in the queue and in the hands of a worker has been taken from the
  socket, and what other nodes owe is finite; the types need no more.
- **Prices, Catalogue.**  `PricesInv` has the three properties of the rates, which need
  each other: what bindings show is current because both are replaced in one event.
  `InOrder` says that a page sorted from the lowest price is in the order of the prices it
  was *filled* at, which is what `sortBy` establishes; where the rates are still those,
  they are the prices shown.
- **Messages.**  `MailsAreWritten` says of every message in the DHT that it is the encryption, with one
  key, of what its writer wrote, and that its signature is of both; `BoxIsOpened` that the page has what
  the session's key makes of it.  `ShownAsWritten` follows.  `OfSenderIs` says what the scan for one
  sender returns: the entries of that sender, and all of them.
- **Wallet.**  `HashIsOfWallet` says that what verifies is the password of the wallet that is open, or
  the empty one if it is `mistaken`: it is what makes `Confirm` mean anything, and every way to
  open, to restore or to fail has to keep it.  `AllConfirmed` carries it to the payments asked for;
  `AllSent` says that a request with a transaction is over, so that none is paid twice.  For a sweep,
  `Confirmed` compares what is unlocked with what was unlocked in all (`gained`) when its
  thread looked: every step adds to both or takes from the first alone.
- **ListingForm.**  `FoldersAre` says which picture is saved under each name of a listing whose key is known,
  `CacheIsOfFolders` that the cache has what is in the folder now, which holds because nothing is
  written over.  `FormIsCleared` says that a form listed with pictures is not on screen any more,
  and `ListingsWereChecked` keeps for each listing what `Submit` tested.  `SupportedImagesFitTheCache`
  is arithmetic: 1920 times 1280 pixels of four bytes are less than ten mebibytes.

Only model-checked: the liveness properties `EveryCallReturns`, `ThreadsStop`,
`SilentPeerEvicted`, `RequestsEnd`, `CallsReturn`, `DisconnectEndsDaemon`,
`RunReturns`, `StartServes`, `QueriesServed` and `PairIsAskedFor`, since the prover does
not reason about fairness and ENABLED.

## 5. Disagreements found

Six runs check what a comment of the code says and TLC finds it violated.

- `no_dangling` (`NoDanglingDereference`).  The comment of `find_node` says
  "Safe: avoids dangling pointers".  The weak pointer is locked only while the
  raw pointer is copied; `send_get_providers` uses it after waiting for other
  nodes, when the heartbeat may have destroyed it.  `send_put` and
  `send_remove` have the same pattern.
- `find_closest` (`FindNodeReturnsClosest`).  The scores are common-prefix
  lengths and are sorted in ascending order: the farthest nodes come first.
- `bucket_index` (`BucketIndexValid`).  `xor_distance_bit_index` calls 256
  invalid and returns it for equal ids; `has_node` indexes 256 buckets with
  it when a reply lists this node itself.
- `count_nodes` (`CountIsOfNodes`).  `republish_once` says that `send_put` "returns
  number of nodes that responded to PUT".  `send_put` compares pointers: a node
  that answered, was evicted and was added again during the call is taken for a
  replacement and counted twice, so that fewer copies exist than reported.
- `no_entry_dropped` (`NoEntryDropped`).  `sync` ends with `clear_cache`, which
  also clears entries another thread has pushed and not yet copied.
- `cart_quantity` (`QuantitiesAddUp`).  The constructor of `Cart` says "Cart items can only add
  up to a quantity of 100".  `Cart::add` compares the sum with `max_quantity` only after the
  branch that raises an item to the whole stock, which leaves the function.  By
  `QuantitiesOvershoot` the excess stays below the largest stock.

Two more were seen while modelling, and no run shows them:

- The callers of `Client::remove` comment "Remove obsolete key from local storage" and log
  "Removed key" when the reply carries no error (`cart.cpp:39`, `cart.cpp:44`).  The reply may carry
  none although a row is left (2.5).
- `handle_reticulum_message` is to answer a query as `handle_tor_message` does
  (`node.cpp:2450`).  It needs the argument `address`, which no query of the program has: two
  nodes of it never answer each other over Reticulum.

## 6. Plan

Built so far, in this order: `PendingRequests`, on which every message exchange
rests; `RoutingTable` and `Maintenance`; `KeyMapper` and `NodeStore` with
`VersionedStore`; `Replication`; `Ipc`; `Session` and `Shop`; `TorPeers`;
`NodeStart`, `ReticulumLink` and `Datagrams`; `Prices` and `Catalogue`; `Messages`, `Wallet` and
`ListingForm`; each with its proofs.

What may come next: an abstract specification of a connection of which `ReticulumLink` and
`TorPeers` would be two implementations; one of the index that `KeyMapper` and the removal of
keys by the application would implement together.

## 7. Not modelled, and why

- `persist_routing_table`, `rebuild_routing_table`: run by a seed node only.
- `purge` and periodic `republish`: the code has them, no thread runs them.
- Print, logging, formatting and parsing functions, JSON and protobuf layout.
- What the transports leave to others: the SAM bridge, microReticulum, Tor and its SOCKS
  handshake.
- `validate` decides before `put` takes the lock: an object may be stored that expired in
  between, which is what an expiry after the put does as well.
- Settings, scripts, third-party code, and what the wallet's library and the cryptography do
  inside: a key, a signature or a transaction is what the callers can tell of it.
- The rest of the GUI: accessors, avatars, Qt objects, the console.
  `loginWithKeys`, `loginWithHW`, `Cart::remove`, `change_quantity`,
  `User::load_orders` are stubs; `load_customer_orders` and `clear_favorites` have no caller.
- The legacy RPC: another encoding of the same dispatch, not built by default.
- `send_remove` and `remove_providers`: nothing calls them.
- The iteration of `republish_once` over a map that other threads change is
  undefined behaviour of the container; `Replication` has its puts one by one.
- The escrow is a stub in the code.
- A write through a dangling pointer (`LookupTimeout`) changes memory the model
  has no name for; the model stops at the fact that it happens.  So it does where a
  foreign descriptor is closed (`TorPeers`).
- SQLite is external: a statement is atomic and may fail.
