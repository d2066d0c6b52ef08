----------------------------- MODULE NodeStore -----------------------------
(***************************************************************************)
(* The storage of one node and the requests that use it at the same time:   *)
(*                                                                          *)
(*   data         the in-memory hash table, under data_mutex;               *)
(*   hash_table   the table of the local database, written by IPC puts;     *)
(*   the index    KeyMapper and the mappings table.                         *)
(*                                                                          *)
(* Requests arrive on the pool threads of the listener (put and map of      *)
(* other nodes) and on the one IPC thread (put, remove and clear of the     *)
(* client).  put() looks at data, validates and writes in three separate    *)
(* critical sections.  What validate makes of the form and the signature of *)
(* a value is left open; whether the object of a key has expired is checked *)
(* while the request runs, since time passes.                               *)
(* Two versions of an object carry different signatures, so that set's test *)
(* of the signature never decides.                                          *)
(* Versions of an object keep their expiration date, so expiry is a         *)
(* property of the key.                                                     *)
(***************************************************************************)
EXTENDS KeyMapper

CONSTANTS
    Ipc,        \* the IPC thread, among Threads
    OwnerOf,    \* value -> its immutable fields: metadata, ids, owner
    StampOf,    \* value -> its last_updated time, 0 when it has none
    Expiring,     \* the keys whose object has an expiration date
    None        \* no key, no value

ASSUME NodeStoreAssumption ==
    /\ Ipc \in Threads
    /\ StampOf \in [Values -> Nat]
    /\ DOMAIN OwnerOf = Values
    /\ Expiring \subseteq Keys
    /\ None \notin Values \cup Keys

VARIABLES
    data,       \* Node::data
    cached,     \* the hash_table table
    expired,    \* the keys whose expiration date has passed (clock)
    th          \* each thread: at, op, key, value

storeVars == <<data, cached, expired, th, mapVars>>

Idle == [at |-> "idle", op |-> "none", key |-> None, value |-> None]

StoreInit ==
    /\ MapInit
    /\ data = [k \in Keys |-> None]
    /\ cached = [k \in Keys |-> None]
    /\ expired = {}
    /\ th = [t \in Threads |-> Idle]

GoTo(t, place) == th' = [th EXCEPT ![t].at = place]

Finish(t) == th' = [th EXCEPT ![t] = Idle]

----------------------------------------------------------------------------
(* put(), validate(), set(), cache(), map().                                *)

\* put of another node (op "put") or of the client (op "ipcput"): a duplicate of
\* the stored value is accepted at once.
PutBegin(t, k, v) ==
    /\ th[t].at = "idle"
    /\ LET op == IF t = Ipc THEN "ipcput" ELSE "put"
           begin(place) ==
               th' = [th EXCEPT ![t] = [at |-> place, op |-> op, key |-> k, value |-> v]]
       IN IF data[k] # v THEN begin("validate")
          ELSE IF t = Ipc THEN begin("cache") ELSE UNCHANGED th
    /\ UNCHANGED <<data, cached, expired, mapVars>>

\* A map query of another node.
MapBegin(t, k, v) ==
    /\ th[t].at = "idle"
    /\ t # Ipc
    /\ th' = [th EXCEPT ![t] = [at |-> "validate", op |-> "map", key |-> k, value |-> v]]
    /\ UNCHANGED <<data, cached, expired, mapVars>>

\* validate: a value whose fields or whose signature do not hold is refused; expired data
\* is refused as well, and what the key holds is deleted.
Validate(t) ==
    /\ th[t].at = "validate"
    /\ \/ Finish(t)
       \/ GoTo(t, IF th[t].key \in expired THEN "eraseData"
                  ELSE IF th[t].op = "map" THEN "map" ELSE "write")
    /\ UNCHANGED <<data, cached, expired, mapVars>>

\* What set() makes of a new value v for the current value w.
Verdict(v, w) ==
    IF OwnerOf[v] # OwnerOf[w] THEN "refused"
    ELSE IF StampOf[w] > 0 /\ StampOf[v] <= StampOf[w] THEN "outdated"
    ELSE "stored"

\* Variant: the value is written whatever the key holds by now.
WriteBlind(t) ==
    /\ th[t].at = "write"
    /\ data' = [data EXCEPT ![th[t].key] = th[t].value]
    /\ IF t = Ipc THEN GoTo(t, "cache") ELSE Finish(t)
    /\ UNCHANGED <<cached, expired, mapVars>>

\* Variant: set takes the lock put already holds.
WriteRelocking(t) ==
    /\ th[t].at = "write"
    /\ data[th[t].key] \in {None, th[t].value}
    /\ data' = [data EXCEPT ![th[t].key] = th[t].value]
    /\ IF t = Ipc THEN GoTo(t, "cache") ELSE Finish(t)
    /\ UNCHANGED <<cached, expired, mapVars>>

\* The critical section of put: the presence of the key is tested again under
\* the lock, and set() decides about an altered value.  An outdated value is
\* not stored but put returns true, so that the client's put goes on.
Write(t) ==
    /\ th[t].at = "write"
    /\ LET k == th[t].key
           v == th[t].value
           verdict == IF data[k] \in {None, v} THEN "stored" ELSE Verdict(v, data[k])
       IN /\ data' = IF verdict = "stored" THEN [data EXCEPT ![k] = v] ELSE data
          /\ IF t = Ipc /\ verdict # "refused" THEN GoTo(t, "cache") ELSE Finish(t)
    /\ UNCHANGED <<cached, expired, mapVars>>

\* cache: the upsert into hash_table; when it fails the value is not mapped.
Cache(t) ==
    /\ th[t].at = "cache"
    /\ \/ /\ cached' = [cached EXCEPT ![th[t].key] = th[t].value]
          /\ GoTo(t, "map")
       \/ UNCHANGED cached /\ Finish(t)
    /\ UNCHANGED <<data, expired, mapVars>>

\* map: key_mapper->add, which ends with sync.
MapAdd(t) ==
    /\ th[t].at = "map"
    /\ Add(t, th[t].key, th[t].value)
    /\ GoTo(t, "sync")
    /\ UNCHANGED <<data, cached, expired>>

MapSync(t) ==
    /\ th[t].at = "sync"
    /\ \/ (Copy(t) \/ Select(t) \/ Insert(t) \/ InsertFails(t)) /\ UNCHANGED th
       \/ ClearCache(t) /\ Finish(t)
    /\ UNCHANGED <<data, cached, expired>>

----------------------------------------------------------------------------
(* remove, clear, and what validate deletes.                                *)

RemoveBegin(k) ==
    /\ th[Ipc].at = "idle"
    /\ th' = [th EXCEPT ![Ipc] =
                 [at |-> "eraseData", op |-> "remove", key |-> k, value |-> None]]
    /\ UNCHANGED <<data, cached, expired, mapVars>>

\* data.erase(key) under the unique lock.
EraseData(t) ==
    /\ th[t].at = "eraseData"
    /\ data' = [data EXCEPT ![th[t].key] = None]
    /\ GoTo(t, "eraseCached")
    /\ UNCHANGED <<cached, expired, mapVars>>

\* DELETE FROM hash_table; when it fails the request goes on all the same.
EraseCached(t) ==
    /\ th[t].at = "eraseCached"
    /\ \/ cached' = [cached EXCEPT ![th[t].key] = None]
       \/ UNCHANGED cached
    /\ GoTo(t, "eraseRows")
    /\ UNCHANGED <<data, expired, mapVars>>

\* DELETE FROM mappings, which may fail as well.
EraseRows(t) ==
    /\ th[t].at = "eraseRows"
    /\ DeleteRows(th[t].key) \/ UNCHANGED mapVars
    /\ Finish(t)
    /\ UNCHANGED <<data, cached, expired>>

\* clear of the client: remove_all empties data alone.
Clear ==
    /\ th[Ipc].at = "idle"
    /\ data' = [k \in Keys |-> None]
    /\ UNCHANGED <<cached, expired, th, mapVars>>

----------------------------------------------------------------------------

Expire(k) ==
    /\ expired' = expired \cup {k}
    /\ UNCHANGED <<data, cached, th, mapVars>>

\* The daemon stops at any point and is started again: the database remains.
Restart ==
    /\ data' = [k \in Keys |-> None]
    /\ th' = [t \in Threads |-> Idle]
    /\ pending' = {}
    /\ mapper' = [t \in Threads |-> Off]
    /\ UNCHANGED <<cached, expired, rows>>

Begin(t) ==
    \/ \E k \in Keys, v \in Values : PutBegin(t, k, v) \/ MapBegin(t, k, v)
    \/ t = Ipc /\ (Clear \/ \E k \in Keys : RemoveBegin(k))

Continue(t) ==
    \/ Validate(t) \/ Write(t) \/ Cache(t) \/ MapAdd(t) \/ MapSync(t)
    \/ EraseData(t) \/ EraseCached(t) \/ EraseRows(t)

StoreNext ==
    \/ \E t \in Threads : Begin(t) \/ Continue(t)
    \/ \E k \in Expiring : Expire(k)
    \/ Restart

\* A thread that has begun a request is scheduled until it has finished.
StoreSpec == StoreInit /\ [][StoreNext]_storeVars /\ \A t \in Threads : WF_storeVars(Continue(t))

----------------------------------------------------------------------------
(* Properties.                                                              *)

\* The variables keep their types.
StoreTypeOK ==
    /\ data \in [Keys -> Values \cup {None}]
    /\ cached \in [Keys -> Values \cup {None}]
    /\ expired \subseteq Expiring
    /\ th \in [Threads -> [at : {"idle", "validate", "write", "cache", "map", "sync",
                                 "eraseData", "eraseCached", "eraseRows"},
                           op : {"none", "put", "ipcput", "map", "remove"},
                           key : Keys \cup {None},
                           value : Values \cup {None}]]
    /\ pending \subseteq Entries
    /\ rows \in [Entries -> Nat]
    /\ mapper \in [Threads -> [at : {"off", "copy", "select", "insert"},
                               todo : SUBSET Entries, next : SUBSET Entries,
                               own : SUBSET Entries, quiet : BOOLEAN]]

\* Whatever concurrent puts, removals, expiry and restarts do, the hash table
\* is a versioned store: no interleaving of put's three critical sections lets
\* an older version, or another owner's value, replace a stored one.
Versioned == INSTANCE VersionedStore WITH store <- data
StoreIsVersioned == Versioned!Spec

\* The SELECT and the INSERT of sync are separate statements, so that an entry
\* may get several rows, but never more than there are threads.
DuplicatesBounded == \A e \in Entries : rows[e] <= Cardinality(Threads)

\* Whatever earlier calls left in the maps, a call of add that no other call and
\* no deletion overlaps with, and whose statements succeed, has given each of its
\* entries a row when it returns.
MappedWhenQuiet ==
    \A t \in Threads :
        (mapper[t].at = "select" /\ mapper[t].todo = {} /\ mapper[t].quiet)
            => \A e \in mapper[t].own : rows[e] > 0

\* Every request ends: set relies on the lock its caller put holds, and nothing
\* else in a request waits for another one.
RequestsEnd == \A t \in Threads : th[t].at # "idle" ~> th[t].at = "idle"

\* "syncs mapping data to local database" (KeyMapper::sync): clear_cache drops
\* no entry another thread has pushed and not yet copied, unless it has a row.
NoEntryDropped ==
    [][\A t, u \in Threads :
          (ClearCache(t) /\ t # u /\ mapper[u].at = "copy")
              => \A e \in mapper[u].own : rows[e] > 0]_storeVars
=============================================================================
