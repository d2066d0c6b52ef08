----------------------------- MODULE KeyMapper -----------------------------
(***************************************************************************)
(* The index from search terms to keys (key_mapper.cpp).                    *)
(*                                                                          *)
(* add() pushes the entries of a value into the in-memory maps and calls    *)
(* sync(), which copies the maps, inserts a row of the mappings table for   *)
(* every entry that has none, and clears the maps.  The maps are locked for *)
(* the push, for the copy and for the clear, and for nothing in between, so *)
(* the calls of two threads interleave.  A value belongs to one category of *)
(* maps, and all categories are cleared together: one set stands for them.  *)
(***************************************************************************)
EXTENDS Integers, FiniteSets

CONSTANTS
    Threads,    \* the threads that call add
    Keys,       \* the DHT keys
    Values,     \* the values, each already validated
    Terms,      \* the search terms
    TermsOf     \* value -> the search terms it is found under

ASSUME MapperAssumption ==
    /\ IsFiniteSet(Threads)
    /\ TermsOf \in [Values -> SUBSET Terms]

Entries == Terms \X Keys

EntriesOf(k, v) == TermsOf[v] \X {k}

VARIABLES
    pending,    \* the in-memory maps
    rows,       \* the mappings table: how many rows each entry has
    mapper      \* each thread in add: at, todo (its copy), next (the entry to
                \* insert), own (its entries), quiet (history: no other call
                \* and no deletion overlapped with this one, no INSERT failed)

mapVars == <<pending, rows, mapper>>

Off == [at |-> "off", todo |-> {}, next |-> {}, own |-> {}, quiet |-> TRUE]

MapInit ==
    /\ pending = {}
    /\ rows = [e \in Entries |-> 0]
    /\ mapper = [t \in Threads |-> Off]

Mapping == {t \in Threads : mapper[t].at # "off"}

\* The push under the unique lock of the category.
Add(t, k, v) ==
    /\ mapper[t].at = "off"
    /\ pending' = pending \cup EntriesOf(k, v)
    /\ mapper' = [u \in Threads |->
          IF u = t THEN [at |-> "copy", todo |-> {}, next |-> {},
                         own |-> EntriesOf(k, v), quiet |-> Mapping = {}]
          ELSE [mapper[u] EXCEPT !.quiet = @ /\ mapper[u].at = "off"]]
    /\ UNCHANGED rows

\* sync: the copy under the shared lock.
Copy(t) ==
    /\ mapper[t].at = "copy"
    /\ mapper' = [mapper EXCEPT ![t].at = "select", ![t].todo = pending]
    /\ UNCHANGED <<pending, rows>>

\* Variant: the row is inserted without looking for an existing one.
SelectAlways(t) ==
    /\ mapper[t].at = "select"
    /\ \E e \in mapper[t].todo :
          mapper' = [mapper EXCEPT ![t].at = "insert", ![t].next = {e}]
    /\ UNCHANGED <<pending, rows>>

\* Variant: the test for an existing row is inverted.
SelectInverted(t) ==
    /\ mapper[t].at = "select"
    /\ \E e \in mapper[t].todo :
          mapper' = IF rows[e] = 0
                    THEN [mapper EXCEPT ![t].todo = @ \ {e}]
                    ELSE [mapper EXCEPT ![t].at = "insert", ![t].next = {e}]
    /\ UNCHANGED <<pending, rows>>

\* SELECT COUNT for an entry of the copy: a row exists and the entry is done, or
\* it is to be inserted.
Select(t) ==
    /\ mapper[t].at = "select"
    /\ \E e \in mapper[t].todo :
          mapper' = IF rows[e] > 0
                    THEN [mapper EXCEPT ![t].todo = @ \ {e}]
                    ELSE [mapper EXCEPT ![t].at = "insert", ![t].next = {e}]
    /\ UNCHANGED <<pending, rows>>

\* INSERT of that entry, a statement of its own.
Insert(t) ==
    /\ mapper[t].at = "insert"
    /\ rows' = [e \in Entries |-> IF e \in mapper[t].next THEN rows[e] + 1
                                  ELSE rows[e]]
    /\ mapper' = [mapper EXCEPT ![t].at = "select", ![t].next = {},
                                ![t].todo = @ \ mapper[t].next]
    /\ UNCHANGED pending

\* The INSERT fails (the GUI has the database locked, the disk is full): sync does
\* not look at the result and goes on.
InsertFails(t) ==
    /\ mapper[t].at = "insert"
    /\ mapper' = [mapper EXCEPT ![t].at = "select", ![t].next = {}, ![t].quiet = FALSE,
                                ![t].todo = @ \ mapper[t].next]
    /\ UNCHANGED <<pending, rows>>

\* clear_cache: every map is cleared, with what other threads pushed since the
\* copy.
ClearCache(t) ==
    /\ mapper[t].at = "select"
    /\ mapper[t].todo = {}
    /\ pending' = {}
    /\ mapper' = [mapper EXCEPT ![t] = Off]
    /\ UNCHANGED rows

\* DELETE FROM mappings WHERE key = k, by a thread outside add.
DeleteRows(k) ==
    /\ rows' = [e \in Entries |-> IF e[2] = k THEN 0 ELSE rows[e]]
    /\ mapper' = [t \in Threads |->
          [mapper[t] EXCEPT !.quiet = @ /\ mapper[t].at = "off"]]
    /\ UNCHANGED pending
=============================================================================
