------------------------------ MODULE ArrayList ------------------------------
(***************************************************************************)
(* src/server/arraylist.c: the list of clients, keyed by descriptor, and   *)
(* the list of processes, keyed by process id, as two parallel arrays that *)
(* grow.  list_remove puts the last element in the place of the removed    *)
(* one.                                                                    *)
(***************************************************************************)
EXTENDS Integers, Sequences

CONSTANTS
  Keys,          \* descriptors or process ids
  Values,        \* what a void* in the list may point to
  Null,          \* the NULL of list_lookup
  Unset,         \* contents of a cell never written
  ListCapacity,  \* the argument of init_list
  MaxListLen     \* bound: list_append is called only below this length

ASSUME ListAssumption ==
  /\ ListCapacity \in Nat \ {0}
  /\ MaxListLen \in Nat
  /\ Unset \notin Values /\ Unset \notin Keys

VARIABLES
  key,       \* l->key
  ldata,     \* l->data
  llen,      \* l->len
  lcapacity, \* l->capacity
  call       \* the last call and what it has returned

listVars == <<key, ldata, llen, lcapacity, call>>

InitList ==
  /\ lcapacity = ListCapacity
  /\ llen = 0
  /\ key = [i \in 0 .. ListCapacity - 1 |-> Unset]
  /\ ldata = [i \in 0 .. ListCapacity - 1 |-> Unset]
  /\ call = Null

\* the indices that list_lookup_index may find: it returns the first
Holding(k) == {i \in 0 .. llen - 1 : key[i] = k}
list_lookup_index(k) == CHOOSE i \in Holding(k) : \A j \in Holding(k) : i <= j

ListLookup(k) ==
  /\ call' = [op |-> "lookup", key |-> k,
              ret |-> IF Holding(k) = {} THEN Null ELSE ldata[list_lookup_index(k)]]
  /\ UNCHANGED <<key, ldata, llen, lcapacity>>

\* mutant: the last element is the one that is removed
MutTruncates(k) ==
  /\ IF Holding(k) = {} THEN UNCHANGED llen ELSE llen' = llen - 1
  /\ call' = [op |-> "remove", key |-> k]
  /\ UNCHANGED <<key, ldata, lcapacity>>

ListRemove(k) ==
  /\ IF Holding(k) = {} THEN UNCHANGED <<key, ldata, llen>>
     ELSE LET i == list_lookup_index(k) IN
          /\ llen' = llen - 1
          /\ key' = [key EXCEPT ![i] = key[llen - 1]]
          /\ ldata' = [ldata EXCEPT ![i] = ldata[llen - 1]]
  /\ call' = [op |-> "remove", key |-> k]
  /\ UNCHANGED lcapacity

\* list_resize: realloc keeps the old cells
Grown(a, c) == [i \in 0 .. c - 1 |-> IF i < lcapacity THEN a[i] ELSE Unset]

\* list_append.  The server never adds a key twice: a descriptor is in use, or
\* a process not waited for, as long as its element is in the list.
ListAppend(k, v) ==
  /\ llen < MaxListLen
  /\ Holding(k) = {}
  /\ LET c == IF llen = lcapacity THEN 2 * lcapacity ELSE lcapacity IN
       /\ lcapacity' = c
       /\ key' = [Grown(key, c) EXCEPT ![llen] = k]
       /\ ldata' = [Grown(ldata, c) EXCEPT ![llen] = v]
  /\ llen' = llen + 1
  /\ call' = [op |-> "append", key |-> k, arg |-> v]

ListNext ==
  \E k \in Keys : ListRemove(k) \/ ListLookup(k) \/ \E v \in Values : ListAppend(k, v)

ListSpec == InitList /\ [][ListNext]_listVars

-----------------------------------------------------------------------------
\* The arrays are never overrun and their first len cells have been written.
ListTypeOK ==
  /\ lcapacity \in Nat \ {0}
  /\ llen \in 0 .. lcapacity
  /\ key \in [0 .. lcapacity - 1 -> Keys \cup {Unset}]
  /\ ldata \in [0 .. lcapacity - 1 -> Values \cup {Unset}]
  /\ \A i \in 0 .. llen - 1 : key[i] \in Keys /\ ldata[i] \in Values

\* the map that the arrays represent
Table == [k \in {key[i] : i \in 0 .. llen - 1} |-> ldata[list_lookup_index(k)]]

\* arraylist.c implements the map: a lookup returns what was last appended
\* under the key and not removed since, whatever the order of the calls and
\* wherever the removals have moved the element.
AbstractTable == INSTANCE KeyedTable WITH table <- Table

ImplementsTable == AbstractTable!TableSpec

=============================================================================
