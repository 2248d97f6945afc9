----------------------------- MODULE KeyedTable -----------------------------
(***************************************************************************)
(* What the server relies on when it keeps its clients by descriptor and   *)
(* its processes by process id: a finite map.                              *)
(***************************************************************************)
CONSTANTS
  Keys,    \* descriptors or process ids
  Values,  \* what a void* in the list may point to
  Null     \* the NULL of list_lookup

VARIABLES
  table,   \* the map
  call     \* the last call and what it has returned

tableVars == <<table, call>>

TableInit ==
  /\ table = [k \in {} |-> Null]
  /\ call = Null

TableAdd(k, v) ==
  /\ k \notin DOMAIN table
  /\ table' = [x \in DOMAIN table \cup {k} |-> IF x = k THEN v ELSE table[x]]
  /\ call' = [op |-> "append", key |-> k, arg |-> v]

TableRemove(k) ==
  /\ table' = [x \in DOMAIN table \ {k} |-> table[x]]
  /\ call' = [op |-> "remove", key |-> k]

TableLookup(k) ==
  /\ call' = [op |-> "lookup", key |-> k,
              ret |-> IF k \in DOMAIN table THEN table[k] ELSE Null]
  /\ UNCHANGED table

TableNext ==
  \E k \in Keys : TableRemove(k) \/ TableLookup(k) \/ \E v \in Values : TableAdd(k, v)

TableSpec == TableInit /\ [][TableNext]_tableVars

=============================================================================
