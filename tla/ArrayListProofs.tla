--------------------------- MODULE ArrayListProofs ---------------------------
(***************************************************************************)
(* Proofs about arraylist.c: for any keys, values and initial capacity the *)
(* two arrays are well formed and implement the finite map.                *)
(***************************************************************************)
EXTENDS ArrayList, TLAPS

\* Moving the last element over the removed one leaves no key twice.  Without
\* this the removal of a key would uncover an older element of the same key.
KeysUnique == \A i, j \in 0 .. llen - 1 : key[i] = key[j] => i = j

ListInv == ListTypeOK /\ KeysUnique

\* With unique keys the index that is found is the one that holds the key.
LEMMA IndexOf ==
  ASSUME ListInv, NEW k
  PROVE  /\ \A i \in Holding(k) : list_lookup_index(k) = i
         /\ Holding(k) # {} => list_lookup_index(k) \in Holding(k)
<1>1. ASSUME NEW i \in Holding(k) PROVE list_lookup_index(k) = i
  <2>1. \A j \in Holding(k) : j = i /\ j \in Int
    BY DEF Holding, ListInv, ListTypeOK, KeysUnique
  <2>2. \A j \in Holding(k) : i <= j
    BY <2>1
  <2>3. list_lookup_index(k) \in Holding(k)
    BY <2>2 DEF list_lookup_index
  <2> QED BY <2>1, <2>3
<1> QED BY <1>1

LEMMA InitListInv == InitList => ListInv
BY ListAssumption DEF InitList, ListInv, ListTypeOK, KeysUnique

\* What the calls do to the first len cells.
LEMMA RemoveOf ==
  ASSUME ListInv, NEW k, ListRemove(k), Holding(k) # {}
  PROVE  \E i \in 0 .. llen - 1 :
           /\ key[i] = k
           /\ llen' = llen - 1 /\ llen \in Nat \ {0}
           /\ \A j \in 0 .. llen' - 1 :
                /\ key'[j] = IF j = i THEN key[llen - 1] ELSE key[j]
                /\ ldata'[j] = IF j = i THEN ldata[llen - 1] ELSE ldata[j]
<1> DEFINE i == list_lookup_index(k)
<1>1. i \in 0 .. llen - 1 /\ key[i] = k
  BY IndexOf DEF Holding
<1>2. /\ llen' = llen - 1
      /\ key' = [key EXCEPT ![i] = key[llen - 1]]
      /\ ldata' = [ldata EXCEPT ![i] = ldata[llen - 1]]
  BY DEF ListRemove
<1> HIDE DEF i
<1>3. llen \in Nat \ {0} /\ llen <= lcapacity /\ lcapacity \in Nat
  BY <1>1 DEF ListInv, ListTypeOK
<1>4. \A j \in 0 .. llen' - 1 :
        /\ key'[j] = IF j = i THEN key[llen - 1] ELSE key[j]
        /\ ldata'[j] = IF j = i THEN ldata[llen - 1] ELSE ldata[j]
  BY <1>1, <1>2, <1>3 DEF ListInv, ListTypeOK
<1> QED BY <1>1, <1>2, <1>3, <1>4

LEMMA AppendOf ==
  ASSUME ListInv, NEW k \in Keys, NEW v \in Values, ListAppend(k, v)
  PROVE  /\ llen' = llen + 1 /\ llen \in Nat
         /\ lcapacity' \in Nat \ {0} /\ llen' <= lcapacity'
         /\ key' \in [0 .. lcapacity' - 1 -> Keys \cup {Unset}]
         /\ ldata' \in [0 .. lcapacity' - 1 -> Values \cup {Unset}]
         /\ key'[llen] = k /\ ldata'[llen] = v
         /\ \A j \in 0 .. llen - 1 : key'[j] = key[j] /\ ldata'[j] = ldata[j]
<1> DEFINE c == IF llen = lcapacity THEN 2 * lcapacity ELSE lcapacity
<1>1. /\ lcapacity' = c /\ llen' = llen + 1
      /\ key' = [Grown(key, c) EXCEPT ![llen] = k]
      /\ ldata' = [Grown(ldata, c) EXCEPT ![llen] = v]
  BY DEF ListAppend
<1>2. /\ llen \in Nat /\ lcapacity \in Nat \ {0} /\ llen <= lcapacity
      /\ c \in Nat \ {0} /\ llen + 1 <= c /\ lcapacity <= c
  BY DEF ListInv, ListTypeOK
<1> HIDE DEF c
<1>3. Grown(key, c) \in [0 .. c - 1 -> Keys \cup {Unset}]
  BY <1>2 DEF Grown, ListInv, ListTypeOK
<1>4. Grown(ldata, c) \in [0 .. c - 1 -> Values \cup {Unset}]
  BY <1>2 DEF Grown, ListInv, ListTypeOK
<1>5. \A j \in 0 .. llen - 1 : Grown(key, c)[j] = key[j] /\ Grown(ldata, c)[j] = ldata[j]
  BY <1>2 DEF Grown
<1>6. llen \in 0 .. c - 1 /\ \A j \in 0 .. llen - 1 : j \in 0 .. c - 1 /\ j # llen
  BY <1>2
<1>7. /\ key' \in [0 .. c - 1 -> Keys \cup {Unset}] /\ key'[llen] = k
      /\ \A j \in 0 .. llen - 1 : key'[j] = key[j]
  BY <1>1, <1>3, <1>5, <1>6
<1>8. /\ ldata' \in [0 .. c - 1 -> Values \cup {Unset}] /\ ldata'[llen] = v
      /\ \A j \in 0 .. llen - 1 : ldata'[j] = ldata[j]
  BY <1>1, <1>4, <1>5, <1>6
<1> QED BY <1>1, <1>2, <1>7, <1>8

LEMMA NextListInv == ListInv /\ [ListNext]_listVars => ListInv'
<1> SUFFICES ASSUME ListInv, [ListNext]_listVars PROVE ListInv'
  OBVIOUS
<1>0. /\ llen \in Nat /\ lcapacity \in Nat \ {0} /\ llen <= lcapacity
      /\ \A i \in 0 .. llen - 1 : key[i] \in Keys /\ ldata[i] \in Values
      /\ \A i, j \in 0 .. llen - 1 : key[i] = key[j] => i = j
  BY DEF ListInv, ListTypeOK, KeysUnique
<1>1. ASSUME NEW k \in Keys, ListRemove(k) PROVE ListInv'
  <2>1. CASE Holding(k) = {}
    BY <1>1, <2>1 DEF ListRemove, ListInv, ListTypeOK, KeysUnique
  <2>2. CASE Holding(k) # {}
    <3>1. PICK i \in 0 .. llen - 1 :
             /\ key[i] = k
             /\ llen' = llen - 1 /\ llen \in Nat \ {0}
             /\ \A j \in 0 .. llen' - 1 :
                  /\ key'[j] = IF j = i THEN key[llen - 1] ELSE key[j]
                  /\ ldata'[j] = IF j = i THEN ldata[llen - 1] ELSE ldata[j]
      BY <1>1, <2>2, RemoveOf
    <3>2. \A j \in 0 .. llen' - 1 : j \in 0 .. llen - 1 /\ j # llen - 1
      BY <1>0, <3>1
    <3>3. llen - 1 \in 0 .. llen - 1
      BY <3>1
    <3>4. \A j \in 0 .. llen' - 1 : key'[j] \in Keys /\ ldata'[j] \in Values
      BY <1>0, <3>1, <3>2, <3>3
    <3>5. KeysUnique'
      <4> SUFFICES ASSUME NEW a \in 0 .. llen' - 1, NEW b \in 0 .. llen' - 1, key'[a] = key'[b]
                   PROVE  a = b
        BY DEF KeysUnique
      <4>1. CASE a = i
        BY <1>0, <3>1, <3>2, <3>3, <4>1
      <4>2. CASE b = i
        BY <1>0, <3>1, <3>2, <3>3, <4>2
      <4>3. CASE a # i /\ b # i
        BY <1>0, <3>1, <3>2, <4>3
      <4> QED BY <4>1, <4>2, <4>3
    <3>6. /\ lcapacity' = lcapacity
          /\ key' \in [0 .. lcapacity - 1 -> Keys \cup {Unset}]
          /\ ldata' \in [0 .. lcapacity - 1 -> Values \cup {Unset}]
      <4>1. key[llen - 1] \in Keys /\ ldata[llen - 1] \in Values
        BY <1>0, <3>3
      <4> QED BY <1>1, <2>2, <4>1 DEF ListRemove, ListInv, ListTypeOK
    <3>7. llen' \in 0 .. lcapacity'
      BY <1>0, <3>1, <3>6
    <3> QED BY <1>0, <3>4, <3>5, <3>6, <3>7 DEF ListInv, ListTypeOK
  <2> QED BY <2>1, <2>2
<1>2. ASSUME NEW k \in Keys, ListLookup(k) PROVE ListInv'
  BY <1>2 DEF ListLookup, ListInv, ListTypeOK, KeysUnique
<1>3. ASSUME NEW k \in Keys, NEW v \in Values, ListAppend(k, v) PROVE ListInv'
  <2>1. /\ llen' = llen + 1
        /\ lcapacity' \in Nat \ {0} /\ llen' <= lcapacity'
        /\ key' \in [0 .. lcapacity' - 1 -> Keys \cup {Unset}]
        /\ ldata' \in [0 .. lcapacity' - 1 -> Values \cup {Unset}]
        /\ key'[llen] = k /\ ldata'[llen] = v
        /\ \A j \in 0 .. llen - 1 : key'[j] = key[j] /\ ldata'[j] = ldata[j]
    BY <1>3, AppendOf
  <2>2. \A j \in 0 .. llen' - 1 : j = llen \/ j \in 0 .. llen - 1
    BY <1>0, <2>1
  <2>3. \A j \in 0 .. llen - 1 : key[j] # k
    <3>1. Holding(k) = {}
      BY <1>3 DEF ListAppend
    <3> QED BY <3>1 DEF Holding
  <2>4. \A j \in 0 .. llen' - 1 : key'[j] \in Keys /\ ldata'[j] \in Values
    BY <1>0, <2>1, <2>2
  <2>5. KeysUnique'
    <3> SUFFICES ASSUME NEW a \in 0 .. llen' - 1, NEW b \in 0 .. llen' - 1, key'[a] = key'[b]
                 PROVE  a = b
      BY DEF KeysUnique
    <3>1. CASE a = llen
      BY <2>1, <2>2, <2>3, <3>1
    <3>2. CASE b = llen
      BY <2>1, <2>2, <2>3, <3>2
    <3>3. CASE a \in 0 .. llen - 1 /\ b \in 0 .. llen - 1
      BY <1>0, <2>1, <3>3
    <3> QED BY <2>2, <3>1, <3>2, <3>3
  <2>6. llen' \in 0 .. lcapacity'
    BY <1>0, <2>1
  <2> QED BY <2>1, <2>4, <2>5, <2>6 DEF ListInv, ListTypeOK
<1>4. CASE UNCHANGED listVars
  BY <1>4 DEF listVars, ListInv, ListTypeOK, KeysUnique
<1> QED BY <1>1, <1>2, <1>3, <1>4 DEF ListNext

LEMMA ListInvAlways == ListSpec => []ListInv
BY InitListInv, NextListInv, PTL DEF ListSpec

\* The arrays of a list are never overrun, for any capacity that init_list is
\* given, and every element that counts has been written.
THEOREM ListSafe == ListSpec => []ListTypeOK
BY ListInvAlways, PTL DEF ListInv

-----------------------------------------------------------------------------
(* The refinement *)

\* the map in terms of the cells
TableCells ==
  /\ DOMAIN Table = {key[i] : i \in 0 .. llen - 1}
  /\ Table = [x \in DOMAIN Table |-> Table[x]]
  /\ \A i \in 0 .. llen - 1 : Table[key[i]] = ldata[i]

LEMMA TableOf == ListInv => TableCells
<1> SUFFICES ASSUME ListInv PROVE TableCells
  OBVIOUS
<1>1. DOMAIN Table = {key[i] : i \in 0 .. llen - 1}
  BY DEF Table
<1>2. \A k \in DOMAIN Table : Table[k] = ldata[list_lookup_index(k)]
  BY DEF Table
<1>3. Table = [x \in DOMAIN Table |-> Table[x]]
  BY DEF Table
<1>4. ASSUME NEW i \in 0 .. llen - 1 PROVE Table[key[i]] = ldata[i]
  <2>1. i \in Holding(key[i]) /\ key[i] \in DOMAIN Table
    BY <1>1 DEF Holding
  <2>2. list_lookup_index(key[i]) = i
    BY <2>1, IndexOf
  <2> QED BY <1>2, <2>1, <2>2
<1> QED BY <1>1, <1>3, <1>4 DEF TableCells

LEMMA ListStepIsTableStep ==
  ASSUME ListInv, TableCells, ListInv', TableCells', [ListNext]_listVars
  PROVE  [AbstractTable!TableNext]_(AbstractTable!tableVars)
<1>0. /\ llen \in Nat
      /\ \A i, j \in 0 .. llen - 1 : key[i] = key[j] => i = j
      /\ DOMAIN Table = {key[i] : i \in 0 .. llen - 1}
      /\ Table = [x \in DOMAIN Table |-> Table[x]]
      /\ \A i \in 0 .. llen - 1 : Table[key[i]] = ldata[i]
      /\ DOMAIN Table' = {key'[i] : i \in 0 .. llen' - 1}
      /\ Table' = [x \in DOMAIN Table' |-> Table'[x]]
      /\ \A i \in 0 .. llen' - 1 : Table'[key'[i]] = ldata'[i]
  BY DEF ListInv, ListTypeOK, KeysUnique, TableCells
<1>1. ASSUME UNCHANGED <<key, ldata, llen>> PROVE Table' = Table
  BY <1>1 DEF Table, list_lookup_index, Holding
<1>2. ASSUME NEW k \in Keys, ListRemove(k)
      PROVE  AbstractTable!TableRemove(k)
  <2>1. Table' = [x \in DOMAIN Table \ {k} |-> Table[x]]
    <3>1. CASE Holding(k) = {}
      <4>1. Table' = Table
        BY <1>1, <1>2, <3>1 DEF ListRemove
      <4>2. k \notin DOMAIN Table
        BY <1>0, <3>1 DEF Holding
      <4>3. DOMAIN Table \ {k} = DOMAIN Table
        BY <4>2
      <4> QED BY <1>0, <4>1, <4>3
    <3>2. CASE Holding(k) # {}
      <4>1. PICK i \in 0 .. llen - 1 :
               /\ key[i] = k
               /\ llen' = llen - 1 /\ llen \in Nat \ {0}
               /\ \A j \in 0 .. llen' - 1 :
                    /\ key'[j] = IF j = i THEN key[llen - 1] ELSE key[j]
                    /\ ldata'[j] = IF j = i THEN ldata[llen - 1] ELSE ldata[j]
        BY <1>2, <3>2, RemoveOf
      <4> DEFINE from(j) == IF j = i THEN llen - 1 ELSE j
      <4>2. \A j \in 0 .. llen' - 1 :
              from(j) \in 0 .. llen - 1 /\ key'[j] = key[from(j)] /\ ldata'[j] = ldata[from(j)]
              /\ from(j) # i
        BY <4>1
      <4>3. \A m \in 0 .. llen - 1 : m # i => \E j \in 0 .. llen' - 1 : from(j) = m
        <5> SUFFICES ASSUME NEW m \in 0 .. llen - 1, m # i
                     PROVE  \E j \in 0 .. llen' - 1 : from(j) = m
          OBVIOUS
        <5>1. CASE m = llen - 1
          <6>1. i \in 0 .. llen' - 1 /\ from(i) = m
            BY <4>1, <5>1
          <6> QED BY <6>1
        <5>2. CASE m # llen - 1
          <6>1. m \in 0 .. llen' - 1 /\ from(m) = m
            BY <4>1, <5>2
          <6> QED BY <6>1
        <5> QED BY <5>1, <5>2
      <4> HIDE DEF from
      <4>4. DOMAIN Table' = DOMAIN Table \ {k}
        <5>1. \A x \in DOMAIN Table' : x \in DOMAIN Table /\ x # k
          BY <1>0, <4>1, <4>2
        <5>2. \A x \in DOMAIN Table \ {k} : x \in DOMAIN Table'
          BY <1>0, <4>1, <4>2, <4>3
        <5> QED BY <5>1, <5>2
      <4>5. \A x \in DOMAIN Table' : Table'[x] = Table[x]
        BY <1>0, <4>2
      <4> QED BY <1>0, <4>4, <4>5
    <3> QED BY <3>1, <3>2
  <2>2. call' = [op |-> "remove", key |-> k]
    BY <1>2 DEF ListRemove
  <2> QED BY <2>1, <2>2 DEF AbstractTable!TableRemove
<1>3. ASSUME NEW k \in Keys, ListLookup(k)
      PROVE  AbstractTable!TableLookup(k)
  <2>1. Table' = Table
    BY <1>1, <1>3 DEF ListLookup
  <2>2. (IF Holding(k) = {} THEN Null ELSE ldata[list_lookup_index(k)])
          = (IF k \in DOMAIN Table THEN Table[k] ELSE Null)
    <3>1. CASE Holding(k) = {}
      <4>1. k \notin DOMAIN Table
        BY <1>0, <3>1 DEF Holding
      <4> QED BY <3>1, <4>1
    <3>2. CASE Holding(k) # {}
      <4>1. list_lookup_index(k) \in Holding(k)
        BY <3>2, IndexOf
      <4>2. k \in DOMAIN Table /\ Table[k] = ldata[list_lookup_index(k)]
        BY <1>0, <4>1 DEF Holding
      <4> QED BY <3>2, <4>2
    <3> QED BY <3>1, <3>2
  <2> QED BY <1>3, <2>1, <2>2 DEF ListLookup, AbstractTable!TableLookup
<1>4. ASSUME NEW k \in Keys, NEW v \in Values, ListAppend(k, v)
      PROVE  AbstractTable!TableAdd(k, v)
  <2>1. /\ llen' = llen + 1
        /\ key'[llen] = k /\ ldata'[llen] = v
        /\ \A j \in 0 .. llen - 1 : key'[j] = key[j] /\ ldata'[j] = ldata[j]
    BY <1>4, AppendOf
  <2>2. k \notin DOMAIN Table
    <3>1. Holding(k) = {}
      BY <1>4 DEF ListAppend
    <3> QED BY <1>0, <3>1 DEF Holding
  <2>3. /\ \A j \in 0 .. llen' - 1 : j = llen \/ j \in 0 .. llen - 1
        /\ llen \in 0 .. llen' - 1
        /\ \A j \in 0 .. llen - 1 : j \in 0 .. llen' - 1
    BY <1>0, <2>1
  <2>4. DOMAIN Table' = DOMAIN Table \cup {k}
    <3>1. \A x \in DOMAIN Table' : x \in DOMAIN Table \/ x = k
      BY <1>0, <2>1, <2>3
    <3>2. \A x \in DOMAIN Table : x \in DOMAIN Table'
      BY <1>0, <2>1, <2>3
    <3>3. k \in DOMAIN Table'
      BY <1>0, <2>1, <2>3
    <3> QED BY <3>1, <3>2, <3>3
  <2>5. Table'[k] = v /\ \A x \in DOMAIN Table : Table'[x] = Table[x]
    BY <1>0, <2>1, <2>3
  <2>6. Table' = [x \in DOMAIN Table \cup {k} |-> IF x = k THEN v ELSE Table[x]]
    <3>1. \A x \in DOMAIN Table \cup {k} : Table'[x] = IF x = k THEN v ELSE Table[x]
      BY <2>2, <2>5
    <3> QED BY <1>0, <2>4, <3>1
  <2>7. call' = [op |-> "append", key |-> k, arg |-> v]
    BY <1>4 DEF ListAppend
  <2> QED BY <2>2, <2>6, <2>7 DEF AbstractTable!TableAdd
<1>5. CASE UNCHANGED listVars
  BY <1>1, <1>5 DEF listVars, AbstractTable!tableVars
<1> QED BY <1>2, <1>3, <1>4, <1>5 DEF ListNext, AbstractTable!TableNext

\* arraylist.c implements a finite map: what list_lookup returns is what was
\* appended under the key and not removed since.
THEOREM ListImplementsTable == ListSpec => ImplementsTable
<1>1. InitList => AbstractTable!TableInit
  <2> SUFFICES ASSUME InitList PROVE AbstractTable!TableInit
    OBVIOUS
  <2>1. llen = 0 /\ call = Null
    BY DEF InitList
  <2>2. {key[i] : i \in 0 .. llen - 1} = {}
    BY <2>1
  <2>3. Table = [k \in {} |-> Null]
    BY <2>2 DEF Table
  <2> QED BY <2>1, <2>3 DEF AbstractTable!TableInit
<1>2. ListInv /\ TableCells /\ ListInv' /\ TableCells' /\ [ListNext]_listVars
        => [AbstractTable!TableNext]_(AbstractTable!tableVars)
  BY ListStepIsTableStep
<1> QED BY <1>1, <1>2, ListInvAlways, TableOf, PTL
    DEF ListSpec, ImplementsTable, AbstractTable!TableSpec

=============================================================================
