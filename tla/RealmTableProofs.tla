--------------------------- MODULE RealmTableProofs ---------------------------
(***************************************************************************)
(* What deleting from a table, adding to it and looking in it do, for      *)
(* tables of any rows: the lemmas the proofs about the store and about the *)
(* app rest on.                                                            *)
(***************************************************************************)
EXTENDS RealmTable, TLAPS

\* Deleting row i of a table yields a table with one row less.
LEMMA MoveLastOverType ==
  ASSUME NEW S, NEW rows \in Seq(S), NEW i \in DOMAIN rows
  PROVE  /\ MoveLastOver(rows, i) \in Seq(S)
         /\ Len(MoveLastOver(rows, i)) = Len(rows) - 1
         /\ DOMAIN MoveLastOver(rows, i) = 1 .. Len(rows) - 1
         /\ \A j \in 1 .. Len(rows) - 1 :
              MoveLastOver(rows, i)[j] = IF j = i THEN rows[Len(rows)] ELSE rows[j]
<1> DEFINE out == MoveLastOver(rows, i)
<1>1. Len(rows) \in Nat /\ DOMAIN rows = 1 .. Len(rows) /\ i \in 1 .. Len(rows)
  OBVIOUS
<1>2. \A j \in 1 .. Len(rows) : rows[j] \in S
  OBVIOUS
<1>3. out = [j \in 1 .. Len(rows) - 1 |-> IF j = i THEN rows[Len(rows)] ELSE rows[j]]
  BY DEF MoveLastOver
<1>4. Len(rows) - 1 \in Nat
  BY <1>1
<1>5. out \in [1 .. Len(rows) - 1 -> S]
  BY <1>1, <1>2, <1>3
<1>6. out \in Seq(S) /\ Len(out) = Len(rows) - 1
  BY <1>4, <1>5
<1> QED
  BY <1>3, <1>6

\* An accessor that is not detached by the deletion still stands for its row.
LEMMA MovedAccessorKeepsRow ==
  ASSUME NEW S, NEW rows \in Seq(S), NEW i \in DOMAIN rows, NEW p \in DOMAIN rows,
         MovedAccessor(p, i, Len(rows)) # Detached
  PROVE  /\ MovedAccessor(p, i, Len(rows)) \in DOMAIN MoveLastOver(rows, i)
         /\ MoveLastOver(rows, i)[MovedAccessor(p, i, Len(rows))] = rows[p]
<1> DEFINE out == MoveLastOver(rows, i)
           n == Len(rows)
           q == MovedAccessor(p, i, n)
<1>1. n \in Nat /\ DOMAIN rows = 1 .. n /\ i \in 1 .. n /\ p \in 1 .. n
  OBVIOUS
<1>2. /\ DOMAIN out = 1 .. n - 1
      /\ \A j \in 1 .. n - 1 : out[j] = IF j = i THEN rows[n] ELSE rows[j]
  BY MoveLastOverType
<1>3. p # i /\ q = IF p = n THEN i ELSE p
  BY DEF MovedAccessor
<1>4. q \in 1 .. n - 1
  <2> HIDE DEF n, out
  <2> QED
    BY <1>1, <1>3
<1>5. out[q] = rows[p]
  <2> HIDE DEF n, out, q
  <2> QED
    BY <1>1, <1>2, <1>3, <1>4
<1> QED
  BY <1>2, <1>4, <1>5

\* Deleting row i removes the row with its key, no other, and keeps keys unique.
LEMMA MoveLastOverRemovesKey ==
  ASSUME NEW S, NEW rows \in Seq(S), NEW i \in DOMAIN rows, UniqueKeys(rows)
  PROVE  /\ UniqueKeys(MoveLastOver(rows, i))
         /\ RowSet(MoveLastOver(rows, i)) = {r \in RowSet(rows) : r.id # rows[i].id}
<1> DEFINE out == MoveLastOver(rows, i)
           n == Len(rows)
           from(j) == IF j = i THEN n ELSE j
<1>1. n \in Nat /\ DOMAIN rows = 1 .. n /\ i \in 1 .. n
  OBVIOUS
<1>2. DOMAIN out = 1 .. n - 1 /\ \A j \in 1 .. n - 1 : out[j] = rows[from(j)]
  BY MoveLastOverType
<1>3. \A j \in 1 .. n - 1 : from(j) \in 1 .. n /\ from(j) # i
  BY <1>1
<1>4. \A j, k \in 1 .. n - 1 : from(j) = from(k) => j = k
  BY <1>1
<1>5. UniqueKeys(out)
  <2> SUFFICES ASSUME NEW j \in 1 .. n - 1, NEW k \in 1 .. n - 1, out[j].id = out[k].id
               PROVE  j = k
    BY <1>2 DEF UniqueKeys
  <2>1. from(j) = from(k)
    BY <1>1, <1>2, <1>3 DEF UniqueKeys
  <2> QED
    BY <2>1, <1>4
<1>6. RowSet(out) \subseteq {r \in RowSet(rows) : r.id # rows[i].id}
  BY <1>1, <1>2, <1>3 DEF RowSet, UniqueKeys
<1>7. {r \in RowSet(rows) : r.id # rows[i].id} \subseteq RowSet(out)
  <2> SUFFICES ASSUME NEW q \in 1 .. n, rows[q].id # rows[i].id
               PROVE  \E j \in 1 .. n - 1 : out[j] = rows[q]
    BY <1>1, <1>2 DEF RowSet
  <2>1. q # i
    OBVIOUS
  <2>2. CASE q = n
    <3>1. i \in 1 .. n - 1 /\ out[i] = rows[q]
      BY <1>1, <1>2, <2>1, <2>2
    <3> QED
      BY <3>1
  <2>3. CASE q # n
    <3>1. q \in 1 .. n - 1
      <4> HIDE DEF n
      <4> QED
        BY <1>1, <2>3
    <3>2. out[q] = rows[q]
      BY <1>2, <2>1, <3>1
    <3> QED
      BY <3>1, <3>2
  <2> QED
    BY <2>2, <2>3
<1> QED
  BY <1>5, <1>6, <1>7

\* Appending a row with a new key adds that row and keeps keys unique.
LEMMA AppendAddsKey ==
  ASSUME NEW S, NEW rows \in Seq(S), NEW r \in S, UniqueKeys(rows), ~HasKey(rows, r.id)
  PROVE  /\ UniqueKeys(Append(rows, r))
         /\ RowSet(Append(rows, r)) = RowSet(rows) \cup {r}
<1> DEFINE out == Append(rows, r)
<1>1. /\ Len(rows) \in Nat /\ DOMAIN rows = 1 .. Len(rows)
      /\ DOMAIN out = 1 .. Len(rows) + 1
      /\ out[Len(rows) + 1] = r
      /\ \A j \in 1 .. Len(rows) : out[j] = rows[j]
  OBVIOUS
<1>2. UniqueKeys(out)
  BY <1>1 DEF UniqueKeys, HasKey
<1>3. RowSet(out) = RowSet(rows) \cup {r}
  <2>1. RowSet(out) \subseteq RowSet(rows) \cup {r}
    BY <1>1 DEF RowSet
  <2>2. RowSet(rows) \subseteq RowSet(out)
    BY <1>1 DEF RowSet
  <2>3. r \in RowSet(out)
    BY <1>1 DEF RowSet
  <2> QED
    BY <2>1, <2>2, <2>3
<1> QED
  BY <1>2, <1>3

\* find_first returns a row with the key, if there is one.
LEMMA FirstRowFindsKey ==
  ASSUME NEW S, NEW rows \in Seq(S), NEW k, UniqueKeys(rows), HasKey(rows, k)
  PROVE  FirstRow(rows, k) \in DOMAIN rows /\ rows[FirstRow(rows, k)].id = k
<1>1. PICK i \in DOMAIN rows : rows[i].id = k
  BY DEF HasKey
<1>2. \A j \in DOMAIN rows : rows[j].id = k => i <= j
  BY <1>1 DEF UniqueKeys
<1> QED
  BY <1>1, <1>2 DEF FirstRow
===============================================================================
