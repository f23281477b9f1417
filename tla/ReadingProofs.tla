---------------------------- MODULE ReadingProofs ----------------------------
(***************************************************************************)
(* Proofs about what is read: pages that several tables fill, for any       *)
(* tables, rows and size of a page; the accounts that are found; the        *)
(* timelines; the notifications; the public pages, their threads and the    *)
(* sitemap.                                                                 *)
(***************************************************************************)
EXTENDS Reading, FiniteSetTheorems, WellFoundedInduction, TLAPS

(* The first elements of a set in an order *)

\* A relation that orders a set strictly and totally.
Orders(R, S) ==
    /\ \A a \in S : <<a, a>> \notin R
    /\ \A a, b, c \in S : <<a, b>> \in R /\ <<b, c>> \in R => <<a, c>> \in R
    /\ \A a, b \in S : a # b => <<a, b>> \in R \/ <<b, a>> \in R

Ahead(R, S, a) == {b \in S : <<b, a>> \in R}
FirstOf(R, S, n) == {a \in S : Cardinality(Ahead(R, S, a)) < n}

\* A set of numbers has a least one.
LEMMA LeastIsThere ==
    ASSUME NEW T \in SUBSET Nat, T # {}
    PROVE  \E x \in T : \A y \in T : x <= y
<1>1. \E R : IsWellFoundedOn(R, Nat) /\ \A x, y \in Nat : x < y => <<x, y>> \in R
  <2>1. \A x, y \in Nat : x < y => <<x, y>> \in OpToRel(<, Nat)
    BY DEF OpToRel
  <2> WITNESS OpToRel(<, Nat)
  <2> QED BY <2>1, NatLessThanWellFounded
<1>2. PICK R : IsWellFoundedOn(R, Nat) /\ \A x, y \in Nat : x < y => <<x, y>> \in R
  BY <1>1
<1>3. \E x \in T : \A y \in T : ~ (<<y, x>> \in R)
  <2>1. T \subseteq Nat /\ IsWellFoundedOn(R, Nat)
    BY <1>2
  <2> QED BY <2>1, WFMin, Zenon
<1>4. PICK x \in T : \A y \in T : ~ (<<y, x>> \in R)
  BY <1>3
<1>5. x \in Nat /\ \A y \in T : y \in Nat /\ ~ (y < x)
  BY <1>2, <1>4
<1>6. \A y \in T : x <= y
  BY <1>5
<1> QED BY <1>4, <1>6

\* What is ahead of an element is finite, and is less than what is ahead of a
\* later one.
LEMMA AheadGrows ==
    ASSUME NEW R, NEW S, IsFiniteSet(S), Orders(R, S)
    PROVE  /\ \A a \in S : IsFiniteSet(Ahead(R, S, a)) /\ Cardinality(Ahead(R, S, a)) \in Nat
           /\ \A a, b \in S : <<a, b>> \in R => Cardinality(Ahead(R, S, a)) < Cardinality(Ahead(R, S, b))
           /\ \A a \in S : Cardinality(Ahead(R, S, a)) < Cardinality(S)
<1>1. \A a \in S : IsFiniteSet(Ahead(R, S, a)) /\ Cardinality(Ahead(R, S, a)) \in Nat
  <2> TAKE a \in S
  <2>1. Ahead(R, S, a) \in SUBSET S
    BY DEF Ahead
  <2> QED BY <2>1, FS_Subset, FS_CardinalityType
<1>2. ASSUME NEW a \in S, NEW T \in SUBSET S, Ahead(R, S, a) \subseteq T, a \in T
      PROVE  Cardinality(Ahead(R, S, a)) < Cardinality(T)
  <2>1. IsFiniteSet(T) /\ Cardinality(T) \in Nat
    BY FS_Subset, FS_CardinalityType
  <2>2. a \notin Ahead(R, S, a)
    BY DEF Ahead, Orders
  <2>3. Ahead(R, S, a) \in SUBSET T /\ Ahead(R, S, a) # T
    BY <1>2, <2>2
  <2>4. Cardinality(Ahead(R, S, a)) <= Cardinality(T) /\ Cardinality(T) # Cardinality(Ahead(R, S, a))
    BY <2>1, <2>3, FS_Subset
  <2> QED BY <1>1, <2>1, <2>4
<1>3. ASSUME NEW a \in S, NEW b \in S, <<a, b>> \in R
      PROVE  Cardinality(Ahead(R, S, a)) < Cardinality(Ahead(R, S, b))
  <2>1. Ahead(R, S, a) \subseteq Ahead(R, S, b) /\ a \in Ahead(R, S, b) /\ Ahead(R, S, b) \in SUBSET S
    BY <1>3 DEF Ahead, Orders
  <2> QED BY <1>2, <2>1
<1>4. ASSUME NEW a \in S PROVE Cardinality(Ahead(R, S, a)) < Cardinality(S)
  <2>1. Ahead(R, S, a) \subseteq S
    BY DEF Ahead
  <2> QED BY <1>2, <2>1
<1> QED BY <1>1, <1>3, <1>4

\* An order of a finite set has a first element.
LEMMA FirstIsThere ==
    ASSUME NEW R, NEW S, IsFiniteSet(S), Orders(R, S), NEW T \in SUBSET S, T # {}
    PROVE  \E a \in T : \A b \in T : a # b => <<a, b>> \in R
<1>1. PICK N \in SUBSET Nat : N = {Cardinality(Ahead(R, S, a)) : a \in T} /\ N # {}
  <2>1. {Cardinality(Ahead(R, S, a)) : a \in T} \in SUBSET Nat /\ {Cardinality(Ahead(R, S, a)) : a \in T} # {}
    BY AheadGrows
  <2> QED BY <2>1
<1>2. PICK x \in N : \A y \in N : x <= y
  BY <1>1, LeastIsThere
<1>3. PICK a \in T : x = Cardinality(Ahead(R, S, a))
  BY <1>1, <1>2
<1>4. ASSUME NEW b \in T, a # b, <<a, b>> \notin R PROVE FALSE
  <2>1. <<b, a>> \in R
    BY <1>4 DEF Orders
  <2>2. Cardinality(Ahead(R, S, b)) < Cardinality(Ahead(R, S, a))
    BY <2>1, AheadGrows
  <2>3. Cardinality(Ahead(R, S, b)) \in N /\ Cardinality(Ahead(R, S, b)) \in Nat /\ Cardinality(Ahead(R, S, a)) \in Nat
    BY <1>1, AheadGrows
  <2>4. Cardinality(Ahead(R, S, a)) <= Cardinality(Ahead(R, S, b))
    BY <1>2, <1>3, <2>3
  <2> QED BY <2>2, <2>3, <2>4
<1> QED BY <1>4

\* The first n elements are n, or all.
LEMMA FirstAreSoMany ==
    ASSUME NEW R, NEW S, IsFiniteSet(S), Orders(R, S), NEW n \in Nat
    PROVE  /\ IsFiniteSet(FirstOf(R, S, n)) /\ Cardinality(FirstOf(R, S, n)) \in Nat
           /\ n <= Cardinality(S) => Cardinality(FirstOf(R, S, n)) = n
           /\ Cardinality(S) <= n => FirstOf(R, S, n) = S
<1> PICK F : F = FirstOf(R, S, n)
  OBVIOUS
<1>1. F \in SUBSET S /\ \A a \in S : a \in F <=> Cardinality(Ahead(R, S, a)) < n
  BY DEF FirstOf
<1>2. IsFiniteSet(F) /\ Cardinality(F) \in Nat /\ Cardinality(S) \in Nat /\ Cardinality(F) <= Cardinality(S)
  BY <1>1, FS_Subset, FS_CardinalityType
<1>3. \A a \in S : Cardinality(Ahead(R, S, a)) \in Nat /\ Cardinality(Ahead(R, S, a)) < Cardinality(S)
  BY AheadGrows
<1>4. Cardinality(S) <= n => F = S
  BY <1>1, <1>2, <1>3
<1>5. ASSUME F # S PROVE Cardinality(F) >= n
  <2>1. S \ F \in SUBSET S /\ S \ F # {}
    BY <1>1, <1>5
  <2>2. PICK a \in S \ F : \A b \in S \ F : a # b => <<a, b>> \in R
    BY <2>1, FirstIsThere
  <2>3. Ahead(R, S, a) \subseteq F
    BY <2>2 DEF Ahead, Orders
  <2>4. Cardinality(Ahead(R, S, a)) <= Cardinality(F)
    BY <1>2, <2>3, FS_Subset
  <2>5. ~ (Cardinality(Ahead(R, S, a)) < n)
    BY <1>1, <2>2
  <2> QED BY <1>2, <1>3, <2>2, <2>4, <2>5
<1>6. Cardinality(F) <= n
  <2>1. CASE F = {}
    BY <2>1, FS_EmptySet
  <2>2. CASE F # {}
    <3> PICK Q : Q = {p \in S \X S : <<p[2], p[1]>> \in R}
      OBVIOUS
    <3>1. \A a, b \in S : <<a, b>> \in Q <=> <<b, a>> \in R
      OBVIOUS
    <3>2. Orders(Q, S)
      BY <3>1 DEF Orders
    <3>3. PICK a \in F : \A b \in F : a # b => <<a, b>> \in Q
      BY <1>1, <2>2, <3>2, FirstIsThere
    <3>4. a \in S /\ F \ {a} \subseteq Ahead(R, S, a)
      BY <1>1, <3>1, <3>3 DEF Ahead
    <3>5. Cardinality(F \ {a}) = Cardinality(F) - 1
      BY <1>2, <3>3, FS_RemoveElement
    <3>6. Cardinality(F \ {a}) <= Cardinality(Ahead(R, S, a))
      BY <3>4, AheadGrows, FS_Subset
    <3>7. Cardinality(Ahead(R, S, a)) < n
      BY <1>1, <3>3
    <3> QED BY <1>2, <1>3, <3>4, <3>5, <3>6, <3>7
  <2> QED BY <2>1, <2>2
<1>7. n <= Cardinality(S) => Cardinality(F) = n
  BY <1>2, <1>4, <1>5, <1>6
<1> QED BY <1>2, <1>4, <1>7

-----------------------------------------------------------------------------
(* Paging *)

\* What a client has been shown lies at or above its cursor, and what it is
\* owed was shown, was deleted, or is still below the cursor.
PagingInv ==
    /\ PagingTypeOK /\ deletedRows \subseteq Ids /\ ~ walk.twice /\ walk.more \in BOOLEAN
    /\ \A t \in Tables : IsFiniteSet(table[t])
    /\ walk.at = NoCursor => walk.owed = {} \/ ~ walk.more
    /\ walk.at = NoCursor => walk.seen = {} \/ ~ walk.more
    /\ walk.at # NoCursor => \A s \in walk.seen : walk.at <= s
    /\ \A r \in walk.owed : \/ r \in walk.seen \cup deletedRows
                            \/ walk.more /\ r < walk.at /\ r \in AllRows

Descending == {p \in Ids \X Ids : p[1] > p[2]}

\* Identifiers descend, and the newest rows are the first in this order.
LEMMA NewestAreFirst ==
    ASSUME NEW S \in SUBSET Ids
    PROVE  /\ Orders(Descending, S)
           /\ \A n \in Nat : Newest(n, S) = FirstOf(Descending, S, n)
<1>1. \A a \in Ids : a \in Nat
  BY PagingAssumption
<1>2. Orders(Descending, S)
  BY <1>1 DEF Orders, Descending
<1>3. \A i \in S : {j \in S : j > i} = Ahead(Descending, S, i)
  BY DEF Ahead, Descending
<1> QED BY <1>2, <1>3 DEF Newest, FirstOf

\* Where n rows lie above an identifier, n of the newest n do.
LEMMA NewestLieAbove ==
    ASSUME NEW S \in SUBSET Ids, IsFiniteSet(S), NEW n \in Nat, NEW b \in Ids,
           n <= Cardinality({j \in S : j > b})
    PROVE  n <= Cardinality({j \in Newest(n, S) : j > b})
<1> PICK T : T = {j \in S : j > b}
  OBVIOUS
<1>1. T \in SUBSET S /\ T \in SUBSET Ids /\ IsFiniteSet(T)
  BY FS_Subset
<1>2. Cardinality(Newest(n, T)) = n
  BY <1>1, NewestAreFirst, FirstAreSoMany
<1>3. Newest(n, T) \subseteq {j \in Newest(n, S) : j > b}
  <2> SUFFICES ASSUME NEW i \in Newest(n, T) PROVE i \in Newest(n, S) /\ i > b
    OBVIOUS
  <2>1. i \in T /\ i \in S /\ i > b /\ Cardinality({j \in T : j > i}) < n
    BY DEF Newest
  <2>2. {j \in T : j > i} = {j \in S : j > i}
    <3>1. (\A j \in S : j \in Nat) /\ b \in Nat /\ i \in Nat /\ i > b
      BY <2>1, PagingAssumption
    <3>2. \A j \in S : j > i => j > b
      BY <3>1
    <3> QED BY <3>2
  <2> QED BY <2>1, <2>2 DEF Newest
<1>4. {j \in Newest(n, S) : j > b} \in SUBSET S
  BY DEF Newest
<1>5. IsFiniteSet({j \in Newest(n, S) : j > b})
  BY <1>4, FS_Subset
<1>6. Cardinality(Newest(n, T)) <= Cardinality({j \in Newest(n, S) : j > b})
  BY <1>3, <1>5, FS_Subset
<1> QED BY <1>2, <1>6

\* What is below a cursor, in any of the tables.
Under(cursor) == UNION {Below(table[t], cursor) : t \in Tables}

\* The rows of a page are finite and lie below the cursor.
LEMMA RowsAreBelow ==
    ASSUME PagingInv, NEW cursor \in Ids \cup {NoCursor}
    PROVE  /\ Rows(cursor) \subseteq Under(cursor) /\ Under(cursor) \subseteq AllRows /\ AllRows \subseteq Ids
           /\ IsFiniteSet(Rows(cursor)) /\ Cardinality(Rows(cursor)) \in Nat
           /\ \A t \in Tables : Below(table[t], cursor) \in SUBSET Ids /\ IsFiniteSet(Below(table[t], cursor))
<1>1. \A t \in Tables : table[t] \in SUBSET Ids /\ IsFiniteSet(table[t])
  BY DEF PagingInv, PagingTypeOK
<1>2. \A t \in Tables : Below(table[t], cursor) \in SUBSET table[t]
  BY DEF Below
<1>3. \A t \in Tables : Below(table[t], cursor) \in SUBSET Ids /\ IsFiniteSet(Below(table[t], cursor))
  BY <1>1, <1>2, FS_Subset
<1>4. Rows(cursor) \subseteq Under(cursor)
  BY DEF Rows, Under, Newest
<1>5. Under(cursor) \subseteq AllRows /\ AllRows \subseteq Ids
  BY <1>1, <1>2 DEF Under, AllRows
<1>6. IsFiniteSet(Under(cursor))
  <2> PICK f : f = [t \in Tables |-> Below(table[t], cursor)]
    OBVIOUS
  <2> PICK U : U = {Below(table[t], cursor) : t \in Tables}
    OBVIOUS
  <2>1. f \in Surjection(Tables, U)
    BY DEF Surjection
  <2>2. IsFiniteSet(U)
    BY <2>1, FS_Surjection, PagingAssumption
  <2>3. IsFiniteSet(UNION U)
    BY <1>3, <2>2, FS_UNION
  <2> QED BY <2>3 DEF Under
<1>7. IsFiniteSet(Rows(cursor)) /\ Cardinality(Rows(cursor)) \in Nat
  BY <1>4, <1>6, FS_Subset, FS_CardinalityType
<1> QED BY <1>3, <1>4, <1>5, <1>7

\* trim_to_page after queries of limit + 1: a page has every row below the cursor
\* and not below its last row, and all rows below the cursor if it is the last.
LEMMA PageIsSolid ==
    ASSUME PagingInv, NEW cursor \in Ids \cup {NoCursor}, NEW b \in Under(cursor), b \notin Page(cursor).items
    PROVE  /\ Page(cursor).has_more
           /\ \A i \in Page(cursor).items : b < i
<1> PICK R, n : R = Rows(cursor) /\ n = PageLimit
  OBVIOUS
<1>1. /\ R \in SUBSET Ids /\ IsFiniteSet(R) /\ Cardinality(R) \in Nat /\ b \in Ids /\ b \in Nat /\ n \in Nat \ {0}
      /\ \A i \in R : i \in Nat
  BY RowsAreBelow, PagingAssumption
<1>2. Page(cursor).items = Newest(n, R) /\ Page(cursor).has_more = (Cardinality(R) > n)
  BY DEF Page
<1>3. n <= Cardinality({j \in R : j > b}) /\ n < Cardinality(R)
  <2>0. /\ IsFiniteSet({j \in R : j > b}) /\ Cardinality({j \in R : j > b}) <= Cardinality(R)
        /\ Cardinality(R) = Cardinality({j \in R : j > b}) => R = {j \in R : j > b}
        /\ Cardinality({j \in R : j > b}) \in Nat
    BY <1>1, FS_Subset, FS_CardinalityType
  <2>1. CASE b \in R
    <3>1. ~ (Cardinality({j \in R : j > b}) < n)
      BY <1>2, <2>1 DEF Newest
    <3>2. R # {j \in R : j > b}
      BY <1>1, <2>1
    <3> QED BY <1>1, <2>0, <3>1, <3>2
  <2>2. CASE b \notin R
    <3>1. PICK t \in Tables : b \in Below(table[t], cursor)
      BY DEF Under
    <3> PICK S : S = Below(table[t], cursor)
      OBVIOUS
    <3>2. S \in SUBSET Ids /\ IsFiniteSet(S) /\ b \in S
      BY <3>1, RowsAreBelow
    <3>3. Newest(n + 1, S) \subseteq R
      BY DEF Rows, PageQueryLimit
    <3>4. ~ (Cardinality({j \in S : j > b}) < n + 1) /\ Cardinality({j \in S : j > b}) \in Nat
      <4>1. b \notin Newest(n + 1, S)
        BY <2>2, <3>3
      <4>2. IsFiniteSet({j \in S : j > b})
        BY <3>2, FS_Subset
      <4> QED BY <3>2, <4>1, <4>2, FS_CardinalityType DEF Newest
    <3>5. n + 1 <= Cardinality({j \in S : j > b}) /\ n + 1 \in Nat
      BY <1>1, <3>4
    <3>6. n + 1 <= Cardinality({j \in Newest(n + 1, S) : j > b})
      BY <1>1, <3>2, <3>5, NewestLieAbove
    <3>7. {j \in Newest(n + 1, S) : j > b} \in SUBSET {j \in R : j > b} /\ IsFiniteSet({j \in R : j > b})
      BY <1>1, <3>3, FS_Subset
    <3>8. Cardinality({j \in Newest(n + 1, S) : j > b}) <= Cardinality({j \in R : j > b})
          /\ Cardinality({j \in Newest(n + 1, S) : j > b}) \in Nat /\ Cardinality({j \in R : j > b}) \in Nat
      BY <3>7, FS_Subset, FS_CardinalityType
    <3> QED BY <1>1, <2>0, <3>6, <3>8
  <2> QED BY <2>1, <2>2
<1>4. ASSUME NEW i \in Newest(n, R) PROVE b < i
  <2>1. i \in R /\ i \in Nat /\ Cardinality({j \in R : j > i}) < n
    BY <1>1 DEF Newest
  <2>2. ASSUME ~ (b < i) PROVE FALSE
    <3>0. \A j \in R : j > b => j > i
      BY <1>1, <2>1, <2>2
    <3>1. {j \in R : j > b} \subseteq {j \in R : j > i}
      BY <3>0
    <3>2. IsFiniteSet({j \in R : j > i})
      BY <1>1, FS_Subset
    <3>3. Cardinality({j \in R : j > b}) <= Cardinality({j \in R : j > i})
          /\ Cardinality({j \in R : j > b}) \in Nat /\ Cardinality({j \in R : j > i}) \in Nat
      BY <3>1, <3>2, FS_Subset, FS_CardinalityType
    <3> QED BY <1>1, <1>3, <2>1, <3>3
  <2> QED BY <2>2
<1> QED BY <1>2, <1>3, <1>4

\* Reading a page loses and repeats nothing.
LEMMA ReadPageKeeps ==
    ASSUME PagingInv, ReadPage
    PROVE  PagingInv'
<1> PICK c, items, more : c = walk.at /\ items = Page(c).items /\ more = Page(c).has_more
  OBVIOUS
<1>1. /\ c \in Ids \cup {NoCursor} /\ walk.more /\ walk.seen \subseteq Ids /\ walk.owed \subseteq Ids /\ ~ walk.twice
      /\ \A i \in Ids : i \in Nat /\ i # NoCursor
  BY PagingAssumption DEF PagingInv, PagingTypeOK, ReadPage, NoCursor
<1>2. /\ walk' = [at |-> IF items = {} THEN c ELSE Oldest(items), seen |-> walk.seen \cup items,
                  twice |-> walk.twice \/ walk.seen \cap items # {},
                  owed |-> IF c = NoCursor THEN AllRows ELSE walk.owed, more |-> more]
      /\ UNCHANGED <<table, deletedRows>>
  BY <1>1 DEF ReadPage
<1>3. items \subseteq Under(c) /\ items \subseteq Ids /\ Under(c) \subseteq AllRows /\ AllRows \subseteq Ids
  BY <1>1, RowsAreBelow DEF Page, Newest
<1>4. \A i \in Under(c) : i \in Ids /\ (c # NoCursor => i < c)
  BY <1>3 DEF Under, Below
<1>5. \A r \in AllRows : (c # NoCursor => r < c) => r \in Under(c)
  BY DEF AllRows, Under, Below
<1>6. walk.seen \cap items = {}
  <2>1. CASE c = NoCursor
    BY <1>1, <2>1 DEF PagingInv
  <2>2. CASE c # NoCursor
    <3>1. \A s \in walk.seen : c <= s /\ s \in Nat /\ c \in Nat
      BY <1>1, <2>2 DEF PagingInv
    <3>2. \A i \in items : i < c /\ i \in Nat
      BY <1>1, <1>3, <1>4, <2>2
    <3> QED BY <3>1, <3>2
  <2> QED BY <2>1, <2>2
<1>7. more => items # {}
  <2>1. Rows(c) \in SUBSET Ids /\ IsFiniteSet(Rows(c)) /\ PageLimit \in Nat
    BY <1>1, RowsAreBelow, PagingAssumption
  <2>2. Newest(PageLimit, Rows(c)) = FirstOf(Descending, Rows(c), PageLimit) /\ Orders(Descending, Rows(c))
    BY <2>1, NewestAreFirst
  <2>3. ASSUME Cardinality(Rows(c)) > PageLimit PROVE Cardinality(items) = PageLimit
    <3>1. PageLimit <= Cardinality(Rows(c))
      BY <1>1, <2>1, <2>3, RowsAreBelow
    <3>2. Cardinality(Newest(PageLimit, Rows(c))) = PageLimit
      BY <2>1, <2>2, <3>1, FirstAreSoMany
    <3> QED BY <3>2 DEF Page
  <2> QED BY <2>3, FS_EmptySet, PagingAssumption DEF Page
<1>8. items # {} => Oldest(items) \in items /\ \A j \in items : Oldest(items) <= j
  <2>1. items \in SUBSET Nat
    BY <1>1, <1>3
  <2>2. items # {} => \E i \in items : \A j \in items : i <= j
    BY <2>1, LeastIsThere
  <2> QED BY <2>2 DEF Oldest
<1>9. PICK o : o = IF items = {} THEN c ELSE Oldest(items)
  OBVIOUS
<1>10. o \in Ids \cup {NoCursor} /\ (items # {} => o \in Ids /\ o # NoCursor) /\ \A j \in items : o <= j
  BY <1>1, <1>3, <1>8, <1>9
<1>11. o # NoCursor => \A s \in walk.seen \cup items : o <= s
  <2>1. ASSUME NEW s \in walk.seen, o # NoCursor PROVE o <= s
    <3>1. CASE c = NoCursor
      BY <1>1, <3>1 DEF PagingInv
    <3>2. CASE c # NoCursor
      <4>1. c <= s /\ c \in Nat /\ s \in Nat
        BY <1>1, <3>2 DEF PagingInv
      <4>2. o \in Nat /\ (o = c \/ o < c)
        BY <1>1, <1>3, <1>4, <1>8, <1>9, <1>10, <2>1, <3>2
      <4> QED BY <4>1, <4>2
    <3> QED BY <3>1, <3>2
  <2> QED BY <1>10, <2>1
<1>12. ASSUME NEW r \in (IF c = NoCursor THEN AllRows ELSE walk.owed)
       PROVE  \/ r \in walk.seen \cup items \cup deletedRows
              \/ more /\ r < o /\ r \in AllRows
  <2>1. CASE r \in walk.seen \cup deletedRows
    BY <2>1
  <2>2. CASE r \notin walk.seen \cup deletedRows
    <3>1. r \in AllRows /\ (c # NoCursor => r < c)
      BY <1>12, <2>2 DEF PagingInv
    <3>2. r \in Under(c)
      BY <1>5, <3>1
    <3>3. r \notin items => more /\ \A i \in items : r < i
      BY <1>1, <3>2, PageIsSolid
    <3> QED BY <1>7, <1>8, <1>9, <3>1, <3>3
  <2> QED BY <2>1, <2>2
<1>13. /\ walk'.at = o /\ walk'.seen = walk.seen \cup items /\ walk'.twice = FALSE /\ walk'.more = more
       /\ walk'.owed = IF c = NoCursor THEN AllRows ELSE walk.owed
  BY <1>1, <1>2, <1>6, <1>9
<1>14. more \in BOOLEAN
  BY DEF Page
<1>15. PagingTypeOK'
  BY <1>1, <1>2, <1>3, <1>10, <1>13 DEF PagingTypeOK, PagingInv
<1>16. AllRows' = AllRows /\ table' = table /\ deletedRows' = deletedRows
  BY <1>2 DEF AllRows
<1>17. (walk.at = NoCursor)' => ~ more
  BY <1>7, <1>10, <1>13
<1>18. \A r \in walk'.owed : r \in walk'.seen \cup deletedRows' \/ (walk'.more /\ r < walk'.at /\ r \in AllRows')
  BY <1>12, <1>13, <1>16
<1> QED BY <1>11, <1>13, <1>14, <1>15, <1>16, <1>17, <1>18 DEF PagingInv

LEMMA CommitRowKeeps ==
    ASSUME PagingInv, NEW t \in Tables, NEW i \in Ids, CommitRow(t, i)
    PROVE  PagingInv'
<1>1. /\ table \in [Tables -> SUBSET Ids] /\ table' = [table EXCEPT ![t] = @ \cup {i}]
      /\ walk' = walk /\ deletedRows' = deletedRows
  BY DEF PagingInv, PagingTypeOK, CommitRow
<1>2. table' \in [Tables -> SUBSET Ids]
  BY <1>1
<1>3. \A u \in Tables : table[u] \subseteq table'[u] /\ (table'[u] = table[u] \/ table'[u] = table[u] \cup {i})
  BY <1>1
<1>4. \A u \in Tables : IsFiniteSet(table'[u])
  <2> TAKE u \in Tables
  <2>1. IsFiniteSet(table[u])
    BY DEF PagingInv
  <2> QED BY <1>3, <2>1, FS_AddElement
<1>5. AllRows \subseteq AllRows'
  BY <1>3 DEF AllRows
<1> QED BY <1>1, <1>2, <1>4, <1>5 DEF PagingInv, PagingTypeOK

LEMMA DeleteRowKeeps ==
    ASSUME PagingInv, NEW t \in Tables, NEW i \in Ids, DeleteRowOf(t, i)
    PROVE  PagingInv'
<1>1. /\ table \in [Tables -> SUBSET Ids] /\ table' = [table EXCEPT ![t] = @ \ {i}]
      /\ walk' = walk /\ deletedRows' = deletedRows \cup {i}
  BY DEF PagingInv, PagingTypeOK, DeleteRowOf
<1>2. table' \in [Tables -> SUBSET Ids]
  BY <1>1
<1>3. \A u \in Tables : table[u] \ {i} \subseteq table'[u] /\ table'[u] \in SUBSET table[u]
  BY <1>1
<1>4. \A u \in Tables : IsFiniteSet(table'[u])
  BY <1>3, FS_Subset DEF PagingInv
<1>5. AllRows \subseteq AllRows' \cup {i}
  BY <1>3 DEF AllRows
<1> QED BY <1>1, <1>2, <1>4, <1>5 DEF PagingInv, PagingTypeOK

\* A client that follows the links of merged pages to the last sees every row
\* that was there when it began and was not deleted, and none twice: for any
\* number of tables, rows and page size, and whatever is committed and deleted
\* between two of its requests.
THEOREM WalksAreComplete == PagingSpec => []PagingSafe
<1>1. PagingInit => PagingInv
  <2> SUFFICES ASSUME PagingInit PROVE PagingInv
    OBVIOUS
  <2>1. \A t \in Tables : table[t] = {}
    BY DEF PagingInit
  <2>2. \A t \in Tables : IsFiniteSet(table[t])
    BY <2>1, FS_EmptySet
  <2> QED BY <2>2 DEF PagingInit, PagingInv, PagingTypeOK, NoCursor
<1>2. PagingInv /\ [PagingNext]_paging_vars => PagingInv'
  <2> SUFFICES ASSUME PagingInv, [PagingNext]_paging_vars PROVE PagingInv'
    OBVIOUS
  <2>1. CASE ReadPage
    BY <2>1, ReadPageKeeps
  <2>2. ASSUME NEW t \in Tables, NEW i \in Ids, CommitRow(t, i) \/ DeleteRowOf(t, i) PROVE PagingInv'
    BY <2>2, CommitRowKeeps, DeleteRowKeeps
  <2>3. CASE UNCHANGED paging_vars
    BY <2>3 DEF paging_vars, PagingInv, PagingTypeOK, AllRows
  <2> QED BY <2>1, <2>2, <2>3 DEF PagingNext
<1>3. PagingInv => PagingSafe
  BY DEF PagingInv, PagingSafe, WalkIsComplete
<1> QED BY <1>1, <1>2, <1>3, PTL DEF PagingSpec

-----------------------------------------------------------------------------
(* Timelines *)

Persons == Peers \cup {Me}

\* A follow, answered or not, and a check for one, under a block was overtaken.
FollowsFit ==
    \A a, b \in Persons :
        /\ \/ <<a, b>> \in follow \/ (a = Me /\ b \in pending)
           \/ <<"follow", <<a, b>>>> \in checked \/ <<"move", <<a, b>>>> \in checked
        /\ AreBlocked(a, b)
        => <<a, b>> \in late

\* So was a member, and a check for one, that Me does not follow, unless it has
\* not answered yet.
MembersFit ==
    \A b \in Peers : (b \in member \/ <<"member", <<Me, b>>>> \in checked) /\ <<Me, b>> \notin follow
        => <<Me, b>> \in late \/ b \in pending

\* A list that is checked for is there, and what a suspended remote account has
\* written is deleted.
GraphInv ==
    /\ SocialGraphTypeOK /\ FollowsFit /\ MembersFit
    /\ \A c \in checked : c[1] = "member" => mylist.there
    /\ suspended \subseteq Peers /\ suspended \cap RemotePeers \subseteq erased

LEMMA FollowsKeep ==
    ASSUME GraphInv, NEW a \in Persons, NEW b \in Persons,
           \/ CheckFollow(a, b) \/ Unfollow(a, b) \/ Block(a, b) \/ Unblock(a, b)
           \/ \E reblogs \in BOOLEAN : InsertFollow(a, b, reblogs)
    PROVE  GraphInv'
<1> USE SocialGraphAssumption DEF Persons
<1>1. CASE CheckFollow(a, b)
  <2>1. SocialGraphTypeOK'
    BY <1>1 DEF GraphInv, SocialGraphTypeOK, CheckFollow, LocalPairs, Pairs, Peers
  <2>2. FollowsFit' /\ MembersFit'
    BY <1>1 DEF GraphInv, FollowsFit, MembersFit, CheckFollow, AreBlocked
  <2> QED BY <1>1, <2>1, <2>2 DEF GraphInv, CheckFollow
<1>2. CASE Unfollow(a, b)
  <2>1. SocialGraphTypeOK'
    BY <1>2 DEF GraphInv, SocialGraphTypeOK, Unfollow, Overtakes, Relied, Unasked, OffTheLists
  <2>2. FollowsFit'
    BY <1>2 DEF GraphInv, FollowsFit, Unfollow, AreBlocked, Overtakes, Relied, Unasked
  <2>3. MembersFit'
    BY <1>2 DEF GraphInv, MembersFit, Unfollow, Overtakes, Relied, Unasked, OffTheLists
  <2> QED BY <1>2, <2>1, <2>2, <2>3 DEF GraphInv, Unfollow
<1>3. CASE Block(a, b)
  <2>1. SocialGraphTypeOK'
    BY <1>3 DEF GraphInv, SocialGraphTypeOK, Block, Overtakes, Relied, Unasked, OffTheLists, SeverFollows
  <2>2. FollowsFit'
    BY <1>3 DEF GraphInv, FollowsFit, Block, AreBlocked, Overtakes, Relied, Unasked, SeverFollows
  <2>3. MembersFit'
    BY <1>3 DEF GraphInv, MembersFit, Block, Overtakes, Relied, Unasked, OffTheLists, SeverFollows
  <2> QED BY <1>3, <2>1, <2>2, <2>3 DEF GraphInv, Block
<1>4. CASE Unblock(a, b)
  BY <1>4 DEF GraphInv, SocialGraphTypeOK, FollowsFit, MembersFit, Unblock, AreBlocked
<1>5. ASSUME NEW reblogs \in BOOLEAN, InsertFollow(a, b, reblogs) PROVE GraphInv'
  <2>1. SocialGraphTypeOK'
    BY <1>5 DEF GraphInv, SocialGraphTypeOK, InsertFollow
  <2>2. FollowsFit' /\ MembersFit'
    BY <1>5 DEF GraphInv, FollowsFit, MembersFit, InsertFollow, AreBlocked
  <2> QED BY <1>5, <2>1, <2>2 DEF GraphInv, InsertFollow
<1> QED BY <1>1, <1>2, <1>3, <1>4, <1>5

LEMMA PeersKeep ==
    ASSUME GraphInv, NEW b \in Peers,
           \/ AcceptRemote(b) \/ RejectRemote(b) \/ Mute(b) \/ Unmute(b) \/ Unsuspend(b) \/ Limit(b)
           \/ \E reblogs \in BOOLEAN : FollowRemote(b, reblogs)
    PROVE  GraphInv'
<1> USE SocialGraphAssumption DEF Persons
<1>1. CASE AcceptRemote(b)
  <2>1. SocialGraphTypeOK'
    BY <1>1 DEF GraphInv, SocialGraphTypeOK, AcceptRemote, Pairs, Peers
  <2>2. FollowsFit' /\ MembersFit'
    BY <1>1 DEF GraphInv, FollowsFit, MembersFit, AcceptRemote, AreBlocked
  <2> QED BY <1>1, <2>1, <2>2 DEF GraphInv, AcceptRemote
<1>2. CASE RejectRemote(b)
  <2>1. SocialGraphTypeOK'
    BY <1>2 DEF GraphInv, SocialGraphTypeOK, RejectRemote, Strands, Relied, Pairs, Peers
  <2>2. FollowsFit' /\ MembersFit'
    BY <1>2 DEF GraphInv, FollowsFit, MembersFit, RejectRemote, Strands, Relied, AreBlocked
  <2> QED BY <1>2, <2>1, <2>2 DEF GraphInv, RejectRemote
<1>3. CASE Mute(b) \/ Unmute(b)
  BY <1>3 DEF GraphInv, SocialGraphTypeOK, FollowsFit, MembersFit, AreBlocked, Mute, Unmute
<1>4. CASE Unsuspend(b) \/ Limit(b)
  BY <1>4 DEF GraphInv, SocialGraphTypeOK, FollowsFit, MembersFit, AreBlocked, Unsuspend, Limit
<1>5. ASSUME NEW reblogs \in BOOLEAN, FollowRemote(b, reblogs) PROVE GraphInv'
  <2>1. SocialGraphTypeOK'
    BY <1>5 DEF GraphInv, SocialGraphTypeOK, FollowRemote
  <2>2. FollowsFit' /\ MembersFit'
    BY <1>5 DEF GraphInv, FollowsFit, MembersFit, FollowRemote, AreBlocked
  <2> QED BY <1>5, <2>1, <2>2 DEF GraphInv, FollowRemote
<1> QED BY <1>1, <1>2, <1>3, <1>4, <1>5

\* What remote accounts do: a deletion strands a member, a move takes the
\* membership to an account that has been asked.
LEMMA ActorsKeep ==
    ASSUME GraphInv, NEW a \in Persons, NEW b \in Peers,
           MoveFollow(a, b) \/ CheckMove(b) \/ DeleteActor(b) \/ Receive(b)
    PROVE  GraphInv'
<1> USE SocialGraphAssumption DEF Persons
<1>1. CASE MoveFollow(a, b)
  <2>1. a \in RemotePeers /\ b \in RemotePeers /\ a # b
    BY <1>1 DEF MoveFollow
  <2>2. CASE CarryFollow(a, b)
    <3>1. SocialGraphTypeOK'
      BY <1>1, <2>1, <2>2 DEF GraphInv, SocialGraphTypeOK, MoveFollow, CarryFollow, Overtakes, Relied, MembersFit, Peers
    <3>2. FollowsFit'
      BY <1>1, <2>1, <2>2 DEF GraphInv, FollowsFit, MoveFollow, CarryFollow, Overtakes, Relied, AreBlocked, Peers
    <3>3. MembersFit'
      BY <1>1, <2>1, <2>2 DEF GraphInv, MembersFit, MoveFollow, CarryFollow, Overtakes, Relied, Peers
    <3> QED BY <1>1, <2>2, <3>1, <3>2, <3>3 DEF GraphInv, MoveFollow, CarryFollow
  <2>3. CASE DropFollow(a, b)
    <3>1. SocialGraphTypeOK'
      BY <1>1, <2>1, <2>3 DEF GraphInv, SocialGraphTypeOK, MoveFollow, DropFollow, Overtakes, Relied, Peers
    <3>2. FollowsFit'
      BY <1>1, <2>1, <2>3 DEF GraphInv, FollowsFit, MoveFollow, DropFollow, Overtakes, Relied, AreBlocked, Peers
    <3>3. MembersFit'
      BY <1>1, <2>1, <2>3 DEF GraphInv, MembersFit, MoveFollow, DropFollow, Overtakes, Relied, Peers
    <3> QED BY <1>1, <2>3, <3>1, <3>2, <3>3 DEF GraphInv, MoveFollow, DropFollow
  <2> QED BY <1>1, <2>2, <2>3 DEF MoveFollow
<1>2. CASE CheckMove(b)
  <2>1. SocialGraphTypeOK'
    BY <1>2 DEF GraphInv, SocialGraphTypeOK, CheckMove, Pairs, Peers
  <2>2. FollowsFit' /\ MembersFit'
    BY <1>2 DEF GraphInv, FollowsFit, MembersFit, CheckMove, AreBlocked
  <2> QED BY <1>2, <2>1, <2>2 DEF GraphInv, CheckMove
<1>3. CASE DeleteActor(b)
  <2>1. SocialGraphTypeOK'
    BY <1>3 DEF GraphInv, SocialGraphTypeOK, DeleteActor, SeverFollows, Strands, Relied, Pairs, Peers
  <2>2. FollowsFit' /\ MembersFit'
    BY <1>3 DEF GraphInv, FollowsFit, MembersFit, DeleteActor, SeverFollows, Strands, Relied, AreBlocked
  <2> QED BY <1>3, <2>1, <2>2 DEF GraphInv, DeleteActor
<1>4. CASE Receive(b)
  BY <1>4 DEF GraphInv, SocialGraphTypeOK, FollowsFit, MembersFit, Receive, AreBlocked
<1> QED BY <1>1, <1>2, <1>3, <1>4

LEMMA SuspendKeeps ==
    ASSUME GraphInv, NEW b \in Peers, Suspend(b)
    PROVE  GraphInv'
<1> USE SocialGraphAssumption DEF Persons
<1>1. SocialGraphTypeOK'
  BY DEF GraphInv, SocialGraphTypeOK, Suspend, Forget, Overtakes, Relied, Pairs, Peers
<1>2. \A a, c \in Persons : b \in {a, c} => <<a, c>> \notin follow' /\ <<a, c>> \notin block'
  BY DEF Suspend, Forget
<1>3. FollowsFit'
  BY <1>2 DEF GraphInv, FollowsFit, Suspend, Forget, Overtakes, Relied, AreBlocked
<1>4. MembersFit'
  BY DEF GraphInv, MembersFit, Suspend, Forget, Overtakes, Relied
<1> QED BY <1>1, <1>3, <1>4 DEF GraphInv, Suspend

LEMMA ListsKeep ==
    ASSUME GraphInv,
           \/ DeleteList
           \/ \E b \in Peers : CheckMember(b) \/ InsertMember(b) \/ RemoveMember(b)
           \/ \E exclusive \in BOOLEAN, policy \in Policies : CreateList(exclusive, policy) \/ UpdateList(exclusive, policy)
    PROVE  GraphInv'
<1> USE SocialGraphAssumption DEF Persons
<1>1. CASE DeleteList
  <2>1. SocialGraphTypeOK'
    BY <1>1 DEF GraphInv, SocialGraphTypeOK, DeleteList
  <2>2. FollowsFit' /\ MembersFit'
    BY <1>1 DEF GraphInv, FollowsFit, MembersFit, DeleteList, AreBlocked
  <2> QED BY <1>1, <2>1, <2>2 DEF GraphInv, DeleteList
<1>2. ASSUME NEW b \in Peers, CheckMember(b) PROVE GraphInv'
  <2>1. SocialGraphTypeOK'
    BY <1>2 DEF GraphInv, SocialGraphTypeOK, CheckMember, Pairs, Peers
  <2>2. FollowsFit' /\ MembersFit'
    BY <1>2 DEF GraphInv, FollowsFit, MembersFit, CheckMember, AreBlocked
  <2> QED BY <1>2, <2>1, <2>2 DEF GraphInv, CheckMember
<1>3. ASSUME NEW b \in Peers, InsertMember(b) PROVE GraphInv'
  <2>1. mylist.there
    BY <1>3 DEF GraphInv, InsertMember
  <2>2. SocialGraphTypeOK'
    BY <1>3, <2>1 DEF GraphInv, SocialGraphTypeOK, InsertMember
  <2>3. FollowsFit' /\ MembersFit'
    BY <1>3 DEF GraphInv, FollowsFit, MembersFit, InsertMember, AreBlocked
  <2> QED BY <1>3, <2>2, <2>3 DEF GraphInv, InsertMember
<1>4. ASSUME NEW b \in Peers, RemoveMember(b) PROVE GraphInv'
  BY <1>4 DEF GraphInv, SocialGraphTypeOK, FollowsFit, MembersFit, RemoveMember, AreBlocked
<1>5. ASSUME NEW exclusive \in BOOLEAN, NEW policy \in Policies,
             CreateList(exclusive, policy) \/ UpdateList(exclusive, policy)
      PROVE  GraphInv'
  BY <1>5 DEF GraphInv, SocialGraphTypeOK, FollowsFit, MembersFit, CreateList, UpdateList, WriteList, AreBlocked
<1> QED BY <1>1, <1>2, <1>3, <1>4, <1>5

\* What hides a status hides it from the mixed timelines too.
LEMMA HiddenIsWider ==
    ASSUME NEW s \in Posts, ~ Hidden(s.author), Addressed(s)
    PROVE  VisibleTo(s)
  BY DEF Hidden, VisibleTo, AreBlocked

\* Every surface asks for no less than the rule of the single status.
LEMMA SurfacesAgree ==
    ASSUME GraphInv
    PROVE  ShownIsOpenable /\ ProfileIsAddressed
<1> USE SocialGraphAssumption
<1>1. ASSUME NEW s \in Posts, ~ Openable(s), s.author \notin LocalPeers \cap suspended, Feed(s)
      PROVE  ListTimeline(s) /\ (<<Me, s.author>> \in late \/ s.author \in pending)
  <2>0. s.author \in Persons /\ s.visibility \in {"public", "unlisted", "private", "direct"}
    BY DEF Posts, Persons
  <2>1. Stored(s) => s.author \notin suspended
    BY <1>1, <2>0 DEF Stored, GraphInv, Persons, Peers
  <2>2. Stored(s) /\ VisibleTo(s) => FALSE
    BY <1>1, <2>1 DEF Openable
  <2>3. ~ Home(s)
    <3> SUFFICES ASSUME Home(s) PROVE FALSE
      OBVIOUS
    <3>1. Stored(s) /\ ~ Hidden(s.author) /\ Addressed(s)
      BY <2>0 DEF Home, HomeRow, HomeCandidate, HiddenAuthor, Addressed
    <3> QED BY <2>2, <3>1, HiddenIsWider
  <2>4. ~ PublicTimeline(s) /\ ~ TagTimeline(s)
    BY <2>2, HiddenIsWider DEF PublicTimeline, TagTimeline, HiddenAuthor, Addressed
  <2>5. ~ Search(s)
    <3> SUFFICES ASSUME Search(s) PROVE FALSE
      OBVIOUS
    <3>1. Stored(s) /\ Addressed(s) /\ (Own(s) \/ ~ Hidden(s.author))
      BY DEF Search
    <3>2. Own(s) => VisibleTo(s)
      BY <3>1 DEF VisibleTo, Own, Peers
    <3> QED BY <2>2, <3>1, <3>2, HiddenIsWider
  <2>6. ASSUME NEW p \in Persons PROVE ~ BoostShown(p, s)
    <3> SUFFICES ASSUME BoostShown(p, s) PROVE FALSE
      OBVIOUS
    <3>1. Stored(s) /\ Addressed(s)
      BY DEF BoostShown, Boostable, Addressed
    <3>2. CASE p \in RemotePeers
      BY <2>2, <3>1, <3>2 DEF BoostShown, RemoteBoost
    <3>3. CASE p \notin RemotePeers /\ s.author \in RemotePeers
      BY <2>2, <3>1, <3>3, HiddenIsWider DEF BoostShown, LocalRemoteBoost
    <3>4. CASE p \notin RemotePeers /\ s.author \notin RemotePeers
      BY <2>2, <3>1, <3>4 DEF BoostShown, LocalBoost
    <3> QED BY <3>2, <3>3, <3>4
  <2>7. ListTimeline(s)
    BY <1>1, <2>3, <2>4, <2>5, <2>6 DEF Feed, Boosted, ListBoost, Persons
  <2>8. ~ Addressed(s)
    BY <2>2, <2>7, HiddenIsWider DEF ListTimeline, HiddenAuthor
  <2>9. s.author \in member /\ s.author \in Peers /\ <<Me, s.author>> \notin follow
    BY <2>0, <2>7, <2>8 DEF ListTimeline, Listed, Addressed, Own, Follows, Persons
  <2> QED BY <2>7, <2>9 DEF GraphInv, MembersFit
<1>2. ASSUME NEW s \in Posts
      PROVE  /\ Profile(s) \/ LinkTimeline(s) => Addressed(s)
             /\ Openable(s) /\ ~ (s.author \in RemotePeers /\ s.visibility = "direct") => Profile(s)
  BY DEF Profile, LinkTimeline, RemoteProfile, LocalProfile, Addressed, Openable, VisibleTo
<1> QED BY <1>1, <1>2 DEF ShownIsOpenable, ProfileIsAddressed

\* A block or an unfollow ends what depends on it, up to requests whose check
\* was overtaken, and no timeline, list, search or boost shows what the rule of
\* the single status hides: for any accounts, in any order of requests, remote
\* answers and decisions of an administrator.
THEOREM TimelinesAreSafe == SocialGraphSpec => []TimelinesSafe
<1>1. SocialGraphInit => GraphInv
  BY DEF SocialGraphInit, GraphInv, SocialGraphTypeOK, FollowsFit, MembersFit, AreBlocked
<1>2. GraphInv /\ [SocialGraphNext]_graph_vars => GraphInv'
  <2> SUFFICES ASSUME GraphInv, [SocialGraphNext]_graph_vars PROVE GraphInv'
    OBVIOUS
  <2>1. ASSUME NEW a \in Persons, NEW b \in Persons,
               \/ CheckFollow(a, b) \/ Unfollow(a, b) \/ Block(a, b) \/ Unblock(a, b)
               \/ \E reblogs \in BOOLEAN : InsertFollow(a, b, reblogs)
        PROVE  GraphInv'
    BY <2>1, FollowsKeep
  <2>2. ASSUME NEW b \in Peers,
               \/ AcceptRemote(b) \/ RejectRemote(b) \/ Mute(b) \/ Unmute(b) \/ Unsuspend(b) \/ Limit(b)
               \/ \E reblogs \in BOOLEAN : FollowRemote(b, reblogs)
        PROVE  GraphInv'
    BY <2>2, PeersKeep
  <2>6. ASSUME NEW a \in Persons, NEW b \in Persons, MoveFollow(a, b) PROVE GraphInv'
    BY <2>6, ActorsKeep DEF MoveFollow, Peers
  <2>7. ASSUME NEW b \in Peers, CheckMove(b) \/ DeleteActor(b) \/ Receive(b) PROVE GraphInv'
    <3>1. Me \in Persons
      BY DEF Persons
    <3> QED BY <2>7, <3>1, ActorsKeep
  <2>3. ASSUME NEW b \in Peers, Suspend(b) PROVE GraphInv'
    BY <2>3, SuspendKeeps
  <2>4. ASSUME \/ DeleteList
               \/ \E b \in Peers : CheckMember(b) \/ InsertMember(b) \/ RemoveMember(b)
               \/ \E exclusive \in BOOLEAN, policy \in Policies :
                     CreateList(exclusive, policy) \/ UpdateList(exclusive, policy)
        PROVE  GraphInv'
    BY <2>4, ListsKeep
  <2>5. CASE UNCHANGED graph_vars
    BY <2>5 DEF graph_vars, GraphInv, SocialGraphTypeOK, FollowsFit, MembersFit, AreBlocked
  <2> QED BY <2>1, <2>2, <2>3, <2>4, <2>5, <2>6, <2>7 DEF SocialGraphNext, Persons
<1>3. GraphInv => TimelinesSafe
  <2> SUFFICES ASSUME GraphInv PROVE TimelinesSafe
    OBVIOUS
  <2>1. \A p \in follow : \E a, b \in Persons : p = <<a, b>>
    BY DEF GraphInv, SocialGraphTypeOK, Pairs, Persons
  <2>2. SeveredStaysSevered
    <3>1. ASSUME NEW p \in follow, AreBlocked(p[1], p[2]) PROVE p \in late
      <4>1. PICK a \in Persons, b \in Persons : p = <<a, b>>
        BY <2>1
      <4>2. AreBlocked(a, b)
        BY <3>1, <4>1
      <4> QED BY <4>1, <4>2 DEF GraphInv, FollowsFit
    <3>2. ASSUME NEW x \in pending, AreBlocked(Me, x) PROVE <<Me, x>> \in late
      BY <3>2 DEF GraphInv, FollowsFit, SocialGraphTypeOK, Persons, Peers
    <3> QED BY <3>1, <3>2 DEF GraphInv, MembersFit, SocialGraphTypeOK, SeveredStaysSevered
  <2> QED BY <2>2, SurfacesAgree DEF TimelinesSafe, GraphInv
<1> QED BY <1>1, <1>2, <1>3, PTL DEF SocialGraphSpec

-----------------------------------------------------------------------------
(* Pages by offset *)

LEMMA FirstTyped ==
    ASSUME NEW R, NEW S, IsFiniteSet(S), Orders(R, S), NEW n \in Nat, NEW m \in Nat, n <= m
    PROVE  FirstOf(R, S, n) \in SUBSET FirstOf(R, S, m) /\ FirstOf(R, S, m) \in SUBSET S
<1>1. \A a \in S : Cardinality(Ahead(R, S, a)) \in Nat
  BY AheadGrows
<1>2. \A a \in S : Cardinality(Ahead(R, S, a)) < n => Cardinality(Ahead(R, S, a)) < m
  BY <1>1
<1> QED BY <1>2 DEF FirstOf

\* A page is cut from one row more than it has, and knows by it whether there
\* are more.
LEMMA SliceIsPage ==
    ASSUME NEW R, NEW S, IsFiniteSet(S), Orders(R, S), NEW o \in Nat, NEW size \in Nat, NEW part1,
           part1 = FirstOf(R, S, o + size + 1) \ FirstOf(R, S, o)
    PROVE  /\ FirstOf(R, part1, size) = FirstOf(R, S, o + size) \ FirstOf(R, S, o)
           /\ Cardinality(part1) > size <=> Cardinality(S) > o + size
<1> PICK before, upto, n : before = FirstOf(R, S, o) /\ upto = FirstOf(R, S, o + size + 1) /\ n = Cardinality(S)
  OBVIOUS
<1> DEFINE rank(a) == Cardinality(Ahead(R, S, a))
<1>1. /\ n \in Nat /\ \A a \in S : rank(a) \in Nat /\ rank(a) < n /\ IsFiniteSet(Ahead(R, S, a))
      /\ \A a, b \in S : <<a, b>> \in R => rank(a) < rank(b)
  BY AheadGrows, FS_CardinalityType
<1>2. o + size \in Nat /\ o + size + 1 \in Nat /\ o <= o + size + 1 /\ o <= o + size /\ o + size <= o + size + 1
  OBVIOUS
<1>3. before \in SUBSET upto /\ upto \in SUBSET S /\ part1 = upto \ before
  BY <1>2, FirstTyped
<1>4. \A a \in S : (a \in before <=> rank(a) < o) /\ (a \in upto <=> rank(a) < o + size + 1)
  BY DEF FirstOf
<1>5. ASSUME NEW a \in part1
      PROVE  /\ Ahead(R, part1, a) = Ahead(R, S, a) \ before
             /\ before \in SUBSET Ahead(R, S, a) /\ Cardinality(before) = o
  <2>1. a \in S /\ a \in upto /\ a \notin before /\ ~ (rank(a) < o) /\ rank(a) < o + size + 1 /\ rank(a) \in Nat
    BY <1>1, <1>3, <1>4
  <2>2. \A b \in Ahead(R, S, a) : b \in upto
    <3> TAKE b \in Ahead(R, S, a)
    <3>1. b \in S /\ <<b, a>> \in R
      BY DEF Ahead
    <3>2. rank(b) < rank(a) /\ rank(b) \in Nat
      BY <1>1, <2>1, <3>1
    <3>3. rank(b) < o + size + 1
      BY <1>2, <2>1, <3>2
    <3> QED BY <1>4, <3>1, <3>3
  <2>3. Ahead(R, part1, a) = Ahead(R, S, a) \ before
    BY <1>3, <2>2 DEF Ahead
  <2>4. ASSUME NEW c \in before PROVE c \in Ahead(R, S, a)
    <3>1. c \in S /\ rank(c) < o /\ rank(c) \in Nat
      BY <1>1, <1>3, <1>4
    <3>2. rank(c) < rank(a)
      BY <2>1, <3>1
    <3>3. c # a /\ <<a, c>> \notin R
      BY <1>1, <2>1, <3>1, <3>2
    <3> QED BY <2>1, <3>1, <3>3 DEF Orders, Ahead
  <2>5. o <= n
    BY <1>1, <2>1
  <2>6. Cardinality(before) = o
    BY <2>5, FirstAreSoMany
  <2> QED BY <2>3, <2>4, <2>6
<1>6. ASSUME NEW a \in part1 PROVE Cardinality(Ahead(R, part1, a)) < size <=> rank(a) < o + size
  <2>1. a \in S /\ IsFiniteSet(Ahead(R, S, a)) /\ rank(a) \in Nat
    BY <1>1, <1>3
  <2>2. Cardinality(Ahead(R, S, a) \ before) = rank(a) - Cardinality(Ahead(R, S, a) \cap before)
    BY <2>1, FS_Difference
  <2>3. Ahead(R, S, a) \cap before = before
    BY <1>5
  <2>4. Cardinality(Ahead(R, part1, a)) = rank(a) - o
    BY <1>5, <2>2, <2>3
  <2> QED BY <2>1, <2>4
<1>7. FirstOf(R, part1, size) = FirstOf(R, S, o + size) \ before
  <2>1. FirstOf(R, S, o + size) \in SUBSET upto
    BY <1>2, FirstTyped
  <2>2. \A a \in part1 : a \in FirstOf(R, part1, size) <=> rank(a) < o + size
    BY <1>6 DEF FirstOf
  <2>3. \A a \in S : a \in FirstOf(R, S, o + size) <=> rank(a) < o + size
    BY DEF FirstOf
  <2>4. FirstOf(R, part1, size) \subseteq part1
    BY DEF FirstOf
  <2> QED BY <1>3, <2>1, <2>2, <2>3, <2>4
<1>8. IsFiniteSet(upto) /\ Cardinality(part1) = Cardinality(upto) - Cardinality(before)
  <2>1. IsFiniteSet(upto)
    BY <1>3, FS_Subset
  <2>2. upto \cap before = before
    BY <1>3
  <2>3. Cardinality(upto \ before) = Cardinality(upto) - Cardinality(upto \cap before)
    BY <2>1, FS_Difference
  <2> QED BY <1>3, <2>1, <2>2, <2>3
<1>9. /\ o <= n => Cardinality(before) = o
      /\ n <= o => before = S
      /\ o + size + 1 <= n => Cardinality(upto) = o + size + 1
      /\ n <= o + size + 1 => Cardinality(upto) = n
  BY <1>2, FirstAreSoMany
<1>10. Cardinality(part1) > size <=> n > o + size
  <2>1. CASE n > o + size
    BY <1>1, <1>2, <1>8, <1>9, <2>1
  <2>2. CASE n <= o
    BY <1>1, <1>2, <1>8, <1>9, <2>2
  <2>3. CASE o <= n /\ n <= o + size
    BY <1>1, <1>2, <1>8, <1>9, <2>3
  <2> QED BY <1>1, <1>2, <2>1, <2>2, <2>3
<1> QED BY <1>7, <1>10

\* Every position lies on one page.
LEMMA Division ==
    ASSUME NEW r \in Nat, NEW size \in Nat \ {0}
    PROVE  \E k \in Nat : k <= r /\ k * size <= r /\ r < k * size + size
<1> PICK T : T = {m \in Nat : r < m * size + size}
  OBVIOUS
<1>1. r \in T
  <2>1. r * size >= r /\ r * size \in Nat
    OBVIOUS
  <2> QED BY <2>1
<1>2. PICK k \in T : \A m \in T : k <= m
  BY <1>1, LeastIsThere
<1>3. k \in Nat /\ k <= r /\ r < k * size + size
  BY <1>1, <1>2
<1>4. k * size <= r
  <2>1. CASE k = 0
    BY <2>1
  <2>2. CASE k # 0
    <3>1. k - 1 \in Nat /\ k - 1 \notin T
      BY <1>2, <1>3, <2>2
    <3>2. ~ (r < (k - 1) * size + size)
      BY <3>1
    <3>3. (k - 1) * size + size = k * size /\ k * size \in Nat
      BY <1>3
    <3> QED BY <3>2, <3>3
  <2> QED BY <2>1, <2>2
<1> QED BY <1>3, <1>4

LEMMA Multiples ==
    ASSUME NEW k \in Nat, NEW j \in Nat, NEW size \in Nat \ {0}
    PROVE  /\ k * size \in Nat /\ j * size \in Nat
           /\ k < j => k * size + size <= j * size
           /\ k * size < j * size + size => k * size <= j * size
<1>1. k * size \in Nat /\ j * size \in Nat
  OBVIOUS
<1>2. ASSUME k < j PROVE k * size + size <= j * size
  <2>1. PICK d \in Nat : j = k + 1 + d
    <3>1. j - k - 1 \in Nat /\ j = k + 1 + (j - k - 1)
      BY <1>2
    <3> QED BY <3>1
  <2>2. (k + 1 + d) * size = k * size + size + d * size /\ d * size \in Nat
    OBVIOUS
  <2> QED BY <1>1, <2>1, <2>2
<1>3. ASSUME j < k PROVE j * size + size <= k * size
  <2>1. PICK d \in Nat : k = j + 1 + d
    <3>1. k - j - 1 \in Nat /\ k = j + 1 + (k - j - 1)
      BY <1>3
    <3> QED BY <3>1
  <2>2. (j + 1 + d) * size = j * size + size + d * size /\ d * size \in Nat
    OBVIOUS
  <2> QED BY <1>1, <2>1, <2>2
<1>4. ASSUME k * size < j * size + size PROVE k * size <= j * size
  <2>1. k < j \/ k = j
    BY <1>1, <1>3, <1>4
  <2> QED BY <1>1, <1>2, <2>1
<1> QED BY <1>1, <1>2, <1>4

\* Every element is on one of the pages that the size of the set allows.
LEMMA PagesCover ==
    ASSUME NEW R, NEW S, IsFiniteSet(S), Orders(R, S), NEW size \in Nat \ {0},
           NEW bound \in Nat, Cardinality(S) <= bound, NEW a \in S
    PROVE  \E k \in 0..bound : /\ k * size < Cardinality(S)
                               /\ a \in FirstOf(R, S, k * size + size) \ FirstOf(R, S, k * size)
<1> PICK r : r = Cardinality(Ahead(R, S, a))
  OBVIOUS
<1>1. r \in Nat /\ r < Cardinality(S) /\ Cardinality(S) \in Nat
  BY AheadGrows, FS_CardinalityType
<1>2. PICK k \in Nat : k <= r /\ k * size <= r /\ r < k * size + size
  BY <1>1, Division
<1>3. k * size \in Nat
  OBVIOUS
<1>4. k \in 0..bound /\ k * size < Cardinality(S)
  BY <1>1, <1>2, <1>3
<1>5. a \in FirstOf(R, S, k * size + size) /\ a \notin FirstOf(R, S, k * size)
  BY <1>1, <1>2, <1>3 DEF FirstOf
<1> QED BY <1>4, <1>5
-----------------------------------------------------------------------------
(* Discovery *)

\* Local accounts do not move and are not deleted here; who asks to follow
\* Viewer is not blocked.
Standings == {"open", "private", "limited", "suspended", "moved", "gone"}
Severities == {"none", "silence", "suspend"}
DiscoveryInv ==
    /\ DiscoveryTypeOK /\ score \in [Known -> Nat] /\ standing \in [Known -> Standings] /\ rules \in [Strangers -> Severities]
    /\ \A a \in Neighbours : standing[a] \notin {"moved", "gone"}
    /\ \A a \in Strangers : tie[<<a, Viewer>>] = "pending" => ~ Walled(a)

LEMMA KnownAreFinite ==
    /\ IsFiniteSet(Known) /\ Cardinality(Known) \in Nat
    /\ \A S \in SUBSET Known : IsFiniteSet(S) /\ Cardinality(S) \in Nat /\ Cardinality(S) <= Cardinality(Known)
<1>1. IsFiniteSet(Known)
  BY DiscoveryAssumption, FS_Union DEF Known
<1> QED BY <1>1, FS_Subset, FS_CardinalityType

\* The three orders: by rank, and by friends, score and rank.
RankOrder == {p \in Known \X Known : Rank[p[1]] > Rank[p[2]]}
Preferred(proof) ==
    {p \in Known \X Known : LET a == p[1]  b == p[2] IN
        proof[a] > proof[b] \/ (proof[a] = proof[b] /\ (score[a] > score[b] \/ (score[a] = score[b] /\ Rank[a] > Rank[b])))}

LEMMA RankIsAnOrder ==
    ASSUME NEW S \in SUBSET Known
    PROVE  /\ Orders(RankOrder, S)
           /\ \A n \in Nat : Top(S, n, ByRank) = FirstOf(RankOrder, S, n)
<1>1. /\ \A a \in Known : Rank[a] \in Nat
      /\ \A a, b \in Known : Rank[a] = Rank[b] => a = b
  BY DiscoveryAssumption DEF Known
<1>2. Orders(RankOrder, S)
  BY <1>1 DEF Orders, RankOrder
<1>3. \A a \in S : {b \in S : ByRank(b, a)} = Ahead(RankOrder, S, a)
  BY DEF Ahead, RankOrder, ByRank
<1> QED BY <1>2, <1>3 DEF Top, FirstOf

LEMMA PreferenceIsAnOrder ==
    ASSUME DiscoveryInv, NEW S \in SUBSET Known, NEW proof \in [Known -> Nat]
    PROVE  Orders(Preferred(proof), S)
<1>1. /\ \A a \in Known : Rank[a] \in Nat /\ score[a] \in Nat /\ proof[a] \in Nat
      /\ \A a, b \in Known : Rank[a] = Rank[b] => a = b
  BY DiscoveryAssumption DEF Known, DiscoveryInv
<1>2. \A a, b \in Known : <<a, b>> \in Preferred(proof) <=>
        \/ proof[a] > proof[b]
        \/ proof[a] = proof[b] /\ (score[a] > score[b] \/ (score[a] = score[b] /\ Rank[a] > Rank[b]))
  BY DEF Preferred
<1>3. \A a \in S : <<a, a>> \notin Preferred(proof)
  BY <1>1, <1>2
<1>4. \A a, b, c \in S : <<a, b>> \in Preferred(proof) /\ <<b, c>> \in Preferred(proof) => <<a, c>> \in Preferred(proof)
  BY <1>1, <1>2
<1>5. \A a, b \in S : a # b => <<a, b>> \in Preferred(proof) \/ <<b, a>> \in Preferred(proof)
  BY <1>1, <1>2
<1> QED BY <1>3, <1>4, <1>5 DEF Orders

LEMMA ForemostAreFirst ==
    ASSUME DiscoveryInv
    PROVE  /\ FriendProof \in [Known -> Nat]
           /\ \A S \in SUBSET Known : \A n \in Nat : Foremost(S, n) = FirstOf(Preferred(FriendProof), S, n)
<1>1. \A c \in Known : FriendsCount(c) \in Nat
  <2> TAKE c \in Known
  <2>1. {f \in FirstDegree : IsFollowing(f, c)} \in SUBSET Known
    BY DEF FirstDegree
  <2> QED BY <2>1, KnownAreFinite DEF FriendsCount
<1>2. FriendProof \in [Known -> Nat]
  BY <1>1 DEF FriendProof
<1>3. PICK proof : proof = FriendProof
  OBVIOUS
<1>4. ASSUME NEW S \in SUBSET Known, NEW n \in Nat
      PROVE  Foremost(S, n) = FirstOf(Preferred(proof), S, n)
  <2>1. \A a \in S : {b \in S : proof[b] > proof[a] \/ (proof[b] = proof[a] /\ ByScore(b, a))} = Ahead(Preferred(proof), S, a)
    BY DEF Ahead, Preferred, ByScore, Sooner
  <2>2. Foremost(S, n) = {a \in S : Cardinality({b \in S : proof[b] > proof[a] \/ (proof[b] = proof[a] /\ ByScore(b, a))}) < n}
    BY <1>3 DEF Foremost, Top
  <2> QED BY <2>1, <2>2 DEF FirstOf
<1> QED BY <1>2, <1>3, <1>4

\* Nobody is offered who is not listed, and nobody is listed who cannot be found.
LEMMA OffersAreListed ==
    ASSUME DiscoveryInv
    PROVE  WhatIsOfferedIsListed
<1> USE DiscoveryAssumption
<1>1. ASSUME NEW a \in Suggestions
      PROVE  Unrelated(a) /\ a \notin dismissed /\ a \in DirectoryCandidates({Viewer}, FALSE)
  <2>1. CASE a \in LocalCandidates
    <3>1. /\ a \in Pool(Neighbours) /\ a # Viewer /\ standing[a] = "open" /\ tie[<<Viewer, a>>] = "none"
          /\ a \notin dismissed /\ ~ Walled(a) /\ a \notin silenced
      BY <2>1 DEF LocalCandidates, Foremost, Top
    <3>2. a \in Neighbours
      BY <3>1 DEF Pool, FriendCandidates, GloballyRanked, RecentlyActive, Top
    <3>3. a \in DirectoryCandidates({Viewer}, FALSE)
      BY <3>1, <3>2 DEF DirectoryCandidates, LocalListed
    <3>4. Unrelated(a)
      BY <3>1 DEF Unrelated, Relationship, IsFollowing, Walled
    <3> QED BY <3>1, <3>3, <3>4
  <2>2. CASE a \in RemoteCandidates
    <3>1. /\ a \in Pool(Strangers) /\ standing[a] = "open" /\ NotAskedFor(a) /\ a \notin dismissed
          /\ ~ OnHiddenDomain(a) /\ ~ Walled(a) /\ a \notin silenced
      BY <2>2 DEF RemoteCandidates, Foremost, Top
    <3>2. a \in Strangers
      BY <3>1 DEF Pool, FriendCandidates, GloballyRanked, RecentlyActive, Top
    <3>3. a \in DirectoryCandidates({Viewer}, FALSE)
      BY <3>1, <3>2 DEF DirectoryCandidates, RemoteListed
    <3>4. Unrelated(a)
      BY <3>1 DEF Unrelated, Relationship, IsFollowing, Walled, NotAskedFor
    <3> QED BY <3>1, <3>3, <3>4
  <2> QED BY <2>1, <2>2 DEF Suggestions
<1>2. ASSUME NEW v \in {{}, {Viewer}}
      PROVE  /\ DirectoryCandidates(v, FALSE) \subseteq SearchResults(v, FALSE, TRUE)
             /\ SearchResults(v, TRUE, TRUE) \subseteq SearchResults(v, FALSE, TRUE)
             /\ \A a \in SearchResults(v, FALSE, TRUE) : Shown(a) /\ LookedUp(a) /\ ResolvedByUrl(v, a, FALSE)
  <2>1. SearchResults(v, FALSE, TRUE) = Matching(v, FALSE)
    BY DEF SearchResults, SearchAccounts, Matching
  <2>2. DirectoryCandidates(v, FALSE) \subseteq Matching(v, FALSE)
    BY DEF DirectoryCandidates, LocalListed, RemoteListed, Matching, Walled, Known, OnHiddenDomain
  <2>3. SearchResults(v, TRUE, TRUE) \subseteq Matching(v, FALSE)
    BY DEF SearchResults, SearchAccounts, Matching
  <2>4. \A a \in Matching(v, FALSE) : Shown(a) /\ LookedUp(a) /\ ResolvedByUrl(v, a, FALSE)
    BY DEF Matching, Shown, LookedUp, ResolvedByUrl, RemoteIsSuspended, OnHiddenDomain
  <2> QED BY <2>1, <2>2, <2>3, <2>4
<1>3. LocalMatching \subseteq SearchResults({Viewer}, FALSE, FALSE)
  BY DEF LocalMatching, SearchResults, SearchAccounts, Matching, Walled, Known, OnHiddenDomain, DiscoveryInv
<1> QED BY <1>1, <1>2, <1>3 DEF WhatIsOfferedIsListed

LEMMA PoolsAreKnown ==
    ASSUME NEW kind \in {Neighbours, Strangers}
    PROVE  Pool(kind) \subseteq kind /\ kind \in SUBSET Known
  BY DEF Pool, FriendCandidates, GloballyRanked, RecentlyActive, Top, Known

\* The cuts of the pools lose nobody while the accounts fit in one of them.
LEMMA FewAreSuggested ==
    ASSUME DiscoveryInv
    PROVE  FewAreAllSuggested
<1> USE DiscoveryAssumption
<1>1. ASSUME NEW kind \in {Neighbours, Strangers}, NEW a \in kind, standing[a] = "open",
             Cardinality({b \in kind : standing[b] = "open"}) <= PoolLimit
      PROVE  /\ a \in Pool(kind)
             /\ \A S \in SUBSET {b \in kind : standing[b] = "open"} : a \in S => a \in Foremost(S, PoolLimit)
  <2> PICK open : open = {b \in kind : standing[b] = "open"}
    OBVIOUS
  <2>1. open \in SUBSET Known /\ PoolLimit \in Nat /\ a \in open
    BY <1>1, PoolsAreKnown
  <2>2. Orders(RankOrder, open) /\ Top(open, PoolLimit, ByRank) = FirstOf(RankOrder, open, PoolLimit)
    BY <2>1, RankIsAnOrder
  <2>3. FirstOf(RankOrder, open, PoolLimit) = open
    BY <1>1, <2>1, <2>2, KnownAreFinite, FirstAreSoMany
  <2>4. a \in RecentlyActive(kind)
    BY <2>1, <2>2, <2>3 DEF RecentlyActive
  <2>5. ASSUME NEW S \in SUBSET open, a \in S PROVE a \in Foremost(S, PoolLimit)
    <3> PICK proof : proof = FriendProof
      OBVIOUS
    <3>1. S \in SUBSET Known /\ IsFiniteSet(S) /\ IsFiniteSet(open)
      BY <2>1, KnownAreFinite
    <3>2. proof \in [Known -> Nat] /\ Foremost(S, PoolLimit) = FirstOf(Preferred(proof), S, PoolLimit)
      BY <2>1, <3>1, ForemostAreFirst
    <3>3. Orders(Preferred(proof), S)
      BY <3>1, <3>2, PreferenceIsAnOrder
    <3>4. Cardinality(S) <= Cardinality(open) /\ Cardinality(S) \in Nat /\ Cardinality(open) \in Nat
      BY <3>1, FS_Subset, FS_CardinalityType
    <3>5. Cardinality(S) <= PoolLimit
      BY <1>1, <2>1, <3>4
    <3>6. FirstOf(Preferred(proof), S, PoolLimit) = S
      BY <2>1, <3>1, <3>3, <3>5, FirstAreSoMany
    <3> QED BY <2>5, <3>2, <3>6
  <2> QED BY <2>4, <2>5 DEF Pool
<1>2. ASSUME NEW kind \in {Neighbours, Strangers}, Cardinality({b \in kind : standing[b] = "open"}) <= PoolLimit,
             NEW a \in DirectoryCandidates({Viewer}, FALSE) \cap kind, Unrelated(a), a \notin dismissed
      PROVE  a \in Suggestions
  <2>1. standing[a] = "open" /\ ~ Walled(a) /\ a \notin silenced /\ a # Viewer
    BY <1>2 DEF DirectoryCandidates, LocalListed, RemoteListed
  <2>2. a \in Known /\ <<Viewer, a>> \in Tied
    BY <1>2 DEF Known, Tied
  <2>3. tie[<<Viewer, a>>] \in {"none", "retired"}
    BY <1>2, <2>2 DEF DiscoveryInv, DiscoveryTypeOK, Unrelated, Relationship, IsFollowing
  <2>4. CASE kind = Neighbours
    <3>1. tie[<<Viewer, a>>] = "none" /\ a \in Neighbours
      BY <1>2, <2>2, <2>3, <2>4 DEF DiscoveryInv, DiscoveryTypeOK
    <3> PICK S : S = {b \in Pool(Neighbours) : /\ b # Viewer /\ standing[b] = "open" /\ tie[<<Viewer, b>>] = "none"
                                              /\ b \notin dismissed /\ ~ Walled(b) /\ b \notin silenced}
      OBVIOUS
    <3>2. a \in Pool(Neighbours)
      BY <1>1, <1>2, <2>1, <2>4, <3>1
    <3>3. a \in S
      BY <1>2, <2>1, <3>1, <3>2
    <3>4. S \in SUBSET {b \in Neighbours : standing[b] = "open"}
      BY PoolsAreKnown
    <3>5. a \in Foremost(S, PoolLimit)
      BY <1>1, <1>2, <2>1, <2>4, <3>1, <3>3, <3>4
    <3> QED BY <3>5 DEF LocalCandidates, Suggestions
  <2>5. CASE kind = Strangers
    <3>1. NotAskedFor(a) /\ a \in Strangers /\ ~ OnHiddenDomain(a)
      BY <1>2, <2>3, <2>5 DEF NotAskedFor, DirectoryCandidates, LocalListed, RemoteListed
    <3> PICK S : S = {b \in Pool(Strangers) : /\ standing[b] = "open" /\ NotAskedFor(b) /\ b \notin dismissed
                                             /\ ~ OnHiddenDomain(b) /\ ~ Walled(b) /\ b \notin silenced}
      OBVIOUS
    <3>2. a \in Pool(Strangers)
      BY <1>1, <1>2, <2>1, <2>5, <3>1
    <3>3. a \in S
      BY <1>2, <2>1, <3>1, <3>2
    <3>4. S \in SUBSET {b \in Strangers : standing[b] = "open"}
      BY PoolsAreKnown
    <3>5. a \in Foremost(S, PoolLimit)
      BY <1>1, <1>2, <2>1, <2>5, <3>1, <3>3, <3>4
    <3> QED BY <3>5 DEF RemoteCandidates, Suggestions
  <2> QED BY <1>2, <2>4, <2>5
<1> QED BY <1>2 DEF FewAreAllSuggested

\* The pages at the multiples of their size, up to the first that is not full and
\* has no next one, are all of an ordered set, each member once.
AreLinked(offsets, n, size, all) ==
    \A o : o \in offsets <=> \E k \in 0..all : /\ o = k * size
                                               /\ \A j \in 0..all : ~ (n > j * size + size) => k * size <= j * size
AreSlices(page, offsets, R, C, size) ==
    \A o \in offsets : page[o] = FirstOf(R, C, o + size) \ FirstOf(R, C, o)

LEMMA LinkedPagesCover ==
    ASSUME NEW R, NEW C, IsFiniteSet(C), Orders(R, C), NEW size \in Nat \ {0}, NEW all \in Nat, Cardinality(C) <= all,
           NEW offsets, AreLinked(offsets, Cardinality(C), size, all), NEW page, AreSlices(page, offsets, R, C, size)
    PROVE  /\ \A a : (\E o \in offsets : a \in page[o]) <=> a \in C
           /\ \A o, p \in offsets : o # p => page[o] \cap page[p] = {}
           /\ \A o \in offsets : o > 0 => page[o] # {}
<1> PICK n : n = Cardinality(C)
  OBVIOUS
<1> USE DEF AreLinked, AreSlices
<1>1. n \in Nat /\ n <= all /\ size \in Nat
  BY FS_CardinalityType
<1>2. \A k \in 0..all : k \in Nat /\ k * size \in Nat
  OBVIOUS
<1>3. ASSUME NEW o \in offsets PROVE o \in Nat
  <2>1. PICK k \in 0..all : o = k * size
    OBVIOUS
  <2> QED BY <1>2, <2>1
<1>6. \A a : (\E o \in offsets : a \in page[o]) <=> a \in C
  <2>1. \A o \in offsets : page[o] \subseteq C
    BY DEF FirstOf
  <2>2. ASSUME NEW a \in C PROVE \E o \in offsets : a \in page[o]
    <3>1. PICK k \in 0..all : k * size < n /\ a \in FirstOf(R, C, k * size + size) \ FirstOf(R, C, k * size)
      BY <1>1, PagesCover
    <3>2. ASSUME NEW j \in 0..all, ~ (n > j * size + size) PROVE k * size <= j * size
      <4>1. k \in Nat /\ j \in Nat /\ k * size \in Nat /\ j * size \in Nat
        BY <1>2
      <4>2. PICK x \in Nat, y \in Nat : x = k * size /\ y = j * size
        BY <4>1
      <4>3. x < y + size
        BY <1>1, <3>1, <3>2, <4>2
      <4>4. k * size < j * size + size
        BY <4>2, <4>3
      <4> QED BY <1>1, <4>1, <4>4, Multiples
    <3>3. k * size \in offsets
      BY <3>2
    <3> QED BY <3>1, <3>3
  <2> QED BY <2>1, <2>2
<1>7. ASSUME NEW o \in offsets, NEW p \in offsets, o < p PROVE page[o] \cap page[p] = {}
  <2>1. PICK k \in 0..all : o = k * size
    OBVIOUS
  <2>2. PICK j \in 0..all : p = j * size
    OBVIOUS
  <2>3. k \in Nat /\ j \in Nat /\ o \in Nat /\ p \in Nat
    BY <1>2, <1>3
  <2>4. o + size <= p
    <3>1. k < j
      <4>1. ASSUME j <= k PROVE FALSE
        <5>1. CASE j < k
          <6>1. p + size <= o
            BY <1>1, <2>1, <2>2, <2>3, <5>1, Multiples
          <6> QED BY <1>1, <1>7, <2>3, <6>1
        <5>2. CASE j = k
          BY <1>7, <2>1, <2>2, <2>3, <5>2
        <5> QED BY <2>3, <4>1, <5>1, <5>2
      <4> QED BY <2>3, <4>1
    <3> QED BY <1>1, <2>1, <2>2, <2>3, <3>1, Multiples
  <2>5. o + size \in Nat
    BY <1>1, <2>3
  <2>6. FirstOf(R, C, o + size) \in SUBSET FirstOf(R, C, p)
    BY <1>1, <2>3, <2>4, <2>5, FirstTyped
  <2> QED BY <2>6
<1>8. \A o, p \in offsets : o # p => page[o] \cap page[p] = {}
  <2>1. \A o, p \in offsets : o # p => o < p \/ p < o
    BY <1>3
  <2> QED BY <1>7, <2>1
<1>9. ASSUME NEW o \in offsets, o > 0 PROVE page[o] # {}
  <2>1. PICK k \in 0..all : /\ o = k * size
                            /\ \A j \in 0..all : ~ (n > j * size + size) => k * size <= j * size
    OBVIOUS
  <2>2. k \in Nat /\ k # 0 /\ k - 1 \in 0..all /\ k - 1 \in Nat /\ o \in Nat
    BY <1>1, <1>3, <1>9, <2>1
  <2>3. PICK q \in Nat : q = (k - 1) * size
    BY <1>1, <2>2
  <2>4. q + size = o
    BY <1>1, <2>1, <2>2, <2>3
  <2>5. n > o
    <3>1. ~ (o <= q)
      BY <1>1, <2>2, <2>3, <2>4
    <3>2. n > q + size
      BY <2>1, <2>2, <2>3, <3>1
    <3> QED BY <2>4, <3>2
  <2>6. Cardinality(FirstOf(R, C, o)) = o
    <3>1. o <= Cardinality(C)
      BY <1>1, <2>2, <2>5
    <3> QED BY <2>2, <3>1, FirstAreSoMany
  <2>7. o + size \in Nat
    BY <1>1, <2>2
  <2>8. Cardinality(FirstOf(R, C, o + size)) # o
    <3>1. CASE o + size <= n
      <4>1. Cardinality(FirstOf(R, C, o + size)) = o + size
        BY <2>7, <3>1, FirstAreSoMany
      <4> QED BY <1>1, <2>2, <4>1
    <3>2. CASE n <= o + size
      <4>1. FirstOf(R, C, o + size) = C
        BY <2>7, <3>2, FirstAreSoMany
      <4> QED BY <1>1, <2>2, <2>5, <4>1
    <3> QED BY <1>1, <2>7, <3>1, <3>2
  <2>9. FirstOf(R, C, o) \in SUBSET FirstOf(R, C, o + size)
    BY <1>1, <2>2, <2>7, FirstTyped
  <2> QED BY <2>6, <2>8, <2>9
<1> QED BY <1>6, <1>8, <1>9

\* Following the links shows the whole directory, each account once.
LEMMA DirectoryWalked ==
    ASSUME NEW v \in {{}, {Viewer}}
    PROVE  LET offsets == DirectoryOffsets(v, FALSE)
               page == [o \in offsets |-> DirectoryPage(v, FALSE, o).items]
           IN  /\ UNION {page[o] : o \in offsets} = DirectoryCandidates(v, FALSE)
               /\ \A o, p \in offsets : o # p => page[o] \cap page[p] = {}
               /\ \A o \in offsets : o > 0 => page[o] # {}
<1> DEFINE row(C, o) == Top(C, o + ListingLimit + 1, ByRank) \ Top(C, o, ByRank)
<1>p. PICK C : C = DirectoryCandidates(v, FALSE)
  OBVIOUS
<1>1. C \in SUBSET Known
  BY <1>p DEF DirectoryCandidates, LocalListed, RemoteListed, Known
<1>2. PICK size \in Nat \ {0} : size = ListingLimit
  BY DiscoveryAssumption
<1>3. PICK all \in Nat : all = Cardinality(Known)
  BY KnownAreFinite
<1>4. IsFiniteSet(C) /\ Cardinality(C) \in Nat /\ Cardinality(C) <= all
  BY <1>1, <1>3, KnownAreFinite
<1>5. Orders(RankOrder, C)
  BY <1>1, RankIsAnOrder
<1>6. ASSUME NEW o \in Nat
      PROVE  /\ Top(row(C, o), size, ByRank) = FirstOf(RankOrder, C, o + size) \ FirstOf(RankOrder, C, o)
             /\ Cardinality(row(C, o)) > size <=> Cardinality(C) > o + size
  <2>1. o + size \in Nat /\ o + size + 1 \in Nat
    BY <1>2
  <2>2. PICK part1 : part1 = FirstOf(RankOrder, C, o + size + 1) \ FirstOf(RankOrder, C, o)
    OBVIOUS
  <2>3. row(C, o) = part1
    BY <1>1, <1>2, <2>1, <2>2, RankIsAnOrder
  <2>4. part1 \in SUBSET Known
    BY <1>1, <2>2 DEF FirstOf
  <2>5. Top(part1, size, ByRank) = FirstOf(RankOrder, part1, size)
    BY <1>2, <2>4, RankIsAnOrder
  <2>6. /\ FirstOf(RankOrder, part1, size) = FirstOf(RankOrder, C, o + size) \ FirstOf(RankOrder, C, o)
        /\ Cardinality(part1) > size <=> Cardinality(C) > o + size
    BY <1>4, <1>5, <2>2, SliceIsPage
  <2> QED BY <2>3, <2>5, <2>6
<1>7. PICK offsets : offsets = {o \in {k * size : k \in 0..all} :
                         \A l \in {o1 \in {k * size : k \in 0..all} : ~ (Cardinality(row(C, o1)) > size)} : o <= l}
  OBVIOUS
<1>8. PICK page : page = [o \in offsets |-> Top(row(C, o), size, ByRank)]
  OBVIOUS
<1>9. \A k \in 0..all : k \in Nat /\ k * size \in Nat
  BY <1>2, <1>3
<1>10. \A k \in 0..all : Cardinality(row(C, k * size)) > size <=> Cardinality(C) > k * size + size
  BY <1>6, <1>9
<1>11. AreLinked(offsets, Cardinality(C), size, all)
  <2> HIDE DEF row
  <2>1. \A o : o \in offsets <=> \E k \in 0..all : /\ o = k * size
                                                   /\ \A j \in 0..all : ~ (Cardinality(row(C, j * size)) > size) => k * size <= j * size
    BY <1>7
  <2> QED BY <1>10, <2>1 DEF AreLinked
<1>12. AreSlices(page, offsets, RankOrder, C, size)
  <2> SUFFICES ASSUME NEW o \in offsets
               PROVE  page[o] = FirstOf(RankOrder, C, o + size) \ FirstOf(RankOrder, C, o)
    BY DEF AreSlices
  <2>1. o \in Nat
    BY <1>7, <1>9
  <2> HIDE DEF row
  <2> QED BY <1>6, <1>8, <2>1
<1>13. /\ \A a : (\E o \in offsets : a \in page[o]) <=> a \in C
       /\ \A o, p \in offsets : o # p => page[o] \cap page[p] = {}
       /\ \A o \in offsets : o > 0 => page[o] # {}
  BY <1>2, <1>3, <1>4, <1>5, <1>11, <1>12, LinkedPagesCover
<1>14. UNION {page[o] : o \in offsets} = C
  BY <1>13
<1>15. \A o : /\ DirectoryPage(v, FALSE, o).items = Top(row(C, o), size, ByRank)
              /\ DirectoryPage(v, FALSE, o).hasMore = (Cardinality(row(C, o)) > size)
  BY <1>p, <1>2, Zenon DEF DirectoryPage
<1>16. offsets = DirectoryOffsets(v, FALSE)
  <2>1. {o \in {k * size : k \in 0..all} : ~ DirectoryPage(v, FALSE, o).hasMore}
          = {o \in {k * size : k \in 0..all} : ~ (Cardinality(row(C, o)) > size)}
    BY <1>15, Zenon
  <2> QED BY <1>2, <1>3, <1>7, <2>1, Zenon DEF DirectoryOffsets
<1> DEFINE offs == DirectoryOffsets(v, FALSE)
           pg == [o \in offs |-> DirectoryPage(v, FALSE, o).items]
<1>17. offs = offsets /\ pg = page
  BY <1>8, <1>15, <1>16, Zenon
<1> HIDE DEF offs, pg
<1>18. /\ UNION {pg[o] : o \in offs} = C
       /\ \A o, p \in offs : o # p => pg[o] \cap pg[p] = {}
       /\ \A o \in offs : o > 0 => pg[o] # {}
  BY <1>13, <1>14, <1>17
<1> USE DEF offs, pg
<1> QED BY <1>p, <1>18, Zenon

\* So do the pages of the suggestions.
LEMMA SuggestionsWalked ==
    ASSUME DiscoveryInv
    PROVE  LET all == Suggestions IN UNION {SuggestionPage(all, k * ListingLimit) : k \in 0..Cardinality(Known)} = all
<1> PICK S, size, proof : S = Suggestions /\ size = ListingLimit /\ proof = FriendProof
  OBVIOUS
<1>1. S \in SUBSET Known
  <2>1. LocalCandidates \subseteq Neighbours /\ RemoteCandidates \subseteq Strangers
    BY PoolsAreKnown DEF LocalCandidates, RemoteCandidates, Foremost, Top
  <2> QED BY <2>1 DEF Suggestions, Known
<1>2. /\ IsFiniteSet(S) /\ size \in Nat \ {0} /\ Cardinality(S) <= Cardinality(Known) /\ Cardinality(Known) \in Nat
      /\ Orders(Preferred(proof), S)
      /\ \A n \in Nat : Foremost(S, n) = FirstOf(Preferred(proof), S, n)
  <2>1. IsFiniteSet(S) /\ Cardinality(S) <= Cardinality(Known) /\ Cardinality(Known) \in Nat
    BY <1>1, KnownAreFinite
  <2>2. proof \in [Known -> Nat] /\ \A n \in Nat : Foremost(S, n) = FirstOf(Preferred(proof), S, n)
    BY <1>1, ForemostAreFirst
  <2>3. Orders(Preferred(proof), S)
    BY <1>1, <2>2, PreferenceIsAnOrder
  <2> QED BY <2>1, <2>2, <2>3, DiscoveryAssumption
<1>3. \A k \in 0..Cardinality(Known) :
        SuggestionPage(S, k * size) = FirstOf(Preferred(proof), S, k * size + size) \ FirstOf(Preferred(proof), S, k * size)
  <2> TAKE k \in 0..Cardinality(Known)
  <2>1. k * size \in Nat /\ k * size + size \in Nat
    BY <1>2
  <2> QED BY <1>2, <2>1 DEF SuggestionPage
<1>4. ASSUME NEW a \in S PROVE \E k \in 0..Cardinality(Known) : a \in SuggestionPage(S, k * size)
  <2>1. PICK R, all : R = Preferred(proof) /\ all = Cardinality(Known)
    OBVIOUS
  <2>2. Orders(R, S) /\ all \in Nat /\ Cardinality(S) <= all
    BY <1>2, <2>1
  <2>3. PICK k \in 0..all : a \in FirstOf(R, S, k * size + size) \ FirstOf(R, S, k * size)
    BY <1>2, <2>2, PagesCover
  <2> QED BY <1>3, <2>1, <2>3
<1>5. \A k \in 0..Cardinality(Known) : SuggestionPage(S, k * size) \subseteq S
  BY DEF SuggestionPage, Foremost, Top
<1> QED BY <1>4, <1>5

LEMMA CountsAgree ==
    ASSUME DiscoveryInv
    PROVE  ListsAgree
<1> USE DiscoveryAssumption
<1>1. ASSUME NEW A, NEW B, NEW C, A \subseteq Neighbours, B \subseteq Strangers, C = A \cup B
      PROVE  /\ Cardinality(C) = Cardinality(A) + Cardinality(B) /\ Cardinality(A) \in Nat
             /\ B = {} => Cardinality(A) = Cardinality(A) + Cardinality(B)
  <2>1. IsFiniteSet(A) /\ IsFiniteSet(B) /\ Cardinality(A) \in Nat /\ Cardinality(B) \in Nat
    BY <1>1, FS_Subset, FS_CardinalityType
  <2>2. A \cap B = {}
    BY <1>1
  <2>3. Cardinality(A \cup B) = Cardinality(A) + Cardinality(B) - Cardinality(A \cap B) /\ Cardinality(A \cap B) = 0
    BY <2>1, <2>2, FS_Union, FS_EmptySet
  <2> QED BY <1>1, <2>1, <2>3, FS_EmptySet
<1>2. ASSUME NEW a \in Known PROVE Cardinality(FollowerRows(a)) = FollowersCount(a)
  BY <1>1 DEF FollowerRows, FollowersCount, Known
<1>3. ASSUME NEW a \in Strangers
      PROVE  /\ Cardinality(RemoteFollowerRows(a)) = FollowersCount(a)
             /\ Cardinality(RemoteFollowingRows(a)) = FollowingCount(a)
  <2>1. {f \in Strangers : IsFollowing(f, a)} = {} /\ {b \in Strangers : IsFollowing(a, b)} = {}
    BY DEF IsFollowing, Tied, Known
  <2>2. Cardinality(RemoteFollowerRows(a)) = FollowersCount(a)
    BY <1>1, <2>1 DEF RemoteFollowerRows, FollowersCount
  <2>3. Cardinality(RemoteFollowingRows(a)) = FollowingCount(a)
    BY <1>1, <2>1 DEF RemoteFollowingRows, FollowingCount
  <2> QED BY <2>2, <2>3
<1>4. ASSUME NEW a \in Others
      PROVE  LET r == Relationship(a) IN
             /\ a \in AccountCollection(Viewer, "followers") => r.followed_by
             /\ a \in AccountCollection(Viewer, "blocks") => r.blocking
             /\ a \in AccountCollection(Viewer, "mutes") => r.muting
             /\ r.following /\ LookedUp(a) => a \in AccountCollection(Viewer, "following")
             /\ a \in FollowRequests => ~ r.followed_by /\ ~ r.blocking /\ ~ r.blocked_by
  <2>1. a \in AccountCollection(Viewer, "followers") => IsFollowing(a, Viewer)
    BY DEF AccountCollection, Responses, FollowCollection, FollowerRows
  <2>2. a \in AccountCollection(Viewer, "blocks") => <<Viewer, a>> \in walls
    BY DEF AccountCollection, Responses, BlockRows
  <2>3. a \in AccountCollection(Viewer, "mutes") => a \in silenced
    BY DEF AccountCollection, Responses, MuteRows
  <2>4. IsFollowing(Viewer, a) /\ LookedUp(a) => a \in AccountCollection(Viewer, "following")
    BY DEF AccountCollection, Responses, FollowCollection, FollowingRows, IsFollowing, LookedUp, Others
  <2>5. a \in FollowRequests => ~ IsFollowing(a, Viewer) /\ ~ Walled(a)
    BY DEF FollowRequests, RequestRows, IsFollowing, DiscoveryInv
  <2> QED BY <2>1, <2>2, <2>3, <2>4, <2>5 DEF Relationship, Walled
<1> QED BY <1>2, <1>3, <1>4 DEF ListsAgree

LEMMA DiscoveryKeeps ==
    ASSUME DiscoveryInv, [DiscoveryNext]_discovery_vars
    PROVE  DiscoveryInv'
<1> USE DiscoveryAssumption
<1> DEFINE Ties == {"none", "pending", "accepted", "retired"}
<1>0. /\ tie \in [Tied -> Ties] /\ standing \in [Known -> Standings] /\ rules \in [Strangers -> Severities] /\ score \in [Known -> Nat]
      /\ \A p \in Tied : p[2] \in Neighbours => tie[p] # "retired"
  BY DEF DiscoveryInv, DiscoveryTypeOK
<1>1. ASSUME NEW x, NEW y, <<x, y>> \in Tied, RequestFollow(x, y) \/ AuthorizeFollow(x, y) \/ EndFollow(x, y)
      PROVE  DiscoveryInv'
  <2>0. UNCHANGED <<walls, silenced, dismissed, standing, rules, score>>
    BY <1>1 DEF RequestFollow, AuthorizeFollow, EndFollow
  <2>1. PICK t \in {"none", "pending", "accepted"} : /\ tie' = [tie EXCEPT ![<<x, y>>] = t]
                                                     /\ t = "pending" => <<x, y>> \notin walls /\ <<y, x>> \notin walls
    BY <1>1 DEF RequestFollow, AuthorizeFollow, EndFollow
  <2> PICK p \in Tied : p = <<x, y>>
    BY <1>1
  <2>2. tie' \in [Tied -> Ties] /\ tie'[p] = t /\ \A q \in Tied : q # p => tie'[q] = tie[q]
    <3>1. tie' = [tie EXCEPT ![p] = t]
      BY <2>1
    <3> QED BY <1>0, <3>1
  <2>3. DiscoveryTypeOK'
    BY <1>0, <2>0, <2>2 DEF DiscoveryInv, DiscoveryTypeOK
  <2>4. \A a \in Strangers : tie'[<<a, Viewer>>] = "pending" => ~ Walled(a)'
    <3> TAKE a \in Strangers
    <3>1. <<a, Viewer>> \in Tied
      BY DEF Tied
    <3>2. CASE <<a, Viewer>> = p
      <4>1. x = a /\ y = Viewer
        BY <3>2
      <4> QED BY <2>0, <2>1, <2>2, <3>2, <4>1 DEF Walled
    <3>3. CASE <<a, Viewer>> # p
      BY <2>0, <2>2, <3>1, <3>3 DEF Walled, DiscoveryInv
    <3> QED BY <3>2, <3>3
  <2> QED BY <2>0, <2>3, <2>4 DEF DiscoveryInv
<1>11. ASSUME NEW p \in Tied, RequestFollow(p[1], p[2]) \/ AuthorizeFollow(p[1], p[2]) \/ EndFollow(p[1], p[2])
       PROVE  DiscoveryInv'
  <2>1. <<p[1], p[2]>> \in Tied
    BY DEF Tied
  <2> QED BY <1>1, <1>11, <2>1
<1>2. ASSUME NEW a \in Neighbours, NEW r \in Strangers, NEW s \in Strangers, MigrateFollow(a, r, s) PROVE DiscoveryInv'
  <2>1. /\ <<a, r>> \in Tied /\ <<a, s>> \in Tied /\ \A b \in Strangers : <<b, Viewer>> \in Tied /\ <<b, Viewer>> \notin {<<a, r>>, <<a, s>>}
    BY DEF Tied, Known
  <2>2. UNCHANGED <<walls, silenced, dismissed, standing, rules, score>>
    BY <1>2 DEF MigrateFollow
  <2>3. tie' \in [Tied -> Ties] /\ \A q \in Tied : q \notin {<<a, r>>, <<a, s>>} => tie'[q] = tie[q]
    BY <1>0, <1>2, <2>1 DEF MigrateFollow
  <2>4. \A q \in Tied : q[2] \in Neighbours => q \notin {<<a, r>>, <<a, s>>}
    OBVIOUS
  <2>5. DiscoveryTypeOK'
    BY <1>0, <2>2, <2>3, <2>4 DEF DiscoveryInv, DiscoveryTypeOK
  <2> QED BY <2>1, <2>2, <2>3, <2>5 DEF DiscoveryInv, Walled
<1>3. ASSUME NEW a \in Known, NEW b \in Known, Viewer \in {a, b}, CreateBlock(a, b) PROVE DiscoveryInv'
  <2>1. /\ a # b /\ walls' = walls \cup {<<a, b>>} /\ UNCHANGED <<silenced, dismissed, standing, rules, score>>
        /\ tie' = [p \in Tied |-> IF p \in {<<a, b>>, <<b, a>>} THEN "none" ELSE tie[p]]
    BY <1>3 DEF CreateBlock
  <2>2. tie' \in [Tied -> Ties] /\ \A p \in Tied : tie'[p] \in {"none", tie[p]} /\ (p \in {<<a, b>>, <<b, a>>} => tie'[p] = "none")
    BY <1>0, <2>1
  <2>3. <<a, b>> \in ({Viewer} \X Others) \cup (Others \X {Viewer})
    BY <1>3, <2>1 DEF Others
  <2>4. DiscoveryTypeOK'
    BY <1>0, <2>1, <2>2, <2>3 DEF DiscoveryInv, DiscoveryTypeOK
  <2>5. \A c \in Strangers : tie'[<<c, Viewer>>] = "pending" => ~ Walled(c)'
    BY <2>1, <2>2 DEF DiscoveryInv, Walled, Tied
  <2> QED BY <2>1, <2>4, <2>5 DEF DiscoveryInv
<1>4. ASSUME NEW a \in Known, NEW b \in Known, DeleteBlock(a, b) PROVE DiscoveryInv'
  BY <1>4 DEF DiscoveryInv, DiscoveryTypeOK, DeleteBlock, Walled
<1>5. ASSUME NEW a \in Others, MuteAccount(a) \/ UnmuteAccount(a) \/ DismissSuggestion(a) PROVE DiscoveryInv'
  BY <1>5 DEF DiscoveryInv, DiscoveryTypeOK, MuteAccount, UnmuteAccount, DismissSuggestion, Walled
<1>6. ASSUME NEW a \in Others, NEW s \in Standings, ChangeStanding(a, s)
      PROVE  DiscoveryInv'
  <2>1. /\ UNCHANGED <<walls, silenced, dismissed, rules, score>> /\ (s \in {"moved", "gone"} => a \in Strangers)
        /\ standing' = [standing EXCEPT ![a] = s] /\ a \in Known
    BY <1>6 DEF ChangeStanding, Others
  <2>2. standing' \in [Known -> Standings]
    BY <1>0, <2>1
  <2>6. \A b \in Neighbours : standing'[b] \notin {"moved", "gone"}
    <3> TAKE b \in Neighbours
    <3>1. b \in Known /\ standing[b] \notin {"moved", "gone"}
      BY DEF DiscoveryInv, Known
    <3>2. CASE b = a
      BY <1>0, <2>1, <3>2
    <3>3. CASE b # a
      BY <1>0, <2>1, <3>1, <3>3
    <3> QED BY <3>2, <3>3
  <2>3. tie' \in [Tied -> Ties] /\ \A p \in Tied : tie'[p] \in {"none", tie[p]}
    BY <1>0, <1>6 DEF ChangeStanding
  <2>4. DiscoveryTypeOK'
    BY <1>0, <2>1, <2>3 DEF DiscoveryInv, DiscoveryTypeOK
  <2>5. \A c \in Strangers : tie'[<<c, Viewer>>] = "pending" => ~ Walled(c)'
    BY <2>1, <2>3 DEF DiscoveryInv, Walled, Tied
  <2> QED BY <2>1, <2>2, <2>4, <2>5, <2>6 DEF DiscoveryInv
<1>7. ASSUME NEW r \in Strangers, NEW severity \in Severities, SetDomainRule(r, severity) PROVE DiscoveryInv'
  <2>1. rules' \in [Strangers -> Severities]
    BY <1>0, <1>7 DEF SetDomainRule
  <2> QED BY <1>7, <2>1 DEF DiscoveryInv, DiscoveryTypeOK, SetDomainRule, Walled
<1>8. CASE RefreshScores
  <2>1. \A a \in Known : ScoreOf(a) \in Nat
    BY FS_Subset, FS_CardinalityType DEF ScoreOf
  <2>2. score' \in [Known -> Nat]
    BY <1>8, <2>1 DEF RefreshScores
  <2> QED BY <1>8, <2>2 DEF DiscoveryInv, DiscoveryTypeOK, RefreshScores, Walled
<1>9. CASE UNCHANGED discovery_vars
  BY <1>9 DEF discovery_vars, DiscoveryInv, DiscoveryTypeOK, Walled
<1>10. ASSUME NEW a \in Others,
              CreateBlock(Viewer, a) \/ CreateBlock(a, Viewer) \/ DeleteBlock(Viewer, a) \/ DeleteBlock(a, Viewer)
       PROVE  DiscoveryInv'
  <2>1. a \in Known /\ Viewer \in Known
    BY DEF Others, Known
  <2> QED BY <1>3, <1>4, <1>10, <2>1
<1> QED BY <1>2, <1>5, <1>6, <1>7, <1>8, <1>9, <1>10, <1>11 DEF DiscoveryNext, Standings, Severities

\* Suggestions, directory, search, lookup, lists and relationships say the same
\* about an account, and the pages of the directory and of the suggestions show
\* all of them, each once: for any accounts, size of a page and size of the
\* pools, and however old the scores are.
THEOREM DiscoveryAlwaysAgrees == DiscoverySpec => []DiscoveryAgrees
<1>1. DiscoveryInit => DiscoveryInv
  <2> SUFFICES ASSUME DiscoveryInit PROVE DiscoveryInv
    OBVIOUS
  <2>1. DiscoveryTypeOK
    BY DEF DiscoveryInit, DiscoveryTypeOK
  <2>2. /\ score \in [Known -> Nat] /\ standing \in [Known -> Standings] /\ rules \in [Strangers -> Severities]
        /\ \A a \in Neighbours : standing[a] \notin {"moved", "gone"}
    BY DEF DiscoveryInit, Known, Standings, Severities
  <2>3. \A a \in Strangers : ~ Walled(a)
    BY DEF DiscoveryInit, Walled
  <2> QED BY <2>1, <2>2, <2>3 DEF DiscoveryInv
<1>2. DiscoveryInv /\ [DiscoveryNext]_discovery_vars => DiscoveryInv'
  BY DiscoveryKeeps
<1>3. DiscoveryInv => DiscoveryAgrees
  <2> SUFFICES ASSUME DiscoveryInv PROVE DiscoveryAgrees
    OBVIOUS
  <2>1. DirectoryIsWalked
    BY DirectoryWalked, SuggestionsWalked DEF DirectoryIsWalked
  <2> QED BY <2>1, OffersAreListed, FewAreSuggested, CountsAgree DEF DiscoveryAgrees, DiscoveryInv
<1> QED BY <1>1, <1>2, <1>3, PTL DEF DiscoverySpec

-----------------------------------------------------------------------------
(* Notifications *)

NotificationRows == [id : Nat, event : Events, group : Nat, filtered : BOOLEAN, dismissed : BOOLEAN, at : Nat]
Deliveries == [phase : {"none", "insert", "publish"}, event : Events \cup {Nothing}, held : BOOLEAN, row : Nat, since : Nat]

FeedTyped ==
    /\ rows \in SUBSET NotificationRows
    /\ groupState \in [Groupable \X Abouts -> [group : Nat, started : Nat]]
    /\ notifier \in [Notifiers -> Deliveries]
    /\ pushes \in SUBSET Nat /\ streams \in SUBSET Nat
    /\ unseen \subseteq FeedSenders /\ visible \subseteq Abouts
    /\ nextRow \in 1..(MaxRows + 1) /\ lastRead \in 0..MaxRows /\ lastRead < nextRow /\ hourNow \in Nat

\* Each row has an id and an event of its own, and the id was handed out.
RowsFit ==
    /\ \A r \in rows : r.id \in 1..(nextRow - 1) /\ r.group < nextRow
    /\ \A r, q \in rows : r.id = q.id \/ r.event = q.event => r = q

\* A group belongs to one kind and one subject, and its rows are of one window:
\* a transaction may have begun MaxSpan before the group did.
GroupsFit ==
    /\ \A r \in rows : r.group # 0 => r.event.kind \in Groupable
    /\ \A r, q \in rows : r.group = q.group /\ r.group # 0 =>
          r.event.kind = q.event.kind /\ r.event.about = q.event.about /\ r.at < q.at + Window + MaxSpan
    /\ \A t \in Groupable \X Abouts : \A r \in rows : r.group = groupState[t].group /\ r.group # 0 =>
          /\ t = <<r.event.kind, r.event.about>> /\ r.at < groupState[t].started + Window
          /\ groupState[t].started <= r.at + MaxSpan
    /\ \A t, u \in Groupable \X Abouts : groupState[t].group = groupState[u].group /\ groupState[t].group # 0 => t = u
    /\ \A t \in Groupable \X Abouts : groupState[t].group < nextRow /\ groupState[t].started <= hourNow

\* A transaction that inserts has an event and is not older than MaxSpan; one that
\* publishes knows whether its row is held.
DeliveriesFit ==
    \A w \in Notifiers :
        /\ notifier[w].phase = "insert" =>
              notifier[w].event \in Events /\ notifier[w].since <= hourNow /\ hourNow <= notifier[w].since + MaxSpan
        /\ notifier[w].phase = "publish" =>
              /\ notifier[w].row < nextRow
              /\ ~ notifier[w].held => \A r \in rows : r.id = notifier[w].row => ~ r.filtered

SilenceFits ==
    /\ \A i \in pushes \cup streams : i \in 1..(nextRow - 1)
    /\ HeldIsSilent

FeedInv == FeedTyped /\ RowsFit /\ GroupsFit /\ DeliveriesFit /\ SilenceFits

\* A transaction goes on to another phase, and nothing else happens.
LEMMA BecomingFits ==
    ASSUME FeedInv, NEW w \in Notifiers, NEW next \in Deliveries, notifier' = [notifier EXCEPT ![w] = next],
           UNCHANGED <<rows, groupState, pushes, unseen, visible, lastRead, hourNow, nextRow>>,
           streams' \in SUBSET Nat, \A i \in streams' : i \in 1..(nextRow - 1),
           \A r \in rows : r.filtered => r.id \notin streams',
           next.phase = "insert" => next.event \in Events /\ next.since <= hourNow /\ hourNow <= next.since + MaxSpan,
           next.phase = "publish" => next.row < nextRow /\ (~ next.held => \A r \in rows : r.id = next.row => ~ r.filtered)
    PROVE  FeedInv'
<1>1. notifier' \in [Notifiers -> Deliveries] /\ notifier'[w] = next /\ \A v \in Notifiers : v # w => notifier'[v] = notifier[v]
  BY DEF FeedInv, FeedTyped
<1>2. FeedTyped'
  BY <1>1 DEF FeedInv, FeedTyped
<1>3. RowsFit' /\ GroupsFit'
  BY DEF FeedInv, RowsFit, GroupsFit
<1>4. DeliveriesFit'
  <2> SUFFICES ASSUME NEW v \in Notifiers
               PROVE  /\ notifier'[v].phase = "insert" =>
                            notifier'[v].event \in Events /\ notifier'[v].since <= hourNow /\ hourNow <= notifier'[v].since + MaxSpan
                      /\ notifier'[v].phase = "publish" =>
                            /\ notifier'[v].row < nextRow
                            /\ ~ notifier'[v].held => \A r \in rows : r.id = notifier'[v].row => ~ r.filtered
    BY DEF DeliveriesFit
  <2>1. CASE v = w
    BY <1>1, <2>1
  <2>2. CASE v # w
    BY <1>1, <2>2 DEF FeedInv, DeliveriesFit
  <2> QED BY <2>1, <2>2
<1>5. SilenceFits'
  BY DEF FeedInv, SilenceFits, HeldIsSilent
<1> QED BY <1>2, <1>3, <1>4, <1>5 DEF FeedInv

\* The flags of rows change, and no flag begins to hold a row back.
MarksOnly(up) ==
    \A r \in rows : /\ up[r].id = r.id /\ up[r].event = r.event /\ up[r].group = r.group /\ up[r].at = r.at
                    /\ up[r].filtered => r.filtered

LEMMA MarkingFits ==
    ASSUME FeedInv, NEW up \in [rows -> NotificationRows], rows' = {up[r] : r \in rows}, MarksOnly(up),
           UNCHANGED <<groupState, notifier, pushes, streams, unseen, visible, lastRead, hourNow, nextRow>>
    PROVE  FeedInv'
<1>1. \A q \in rows' : \E r \in rows : /\ q = up[r] /\ q.id = r.id /\ q.event = r.event /\ q.group = r.group /\ q.at = r.at
                                       /\ q.filtered => r.filtered
  BY DEF MarksOnly
<1>2. FeedTyped'
  BY DEF FeedInv, FeedTyped
<1>3. RowsFit'
  <2>1. \A r \in rows' : r.id \in 1..(nextRow - 1) /\ r.group < nextRow
    BY <1>1 DEF FeedInv, RowsFit
  <2>2. \A r, q \in rows' : r.id = q.id \/ r.event = q.event => r = q
    BY <1>1 DEF FeedInv, RowsFit
  <2> QED BY <2>1, <2>2 DEF RowsFit
<1>4. GroupsFit'
  <2>1. \A r \in rows' : r.group # 0 => r.event.kind \in Groupable
    BY <1>1 DEF FeedInv, GroupsFit
  <2>2. \A r, q \in rows' : r.group = q.group /\ r.group # 0 =>
          r.event.kind = q.event.kind /\ r.event.about = q.event.about /\ r.at < q.at + Window + MaxSpan
    BY <1>1 DEF FeedInv, GroupsFit
  <2>3. \A t \in Groupable \X Abouts : \A r \in rows' : r.group = groupState[t].group /\ r.group # 0 =>
          /\ t = <<r.event.kind, r.event.about>> /\ r.at < groupState[t].started + Window
          /\ groupState[t].started <= r.at + MaxSpan
    BY <1>1 DEF FeedInv, GroupsFit
  <2>4. /\ \A t, u \in Groupable \X Abouts : groupState[t].group = groupState[u].group /\ groupState[t].group # 0 => t = u
        /\ \A t \in Groupable \X Abouts : groupState[t].group < nextRow /\ groupState[t].started <= hourNow
    BY DEF FeedInv, GroupsFit
  <2> QED BY <2>1, <2>2, <2>3, <2>4 DEF GroupsFit
<1>5. DeliveriesFit'
  BY <1>1 DEF FeedInv, DeliveriesFit
<1>6. SilenceFits'
  BY <1>1 DEF FeedInv, SilenceFits, HeldIsSilent
<1> QED BY <1>2, <1>3, <1>4, <1>5, <1>6 DEF FeedInv

\* The group of a new row.
JoinsGroup(e, new) ==
    \/ new.group = 0 /\ UNCHANGED groupState
    \/ /\ e.kind \in Groupable /\ new.group = GroupOf(e, new.at).group
       /\ groupState' = [groupState EXCEPT ![<<e.kind, e.about>>] = GroupOf(e, new.at)]
       /\ new.at <= hourNow /\ hourNow <= new.at + MaxSpan

\* A row that is not held is pushed, and its publisher knows.
Announces(new, next) ==
    /\ pushes' = IF new.filtered THEN pushes ELSE pushes \cup {nextRow}
    /\ next.phase = "publish" /\ next.row = nextRow /\ next.held = new.filtered

\* A row is inserted, in a group of its own, in a group whose window lasts, or in
\* none.
LEMMA InsertionFits ==
    ASSUME FeedInv, nextRow <= MaxRows, NEW w \in Notifiers, NEW e \in Events, NEW new \in NotificationRows,
           new.id = nextRow, new.event = e, rows' = (rows \ Existing(e)) \cup {new},
           JoinsGroup(e, new),
           nextRow' = nextRow + 1, NEW next \in Deliveries, Announces(new, next),
           notifier' = [notifier EXCEPT ![w] = next],
           UNCHANGED <<streams, unseen, visible, lastRead, hourNow>>
    PROVE  FeedInv'
<1> USE FeedAssumption DEF Announces
<1>1. /\ notifier' \in [Notifiers -> Deliveries] /\ notifier'[w] = next /\ \A v \in Notifiers : v # w => notifier'[v] = notifier[v]
      /\ nextRow \in Nat /\ nextRow >= 1 /\ hourNow \in Nat /\ rows \in SUBSET NotificationRows /\ groupState \in [Groupable \X Abouts -> [group : Nat, started : Nat]]
  BY DEF FeedInv, FeedTyped
<1>2. \A r \in rows' : r = new \/ (r \in rows /\ r.event # e)
  BY DEF Existing
<1>3. \A r \in rows : r.id # nextRow /\ r.id \in Nat /\ r.group \in Nat /\ r.group < nextRow /\ r.at \in Nat
  BY <1>1 DEF FeedInv, RowsFit, NotificationRows
<1>4. new.at \in Nat /\ new.group \in Nat
  BY DEF NotificationRows
<1>5. RowsFit'
  <2>1. new.group < nextRow + 1
    <3>1. CASE new.group = 0
      BY <1>1, <3>1
    <3>2. CASE e.kind \in Groupable /\ new.group = GroupOf(e, new.at).group
      <4>1. <<e.kind, e.about>> \in Groupable \X Abouts
        BY <3>2 DEF Abouts
      <4>2. groupState[<<e.kind, e.about>>].group < nextRow /\ groupState[<<e.kind, e.about>>].group \in Nat
        BY <1>1, <4>1 DEF FeedInv, GroupsFit
      <4> QED BY <1>1, <3>2, <4>2 DEF GroupOf
    <3> QED BY <3>1, <3>2 DEF JoinsGroup
  <2>2. \A r \in rows' : r.id \in 1..nextRow /\ r.group < nextRow + 1
    BY <1>1, <1>2, <1>3, <2>1 DEF FeedInv, RowsFit
  <2>3. \A r, q \in rows' : r.id = q.id \/ r.event = q.event => r = q
    BY <1>2, <1>3 DEF FeedInv, RowsFit
  <2> QED BY <1>1, <2>2, <2>3 DEF RowsFit
<1>6. GroupsFit' /\ groupState' \in [Groupable \X Abouts -> [group : Nat, started : Nat]]
  <2>0. /\ \A r \in rows : r.group # 0 => r.event.kind \in Groupable
        /\ \A r, q \in rows : r.group = q.group /\ r.group # 0 =>
              r.event.kind = q.event.kind /\ r.event.about = q.event.about /\ r.at < q.at + Window + MaxSpan
        /\ \A t \in Groupable \X Abouts : \A r \in rows : r.group = groupState[t].group /\ r.group # 0 =>
              /\ t = <<r.event.kind, r.event.about>> /\ r.at < groupState[t].started + Window
              /\ groupState[t].started <= r.at + MaxSpan
        /\ \A t, u \in Groupable \X Abouts : groupState[t].group = groupState[u].group /\ groupState[t].group # 0 => t = u
        /\ \A t \in Groupable \X Abouts : /\ groupState[t].group < nextRow /\ groupState[t].started <= hourNow
                                          /\ groupState[t].group \in Nat /\ groupState[t].started \in Nat
    BY <1>1 DEF FeedInv, GroupsFit
  <2>1. CASE new.group = 0 /\ UNCHANGED groupState
    <3>1. \A t \in Groupable \X Abouts : groupState'[t].group < nextRow' /\ groupState'[t].started <= hourNow'
      BY <1>1, <2>0, <2>1
    <3> QED BY <1>1, <1>2, <2>0, <2>1, <3>1 DEF GroupsFit
  <2>2. CASE /\ e.kind \in Groupable /\ new.group = GroupOf(e, new.at).group
             /\ groupState' = [groupState EXCEPT ![<<e.kind, e.about>>] = GroupOf(e, new.at)]
             /\ new.at <= hourNow /\ hourNow <= new.at + MaxSpan
    <3> PICK t \in Groupable \X Abouts : t = <<e.kind, e.about>>
      BY <2>2 DEF Abouts
    <3> PICK g : g = GroupOf(e, new.at)
      OBVIOUS
    <3>1. \/ g = groupState[t] /\ g.group # 0 /\ g.started + Window > new.at
          \/ g = [group |-> nextRow, started |-> new.at]
      BY DEF GroupOf
    <3>2. g \in [group : Nat, started : Nat] /\ g.group \in Nat /\ g.started \in Nat
      BY <1>1, <1>4, <3>1
    <3>3. /\ g.group # 0 /\ g.group < nextRow + 1 /\ new.at < g.started + Window
          /\ g.started <= new.at + MaxSpan /\ g.started <= hourNow
      <4>1. CASE g = groupState[t] /\ g.group # 0 /\ g.started + Window > new.at
        <5>1. g.group < nextRow /\ g.started <= hourNow
          BY <2>0, <4>1
        <5> QED BY <1>1, <1>4, <2>2, <3>2, <4>1, <5>1
      <4>2. CASE g = [group |-> nextRow, started |-> new.at]
        <5>1. g.group = nextRow /\ g.started = new.at /\ nextRow # 0
          BY <4>2 DEF FeedInv, FeedTyped
        <5> QED BY <1>1, <1>4, <2>2, <5>1
      <4> QED BY <3>1, <4>1, <4>2
    <3>4. \A r \in rows : r.group = g.group =>
            /\ t = <<r.event.kind, r.event.about>> /\ r.at < g.started + Window /\ g.started <= r.at + MaxSpan
      <4>1. CASE g = groupState[t]
        BY <2>0, <3>3, <4>1
      <4>2. CASE g = [group |-> nextRow, started |-> new.at]
        BY <1>1, <1>3, <4>2
      <4> QED BY <3>1, <4>1, <4>2
    <3>5. \A u \in Groupable \X Abouts : groupState[u].group = g.group => u = t
      <4>1. CASE g = groupState[t]
        BY <2>0, <3>3, <4>1
      <4>2. CASE g = [group |-> nextRow, started |-> new.at]
        BY <1>1, <2>0, <4>2
      <4> QED BY <3>1, <4>1, <4>2
    <3>6. /\ groupState' \in [Groupable \X Abouts -> [group : Nat, started : Nat]] /\ groupState'[t] = g
          /\ \A u \in Groupable \X Abouts : u # t => groupState'[u] = groupState[u]
      <4>1. groupState' = [groupState EXCEPT ![t] = g]
        BY <2>2
      <4> QED BY <1>1, <3>2, <4>1
    <3>7. new.group = g.group /\ e.kind \in Groupable
      BY <2>2
    <3>8. \A r \in rows' : r.group # 0 => r.event.kind \in Groupable
      BY <1>2, <2>0, <3>7
    <3>9. ASSUME NEW r \in rows', NEW q \in rows', r.group = q.group, r.group # 0
          PROVE  r.event.kind = q.event.kind /\ r.event.about = q.event.about /\ r.at < q.at + Window + MaxSpan
      <4>1. CASE r = new /\ q = new
        BY <1>4, <4>1
      <4>2. CASE r = new /\ q # new
        <5>1. q \in rows /\ q.at \in Nat /\ t = <<q.event.kind, q.event.about>> /\ q.at < g.started + Window /\ g.started <= q.at + MaxSpan
          BY <1>2, <1>3, <3>4, <3>7, <3>9, <4>2
        <5>2. r.at < q.at + Window + MaxSpan
          BY <1>4, <3>2, <3>3, <4>2, <5>1
        <5> QED BY <4>2, <5>1, <5>2
      <4>3. CASE r # new /\ q = new
        <5>1. r \in rows /\ r.at \in Nat /\ t = <<r.event.kind, r.event.about>> /\ r.at < g.started + Window /\ g.started <= r.at + MaxSpan
          BY <1>2, <1>3, <3>4, <3>7, <3>9, <4>3
        <5>2. r.at < q.at + Window + MaxSpan
          BY <1>4, <3>2, <3>3, <4>3, <5>1
        <5> QED BY <4>3, <5>1, <5>2
      <4>4. CASE r # new /\ q # new
        BY <1>2, <2>0, <3>9, <4>4
      <4> QED BY <4>1, <4>2, <4>3, <4>4
    <3>10. ASSUME NEW u \in Groupable \X Abouts, NEW r \in rows', r.group = groupState'[u].group, r.group # 0
           PROVE  /\ u = <<r.event.kind, r.event.about>> /\ r.at < groupState'[u].started + Window
                  /\ groupState'[u].started <= r.at + MaxSpan
      <4>1. CASE u = t
        <5>1. groupState'[u] = g /\ r.group = g.group
          BY <3>6, <3>10, <4>1
        <5>2. CASE r = new
          BY <3>3, <4>1, <5>1, <5>2
        <5>3. CASE r # new
          BY <1>2, <3>4, <4>1, <5>1, <5>3
        <5> QED BY <5>2, <5>3
      <4>2. CASE u # t
        <5>1. groupState'[u] = groupState[u]
          BY <3>6, <4>2
        <5>2. r # new
          BY <3>5, <3>7, <3>10, <4>2, <5>1
        <5> QED BY <1>2, <2>0, <3>10, <5>1, <5>2
      <4> QED BY <4>1, <4>2
    <3>11. \A u, v \in Groupable \X Abouts : groupState'[u].group = groupState'[v].group /\ groupState'[u].group # 0 => u = v
      <4> SUFFICES ASSUME NEW u \in Groupable \X Abouts, NEW v \in Groupable \X Abouts,
                          groupState'[u].group = groupState'[v].group, groupState'[u].group # 0, u # v
                   PROVE  FALSE
        OBVIOUS
      <4>1. CASE u = t
        <5>1. groupState[v].group = g.group
          BY <3>6, <4>1
        <5> QED BY <3>5, <4>1, <5>1
      <4>2. CASE v = t
        <5>1. groupState[u].group = g.group
          BY <3>6, <4>2
        <5> QED BY <3>5, <4>2, <5>1
      <4>3. CASE u # t /\ v # t
        BY <2>0, <3>6, <4>3
      <4> QED BY <4>1, <4>2, <4>3
    <3>12. \A u \in Groupable \X Abouts : groupState'[u].group < nextRow' /\ groupState'[u].started <= hourNow'
      <4> TAKE u \in Groupable \X Abouts
      <4>1. CASE u = t
        BY <1>1, <3>3, <3>6, <4>1
      <4>2. CASE u # t
        BY <1>1, <2>0, <3>6, <4>2
      <4> QED BY <4>1, <4>2
    <3> QED BY <3>6, <3>8, <3>9, <3>10, <3>11, <3>12 DEF GroupsFit
  <2> QED BY <2>1, <2>2 DEF JoinsGroup
<1>7. FeedTyped'
  <2>1. nextRow' \in 1..(MaxRows + 1) /\ lastRead' < nextRow' /\ lastRead' \in 0..MaxRows
    BY <1>1 DEF FeedInv, FeedTyped
  <2>2. rows' \in SUBSET NotificationRows /\ pushes' \in SUBSET Nat
    BY <1>1, <1>2 DEF FeedInv, FeedTyped
  <2> QED BY <1>1, <1>6, <2>1, <2>2 DEF FeedInv, FeedTyped
<1>8. DeliveriesFit'
  <2> SUFFICES ASSUME NEW v \in Notifiers
               PROVE  /\ notifier'[v].phase = "insert" =>
                            notifier'[v].event \in Events /\ notifier'[v].since <= hourNow /\ hourNow <= notifier'[v].since + MaxSpan
                      /\ notifier'[v].phase = "publish" =>
                            /\ notifier'[v].row < nextRow + 1
                            /\ ~ notifier'[v].held => \A r \in rows' : r.id = notifier'[v].row => ~ r.filtered
    BY DEF DeliveriesFit
  <2>1. CASE v = w
    BY <1>1, <1>2, <1>3, <2>1
  <2>2. CASE v # w
    <3>1. notifier'[v] = notifier[v] /\ notifier[v].row \in Nat
      BY <1>1, <2>2 DEF FeedInv, FeedTyped, Deliveries
    <3>2. notifier[v].phase = "insert" =>
             notifier[v].event \in Events /\ notifier[v].since <= hourNow /\ hourNow <= notifier[v].since + MaxSpan
      BY DEF FeedInv, DeliveriesFit
    <3>3. notifier[v].phase = "publish" =>
             notifier[v].row < nextRow /\ (~ notifier[v].held => \A r \in rows : r.id = notifier[v].row => ~ r.filtered)
      BY DEF FeedInv, DeliveriesFit
    <3>4. notifier[v].row < nextRow => notifier[v].row < nextRow + 1 /\ new.id # notifier[v].row
      BY <1>1, <3>1
    <3> QED BY <1>2, <3>1, <3>2, <3>3, <3>4
  <2> QED BY <2>1, <2>2
<1>9. SilenceFits'
  <2>1. \A i \in pushes \cup streams : i \in 1..(nextRow - 1)
    BY DEF FeedInv, SilenceFits
  <2>2. \A i \in pushes' \cup streams' : (i = nextRow /\ ~ new.filtered) \/ i \in pushes \cup streams
    OBVIOUS
  <2>3. \A i \in pushes' \cup streams' : i \in 1..((nextRow + 1) - 1)
    BY <1>1, <2>1, <2>2
  <2>4. nextRow \notin pushes \cup streams
    BY <1>1, <2>1
  <2>5. HeldIsSilent'
    BY <1>2, <1>3, <2>2, <2>4 DEF FeedInv, SilenceFits, HeldIsSilent
  <2> QED BY <2>3, <2>5 DEF SilenceFits
<1> QED BY <1>5, <1>6, <1>7, <1>8, <1>9 DEF FeedInv

LEMMA FeedKeeps ==
    ASSUME FeedInv, [FeedNext]_feed_vars
    PROVE  FeedInv'
<1> USE FeedAssumption
<1>0. /\ rows \in SUBSET NotificationRows /\ notifier \in [Notifiers -> Deliveries] /\ hourNow \in Nat /\ nextRow \in Nat
      /\ streams \in SUBSET Nat /\ pushes \in SUBSET Nat
      /\ \A i \in streams : i \in 1..(nextRow - 1)
      /\ \A r \in rows : r.id \in 1..(nextRow - 1) /\ (r.filtered => r.id \notin streams)
      /\ \A r, q \in rows : r.id = q.id => r = q
  BY DEF FeedInv, FeedTyped, SilenceFits, HeldIsSilent, RowsFit
<1>1. ASSUME NEW w \in Notifiers, Become(w, "none", Nothing, FALSE, 0) PROVE FeedInv'
  <2> PICK next : next = [phase |-> "none", event |-> Nothing, held |-> FALSE, row |-> 0, since |-> hourNow]
    OBVIOUS
  <2>1. next \in Deliveries /\ next.phase = "none"
    BY <1>0 DEF Deliveries
  <2>2. notifier' = [notifier EXCEPT ![w] = next] /\ UNCHANGED <<rows, groupState, pushes, streams, unseen, visible, lastRead, hourNow, nextRow>>
    BY <1>1 DEF Become
  <2> QED BY <1>0, <2>1, <2>2, BecomingFits
<1>2. ASSUME NEW w \in Notifiers, NEW e \in Events, NEW r \in rows, Become(w, "publish", e, r.filtered, r.id) PROVE FeedInv'
  <2> PICK next : next = [phase |-> "publish", event |-> e, held |-> r.filtered, row |-> r.id, since |-> hourNow]
    OBVIOUS
  <2>1. next \in Deliveries /\ next.phase = "publish" /\ next.row = r.id /\ next.held = r.filtered /\ r.id < nextRow
    BY <1>0 DEF Deliveries, NotificationRows
  <2>2. notifier' = [notifier EXCEPT ![w] = next] /\ UNCHANGED <<rows, groupState, pushes, streams, unseen, visible, lastRead, hourNow, nextRow>>
    BY <1>2 DEF Become
  <2>3. ~ next.held => \A q \in rows : q.id = next.row => ~ q.filtered
    BY <1>0, <2>1
  <2> QED BY <1>0, <2>1, <2>2, <2>3, BecomingFits
<1>3. ASSUME NEW w \in Notifiers, NEW e \in Events, NEW h \in BOOLEAN, Become(w, "insert", e, h, 0) PROVE FeedInv'
  <2> PICK next : next = [phase |-> "insert", event |-> e, held |-> h, row |-> 0, since |-> hourNow]
    OBVIOUS
  <2>1. next \in Deliveries /\ next.phase = "insert" /\ next.event \in Events /\ next.since = hourNow
    BY <1>0 DEF Deliveries
  <2>2. notifier' = [notifier EXCEPT ![w] = next] /\ UNCHANGED <<rows, groupState, pushes, streams, unseen, visible, lastRead, hourNow, nextRow>>
    BY <1>3 DEF Become
  <2>3. next.since <= hourNow /\ hourNow <= next.since + MaxSpan
    BY <1>0, <2>1
  <2> QED BY <1>0, <2>1, <2>2, <2>3, BecomingFits
<1>4. ASSUME NEW w \in Notifiers, NEW e \in Events, NEW r \in Existing(e),
             Become(w, "publish", e, r.filtered, r.id) \/ Become(w, "none", Nothing, FALSE, 0)
      PROVE  FeedInv'
  BY <1>1, <1>2, <1>4 DEF Existing
<1>5. ASSUME NEW w \in Notifiers, NEW e \in Events, NEW verdicts, Decided(w, e, verdicts) PROVE FeedInv'
  <2>1. PICK v \in verdicts : IF v = "drop" THEN Become(w, "none", Nothing, FALSE, 0) ELSE Become(w, "insert", e, v = "filter", 0)
    BY <1>5, Zenon DEF Decided
  <2>2. CASE v = "drop"
    BY <1>1, <2>1, <2>2
  <2>3. CASE v # "drop"
    <3>1. (v = "filter") \in BOOLEAN
      OBVIOUS
    <3>2. Become(w, "insert", e, v = "filter", 0)
      BY <2>1, <2>3
    <3> QED BY <1>3, <3>1, <3>2
  <2> QED BY <2>2, <2>3
<1>6. ASSUME NEW w \in Notifiers, NEW e \in Events, ReplaceUpdate(w, e) PROVE FeedInv'
  <2> PICK new : new = [id |-> nextRow, event |-> e, group |-> 0, filtered |-> FALSE, dismissed |-> FALSE, at |-> hourNow]
    OBVIOUS
  <2> PICK next : next = [phase |-> "publish", event |-> e, held |-> FALSE, row |-> nextRow, since |-> hourNow]
    OBVIOUS
  <2>1. /\ new \in NotificationRows /\ new.id = nextRow /\ new.event = e /\ new.group = 0 /\ new.filtered = FALSE
        /\ next \in Deliveries /\ next.phase = "publish" /\ next.row = nextRow /\ next.held = FALSE
    BY <1>0 DEF NotificationRows, Deliveries
  <2>2. /\ rows' = (rows \ Existing(e)) \cup {new} /\ nextRow' = nextRow + 1 /\ pushes' = pushes \cup {nextRow} /\ nextRow <= MaxRows
        /\ notifier' = [notifier EXCEPT ![w] = next] /\ UNCHANGED <<groupState, streams, unseen, visible, lastRead, hourNow>>
    BY <1>6 DEF ReplaceUpdate
  <2>3. JoinsGroup(e, new)
    BY <2>1, <2>2 DEF JoinsGroup
  <2>4. Announces(new, next)
    BY <2>1, <2>2 DEF Announces
  <2> QED BY <2>1, <2>2, <2>3, <2>4, InsertionFits
<1>7. ASSUME NEW w \in Notifiers, InsertRow(w) PROVE FeedInv'
  <2> PICK x, e : x = notifier[w] /\ e = x.event
    OBVIOUS
  <2>1. x \in Deliveries /\ x.phase = "insert" /\ x.since \in Nat /\ x.held \in BOOLEAN /\ nextRow <= MaxRows
    BY <1>0, <1>7 DEF InsertRow, Deliveries
  <2>2. e \in Events /\ x.since <= hourNow /\ hourNow <= x.since + MaxSpan
    BY <2>1 DEF FeedInv, DeliveriesFit
  <2>3. CASE Existing(e) # {}
    <3>1. Become(w, "none", Nothing, FALSE, 0)
      BY <1>7, <2>3 DEF InsertRow
    <3> QED BY <1>1, <3>1
  <2>4. CASE Existing(e) = {}
    <3> PICK g : g = IF e.kind \in Groupable THEN GroupOf(e, x.since) ELSE [group |-> 0, started |-> 0]
      OBVIOUS
    <3> PICK new : new = [id |-> nextRow, event |-> e, group |-> g.group, filtered |-> x.held, dismissed |-> FALSE, at |-> x.since]
      OBVIOUS
    <3> PICK next : next = [x EXCEPT !.phase = "publish", !.row = nextRow]
      OBVIOUS
    <3>1. /\ rows' = rows \cup {new} /\ pushes' = IF x.held THEN pushes ELSE pushes \cup {nextRow}
          /\ nextRow' = nextRow + 1 /\ UNCHANGED <<streams, unseen, visible, lastRead, hourNow>>
      BY <1>7, <2>4 DEF InsertRow
    <3>2. groupState' = IF e.kind \in Groupable THEN [groupState EXCEPT ![<<e.kind, e.about>>] = g] ELSE groupState
      BY <1>7, <2>4 DEF InsertRow
    <3>3. notifier' = [notifier EXCEPT ![w].phase = "publish", ![w].row = nextRow]
      BY <1>7, <2>4 DEF InsertRow
    <3>4. notifier' = [notifier EXCEPT ![w] = next]
      BY <1>0, <3>3
    <3>5. g.group \in Nat
      <4>1. CASE e.kind \in Groupable
        <5>1. <<e.kind, e.about>> \in Groupable \X Abouts
          BY <2>2, <4>1 DEF Abouts
        <5>2. groupState[<<e.kind, e.about>>].group \in Nat
          BY <5>1 DEF FeedInv, FeedTyped
        <5> QED BY <1>0, <4>1, <5>2 DEF GroupOf
      <4>2. CASE e.kind \notin Groupable
        BY <4>2
      <4> QED BY <4>1, <4>2
    <3>6. /\ new \in NotificationRows /\ new.id = nextRow /\ new.event = e /\ new.group = g.group /\ new.filtered = x.held /\ new.at = x.since
      BY <1>0, <2>1, <2>2, <3>5 DEF NotificationRows
    <3>7. next \in Deliveries /\ next.phase = "publish" /\ next.row = nextRow /\ next.held = x.held
      BY <1>0, <2>1, <2>2 DEF Deliveries
    <3>8. rows' = (rows \ Existing(e)) \cup {new}
      BY <2>4, <3>1
    <3>9. JoinsGroup(e, new)
      <4>1. CASE e.kind \in Groupable
        BY <2>2, <3>2, <3>6, <4>1 DEF JoinsGroup
      <4>2. CASE e.kind \notin Groupable
        BY <3>2, <3>6, <4>2 DEF JoinsGroup
      <4> QED BY <4>1, <4>2
    <3>10. Announces(new, next)
      BY <3>1, <3>6, <3>7 DEF Announces
    <3> QED BY <2>1, <2>2, <3>1, <3>4, <3>6, <3>7, <3>8, <3>9, <3>10, InsertionFits
  <2> QED BY <2>3, <2>4
<1>8. ASSUME NEW w \in Notifiers, PublishNotification(w) PROVE FeedInv'
  <2>1. /\ notifier[w].phase = "publish" /\ notifier' = [notifier EXCEPT ![w] = AtRest]
        /\ streams' = streams \cup {r.id : r \in {r \in rows : r.id = notifier[w].row /\ ~ notifier[w].held /\ Response(r)}}
        /\ UNCHANGED <<rows, groupState, pushes, unseen, visible, lastRead, hourNow, nextRow>>
    BY <1>8 DEF PublishNotification
  <2>2. AtRest \in Deliveries /\ AtRest.phase = "none"
    BY DEF AtRest, Deliveries
  <2>3. ~ notifier[w].held => \A r \in rows : r.id = notifier[w].row => ~ r.filtered
    BY <2>1 DEF FeedInv, DeliveriesFit
  <2>4. \A i \in streams' : i \in streams \/ (\E r \in rows : i = r.id /\ ~ r.filtered)
    BY <2>1, <2>3
  <2>5. streams' \in SUBSET Nat /\ \A i \in streams' : i \in 1..(nextRow - 1)
    BY <1>0, <2>4
  <2>6. \A r \in rows : r.filtered => r.id \notin streams'
    BY <1>0, <2>4
  <2> QED BY <2>1, <2>2, <2>5, <2>6, BecomingFits
<1>9. ASSUME NEW ids, rows' = Dismissed(ids),
             UNCHANGED <<groupState, notifier, pushes, streams, unseen, visible, lastRead, hourNow, nextRow>>
      PROVE  FeedInv'
  <2> PICK up : up = [r \in rows |-> [r EXCEPT !.dismissed = @ \/ r.id \in ids]]
    OBVIOUS
  <2>1. \A r \in rows : up[r] = [r EXCEPT !.dismissed = (r.dismissed \/ r.id \in ids)]
    OBVIOUS
  <2>2. \A r \in rows : /\ up[r] \in NotificationRows /\ up[r].id = r.id /\ up[r].event = r.event /\ up[r].group = r.group /\ up[r].at = r.at
                        /\ up[r].filtered = r.filtered
    <3> TAKE r \in rows
    <3>1. PICK d \in BOOLEAN : d = (r.dismissed \/ r.id \in ids)
      OBVIOUS
    <3>2. up[r] = [r EXCEPT !.dismissed = d]
      BY <2>1, <3>1
    <3> QED BY <1>0, <3>2 DEF NotificationRows
  <2>3. rows' = {up[r] : r \in rows} /\ up \in [rows -> NotificationRows]
    BY <1>9, <2>2 DEF Dismissed
  <2> QED BY <1>9, <2>2, <2>3, MarkingFits DEF MarksOnly
<1>10. ASSUME NEW s, ReleaseHeld(s) PROVE FeedInv'
  <2> PICK up : up = [r \in rows |-> [r EXCEPT !.filtered = @ /\ r.event.sender # s]]
    OBVIOUS
  <2>1. \A r \in rows : up[r] = [r EXCEPT !.filtered = (r.filtered /\ r.event.sender # s)]
    OBVIOUS
  <2>2. \A r \in rows : /\ up[r] \in NotificationRows /\ up[r].id = r.id /\ up[r].event = r.event /\ up[r].group = r.group /\ up[r].at = r.at
                        /\ up[r].filtered => r.filtered
    BY <1>0, <2>1 DEF NotificationRows
  <2>3. rows' = {up[r] : r \in rows} /\ up \in [rows -> NotificationRows]
    BY <1>10, <2>2 DEF ReleaseHeld
  <2>4. UNCHANGED <<groupState, notifier, pushes, streams, unseen, visible, lastRead, hourNow, nextRow>>
    BY <1>10 DEF ReleaseHeld
  <2>5. MarksOnly(up)
    BY <2>2 DEF MarksOnly
  <2> QED BY <2>3, <2>4, <2>5, MarkingFits
<1>11. ASSUME UNCHANGED <<rows, groupState, notifier, pushes, streams, hourNow, nextRow>>,
              unseen' \subseteq FeedSenders, visible' \subseteq Abouts, lastRead' \in 0..MaxRows, lastRead' < nextRow
       PROVE  FeedInv'
  BY <1>11 DEF FeedInv, FeedTyped, RowsFit, GroupsFit, DeliveriesFit, SilenceFits, HeldIsSilent
<1>12. /\ unseen \subseteq FeedSenders /\ visible \subseteq Abouts /\ lastRead \in 0..MaxRows /\ lastRead < nextRow
       /\ nextRow \in 1..(MaxRows + 1)
  BY DEF FeedInv, FeedTyped
<1>13. ASSUME NEW r \in rows, SaveMarker(r.id) PROVE FeedInv'
  <2>1. r.id \in 0..MaxRows /\ r.id < nextRow
    BY <1>0, <1>12
  <2> QED BY <1>11, <1>12, <1>13, <2>1 DEF SaveMarker
<1>14. ASSUME NEW s \in FeedSenders, HideSender(s) PROVE FeedInv'
  BY <1>11, <1>12, <1>14 DEF HideSender
<1>15. ASSUME NEW a \in Abouts, HideAbout(a) PROVE FeedInv'
  BY <1>11, <1>12, <1>15 DEF HideAbout
<1>16. CASE HourPasses
  <2>1. /\ hourNow' = hourNow + 1 /\ UNCHANGED <<rows, groupState, notifier, pushes, streams, unseen, visible, lastRead, nextRow>>
        /\ \A w \in Notifiers : notifier[w].phase = "insert" => hourNow < notifier[w].since + MaxSpan
    BY <1>16 DEF HourPasses
  <2>2. FeedTyped' /\ RowsFit' /\ SilenceFits'
    BY <1>0, <2>1 DEF FeedInv, FeedTyped, RowsFit, SilenceFits, HeldIsSilent
  <2>3. \A t \in Groupable \X Abouts : groupState[t].started <= hourNow + 1
    BY <1>0 DEF FeedInv, FeedTyped, GroupsFit
  <2>4. GroupsFit'
    BY <2>1, <2>3 DEF FeedInv, GroupsFit
  <2>5. \A w \in Notifiers : notifier[w].phase = "insert" =>
          notifier[w].event \in Events /\ notifier[w].since <= hourNow + 1 /\ hourNow + 1 <= notifier[w].since + MaxSpan
    <3> SUFFICES ASSUME NEW w \in Notifiers, notifier[w].phase = "insert"
                 PROVE  notifier[w].event \in Events /\ notifier[w].since <= hourNow + 1 /\ hourNow + 1 <= notifier[w].since + MaxSpan
      OBVIOUS
    <3>1. notifier[w].since \in Nat /\ notifier[w].event \in Events /\ notifier[w].since <= hourNow /\ hourNow < notifier[w].since + MaxSpan
      BY <1>0, <2>1 DEF FeedInv, DeliveriesFit, Deliveries
    <3> QED BY <1>0, <3>1
  <2>6. DeliveriesFit'
    BY <2>1, <2>5 DEF FeedInv, DeliveriesFit
  <2> QED BY <2>2, <2>4, <2>6 DEF FeedInv
<1>17. CASE UNCHANGED feed_vars
  BY <1>11, <1>12, <1>17 DEF feed_vars
<1>18. ASSUME NEW w \in Notifiers, NEW e \in Events,
              \/ NotifyLocalAccount(w, e) \/ NotifyWithPolicy(w, e) \/ NotifyMention(w, e) \/ NotifyQuoted(w, e)
              \/ NotifyRemoteFollow(w, e) \/ NotifyRemoteFavourite(w, e) \/ NotifyRemoteReblog(w, e)
              \/ NotifyRemoteMention(w, e) \/ NotifyRemoteStatus(w, e) \/ NotifyUpdateLocal(w, e) \/ NotifyUpdateRemote(w, e)
       PROVE  FeedInv'
  <2>1. \/ \E r \in Existing(e) : Become(w, "publish", e, r.filtered, r.id) \/ Become(w, "none", Nothing, FALSE, 0)
        \/ \E verdicts : Decided(w, e, verdicts)
        \/ ReplaceUpdate(w, e)
    BY <1>18, Zenon DEF NotifyLocalAccount, NotifyWithPolicy, NotifyMention, NotifyQuoted, NotifyRemoteFollow,
       NotifyRemoteFavourite, NotifyRemoteReblog, NotifyRemoteMention, NotifyRemoteStatus, NotifyUpdateLocal,
       NotifyUpdateRemote, Found, Always, Never, IfShown
  <2> QED BY <1>4, <1>5, <1>6, <2>1
<1>19. ASSUME NEW r, DismissOne(r) \/ DismissGroup(GroupKey(r, Groupable)) PROVE FeedInv'
  BY <1>9, <1>19 DEF DismissOne, DismissGroup
<1>20. CASE ClearNotifications
  BY <1>9, <1>20 DEF ClearNotifications
<1> QED BY <1>7, <1>8, <1>10, <1>13, <1>14, <1>15, <1>16, <1>17, <1>18, <1>19, <1>20 DEF FeedNext, NotifyNext

LEMMA NewestIsThere ==
    ASSUME FeedInv, NEW g \in SUBSET rows, g # {}
    PROVE  NewestRow(g) \in g /\ \A q \in g : q.id <= NewestRow(g).id
<1>1. \A q \in g : q.id \in Nat /\ q.id >= 1 /\ q.id <= nextRow
  BY DEF FeedInv, FeedTyped, RowsFit
<1>2. nextRow \in Nat
  BY DEF FeedInv, FeedTyped
<1> PICK T : T = {n \in Nat : \A q \in g : q.id <= n}
  OBVIOUS
<1>3. T \in SUBSET Nat /\ T # {}
  BY <1>1, <1>2
<1>4. PICK m \in T : \A n \in T : m <= n
  BY <1>3, LeastIsThere
<1>5. m \in Nat /\ \A q \in g : q.id <= m
  BY <1>4
<1>6. \E r \in g : r.id = m
  <2> SUFFICES ASSUME \A q \in g : q.id # m PROVE FALSE
    OBVIOUS
  <2>1. \A q \in g : q.id <= m - 1
    BY <1>1, <1>5
  <2>2. m - 1 \in Nat
    BY <1>1, <1>5
  <2>3. m - 1 \in T
    BY <2>1, <2>2
  <2> QED BY <1>4, <1>5, <2>3
<1>7. \E r \in g : \A q \in g : q.id <= r.id
  BY <1>5, <1>6
<1> QED BY <1>7 DEF NewestRow

\* A group shows no more accounts than it may.
LEMMA SamplesAreFew ==
    ASSUME FeedInv, NEW g \in SUBSET rows
    PROVE  Cardinality(Samples(g)) <= SampleLimit
<1> USE FeedAssumption
<1>0. /\ \A q \in g : q.id \in 1..MaxRows /\ q.id \in Nat
      /\ \A r, q \in g : r.id = q.id => r = q
  BY DEF FeedInv, FeedTyped, RowsFit
<1>s. PICK S : S = {r.event.sender : r \in g}
  OBVIOUS
<1>n. PICK nid : nid = [a \in S |-> NewestRow({r \in g : r.event.sender = a}).id]
  OBVIOUS
<1>1. \A a \in S : \E r \in g : r.event.sender = a /\ r.id = nid[a] /\ \A q \in g : q.event.sender = a => q.id <= nid[a]
  <2> TAKE a \in S
  <2> PICK h : h = {r \in g : r.event.sender = a}
    OBVIOUS
  <2>1. h # {} /\ h \in SUBSET rows
    BY <1>s
  <2>2. NewestRow(h) \in h /\ \A q \in h : q.id <= NewestRow(h).id
    BY <2>1, NewestIsThere
  <2>3. nid[a] = NewestRow(h).id
    BY <1>n
  <2> QED BY <2>2, <2>3
<1>a. \A r \in g : r.event.sender \in S
  BY <1>s
<1>2. nid \in [S -> 1..MaxRows] /\ \A a \in S : nid[a] \in Nat
  <2>1. \A a \in S : nid[a] \in 1..MaxRows
    BY <1>0, <1>1
  <2> QED BY <1>n, <2>1
<1>3. \A a, b \in S : nid[a] = nid[b] => a = b
  <2> SUFFICES ASSUME NEW a \in S, NEW b \in S, nid[a] = nid[b] PROVE a = b
    OBVIOUS
  <2>1. PICK r \in g : r.event.sender = a /\ r.id = nid[a]
    BY <1>1
  <2>2. PICK q \in g : q.event.sender = b /\ q.id = nid[b]
    BY <1>1
  <2> QED BY <1>0, <2>1, <2>2
<1>4. IsFiniteSet(S)
  <2>1. nid \in Injection(S, 1..MaxRows)
    BY <1>2, <1>3 DEF Injection, IsInjective
  <2>2. IsFiniteSet(1..MaxRows)
    BY FS_Interval
  <2> QED BY <2>1, <2>2, FS_Injection
<1>r. PICK R : R = {p \in S \X S : nid[p[1]] > nid[p[2]]}
  OBVIOUS
<1>5. \A a, b \in S : <<a, b>> \in R <=> nid[a] > nid[b]
  BY <1>r
<1>6. Orders(R, S)
  <2>1. \A a \in S : <<a, a>> \notin R
    BY <1>2, <1>5
  <2>2. \A a, b, c \in S : <<a, b>> \in R /\ <<b, c>> \in R => <<a, c>> \in R
    BY <1>2, <1>5
  <2>3. \A a, b \in S : a # b => <<a, b>> \in R \/ <<b, a>> \in R
    BY <1>2, <1>3, <1>5
  <2> QED BY <2>1, <2>2, <2>3 DEF Orders
<1>7. ASSUME NEW r \in g
      PROVE  /\ r.event.sender \in S /\ r.id <= nid[r.event.sender]
             /\ r.id = nid[r.event.sender] => {q.event.sender : q \in {q \in g : q.id > r.id}} = Ahead(R, S, r.event.sender)
  <2> PICK a : a = r.event.sender
    OBVIOUS
  <2>1. a \in S /\ r.id <= nid[a]
    BY <1>1, <1>a
  <2>2. ASSUME r.id = nid[a], NEW q \in g, q.id > r.id PROVE q.event.sender \in Ahead(R, S, a)
    <3> PICK b : b = q.event.sender
      OBVIOUS
    <3>1. b \in S /\ q.id <= nid[b]
      BY <1>1, <1>a
    <3>2. nid[b] \in Nat /\ nid[a] \in Nat /\ q.id \in Nat /\ q.id > nid[a]
      BY <1>0, <1>2, <2>1, <2>2, <3>1
    <3>3. nid[b] > nid[a]
      BY <3>1, <3>2
    <3> QED BY <1>5, <2>1, <3>1, <3>3 DEF Ahead
  <2>3. ASSUME r.id = nid[a], NEW b \in Ahead(R, S, a) PROVE \E q \in g : q.event.sender = b /\ q.id > r.id
    <3>1. b \in S /\ nid[b] > nid[a]
      BY <1>5, <2>1 DEF Ahead
    <3> QED BY <1>1, <2>3, <3>1
  <2>4. r.id = nid[a] => {q.event.sender : q \in {q \in g : q.id > r.id}} = Ahead(R, S, a)
    <3> HAVE r.id = nid[a]
    <3>1. {q.event.sender : q \in {q \in g : q.id > r.id}} \subseteq Ahead(R, S, a)
      BY <2>2
    <3>2. \A b \in Ahead(R, S, a) : b \in {q.event.sender : q \in {q \in g : q.id > r.id}}
      BY <2>3
    <3> QED BY <3>1, <3>2
  <2> QED BY <2>1, <2>4
<1>8. Samples(g) = FirstOf(R, S, SampleLimit)
  <2>1. ASSUME NEW r \in g, \A q \in g : q.event.sender = r.event.sender => q.id <= r.id,
               Cardinality({q.event.sender : q \in {q \in g : q.id > r.id}}) < SampleLimit
        PROVE  r.event.sender \in FirstOf(R, S, SampleLimit)
    <3>1. r.event.sender \in S /\ r.id <= nid[r.event.sender]
      BY <1>7
    <3>2. nid[r.event.sender] <= r.id
      BY <1>1, <2>1, <3>1
    <3>3. r.id = nid[r.event.sender]
      <4>1. r.id \in Nat /\ nid[r.event.sender] \in Nat
        BY <1>0, <1>2, <3>1
      <4> QED BY <3>1, <3>2, <4>1
    <3> QED BY <1>7, <2>1, <3>1, <3>3 DEF FirstOf
  <2>2. ASSUME NEW a \in FirstOf(R, S, SampleLimit)
        PROVE  \E r \in g : /\ a = r.event.sender /\ \A q \in g : q.event.sender = r.event.sender => q.id <= r.id
                            /\ Cardinality({q.event.sender : q \in {q \in g : q.id > r.id}}) < SampleLimit
    <3>1. a \in S /\ Cardinality(Ahead(R, S, a)) < SampleLimit
      BY DEF FirstOf
    <3>2. PICK r \in g : r.event.sender = a /\ r.id = nid[a] /\ \A q \in g : q.event.sender = a => q.id <= nid[a]
      BY <1>1, <3>1
    <3>3. {q.event.sender : q \in {q \in g : q.id > r.id}} = Ahead(R, S, a)
      BY <1>7, <3>2
    <3> QED BY <3>1, <3>2, <3>3
  <2>3. Samples(g) \subseteq FirstOf(R, S, SampleLimit)
    BY <2>1 DEF Samples
  <2>4. FirstOf(R, S, SampleLimit) \subseteq Samples(g)
    BY <2>2 DEF Samples
  <2> QED BY <2>3, <2>4
<1>9. Cardinality(S) \in Nat
  BY <1>4, FS_CardinalityType
<1>10. Cardinality(FirstOf(R, S, SampleLimit)) <= SampleLimit
  <2>1. CASE SampleLimit <= Cardinality(S)
    BY <1>4, <1>6, <2>1, FirstAreSoMany
  <2>2. CASE Cardinality(S) <= SampleLimit
    BY <1>4, <1>6, <1>9, <2>2, FirstAreSoMany
  <2> QED BY <1>9, <2>1, <2>2
<1> QED BY <1>8, <1>10

NowListed == ListedRows(AllKinds, FALSE)
LEMMA ListedIs ==
    /\ NowListed \in SUBSET rows
    /\ \A key : InGroup(key) = {r \in NowListed : IF key[1] = "ungrouped" THEN r.id = key[2] ELSE r.event.kind = key[1] /\ r.group = key[2]}
    /\ \A grouped : Groups(grouped, FALSE) = {{r \in NowListed : GroupKey(r, grouped) = k} : k \in {GroupKey(r, grouped) : r \in NowListed}}
    /\ Unread = {r \in NowListed : r.id > lastRead} /\ ShownFlat(AllKinds, FALSE) = {r \in NowListed : Response(r)}
<1>1. NowListed \in SUBSET rows
  BY DEF NowListed, ListedRows
<1>2. \A key : InGroup(key) = {r \in NowListed : IF key[1] = "ungrouped" THEN r.id = key[2] ELSE r.event.kind = key[1] /\ r.group = key[2]}
  BY Zenon DEF NowListed, InGroup
<1>3. \A grouped : Groups(grouped, FALSE) = {{r \in NowListed : GroupKey(r, grouped) = k} : k \in {GroupKey(r, grouped) : r \in NowListed}}
  BY Zenon DEF NowListed, Groups
<1>4. Unread = {r \in NowListed : r.id > lastRead} /\ ShownFlat(AllKinds, FALSE) = {r \in NowListed : Response(r)}
  BY Zenon DEF NowListed, Unread, ShownFlat
<1> QED BY <1>1, <1>2, <1>3, <1>4, Zenon

\* The rows with a key are those that the key names, of one kind and one subject.
LEMMA KeysNameGroups ==
    ASSUME FeedInv, NEW grouped \in SUBSET Groupable, NEW r \in NowListed, NEW g,
           g = {q \in NowListed : GroupKey(q, grouped) = GroupKey(r, grouped)}
    PROVE  /\ InGroup(GroupKey(r, grouped)) = g
           /\ \A q \in g : q.event.kind = r.event.kind /\ q.event.about = r.event.about /\ r.at < q.at + Window + MaxSpan
<1> USE FeedAssumption
<1>0. "ungrouped" \notin grouped
  BY DEF Groupable
<1> PICK L : L = NowListed
  OBVIOUS
<1>i. \A q, key : q \in InGroup(key) <=> q \in L /\ IF key[1] = "ungrouped" THEN q.id = key[2] ELSE q.event.kind = key[1] /\ q.group = key[2]
  BY ListedIs, Zenon
<1>1. L \in SUBSET rows /\ r \in L /\ r.at \in Nat
  BY ListedIs DEF FeedInv, FeedTyped, NotificationRows
<1>2. CASE r.group # 0 /\ r.event.kind \in grouped
  <2>1. GroupKey(r, grouped) = <<r.event.kind, r.group>>
    BY <1>2 DEF GroupKey
  <2>2. \A q \in L : GroupKey(q, grouped) = GroupKey(r, grouped) <=> q.event.kind = r.event.kind /\ q.group = r.group
    BY <1>0, <1>2, <2>1 DEF GroupKey
  <2>3. \A q : q \in InGroup(GroupKey(r, grouped)) <=> q \in L /\ q.event.kind = r.event.kind /\ q.group = r.group
    <3>1. <<r.event.kind, r.group>>[1] # "ungrouped" /\ <<r.event.kind, r.group>>[1] = r.event.kind /\ <<r.event.kind, r.group>>[2] = r.group
      BY <1>0, <1>2
    <3> QED BY <1>i, <2>1, <3>1
  <2>4. InGroup(GroupKey(r, grouped)) = g
    BY <2>2, <2>3
  <2>5. \A q \in g : q.event.kind = r.event.kind /\ q.event.about = r.event.about /\ r.at < q.at + Window + MaxSpan
    BY <1>1, <1>2, <2>2 DEF FeedInv, GroupsFit
  <2> QED BY <2>4, <2>5
<1>3. CASE ~ (r.group # 0 /\ r.event.kind \in grouped)
  <2>1. GroupKey(r, grouped) = <<"ungrouped", r.id>>
    BY <1>3 DEF GroupKey
  <2>2. \A q \in L : GroupKey(q, grouped) = GroupKey(r, grouped) <=> q = r
    BY <1>0, <1>1, <2>1 DEF GroupKey, FeedInv, RowsFit
  <2>3. \A q : q \in InGroup(GroupKey(r, grouped)) <=> q \in L /\ q = r
    <3>1. <<"ungrouped", r.id>>[1] = "ungrouped" /\ <<"ungrouped", r.id>>[2] = r.id
      OBVIOUS
    <3> QED BY <1>i, <1>1, <2>1, <3>1 DEF FeedInv, RowsFit
  <2>4. InGroup(GroupKey(r, grouped)) = g
    BY <2>2, <2>3
  <2>5. r.at < r.at + Window + MaxSpan
    BY <1>1
  <2> QED BY <2>2, <2>4, <2>5
<1> QED BY <1>2, <1>3

AgreeOn(grouped) ==
    LET groups == Groups(grouped, FALSE) IN
    /\ UNION groups = ListedRows(AllKinds, FALSE)
    /\ Unread \subseteq UNION UnreadGroups(grouped)
    /\ \A r \in ShownFlat(AllKinds, FALSE) : \E g \in groups : r \in g /\ GroupStatus(g) # Nothing
    /\ \A g \in groups : \A r \in g :
          /\ InGroup(GroupKey(r, grouped)) = g
          /\ \A q \in g : q.event.kind = r.event.kind /\ q.event.about = r.event.about /\ r.at < q.at + Window + MaxSpan
          /\ NewestRow(g).event.sender \in Samples(g) /\ Samples(g) \subseteq GroupAccounts(GroupKey(r, grouped)) /\ Cardinality(Samples(g)) <= SampleLimit
          /\ GroupStatus(g) \in visible \cup {Nothing}

LEMMA GroupsAgreeOnTypes ==
    ASSUME FeedInv, NEW grouped \in SUBSET Groupable
    PROVE  AgreeOn(grouped)
<1> USE FeedAssumption
<1> DEFINE Of(r) == {q \in NowListed : GroupKey(q, grouped) = GroupKey(r, grouped)}
<1>p. PICK groups : groups = Groups(grouped, FALSE)
  OBVIOUS
<1> PICK L : L = NowListed
  OBVIOUS
<1>q. groups = {{r \in NowListed : GroupKey(r, grouped) = k} : k \in {GroupKey(r, grouped) : r \in NowListed}}
  BY <1>p, ListedIs, Zenon
<1>u. /\ UnreadGroups(grouped) = {g \in groups : NewestRow(g).id > lastRead} /\ Unread = {r \in L : r.id > lastRead}
      /\ ShownFlat(AllKinds, FALSE) = {r \in L : Response(r)}
  BY <1>p, ListedIs, Zenon DEF UnreadGroups
<1>1. /\ \A g \in groups : \E r \in L : g = Of(r)
      /\ \A r \in L : Of(r) \in groups /\ r \in Of(r)
  BY <1>q
<1>2. L \in SUBSET rows
  BY ListedIs
<1>3. ASSUME NEW g \in groups, NEW r \in g PROVE r \in L /\ g = Of(r)
  <2>1. PICK s \in L : g = Of(s)
    BY <1>1
  <2>2. r \in L /\ GroupKey(r, grouped) = GroupKey(s, grouped)
    BY <2>1
  <2> QED BY <2>1, <2>2
<1>4. ASSUME NEW g \in groups
      PROVE  g \in SUBSET rows /\ g # {} /\ NewestRow(g) \in g /\ \A q \in g : q.id <= NewestRow(g).id
  <2>1. g # {} /\ g \in SUBSET rows
    BY <1>1, <1>2, <1>3
  <2> QED BY <2>1, NewestIsThere
<1> HIDE DEF Of
<1>5. UNION groups = L
  BY <1>1, <1>3
<1>6. Unread \subseteq UNION UnreadGroups(grouped)
  <2> SUFFICES ASSUME NEW r \in L, r.id > lastRead PROVE \E g \in groups : r \in g /\ NewestRow(g).id > lastRead
    BY <1>u
  <2>1. PICK g \in groups : r \in g
    BY <1>1
  <2>2. r.id <= NewestRow(g).id /\ NewestRow(g) \in rows /\ r \in rows
    BY <1>2, <1>4, <2>1
  <2>3. r.id \in Nat /\ NewestRow(g).id \in Nat /\ lastRead \in Nat
    BY <2>2 DEF FeedInv, FeedTyped, NotificationRows
  <2> QED BY <2>1, <2>2, <2>3
<1>7. ASSUME NEW g \in groups, NEW r \in g
      PROVE  /\ InGroup(GroupKey(r, grouped)) = g
             /\ \A q \in g : q.event.kind = r.event.kind /\ q.event.about = r.event.about /\ r.at < q.at + Window + MaxSpan
  BY <1>3, KeysNameGroups DEF Of
<1>8. ASSUME NEW g \in groups
      PROVE  /\ NewestRow(g).event.sender \in Samples(g)
             /\ GroupStatus(g) \in visible \cup {Nothing} /\ Cardinality(Samples(g)) <= SampleLimit
  <2> PICK n : n = NewestRow(g)
    OBVIOUS
  <2>1. n \in g /\ \A q \in g : q.id <= n.id /\ q.id \in Nat /\ n.id \in Nat
    BY <1>4 DEF FeedInv, FeedTyped, NotificationRows
  <2>2. {q \in g : q.id > n.id} = {}
    BY <2>1
  <2>3. {q.event.sender : q \in {q \in g : q.id > n.id}} = {}
    BY <2>2
  <2>4. Cardinality({q.event.sender : q \in {q \in g : q.id > n.id}}) < SampleLimit
    BY <2>3, FS_EmptySet
  <2>5. n.event.sender \in Samples(g)
    BY <2>1, <2>4 DEF Samples
  <2> QED BY <1>4, <2>5, SamplesAreFew DEF GroupStatus
<1>9. ASSUME NEW g \in groups, NEW r \in g PROVE Samples(g) \subseteq GroupAccounts(GroupKey(r, grouped))
  <2>1. InGroup(GroupKey(r, grouped)) = g
    BY <1>7
  <2> QED BY <2>1 DEF GroupAccounts, Samples
<1>10. ASSUME NEW r \in ShownFlat(AllKinds, FALSE) PROVE \E g \in groups : r \in g /\ GroupStatus(g) # Nothing
  <2>1. r \in L /\ r.event.about \in visible
    BY <1>10, <1>u, Zenon DEF Response
  <2>2. PICK g \in groups : r \in g
    BY <1>1, <2>1
  <2>3. NewestRow(g).event.about = r.event.about
    BY <1>4, <1>7, <2>2
  <2>4. Nothing \notin visible
    BY DEF FeedInv, FeedTyped, Abouts
  <2> QED BY <2>1, <2>2, <2>3, <2>4 DEF GroupStatus
<1>11. /\ UNION groups = NowListed
       /\ \A g \in groups : \A r \in g :
            /\ InGroup(GroupKey(r, grouped)) = g
            /\ \A q \in g : q.event.kind = r.event.kind /\ q.event.about = r.event.about /\ r.at < q.at + Window + MaxSpan
            /\ NewestRow(g).event.sender \in Samples(g) /\ Samples(g) \subseteq GroupAccounts(GroupKey(r, grouped)) /\ Cardinality(Samples(g)) <= SampleLimit
            /\ GroupStatus(g) \in visible \cup {Nothing}
  BY <1>5, <1>7, <1>8, <1>9, Zenon
<1> QED BY <1>p, <1>6, <1>10, <1>11, Zenon DEF NowListed, AgreeOn

LEMMA GroupsAlwaysAgree ==
    ASSUME FeedInv
    PROVE  GroupsAgree
<1>1. \A asked \in (SUBSET Groupable) \cup {Nothing} : GroupedTypes(asked) \in SUBSET Groupable
  BY DEF GroupedTypes
<1>2. \A grouped \in {GroupedTypes(asked) : asked \in (SUBSET Groupable) \cup {Nothing}} : AgreeOn(grouped)
  BY <1>1, GroupsAgreeOnTypes
<1> QED BY <1>2, Zenon DEF GroupsAgree, AgreeOn

\* Flat list, groups, pushes and streams agree: for any events, number of
\* transactions at once, window, and size of the samples.
THEOREM FeedIsAlwaysTrue == FeedSpec => []FeedIsTrue
<1>1. FeedInit => FeedInv
  <2> SUFFICES ASSUME FeedInit PROVE FeedInv
    OBVIOUS
  <2>1. AtRest \in Deliveries /\ AtRest.phase = "none"
    BY DEF AtRest, Deliveries
  <2>2. /\ groupState \in [Groupable \X Abouts -> [group : Nat, started : Nat]]
        /\ \A t \in Groupable \X Abouts : groupState[t].group = 0 /\ groupState[t].started = 0
    BY DEF FeedInit
  <2>3. FeedTyped
    BY <2>1, <2>2, FeedAssumption DEF FeedInit, FeedTyped
  <2>4. RowsFit /\ GroupsFit /\ SilenceFits
    BY <2>2 DEF FeedInit, RowsFit, GroupsFit, SilenceFits, HeldIsSilent
  <2>5. DeliveriesFit
    BY <2>1 DEF FeedInit, DeliveriesFit
  <2> QED BY <2>3, <2>4, <2>5 DEF FeedInv
<1>2. FeedInv /\ [FeedNext]_feed_vars => FeedInv'
  BY FeedKeeps
<1>3. FeedInv => FeedIsTrue
  <2> SUFFICES ASSUME FeedInv PROVE FeedIsTrue
    OBVIOUS
  <2>1. /\ \A r \in rows : r.id \in 1..MaxRows /\ r.group \in 0..MaxRows /\ r.event \in Events
        /\ \A r, q \in rows : r.id = q.id \/ r.event = q.event => r = q
    BY FeedAssumption DEF FeedInv, FeedTyped, RowsFit, NotificationRows
  <2>2. \A i \in pushes \cup streams : i \in 1..MaxRows
    BY FeedAssumption DEF FeedInv, FeedTyped, SilenceFits
  <2>3. FeedTypeOK
    BY <2>1, <2>2 DEF FeedTypeOK, FeedInv, FeedTyped
  <2> QED BY <2>3, GroupsAlwaysAgree DEF FeedIsTrue, FeedInv, SilenceFits
<1> QED BY <1>1, <1>2, <1>3, PTL DEF FeedSpec

-----------------------------------------------------------------------------
(* The public pages *)

\* What the pages rely on: follows are between accounts that are open to each
\* other, and what is pinned is open and still there.
CircleFits == \A p, q \in Everyone : <<p, q>> \in circle => p \notin shut /\ q \notin shut /\ ~ Blocked(p, q)
PinnedFit == \A w \in pinnedPosts : Local(w) /\ IsOpen(w)
PagesInv == PagesTypeOK /\ CircleFits /\ PinnedFit

\* No moderation, follow, post or pin breaks that.
LEMMA PagesKeep ==
    ASSUME PagesInv, [PagesNext]_pages_vars
    PROVE  PagesInv'
<1> USE DEF PagesInv, PagesTypeOK, CircleFits, PinnedFit, Blocked, Local, IsOpen
<1>1. CASE UNCHANGED pages_vars
  BY <1>1 DEF pages_vars
<1>2. CASE \E p \in Everyone : SuspendAccount(p) \/ RestoreAccount(p) \/ LimitAccount(p)
  <2> PICK p \in Everyone : SuspendAccount(p) \/ RestoreAccount(p) \/ LimitAccount(p)
    BY <1>2
  <2>1. CASE SuspendAccount(p)
    <3>1. circle' \subseteq circle /\ \A q \in Everyone : <<p, q>> \notin circle' /\ <<q, p>> \notin circle'
      BY <2>1 DEF SuspendAccount
    <3>2. shut' = shut \cup {p} /\ UNCHANGED <<removed, dimmed, fences, pinnedPosts, boosted, consented>>
      BY <2>1 DEF SuspendAccount
    <3> QED BY <3>1, <3>2
  <2>2. CASE RestoreAccount(p)
    BY <2>2 DEF RestoreAccount
  <2>3. CASE LimitAccount(p)
    BY <2>3 DEF LimitAccount
  <2> QED BY <2>1, <2>2, <2>3
<1>3. CASE \E p, q \in Everyone : BlockAccount(p, q) \/ FollowAccount(p, q)
  <2> PICK p \in Everyone, q \in Everyone : BlockAccount(p, q) \/ FollowAccount(p, q)
    BY <1>3
  <2>1. CASE BlockAccount(p, q)
    BY <2>1 DEF BlockAccount
  <2>2. CASE FollowAccount(p, q)
    BY <2>2 DEF FollowAccount
  <2> QED BY <2>1, <2>2
<1>4. CASE \E w \in Entries : DeleteWork(w) \/ PinWork(w) \/ AcceptQuote(w) \/ \E p \in Residents : BoostWork(p, w)
  <2> PICK w \in Entries : DeleteWork(w) \/ PinWork(w) \/ AcceptQuote(w) \/ \E p \in Residents : BoostWork(p, w)
    BY <1>4
  <2>1. CASE DeleteWork(w)
    BY <2>1 DEF DeleteWork
  <2>2. CASE PinWork(w)
    BY <2>2 DEF PinWork
  <2>3. CASE AcceptQuote(w)
    BY <2>3 DEF AcceptQuote
  <2>4. CASE \E p \in Residents : BoostWork(p, w)
    BY <2>4 DEF BoostWork
  <2> QED BY <2>1, <2>2, <2>3, <2>4
<1> QED BY <1>1, <1>2, <1>3, <1>4 DEF PagesNext

\* The rows of the archive.
LEMMA ArchiveTyped ==
    /\ Len(Archive) \in Nat
    /\ \A w \in Entries : /\ Archive[w].author \in Everyone /\ Archive[w].parent \in Entries \cup {NoWork}
                          /\ Archive[w].quotes \in Entries \cup {NoWork}
                          /\ Archive[w].visibility \in {"public", "unlisted", "private", "direct"}
<1> DEFINE Row == [author : Everyone, visibility : {"public", "unlisted", "private", "direct"},
                   parent : Entries \cup {NoWork}, mentioned : SUBSET Everyone,
                   quotes : Entries \cup {NoWork}, sensitive : BOOLEAN]
<1>1. Archive \in Seq(Row)
  BY PagesAssumption, Zenon
<1>2. \A x \in Row : /\ x.author \in Everyone /\ x.parent \in Entries \cup {NoWork} /\ x.quotes \in Entries \cup {NoWork}
                     /\ x.visibility \in {"public", "unlisted", "private", "direct"}
  OBVIOUS
<1> HIDE DEF Row
<1>3. Len(Archive) \in Nat /\ \A w \in Entries : Archive[w] \in Row
  BY <1>1 DEF Entries
<1> QED BY <1>2, <1>3

\* The archive is a finite number of rows.
LEMMA EntriesAreFinite == IsFiniteSet(Entries) /\ Entries \subseteq Nat
<1>1. 1 \in Int /\ Len(Archive) \in Int
  BY ArchiveTyped
<1> QED BY <1>1, FS_Interval DEF Entries

\* Local and remote follows are counted apart, and listed in one collection.
LEMMA CollectionsCounted ==
    ASSUME NEW p \in Residents
    PROVE  ProfileHeader(p) = [followers |-> Cardinality(FollowersOf(p)), following |-> Cardinality(FollowingOf(p))]
<1>1. CASE ~ ActiveProfile(p)
  <2>1. FollowersOf(p) = {} /\ FollowingOf(p) = {}
    BY <1>1 DEF FollowersOf, FollowingOf, ActorServed, ActiveProfile
  <2> QED BY <1>1, <2>1, FS_EmptySet DEF ProfileHeader
<1>2. CASE ActiveProfile(p)
  <2>1. ASSUME NEW a \in SUBSET Residents, NEW b \in SUBSET Foreigners
        PROVE  Cardinality(FollowEntries(a, b)) = Cardinality(a) + Cardinality(b)
    <3>1. IsFiniteSet(a) /\ IsFiniteSet(b) /\ a \cap b = {}
      BY PagesAssumption, FS_Subset
    <3>2. Cardinality(a) \in Nat /\ Cardinality(b) \in Nat /\ Cardinality(a \cap b) = 0
      BY <3>1, FS_CardinalityType, FS_EmptySet
    <3>3. Cardinality(a \cup b) = Cardinality(a) + Cardinality(b) - Cardinality(a \cap b)
      BY <3>1, FS_Union
    <3> QED BY <3>2, <3>3 DEF FollowEntries
  <2>2. ActorServed(p)
    BY <1>2 DEF ActorServed, ActiveProfile
  <2> DEFINE Fa == {q \in Residents : <<q, p>> \in circle}
             Fb == {q \in Foreigners : <<q, p>> \in circle}
             Ga == {q \in Residents : <<p, q>> \in circle}
             Gb == {q \in Foreigners : <<p, q>> \in circle}
  <2>3. FollowersOf(p) = FollowEntries(Fa, Fb) /\ FollowingOf(p) = FollowEntries(Ga, Gb)
    BY <2>2 DEF FollowersOf, FollowingOf
  <2>4. ProfileHeader(p) = [followers |-> Cardinality(Fa) + Cardinality(Fb), following |-> Cardinality(Ga) + Cardinality(Gb)]
    BY <1>2 DEF ProfileHeader, UiPublicAccount
  <2>5. Fa \in SUBSET Residents /\ Ga \in SUBSET Residents /\ Fb \in SUBSET Foreigners /\ Gb \in SUBSET Foreigners
    OBVIOUS
  <2> HIDE DEF Fa, Fb, Ga, Gb
  <2> QED BY <2>1, <2>3, <2>4, <2>5
<1> QED BY <1>1, <1>2

\* The items of an outbox are as many as are announced: a status and a boost of
\* it are two.
LEMMA ItemsCounted ==
    ASSUME NEW a \in SUBSET Entries, NEW b \in SUBSET Entries
    PROVE  Cardinality({<<"create", w>> : w \in a} \cup {<<"announce", w>> : w \in b}) = Cardinality(a) + Cardinality(b)
<1>1. ASSUME NEW s \in SUBSET Entries, NEW k
      PROVE  /\ IsFiniteSet({<<k, w>> : w \in s}) /\ Cardinality({<<k, w>> : w \in s}) = Cardinality(s)
             /\ Cardinality(s) \in Nat
  <2>2. IsFiniteSet(s)
    BY EntriesAreFinite, FS_Subset
  <2> DEFINE T == {<<k, w>> : w \in s}
             f == [w \in s |-> <<k, w>>]
  <2>3. f \in Bijection(s, T)
    <3>1. f \in [s -> T] /\ \A w \in s : f[w] = <<k, w>>
      OBVIOUS
    <3>2. \A v, w \in s : f[v] = f[w] => v = w
      OBVIOUS
    <3>3. \A t \in T : \E w \in s : f[w] = t
      OBVIOUS
    <3> HIDE DEF f, T
    <3> QED BY <3>1, <3>2, <3>3 DEF Bijection, Injection, Surjection, IsInjective
  <2>4. ExistsBijection(s, T)
    <3> HIDE DEF f, T
    <3> QED BY <2>3 DEF ExistsBijection
  <2>5. IsFiniteSet(T) /\ Cardinality(T) = Cardinality(s)
    <3> HIDE DEF T
    <3> QED BY <2>2, <2>4, FS_Bijection
  <2> QED BY <2>2, <2>5, FS_CardinalityType
<1> DEFINE A == {<<"create", w>> : w \in a}
           B == {<<"announce", w>> : w \in b}
<1>2. IsFiniteSet(A) /\ Cardinality(A) = Cardinality(a) /\ Cardinality(a) \in Nat
  BY <1>1
<1>3. IsFiniteSet(B) /\ Cardinality(B) = Cardinality(b) /\ Cardinality(b) \in Nat
  BY <1>1
<1>4. A \cap B = {}
  OBVIOUS
<1> HIDE DEF A, B
<1>5. Cardinality(A \cup B) = Cardinality(A) + Cardinality(B) - Cardinality(A \cap B) /\ Cardinality(A \cap B) = 0
  BY <1>2, <1>3, <1>4, FS_Union, FS_EmptySet
<1>6. Cardinality(A \cup B) = Cardinality(a) + Cardinality(b)
  BY <1>2, <1>3, <1>5
<1> QED BY <1>6 DEF A, B

\* An item that a requester is shown was addressed to them.
OpenlyShared(w, r) ==
    IsOpen(w) \/ r \in Archive[w].mentioned \/ (Archive[w].visibility = "private" /\ <<r, Archive[w].author>> \in circle)

\* What other servers are served is open to anybody or to them, and counts agree.
LEMMA DocumentsAlwaysShow ==
    ASSUME PagesInv
    PROVE  DocumentsShowWhatTheApiShows
<1>6. Anonymous \notin shut
  BY PagesAssumption DEF PagesInv, PagesTypeOK
<1>7. \A w \in Entries \ removed : IsOpen(w) => ShownOrShut(w)
  BY <1>6 DEF ShownOrShut, ShowStatus, ItemVisible, Readable
<1>1. \A w \in Entries : Note(w) => IsOpen(w) /\ ShownOrShut(w)
  BY <1>7 DEF Note, IsOpen
<1>2. \A p \in Residents : Featured(p) \subseteq {w \in Entries : Note(w) /\ ShowStatus(w, Anonymous)}
  <2> TAKE p \in Residents
  <2>1. \A w \in Featured(p) : w \in pinnedPosts /\ w \notin removed
    BY DEF Featured, PinnedBy
  <2>2. \A w \in pinnedPosts : w \in Entries /\ (w \notin removed => Note(w))
    BY DEF PagesInv, PagesTypeOK, PinnedFit, IsOpen, Note
  <2>3. \A w \in Featured(p) : Archive[w].author \notin shut
    BY DEF Featured, PinnedBy, ActorServed
  <2> QED BY <1>1, <2>1, <2>2, <2>3 DEF ShownOrShut
<1>3. \A p \in Residents : \A q \in FollowersOf(p) \cup FollowingOf(p) : q \notin shut /\ ~ Blocked(p, q)
  <2> TAKE p \in Residents
  <2> TAKE q \in FollowersOf(p) \cup FollowingOf(p)
  <2>1. q \in Everyone /\ (<<q, p>> \in circle \/ <<p, q>> \in circle)
    BY DEF FollowersOf, FollowingOf, FollowEntries, Everyone
  <2>2. p \in Everyone
    BY DEF Everyone
  <2> QED BY <2>1, <2>2 DEF PagesInv, CircleFits, Blocked
<1>4. \A p \in Residents : ProfileHeader(p) = [followers |-> Cardinality(FollowersOf(p)), following |-> Cardinality(FollowingOf(p))]
  BY CollectionsCounted
<1>5. ASSUME NEW p \in Residents, NEW r \in Requesters
      PROVE  /\ Outbox(p, r).total = Cardinality(Outbox(p, r).items) /\ (p \in shut => Outbox(p, r).items = {})
             /\ \A i \in Outbox(p, r).items : OpenlyShared(i[2], r)
  <2>1. CASE ~ ActorServed(p) \/ (r # Anonymous /\ Blocked(p, r))
    <3>1. Outbox(p, r) = [total |-> 0, items |-> {}]
      BY <2>1 DEF Outbox
    <3>2. Cardinality({}) = 0
      BY FS_EmptySet
    <3> QED BY <3>1, <3>2
  <2>2. CASE ~ (~ ActorServed(p) \/ (r # Anonymous /\ Blocked(p, r)))
    <3> DEFINE a == OutboxStatuses(p, r)
               b == OutboxBoosts(p, r)
               both == {<<"create", w>> : w \in a} \cup {<<"announce", w>> : w \in b}
    <3>1. Outbox(p, r) = [total |-> OutboxCount(p, r), items |-> both]
      BY <2>2 DEF Outbox
    <3>2. a \in SUBSET Entries /\ b \in SUBSET Entries
      BY DEF OutboxStatuses, OutboxBoosts
    <3>3. Cardinality(both) = OutboxCount(p, r)
      <4> HIDE DEF a, b
      <4>1. Cardinality(both) = Cardinality(a) + Cardinality(b)
        BY <3>2, ItemsCounted
      <4> QED BY <4>1 DEF OutboxCount, a, b
    <3>4. \A w \in Entries : (OutboxVisibility(w, r) => OpenlyShared(w, r)) /\ (IsOpen(w) => OpenlyShared(w, r))
      BY DEF OutboxVisibility, OpenlyShared
    <3>5. \A w \in a \cup b : OpenlyShared(w, r)
      BY <3>4 DEF OutboxStatuses, OutboxBoosts
    <3>6. \A i \in both : OpenlyShared(i[2], r)
      <4> HIDE DEF a, b
      <4> QED BY <3>5
    <3>7. p \notin shut
      BY <2>2 DEF ActorServed
    <3> HIDE DEF both
    <3> QED BY <3>1, <3>3, <3>6, <3>7
  <2> QED BY <2>1, <2>2
<1>8. ASSUME NEW p \in Residents
      PROVE  \A i \in Outbox(p, Anonymous).items :
                ShowStatus(i[2], Anonymous) \/ (i[1] = "announce" /\ Archive[i[2]].author \in shut)
  <2>1. CASE ~ ActorServed(p)
    BY <2>1 DEF Outbox
  <2>2. CASE ActorServed(p)
    <3>1. Outbox(p, Anonymous).items =
             {<<"create", w>> : w \in OutboxStatuses(p, Anonymous)} \cup {<<"announce", w>> : w \in OutboxBoosts(p, Anonymous)}
      BY <2>2 DEF Outbox
    <3>2. \A w \in OutboxStatuses(p, Anonymous) \cup OutboxBoosts(p, Anonymous) : w \in Entries \ removed /\ IsOpen(w)
      BY DEF OutboxStatuses, OutboxBoosts, OutboxVisibility
    <3>3. \A w \in OutboxStatuses(p, Anonymous) : Archive[w].author = p
      BY DEF OutboxStatuses
    <3>4. \A w \in OutboxStatuses(p, Anonymous) : ShowStatus(w, Anonymous)
      BY <1>7, <2>2, <3>2, <3>3 DEF ShownOrShut, ActorServed
    <3>5. \A w \in OutboxBoosts(p, Anonymous) : ShowStatus(w, Anonymous) \/ Archive[w].author \in shut
      BY <1>7, <3>2 DEF ShownOrShut
    <3> QED BY <3>1, <3>4, <3>5
  <2> QED BY <2>1, <2>2
<1> QED BY <1>1, <1>2, <1>3, <1>4, <1>5, <1>8, Zenon DEF DocumentsShowWhatTheApiShows, OpenlyShared

\* What a profile shows to a visitor, the API opens for the visitor.
LEMMA ProfilesAreOpen ==
    ASSUME PagesInv, NEW c \in Readers, NEW p \in Residents, NEW tab
    PROVE  ProfileTimeline(p, c, tab) \cup ProfileStatuses(p, c, tab) \subseteq {w \in Entries : ShowStatus(w, UiViewer(c))}
<1> DEFINE v == UiViewer(c)
<1>1. v \notin shut
  <2>1. Anonymous \notin shut
    BY PagesAssumption DEF PagesInv, PagesTypeOK
  <2> QED BY <2>1 DEF UiViewer
<1> HIDE DEF v
<1>2. ASSUME NEW ws \in SUBSET (Entries \ removed), p \notin shut, \A w \in ws : Archive[w].author = p
      PROVE  UiStatuses(ws, v) \subseteq {w \in Entries : ShowStatus(w, v)}
  <2>1. \A w \in ws : Readable(w, v) => UiLocalStatus(w, v) \subseteq {u \in Entries : ItemVisible(u, v)}
    <3> TAKE w \in ws
    <3> HAVE Readable(w, v)
    <3>1. ItemVisible(w, v) /\ w \in Entries
      BY <1>2 DEF ItemVisible
    <3>2. \A q \in UiQuote(w, v) : q \in Entries /\ ItemVisible(q, v)
      BY <3>1, ArchiveTyped DEF UiQuote
    <3> QED BY <3>1, <3>2 DEF UiLocalStatus
  <2> QED BY <1>1, <2>1 DEF UiStatuses, ShowStatus
<1>3. ProfileTab(p, v, tab) \in SUBSET (Entries \ removed) /\ \A w \in ProfileTab(p, v, tab) : Archive[w].author = p
  BY DEF ProfileTab, ByAccount
<1>4. PinnedBy(p) \in SUBSET (Entries \ removed) /\ \A w \in PinnedBy(p) : Archive[w].author = p
  BY DEF PinnedBy, PagesInv, PagesTypeOK
<1>5. p \notin shut => /\ UiStatuses(ProfileTab(p, v, tab), v) \subseteq {w \in Entries : ShowStatus(w, v)}
                       /\ UiStatuses(PinnedBy(p), v) \subseteq {w \in Entries : ShowStatus(w, v)}
  BY <1>2, <1>3, <1>4
<1>6. ~ ActiveProfile(p) => ProfileTimeline(p, c, tab) = {} /\ ProfileStatuses(p, c, tab) = {}
  BY DEF ProfileTimeline, ProfileStatuses
<1>7. ActiveProfile(p) => p \notin shut
  BY DEF ActiveProfile
<1>8. ProfileTimeline(p, c, tab) \cup ProfileStatuses(p, c, tab) \subseteq UiStatuses(ProfileTab(p, v, tab), v) \cup UiStatuses(PinnedBy(p), v)
  BY DEF ProfileTimeline, ProfileStatuses, v
<1> QED BY <1>5, <1>6, <1>7, <1>8 DEF v

\* The promoted statuses from one to before another.
Between(c, w) == {u \in Promoted : c <= u /\ u < w}
RowIndex(w) == Cardinality({u \in Promoted : u < w})

\* The rows of the sitemap.
LEMMA PromotedAreFinite ==
    /\ Promoted \in SUBSET Entries /\ \A w \in Promoted : w \in Nat
    /\ \A s \in SUBSET Promoted : IsFiniteSet(s) /\ Cardinality(s) \in Nat
<1>1. Promoted \in SUBSET Entries
  BY DEF Promoted
<1>2. \A s \in SUBSET Promoted : IsFiniteSet(s)
  BY <1>1, EntriesAreFinite, FS_Subset
<1> QED BY <1>1, <1>2, EntriesAreFinite, FS_CardinalityType

\* A row that is not the first follows another at once.
LEMMA RowBefore ==
    ASSUME NEW w \in Promoted, RowIndex(w) # 0
    PROVE  \E u \in Promoted : u < w /\ \A x \in Promoted : x < w => x <= u
<1> DEFINE Smaller == {u \in Promoted : u < w}
           Gaps == {n \in Nat : \E u \in Smaller : n = w - u}
<1>1. Smaller # {}
  <2>1. Cardinality({}) = 0
    BY FS_EmptySet
  <2> QED BY <2>1 DEF RowIndex
<1>2. \A u \in Smaller : w - u \in Nat /\ u \in Nat
  BY PromotedAreFinite
<1>3. Gaps \in SUBSET Nat /\ Gaps # {}
  BY <1>1, <1>2
<1>4. PICK n \in Gaps : \A m \in Gaps : n <= m
  <2> HIDE DEF Gaps
  <2> QED BY <1>3, LeastIsThere
<1>5. PICK u \in Smaller : n = w - u
  BY <1>4
<1>6. \A x \in Smaller : x <= u
  <2> TAKE x \in Smaller
  <2>1. w - x \in Gaps
    BY <1>2
  <2>2. w - u <= w - x
    BY <1>4, <1>5, <2>1
  <2> QED BY <1>2, <2>2, PromotedAreFinite
<1> QED BY <1>5, <1>6

\* The next row has the next number, counted from the first row or from a cursor.
LEMMA RowsCount ==
    ASSUME NEW u \in Promoted, NEW w \in Promoted, u < w, \A x \in Promoted : x < w => x <= u,
           NEW c \in Promoted, c <= u
    PROVE  /\ RowIndex(w) = RowIndex(u) + 1 /\ RowIndex(u) \in Nat
           /\ Cardinality(Between(c, w)) = Cardinality(Between(c, u)) + 1 /\ Cardinality(Between(c, u)) \in Nat
<1>0. \A x \in Promoted : x \in Nat
  BY PromotedAreFinite
<1>1. /\ {x \in Promoted : x < w} = {x \in Promoted : x < u} \cup {u} /\ u \notin {x \in Promoted : x < u}
      /\ Between(c, w) = Between(c, u) \cup {u} /\ u \notin Between(c, u)
  BY <1>0 DEF Between
<1>2. {x \in Promoted : x < u} \in SUBSET Promoted /\ Between(c, u) \in SUBSET Promoted
  BY DEF Between
<1>3. /\ IsFiniteSet({x \in Promoted : x < u}) /\ Cardinality({x \in Promoted : x < u}) \in Nat
      /\ IsFiniteSet(Between(c, u)) /\ Cardinality(Between(c, u)) \in Nat
  BY <1>2, PromotedAreFinite
<1>4. Cardinality({x \in Promoted : x < u} \cup {u}) = Cardinality({x \in Promoted : x < u}) + 1
  BY <1>1, <1>3, FS_AddElement
<1>5. Cardinality(Between(c, u) \cup {u}) = Cardinality(Between(c, u)) + 1
  BY <1>1, <1>3, FS_AddElement
<1> QED BY <1>1, <1>3, <1>4, <1>5 DEF RowIndex

\* A row is as far from the first as its cursor and what lies between them.
LEMMA RowsAdd ==
    ASSUME NEW c \in Promoted, NEW w \in Promoted, c <= w
    PROVE  RowIndex(w) = RowIndex(c) + Cardinality(Between(c, w)) /\ RowIndex(c) \in Nat /\ Cardinality(Between(c, w)) \in Nat
<1> DEFINE A == {u \in Promoted : u < c}
           B == Between(c, w)
<1>0. \A x \in Promoted : x \in Nat
  BY PromotedAreFinite
<1>1. {u \in Promoted : u < w} = A \cup B /\ A \cap B = {} /\ A \in SUBSET Promoted /\ B \in SUBSET Promoted
  BY <1>0 DEF Between
<1>2. RowIndex(w) = Cardinality(A \cup B) /\ RowIndex(c) = Cardinality(A)
  BY <1>1 DEF RowIndex
<1> HIDE DEF A, B
<1>3. IsFiniteSet(A) /\ IsFiniteSet(B) /\ Cardinality(A) \in Nat /\ Cardinality(B) \in Nat
  BY <1>1, PromotedAreFinite
<1>4. Cardinality(A \cup B) = Cardinality(A) + Cardinality(B) - Cardinality(A \cap B) /\ Cardinality(A \cap B) = 0
  BY <1>1, <1>3, FS_Union, FS_EmptySet
<1>5. RowIndex(w) = Cardinality(A) + Cardinality(B)
  BY <1>2, <1>3, <1>4
<1> QED BY <1>2, <1>3, <1>5 DEF B

\* The start of the next chunk.
LEMMA NextMultiple ==
    ASSUME NEW m \in Nat, NEW n \in Nat \ {0}, m % n = 0
    PROVE  (m + n) % n = 0
<1>1. PICK q \in Nat : m = n * q
  <2>1. m = n * (m \div n) /\ m \div n \in Nat
    BY Z3
  <2> QED BY <2>1
<1>2. m + n = n * (q + 1) /\ q + 1 \in Nat
  BY <1>1
<1>3. \A k \in Nat : (n * k) % n = 0
  BY Z3
<1> QED BY <1>2, <1>3

\* The chunks of the sitemap hold every promoted status: the first row that none
\* of them held would not be a boundary, and follow one in a chunk that is full.
LEMMA SitemapIsComplete == Sitemap = Promoted
<1>1. Sitemap \subseteq Promoted
  BY DEF Sitemap, SitemapUrls
<1> DEFINE Lost == Promoted \ Sitemap
<1>2. ASSUME Lost # {} PROVE FALSE
  <2>1. Lost \in SUBSET Nat
    BY PromotedAreFinite
  <2>2. PICK w \in Lost : \A x \in Lost : w <= x
    <3> HIDE DEF Lost
    <3> QED BY <1>2, <2>1, LeastIsThere
  <2>3. w \in Promoted /\ w \in Nat /\ w \notin Sitemap
    BY <2>1, <2>2
  <2>4. ASSUME NEW c \in Promoted, c <= w, RowIndex(c) % ChunkSize = 0
        PROVE  ~ (Cardinality(Between(c, w)) < ChunkSize)
    <3>1. c \in SitemapChunks
      BY <2>4 DEF SitemapChunks, RowIndex
    <3>2. Cardinality(Between(c, w)) < ChunkSize => w \in SitemapUrls(c)
      BY <2>3, <2>4, PromotedAreFinite DEF SitemapUrls, Between
    <3> QED BY <2>3, <3>1, <3>2 DEF Sitemap
  <2>5. ChunkSize \in Nat \ {0}
    BY PagesAssumption
  <2>6. RowIndex(w) % ChunkSize # 0
    <3>0. \A x \in Promoted : ~ (w <= x /\ x < w)
      BY <2>3, PromotedAreFinite
    <3>1. Between(w, w) = {}
      BY <3>0 DEF Between
    <3>2. Cardinality(Between(w, w)) = 0
      BY <3>1, FS_EmptySet
    <3> QED BY <2>3, <2>4, <2>5, <3>2
  <2>7. RowIndex(w) # 0
    <3>1. 0 % ChunkSize = 0
      BY <2>5
    <3> QED BY <2>6, <3>1
  <2>8. PICK u \in Promoted : u < w /\ \A x \in Promoted : x < w => x <= u
    BY <2>3, <2>7, RowBefore
  <2>9. u \in Nat /\ u \in Sitemap
    BY <2>2, <2>3, <2>8, PromotedAreFinite
  <2>10. PICK c \in Promoted : c <= u /\ RowIndex(c) % ChunkSize = 0 /\ Cardinality(Between(c, u)) < ChunkSize
    BY <2>9, PromotedAreFinite DEF Sitemap, SitemapChunks, SitemapUrls, Between, RowIndex
  <2>11. c <= w /\ c \in Nat
    BY <2>3, <2>8, <2>9, <2>10, PromotedAreFinite
  <2>12. Cardinality(Between(c, w)) = Cardinality(Between(c, u)) + 1 /\ Cardinality(Between(c, u)) \in Nat
    BY <2>3, <2>8, <2>10, RowsCount
  <2>13. Cardinality(Between(c, w)) = ChunkSize
    BY <2>3, <2>4, <2>5, <2>10, <2>11, <2>12
  <2>14. RowIndex(w) = RowIndex(c) + ChunkSize /\ RowIndex(c) \in Nat
    BY <2>3, <2>11, <2>13, RowsAdd
  <2>15. (RowIndex(c) + ChunkSize) % ChunkSize = 0
    BY <2>5, <2>10, <2>14, NextMultiple
  <2> QED BY <2>6, <2>14, <2>15
<1> QED BY <1>1, <1>2
-----------------------------------------------------------------------------
(* Sequences built step by step *)

\* A set with zero and with the successor of each of its numbers below n holds
\* all numbers up to n.
LEMMA StepByStep ==
    ASSUME NEW n \in Nat, NEW S, 0 \in S, \A k \in 0..(n - 1) : k \in S => k + 1 \in S
    PROVE  0..n \subseteq S
<1> DEFINE Missing == {k \in Nat : k <= n /\ k \notin S}
<1>1. ASSUME Missing # {} PROVE FALSE
  <2>1. Missing \in SUBSET Nat
    OBVIOUS
  <2>2. PICK k \in Missing : \A j \in Missing : k <= j
    <3> HIDE DEF Missing
    <3> QED BY <1>1, <2>1, LeastIsThere
  <2>3. k \in Nat /\ k # 0 /\ k <= n /\ k \notin S
    BY <2>2
  <2>4. k - 1 \in Nat /\ k - 1 \notin Missing
    BY <2>2, <2>3
  <2>5. k - 1 \in S /\ k - 1 \in 0..(n - 1)
    BY <2>3, <2>4
  <2>6. (k - 1) + 1 \in S
    BY <2>5
  <2> QED BY <2>3, <2>6
<1> QED BY <1>1


\* The function that the ancestors are defined by.
IsClimb(f, n, w, v) == f = [k \in 0..n |-> IF k = 0 THEN <<w>> ELSE Climb(f[k - 1], v)]

\* The climb is a function: the way up of every length exists.
LEMMA ClimbIsDefined ==
    ASSUME NEW w, NEW v, NEW n \in Nat
    PROVE  \E f : IsClimb(f, n, w, v)
<1> DEFINE Good == {m \in Nat : \E f : IsClimb(f, m, w, v)}
<1>1. 0 \in Good
  <2> DEFINE f == [k \in 0..0 |-> <<w>>]
  <2>1. f = [k \in 0..0 |-> IF k = 0 THEN <<w>> ELSE Climb(f[k - 1], v)]
    OBVIOUS
  <2> QED BY <2>1 DEF IsClimb
<1>2. ASSUME NEW m \in 0..(n - 1), m \in Good PROVE m + 1 \in Good
  <2>1. PICK f : IsClimb(f, m, w, v)
    BY <1>2
  <2> DEFINE g == [k \in 0..(m + 1) |-> IF k <= m THEN f[k] ELSE Climb(f[m], v)]
  <2>2. \A k \in 0..(m + 1) : g[k] = IF k = 0 THEN <<w>> ELSE Climb(g[k - 1], v)
    <3> TAKE k \in 0..(m + 1)
    <3>1. CASE k = 0
      <4>1. g[k] = f[0] /\ f[0] = <<w>>
        BY <2>1, <3>1 DEF IsClimb
      <4> QED BY <3>1, <4>1
    <3>2. CASE k # 0 /\ k <= m
      <4>1. g[k] = f[k] /\ f[k] = Climb(f[k - 1], v)
        BY <2>1, <3>2 DEF IsClimb
      <4>2. k - 1 \in 0..(m + 1) /\ k - 1 <= m
        BY <3>2
      <4>3. g[k - 1] = f[k - 1]
        BY <4>2
      <4> QED BY <3>2, <4>1, <4>3
    <3>3. CASE k = m + 1
      <4>1. g[k] = Climb(f[m], v) /\ g[m] = f[m]
        BY <3>3
      <4>2. k - 1 = m /\ k # 0
        BY <3>3
      <4> QED BY <4>1, <4>2
    <3> QED BY <3>1, <3>2, <3>3
  <2>3. g = [k \in 0..(m + 1) |-> g[k]]
    OBVIOUS
  <2>4. g = [k \in 0..(m + 1) |-> IF k = 0 THEN <<w>> ELSE Climb(g[k - 1], v)]
    <3> HIDE DEF g
    <3> QED BY <2>2, <2>3
  <2> HIDE DEF g
  <2>5. IsClimb(g, m + 1, w, v)
    BY <2>4, Zenon DEF IsClimb
  <2> QED BY <2>5
<1>3. 0..n \subseteq Good
  <2> HIDE DEF Good
  <2> QED BY <1>1, <1>2, StepByStep
<1> QED BY <1>3

\* The limits of a context are numbers.
LEMMA LimitsTyped ==
    ASSUME NEW v
    PROVE  LimitsFor(v).ancestors \in Nat /\ LimitsFor(v).descendants \in Nat /\ LimitsFor(v).depth \in Nat
BY PagesAssumption DEF LimitsFor

\* The way up from a status: visible parents, none of them twice.
WayUp(q, w, v) ==
    /\ q \in Seq(Entries) /\ Len(q) >= 1 /\ q[Len(q)] = w
    /\ \A i \in 1..(Len(q) - 1) : ItemVisible(q[i], v) /\ Archive[q[i + 1]].parent = q[i]
    /\ \A i, j \in 1..(Len(q) - 1) : q[i] = q[j] => i = j

\* A sequence without its last element.
LEMMA FrontIs ==
    ASSUME NEW S, NEW q \in Seq(S), Len(q) >= 1
    PROVE  /\ Front(q) \in Seq(S) /\ Len(Front(q)) = Len(q) - 1
           /\ \A i \in 1..(Len(q) - 1) : Front(q)[i] = q[i]
           /\ Range(Front(q)) = {q[i] : i \in 1..(Len(q) - 1)}
<1>1. Front(q) \in Seq(S) /\ Len(Front(q)) = Len(q) - 1 /\ \A i \in 1..(Len(q) - 1) : Front(q)[i] = q[i]
  <2>1. Front(q) = SubSeq(q, 1, Len(q) - 1)
    BY Zenon DEF Front
  <2>2. PICK n \in Nat : n = Len(q) - 1 /\ n < Len(q)
    <3>1. Len(q) \in Nat
      OBVIOUS
    <3>2. Len(q) - 1 \in Nat /\ Len(q) - 1 < Len(q)
      BY <3>1
    <3> QED BY <3>2
  <2>3. SubSeq(q, 1, n) \in Seq(S) /\ Len(SubSeq(q, 1, n)) = n
    BY <2>2
  <2>4. \A i \in 1..n : SubSeq(q, 1, n)[i] = q[i]
    BY <2>2
  <2> QED BY <2>1, <2>2, <2>3, <2>4
<1>2. DOMAIN Front(q) = 1..(Len(q) - 1)
  BY <1>1
<1> QED BY <1>1, <1>2 DEF Range

\* One more step up keeps the way.
LEMMA ClimbFits ==
    ASSUME NEW w \in Entries, NEW v, NEW q, WayUp(q, w, v)
    PROVE  WayUp(Climb(q, v), w, v)
<1>0. q \in Seq(Entries) /\ Len(q) >= 1 /\ Len(q) \in Nat /\ Head(q) = q[1] /\ q[1] \in Entries
  BY DEF WayUp
<1>1. PICK p : p = Parent(Head(q))
  OBVIOUS
<1>2. CASE p # NoWork /\ p \notin Range(Front(q)) /\ ItemVisible(p, v)
  <2>1. p \in Entries /\ Archive[q[1]].parent = p
    BY <1>0, <1>1, <1>2, ArchiveTyped DEF Parent
  <2>2. PICK r \in Seq(Entries) : r = <<p>> \o q
    <3>1. <<p>> \in Seq(Entries)
      BY <2>1
    <3>2. <<p>> \o q \in Seq(Entries)
      BY <1>0, <3>1
    <3> QED BY <3>2, Zenon
  <2>3. Climb(q, v) = r
    BY <1>1, <1>2, <2>2 DEF Climb
  <2>4. Len(r) = Len(q) + 1 /\ r[1] = p /\ \A i \in 2..(Len(q) + 1) : r[i] = q[i - 1]
    BY <1>0, <2>1, <2>2
  <2>5. r[Len(r)] = w
    BY <1>0, <2>4 DEF WayUp
  <2>6. ASSUME NEW i \in 1..(Len(r) - 1) PROVE ItemVisible(r[i], v) /\ Archive[r[i + 1]].parent = r[i]
    <3>1. CASE i = 1
      <4>1. r[i] = p /\ r[i + 1] = q[1]
        BY <1>0, <2>4, <3>1
      <4> QED BY <1>2, <2>1, <4>1
    <3>2. CASE i # 1
      <4>1. i - 1 \in 1..(Len(q) - 1) /\ r[i] = q[i - 1] /\ r[i + 1] = q[i]
        BY <1>0, <2>4, <3>2
      <4>2. (i - 1) + 1 = i
        OBVIOUS
      <4> QED BY <4>1, <4>2 DEF WayUp
    <3> QED BY <3>1, <3>2
  <2>7. \A i \in 1..(Len(q) - 1) : q[i] # p
    BY <1>0, <1>2, FrontIs
  <2>8. ASSUME NEW i \in 1..(Len(r) - 1), NEW j \in 1..(Len(r) - 1), r[i] = r[j] PROVE i = j
    <3>1. i # 1 => i - 1 \in 1..(Len(q) - 1) /\ r[i] = q[i - 1]
      BY <1>0, <2>4
    <3>2. j # 1 => j - 1 \in 1..(Len(q) - 1) /\ r[j] = q[j - 1]
      BY <1>0, <2>4
    <3>3. CASE i = 1 \/ j = 1
      BY <2>4, <2>7, <2>8, <3>1, <3>2, <3>3
    <3>4. CASE i # 1 /\ j # 1
      <4>1. i - 1 = j - 1
        BY <2>8, <3>1, <3>2, <3>4 DEF WayUp
      <4> QED BY <4>1
    <3> QED BY <3>3, <3>4
  <2> QED BY <1>0, <2>3, <2>4, <2>5, <2>6, <2>8 DEF WayUp
<1>3. CASE ~ (p # NoWork /\ p \notin Range(Front(q)) /\ ItemVisible(p, v))
  <2>1. Climb(q, v) = q
    BY <1>1, <1>3 DEF Climb
  <2> QED BY <2>1
<1> QED BY <1>2, <1>3

\* What the context shows above a status: the way up to the limit.
LEMMA AncestorsAreTheWayUp ==
    ASSUME NEW w \in Entries, NEW v
    PROVE  \E q : WayUp(q, w, v) /\ Ancestors(w, v) = Front(q)
<1>1. PICK n \in Nat : n = LimitsFor(v).ancestors
  BY LimitsTyped
<1>2. PICK f : IsClimb(f, n, w, v) /\ Ancestors(w, v) = Front(f[n])
  <2> DEFINE up == CHOOSE f : IsClimb(f, n, w, v)
  <2>1. \E f : IsClimb(f, n, w, v)
    BY <1>1, ClimbIsDefined
  <2>2. IsClimb(up, n, w, v)
    BY <2>1, Zenon
  <2>3. Ancestors(w, v) = Front(up[n])
    BY <1>1, Zenon DEF Ancestors, IsClimb
  <2> HIDE DEF up
  <2> QED BY <2>2, <2>3, Zenon
<1>3. f[0] = <<w>> /\ \A k \in 0..(n - 1) : f[k + 1] = Climb(f[k], v)
  <2>1. f[0] = <<w>>
    BY <1>2 DEF IsClimb
  <2>2. ASSUME NEW k \in 0..(n - 1) PROVE f[k + 1] = Climb(f[k], v)
    <3>1. k + 1 \in 0..n /\ k + 1 # 0 /\ (k + 1) - 1 = k
      OBVIOUS
    <3>2. f[k + 1] = Climb(f[(k + 1) - 1], v)
      BY <1>2, <3>1 DEF IsClimb
    <3> QED BY <3>1, <3>2
  <2> QED BY <2>1, <2>2
<1> DEFINE Good == {k \in 0..n : WayUp(f[k], w, v)}
<1>4. 0 \in Good
  <2>1. WayUp(<<w>>, w, v)
    BY DEF WayUp
  <2> QED BY <1>3, <2>1
<1>5. ASSUME NEW k \in 0..(n - 1), k \in Good PROVE k + 1 \in Good
  <2>1. WayUp(f[k], w, v)
    BY <1>5
  <2>2. WayUp(f[k + 1], w, v)
    BY <1>3, <2>1, ClimbFits
  <2> QED BY <2>2
<1>6. 0..n \subseteq Good
  <2> HIDE DEF Good
  <2> QED BY <1>4, <1>5, StepByStep
<1>7. WayUp(f[n], w, v)
  BY <1>6
<1> QED BY <1>2, <1>7

\* What the context shows above a status.
LEMMA AncestorsFit ==
    ASSUME NEW w \in Entries, NEW v
    PROVE  LET a == Ancestors(w, v) IN
           /\ a \in Seq(Entries) /\ \A i \in 1..Len(a) : ItemVisible(a[i], v)
           /\ \A i, j \in 1..Len(a) : a[i] = a[j] => i = j
           /\ \A i \in 1..(Len(a) - 1) : Archive[a[i + 1]].parent = a[i]
           /\ Len(a) # 0 => Archive[w].parent = a[Len(a)]
<1>1. PICK q : WayUp(q, w, v) /\ Ancestors(w, v) = Front(q)
  BY AncestorsAreTheWayUp
<1>2. PICK a : a = Ancestors(w, v)
  OBVIOUS
<1>3. q \in Seq(Entries) /\ Len(q) >= 1 /\ Len(q) \in Nat
  BY <1>1 DEF WayUp
<1>4. a \in Seq(Entries) /\ Len(a) = Len(q) - 1 /\ \A i \in 1..(Len(q) - 1) : a[i] = q[i]
  BY <1>1, <1>2, <1>3, FrontIs
<1>5. \A i \in 1..Len(a) : ItemVisible(a[i], v)
  BY <1>1, <1>4 DEF WayUp
<1>6. \A i, j \in 1..Len(a) : a[i] = a[j] => i = j
  BY <1>1, <1>4 DEF WayUp
<1>7. ASSUME NEW i \in 1..(Len(a) - 1) PROVE Archive[a[i + 1]].parent = a[i]
  <2>1. i \in 1..(Len(q) - 1) /\ i + 1 \in 1..(Len(q) - 1)
    BY <1>3, <1>4
  <2>2. a[i] = q[i] /\ a[i + 1] = q[i + 1]
    BY <1>4, <2>1
  <2> QED BY <1>1, <2>1, <2>2 DEF WayUp
<1>8. ASSUME Len(a) # 0 PROVE Archive[w].parent = a[Len(a)]
  <2>1. Len(q) - 1 \in 1..(Len(q) - 1) /\ (Len(q) - 1) + 1 = Len(q)
    BY <1>3, <1>4, <1>8
  <2>2. Archive[q[(Len(q) - 1) + 1]].parent = q[Len(q) - 1]
    BY <1>1, <2>1 DEF WayUp
  <2>3. q[Len(q)] = w
    BY <1>1 DEF WayUp
  <2>4. a[Len(a)] = q[Len(q) - 1]
    BY <1>4, <2>1
  <2> QED BY <2>1, <2>2, <2>3, <2>4
<1> QED BY <1>2, <1>4, <1>5, <1>6, <1>7, <1>8

\* The function that a sequence of sequences is flattened by.
IsFlatten(f, n, q) == f = [k \in 1..n |-> IF k = 1 THEN q[k] ELSE f[k - 1] \o q[k]]

\* The concatenation of any number of levels exists.
LEMMA FlattenIsDefined ==
    ASSUME NEW q, NEW n \in Nat
    PROVE  \E f : IsFlatten(f, n, q)
<1> DEFINE Good == {m \in Nat : \E f : IsFlatten(f, m, q)}
<1>1. 0 \in Good
  <2> DEFINE f == [k \in 1..0 |-> q]
  <2>1. f = [k \in 1..0 |-> IF k = 1 THEN q[k] ELSE f[k - 1] \o q[k]]
    OBVIOUS
  <2> QED BY <2>1 DEF IsFlatten
<1>2. ASSUME NEW m \in 0..(n - 1), m \in Good PROVE m + 1 \in Good
  <2>1. PICK f : IsFlatten(f, m, q)
    BY <1>2
  <2> DEFINE g == [k \in 1..(m + 1) |-> IF k <= m THEN f[k] ELSE IF k = 1 THEN q[k] ELSE f[m] \o q[k]]
  <2>2. \A k \in 1..(m + 1) : g[k] = IF k = 1 THEN q[k] ELSE g[k - 1] \o q[k]
    <3> TAKE k \in 1..(m + 1)
    <3>1. CASE k <= m
      <4>0. k \in 1..m /\ g[k] = f[k]
        BY <3>1
      <4>1. f[k] = IF k = 1 THEN q[k] ELSE f[k - 1] \o q[k]
        <5> HIDE DEF g
        <5> QED BY <2>1, <4>0 DEF IsFlatten
      <4>2. k # 1 => k - 1 \in 1..(m + 1) /\ k - 1 <= m
        BY <3>1
      <4>3. k # 1 => g[k - 1] = f[k - 1]
        BY <4>2
      <4> HIDE DEF g
      <4> QED BY <4>0, <4>1, <4>3
    <3>2. CASE k = m + 1
      <4>1. g[k] = IF k = 1 THEN q[k] ELSE f[m] \o q[k]
        BY <3>2
      <4>2. k # 1 => k - 1 = m /\ m \in 1..(m + 1)
        BY <3>2
      <4>3. k # 1 => g[k - 1] = f[m]
        BY <4>2
      <4> HIDE DEF g
      <4> QED BY <4>1, <4>3
    <3> QED BY <3>1, <3>2
  <2>3. g = [k \in 1..(m + 1) |-> g[k]]
    OBVIOUS
  <2>4. g = [k \in 1..(m + 1) |-> IF k = 1 THEN q[k] ELSE g[k - 1] \o q[k]]
    <3> HIDE DEF g
    <3> QED BY <2>2, <2>3
  <2> HIDE DEF g
  <2>5. IsFlatten(g, m + 1, q)
    BY <2>4, Zenon DEF IsFlatten
  <2> QED BY <2>5
<1>3. 0..n \subseteq Good
  <2> HIDE DEF Good
  <2> QED BY <1>1, <1>2, StepByStep
<1> QED BY <1>3

\* p is the first n sequences of q, one after the other: what is in p is in one
\* of them and comes after all that is in the earlier ones.
Flat(p, n, q, S) ==
    /\ p \in Seq(S)
    /\ \A i \in 1..Len(p) : \E j \in 1..n : \E k \in 1..Len(q[j]) :
          /\ p[i] = q[j][k]
          /\ \A h \in 1..(j - 1) : \A l \in 1..Len(q[h]) : \E m \in 1..(i - 1) : p[m] = q[h][l]
    /\ \A j \in 1..n : \A k \in 1..Len(q[j]) : \E i \in 1..Len(p) : p[i] = q[j][k]

\* Nothing is in one of the sequences twice, or in two of them.
Apart(q, n) == \A i, j \in 1..n : \A k \in 1..Len(q[i]), l \in 1..Len(q[j]) : q[i][k] = q[j][l] => i = j /\ k = l
Single(p) == \A i, j \in 1..Len(p) : p[i] = p[j] => i = j

\* t is p followed by r, element by element.
Joined(t, p, r, S) ==
    /\ t \in Seq(S) /\ Len(t) = Len(p) + Len(r) /\ Len(p) \in Nat /\ Len(r) \in Nat
    /\ \A i \in 1..Len(p) : t[i] = p[i]
    /\ \A i \in 1..Len(r) : t[Len(p) + i] = r[i]
    /\ \A i \in 1..Len(t) : i \in 1..Len(p) \/ \E k \in 1..Len(r) : i = Len(p) + k

\* A concatenation is a join.
LEMMA Concatenated ==
    ASSUME NEW S, NEW p \in Seq(S), NEW r \in Seq(S), NEW t, t = p \o r
    PROVE  Joined(t, p, r, S)
<1>1. Len(p) \in Nat /\ Len(r) \in Nat
  OBVIOUS
<1>2. t \in Seq(S) /\ Len(t) = Len(p) + Len(r)
  OBVIOUS
<1>3. \A i \in 1..Len(p) : t[i] = p[i]
  OBVIOUS
<1>4. \A i \in 1..Len(r) : t[Len(p) + i] = r[i]
  OBVIOUS
<1>5. ASSUME NEW i \in 1..Len(t), i \notin 1..Len(p) PROVE \E k \in 1..Len(r) : i = Len(p) + k
  <2>1. i - Len(p) \in 1..Len(r) /\ i = Len(p) + (i - Len(p))
    BY <1>1, <1>2, <1>5
  <2> QED BY <2>1
<1> QED BY <1>1, <1>2, <1>3, <1>4, <1>5 DEF Joined

\* One more level keeps a concatenation flat, and single while the levels are apart.
LEMMA FlatGrows ==
    ASSUME NEW S, NEW n \in Nat, NEW q, \A j \in 1..(n + 1) : q[j] \in Seq(S),
           NEW p, Flat(p, n, q, S)
    PROVE  /\ Flat(p \o q[n + 1], n + 1, q, S)
           /\ Single(p) /\ Apart(q, n + 1) => Single(p \o q[n + 1])
<1>1. PICK r \in Seq(S) : r = q[n + 1]
  OBVIOUS
<1>2. PICK t : t = p \o r
  OBVIOUS
<1>3. p \in Seq(S) /\ Len(p) \in Nat /\ Len(r) \in Nat
  BY <1>1 DEF Flat
<1>4. /\ t \in Seq(S) /\ Len(t) = Len(p) + Len(r)
      /\ \A i \in 1..Len(p) : t[i] = p[i]
      /\ \A i \in 1..Len(r) : t[Len(p) + i] = r[i]
      /\ \A i \in 1..Len(t) : i \in 1..Len(p) \/ \E k \in 1..Len(r) : i = Len(p) + k
  <2>1. Joined(t, p, r, S)
    BY <1>2, <1>3, Concatenated
  <2> QED BY <2>1 DEF Joined
<1>5. ASSUME NEW i \in 1..Len(t)
      PROVE  \E j \in 1..(n + 1) : \E k \in 1..Len(q[j]) :
                /\ t[i] = q[j][k]
                /\ \A h \in 1..(j - 1) : \A l \in 1..Len(q[h]) : \E m \in 1..(i - 1) : t[m] = q[h][l]
  <2>1. CASE i \in 1..Len(p)
    <3>0. PICK j \in 1..n : \E k \in 1..Len(q[j]) :
             /\ p[i] = q[j][k]
             /\ \A h \in 1..(j - 1) : \A l \in 1..Len(q[h]) : \E m \in 1..(i - 1) : p[m] = q[h][l]
      BY <2>1 DEF Flat
    <3>1. PICK k \in 1..Len(q[j]) :
             /\ p[i] = q[j][k]
             /\ \A h \in 1..(j - 1) : \A l \in 1..Len(q[h]) : \E m \in 1..(i - 1) : p[m] = q[h][l]
      BY <3>0
    <3>2. \A m \in 1..(i - 1) : t[m] = p[m]
      BY <1>3, <1>4, <2>1
    <3>3. \A h \in 1..(j - 1) : \A l \in 1..Len(q[h]) : \E m \in 1..(i - 1) : t[m] = q[h][l]
      BY <3>1, <3>2
    <3>4. j \in 1..(n + 1) /\ t[i] = q[j][k]
      BY <1>4, <2>1, <3>1
    <3> QED BY <3>1, <3>3, <3>4
  <2>2. CASE \E k \in 1..Len(r) : i = Len(p) + k
    <3>1. PICK k \in 1..Len(r) : i = Len(p) + k
      BY <2>2
    <3>2. t[i] = q[n + 1][k] /\ k \in 1..Len(q[n + 1]) /\ n + 1 \in 1..(n + 1) /\ (n + 1) - 1 = n
      BY <1>1, <1>4, <3>1
    <3>3. ASSUME NEW h \in 1..n, NEW l \in 1..Len(q[h]) PROVE \E m \in 1..(i - 1) : t[m] = q[h][l]
      <4>1. PICK m \in 1..Len(p) : p[m] = q[h][l]
        BY DEF Flat
      <4>2. m \in 1..(i - 1) /\ t[m] = p[m]
        BY <1>3, <1>4, <3>1
      <4> QED BY <4>1, <4>2
    <3> QED BY <3>2, <3>3
  <2> QED BY <1>4, <2>1, <2>2
<1>6. ASSUME NEW j \in 1..(n + 1), NEW k \in 1..Len(q[j]) PROVE \E i \in 1..Len(t) : t[i] = q[j][k]
  <2>1. CASE j \in 1..n
    <3>1. PICK i \in 1..Len(p) : p[i] = q[j][k]
      BY <2>1 DEF Flat
    <3>2. i \in 1..Len(t) /\ t[i] = p[i]
      BY <1>3, <1>4
    <3> QED BY <3>1, <3>2
  <2>2. CASE j = n + 1
    <3>1. k \in 1..Len(r) /\ q[j][k] = r[k]
      BY <1>1, <2>2
    <3>2. Len(p) + k \in 1..Len(t) /\ t[Len(p) + k] = r[k]
      BY <1>3, <1>4, <3>1
    <3> QED BY <3>1, <3>2
  <2> QED BY <2>1, <2>2
<1>7. Flat(t, n + 1, q, S)
  BY <1>4, <1>5, <1>6 DEF Flat
<1>8. ASSUME Single(p), Apart(q, n + 1) PROVE Single(t)
  <2>1. \A i \in 1..Len(p), k \in 1..Len(r) : p[i] # r[k]
    <3> TAKE i \in 1..Len(p), k \in 1..Len(r)
    <3>0. PICK j \in 1..n : \E l \in 1..Len(q[j]) : p[i] = q[j][l]
      BY DEF Flat
    <3>1. PICK l \in 1..Len(q[j]) : p[i] = q[j][l]
      BY <3>0
    <3>2. j \in 1..(n + 1) /\ n + 1 \in 1..(n + 1) /\ j # n + 1
      OBVIOUS
    <3>3. q[j][l] # q[n + 1][k]
      BY <1>1, <1>8, <3>1, <3>2 DEF Apart
    <3> QED BY <1>1, <3>1, <3>3
  <2>2. \A i, j \in 1..Len(r) : r[i] = r[j] => i = j
    <3>1. n + 1 \in 1..(n + 1)
      OBVIOUS
    <3> QED BY <1>1, <1>8, <3>1 DEF Apart
  <2>3. ASSUME NEW i \in 1..Len(t), NEW j \in 1..Len(t), t[i] = t[j] PROVE i = j
    <3>1. CASE i \in 1..Len(p) /\ j \in 1..Len(p)
      BY <1>4, <1>8, <2>3, <3>1 DEF Single
    <3>2. CASE i \in 1..Len(p) /\ \E k \in 1..Len(r) : j = Len(p) + k
      BY <1>4, <2>1, <2>3, <3>2
    <3>3. CASE j \in 1..Len(p) /\ \E k \in 1..Len(r) : i = Len(p) + k
      BY <1>4, <2>1, <2>3, <3>3
    <3>4. CASE (\E k \in 1..Len(r) : i = Len(p) + k) /\ \E k \in 1..Len(r) : j = Len(p) + k
      <4>1. PICK k \in 1..Len(r) : i = Len(p) + k
        BY <3>4
      <4>2. PICK l \in 1..Len(r) : j = Len(p) + l
        BY <3>4
      <4>3. r[k] = r[l]
        BY <1>4, <2>3, <4>1, <4>2
      <4>4. k = l
        BY <2>2, <4>3
      <4> QED BY <4>1, <4>2, <4>4
    <3> QED BY <1>4, <3>1, <3>2, <3>3, <3>4
  <2> QED BY <2>3 DEF Single
<1> QED BY <1>1, <1>2, <1>7, <1>8

\* What FlattenSeq returns.
LEMMA FlattenFits ==
    ASSUME NEW S, NEW n \in Nat, NEW q \in [1..n -> Seq(S)]
    PROVE  Flat(FlattenSeq(q), n, q, S) /\ (Apart(q, n) => Single(FlattenSeq(q)))
<1>1. q \in Seq(Seq(S)) /\ Len(q) = n
  OBVIOUS
<1>2. CASE n = 0
  <2>1. FlattenSeq(q) = q /\ Len(q) = 0 /\ q = <<>>
    BY <1>1, <1>2 DEF FlattenSeq
  <2>2. Flat(<<>>, 0, q, S) /\ Single(<<>>)
    BY DEF Flat, Single
  <2> QED BY <1>2, <2>1, <2>2
<1>3. CASE n # 0
  <2>1. PICK f : IsFlatten(f, n, q) /\ FlattenSeq(q) = f[n]
    <3> DEFINE flatten == CHOOSE f : IsFlatten(f, n, q)
    <3>1. \E f : IsFlatten(f, n, q)
      BY FlattenIsDefined
    <3>2. IsFlatten(flatten, n, q)
      BY <3>1, Zenon
    <3>3. FlattenSeq(q) = flatten[n]
      <4>1. Len(q) # 0
        BY <1>1, <1>3
      <4> QED BY <1>1, <4>1, Zenon DEF FlattenSeq, IsFlatten
    <3> HIDE DEF flatten
    <3> QED BY <3>2, <3>3, Zenon
  <2>2. \A j \in 1..n : q[j] \in Seq(S)
    OBVIOUS
  <2>3. f[1] = q[1] /\ \A k \in 1..(n - 1) : f[k + 1] = f[k] \o q[k + 1]
    <3>1. f[1] = q[1]
      BY <1>3, <2>1 DEF IsFlatten
    <3>2. ASSUME NEW k \in 1..(n - 1) PROVE f[k + 1] = f[k] \o q[k + 1]
      <4>1. k + 1 \in 1..n /\ k + 1 # 1 /\ (k + 1) - 1 = k
        OBVIOUS
      <4>2. f[k + 1] = f[(k + 1) - 1] \o q[k + 1]
        BY <2>1, <4>1 DEF IsFlatten
      <4> QED BY <4>1, <4>2
    <3> QED BY <3>1, <3>2
  <2> DEFINE Good == {k \in 0..(n - 1) : Flat(f[k + 1], k + 1, q, S) /\ (Apart(q, n) => Single(f[k + 1]))}
  <2>4. \A k \in 0..(n - 1) : Apart(q, n) => Apart(q, k + 1)
    <3>1. \A k \in 0..(n - 1) : 1..(k + 1) \subseteq 1..n
      OBVIOUS
    <3> QED BY <3>1 DEF Apart
  <2>5. 0 \in Good
    <3>1. Flat(<<>>, 0, q, S) /\ Single(<<>>)
      BY DEF Flat, Single
    <3>2. q[1] \in Seq(S)
      BY <1>3
    <3>3. <<>> \o q[1] = q[1] /\ 0 + 1 = 1
      BY <3>2
    <3>4. \A j \in 1..(0 + 1) : q[j] \in Seq(S)
      BY <3>2
    <3>5. Flat(<<>> \o q[0 + 1], 0 + 1, q, S) /\ (Apart(q, 0 + 1) => Single(<<>> \o q[0 + 1]))
      <4>1. 0 \in Nat
        OBVIOUS
      <4>2. Flat(<<>> \o q[0 + 1], 0 + 1, q, S) /\ (Single(<<>>) /\ Apart(q, 0 + 1) => Single(<<>> \o q[0 + 1]))
        BY <3>1, <3>4, <4>1, FlatGrows
      <4> QED BY <3>1, <4>2
    <3>6. 0 \in 0..(n - 1) /\ f[0 + 1] = <<>> \o q[0 + 1]
      BY <1>3, <2>3, <3>3
    <3> QED BY <2>4, <3>5, <3>6
  <2>6. ASSUME NEW k \in 0..((n - 1) - 1), k \in Good PROVE k + 1 \in Good
    <3>1. k + 1 \in 1..(n - 1) /\ k + 1 \in Nat /\ k + 1 \in 0..(n - 1)
      OBVIOUS
    <3>2. \A j \in 1..((k + 1) + 1) : q[j] \in Seq(S)
      BY <2>2, <3>1
    <3>3. Flat(f[k + 1], k + 1, q, S) /\ (Apart(q, n) => Single(f[k + 1]))
      BY <2>6
    <3>4. f[(k + 1) + 1] = f[k + 1] \o q[(k + 1) + 1]
      BY <2>3, <3>1
    <3>5. /\ Flat(f[k + 1] \o q[(k + 1) + 1], (k + 1) + 1, q, S)
          /\ Single(f[k + 1]) /\ Apart(q, (k + 1) + 1) => Single(f[k + 1] \o q[(k + 1) + 1])
      BY <3>1, <3>2, <3>3, FlatGrows
    <3>6. Apart(q, n) => Apart(q, (k + 1) + 1)
      BY <2>4, <3>1
    <3>7. Flat(f[(k + 1) + 1], (k + 1) + 1, q, S) /\ (Apart(q, n) => Single(f[(k + 1) + 1]))
      BY <3>3, <3>4, <3>5, <3>6, Zenon
    <3> QED BY <3>1, <3>7
  <2>7. n - 1 \in Nat
    BY <1>3
  <2>8. 0..(n - 1) \subseteq Good
    <3> HIDE DEF Good
    <3> QED BY <2>5, <2>6, <2>7, StepByStep
  <2>9. n - 1 \in 0..(n - 1) /\ (n - 1) + 1 = n
    BY <1>3
  <2>10. Flat(f[(n - 1) + 1], (n - 1) + 1, q, S) /\ (Apart(q, n) => Single(f[(n - 1) + 1]))
    BY <2>8, <2>9
  <2> QED BY <2>1, <2>9, <2>10
<1> QED BY <1>2, <1>3

\* The replies to a status, oldest first, are all listed once.
LEMMA OldestFirstLists ==
    ASSUME NEW s \in SUBSET Entries
    PROVE  /\ OldestFirst(s) \in Seq(Entries)
           /\ \A i \in 1..Len(OldestFirst(s)) : OldestFirst(s)[i] \in s
           /\ \A i, j \in 1..Len(OldestFirst(s)) : OldestFirst(s)[i] = OldestFirst(s)[j] => i = j
<1> DEFINE UpTo(t) == {u \in s : u <= t}
           rank == [t \in s |-> Cardinality(UpTo(t))]
<1>a. s \subseteq Nat /\ IsFiniteSet(s)
  BY EntriesAreFinite, FS_Subset
<1>b. \A x \in s : x \in Nat
  BY <1>a
<1>1. PICK n \in Nat : n = Cardinality(s)
  BY <1>a, FS_CardinalityType
<1>2. \A t \in s : /\ UpTo(t) \in SUBSET s /\ IsFiniteSet(UpTo(t)) /\ Cardinality(UpTo(t)) \in Nat
                   /\ Cardinality(UpTo(t)) <= n /\ Cardinality(UpTo(t)) # 0
  <2> TAKE t \in s
  <2>1. UpTo(t) \in SUBSET s /\ t \in UpTo(t)
    BY <1>a
  <2> HIDE DEF UpTo
  <2>2. IsFiniteSet(UpTo(t)) /\ Cardinality(UpTo(t)) <= n
    BY <1>a, <1>1, <2>1, FS_Subset
  <2>3. Cardinality(UpTo(t)) \in Nat /\ Cardinality(UpTo(t)) # 0
    BY <2>1, <2>2, FS_CardinalityType, FS_EmptySet
  <2> QED BY <2>1, <2>2, <2>3
<1>3. ASSUME NEW t \in s, NEW u \in s, t < u
      PROVE  Cardinality(UpTo(t)) < Cardinality(UpTo(u))
  <2>1. UpTo(t) \in SUBSET UpTo(u)
    BY <1>b, <1>3
  <2>2. u \in UpTo(u) /\ u \notin UpTo(t)
    BY <1>b, <1>3
  <2> HIDE DEF UpTo
  <2>3. Cardinality(UpTo(t)) <= Cardinality(UpTo(u)) /\ Cardinality(UpTo(t)) # Cardinality(UpTo(u))
    BY <1>2, <2>1, <2>2, FS_Subset
  <2> QED BY <1>2, <2>3
<1>4. \A t \in s : rank[t] = Cardinality(UpTo(t)) /\ rank[t] \in 1..n
  BY <1>2
<1>5. rank \in Injection(s, 1..n)
  <2>1. rank \in [s -> 1..n]
    BY <1>4
  <2>2. \A t, u \in s : rank[t] = rank[u] => t = u
    <3> TAKE t, u \in s
    <3> HAVE rank[t] = rank[u]
    <3>1. ~ (t < u) /\ ~ (u < t)
      <4> HIDE DEF UpTo, rank
      <4> QED BY <1>2, <1>3, <1>4
    <3> QED BY <1>a, <3>1
  <2> HIDE DEF rank
  <2> QED BY <2>1, <2>2 DEF Injection, IsInjective
<1>6. IsFiniteSet(1..n) /\ Cardinality(1..n) = n
  BY FS_Interval
<1>7. rank \in Surjection(s, 1..n)
  <2> HIDE DEF rank
  <2> QED BY <1>a, <1>1, <1>5, <1>6, FS_Injection
<1>8. \A i \in 1..n : \E t \in s : Cardinality(UpTo(t)) = i
  <2>1. \A i \in 1..n : \E t \in s : rank[t] = i
    <3> HIDE DEF rank
    <3> QED BY <1>7 DEF Surjection
  <2> QED BY <1>4, <2>1
<1>9. \A i \in 1..n : OldestFirst(s)[i] \in s /\ Cardinality(UpTo(OldestFirst(s)[i])) = i
  BY <1>1, <1>8 DEF OldestFirst
<1>10. OldestFirst(s) \in [1..n -> s]
  BY <1>1, <1>9 DEF OldestFirst
<1> HIDE DEF UpTo, rank
<1>11. OldestFirst(s) \in Seq(Entries) /\ Len(OldestFirst(s)) = n
  BY <1>10
<1>12. \A i, j \in 1..n : OldestFirst(s)[i] = OldestFirst(s)[j] => i = j
  BY <1>9
<1> QED BY <1>9, <1>11, <1>12

\* One level of the answers: each answers one of the level above, and is there
\* once if those are.
LEMMA LevelFits ==
    ASSUME NEW w \in Entries, NEW v, NEW ws \in Seq(Entries)
    PROVE  /\ Level(ws, w, v) \in Seq(Entries)
           /\ \A i \in 1..Len(Level(ws, w, v)) : LET u == Level(ws, w, v)[i] IN
                 u # w /\ ItemVisible(u, v) /\ \E j \in 1..Len(ws) : Archive[u].parent = ws[j]
           /\ Single(ws) => Single(Level(ws, w, v))
<1> DEFINE ShownBelow(x) == {r \in Replies(x) : r # w /\ ItemVisible(r, v)}
<1>1. PICK n \in Nat : n = Len(ws) /\ DOMAIN ws = 1..n
  OBVIOUS
<1>2. \A j \in 1..n : ShownBelow(ws[j]) \in SUBSET Entries
  BY DEF Replies
<1>3. \A j \in 1..n : /\ OldestFirst(ShownBelow(ws[j])) \in Seq(Entries)
                      /\ \A k \in 1..Len(OldestFirst(ShownBelow(ws[j]))) : OldestFirst(ShownBelow(ws[j]))[k] \in ShownBelow(ws[j])
                      /\ \A k, l \in 1..Len(OldestFirst(ShownBelow(ws[j]))) :
                            OldestFirst(ShownBelow(ws[j]))[k] = OldestFirst(ShownBelow(ws[j]))[l] => k = l
  <2> HIDE DEF ShownBelow
  <2> QED BY <1>2, OldestFirstLists
<1>4. \A j \in 1..n : \A r \in ShownBelow(ws[j]) : r # w /\ ItemVisible(r, v) /\ Archive[r].parent = ws[j]
  BY DEF Replies
<1>5. PICK q : q = [j \in 1..n |-> OldestFirst(ShownBelow(ws[j]))]
  OBVIOUS
<1>6. Level(ws, w, v) = FlattenSeq(q)
  BY <1>1, <1>5, Zenon DEF Level
<1> HIDE DEF ShownBelow
<1>7. q \in [1..n -> Seq(Entries)] /\ \A j \in 1..n : q[j] = OldestFirst(ShownBelow(ws[j]))
  BY <1>3, <1>5
<1>8. PICK p : p = Level(ws, w, v)
  OBVIOUS
<1>9. Flat(p, n, q, Entries) /\ (Apart(q, n) => Single(p))
  BY <1>6, <1>7, <1>8, FlattenFits
<1>10. \A j \in 1..n : \A k \in 1..Len(q[j]) : q[j][k] # w /\ ItemVisible(q[j][k], v) /\ Archive[q[j][k]].parent = ws[j]
  BY <1>3, <1>4, <1>7
<1>11. ASSUME NEW i \in 1..Len(p)
       PROVE  p[i] # w /\ ItemVisible(p[i], v) /\ \E j \in 1..Len(ws) : Archive[p[i]].parent = ws[j]
  <2>1. PICK j \in 1..n : \E k \in 1..Len(q[j]) : p[i] = q[j][k]
    BY <1>9 DEF Flat
  <2>2. PICK k \in 1..Len(q[j]) : p[i] = q[j][k]
    BY <2>1
  <2> QED BY <1>1, <1>10, <2>2
<1>12. ASSUME Single(ws) PROVE Apart(q, n)
  <2> SUFFICES ASSUME NEW i \in 1..n, NEW j \in 1..n, NEW k \in 1..Len(q[i]), NEW l \in 1..Len(q[j]), q[i][k] = q[j][l]
               PROVE  i = j /\ k = l
    BY DEF Apart
  <2>1. ws[i] = ws[j]
    BY <1>10
  <2>2. i = j
    BY <1>1, <1>12, <2>1 DEF Single
  <2> QED BY <1>3, <1>7, <2>2
<1> QED BY <1>8, <1>9, <1>11, <1>12 DEF Flat

\* The function that the descendants are defined by.
IsLevels(f, n, w, v, depth) ==
    f = [k \in 0..n |-> IF k = 0 THEN <<w>> ELSE IF k > depth THEN <<>> ELSE Level(f[k - 1], w, v)]

\* The levels below a status exist, however many there are.
LEMMA LevelsAreDefined ==
    ASSUME NEW w, NEW v, NEW depth \in Nat, NEW n \in Nat
    PROVE  \E f : IsLevels(f, n, w, v, depth)
<1> DEFINE Good == {m \in Nat : \E f : IsLevels(f, m, w, v, depth)}
<1>1. 0 \in Good
  <2> DEFINE f == [k \in 0..0 |-> <<w>>]
  <2>1. f = [k \in 0..0 |-> IF k = 0 THEN <<w>> ELSE IF k > depth THEN <<>> ELSE Level(f[k - 1], w, v)]
    OBVIOUS
  <2> QED BY <2>1 DEF IsLevels
<1>2. ASSUME NEW m \in 0..(n - 1), m \in Good PROVE m + 1 \in Good
  <2>1. PICK f : IsLevels(f, m, w, v, depth)
    BY <1>2
  <2>a. PICK last : last = IF m + 1 > depth THEN <<>> ELSE Level(f[m], w, v)
    OBVIOUS
  <2> DEFINE g == [k \in 0..(m + 1) |-> IF k <= m THEN f[k] ELSE last]
  <2>2. \A k \in 0..(m + 1) : g[k] = IF k = 0 THEN <<w>> ELSE IF k > depth THEN <<>> ELSE Level(g[k - 1], w, v)
    <3> TAKE k \in 0..(m + 1)
    <3>1. CASE k <= m
      <4>0. k \in 0..m /\ g[k] = f[k]
        BY <3>1
      <4>1. f[k] = IF k = 0 THEN <<w>> ELSE IF k > depth THEN <<>> ELSE Level(f[k - 1], w, v)
        <5> HIDE DEF g
        <5> QED BY <2>1, <4>0 DEF IsLevels
      <4>2. k # 0 => k - 1 \in 0..(m + 1) /\ k - 1 <= m
        BY <3>1
      <4>3. k # 0 => g[k - 1] = f[k - 1]
        BY <4>2
      <4> HIDE DEF g
      <4> QED BY <4>0, <4>1, <4>3
    <3>2. CASE k = m + 1
      <4>1. g[k] = last
        BY <3>2
      <4>2. k # 0 /\ k - 1 = m /\ m \in 0..(m + 1)
        BY <3>2
      <4>3. g[k - 1] = f[m]
        BY <4>2
      <4> HIDE DEF g
      <4> QED BY <2>a, <3>2, <4>1, <4>2, <4>3
    <3> QED BY <3>1, <3>2
  <2>3. g = [k \in 0..(m + 1) |-> g[k]]
    OBVIOUS
  <2>4. g = [k \in 0..(m + 1) |-> IF k = 0 THEN <<w>> ELSE IF k > depth THEN <<>> ELSE Level(g[k - 1], w, v)]
    <3> HIDE DEF g
    <3> QED BY <2>2, <2>3
  <2> HIDE DEF g
  <2>5. IsLevels(g, m + 1, w, v, depth)
    BY <2>4, Zenon DEF IsLevels
  <2> QED BY <2>5
<1>3. 0..n \subseteq Good
  <2> HIDE DEF Good
  <2> QED BY <1>1, <1>2, StepByStep
<1> QED BY <1>3

\* A level below the first: visible answers to the level above, not the root.
AnswersOf(next, ws, w, v) ==
    \A i \in 1..Len(next) : next[i] # w /\ ItemVisible(next[i], v) /\ \E j \in 1..Len(ws) : Archive[next[i]].parent = ws[j]

\* Each level holds visible answers to the level above, each one once.
LEMMA LevelsFit ==
    ASSUME NEW w \in Entries, NEW v, NEW depth \in Nat, NEW n \in Nat, NEW f, IsLevels(f, n, w, v, depth)
    PROVE  /\ f[0] = <<w>>
           /\ \A k \in 0..n : f[k] \in Seq(Entries) /\ Single(f[k])
           /\ \A k \in 1..n : AnswersOf(f[k], f[k - 1], w, v)
<1>1. f[0] = <<w>>
  BY DEF IsLevels
<1>2. ASSUME NEW k \in 0..(n - 1)
      PROVE  f[k + 1] = <<>> \/ f[k + 1] = Level(f[k], w, v)
  <2>1. k + 1 \in 0..n /\ k + 1 # 0 /\ (k + 1) - 1 = k
    OBVIOUS
  <2>2. f[k + 1] = IF k + 1 > depth THEN <<>> ELSE Level(f[(k + 1) - 1], w, v)
    BY <2>1 DEF IsLevels
  <2> QED BY <2>1, <2>2
<1>3. ASSUME NEW ws, NEW next, ws \in Seq(Entries), Single(ws), next = <<>> \/ next = Level(ws, w, v)
      PROVE  next \in Seq(Entries) /\ Single(next) /\ AnswersOf(next, ws, w, v)
  <2>1. CASE next = <<>>
    BY <2>1 DEF Single, AnswersOf
  <2>2. CASE next = Level(ws, w, v)
    BY <1>3, <2>2, LevelFits DEF AnswersOf
  <2> QED BY <1>3, <2>1, <2>2
<1> DEFINE Good == {k \in 0..n : f[k] \in Seq(Entries) /\ Single(f[k])}
<1>4. 0 \in Good
  <2>1. <<w>> \in Seq(Entries) /\ Single(<<w>>) /\ 0 \in 0..n
    BY DEF Single
  <2>2. f[0] \in Seq(Entries) /\ Single(f[0])
    BY <1>1, <2>1
  <2> QED BY <2>1, <2>2
<1>5. ASSUME NEW k \in 0..(n - 1), k \in Good PROVE k + 1 \in Good
  <2>1. f[k] \in Seq(Entries) /\ Single(f[k]) /\ k + 1 \in 0..n
    BY <1>5
  <2>2. f[k + 1] \in Seq(Entries) /\ Single(f[k + 1])
    BY <1>2, <1>3, <2>1
  <2> QED BY <2>1, <2>2
<1>6. 0..n \subseteq Good
  <2> HIDE DEF Good
  <2> QED BY <1>4, <1>5, StepByStep
<1>7. \A k \in 0..n : f[k] \in Seq(Entries) /\ Single(f[k])
  BY <1>6
<1>8. ASSUME NEW k \in 1..n PROVE AnswersOf(f[k], f[k - 1], w, v)
  <2>1. k - 1 \in 0..(n - 1) /\ (k - 1) + 1 = k /\ k - 1 \in 0..n
    OBVIOUS
  <2>2. f[k] = <<>> \/ f[k] = Level(f[k - 1], w, v)
    BY <1>2, <2>1
  <2> QED BY <1>3, <1>7, <2>1, <2>2
<1> QED BY <1>1, <1>7, <1>8

\* No two of the levels share a status.
NoneShared(f, n) ==
    \A k, m \in 0..n : \A i \in 1..Len(f[k]), j \in 1..Len(f[m]) : f[k][i] = f[m][j] => k = m

\* No status is on two levels: its parent would be, up to the root, which is only
\* on the first.
LEMMA LevelsAreApart ==
    ASSUME NEW w \in Entries, NEW v, NEW depth \in Nat, NEW n \in Nat, NEW f, IsLevels(f, n, w, v, depth)
    PROVE  NoneShared(f, n)
<1> DEFINE Shared == {k \in Nat : \E m \in 0..n : /\ k < m
                                                  /\ \E i \in 1..Len(f[k]), j \in 1..Len(f[m]) : f[k][i] = f[m][j]}
<1>0. f[0] = <<w>> /\ \A k \in 1..n : AnswersOf(f[k], f[k - 1], w, v)
  BY LevelsFit
<1>1. ASSUME Shared # {} PROVE FALSE
  <2>1. Shared \in SUBSET Nat
    OBVIOUS
  <2>2. PICK k \in Shared : \A x \in Shared : k <= x
    <3> HIDE DEF Shared
    <3> QED BY <1>1, <2>1, LeastIsThere
  <2>3. PICK m \in 0..n : k < m /\ \E i \in 1..Len(f[k]), j \in 1..Len(f[m]) : f[k][i] = f[m][j]
    BY <2>2
  <2>4. PICK i \in 1..Len(f[k]), j \in 1..Len(f[m]) : f[k][i] = f[m][j]
    BY <2>3
  <2>5. k \in Nat /\ m \in 1..n /\ m - 1 \in 0..n
    BY <2>2, <2>3
  <2>6. f[m][j] # w /\ \E b \in 1..Len(f[m - 1]) : Archive[f[m][j]].parent = f[m - 1][b]
    <3>1. AnswersOf(f[m], f[m - 1], w, v)
      BY <1>0, <2>5
    <3> HIDE DEF Shared
    <3> QED BY <2>4, <3>1 DEF AnswersOf
  <2>7. CASE k = 0
    <3>1. f[k] = <<w>>
      BY <1>0, <2>7
    <3>2. Len(<<w>>) = 1 /\ <<w>>[1] = w
      OBVIOUS
    <3>3. f[k][i] = w
      <4>1. i = 1
        BY <2>4, <3>1, <3>2
      <4> QED BY <3>1, <3>2, <4>1
    <3> QED BY <2>4, <2>6, <3>3
  <2>8. CASE k # 0
    <3>1. k \in 1..n /\ k - 1 \in Nat /\ k - 1 < m - 1 /\ ~ (k <= k - 1)
      <4> HIDE DEF Shared
      <4> QED BY <2>3, <2>5, <2>8
    <3>2. \E a \in 1..Len(f[k - 1]) : Archive[f[k][i]].parent = f[k - 1][a]
      <4>1. AnswersOf(f[k], f[k - 1], w, v)
        BY <1>0, <3>1
      <4> HIDE DEF Shared
      <4> QED BY <2>4, <4>1 DEF AnswersOf
    <3>3. k - 1 \in Shared
      BY <2>4, <2>5, <2>6, <3>1, <3>2
    <3> HIDE DEF Shared
    <3> QED BY <2>2, <3>1, <3>3
  <2> QED BY <2>7, <2>8
<1>2. ASSUME NEW k \in 0..n, NEW m \in 0..n, NEW i \in 1..Len(f[k]), NEW j \in 1..Len(f[m]), f[k][i] = f[m][j], k # m
      PROVE  FALSE
  <2>1. CASE k < m
    <3>1. k \in Shared
      BY <1>2, <2>1
    <3> QED BY <1>1, <3>1
  <2>2. CASE m < k
    <3>1. m \in Shared
      BY <1>2, <2>2
    <3> QED BY <1>1, <3>1
  <2> QED BY <1>2, <2>1, <2>2
<1> QED BY <1>2 DEF NoneShared

\* What the context shows below a status.
LEMMA DescendantsFit ==
    ASSUME NEW w \in Entries, NEW v
    PROVE  LET d == Descendants(w, v) IN
           /\ d \in Seq(Entries) /\ Single(d)
           /\ \A i \in 1..Len(d) : /\ d[i] # w /\ ItemVisible(d[i], v)
                                   /\ Archive[d[i]].parent = w \/ \E j \in 1..(i - 1) : d[j] = Archive[d[i]].parent
<1>1. PICK n \in Nat, depth \in Nat, most \in Nat :
         n = Len(Archive) /\ depth = LimitsFor(v).depth /\ most = LimitsFor(v).descendants
  BY ArchiveTyped, LimitsTyped
<1>2. PICK f, all : /\ IsLevels(f, n, w, v, depth) /\ all = FlattenSeq([k \in 1..n |-> f[k]])
                    /\ Descendants(w, v) = SubSeq(all, 1, IF Len(all) < most THEN Len(all) ELSE most)
  <2> DEFINE level == CHOOSE f : IsLevels(f, Len(Archive), w, v, LimitsFor(v).depth)
             every == FlattenSeq([k \in 1..Len(Archive) |-> level[k]])
             limit == LimitsFor(v).descendants
  <2>1. \E f : IsLevels(f, Len(Archive), w, v, LimitsFor(v).depth)
    BY <1>1, LevelsAreDefined
  <2>2. IsLevels(level, Len(Archive), w, v, LimitsFor(v).depth)
    BY <2>1, Zenon
  <2>3. Descendants(w, v) = SubSeq(every, 1, IF Len(every) < limit THEN Len(every) ELSE limit)
    BY Zenon DEF Descendants, IsLevels
  <2>4. every = FlattenSeq([k \in 1..n |-> level[k]])
    BY <1>1, Zenon
  <2> HIDE DEF level, every
  <2> QED BY <1>1, <2>2, <2>3, <2>4, Zenon
<1>3. PICK q : q = [k \in 1..n |-> f[k]]
  OBVIOUS
<1>4. /\ f[0] = <<w>> /\ \A k \in 0..n : f[k] \in Seq(Entries) /\ Single(f[k])
      /\ \A k \in 1..n : AnswersOf(f[k], f[k - 1], w, v)
  BY <1>1, <1>2, LevelsFit
<1>5. q \in [1..n -> Seq(Entries)] /\ \A k \in 1..n : q[k] = f[k]
  BY <1>3, <1>4
<1>6. Apart(q, n)
  <2> SUFFICES ASSUME NEW k \in 1..n, NEW m \in 1..n, NEW i \in 1..Len(q[k]), NEW j \in 1..Len(q[m]), q[k][i] = q[m][j]
               PROVE  k = m /\ i = j
    BY DEF Apart
  <2>1. k \in 0..n /\ m \in 0..n /\ q[k] = f[k] /\ q[m] = f[m]
    BY <1>5
  <2>2. k = m
    <3>1. IsLevels(f, n, w, v, depth)
      BY <1>2
    <3>2. \A a, b \in 0..n : \A x \in 1..Len(f[a]), y \in 1..Len(f[b]) : f[a][x] = f[b][y] => a = b
      <4>1. n \in Nat /\ depth \in Nat
        BY <1>1
      <4>2. NoneShared(f, n)
        BY <3>1, <4>1, LevelsAreApart
      <4> QED BY <4>2, Zenon DEF NoneShared
    <3> QED BY <2>1, <3>2
  <2> QED BY <1>4, <2>1, <2>2 DEF Single
<1>7. Flat(all, n, q, Entries) /\ Single(all)
  <2>1. all = FlattenSeq(q)
    BY <1>2, <1>3, Zenon
  <2> QED BY <1>1, <1>5, <1>6, <2>1, FlattenFits
<1>8. all \in Seq(Entries) /\ Len(all) \in Nat
  BY <1>7 DEF Flat
<1>9. ASSUME NEW i \in 1..Len(all)
      PROVE  /\ all[i] # w /\ ItemVisible(all[i], v)
             /\ Archive[all[i]].parent = w \/ \E j \in 1..(i - 1) : all[j] = Archive[all[i]].parent
  <2>1. PICK j \in 1..n : \E k \in 1..Len(q[j]) :
           /\ all[i] = q[j][k]
           /\ \A h \in 1..(j - 1) : \A l \in 1..Len(q[h]) : \E m \in 1..(i - 1) : all[m] = q[h][l]
    BY <1>7 DEF Flat
  <2>2. PICK k \in 1..Len(q[j]) :
           /\ all[i] = q[j][k]
           /\ \A h \in 1..(j - 1) : \A l \in 1..Len(q[h]) : \E m \in 1..(i - 1) : all[m] = q[h][l]
    BY <2>1
  <2>3. AnswersOf(f[j], f[j - 1], w, v) /\ q[j] = f[j] /\ k \in 1..Len(f[j])
    BY <1>4, <1>5
  <2>4. all[i] # w /\ ItemVisible(all[i], v) /\ \E b \in 1..Len(f[j - 1]) : Archive[all[i]].parent = f[j - 1][b]
    BY <2>2, <2>3 DEF AnswersOf
  <2>5. PICK b \in 1..Len(f[j - 1]) : Archive[all[i]].parent = f[j - 1][b]
    BY <2>4
  <2>6. CASE j = 1
    <3>1. f[j - 1] = <<w>>
      BY <1>4, <2>6
    <3>2. Len(<<w>>) = 1 /\ <<w>>[1] = w
      OBVIOUS
    <3>3. b = 1
      BY <2>5, <3>1, <3>2
    <3> QED BY <2>4, <2>5, <3>1, <3>2, <3>3
  <2>7. CASE j # 1
    <3>1. j - 1 \in 1..(j - 1) /\ j - 1 \in 1..n
      BY <2>7
    <3>2. q[j - 1] = f[j - 1]
      BY <1>5, <3>1
    <3>3. \E m \in 1..(i - 1) : all[m] = q[j - 1][b]
      BY <2>2, <2>5, <3>1, <3>2
    <3> QED BY <2>4, <2>5, <3>2, <3>3
  <2> QED BY <2>6, <2>7
<1>10. PICK t \in Nat : t <= Len(all) /\ t = IF Len(all) < most THEN Len(all) ELSE most
  BY <1>1, <1>8
<1>11. PICK d : d = Descendants(w, v)
  OBVIOUS
<1>12. d = SubSeq(all, 1, t)
  BY <1>2, <1>10, <1>11
<1>13. d \in Seq(Entries) /\ Len(d) = t
  BY <1>8, <1>10, <1>12
<1>14. \A i \in 1..t : d[i] = all[i]
  BY <1>8, <1>10, <1>12
<1>15. \A i \in 1..t : i \in 1..Len(all) /\ \A j \in 1..(i - 1) : j \in 1..t
  BY <1>8, <1>10
<1>16. Single(d)
  BY <1>7, <1>13, <1>14, <1>15 DEF Single
<1>17. \A i \in 1..Len(d) : /\ d[i] # w /\ ItemVisible(d[i], v)
                            /\ Archive[d[i]].parent = w \/ \E j \in 1..(i - 1) : d[j] = Archive[d[i]].parent
  BY <1>9, <1>13, <1>14, <1>15
<1> QED BY <1>11, <1>13, <1>16, <1>17

\* A thread: the ancestors, the status and the descendants.
LEMMA ThreadIs ==
    ASSUME NEW a \in Seq(Entries), NEW w \in Entries, NEW d \in Seq(Entries)
    PROVE  LET t == a \o <<w>> \o d IN
           /\ t \in Seq(Entries) /\ Len(t) = Len(a) + 1 + Len(d) /\ Len(a) \in Nat /\ Len(d) \in Nat
           /\ \A i \in 1..Len(a) : t[i] = a[i]
           /\ t[Len(a) + 1] = w
           /\ \A i \in 1..Len(d) : t[Len(a) + 1 + i] = d[i]
           /\ \A i \in 1..Len(t) : i \in 1..Len(a) \/ i = Len(a) + 1 \/ \E k \in 1..Len(d) : i = Len(a) + 1 + k
<1>1. <<w>> \in Seq(Entries) /\ Len(<<w>>) = 1 /\ <<w>>[1] = w
  OBVIOUS
<1>2. PICK b : b = a \o <<w>>
  OBVIOUS
<1>3. /\ b \in Seq(Entries) /\ Len(b) = Len(a) + 1 /\ Len(a) \in Nat /\ \A i \in 1..Len(a) : b[i] = a[i]
      /\ \A i \in 1..1 : b[Len(a) + i] = <<w>>[i]
  <2>1. Joined(b, a, <<w>>, Entries)
    BY <1>1, <1>2, Concatenated
  <2> QED BY <1>1, <2>1 DEF Joined
<1>4. b[Len(a) + 1] = w
  BY <1>1, <1>3
<1>5. PICK t : t = b \o d
  OBVIOUS
<1>6. /\ t \in Seq(Entries) /\ Len(t) = Len(b) + Len(d) /\ Len(d) \in Nat
      /\ \A i \in 1..Len(b) : t[i] = b[i]
      /\ \A i \in 1..Len(d) : t[Len(b) + i] = d[i]
      /\ \A i \in 1..Len(t) : i \in 1..Len(b) \/ \E k \in 1..Len(d) : i = Len(b) + k
  <2>1. b \in Seq(Entries)
    BY <1>3
  <2>2. Joined(t, b, d, Entries)
    BY <1>5, <2>1, Concatenated
  <2> QED BY <2>2 DEF Joined
<1>7. \A i \in 1..Len(a) : t[i] = a[i]
  BY <1>3, <1>6
<1>8. t[Len(a) + 1] = w
  BY <1>3, <1>4, <1>6
<1>9. \A i \in 1..Len(t) : i \in 1..Len(a) \/ i = Len(a) + 1 \/ \E k \in 1..Len(d) : i = Len(a) + 1 + k
  <2>1. \A i \in 1..Len(b) : i \in 1..Len(a) \/ i = Len(a) + 1
    BY <1>3
  <2> QED BY <1>3, <1>6, <2>1
<1> QED BY <1>2, <1>3, <1>5, <1>6, <1>7, <1>8, <1>9

\* The elements of a sequence by their places.
LEMMA RangeOf ==
    ASSUME NEW S, NEW q \in Seq(S)
    PROVE  Range(q) = {q[i] : i \in 1..Len(q)} /\ Range(q) \in SUBSET S /\ DOMAIN q = 1..Len(q)
BY DEF Range

\* What a thread holds: visible statuses, each but the first an answer to another,
\* and the same as the context of the API and the status itself.
LEMMA ThreadsFit ==
    ASSUME NEW w \in Entries, NEW v
    PROVE  LET t == Thread(w, v) IN
           /\ t \in Seq(Entries) /\ \A u \in Range(t) : ItemVisible(u, v)
           /\ t # <<>> => w \in Range(t) /\ Range(t) = Range(StatusContext(w, v)) \cup {w}
           /\ \A i \in 2..Len(t) : Archive[t[i]].parent \in Range(t)
           /\ Single(t) \/ Endless(w)
<1>1. CASE ~ ItemVisible(w, v)
  <2>1. Thread(w, v) = <<>>
    BY <1>1 DEF Thread
  <2>2. <<>> \in Seq(Entries) /\ Len(<<>>) = 0 /\ Range(<<>>) = {}
    BY DEF Range
  <2>3. Single(<<>>)
    BY <2>2 DEF Single
  <2>4. \A i \in 2..Len(<<>>) : FALSE
    BY <2>2
  <2> QED BY <2>1, <2>2, <2>3, <2>4
<1>2. CASE ItemVisible(w, v)
  <2>1. PICK a : a = Ancestors(w, v)
    OBVIOUS
  <2>2. PICK d : d = Descendants(w, v)
    OBVIOUS
  <2>3. PICK t : t = a \o <<w>> \o d /\ t = Thread(w, v)
    BY <1>2, <2>1, <2>2 DEF Thread
  <2>4. /\ a \in Seq(Entries) /\ \A i \in 1..Len(a) : ItemVisible(a[i], v)
        /\ \A i, j \in 1..Len(a) : a[i] = a[j] => i = j
        /\ \A i \in 1..(Len(a) - 1) : Archive[a[i + 1]].parent = a[i]
        /\ Len(a) # 0 => Archive[w].parent = a[Len(a)]
    BY <2>1, AncestorsFit
  <2>5. /\ d \in Seq(Entries) /\ Single(d)
        /\ \A i \in 1..Len(d) : /\ d[i] # w /\ ItemVisible(d[i], v)
                                /\ Archive[d[i]].parent = w \/ \E j \in 1..(i - 1) : d[j] = Archive[d[i]].parent
    BY <2>2, DescendantsFit
  <2>6. /\ t \in Seq(Entries) /\ Len(t) = Len(a) + 1 + Len(d) /\ Len(a) \in Nat /\ Len(d) \in Nat
        /\ \A i \in 1..Len(a) : t[i] = a[i]
        /\ t[Len(a) + 1] = w
        /\ \A i \in 1..Len(d) : t[Len(a) + 1 + i] = d[i]
        /\ \A i \in 1..Len(t) : i \in 1..Len(a) \/ i = Len(a) + 1 \/ \E k \in 1..Len(d) : i = Len(a) + 1 + k
    BY <2>3, <2>4, <2>5, ThreadIs
  <2>7. \A i \in 1..Len(t) : ItemVisible(t[i], v)
    BY <1>2, <2>4, <2>5, <2>6
  <2>8. Range(t) = {t[i] : i \in 1..Len(t)} /\ Range(a) = {a[i] : i \in 1..Len(a)} /\ Range(d) = {d[i] : i \in 1..Len(d)}
    BY <2>4, <2>5, <2>6, RangeOf
  <2>9. \A u \in Range(t) : ItemVisible(u, v)
    BY <2>7, <2>8
  <2>10. Range(t) = Range(a) \cup {w} \cup Range(d)
    <3>1. \A i \in 1..Len(a) : i \in 1..Len(t)
      BY <2>6
    <3>2. Len(a) + 1 \in 1..Len(t) /\ \A i \in 1..Len(d) : Len(a) + 1 + i \in 1..Len(t)
      BY <2>6
    <3>3. ASSUME NEW i \in 1..Len(t) PROVE t[i] \in Range(a) \cup {w} \cup Range(d)
      <4>1. CASE i \in 1..Len(a)
        BY <2>6, <2>8, <4>1
      <4>2. CASE i = Len(a) + 1
        BY <2>6, <4>2
      <4>3. CASE \E k \in 1..Len(d) : i = Len(a) + 1 + k
        BY <2>6, <2>8, <4>3
      <4> QED BY <2>6, <4>1, <4>2, <4>3
    <3>4. \A i \in 1..Len(a) : a[i] \in Range(t)
      BY <2>6, <2>8, <3>1
    <3>5. w \in Range(t)
      BY <2>6, <2>8, <3>2
    <3>6. \A i \in 1..Len(d) : d[i] \in Range(t)
      BY <2>6, <2>8, <3>2
    <3> QED BY <2>8, <3>3, <3>4, <3>5, <3>6
  <2>11. Range(StatusContext(w, v)) = Range(a) \cup Range(d)
    <3>1. PICK c : c = a \o d /\ c = StatusContext(w, v)
      BY <2>1, <2>2 DEF StatusContext
    <3>2. /\ c \in Seq(Entries) /\ Len(c) = Len(a) + Len(d)
          /\ \A i \in 1..Len(a) : c[i] = a[i]
          /\ \A i \in 1..Len(d) : c[Len(a) + i] = d[i]
          /\ \A i \in 1..Len(c) : i \in 1..Len(a) \/ \E k \in 1..Len(d) : i = Len(a) + k
      <4>1. a \in Seq(Entries) /\ d \in Seq(Entries) /\ c = a \o d
        BY <2>4, <2>5, <3>1
      <4>2. Joined(c, a, d, Entries)
        BY <4>1, Concatenated
      <4> QED BY <4>2 DEF Joined
    <3>3. Range(c) = {c[i] : i \in 1..Len(c)}
      BY <3>2, RangeOf
    <3>4. ASSUME NEW i \in 1..Len(c) PROVE c[i] \in Range(a) \cup Range(d)
      <4>1. CASE i \in 1..Len(a)
        BY <2>8, <3>2, <4>1
      <4>2. CASE \E k \in 1..Len(d) : i = Len(a) + k
        BY <2>8, <3>2, <4>2
      <4> QED BY <3>2, <4>1, <4>2
    <3>5. \A i \in 1..Len(a) : a[i] \in Range(c)
      BY <2>6, <3>2, <3>3
    <3>6. \A i \in 1..Len(d) : d[i] \in Range(c)
      <4>1. \A i \in 1..Len(d) : Len(a) + i \in 1..Len(c)
        BY <2>6, <3>2
      <4> QED BY <3>2, <3>3, <4>1
    <3> QED BY <2>8, <3>1, <3>3, <3>4, <3>5, <3>6
  <2>12. ASSUME NEW i \in 2..Len(t) PROVE Archive[t[i]].parent \in Range(t)
    <3>1. CASE i \in 1..Len(a)
      <4>1. i - 1 \in 1..(Len(a) - 1) /\ (i - 1) + 1 = i /\ i - 1 \in 1..Len(a)
        BY <2>6, <3>1
      <4>2. Archive[a[i]].parent = a[i - 1] /\ t[i] = a[i]
        BY <2>4, <2>6, <3>1, <4>1
      <4> QED BY <2>8, <2>10, <4>1, <4>2
    <3>2. CASE i = Len(a) + 1
      <4>1. Len(a) # 0 /\ Len(a) \in 1..Len(a)
        BY <2>6, <3>2
      <4>2. Archive[t[i]].parent = a[Len(a)]
        BY <2>4, <2>6, <3>2, <4>1
      <4> QED BY <2>8, <2>10, <4>1, <4>2
    <3>3. CASE \E k \in 1..Len(d) : i = Len(a) + 1 + k
      <4>1. PICK k \in 1..Len(d) : i = Len(a) + 1 + k
        BY <3>3
      <4>2. t[i] = d[k]
        BY <2>6, <4>1
      <4>3. Archive[d[k]].parent = w \/ \E j \in 1..(k - 1) : d[j] = Archive[d[k]].parent
        BY <2>5
      <4>4. \A j \in 1..(k - 1) : j \in 1..Len(d)
        BY <2>6
      <4> QED BY <2>8, <2>10, <4>2, <4>3, <4>4
    <3>4. i \in 1..Len(t)
      OBVIOUS
    <3> QED BY <2>6, <3>1, <3>2, <3>3, <3>4
  <2>13. ASSUME ~ Single(t) PROVE Endless(w)
    <3>1. PICK n \in 1..Len(a) : a[n] = w \/ \E k \in 1..Len(d) : a[n] = d[k]
      <4>1. PICK i \in 1..Len(t), j \in 1..Len(t) : t[i] = t[j] /\ i # j
        BY <2>13 DEF Single
      <4>2. ~ (i \in 1..Len(a) /\ j \in 1..Len(a))
        BY <2>4, <2>6, <4>1
      <4>3. ~ (i = Len(a) + 1 /\ \E k \in 1..Len(d) : j = Len(a) + 1 + k)
        BY <2>5, <2>6, <4>1
      <4>4. ~ (j = Len(a) + 1 /\ \E k \in 1..Len(d) : i = Len(a) + 1 + k)
        BY <2>5, <2>6, <4>1
      <4>5. ~ ((\E k \in 1..Len(d) : i = Len(a) + 1 + k) /\ \E k \in 1..Len(d) : j = Len(a) + 1 + k)
        BY <2>5, <2>6, <4>1 DEF Single
      <4>6. CASE i \in 1..Len(a)
        <5>1. t[i] = a[i] /\ j \notin 1..Len(a)
          BY <2>6, <4>2, <4>6
        <5>2. CASE j = Len(a) + 1
          BY <2>6, <4>1, <4>6, <5>1, <5>2
        <5>3. CASE \E k \in 1..Len(d) : j = Len(a) + 1 + k
          <6>1. PICK k \in 1..Len(d) : j = Len(a) + 1 + k
            BY <5>3
          <6>2. t[j] = d[k]
            BY <2>6, <6>1
          <6> QED BY <4>1, <4>6, <5>1, <6>2
        <5> QED BY <2>6, <5>1, <5>2, <5>3
      <4>7. CASE j \in 1..Len(a)
        <5>1. t[j] = a[j] /\ i \notin 1..Len(a)
          BY <2>6, <4>2, <4>7
        <5>2. CASE i = Len(a) + 1
          BY <2>6, <4>1, <4>7, <5>1, <5>2
        <5>3. CASE \E k \in 1..Len(d) : i = Len(a) + 1 + k
          <6>1. PICK k \in 1..Len(d) : i = Len(a) + 1 + k
            BY <5>3
          <6>2. t[i] = d[k]
            BY <2>6, <6>1
          <6> QED BY <4>1, <4>7, <5>1, <6>2
        <5> QED BY <2>6, <5>1, <5>2, <5>3
      <4> QED BY <2>6, <4>1, <4>3, <4>4, <4>5, <4>6, <4>7
    <3> DEFINE ws == {a[i] : i \in n..Len(a)} \cup {w} \cup Range(d)
    <3>2. ws \in SUBSET Entries /\ w \in ws
      <4>1. \A i \in n..Len(a) : i \in 1..Len(a)
        BY <2>6
      <4>2. Range(d) \in SUBSET Entries
        BY <2>5, RangeOf
      <4> QED BY <2>4, <4>1, <4>2
    <3>3. Archive[w].parent \in ws
      <4>1. Len(a) \in n..Len(a) /\ Len(a) # 0
        BY <2>6, <3>1
      <4> QED BY <2>4, <4>1
    <3>4. \A k \in 1..Len(d) : Archive[d[k]].parent \in ws
      <4> TAKE k \in 1..Len(d)
      <4>1. \A j \in 1..(k - 1) : j \in 1..Len(d)
        BY <2>6
      <4> QED BY <2>5, <2>8, <4>1
    <3>5. \A i \in n..Len(a) : Archive[a[i]].parent \in ws
      <4> TAKE i \in n..Len(a)
      <4>1. CASE i = n
        BY <3>1, <3>3, <3>4, <4>1
      <4>2. CASE i # n
        <5>1. i - 1 \in 1..(Len(a) - 1) /\ (i - 1) + 1 = i /\ i - 1 \in n..Len(a)
          BY <2>6, <4>2
        <5>2. Archive[a[i]].parent = a[i - 1]
          BY <2>4, <5>1
        <5> QED BY <5>1, <5>2
      <4> QED BY <4>1, <4>2
    <3>6. \A u \in ws : Archive[u].parent \in ws
      BY <2>8, <3>3, <3>4, <3>5
    <3> HIDE DEF ws
    <3> QED BY <3>2, <3>6 DEF Endless
  <2> QED BY <2>3, <2>6, <2>9, <2>10, <2>11, <2>12, <2>13
<1> QED BY <1>1, <1>2

\* Threads hang together in every state.
LEMMA ThreadsAlwaysHang ==
    ASSUME PagesInv
    PROVE  ThreadsHangTogether
<1> SUFFICES ASSUME NEW v \in Readers, NEW w \in Entries, NEW t, t = Thread(w, v)
             PROVE  /\ IsInjective(t) \/ Endless(w)
                    /\ IsInjective(Ancestors(w, v)) /\ IsInjective(<<w>> \o Descendants(w, v))
                    /\ \A i \in 2..Len(t) : Archive[t[i]].parent \in Range(t)
                    /\ Cardinality({u \in Range(t) : Archive[u].parent = w}) <= RepliesCount(w)
  BY Zenon DEF ThreadsHangTogether
<1>1. /\ t \in Seq(Entries) /\ \A u \in Range(t) : ItemVisible(u, v)
      /\ \A i \in 2..Len(t) : Archive[t[i]].parent \in Range(t)
      /\ Single(t) \/ Endless(w)
  BY ThreadsFit
<1>2. \A q \in Seq(Entries) : Single(q) => IsInjective(q)
  BY DEF Single, IsInjective
<1>3. IsInjective(Ancestors(w, v))
  <2>1. Ancestors(w, v) \in Seq(Entries) /\ Single(Ancestors(w, v))
    BY AncestorsFit DEF Single
  <2> QED BY <1>2, <2>1
<1>4. IsInjective(<<w>> \o Descendants(w, v))
  <2>1. PICK d : d = Descendants(w, v)
    OBVIOUS
  <2>2. d \in Seq(Entries) /\ Single(d) /\ \A i \in 1..Len(d) : d[i] # w
    BY <2>1, DescendantsFit
  <2>3. <<w>> \in Seq(Entries) /\ Len(<<w>>) = 1 /\ <<w>>[1] = w
    OBVIOUS
  <2>4. PICK q : q = <<w>> \o d
    OBVIOUS
  <2>5. /\ q \in Seq(Entries) /\ Len(q) = 1 + Len(d) /\ Len(d) \in Nat /\ q[1] = w
        /\ \A i \in 1..Len(d) : q[1 + i] = d[i]
        /\ \A i \in 1..Len(q) : i = 1 \/ \E k \in 1..Len(d) : i = 1 + k
    <3>1. /\ q \in Seq(Entries) /\ Len(q) = 1 + Len(d) /\ Len(d) \in Nat
          /\ \A i \in 1..1 : q[i] = <<w>>[i]
          /\ \A i \in 1..Len(d) : q[1 + i] = d[i]
          /\ \A i \in 1..Len(q) : i \in 1..1 \/ \E k \in 1..Len(d) : i = 1 + k
      <4>1. <<w>> \in Seq(Entries) /\ d \in Seq(Entries)
        BY <2>2, <2>3
      <4>2. Joined(q, <<w>>, d, Entries)
        BY <2>4, <4>1, Concatenated
      <4> QED BY <2>3, <4>2 DEF Joined
    <3> QED BY <2>3, <3>1
  <2>6. ASSUME NEW i \in 1..Len(q), NEW j \in 1..Len(q), q[i] = q[j] PROVE i = j
    <3>1. CASE i = 1 \/ j = 1
      BY <2>2, <2>5, <2>6, <3>1
    <3>2. CASE i # 1 /\ j # 1
      <4>1. PICK k \in 1..Len(d) : i = 1 + k
        BY <2>5, <3>2
      <4>2. PICK l \in 1..Len(d) : j = 1 + l
        BY <2>5, <3>2
      <4>3. d[k] = d[l]
        BY <2>5, <2>6, <4>1, <4>2
      <4>4. k = l
        BY <2>2, <4>3 DEF Single
      <4> QED BY <4>1, <4>2, <4>4
    <3> QED BY <3>1, <3>2
  <2>7. Single(q)
    BY <2>6 DEF Single
  <2> QED BY <1>2, <2>1, <2>4, <2>5, <2>7
<1>5. Cardinality({u \in Range(t) : Archive[u].parent = w}) <= RepliesCount(w)
  <2> DEFINE all == {r \in Entries \ removed : Archive[r].parent = w}
             some == {u \in Range(t) : Archive[u].parent = w}
  <2>1. Range(t) \in SUBSET Entries
    BY <1>1, RangeOf
  <2>2. some \in SUBSET all
    BY <1>1, <2>1 DEF ItemVisible
  <2>3. all \in SUBSET Entries
    OBVIOUS
  <2>4. RepliesCount(w) = Cardinality(all)
    BY DEF RepliesCount
  <2> HIDE DEF all, some
  <2>5. IsFiniteSet(all)
    BY <2>3, EntriesAreFinite, FS_Subset
  <2>6. Cardinality(some) <= Cardinality(all)
    BY <2>2, <2>5, FS_Subset
  <2> QED BY <2>4, <2>6 DEF some
<1> QED BY <1>1, <1>2, <1>3, <1>4, <1>5

\* The web pages show what the API shows, and the sitemap what the web pages show.
LEMMA PagesAlwaysShow ==
    ASSUME PagesInv
    PROVE  PagesShowWhatTheApiShows
<1>1. Anonymous \notin shut /\ Anonymous \in Readers
  BY PagesAssumption DEF PagesInv, PagesTypeOK, Readers
<1>2. ASSUME NEW c \in Readers, NEW p \in Residents, NEW w \in Entries, NEW page, page = Range(ThreadPage(p, w, c)), page # {}
      PROVE  LET v == UiViewer(c) IN
             /\ \A u \in page : LET shown == UiContextStatus(u, v) IN shown # {} /\ \A s \in shown : ShowStatus(s, v)
             /\ page = Range(StatusContext(w, v)) \cup {w}
  <2>1. PICK v : v = UiViewer(c) /\ v \notin shut
    BY <1>1 DEF UiViewer
  <2>2. Range(<<>>) = {}
    BY DEF Range
  <2>3. ThreadPage(p, w, c) = Thread(w, v) /\ Thread(w, v) # <<>>
    BY <1>2, <2>1, <2>2 DEF ThreadPage
  <2>4. /\ page \in SUBSET Entries /\ \A u \in page : ItemVisible(u, v)
        /\ page = Range(StatusContext(w, v)) \cup {w}
    BY <1>2, <2>3, ThreadsFit, RangeOf
  <2>5. ASSUME NEW u \in page
        PROVE  UiContextStatus(u, v) # {} /\ \A s \in UiContextStatus(u, v) : ShowStatus(s, v)
    <3>1. ItemVisible(u, v) /\ Archive[u].author \notin shut
      BY <2>4 DEF ItemVisible
    <3>2. UiContextStatus(u, v) = {u} \cup UiQuote(u, v)
      BY <3>1 DEF UiContextStatus, UiLocalStatus, UiRemoteStatus
    <3>3. \A s \in UiQuote(u, v) : ItemVisible(s, v)
      BY DEF UiQuote
    <3> QED BY <2>1, <3>1, <3>2, <3>3 DEF ShowStatus
  <2> QED BY <2>1, <2>4, <2>5
<1>3. \A w \in Promoted : ~ NoIndex(w) /\ ThreadPage(Archive[w].author, w, Anonymous) # <<>>
  <2> TAKE w \in Promoted
  <2>1. w \in Entries /\ w \notin removed /\ Local(w) /\ IsOpen(w) /\ Archive[w].author \notin shut /\ Archive[w].author \notin dimmed
    BY DEF Promoted, IsOpen
  <2>2. UiViewer(Anonymous) = Anonymous /\ ActiveProfile(Archive[w].author)
    BY <1>1, <2>1 DEF UiViewer, ActiveProfile, Local
  <2>3. ThreadPage(Archive[w].author, w, Anonymous) = Thread(w, Anonymous)
    BY <2>1, <2>2 DEF ThreadPage
  <2>4. ItemVisible(w, Anonymous)
    BY <2>1 DEF ItemVisible, Readable
  <2>5. PICK a, d : a = Ancestors(w, Anonymous) /\ d = Descendants(w, Anonymous) /\ a \in Seq(Entries) /\ d \in Seq(Entries)
    BY <2>1, AncestorsFit, DescendantsFit
  <2>6. Thread(w, Anonymous) = a \o <<w>> \o d
    BY <2>4, <2>5 DEF Thread
  <2>7. Len(a \o <<w>> \o d) = Len(a) + 1 + Len(d) /\ Len(a) \in Nat /\ Len(d) \in Nat
    BY <2>1, <2>5, ThreadIs
  <2>8. Len(<<>>) = 0
    OBVIOUS
  <2>9. a \o <<w>> \o d # <<>>
    BY <2>7, <2>8
  <2> QED BY <2>1, <2>3, <2>6, <2>9 DEF NoIndex
<1> QED BY <1>2, <1>3, ProfilesAreOpen, SitemapIsComplete, Zenon DEF PagesShowWhatTheApiShows

\* The web pages, the API, the sitemap and the documents for other servers agree,
\* whatever accounts and statuses there are and however they answer each other.
THEOREM PagesAlwaysAgree == PagesSpec => []PagesAgree
<1>1. PagesInit => PagesInv
  BY DEF PagesInit, PagesInv, PagesTypeOK, CircleFits, PinnedFit
<1>2. PagesInv /\ [PagesNext]_pages_vars => PagesInv'
  BY PagesKeep
<1>3. PagesInv => PagesAgree
  BY PagesAlwaysShow, ThreadsAlwaysHang, DocumentsAlwaysShow DEF PagesAgree, PagesInv
<1> QED BY <1>1, <1>2, <1>3, PTL DEF PagesSpec

-----------------------------------------------------------------------------
(* All parts side by side *)

\* A step of the reading parts is a step of each part, or leaves it alone.
LEMMA ReadingImplementsParts ==
    ReadingSpec => SocialGraphSpec /\ PagingSpec /\ PagesSpec /\ DiscoverySpec /\ FeedSpec
<1>1. ReadingInit => SocialGraphInit /\ PagingInit /\ PagesInit /\ DiscoveryInit /\ FeedInit
  BY DEF ReadingInit
<1>2. [ReadingNext]_reading_vars => [SocialGraphNext]_graph_vars
  BY DEF ReadingNext, reading_vars
<1>3. [ReadingNext]_reading_vars => [PagingNext]_paging_vars
  BY DEF ReadingNext, reading_vars
<1>4. [ReadingNext]_reading_vars => [DiscoveryNext]_discovery_vars
  BY DEF ReadingNext, reading_vars
<1>5. [ReadingNext]_reading_vars => [FeedNext]_feed_vars
  BY DEF ReadingNext, reading_vars
<1>6. [ReadingNext]_reading_vars => [PagesNext]_pages_vars
  BY DEF ReadingNext, reading_vars
<1> QED BY <1>1, <1>2, <1>3, <1>4, <1>5, <1>6, PTL
        DEF ReadingSpec, SocialGraphSpec, PagingSpec, PagesSpec, DiscoverySpec, FeedSpec

\* What each part shows stays right while the others go on: timelines,
THEOREM TimelinesAlwaysHold == ReadingSpec => []TimelinesHold
<1>1. TimelinesSafe => TimelinesHold
  BY DEF TimelinesHold
<1> QED BY <1>1, ReadingImplementsParts, TimelinesAreSafe, PTL

\* merged pages,
THEOREM PagingAlwaysHolds == ReadingSpec => []PagingHolds
<1>1. PagingSafe => PagingHolds
  BY DEF PagingHolds
<1> QED BY <1>1, ReadingImplementsParts, WalksAreComplete, PTL

\* the public pages,
THEOREM PagesAlwaysHold == ReadingSpec => []PagesHold
<1>1. PagesAgree => PagesHold
  BY DEF PagesHold
<1> QED BY <1>1, ReadingImplementsParts, PagesAlwaysAgree, PTL

\* discovery,
THEOREM DiscoveryAlwaysHolds == ReadingSpec => []DiscoveryHolds
<1>1. DiscoveryAgrees => DiscoveryHolds
  BY DEF DiscoveryHolds
<1> QED BY <1>1, ReadingImplementsParts, DiscoveryAlwaysAgrees, PTL

\* and notifications.
THEOREM FeedAlwaysHolds == ReadingSpec => []FeedHolds
<1>1. FeedIsTrue => FeedHolds
  BY DEF FeedHolds
<1> QED BY <1>1, ReadingImplementsParts, FeedIsAlwaysTrue, PTL
=============================================================================
