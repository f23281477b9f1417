------------------------------- MODULE Paging -------------------------------
(***************************************************************************)
(* Walking a mixed collection page by page: every page merges the newest    *)
(* rows of several tables, and names the next one by the cursor of its last *)
(* row.  Identifiers are drawn before their transaction commits, so rows    *)
(* appear below identifiers that were already read; rows disappear as well. *)
(***************************************************************************)
EXTENDS Naturals, FiniteSets

CONSTANTS Tables, Ids, PageLimit

\* Identifiers are positive: 0 is the cursor of the first page.
ASSUME PagingAssumption ==
    IsFiniteSet(Tables) /\ Ids \subseteq Nat \ {0} /\ PageLimit \in Nat \ {0}

VARIABLES
    table,   \* [Tables -> SUBSET Ids], the rows that are committed
    deletedRows, \* ids of rows that were deleted since
    walk     \* the client: [at, seen, twice, owed, more]

paging_vars == <<table, deletedRows, walk>>

NoCursor == 0
AllRows == UNION {table[t] : t \in Tables}

PagingInit ==
    /\ table = [t \in Tables |-> {}]
    /\ deletedRows = {}
    /\ walk = [at |-> NoCursor, seen |-> {}, twice |-> FALSE, owed |-> {}, more |-> TRUE]

PagingTypeOK ==
    /\ table \in [Tables -> SUBSET Ids]
    /\ walk.seen \subseteq Ids /\ walk.owed \subseteq Ids /\ walk.at \in Ids \cup {NoCursor}
-----------------------------------------------------------------------------
\* ORDER BY id DESC LIMIT n
Newest(n, ids) == {i \in ids : Cardinality({j \in ids : j > i}) < n}

\* apply_timeline_cursor with max_id
Below(ids, cursor) == {i \in ids : cursor # NoCursor => i < cursor}

\* Mutant: a query reads no more than a page.
PageQueryLimit_Page == PageLimit

PageQueryLimit == PageLimit + 1

\* One query per table, each with its own limit.
Rows(cursor) == UNION {Newest(PageQueryLimit, Below(table[t], cursor)) : t \in Tables}

\* trim_to_page after the merge
Page(cursor) == [items |-> Newest(PageLimit, Rows(cursor)),
                 has_more |-> Cardinality(Rows(cursor)) > PageLimit]

Oldest(ids) == CHOOSE i \in ids : \A j \in ids : i <= j

\* The client follows the rel="next" link, which is there when has_more is set.
ReadPage == LET page == Page(walk.at) IN
    /\ walk.more
    /\ walk' = [at    |-> IF page.items = {} THEN walk.at ELSE Oldest(page.items),
                seen  |-> walk.seen \cup page.items,
                twice |-> walk.twice \/ walk.seen \cap page.items # {},
                owed  |-> IF walk.at = NoCursor THEN AllRows ELSE walk.owed,
                more  |-> page.has_more]
    /\ UNCHANGED <<table, deletedRows>>

\* An identifier is drawn once; its row may be committed much later.
CommitRow(t, i) ==
    /\ i \notin AllRows \cup deletedRows
    /\ table' = [table EXCEPT ![t] = @ \cup {i}]
    /\ UNCHANGED <<deletedRows, walk>>

DeleteRowOf(t, i) ==
    /\ i \in table[t]
    /\ table' = [table EXCEPT ![t] = @ \ {i}]
    /\ deletedRows' = deletedRows \cup {i}
    /\ UNCHANGED walk

PagingNext ==
    \/ ReadPage
    \/ \E t \in Tables, i \in Ids : CommitRow(t, i) \/ DeleteRowOf(t, i)

PagingSpec == PagingInit /\ [][PagingNext]_paging_vars
-----------------------------------------------------------------------------
\* A walk to the last page sees every row that was there when it began and was
\* not deleted, and none twice, however rows are committed and deleted on the
\* way and however they are spread over the tables.
WalkIsComplete ==
    /\ ~ walk.twice
    /\ ~ walk.more => walk.owed \subseteq walk.seen \cup deletedRows

\* A walk over pages that several tables fill is complete.
PagingSafe == PagingTypeOK /\ WalkIsComplete
=============================================================================
