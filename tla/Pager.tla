---------------------------------- MODULE Pager ----------------------------------
(***************************************************************************)
(* The table of miners on the home page: components/Table.tsx with its     *)
(* pager and the debounced filter, and StorageMinersTable.tsx, which has a *)
(* page number of its own and cuts the rows out of the store's list. The   *)
(* order of the rows is left out.                                          *)
(***************************************************************************)
EXTENDS Integers, FiniteSets

CONSTANTS
  Lists,      \* the sets of miners that the server may answer with
  Nickname    \* [query -> the miners whose nickname or peer id it occurs in]

NoFilter == ""

(* The rows on a page: a default of Table's props, and a literal of        *)
(* StorageMinersTable, which does not pass its own on.                     *)
perPage == 10
TwentyRows == 20             \* a mutant: the rows are cut by another number
SliceLength == 10

ASSUME PagerAssumption ==
  /\ \A M \in Lists : IsFiniteSet(M)
  /\ NoFilter \in DOMAIN Nickname /\ Nickname[NoFilter] = UNION Lists

VARIABLES
  miners,         \* state.stats.stats.storage.miners
  currentPage,    \* of Table
  enteredFilter,  \* of Table
  debounce,       \* whether broadcastFilterChange has a timer
  query,          \* of StorageMinersTable
  minersPage      \* currentPage of StorageMinersTable

pagerVars == <<miners, currentPage, enteredFilter, debounce, query, minersPage>>

RowCount == Cardinality(miners)
RoundedUp(rows) == rows \div perPage + 1  \* a mutant: one page too many when they are full
PageCount(rows) == (rows + perPage - 1) \div perPage

(* filter and slice: how many rows there are on the page. *)
Rows ==
  LET start == (minersPage - 1) * SliceLength
      matching == Cardinality(miners \cap Nickname[query])
  IN IF matching > start + SliceLength THEN SliceLength
     ELSE IF matching > start THEN matching - start ELSE 0

ShowTable ==
  /\ currentPage' = 1 /\ minersPage' = 1
  /\ enteredFilter' = NoFilter /\ query' = NoFilter /\ debounce' = FALSE
  /\ UNCHANGED miners

(* renderPager: there is none where one page is enough. *)
HasPager == perPage < RowCount
SetPage(n) ==
  /\ currentPage' = n /\ minersPage' = n
  /\ UNCHANGED <<miners, enteredFilter, debounce, query>>

Prev == HasPager /\ currentPage # 1 /\ SetPage(currentPage - 1)
NextPage == HasPager /\ currentPage # PageCount(RowCount) /\ SetPage(currentPage + 1)

OnChangeFilter(q) ==
  /\ enteredFilter' = q /\ debounce' = TRUE
  /\ UNCHANGED <<miners, currentPage, query, minersPage>>

(* 100 ms after the last key, on whatever page. *)
BroadcastFilterChange ==
  /\ debounce /\ debounce' = FALSE
  /\ query' = enteredFilter
  /\ UNCHANGED <<miners, currentPage, enteredFilter, minersPage>>

(* SET_STATS: rowCount and rows change under an open page. *)
SetMiners(M) ==
  /\ miners' = M
  /\ UNCHANGED <<currentPage, enteredFilter, debounce, query, minersPage>>

PagerInit ==
  /\ miners \in Lists
  /\ currentPage = 1 /\ minersPage = 1
  /\ enteredFilter = NoFilter /\ query = NoFilter /\ debounce = FALSE

PagerStep ==
  \/ Prev \/ NextPage
  \/ \E q \in DOMAIN Nickname : OnChangeFilter(q)
  \/ BroadcastFilterChange

(* As long as nothing is filtered and no miner leaves the list, a click    *)
(* never turns from a page with rows to one without: Table, which counts   *)
(* the pages, and StorageMinersTable, which cuts them, agree.              *)
PageExists ==
  [][query = NoFilter /\ query' = NoFilter /\ miners \subseteq miners' /\ Rows > 0 => Rows' > 0]_pagerVars
================================================================================
