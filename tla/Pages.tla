---------------------------------- MODULE Pages ----------------------------------
(***************************************************************************)
(* The routes of Main.tsx with charts and tables of the stats. A behaviour *)
(* looks at some of them only; the pages have the others too.              *)
(***************************************************************************)
EXTENDS Charts, Pager, Units, Filtering

CONSTANTS
  Casts,          \* the sets of charts and tables that are looked at together
  MaxVisits       \* bound: how often another page is opened

VARIABLES cast, route, visits

pagesVars == <<chartVars, pagerVars, size, cast, route, visits>>

(* Main's routes; what a page has from top to bottom. *)
Routes ==
  [Home |-> <<"SingleStat", "StorageMinersTable">>,
   StorageMining |-> <<"MinerCountChart", "StorageMinersTable", "MiningEvolutionChart">>,
   StorageCostCapacity |-> <<"HistoricalStoragePriceChart", "HistoricalCollateralPerGBChart",
                             "HistoricalUtilizationChart", "StorageCapacityHistogram">>,
   Macroeconomics |-> <<"CoinsInCirculation", "TokenHoldingsDistribution",
                        "HistoricalCollateralChart", "HistoricalBlockRewards">>]

(* Without two points to its lines MiningEvolutionChart mounts no Chart.   *)
Sparse == {"MiningEvolutionChart"}
ChartsOn(p, without) == Filter(Routes[p], (cast \cap Component) \ without)
HasStat(p) == "SingleStat" \in cast \cap Range(Routes[p])
HasTable(p) == "StorageMinersTable" \in cast \cap Range(Routes[p])

PagesInit ==
  /\ ChartsInit /\ PagerInit /\ size = 0
  /\ cast \in Casts /\ route = "Home" /\ visits = 0
  /\ HasTable(route) \/ miners = UNION Lists

(* A link of the navigation: one page's components unmount, another's mount. *)
Open(p) ==
  /\ p # route /\ visits < MaxVisits
  /\ route' = p /\ visits' = visits + 1
  /\ \E without \in SUBSET Sparse : ShowCharts(ChartsOn(p, without))
  /\ ShowTable
  /\ UNCHANGED <<size, cast>>

UseTable == PagerStep \/ \E M \in Lists : SetMiners(M)

PagesNext ==
  \/ \E p \in DOMAIN Routes : Open(p)
  \/ ChartStep /\ UNCHANGED <<pagerVars, size, cast, route, visits>>
  \/ HasTable(route) /\ UseTable /\ UNCHANGED <<chartVars, size, cast, route, visits>>
  \/ /\ HasStat(route) /\ \E n \in Sizes : SetSize(n)
     /\ UNCHANGED <<chartVars, pagerVars, cast, route, visits>>

PagesSpec == PagesInit /\ [][PagesNext]_pagesVars /\ ChartFairness
================================================================================
