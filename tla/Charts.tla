--------------------------------- MODULE Charts ---------------------------------
(***************************************************************************)
(* The charts of the dashboard: which series each of them draws, the click *)
(* on a duration (SwitchableContent, DateSwitchingChart), the thunk that   *)
(* fetches the data of the duration into the store (ducks/overrides.ts),   *)
(* the mounting and unmounting of Chart, and the queue that draws and      *)
(* disposes of the amCharts (utils/ChartRenderQueue.ts).                   *)
(***************************************************************************)
EXTENDS StatsAPI, Integers, Sequences, SequencesExt

CONSTANTS
  Clickable,  \* the durations that are clicked on, by their index
  MaxClicks,  \* bound: clicks on a duration
  NoData      \* what a chart shows before it is drawn

DURATIONS == <<"24h", "1w", "1m", "1y", "all">>
defaultIndex == 2          \* from 0

ASSUME ChartsAssumption ==
  /\ Clickable \subseteq 0..Len(DURATIONS) - 1 /\ defaultIndex \in Clickable
  /\ MaxClicks \in Nat

(* A component: what it fetches on a change of duration, one answer after  *)
(* the other, and its line and bars, polled and of other durations.        *)
Connected(fetches, polled, override) ==
  [fetches |-> fetches, polled |-> polled, override |-> override]
Plain(polled) == Connected(<<>>, <<polled>>, <<>>)

HistoricalStoragePriceChart ==
  Connected(<<"storage/historicalStoragePrice">>,
            <<Sync.storage.storageCost>>, <<"storage/historicalStoragePrice">>)
HistoricalCollateralPerGBChart ==
  Connected(<<"storage/historicalCollateralPerGB">>,
            <<Sync.storage.historicalCollateralPerGB>>, <<"storage/historicalCollateralPerGB">>)
HistoricalUtilizationChart ==
  Connected(<<"storage/historicalUtilization">>,
            <<Sync.storage.networkUtilization>>, <<"storage/historicalUtilization">>)
MinerCountChart ==
  Connected(<<"storage/historicalMinerCounts">>,
            <<Sync.storage.historicalMinerCounts>>, <<"storage/historicalMinerCounts">>)
CoinsInCirculation ==
  Connected(<<"token/historicalCoinsInCirculation">>,
            <<Sync.token.coinsInCirculation>>, <<"token/historicalCoinsInCirculation">>)
HistoricalCollateralChart ==
  Connected(<<"storage/historicalCollateral", "storage/historicalStorageAmount">>,
            <<Sync.storage.historicalCollateral, Sync.storage.storageAmount>>,
            <<"storage/historicalCollateral", "storage/historicalStorageAmount">>)
HistoricalBlockRewards ==
  Connected(<<"token/historicalBlockRewards", "storage/historicalMinerCounts">>,
            <<Sync.token.blockRewardsOverTime, Sync.storage.historicalMinerCounts>>,
            <<"token/historicalBlockRewards", "storage/historicalMinerCounts">>)
StorageCapacityHistogram == Plain(Sync.storage.capacityHistogram)
MiningEvolutionChart == Plain(Sync.storage.evolution)
TokenHoldingsDistribution == Plain(Sync.token.tokenHoldingsDistribution)

Components ==
  [HistoricalStoragePriceChart    |-> HistoricalStoragePriceChart,
   HistoricalCollateralPerGBChart |-> HistoricalCollateralPerGBChart,
   HistoricalUtilizationChart     |-> HistoricalUtilizationChart,
   MinerCountChart                |-> MinerCountChart,
   CoinsInCirculation             |-> CoinsInCirculation,
   HistoricalCollateralChart      |-> HistoricalCollateralChart,
   HistoricalBlockRewards         |-> HistoricalBlockRewards,
   StorageCapacityHistogram       |-> StorageCapacityHistogram,
   MiningEvolutionChart           |-> MiningEvolutionChart,
   TokenHoldingsDistribution      |-> TokenHoldingsDistribution]

Component == DOMAIN Components

VARIABLES
  onPage,     \* the components on the page
  selectedIndex, \* of the SwitchableContent of each component on the page
  isLoading,  \* of its DateSwitchingChart
  requests,   \* the thunks under way: who, what for, what is left to fetch
  overrides,  \* [path -> the series in the store]
  charts,     \* Seq of the Charts mounted so far: whose, state, data shown
  queue,      \* ChartRenderQueue.queue: Seq of jobs
  timers,     \* how many calls of dequeue are scheduled
  clicks,     \* how many clicks on a duration there were
  disturbed   \* components clicked on while a stat of theirs was still being
              \* fetched, for them or for a page left behind, or whose request failed

queueVars == <<charts, queue, timers>>
chartVars == <<onPage, selectedIndex, isLoading, requests, overrides, queueVars, clicks, disturbed>>

ChartsOf(s) == {c \in DOMAIN charts : charts[c].of = s /\ charts[c].mounted}

--------------------------------------------------------------------------------
(* The queue *)

Job(op, c) == [op |-> op, chart |-> c]

ScheduledIfIdle(n) ==        \* a mutant: only the first of the queue's jobs starts a timer
  IF queue = <<>> THEN timers + 1 ELSE timers
Scheduled(n) == timers + n

(* componentWillUnmount and componentDidMount of the Charts of the         *)
(* components in Out and, in this order, In.                               *)
Remount(Out, In) ==
  LET gone == {c \in DOMAIN charts : charts[c].mounted /\ charts[c].of \in Out}
      Now(c) == Len(charts) + c
      left == [c \in DOMAIN charts |-> [charts[c] EXCEPT !.mounted = @ /\ c \notin gone]]
      new == [c \in DOMAIN In |-> [of |-> In[c], mounted |-> TRUE, st |-> "empty", data |-> NoData]]
      first == [i \in DOMAIN In |-> Job("render", Now(Len(In) + 1 - i))]
      last == [i \in DOMAIN SetToSeq(gone) |-> Job("dispose", SetToSeq(gone)[i])]
  IN /\ charts' = left \o new
     /\ queue' = first \o queue \o last
     /\ timers' = Scheduled(Len(first) + Len(last))

(* renderContent: data and barData of the Chart. *)
isOverride(s) == selectedIndex[s] # defaultIndex
Data(s) ==
  IF isOverride(s) THEN [i \in DOMAIN Components[s].override |->
                           overrides[Components[s].override[i]]]
  ELSE Components[s].polled

(* Without its div on the page am4core.create throws, and done is never    *)
(* called.                                                                 *)
Render(c) ==
  /\ charts' = [charts EXCEPT ![c] =
                  IF @.mounted THEN [@ EXCEPT !.st = "live", !.data = Data(charts[c].of)]
                  ELSE [@ EXCEPT !.st = "failed"]]
  /\ timers' = timers - 1

Disposes(c) == charts[c].st \in {"live", "ready"}

(* done() in any case: a timer goes and a timer comes. *)
Dispose(c) ==
  /\ charts' = IF Disposes(c) THEN [charts EXCEPT ![c].st = "disposed"] ELSE charts
  /\ UNCHANGED timers

(* The timer fires: dequeue *)
Dequeue ==
  /\ timers > 0
  /\ IF queue = <<>> THEN timers' = timers - 1 /\ UNCHANGED <<charts, queue>>
     ELSE /\ queue' = Tail(queue)
          /\ IF Head(queue).op = "render" THEN Render(Head(queue).chart)
             ELSE Dispose(Head(queue).chart)
  /\ UNCHANGED <<onPage, selectedIndex, isLoading, requests, overrides, clicks, disturbed>>

(* chart.events.on('ready', ...) *)
Ready(c) ==
  /\ charts[c].st = "live"
  /\ charts' = [charts EXCEPT ![c].st = "ready"]
  /\ timers' = timers + 1
  /\ UNCHANGED <<onPage, selectedIndex, isLoading, requests, overrides, queue, clicks, disturbed>>

--------------------------------------------------------------------------------
(* The choice of a duration *)

Requests(s) ==
  {r \in requests : Range(Components[r.of].fetches) \cap Range(Components[s].override) # {}}

(* onClickLink and onSwitch. *)
Click(s, i) ==
  /\ i # selectedIndex[s] /\ clicks < MaxClicks
  /\ Components[s].fetches # <<>>
  /\ selectedIndex' = [selectedIndex EXCEPT ![s] = i]
  /\ isLoading' = [isLoading EXCEPT ![s] = TRUE]
  /\ requests' = requests \cup
       {[id |-> clicks, of |-> s, dur |-> DURATIONS[i + 1],
         left |-> Components[s].fetches, live |-> TRUE]}
  /\ disturbed' = IF Requests(s) = {} THEN disturbed \ {s} ELSE disturbed \cup {s}
  /\ Remount({s}, <<>>)
  /\ clicks' = clicks + 1
  /\ UNCHANGED <<onPage, overrides>>

(* finally: the component is drawn again, unless it is off the page.       *)
Finally(r) ==
  /\ isLoading' = IF r.live THEN [isLoading EXCEPT ![r.of] = FALSE] ELSE isLoading
  /\ Remount({}, IF r.live /\ isLoading[r.of] THEN <<r.of>> ELSE <<>>)

EndsAtOnce(r) == TRUE        \* a mutant: the first dispatch is not awaited
Ends(r) == Len(r.left) = 1

(* The data is there, for minDelay at least: SET_OVERRIDE.                 *)
SetOverride(r) ==
  /\ IsMounted(Head(r.left), r.dur)
  /\ overrides' = [overrides EXCEPT ![Head(r.left)] = Answer(Head(r.left), r.dur)]
  /\ requests' = (requests \ {r}) \cup
       (IF Len(r.left) = 1 THEN {} ELSE {[r EXCEPT !.left = Tail(@)]})
  /\ IF Ends(r) THEN Finally(r) ELSE UNCHANGED <<isLoading, queueVars>>
  /\ UNCHANGED <<onPage, selectedIndex, clicks, disturbed>>

RequestFails(r) ==
  /\ requests' = requests \ {r}
  /\ disturbed' = disturbed \cup (IF r.live THEN {r.of} ELSE {})
  /\ Finally(r)
  /\ UNCHANGED <<onPage, selectedIndex, overrides, clicks>>

(* The page with the components In, from top to bottom, takes the place of *)
(* the one that is open. What is under way goes on.                        *)
ShowCharts(In) ==
  /\ onPage' = Range(In)
  /\ selectedIndex' = [s \in Range(In) |-> defaultIndex]
  /\ isLoading' = [s \in Range(In) |-> FALSE]
  /\ requests' = {[r EXCEPT !.live = FALSE] : r \in requests}
  /\ disturbed' = {}
  /\ Remount(onPage, In)
  /\ UNCHANGED <<overrides, clicks>>

ChartsInit ==
  /\ onPage = {} /\ requests = {} /\ disturbed = {} /\ clicks = 0
  /\ selectedIndex = [s \in {} |-> defaultIndex]
  /\ isLoading = [s \in {} |-> FALSE]
  /\ overrides = [path \in DOMAIN GET |-> NoData]
  /\ charts = <<>> /\ queue = <<>> /\ timers = 0

ChartStep ==
  \/ Dequeue
  \/ \E c \in DOMAIN charts : Ready(c)
  \/ \E s \in onPage, i \in Clickable : Click(s, i)
  \/ \E r \in requests : SetOverride(r) \/ RequestFails(r)

ChartFairness == WF_chartVars(Dequeue) /\ WF_chartVars(\E c \in DOMAIN charts : Ready(c))

--------------------------------------------------------------------------------
(* The inductive invariant: a chart that is on the page is not loading, and *)
(* for a component that is not disturbed the store has the series of the    *)
(* duration that is marked, or the one thunk for it has still to fetch it.  *)
Paths(s) == Range(Components[s].fetches)
Wanted(s, i) == Series(Components[s].polled[i].query, DURATIONS[selectedIndex[s] + 1])

ChartTypes ==
  /\ onPage \subseteq Component
  /\ selectedIndex \in [onPage -> 0..Len(DURATIONS) - 1] /\ isLoading \in [onPage -> BOOLEAN]
  /\ DOMAIN overrides = DOMAIN GET
  /\ Len(charts) \in Nat /\ charts = [c \in 1..Len(charts) |-> charts[c]]
  /\ \A c \in DOMAIN charts :
       /\ charts[c].mounted \in BOOLEAN
       /\ charts[c] = [of |-> charts[c].of, mounted |-> charts[c].mounted,
                       st |-> charts[c].st, data |-> charts[c].data]
RequestTypes ==
  \A r \in requests :
    /\ r = [id |-> r.id, of |-> r.of, dur |-> r.dur, left |-> r.left, live |-> r.live]
    /\ r.of \in Component /\ r.live \in BOOLEAN
    /\ r.left \in Seq(DOMAIN GET) /\ r.left # <<>> /\ Range(r.left) \subseteq Paths(r.of)

MountedInv ==
  /\ \A s, t \in onPage : s = t \/ Paths(s) \cap Paths(t) = {}
  /\ \A r \in requests : r.live => r.of \in onPage
  /\ \A c \in DOMAIN charts :
       charts[c].mounted => charts[c].of \in onPage /\ ~ isLoading[charts[c].of]
StoreInv ==
  \A s \in onPage \ disturbed : isOverride(s) =>
    /\ \A r \in Requests(s) :
         /\ r.of = s /\ r.live /\ r.dur = DURATIONS[selectedIndex[s] + 1]
         /\ \A q \in Requests(s) : q = r
    /\ \A i \in DOMAIN Components[s].override :
         LET path == Components[s].override[i]
         IN  \/ overrides[path] = Wanted(s, i)
             \/ isLoading[s] /\ \E r \in Requests(s) : path \in Range(r.left)

(* Whoever waits for the answers before the next click sees, in line and   *)
(* bars, the query that the component shows when it is opened, of the      *)
(* duration that is marked, whatever thunks of pages left behind still put *)
(* into the store they share, and whatever the routes call it on the way.  *)
LabelMatches ==
  \A s \in onPage \ disturbed : \A c \in ChartsOf(s) :
    charts[c].data # NoData /\ Components[s].fetches # <<>> =>
      \A i \in DOMAIN charts[c].data :
        charts[c].data[i] = Wanted(s, i)

(* What the timers and amCharts have still to do: a chart that is being    *)
(* drawn calls done when it is ready. Each job in the queue has a timer or *)
(* such a chart, each chart to draw or to dispose of has its job.          *)
Live == {c \in DOMAIN charts : charts[c].st = "live"}
NothingDue == timers = 0 /\ Live = {}

Jobs == [op : {"render", "dispose"}, chart : Nat]
JobFits(i) ==
  LET c == queue[i].chart
  IN  /\ c \in DOMAIN charts
      /\ \/ queue[i] = Job("render", c) /\ charts[c].st = "empty"
         \/ queue[i] = Job("dispose", c) /\ ~ charts[c].mounted
ChartFits(c) ==
  LET Queued(op) == \E i \in DOMAIN queue : queue[i] = Job(op, c)
  IN  \/ charts[c].st = "empty" /\ Queued("render")
      \/ charts[c].st \in {"live", "ready"} /\ (charts[c].mounted \/ Queued("dispose"))
      \/ charts[c].st \in {"disposed", "failed"} /\ ~ charts[c].mounted
QueueInv ==
  /\ queue \in Seq(Jobs)
  /\ timers \in Nat /\ Len(queue) <= timers + Cardinality(Live)
  /\ \A i \in DOMAIN queue : JobFits(i)
  /\ \A i, j \in DOMAIN queue : queue[i] = queue[j] => i = j
  /\ \A c \in DOMAIN charts : ChartFits(c)

(* In the end the charts on the page are drawn and no other is left over,  *)
(* though jobs run in another order than they come, rendering may throw    *)
(* and every job has but one timer.                                        *)
AllDrawn ==
  \A c \in DOMAIN charts :
    charts[c].st \in (IF charts[c].mounted THEN {"ready"} ELSE {"disposed", "failed"})
ChartsFollowThePage == <>[]AllDrawn
================================================================================
