------------------------------ MODULE StatsTables ------------------------------
(***************************************************************************)
(* What the statistics are computed from: the tables that ingestion and    *)
(* the materialization fill (migrations/sqls/...-create-schema-up.sql),    *)
(* the list of nodes, and the series of dates of a chart.                  *)
(*                                                                         *)
(* The tipsets of a chain are ingested in the order of Script; a tick is   *)
(* the five minutes between two polls of the materialization, and a poll   *)
(* ends in the tick it began in. Values count VALUE_SECTOR_DIVISORs.       *)
(***************************************************************************)
EXTENDS Integers, Sequences, FiniteSets, FiniteSetsExt

CONSTANTS
  Script,     \* Seq of tipsets: [height, blocks: Seq of [miner, sent: set of messages]]
  Nodes,      \* records [nick, address, beats: [time -> height]]
  Granule,    \* [Duration -> ticks between two dates]
  Reach,      \* [Duration -> dates before the current one]
  DropTime,   \* ticks after which a node is dropped
  MaxNow,     \* bound of the clock
  NaN         \* the numeric that is not a number

Duration == {"DAY", "WEEK", "MONTH", "YEAR", "ALL"}

ASSUME TablesAssumption ==
  /\ Granule \in [Duration -> Nat \ {0}] /\ Reach \in [Duration -> Nat]
  /\ DropTime \in Nat /\ MaxNow \in Nat /\ NaN \notin Int /\ IsFiniteSet(Nodes)

(* A tipset has a block at least; heights grow from one to the next. *)
MessageRow == [from : STRING, to : STRING, nonce : Nat, method : STRING,
               value : Nat, sectors : Nat, price : Nat]
ASSUME ScriptAssumption ==
  /\ Script \in Seq([height : Nat, blocks : Seq([miner : STRING, sent : SUBSET MessageRow])])
  /\ \A t \in DOMAIN Script :
       /\ Script[t].blocks # <<>>
       /\ \A i \in DOMAIN Script[t].blocks : IsFiniteSet(Script[t].blocks[i].sent)
  /\ \A t, u \in DOMAIN Script : t < u => Script[t].height < Script[u].height

VARIABLES
  now,          \* current_timestamp
  ingestedAt,   \* Seq of Nat: when each tipset so far was ingested
  circulation,  \* coin_circulation_stats: [collateral, coins, at]
  addresses,    \* token_address_stats: [count, at]
  usage,        \* network_usage_stats: [committed, pledged, at]
  minerCounts   \* miner_counts: [count, at]

tables == <<ingestedAt, circulation, addresses, usage, minerCounts>>

Total(f(_), S) == MapThenSumSet(f, S)

--------------------------------------------------------------------------------
(* The rows that a tipset brings. blocks: <<tipset, place in it>>.         *)
(* messages: <<block, message>>, also those that other blocks of the       *)
(* tipset repeat. unique_messages: the last of those that share a key      *)
(* (from, to, nonce at one height), but for createChannel.                 *)

BlocksOf == [t \in DOMAIN Script |-> {t} \X DOMAIN Script[t].blocks]
MessagesOf ==
  [t \in DOMAIN Script |-> UNION {{b} \X Script[t].blocks[b[2]].sent : b \in BlocksOf[t]}]
KeyOf(m) == <<m.from, m.to, m.nonce>>
UniqueOf ==
  [t \in DOMAIN Script |->
     {r \in MessagesOf[t] :
        /\ r[2].method # "createChannel"
        /\ \A s \in MessagesOf[t] : KeyOf(s[2]) = KeyOf(r[2]) => s[1][2] <= r[1][2]}]

Table(rowsOf) == UNION {rowsOf[t] : t \in DOMAIN ingestedAt}
Blocks == Table(BlocksOf)
Messages == Table(MessagesOf)
UniqueMessages == Table(UniqueOf)

HeightOf(b) == Script[b[1]].height
MinerOf(b) == Script[b[1]].blocks[b[2]].miner
TimeOf(b) == ingestedAt[b[1]]
Tip == Len(ingestedAt)        \* the last tipset; heights grow along Script

(* asks: what the trigger of messages inserts, with what its message says. *)
Asks == {r \in Messages : r[2].method = "addAsk"}
Pledges(rows) == {r \in rows : r[2].method = "createStorageMiner"}
SentAt(r) == TimeOf(r[1])
Value(r) == r[2].value

--------------------------------------------------------------------------------
(* NodeStatusService *)

LastSeen(n) == Max({t \in DOMAIN n.beats : t <= now})
ListNodes ==
  {n \in Nodes : (\E t \in DOMAIN n.beats : t <= now) /\ now - LastSeen(n) < DropTime}
ListMiners == {n \in ListNodes : n.address # ""}
MinerCount == Cardinality(ListMiners)

(* getMinerByAddress also finds those that are no longer listed. *)
ByAddress(a) == {n \in Nodes : a # "" /\ n.address = a /\ \E t \in DOMAIN n.beats : t <= now}

--------------------------------------------------------------------------------
(* generate_duration_series: the dates of a chart, none without blocks *)

Trunc(dur, t) == t - (t % Granule[dur])
FirstDate(dur) == Min({Trunc(dur, TimeOf(b)) : b \in Blocks}) - Granule[dur]

PastDates(dur) ==     \* a mutant: the series stops before the current date
  {d \in {Trunc(dur, now) - k * Granule[dur] : k \in 1..Reach[dur]} :
     Blocks # {} /\ d >= FirstDate(dur)}

DurationSeries(dur) ==
  {d \in {Trunc(dur, now) - k * Granule[dur] : k \in 0..Reach[dur]} :
     Blocks # {} /\ d >= FirstDate(dur)}

(* The k greatest of S by rank; ties in any way (ORDER BY ... LIMIT k). *)
Tops(S, rank(_), k) ==
  {T \in SUBSET S :
     /\ Cardinality(T) = Min({k, Cardinality(S)})
     /\ \A x \in T, y \in S \ T : rank(x) >= rank(y)}
================================================================================
