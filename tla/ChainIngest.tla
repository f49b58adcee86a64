------------------------------ MODULE ChainIngest ------------------------------
(***************************************************************************)
(* The ingestion pipeline of the master process: Chainsaw's poll loop      *)
(* (backend/src/service/Chainsaw.ts), the chain client it reads the full   *)
(* node through, ChainsawDAO.persistPoll with the unique_messages table,   *)
(* BlocksDAO.top and MiningPowerService.updateMarketPower, with a node     *)
(* that reorganises its head, failing calls, and crashes of the process.   *)
(*                                                                         *)
(* One action is what runs between two awaits whose outcome matters.  A    *)
(* poll in which ls returns [] changes nothing: it is a stuttering step.   *)
(***************************************************************************)
EXTENDS ChainData

CONSTANTS
  Messages,        \* [Block -> SUBSET <<from, to, nonce>>], without createChannel
  Rank,            \* [Block -> Nat], the order in which a tipset lists its blocks
  FinalityDepth    \* heights that bury a block the node never replaces

ASSUME MessageAssumption ==
  /\ DOMAIN Messages = Block
  /\ Rank \in [Block -> Nat]
  /\ \A a, b \in Block : Height[a] = Height[b] /\ Rank[a] = Rank[b] => a = b
  /\ \A S \in SUBSET Block : S # {} => \E b \in S : \A c \in S : Rank[c] <= Rank[b]

(* The node never replaces a block that ls takes for confirmed: what the   *)
(* choice of ConfirmationHeights stands on.                                *)
ASSUME FinalityAssumption == FinalityDepth \in 0..ConfirmationHeights

VARIABLES
  head,         \* the full node's head tipset
  settled,      \* blocks the node will never leave again
  db,           \* rows of the blocks table
  uniq,         \* rows of unique_messages: <<block of the row, message>>
  lost,         \* history: blocks that a COMMIT has acknowledged and not kept
  topBlock,     \* BlocksDAO.topBlock as a height, 0 for null
  flight,       \* an API request's in-flight BlocksDAO.top()
  pc,           \* where the Chainsaw is
  lastHeight,   \* Chainsaw.lastHeight
  batch,        \* unseenBlocks
  maxHeight     \* unseenBlocks[0].height

nodeVars == <<head, settled>>
diskVars == <<db, uniq, lost>>
topVars  == <<topBlock, flight>>
pollVars == <<batch, maxHeight>>
vars == <<nodeVars, diskVars, topVars, pc, lastHeight, pollVars>>

--------------------------------------------------------------------------------
(* Derived from the state *)

(* SELECT ... ORDER BY height DESC LIMIT 1; genesis is never ingested, so  *)
(* height 0 stands for "no rows".                                          *)
IsDbTop(n) ==
  /\ \A b \in db : Height[b] <= n
  /\ n = 0 => db = {}
  /\ n > 0 => \E b \in db : Height[b] = n
DbTop == CHOOSE n \in HeightsOf(db) \cup {0} : IsDbTop(n)

(* Blocks that FinalityDepth heights of the chain below T have buried. *)
Deep(T) ==
  {b \in Chain[T] :
     Cardinality({k \in HeightsOf(Chain[T]) : k > Height[b]}) >= FinalityDepth}

(* messages.disambiguator_key: height-from-to-nonce. *)
Key(b, m) == <<Height[b], m>>

(* The messages that a poll inserts, with their blocks. *)
RowsOf(new) == {r \in new \X UNION {Messages[b] : b \in new} : r[2] \in Messages[r[1]]}

AllOfEachKey(new) == RowsOf(new)    \* a mutant: no grouping
LastOfEachMessage(new) ==           \* a mutant: grouped without the height
  {r \in RowsOf(new) :
     \A c \in new : r[2] \in Messages[c] => Rank[c] <= Rank[r[1]]}

(* populate_unique_messages(lastId): of the messages inserted since lastId *)
(* that share a key, the one with the highest id, i.e. inserted last.      *)
LastOfEachKey(new) ==
  {r \in RowsOf(new) :
     \A c \in new :
       Height[c] = Height[r[1]] /\ r[2] \in Messages[c] => Rank[c] <= Rank[r[1]]}

Polling == {"miners", "persist", "refresh", "joined", "power"}

Flights == [st : {"none", "sent", "read"}, row : Nat]
NoFlight == [st |-> "none", row |-> 0]

--------------------------------------------------------------------------------
(* The full node *)

(* Its head may move to any tipset, also a lower one, whose chain keeps    *)
(* what is settled exactly as it is.                                       *)
NewHead(T) ==
  /\ settled \subseteq Chain[T]
  /\ \A b \in Chain[T], s \in settled : Height[b] <= Height[s] => b \in settled
  /\ head' = T
  /\ settled' = settled \cup Deep(T)
  /\ UNCHANGED <<diskVars, topVars, pc, lastHeight, pollVars>>

--------------------------------------------------------------------------------
(* The process: API requests that ask for the top block *)

(* top() with nothing cached sends a query; while it is in flight, every   *)
(* caller gets the same promise (synchronized).                            *)
ApiAskTop ==
  /\ flight.st = "none" /\ topBlock = 0 /\ pc # "down"
  /\ flight' = [NoFlight EXCEPT !.st = "sent"]
  /\ UNCHANGED <<nodeVars, diskVars, topBlock, pc, lastHeight, pollVars>>

DbAnswersTop ==
  /\ flight.st = "sent"
  /\ flight' = [st |-> "read", row |-> DbTop]
  /\ UNCHANGED <<nodeVars, diskVars, topBlock, pc, lastHeight, pollVars>>

(* The flight lands; a persistPoll whose top(true) joined it goes on. *)
LandTop ==
  /\ flight.st = "read"
  /\ topBlock' = IF flight.row = 0 THEN topBlock ELSE flight.row
  /\ flight' = NoFlight
  /\ pc' = IF pc = "joined" THEN "power" ELSE pc
  /\ UNCHANGED <<nodeVars, diskVars, lastHeight, pollVars>>

--------------------------------------------------------------------------------
(* The process: Chainsaw *)

EndPoll ==
  /\ pc' = "idle"
  /\ batch' = {} /\ maxHeight' = 0

(* The process comes up: the API server listens before Chainsaw.start. *)
Boot ==
  /\ pc = "down"
  /\ pc' = "starting"
  /\ UNCHANGED <<nodeVars, diskVars, topVars, lastHeight, pollVars>>

(* start: lastHeight = cDao.lastBlock(), that is bDao.top() or 0.  No row  *)
(* is written before it: a flight that it joins answers the same.          *)
Start ==
  /\ pc = "starting"
  /\ topBlock # 0 \/ flight.st = "none"
  /\ lastHeight' = IF topBlock # 0 THEN topBlock ELSE DbTop
  /\ topBlock' = lastHeight'
  /\ pc' = "idle"
  /\ UNCHANGED <<nodeVars, diskVars, flight, pollVars>>

(* lastBlock, or what Backend.start awaits before it, rejects: main leaves *)
(* the rejection unhandled, and the process serves the API without a poll. *)
StartFails ==
  /\ pc = "starting"
  /\ pc' = "stopped"
  /\ UNCHANGED <<nodeVars, diskVars, topVars, lastHeight, pollVars>>

(* chain().ls(lastHeight): the head it read decides the result, since a    *)
(* block never changes under its CID.                                      *)
Fetch ==
  /\ pc = "idle"
  /\ \E m \in MaxHeights(head, lastHeight) :
       /\ maxHeight' = m
       /\ batch' = UpTo(head, lastHeight, m)
  /\ pc' = "miners"
  /\ UNCHANGED <<nodeVars, diskVars, topVars, lastHeight>>

(* pledgeUpdater.update(): pledge and power of each miner the batch names. *)
UpdateMiners ==
  /\ pc = "miners"
  /\ pc' = "persist"
  /\ UNCHANGED <<nodeVars, diskVars, topVars, lastHeight, pollVars>>

(* persistPoll's transaction: blocks already there are skipped. *)
CommitSome ==     \* a mutant: inserts that are not one transaction
  \E done \in SUBSET batch :
    /\ db' = db \cup done
    /\ uniq' = uniq \cup LastOfEachKey(done \ db)
    /\ lost' = lost \ done

Commit ==
  /\ db' = db \cup batch
  /\ uniq' = uniq \cup LastOfEachKey(batch \ db)
  /\ lost' = lost \ batch

Persist ==
  /\ pc = "persist"
  /\ Commit
  /\ pc' = "refresh"
  /\ UNCHANGED <<nodeVars, topVars, lastHeight, pollVars>>

(* A request's statement fails inside the transaction, after the last one  *)
(* of persistPoll (see PGPool): the server answers COMMIT with a ROLLBACK, *)
(* which executeTx takes for a commit.                                     *)
PersistLost ==
  /\ pc = "persist"
  /\ lost' = lost \cup (batch \ db)
  /\ pc' = "refresh"
  /\ UNCHANGED <<nodeVars, db, uniq, topVars, lastHeight, pollVars>>

(* persistPoll's top(true): its own query, or the flight it joins. *)
RefreshTopAlone ==     \* a mutant: top() is not synchronized
  /\ pc = "refresh"
  /\ topBlock' = DbTop
  /\ pc' = "power"
  /\ UNCHANGED <<nodeVars, diskVars, flight, lastHeight, pollVars>>

RefreshTop ==
  /\ pc = "refresh"
  /\ flight.st = "none"
  /\ topBlock' = DbTop
  /\ pc' = "power"
  /\ UNCHANGED <<nodeVars, diskVars, flight, lastHeight, pollVars>>

JoinTop ==
  /\ pc = "refresh"
  /\ flight.st # "none"
  /\ pc' = "joined"
  /\ UNCHANGED <<nodeVars, diskVars, topVars, lastHeight, pollVars>>

(* updateMarketPower: top() again, which queries when nothing is cached,   *)
(* then the node's power call; processBlocks is over and lastHeight moves. *)
UpdateMarketPowerCached ==     \* a mutant: no query when nothing is cached
  /\ pc = "power"
  /\ lastHeight' = maxHeight
  /\ EndPoll
  /\ UNCHANGED <<nodeVars, diskVars, topVars>>

UpdateMarketPower ==
  /\ pc = "power"
  /\ topBlock # 0 \/ flight.st = "none"
  /\ topBlock' = IF topBlock # 0 THEN topBlock ELSE DbTop
  /\ lastHeight' = maxHeight
  /\ EndPoll
  /\ UNCHANGED <<nodeVars, diskVars, flight>>

(* A call of the poll rejects: poll() logs it and enqueues the next one.   *)
(* The transaction that was open, if any, is rolled back.                  *)
PollFailsForward ==     \* a mutant: the cursor moves in the finally
  /\ pc \in Polling \ {"joined"}
  /\ EndPoll
  /\ lastHeight' = maxHeight
  /\ UNCHANGED <<nodeVars, diskVars, topVars>>

PollFailsForGood ==     \* a mutant: the next poll is enqueued after success only
  /\ pc \in Polling \ {"joined"}
  /\ pc' = "halted"
  /\ UNCHANGED <<nodeVars, diskVars, topVars, lastHeight, pollVars>>

PollFails ==
  /\ pc \in Polling \ {"joined"}
  /\ EndPoll
  /\ UNCHANGED <<nodeVars, diskVars, topVars, lastHeight>>

(* The transaction commits but its acknowledgement is lost. *)
PersistHalf ==     \* a mutant: populate_unique_messages outside the transaction
  /\ pc = "persist"
  /\ uniq' = uniq \cup LastOfEachKey(batch \ db)
  /\ EndPoll
  /\ UNCHANGED <<nodeVars, db, lost, topVars, lastHeight>>

PersistUnacknowledged ==
  /\ pc = "persist"
  /\ Commit
  /\ EndPoll
  /\ UNCHANGED <<nodeVars, topVars, lastHeight>>

(* An API request's top() query fails, for everyone who joined it. *)
TopFails ==
  /\ flight.st # "none"
  /\ flight' = NoFlight
  /\ IF pc = "joined" THEN EndPoll ELSE UNCHANGED <<pc, pollVars>>
  /\ UNCHANGED <<nodeVars, diskVars, topBlock, lastHeight>>

(* The process dies: only the database survives. *)
Crash ==
  /\ pc # "down"
  /\ pc' = "down"
  /\ lastHeight' = 0
  /\ topBlock' = 0 /\ flight' = NoFlight
  /\ batch' = {} /\ maxHeight' = 0
  /\ UNCHANGED <<nodeVars, diskVars>>

--------------------------------------------------------------------------------
Init ==
  /\ head \in Heads
  /\ settled = Deep(head)
  /\ db = {} /\ uniq = {} /\ lost = {}
  /\ topBlock = 0 /\ flight = NoFlight
  /\ pc = "down" /\ lastHeight = 0
  /\ batch = {} /\ maxHeight = 0

Next ==
  \/ \E T \in Heads : NewHead(T)
  \/ ApiAskTop \/ DbAnswersTop \/ LandTop \/ TopFails
  \/ Boot \/ Start \/ StartFails
  \/ Fetch \/ UpdateMiners \/ Persist \/ PersistLost
  \/ RefreshTop \/ JoinTop \/ UpdateMarketPower
  \/ PollFails \/ PersistUnacknowledged
  \/ Crash

Spec == Init /\ [][Next]_vars

(* poll() re-enqueues itself in a finally, the supervisor restarts a       *)
(* process that has died, and no call fails every time it is made.  A      *)
(* start that fails is not made again, unless by a new process.            *)
Fairness ==
  /\ WF_vars(Boot) /\ WF_vars(DbAnswersTop) /\ WF_vars(LandTop)
  /\ SF_vars(Start) /\ SF_vars(Fetch) /\ SF_vars(UpdateMiners) /\ SF_vars(Persist)
  /\ SF_vars(RefreshTop \/ JoinTop) /\ SF_vars(UpdateMarketPower)

FairSpec == Spec /\ Fairness

--------------------------------------------------------------------------------
(* Properties *)

TypeOK ==
  /\ head \in Heads /\ settled \subseteq Block
  /\ db \subseteq Block /\ lost \subseteq Block
  /\ uniq \subseteq db \X UNION {Messages[b] : b \in Block}
  /\ topBlock \in Nat /\ lastHeight \in Nat /\ maxHeight \in Nat
  /\ flight \in Flights
  /\ pc \in {"down", "starting", "stopped", "idle"} \cup Polling
  /\ batch \subseteq Block

(* No orphan is ever ingested: whatever the node reorganises above the     *)
(* settled part while a poll is under way, every row of blocks stays on    *)
(* the node's current chain.                                               *)
CanonicalOnly == db \subseteq Chain[head]

(* No block is skipped: the cursor only passes heights whose settled       *)
(* blocks are all ingested, also through failed polls and restarts, but    *)
(* for those of a transaction whose COMMIT was acknowledged and rolled     *)
(* back: the cursor passes them, and nothing fetches them again.           *)
NoSkippedBlock ==
  \A b \in settled :
    0 < Height[b] /\ Height[b] <= lastHeight => b \in db \cup lost

(* A message is counted once, although its blocks may be fetched again     *)
(* after a poll that failed past its commit.                               *)
OneRowPerMessage ==
  \A r, q \in uniq : Key(r[1], r[2]) = Key(q[1], q[2]) => r = q

(* ... and at least once: every message of an ingested block has a row of  *)
(* its key.                                                                *)
EveryMessageCounted ==
  \A b \in db : \A m \in Messages[b] :
    \E r \in uniq : Key(r[1], r[2]) = Key(b, m)

(* Once the cursor has reached a row of the table, the API has a top block *)
(* to serve (StorageStatsDAO.getMiners dereferences it unguarded), and it  *)
(* is one that is in the table, despite coalesced queries that read the    *)
(* table before the commit.  While each transaction so far has been lost,  *)
(* there is a cursor and no row.                                           *)
ServedTopExists ==
  /\ \A d \in db : Height[d] <= lastHeight => topBlock > 0
  /\ topBlock > 0 => \E b \in db : Height[b] = topBlock

(* While the process lives, the served top and the cursor never go back,   *)
(* although an older answer of a slow query may still be under way.        *)
NeverBackwards ==
  [][pc' # "down" => lastHeight' >= lastHeight /\ topBlock' >= topBlock]_vars

(* The inductive invariant behind them.  The node: what is settled is a    *)
(* prefix of its chain, and holds all that is deep in it.                  *)
NodeInv ==
  /\ settled \subseteq Chain[head] /\ Deep(head) \subseteq settled
  /\ \A b \in Chain[head], s \in settled : Height[b] <= Height[s] => b \in settled

(* The table and what it has lost: settled blocks above genesis, without a *)
(* gap, and each height in the one or in the other.                        *)
Covered == db \cup lost
TableInv ==
  /\ \A b \in Covered : b \in settled /\ Height[b] > 0
  /\ \A b \in settled, d \in Covered :
       0 < Height[b] /\ Height[b] <= Height[d] => b \in Covered
  /\ \A b \in lost, d \in db : Height[b] # Height[d]
  /\ \E n \in HeightsOf(db) \cup {0} : IsDbTop(n)

(* The cursor and the cached top are heights of rows, the cursor also of   *)
(* lost ones; no row is above a lost block that the cursor is yet to pass; *)
(* a plain top() is in flight only while nothing is cached, and tells a    *)
(* process that starts the top.                                            *)
IsRow(n) == \E d \in db : Height[d] = n
Unstarted == {"down", "starting", "stopped"}
CursorInv ==
  /\ lastHeight > 0 => \E d \in Covered : Height[d] = lastHeight
  /\ \A d \in db : Height[d] <= lastHeight => topBlock > 0
  /\ topBlock > 0 => IsRow(topBlock)
  /\ flight.row > 0 => IsRow(flight.row)
  /\ flight.st # "none" => topBlock = 0
  /\ pc \in Unstarted =>
       /\ lastHeight = 0
       /\ topBlock > 0 => IsDbTop(topBlock)
       /\ flight.row > 0 => IsDbTop(flight.row)
  /\ pc \notin Unstarted =>
       \A b \in lost, d \in db : lastHeight < Height[b] => Height[d] < Height[b]

(* The batch of a poll: all that is settled between cursor and maxHeight,  *)
(* although the node's head has moved on since ls read it.                 *)
BatchInv ==
  /\ pc \in Polling =>
       /\ batch = {b \in settled : lastHeight < Height[b] /\ Height[b] <= maxHeight}
       /\ \E b \in batch : Height[b] = maxHeight
  /\ pc \in {"refresh", "joined", "power"} => batch \subseteq Covered

UniqInv == OneRowPerMessage /\ EveryMessageCounted

IInv == TypeOK /\ NodeInv /\ TableInv /\ CursorInv /\ BatchInv /\ UniqInv

(* A settled block of the node's chain is ingested in the end, unless the  *)
(* node falls back to a head that has not buried it two heights deep, or   *)
(* its transaction is lost; provided that somebody restarts a process      *)
(* whose start has failed, as nothing in it does.                          *)
BuriedIn ==
  [T \in Heads |->
     {b \in Chain[T] :
        /\ Height[b] > 0
        /\ Cardinality({k \in HeightsOf(Chain[T]) : k > Height[b]}) >= ConfirmationHeights}]
EverBuried == UNION {BuriedIn[T] : T \in Heads}
EventuallyIngested ==
  []<>(pc # "stopped") =>
    \A b \in EverBuried :
      b \in BuriedIn[head] ~> (b \in Covered \/ b \notin BuriedIn[head])

(* The pipeline implements the ledger: see ChainLedger. *)
Ledger == INSTANCE ChainLedger WITH final <- settled, ledger <- db
ImplementsLedger == Ledger!Spec
=============================================================================
