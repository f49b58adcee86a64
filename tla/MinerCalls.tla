------------------------------ MODULE MinerCalls ------------------------------
(***************************************************************************)
(* What a poll of the Chainsaw asks the node after ls: the power of every  *)
(* miner that the new blocks name (MinerUpdater, MinerClient), which goes  *)
(* into the miners table with the blocks, and the power of the top block's *)
(* miner (MiningPowerService). A call is a stream of lines (HTTPClient),   *)
(* which may break off, or turn out to be no JSON, at any time.            *)
(***************************************************************************)
EXTENDS ChainWalk

CONSTANTS
  MinerName,    \* [Block -> the miner in its header, or "empty"]
  Reply,        \* the lines of the node: [power, total] or NoPower
  NoPower       \* a line without the two numbers: a message

ASSUME MinerCallsAssumption ==
  /\ MinerName \in [Block -> STRING]
  /\ \A r \in Reply \ {NoPower} : r.power \in Nat /\ r.total \in Nat \ {0}

VARIABLES
  step,         \* "ls", "update", "persist", "top", "market", "done" or "failed"
  addresses,    \* of the MinerUpdater: those still to be asked about
  call,         \* the call of power under way: [address, out, st]
  updates,      \* [address -> the miner's power]: what update() will return
  minersTable,  \* [address -> power]
  marketPower,  \* MiningPowerService.power
  answers       \* every line the node has sent: [step, address, line]

callVars == <<step, addresses, call, updates, minersTable, marketPower, answers>>
NoCall == [address |-> "", out |-> <<>>, st |-> "none"]
Called(address) == [NoCall EXCEPT !.address = address, !.st = "open"]

(* processBlocks *)
Miner(b) == IF MinerName[b] = "empty" THEN "bootstrap" ELSE MinerName[b]
IsUpdated(m) == m.method = "addAsk" \/ (m.method = "commitSector" /\ m.to # "empty")
AddAddress(found, address) ==
  IF address \in ToSet(found) THEN found ELSE Append(found, address)
AddAddresses(found, b) ==
  LET updated == Filter(Messages[b], {m \in ToSet(Messages[b]) : IsUpdated(m)})
      named == [i \in DOMAIN updated |-> updated[i].to]
      mined == IF MinerName[b] = "empty" THEN <<>> ELSE <<MinerName[b]>>
  IN  FoldLeft(AddAddress, found, named \o mined)

ProcessBlocks ==
  /\ step = "ls" /\ status = "returned"
  /\ IF result = <<>> THEN step' = "done" /\ UNCHANGED addresses
     ELSE step' = "update" /\ addresses' = FoldLeft(AddAddresses, <<>>, result)
  /\ UNCHANGED <<call, updates, minersTable, marketPower, answers>>

(* update(): pledge answers without a call. *)
Update ==
  /\ step = "update" /\ call = NoCall
  /\ IF addresses = <<>> THEN step' = "persist" /\ UNCHANGED call
     ELSE call' = Called(Head(addresses)) /\ UNCHANGED step
  /\ UNCHANGED <<addresses, updates, minersTable, marketPower, answers>>

(* callAPIStream: 'data' of split2 *)
Data(line) ==
  /\ call.st = "open" /\ call.out = <<>>
  /\ call' = [call EXCEPT !.out = <<line>>]
  /\ answers' = answers \cup {[step |-> step, address |-> call.address, line |-> line]}
  /\ UNCHANGED <<step, addresses, updates, minersTable, marketPower>>

(* 'error' of the request or of split2, which may follow a good line. What *)
(* comes after it finds the promise settled.                               *)
HandleError ==
  /\ call.st = "open"
  /\ call' = [call EXCEPT !.st = "rejected"]
  /\ UNCHANGED <<step, addresses, updates, minersTable, marketPower, answers>>

(* 'complete', also of a response that was cut short before its line *)
Complete ==
  /\ call.st = "open"
  /\ call' = [call EXCEPT !.st = "resolved"]
  /\ UNCHANGED <<step, addresses, updates, minersTable, marketPower, answers>>

(* MinerClient.power: reading a field of a line that is not there throws.  *)
NeverThrows(out) == FALSE        \* a mutant: no line is taken for one without power
Throws(out) == out = <<>>
Power(out) ==
  IF out = <<>> \/ out = <<NoPower>> THEN [miner |-> 0, total |-> 1]
  ELSE [miner |-> out[1].power, total |-> out[1].total]

(* The rows of a table, with those that are put into it. *)
Upserted(table, rows) ==
  [a \in DOMAIN rows \cup DOMAIN table |-> IF a \in DOMAIN rows THEN rows[a] ELSE table[a]]

PowerLands ==
  /\ call.st = "resolved" /\ ~ Throws(call.out)
  /\ call' = NoCall
  /\ IF step = "update"
       THEN /\ updates' = Upserted(updates, [a \in {call.address} |-> Power(call.out).miner])
            /\ addresses' = Tail(addresses)
            /\ UNCHANGED <<step, marketPower>>
       ELSE /\ marketPower' = Power(call.out).total
            /\ step' = "done"
            /\ UNCHANGED <<updates, addresses>>
  /\ UNCHANGED <<minersTable, answers>>

PowerRejects ==
  /\ \/ call.st = "rejected"
     \/ call.st = "resolved" /\ Throws(call.out)
  /\ call' = NoCall /\ step' = "failed"
  /\ UNCHANGED <<addresses, updates, minersTable, marketPower, answers>>

(* process_messages, the trigger on messages: an ask must have a price, and *)
(* its expiry length is cast to an integer, although the column was made a *)
(* bigint since. The next poll finds the same message.                     *)
IntegerBits == 31
Raises(m) == m.method = "addAsk" /\ (m.chunks = 0 \/ m.bits > IntegerBits)
TriggerRaises == \E b \in ToSet(result) : \E i \in DOMAIN Messages[b] : Raises(Messages[b][i])

(* persistPoll: the upserts *)
PersistMiners ==
  /\ step = "persist" /\ ~ TriggerRaises
  /\ step' = "top"
  /\ minersTable' = Upserted(minersTable, updates)
  /\ UNCHANGED <<addresses, call, updates, marketPower, answers>>

(* What top() gives: a new block, or an older row if it has joined a query *)
(* that read the table before; none if there was no row then.              *)
TopRows == ToSet(result) \cup {b \in Block : Height[b] <= toBlock}

UpdateMarketPower ==
  /\ step = "top"
  /\ \E b \in TopRows : call' = Called(Miner(b))
  /\ step' = "market"
  /\ UNCHANGED <<addresses, updates, minersTable, marketPower, answers>>

NoTop ==
  /\ step = "top" /\ toBlock = 0
  /\ step' = "done"
  /\ UNCHANGED <<addresses, call, updates, minersTable, marketPower, answers>>

PersistRaises ==
  /\ step = "persist" /\ TriggerRaises
  /\ step' = "failed"
  /\ UNCHANGED <<addresses, call, updates, minersTable, marketPower, answers>>

(* The transaction is rolled back, or top() rejects. *)
DatabaseFails ==
  /\ step \in {"persist", "top"}
  /\ step' = "failed"
  /\ UNCHANGED <<addresses, call, updates, minersTable, marketPower, answers>>

PollInit ==
  /\ Init
  /\ step = "ls" /\ addresses = <<>> /\ call = NoCall /\ answers = {}
  /\ updates = <<>> /\ minersTable = <<>> /\ marketPower = 1

Stream == (\E line \in Reply : Data(line)) \/ HandleError \/ Complete
Progress ==
  \/ ProcessBlocks \/ Update \/ PowerLands \/ PowerRejects
  \/ PersistMiners \/ PersistRaises \/ UpdateMarketPower \/ NoTop

PollNext ==
  \/ Next /\ UNCHANGED callVars
  \/ (Stream \/ Progress \/ DatabaseFails) /\ UNCHANGED vars

(* Every call is answered or breaks off. *)
PollSpec ==
  /\ PollInit /\ [][PollNext]_<<vars, callVars>>
  /\ WalkFairness
  /\ WF_callVars((Stream \/ Progress) /\ UNCHANGED vars)

--------------------------------------------------------------------------------
Lines(s, address) == {k.line : k \in {k \in answers : k.step = s /\ k.address = address}}
NumberOf(line, field, none) == IF line = NoPower THEN none ELSE line[field]

(* A holds every miner of a block that ls has returned, or of a sector. *)
Covers(A) ==
  \A b \in ToSet(result) :
    /\ Miner(b) \in A \cup {"bootstrap"}
    /\ \A i \in DOMAIN Messages[b] :
         Messages[b][i].method = "commitSector" => Messages[b][i].to \in A \cup {"empty"}

(* The power that was told of the miner of a top block, from the time on   *)
(* that it is asked for; there is always a row but in the first poll.      *)
MarketIsAnswered ==
  IF step = "done" /\ result # <<>>
    THEN \/ \E b \in TopRows : \E line \in Lines("market", Miner(b)) :
              marketPower = NumberOf(line, "total", 1)
         \/ toBlock = 0 /\ marketPower = 1
    ELSE marketPower = 1

(* The powers in the table and in memory are those the node has answered   *)
(* with, 0 and 1 only where it answered without numbers, however calls     *)
(* break off; and a poll that reaches the table leaves out no miner of a   *)
(* block or of a sector.                                                   *)
NumbersAreTheNodes ==
  /\ \A a \in DOMAIN minersTable :
       \E line \in Lines("update", a) : minersTable[a] = NumberOf(line, "power", 0)
  /\ MarketIsAnswered
  /\ minersTable # <<>> => Covers(DOMAIN minersTable)

(* The inductive invariant behind it: what a call has read, the node sent, *)
(* and whoever is to be asked about is asked about before the upserts.     *)
Answered(table) ==
  \A a \in DOMAIN table :
    \E line \in Lines("update", a) : table[a] = NumberOf(line, "power", 0)

CallInv ==
  /\ call.out # <<>> =>
       \E line \in Reply :
         /\ call.out = <<line>>
         /\ [step |-> step, address |-> call.address, line |-> line] \in answers
  /\ call # NoCall => step \in {"update", "market"}
  /\ call # NoCall /\ step = "update" => addresses # <<>> /\ call.address = Head(addresses)
  /\ step = "market" => \E b \in TopRows : call.address = Miner(b)
  /\ step \in {"update", "persist", "top", "market"} => result # <<>>

TableInv ==
  /\ Answered(updates) /\ Answered(minersTable)
  /\ step = "update" => Covers(ToSet(addresses) \cup DOMAIN updates)
  /\ step = "persist" => Covers(DOMAIN updates)
  /\ step \in {"ls", "update", "persist"} => minersTable = <<>>
  /\ minersTable # <<>> => Covers(DOMAIN minersTable)

NumbersInv ==
  /\ addresses \in Seq(STRING)
  /\ call \in [address : {"", "bootstrap"} \cup STRING, out : {<<>>} \cup {<<line>> : line \in Reply},
               st : {"none", "open", "resolved", "rejected"}]
  /\ step # "ls" => Returned
  /\ CallInv /\ TableInv
  /\ MarketIsAnswered

(* Every poll comes to its end, with whatever the calls are answered.      *)
PollEnds == <>(status = "failed" \/ step \in {"done", "failed"})
================================================================================
