-------------------------------- MODULE PGPool --------------------------------
(***************************************************************************)
(* PGClient (backend/src/service/PGClient.ts): one pool of PostgreSQL      *)
(* clients that the requests of the API share, through execute, with the   *)
(* transactions of Chainsaw and the materializer, through executeTx.       *)
(*                                                                         *)
(* execute returns its callback's promise without awaiting it, so that the *)
(* client is back in the pool, for others to take, while the callback      *)
(* still sends queries through it; executeTx keeps its client to the end.  *)
(*                                                                         *)
(* One action is what an answer of the pool or of the server sets off.     *)
(***************************************************************************)
EXTENDS Integers, SequencesExt

CONSTANTS
  Client,      \* the pool's clients, but for the one that start() keeps
  Reader,      \* API requests, one call of execute at a time each
  Writer,      \* callers of executeTx
  Program,     \* an execute callback: queries of its "own" and "nested" executes
  RowCount,    \* the statements a transaction's callback sends
  None         \* no client

ASSUME PoolAssumption ==
  /\ Client # {} /\ None \notin Client
  /\ Reader \cap Writer = {}
  /\ Program \in Seq({"own", "nested"}) /\ Program # <<>>
  /\ RowCount \in Nat \ {0}

VARIABLES
  queue,      \* [Client -> Seq(Reader \cup Writer)]: who awaits an answer, in order
  session,    \* [Client -> SessionState], the server's side of the connection
  dirty,      \* [Client -> rows its open transaction has written]
  committed,  \* rows in the database
  rpc,        \* what a request awaits
  rstep,      \* the query of Program it has come to, 0 outside of execute
  handle,     \* the client that execute passed to its callback
  wstep,      \* the statement of the transaction that a writer awaits
  holds,      \* the client a writer has checked out
  told,       \* how a writer's executeTx has ended; "cut" is an error, too
  spoiled     \* a request's query has failed inside this transaction

serverVars == <<queue, session, dirty, committed>>
readerVars == <<rpc, rstep, handle>>
writerVars == <<wstep, holds, told, spoiled>>
vars == <<serverVars, readerVars, writerVars>>

Row == Writer \X (1..RowCount)
RowsOf(w) == {w} \X (1..RowCount)

(* BEGIN is statement 1, the rows are 2 .. RowCount + 1. *)
Begin    == 1
Commit   == RowCount + 2
Rollback == RowCount + 3

BusyUntilAnswered ==    \* a mutant: execute awaits its callback
  ({holds[w] : w \in Writer} \cup {handle[r] : r \in Reader}) \ {None}
NeverBusy == {}         \* a mutant: executeTx does not await its callback either

(* Checked out: the pool hands such a client to nobody else. *)
Busy == {holds[w] : w \in Writer} \ {None}

Answers(c) == queue[c] # <<>>
Popped(c) == [queue EXCEPT ![c] = Tail(@)]
At(c) == Head(queue[c])

--------------------------------------------------------------------------------
(* execute *)

(* The callback of r comes to its i-th query, with client c and the queues *)
(* as in q. A client that the pool has closed meanwhile takes no query.    *)
RunTo(r, i, c, q) ==
  LET over == i > Len(Program)
      own  == ~over /\ Program[i] = "own"
      fail == own /\ c = None
  IN  /\ rpc' = [rpc EXCEPT ![r] = IF over \/ fail THEN "none"
                                   ELSE IF own THEN "answer" ELSE "nested"]
      /\ rstep' = [rstep EXCEPT ![r] = IF over \/ fail THEN 0 ELSE i]
      /\ handle' = [handle EXCEPT ![r] = IF over \/ fail THEN None ELSE c]
      /\ queue' = IF own /\ ~fail THEN [q EXCEPT ![c] = Append(@, r)] ELSE q

Request(r) ==
  /\ rpc[r] = "none"
  /\ rpc' = [rpc EXCEPT ![r] = "connect"]
  /\ UNCHANGED <<serverVars, rstep, handle, writerVars>>

(* pool.connect() answers: the callback starts, the client is released. *)
Connect(r) ==
  /\ rpc[r] = "connect"
  /\ \E c \in Client \ Busy : RunTo(r, 1, c, queue)
  /\ UNCHANGED <<session, dirty, committed, writerVars>>

(* The same for an execute that a callback awaits: its one query is sent. *)
ConnectNested(r) ==
  /\ rpc[r] = "nested"
  /\ \E c \in Client \ Busy : queue' = [queue EXCEPT ![c] = Append(@, r)]
  /\ rpc' = [rpc EXCEPT ![r] = "answer"]
  /\ UNCHANGED <<session, dirty, committed, rstep, handle, writerVars>>

(* The server answers a request's query; one that fails inside another's   *)
(* transaction aborts it. A failure rejects the callback: the answer is    *)
(* a 500 (APIServer.mountMethod).                                          *)
AnswerReader(c) ==
  /\ Answers(c) /\ At(c) \in Reader
  /\ LET r == At(c) IN
     \/ /\ session[c] # "aborted"
        /\ RunTo(r, rstep[r] + 1, handle[r], Popped(c))
        /\ UNCHANGED <<session, spoiled>>
     \/ /\ RunTo(r, Len(Program) + 1, None, Popped(c))
        /\ session' = [session EXCEPT ![c] = IF @ = "open" THEN "aborted" ELSE @]
        /\ spoiled' = {w \in Writer : holds[w] = c /\ session[c] = "open"} \cup spoiled
  /\ UNCHANGED <<dirty, committed, wstep, holds, told>>

(* Whoever awaits an answer from a client that is closed is rejected, and  *)
(* whoever means to use it again finds it closed.                          *)
CutOff(c) ==
  /\ LET cut(r) == r \in ToSet(queue[c])
     IN  /\ rpc' = [r \in Reader |-> IF cut(r) THEN "none" ELSE rpc[r]]
         /\ rstep' = [r \in Reader |-> IF cut(r) THEN 0 ELSE rstep[r]]
         /\ handle' = [r \in Reader |->
                         IF cut(r) \/ handle[r] = c THEN None ELSE handle[r]]
  /\ queue' = [queue EXCEPT ![c] = <<>>]

(* idleTimeoutMillis: the pool closes a client that nobody has taken for   *)
(* 30 s; or the connection of such a client breaks.                        *)
CloseIdle(c) ==
  /\ c \in Client \ Busy
  /\ CutOff(c)
  /\ UNCHANGED <<session, dirty, committed, writerVars>>

--------------------------------------------------------------------------------
(* executeTx *)

(* pool.connect() answers; BEGIN is sent. A writer that failed tries again *)
(* at its next poll; after a COMMIT that may have been executed it writes  *)
(* what it finds missing, which is another transaction.                    *)
ConnectTx(w) ==
  /\ wstep[w] = 0 /\ told[w] \notin {"ok", "cut"}
  /\ \E c \in Client \ Busy :
       /\ holds' = [holds EXCEPT ![w] = c]
       /\ queue' = [queue EXCEPT ![c] = Append(@, w)]
  /\ wstep' = [wstep EXCEPT ![w] = Begin]
  /\ told' = [told EXCEPT ![w] = "none"]
  /\ spoiled' = spoiled \ {w}
  /\ UNCHANGED <<session, dirty, committed, readerVars>>

(* The next statement of w goes to the client it holds. *)
Send(w, s, c) ==
  /\ wstep' = [wstep EXCEPT ![w] = s]
  /\ queue' = [Popped(c) EXCEPT ![c] = Append(@, w)]
  /\ UNCHANGED <<holds, told>>

(* The client goes back to the pool and executeTx settles. *)
Settle(w, how, c) ==
  /\ wstep' = [wstep EXCEPT ![w] = 0]
  /\ holds' = [holds EXCEPT ![w] = None]
  /\ told' = [told EXCEPT ![w] = how]
  /\ queue' = Popped(c)

NoRollback(w, c) ==      \* a mutant: the catch block only throws
  Settle(w, "failed", c)
SwallowError(w, c) ==    \* a mutant: the catch block does nothing
  Settle(w, "ok", c)

(* After an error executeTx rolls back and throws. *)
OnError(w, c) == Send(w, Rollback, c)

(* BEGIN or a row succeeds; the callback goes on, or throws itself. *)
Succeed(w, c) ==
  /\ wstep[w] \in Begin..(RowCount + 1) /\ session[c] # "aborted"
  /\ session' = [session EXCEPT ![c] = "open"]
  /\ dirty' = [dirty EXCEPT ![c] =
                 IF wstep[w] = Begin THEN @ ELSE @ \cup {<<w, wstep[w] - 1>>}]
  /\ Send(w, wstep[w] + 1, c) \/ OnError(w, c)
  /\ UNCHANGED committed

(* A row is refused, always so once the transaction is aborted. *)
Refuse(w, c) ==
  /\ wstep[w] \in (Begin + 1)..(RowCount + 1)
  /\ session' = [session EXCEPT ![c] = "aborted"]
  /\ OnError(w, c)
  /\ UNCHANGED <<dirty, committed>>

(* COMMIT of an aborted transaction rolls it back and reports no error. *)
EndTx(w, c) ==
  /\ wstep[w] \in {Commit, Rollback}
  /\ committed' = IF wstep[w] = Commit /\ session[c] = "open"
                  THEN committed \cup dirty[c] ELSE committed
  /\ session' = [session EXCEPT ![c] = "none"]
  /\ dirty' = [dirty EXCEPT ![c] = {}]
  /\ Settle(w, IF wstep[w] = Commit THEN "ok" ELSE "failed", c)

AnswerWriter(c) ==
  /\ Answers(c) /\ At(c) \in Writer
  /\ \/ Succeed(At(c), c)
     \/ Refuse(At(c), c)
     \/ EndTx(At(c), c)
  /\ UNCHANGED <<readerVars, spoiled>>

(* The connection that w holds breaks: what it awaits rejects, and so does *)
(* the ROLLBACK that executeTx then sends.  The server gives up an open    *)
(* transaction, unless it has executed a COMMIT that it has received.      *)
Break(w) ==
  LET c == holds[w] IN
  /\ c # None
  /\ CutOff(c)
  /\ \/ committed' = committed
     \/ wstep[w] = Commit /\ session[c] = "open" /\ committed' = committed \cup dirty[c]
  /\ session' = [session EXCEPT ![c] = "none"]
  /\ dirty' = [dirty EXCEPT ![c] = {}]
  /\ wstep' = [wstep EXCEPT ![w] = 0]
  /\ holds' = [holds EXCEPT ![w] = None]
  /\ told' = [told EXCEPT ![w] = IF wstep[w] = Commit THEN "cut" ELSE "failed"]
  /\ UNCHANGED spoiled

--------------------------------------------------------------------------------
Init ==
  /\ queue = [c \in Client |-> <<>>]
  /\ session = [c \in Client |-> "none"]
  /\ dirty = [c \in Client |-> {}]
  /\ committed = {}
  /\ rpc = [r \in Reader |-> "none"]
  /\ rstep = [r \in Reader |-> 0]
  /\ handle = [r \in Reader |-> None]
  /\ wstep = [w \in Writer |-> 0]
  /\ holds = [w \in Writer |-> None]
  /\ told = [w \in Writer |-> "none"]
  /\ spoiled = {}

Next ==
  \/ \E r \in Reader : Request(r) \/ Connect(r) \/ ConnectNested(r)
  \/ \E c \in Client : AnswerReader(c) \/ CloseIdle(c) \/ AnswerWriter(c)
  \/ \E w \in Writer : ConnectTx(w) \/ Break(w)

Spec == Init /\ [][Next]_vars

(* The server answers every query. pg-pool serves its waiters in the order *)
(* they came, so one that finds a free client again and again gets one.    *)
Fairness ==
  /\ \A c \in Client : WF_vars(AnswerReader(c) \/ AnswerWriter(c))
  /\ \A r \in Reader : SF_vars(Connect(r)) /\ SF_vars(ConnectNested(r))

FairSpec == Spec /\ Fairness

--------------------------------------------------------------------------------
(* Properties *)

TypeOK ==
  /\ queue \in [Client -> Seq(Reader \cup Writer)]
  /\ session \in [Client -> {"none", "open", "aborted"}]
  /\ dirty \in [Client -> SUBSET Row]
  /\ committed \in SUBSET Row
  /\ rpc \in [Reader -> {"none", "connect", "nested", "answer"}]
  /\ rstep \in [Reader -> 0..Len(Program)]
  /\ handle \in [Reader -> Client \cup {None}]
  /\ wstep \in [Writer -> 0..Rollback]
  /\ holds \in [Writer -> Client \cup {None}]
  /\ told \in [Writer -> {"none", "ok", "failed", "cut"}]
  /\ spoiled \in SUBSET Writer

(* Whoever's queries run between a transaction's own, its rows reach the   *)
(* database together or not at all: what persistPoll relies on when it     *)
(* takes the tables for a prefix of the chain (ChainsawDAO.ts).            *)
AllOrNothing ==
  \A w \in Writer : RowsOf(w) \subseteq committed \/ RowsOf(w) \cap committed = {}

(* A caller that executeTx told of an error finds none of its rows in the  *)
(* database, then or later, and the poll that repeats the work starts      *)
(* afresh; unless the connection broke while COMMIT's answer was awaited,  *)
(* when the rows may be there (PersistUnacknowledged of ChainIngest).      *)
RefusedIsAbsent ==
  \A w \in Writer : told[w] = "failed" => RowsOf(w) \cap committed = {}

(* executeTx reports success for rows that are not in the database only if *)
(* a query of a request failed inside the transaction (README, finding).   *)
LostOnlyByARead ==
  \A w \in Writer :
    told[w] = "ok" /\ w \notin spoiled => RowsOf(w) \subseteq committed

(* Serving a request changes nothing in the database, nor what a           *)
(* transaction is about to change (docs/handoff/backend-architecture.md).  *)
RequestsModifyNothing ==
  [][(\E c \in Client : AnswerReader(c)) => UNCHANGED <<session, dirty, committed>>]_vars

(* Nested executes never exhaust the pool: every request is answered,      *)
(* however many others wait for a second client at the same time.          *)
EveryRequestAnswered ==
  \A r \in Reader : rpc[r] # "none" ~> rpc[r] = "none"
===============================================================================
