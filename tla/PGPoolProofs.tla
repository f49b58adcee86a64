------------------------------ MODULE PGPoolProofs ------------------------------
(***************************************************************************)
(* Proofs about PGPool, for any clients, requests, transactions and        *)
(* callbacks.                                                              *)
(***************************************************************************)
EXTENDS PGPool, SequenceTheorems, TLAPS

(* A writer awaits at most one answer, from the client it holds. *)
Queued(Q, H) ==
  /\ Q \in [Client -> Seq(Reader \cup Writer)]
  /\ \A c \in Client : \A i \in 1..Len(Q[c]) : Q[c][i] \in Writer => H[Q[c][i]] = c
  /\ \A c \in Client : \A i, j \in 1..Len(Q[c]) :
       Q[c][i] \in Writer /\ Q[c][i] = Q[c][j] => i = j

NotIn(Q, w) == \A c \in Client : \A i \in 1..Len(Q[c]) : Q[c][i] # w

(* No two transactions share a client; one that runs has told nobody. *)
Apart == \A v, w \in Writer : holds[v] = holds[w] /\ holds[v] # None => v = w
Running ==
  \A w \in Writer :
    /\ holds[w] = None <=> wstep[w] = 0
    /\ wstep[w] # 0 => told[w] = "none"

(* A client in the pool has no transaction open. *)
Quiet == \A c \in Client : c \notin Busy => session[c] = "none" /\ dirty[c] = {}

(* How far the transaction of w has come, on its client c. *)
Progress(w, c) ==
  /\ dirty[c] \subseteq RowsOf(w)
  /\ wstep[w] = Begin => session[c] = "none" /\ dirty[c] = {}
  /\ wstep[w] \in (Begin + 1)..Commit =>
       /\ session[c] # "none"
       /\ session[c] = "open" => dirty[c] = {w} \X (1..(wstep[w] - 2))
       /\ session[c] = "aborted" => w \in spoiled
OnTheWay == \A w \in Writer : holds[w] # None => Progress(w, holds[w])

(* What a writer was told. *)
Settled(w) ==
  /\ told[w] \in {"none", "failed"} => RowsOf(w) \cap committed = {}
  /\ \/ RowsOf(w) \subseteq committed
     \/ /\ RowsOf(w) \cap committed = {}
        /\ told[w] = "ok" => w \in spoiled
AllSettled == \A w \in Writer : Settled(w)

TxInv == Apart /\ Running /\ Quiet /\ OnTheWay /\ AllSettled
PoolInv == TypeOK /\ Queued(queue, holds) /\ TxInv

--------------------------------------------------------------------------------
(* The queues *)

(* A request's query joins a client's queue. *)
LEMMA AskKeeps ==
  ASSUME NEW Q, NEW H, Queued(Q, H), NEW c \in Client, NEW r \in Reader
  PROVE  Queued([Q EXCEPT ![c] = Append(@, r)], H)
<1> DEFINE P == [Q EXCEPT ![c] = Append(@, r)]
<1>1. /\ P \in [Client -> Seq(Reader \cup Writer)]
      /\ Len(P[c]) = Len(Q[c]) + 1 /\ P[c][Len(P[c])] = r
      /\ \A i \in 1..Len(Q[c]) : P[c][i] = Q[c][i]
      /\ \A d \in Client \ {c} : P[d] = Q[d]
  BY DEF Queued
<1>2. r \notin Writer
  BY PoolAssumption
<1>3. ASSUME NEW d \in Client, NEW i \in 1..Len(P[d]), P[d][i] \in Writer
      PROVE  i \in 1..Len(Q[d]) /\ P[d][i] = Q[d][i]
  BY <1>1, <1>2, <1>3 DEF Queued
<1> HIDE DEF P
<1>4. QED
  BY <1>1, <1>3 DEF Queued, P

(* An answer arrives: whoever awaited it awaits no other. *)
LEMMA PopKeeps ==
  ASSUME NEW Q, NEW H, Queued(Q, H), NEW c \in Client, Q[c] # <<>>,
         NEW P, P = [Q EXCEPT ![c] = Tail(@)]
  PROVE  /\ Queued(P, H)
         /\ Head(Q[c]) \in Reader \cup Writer
         /\ Head(Q[c]) \in Writer => H[Head(Q[c])] = c /\ NotIn(P, Head(Q[c]))
<1>1. /\ Q \in [Client -> Seq(Reader \cup Writer)]
      /\ Len(Q[c]) \in Nat \ {0} /\ Head(Q[c]) = Q[c][1]
  BY DEF Queued
<1>2. /\ P \in [Client -> Seq(Reader \cup Writer)]
      /\ Len(P[c]) = Len(Q[c]) - 1
      /\ \A i \in 1..Len(P[c]) : P[c][i] = Q[c][i + 1]
      /\ \A d \in Client \ {c} : P[d] = Q[d]
  BY <1>1
<1>3. /\ Head(Q[c]) \in Reader \cup Writer
      /\ Head(Q[c]) \in Writer => H[Head(Q[c])] = c
  BY <1>1 DEF Queued
<1>4. ASSUME NEW d \in Client, NEW i \in 1..Len(P[d])
      PROVE  \E k \in 1..Len(Q[d]) :
               /\ Q[d][k] = P[d][i] /\ k = (IF d = c THEN i + 1 ELSE i)
  BY <1>1, <1>2
<1>5. Queued(P, H)
  <2>1. ASSUME NEW d \in Client, NEW i \in 1..Len(P[d]), P[d][i] \in Writer
        PROVE  H[P[d][i]] = d
    BY <1>4, <2>1 DEF Queued
  <2>2. ASSUME NEW d \in Client, NEW i \in 1..Len(P[d]), NEW j \in 1..Len(P[d]),
               P[d][i] \in Writer, P[d][i] = P[d][j]
        PROVE  i = j
    <3>1. PICK k \in 1..Len(Q[d]) :
            Q[d][k] = P[d][i] /\ k = (IF d = c THEN i + 1 ELSE i)
      BY <1>4
    <3>2. PICK l \in 1..Len(Q[d]) :
            Q[d][l] = P[d][j] /\ l = (IF d = c THEN j + 1 ELSE j)
      BY <1>4
    <3>3. k = l
      BY <2>2, <3>1, <3>2 DEF Queued
    <3>4. QED
      BY <3>1, <3>2, <3>3
  <2>3. QED
    BY <1>2, <2>1, <2>2 DEF Queued
<1>6. ASSUME Head(Q[c]) \in Writer, NEW d \in Client, NEW i \in 1..Len(P[d]),
             P[d][i] = Head(Q[c])
      PROVE  FALSE
  <2>1. d = c
    BY <1>3, <1>5, <1>6 DEF Queued
  <2>2. i + 1 \in 1..Len(Q[c]) /\ Q[c][i + 1] = Q[c][1] /\ 1 \in 1..Len(Q[c])
    BY <1>1, <1>2, <1>6, <2>1
  <2>3. i + 1 = 1
    BY <1>1, <1>6, <2>2 DEF Queued
  <2>4. QED
    BY <2>3
<1>7. QED
  BY <1>3, <1>5, <1>6 DEF NotIn

(* A writer sends a statement to the client it holds from now on. *)
LEMMA SendKeeps ==
  ASSUME NEW Q, NEW H, Queued(Q, H), NEW c \in Client, NEW w \in Writer, NotIn(Q, w),
         NEW H2, H2[w] = c, \A v \in Writer \ {w} : H2[v] = H[v]
  PROVE  Queued([Q EXCEPT ![c] = Append(@, w)], H2)
<1> DEFINE P == [Q EXCEPT ![c] = Append(@, w)]
<1>1. /\ P \in [Client -> Seq(Reader \cup Writer)]
      /\ Len(Q[c]) \in Nat
      /\ Len(P[c]) = Len(Q[c]) + 1 /\ P[c][Len(P[c])] = w
      /\ \A i \in 1..Len(Q[c]) : P[c][i] = Q[c][i]
      /\ \A d \in Client \ {c} : P[d] = Q[d]
  BY DEF Queued
<1> HIDE DEF P
<1>2. ASSUME NEW d \in Client, NEW i \in 1..Len(P[d])
      PROVE  \/ d = c /\ i = Len(P[c]) /\ P[d][i] = w
             \/ i \in 1..Len(Q[d]) /\ P[d][i] = Q[d][i] /\ P[d][i] # w
  BY <1>1 DEF NotIn
<1>3. ASSUME NEW d \in Client, NEW i \in 1..Len(P[d]), P[d][i] \in Writer
      PROVE  H2[P[d][i]] = d
  <2>1. CASE d = c /\ P[d][i] = w
    BY <2>1
  <2>2. CASE i \in 1..Len(Q[d]) /\ P[d][i] = Q[d][i] /\ P[d][i] # w
    <3>1. H[Q[d][i]] = d
      BY <1>3, <2>2 DEF Queued
    <3>2. QED
      BY <1>3, <2>2, <3>1
  <2>3. QED
    BY <1>2, <2>1, <2>2
<1>4. ASSUME NEW d \in Client, NEW i \in 1..Len(P[d]), NEW j \in 1..Len(P[d]),
             P[d][i] \in Writer, P[d][i] = P[d][j]
      PROVE  i = j
  <2>1. \/ d = c /\ i = Len(P[c]) /\ P[d][i] = w
        \/ i \in 1..Len(Q[d]) /\ P[d][i] = Q[d][i] /\ P[d][i] # w
    BY <1>2
  <2>2. \/ d = c /\ j = Len(P[c]) /\ P[d][j] = w
        \/ j \in 1..Len(Q[d]) /\ P[d][j] = Q[d][j] /\ P[d][j] # w
    BY <1>2
  <2>3. CASE P[d][i] = w
    BY <1>4, <2>1, <2>2, <2>3
  <2>4. CASE P[d][i] # w
    <3>1. /\ i \in 1..Len(Q[d]) /\ P[d][i] = Q[d][i]
          /\ j \in 1..Len(Q[d]) /\ P[d][j] = Q[d][j]
      BY <1>4, <2>1, <2>2, <2>4
    <3>2. QED
      BY <1>4, <3>1 DEF Queued
  <2>5. QED
    BY <2>3, <2>4
<1>5. QED
  BY <1>1, <1>3, <1>4 DEF Queued, P

(* A writer gives its client back. *)
LEMMA ReleaseKeeps ==
  ASSUME NEW Q, NEW H, Queued(Q, H), NEW w \in Writer, NotIn(Q, w),
         NEW H2, \A v \in Writer \ {w} : H2[v] = H[v]
  PROVE  Queued(Q, H2)
BY DEF Queued, NotIn

(* A writer that holds no client awaits nothing. *)
LEMMA FreeIsNotIn ==
  ASSUME Queued(queue, holds), NEW w \in Writer, holds[w] = None
  PROVE  NotIn(queue, w)
BY PoolAssumption DEF Queued, NotIn

LEMMA CloseKeeps ==
  ASSUME NEW Q, NEW H, Queued(Q, H), NEW c \in Client
  PROVE  Queued([Q EXCEPT ![c] = <<>>], H)
BY DEF Queued

--------------------------------------------------------------------------------
(* Requests *)

ReaderTypes ==
  /\ rpc \in [Reader -> {"none", "connect", "nested", "answer"}]
  /\ rstep \in [Reader -> 0..Len(Program)]
  /\ handle \in [Reader -> Client \cup {None}]

LEMMA RunToKeeps ==
  ASSUME ReaderTypes, NEW q, NEW H, Queued(q, H), NEW r \in Reader,
         NEW i \in Nat \ {0}, NEW c \in Client \cup {None}, RunTo(r, i, c, q)
  PROVE  ReaderTypes' /\ Queued(queue', H)
<1> DEFINE over == i > Len(Program)
           own  == ~over /\ Program[i] = "own"
           fail == own /\ c = None
<1>1. /\ rpc' = [rpc EXCEPT ![r] = IF over \/ fail THEN "none"
                                   ELSE IF own THEN "answer" ELSE "nested"]
      /\ rstep' = [rstep EXCEPT ![r] = IF over \/ fail THEN 0 ELSE i]
      /\ handle' = [handle EXCEPT ![r] = IF over \/ fail THEN None ELSE c]
      /\ queue' = IF own /\ ~fail THEN [q EXCEPT ![c] = Append(@, r)] ELSE q
  BY DEF RunTo
<1>2. Len(Program) \in Nat
  BY PoolAssumption
<1>3. rpc' \in [Reader -> {"none", "connect", "nested", "answer"}]
  BY <1>1 DEF ReaderTypes
<1>4. rstep' \in [Reader -> 0..Len(Program)]
  BY <1>1, <1>2 DEF ReaderTypes
<1>5. handle' \in [Reader -> Client \cup {None}]
  BY <1>1 DEF ReaderTypes
<1>6. own /\ ~fail => c \in Client
  OBVIOUS
<1> HIDE DEF over, own, fail
<1>7. Queued(queue', H)
  BY <1>1, <1>6, AskKeeps
<1>8. QED
  BY <1>3, <1>4, <1>5, <1>7 DEF ReaderTypes

(* What a step that touches neither the server nor the writers keeps. *)
LEMMA TxInvKept ==
  ASSUME TxInv, UNCHANGED <<session, dirty, committed, writerVars>>
  PROVE  TxInv'
BY DEF TxInv, Apart, Running, Quiet, Busy, OnTheWay, Progress, AllSettled, Settled, writerVars

LEMMA ReaderStepKeeps ==
  ASSUME PoolInv, NEW r \in Reader, Request(r) \/ Connect(r) \/ ConnectNested(r)
  PROVE  PoolInv'
<1>1. ReaderTypes /\ Queued(queue, holds)
  BY DEF PoolInv, TypeOK, ReaderTypes
<1>2. ReaderTypes' /\ Queued(queue', holds)
  <2>1. CASE Request(r)
    BY <1>1, <2>1 DEF Request, ReaderTypes, serverVars
  <2>2. CASE Connect(r)
    <3>1. PICK c \in Client \ Busy : RunTo(r, 1, c, queue)
      BY <2>2 DEF Connect
    <3>2. QED
      BY <1>1, <3>1, RunToKeeps
  <2>3. CASE ConnectNested(r)
    <3>1. PICK c \in Client \ Busy : queue' = [queue EXCEPT ![c] = Append(@, r)]
      BY <2>3 DEF ConnectNested
    <3>2. Queued(queue', holds)
      BY <1>1, <3>1, AskKeeps
    <3>3. QED
      BY <1>1, <2>3, <3>2 DEF ConnectNested, ReaderTypes
  <2>4. QED
    BY <2>1, <2>2, <2>3
<1>3. UNCHANGED <<session, dirty, committed, writerVars>>
  BY DEF Request, Connect, ConnectNested, serverVars
<1>4. TxInv'
  BY <1>3, TxInvKept DEF PoolInv
<1>5. QED
  BY <1>2, <1>3, <1>4 DEF PoolInv, TypeOK, ReaderTypes, Queued, writerVars

LEMMA CloseIdleKeeps ==
  ASSUME PoolInv, NEW c \in Client, CloseIdle(c)
  PROVE  PoolInv'
<1>1. ReaderTypes'
  BY DEF CloseIdle, CutOff, PoolInv, TypeOK, ReaderTypes
<1>2. Queued(queue', holds)
  BY CloseKeeps DEF CloseIdle, CutOff, PoolInv
<1>3. UNCHANGED <<session, dirty, committed, writerVars>>
  BY DEF CloseIdle
<1>4. TxInv'
  BY <1>3, TxInvKept DEF PoolInv
<1>5. QED
  BY <1>1, <1>2, <1>3, <1>4 DEF PoolInv, TypeOK, ReaderTypes, Queued, writerVars

(* A failing query of a request leaves an aborted transaction behind, of a *)
(* writer that counts as spoiled.                                          *)
LEMMA AnswerReaderKeeps ==
  ASSUME PoolInv, NEW c \in Client, AnswerReader(c)
  PROVE  PoolInv'
<1> DEFINE r == At(c)
<1>1. ReaderTypes /\ Queued(queue, holds) /\ r \in Reader
  BY DEF PoolInv, TypeOK, ReaderTypes, AnswerReader
<1>2. Queued(Popped(c), holds)
  BY <1>1, PopKeeps DEF Popped, AnswerReader, Answers
<1>3. ReaderTypes' /\ Queued(queue', holds)
  <2>1. CASE RunTo(r, rstep[r] + 1, handle[r], Popped(c))
    <3>1. rstep[r] + 1 \in Nat \ {0} /\ handle[r] \in Client \cup {None}
      BY <1>1, PoolAssumption DEF ReaderTypes
    <3>2. QED
      BY <1>1, <1>2, <2>1, <3>1, RunToKeeps
  <2>2. CASE RunTo(r, Len(Program) + 1, None, Popped(c))
    <3>1. Len(Program) + 1 \in Nat \ {0}
      BY PoolAssumption
    <3>2. QED
      BY <1>1, <1>2, <2>2, <3>1, RunToKeeps
  <2>3. QED
    BY <2>1, <2>2 DEF AnswerReader
<1>4. /\ UNCHANGED <<dirty, committed, wstep, holds, told>>
      /\ \/ UNCHANGED <<session, spoiled>>
         \/ /\ session' = [session EXCEPT ![c] = IF @ = "open" THEN "aborted" ELSE @]
            /\ spoiled' = {w \in Writer : holds[w] = c /\ session[c] = "open"} \cup spoiled
  BY DEF AnswerReader
<1>5. session' \in [Client -> {"none", "open", "aborted"}] /\ spoiled' \in SUBSET Writer
  BY <1>4 DEF PoolInv, TypeOK
<1>6. TxInv'
  <2>1. CASE UNCHANGED <<session, spoiled>>
    BY <1>4, <2>1, TxInvKept DEF PoolInv, writerVars
  <2>2. CASE /\ session' = [session EXCEPT ![c] = IF @ = "open" THEN "aborted" ELSE @]
             /\ spoiled' = {w \in Writer : holds[w] = c /\ session[c] = "open"} \cup spoiled
    <3>1. /\ \A d \in Client : session[d] = "none" <=> session'[d] = "none"
          /\ \A d \in Client : session'[d] = "open" => session[d] = "open"
          /\ spoiled \subseteq spoiled'
          /\ \A w \in Writer : holds[w] # None /\ session'[holds[w]] = "aborted" =>
               session[holds[w]] = "aborted" \/ w \in spoiled'
      BY <2>2, PoolAssumption DEF PoolInv, TypeOK
    <3>2. Apart' /\ Running'
      BY <1>4 DEF PoolInv, TxInv, Apart, Running
    <3>3. Quiet'
      BY <1>4, <3>1 DEF PoolInv, TxInv, Quiet, Busy
    <3>4. OnTheWay'
      <4>1. ASSUME NEW w \in Writer, holds[w] # None
            PROVE  Progress(w, holds[w])'
        <5>1. Progress(w, holds[w]) /\ holds[w] \in Client
          BY <4>1 DEF PoolInv, TypeOK, TxInv, OnTheWay
        <5>2. QED
          BY <1>4, <3>1, <4>1, <5>1 DEF Progress
      <4>2. QED
        BY <1>4, <4>1 DEF OnTheWay
    <3>5. AllSettled'
      BY <1>4, <3>1 DEF PoolInv, TxInv, AllSettled, Settled
    <3>6. QED
      BY <3>2, <3>3, <3>4, <3>5 DEF TxInv
  <2>3. QED
    BY <1>4, <2>1, <2>2
<1>7. QED
  BY <1>3, <1>4, <1>5, <1>6 DEF PoolInv, TypeOK, ReaderTypes, Queued

--------------------------------------------------------------------------------
(* Transactions *)

LEMMA ConnectTxKeeps ==
  ASSUME PoolInv, NEW w \in Writer, ConnectTx(w)
  PROVE  PoolInv'
<1>1. PICK c \in Client \ Busy :
        /\ holds' = [holds EXCEPT ![w] = c]
        /\ queue' = [queue EXCEPT ![c] = Append(@, w)]
  BY DEF ConnectTx
<1>2. /\ wstep[w] = 0 /\ told[w] \notin {"ok", "cut"}
      /\ wstep' = [wstep EXCEPT ![w] = Begin]
      /\ told' = [told EXCEPT ![w] = "none"]
      /\ spoiled' = spoiled \ {w}
      /\ UNCHANGED <<session, dirty, committed, readerVars>>
  BY DEF ConnectTx
<1>3. TypeOK /\ Queued(queue, holds) /\ TxInv
  BY DEF PoolInv
<1>4. holds[w] = None /\ c \in Client /\ c # None
      /\ \A v \in Writer : holds[v] # c
  BY <1>1, <1>2, <1>3, PoolAssumption DEF TxInv, Running, Busy
<1>5. Queued(queue', holds')
  <2>1. NotIn(queue, w)
    BY <1>3, <1>4, FreeIsNotIn
  <2>2. holds'[w] = c /\ \A v \in Writer \ {w} : holds'[v] = holds[v]
    BY <1>1, <1>3 DEF TypeOK
  <2>3. Queued([queue EXCEPT ![c] = Append(@, w)], holds')
    BY <1>3, <1>4, <2>1, <2>2, SendKeeps
  <2>4. QED
    BY <1>1, <2>3
<1>6. TypeOK'
  BY <1>1, <1>2, <1>3, <1>5, PoolAssumption
     DEF TypeOK, Queued, Begin, Rollback, readerVars
<1>7. Apart'
  BY <1>1, <1>3, <1>4 DEF TypeOK, TxInv, Apart
<1>8. Running'
  BY <1>1, <1>2, <1>3, <1>4 DEF TypeOK, TxInv, Running, Begin
<1>9. Quiet'
  <2>1. ASSUME NEW d \in Client, d \notin Busy'
        PROVE  d \notin Busy
    BY <1>1, <1>3, <1>4, <2>1 DEF TypeOK, Busy
  <2>2. QED
    BY <1>2, <1>3, <2>1 DEF TxInv, Quiet
<1>10. OnTheWay'
  <2>1. Progress(w, c)'
    <3>1. session[c] = "none" /\ dirty[c] = {} /\ wstep'[w] = Begin
      BY <1>1, <1>2, <1>3 DEF TypeOK, TxInv, Quiet
    <3>2. QED
      BY <1>2, <3>1 DEF Progress, Begin
  <2>2. ASSUME NEW v \in Writer \ {w}, holds[v] # None
        PROVE  Progress(v, holds[v])'
    <3>1. Progress(v, holds[v])
      BY <1>3, <2>2 DEF TxInv, OnTheWay
    <3>2. /\ holds'[v] = holds[v] /\ wstep'[v] = wstep[v]
          /\ v \in spoiled' <=> v \in spoiled
      BY <1>1, <1>2, <1>3, <2>2 DEF TypeOK
    <3>3. QED
      BY <1>2, <3>1, <3>2 DEF Progress
  <2>3. holds'[w] = c /\ \A v \in Writer \ {w} : holds'[v] = holds[v]
    BY <1>1, <1>3 DEF TypeOK
  <2>4. ASSUME NEW v \in Writer, holds'[v] # None
        PROVE  Progress(v, holds[v])'
    <3>1. CASE v = w
      BY <2>1, <2>3, <3>1 DEF Progress
    <3>2. CASE v # w
      BY <2>2, <2>3, <2>4, <3>2
    <3>3. QED
      BY <3>1, <3>2
  <2>5. QED
    BY <2>4 DEF OnTheWay
<1>11. AllSettled'
  BY <1>2, <1>3 DEF TypeOK, TxInv, AllSettled, Settled
<1>12. QED
  BY <1>5, <1>6, <1>7, <1>8, <1>9, <1>10, <1>11 DEF PoolInv, TxInv

(* What the answer to a writer finds. *)
LEMMA WriterTurn ==
  ASSUME PoolInv, NEW c \in Client, AnswerWriter(c)
  PROVE  /\ At(c) \in Writer /\ holds[At(c)] = c
         /\ wstep[At(c)] # 0 /\ told[At(c)] = "none" /\ Progress(At(c), c)
         /\ \A v \in Writer \ {At(c)} : holds[v] # c
         /\ Queued(Popped(c), holds) /\ NotIn(Popped(c), At(c))
<1>1. At(c) \in Writer /\ Queued(queue, holds) /\ queue[c] # <<>>
  BY DEF AnswerWriter, Answers, PoolInv
<1>2. /\ holds[At(c)] = c
      /\ Queued(Popped(c), holds) /\ NotIn(Popped(c), At(c))
  BY <1>1, PopKeeps DEF At, Popped
<1>3. c # None
  BY PoolAssumption
<1>4. QED
  BY <1>1, <1>2, <1>3 DEF PoolInv, TxInv, Apart, Running, OnTheWay

(* A statement within a transaction leaves all other writers as they are;  *)
(* it is enough to see that its own writer is on its way.                  *)
LEMMA StatementKeeps ==
  ASSUME PoolInv, NEW c \in Client, AnswerWriter(c), NEW w \in Writer, w = At(c),
         NEW s \in (Begin + 1)..Rollback, Send(w, s, c),
         session' \in [Client -> {"none", "open", "aborted"}],
         dirty' \in [Client -> SUBSET Row],
         \A d \in Client \ {c} : session'[d] = session[d] /\ dirty'[d] = dirty[d],
         UNCHANGED committed,
         Progress(w, c)'
  PROVE  PoolInv'
<1>1. /\ w \in Writer /\ holds[w] = c /\ wstep[w] # 0 /\ told[w] = "none"
      /\ \A v \in Writer \ {w} : holds[v] # c
      /\ Queued(Popped(c), holds) /\ NotIn(Popped(c), w)
  BY WriterTurn
<1>2. /\ wstep' = [wstep EXCEPT ![w] = s]
      /\ queue' = [Popped(c) EXCEPT ![c] = Append(@, w)]
      /\ UNCHANGED <<holds, told, committed, readerVars, spoiled>>
  BY DEF Send, AnswerWriter
<1>3. TypeOK /\ TxInv
  BY DEF PoolInv
<1>4. s \in 0..Rollback /\ s # 0
  BY PoolAssumption DEF Begin, Rollback
<1>5. Queued(queue', holds')
  <2>1. Queued([Popped(c) EXCEPT ![c] = Append(@, w)], holds)
    BY <1>1, SendKeeps
  <2>2. QED
    BY <1>2, <2>1
<1>6. TypeOK'
  BY <1>2, <1>3, <1>4, <1>5 DEF TypeOK, Queued, readerVars
<1>7. Apart' /\ Running'
  BY <1>1, <1>2, <1>3, <1>4, PoolAssumption DEF TypeOK, TxInv, Apart, Running
<1>8. Quiet'
  BY <1>1, <1>2, <1>3, PoolAssumption DEF TxInv, Quiet, Busy
<1>9. OnTheWay'
  <2>1. ASSUME NEW v \in Writer \ {w}, holds[v] # None
        PROVE  Progress(v, holds[v])'
    <3>1. Progress(v, holds[v]) /\ holds[v] \in Client \ {c}
      BY <1>1, <1>3, <2>1 DEF TypeOK, TxInv, OnTheWay
    <3>2. QED
      BY <1>2, <1>3, <2>1, <3>1 DEF TypeOK, Progress
  <2>2. QED
    BY <1>1, <1>2, <2>1 DEF OnTheWay
<1>10. AllSettled'
  BY <1>2, <1>3 DEF TxInv, AllSettled, Settled
<1>11. QED
  BY <1>5, <1>6, <1>7, <1>8, <1>9, <1>10 DEF PoolInv, TxInv

LEMMA SucceedKeeps ==
  ASSUME PoolInv, NEW c \in Client, AnswerWriter(c), NEW w \in Writer, w = At(c),
         Succeed(w, c)
  PROVE  PoolInv'
<1>1. /\ holds[w] = c /\ Progress(w, c) /\ TypeOK
  BY WriterTurn DEF PoolInv
<1>2. /\ wstep[w] \in Begin..(RowCount + 1) /\ session[c] # "aborted"
      /\ session' = [session EXCEPT ![c] = "open"]
      /\ dirty' = [dirty EXCEPT ![c] =
                     IF wstep[w] = Begin THEN @ ELSE @ \cup {<<w, wstep[w] - 1>>}]
      /\ UNCHANGED committed
  BY DEF Succeed
<1>3. RowCount \in Nat \ {0} /\ wstep[w] \in 1..(RowCount + 1)
  BY <1>2, PoolAssumption DEF Begin
<1>4. PICK s \in {wstep[w] + 1, Rollback} : Send(w, s, c)
  BY DEF Succeed, OnError
<1>5. s \in (Begin + 1)..Rollback /\ wstep'[w] = s
  BY <1>1, <1>3, <1>4 DEF Send, Begin, Rollback, TypeOK
<1>6. dirty'[c] = {w} \X (1..(wstep[w] - 1))
  <2>1. CASE wstep[w] = Begin
    BY <1>1, <1>2, <2>1 DEF Progress, Begin, TypeOK
  <2>2. CASE wstep[w] # Begin
    <3>1. session[c] = "open"
      BY <1>1, <1>2, <1>3, <2>2 DEF Progress, Begin, Commit, TypeOK
    <3>2. dirty[c] = {w} \X (1..(wstep[w] - 2))
      BY <1>1, <1>3, <2>2, <3>1 DEF Progress, Begin, Commit
    <3>3. dirty'[c] = dirty[c] \cup {<<w, wstep[w] - 1>>}
      BY <1>1, <1>2, <2>2 DEF TypeOK
    <3>4. 1..(wstep[w] - 1) = 1..(wstep[w] - 2) \cup {wstep[w] - 1}
      BY <1>3, <2>2 DEF Begin
    <3>5. QED
      BY <3>2, <3>3, <3>4
  <2>3. QED
    BY <2>1, <2>2
<1>7. dirty'[c] \subseteq RowsOf(w)
  BY <1>3, <1>6 DEF RowsOf
<1>8. session' \in [Client -> {"none", "open", "aborted"}] /\ session'[c] = "open"
  BY <1>1, <1>2 DEF TypeOK
<1>9. dirty' \in [Client -> SUBSET Row]
  BY <1>1, <1>2, <1>7 DEF TypeOK, Row, RowsOf
<1>10. Progress(w, c)'
  <2>1. wstep'[w] # Begin
    BY <1>3, <1>4, <1>5 DEF Begin
  <2>2. wstep'[w] \in (Begin + 1)..Commit => wstep[w] - 1 = wstep'[w] - 2
    BY <1>3, <1>4, <1>5 DEF Begin, Commit, Rollback
  <2>3. QED
    BY <1>6, <1>7, <1>8, <2>1, <2>2 DEF Progress, RowsOf
<1>11. \A d \in Client \ {c} : session'[d] = session[d] /\ dirty'[d] = dirty[d]
  BY <1>1, <1>2 DEF TypeOK
<1>12. QED
  BY <1>2, <1>4, <1>5, <1>8, <1>9, <1>10, <1>11, StatementKeeps

LEMMA RefuseKeeps ==
  ASSUME PoolInv, NEW c \in Client, AnswerWriter(c), NEW w \in Writer, w = At(c),
         Refuse(w, c)
  PROVE  PoolInv'
<1>1. holds[w] = c /\ Progress(w, c) /\ TypeOK
  BY WriterTurn DEF PoolInv
<1>2. /\ Send(w, Rollback, c)
      /\ session' = [session EXCEPT ![c] = "aborted"]
      /\ UNCHANGED <<dirty, committed>>
  BY DEF Refuse, OnError
<1>3. Rollback \in (Begin + 1)..Rollback /\ Rollback > Commit /\ Commit > Begin
  BY PoolAssumption DEF Begin, Commit, Rollback
<1>4. wstep'[w] = Rollback
  BY <1>1, <1>2 DEF Send, TypeOK
<1>5. Progress(w, c)'
  BY <1>1, <1>2, <1>3, <1>4, PoolAssumption
     DEF Progress, RowsOf, Begin, Commit, Rollback
<1>6. QED
  BY <1>1, <1>2, <1>3, <1>5, StatementKeeps DEF TypeOK

(* What others keep of their transactions when that of w on c ends, with   *)
(* or without its rows.                                                    *)
LEMMA EndKeeps ==
  ASSUME PoolInv, NEW w \in Writer, NEW c \in Client, holds[w] = c,
         session' = [session EXCEPT ![c] = "none"],
         dirty' = [dirty EXCEPT ![c] = {}],
         wstep' = [wstep EXCEPT ![w] = 0],
         holds' = [holds EXCEPT ![w] = None],
         NEW how \in {"ok", "failed", "cut"}, told' = [told EXCEPT ![w] = how],
         committed' \subseteq committed \cup RowsOf(w), committed \subseteq committed',
         Queued(queue', holds'), ReaderTypes', UNCHANGED spoiled, Settled(w)'
  PROVE  PoolInv'
<1>1. TypeOK /\ TxInv /\ c # None
  BY PoolAssumption DEF PoolInv
<1>2. \A v \in Writer \ {w} : holds[v] # c
  BY <1>1 DEF TxInv, Apart
<1>3. TypeOK'
  <2>1. Rollback \in Nat
    BY PoolAssumption DEF Rollback
  <2>2. committed' \in SUBSET Row
    BY <1>1 DEF TypeOK, Row, RowsOf
  <2>3. QED
    BY <1>1, <2>1, <2>2 DEF TypeOK, Queued, ReaderTypes
<1>4. Apart' /\ Running'
  BY <1>1 DEF TypeOK, TxInv, Apart, Running
<1>5. Quiet'
  <2>1. ASSUME NEW d \in Client \ {c}, d \notin Busy'
        PROVE  d \notin Busy
    BY <1>1, <2>1 DEF TypeOK, Busy
  <2>2. QED
    BY <1>1, <2>1 DEF TypeOK, TxInv, Quiet
<1>6. OnTheWay'
  <2>1. ASSUME NEW v \in Writer, holds'[v] # None
        PROVE  Progress(v, holds[v])'
    <3>1. v # w /\ holds'[v] = holds[v]
      BY <1>1, <2>1 DEF TypeOK
    <3>2. Progress(v, holds[v]) /\ holds[v] \in Client \ {c}
      BY <1>1, <1>2, <2>1, <3>1 DEF TypeOK, TxInv, OnTheWay
    <3>3. QED
      BY <1>1, <3>1, <3>2 DEF TypeOK, Progress
  <2>2. QED
    BY <2>1 DEF OnTheWay
<1>7. ASSUME NEW v \in Writer, v # w
      PROVE  Settled(v)'
  <2>1. RowsOf(v) \cap RowsOf(w) = {} /\ told'[v] = told[v]
    BY <1>1, <1>7 DEF TypeOK, RowsOf
  <2>2. RowsOf(v) \cap committed' = RowsOf(v) \cap committed
    BY <2>1
  <2>3. QED
    BY <1>1, <2>1, <2>2 DEF TxInv, AllSettled, Settled, RowsOf
<1>8. AllSettled'
  BY <1>7 DEF AllSettled, Settled
<1>9. QED
  BY <1>3, <1>4, <1>5, <1>6, <1>8 DEF PoolInv, TxInv

(* COMMIT finds all of the transaction's rows, or an aborted transaction.  *)
LEMMA EndTxKeeps ==
  ASSUME PoolInv, NEW c \in Client, AnswerWriter(c), NEW w \in Writer, w = At(c),
         EndTx(w, c)
  PROVE  PoolInv'
<1> DEFINE how == IF wstep[w] = Commit THEN "ok" ELSE "failed"
<1>1. /\ holds[w] = c /\ told[w] = "none" /\ Progress(w, c)
      /\ \A v \in Writer \ {w} : holds[v] # c
      /\ Queued(Popped(c), holds) /\ NotIn(Popped(c), w)
  BY WriterTurn
<1>2. /\ wstep[w] \in {Commit, Rollback}
      /\ committed' = IF wstep[w] = Commit /\ session[c] = "open"
                      THEN committed \cup dirty[c] ELSE committed
      /\ session' = [session EXCEPT ![c] = "none"]
      /\ dirty' = [dirty EXCEPT ![c] = {}]
      /\ wstep' = [wstep EXCEPT ![w] = 0]
      /\ holds' = [holds EXCEPT ![w] = None]
      /\ told' = [told EXCEPT ![w] = how]
      /\ queue' = Popped(c)
      /\ UNCHANGED <<readerVars, spoiled>>
  BY DEF EndTx, Settle, AnswerWriter
<1>3. TypeOK /\ TxInv /\ c # None
  BY PoolAssumption DEF PoolInv
<1>4. how \in {"ok", "failed"}
  OBVIOUS
<1> HIDE DEF how
<1>5. Queued(queue', holds')
  <2>1. \A v \in Writer \ {w} : holds'[v] = holds[v]
    BY <1>2, <1>3 DEF TypeOK
  <2>2. Queued(Popped(c), holds')
    BY <1>1, <2>1, ReleaseKeeps
  <2>3. QED
    BY <1>2, <2>2
<1>6. committed' \subseteq committed \cup RowsOf(w) /\ committed \subseteq committed'
  BY <1>1, <1>2 DEF Progress
<1>7. Settled(w)'
  <2>1. RowsOf(w) \cap committed = {} /\ told'[w] = how
    BY <1>1, <1>2, <1>3 DEF TypeOK, TxInv, AllSettled, Settled
  <2>2. Commit \in (Begin + 1)..Commit /\ Rollback # Commit /\ Commit - 2 = RowCount
    BY PoolAssumption DEF Begin, Commit, Rollback
  <2>3. CASE wstep[w] = Rollback
    BY <1>2, <2>1, <2>2, <2>3 DEF Settled, RowsOf, how
  <2>4. CASE wstep[w] = Commit /\ session[c] = "open"
    <3>1. dirty[c] = RowsOf(w)
      BY <1>1, <2>2, <2>4 DEF Progress, RowsOf
    <3>2. RowsOf(w) \subseteq committed' /\ told'[w] = "ok"
      BY <1>2, <2>1, <2>4, <3>1 DEF how
    <3>3. QED
      BY <3>2 DEF Settled, RowsOf
  <2>5. CASE wstep[w] = Commit /\ session[c] # "open"
    <3>1. w \in spoiled
      BY <1>1, <1>3, <2>2, <2>5 DEF Progress, TypeOK
    <3>2. committed' = committed /\ told'[w] = "ok" /\ spoiled' = spoiled
      BY <1>2, <2>1, <2>5 DEF how
    <3>3. QED
      BY <2>1, <3>1, <3>2 DEF Settled, RowsOf
  <2>6. QED
    BY <1>2, <2>3, <2>4, <2>5
<1>8. ReaderTypes'
  BY <1>2, <1>3 DEF TypeOK, ReaderTypes, readerVars
<1>9. QED
  BY <1>1, <1>2, <1>4, <1>5, <1>6, <1>7, <1>8, EndKeeps

(* A broken connection takes all of its transaction with it, or none.      *)
LEMMA BreakKeeps ==
  ASSUME PoolInv, NEW w \in Writer, Break(w)
  PROVE  PoolInv'
<1> DEFINE c == holds[w]
           how == IF wstep[w] = Commit THEN "cut" ELSE "failed"
<1>1. TypeOK /\ TxInv /\ Queued(queue, holds)
  BY DEF PoolInv
<1>2. c \in Client /\ Progress(w, c) /\ wstep[w] # 0 /\ told[w] = "none"
  BY <1>1, PoolAssumption DEF Break, TypeOK, TxInv, OnTheWay, Running
<1>3. /\ queue' = [queue EXCEPT ![c] = <<>>]
      /\ \/ committed' = committed
         \/ /\ wstep[w] = Commit /\ session[c] = "open"
            /\ committed' = committed \cup dirty[c]
      /\ session' = [session EXCEPT ![c] = "none"]
      /\ dirty' = [dirty EXCEPT ![c] = {}]
      /\ wstep' = [wstep EXCEPT ![w] = 0]
      /\ holds' = [holds EXCEPT ![w] = None]
      /\ told' = [told EXCEPT ![w] = how]
      /\ UNCHANGED spoiled
  BY DEF Break, CutOff
<1>4. how \in {"ok", "failed", "cut"}
  OBVIOUS
<1>5. ReaderTypes'
  BY <1>1 DEF Break, CutOff, TypeOK, ReaderTypes
<1>6. Queued(queue', holds')
  <2>1. Queued(queue', holds)
    BY <1>1, <1>2, <1>3, CloseKeeps
  <2>2. NotIn(queue', w)
    <3>1. SUFFICES ASSUME NEW d \in Client, NEW i \in 1..Len(queue'[d]), queue'[d][i] = w
                   PROVE  FALSE
      BY DEF NotIn
    <3>2. d = c
      BY <2>1, <3>1 DEF Queued
    <3>3. QED
      BY <1>1, <1>3, <3>1, <3>2 DEF TypeOK
  <2>3. \A v \in Writer \ {w} : holds'[v] = holds[v]
    BY <1>1, <1>3 DEF TypeOK
  <2>4. QED
    BY <2>1, <2>2, <2>3, ReleaseKeeps
<1>7. committed' \subseteq committed \cup RowsOf(w) /\ committed \subseteq committed'
  BY <1>2, <1>3 DEF Progress
<1>8. Settled(w)'
  <2>1. RowsOf(w) \cap committed = {} /\ told'[w] = how
    BY <1>1, <1>2, <1>3 DEF TypeOK, TxInv, AllSettled, Settled
  <2>2. CASE committed' = committed
    BY <2>1, <2>2 DEF Settled, RowsOf
  <2>3. CASE /\ wstep[w] = Commit /\ session[c] = "open"
             /\ committed' = committed \cup dirty[c]
    <3>1. Commit \in (Begin + 1)..Commit /\ Commit - 2 = RowCount
      BY PoolAssumption DEF Begin, Commit
    <3>2. dirty[c] = RowsOf(w)
      BY <1>2, <2>3, <3>1 DEF Progress, RowsOf
    <3>3. RowsOf(w) \subseteq committed' /\ told'[w] = "cut"
      BY <2>1, <2>3, <3>2
    <3>4. QED
      BY <3>3 DEF Settled, RowsOf
  <2>4. QED
    BY <1>3, <2>2, <2>3
<1> HIDE DEF how, c
<1>9. QED
  BY <1>2, <1>3, <1>4, <1>5, <1>6, <1>7, <1>8, EndKeeps DEF c

--------------------------------------------------------------------------------
(* Theorems *)

THEOREM PoolInvInit == Init => PoolInv
<1> SUFFICES ASSUME Init PROVE PoolInv
  OBVIOUS
<1>1. TypeOK
  BY PoolAssumption DEF Init, TypeOK, Begin, Rollback
<1>2. Queued(queue, holds)
  BY <1>1 DEF Init, TypeOK, Queued
<1>3. TxInv
  BY DEF Init, TxInv, Apart, Running, Quiet, OnTheWay, AllSettled, Settled
<1>4. QED
  BY <1>1, <1>2, <1>3 DEF PoolInv

THEOREM PoolInvStep == PoolInv /\ [Next]_vars => PoolInv'
<1> SUFFICES ASSUME PoolInv, [Next]_vars PROVE PoolInv'
  OBVIOUS
<1>1. ASSUME NEW r \in Reader, Request(r) \/ Connect(r) \/ ConnectNested(r)
      PROVE  PoolInv'
  BY <1>1, ReaderStepKeeps
<1>2. ASSUME NEW c \in Client, AnswerReader(c)
      PROVE  PoolInv'
  BY <1>2, AnswerReaderKeeps
<1>3. ASSUME NEW c \in Client, CloseIdle(c)
      PROVE  PoolInv'
  BY <1>3, CloseIdleKeeps
<1>4. ASSUME NEW c \in Client, AnswerWriter(c)
      PROVE  PoolInv'
  <2>1. PICK w \in Writer : w = At(c)
    BY <1>4, WriterTurn
  <2>2. Succeed(w, c) \/ Refuse(w, c) \/ EndTx(w, c)
    BY <1>4, <2>1 DEF AnswerWriter
  <2>3. QED
    BY <1>4, <2>1, <2>2, SucceedKeeps, RefuseKeeps, EndTxKeeps
<1>5. ASSUME NEW w \in Writer, ConnectTx(w)
      PROVE  PoolInv'
  BY <1>5, ConnectTxKeeps
<1>6. ASSUME NEW w \in Writer, Break(w)
      PROVE  PoolInv'
  BY <1>6, BreakKeeps
<1>7. CASE UNCHANGED vars
  <2>1. UNCHANGED <<session, dirty, committed, writerVars>>
    BY <1>7 DEF vars, serverVars
  <2>2. TxInv'
    BY <2>1, TxInvKept DEF PoolInv
  <2>3. QED
    BY <1>7, <2>2
       DEF vars, serverVars, readerVars, writerVars, PoolInv, TypeOK, Queued
<1>8. QED
  BY <1>1, <1>2, <1>3, <1>4, <1>5, <1>6, <1>7 DEF Next

(* PGPool's state has the types it should have, whatever the interleaving. *)
THEOREM PoolTypeCorrect == Spec => []TypeOK
<1>1. PoolInv => TypeOK
  BY DEF PoolInv
<1>2. QED
  BY <1>1, PoolInvInit, PoolInvStep, PTL DEF Spec

(* executeTx keeps its transactions whole, however many requests run their *)
(* queries on its client meanwhile (PGClient.ts).                          *)
THEOREM TransactionsAreWhole == Spec => []AllOrNothing
<1>1. PoolInv => AllOrNothing
  BY DEF PoolInv, TxInv, AllSettled, Settled, AllOrNothing
<1>2. QED
  BY <1>1, PoolInvInit, PoolInvStep, PTL DEF Spec

(* A caller of executeTx that gets an error has changed nothing, unless    *)
(* its connection broke on COMMIT.                                         *)
THEOREM RefusalChangesNothing == Spec => []RefusedIsAbsent
<1>1. PoolInv => RefusedIsAbsent
  BY DEF PoolInv, TxInv, AllSettled, Settled, RefusedIsAbsent
<1>2. QED
  BY <1>1, PoolInvInit, PoolInvStep, PTL DEF Spec

(* A caller of executeTx that gets no error has its rows in the database,  *)
(* or a request's query failed inside its transaction.                     *)
THEOREM SuccessIsDurable == Spec => []LostOnlyByARead
<1>1. PoolInv => LostOnlyByARead
  BY DEF PoolInv, TxInv, AllSettled, Settled, LostOnlyByARead
<1>2. QED
  BY <1>1, PoolInvInit, PoolInvStep, PTL DEF Spec
===============================================================================
