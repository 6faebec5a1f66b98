-------------------------- MODULE EastServiceProofs --------------------------
(***************************************************************************)
(* The listener and the poller in one process.  Neither disturbs the       *)
(* invariant of the other, so that what is proved of each holds of both;   *)
(* and the table they share keeps what it was told: every payout that the  *)
(* journal announces is watched, and the status it is shown with is its    *)
(* own.                                                                    *)
(***************************************************************************)
EXTENDS EastService, EastReplicaProofs

\* The poller again, with its proofs.
P == INSTANCE StatusPollerProofs
            WITH Tx <- PolledTx, Address <- Addr, Calls <- ClientCalls,
                 up <- serving

-----------------------------------------------------------------------------
(* The steps of the service.                                               *)

(* What is assumed of the poller's constants holds of those given here.    *)
LEMMA PollerAssumed == P!PollerAssumption
  BY ServiceAssumption, ListenerAssumption DEF P!PollerAssumption

(* Both instances of the poller have the same steps.                       *)
LEMMA SamePoller ==
  /\ Poller!Tick => P!Tick
  /\ Poller!Serve => P!Serve
  /\ Poller!Post => P!Post
  /\ \A t : Poller!Report(t) => P!Report(t)
  /\ Poller!SomeAnswer => P!SomeAnswer
  /\ Poller!SomeUpdate => P!SomeUpdate
  /\ Poller!SomeFailure => P!SomeFailure
<1>1. /\ Poller!Tick => P!Tick
      /\ Poller!Serve => P!Serve
  BY DEF P!Tick, Poller!Tick, P!Serve, Poller!Serve,
         P!UpdateStatuses, Poller!UpdateStatuses, P!Older, Poller!Older,
         P!Due, Poller!Due, P!Batches, Poller!Batches, P!Asking,
         Poller!Asking, P!NoAnswer, Poller!NoAnswer, P!Cardinality,
         Poller!Cardinality, P!IsFiniteSet, Poller!IsFiniteSet
<1>2. Poller!Post => P!Post
  BY DEF P!Post, Poller!Post, P!SetUserContractCall, Poller!SetUserContractCall,
         P!RowsOf, Poller!RowsOf
<1>3. \A t : Poller!Report(t) => P!Report(t)
  BY DEF P!Report, Poller!Report
<1>4. /\ Poller!SomeAnswer => P!SomeAnswer
      /\ Poller!SomeUpdate => P!SomeUpdate
      /\ Poller!SomeFailure => P!SomeFailure
  BY DEF P!SomeAnswer, Poller!SomeAnswer, P!Receive, Poller!Receive,
         P!SomeUpdate, Poller!SomeUpdate, P!UpdateStatus, Poller!UpdateStatus,
         P!SomeFailure, Poller!SomeFailure, P!RoundFails, Poller!RoundFails,
         P!Unanswered, Poller!Unanswered, P!Without, Poller!Without,
         P!Updated, Poller!Updated, P!StatusOf, Poller!StatusOf,
         P!NoAnswer, Poller!NoAnswer, P!AnswerOf, Poller!AnswerOf,
         P!HasError, Poller!HasError, P!Collide, Poller!Collide
<1> QED  BY <1>1, <1>2, <1>3, <1>4

(* A step is one of the listener, with what that does to the shared table, *)
(* or one of the poller, and then of the node only where it says success   *)
(* of a call that was mined.                                               *)
PollerStep ==
    /\ UNCHANGED listenerVars
    /\ [P!Next]_(P!vars)
    /\ faults' = faults \/ (faults < MaxFaults /\ faults' = faults + 1)
    /\ UNCHANGED reports \/ SomeStatus

LEMMA StepIsOfOne ==
  ASSUME [ServiceNext]_serviceVars PROVE ListenerStep \/ PollerStep
<1>1. CASE UNCHANGED serviceVars
  BY <1>1 DEF serviceVars, pollerVars, PollerStep, P!vars
<1>2. CASE Serve \/ Tick
  <2>1. /\ UNCHANGED <<listenerVars, faults, reports>>
        /\ Poller!Serve \/ Poller!Tick
    BY <1>2 DEF Serve, Tick, Poller!Serve, Poller!Tick
  <2> QED  BY <2>1, SamePoller DEF PollerStep, P!Next
<1>3. CASE SomeStatus
  <2>1. PICK t \in PolledTx : StatusOfCall(t)
    BY <1>3 DEF SomeStatus
  <2>2. UNCHANGED <<listenerVars, faults>> /\ Poller!Report(t)
    BY <2>1 DEF StatusOfCall, Poller!Report
  <2> QED  BY <1>3, <2>2, SamePoller DEF PollerStep, P!Next, P!SomeReport
<1>4. CASE Post \/ SomeAnswer \/ SomeUpdate
  <2>1. /\ UNCHANGED <<listenerVars, faults, reports>>
        /\ Poller!Post \/ Poller!SomeAnswer \/ Poller!SomeUpdate
    BY <1>4 DEF Post, SomeAnswer, SomeUpdate, Poller!Post,
       Poller!SetUserContractCall, Poller!SomeAnswer, Poller!Receive,
       Poller!SomeUpdate, Poller!UpdateStatus
  <2> QED  BY <2>1, SamePoller DEF PollerStep, P!Next
<1>5. CASE SomeFailure
  <2>1. /\ UNCHANGED <<listenerVars, reports>> /\ Poller!SomeFailure
        /\ faults < MaxFaults /\ faults' = faults + 1
    BY <1>5 DEF SomeFailure, Poller!SomeFailure, Poller!RoundFails
  <2> QED  BY <2>1, SamePoller DEF PollerStep, P!Next
<1> QED  BY <1>1, <1>2, <1>3, <1>4, <1>5 DEF ServiceNext

-----------------------------------------------------------------------------
(* The poller does not disturb the listener.                               *)

LEMMA ListenerUndisturbed ==
  ASSUME BranchInv, PollerStep PROVE BranchInv'
<1>1. /\ UNCHANGED <<store, chain, stream, mode, db, statuses, trx, sent>>
      /\ faults' = faults \/ (faults < MaxFaults /\ faults' = faults + 1)
  BY DEF PollerStep, listenerVars
<1>2. JournalInv /\ BranchOK /\ KeysInv /\ IInv
  BY DEF BranchInv, JournalInv
<1>3. TypeOK'
  <2>1. faults' \in 0 .. MaxFaults
    BY <1>1, <1>2, ListenerAssumption DEF IInv, TypeOK
  <2> QED  BY <1>1, <1>2, <2>1 DEF IInv, TypeOK
<1>4. /\ IsFiniteSet(sent)' /\ ChainOK' /\ StreamOK' /\ SigsOK' /\ TrxOK'
      /\ DeliveryInOrder' /\ LastEntryIsNewest'
  BY <1>1, <1>2 DEF IInv, ChainOK, StreamOK, SigsOK, TrxOK, InTrx, Height,
     DeliveryInOrder, HeightAfter, LastEntryIsNewest, Visible
<1>5. /\ SentOK' /\ CallsOK' /\ SoundOK' /\ SentInv' /\ TrxAbove' /\ MatchInv'
  BY <1>1, <1>2 DEF JournalInv, SentOK, CallsOK, SoundOK, SentInv, TrxAbove,
     MatchInv, InTrx, Height
<1>6. BranchOK' /\ KeysInv'
  BY <1>1, <1>2 DEF BranchOK, KeysInv
<1> QED  BY <1>3, <1>4, <1>5, <1>6 DEF BranchInv, JournalInv, IInv

LEMMA BranchInvStep ==
  ASSUME BranchInv, [ServiceNext]_serviceVars PROVE BranchInv'
<1>1. CASE ListenerStep
  BY <1>1, BranchInvNext DEF ListenerStep
<1> QED  BY <1>1, StepIsOfOne, ListenerUndisturbed

(* The listener's invariant holds in the service.                          *)
THEOREM ServiceOnBranch == ServiceSpec => []BranchInv
<1>1. ServiceInit => BranchInv
  BY BranchInvInit DEF ServiceInit
<1>2. BranchInv /\ [ServiceNext]_serviceVars => BranchInv'
  BY BranchInvStep
<1> QED  BY <1>1, <1>2, PTL DEF ServiceSpec

-----------------------------------------------------------------------------
(* The statuses that the listener files.                                   *)

(* A handler files the status of the answer it gives to an init call, and  *)
(* no other.                                                               *)
FilesAnswer ==
    \E answer \in sent' :
      /\ answer.id = AnswerId(CurrentReq)
      /\ answer.address = CurrentReq.sender
      /\ trx'.statuses = trx.statuses \cup {Pending(answer)}

LEMMA HandlerFiles ==
  ASSUME IInv, HandleCall
  PROVE  \/ trx' = NoTrx
         \/ /\ trx'.statuses = trx.statuses
            /\ sent' = sent \/ CurrentReq.type = "liquidate"
         \/ CurrentReq.type \in Inits /\ FilesAnswer
<1> DEFINE r == CurrentReq
           t == trx.tables
<1>1. CASE InitClose
  <2> DEFINE answer == CloseAnswer(r)
  <2>1. /\ r.type = "close_init" /\ sent' = sent \cup {answer}
        /\ Advance(InsertTx(t, RequestRow(t, r, answer.id, "init", Height)),
                   {Pending(answer)})
    BY <1>1 DEF InitClose, Handles
  <2>2. answer.id = AnswerId(r) /\ answer.address = r.sender
    BY DEF CloseAnswer, Answer
  <2> HIDE DEF answer
  <2>3. trx'.statuses = trx.statuses \cup {Pending(answer)}
    BY <2>1, AdvanceFields
  <2> QED  BY <2>1, <2>2, <2>3 DEF FilesAnswer, Inits
<1>2. CASE ClaimPaid
  <2> DEFINE answer == ClaimAnswer(r)
  <2>1. /\ r.type = "claim_overpay_init" /\ sent' = sent \cup {answer}
        /\ Advance(InsertTx(t, RequestRow(t, r, answer.id, "init", Height)),
                   {Pending(answer)})
    BY <1>2 DEF ClaimPaid, Handles
  <2>2. answer.id = AnswerId(r) /\ answer.address = r.sender
    BY DEF ClaimAnswer, Answer
  <2> HIDE DEF answer
  <2>3. trx'.statuses = trx.statuses \cup {Pending(answer)}
    BY <2>1, AdvanceFields
  <2> QED  BY <2>1, <2>2, <2>3 DEF FilesAnswer, Inits
<1>3. CASE SkipCall \/ ReceiveTypicalTx \/ Close \/ Transfer \/ ClaimDeclined
  <2>1. PICK T : Advance(T, {})
    BY <1>3 DEF SkipCall, ReceiveTypicalTx, Close, Transfer, ClaimDeclined
  <2>2. trx'.statuses = trx.statuses
    BY <2>1, AdvanceFields
  <2>3. sent' = sent
    BY <1>3 DEF SkipCall, ReceiveTypicalTx, Close, Transfer, ClaimDeclined
  <2> QED  BY <2>2, <2>3
<1>4. CASE Liquidate
  <2>1. (\E T : Advance(T, {})) /\ r.type = "liquidate"
    BY <1>4 DEF Liquidate, Handles
  <2>2. trx'.statuses = trx.statuses
    BY <2>1, AdvanceFields
  <2> QED  BY <2>1, <2>2
<1>5. CASE SaveOracle
  <2>1. PICK n, T, aborted :
          trx' = [trx EXCEPT !.next = n, !.tables = T, !.aborted = aborted]
    BY <1>5 DEF SaveOracle
  <2>2. trx'.statuses = trx.statuses
    BY <2>1 DEF IInv, TypeOK
  <2> QED  BY <1>5, <2>2 DEF SaveOracle
<1>6. CASE HandlerThrows
  BY <1>6 DEF HandlerThrows, Exit
<1> QED  BY <1>1, <1>2, <1>3, <1>4, <1>5, <1>6 DEF HandleCall

(* What a step does to the statuses, committed or not.                     *)
LEMMA StatusesMove ==
  ASSUME JournalInv, [Next]_vars
  PROVE  \/ statuses' = statuses /\ trx'.statuses = {}
         \/ UNCHANGED statuses /\ trx'.statuses = trx.statuses
         \/ /\ UNCHANGED statuses /\ CallsLeft /\ CurrentReq \in Requests
            /\ CurrentReq.type \in Inits /\ FilesAnswer
         \/ /\ ~trx.aborted /\ Commit
            /\ statuses' = statuses \cup trx.statuses /\ trx'.statuses = {}
<1> USE DEF JournalInv
<1>1. NoTrx.statuses = {}
  BY DEF NoTrx
<1>2. CASE Mine \/ Fork \/ Start \/ Connect \/ RollbackLastBlock
           \/ RollbackToBlockSignature \/ UNCHANGED vars
  BY <1>2 DEF Mine, Fork, Start, Connect, RollbackLastBlock,
     RollbackToBlockSignature, vars
<1>3. CASE ExitNoContract \/ RollbackThrows \/ Crash
  BY <1>1, <1>3 DEF ExitNoContract, RollbackThrows, Crash, Exit
<1>4. CASE BeginBlock
  BY <1>4, BeginFacts
<1>5. CASE HandleCall
  <2>1. UNCHANGED statuses /\ CallsLeft
    BY <1>5 DEF HandleCall, SkipCall, SaveOracle, ReceiveTypicalTx, Close,
       Transfer, InitClose, ClaimDeclined, ClaimPaid, Liquidate,
       HandlerThrows, Advance, Handles
  <2>2. CurrentReq.type \in Inits => CurrentReq \in Requests
    BY <2>1, CurrentOffered DEF Inits, ServiceTypes
  <2> QED  BY <1>1, <1>5, <2>1, <2>2, HandlerFiles
<1>6. CASE Commit
  BY <1>1, <1>6 DEF Commit
<1> QED  BY <1>2, <1>3, <1>4, <1>5, <1>6 DEF Next, Listen

(* An "init" entry that a handler writes is that of the answer it filed.   *)
LEMMA InitIsFiled ==
  ASSUME JournalInv, [Next]_vars, LogsCall,
         NEW x \in trx'.tables.txs \ trx.tables.txs, x.status = "init"
  PROVE  \E u \in trx'.statuses : u.tx = x.tx /\ u.address = x.address
<1> USE DEF JournalInv
<1>1. CallsLeft
  BY DEF LogsCall
<1>2. PICK tx, status :
        /\ Logs(trx.tables, db, Current, Height, tx, status, trx'.tables)
        /\ CurrentReq.type \in Inits =>
             \/ status = "declined" /\ tx = CurrentReq.id
             \/ /\ status = "init" /\ tx = AnswerId(CurrentReq)
                /\ \E s \in sent' : /\ s.id = tx
                                    /\ s.request = CurrentReq.id
                                    /\ s.address = CurrentReq.sender
  BY DEF LogsCall
<1>3. PICK N : /\ trx'.tables.txs = trx.tables.txs \cup N
               /\ RowsOf(N, CurrentReq, Height, tx, status)
  BY <1>1, <1>2, CurrentHandled, LogsEffect DEF SoundOK, CurrentReq
<1>4. /\ CurrentReq.type \in Inits /\ x.tx = tx
      /\ x.address = CurrentReq.sender /\ status = "init"
  BY <1>3 DEF RowsOf, Inits
<1>5. tx = AnswerId(CurrentReq) /\ \E s \in sent' : s.id = tx
  BY <1>2, <1>4
<1>6. CurrentReq \in Requests
  BY <1>1, <1>4, CurrentOffered DEF Inits, ServiceTypes
<1>7. sent' # sent
  BY <1>5, <1>6, AnswerIdFresh
<1>8. CASE HandleCall /\ trx' # NoTrx
  <2>1. FilesAnswer
    BY <1>4, <1>7, <1>8, HandlerFiles DEF Inits
  <2>2. PICK answer \in sent' :
          /\ answer.id = AnswerId(CurrentReq)
          /\ answer.address = CurrentReq.sender
          /\ trx'.statuses = trx.statuses \cup {Pending(answer)}
    BY <2>1 DEF FilesAnswer
  <2>3. Pending(answer).tx = x.tx /\ Pending(answer).address = x.address
    BY <1>4, <1>5, <2>2 DEF Pending
  <2> QED  BY <2>2, <2>3
<1>9. HandleCall /\ trx' # NoTrx
  <2>1. trx' # NoTrx
    BY DEF NoTrx, EmptyTables
  <2>2. HandleCall
    BY <1>7 DEF Next, Listen, Mine, Fork, Start, Connect,
       RollbackLastBlock, ExitNoContract, BeginBlock, Commit,
       RollbackToBlockSignature, RollbackThrows, Crash, vars
  <2> QED  BY <2>1, <2>2
<1> QED  BY <1>8, <1>9

-----------------------------------------------------------------------------
(* The rows of the shared table.                                           *)

WatchRow == [tx : Id, address : Addr, status : {"pending", "success", "fail"},
             error : BOOLEAN, age : Int]

\* The row of a status when it is committed.
RowOf(u) == [tx |-> u.tx, address |-> u.address, status |-> u.status,
             error |-> FALSE, age |-> 0]

(* A step of the poller moves each row to one of the same call and         *)
(* address, or adds the row of a call that a client posts.                 *)
Moved == \E f \in [rows -> WatchRow] :
           /\ rows' = {f[r] : r \in rows}
           /\ \A r \in rows : f[r].tx = r.tx /\ f[r].address = r.address

Posted == \E c \in ClientCalls, new \in WatchRow :
            /\ new.tx = c[1] /\ new.address = c[2]
            /\ rows' = rows \cup {new}

LEMMA PollerRows ==
  ASSUME rows \in SUBSET WatchRow, [P!Next]_(P!vars) PROVE Moved \/ Posted
<1>1. CASE rows' = rows
  <2> DEFINE f == [r \in rows |-> r]
  <2>1. f \in [rows -> WatchRow] /\ rows' = {f[r] : r \in rows}
    BY <1>1
  <2> QED  BY <2>1 DEF Moved
<1>2. CASE P!Tick
  <2> DEFINE f == [r \in rows |-> [r EXCEPT !.age = IF @ < Expiry THEN @ + 1
                                                                  ELSE @]]
  <2>1. rows' = {f[r] : r \in rows}
    BY <1>2 DEF P!Tick, P!Older
  <2>2. ASSUME NEW r \in rows
        PROVE  f[r] \in WatchRow /\ f[r].tx = r.tx /\ f[r].address = r.address
    BY ServiceAssumption DEF WatchRow
  <2>3. f \in [rows -> WatchRow]
    BY <2>2
  <2> QED  BY <2>1, <2>2, <2>3 DEF Moved
<1>3. ASSUME NEW i \in DOMAIN rounds, P!UpdateStatus(i), rows' # rows
      PROVE  Moved
  <2> DEFINE round  == rounds[i]
             answer == round.answers[round.next]
             status == P!StatusOf(answer.code)
             error  == P!HasError(round)
             hit    == {r \in rows : r.tx = answer.tx}
             f      == [r \in rows |-> IF r \in hit
                                        THEN P!Updated(r, status, error) ELSE r]
  <2>1. rows' = (rows \ hit) \cup {P!Updated(r, status, error) : r \in hit}
    BY <1>3 DEF P!UpdateStatus
  <2>2. status \in {"success", "fail"} /\ error \in BOOLEAN
    BY DEF P!StatusOf, P!HasError
  <2>3. ASSUME NEW r \in rows
        PROVE  f[r] \in WatchRow /\ f[r].tx = r.tx /\ f[r].address = r.address
    <3> HIDE DEF hit, status, error
    <3>1. r \in WatchRow
      OBVIOUS
    <3>2. (r.error \/ error) \in BOOLEAN
      BY <2>2, <3>1 DEF WatchRow
    <3> QED  BY <2>2, <3>1, <3>2 DEF WatchRow, P!Updated
  <2>4. rows' = {f[r] : r \in rows}
    <3>1. hit \subseteq rows
      OBVIOUS
    <3> HIDE DEF hit, status, error
    <3> QED  BY <2>1, <3>1
  <2>5. f \in [rows -> WatchRow]
    BY <2>3
  <2> HIDE DEF f
  <2> QED  BY <2>3, <2>4, <2>5 DEF Moved
<1>4. CASE P!Post
  <2>1. PICK c \in ClientCalls, age \in PostedAges : P!SetUserContractCall(c, age)
    BY <1>4 DEF P!Post
  <2> DEFINE new == [tx |-> c[1], address |-> c[2], status |-> "pending",
                     error |-> FALSE, age |-> age]
  <2>2. rows' = rows \cup {new}
    BY <2>1 DEF P!SetUserContractCall
  <2>3. new \in WatchRow
    BY ServiceAssumption DEF WatchRow
  <2>4. new.tx = c[1] /\ new.address = c[2]
    OBVIOUS
  <2> HIDE DEF new
  <2> QED  BY <2>2, <2>3, <2>4 DEF Posted
<1> QED  BY <1>1, <1>2, <1>3, <1>4 DEF P!Next, P!vars, P!Serve, P!SomeReport,
            P!Report, P!SomeAnswer, P!Receive, P!SomeUpdate, P!SomeFailure,
            P!RoundFails, P!Crash

(* A step of the listener adds the rows of the statuses it commits.        *)
LEMMA ListenerRows ==
  ASSUME JournalInv, ListenerStep
  PROVE  /\ rows' = rows \cup {RowOf(u) : u \in statuses' \ statuses}
         /\ statuses' \ statuses \subseteq trx.statuses
         /\ \A u \in trx.statuses :
              /\ RowOf(u) \in WatchRow
              /\ RowOf(u).tx = u.tx /\ RowOf(u).address = u.address
              /\ RowOf(u).status = u.status /\ RowOf(u).error = FALSE
<1>1. rows' = rows \cup {RowOf(u) : u \in statuses' \ statuses}
  BY DEF ListenerStep, Committed, RowOf
<1>2. statuses' \ statuses \subseteq trx.statuses
  BY StatusesMove DEF ListenerStep
<1>3. \A u \in trx.statuses : RowOf(u) \in WatchRow
  BY DEF JournalInv, IInv, TypeOK, StatusRow, RowOf, WatchRow
<1> QED  BY <1>1, <1>2, <1>3 DEF RowOf

-----------------------------------------------------------------------------
(* Every payout that is announced is watched.                              *)

Filed(t, U) == \A r \in t.txs : r.status = "init" =>
                 \E u \in U : u.tx = r.tx /\ u.address = r.address

FiledInv == Filed(db, statuses) /\ Filed(trx.tables, statuses \cup trx.statuses)

LEMMA FiledInvNext ==
  ASSUME JournalInv, FiledInv, [Next]_vars PROVE FiledInv'
<1> PICK U, V, d, x : U = statuses' /\ V = trx'.statuses /\ d = db'
                      /\ x = trx'.tables
  OBVIOUS
<1>1. IInv /\ SentOK /\ CallsOK /\ SoundOK
  BY DEF JournalInv
<1>2. NoTrx.tables.txs = {}
  BY DEF NoTrx, EmptyTables
<1>3. Filed(d, U) /\ Filed(x, U \cup V)
  <2>1. CASE Quiet
    BY <2>1 DEF Quiet, FiledInv
  <2>2. CASE Leaves
    BY <1>2, <2>2 DEF Leaves, Exit, FiledInv, Filed
  <2>3. CASE Deletes
    <3>1. PICK h \in Nat : d = DeleteFrom(db, h)
      BY <2>3 DEF Deletes
    <3>2. d.txs \subseteq db.txs
      BY <1>1, <3>1, DeleteFromSound DEF SoundOK
    <3>3. U = statuses /\ x = trx.tables /\ V = trx.statuses
      BY <2>3 DEF Deletes
    <3> QED  BY <3>2, <3>3 DEF FiledInv, Filed
  <2>4. CASE BeginBlock
    <3>1. /\ d = db /\ U = statuses
          /\ x = SaveBlock(db, store[stream[1].sig].height, stream[1].sig)
      BY <1>1, <2>4, BeginFacts
    <3>2. x.txs = db.txs
      BY <1>1, <3>1 DEF SaveBlock, IInv, TypeOK, Tables
    <3> QED  BY <3>1, <3>2 DEF FiledInv, Filed
  <2>5. CASE LogsCall
    <3>1. d = db /\ U = statuses
      BY <2>5 DEF LogsCall
    <3>2. trx.statuses \subseteq V
      <4>1. trx'.sig = trx.sig /\ trx.sig # 0
        BY <2>5 DEF LogsCall, CallsLeft, InTrx
      <4>2. CASE HandleCall
        BY <1>1, <4>1, <4>2, HandlerFiles DEF FilesAnswer, NoTrx
      <4>3. CASE ~HandleCall
        <5>1. trx' = trx
          BY <2>5, <4>1, <4>3 DEF Next, Listen, Mine, Fork, Start, Connect,
             RollbackLastBlock, ExitNoContract, BeginBlock, Commit,
             RollbackToBlockSignature, RollbackThrows, Crash, vars, Exit,
             NoTrx, HeadIs, InTrx, LogsCall
        <5> QED  BY <5>1
      <4> QED  BY <4>2, <4>3
    <3>3. ASSUME NEW r \in x.txs, r.status = "init"
          PROVE  \E u \in U \cup V : u.tx = r.tx /\ u.address = r.address
      <4>1. CASE r \in trx.tables.txs
        BY <3>1, <3>2, <3>3, <4>1 DEF FiledInv, Filed
      <4>2. CASE r \notin trx.tables.txs
        BY <2>5, <3>3, <4>2, InitIsFiled
      <4> QED  BY <4>1, <4>2
    <3> QED  BY <3>1, <3>3 DEF FiledInv, Filed
  <2>6. CASE Commit
    <3>1. /\ d = IF trx.aborted THEN db ELSE trx.tables
          /\ U = IF trx.aborted THEN statuses ELSE statuses \cup trx.statuses
          /\ x.txs = {}
      BY <1>2, <2>6 DEF Commit
    <3> QED  BY <3>1 DEF FiledInv, Filed
  <2> QED  BY <1>1, <2>1, <2>2, <2>3, <2>4, <2>5, <2>6, Shapes
<1> QED  BY <1>3 DEF FiledInv

(* Rows are typed, every status that was committed has its row, and every  *)
(* announced payout its status.                                            *)
WatchInv ==
    /\ rows \in SUBSET WatchRow
    /\ \A u \in statuses : RowsOfTx(u.tx, u.address) # {}
    /\ FiledInv

LEMMA WatchInvStep ==
  ASSUME BranchInv, WatchInv, [ServiceNext]_serviceVars PROVE WatchInv'
<1>1. JournalInv
  BY DEF BranchInv
<1>2. \A u \in statuses : \E r \in rows : r.tx = u.tx /\ r.address = u.address
  BY DEF WatchInv, RowsOfTx
<1>3. CASE ListenerStep
  <2>1. /\ rows' = rows \cup {RowOf(u) : u \in statuses' \ statuses}
        /\ statuses' \ statuses \subseteq trx.statuses
        /\ \A u \in trx.statuses :
             /\ RowOf(u) \in WatchRow
             /\ RowOf(u).tx = u.tx /\ RowOf(u).address = u.address
    BY <1>1, <1>3, ListenerRows
  <2>2. rows' \in SUBSET WatchRow
    BY <2>1 DEF WatchInv
  <2>3. ASSUME NEW u \in statuses'
        PROVE  \E r \in rows' : r.tx = u.tx /\ r.address = u.address
    BY <1>2, <2>1
  <2>4. FiledInv'
    BY <1>1, <1>3, FiledInvNext DEF ListenerStep, WatchInv
  <2> QED  BY <2>2, <2>3, <2>4 DEF WatchInv, RowsOfTx
<1>4. CASE PollerStep
  <2>1. UNCHANGED <<db, statuses, trx>> /\ (Moved \/ Posted)
    BY <1>4, PollerRows DEF PollerStep, listenerVars, WatchInv
  <2>2. /\ rows' \in SUBSET WatchRow
        /\ \A r \in rows : \E q \in rows' : q.tx = r.tx /\ q.address = r.address
    BY <2>1 DEF Moved, Posted, WatchInv
  <2>3. FiledInv'
    BY <2>1 DEF WatchInv, FiledInv
  <2> QED  BY <1>2, <2>1, <2>2, <2>3 DEF WatchInv, RowsOfTx
<1> QED  BY <1>3, <1>4, StepIsOfOne

(* A payout that the journal announces has its status: receiveTxs stores   *)
(* the entry and the row in one transaction, no rollback or update takes   *)
(* the row away while the entry is there, and no crash comes between.      *)
THEOREM AnnouncedAreWatched == ServiceSpec => []AnnouncedPayoutsAreWatched
<1>1. ServiceInit => WatchInv
  BY DEF ServiceInit, Init, Poller!Init, WatchInv, FiledInv, Filed, NoTrx,
         EmptyTables
<1>2. BranchInv /\ WatchInv /\ [ServiceNext]_serviceVars => WatchInv'
  BY WatchInvStep
<1>3. WatchInv => AnnouncedPayoutsAreWatched
  BY DEF WatchInv, FiledInv, Filed, RowsOfTx, AnnouncedPayoutsAreWatched
<1> QED  BY <1>1, <1>2, <1>3, ServiceOnBranch, PTL DEF ServiceSpec

-----------------------------------------------------------------------------
(* The listener does not disturb the poller.                               *)

(* The bound on the calls that are polled does not bind: every status that *)
(* the listener files can be asked for.                                    *)
AllPolled == \A u \in trx.statuses : u.tx \in PolledTx

(* It never binds where there is no such bound.                            *)
LEMMA UnboundedPolls ==
  ASSUME PolledTx = Id PROVE ServiceSpec => []AllPolled
<1>1. BranchInv => AllPolled
  BY DEF BranchInv, JournalInv, IInv, TypeOK, StatusRow, AllPolled
<1> QED  BY <1>1, ServiceOnBranch, PTL

(* What a transaction has to commit are finitely many statuses, each of an *)
(* answer, and pending.                                                    *)
PendingInv ==
    /\ IsFiniteSet(trx.statuses)
    /\ \A u \in trx.statuses : u.status = "pending" /\ u.tx[2] > 0

LEMMA PendingInvStep ==
  ASSUME BranchInv, PendingInv, [ServiceNext]_serviceVars
  PROVE  PendingInv'
<1>1. CASE ListenerStep
  <2>1. CASE trx'.statuses \in {{}, trx.statuses}
    BY <2>1, FS_EmptySet DEF PendingInv
  <2>2. CASE CurrentReq \in Requests /\ FilesAnswer
    <3>1. PICK answer : /\ answer.id = AnswerId(CurrentReq)
                        /\ trx'.statuses = trx.statuses \cup {Pending(answer)}
      BY <2>2 DEF FilesAnswer
    <3>2. AnswerId(CurrentReq)[2] > 0
      BY <2>2, AnswerIdFresh DEF BranchInv, JournalInv
    <3>3. Pending(answer).status = "pending" /\ Pending(answer).tx[2] > 0
      BY <3>1, <3>2 DEF Pending
    <3> QED  BY <3>1, <3>3, FS_AddElement DEF PendingInv
  <2> QED  BY <1>1, <2>1, <2>2, StatusesMove DEF ListenerStep, BranchInv
<1>2. CASE PollerStep
  BY <1>2 DEF PollerStep, listenerVars, PendingInv
<1> QED  BY <1>1, <1>2, StepIsOfOne

(* The listener adds pending rows, and ends the rounds when it exits.      *)
LEMMA PollerUndisturbed ==
  ASSUME BranchInv, PendingInv, AllPolled, P!IInv, ListenerStep
  PROVE  P!IInv'
<1> DEFINE new == {RowOf(u) : u \in statuses' \ statuses}
<1>1. /\ rows' = rows \cup new
      /\ statuses' \ statuses \subseteq trx.statuses
      /\ \A u \in trx.statuses :
           /\ RowOf(u) \in WatchRow /\ RowOf(u).tx \in PolledTx
           /\ RowOf(u).status = "pending" /\ RowOf(u).error = FALSE
  BY ListenerRows DEF BranchInv, PendingInv, AllPolled
<1>2. /\ P!TypeOK /\ P!IsFiniteSet(rows) /\ P!RoundsShaped
      /\ P!RoundsAnswered /\ P!PendingWithoutError /\ P!OutcomeWasReported
  BY DEF P!IInv
<1>3. \A S : P!IsFiniteSet(S) <=> IsFiniteSet(S)
  BY DEF P!IsFiniteSet, IsFiniteSet
<1>4. \A r \in new : r \in P!Row /\ r.status = "pending" /\ ~r.error
  BY <1>1 DEF WatchRow, P!Row
<1>5. IsFiniteSet(rows')
  <2>1. IsFiniteSet(statuses' \ statuses)
    BY <1>1, FS_Subset DEF PendingInv
  <2> DEFINE row == [u \in statuses' \ statuses |-> RowOf(u)]
  <2>2. row \in [statuses' \ statuses -> new]
    OBVIOUS
  <2>3. \A r \in new : \E u \in statuses' \ statuses : row[u] = r
    OBVIOUS
  <2> HIDE DEF new, row
  <2>4. row \in Surjection(statuses' \ statuses, new)
    BY <2>2, <2>3 DEF Surjection
  <2>5. IsFiniteSet(new)
    BY <2>1, <2>4, FS_Surjection
  <2> QED  BY <1>1, <1>2, <1>3, <2>5, FS_Union
<1> HIDE DEF new
<1>6. /\ rounds' = rounds \/ rounds' = <<>>
      /\ reports' = reports /\ serving' \in BOOLEAN
  BY <1>2 DEF ListenerStep, P!TypeOK
<1>7. faults' \in 0 .. MaxFaults
  BY NextIInv DEF ListenerStep, BranchInv, JournalInv, IInv, TypeOK
<1>8. P!TypeOK'
  <2>1. rows' \subseteq P!Row
    BY <1>1, <1>2, <1>4 DEF P!TypeOK
  <2>2. rounds' \in Seq(P!Round)
    <3>1. CASE rounds' = rounds
      BY <1>2, <3>1 DEF P!TypeOK
    <3>2. CASE rounds' = <<>>
      BY <3>2
    <3> QED  BY <1>6, <3>1, <3>2
  <2>3. reports' \in [PolledTx -> Seq(Code)]
    BY <1>2, <1>6 DEF P!TypeOK
  <2> QED  BY <1>6, <1>7, <2>1, <2>2, <2>3 DEF P!TypeOK
<1>9. P!RoundsShaped' /\ P!RoundsAnswered'
  BY <1>2, <1>6 DEF P!RoundsShaped, P!RoundsAnswered
<1>10. P!PendingWithoutError' /\ P!OutcomeWasReported'
  BY <1>1, <1>2, <1>4, <1>6 DEF P!PendingWithoutError, P!OutcomeWasReported
<1>11. P!IsFiniteSet(rows)'
  BY <1>3, <1>5
<1> QED  BY <1>8, <1>9, <1>10, <1>11 DEF P!IInv

(* The invariant of the poller holds in the service.                       *)
WatchedInv == BranchInv /\ PendingInv /\ P!IInv

LEMMA WatchedInvStep ==
  ASSUME WatchedInv, AllPolled, [ServiceNext]_serviceVars PROVE WatchedInv'
<1>1. BranchInv /\ PendingInv /\ P!IInv
  BY DEF WatchedInv
<1>2. CASE PollerStep
  <2>1. P!IInv'
    BY <1>1, <1>2, PollerAssumed, P!NextIInv DEF PollerStep
  <2> QED  BY <1>1, <2>1, BranchInvStep, PendingInvStep DEF WatchedInv
<1> QED  BY <1>1, <1>2, StepIsOfOne, BranchInvStep, PendingInvStep,
            PollerUndisturbed DEF WatchedInv

LEMMA WatchedInvInit == ServiceInit => WatchedInv
<1> SUFFICES ASSUME ServiceInit PROVE WatchedInv
  OBVIOUS
<1>1. BranchInv
  BY BranchInvInit DEF ServiceInit
<1>2. PendingInv
  BY FS_EmptySet DEF ServiceInit, Init, NoTrx, PendingInv
<1>3. P!IInv
  <2>1. P!Init
    BY DEF ServiceInit, Poller!Init, P!Init
  <2> QED  BY <2>1, PollerAssumed, P!InitIInv
<1> QED  BY <1>1, <1>2, <1>3 DEF WatchedInv

LEMMA ServiceWatches == ServiceSpec /\ []AllPolled => []WatchedInv
<1>1. WatchedInv /\ AllPolled /\ [ServiceNext]_serviceVars => WatchedInv'
  BY WatchedInvStep
<1> QED  BY <1>1, WatchedInvInit, PTL DEF ServiceSpec

-----------------------------------------------------------------------------
(* What the poller stores is the fate of that very payout.                 *)

(* Clients post the calls they have broadcast themselves.                  *)
OwnCalls == \A c \in ClientCalls : c[1][2] = 0

(* The table keeps its key; the rows of a payout are those of a broadcast  *)
(* to that address; and none has one that is still to be committed.        *)
OwnInv ==
    /\ P!UniqueRows(rows)
    /\ \A r \in rows : r.tx[2] > 0 =>
         \E s \in sent : s.id = r.tx /\ s.address = r.address
    /\ \A u \in trx.statuses : \A r \in rows : r.tx # u.tx

LEMMA OwnInvListener ==
  ASSUME BranchInv, PendingInv, OwnInv, ListenerStep PROVE OwnInv'
<1>1. JournalInv /\ IInv /\ SentOK /\ SentInv /\ [Next]_vars
  BY DEF BranchInv, JournalInv, ListenerStep
<1>2. sent \subseteq sent'
  BY <1>1, SentStep
<1>3. /\ rows' = rows \cup {RowOf(u) : u \in statuses' \ statuses}
      /\ statuses' \ statuses \subseteq trx.statuses
      /\ \A u \in trx.statuses :
           RowOf(u).tx = u.tx /\ RowOf(u).address = u.address
  BY <1>1, ListenerRows
<1>4. \A u \in trx.statuses : \E s \in sent' : s.id = u.tx /\ s.address = u.address
  BY <1>1, <1>2 DEF SentInv, StatusesSent
<1>5. ASSUME NEW p \in rows', NEW q \in rows', p.tx = q.tx,
             p.address = q.address, p.status = q.status
      PROVE  p = q
  <2>1. CASE p \in rows /\ q \in rows
    BY <1>5, <2>1 DEF OwnInv, P!UniqueRows
  <2>2. CASE p \notin rows /\ q \notin rows
    <3>1. PICK u, v \in trx.statuses : p = RowOf(u) /\ q = RowOf(v)
      BY <1>3, <2>2
    <3>2. u.tx = v.tx /\ u.address = v.address /\ u.status = v.status
      BY <1>3, <1>5, <3>1 DEF PendingInv
    <3> QED  BY <3>1, <3>2 DEF RowOf
  <2> QED  BY <1>3, <1>5, <2>1, <2>2 DEF OwnInv
<1>6. ASSUME NEW r \in rows', r.tx[2] > 0
      PROVE  \E s \in sent' : s.id = r.tx /\ s.address = r.address
  BY <1>2, <1>3, <1>4, <1>6 DEF OwnInv
<1>7. ASSUME NEW u \in trx'.statuses, NEW r \in rows' PROVE r.tx # u.tx
  <2>1. CASE statuses' = statuses /\ trx'.statuses \in {{}, trx.statuses}
    BY <1>3, <1>7, <2>1 DEF OwnInv
  <2>2. CASE statuses' = statuses /\ CurrentReq \in Requests /\ FilesAnswer
    <3>1. PICK answer : /\ answer.id = AnswerId(CurrentReq)
                        /\ trx'.statuses = trx.statuses \cup {Pending(answer)}
      BY <2>2 DEF FilesAnswer
    <3>2. r \in rows
      BY <1>3, <2>2
    <3>3. CASE u \in trx.statuses
      BY <3>2, <3>3 DEF OwnInv
    <3>4. CASE u = Pending(answer)
      <4>1. u.tx = AnswerId(CurrentReq) /\ u.tx[2] > 0
        BY <1>1, <2>2, <3>1, <3>4, AnswerIdFresh DEF Pending
      <4>2. \A s \in sent : s.id # u.tx
        BY <1>1, <2>2, <4>1, AnswerIdFresh
      <4> QED  BY <3>2, <4>1, <4>2 DEF OwnInv
    <3> QED  BY <1>7, <3>1, <3>3, <3>4
  <2> QED  BY <1>1, <1>7, <2>1, <2>2, StatusesMove
<1>8. P!UniqueRows(rows')
  BY <1>5 DEF P!UniqueRows
<1> QED  BY <1>6, <1>7, <1>8 DEF OwnInv

LEMMA OwnInvPoller ==
  ASSUME OwnCalls, WatchedInv, WatchInv, OwnInv, PollerStep
  PROVE  OwnInv'
<1>1. UNCHANGED <<trx, sent>> /\ (Moved \/ Posted)
  BY PollerRows DEF PollerStep, listenerVars, WatchInv
<1>2. P!UniqueRows(rows')
  BY PollerAssumed, P!UniqueStays DEF OwnInv, PollerStep, WatchedInv, P!IInv,
     P!TypeOK
<1>3. CASE Moved
  <2>1. PICK f \in [rows -> WatchRow] :
          /\ rows' = {f[r] : r \in rows}
          /\ \A r \in rows : f[r].tx = r.tx /\ f[r].address = r.address
    BY <1>3 DEF Moved
  <2> QED  BY <1>1, <1>2, <2>1 DEF OwnInv
<1>4. CASE Posted
  <2>1. PICK c \in ClientCalls, new \in WatchRow :
          /\ new.tx = c[1] /\ new.address = c[2]
          /\ rows' = rows \cup {new}
    BY <1>4 DEF Posted
  <2>2. new.tx[2] = 0 /\ \A u \in trx.statuses : u.tx # new.tx
    BY <2>1 DEF OwnCalls, WatchedInv, PendingInv
  <2> QED  BY <1>1, <1>2, <2>1, <2>2 DEF OwnInv
<1> QED  BY <1>1, <1>3, <1>4

(* The node has said success only of what was mined.                       *)
MinedInv == \A t \in PolledTx : \A i \in DOMAIN reports[t] :
              reports[t][i] = 0 => Mined(t)

LEMMA MinedStays ==
  ASSUME IInv, [Next]_vars, NEW t, Mined(t) PROVE Mined(t)'
<1>1. \A sig \in DOMAIN store : sig \in DOMAIN store' /\ store'[sig] = store[sig]
  BY StoreGrows
<1>2. PICK sig \in DOMAIN store : \E i \in DOMAIN store[sig].calls :
              store[sig].calls[i].req.id = t
  BY DEF Mined, CallsOf
<1> QED  BY <1>1, <1>2 DEF Mined, CallsOf

LEMMA MinedInvStep ==
  ASSUME WatchedInv, MinedInv, [ServiceNext]_serviceVars PROVE MinedInv'
<1>1. IInv /\ P!IInv
  BY DEF WatchedInv, BranchInv, JournalInv
<1>2. CASE ListenerStep
  <2>1. reports' = reports /\ [Next]_vars
    BY <1>2 DEF ListenerStep
  <2> QED  BY <1>1, <2>1, MinedStays DEF MinedInv
<1>3. CASE PollerStep
  <2>1. store' = store
    BY <1>3 DEF PollerStep, listenerVars
  <2>2. \A t : Mined(t)' <=> Mined(t)
    BY <2>1 DEF Mined, CallsOf
  <2>3. CASE UNCHANGED reports
    BY <2>2, <2>3 DEF MinedInv
  <2>4. CASE SomeStatus
    <3>1. PICK t \in PolledTx : StatusOfCall(t)
      BY <2>4 DEF SomeStatus
    <3>2. PICK code \in Code :
            reports' = [reports EXCEPT ![t] = Append(reports[t], code)]
      BY <3>1 DEF StatusOfCall, Poller!Report
    <3>3. reports \in [PolledTx -> Seq(Code)]
      BY <1>1 DEF P!IInv, P!TypeOK
    <3>4. /\ reports'[t] = Append(reports[t], code) /\ reports[t] \in Seq(Code)
          /\ \A u \in PolledTx : u # t => reports'[u] = reports[u]
      BY <3>2, <3>3
    <3>5. /\ DOMAIN reports[t] = 1 .. Len(reports[t]) /\ Len(reports[t]) \in Nat
          /\ DOMAIN reports'[t] = 1 .. Len(reports[t]) + 1
          /\ Len(reports'[t]) = Len(reports[t]) + 1
          /\ reports'[t][Len(reports[t]) + 1] = code
          /\ \A i \in 1 .. Len(reports[t]) : reports'[t][i] = reports[t][i]
      BY <3>4
    <3>6. code = 0 => Mined(t)
      BY <3>1, <3>5 DEF StatusOfCall
    <3>7. ASSUME NEW u \in PolledTx, NEW i \in DOMAIN reports'[u],
                 reports'[u][i] = 0
          PROVE  Mined(u)
      <4>1. CASE u # t
        BY <3>4, <3>7, <4>1 DEF MinedInv
      <4>2. CASE u = t /\ i = Len(reports[t]) + 1
        BY <3>5, <3>6, <3>7, <4>2
      <4>3. CASE u = t /\ i \in 1 .. Len(reports[t])
        BY <3>5, <3>7, <4>3 DEF MinedInv
      <4> QED  BY <3>5, <3>7, <4>1, <4>2, <4>3
    <3> QED  BY <2>2, <3>7 DEF MinedInv
  <2> QED  BY <1>3, <2>3, <2>4 DEF PollerStep
<1> QED  BY <1>2, <1>3, StepIsOfOne

(* All of it together.                                                     *)
ServiceInv == WatchedInv /\ WatchInv /\ OwnInv /\ MinedInv

LEMMA ServiceInvImplies == ServiceInv => StatusIsOfItsPayout
<1> SUFFICES ASSUME ServiceInv, NEW r \in rows
             PROVE  /\ r.status = "success" => Mined(r.tx)
                    /\ r.tx[2] > 0 => \E s \in sent : s.id = r.tx
                                                   /\ s.address = r.address
                    /\ r.status # "pending" =>
                         \A q \in RowsOfTx(r.tx, r.address) \ {r} :
                           q.status = "pending"
  BY DEF StatusIsOfItsPayout
<1>1. r.status = "success" => Mined(r.tx)
  <2> SUFFICES ASSUME r.status = "success" PROVE Mined(r.tx)
    OBVIOUS
  <2>1. /\ reports[r.tx] # <<>> /\ r.status = P!StatusOf(reports[r.tx][1])
        /\ r.tx \in PolledTx /\ reports[r.tx] \in Seq(Code)
    BY DEF ServiceInv, WatchedInv, P!IInv, P!OutcomeWasReported, P!TypeOK, P!Row
  <2>2. reports[r.tx][1] = 0
    BY <2>1 DEF P!StatusOf
  <2>3. 1 \in DOMAIN reports[r.tx]
    BY <2>1
  <2> QED  BY <2>1, <2>2, <2>3 DEF ServiceInv, MinedInv
<1>2. ASSUME r.status # "pending", NEW q \in rows, q.tx = r.tx,
             q.address = r.address, q.status # "pending"
      PROVE  q = r
  <2>1. q.status = r.status
    BY <1>2 DEF ServiceInv, WatchedInv, P!IInv, P!OutcomeWasReported
  <2> QED  BY <1>2, <2>1 DEF ServiceInv, OwnInv, P!UniqueRows
<1>3. r.tx[2] > 0 => \E s \in sent : s.id = r.tx /\ s.address = r.address
  BY DEF ServiceInv, OwnInv
<1> QED  BY <1>1, <1>2, <1>3 DEF RowsOfTx

(* A payout is shown as a success only if it was mined, under an id and an *)
(* address that were broadcast, and no address is shown two outcomes of    *)
(* one call: whatever was undone and paid again, whichever of the          *)
(* overlapping rounds brought the answer and however often clients post a  *)
(* call again.  Clients watch calls that they broadcast themselves, and    *)
(* every payout is polled.                                                 *)
THEOREM StatusIsItsOwn ==
  ASSUME OwnCalls PROVE ServiceSpec /\ []AllPolled => []StatusIsOfItsPayout
<1>1. ServiceInit => WatchInv /\ OwnInv /\ MinedInv
  BY DEF ServiceInit, Init, Poller!Init, WatchInv, FiledInv, Filed, NoTrx,
         EmptyTables, OwnInv, P!UniqueRows, MinedInv
<1>2. ServiceInv /\ AllPolled /\ [ServiceNext]_serviceVars => ServiceInv'
  <2> SUFFICES ASSUME ServiceInv, AllPolled, [ServiceNext]_serviceVars
               PROVE  ServiceInv'
    OBVIOUS
  <2>1. /\ WatchedInv /\ WatchInv /\ OwnInv /\ MinedInv /\ BranchInv
        /\ PendingInv
    BY DEF ServiceInv, WatchedInv
  <2>2. OwnInv'
    BY <2>1, StepIsOfOne, OwnInvListener, OwnInvPoller
  <2> QED  BY <2>1, <2>2, WatchedInvStep, WatchInvStep, MinedInvStep
              DEF ServiceInv
<1>3. ServiceInit => ServiceInv
  BY <1>1, WatchedInvInit DEF ServiceInv
<1> QED  BY <1>2, <1>3, ServiceInvImplies, PTL DEF ServiceSpec

-----------------------------------------------------------------------------
(* What was proved of the parts holds of the whole.                        *)

(* Beside a poller, too, every call of a stored block has its entries and  *)
(* there is no other, and behind every "init" entry there is a broadcast.  *)
THEOREM ServiceFollowsChain ==
  ServiceSpec => [](JournalMatchesChain /\ EntriesWereSent)
<1>1. BranchInv => JournalMatchesChain /\ EntriesWereSent
  BY MatchInvIsJournalMatchesChain, SentInvIsEntriesWereSent
     DEF BranchInv, JournalInv
<1> QED  BY <1>1, ServiceOnBranch, PTL

(* Where every rate is stored, the readers of the service see the contract *)
(* as it was after the last stored block.                                  *)
THEOREM ServiceImplementsReplica ==
  ASSUME NoRateRefused PROVE ServiceSpec => ImplementsReplica
<1>1. ServiceInit => ReplicaInv /\ Replica!Init
  BY ReplicaInvInit, ReplicaStarts DEF ServiceInit
<1>2. ReplicaInv /\ [ServiceNext]_serviceVars
        => ReplicaInv' /\ [Replica!Next]_(Replica!vars)
  <2> SUFFICES ASSUME ReplicaInv, [ServiceNext]_serviceVars
               PROVE  ReplicaInv' /\ [Replica!Next]_(Replica!vars)
    OBVIOUS
  <2>1. CASE ListenerStep
    BY <2>1, ReplicaInvNext, ReplicaStep DEF ListenerStep
  <2>2. CASE PollerStep
    <3>1. UNCHANGED <<store, db, trx>>
      BY <2>2 DEF PollerStep, listenerVars
    <3>2. ContractOK(store)' /\ Shown(store, db, trx)'
      BY <3>1 DEF ReplicaInv
    <3>3. [Replica!Next]_(Replica!vars)
      BY <3>1 DEF Replica!vars
    <3> QED  BY <2>2, <3>2, <3>3, ListenerUndisturbed DEF ReplicaInv
  <2> QED  BY <2>1, <2>2, StepIsOfOne
<1> QED  BY <1>1, <1>2, PTL DEF ServiceSpec, ImplementsReplica, Replica!Spec

(* Beside a listener that adds rows, too, every stored outcome is the      *)
(* first that the node said of that call, and no step changes or loses it. *)
THEOREM ServiceOutcomes ==
  ServiceSpec /\ []AllPolled
    => []Poller!OutcomeWasReported /\ Poller!OutcomeIsFinal
<1>1. WatchedInv => Poller!OutcomeWasReported
  BY DEF WatchedInv, P!IInv, P!OutcomeWasReported, P!StatusOf,
         Poller!OutcomeWasReported, Poller!StatusOf
<1>2. WatchedInv /\ [ServiceNext]_serviceVars =>
        [\A r \in rows : r.status # "pending" =>
           \E q \in rows' : /\ q.tx = r.tx /\ q.address = r.address
                            /\ q.status = r.status /\ q.error = r.error]_(Poller!vars)
  <2> SUFFICES ASSUME WatchedInv, [ServiceNext]_serviceVars,
                      NEW r \in rows, r.status # "pending"
               PROVE  \E q \in rows' : /\ q.tx = r.tx /\ q.address = r.address
                                       /\ q.status = r.status /\ q.error = r.error
    OBVIOUS
  <2>1. CASE ListenerStep
    BY <2>1 DEF ListenerStep
  <2>2. CASE PollerStep
    BY <2>2, PollerAssumed, P!OutcomeStays DEF PollerStep, WatchedInv
  <2> QED  BY <2>1, <2>2, StepIsOfOne
<1> QED  BY <1>1, <1>2, ServiceWatches, PTL DEF ServiceSpec, Poller!OutcomeIsFinal
=============================================================================
