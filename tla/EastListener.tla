---------------------------- MODULE EastListener ----------------------------
(***************************************************************************)
(* The blockchain listener: BlockchainListenerService receives the blocks  *)
(* of a node one at a time, and TransactionService, VaultService and       *)
(* PersistService turn each into rows of the database within a             *)
(* transaction, answering some calls with a broadcast of their own.  The   *)
(* node mines and reorganises while the listener works; the process may    *)
(* stop at any point and start again from what the database holds.         *)
(***************************************************************************)
EXTENDS EastDatabase

CONSTANTS Requests,        \* the calls that clients broadcast
          InitNeedsVault,  \* the contract refuses init calls without a vault
          MaxBlocks,       \* bound: blocks ever mined, on all branches
          MaxFaults        \* bound: crashes and failed requests to the node

ASSUME ListenerAssumption ==
    /\ Requests \subseteq Request
    /\ \A r \in Requests :
         /\ r.id[2] = 0 /\ r.request = NoId
         /\ r.type \notin ServiceTypes
         /\ r.type \in VaultTypes => r.address = r.sender
    /\ InitNeedsVault \in BOOLEAN
    /\ MaxBlocks \in Nat /\ MaxFaults \in Nat

VARIABLES
    store,     \* every block ever mined; its index is its signature
    chain,     \* the signatures of the node's current branch
    stream,    \* events the node has sent and the listener has not taken
    mode,      \* of the process: "down", "connecting" or "streaming"
    db,        \* the committed tables
    statuses,  \* the rows of user_transaction_statuses it has committed
    trx,       \* the open transaction of receiveTxs
    sent,      \* the atomic transactions the service has broadcast
    faults     \* counts the faults injected so far

node == <<store, chain>>
vars == <<store, chain, stream, mode, db, statuses, trx, sent, faults>>

Event == [kind : {"block", "rollback"}, sig : Nat \ {0}]
StatusRow == [tx : Id, address : Addr, status : {"pending", "success", "fail"}]

\* sig is the block being processed (0: none), next the index of the call to
\* handle next, tables the transaction's view, aborted the state PostgreSQL
\* enters when a statement fails.
NoTrx == [sig |-> 0, next |-> 1, tables |-> EmptyTables, statuses |-> {},
          aborted |-> FALSE]

TypeOK ==
    /\ store \in Seq(Block)
    /\ chain \in Seq(Nat \ {0})
    /\ stream \in Seq(Event)
    /\ mode \in {"down", "connecting", "streaming"}
    /\ db \in Tables
    /\ statuses \in SUBSET StatusRow
    /\ trx \in [sig : Nat, next : Nat \ {0}, tables : Tables,
                statuses : SUBSET StatusRow, aborted : BOOLEAN]
    /\ sent \in SUBSET Request
    /\ faults \in 0 .. MaxFaults

Init ==
    /\ store = <<>> /\ chain = <<>> /\ stream = <<>>
    /\ mode = "down"
    /\ db = EmptyTables /\ statuses = {} /\ trx = NoTrx
    /\ sent = {} /\ faults = 0

-----------------------------------------------------------------------------
(* The node.                                                               *)

NodeState == IF chain = <<>> THEN GenesisState
                             ELSE Final(store[chain[Len(chain)]])

CallsOf(sig) == {store[sig].calls[i].req : i \in DOMAIN store[sig].calls}
OnChain == UNION {CallsOf(chain[h]) : h \in DOMAIN chain}

Offers == {r \in Requests \cup sent : \A q \in OnChain : q.id # r.id}

Blocks(from, to) == [i \in 1 .. (to - from + 1) |->
                       [kind |-> "block", sig |-> chain[from + i - 1]]]

Notify(events) == stream' = IF mode = "streaming" THEN stream \o events
                                                  ELSE stream

Mine ==
    /\ Len(store) < MaxBlocks
    /\ \E body \in Bodies(NodeState, Offers, InitNeedsVault) :
         store' = Append(store,
                    [height |-> Len(chain) + 1, calls |-> body,
                     parent |-> IF chain = <<>> THEN 0 ELSE chain[Len(chain)]])
    /\ chain' = Append(chain, Len(store) + 1)
    /\ Notify(<<[kind |-> "block", sig |-> Len(store) + 1]>>)
    /\ UNCHANGED <<mode, db, statuses, trx, sent, faults>>

\* The node drops all blocks above height k.  The event names a block, and
\* delivery resumes with that block or what replaces it: the lowest block
\* undone, or the highest kept one, which is then delivered again.
Fork ==
    \E k \in 0 .. Len(chain) - 1 :
      /\ chain' = SubSeq(chain, 1, k)
      /\ \E from \in {k, k + 1} \ {0} :
           Notify(<<[kind |-> "rollback", sig |-> chain[from]]>>
                    \o Blocks(from, k))
      /\ UNCHANGED <<store, mode, db, statuses, trx, sent, faults>>

-----------------------------------------------------------------------------
(* Start of the process: getLastBlockSignature and the handshake with the  *)
(* node.                                                                   *)

Start ==
    /\ mode = "down"
    /\ mode' = "connecting"
    /\ UNCHANGED <<node, stream, db, statuses, trx, sent, faults>>

KnownToNode(b) == \E h \in DOMAIN chain : chain[h] = b.sig

\* Delivery starts after the last block of the database, or with the block
\* that holds the creation of the contract.
Connect ==
    /\ mode = "connecting"
    /\ \/ /\ db.blocks = {} /\ chain # <<>>
          /\ stream' = Blocks(1, Len(chain))
       \/ \E b \in LastBlock(db), h \in DOMAIN chain :
            chain[h] = b.sig /\ stream' = Blocks(h + 1, Len(chain))
    /\ mode' = "streaming"
    /\ UNCHANGED <<node, db, statuses, trx, sent, faults>>

\* The node does not know the last block: it is undone, and the next one is
\* tried.
RollbackLastBlock ==
    /\ mode = "connecting"
    /\ \E b \in LastBlock(db) : ~KnownToNode(b)
    /\ db' = DeleteLastBlock(db)
    /\ UNCHANGED <<node, stream, mode, statuses, trx, sent, faults>>

Exit ==
    /\ mode' = "down" /\ stream' = <<>> /\ trx' = NoTrx

\* The contract does not exist yet: process.exit(1).
ExitNoContract ==
    /\ mode = "connecting"
    /\ db.blocks = {} /\ chain = <<>>
    /\ Exit
    /\ UNCHANGED <<node, db, statuses, sent, faults>>

-----------------------------------------------------------------------------
(* receiveTxs: one database transaction per block, one call at a time.     *)

InTrx == trx.sig # 0
HeadIs(kind) == /\ mode = "streaming" /\ ~InTrx
                /\ stream # <<>> /\ Head(stream).kind = kind

\* Mutated form: the block is saved outside the transaction.
BeginBlockOutside ==
    /\ HeadIs("block")
    /\ LET sig == Head(stream).sig
       IN  /\ db' = SaveBlock(db, store[sig].height, sig)
           /\ trx' = [NoTrx EXCEPT !.sig = sig, !.tables = db']
    /\ stream' = Tail(stream)
    /\ UNCHANGED <<node, mode, statuses, sent, faults>>

BeginBlock ==
    /\ HeadIs("block")
    /\ LET sig == Head(stream).sig
           h   == store[sig].height
       IN  trx' = [NoTrx EXCEPT !.sig = sig,
                                !.tables = SaveBlock(db, h, sig)]
    /\ stream' = Tail(stream)
    /\ UNCHANGED <<node, mode, db, statuses, sent, faults>>

CallsLeft == InTrx /\ trx.next <= Len(store[trx.sig].calls)
Current == store[trx.sig].calls[trx.next]
CurrentReq == Current.req
Height == store[trx.sig].height

Advance(tables, rows) ==
    /\ trx' = [trx EXCEPT !.next = @ + 1, !.tables = tables,
                          !.statuses = @ \cup rows]
    /\ UNCHANGED <<node, stream, mode, db, statuses>>

(* The answers to init calls and liquidations.                             *)

AnswerId(r) ==
    <<r.id[1], Cardinality({s \in sent : s.request = r.id}) + 1>>

Answer(r, type, address, west, rwa) ==
    [id |-> AnswerId(r), type |-> type, sender |-> Service,
     address |-> address, west |-> west, rwa |-> rwa, east |-> 0,
     request |-> r.id, value |-> "none", nested |-> TRUE]

\* Mutated form: the vault is read outside the transaction.
CloseAnswerCommitted(r) ==
    LET v == VaultView(db, r.sender)
    IN  Answer(r, "close", r.sender, Monus(v.west, CloseFee), v.rwa)

\* The transfers of an atomic: all of the RWA, the WEST less the fee.
CloseAnswer(r) ==
    LET v == The(CurrentVault(trx.tables, r.sender)).vault
    IN  Answer(r, "close", r.sender, Monus(v.west, CloseFee), v.rwa)

\* claimOverpayInit asks the node, which answers for its own latest block.
Returned(r) ==
    LET v == NodeState.vaults[r.sender]
    IN  MinOf(v.west - v.east * Collateral, r.west)

ClaimAnswer(r) == Answer(r, "claim_overpay", r.sender, Returned(r), 0)

\* To the liquidator; the amount is the contract's, and is not told apart.
LiquidationAnswer(r) ==
    Answer(r, "write_liquidation_west_transfer", r.sender, 0, 0)

\* Mutated form: the status is filed under the request.
PendingRequest(answer) == [tx |-> answer.request, address |-> answer.address,
                           status |-> "pending"]

Pending(answer) == [tx |-> answer.id, address |-> answer.address,
                    status |-> "pending"]

(* An exception in a handler: receiveCallEastContract logs it and calls    *)
(* process.exit(1).                                                        *)

NoVaultRow(a) == CurrentVault(trx.tables, a) = {}

Throws(r) ==
    \/ trx.aborted
    \/ r.type = "transfer" /\ r.sender = r.address   \* UNIQUE, second row
    \/ r.type \in {"supply", "reissue"} /\ NoVaultRow(r.sender)
    \/ r.type \in {"claim_overpay", "close", "liquidate"}
         /\ NoVaultRow(r.address)                    \* vault_id NOT NULL
    \/ r.type = "close_init" /\ NoVaultRow(r.sender)
    \/ r.type = "close_init"                   \* no positive transfer
         /\ \E v \in CurrentVault(trx.tables, r.sender) :
              v.vault.west \in 1 .. CloseFee
    \/ r.type = "claim_overpay_init" /\ ~NodeState.vaults[r.sender].active

\* Any error of getKey, and not only a missing key, means "not yet paid".
PayLiquidator(r) ==
    LET paid == r.id \in NodeState.exchanged
    IN  \/ paid /\ UNCHANGED <<sent, faults>>
        \/ /\ ~paid
           /\ sent' = sent \cup {LiquidationAnswer(r)}
           /\ UNCHANGED faults
        \/ /\ paid /\ faults < MaxFaults
           /\ faults' = faults + 1
           /\ sent' = sent \cup {LiquidationAnswer(r)}

IsOwed(r) == /\ r.type = "claim_overpay_init"
             /\ NodeState.vaults[r.sender].active /\ Returned(r) > 0

\* Two handlers broadcast before the statement that fails.
LateAnswers(r) ==
    \/ r.type = "liquidate" /\ PayLiquidator(r)
    \/ IsOwed(r) /\ sent' = sent \cup {ClaimAnswer(r)} /\ UNCHANGED faults
    \/ r.type # "liquidate" /\ ~IsOwed(r) /\ UNCHANGED <<sent, faults>>

HandlerThrows ==
    /\ CallsLeft
    /\ CurrentReq.type \in JournalTypes
    /\ Throws(CurrentReq)
    /\ LateAnswers(CurrentReq)
    /\ Exit
    /\ UNCHANGED <<node, db, statuses>>

Handles(types) == /\ CallsLeft
                  /\ CurrentReq.type \in types
                  /\ ~Throws(CurrentReq)

\* Calls with no case in the switch, and oracle calls inside an atomic.
SkipCall ==
    /\ CallsLeft
    /\ \/ CurrentReq.type \notin JournalTypes \cup {"oracle"}
       \/ CurrentReq.type = "oracle" /\ CurrentReq.nested
    /\ Advance(trx.tables, {})
    /\ UNCHANGED <<sent, faults>>

\* saveOracle catches every error, that of a failed INSERT included: the
\* transaction is aborted and the handler returns as if nothing had happened.
SaveOracle ==
    /\ CallsLeft
    /\ CurrentReq.type = "oracle" /\ ~CurrentReq.nested
    /\ trx' = [trx EXCEPT
         !.next    = @ + 1,
         !.tables  = IF CurrentReq.value = "valid" /\ ~trx.aborted
                       THEN SaveOracleRow(@, CurrentReq.id, Height) ELSE @,
         !.aborted = @ \/ CurrentReq.value = "rejected"]
    /\ UNCHANGED <<node, stream, mode, db, statuses, sent, faults>>

\* Mutated form: a reissue is taken for a new vault.
NewVaultIdOfReissue(r) ==
    IF r.type \in {"mint", "reissue"} THEN r.id ELSE NoId

\* vaultId is set for a mint only.
NewVaultId(r) == IF r.type = "mint" THEN r.id ELSE NoId

Owner(r) == IF r.type = "claim_overpay" THEN r.address ELSE r.sender

ReceiveTypicalTx ==
    /\ Handles(VaultTypes)
    /\ LET r   == CurrentReq
           a   == Owner(r)
           row == ExecutedRow(trx.tables, r, a, Height)
           t   == AddVaultLog(InsertTx(trx.tables, row), row.id,
                    NewVaultId(r), a, [Current.after.vaults[a]
                                         EXCEPT !.active = TRUE])
       IN  Advance(IF r.type \in {"mint", "reissue"}
                     THEN AddBalance(t, db, row.id, r.address,
                            Current.after.balances[r.address])
                     ELSE t, {})
    /\ UNCHANGED <<sent, faults>>

Close ==
    /\ Handles({"close"})
    /\ LET r   == CurrentReq
           row == ExecutedRow(trx.tables, r, r.address, Height)
           t   == AddVaultLog(InsertTx(trx.tables, row), row.id, NoId,
                    r.address, NoVault)
       IN  Advance(AddBalance(t, db, row.id, r.address,
                     Current.after.balances[r.address]), {})
    /\ UNCHANGED <<sent, faults>>

\* Two entries with the id of one call, each with its balance.
Transfer ==
    /\ Handles({"transfer"})
    /\ LET r    == CurrentReq
           log(t, a) ==
             LET row == ExecutedRow(t, r, a, Height)
             IN  AddBalance(InsertTx(t, row), db, row.id, a,
                            Current.after.balances[a])
       IN  Advance(log(log(trx.tables, r.sender), r.address), {})
    /\ UNCHANGED <<sent, faults>>

InitClose ==
    /\ Handles({"close_init"})
    /\ LET answer == CloseAnswer(CurrentReq) IN
         /\ sent' = sent \cup {answer}
         /\ Advance(InsertTx(trx.tables, RequestRow(trx.tables, CurrentReq,
                      answer.id, "init", Height)), {Pending(answer)})
    /\ UNCHANGED faults

ClaimDeclined ==
    /\ Handles({"claim_overpay_init"})
    /\ Returned(CurrentReq) <= 0
    /\ Advance(InsertTx(trx.tables, RequestRow(trx.tables, CurrentReq,
                 CurrentReq.id, "declined", Height)), {})
    /\ UNCHANGED <<sent, faults>>

ClaimPaid ==
    /\ Handles({"claim_overpay_init"})
    /\ Returned(CurrentReq) > 0
    /\ LET answer == ClaimAnswer(CurrentReq) IN
         /\ sent' = sent \cup {answer}
         /\ Advance(InsertTx(trx.tables, RequestRow(trx.tables, CurrentReq,
                      answer.id, "init", Height)), {Pending(answer)})
    /\ UNCHANGED faults

\* Mutated form: isActive is left as it is found.
NotDeactivated(v) == v

Deactivated(v) == [v EXCEPT !.active = FALSE]

Liquidate ==
    /\ Handles({"liquidate"})
    /\ LET r   == CurrentReq
           row == ExecutedRow(trx.tables, r, r.address, Height)
       IN  /\ PayLiquidator(r)
           /\ Advance(AddVaultLog(InsertTx(trx.tables, row), row.id, NoId,
                        r.address, Deactivated(LiquidatedVault(Current))), {})

\* knex commits when the callback returns.  COMMIT of an aborted transaction
\* undoes it and reports no error.
Commit ==
    /\ InTrx /\ ~CallsLeft
    /\ db' = IF trx.aborted THEN db ELSE trx.tables
    /\ statuses' = IF trx.aborted THEN statuses ELSE statuses \cup trx.statuses
    /\ trx' = NoTrx
    /\ UNCHANGED <<node, stream, mode, sent, faults>>

-----------------------------------------------------------------------------
(* rollbackToBlockSignature deletes the named block as well.               *)

RollbackToBlockSignature ==
    /\ HeadIs("rollback")
    /\ \E b \in db.blocks : /\ b.sig = Head(stream).sig
                            /\ db' = DeleteFrom(db, b.height)
    /\ stream' = Tail(stream)
    /\ UNCHANGED <<node, mode, statuses, trx, sent, faults>>

\* "no block with signature": the listener reports the error to
\* receiveCriticalError, which calls process.exit(1).
RollbackThrows ==
    /\ HeadIs("rollback")
    /\ \A b \in db.blocks : b.sig # Head(stream).sig
    /\ Exit
    /\ UNCHANGED <<node, db, statuses, sent, faults>>

\* The process is killed: the open transaction is lost, what was broadcast is
\* not.
Crash ==
    /\ mode # "down" /\ faults < MaxFaults
    /\ faults' = faults + 1
    /\ Exit
    /\ UNCHANGED <<node, db, statuses, sent>>

-----------------------------------------------------------------------------
HandleCall == SkipCall \/ SaveOracle \/ ReceiveTypicalTx \/ Close \/ Transfer
              \/ InitClose \/ ClaimDeclined \/ ClaimPaid \/ Liquidate
              \/ HandlerThrows

Listen == \/ Start \/ Connect \/ RollbackLastBlock \/ ExitNoContract
          \/ BeginBlock \/ HandleCall \/ Commit
          \/ RollbackToBlockSignature \/ RollbackThrows

Next == Mine \/ Fork \/ Listen \/ Crash

Spec == Init /\ [][Next]_vars

\* The listener keeps taking events, handlers return, and a process that has
\* exited is started again.  Neither the node nor a fault is ever obliged.
FairSpec == Spec /\ WF_vars(Listen)
=============================================================================
