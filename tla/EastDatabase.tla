---------------------------- MODULE EastDatabase ----------------------------
(***************************************************************************)
(* The PostgreSQL tables that belong to the chain (blocks, oracles,        *)
(* transactions_log, vault_log, balance_log), with their keys and cascades, *)
(* and the statements the services run on them.  A value of Tables is      *)
(* either the committed content or the working copy of an open             *)
(* transaction.                                                            *)
(***************************************************************************)
EXTENDS EastContract

BlockRow == [height : Nat \ {0}, sig : Nat \ {0}]
OracleRow == [tx : Id, height : Nat \ {0}]
TxRow == [id : Nat, tx : Id, address : Addr,
          status : {"init", "executed", "declined"}, type : JournalTypes,
          height : Nat \ {0}, request : IdOrNone]
VaultRow == [id : Nat, vaultId : Id, address : Addr,
             vault : Vault, diff : [west : Int, rwa : Int, east : Int]]
BalanceRow == [id : Nat, address : Addr, east : Nat,
               diff : Int]

Tables == [blocks : SUBSET BlockRow, oracles : SUBSET OracleRow,
           txs : SUBSET TxRow, vaults : SUBSET VaultRow,
           balances : SUBSET BalanceRow, seq : Nat]

EmptyTables == [blocks |-> {}, oracles |-> {}, txs |-> {}, vaults |-> {},
                balances |-> {}, seq |-> 0]

-----------------------------------------------------------------------------
(* Queries.  ORDER BY ... DESC LIMIT 1 gives a set of at most one row.     *)

The(S) == CHOOSE r \in S : TRUE

LastById(S) == {r \in S : \A q \in S : q.id <= r.id}

CurrentVault(t, a) == LastById({r \in t.vaults : r.address = a})
CurrentBalance(t, a) == LastById({r \in t.balances : r.address = a})

LastBlock(t) == {b \in t.blocks : \A c \in t.blocks : c.height <= b.height}

\* getCurrentBalance(...).eastAmount: 0 for an address without an entry.
EastOf(S) == IF S = {} THEN 0 ELSE The(S).east

-----------------------------------------------------------------------------
(* Statements.                                                             *)

NextId(t) == t.seq + 1      \* the SERIAL of transactions_log

SaveBlock(t, h, s) ==
    [t EXCEPT !.blocks = @ \cup {[height |-> h, sig |-> s]}]

SaveOracleRow(t, tx, h) ==
    [t EXCEPT !.oracles = @ \cup {[tx |-> tx, height |-> h]}]

InsertTx(t, row) == [t EXCEPT !.txs = @ \cup {row}, !.seq = row.id]

\* The entry of a call that took effect, under the id of the call itself.
ExecutedRow(t, r, address, h) ==
    [id |-> NextId(t), tx |-> r.id, address |-> address,
     status |-> "executed", type |-> r.type, height |-> h, request |-> NoId]

\* The entry of an init call: tx is the id of the answer, or its own.
RequestRow(t, r, tx, status, h) ==
    [id |-> NextId(t), tx |-> tx, address |-> r.sender,
     status |-> status, type |-> r.type, height |-> h, request |-> r.id]

\* Mutated forms: vault_id is not inherited, and the diff of a new entry is
\* its whole amount.
AddVaultLogOwnId(t, id, vaultId, a, v) ==
    [t EXCEPT !.vaults = @ \cup
      {[id |-> id, address |-> a, vault |-> v, vaultId |-> vaultId,
        diff |-> [west |-> v.west, rwa |-> v.rwa, east |-> v.east]]}]
AddVaultLogWhole(t, id, vaultId, a, v) ==
    [t EXCEPT !.vaults = @ \cup
      {[id |-> id, address |-> a, vault |-> v,
        vaultId |-> IF vaultId # NoId THEN vaultId
                    ELSE The(CurrentVault(t, a)).vaultId,
        diff |-> [west |-> v.west, rwa |-> v.rwa, east |-> v.east]]}]

\* vault_id is the id given, else that of the previous entry.
AddVaultLog(t, id, vaultId, a, v) ==
    LET old  == CurrentVault(t, a)
        last == IF old = {} THEN NoVault ELSE The(old).vault
    IN  [t EXCEPT !.vaults = @ \cup
          {[id |-> id, address |-> a, vault |-> v,
            vaultId |-> IF vaultId # NoId THEN vaultId ELSE The(old).vaultId,
            diff |-> [west |-> v.west - last.west, rwa |-> v.rwa - last.rwa,
                      east |-> v.east - last.east]]}]

\* getCurrentBalance is called without the transaction: it sees the committed
\* tables only, and never the entries of the block being processed.
AddBalance(t, committed, id, a, east) ==
    [t EXCEPT !.balances = @ \cup
        {[id |-> id, address |-> a, east |-> east,
          diff |-> east - EastOf(CurrentBalance(committed, a))]}]

\* What ON DELETE CASCADE leaves when only the blocks of kept remain.
KeepOnly(t, kept) ==
    LET heights == {b.height : b \in kept}
        txs     == {r \in t.txs : r.height \in heights}
        ids     == {r.id : r \in txs}
    IN  [t EXCEPT !.blocks   = kept,
                  !.oracles  = {o \in @ : o.height \in heights},
                  !.txs      = txs,
                  !.vaults   = {v \in @ : v.id \in ids},
                  !.balances = {b \in @ : b.id \in ids}]

\* Mutated forms: one more or one less block than asked for, a table left out
\* of the cascade, a counter that starts again.
DeleteAbove(t, h) == KeepOnly(t, {b \in t.blocks : b.height <= h})
DeleteOne(t, h) == KeepOnly(t, {b \in t.blocks : b.height # h})
DeleteNoTxs(t, h) ==
    [t EXCEPT !.blocks = {b \in @ : b.height < h}]
DeleteAndRestart(t, h) ==
    [KeepOnly(t, {b \in t.blocks : b.height < h}) EXCEPT !.seq = 0]

\* DELETE FROM blocks WHERE height >= h.
DeleteFrom(t, h) == KeepOnly(t, {b \in t.blocks : b.height < h})

\* Mutated form: the subquery selects nothing.
DeleteNoBlock(t) == t

DeleteLastBlock(t) ==
    IF t.blocks = {} THEN t ELSE DeleteFrom(t, The(LastBlock(t)).height)

-----------------------------------------------------------------------------
(* The foreign keys, and ids in the order of the heights.                  *)

Ordered(t) ==
    /\ \A r \in t.txs : /\ r.id <= t.seq
                        /\ \E b \in t.blocks : b.height = r.height
    /\ \A v \in t.vaults \cup t.balances : \E r \in t.txs : r.id = v.id
    /\ \A p, q \in t.txs : p.height < q.height => p.id < q.id

HeightsBelow(t, h) == \A b \in t.blocks : b.height < h

-----------------------------------------------------------------------------
(* What a reader of the tables is told.                                    *)

VaultView(t, a) ==
    LET last == CurrentVault(t, a)
    IN  IF last = {} THEN NoVault ELSE The(last).vault

View(t) == [vaults   |-> [a \in Addr |-> VaultView(t, a)],
            balances |-> [a \in Addr |-> EastOf(CurrentBalance(t, a))]]

\* The stored signatures in the order of their heights.
Stored(t) == [h \in 1 .. Cardinality(t.blocks) |->
                (CHOOSE b \in t.blocks : b.height = h).sig]
=============================================================================
