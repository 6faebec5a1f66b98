------------------------- MODULE EastListenerProofs -------------------------
(***************************************************************************)
(* What holds of the listener for all users, requests and bounds.          *)
(*                                                                         *)
(* First IInv: the tables are typed, blocks are delivered in the order of  *)
(* their heights, and the last entry of a journal is the newest.  It       *)
(* starts with the statements: what type of table each leaves, and that it *)
(* keeps the foreign keys and the order of the ids.  CallHandled, ExitIInv *)
(* and the like carry IInv through what several actions have in common,    *)
(* and one lemma per action remains.                                       *)
(*                                                                         *)
(* Then what the journals say: the diffs and vault ids of vault_log, the   *)
(* entries behind each payout, the entries of every stored call.  Again    *)
(* the statements, on tables alone; then what a handler writes, in one     *)
(* lemma for all of them; then one invariant after the other.              *)
(***************************************************************************)
EXTENDS EastListenerProps, SequenceLemmas, TLAPS, FiniteSetTheorems

-----------------------------------------------------------------------------
(* The results of the contract and the statements of EastDatabase.         *)

(* Subtraction that stops at zero stays in Nat.                            *)
LEMMA MonusNat == \A m, n \in Nat : Monus(m, n) \in Nat
  BY DEF Monus

(* The absent id is no id.                                                 *)
LEMMA NoIdIsNoId == NoId \notin Id
  BY ContractAssumption DEF NoId, Id

(* Some row is returned when there is one.                                 *)
LEMMA TheIsElement == ASSUME NEW S, S # {} PROVE The(S) \in S
  BY DEF The

(* A call leaves a state of the contract.                                  *)
LEMMA AfterTyped ==
  ASSUME NEW s \in State, NEW r \in Request
  PROVE  After(s, r) \in State
<1>1. r.type \in TxTypes /\ r.west \in Nat /\ r.rwa \in Nat /\ r.east \in Nat
      /\ r.request \in IdOrNone /\ r.sender \in Addr \cup {Service}
      /\ r.address \in Addr
  BY DEF Request
<1>2. s.vaults \in [Addr -> Vault] /\ s.balances \in [Addr -> Nat]
      /\ s.exchanged \in SUBSET IdOrNone
  BY DEF State
<1>3. \A v \in Vault : VaultAfter(v, r) \in Vault
  <2>1. NoVault \in Vault
    BY DEF NoVault, Vault
  <2> SUFFICES ASSUME NEW v \in Vault PROVE VaultAfter(v, r) \in Vault
    OBVIOUS
  <2>2. v.west \in Nat /\ v.rwa \in Nat /\ v.east \in Nat /\ v.active \in BOOLEAN
    BY DEF Vault
  <2>3. Monus(v.west, r.west) \in Nat
    BY <2>2, <1>1, MonusNat
  <2>4. CASE r.type \in {"mint", "liquidate"}
    BY <2>4, <1>1 DEF VaultAfter, Vault
  <2>5. CASE r.type = "supply"
    <3>1. VaultAfter(v, r)
            = [v EXCEPT !.west = v.west + r.west, !.rwa = v.rwa + r.rwa]
      BY <2>5 DEF VaultAfter
    <3>2. v.west + r.west \in Nat /\ v.rwa + r.rwa \in Nat
      BY <1>1, <2>2
    <3> QED  BY <3>1, <3>2 DEF Vault
  <2>6. CASE r.type = "reissue"
    BY <2>6, <1>1, <2>2 DEF VaultAfter, Vault
  <2>7. CASE r.type = "claim_overpay"
    BY <2>7, <2>3 DEF VaultAfter, Vault
  <2>8. CASE r.type \notin {"mint", "liquidate", "supply", "reissue",
                            "claim_overpay"}
    BY <2>8, <2>1 DEF VaultAfter
  <2> QED  BY <2>4, <2>5, <2>6, <2>7, <2>8
<1>4. \A a \in Addr : BalanceAfter(s, r, a) \in Nat
  <2> SUFFICES ASSUME NEW a \in Addr PROVE BalanceAfter(s, r, a) \in Nat
    OBVIOUS
  <2>1. s.balances[a] \in Nat /\ s.vaults[a].east \in Nat
    BY <1>2 DEF Vault
  <2>2. /\ Monus(s.balances[a], s.vaults[a].east) \in Nat
        /\ Monus(s.balances[a], r.east) \in Nat
    BY <2>1, <1>1, MonusNat
  <2> QED  BY <1>1, <2>1, <2>2 DEF BalanceAfter
<1> QED  BY <1>1, <1>2, <1>3, <1>4 DEF After, State

(* The node mines typed, non-empty bodies.                                 *)
LEMMA BodiesTyped ==
  ASSUME NEW s \in State, NEW offers \in SUBSET Request
  PROVE  Bodies(s, offers, InitNeedsVault) \subseteq Seq(Call) \ {<<>>}
<1>1. \A t \in State, r \in offers :
        Execute(t, r) \in Call /\ Execute(t, r).after \in State
  BY AfterTyped DEF Execute, Call
<1> DEFINE ok(t) == {r \in offers : Accepts(t, r, InitNeedsVault)}
           one   == {Execute(s, r) : r \in ok(s)}
           two(c) == {<<c, Execute(c.after, r)>> :
                        r \in {q \in ok(c.after) : q.id # c.req.id}}
<1>2. Bodies(s, offers, InitNeedsVault)
        = {<<c>> : c \in one} \cup UNION {two(c) : c \in one}
  BY DEF Bodies
<1>3. \A c \in one : c \in Call /\ c.after \in State
  BY <1>1
<1>4. \A c \in one : <<c>> \in Seq(Call) \ {<<>>}
  BY <1>3
<1>5. \A c \in one : two(c) \subseteq Seq(Call) \ {<<>>}
  <2> SUFFICES ASSUME NEW c \in one, NEW r \in offers
               PROVE  <<c, Execute(c.after, r)>> \in Seq(Call) \ {<<>>}
    OBVIOUS
  <2>1. Execute(c.after, r) \in Call
    BY <1>1, <1>3
  <2> QED  BY <1>3, <2>1
<1> QED  BY <1>2, <1>4, <1>5

-----------------------------------------------------------------------------
(* Each statement leaves typed tables.                                     *)

LEMMA TablesFields ==
  ASSUME NEW t \in Tables
  PROVE  /\ t.blocks \subseteq BlockRow /\ t.oracles \subseteq OracleRow
         /\ t.txs \subseteq TxRow /\ t.vaults \subseteq VaultRow
         /\ t.balances \subseteq BalanceRow /\ t.seq \in Nat
  BY DEF Tables

(* Good(t, blocks): the tables are typed and ordered, and hold the blocks. *)
Good(t, blocks) == t \in Tables /\ Ordered(t) /\ t.blocks = blocks

(* Nothing is stored: nothing can be wrong.                                *)
LEMMA EmptyGood == Good(EmptyTables, {})
  BY DEF Good, EmptyTables, Tables, Ordered

(* saveBlock adds its block to ordered tables.                             *)
LEMMA SaveBlockGood ==
  ASSUME NEW t, Good(t, t.blocks), NEW h \in Nat \ {0}, NEW s \in Nat \ {0}
  PROVE  Good(SaveBlock(t, h, s), t.blocks \cup {[height |-> h, sig |-> s]})
  BY DEF Good, SaveBlock, Ordered, Tables, BlockRow

(* saveOracle touches no journal.                                          *)
LEMMA SaveOracleRowGood ==
  ASSUME NEW t, NEW B, Good(t, B), NEW tx \in Id, NEW h \in Nat \ {0}
  PROVE  Good(SaveOracleRow(t, tx, h), B)
  BY DEF Good, SaveOracleRow, Ordered, Tables, OracleRow

(* An entry of the newest block, under the next id, keeps the order.       *)
LEMMA InsertTxGood ==
  ASSUME NEW t, NEW B, Good(t, B), NEW row \in TxRow, row.id = NextId(t),
         \E b \in B : b.height = row.height,
         \A b \in B : b.height <= row.height
  PROVE  /\ Good(InsertTx(t, row), B)
         /\ row \in InsertTx(t, row).txs
         /\ \A a : CurrentVault(InsertTx(t, row), a) = CurrentVault(t, a)
<1> DEFINE u == InsertTx(t, row)
<1>1. u \in Tables /\ u.blocks = B /\ row \in u.txs
  BY DEF InsertTx, Good, Tables, TxRow
<1>2. /\ u.txs = t.txs \cup {row} /\ u.seq = row.id
      /\ u.vaults = t.vaults /\ u.balances = t.balances
      /\ t.blocks = B /\ t.seq \in Nat /\ row.id = t.seq + 1
      /\ t.txs \subseteq TxRow /\ B \subseteq BlockRow
  BY DEF InsertTx, Good, Tables, NextId
<1>3. \A r \in t.txs : r.id \in Nat /\ r.id < row.id /\ r.height \in Nat
                       /\ r.height <= row.height
  BY <1>2 DEF Good, Ordered, TxRow, BlockRow
<1>4. row.height \in Nat /\ row.id \in Nat
  BY DEF TxRow
<1>5. \A r \in u.txs : r.id <= u.seq /\ \E b \in u.blocks : b.height = r.height
  BY <1>1, <1>2, <1>3, <1>4 DEF Good, Ordered
<1>6. \A v \in u.vaults \cup u.balances : \E r \in u.txs : r.id = v.id
  BY <1>2 DEF Good, Ordered
<1>7. \A p, q \in u.txs : p.height < q.height => p.id < q.id
  <2> SUFFICES ASSUME NEW p \in u.txs, NEW q \in u.txs, p.height < q.height
               PROVE  p.id < q.id
    OBVIOUS
  <2>1. CASE p = row
    BY <2>1, <1>2, <1>3, <1>4
  <2>2. CASE p # row /\ q = row
    BY <2>2, <1>2, <1>3
  <2>3. CASE p # row /\ q # row
    BY <2>3, <1>2 DEF Good, Ordered
  <2> QED  BY <2>1, <2>2, <2>3
<1>8. \A a : CurrentVault(u, a) = CurrentVault(t, a)
  BY <1>2 DEF CurrentVault
<1> QED  BY <1>1, <1>5, <1>6, <1>7, <1>8 DEF Good, Ordered

(* addVaultLog files the vault under an entry of transactions_log.         *)
LEMMA AddVaultLogGood ==
  ASSUME NEW t, NEW B, Good(t, B), NEW row \in t.txs, NEW vaultId \in IdOrNone,
         NEW a \in Addr, NEW v \in Vault,
         vaultId # NoId \/ CurrentVault(t, a) # {}
  PROVE  /\ Good(AddVaultLog(t, row.id, vaultId, a, v), B)
         /\ AddVaultLog(t, row.id, vaultId, a, v).txs = t.txs
<1> DEFINE old  == CurrentVault(t, a)
           last == IF old = {} THEN NoVault ELSE The(old).vault
           new  == [id |-> row.id, address |-> a, vault |-> v,
                    vaultId |-> IF vaultId # NoId THEN vaultId
                                                  ELSE The(old).vaultId,
                    diff |-> [west |-> v.west - last.west,
                              rwa  |-> v.rwa - last.rwa,
                              east |-> v.east - last.east]]
           u    == AddVaultLog(t, row.id, vaultId, a, v)
<1>1. u = [t EXCEPT !.vaults = @ \cup {new}]
  BY DEF AddVaultLog
<1>2. t \in Tables /\ t.txs \subseteq TxRow /\ t.vaults \subseteq VaultRow
  BY TablesFields DEF Good
<1>3. old \subseteq VaultRow
  BY <1>2 DEF CurrentVault, LastById
<1>4. old # {} => The(old) \in VaultRow
  BY <1>3, TheIsElement
<1>5. last \in Vault
  BY <1>4 DEF NoVault, Vault, VaultRow
<1>6. new.vaultId \in Id
  <2>1. CASE vaultId # NoId
    BY <2>1 DEF IdOrNone
  <2>2. CASE vaultId = NoId
    BY <2>2, <1>4 DEF VaultRow
  <2> QED  BY <2>1, <2>2
<1>7. row.id \in Nat
  BY <1>2 DEF TxRow
<1>8. new.diff \in [west : Int, rwa : Int, east : Int]
  BY <1>5 DEF Vault
<1>9. new \in VaultRow
  BY <1>6, <1>7, <1>8 DEF VaultRow
<1>10. u \in Tables /\ u.blocks = B
  BY <1>1, <1>2, <1>9 DEF Tables, Good
<1>11. /\ u.txs = t.txs /\ u.seq = t.seq /\ u.blocks = t.blocks
       /\ u.balances = t.balances /\ u.vaults = t.vaults \cup {new}
  BY <1>1, <1>2 DEF Tables
<1>12. Ordered(u)
  BY <1>11 DEF Ordered, Good
<1> QED  BY <1>10, <1>11, <1>12 DEF Good

(* addBalance files the balance under an entry of transactions_log.        *)
LEMMA AddBalanceGood ==
  ASSUME NEW t, NEW B, Good(t, B), NEW committed \in Tables,
         NEW row \in t.txs, NEW a \in Addr, NEW east \in Nat
  PROVE  /\ Good(AddBalance(t, committed, row.id, a, east), B)
         /\ AddBalance(t, committed, row.id, a, east).txs = t.txs
         /\ AddBalance(t, committed, row.id, a, east).seq = t.seq
<1> DEFINE old == CurrentBalance(committed, a)
           new == [id |-> row.id, address |-> a, east |-> east,
                   diff |-> east - EastOf(old)]
           u   == AddBalance(t, committed, row.id, a, east)
<1>1. u = [t EXCEPT !.balances = @ \cup {new}]
  BY DEF AddBalance
<1>2. t \in Tables /\ t.txs \subseteq TxRow
  BY TablesFields DEF Good
<1>3. old \subseteq BalanceRow
  BY TablesFields DEF CurrentBalance, LastById
<1>4. EastOf(old) \in Nat
  BY <1>3, TheIsElement DEF EastOf, BalanceRow
<1>5. new \in BalanceRow
  BY <1>2, <1>4 DEF BalanceRow, TxRow
<1>6. /\ u \in Tables /\ u.txs = t.txs /\ u.seq = t.seq
      /\ u.blocks = t.blocks /\ u.vaults = t.vaults
      /\ u.balances = t.balances \cup {new}
  BY <1>1, <1>2, <1>5 DEF Tables
<1>7. Ordered(u)
  BY <1>6 DEF Ordered, Good
<1> QED  BY <1>6, <1>7 DEF Good

(* The cascade of a deletion leaves no orphan and the order of the rest.   *)
LEMMA DeleteFromGood ==
  ASSUME NEW t, Good(t, t.blocks), NEW h
  PROVE  Good(DeleteFrom(t, h), {b \in t.blocks : b.height < h})
<1> DEFINE kept    == {b \in t.blocks : b.height < h}
           heights == {b.height : b \in kept}
           txs     == {r \in t.txs : r.height \in heights}
           u       == DeleteFrom(t, h)
<1>1. t \in Tables /\ Ordered(t)
  BY DEF Good
<1>2. u = [t EXCEPT !.blocks   = kept,
                    !.oracles  = {o \in @ : o.height \in heights},
                    !.txs      = txs,
                    !.vaults   = {v \in @ : v.id \in {r.id : r \in txs}},
                    !.balances = {b \in @ : b.id \in {r.id : r \in txs}}]
  BY DEF DeleteFrom, KeepOnly
<1>3. /\ u.blocks = kept /\ u.txs = txs /\ u.seq = t.seq
      /\ u.vaults = {v \in t.vaults : v.id \in {r.id : r \in txs}}
      /\ u.balances = {b \in t.balances : b.id \in {r.id : r \in txs}}
      /\ u \in Tables
  <2> DEFINE oracles  == {o \in t.oracles : o.height \in heights}
             vaults   == {v \in t.vaults : v.id \in {r.id : r \in txs}}
             balances == {b \in t.balances : b.id \in {r.id : r \in txs}}
  <2>1. /\ kept \in SUBSET t.blocks /\ oracles \in SUBSET t.oracles
        /\ txs \in SUBSET t.txs /\ vaults \in SUBSET t.vaults
        /\ balances \in SUBSET t.balances
    OBVIOUS
  <2>2. u = [t EXCEPT !.blocks = kept, !.oracles = oracles, !.txs = txs,
                      !.vaults = vaults, !.balances = balances]
    BY <1>1, <1>2 DEF Tables
  <2> HIDE DEF kept, oracles, txs, vaults, balances, u
  <2>3. /\ u.blocks = kept /\ u.txs = txs /\ u.seq = t.seq
        /\ u.vaults = vaults /\ u.balances = balances
    BY <1>1, <2>2 DEF Tables
  <2>4. u \in Tables
    <3>1. u = [[[[[t EXCEPT !.blocks = kept] EXCEPT !.oracles = oracles]
                 EXCEPT !.txs = txs] EXCEPT !.vaults = vaults]
              EXCEPT !.balances = balances]
      BY <2>2
    <3>2. /\ t.blocks \in SUBSET BlockRow /\ t.oracles \in SUBSET OracleRow
          /\ t.txs \in SUBSET TxRow /\ t.vaults \in SUBSET VaultRow
          /\ t.balances \in SUBSET BalanceRow /\ t.seq \in Nat
      BY <1>1 DEF Tables
    <3>3. /\ kept \in SUBSET BlockRow /\ oracles \in SUBSET OracleRow
          /\ txs \in SUBSET TxRow /\ vaults \in SUBSET VaultRow
          /\ balances \in SUBSET BalanceRow
      BY <2>1, <3>2
    <3> DEFINE t1 == [t EXCEPT !.blocks = kept]
               t2 == [t1 EXCEPT !.oracles = oracles]
               t3 == [t2 EXCEPT !.txs = txs]
               t4 == [t3 EXCEPT !.vaults = vaults]
    <3>4. t1 \in Tables
      BY <1>1, <3>3 DEF Tables
    <3>5. u = [[[[t1 EXCEPT !.oracles = oracles] EXCEPT !.txs = txs]
                EXCEPT !.vaults = vaults] EXCEPT !.balances = balances]
      BY <3>1
    <3> HIDE DEF t1
    <3>6. t2 \in Tables
      BY <3>3, <3>4 DEF Tables
    <3>7. u = [[[t2 EXCEPT !.txs = txs] EXCEPT !.vaults = vaults]
               EXCEPT !.balances = balances]
      BY <3>5
    <3> HIDE DEF t2
    <3>8. t3 \in Tables
      BY <3>3, <3>6 DEF Tables
    <3>9. u = [[t3 EXCEPT !.vaults = vaults] EXCEPT !.balances = balances]
      BY <3>7
    <3> HIDE DEF t3
    <3>10. t4 \in Tables
      BY <3>3, <3>8 DEF Tables
    <3>11. u = [t4 EXCEPT !.balances = balances]
      BY <3>9
    <3> HIDE DEF t4
    <3> QED  BY <3>3, <3>10, <3>11 DEF Tables
  <2> QED  BY <2>3, <2>4 DEF kept, txs, vaults, balances
<1> HIDE DEF u
<1>4. Ordered(u)
  <2>1. \A r \in u.txs : r.id <= u.seq /\ \E b \in u.blocks : b.height = r.height
    BY <1>1, <1>3 DEF Ordered
  <2>2. \A v \in u.vaults \cup u.balances : \E r \in u.txs : r.id = v.id
    BY <1>3
  <2>3. \A p, q \in u.txs : p.height < q.height => p.id < q.id
    BY <1>1, <1>3 DEF Ordered
  <2> QED  BY <2>1, <2>2, <2>3 DEF Ordered
<1> QED  BY <1>3, <1>4 DEF Good, u

-----------------------------------------------------------------------------
(* The listener.                                                           *)

(* No block and no transaction: every conjunct holds of nothing.           *)
LEMMA InitIInv == Init => IInv
<1> SUFFICES ASSUME Init PROVE IInv
  OBVIOUS
<1>1. Good(EmptyTables, {})
  BY EmptyGood
<1>2. /\ store = <<>> /\ chain = <<>> /\ stream = <<>> /\ mode = "down"
      /\ db = EmptyTables /\ statuses = {} /\ trx = NoTrx
      /\ sent = {} /\ faults = 0
  BY DEF Init
<1>3. trx.tables = EmptyTables /\ ~InTrx
  BY <1>2 DEF NoTrx, InTrx
<1>4. TypeOK
  BY <1>1, <1>2, ListenerAssumption DEF TypeOK, NoTrx, Good
<1>5. IsFiniteSet(sent)
  BY <1>2, FS_EmptySet
<1>6. Visible = {EmptyTables}
  BY <1>2, <1>3 DEF Visible
<1>7. SigsOK /\ LastEntryIsNewest
  BY <1>1, <1>6 DEF SigsOK, LastEntryIsNewest, Good
<1>8. ChainOK /\ StreamOK /\ TrxOK /\ DeliveryInOrder
  BY <1>2, <1>3 DEF ChainOK, StreamOK, TrxOK, DeliveryInOrder
<1> QED  BY <1>4, <1>5, <1>7, <1>8 DEF IInv

(* The visible tables are typed and ordered.                               *)
LEMMA VisibleGood ==
  ASSUME IInv
  PROVE  Good(db, db.blocks) /\ Good(trx.tables, trx.tables.blocks)
BY DEF IInv, TypeOK, LastEntryIsNewest, Visible, Good

-----------------------------------------------------------------------------
(* The node.                                                               *)

(* The state that the node's tip holds.                                    *)
LEMMA NodeStateTyped == ASSUME TypeOK, ChainOK PROVE NodeState \in State
<1>1. GenesisState \in State
  BY DEF GenesisState, State, NoVault, Vault
<1>2. ASSUME chain # <<>> PROVE Final(store[chain[Len(chain)]]) \in State
  <2>1. Len(chain) \in DOMAIN chain
    BY <1>2 DEF TypeOK
  <2>2. store[chain[Len(chain)]] \in Block
    BY <2>1 DEF ChainOK, TypeOK
  <2> DEFINE calls == store[chain[Len(chain)]].calls
  <2>3. calls \in Seq(Call) /\ calls # <<>>
    BY <2>2 DEF Block
  <2>4. calls[Len(calls)] \in Call
    BY <2>3
  <2> QED  BY <2>4 DEF Final, Call
<1> QED  BY <1>1, <1>2 DEF NodeState

(* A mined block is one more block for the listener to take, right above   *)
(* the last one announced.                                                 *)
LEMMA MineIInv == ASSUME IInv, Mine PROVE IInv'
<1> USE DEF IInv
<1>1. PICK body \in Bodies(NodeState, Offers, InitNeedsVault) :
        store' = Append(store,
                   [height |-> Len(chain) + 1, calls |-> body,
                    parent |-> IF chain = <<>> THEN 0 ELSE chain[Len(chain)]])
  BY DEF Mine
<1> DEFINE new == [height |-> Len(chain) + 1, calls |-> body,
                   parent |-> IF chain = <<>> THEN 0 ELSE chain[Len(chain)]]
           sig == Len(store) + 1
           ev  == [kind |-> "block", sig |-> sig]
<1>2. /\ chain' = Append(chain, sig)
      /\ stream' = IF mode = "streaming" THEN stream \o <<ev>> ELSE stream
      /\ UNCHANGED <<mode, db, statuses, trx, sent, faults>>
  BY DEF Mine, Notify
<1>3. /\ store \in Seq(Block) /\ chain \in Seq(Nat \ {0})
      /\ stream \in Seq(Event)
  BY DEF TypeOK
<1>4. new \in Block
  <2>1. Offers \subseteq Request
    BY ListenerAssumption DEF Offers, TypeOK
  <2>2. body \in Seq(Call) \ {<<>>}
    BY <1>1, <2>1, BodiesTyped, NodeStateTyped
  <2>3. (IF chain = <<>> THEN 0 ELSE chain[Len(chain)]) \in Nat
    BY <1>3
  <2> QED  BY <1>3, <2>2, <2>3 DEF Block
<1>5. /\ store' \in Seq(Block) /\ sig \in DOMAIN store'
      /\ store'[sig] = new
      /\ \A s \in DOMAIN store : s \in DOMAIN store' /\ store'[s] = store[s]
  BY <1>1, <1>3, <1>4
<1>6. /\ chain' \in Seq(Nat \ {0}) /\ Len(chain') = Len(chain) + 1
      /\ DOMAIN chain' = DOMAIN chain \cup {Len(chain) + 1}
      /\ chain'[Len(chain) + 1] = sig
      /\ \A h \in DOMAIN chain : chain'[h] = chain[h]
  BY <1>2, <1>3
<1>7. /\ ev \in Event /\ stream' \in Seq(Event)
      /\ mode = "streaming" => stream' = Append(stream, ev)
  <2>1. sig \in Nat \ {0}
    BY <1>3
  <2>2. ev \in Event
    BY <2>1 DEF Event
  <2>3. stream \o <<ev>> = Append(stream, ev)
    BY <1>3, <2>2
  <2> QED  BY <1>2, <1>3, <2>2, <2>3
<1>8. TypeOK'
  BY <1>2, <1>5, <1>6, <1>7 DEF TypeOK
<1>9. ChainOK'
  BY <1>5, <1>6 DEF ChainOK
<1>10. StreamOK'
  <2>1. CASE mode = "streaming"
    <3>1. stream' = Append(stream, ev)
      BY <2>1, <1>7
    <3>2. \A i \in DOMAIN stream' :
            \/ i \in DOMAIN stream /\ stream'[i] = stream[i]
            \/ stream'[i] = ev
      BY <3>1, <1>3, <1>7
    <3> QED  BY <3>2, <1>5 DEF StreamOK
  <2>2. CASE mode # "streaming"
    BY <2>2, <1>2, <1>5 DEF StreamOK
  <2> QED  BY <2>1, <2>2
<1>11. SigsOK'
  BY <1>2, <1>5 DEF SigsOK, Visible
<1>12. TrxOK'
  BY <1>2, <1>5 DEF TrxOK, InTrx, Height
<1>13. DeliveryInOrder'
  <2> SUFFICES ASSUME mode = "streaming" PROVE DeliveryInOrder'
    BY <1>2 DEF DeliveryInOrder
  <2>1. /\ stream' = Append(stream, ev) /\ Len(stream') = Len(stream) + 1
        /\ Len(stream) \in Nat /\ stream' # <<>>
        /\ stream'[Len(stream) + 1] = ev
        /\ \A i \in 1 .. Len(stream) :
             stream'[i] = stream[i] /\ stream[i] \in Event
             /\ stream[i].sig \in DOMAIN store
    BY <1>2, <1>3, <1>7 DEF StreamOK
  <2>2. \A i \in 1 .. Len(stream) : HeightAfter(stream[i])' = HeightAfter(stream[i])
    BY <2>1, <1>5 DEF HeightAfter
  <2>3. ASSUME NEW i \in 2 .. Len(stream'), stream'[i].kind = "block"
        PROVE  store'[stream'[i].sig].height = HeightAfter(stream[i - 1])'
    <3>1. CASE i <= Len(stream)
      <4>1. i \in 2 .. Len(stream) /\ i - 1 \in 1 .. Len(stream)
            /\ i \in 1 .. Len(stream)
        BY <3>1, <2>1
      <4>2. store[stream[i].sig].height = HeightAfter(stream[i - 1])
        BY <2>1, <2>3, <4>1 DEF DeliveryInOrder
      <4> QED  BY <4>1, <4>2, <2>1, <2>2, <1>5
    <3>2. CASE i = Len(stream) + 1
      <4>1. stream # <<>> /\ Len(stream) \in 1 .. Len(stream) /\ i - 1 = Len(stream)
        BY <3>2, <2>1, <2>3, <1>3
      <4>2. HeightAfter(stream[Len(stream)]) = Len(chain) + 1
        BY <4>1 DEF DeliveryInOrder
      <4>3. stream[Len(stream)] = stream'[Len(stream)]
        BY <4>1, <2>1
      <4> QED  BY <3>2, <4>1, <4>2, <4>3, <2>1, <2>2, <1>5
    <3> QED  BY <3>1, <3>2, <2>1
  <2>4. ASSUME NEW t \in Visible, stream'[1].kind = "block"
        PROVE  HeightsBelow(t, store'[stream'[1].sig].height)
    <3>1. CASE stream = <<>>
      <4>1. stream'[1] = ev /\ HeightsBelow(t, Len(chain) + 1)
        BY <3>1, <2>1 DEF DeliveryInOrder
      <4> QED  BY <4>1, <1>5
    <3>2. CASE stream # <<>>
      <4>1. 1 \in 1 .. Len(stream)
        BY <3>2, <1>3
      <4>2. stream'[1] = stream[1]
        BY <4>1, <2>1
      <4>3. HeightsBelow(t, store[stream[1].sig].height)
        BY <3>2, <4>2, <2>4 DEF DeliveryInOrder
      <4> QED  BY <4>1, <4>2, <4>3, <2>1, <1>5
    <3> QED  BY <3>1, <3>2
  <2>5. HeightAfter(stream[Len(stream)])' = Len(chain') + 1
    <3>1. stream'[Len(stream')] = ev
      BY <2>1
    <3>2. HeightAfter(stream[Len(stream)])' = store'[sig].height + 1
      BY <3>1 DEF HeightAfter
    <3> QED  BY <3>2, <1>5, <1>6, <1>3
  <2>6. Visible' = Visible
    BY <1>2 DEF Visible
  <2> QED  BY <2>1, <2>3, <2>4, <2>5, <2>6 DEF DeliveryInOrder
<1> QED  BY <1>2, <1>8, <1>9, <1>10, <1>11, <1>12, <1>13
            DEF LastEntryIsNewest, Visible

(* One block, or none, is announced again.                                 *)
LEMMA BlocksTyped ==
  ASSUME TypeOK, NEW from \in Nat \ {0}, NEW to \in Nat,
         to <= Len(chain), from <= to + 1
  PROVE  /\ Blocks(from, to) \in Seq(Event)
         /\ Len(Blocks(from, to)) = to - from + 1
         /\ \A i \in 1 .. to - from + 1 :
              /\ from + i - 1 \in DOMAIN chain
              /\ Blocks(from, to)[i] = [kind |-> "block",
                                        sig  |-> chain[from + i - 1]]
<1> DEFINE n == to - from + 1
<1>1. n \in Nat /\ chain \in Seq(Nat \ {0})
  BY DEF TypeOK
<1>2. \A i \in 1 .. n : from + i - 1 \in DOMAIN chain
  BY <1>1
<1>3. \A i \in 1 .. n : [kind |-> "block", sig |-> chain[from + i - 1]] \in Event
  BY <1>1, <1>2 DEF Event
<1>4. Blocks(from, to) = [i \in 1 .. n |-> [kind |-> "block",
                                            sig |-> chain[from + i - 1]]]
  BY DEF Blocks
<1>5. Blocks(from, to) \in [1 .. n -> Event]
  BY <1>3, <1>4
<1>6. Blocks(from, to) \in Seq(Event) /\ Len(Blocks(from, to)) = n
  BY SMTT(30), <1>1, <1>5
<1> QED  BY <1>2, <1>4, <1>6

(* A rollback is announced with the place where delivery resumes.          *)
LEMMA ForkIInv == ASSUME IInv, Fork PROVE IInv'
<1> USE DEF IInv
<1>1. PICK k \in 0 .. Len(chain) - 1 :
        /\ chain' = SubSeq(chain, 1, k)
        /\ \E from \in {k, k + 1} \ {0} :
             Notify(<<[kind |-> "rollback", sig |-> chain[from]]>>
                      \o Blocks(from, k))
        /\ UNCHANGED <<store, mode, db, statuses, trx, sent, faults>>
  BY DEF Fork
<1>2. PICK from \in {k, k + 1} \ {0} :
        Notify(<<[kind |-> "rollback", sig |-> chain[from]]>>
                 \o Blocks(from, k))
  BY <1>1
<1> DEFINE undo == [kind |-> "rollback", sig |-> chain[from]]
           again == [kind |-> "block", sig |-> chain[from]]
           n == Len(stream)
<1>3. /\ store \in Seq(Block) /\ chain \in Seq(Nat \ {0})
      /\ stream \in Seq(Event) /\ n \in Nat /\ Len(chain) \in Nat
  BY DEF TypeOK
<1>4. /\ k \in Nat /\ from \in DOMAIN chain /\ from \in Nat \ {0}
      /\ chain[from] \in DOMAIN store /\ store[chain[from]].height = from
  BY SMTT(30), <1>1, <1>3 DEF ChainOK
<1>5. /\ chain' \in Seq(Nat \ {0}) /\ Len(chain') = k
      /\ \A h \in DOMAIN chain' : h \in DOMAIN chain /\ chain'[h] = chain[h]
  BY SMTT(30), <1>1, <1>3, <1>4
<1>6. undo \in Event /\ again \in Event
  BY <1>3, <1>4 DEF Event
<1>7. ASSUME mode = "streaming"
      PROVE  \/ from = k + 1 /\ stream' = Append(stream, undo)
             \/ from = k /\ stream' = Append(Append(stream, undo), again)
  <2>1. stream' = stream \o (<<undo>> \o Blocks(from, k))
    BY <1>2, <1>7 DEF Notify
  <2>2. /\ Blocks(from, k) \in Seq(Event)
        /\ Len(Blocks(from, k)) = k - from + 1
        /\ \A i \in 1 .. k - from + 1 :
             Blocks(from, k)[i] = [kind |-> "block",
                                   sig  |-> chain[from + i - 1]]
    <3>1. k <= Len(chain) /\ from <= k + 1
      BY <1>1, <1>2, <1>3
    <3> QED  BY <3>1, <1>4, BlocksTyped
  <2>3. CASE from = k + 1
    <3>1. Blocks(from, k) = <<>>
      BY <2>2, <2>3, <1>4
    <3>2. stream' = Append(stream, undo)
      BY <2>1, <3>1, <1>3, <1>6
    <3> QED  BY <2>3, <3>2
  <2>4. CASE from = k
    <3>1. Blocks(from, k) = <<again>>
      BY <2>2, <2>4, <1>4
    <3>2. stream' = Append(Append(stream, undo), again)
      BY SMTT(30), <2>1, <3>1, <1>3, <1>6
    <3> QED  BY <2>4, <3>2
  <2> QED  BY <2>3, <2>4
<1>8. mode # "streaming" => stream' = stream
  BY <1>2 DEF Notify
<1> DEFINE mid == Append(stream, undo)
<1>9. /\ undo.kind = "rollback" /\ undo.sig = chain[from]
      /\ again.kind = "block" /\ again.sig = chain[from]
  OBVIOUS
<1> HIDE DEF undo, again
<1>15. /\ mid \in Seq(Event) /\ Len(mid) = n + 1 /\ mid[n + 1] = undo
       /\ \A i \in 1 .. n : mid[i] = stream[i]
  BY <1>3, <1>6
<1> HIDE DEF mid
<1>16. ASSUME mode = "streaming"
       PROVE  /\ stream' \in Seq(Event) /\ stream'[n + 1] = undo
              /\ Len(stream') = IF from = k THEN n + 2 ELSE n + 1
              /\ from = k => stream'[n + 2] = again
              /\ \A i \in 1 .. n : stream'[i] = stream[i]
  <2>1. CASE from = k + 1 /\ stream' = mid
    BY <2>1, <1>4, <1>15
  <2>2. CASE from = k /\ stream' = Append(mid, again)
    BY <2>2, <1>3, <1>6, <1>15
  <2> QED  BY <2>1, <2>2, <1>7, <1>16 DEF mid
<1>17. stream' \in Seq(Event)
  BY <1>3, <1>8, <1>16
<1>10. TypeOK'
  BY <1>1, <1>5, <1>17 DEF TypeOK
<1>11. ChainOK'
  BY <1>1, <1>5 DEF ChainOK
<1>12. StreamOK'
  <2>1. CASE mode = "streaming"
    <3>1. \A i \in DOMAIN stream' :
            \/ i \in DOMAIN stream /\ stream'[i] = stream[i]
            \/ stream'[i] = undo
            \/ stream'[i] = again
      <4>1. DOMAIN stream' = 1 .. Len(stream') /\ DOMAIN stream = 1 .. n
        BY <1>3, <1>17
      <4> SUFFICES ASSUME NEW i \in 1 .. Len(stream')
                   PROVE  \/ i \in 1 .. n /\ stream'[i] = stream[i]
                          \/ stream'[i] = undo
                          \/ stream'[i] = again
        BY <4>1
      <4>2. CASE i \in 1 .. n
        BY <4>2, <2>1, <1>16
      <4>3. CASE i \notin 1 .. n
        <5>1. i = n + 1 \/ (from = k /\ i = n + 2)
          BY <4>3, <2>1, <1>3, <1>16
        <5> QED  BY <5>1, <2>1, <1>16
      <4> QED  BY <4>2, <4>3
    <3> QED  BY <3>1, <1>1, <1>4, <1>9 DEF StreamOK
  <2>2. CASE mode # "streaming"
    BY <2>2, <1>1, <1>8 DEF StreamOK
  <2> QED  BY <2>1, <2>2
<1>13. SigsOK' /\ TrxOK' /\ LastEntryIsNewest' /\ Visible' = Visible
  BY <1>1 DEF SigsOK, TrxOK, InTrx, Height, LastEntryIsNewest, Visible
<1>14. DeliveryInOrder'
  <2> SUFFICES ASSUME mode = "streaming" PROVE DeliveryInOrder'
    BY <1>1 DEF DeliveryInOrder
  <2>1. /\ Len(stream') > n /\ Len(stream') \in Nat /\ stream' # <<>>
        /\ stream'[n + 1] = undo
        /\ \A i \in 1 .. n : stream'[i] = stream[i]
    BY <1>3, <1>16
  <2>2. ASSUME NEW i \in 2 .. Len(stream'), stream'[i].kind = "block"
        PROVE  store[stream'[i].sig].height = HeightAfter(stream[i - 1])'
    <3>1. CASE i <= n
      <4>1. i \in 1 .. n /\ i - 1 \in 1 .. n /\ i \in 2 .. n
        BY <3>1, <2>1, <1>3
      <4>2. stream'[i] = stream[i] /\ stream'[i - 1] = stream[i - 1]
        BY <4>1, <2>1
      <4>3. store[stream[i].sig].height = HeightAfter(stream[i - 1])
        BY <4>1, <4>2, <2>2 DEF DeliveryInOrder
      <4>4. HeightAfter(stream[i - 1])' = HeightAfter(stream[i - 1])
        BY <4>2, <1>1 DEF HeightAfter
      <4> QED  BY <4>2, <4>3, <4>4
    <3>2. CASE i = n + 1
      BY <3>2, <2>1, <2>2, <1>9
    <3>3. CASE i > n + 1
      <4>1. from = k /\ i = n + 2 /\ stream'[i] = again
        BY <3>3, <1>3, <1>16
      <4>2. i - 1 = n + 1
        BY <4>1, <1>3
      <4> QED  BY <4>1, <4>2, <2>1, <1>1, <1>9 DEF HeightAfter
    <3> QED  BY <3>1, <3>2, <3>3, <1>3, <2>1
  <2>3. ASSUME NEW t \in Visible, stream'[1].kind = "block"
        PROVE  HeightsBelow(t, store[stream'[1].sig].height)
    <3>1. n # 0
      BY <2>1, <2>3, <1>9
    <3>2. stream'[1] = stream[1] /\ stream # <<>>
      BY <3>1, <2>1, <1>3
    <3> QED  BY <3>2, <2>3 DEF DeliveryInOrder
  <2>4. HeightAfter(stream[Len(stream)])' = Len(chain') + 1
    <3>1. CASE from = k + 1
      <4>1. stream'[Len(stream')] = undo
        BY <3>1, <1>4, <1>16
      <4> QED  BY <4>1, <3>1, <1>1, <1>4, <1>5, <1>9 DEF HeightAfter
    <3>2. CASE from = k
      <4>1. stream'[Len(stream')] = again
        BY <3>2, <1>4, <1>16
      <4> QED  BY <4>1, <3>2, <1>1, <1>4, <1>5, <1>9 DEF HeightAfter
    <3> QED  BY <3>1, <3>2
  <2> QED  BY <2>1, <2>2, <2>3, <2>4, <1>1, <1>13 DEF DeliveryInOrder
<1> QED  BY <1>1, <1>10, <1>11, <1>12, <1>13, <1>14

-----------------------------------------------------------------------------
(* The start of the process.                                               *)

(* Nothing but the mode changes, and no events are taken yet.              *)
LEMMA StartIInv == ASSUME IInv, Start PROVE IInv'
<1> USE DEF IInv
<1>1. /\ mode = "down" /\ mode' = "connecting"
      /\ UNCHANGED <<store, chain, stream, db, statuses, trx, sent, faults>>
  BY DEF Start, node
<1>2. ~InTrx /\ trx = NoTrx
  BY <1>1 DEF TrxOK
<1>3. TypeOK'
  BY <1>1 DEF TypeOK
<1>4. ChainOK' /\ StreamOK' /\ SigsOK' /\ LastEntryIsNewest'
  BY <1>1 DEF ChainOK, StreamOK, SigsOK, LastEntryIsNewest, Visible
<1>5. TrxOK' /\ DeliveryInOrder'
  BY <1>1, <1>2 DEF TrxOK, InTrx, DeliveryInOrder
<1> QED  BY <1>1, <1>3, <1>4, <1>5

(* The process stops: the transaction and the pending events are gone.     *)
LEMMA ExitIInv ==
  ASSUME IInv, Exit, UNCHANGED <<store, chain, db, statuses>>,
         sent' \subseteq Request, IsFiniteSet(sent'), faults' \in 0 .. MaxFaults
  PROVE  IInv'
<1> USE DEF IInv
<1>1. mode' = "down" /\ stream' = <<>> /\ trx' = NoTrx
  BY DEF Exit
<1>2. Good(EmptyTables, {})
  BY EmptyGood
<1>3. trx.next \in Nat /\ NoTrx.tables = EmptyTables /\ NoTrx.sig = 0
  BY DEF NoTrx, TypeOK
<1>4. TypeOK'
  BY <1>1, <1>2 DEF TypeOK, NoTrx, Good
<1>5. ChainOK' /\ StreamOK'
  BY <1>1 DEF ChainOK, StreamOK
<1>6. SigsOK' /\ LastEntryIsNewest'
  <2>1. Visible' = {db, EmptyTables} /\ db \in Visible
    BY <1>1, <1>3 DEF Visible
  <2> QED  BY <2>1, <1>2 DEF SigsOK, LastEntryIsNewest, Good
<1>7. TrxOK' /\ DeliveryInOrder'
  BY <1>1, <1>3 DEF TrxOK, InTrx, DeliveryInOrder
<1> QED  BY <1>4, <1>5, <1>6, <1>7

(* Delivery starts right above the last stored block.                      *)
LEMMA ConnectIInv == ASSUME IInv, Connect PROVE IInv'
<1> USE DEF IInv
<1>1. /\ mode = "connecting" /\ mode' = "streaming"
      /\ UNCHANGED <<store, chain, db, statuses, trx, sent, faults>>
  BY DEF Connect, node
<1>2. ~InTrx /\ trx = NoTrx
  BY <1>1 DEF TrxOK
<1>3. /\ chain \in Seq(Nat \ {0}) /\ Len(chain) \in Nat
      /\ db \in Tables /\ db.blocks \subseteq BlockRow
  BY TablesFields DEF TypeOK
<1>4. PICK from \in 1 .. Len(chain) + 1 :
        /\ stream' = Blocks(from, Len(chain))
        /\ \A b \in db.blocks : b.height < from
  <2>1. CASE db.blocks = {} /\ chain # <<>> /\ stream' = Blocks(1, Len(chain))
    BY <2>1, <1>3
  <2>2. ASSUME NEW b \in LastBlock(db), NEW h \in DOMAIN chain,
               chain[h] = b.sig, stream' = Blocks(h + 1, Len(chain))
        PROVE  \E from \in 1 .. Len(chain) + 1 :
                 /\ stream' = Blocks(from, Len(chain))
                 /\ \A c \in db.blocks : c.height < from
    <3>1. b \in db.blocks /\ \A c \in db.blocks : c.height <= b.height
      BY DEF LastBlock
    <3>2. b.height = h
      BY <3>1, <2>2 DEF SigsOK, ChainOK, Visible
    <3>3. h + 1 \in 1 .. Len(chain) + 1
      BY <1>3
    <3>4. \A c \in db.blocks : c.height < h + 1
      BY <3>1, <3>2, <1>3 DEF BlockRow
    <3> QED  BY <3>3, <3>4, <2>2
  <2> QED  BY <2>1, <2>2 DEF Connect
<1>5. /\ stream' \in Seq(Event) /\ Len(stream') = Len(chain) - from + 1
      /\ \A i \in 1 .. Len(chain) - from + 1 :
           /\ from + i - 1 \in DOMAIN chain
           /\ stream'[i] = [kind |-> "block", sig |-> chain[from + i - 1]]
  <2>1. from \in Nat \ {0} /\ from <= Len(chain) + 1 /\ Len(chain) <= Len(chain)
    BY <1>3
  <2>2. TypeOK
    OBVIOUS
  <2> HIDE DEF IInv
  <2> QED  BY <2>1, <2>2, <1>3, <1>4, BlocksTyped
<1>6. \A i \in DOMAIN stream' :
        /\ stream'[i].kind = "block" /\ stream'[i].sig \in DOMAIN store
        /\ store[stream'[i].sig].height = from + i - 1
  <2>1. DOMAIN stream' = 1 .. Len(chain) - from + 1
    BY <1>5
  <2>2. \A i \in DOMAIN stream' :
          /\ from + i - 1 \in DOMAIN chain
          /\ stream'[i].kind = "block"
          /\ stream'[i].sig = chain[from + i - 1]
    BY <2>1, <1>5
  <2> QED  BY <2>2 DEF ChainOK
<1>7. TypeOK'
  BY <1>1, <1>5 DEF TypeOK
<1>8. ChainOK' /\ StreamOK' /\ SigsOK' /\ LastEntryIsNewest'
  BY <1>1, <1>6 DEF ChainOK, StreamOK, SigsOK, LastEntryIsNewest, Visible
<1>9. TrxOK'
  BY <1>1, <1>2 DEF TrxOK, InTrx
<1>10. DeliveryInOrder'
  <2>1. ASSUME NEW i \in 2 .. Len(stream')
        PROVE  store[stream'[i].sig].height = HeightAfter(stream[i - 1])'
    <3>1. i \in DOMAIN stream' /\ i - 1 \in DOMAIN stream' /\ i \in Nat
      BY <1>5
    <3> QED  BY SMTT(30), <3>1, <1>1, <1>3, <1>4, <1>6 DEF HeightAfter
  <2>2. ASSUME NEW t \in Visible'
        PROVE  \A b \in t.blocks : b.height < from
    BY <1>1, <1>2, <1>4 DEF Visible, NoTrx, EmptyTables
  <2>3. ASSUME NEW t \in Visible'
        PROVE  IF stream' = <<>> THEN HeightsBelow(t, Len(chain) + 1)
               ELSE HeightsBelow(t, store[stream'[1].sig].height)
    <3>1. CASE stream' = <<>>
      <4>1. from = Len(chain) + 1
        BY <3>1, <1>3, <1>4, <1>5
      <4> QED  BY <3>1, <4>1, <2>2 DEF HeightsBelow
    <3>2. CASE stream' # <<>>
      <4>1. 1 \in DOMAIN stream'
        BY <3>2, <1>5
      <4>2. store[stream'[1].sig].height = from
        BY <4>1, <1>4, <1>6
      <4> QED  BY <3>2, <4>2, <2>2 DEF HeightsBelow
    <3> QED  BY <3>1, <3>2
  <2>4. stream' # <<>> => HeightAfter(stream[Len(stream)])' = Len(chain) + 1
    <3> SUFFICES ASSUME stream' # <<>>
                 PROVE  HeightAfter(stream[Len(stream)])' = Len(chain) + 1
      OBVIOUS
    <3>1. Len(stream') \in DOMAIN stream'
      BY <1>5
    <3>2. store[stream'[Len(stream')].sig].height = Len(chain)
      BY <3>1, <1>3, <1>4, <1>5, <1>6
    <3> QED  BY <3>1, <3>2, <1>1, <1>6 DEF HeightAfter
  <2> QED  BY <2>1, <2>3, <2>4, <1>1 DEF DeliveryInOrder
<1> QED  BY <1>1, <1>7, <1>8, <1>9, <1>10

(* A last block unknown to the node is dropped before any event is taken.  *)
LEMMA RollbackLastBlockIInv == ASSUME IInv, RollbackLastBlock PROVE IInv'
<1> USE DEF IInv
<1>1. /\ mode = "connecting" /\ db' = DeleteLastBlock(db)
      /\ UNCHANGED <<store, chain, stream, mode, statuses, trx, sent, faults>>
  BY DEF RollbackLastBlock, node
<1>2. Good(db', db'.blocks) /\ db'.blocks \subseteq db.blocks
  BY <1>1, VisibleGood, DeleteFromGood DEF DeleteLastBlock, Good
<1>3. ~InTrx /\ trx = NoTrx
  BY <1>1 DEF TrxOK
<1>4. TypeOK'
  BY <1>1, <1>2 DEF TypeOK, Good
<1>5. ChainOK' /\ StreamOK' /\ TrxOK' /\ DeliveryInOrder'
  BY <1>1, <1>3 DEF ChainOK, StreamOK, TrxOK, InTrx, DeliveryInOrder
<1>6. SigsOK' /\ LastEntryIsNewest'
  BY <1>1, <1>2 DEF SigsOK, LastEntryIsNewest, Visible, Good
<1> QED  BY <1>1, <1>4, <1>5, <1>6

-----------------------------------------------------------------------------
(* receiveTxs.                                                             *)

(* What a handler finds: a typed call of a block above all that is stored. *)
LEMMA CurrentTyped ==
  ASSUME IInv, CallsLeft
  PROVE  /\ InTrx /\ Current \in Call /\ CurrentReq \in Request
         /\ Height \in Nat \ {0}
         /\ \E b \in trx.tables.blocks : b.height = Height
         /\ \A b \in trx.tables.blocks : b.height <= Height
<1>1. InTrx /\ trx.next <= Len(store[trx.sig].calls) /\ trx.next \in Nat \ {0}
  BY DEF IInv, TypeOK, CallsLeft
<1>2. trx.sig \in DOMAIN store /\ store[trx.sig] \in Block
  BY <1>1 DEF IInv, TrxOK, TypeOK
<1>3. store[trx.sig].calls \in Seq(Call)
  BY <1>2 DEF Block
<1>4. Current \in Call
  BY <1>1, <1>3 DEF Current
<1>5. CurrentReq \in Request
  BY <1>4 DEF CurrentReq, Call
<1>6. Height \in Nat \ {0}
  BY <1>2 DEF Height, Block
<1> QED  BY <1>1, <1>4, <1>5, <1>6 DEF IInv, TrxOK

(* A handler that leaves good tables, and what else it leaves, is harmless. *)
LEMMA CallHandled ==
  ASSUME IInv, CallsLeft,
         NEW T, Good(T, trx.tables.blocks),
         NEW rows \in SUBSET StatusRow, NEW aborted \in BOOLEAN,
         trx' = [trx EXCEPT !.next = trx.next + 1, !.tables = T,
                            !.statuses = trx.statuses \cup rows,
                            !.aborted = aborted],
         UNCHANGED <<store, chain, stream, mode, db, statuses>>,
         sent' \subseteq Request, IsFiniteSet(sent'), faults' \in 0 .. MaxFaults
  PROVE  IInv'
<1> USE DEF IInv
<1>1. /\ InTrx /\ trx.sig \in Nat /\ trx.next \in Nat \ {0}
      /\ trx.statuses \in SUBSET StatusRow
  BY DEF CallsLeft, TypeOK
<1> DEFINE Trx == [sig : Nat, next : Nat \ {0}, tables : Tables,
                   statuses : SUBSET StatusRow, aborted : BOOLEAN]
<1>2. /\ trx'.sig = trx.sig /\ trx'.tables = T /\ trx'.next = trx.next + 1
      /\ trx' \in Trx
  <2>1. trx \in Trx /\ trx.next + 1 \in Nat \ {0} /\ T \in Tables
    BY <1>1 DEF TypeOK, Good
  <2>2. trx.statuses \cup rows \in SUBSET StatusRow
    BY <1>1
  <2> DEFINE all == trx.statuses \cup rows
             nxt == trx.next + 1
  <2>3. all \in SUBSET StatusRow /\ nxt \in Nat \ {0}
        /\ trx' = [trx EXCEPT !.next = nxt, !.tables = T, !.statuses = all,
                              !.aborted = aborted]
    BY <2>1, <2>2
  <2> HIDE DEF all, IInv
  <2>4. /\ trx'.sig = trx.sig /\ trx'.tables = T /\ trx'.next = nxt
        /\ trx' \in Trx
    <3> HIDE DEF nxt
    <3> QED  BY <2>1, <2>3
  <2> QED  BY <2>4
<1>3. TypeOK'
  BY <1>2 DEF TypeOK
<1>4. ChainOK' /\ StreamOK'
  BY DEF ChainOK, StreamOK
<1>5. Visible' = {db, T} /\ T.blocks = trx.tables.blocks
  BY <1>2 DEF Visible, Good
<1>6. SigsOK' /\ LastEntryIsNewest'
  BY <1>5 DEF SigsOK, LastEntryIsNewest, Visible, Good
<1>7. TrxOK'
  BY <1>1, <1>2, <1>5 DEF TrxOK, InTrx, Height
<1>8. DeliveryInOrder'
  BY <1>5 DEF DeliveryInOrder, HeightAfter, HeightsBelow, Visible
<1> QED  BY <1>3, <1>4, <1>6, <1>7, <1>8

(* The form most handlers have.                                            *)
LEMMA AdvanceIInv ==
  ASSUME IInv, CallsLeft,
         NEW T, Good(T, trx.tables.blocks), NEW rows \in SUBSET StatusRow,
         Advance(T, rows),
         sent' \subseteq Request, IsFiniteSet(sent'), faults' \in 0 .. MaxFaults
  PROVE  IInv'
<1>1. /\ trx' = [trx EXCEPT !.next = trx.next + 1, !.tables = T,
                            !.statuses = trx.statuses \cup rows]
      /\ UNCHANGED <<store, chain, stream, mode, db, statuses>>
  BY DEF Advance, node
<1>2. trx \in [sig : Nat, next : Nat \ {0}, tables : Tables,
               statuses : SUBSET StatusRow, aborted : BOOLEAN]
  BY DEF IInv, TypeOK
<1>3. trx' = [trx EXCEPT !.next = trx.next + 1, !.tables = T,
                         !.statuses = trx.statuses \cup rows,
                         !.aborted = trx.aborted]
  BY <1>1, <1>2
<1>4. trx.aborted \in BOOLEAN
  BY <1>2
<1> QED  BY <1>1, <1>3, <1>4, CallHandled

(* What does not send and does not fail leaves these two alone.            *)
LEMMA NothingSent ==
  ASSUME IInv
  PROVE  sent \subseteq Request /\ IsFiniteSet(sent) /\ faults \in 0 .. MaxFaults
BY DEF IInv, TypeOK

(* Clients have the address of a user; the service sends its own types.    *)
LEMMA ClientIsUser ==
  ASSUME NEW r \in Request, r.type \notin ServiceTypes
  PROVE  r.sender \in Addr
BY DEF Request

(* The atomic that answers a request is a request of the service.          *)
LEMMA AnswerTyped ==
  ASSUME IInv, NEW r \in Request, NEW type \in ServiceTypes, NEW a \in Addr,
         NEW west \in Nat, NEW rwa \in Nat
  PROVE  /\ Answer(r, type, a, west, rwa) \in Request
         /\ sent \cup {Answer(r, type, a, west, rwa)} \subseteq Request
         /\ IsFiniteSet(sent \cup {Answer(r, type, a, west, rwa)})
<1> DEFINE answer == Answer(r, type, a, west, rwa)
           made   == {s \in sent : s.request = r.id}
<1>1. IsFiniteSet(made)
  BY FS_Subset DEF IInv
<1>2. Cardinality(made) \in Nat
  BY <1>1, FS_CardinalityType
<1>3. r.id \in Id
  BY DEF Request
<1>4. AnswerId(r) \in Id
  BY <1>2, <1>3 DEF AnswerId, Id
<1>5. answer \in Request
  <2>1. type \in TxTypes
    BY DEF ServiceTypes, TxTypes, JournalTypes, VaultTypes
  <2>2. r.id \in IdOrNone /\ "none" \in OracleValue
    BY <1>3 DEF IdOrNone, OracleValue
  <2> QED  BY <1>4, <2>1, <2>2 DEF Answer, Request
<1>6. sent \cup {answer} \subseteq Request
  BY <1>5 DEF IInv, TypeOK
<1>7. IsFiniteSet(sent \cup {answer})
  BY FS_AddElement DEF IInv
<1> QED  BY <1>5, <1>6, <1>7

(* The block becomes the newest of the tables the handlers see.            *)
LEMMA BeginBlockIInv == ASSUME IInv, BeginBlock PROVE IInv'
<1> USE DEF IInv
<1> DEFINE sig == stream[1].sig
           h   == store[sig].height
<1>1. /\ mode = "streaming" /\ ~InTrx /\ stream # <<>>
      /\ stream[1].kind = "block"
      /\ trx' = [NoTrx EXCEPT !.sig = sig, !.tables = SaveBlock(db, h, sig)]
      /\ stream' = Tail(stream)
      /\ UNCHANGED <<store, chain, mode, db, statuses, sent, faults>>
  <2>1. /\ HeadIs("block") /\ stream' = Tail(stream)
        /\ trx' = [NoTrx EXCEPT !.sig = Head(stream).sig,
                     !.tables = SaveBlock(db, store[Head(stream).sig].height,
                                          Head(stream).sig)]
        /\ UNCHANGED <<store, chain, mode, db, statuses, sent, faults>>
    BY DEF BeginBlock, node
  <2>2. Head(stream) = stream[1]
    BY <2>1 DEF HeadIs, TypeOK
  <2> QED  BY <2>1, <2>2 DEF HeadIs
<1>2. /\ stream \in Seq(Event) /\ stream' \in Seq(Event)
      /\ Len(stream') = Len(stream) - 1 /\ Len(stream) \in Nat \ {0}
      /\ \A i \in 1 .. Len(stream') : stream'[i] = stream[i + 1]
  BY <1>1 DEF TypeOK
<1>3. sig \in DOMAIN store /\ sig \in Nat \ {0} /\ h \in Nat \ {0}
  <2>1. 1 \in DOMAIN stream /\ store \in Seq(Block)
    BY <1>2 DEF TypeOK
  <2>2. sig \in DOMAIN store
    BY <2>1 DEF StreamOK
  <2>3. sig \in Nat \ {0} /\ store[sig] \in Block
    BY <2>1, <2>2
  <2> QED  BY <2>2, <2>3 DEF Block
<1>4. HeightsBelow(db, h)
  BY <1>1 DEF DeliveryInOrder, Visible
<1> DEFINE T == SaveBlock(db, h, sig)
<1>5. Good(T, db.blocks \cup {[height |-> h, sig |-> sig]})
  BY <1>3, VisibleGood, SaveBlockGood
<1>6. /\ trx'.sig = sig /\ trx'.tables = T
      /\ trx' \in [sig : Nat, next : Nat \ {0}, tables : Tables,
                   statuses : SUBSET StatusRow, aborted : BOOLEAN]
  <2>1. T \in Tables /\ trx' = [NoTrx EXCEPT !.sig = sig, !.tables = T]
    BY <1>1, <1>5 DEF Good
  <2> HIDE DEF T, sig, h
  <2>2. trx' = [sig |-> sig, next |-> 1, tables |-> T, statuses |-> {},
                aborted |-> FALSE]
    BY <2>1 DEF NoTrx
  <2>3. sig \in Nat /\ {} \in SUBSET StatusRow /\ FALSE \in BOOLEAN
        /\ 1 \in Nat \ {0}
    BY <1>3
  <2>4. T \in Tables
    BY <2>1
  <2> HIDE DEF IInv
  <2>5. trx'.sig = sig /\ trx'.tables = T
    BY <2>2
  <2>6. trx' \in [sig : Nat, next : Nat \ {0}, tables : Tables,
                  statuses : SUBSET StatusRow, aborted : BOOLEAN]
    BY <2>2, <2>3, <2>4
  <2> QED  BY <2>5, <2>6
<1>7. T.blocks = db.blocks \cup {[height |-> h, sig |-> sig]} /\ Ordered(T)
  BY <1>5 DEF Good
<1> HIDE DEF T
<1>8. TypeOK'
  BY <1>1, <1>2, <1>6 DEF TypeOK
<1>9. ChainOK' /\ StreamOK'
  <2>1. \A i \in DOMAIN stream' : i + 1 \in DOMAIN stream /\ stream'[i] = stream[i + 1]
    BY <1>2
  <2> QED  BY <1>1, <2>1 DEF ChainOK, StreamOK
<1>10. Visible' = {db, T} /\ db \in Visible
  BY <1>1, <1>6 DEF Visible
<1>11. SigsOK' /\ LastEntryIsNewest'
  BY <1>1, <1>3, <1>7, <1>10 DEF SigsOK, LastEntryIsNewest
<1>12. TrxOK'
  <2>1. \A b \in T.blocks : b.height <= h
    BY <1>3, <1>4, <1>7, VisibleGood DEF HeightsBelow, Good, Tables, BlockRow
  <2>2. \E b \in T.blocks : b.height = h
    <3>1. [height |-> h, sig |-> sig] \in T.blocks
      BY <1>7
    <3>2. [height |-> h, sig |-> sig].height = h
      OBVIOUS
    <3> QED  BY <3>1, <3>2
  <2> QED  BY <1>1, <1>3, <1>6, <2>1, <2>2 DEF TrxOK, InTrx, Height
<1>13. \A t \in Visible' : HeightsBelow(t, h + 1)
  BY <1>3, <1>4, <1>7, <1>10, VisibleGood DEF HeightsBelow, Good, Tables, BlockRow
<1>14. DeliveryInOrder'
  <2>1. HeightAfter(stream[1]) = h + 1
    BY <1>1 DEF HeightAfter
  <2>2. ASSUME NEW i \in 2 .. Len(stream'), stream'[i].kind = "block"
        PROVE  store[stream'[i].sig].height = HeightAfter(stream[i - 1])'
    <3>1. i + 1 \in 2 .. Len(stream) /\ stream'[i] = stream[i + 1]
          /\ stream'[i - 1] = stream[i] /\ (i + 1) - 1 = i
      <4>1. i \in 1 .. Len(stream') /\ i + 1 \in 2 .. Len(stream)
            /\ i - 1 \in 1 .. Len(stream')
            /\ (i - 1) + 1 = i /\ (i + 1) - 1 = i
        BY <1>2
      <4>2. stream'[i - 1] = stream[(i - 1) + 1]
        BY <4>1, <1>2
      <4> QED  BY <4>1, <4>2, <1>2
    <3>2. store[stream[i + 1].sig].height = HeightAfter(stream[i])
      BY <3>1, <2>2, <1>1 DEF DeliveryInOrder
    <3> QED  BY <3>1, <3>2, <1>1 DEF HeightAfter
  <2>3. ASSUME stream' = <<>> PROVE Len(chain) + 1 = h + 1
    <3>1. Len(stream) = 1
      BY <2>3, <1>2
    <3> QED  BY <3>1, <2>1, <1>1 DEF DeliveryInOrder
  <2>4. ASSUME stream' # <<>>, stream'[1].kind = "block"
        PROVE  store[stream'[1].sig].height = h + 1
    <3>1. 2 \in 2 .. Len(stream) /\ stream'[1] = stream[2]
      BY <2>4, <1>2
    <3> QED  BY <3>1, <2>1, <2>4, <1>1 DEF DeliveryInOrder
  <2>5. stream' # <<>> => HeightAfter(stream[Len(stream)])' = Len(chain) + 1
    <3> SUFFICES ASSUME stream' # <<>>
                 PROVE  HeightAfter(stream[Len(stream)])' = Len(chain) + 1
      OBVIOUS
    <3>1. stream'[Len(stream')] = stream[Len(stream)]
      BY <1>2
    <3>2. HeightAfter(stream[Len(stream)]) = Len(chain) + 1
      BY <1>1 DEF DeliveryInOrder
    <3> QED  BY <3>1, <3>2, <1>1 DEF HeightAfter
  <2> QED  BY <2>2, <2>3, <2>4, <2>5, <1>1, <1>13 DEF DeliveryInOrder
<1> QED  BY <1>1, <1>8, <1>9, <1>11, <1>12, <1>14

(* Commit shows readers what the transaction saw, or nothing.              *)
LEMMA CommitIInv == ASSUME IInv, Commit PROVE IInv'
<1> USE DEF IInv
<1>1. /\ db' \in Visible /\ trx' = NoTrx
      /\ statuses' \in {statuses, statuses \cup trx.statuses}
      /\ UNCHANGED <<store, chain, stream, mode, sent, faults>>
  BY DEF Commit, Visible, node
<1>2. Good(EmptyTables, {})
  BY EmptyGood
<1>3. NoTrx.tables = EmptyTables /\ NoTrx.sig = 0
  BY DEF NoTrx
<1>4. db' \in Tables
  BY <1>1 DEF TypeOK, Visible
<1>5. TypeOK'
  BY <1>1, <1>2, <1>4 DEF TypeOK, NoTrx, Good
<1>6. ChainOK' /\ StreamOK'
  BY <1>1 DEF ChainOK, StreamOK
<1>7. Visible' = {db', EmptyTables}
  BY <1>1, <1>3 DEF Visible
<1>8. SigsOK' /\ LastEntryIsNewest'
  BY <1>1, <1>2, <1>7 DEF SigsOK, LastEntryIsNewest, Good
<1>9. TrxOK'
  BY <1>1, <1>3 DEF TrxOK, InTrx
<1>10. DeliveryInOrder'
  <2>1. \A n : HeightsBelow(EmptyTables, n)
    BY <1>2 DEF HeightsBelow, Good
  <2> QED  BY <2>1, <1>1, <1>7 DEF DeliveryInOrder, HeightAfter, HeightsBelow
<1> QED  BY <1>1, <1>5, <1>6, <1>8, <1>9, <1>10

(* The entry of the current call goes under the newest block.              *)
LEMMA ExecutedLogged ==
  ASSUME IInv, CallsLeft, CurrentReq.type \in JournalTypes,
         NEW t, Good(t, trx.tables.blocks), NEW a \in Addr
  PROVE  LET row == ExecutedRow(t, CurrentReq, a, Height)
         IN  /\ Good(InsertTx(t, row), trx.tables.blocks)
             /\ row \in InsertTx(t, row).txs
             /\ \A b : CurrentVault(InsertTx(t, row), b) = CurrentVault(t, b)
<1> DEFINE row == ExecutedRow(t, CurrentReq, a, Height)
<1>1. /\ CurrentReq \in Request /\ Height \in Nat \ {0}
      /\ \E b \in trx.tables.blocks : b.height = Height
      /\ \A b \in trx.tables.blocks : b.height <= Height
  BY CurrentTyped
<1>2. CurrentReq.id \in Id
  BY <1>1 DEF Request
<1>3. t.seq + 1 \in Nat
  BY DEF Good, Tables
<1>4. row \in TxRow /\ row.id = NextId(t) /\ row.height = Height
  BY <1>1, <1>2, <1>3 DEF ExecutedRow, TxRow, NextId, IdOrNone
<1> QED  BY <1>1, <1>4, InsertTxGood

(* So does the entry of an init call.                                      *)
LEMMA RequestLogged ==
  ASSUME IInv, CallsLeft, CurrentReq.type \in JournalTypes \ ServiceTypes,
         NEW tx \in Id, NEW status \in {"init", "declined"}
  PROVE  Good(InsertTx(trx.tables, RequestRow(trx.tables, CurrentReq, tx,
                         status, Height)), trx.tables.blocks)
<1> DEFINE row == RequestRow(trx.tables, CurrentReq, tx, status, Height)
<1>1. /\ CurrentReq \in Request /\ Height \in Nat \ {0}
      /\ \E b \in trx.tables.blocks : b.height = Height
      /\ \A b \in trx.tables.blocks : b.height <= Height
  BY CurrentTyped
<1>2. CurrentReq.id \in Id /\ CurrentReq.sender \in Addr
  BY <1>1, ClientIsUser DEF Request
<1>3. Good(trx.tables, trx.tables.blocks) /\ trx.tables.seq + 1 \in Nat
  BY VisibleGood DEF Good, Tables
<1>4. row \in TxRow /\ row.id = NextId(trx.tables) /\ row.height = Height
  BY <1>1, <1>2, <1>3 DEF RequestRow, TxRow, NextId, IdOrNone
<1> QED  BY <1>1, <1>3, <1>4, InsertTxGood

(* What a call left of a user's vault and balance.                         *)
LEMMA AfterOfCurrent ==
  ASSUME IInv, CallsLeft, NEW a \in Addr
  PROVE  /\ Current.after.vaults[a] \in Vault
         /\ Current.after.balances[a] \in Nat
<1>1. Current.after \in State
  BY CurrentTyped DEF Call
<1> QED  BY <1>1 DEF State

(* Calls without a handler change the position in the block only.          *)
LEMMA SkipCallIInv == ASSUME IInv, SkipCall PROVE IInv'
<1>1. CallsLeft /\ Advance(trx.tables, {}) /\ UNCHANGED <<sent, faults>>
  BY DEF SkipCall
<1>2. Good(trx.tables, trx.tables.blocks)
  BY VisibleGood
<1> QED  BY <1>1, <1>2, NothingSent, AdvanceIInv

(* An oracle's rate touches no journal, and a refused one no table.        *)
LEMMA SaveOracleIInv == ASSUME IInv, SaveOracle PROVE IInv'
<1> DEFINE T == IF CurrentReq.value = "valid" /\ ~trx.aborted
                  THEN SaveOracleRow(trx.tables, CurrentReq.id, Height)
                  ELSE trx.tables
           aborted == trx.aborted \/ CurrentReq.value = "rejected"
<1>1. /\ CallsLeft
      /\ trx' = [trx EXCEPT !.next = trx.next + 1, !.tables = T,
                            !.aborted = aborted]
      /\ UNCHANGED <<store, chain, stream, mode, db, statuses, sent, faults>>
  BY DEF SaveOracle, node
<1>2. CurrentReq.id \in Id /\ Height \in Nat \ {0}
  BY <1>1, CurrentTyped DEF Request
<1>3. Good(trx.tables, trx.tables.blocks)
  BY VisibleGood
<1>4. Good(T, trx.tables.blocks)
  BY <1>2, <1>3, SaveOracleRowGood
<1>5. trx \in [sig : Nat, next : Nat \ {0}, tables : Tables,
               statuses : SUBSET StatusRow, aborted : BOOLEAN]
  BY DEF IInv, TypeOK
<1>6. aborted \in BOOLEAN
  BY <1>5
<1> HIDE DEF T, aborted
<1>7. trx' = [trx EXCEPT !.next = trx.next + 1, !.tables = T,
                         !.statuses = trx.statuses \cup {},
                         !.aborted = aborted]
  BY <1>1, <1>5
<1>8. UNCHANGED <<store, chain, stream, mode, db, statuses>>
  BY <1>1
<1>9. sent' \subseteq Request /\ IsFiniteSet(sent') /\ faults' \in 0 .. MaxFaults
  BY <1>1, NothingSent
<1>10. CallsLeft
  BY <1>1
<1> QED  BY <1>4, <1>6, <1>7, <1>8, <1>9, <1>10, CallHandled

(* A vault call files its vault, and a balance when it issues tokens.      *)
LEMMA ReceiveTypicalTxIInv == ASSUME IInv, ReceiveTypicalTx PROVE IInv'
<1> DEFINE r   == CurrentReq
           B   == trx.tables.blocks
           a   == Owner(r)
           row == ExecutedRow(trx.tables, r, a, Height)
           v   == [Current.after.vaults[a] EXCEPT !.active = TRUE]
           t   == AddVaultLog(InsertTx(trx.tables, row), row.id,
                              NewVaultId(r), a, v)
           u   == AddBalance(t, db, row.id, r.address,
                             Current.after.balances[r.address])
           T   == IF r.type \in {"mint", "reissue"} THEN u ELSE t
<1>1. /\ CallsLeft /\ r.type \in VaultTypes /\ ~Throws(r)
      /\ Advance(T, {}) /\ UNCHANGED <<sent, faults>>
  BY DEF ReceiveTypicalTx, Handles
<1>2. r \in Request /\ r.id \in Id /\ r.address \in Addr
  BY <1>1, CurrentTyped DEF Request
<1>3. a \in Addr
  <2>1. CASE r.type = "claim_overpay"
    BY <2>1, <1>2 DEF Owner
  <2>2. CASE r.type # "claim_overpay"
    BY <2>2, <1>1, <1>2, ClientIsUser DEF Owner, VaultTypes, ServiceTypes
  <2> QED  BY <2>1, <2>2
<1>4. r.type \in JournalTypes
  BY <1>1 DEF JournalTypes
<1>5. /\ Good(InsertTx(trx.tables, row), B) /\ row \in InsertTx(trx.tables, row).txs
      /\ CurrentVault(InsertTx(trx.tables, row), a) = CurrentVault(trx.tables, a)
  BY <1>1, <1>3, <1>4, VisibleGood, ExecutedLogged
<1>6. v \in Vault
  BY <1>1, <1>3, AfterOfCurrent DEF Vault
<1>7. NewVaultId(r) \in IdOrNone
  BY <1>2 DEF NewVaultId, IdOrNone
<1>8. NewVaultId(r) # NoId \/ CurrentVault(trx.tables, a) # {}
  <2>1. CASE r.type = "mint"
    BY <2>1, <1>2, NoIdIsNoId DEF NewVaultId
  <2>2. CASE r.type # "mint"
    BY <2>2, <1>1 DEF VaultTypes, Throws, NoVaultRow, Owner
  <2> QED  BY <2>1, <2>2
<1>9. Good(t, B) /\ row \in t.txs
  <2> HIDE DEF row, v, a
  <2>1. NewVaultId(r) # NoId \/ CurrentVault(InsertTx(trx.tables, row), a) # {}
    BY <1>5, <1>8
  <2> QED  BY <2>1, <1>3, <1>5, <1>6, <1>7, AddVaultLogGood
<1>10. Good(u, B)
  <2>1. Current.after.balances[r.address] \in Nat /\ db \in Tables
    BY <1>1, <1>2, AfterOfCurrent DEF IInv, TypeOK
  <2> HIDE DEF t, row
  <2> QED  BY <2>1, <1>2, <1>9, AddBalanceGood
<1>11. Good(T, B)
  BY <1>9, <1>10
<1> HIDE DEF T
<1> QED  BY <1>1, <1>11, NothingSent, AdvanceIInv

(* A close files an empty vault and the balance that is left.              *)
LEMMA CloseIInv == ASSUME IInv, Close PROVE IInv'
<1> DEFINE r   == CurrentReq
           B   == trx.tables.blocks
           a   == r.address
           row == ExecutedRow(trx.tables, r, a, Height)
           t   == AddVaultLog(InsertTx(trx.tables, row), row.id, NoId, a,
                              NoVault)
           T   == AddBalance(t, db, row.id, a, Current.after.balances[a])
<1>1. /\ CallsLeft /\ r.type = "close" /\ ~Throws(r)
      /\ Advance(T, {}) /\ UNCHANGED <<sent, faults>>
  BY DEF Close, Handles
<1>2. a \in Addr
  BY <1>1, CurrentTyped DEF Request
<1>3. r.type \in JournalTypes
  BY <1>1 DEF JournalTypes
<1>4. /\ Good(InsertTx(trx.tables, row), B) /\ row \in InsertTx(trx.tables, row).txs
      /\ CurrentVault(InsertTx(trx.tables, row), a) = CurrentVault(trx.tables, a)
  BY <1>1, <1>2, <1>3, VisibleGood, ExecutedLogged
<1>5. CurrentVault(trx.tables, a) # {}
  BY <1>1 DEF Throws, NoVaultRow
<1>6. NoVault \in Vault /\ NoId \in IdOrNone
  BY DEF NoVault, Vault, IdOrNone
<1>7. Good(t, B) /\ row \in t.txs
  <2> HIDE DEF row, a
  <2>1. CurrentVault(InsertTx(trx.tables, row), a) # {}
    BY <1>4, <1>5
  <2> QED  BY <2>1, <1>2, <1>4, <1>6, AddVaultLogGood
<1>8. Good(T, B)
  <2>1. Current.after.balances[a] \in Nat /\ db \in Tables
    BY <1>1, <1>2, AfterOfCurrent DEF IInv, TypeOK
  <2> HIDE DEF t, row
  <2> QED  BY <2>1, <1>2, <1>7, AddBalanceGood
<1> HIDE DEF T
<1> QED  BY <1>1, <1>8, NothingSent, AdvanceIInv

(* A transfer files two entries under two ids.                             *)
LEMMA TransferIInv == ASSUME IInv, Transfer PROVE IInv'
<1> DEFINE r == CurrentReq
           B == trx.tables.blocks
           row(t, a) == ExecutedRow(t, r, a, Height)
           log(t, a) == AddBalance(InsertTx(t, row(t, a)), db, row(t, a).id, a,
                                   Current.after.balances[a])
<1>1. /\ CallsLeft /\ r.type = "transfer"
      /\ Advance(log(log(trx.tables, r.sender), r.address), {})
      /\ UNCHANGED <<sent, faults>>
  BY DEF Transfer, Handles
<1>2. r \in Request
  BY <1>1, CurrentTyped
<1>3. r.address \in Addr /\ r.sender \in Addr
  BY <1>1, <1>2, ClientIsUser DEF ServiceTypes, Request
<1>4. r.type \in JournalTypes
  BY <1>1 DEF JournalTypes
<1>5. ASSUME NEW t, Good(t, B), NEW a \in Addr PROVE Good(log(t, a), B)
  <2>1. /\ Good(InsertTx(t, row(t, a)), B)
        /\ row(t, a) \in InsertTx(t, row(t, a)).txs
    BY <1>1, <1>4, <1>5, ExecutedLogged
  <2>2. Current.after.balances[a] \in Nat /\ db \in Tables
    BY <1>1, AfterOfCurrent DEF IInv, TypeOK
  <2> HIDE DEF row
  <2> QED  BY <2>1, <2>2, AddBalanceGood
<1> HIDE DEF log
<1>6. Good(log(log(trx.tables, r.sender), r.address), B)
  BY <1>3, <1>5, VisibleGood
<1> QED  BY <1>1, <1>6, NothingSent, AdvanceIInv

(* A liquidation files what the contract left, whoever is paid.            *)
LEMMA LiquidateIInv == ASSUME IInv, Liquidate PROVE IInv'
<1> DEFINE r   == CurrentReq
           B   == trx.tables.blocks
           a   == r.address
           row == ExecutedRow(trx.tables, r, a, Height)
           v   == Deactivated(LiquidatedVault(Current))
           T   == AddVaultLog(InsertTx(trx.tables, row), row.id, NoId, a, v)
           answer == LiquidationAnswer(r)
<1>1. /\ CallsLeft /\ r.type = "liquidate" /\ ~Throws(r)
      /\ Advance(T, {}) /\ sent' \in {sent, sent \cup {answer}}
      /\ faults' = faults \/ (faults < MaxFaults /\ faults' = faults + 1)
  BY DEF Liquidate, PayLiquidator, Handles
<1>2. r \in Request /\ a \in Addr
  BY <1>1, CurrentTyped DEF Request
<1>3. r.sender \in Addr
  BY <1>1, <1>2, ClientIsUser DEF ServiceTypes
<1>4. r.type \in JournalTypes
  BY <1>1 DEF JournalTypes
<1>5. /\ Good(InsertTx(trx.tables, row), B) /\ row \in InsertTx(trx.tables, row).txs
      /\ CurrentVault(InsertTx(trx.tables, row), a) = CurrentVault(trx.tables, a)
  BY <1>1, <1>2, <1>4, VisibleGood, ExecutedLogged
<1>6. CurrentVault(trx.tables, a) # {}
  BY <1>1 DEF Throws, NoVaultRow
<1>7. v \in Vault /\ NoId \in IdOrNone
  <2>1. Current.after.vaults[a] \in Vault
    BY <1>1, <1>2, AfterOfCurrent
  <2> QED  BY <2>1 DEF Deactivated, LiquidatedVault, CurrentReq, Vault, IdOrNone
<1>8. Good(T, B)
  <2> HIDE DEF row, a, v
  <2>1. CurrentVault(InsertTx(trx.tables, row), a) # {}
    BY <1>5, <1>6
  <2> QED  BY <2>1, <1>2, <1>5, <1>7, AddVaultLogGood
<1>9. sent \cup {answer} \subseteq Request /\ IsFiniteSet(sent \cup {answer})
  <2>1. "write_liquidation_west_transfer" \in ServiceTypes /\ 0 \in Nat
    BY DEF ServiceTypes
  <2> QED  BY <2>1, <1>2, <1>3, AnswerTyped DEF LiquidationAnswer
<1>10. faults' \in 0 .. MaxFaults
  BY <1>1, ListenerAssumption DEF IInv, TypeOK
<1>11. sent' \subseteq Request /\ IsFiniteSet(sent')
  BY <1>1, <1>9, NothingSent
<1> HIDE DEF T
<1> QED  BY <1>1, <1>8, <1>10, <1>11, AdvanceIInv

(* The status of an answer is filed under the answer's id.                 *)
LEMMA PendingTyped ==
  ASSUME NEW answer \in Request
  PROVE  answer.id \in Id /\ {Pending(answer)} \in SUBSET StatusRow
<1>1. answer.id \in Id /\ answer.address \in Addr
  BY DEF Request
<1> QED  BY <1>1 DEF Pending, StatusRow

(* A close is answered from the vault that the transaction sees.           *)
LEMMA InitCloseIInv == ASSUME IInv, InitClose PROVE IInv'
<1> DEFINE r      == CurrentReq
           answer == CloseAnswer(r)
           v      == The(CurrentVault(trx.tables, r.sender)).vault
           T      == InsertTx(trx.tables, RequestRow(trx.tables, r, answer.id,
                                "init", Height))
<1>1. /\ CallsLeft /\ r.type = "close_init" /\ ~Throws(r)
      /\ sent' = sent \cup {answer} /\ Advance(T, {Pending(answer)})
      /\ faults' = faults
  BY DEF InitClose, Handles
<1>2. r \in Request
  BY <1>1, CurrentTyped
<1>3. r.sender \in Addr
  BY <1>1, <1>2, ClientIsUser DEF ServiceTypes
<1>4. v \in Vault
  <2>1. CurrentVault(trx.tables, r.sender) # {}
    BY <1>1 DEF Throws, NoVaultRow
  <2>2. CurrentVault(trx.tables, r.sender) \subseteq VaultRow
    BY VisibleGood, TablesFields DEF CurrentVault, LastById, Good
  <2>3. The(CurrentVault(trx.tables, r.sender)) \in VaultRow
    BY <2>1, <2>2, TheIsElement
  <2> QED  BY <2>3 DEF VaultRow
<1>5. Monus(v.west, CloseFee) \in Nat /\ v.rwa \in Nat
  BY <1>4, MonusNat, ContractAssumption DEF Vault
<1>6. answer = Answer(r, "close", r.sender, Monus(v.west, CloseFee), v.rwa)
  BY DEF CloseAnswer
<1>7. /\ answer \in Request
      /\ sent' \subseteq Request /\ IsFiniteSet(sent')
  <2>1. "close" \in ServiceTypes
    BY DEF ServiceTypes
  <2> HIDE DEF v, answer
  <2> QED  BY <2>1, <1>1, <1>2, <1>3, <1>5, <1>6, AnswerTyped
<1>8. answer.id \in Id /\ {Pending(answer)} \in SUBSET StatusRow
  BY <1>7, PendingTyped
<1>9. Good(T, trx.tables.blocks)
  <2>1. r.type \in JournalTypes \ ServiceTypes
    BY <1>1 DEF JournalTypes, ServiceTypes
  <2> HIDE DEF answer
  <2> QED  BY <2>1, <1>1, <1>8, RequestLogged
<1>10. faults' \in 0 .. MaxFaults
  BY <1>1, NothingSent
<1> HIDE DEF T, answer
<1> QED  BY <1>1, <1>7, <1>8, <1>9, <1>10, AdvanceIInv

(* What a claim is paid is an integer, and the payment a natural number.   *)
LEMMA ReturnedInt ==
  ASSUME IInv, NEW r \in Request, r.sender \in Addr
  PROVE  Returned(r) \in Int
<1>1. NodeState.vaults[r.sender] \in Vault
  BY NodeStateTyped DEF IInv, State
<1>2. /\ NodeState.vaults[r.sender].west \in Int
      /\ NodeState.vaults[r.sender].east * Collateral \in Int
      /\ r.west \in Int
  BY <1>1, ContractAssumption DEF Vault, Request
<1> QED  BY <1>2 DEF Returned, MinOf

(* A claim is paid what the node's state leaves free.                      *)
LEMMA ClaimAnswerTyped ==
  ASSUME IInv, NEW r \in Request, r.sender \in Addr, Returned(r) > 0
  PROVE  /\ ClaimAnswer(r) \in Request
         /\ sent \cup {ClaimAnswer(r)} \subseteq Request
         /\ IsFiniteSet(sent \cup {ClaimAnswer(r)})
<1>1. Returned(r) \in Nat
  BY ReturnedInt
<1>2. "claim_overpay" \in ServiceTypes /\ 0 \in Nat
  BY DEF ServiceTypes
<1> QED  BY <1>1, <1>2, AnswerTyped DEF ClaimAnswer

(* A declined claim is filed under its own id.                             *)
LEMMA ClaimDeclinedIInv == ASSUME IInv, ClaimDeclined PROVE IInv'
<1> DEFINE T == InsertTx(trx.tables, RequestRow(trx.tables, CurrentReq,
                           CurrentReq.id, "declined", Height))
<1>1. /\ CallsLeft /\ CurrentReq.type = "claim_overpay_init"
      /\ Advance(T, {}) /\ UNCHANGED <<sent, faults>>
  BY DEF ClaimDeclined, Handles
<1>2. CurrentReq.id \in Id
  BY <1>1, CurrentTyped DEF Request
<1>3. Good(T, trx.tables.blocks)
  <2>1. CurrentReq.type \in JournalTypes \ ServiceTypes
    BY <1>1 DEF JournalTypes, ServiceTypes
  <2> QED  BY <2>1, <1>1, <1>2, RequestLogged
<1> HIDE DEF T
<1> QED  BY <1>1, <1>3, NothingSent, AdvanceIInv

(* A paid claim is filed under the id of the payment.                      *)
LEMMA ClaimPaidIInv == ASSUME IInv, ClaimPaid PROVE IInv'
<1> DEFINE r      == CurrentReq
           answer == ClaimAnswer(r)
           T      == InsertTx(trx.tables, RequestRow(trx.tables, r, answer.id,
                                "init", Height))
<1>1. /\ CallsLeft /\ r.type = "claim_overpay_init" /\ Returned(r) > 0
      /\ sent' = sent \cup {answer} /\ Advance(T, {Pending(answer)})
      /\ faults' = faults
  BY DEF ClaimPaid, Handles
<1>2. r \in Request
  BY <1>1, CurrentTyped
<1>3. r.sender \in Addr
  BY <1>1, <1>2, ClientIsUser DEF ServiceTypes
<1>4. answer \in Request /\ sent' \subseteq Request /\ IsFiniteSet(sent')
  BY <1>1, <1>2, <1>3, ClaimAnswerTyped
<1>5. answer.id \in Id /\ {Pending(answer)} \in SUBSET StatusRow
  BY <1>4, PendingTyped
<1>6. Good(T, trx.tables.blocks)
  <2>1. r.type \in JournalTypes \ ServiceTypes
    BY <1>1 DEF JournalTypes, ServiceTypes
  <2> HIDE DEF answer
  <2> QED  BY <2>1, <1>1, <1>5, RequestLogged
<1>7. faults' \in 0 .. MaxFaults
  BY <1>1, NothingSent
<1> HIDE DEF T, answer
<1> QED  BY <1>1, <1>4, <1>5, <1>6, <1>7, AdvanceIInv

-----------------------------------------------------------------------------
(* Ways out of the process.                                                *)

(* What a handler has broadcast before it fails is typed and finite.       *)
LEMMA HandlerThrowsIInv == ASSUME IInv, HandlerThrows PROVE IInv'
<1> DEFINE r == CurrentReq
<1>1. /\ CallsLeft /\ LateAnswers(r)
      /\ Exit /\ UNCHANGED <<store, chain, db, statuses>>
  BY DEF HandlerThrows, node
<1>2. r \in Request
  BY <1>1, CurrentTyped
<1>3. /\ \/ sent' = sent
         \/ r.type = "liquidate" /\ sent' = sent \cup {LiquidationAnswer(r)}
         \/ /\ r.type = "claim_overpay_init" /\ Returned(r) > 0
            /\ sent' = sent \cup {ClaimAnswer(r)}
      /\ faults' = faults \/ (faults < MaxFaults /\ faults' = faults + 1)
  BY <1>1 DEF LateAnswers, PayLiquidator, IsOwed
<1>4. sent' \subseteq Request /\ IsFiniteSet(sent')
  <2>1. CASE sent' = sent
    BY <2>1, NothingSent
  <2>2. CASE r.type = "liquidate" /\ sent' = sent \cup {LiquidationAnswer(r)}
    <3>1. r.sender \in Addr
      BY <2>2, <1>2, ClientIsUser DEF ServiceTypes
    <3>2. "write_liquidation_west_transfer" \in ServiceTypes /\ 0 \in Nat
      BY DEF ServiceTypes
    <3> QED  BY <2>2, <3>1, <3>2, <1>2, AnswerTyped DEF LiquidationAnswer
  <2>3. CASE /\ r.type = "claim_overpay_init" /\ Returned(r) > 0
             /\ sent' = sent \cup {ClaimAnswer(r)}
    <3>1. r.sender \in Addr
      BY <2>3, <1>2, ClientIsUser DEF ServiceTypes
    <3> QED  BY <2>3, <3>1, <1>2, ClaimAnswerTyped
  <2> QED  BY <2>1, <2>2, <2>3, <1>3
<1>5. faults' \in 0 .. MaxFaults
  BY <1>3, NothingSent, ListenerAssumption
<1> QED  BY <1>1, <1>4, <1>5, ExitIInv

(* Before the contract exists the process only ends.                       *)
LEMMA ExitNoContractIInv == ASSUME IInv, ExitNoContract PROVE IInv'
BY NothingSent, ExitIInv DEF ExitNoContract, node

(* A rollback to an unknown block ends the process.                        *)
LEMMA RollbackThrowsIInv == ASSUME IInv, RollbackThrows PROVE IInv'
BY NothingSent, ExitIInv DEF RollbackThrows, node

(* A crash loses the open transaction and keeps the rest.                  *)
LEMMA CrashIInv == ASSUME IInv, Crash PROVE IInv'
<1>1. /\ Exit /\ faults < MaxFaults /\ faults' = faults + 1
      /\ UNCHANGED <<store, chain, db, statuses, sent>>
  BY DEF Crash, node
<1>2. faults' \in 0 .. MaxFaults
  BY <1>1, NothingSent, ListenerAssumption
<1> QED  BY <1>1, <1>2, NothingSent, ExitIInv

(* A rollback leaves room for exactly the block that is delivered next.    *)
LEMMA RollbackToBlockSignatureIInv ==
  ASSUME IInv, RollbackToBlockSignature PROVE IInv'
<1> USE DEF IInv
<1> DEFINE sig == stream[1].sig
           h   == store[sig].height
<1>1. /\ mode = "streaming" /\ ~InTrx /\ stream # <<>>
      /\ stream[1].kind = "rollback"
      /\ \E b \in db.blocks : b.sig = sig /\ db' = DeleteFrom(db, b.height)
      /\ stream' = Tail(stream)
      /\ UNCHANGED <<store, chain, mode, statuses, trx, sent, faults>>
  <2>1. /\ HeadIs("rollback") /\ stream' = Tail(stream)
        /\ \E b \in db.blocks : /\ b.sig = Head(stream).sig
                                /\ db' = DeleteFrom(db, b.height)
        /\ UNCHANGED <<store, chain, mode, statuses, trx, sent, faults>>
    BY DEF RollbackToBlockSignature, node
  <2>2. Head(stream) = stream[1]
    BY <2>1 DEF HeadIs, TypeOK
  <2> QED  BY <2>1, <2>2 DEF HeadIs
<1>2. /\ stream \in Seq(Event) /\ stream' \in Seq(Event)
      /\ Len(stream') = Len(stream) - 1 /\ Len(stream) \in Nat \ {0}
      /\ \A i \in 1 .. Len(stream') : stream'[i] = stream[i + 1]
  BY <1>1 DEF TypeOK
<1>3. trx = NoTrx /\ NoTrx.tables = EmptyTables
  BY <1>1 DEF TrxOK, NoTrx
<1>4. db' = DeleteFrom(db, h)
  BY <1>1 DEF SigsOK, Visible
<1>5. Good(db', {b \in db.blocks : b.height < h})
  <2> HIDE DEF IInv
  <2> QED  BY <1>4, VisibleGood, DeleteFromGood
<1>6. db'.blocks = {b \in db.blocks : b.height < h} /\ Ordered(db')
      /\ db' \in Tables
  BY <1>5 DEF Good
<1>7. TypeOK'
  BY <1>1, <1>2, <1>6 DEF TypeOK
<1>8. ChainOK' /\ StreamOK'
  <2>1. \A i \in DOMAIN stream' : i + 1 \in DOMAIN stream /\ stream'[i] = stream[i + 1]
    BY <1>2
  <2> QED  BY <1>1, <2>1 DEF ChainOK, StreamOK
<1>9. Visible' = {db', EmptyTables} /\ db \in Visible /\ EmptyTables \in Visible
  BY <1>1, <1>3 DEF Visible
<1>10. SigsOK' /\ LastEntryIsNewest'
  BY <1>1, <1>6, <1>9 DEF SigsOK, LastEntryIsNewest
<1>11. TrxOK'
  BY <1>1, <1>3 DEF TrxOK, InTrx
<1>12. \A t \in Visible' : HeightsBelow(t, h)
  BY <1>6, <1>9 DEF HeightsBelow, EmptyTables
<1>13. DeliveryInOrder'
  <2>1. HeightAfter(stream[1]) = h
    BY <1>1 DEF HeightAfter
  <2>2. ASSUME NEW i \in 2 .. Len(stream'), stream'[i].kind = "block"
        PROVE  store[stream'[i].sig].height = HeightAfter(stream[i - 1])'
    <3>1. i + 1 \in 2 .. Len(stream) /\ stream'[i] = stream[i + 1]
          /\ stream'[i - 1] = stream[i] /\ (i + 1) - 1 = i
      <4>1. i \in 1 .. Len(stream') /\ i + 1 \in 2 .. Len(stream)
            /\ i - 1 \in 1 .. Len(stream')
            /\ (i - 1) + 1 = i /\ (i + 1) - 1 = i
        BY <1>2
      <4>2. stream'[i - 1] = stream[(i - 1) + 1]
        BY <4>1, <1>2
      <4> QED  BY <4>1, <4>2, <1>2
    <3>2. store[stream[i + 1].sig].height = HeightAfter(stream[i])
      BY <3>1, <2>2, <1>1 DEF DeliveryInOrder
    <3> QED  BY <3>1, <3>2, <1>1 DEF HeightAfter
  <2>3. ASSUME stream' = <<>> PROVE Len(chain) + 1 = h
    <3>1. Len(stream) = 1
      BY <2>3, <1>2
    <3> QED  BY <3>1, <2>1, <1>1 DEF DeliveryInOrder
  <2>4. ASSUME stream' # <<>>, stream'[1].kind = "block"
        PROVE  store[stream'[1].sig].height = h
    <3>1. 2 \in 2 .. Len(stream) /\ stream'[1] = stream[2]
      BY <2>4, <1>2
    <3> QED  BY <3>1, <2>1, <2>4, <1>1 DEF DeliveryInOrder
  <2>5. stream' # <<>> => HeightAfter(stream[Len(stream)])' = Len(chain) + 1
    <3> SUFFICES ASSUME stream' # <<>>
                 PROVE  HeightAfter(stream[Len(stream)])' = Len(chain) + 1
      OBVIOUS
    <3>1. stream'[Len(stream')] = stream[Len(stream)]
      BY <1>2
    <3>2. HeightAfter(stream[Len(stream)]) = Len(chain) + 1
      BY <1>1 DEF DeliveryInOrder
    <3> QED  BY <3>1, <3>2, <1>1 DEF HeightAfter
  <2> QED  BY <2>2, <2>3, <2>4, <2>5, <1>1, <1>12 DEF DeliveryInOrder
<1> QED  BY <1>1, <1>7, <1>8, <1>10, <1>11, <1>13

-----------------------------------------------------------------------------
(* Every step of the node, of the listener and of the fault model keeps    *)
(* IInv.                                                                   *)
LEMMA NextIInv == IInv /\ [Next]_vars => IInv'
<1> SUFFICES ASSUME IInv, [Next]_vars PROVE IInv'
  OBVIOUS
<1>1. CASE Mine
  BY <1>1, MineIInv
<1>2. CASE Fork
  BY <1>2, ForkIInv
<1>3. CASE Start
  BY <1>3, StartIInv
<1>4. CASE Connect
  BY <1>4, ConnectIInv
<1>5. CASE RollbackLastBlock
  BY <1>5, RollbackLastBlockIInv
<1>6. CASE ExitNoContract
  BY <1>6, ExitNoContractIInv
<1>7. CASE BeginBlock
  BY <1>7, BeginBlockIInv
<1>8. CASE SkipCall
  BY <1>8, SkipCallIInv
<1>9. CASE SaveOracle
  BY <1>9, SaveOracleIInv
<1>10. CASE ReceiveTypicalTx
  BY <1>10, ReceiveTypicalTxIInv
<1>11. CASE Close
  BY <1>11, CloseIInv
<1>12. CASE Transfer
  BY <1>12, TransferIInv
<1>13. CASE InitClose
  BY <1>13, InitCloseIInv
<1>14. CASE ClaimDeclined
  BY <1>14, ClaimDeclinedIInv
<1>15. CASE ClaimPaid
  BY <1>15, ClaimPaidIInv
<1>16. CASE Liquidate
  BY <1>16, LiquidateIInv
<1>17. CASE HandlerThrows
  BY <1>17, HandlerThrowsIInv
<1>18. CASE Commit
  BY <1>18, CommitIInv
<1>19. CASE RollbackToBlockSignature
  BY <1>19, RollbackToBlockSignatureIInv
<1>20. CASE RollbackThrows
  BY <1>20, RollbackThrowsIInv
<1>21. CASE Crash
  BY <1>21, CrashIInv
<1>22. CASE UNCHANGED vars
  BY <1>22 DEF vars, IInv, TypeOK, ChainOK, StreamOK, SigsOK, TrxOK, InTrx,
               Height, Visible, DeliveryInOrder, HeightAfter, LastEntryIsNewest
<1> QED  BY <1>1, <1>2, <1>3, <1>4, <1>5, <1>6, <1>7, <1>8, <1>9, <1>10, <1>11,
            <1>12, <1>13, <1>14, <1>15, <1>16, <1>17, <1>18, <1>19, <1>20,
            <1>21, <1>22 DEF Next, Listen, HandleCall

(* The inductive invariant holds in every reachable state.                 *)
THEOREM Invariance == Spec => []IInv
<1>1. Init => IInv
  BY InitIInv
<1>2. IInv /\ [Next]_vars => IInv'
  BY NextIInv
<1> QED  BY <1>1, <1>2, PTL DEF Spec

(* The tables, the stream, the open transaction and the broadcasts have    *)
(* their types: no handler writes an entry without an id, an address or a  *)
(* vault_id, whatever the blocks carry.                                    *)
THEOREM TypeCorrect == Spec => []TypeOK
<1>1. IInv => TypeOK
  BY DEF IInv
<1> QED  BY <1>1, Invariance, PTL

(* Foreign keys hold and the order of the ids is the order of the heights, *)
(* after any forks, crashes and replays: ORDER BY id DESC LIMIT 1 finds    *)
(* the entry of the newest block that has one.                             *)
THEOREM NewestEntry == Spec => []LastEntryIsNewest
<1>1. IInv => LastEntryIsNewest
  BY DEF IInv
<1> QED  BY <1>1, Invariance, PTL

(* Blocks reach receiveTxs in the order of their heights and never at or   *)
(* below a height that is already stored: rollbackToBlockSignature and the *)
(* restart make room for exactly what the node sends next.                 *)
THEOREM InOrder == Spec => []DeliveryInOrder
<1>1. IInv => DeliveryInOrder
  BY DEF IInv
<1> QED  BY <1>1, Invariance, PTL

-----------------------------------------------------------------------------
(* The journals.                                                           *)

(* One row per id in each table that has ids.                              *)
IdsUnique(t) ==
    /\ \A p, q \in t.txs : p.id = q.id => p = q
    /\ \A p, q \in t.vaults : p.id = q.id => p = q
    /\ \A p, q \in t.balances : p.id = q.id => p = q

(* VaultDiffsTelescope of one content of the tables.                       *)
Telescopes(t) ==
    \A r \in t.vaults :
      LET last == Before(t.vaults, r)
          old  == IF last = {} THEN NoVault ELSE The(last).vault
      IN  r.diff = [west |-> r.vault.west - old.west,
                    rwa  |-> r.vault.rwa - old.rwa,
                    east |-> r.vault.east - old.east]

(* VaultIdNamesItsMint of one content of the tables.                       *)
Mints(t, a, id) ==
    LastById({m \in t.txs : m.type = "mint" /\ m.address = a /\ m.id <= id})

NamesMints(t) ==
    \A r \in t.vaults : \E m \in Mints(t, r.address, r.id) : r.vaultId = m.tx

(* Between two entries of vault_log no mint is left without one: the entry *)
(* before is of the vault that the newest mint opened.                     *)
MintsHaveVaults(t) ==
    \A m \in t.txs : m.type = "mint" =>
      \E v \in t.vaults : v.id = m.id /\ v.address = m.address

Sound(t) == /\ Good(t, t.blocks)
            /\ IdsUnique(t) /\ Telescopes(t) /\ NamesMints(t)
            /\ MintsHaveVaults(t)

-----------------------------------------------------------------------------
(* The statements keep tables sound.                                       *)

(* Nothing stored, nothing wrong.                                          *)
LEMMA EmptySound == Sound(EmptyTables)
<1>1. Good(EmptyTables, {}) /\ EmptyTables.blocks = {}
  BY EmptyGood DEF Good
<1>2. EmptyTables.txs = {} /\ EmptyTables.vaults = {} /\ EmptyTables.balances = {}
  BY DEF EmptyTables
<1> QED
  BY <1>1, <1>2 DEF Sound, IdsUnique, Telescopes, NamesMints, MintsHaveVaults

(* The rows of the tables have numbers for ids, none above the counter.    *)
LEMMA IdsBelow ==
  ASSUME NEW t, Good(t, t.blocks)
  PROVE  /\ t.seq \in Nat
         /\ \A r \in t.txs \cup t.vaults \cup t.balances :
              r.id \in Nat /\ r.id <= t.seq
<1>1. /\ t.seq \in Nat /\ t.txs \subseteq TxRow /\ t.vaults \subseteq VaultRow
      /\ t.balances \subseteq BalanceRow
  BY TablesFields DEF Good
<1>2. \A r \in t.txs : r.id \in Nat /\ r.id <= t.seq
  BY <1>1 DEF Good, Ordered, TxRow
<1>3. \A v \in t.vaults \cup t.balances : \E r \in t.txs : r.id = v.id
  BY DEF Good, Ordered
<1> QED  BY <1>1, <1>2, <1>3

(* What only adds blocks or rates leaves the journals as they are.         *)
LEMMA SameJournals ==
  ASSUME NEW t, NEW u, Sound(t), Good(u, u.blocks),
         u.txs = t.txs, u.vaults = t.vaults, u.balances = t.balances
  PROVE  Sound(u)
<1>1. IdsUnique(u)
  BY DEF Sound, IdsUnique
<1>2. Telescopes(u)
  BY DEF Sound, Telescopes
<1>3. \A a, id : Mints(u, a, id) = Mints(t, a, id)
  BY DEF Mints
<1>4. NamesMints(u)
  BY <1>3 DEF Sound, NamesMints
<1>5. MintsHaveVaults(u)
  BY DEF Sound, MintsHaveVaults
<1> QED  BY <1>1, <1>2, <1>4, <1>5 DEF Sound

(* saveBlock.                                                              *)
LEMMA SaveBlockSound ==
  ASSUME NEW t, Sound(t), NEW h \in Nat \ {0}, NEW s \in Nat \ {0}
  PROVE  Sound(SaveBlock(t, h, s))
<1> DEFINE u == SaveBlock(t, h, s)
<1>1. Good(u, t.blocks \cup {[height |-> h, sig |-> s]})
  BY SaveBlockGood DEF Sound
<1>2. Good(u, u.blocks)
  BY <1>1 DEF Good
<1>3. u.txs = t.txs /\ u.vaults = t.vaults /\ u.balances = t.balances
  BY DEF SaveBlock, Sound, Good, Tables
<1> HIDE DEF u
<1> QED  BY <1>2, <1>3, SameJournals DEF u

(* saveOracle.                                                             *)
LEMMA SaveOracleRowSound ==
  ASSUME NEW t, Sound(t), NEW tx \in Id, NEW h \in Nat \ {0}
  PROVE  Sound(SaveOracleRow(t, tx, h))
<1> DEFINE u == SaveOracleRow(t, tx, h)
<1>1. Good(u, t.blocks)
  BY SaveOracleRowGood DEF Sound
<1>2. Good(u, u.blocks)
  BY <1>1 DEF Good
<1>3. u.txs = t.txs /\ u.vaults = t.vaults /\ u.balances = t.balances
  BY DEF SaveOracleRow, Sound, Good, Tables
<1> HIDE DEF u
<1> QED  BY <1>2, <1>3, SameJournals DEF u

(* A row that goes under the next id, at the height of the newest block.   *)
Newest(t, row) == /\ row \in TxRow /\ row.id = NextId(t)
                  /\ \E b \in t.blocks : b.height = row.height
                  /\ \A b \in t.blocks : b.height <= row.height

(* An entry under a new id, but for its vault if it is that of a mint.     *)
LEMMA InsertTxAlmostSound ==
  ASSUME NEW t, Sound(t), NEW row, Newest(t, row)
  PROVE  LET u == InsertTx(t, row)
         IN  /\ Good(u, u.blocks) /\ u.blocks = t.blocks
             /\ row \in u.txs /\ u.txs = t.txs \cup {row}
             /\ u.vaults = t.vaults /\ u.balances = t.balances
             /\ u.oracles = t.oracles /\ u.seq = row.id
             /\ IdsUnique(u) /\ Telescopes(u) /\ NamesMints(u)
             /\ \A m \in t.txs : m.type = "mint" =>
                  \E v \in u.vaults : v.id = m.id /\ v.address = m.address
             /\ \A a : CurrentVault(u, a) = CurrentVault(t, a)
             /\ row.id \in Nat
             /\ \A r \in t.txs \cup t.vaults \cup t.balances :
                  r.id \in Nat /\ r.id < row.id
<1> DEFINE u == InsertTx(t, row)
<1>1. /\ Good(t, t.blocks) /\ IdsUnique(t) /\ Telescopes(t) /\ NamesMints(t)
      /\ MintsHaveVaults(t)
  BY DEF Sound
<1>2. /\ row \in TxRow /\ row.id = NextId(t)
      /\ \E b \in t.blocks : b.height = row.height
      /\ \A b \in t.blocks : b.height <= row.height
  BY DEF Newest
<1>3. Good(u, t.blocks) /\ row \in u.txs
      /\ \A a : CurrentVault(u, a) = CurrentVault(t, a)
  BY <1>1, <1>2, InsertTxGood
<1>4. /\ u.txs = t.txs \cup {row} /\ u.vaults = t.vaults
      /\ u.balances = t.balances /\ u.oracles = t.oracles /\ u.seq = row.id
  BY <1>1 DEF InsertTx, Good, Tables
<1>5. row.id \in Nat /\ \A r \in t.txs \cup t.vaults \cup t.balances :
        r.id \in Nat /\ r.id < row.id
  <2>1. t.seq \in Nat /\ \A r \in t.txs \cup t.vaults \cup t.balances :
          r.id \in Nat /\ r.id <= t.seq
    BY <1>1, IdsBelow
  <2> QED  BY <2>1, <1>2 DEF NextId
<1> HIDE DEF u
<1>6. IdsUnique(u)
  BY <1>1, <1>4, <1>5 DEF IdsUnique
<1>7. Telescopes(u)
  BY <1>1, <1>4 DEF Telescopes
<1>8. \A r \in t.vaults : Mints(u, r.address, r.id) = Mints(t, r.address, r.id)
  <2> SUFFICES ASSUME NEW r \in t.vaults
               PROVE  Mints(u, r.address, r.id) = Mints(t, r.address, r.id)
    OBVIOUS
  <2>1. ~(row.id <= r.id)
    BY <1>5
  <2>2. {m \in u.txs : m.type = "mint" /\ m.address = r.address /\ m.id <= r.id}
          = {m \in t.txs : m.type = "mint" /\ m.address = r.address /\ m.id <= r.id}
    BY <2>1, <1>4
  <2> QED  BY <2>2 DEF Mints
<1>9. NamesMints(u)
  BY <1>1, <1>4, <1>8 DEF NamesMints
<1>10. Good(u, u.blocks) /\ u.blocks = t.blocks
  BY <1>3 DEF Good
<1> QED
  BY <1>1, <1>3, <1>4, <1>5, <1>6, <1>7, <1>9, <1>10 DEF u, MintsHaveVaults

(* An entry that opens no vault.                                           *)
LEMMA InsertTxSound ==
  ASSUME NEW t, Sound(t), NEW row, Newest(t, row), row.type # "mint"
  PROVE  Sound(InsertTx(t, row))
<1> DEFINE u == InsertTx(t, row)
<1>1. /\ Good(u, u.blocks) /\ u.txs = t.txs \cup {row}
      /\ IdsUnique(u) /\ Telescopes(u) /\ NamesMints(u)
      /\ \A m \in t.txs : m.type = "mint" =>
           \E v \in u.vaults : v.id = m.id /\ v.address = m.address
  BY InsertTxAlmostSound
<1> HIDE DEF u
<1>2. MintsHaveVaults(u)
  BY <1>1 DEF MintsHaveVaults
<1> QED  BY <1>1, <1>2 DEF Sound, u

(* The entry of a vault, with its row of vault_log.                        *)
LEMMA VaultLoggedSound ==
  ASSUME NEW t, Sound(t), NEW row, Newest(t, row), NEW vaultId,
         NEW v \in Vault,
         IF row.type = "mint" THEN vaultId = row.tx
                              ELSE /\ vaultId = NoId
                                   /\ CurrentVault(t, row.address) # {}
  PROVE  LET w == AddVaultLog(InsertTx(t, row), row.id, vaultId,
                              row.address, v)
         IN  /\ Sound(w) /\ w.blocks = t.blocks /\ w.txs = t.txs \cup {row}
             /\ w.balances = t.balances /\ w.oracles = t.oracles
             /\ \E d \in [west : Int, rwa : Int, east : Int], i \in Id :
                  w.vaults = t.vaults \cup
                    {[id |-> row.id, address |-> row.address, vault |-> v,
                      vaultId |-> i, diff |-> d]}
<1> DEFINE a    == row.address
           u    == InsertTx(t, row)
           old  == CurrentVault(u, a)
           last == IF old = {} THEN NoVault ELSE The(old).vault
           i    == IF vaultId # NoId THEN vaultId ELSE The(old).vaultId
           d    == [west |-> v.west - last.west, rwa |-> v.rwa - last.rwa,
                    east |-> v.east - last.east]
           new  == [id |-> row.id, address |-> a, vault |-> v, vaultId |-> i,
                    diff |-> d]
           w    == AddVaultLog(u, row.id, vaultId, a, v)
<1>1. /\ Good(u, u.blocks) /\ u.blocks = t.blocks
      /\ row \in u.txs /\ u.txs = t.txs \cup {row}
      /\ u.vaults = t.vaults /\ u.balances = t.balances
      /\ u.oracles = t.oracles
      /\ IdsUnique(u) /\ Telescopes(u) /\ NamesMints(u)
      /\ \A m \in t.txs : m.type = "mint" =>
           \E x \in u.vaults : x.id = m.id /\ x.address = m.address
      /\ \A b : CurrentVault(u, b) = CurrentVault(t, b)
      /\ row.id \in Nat
      /\ \A r \in t.txs \cup t.vaults \cup t.balances :
           r.id \in Nat /\ r.id < row.id
  BY InsertTxAlmostSound
<1>2. a \in Addr /\ row.tx \in Id /\ row.tx # NoId
  BY NoIdIsNoId DEF Newest, TxRow
<1>3. vaultId \in IdOrNone /\ (vaultId # NoId \/ old # {})
  BY <1>1, <1>2 DEF IdOrNone
<1>4. w = [u EXCEPT !.vaults = @ \cup {new}]
  BY DEF AddVaultLog
<1>5. Good(w, u.blocks) /\ w.txs = u.txs
  BY <1>1, <1>2, <1>3, AddVaultLogGood
<1>6. /\ w.vaults = t.vaults \cup {new} /\ w.balances = t.balances
      /\ w.oracles = t.oracles /\ w.txs = t.txs \cup {row}
      /\ w.blocks = t.blocks /\ Good(w, w.blocks)
  BY <1>1, <1>4, <1>5 DEF Good, Tables
<1>7. old # {} => /\ The(old) \in t.vaults /\ The(old).address = a
                  /\ \A q \in t.vaults : q.address = a => q.id <= The(old).id
  <2> SUFFICES ASSUME old # {}
               PROVE  /\ The(old) \in t.vaults /\ The(old).address = a
                      /\ \A q \in t.vaults : q.address = a => q.id <= The(old).id
    OBVIOUS
  <2>1. The(old) \in old
    BY TheIsElement
  <2> QED  BY <2>1, <1>1 DEF CurrentVault, LastById
<1>8. t.vaults \subseteq VaultRow
  BY TablesFields DEF Sound, Good
<1>9. last \in Vault
  BY <1>7, <1>8 DEF NoVault, Vault, VaultRow
<1>10. d \in [west : Int, rwa : Int, east : Int]
  BY <1>9 DEF Vault
<1>11. i \in Id
  BY <1>2, <1>3, <1>7, <1>8 DEF VaultRow
<1>12. new.id = row.id /\ new.address = a /\ new.vault = v /\ new.vaultId = i
       /\ new.diff = d
  OBVIOUS
<1>13. d = [west |-> v.west - last.west, rwa |-> v.rwa - last.rwa,
            east |-> v.east - last.east]
  OBVIOUS
<1> HIDE DEF w, u, new, d
<1>14. IdsUnique(w)
  BY <1>1, <1>6, <1>12 DEF IdsUnique
<1>15. Before(w.vaults, new) = old
  <2>1. {q \in w.vaults : q.address = new.address /\ q.id < new.id}
          = {q \in t.vaults : q.address = a}
    BY <1>1, <1>6, <1>12
  <2> QED  BY <2>1, <1>1 DEF Before, CurrentVault
<1>16. \A r \in t.vaults : Before(w.vaults, r) = Before(t.vaults, r)
  <2> SUFFICES ASSUME NEW r \in t.vaults
               PROVE  Before(w.vaults, r) = Before(t.vaults, r)
    OBVIOUS
  <2>1. ~(new.id < r.id)
    BY <1>1, <1>12
  <2>2. {q \in w.vaults : q.address = r.address /\ q.id < r.id}
          = {q \in t.vaults : q.address = r.address /\ q.id < r.id}
    BY <2>1, <1>6
  <2> QED  BY <2>2 DEF Before
<1>17. Telescopes(w)
  <2>1. ASSUME NEW r \in t.vaults
        PROVE  LET l == Before(w.vaults, r)
                   o == IF l = {} THEN NoVault ELSE The(l).vault
               IN  r.diff = [west |-> r.vault.west - o.west,
                             rwa  |-> r.vault.rwa - o.rwa,
                             east |-> r.vault.east - o.east]
    BY <1>1, <1>16 DEF Telescopes
  <2>2. LET l == Before(w.vaults, new)
            o == IF l = {} THEN NoVault ELSE The(l).vault
        IN  new.diff = [west |-> new.vault.west - o.west,
                        rwa  |-> new.vault.rwa - o.rwa,
                        east |-> new.vault.east - o.east]
    BY <1>12, <1>13, <1>15
  <2> QED  BY <2>1, <2>2, <1>6 DEF Telescopes
<1>18. \A b, id : Mints(w, b, id) = Mints(u, b, id)
  BY <1>1, <1>6 DEF Mints
<1>19. \E m \in Mints(w, new.address, new.id) : new.vaultId = m.tx
  <2> DEFINE M == {m \in w.txs : m.type = "mint" /\ m.address = a
                                 /\ m.id <= row.id}
  <2>1. Mints(w, new.address, new.id) = {m \in M : \A q \in M : q.id <= m.id}
    BY <1>12 DEF Mints, LastById
  <2>2. CASE row.type = "mint"
    <3>1. row \in M /\ \A q \in M : q.id <= row.id
      BY <2>2, <1>1, <1>6
    <3>2. i = row.tx
      BY <2>2, <1>2
    <3> QED  BY <2>1, <3>1, <3>2, <1>12
  <2>3. CASE row.type # "mint"
    <3>1. The(old) \in t.vaults /\ The(old).address = a /\ i = The(old).vaultId
          /\ \A q \in t.vaults : q.address = a => q.id <= The(old).id
      BY <2>3, <1>1, <1>7
    <3>2. PICK m \in Mints(t, a, The(old).id) : The(old).vaultId = m.tx
      BY <3>1 DEF Sound, NamesMints
    <3> DEFINE K == {x \in t.txs : x.type = "mint" /\ x.address = a
                                   /\ x.id <= The(old).id}
    <3>3. m \in K /\ \A q \in K : q.id <= m.id
      BY <3>2 DEF Mints, LastById
    <3>4. m \in M
      BY <3>3, <1>1, <1>6
    <3>5. ASSUME NEW q \in M PROVE q.id <= m.id
      <4>1. q \in t.txs /\ q.type = "mint" /\ q.address = a
        BY <2>3, <1>6
      <4>2. q.id <= The(old).id
        BY <4>1, <3>1, <1>1
      <4> QED  BY <4>1, <4>2, <3>3
    <3> QED  BY <2>1, <3>1, <3>2, <3>4, <3>5, <1>12
  <2> QED  BY <2>2, <2>3
<1>20. NamesMints(w)
  <2>1. \A r \in t.vaults : \E m \in Mints(w, r.address, r.id) : r.vaultId = m.tx
    BY <1>1, <1>18 DEF NamesMints
  <2> QED  BY <2>1, <1>6, <1>19 DEF NamesMints
<1>21. MintsHaveVaults(w)
  BY <1>1, <1>6, <1>12 DEF MintsHaveVaults
<1>22. Sound(w)
  BY <1>6, <1>14, <1>17, <1>20, <1>21 DEF Sound
<1> QED  BY <1>6, <1>10, <1>11, <1>22 DEF w, u, new

(* A row of balance_log for an entry that has none.                        *)
LEMMA AddBalanceSound ==
  ASSUME NEW t, Sound(t), NEW committed \in Tables, NEW row \in t.txs,
         \A b \in t.balances : b.id # row.id,
         NEW a \in Addr, NEW east \in Nat
  PROVE  LET w == AddBalance(t, committed, row.id, a, east)
         IN  /\ Sound(w) /\ w.blocks = t.blocks /\ w.txs = t.txs
             /\ w.vaults = t.vaults /\ w.oracles = t.oracles
             /\ w.seq = t.seq
             /\ \E d \in Int : w.balances = t.balances \cup
                  {[id |-> row.id, address |-> a, east |-> east, diff |-> d]}
<1> DEFINE d   == east - EastOf(CurrentBalance(committed, a))
           new == [id |-> row.id, address |-> a, east |-> east, diff |-> d]
           w   == AddBalance(t, committed, row.id, a, east)
<1>1. Good(t, t.blocks) /\ t \in Tables
  BY DEF Sound, Good
<1>2. Good(w, t.blocks) /\ w.txs = t.txs /\ w.seq = t.seq
  BY <1>1, AddBalanceGood
<1>3. w = [t EXCEPT !.balances = @ \cup {new}]
  BY DEF AddBalance
<1>4. /\ w.balances = t.balances \cup {new} /\ w.vaults = t.vaults
      /\ w.oracles = t.oracles /\ w.blocks = t.blocks
  BY <1>1, <1>3 DEF Tables
<1>5. new.id = row.id /\ new \in w.balances
  BY <1>4
<1>6. d \in Int
  <2>1. w.balances \subseteq BalanceRow
    BY <1>2, TablesFields DEF Good
  <2>2. new \in BalanceRow /\ new.diff = d
    BY <2>1, <1>5
  <2> HIDE DEF new, d
  <2> QED  BY <2>2 DEF BalanceRow
<1> HIDE DEF w, new, d
<1>7. IdsUnique(w)
  BY <1>2, <1>4, <1>5 DEF Sound, IdsUnique
<1>8. Telescopes(w)
  BY <1>4 DEF Sound, Telescopes
<1>9. \A b, id : Mints(w, b, id) = Mints(t, b, id)
  BY <1>2 DEF Mints
<1>10. NamesMints(w)
  BY <1>4, <1>9 DEF Sound, NamesMints
<1>11. MintsHaveVaults(w)
  BY <1>2, <1>4 DEF Sound, MintsHaveVaults
<1>12. Sound(w)
  BY <1>2, <1>4, <1>7, <1>8, <1>10, <1>11 DEF Sound
<1> QED  BY <1>2, <1>4, <1>6, <1>12 DEF w, new

(* A deletion keeps every entry below the ones it keeps, so that what came *)
(* before an entry still does.                                             *)
LEMMA DeleteFromSound ==
  ASSUME NEW t, Sound(t), NEW h \in Nat
  PROVE  LET u == DeleteFrom(t, h)
         IN  /\ Sound(u)
             /\ u.blocks = {b \in t.blocks : b.height < h}
             /\ u.txs = {r \in t.txs : r.height < h}
             /\ u.vaults \subseteq t.vaults /\ u.balances \subseteq t.balances
             /\ u.oracles = {o \in t.oracles :
                               \E b \in t.blocks : /\ b.height < h
                                                   /\ b.height = o.height}
             /\ \A v \in t.vaults : \A r \in u.txs :
                  v.id <= r.id => v \in u.vaults
             /\ \A v \in t.balances : \A r \in u.txs :
                  v.id <= r.id => v \in u.balances
<1> DEFINE kept    == {b \in t.blocks : b.height < h}
           heights == {b.height : b \in kept}
           txs     == {r \in t.txs : r.height \in heights}
           ids     == {r.id : r \in txs}
           u       == DeleteFrom(t, h)
<1>1. /\ Good(t, t.blocks) /\ t \in Tables /\ Ordered(t) /\ IdsUnique(t)
      /\ Telescopes(t) /\ NamesMints(t) /\ MintsHaveVaults(t)
  BY DEF Sound, Good
<1>2. u = [t EXCEPT !.blocks   = kept,
                    !.oracles  = {o \in @ : o.height \in heights},
                    !.txs      = txs,
                    !.vaults   = {v \in @ : v.id \in ids},
                    !.balances = {b \in @ : b.id \in ids}]
  BY DEF DeleteFrom, KeepOnly
<1>3. /\ u.blocks = kept /\ u.txs = txs
      /\ u.oracles = {o \in t.oracles : o.height \in heights}
      /\ u.vaults = {v \in t.vaults : v.id \in ids}
      /\ u.balances = {b \in t.balances : b.id \in ids}
  BY <1>1, <1>2 DEF Tables
<1>4. Good(u, u.blocks)
  BY <1>1, DeleteFromGood DEF Good
<1>5. /\ t.txs \subseteq TxRow /\ t.blocks \subseteq BlockRow
      /\ t.vaults \subseteq VaultRow /\ t.balances \subseteq BalanceRow
  BY <1>1, TablesFields
<1>6. txs = {r \in t.txs : r.height < h}
  <2>1. \A r \in t.txs : r.height \in heights <=> r.height < h
    BY <1>1 DEF Ordered
  <2> QED  BY <2>1
<1>7. \A p, q \in t.txs : q \in txs /\ p.id <= q.id => p \in txs
  <2> SUFFICES ASSUME NEW p \in t.txs, NEW q \in txs, p.id <= q.id
               PROVE  p \in txs
    OBVIOUS
  <2>1. p.height \in Nat /\ q.height \in Nat /\ p.id \in Nat /\ q.id \in Nat
    BY <1>5 DEF TxRow
  <2>2. ~(q.height < p.height)
    BY <2>1, <1>1 DEF Ordered
  <2> QED  BY <2>1, <2>2, <1>6
<1>8. \A v \in t.vaults \cup t.balances : \A r \in txs :
        v.id <= r.id => v.id \in ids
  <2> SUFFICES ASSUME NEW v \in t.vaults \cup t.balances, NEW r \in txs,
                      v.id <= r.id
               PROVE  v.id \in ids
    OBVIOUS
  <2>1. PICK p \in t.txs : p.id = v.id
    BY <1>1 DEF Ordered
  <2>2. p \in txs
    BY <2>1, <1>7
  <2> QED  BY <2>1, <2>2
<1>9. u.oracles = {o \in t.oracles :
                     \E b \in t.blocks : b.height < h /\ b.height = o.height}
  BY <1>3
<1>10. \A v \in u.vaults : \E r \in txs : r.id = v.id
  BY <1>3
<1>18. u.vaults \subseteq t.vaults /\ u.balances \subseteq t.balances
       /\ u.txs \subseteq t.txs
  BY <1>3
<1>11. \A v \in t.vaults : \A r \in u.txs : v.id <= r.id => v \in u.vaults
  BY <1>3, <1>8
<1>12. \A v \in t.balances : \A r \in u.txs : v.id <= r.id => v \in u.balances
  BY <1>3, <1>8
<1>13. u.txs = {r \in t.txs : r.height < h} /\ u.blocks = kept
  BY <1>3, <1>6
<1>14. IdsUnique(u)
  BY <1>1, <1>18 DEF IdsUnique
<1> HIDE DEF u, txs, ids, heights
<1>15. Telescopes(u)
  <2> SUFFICES ASSUME NEW r \in u.vaults
               PROVE  Before(u.vaults, r) = Before(t.vaults, r)
    BY <1>1, <1>18 DEF Telescopes
  <2>1. PICK e \in u.txs : e.id = r.id
    BY <1>3, <1>10
  <2>2. \A q \in t.vaults : q.id < r.id => q \in u.vaults
    <3>1. r.id \in Nat /\ \A q \in t.vaults : q.id \in Nat
      BY <1>5, <1>18 DEF VaultRow
    <3> QED  BY <3>1, <2>1, <1>11
  <2>3. {q \in u.vaults : q.address = r.address /\ q.id < r.id}
          = {q \in t.vaults : q.address = r.address /\ q.id < r.id}
    BY <2>2, <1>18
  <2> QED  BY <2>3 DEF Before
<1>16. NamesMints(u)
  <2> SUFFICES ASSUME NEW r \in u.vaults
               PROVE  Mints(u, r.address, r.id) = Mints(t, r.address, r.id)
    BY <1>1, <1>18 DEF NamesMints
  <2>1. PICK e \in txs : e.id = r.id
    BY <1>10
  <2>2. \A m \in t.txs : m.id <= r.id => m \in u.txs
    <3>1. e \in t.txs
      BY <1>3, <1>18
    <3> QED  BY <2>1, <3>1, <1>3, <1>7
  <2>3. {m \in u.txs : m.type = "mint" /\ m.address = r.address /\ m.id <= r.id}
          = {m \in t.txs : m.type = "mint" /\ m.address = r.address
                           /\ m.id <= r.id}
    BY <2>2, <1>18
  <2> QED  BY <2>3 DEF Mints
<1>17. MintsHaveVaults(u)
  <2> SUFFICES ASSUME NEW m \in u.txs, m.type = "mint"
               PROVE  \E v \in u.vaults : v.id = m.id /\ v.address = m.address
    BY DEF MintsHaveVaults
  <2>1. PICK v \in t.vaults : v.id = m.id /\ v.address = m.address
    BY <1>1, <1>18 DEF MintsHaveVaults
  <2>2. v.id <= m.id
    BY <2>1, <1>5, <1>18 DEF TxRow
  <2> QED  BY <2>1, <2>2, <1>11
<1> QED
  BY <1>4, <1>9, <1>11, <1>12, <1>13, <1>14, <1>15, <1>16, <1>17, <1>18
     DEF Sound, u

-----------------------------------------------------------------------------
(* Where calls and answers come from.                                      *)

(* An answer is a transaction of the service, numbered among the answers   *)
(* to the same request.                                                    *)
AnswersTo(S, id) == {u \in S : u.request = id}

SentOK ==
    \A s \in sent :
      /\ s.sender = Service
      /\ s.request \in Id /\ s.request[2] = 0 /\ s.id[1] = s.request[1]
      /\ s.id[2] \in 1 .. Cardinality(AnswersTo(sent, s.request))

(* Blocks carry what clients and the service have broadcast, each call of  *)
(* a block under its own id.                                               *)
CallsFrom(calls, S) ==
    \A i, j \in DOMAIN calls :
      /\ calls[i].req \in S
      /\ calls[i].req.id = calls[j].req.id => i = j

CallsOK == \A sig \in DOMAIN store :
             CallsFrom(store[sig].calls, Requests \cup sent)

(* The node puts into a block what it was offered, and nothing twice.      *)
LEMMA BodiesOffered ==
  ASSUME NEW s, NEW offers, NEW V, NEW body \in Bodies(s, offers, V),
         body \in Seq(Call),
         NEW i \in DOMAIN body, NEW j \in DOMAIN body
  PROVE  /\ body[i].req \in offers
         /\ body[i].req.id = body[j].req.id => i = j
<1> DEFINE ok(t) == {r \in offers : Accepts(t, r, V)}
           one   == {Execute(s, r) : r \in ok(s)}
           two(c) == {<<c, Execute(c.after, r)>> :
                        r \in {q \in ok(c.after) : q.id # c.req.id}}
<1>1. Bodies(s, offers, V) = {<<c>> : c \in one} \cup UNION {two(c) : c \in one}
  BY DEF Bodies
<1>2. \A c \in one : c.req \in offers
  BY DEF Execute
<1>3. CASE body \in {<<c>> : c \in one}
  <2>1. PICK c \in one : body = <<c>>
    BY <1>3
  <2>2. i = 1 /\ j = 1 /\ body[1] = c
    BY <2>1
  <2> QED  BY <2>1, <2>2, <1>2
<1>4. CASE body \in UNION {two(c) : c \in one}
  <2>1. PICK c \in one : body \in two(c)
    BY <1>4
  <2>2. PICK r \in {q \in ok(c.after) : q.id # c.req.id} :
          body = <<c, Execute(c.after, r)>>
    BY <2>1
  <2>3. /\ i \in {1, 2} /\ j \in {1, 2}
        /\ body[1] = c /\ body[2] = Execute(c.after, r)
    BY <2>2
  <2>4. Execute(c.after, r).req = r
    BY DEF Execute
  <2>5. r \in offers /\ r.id # c.req.id
    BY <2>2
  <2> QED  BY <2>3, <2>4, <2>5, <1>2
<1> QED  BY <1>1, <1>3, <1>4

(* Blocks stay in the store.                                               *)
LEMMA StoreGrows ==
  ASSUME IInv, [Next]_vars
  PROVE  /\ \A sig \in DOMAIN store : /\ sig \in DOMAIN store'
                                     /\ store'[sig] = store[sig]
         /\ store' # store => Mine
<1>1. CASE Mine
  <2>1. PICK b : store' = Append(store, b)
    BY <1>1 DEF Mine
  <2>2. store \in Seq(Block)
    BY DEF IInv, TypeOK
  <2>3. store' \in Seq(Block \cup {b})
    BY <2>1, <2>2
  <2> QED  BY <1>1, <2>1, <2>2
<1>2. CASE ~Mine
  <2>1. store' = store
    BY <1>2 DEF Next, Listen, HandleCall, Fork, Start, Connect, RollbackLastBlock,
       ExitNoContract, BeginBlock, SkipCall, SaveOracle, ReceiveTypicalTx,
       Close, Transfer, InitClose, ClaimDeclined, ClaimPaid, Liquidate,
       HandlerThrows, Advance, Commit, RollbackToBlockSignature, RollbackThrows,
       Crash, node, vars
  <2> QED  BY <2>1
<1> QED  BY <1>1, <1>2

(* What a step broadcasts: nothing, or an answer to the current call.      *)
Answered == {"liquidate", "close_init", "claim_overpay_init"}

LEMMA SentStep ==
  ASSUME IInv, [Next]_vars
  PROVE  \/ sent' = sent
         \/ /\ CallsLeft /\ CurrentReq.type \in Answered
            /\ store' = store
            /\ \E type \in ServiceTypes : \E a, west, rwa :
                 sent' = sent \cup {Answer(CurrentReq, type, a, west, rwa)}
<1> DEFINE r == CurrentReq
<1>1. CASE InitClose
  <2>1. /\ CallsLeft /\ r.type = "close_init" /\ store' = store
        /\ sent' = sent \cup {CloseAnswer(r)}
    BY <1>1 DEF InitClose, Handles, Advance, node
  <2> QED  BY <2>1 DEF CloseAnswer, Answered, ServiceTypes
<1>2. CASE ClaimPaid
  <2>1. /\ CallsLeft /\ r.type = "claim_overpay_init" /\ store' = store
        /\ sent' = sent \cup {ClaimAnswer(r)}
    BY <1>2 DEF ClaimPaid, Handles, Advance, node
  <2> QED  BY <2>1 DEF ClaimAnswer, Answered, ServiceTypes
<1>3. CASE Liquidate
  <2>1. /\ CallsLeft /\ r.type = "liquidate" /\ store' = store
        /\ sent' = sent \/ sent' = sent \cup {LiquidationAnswer(r)}
    BY <1>3 DEF Liquidate, PayLiquidator, Handles, Advance, node
  <2> QED  BY <2>1 DEF LiquidationAnswer, Answered, ServiceTypes
<1>4. CASE HandlerThrows
  <2>1. CallsLeft /\ store' = store
    BY <1>4 DEF HandlerThrows, node
  <2>2. \/ sent' = sent
        \/ r.type = "liquidate" /\ sent' = sent \cup {LiquidationAnswer(r)}
        \/ r.type = "claim_overpay_init" /\ sent' = sent \cup {ClaimAnswer(r)}
    BY <1>4 DEF HandlerThrows, LateAnswers, PayLiquidator, IsOwed
  <2> QED  BY <2>1, <2>2 DEF LiquidationAnswer, ClaimAnswer, Answered, ServiceTypes
<1>5. CASE ~(InitClose \/ ClaimPaid \/ Liquidate \/ HandlerThrows)
  <2>1. sent' = sent
    BY <1>5 DEF Next, Listen, HandleCall, Mine, Fork, Start, Connect,
       RollbackLastBlock, ExitNoContract, BeginBlock, SkipCall, SaveOracle,
       ReceiveTypicalTx, Close, Transfer, ClaimDeclined, Commit,
       RollbackToBlockSignature, RollbackThrows, Crash, vars
  <2> QED  BY <2>1
<1> QED  BY <1>1, <1>2, <1>3, <1>4, <1>5

(* A call that the service answers, or opens a vault for, is a client's.   *)
LEMMA CurrentOffered ==
  ASSUME IInv, SentOK, CallsOK, CallsLeft
  PROVE  /\ CurrentReq \in Requests \cup sent /\ CurrentReq \in Request
         /\ CurrentReq.type \notin ServiceTypes => CurrentReq \in Requests
         /\ CurrentReq.type \in {"mint", "supply", "reissue"} =>
              CurrentReq.sender = CurrentReq.address
<1>1. /\ InTrx /\ trx.next <= Len(store[trx.sig].calls)
      /\ trx.next \in Nat \ {0} /\ trx.sig \in DOMAIN store
      /\ store[trx.sig].calls \in Seq(Call)
  <2>1. InTrx /\ trx.next <= Len(store[trx.sig].calls) /\ trx.next \in Nat \ {0}
    BY DEF IInv, TypeOK, CallsLeft
  <2>2. trx.sig \in DOMAIN store /\ store[trx.sig] \in Block
    BY <2>1 DEF IInv, TrxOK, TypeOK
  <2> QED  BY <2>1, <2>2 DEF Block
<1>2. trx.next \in DOMAIN store[trx.sig].calls
  BY <1>1
<1>3. CurrentReq \in Requests \cup sent
  BY <1>1, <1>2 DEF CallsOK, CallsFrom, CurrentReq, Current
<1>4. CurrentReq \in Request
  BY CurrentTyped
<1>5. CurrentReq \in sent => CurrentReq.type \in ServiceTypes
  BY <1>4 DEF SentOK, Request
<1>6. CurrentReq.type \in {"mint", "supply", "reissue"} =>
        CurrentReq \in Requests /\ CurrentReq.type \in VaultTypes
  BY <1>3, <1>5 DEF ServiceTypes, VaultTypes
<1> QED  BY <1>3, <1>4, <1>5, <1>6, ListenerAssumption

(* An answer has an id that no earlier one has.                            *)
LEMMA AnswerIdFresh ==
  ASSUME IInv, SentOK, NEW r \in Requests
  PROVE  /\ r.id \in Id /\ r.id[2] = 0
         /\ AnswerId(r) \in Id /\ AnswerId(r)[1] = r.id[1]
         /\ AnswerId(r)[2] = Cardinality(AnswersTo(sent, r.id)) + 1
         /\ Cardinality(AnswersTo(sent, r.id)) \in Nat
         /\ IsFiniteSet(AnswersTo(sent, r.id))
         /\ \A s \in sent : s.id # AnswerId(r)
<1>1. r.id \in Id /\ r.id[2] = 0
  BY ListenerAssumption DEF Request
<1>2. IsFiniteSet(AnswersTo(sent, r.id))
  BY FS_Subset DEF IInv, AnswersTo
<1>3. Cardinality(AnswersTo(sent, r.id)) \in Nat
  BY <1>2, FS_CardinalityType
<1>4. AnswerId(r) = <<r.id[1], Cardinality(AnswersTo(sent, r.id)) + 1>>
  BY DEF AnswerId, AnswersTo
<1>5. AnswerId(r) \in Id
  BY <1>1, <1>3, <1>4 DEF Id
<1>6. ASSUME NEW s \in sent, s.id = AnswerId(r) PROVE FALSE
  <2>1. s.request \in Id /\ s.request[2] = 0 /\ s.id[1] = s.request[1]
        /\ s.id[2] \in 1 .. Cardinality(AnswersTo(sent, s.request))
    BY DEF SentOK
  <2>2. s.request = r.id
    BY <2>1, <1>1, <1>4, <1>6 DEF Id
  <2>3. s.id[2] = Cardinality(AnswersTo(sent, r.id)) + 1
    BY <1>4, <1>6
  <2> QED  BY <2>1, <2>2, <2>3, <1>3
<1> QED  BY <1>1, <1>2, <1>3, <1>4, <1>5, <1>6

(* The numbers of the answers are consecutive.                             *)
LEMMA SentOKNext == ASSUME IInv, SentOK, CallsOK, [Next]_vars PROVE SentOK'
<1>1. CASE sent' = sent
  BY <1>1 DEF SentOK
<1>2. ASSUME CallsLeft, CurrentReq.type \in Answered,
             NEW type \in ServiceTypes, NEW a, NEW west, NEW rwa,
             sent' = sent \cup {Answer(CurrentReq, type, a, west, rwa)}
      PROVE  SentOK'
  <2> DEFINE r   == CurrentReq
             new == Answer(r, type, a, west, rwa)
  <2>1. r \in Requests
    BY <1>2, CurrentOffered DEF Answered, ServiceTypes
  <2>2. /\ new.sender = Service /\ new.request = r.id /\ new.id = AnswerId(r)
    BY DEF Answer
  <2>3. sent' = sent \cup {new}
    BY <1>2
  <2> HIDE DEF new
  <2>4. IsFiniteSet(sent')
    BY NextIInv DEF IInv
  <2>5. PICK S : S = sent'
    OBVIOUS
  <2>6. ASSUME NEW q
        PROVE  /\ IsFiniteSet(AnswersTo(S, q)) /\ IsFiniteSet(AnswersTo(sent, q))
               /\ Cardinality(AnswersTo(S, q)) \in Nat
               /\ Cardinality(AnswersTo(sent, q)) \in Nat
               /\ Cardinality(AnswersTo(sent, q)) <= Cardinality(AnswersTo(S, q))
    <3>1. AnswersTo(S, q) \subseteq sent' /\ AnswersTo(sent, q) \subseteq AnswersTo(S, q)
      BY <2>3, <2>5 DEF AnswersTo
    <3>2. IsFiniteSet(AnswersTo(S, q))
      BY <3>1, <2>4, FS_Subset
    <3> QED  BY <3>1, <3>2, FS_Subset, FS_CardinalityType
  <2>7. ASSUME NEW s \in sent
        PROVE  /\ s.sender = Service
               /\ s.request \in Id /\ s.request[2] = 0 /\ s.id[1] = s.request[1]
               /\ s.id[2] \in 1 .. Cardinality(AnswersTo(S, s.request))
    <3>1. /\ s.sender = Service
          /\ s.request \in Id /\ s.request[2] = 0 /\ s.id[1] = s.request[1]
          /\ s.id[2] \in 1 .. Cardinality(AnswersTo(sent, s.request))
      BY DEF SentOK
    <3> QED  BY <3>1, <2>6
  <2>8. Cardinality(AnswersTo(S, r.id)) = Cardinality(AnswersTo(sent, r.id)) + 1
    <3>1. new \notin sent
      BY <2>1, <2>2, AnswerIdFresh
    <3>2. AnswersTo(S, r.id) = AnswersTo(sent, r.id) \cup {new}
      BY <2>2, <2>3, <2>5 DEF AnswersTo
    <3>3. new \notin AnswersTo(sent, r.id)
      BY <3>1 DEF AnswersTo
    <3> QED  BY <2>6, <3>2, <3>3, FS_AddElement
  <2>9. /\ new.request \in Id /\ new.request[2] = 0
        /\ new.id[1] = new.request[1]
        /\ new.id[2] \in 1 .. Cardinality(AnswersTo(S, new.request))
    BY <2>1, <2>2, <2>8, AnswerIdFresh
  <2>10. \A s \in S :
           /\ s.sender = Service
           /\ s.request \in Id /\ s.request[2] = 0 /\ s.id[1] = s.request[1]
           /\ s.id[2] \in 1 .. Cardinality(AnswersTo(S, s.request))
    BY <2>2, <2>3, <2>5, <2>7, <2>9
  <2> QED  BY <2>5, <2>10 DEF SentOK
<1> QED  BY <1>1, <1>2, SentStep

(* Mined calls were broadcast before.                                      *)
LEMMA CallsOKNext == ASSUME IInv, CallsOK, [Next]_vars PROVE CallsOK'
<1>1. \A calls : CallsFrom(calls, Requests \cup sent)
                  => CallsFrom(calls, Requests \cup sent')
  <2>1. sent \subseteq sent'
    BY SentStep
  <2> QED  BY <2>1 DEF CallsFrom
<1>2. CASE store' = store
  BY <1>1, <1>2 DEF CallsOK
<1>3. CASE Mine
  <2>1. PICK body \in Bodies(NodeState, Offers, InitNeedsVault) :
          store' = Append(store,
                     [height |-> Len(chain) + 1, calls |-> body,
                      parent |-> IF chain = <<>> THEN 0 ELSE chain[Len(chain)]])
    BY <1>3 DEF Mine
  <2> DEFINE new == [height |-> Len(chain) + 1, calls |-> body,
                     parent |-> IF chain = <<>> THEN 0 ELSE chain[Len(chain)]]
  <2>2. body \in Seq(Call)
    <3>1. Offers \subseteq Request
      BY ListenerAssumption DEF Offers, IInv, TypeOK
    <3> QED  BY <3>1, BodiesTyped, NodeStateTyped DEF IInv
  <2>3. new.calls = body
    OBVIOUS
  <2>4. store \in Seq(Block) /\ store' \in Seq(Block)
    BY NextIInv DEF IInv, TypeOK
  <2> HIDE DEF new
  <2>5. /\ DOMAIN store' = DOMAIN store \cup {Len(store) + 1}
        /\ store'[Len(store) + 1] = new
        /\ \A sig \in DOMAIN store : store'[sig] = store[sig]
    BY <2>1, <2>4 DEF new
  <2>6. CallsFrom(body, Requests \cup sent)
    BY <2>2, BodiesOffered DEF Offers, CallsFrom
  <2>7. \A sig \in DOMAIN store' : CallsFrom(store'[sig].calls, Requests \cup sent)
    BY <2>3, <2>5, <2>6 DEF CallsOK
  <2> QED  BY <1>1, <2>7 DEF CallsOK
<1> QED  BY <1>2, <1>3, StoreGrows

-----------------------------------------------------------------------------
(* What a handler writes for call c of a block of height h: into t, when   *)
(* committed is what getCurrentBalance sees, and with tx and status for    *)
(* the entry of an init call.                                              *)

FiledVault(c) ==
    CASE c.req.type = "close"     -> NoVault
      [] c.req.type = "liquidate" -> Deactivated(LiquidatedVault(c))
      [] OTHER -> [c.after.vaults[c.req.address] EXCEPT !.active = TRUE]

WithVault(t, c, h) ==
    LET row == ExecutedRow(t, c.req, c.req.address, h)
    IN  AddVaultLog(InsertTx(t, row), row.id, NewVaultId(c.req),
                    c.req.address, FiledVault(c))

WithBalance(t, committed, c, a, h) ==
    LET row == ExecutedRow(t, c.req, a, h)
    IN  AddBalance(InsertTx(t, row), committed, row.id, a,
                   c.after.balances[a])

(* A rate that saveOracle stores.                                          *)
IsRate(r) == r.type = "oracle" /\ r.value = "valid" /\ ~r.nested

LogsVault(t, committed, c, h, T) ==
    /\ c.req.type \in VaultTypes \cup {"close", "liquidate"}
    /\ c.req.type # "mint" => CurrentVault(t, c.req.address) # {}
    /\ T = IF c.req.type \in {"mint", "reissue", "close"}
             THEN AddBalance(WithVault(t, c, h), committed, NextId(t),
                    c.req.address, c.after.balances[c.req.address])
             ELSE WithVault(t, c, h)

LogsTransfer(t, committed, c, h, T) ==
    /\ c.req.type = "transfer" /\ c.req.sender # c.req.address
    /\ T = WithBalance(WithBalance(t, committed, c, c.req.sender, h),
                       committed, c, c.req.address, h)

LogsRequest(t, c, h, tx, status, T) ==
    /\ c.req.type \in {"close_init", "claim_overpay_init"}
    /\ tx \in Id
    /\ status = "init" \/ (status = "declined" /\ tx = c.req.id)
    /\ T = InsertTx(t, RequestRow(t, c.req, tx, status, h))

LogsRate(t, c, h, T) ==
    IsRate(c.req) /\ T = SaveOracleRow(t, c.req.id, h)

LogsNothing(t, c, T) ==
    c.req.type \notin JournalTypes /\ ~IsRate(c.req) /\ T = t

Logs(t, committed, c, h, tx, status, T) ==
    \/ LogsVault(t, committed, c, h, T) \/ LogsTransfer(t, committed, c, h, T)
    \/ LogsRequest(t, c, h, tx, status, T)
    \/ LogsRate(t, c, h, T) \/ LogsNothing(t, c, T)

(* What an entry is an entry of: the id of the request or of the call.     *)
Origin(x) == IF x.request = NoId THEN x.tx ELSE x.request
KeyOf(x) == <<Origin(x), x.address, x.type, x.height>>

RowShape(x) == /\ x.status = "executed" <=> x.request = NoId
               /\ x.status = "declined" => x.tx = x.request

(* The conditions under which a handler runs.                              *)
Handled(t, c, h) ==
    /\ Sound(t) /\ c \in Call /\ h \in Nat \ {0}
    /\ \E b \in t.blocks : b.height = h
    /\ \A b \in t.blocks : b.height <= h

(* Its entry of a call that took effect.                                   *)
LEMMA ExecutedRowNewest ==
  ASSUME NEW t, NEW c, NEW h, Handled(t, c, h), NEW a \in Addr,
         c.req.type \in JournalTypes
  PROVE  LET row == ExecutedRow(t, c.req, a, h)
         IN  /\ Newest(t, row) /\ row.id = NextId(t) /\ row.tx = c.req.id
             /\ row.address = a /\ row.type = c.req.type /\ row.height = h
             /\ row.status = "executed" /\ row.request = NoId
             /\ RowShape(row) /\ Origin(row) = c.req.id
<1> DEFINE row == ExecutedRow(t, c.req, a, h)
<1>1. t.seq + 1 \in Nat
  BY DEF Handled, Sound, Good, Tables
<1>2. c.req.id \in Id
  BY DEF Handled, Call, Request
<1>3. /\ row.id = t.seq + 1 /\ row.tx = c.req.id
      /\ row.address = a /\ row.type = c.req.type /\ row.height = h
      /\ row.status = "executed" /\ row.request = NoId
      /\ row \in TxRow
  BY <1>1, <1>2 DEF ExecutedRow, TxRow, NextId, IdOrNone, Handled
<1> HIDE DEF row
<1>4. Newest(t, row) /\ row.id = NextId(t)
  BY <1>3 DEF Newest, NextId, Handled
<1>5. RowShape(row) /\ Origin(row) = c.req.id
  BY <1>3 DEF RowShape, Origin
<1> QED  BY <1>3, <1>4, <1>5 DEF row

(* The vault entry of a call.                                              *)
LEMMA WithVaultSound ==
  ASSUME NEW t, NEW c, NEW h, Handled(t, c, h),
         c.req.type \in VaultTypes \cup {"close", "liquidate"},
         c.req.type # "mint" => CurrentVault(t, c.req.address) # {}
  PROVE  LET u   == WithVault(t, c, h)
             row == ExecutedRow(t, c.req, c.req.address, h)
         IN  /\ Sound(u) /\ u.blocks = t.blocks /\ u.txs = t.txs \cup {row}
             /\ u.balances = t.balances /\ u.oracles = t.oracles
             /\ FiledVault(c) \in Vault
             /\ \E d \in [west : Int, rwa : Int, east : Int], i \in Id :
                  u.vaults = t.vaults \cup
                    {[id |-> row.id, address |-> c.req.address,
                      vault |-> FiledVault(c), vaultId |-> i, diff |-> d]}
<1> DEFINE row == ExecutedRow(t, c.req, c.req.address, h)
<1>1. c.req.address \in Addr /\ c.after \in State
  BY DEF Handled, Call, Request
<1>2. c.req.type \in JournalTypes
  BY DEF JournalTypes
<1>3. /\ Newest(t, row) /\ row.tx = c.req.id /\ row.address = c.req.address
      /\ row.type = c.req.type
  BY <1>1, <1>2, ExecutedRowNewest
<1>4. FiledVault(c) \in Vault
  <2>1. c.after.vaults[c.req.address] \in Vault
    BY <1>1 DEF State
  <2>2. NoVault \in Vault
    BY DEF NoVault, Vault
  <2> DEFINE v == c.after.vaults[c.req.address]
  <2>3. [v EXCEPT !.active = TRUE] \in Vault
    BY <2>1 DEF Vault
  <2>4. Deactivated([v EXCEPT !.active = TRUE]) \in Vault
    BY <2>1 DEF Vault, Deactivated
  <2> QED  BY <2>2, <2>3, <2>4 DEF FiledVault, LiquidatedVault
<1>5. IF row.type = "mint" THEN NewVaultId(c.req) = row.tx
      ELSE NewVaultId(c.req) = NoId /\ CurrentVault(t, row.address) # {}
  BY <1>3 DEF NewVaultId
<1>6. Sound(t)
  BY DEF Handled
<1> HIDE DEF row
<1> QED  BY <1>3, <1>4, <1>5, <1>6, VaultLoggedSound DEF WithVault, row

(* The balance entry of a transfer.                                        *)
LEMMA WithBalanceSound ==
  ASSUME NEW t, NEW c, NEW h, Handled(t, c, h), c.req.type = "transfer",
         NEW committed \in Tables, NEW a \in Addr
  PROVE  LET u   == WithBalance(t, committed, c, a, h)
             row == ExecutedRow(t, c.req, a, h)
         IN  /\ Sound(u) /\ u.blocks = t.blocks /\ u.txs = t.txs \cup {row}
             /\ u.vaults = t.vaults /\ u.oracles = t.oracles
             /\ \E d \in Int : u.balances = t.balances \cup
                  {[id |-> row.id, address |-> a,
                    east |-> c.after.balances[a], diff |-> d]}
<1> DEFINE row == ExecutedRow(t, c.req, a, h)
           v   == InsertTx(t, row)
<1>1. c.after \in State /\ Sound(t)
  BY DEF Handled, Call
<1>2. c.after.balances[a] \in Nat
  BY <1>1 DEF State
<1>3. Newest(t, row) /\ row.type # "mint"
  BY ExecutedRowNewest DEF JournalTypes
<1>4. Sound(v)
  BY <1>1, <1>3, InsertTxSound
<1>5. /\ v.blocks = t.blocks /\ row \in v.txs /\ v.txs = t.txs \cup {row}
      /\ v.vaults = t.vaults /\ v.balances = t.balances
      /\ v.oracles = t.oracles
      /\ \A b \in t.balances : b.id \in Nat /\ b.id < row.id
  BY <1>1, <1>3, InsertTxAlmostSound
<1>6. \A b \in v.balances : b.id # row.id
  BY <1>5
<1> HIDE DEF row, v
<1> QED  BY <1>2, <1>4, <1>5, <1>6, AddBalanceSound DEF WithBalance, row, v

(* The entry of an init call.                                              *)
LEMMA RequestRowNewest ==
  ASSUME NEW t, NEW c, NEW h, Handled(t, c, h), NEW tx \in Id, NEW status,
         c.req.type \in {"close_init", "claim_overpay_init"},
         status = "init" \/ (status = "declined" /\ tx = c.req.id)
  PROVE  LET row == RequestRow(t, c.req, tx, status, h)
         IN  /\ Newest(t, row) /\ row.tx = tx /\ row.address = c.req.sender
             /\ row.type = c.req.type /\ row.height = h
             /\ row.status = status /\ row.request = c.req.id
             /\ RowShape(row) /\ Origin(row) = c.req.id
<1> DEFINE row == RequestRow(t, c.req, tx, status, h)
<1>1. t.seq + 1 \in Nat
  BY DEF Handled, Sound, Good, Tables
<1>2. c.req \in Request /\ c.req.id \in Id
  BY DEF Handled, Call, Request
<1>3. c.req.sender \in Addr
  BY <1>2, ClientIsUser DEF ServiceTypes
<1>4. c.req.type \in JournalTypes
  BY DEF JournalTypes
<1>5. /\ row.id = t.seq + 1 /\ row.tx = tx
      /\ row.address = c.req.sender /\ row.type = c.req.type
      /\ row.height = h /\ row.status = status /\ row.request = c.req.id
      /\ row \in TxRow
  BY <1>1, <1>2, <1>3, <1>4 DEF RequestRow, TxRow, NextId, IdOrNone, Handled
<1>6. row.request # NoId
  BY <1>2, <1>5, NoIdIsNoId
<1> HIDE DEF row
<1>7. Newest(t, row)
  BY <1>5 DEF Newest, NextId, Handled
<1>8. RowShape(row) /\ Origin(row) = c.req.id
  BY <1>5, <1>6 DEF RowShape, Origin
<1> QED  BY <1>5, <1>7, <1>8 DEF row

(* The rates a call adds.                                                  *)
RatesOf(r, h) == IF IsRate(r) THEN {[tx |-> r.id, height |-> h]} ELSE {}

(* New rows: their keys are the entries owed for the call, and they clash  *)
(* with no other of the same call.                                         *)
RowsOf(N, r, h, tx, status) ==
    /\ {KeyOf(x) : x \in N} = Entries(r, h)
    /\ \A x \in N :
         /\ RowShape(x) /\ Origin(x) = r.id
         /\ x.status = "init" =>
              /\ r.type \in {"close_init", "claim_overpay_init"}
              /\ x.tx = tx /\ x.address = r.sender /\ status = "init"
    /\ \A x, y \in N : SameKey(x, y) => x = y

(* A handler leaves sound tables and writes what it owes, no less and no   *)
(* more.                                                                   *)
LEMMA LogsEffect ==
  ASSUME NEW t, NEW c, NEW h, Handled(t, c, h), NEW committed \in Tables,
         NEW tx, NEW status, NEW T, Logs(t, committed, c, h, tx, status, T)
  PROVE  /\ Sound(T) /\ T.blocks = t.blocks
         /\ T.oracles = t.oracles \cup RatesOf(c.req, h)
         /\ \E N : T.txs = t.txs \cup N /\ RowsOf(N, c.req, h, tx, status)
<1> DEFINE r == c.req
<1>1. /\ r \in Request /\ r.id \in Id /\ r.address \in Addr
      /\ Sound(t) /\ c.after \in State /\ t \in Tables
  BY DEF Handled, Call, Request, Sound, Good
<1>2. CASE LogsVault(t, committed, c, h, T)
  <2> DEFINE row == ExecutedRow(t, r, r.address, h)
             u   == WithVault(t, c, h)
  <2>1. /\ r.type \in VaultTypes \cup {"close", "liquidate"}
        /\ r.type # "mint" => CurrentVault(t, r.address) # {}
        /\ T = IF r.type \in {"mint", "reissue", "close"}
                 THEN AddBalance(u, committed, NextId(t), r.address,
                                 c.after.balances[r.address]) ELSE u
    BY <1>2 DEF LogsVault
  <2>2. /\ Sound(u) /\ u.blocks = t.blocks /\ u.txs = t.txs \cup {row}
        /\ u.balances = t.balances /\ u.oracles = t.oracles
    BY <2>1, WithVaultSound
  <2>3. r.type \in JournalTypes
    BY <2>1 DEF JournalTypes
  <2>4. /\ row.id = NextId(t) /\ row.address = r.address
        /\ row.type = r.type /\ row.height = h
        /\ row.status = "executed" /\ RowShape(row) /\ Origin(row) = r.id
    BY <2>3, <1>1, ExecutedRowNewest
  <2> HIDE DEF row, u
  <2>5. \A b \in u.balances : b.id # row.id
    <3>1. t.seq \in Nat /\ \A b \in t.balances : b.id \in Nat /\ b.id <= t.seq
      BY <1>1, IdsBelow DEF Sound
    <3> QED  BY <3>1, <2>2, <2>4 DEF NextId
  <2>6. c.after.balances[r.address] \in Nat
    BY <1>1 DEF State
  <2>7. /\ Sound(T) /\ T.blocks = t.blocks /\ T.txs = t.txs \cup {row}
        /\ T.oracles = t.oracles
    <3>1. CASE r.type \in {"mint", "reissue", "close"}
      <4>1. row \in u.txs
        BY <2>2
      <4>2. T = AddBalance(u, committed, row.id, r.address,
                           c.after.balances[r.address])
        BY <3>1, <2>1, <2>4
      <4> DEFINE e == c.after.balances[r.address]
                 w == AddBalance(u, committed, row.id, r.address, e)
      <4>3. e \in Nat
        BY <2>6
      <4> HIDE DEF e
      <4>4. Sound(w) /\ w.blocks = u.blocks /\ w.txs = u.txs /\ w.oracles = u.oracles
        BY <1>1, <2>2, <2>5, <4>1, <4>3, AddBalanceSound
      <4> QED  BY <2>2, <4>2, <4>4 DEF e
    <3>2. CASE r.type \notin {"mint", "reissue", "close"}
      BY <3>2, <2>1, <2>2
    <3> QED  BY <3>1, <3>2
  <2>8. Entries(r, h) = {<<r.id, r.address, r.type, h>>}
    BY <2>1 DEF Entries, VaultTypes
  <2>9. RowsOf({row}, r, h, tx, status)
    BY <2>4, <2>8 DEF RowsOf, KeyOf
  <2>10. RatesOf(r, h) = {}
    BY <2>1 DEF RatesOf, IsRate, VaultTypes
  <2> QED  BY <2>7, <2>9, <2>10
<1>3. CASE LogsTransfer(t, committed, c, h, T)
  <2> DEFINE u  == WithBalance(t, committed, c, r.sender, h)
             r1 == ExecutedRow(t, r, r.sender, h)
             r2 == ExecutedRow(u, r, r.address, h)
  <2>1. /\ r.type = "transfer" /\ r.sender # r.address
        /\ T = WithBalance(u, committed, c, r.address, h)
    BY <1>3 DEF LogsTransfer
  <2>2. r.type \in JournalTypes /\ r.sender \in Addr
    BY <1>1, <2>1, ClientIsUser DEF JournalTypes, ServiceTypes
  <2>3. /\ Sound(u) /\ u.blocks = t.blocks /\ u.txs = t.txs \cup {r1}
        /\ u.oracles = t.oracles
    BY <2>1, <2>2, WithBalanceSound
  <2>4. /\ r1.id = NextId(t) /\ r1.address = r.sender
        /\ r1.type = r.type /\ r1.height = h
        /\ r1.status = "executed" /\ RowShape(r1) /\ Origin(r1) = r.id
        /\ r1.request = NoId
    BY <2>2, ExecutedRowNewest
  <2> HIDE DEF u, r1
  <2>5. Handled(u, c, h)
    BY <2>3 DEF Handled
  <2>6. /\ Sound(T) /\ T.blocks = u.blocks /\ T.txs = u.txs \cup {r2}
        /\ T.oracles = u.oracles
    BY <2>1, <2>5, <1>1, WithBalanceSound
  <2>7. /\ r2.id = NextId(u) /\ r2.address = r.address
        /\ r2.type = r.type /\ r2.height = h
        /\ r2.status = "executed" /\ RowShape(r2) /\ Origin(r2) = r.id
        /\ r2.request = NoId
    BY <2>2, <2>5, <1>1, ExecutedRowNewest
  <2> HIDE DEF r2
  <2>8. r1.id # r2.id
    <3>1. u.seq \in Nat /\ r1.id \in Nat /\ r1.id <= u.seq
      BY <2>3, IdsBelow DEF Sound
    <3> QED  BY <3>1, <2>7 DEF NextId
  <2>9. Entries(r, h) = {<<r.id, r.sender, r.type, h>>,
                         <<r.id, r.address, r.type, h>>}
    BY <2>1 DEF Entries, VaultTypes
  <2>10. /\ KeyOf(r1) = <<r.id, r.sender, r.type, h>>
         /\ KeyOf(r2) = <<r.id, r.address, r.type, h>>
    BY <2>4, <2>7 DEF KeyOf
  <2>11. {KeyOf(x) : x \in {r1, r2}} = {KeyOf(r1), KeyOf(r2)}
    OBVIOUS
  <2>12. \A x, y \in {r1, r2} : SameKey(x, y) => x = y
    BY <2>1, <2>4, <2>7, <2>8 DEF SameKey
  <2>13. RowsOf({r1, r2}, r, h, tx, status)
    BY <2>4, <2>7, <2>9, <2>10, <2>11, <2>12 DEF RowsOf
  <2>14. T.txs = t.txs \cup {r1, r2}
    BY <2>3, <2>6
  <2>15. RatesOf(r, h) = {}
    BY <2>1 DEF RatesOf, IsRate
  <2> QED  BY <2>3, <2>6, <2>13, <2>14, <2>15
<1>4. CASE LogsRequest(t, c, h, tx, status, T)
  <2> DEFINE row == RequestRow(t, r, tx, status, h)
  <2>1. /\ r.type \in {"close_init", "claim_overpay_init"} /\ tx \in Id
        /\ status = "init" \/ (status = "declined" /\ tx = r.id)
        /\ T = InsertTx(t, row)
    BY <1>4 DEF LogsRequest
  <2>2. /\ Newest(t, row) /\ row.tx = tx /\ row.address = r.sender
        /\ row.type = r.type /\ row.height = h /\ row.status = status
        /\ RowShape(row) /\ Origin(row) = r.id
    BY <2>1, RequestRowNewest
  <2> HIDE DEF row
  <2>3. row.type # "mint"
    BY <2>1, <2>2
  <2>4. Sound(T) /\ T.blocks = t.blocks /\ T.txs = t.txs \cup {row}
        /\ T.oracles = t.oracles
    BY <1>1, <2>1, <2>2, <2>3, InsertTxSound, InsertTxAlmostSound
  <2>5. Entries(r, h) = {<<r.id, r.sender, r.type, h>>}
    BY <2>1 DEF Entries, VaultTypes
  <2>6. RowsOf({row}, r, h, tx, status)
    BY <2>1, <2>2, <2>5 DEF RowsOf, KeyOf
  <2>7. RatesOf(r, h) = {}
    BY <2>1 DEF RatesOf, IsRate
  <2> QED  BY <2>4, <2>6, <2>7
<1>5. CASE LogsRate(t, c, h, T)
  <2>1. r.type = "oracle" /\ IsRate(r) /\ T = SaveOracleRow(t, r.id, h)
    BY <1>5 DEF LogsRate, IsRate
  <2>2. Sound(T)
    BY <2>1, <1>1, SaveOracleRowSound DEF Handled
  <2>3. T.blocks = t.blocks /\ T.txs = t.txs \cup {}
        /\ T.oracles = t.oracles \cup {[tx |-> r.id, height |-> h]}
    BY <2>1, <1>1 DEF SaveOracleRow, Tables
  <2>4. Entries(r, h) = {}
    BY <2>1 DEF Entries, VaultTypes
  <2>5. RowsOf({}, r, h, tx, status)
    BY <2>4 DEF RowsOf
  <2> QED  BY <2>1, <2>2, <2>3, <2>5 DEF RatesOf
<1>6. CASE LogsNothing(t, c, T)
  <2>1. r.type \notin JournalTypes /\ ~IsRate(r) /\ T = t
    BY <1>6 DEF LogsNothing
  <2>2. Entries(r, h) = {}
    BY <2>1 DEF Entries, JournalTypes
  <2>3. RowsOf({}, r, h, tx, status) /\ T.txs = t.txs \cup {}
    BY <2>1, <2>2 DEF RowsOf
  <2> QED  BY <2>1, <2>3, <1>1 DEF RatesOf
<1> QED  BY <1>2, <1>3, <1>4, <1>5, <1>6 DEF Logs

-----------------------------------------------------------------------------
(* The steps of the listener, by what they do to the tables.               *)

(* A handler returns: it has written what the call asks for, or the        *)
(* transaction is aborted and it has written nothing.                      *)
Inits == {"close_init", "claim_overpay_init"}

LogsCall ==
    /\ CallsLeft
    /\ UNCHANGED <<store, chain, stream, mode, db, statuses>>
    /\ trx'.sig = trx.sig /\ trx'.next = trx.next + 1
    /\ \A u \in trx'.statuses : \/ u \in trx.statuses
                                \/ \E s \in sent' : s.id = u.tx /\ s.address = u.address
    /\ \/ trx'.aborted /\ trx'.tables = trx.tables
       \/ /\ ~trx'.aborted /\ ~trx.aborted
          /\ \E tx, status :
               /\ Logs(trx.tables, db, Current, Height, tx, status, trx'.tables)
               /\ CurrentReq.type \in Inits =>
                    \/ status = "declined" /\ tx = CurrentReq.id
                    \/ /\ status = "init" /\ tx = AnswerId(CurrentReq)
                       /\ \E s \in sent' : /\ s.id = tx
                                           /\ s.request = CurrentReq.id
                                           /\ s.address = CurrentReq.sender

LEMMA AdvanceFields ==
  ASSUME IInv, NEW T, NEW rows, Advance(T, rows)
  PROVE  /\ trx'.sig = trx.sig /\ trx'.next = trx.next + 1
         /\ trx'.tables = T /\ trx'.statuses = trx.statuses \cup rows
         /\ trx'.aborted = trx.aborted
         /\ UNCHANGED <<store, chain, stream, mode, db, statuses>>
<1>1. trx \in [sig : Nat, next : Nat \ {0}, tables : Tables,
               statuses : SUBSET StatusRow, aborted : BOOLEAN]
  BY DEF IInv, TypeOK
<1> QED  BY <1>1 DEF Advance, node

(* What a handler without an answer leaves.                                *)
LEMMA PlainLogs ==
  ASSUME IInv, CallsLeft, ~trx.aborted, NEW T, Advance(T, {}), NEW tx, NEW status,
         Logs(trx.tables, db, Current, Height, tx, status, T),
         CurrentReq.type \in Inits => status = "declined" /\ tx = CurrentReq.id
  PROVE  LogsCall
<1>1. /\ trx'.sig = trx.sig /\ trx'.next = trx.next + 1
      /\ trx'.tables = T /\ trx'.statuses = trx.statuses \cup {}
      /\ trx'.aborted = trx.aborted
      /\ UNCHANGED <<store, chain, stream, mode, db, statuses>>
  BY AdvanceFields
<1>2. ~trx'.aborted
  BY <1>1
<1>3. Logs(trx.tables, db, Current, Height, tx, status, trx'.tables)
  BY <1>1
<1> QED  BY <1>1, <1>2, <1>3 DEF LogsCall

(* And one with an answer.                                                 *)
LEMMA InitLogs ==
  ASSUME IInv, CallsLeft, ~trx.aborted, CurrentReq.type \in Inits,
         NEW answer, answer.id = AnswerId(CurrentReq), answer.id \in Id,
         answer.request = CurrentReq.id, answer.address = CurrentReq.sender,
         sent' = sent \cup {answer},
         Advance(InsertTx(trx.tables, RequestRow(trx.tables, CurrentReq,
                   answer.id, "init", Height)), {Pending(answer)})
  PROVE  LogsCall
<1> DEFINE T == InsertTx(trx.tables, RequestRow(trx.tables, CurrentReq,
                           answer.id, "init", Height))
<1>1. /\ trx'.sig = trx.sig /\ trx'.next = trx.next + 1
      /\ trx'.tables = T /\ trx'.statuses = trx.statuses \cup {Pending(answer)}
      /\ trx'.aborted = trx.aborted
      /\ UNCHANGED <<store, chain, stream, mode, db, statuses>>
  BY AdvanceFields
<1>2. ~trx'.aborted
  BY <1>1
<1>3. Logs(trx.tables, db, Current, Height, answer.id, "init", T)
  <2>1. LogsRequest(trx.tables, Current, Height, answer.id, "init", T)
    BY DEF LogsRequest, Inits, CurrentReq
  <2> QED  BY <2>1 DEF Logs
<1>4. \A u \in trx'.statuses :
        u \in trx.statuses \/ \E s \in sent' : s.id = u.tx /\ s.address = u.address
  BY <1>1 DEF Pending
<1>5. answer \in sent'
  OBVIOUS
<1> HIDE DEF T
<1> QED  BY <1>1, <1>2, <1>3, <1>4, <1>5 DEF LogsCall

LEMMA HandlerLogs ==
  ASSUME IInv, SentOK, CallsOK, HandleCall
  PROVE  HandlerThrows \/ LogsCall
<1> DEFINE r == CurrentReq
           t == trx.tables
<1>1. CASE SkipCall
  <2>1. CallsLeft /\ Advance(t, {})
        /\ (r.type \notin JournalTypes /\ ~IsRate(r))
    <3>1. CallsLeft /\ Advance(t, {}) /\
          \/ r.type \notin JournalTypes \cup {"oracle"}
          \/ r.type = "oracle" /\ r.nested
      BY <1>1 DEF SkipCall
    <3> QED  BY <3>1 DEF IsRate, JournalTypes, VaultTypes
  <2>2. CASE ~trx.aborted
    <3>1. Logs(t, db, Current, Height, r.id, "declined", t)
      BY <2>1 DEF Logs, LogsNothing, CurrentReq
    <3> QED  BY <2>1, <2>2, <3>1, PlainLogs
  <2>3. CASE trx.aborted
    <3>1. /\ trx'.sig = trx.sig /\ trx'.next = trx.next + 1
          /\ trx'.tables = t /\ trx'.statuses = trx.statuses \cup {}
          /\ trx'.aborted = trx.aborted
          /\ UNCHANGED <<store, chain, stream, mode, db, statuses>>
      BY <2>1, AdvanceFields
    <3>2. trx'.aborted
      BY <2>3, <3>1
    <3> QED  BY <2>1, <3>1, <3>2 DEF LogsCall
  <2> QED  BY <2>2, <2>3
<1>2. CASE SaveOracle
  <2> DEFINE T == IF r.value = "valid" /\ ~trx.aborted
                    THEN SaveOracleRow(t, r.id, Height) ELSE t
             aborted == trx.aborted \/ r.value = "rejected"
  <2>1. /\ CallsLeft /\ r.type = "oracle" /\ ~r.nested
        /\ trx' = [trx EXCEPT !.next = trx.next + 1, !.tables = T,
                              !.aborted = aborted]
        /\ UNCHANGED <<store, chain, stream, mode, db, statuses, sent>>
    BY <1>2 DEF SaveOracle, node
  <2>2. trx \in [sig : Nat, next : Nat \ {0}, tables : Tables,
                 statuses : SUBSET StatusRow, aborted : BOOLEAN]
    BY DEF IInv, TypeOK
  <2>3. aborted \in BOOLEAN
    BY <2>2
  <2>4. /\ trx'.sig = trx.sig /\ trx'.next = trx.next + 1 /\ trx'.tables = T
        /\ trx'.aborted = aborted /\ trx'.statuses = trx.statuses
    <3> HIDE DEF T, aborted
    <3> QED  BY <2>1, <2>2
  <2>5. CASE aborted
    <3>1. T = t \/ (r.value = "valid" /\ ~trx.aborted)
      OBVIOUS
    <3>2. T = t
      BY <2>5, <3>1
    <3>3. trx'.aborted
      BY <2>4, <2>5
    <3> HIDE DEF T, aborted
    <3> QED  BY <2>1, <2>4, <3>2, <3>3 DEF LogsCall
  <2>6. CASE ~aborted
    <3>1. ~trx.aborted /\ ~trx'.aborted
      BY <2>4, <2>6
    <3>2. Logs(t, db, Current, Height, r.id, "declined", T)
      <4>1. CASE r.value = "valid"
        <5>1. T = SaveOracleRow(t, r.id, Height)
          BY <3>1, <4>1
        <5> QED  BY <2>1, <4>1, <5>1 DEF Logs, LogsRate, IsRate, CurrentReq
      <4>2. CASE r.value # "valid"
        <5>1. T = t /\ ~IsRate(r) /\ r.type \notin JournalTypes
          BY <2>1, <4>2 DEF IsRate, JournalTypes, VaultTypes
        <5> QED  BY <5>1 DEF Logs, LogsNothing, CurrentReq
      <4> QED  BY <4>1, <4>2
    <3>3. r.type \notin Inits
      BY <2>1 DEF Inits
    <3> HIDE DEF T, aborted
    <3> QED  BY <2>1, <2>4, <3>1, <3>2, <3>3 DEF LogsCall
  <2> QED  BY <2>3, <2>5, <2>6
<1>3. CASE ReceiveTypicalTx
  <2> DEFINE row == ExecutedRow(t, r, Owner(r), Height)
             v   == [Current.after.vaults[Owner(r)] EXCEPT !.active = TRUE]
             u   == AddVaultLog(InsertTx(t, row), row.id, NewVaultId(r),
                                Owner(r), v)
             T   == IF r.type \in {"mint", "reissue"}
                      THEN AddBalance(u, db, row.id, r.address,
                                      Current.after.balances[r.address])
                      ELSE u
  <2>1. CallsLeft /\ r.type \in VaultTypes /\ ~Throws(r) /\ Advance(T, {})
    BY <1>3 DEF ReceiveTypicalTx, Handles
  <2>2. Owner(r) = r.address
    BY <2>1, CurrentOffered DEF Owner, VaultTypes
  <2>3. ~trx.aborted /\ (r.type # "mint" => CurrentVault(t, r.address) # {})
    <3>1. ~trx.aborted
          /\ (r.type \in {"supply", "reissue"} => CurrentVault(t, r.sender) # {})
          /\ (r.type = "claim_overpay" => CurrentVault(t, r.address) # {})
      BY <2>1 DEF Throws, NoVaultRow
    <3> QED  BY <3>1, <2>1, CurrentOffered DEF VaultTypes
  <2>4. v = FiledVault(Current)
    <3>1. r.type # "close" /\ r.type # "liquidate"
      BY <2>1 DEF VaultTypes
    <3> QED  BY <2>2, <3>1 DEF FiledVault, CurrentReq
  <2>5. u = WithVault(t, Current, Height) /\ row.id = NextId(t)
    <3>1. row = ExecutedRow(t, r, r.address, Height)
      BY <2>2
    <3>2. row.id = NextId(t)
      BY DEF ExecutedRow
    <3> HIDE DEF v, row
    <3> QED  BY <2>2, <2>4, <3>1, <3>2 DEF WithVault, CurrentReq
  <2> HIDE DEF u, v, row
  <2>6. LogsVault(t, db, Current, Height, T)
    <3>1. r.type \in {"mint", "reissue"} <=> r.type \in {"mint", "reissue", "close"}
      BY <2>1 DEF VaultTypes
    <3> QED  BY <2>1, <2>3, <2>5, <3>1 DEF LogsVault, CurrentReq
  <2>7. Logs(t, db, Current, Height, r.id, "declined", T)
    BY <2>6 DEF Logs
  <2> HIDE DEF T
  <2> QED  BY <2>1, <2>3, <2>7, PlainLogs
<1>4. CASE Close
  <2> DEFINE row == ExecutedRow(t, r, r.address, Height)
             u   == AddVaultLog(InsertTx(t, row), row.id, NoId, r.address, NoVault)
             T   == AddBalance(u, db, row.id, r.address,
                               Current.after.balances[r.address])
  <2>1. CallsLeft /\ r.type = "close" /\ ~Throws(r) /\ Advance(T, {})
    BY <1>4 DEF Close, Handles
  <2>2. ~trx.aborted /\ CurrentVault(t, r.address) # {}
    BY <2>1 DEF Throws, NoVaultRow
  <2>3. NoVault = FiledVault(Current) /\ NoId = NewVaultId(r)
    BY <2>1 DEF FiledVault, NewVaultId, CurrentReq
  <2>4. u = WithVault(t, Current, Height) /\ row.id = NextId(t)
    <3>1. row.id = NextId(t)
      BY DEF ExecutedRow
    <3> QED  BY <2>3, <3>1 DEF WithVault, CurrentReq
  <2> HIDE DEF u, row
  <2>5. LogsVault(t, db, Current, Height, T)
    BY <2>1, <2>2, <2>4 DEF LogsVault, CurrentReq
  <2>6. Logs(t, db, Current, Height, r.id, "declined", T)
    BY <2>5 DEF Logs
  <2> HIDE DEF T
  <2> QED  BY <2>1, <2>2, <2>6, PlainLogs
<1>5. CASE Liquidate
  <2> DEFINE row == ExecutedRow(t, r, r.address, Height)
             T   == AddVaultLog(InsertTx(t, row), row.id, NoId, r.address,
                                Deactivated(LiquidatedVault(Current)))
  <2>1. CallsLeft /\ r.type = "liquidate" /\ ~Throws(r) /\ Advance(T, {})
    BY <1>5 DEF Liquidate, Handles
  <2>2. ~trx.aborted /\ CurrentVault(t, r.address) # {}
    BY <2>1 DEF Throws, NoVaultRow
  <2>3. /\ Deactivated(LiquidatedVault(Current)) = FiledVault(Current)
        /\ NoId = NewVaultId(r)
    BY <2>1 DEF FiledVault, NewVaultId, CurrentReq
  <2>4. T = WithVault(t, Current, Height)
    BY <2>3 DEF WithVault, CurrentReq
  <2> HIDE DEF T
  <2>5. LogsVault(t, db, Current, Height, T)
    BY <2>1, <2>2, <2>4 DEF LogsVault, CurrentReq
  <2>6. Logs(t, db, Current, Height, r.id, "declined", T)
    BY <2>5 DEF Logs
  <2> QED  BY <2>1, <2>2, <2>6, PlainLogs DEF Inits
<1>6. CASE Transfer
  <2> DEFINE log(s, a) ==
               LET row == ExecutedRow(s, r, a, Height)
               IN  AddBalance(InsertTx(s, row), db, row.id, a,
                              Current.after.balances[a])
             T == log(log(t, r.sender), r.address)
  <2>1. CallsLeft /\ r.type = "transfer" /\ ~Throws(r) /\ Advance(T, {})
    BY <1>6 DEF Transfer, Handles
  <2>2. ~trx.aborted /\ r.sender # r.address
    BY <2>1 DEF Throws
  <2>3. \A s, a : log(s, a) = WithBalance(s, db, Current, a, Height)
    BY DEF WithBalance, CurrentReq
  <2> HIDE DEF log
  <2>4. LogsTransfer(t, db, Current, Height, T)
    BY <2>1, <2>2, <2>3 DEF LogsTransfer, CurrentReq
  <2>5. Logs(t, db, Current, Height, r.id, "declined", T)
    BY <2>4 DEF Logs
  <2> HIDE DEF T
  <2> QED  BY <2>1, <2>2, <2>5, PlainLogs
<1>7. CASE ClaimDeclined
  <2> DEFINE T == InsertTx(t, RequestRow(t, r, r.id, "declined", Height))
  <2>1. CallsLeft /\ r.type = "claim_overpay_init" /\ ~Throws(r) /\ Advance(T, {})
    BY <1>7 DEF ClaimDeclined, Handles
  <2>2. ~trx.aborted
    BY <2>1 DEF Throws
  <2>3. r.id \in Id
    BY <2>1, CurrentTyped DEF Request
  <2>4. LogsRequest(t, Current, Height, r.id, "declined", T)
    BY <2>1, <2>3 DEF LogsRequest, CurrentReq
  <2>5. Logs(t, db, Current, Height, r.id, "declined", T)
    BY <2>4 DEF Logs
  <2> HIDE DEF T
  <2> QED  BY <2>1, <2>2, <2>5, PlainLogs
<1>8. CASE InitClose
  <2> DEFINE answer == CloseAnswer(r)
  <2>1. /\ CallsLeft /\ r.type = "close_init" /\ ~Throws(r)
        /\ sent' = sent \cup {answer}
        /\ Advance(InsertTx(t, RequestRow(t, r, answer.id, "init", Height)),
                   {Pending(answer)})
    BY <1>8 DEF InitClose, Handles
  <2>2. ~trx.aborted
    BY <2>1 DEF Throws
  <2>3. r \in Requests
    BY <2>1, CurrentOffered DEF ServiceTypes
  <2>4. /\ answer.id = AnswerId(r) /\ answer.request = r.id
        /\ answer.address = r.sender
    BY DEF CloseAnswer, Answer
  <2>5. answer.id \in Id
    BY <2>3, <2>4, AnswerIdFresh
  <2> HIDE DEF answer
  <2> QED  BY <2>1, <2>2, <2>4, <2>5, InitLogs DEF Inits
<1>9. CASE ClaimPaid
  <2> DEFINE answer == ClaimAnswer(r)
  <2>1. /\ CallsLeft /\ r.type = "claim_overpay_init" /\ ~Throws(r)
        /\ sent' = sent \cup {answer}
        /\ Advance(InsertTx(t, RequestRow(t, r, answer.id, "init", Height)),
                   {Pending(answer)})
    BY <1>9 DEF ClaimPaid, Handles
  <2>2. ~trx.aborted
    BY <2>1 DEF Throws
  <2>3. r \in Requests
    BY <2>1, CurrentOffered DEF ServiceTypes
  <2>4. /\ answer.id = AnswerId(r) /\ answer.request = r.id
        /\ answer.address = r.sender
    BY DEF ClaimAnswer, Answer
  <2>5. answer.id \in Id
    BY <2>3, <2>4, AnswerIdFresh
  <2> HIDE DEF answer
  <2> QED  BY <2>1, <2>2, <2>4, <2>5, InitLogs DEF Inits
<1> QED
  BY <1>1, <1>2, <1>3, <1>4, <1>5, <1>6, <1>7, <1>8, <1>9 DEF HandleCall

(* What becomes of the tables in a step.                                   *)
Quiet == UNCHANGED <<db, statuses, trx, sent>>

Leaves == Exit /\ UNCHANGED <<store, chain, db, statuses>>

Deletes == /\ \E h \in Nat : db' = DeleteFrom(db, h)
           /\ trx = NoTrx
           /\ UNCHANGED <<store, statuses, trx, sent>>

LEMMA Shapes ==
  ASSUME IInv, SentOK, CallsOK, [Next]_vars
  PROVE  Quiet \/ Leaves \/ Deletes \/ BeginBlock \/ LogsCall \/ Commit
<1>1. CASE Mine \/ Fork \/ Start \/ Connect \/ UNCHANGED vars
  BY <1>1 DEF Mine, Fork, Start, Connect, vars, Quiet
<1>2. CASE ExitNoContract \/ RollbackThrows \/ Crash \/ HandlerThrows
  BY <1>2 DEF ExitNoContract, RollbackThrows, Crash, HandlerThrows, node, Leaves
<1>3. CASE RollbackLastBlock
  <2>1. PICK b \in LastBlock(db) : TRUE
    BY <1>3 DEF RollbackLastBlock
  <2>2. db.blocks \subseteq BlockRow
    BY VisibleGood, TablesFields DEF Good
  <2>3. The(LastBlock(db)) \in db.blocks
    BY <2>1, TheIsElement DEF LastBlock
  <2>4. The(LastBlock(db)).height \in Nat /\ db.blocks # {}
    BY <2>2, <2>3 DEF BlockRow
  <2>5. /\ db' = DeleteFrom(db, The(LastBlock(db)).height)
        /\ mode = "connecting" /\ UNCHANGED <<store, statuses, trx, sent>>
    BY <1>3, <2>4 DEF RollbackLastBlock, DeleteLastBlock, node
  <2>6. trx = NoTrx
    BY <2>5 DEF IInv, TrxOK
  <2> QED  BY <2>4, <2>5, <2>6 DEF Deletes
<1>4. CASE RollbackToBlockSignature
  <2>1. PICK b \in db.blocks : db' = DeleteFrom(db, b.height)
    BY <1>4 DEF RollbackToBlockSignature
  <2>2. b.height \in Nat
    BY VisibleGood, TablesFields DEF Good, BlockRow
  <2>3. trx = NoTrx /\ UNCHANGED <<store, statuses, trx, sent>>
    BY <1>4 DEF RollbackToBlockSignature, HeadIs, IInv, TrxOK, node
  <2> QED  BY <2>1, <2>2, <2>3 DEF Deletes
<1>5. CASE HandleCall
  BY <1>2, <1>5, HandlerLogs
<1> QED  BY <1>1, <1>2, <1>3, <1>4, <1>5 DEF Next, Listen

(* What a transaction starts with.                                         *)
LEMMA BeginFacts ==
  ASSUME IInv, BeginBlock
  PROVE  LET sig == stream[1].sig
             h   == store[sig].height
         IN  /\ sig \in DOMAIN store /\ sig \in Nat \ {0} /\ h \in Nat \ {0}
             /\ stream # <<>> /\ stream[1].kind = "block" /\ mode = "streaming"
             /\ stream' = Tail(stream) /\ HeightsBelow(db, h)
             /\ ~InTrx /\ trx = NoTrx
             /\ trx'.sig = sig /\ trx'.next = 1 /\ trx'.statuses = {}
             /\ ~trx'.aborted /\ trx'.tables = SaveBlock(db, h, sig)
             /\ UNCHANGED <<store, chain, mode, db, statuses, sent>>
<1> DEFINE sig == stream[1].sig
           h   == store[sig].height
<1>1. /\ HeadIs("block") /\ stream' = Tail(stream)
      /\ trx' = [NoTrx EXCEPT !.sig = Head(stream).sig,
                   !.tables = SaveBlock(db, store[Head(stream).sig].height,
                                        Head(stream).sig)]
      /\ UNCHANGED <<store, chain, mode, db, statuses, sent>>
  BY DEF BeginBlock, node
<1>2. stream \in Seq(Event) /\ store \in Seq(Block)
  BY DEF IInv, TypeOK
<1>3. Head(stream) = stream[1] /\ 1 \in DOMAIN stream
  BY <1>1, <1>2 DEF HeadIs
<1>4. /\ stream # <<>> /\ stream[1].kind = "block" /\ mode = "streaming"
      /\ ~InTrx
  BY <1>1, <1>3 DEF HeadIs
<1>5. sig \in DOMAIN store /\ sig \in Nat \ {0} /\ h \in Nat \ {0}
  <2>1. sig \in DOMAIN store
    BY <1>3 DEF IInv, StreamOK
  <2>2. sig \in Nat \ {0} /\ store[sig] \in Block
    BY <2>1, <1>2, <1>3
  <2> QED  BY <2>1, <2>2 DEF Block
<1>6. HeightsBelow(db, h)
  BY <1>4 DEF IInv, DeliveryInOrder, Visible
<1> DEFINE T == SaveBlock(db, h, sig)
<1>7. trx' = [NoTrx EXCEPT !.sig = sig, !.tables = T]
  BY <1>1, <1>3
<1> HIDE DEF T
<1>8. /\ trx'.sig = sig /\ trx'.next = 1 /\ trx'.statuses = {}
      /\ ~trx'.aborted /\ trx'.tables = T
  BY <1>7 DEF NoTrx
<1>9. trx = NoTrx
  BY <1>4 DEF IInv, TrxOK
<1> QED  BY <1>1, <1>4, <1>5, <1>6, <1>8, <1>9 DEF T

(* A handler runs on tables of which the block is the newest.              *)
LEMMA CurrentHandled ==
  ASSUME IInv, CallsLeft, Sound(trx.tables)
  PROVE  Handled(trx.tables, Current, Height) /\ db \in Tables
<1>1. db \in Tables
  BY DEF IInv, TypeOK
<1> QED  BY <1>1, CurrentTyped DEF Handled

-----------------------------------------------------------------------------
(* The journals are sound in every reachable state.                        *)

SoundOK == Sound(db) /\ Sound(trx.tables)

LEMMA SoundOKNext ==
  ASSUME IInv, SentOK, CallsOK, SoundOK, [Next]_vars
  PROVE  SoundOK'
<1>1. CASE Quiet
  BY <1>1 DEF Quiet, SoundOK
<1>2. NoTrx.tables = EmptyTables
  BY DEF NoTrx
<1>3. CASE Leaves
  BY <1>2, <1>3, EmptySound DEF Leaves, Exit, SoundOK
<1>4. CASE Deletes
  BY <1>4, DeleteFromSound DEF Deletes, SoundOK
<1>5. CASE BeginBlock
  BY <1>5, BeginFacts, SaveBlockSound DEF SoundOK
<1>6. CASE LogsCall
  <2>1. db' = db /\ CallsLeft
    BY <1>6 DEF LogsCall
  <2>2. CASE trx'.tables = trx.tables
    BY <2>1, <2>2 DEF SoundOK
  <2>3. CASE \E tx, status : Logs(trx.tables, db, Current, Height, tx, status,
                                  trx'.tables)
    <3>1. Sound(trx'.tables)
      BY <2>1, <2>3, CurrentHandled, LogsEffect DEF SoundOK
    <3> QED  BY <2>1, <3>1 DEF SoundOK
  <2> QED  BY <1>6, <2>2, <2>3 DEF LogsCall
<1>7. CASE Commit
  BY <1>2, <1>7, EmptySound DEF Commit, SoundOK
<1> QED  BY <1>1, <1>3, <1>4, <1>5, <1>6, <1>7, Shapes

-----------------------------------------------------------------------------
(* Behind each payout on file there is a broadcast.                        *)

(* EntriesWereSent of one content of the tables, and of pending statuses.  *)
RowsSent(t, S) ==
    \A r \in {r \in t.txs : r.status = "init"} :
      \E s \in S : s.id = r.tx /\ s.request = r.request /\ s.address = r.address

StatusesSent(U, S) == \A u \in U : \E s \in S : s.id = u.tx /\ s.address = u.address

SentInv == /\ RowsSent(db, sent) /\ RowsSent(trx.tables, sent)
           /\ StatusesSent(statuses, sent) /\ StatusesSent(trx.statuses, sent)

LEMMA SentInvIsEntriesWereSent == SentInv <=> EntriesWereSent
  BY DEF SentInv, EntriesWereSent, RowsSent, StatusesSent, Visible

LEMMA SentInvNext ==
  ASSUME IInv, SentOK, CallsOK, SoundOK, SentInv, [Next]_vars
  PROVE  SentInv'
<1>1. sent \subseteq sent'
  BY SentStep
<1>2. \A t : RowsSent(t, sent) => RowsSent(t, sent')
  BY <1>1 DEF RowsSent
<1>3. \A U : StatusesSent(U, sent) => StatusesSent(U, sent')
  BY <1>1 DEF StatusesSent
<1>4. /\ RowsSent(NoTrx.tables, sent') /\ StatusesSent(NoTrx.statuses, sent')
  BY DEF NoTrx, EmptyTables, RowsSent, StatusesSent
<1>5. CASE Quiet
  BY <1>5 DEF Quiet, SentInv
<1>6. CASE Leaves
  BY <1>2, <1>3, <1>4, <1>6 DEF Leaves, Exit, SentInv
<1>7. CASE Deletes
  <2>1. PICK h \in Nat : db' = DeleteFrom(db, h)
    BY <1>7 DEF Deletes
  <2>2. db'.txs \subseteq db.txs
    BY <2>1, DeleteFromSound DEF SoundOK
  <2>3. RowsSent(db', sent)
    BY <2>2 DEF SentInv, RowsSent
  <2> QED  BY <1>7, <2>3 DEF Deletes, SentInv
<1>8. CASE BeginBlock
  <2>1. /\ trx'.statuses = {} /\ UNCHANGED <<db, statuses, sent>>
        /\ trx'.tables = SaveBlock(db, store[stream[1].sig].height, stream[1].sig)
    BY <1>8, BeginFacts
  <2>2. trx'.tables.txs = db.txs
    BY <2>1 DEF SaveBlock, IInv, TypeOK, Tables
  <2>3. RowsSent(trx'.tables, sent) /\ StatusesSent(trx'.statuses, sent)
    BY <2>1, <2>2 DEF SentInv, RowsSent, StatusesSent
  <2> QED  BY <2>1, <2>3 DEF SentInv
<1>9. CASE LogsCall
  <2>1. /\ CallsLeft /\ UNCHANGED <<db, statuses>>
        /\ \A u \in trx'.statuses : \/ u \in trx.statuses
              \/ \E s \in sent' : s.id = u.tx /\ s.address = u.address
    BY <1>9 DEF LogsCall
  <2>2. StatusesSent(trx'.statuses, sent')
    BY <1>1, <2>1 DEF SentInv, StatusesSent
  <2>3. RowsSent(trx'.tables, sent')
    <3>1. CASE trx'.tables = trx.tables
      BY <1>2, <3>1 DEF SentInv
    <3>2. ASSUME NEW tx, NEW status,
                 Logs(trx.tables, db, Current, Height, tx, status, trx'.tables),
                 CurrentReq.type \in Inits =>
                    \/ status = "declined" /\ tx = CurrentReq.id
                    \/ /\ status = "init" /\ tx = AnswerId(CurrentReq)
                       /\ \E s \in sent' : /\ s.id = tx
                                           /\ s.request = CurrentReq.id
                                           /\ s.address = CurrentReq.sender
          PROVE  RowsSent(trx'.tables, sent')
      <4>1. PICK N : /\ trx'.tables.txs = trx.tables.txs \cup N
                     /\ RowsOf(N, CurrentReq, Height, tx, status)
        BY <2>1, <3>2, CurrentHandled, LogsEffect DEF SoundOK, CurrentReq
      <4>2. ASSUME NEW x \in N, x.status = "init"
            PROVE  \E s \in sent' : /\ s.id = x.tx /\ s.request = x.request
                                    /\ s.address = x.address
        <5>1. /\ RowShape(x) /\ Origin(x) = CurrentReq.id
              /\ CurrentReq.type \in Inits
              /\ x.tx = tx /\ x.address = CurrentReq.sender /\ status = "init"
          BY <4>1, <4>2 DEF RowsOf, Inits
        <5>2. x.request = CurrentReq.id
          BY <4>2, <5>1 DEF RowShape, Origin
        <5> QED  BY <3>2, <5>1, <5>2
      <4>3. RowsSent(trx.tables, sent')
        BY <1>2 DEF SentInv
      <4> QED  BY <4>1, <4>2, <4>3 DEF RowsSent
    <3> QED  BY <1>9, <3>1, <3>2 DEF LogsCall
  <2> QED  BY <1>2, <1>3, <2>1, <2>2, <2>3 DEF SentInv
<1>10. CASE Commit
  <2>1. /\ db' \in {db, trx.tables} /\ trx' = NoTrx /\ sent' = sent
        /\ statuses' \in {statuses, statuses \cup trx.statuses}
    BY <1>10 DEF Commit
  <2>2. StatusesSent(statuses \cup trx.statuses, sent)
    BY DEF SentInv, StatusesSent
  <2> QED  BY <1>4, <2>1, <2>2 DEF SentInv
<1> QED  BY <1>5, <1>6, <1>7, <1>8, <1>9, <1>10, Shapes

-----------------------------------------------------------------------------
(* The journals against the calls of the stored blocks.                    *)

(* The open transaction adds one block, above all that is committed.       *)
TrxAbove ==
    InTrx => /\ trx.tables.blocks = db.blocks \cup {[height |-> Height,
                                                     sig |-> trx.sig]}
             /\ HeightsBelow(db, Height)

LEMMA TrxAboveNext ==
  ASSUME IInv, SentOK, CallsOK, SoundOK, TrxAbove, [Next]_vars
  PROVE  TrxAbove'
<1>1. CASE Quiet
  <2>1. InTrx => Height' = Height
    BY <1>1, StoreGrows DEF Quiet, IInv, TrxOK, Height
  <2> QED  BY <1>1, <2>1 DEF Quiet, TrxAbove, InTrx, HeightsBelow
<1>2. CASE trx' = NoTrx
  BY <1>2 DEF TrxAbove, InTrx, NoTrx
<1>3. CASE BeginBlock
  <2> DEFINE sig == stream[1].sig
             h   == store[sig].height
  <2>1. /\ trx'.sig = sig /\ trx'.tables = SaveBlock(db, h, sig)
        /\ HeightsBelow(db, h) /\ UNCHANGED <<store, db>>
    BY <1>3, BeginFacts
  <2>2. Height' = h
    BY <2>1 DEF Height
  <2>3. trx'.tables.blocks = db.blocks \cup {[height |-> h, sig |-> sig]}
    BY <2>1 DEF SaveBlock, IInv, TypeOK, Tables
  <2> QED  BY <2>1, <2>2, <2>3 DEF TrxAbove, HeightsBelow
<1>4. CASE LogsCall
  <2>1. /\ CallsLeft /\ UNCHANGED <<store, db>> /\ trx'.sig = trx.sig
        /\ \/ trx'.tables = trx.tables
           \/ \E tx, status : Logs(trx.tables, db, Current, Height, tx, status,
                                   trx'.tables)
    BY <1>4 DEF LogsCall
  <2>2. trx'.tables.blocks = trx.tables.blocks
    BY <2>1, CurrentHandled, LogsEffect DEF SoundOK
  <2> QED  BY <2>1, <2>2 DEF TrxAbove, InTrx, Height, CallsLeft, HeightsBelow
<1> QED  BY <1>1, <1>2, <1>3, <1>4, Shapes DEF Leaves, Exit, Deletes, Commit

Keys(t) == {KeyOf(r) : r \in t.txs}
RatePairs(t) == {<<o.tx, o.height>> : o \in t.oracles}

Owed(C) == UNION {Entries(c[1], c[2]) : c \in C}
OwedRates(C) == {<<c[1].id, c[2]>> : c \in {c \in C : IsRate(c[1])}}

\* The calls of a set of stored blocks, and those of the open transaction
\* that have been handled.
CallsIn(st, blocks) ==
    UNION {{st[b.sig].calls[i].req : i \in DOMAIN st[b.sig].calls}
             \X {b.height} : b \in blocks}
Done(st, x) ==
    {<<st[x.sig].calls[i].req, st[x.sig].height>> :
       i \in {i \in DOMAIN st[x.sig].calls : i < x.next}}

Matches(t, C) == Keys(t) = Owed(C) /\ RatePairs(t) = OwedRates(C)

MatchInv ==
    /\ Matches(db, CallsIn(store, db.blocks))
    /\ InTrx /\ ~trx.aborted =>
         Matches(trx.tables, CallsIn(store, db.blocks) \cup Done(store, trx))

LEMMA MatchInvIsJournalMatchesChain == MatchInv => JournalMatchesChain
<1>1. CallsIn(store, db.blocks) = StoredCalls
  BY DEF CallsIn, StoredCalls, CallsOf
<1>2. Keys(db) = {<<IF r.request = NoId THEN r.tx ELSE r.request,
                    r.address, r.type, r.height>> : r \in db.txs}
  BY DEF Keys, KeyOf, Origin
<1>3. Owed(StoredCalls) = UNION {Entries(c[1], c[2]) : c \in StoredCalls}
  BY DEF Owed
<1>4. OwedRates(StoredCalls)
        = {<<c[1].id, c[2]>> : c \in
             {c \in StoredCalls : c[1].type = "oracle"
                /\ c[1].value = "valid" /\ ~c[1].nested}}
  BY DEF OwedRates, IsRate
<1> QED
  BY <1>1, <1>2, <1>3, <1>4 DEF MatchInv, Matches, RatePairs, JournalMatchesChain

(* The entries of a call are at the height of its block.                   *)
LEMMA EntriesHeight == \A r, h : \A e \in Entries(r, h) : e[4] = h
  BY DEF Entries

(* One more call, its entries and its rate.                                *)
LEMMA MatchesOneMore ==
  ASSUME NEW t, NEW T, NEW C, NEW r, NEW h, NEW N, Matches(t, C),
         T.txs = t.txs \cup N, {KeyOf(x) : x \in N} = Entries(r, h),
         T.oracles = t.oracles \cup RatesOf(r, h)
  PROVE  Matches(T, C \cup {<<r, h>>})
<1>1. Keys(T) = Keys(t) \cup {KeyOf(x) : x \in N}
  BY DEF Keys
<1>2. Owed(C \cup {<<r, h>>}) = Owed(C) \cup Entries(r, h)
  <2>1. <<r, h>>[1] = r /\ <<r, h>>[2] = h
    OBVIOUS
  <2> QED  BY <2>1 DEF Owed
<1>3. RatePairs(T) = RatePairs(t) \cup {<<o.tx, o.height>> : o \in RatesOf(r, h)}
  BY DEF RatePairs
<1>4. OwedRates(C \cup {<<r, h>>})
        = OwedRates(C) \cup {<<o.tx, o.height>> : o \in RatesOf(r, h)}
  <2>1. CASE IsRate(r)
    <3>1. {<<o.tx, o.height>> : o \in RatesOf(r, h)} = {<<r.id, h>>}
      BY <2>1 DEF RatesOf
    <3> DEFINE p == <<r, h>>
    <3>2. p[1] = r /\ p[2] = h
      OBVIOUS
    <3> HIDE DEF p
    <3>3. {c \in C \cup {p} : IsRate(c[1])} = {c \in C : IsRate(c[1])} \cup {p}
      BY <2>1, <3>2
    <3>4. OwedRates(C \cup {p}) = OwedRates(C) \cup {<<p[1].id, p[2]>>}
      BY <3>3 DEF OwedRates
    <3> QED  BY <3>1, <3>2, <3>4 DEF p
  <2>2. CASE ~IsRate(r)
    <3>1. {<<o.tx, o.height>> : o \in RatesOf(r, h)} = {}
      BY <2>2 DEF RatesOf
    <3> QED  BY <2>2, <3>1 DEF OwedRates
  <2> QED  BY <2>1, <2>2
<1> QED  BY <1>1, <1>2, <1>3, <1>4 DEF Matches

(* A deletion takes the calls and their entries together.                  *)
LEMMA MatchesBelow ==
  ASSUME NEW t, Sound(t), NEW st, Matches(t, CallsIn(st, t.blocks)),
         NEW h \in Nat
  PROVE  LET u == DeleteFrom(t, h) IN Matches(u, CallsIn(st, u.blocks))
<1> DEFINE u == DeleteFrom(t, h)
           C == CallsIn(st, t.blocks)
           D == CallsIn(st, u.blocks)
<1>1. /\ u.blocks = {b \in t.blocks : b.height < h}
      /\ u.txs = {r \in t.txs : r.height < h}
      /\ u.oracles = {o \in t.oracles :
                        \E b \in t.blocks : b.height < h /\ b.height = o.height}
  BY DeleteFromSound
<1> HIDE DEF u
<1>2. D = {c \in C : c[2] < h}
  BY <1>1 DEF CallsIn
<1>3. \A c \in D : \E b \in t.blocks : b.height < h /\ b.height = c[2]
  BY <1>1 DEF CallsIn
<1> HIDE DEF C, D
<1>4. Keys(u) = {e \in Keys(t) : e[4] < h}
  <2>1. \A r : KeyOf(r)[4] = r.height
    BY DEF KeyOf
  <2> QED  BY <1>1, <2>1 DEF Keys
<1>5. Owed(D) = {e \in Owed(C) : e[4] < h}
  BY <1>2, EntriesHeight DEF Owed
<1>6. Keys(t) = Owed(C) /\ RatePairs(t) = OwedRates(C)
  BY DEF Matches, C
<1>7. RatePairs(u) \subseteq OwedRates(D)
  <2> SUFFICES ASSUME NEW o \in u.oracles PROVE <<o.tx, o.height>> \in OwedRates(D)
    BY DEF RatePairs
  <2>1. o \in t.oracles /\ o.height < h
    BY <1>1
  <2>2. <<o.tx, o.height>> \in OwedRates(C)
    BY <2>1, <1>6 DEF RatePairs
  <2>3. PICK c \in C : IsRate(c[1]) /\ <<o.tx, o.height>> = <<c[1].id, c[2]>>
    BY <2>2 DEF OwedRates
  <2>4. c \in D
    BY <2>1, <2>3, <1>2
  <2> QED  BY <2>3, <2>4 DEF OwedRates
<1>8. OwedRates(D) \subseteq RatePairs(u)
  <2> SUFFICES ASSUME NEW c \in D, IsRate(c[1])
               PROVE  <<c[1].id, c[2]>> \in RatePairs(u)
    BY DEF OwedRates
  <2>1. <<c[1].id, c[2]>> \in RatePairs(t)
    BY <1>2, <1>6 DEF OwedRates
  <2>2. PICK o \in t.oracles : <<o.tx, o.height>> = <<c[1].id, c[2]>>
    BY <2>1 DEF RatePairs
  <2>3. o \in u.oracles
    BY <2>2, <1>1, <1>3
  <2> QED  BY <2>2, <2>3 DEF RatePairs
<1> QED  BY <1>4, <1>5, <1>6, <1>7, <1>8 DEF Matches, D, u

LEMMA MatchInvNext ==
  ASSUME IInv, SentOK, CallsOK, SoundOK, TrxAbove, MatchInv, [Next]_vars
  PROVE  MatchInv'
<1>1. CASE Quiet
  <2>1. \A sig \in DOMAIN store : store'[sig] = store[sig]
    BY StoreGrows
  <2>2. PICK st : st = store'
    OBVIOUS
  <2>3. \A b \in db.blocks : b.sig \in DOMAIN store
    BY DEF IInv, SigsOK, Visible
  <2>4. CallsIn(st, db.blocks) = CallsIn(store, db.blocks)
    BY <2>1, <2>2, <2>3 DEF CallsIn
  <2>5. InTrx => Done(st, trx) = Done(store, trx)
    BY <2>1, <2>2 DEF Done, IInv, TrxOK
  <2> QED  BY <1>1, <2>2, <2>4, <2>5 DEF Quiet, MatchInv, InTrx
<1>2. CASE Leaves
  BY <1>2 DEF Leaves, Exit, MatchInv, InTrx, NoTrx
<1>3. CASE Deletes
  <2>1. PICK h \in Nat : db' = DeleteFrom(db, h)
    BY <1>3 DEF Deletes
  <2>2. Matches(DeleteFrom(db, h), CallsIn(store, DeleteFrom(db, h).blocks))
    BY MatchesBelow DEF SoundOK, MatchInv
  <2> QED  BY <1>3, <2>1, <2>2 DEF Deletes, MatchInv, InTrx, NoTrx
<1>4. CASE BeginBlock
  <2>1. /\ trx'.sig = stream[1].sig /\ trx'.next = 1
        /\ trx'.tables = SaveBlock(db, store[stream[1].sig].height, stream[1].sig)
        /\ stream[1].sig \in DOMAIN store
        /\ UNCHANGED <<store, db>>
    BY <1>4, BeginFacts
  <2>2. trx'.tables.txs = db.txs /\ trx'.tables.oracles = db.oracles
    BY <2>1 DEF SaveBlock, IInv, TypeOK, Tables
  <2>3. PICK x : x = trx'
    OBVIOUS
  <2>4. Done(store, x) = {}
    <3>1. store[x.sig].calls \in Seq(Call)
      <4>1. store[x.sig] \in Block
        BY <2>1, <2>3 DEF IInv, TypeOK
      <4> QED  BY <4>1 DEF Block
    <3>2. \A i \in DOMAIN store[x.sig].calls : ~(i < x.next)
      BY <2>1, <2>3, <3>1
    <3> QED  BY <3>2 DEF Done
  <2>5. Matches(x.tables, CallsIn(store, db.blocks))
    BY <2>2, <2>3 DEF MatchInv, Matches, Keys, RatePairs
  <2>6. Matches(x.tables, CallsIn(store, db.blocks) \cup Done(store, x))
    BY <2>4, <2>5
  <2> QED  BY <2>1, <2>3, <2>6 DEF MatchInv
<1>5. CASE LogsCall
  <2>1. /\ CallsLeft /\ UNCHANGED <<store, db>>
        /\ trx'.sig = trx.sig /\ trx'.next = trx.next + 1
    BY <1>5 DEF LogsCall
  <2>2. CASE trx'.aborted
    BY <2>1, <2>2 DEF MatchInv
  <2>3. ASSUME ~trx'.aborted, ~trx.aborted, NEW tx, NEW status,
               Logs(trx.tables, db, Current, Height, tx, status, trx'.tables)
        PROVE  MatchInv'
    <3> DEFINE C == CallsIn(store, db.blocks) \cup Done(store, trx)
               r == CurrentReq
    <3>1. PICK N : /\ trx'.tables.txs = trx.tables.txs \cup N
                   /\ RowsOf(N, r, Height, tx, status)
      BY <2>1, <2>3, CurrentHandled, LogsEffect DEF SoundOK, CurrentReq
    <3>2. trx'.tables.oracles = trx.tables.oracles \cup RatesOf(r, Height)
      BY <2>1, <2>3, CurrentHandled, LogsEffect DEF SoundOK, CurrentReq
    <3>3. Matches(trx.tables, C)
      BY <2>1, <2>3 DEF MatchInv, CallsLeft
    <3>4. PICK T : T = trx'.tables
      OBVIOUS
    <3>5. Matches(T, C \cup {<<r, Height>>})
      BY <3>1, <3>2, <3>3, <3>4, MatchesOneMore DEF RowsOf
    <3>6. PICK x : x = trx'
      OBVIOUS
    <3>7. Done(store, x) = Done(store, trx) \cup {<<r, Height>>}
      <4>1. /\ trx.next \in Nat \ {0} /\ trx.next <= Len(store[trx.sig].calls)
            /\ store[trx.sig].calls \in Seq(Call)
        <5>1. InTrx /\ trx.next <= Len(store[trx.sig].calls) /\ trx.next \in Nat \ {0}
          BY <2>1 DEF IInv, TypeOK, CallsLeft
        <5>2. trx.sig \in DOMAIN store /\ store[trx.sig] \in Block
          BY <5>1 DEF IInv, TrxOK, TypeOK
        <5> QED  BY <5>1, <5>2 DEF Block
      <4>2. {i \in DOMAIN store[trx.sig].calls : i < trx.next + 1}
              = {i \in DOMAIN store[trx.sig].calls : i < trx.next} \cup {trx.next}
        BY <4>1
      <4>3. <<r, Height>> = <<store[trx.sig].calls[trx.next].req,
                              store[trx.sig].height>>
        BY DEF CurrentReq, Current, Height
      <4>4. x.sig = trx.sig /\ x.next = trx.next + 1
        BY <2>1, <3>6
      <4> QED  BY <4>2, <4>3, <4>4 DEF Done
    <3>8. Matches(T, CallsIn(store, db.blocks) \cup Done(store, x))
      BY <3>5, <3>7
    <3>9. Matches(db, CallsIn(store, db.blocks))
      BY DEF MatchInv
    <3> QED  BY <2>1, <3>4, <3>6, <3>8, <3>9 DEF MatchInv
  <2> QED  BY <1>5, <2>2, <2>3 DEF LogsCall
<1>6. CASE Commit
  <2>1. /\ InTrx /\ ~CallsLeft /\ trx' = NoTrx /\ store' = store
        /\ db' = IF trx.aborted THEN db ELSE trx.tables
    BY <1>6 DEF Commit, node
  <2>2. CASE trx.aborted
    BY <2>1, <2>2 DEF MatchInv, InTrx, NoTrx
  <2>3. CASE ~trx.aborted
    <3>1. Matches(trx.tables, CallsIn(store, db.blocks) \cup Done(store, trx))
      BY <2>1, <2>3 DEF MatchInv
    <3> DEFINE b == [height |-> Height, sig |-> trx.sig]
    <3>2. b.height = Height /\ b.sig = trx.sig
          /\ trx.tables.blocks = db.blocks \cup {b}
      BY <2>1 DEF TrxAbove
    <3> HIDE DEF b
    <3>3. CallsIn(store, trx.tables.blocks)
            = CallsIn(store, db.blocks) \cup Done(store, trx)
      <4>1. store[trx.sig].calls \in Seq(Call) /\ trx.next \in Nat
        <5>1. trx.sig \in DOMAIN store /\ store[trx.sig] \in Block
          BY <2>1 DEF IInv, TrxOK, TypeOK
        <5> QED  BY <5>1 DEF Block, IInv, TypeOK
      <4>2. ~(trx.next <= Len(store[trx.sig].calls))
        BY <2>1 DEF CallsLeft
      <4>3. \A i \in DOMAIN store[trx.sig].calls : i < trx.next
        BY <4>1, <4>2
      <4>4. Done(store, trx) = {<<store[b.sig].calls[i].req, b.height>> :
                                  i \in DOMAIN store[b.sig].calls}
        BY <3>2, <4>3 DEF Done, Height
      <4>5. CallsIn(store, db.blocks \cup {b})
              = CallsIn(store, db.blocks) \cup
                {<<store[b.sig].calls[i].req, b.height>> :
                   i \in DOMAIN store[b.sig].calls}
        BY DEF CallsIn
      <4> QED  BY <3>2, <4>4, <4>5
    <3> QED  BY <2>1, <2>3, <3>1, <3>3 DEF MatchInv, InTrx, NoTrx
  <2> QED  BY <2>2, <2>3
<1> QED  BY <1>1, <1>2, <1>3, <1>4, <1>5, <1>6, Shapes

-----------------------------------------------------------------------------
(* The inductive invariant of the journals, and what follows from it.      *)

JournalInv == /\ IInv /\ SentOK /\ CallsOK
              /\ SoundOK /\ SentInv /\ TrxAbove /\ MatchInv

LEMMA JournalInvInit == Init => JournalInv
<1> SUFFICES ASSUME Init PROVE JournalInv
  OBVIOUS
<1>1. /\ store = <<>> /\ db = EmptyTables /\ statuses = {} /\ trx = NoTrx
      /\ sent = {} /\ IInv
  BY InitIInv DEF Init
<1>2. SentOK /\ CallsOK
  BY <1>1 DEF SentOK, CallsOK
<1>3. trx.tables = EmptyTables /\ trx.statuses = {} /\ ~InTrx
  BY <1>1 DEF NoTrx, InTrx
<1>4. SoundOK
  BY <1>1, <1>3, EmptySound DEF SoundOK
<1>5. /\ db.txs = {} /\ db.oracles = {} /\ db.blocks = {}
      /\ trx.tables.txs = {}
  BY <1>1, <1>3 DEF EmptyTables
<1>6. SentInv
  BY <1>1, <1>3, <1>5 DEF SentInv, RowsSent, StatusesSent
<1>7. CallsIn(store, db.blocks) = {}
  BY <1>5 DEF CallsIn
<1>8. Matches(db, {})
  BY <1>5 DEF Matches, Keys, Owed, RatePairs, OwedRates
<1>9. TrxAbove /\ MatchInv
  BY <1>3, <1>7, <1>8 DEF TrxAbove, MatchInv
<1> QED  BY <1>1, <1>2, <1>4, <1>6, <1>9 DEF JournalInv

LEMMA JournalInvNext == JournalInv /\ [Next]_vars => JournalInv'
<1> SUFFICES ASSUME JournalInv, [Next]_vars PROVE JournalInv'
  OBVIOUS
<1>1. IInv /\ SentOK /\ CallsOK /\ SoundOK /\ SentInv /\ TrxAbove /\ MatchInv
  BY DEF JournalInv
<1>2. IInv' /\ SentOK' /\ CallsOK'
  BY <1>1, NextIInv, SentOKNext, CallsOKNext
<1>3. SoundOK' /\ SentInv' /\ TrxAbove' /\ MatchInv'
  BY <1>1, SoundOKNext, SentInvNext, TrxAboveNext, MatchInvNext
<1> QED  BY <1>2, <1>3 DEF JournalInv

(* The journals hold what the calls of the stored blocks ask for.          *)
THEOREM JournalInvariance == Spec => []JournalInv
<1>1. Init => JournalInv
  BY JournalInvInit
<1>2. JournalInv /\ [Next]_vars => JournalInv'
  BY JournalInvNext
<1> QED  BY <1>1, <1>2, PTL DEF Spec

(* Every call of a stored block has its entries, once and at its height,   *)
(* and there is no other entry: none survives rollbackToBlockSignature,    *)
(* none is doubled by a replay, none is lost with a crash, and a block     *)
(* whose transaction PostgreSQL aborted leaves none.                       *)
THEOREM JournalFollowsChain == Spec => []JournalMatchesChain
<1>1. JournalInv => JournalMatchesChain
  BY MatchInvIsJournalMatchesChain DEF JournalInv
<1> QED  BY <1>1, JournalInvariance, PTL

(* addVaultLog takes its diff from the entry before, within a transaction  *)
(* and after any rollback: the diffs of an address add up to its vault.    *)
THEOREM VaultDiffs == Spec => []VaultDiffsTelescope
<1>1. JournalInv => VaultDiffsTelescope
  <2>1. ASSUME JournalInv, NEW t \in Visible PROVE Telescopes(t)
    BY <2>1 DEF JournalInv, SoundOK, Sound, Visible
  <2> QED  BY <2>1 DEF Telescopes, VaultDiffsTelescope
<1> QED  BY <1>1, JournalInvariance, PTL

(* The vault_id that an entry inherits is that of the newest mint of its   *)
(* address, also when the mint it was taken from has been rolled back and  *)
(* replayed.                                                               *)
THEOREM VaultIdNamesMint == Spec => []VaultIdNamesItsMint
<1>1. JournalInv => VaultIdNamesItsMint
  <2>1. ASSUME JournalInv, NEW t \in Visible PROVE NamesMints(t)
    BY <2>1 DEF JournalInv, SoundOK, Sound, Visible
  <2> QED  BY <2>1 DEF NamesMints, Mints, VaultIdNamesItsMint
<1> QED  BY <1>1, JournalInvariance, PTL

(* Behind every "init" entry and every pending status there is a broadcast *)
(* for the same request and address, whatever failed in between.           *)
THEOREM EntriesWereBroadcast == Spec => []EntriesWereSent
<1>1. JournalInv => EntriesWereSent
  BY SentInvIsEntriesWereSent DEF JournalInv
<1> QED  BY <1>1, JournalInvariance, PTL
=============================================================================
