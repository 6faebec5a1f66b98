------------------------- MODULE JournalQueriesProofs -------------------------
(***************************************************************************)
(* What clients are told of the journals is what happened: answers come    *)
(* after their requests, the active vault of an address is its current     *)
(* one, the vaults that may be liquidated are the contract's, and the      *)
(* history of an address adds up to its vault.                             *)
(***************************************************************************)
EXTENDS JournalQueries, EastReplicaProofs

-----------------------------------------------------------------------------
(* The order of signatures.                                                *)

\* A block is mined after the block it is mined on.
MinedOnOlder(st) == \A sig \in DOMAIN st : st[sig].parent < sig

LEMMA MinedOnOlderNext ==
  ASSUME IInv, MinedOnOlder(store), [Next]_vars PROVE MinedOnOlder(store')
<1>1. CASE store' = store
  BY <1>1
<1>2. CASE Mine
  <2> DEFINE tip == IF chain = <<>> THEN 0 ELSE chain[Len(chain)]
  <2>1. PICK b : store' = Append(store, b) /\ b.parent = tip
    BY <1>2 DEF Mine
  <2>2. store \in Seq(Block) /\ Len(store) \in Nat /\ DOMAIN store = 1 .. Len(store)
    BY DEF IInv, TypeOK
  <2>3. tip \in 0 .. Len(store)
    <3>1. chain \in Seq(Nat \ {0})
      BY DEF IInv, TypeOK
    <3>2. CASE chain = <<>>
      BY <2>2, <3>2
    <3>3. CASE chain # <<>>
      <4>1. Len(chain) \in DOMAIN chain
        BY <3>1, <3>3
      <4>2. chain[Len(chain)] \in DOMAIN store
        BY <4>1 DEF IInv, ChainOK
      <4> QED  BY <2>2, <3>3, <4>2
    <3> QED  BY <3>2, <3>3
  <2>4. \A sig \in DOMAIN Append(store, b) :
          \/ sig \in DOMAIN store /\ Append(store, b)[sig] = store[sig]
          \/ sig = Len(store) + 1 /\ Append(store, b)[sig] = b
    BY <2>2
  <2> QED  BY <2>1, <2>2, <2>3, <2>4 DEF MinedOnOlder
<1> QED  BY <1>1, <1>2, StoreGrows

(* So the blocks of a line were mined from the first one up.               *)
LEMMA LineInOrder ==
  ASSUME NEW st, NEW l, Line(st, l), MinedOnOlder(st),
         NEW g \in 1 .. Len(l), NEW h \in 1 .. Len(l), g < h
  PROVE  l[g] < l[h]
<1> DEFINE late == {k \in Nat : k \in 1 .. Len(l) /\ g < k /\ ~(l[g] < l[k])}
<1>1. l \in Seq(Nat \ {0}) /\ Len(l) \in Nat
  BY DEF Line
<1>2. \A k \in 1 .. Len(l) : l[k] \in Nat
  BY <1>1
<1> SUFFICES ASSUME ~(l[g] < l[h]) PROVE FALSE
  OBVIOUS
<1>3. h \in late
  BY <1>1
<1>4. PICK k \in late : \A j \in late : k <= j
  <2>1. late \in SUBSET Nat /\ late # {}
    BY <1>3
  <2> HIDE DEF late
  <2> QED  BY <2>1, LeastNatural
<1>5. k \in 2 .. Len(l) /\ k - 1 \in 1 .. Len(l) /\ k - 1 \in Nat
  BY <1>1, <1>4
<1>6. l[k - 1] < l[k]
  <2>1. k \in 1 .. Len(l) /\ k # 1
    BY <1>1, <1>5
  <2>2. l[k] \in DOMAIN st /\ st[l[k]].parent = l[k - 1]
    BY <2>1 DEF Line
  <2> QED  BY <2>2 DEF MinedOnOlder
<1>7. CASE k - 1 = g
  BY <1>4, <1>6, <1>7
<1>8. CASE k - 1 # g
  <2>1. g < k - 1
    BY <1>4, <1>5, <1>8
  <2>2. k - 1 \notin late
    BY <1>4, <1>5
  <2>3. l[g] < l[k - 1]
    BY <1>5, <2>1, <2>2
  <2>4. g \in Nat /\ k \in 1 .. Len(l)
    BY <1>1, <1>5
  <2>5. l[g] \in Nat /\ l[k - 1] \in Nat /\ l[k] \in Nat
    BY <1>2, <1>5, <2>4
  <2>6. ~(l[g] < l[k])
    BY <1>4
  <2> HIDE DEF late
  <2> QED  BY <1>6, <2>3, <2>5, <2>6
<1> QED  BY <1>7, <1>8

-----------------------------------------------------------------------------
(* Requests come before their answers.                                     *)

\* No block up to that of a request holds the answer to it.
AnswersLater(st, t) ==
    \A r \in t.txs : r.status = "init" =>
      \A b \in t.blocks : b.height = r.height =>
        \A sig \in DOMAIN st : \A i \in DOMAIN st[sig].calls :
          st[sig].calls[i].req.id = r.tx => b.sig < sig

LaterInv == /\ MinedOnOlder(store)
            /\ AnswersLater(store, db) /\ AnswersLater(store, trx.tables)

(* What is mined next comes after all that is stored.                      *)
LEMMA MiningComesLater ==
  ASSUME IInv, [Next]_vars, NEW t \in Visible, AnswersLater(store, t)
  PROVE  AnswersLater(store', t)
<1>1. CASE store' = store
  BY <1>1
<1>2. CASE Mine
  <2>1. PICK c : store' = Append(store, c)
    BY <1>2 DEF Mine
  <2>2. store \in Seq(Block) /\ Len(store) \in Nat /\ DOMAIN store = 1 .. Len(store)
    BY DEF IInv, TypeOK
  <2> DEFINE st == Append(store, c)
  <2>3. \A sig \in DOMAIN st : \/ sig \in DOMAIN store /\ st[sig] = store[sig]
                               \/ sig = Len(store) + 1
    BY <2>2
  <2>4. \A b \in t.blocks : b.sig \in 1 .. Len(store)
    BY <2>2 DEF IInv, SigsOK
  <2> HIDE DEF st
  <2>5. \A b \in t.blocks : b.sig < Len(store) + 1
    BY <2>2, <2>4
  <2>6. AnswersLater(st, t)
    BY <2>3, <2>5 DEF AnswersLater
  <2> QED  BY <2>1, <2>6 DEF st
<1> QED  BY <1>1, <1>2, StoreGrows

(* The answer to a request that is handled has not been mined.             *)
LEMMA AnswerNotMined ==
  ASSUME IInv, SentOK, CallsOK, CallsLeft, CurrentReq.type \in Inits,
         NEW sig \in DOMAIN store, NEW i \in DOMAIN store[sig].calls
  PROVE  store[sig].calls[i].req.id # AnswerId(CurrentReq)
<1>1. CurrentReq \in Requests
  BY CurrentOffered DEF Inits, ServiceTypes
<1>2. /\ \A s \in sent : s.id # AnswerId(CurrentReq)
      /\ AnswerId(CurrentReq)[2] = Cardinality(AnswersTo(sent, CurrentReq.id)) + 1
      /\ Cardinality(AnswersTo(sent, CurrentReq.id)) \in Nat
  BY <1>1, AnswerIdFresh
<1>3. store[sig].calls[i].req \in Requests \cup sent
  BY DEF CallsOK, CallsFrom
<1>4. \A r \in Requests : r.id[2] = 0
  BY ListenerAssumption
<1> QED  BY <1>2, <1>3, <1>4

LEMMA LogsCallLater ==
  ASSUME JournalInv, LaterInv, [Next]_vars, LogsCall
  PROVE  AnswersLater(store', trx'.tables)
<1>1. IInv /\ SentOK /\ CallsOK /\ SoundOK
  BY DEF JournalInv
<1>2. store' = store /\ CallsLeft
  BY DEF LogsCall
<1>3. CASE trx'.tables = trx.tables
  BY <1>2, <1>3 DEF LaterInv
<1>4. ASSUME NEW tx, NEW status,
             Logs(trx.tables, db, Current, Height, tx, status, trx'.tables),
             CurrentReq.type \in Inits => \/ status = "declined"
                                          \/ tx = AnswerId(CurrentReq)
      PROVE  AnswersLater(store', trx'.tables)
  <2>1. PICK N : /\ trx'.tables.txs = trx.tables.txs \cup N
                 /\ RowsOf(N, CurrentReq, Height, tx, status)
                 /\ trx'.tables.blocks = trx.tables.blocks
    BY <1>1, <1>2, <1>4, CurrentHandled, LogsEffect DEF SoundOK, CurrentReq
  <2>2. ASSUME NEW x \in N, x.status = "init"
        PROVE  \A sig \in DOMAIN store : \A i \in DOMAIN store[sig].calls :
                 store[sig].calls[i].req.id # x.tx
    <3>1. CurrentReq.type \in Inits /\ x.tx = tx /\ status = "init"
      BY <2>1, <2>2 DEF RowsOf, Inits
    <3>2. x.tx = AnswerId(CurrentReq)
      BY <1>4, <3>1
    <3> QED  BY <1>1, <1>2, <3>1, <3>2, AnswerNotMined
  <2> PICK T : T = trx'.tables
    OBVIOUS
  <2>3. AnswersLater(store, trx.tables)
    BY DEF LaterInv
  <2>4. AnswersLater(store, T)
    BY <2>1, <2>2, <2>3 DEF AnswersLater
  <2> QED  BY <1>2, <2>4
<1> QED  BY <1>3, <1>4 DEF LogsCall

LEMMA LaterInvNext ==
  ASSUME JournalInv, LaterInv, [Next]_vars PROVE LaterInv'
<1>1. IInv /\ SentOK /\ CallsOK /\ SoundOK
  BY DEF JournalInv
<1>2. MinedOnOlder(store')
  BY <1>1, MinedOnOlderNext DEF LaterInv
<1>3. AnswersLater(store', db) /\ AnswersLater(store', trx.tables)
  BY <1>1, MiningComesLater DEF LaterInv, Visible
<1> PICK st : st = store'
  OBVIOUS
<1>4. AnswersLater(st, EmptyTables)
  BY DEF AnswersLater, EmptyTables
<1>5. CASE Quiet
  BY <1>2, <1>3, <1>5 DEF Quiet, LaterInv
<1>6. CASE Leaves
  <2>1. db' = db /\ trx'.tables = EmptyTables
    BY <1>6 DEF Leaves, Exit, NoTrx
  <2> QED  BY <1>2, <1>3, <1>4, <2>1 DEF LaterInv
<1>7. CASE Deletes
  <2>1. PICK h \in Nat : db' = DeleteFrom(db, h)
    BY <1>7 DEF Deletes
  <2> DEFINE u == DeleteFrom(db, h)
  <2>2. u.txs \subseteq db.txs /\ u.blocks \subseteq db.blocks
    BY <1>1, DeleteFromSound DEF SoundOK
  <2> HIDE DEF u
  <2>3. AnswersLater(st, u)
    BY <1>3, <2>2 DEF AnswersLater
  <2>4. trx' = trx
    BY <1>7 DEF Deletes
  <2> QED  BY <1>2, <1>3, <2>1, <2>3, <2>4 DEF LaterInv, u
<1>8. CASE BeginBlock
  <2>1. PICK h, sig : /\ trx'.tables = SaveBlock(db, h, sig) /\ db' = db
                      /\ HeightsBelow(db, h)
    BY <1>1, <1>8, BeginFacts
  <2> PICK T : T = trx'.tables
    OBVIOUS
  <2>2. T.txs = db.txs /\ T.blocks = db.blocks \cup {[height |-> h, sig |-> sig]}
    BY <1>1, <2>1 DEF SaveBlock, IInv, TypeOK, Tables
  <2>3. \A row \in db.txs : row.height # h
    <3>1. db.blocks \subseteq BlockRow
      BY <1>1, TablesFields DEF IInv, TypeOK
    <3>2. \A b \in db.blocks : b.height # h
      BY <2>1, <3>1 DEF HeightsBelow, BlockRow
    <3> QED  BY <1>1, <3>2 DEF SoundOK, Sound, Good, Ordered
  <2>4. \A row \in db.txs : \A b \in T.blocks :
          b.height = row.height => b \in db.blocks
    BY <2>2, <2>3
  <2>5. AnswersLater(st, T)
    BY <1>3, <2>2, <2>4 DEF AnswersLater
  <2> QED  BY <1>2, <1>3, <2>1, <2>5 DEF LaterInv
<1>9. CASE LogsCall
  <2>1. db' = db
    BY <1>9 DEF LogsCall
  <2> QED  BY <1>2, <1>3, <1>9, <2>1, LogsCallLater DEF LaterInv
<1>10. CASE Commit
  <2>1. db' \in Visible /\ trx'.tables = EmptyTables
    BY <1>10 DEF Commit, NoTrx, Visible
  <2> QED  BY <1>2, <1>3, <1>4, <2>1 DEF LaterInv, Visible
<1> QED  BY <1>1, <1>5, <1>6, <1>7, <1>8, <1>9, <1>10, Shapes

LEMMA LaterInvInit == Init => LaterInv
BY DEF Init, LaterInv, MinedOnOlder, AnswersLater, NoTrx, EmptyTables

LEMMA LaterInvariant == Spec => [](BranchInv /\ LaterInv)
<1>1. BranchInv /\ LaterInv /\ [Next]_vars => LaterInv'
  BY LaterInvNext DEF BranchInv
<1> QED  BY <1>1, LaterInvInit, BranchInvInit, BranchInvNext, PTL DEF Spec

(* The entry of an answer comes from a block that holds the answer, and so *)
(* it is above the entry of the request.                                   *)
LEMMA AnswerAbove ==
  ASSUME BranchInv, LaterInv, NEW i \in db.txs, NEW e \in db.txs,
         i.status = "init", e.status = "executed", i.tx = e.tx
  PROVE  i.height < e.height
<1>1. IInv /\ SoundOK /\ MatchInv /\ db.txs \subseteq TxRow
  BY TablesFields DEF BranchInv, JournalInv, IInv, TypeOK
<1>2. Origin(e) = e.tx
  BY DEF BranchInv, KeysInv, Keyed, RowShape, Origin
<1>3. PICK c \in CallsIn(store, db.blocks) : KeyOf(e) \in Entries(c[1], c[2])
  <2>1. KeyOf(e) \in Keys(db)
    BY DEF Keys
  <2> QED  BY <1>1, <2>1 DEF MatchInv, Matches, Owed
<1>4. e.tx = c[1].id /\ e.height = c[2]
  <2>1. KeyOf(e)[1] = c[1].id /\ KeyOf(e)[4] = c[2]
    BY <1>3, EntriesOrigin, EntriesHeight
  <2> QED  BY <1>2, <2>1 DEF KeyOf
<1>5. PICK q \in db.blocks : \E k \in DOMAIN store[q.sig].calls :
        c = <<store[q.sig].calls[k].req, q.height>>
  BY <1>3 DEF CallsIn
<1>6. q.height = e.height /\ q.sig \in DOMAIN store
      /\ \E k \in DOMAIN store[q.sig].calls : store[q.sig].calls[k].req.id = i.tx
  <2>1. PICK k \in DOMAIN store[q.sig].calls :
          c = <<store[q.sig].calls[k].req, q.height>>
    BY <1>5
  <2>2. c[1] = store[q.sig].calls[k].req /\ c[2] = q.height
    BY <2>1
  <2>3. q.sig \in DOMAIN store
    BY <1>1 DEF IInv, SigsOK, Visible
  <2> QED  BY <1>4, <2>2, <2>3
<1>7. PICK p \in db.blocks : p.height = i.height
  BY <1>1 DEF SoundOK, Sound, Good, Ordered
<1>8. p.sig < q.sig
  BY <1>6, <1>7 DEF LaterInv, AnswersLater
<1>9. PICK l : Reached(store, db, trx, l)
  BY DEF BranchInv, BranchOK
<1>10. /\ i.height \in 1 .. Len(l) /\ l[i.height] = p.sig
       /\ e.height \in 1 .. Len(l) /\ l[e.height] = q.sig
  BY <1>6, <1>7, <1>9 DEF Reached
<1>11. i.height \in Nat /\ e.height \in Nat /\ p.sig \in Nat /\ q.sig \in Nat
  <2>1. db.blocks \subseteq BlockRow
    BY <1>1, TablesFields DEF IInv, TypeOK
  <2> QED  BY <1>1, <2>1 DEF TxRow, BlockRow
<1>12. CASE e.height < i.height
  <2>1. Line(store, l) /\ MinedOnOlder(store)
    BY <1>9 DEF Reached, GoodLine, LaterInv
  <2>2. q.sig < p.sig
    BY <1>10, <1>12, <2>1, LineInOrder
  <2> QED  BY <1>8, <1>11, <2>2
<1>13. CASE e.height = i.height
  BY <1>8, <1>10, <1>11, <1>13
<1> QED  BY <1>11, <1>12, <1>13

(* The pages list transactions of the table.                               *)
LEMMA ListedRows ==
  ASSUME NEW t, NEW a, NEW l \in AllTransactions(t, a)
  PROVE  \E tx : l = Listed(t, a, tx)
BY DEF AllTransactions, GetTransactions, Page, LastPer

LEMMA LaterIsListed ==
  ASSUME BranchInv, LaterInv PROVE AnswersFollowRequests
<1> SUFFICES ASSUME NEW a \in Addr, NEW l \in AllTransactions(db, a),
                    l.request # NoId, l.status = "executed"
             PROVE  l.initHeight < l.executedHeight
  BY DEF AnswersFollowRequests
<1>1. PICK tx : l = Listed(db, a, tx)
  BY ListedRows
<1> DEFINE init     == OfTx(db, a, tx, "init")
           executed == OfTx(db, a, tx, "executed")
           known    == The(IF executed # {} THEN executed ELSE init)
<1>2. /\ l.request = IF init = {} THEN NoId ELSE The(init).request
      /\ l.initHeight = IF init = {} THEN 0 ELSE The(init).height
      /\ l.executedHeight = known.height /\ l.status = known.status
  BY <1>1, Zenon DEF Listed
<1>3. \A x \in init : x \in db.txs /\ x.tx = tx /\ x.status = "init"
  BY DEF OfTx
<1>4. \A x \in executed : x \in db.txs /\ x.tx = tx /\ x.status = "executed"
  BY DEF OfTx
<1> HIDE DEF init, executed, known
<1>5. init # {} /\ The(init) \in init
  BY <1>2, TheIsElement
<1>6. executed # {} /\ known \in executed
  <2>1. executed # {}
    BY <1>2, <1>3, <1>5 DEF known
  <2> QED  BY <2>1, TheIsElement DEF known
<1>7. The(init).height < known.height
  BY <1>3, <1>4, <1>5, <1>6, AnswerAbove
<1> QED  BY <1>2, <1>5, <1>7

(* A call that is listed with its request was executed above it.           *)
THEOREM AnswersComeLater == Spec => []AnswersFollowRequests
BY LaterInvariant, LaterIsListed, PTL

-----------------------------------------------------------------------------
(* The vaults that may be liquidated.                                      *)

(* The last stored block is the highest of the line that is stored.        *)
LEMMA LastIsHighest ==
  ASSUME NEW st, NEW d, NEW l, Holds(st, d, l), d.blocks # {}
  PROVE  /\ The(LastBlock(d)) \in d.blocks
         /\ HeightsBelow(d, The(LastBlock(d)).height + 1)
<1>1. Len(l) \in Nat /\ d.blocks = {[height |-> h, sig |-> l[h]] : h \in 1 .. Len(l)}
  BY DEF Holds, GoodLine, Line
<1> DEFINE top == [height |-> Len(l), sig |-> l[Len(l)]]
<1>2. \A b \in d.blocks : b.height \in 1 .. Len(l)
  BY <1>1
<1>3. top \in d.blocks /\ top.height = Len(l)
  BY <1>1
<1>4. LastBlock(d) # {}
  BY <1>1, <1>2, <1>3 DEF LastBlock
<1>5. The(LastBlock(d)) \in LastBlock(d)
  BY <1>4, TheIsElement
<1> PICK b : b = The(LastBlock(d))
  OBVIOUS
<1>6. b \in d.blocks /\ \A c \in d.blocks : c.height <= b.height
  BY <1>5 DEF LastBlock
<1>7. HeightsBelow(d, b.height + 1)
  BY <1>1, <1>2, <1>6 DEF HeightsBelow
<1> QED  BY <1>6, <1>7

(* The tables show the vaults of the contract after the last stored block. *)
LEMMA ShownAtLast ==
  ASSUME NoRateRefused, ReplicaInv, NEW a \in Addr
  PROVE  VaultView(db, a) = StateAtLast.vaults[a]
<1>1. Sound(db) /\ History(store, db.blocks, db)
  BY DEF ReplicaInv, BranchInv, JournalInv, SoundOK, Shown
<1>2. CASE db.blocks = {}
  BY <1>1, <1>2, NothingShown DEF StateAtLast, Shows
<1>3. CASE db.blocks # {}
  <2>1. Holds(store, db, Stored(db))
    BY HeldLine
  <2> DEFINE b == The(LastBlock(db))
  <2>2. b \in db.blocks /\ HeightsBelow(db, b.height + 1)
    BY <1>3, <2>1, LastIsHighest
  <2> HIDE DEF b
  <2>3. Shows(db, Final(store[b.sig]))
    BY <1>1, <2>2, ShowsAll DEF History
  <2> QED  BY <1>3, <2>3 DEF b, StateAtLast, Shows
<1> QED  BY <1>2, <1>3

(* The current entry of an address is one row.                             *)
LEMMA OneCurrent ==
  ASSUME NEW t, Sound(t), NEW a, NEW v \in CurrentVault(t, a)
  PROVE  v \in t.vaults /\ v.address = a /\ VaultView(t, a) = v.vault
<1>1. \A x \in CurrentVault(t, a) :
        /\ x \in t.vaults /\ x.address = a
        /\ \A y \in CurrentVault(t, a) : y.id <= x.id
  BY DEF CurrentVault, LastById
<1>2. \A x \in t.vaults : x.id \in Nat
  BY IdsBelow DEF Sound
<1>3. \A x, y \in CurrentVault(t, a) : x = y
  BY <1>1, <1>2 DEF Sound, IdsUnique
<1>4. The(CurrentVault(t, a)) = v
  BY <1>3, TheIsElement
<1> QED  BY <1>1, <1>4 DEF VaultView

(* DISTINCT ON (address) gives the current entries.                        *)
LEMMA LastPerAddress ==
  ASSUME NEW t
  PROVE  LastPer("address", t.vaults)
           = {v \in t.vaults : v \in CurrentVault(t, v.address)}
BY DEF LastPer, CurrentVault, LastById

LEMMA LiquidatableIsContracts ==
  ASSUME NoRateRefused, ReplicaInv PROVE LiquidatableMatchesContract
<1> DEFINE Short(v, coef) ==
             v.active /\ v.west * coef < v.east * LiquidationCollateral
<1>1. Sound(db) /\ db.vaults \subseteq VaultRow
  BY TablesFields DEF ReplicaInv, BranchInv, JournalInv, SoundOK, Sound, Good
<1> SUFFICES ASSUME NEW coef \in Coefs
             PROVE  {v.address : v \in GetLiquidatableVaults(db, coef)} =
                    {a \in Addr : Short(StateAtLast.vaults[a], coef)}
  BY Zenon DEF LiquidatableMatchesContract
<1>2. GetLiquidatableVaults(db, coef)
        = {v \in db.vaults : v \in CurrentVault(db, v.address)
                             /\ Short(v.vault, coef)}
  BY LastPerAddress DEF GetLiquidatableVaults
<1>3. \A a \in Addr : VaultView(db, a) = StateAtLast.vaults[a]
  BY ShownAtLast
<1> HIDE DEF Short
<1>4. ASSUME NEW v \in GetLiquidatableVaults(db, coef)
      PROVE  v.address \in Addr /\ Short(StateAtLast.vaults[v.address], coef)
  <2>1. v \in db.vaults /\ v \in CurrentVault(db, v.address) /\ Short(v.vault, coef)
    BY <1>2
  <2>2. v.address \in Addr
    BY <1>1, <2>1 DEF VaultRow
  <2> QED  BY <1>1, <1>3, <2>1, <2>2, OneCurrent
<1>5. ASSUME NEW a \in Addr, Short(StateAtLast.vaults[a], coef)
      PROVE  \E v \in GetLiquidatableVaults(db, coef) : v.address = a
  <2>1. Short(VaultView(db, a), coef)
    BY <1>3, <1>5
  <2>2. CurrentVault(db, a) # {}
    BY <2>1 DEF Short, VaultView, NoVault
  <2>3. PICK v \in CurrentVault(db, a) : TRUE
    BY <2>2
  <2>4. v \in db.vaults /\ v.address = a /\ VaultView(db, a) = v.vault
    BY <1>1, OneCurrent
  <2> QED  BY <1>2, <2>1, <2>3, <2>4
<1> QED  BY <1>4, <1>5

(* A vault may be liquidated, by the tables, just when the contract holds  *)
(* it active and short of collateral.                                      *)
THEOREM LiquidatesTheContracts ==
  ASSUME NoRateRefused PROVE Spec => []LiquidatableMatchesContract
BY ReplicaInvInit, ReplicaInvNext, LiquidatableIsContracts, PTL DEF Spec

-----------------------------------------------------------------------------
(* The pages of the vaults.                                                *)

(* A table has as many rows as there are, and no more vaults than entries. *)
LEMMA FiniteTables ==
  ASSUME NEW t, Sound(t)
  PROVE  /\ IsFiniteSet(t.txs) /\ IsFiniteSet(t.vaults)
         /\ Cardinality(t.vaults) <= Cardinality(t.txs)
<1>1. /\ t.seq \in Nat
      /\ \A r \in t.txs \cup t.vaults : r.id \in Nat /\ r.id <= t.seq
  BY IdsBelow DEF Sound
<1>2. IsFiniteSet(t.txs)
  <2> DEFINE f == [r \in t.txs |-> r.id]
  <2>1. f \in Injection(t.txs, 0 .. t.seq)
    BY <1>1 DEF Injection, IsInjective, Sound, IdsUnique
  <2>2. IsFiniteSet(0 .. t.seq)
    BY <1>1, FS_Interval
  <2> QED  BY <2>1, <2>2, FS_Injection
<1>3. IsFiniteSet(t.vaults) /\ Cardinality(t.vaults) <= Cardinality(t.txs)
  <2> DEFINE g == [v \in t.vaults |-> CHOOSE r \in t.txs : r.id = v.id]
  <2>1. \A v \in t.vaults : \E r \in t.txs : r.id = v.id
    BY DEF Sound, Good, Ordered
  <2>2. \A v \in t.vaults : g[v] \in t.txs /\ g[v].id = v.id
    BY <2>1
  <2>3. g \in [t.vaults -> t.txs]
    BY <2>2
  <2>4. \A v, w \in t.vaults : g[v] = g[w] => v = w
    BY <2>2 DEF Sound, IdsUnique
  <2> HIDE DEF g
  <2>5. g \in Injection(t.vaults, t.txs)
    BY <2>3, <2>4 DEF Injection, IsInjective
  <2> QED  BY <1>2, <2>5, FS_Injection
<1> QED  BY <1>2, <1>3

(* A place in the order is on the page that the quotient names.            *)
LEMMA PlaceOnPage ==
  ASSUME NEW c \in Nat, NEW n \in Nat, c <= n, NEW p \in Nat \ {0}
  PROVE  \E k \in 0 .. n \div p : c \in k * p .. k * p + p - 1
<1> DEFINE k == c \div p
           m == n \div p
<1>1. /\ k \in Int /\ p * k <= c /\ c < p * k + p
      /\ m \in Int /\ p * m <= n /\ n < p * m + p
  BY SMT
<1> HIDE DEF k, m
<1>2. k >= 0
  BY <1>1, SMT
<1>3. k <= m
  <2> SUFFICES ASSUME k >= m + 1 PROVE FALSE
    BY <1>1
  <2>1. p * k >= p * (m + 1)
    BY <1>1, SMT
  <2>2. p * (m + 1) = p * m + p
    BY <1>1, SMT
  <2> QED  BY <1>1, <2>1, <2>2, SMT
<1>4. k * p = p * k /\ k * p \in Int
  BY <1>1, SMT
<1>5. k \in 0 .. m /\ c \in k * p .. k * p + p - 1
  BY <1>1, <1>2, <1>3, <1>4
<1> QED  BY <1>5 DEF k, m

(* Each of at most so many rows as the table has is on some page.          *)
LEMMA OnSomePage ==
  ASSUME NEW t, IsFiniteSet(t.txs), NEW key, NEW rows, IsFiniteSet(rows),
         Cardinality(rows) <= Cardinality(t.txs), NEW r \in rows
  PROVE  \E o \in Offsets(t) : r \in Page(key, rows, PageSize, o)
<1> DEFINE before == {q \in rows : Precedes(q[key], r[key])}
           c      == Cardinality(before)
<1>1. Cardinality(t.txs) \in Nat /\ Cardinality(rows) \in Nat
  BY FS_CardinalityType
<1>2. c \in Nat /\ c <= Cardinality(t.txs)
  <2>1. before \in SUBSET rows
    OBVIOUS
  <2> HIDE DEF before
  <2>2. c \in Nat /\ c <= Cardinality(rows)
    BY <2>1, FS_Subset, FS_CardinalityType
  <2> HIDE DEF c
  <2> QED  BY <1>1, <2>2
<1>3. PageSize \in Nat \ {0}
  BY QueriesAssumption
<1>4. PICK k \in 0 .. Cardinality(t.txs) \div PageSize :
        c \in k * PageSize .. k * PageSize + PageSize - 1
  <2> HIDE DEF c
  <2> QED  BY <1>1, <1>2, <1>3, PlaceOnPage
<1>5. k * PageSize \in Offsets(t)
  BY DEF Offsets
<1>6. r \in Page(key, rows, PageSize, k * PageSize)
  BY <1>4 DEF Page
<1> QED  BY <1>5, <1>6

(* The pages of the vaults of an address leave none out.                   *)
LEMMA PagesCover ==
  ASSUME NEW t, Sound(t), NEW a
  PROVE  AllVaults(t, a) = LastPer("vaultId", {v \in t.vaults : v.address = a})
<1> DEFINE rows == LastPer("vaultId", {v \in t.vaults : v.address = a})
<1>1. rows \in SUBSET t.vaults
  BY DEF LastPer
<1>2. /\ IsFiniteSet(t.txs) /\ IsFiniteSet(t.vaults)
      /\ Cardinality(t.vaults) <= Cardinality(t.txs)
      /\ Cardinality(t.vaults) \in Nat /\ Cardinality(t.txs) \in Nat
  BY FiniteTables, FS_CardinalityType
<1>3. \A o : GetVaults(t, a, PageSize, o) = Page("vaultId", rows, PageSize, o)
  BY DEF GetVaults
<1> HIDE DEF rows
<1>4. IsFiniteSet(rows) /\ Cardinality(rows) <= Cardinality(t.txs)
  <2>1. /\ IsFiniteSet(rows) /\ Cardinality(rows) \in Nat
        /\ Cardinality(rows) <= Cardinality(t.vaults)
    BY <1>1, <1>2, FS_Subset, FS_CardinalityType
  <2> QED  BY <1>2, <2>1
<1>5. ASSUME NEW r \in rows PROVE r \in AllVaults(t, a)
  BY <1>2, <1>3, <1>4, OnSomePage DEF AllVaults
<1>6. ASSUME NEW r \in AllVaults(t, a) PROVE r \in rows
  <2>1. PICK o \in Offsets(t) : r \in GetVaults(t, a, PageSize, o)
    BY DEF AllVaults
  <2> QED  BY <1>3, <2>1 DEF Page
<1> QED  BY <1>5, <1>6 DEF rows

-----------------------------------------------------------------------------
(* The active vault.                                                       *)

\* A vault is opened where there is none: the entry before that of a mint,
\* of its address, is not active.
Closed(t) ==
    \A m \in t.txs : m.type = "mint" =>
      \A v \in Before(t.vaults, m) : ~v.vault.active

(* So the last entry of a vault is active only if no other was opened      *)
(* since: between it and a later entry with another vault_id there would   *)
(* be a mint, and the first of these mints would follow an active entry.   *)
LEMMA ActiveIsLast ==
  ASSUME NEW t, Sound(t), Closed(t), NEW a,
         NEW v \in LastPer("vaultId", {x \in t.vaults : x.address = a}),
         v.vault.active
  PROVE  v \in CurrentVault(t, a)
<1> DEFINE mine  == {x \in t.vaults : x.address = a}
           since == {m \in t.txs : m.type = "mint" /\ m.address = a /\ v.id < m.id}
           ids   == {m.id : m \in since}
<1>1. \A r \in t.txs \cup t.vaults : r.id \in Nat
  BY IdsBelow DEF Sound
<1>2. v \in mine /\ \A x \in mine : x.vaultId = v.vaultId => x.id <= v.id
  BY DEF LastPer
<1>3. ASSUME NEW w \in mine, v.id < w.id
      PROVE  \E m \in since : m.id <= w.id
  <2>1. w.vaultId # v.vaultId
    BY <1>1, <1>2, <1>3
  <2>2. PICK m1 \in Mints(t, a, v.id) : v.vaultId = m1.tx
    BY <1>2 DEF Sound, NamesMints
  <2>3. PICK m2 \in Mints(t, a, w.id) : w.vaultId = m2.tx
    BY <1>3 DEF Sound, NamesMints
  <2>4. /\ m1 \in t.txs /\ m1.type = "mint" /\ m1.address = a /\ m1.id <= v.id
        /\ \A m \in t.txs : m.type = "mint" /\ m.address = a /\ m.id <= v.id
                              => m.id <= m1.id
    BY <2>2 DEF Mints, LastById
  <2>5. /\ m2 \in t.txs /\ m2.type = "mint" /\ m2.address = a /\ m2.id <= w.id
        /\ \A m \in t.txs : m.type = "mint" /\ m.address = a /\ m.id <= w.id
                              => m.id <= m2.id
    BY <2>3 DEF Mints, LastById
  <2>6. v.id \in Nat /\ w.id \in Nat /\ m1.id \in Nat /\ m2.id \in Nat
    BY <1>1, <1>2, <1>3, <2>4, <2>5
  <2>7. v.id < m2.id
    <3> SUFFICES ASSUME m2.id <= v.id PROVE FALSE
      BY <2>6
    <3>1. m2.id <= m1.id /\ m1.id <= m2.id
      BY <1>3, <2>4, <2>5, <2>6
    <3>2. m1 = m2
      BY <2>4, <2>5, <2>6, <3>1 DEF Sound, IdsUnique
    <3> QED  BY <2>1, <2>2, <2>3, <3>2
  <2> QED  BY <2>5, <2>7
<1> SUFFICES ASSUME NEW w \in mine, v.id < w.id PROVE FALSE
  BY <1>1, <1>2 DEF CurrentVault, LastById
<1>4. ids \in SUBSET Nat /\ ids # {}
  BY <1>1, <1>3
<1>5. PICK n \in ids : \A k \in ids : n <= k
  <2> HIDE DEF ids
  <2> QED  BY <1>4, LeastNatural
<1>6. PICK m \in since : m.id = n
  BY <1>5
<1>7. \A x \in mine : x.id < m.id => x.id <= v.id
  <2> SUFFICES ASSUME NEW x \in mine, x.id < m.id, v.id < x.id PROVE FALSE
    BY <1>1, <1>2
  <2>1. PICK k \in since : k.id <= x.id
    BY <1>3
  <2>2. m.id <= k.id
    BY <1>5, <1>6
  <2> QED  BY <1>1, <2>1, <2>2
<1>8. v \in Before(t.vaults, m)
  BY <1>2, <1>6, <1>7 DEF Before, LastById
<1> QED  BY <1>6, <1>8 DEF Closed

(* The handlers keep it: the contract accepts a mint where it holds no     *)
(* active vault, and the tables show what it holds.                        *)
LEMMA LogsClosed ==
  ASSUME NEW t, NEW c, NEW h, Handled(t, c, h), NEW committed \in Tables,
         NEW s, Executed(s, c), Shows(t, s), Closed(t),
         NEW tx, NEW status, NEW T, Logs(t, committed, c, h, tx, status, T)
  PROVE  Closed(T)
<1>1. Sound(t) /\ Newer(t, T, h)
  BY LogsShows DEF Handled
<1>2. PICK N : T.txs = t.txs \cup N /\ RowsOf(N, c.req, h, tx, status)
  BY LogsEffect
<1>3. t.seq \in Nat /\ \A r \in t.txs \cup t.vaults : r.id \in Nat /\ r.id <= t.seq
  BY <1>1, IdsBelow DEF Sound
<1>4. ASSUME NEW m \in t.txs PROVE Before(T.vaults, m) = Before(t.vaults, m)
  <2>1. {q \in T.vaults : q.address = m.address /\ q.id < m.id}
          = {q \in t.vaults : q.address = m.address /\ q.id < m.id}
    BY <1>1, <1>3 DEF Newer
  <2> QED  BY <2>1 DEF Before
<1>5. ASSUME NEW m \in N, m.type = "mint", NEW v \in Before(T.vaults, m)
      PROVE  ~v.vault.active
  <2>1. c.req.type = "mint" /\ m.address = c.req.address
    <3>1. KeyOf(m) \in Entries(c.req, h)
      BY <1>2 DEF RowsOf
    <3>2. KeyOf(m)[3] = c.req.type
      BY <3>1, EntriesType
    <3>3. c.req.type = "mint"
      BY <1>5, <3>2 DEF KeyOf
    <3>4. Entries(c.req, h) = {<<c.req.id, c.req.address, c.req.type, h>>}
      BY <3>3 DEF Entries, VaultTypes
    <3> QED  BY <3>1, <3>3, <3>4 DEF KeyOf
  <2> DEFINE row == ExecutedRow(t, c.req, c.req.address, h)
             u   == WithVault(t, c, h)
  <2>2. T = AddBalance(u, committed, NextId(t), c.req.address,
                       c.after.balances[c.req.address])
    BY <1>1, <2>1 DEF Logs, LogsVault, LogsTransfer, LogsRequest, LogsRate,
       LogsNothing, IsRate, JournalTypes, VaultTypes
  <2>3. /\ Sound(u) /\ u.txs = t.txs \cup {row}
        /\ \E d \in [west : Int, rwa : Int, east : Int], i \in Id :
             u.vaults = t.vaults \cup
               {[id |-> row.id, address |-> c.req.address,
                 vault |-> FiledVault(c), vaultId |-> i, diff |-> d]}
    BY <2>1, WithVaultSound DEF VaultTypes
  <2>4. row.id = t.seq + 1
    BY DEF ExecutedRow, NextId
  <2> HIDE DEF u, row
  <2>5. T.txs = u.txs /\ T.vaults = u.vaults
    BY <2>2, <2>3 DEF AddBalance, Sound, Good, Tables
  <2>6. PICK x : x.id = row.id /\ T.vaults = t.vaults \cup {x}
    BY <2>3, <2>5
  <2>7. m.id <= t.seq + 1
    <3>1. m \in t.txs \/ m = row
      BY <1>2, <2>3, <2>5
    <3> QED  BY <1>3, <2>4, <3>1
  <2>8. CASE m \in t.txs
    BY <1>4, <1>5, <2>8 DEF Closed
  <2>9. CASE m = row
    <3>1. {q \in T.vaults : q.address = m.address /\ q.id < m.id}
            = {q \in t.vaults : q.address = m.address}
      BY <1>3, <2>4, <2>6, <2>9
    <3>2. v \in CurrentVault(t, m.address)
      BY <1>5, <3>1 DEF Before, CurrentVault
    <3>3. VaultView(t, m.address) = v.vault
      BY <1>1, <3>2, OneCurrent
    <3>4. m.address \in Addr /\ ~s.vaults[m.address].active
      BY <2>1 DEF Handled, Call, Request, Executed, Accepts
    <3> QED  BY <3>3, <3>4 DEF Shows
  <2>10. m \in t.txs \/ m = row
    BY <1>2, <2>3, <2>5
  <2> QED  BY <2>8, <2>9, <2>10
<1>6. ASSUME NEW m \in T.txs, m.type = "mint", NEW v \in Before(T.vaults, m)
      PROVE  ~v.vault.active
  BY <1>2, <1>4, <1>5, <1>6 DEF Closed
<1> QED  BY <1>6 DEF Closed

(* A deletion keeps all that was before an entry it keeps.                 *)
LEMMA DeleteFromClosed ==
  ASSUME NEW t, Sound(t), Closed(t), NEW h \in Nat
  PROVE  Closed(DeleteFrom(t, h))
<1> DEFINE u == DeleteFrom(t, h)
<1>1. /\ u.txs \subseteq t.txs /\ u.vaults \subseteq t.vaults
      /\ \A v \in t.vaults : \A r \in u.txs : v.id <= r.id => v \in u.vaults
  BY DeleteFromSound
<1>2. \A r \in t.txs \cup t.vaults : r.id \in Nat
  BY IdsBelow DEF Sound
<1> HIDE DEF u
<1>3. ASSUME NEW m \in u.txs PROVE Before(u.vaults, m) = Before(t.vaults, m)
  <2>1. {q \in u.vaults : q.address = m.address /\ q.id < m.id}
          = {q \in t.vaults : q.address = m.address /\ q.id < m.id}
    BY <1>1, <1>2
  <2> QED  BY <2>1 DEF Before
<1>4. Closed(u)
  BY <1>1, <1>3 DEF Closed
<1> QED  BY <1>4 DEF u

ClosedInv == Closed(db) /\ Closed(trx.tables)

LEMMA LogsCallClosed ==
  ASSUME NoRateRefused, ReplicaInv, ClosedInv, [Next]_vars, LogsCall
  PROVE  Closed(trx'.tables)
<1>1. /\ JournalInv /\ BranchOK /\ ContractOK(store) /\ Shown(store, db, trx)
      /\ IInv /\ SoundOK
  BY DEF ReplicaInv, BranchInv, JournalInv
<1>2. CallsLeft
  BY DEF LogsCall
<1>3. CASE trx'.tables = trx.tables
  BY <1>3 DEF ClosedInv
<1>4. ASSUME NEW tx, NEW status,
             Logs(trx.tables, db, Current, Height, tx, status, trx'.tables)
      PROVE  Closed(trx'.tables)
  <2>1. Handled(trx.tables, Current, Height) /\ db \in Tables
    BY <1>1, <1>2, CurrentHandled DEF SoundOK
  <2>2. /\ trx.sig \in DOMAIN store /\ trx.sig # 0
        /\ trx.next \in DOMAIN store[trx.sig].calls
    <3>1. /\ InTrx /\ trx.sig \in DOMAIN store /\ trx.next \in Nat \ {0}
          /\ trx.next <= Len(store[trx.sig].calls) /\ store \in Seq(Block)
      BY <1>1, <1>2 DEF CallsLeft, IInv, TypeOK, TrxOK
    <3>2. store[trx.sig] \in Block
      BY <3>1
    <3>3. store[trx.sig].calls \in Seq(Call)
      BY <3>2 DEF Block
    <3> QED  BY <3>1, <3>3 DEF InTrx
  <2>3. Executed(StateAt(store, trx.sig, trx.next), Current)
    BY <1>1, <2>2 DEF ContractOK, Current
  <2>4. Shows(trx.tables, StateAt(store, trx.sig, trx.next))
    BY <1>1, <2>2 DEF Shown
  <2> QED  BY <1>4, <2>1, <2>3, <2>4, LogsClosed DEF ClosedInv
<1> QED  BY <1>3, <1>4 DEF LogsCall

LEMMA ClosedInvNext ==
  ASSUME NoRateRefused, ReplicaInv, ClosedInv, [Next]_vars PROVE ClosedInv'
<1>1. IInv /\ SentOK /\ CallsOK /\ SoundOK
  BY DEF ReplicaInv, BranchInv, JournalInv
<1>2. Closed(EmptyTables)
  BY DEF Closed, EmptyTables
<1>3. CASE Quiet
  BY <1>3 DEF Quiet, ClosedInv
<1>4. CASE Leaves
  BY <1>2, <1>4 DEF Leaves, Exit, NoTrx, ClosedInv
<1>5. CASE Deletes
  <2>1. PICK h \in Nat : db' = DeleteFrom(db, h)
    BY <1>5 DEF Deletes
  <2>2. Closed(DeleteFrom(db, h))
    BY <1>1, DeleteFromClosed DEF SoundOK, ClosedInv
  <2>3. trx' = trx
    BY <1>5 DEF Deletes
  <2> QED  BY <2>1, <2>2, <2>3 DEF ClosedInv
<1>6. CASE BeginBlock
  <2>1. PICK h, sig : trx'.tables = SaveBlock(db, h, sig) /\ db' = db
    BY <1>1, <1>6, BeginFacts
  <2> PICK T : T = trx'.tables
    OBVIOUS
  <2>2. T.txs = db.txs /\ T.vaults = db.vaults
    BY <1>1, <2>1 DEF SaveBlock, IInv, TypeOK, Tables
  <2>3. Closed(T)
    BY <2>2 DEF ClosedInv, Closed
  <2> QED  BY <2>1, <2>3 DEF ClosedInv
<1>7. CASE LogsCall
  <2>1. db' = db
    BY <1>7 DEF LogsCall
  <2> QED  BY <1>7, <2>1, LogsCallClosed DEF ClosedInv
<1>8. CASE Commit
  <2>1. db' \in {db, trx.tables} /\ trx'.tables = EmptyTables
    BY <1>8 DEF Commit, NoTrx
  <2> QED  BY <1>2, <2>1 DEF ClosedInv
<1> QED  BY <1>1, <1>3, <1>4, <1>5, <1>6, <1>7, <1>8, Shapes

(* The active one of the vaults that an address is shown is its current    *)
(* one.                                                                    *)
LEMMA ActiveIsShown ==
  ASSUME ReplicaInv, ClosedInv PROVE ActiveVaultIsCurrent
<1>1. Sound(db) /\ Closed(db)
  BY DEF ReplicaInv, BranchInv, JournalInv, SoundOK, ClosedInv
<1> SUFFICES ASSUME NEW a \in Addr
             PROVE  {v \in AllVaults(db, a) : v.vault.active}
                      = {v \in CurrentVault(db, a) : v.vault.active}
  BY DEF ActiveVaultIsCurrent
<1>2. AllVaults(db, a) = LastPer("vaultId", {v \in db.vaults : v.address = a})
  BY <1>1, PagesCover
<1>3. ASSUME NEW v \in AllVaults(db, a), v.vault.active
      PROVE  v \in CurrentVault(db, a)
  BY <1>1, <1>2, <1>3, ActiveIsLast
<1>4. CurrentVault(db, a) \subseteq AllVaults(db, a)
  BY <1>2 DEF CurrentVault, LastById, LastPer
<1> QED  BY <1>3, <1>4

(* Of the vaults that the pages show a client, the active one is the one   *)
(* that getCurrentVault gives.                                             *)
THEOREM ActiveVaultsAreCurrent ==
  ASSUME NoRateRefused PROVE Spec => []ActiveVaultIsCurrent
<1>1. Init => ReplicaInv /\ ClosedInv
  <2>1. Init => ClosedInv
    BY DEF Init, ClosedInv, Closed, EmptyTables, NoTrx
  <2> QED  BY <2>1, ReplicaInvInit
<1>2. ReplicaInv /\ ClosedInv /\ [Next]_vars => ReplicaInv' /\ ClosedInv'
  BY ReplicaInvNext, ClosedInvNext
<1> QED  BY <1>1, <1>2, ActiveIsShown, PTL DEF Spec

-----------------------------------------------------------------------------
(* Sums over finite sets.                                                  *)

(* The function that the fold of a sum over R is the value of.             *)
IsSum(sum, f, R) ==
    sum = [s \in SUBSET R |->
             IF s = {} THEN 0
             ELSE LET x == CHOOSE x \in s : TRUE IN f[x] + sum[s \ {x}]]

(* There is one: what is known for the sets of n elements gives it for the *)
(* sets of one more.                                                       *)
LEMMA SumExists ==
  ASSUME NEW R, IsFiniteSet(R), NEW f \in [R -> Int]
  PROVE  \E sum : IsSum(sum, f, R)
<1> DEFINE Pick(s) == CHOOSE x \in s : TRUE
           Small(n) == {s \in SUBSET R : Cardinality(s) <= n}
           Step(g, s) == IF s = {} THEN 0 ELSE f[Pick(s)] + g[s \ {Pick(s)}]
           Upto(n) == \E g \in [Small(n) -> Int] :
                        \A s \in Small(n) : g[s] = Step(g, s)
<1>1. \A s \in SUBSET R : /\ IsFiniteSet(s) /\ Cardinality(s) \in Nat
                          /\ Cardinality(s) <= Cardinality(R)
  BY FS_Subset, FS_CardinalityType
<1>2. ASSUME NEW s \in SUBSET R, s # {}
      PROVE  /\ Pick(s) \in s /\ s \ {Pick(s)} \in SUBSET R
             /\ Cardinality(s \ {Pick(s)}) = Cardinality(s) - 1
  <2>1. Pick(s) \in s
    BY <1>2
  <2> QED  BY <1>1, <2>1, FS_RemoveElement
<1> HIDE DEF Pick
<1>3. Upto(0)
  <2> DEFINE g == [s \in Small(0) |-> 0]
  <2>1. \A s \in Small(0) : s = {}
    <3> SUFFICES ASSUME NEW s \in SUBSET R, Cardinality(s) <= 0 PROVE s = {}
      OBVIOUS
    <3>1. Cardinality(s) = 0 /\ IsFiniteSet(s)
      BY <1>1
    <3> QED  BY <3>1, FS_EmptySet
  <2>2. g \in [Small(0) -> Int] /\ \A s \in Small(0) : g[s] = Step(g, s)
    BY <2>1
  <2> QED  BY <2>2
<1>4. ASSUME NEW n \in Nat, Upto(n) PROVE Upto(n + 1)
  <2> PICK g \in [Small(n) -> Int] : \A s \in Small(n) : g[s] = Step(g, s)
    BY <1>4
  <2> DEFINE h == [s \in Small(n + 1) |-> Step(g, s)]
  <2>1. ASSUME NEW s \in Small(n + 1), s # {}
        PROVE  /\ s \ {Pick(s)} \in Small(n)
               /\ f[Pick(s)] \in Int
    BY <1>1, <1>2, <2>1
  <2>2. ASSUME NEW s \in Small(n + 1) PROVE Step(g, s) \in Int
    BY <2>1, <2>2
  <2>3. Small(n) \subseteq Small(n + 1)
    BY <1>1
  <2>4. \A s \in Small(n) : h[s] = g[s]
    BY <2>3
  <2>5. ASSUME NEW s \in Small(n + 1) PROVE h[s] = Step(h, s)
    <3>1. h[s] = Step(g, s)
      OBVIOUS
    <3>2. s # {} => h[s \ {Pick(s)}] = g[s \ {Pick(s)}]
      BY <2>1, <2>4
    <3> HIDE DEF h
    <3> QED  BY <3>1, <3>2
  <2>6. h \in [Small(n + 1) -> Int]
    BY <2>2
  <2> QED  BY <2>5, <2>6
<1> HIDE DEF Upto
<1>5. \A n \in Nat : Upto(n)
  <2> DEFINE bad == {n \in Nat : ~Upto(n)}
  <2> SUFFICES ASSUME bad # {} PROVE FALSE
    OBVIOUS
  <2>1. PICK n \in bad : \A m \in bad : n <= m
    BY LeastNatural
  <2>2. n # 0 /\ n \in Nat
    BY <1>3
  <2>3. n - 1 \in Nat /\ n - 1 < n /\ (n - 1) + 1 = n
    BY <2>2
  <2>4. Upto(n - 1)
    BY <2>1, <2>3
  <2>5. Upto((n - 1) + 1)
    BY <1>4, <2>3, <2>4
  <2> QED  BY <2>3, <2>5
<1>6. Upto(Cardinality(R)) /\ Small(Cardinality(R)) = SUBSET R
  BY <1>1, <1>5, FS_CardinalityType
<1>7. PICK g \in [SUBSET R -> Int] : \A s \in SUBSET R : g[s] = Step(g, s)
  BY <1>6 DEF Upto
<1>8. g = [s \in SUBSET R |-> Step(g, s)]
  BY <1>7
<1>9. IsSum(g, f, R)
  BY <1>8 DEF IsSum, Pick
<1> QED  BY <1>9

(* Whatever the fold takes first, any element may be taken out first: of   *)
(* the sets for which that fails, one of the smallest has it both ways.    *)
LEMMA SumWithout ==
  ASSUME NEW R, IsFiniteSet(R), NEW f \in [R -> Int], NEW sum, IsSum(sum, f, R)
  PROVE  /\ sum[{}] = 0
         /\ \A s \in SUBSET R :
              /\ sum[s] \in Int
              /\ \A x \in s : sum[s] = f[x] + sum[s \ {x}]
<1> DEFINE Apart(s) == /\ sum[s] \in Int
                       /\ \A x \in s : sum[s] = f[x] + sum[s \ {x}]
           bad == {s \in SUBSET R : ~Apart(s)}
<1>1. sum[{}] = 0
  BY DEF IsSum
<1> SUFFICES ASSUME bad # {} PROVE FALSE
  BY <1>1
<1>2. \A s \in SUBSET R : IsFiniteSet(s) /\ Cardinality(s) \in Nat
  BY FS_Subset, FS_CardinalityType
<1>3. PICK s \in bad : \A u \in bad : Cardinality(s) <= Cardinality(u)
  <2> DEFINE sizes == {Cardinality(u) : u \in bad}
  <2>1. sizes \in SUBSET Nat /\ sizes # {}
    BY <1>2
  <2>2. PICK n \in sizes : \A m \in sizes : n <= m
    <3> HIDE DEF sizes
    <3> QED  BY <2>1, LeastNatural
  <2> QED  BY <2>2
<1>4. ASSUME NEW x \in s
      PROVE  s \ {x} \in SUBSET R /\ Apart(s \ {x})
  <2>1. Cardinality(s \ {x}) = Cardinality(s) - 1
    BY <1>2, FS_RemoveElement
  <2>2. s \in SUBSET R /\ s \ {x} \in SUBSET R
    OBVIOUS
  <2>3. Cardinality(s) \in Nat /\ ~(Cardinality(s) <= Cardinality(s \ {x}))
    BY <1>2, <2>1, <2>2
  <2> QED  BY <1>3, <2>2, <2>3
<1>5. s \in SUBSET R /\ s # {}
  <2>1. s \in SUBSET R /\ ~Apart(s)
    BY <1>3
  <2>2. Apart({})
    BY <1>1
  <2> HIDE DEF Apart
  <2> QED  BY <2>1, <2>2
<1> DEFINE c == CHOOSE x \in s : TRUE
<1>6. c \in s /\ sum[s] = f[c] + sum[s \ {c}]
  <2>1. c \in s
    BY <1>5
  <2> QED  BY <1>5, <2>1 DEF IsSum
<1> HIDE DEF c
<1>7. \A x \in s : f[x] \in Int
  OBVIOUS
<1>8. sum[s \ {c}] \in Int /\ sum[s] \in Int
  <2>1. sum[s \ {c}] \in Int
    BY <1>4, <1>6
  <2> QED  BY <1>6, <1>7, <2>1
<1>9. ASSUME NEW x \in s PROVE sum[s] = f[x] + sum[s \ {x}]
  <2>1. CASE x = c
    BY <1>6, <2>1
  <2>2. CASE x # c
    <3>1. Apart(s \ {c}) /\ Apart(s \ {x}) /\ x \in s \ {c} /\ c \in s \ {x}
      BY <1>4, <1>6, <2>2
    <3>2. sum[s \ {c}] = f[x] + sum[(s \ {c}) \ {x}]
      BY <3>1
    <3>3. sum[s \ {x}] = f[c] + sum[(s \ {x}) \ {c}]
      BY <3>1
    <3>4. (s \ {c}) \ {x} = (s \ {x}) \ {c}
      OBVIOUS
    <3>5. sum[(s \ {x}) \ {c}] \in Int
      <4>1. sum[s \ {x}] \in Int /\ f[c] \in Int
        BY <1>6, <1>7, <3>1
      <4>2. PICK u : u = (s \ {x}) \ {c}
        OBVIOUS
      <4>3. u \in SUBSET R
        BY <1>5, <4>2
      <4>4. Cardinality(s \ {x}) = Cardinality(s) - 1 /\ IsFiniteSet(s \ {x})
        BY <1>2, <1>5, FS_RemoveElement
      <4>5. Cardinality(u) = Cardinality(s \ {x}) - 1
        BY <3>1, <4>2, <4>4, FS_RemoveElement
      <4>6. Cardinality(s) \in Nat /\ ~(Cardinality(s) <= Cardinality(u))
        BY <1>2, <1>5, <4>4, <4>5
      <4>7. u \notin bad
        BY <1>3, <4>6
      <4> QED  BY <4>2, <4>3, <4>7
    <3>6. f[x] \in Int /\ f[c] \in Int
      BY <1>6, <1>7
    <3>7. \A i, j, r \in Int : i + (j + r) = j + (i + r)
      OBVIOUS
    <3>8. sum[s] = f[c] + (f[x] + sum[(s \ {x}) \ {c}])
      BY <1>6, <3>2, <3>4, Zenon
    <3>9. sum[s] = f[x] + (f[c] + sum[(s \ {x}) \ {c}])
      BY <3>5, <3>6, <3>7, <3>8, Zenon
    <3> QED  BY <3>3, <3>9, Zenon
  <2> QED  BY <2>1, <2>2
<1> QED  BY <1>8, <1>9

(* What the newest of some entries says, 0 of none.                        *)
AtLast(w, S) == IF LastById(S) = {} THEN 0 ELSE w[The(LastById(S))]

(* Each entry of V changes the value w by what f says of its element g of  *)
(* L; no other element says anything.                                      *)
Reports(L, f, V, w, g) ==
    /\ f \in [L -> Int] /\ w \in [V -> Int] /\ g \in [V -> L]
    /\ \A u, v \in V : g[u] = g[v] => u = v
    /\ \A l \in L : (\A v \in V : g[v] # l) => f[l] = 0
    /\ \A v \in V : f[g[v]] = w[v] - AtLast(w, {u \in V : u.id < v.id})

(* Then f adds up to the last value: take the elements of the newest       *)
(* entries out first.                                                      *)
LEMMA ChangesAddUp ==
  ASSUME NEW L, IsFiniteSet(L), NEW f, NEW sum, IsSum(sum, f, L),
         NEW V, NEW b \in Nat, \A v \in V : v.id \in Nat /\ v.id <= b,
         \A u, v \in V : u.id = v.id => u = v,
         NEW w, NEW g, Reports(L, f, V, w, g)
  PROVE  sum[L] = AtLast(w, V)
<1> USE DEF Reports
<1> DEFINE Under(s) == {v \in V : g[v] \in s}
           Whole(s) == \A v \in Under(s) : \A u \in V : u.id < v.id => u \in Under(s)
           bad == {s \in SUBSET L : Whole(s) /\ sum[s] # AtLast(w, Under(s))}
<1>1. Under(L) = V /\ Whole(L)
  OBVIOUS
<1> SUFFICES ASSUME bad # {} PROVE FALSE
  BY <1>1
<1>2. \A s \in SUBSET L : IsFiniteSet(s) /\ Cardinality(s) \in Nat
  BY FS_Subset, FS_CardinalityType
<1>3. PICK s \in bad : \A u \in bad : Cardinality(s) <= Cardinality(u)
  <2> DEFINE sizes == {Cardinality(u) : u \in bad}
  <2>1. sizes \in SUBSET Nat /\ sizes # {}
    <3>1. bad \subseteq SUBSET L
      OBVIOUS
    <3> HIDE DEF bad
    <3> QED  BY <1>2, <3>1
  <2>2. PICK n \in sizes : \A m \in sizes : n <= m
    <3> HIDE DEF sizes
    <3> QED  BY <2>1, LeastNatural
  <2> HIDE DEF bad
  <2> QED  BY <2>2
<1>4. /\ sum[{}] = 0
      /\ \A x \in s : sum[s] = f[x] + sum[s \ {x}]
  <2>1. f \in [L -> Int] /\ s \in SUBSET L
    OBVIOUS
  <2> HIDE DEF Reports, bad
  <2> QED  BY <2>1, SumWithout
<1>5. ASSUME NEW x \in s, Whole(s \ {x})
      PROVE  sum[s] = f[x] + AtLast(w, Under(s \ {x}))
  <2>1. Cardinality(s \ {x}) = Cardinality(s) - 1
    BY <1>2, FS_RemoveElement
  <2>2. s \in SUBSET L /\ s \ {x} \in SUBSET L
    OBVIOUS
  <2>3. Cardinality(s) \in Nat /\ ~(Cardinality(s) <= Cardinality(s \ {x}))
    BY <1>2, <2>1, <2>2
  <2>4. s \ {x} \notin bad
    BY <1>3, <2>3
  <2>5. sum[s \ {x}] = AtLast(w, Under(s \ {x}))
    BY <1>5, <2>2, <2>4
  <2> QED  BY <1>4, <2>5
<1>6. CASE Under(s) = {}
  <2>1. AtLast(w, Under(s)) = 0
    BY <1>6 DEF AtLast, LastById
  <2>2. CASE s = {}
    BY <1>4, <2>1, <2>2
  <2>3. ASSUME NEW x \in s PROVE FALSE
    <3>1. Under(s \ {x}) = {}
      BY <1>6
    <3>2. sum[s] = f[x] + AtLast(w, Under(s \ {x}))
      BY <1>5, <3>1
    <3>3. f[x] = 0
      BY <1>6
    <3>4. AtLast(w, Under(s \ {x})) = AtLast(w, Under(s))
      BY <1>6, <3>1
    <3>5. sum[s] # AtLast(w, Under(s))
      OBVIOUS
    <3> HIDE DEF bad, Under
    <3> QED  BY <2>1, <3>2, <3>3, <3>4, <3>5
  <2> QED  BY <2>2, <2>3
<1>7. CASE Under(s) # {}
  <2>1. PICK v \in Under(s) : \A u \in Under(s) : u.id <= v.id
    <3> DEFINE ids == {u.id : u \in Under(s)}
    <3>1. ids \in SUBSET Nat /\ ids # {} /\ \A i \in ids : i <= b
      BY <1>7
    <3>2. PICK i \in ids : \A j \in ids : j <= i
      <4> HIDE DEF ids
      <4> QED  BY <3>1, GreatestNatural
    <3> QED  BY <3>2
  <2>2. Under(s \ {g[v]}) = {u \in V : u.id < v.id}
    <3>1. v \in V /\ Whole(s)
      OBVIOUS
    <3>2. \A u \in V : u.id < v.id => u \in Under(s)
      BY <3>1
    <3>3. \A u \in Under(s) : u # v => u.id < v.id
      BY <2>1, <3>1
    <3>4. \A u \in V : u \in Under(s \ {g[v]}) <=> u \in Under(s) /\ u # v
      BY <3>1
    <3>5. \A u \in V : u.id < v.id => u # v
      OBVIOUS
    <3>6. Under(s \ {g[v]}) \subseteq V
      OBVIOUS
    <3> HIDE DEF bad, Under, Reports
    <3> QED  BY <3>2, <3>3, <3>4, <3>5, <3>6
  <2>3. Whole(s \ {g[v]})
    <3> SUFFICES ASSUME NEW x \in V, x.id < v.id, NEW u \in V, u.id < x.id
                 PROVE  u.id < v.id
      BY <2>2
    <3>1. u.id \in Nat /\ x.id \in Nat /\ v.id \in Nat
      OBVIOUS
    <3> HIDE DEF Reports, bad, Under
    <3> QED  BY <3>1
  <2>4. LastById(Under(s)) = {v}
    <3>1. \A u \in Under(s) : u.id \in Nat
      OBVIOUS
    <3>2. \A u \in Under(s) : v.id <= u.id => u = v
      BY <2>1, <3>1
    <3> HIDE DEF bad, Under, Reports
    <3> QED  BY <2>1, <3>1, <3>2 DEF LastById
  <2>5. AtLast(w, Under(s)) = w[v]
    BY <2>4 DEF AtLast, The
  <2>6. sum[s] = f[g[v]] + AtLast(w, {u \in V : u.id < v.id})
    BY <1>5, <2>1, <2>2, <2>3
  <2>7. AtLast(w, {u \in V : u.id < v.id}) \in Int
    <3>1. The(LastById({u \in V : u.id < v.id})) \in V
          \/ LastById({u \in V : u.id < v.id}) = {}
      BY DEF The, LastById
    <3> QED  BY <3>1 DEF AtLast
  <2> QED  BY <2>5, <2>6, <2>7
<1> QED  BY <1>6, <1>7

-----------------------------------------------------------------------------
(* The history of a vault.                                                 *)

\* An entry of a vault stands under the entry of a call that was executed,
\* of the same address.
VaultsOfExecuted(t) ==
    \A v \in t.vaults : \E e \in t.txs :
      e.id = v.id /\ e.address = v.address /\ e.status = "executed"

\* A handler files a vault under the entry of its own call.
LEMMA LogsVaultsOfExecuted ==
  ASSUME NEW t, NEW c, NEW h, Handled(t, c, h), VaultsOfExecuted(t),
         NEW committed \in Tables,
         NEW tx, NEW status, NEW T, Logs(t, committed, c, h, tx, status, T)
  PROVE  VaultsOfExecuted(T)
<1>1. t \in Tables
  BY DEF Handled, Sound, Good
<1>2. CASE LogsVault(t, committed, c, h, T)
  <2> DEFINE u   == WithVault(t, c, h)
             row == ExecutedRow(t, c.req, c.req.address, h)
  <2>1. /\ Sound(u) /\ u.txs = t.txs \cup {row}
        /\ \E d \in [west : Int, rwa : Int, east : Int], i \in Id :
             u.vaults = t.vaults \cup
               {[id |-> row.id, address |-> c.req.address,
                 vault |-> FiledVault(c), vaultId |-> i, diff |-> d]}
    BY <1>2, WithVaultSound DEF LogsVault
  <2>2. row.address = c.req.address /\ row.status = "executed"
    BY DEF ExecutedRow
  <2>3. T = u \/ \E a, e : T = AddBalance(u, committed, NextId(t), a, e)
    BY <1>2 DEF LogsVault
  <2> HIDE DEF u, row
  <2>4. T.txs = u.txs /\ T.vaults = u.vaults
    BY <2>1, <2>3 DEF AddBalance, Sound, Good, Tables
  <2>5. PICK x : x.id = row.id /\ x.address = c.req.address /\ u.vaults = t.vaults \cup {x}
    BY <2>1
  <2> QED  BY <2>1, <2>2, <2>4, <2>5 DEF VaultsOfExecuted
<1>3. CASE T.vaults = t.vaults /\ t.txs \subseteq T.txs
  BY <1>3 DEF VaultsOfExecuted
<1>4. CASE LogsTransfer(t, committed, c, h, T)
  <2>1. \A a : \A u \in {t, WithBalance(t, committed, c, c.req.sender, h)} :
          LET U == WithBalance(u, committed, c, a, h)
          IN  U.vaults = u.vaults /\ u.txs \subseteq U.txs
    BY <1>1 DEF WithBalance, AddBalance, InsertTx, Tables
  <2> QED  BY <1>3, <1>4, <2>1 DEF LogsTransfer
<1>5. CASE LogsRequest(t, c, h, tx, status, T)
  BY <1>1, <1>3, <1>5 DEF LogsRequest, InsertTx, Tables
<1>6. CASE LogsRate(t, c, h, T)
  BY <1>1, <1>3, <1>6 DEF LogsRate, SaveOracleRow, Tables
<1>7. CASE LogsNothing(t, c, T)
  BY <1>3, <1>7 DEF LogsNothing
<1> QED  BY <1>2, <1>4, <1>5, <1>6, <1>7 DEF Logs

\* A deletion keeps the entry above each vault that it keeps.
LEMMA DeleteFromVaultsOfExecuted ==
  ASSUME NEW t, Sound(t), VaultsOfExecuted(t), NEW h \in Nat
  PROVE  VaultsOfExecuted(DeleteFrom(t, h))
<1> DEFINE u == DeleteFrom(t, h)
<1>1. Sound(u) /\ u.txs \subseteq t.txs /\ u.vaults \subseteq t.vaults
  BY DeleteFromSound
<1> HIDE DEF u
<1>2. \A v \in u.vaults : \E r \in u.txs : r.id = v.id
  BY <1>1 DEF Sound, Good, Ordered
<1>3. \A p, q \in t.txs : p.id = q.id => p = q
  BY DEF Sound, IdsUnique
<1>4. VaultsOfExecuted(u)
  BY <1>1, <1>2, <1>3 DEF VaultsOfExecuted
<1> QED  BY <1>4 DEF u

VaultsInv == VaultsOfExecuted(db) /\ VaultsOfExecuted(trx.tables)

LEMMA VaultsInvNext ==
  ASSUME JournalInv, VaultsInv, [Next]_vars PROVE VaultsInv'
<1>1. IInv /\ SentOK /\ CallsOK /\ SoundOK
  BY DEF JournalInv
<1>2. VaultsOfExecuted(EmptyTables)
  BY DEF VaultsOfExecuted, EmptyTables
<1>3. CASE Quiet
  BY <1>3 DEF Quiet, VaultsInv
<1>4. CASE Leaves
  BY <1>2, <1>4 DEF Leaves, Exit, NoTrx, VaultsInv
<1>5. CASE Deletes
  <2>1. PICK h \in Nat : db' = DeleteFrom(db, h)
    BY <1>5 DEF Deletes
  <2>2. VaultsOfExecuted(DeleteFrom(db, h))
    BY <1>1, DeleteFromVaultsOfExecuted DEF SoundOK, VaultsInv
  <2>3. trx' = trx
    BY <1>5 DEF Deletes
  <2> QED  BY <2>1, <2>2, <2>3 DEF VaultsInv
<1>6. CASE BeginBlock
  <2>1. PICK h, sig : trx'.tables = SaveBlock(db, h, sig) /\ db' = db
    BY <1>1, <1>6, BeginFacts
  <2> PICK T : T = trx'.tables
    OBVIOUS
  <2>2. T.txs = db.txs /\ T.vaults = db.vaults
    BY <1>1, <2>1 DEF SaveBlock, IInv, TypeOK, Tables
  <2>3. VaultsOfExecuted(T)
    BY <2>2 DEF VaultsInv, VaultsOfExecuted
  <2> QED  BY <2>1, <2>3 DEF VaultsInv
<1>7. CASE LogsCall
  <2>1. db' = db /\ CallsLeft
    BY <1>7 DEF LogsCall
  <2>2. Handled(trx.tables, Current, Height) /\ db \in Tables
    BY <1>1, <2>1, CurrentHandled DEF SoundOK
  <2>3. PICK T : T = trx'.tables
    OBVIOUS
  <2>4. T = trx.tables \/ \E tx, status : Logs(trx.tables, db, Current, Height, tx, status, T)
    BY <1>7, <2>3 DEF LogsCall
  <2>5. VaultsOfExecuted(T)
    BY <2>2, <2>4, LogsVaultsOfExecuted DEF VaultsInv
  <2> QED  BY <2>1, <2>3, <2>5 DEF VaultsInv
<1>8. CASE Commit
  <2>1. db' \in {db, trx.tables} /\ trx'.tables = EmptyTables
    BY <1>8 DEF Commit, NoTrx
  <2> QED  BY <1>2, <2>1 DEF VaultsInv
<1> QED  BY <1>1, <1>3, <1>4, <1>5, <1>6, <1>7, <1>8, Shapes

(* The entries of an address that its pages list.                          *)
NotDeclined(t, a) == {r \in t.txs : r.address = a /\ r.status # "declined"}

(* The pages of the transactions of an address leave none out.             *)
LEMMA TransactionsCover ==
  ASSUME NEW t, Sound(t), NEW a
  PROVE  /\ AllTransactions(t, a) = {Listed(t, a, r.tx) : r \in NotDeclined(t, a)}
         /\ IsFiniteSet(AllTransactions(t, a))
<1> DEFINE S    == NotDeclined(t, a)
           rows == LastPer("tx", S)
<1>1. rows \subseteq S /\ S \subseteq t.txs
  BY DEF LastPer, NotDeclined
<1>2. IsFiniteSet(t.txs) /\ t.seq \in Nat
      /\ \A r \in t.txs : r.id \in Nat /\ r.id <= t.seq
  BY FiniteTables, IdsBelow DEF Sound
<1>3. IsFiniteSet(S) /\ IsFiniteSet(rows) /\ Cardinality(rows) <= Cardinality(t.txs)
  <2>1. rows \in SUBSET t.txs /\ S \in SUBSET t.txs
    BY <1>1
  <2> HIDE DEF rows, S
  <2> QED  BY <1>2, <2>1, FS_Subset
<1>4. \A o : GetTransactions(t, a, PageSize, o)
               = {Listed(t, a, r.tx) : r \in Page("tx", rows, PageSize, o)}
  BY DEF GetTransactions, NotDeclined
<1>5. ASSUME NEW r \in S PROVE \E q \in rows : q.tx = r.tx
  <2> DEFINE ids == {q.id : q \in {q \in S : q.tx = r.tx}}
  <2>1. ids \in SUBSET Nat /\ ids # {} /\ \A i \in ids : i <= t.seq
    BY <1>1, <1>2
  <2>2. PICK i \in ids : \A j \in ids : j <= i
    <3> HIDE DEF ids
    <3> QED  BY <1>2, <2>1, GreatestNatural
  <2>3. PICK q \in S : q.tx = r.tx /\ q.id = i
    BY <2>2
  <2>4. \A p \in S : p["tx"] = q["tx"] => p.id <= q.id
    BY <2>2, <2>3
  <2> QED  BY <2>3, <2>4 DEF LastPer
<1> HIDE DEF rows, S
<1>6. ASSUME NEW l \in AllTransactions(t, a)
      PROVE  \E r \in S : l = Listed(t, a, r.tx)
  <2>1. PICK o \in Offsets(t) : l \in GetTransactions(t, a, PageSize, o)
    BY DEF AllTransactions
  <2>2. Page("tx", rows, PageSize, o) \subseteq rows
    BY DEF Page
  <2> QED  BY <1>1, <1>4, <2>1, <2>2
<1>7. ASSUME NEW r \in S PROVE Listed(t, a, r.tx) \in AllTransactions(t, a)
  <2>1. PICK q \in rows : q.tx = r.tx
    BY <1>5
  <2>2. PICK o \in Offsets(t) : q \in Page("tx", rows, PageSize, o)
    BY <1>2, <1>3, OnSomePage
  <2>3. Listed(t, a, q.tx) \in GetTransactions(t, a, PageSize, o)
    BY <1>4, <2>2
  <2> QED  BY <2>1, <2>2, <2>3 DEF AllTransactions
<1>8. AllTransactions(t, a) = {Listed(t, a, r.tx) : r \in S}
  BY <1>6, <1>7
<1>9. IsFiniteSet(AllTransactions(t, a))
  <2> DEFINE A == AllTransactions(t, a)
             f == [r \in S |-> Listed(t, a, r.tx)]
  <2>1. f \in Surjection(S, A)
    BY <1>8 DEF Surjection
  <2> HIDE DEF A, f
  <2> QED  BY <1>3, <2>1, FS_Surjection DEF A
<1> QED  BY <1>8, <1>9 DEF S

(* A transaction is listed with the change of the entry that stands under  *)
(* its execution, and with 0 if there is none.                             *)
LEMMA ListedChange ==
  ASSUME NEW t, Sound(t), Keyed(t), NEW a, NEW tx, NEW key \in {"west", "rwa"}
  PROVE  /\ \A v \in t.vaults : \A e \in OfTx(t, a, tx, "executed") :
              v.id = e.id => Listed(t, a, tx)[key] = v.diff[key]
         /\ \/ Listed(t, a, tx)[key] = 0
            \/ \E v \in t.vaults : \E e \in OfTx(t, a, tx, "executed") :
                 v.id = e.id
         /\ Listed(t, a, tx).tx = tx
<1> DEFINE executed == OfTx(t, a, tx, "executed")
           vault    == {v \in t.vaults : \E r \in executed : v.id = r.id}
<1>1. /\ Listed(t, a, tx)[key] = IF vault = {} THEN 0 ELSE The(vault).diff[key]
      /\ Listed(t, a, tx).tx = tx
  BY DEF Listed
<1>2. \A p, q \in executed : p = q
  BY DEF OfTx, Keyed, SameKey
<1>3. \A p, q \in t.vaults : p.id = q.id => p = q
  BY DEF Sound, IdsUnique
<1> HIDE DEF executed
<1>4. ASSUME NEW v \in t.vaults, NEW e \in executed, v.id = e.id
      PROVE  vault = {v}
  BY <1>2, <1>3, <1>4
<1>5. ASSUME NEW v \in t.vaults, NEW e \in executed, v.id = e.id
      PROVE  Listed(t, a, tx)[key] = v.diff[key]
  <2>1. vault = {v}
    BY <1>4, <1>5
  <2> HIDE DEF vault
  <2>2. The(vault) = v
    BY <2>1 DEF The
  <2> QED  BY <1>1, <2>1, <2>2
<1>6. CASE vault = {}
  <2>1. Listed(t, a, tx)[key] = 0
    <3> HIDE DEF vault
    <3> QED  BY <1>1, <1>6
  <2> QED  BY <1>1, <1>5, <2>1 DEF executed
<1>7. CASE vault # {}
  <2>1. \E v \in t.vaults : \E e \in executed : v.id = e.id
    BY <1>7
  <2> QED  BY <1>1, <1>5, <2>1 DEF executed
<1> QED  BY <1>6, <1>7

(* These changes are numbers.                                              *)
LEMMA ListedInt ==
  ASSUME NEW t, Sound(t), Keyed(t), NEW a, NEW l \in AllTransactions(t, a)
  PROVE  l["west"] \in Int /\ l["rwa"] \in Int
<1>1. PICK tx : l = Listed(t, a, tx)
  BY ListedRows
<1>2. ASSUME NEW v \in t.vaults PROVE v.diff["west"] \in Int /\ v.diff["rwa"] \in Int
  <2>1. t.vaults \subseteq VaultRow
    BY TablesFields DEF Sound, Good
  <2> QED  BY <2>1 DEF VaultRow
<1>3. ASSUME NEW key \in {"west", "rwa"} PROVE l[key] \in Int
  BY <1>1, <1>2, ListedChange
<1> QED  BY <1>3

(* The changes that an address is shown add up to its vault.               *)
LEMMA ListedAddUp ==
  ASSUME NEW t, Sound(t), Keyed(t), VaultsOfExecuted(t), NEW a,
         NEW key \in {"west", "rwa"}, NEW sum, NEW f,
         f = [l \in AllTransactions(t, a) |-> l[key]],
         IsSum(sum, f, AllTransactions(t, a))
  PROVE  sum[AllTransactions(t, a)] = VaultView(t, a)[key]
<1> DEFINE L == AllTransactions(t, a)
           V == {v \in t.vaults : v.address = a}
           w == [v \in V |-> v.vault[key]]
           Entry(v) == CHOOSE e \in t.txs :
                         e.id = v.id /\ e.address = a /\ e.status = "executed"
           g == [v \in V |-> Listed(t, a, Entry(v).tx)]
<1>1. L = {Listed(t, a, r.tx) : r \in NotDeclined(t, a)} /\ IsFiniteSet(L)
  BY TransactionsCover
<1>2. ASSUME NEW v \in V
      PROVE  /\ Entry(v) \in OfTx(t, a, Entry(v).tx, "executed")
             /\ Entry(v).id = v.id /\ Entry(v) \in NotDeclined(t, a)
  <2>1. \E e \in t.txs : e.id = v.id /\ e.address = a /\ e.status = "executed"
    BY DEF VaultsOfExecuted
  <2>2. /\ Entry(v) \in t.txs /\ Entry(v).id = v.id /\ Entry(v).address = a
        /\ Entry(v).status = "executed"
    BY <2>1
  <2> HIDE DEF Entry
  <2> QED  BY <2>2 DEF OfTx, NotDeclined
<1>3. /\ t.seq \in Nat /\ \A v \in V : v.id \in Nat /\ v.id <= t.seq
      /\ \A u, v \in V : u.id = v.id => u = v
  BY IdsBelow DEF Sound, IdsUnique
<1>4. \A v \in V : v.vault[key] \in Int /\ v.diff[key] \in Int
  <2>1. t.vaults \subseteq VaultRow
    BY TablesFields DEF Sound, Good
  <2> QED  BY <2>1 DEF VaultRow, Vault
<1> HIDE DEF Entry
<1>5. ASSUME NEW v \in V
      PROVE  /\ g[v] \in L /\ g[v].tx = Entry(v).tx /\ g[v][key] = v.diff[key]
  <2>1. g[v] = Listed(t, a, Entry(v).tx)
    OBVIOUS
  <2> HIDE DEF g
  <2> QED  BY <1>1, <1>2, <2>1, ListedChange
<1>6. \A u, v \in V : g[u] = g[v] => u = v
  <2> SUFFICES ASSUME NEW u \in V, NEW v \in V, g[u] = g[v] PROVE u = v
    OBVIOUS
  <2>1. Entry(u).tx = Entry(v).tx
    BY <1>5
  <2>2. Entry(u) = Entry(v)
    BY <1>2, <2>1 DEF Keyed, SameKey, OfTx
  <2> QED  BY <1>2, <1>3, <2>2
<1>7. ASSUME NEW l \in L
      PROVE  /\ l[key] \in Int
             /\ (\A v \in V : g[v] # l) => l[key] = 0
  <2>1. PICK r \in NotDeclined(t, a) : l = Listed(t, a, r.tx)
    BY <1>1
  <2>2. CASE l[key] = 0
    BY <2>2
  <2>3. ASSUME NEW v \in t.vaults, NEW e \in OfTx(t, a, r.tx, "executed"),
               v.id = e.id
        PROVE  v \in V /\ g[v] = l
    <3>1. PICK x \in t.txs : x.id = v.id /\ x.address = v.address
      BY DEF VaultsOfExecuted
    <3>2. e \in t.txs /\ e.tx = r.tx /\ e.address = a /\ e.status = "executed"
      BY DEF OfTx
    <3>3. x = e
      BY <2>3, <3>1, <3>2 DEF Sound, IdsUnique
    <3>4. v \in V
      BY <3>1, <3>2, <3>3
    <3>5. Entry(v) = e
      BY <1>2, <2>3, <3>2, <3>4 DEF Sound, IdsUnique, OfTx
    <3> QED  BY <2>1, <3>2, <3>4, <3>5
  <2>4. \/ l[key] = 0
        \/ \E v \in t.vaults : \E e \in OfTx(t, a, r.tx, "executed") : v.id = e.id
    BY <2>1, ListedChange
  <2> HIDE DEF g
  <2>5. l[key] = 0 \/ \E v \in V : g[v] = l
    BY <2>3, <2>4
  <2>6. \A v \in V : g[v] = l => l[key] \in Int
    BY <1>4, <1>5
  <2> HIDE DEF V
  <2> QED  BY <2>5, <2>6
<1>8. ASSUME NEW v \in V
      PROVE  v.diff[key] = v.vault[key] - AtLast(w, {u \in V : u.id < v.id})
  <2> DEFINE S == {u \in V : u.id < v.id}
  <2>1. Before(t.vaults, v) = LastById(S)
    <3>1. {q \in t.vaults : q.address = v.address /\ q.id < v.id} = S
      OBVIOUS
    <3> QED  BY <3>1 DEF Before
  <2>2. LastById(S) # {} => The(LastById(S)) \in V
    BY TheIsElement DEF LastById
  <2>3. AtLast(w, S) = IF LastById(S) = {} THEN 0 ELSE The(LastById(S)).vault[key]
    BY <2>2 DEF AtLast
  <2> HIDE DEF S
  <2> PICK old : old = IF LastById(S) = {} THEN NoVault
                       ELSE The(LastById(S)).vault
    OBVIOUS
  <2>4. v.diff = [west |-> v.vault.west - old.west,
                  rwa  |-> v.vault.rwa - old.rwa,
                  east |-> v.vault.east - old.east]
    BY <2>1 DEF Sound, Telescopes
  <2>5. v.diff[key] = v.vault[key] - old[key]
    BY <2>4
  <2>6. NoVault[key] = 0
    BY DEF NoVault
  <2> HIDE DEF w
  <2> QED  BY <2>3, <2>5, <2>6 DEF S
<1>9. VaultView(t, a)[key] = AtLast(w, V)
  <2>1. CurrentVault(t, a) = LastById(V)
    BY DEF CurrentVault
  <2>2. LastById(V) # {} => The(LastById(V)) \in V
    BY TheIsElement DEF LastById
  <2>3. AtLast(w, V) = IF LastById(V) = {} THEN 0 ELSE The(LastById(V)).vault[key]
    BY <2>2 DEF AtLast
  <2>4. VaultView(t, a) = IF LastById(V) = {} THEN NoVault
                          ELSE The(LastById(V)).vault
    BY <2>1 DEF VaultView
  <2>5. NoVault[key] = 0
    BY DEF NoVault
  <2> HIDE DEF V, w
  <2> QED  BY <2>3, <2>4, <2>5
<1>10. /\ f \in [L -> Int] /\ \A l \in L : f[l] = l[key]
       /\ w \in [V -> Int] /\ \A v \in V : w[v] = v.vault[key]
       /\ g \in [V -> L]
  BY <1>4, <1>5, <1>7
<1>11. \A v \in V : f[g[v]] = w[v] - AtLast(w, {u \in V : u.id < v.id})
  BY <1>5, <1>8, <1>10
<1>12. \A l \in L : (\A v \in V : g[v] # l) => f[l] = 0
  BY <1>7, <1>10
<1>13. IsSum(sum, f, L)
  OBVIOUS
<1> HIDE DEF L, V, w, g
<1>14. Reports(L, f, V, w, g)
  BY <1>6, <1>10, <1>11, <1>12 DEF Reports
<1>15. sum[L] = AtLast(w, V)
  BY <1>1, <1>3, <1>13, <1>14, ChangesAddUp
<1> QED  BY <1>9, <1>15 DEF L

(* The folds of the model are such sums.                                   *)
LEMMA FoldsAreSums ==
  ASSUME NEW R, IsFiniteSet(R), \A l \in R : l.west \in Int /\ l.rwa \in Int
  PROVE  /\ \E sum : /\ IsSum(sum, [l \in R |-> l["west"]], R)
                     /\ Sets!MapThenSumSet(West, R) = sum[R]
         /\ \E sum : /\ IsSum(sum, [l \in R |-> l["rwa"]], R)
                     /\ Sets!MapThenSumSet(Rwa, R) = sum[R]
<1>1. ASSUME NEW f, f = [l \in R |-> l.west]
      PROVE  \E sum : IsSum(sum, f, R) /\ Sets!MapThenSumSet(West, R) = sum[R]
  <2> DEFINE IsFold(sum) ==
               sum = [s \in SUBSET R |->
                        IF s = {} THEN 0
                        ELSE LET x == CHOOSE x \in s : TRUE
                             IN  x.west + sum[s \ {x}]]
             iter == CHOOSE sum : IsFold(sum)
  <2>1. Sets!MapThenSumSet(West, R) = iter[R]
    BY DEF Sets!MapThenSumSet, Sets!MapThenFoldSet, West
  <2>2. \A sum : IsSum(sum, f, R) <=> IsFold(sum)
    <3> SUFFICES ASSUME NEW sum, NEW s \in SUBSET R, s # {}
                 PROVE  f[CHOOSE x \in s : TRUE] = (CHOOSE x \in s : TRUE).west
      BY DEF IsSum
    <3> QED  BY <1>1
  <2>3. \E sum : IsSum(sum, f, R)
    BY <1>1, SumExists
  <2> HIDE DEF IsFold
  <2>4. IsSum(iter, f, R)
    BY <2>2, <2>3
  <2> HIDE DEF iter
  <2> QED  BY <2>1, <2>4
<1>2. ASSUME NEW f, f = [l \in R |-> l.rwa]
      PROVE  \E sum : IsSum(sum, f, R) /\ Sets!MapThenSumSet(Rwa, R) = sum[R]
  <2> DEFINE IsFold(sum) ==
               sum = [s \in SUBSET R |->
                        IF s = {} THEN 0
                        ELSE LET x == CHOOSE x \in s : TRUE
                             IN  x.rwa + sum[s \ {x}]]
             iter == CHOOSE sum : IsFold(sum)
  <2>1. Sets!MapThenSumSet(Rwa, R) = iter[R]
    BY DEF Sets!MapThenSumSet, Sets!MapThenFoldSet, Rwa
  <2>2. \A sum : IsSum(sum, f, R) <=> IsFold(sum)
    <3> SUFFICES ASSUME NEW sum, NEW s \in SUBSET R, s # {}
                 PROVE  f[CHOOSE x \in s : TRUE] = (CHOOSE x \in s : TRUE).rwa
      BY DEF IsSum
    <3> QED  BY <1>2
  <2>3. \E sum : IsSum(sum, f, R)
    BY <1>2, SumExists
  <2> HIDE DEF IsFold
  <2>4. IsSum(iter, f, R)
    BY <2>2, <2>3
  <2> HIDE DEF iter
  <2> QED  BY <2>1, <2>4
<1> QED  BY <1>1, <1>2

(* Both sums of HistoryAddsUp, in one state.                               *)
LEMMA HistoryIsWhole ==
  ASSUME BranchInv, VaultsInv PROVE HistoryAddsUp
<1>1. Sound(db) /\ Keyed(db) /\ VaultsOfExecuted(db)
  BY DEF BranchInv, JournalInv, SoundOK, KeysInv, VaultsInv
<1> SUFFICES ASSUME NEW a \in Addr
             PROVE  /\ Sets!MapThenSumSet(West, AllTransactions(db, a))
                         = VaultView(db, a).west
                    /\ Sets!MapThenSumSet(Rwa, AllTransactions(db, a))
                         = VaultView(db, a).rwa
  BY DEF HistoryAddsUp
<1> DEFINE all == AllTransactions(db, a)
<1>2. IsFiniteSet(all)
  BY <1>1, TransactionsCover
<1>3. \A l \in all : l["west"] \in Int /\ l["rwa"] \in Int
  BY <1>1, ListedInt
<1>4. PICK sum : /\ IsSum(sum, [l \in all |-> l["west"]], all)
                 /\ Sets!MapThenSumSet(West, all) = sum[all]
  <2> HIDE DEF all
  <2> QED  BY <1>2, <1>3, FoldsAreSums
<1>5. PICK other : /\ IsSum(other, [l \in all |-> l["rwa"]], all)
                   /\ Sets!MapThenSumSet(Rwa, all) = other[all]
  <2> HIDE DEF all
  <2> QED  BY <1>2, <1>3, FoldsAreSums
<1> QED  BY <1>1, <1>4, <1>5, ListedAddUp

(* The changes that the pages of a client show add up to the vault it is   *)
(* shown.                                                                  *)
THEOREM HistoryIsComplete == Spec => []HistoryAddsUp
<1>1. Init => VaultsInv
  BY DEF Init, VaultsInv, VaultsOfExecuted, EmptyTables, NoTrx
<1>2. BranchInv /\ VaultsInv /\ [Next]_vars => VaultsInv'
  BY VaultsInvNext DEF BranchInv
<1> QED  BY <1>1, <1>2, BranchInvInit, BranchInvNext, HistoryIsWhole, PTL DEF Spec
=============================================================================
