-------------------------- MODULE EastListenerProps --------------------------
(***************************************************************************)
(* What is required of the listener: of the journals it writes, of the     *)
(* payouts it broadcasts, and of the way it follows the node.              *)
(***************************************************************************)
EXTENDS EastListener

\* The two contents of the tables that a statement can meet.
Visible == {db, trx.tables}

-----------------------------------------------------------------------------
(* The keys of the tables.                                                 *)

SameKey(p, q) ==
    \/ p.id = q.id
    \/ p.tx = q.tx /\ p.address = q.address /\ p.status = q.status
    \/ p.request = q.request /\ p.request # NoId

(* No handler goes on after an INSERT that a primary key or a UNIQUE of    *)
(* the migration refuses: replays after a crash or a rollback, two entries *)
(* for one call and two answers to one request never collide, but for the  *)
(* transfer to oneself, which Throws names.                                *)
KeysHold ==
    \A t \in Visible :
      /\ \A p, q \in t.txs : SameKey(p, q) => p = q
      /\ \A p, q \in t.vaults : p.id = q.id => p = q
      /\ \A p, q \in t.balances : p.id = q.id => p = q
      /\ \A p, q \in t.blocks : p.height = q.height \/ p.sig = q.sig => p = q

(* The foreign keys hold, and ids grow with heights: "the last entry" of   *)
(* README.md:6 is the entry of the newest block, also after rollbacks and  *)
(* replays, although ids are drawn from a counter that knows nothing of    *)
(* heights.                                                                *)
LastEntryIsNewest == \A t \in Visible : Ordered(t)

-----------------------------------------------------------------------------
(* The database against the chain.                                         *)

SigAt(t, h) == (CHOOSE b \in t.blocks : b.height = h).sig

\* The height at which the node's next event must be a block, once the
\* listener has taken event e.
HeightAfter(e) == IF e.kind = "block" THEN store[e.sig].height + 1
                                      ELSE store[e.sig].height

(* Every block that is delivered belongs right above the block delivered   *)
(* before it, or in the place of the block the rollback before it names;   *)
(* the first one of the stream is above all that is stored or being        *)
(* stored, and what follows the last one is the node's next block.  So the *)
(* handlers never write below an entry that is already there.              *)
DeliveryInOrder ==
    mode = "streaming" =>
      /\ \A i \in 2 .. Len(stream) :
           stream[i].kind = "block" =>
             store[stream[i].sig].height = HeightAfter(stream[i - 1])
      /\ \A t \in Visible :
           IF stream = <<>> THEN HeightsBelow(t, Len(chain) + 1)
           ELSE stream[1].kind = "block" =>
                  HeightsBelow(t, store[stream[1].sig].height)
      /\ stream # <<>> => HeightAfter(stream[Len(stream)]) = Len(chain) + 1

(* The stored blocks have no gap and each was mined on the one below it,   *)
(* whatever the order of deliveries, rollbacks and restarts.               *)
StoredIsABranch ==
    \A b \in db.blocks :
      /\ store[b.sig].height = b.height
      /\ IF b.height = 1 THEN store[b.sig].parent = 0
         ELSE \E p \in db.blocks : /\ p.height = b.height - 1
                                   /\ p.sig = store[b.sig].parent

Idle == mode = "streaming" /\ stream = <<>> /\ ~InTrx

(* A block that receiveTxs has accepted ("save block") is stored: once the *)
(* listener has taken every event, the database holds the node's chain.    *)
InSync ==
    Idle => db.blocks = {[height |-> h, sig |-> chain[h]] : h \in DOMAIN chain}

\* The entries that the handlers owe for call r of a block of height h.
Entries(r, h) ==
    CASE r.type \in VaultTypes \cup {"close", "liquidate"} ->
                                          {<<r.id, r.address, r.type, h>>}
      [] r.type = "transfer"           -> {<<r.id, r.sender, r.type, h>>,
                                           <<r.id, r.address, r.type, h>>}
      [] r.type \in {"close_init", "claim_overpay_init"} ->
                                          {<<r.id, r.sender, r.type, h>>}
      [] OTHER -> {}

StoredCalls == UNION {CallsOf(b.sig) \X {b.height} : b \in db.blocks}

(* Every call of a stored block has its entries, once and at its height,   *)
(* and there is no other entry: none survives a rollback, none is doubled  *)
(* by a replay, none is lost with a crash.                                 *)
JournalMatchesChain ==
    /\ {<<IF r.request = NoId THEN r.tx ELSE r.request,
          r.address, r.type, r.height>> : r \in db.txs}
         = UNION {Entries(c[1], c[2]) : c \in StoredCalls}
    /\ {<<o.tx, o.height>> : o \in db.oracles}
         = {<<c[1].id, c[2]>> : c \in
              {c \in StoredCalls : c[1].type = "oracle"
                 /\ c[1].value = "valid" /\ ~c[1].nested}}

-----------------------------------------------------------------------------
(* The diffs and ids that the journals carry.                              *)

Before(rows, r) ==
    LastById({q \in rows : q.address = r.address /\ q.id < r.id})

(* The diff of an entry of vault_log is the change since the entry before  *)
(* it of the same address, also when both are of one block.                *)
VaultDiffsTelescope ==
    \A t \in Visible : \A r \in t.vaults :
      LET last == Before(t.vaults, r)
          old  == IF last = {} THEN NoVault ELSE The(last).vault
      IN  r.diff = [west |-> r.vault.west - old.west,
                    rwa  |-> r.vault.rwa - old.rwa,
                    east |-> r.vault.east - old.east]

(* The same of balance_log.  README.md:6: "a new entry is created for any  *)
(* change. You need to check the last entry to get the actual balance".    *)
BalanceDiffsTelescope ==
    \A r \in db.balances : r.diff = r.east - EastOf(Before(db.balances, r))

(* vault_id tells the vaults of one address apart: it names the mint that  *)
(* opened the vault, and the entries that follow inherit it.               *)
VaultIdNamesItsMint ==
    \A t \in Visible : \A r \in t.vaults :
      LET mint == LastById({m \in t.txs : /\ m.type = "mint"
                                          /\ m.address = r.address
                                          /\ m.id <= r.id})
      IN  \E m \in mint : r.vaultId = m.tx

-----------------------------------------------------------------------------
(* The payouts.                                                            *)

(* Behind every "init" entry and every pending status there is an atomic   *)
(* that was broadcast, for the same request and the same address.          *)
EntriesWereSent ==
    /\ \A t \in Visible : \A r \in {r \in t.txs : r.status = "init"} :
         \E s \in sent : /\ s.id = r.tx /\ s.request = r.request
                         /\ s.address = r.address
    /\ \A u \in statuses \cup trx.statuses :
         \E s \in sent : s.id = u.tx /\ s.address = u.address

StateBefore(sig, i) ==
    IF i > 1 THEN store[sig].calls[i - 1].after
    ELSE IF store[sig].parent = 0 THEN GenesisState
                                  ELSE Final(store[store[sig].parent])

(* A close pays out the vault as it was when the contract ran the request, *)
(* not as it was at the start of the block, before a rollback, or at the   *)
(* node's present tip.                                                     *)
ClosePaysTheVault ==
    \A row \in {r \in db.txs : r.type = "close_init"} :
      LET sig == SigAt(db, row.height) IN
      \A i \in DOMAIN store[sig].calls :
        store[sig].calls[i].req.id = row.request =>
          LET v == StateBefore(sig, i).vaults[row.address] IN
          \A s \in sent : s.id = row.tx =>
            s.west = Monus(v.west, CloseFee) /\ s.rwa = v.rwa

(* A request is answered by one atomic.  README.md:8: "you don't need to   *)
(* process rollbacks manually".                                            *)
OneAnswerPerRequest ==
    \A s, u \in sent : s.request = u.request => s = u

-----------------------------------------------------------------------------
(* The readers' view, as a refinement.                                     *)

Replica == INSTANCE ChainReplica
             WITH ledger <- store, replica <- Stored(db), view <- View(db)

(* The database refines the replica: readers only ever see the vaults and  *)
(* balances of the contract as they were after the last stored block, and  *)
(* the stored blocks change by whole blocks at their end.                  *)
ImplementsReplica == Replica!Spec

(* The listener catches up: crashes and forks being bounded, the database  *)
(* holds the node's chain in the end, and for good.                        *)
CatchesUp == <>[](Stored(db) = chain)

(* A claim that stays on the chain gets its entry, whatever becomes of the *)
(* vault.  transactions.service.ts:261-272 writes a declined entry for it, *)
(* with "Vault for address ... not exists".                                *)
ClaimIsJournalled ==
    \A r \in {r \in Requests : r.type = "claim_overpay_init"} :
      <>[](r \in OnChain) => <>(\E row \in db.txs : row.request = r.id)

-----------------------------------------------------------------------------
(* What DeliveryInOrder and LastEntryIsNewest need to be inductive: every  *)
(* signature at hand is that of a block, found at its height, and the open *)
(* transaction is that of the highest block it sees.                       *)

ChainOK == \A h \in DOMAIN chain : /\ chain[h] \in DOMAIN store
                                   /\ store[chain[h]].height = h

StreamOK == \A i \in DOMAIN stream : stream[i].sig \in DOMAIN store

SigsOK == \A t \in Visible : \A b \in t.blocks :
            b.sig \in DOMAIN store /\ store[b.sig].height = b.height

TrxOK == IF InTrx
           THEN /\ mode = "streaming"
                /\ trx.sig \in DOMAIN store
                /\ \E b \in trx.tables.blocks : b.height = Height
                /\ \A b \in trx.tables.blocks : b.height <= Height
           ELSE trx = NoTrx

IInv == /\ TypeOK /\ IsFiniteSet(sent)
        /\ ChainOK /\ StreamOK /\ SigsOK /\ TrxOK
        /\ DeliveryInOrder
        /\ LastEntryIsNewest
=============================================================================
