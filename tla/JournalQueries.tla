---------------------------- MODULE JournalQueries ----------------------------
(***************************************************************************)
(* The questions that clients ask of the journals: the transactions and    *)
(* the vaults of an address, page by page, and the vaults that may be      *)
(* liquidated.  Each is one statement, and sees the committed tables.      *)
(***************************************************************************)
EXTENDS EastListenerProps
Sets == INSTANCE FiniteSetsExt

CONSTANTS Precedes(_, _),         \* the collation of transaction ids
          PageSize,               \* limit of the clients' queries
          LiquidationCollateral,  \* LIQUIDATION_COLLATERAL
          Coefs                   \* WEST rates, each divided by the WEST part

ASSUME QueriesAssumption ==
    /\ PageSize \in Nat \ {0}
    /\ LiquidationCollateral \in Nat /\ Coefs \subseteq Nat

\* SELECT DISTINCT ON (key) ... ORDER BY key, id DESC.
LastPer(key, rows) ==
    {r \in rows : \A q \in rows : q[key] = r[key] => q.id <= r.id}

\* LIMIT and OFFSET apply to the order of the keys, before the result is
\* put in the order of the ids.
Page(key, rows, limit, offset) ==
    {r \in rows : Cardinality({q \in rows : Precedes(q[key], r[key])})
                    \in offset .. offset + limit - 1}

OfTx(t, a, tx, status) ==
    {r \in t.txs : r.tx = tx /\ r.address = a /\ r.status = status}

\* One row of getTransactions: the request and the execution of one call,
\* with what the call changed.  0 and NoId stand for NULL.
Listed(t, a, tx) ==
    LET init     == OfTx(t, a, tx, "init")
        executed == OfTx(t, a, tx, "executed")
        known    == The(IF executed # {} THEN executed ELSE init)
        vault    == {v \in t.vaults : \E r \in executed : v.id = r.id}
        balance  == {b \in t.balances : \E r \in executed : b.id = r.id}
    IN  [tx             |-> tx,
         request        |-> IF init = {} THEN NoId ELSE The(init).request,
         initHeight     |-> IF init = {} THEN 0 ELSE The(init).height,
         executedHeight |-> known.height,
         type           |-> known.type,
         status         |-> known.status,
         west           |-> IF vault = {} THEN 0 ELSE The(vault).diff.west,
         rwa            |-> IF vault = {} THEN 0 ELSE The(vault).diff.rwa,
         east           |-> IF balance = {} THEN 0 ELSE The(balance).diff]

\* Mutated form: offset counts pages.
GetTransactionsByPage(t, a, limit, offset) ==
    {Listed(t, a, r.tx) : r \in
       Page("tx", LastPer("tx", {r \in t.txs : /\ r.address = a
                                               /\ r.status # "declined"}),
            limit, offset * limit)}

\* Declined requests are left out.
GetTransactions(t, a, limit, offset) ==
    {Listed(t, a, r.tx) : r \in
       Page("tx", LastPer("tx", {r \in t.txs : /\ r.address = a
                                               /\ r.status # "declined"}),
            limit, offset)}

\* The last entry of each vault of the address.
GetVaults(t, a, limit, offset) ==
    Page("vaultId", LastPer("vaultId", {v \in t.vaults : v.address = a}),
         limit, offset)

\* Mutated form: the first entry of an address stands for its vault.
LiquidatableAtFirst(t, coef) ==
    {v \in {p \in t.vaults : \A q \in t.vaults :
                               q.address = p.address => p.id <= q.id} :
       v.vault.active /\ v.vault.west * coef < v.vault.east * LiquidationCollateral}

\* west_amount / east_amount * coef < LIQUIDATION_COLLATERAL, of the last
\* entries that are active.
GetLiquidatableVaults(t, coef) ==
    {v \in LastPer("address", t.vaults) :
       v.vault.active /\ v.vault.west * coef < v.vault.east * LiquidationCollateral}

-----------------------------------------------------------------------------
(* A client that asks for one page after the other.                        *)

Offsets(t) == {n * PageSize : n \in 0 .. Cardinality(t.txs) \div PageSize}

AllTransactions(t, a) ==
    UNION {GetTransactions(t, a, PageSize, o) : o \in Offsets(t)}
AllVaults(t, a) == UNION {GetVaults(t, a, PageSize, o) : o \in Offsets(t)}

West(l) == l.west
Rwa(l) == l.rwa

(* The changes that the pages of a client show add up to the vault that it *)
(* is shown: no call is listed twice under the id of its request and its   *)
(* own, none is lost between two pages or under an answer that was         *)
(* replaced, and each carries the diff of its own entry.                   *)
HistoryAddsUp ==
    \A a \in Addr :
      LET all == AllTransactions(db, a) IN
      /\ Sets!MapThenSumSet(West, all) = VaultView(db, a).west
      /\ Sets!MapThenSumSet(Rwa, all) = VaultView(db, a).rwa

(* A call that is listed with its request was executed above it: no answer *)
(* is filed under a request that was undone and mined again after it.      *)
AnswersFollowRequests ==
    \A a \in Addr : \A l \in AllTransactions(db, a) :
      l.request # NoId /\ l.status = "executed"
        => l.initHeight < l.executedHeight

(* Of the vaults that an address is shown, the active one, if any, is the  *)
(* one that getCurrentVault gives: closing and liquidating reach the       *)
(* listing, also when a second vault has been opened since.                *)
ActiveVaultIsCurrent ==
    \A a \in Addr :
      {v \in AllVaults(db, a) : v.vault.active}
        = {v \in CurrentVault(db, a) : v.vault.active}

StateAtLast == IF db.blocks = {} THEN GenesisState
               ELSE Final(store[The(LastBlock(db)).sig])

(* A vault may be liquidated, by the tables, just when the contract holds  *)
(* it active and short of collateral after the last stored block, at any   *)
(* rate.  (With an active vault without debt the statement divides by      *)
(* zero.)                                                                  *)
LiquidatableMatchesContract ==
    (\A a \in Addr : VaultView(db, a).active => VaultView(db, a).east > 0) =>
    \A coef \in Coefs :
      {v.address : v \in GetLiquidatableVaults(db, coef)} =
      {a \in Addr : LET v == StateAtLast.vaults[a] IN
                    v.active /\ v.west * coef < v.east * LiquidationCollateral}
=============================================================================
