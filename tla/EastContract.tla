---------------------------- MODULE EastContract ----------------------------
(***************************************************************************)
(* The vocabulary of the service and the outside world it follows: the     *)
(* contract calls that blocks carry and the state of the EAST contract     *)
(* after each of them.  The contract is not part of the repository; what   *)
(* is said of it here is what the handlers of transactions.service.ts rely *)
(* on: which key a call rewrites, and for whom.                            *)
(***************************************************************************)
EXTENDS Integers, Sequences, FiniteSets

CONSTANTS Addr,        \* addresses of the users
          Service,     \* the address of EAST_SERVICE_PUBLIC_KEY
          CallName,    \* names of the calls that clients broadcast
          NoName,      \* stands for the absence of a call
          CloseFee,    \* TransactionService.closeFee
          Collateral   \* WEST needed per EAST, rates included

ASSUME ContractAssumption ==
    /\ Service \notin Addr
    /\ NoName \notin CallName
    /\ CloseFee \in Nat
    /\ Collateral \in Nat

-----------------------------------------------------------------------------
(* A transaction id.  <<c, 0>> is the call c of a client, <<c, n>> the n-th *)
(* atomic transaction the service broadcasts in answer to c.                *)
NoId == <<NoName, 0>>
Id == CallName \X Nat
IdOrNone == Id \cup {NoId}

VaultTypes == {"mint", "supply", "reissue", "claim_overpay"}

\* The calls of the EAST contract that have a case in the dispatch switch.
JournalTypes == VaultTypes \cup
    {"claim_overpay_init", "close_init", "close", "transfer", "liquidate"}

\* update_config also stands for a call without parameters; "oracle" is a
\* call of the oracle contract.
TxTypes == JournalTypes \cup
    {"update_config", "write_liquidation_west_transfer", "oracle"}

\* What saveOracle finds in the result of an oracle call: a rate it stores, a
\* text it refuses, or a rate that passes its test and PostgreSQL refuses.
OracleValue == {"none", "valid", "malformed", "rejected"}

\* The service alone may send these: each is part of an atomic with a
\* transfer that only the service can sign.
ServiceTypes == {"close", "claim_overpay", "write_liquidation_west_transfer"}

(* A transaction before it is mined.  address is the one its parameters    *)
(* name, request the call it answers; nested is set inside an atomic.      *)
Request ==
    {r \in [id : Id, type : TxTypes, sender : Addr \cup {Service},
            address : Addr, west : Nat, rwa : Nat, east : Nat,
            request : IdOrNone, value : OracleValue, nested : BOOLEAN] :
       r.sender = Service <=> r.type \in ServiceTypes}

Vault == [west : Nat, rwa : Nat, east : Nat, active : BOOLEAN]
NoVault == [west |-> 0, rwa |-> 0, east |-> 0, active |-> FALSE]

\* The keys vault_, balance_ and liquidation_exchange_ of the contract.
State == [vaults : [Addr -> Vault], balances : [Addr -> Nat],
          exchanged : SUBSET IdOrNone]

GenesisState == [vaults    |-> [a \in Addr |-> NoVault],
                 balances  |-> [a \in Addr |-> 0],
                 exchanged |-> {}]

Monus(m, n) == IF m >= n THEN m - n ELSE 0
MinOf(m, n) == IF m <= n THEN m ELSE n

-----------------------------------------------------------------------------
(* What the contract does.                                                 *)

\* The contract runs r in state s.  Whether an init call needs a vault is for
\* the contract to say: InitNeedsVault names the stronger reading.
Accepts(s, r, InitNeedsVault) ==
    LET v == s.vaults[r.address] IN
    /\ r.type = "mint" => ~v.active
    /\ r.type \in {"supply", "reissue", "claim_overpay", "close", "liquidate"}
         => v.active
    /\ r.type = "claim_overpay" => v.west >= r.west
    /\ r.type = "transfer" => s.balances[r.sender] >= r.east
    /\ r.type \in {"claim_overpay_init", "close_init"} /\ InitNeedsVault
         => v.active

\* vault_<address> after r.  Nothing is known of what remains in a liquidated
\* vault: r says it.
VaultAfter(v, r) ==
    CASE r.type = "mint" ->
           [west |-> r.west, rwa |-> r.rwa, east |-> r.east, active |-> TRUE]
      [] r.type = "supply" ->
           [v EXCEPT !.west = @ + r.west, !.rwa = @ + r.rwa]
      [] r.type = "reissue"       -> [v EXCEPT !.east = @ + r.east]
      [] r.type = "claim_overpay" -> [v EXCEPT !.west = Monus(@, r.west)]
      [] r.type = "close"         -> NoVault
      [] r.type = "liquidate" ->
           [west |-> r.west, rwa |-> r.rwa, east |-> r.east, active |-> FALSE]
      [] OTHER -> v

\* balance_<a> after r.
BalanceAfter(s, r, a) ==
    LET b == s.balances[a] IN
    CASE r.type \in {"mint", "reissue"} /\ a = r.address -> b + r.east
      [] r.type = "close" /\ a = r.address ->
           Monus(b, s.vaults[a].east)
      [] r.type = "transfer" /\ r.sender # r.address /\ a = r.sender ->
           Monus(b, r.east)
      [] r.type = "transfer" /\ r.sender # r.address /\ a = r.address ->
           b + r.east
      [] OTHER -> b

After(s, r) ==
    [vaults    |-> [a \in Addr |-> IF a = r.address
                                     THEN VaultAfter(s.vaults[a], r)
                                     ELSE s.vaults[a]],
     balances  |-> [a \in Addr |-> BalanceAfter(s, r, a)],
     exchanged |-> IF r.type = "write_liquidation_west_transfer"
                     THEN s.exchanged \cup {r.request} ELSE s.exchanged]

\* An executed call: the request and, as its results, the state it left.
Call == [req : Request, after : State]
Execute(s, r) == [req |-> r, after |-> After(s, r)]

\* The result a liquidation is read from, liquidated_vault_<address>_<time>:
\* amounts without an isActive, which addVaultLog takes for true.
LiquidatedVault(c) == [c.after.vaults[c.req.address] EXCEPT !.active = TRUE]

\* A block carries one or two calls.
Bodies(s, offers, InitNeedsVault) ==
    LET ok(t) == {r \in offers : Accepts(t, r, InitNeedsVault)}
        one   == {Execute(s, r) : r \in ok(s)}
    IN  {<<c>> : c \in one} \cup
        UNION {{<<c, Execute(c.after, r)>> :
                  r \in {q \in ok(c.after) : q.id # c.req.id}} : c \in one}

Block == [height : Nat \ {0}, parent : Nat, calls : Seq(Call) \ {<<>>}]

\* The contract's state at the end of a block.
Final(b) == b.calls[Len(b.calls)].after
=============================================================================
