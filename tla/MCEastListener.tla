--------------------------- MODULE MCEastListener ---------------------------
(* Small instances of the listener: two users and a handful of calls, each *)
(* of which is mined at most once on a branch.                             *)
EXTENDS EastListenerProps

CONSTANTS alice, bob, c1, c2, c3, c4

R(name, type, from, to, west, east) ==
    [id |-> <<name, 0>>, type |-> type, sender |-> from, address |-> to,
     west |-> west, rwa |-> IF type = "mint" THEN 1 ELSE 0, east |-> east,
     request |-> NoId, value |-> "none", nested |-> FALSE]

Oracle(name, value, nested) ==
    [R(name, "oracle", alice, alice, 0, 0) EXCEPT !.value = value, !.nested = nested]

\* A vault that is opened, used and closed.
CloseRequests ==
    {R(c1, "mint", alice, alice, 4, 1), R(c2, "supply", alice, alice, 2, 0),
     R(c3, "close_init", alice, alice, 0, 0)}

\* Balances that several calls of one block move; a transfer to oneself.
TransferRequests ==
    {R(c1, "mint", alice, alice, 4, 1), R(c2, "transfer", alice, bob, 0, 1),
     R(c3, "transfer", bob, alice, 0, 1), R(c4, "transfer", alice, alice, 0, 1)}

\* Free WEST claimed twice; c3 asks for more than there is.
ClaimRequests ==
    {R(c1, "mint", alice, alice, 4, 1), R(c2, "claim_overpay_init", alice, alice, 1, 0),
     R(c3, "claim_overpay_init", alice, alice, 9, 0)}

\* A liquidation, and a second vault of the same address.
LiquidationRequests ==
    {R(c1, "mint", alice, alice, 4, 1), R(c2, "liquidate", bob, alice, 1, 0),
     R(c3, "mint", alice, alice, 3, 1), R(c4, "reissue", alice, alice, 0, 1)}

\* Oracle calls: stored, refused by the format check, inside an atomic.
OracleRequests ==
    {Oracle(c1, "valid", FALSE), Oracle(c2, "malformed", FALSE),
     Oracle(c3, "valid", TRUE)}

\* A rate that PostgreSQL refuses, and a call in the same or a later block.
RefusedRequests ==
    {R(c1, "mint", alice, alice, 4, 1), Oracle(c2, "rejected", FALSE),
     R(c3, "update_config", bob, bob, 0, 0)}

\* A vault opened, debt passed on, the vault liquidated, and a rate.
FollowRequests ==
    {R(c1, "mint", alice, alice, 4, 1), R(c2, "liquidate", bob, alice, 1, 0),
     R(c3, "transfer", alice, bob, 0, 1), Oracle(c4, "valid", FALSE)}

\* A vault closed while a claim on it waits to be handled.
ClosedClaimRequests ==
    {R(c1, "mint", alice, alice, 4, 1), R(c2, "close_init", alice, alice, 0, 0),
     R(c3, "claim_overpay_init", alice, alice, 1, 0)}

\* Two changes of one balance.
SameBlockRequests ==
    {R(c1, "mint", alice, alice, 4, 1), R(c2, "reissue", alice, alice, 0, 1)}

\* Several stories in one run: what is mined belongs to one of them.
SmallStories == {CloseRequests, TransferRequests, OracleRequests, RefusedRequests}
LargeStories == {ClaimRequests, LiquidationRequests}
StoryRequests == UNION (SmallStories \cup LargeStories)

MinedIn(b) == {b.calls[i] : i \in DOMAIN b.calls}
ByClients(b) == {r \in {c.req : c \in MinedIn(b)} : r.id[2] = 0}
Tells(S) == \A sig \in DOMAIN store : ByClients(store[sig]) \subseteq S

\* Claims are made on a vault, as the init calls of the small stories need not be.
OnVaults ==
    \A sig \in DOMAIN store : \A c \in MinedIn(store[sig]) :
      c.req.type = "claim_overpay_init" => c.after.vaults[c.req.address] # NoVault

\* The stories with the most behaviours have a third block only while
\* nothing fails.
OneStory ==
    \/ \E S \in SmallStories : Tells(S)
    \/ /\ \E S \in LargeStories : Tells(S)
       /\ OnVaults
       /\ faults = 0 \/ Len(store) <= 2
=============================================================================
