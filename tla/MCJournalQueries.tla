--------------------------- MODULE MCJournalQueries ---------------------------
(* Small instances of the listener, as its clients see it.                 *)
EXTENDS MCEastListener, JournalQueries

\* Some order of the ids: that of their names, later answers first.
Names == <<c3, c1, c2, c4>>
Place(c) == CHOOSE i \in DOMAIN Names : Names[i] = c
CollateBefore(x, y) == \/ Place(x[1]) < Place(y[1])
                       \/ x[1] = y[1] /\ x[2] > y[2]

\* A claim on free WEST and a second supply.
HistoryRequests ==
    {R(c1, "mint", alice, alice, 4, 1), R(c2, "claim_overpay_init", alice, alice, 1, 0),
     R(c3, "supply", alice, alice, 2, 0)}

\* Two users with a vault each, one of which is liquidated.
TwoVaultsRequests ==
    {R(c1, "mint", alice, alice, 2, 1), R(c2, "liquidate", bob, alice, 1, 0),
     R(c3, "mint", alice, alice, 3, 1), R(c4, "mint", bob, bob, 2, 1)}

\* What is mined belongs to one of the two stories.
ReaderRequests == HistoryRequests \cup TwoVaultsRequests
OneReaderStory ==
    \E S \in {HistoryRequests, TwoVaultsRequests} :
      \A sig \in DOMAIN store : ByClients(store[sig]) \subseteq S
=============================================================================
