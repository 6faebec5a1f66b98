---------------------------- MODULE MCEastService ----------------------------
(* A vault, a claim on it and its payout, in the whole service.            *)
EXTENDS MCEastListener, EastService

PayoutRequests ==
    {R(c1, "mint", alice, alice, 4, 1), R(c2, "claim_overpay_init", alice, alice, 1, 0)}

\* alice watches her claim herself, and an id that no call has.
Claim == <<c2, 0>>
NoCall == <<c3, 0>>
PostedCalls == {<<Claim, alice>>}
PostedBoth == PostedCalls \cup {<<NoCall, alice>>}
Unspoken == {NoCall}

\* The answers to the claim, as often as the bounds let it be processed.
Payouts == {<<c2, n>> : n \in 1 .. 4}
PolledCalls == Payouts \cup {Claim}
TwoPayouts == {<<c2, n>> : n \in 1 .. 2} \cup {Claim, NoCall}

Watched(t) == reports[t] # <<>> \/ \E r \in rows : r.tx = t

\* A third block only while nothing fails, alice does not watch and rounds do
\* not overlap.
ThirdBlock == \/ Len(store) <= 2
              \/ faults = 0 /\ ~(\E r \in rows : r.tx[2] = 0)
                 /\ Len(rounds) <= 1

\* alice watches one of the two, and only while there is one block.  Only
\* steps that nothing obliges to happen are cut off.
OneWatched == /\ ~(Watched(Claim) /\ Watched(NoCall))
              /\ Watched(Claim) \/ Watched(NoCall) => Len(store) <= 1
=============================================================================
