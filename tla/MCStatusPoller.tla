---------------------------- MODULE MCStatusPoller ----------------------------
(* A small instance of the poller, for two stories.  The node may never    *)
(* speak of t2; it answers t1 and t3.                                      *)
EXTENDS StatusPoller

CONSTANTS t1, t2, t3, alice, bob

Watchers == {<<t1, alice>>, <<t2, bob>>, <<t3, bob>>}

\* The clocks of the clients are ahead of the service's, or agree with it.
AheadOrFresh == {-1, 0}

Watched(t) == reports[t] # <<>> \/ \E r \in rows : r.tx = t
Reposted(t) == \E p, q \in rows : p # q /\ p.tx = t /\ q.tx = t
Repeated == \E t \in Tx : Len(reports[t]) > 1
Ahead == \E r \in rows : r.age < 0
Stories == <<Ahead, Repeated, faults > 0, Watched(t3)>>

\* Beside t1 either t2 is watched or t3; clocks ahead, a repeated answer, a
\* fault and t3 make a story each; beside t3, t1 is not posted again.  Only
\* steps that nothing obliges to happen are cut off.
OneStory ==
    /\ ~(Watched(t2) /\ Watched(t3))
    /\ \A i, j \in 1 .. 4 : Stories[i] /\ Stories[j] => i = j
    /\ ~(Watched(t3) /\ Reposted(t1))
=============================================================================
