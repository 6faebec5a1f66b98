----------------------------- MODULE EastService -----------------------------
(***************************************************************************)
(* The whole process: the listener and the poller of execution statuses    *)
(* run in it side by side, share the table of the statuses, and end        *)
(* together.  The listener adds the pending row of each payout with the    *)
(* block it commits; the poller stores what the node says of the payout,   *)
(* which the node mines, or refuses, whatever the two are doing.           *)
(***************************************************************************)
EXTENDS EastListenerProps

CONSTANTS PolledTx,     \* bound: the calls whose status is ever asked for
          ClientCalls,  \* pairs <<tx, address>> that clients post
          Silent, Limit, Expiry, PostedAges, Reposts, Code,
          MaxReports    \* as in StatusPoller

ASSUME ServiceAssumption ==
    /\ PolledTx \subseteq Id
    /\ ClientCalls \subseteq PolledTx \X Addr
    /\ Silent \subseteq PolledTx
    /\ PostedAges \subseteq Int /\ Reposts \in BOOLEAN
    /\ Limit \in Nat \ {0} /\ Expiry \in Nat \ {0}
    /\ Code \subseteq 0 .. 3 /\ MaxReports \in Nat

VARIABLES rows,     \* user_transaction_statuses
          rounds,   \* rounds of the poller that have not ended
          reports,  \* what the node has said of each call
          serving   \* the poller has been started

pollerVars == <<rows, rounds, reports, serving>>
listenerVars == <<store, chain, stream, mode, db, statuses, trx, sent>>
serviceVars == <<listenerVars, pollerVars, faults>>

Poller == INSTANCE StatusPoller
            WITH Tx <- PolledTx, Address <- Addr, Calls <- ClientCalls,
                 up <- serving

ServiceInit == Init /\ Poller!Init

-----------------------------------------------------------------------------
(* The listener's steps.  A row that it commits is fresh in the table of   *)
(* both; an exit of the process ends the rounds of the poller.             *)

Committed == {[tx |-> u.tx, address |-> u.address, status |-> u.status,
               error |-> FALSE, age |-> 0] : u \in statuses' \ statuses}

ListenerStep ==
    /\ Next
    /\ rows' = rows \cup Committed
    /\ serving' = (serving /\ mode' # "down")
    /\ rounds' = IF mode' = "down" THEN <<>> ELSE rounds
    /\ UNCHANGED reports

\* main.ts: the application, and the poller with it, is started after the
\* listener.
Serve == mode = "streaming" /\ Poller!Serve /\ UNCHANGED listenerVars

\* The status service of the node: success for a call that was mined, an
\* error for one that is on offer.
Mined(t) == \E sig \in DOMAIN store : \E r \in CallsOf(sig) : r.id = t
Offered(t) == \E r \in Offers : r.id = t

StatusOfCall(t) ==
    /\ Poller!Report(t)
    /\ LET code == reports'[t][Len(reports'[t])]
       IN  IF code = 0 THEN Mined(t) ELSE Offered(t)
    /\ UNCHANGED listenerVars

SomeStatus == \E t \in PolledTx : StatusOfCall(t)

Tick == Poller!Tick /\ UNCHANGED listenerVars
Post == Poller!Post /\ UNCHANGED listenerVars
SomeAnswer == Poller!SomeAnswer /\ UNCHANGED listenerVars
SomeUpdate == Poller!SomeUpdate /\ UNCHANGED listenerVars
SomeFailure == Poller!SomeFailure /\ UNCHANGED listenerVars

ServiceNext == ListenerStep \/ Serve \/ SomeStatus \/ Tick \/ Post
               \/ SomeAnswer \/ SomeUpdate \/ SomeFailure

ServiceSpec == ServiceInit /\ [][ServiceNext]_serviceVars

\* The fairness of the parts: the listener takes its events, the poller's
\* timer fires and its promises settle, and the node speaks of a call that a
\* round asks about and that stays on the chain or on offer.
FairServiceSpec ==
    /\ ServiceSpec
    /\ WF_serviceVars(ListenerStep /\ Listen)
    /\ WF_serviceVars(Tick)
    /\ WF_serviceVars(SomeAnswer) /\ WF_serviceVars(SomeUpdate)
    /\ \A t \in PolledTx :
         WF_serviceVars(Poller!Unheard(t) /\ StatusOfCall(t))

-----------------------------------------------------------------------------
(* What the two make of the table together.                                *)

RowsOfTx(t, a) == {r \in rows : r.tx = t /\ r.address = a}

(* A payout that the journal announces has its status: the "init" entry    *)
(* and the row are stored together or not at all, and neither a rollback   *)
(* nor an update by the poller takes the row away while the entry is       *)
(* there.                                                                  *)
AnnouncedPayoutsAreWatched ==
    \A r \in db.txs : r.status = "init" => RowsOfTx(r.tx, r.address) # {}

(* A payout is shown as a success only if it was mined, under an id and an *)
(* address that were broadcast: one that was undone and paid again under   *)
(* another id keeps the fate of its own atomic, whatever round brought the *)
(* answers.  And no address is ever shown two outcomes of one call, though *)
(* a client post it again after the first.                                 *)
StatusIsOfItsPayout ==
    \A r \in rows :
      /\ r.status = "success" => Mined(r.tx)
      /\ r.tx[2] > 0 => \E s \in sent : s.id = r.tx /\ s.address = r.address
      /\ r.status # "pending" =>
           \A q \in RowsOfTx(r.tx, r.address) \ {r} : q.status = "pending"

=============================================================================
