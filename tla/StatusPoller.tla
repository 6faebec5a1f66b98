----------------------------- MODULE StatusPoller -----------------------------
(***************************************************************************)
(* The poller of execution statuses, and the table it shares with clients  *)
(* that post calls to be watched.  Every interval it starts a round: it    *)
(* reads the pending calls that are young enough, subscribes to each at    *)
(* the node, waits for the first message of all of them and stores the     *)
(* outcomes one by one.  Nothing keeps the rounds from overlapping.        *)
(***************************************************************************)
EXTENDS Integers, Sequences, FiniteSets

CONSTANTS Tx,          \* ids of contract calls
          Address,
          Calls,       \* pairs <<tx, address>> that clients post
          Silent,      \* calls of which the node never says anything
          Limit,       \* PENDING_CALLS_LIMIT
          Expiry,      \* PENDING_CALLS_LOWER_LIMIT, in poll intervals
          PostedAges,  \* ages of the timestamps that clients send
          Reposts,     \* whether a call is posted again after its outcome
          Code,        \* statuses that the node gives: success 0, error 1,
                       \* failure 2, or 3 for those the switch does not know
          MaxReports,  \* bound: messages of the node about one call
          MaxFaults    \* bound: crashes and failed rounds

ASSUME PollerAssumption ==
    /\ Calls \subseteq Tx \X Address
    /\ Silent \subseteq Tx
    /\ Limit \in Nat \ {0} /\ Expiry \in Nat \ {0}
    /\ PostedAges \subseteq Int
    /\ Reposts \in BOOLEAN
    /\ Code \subseteq 0 .. 3
    /\ MaxReports \in Nat /\ MaxFaults \in Nat

VARIABLES
    rows,      \* user_transaction_statuses
    rounds,    \* rounds that have not ended, in the order they began
    reports,   \* what the node has said of each call so far
    up,        \* the process runs
    faults     \* counts the faults injected so far

vars == <<rows, rounds, reports, up, faults>>

\* A message of the node says which call it is about.
Answer == [tx : Tx, code : Code]
NoAnswer == [code |-> -1]

\* The age of a timestamp, in poll intervals.  Negative: a client's clock is
\* ahead.  Ages from Expiry on are not told apart.
Row == [tx : Tx, address : Address, status : {"pending", "success", "fail"},
        error : BOOLEAN, age : Int]
Round == [calls : Seq(Tx), answers : Seq(Answer \cup {NoAnswer}), next : Nat]

TypeOK ==
    /\ rows \subseteq Row
    /\ rounds \in Seq(Round)
    /\ reports \in [Tx -> Seq(Code)]
    /\ up \in BOOLEAN
    /\ faults \in 0 .. MaxFaults

Init ==
    /\ rows = {} /\ rounds = <<>>
    /\ reports = [t \in Tx |-> <<>>]
    /\ up = FALSE
    /\ faults = 0

-----------------------------------------------------------------------------
(* A round begins.                                                         *)

\* Mutated form: rows are polled for ever.
DueEver(R) == {r \in R : r.status = "pending"}

Due(R) == {r \in R : r.status = "pending" /\ r.age < Expiry}

\* The query has a LIMIT and no ORDER BY: any rows, in any order.
Batches(R) ==
    LET due == Due(R)
        n   == IF Cardinality(due) < Limit THEN Cardinality(due) ELSE Limit
    IN  {b \in [1 .. n -> due] : \A i, j \in 1 .. n : b[i] = b[j] => i = j}

Asking(b) == [calls   |-> [i \in DOMAIN b |-> b[i].tx],
              answers |-> [i \in DOMAIN b |-> NoAnswer],
              next    |-> 1]


\* A round without calls ends at once.
UpdateStatuses(R) ==
    IF Due(R) = {} THEN UNCHANGED rounds
    ELSE \E b \in Batches(R) : rounds' = Append(rounds, Asking(b))

Older(R) == {[r EXCEPT !.age = IF @ < Expiry THEN @ + 1 ELSE @] : r \in R}

\* setInterval: an interval passes, and a round begins if the process runs.
Tick ==
    /\ rows' = Older(rows)
    /\ IF up THEN UpdateStatuses(rows') ELSE UNCHANGED rounds
    /\ UNCHANGED <<reports, up, faults>>

\* onModuleInit: the first round begins at once.
Serve ==
    /\ ~up
    /\ up' = TRUE
    /\ UpdateStatuses(rows)
    /\ UNCHANGED <<rows, reports, faults>>

-----------------------------------------------------------------------------
(* Clients and the node.                                                   *)

RowsOf(c) == {r \in rows : r.tx = c[1] /\ r.address = c[2]}

\* POST /transactions/statuses.  A second pending row of the call is refused
\* by the UNIQUE of the table, and the client is told.
SetUserContractCall(c, age) ==
    /\ up
    /\ \A r \in RowsOf(c) : r.status # "pending" /\ Reposts
    /\ rows' = rows \cup {[tx |-> c[1], address |-> c[2], status |-> "pending",
                           error |-> FALSE, age |-> age]}
    /\ UNCHANGED <<rounds, reports, up, faults>>

\* A validator has executed the call, or tried to.
Report(t) ==
    /\ t \notin Silent
    /\ Len(reports[t]) < MaxReports
    /\ \E code \in Code : reports' = [reports EXCEPT ![t] = Append(@, code)]
    /\ UNCHANGED <<rows, rounds, up, faults>>

-----------------------------------------------------------------------------
(* The rest of a round.                                                    *)

Unanswered(i) == {k \in DOMAIN rounds[i].calls :
                    rounds[i].answers[k] = NoAnswer}

AnswerOf(t, code) == [tx |-> t, code |-> code]

\* Mutated form: the last message counts.
ReceiveLast(i) ==
    /\ \E k \in Unanswered(i) :
         LET t    == rounds[i].calls[k]
             said == reports[t]
         IN  /\ said # <<>>
             /\ rounds' = [rounds EXCEPT ![i].answers[k] =
                                           AnswerOf(t, said[Len(said)])]
    /\ UNCHANGED <<rows, reports, up, faults>>

\* A subscription gives all that the node has to say of the call, the oldest
\* first.  The first message resolves the promise, later ones do nothing.
Receive(i) ==
    /\ \E k \in Unanswered(i) :
         LET t == rounds[i].calls[k] IN
         /\ reports[t] # <<>>
         /\ rounds' = [rounds EXCEPT ![i].answers[k] =
                                       AnswerOf(t, reports[t][1])]
    /\ UNCHANGED <<rows, reports, up, faults>>

Without(i) == SubSeq(rounds, 1, i - 1) \o SubSeq(rounds, i + 1, Len(rounds))

\* Mutated form: the outcome keeps the node's own name.
StatusOfNode(code) == IF code = 0 THEN "success" ELSE "error"

StatusOf(code) == IF code = 0 THEN "success" ELSE "fail"

\* Mutated form: the variable is declared before the loop, and keeps the
\* error of an earlier answer.
ErrorSoFar(round) ==
    \E k \in 1 .. round.next : round.answers[k].code \in {1, 2}

HasError(round) == round.answers[round.next].code \in {1, 2}

\* knex leaves a column alone whose new value is undefined.
Updated(r, status, error) ==
    [r EXCEPT !.status = status, !.error = @ \/ error]

\* UNIQUE(tx_id, address, status) refuses to give rows of one call and one
\* address the same status.  Mutated form: a table without that key.
CollideNever(R) == FALSE
Collide(R) == \E p, q \in R : p # q /\ p.address = q.address

\* Promise.all: nothing is stored before every call has its answer.  An
\* UPDATE takes all rows of the call that the answer is about; if the table
\* refuses it, the rest of the round is dropped.
UpdateStatus(i) ==
    LET round  == rounds[i]
        answer == round.answers[round.next]
        hit    == {r \in rows : r.tx = answer.tx}
        clash  == Collide(hit)
        new    == {Updated(r, StatusOf(answer.code), HasError(round)) :
                     r \in hit}
    IN  /\ Unanswered(i) = {}
        /\ rows' = IF clash THEN rows ELSE (rows \ hit) \cup new
        /\ rounds' = IF clash \/ round.next = Len(round.calls)
                       THEN Without(i)
                       ELSE [rounds EXCEPT ![i].next = @ + 1]
        /\ UNCHANGED <<reports, up, faults>>

\* The tokens, the database or a subscription fails.  In the last case the
\* round waits for ever, which nothing but its open streams tells from having
\* ended.
RoundFails(i) ==
    /\ faults < MaxFaults
    /\ faults' = faults + 1
    /\ rounds' = Without(i)
    /\ UNCHANGED <<rows, reports, up>>

Crash ==
    /\ up /\ faults < MaxFaults
    /\ faults' = faults + 1
    /\ up' = FALSE /\ rounds' = <<>>
    /\ UNCHANGED <<rows, reports>>

-----------------------------------------------------------------------------
Post == \E c \in Calls, age \in PostedAges : SetUserContractCall(c, age)
SomeReport == \E t \in Tx : Report(t)
SomeAnswer == \E i \in DOMAIN rounds : Receive(i)
SomeUpdate == \E i \in DOMAIN rounds : UpdateStatus(i)
SomeFailure == \E i \in DOMAIN rounds : RoundFails(i)

Next == Tick \/ Serve \/ Post \/ SomeReport \/ SomeAnswer \/ SomeUpdate
        \/ SomeFailure \/ Crash

Spec == Init /\ [][Next]_vars

\* Timers fire, messages that the node has sent arrive, promises of the
\* database settle.  A call that is not silent and that a round asks about is
\* executed some time; nothing says when, compared with the timer.
Asked(t) == \E i \in DOMAIN rounds : \E k \in Unanswered(i) :
              rounds[i].calls[k] = t
Unheard(t) == Asked(t) /\ reports[t] = <<>>

FairSpec == /\ Spec
            /\ WF_vars(Tick) /\ WF_vars(SomeAnswer) /\ WF_vars(SomeUpdate)
            /\ \A t \in Tx \ Silent : WF_vars(Unheard(t) /\ Report(t))

-----------------------------------------------------------------------------
(* A stored outcome is what the node said first of that very call, however *)
(* the answers of overlapping rounds arrive; an error is kept with it just *)
(* when the node gave one.                                                 *)
OutcomeWasReported ==
    \A r \in rows : r.status # "pending" =>
      /\ reports[r.tx] # <<>>
      /\ r.status = StatusOf(reports[r.tx][1])
      /\ r.error <=> reports[r.tx][1] \in {1, 2}

(* An outcome is final: no round that was slow, no call that is posted     *)
(* again and no update that the table refuses changes it or loses it.      *)
OutcomeIsFinal ==
    [][\A r \in rows : r.status # "pending" =>
         \E q \in rows' : /\ q.tx = r.tx /\ q.address = r.address
                          /\ q.status = r.status /\ q.error = r.error]_vars

(* Rounds that wait for a call without an answer pile up, each with a      *)
(* subscription of its own: one per interval of the life of a pending row, *)
(* and no more.                                                            *)
OpenSubscriptions(t) ==
    {s \in (DOMAIN rounds) \X (1 .. Limit) :
       s[2] \in Unanswered(s[1]) /\ rounds[s[1]].calls[s[2]] = t}

SubscriptionsBounded ==
    \A t \in Tx : Cardinality(OpenSubscriptions(t))
      <= Cardinality({p \in ((CHOOSE a \in PostedAges :
                                \A b \in PostedAges : a <= b) .. Expiry - 1)
                            \X {r \in rows : r.tx = t} : TRUE})

IsDue(c) == \E r \in RowsOf(c) : r.status = "pending" /\ r.age = 1
HasOutcome(c) == \E r \in RowsOf(c) : r.status # "pending"

\* The update of a call is refused once one of its users has posted it again
\* after its outcome.
Refused(t) == \E r \in rows : /\ r.tx = t /\ r.status = "pending"
                              /\ HasOutcome(<<t, r.address>>)

\* Rows that keep a round from storing the rest of its answers.
SilentPeer(maxAge) == \E r \in rows : r.tx \in Silent /\ r.age <= maxAge
RefusedPeer(maxAge) ==
    \E r \in rows : r.status = "pending" /\ r.age <= maxAge /\ Refused(r.tx)
HeldUp(maxAge) == SilentPeer(maxAge) \/ RefusedPeer(maxAge)

=============================================================================
