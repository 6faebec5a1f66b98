----------------------------- MODULE OracleFeed -----------------------------
(***************************************************************************)
(* The history of the oracles' rates and the clients that ask for it       *)
(* through the response cache.  Blocks store rates and rollbacks delete    *)
(* them, while the cache may still hold the answer of a minute ago and     *)
(* requests that missed the cache are on their way through the database.   *)
(***************************************************************************)
EXTENDS Integers, Sequences, FiniteSets

CONSTANTS Tx,          \* oracle calls, each mined once
          Stream,      \* streams of the oracle contract
          Questions,   \* queries of GET /oracles
          RateTimes,   \* timestamps that the oracles give
          StartTime,   \* the clock in the initial state
          Day,         \* the longest window of a question without a limit
          Ttl,         \* time to live of a cached response
          CacheMax,    \* number of cached responses
          MaxLatency,  \* bound: time from a miss to its response
          MaxOpen,     \* bound: requests on their way
          MaxChanges,  \* bound: changes of the table
          MaxTime      \* bound: the clock

ASSUME FeedAssumption ==
    /\ Questions \subseteq [stream : Stream, limit : Nat, from : Nat, to : Nat]
    /\ RateTimes \subseteq Nat \ {0}
    /\ Day \in Nat \ {0} /\ StartTime \in Nat /\ StartTime > Day
    /\ Ttl \in Nat /\ CacheMax \in Nat \ {0}
    /\ MaxLatency \in Nat /\ MaxOpen \in Nat
    /\ MaxChanges \in Nat /\ MaxTime \in Nat /\ StartTime <= MaxTime

VARIABLES
    now,     \* the clock
    rates,   \* the table oracles
    past,    \* earlier contents of the table, and until when they held
    cache,   \* cached responses, the one used last at the end
    open,    \* requests that missed the cache
    shown    \* the responses given at this moment

vars == <<now, rates, past, cache, open, shown>>

\* The value of a rate goes with its call and stream.
Rate == [tx : Tx, stream : Stream, time : RateTimes, height : Nat \ {0}]
Window == Int \X Int
Request == [question : Questions, window : Window, since : Nat,
            answer : SUBSET Rate, read : BOOLEAN]
Response == [question : Questions, answer : SUBSET Rate, at : Nat]

TypeOK ==
    /\ now \in StartTime .. MaxTime
    /\ rates \subseteq Rate
    /\ past \in Seq([rates : SUBSET Rate, until : Nat])
    /\ cache \in Seq(Response) /\ Len(cache) <= CacheMax
    /\ \A i, j \in DOMAIN cache : cache[i].question = cache[j].question => i = j
    /\ open \subseteq Request
    /\ shown \subseteq Response

Init ==
    /\ now = StartTime
    /\ rates = {} /\ past = <<>>
    /\ cache = <<>> /\ open = {} /\ shown = {}

-----------------------------------------------------------------------------
(* The table.                                                              *)

Height == IF rates = {} THEN 0
          ELSE (CHOOSE r \in rates : \A q \in rates : q.height <= r.height).height

Change(new) ==
    /\ Len(past) < MaxChanges
    /\ rates' = new
    /\ past' = Append(past, [rates |-> rates, until |-> now])
    /\ shown' = {}
    /\ UNCHANGED <<now, cache, open>>

\* Mutated form: the height is that of the last block before this one.
SaveOracleBelow(tx, results) ==
    /\ \A r \in rates : r.tx # tx
    /\ Change(rates \cup {[tx |-> tx, stream |-> s, time |-> results[s],
                           height |-> Height] : s \in DOMAIN results})

\* The results of a call are looked at one by one; those of other keys and
\* those that are malformed are passed over.
SaveOracle(tx, results) ==
    /\ \A r \in rates : r.tx # tx
    /\ Change(rates \cup {[tx |-> tx, stream |-> s, time |-> results[s],
                           height |-> Height + 1] : s \in DOMAIN results})

\* A rollback: the blocks from height h on are deleted, with their rates.
RollbackTo(h) == Change({r \in rates : r.height < h})

-----------------------------------------------------------------------------
(* A question.  0 stands for a parameter that is not given.                *)

\* Mutated form: only a window without an end is cut to a day.
WindowUncut(q, clock) ==
    IF q.limit > 0 THEN <<q.from, q.to>>
    ELSE IF q.from = 0
           THEN LET to == IF q.to = 0 THEN clock ELSE q.to IN <<to - Day, to>>
    ELSE IF q.to = 0
           THEN <<q.from, q.from + Day>>
    ELSE <<q.from, q.to>>

\* The window of a question that is asked at the given time.
WindowOf(q, clock) ==
    IF q.limit > 0 THEN <<q.from, q.to>>
    ELSE IF q.from = 0
           THEN LET to == IF q.to = 0 THEN clock ELSE q.to IN <<to - Day, to>>
    ELSE IF q.to = 0 \/ q.to - q.from > Day
           THEN <<q.from, q.from + Day>>
    ELSE <<q.from, q.to>>

\* The rates within the window, its ends excluded: all of them, or the
\* newest.  Which of two with the same time comes first is not determined.
GetOracles(q, window, R) ==
    LET match == {r \in R : /\ r.stream = q.stream
                            /\ window[1] # 0 => r.time > window[1]
                            /\ window[2] # 0 => r.time < window[2]}
    IN  IF q.limit = 0 \/ Cardinality(match) <= q.limit THEN {match}
        ELSE {S \in SUBSET match :
                /\ Cardinality(S) = q.limit
                /\ \A r \in S, p \in match \ S : p.time <= r.time}

-----------------------------------------------------------------------------
(* The cache: responses by the URL of the request, which holds every       *)
(* parameter as it was given.                                              *)

\* Mutated form: an entry is found whatever its stream.
SlotsOfPath(q) == {i \in DOMAIN cache :
    [cache[i].question EXCEPT !.stream = q.stream] = q}

Slots(q) == {i \in DOMAIN cache : cache[i].question = q}
Without(q) == IF Slots(q) = {} THEN cache
              ELSE LET i == CHOOSE i \in Slots(q) : TRUE
                   IN  SubSeq(cache, 1, i - 1) \o SubSeq(cache, i + 1, Len(cache))
Fresh(q) == {i \in Slots(q) : now - cache[i].at <= Ttl}

Show(q, answer) ==
    shown' = {[question |-> q, answer |-> answer, at |-> now]}

Hit(q) ==
    /\ \E i \in Fresh(q) :
         /\ Show(q, cache[i].answer)
         /\ cache' = Append(Without(cache[i].question), cache[i])
    /\ UNCHANGED <<now, rates, past, open>>

Miss(q) ==
    /\ Fresh(q) = {}
    /\ Cardinality(open) < MaxOpen
    /\ open' = open \cup {[question |-> q, window |-> WindowOf(q, now),
                           since |-> now, answer |-> {}, read |-> FALSE]}
    /\ shown' = {}
    /\ UNCHANGED <<now, rates, past, cache>>

Read(r) ==
    /\ ~r.read
    /\ \E answer \in GetOracles(r.question, r.window, rates) :
         open' = (open \ {r}) \cup {[r EXCEPT !.read = TRUE, !.answer = answer]}
    /\ shown' = {}
    /\ UNCHANGED <<now, rates, past, cache>>

\* The response is cached as it is given; whatever was cached meanwhile is
\* replaced, and the entry that was used least recently makes place.
Respond(r) ==
    /\ r.read
    /\ Show(r.question, r.answer)
    /\ open' = open \ {r}
    /\ LET all == Append(Without(r.question),
                    [question |-> r.question, answer |-> r.answer, at |-> now])
       IN  cache' = IF Len(all) <= CacheMax THEN all ELSE Tail(all)
    /\ UNCHANGED <<now, rates, past>>

\* No request takes longer than MaxLatency.
Tick ==
    /\ now < MaxTime
    /\ \A r \in open : now < r.since + MaxLatency
    /\ now' = now + 1
    /\ shown' = {}
    /\ UNCHANGED <<rates, past, cache, open>>

-----------------------------------------------------------------------------
SomeSave == \E tx \in Tx, S \in SUBSET Stream : \E results \in [S -> RateTimes] :
              S # {} /\ SaveOracle(tx, results)
SomeRollback == \E h \in {r.height : r \in rates} : RollbackTo(h)
SomeHit == \E q \in Questions : Hit(q)
SomeMiss == \E q \in Questions : Miss(q)
SomeRead == \E r \in open : Read(r)
SomeResponse == \E r \in open : Respond(r)

Next == SomeSave \/ SomeRollback \/ SomeHit \/ SomeMiss \/ SomeRead
        \/ SomeResponse \/ Tick

Spec == Init /\ [][Next]_vars

-----------------------------------------------------------------------------
Recently(t) == t - (Ttl + MaxLatency) .. t

(* What a client is shown is the answer to its own question, from a table  *)
(* that was the current one at most a time to live and the latency of a    *)
(* request ago: no rate that a rollback deleted and none that was stored   *)
(* since is hidden or kept for longer, whichever requests overtake each    *)
(* other on the way to the cache.                                          *)
AnswersAreRecent ==
    \A s \in shown :
      \E v \in {past[i] : i \in DOMAIN past} \cup {[rates |-> rates, until |-> now]},
         clock \in Recently(s.at) :
        /\ v.until \in Recently(s.at)
        /\ s.answer \in GetOracles(s.question, WindowOf(s.question, clock), v.rates)

(* Without a limit an answer spans less than a day and keeps to the times  *)
(* that the client named, so that its size is bounded by what a day holds. *)
ADayWithoutLimit ==
    \A s \in shown : s.question.limit = 0 =>
      /\ \A p, r \in s.answer : p.time - r.time < Day
      /\ \A r \in s.answer : /\ r.time > s.question.from
                             /\ s.question.to # 0 => r.time < s.question.to
=============================================================================
