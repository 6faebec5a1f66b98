--------------------------- MODULE OracleFeedProofs ---------------------------
(***************************************************************************)
(* What clients are told of the oracles' rates is at most a time to live   *)
(* and the latency of a request old, and without a limit spans less than a *)
(* day: for any questions, rates, times to live and sizes of the cache,    *)
(* any number of blocks and rollbacks, and any requests that overtake each *)
(* other on their way to the cache.                                        *)
(***************************************************************************)
EXTENDS OracleFeed, SequenceLemmas

-----------------------------------------------------------------------------
(* The inductive invariant.                                                *)

\* The contents that the table has had, and until when; it has its present
\* contents still.
Versions == {past[i] : i \in DOMAIN past} \cup {[rates |-> rates, until |-> now]}

\* The answer to a question asked at the given time, from contents that the
\* table, whose contents are V, had at some time from then on.
AnswerSince(q, answer, clock, V) ==
    \E v \in V : /\ clock <= v.until
                 /\ answer \in GetOracles(q, WindowOf(q, clock), v.rates)

\* No contents are from the future.
PastIsPast == \A i \in 1 .. Len(past) : past[i].until <= now

\* A request on its way is no older than the latency; its window is of the
\* time at which it missed the cache, its answer was read since.
RequestsTimely ==
    \A r \in open :
      /\ StartTime <= r.since /\ r.since <= now
      /\ now <= r.since + MaxLatency
      /\ r.window = WindowOf(r.question, r.since)
      /\ r.read => AnswerSince(r.question, r.answer, r.since, Versions)

\* A cached response was asked for at most the latency before it was given.
CacheTimely ==
    \A i \in 1 .. Len(cache) :
      /\ cache[i].at <= now
      /\ \E clock \in StartTime .. cache[i].at :
           /\ cache[i].at <= clock + MaxLatency
           /\ AnswerSince(cache[i].question, cache[i].answer, clock, Versions)

\* So was what a client is shown, at the latest a time to live ago.
ShownTimely ==
    \A s \in shown :
      /\ s.at = now
      /\ \E clock \in StartTime .. now :
           /\ now <= clock + MaxLatency + Ttl
           /\ AnswerSince(s.question, s.answer, clock, Versions)

\* There is a last block, so that the next has a height.
HeightsBounded == \E b \in Nat : \A r \in rates : r.height <= b

IInv ==
    /\ TypeOK
    /\ HeightsBounded
    /\ PastIsPast
    /\ RequestsTimely
    /\ CacheTimely
    /\ ShownTimely

-----------------------------------------------------------------------------
(* Facts about the operators.                                              *)

(* An answer holds rates of the table that lie within the window.          *)
LEMMA AnswerWithin ==
  ASSUME NEW q, NEW window, NEW R, NEW answer \in GetOracles(q, window, R)
  PROVE  /\ answer \subseteq R
         /\ \A r \in answer : /\ window[1] # 0 => r.time > window[1]
                              /\ window[2] # 0 => r.time < window[2]
<1> DEFINE match == {r \in R : /\ r.stream = q.stream
                               /\ window[1] # 0 => r.time > window[1]
                               /\ window[2] # 0 => r.time < window[2]}
<1>1. answer \subseteq match
  <2> DEFINE newest == {S \in SUBSET match :
                          /\ Cardinality(S) = q.limit
                          /\ \A r \in S, p \in match \ S : p.time <= r.time}
  <2>1. answer \in IF q.limit = 0 \/ Cardinality(match) <= q.limit
                     THEN {match} ELSE newest
    BY DEF GetOracles
  <2> HIDE DEF match
  <2>2. newest \subseteq SUBSET match
    OBVIOUS
  <2> HIDE DEF newest
  <2> QED  BY <2>1, <2>2
<1> QED  BY <1>1

(* An answer stays one while contents are added and those that there were  *)
(* are only known to have held for longer.                                 *)
LEMMA AnswerStays ==
  ASSUME NEW V, NEW W, NEW q, NEW answer, NEW clock \in Nat,
         \A v \in V : /\ v.until \in Nat
                      /\ \E w \in W : /\ w.rates = v.rates
                                      /\ w.until \in Nat /\ v.until <= w.until,
         AnswerSince(q, answer, clock, V)
  PROVE  AnswerSince(q, answer, clock, W)
<1>1. PICK v \in V : /\ clock <= v.until
                     /\ answer \in GetOracles(q, WindowOf(q, clock), v.rates)
  BY DEF AnswerSince
<1>2. PICK w \in W : /\ w.rates = v.rates
                     /\ w.until \in Nat /\ v.until <= w.until
  OBVIOUS
<1>3. v.until \in Nat /\ clock <= w.until
  BY <1>1, <1>2
<1> QED  BY <1>1, <1>2, <1>3 DEF AnswerSince

(* The contents of the table that there were, with their times.            *)
LEMMA VersionsTyped ==
  ASSUME TypeOK, PastIsPast
  PROVE  \A v \in Versions : /\ v.rates \subseteq Rate
                             /\ v.until \in Nat /\ v.until <= now
<1>1. now \in Nat
  BY FeedAssumption DEF TypeOK
<1>2. ASSUME NEW i \in DOMAIN past
      PROVE  /\ past[i].rates \subseteq Rate
             /\ past[i].until \in Nat /\ past[i].until <= now
  <2>1. i \in 1 .. Len(past)
    BY LenProperties DEF TypeOK
  <2>2. past[i] \in [rates : SUBSET Rate, until : Nat]
    BY <2>1, ElementOfSeq DEF TypeOK
  <2> QED  BY <2>1, <2>2 DEF PastIsPast
<1>3. rates \subseteq Rate
  BY DEF TypeOK
<1> QED  BY <1>1, <1>2, <1>3 DEF Versions

(* An answer of any time is a set of rates.                                *)
LEMMA AnswerTyped ==
  ASSUME TypeOK, PastIsPast, NEW q, NEW answer, NEW clock,
         AnswerSince(q, answer, clock, Versions)
  PROVE  answer \subseteq Rate
BY VersionsTyped, AnswerWithin DEF AnswerSince

(* A response that is taken out leaves the others, in their order.         *)
LEMMA WithoutKeeps ==
  ASSUME TypeOK, NEW q
  PROVE  /\ Without(q) \in Seq(Response)
         /\ Len(Without(q)) <= Len(cache)
         /\ Slots(q) # {} => Len(Without(q)) = Len(cache) - 1
         /\ \A j \in 1 .. Len(Without(q)) :
              \E k \in 1 .. Len(cache) :
                Without(q)[j] = cache[k] /\ cache[k].question # q
         /\ \A j, k \in 1 .. Len(Without(q)) :
              Without(q)[j].question = Without(q)[k].question => j = k
<1>1. /\ cache \in Seq(Response) /\ Len(cache) \in Nat
      /\ DOMAIN cache = 1 .. Len(cache)
      /\ \A i, j \in 1 .. Len(cache) :
           cache[i].question = cache[j].question => i = j
  BY LenProperties DEF TypeOK
<1>2. CASE Slots(q) = {}
  <2>1. Without(q) = cache
    BY <1>2 DEF Without
  <2>2. \A k \in 1 .. Len(cache) : cache[k].question # q
    BY <1>1, <1>2 DEF Slots
  <2> QED  BY <1>1, <1>2, <2>1, <2>2
<1>3. CASE Slots(q) # {}
  <2> DEFINE i == CHOOSE i \in Slots(q) : TRUE
             t == SubSeq(cache, 1, i - 1) \o SubSeq(cache, i + 1, Len(cache))
  <2>1. i \in Slots(q)
    BY <1>3
  <2>2. i \in 1 .. Len(cache) /\ cache[i].question = q
    BY <1>1, <2>1 DEF Slots
  <2>3. Without(q) = t
    BY <1>3 DEF Without
  <2> HIDE DEF i
  <2>4. /\ t \in Seq(Response)
        /\ Len(t) = Len(cache) - 1
        /\ \A j \in 1 .. Len(t) : t[j] = IF j < i THEN cache[j] ELSE cache[j + 1]
    BY <1>1, <2>2, RemoveProperties
  <2> HIDE DEF t
  <2> DEFINE from(j) == IF j < i THEN j ELSE j + 1
  <2>5. \A j \in 1 .. Len(t) : /\ from(j) \in 1 .. Len(cache)
                               /\ from(j) # i
                               /\ t[j] = cache[from(j)]
    BY <1>1, <2>2, <2>4
  <2>6. \A j, k \in 1 .. Len(t) : from(j) = from(k) => j = k
    BY <1>1, <2>2, <2>4
  <2> HIDE DEF from
  <2>7. \A j \in 1 .. Len(t) : cache[from(j)].question # q
    BY <1>1, <2>2, <2>5
  <2>8. \A j, k \in 1 .. Len(t) : t[j].question = t[k].question => j = k
    BY <1>1, <2>5, <2>6
  <2>9. \A j \in 1 .. Len(t) :
          \E k \in 1 .. Len(cache) : t[j] = cache[k] /\ cache[k].question # q
    BY <2>5, <2>7
  <2>10. Len(t) <= Len(cache)
    BY <1>1, <2>4
  <2> QED  BY <2>3, <2>4, <2>8, <2>9, <2>10
<1> QED  BY <1>2, <1>3

(* A response that is put at the end of what is left by taking out those   *)
(* of its question, with the first given up where the cache is full.       *)
LEMMA CacheAfter ==
  ASSUME TypeOK, NEW e \in Response,
         LET all == Append(Without(e.question), e)
         IN  cache' = IF Len(all) <= CacheMax THEN all ELSE Tail(all)
  PROVE  /\ cache' \in Seq(Response)
         /\ Len(cache') <= CacheMax
         /\ \A i, j \in DOMAIN cache' :
              cache'[i].question = cache'[j].question => i = j
         /\ \A j \in 1 .. Len(cache') :
              \/ cache'[j] = e
              \/ \E k \in 1 .. Len(cache) : cache'[j] = cache[k]
<1> DEFINE kept == Without(e.question)
           all  == Append(kept, e)
<1>1. /\ kept \in Seq(Response) /\ Len(kept) <= Len(cache)
      /\ \A j \in 1 .. Len(kept) :
           \E k \in 1 .. Len(cache) :
             kept[j] = cache[k] /\ cache[k].question # e.question
      /\ \A j, k \in 1 .. Len(kept) : kept[j].question = kept[k].question => j = k
  BY WithoutKeeps
<1>2. Len(cache) \in Nat /\ Len(cache) <= CacheMax /\ Len(kept) \in Nat
  BY <1>1, LenProperties DEF TypeOK
<1> HIDE DEF kept
<1>3. /\ all \in Seq(Response) /\ all # <<>>
      /\ Len(all) = Len(kept) + 1
      /\ \A j \in 1 .. Len(kept) : all[j] = kept[j]
      /\ all[Len(kept) + 1] = e
  BY <1>1, AppendProperties
<1> HIDE DEF all
<1>4. \A j \in 1 .. Len(all) :
        all[j] = e \/ \E k \in 1 .. Len(cache) : all[j] = cache[k]
  <2> SUFFICES ASSUME NEW j \in 1 .. Len(all)
               PROVE  all[j] = e \/ \E k \in 1 .. Len(cache) : all[j] = cache[k]
    OBVIOUS
  <2>1. j \in 1 .. Len(kept) \/ j = Len(kept) + 1
    BY <1>2, <1>3
  <2> QED  BY ZenonT(60), <2>1, <1>1, <1>3
<1>5. \A j, k \in 1 .. Len(all) : all[j].question = all[k].question => j = k
  <2> SUFFICES ASSUME NEW j \in 1 .. Len(all), NEW k \in 1 .. Len(all),
                      all[j].question = all[k].question
               PROVE  j = k
    OBVIOUS
  <2>1. /\ j \in 1 .. Len(kept) \/ j = Len(kept) + 1
        /\ k \in 1 .. Len(kept) \/ k = Len(kept) + 1
    BY <1>2, <1>3
  <2>2. \A l \in 1 .. Len(kept) : kept[l].question # e.question
    BY <1>1
  <2> QED  BY <2>1, <2>2, <1>1, <1>3
<1>6. CASE Len(all) <= CacheMax
  <2>1. cache' = all /\ DOMAIN all = 1 .. Len(all)
    BY <1>3, <1>6, LenProperties DEF all, kept
  <2> QED  BY ZenonT(60), <2>1, <1>3, <1>4, <1>5, <1>6
<1>7. CASE ~(Len(all) <= CacheMax)
  <2>1. cache' = Tail(all)
    BY <1>7 DEF all, kept
  <2>2. /\ Tail(all) \in Seq(Response) /\ Len(Tail(all)) = Len(all) - 1
        /\ \A j \in 1 .. Len(Tail(all)) : Tail(all)[j] = all[j + 1]
    BY <1>3, HeadTailProperties
  <2>3. /\ DOMAIN Tail(all) = 1 .. Len(Tail(all))
        /\ \A j \in 1 .. Len(Tail(all)) : j + 1 \in 1 .. Len(all)
    BY <2>2, <1>2, <1>3, LenProperties
  <2>4. Len(Tail(all)) <= CacheMax
    BY <2>2, <1>1, <1>2, <1>3, FeedAssumption
  <2>5. \A j \in 1 .. Len(Tail(all)) :
          \/ Tail(all)[j] = e
          \/ \E k \in 1 .. Len(cache) : Tail(all)[j] = cache[k]
    BY <2>2, <2>3, <1>4
  <2>6. \A i, j \in 1 .. Len(Tail(all)) :
          Tail(all)[i].question = Tail(all)[j].question => i = j
    <3> SUFFICES ASSUME NEW i \in 1 .. Len(Tail(all)), NEW j \in 1 .. Len(Tail(all)),
                        Tail(all)[i].question = Tail(all)[j].question
                 PROVE  i = j
      OBVIOUS
    <3>1. i + 1 = j + 1
      BY <2>2, <2>3, <1>5
    <3> QED  BY <3>1
  <2> QED  BY ZenonT(60), <2>1, <2>2, <2>3, <2>4, <2>5, <2>6
<1> QED  BY <1>6, <1>7

-----------------------------------------------------------------------------
(* What a step that gives no response keeps.                               *)

(* The invariant of the requests, the cache and the responses, but for the *)
(* ages, survives any change of the versions that adds to them.            *)
VersionsGrow ==
    \A v \in Versions : \E w \in Versions' : /\ w.rates = v.rates
                                             /\ w.until \in Nat
                                             /\ v.until <= w.until

LEMMA SinceStays ==
  ASSUME TypeOK, PastIsPast, VersionsGrow,
         NEW q, NEW answer, NEW clock \in Nat,
         AnswerSince(q, answer, clock, Versions)
  PROVE  AnswerSince(q, answer, clock, Versions')
<1>1. \A v \in Versions : v.until \in Nat
  BY VersionsTyped
<1>2. \A v \in Versions : /\ v.until \in Nat
                          /\ \E w \in Versions' : /\ w.rates = v.rates
                                                  /\ w.until \in Nat
                                                  /\ v.until <= w.until
  BY <1>1 DEF VersionsGrow
<1> DEFINE V == Versions
           W == Versions'
<1>3. \A v \in V : /\ v.until \in Nat
                   /\ \E w \in W : /\ w.rates = v.rates
                                   /\ w.until \in Nat
                                   /\ v.until <= w.until
  BY <1>2
<1>4. AnswerSince(q, answer, clock, V)
  OBVIOUS
<1> HIDE DEF V, W
<1>5. AnswerSince(q, answer, clock, W)
  BY <1>3, <1>4, AnswerStays
<1> QED  BY <1>5 DEF W

(* The table keeps its contents while the clock runs.                      *)
LEMMA VersionsOfLater ==
  ASSUME TypeOK, PastIsPast, UNCHANGED <<rates, past>>,
         now' \in Nat, now <= now'
  PROVE  VersionsGrow
<1>1. Versions' = {past[i] : i \in DOMAIN past} \cup {[rates |-> rates, until |-> now']}
  BY DEF Versions
<1>2. now \in Nat
  BY FeedAssumption DEF TypeOK
<1>3. ASSUME NEW v \in Versions
      PROVE  \E w \in Versions' : /\ w.rates = v.rates
                                  /\ w.until \in Nat
                                  /\ v.until <= w.until
  <2>1. v.until \in Nat
    BY VersionsTyped
  <2>2. CASE v \in {past[i] : i \in DOMAIN past}
    <3>1. v \in Versions' /\ v.until <= v.until
      BY <1>1, <2>1, <2>2
    <3> QED  BY <2>1, <3>1
  <2>3. CASE v = [rates |-> rates, until |-> now]
    <3> DEFINE w == [rates |-> rates, until |-> now']
    <3>1. w \in Versions'
      BY <1>1
    <3>2. w.rates = v.rates /\ w.until = now' /\ v.until = now
      BY <2>3
    <3> HIDE DEF w
    <3> QED  BY <3>1, <3>2
  <2> QED  BY <2>2, <2>3 DEF Versions
<1> QED  BY <1>3 DEF VersionsGrow

(* A change of the table is one more version, and all of the others stay.  *)
LEMMA VersionsOfChange ==
  ASSUME TypeOK, PastIsPast, NEW new \in SUBSET Rate, Change(new)
  PROVE  VersionsGrow /\ PastIsPast'
         /\ past' \in Seq([rates : SUBSET Rate, until : Nat])
<1> DEFINE last == [rates |-> rates, until |-> now]
           Past == [rates : SUBSET Rate, until : Nat]
<1>1. past' = Append(past, last) /\ now' = now /\ rates' = new
  BY DEF Change
<1>2. now \in Nat /\ past \in Seq(Past) /\ last \in Past /\ last.until = now
  BY FeedAssumption DEF TypeOK
<1> HIDE DEF Past
<1>3. DOMAIN past = 1 .. Len(past) /\ Len(past) \in Nat
  BY <1>2, LenProperties
<1> HIDE DEF last
<1>4. /\ past' \in Seq(Past)
      /\ Len(past') = Len(past) + 1
      /\ \A i \in 1 .. Len(past) : past'[i] = past[i]
      /\ past'[Len(past) + 1] = last
  BY <1>1, <1>2, AppendProperties
<1>5. DOMAIN past' = 1 .. Len(past') /\ Len(past) + 1 \in DOMAIN past'
  BY <1>3, <1>4, LenProperties
<1>6. last \in Versions' /\ \A i \in DOMAIN past : past[i] \in Versions'
  <2>1. \A i \in DOMAIN past' : past'[i] \in Versions'
    BY DEF Versions
  <2>2. \A i \in DOMAIN past : i \in DOMAIN past'
    BY <1>3, <1>4, <1>5
  <2> QED  BY <2>1, <2>2, <1>3, <1>4, <1>5
<1>7. Versions \subseteq Versions'
  BY <1>6 DEF Versions, last
<1>8. VersionsGrow
  <2> SUFFICES ASSUME NEW v \in Versions
               PROVE  v \in Versions' /\ v.until \in Nat /\ v.until <= v.until
    BY DEF VersionsGrow
  <2>1. v.until \in Nat
    BY VersionsTyped
  <2> QED  BY <1>7, <2>1
<1>9. PastIsPast'
  <2> SUFFICES ASSUME NEW i \in 1 .. Len(past') PROVE past'[i].until <= now
    BY <1>1 DEF PastIsPast
  <2>1. i \in 1 .. Len(past) \/ i = Len(past) + 1
    BY <1>3, <1>4
  <2> QED  BY <2>1, <1>2, <1>4 DEF PastIsPast
<1> QED  BY <1>4, <1>8, <1>9 DEF Past

(* The cache stays timely while its contents and the versions stay and the *)
(* clock does not go back.                                                 *)
LEMMA CacheCarried ==
  ASSUME TypeOK, PastIsPast, CacheTimely, VersionsGrow,
         UNCHANGED cache, now' \in Nat, now <= now'
  PROVE  CacheTimely'
<1> SUFFICES ASSUME NEW i \in 1 .. Len(cache)
             PROVE  /\ cache[i].at <= now'
                    /\ \E clock \in StartTime .. cache[i].at :
                         /\ cache[i].at <= clock + MaxLatency
                         /\ AnswerSince(cache[i].question, cache[i].answer,
                                        clock, Versions')
  BY DEF CacheTimely
<1> DEFINE e == cache[i]
<1>1. e.at \in Nat /\ e.at <= now /\ now \in Nat
  <2>1. e \in Response
    BY ElementOfSeq DEF TypeOK
  <2>2. e.at \in Nat
    BY <2>1 DEF Response
  <2>3. e.at <= now
    BY DEF CacheTimely
  <2>4. now \in Nat
    BY FeedAssumption DEF TypeOK
  <2> QED  BY <2>2, <2>3, <2>4
<1>2. PICK clock \in StartTime .. e.at :
        /\ e.at <= clock + MaxLatency
        /\ AnswerSince(e.question, e.answer, clock, Versions)
  BY DEF CacheTimely
<1>3. clock \in Nat
  BY FeedAssumption
<1>4. PICK q, answer : q = e.question /\ answer = e.answer
  OBVIOUS
<1>5. AnswerSince(q, answer, clock, Versions')
  BY <1>2, <1>3, <1>4, SinceStays
<1>6. e.at <= now'
  BY <1>1
<1> QED  BY <1>2, <1>4, <1>5, <1>6

-----------------------------------------------------------------------------
(* Each step preserves the invariant.                                      *)

(* It holds at the start, when nothing was asked yet.                      *)
LEMMA InitIInv == Init => IInv
<1> SUFFICES ASSUME Init PROVE IInv
  OBVIOUS
<1>1. \A S : <<>> \in Seq(S) /\ Len(<<>>) = 0 /\ DOMAIN <<>> = {}
  BY EmptySeq
<1>2. now \in StartTime .. MaxTime
  BY FeedAssumption DEF Init
<1>3. /\ cache \in Seq(Response) /\ Len(cache) <= CacheMax
      /\ \A i, j \in DOMAIN cache : cache[i].question = cache[j].question => i = j
  BY <1>1, FeedAssumption DEF Init
<1>4. past \in Seq([rates : SUBSET Rate, until : Nat])
  BY <1>1 DEF Init
<1>5. TypeOK
  BY <1>2, <1>3, <1>4 DEF Init, TypeOK
<1>6. PastIsPast /\ CacheTimely
  BY <1>1 DEF Init, PastIsPast, CacheTimely
<1>7. RequestsTimely /\ ShownTimely
  BY DEF Init, RequestsTimely, ShownTimely
<1>8. HeightsBounded
  BY DEF Init, HeightsBounded
<1> QED  BY <1>5, <1>6, <1>7, <1>8 DEF IInv

(* A change of the table: rates are stored, or a rollback deletes some.    *)
LEMMA ChangeIInv ==
  ASSUME IInv, NEW new \in SUBSET Rate, Change(new),
         NEW b \in Nat, \A r \in new : r.height <= b
  PROVE  IInv'
<1> USE DEF IInv
<1>1. UNCHANGED <<now, cache, open>> /\ rates' = new /\ shown' = {}
  BY DEF Change
<1>2. /\ VersionsGrow /\ PastIsPast'
      /\ past' \in Seq([rates : SUBSET Rate, until : Nat])
  BY VersionsOfChange
<1>3. TypeOK'
  BY <1>1, <1>2 DEF TypeOK
<1>4. now \in Nat
  BY FeedAssumption DEF TypeOK
<1>5. CacheTimely'
  BY <1>1, <1>2, <1>4, CacheCarried
<1>6. RequestsTimely'
  <2> SUFFICES ASSUME NEW r \in open, r.read
               PROVE  AnswerSince(r.question, r.answer, r.since, Versions')
    BY <1>1 DEF RequestsTimely
  <2>1. r.since \in Nat
    BY DEF TypeOK, Request
  <2> QED  BY <1>2, <2>1, SinceStays DEF RequestsTimely
<1>7. ShownTimely'
  BY <1>1 DEF ShownTimely
<1>8. HeightsBounded'
  BY <1>1 DEF HeightsBounded
<1> QED  BY <1>2, <1>3, <1>5, <1>6, <1>7, <1>8

(* A block stores the rates of an oracle call.                             *)
LEMMA SaveIInv == IInv /\ SomeSave => IInv'
<1> SUFFICES ASSUME IInv, NEW tx \in Tx, NEW S \in SUBSET Stream,
                    NEW results \in [S -> RateTimes], SaveOracle(tx, results)
             PROVE  IInv'
  BY DEF SomeSave
<1> DEFINE stored == {[tx |-> tx, stream |-> s, time |-> results[s],
                       height |-> Height + 1] : s \in DOMAIN results}
<1>1. Height \in Nat /\ \A r \in rates : r.height <= Height
  <2>1. CASE rates = {}
    BY <2>1 DEF Height
  <2>2. CASE rates # {}
    <3> DEFINE heights == {r.height : r \in rates}
    <3>1. \A r \in rates : r.height \in Nat
      BY DEF IInv, TypeOK, Rate
    <3>2. PICK b \in Nat : \A r \in rates : r.height <= b
      BY DEF IInv, HeightsBounded
    <3>3. heights \in SUBSET Nat /\ heights # {} /\ \A n \in heights : n <= b
      BY <2>2, <3>1, <3>2
    <3>4. \E m \in heights : \A n \in heights : n <= m
      <4> HIDE DEF heights
      <4> QED  BY <3>3, GreatestNatural
    <3>5. \E r \in rates : \A q \in rates : q.height <= r.height
      BY <3>4
    <3> QED  BY <2>2, <3>1, <3>5 DEF Height
  <2> QED  BY <2>1, <2>2
<1>2. Height + 1 \in Nat \ {0}
  BY <1>1
<1>3. stored \in SUBSET Rate /\ \A r \in stored : r.height = Height + 1
  BY <1>2 DEF Rate
<1>4. Change(rates \cup stored)
  BY DEF SaveOracle
<1> HIDE DEF stored
<1>5. rates \cup stored \in SUBSET Rate
  BY <1>3 DEF IInv, TypeOK
<1>6. \A r \in rates \cup stored : r.height <= Height + 1
  <2>1. \A r \in rates : r.height \in Nat
    BY DEF IInv, TypeOK, Rate
  <2> QED  BY <1>1, <1>3, <2>1
<1>7. Height + 1 \in Nat
  BY <1>1
<1> QED  BY <1>4, <1>5, <1>6, <1>7, ChangeIInv

(* A rollback deletes the rates of the blocks that it undoes.              *)
LEMMA RollbackIInv == IInv /\ SomeRollback => IInv'
<1> SUFFICES ASSUME IInv, NEW h, RollbackTo(h) PROVE IInv'
  BY DEF SomeRollback
<1> DEFINE left == {r \in rates : r.height < h}
<1>1. left \in SUBSET Rate
  BY DEF IInv, TypeOK
<1>2. PICK b \in Nat : \A r \in left : r.height <= b
  BY DEF IInv, HeightsBounded
<1> QED  BY <1>1, <1>2, ChangeIInv DEF RollbackTo

(* What a step that leaves the table and the clock alone keeps.            *)
LEMMA TableKept ==
  ASSUME IInv, UNCHANGED <<now, rates, past>>
  PROVE  Versions' = Versions /\ PastIsPast' /\ HeightsBounded'
BY DEF IInv, Versions, PastIsPast, HeightsBounded

(* A question finds its response in the cache.                             *)
LEMMA HitIInv == IInv /\ SomeHit => IInv'
<1> SUFFICES ASSUME IInv, NEW q \in Questions, Hit(q) PROVE IInv'
  BY DEF SomeHit
<1> USE DEF IInv
<1>1. PICK i \in Fresh(q) :
        /\ Show(q, cache[i].answer)
        /\ cache' = Append(Without(cache[i].question), cache[i])
  BY DEF Hit
<1>2. UNCHANGED <<now, rates, past, open>>
  BY DEF Hit
<1>3. i \in 1 .. Len(cache) /\ cache[i].question = q /\ now - cache[i].at <= Ttl
  BY LenProperties DEF Fresh, Slots, TypeOK
<1>4. PICK e : e = cache[i]
  OBVIOUS
<1>5. e \in Response
  BY <1>3, <1>4, ElementOfSeq DEF TypeOK
<1>6. e.question \in Questions /\ e.at \in Nat /\ e.answer \subseteq Rate
  BY <1>5 DEF Response
<1>7. now \in Nat
  BY FeedAssumption DEF TypeOK
<1>8. /\ cache' \in Seq(Response)
      /\ Len(cache') <= CacheMax
      /\ \A j, k \in DOMAIN cache' :
           cache'[j].question = cache'[k].question => j = k
      /\ \A j \in 1 .. Len(cache') :
           \E k \in 1 .. Len(cache) : cache'[j] = cache[k]
  <2>1. Slots(e.question) # {}
    BY <1>1, <1>3, <1>4 DEF Fresh
  <2>2. /\ Without(e.question) \in Seq(Response)
        /\ Len(Without(e.question)) = Len(cache) - 1
    BY <2>1, WithoutKeeps
  <2>3. Len(Append(Without(e.question), e)) = Len(Without(e.question)) + 1
    BY <1>5, <2>2, AppendProperties
  <2>4. Len(cache) \in Nat /\ Len(cache) <= CacheMax
    BY LenProperties DEF TypeOK
  <2>5. Len(Append(Without(e.question), e)) <= CacheMax
    BY <2>2, <2>3, <2>4
  <2>6. cache' = Append(Without(e.question), e)
    BY <1>1, <1>4
  <2>7. LET all == Append(Without(e.question), e)
        IN  cache' = IF Len(all) <= CacheMax THEN all ELSE Tail(all)
    BY <2>5, <2>6
  <2> QED  BY <1>3, <1>4, <1>5, <2>7, CacheAfter
<1>9. shown' = {[question |-> q, answer |-> e.answer, at |-> now]}
  BY <1>1, <1>4 DEF Show
<1>10. TypeOK'
  <2>1. shown' \subseteq Response
    BY <1>6, <1>7, <1>9 DEF Response
  <2> QED  BY <1>2, <1>8, <2>1 DEF TypeOK
<1>11. Versions' = Versions /\ PastIsPast' /\ HeightsBounded'
  BY <1>2, TableKept
<1>12. RequestsTimely'
  BY <1>2, <1>11 DEF RequestsTimely
<1>13. CacheTimely'
  BY <1>2, <1>8, <1>11 DEF CacheTimely
<1>14. ShownTimely'
  <2>1. PICK clock \in StartTime .. e.at :
          /\ e.at <= clock + MaxLatency
          /\ AnswerSince(q, e.answer, clock, Versions)
    BY <1>3, <1>4 DEF CacheTimely
  <2>2. e.at <= now
    BY <1>3, <1>4 DEF CacheTimely
  <2>3. clock \in StartTime .. now /\ now <= clock + MaxLatency + Ttl
    BY <1>3, <1>4, <1>6, <1>7, <2>1, <2>2, FeedAssumption
  <2> QED  BY <1>2, <1>9, <1>11, <2>1, <2>3 DEF ShownTimely
<1> QED  BY <1>10, <1>11, <1>12, <1>13, <1>14

(* A question misses the cache.                                            *)
LEMMA MissIInv == IInv /\ SomeMiss => IInv'
<1> SUFFICES ASSUME IInv, NEW q \in Questions, Miss(q) PROVE IInv'
  BY DEF SomeMiss
<1> USE DEF IInv
<1> DEFINE r == [question |-> q, window |-> WindowOf(q, now), since |-> now,
                 answer |-> {}, read |-> FALSE]
<1>1. open' = open \cup {r} /\ shown' = {}
      /\ UNCHANGED <<now, rates, past, cache>>
  BY DEF Miss
<1>2. now \in Nat /\ StartTime <= now
  BY FeedAssumption DEF TypeOK
<1>3. WindowOf(q, now) \in Window
  BY <1>2, FeedAssumption DEF WindowOf, Window
<1>4. r \in Request
  BY <1>2, <1>3 DEF Request
<1>5. /\ r.since = now /\ r.question = q /\ r.window = WindowOf(q, now)
      /\ r.read = FALSE
  OBVIOUS
<1> HIDE DEF r
<1>6. TypeOK'
  BY <1>1, <1>4 DEF TypeOK
<1>7. Versions' = Versions /\ PastIsPast' /\ HeightsBounded'
  BY <1>1, TableKept
<1>8. now <= now + MaxLatency
  BY <1>2, FeedAssumption
<1>9. RequestsTimely'
  BY <1>1, <1>2, <1>5, <1>7, <1>8 DEF RequestsTimely
<1>10. CacheTimely' /\ ShownTimely'
  BY <1>1, <1>7 DEF CacheTimely, ShownTimely
<1> QED  BY <1>6, <1>7, <1>9, <1>10

(* A request reads the table.                                              *)
LEMMA ReadIInv == IInv /\ SomeRead => IInv'
<1> SUFFICES ASSUME IInv, NEW r \in open, Read(r) PROVE IInv'
  BY DEF SomeRead
<1> USE DEF IInv
<1>1. PICK answer \in GetOracles(r.question, r.window, rates) :
        open' = (open \ {r}) \cup {[r EXCEPT !.read = TRUE, !.answer = answer]}
  BY DEF Read
<1>2. shown' = {} /\ UNCHANGED <<now, rates, past, cache>>
  BY DEF Read
<1> DEFINE done == [r EXCEPT !.read = TRUE, !.answer = answer]
<1>3. r \in Request /\ answer \subseteq Rate
  BY AnswerWithin DEF TypeOK
<1>4. /\ done \in Request
      /\ done.question = r.question /\ done.window = r.window
      /\ done.since = r.since /\ done.answer = answer
  BY <1>3 DEF Request
<1> HIDE DEF done
<1>5. TypeOK'
  BY <1>1, <1>2, <1>4 DEF TypeOK, done
<1>6. Versions' = Versions /\ PastIsPast' /\ HeightsBounded'
  BY <1>2, TableKept
<1>7. AnswerSince(r.question, answer, r.since, Versions)
  <2> DEFINE current == [rates |-> rates, until |-> now]
  <2>1. current \in Versions /\ current.rates = rates /\ current.until = now
    BY DEF Versions
  <2>2. r.since <= now /\ r.window = WindowOf(r.question, r.since)
    BY DEF RequestsTimely
  <2> HIDE DEF current
  <2> QED  BY <2>1, <2>2 DEF AnswerSince
<1>8. RequestsTimely'
  BY <1>1, <1>2, <1>4, <1>6, <1>7 DEF RequestsTimely, done
<1>9. CacheTimely' /\ ShownTimely'
  BY <1>2, <1>6 DEF CacheTimely, ShownTimely
<1> QED  BY <1>5, <1>6, <1>8, <1>9

(* A request gives its response, which the cache keeps.                    *)
LEMMA RespondIInv == IInv /\ SomeResponse => IInv'
<1> SUFFICES ASSUME IInv, NEW r \in open, Respond(r) PROVE IInv'
  BY DEF SomeResponse
<1> USE DEF IInv
<1> DEFINE e == [question |-> r.question, answer |-> r.answer, at |-> now]
<1>1. /\ r.read /\ shown' = {e} /\ open' = open \ {r}
      /\ UNCHANGED <<now, rates, past>>
  BY DEF Respond, Show
<1>2. r \in Request
  BY DEF TypeOK
<1>3. now \in Nat
  BY FeedAssumption DEF TypeOK
<1>4. /\ e \in Response
      /\ e.question = r.question /\ e.answer = r.answer /\ e.at = now
  BY <1>2, <1>3 DEF Request, Response
<1>5. LET all == Append(Without(e.question), e)
      IN  cache' = IF Len(all) <= CacheMax THEN all ELSE Tail(all)
  BY DEF Respond
<1> HIDE DEF e
<1>6. /\ cache' \in Seq(Response)
      /\ Len(cache') <= CacheMax
      /\ \A i, j \in DOMAIN cache' :
           cache'[i].question = cache'[j].question => i = j
      /\ \A j \in 1 .. Len(cache') :
           \/ cache'[j] = e
           \/ \E k \in 1 .. Len(cache) : cache'[j] = cache[k]
  BY <1>4, <1>5, CacheAfter
<1>7. TypeOK'
  BY <1>1, <1>4, <1>6 DEF TypeOK
<1>8. Versions' = Versions /\ PastIsPast' /\ HeightsBounded'
  BY <1>1, TableKept
<1>9. RequestsTimely'
  BY <1>1, <1>8 DEF RequestsTimely
<1>10. /\ r.since \in StartTime .. now
       /\ now <= r.since + MaxLatency
       /\ AnswerSince(e.question, e.answer, r.since, Versions)
  <2>1. r.since \in Nat
    BY <1>2 DEF Request
  <2> QED  BY <1>1, <1>3, <1>4, <2>1, FeedAssumption DEF RequestsTimely
<1>11. CacheTimely'
  <2> SUFFICES ASSUME NEW j \in 1 .. Len(cache')
               PROVE  /\ cache'[j].at <= now
                      /\ \E clock \in StartTime .. cache'[j].at :
                           /\ cache'[j].at <= clock + MaxLatency
                           /\ AnswerSince(cache'[j].question, cache'[j].answer,
                                          clock, Versions)
    BY <1>1, <1>8 DEF CacheTimely
  <2>1. CASE cache'[j] = e
    BY <1>3, <1>4, <1>10, <2>1
  <2>2. CASE \E k \in 1 .. Len(cache) : cache'[j] = cache[k]
    BY <2>2 DEF CacheTimely
  <2> QED  BY <1>6, <2>1, <2>2
<1>12. ShownTimely'
  <2>1. now <= r.since + MaxLatency + Ttl
    BY <1>3, <1>10, FeedAssumption
  <2> QED  BY <1>1, <1>4, <1>8, <1>10, <2>1 DEF ShownTimely
<1> QED  BY <1>7, <1>8, <1>9, <1>11, <1>12

(* Time passes, while no request is at the end of its latency.             *)
LEMMA TickIInv == IInv /\ Tick => IInv'
<1> SUFFICES ASSUME IInv, Tick PROVE IInv'
  OBVIOUS
<1> USE DEF IInv
<1>1. /\ now < MaxTime /\ now' = now + 1 /\ shown' = {}
      /\ \A r \in open : now < r.since + MaxLatency
      /\ UNCHANGED <<rates, past, cache, open>>
  BY DEF Tick
<1>2. now \in Nat /\ now' \in Nat /\ now <= now'
      /\ now' \in StartTime .. MaxTime
  BY <1>1, FeedAssumption DEF TypeOK
<1>3. TypeOK'
  BY <1>1, <1>2 DEF TypeOK
<1>4. VersionsGrow
  BY <1>1, <1>2, VersionsOfLater
<1>5. PastIsPast'
  <2> SUFFICES ASSUME NEW i \in 1 .. Len(past) PROVE past[i].until <= now + 1
    BY <1>1 DEF PastIsPast
  <2>1. past[i] \in [rates : SUBSET Rate, until : Nat]
    BY ElementOfSeq DEF TypeOK
  <2>2. past[i].until \in Nat
    BY <2>1
  <2> QED  BY <1>2, <2>2 DEF PastIsPast
<1>6. CacheTimely'
  BY <1>1, <1>2, <1>4, CacheCarried
<1>7. RequestsTimely'
  <2> SUFFICES ASSUME NEW r \in open
               PROVE  /\ r.since <= now + 1
                      /\ now + 1 <= r.since + MaxLatency
                      /\ r.read => AnswerSince(r.question, r.answer, r.since,
                                               Versions')
    BY <1>1 DEF RequestsTimely
  <2>1. r.since \in Nat
    BY DEF TypeOK, Request
  <2>2. r.since <= now /\ now < r.since + MaxLatency
    BY <1>1 DEF RequestsTimely
  <2>3. r.since <= now + 1 /\ now + 1 <= r.since + MaxLatency
    BY <1>2, <2>1, <2>2, FeedAssumption
  <2>4. r.read => AnswerSince(r.question, r.answer, r.since, Versions')
    BY <1>4, <2>1, SinceStays DEF RequestsTimely
  <2> QED  BY <2>3, <2>4
<1>8. ShownTimely' /\ HeightsBounded'
  BY <1>1 DEF ShownTimely, HeightsBounded
<1> QED  BY <1>3, <1>5, <1>6, <1>7, <1>8

(* Every step keeps the invariant.                                         *)
LEMMA NextIInv == IInv /\ [Next]_vars => IInv'
<1> SUFFICES ASSUME IInv, [Next]_vars PROVE IInv'
  OBVIOUS
<1>1. CASE UNCHANGED vars
  BY <1>1 DEF vars, IInv, TypeOK, HeightsBounded, PastIsPast, RequestsTimely,
              CacheTimely, ShownTimely, Versions
<1> QED  BY <1>1, SaveIInv, RollbackIInv, HitIInv, MissIInv, ReadIInv,
            RespondIInv, TickIInv DEF Next

-----------------------------------------------------------------------------
(* What a client is shown, however it came to be, follows from when its    *)
(* request missed the cache and what the table held since.                 *)
LEMMA ShownIsRecent == IInv => AnswersAreRecent
<1> SUFFICES ASSUME IInv, NEW s \in shown
             PROVE  \E v \in Versions, clock \in Recently(s.at) :
                      /\ v.until \in Recently(s.at)
                      /\ s.answer \in GetOracles(s.question,
                                        WindowOf(s.question, clock), v.rates)
  BY DEF AnswersAreRecent, Versions
<1> USE DEF IInv
<1>1. s.at = now /\ now \in Nat
  BY FeedAssumption DEF ShownTimely, TypeOK
<1>2. PICK clock \in StartTime .. now :
        /\ now <= clock + MaxLatency + Ttl
        /\ AnswerSince(s.question, s.answer, clock, Versions)
  BY DEF ShownTimely
<1>3. PICK v \in Versions :
        /\ clock <= v.until
        /\ s.answer \in GetOracles(s.question, WindowOf(s.question, clock), v.rates)
  BY <1>2 DEF AnswerSince
<1>4. v.until \in Nat /\ v.until <= now
  BY VersionsTyped
<1>5. clock \in Recently(s.at) /\ v.until \in Recently(s.at)
  BY <1>1, <1>2, <1>3, <1>4, FeedAssumption DEF Recently
<1> QED  BY <1>3, <1>5

(* The window of a question without a limit is a day or less, lies within  *)
(* what the client named and is never unbounded by being zero, save at its *)
(* beginning, where no rate is older.                                      *)
LEMMA WindowWithinADay ==
  ASSUME NEW q \in Questions, q.limit = 0, NEW clock \in Nat, clock >= StartTime
  PROVE  LET w == WindowOf(q, clock)
         IN  /\ w[1] \in Int /\ w[2] \in Nat \ {0}
             /\ w[2] - w[1] <= Day
             /\ q.from <= w[1] \/ q.from = 0
             /\ q.from # 0 => w[1] # 0
             /\ q.to # 0 => w[2] <= q.to
  BY FeedAssumption DEF WindowOf

(* So the rates of an answer without a limit are less than a day apart.    *)
LEMMA ShownWithinADay == IInv => ADayWithoutLimit
<1> SUFFICES ASSUME IInv, NEW s \in shown, s.question.limit = 0
             PROVE  /\ \A p, r \in s.answer : p.time - r.time < Day
                    /\ \A r \in s.answer :
                         /\ r.time > s.question.from
                         /\ s.question.to # 0 => r.time < s.question.to
  BY DEF ADayWithoutLimit
<1> USE DEF IInv
<1> DEFINE q == s.question
<1>1. q \in Questions /\ q.from \in Nat /\ q.to \in Nat
  BY FeedAssumption DEF TypeOK, Response
<1>2. PICK clock \in StartTime .. now : AnswerSince(q, s.answer, clock, Versions)
  BY DEF ShownTimely
<1>3. clock \in Nat /\ clock >= StartTime
  BY FeedAssumption DEF TypeOK
<1> DEFINE w == WindowOf(q, clock)
<1>4. PICK v \in Versions : s.answer \in GetOracles(q, w, v.rates)
  BY <1>2 DEF AnswerSince
<1>5. /\ s.answer \subseteq Rate
      /\ \A r \in s.answer : /\ w[1] # 0 => r.time > w[1]
                             /\ w[2] # 0 => r.time < w[2]
  BY <1>4, AnswerWithin, VersionsTyped
<1>6. /\ w[1] \in Int /\ w[2] \in Nat \ {0}
      /\ w[2] - w[1] <= Day
      /\ q.from <= w[1] \/ q.from = 0
      /\ q.from # 0 => w[1] # 0
      /\ q.to # 0 => w[2] <= q.to
  BY <1>1, <1>3, WindowWithinADay
<1> HIDE DEF w, q
<1>7. \A r \in s.answer : r.time \in Nat \ {0}
  BY <1>5, FeedAssumption DEF Rate
<1>8. \A r \in s.answer : r.time > w[1] /\ r.time < w[2]
  BY <1>5, <1>6, <1>7
<1>9. \A p, r \in s.answer : p.time - r.time < Day
  BY <1>6, <1>7, <1>8, FeedAssumption
<1>10. \A r \in s.answer : r.time > q.from /\ (q.to # 0 => r.time < q.to)
  BY <1>1, <1>6, <1>7, <1>8
<1> QED  BY <1>9, <1>10 DEF q

-----------------------------------------------------------------------------
(* The inductive invariant holds always.                                   *)
THEOREM Invariance == Spec => []IInv
BY InitIInv, NextIInv, PTL DEF Spec

(* The table, the cache and the requests stay type correct; the cache      *)
(* keeps to its size and has one response per URL.                         *)
THEOREM TypeCorrect == Spec => []TypeOK
<1>1. IInv => TypeOK
  BY DEF IInv
<1> QED  BY <1>1, Invariance, PTL

(* What GET /oracles answers is the answer to that very question from      *)
(* contents that the table had at most a time to live and the latency of a *)
(* request ago.                                                            *)
THEOREM NothingStaleIsShown == Spec => []AnswersAreRecent
BY ShownIsRecent, Invariance, PTL

(* Without a limit what GET /oracles answers spans less than a day and     *)
(* keeps to the times that the client named.                               *)
THEOREM NothingLongIsShown == Spec => []ADayWithoutLimit
BY ShownWithinADay, Invariance, PTL
=============================================================================
