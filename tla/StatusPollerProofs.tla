-------------------------- MODULE StatusPollerProofs --------------------------
(***************************************************************************)
(* The poller of execution statuses is type correct, stores only outcomes  *)
(* that the node reported first, never changes one it has stored, and has  *)
(* no more subscriptions open than its rows have intervals to live: for    *)
(* any calls, clients, codes of the node and limits, any number of rounds  *)
(* that overlap, and any crashes.                                          *)
(***************************************************************************)
EXTENDS StatusPoller, SequenceLemmas, FiniteSetTheorems

-----------------------------------------------------------------------------
(* The inductive invariant.                                                *)

\* A round has a slot for each call, and one of its calls is the next.
Shaped(round) ==
    /\ Len(round.answers) = Len(round.calls)
    /\ round.next \in 1 .. Len(round.calls)

\* What a round keeps of a call is the first that the node said of it.
Answered(round, said) ==
    \A k \in 1 .. Len(round.calls) : round.answers[k] # NoAnswer =>
      /\ said[round.calls[k]] # <<>>
      /\ round.answers[k] = AnswerOf(round.calls[k], said[round.calls[k]][1])

RoundsShaped == \A i \in 1 .. Len(rounds) : Shaped(rounds[i])
RoundsAnswered == \A i \in 1 .. Len(rounds) : Answered(rounds[i], reports)

\* A call that is pending has no error: an UPDATE that leaves the column
\* alone therefore leaves FALSE in it.
PendingWithoutError == \A r \in rows : r.status = "pending" => ~r.error

IInv ==
    /\ TypeOK
    /\ IsFiniteSet(rows)
    /\ RoundsShaped
    /\ RoundsAnswered
    /\ PendingWithoutError
    /\ OutcomeWasReported

-----------------------------------------------------------------------------
(* Facts about the operators of a round.                                   *)

(* The mark of a call that has no answer is no answer.                     *)
LEMMA AnswerIsAnswer ==
  /\ NoAnswer \notin Answer
  /\ \A t \in Tx, code \in Code : AnswerOf(t, code) \in Answer
<1>1. NoAnswer.code \notin Code
  BY PollerAssumption DEF NoAnswer
<1>2. \A a \in Answer : a.code \in Code
  BY DEF Answer
<1> QED  BY <1>1, <1>2 DEF Answer, AnswerOf

(* What is left when a round has ended are rounds that there were.         *)
LEMMA WithoutKeeps ==
  ASSUME rounds \in Seq(Round), NEW i \in DOMAIN rounds
  PROVE  /\ Without(i) \in Seq(Round)
         /\ \A j \in 1 .. Len(Without(i)) :
              \E k \in 1 .. Len(rounds) : Without(i)[j] = rounds[k]
<1>1. i \in 1 .. Len(rounds) /\ Len(rounds) \in Nat
  BY LenProperties
<1>2. /\ Without(i) \in Seq(Round)
      /\ Len(Without(i)) = Len(rounds) - 1
      /\ \A j \in 1 .. Len(Without(i)) :
           Without(i)[j] = IF j < i THEN rounds[j] ELSE rounds[j + 1]
  BY <1>1, RemoveProperties DEF Without
<1>3. \A j \in 1 .. Len(Without(i)) : j \in 1 .. Len(rounds)
                                      /\ j + 1 \in 1 .. Len(rounds)
  BY <1>1, <1>2
<1> QED  BY <1>2, <1>3

(* A round that begins asks for at least one call, and has no answer.      *)
LEMMA AskingShaped ==
  ASSUME NEW R \in SUBSET Row, IsFiniteSet(R), Due(R) # {}, NEW b \in Batches(R)
  PROVE  /\ Asking(b) \in Round
         /\ Shaped(Asking(b))
         /\ \A k \in 1 .. Len(Asking(b).calls) : Asking(b).answers[k] = NoAnswer
<1> DEFINE due == Due(R)
           n   == IF Cardinality(due) < Limit THEN Cardinality(due) ELSE Limit
<1>1. due \in SUBSET R
  BY DEF Due
<1>2. IsFiniteSet(due)
  BY <1>1, FS_Subset
<1>3. Cardinality(due) \in Nat /\ Cardinality(due) # 0
  BY <1>2, FS_CardinalityType, FS_EmptySet
<1> HIDE DEF due
<1>4. n \in Nat \ {0}
  BY <1>3, PollerAssumption
<1>5. b \in [1 .. n -> due]
  BY DEF Batches, due
<1> HIDE DEF n
<1>6. DOMAIN b = 1 .. n /\ \A i \in 1 .. n : b[i].tx \in Tx
  BY <1>1, <1>5 DEF Row
<1> DEFINE calls == [i \in 1 .. n |-> b[i].tx]
           none  == [i \in 1 .. n |-> NoAnswer]
<1>7. Asking(b) = [calls |-> calls, answers |-> none, next |-> 1]
  BY <1>6 DEF Asking
<1>8. calls \in Seq(Tx) /\ Len(calls) = n
  BY <1>4, <1>6
<1>9. none \in Seq(Answer \cup {NoAnswer}) /\ Len(none) = n
      /\ \A k \in 1 .. n : none[k] = NoAnswer
  BY <1>4
<1> HIDE DEF calls, none
<1> QED  BY <1>4, <1>7, <1>8, <1>9 DEF Round, Shaped

(* When rounds begin, the rounds that there were stay.                     *)
LEMMA UpdateStatusesKeeps ==
  ASSUME rounds \in Seq(Round), NEW R \in SUBSET Row, IsFiniteSet(R),
         UpdateStatuses(R)
  PROVE  /\ rounds' \in Seq(Round)
         /\ \A j \in 1 .. Len(rounds') :
              \/ \E k \in 1 .. Len(rounds) : rounds'[j] = rounds[k]
              \/ /\ Shaped(rounds'[j])
                 /\ \A k \in 1 .. Len(rounds'[j].calls) :
                      rounds'[j].answers[k] = NoAnswer
<1>1. CASE Due(R) = {}
  BY <1>1 DEF UpdateStatuses
<1>2. CASE Due(R) # {}
  <2>1. PICK b \in Batches(R) : rounds' = Append(rounds, Asking(b))
    BY <1>2 DEF UpdateStatuses
  <2>2. Asking(b) \in Round /\ Shaped(Asking(b))
        /\ \A k \in 1 .. Len(Asking(b).calls) : Asking(b).answers[k] = NoAnswer
    BY <1>2, AskingShaped
  <2>3. /\ rounds' \in Seq(Round)
        /\ Len(rounds') = Len(rounds) + 1
        /\ \A i \in 1 .. Len(rounds) : rounds'[i] = rounds[i]
        /\ rounds'[Len(rounds) + 1] = Asking(b)
    BY <2>1, <2>2, AppendProperties
  <2>4. Len(rounds) \in Nat
    BY LenProperties
  <2>5. ASSUME NEW j \in 1 .. Len(rounds')
        PROVE  j \in 1 .. Len(rounds) \/ j = Len(rounds) + 1
    BY <2>3, <2>4
  <2> QED  BY <2>2, <2>3, <2>5
<1> QED  BY <1>1, <1>2

(* The rows of a later interval are rows, as many or fewer, and each is    *)
(* one of before but for its age.                                          *)
LEMMA OlderKeeps ==
  ASSUME NEW R \in SUBSET Row, IsFiniteSet(R)
  PROVE  /\ Older(R) \in SUBSET Row
         /\ IsFiniteSet(Older(R))
         /\ \A q \in Older(R) : \E r \in R :
              /\ q.tx = r.tx /\ q.address = r.address
              /\ q.status = r.status /\ q.error = r.error
         /\ \A r \in R : \E q \in Older(R) :
              /\ q.tx = r.tx /\ q.address = r.address
              /\ q.status = r.status /\ q.error = r.error
<1> DEFINE aged == [r \in R |->
                      [r EXCEPT !.age = IF @ < Expiry THEN @ + 1 ELSE @]]
<1>1. Older(R) = {aged[r] : r \in R}
  BY DEF Older
<1>2. ASSUME NEW r \in R
      PROVE  /\ aged[r] \in Row
             /\ aged[r].tx = r.tx /\ aged[r].address = r.address
             /\ aged[r].status = r.status /\ aged[r].error = r.error
  BY <1>2, PollerAssumption DEF Row
<1>3. aged \in Surjection(R, Older(R))
  BY <1>1 DEF Surjection
<1>4. IsFiniteSet(Older(R))
  BY <1>3, FS_Surjection
<1> HIDE DEF aged
<1> QED  BY <1>1, <1>2, <1>4

\* What a row becomes when the node has said this of its call.
Outcome(r, code) == Updated(r, StatusOf(code), code \in {1, 2})

(* An UPDATE gives a row its status and leaves the call it is of.          *)
LEMMA UpdatedRow ==
  ASSUME NEW r \in Row, NEW code \in Code
  PROVE  /\ Outcome(r, code) \in Row
         /\ Outcome(r, code).tx = r.tx
         /\ Outcome(r, code).address = r.address
         /\ Outcome(r, code).status = StatusOf(code)
         /\ Outcome(r, code).status # "pending"
         /\ Outcome(r, code).error \in BOOLEAN
         /\ Outcome(r, code).error <=> (code \in {1, 2} \/ r.error)
  BY DEF Outcome, Updated, Row, StatusOf

-----------------------------------------------------------------------------
(* Each step preserves the invariant.                                      *)

(* Rounds that stay, and rounds that have no answer yet, are as the        *)
(* invariant wants them while the node says nothing new.                   *)
LEMMA RoundsCarried ==
  ASSUME RoundsShaped, RoundsAnswered, UNCHANGED reports,
         \A j \in 1 .. Len(rounds') :
           \/ \E k \in 1 .. Len(rounds) : rounds'[j] = rounds[k]
           \/ /\ Shaped(rounds'[j])
              /\ \A k \in 1 .. Len(rounds'[j].calls) :
                   rounds'[j].answers[k] = NoAnswer
  PROVE  RoundsShaped' /\ RoundsAnswered'
<1> SUFFICES ASSUME NEW j \in 1 .. Len(rounds')
             PROVE  Shaped(rounds'[j]) /\ Answered(rounds'[j], reports')
  BY DEF RoundsShaped, RoundsAnswered
<1>1. CASE \E k \in 1 .. Len(rounds) : rounds'[j] = rounds[k]
  BY <1>1 DEF RoundsShaped, RoundsAnswered, Answered
<1>2. CASE /\ Shaped(rounds'[j])
           /\ \A k \in 1 .. Len(rounds'[j].calls) :
                rounds'[j].answers[k] = NoAnswer
  BY <1>2 DEF Answered
<1> QED  BY <1>1, <1>2

(* It holds at the start.                                                  *)
LEMMA InitIInv == Init => IInv
<1> SUFFICES ASSUME Init PROVE IInv
  OBVIOUS
<1>1. TypeOK
  <2>1. rounds \in Seq(Round)
    BY EmptySeq DEF Init
  <2>2. reports \in [Tx -> Seq(Code)]
    BY EmptySeq DEF Init
  <2>3. rows \subseteq Row /\ up \in BOOLEAN
    BY DEF Init
  <2>4. faults \in 0 .. MaxFaults
    BY PollerAssumption DEF Init
  <2> QED  BY <2>1, <2>2, <2>3, <2>4 DEF TypeOK
<1>2. IsFiniteSet(rows)
  BY FS_EmptySet DEF Init
<1>3. RoundsShaped /\ RoundsAnswered
  BY DEF Init, RoundsShaped, RoundsAnswered
<1>4. PendingWithoutError /\ OutcomeWasReported
  BY DEF Init, PendingWithoutError, OutcomeWasReported
<1> QED  BY <1>1, <1>2, <1>3, <1>4 DEF IInv

(* An interval passes.                                                     *)
LEMMA TickIInv == IInv /\ Tick => IInv'
<1> SUFFICES ASSUME IInv, Tick PROVE IInv'
  OBVIOUS
<1> USE DEF IInv
<1>1. /\ rows' \in SUBSET Row
      /\ IsFiniteSet(rows')
      /\ \A q \in rows' : \E r \in rows :
           /\ q.tx = r.tx /\ q.address = r.address
           /\ q.status = r.status /\ q.error = r.error
  BY OlderKeeps DEF Tick, TypeOK
<1>2. reports' = reports /\ up' = up /\ faults' = faults
  BY DEF Tick
<1>3. /\ rounds' \in Seq(Round)
      /\ \A j \in 1 .. Len(rounds') :
           \/ \E k \in 1 .. Len(rounds) : rounds'[j] = rounds[k]
           \/ /\ Shaped(rounds'[j])
              /\ \A k \in 1 .. Len(rounds'[j].calls) :
                   rounds'[j].answers[k] = NoAnswer
  <2>1. CASE up
    <3>1. UpdateStatuses(rows')
      BY <2>1 DEF Tick
    <3> QED  BY <1>1, <3>1, UpdateStatusesKeeps DEF TypeOK
  <2>2. CASE ~up
    BY <2>2 DEF Tick, TypeOK
  <2> QED  BY <2>1, <2>2
<1>4. TypeOK'
  BY <1>1, <1>2, <1>3 DEF TypeOK
<1>5. RoundsShaped' /\ RoundsAnswered'
  BY <1>2, <1>3, RoundsCarried
<1>6. PendingWithoutError' /\ OutcomeWasReported'
  BY <1>1, <1>2 DEF PendingWithoutError, OutcomeWasReported
<1> QED  BY <1>1, <1>4, <1>5, <1>6

(* The process starts.                                                     *)
LEMMA ServeIInv == IInv /\ Serve => IInv'
<1> SUFFICES ASSUME IInv, Serve PROVE IInv'
  OBVIOUS
<1> USE DEF IInv
<1>1. UpdateStatuses(rows) /\ UNCHANGED <<rows, reports, faults>> /\ up' = TRUE
  BY DEF Serve
<1>2. /\ rounds' \in Seq(Round)
      /\ \A j \in 1 .. Len(rounds') :
           \/ \E k \in 1 .. Len(rounds) : rounds'[j] = rounds[k]
           \/ /\ Shaped(rounds'[j])
              /\ \A k \in 1 .. Len(rounds'[j].calls) :
                   rounds'[j].answers[k] = NoAnswer
  BY <1>1, UpdateStatusesKeeps DEF TypeOK
<1>3. TypeOK' /\ IsFiniteSet(rows)'
  BY <1>1, <1>2 DEF TypeOK
<1>4. RoundsShaped' /\ RoundsAnswered'
  BY <1>1, <1>2, RoundsCarried
<1>5. PendingWithoutError' /\ OutcomeWasReported'
  BY <1>1 DEF PendingWithoutError, OutcomeWasReported
<1> QED  BY <1>3, <1>4, <1>5

(* A client posts a call.                                                  *)
LEMMA PostIInv == IInv /\ Post => IInv'
<1> SUFFICES ASSUME IInv, NEW c \in Calls, NEW age \in PostedAges,
                    SetUserContractCall(c, age)
             PROVE  IInv'
  BY DEF Post
<1> USE DEF IInv
<1> DEFINE new == [tx |-> c[1], address |-> c[2], status |-> "pending",
                   error |-> FALSE, age |-> age]
<1>1. rows' = rows \cup {new} /\ UNCHANGED <<rounds, reports, up, faults>>
  BY DEF SetUserContractCall
<1>2. new \in Row /\ new.status = "pending" /\ new.error = FALSE
  BY PollerAssumption DEF Row
<1> HIDE DEF new
<1>3. TypeOK'
  BY <1>1, <1>2 DEF TypeOK
<1>4. IsFiniteSet(rows)'
  BY <1>1, FS_AddElement
<1>5. RoundsShaped' /\ RoundsAnswered'
  BY <1>1 DEF RoundsShaped, RoundsAnswered, Answered
<1>6. PendingWithoutError' /\ OutcomeWasReported'
  BY <1>1, <1>2 DEF PendingWithoutError, OutcomeWasReported
<1> QED  BY <1>3, <1>4, <1>5, <1>6

(* What the node said first of a call stays the first.                     *)
LEMMA ReportKeepsFirst ==
  ASSUME TypeOK, NEW t \in Tx, Report(t)
  PROVE  /\ reports' \in [Tx -> Seq(Code)]
         /\ \A u \in Tx : reports[u] # <<>> =>
              reports'[u] # <<>> /\ reports'[u][1] = reports[u][1]
<1>1. PICK code \in Code : reports' = [reports EXCEPT ![t] = Append(@, code)]
  BY DEF Report
<1>2. reports \in [Tx -> Seq(Code)]
  BY DEF TypeOK
<1>3. /\ Append(reports[t], code) \in Seq(Code)
      /\ Append(reports[t], code) # <<>>
      /\ \A k \in 1 .. Len(reports[t]) : Append(reports[t], code)[k] = reports[t][k]
  BY <1>2, AppendProperties
<1>4. reports[t] # <<>> => 1 \in 1 .. Len(reports[t])
  BY <1>2, EmptySeq
<1> QED  BY <1>1, <1>2, <1>3, <1>4

(* The node says something of a call.                                      *)
LEMMA ReportIInv == IInv /\ SomeReport => IInv'
<1> SUFFICES ASSUME IInv, NEW t \in Tx, Report(t) PROVE IInv'
  BY DEF SomeReport
<1> USE DEF IInv
<1>1. /\ reports' \in [Tx -> Seq(Code)]
      /\ \A u \in Tx : reports[u] # <<>> =>
           reports'[u] # <<>> /\ reports'[u][1] = reports[u][1]
  BY ReportKeepsFirst
<1>2. UNCHANGED <<rows, rounds, up, faults>>
  BY DEF Report
<1>3. TypeOK' /\ IsFiniteSet(rows)'
  BY <1>1, <1>2 DEF TypeOK
<1>4. RoundsShaped'
  BY <1>2 DEF RoundsShaped
<1>5. RoundsAnswered'
  <2> SUFFICES ASSUME NEW i \in 1 .. Len(rounds),
                      NEW k \in 1 .. Len(rounds[i].calls),
                      rounds[i].answers[k] # NoAnswer
               PROVE  /\ reports'[rounds[i].calls[k]] # <<>>
                      /\ rounds[i].answers[k] =
                           AnswerOf(rounds[i].calls[k],
                                    reports'[rounds[i].calls[k]][1])
    BY <1>2 DEF RoundsAnswered, Answered
  <2>1. rounds[i].calls[k] \in Tx
    <3>1. rounds[i] \in Round
      BY ElementOfSeq DEF TypeOK
    <3>2. rounds[i].calls \in Seq(Tx)
      BY <3>1 DEF Round
    <3> QED  BY <3>2, ElementOfSeq
  <2>2. /\ reports[rounds[i].calls[k]] # <<>>
        /\ rounds[i].answers[k] =
             AnswerOf(rounds[i].calls[k], reports[rounds[i].calls[k]][1])
    BY DEF RoundsAnswered, Answered
  <2> QED  BY <1>1, <2>1, <2>2
<1>6. PendingWithoutError'
  BY <1>2 DEF PendingWithoutError
<1>7. OutcomeWasReported'
  <2> SUFFICES ASSUME NEW r \in rows, r.status # "pending"
               PROVE  /\ reports'[r.tx] # <<>>
                      /\ r.status = StatusOf(reports'[r.tx][1])
                      /\ r.error <=> reports'[r.tx][1] \in {1, 2}
    BY <1>2 DEF OutcomeWasReported
  <2>1. r.tx \in Tx
    BY DEF TypeOK, Row
  <2>2. reports'[r.tx] # <<>> /\ reports'[r.tx][1] = reports[r.tx][1]
    BY <1>1, <2>1 DEF OutcomeWasReported
  <2> QED  BY <2>2 DEF OutcomeWasReported
<1> QED  BY <1>3, <1>4, <1>5, <1>6, <1>7

(* A round receives an answer.                                             *)
LEMMA ReceiveIInv == IInv /\ SomeAnswer => IInv'
<1> SUFFICES ASSUME IInv, NEW i \in DOMAIN rounds, Receive(i) PROVE IInv'
  BY DEF SomeAnswer
<1> USE DEF IInv
<1> DEFINE round == rounds[i]
<1>1. PICK k \in Unanswered(i) :
        /\ reports[round.calls[k]] # <<>>
        /\ rounds' = [rounds EXCEPT ![i].answers[k] =
                        AnswerOf(round.calls[k], reports[round.calls[k]][1])]
  BY DEF Receive
<1>2. UNCHANGED <<rows, reports, up, faults>>
  BY DEF Receive
<1>3. i \in 1 .. Len(rounds) /\ round \in Round
  BY LenProperties, ElementOfSeq DEF TypeOK
<1>4. /\ round.calls \in Seq(Tx) /\ round.next \in Nat
      /\ round.answers \in Seq(Answer \cup {NoAnswer})
  BY <1>3 DEF Round
<1>5. Shaped(round) /\ Answered(round, reports)
  BY <1>3 DEF RoundsShaped, RoundsAnswered
<1>6. k \in 1 .. Len(round.calls)
  BY <1>4, LenProperties DEF Unanswered
<1>7. round.calls[k] \in Tx
  BY <1>4, <1>6, ElementOfSeq
<1> DEFINE said == AnswerOf(round.calls[k], reports[round.calls[k]][1])
<1>8. said \in Answer
  <2>1. reports[round.calls[k]] \in Seq(Code)
    BY <1>7 DEF TypeOK
  <2>2. 1 \in 1 .. Len(reports[round.calls[k]])
    BY <1>1, <2>1, EmptySeq
  <2>3. reports[round.calls[k]][1] \in Code
    BY <2>1, <2>2, ElementOfSeq
  <2> QED  BY <1>7, <2>3, AnswerIsAnswer
<1> DEFINE heard == [round.answers EXCEPT ![k] = said]
           after == [round EXCEPT !.answers = heard]
<1>9. rounds' = [rounds EXCEPT ![i] = after]
  BY <1>1
<1>10. /\ heard \in Seq(Answer \cup {NoAnswer})
       /\ Len(heard) = Len(round.answers)
       /\ \A j \in 1 .. Len(round.answers) :
            heard[j] = IF j = k THEN said ELSE round.answers[j]
  <2>1. k \in 1 .. Len(round.answers)
    BY <1>5, <1>6 DEF Shaped
  <2> QED  BY <1>4, <1>8, <2>1, ExceptSeq
<1>11. /\ after.calls = round.calls /\ after.answers = heard
       /\ after.next = round.next /\ after \in Round
  BY <1>3, <1>4, <1>10 DEF Round
<1> HIDE DEF heard, after
<1>12. Shaped(after)
  BY <1>5, <1>10, <1>11 DEF Shaped
<1>13. Answered(after, reports)
  <2> SUFFICES ASSUME NEW j \in 1 .. Len(round.calls), heard[j] # NoAnswer
               PROVE  /\ reports[round.calls[j]] # <<>>
                      /\ heard[j] = AnswerOf(round.calls[j],
                                             reports[round.calls[j]][1])
    BY <1>11 DEF Answered
  <2>1. CASE j = k
    BY <1>1, <1>5, <1>6, <1>10, <2>1 DEF Shaped
  <2>2. CASE j # k
    BY <1>5, <1>10, <2>2 DEF Shaped, Answered
  <2> QED  BY <2>1, <2>2
<1>14. /\ rounds' \in Seq(Round) /\ Len(rounds') = Len(rounds)
       /\ \A j \in 1 .. Len(rounds) :
            rounds'[j] = IF j = i THEN after ELSE rounds[j]
  BY <1>3, <1>9, <1>11, ExceptSeq DEF TypeOK
<1>15. TypeOK' /\ IsFiniteSet(rows)'
  BY <1>2, <1>14 DEF TypeOK
<1>16. RoundsShaped'
  BY <1>12, <1>14 DEF RoundsShaped
<1>17. RoundsAnswered'
  BY <1>2, <1>13, <1>14 DEF RoundsAnswered
<1>18. PendingWithoutError' /\ OutcomeWasReported'
  BY <1>2 DEF PendingWithoutError, OutcomeWasReported
<1> QED  BY <1>15, <1>16, <1>17, <1>18

(* What an UPDATE writes of a call is what the node said of it first.      *)
LEMMA UpdateWritesFirst ==
  ASSUME IInv, NEW i \in DOMAIN rounds, Unanswered(i) = {}
  PROVE  LET t == rounds[i].calls[rounds[i].next]
         IN  /\ t \in Tx
             /\ reports[t] # <<>>
             /\ rounds[i].answers[rounds[i].next] = AnswerOf(t, reports[t][1])
             /\ reports[t][1] \in Code
<1> USE DEF IInv
<1> DEFINE round == rounds[i]
           n == round.next
<1>1. i \in 1 .. Len(rounds) /\ round \in Round
  BY LenProperties, ElementOfSeq DEF TypeOK
<1>2. /\ round.calls \in Seq(Tx)
      /\ round.answers \in Seq(Answer \cup {NoAnswer})
  BY <1>1 DEF Round
<1>3. Shaped(round) /\ Answered(round, reports)
  BY <1>1 DEF RoundsShaped, RoundsAnswered
<1>4. n \in 1 .. Len(round.calls) /\ n \in 1 .. Len(round.answers)
  BY <1>3 DEF Shaped
<1>5. round.answers[n] # NoAnswer
  BY <1>2, <1>4, LenProperties DEF Unanswered
<1>6. round.answers[n] \in Answer
  BY <1>2, <1>4, <1>5, ElementOfSeq
<1>7. round.calls[n] \in Tx
  BY <1>2, <1>4, ElementOfSeq
<1>8. /\ reports[round.calls[n]] # <<>>
      /\ round.answers[n] = AnswerOf(round.calls[n], reports[round.calls[n]][1])
  BY <1>3, <1>4, <1>5 DEF Answered
<1>9. reports[round.calls[n]][1] \in Code
  BY <1>6, <1>8 DEF Answer, AnswerOf
<1> QED  BY <1>7, <1>8, <1>9

(* The rows of an UPDATE that is not refused: those of another call stay,  *)
(* those of the call have the outcome.                                     *)
LEMMA UpdateRows ==
  ASSUME IInv, NEW i \in DOMAIN rounds, UpdateStatus(i), rows' # rows
  PROVE  LET round == rounds[i]
             t     == round.calls[round.next]
             hit   == {r \in rows : r.tx = t}
         IN  rows' = (rows \ hit)
                       \cup {Outcome(r, reports[t][1]) : r \in hit}
<1> DEFINE round  == rounds[i]
           t      == round.calls[round.next]
           answer == round.answers[round.next]
           hit    == {r \in rows : r.tx = answer.tx}
<1>1. answer = AnswerOf(t, reports[t][1])
  BY UpdateWritesFirst DEF UpdateStatus
<1>2. /\ answer.tx = t /\ answer.code = reports[t][1]
      /\ HasError(round) = (reports[t][1] \in {1, 2})
  BY <1>1 DEF AnswerOf, HasError
<1>3. rows' = (rows \ hit)
                \cup {Updated(r, StatusOf(answer.code), HasError(round)) :
                        r \in hit}
  BY DEF UpdateStatus
<1> QED  BY <1>2, <1>3 DEF Outcome

(* A round stores the next of its outcomes, or ends.                       *)
LEMMA UpdateIInv == IInv /\ SomeUpdate => IInv'
<1> SUFFICES ASSUME IInv, NEW i \in DOMAIN rounds, UpdateStatus(i) PROVE IInv'
  BY DEF SomeUpdate
<1> USE DEF IInv
<1> DEFINE round == rounds[i]
           t     == round.calls[round.next]
           code  == reports[t][1]
           hit   == {r \in rows : r.tx = t}
           new   == {Outcome(r, code) : r \in hit}
<1>1. UNCHANGED <<reports, up, faults>> /\ Unanswered(i) = {}
  BY DEF UpdateStatus
<1>2. t \in Tx /\ reports[t] # <<>> /\ code \in Code
  BY <1>1, UpdateWritesFirst
<1>3. rows' = rows \/ rows' = (rows \ hit) \cup new
  BY UpdateRows
<1>4. hit \in SUBSET rows /\ hit \in SUBSET Row /\ \A r \in hit : r.tx = t
  BY DEF TypeOK
<1> HIDE DEF code
<1>5. \A r \in hit : /\ Outcome(r, code) \in Row
                     /\ Outcome(r, code).tx = t
                     /\ Outcome(r, code).status = StatusOf(code)
                     /\ Outcome(r, code).status # "pending"
                     /\ Outcome(r, code).error <=> (code \in {1, 2} \/ r.error)
  <2> SUFFICES ASSUME NEW r \in hit
               PROVE  /\ Outcome(r, code) \in Row
                      /\ Outcome(r, code).tx = t
                      /\ Outcome(r, code).status = StatusOf(code)
                      /\ Outcome(r, code).status # "pending"
                      /\ Outcome(r, code).error <=> (code \in {1, 2} \/ r.error)
    OBVIOUS
  <2>1. r \in Row /\ r.tx = t
    BY <1>4
  <2> QED  BY <1>2, <2>1, UpdatedRow
<1>6. new \in SUBSET Row
  BY <1>5
<1>7. IsFiniteSet(new)
  <2> DEFINE upd == [r \in hit |-> Outcome(r, code)]
  <2>1. upd \in Surjection(hit, new)
    BY DEF Surjection
  <2>2. IsFiniteSet(hit)
    BY <1>4, FS_Subset
  <2> QED  BY <2>1, <2>2, FS_Surjection
<1>8. \A r \in hit : r.error => code \in {1, 2}
  BY <1>4 DEF code, PendingWithoutError, OutcomeWasReported
<1>9. \A q \in new : /\ q.tx = t /\ q.status = StatusOf(code)
                     /\ q.status # "pending"
                     /\ q.error <=> code \in {1, 2}
  <2> SUFFICES ASSUME NEW r \in hit
               PROVE  /\ Outcome(r, code).tx = t
                      /\ Outcome(r, code).status = StatusOf(code)
                      /\ Outcome(r, code).status # "pending"
                      /\ Outcome(r, code).error <=> code \in {1, 2}
    OBVIOUS
  <2> QED  BY <1>5, <1>8
<1> HIDE DEF new
<1>10. rows' \in SUBSET Row /\ IsFiniteSet(rows')
  <2>1. IsFiniteSet(rows \ hit)
    BY FS_Subset
  <2>2. IsFiniteSet((rows \ hit) \cup new)
    BY <2>1, <1>7, FS_Union
  <2> QED  BY <2>2, <1>3, <1>6 DEF TypeOK
<1>11. PendingWithoutError'
  BY <1>3, <1>9 DEF PendingWithoutError
<1>12. OutcomeWasReported'
  <2> SUFFICES ASSUME NEW q \in rows', q.status # "pending"
               PROVE  /\ reports[q.tx] # <<>>
                      /\ q.status = StatusOf(reports[q.tx][1])
                      /\ q.error <=> reports[q.tx][1] \in {1, 2}
    BY <1>1 DEF OutcomeWasReported
  <2>1. CASE q \in rows
    BY <2>1 DEF OutcomeWasReported
  <2>2. CASE q \in new
    BY <2>2, <1>2, <1>9 DEF code
  <2> QED  BY <2>1, <2>2, <1>3
<1>13. i \in 1 .. Len(rounds) /\ round \in Round /\ Len(rounds) \in Nat
  BY LenProperties, ElementOfSeq DEF TypeOK
<1>14. rounds' \in Seq(Round) /\ RoundsShaped' /\ RoundsAnswered'
  <2>1. CASE rounds' = Without(i)
    BY <2>1, <1>1, WithoutKeeps, RoundsCarried DEF TypeOK
  <2>2. CASE /\ round.next # Len(round.calls)
             /\ rounds' = [rounds EXCEPT ![i].next = @ + 1]
    <3> DEFINE after == [round EXCEPT !.next = round.next + 1]
    <3>1. Shaped(round) /\ Answered(round, reports)
      BY <1>13 DEF RoundsShaped, RoundsAnswered
    <3>2. /\ after.calls = round.calls /\ after.answers = round.answers
          /\ after.next = round.next + 1
          /\ after \in Round
      BY <1>13 DEF Round
    <3>3. Len(round.calls) \in Nat
      <4>1. round.calls \in Seq(Tx)
        BY <1>13 DEF Round
      <4> QED  BY <4>1, LenProperties
    <3>4. rounds' = [rounds EXCEPT ![i] = after]
      BY <2>2
    <3> HIDE DEF after
    <3>5. Shaped(after)
      BY <2>2, <3>1, <3>2, <3>3 DEF Shaped
    <3>6. Answered(after, reports)
      BY <3>1, <3>2 DEF Answered
    <3>7. /\ rounds' \in Seq(Round) /\ Len(rounds') = Len(rounds)
          /\ \A j \in 1 .. Len(rounds) :
               rounds'[j] = IF j = i THEN after ELSE rounds[j]
      BY <1>13, <3>2, <3>4, ExceptSeq DEF TypeOK
    <3>8. RoundsShaped'
      BY <3>5, <3>7 DEF RoundsShaped
    <3>9. RoundsAnswered'
      BY <1>1, <3>6, <3>7 DEF RoundsAnswered
    <3> QED  BY <3>7, <3>8, <3>9
  <2> QED  BY <2>1, <2>2 DEF UpdateStatus
<1>15. TypeOK'
  BY <1>1, <1>10, <1>14 DEF TypeOK
<1> QED  BY <1>10, <1>11, <1>12, <1>14, <1>15

(* A round fails, and has stored what it has stored.                       *)
LEMMA FailureIInv == IInv /\ SomeFailure => IInv'
<1> SUFFICES ASSUME IInv, NEW i \in DOMAIN rounds, RoundFails(i) PROVE IInv'
  BY DEF SomeFailure
<1> USE DEF IInv
<1>1. /\ rounds' = Without(i) /\ faults < MaxFaults /\ faults' = faults + 1
      /\ UNCHANGED <<rows, reports, up>>
  BY DEF RoundFails
<1>2. rounds' \in Seq(Round) /\ RoundsShaped' /\ RoundsAnswered'
  BY <1>1, WithoutKeeps, RoundsCarried DEF TypeOK
<1>3. TypeOK' /\ IsFiniteSet(rows)'
  BY <1>1, <1>2, PollerAssumption DEF TypeOK
<1>4. PendingWithoutError' /\ OutcomeWasReported'
  BY <1>1 DEF PendingWithoutError, OutcomeWasReported
<1> QED  BY <1>2, <1>3, <1>4

(* The process stops: its rounds are gone, the table stays.                *)
LEMMA CrashIInv == IInv /\ Crash => IInv'
<1> SUFFICES ASSUME IInv, Crash PROVE IInv'
  OBVIOUS
<1> USE DEF IInv
<1>1. /\ rounds' = <<>> /\ faults < MaxFaults /\ faults' = faults + 1
      /\ up' = FALSE /\ UNCHANGED <<rows, reports>>
  BY DEF Crash
<1>2. rounds' \in Seq(Round) /\ Len(rounds') = 0
  BY <1>1, EmptySeq
<1>3. TypeOK' /\ IsFiniteSet(rows)'
  <2>1. up' \in BOOLEAN
    BY <1>1
  <2>2. faults' \in 0 .. MaxFaults
    BY <1>1, PollerAssumption DEF TypeOK
  <2> QED  BY <1>1, <1>2, <2>1, <2>2 DEF TypeOK
<1>4. RoundsShaped' /\ RoundsAnswered'
  BY <1>2 DEF RoundsShaped, RoundsAnswered
<1>5. PendingWithoutError' /\ OutcomeWasReported'
  BY <1>1 DEF PendingWithoutError, OutcomeWasReported
<1> QED  BY <1>3, <1>4, <1>5

(* Every step keeps the invariant, a step of another system too.           *)
LEMMA NextIInv == IInv /\ [Next]_vars => IInv'
<1> SUFFICES ASSUME IInv, [Next]_vars PROVE IInv'
  OBVIOUS
<1>1. CASE UNCHANGED vars
  BY <1>1 DEF vars, IInv, TypeOK, RoundsShaped, RoundsAnswered,
              PendingWithoutError, OutcomeWasReported
<1> QED  BY <1>1, TickIInv, ServeIInv, PostIInv, ReportIInv, ReceiveIInv,
            UpdateIInv, FailureIInv, CrashIInv DEF Next

-----------------------------------------------------------------------------
(* An outcome that is stored has the same values after any step.           *)
LEMMA OutcomeStays ==
  ASSUME IInv, [Next]_vars, NEW r \in rows, r.status # "pending"
  PROVE  \E q \in rows' : /\ q.tx = r.tx /\ q.address = r.address
                          /\ q.status = r.status /\ q.error = r.error
<1>1. CASE rows \subseteq rows'
  BY <1>1
<1>2. CASE Tick
  BY <1>2, OlderKeeps DEF Tick, IInv, TypeOK
<1>3. ASSUME NEW i \in DOMAIN rounds, UpdateStatus(i), rows' # rows
      PROVE  \E q \in rows' : /\ q.tx = r.tx /\ q.address = r.address
                              /\ q.status = r.status /\ q.error = r.error
  <2> DEFINE t    == rounds[i].calls[rounds[i].next]
             code == reports[t][1]
             hit  == {p \in rows : p.tx = t}
  <2>1. rows' = (rows \ hit) \cup {Outcome(p, code) : p \in hit}
    BY <1>3, UpdateRows
  <2>2. CASE r \notin hit
    BY <2>1, <2>2
  <2>3. CASE r \in hit
    <3>1. Unanswered(i) = {}
      BY <1>3 DEF UpdateStatus
    <3>2. code \in Code
      BY <3>1, UpdateWritesFirst
    <3>3. r.status = StatusOf(code) /\ (r.error <=> code \in {1, 2})
      BY <2>3 DEF IInv, OutcomeWasReported
    <3>4. r \in Row
      BY DEF IInv, TypeOK
    <3> HIDE DEF code
    <3>5. /\ Outcome(r, code).tx = r.tx
          /\ Outcome(r, code).address = r.address
          /\ Outcome(r, code).status = r.status
          /\ Outcome(r, code).error \in BOOLEAN
          /\ Outcome(r, code).error <=> (code \in {1, 2} \/ r.error)
      BY <3>2, <3>3, <3>4, UpdatedRow
    <3>6. r.error \in BOOLEAN
      BY <3>4 DEF Row
    <3>7. Outcome(r, code).error = r.error
      BY <3>3, <3>5, <3>6
    <3>8. Outcome(r, code) \in rows'
      BY <2>1, <2>3
    <3> QED  BY <3>5, <3>7, <3>8
  <2> QED  BY <2>2, <2>3
<1>4. Tick \/ SomeUpdate \/ rows \subseteq rows'
  BY DEF Next, vars, Serve, Post, SetUserContractCall, SomeReport, Report,
         SomeAnswer, Receive, SomeFailure, RoundFails, Crash
<1> QED  BY <1>1, <1>2, <1>3, <1>4 DEF SomeUpdate

-----------------------------------------------------------------------------
(* The inductive invariant holds always.                                   *)
THEOREM Invariance == Spec => []IInv
BY InitIInv, NextIInv, PTL DEF Spec

(* The poller and its table stay type correct.                             *)
THEOREM TypeCorrect == Spec => []TypeOK
<1>1. IInv => TypeOK
  BY DEF IInv
<1> QED  BY <1>1, Invariance, PTL

(* Every outcome that updateStatuses stores is the first that the node     *)
(* said of that very call, and carries an error just when the node gave    *)
(* one, whatever the rounds, clients and crashes.                          *)
THEOREM OutcomesAreTheNodes == Spec => []OutcomeWasReported
<1>1. IInv => OutcomeWasReported
  BY DEF IInv
<1> QED  BY <1>1, Invariance, PTL

(* No step changes or loses an outcome that is stored.                     *)
THEOREM OutcomesAreFinal == Spec => OutcomeIsFinal
<1>1. IInv /\ [Next]_vars =>
        [\A r \in rows : r.status # "pending" =>
           \E q \in rows' : /\ q.tx = r.tx /\ q.address = r.address
                            /\ q.status = r.status /\ q.error = r.error]_vars
  BY OutcomeStays
<1> QED  BY <1>1, Invariance, PTL DEF Spec, OutcomeIsFinal
-----------------------------------------------------------------------------
(* The key of the table.                                                   *)

\* The UNIQUE of the table.
UniqueRows(T) ==
    \A p, q \in T : p.tx = q.tx /\ p.address = q.address
                    /\ p.status = q.status => p = q

\* The rows are written anew, one by one, under the calls and the addresses
\* they had, and none becomes another.
Rewritten(R, to, T2) ==
    /\ to \in [R -> T2] /\ T2 = {to[r] : r \in R}
    /\ \A r \in R : /\ to[r].tx = r.tx /\ to[r].address = r.address
                    /\ r.age \in Int /\ to[r].age \in Int
                    /\ r.age <= to[r].age
    /\ \A p, q \in R :
         to[p].tx = to[q].tx /\ to[p].address = to[q].address
         /\ to[p].status = to[q].status => p = q

(* An UPDATE leaves every row its call and its age, and is refused where   *)
(* it would make one of two.                                               *)
LEMMA UpdateRewrites ==
  ASSUME rows \in SUBSET Row, UniqueRows(rows),
         NEW i \in DOMAIN rounds, UpdateStatus(i), rows' # rows
  PROVE  \E to : Rewritten(rows, to, rows')
<1> DEFINE round  == rounds[i]
           answer == round.answers[round.next]
           t      == answer.tx
           hit    == {r \in rows : r.tx = t}
           out(r) == Updated(r, StatusOf(answer.code), HasError(round))
           to     == [r \in rows |-> IF r \in hit THEN out(r) ELSE r]
<1>1. ~Collide(hit) /\ rows' = (rows \ hit) \cup {out(r) : r \in hit}
  BY DEF UpdateStatus
<1>2. rows' = {to[r] : r \in rows}
  BY <1>1
<1>3. ASSUME NEW r \in rows
      PROVE  /\ to[r].tx = r.tx /\ to[r].address = r.address
             /\ to[r].age = r.age /\ r.age \in Int
             /\ r \notin hit => to[r] = r
  BY DEF Updated, Row
<1>4. \A p, q \in hit : p.address = q.address => p = q
  BY <1>1 DEF Collide
<1>5. \A r \in rows : r \in hit <=> r.tx = t
  OBVIOUS
<1>6. to \in [rows -> rows']
  BY <1>2
<1> HIDE DEF to, hit, t
<1>7. ASSUME NEW p \in rows, NEW q \in rows,
             to[p].tx = to[q].tx, to[p].address = to[q].address,
             to[p].status = to[q].status
      PROVE  p = q
  <2>1. p.tx = q.tx /\ p.address = q.address
    BY <1>3, <1>7
  <2>2. CASE p.tx = t
    BY <1>4, <1>5, <2>1, <2>2
  <2>3. CASE p.tx # t
    BY <1>3, <1>5, <1>7, <2>1, <2>3 DEF UniqueRows
  <2> QED  BY <2>2, <2>3
<1>8. \A r \in rows : r.age <= to[r].age /\ to[r].age \in Int
  BY <1>3
<1> QED  BY <1>2, <1>3, <1>6, <1>7, <1>8 DEF Rewritten

(* So does an interval, which makes the rows older.                        *)
LEMMA OlderRewrites ==
  ASSUME rows \in SUBSET Row, UniqueRows(rows), rows' = Older(rows)
  PROVE  \E to : /\ Rewritten(rows, to, rows')
                 /\ \A r \in rows : r.age < Expiry => r.age < to[r].age
<1> DEFINE to == [r \in rows |->
                    [r EXCEPT !.age = IF @ < Expiry THEN @ + 1 ELSE @]]
<1>1. rows' = {to[r] : r \in rows}
  BY DEF Older
<1>2. ASSUME NEW r \in rows
      PROVE  /\ to[r].tx = r.tx /\ to[r].address = r.address
             /\ to[r].status = r.status
             /\ r.age \in Int /\ r.age <= to[r].age
             /\ (r.age < Expiry => r.age < to[r].age)
             /\ to[r].age \in Int
  BY PollerAssumption DEF Row
<1>3. to \in [rows -> rows']
  BY <1>1
<1> HIDE DEF to
<1>4. \A p, q \in rows :
        to[p].tx = to[q].tx /\ to[p].address = to[q].address
        /\ to[p].status = to[q].status => p = q
  BY <1>2 DEF UniqueRows
<1>5. Rewritten(rows, to, rows')
  BY <1>1, <1>2, <1>3, <1>4 DEF Rewritten
<1> QED  BY <1>2, <1>5

(* A row is posted only where its call has no pending row.                 *)
LEMMA PostedUnique ==
  ASSUME UniqueRows(rows), NEW c \in Calls, NEW age \in PostedAges,
         SetUserContractCall(c, age)
  PROVE  UniqueRows(rows')
<1> DEFINE new == [tx |-> c[1], address |-> c[2], status |-> "pending",
                   error |-> FALSE, age |-> age]
<1>1. /\ rows' = rows \cup {new}
      /\ \A r \in RowsOf(c) : r.status # "pending"
  BY DEF SetUserContractCall
<1>2. new.tx = c[1] /\ new.address = c[2] /\ new.status = "pending"
  OBVIOUS
<1> HIDE DEF new
<1> QED  BY <1>1, <1>2 DEF UniqueRows, RowsOf

(* No step of the poller gives two rows of one call and one address the    *)
(* same status.                                                            *)
LEMMA UniqueStays ==
  ASSUME rows \in SUBSET Row, UniqueRows(rows), [Next]_vars
  PROVE  UniqueRows(rows')
<1>1. CASE \E to : Rewritten(rows, to, rows')
  BY <1>1 DEF Rewritten, UniqueRows
<1>2. CASE Post
  BY <1>2, PostedUnique DEF Post
<1>3. CASE Tick
  BY <1>1, <1>3, OlderRewrites DEF Tick
<1>4. CASE SomeUpdate
  BY <1>1, <1>4, UpdateRewrites DEF SomeUpdate
<1>5. rows' = rows \/ Post \/ Tick \/ SomeUpdate
  BY DEF Next, vars, Serve, SomeReport, Report, SomeAnswer, Receive,
         SomeFailure, RoundFails, Crash
<1> QED  BY <1>2, <1>3, <1>4, <1>5

-----------------------------------------------------------------------------
(* How many subscriptions are open.                                        *)

\* The places of all calls in all rounds.
Slots(R) == {s \in (1 .. Len(R)) \X Nat : s[2] \in 1 .. Len(R[s[1]].calls)}

\* Every slot comes from a row of its call, which was of a certain age when
\* the round began, and no two slots come from the same row at the same age.
Traced(R, T, lo, at, of) ==
    /\ \A s \in Slots(R) : /\ of[s] \in T
                           /\ of[s].tx = R[s[1]].calls[s[2]]
                           /\ at[s] \in lo .. Expiry - 1
                           /\ at[s] <= of[s].age
    /\ \A s, u \in Slots(R) : at[s] = at[u] /\ of[s] = of[u] => s = u

\* A round asks for a row once in an interval of the row's life.
SubInv(lo) ==
    /\ IInv
    /\ UniqueRows(rows)
    /\ \A r \in rows : lo <= r.age
    /\ ~up => Len(rounds) = 0
    /\ \E at, of : Traced(rounds, rows, lo, at, of)

(* A trace follows the rows when they are written anew, one by one.        *)
LEMMA MovedTrace ==
  ASSUME NEW R, NEW T \in SUBSET Row, NEW T2 \in SUBSET Row, NEW lo \in Int,
         NEW at, NEW of, Traced(R, T, lo, at, of),
         NEW to \in [T -> T2],
         \A r \in T : to[r].tx = r.tx /\ r.age <= to[r].age,
         \A p, q \in T : to[p] = to[q] => p = q
  PROVE  Traced(R, T2, lo, at, [s \in Slots(R) |-> to[of[s]]])
<1> DEFINE of2 == [s \in Slots(R) |-> to[of[s]]]
<1>1. ASSUME NEW s \in Slots(R)
      PROVE  /\ of2[s] \in T2
             /\ of2[s].tx = R[s[1]].calls[s[2]]
             /\ at[s] \in lo .. Expiry - 1
             /\ at[s] <= of2[s].age
  <2>1. /\ of[s] \in T
        /\ of[s].tx = R[s[1]].calls[s[2]]
        /\ at[s] \in lo .. Expiry - 1
        /\ at[s] <= of[s].age
    BY DEF Traced
  <2>2. of2[s] = to[of[s]] /\ of2[s] \in T2
    BY <2>1
  <2>3. of[s].age \in Int /\ of2[s].age \in Int /\ at[s] \in Int
    BY <2>1, <2>2, PollerAssumption DEF Row
  <2> HIDE DEF of2
  <2> QED  BY <2>1, <2>2, <2>3
<1>2. ASSUME NEW s \in Slots(R), NEW u \in Slots(R),
             at[s] = at[u], of2[s] = of2[u]
      PROVE  s = u
  <2>1. of[s] \in T /\ of[u] \in T
    BY DEF Traced
  <2>2. of[s] = of[u]
    BY <1>2, <2>1
  <2> QED  BY <1>2, <2>2 DEF Traced
<1> HIDE DEF of2
<1>3. Traced(R, T2, lo, at, of2)
  BY <1>1, <1>2 DEF Traced
<1> QED  BY <1>3 DEF of2

(* Answers and outcomes leave the calls of a round where they are.         *)
LEMMA KeptTrace ==
  ASSUME NEW R, NEW R2, NEW T, NEW lo, NEW at, NEW of,
         Traced(R, T, lo, at, of), Len(R2) = Len(R),
         \A i \in 1 .. Len(R) : R2[i].calls = R[i].calls
  PROVE  Traced(R2, T, lo, at, of)
<1>1. Slots(R2) = Slots(R)
  BY DEF Slots
<1>2. \A s \in Slots(R) : R2[s[1]].calls[s[2]] = R[s[1]].calls[s[2]]
  BY DEF Slots
<1> QED  BY <1>1, <1>2 DEF Traced

(* A round that ends frees its slots.                                      *)
LEMMA DroppedTrace ==
  ASSUME NEW R, NEW R2, NEW T, NEW lo, NEW at, NEW of,
         Traced(R, T, lo, at, of), Len(R) \in Nat, NEW i \in 1 .. Len(R),
         Len(R2) = Len(R) - 1,
         \A j \in 1 .. Len(R2) : R2[j] = IF j < i THEN R[j] ELSE R[j + 1]
  PROVE  \E at2, of2 : Traced(R2, T, lo, at2, of2)
<1> DEFINE was(s) == <<IF s[1] < i THEN s[1] ELSE s[1] + 1, s[2]>>
           at2 == [s \in Slots(R2) |-> at[was(s)]]
           of2 == [s \in Slots(R2) |-> of[was(s)]]
<1>1. ASSUME NEW s \in Slots(R2)
      PROVE  /\ was(s) \in Slots(R)
             /\ R2[s[1]].calls[s[2]] = R[was(s)[1]].calls[was(s)[2]]
  <2>1. s[1] \in 1 .. Len(R2) /\ s[2] \in Nat /\ s[2] \in 1 .. Len(R2[s[1]].calls)
    BY DEF Slots
  <2>2. was(s)[1] \in 1 .. Len(R) /\ was(s)[2] = s[2]
    BY <2>1
  <2>3. R2[s[1]] = R[was(s)[1]]
    BY <2>1
  <2>4. was(s) \in (1 .. Len(R)) \X Nat
    BY <2>1, <2>2
  <2> HIDE DEF was
  <2> QED  BY <2>1, <2>2, <2>3, <2>4 DEF Slots
<1>2. ASSUME NEW s \in Slots(R2), NEW u \in Slots(R2), was(s) = was(u)
      PROVE  s = u
  <2>1. /\ s = <<s[1], s[2]>> /\ s[1] \in 1 .. Len(R2)
        /\ u = <<u[1], u[2]>> /\ u[1] \in 1 .. Len(R2)
    BY DEF Slots
  <2>2. /\ s[2] = u[2]
        /\ (IF s[1] < i THEN s[1] ELSE s[1] + 1)
             = (IF u[1] < i THEN u[1] ELSE u[1] + 1)
    BY <1>2
  <2>3. s[1] = u[1]
    BY <2>1, <2>2
  <2> QED  BY <2>1, <2>2, <2>3
<1> HIDE DEF was
<1>3. \A s \in Slots(R2) : at2[s] = at[was(s)] /\ of2[s] = of[was(s)]
  OBVIOUS
<1> HIDE DEF at2, of2
<1>4. Traced(R2, T, lo, at2, of2)
  BY <1>1, <1>2, <1>3 DEF Traced
<1> QED  BY <1>4

(* A round that begins asks for rows that are older than when any round    *)
(* before it asked for them.                                               *)
LEMMA AddedTrace ==
  ASSUME NEW R \in Seq(Round), NEW T \in SUBSET Row, IsFiniteSet(T),
         NEW lo \in Int, \A r \in T : lo <= r.age,
         NEW at, NEW of, Traced(R, T, lo, at, of),
         \A s \in Slots(R) : at[s] < of[s].age,
         Due(T) # {}, NEW b \in Batches(T)
  PROVE  \E at2, of2 : Traced(Append(R, Asking(b)), T, lo, at2, of2)
<1> DEFINE R2 == Append(R, Asking(b))
           n == Len(R)
           m == Len(Asking(b).calls)
<1>1. n \in Nat
  BY LenProperties
<1>2. Asking(b) \in Round
  BY AskingShaped
<1>3. /\ Len(R2) = n + 1
      /\ \A j \in 1 .. n : R2[j] = R[j]
      /\ R2[n + 1] = Asking(b)
  BY <1>2, AppendProperties
<1>4. /\ m \in Nat
      /\ \A k \in 1 .. m : /\ b[k] \in Due(T)
                           /\ Asking(b).calls[k] = b[k].tx
      /\ \A k, l \in 1 .. m : b[k] = b[l] => k = l
  <2> DEFINE due == Due(T)
             d == IF Cardinality(due) < Limit THEN Cardinality(due) ELSE Limit
  <2>1. due \in SUBSET T
    BY DEF Due
  <2>2. Cardinality(due) \in Nat
    BY <2>1, FS_Subset, FS_CardinalityType
  <2> HIDE DEF due
  <2>3. d \in Nat
    BY <2>2, PollerAssumption
  <2>4. b \in [1 .. d -> due] /\ \A k, l \in 1 .. d : b[k] = b[l] => k = l
    BY DEF Batches, due
  <2> HIDE DEF d
  <2> DEFINE calls == [k \in 1 .. d |-> b[k].tx]
  <2>5. Asking(b).calls = calls
    BY <2>4 DEF Asking
  <2>6. Len(calls) = d /\ \A k \in 1 .. d : calls[k] = b[k].tx
    BY <2>3
  <2> HIDE DEF calls
  <2> QED  BY <2>3, <2>4, <2>5, <2>6 DEF due
<1>5. \A k \in 1 .. m : /\ b[k] \in T /\ b[k].age < Expiry
                        /\ b[k].age \in Int /\ lo <= b[k].age
  BY <1>4 DEF Due, Row
<1> HIDE DEF R2, n, m
<1>6. ASSUME NEW s \in Slots(R2)
      PROVE  \/ /\ s \in Slots(R) /\ s[1] \in 1 .. n
                /\ R2[s[1]].calls[s[2]] = R[s[1]].calls[s[2]]
             \/ /\ s = <<n + 1, s[2]>> /\ s[2] \in 1 .. m /\ s[1] = n + 1
                /\ R2[s[1]].calls[s[2]] = b[s[2]].tx
  <2>1. /\ s \in (1 .. n + 1) \X Nat /\ s[1] \in 1 .. n + 1
        /\ s[2] \in Nat /\ s[2] \in 1 .. Len(R2[s[1]].calls)
        /\ s = <<s[1], s[2]>>
    BY <1>3 DEF Slots
  <2>2. CASE s[1] \in 1 .. n
    <3>1. s \in (1 .. n) \X Nat
      BY <2>1, <2>2
    <3>2. R2[s[1]] = R[s[1]]
      BY <1>3, <2>2
    <3> QED  BY <2>1, <2>2, <3>1, <3>2 DEF Slots, n
  <2>3. CASE s[1] = n + 1
    BY <1>3, <1>4, <2>1, <2>3 DEF m
  <2> QED  BY <1>1, <2>1, <2>2, <2>3
<1> DEFINE at2 == [s \in Slots(R2) |->
                     IF s[1] = n + 1 THEN b[s[2]].age ELSE at[s]]
           of2 == [s \in Slots(R2) |->
                     IF s[1] = n + 1 THEN b[s[2]] ELSE of[s]]
           old(s) == /\ s \in Slots(R)
                     /\ R2[s[1]].calls[s[2]] = R[s[1]].calls[s[2]]
                     /\ at2[s] = at[s] /\ of2[s] = of[s]
           new(s) == /\ s = <<n + 1, s[2]>> /\ s[2] \in 1 .. m
                     /\ R2[s[1]].calls[s[2]] = b[s[2]].tx
                     /\ at2[s] = b[s[2]].age /\ of2[s] = b[s[2]]
<1>7. \A s \in Slots(R2) : old(s) \/ new(s)
  <2> SUFFICES ASSUME NEW s \in Slots(R2) PROVE old(s) \/ new(s)
    OBVIOUS
  <2>1. n + 1 \notin 1 .. n
    BY <1>1
  <2> QED  BY <1>6, <2>1
<1> HIDE DEF at2, of2
<1>8. ASSUME NEW s \in Slots(R2)
      PROVE  /\ of2[s] \in T
             /\ of2[s].tx = R2[s[1]].calls[s[2]]
             /\ at2[s] \in lo .. Expiry - 1
             /\ at2[s] <= of2[s].age
  <2>1. CASE old(s)
    BY <2>1 DEF Traced
  <2>2. CASE new(s)
    <3>1. Expiry \in Int
      BY PollerAssumption
    <3> QED  BY <1>5, <2>2, <3>1
  <2> QED  BY <1>7, <2>1, <2>2
<1>9. ASSUME NEW s \in Slots(R2), NEW u \in Slots(R2),
             at2[s] = at2[u], of2[s] = of2[u]
      PROVE  s = u
  <2>1. CASE old(s) /\ old(u)
    BY <1>9, <2>1 DEF Traced
  <2>2. CASE new(s) /\ new(u)
    <3>1. s[2] = u[2]
      BY <1>4, <1>9, <2>2
    <3> QED  BY <2>2, <3>1
  <2>3. ASSUME NEW x, NEW y, old(x), new(y), at2[x] = at2[y], of2[x] = of2[y]
        PROVE  FALSE
    <3>1. at[x] < b[y[2]].age /\ at[x] = b[y[2]].age
      BY <2>3
    <3>2. b[y[2]].age \in Int
      BY <1>5, <2>3
    <3> QED  BY <3>1, <3>2
  <2> QED  BY <1>7, <1>9, <2>1, <2>2, <2>3
<1>10. Traced(R2, T, lo, at2, of2)
  BY <1>8, <1>9 DEF Traced
<1> QED  BY <1>10 DEF R2

(* UpdateStatuses keeps the trace.                                         *)
LEMMA BegunTrace ==
  ASSUME rounds \in Seq(Round), NEW T \in SUBSET Row, IsFiniteSet(T),
         NEW lo \in Int, \A r \in T : lo <= r.age,
         NEW at, NEW of, Traced(rounds, T, lo, at, of),
         \A s \in Slots(rounds) : at[s] < of[s].age,
         UpdateStatuses(T)
  PROVE  \E at2, of2 : Traced(rounds', T, lo, at2, of2)
<1>1. CASE Due(T) = {}
  <2>1. rounds' = rounds
    BY <1>1 DEF UpdateStatuses
  <2> QED  BY <2>1
<1>2. CASE Due(T) # {}
  <2>1. PICK b \in Batches(T) : rounds' = Append(rounds, Asking(b))
    BY <1>2 DEF UpdateStatuses
  <2>2. \E at2, of2 : Traced(Append(rounds, Asking(b)), T, lo, at2, of2)
    BY <1>2, AddedTrace
  <2> QED  BY <2>1, <2>2
<1> QED  BY <1>1, <1>2

(* No rounds, no slots.                                                    *)
LEMMA EmptyTrace ==
  ASSUME NEW R, Len(R) = 0, NEW T, NEW lo, NEW at, NEW of
  PROVE  Slots(R) = {} /\ Traced(R, T, lo, at, of)
<1>1. Slots(R) = {}
  BY DEF Slots
<1> QED  BY <1>1 DEF Traced

(* An interval makes every row older that a round may have asked for.      *)
LEMMA TickSub ==
  ASSUME NEW lo \in Int, SubInv(lo), Tick PROVE SubInv(lo)'
<1>1. IInv /\ IInv'
  BY NextIInv DEF SubInv, Next
<1>2. /\ rows \in SUBSET Row /\ IsFiniteSet(rows) /\ rounds \in Seq(Round)
      /\ rows' \in SUBSET Row /\ IsFiniteSet(rows')
  BY <1>1 DEF IInv, TypeOK
<1>3. PICK at, of : Traced(rounds, rows, lo, at, of)
  BY DEF SubInv
<1>4. UniqueRows(rows) /\ rows' = Older(rows)
  BY DEF SubInv, Tick
<1>5. PICK aged : /\ Rewritten(rows, aged, rows')
                  /\ \A r \in rows : r.age < Expiry => r.age < aged[r].age
  BY <1>2, <1>4, OlderRewrites
<1>6. /\ aged \in [rows -> rows'] /\ rows' = {aged[r] : r \in rows}
      /\ \A r \in rows : /\ aged[r].tx = r.tx /\ r.age <= aged[r].age
                         /\ r.age \in Int /\ aged[r].age \in Int
  BY <1>5 DEF Rewritten
<1>7. \A p, q \in rows : aged[p] = aged[q] => p = q
  BY <1>5 DEF Rewritten
<1>8. UniqueRows(rows')
  BY <1>2, <1>4, UniqueStays DEF Next
<1>9. \A q \in rows' : lo <= q.age
  <2> SUFFICES ASSUME NEW r \in rows PROVE lo <= aged[r].age
    BY <1>6
  <2>1. lo <= r.age
    BY DEF SubInv
  <2> QED  BY <1>6, <2>1
<1> DEFINE of2 == [s \in Slots(rounds) |-> aged[of[s]]]
<1>10. Traced(rounds, rows', lo, at, of2)
  BY <1>2, <1>3, <1>5, <1>6, <1>7, MovedTrace
<1>11. ASSUME NEW s \in Slots(rounds) PROVE at[s] < of2[s].age
  <2>1. of[s] \in rows /\ at[s] \in lo .. Expiry - 1 /\ at[s] <= of[s].age
    BY <1>3 DEF Traced
  <2>2. of2[s] = aged[of[s]]
    OBVIOUS
  <2>3. Expiry \in Int /\ at[s] \in Int
    BY <2>1, PollerAssumption
  <2> HIDE DEF of2
  <2> QED  BY <1>5, <1>6, <2>1, <2>2, <2>3
<1> HIDE DEF of2
<1>12. \E at2, of3 : Traced(rounds', rows', lo, at2, of3)
  <2>1. CASE up
    <3>1. UpdateStatuses(rows')
      BY <2>1 DEF Tick
    <3> QED  BY <1>2, <1>9, <1>10, <1>11, <3>1, BegunTrace
  <2>2. CASE ~up
    <3>1. rounds' = rounds
      BY <2>2 DEF Tick
    <3> QED  BY <1>10, <3>1
  <2> QED  BY <2>1, <2>2
<1>13. ~up' => Len(rounds') = 0
  BY DEF Tick, SubInv
<1> QED  BY <1>1, <1>8, <1>9, <1>12, <1>13 DEF SubInv

(* The process starts with no rounds.                                      *)
LEMMA ServeSub ==
  ASSUME NEW lo \in Int, SubInv(lo), Serve PROVE SubInv(lo)'
<1>1. IInv /\ IInv'
  BY NextIInv DEF SubInv, Next
<1>2. rows \in SUBSET Row /\ IsFiniteSet(rows) /\ rounds \in Seq(Round)
  BY <1>1 DEF IInv, TypeOK
<1>3. /\ ~up /\ up' = TRUE /\ rows' = rows /\ UpdateStatuses(rows)
      /\ Len(rounds) = 0
  BY DEF Serve, SubInv
<1>4. PICK at, of : Traced(rounds, rows, lo, at, of)
  BY DEF SubInv
<1>5. \A s \in Slots(rounds) : at[s] < of[s].age
  BY <1>3, EmptyTrace
<1>6. \A r \in rows : lo <= r.age
  BY DEF SubInv
<1>7. \E at2, of2 : Traced(rounds', rows, lo, at2, of2)
  BY <1>2, <1>3, <1>4, <1>5, <1>6, BegunTrace
<1> QED  BY <1>1, <1>3, <1>6, <1>7 DEF SubInv

(* A row is posted with an age that clients send.                          *)
LEMMA PostSub ==
  ASSUME NEW lo \in Int, \A a \in PostedAges : lo <= a, SubInv(lo), Post
  PROVE  SubInv(lo)'
<1>1. IInv /\ IInv'
  BY NextIInv DEF SubInv, Next
<1>2. PICK c \in Calls, age \in PostedAges : SetUserContractCall(c, age)
  BY DEF Post
<1> DEFINE new == [tx |-> c[1], address |-> c[2], status |-> "pending",
                   error |-> FALSE, age |-> age]
<1>3. rows' = rows \cup {new} /\ UNCHANGED <<rounds, up>>
  BY <1>2 DEF SetUserContractCall
<1>4. /\ new.tx = c[1] /\ new.address = c[2] /\ new.status = "pending"
      /\ new.age = age
  OBVIOUS
<1> HIDE DEF new
<1>5. UniqueRows(rows')
  BY <1>2, PostedUnique DEF SubInv
<1>6. \A r \in rows' : lo <= r.age
  BY <1>3, <1>4 DEF SubInv
<1>7. PICK at, of : Traced(rounds, rows, lo, at, of)
  BY DEF SubInv
<1>8. Traced(rounds', rows', lo, at, of)
  BY <1>3, <1>7 DEF Traced
<1>9. ~up' => Len(rounds') = 0
  BY <1>3 DEF SubInv
<1> QED  BY <1>1, <1>5, <1>6, <1>8, <1>9 DEF SubInv

(* A report changes neither rows nor rounds.                               *)
LEMMA ReportSub ==
  ASSUME NEW lo \in Int, SubInv(lo), SomeReport PROVE SubInv(lo)'
<1>1. IInv'
  BY NextIInv DEF SubInv, Next
<1>2. UNCHANGED <<rows, rounds, up>>
  BY DEF SomeReport, Report
<1> QED  BY <1>1, <1>2 DEF SubInv

(* An answer leaves the calls of the round.                                *)
LEMMA ReceiveSub ==
  ASSUME NEW lo \in Int, SubInv(lo), SomeAnswer PROVE SubInv(lo)'
<1>1. IInv /\ IInv'
  BY NextIInv DEF SubInv, Next
<1>2. rounds \in Seq(Round)
  BY <1>1 DEF IInv, TypeOK
<1>3. PICK i \in DOMAIN rounds : Receive(i)
  BY DEF SomeAnswer
<1>4. PICK k \in Unanswered(i) :
        rounds' = [rounds EXCEPT ![i].answers[k] =
          AnswerOf(rounds[i].calls[k], reports[rounds[i].calls[k]][1])]
  BY <1>3 DEF Receive
<1>5. /\ Len(rounds') = Len(rounds)
      /\ \A j \in 1 .. Len(rounds) : rounds'[j].calls = rounds[j].calls
  <2> DEFINE after == [rounds[i] EXCEPT !.answers[k] =
          AnswerOf(rounds[i].calls[k], reports[rounds[i].calls[k]][1])]
  <2>1. rounds' = [rounds EXCEPT ![i] = after]
    BY <1>4
  <2>2. i \in 1 .. Len(rounds) /\ rounds[i] \in Round
    BY <1>2, <1>3, LenProperties, ElementOfSeq
  <2>3. after.calls = rounds[i].calls
    BY <2>2 DEF Round
  <2> HIDE DEF after
  <2>4. DOMAIN rounds' = DOMAIN rounds
    BY <2>1
  <2>5. rounds' \in Seq(Round)
    BY <1>1 DEF IInv, TypeOK
  <2>6. Len(rounds') = Len(rounds)
    BY <1>2, <2>4, <2>5, LenProperties
  <2> QED  BY <1>2, <2>1, <2>2, <2>3, <2>6, LenProperties
<1>6. UNCHANGED <<rows, up>>
  BY <1>3 DEF Receive
<1>7. PICK at, of : Traced(rounds, rows, lo, at, of)
  BY DEF SubInv
<1>8. Traced(rounds', rows', lo, at, of)
  BY <1>5, <1>6, <1>7, KeptTrace
<1>9. ~up' => Len(rounds') = 0
  BY <1>5, <1>6 DEF SubInv
<1> QED  BY <1>1, <1>6, <1>8, <1>9 DEF SubInv

(* What is left when a round has ended has a trace.                        *)
LEMMA WithoutTrace ==
  ASSUME rounds \in Seq(Round), NEW i \in DOMAIN rounds, NEW T, NEW lo,
         NEW at, NEW of, Traced(rounds, T, lo, at, of)
  PROVE  \E at2, of2 : Traced(Without(i), T, lo, at2, of2)
<1>1. i \in 1 .. Len(rounds) /\ Len(rounds) \in Nat
  BY LenProperties
<1>2. /\ Len(Without(i)) = Len(rounds) - 1
      /\ \A j \in 1 .. Len(Without(i)) :
           Without(i)[j] = IF j < i THEN rounds[j] ELSE rounds[j + 1]
  BY <1>1, RemoveProperties DEF Without
<1> QED  BY <1>1, <1>2, DroppedTrace

(* A process that does not run has no round to go on with.                 *)
LEMMA RoundsRun ==
  ASSUME NEW lo, SubInv(lo), NEW i \in DOMAIN rounds PROVE up
<1>1. i \in 1 .. Len(rounds)
  BY LenProperties DEF SubInv, IInv, TypeOK
<1> QED  BY <1>1 DEF SubInv

(* An UPDATE leaves the trace as it is, and ends its round or not.         *)
LEMMA UpdateSub ==
  ASSUME NEW lo \in Int, SubInv(lo), SomeUpdate PROVE SubInv(lo)'
<1>1. IInv /\ IInv'
  BY NextIInv DEF SubInv, Next
<1>2. /\ rounds \in Seq(Round) /\ rows \in SUBSET Row
      /\ rows' \in SUBSET Row
  BY <1>1 DEF IInv, TypeOK
<1>3. PICK i \in DOMAIN rounds : UpdateStatus(i)
  BY DEF SomeUpdate
<1>4. UNCHANGED up /\ up
  BY <1>3, RoundsRun DEF UpdateStatus
<1>5. PICK at, of : Traced(rounds, rows, lo, at, of)
  BY DEF SubInv
<1>6. UniqueRows(rows) /\ \A r \in rows : lo <= r.age
  BY DEF SubInv
<1>7. /\ UniqueRows(rows') /\ (\A r \in rows' : lo <= r.age)
      /\ \E of2 : Traced(rounds, rows', lo, at, of2)
  <2>1. CASE rows' = rows
    BY <1>5, <1>6, <2>1
  <2>2. CASE rows' # rows
    <3>1. PICK to : Rewritten(rows, to, rows')
      BY <1>2, <1>3, <1>6, <2>2, UpdateRewrites
    <3>2. /\ to \in [rows -> rows'] /\ rows' = {to[r] : r \in rows}
          /\ \A r \in rows : /\ to[r].tx = r.tx /\ r.age <= to[r].age
                             /\ r.age \in Int /\ to[r].age \in Int
          /\ \A p, q \in rows : to[p] = to[q] => p = q
      BY <3>1 DEF Rewritten
    <3>3. \A r \in rows' : lo <= r.age
      <4> SUFFICES ASSUME NEW r \in rows PROVE lo <= to[r].age
        BY <3>2
      <4>1. lo <= r.age
        BY <1>6
      <4> QED  BY <3>2, <4>1
    <3>4. Traced(rounds, rows', lo, at, [s \in Slots(rounds) |-> to[of[s]]])
      BY <1>2, <1>5, <3>2, MovedTrace
    <3>5. UniqueRows(rows')
      BY <1>2, <1>6, UniqueStays DEF Next
    <3> QED  BY <3>3, <3>4, <3>5
  <2> QED  BY <2>1, <2>2
<1>8. PICK of2 : Traced(rounds, rows', lo, at, of2)
  BY <1>7
<1>9. \E at3, of3 : Traced(rounds', rows', lo, at3, of3)
  <2>1. CASE rounds' = Without(i)
    <3>1. \E at3, of3 : Traced(Without(i), rows', lo, at3, of3)
      BY <1>2, <1>8, WithoutTrace
    <3> QED  BY <2>1, <3>1
  <2>2. CASE rounds' = [rounds EXCEPT ![i].next = @ + 1]
    <3> DEFINE after == [rounds[i] EXCEPT !.next = @ + 1]
    <3>1. rounds' = [rounds EXCEPT ![i] = after]
      BY <2>2
    <3>2. i \in 1 .. Len(rounds) /\ rounds[i] \in Round
      BY <1>2, LenProperties, ElementOfSeq
    <3>3. after.calls = rounds[i].calls
      BY <3>2 DEF Round
    <3> HIDE DEF after
    <3>4. DOMAIN rounds' = DOMAIN rounds /\ rounds' \in Seq(Round)
      BY <1>1, <3>1 DEF IInv, TypeOK
    <3>5. Len(rounds') = Len(rounds)
      BY <1>2, <3>4, LenProperties
    <3>6. \A j \in 1 .. Len(rounds) : rounds'[j].calls = rounds[j].calls
      BY <1>2, <3>1, <3>2, <3>3, LenProperties
    <3> QED  BY <1>8, <3>5, <3>6, KeptTrace
  <2>3. \/ rounds' = Without(i)
        \/ rounds' = [rounds EXCEPT ![i].next = @ + 1]
    BY <1>3 DEF UpdateStatus
  <2> QED  BY <2>1, <2>2, <2>3
<1> QED  BY <1>1, <1>4, <1>7, <1>9 DEF SubInv

(* A round fails.                                                          *)
LEMMA FailureSub ==
  ASSUME NEW lo \in Int, SubInv(lo), SomeFailure PROVE SubInv(lo)'
<1>1. IInv /\ IInv'
  BY NextIInv DEF SubInv, Next
<1>2. PICK i \in DOMAIN rounds : RoundFails(i)
  BY DEF SomeFailure
<1>3. rounds' = Without(i) /\ UNCHANGED <<rows, up>> /\ up
  BY <1>2, RoundsRun DEF RoundFails
<1>4. PICK at, of : Traced(rounds, rows, lo, at, of)
  BY DEF SubInv
<1>5. \E at2, of2 : Traced(Without(i), rows, lo, at2, of2)
  BY <1>1, <1>4, WithoutTrace DEF IInv, TypeOK
<1> QED  BY <1>1, <1>3, <1>5 DEF SubInv

(* A crash ends all rounds.                                                *)
LEMMA CrashSub ==
  ASSUME NEW lo \in Int, SubInv(lo), Crash PROVE SubInv(lo)'
<1>1. IInv'
  BY NextIInv DEF SubInv, Next
<1>2. Len(rounds') = 0 /\ rows' = rows
  BY EmptySeq DEF Crash
<1>3. Traced(rounds', rows', lo, <<>>, <<>>)
  BY <1>2, EmptyTrace
<1> QED  BY <1>1, <1>2, <1>3 DEF SubInv

(* Every step keeps it.                                                    *)
LEMMA NextSub ==
  ASSUME NEW lo \in Int, \A a \in PostedAges : lo <= a, SubInv(lo), [Next]_vars
  PROVE  SubInv(lo)'
<1>1. CASE UNCHANGED vars
  <2>1. IInv'
    BY NextIInv DEF SubInv
  <2>2. UNCHANGED <<rows, rounds, up>>
    BY <1>1 DEF vars
  <2> QED  BY <2>1, <2>2 DEF SubInv
<1> QED  BY <1>1, TickSub, ServeSub, PostSub, ReportSub, ReceiveSub, UpdateSub,
            FailureSub, CrashSub DEF Next

(* A call has no more open subscriptions than its rows have ages below the *)
(* limit.                                                                  *)
LEMMA SubBounds ==
  ASSUME NEW lo \in Int, SubInv(lo), NEW t \in Tx
  PROVE  Cardinality(OpenSubscriptions(t))
           <= Cardinality({p \in (lo .. Expiry - 1) \X {r \in rows : r.tx = t} :
                             TRUE})
<1> DEFINE mine == {r \in rows : r.tx = t}
           open == OpenSubscriptions(t)
           room == (lo .. Expiry - 1) \X mine
<1>1. PICK at, of : Traced(rounds, rows, lo, at, of)
  BY DEF SubInv
<1>2. rounds \in Seq(Round) /\ IsFiniteSet(rows)
  BY DEF SubInv, IInv, TypeOK
<1>3. ASSUME NEW s \in open
      PROVE  s \in Slots(rounds) /\ rounds[s[1]].calls[s[2]] = t
  <2>1. /\ s \in (DOMAIN rounds) \X (1 .. Limit)
        /\ s[2] \in DOMAIN rounds[s[1]].calls
        /\ rounds[s[1]].calls[s[2]] = t
    BY DEF OpenSubscriptions, Unanswered
  <2>2. s[1] \in 1 .. Len(rounds) /\ rounds[s[1]] \in Round
    BY <1>2, <2>1, LenProperties, ElementOfSeq
  <2>3. rounds[s[1]].calls \in Seq(Tx)
    BY <2>2 DEF Round
  <2>4. s[2] \in 1 .. Len(rounds[s[1]].calls) /\ s[2] \in Nat
    BY <2>1, <2>3, LenProperties
  <2>5. s \in (1 .. Len(rounds)) \X Nat
    BY <2>1, <2>2, <2>4
  <2> QED  BY <2>1, <2>4, <2>5 DEF Slots
<1> HIDE DEF open
<1> DEFINE f == [s \in open |-> <<at[s], of[s]>>]
<1>4. f \in Injection(open, room)
  <2>1. \A s \in open : of[s] \in mine /\ at[s] \in lo .. Expiry - 1
    BY <1>1, <1>3 DEF Traced
  <2>2. f \in [open -> room]
    BY <2>1
  <2>3. \A s, u \in open : f[s] = f[u] => s = u
    BY <1>1, <1>3 DEF Traced
  <2> HIDE DEF f, room
  <2>4. IsInjective(f)
    BY <2>2, <2>3 DEF IsInjective
  <2> QED  BY <2>2, <2>4 DEF Injection
<1>5. IsFiniteSet(room)
  <2>1. IsFiniteSet(mine)
    BY <1>2, FS_Subset
  <2>2. IsFiniteSet(lo .. Expiry - 1)
    BY PollerAssumption, FS_Interval
  <2> QED  BY <2>1, <2>2, FS_Product
<1>6. {p \in room : TRUE} = room
  OBVIOUS
<1> HIDE DEF f, room
<1>7. Cardinality(open) <= Cardinality(room)
  BY <1>4, <1>5, FS_Injection
<1> QED  BY <1>6, <1>7 DEF open, room

(* However many rounds overlap, a call has at most one open subscription   *)
(* for each interval in the life of each of its rows.  The clocks of the   *)
(* clients must not be ahead without bound.                                *)
THEOREM SubscriptionsAreBounded ==
  ASSUME \E a \in PostedAges : \A b \in PostedAges : a <= b
  PROVE  Spec => []SubscriptionsBounded
<1> DEFINE lo == CHOOSE a \in PostedAges : \A b \in PostedAges : a <= b
<1>1. lo \in PostedAges /\ \A b \in PostedAges : lo <= b
  OBVIOUS
<1>2. lo \in Int
  BY <1>1, PollerAssumption
<1>3. SubscriptionsBounded <=>
        \A t \in Tx : Cardinality(OpenSubscriptions(t))
          <= Cardinality({p \in (lo .. Expiry - 1) \X {r \in rows : r.tx = t} :
                            TRUE})
  BY DEF SubscriptionsBounded
<1> HIDE DEF lo
<1>4. Init => SubInv(lo)
  <2> SUFFICES ASSUME Init PROVE SubInv(lo)
    OBVIOUS
  <2>1. IInv
    BY InitIInv
  <2>2. Len(rounds) = 0 /\ rows = {}
    BY EmptySeq DEF Init
  <2>3. Traced(rounds, rows, lo, <<>>, <<>>)
    BY <2>2, EmptyTrace
  <2> QED  BY <2>1, <2>2, <2>3 DEF SubInv, UniqueRows
<1>5. SubInv(lo) /\ [Next]_vars => SubInv(lo)'
  BY <1>1, <1>2, NextSub
<1>6. SubInv(lo) => SubscriptionsBounded
  BY <1>2, <1>3, SubBounds
<1> QED  BY <1>4, <1>5, <1>6, PTL DEF Spec
=============================================================================
