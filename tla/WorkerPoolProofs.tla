--------------------------- MODULE WorkerPoolProofs ---------------------------
(***************************************************************************)
(* The safety properties of WorkerPool, for any number of requests and     *)
(* workers and any size of queue.                                          *)
(***************************************************************************)
EXTENDS WorkerPool, SequenceTheorems, TLAPS

-----------------------------------------------------------------------------
(* Sequences without repetition *)

\* A new element at the end.
LEMMA AppendFresh ==
    ASSUME NEW S, NEW s \in Seq(S), NEW x \in S, IsInjective(s), x \notin ToSet(s)
    PROVE  /\ Append(s, x) \in Seq(S)
           /\ IsInjective(Append(s, x))
           /\ ToSet(Append(s, x)) = ToSet(s) \cup { x }
<1>1. /\ Append(s, x) \in Seq(S)
      /\ Len(Append(s, x)) = Len(s) + 1
      /\ DOMAIN Append(s, x) = 1 .. Len(s) + 1
      /\ DOMAIN s = 1 .. Len(s)
      /\ Len(s) \in Nat
      /\ \A i \in 1 .. Len(s) : Append(s, x)[i] = s[i]
      /\ Append(s, x)[Len(s) + 1] = x
  OBVIOUS
<1>2. \A i \in 1 .. Len(s) : s[i] # x
  BY <1>1 DEF ToSet
<1>3. IsInjective(Append(s, x))
  <2> SUFFICES ASSUME NEW a \in 1 .. Len(s) + 1, NEW b \in 1 .. Len(s) + 1,
                      Append(s, x)[a] = Append(s, x)[b]
               PROVE  a = b
    BY <1>1 DEF IsInjective
  <2>1. CASE a \in 1 .. Len(s) /\ b \in 1 .. Len(s)
    <3>1. s[a] = s[b]
      BY <1>1, <2>1
    <3> QED BY <1>1, <2>1, <3>1 DEF IsInjective
  <2>2. CASE a = Len(s) + 1 /\ b \in 1 .. Len(s)
    BY <1>1, <1>2, <2>2
  <2>3. CASE b = Len(s) + 1 /\ a \in 1 .. Len(s)
    BY <1>1, <1>2, <2>3
  <2>4. CASE a = Len(s) + 1 /\ b = Len(s) + 1
    BY <2>4
  <2> QED BY <1>1, <2>1, <2>2, <2>3, <2>4
<1>4. ToSet(Append(s, x)) = ToSet(s) \cup { x }
  <2>1. \A y \in ToSet(Append(s, x)) : y \in ToSet(s) \cup { x }
    BY <1>1 DEF ToSet
  <2>2. \A y \in ToSet(s) : y \in ToSet(Append(s, x))
    BY <1>1 DEF ToSet
  <2>3. x \in ToSet(Append(s, x))
    <3>1. Len(s) + 1 \in DOMAIN Append(s, x)
      BY <1>1
    <3> QED BY <1>1, <3>1 DEF ToSet
  <2> QED BY <2>1, <2>2, <2>3
<1> QED BY <1>1, <1>3, <1>4

\* The first element leaves.
LEMMA TailFresh ==
    ASSUME NEW S, NEW s \in Seq(S), IsInjective(s), s # << >>
    PROVE  /\ Head(s) \in ToSet(s)
           /\ Tail(s) \in Seq(S)
           /\ IsInjective(Tail(s))
           /\ ToSet(Tail(s)) = ToSet(s) \ { Head(s) }
<1>1. /\ Tail(s) \in Seq(S)
      /\ Len(s) \in Nat \ { 0 }
      /\ Len(Tail(s)) = Len(s) - 1
      /\ DOMAIN s = 1 .. Len(s)
      /\ DOMAIN Tail(s) = 1 .. Len(s) - 1
      /\ \A i \in 1 .. Len(s) - 1 : Tail(s)[i] = s[i + 1]
      /\ Head(s) = s[1]
  BY HeadTailProperties, EmptySeq, LenProperties
<1>2. Head(s) \in ToSet(s)
  <2>1. 1 \in DOMAIN s
    BY <1>1
  <2> QED BY <1>1, <2>1 DEF ToSet
<1>3. IsInjective(Tail(s))
  <2> SUFFICES ASSUME NEW a \in 1 .. Len(s) - 1, NEW b \in 1 .. Len(s) - 1,
                      Tail(s)[a] = Tail(s)[b]
               PROVE  a = b
    BY <1>1 DEF IsInjective
  <2>1. a + 1 \in DOMAIN s /\ b + 1 \in DOMAIN s /\ s[a + 1] = s[b + 1]
    BY <1>1
  <2> QED BY <1>1, <2>1 DEF IsInjective
<1>4. ASSUME NEW y \in ToSet(Tail(s))
      PROVE  y \in ToSet(s) \ { Head(s) }
  <2>1. PICK i \in 1 .. Len(s) - 1 : y = Tail(s)[i]
    BY <1>1 DEF ToSet
  <2>2. y = s[i + 1] /\ i + 1 \in DOMAIN s /\ 1 \in DOMAIN s /\ i + 1 # 1
    BY <1>1, <2>1
  <2>3. y # s[1]
    BY <2>2 DEF IsInjective
  <2> QED BY <1>1, <2>2, <2>3 DEF ToSet
<1>5. ASSUME NEW y \in ToSet(s), y # Head(s)
      PROVE  y \in ToSet(Tail(s))
  <2>1. PICK i \in 1 .. Len(s) : y = s[i]
    BY <1>1 DEF ToSet
  <2>2. i # 1
    BY <1>1, <1>5, <2>1
  <2>3. i - 1 \in DOMAIN Tail(s)
    BY <1>1, <2>1, <2>2
  <2>4. Tail(s)[i - 1] = y
    BY <1>1, <2>1, <2>2, <2>3
  <2> QED BY <2>3, <2>4 DEF ToSet
<1> QED BY <1>1, <1>2, <1>3, <1>4, <1>5

\* A sequence split in two.
LEMMA Split ==
    ASSUME NEW S, NEW s \in Seq(S), NEW t \in Seq(S)
    PROVE  /\ s \o t \in Seq(S)
           /\ ToSet(s \o t) = ToSet(s) \cup ToSet(t)
           /\ IsInjective(s \o t) => IsInjective(t)
<1>1. /\ s \o t \in Seq(S)
      /\ Len(s) \in Nat /\ Len(t) \in Nat
      /\ DOMAIN (s \o t) = 1 .. Len(s) + Len(t)
      /\ DOMAIN s = 1 .. Len(s) /\ DOMAIN t = 1 .. Len(t)
      /\ \A i \in 1 .. Len(s) + Len(t) :
            (s \o t)[i] = IF i <= Len(s) THEN s[i] ELSE t[i - Len(s)]
  BY ConcatProperties, LenProperties
<1>2. \A i \in 1 .. Len(s) : i \in DOMAIN (s \o t) /\ (s \o t)[i] = s[i]
  BY <1>1
<1>3. \A i \in 1 .. Len(t) : /\ Len(s) + i \in DOMAIN (s \o t)
                             /\ (s \o t)[Len(s) + i] = t[i]
  <2> TAKE i \in 1 .. Len(t)
  <2>1. Len(s) + i \in 1 .. Len(s) + Len(t) /\ ~(Len(s) + i <= Len(s))
        /\ (Len(s) + i) - Len(s) = i
    BY <1>1
  <2> QED BY <1>1, <2>1
<1>4. \A y \in ToSet(s) \cup ToSet(t) : y \in ToSet(s \o t)
  <2>1. \A y \in ToSet(s) : y \in ToSet(s \o t)
    BY <1>1, <1>2 DEF ToSet
  <2>2. ASSUME NEW y \in ToSet(t) PROVE y \in ToSet(s \o t)
    <3>1. PICK i \in 1 .. Len(t) : y = t[i]
      BY <1>1 DEF ToSet
    <3> QED BY <1>3, <3>1 DEF ToSet
  <2> QED BY <2>1, <2>2
<1>5. ASSUME NEW y \in ToSet(s \o t)
      PROVE  y \in ToSet(s) \cup ToSet(t)
  <2>1. PICK i \in 1 .. Len(s) + Len(t) : y = (s \o t)[i]
    BY <1>1 DEF ToSet
  <2>2. CASE i <= Len(s)
    <3>1. i \in DOMAIN s /\ y = s[i]
      BY <1>1, <2>1, <2>2
    <3> QED BY <3>1 DEF ToSet
  <2>3. CASE ~(i <= Len(s))
    <3>1. i - Len(s) \in DOMAIN t /\ y = t[i - Len(s)]
      BY <1>1, <2>1, <2>3
    <3> QED BY <3>1 DEF ToSet
  <2> QED BY <2>2, <2>3
<1>6. ASSUME IsInjective(s \o t) PROVE IsInjective(t)
  <2> SUFFICES ASSUME NEW a \in 1 .. Len(t), NEW b \in 1 .. Len(t), t[a] = t[b]
               PROVE  a = b
    BY <1>1 DEF IsInjective
  <2>1. /\ Len(s) + a \in DOMAIN (s \o t)
        /\ Len(s) + b \in DOMAIN (s \o t)
        /\ (s \o t)[Len(s) + a] = (s \o t)[Len(s) + b]
    BY <1>3
  <2>2. Len(s) + a = Len(s) + b
    BY <1>6, <2>1 DEF IsInjective
  <2> QED BY <1>1, <2>2
<1> QED BY <1>1, <1>4, <1>5, <1>6

\* A caller that is parked joins the line at its end.
LEMMA AppendToSecond ==
    ASSUME NEW S, NEW s \in Seq(S), NEW t \in Seq(S), NEW x \in S
    PROVE  s \o Append(t, x) = Append(s \o t, x)
OBVIOUS

\* A receive moves the line up by one, whether or not a parked job moves into
\* the buffer.
LEMMA MoveUp ==
    ASSUME NEW S, NEW s \in Seq(S), NEW t \in Seq(S), s # << >>
    PROVE  /\ Head(s \o t) = Head(s)
           /\ Tail(s) \o t = Tail(s \o t)
           /\ t # << >> => Append(Tail(s), Head(t)) \o Tail(t) = Tail(s \o t)
OBVIOUS

-----------------------------------------------------------------------------
(* The invariant *)

\* A worker that is about to send knows what.
AnswerReady == \A w \in Workers : worker[w].at = "send" => worker[w].answer \in Answers

\* A result channel is empty until its job is being closed.
AnswerLast == \A r \in Requests : result[r].buffer # << >> =>
    \/ result[r].closed
    \/ \E w \in Workers : worker[w].at = "close" /\ worker[w].job = r

\* Who still waits when the job is being closed has the answer in the channel.
AnsweredFirst == \A r \in Requests :
    /\ caller[r].at \in { "sending", "waiting" }
    /\ \/ result[r].closed
       \/ \E w \in Workers : worker[w].at = "close" /\ worker[w].job = r
    => result[r].buffer # << >>

QueueFits == /\ Len(jobs) <= QueueSize
             /\ senders # << >> => Len(jobs) = QueueSize

\* JobConserved in two parts: who has a job, and what its caller knows of it.
Held(r) == \E w \in Workers : worker[w].job = r

OneHolder ==
    /\ IsInjective(Line)
    /\ \A w \in Workers : worker[w].at # "idle" =>
          /\ worker[w].job \notin ToSet(Line)
          /\ ~result[worker[w].job].closed
          /\ \A v \in Workers \ { w } : worker[v].job # worker[w].job
    /\ \A r \in Requests : result[r].closed => r \notin ToSet(Line)

CallerKnows ==
    \A r \in Requests :
          /\ caller[r].at = "sending" <=> r \in ToSet(senders)
          /\ caller[r].at = "new" <=> /\ r \notin ToSet(Line)
                                      /\ ~result[r].closed
                                      /\ ~Held(r)

PoolInv == /\ PoolTypeOK
           /\ OneHolder
           /\ CallerKnows
           /\ AnswerReady
           /\ AnswerLast
           /\ QueueFits

LEMMA ConservedInParts == JobConserved <=> OneHolder /\ CallerKnows
BY DEF JobConserved, OneHolder, CallerKnows, Held

\* What the sequences of a state are.
LEMMA LineTyped ==
    ASSUME PoolTypeOK
    PROVE  /\ jobs \in Seq(Requests)
           /\ senders \in Seq(Requests)
           /\ Line \in Seq(Requests)
           /\ ToSet(Line) = ToSet(jobs) \cup ToSet(senders)
           /\ IsInjective(Line) => IsInjective(senders)
BY Split DEF PoolTypeOK, Line

LEMMA InitInv == Init => PoolInv
<1> SUFFICES ASSUME Init PROVE PoolInv
  OBVIOUS
<1> USE PoolConstants DEF Init
<1>1. Line = << >> /\ ToSet(<< >>) = { } /\ IsInjective(<< >>)
  BY DEF Line, ToSet, IsInjective
<1>2. PoolTypeOK
  <2>1. NewCaller \in Caller
    <3>1. 0 \in 0 .. Timeout /\ 0 \in 0 .. Horizon
      OBVIOUS
    <3> QED BY <3>1 DEF NewCaller, Caller
  <2>2. worker \in [Workers -> Worker]
        /\ \A w \in Workers : worker[w].at = "idle" /\ worker[w].job = NoRequest
    BY DEF IdleWorker, Worker
  <2>3. result \in [Requests -> ResultCh]
    BY DEF ResultCh
  <2>4. caller \in [Requests -> Caller]
    BY <2>1
  <2> QED BY <2>2, <2>3, <2>4 DEF PoolTypeOK
<1>3. OneHolder
  BY <1>1 DEF OneHolder, IdleWorker
<1>4. CallerKnows
  BY <1>1 DEF CallerKnows, Held, IdleWorker, NewCaller
<1>5. AnswerReady /\ AnswerLast /\ QueueFits
  <2>1. AnswerReady
    BY DEF AnswerReady, IdleWorker
  <2>2. AnswerLast
    BY DEF AnswerLast
  <2>3. Len(<< >>) = 0 /\ 0 <= QueueSize
    OBVIOUS
  <2>4. QueueFits
    BY <2>3 DEF QueueFits
  <2> QED BY <2>1, <2>2, <2>4
<1> QED BY <1>2, <1>3, <1>4, <1>5 DEF PoolInv

-----------------------------------------------------------------------------
(* The steps of a caller *)

LEMMA SubmitInv ==
    ASSUME PoolInv, NEW r \in Requests, Submit(r)
    PROVE  PoolInv'
<1> USE DEF PoolInv, Submit
<1>1. /\ jobs \in Seq(Requests) /\ senders \in Seq(Requests) /\ Line \in Seq(Requests)
      /\ ToSet(Line) = ToSet(jobs) \cup ToSet(senders)
      /\ IsInjective(Line) /\ IsInjective(senders)
  BY LineTyped DEF OneHolder
<1>2. r \notin ToSet(Line) /\ ~result[r].closed /\ ~Held(r)
  BY DEF CallerKnows
<1>3. /\ worker' = worker /\ result' = result
      /\ caller' \in [Requests -> Caller]
      /\ \A q \in Requests \ { r } : caller'[q] = caller[q]
      /\ caller'[r].at \in { "waiting", "sending" }
  <2>1. ASSUME NEW at \in { "waiting", "sending" },
               caller' = [caller EXCEPT ![r].at = at]
        PROVE  /\ caller' \in [Requests -> Caller]
               /\ \A q \in Requests \ { r } : caller'[q] = caller[q]
               /\ caller'[r].at = at
    BY <2>1 DEF PoolTypeOK, Caller
  <2>2. \E at \in { "waiting", "sending" } : caller' = [caller EXCEPT ![r].at = at]
    OBVIOUS
  <2> QED BY <2>1, <2>2
<1>4. Line' = Append(Line, r)
  <2>1. CASE senders = << >> /\ jobs' = Append(jobs, r) /\ senders' = senders
    <3>1. \A t \in Seq(Requests) : t \o << >> = t
      OBVIOUS
    <3> QED BY <1>1, <2>1, <3>1 DEF Line
  <2>2. CASE senders' = Append(senders, r) /\ jobs' = jobs
    BY <1>1, <2>2, AppendToSecond DEF Line
  <2> QED BY <2>1, <2>2
<1>5. /\ Line' \in Seq(Requests)
      /\ IsInjective(Line')
      /\ ToSet(Line') = ToSet(Line) \cup { r }
  BY <1>1, <1>2, <1>4, AppendFresh
<1>6. /\ jobs' \in Seq(Requests) /\ senders' \in Seq(Requests)
      /\ \/ caller'[r].at = "waiting" /\ senders' = senders
         \/ caller'[r].at = "sending" /\ ToSet(senders') = ToSet(senders) \cup { r }
  <2>1. CASE senders' = senders /\ jobs' = Append(jobs, r)
             /\ caller' = [caller EXCEPT ![r].at = "waiting"]
    BY <1>1, <2>1 DEF PoolTypeOK
  <2>2. CASE senders' = Append(senders, r) /\ jobs' = jobs
             /\ caller' = [caller EXCEPT ![r].at = "sending"]
    <3>1. ToSet(senders') = ToSet(senders) \cup { r } /\ senders' \in Seq(Requests)
      BY <1>1, <1>2, <2>2, AppendFresh
    <3> QED BY <1>1, <2>2, <3>1 DEF PoolTypeOK
  <2> QED BY <2>1, <2>2
<1>7. QueueFits'
  <2>1. CASE Len(jobs) < JobsCapacity /\ senders = << >>
             /\ jobs' = Append(jobs, r) /\ senders' = senders
    BY <1>1, <2>1, PoolConstants DEF QueueFits, JobsCapacity
  <2>2. CASE (Len(jobs) >= JobsCapacity \/ senders # << >>) /\ jobs' = jobs
    BY <1>1, <2>2, PoolConstants DEF QueueFits, JobsCapacity
  <2> QED BY <2>1, <2>2
<1>8. PoolTypeOK'
  BY <1>3, <1>6, <1>7 DEF PoolTypeOK, QueueFits
<1>9. OneHolder'
  BY <1>2, <1>3, <1>5 DEF OneHolder, Held
<1>10. CallerKnows'
  BY <1>1, <1>2, <1>3, <1>5, <1>6 DEF CallerKnows, Held
<1>11. (AnswerReady /\ AnswerLast)'
  BY <1>3 DEF AnswerReady, AnswerLast
<1> QED BY <1>7, <1>8, <1>9, <1>10, <1>11

\* A step of callers in their select, which leaves line and workers alone.
LEMMA CallerMoves ==
    ASSUME PoolInv, UNCHANGED << jobs, senders, worker >>,
           caller' \in [Requests -> Caller], result' \in [Requests -> ResultCh],
           \A q \in Requests :
              /\ caller'[q].at = "new" <=> caller[q].at = "new"
              /\ caller'[q].at = "sending" <=> caller[q].at = "sending"
              /\ result'[q].closed = result[q].closed
              /\ result'[q].buffer # << >> => result[q].buffer # << >>
    PROVE  PoolInv'
<1> USE DEF PoolInv
<1>1. Line' = Line
  BY DEF Line
<1>2. PoolTypeOK'
  BY DEF PoolTypeOK
<1>3. \A w \in Workers : worker[w].at # "idle" => worker[w].job \in Requests
  BY DEF PoolTypeOK, Worker
<1>4. OneHolder'
  BY <1>1, <1>3 DEF OneHolder
<1>5. CallerKnows'
  BY <1>1 DEF CallerKnows, Held
<1>6. (AnswerReady /\ AnswerLast /\ QueueFits)'
  BY DEF AnswerReady, AnswerLast, QueueFits
<1> QED BY <1>2, <1>4, <1>5, <1>6

LEMMA GetResultInv ==
    ASSUME PoolInv, NEW r \in Requests, GetResult(r)
    PROVE  PoolInv'
<1> USE PoolConstants DEF PoolInv, GetResult
<1>1. /\ result[r].buffer \in Seq(Answers) /\ result[r].buffer # << >>
      /\ Head(result[r].buffer) \in Answers
      /\ Tail(result[r].buffer) \in Seq(Answers)
  <2>1. result[r].buffer \in Seq(Answers)
    BY DEF PoolTypeOK, ResultCh
  <2> QED BY <2>1, HeadTailProperties
<1>2. Replied(Head(result[r].buffer)) \in Caller
  <2>1. 0 \in 0 .. Timeout /\ 0 \in 0 .. Horizon
    OBVIOUS
  <2> QED BY <1>1, <2>1 DEF Replied, NewCaller, Caller
<1>3. caller' \in [Requests -> Caller]
  BY <1>2 DEF PoolTypeOK
<1>4. result' \in [Requests -> ResultCh]
  BY <1>1 DEF PoolTypeOK, ResultCh
<1>5. ASSUME NEW q \in Requests
      PROVE  /\ caller'[q].at = "new" <=> caller[q].at = "new"
             /\ caller'[q].at = "sending" <=> caller[q].at = "sending"
             /\ result'[q].closed = result[q].closed
             /\ result'[q].buffer # << >> => result[q].buffer # << >>
  <2>1. CASE q = r
    BY <1>1, <2>1 DEF PoolTypeOK, ResultCh, Replied, NewCaller
  <2>2. CASE q # r
    BY <2>2 DEF PoolTypeOK
  <2> QED BY <2>1, <2>2
<1> QED BY <1>3, <1>4, <1>5, CallerMoves

LEMMA GiveUpInv ==
    ASSUME PoolInv, NEW r \in Requests, GiveUp(r)
    PROVE  PoolInv'
<1> USE PoolConstants DEF PoolInv, GiveUp
<1>1. Replied("timeout") \in Caller
  <2>1. 0 \in 0 .. Timeout /\ 0 \in 0 .. Horizon
    OBVIOUS
  <2> QED BY <2>1 DEF Replied, NewCaller, Caller
<1>2. caller' \in [Requests -> Caller]
  BY <1>1 DEF PoolTypeOK
<1>3. \A q \in Requests :
         /\ caller'[q].at = "new" <=> caller[q].at = "new"
         /\ caller'[q].at = "sending" <=> caller[q].at = "sending"
  BY DEF PoolTypeOK, Replied, NewCaller
<1> QED BY <1>2, <1>3, CallerMoves DEF PoolTypeOK

\* Ages and timers stay in their ranges.
LEMMA Older ==
    /\ \A a \in 0 .. Horizon : (IF a < Horizon THEN a + 1 ELSE Horizon) \in 0 .. Horizon
    /\ \A t \in 0 .. Timeout : t < Timeout => t + 1 \in 0 .. Timeout
BY PoolConstants

LEMMA TickInv ==
    ASSUME PoolInv, Tick
    PROVE  PoolInv'
<1> USE PoolConstants DEF PoolInv, Tick
<1>1. ASSUME NEW q \in Requests
      PROVE  caller'[q] \in Caller /\ caller'[q].at = caller[q].at
  <2>1. caller[q] \in Caller
    BY DEF PoolTypeOK
  <2> DEFINE older == IF caller[q].age < Horizon THEN caller[q].age + 1 ELSE Horizon
  <2>2. older \in 0 .. Horizon
    <3>1. caller[q].age \in 0 .. Horizon
      BY <2>1 DEF Caller
    <3> QED BY <3>1, Older
  <2>3. CASE caller[q].at = "sending"
    <3>1. caller'[q] = [caller[q] EXCEPT !.age = older]
      BY <2>3
    <3> QED BY <2>1, <2>2, <3>1 DEF Caller
  <2>4. CASE caller[q].at = "waiting"
    <3>1. caller'[q] = [caller[q] EXCEPT !.age = older, !.timer = @ + 1]
      BY <2>4
    <3>2. caller[q].timer + 1 \in 0 .. Timeout
      <4>1. caller[q].timer \in 0 .. Timeout
        BY <2>1 DEF Caller
      <4>2. caller[q].timer < Timeout
        BY <2>4
      <4> QED BY <4>1, <4>2, Older
    <3> QED BY <2>1, <2>2, <3>1, <3>2 DEF Caller
  <2>5. CASE caller[q].at \notin { "sending", "waiting" }
    <3>1. caller'[q] = caller[q]
      BY <2>5
    <3> QED BY <2>1, <3>1
  <2> QED BY <2>3, <2>4, <2>5
<1>2. caller' \in [Requests -> Caller]
  BY <1>1
<1> QED BY <1>1, <1>2, CallerMoves DEF PoolTypeOK

-----------------------------------------------------------------------------
(* The steps of a worker *)

LEMMA ReceiveInv ==
    ASSUME PoolInv, NEW w \in Workers, Receive(w)
    PROVE  PoolInv'
<1> USE PoolConstants DEF PoolInv, Receive
<1> DEFINE h == Head(jobs)
<1>1. /\ jobs \in Seq(Requests) /\ senders \in Seq(Requests) /\ Line \in Seq(Requests)
      /\ ToSet(Line) = ToSet(jobs) \cup ToSet(senders)
      /\ IsInjective(Line) /\ IsInjective(senders)
  BY LineTyped DEF OneHolder
<1>2. /\ Line # << >> /\ Head(Line) = h
      /\ Line' = Tail(Line)
  <2>1. /\ Head(Line) = h
        /\ Tail(jobs) \o senders = Tail(Line)
        /\ senders # << >> =>
              Append(Tail(jobs), Head(senders)) \o Tail(senders) = Tail(Line)
    BY <1>1, MoveUp DEF Line
  <2>2. Line # << >>
    BY <1>1 DEF Line
  <2> QED BY <2>1, <2>2 DEF Line
<1>3. /\ h \in ToSet(Line) /\ h \in Requests
      /\ Line' \in Seq(Requests)
      /\ IsInjective(Line')
      /\ ToSet(Line') = ToSet(Line) \ { h }
  <2>1. h \in Requests
    BY <1>1, HeadTailProperties
  <2> QED BY <1>1, <1>2, <2>1, TailFresh
<1>4. /\ result' = result
      /\ worker[w].at = "idle" /\ worker[w].job = NoRequest
      /\ worker' \in [Workers -> Worker]
      /\ worker'[w].at = "lookup" /\ worker'[w].job = h
      /\ \A v \in Workers \ { w } : worker'[v] = worker[v]
  BY <1>3 DEF PoolTypeOK, Worker
<1>5. \A v \in Workers : worker[v].at # "idle" => worker[v].job # h
  BY <1>3 DEF OneHolder
<1>6. \A v \in Workers : worker[v].job # h
  BY <1>3, <1>5 DEF PoolTypeOK
<1>7. /\ jobs' \in Seq(Requests) /\ senders' \in Seq(Requests)
      /\ caller' \in [Requests -> Caller]
      /\ \A q \in Requests : caller'[q].at = "new" <=> caller[q].at = "new"
      /\ \A q \in Requests : caller'[q].at = "sending" <=> q \in ToSet(senders')
      /\ QueueFits'
  <2>1. Tail(jobs) \in Seq(Requests) /\ Len(Tail(jobs)) = Len(jobs) - 1
        /\ Len(jobs) \in Nat /\ Len(jobs) <= QueueSize
    BY <1>1, HeadTailProperties, LenProperties DEF QueueFits
  <2>2. CASE senders = << >>
    <3>1. jobs' = Tail(jobs) /\ senders' = senders /\ caller' = caller
      BY <2>2
    <3> QED BY <1>1, <2>1, <2>2, <3>1 DEF QueueFits, PoolTypeOK, CallerKnows
  <2>3. CASE senders # << >>
    <3> DEFINE x == Head(senders)
    <3>1. /\ jobs' = Append(Tail(jobs), x) /\ senders' = Tail(senders)
          /\ caller' = [caller EXCEPT ![x].at = "waiting"]
      BY <2>3
    <3>2. /\ x \in Requests /\ x \in ToSet(senders)
          /\ Tail(senders) \in Seq(Requests)
          /\ ToSet(Tail(senders)) = ToSet(senders) \ { x }
      BY <1>1, <2>3, TailFresh, HeadTailProperties
    <3>3. caller[x].at = "sending"
      BY <3>2 DEF CallerKnows
    <3>4. caller' \in [Requests -> Caller]
      BY <3>1, <3>2 DEF PoolTypeOK, Caller
    <3>5. caller'[x].at = "waiting" /\ \A q \in Requests \ { x } : caller'[q] = caller[q]
      BY <3>1, <3>2 DEF PoolTypeOK
    <3>6. /\ \A q \in Requests : caller'[q].at = "new" <=> caller[q].at = "new"
          /\ \A q \in Requests : caller'[q].at = "sending" <=> q \in ToSet(senders')
      BY <3>1, <3>2, <3>3, <3>5 DEF CallerKnows
    <3>7. jobs' \in Seq(Requests) /\ Len(jobs') = Len(jobs)
      BY <2>1, <3>1, <3>2
    <3>8. Len(jobs) = QueueSize
      BY <2>3 DEF QueueFits
    <3>9. QueueFits'
      BY <3>7, <3>8 DEF QueueFits
    <3> QED BY <3>1, <3>2, <3>4, <3>6, <3>7, <3>9
  <2> QED BY <2>2, <2>3
<1>8. PoolTypeOK'
  <2>1. \A v \in Workers : worker'[v].at = "idle" <=> worker'[v].job = NoRequest
    BY <1>3, <1>4 DEF PoolTypeOK
  <2> QED BY <1>4, <1>7, <2>1 DEF PoolTypeOK
<1>9. OneHolder'
  <2>1. ASSUME NEW v \in Workers, worker'[v].at # "idle"
        PROVE  /\ worker'[v].job \notin ToSet(Line')
               /\ ~result'[worker'[v].job].closed
               /\ \A u \in Workers \ { v } : worker'[u].job # worker'[v].job
    <3>1. CASE v = w
      BY <1>3, <1>4, <1>6, <3>1 DEF OneHolder
    <3>2. CASE v # w
      BY <1>3, <1>4, <1>6, <2>1, <3>2 DEF OneHolder
    <3> QED BY <3>1, <3>2
  <2>2. \A q \in Requests : result'[q].closed => q \notin ToSet(Line')
    BY <1>3, <1>4 DEF OneHolder
  <2> QED BY <1>3, <2>1, <2>2 DEF OneHolder
<1>10. CallerKnows'
  <2>1. \A q \in Requests : Held(q)' <=> Held(q) \/ q = h
    BY <1>4 DEF Held
  <2>2. ASSUME NEW q \in Requests
        PROVE  caller'[q].at = "new" <=> /\ q \notin ToSet(Line')
                                         /\ ~result'[q].closed
                                         /\ ~Held(q)'
    BY <1>3, <1>4, <1>7, <2>1 DEF CallerKnows
  <2> QED BY <1>7, <2>2 DEF CallerKnows
<1>11. (AnswerReady /\ AnswerLast)'
  BY <1>4 DEF AnswerReady, AnswerLast
<1> QED BY <1>7, <1>8, <1>9, <1>10, <1>11

\* A step of a worker that keeps its job and closes nothing.
LEMMA WorkerMoves ==
    ASSUME PoolInv, UNCHANGED << jobs, senders, caller >>,
           worker' \in [Workers -> Worker], result' \in [Requests -> ResultCh],
           \A v \in Workers : /\ worker'[v].job = worker[v].job
                              /\ worker'[v].at = "idle" <=> worker[v].at = "idle",
           \A q \in Requests : result'[q].closed = result[q].closed,
           (AnswerReady /\ AnswerLast)'
    PROVE  PoolInv'
<1> USE DEF PoolInv
<1>1. Line' = Line
  BY DEF Line
<1>2. PoolTypeOK'
  BY DEF PoolTypeOK
<1>3. \A w \in Workers : worker[w].at # "idle" => worker[w].job \in Requests
  BY DEF PoolTypeOK, Worker
<1>4. OneHolder'
  BY <1>1, <1>3 DEF OneHolder
<1>5. CallerKnows'
  BY <1>1 DEF CallerKnows, Held
<1>6. QueueFits'
  BY DEF QueueFits
<1> QED BY <1>2, <1>4, <1>5, <1>6

LEMMA LookupInv ==
    ASSUME PoolInv, NEW w \in Workers, Lookup(w)
    PROVE  PoolInv'
<1> USE DEF PoolInv, Lookup
<1>1. /\ worker' \in [Workers -> Worker]
      /\ worker'[w].job = worker[w].job
      /\ \/ worker'[w].at = "rank"
         \/ worker'[w].at = "send" /\ worker'[w].answer = "nil"
      /\ \A v \in Workers \ { w } : worker'[v] = worker[v]
  <2>1. worker[w] \in Worker
    BY DEF PoolTypeOK
  <2>2. CASE worker' = [worker EXCEPT ![w].at = "rank"]
    BY <2>1, <2>2 DEF PoolTypeOK, Worker
  <2>3. CASE worker' = [worker EXCEPT ![w] = [@ EXCEPT !.at = "send", !.answer = "nil"]]
    BY <2>1, <2>3 DEF PoolTypeOK, Worker, Answers
  <2> QED BY <2>2, <2>3
<1>2. (AnswerReady /\ AnswerLast)'
  BY <1>1 DEF AnswerReady, AnswerLast, Answers
<1> QED BY <1>1, <1>2, WorkerMoves DEF PoolTypeOK

LEMMA RankInv ==
    ASSUME PoolInv, NEW w \in Workers, Rank(w)
    PROVE  PoolInv'
<1> USE DEF PoolInv, Rank
<1>1. /\ worker' \in [Workers -> Worker]
      /\ worker'[w].job = worker[w].job
      /\ worker'[w].at = "send" /\ worker'[w].answer = "ranked"
      /\ \A v \in Workers \ { w } : worker'[v] = worker[v]
  BY DEF PoolTypeOK, Worker, Answers
<1>2. (AnswerReady /\ AnswerLast)'
  BY <1>1 DEF AnswerReady, AnswerLast, Answers
<1> QED BY <1>1, <1>2, WorkerMoves DEF PoolTypeOK

LEMMA SendInv ==
    ASSUME PoolInv, NEW w \in Workers, Send(w)
    PROVE  PoolInv'
<1> USE DEF PoolInv, Send
<1> DEFINE r == worker[w].job
<1>1. r \in Requests
  BY DEF PoolTypeOK, Worker
<1>2. /\ worker' \in [Workers -> Worker]
      /\ worker'[w].job = r /\ worker'[w].at = "close"
      /\ \A v \in Workers \ { w } : worker'[v] = worker[v]
  BY DEF PoolTypeOK, Worker
<1>3. /\ result' \in [Requests -> ResultCh]
      /\ \A q \in Requests : result'[q].closed = result[q].closed
      /\ \A q \in Requests \ { r } : result'[q].buffer = result[q].buffer
  <2>1. worker[w].answer \in Answers
    BY DEF AnswerReady
  <2>2. Append(result[r].buffer, worker[w].answer) \in Seq(Answers)
    BY <1>1, <2>1 DEF PoolTypeOK, ResultCh
  <2> QED BY <1>1, <2>2 DEF PoolTypeOK, ResultCh
<1>4. AnswerReady'
  BY <1>2 DEF AnswerReady
<1>5. AnswerLast'
  BY <1>2, <1>3 DEF AnswerLast
<1> QED BY <1>2, <1>3, <1>4, <1>5, WorkerMoves DEF PoolTypeOK

LEMMA CloseInv ==
    ASSUME PoolInv, NEW w \in Workers, Close(w)
    PROVE  PoolInv'
<1> USE PoolConstants DEF PoolInv, Close
<1> DEFINE r == worker[w].job
<1>1. r \in Requests /\ ~result[r].closed /\ r \notin ToSet(Line)
  BY DEF PoolTypeOK, Worker, OneHolder
<1>2. /\ worker' \in [Workers -> Worker]
      /\ worker'[w].job = NoRequest /\ worker'[w].at = "idle"
      /\ \A v \in Workers \ { w } : worker'[v] = worker[v]
  <2>1. IdleWorker \in Worker
    BY DEF IdleWorker, Worker
  <2> QED BY <2>1 DEF PoolTypeOK, AfterClose, IdleWorker
<1>3. /\ result' \in [Requests -> ResultCh]
      /\ result'[r].closed
      /\ \A q \in Requests \ { r } : result'[q] = result[q]
  BY <1>1 DEF PoolTypeOK, ResultCh
<1>4. Line' = Line
  BY DEF Line
<1>5. PoolTypeOK'
  BY <1>2, <1>3 DEF PoolTypeOK
<1>6. \A v \in Workers \ { w } : worker[v].job # r
  BY DEF OneHolder
<1>7. OneHolder'
  <2>1. ASSUME NEW v \in Workers, worker'[v].at # "idle"
        PROVE  /\ worker'[v].job \notin ToSet(Line)
               /\ ~result'[worker'[v].job].closed
               /\ \A u \in Workers \ { v } : worker'[u].job # worker'[v].job
    <3>1. v # w /\ worker'[v] = worker[v] /\ worker[v].job \in Requests \ { r }
      BY <1>2, <1>6, <2>1 DEF PoolTypeOK, Worker
    <3> QED BY <1>2, <1>3, <2>1, <3>1 DEF OneHolder
  <2>2. \A q \in Requests : result'[q].closed => q \notin ToSet(Line)
    BY <1>1, <1>3 DEF OneHolder
  <2> QED BY <1>4, <2>1, <2>2 DEF OneHolder
<1>8. CallerKnows'
  <2>1. \A q \in Requests \ { r } : Held(q)' <=> Held(q)
    BY <1>2 DEF Held
  <2>2. caller[r].at # "new"
    BY <1>1 DEF CallerKnows, Held
  <2> QED BY <1>1, <1>3, <1>4, <2>1, <2>2 DEF CallerKnows
<1>9. AnswerReady'
  BY <1>2 DEF AnswerReady
<1>10. AnswerLast'
  BY <1>1, <1>2, <1>3 DEF AnswerLast
<1>11. QueueFits'
  BY DEF QueueFits
<1> QED BY <1>5, <1>7, <1>8, <1>9, <1>10, <1>11

-----------------------------------------------------------------------------
(* The theorems *)

LEMMA NextInv == PoolInv /\ [Next]_poolVars => PoolInv'
<1> SUFFICES ASSUME PoolInv, [Next]_poolVars PROVE PoolInv'
  OBVIOUS
<1>1. CASE \E r \in Requests : Submit(r) \/ CallerStep(r)
  BY <1>1, SubmitInv, GetResultInv, GiveUpInv DEF CallerStep
<1>2. CASE \E w \in Workers : WorkerStep(w)
  BY <1>2, ReceiveInv, LookupInv, RankInv, SendInv, CloseInv DEF WorkerStep
<1>3. CASE Tick
  BY <1>3, TickInv
<1>4. CASE UNCHANGED poolVars
  BY <1>4 DEF poolVars, PoolInv, PoolTypeOK, OneHolder, CallerKnows, Held, Line,
              AnswerReady, AnswerLast, QueueFits
<1> QED BY <1>1, <1>2, <1>3, <1>4 DEF Next

LEMMA PoolInvariant == Spec => []PoolInv
<1>1. Init => PoolInv
  BY InitInv
<1>2. PoolInv /\ [Next]_poolVars => PoolInv'
  BY NextInv
<1> QED BY <1>1, <1>2, PTL DEF Spec

\* Every state of the pool is of its type, and a worker has a job exactly while
\* it is at work (worker.go:37-61).
THEOREM PoolTypeCorrect == Spec => []PoolTypeOK
<1>1. PoolInv => PoolTypeOK
  BY DEF PoolInv
<1> QED BY <1>1, PoolInvariant, PTL

\* No job is lost, run twice or held by two workers, however many requests,
\* workers and places in the queue there are (worker.go:21-69).
THEOREM JobsConserved == Spec => []JobConserved
<1>1. PoolInv => JobConserved
  BY ConservedInParts DEF PoolInv
<1> QED BY <1>1, PoolInvariant, PTL

LEMMA FreeSends ==
    ASSUME PoolInv PROVE SendIsFree
<1> SUFFICES ASSUME NEW w \in Workers, worker[w].at = "send"
             PROVE  result[worker[w].job] = [buffer |-> << >>, closed |-> FALSE]
  BY DEF SendIsFree
<1>1. worker[w].job \in Requests
  BY PoolConstants DEF PoolInv, PoolTypeOK, Worker
<1>2. ~result[worker[w].job].closed
  BY DEF PoolInv, OneHolder
<1>3. \A v \in Workers : worker[v].job = worker[w].job => v = w
  BY DEF PoolInv, OneHolder
<1>4. result[worker[w].job].buffer = << >>
  BY <1>1, <1>2, <1>3 DEF PoolInv, AnswerLast
<1> QED BY <1>1, <1>2, <1>4 DEF PoolInv, PoolTypeOK, ResultCh

\* A worker never waits for its caller and never sends on a closed channel
\* (worker.go:42-58): of the results only the one being closed has a value in
\* it, and no two workers have the same.
THEOREM SendsAreFree == Spec => []SendIsFree
<1>1. PoolInv => SendIsFree
  BY FreeSends
<1> QED BY <1>1, PoolInvariant, PTL

\* A handler blocks in Submit only while the queue is full, whatever its size
\* (worker.go:65-69).
THEOREM BlockedCorrect == Spec => []BlockedOnlyWhenFull
<1>1. PoolInv => BlockedOnlyWhenFull
  BY DEF PoolInv, QueueFits, BlockedOnlyWhenFull
<1> QED BY <1>1, PoolInvariant, PTL

-----------------------------------------------------------------------------
(* The answer comes *)

LEMMA CallerAnswered ==
    ASSUME PoolInv, AnsweredFirst, NEW r \in Requests, Submit(r) \/ CallerStep(r)
    PROVE  AnsweredFirst'
<1> USE DEF PoolInv
<1>1. CASE Submit(r)
  <2>1. caller[r].at = "new" /\ UNCHANGED << worker, result >>
    BY <1>1 DEF Submit
  <2>2. ~result[r].closed /\ ~Held(r)
    BY <2>1 DEF CallerKnows
  <2>3. \A q \in Requests \ { r } : caller'[q] = caller[q]
    BY <1>1 DEF Submit, PoolTypeOK
  <2> QED BY <2>1, <2>2, <2>3 DEF AnsweredFirst, Held
<1>2. CASE CallerStep(r)
  <2>1. /\ caller'[r].at = "replied"
        /\ \A q \in Requests \ { r } : caller'[q] = caller[q] /\ result'[q] = result[q]
        /\ UNCHANGED worker
    BY <1>2 DEF CallerStep, GetResult, GiveUp, Replied, NewCaller, PoolTypeOK
  <2> QED BY <2>1 DEF AnsweredFirst
<1> QED BY <1>1, <1>2

LEMMA WorkerAnswered ==
    ASSUME PoolInv, AnsweredFirst, NEW w \in Workers, WorkerStep(w)
    PROVE  AnsweredFirst'
<1> USE DEF PoolInv
<1>1. /\ \A v \in Workers \ { w } : worker'[v] = worker[v]
      /\ worker[w] \in Worker
  BY DEF WorkerStep, Receive, Lookup, Rank, Send, Close, PoolTypeOK
<1>2. CASE Receive(w)
  <2>1. UNCHANGED result /\ worker'[w].at = "lookup"
    BY <1>2 DEF Receive, PoolTypeOK, Worker
  <2>2. ASSUME NEW q \in Requests, caller'[q].at \in { "sending", "waiting" }
        PROVE  caller[q].at \in { "sending", "waiting" }
    <3>1. CASE senders = << >>
      BY <1>2, <2>2, <3>1 DEF Receive
    <3>2. CASE senders # << >>
      <4>1. Head(senders) \in ToSet(senders) /\ Head(senders) \in Requests
        BY <3>2, LineTyped, TailFresh, HeadTailProperties DEF OneHolder
      <4>2. caller[Head(senders)].at = "sending"
        BY <4>1 DEF CallerKnows
      <4> QED BY <1>2, <2>2, <3>2, <4>1, <4>2 DEF Receive, PoolTypeOK
    <3> QED BY <3>1, <3>2
  <2> QED BY <1>1, <2>1, <2>2 DEF AnsweredFirst
<1>3. CASE Lookup(w) \/ Rank(w)
  <2>1. UNCHANGED << caller, result >>
    BY <1>3 DEF Lookup, Rank
  <2>2. [worker EXCEPT ![w].at = "rank"][w].at = "rank"
    BY DEF PoolTypeOK, Worker
  <2>3. ASSUME NEW answer, worker' = [worker EXCEPT ![w] = [@ EXCEPT !.at = "send",
                                                                   !.answer = answer]]
        PROVE  worker'[w].at = "send"
    BY <2>3 DEF PoolTypeOK, Worker
  <2>4. worker'[w].at \in { "rank", "send" }
    BY <1>3, <2>2, <2>3 DEF Lookup, Rank
  <2> QED BY <1>1, <2>1, <2>4 DEF AnsweredFirst
<1>4. CASE Send(w)
  <2> PICK r : r = worker[w].job
    OBVIOUS
  <2>1. /\ r \in Requests /\ UNCHANGED caller
        /\ result[r].buffer \in Seq(Answers) /\ worker[w].answer \in Answers
    BY <1>4 DEF Send, PoolTypeOK, Worker, ResultCh, AnswerReady
  <2>2. Append(result[r].buffer, worker[w].answer) # << >>
    BY <2>1
  <2>3. /\ result'[r].buffer # << >>
        /\ \A q \in Requests \ { r } : result'[q] = result[q]
    BY <1>4, <2>1, <2>2 DEF Send, PoolTypeOK, ResultCh
  <2>4. worker'[w].job = r
    BY <1>1, <1>4 DEF Send, PoolTypeOK, Worker
  <2> QED BY <1>1, <2>1, <2>3, <2>4 DEF AnsweredFirst
<1>5. CASE Close(w)
  <2> PICK r : r = worker[w].job
    OBVIOUS
  <2>1. r \in Requests /\ worker[w].at = "close" /\ UNCHANGED caller
    BY <1>5 DEF Close, PoolTypeOK, Worker
  <2>2. /\ result'[r].buffer = result[r].buffer
        /\ \A q \in Requests \ { r } : result'[q] = result[q]
    BY <1>5, <2>1 DEF Close, PoolTypeOK, ResultCh
  <2>3. worker'[w].at = "idle"
    BY <1>5 DEF Close, AfterClose, IdleWorker, PoolTypeOK
  <2> QED BY <1>1, <2>1, <2>2, <2>3 DEF AnsweredFirst
<1> QED BY <1>2, <1>3, <1>4, <1>5 DEF WorkerStep

LEMMA AnsweredStep == PoolInv /\ AnsweredFirst /\ [Next]_poolVars => AnsweredFirst'
<1> SUFFICES ASSUME PoolInv, AnsweredFirst, [Next]_poolVars PROVE AnsweredFirst'
  OBVIOUS
<1>1. CASE Tick
  <2>1. UNCHANGED << worker, result >>
    BY <1>1 DEF Tick
  <2>2. \A q \in Requests : caller'[q].at = caller[q].at
    BY <1>1 DEF Tick, PoolInv, PoolTypeOK, Caller
  <2> QED BY <2>1, <2>2 DEF AnsweredFirst
<1>2. CASE UNCHANGED poolVars
  BY <1>2 DEF poolVars, AnsweredFirst
<1> QED BY <1>1, <1>2, CallerAnswered, WorkerAnswered DEF Next

\* A worker that has a job, and one that has none while there is a line, can go on.
LEMMA WorkersReady ==
    ASSUME PoolInv, NEW w \in Workers, worker[w].at # "idle" \/ Line # << >>
    PROVE  Ready(w)
<1> USE DEF PoolInv
<1>1. worker[w].at \in { "idle", "lookup", "rank", "send", "close" }
  BY DEF PoolTypeOK, Worker
<1>2. CASE worker[w].at = "idle"
  <2>1. jobs # << >>
    <3> SUFFICES ASSUME jobs = << >> PROVE FALSE
      OBVIOUS
    <3>1. senders # << >>
      BY <1>2 DEF Line, PoolTypeOK
    <3>2. Len(<< >>) = QueueSize
      BY <3>1 DEF QueueFits
    <3> QED BY <3>2, PoolConstants
  <2> QED BY <1>2, <2>1 DEF Ready
<1>3. CASE worker[w].at = "send"
  <2>1. result[worker[w].job].buffer = << >>
    BY <1>3, FreeSends DEF SendIsFree
  <2>2. Len(<< >>) < 1
    OBVIOUS
  <2> QED BY <1>3, <2>1, <2>2 DEF Ready, CanSend
<1> QED BY <1>1, <1>2, <1>3 DEF Ready

\* A caller that has submitted its job always has its answer before it or on the way
\* to it, with nobody in between who is stuck, and never finds its channel closed
\* without one (worker.go:42-44 and 58-59, handlers.go:143-150).
THEOREM AnswerAlwaysComes == Spec => []AnswerComes
<1>1. ASSUME PoolInv, AnsweredFirst PROVE AnswerComes
  <2> USE <1>1 DEF PoolInv
  <2> SUFFICES ASSUME NEW r \in Requests, caller[r].at \in { "sending", "waiting" },
                      result[r].buffer = << >>
               PROVE  \/ \E w \in Workers : /\ worker[w].job = r
                                            /\ worker[w].at # "close"
                                            /\ Ready(w)
                      \/ r \in ToSet(Line) /\ \A w \in Workers : Ready(w)
    BY DEF AnswerComes
  <2>1. /\ ~result[r].closed
        /\ \A w \in Workers : worker[w].job = r => worker[w].at # "close"
    BY DEF AnsweredFirst
  <2>2. r \in ToSet(Line) \/ Held(r)
    BY <2>1 DEF CallerKnows
  <2>3. CASE Held(r)
    <3>1. PICK w \in Workers : worker[w].job = r
      BY <2>3 DEF Held
    <3>2. worker[w].at # "idle"
      BY <3>1, PoolConstants DEF PoolTypeOK
    <3> QED BY <2>1, <3>1, <3>2, WorkersReady
  <2>4. CASE r \in ToSet(Line)
    <3>1. Line # << >>
      BY <2>4 DEF ToSet
    <3> QED BY <2>4, <3>1, WorkersReady
  <2> QED BY <2>2, <2>3, <2>4
<1>2. Init => AnsweredFirst
  <2>1. NewCaller.at = "new"
    BY DEF NewCaller
  <2> QED BY <2>1 DEF Init, AnsweredFirst
<1> QED BY <1>1, <1>2, AnsweredStep, InitInv, NextInv, PTL DEF Spec

=============================================================================
