----------------------------- MODULE WorkerPool -----------------------------
(***************************************************************************)
(* The match worker pool of worker.go and its callers, the goroutines of   *)
(* handleGetMatches: how a job travels through the channels and how long a *)
(* caller waits for it.  What a job does to the store in the meantime is   *)
(* CarrierMatch's subject; here it is the time between Receive and Send.   *)
(*                                                                         *)
(* A request is one GET /shipments/{id}/matches that has found its         *)
(* shipment, and is served once.  Time passes in ticks, of which any       *)
(* number may go by while a goroutine could run; only a timer that is due  *)
(* is seen to before the next one.                                         *)
(***************************************************************************)
EXTENDS Integers, SequencesExt

CONSTANTS
    Requests,     \* the GET requests of an instance
    NoRequest,    \* the job of an idle worker
    Workers,      \* the goroutines of the pool: four in main.go
    QueueSize,    \* capacity of the jobs channel: 100 in main.go
    Timeout,      \* ticks in the fifteen seconds of the select
    Horizon       \* a request's age is counted up to here

ASSUME PoolConstants ==
    /\ NoRequest \notin Requests
    /\ QueueSize \in Nat \ { 0 }
    /\ Timeout \in Nat \ { 0 }
    /\ Horizon \in Nat /\ Horizon > Timeout

VARIABLES
    caller,       \* caller[r]: the goroutine that serves request r
    jobs,         \* the jobs channel's buffer; a job is named by its request
    senders,      \* callers blocked in sending to jobs, in order of arrival
    worker,       \* worker[w]: where worker w is, and with which job
    result        \* result[r]: the ResultCh made for request r

poolVars == << caller, jobs, senders, worker, result >>

Answers == { "nil", "ranked" }

\* "timer" runs from when the select is entered, "age" from when the request
\* arrived; both are done with once it has been replied to.
Caller == [ at    : { "new", "sending", "waiting", "replied" },
            timer : 0 .. Timeout,
            age   : 0 .. Horizon,
            reply : Answers \cup { "", "timeout" } ]

Worker == [ at     : { "idle", "lookup", "rank", "send", "close" },
            job    : Requests \cup { NoRequest },
            answer : Answers \cup { "" } ]

ResultCh == [ buffer : Seq(Answers), closed : BOOLEAN ]

IdleWorker == [ at |-> "idle", job |-> NoRequest, answer |-> "" ]

NewCaller == [ at |-> "new", timer |-> 0, age |-> 0, reply |-> "" ]

Replied(reply) == [NewCaller EXCEPT !.at = "replied", !.reply = reply]

\* Type correctness; a worker has a job exactly while it is at work, and the
\* buffer never holds more jobs than the channel was asked for (worker.go:26-29).
PoolTypeOK ==
    /\ caller \in [Requests -> Caller]
    /\ jobs \in Seq(Requests)
    /\ Len(jobs) <= QueueSize
    /\ senders \in Seq(Requests)
    /\ worker \in [Workers -> Worker]
    /\ \A w \in Workers : worker[w].at = "idle" <=> worker[w].job = NoRequest
    /\ result \in [Requests -> ResultCh]

Init ==
    /\ caller = [r \in Requests |-> NewCaller]
    /\ jobs = << >>
    /\ senders = << >>
    /\ worker = [w \in Workers |-> IdleWorker]
    /\ result = [r \in Requests |-> [buffer |-> << >>, closed |-> FALSE]]

-----------------------------------------------------------------------------
(* handleGetMatches *)

\* Mutant: the channel is never made, and a send to a nil channel blocks for good.
JobsNil == 0

\* Mutant: the channel is made with numWorkers, the other one of the two ints.
JobsPerWorker == Cardinality(Workers)

JobsCapacity == QueueSize

\* Submit.  The send completes at once while the buffer has room; else the
\* caller is parked, outside the select and with no timer running.
Submit(r) ==
    /\ caller[r].at = "new"
    /\ \/ /\ Len(jobs) < JobsCapacity /\ senders = << >>
          /\ jobs' = Append(jobs, r)
          /\ caller' = [caller EXCEPT ![r].at = "waiting"]
          /\ UNCHANGED senders
       \/ /\ Len(jobs) >= JobsCapacity \/ senders # << >>
          /\ senders' = Append(senders, r)
          /\ caller' = [caller EXCEPT ![r].at = "sending"]
          /\ UNCHANGED jobs
    /\ UNCHANGED << worker, result >>

\* case results := <-resultCh
GetResult(r) ==
    /\ caller[r].at = "waiting"
    /\ result[r].buffer # << >>
    /\ caller' = [caller EXCEPT ![r] = Replied(Head(result[r].buffer))]
    /\ result' = [result EXCEPT ![r].buffer = Tail(@)]
    /\ UNCHANGED << jobs, senders, worker >>

\* case <-time.After(15 * time.Second).  With a result there as well the select
\* picks either.  The job is not called off.
GiveUp(r) ==
    /\ caller[r].at = "waiting"
    /\ caller[r].timer = Timeout
    /\ caller' = [caller EXCEPT ![r] = Replied("timeout")]
    /\ UNCHANGED << jobs, senders, worker, result >>

-----------------------------------------------------------------------------
(* runWorker *)

\* A receive from the jobs channel takes the oldest job, and lets the caller
\* that has been parked longest put its own into the buffer.
Receive(w) ==
    /\ worker[w].at = "idle"
    /\ jobs # << >>
    /\ worker' = [worker EXCEPT ![w] = [@ EXCEPT !.at = "lookup",
                                                 !.job = Head(jobs)]]
    /\ IF senders = << >>
       THEN /\ jobs' = Tail(jobs)
            /\ UNCHANGED << senders, caller >>
       ELSE /\ jobs' = Append(Tail(jobs), Head(senders))
            /\ senders' = Tail(senders)
            /\ caller' = [caller EXCEPT ![Head(senders)].at = "waiting"]
    /\ UNCHANGED result

\* Mutant: after an error the channel is closed with nothing sent.
LookupClosesOnly(w) ==
    /\ worker[w].at = "lookup"
    /\ worker' \in { [worker EXCEPT ![w].at = "rank"],
                     [worker EXCEPT ![w].at = "close"] }
    /\ UNCHANGED << caller, jobs, senders, result >>

\* GetShipment: an error is answered with nil.
Lookup(w) ==
    /\ worker[w].at = "lookup"
    /\ worker' \in { [worker EXCEPT ![w].at = "rank"],
                     [worker EXCEPT ![w] = [@ EXCEPT !.at = "send",
                                                     !.answer = "nil"]] }
    /\ UNCHANGED << caller, jobs, senders, result >>

\* The status writes, ListCarriers and RankCarriers.
Rank(w) ==
    /\ worker[w].at = "rank"
    /\ worker' = [worker EXCEPT ![w] = [@ EXCEPT !.at = "send",
                                                 !.answer = "ranked"]]
    /\ UNCHANGED << caller, jobs, senders, result >>

\* Mutant: make(chan []MatchResult), a send that needs its receiver.
CanSendUnbuffered(r) == caller[r].at = "waiting"

\* The channel is made with room for one value.
CanSend(r) == Len(result[r].buffer) < 1

Send(w) ==
    LET r == worker[w].job IN
    /\ worker[w].at = "send"
    /\ CanSend(r)
    /\ result' = [result EXCEPT ![r].buffer = Append(@, worker[w].answer)]
    /\ worker' = [worker EXCEPT ![w].at = "close"]
    /\ UNCHANGED << caller, jobs, senders >>

\* Mutant: the "continue" after the nil answer is missing.
AfterCloseFallsThrough(k) ==
    IF k.answer = "nil" THEN [k EXCEPT !.at = "rank"] ELSE IdleWorker

AfterClose(k) == IdleWorker

Close(w) ==
    /\ worker[w].at = "close"
    /\ result' = [result EXCEPT ![worker[w].job].closed = TRUE]
    /\ worker' = [worker EXCEPT ![w] = AfterClose(@)]
    /\ UNCHANGED << caller, jobs, senders >>

-----------------------------------------------------------------------------

\* Time passes, but not past a timer that is due.
Tick ==
    /\ \E r \in Requests : caller[r].at \in { "sending", "waiting" }
    /\ \A r \in Requests : caller[r].at = "waiting" => caller[r].timer < Timeout
    /\ caller' = [r \in Requests |->
          LET c == caller[r]
              older == IF c.age < Horizon THEN c.age + 1 ELSE Horizon
          IN CASE c.at = "sending" -> [c EXCEPT !.age = older]
               [] c.at = "waiting" -> [c EXCEPT !.age = older, !.timer = @ + 1]
               [] OTHER            -> c]
    /\ UNCHANGED << jobs, senders, worker, result >>

CallerStep(r) == GetResult(r) \/ GiveUp(r)
WorkerStep(w) == Receive(w) \/ Lookup(w) \/ Rank(w) \/ Send(w) \/ Close(w)

Next ==
    \/ \E r \in Requests : Submit(r) \/ CallerStep(r)
    \/ \E w \in Workers : WorkerStep(w)
    \/ Tick

Spec == Init /\ [][Next]_poolVars

\* The Go scheduler runs a goroutine that can run, and time passes.
Fairness ==
    /\ \A r \in Requests : WF_poolVars(CallerStep(r))
    /\ \A w \in Workers : WF_poolVars(WorkerStep(w))
    /\ WF_poolVars(Tick)

FairSpec == Spec /\ Fairness

-----------------------------------------------------------------------------

(* Properties *)

\* Everything submitted that no worker has taken, oldest first.
Line == jobs \o senders

\* No job is lost, run twice or held by two: from Submit to the closing of its
\* result channel a job is in the line once or with one worker, and a caller is
\* parked exactly while its job has no place in the buffer
\* (TECHNICAL_WALKTHROUGH.md:60-62, "each value is delivered to exactly one
\* reader").
JobConserved ==
    /\ IsInjective(Line)
    /\ \A w \in Workers : worker[w].at # "idle" =>
          /\ worker[w].job \notin ToSet(Line)
          /\ ~result[worker[w].job].closed
          /\ \A v \in Workers \ { w } : worker[v].job # worker[w].job
    /\ \A r \in Requests :
          /\ result[r].closed => r \notin ToSet(Line)
          /\ caller[r].at = "sending" <=> r \in ToSet(senders)
          /\ caller[r].at = "new" <=> /\ r \notin ToSet(Line)
                                      /\ ~result[r].closed
                                      /\ \A w \in Workers : worker[w].job # r

\* A worker that is about to send neither waits for its caller, who may have
\* given up, nor sends on a closed channel, which would end the process
\* (TECHNICAL_WALKTHROUGH.md:70-73, "exactly one value will ever be sent").
SendIsFree ==
    \A w \in Workers : worker[w].at = "send" =>
        result[worker[w].job] = [buffer |-> << >>, closed |-> FALSE]

\* Submit blocks a handler only when the buffer is full, not because the workers
\* are busy (TECHNICAL_WALKTHROUGH.md:67-70).
BlockedOnlyWhenFull == senders # << >> => Len(jobs) = QueueSize

\* Nothing that worker w needs for its next step is up to a caller.
Ready(w) ==
    \/ worker[w].at = "idle" /\ jobs # << >>
    \/ worker[w].at \in { "lookup", "rank", "close" }
    \/ worker[w].at = "send" /\ CanSend(worker[w].job)

\* What EveryCallerReplied comes to at any one moment: a caller that has submitted
\* its job has the answer before it, or the job is with a worker that will answer,
\* or it is in the line and no worker is stuck.  So a select never comes upon a
\* channel that was closed without an answer, from which it would read an empty
\* list of matches (worker.go:42-44 and 58-59, handlers.go:143-150).
AnswerComes ==
    \A r \in Requests : caller[r].at \in { "sending", "waiting" } =>
        \/ result[r].buffer # << >>
        \/ \E w \in Workers : /\ worker[w].job = r
                              /\ worker[w].at # "close"
                              /\ Ready(w)
        \/ r \in ToSet(Line) /\ \A w \in Workers : Ready(w)

\* A caller that was made to queue, however full the channel was, is replied to.
EveryCallerReplied ==
    \A r \in Requests :
        caller[r].at \in { "sending", "waiting" } ~> caller[r].at = "replied"

\* A job is run to its end also when its caller has given up on it.
EveryJobFinished ==
    \A r \in Requests : caller[r].at # "new" ~> result[r].closed

\* TECHNICAL_WALKTHROUGH.md:88-92: "a guaranteed upper bound on how long it'll
\* wait"; README.md's diagram: "If no result within 15s, client gets 504".
BoundedWait ==
    \A r \in Requests : caller[r].at # "replied" => caller[r].age <= Timeout

=============================================================================
