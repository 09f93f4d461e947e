---- MODULE PaintBot ----
(***************************************************************************)
(* One run of the bot's paint mode (internal/bot/paint.go, paintRun): a    *)
(* pool of workers draws placements from the jobs channel, claims and      *)
(* confirms each, and hands a failed one to a retry goroutine that pushes  *)
(* it back after a backoff, until every placement is painted or given up   *)
(* or the context ends.                                                    *)
(*                                                                         *)
(* Where the cells stand is not modelled: a claim may succeed or fail at   *)
(* any time, and one whose confirm was reported as an error may have       *)
(* painted all the same (a lost answer).  Backoffs end at any time.        *)
(***************************************************************************)
EXTENDS Integers, Sequences, FiniteSets

CONSTANTS
    Workers,
    MaxRetries,     \* maxPaintRetries
    MayCancel       \* whether the context may end (Ctrl-C, -duration)

ASSUME PaintAssumption ==
    /\ Workers # {}
    /\ MaxRetries \in Nat
    /\ MayCancel \in BOOLEAN

VARIABLES
    queue,      \* ps, the placements of this run, {} before it
    jobs,       \* the buffered channel
    held,       \* worker -> the job it works on
    backoff,    \* jobs whose retry goroutine waits
    remaining,  \* placements that are neither painted nor given up
    done,       \* doneCh is closed
    cancelled,  \* the context has ended
    left,       \* workers that do not run (any more)
    painted,    \* m.Painted
    inked,      \* (only observed) placements that a confirm of this run painted
    failures    \* (only observed) placement -> failures so far

pool == <<jobs, held, backoff>>
botVars == <<queue, pool, remaining, done, cancelled, left, painted, inked, failures>>

Total == Cardinality(queue)
Job(p, n) == [p |-> p, attempts |-> n]
NoJob == [attempts |-> -1]
Jobs == [p : queue, attempts : 0..MaxRetries]

BotTypeOK ==
    /\ jobs \in Seq(Jobs) /\ Len(jobs) <= Total
    /\ held \in [Workers -> Jobs \cup {NoJob}]
    /\ backoff \subseteq Jobs
    /\ remaining \in 0..Total
    /\ done \in BOOLEAN /\ cancelled \in BOOLEAN
    /\ left \subseteq Workers
    /\ painted \in 0..Total
    /\ inked \subseteq queue
    /\ failures \in [queue -> 0..MaxRetries + 1]

BotInit ==
    /\ queue = {}
    /\ jobs = <<>> /\ held = [w \in Workers |-> NoJob] /\ backoff = {}
    /\ remaining = 0 /\ painted = 0
    /\ done = FALSE /\ cancelled = FALSE
    /\ left = Workers
    /\ inked = {} /\ failures = [p \in {} |-> 0]

(* The orders of a set of placements (-paint-order): each has one place.   *)
Orders(ps) ==
    LET js == {Job(p, 0) : p \in ps} IN
    {order \in [1..Cardinality(ps) -> js] :
        \A j \in js : \E i \in DOMAIN order : \A k \in DOMAIN order : order[k] = j <=> k = i}

(* The channel is filled with every placement, and the workers start;      *)
(* without a placement there is nothing to run.                            *)
Begin(ps) ==
    /\ queue' = ps
    /\ jobs' \in Orders(ps)
    /\ remaining' = Cardinality(ps)
    /\ left' = IF ps = {} THEN Workers ELSE {}
    /\ failures' = [p \in ps |-> 0]
    /\ UNCHANGED <<held, backoff, done, cancelled, painted, inked>>

Idle(w) == w \notin left /\ held[w] = NoJob

(* Go's select takes any ready case: a job even if the run is over.        *)
TakeJob(w) ==
    /\ Idle(w)
    /\ jobs # <<>>
    /\ held' = [held EXCEPT ![w] = Head(jobs)]
    /\ jobs' = Tail(jobs)
    /\ UNCHANGED <<queue, backoff, remaining, done, cancelled, left, painted, inked, failures>>

Leave(w) ==
    /\ Idle(w)
    /\ done \/ cancelled
    /\ left' = left \cup {w}
    /\ UNCHANGED <<queue, pool, remaining, done, cancelled, painted, inked, failures>>

(* Mutated form of Settle: the last placement does not end the run.        *)
SettleQuietly == remaining' = remaining - 1 /\ UNCHANGED done

(* A placement is settled; the last one closes doneCh.                     *)
Settle ==
    /\ remaining' = remaining - 1
    /\ done' = (done \/ remaining' = 0)

SetDown(w) == held' = [held EXCEPT ![w] = NoJob]

Confirmed(w) ==
    /\ held[w] # NoJob
    /\ SetDown(w)
    /\ painted' = painted + 1
    /\ inked' = inked \cup {held[w].p}
    /\ Settle
    /\ UNCHANGED <<queue, jobs, backoff, cancelled, left, failures>>

(* Mutated form of MayRetry: one retry too few.                            *)
MayRetryOnceLess(j) == j.attempts + 1 < MaxRetries

MayRetry(j) == j.attempts < MaxRetries
Again(j) == Job(j.p, j.attempts + 1)

(* Mutated form of Failed: a job sent to its retry counts as settled.      *)
FailedFallsThrough(w) ==
    LET j == held[w] IN
    /\ j # NoJob
    /\ SetDown(w)
    /\ inked' \in {inked, inked \cup {j.p}}
    /\ failures' = [failures EXCEPT ![j.p] = @ + 1]
    /\ backoff' = IF MayRetry(j) THEN backoff \cup {Again(j)} ELSE backoff
    /\ Settle
    /\ UNCHANGED <<queue, jobs, cancelled, left, painted>>

(* The claim was refused or the confirm failed, or its answer was lost.    *)
Failed(w) ==
    LET j == held[w] IN
    /\ j # NoJob
    /\ SetDown(w)
    /\ inked' \in {inked, inked \cup {j.p}}
    /\ failures' = [failures EXCEPT ![j.p] = @ + 1]
    /\ IF MayRetry(j)
       THEN backoff' = backoff \cup {Again(j)} /\ UNCHANGED <<remaining, done>>
       ELSE Settle /\ UNCHANGED backoff
    /\ UNCHANGED <<queue, jobs, cancelled, left, painted>>

(* The retry goroutine: back into the channel, if there is room.           *)
PushBack(j) ==
    /\ j \in backoff
    /\ Len(jobs) < Total
    /\ backoff' = backoff \ {j}
    /\ jobs' = Append(jobs, j)
    /\ UNCHANGED <<queue, held, remaining, done, cancelled, left, painted, inked, failures>>

GiveIn(j) ==
    /\ j \in backoff
    /\ done \/ cancelled
    /\ backoff' = backoff \ {j}
    /\ UNCHANGED <<queue, jobs, held, remaining, done, cancelled, left, painted, inked, failures>>

Cancel ==
    /\ MayCancel
    /\ ~cancelled /\ left # Workers
    /\ cancelled' = TRUE
    /\ UNCHANGED <<queue, pool, remaining, done, left, painted, inked, failures>>

WorkGoesOn ==
    \/ \E w \in Workers : TakeJob(w) \/ Leave(w) \/ Confirmed(w) \/ Failed(w)
    \/ \E j \in backoff : PushBack(j) \/ GiveIn(j)

BotNext == WorkGoesOn \/ Cancel

(* Workers are scheduled, claims and confirms are answered or time out     *)
(* (http.Client.Timeout), backoffs pass: while anything can go on,         *)
(* something does.                                                         *)
BotFairness == WF_botVars(WorkGoesOn)

(***************************************************************************)
(* Properties.                                                             *)
(***************************************************************************)
Queued(p) == {i \in 1..Len(jobs) : jobs[i].p = p}
HeldBy(p) == {w \in Workers : held[w] # NoJob /\ held[w].p = p}
Waiting(p) == {j \in backoff : j.p = p}
Copies(p) == Cardinality(Queued(p)) + Cardinality(HeldBy(p)) + Cardinality(Waiting(p))

(* While the run goes on every placement that is not settled is in exactly *)
(* one place, the queue, a worker or a backoff, and the counter says how   *)
(* many those are: none is lost or doubled, and a retry always finds room  *)
(* in the channel, which was made with capacity len(ps) (remaining, jobs). *)
Accounted ==
    /\ \A p \in queue : Copies(p) <= 1
    /\ ~cancelled => remaining = Cardinality({p \in queue : Copies(p) = 1})

(* A run that was not cut short has painted every placement, or has given  *)
(* it up after the last of its retries; what it counts as painted is       *)
(* painted (README: "retried up to 3x after the claim window, then         *)
(* skipped").                                                              *)
Abandoned == {p \in queue : failures[p] = MaxRetries + 1}
RunIsComplete ==
    left = Workers /\ ~cancelled =>
        /\ painted = Total - Cardinality(Abandoned)
        /\ queue \subseteq inked \cup Abandoned
====
