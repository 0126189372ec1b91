------------------------------ MODULE Completion ------------------------------
(***************************************************************************)
(* From the last signature to the signed copies: the completion job, the   *)
(* runs of completeSignature it shares with the reconciler's sweeps, and   *)
(* the alert that says a document is stuck.                                *)
(*                                                                         *)
(* completeSignature may run several times at once for one request: a job  *)
(* that BullMQ takes for stalled is delivered again while its first run    *)
(* goes on, and setInterval starts a sweep whether or not the last one has *)
(* ended.  A run's database reads and writes, its uploads and its e-mails  *)
(* are separate steps.                                                     *)
(*                                                                         *)
(* Requests are numbered in the order of their completed_at.  An artifact  *)
(* is a number: every stamping makes different bytes, so a new one.        *)
(***************************************************************************)
EXTENDS Naturals, FiniteSets

CONSTANTS
    N,          \* the requests are 1..N
    People,     \* everyone who gets the signed copy: recipients and sender
    Workers,    \* BullMQ slots that run completion jobs
    Sweeps,     \* reconcile() calls that may overlap
    Poison,     \* requests whose PDF cannot be stamped (a rotated page)
    Attempts,   \* tries BullMQ gives a job
    Limit,      \* requests one sweep takes up
    Threshold,  \* ALERT_AFTER_FAILURES
    MaxStamps,  \* bound: artifacts ever made (no run of the checks runs out of them)
    MaxFaults,  \* bound: failed calls, stalls and dead processes
    Ops         \* which failures happen in a run

VARIABLES
    signed,     \* requests with status completed
    old,        \* completed_at < now() - 2 minutes
    art,        \* the artifact on the row (signed_pdf_key, hash and seal), 0 if none
    emailed,    \* completion_emailed_at is set
    store,      \* artifacts in the bucket
    job,        \* the job complete-<id>: its state, failed tries, stalls, who has its lock
    run,        \* what each worker and each sweep is doing
    todo,       \* the requests a sweep still has to take up
    streak,     \* sealingFailures, in the worker's memory
    quiet,      \* requests alerted within the cooldown (lastSent)
    stamps,     \* artifacts made so far
    faults,     \* failures so far
    \* History: what happened, read by no action.
    copies,     \* artifacts each person has received
    alarms,     \* alert e-mails sent about a request
    restarts    \* times the worker process started anew

rows  == <<signed, old, art, emailed, store>>
alert == <<streak, quiet, alarms>>
vars  == <<signed, old, art, emailed, store, job, run, todo, streak, quiet, stamps,
           faults, copies, alarms, restarts>>

Requests == 1..N
Runners  == Workers \cup Sweeps
Art      == 1..MaxStamps

\* Bound: counts of failures stop here.  The code only compares them with
\* Threshold, so what it does is the same.
Cap         == Threshold + 1
Counts      == 0..Cap
OneMore(n)  == IF n < Cap THEN n + 1 ELSE Cap

ASSUME ConstantsAssumption ==
    /\ N \in Nat /\ Attempts \in Nat \ {0} /\ Limit \in Nat \ {0} /\ Threshold \in Nat \ {0}
    /\ MaxStamps \in Nat /\ MaxFaults \in Nat
    /\ Workers \cap Sweeps = {}
    /\ Poison \subseteq Requests
    /\ Ops \subseteq {"fail", "queuefail", "stall", "crash", "alertfail"}

\* BullMQ's maxStalledCount, which the worker leaves at its default.
MaxStalled == 1
Job == [is : {"none", "wait", "active", "done", "dead"}, tries : 0..Attempts,
        stalls : 0..(MaxStalled + 1), by : SUBSET Workers]

Idle == [at |-> "idle"]
Stage ==
    [at : {"idle"}]
    \cup [at : {"load", "stamp", "mark", "failed", "done"}, req : Requests]
    \cup [at : {"put", "record"}, req : Requests, art : Art]
    \cup [at : {"send"}, req : Requests, art : Art, rest : SUBSET People]

TypeOK ==
    /\ signed \subseteq Requests /\ old \subseteq signed
    /\ art \in [Requests -> 0..MaxStamps]
    /\ emailed \subseteq signed
    /\ store \subseteq Art
    /\ job \in [Requests -> Job]
    /\ run \in [Runners -> Stage]
    /\ todo \in [Sweeps -> SUBSET Requests]
    /\ streak \in [Requests -> Counts]
    /\ quiet \subseteq Requests
    /\ stamps \in 0..MaxStamps /\ faults \in 0..MaxFaults
    /\ copies \in [Requests -> [People -> SUBSET Art]]
    /\ alarms \in [Requests -> Nat] /\ restarts \in Nat

Init ==
    /\ signed = {} /\ old = {} /\ emailed = {} /\ store = {} /\ quiet = {}
    /\ art = [q \in Requests |-> 0]
    /\ job = [q \in Requests |-> [is |-> "none", tries |-> 0, stalls |-> 0, by |-> {}]]
    /\ run = [w \in Runners |-> Idle]
    /\ todo = [s \in Sweeps |-> {}]
    /\ streak = [q \in Requests |-> 0]
    /\ stamps = 0 /\ faults = 0 /\ restarts = 0
    /\ copies = [q \in Requests |-> [p \in People |-> {}]]
    /\ alarms = [q \in Requests |-> 0]

-------------------------------------------------------------------------------
\* Helpers.
At(w, stage)     == run[w].at = stage
Become(w, stage) == run' = [run EXCEPT ![w] = stage]
Req(w)           == run[w].req
Put(f, q, v)     == [f EXCEPT ![q] = v]

\* A call fails, within the bound on failures.
Fault(kind) == kind \in Ops /\ faults < MaxFaults /\ faults' = faults + 1

-------------------------------------------------------------------------------
(***************************************************************************)
(* The queue's job.                                                        *)
(***************************************************************************)
Queued == [is |-> "wait", tries |-> 0, stalls |-> 0, by |-> {}]

\* The last signer's submit commits, then enqueues complete-<id>; when that
\* fails it is left for the reconciler.
Sign(q) ==
    /\ q \notin signed /\ \A e \in 1..(q - 1) : e \in signed
    /\ signed' = signed \cup {q}
    /\ \/ job' = Put(job, q, Queued) /\ UNCHANGED faults
       \/ Fault("queuefail") /\ UNCHANGED job
    /\ UNCHANGED <<old, art, emailed, store, run, todo, alert, stamps, copies, restarts>>

TakeJob(w, q) ==
    /\ At(w, "idle")
    /\ job[q].is = "wait"
    /\ job' = Put(job, q, [job[q] EXCEPT !.is = "active", !.by = {w}])
    /\ Become(w, [at |-> "load", req |-> q])
    /\ UNCHANGED <<rows, todo, alert, stamps, faults, copies, restarts>>

\* A job whose run failed is tried again, up to Attempts times.
RetriedAlways(q) == [job[q] EXCEPT !.is = "wait", !.tries = @ + 1, !.by = {}]
Retried(q) ==
    [is     |-> IF job[q].tries + 1 < Attempts THEN "wait" ELSE "dead",
     tries  |-> job[q].tries + 1,
     stalls |-> job[q].stalls,
     by     |-> {}]

\* A job whose lock was lost is delivered again, and fails for good when that
\* happens once too often.  It is no failed try.
Redelivered(q) ==
    [is     |-> IF job[q].stalls < MaxStalled THEN "wait" ELSE "dead",
     tries  |-> job[q].tries,
     stalls |-> job[q].stalls + 1,
     by     |-> {}]

\* The lock of a running job is lost, which its run does not know.
Stall(q) ==
    /\ Fault("stall")
    /\ job[q].is = "active"
    /\ job' = Put(job, q, Redelivered(q))
    /\ UNCHANGED <<rows, run, todo, alert, stamps, copies, restarts>>

\* A run that ends reports to the queue, which listens to the lock's holder.
Report(w, state) ==
    LET q == Req(w) IN
    /\ job' = IF w \in job[q].by THEN Put(job, q, state) ELSE job
    /\ Become(w, Idle)
    /\ UNCHANGED <<rows, todo, alert, stamps, faults, copies, restarts>>

JobDone(w) ==
    /\ At(w, "done")
    /\ Report(w, [job[Req(w)] EXCEPT !.is = "done", !.by = {}])

JobFailed(w) ==
    /\ At(w, "failed")
    /\ Report(w, Retried(Req(w)))

-------------------------------------------------------------------------------
(***************************************************************************)
(* completeSignature, run by a worker or by a sweep.                       *)
(***************************************************************************)
FinishedOnceSealed(q) == art[q] # 0
Finished(q) == art[q] # 0 /\ q \in emailed

\* What is left to do is decided from the row as it is now.
Load(w) ==
    LET q == Req(w) IN
    /\ At(w, "load")
    /\ Become(w, IF Finished(q) THEN [at |-> "done", req |-> q]
                 ELSE IF art[q] # 0
                      THEN [at |-> "send", req |-> q, art |-> art[q], rest |-> People]
                      ELSE [at |-> "stamp", req |-> q])
    /\ UNCHANGED <<rows, job, todo, alert, stamps, faults, copies, restarts>>

Stamp(w) ==
    LET q == Req(w) IN
    /\ At(w, "stamp") /\ q \notin Poison
    /\ stamps < MaxStamps
    /\ stamps' = stamps + 1
    /\ Become(w, [at |-> "put", req |-> q, art |-> stamps + 1])
    /\ UNCHANGED <<rows, job, todo, alert, faults, copies, restarts>>

StampRefused(w) ==
    /\ At(w, "stamp") /\ Req(w) \in Poison
    /\ Become(w, [at |-> "failed", req |-> Req(w)])
    /\ UNCHANGED <<rows, job, todo, alert, stamps, faults, copies, restarts>>

\* Both files are uploaded before the row names them.
UploadLater(a) == store
Uploaded(a)    == store \cup {a}

Upload(w) ==
    /\ At(w, "put")
    /\ store' = Uploaded(run[w].art)
    /\ Become(w, [at |-> "record", req |-> Req(w), art |-> run[w].art])
    /\ UNCHANGED <<signed, old, art, emailed, job, todo, alert, stamps, faults, copies, restarts>>

\* updateMany where signedPdfKey is null: the loser of a race e-mails nothing.
MayRecordAlways(q) == TRUE
MayRecord(q) == art[q] = 0

Record(w) ==
    LET q == Req(w) IN
    /\ At(w, "record")
    /\ IF MayRecord(q)
       THEN /\ art' = Put(art, q, run[w].art)
            /\ Become(w, [at |-> "send", req |-> q, art |-> run[w].art, rest |-> People])
       ELSE /\ Become(w, [at |-> "done", req |-> q])
            /\ UNCHANGED art
    /\ UNCHANGED <<signed, old, emailed, store, job, todo, alert, stamps, faults, copies, restarts>>

\* One e-mail of deliver, with the run's own artifact attached.
Mail(q, p, a) == copies' = [copies EXCEPT ![q][p] = @ \cup {a}]

\* Where a run goes when the e-mails to rest remain.
MarkAtOnce(w, rest) == [at |-> "mark", req |-> Req(w)]
StillToSend(w, rest) ==
    IF rest = {} THEN [at |-> "mark", req |-> Req(w)]
                 ELSE [at |-> "send", req |-> Req(w), art |-> run[w].art, rest |-> rest]

Send(w) ==
    /\ At(w, "send")
    /\ \E p \in run[w].rest :
         /\ Mail(Req(w), p, run[w].art)
         /\ Become(w, StillToSend(w, run[w].rest \ {p}))
    /\ UNCHANGED <<rows, job, todo, alert, stamps, faults, restarts>>

\* The flag is written only after every e-mail went out.
Mark(w) ==
    /\ At(w, "mark")
    /\ emailed' = emailed \cup {Req(w)}
    /\ Become(w, [at |-> "done", req |-> Req(w)])
    /\ UNCHANGED <<signed, old, art, store, job, todo, alert, stamps, faults, copies, restarts>>

\* Any call of a run may throw; an upload or an e-mail may have gone through
\* all the same.
Fail(w) ==
    /\ run[w].at \in {"load", "stamp", "put", "record", "send", "mark"}
    /\ Fault("fail")
    /\ Become(w, [at |-> "failed", req |-> Req(w)])
    /\ \/ UNCHANGED <<store, copies>>
       \/ At(w, "put") /\ store' = store \cup {run[w].art} /\ UNCHANGED copies
       \/ At(w, "send") /\ UNCHANGED store
            /\ \E p \in run[w].rest : Mail(Req(w), p, run[w].art)
    /\ UNCHANGED <<signed, old, art, emailed, job, todo, alert, stamps, restarts>>

-------------------------------------------------------------------------------
(***************************************************************************)
(* The reconciler: a sweep every minute over completed requests that are   *)
(* not finished, oldest first and at most Limit of them.                   *)
(***************************************************************************)
Age(q) ==
    /\ q \in signed \ old
    /\ old' = old \cup {q}
    /\ UNCHANGED <<signed, art, emailed, store, job, run, todo, alert, stamps, faults, copies,
                   restarts>>

Stranded == {q \in old : art[q] = 0 \/ q \notin emailed}
Oldest   == {q \in Stranded : Cardinality({e \in Stranded : e < q}) < Limit}

SweepFind(s) ==
    /\ At(s, "idle") /\ todo[s] = {}
    /\ Stranded # {}
    /\ todo' = Put(todo, s, Oldest)
    /\ UNCHANGED <<rows, job, run, alert, stamps, faults, copies, restarts>>

SweepNext(s) ==
    /\ At(s, "idle")
    /\ \E q \in todo[s] :
         /\ \A e \in todo[s] : q <= e
         /\ todo' = Put(todo, s, todo[s] \ {q})
         /\ Become(s, [at |-> "load", req |-> q])
    /\ UNCHANGED <<rows, job, alert, stamps, faults, copies, restarts>>

\* sealingFailures.succeed and alerter.clear
SweepDone(s) ==
    LET q == Req(s) IN
    /\ At(s, "done")
    /\ streak' = Put(streak, q, 0)
    /\ quiet' = quiet \ {q}
    /\ Become(s, Idle)
    /\ UNCHANGED <<rows, job, todo, stamps, faults, copies, alarms, restarts>>

\* FailureStreak.fail is true exactly on the failure that reaches the threshold.
\* (n failures came before this one.)
ReachesOrPasses(n) == n + 1 >= Threshold
Reaches(n) == n + 1 = Threshold

\* sealingFailures.fail, and when it says so alerter.raise, which remembers
\* that it raised the key before it tries to send and swallows a failed send.
SweepFailed(s) ==
    LET q == Req(s)
        raised == Reaches(streak[q]) /\ q \notin quiet
    IN  /\ At(s, "failed")
        /\ streak' = Put(streak, q, OneMore(streak[q]))
        /\ quiet' = IF raised THEN quiet \cup {q} ELSE quiet
        /\ \/ alarms' = IF raised THEN Put(alarms, q, alarms[q] + 1) ELSE alarms
           \/ "alertfail" \in Ops /\ UNCHANGED alarms
        /\ Become(s, Idle)
        /\ UNCHANGED <<rows, job, todo, stamps, faults, copies, restarts>>

\* ALERT_COOLDOWN_MS pass after an alert.
CooldownEnds(q) ==
    /\ q \in quiet
    /\ quiet' = quiet \ {q}
    /\ UNCHANGED <<rows, job, run, todo, streak, alarms, stamps, faults, copies, restarts>>

-------------------------------------------------------------------------------
\* The worker process dies and is started again: runs, sweeps and the alert
\* memory are gone, and the queue delivers the active jobs again.
Restart ==
    /\ Fault("crash")
    /\ run' = [w \in Runners |-> Idle]
    /\ todo' = [s \in Sweeps |-> {}]
    /\ streak' = [q \in Requests |-> 0]
    /\ quiet' = {}
    /\ job' = [q \in Requests |-> IF job[q].is = "active" THEN Redelivered(q) ELSE job[q]]
    /\ restarts' = restarts + 1
    /\ UNCHANGED <<rows, stamps, copies, alarms>>

\* One step of completeSignature.
Proceed(w) ==
    Load(w) \/ Stamp(w) \/ StampRefused(w) \/ Upload(w) \/ Record(w) \/ Send(w) \/ Mark(w)

Work(w)  == Proceed(w) \/ JobDone(w) \/ JobFailed(w) \/ \E q \in Requests : TakeJob(w, q)
Sweep(s) == Proceed(s) \/ SweepNext(s) \/ SweepDone(s) \/ SweepFailed(s) \/ SweepFind(s)

Next ==
    \/ \E q \in Requests : Sign(q) \/ Stall(q) \/ Age(q) \/ CooldownEnds(q)
    \/ \E w \in Workers : Work(w)
    \/ \E s \in Sweeps : Sweep(s)
    \/ \E w \in Runners : Fail(w)
    \/ Restart

Spec == Init /\ [][Next]_vars

\* The worker process runs, its timer fires and time passes.  Nobody has to
\* sign, and failures end because MaxFaults bounds them.
Fairness ==
    /\ \A w \in Workers : WF_vars(Work(w))
    /\ \A s \in Sweeps : WF_vars(Sweep(s))
    /\ \A q \in Requests : WF_vars(Age(q))

FairSpec == Spec /\ Fairness

-------------------------------------------------------------------------------
(***************************************************************************)
(* Properties.                                                             *)
(***************************************************************************)
\* Every copy anyone holds is the one document the seal on file covers,
\* whichever run sent it: the parties never hold two different signed PDFs.
CopiesMatchSeal ==
    \A q \in Requests, p \in People : copies[q][p] \subseteq {art[q]} \ {0}

\* The row never names bytes that are not in the bucket.
SealedBytesStored == \A q \in Requests : art[q] # 0 => art[q] \in store

\* A request is only marked as delivered when everyone has a copy.
MarkedMeansDelivered == \A q \in emailed, p \in People : copies[q][p] # {}

\* A fault that goes on is reported once for each life of the process, not
\* once per sweep, however often sweeps overlap or the cooldown runs out.
OneAlarmPerFault == \A q \in Poison : alarms[q] <= 1 + restarts

\* Every signed request that can be stamped is sealed and delivered in the end,
\* whatever fails on the way (the queue, the job, the mail, the process) and
\* whatever is wrong with the others.
SignatureDelivered == \A q \in Requests \ Poison : q \in signed ~> q \in emailed

(***************************************************************************)
(* The inductive invariant behind the proofs.                              *)
(***************************************************************************)
\* Only what has been signed is worked on.
SignedWork ==
    /\ \A w \in Runners : At(w, "idle") \/ Req(w) \in signed
    /\ \A s \in Sweeps : todo[s] \subseteq signed
    /\ \A q \in Requests : job[q].is # "none" => q \in signed

\* A job that is or may be tried has a try and a stall left; only one that is
\* tried has a lock.
JobsWithinLimits ==
    \A q \in Requests :
        /\ job[q].by # {} => job[q].is = "active"
        /\ job[q].is \in {"wait", "active"} =>
             job[q].tries < Attempts /\ job[q].stalls <= MaxStalled

\* A run records what is in the bucket and sends what is on the row, and whoever
\* it no longer has to write to has a copy.
RunsHoldTheSeal ==
    \A w \in Runners :
        /\ At(w, "record") => run[w].art \in store
        /\ At(w, "send") => /\ run[w].art = art[Req(w)]
                            /\ \A p \in People \ run[w].rest : copies[Req(w)][p] # {}
        /\ At(w, "mark") => \A p \in People : copies[Req(w)][p] # {}

\* What cannot be stamped gets no further than the stamping.
SickUnsealed ==
    /\ \A q \in Poison : art[q] = 0
    /\ \A w \in Runners :
         run[w].at \in {"put", "record", "send", "mark", "done"} => Req(w) \notin Poison

\* This life's alert about such a request came with a failure counted since.
AlarmsCounted ==
    \A q \in Poison : alarms[q] <= restarts + (IF streak[q] < Threshold THEN 0 ELSE 1)

IInv ==
    /\ TypeOK
    /\ SignedWork /\ JobsWithinLimits /\ RunsHoldTheSeal
    /\ CopiesMatchSeal /\ SealedBytesStored /\ MarkedMeansDelivered
    /\ SickUnsealed /\ AlarmsCounted

(***************************************************************************)
(* What the repository says and these steps refute.                        *)
(***************************************************************************)
\* "It stays wrong until somebody is told": a request that failed the fifth
\* sweep in a row, and then another, has been reported.
StuckIsReported == \A q \in Requests : streak[q] > Threshold => alarms[q] > 0
===============================================================================
