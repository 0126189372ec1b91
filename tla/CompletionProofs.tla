--------------------------- MODULE CompletionProofs ---------------------------
(***************************************************************************)
(* Proofs about Completion for any number of requests, people, queue slots *)
(* and overlapping sweeps: type correctness, the inductive invariant IInv, *)
(* that everybody's copy is the sealed document, and that a fault raises   *)
(* one alarm for each life of the process.                                 *)
(*                                                                         *)
(* A step of a runner moves that runner only (Moves), so each conjunct of  *)
(* IInv is argued for the runner that moved and for the others apart.      *)
(***************************************************************************)
EXTENDS Completion, TLAPS

\* The stages a runner moves to, and what they carry.
LEMMA Stages ==
    /\ Idle \in Stage
    /\ \A a \in {"load", "stamp", "mark", "failed", "done"}, q \in Requests :
           [at |-> a, req |-> q] \in Stage
    /\ \A a \in {"put", "record"}, q \in Requests, d \in Art :
           [at |-> a, req |-> q, art |-> d] \in Stage
    /\ \A q \in Requests, d \in Art, R \in SUBSET People :
           [at |-> "send", req |-> q, art |-> d, rest |-> R] \in Stage
BY DEF Stage, Idle

\* What a stage of a given kind carries.
LEMMA StageFields ==
    ASSUME NEW s \in Stage
    PROVE  /\ s.at \in {"idle", "load", "stamp", "mark", "failed", "done",
                        "put", "record", "send"}
           /\ s.at # "idle" => s.req \in Requests
           /\ s.at \in {"put", "record", "send"} => s.art \in Art
           /\ s.at = "send" => s.rest \in SUBSET People
BY DEF Stage

\* A runner that becomes something leaves the others as they are.
LEMMA Moves ==
    ASSUME run \in [Runners -> Stage], NEW w \in Runners, NEW s \in Stage, Become(w, s)
    PROVE  /\ run' \in [Runners -> Stage]
           /\ run'[w] = s
           /\ \A v \in Runners \ {w} : run'[v] = run[v]
BY DEF Become

\* A job may be in this state: it is within its limits.
Fit(new) ==
    /\ new.by # {} => new.is = "active"
    /\ new.is \in {"wait", "active"} => new.tries < Attempts /\ new.stalls <= MaxStalled

\* A job given back after a failed run or a lost lock is well formed and fit.
LEMMA GivenBack ==
    ASSUME TypeOK, JobsWithinLimits, NEW q \in Requests, job[q].is = "active"
    PROVE  /\ Retried(q) \in Job /\ Fit(Retried(q))
           /\ Redelivered(q) \in Job /\ Fit(Redelivered(q))
<1>1. /\ job[q] \in Job
      /\ job[q].tries \in Nat /\ job[q].tries < Attempts
      /\ job[q].stalls \in Nat /\ job[q].stalls <= MaxStalled
    BY ConstantsAssumption DEF TypeOK, JobsWithinLimits, Job, MaxStalled
<1>2. /\ job[q].tries + 1 \in 0..Attempts
      /\ job[q].stalls + 1 \in 0..(MaxStalled + 1)
      /\ ~(job[q].stalls < MaxStalled) \/ job[q].stalls + 1 <= MaxStalled
    BY <1>1, ConstantsAssumption DEF MaxStalled
<1>3. Retried(q) \in Job /\ Redelivered(q) \in Job
    BY <1>1, <1>2 DEF Retried, Redelivered, Job
<1>4. Fit(Retried(q))
    BY <1>1 DEF Fit, Retried
<1>5. Fit(Redelivered(q))
    BY <1>1, <1>2 DEF Fit, Redelivered
<1>6. QED BY <1>3, <1>4, <1>5

\* Everything starts out well typed and empty.
LEMMA InvInit == Init => IInv
<1> SUFFICES ASSUME Init PROVE IInv
    OBVIOUS
<1>1. TypeOK
    BY ConstantsAssumption, Stages DEF Init, TypeOK, Counts, Cap, Job, MaxStalled
<1>2. SignedWork /\ JobsWithinLimits /\ RunsHoldTheSeal /\ SickUnsealed
    BY ConstantsAssumption
    DEF Init, Idle, SignedWork, JobsWithinLimits, RunsHoldTheSeal, SickUnsealed, At, Runners
<1>3. CopiesMatchSeal /\ SealedBytesStored /\ MarkedMeansDelivered
    BY DEF Init, CopiesMatchSeal, SealedBytesStored, MarkedMeansDelivered
<1>4. AlarmsCounted
    BY ConstantsAssumption DEF Init, AlarmsCounted
<1>5. QED BY <1>1, <1>2, <1>3, <1>4 DEF IInv

-------------------------------------------------------------------------------
\* What is true of a step of completeSignature: w was at work, on a request.
LEMMA AtWork ==
    ASSUME TypeOK, NEW w \in Runners, run[w].at # "idle"
    PROVE  /\ Req(w) \in Requests
           /\ run[w].at \in {"put", "record", "send"} => run[w].art \in Art
           /\ run[w].at = "send" => run[w].rest \in SUBSET People
BY StageFields DEF TypeOK, Req

\* Every step is one of these.
LEMMA Steps ==
    ASSUME Next
    PROVE  \/ \E q \in Requests : Sign(q) \/ Stall(q) \/ Age(q) \/ CooldownEnds(q)
           \/ \E w \in Workers : \/ JobDone(w) \/ JobFailed(w)
                                  \/ \E q \in Requests : TakeJob(w, q)
           \/ \E w \in Runners : Proceed(w) \/ Fail(w)
           \/ \E s \in Sweeps : SweepFind(s) \/ SweepNext(s) \/ SweepDone(s) \/ SweepFailed(s)
           \/ Restart
BY DEF Next, Work, Sweep, Runners

\* A step changes the job of one signed request, to a fit state, unless the
\* process restarts and every active job is given back.
LEMMA JobMoves ==
    ASSUME IInv, Next
    PROVE  \/ job' = job
           \/ \E q \in Requests, new \in Job :
                  job' = Put(job, q, new) /\ Fit(new) /\ q \in signed'
           \/ job' = [q \in Requests |-> IF job[q].is = "active" THEN Redelivered(q) ELSE job[q]]
<1> USE DEF rows, alert
<1> DEFINE Goal == \/ job' = job
                   \/ \E q \in Requests, new \in Job :
                          job' = Put(job, q, new) /\ Fit(new) /\ q \in signed'
<1>0. TypeOK /\ SignedWork /\ JobsWithinLimits
    BY DEF IInv
<1>a. \A q \in Requests : /\ job[q] \in Job
                          /\ job[q].is # "none" => q \in signed
    BY <1>0 DEF TypeOK, SignedWork
<1>b. ASSUME NEW w \in Workers, run[w].at # "idle"
      PROVE  Req(w) \in Requests /\ Req(w) \in signed
    BY <1>0, <1>b, AtWork DEF SignedWork, At, Runners
<1>1. ASSUME NEW q \in Requests, Sign(q) PROVE Goal
  <2>1. Queued \in Job /\ Fit(Queued)
      BY ConstantsAssumption DEF Queued, Job, Fit, MaxStalled
  <2>2. q \in signed' /\ (job' = job \/ job' = Put(job, q, Queued))
      BY <1>1 DEF Sign
  <2>3. QED BY <2>1, <2>2
<1>2. ASSUME NEW q \in Requests, Stall(q) PROVE Goal
    BY <1>0, <1>a, <1>2, GivenBack DEF Stall
<1>3. ASSUME NEW w \in Workers, NEW q \in Requests, TakeJob(w, q) PROVE Goal
  <2> DEFINE new == [job[q] EXCEPT !.is = "active", !.by = {w}]
  <2>1. job' = Put(job, q, new) /\ q \in signed' /\ job[q].is = "wait"
      BY <1>a, <1>3 DEF TakeJob
  <2>2. new \in Job
      BY <1>a DEF Job
  <2>3. /\ new.is = "active"
        /\ new.tries = job[q].tries /\ new.stalls = job[q].stalls
      BY <1>a DEF Job
  <2>4. Fit(new)
      BY <1>0, <2>1, <2>3 DEF Fit, JobsWithinLimits
  <2>5. QED BY <2>1, <2>2, <2>4
<1>4. ASSUME NEW w \in Workers, JobDone(w) PROVE Goal
  <2> DEFINE new == [job[Req(w)] EXCEPT !.is = "done", !.by = {}]
  <2>1. /\ Req(w) \in Requests /\ Req(w) \in signed'
        /\ job' = job \/ job' = Put(job, Req(w), new)
      BY <1>4, <1>b DEF JobDone, Report, At
  <2>2. new \in Job /\ Fit(new)
      BY <1>a, <2>1 DEF Job, Fit
  <2>3. QED BY <2>1, <2>2
<1>5. ASSUME NEW w \in Workers, JobFailed(w) PROVE Goal
  <2>1. /\ Req(w) \in Requests /\ Req(w) \in signed'
        /\ job' = job \/ (w \in job[Req(w)].by /\ job' = Put(job, Req(w), Retried(Req(w))))
      BY <1>5, <1>b DEF JobFailed, Report, At
  <2>2. CASE w \in job[Req(w)].by
    <3>1. job[Req(w)].is = "active"
        BY <1>0, <2>1, <2>2 DEF JobsWithinLimits
    <3>2. QED BY <1>0, <2>1, <3>1, GivenBack
  <2>3. QED BY <2>1, <2>2
<1>6. ASSUME NEW w \in Runners, Proceed(w) \/ Fail(w) PROVE job' = job
    BY <1>6 DEF Proceed, Load, Stamp, StampRefused, Upload, Record, Send, Mark, Fail
<1>7. QED BY Steps, <1>1, <1>2, <1>3, <1>4, <1>5, <1>6
          DEF Age, CooldownEnds, SweepFind, SweepNext, SweepDone, SweepFailed, Restart

\* So jobs stay well formed and within their limits.
LEMMA JobStep ==
    ASSUME IInv, Next
    PROVE  job' \in [Requests -> Job] /\ JobsWithinLimits'
<1>0. TypeOK /\ JobsWithinLimits /\ job \in [Requests -> Job]
    BY DEF IInv, TypeOK
<1>1. CASE job' = job
    BY <1>0, <1>1 DEF JobsWithinLimits
<1>2. ASSUME NEW q \in Requests, NEW new \in Job, job' = Put(job, q, new), Fit(new)
      PROVE  job' \in [Requests -> Job] /\ JobsWithinLimits'
  <2>1. job' \in [Requests -> Job] /\ \A r \in Requests : job'[r] = IF r = q THEN new ELSE job[r]
      BY <1>0, <1>2 DEF Put
  <2>2. QED BY <1>0, <1>2, <2>1 DEF Fit, JobsWithinLimits
<1>3. CASE job' = [q \in Requests |-> IF job[q].is = "active" THEN Redelivered(q) ELSE job[q]]
  <2>1. \A q \in Requests : (Redelivered(q) \in Job /\ Fit(Redelivered(q))) \/ job[q].is # "active"
      BY <1>0, GivenBack
  <2>2. job' \in [Requests -> Job]
      BY <1>0, <1>3, <2>1
  <2>3. \A q \in Requests : Fit(job'[q]) \/ job'[q] = job[q]
      BY <1>3, <2>1
  <2>4. QED BY <1>0, <2>2, <2>3 DEF Fit, JobsWithinLimits
<1>4. QED BY JobMoves, <1>1, <1>2, <1>3

\* Types: the steps of the queue.
LEMMA TypeQueue ==
    ASSUME IInv, Next,
           \/ \E q \in Requests : Sign(q) \/ Stall(q) \/ Age(q) \/ CooldownEnds(q)
           \/ \E w \in Workers : \/ JobDone(w) \/ JobFailed(w)
                                  \/ \E q \in Requests : TakeJob(w, q)
    PROVE  TypeOK'
<1> USE DEF rows, alert
<1>0. TypeOK /\ job' \in [Requests -> Job]
    BY JobStep DEF IInv
<1>a. ASSUME NEW w \in Workers, NEW s \in Stage, Become(w, s) PROVE run' \in [Runners -> Stage]
    BY <1>0, <1>a, Moves DEF TypeOK, Runners
<1>1. ASSUME NEW q \in Requests, Sign(q) PROVE TypeOK'
  <2>1. faults' \in 0..MaxFaults
      BY <1>0, <1>1, ConstantsAssumption DEF Sign, TypeOK, Fault
  <2>2. QED BY <1>0, <1>1, <2>1 DEF Sign, TypeOK
<1>2. ASSUME NEW q \in Requests, Stall(q) PROVE TypeOK'
    BY <1>0, <1>2, ConstantsAssumption DEF Stall, TypeOK, Fault
<1>3. ASSUME NEW q \in Requests, Age(q) PROVE TypeOK'
    BY <1>0, <1>3 DEF Age, TypeOK
<1>4. ASSUME NEW q \in Requests, CooldownEnds(q) PROVE TypeOK'
    BY <1>0, <1>4 DEF CooldownEnds, TypeOK
<1>5. ASSUME NEW w \in Workers, NEW q \in Requests, TakeJob(w, q) PROVE TypeOK'
  <2>1. run' \in [Runners -> Stage]
      BY <1>5, <1>a, Stages DEF TakeJob
  <2>2. QED BY <1>0, <1>5, <2>1 DEF TakeJob, TypeOK
<1>6. ASSUME NEW w \in Workers, JobDone(w) \/ JobFailed(w) PROVE TypeOK'
  <2>1. run' \in [Runners -> Stage]
      BY <1>6, <1>a, Stages DEF JobDone, JobFailed, Report
  <2>2. QED BY <1>0, <1>6, <2>1 DEF JobDone, JobFailed, Report, TypeOK
<1>7. QED BY <1>1, <1>2, <1>3, <1>4, <1>5, <1>6

\* Types: the steps of completeSignature, a failed one among them.
LEMMA TypeProceed ==
    ASSUME IInv, NEW w \in Runners, Proceed(w) \/ Fail(w)
    PROVE  TypeOK'
<1> USE DEF rows, alert
<1>0. TypeOK /\ SignedWork
    BY DEF IInv
<1>a. run[w].at # "idle"
    BY DEF Proceed, Load, Stamp, StampRefused, Upload, Record, Send, Mark, Fail, At
<1>b. /\ Req(w) \in Requests /\ Req(w) \in signed
      /\ run[w].at \in {"put", "record", "send"} => run[w].art \in Art
      /\ run[w].at = "send" => run[w].rest \in SUBSET People
    BY <1>0, <1>a, AtWork DEF SignedWork, At
<1>c. ASSUME NEW s \in Stage, Become(w, s) PROVE run' \in [Runners -> Stage]
    BY <1>0, <1>c, Moves DEF TypeOK
<1>1. CASE Load(w)
  <2>1. art[Req(w)] # 0 => art[Req(w)] \in Art
      BY <1>0, <1>b, ConstantsAssumption DEF TypeOK, Art
  <2>2. PICK s \in Stage : Become(w, s)
      BY <1>1, <1>b, <2>1, Stages DEF Load
  <2>3. QED BY <1>0, <1>1, <1>c, <2>2 DEF Load, TypeOK
<1>2. CASE Stamp(w)
  <2>1. stamps + 1 \in Art /\ stamps + 1 \in 0..MaxStamps
      BY <1>0, <1>2, ConstantsAssumption DEF Stamp, TypeOK, Art
  <2>2. run' \in [Runners -> Stage]
      BY <1>2, <1>b, <1>c, <2>1, Stages DEF Stamp
  <2>3. QED BY <1>0, <1>2, <2>1, <2>2 DEF Stamp, TypeOK
<1>3. CASE StampRefused(w)
  <2>1. run' \in [Runners -> Stage]
      BY <1>3, <1>b, <1>c, Stages DEF StampRefused
  <2>2. QED BY <1>0, <1>3, <2>1 DEF StampRefused, TypeOK
<1>4. CASE Upload(w)
  <2>1. run' \in [Runners -> Stage]
      BY <1>4, <1>b, <1>c, Stages DEF Upload, At
  <2>2. QED BY <1>0, <1>4, <1>b, <2>1 DEF Upload, Uploaded, At, TypeOK
<1>5. CASE Record(w)
  <2>1. PICK s \in Stage : Become(w, s)
      BY <1>5, <1>b, Stages DEF Record, At
  <2>2. art' \in [Requests -> 0..MaxStamps]
      BY <1>0, <1>5, <1>b, ConstantsAssumption DEF Record, At, Put, TypeOK, Art
  <2>3. QED BY <1>0, <1>5, <1>c, <2>1, <2>2 DEF Record, TypeOK
<1>6. CASE Send(w)
  <2>1. PICK p \in run[w].rest : /\ Mail(Req(w), p, run[w].art)
                                /\ Become(w, StillToSend(w, run[w].rest \ {p}))
      BY <1>6 DEF Send
  <2>2. StillToSend(w, run[w].rest \ {p}) \in Stage
      BY <1>6, <1>b, Stages DEF Send, At, StillToSend
  <2>3. copies' \in [Requests -> [People -> SUBSET Art]]
      BY <1>0, <1>6, <1>b, <2>1 DEF Send, At, Mail, TypeOK
  <2>4. QED BY <1>0, <1>6, <1>c, <2>1, <2>2, <2>3 DEF Send, TypeOK
<1>7. CASE Mark(w)
  <2>1. run' \in [Runners -> Stage]
      BY <1>7, <1>b, <1>c, Stages DEF Mark
  <2>2. QED BY <1>0, <1>7, <1>b, <2>1 DEF Mark, TypeOK
<1>8. CASE Fail(w)
  <2>1. run' \in [Runners -> Stage]
      BY <1>8, <1>b, <1>c, Stages DEF Fail
  <2>2. copies' \in [Requests -> [People -> SUBSET Art]]
    <3>1. ASSUME At(w, "send"), NEW p \in run[w].rest, Mail(Req(w), p, run[w].art)
          PROVE  copies' \in [Requests -> [People -> SUBSET Art]]
        BY <1>0, <1>b, <3>1 DEF At, Mail, TypeOK
    <3>2. QED BY <1>0, <1>8, <3>1 DEF Fail, TypeOK
  <2>3. store' \subseteq Art
      BY <1>0, <1>8, <1>b DEF Fail, At, TypeOK
  <2>4. faults' \in 0..MaxFaults
      BY <1>0, <1>8, ConstantsAssumption DEF Fail, Fault, TypeOK
  <2>5. QED BY <1>0, <1>8, <2>1, <2>2, <2>3, <2>4 DEF Fail, TypeOK
<1>9. QED BY <1>1, <1>2, <1>3, <1>4, <1>5, <1>6, <1>7, <1>8 DEF Proceed

\* Types: the steps of the reconciler, and the restart.
LEMMA TypeSweep ==
    ASSUME IInv, Next,
           \/ \E s \in Sweeps : SweepFind(s) \/ SweepNext(s) \/ SweepDone(s) \/ SweepFailed(s)
           \/ Restart
    PROVE  TypeOK'
<1> USE DEF rows, alert
<1>0. TypeOK /\ SignedWork
    BY DEF IInv
<1>c. ASSUME NEW w \in Runners, NEW s \in Stage, Become(w, s) PROVE run' \in [Runners -> Stage]
    BY <1>0, <1>c, Moves DEF TypeOK
<1>d. Sweeps \subseteq Runners
    BY DEF Runners
<1>1. ASSUME NEW s \in Sweeps, SweepFind(s) PROVE TypeOK'
  <2>1. Oldest \subseteq Requests
      BY <1>0 DEF Oldest, Stranded, TypeOK
  <2>2. QED BY <1>0, <1>1, <2>1 DEF SweepFind, Put, TypeOK
<1>2. ASSUME NEW s \in Sweeps, SweepNext(s) PROVE TypeOK'
  <2>1. PICK q \in todo[s] : /\ todo' = Put(todo, s, todo[s] \ {q})
                             /\ Become(s, [at |-> "load", req |-> q])
      BY <1>2 DEF SweepNext
  <2>2. q \in Requests
      BY <1>0, <2>1 DEF TypeOK
  <2>3. run' \in [Runners -> Stage]
      BY <1>c, <1>d, <2>1, <2>2, Stages
  <2>4. QED BY <1>0, <1>2, <2>1, <2>3 DEF SweepNext, Put, TypeOK
<1>3. ASSUME NEW s \in Sweeps, SweepDone(s) PROVE TypeOK'
  <2>1. run' \in [Runners -> Stage]
      BY <1>3, <1>c, <1>d, Stages DEF SweepDone
  <2>2. 0 \in Counts
      BY ConstantsAssumption DEF Counts, Cap
  <2>3. QED BY <1>0, <1>3, <2>1, <2>2 DEF SweepDone, Put, TypeOK
<1>4. ASSUME NEW s \in Sweeps, SweepFailed(s) PROVE TypeOK'
  <2>1. run' \in [Runners -> Stage]
      BY <1>4, <1>c, <1>d, Stages DEF SweepFailed
  <2>2. \A n \in Counts : OneMore(n) \in Counts
      BY ConstantsAssumption DEF Counts, Cap, OneMore
  <2>3. Req(s) \in Requests
      BY <1>0, <1>4, <1>d, AtWork DEF SweepFailed, At
  <2>4. streak' \in [Requests -> Counts] /\ quiet' \subseteq Requests
      BY <1>0, <1>4, <2>2, <2>3 DEF SweepFailed, Put, TypeOK
  <2>5. alarms' \in [Requests -> Nat]
      BY <1>0, <1>4, <2>3 DEF SweepFailed, Put, TypeOK
  <2>6. QED BY <1>0, <1>4, <2>1, <2>4, <2>5 DEF SweepFailed, TypeOK
<1>5. CASE Restart
  <2>1. job' \in [Requests -> Job]
      BY JobStep
  <2>2. faults' \in 0..MaxFaults /\ restarts' \in Nat /\ 0 \in Counts
      BY <1>0, <1>5, ConstantsAssumption DEF Restart, Fault, TypeOK, Counts, Cap
  <2>3. QED BY <1>0, <1>5, <2>1, <2>2, Stages DEF Restart, TypeOK
<1>6. QED BY <1>1, <1>2, <1>3, <1>4, <1>5

-------------------------------------------------------------------------------
\* Every step keeps the types.
LEMMA TypeStep == ASSUME IInv, Next PROVE TypeOK'
BY Steps, TypeQueue, TypeProceed, TypeSweep

\* How a runner comes to be where it is after a step: it was there, it was
\* given up, or it went there itself.
LEMMA Moved ==
    ASSUME TypeOK, Next, NEW v \in Runners
    PROVE  \/ run'[v] = run[v]
           \/ run'[v] = Idle
           \/ Proceed(v) \/ Fail(v)
           \/ v \in Workers /\ \E q \in Requests : TakeJob(v, q)
           \/ v \in Sweeps /\ SweepNext(v)
<1>0. run \in [Runners -> Stage]
    BY DEF TypeOK
<1>a. ASSUME NEW w, NEW s, Become(w, s), v # w PROVE run'[v] = run[v]
    BY <1>0, <1>a DEF Become
<1>b. ASSUME NEW w, Become(w, Idle) PROVE run'[v] = run[v] \/ run'[v] = Idle
    BY <1>0, <1>b DEF Become
<1>1. ASSUME NEW q \in Requests, Sign(q) \/ Stall(q) \/ Age(q) \/ CooldownEnds(q)
      PROVE  run' = run
    BY <1>1 DEF Sign, Stall, Age, CooldownEnds
<1>2. ASSUME NEW w \in Workers, JobDone(w) \/ JobFailed(w)
      PROVE  run'[v] = run[v] \/ run'[v] = Idle
    BY <1>2, <1>b DEF JobDone, JobFailed, Report
<1>3. ASSUME NEW w \in Workers, NEW q \in Requests, TakeJob(w, q), v # w
      PROVE  run'[v] = run[v]
    BY <1>3, <1>a DEF TakeJob
<1>4. ASSUME NEW w \in Runners, Proceed(w), v # w PROVE run'[v] = run[v]
  <2>1. PICK s : Become(w, s)
      BY <1>4 DEF Proceed, Load, Stamp, StampRefused, Upload, Record, Send, Mark
  <2>2. QED BY <1>4, <1>a, <2>1
<1>5. ASSUME NEW w \in Runners, Fail(w), v # w PROVE run'[v] = run[v]
    BY <1>5, <1>a DEF Fail
<1>6. ASSUME NEW s \in Sweeps, SweepFind(s) PROVE run' = run
    BY <1>6 DEF SweepFind
<1>7. ASSUME NEW s \in Sweeps, SweepNext(s), v # s PROVE run'[v] = run[v]
  <2>1. PICK q : Become(s, [at |-> "load", req |-> q])
      BY <1>7 DEF SweepNext
  <2>2. QED BY <1>7, <1>a, <2>1
<1>8. ASSUME NEW s \in Sweeps, SweepDone(s) \/ SweepFailed(s)
      PROVE  run'[v] = run[v] \/ run'[v] = Idle
    BY <1>8, <1>b DEF SweepDone, SweepFailed
<1>9. CASE Restart
    BY <1>9 DEF Restart
<1>10. QED BY Steps, <1>1, <1>2, <1>3, <1>4, <1>5, <1>6, <1>7, <1>8, <1>9

\* What is recorded stays: signatures, files, copies, marks and seals.
LEMMA Grows ==
    ASSUME IInv, Next
    PROVE  /\ signed \subseteq signed' /\ store \subseteq store'
           /\ \A q \in Requests, p \in People : copies[q][p] \subseteq copies'[q][p]
           /\ \A q \in Requests : art[q] # 0 => art'[q] = art[q]
<1> USE DEF rows, alert
<1>0. TypeOK
    BY DEF IInv
<1>1. signed \subseteq signed' /\ store \subseteq store'
  <2>1. ASSUME NEW w \in Runners, Proceed(w) \/ Fail(w)
        PROVE  signed' = signed /\ store \subseteq store'
      BY <2>1 DEF Proceed, Load, Stamp, StampRefused, Upload, Uploaded, Record, Send, Mark, Fail
  <2>2. QED BY Steps, <2>1 DEF Sign, Stall, Age, CooldownEnds, JobDone, JobFailed, Report,
               TakeJob, SweepFind, SweepNext, SweepDone, SweepFailed, Restart
<1>2. ASSUME NEW q \in Requests, NEW p \in People PROVE copies[q][p] \subseteq copies'[q][p]
  <2>1. ASSUME NEW r, NEW someone, NEW a, Mail(r, someone, a)
        PROVE  copies[q][p] \subseteq copies'[q][p]
      BY <1>0, <2>1 DEF TypeOK, Mail
  <2>2. ASSUME NEW w \in Runners, Proceed(w) \/ Fail(w)
        PROVE  copies' = copies \/ \E r, someone, a : Mail(r, someone, a)
      BY <2>2 DEF Proceed, Load, Stamp, StampRefused, Upload, Record, Send, Mark, Fail
  <2>3. QED BY Steps, <2>1, <2>2 DEF Sign, Stall, Age, CooldownEnds, JobDone, JobFailed, Report,
               TakeJob, SweepFind, SweepNext, SweepDone, SweepFailed, Restart
<1>3. ASSUME NEW q \in Requests, art[q] # 0 PROVE art'[q] = art[q]
  <2>1. ASSUME NEW w \in Runners, Proceed(w) \/ Fail(w) PROVE art'[q] = art[q]
    <3>1. CASE Record(w)
        BY <1>0, <1>3, <3>1 DEF Record, MayRecord, Put, TypeOK
    <3>2. CASE ~Record(w)
        BY <2>1, <3>2 DEF Proceed, Load, Stamp, StampRefused, Upload, Send, Mark, Fail
    <3>3. QED BY <3>1, <3>2
  <2>2. QED BY Steps, <2>1 DEF Sign, Stall, Age, CooldownEnds, JobDone, JobFailed, Report,
               TakeJob, SweepFind, SweepNext, SweepDone, SweepFailed, Restart
<1>4. QED BY <1>1, <1>2, <1>3

-------------------------------------------------------------------------------
\* Only what has been signed is worked on.
LEMMA SignedStep == ASSUME IInv, Next PROVE SignedWork'
<1> USE DEF rows, alert
<1>0. TypeOK /\ SignedWork
    BY DEF IInv
<1>1. ASSUME NEW v \in Runners PROVE run'[v].at = "idle" \/ run'[v].req \in signed'
  <2>a. run \in [Runners -> Stage] /\ signed \subseteq signed'
      BY <1>0, Grows DEF TypeOK
  <2>b. run[v].at = "idle" \/ run[v].req \in signed
      BY <1>0 DEF SignedWork, At, Req
  <2>1. CASE run'[v] = run[v] \/ run'[v] = Idle
      BY <2>1, <2>a, <2>b DEF Idle
  <2>2. CASE Proceed(v) \/ Fail(v)
    <3>1. run[v].at # "idle" /\ run'[v].req = run[v].req
        BY <2>2, <2>a DEF Proceed, Load, Stamp, StampRefused, Upload, Record, Send, StillToSend,
                         Mark, Fail, At, Become, Req
    <3>2. QED BY <3>1, <2>a, <2>b
  <2>3. ASSUME NEW q \in Requests, TakeJob(v, q) PROVE run'[v].req \in signed'
      BY <1>0, <2>a, <2>3 DEF TakeJob, SignedWork, Become
  <2>4. ASSUME v \in Sweeps, SweepNext(v) PROVE run'[v].req \in signed'
      BY <1>0, <2>a, <2>4 DEF SweepNext, SignedWork, Become
  <2>5. QED BY <1>0, Moved, <2>1, <2>2, <2>3, <2>4
<1>2. ASSUME NEW s \in Sweeps PROVE todo'[s] \subseteq signed'
  <2>1. ASSUME NEW t \in Sweeps, SweepFind(t) \/ SweepNext(t)
        PROVE  todo'[s] \subseteq todo[s] \cup Oldest
      BY <1>0, <2>1 DEF SweepFind, SweepNext, Put, TypeOK
  <2>2. Oldest \subseteq signed /\ todo[s] \subseteq signed /\ signed \subseteq signed'
      BY <1>0, Grows DEF Oldest, Stranded, TypeOK, SignedWork
  <2>3. CASE Restart
      BY <2>3 DEF Restart
  <2>4. todo' = todo \/ Restart \/ \E t \in Sweeps : SweepFind(t) \/ SweepNext(t)
    <3>1. ASSUME NEW w \in Runners, Proceed(w) \/ Fail(w) PROVE todo' = todo
        BY <3>1 DEF Proceed, Load, Stamp, StampRefused, Upload, Record, Send, Mark, Fail
    <3>2. QED BY Steps, <3>1 DEF Sign, Stall, Age, CooldownEnds, JobDone, JobFailed, Report,
                 TakeJob, SweepDone, SweepFailed
  <2>5. QED BY <2>1, <2>2, <2>3, <2>4
<1>3. ASSUME NEW q \in Requests, job'[q].is # "none" PROVE q \in signed'
  <2>1. job \in [Requests -> Job] /\ (job[q].is # "none" => q \in signed) /\ signed \subseteq signed'
      BY <1>0, Grows DEF SignedWork, TypeOK
  <2>2. ASSUME NEW r \in Requests, NEW new \in Job, job' = Put(job, r, new), r \in signed'
        PROVE  q \in signed'
    <3>1. job'[q] = IF q = r THEN new ELSE job[q]
        BY <2>1, <2>2 DEF Put
    <3>2. QED BY <1>3, <2>1, <2>2, <3>1
  <2>3. CASE job' = [r \in Requests |-> IF job[r].is = "active" THEN Redelivered(r) ELSE job[r]]
    <3>1. job'[q] = IF job[q].is = "active" THEN Redelivered(q) ELSE job[q]
        BY <2>3
    <3>2. QED BY <1>3, <2>1, <3>1
  <2>4. QED BY JobMoves, <1>3, <2>1, <2>2, <2>3
<1>4. QED BY <1>1, <1>2, <1>3 DEF SignedWork, At, Req

-------------------------------------------------------------------------------
\* A run records what is in the bucket and sends what is on the row.
LEMMA SealStep == ASSUME IInv, Next PROVE RunsHoldTheSeal'
<1> USE DEF rows, alert
<1>0. TypeOK /\ TypeOK' /\ RunsHoldTheSeal
    BY TypeStep DEF IInv
<1>1. SUFFICES ASSUME NEW v \in Runners
               PROVE  /\ run'[v].at = "record" => run'[v].art \in store'
                      /\ run'[v].at = "send" =>
                            /\ run'[v].art = art'[run'[v].req]
                            /\ \A p \in People \ run'[v].rest : copies'[run'[v].req][p] # {}
                      /\ run'[v].at = "mark" => \A p \in People : copies'[run'[v].req][p] # {}
    BY DEF RunsHoldTheSeal, At, Req
<1>a. run[v] \in Stage /\ run \in [Runners -> Stage]
    BY <1>0 DEF TypeOK
<1>b. /\ run[v].at # "idle" => run[v].req \in Requests
      /\ run[v].at \in {"put", "record", "send"} => run[v].art # 0
      /\ run[v].at = "send" => run[v].rest \in SUBSET People
    BY <1>a, StageFields, ConstantsAssumption DEF Art
<1>c. /\ run[v].at = "record" => run[v].art \in store
      /\ run[v].at = "send" => /\ run[v].art = art[run[v].req]
                              /\ \A p \in People \ run[v].rest : copies[run[v].req][p] # {}
      /\ run[v].at = "mark" => \A p \in People : copies[run[v].req][p] # {}
    BY <1>0 DEF RunsHoldTheSeal, At, Req
<1>2. CASE run'[v] = run[v]
    BY <1>2, <1>b, <1>c, Grows
<1>3. CASE run'[v] = Idle
    BY <1>3 DEF Idle
<1>4. CASE Load(v)
    BY <1>4, <1>a DEF Load, Become, Req
<1>5. CASE Stamp(v) \/ StampRefused(v) \/ Mark(v) \/ Fail(v)
    BY <1>5, <1>a DEF Stamp, StampRefused, Mark, Fail, Become
<1>6. CASE Upload(v)
    BY <1>6, <1>a DEF Upload, Uploaded, Become
<1>7. CASE Record(v)
  <2>1. CASE MayRecord(Req(v))
    <3>1. /\ run'[v] = [at |-> "send", req |-> Req(v), art |-> run[v].art, rest |-> People]
          /\ art' = Put(art, Req(v), run[v].art)
        BY <1>7, <1>a, <2>1 DEF Record, Become
    <3>2. art'[Req(v)] = run[v].art
        BY <1>0, <1>7, <1>b, <3>1 DEF Put, TypeOK, Record, At, Req
    <3>3. QED BY <3>1, <3>2
  <2>2. CASE ~MayRecord(Req(v))
      BY <1>7, <1>a, <2>2 DEF Record, Become
  <2>3. QED BY <2>1, <2>2
<1>8. CASE Send(v)
  <2>1. PICK p \in run[v].rest : /\ Mail(Req(v), p, run[v].art)
                                /\ Become(v, StillToSend(v, run[v].rest \ {p}))
      BY <1>8 DEF Send
  <2>2. art' = art /\ run[v].at = "send"
      BY <1>8 DEF Send, At
  <2>3. run'[v] = StillToSend(v, run[v].rest \ {p})
      BY <1>a, <2>1 DEF Become
  <2>4. \A someone \in People \ (run[v].rest \ {p}) : copies'[Req(v)][someone] # {}
    <3>1. copies'[Req(v)][p] # {}
        BY <1>0, <1>b, <2>1, <2>2 DEF Mail, TypeOK, Req
    <3>2. ASSUME NEW someone \in People \ run[v].rest PROVE copies'[Req(v)][someone] # {}
        BY <1>b, <1>c, <2>2, <3>2, Grows DEF Req
    <3>3. QED BY <3>1, <3>2
  <2>5. CASE run[v].rest \ {p} = {}
      BY <2>3, <2>4, <2>5 DEF StillToSend
  <2>6. CASE run[v].rest \ {p} # {}
    <3>1. run'[v] = [at |-> "send", req |-> Req(v), art |-> run[v].art, rest |-> run[v].rest \ {p}]
        BY <2>3, <2>6 DEF StillToSend
    <3>2. QED BY <1>c, <2>2, <2>4, <3>1 DEF Req
  <2>7. QED BY <2>5, <2>6
<1>9. ASSUME NEW q \in Requests, TakeJob(v, q) PROVE run'[v].at = "load"
    BY <1>a, <1>9 DEF TakeJob, Become
<1>10. ASSUME SweepNext(v) PROVE run'[v].at = "load"
    BY <1>a, <1>10 DEF SweepNext, Become
<1>11. QED BY <1>0, Moved, <1>2, <1>3, <1>4, <1>5, <1>6, <1>7, <1>8, <1>9, <1>10 DEF Proceed

\* The copies are of the sealed document: who sends, sends what is on the row,
\* and what is on the row stays there.
LEMMA CopiesStep == ASSUME IInv, Next PROVE CopiesMatchSeal'
<1> USE DEF rows, alert
<1>0. TypeOK /\ RunsHoldTheSeal /\ CopiesMatchSeal
    BY DEF IInv
<1>1. SUFFICES ASSUME NEW q \in Requests, NEW p \in People
               PROVE  copies'[q][p] \subseteq {art'[q]} \ {0}
    BY DEF CopiesMatchSeal
<1>2. copies[q][p] \subseteq {art'[q]} \ {0}
    BY <1>0, Grows DEF CopiesMatchSeal
<1>3. ASSUME NEW w \in Runners, run[w].at = "send", NEW r \in run[w].rest, Mail(Req(w), r, run[w].art)
      PROVE  copies'[q][p] \subseteq {art'[q]} \ {0}
  <2>1. /\ Req(w) \in Requests /\ run[w].art # 0 /\ run[w].art = art[Req(w)]
      BY <1>0, <1>3, AtWork, ConstantsAssumption DEF RunsHoldTheSeal, At, Art
  <2>2. copies'[q][p] = copies[q][p] \/ (q = Req(w) /\ copies'[q][p] = copies[q][p] \cup {run[w].art})
      BY <1>0, <1>3 DEF Mail, TypeOK
  <2>3. art'[Req(w)] = art[Req(w)]
      BY <2>1, Grows
  <2>4. QED BY <1>2, <2>1, <2>2, <2>3
<1>4. \/ copies' = copies
      \/ \E w \in Runners : /\ run[w].at = "send"
                            /\ \E r \in run[w].rest : Mail(Req(w), r, run[w].art)
  <2>1. ASSUME NEW w \in Runners, Proceed(w) \/ Fail(w)
        PROVE  \/ copies' = copies
               \/ /\ run[w].at = "send"
                  /\ \E r \in run[w].rest : Mail(Req(w), r, run[w].art)
      BY <2>1 DEF Proceed, Load, Stamp, StampRefused, Upload, Record, Send, Mark, Fail, At
  <2>2. QED BY Steps, <2>1 DEF Sign, Stall, Age, CooldownEnds, JobDone, JobFailed, Report,
               TakeJob, SweepFind, SweepNext, SweepDone, SweepFailed, Restart
<1>5. QED BY <1>2, <1>3, <1>4

\* The row names what was uploaded, and only who has written to everybody marks.
LEMMA RowStep == ASSUME IInv, Next PROVE SealedBytesStored' /\ MarkedMeansDelivered'
<1> USE DEF rows, alert
<1>0. TypeOK /\ RunsHoldTheSeal /\ SealedBytesStored /\ MarkedMeansDelivered
    BY DEF IInv
<1>1. ASSUME NEW q \in Requests, art'[q] # 0 PROVE art'[q] \in store'
  <2>1. CASE art'[q] = art[q]
      BY <1>0, <1>1, <2>1, Grows DEF SealedBytesStored
  <2>2. ASSUME NEW w \in Runners, Record(w), art'[q] # art[q] PROVE art'[q] \in store'
      BY <1>0, <2>2 DEF Record, Put, TypeOK, RunsHoldTheSeal, At
  <2>3. art' = art \/ \E w \in Runners : Record(w)
    <3>1. ASSUME NEW w \in Runners, Proceed(w) \/ Fail(w), ~Record(w) PROVE art' = art
        BY <3>1 DEF Proceed, Load, Stamp, StampRefused, Upload, Send, Mark, Fail
    <3>2. QED BY Steps, <3>1 DEF Sign, Stall, Age, CooldownEnds, JobDone, JobFailed, Report,
                 TakeJob, SweepFind, SweepNext, SweepDone, SweepFailed, Restart
  <2>4. QED BY <2>1, <2>2, <2>3
<1>2. ASSUME NEW q \in emailed', NEW p \in People PROVE copies'[q][p] # {}
  <2>1. CASE q \in emailed
    <3>1. q \in Requests /\ copies[q][p] # {}
        BY <1>0, <2>1 DEF TypeOK, MarkedMeansDelivered
    <3>2. QED BY <3>1, Grows
  <2>2. ASSUME NEW w \in Runners, Mark(w), q \notin emailed PROVE copies'[q][p] # {}
      BY <1>0, <1>2, <2>2 DEF Mark, RunsHoldTheSeal, At
  <2>3. emailed' = emailed \/ \E w \in Runners : Mark(w)
    <3>1. ASSUME NEW w \in Runners, Proceed(w) \/ Fail(w), ~Mark(w) PROVE emailed' = emailed
        BY <3>1 DEF Proceed, Load, Stamp, StampRefused, Upload, Record, Send, Fail
    <3>2. QED BY Steps, <3>1 DEF Sign, Stall, Age, CooldownEnds, JobDone, JobFailed, Report,
                 TakeJob, SweepFind, SweepNext, SweepDone, SweepFailed, Restart
  <2>4. QED BY <1>2, <2>1, <2>2, <2>3
<1>3. QED BY <1>1, <1>2 DEF SealedBytesStored, MarkedMeansDelivered

-------------------------------------------------------------------------------
\* What cannot be stamped never gets past the stamping, so no run of it ends well.
LEMMA SickStep == ASSUME IInv, Next PROVE SickUnsealed'
<1> USE DEF rows, alert
<1>0. TypeOK /\ SickUnsealed
    BY DEF IInv
<1>1. ASSUME NEW q \in Poison PROVE art'[q] = 0
  <2>1. ASSUME NEW w \in Runners, Record(w) PROVE art'[q] = 0
      BY <1>0, <2>1, ConstantsAssumption DEF Record, Put, TypeOK, SickUnsealed, At
  <2>2. art' = art \/ \E w \in Runners : Record(w)
    <3>1. ASSUME NEW w \in Runners, Proceed(w) \/ Fail(w), ~Record(w) PROVE art' = art
        BY <3>1 DEF Proceed, Load, Stamp, StampRefused, Upload, Send, Mark, Fail
    <3>2. QED BY Steps, <3>1 DEF Sign, Stall, Age, CooldownEnds, JobDone, JobFailed, Report,
                 TakeJob, SweepFind, SweepNext, SweepDone, SweepFailed, Restart
  <2>3. QED BY <1>0, <2>1, <2>2 DEF SickUnsealed
<1>2. ASSUME NEW v \in Runners,
             run'[v].at \in {"put", "record", "send", "mark", "done"}
      PROVE  run'[v].req \notin Poison
  <2>a. /\ run \in [Runners -> Stage]
        /\ run[v].at \in {"put", "record", "send", "mark", "done"} => run[v].req \notin Poison
        /\ \A q \in Poison : art[q] = 0
      BY <1>0 DEF TypeOK, SickUnsealed, Req
  <2>1. CASE run'[v] = run[v] \/ run'[v] = Idle
      BY <1>2, <2>1, <2>a DEF Idle
  <2>2. CASE Load(v)
      BY <1>2, <2>2, <2>a DEF Load, Finished, Become, Req
  <2>3. CASE Proceed(v) /\ ~Load(v)
      BY <1>2, <2>3, <2>a DEF Proceed, Stamp, StampRefused, Upload, Record, Send, StillToSend,
                             Mark, At, Become, Req
  <2>4. CASE Fail(v)
      BY <1>2, <2>4, <2>a DEF Fail, Become
  <2>5. ASSUME NEW q \in Requests, TakeJob(v, q) PROVE run'[v].at = "load"
      BY <2>a, <2>5 DEF TakeJob, Become
  <2>6. ASSUME SweepNext(v) PROVE run'[v].at = "load"
      BY <2>a, <2>6 DEF SweepNext, Become
  <2>7. QED BY <1>0, <1>2, Moved, <2>1, <2>2, <2>3, <2>4, <2>5, <2>6
<1>3. QED BY <1>1, <1>2 DEF SickUnsealed, Req

\* An alert is raised by the failure that brings the streak to the threshold;
\* only a new process starts the streak of such a request again.
LEMMA AlarmsStep == ASSUME IInv, Next PROVE AlarmsCounted'
<1> USE DEF rows, alert
<1>0. TypeOK /\ SickUnsealed /\ AlarmsCounted
    BY DEF IInv
<1> SUFFICES ASSUME NEW q \in Poison
             PROVE  alarms'[q] <= restarts' + (IF streak'[q] < Threshold THEN 0 ELSE 1)
    BY DEF AlarmsCounted
<1>a. /\ q \in Requests /\ Threshold \in Nat \ {0}
      /\ streak[q] \in Counts /\ alarms[q] \in Nat /\ restarts \in Nat
      /\ streak \in [Requests -> Counts] /\ alarms \in [Requests -> Nat]
      /\ alarms[q] <= restarts + (IF streak[q] < Threshold THEN 0 ELSE 1)
    BY <1>0, ConstantsAssumption DEF TypeOK, AlarmsCounted
<1>b. streak[q] \in Nat
    BY <1>a DEF Counts, Cap
<1>1. CASE UNCHANGED <<alarms, restarts, streak>>
    BY <1>1, <1>a
<1>2. ASSUME NEW s \in Sweeps, SweepDone(s)
      PROVE  alarms' = alarms /\ restarts' = restarts /\ streak'[q] = streak[q]
  <2>1. Req(s) # q
      BY <1>0, <1>2 DEF SweepDone, At, SickUnsealed, Runners
  <2>2. streak'[q] = streak[q]
      BY <1>2, <1>a, <2>1 DEF SweepDone, Put
  <2>3. QED BY <1>2, <2>2 DEF SweepDone
<1>3. ASSUME NEW s \in Sweeps, SweepFailed(s)
      PROVE  alarms'[q] <= restarts' + (IF streak'[q] < Threshold THEN 0 ELSE 1)
  <2>1. restarts' = restarts
      BY <1>3 DEF SweepFailed
  <2>2. CASE Req(s) # q
    <3>1. streak'[q] = streak[q] /\ alarms'[q] = alarms[q]
        BY <1>3, <1>a, <2>2 DEF SweepFailed, Put
    <3>2. QED BY <1>a, <2>1, <3>1
  <2>3. CASE Req(s) = q
    <3>1. /\ streak'[q] = OneMore(streak[q])
          /\ \/ alarms'[q] = alarms[q]
             \/ Reaches(streak[q]) /\ alarms'[q] = alarms[q] + 1
        BY <1>3, <1>a, <2>3 DEF SweepFailed, Put
    <3>2. /\ streak[q] < Threshold => streak'[q] = streak[q] + 1
          /\ ~(streak[q] < Threshold) => ~(streak'[q] < Threshold)
        BY <1>a, <1>b, <3>1 DEF OneMore, Cap
    <3>3. QED BY <1>a, <1>b, <2>1, <3>1, <3>2 DEF Reaches
  <2>4. QED BY <2>2, <2>3
<1>4. CASE Restart
  <2>1. alarms' = alarms /\ restarts' = restarts + 1 /\ streak'[q] = 0
      BY <1>4, <1>a DEF Restart
  <2>2. QED BY <1>a, <2>1
<1>5. \/ UNCHANGED <<alarms, restarts, streak>>
      \/ \E s \in Sweeps : SweepDone(s) \/ SweepFailed(s)
      \/ Restart
  <2>1. ASSUME NEW w \in Runners, Proceed(w) \/ Fail(w) PROVE UNCHANGED <<alarms, restarts, streak>>
      BY <2>1 DEF Proceed, Load, Stamp, StampRefused, Upload, Record, Send, Mark, Fail
  <2>2. QED BY Steps, <2>1 DEF Sign, Stall, Age, CooldownEnds, JobDone, JobFailed, Report,
               TakeJob, SweepFind, SweepNext
<1>6. QED BY <1>1, <1>2, <1>3, <1>4, <1>5, <1>a

-------------------------------------------------------------------------------
\* Nothing happens: nothing changes.
LEMMA Stutter == ASSUME IInv, UNCHANGED vars PROVE IInv'
BY DEF IInv, vars, TypeOK, SignedWork, JobsWithinLimits, RunsHoldTheSeal, CopiesMatchSeal, SealedBytesStored,
       MarkedMeansDelivered, SickUnsealed, AlarmsCounted, At, Req

\* The inductive invariant holds whatever runs, stalls, sweeps, failures and
\* restarts there are: a run only ever works on what is signed, records what
\* is in the bucket and sends what is on the row.
THEOREM Invariance == Spec => []IInv
<1>1. IInv /\ [Next]_vars => IInv'
    BY TypeStep, SignedStep, JobStep, SealStep, CopiesStep, RowStep, SickStep, AlarmsStep, Stutter DEF IInv
<1>2. QED BY <1>1, InvInit, PTL DEF Spec

\* Every variable keeps its type: however jobs fail, stall and are redelivered,
\* the queue counts neither tries nor stalls past their limits.
THEOREM TypeCorrect == Spec => []TypeOK
<1>1. IInv => TypeOK
    BY DEF IInv
<1>2. QED BY <1>1, Invariance, PTL

\* Runs of completeSignature that race for a request (a job, its stalled
\* double, sweeps) never e-mail two different signed PDFs, nor one that the
\* seal on file does not cover.
THEOREM CopiesAreSealed == Spec => []CopiesMatchSeal
<1>1. IInv => CopiesMatchSeal
    BY DEF IInv
<1>2. QED BY <1>1, Invariance, PTL

\* Uploading before recording keeps the row from naming a file that is not in
\* the bucket, wherever a run fails or dies.
THEOREM SealsAreStored == Spec => []SealedBytesStored
<1>1. IInv => SealedBytesStored
    BY DEF IInv
<1>2. QED BY <1>1, Invariance, PTL

\* completion_emailed_at is only set when everyone has had the signed copy,
\* whichever run writes it and whatever failed before.
THEOREM MarksAreDelivered == Spec => []MarkedMeansDelivered
<1>1. IInv => MarkedMeansDelivered
    BY DEF IInv
<1>2. QED BY <1>1, Invariance, PTL

\* A document that cannot be sealed raises at most one alert in each life of
\* the worker process, however many sweeps overlap and cooldowns run out.
THEOREM OneAlarm == Spec => []OneAlarmPerFault
<1>1. IInv => OneAlarmPerFault
  <2>1. SUFFICES ASSUME IInv, NEW q \in Poison PROVE alarms[q] <= 1 + restarts
      BY DEF OneAlarmPerFault
  <2>2. /\ alarms[q] \in Nat /\ restarts \in Nat
        /\ alarms[q] <= restarts + (IF streak[q] < Threshold THEN 0 ELSE 1)
      BY <2>1, ConstantsAssumption DEF IInv, TypeOK, AlarmsCounted
  <2>3. QED BY <2>2
<1>2. QED BY <1>1, Invariance, PTL
===============================================================================
