------------------------------- MODULE Billing -------------------------------
(***************************************************************************)
(* The payments of one workspace and the access they buy.                  *)
(*                                                                         *)
(* Payme and Click call back about payments the workspace opened; both     *)
(* repeat a call until they like the answer, so any two calls, about one   *)
(* payment or two, may be in flight together.  A call reads the payment,   *)
(* decides, and then writes: activate and cancel lock the workspace's row  *)
(* and claim the payment with a conditional update, attachProviderTxn and  *)
(* attachClickPrepareId just write.  Calls that only answer or refuse      *)
(* change nothing and are left out, unless they report a perform_time.     *)
(*                                                                         *)
(* Time is a small counter; 0 stands for null.  How long the months of a   *)
(* purchase are depends on where in the calendar they start, so it is any  *)
(* of PeriodLengths.  Signatures and amounts are checked before any of     *)
(* this and are not modelled.                                              *)
(***************************************************************************)
EXTENDS Integers

CONSTANTS
    Payments,      \* rows of the ledger, each opened at most once
    Provider,      \* [Payments -> {"payme", "click"}]
    Txns,          \* transaction ids on the providers' side
    Born,          \* [Txns -> Nat], when Payme created each of them
    PrepareIds,    \* the integers newPrepareId may draw
    Handlers,      \* callbacks that may be in flight at once
    PeriodLengths, \* how long the months bought may turn out
    Timeout,       \* PAYME_TRANSACTION_TIMEOUT_MS
    TrialLength,   \* days of a trial given by hand
    MaxTime        \* bound: the clock stops here

NoTxn == "none"

ASSUME ConstantsAssumption ==
    /\ Provider \in [Payments -> {"payme", "click"}]
    /\ NoTxn \notin Txns
    /\ Born \in [Txns -> Nat]
    /\ PrepareIds \subseteq Nat \ {0}
    /\ PeriodLengths \subseteq Nat \ {0}
    /\ Timeout \in Nat /\ TrialLength \in Nat /\ MaxTime \in Nat

VARIABLES
    plan,       \* tenants.plan
    trialEnd,   \* tenants.trial_ends_at
    paidUntil,  \* tenants.paid_until
    status,     \* payments.status, "none" before checkout
    txn,        \* payments.provider_txn_id
    createdAt,  \* payments.provider_created_at
    prepareId,  \* payments.click_prepare_id
    paidAt,     \* payments.paid_at
    start,      \* payments.period_start
    end,        \* payments.period_end
    now,        \* the clock
    h,          \* what each callback is doing, and what it read so far
    \* History, read by no action.
    reported,   \* perform_times answered to Payme
    forHuman    \* reversals logged as "needs a human"

tenant == <<plan, trialEnd, paidUntil>>
ledger == <<status, paidAt, start, end>>
claims == <<txn, createdAt, prepareId>>
vars   == <<plan, trialEnd, paidUntil, status, txn, createdAt, prepareId, paidAt,
            start, end, now, h, reported, forHuman>>

-------------------------------------------------------------------------------
Idle == [at |-> "idle"]
Stage ==
    [at : {"idle"}]
    \cup [at : {"attach", "quote"}, pay : Payments, txn : Txns]
    \cup [at : {"prepare"}, pay : Payments, txn : Txns, id : PrepareIds]
    \cup [at : {"activate"}, pay : Payments, time : Nat]
    \cup [at : {"cancel"}, pay : Payments]

\* Every column holds what its type allows.
TypeOK ==
    /\ plan \in {"trial", "pro"}
    /\ trialEnd \in Nat /\ paidUntil \in Nat /\ now \in Nat
    /\ status \in [Payments -> {"none", "pending", "paid", "cancelled"}]
    /\ txn \in [Payments -> Txns \cup {NoTxn}]
    /\ createdAt \in [Payments -> Nat]
    /\ prepareId \in [Payments -> PrepareIds \cup {0}]
    /\ paidAt \in [Payments -> Nat]
    /\ start \in [Payments -> Nat]
    /\ end \in [Payments -> Nat]
    /\ h \in [Handlers -> Stage]
    /\ reported \in [Payments -> SUBSET Nat]
    /\ forHuman \subseteq Payments

Init ==
    /\ plan = "trial" /\ trialEnd = TrialLength /\ paidUntil = 0
    /\ status = [i \in Payments |-> "none"]
    /\ txn = [i \in Payments |-> NoTxn]
    /\ createdAt = [i \in Payments |-> 0]
    /\ prepareId = [i \in Payments |-> 0]
    /\ paidAt = [i \in Payments |-> 0]
    /\ start = [i \in Payments |-> 0]
    /\ end = [i \in Payments |-> 0]
    /\ now = 1
    /\ h = [p \in Handlers |-> Idle]
    /\ reported = [i \in Payments |-> {}]
    /\ forHuman = {}

-------------------------------------------------------------------------------
At(p, a)     == h[p].at = a
Become(p, s) == h' = [h EXCEPT ![p] = s]

\* requireNotTimedOut.
Fresh(t) == now - t <= Timeout

\* The unique index on (provider, provider_txn_id).
Unclaimed(i, t) == \A j \in Payments \ {i} : Provider[j] = Provider[i] => txn[j] # t

\* grantedPeriod: renewing early starts where the paid time ends.
GrantedFromNow(t) == t
GrantedFrom(t) == IF paidUntil > t THEN paidUntil ELSE t

\* activate claims only what is pending, cancel what is pending or paid.
PayableAgain(i) == status[i] \in {"pending", "paid"}
Payable(i)    == status[i] = "pending"
Cancelable(i) == status[i] \in {"pending", "paid"}

\* What a reversal leaves: the granted period goes if nothing came after it.
EverGranted(i) == end[i] # 0
LastGranted(i) == end[i] # 0 /\ paidUntil = end[i]
NothingTaken(i) == paidUntil
LengthTaken(i)  == start[i] - end[i]
TakenBack(i)   == IF LastGranted(i) THEN start[i] ELSE paidUntil

-------------------------------------------------------------------------------
Checkout(i) ==
    /\ status[i] = "none"
    /\ status' = [status EXCEPT ![i] = "pending"]
    /\ UNCHANGED <<tenant, claims, paidAt, start, end, now, h, reported, forHuman>>

\* The callbacks' reads.  CreateTransaction for an order nobody has claimed yet,
PaymeCreate(p, i, t) ==
    /\ At(p, "idle")
    /\ Provider[i] = "payme"
    /\ txn[i] = NoTxn
    /\ Payable(i)
    /\ Born[t] <= now /\ Fresh(Born[t])
    /\ Become(p, [at |-> "attach", pay |-> i, txn |-> t])
    /\ UNCHANGED <<tenant, claims, ledger, now, reported, forHuman>>

\* PerformTransaction, which looks the payment up by Payme's id,
PaymePerform(p, i) ==
    /\ At(p, "idle")
    /\ Provider[i] = "payme" /\ txn[i] # NoTxn
    /\ \/ /\ status[i] = "paid"
          /\ reported' = [reported EXCEPT ![i] = @ \cup {paidAt[i]}]
          /\ UNCHANGED h
       \/ /\ Payable(i) /\ Fresh(createdAt[i])
          /\ Become(p, [at |-> "activate", pay |-> i, time |-> now])
          /\ UNCHANGED reported
    /\ UNCHANGED <<tenant, claims, ledger, now, forHuman>>

\* CancelTransaction,
PaymeCancel(p, i) ==
    /\ At(p, "idle")
    /\ Provider[i] = "payme" /\ txn[i] # NoTxn
    /\ Cancelable(i)
    /\ Become(p, [at |-> "cancel", pay |-> i])
    /\ UNCHANGED <<tenant, claims, ledger, now, reported, forHuman>>

\* Click's Prepare, with the id it issued before or a new one,
ClickPrepare(p, i, t) ==
    /\ At(p, "idle")
    /\ Provider[i] = "click"
    /\ Payable(i)
    /\ \/ /\ prepareId[i] # 0
          /\ Become(p, [at |-> "quote", pay |-> i, txn |-> t])
       \/ /\ prepareId[i] = 0
          /\ \E n \in PrepareIds :
               Become(p, [at |-> "prepare", pay |-> i, txn |-> t, id |-> n])
    /\ UNCHANGED <<tenant, claims, ledger, now, reported, forHuman>>

\* and its Complete, quoting the stored id, for money that moved or did not.
ClickComplete(p, i) ==
    /\ At(p, "idle")
    /\ Provider[i] = "click"
    /\ prepareId[i] # 0
    /\ \/ Payable(i) /\ Become(p, [at |-> "activate", pay |-> i, time |-> now])
       \/ status[i] # "cancelled" /\ Become(p, [at |-> "cancel", pay |-> i])
    /\ UNCHANGED <<tenant, claims, ledger, now, reported, forHuman>>

-------------------------------------------------------------------------------
\* attachProviderTxn, last in CreateTransaction and in Prepare: no condition on
\* the row; a transaction id another payment holds makes it throw.
Attach(p) ==
    LET i == h[p].pay
        t == h[p].txn
    IN  /\ h[p].at \in {"attach", "quote"}
        /\ IF Unclaimed(i, t)
           THEN /\ txn' = [txn EXCEPT ![i] = t]
                /\ createdAt' = [createdAt EXCEPT ![i] =
                                   IF At(p, "attach") THEN Born[t] ELSE now]
           ELSE UNCHANGED <<txn, createdAt>>
        /\ Become(p, Idle)
        /\ UNCHANGED <<tenant, prepareId, ledger, now, reported, forHuman>>

\* attachClickPrepareId.
AttachPrepareId(p) ==
    /\ At(p, "prepare")
    /\ prepareId' = [prepareId EXCEPT ![h[p].pay] = h[p].id]
    /\ Become(p, [at |-> "quote", pay |-> h[p].pay, txn |-> h[p].txn])
    /\ UNCHANGED <<tenant, txn, createdAt, ledger, now, reported, forHuman>>

\* activate, at the time its caller read; whether it found anything to do
\* makes no difference to what performTransaction then answers.
Activate(p) ==
    LET i == h[p].pay
        t == h[p].time
    IN  /\ At(p, "activate")
        /\ IF Payable(i)
           THEN \E len \in PeriodLengths :
                  /\ status' = [status EXCEPT ![i] = "paid"]
                  /\ paidAt' = [paidAt EXCEPT ![i] = t]
                  /\ start' = [start EXCEPT ![i] = GrantedFrom(t)]
                  /\ end' = [end EXCEPT ![i] = GrantedFrom(t) + len]
                  /\ plan' = "pro"
                  /\ paidUntil' = GrantedFrom(t) + len
           ELSE UNCHANGED <<ledger, plan, paidUntil>>
        /\ reported' = IF Provider[i] = "payme"
                       THEN [reported EXCEPT ![i] = @ \cup {t}] ELSE reported
        /\ Become(p, Idle)
        /\ UNCHANGED <<trialEnd, claims, now, forHuman>>

\* cancel; a reversal it cannot unpick is left to a person.
Cancel(p) ==
    LET i == h[p].pay IN
    /\ At(p, "cancel")
    /\ IF Cancelable(i)
       THEN /\ status' = [status EXCEPT ![i] = "cancelled"]
            /\ paidUntil' = TakenBack(i)
            /\ forHuman' = IF end[i] # 0 /\ ~LastGranted(i)
                           THEN forHuman \cup {i} ELSE forHuman
       ELSE UNCHANGED <<status, paidUntil, forHuman>>
    /\ Become(p, Idle)
    /\ UNCHANGED <<plan, trialEnd, claims, paidAt, start, end, now, reported>>

-------------------------------------------------------------------------------
\* scripts/set-plan.mjs, run by hand.
SetPlan(pl) ==
    /\ plan' = pl
    /\ trialEnd' = IF pl = "trial" THEN now + TrialLength ELSE trialEnd
    /\ UNCHANGED <<paidUntil, claims, ledger, now, h, reported, forHuman>>

Tick ==
    /\ now < MaxTime
    /\ now' = now + 1
    /\ UNCHANGED <<tenant, claims, ledger, h, reported, forHuman>>

\* The process dies, or the write of the call fails.
Crash(p) ==
    /\ ~At(p, "idle")
    /\ Become(p, Idle)
    /\ UNCHANGED <<tenant, claims, ledger, now, reported, forHuman>>

Read(p) ==
    \E i \in Payments :
        \/ PaymePerform(p, i) \/ PaymeCancel(p, i) \/ ClickComplete(p, i)
        \/ \E t \in Txns : PaymeCreate(p, i, t) \/ ClickPrepare(p, i, t)

Write(p) == Attach(p) \/ AttachPrepareId(p) \/ Activate(p) \/ Cancel(p)

Next ==
    \/ \E i \in Payments : Checkout(i)
    \/ \E p \in Handlers : Read(p) \/ Write(p) \/ Crash(p)
    \/ \E pl \in {"trial", "pro"} : SetPlan(pl)
    \/ Tick

Spec == Init /\ [][Next]_vars

-------------------------------------------------------------------------------
Paid(i) == status[i] = "paid"

\* tenantAccess and accessLocked: is the product closed to the workspace?
Locked == IF plan = "pro" THEN paidUntil # 0 /\ paidUntil <= now ELSE trialEnd <= now

\* No instant is sold twice: payments that complete together, or early, or around
\* a refund, are granted periods that do not overlap.
PeriodsDisjoint ==
    \A i, j \in Payments :
        i # j /\ Paid(i) /\ Paid(j) => end[i] <= start[j] \/ end[j] <= start[i]

\* Whatever else is refunded, the workspace is not locked before the end of a
\* period it has paid for and kept (unless it was put on a trial by hand).
PaidNeverLocked ==
    plan = "pro" => \A i \in Payments : Paid(i) /\ now < end[i] => ~Locked

\* Time still ahead was sold: it ends where a paid payment does, or one whose
\* reversal was left to a person.
OpenTimeWasBought ==
    paidUntil > now =>
        \E i \in Payments : (Paid(i) \/ i \in forHuman) /\ end[i] = paidUntil

\* Repeats of a call settle a payment once: after it was paid its time and period
\* stand, and after it was cancelled it stays so.
SettledOnce ==
    [][\A i \in Payments :
         /\ Paid(i) => /\ status'[i] \in {"paid", "cancelled"}
                       /\ <<paidAt[i], start[i], end[i]>>' = <<paidAt[i], start[i], end[i]>>
         /\ status[i] = "cancelled" => status'[i] = "cancelled"]_vars

-------------------------------------------------------------------------------
(***************************************************************************)
(* The inductive invariant behind the proofs.                              *)
(***************************************************************************)
\* Only a payment that was granted has a period, and it is not empty.
PeriodsReal ==
    \A i \in Payments :
        /\ Paid(i) \/ i \in forHuman => start[i] < end[i]
        /\ status[i] \in {"none", "pending"} => end[i] = 0

\* No paid period reaches past paid_until.
PaidTimeKept == \A i \in Payments : Paid(i) => end[i] <= paidUntil

\* A paid period starts in the past, or where another that still counts ends.
PeriodsStacked ==
    \A i \in Payments :
        Paid(i) => \/ start[i] <= now
                   \/ \E j \in Payments : (Paid(j) \/ j \in forHuman) /\ end[j] = start[i]

\* A caller's clock reading is not from the future.
ReadingsPast == \A p \in Handlers : At(p, "activate") => h[p].time <= now

\* Only cancelled payments are left to a person.
HumanCancelled == \A i \in forHuman : status[i] = "cancelled"

IInv ==
    /\ TypeOK
    /\ PeriodsReal /\ PaidTimeKept /\ PeriodsDisjoint
    /\ PeriodsStacked /\ OpenTimeWasBought
    /\ ReadingsPast /\ HumanCancelled

-------------------------------------------------------------------------------
\* "timestamps go back out exactly as they were recorded": a perform_time
\* that was answered is the one the payment was paid at.
PerformTimesRecorded ==
    \A i \in Payments : \A t \in reported[i] : t = paidAt[i]
===============================================================================
