---------------------------- MODULE BillingProofs ----------------------------
(***************************************************************************)
(* Proofs about Billing for any number of payments, callbacks and periods: *)
(* type correctness, the inductive invariant IInv, the ledger properties   *)
(* it implies, and that a payment settles once.                            *)
(*                                                                         *)
(* Only Checkout, Activate and Cancel write what the ledger properties are *)
(* about (WhoWrites).  Activate appends a period after paid_until; Cancel  *)
(* removes the last one, which IInv shows is the one that ends there.      *)
(***************************************************************************)
EXTENDS Billing, TLAPS

\* The stages a callback moves to, and what they carry.
LEMMA Stages ==
    /\ Idle \in Stage
    /\ \A a \in {"attach", "quote"}, i \in Payments, t \in Txns :
           [at |-> a, pay |-> i, txn |-> t] \in Stage
    /\ \A i \in Payments, t \in Txns, n \in PrepareIds :
           [at |-> "prepare", pay |-> i, txn |-> t, id |-> n] \in Stage
    /\ \A i \in Payments, t \in Nat : [at |-> "activate", pay |-> i, time |-> t] \in Stage
    /\ \A i \in Payments : [at |-> "cancel", pay |-> i] \in Stage
BY DEF Stage, Idle

\* What a stage of a given kind carries.
LEMMA StageFields ==
    ASSUME NEW s \in Stage
    PROVE  /\ s.at # "idle" => s.pay \in Payments
           /\ s.at \in {"attach", "quote", "prepare"} => s.txn \in Txns
           /\ s.at = "prepare" => s.id \in PrepareIds
           /\ s.at = "activate" => s.time \in Nat
BY DEF Stage

\* A granted period starts at a time and is not empty.
LEMMA Granted ==
    ASSUME TypeOK, NEW t \in Nat
    PROVE  /\ GrantedFrom(t) \in Nat
           /\ GrantedFrom(t) >= t /\ GrantedFrom(t) >= paidUntil
           /\ \A len \in PeriodLengths : GrantedFrom(t) + len \in Nat
           /\ \A len \in PeriodLengths : GrantedFrom(t) < GrantedFrom(t) + len
BY ConstantsAssumption DEF TypeOK, GrantedFrom

-------------------------------------------------------------------------------
\* The ledger starts out well typed,
LEMMA TypeInit == Init => TypeOK
BY ConstantsAssumption, Stages DEF Init, TypeOK

\* The reads move one callback on, and remember a reported time.
LEMMA TypeRead ==
    ASSUME TypeOK, NEW p \in Handlers, Read(p)
    PROVE  TypeOK'
<1>1. h' \in [Handlers -> Stage]
  <2>1. ASSUME NEW s \in Stage, Become(p, s) PROVE h' \in [Handlers -> Stage]
    BY <2>1 DEF TypeOK, Become
  <2>2. ASSUME NEW i \in Payments, PaymePerform(p, i) PROVE h' \in [Handlers -> Stage]
    <3>1. [at |-> "activate", pay |-> i, time |-> now] \in Stage
        BY Stages DEF TypeOK
    <3>2. h \in [Handlers -> Stage]
        BY DEF TypeOK
    <3>3. QED BY <2>1, <2>2, <3>1, <3>2 DEF PaymePerform
  <2>3. ASSUME NEW i \in Payments, PaymeCancel(p, i) PROVE h' \in [Handlers -> Stage]
    BY <2>1, <2>3, Stages DEF PaymeCancel
  <2>4. ASSUME NEW i \in Payments, ClickComplete(p, i) PROVE h' \in [Handlers -> Stage]
    <3>1. /\ [at |-> "activate", pay |-> i, time |-> now] \in Stage
          /\ [at |-> "cancel", pay |-> i] \in Stage
        BY Stages DEF TypeOK
    <3>2. QED BY <2>1, <2>4, <3>1 DEF ClickComplete
  <2>5. ASSUME NEW i \in Payments, NEW t \in Txns, PaymeCreate(p, i, t)
        PROVE  h' \in [Handlers -> Stage]
    BY <2>1, <2>5, Stages DEF PaymeCreate
  <2>6. ASSUME NEW i \in Payments, NEW t \in Txns, ClickPrepare(p, i, t)
        PROVE  h' \in [Handlers -> Stage]
    BY <2>1, <2>6, Stages DEF ClickPrepare
  <2>7. QED BY <2>2, <2>3, <2>4, <2>5, <2>6 DEF Read
<1>2. reported' \in [Payments -> SUBSET Nat]
  <2>1. ASSUME NEW i \in Payments, PaymePerform(p, i)
        PROVE  reported' \in [Payments -> SUBSET Nat]
    <3>1. paidAt[i] \in Nat
        BY DEF TypeOK
    <3>2. QED BY <2>1, <3>1 DEF PaymePerform, TypeOK
  <2>2. QED
    BY <2>1 DEF Read, PaymeCancel, ClickComplete, PaymeCreate, ClickPrepare, TypeOK
<1>3. UNCHANGED <<tenant, claims, ledger, now, forHuman>>
    BY DEF Read, PaymePerform, PaymeCancel, ClickComplete, PaymeCreate, ClickPrepare
<1>4. QED BY <1>1, <1>2, <1>3 DEF TypeOK, tenant, claims, ledger

\* The writes store what the reads carried.
LEMMA TypeWrite ==
    ASSUME TypeOK, NEW p \in Handlers, Write(p)
    PROVE  TypeOK'
<1>s. h[p] \in Stage /\ h \in [Handlers -> Stage]
    BY DEF TypeOK
<1>b. ASSUME NEW s \in Stage, Become(p, s) PROVE h' \in [Handlers -> Stage]
    BY <1>b, <1>s DEF Become
<1>1. CASE Attach(p)
  <2>1. h[p].pay \in Payments /\ h[p].txn \in Txns /\ now \in Nat /\ Born[h[p].txn] \in Nat
    BY <1>1, <1>s, StageFields, ConstantsAssumption DEF Attach, TypeOK
  <2>2. h' \in [Handlers -> Stage]
    BY <1>1, <1>b, Stages DEF Attach
  <2>3. /\ txn' \in [Payments -> Txns \cup {NoTxn}]
        /\ createdAt' \in [Payments -> Nat]
    BY <1>1, <2>1 DEF Attach, TypeOK
  <2>4. QED BY <1>1, <2>2, <2>3 DEF Attach, TypeOK, tenant, ledger
<1>2. CASE AttachPrepareId(p)
  <2>1. h[p].pay \in Payments /\ h[p].txn \in Txns /\ h[p].id \in PrepareIds
    BY <1>2, <1>s, StageFields DEF AttachPrepareId, At
  <2>2. h' \in [Handlers -> Stage]
    BY <1>2, <1>b, <2>1, Stages DEF AttachPrepareId
  <2>3. prepareId' \in [Payments -> PrepareIds \cup {0}]
    BY <1>2, <2>1 DEF AttachPrepareId, TypeOK
  <2>4. QED BY <1>2, <2>2, <2>3 DEF AttachPrepareId, TypeOK, tenant, ledger
<1>3. CASE Activate(p)
  <2> DEFINE i == h[p].pay
             t == h[p].time
  <2>1. i \in Payments /\ t \in Nat
    BY <1>3, <1>s, StageFields DEF Activate, At
  <2>2. h' \in [Handlers -> Stage]
    BY <1>3, <1>b, Stages DEF Activate
  <2>3. reported' \in [Payments -> SUBSET Nat]
    BY <1>3, <2>1 DEF Activate, TypeOK
  <2>4. CASE Payable(i)
    <3>1. PICK len \in PeriodLengths :
             /\ status' = [status EXCEPT ![i] = "paid"]
             /\ paidAt' = [paidAt EXCEPT ![i] = t]
             /\ start' = [start EXCEPT ![i] = GrantedFrom(t)]
             /\ end' = [end EXCEPT ![i] = GrantedFrom(t) + len]
             /\ plan' = "pro"
             /\ paidUntil' = GrantedFrom(t) + len
        BY <1>3, <2>4 DEF Activate
    <3>2. GrantedFrom(t) \in Nat /\ GrantedFrom(t) + len \in Nat
        BY <2>1, Granted
    <3>3. /\ status' \in [Payments -> {"none", "pending", "paid", "cancelled"}]
          /\ paidAt' \in [Payments -> Nat]
          /\ start' \in [Payments -> Nat]
          /\ end' \in [Payments -> Nat]
          /\ plan' \in {"trial", "pro"} /\ paidUntil' \in Nat
        BY <2>1, <3>1, <3>2 DEF TypeOK
    <3>4. QED BY <1>3, <2>2, <2>3, <3>3 DEF Activate, TypeOK, claims
  <2>5. CASE ~Payable(i)
    BY <1>3, <2>2, <2>3, <2>5 DEF Activate, TypeOK, claims, ledger
  <2>6. QED BY <2>4, <2>5
<1>4. CASE Cancel(p)
  <2>1. h[p].pay \in Payments
    BY <1>4, <1>s, StageFields DEF Cancel, At
  <2>2. h' \in [Handlers -> Stage]
    BY <1>4, <1>b, Stages DEF Cancel
  <2>3. /\ status' \in [Payments -> {"none", "pending", "paid", "cancelled"}]
        /\ paidUntil' \in Nat
        /\ forHuman' \subseteq Payments
    BY <1>4, <2>1 DEF Cancel, TypeOK, TakenBack
  <2>4. QED BY <1>4, <2>2, <2>3 DEF Cancel, TypeOK, claims
<1>5. QED BY <1>1, <1>2, <1>3, <1>4 DEF Write

\* and every step of checkout, the callbacks, set-plan and the clock keeps it so.
LEMMA TypeStep == TypeOK /\ [Next]_vars => TypeOK'
<1> SUFFICES ASSUME TypeOK, [Next]_vars PROVE TypeOK'
    OBVIOUS
<1>1. ASSUME NEW i \in Payments, Checkout(i) PROVE TypeOK'
  <2>1. status' \in [Payments -> {"none", "pending", "paid", "cancelled"}]
    BY <1>1 DEF Checkout, TypeOK
  <2>2. QED BY <1>1, <2>1 DEF Checkout, TypeOK, tenant, claims
<1>2. ASSUME NEW p \in Handlers, Crash(p) PROVE TypeOK'
  <2>1. h' \in [Handlers -> Stage]
    BY <1>2, Stages DEF Crash, Become, TypeOK
  <2>2. QED BY <1>2, <2>1 DEF Crash, TypeOK, tenant, claims, ledger
<1>3. ASSUME NEW pl \in {"trial", "pro"}, SetPlan(pl) PROVE TypeOK'
  <2>1. plan' \in {"trial", "pro"} /\ trialEnd' \in Nat
    BY <1>3, ConstantsAssumption DEF SetPlan, TypeOK
  <2>2. QED BY <1>3, <2>1 DEF SetPlan, TypeOK, claims, ledger
<1>4. CASE Tick
    BY <1>4 DEF Tick, TypeOK, tenant, claims, ledger
<1>5. CASE UNCHANGED vars
    BY <1>5 DEF vars, TypeOK
<1>6. QED BY <1>1, <1>2, <1>3, <1>4, <1>5, TypeRead, TypeWrite DEF Next

\* Type correctness: every row and every callback in flight is well formed.
THEOREM TypeCorrect == Spec => []TypeOK
<1>1. QED BY TypeInit, TypeStep, PTL DEF Spec

-------------------------------------------------------------------------------
\* The other actions leave the ledger and paid_until alone; the clock only
\* moves forward.
LEMMA WhoWrites ==
    ASSUME TypeOK, [Next]_vars
    PROVE  /\ now <= now'
           /\ \/ \E i \in Payments : Checkout(i)
              \/ \E p \in Handlers : Activate(p) \/ Cancel(p)
              \/ UNCHANGED <<ledger, paidUntil, forHuman>>
<1>n. now \in Nat
    BY DEF TypeOK
<1>1. ASSUME NEW p \in Handlers, Read(p)
      PROVE  UNCHANGED <<ledger, paidUntil, forHuman, now>>
    BY <1>1 DEF Read, PaymePerform, PaymeCancel, ClickComplete, PaymeCreate, ClickPrepare, tenant
<1>2. ASSUME NEW p \in Handlers, Attach(p) \/ AttachPrepareId(p) \/ Crash(p)
      PROVE  UNCHANGED <<ledger, paidUntil, forHuman, now>>
    BY <1>2 DEF Attach, AttachPrepareId, Crash, tenant
<1>3. ASSUME NEW p \in Handlers, Activate(p) \/ Cancel(p) PROVE UNCHANGED now
    BY <1>3 DEF Activate, Cancel
<1>4. ASSUME NEW i \in Payments, Checkout(i) PROVE UNCHANGED now
    BY <1>4 DEF Checkout
<1>5. ASSUME NEW pl, SetPlan(pl) PROVE UNCHANGED <<ledger, paidUntil, forHuman, now>>
    BY <1>5 DEF SetPlan
<1>6. Tick => now' = now + 1 /\ UNCHANGED <<ledger, paidUntil, forHuman>>
    BY DEF Tick, tenant
<1>7. UNCHANGED vars => UNCHANGED <<ledger, paidUntil, forHuman, now>>
    BY DEF vars, ledger
<1>8. QED BY <1>n, <1>1, <1>2, <1>3, <1>4, <1>5, <1>6, <1>7 DEF Next, Write

\* A callback about to activate read the clock when it started.
LEMMA ReadingsStep ==
    ASSUME TypeOK, ReadingsPast, [Next]_vars
    PROVE  ReadingsPast'
<1> SUFFICES ASSUME NEW q \in Handlers, h'[q].at = "activate" PROVE h'[q].time <= now'
    BY DEF ReadingsPast, At
<1>n. now \in Nat /\ now <= now' /\ now' \in Nat
    BY WhoWrites, TypeStep DEF TypeOK
<1>h. h \in [Handlers -> Stage]
    BY DEF TypeOK
<1>1. CASE h'[q] = h[q]
  <2>1. h[q].time <= now /\ h[q].time \in Nat
    BY <1>1, <1>h, StageFields DEF ReadingsPast, At
  <2>2. QED BY <1>1, <1>n, <2>1
<1>2. CASE h'[q] # h[q]
  <2>1. ASSUME NEW p \in Handlers, NEW s, Become(p, s) PROVE p = q /\ h'[q] = s
    BY <1>2, <1>h, <2>1 DEF Become
  <2>2. ASSUME NEW p \in Handlers, Write(p) \/ Crash(p) PROVE FALSE
    <3>1. h'[q].at \in {"idle", "quote"}
        BY <2>1, <2>2 DEF Write, Crash, Attach, AttachPrepareId, Activate, Cancel, Idle
    <3>2. QED BY <3>1
  <2>3. ASSUME NEW p \in Handlers, Read(p) PROVE h'[q].time = now
    <3>1. ASSUME NEW i \in Payments, PaymePerform(p, i) PROVE h'[q].time = now
        BY <1>2, <2>1, <3>1 DEF PaymePerform
    <3>2. ASSUME NEW i \in Payments, ClickComplete(p, i) PROVE h'[q].time = now
      <4>1. h'[q] \in {[at |-> "activate", pay |-> i, time |-> now],
                       [at |-> "cancel", pay |-> i]}
          BY <2>1, <3>2 DEF ClickComplete
      <4>2. QED BY <4>1
    <3>3. ASSUME NEW i \in Payments, NEW t \in Txns,
                 PaymeCreate(p, i, t) \/ ClickPrepare(p, i, t)
          PROVE  FALSE
      <4>1. CASE PaymeCreate(p, i, t)
        <5>1. h'[q] = [at |-> "attach", pay |-> i, txn |-> t]
            BY <2>1, <4>1 DEF PaymeCreate
        <5>2. QED BY <5>1
      <4>2. CASE ClickPrepare(p, i, t)
        <5>1. \/ h'[q] = [at |-> "quote", pay |-> i, txn |-> t]
              \/ \E n \in PrepareIds :
                    h'[q] = [at |-> "prepare", pay |-> i, txn |-> t, id |-> n]
            BY <2>1, <4>2 DEF ClickPrepare
        <5>2. CASE h'[q] = [at |-> "quote", pay |-> i, txn |-> t]
            BY <5>2
        <5>3. ASSUME NEW n \in PrepareIds,
                     h'[q] = [at |-> "prepare", pay |-> i, txn |-> t, id |-> n]
              PROVE  FALSE
            BY <5>3
        <5>4. QED BY <5>1, <5>2, <5>3
      <4>3. QED BY <3>3, <4>1, <4>2
    <3>4. ASSUME NEW i \in Payments, PaymeCancel(p, i) PROVE FALSE
      <4>1. h'[q].at = "cancel"
          BY <2>1, <3>4 DEF PaymeCancel
      <4>2. QED BY <4>1
    <3>5. QED BY <2>3, <3>1, <3>2, <3>3, <3>4 DEF Read
  <2>4. ASSUME NEW i \in Payments, Checkout(i) PROVE FALSE
    BY <1>2, <2>4 DEF Checkout
  <2>5. \A pl : SetPlan(pl) => FALSE
    BY <1>2 DEF SetPlan
  <2>6. ~Tick /\ ~UNCHANGED vars
    BY <1>2 DEF Tick, vars
  <2>7. h'[q].time = now
    BY <2>2, <2>3, <2>4, <2>5, <2>6 DEF Next
  <2>8. QED BY <2>7, <1>n
<1>3. QED BY <1>1, <1>2

-------------------------------------------------------------------------------
\* The conjuncts of IInv that speak of the ledger.
Books == /\ PeriodsReal /\ PaidTimeKept /\ PeriodsDisjoint
         /\ PeriodsStacked /\ OpenTimeWasBought /\ HumanCancelled

\* They survive whatever leaves the ledger alone while time passes,
LEMMA BooksKept ==
    ASSUME TypeOK, Books, [Next]_vars, UNCHANGED <<ledger, paidUntil, forHuman>>
    PROVE  Books'
<1>n. now \in Nat /\ now' \in Nat /\ now <= now'
    BY WhoWrites, TypeStep DEF TypeOK
<1>1. UNCHANGED <<status, paidAt, start, end, paidUntil, forHuman>>
    BY DEF ledger
<1>2. PeriodsReal' /\ PaidTimeKept' /\ PeriodsDisjoint' /\ HumanCancelled'
    BY <1>1 DEF Books, PeriodsReal, PaidTimeKept, PeriodsDisjoint, HumanCancelled, Paid
<1>3. PeriodsStacked'
    BY <1>1, <1>n DEF Books, PeriodsStacked, Paid, TypeOK
<1>4. OpenTimeWasBought'
    BY <1>1, <1>n DEF Books, OpenTimeWasBought, Paid, TypeOK
<1>5. QED BY <1>2, <1>3, <1>4 DEF Books

\* opening a purchase,
LEMMA BooksCheckout ==
    ASSUME TypeOK, Books, NEW i \in Payments, Checkout(i)
    PROVE  Books'
<1>1. /\ UNCHANGED <<paidAt, start, end, paidUntil, forHuman, now>>
      /\ status' = [status EXCEPT ![i] = "pending"] /\ status[i] = "none"
    BY DEF Checkout, tenant
<1>2. \A j \in Payments : Paid(j)' <=> Paid(j)
    BY <1>1 DEF Paid, TypeOK
<1>3. PeriodsReal' /\ HumanCancelled'
    BY <1>1, <1>2 DEF Books, PeriodsReal, HumanCancelled, TypeOK
<1>4. PaidTimeKept' /\ PeriodsDisjoint' /\ PeriodsStacked' /\ OpenTimeWasBought'
    BY <1>1, <1>2 DEF Books, PaidTimeKept, PeriodsDisjoint, PeriodsStacked, OpenTimeWasBought
<1>5. QED BY <1>3, <1>4 DEF Books

\* granting a period: it starts at or after paid_until, so after every other,
LEMMA BooksActivate ==
    ASSUME TypeOK, Books, ReadingsPast, NEW p \in Handlers, Activate(p)
    PROVE  Books'
<1> DEFINE i == h[p].pay
           t == h[p].time
<1>h. i \in Payments /\ t \in Nat /\ t <= now /\ now \in Nat /\ paidUntil \in Nat
    BY StageFields DEF Activate, ReadingsPast, At, TypeOK
<1>u. UNCHANGED <<forHuman, now>>
    BY DEF Activate
<1>1. CASE ~Payable(i)
  <2>1. UNCHANGED <<status, paidAt, start, end, paidUntil>>
    BY <1>1 DEF Activate, ledger
  <2>2. QED
    BY <2>1, <1>u DEF Books, PeriodsReal, PaidTimeKept, PeriodsDisjoint, PeriodsStacked,
                      OpenTimeWasBought, HumanCancelled, Paid
<1>2. CASE Payable(i)
  <2>1. PICK len \in PeriodLengths :
           /\ status' = [status EXCEPT ![i] = "paid"]
           /\ start' = [start EXCEPT ![i] = GrantedFrom(t)]
           /\ end' = [end EXCEPT ![i] = GrantedFrom(t) + len]
           /\ paidUntil' = GrantedFrom(t) + len
    BY <1>2 DEF Activate
  <2> DEFINE g == GrantedFrom(t)
             e == GrantedFrom(t) + len
  <2>2. g \in Nat /\ e \in Nat /\ g < e /\ g >= paidUntil
    BY <1>h, Granted
  <2>3. /\ status[i] = "pending" /\ status'[i] = "paid" /\ start'[i] = g /\ end'[i] = e
        /\ \A j \in Payments \ {i} : /\ status'[j] = status[j]
                                     /\ start'[j] = start[j] /\ end'[j] = end[j]
    BY <1>h, <1>2, <2>1 DEF Payable, TypeOK
  <2>4. i \notin forHuman
    BY <2>3 DEF Books, HumanCancelled
  <2>5. \A j \in Payments : start[j] \in Nat /\ end[j] \in Nat
    BY DEF TypeOK
  <2> HIDE DEF i, t, g, e
  <2>6. PeriodsReal' /\ HumanCancelled'
    <3>1. PeriodsReal'
        BY <1>h, <1>u, <2>2, <2>3, <2>4 DEF Books, PeriodsReal, Paid
    <3>2. forHuman \subseteq Payments \ {i}
        BY <2>4 DEF TypeOK
    <3>3. QED BY <1>u, <2>3, <3>1, <3>2 DEF Books, HumanCancelled
  <2>7. PaidTimeKept'
    BY <1>h, <2>1, <2>2, <2>3, <2>5 DEF Books, PaidTimeKept, Paid, e
  <2>8. PeriodsDisjoint'
    <3>1. ASSUME NEW j \in Payments \ {i}, Paid(j) PROVE end[j] <= g
        BY <1>h, <2>2, <2>5, <3>1 DEF Books, PaidTimeKept
    <3>2. QED BY <1>h, <2>3, <3>1 DEF Books, PeriodsDisjoint, Paid
  <2>9. \A j \in Payments : Paid(j) \/ j \in forHuman =>
            (Paid(j)' \/ j \in forHuman') /\ end'[j] = end[j]
    BY <1>h, <1>u, <2>3, <2>4 DEF Paid
  <2>10. PeriodsStacked'
    <3>1. CASE paidUntil > now
      <4>1. g = paidUntil
          BY <1>h, <3>1 DEF GrantedFrom, g
      <4>2. PICK j \in Payments : (Paid(j) \/ j \in forHuman) /\ end[j] = paidUntil
          BY <3>1 DEF Books, OpenTimeWasBought
      <4>3. (Paid(j)' \/ j \in forHuman') /\ end'[j] = start'[i]
          BY <2>3, <2>9, <4>1, <4>2
      <4>4. QED BY <1>h, <1>u, <2>3, <2>9, <4>3 DEF Books, PeriodsStacked, Paid
    <3>2. CASE ~(paidUntil > now)
      <4>1. start'[i] <= now'
          BY <1>h, <1>u, <2>3, <3>2 DEF GrantedFrom, g
      <4>2. QED BY <1>h, <1>u, <2>3, <2>9, <4>1 DEF Books, PeriodsStacked, Paid
    <3>3. QED BY <3>1, <3>2
  <2>11. OpenTimeWasBought'
    BY <1>h, <2>1, <2>3 DEF OpenTimeWasBought, Paid, e
  <2>12. QED BY <2>6, <2>7, <2>8, <2>10, <2>11 DEF Books
<1>3. QED BY <1>1, <1>2

\* and reversing a payment: only the last period is ever taken back, and
\* whatever it was stacked on still counts.
LEMMA BooksCancel ==
    ASSUME TypeOK, Books, NEW p \in Handlers, Cancel(p)
    PROVE  Books'
<1>i. PICK i \in Payments : i = h[p].pay
    BY StageFields DEF Cancel, At, TypeOK
<1>h. now \in Nat /\ paidUntil \in Nat /\ forHuman \subseteq Payments
    BY DEF TypeOK
<1>u. UNCHANGED <<start, end, now>>
    BY DEF Cancel
<1>t. \A j \in Payments : start[j] \in Nat /\ end[j] \in Nat
    BY DEF TypeOK
<1>1. CASE ~Cancelable(i)
  <2>1. UNCHANGED <<status, paidUntil, forHuman>>
    BY <1>i, <1>1 DEF Cancel
  <2>2. QED
    BY <2>1, <1>u DEF Books, PeriodsReal, PaidTimeKept, PeriodsDisjoint, PeriodsStacked,
                      OpenTimeWasBought, HumanCancelled, Paid
<1>2. CASE Cancelable(i)
  <2>1. /\ status' = [status EXCEPT ![i] = "cancelled"]
        /\ paidUntil' = TakenBack(i)
        /\ forHuman' = IF end[i] # 0 /\ ~LastGranted(i) THEN forHuman \cup {i} ELSE forHuman
    BY <1>i, <1>2 DEF Cancel
  <2>2. /\ status'[i] = "cancelled" /\ ~Paid(i)'
        /\ \A j \in Payments \ {i} : status'[j] = status[j] /\ (Paid(j)' <=> Paid(j))
    BY <1>h, <2>1 DEF TypeOK, Paid
  <2>3. i \notin forHuman
    BY <1>2 DEF Books, HumanCancelled, Cancelable
  <2>4. CASE status[i] = "pending"
    <3>1. end[i] = 0 /\ ~Paid(i)
        BY <1>h, <2>4 DEF Books, PeriodsReal, Paid
    <3>2. UNCHANGED <<paidUntil, forHuman>>
        BY <2>1, <3>1 DEF TakenBack, LastGranted
    <3>3. \A j \in Payments : Paid(j)' <=> Paid(j)
        BY <2>2, <3>1
    <3>4. PeriodsReal'
        BY <1>h, <1>u, <2>2, <3>2, <3>3 DEF Books, PeriodsReal
    <3>5. HumanCancelled'
        BY <1>h, <2>2, <2>3, <3>2 DEF Books, HumanCancelled
    <3>6. PaidTimeKept' /\ PeriodsDisjoint' /\ PeriodsStacked' /\ OpenTimeWasBought'
        BY <1>u, <3>2, <3>3 DEF Books, PaidTimeKept, PeriodsDisjoint, PeriodsStacked,
                                OpenTimeWasBought
    <3>7. QED BY <3>4, <3>5, <3>6 DEF Books
  <2>5. CASE Paid(i) /\ paidUntil = end[i]
    <3>1. start[i] < end[i] /\ end[i] # 0
        BY <1>h, <1>t, <2>5 DEF Books, PeriodsReal
    <3>2. paidUntil' = start[i] /\ forHuman' = forHuman
        BY <2>1, <2>5, <3>1 DEF TakenBack, LastGranted
    <3>3. ASSUME NEW j \in Payments \ {i}, Paid(j) PROVE end[j] <= start[i]
      <4>1. start[j] < end[j] /\ end[j] <= end[i]
          BY <2>5, <3>3 DEF Books, PeriodsReal, PaidTimeKept
      <4>2. end[i] <= start[j] \/ end[j] <= start[i]
          BY <1>h, <2>5, <3>3 DEF Books, PeriodsDisjoint
      <4>3. QED BY <1>t, <1>h, <4>1, <4>2
    <3>4. PeriodsReal'
        BY <1>h, <1>u, <2>2, <2>3, <3>2 DEF Books, PeriodsReal
    <3>5. HumanCancelled'
        BY <1>h, <2>2, <2>3, <3>2 DEF Books, HumanCancelled
    <3>6. PaidTimeKept'
        BY <1>u, <2>2, <3>2, <3>3 DEF PaidTimeKept
    <3>7. PeriodsDisjoint'
        BY <1>u, <2>2 DEF Books, PeriodsDisjoint
    <3>8. ASSUME NEW j \in Payments, j # i, Paid(j) \/ j \in forHuman
          PROVE  (Paid(j)' \/ j \in forHuman') /\ end'[j] = end[j]
        BY <1>u, <2>2, <3>2, <3>8
    <3>9. PeriodsStacked'
      <4> SUFFICES ASSUME NEW j \in Payments, Paid(j)', ~(start'[j] <= now')
                   PROVE  \E k \in Payments : (Paid(k)' \/ k \in forHuman') /\ end'[k] = start'[j]
          BY DEF PeriodsStacked
      <4>1. j # i /\ Paid(j)
          BY <2>2
      <4>2. PICK k \in Payments : (Paid(k) \/ k \in forHuman) /\ end[k] = start[j]
          BY <1>u, <4>1 DEF Books, PeriodsStacked
      <4>3. k # i
        <5>1. end[j] <= start[i] /\ start[j] < end[j]
            BY <3>3, <4>1 DEF Books, PeriodsReal
        <5>2. QED BY <1>h, <1>t, <3>1, <4>2, <5>1
      <4>4. QED BY <1>u, <3>8, <4>2, <4>3
    <3>10. OpenTimeWasBought'
      <4> SUFFICES ASSUME paidUntil' > now'
                   PROVE  \E k \in Payments : (Paid(k)' \/ k \in forHuman') /\ end'[k] = paidUntil'
          BY DEF OpenTimeWasBought
      <4>1. ~(start[i] <= now)
          BY <1>h, <1>t, <1>u, <3>2
      <4>2. PICK k \in Payments : (Paid(k) \/ k \in forHuman) /\ end[k] = start[i]
          BY <1>h, <2>5, <4>1 DEF Books, PeriodsStacked
      <4>3. k # i
          BY <1>h, <1>t, <3>1, <4>2
      <4>4. QED BY <3>2, <3>8, <4>2, <4>3
    <3>11. QED BY <3>4, <3>5, <3>6, <3>7, <3>9, <3>10 DEF Books
  <2>6. CASE Paid(i) /\ paidUntil # end[i]
    <3>1. start[i] < end[i] /\ end[i] # 0
        BY <1>h, <1>t, <2>6 DEF Books, PeriodsReal
    <3>2. paidUntil' = paidUntil /\ forHuman' = forHuman \cup {i}
        BY <2>1, <2>6, <3>1 DEF TakenBack, LastGranted
    <3>3. \A j \in Payments : Paid(j) \/ j \in forHuman <=> Paid(j)' \/ j \in forHuman'
        BY <2>2, <2>6, <3>2
    <3>4. PeriodsReal'
        BY <1>h, <1>u, <2>2, <3>1, <3>3 DEF Books, PeriodsReal
    <3>5. HumanCancelled'
        BY <1>h, <2>2, <3>2 DEF Books, HumanCancelled
    <3>6. PaidTimeKept' /\ PeriodsDisjoint'
        BY <1>u, <2>2, <3>2 DEF Books, PaidTimeKept, PeriodsDisjoint
    <3>7. PeriodsStacked' /\ OpenTimeWasBought'
        BY <1>u, <2>2, <3>2, <3>3 DEF Books, PeriodsStacked, OpenTimeWasBought
    <3>8. QED BY <3>4, <3>5, <3>6, <3>7 DEF Books
  <2>7. QED BY <1>2, <2>4, <2>5, <2>6 DEF Cancelable, Paid
<1>3. QED BY <1>1, <1>2

-------------------------------------------------------------------------------
\* The inductive invariant holds before the first checkout,
LEMMA InvInit == Init => IInv
<1> SUFFICES ASSUME Init PROVE IInv
    OBVIOUS
<1>1. TypeOK
    BY TypeInit
<1>2. \A i \in Payments : ~Paid(i) /\ end[i] = 0
    BY DEF Init, Paid
<1>3. forHuman = {} /\ paidUntil = 0 /\ now = 1 /\ \A p \in Handlers : ~At(p, "activate")
    BY DEF Init, At, Idle
<1>4. PeriodsReal /\ PaidTimeKept /\ PeriodsDisjoint /\ PeriodsStacked
    BY <1>2, <1>3 DEF PeriodsReal, PaidTimeKept, PeriodsDisjoint, PeriodsStacked
<1>5. OpenTimeWasBought /\ ReadingsPast /\ HumanCancelled
    BY <1>3 DEF OpenTimeWasBought, ReadingsPast, HumanCancelled
<1>6. QED BY <1>1, <1>4, <1>5 DEF IInv

\* and every step keeps it.
LEMMA InvStep == IInv /\ [Next]_vars => IInv'
<1> SUFFICES ASSUME IInv, [Next]_vars PROVE IInv'
    OBVIOUS
<1>1. TypeOK /\ ReadingsPast /\ Books
    BY DEF IInv, Books
<1>2. TypeOK' /\ ReadingsPast'
    BY <1>1, TypeStep, ReadingsStep
<1>3. Books'
    BY <1>1, WhoWrites, BooksKept, BooksCheckout, BooksActivate, BooksCancel
<1>4. QED BY <1>2, <1>3 DEF IInv, Books

\* The inductive invariant.
THEOREM Invariance == Spec => []IInv
<1>1. QED BY InvInit, InvStep, PTL DEF Spec

\* No instant of access is sold twice, however many payments complete at once,
\* early, or around refunds.
THEOREM PeriodsNeverOverlap == Spec => []PeriodsDisjoint
<1>1. IInv => PeriodsDisjoint
    BY DEF IInv
<1>2. QED BY <1>1, Invariance, PTL

\* A workspace is not locked before the end of a period it paid for and kept.
THEOREM PaidStaysOpen == Spec => []PaidNeverLocked
<1>1. ASSUME IInv PROVE PaidNeverLocked
  <2> SUFFICES ASSUME plan = "pro", NEW i \in Payments, Paid(i), now < end[i]
               PROVE  ~Locked
    BY DEF PaidNeverLocked
  <2>1. end[i] <= paidUntil /\ end[i] \in Nat /\ paidUntil \in Nat /\ now \in Nat
    BY <1>1 DEF IInv, PaidTimeKept, TypeOK
  <2>2. QED BY <2>1 DEF Locked
<1>2. QED BY <1>1, Invariance, PTL

\* Access that is still open was sold and not refunded, or left to a person.
THEOREM OpenTimeSold == Spec => []OpenTimeWasBought
<1>1. IInv => OpenTimeWasBought
    BY DEF IInv
<1>2. QED BY <1>1, Invariance, PTL

\* Repeated and racing callbacks settle a payment once.
THEOREM PaymentsSettleOnce == Spec => SettledOnce
<1> DEFINE Settled ==
      \A i \in Payments :
         /\ Paid(i) => /\ status'[i] \in {"paid", "cancelled"}
                       /\ <<paidAt[i], start[i], end[i]>>' = <<paidAt[i], start[i], end[i]>>
         /\ status[i] = "cancelled" => status'[i] = "cancelled"
<1>1. ASSUME TypeOK, [Next]_vars PROVE Settled
  <2>1. ASSUME NEW j \in Payments, Checkout(j) PROVE Settled
    BY <1>1, <2>1 DEF Checkout, Paid, TypeOK
  <2>2. ASSUME NEW p \in Handlers, Activate(p) PROVE Settled
    <3>1. h[p].pay \in Payments
        BY <1>1, <2>2, StageFields DEF Activate, At, TypeOK
    <3>2. CASE Payable(h[p].pay)
        BY <1>1, <2>2, <3>1, <3>2 DEF Activate, Payable, Paid, TypeOK
    <3>3. CASE ~Payable(h[p].pay)
        BY <2>2, <3>3 DEF Activate, Paid, ledger
    <3>4. QED BY <3>2, <3>3
  <2>3. ASSUME NEW p \in Handlers, Cancel(p) PROVE Settled
    BY <1>1, <2>3 DEF Cancel, Paid, TypeOK
  <2>4. CASE UNCHANGED <<ledger, paidUntil, forHuman>>
    BY <2>4 DEF Paid, ledger
  <2>5. QED BY <1>1, <2>1, <2>2, <2>3, <2>4, WhoWrites
<1>2. QED BY <1>1, TypeCorrect, PTL DEF Spec, SettledOnce
===============================================================================
